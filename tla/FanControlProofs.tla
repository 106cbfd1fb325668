-------------------------- MODULE FanControlProofs --------------------------
(***************************************************************************)
(* Theorems about FanControl, for any zones, fans, gains and seek steps.   *)
(***************************************************************************)
EXTENDS FanControl, TLAPS, WellFoundedInduction

(* Minima and maxima *)

LEMMA MaxPair ==
    ASSUME NEW a \in Int, NEW b \in Int
    PROVE  Max({a, b}) = IF a >= b THEN a ELSE b
  BY DEF Max

LEMMA MinPair ==
    ASSUME NEW a \in Int, NEW b \in Int
    PROVE  Min({a, b}) = IF a <= b THEN a ELSE b
  BY DEF Min

LEMMA MaxTriple ==
    ASSUME NEW a \in Int, NEW b \in Int, NEW c \in Int
    PROVE  /\ Max({a, b, c}) \in {a, b, c}
           /\ Max({a, b, c}) >= a /\ Max({a, b, c}) >= b /\ Max({a, b, c}) >= c
  <1>1. \E x \in {a, b, c} : \A y \in {a, b, c} : x >= y
    OBVIOUS
  <1>2. QED
    BY <1>1 DEF Max

LEMMA MinExists ==
    ASSUME NEW S \in SUBSET Nat, S # {}
    PROVE  Min(S) \in S /\ \A y \in S : Min(S) <= y
  <1>1. \E x \in S : \A y \in S : ~(<<y, x>> \in OpToRel(<, Nat))
    BY NatLessThanWellFounded, WFMin
  <1>a. PICK x \in S : \A y \in S : ~(<<y, x>> \in OpToRel(<, Nat))
    BY <1>1
  <1>b. ASSUME NEW y \in S PROVE x <= y
    <2>1. <<y, x>> \in Nat \X Nat /\ ~(y < x)
      BY <1>a DEF OpToRel
    <2>2. QED
      BY <2>1
  <1>2. \E z \in S : \A y \in S : z <= y
    BY <1>b
  <1>3. QED
    BY <1>2 DEF Min

\* A set of duties has a largest one.
LEMMA MaxExists ==
    ASSUME NEW n \in Nat, NEW S \in SUBSET (0..n), S # {}
    PROVE  Max(S) \in S /\ \A y \in S : Max(S) >= y
  <1> DEFINE T == {n - x : x \in S}
  <1>a. PICK s \in S : TRUE
    OBVIOUS
  <1>b. n - s \in T
    OBVIOUS
  <1>c. \A x \in S : n - x \in Nat
    OBVIOUS
  <1>1. T \in SUBSET Nat /\ T # {}
    BY <1>b, <1>c
  <1>2. Min(T) \in T /\ \A y \in T : Min(T) <= y
    BY <1>1, MinExists
  <1>3. PICK x \in S : Min(T) = n - x
    BY <1>2
  <1>4. \A y \in S : n - x <= n - y
    BY <1>2, <1>3
  <1>5. \A y \in S : x >= y
    BY <1>4
  <1>6. QED
    BY <1>5 DEF Max

LEMMA ClampRange ==
    ASSUME NEW x \in Int, NEW b \in Nat
    PROVE  Clamp(x, 0, b) \in 0..b
  BY DEF Clamp

-----------------------------------------------------------------------------
(* The floor seek *)

FanRecord ==
    [present : BOOLEAN, floor : Nat, lo : Nat, lastw : -1..PwmMax,
     flat : 0..(DownTicks - 1), settle : 0..StepSettle, blackout : 0..Blackout,
     cooldown : 0..Cooldown, kick : BOOLEAN, stall : Nat]

\* FloorAboveStall is kept by the learned bound: it too lies above every
\* floor at which the fan stalled, and steps down stop at it.
FanOK(r) ==
    /\ r \in FanRecord
    /\ r.floor \in IF r.present THEN FloorMin..FloorMax ELSE {PwmMax}
    /\ r.stall > 0 => r.lo > r.stall
    /\ r.present /\ r.stall > 0 => r.floor > r.stall \/ r.floor = FloorMax

LEMMA NewFanOK == ASSUME NEW p \in BOOLEAN PROVE FanOK(NewFan(p)) /\ NewFan(p).present = p
  BY FanAssumption DEF FanOK, FanRecord, NewFan

\* A record of FanOK after a change of counters only
LEMMA CountersKeep ==
    ASSUME NEW r, FanOK(r), NEW q \in FanRecord,
           q.present = r.present, q.floor = r.floor, q.lo = r.lo, q.stall = r.stall
    PROVE  FanOK(q)
  BY DEF FanOK

LEMMA StalledOK ==
    ASSUME NEW r, FanOK(r), r.present
    PROVE  FanOK(Stalled(r)) /\ Stalled(r).present
  <1> DEFINE lo == Max({r.lo, r.floor + StallMargin})
             stall == Max({r.stall, r.floor})
             up == Max({lo, r.floor + StallBump})
             floor == Min({FloorMax, up})
  <1>a. r \in FanRecord /\ r.floor \in FloorMin..FloorMax /\ 0 \in 0..(DownTicks - 1)
    BY FanAssumption DEF FanOK
  <1>b. r.lo \in Nat /\ r.floor \in Nat /\ r.stall \in Nat
    BY <1>a DEF FanRecord
  <1>c. StallMargin \in Nat \ {0} /\ StallBump \in Nat \ {0} /\ FloorMax \in Nat
        /\ FloorMin \in Nat
    BY FanAssumption
  <1>1. lo \in Nat /\ lo >= r.lo /\ lo > r.floor
    BY <1>b, <1>c, MaxPair
  <1>2. stall \in Nat /\ lo > stall
    <2>1. r.stall > 0 => r.lo > r.stall
      BY DEF FanOK
    <2>2. lo > r.stall
      BY <2>1, <1>1, <1>b
    <2>3. stall \in {r.stall, r.floor}
      BY <1>b, MaxPair
    <2>4. QED
      BY <2>2, <2>3, <1>1, <1>b
  <1> HIDE DEF lo, stall
  <1>3. CASE r.floor >= FloorMax
    <2>1. Stalled(r) = [r EXCEPT !.flat = 0, !.lo = lo, !.stall = stall]
      BY <1>3 DEF Stalled, lo, stall
    <2>2. Stalled(r) \in FanRecord
      BY <2>1, <1>a, <1>1, <1>2 DEF FanRecord
    <2>3. r.floor = FloorMax
      BY <1>3, <1>a, <1>b, <1>c
    <2>4. /\ Stalled(r).floor = FloorMax /\ Stalled(r).present /\ Stalled(r).lo = lo
          /\ Stalled(r).stall = stall
      BY <2>1, <2>3, <1>a DEF FanRecord
    <2>5. QED
      BY <2>2, <2>3, <2>4, <1>a, <1>2 DEF FanOK
  <1>4. CASE ~(r.floor >= FloorMax)
    <2>1. Stalled(r) = [r EXCEPT !.flat = 0, !.lo = lo, !.stall = stall, !.floor = floor,
                                 !.kick = TRUE, !.blackout = Blackout]
      BY <1>4 DEF Stalled, lo, stall
    <2>2. up \in Nat /\ up >= lo
      BY <1>1, <1>b, <1>c, MaxPair
    <2> HIDE DEF up
    <2>3. floor \in FloorMin..FloorMax /\ (floor = FloorMax \/ floor > stall)
      <3>1. floor = IF FloorMax <= up THEN FloorMax ELSE up
        BY <2>2, <1>c, MinPair
      <3>2. QED
        BY <3>1, <2>2, <1>1, <1>2, <1>a, <1>b, <1>c
    <2> HIDE DEF floor
    <2>4. floor \in Nat /\ Blackout \in 0..Blackout
      BY <2>3, <1>c, FanAssumption
    <2>5. Stalled(r) \in FanRecord
      BY <2>1, <2>4, <1>a, <1>1, <1>2 DEF FanRecord
    <2>6. /\ Stalled(r).floor = floor /\ Stalled(r).present /\ Stalled(r).lo = lo
          /\ Stalled(r).stall = stall
      BY <2>1, <1>a DEF FanRecord
    <2>7. QED
      BY <2>3, <2>5, <2>6, <1>2 DEF FanOK
  <1>5. QED
    BY <1>3, <1>4

\* A move of the floor that stays above the stall bound
LEMMA MovedOK ==
    ASSUME NEW r, FanOK(r), r.present, NEW q \in FanRecord, q.present,
           q.lo = r.lo, q.stall = r.stall,
           q.floor \in FloorMin..FloorMax, q.floor >= r.lo \/ q.floor >= r.floor
    PROVE  FanOK(q)
  BY FanAssumption DEF FanOK, FanRecord

LEMMA SeekUpOK ==
    ASSUME NEW r, FanOK(r), r.present
    PROVE  FanOK(SeekUp(r)) /\ SeekUp(r).present
  <1> DEFINE floor == Min({FloorMax, r.floor + UpStep})
  <1>a. /\ r \in FanRecord /\ r.floor \in FloorMin..FloorMax /\ r.floor \in Nat
        /\ 0 \in 0..(DownTicks - 1) /\ Cooldown \in 0..Cooldown
    BY FanAssumption DEF FanOK, FanRecord
  <1>1. CASE r.floor >= FloorMax
    BY <1>1 DEF SeekUp
  <1>2. CASE ~(r.floor >= FloorMax)
    <2>1. SeekUp(r) = [r EXCEPT !.floor = floor, !.flat = 0, !.cooldown = Cooldown]
      BY <1>2 DEF SeekUp
    <2>2. floor \in FloorMin..FloorMax /\ floor >= r.floor /\ floor \in Nat
      <3>1. UpStep \in Nat \ {0} /\ FloorMax \in Nat /\ FloorMin \in Nat
        BY FanAssumption
      <3>2. floor = IF FloorMax <= r.floor + UpStep THEN FloorMax ELSE r.floor + UpStep
        BY <1>a, <3>1, MinPair
      <3>3. QED
        BY <1>a, <3>1, <3>2
    <2> HIDE DEF floor
    <2>3. SeekUp(r) \in FanRecord
      BY <2>1, <2>2, <1>a DEF FanRecord
    <2>4. /\ SeekUp(r).floor = floor /\ SeekUp(r).present /\ SeekUp(r).lo = r.lo
          /\ SeekUp(r).stall = r.stall
      BY <2>1, <1>a DEF FanRecord
    <2>5. QED
      BY <2>2, <2>3, <2>4, MovedOK
  <1>3. QED
    BY <1>1, <1>2

LEMMA StepDownOK ==
    ASSUME NEW r, FanOK(r), r.present, NEW step \in Nat \ {0},
           ~(r.floor <= Max({FloorMin, r.lo}))
    PROVE  FanOK(StepDown(r, step)) /\ StepDown(r, step).present
  <1> DEFINE floor == Max({FloorMin, r.lo, r.floor - step})
  <1>a. /\ r \in FanRecord /\ r.floor \in FloorMin..FloorMax /\ r.floor \in Nat
        /\ r.lo \in Nat /\ 0 \in 0..(DownTicks - 1) /\ StepSettle \in 0..StepSettle
    BY FanAssumption DEF FanOK, FanRecord
  <1>b. FloorMin \in Nat /\ FloorMax \in Nat
    BY FanAssumption
  <1>c. Max({FloorMin, r.lo}) = IF FloorMin >= r.lo THEN FloorMin ELSE r.lo
    BY <1>a, <1>b, MaxPair
  <1>1. r.floor > FloorMin /\ r.floor > r.lo
    BY <1>a, <1>b, <1>c
  <1>d. r.floor - step \in Int /\ FloorMin \in Int /\ r.lo \in Int
    BY <1>a, <1>b
  <1>2. /\ floor \in {FloorMin, r.lo, r.floor - step}
        /\ floor >= FloorMin /\ floor >= r.lo
    BY <1>d, MaxTriple
  <1>3. StepDown(r, step) = [r EXCEPT !.floor = floor, !.flat = 0, !.settle = StepSettle]
    BY DEF StepDown
  <1> HIDE DEF floor
  <1>4. floor \in FloorMin..FloorMax /\ floor \in Nat
    BY <1>1, <1>2, <1>a, <1>b
  <1>5. StepDown(r, step) \in FanRecord
    BY <1>3, <1>4, <1>a DEF FanRecord
  <1>6. /\ StepDown(r, step).floor = floor /\ StepDown(r, step).present
        /\ StepDown(r, step).lo = r.lo /\ StepDown(r, step).stall = r.stall
    BY <1>3, <1>a DEF FanRecord
  <1>7. QED
    BY <1>2, <1>4, <1>5, <1>6, MovedOK

LEMMA SeekDownOK ==
    ASSUME NEW r, FanOK(r), r.present, NEW rpm
    PROVE  FanOK(SeekDown(r, rpm)) /\ SeekDown(r, rpm).present
  <1>a. r \in FanRecord /\ FarStep \in Nat \ {0} /\ NearStep \in Nat \ {0}
        /\ DownTicks \in Nat \ {0}
    BY FanAssumption DEF FanOK
  <1>1. CASE r.floor <= Max({FloorMin, r.lo})
    BY <1>1 DEF SeekDown
  <1>2. CASE ~(r.floor <= Max({FloorMin, r.lo}))
    <2>1. CASE SeekDown(r, rpm) \in {StepDown(r, FarStep), StepDown(r, NearStep)}
      BY <1>2, <2>1, <1>a, StepDownOK
    <2>2. CASE SeekDown(r, rpm) = [r EXCEPT !.flat = 0]
      <3>1. SeekDown(r, rpm) \in FanRecord
        BY <2>2, <1>a DEF FanRecord
      <3>2. /\ SeekDown(r, rpm).floor = r.floor /\ SeekDown(r, rpm).present
            /\ SeekDown(r, rpm).lo = r.lo /\ SeekDown(r, rpm).stall = r.stall
        BY <2>2, <1>a DEF FanRecord
      <3>3. QED
        BY <3>1, <3>2, CountersKeep
    <2>3. CASE r.flat + 1 < DownTicks /\ SeekDown(r, rpm) = [r EXCEPT !.flat = @ + 1]
      <3>1. r.flat + 1 \in 0..(DownTicks - 1)
        BY <2>3, <1>a DEF FanRecord
      <3>2. SeekDown(r, rpm) \in FanRecord
        BY <2>3, <3>1, <1>a DEF FanRecord
      <3>3. /\ SeekDown(r, rpm).floor = r.floor /\ SeekDown(r, rpm).present
            /\ SeekDown(r, rpm).lo = r.lo /\ SeekDown(r, rpm).stall = r.stall
        BY <2>3, <1>a DEF FanRecord
      <3>4. QED
        BY <3>2, <3>3, CountersKeep
    <2>4. QED
      BY <1>2, <2>1, <2>2, <2>3 DEF SeekDown
  <1>3. QED
    BY <1>1, <1>2

LEMMA SeekOK ==
    ASSUME NEW r, FanOK(r), r.present, NEW rpm \in Rpms \ {"error"}
    PROVE  FanOK(Seek(r, rpm)) /\ Seek(r, rpm).present
  <1>1. CASE rpm = "ok"
    <2>1. r \in FanRecord /\ 0 \in 0..(DownTicks - 1)
      BY FanAssumption DEF FanOK
    <2>2. Seek(r, rpm) = [r EXCEPT !.flat = 0]
      BY <1>1 DEF Seek
    <2>3. Seek(r, rpm) \in FanRecord
      BY <2>1, <2>2 DEF FanRecord
    <2>4. /\ Seek(r, rpm).floor = r.floor /\ Seek(r, rpm).present
          /\ Seek(r, rpm).lo = r.lo /\ Seek(r, rpm).stall = r.stall
      BY <2>1, <2>2 DEF FanRecord
    <2>5. QED
      BY <2>3, <2>4, CountersKeep
  <1>2. CASE rpm = "zero"
    BY <1>2, StalledOK DEF Seek
  <1>3. CASE rpm = "low"
    BY <1>3, SeekUpOK DEF Seek
  <1>4. CASE rpm \in {"steady", "moving", "far"}
    BY <1>4, SeekDownOK DEF Seek
  <1>5. QED
    BY <1>1, <1>2, <1>3, <1>4 DEF Rpms

\* Counting down one of the counters
LEMMA RefinedOK ==
    ASSUME NEW r, FanOK(r), r.present, NEW rpm \in Rpms
    PROVE  FanOK(Refined(r, rpm)) /\ Refined(r, rpm).present
  <1>a. r \in FanRecord /\ 0 \in 0..(DownTicks - 1) /\ 0 \in 0..StepSettle
    BY FanAssumption DEF FanOK
  <1> DEFINE q == Refined(r, rpm)
  <1>1. \/ q = r
        \/ q = [r EXCEPT !.flat = 0, !.settle = 0]
        \/ r.settle > 0 /\ q = [r EXCEPT !.settle = @ - 1]
        \/ r.blackout > 0 /\ q = [r EXCEPT !.blackout = @ - 1]
        \/ rpm # "error" /\ q = Seek(r, rpm)
    BY DEF Refined
  <1> HIDE DEF q
  <1>2. CASE q = r
    BY <1>2 DEF q
  <1>3. CASE rpm # "error" /\ q = Seek(r, rpm)
    BY <1>3, SeekOK DEF q
  <1>4. CASE \/ q = [r EXCEPT !.flat = 0, !.settle = 0]
             \/ r.settle > 0 /\ q = [r EXCEPT !.settle = @ - 1]
             \/ r.blackout > 0 /\ q = [r EXCEPT !.blackout = @ - 1]
    <2>1. /\ q.floor = r.floor /\ q.present = r.present /\ q.lo = r.lo /\ q.stall = r.stall
      BY <1>4, <1>a DEF FanRecord
    <2>2. q \in FanRecord
      <3>1. r.settle > 0 => r.settle - 1 \in 0..StepSettle
        BY <1>a, FanAssumption DEF FanRecord
      <3>2. r.blackout > 0 => r.blackout - 1 \in 0..Blackout
        BY <1>a, FanAssumption DEF FanRecord
      <3>3. QED
        BY <1>4, <1>a, <3>1, <3>2 DEF FanRecord
    <2>3. QED
      BY <2>1, <2>2, CountersKeep DEF q
  <1>5. QED
    BY <1>1, <1>2, <1>3, <1>4

-----------------------------------------------------------------------------
(* The inductive invariant *)

Inv ==
    /\ phase \in {"off", "start", "tick", "refine", "stopping"}
    /\ last \in [Zones -> Temps]
    /\ integral \in [Zones -> 0..IntegralClamp]
    /\ smoothed \in 0..PwmMax
    /\ duty \in [Fans -> 0..PwmMax]
    /\ bad \subseteq Fans /\ todo \subseteq Fans
    /\ starts \in 0..MaxStarts
    /\ fan \in [Fans -> FanRecord]
    /\ \A f \in Fans : FanOK(fan[f])
    /\ \A f \in todo : fan[f].present
    /\ phase # "refine" => todo = {}
    /\ CritForcesMax
    /\ StopLeavesMax

LEMMA IntegralClampNat == IntegralClamp \in Nat
  BY FanAssumption DEF IntegralClamp

LEMMA FreshRange ==
    /\ [z \in Zones |-> 0] \in [Zones -> Temps]
    /\ [z \in Zones |-> 0] \in [Zones -> 0..IntegralClamp]
    /\ 0 \in 0..PwmMax /\ PwmMax \in 0..PwmMax
    /\ NewFan(FALSE) \in FanRecord
  <1>1. 0 \in Temps /\ 0 \in 0..IntegralClamp /\ PwmMax \in Nat
    BY IntegralClampNat, FanAssumption
  <1>2. NewFan(FALSE) \in FanRecord
    BY NewFanOK DEF FanOK
  <1>3. 0 \in 0..PwmMax /\ PwmMax \in 0..PwmMax
    BY <1>1
  <1>4. QED
    BY <1>1, <1>2, <1>3

LEMMA InitInv == Init => Inv
  <1> SUFFICES ASSUME Init PROVE Inv
    OBVIOUS
  <1>1. \A f \in Fans : FanOK(fan[f])
    BY NewFanOK DEF Init
  <1>2. /\ last \in [Zones -> Temps] /\ integral \in [Zones -> 0..IntegralClamp]
        /\ smoothed \in 0..PwmMax /\ fan \in [Fans -> FanRecord]
    BY FreshRange DEF Init
  <1>3. duty \in [Fans -> 0..PwmMax] /\ starts \in 0..MaxStarts
    BY FreshRange, FanAssumption DEF Init
  <1>4. QED
    BY <1>1, <1>2, <1>3 DEF Init, Inv, CritForcesMax, StopLeavesMax

\* The ranges of a tick's intermediate values
LEMMA MinFloorRange ==
    ASSUME Inv
    PROVE  MinFloor \in 0..PwmMax
  <1> DEFINE driven == {fan[f].floor : f \in {g \in Fans : fan[g].present}}
  <1>1. CASE driven = {}
    BY <1>1, FanAssumption DEF MinFloor
  <1>2. CASE driven # {}
    <2>1. \A x \in driven : x \in 0..PwmMax
      <3>1. ASSUME NEW g \in Fans, fan[g].present PROVE fan[g].floor \in 0..PwmMax
        BY <3>1, FanAssumption DEF Inv, FanOK
      <3>2. QED
        BY <3>1
    <2>2. driven \in SUBSET Nat
      BY <2>1
    <2> HIDE DEF driven
    <2>3. Min(driven) \in driven
      BY <1>2, <2>2, MinExists
    <2>4. MinFloor = Min(driven)
      BY <1>2 DEF MinFloor, driven
    <2>5. QED
      BY <2>1, <2>3, <2>4
  <1>3. QED
    BY <1>1, <1>2

LEMMA DemandRange ==
    ASSUME Inv, NEW temps \in [Zones -> Temps]
    PROVE  /\ \A z \in Zones : Integral(z, temps[z]) \in 0..IntegralClamp
           /\ Max({0} \cup {Demand(z, temps[z]) : z \in Zones}) \in 0..PwmMax
  <1>1. ASSUME NEW z \in Zones
        PROVE  Integral(z, temps[z]) \in 0..IntegralClamp /\ Demand(z, temps[z]) \in 0..PwmMax
    <2>1. temps[z] \in Nat /\ Setpoint \in Nat /\ Kp \in Nat /\ Ki \in Nat /\ PwmMax \in Nat
      BY FanAssumption
    <2>2. integral[z] \in Int
      BY IntegralClampNat DEF Inv
    <2>3. integral[z] + (temps[z] - Setpoint) \in Int
      BY <2>1, <2>2
    <2>4. Integral(z, temps[z]) \in 0..IntegralClamp
      BY <2>3, IntegralClampNat, ClampRange DEF Integral
    <2>5. Integral(z, temps[z]) \in Int /\ MinFloor \in Int
      BY <2>4, IntegralClampNat, MinFloorRange
    <2>6. Kp * (temps[z] - Setpoint) \in Int /\ Ki * Integral(z, temps[z]) \in Int
      BY <2>1, <2>5
    <2>7. MinFloor + Kp * (temps[z] - Setpoint) + Ki * Integral(z, temps[z]) \in Int
      BY <2>5, <2>6
    <2>8. QED
      BY <2>1, <2>4, <2>7, ClampRange DEF Demand
  <1> DEFINE D == {0} \cup {Demand(z, temps[z]) : z \in Zones}
  <1>2. D \in SUBSET (0..PwmMax) /\ D # {} /\ PwmMax \in Nat
    BY <1>1, FanAssumption
  <1> HIDE DEF D
  <1>3. Max(D) \in 0..PwmMax
    BY <1>2, MaxExists
  <1>4. QED
    BY <1>1, <1>3 DEF D

LEMMA TargetsRange ==
    ASSUME Inv, NEW crit \in BOOLEAN, NEW d \in 0..PwmMax
    PROVE  Targets(crit, d) \subseteq 0..PwmMax
  <1>a. smoothed \in 0..PwmMax /\ PwmMax \in Nat /\ MinFloor \in 0..PwmMax
    BY MinFloorRange, FanAssumption DEF Inv
  <1>1. Smoothing(d) \subseteq 0..PwmMax
    <2>1. Min({d, smoothed}) \in 0..PwmMax /\ Max({d, smoothed}) \in 0..PwmMax
      BY <1>a, MinPair, MaxPair
    <2>2. QED
      BY <1>a, <2>1 DEF Smoothing
  <1>2. ASSUME NEW s \in Smoothing(d) PROVE Max({s, MinFloor}) \in 0..PwmMax
    BY <1>a, <1>1, MaxPair
  <1>3. CASE crit
    BY <1>3, <1>a DEF Targets
  <1>4. CASE ~crit
    BY <1>4, <1>2 DEF Targets
  <1>5. QED
    BY <1>3, <1>4

LEMMA OutputRange ==
    ASSUME Inv, NEW f \in Fans, NEW shared \in 0..PwmMax, NEW seek \in BOOLEAN
    PROVE  /\ Output(f, shared, seek) \in 0..PwmMax
           /\ ~seek /\ shared = PwmMax => Output(f, shared, seek) = PwmMax
  <1>a. FanOK(fan[f]) /\ PwmMax \in Nat /\ FloorMin \in Nat /\ FloorMax \in Nat
        /\ FloorMax < PwmMax
    BY FanAssumption DEF Inv
  <1>b. fan[f].floor \in FloorMin..FloorMax \/ fan[f].floor = PwmMax
    BY <1>a DEF FanOK
  <1>1. fan[f].floor \in 0..PwmMax /\ PwmMax \in Nat
    BY <1>a, <1>b
  <1>2. Max({shared, fan[f].floor}) = IF shared >= fan[f].floor THEN shared ELSE fan[f].floor
    BY <1>1, MaxPair
  <1>3. QED
    BY <1>1, <1>2 DEF Output

\* A driven fan after its write
LEMMA WrittenOK ==
    ASSUME NEW r, FanOK(r), NEW w \in -1..PwmMax,
           NEW q, q = [r EXCEPT !.kick = FALSE, !.lastw = w]
    PROVE  FanOK(q) /\ q.present = r.present
  <1>1. r \in FanRecord
    BY DEF FanOK
  <1>2. q \in FanRecord /\ q.floor = r.floor /\ q.present = r.present /\ q.lo = r.lo
        /\ q.stall = r.stall
    BY <1>1 DEF FanRecord
  <1>3. QED
    BY <1>2, CountersKeep

LEMMA TickInv ==
    ASSUME Inv, NEW temps \in [Zones -> Temps], NEW nack \in SUBSET Fans, Tick(temps, nack)
    PROVE  Inv'
  <1> DEFINE crit == \E z \in Zones : temps[z] >= CritTemp
             demand == Max({0} \cup {Demand(z, temps[z]) : z \in Zones})
             seek == ~crit /\ demand <= MinFloor
             driven == {f \in Fans : fan[f].present}
  <1> HIDE DEF crit, demand, seek
  <1>a. crit \in BOOLEAN /\ seek \in BOOLEAN /\ demand \in 0..PwmMax /\ (crit => ~seek)
    BY DemandRange DEF crit, demand, seek
  <1> DEFINE out(shared, f) == Output(f, shared, seek)
             wr(shared) == {f \in driven : Writes(f, out(shared, f))}
  <1>1. PICK shared \in Targets(crit, demand) :
          /\ smoothed' = shared
          /\ duty' = [f \in Fans |-> IF f \in wr(shared) \ nack THEN out(shared, f) ELSE duty[f]]
          /\ bad' = nack \cap wr(shared)
          /\ fan' = [f \in Fans |->
               IF f \notin driven THEN fan[f]
               ELSE [fan[f] EXCEPT !.kick = FALSE,
                       !.lastw = IF f \in wr(shared) THEN out(shared, f) ELSE @]]
    BY DEF Tick, crit, demand, seek
  <1>2. /\ phase' \in {"tick", "refine"} /\ last' = temps /\ todo' = driven /\ starts' = starts
        /\ phase' # "refine" => driven = {}
        /\ integral' = [z \in Zones |-> IF crit THEN 0 ELSE Integral(z, temps[z])]
    BY DEF Tick, crit
  <1>3. shared \in 0..PwmMax
    BY <1>1, <1>a, TargetsRange
  <1>4. \A f \in Fans : out(shared, f) \in 0..PwmMax
    BY <1>a, <1>3, OutputRange
  <1>5. ASSUME crit, NEW f \in driven
        PROVE  f \in wr(shared) /\ out(shared, f) = PwmMax
    <2>1. shared = PwmMax /\ ~seek
      BY <1>1, <1>a, <1>5 DEF Targets
    <2>2. out(shared, f) = PwmMax
      BY <1>3, <1>a, <2>1, OutputRange
    <2>3. QED
      BY <2>2 DEF Writes
  <1> HIDE DEF out, wr
  <1>6. ASSUME NEW f \in Fans
        PROVE  FanOK(fan'[f]) /\ fan'[f].present = fan[f].present
    <2>1. CASE f \notin driven
      BY <1>1, <2>1 DEF Inv
    <2>2. CASE f \in driven
      <3> DEFINE w == IF f \in wr(shared) THEN out(shared, f) ELSE fan[f].lastw
      <3>1. fan'[f] = [fan[f] EXCEPT !.kick = FALSE, !.lastw = w]
        BY <1>1, <2>2 DEF Inv, FanRecord
      <3>2. w \in -1..PwmMax
        BY <1>4, FanAssumption DEF Inv, FanRecord
      <3> HIDE DEF w
      <3>3. FanOK(fan[f])
        BY DEF Inv
      <3>4. FanOK(fan'[f])
        BY <3>1, <3>2, <3>3, WrittenOK
      <3>5. fan'[f].present = fan[f].present
        BY <3>1, <3>2, <3>3, WrittenOK
      <3>6. QED
        BY <3>4, <3>5
    <2>3. QED
      BY <2>1, <2>2
  <1>7. fan' \in [Fans -> FanRecord]
    <2>1. fan' = [f \in Fans |-> fan'[f]]
      BY <1>1
    <2>2. QED
      BY <2>1, <1>6 DEF FanOK
  <1>8. duty' \in [Fans -> 0..PwmMax] /\ bad' \subseteq Fans
    BY <1>1, <1>4 DEF Inv
  <1>9. integral' \in [Zones -> 0..IntegralClamp]
    <2>1. \A z \in Zones : Integral(z, temps[z]) \in 0..IntegralClamp
      BY DemandRange
    <2>2. 0 \in 0..IntegralClamp
      BY IntegralClampNat
    <2>3. QED
      BY <1>2, <2>1, <2>2
  <1>10. todo' \subseteq Fans /\ \A f \in todo' : fan'[f].present
    BY <1>2, <1>6
  <1>11. CritForcesMax'
    <2> SUFFICES ASSUME \E z \in Zones : last'[z] >= CritTemp,
                        NEW f \in Fans, fan'[f].present, f \notin bad'
                 PROVE  duty'[f] = PwmMax
      BY DEF CritForcesMax
    <2>1. crit /\ f \in driven
      BY <1>2, <1>6 DEF crit
    <2>2. f \in wr(shared) /\ out(shared, f) = PwmMax
      BY <2>1, <1>5
    <2>3. f \notin nack
      BY <1>1, <2>2
    <2>4. QED
      BY <1>1, <2>2, <2>3
  <1>12. StopLeavesMax'
    BY <1>2 DEF StopLeavesMax
  <1>13. QED
    BY <1>1, <1>2, <1>3, <1>6, <1>7, <1>8, <1>9, <1>10, <1>11, <1>12 DEF Inv

LEMMA RefineInv ==
    ASSUME Inv, NEW f \in Fans, NEW rpm \in Rpms, RefineFloor(f, rpm)
    PROVE  Inv'
  <1> DEFINE r == [fan[f] EXCEPT !.cooldown = Max({0, fan[f].cooldown - 1})]
  <1>a. /\ phase = "refine" /\ f \in todo /\ todo' = todo \ {f} /\ phase' \in {"tick", "refine"}
        /\ phase' # "refine" => todo' = {}
        /\ fan' = [fan EXCEPT ![f] = Refined(r, rpm)]
        /\ UNCHANGED <<last, integral, smoothed, allow, duty, bad, starts>>
    <2>1. phase = "refine" /\ f \in todo /\ todo' = todo \ {f}
      BY DEF RefineFloor
    <2>2. phase' = IF todo' = {} THEN "tick" ELSE "refine"
      BY DEF RefineFloor
    <2>3. fan' = [fan EXCEPT ![f] = Refined(r, rpm)]
      BY DEF RefineFloor, Inv
    <2>4. QED
      BY <2>1, <2>2, <2>3 DEF RefineFloor
  <1>b. fan[f] \in FanRecord /\ FanOK(fan[f]) /\ fan[f].present
    BY <1>a DEF Inv
  <1>1. FanOK(r) /\ r.present
    <2>0. fan[f].cooldown \in 0..Cooldown /\ Cooldown \in Nat
      BY <1>b, FanAssumption DEF FanRecord
    <2>1. Max({0, fan[f].cooldown - 1}) \in 0..Cooldown
      BY <2>0, MaxPair
    <2>2. r \in FanRecord
      BY <1>b, <2>1 DEF FanRecord
    <2>3. r.floor = fan[f].floor /\ r.present /\ r.lo = fan[f].lo /\ r.stall = fan[f].stall
      BY <1>b DEF FanRecord
    <2>4. QED
      BY <1>b, <2>2, <2>3, CountersKeep
  <1> HIDE DEF r
  <1>2. FanOK(Refined(r, rpm)) /\ Refined(r, rpm).present
    BY <1>1, RefinedOK
  <1>3. Refined(r, rpm) \in FanRecord
    BY <1>2 DEF FanOK
  <1>4. /\ fan' \in [Fans -> FanRecord]
        /\ \A g \in Fans : FanOK(fan'[g]) /\ fan'[g].present = fan[g].present
    <2>1. fan \in [Fans -> FanRecord] /\ \A g \in Fans : FanOK(fan[g])
      BY DEF Inv
    <2>2. fan[f].present = TRUE /\ Refined(r, rpm).present = TRUE
      BY <1>b, <1>2, <1>3 DEF FanRecord
    <2>3. QED
      BY <1>a, <1>2, <1>3, <2>1, <2>2
  <1>5. CritForcesMax' /\ StopLeavesMax'
    BY <1>a, <1>4 DEF Inv, CritForcesMax, StopLeavesMax
  <1>6. QED
    BY <1>a, <1>4, <1>5 DEF Inv

LEMMA StepInv == Inv /\ [Next]_vars => Inv'
  <1> SUFFICES ASSUME Inv, [Next]_vars PROVE Inv'
    OBVIOUS
  <1>a. ASSUME NEW nack \in SUBSET Fans, WriteAll(PwmMax, nack)
        PROVE  /\ duty' \in [Fans -> 0..PwmMax] /\ bad' \subseteq Fans
               /\ \A f \in Fans : f \notin bad' => duty'[f] = PwmMax
    BY <1>a, FreshRange DEF WriteAll, Inv
  <1>1. CASE Start \/ StartBlind
    <2>1. /\ phase' \in {"start", "off"} /\ starts' = starts + 1 /\ starts < MaxStarts
          /\ UNCHANGED <<last, integral, smoothed, fan, allow, todo>>
          /\ \E nack \in SUBSET Fans : WriteAll(PwmMax, nack)
      BY <1>1 DEF Start, StartBlind
    <2>2. starts' \in 0..MaxStarts
      BY <2>1, FanAssumption DEF Inv
    <2>3. duty' \in [Fans -> 0..PwmMax] /\ bad' \subseteq Fans /\ phase = "off"
      BY <2>1, <1>a, <1>1 DEF Start, StartBlind
    <2>4. QED
      BY <2>1, <2>2, <2>3 DEF Inv, CritForcesMax, StopLeavesMax
  <1>2. CASE Stop
    <2>1. /\ phase' = "stopping" /\ UNCHANGED <<last, integral, smoothed, fan, allow, todo, starts>>
          /\ \E nack \in SUBSET Fans : WriteAll(PwmMax, nack)
      BY <1>2 DEF Stop
    <2>2. /\ duty' \in [Fans -> 0..PwmMax] /\ bad' \subseteq Fans
          /\ \A f \in Fans : f \notin bad' => duty'[f] = PwmMax
      BY <2>1, <1>a
    <2>3. phase \in {"start", "tick"}
      BY <1>2 DEF Stop
    <2>4. QED
      BY <2>1, <2>2, <2>3 DEF Inv, CritForcesMax, StopLeavesMax
  <1>3. CASE Exit
    <2>1. /\ phase' = "off" /\ UNCHANGED <<duty, starts>> /\ bad' = {} /\ todo' = {}
          /\ last' = [z \in Zones |-> 0] /\ integral' = [z \in Zones |-> 0] /\ smoothed' = 0
          /\ fan' = [f \in Fans |-> NewFan(FALSE)]
      BY <1>3 DEF Exit, Fresh
    <2>2. fan' \in [Fans -> FanRecord] /\ \A f \in Fans : FanOK(fan'[f])
      BY <2>1, FreshRange, NewFanOK
    <2>3. QED
      BY <2>1, <2>2, FreshRange DEF Inv, CritForcesMax, StopLeavesMax
  <1>4. ASSUME NEW present \in SUBSET Fans, Detect(present)
        PROVE  Inv'
    <2>1. /\ phase' = "tick" /\ fan' = [f \in Fans |-> NewFan(f \in present)]
          /\ smoothed' \in {FloorMin, FloorStart} /\ phase = "start"
          /\ UNCHANGED <<last, integral, allow, todo, duty, bad, starts>>
      BY <1>4 DEF Detect
    <2>2. ASSUME NEW f \in Fans
          PROVE  FanOK(fan'[f]) /\ fan'[f] \in FanRecord
      <3>1. fan'[f] = NewFan(f \in present) /\ (f \in present) \in BOOLEAN
        BY <2>1
      <3>2. FanOK(NewFan(f \in present))
        BY <3>1, NewFanOK
      <3>3. QED
        BY <3>1, <3>2 DEF FanOK
    <2>3. fan' \in [Fans -> FanRecord]
      BY <2>1, <2>2
    <2>4. smoothed' \in 0..PwmMax
      BY <2>1, FanAssumption
    <2>5. todo = {}
      BY <2>1 DEF Inv
    <2>6. QED
      BY <2>1, <2>2, <2>3, <2>4, <2>5 DEF Inv, CritForcesMax, StopLeavesMax
  <1>5. ASSUME NEW temps \in [Zones -> Temps], NEW nack \in SUBSET Fans, Tick(temps, nack)
        PROVE  Inv'
    BY <1>5, TickInv
  <1>6. ASSUME NEW f \in Fans, NEW rpm \in Rpms, RefineFloor(f, rpm)
        PROVE  Inv'
    BY <1>6, RefineInv
  <1>7. CASE UNCHANGED vars
    BY <1>7 DEF vars, Inv, CritForcesMax, StopLeavesMax
  <1>8. QED
    BY <1>1, <1>2, <1>3, <1>4, <1>5, <1>6, <1>7 DEF Next

LEMMA SpecInv == Spec => []Inv
  BY InitInv, StepInv, PTL DEF Spec

\* Duties, sums and floors keep their ranges: the seek never leaves
\* [FloorMin, FloorMax], whatever the tachometers say.
THEOREM TypeCorrect == Spec => []TypeOK
  <1>1. Inv => TypeOK
    BY DEF Inv, TypeOK, FanOK, FanRecord
  <1>2. QED
    BY <1>1, SpecInv, PTL

\* The critical override reaches every fan the bus lets it reach, past seek,
\* kick, smoothing and the skipping of small changes (Controller.step).
THEOREM CriticalForcesMax == Spec => []CritForcesMax
  <1>1. Inv => CritForcesMax
    BY DEF Inv
  <1>2. QED
    BY <1>1, SpecInv, PTL

\* What a stall taught, no later step down forgets (_refine_floor).
THEOREM FloorStaysAboveStall == Spec => []FloorAboveStall
  <1>1. Inv => FloorAboveStall
    BY DEF Inv, FanOK, FloorAboveStall
  <1>2. QED
    BY <1>1, SpecInv, PTL

\* A stopped daemon leaves full duty behind: the finally block writes all
\* channels, driven or not, and only a refused write can miss one.
THEOREM StopLeavesFull == Spec => []StopLeavesMax
  <1>1. Inv => StopLeavesMax
    BY DEF Inv
  <1>2. QED
    BY <1>1, SpecInv, PTL
=============================================================================
