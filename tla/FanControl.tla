----------------------------- MODULE FanControl -----------------------------
(***************************************************************************)
(* fan-pid, the board's fan daemon (src/board/scripts/fan-pid): per-zone   *)
(* PI controllers share one demand, every fan is held above a floor that a *)
(* guarded seek learns from its tachometer, and duties are written to the  *)
(* fan chip over a bus that may refuse a write.                            *)
(*                                                                         *)
(* Temperatures, duties and gains are small integers.  A tachometer        *)
(* reading is the class the seek distinguishes; the smoothing factor is    *)
(* left open: the smoothed demand moves towards the new one.               *)
(***************************************************************************)
EXTENDS Integers, FiniteSets, FiniteSetsExt

CONSTANTS
    Zones, Fans,
    Temps,                 \* readings of a thermal zone, 0 first
    Setpoint, CritTemp,    \* the same for every zone
    Kp, Ki,                \* gains
    PwmMax, Deadband,      \* full duty; smallest change that is written
    FloorMin, FloorMax, FloorStart,
    StallBump, StallMargin, UpStep, NearStep, FarStep,
    MeasureTol, Blackout, DownTicks, StepSettle, Cooldown,
    MaxStarts              \* bound: starts of the daemon

ASSUME FanAssumption ==
    /\ Temps \subseteq Nat /\ 0 \in Temps
    /\ Setpoint \in Nat /\ CritTemp \in Nat /\ Setpoint < CritTemp
    /\ Kp \in Nat /\ Ki \in Nat \ {0} /\ PwmMax \in Nat /\ Deadband \in Nat \ {0}
    /\ FloorMin \in Nat \ {0} /\ FloorMax \in Nat /\ FloorStart \in FloorMin..FloorMax
    /\ FloorMax < PwmMax
    /\ {StallBump, StallMargin, UpStep, NearStep, FarStep, DownTicks} \subseteq Nat \ {0}
    /\ {MeasureTol, Blackout, StepSettle, Cooldown, MaxStarts} \subseteq Nat

VARIABLES
    phase,      \* "off", "start", "tick", "refine", "stopping"
    last,       \* Zone.last_temp
    integral,   \* Zone.integral
    smoothed,   \* Controller.smoothed_pwm
    fan,        \* Controller.fans
    allow,      \* allow_floor_seek of the current tick
    todo,       \* fans the current tick has yet to refine
    duty,       \* duty registers of the chip
    bad,        \* channels whose last write attempt the bus refused
    starts

vars == <<phase, last, integral, smoothed, fan, allow, todo, duty, bad, starts>>

\* Tachometer readings: none, stalled, below the target band, inside it,
\* above it near (steady or not) and far
Rpms == {"error", "zero", "low", "ok", "steady", "moving", "far"}

NewFan(present) ==
    [present |-> present, floor |-> IF present THEN FloorStart ELSE PwmMax,
     lo |-> FloorMin, lastw |-> -1, flat |-> 0, settle |-> 0, blackout |-> 0,
     cooldown |-> 0, kick |-> FALSE, stall |-> 0]

\* Lowest floor of the driven fans
MinFloor ==
    LET driven == {fan[f].floor : f \in {g \in Fans : fan[g].present}}
    IN  IF driven = {} THEN FloorMin ELSE Min(driven)

Clamp(x, a, b) == IF x < a THEN a ELSE IF x > b THEN b ELSE x
IntegralClamp == PwmMax \div Ki

\* The memory of a process that has just started, or of none
Fresh(p) ==
    /\ phase' = p
    /\ last' = [z \in Zones |-> 0]
    /\ integral' = [z \in Zones |-> 0]
    /\ smoothed' = 0
    /\ fan' = [f \in Fans |-> NewFan(FALSE)]
    /\ allow' = FALSE
    /\ todo' = {}

-----------------------------------------------------------------------------
Init ==
    /\ phase = "off"
    /\ last = [z \in Zones |-> 0]
    /\ integral = [z \in Zones |-> 0]
    /\ smoothed = 0
    /\ fan = [f \in Fans |-> NewFan(FALSE)]
    /\ allow = FALSE
    /\ todo = {}
    /\ duty \in [Fans -> {0, PwmMax}]
    /\ bad = {}
    /\ starts = 0

\* Writing one duty to some channels while the bus refuses those in `nack`
WriteAll(value, nack) ==
    /\ duty' = [f \in Fans |-> IF f \in nack THEN duty[f] ELSE value]
    /\ bad' = nack

\* main up to its loop, with a chip and at least one zone: handlers are
\* installed, the whistle ends at full duty and full duty is held for the
\* presence read
Start ==
    /\ phase = "off"
    /\ starts < MaxStarts
    /\ starts' = starts + 1
    /\ phase' = "start"
    /\ \E nack \in SUBSET Fans : WriteAll(PwmMax, nack)
    /\ UNCHANGED <<last, integral, smoothed, fan, allow, todo>>

\* main without a usable zone: full duty, and exit
StartBlind ==
    /\ phase = "off"
    /\ starts < MaxStarts
    /\ starts' = starts + 1
    /\ \E nack \in SUBSET Fans : WriteAll(PwmMax, nack)
    /\ UNCHANGED <<phase, last, integral, smoothed, fan, allow, todo>>

\* detect_present_fans, and the Controller
Detect(present) ==
    /\ phase = "start"
    /\ phase' = "tick"
    /\ fan' = [f \in Fans |-> NewFan(f \in present)]
    /\ smoothed' = IF present = {} THEN FloorMin ELSE FloorStart
    /\ UNCHANGED <<last, integral, allow, todo, duty, bad, starts>>

-----------------------------------------------------------------------------
(* One control tick *)

\* A sum that is not carried from tick to tick (mutant)
IntegralForgets(z, t) == Clamp(t - Setpoint, 0, IntegralClamp)

\* Anti-windup: the sum of errors stays between zero and what saturates
Integral(z, t) == Clamp(integral[z] + (t - Setpoint), 0, IntegralClamp)

\* Demand of a zone at temperature t, above the idle floor
Demand(z, t) ==
    Clamp(MinFloor + Kp * (t - Setpoint) + Ki * Integral(z, t), 0, PwmMax)

\* Exponential smoothing moves towards the demand and stops there
Smoothing(d) ==
    IF d = smoothed THEN {d}
    ELSE {s \in Min({d, smoothed})..Max({d, smoothed}) : s # smoothed}

\* A fan's duty this tick
Output(f, shared, seek) ==
    IF fan[f].kick THEN PwmMax
    ELSE IF seek THEN fan[f].floor ELSE Max({shared, fan[f].floor})

\* A write is skipped when the duty has hardly moved since the last one
Writes(f, out) ==
    \/ out \in {0, PwmMax}
    \/ fan[f].lastw < 0
    \/ out - fan[f].lastw >= Deadband \/ fan[f].lastw - out >= Deadband

\* The critical override through the smoothing filter (mutant)
TargetsSmoothed(crit, d) ==
    {Max({s, MinFloor}) : s \in Smoothing(IF crit THEN PwmMax ELSE d)}

\* Critical zones bypass the smoothing
Targets(crit, d) ==
    IF crit THEN {PwmMax} ELSE {Max({s, MinFloor}) : s \in Smoothing(d)}

\* Controller.step: temps is what the zones returned, a failed read repeats
\* the last good one.  The refused write is recorded as written all the same.
Tick(temps, nack) ==
    LET crit   == \E z \in Zones : temps[z] >= CritTemp
        demand == Max({0} \cup {Demand(z, temps[z]) : z \in Zones})
        seek   == ~crit /\ demand <= MinFloor
        driven == {f \in Fans : fan[f].present}
    IN  /\ phase = "tick"
        /\ nack \subseteq driven
        /\ phase' = IF driven = {} THEN "tick" ELSE "refine"
        /\ last' = temps
        /\ integral' = [z \in Zones |-> IF crit THEN 0 ELSE Integral(z, temps[z])]
        /\ allow' = seek
        /\ todo' = driven
        /\ \E shared \in Targets(crit, demand) :
             /\ smoothed' = shared
             /\ LET out(f) == Output(f, shared, seek)
                    wr == {f \in driven : Writes(f, out(f))}
                IN  /\ duty' = [f \in Fans |-> IF f \in wr \ nack THEN out(f) ELSE duty[f]]
                    /\ bad' = nack \cap wr
                    /\ fan' = [f \in Fans |->
                         IF f \notin driven THEN fan[f]
                         ELSE [fan[f] EXCEPT !.kick = FALSE,
                                 !.lastw = IF f \in wr THEN out(f) ELSE @]]
        /\ UNCHANGED starts

-----------------------------------------------------------------------------
(* _refine_floor *)

\* A zero reading at the floor: a hard lower bound is learned, the floor is
\* bumped and the fan kicked; at the top of the range only the bound moves
Stalled(r) ==
    LET lo == Max({r.lo, r.floor + StallMargin})
    IN  IF r.floor >= FloorMax
          THEN [r EXCEPT !.flat = 0, !.lo = lo, !.stall = Max({@, r.floor})]
          ELSE [r EXCEPT !.flat = 0, !.lo = lo, !.stall = Max({@, r.floor}),
                         !.floor = Min({FloorMax, Max({lo, r.floor + StallBump})}),
                         !.kick = TRUE, !.blackout = Blackout]

\* Up without the upper limit (mutant)
SeekUpUnbounded(r) == [r EXCEPT !.floor = @ + UpStep, !.flat = 0, !.cooldown = Cooldown]

\* Too slow: up, and no way down for a while
SeekUp(r) ==
    IF r.floor >= FloorMax THEN r
    ELSE [r EXCEPT !.floor = Min({FloorMax, @ + UpStep}), !.flat = 0, !.cooldown = Cooldown]

\* Down to the configured minimum whatever was learned (mutant)
StepDownUnlearned(r, step) ==
    [r EXCEPT !.floor = Max({FloorMin, @ - step}), !.flat = 0, !.settle = StepSettle]

\* Down, never below the learned bound; then wait for the fan to settle
StepDown(r, step) ==
    [r EXCEPT !.floor = Max({FloorMin, r.lo, @ - step}), !.flat = 0, !.settle = StepSettle]

\* Above the target: near it only after enough steady ticks out of cooldown
SeekDown(r, rpm) ==
    IF r.floor <= Max({FloorMin, r.lo}) THEN r
    ELSE IF rpm = "far" THEN StepDown(r, FarStep)
    ELSE IF rpm = "moving" \/ r.cooldown > 0 THEN [r EXCEPT !.flat = 0]
    ELSE IF r.flat + 1 < DownTicks THEN [r EXCEPT !.flat = @ + 1]
    ELSE StepDown(r, NearStep)

Seek(r, rpm) ==
    CASE rpm = "zero" -> Stalled(r)
      [] rpm = "ok"   -> [r EXCEPT !.flat = 0]
      [] rpm = "low"  -> SeekUp(r)
      [] rpm \in {"steady", "moving", "far"} -> SeekDown(r, rpm)

\* One fan after its write; r has had its cooldown counted down
Refined(r, rpm) ==
    IF rpm = "error" THEN r
    ELSE IF ~allow THEN [r EXCEPT !.flat = 0, !.settle = 0]
    ELSE IF r.lastw > r.floor + MeasureTol THEN r
    ELSE IF r.settle > 0 THEN [r EXCEPT !.settle = @ - 1]
    ELSE IF r.blackout > 0 THEN [r EXCEPT !.blackout = @ - 1]
    ELSE Seek(r, rpm)

\* The loop goes on to the next tick once every driven fan is done
RefineFloor(f, rpm) ==
    /\ phase = "refine"
    /\ f \in todo
    /\ fan' = [fan EXCEPT ![f] =
         Refined([fan[f] EXCEPT !.cooldown = Max({0, @ - 1})], rpm)]
    /\ todo' = todo \ {f}
    /\ phase' = IF todo' = {} THEN "tick" ELSE "refine"
    /\ UNCHANGED <<last, integral, smoothed, allow, duty, bad, starts>>

-----------------------------------------------------------------------------
(* The end of the daemon *)

\* SIGTERM or SIGINT: the loop ends, its finally block writes full duty
Stop ==
    /\ phase \in {"start", "tick"}
    /\ phase' = "stopping"
    /\ \E nack \in SUBSET Fans : WriteAll(PwmMax, nack)
    /\ UNCHANGED <<last, integral, smoothed, fan, allow, todo, starts>>

\* Exit, or a kill that runs no handler: only the chip's registers survive
Exit ==
    /\ phase # "off"
    /\ Fresh("off")
    /\ bad' = {}
    /\ UNCHANGED <<duty, starts>>

Next ==
    \/ Start \/ StartBlind \/ Stop \/ Exit
    \/ \E present \in SUBSET Fans : Detect(present)
    \/ \E temps \in [Zones -> Temps] : \E nack \in SUBSET Fans : Tick(temps, nack)
    \/ \E f \in Fans, rpm \in Rpms : RefineFloor(f, rpm)

AnyTick == \E temps \in [Zones -> Temps], nack \in SUBSET Fans : Tick(temps, nack)
AnyRefine == \E f \in Fans, rpm \in Rpms : RefineFloor(f, rpm)

\* The loop keeps ticking, and refused writes are transient: a channel is not
\* refused in every tick from some point on
Spec ==
    /\ Init /\ [][Next]_vars
    /\ WF_vars(AnyTick) /\ WF_vars(AnyRefine)
    /\ \A f \in Fans : SF_vars(AnyTick /\ f \notin bad')

-----------------------------------------------------------------------------
(* Properties *)

\* Every variable keeps its type; the floors stay in their range.
TypeOK ==
    /\ phase \in {"off", "start", "tick", "refine", "stopping"}
    /\ last \in [Zones -> Temps]
    /\ integral \in [Zones -> 0..IntegralClamp]
    /\ smoothed \in 0..PwmMax
    /\ duty \in [Fans -> 0..PwmMax]
    /\ bad \subseteq Fans /\ todo \subseteq Fans
    /\ starts \in 0..MaxStarts
    /\ \A f \in Fans :
         /\ fan[f].floor \in IF fan[f].present THEN FloorMin..FloorMax ELSE {PwmMax}
         /\ fan[f].lastw \in -1..PwmMax
         /\ fan[f].flat \in 0..(DownTicks - 1)
         /\ fan[f].settle \in 0..StepSettle
         /\ fan[f].blackout \in 0..Blackout
         /\ fan[f].cooldown \in 0..Cooldown

\* "Any zone >= crit_temp forces MAX": in the very tick that reads it, every
\* driven fan the bus accepted a write for turns at full duty, whatever the
\* seek, a kick or the smoothing were doing.
CritForcesMax ==
    phase = "refine" /\ (\E z \in Zones : last[z] >= CritTemp) =>
      \A f \in Fans : fan[f].present /\ f \notin bad => duty[f] = PwmMax

\* The seek never returns a fan to a floor at which it was seen stalled,
\* except at the top of the seek range, where it has nowhere to go.
FloorAboveStall ==
    \A f \in Fans : fan[f].present /\ fan[f].stall > 0 =>
      fan[f].floor > fan[f].stall \/ fan[f].floor = FloorMax

\* "On SIGTERM it leaves PWM at MAX": all channels, driven or not, unless the
\* bus refused that last write.
StopLeavesMax ==
    phase = "stopping" => \A f \in Fans : f \notin bad => duty[f] = PwmMax

\* "a sustained above-setpoint temperature ramps the fan instead of idling
\* until crit": a zone that stays over its setpoint while none is critical
\* ends with every driven fan at full duty, even though single writes are
\* refused.  (A critical reading forces full duty and resets the sums.)
Hot == /\ phase \in {"tick", "refine"}
       /\ \E z \in Zones : last[z] > Setpoint
       /\ \A z \in Zones : last[z] < CritTemp
AllFull == \A f \in Fans : fan[f].present => duty[f] = PwmMax
SustainedHeatReachesMax == <>[]Hot => <>[]AllFull

\* "Write a duty register; log transient NACKs and retry on the next tick":
\* after a tick whose write the bus did not refuse, a driven channel holds the
\* duty the daemon believes it wrote.
NackRetried ==
    phase = "refine" =>
      \A f \in Fans : fan[f].present /\ f \notin bad => duty[f] = fan[f].lastw
=============================================================================
