------------------------------- MODULE AskGen -------------------------------
(***************************************************************************)
(* The per-cookie ownership generation registry of ask.ko (ask_flow.c).    *)
(*                                                                         *)
(* The xarray gen_by_cookie maps a cookie to (gen << 1) | state. Every     *)
(* operation runs under the xarray's lock, so each one is a function from  *)
(* the registry to the registry (or to a value). An absent entry is        *)
(* NoEntry: the code reads it as generation 0 and not LIVE.                *)
(***************************************************************************)
EXTENDS Naturals

CONSTANT GenLimit      \* number of values of the u32 generation (2^32)

ASSUME GenLimitAssumption == GenLimit \in Nat /\ GenLimit > 1

\* One registry entry: absent, LIVE or TOMBSTONED.
GenEntry == [gen : 0..(GenLimit - 1), st : {"none", "live", "tomb"}]
NoEntry  == [gen |-> 0, st |-> "none"]

\* The generation the next claim of an entry hands out; 0 is skipped.
NextGen(e) == IF e.gen + 1 = GenLimit THEN 1 ELSE e.gen + 1

\* ask_flow_gen_next: bump and mark LIVE (clears a tombstone).
GenNext(reg, c) == [reg EXCEPT ![c] = [gen |-> NextGen(reg[c]), st |-> "live"]]

\* ask_flow_gen_current: 0 when there is no entry.
GenCurrent(reg, c) == reg[c].gen

\* ask_flow_gen_is_current: generation 0 is never current.
GenIsCurrent(reg, c, g) == g # 0 /\ reg[c] = [gen |-> g, st |-> "live"]

\* ask_flow_gen_tombstone: keep the generation (0 when absent), flip the state.
GenTombstone(reg, c) == [reg EXCEPT ![c] = [gen |-> reg[c].gen, st |-> "tomb"]]

\* ask_flow_gen_release: erase the entry.
GenRelease(reg, c) == [reg EXCEPT ![c] = NoEntry]
=============================================================================
