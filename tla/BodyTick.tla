------------------------------ MODULE BodyTick ------------------------------
(***************************************************************************)
(* The clock of the body (src/cfc.rs inc_tick, tick): the counter the      *)
(* organs of the main loop share.  Every organ stamps what it does with it *)
(* and compares it with its own periods.                                   *)
(***************************************************************************)
EXTENDS Integers

VARIABLE tick            \* cfc::tick

TickInit == tick = 0

\* inc_tick, in a behaviour of at most `last` ticks.
TickAdvances(last) == tick < last /\ tick' = tick + 1
=============================================================================
