------------------------------ MODULE MCSched ------------------------------
(***************************************************************************)
(* Sched with values for its constants: sleeps for no time, which only     *)
(* yield, and for as many ticks as let two sleepers pass a third.          *)
(***************************************************************************)
EXTENDS Sched

Sleeps == {0, 10, 20, 30}
=============================================================================
