------------------------- MODULE MCLifecycleBarrier -------------------------
(***************************************************************************)
(* Three maintenance and two exclusive calls: enough for maintenance       *)
(* before, between and after two exclusive operations, for one operation   *)
(* nested in the other, and for work of an expired owner that calls during *)
(* the next.                                                               *)
(***************************************************************************)
EXTENDS LifecycleBarrier

CONSTANTS m1, m2, m3, x1, x2

MCMaintenance == {m1, m2, m3}
MCExclusive == {x1, x2}
=============================================================================
