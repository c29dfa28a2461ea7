---------------------------- MODULE MCAccountGuard -----------------------------
(* Small instances of AccountGuard: the option records of its runs. *)
EXTENDS AccountGuard

Base == [enabled |-> TRUE, dryRun |-> FALSE, baseline |-> TRUE,
         threshold |-> 1, minEnabled |-> 0, scope |-> {},
         reenableMinutes |-> 1, maxDisableMinutes |-> 2]

Live       == {Base}
Any        == {Base, [Base EXCEPT !.dryRun = TRUE], [Base EXCEPT !.enabled = FALSE]}
===============================================================================
