----------------------------- MODULE MCPlanPoller ------------------------------
(* Small instances of PlanPoller: two keys of one account and one of another.   *)
EXTENDS PlanPoller

CONSTANTS k1, k2, k3, u1, u2

MCOwner == (k1 :> u1) @@ (k2 :> u1) @@ (k3 :> u2)

\* One list is too long and has a key twice, one is in another order, one is empty.
MCSetups == {<<>>, <<k1, k2>>, <<k3, k2>>, <<k2, k2, k3, k1>>}
================================================================================
