----------------------------- MODULE GuardContract -----------------------------
(***************************************************************************)
(* What the account guard promises about the accounts in CPA's             *)
(* configuration, without saying how: who switched each entry off, and     *)
(* what the guard may do about it.  It never switches off the last         *)
(* MinKept accounts in its scope, it never switches on an account that the *)
(* operator switched off, and every account it switched off comes back.    *)
(* An entry the operator takes out while it is the guard's ("taken") may   *)
(* be put back as the guard left it, and is the guard's again.             *)
(***************************************************************************)
EXTENDS Integers, FiniteSets

CONSTANTS
    Account,   \* the entries
    Guarded,   \* the entries the floor counts
    MinKept    \* the floor

VARIABLES
    owner,   \* who switched the entry off; "nobody" when it is on
    edits    \* how often the operator has been at the file

vars == <<owner, edits>>

Init == owner \in [Account -> {"nobody", "operator", "absent"}] /\ edits = 0

On == {a \in Guarded : owner[a] = "nobody"}

Disable(a) ==
    /\ a \in On
    /\ Cardinality(On) > MinKept
    /\ owner' = [owner EXCEPT ![a] = "guard"]
    /\ UNCHANGED edits

Release(a) ==
    /\ owner[a] = "guard"
    /\ owner' = [owner EXCEPT ![a] = "nobody"]
    /\ UNCHANGED edits

Operator(a) ==
    /\ \/ \E o \in {"nobody", "operator", "absent"} : owner' = [owner EXCEPT ![a] = o]
       \/ owner[a] = "guard" /\ owner' = [owner EXCEPT ![a] = "taken"]
       \/ owner[a] = "taken" /\ owner' = [owner EXCEPT ![a] = "guard"]
    /\ edits' = edits + 1

Next == \E a \in Account : Disable(a) \/ Release(a) \/ Operator(a)

Fairness == \A a \in Account : WF_vars(Release(a))

Safety == Init /\ [][Next]_vars

Spec == Safety /\ Fairness
================================================================================
