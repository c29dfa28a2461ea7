--------------------------- MODULE MCGuardEvidence -----------------------------
(* Small instances of GuardEvidence. *)
EXTENDS GuardEvidence

\* The guard judges, with its default threshold, and keeps an account off for a minute.
Judging == [enabled |-> TRUE, dryRun |-> FALSE, baseline |-> TRUE, threshold |-> 0,
            minEnabled |-> 1, scope |-> {}, reenableMinutes |-> 1, maxDisableMinutes |-> 1]

MCConfigs == {Judging}
================================================================================
