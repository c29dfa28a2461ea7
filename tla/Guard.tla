-------------------------------- MODULE Guard --------------------------------
(***************************************************************************)
(* The account guard's decision logic, internal/guard/guard.go: the state  *)
(* machine Advance runs over what the runner reads, and the ownership      *)
(* reconciliation AdoptOwnership.  The package is pure, and so is this     *)
(* module: it declares no variable.  AccountGuard drives it.               *)
(*                                                                         *)
(* An account is its position in CPA's configuration file, because the     *)
(* order of the file decides which account meets the MinEnabled floor      *)
(* first.  Provider keys are already normalised and unique here (what      *)
(* uniqueAccounts and normalizeKey establish before anything is decided).  *)
(***************************************************************************)
EXTENDS Integers, FiniteSets

CONSTANTS
    NumAccounts,   \* how many Cline entries the configuration file has
    CountCap       \* disableCount saturates here (see Bump)

ASSUME NumAccountsAssumption == NumAccounts \in Nat

ASSUME CountCapAssumption == CountCap \in Nat \ {0}

Account == 1 .. NumAccounts

\* A doubling that stays a number: what the backoff relies on up to the cap.
ASSUME DoublingAssumption == \A n \in 0 .. CountCap : 2 ^ n \in Nat

-----------------------------------------------------------------------------
\* What the file can say of an entry.  "absent" is an entry that is not there.
Entry == {"enabled", "disabled", "absent"}

\* The actions a Decision carries; "none" stands for no decision, and for an
\* account the audit trail does not mention.
Action == {"disable", "enable", "disable_dry_run", "enable_external", "none"}

\* nextRetryAt is kept as the minutes that are left; a nil pointer is Never.
Never == -1

Options == [enabled : BOOLEAN, dryRun : BOOLEAN, baseline : BOOLEAN,
            threshold : Int, minEnabled : Int, scope : SUBSET Account,
            reenableMinutes : Int, maxDisableMinutes : Int]

AccountState == [streak : Nat, disabledByGuard : BOOLEAN,
                 disableCount : 0 .. CountCap, nextRetryAt : Nat \cup {Never},
                 dryRunReported : BOOLEAN]

FreshAccount == [streak |-> 0, disabledByGuard |-> FALSE, disableCount |-> 0,
                 nextRetryAt |-> Never, dryRunReported |-> FALSE]

NewState == [a \in Account |-> FreshAccount]

-----------------------------------------------------------------------------
(* Options *)

normalized(o) ==
    [enabled  |-> o.enabled,
     dryRun   |-> o.dryRun,
     baseline |-> o.baseline,
     scope    |-> o.scope,
     threshold         |-> IF o.threshold <= 0 THEN 3 ELSE o.threshold,
     minEnabled        |-> IF o.minEnabled <= 0 THEN 1 ELSE o.minEnabled,
     reenableMinutes   |-> IF o.reenableMinutes < 0 THEN 5 ELSE o.reenableMinutes,
     maxDisableMinutes |-> IF o.maxDisableMinutes <= 0 THEN 360 ELSE o.maxDisableMinutes]

canJudge(o) == o.enabled /\ o.baseline

InScope(o, a) == o.scope = {} \/ a \in o.scope

\* The backoff depends on the count only until it reaches maxDisableMinutes, so
\* the count stops growing there: Saturates says the cap is past that point.
Bump(n) == IF n < CountCap THEN n + 1 ELSE n

Saturates(o) == normalized(o).reenableMinutes * 2 ^ (CountCap - 1)
                    >= normalized(o).maxDisableMinutes
                \/ normalized(o).reenableMinutes = 0

backoffNext(n, o) ==
    LET minutes == o.reenableMinutes * 2 ^ (n - 1)
    IN  IF o.reenableMinutes = 0 THEN Never
        ELSE IF minutes > o.maxDisableMinutes THEN o.maxDisableMinutes
        ELSE minutes

-----------------------------------------------------------------------------
(* Counting.  A batch says, for one account, what the fresh samples of this *)
(* round add up to: whether the baseline channel is among them, and how     *)
(* many off-baseline ones follow it (or follow the old streak).             *)
(* GuardEvidence checks this summary against the loop over the samples.     *)

CountAccount(s, batch) ==
    [streak          |-> (IF batch.baseline THEN 0 ELSE s.streak) + batch.off,
     disabledByGuard |-> s.disabledByGuard,
     disableCount    |-> s.disableCount,
     nextRetryAt     |-> s.nextRetryAt,
     dryRunReported  |-> s.dryRunReported /\ ~batch.baseline]

count(st, view, batch, o) ==
    [a \in Account |-> IF canJudge(o) /\ view[a] # "absent"
                       THEN CountAccount(st[a], batch[a])
                       ELSE st[a]]

-----------------------------------------------------------------------------
(* Deciding *)

EnabledInScope(view, o) == {a \in Account : InScope(o, a) /\ view[a] = "enabled"}

\* Enabled accounts the guard may judge and whose streak reached the threshold.
Candidates(st, view, o) ==
    {a \in Account : /\ view[a] = "enabled"
                     /\ ~st[a].disabledByGuard
                     /\ canJudge(o) /\ InScope(o, a)
                     /\ st[a].streak >= o.threshold}

Before(S, a) == {b \in S : b < a}

DisablesForgetful(st, view, o) ==   \* mutated form: forgets what this round disabled
    {a \in Candidates(st, view, o) : Cardinality(EnabledInScope(view, o)) > o.minEnabled}

DisablesOneMore(st, view, o) ==     \* mutated form: the floor is off by one
    LET candidates == Candidates(st, view, o)
    IN  {a \in candidates : Cardinality(EnabledInScope(view, o))
                                - Cardinality(Before(candidates, a)) >= o.minEnabled}

\* Walking the file, a candidate is disabled while the floor still allows it;
\* once it does not, no later candidate is.
Disables(st, view, o) ==
    LET candidates == Candidates(st, view, o)
        enabled    == Cardinality(EnabledInScope(view, o))
    IN  {a \in candidates : enabled - Cardinality(Before(candidates, a)) > o.minEnabled}

DecisionWet(st, view, o, a) ==      \* mutated form: a dry run disables as well
    CASE view[a] = "disabled" /\ st[a].disabledByGuard /\ st[a].nextRetryAt = 0
            -> "enable"
      [] view[a] = "enabled" /\ st[a].disabledByGuard -> "enable_external"
      [] a \in Disables(st, view, o) -> "disable"
      [] OTHER -> "none"

Decision(st, view, o, a) ==
    CASE view[a] = "disabled" /\ st[a].disabledByGuard /\ st[a].nextRetryAt = 0
            -> "enable"
      [] view[a] = "enabled" /\ st[a].disabledByGuard
            -> "enable_external"
      [] o.dryRun /\ a \in Candidates(st, view, o) /\ ~st[a].dryRunReported
            -> "disable_dry_run"
      [] ~o.dryRun /\ a \in Disables(st, view, o)
            -> "disable"
      [] OTHER -> "none"

\* The guard owns the entry, for the n-th time.
Claimed(s, n, o) ==
    [streak |-> s.streak, disabledByGuard |-> TRUE, disableCount |-> n,
     nextRetryAt |-> backoffNext(n, o), dryRunReported |-> s.dryRunReported]

\* It owns it no longer, and remembers how often it did.
Given(n) == [FreshAccount EXCEPT !.disableCount = n]

\* Somebody else's disable is not counted towards one of the guard's.
Forgotten(s) ==
    [streak |-> 0, disabledByGuard |-> s.disabledByGuard, disableCount |-> s.disableCount,
     nextRetryAt |-> s.nextRetryAt, dryRunReported |-> FALSE]

Decided(s, entry, d, o) ==
    CASE d = "enable"          -> Given(s.disableCount)
      [] d = "enable_external" -> Given(0)
      [] d = "disable_dry_run" -> [s EXCEPT !.dryRunReported = TRUE]
      [] d = "disable"         -> Claimed(s, Bump(s.disableCount), o)
      [] d = "none" /\ entry = "disabled" /\ ~s.disabledByGuard -> Forgotten(s)
      [] OTHER                 -> s

\* The decisions of one round, and the memory it leaves.
Decisions(st, view, o) == [a \in Account |-> Decision(st, view, o, a)]

decide(st, view, decisions, o) ==
    [a \in Account |-> Decided(st[a], view[a], decisions[a], o)]

-----------------------------------------------------------------------------
(* Ownership.  audit maps an account to the last action the trail records. *)

AdoptableAnyone(st, view, audit) ==   \* mutated form: does not ask the trail
    {a \in Account : view[a] = "disabled" /\ ~st[a].disabledByGuard}

Adoptable(st, view, audit) ==
    {a \in Account : /\ view[a] = "disabled"
                     /\ ~st[a].disabledByGuard
                     /\ audit[a] = "disable"}

AdoptAccount(s, o) == Claimed(s, IF s.disableCount < 1 THEN 1 ELSE s.disableCount, o)

AdoptNothing(st, view, audit, o) == st   \* mutated form: no reconciliation

AdoptOwnership(st, view, audit, o) ==
    [a \in Account |-> IF a \in Adoptable(st, view, audit)
                       THEN AdoptAccount(st[a], o) ELSE st[a]]
=============================================================================
