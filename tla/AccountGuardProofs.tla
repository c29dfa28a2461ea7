-------------------------- MODULE AccountGuardProofs ---------------------------
(***************************************************************************)
(* What TLAPS proves of AccountGuard, for any number of accounts, any      *)
(* configurations, any faults and any bounds.                              *)
(***************************************************************************)
EXTENDS AccountGuard, FiniteSetTheorems, TLAPS

\* The options a runner works with: normalised ones.
NormalOptions == {o \in Options : o.reenableMinutes >= 0 /\ o.maxDisableMinutes > 0
                                  /\ o.threshold > 0 /\ o.minEnabled > 0}

-----------------------------------------------------------------------------
(* The pure part *)

\* Every option record of the runner is normalised (guard.go, normalized).
LEMMA NormalizedOptions ==
    ASSUME NEW o \in Options PROVE normalized(o) \in NormalOptions
  BY DEF normalized, Options, NormalOptions

\* The backoff is a number of minutes or never (guard.go, backoffNext).
LEMMA BackoffType ==
    ASSUME NEW n \in 1 .. CountCap, NEW o \in NormalOptions
    PROVE  backoffNext(n, o) \in Nat \cup {Never}
<1>1. n - 1 \in 0 .. CountCap
  BY CountCapAssumption
<1>2. 2 ^ (n - 1) \in Nat
  BY <1>1, DoublingAssumption
<1>3. o.reenableMinutes \in Nat /\ o.maxDisableMinutes \in Nat
  BY DEF NormalOptions, Options
<1>4. o.reenableMinutes * 2 ^ (n - 1) \in Nat
  BY <1>2, <1>3
<1> QED
  BY <1>3, <1>4 DEF backoffNext

LEMMA BumpType ==
    ASSUME NEW n \in 0 .. CountCap PROVE Bump(n) \in 1 .. CountCap
  BY CountCapAssumption DEF Bump

\* Counting keeps a memory slot well formed (guard.go, count).
LEMMA CountType ==
    ASSUME NEW s \in AccountState, NEW b \in [baseline : BOOLEAN, off : 0 .. MaxBatch]
    PROVE  CountAccount(s, b) \in AccountState
  BY BoundsAssumption DEF CountAccount, AccountState

LEMMA CountedType ==
    ASSUME NEW S \in [Account -> AccountState], NEW view, NEW o,
           NEW b \in [Account -> [baseline : BOOLEAN, off : 0 .. MaxBatch]]
    PROVE  count(S, view, b, o) \in [Account -> AccountState]
  BY CountType DEF count

\* Carrying out any decision keeps a memory slot well formed (guard.go, decide).
LEMMA DecidedType ==
    ASSUME NEW s \in AccountState, NEW e, NEW d, NEW o \in NormalOptions
    PROVE  Decided(s, e, d, o) \in AccountState
<1>1. backoffNext(Bump(s.disableCount), o) \in Nat \cup {Never}
  BY BumpType, BackoffType DEF AccountState
<1>2. Bump(s.disableCount) \in 0 .. CountCap
  BY BumpType DEF AccountState
<1>3. Claimed(s, Bump(s.disableCount), o) \in AccountState
  BY <1>1, <1>2 DEF Claimed, AccountState
<1>4. ASSUME NEW n \in 0 .. CountCap PROVE Given(n) \in AccountState
  BY DEF Given, FreshAccount, AccountState, Never
<1>5. Forgotten(s) \in AccountState
  BY DEF Forgotten, AccountState
<1>6. [s EXCEPT !.dryRunReported = TRUE] \in AccountState
  BY DEF AccountState
<1> QED
  BY <1>3, <1>4, <1>5, <1>6, CountCapAssumption DEF Decided, AccountState

LEMMA DecideType ==
    ASSUME NEW S \in [Account -> AccountState], NEW view, NEW d, NEW o \in NormalOptions
    PROVE  decide(S, view, d, o) \in [Account -> AccountState]
  BY DecidedType DEF decide

LEMMA DecisionsType ==
    ASSUME NEW S, NEW view, NEW o
    PROVE  Decisions(S, view, o) \in [Account -> Action]
<1>1. ASSUME NEW a \in Account PROVE Decision(S, view, o, a) \in Action
  BY DEF Decision, Action
<1> QED
  BY <1>1 DEF Decisions

\* A decision to disable is taken by a runner that may judge, and not in dry run.
LEMMA DisableIsAllowed ==
    ASSUME NEW S, NEW view, NEW o, NEW a \in Account, Decisions(S, view, o)[a] = "disable"
    PROVE  canJudge(o) /\ ~o.dryRun
<1>1. Decision(S, view, o, a) = "disable"
  BY DEF Decisions
<1>2. ~o.dryRun /\ a \in Disables(S, view, o)
  BY <1>1 DEF Decision
<1> QED
  BY <1>2 DEF Disables, Candidates

LEMMA AdoptType ==
    ASSUME NEW S \in [Account -> AccountState], NEW view, NEW trail, NEW o \in NormalOptions
    PROVE  AdoptOwnership(S, view, trail, o) \in [Account -> AccountState]
<1>1. ASSUME NEW s \in AccountState PROVE AdoptAccount(s, o) \in AccountState
  <2> DEFINE n == IF s.disableCount < 1 THEN 1 ELSE s.disableCount
  <2>1. n \in 1 .. CountCap
    BY CountCapAssumption DEF AccountState
  <2>2. backoffNext(n, o) \in Nat \cup {Never}
    BY <2>1, BackoffType
  <2> QED
    BY <2>1, <2>2 DEF AdoptAccount, Claimed, AccountState, Never
<1> QED
  BY <1>1 DEF AdoptOwnership

-----------------------------------------------------------------------------
(* The inductive invariant *)

\* What a round's steps rely on between two accesses to a file: nothing is left
\* to do outside a round; the options that allowed a decision are still the
\* runner's when it is carried out; from the moment the buffer is filled until it is
\* written, it says what the current decision wants and, as long as nobody edits
\* the file meanwhile, nothing else.
RoundInv ==
    /\ pc \in {"down", "start", "idle", "checkpoint"} => todo = NoDecision
    /\ \A a \in Account : todo[a] = "disable" => canJudge(opts) /\ ~opts.dryRun
    /\ pc \in {"read", "save", "write", "verify"} =>
           \A a \in Account : Current(a) => todo[a] \in {"disable", "enable"}
    /\ pc \in {"save", "write"} =>
           \A a \in Account : Current(a) => buf[a] = Want(todo[a])
    /\ Attentive /\ pc \in {"save", "write"} =>
           \A a \in Account : Current(a) => \A b \in Account \ {a} : buf[b] = file[b]

Inv == TypeOK /\ RoundInv

LEMMA OptsNormal ==
    ASSUME TypeOK PROVE opts \in NormalOptions
  BY NormalizedOptions, ConfigsAssumption DEF TypeOK

LEMMA NewStateType == NewState \in [Account -> AccountState]
  BY CountCapAssumption DEF NewState, FreshAccount, AccountState, Never

LEMMA AgeType ==
    ASSUME NEW S \in [Account -> AccountState] PROVE Age(S) \in [Account -> AccountState]
<1>1. ASSUME NEW a \in Account
      PROVE  [S[a] EXCEPT !.nextRetryAt = IF @ > 0 THEN @ - 1 ELSE @] \in AccountState
  BY DEF AccountState, Never
<1> QED
  BY <1>1 DEF Age

LEMMA InitType == Init => TypeOK
<1> SUFFICES ASSUME Init PROVE TypeOK
  OBVIOUS
<1>1. NoDecision \in [Account -> Action] /\ NoDecision \in [Account -> {"none", "enabled", "disabled"}]
  BY DEF NoDecision, Action
<1>2. file \in [Account -> Entry]
  BY DEF Init, Entry
<1>3. offBy \in [Account -> {"nobody", "guard", "operator", "stale"}]
  BY DEF Init
<1>4. {faults, edits, stops, crashes, losses} \subseteq Nat
  BY DEF Init
<1>5. /\ buf \in [Account -> Entry] /\ touched \in SUBSET Account /\ pc \in PCs
      /\ opts \in {normalized(o) : o \in Configs}
      /\ torn \in BOOLEAN /\ adopted \in BOOLEAN /\ forced \in BOOLEAN
  BY <1>2 DEF Init, PCs
<1>6. /\ disk \in [Account -> AccountState] /\ st \in [Account -> AccountState]
      /\ audit \in [Account -> Action] /\ todo \in [Account -> Action]
      /\ pending \in [Account -> {"none", "enabled", "disabled"}]
  BY <1>1, NewStateType DEF Init
<1> QED
  BY <1>2, <1>3, <1>4, <1>5, <1>6 DEF TypeOK

LEMMA NextDecisionType ==
    ASSUME TypeOK, NEW a \in Account, NextDecision(a)
    PROVE  todo' \in [Account -> Action] /\ pc' \in PCs
  BY DEF TypeOK, NextDecision, Action, PCs

LEMMA FaultsType ==
    ASSUME TypeOK, NEW k, Fails(k) \/ Works PROVE faults' \in Nat
  BY DEF TypeOK, Fails, Works

LEMMA PendingType ==
    ASSUME TypeOK, NEW a \in Account, Fail(a) \/ Clear(a) \/ UNCHANGED pending
    PROVE  pending' \in [Account -> {"none", "enabled", "disabled"}]
  BY DEF TypeOK, Fail, Clear, Want

LEMMA GoneType ==
    ASSUME TypeOK, Gone
    PROVE  /\ pc' \in PCs /\ opts' \in {normalized(o) : o \in Configs}
           /\ st' \in [Account -> AccountState]
           /\ pending' \in [Account -> {"none", "enabled", "disabled"}]
           /\ adopted' \in BOOLEAN /\ forced' \in BOOLEAN
           /\ todo' \in [Account -> Action] /\ buf' \in [Account -> Entry]
<1>1. NoDecision \in [Account -> Action] /\ NoDecision \in [Account -> {"none", "enabled", "disabled"}]
  BY DEF NoDecision, Action
<1> QED
  BY <1>1, NewStateType DEF TypeOK, Gone, PCs

LEMMA JudgeType == TypeOK /\ Judge => TypeOK'
<1> SUFFICES ASSUME TypeOK, Judge PROVE TypeOK'
  OBVIOUS
<1>1. PICK base \in {st, AdoptOwnership(st, View, audit, opts)},
           b \in Batches \cup {NoSamples} :
        /\ Reconciled(base)
        /\ todo' = Decisions(count(base, View, b, opts), View, opts)
        /\ st' = decide(count(base, View, b, opts), View, todo', opts)
  BY DEF Judge
<1>2. base \in [Account -> AccountState]
  BY <1>1, OptsNormal, AdoptType DEF TypeOK
<1>3. b \in [Account -> [baseline : BOOLEAN, off : 0 .. MaxBatch]]
  <2>1. NoSamples \in [Account -> [baseline : BOOLEAN, off : 0 .. MaxBatch]]
    BY BoundsAssumption DEF NoSamples
  <2>2. b \in Batches \/ b = NoSamples
    OBVIOUS
  <2> QED
    BY <2>1, <2>2 DEF Batches
<1>4. todo' \in [Account -> Action]
  BY <1>1, DecisionsType
<1>5. st' \in [Account -> AccountState]
  BY <1>1, <1>2, <1>3, CountedType, DecideType, OptsNormal
<1>6. faults' \in Nat
  BY <1>1, FaultsType DEF Reconciled
<1>7. touched' \in SUBSET Account /\ adopted' \in BOOLEAN
  BY DEF Judge
<1>8. forced' \in BOOLEAN
  BY DEF Judge
<1>9. pc' \in PCs
  BY DEF Judge, PCs
<1> QED
  BY <1>4, <1>5, <1>6, <1>7, <1>8, <1>9 DEF Judge, TypeOK, files

LEMMA RecordType == \A a \in Account : TypeOK /\ Record(a) => TypeOK'
<1> SUFFICES ASSUME NEW a \in Account, TypeOK, Record(a) PROVE TypeOK'
  OBVIOUS
<1>1. todo' \in [Account -> Action] /\ pc' \in PCs
  BY NextDecisionType DEF Record, TypeOK, PCs
<1>2. audit' \in [Account -> Action]
  BY DEF Record, TypeOK
<1>3. faults' \in Nat
  BY FaultsType DEF Record
<1> QED
  BY <1>1, <1>2, <1>3 DEF Record, TypeOK

LEMMA ApplyReadType == \A a \in Account : TypeOK /\ ApplyRead(a) => TypeOK'
<1> SUFFICES ASSUME NEW a \in Account, TypeOK, ApplyRead(a) PROVE TypeOK'
  OBVIOUS
<1>1. todo' \in [Account -> Action] /\ pc' \in PCs
  BY NextDecisionType DEF ApplyRead, TypeOK, PCs
<1>2. pending' \in [Account -> {"none", "enabled", "disabled"}]
  BY PendingType DEF ApplyRead
<1>3. faults' \in Nat
  BY FaultsType DEF ApplyRead
<1>4. buf' \in [Account -> Entry]
  BY DEF ApplyRead, TypeOK, Entry, Want
<1> QED
  BY <1>1, <1>2, <1>3, <1>4 DEF ApplyRead, TypeOK, files

LEMMA WriteConfigType == \A a \in Account : TypeOK /\ WriteConfig(a) => TypeOK'
<1> SUFFICES ASSUME NEW a \in Account, TypeOK, WriteConfig(a) PROVE TypeOK'
  OBVIOUS
<1>1. todo' \in [Account -> Action] /\ pc' \in PCs
  BY NextDecisionType DEF WriteConfig, TypeOK, PCs
<1>2. pending' \in [Account -> {"none", "enabled", "disabled"}]
  BY PendingType DEF WriteConfig
<1>3. faults' \in Nat
  BY FaultsType DEF WriteConfig
<1>4. file' \in [Account -> Entry] /\ torn' \in BOOLEAN
  BY DEF WriteConfig, TypeOK
<1>5. offBy' \in [Account -> {"nobody", "guard", "operator", "stale"}]
  BY DEF WriteConfig, TypeOK, OffByAfter
<1> QED
  BY <1>1, <1>2, <1>3, <1>4, <1>5 DEF WriteConfig, TypeOK

LEMMA VerifyType == \A a \in Account : TypeOK /\ Verify(a) => TypeOK'
<1> SUFFICES ASSUME NEW a \in Account, TypeOK, Verify(a) PROVE TypeOK'
  OBVIOUS
<1>1. todo' \in [Account -> Action] /\ pc' \in PCs
  BY NextDecisionType DEF Verify
<1>2. pending' \in [Account -> {"none", "enabled", "disabled"}]
  BY PendingType DEF Verify
<1>3. faults' \in Nat
  BY FaultsType DEF Verify
<1> QED
  BY <1>1, <1>2, <1>3 DEF Verify, TypeOK, files

\* Every step keeps the type invariant.
LEMMA StepType == TypeOK /\ [Next]_vars => TypeOK'
<1> SUFFICES ASSUME TypeOK, [Next]_vars PROVE TypeOK'
  OBVIOUS
<1>1. CASE Start
  BY <1>1 DEF Start, TypeOK, PCs, files, budgets
<1>2. CASE Stop
  BY <1>2, GoneType DEF Stop, TypeOK, files
<1>3. CASE Crash
  BY <1>3, GoneType DEF Crash, TypeOK, files
<1>4. CASE Judge
  BY <1>4, JudgeType
<1>5. CASE JudgeUnread
  BY <1>5, FaultsType DEF JudgeUnread, TypeOK, PCs, files
<1>6. CASE SaveBefore
  BY <1>6, FaultsType DEF SaveBefore, TypeOK, PCs
<1>7. CASE Checkpoint
  BY <1>7, FaultsType DEF Checkpoint, TypeOK, PCs
<1>8. CASE \E a \in Account : Step(a)
  BY <1>8, RecordType, ApplyReadType, WriteConfigType, VerifyType DEF Step
<1>9. CASE \E a \in Account, v \in Entry : Edit(a, v)
  <2>1. PICK a \in Account, v \in Entry : Edit(a, v)
    BY <1>9
  <2>2. OffByEdited(a, v) \in {"nobody", "guard", "operator", "stale"}
    BY DEF OffByEdited, Entry
  <2> QED
    BY <2>1, <2>2 DEF Edit, TypeOK, runner, Entry
<1>10. CASE HostTears
  BY <1>10 DEF HostTears, Fails, TypeOK, runner
<1>11. CASE HostMends
  BY <1>11 DEF HostMends, TypeOK, runner, budgets
<1>12. CASE LoseState
  BY <1>12, NewStateType DEF LoseState, TypeOK, runner
<1>13. CASE Elapse
  BY <1>13, AgeType DEF Elapse, TypeOK, budgets
<1>14. CASE UNCHANGED vars
  BY <1>14 DEF vars, files, runner, budgets, TypeOK
<1> QED
  BY <1>1, <1>2, <1>3, <1>4, <1>5, <1>6, <1>7, <1>8, <1>9, <1>10, <1>11, <1>12, <1>13, <1>14
     DEF Next, Tick

\* Every behaviour of the runner keeps the type invariant.
THEOREM TypeCorrect == Spec => []TypeOK
<1>1. Init => TypeOK
  BY InitType
<1>2. TypeOK /\ [Next]_vars => TypeOK'
  BY StepType
<1> QED
  BY <1>1, <1>2, PTL DEF Spec

-----------------------------------------------------------------------------
(* A round does what was decided, under the options that decided it *)

\* At most one account is the current one, and the rest of the round follows it.
LEMMA OneCurrent ==
    ASSUME NEW a \in Account, NEW b \in Account, Current(a), Current(b) PROVE a = b
  BY NumAccountsAssumption DEF Current, Due, Account

LEMMA NextDecisionDone ==
    ASSUME TypeOK, NEW a \in Account, NextDecision(a)
    PROVE  /\ pc' \in {"checkpoint", "record"}
           /\ pc' = "checkpoint" => todo' = NoDecision
           /\ \A b \in Account : todo'[b] \in {todo[b], "none"}
<1>1. todo \in [Account -> Action]
  BY DEF TypeOK
<1>2. Due = {a} => [todo EXCEPT ![a] = "none"] = NoDecision
  BY <1>1 DEF Due, NoDecision
<1> QED
  BY <1>1, <1>2 DEF NextDecision

\* Once a decision is done with, what RoundInv says of the next one holds.
LEMMA RoundAfterDecision ==
    ASSUME TypeOK, RoundInv, NEW a \in Account, NextDecision(a), UNCHANGED opts
    PROVE  RoundInv'
<1>1. ~(pc' \in {"down", "start", "idle", "read", "save", "write", "verify"})
  BY NextDecisionDone
<1>2. pc' = "checkpoint" => todo' = NoDecision
  BY NextDecisionDone
<1>3. \A b \in Account : todo'[b] = "disable" => canJudge(opts') /\ ~opts'.dryRun
  BY NextDecisionDone DEF RoundInv
<1> QED
  BY <1>1, <1>2, <1>3 DEF RoundInv

\* A step that leaves the round alone, and the file if the buffer is filled.
LEMMA RoundUntouched ==
    ASSUME RoundInv, UNCHANGED <<pc, todo, opts, buf>>,
           Attentive /\ pc \in {"save", "write"} => UNCHANGED file
    PROVE  RoundInv'
  BY DEF RoundInv, Current, Due

LEMMA RoundOutside ==
    ASSUME todo' = NoDecision, pc' \in {"down", "start", "idle", "checkpoint"} PROVE RoundInv'
  BY DEF RoundInv, NoDecision

LEMMA RoundJudge == TypeOK /\ Judge => RoundInv'
<1> SUFFICES ASSUME TypeOK, Judge PROVE RoundInv'
  OBVIOUS
<1>1. PICK S : todo' = Decisions(S, View, opts)
  BY DEF Judge
<1>2. \A a \in Account : todo'[a] = "disable" => canJudge(opts) /\ ~opts.dryRun
  BY <1>1, DisableIsAllowed
<1>3. pc' = (IF todo' # NoDecision THEN "record" ELSE "checkpoint") /\ opts' = opts
  BY DEF Judge
<1> QED
  BY <1>2, <1>3 DEF RoundInv

LEMMA RoundRecord == \A a \in Account : TypeOK /\ RoundInv /\ Record(a) => RoundInv'
<1> SUFFICES ASSUME NEW a \in Account, TypeOK, RoundInv, Record(a) PROVE RoundInv'
  OBVIOUS
<1>1. opts' = opts
  BY DEF Record
<1>2. CASE todo[a] \in {"disable", "enable"}
  <2>1. pc' = "read" /\ todo' = todo
    BY <1>2 DEF Record
  <2>2. \A b \in Account : Current(b)' => b = a
    BY <2>1, OneCurrent DEF Record, Current, Due
  <2> QED
    BY <1>1, <1>2, <2>1, <2>2 DEF RoundInv
<1>3. CASE todo[a] \notin {"disable", "enable"}
  BY <1>1, <1>3, RoundAfterDecision DEF Record
<1> QED
  BY <1>2, <1>3

LEMMA RoundApplyRead == \A a \in Account : TypeOK /\ RoundInv /\ ApplyRead(a) => RoundInv'
<1> SUFFICES ASSUME NEW a \in Account, TypeOK, RoundInv, ApplyRead(a) PROVE RoundInv'
  OBVIOUS
<1>1. opts' = opts /\ file' = file
  BY DEF ApplyRead, files
<1>2. CASE NextDecision(a)
  BY <1>1, <1>2, RoundAfterDecision
<1>3. CASE pc' = "save" /\ UNCHANGED todo /\ buf' = [file EXCEPT ![a] = Want(todo[a])]
  <2>1. pc = "read" /\ Current(a)
    BY DEF ApplyRead
  <2>2. \A b \in Account : Current(b)' => b = a
    BY <1>3, <2>1, OneCurrent DEF Current, Due
  <2>3. file \in [Account -> Entry] /\ todo[a] \in {"disable", "enable"}
    BY <2>1 DEF TypeOK, RoundInv
  <2> QED
    BY <1>1, <1>3, <2>2, <2>3 DEF RoundInv, Want
<1> QED
  BY <1>2, <1>3 DEF ApplyRead

LEMMA RoundSaveBefore == RoundInv /\ SaveBefore => RoundInv'
<1> SUFFICES ASSUME RoundInv, SaveBefore PROVE RoundInv'
  OBVIOUS
<1>1. pc = "save" /\ pc' = "write" /\ UNCHANGED <<file, opts, todo, buf>>
  BY DEF SaveBefore
<1> QED
  BY <1>1 DEF RoundInv, Current, Due

LEMMA RoundWriteConfig == \A a \in Account : TypeOK /\ RoundInv /\ WriteConfig(a) => RoundInv'
<1> SUFFICES ASSUME NEW a \in Account, TypeOK, RoundInv, WriteConfig(a) PROVE RoundInv'
  OBVIOUS
<1>1. CASE NextDecision(a)
  BY <1>1, RoundAfterDecision DEF WriteConfig
<1>2. CASE pc' = "verify" /\ UNCHANGED todo
  BY <1>2 DEF WriteConfig, RoundInv, Current, Due
<1> QED
  BY <1>1, <1>2 DEF WriteConfig

\* Every step keeps the round's invariant.
LEMMA StepRound == Inv /\ [Next]_vars => RoundInv'
<1> SUFFICES ASSUME TypeOK, RoundInv, [Next]_vars PROVE RoundInv'
  BY DEF Inv
<1>1. CASE Start
  BY <1>1, RoundOutside DEF Start, RoundInv
<1>2. CASE Stop
  BY <1>2, RoundOutside DEF Stop, Gone
<1>3. CASE Crash
  BY <1>3, RoundOutside DEF Crash, Gone
<1>4. CASE Judge
  BY <1>4, RoundJudge
<1>5. CASE JudgeUnread
  BY <1>5, RoundOutside DEF JudgeUnread, RoundInv
<1>6. CASE SaveBefore
  BY <1>6, RoundSaveBefore
<1>7. CASE Checkpoint
  BY <1>7, RoundOutside DEF Checkpoint, RoundInv
<1>8. CASE \E a \in Account : Step(a)
  <2>1. PICK a \in Account : Record(a) \/ ApplyRead(a) \/ WriteConfig(a) \/ Verify(a)
    BY <1>8 DEF Step
  <2>2. CASE Verify(a)
    BY <2>2, RoundAfterDecision DEF Verify
  <2> QED
    BY <2>1, <2>2, RoundRecord, RoundApplyRead, RoundWriteConfig
<1>9. CASE \E a \in Account, v \in Entry : Edit(a, v)
  <2>1. PICK a \in Account, v \in Entry : Edit(a, v)
    BY <1>9
  <2>2. Attentive => pc \in {"down", "start", "idle"}
    BY <2>1 DEF Edit
  <2> QED
    BY <2>1, <2>2, RoundUntouched DEF Edit, runner
<1>10. CASE HostTears \/ HostMends \/ LoseState
  BY <1>10, RoundUntouched DEF HostTears, HostMends, LoseState, runner
<1>11. CASE Elapse
  BY <1>11, RoundUntouched DEF Elapse
<1>12. CASE UNCHANGED vars
  BY <1>12, RoundUntouched DEF vars, files, runner
<1> QED
  BY <1>1, <1>2, <1>3, <1>4, <1>5, <1>6, <1>7, <1>8, <1>9, <1>10, <1>11, <1>12
     DEF Next, Tick

LEMMA InitRound == Init => RoundInv
  BY RoundOutside DEF Init, RoundInv, NoDecision

LEMMA Invariance == Spec => []Inv
<1>1. Init => Inv
  BY InitType, InitRound DEF Inv
<1>2. Inv /\ [Next]_vars => Inv'
  BY StepType, StepRound DEF Inv
<1> QED
  BY <1>1, <1>2, PTL DEF Spec

-----------------------------------------------------------------------------
(* The action properties *)

\* Only a write of the runner switches an account off for the guard, and it is
\* the write of the current decision, a disable.
LEMMA OnlyWritesSwitchOff ==
    ASSUME Inv, [Next]_vars, NEW a \in Account, SwitchesOff(a)
    PROVE  WriteConfig(a) /\ todo[a] = "disable" /\ file' = buf /\ offBy' = OffByAfter(a)
<1> USE DEF SwitchesOff
<1>1. ~(UNCHANGED offBy)
  OBVIOUS
<1>2. ~(\E c \in Account, v \in Entry : Edit(c, v))
  <2> SUFFICES ASSUME NEW c \in Account, NEW v \in Entry, Edit(c, v) PROVE FALSE
    OBVIOUS
  <2>1. offBy \in [Account -> {"nobody", "guard", "operator", "stale"}]
    BY DEF Inv, TypeOK
  <2>2. OffByEdited(c, v) \in {offBy[c], "operator", "nobody"}
    BY DEF OffByEdited, Entry
  <2>3. offBy'[a] \in {offBy[a], "operator", "nobody"}
    BY <2>1, <2>2 DEF Edit
  <2> QED
    BY <2>3
<1>3. PICK c \in Account : WriteConfig(c)
  BY <1>1, <1>2 DEF Next, Tick, Step, Start, Stop, Crash, Judge, JudgeUnread, SaveBefore,
                    Checkpoint, Record, ApplyRead, Verify, HostTears, HostMends, LoseState,
                    Elapse, vars
<1>4. file' = buf /\ offBy' = OffByAfter(c) /\ pc = "write" /\ Current(c)
  BY <1>1, <1>3 DEF WriteConfig
<1>5. a = c /\ buf[a] = "disabled"
  BY <1>4 DEF OffByAfter
<1>6. todo[a] = "disable"
  BY <1>4, <1>5 DEF Inv, RoundInv, Want
<1> QED
  BY <1>3, <1>4, <1>5, <1>6

\* A runner that is in dry run, switched off or without a baseline switches no
\* account off, whatever fails and whatever options a reconfigure brings.
THEOREM DryRun == Spec => DryRunWritesNothing
<1>1. Inv /\ [Next]_vars =>
          [\A a \in Account : SwitchesOff(a) => canJudge(opts) /\ ~opts.dryRun]_vars
  BY OnlyWritesSwitchOff DEF Inv, RoundInv
<1> QED
  BY <1>1, Invariance, PTL DEF Spec, DryRunWritesNothing

\* As long as nobody edits the file inside a tick, a write changes one entry.
THEOREM OneEntry == ASSUME Attentive = TRUE PROVE Spec => OneEntryPerWrite
<1>1. Inv /\ [Next]_vars =>
          [\A a \in Account : WriteConfig(a) => \A b \in Account \ {a} : file'[b] = file[b]]_vars
  <2> SUFFICES ASSUME Inv, NEW a \in Account, WriteConfig(a), NEW b \in Account \ {a}
               PROVE  file'[b] = file[b]
    OBVIOUS
  <2>1. pc = "write" /\ Current(a) /\ (file' = buf \/ file' = file)
    BY DEF WriteConfig
  <2> QED
    BY <2>1 DEF Inv, RoundInv
<1> QED
  BY <1>1, Invariance, PTL DEF Spec, OneEntryPerWrite

-----------------------------------------------------------------------------
(* The floor *)

LEMMA EnabledFinite ==
    ASSUME NEW view, NEW o
    PROVE  /\ IsFiniteSet(EnabledInScope(view, o))
           /\ Cardinality(EnabledInScope(view, o)) \in Nat
<1>1. IsFiniteSet(Account)
  BY NumAccountsAssumption, FS_Interval DEF Account
<1> QED
  BY <1>1, FS_Subset, FS_CardinalityType DEF EnabledInScope

\* However many accounts one round disables, minEnabled of its scope stay
\* enabled (guard.go, decide, rule 4).
THEOREM FloorOfARound ==
    ASSUME NEW S, NEW view, NEW o \in NormalOptions, Disables(S, view, o) # {}
    PROVE  Cardinality(EnabledInScope(view, o) \ Disables(S, view, o)) >= o.minEnabled
<1> DEFINE E == EnabledInScope(view, o)
           C == Candidates(S, view, o)
           D == Disables(S, view, o)
           k == Cardinality(E) - o.minEnabled
           rank == [d \in D |-> Cardinality(Before(C, d))]
<1>1. IsFiniteSet(E) /\ Cardinality(E) \in Nat
  BY EnabledFinite
<1>2. C \subseteq E /\ D \subseteq C /\ E \subseteq Account
  BY DEF EnabledInScope, Candidates, Disables
<1>3. \A d : IsFiniteSet(Before(C, d)) /\ Cardinality(Before(C, d)) \in Nat
  BY <1>1, <1>2, FS_Subset, FS_CardinalityType DEF Before
<1>4. o.minEnabled \in Nat /\ k \in Int
  BY <1>1 DEF NormalOptions, Options
<1>5. \A d \in D : Cardinality(Before(C, d)) < k
  <2> SUFFICES ASSUME NEW d \in D PROVE Cardinality(Before(C, d)) < k
    OBVIOUS
  <2>1. Cardinality(E) - Cardinality(Before(C, d)) > o.minEnabled
    BY DEF Disables
  <2> QED
    BY <2>1, <1>1, <1>3, <1>4
<1>6. rank \in [D -> 0 .. (k - 1)]
  BY <1>3, <1>4, <1>5
<1>7. ASSUME NEW d \in D, NEW e \in D, d < e PROVE rank[d] < rank[e]
  <2>1. Before(C, d) \subseteq Before(C, e)
    BY <1>2, <1>7 DEF Before, Account
  <2>2. d \in Before(C, e) /\ d \notin Before(C, d)
    BY <1>2, <1>7 DEF Before, Account
  <2>3. /\ Cardinality(Before(C, d)) <= Cardinality(Before(C, e))
        /\ Cardinality(Before(C, d)) # Cardinality(Before(C, e))
    <3> DEFINE X == Before(C, d)
               Y == Before(C, e)
    <3>1. IsFiniteSet(Y) /\ X \in SUBSET Y /\ X # Y
      BY <2>1, <2>2, <1>3
    <3> HIDE DEF X, Y
    <3>2. Cardinality(X) <= Cardinality(Y) /\ (Cardinality(Y) = Cardinality(X) => Y = X)
      BY <3>1, FS_Subset
    <3>3. Cardinality(X) <= Cardinality(Y) /\ Cardinality(X) # Cardinality(Y)
      BY <3>1, <3>2
    <3> QED
      BY <3>3 DEF X, Y
  <2>4. rank[d] = Cardinality(Before(C, d)) /\ rank[e] = Cardinality(Before(C, e))
    BY <1>7
  <2>5. Cardinality(Before(C, d)) \in Nat /\ Cardinality(Before(C, e)) \in Nat
    BY <1>3
  <2> HIDE DEF rank, C, D
  <2> QED
    BY <2>3, <2>4, <2>5
<1>8. rank \in Injection(D, 0 .. (k - 1))
  <2>1. \A d, e \in D : d # e => d < e \/ e < d
    BY <1>2 DEF Account
  <2>2. \A d, e \in D : rank[d] = rank[e] => d = e
    BY <2>1, <1>3, <1>7
  <2> QED
    BY <1>6, <2>2 DEF Injection, IsInjective
<1>9. k > 0
  BY <1>3, <1>4, <1>5
<1>10. IsFiniteSet(D) /\ Cardinality(D) <= k
  <2>1. IsFiniteSet(0 .. (k - 1)) /\ Cardinality(0 .. (k - 1)) = k
    <3> HIDE DEF k
    <3>1. 0 \in Int /\ k - 1 \in Int /\ ~(0 > k - 1) /\ k - 1 - 0 + 1 = k
      BY <1>4, <1>9
    <3>2. \A i, j \in Int : IsFiniteSet(i .. j)
                           /\ Cardinality(i .. j) = IF i > j THEN 0 ELSE j - i + 1
      BY FS_Interval
    <3> QED
      BY <3>1, <3>2
  <2> QED
    BY <1>8, <2>1, FS_Injection
<1>11. Cardinality(E \ D) = Cardinality(E) - Cardinality(D)
  <2>1. E \cap D = D
    BY <1>2
  <2> QED
    BY <2>1, <1>1, FS_Difference
<1> QED
  BY <1>1, <1>4, <1>10, <1>11, FS_CardinalityType

\* What the floor needs: no write is left pending, and the file does not change
\* between the decision and its write but by the runner's own writes.
Undisturbed == Attentive = TRUE /\ Faults \cap {"read", "write", "tear"} = {}

ToDisable == {a \in Account : todo[a] = "disable"}

\* In the middle of a round, the accounts still to be disabled are on, and
\* without them the floor is met.
FloorInv ==
    /\ torn = FALSE
    /\ pending = NoDecision
    /\ \A a \in Account : todo[a] # "none" => file[a] # "absent"
    /\ pc = "verify" => \A a \in Account : Current(a) => file[a] = Want(todo[a])
    /\ ToDisable # {} =>
           Cardinality(EnabledInScope(file, opts) \ ToDisable) >= opts.minEnabled

LEMMA NoReadFault == ASSUME Undisturbed PROVE ~Fails("read") /\ ~Fails("write")
  BY DEF Undisturbed, Fails

\* A round that takes a decision less, over accounts that are on at least as before.
LEMMA FloorShrinks ==
    ASSUME NEW E, IsFiniteSet(E), NEW D, NEW F, IsFiniteSet(F), NEW G,
           E \ D \subseteq F \ G, NEW m \in Nat, Cardinality(E \ D) >= m
    PROVE  Cardinality(F \ G) >= m
<1>1. IsFiniteSet(F \ G) /\ IsFiniteSet(E \ D)
  BY FS_Difference
<1> QED
  BY <1>1, FS_Subset, FS_CardinalityType

LEMMA FloorStep == Undisturbed /\ Inv /\ FloorInv /\ [Next]_vars => FloorInv'
<1> SUFFICES ASSUME Undisturbed, Inv, FloorInv, [Next]_vars PROVE FloorInv'
  OBVIOUS
<1> USE NoReadFault
<1>m. opts \in NormalOptions /\ opts.minEnabled \in Nat
  BY OptsNormal DEF Inv, NormalOptions, Options
<1>t. todo \in [Account -> Action] /\ pending \in [Account -> {"none", "enabled", "disabled"}]
  BY DEF Inv, TypeOK
\* A step that at most drops decisions and touches no entry.
<1>d. ASSUME UNCHANGED <<file, torn, opts, pending>>, pc' # "verify",
             \A a \in Account : todo'[a] \in {todo[a], "none"}
      PROVE  FloorInv'
  <2>1. ToDisable' \subseteq ToDisable
    BY <1>d DEF ToDisable
  <2>2. ASSUME ToDisable' # {}
        PROVE  Cardinality(EnabledInScope(file, opts) \ ToDisable') >= opts.minEnabled
    <3>1. Cardinality(EnabledInScope(file, opts) \ ToDisable) >= opts.minEnabled
      BY <2>1, <2>2 DEF FloorInv
    <3> QED
      BY <2>1, <3>1, <1>m, EnabledFinite, FloorShrinks
  <2> QED
    BY <1>d, <2>2 DEF FloorInv
\* A step outside a round.
<1>o. ASSUME UNCHANGED torn, pending' = NoDecision, todo' = NoDecision,
             pc' # "verify"
      PROVE  FloorInv'
  BY <1>o DEF FloorInv, ToDisable, NoDecision
<1>c. ASSUME NEW a \in Account, Clear(a) PROVE pending' = NoDecision
  BY <1>c, <1>t DEF FloorInv, Clear, NoDecision
<1>n. ASSUME NEW a \in Account, NextDecision(a)
      PROVE  (\A b \in Account : todo'[b] \in {todo[b], "none"}) /\ pc' # "verify"
  BY <1>n, NextDecisionDone DEF Inv
<1>1. CASE Start
  BY <1>1, <1>o DEF Start, files, budgets, Inv, RoundInv, FloorInv
<1>2. CASE Stop
  BY <1>2, <1>o DEF Stop, Gone, files
<1>3. CASE Crash
  BY <1>3, <1>o DEF Crash, Gone, files
<1>4. CASE Judge
  <2>1. PICK S : todo' = Decisions(S, View, opts)
    BY <1>4 DEF Judge
  <2>2. \A a \in Account : View[a] = file[a]
    BY DEF View, FloorInv, NoDecision
  <2>3. EnabledInScope(View, opts) = EnabledInScope(file, opts)
    BY <2>2 DEF EnabledInScope
  <2>4. ToDisable' \subseteq Disables(S, View, opts)
    BY <2>1 DEF ToDisable, Decisions, Decision
  <2>5. UNCHANGED <<file, torn, opts, pending>> /\ pc' # "verify"
    BY <1>4 DEF Judge, files
  <2>6. ASSUME ToDisable' # {}
        PROVE  Cardinality(EnabledInScope(file, opts) \ ToDisable') >= opts.minEnabled
    <3>1. Cardinality(EnabledInScope(file, opts) \ Disables(S, View, opts)) >= opts.minEnabled
      BY <2>3, <2>4, <2>6, <1>m, FloorOfARound
    <3> QED
      BY <3>1, <2>4, <1>m, EnabledFinite, FloorShrinks
  <2>7. ASSUME NEW a \in Account, todo'[a] # "none" PROVE file[a] # "absent"
    <3>1. Decision(S, View, opts, a) # "none"
      BY <2>1, <2>7 DEF Decisions
    <3>2. View[a] # "absent"
      BY <3>1 DEF Decision, Disables, Candidates
    <3> QED
      BY <2>2, <3>2
  <2> QED
    BY <2>5, <2>6, <2>7 DEF FloorInv
<1>5. CASE JudgeUnread
  BY <1>5 DEF JudgeUnread
<1>6. CASE SaveBefore
  BY <1>6, <1>d DEF SaveBefore
<1>7. CASE Checkpoint
  BY <1>7, <1>d DEF Checkpoint
<1>8. CASE \E a \in Account : Record(a)
  BY <1>8, <1>n, <1>d DEF Record
<1>9. CASE \E a \in Account : ApplyRead(a)
  <2>1. PICK a \in Account : ApplyRead(a)
    BY <1>9
  <2>2. torn = FALSE /\ file[a] # "absent"
    BY <2>1, <1>t DEF ApplyRead, Current, Due, FloorInv
  <2>3. (\A b \in Account : todo'[b] \in {todo[b], "none"}) /\ pc' # "verify"
    BY <2>1, <1>n DEF ApplyRead
  <2>4. pending' = pending
    BY <2>1, <2>2, <1>c DEF ApplyRead, FloorInv
  <2> QED
    BY <2>1, <2>3, <2>4, <1>d DEF ApplyRead, files
<1>10. CASE \E a \in Account : WriteConfig(a)
  <2>1. PICK a \in Account : WriteConfig(a)
    BY <1>10
  <2>2. /\ pc = "write" /\ Current(a) /\ file' = buf /\ torn' = FALSE /\ pc' = "verify"
        /\ UNCHANGED <<todo, pending, opts>>
    BY <2>1 DEF WriteConfig
  <2>3. buf[a] = Want(todo[a]) /\ todo[a] \in {"disable", "enable"}
        /\ \A b \in Account \ {a} : buf[b] = file[b]
    BY <2>2 DEF Inv, RoundInv, Undisturbed
  <2>4. ASSUME NEW b \in Account, todo[b] # "none" PROVE file'[b] # "absent"
    BY <2>2, <2>3, <2>4 DEF FloorInv, Want
  <2>5. ASSUME NEW b \in Account, Current(b)' PROVE file'[b] = Want(todo'[b])
    BY <2>2, <2>3, <2>5, OneCurrent DEF Current, Due
  <2>6. EnabledInScope(file, opts) \ ToDisable \subseteq EnabledInScope(file', opts) \ ToDisable
    BY <2>2, <2>3 DEF EnabledInScope, ToDisable, Want
  <2>7. ASSUME ToDisable # {}
        PROVE  Cardinality(EnabledInScope(file', opts) \ ToDisable) >= opts.minEnabled
    <3>1. Cardinality(EnabledInScope(file, opts) \ ToDisable) >= opts.minEnabled
      BY <2>7 DEF FloorInv
    <3> QED
      BY <2>6, <3>1, <1>m, EnabledFinite, FloorShrinks
  <2> QED
    BY <2>2, <2>4, <2>5, <2>7 DEF FloorInv, ToDisable
<1>11. CASE \E a \in Account : Verify(a)
  <2>1. PICK a \in Account : Verify(a)
    BY <1>11
  <2>2. torn = FALSE /\ file[a] = Want(todo[a])
    BY <2>1 DEF Verify, FloorInv
  <2>3. pending' = pending
    BY <2>1, <2>2, <1>c DEF Verify, FloorInv
  <2> QED
    BY <2>1, <2>3, <1>n, <1>d DEF Verify, files
<1>12. CASE \E a \in Account, v \in Entry : Edit(a, v)
  BY <1>12, <1>o DEF Edit, runner, Undisturbed, Inv, RoundInv, FloorInv
<1>13. CASE HostTears
  BY <1>13 DEF HostTears, Fails, Undisturbed, FloorInv
<1>14. CASE HostMends
  BY <1>14 DEF HostMends, FloorInv
<1>15. CASE LoseState
  BY <1>15, <1>o DEF LoseState, runner, Inv, RoundInv, FloorInv
<1>16. CASE Elapse \/ UNCHANGED vars
  <2>1. UNCHANGED <<file, torn, opts, pending, todo, pc>>
    BY <1>16 DEF Elapse, budgets, vars, files, runner
  <2> QED
    BY <2>1 DEF FloorInv, ToDisable, Current, Due
<1> QED
  BY <1>1, <1>2, <1>3, <1>4, <1>5, <1>6, <1>7, <1>8, <1>9, <1>10, <1>11, <1>12, <1>13,
     <1>14, <1>15, <1>16 DEF Next, Tick, Step

\* A write of the runner never leaves fewer than minEnabled accounts of its scope
\* on, as long as its reads and writes of the configuration work and nobody else
\* changes the file inside a tick: appends to the trail, saves of the state and
\* scans may fail, and the process may die and restart at any step.
THEOREM FloorKept == ASSUME Undisturbed PROVE Spec => MinEnabledKept
<1>1. Init => FloorInv
  BY DEF Init, FloorInv, ToDisable, NoDecision
<1>2. Inv /\ FloorInv /\ [Next]_vars => FloorInv'
  BY FloorStep
<1>3. Inv /\ FloorInv /\ FloorInv' /\ [Next]_vars =>
          [\A a \in Account : SwitchesOff(a) =>
              Cardinality(EnabledInScope(file', opts)) >= opts.minEnabled]_vars
  <2> SUFFICES ASSUME Inv, FloorInv, FloorInv', [Next]_vars, NEW a \in Account, SwitchesOff(a)
               PROVE  Cardinality(EnabledInScope(file', opts)) >= opts.minEnabled
    OBVIOUS
  <2>1. WriteConfig(a) /\ todo[a] = "disable" /\ file' = buf
    BY OnlyWritesSwitchOff
  <2>2. opts' = opts /\ todo' = todo
    BY <2>1, NoReadFault DEF WriteConfig
  <2>3. ToDisable' # {}
    BY <2>1, <2>2 DEF ToDisable
  <2>4. Cardinality(EnabledInScope(file', opts) \ ToDisable') >= opts.minEnabled
    BY <2>2, <2>3 DEF FloorInv
  <2>5. opts.minEnabled \in Nat
    BY OptsNormal DEF Inv, NormalOptions, Options
  <2>6. EnabledInScope(file', opts) \ ToDisable' \subseteq EnabledInScope(file', opts) \ {}
    OBVIOUS
  <2> QED
    BY <2>4, <2>5, <2>6, EnabledFinite, FS_Subset, FS_CardinalityType, FS_Difference
<1> QED
  BY <1>1, <1>2, <1>3, Invariance, PTL DEF Spec, MinEnabledKept

-----------------------------------------------------------------------------
(* What the guard switches off is known before it is off *)

\* Failures are counted, and none is forgotten.
LEMMA NoFaultYet ==
    ASSUME TypeOK, [Next]_vars, faults' = 0 PROVE faults = 0 /\ \A k : ~ Fails(k)
<1>1. faults \in Nat
  BY DEF TypeOK
<1>2. faults' = faults \/ \E k : Fails(k)
  <2>1. CASE Tick
    <3>1. CASE Judge
      BY <3>1 DEF Judge, Reconciled, Works
    <3>2. CASE JudgeUnread \/ SaveBefore \/ Checkpoint
      BY <3>2 DEF JudgeUnread, SaveBefore, Checkpoint, Works
    <3>3. ASSUME NEW a \in Account, Step(a) PROVE faults' = faults \/ \E k : Fails(k)
      BY <3>3 DEF Step, Record, ApplyRead, WriteConfig, Verify, Works
    <3> QED
      BY <2>1, <3>1, <3>2, <3>3 DEF Tick
  <2>2. CASE Start \/ Stop \/ Crash \/ HostMends \/ LoseState \/ Elapse \/ HostTears
    BY <2>2 DEF Start, Stop, Crash, HostMends, LoseState, Elapse, HostTears, budgets
  <2>3. ASSUME NEW a \in Account, NEW v \in Entry, Edit(a, v) PROVE faults' = faults
    BY <2>3 DEF Edit
  <2>4. CASE UNCHANGED vars
    BY <2>4 DEF vars, budgets
  <2> QED
    BY <2>1, <2>2, <2>3, <2>4 DEF Next
<1>3. \A k : Fails(k) => faults' = faults + 1
  BY DEF Fails
<1> QED
  BY <1>1, <1>2, <1>3

\* A decision of the round that is being carried out is the last line of its account
\* in the trail; a disable is in memory from the decision on, and in the state file
\* when the configuration is written.
KnownInv ==
    /\ \A a \in Account : todo[a] = "disable" => st[a].disabledByGuard
    /\ faults = 0 /\ pc \in {"read", "save", "write", "verify"} =>
           \A a \in Account : Current(a) => audit[a] = todo[a]
    /\ faults = 0 /\ pc = "write" =>
           \A a \in Account : Current(a) /\ todo[a] = "disable" => disk[a].disabledByGuard

\* A minute that goes by changes no ownership.
LEMMA AgeKeeps ==
    ASSUME NEW S \in [Account -> AccountState], NEW a \in Account
    PROVE  Age(S)[a].disabledByGuard = S[a].disabledByGuard
  BY DEF Age, AccountState

\* A decision to disable is in memory as soon as it is taken (guard.go, decide).
LEMMA DisableIsClaimed ==
    ASSUME NEW S, NEW view, NEW d \in [Account -> Action], NEW o, NEW a \in Account,
           d[a] = "disable"
    PROVE  decide(S, view, d, o)[a].disabledByGuard
  BY DEF decide, Decided, Claimed

LEMMA KnownInit == Init => KnownInv
  BY DEF Init, KnownInv, NoDecision

LEMMA KnownStep == Inv /\ KnownInv /\ [Next]_vars => KnownInv'
<1> SUFFICES ASSUME Inv, KnownInv, [Next]_vars PROVE KnownInv'
  OBVIOUS
<1>f. faults' = 0 => faults = 0 /\ \A k : ~ Fails(k)
  BY NoFaultYet DEF Inv
<1>t. /\ todo \in [Account -> Action] /\ audit \in [Account -> Action]
      /\ st \in [Account -> AccountState] /\ disk \in [Account -> AccountState]
  BY DEF Inv, TypeOK
\* A step outside a round, or the end of a decision.
<1>o. ASSUME pc' \in {"down", "start", "idle", "record", "checkpoint"},
             \A a \in Account : todo'[a] = "disable" => st'[a].disabledByGuard
      PROVE  KnownInv'
  BY <1>o DEF KnownInv
<1>n. ASSUME NEW a \in Account, NextDecision(a), UNCHANGED st PROVE KnownInv'
  BY <1>n, <1>o, NextDecisionDone DEF Inv, KnownInv
<1>1. CASE Start \/ Stop \/ Crash
  <2>1. todo' = NoDecision /\ pc' \in {"down", "start"}
    BY <1>1 DEF Start, Stop, Crash, Gone, Inv, RoundInv
  <2> QED
    BY <2>1, <1>o DEF NoDecision
<1>2. CASE Judge
  <2>1. PICK S : st' = decide(S, View, todo', opts)
    BY <1>2 DEF Judge
  <2>2. todo' \in [Account -> Action] /\ pc' \in {"record", "checkpoint"}
    BY <1>2, JudgeType DEF Judge, Inv, TypeOK
  <2> QED
    BY <2>1, <2>2, <1>o, DisableIsClaimed
<1>3. CASE JudgeUnread \/ Checkpoint
  BY <1>3, <1>o DEF JudgeUnread, Checkpoint, KnownInv
<1>4. ASSUME NEW a \in Account, Record(a) PROVE KnownInv'
  <2>1. CASE pc' = "read" /\ UNCHANGED todo
    <3>1. \A b \in Account : Current(b)' => b = a
      BY <1>4, <2>1, OneCurrent DEF Record, Current, Due
    <3>2. faults' = 0 => audit'[a] = todo[a]
      BY <1>4, <1>f, <1>t DEF Record
    <3> QED
      BY <1>4, <2>1, <3>1, <3>2 DEF Record, KnownInv
  <2>2. CASE NextDecision(a)
    BY <1>4, <2>2, <1>n DEF Record
  <2> QED
    BY <1>4, <2>1, <2>2 DEF Record
<1>5. ASSUME NEW a \in Account, ApplyRead(a) PROVE KnownInv'
  <2>1. CASE pc' = "save" /\ UNCHANGED todo
    BY <1>5, <2>1, <1>f DEF ApplyRead, files, KnownInv, Current, Due
  <2>2. CASE NextDecision(a)
    BY <1>5, <2>2, <1>n DEF ApplyRead
  <2> QED
    BY <1>5, <2>1, <2>2 DEF ApplyRead
<1>6. CASE SaveBefore
  <2>1. faults' = 0 => disk' = st
    BY <1>6, <1>f DEF SaveBefore
  <2> QED
    BY <1>6, <2>1, <1>f DEF SaveBefore, KnownInv, Current, Due
<1>7. ASSUME NEW a \in Account, WriteConfig(a) PROVE KnownInv'
  <2>1. CASE pc' = "verify" /\ UNCHANGED todo
    BY <1>7, <2>1, <1>f DEF WriteConfig, KnownInv, Current, Due
  <2>2. CASE NextDecision(a)
    BY <1>7, <2>2, <1>n DEF WriteConfig
  <2> QED
    BY <1>7, <2>1, <2>2 DEF WriteConfig
<1>8. ASSUME NEW a \in Account, Verify(a) PROVE KnownInv'
  BY <1>8, <1>n DEF Verify
<1>9. CASE Elapse
  BY <1>9, <1>f, <1>t, AgeKeeps DEF Elapse, KnownInv, Current, Due
<1>10. CASE LoseState
  BY <1>10, <1>o DEF LoseState, runner, KnownInv
<1>11. CASE UNCHANGED <<pc, todo, st, audit, disk>>
  BY <1>11, <1>f DEF KnownInv, Current, Due
<1>12. CASE HostTears \/ HostMends \/ UNCHANGED vars \/ \E a \in Account, v \in Entry : Edit(a, v)
  BY <1>11, <1>12 DEF HostTears, HostMends, vars, files, runner, Edit
<1> QED
  BY <1>1, <1>2, <1>3, <1>4, <1>5, <1>6, <1>7, <1>8, <1>9, <1>10, <1>12 DEF Next, Tick, Step

LEMMA KnownInvariance == Spec => []KnownInv
  BY KnownInit, KnownStep, Invariance, PTL DEF Spec

\* Whatever dies when, and whatever is edited or lost: a runner whose calls have not
\* failed has said so, in the trail and in the state file, before it switches an
\* account off.
THEOREM KnownFirst == Spec => KnownBeforeWrite
<1>1. Inv /\ KnownInv /\ [Next]_vars =>
          [\A a \in Account : SwitchesOff(a) /\ faults = 0 =>
              audit[a] = "disable" /\ disk[a].disabledByGuard]_vars
  <2> SUFFICES ASSUME Inv, KnownInv, [Next]_vars, NEW a \in Account, SwitchesOff(a), faults = 0
               PROVE  audit[a] = "disable" /\ disk[a].disabledByGuard
    OBVIOUS
  <2>1. WriteConfig(a) /\ todo[a] = "disable"
    BY OnlyWritesSwitchOff
  <2> QED
    BY <2>1 DEF WriteConfig, KnownInv
<1> QED
  BY <1>1, Invariance, KnownInvariance, PTL DEF Spec, KnownBeforeWrite

-----------------------------------------------------------------------------
(* Nothing comes between a decision and its write *)

\* No call has failed, and no edit has landed inside a tick.
Quiet == faults = 0 /\ (Attentive \/ edits = 0)

\* What the file said of an entry when the decision about it was taken.
Found(d) == IF d = "enable" THEN "disabled" ELSE "enabled"

\* The file says of an entry whether somebody switched it off, and who.
Attributed(a) ==
    CASE file[a] = "enabled"  -> offBy[a] = "nobody"
      [] file[a] = "disabled" -> offBy[a] \in {"guard", "operator"}
      [] file[a] = "absent"   -> offBy[a] \in {"guard", "nobody"}

\* The file still says what it said when the decision was taken, until the decision
\* has been written, and then it says what the decision wants.
Landed(a) ==
    IF pc = "verify" /\ Current(a)
    THEN file[a] = Want(todo[a]) /\ (todo[a] = "disable" => offBy[a] = "guard")
    ELSE file[a] = Found(todo[a])

QuietInv ==
    Quiet =>
        /\ torn = FALSE /\ pending = NoDecision
        /\ \A a \in Account : Attributed(a)
        /\ \A a \in Account : todo[a] # "none" => Landed(a)
        /\ pc \in {"save", "write"} =>
               \A a \in Account : Current(a) => \A b \in Account \ {a} : buf[b] = file[b]
        /\ \A a \in Account : offBy[a] = "guard" => audit[a] \in {"disable", "enable"}

LEMMA QuietInit == Init => QuietInv
  BY DEF Init, QuietInv, Attributed, NoDecision

\* A run that is quiet now has been quiet all along.
LEMMA QuietBefore ==
    ASSUME TypeOK, [Next]_vars, Quiet'
    PROVE  /\ Quiet /\ \A k : ~ Fails(k)
           /\ \A a \in Account, v \in Entry :
                  Edit(a, v) => Attentive
<1>1. faults = 0 /\ \A k : ~ Fails(k)
  BY NoFaultYet DEF Quiet
<1>2. edits' = edits \/ \E a \in Account, v \in Entry : Edit(a, v)
  BY DEF Next, Tick, Step, Start, Stop, Crash, Judge, JudgeUnread, SaveBefore, Checkpoint, Record,
         ApplyRead, WriteConfig, Verify, HostTears, HostMends, LoseState, Elapse, budgets, vars
<1>3. ASSUME NEW a \in Account, NEW v \in Entry, Edit(a, v) PROVE Attentive
  <2>1. edits \in Nat /\ edits' = edits + 1
    BY <1>3 DEF Edit, TypeOK
  <2> QED
    BY <2>1 DEF Quiet
<1> QED
  BY <1>1, <1>2, <1>3 DEF Quiet

\* A decision is about an entry that says what Found says.
LEMMA DecidedOnFound ==
    ASSUME NEW S, NEW view, NEW o, NEW a \in Account,
           Decisions(S, view, o)[a] # "none"
    PROVE  view[a] = Found(Decisions(S, view, o)[a])
<1>1. Decision(S, view, o, a) # "none" /\ Decisions(S, view, o)[a] = Decision(S, view, o, a)
  BY DEF Decisions
<1>2. a \in Candidates(S, view, o) => view[a] = "enabled"
  BY DEF Candidates
<1>3. a \in Disables(S, view, o) => view[a] = "enabled"
  BY DEF Disables, Candidates
<1> QED
  BY <1>1, <1>2, <1>3 DEF Decision, Found

\* A quiet round's steps that touch neither file nor trail.
LEMMA QuietUntouched ==
    ASSUME QuietInv, Quiet, UNCHANGED <<file, torn, audit, offBy, pending>>,
           pc' \notin {"save", "write", "verify"}, pc # "verify",
           \A a \in Account : todo'[a] \in {todo[a], "none"}
    PROVE  QuietInv'
<1>1. \A a \in Account : Attributed(a)'
  BY DEF QuietInv, Attributed
<1>2. \A a \in Account : todo'[a] # "none" => Landed(a)'
  BY DEF QuietInv, Landed
<1> QED
  BY <1>1, <1>2 DEF QuietInv

\* A step that leaves the runner and the file alone.
LEMMA QuietStands ==
    ASSUME QuietInv, Quiet, UNCHANGED <<file, torn, audit, offBy, pending, pc, todo, buf>>
    PROVE  QuietInv'
<1>1. \A a \in Account : Current(a)' <=> Current(a)
  BY DEF Current, Due
<1>2. \A a \in Account : Attributed(a)' /\ (todo'[a] # "none" => Landed(a)')
  BY <1>1 DEF QuietInv, Attributed, Landed
<1> QED
  BY <1>1, <1>2 DEF QuietInv

LEMMA QuietJudge ==
    ASSUME QuietInv, Quiet, Judge, TypeOK PROVE QuietInv'
<1>1. PICK S : todo' = Decisions(S, View, opts)
  BY DEF Judge
<1>2. \A a \in Account : View[a] = file[a]
  BY DEF View, QuietInv, NoDecision
<1>3. pc' \in {"record", "checkpoint"} /\ UNCHANGED <<file, torn, audit, offBy, pending>>
  BY DEF Judge, files
<1>4. ASSUME NEW a \in Account, todo'[a] # "none" PROVE Landed(a)'
  BY <1>1, <1>2, <1>3, <1>4, DecidedOnFound DEF Landed
<1>5. \A a \in Account : Attributed(a)'
  BY <1>3 DEF QuietInv, Attributed
<1> QED
  BY <1>3, <1>4, <1>5 DEF QuietInv

\* The trail gets the guard's last word on an account: a disable of one that is on,
\* an enable of one of its own.
LEMMA QuietRecord ==
    ASSUME QuietInv, Quiet, TypeOK, NEW a \in Account, Record(a), ~ Fails("audit")
    PROVE  QuietInv'
<1>1. audit' = [audit EXCEPT ![a] = todo[a]] /\ todo[a] # "none" /\ pc = "record"
  BY DEF Record, Current, Due
<1>2. offBy[a] = "guard" => todo[a] = "enable"
  BY <1>1 DEF QuietInv, Attributed, Landed, Found
<1>3. \A b \in Account : offBy'[b] = "guard" => audit'[b] \in {"disable", "enable"}
  BY <1>1, <1>2 DEF Record, QuietInv, TypeOK
<1>4. UNCHANGED <<file, torn, offBy, pending>> /\ pc' \in {"read", "record", "checkpoint"}
  BY NextDecisionDone DEF Record
<1>5. \A b \in Account : todo'[b] \in {todo[b], "none"}
  BY NextDecisionDone DEF Record
<1>6. \A b \in Account : Attributed(b)'
  BY <1>4 DEF QuietInv, Attributed
<1>7. \A b \in Account : todo'[b] # "none" => Landed(b)'
  BY <1>1, <1>4, <1>5 DEF QuietInv, Landed
<1> QED
  BY <1>3, <1>4, <1>6, <1>7 DEF QuietInv

\* The file is read again, and says what the decision found.
LEMMA QuietApplyRead ==
    ASSUME QuietInv, Quiet, TypeOK, RoundInv, NEW a \in Account, ApplyRead(a), ~ Fails("read")
    PROVE  QuietInv' /\ pc' = "save"
<1>1. /\ Current(a) /\ todo[a] \in {"disable", "enable"} /\ file[a] = Found(todo[a])
      /\ torn = FALSE /\ pc = "read"
  BY DEF ApplyRead, RoundInv, QuietInv, Current, Due, Landed
<1>2. /\ pc' = "save" /\ buf' = [file EXCEPT ![a] = Want(todo[a])]
      /\ UNCHANGED <<pending, todo, file, torn, audit, offBy>>
  BY <1>1 DEF ApplyRead, Found, Want, files
<1>3. \A b \in Account : Current(b)' <=> Current(b)
  BY <1>2 DEF Current, Due
<1>4. \A b \in Account : Current(b)' => b = a
  BY <1>1, <1>3, OneCurrent
<1>5. \A b \in Account : Attributed(b)' /\ (todo'[b] # "none" => Landed(b)')
  BY <1>1, <1>2 DEF QuietInv, Attributed, Landed
<1>6. \A b \in Account \ {a} : buf'[b] = file'[b]
  BY <1>2 DEF TypeOK
<1> QED
  BY <1>2, <1>4, <1>5, <1>6 DEF QuietInv

\* The write changes the entry it is about, and an account that is switched off is the
\* guard's by file, trail and state.
LEMMA QuietWrite ==
    ASSUME QuietInv, Quiet, TypeOK, RoundInv, KnownInv, NEW a \in Account, WriteConfig(a),
           ~ Fails("write")
    PROVE  /\ QuietInv' /\ pc' = "verify" /\ UNCHANGED <<todo, pending>>
           /\ \A b \in Account \ {a} : file'[b] = file[b] /\ offBy'[b] = offBy[b]
           /\ file[a] = Found(todo[a]) /\ file'[a] = Want(todo[a])
           /\ offBy'[a] = IF todo[a] = "disable" THEN "guard" ELSE "nobody"
           /\ Current(a) /\ todo[a] \in {"disable", "enable"}
<1>1. /\ Current(a) /\ todo[a] \in {"disable", "enable"} /\ pc = "write"
      /\ pc' = "verify" /\ file' = buf /\ torn' = FALSE /\ offBy' = OffByAfter(a)
      /\ UNCHANGED <<todo, pending, audit>>
  BY DEF WriteConfig, RoundInv
<1>2. /\ buf[a] = Want(todo[a]) /\ file[a] = Found(todo[a])
      /\ \A b \in Account \ {a} : buf[b] = file[b]
  BY <1>1 DEF RoundInv, QuietInv, Landed, Current, Due
<1>3. \A b \in Account \ {a} : file'[b] = file[b] /\ offBy'[b] = offBy[b]
  BY <1>1, <1>2 DEF OffByAfter
<1>4. /\ file'[a] = Want(todo[a])
      /\ offBy'[a] = IF todo[a] = "disable" THEN "guard" ELSE "nobody"
  BY <1>1, <1>2 DEF OffByAfter, Want, Found
<1>5. \A b \in Account : Current(b)' <=> b = a
  BY <1>1, OneCurrent DEF Current, Due
<1>6. \A b \in Account : Attributed(b)'
  BY <1>1, <1>3, <1>4 DEF QuietInv, Attributed, Want
<1>7. \A b \in Account : todo'[b] # "none" => Landed(b)'
  BY <1>1, <1>3, <1>4, <1>5 DEF QuietInv, Landed
<1>8. audit[a] = todo[a]
  BY <1>1 DEF KnownInv, Quiet
<1>9. \A b \in Account : offBy'[b] = "guard" => audit'[b] \in {"disable", "enable"}
  BY <1>1, <1>3, <1>8 DEF QuietInv
<1>10. QuietInv'
  BY <1>1, <1>6, <1>7, <1>9 DEF QuietInv
<1> QED
  BY <1>1, <1>2, <1>3, <1>4, <1>10

\* What is read back is what was written.
LEMMA QuietVerify ==
    ASSUME QuietInv, Quiet, TypeOK, NEW a \in Account, Verify(a), ~ Fails("read")
    PROVE  QuietInv' /\ UNCHANGED <<file, torn, audit, offBy, pending>> /\ NextDecision(a)
           /\ Current(a) /\ todo[a] # "none" /\ file[a] = Want(todo[a])
           /\ (todo[a] = "disable" => offBy[a] = "guard")
<1>1. /\ Current(a) /\ todo[a] # "none" /\ file[a] = Want(todo[a]) /\ torn = FALSE /\ pc = "verify"
      /\ (todo[a] = "disable" => offBy[a] = "guard")
  BY DEF Verify, QuietInv, Landed, Current, Due
<1>2. pending' = pending
  BY <1>1 DEF Verify, Clear, QuietInv, NoDecision, TypeOK
<1>3. UNCHANGED <<file, torn, audit, offBy>> /\ NextDecision(a)
  BY DEF Verify, files
<1>4. todo' = [todo EXCEPT ![a] = "none"] /\ pc' \in {"checkpoint", "record"}
  BY <1>3 DEF NextDecision
<1>5. \A b \in Account : Attributed(b)'
  BY <1>3 DEF QuietInv, Attributed
<1>6. ASSUME NEW b \in Account, todo'[b] # "none" PROVE Landed(b)'
  <2>1. b # a /\ todo'[b] = todo[b]
    BY <1>4, <1>6 DEF TypeOK
  <2>2. ~ Current(b)
    BY <1>1, <2>1, OneCurrent
  <2> QED
    BY <1>3, <1>4, <1>6, <2>1, <2>2 DEF QuietInv, Landed
<1>7. QuietInv'
  BY <1>2, <1>3, <1>4, <1>5, <1>6 DEF QuietInv
<1> QED
  BY <1>1, <1>2, <1>3, <1>7

\* An edit between ticks.
LEMMA QuietEdit ==
    ASSUME QuietInv, Quiet, TypeOK, RoundInv, Attentive, NEW a \in Account, NEW v \in Entry,
           Edit(a, v)
    PROVE  QuietInv'
<1>1. todo = NoDecision /\ pc \in {"down", "start", "idle"} /\ file[a] # v
      /\ UNCHANGED <<torn, audit, pc, todo, pending>>
      /\ file' = [file EXCEPT ![a] = v] /\ offBy' = [offBy EXCEPT ![a] = OffByEdited(a, v)]
  BY DEF Edit, RoundInv, runner
<1>2. OffByEdited(a, v) = "guard" => offBy[a] = "guard"
  BY DEF OffByEdited, Entry
<1>3. \A b \in Account : offBy'[b] = "guard" => audit'[b] \in {"disable", "enable"}
  BY <1>1, <1>2 DEF QuietInv, TypeOK
<1>4. ASSUME NEW b \in Account PROVE Attributed(b)'
  <2>1. CASE b = a
    BY <1>1, <2>1 DEF QuietInv, Attributed, OffByEdited, Entry, TypeOK
  <2>2. CASE b # a
    BY <1>1, <2>2 DEF QuietInv, Attributed, TypeOK
  <2> QED
    BY <2>1, <2>2
<1>5. \A b \in Account : todo'[b] = "none"
  BY <1>1 DEF NoDecision
<1> QED
  BY <1>1, <1>3, <1>4, <1>5 DEF QuietInv

LEMMA QuietStep == Inv /\ KnownInv /\ QuietInv /\ [Next]_vars => QuietInv'
<1> SUFFICES ASSUME TypeOK, RoundInv, KnownInv, QuietInv, [Next]_vars, Quiet' PROVE QuietInv'
  BY DEF Inv, QuietInv
<1>q. Quiet /\ (\A k : ~ Fails(k)) /\ (\A a \in Account, v \in Entry : Edit(a, v) => Attentive)
  BY QuietBefore
<1>1. CASE Start
  BY <1>1, <1>q, QuietUntouched DEF Start, files
<1>2. CASE Stop \/ Crash
  <2>1. /\ todo' = NoDecision /\ pc' = "down" /\ pending' = NoDecision
        /\ UNCHANGED <<file, torn, audit, offBy>>
    BY <1>2 DEF Stop, Crash, Gone, files
  <2>2. \A a \in Account : Attributed(a)' /\ todo'[a] = "none"
    BY <1>q, <2>1 DEF QuietInv, Attributed, NoDecision
  <2> QED
    BY <1>q, <2>1, <2>2 DEF QuietInv
<1>3. CASE Judge
  BY <1>3, <1>q, QuietJudge
<1>4. CASE JudgeUnread \/ HostTears
  BY <1>4, <1>q DEF JudgeUnread, HostTears
<1>5. CASE SaveBefore
  <2>1. /\ pc = "save" /\ pc' = "write"
        /\ UNCHANGED <<file, torn, audit, offBy, pending, todo, buf>>
    BY <1>5 DEF SaveBefore
  <2>2. \A a \in Account : Current(a)' <=> Current(a)
    BY <2>1 DEF Current, Due
  <2>3. \A a \in Account : Attributed(a)' /\ (todo'[a] # "none" => Landed(a)')
    BY <1>q, <2>1 DEF QuietInv, Attributed, Landed
  <2> QED
    BY <1>q, <2>1, <2>2, <2>3 DEF QuietInv
<1>6. CASE Checkpoint
  BY <1>6, <1>q, QuietUntouched DEF Checkpoint
<1>7. CASE \E a \in Account : Step(a)
  BY <1>7, <1>q, QuietRecord, QuietApplyRead, QuietWrite, QuietVerify DEF Step
<1>8. CASE \E a \in Account, v \in Entry : Edit(a, v)
  BY <1>8, <1>q, QuietEdit
<1>9. CASE HostMends
  BY <1>9, <1>q DEF HostMends, QuietInv
<1>10. CASE LoseState \/ Elapse \/ UNCHANGED vars
  BY <1>10, <1>q, QuietStands DEF LoseState, Elapse, vars, files, runner
<1> QED
  BY <1>1, <1>2, <1>3, <1>4, <1>5, <1>6, <1>7, <1>8, <1>9, <1>10 DEF Next, Tick

LEMMA QuietInvariance == Spec => []QuietInv
  BY QuietInit, QuietStep, Invariance, KnownInvariance, PTL DEF Spec

-----------------------------------------------------------------------------
(* The runner claims what the trail says is its own *)

\* As long as nobody edits the file and every call works.
ClaimInv ==
    faults = 0 /\ edits = 0 =>
        /\ pc \in {"down", "start"} => ~ adopted
        /\ \A a \in Account : file[a] # "absent"
        /\ adopted => \A a \in Account : offBy[a] = "guard" /\ audit[a] = "disable" =>
               st[a].disabledByGuard \/ todo[a] = "enable"

LEMMA ClaimInit == Init => ClaimInv
  BY DEF Init, ClaimInv

\* A run that nobody has edited is one without edits so far.
LEMMA NoEditYet ==
    ASSUME TypeOK, [Next]_vars, edits' = 0
    PROVE  edits = 0 /\ \A a \in Account, v \in Entry : ~ Edit(a, v)
<1>1. edits' = edits \/ \E a \in Account, v \in Entry : Edit(a, v)
  BY DEF Next, Tick, Step, Start, Stop, Crash, Judge, JudgeUnread, SaveBefore, Checkpoint, Record,
         ApplyRead, WriteConfig, Verify, HostTears, HostMends, LoseState, Elapse, budgets, vars
<1>2. \A a \in Account, v \in Entry : Edit(a, v) => edits' = edits + 1
  BY DEF Edit
<1>3. edits \in Nat
  BY DEF TypeOK
<1> QED
  BY <1>1, <1>2, <1>3

\* Ownership after a decision about an account that is switched off and owned: it is
\* kept, unless the decision is to put the account back (guard.go, decide).
LEMMA OwnedIsKept ==
    ASSUME NEW S \in [Account -> AccountState], NEW view, NEW b, NEW o, NEW a \in Account,
           view[a] = "disabled", S[a].disabledByGuard
    PROVE  LET c == count(S, view, b, o)
               d == Decisions(c, view, o)
           IN  d[a] = "enable" \/ decide(c, view, d, o)[a].disabledByGuard
<1> DEFINE c == count(S, view, b, o)
           d == Decisions(c, view, o)
<1>1. c[a].disabledByGuard
  BY DEF count, CountAccount
<1>2. d[a] = Decision(c, view, o, a)
  BY DEF Decisions
<1> HIDE DEF c
<1>3. d[a] \in {"enable", "none"}
  <2>1. a \notin Candidates(c, view, o) /\ a \notin Disables(c, view, o)
    BY DEF Candidates, Disables
  <2> QED
    BY <1>2, <2>1 DEF Decision
<1> HIDE DEF d
<1>4. d[a] = "none" => decide(c, view, d, o)[a] = c[a]
  BY <1>1 DEF decide, Decided
<1> QED
  BY <1>1, <1>3, <1>4 DEF c, d

\* The reconciliation claims what is off by the trail.
LEMMA AdoptedIsOwned ==
    ASSUME NEW S \in [Account -> AccountState], NEW view, NEW trail, NEW o, NEW a \in Account,
           view[a] = "disabled", trail[a] = "disable"
    PROVE  AdoptOwnership(S, view, trail, o)[a].disabledByGuard
  BY DEF AdoptOwnership, Adoptable, AdoptAccount, Claimed, AccountState

\* A tick's first half: what Judge settles on before it counts.
LEMMA JudgeBase ==
    ASSUME TypeOK, Judge
    PROVE  \E base \in [Account -> AccountState], b \in Batches \cup {NoSamples} :
               /\ Reconciled(base)
               /\ todo' = Decisions(count(base, View, b, opts), View, opts)
               /\ st' = decide(count(base, View, b, opts), View, todo', opts)
<1>1. PICK base \in {st, AdoptOwnership(st, View, audit, opts)}, b \in Batches \cup {NoSamples} :
          /\ Reconciled(base)
          /\ todo' = Decisions(count(base, View, b, opts), View, opts)
          /\ st' = decide(count(base, View, b, opts), View, todo', opts)
  BY DEF Judge
<1>2. base \in [Account -> AccountState]
  BY <1>1, OptsNormal, AdoptType DEF TypeOK
<1> QED
  BY <1>1, <1>2

LEMMA ClaimJudge ==
    ASSUME TypeOK, RoundInv, QuietInv, ClaimInv, Judge, faults = 0, edits = 0, ~ Fails("scan")
    PROVE  \A a \in Account : offBy[a] = "guard" /\ audit[a] = "disable" =>
               st'[a].disabledByGuard \/ todo'[a] = "enable"
<1>1. PICK base \in [Account -> AccountState], b \in Batches \cup {NoSamples} :
          /\ Reconciled(base)
          /\ todo' = Decisions(count(base, View, b, opts), View, opts)
          /\ st' = decide(count(base, View, b, opts), View, todo', opts)
  BY JudgeBase
<1> SUFFICES ASSUME NEW a \in Account, offBy[a] = "guard", audit[a] = "disable"
             PROVE  st'[a].disabledByGuard \/ todo'[a] = "enable"
  OBVIOUS
<1>2. file[a] = "disabled"
  <2>1. Attributed(a) /\ file[a] # "absent"
    BY DEF Quiet, QuietInv, ClaimInv
  <2>2. file[a] \in Entry
    BY DEF TypeOK
  <2> QED
    BY <2>1, <2>2 DEF Attributed, Entry
<1>3. View[a] = "disabled"
  BY <1>2 DEF View, Quiet, QuietInv, NoDecision
<1>4. base[a].disabledByGuard
  <2>1. CASE adopted
    <3>1. todo[a] = "none" /\ base = st
      BY <1>1, <2>1 DEF Judge, RoundInv, NoDecision, Reconciled
    <3> QED
      BY <2>1, <3>1 DEF ClaimInv
  <2>2. CASE ~ adopted
    <3>1. base = AdoptOwnership(st, View, audit, opts) /\ st \in [Account -> AccountState]
      BY <1>1, <2>2 DEF Reconciled, TypeOK
    <3> QED
      BY <1>3, <3>1, AdoptedIsOwned
  <2> QED
    BY <2>1, <2>2
<1> QED
  BY <1>1, <1>3, <1>4, OwnedIsKept

LEMMA ClaimStep == Inv /\ KnownInv /\ QuietInv /\ ClaimInv /\ [Next]_vars => ClaimInv'
<1> SUFFICES ASSUME Inv, TypeOK, RoundInv, KnownInv, QuietInv, ClaimInv, [Next]_vars,
                    faults' = 0, edits' = 0
             PROVE  ClaimInv'
  BY DEF Inv, ClaimInv
<1>q. /\ Quiet /\ faults = 0 /\ edits = 0 /\ \A k : ~ Fails(k)
      /\ \A a \in Account, v \in Entry : ~ Edit(a, v)
  BY NoFaultYet, NoEditYet DEF Quiet
<1>t. /\ todo \in [Account -> Action] /\ audit \in [Account -> Action]
      /\ st \in [Account -> AccountState]
  BY DEF TypeOK
\* A step in the middle of a tick that leaves the file, the trail and the memory alone,
\* and ends no decision but one the trail has.
<1>u. ASSUME UNCHANGED <<file, audit, offBy, st, adopted>>, pc' \notin {"down", "start"},
             \A a \in Account : todo'[a] = todo[a] \/ todo[a] # "enable" \/ audit[a] = "enable"
      PROVE  ClaimInv'
  BY <1>q, <1>u DEF ClaimInv
<1>n. ASSUME NEW a \in Account, NextDecision(a), todo[a] # "enable" \/ audit[a] = "enable"
      PROVE  /\ pc' \notin {"down", "start"}
             /\ \A b \in Account : todo'[b] = todo[b] \/ todo[b] # "enable" \/ audit[b] = "enable"
  BY <1>n, <1>t DEF NextDecision
<1>1. CASE Start
  BY <1>1, <1>q DEF Start, files, ClaimInv
<1>2. CASE Stop \/ Crash
  BY <1>2, <1>q DEF Stop, Crash, Gone, files, ClaimInv
<1>3. CASE Judge
  <2>1. UNCHANGED <<file, audit, offBy>> /\ pc' \in {"record", "checkpoint"}
    BY <1>3 DEF Judge, files
  <2> QED
    BY <1>3, <1>q, <2>1, ClaimJudge DEF ClaimInv
<1>4. CASE JudgeUnread \/ HostTears
  BY <1>4, <1>q DEF JudgeUnread, HostTears
<1>5. CASE SaveBefore \/ Checkpoint
  BY <1>5, <1>u DEF SaveBefore, Checkpoint
<1>6. ASSUME NEW a \in Account, Record(a) PROVE ClaimInv'
  <2>1. audit' = [audit EXCEPT ![a] = todo[a]] /\ pc = "record" /\ todo[a] # "none"
    BY <1>6, <1>q DEF Record, Current, Due
  <2>2. /\ UNCHANGED <<file, offBy, st, adopted>> /\ pc' \notin {"down", "start"}
        /\ \A b \in Account \ {a} : todo'[b] = todo[b]
    BY <1>6, <1>t DEF Record, NextDecision
  <2>3. offBy[a] = "guard" => todo[a] = "enable"
    BY <1>q, <2>1 DEF QuietInv, Attributed, Landed, Found
  <2>4. \A b \in Account : offBy[b] = "guard" /\ audit'[b] = "disable" => b # a /\ audit[b] = "disable"
    BY <2>1, <2>3, <1>t
  <2> QED
    BY <1>q, <2>2, <2>4 DEF ClaimInv
<1>7. ASSUME NEW a \in Account, ApplyRead(a) PROVE ClaimInv'
  <2>1. pc' = "save" /\ UNCHANGED <<file, audit, offBy, st, adopted>>
    BY <1>7, <1>q, QuietApplyRead DEF ApplyRead, files
  <2>2. todo' = todo
    BY <1>7, <2>1, NextDecisionDone DEF ApplyRead
  <2> QED
    BY <2>1, <2>2, <1>u
<1>8. ASSUME NEW a \in Account, WriteConfig(a) PROVE ClaimInv'
  <2>1. /\ pc' = "verify" /\ UNCHANGED <<todo, audit, st, adopted>>
        /\ \A b \in Account \ {a} : file'[b] = file[b] /\ offBy'[b] = offBy[b]
        /\ file'[a] = Want(todo[a])
        /\ offBy'[a] = IF todo[a] = "disable" THEN "guard" ELSE "nobody"
    BY <1>8, <1>q, QuietWrite DEF WriteConfig
  <2>2. todo[a] = "disable" => st[a].disabledByGuard
    BY DEF KnownInv
  <2> QED
    BY <1>q, <2>1, <2>2 DEF ClaimInv, Want
<1>9. ASSUME NEW a \in Account, Verify(a) PROVE ClaimInv'
  <2>1. audit[a] = todo[a]
    BY <1>9, <1>q DEF Verify, KnownInv
  <2> QED
    BY <1>9, <2>1, <1>n, <1>u DEF Verify, files
<1>10. CASE Elapse
  BY <1>10, <1>q, <1>t, AgeKeeps DEF Elapse, ClaimInv
<1>11. CASE HostMends \/ LoseState \/ UNCHANGED vars
  BY <1>11, <1>q DEF HostMends, LoseState, vars, files, runner, ClaimInv
<1> QED
  BY <1>1, <1>2, <1>3, <1>4, <1>5, <1>6, <1>7, <1>8, <1>9, <1>10, <1>11, <1>q
     DEF Next, Tick, Step

LEMMA ClaimInvariance == Spec => []ClaimInv
  BY ClaimInit, ClaimStep, Invariance, KnownInvariance, QuietInvariance, PTL DEF Spec

\* Whenever the process dies and whether or not the state file survives: while every
\* call works and nobody edits the file, what the guard switched off is claimed by the
\* next runner, or the trail says that it was put back; edits between ticks do not
\* blur the trail.
THEOREM TrailMatched == Spec => []ClaimsMatchTrail
<1>1. QuietInv /\ ClaimInv => ClaimsMatchTrail
  BY DEF QuietInv, Quiet, ClaimInv, ClaimsMatchTrail
<1> QED
  BY <1>1, QuietInvariance, ClaimInvariance, PTL

-----------------------------------------------------------------------------
(* Nobody else's account is adopted *)

\* Whatever fails, dies or is lost: as long as nobody edits the file, an account the
\* operator left switched off is off, unknown to the guard and not in the trail.
OperatorInv ==
    /\ ~ adopted => pc \in {"down", "start", "idle"} /\ pending = NoDecision
    /\ edits = 0 =>
        /\ \A a \in Account :
               /\ file[a] = IF offBy[a] = "nobody" THEN "enabled" ELSE "disabled"
               /\ offBy[a] \in {"nobody", "guard", "operator"}
        /\ \A a \in Account : offBy[a] = "operator" =>
               /\ audit[a] = "none" /\ todo[a] = "none" /\ pending[a] = "none"
               /\ ~ st[a].disabledByGuard /\ ~ disk[a].disabledByGuard
        /\ pc \in {"save", "write"} =>
               \A a \in Account : Current(a) => \A b \in Account \ {a} : buf[b] = file[b]

LEMMA OperatorInit == Init => OperatorInv
  BY DEF Init, OperatorInv, NoDecision, NewState, FreshAccount

\* An account that is off and not owned is not decided about, and not owned after.
LEMMA NotOursIsLeft ==
    ASSUME NEW S \in [Account -> AccountState], NEW view, NEW b, NEW o, NEW a \in Account,
           view[a] # "enabled", ~ S[a].disabledByGuard
    PROVE  LET c == count(S, view, b, o)
               d == Decisions(c, view, o)
           IN  d[a] = "none" /\ ~ decide(c, view, d, o)[a].disabledByGuard
<1> DEFINE c == count(S, view, b, o)
           d == Decisions(c, view, o)
<1>1. ~ c[a].disabledByGuard
  BY DEF count, CountAccount
<1>2. d[a] = Decision(c, view, o, a)
  BY DEF Decisions
<1> HIDE DEF c
<1>3. a \notin Candidates(c, view, o) /\ a \notin Disables(c, view, o)
  BY DEF Candidates, Disables
<1>4. d[a] = "none"
  BY <1>1, <1>2, <1>3 DEF Decision
<1> HIDE DEF d
<1>5. decide(c, view, d, o)[a] \in {c[a], Forgotten(c[a])}
  BY <1>4 DEF decide, Decided
<1>6. ~ Forgotten(c[a]).disabledByGuard
  BY <1>1 DEF Forgotten
<1> QED
  BY <1>1, <1>4, <1>5, <1>6 DEF c, d

LEMMA OperatorJudge ==
    ASSUME TypeOK, OperatorInv, Judge, edits = 0, NEW a \in Account, offBy[a] = "operator"
    PROVE  todo'[a] = "none" /\ ~ st'[a].disabledByGuard
<1>1. PICK base \in [Account -> AccountState], b \in Batches \cup {NoSamples} :
          /\ Reconciled(base)
          /\ todo' = Decisions(count(base, View, b, opts), View, opts)
          /\ st' = decide(count(base, View, b, opts), View, todo', opts)
  BY JudgeBase
<1>2. View[a] # "enabled" /\ audit[a] # "disable" /\ ~ st[a].disabledByGuard
  BY DEF OperatorInv, View
<1>3. ~ base[a].disabledByGuard
  BY <1>1, <1>2 DEF Reconciled, AdoptOwnership, Adoptable
<1> QED
  BY <1>1, <1>2, <1>3, NotOursIsLeft

LEMMA OperatorStep == Inv /\ OperatorInv /\ [Next]_vars => OperatorInv'
<1> SUFFICES ASSUME Inv, TypeOK, RoundInv, OperatorInv, [Next]_vars PROVE OperatorInv'
  BY DEF Inv
<1>e. edits' = 0 => edits = 0 /\ \A a \in Account, v \in Entry : ~ Edit(a, v)
  BY NoEditYet
<1>t. /\ todo \in [Account -> Action] /\ audit \in [Account -> Action]
      /\ st \in [Account -> AccountState] /\ disk \in [Account -> AccountState]
      /\ pending \in [Account -> {"none", "enabled", "disabled"}]
  BY DEF TypeOK
<1>a. ASSUME NEW a \in Account, Current(a), edits = 0 PROVE offBy[a] # "operator"
  BY <1>a DEF Current, Due, OperatorInv
\* A step of the tick that leaves the file and the memory alone.
<1>u. ASSUME UNCHANGED <<file, offBy, st, adopted>>, ~ adopted => UNCHANGED <<pc, pending>>,
             pc' \notin {"save", "write"}, edits' = edits,
             disk' \in {disk, st},
             \A a \in Account : edits = 0 /\ offBy[a] = "operator" =>
                 /\ audit'[a] = audit[a] /\ pending'[a] = pending[a]
                 /\ todo'[a] \in {todo[a], "none"}
      PROVE  OperatorInv'
  BY <1>u DEF OperatorInv
<1>k. ASSUME UNCHANGED adopted, pc \notin {"down", "start", "idle"} PROVE adopted /\ adopted'
  BY <1>k DEF OperatorInv
<1>1. CASE Start
  BY <1>1, <1>e DEF Start, files, budgets, OperatorInv
<1>2. CASE Stop \/ Crash
  <2>1. /\ ~ adopted' /\ pending' = NoDecision /\ todo' = NoDecision /\ pc' = "down"
        /\ st' = NewState /\ UNCHANGED <<file, offBy, audit, disk, edits>>
    BY <1>2 DEF Stop, Crash, Gone, files
  <2> QED
    BY <1>e, <2>1 DEF OperatorInv, NoDecision, NewState, FreshAccount
<1>3. CASE Judge
  <2>1. /\ UNCHANGED <<file, offBy, audit, pending, disk, edits>>
        /\ adopted' /\ pc' \in {"record", "checkpoint"}
    BY <1>3 DEF Judge, files
  <2> QED
    BY <1>3, <2>1, <1>e, OperatorJudge DEF OperatorInv
<1>4. CASE JudgeUnread
  BY <1>4 DEF JudgeUnread, files, OperatorInv
<1>5. CASE SaveBefore
  <2>1. \A a \in Account : Current(a)' <=> Current(a)
    BY <1>5 DEF SaveBefore, Current, Due
  <2>2. adopted /\ adopted'
    BY <1>5, <1>k DEF SaveBefore
  <2> QED
    BY <1>5, <2>1, <2>2, <1>e DEF SaveBefore, OperatorInv
<1>6. CASE Checkpoint
  BY <1>6, <1>u, <1>k DEF Checkpoint
<1>7. ASSUME NEW a \in Account, Record(a) PROVE OperatorInv'
  <2>1. /\ \A b \in Account \ {a} : audit'[b] = audit[b]
        /\ \A b \in Account : todo'[b] \in {todo[b], "none"}
        /\ pc' \notin {"save", "write"}
    BY <1>7, <1>t DEF Record, NextDecision
  <2>2. edits = 0 => offBy[a] # "operator"
    BY <1>7, <1>a DEF Record
  <2> QED
    BY <1>7, <2>1, <2>2, <1>u, <1>k DEF Record
<1>8. ASSUME NEW a \in Account, ApplyRead(a) PROVE OperatorInv'
  <2>1. \A b \in Account \ {a} : pending'[b] = pending[b]
    BY <1>8, <1>t DEF ApplyRead, Fail, Clear
  <2>2. edits = 0 => offBy[a] # "operator"
    BY <1>8, <1>a DEF ApplyRead
  <2>3. CASE NextDecision(a)
    <3>1. (\A b \in Account : todo'[b] \in {todo[b], "none"}) /\ pc' \notin {"save", "write"}
      BY <2>3, <1>t DEF NextDecision
    <3> QED
      BY <1>8, <2>1, <2>2, <3>1, <1>u, <1>k DEF ApplyRead, files
  <2>4. CASE buf' = [file EXCEPT ![a] = Want(todo[a])] /\ pc' = "save" /\ UNCHANGED <<pending, todo>>
    <3>1. /\ UNCHANGED <<file, offBy, audit, st, disk, adopted, edits>>
          /\ Current(a)
      BY <1>8 DEF ApplyRead, files
    <3>2. \A b \in Account : Current(b)' => b = a
      BY <2>4, <3>1, OneCurrent DEF Current, Due
    <3>3. \A b \in Account \ {a} : buf'[b] = file[b]
      BY <2>4 DEF TypeOK
    <3>4. adopted
      BY <1>8, <3>1, <1>k DEF ApplyRead
    <3> QED
      BY <2>4, <3>1, <3>2, <3>3, <3>4 DEF OperatorInv
  <2> QED
    BY <1>8, <2>3, <2>4 DEF ApplyRead
<1>9. ASSUME NEW a \in Account, WriteConfig(a) PROVE OperatorInv'
  <2>1. edits = 0 => offBy[a] # "operator"
    BY <1>9, <1>a DEF WriteConfig
  <2>2. CASE NextDecision(a) /\ Fail(a) /\ UNCHANGED <<file, torn, offBy>>
    <3>1. (\A b \in Account : todo'[b] \in {todo[b], "none"}) /\ pc' \notin {"save", "write"}
      BY <2>2, <1>t DEF NextDecision
    <3>2. \A b \in Account \ {a} : pending'[b] = pending[b]
      BY <2>2, <1>t DEF Fail
    <3> QED
      BY <1>9, <2>1, <2>2, <3>1, <3>2, <1>u, <1>k DEF WriteConfig
  <2>3. CASE file' = buf /\ offBy' = OffByAfter(a) /\ pc' = "verify" /\ UNCHANGED <<pending, todo>>
    <3>1. /\ UNCHANGED <<audit, st, disk, adopted, edits>> /\ pc = "write" /\ Current(a)
      BY <1>9 DEF WriteConfig
    <3>2. buf[a] = Want(todo[a])
      BY <3>1 DEF RoundInv
    <3>3. edits = 0 => \A b \in Account \ {a} : file'[b] = file[b] /\ offBy'[b] = offBy[b]
      BY <2>3, <3>1 DEF OperatorInv, OffByAfter
    <3>4. edits = 0 =>
             /\ file'[a] = IF offBy'[a] = "nobody" THEN "enabled" ELSE "disabled"
             /\ offBy'[a] \in {"nobody", "guard"}
      BY <2>1, <2>3, <3>2 DEF OperatorInv, OffByAfter, Want
    <3>5. adopted
      BY <3>1, <1>k
    <3> QED
      BY <2>3, <3>1, <3>3, <3>4, <3>5 DEF OperatorInv
  <2> QED
    BY <1>9, <2>2, <2>3 DEF WriteConfig
<1>10. ASSUME NEW a \in Account, Verify(a) PROVE OperatorInv'
  <2>1. (\A b \in Account : todo'[b] \in {todo[b], "none"}) /\ pc' \notin {"save", "write"}
    BY <1>10, <1>t DEF Verify, NextDecision
  <2>2. \A b \in Account \ {a} : pending'[b] = pending[b]
    BY <1>10, <1>t DEF Verify, Fail, Clear
  <2>3. edits = 0 => offBy[a] # "operator"
    BY <1>10, <1>a DEF Verify
  <2> QED
    BY <1>10, <2>1, <2>2, <2>3, <1>u, <1>k DEF Verify, files
<1>11. ASSUME NEW a \in Account, NEW v \in Entry, Edit(a, v) PROVE OperatorInv'
  <2>1. edits' # 0
    BY <1>11, <1>e
  <2> QED
    BY <1>11, <2>1 DEF Edit, runner, OperatorInv
<1>12. CASE Elapse
  <2>1. \A a \in Account : /\ st'[a].disabledByGuard = st[a].disabledByGuard
                           /\ disk'[a].disabledByGuard = disk[a].disabledByGuard
    BY <1>12, <1>t, AgeKeeps DEF Elapse
  <2>2. UNCHANGED <<file, offBy, audit, todo, pending, adopted, pc, buf, edits>>
    BY <1>12 DEF Elapse, budgets
  <2> QED
    BY <2>1, <2>2 DEF OperatorInv, Current, Due
<1>13. CASE LoseState
  <2>1. /\ disk' = NewState /\ pc = "down"
        /\ UNCHANGED <<file, offBy, audit, todo, pending, adopted, pc, buf, edits, st>>
    BY <1>13 DEF LoseState, runner
  <2> QED
    BY <2>1 DEF OperatorInv, NewState, FreshAccount
<1>14. CASE HostTears \/ HostMends \/ UNCHANGED vars
  <2>1. UNCHANGED <<file, offBy, audit, todo, pending, adopted, pc, buf, edits, st, disk>>
    BY <1>14 DEF HostTears, HostMends, vars, files, runner, budgets
  <2> QED
    BY <2>1 DEF OperatorInv, Current, Due
<1> QED
  BY <1>1, <1>2, <1>3, <1>4, <1>5, <1>6, <1>7, <1>8, <1>9, <1>10, <1>11, <1>12, <1>13, <1>14
     DEF Next, Tick, Step

LEMMA OperatorInvariance == Spec => []OperatorInv
  BY OperatorInit, OperatorStep, Invariance, PTL DEF Spec

\* Nothing has gone wrong: no call failed, no process died, no state file was lost, and
\* no edit landed inside a tick.
Sound == Attentive /\ faults + crashes + losses = 0

\* What the guard owns, by its memory or, between two runners, by its state file.
Owned(a) == IF pc = "down" THEN disk[a].disabledByGuard ELSE st[a].disabledByGuard

\* Memory, state file, trail and configuration agree on who owns what: an account the
\* guard owns is one it switched off, one the operator has switched on since the last
\* tick, or one it is about to switch off; and an account the trail says is the guard's
\* is owned, or about to be put back.
OwnInv ==
    Sound =>
        /\ pc \in {"record", "read", "save", "write", "verify"} => forced
        /\ pc \in {"start", "idle"} \/ (pc = "checkpoint" /\ ~ forced) =>
               \A a \in Account : disk[a].disabledByGuard = st[a].disabledByGuard
        /\ \A a \in Account : Owned(a) =>
               \/ offBy[a] = "guard"
               \/ file[a] = "enabled" /\ a \in touched /\ pc \in {"down", "start", "idle"}
               \/ todo[a] = "disable"
        /\ \A a \in Account : todo[a] = "enable" =>
               ~ Owned(a) /\ (offBy[a] = "guard" \/ (pc = "verify" /\ Current(a)))
        /\ \A a \in Account : audit[a] = "disable" =>
               Owned(a) \/ todo[a] \in {"enable", "enable_external"}

LEMMA OwnInit == Init => OwnInv
  BY DEF Init, OwnInv, Owned, NoDecision, NewState, FreshAccount

\* A run that is sound now has been so all along.
LEMMA SoundBefore ==
    ASSUME TypeOK, [Next]_vars, Sound'
    PROVE  /\ Sound /\ Quiet /\ (\A k : ~ Fails(k)) /\ ~ Crash /\ ~ LoseState
           /\ Attentive
<1>t. {faults, crashes, losses, edits} \subseteq Nat
  BY DEF TypeOK
<1>1. crashes' = crashes \/ (Crash /\ crashes' = crashes + 1)
  BY DEF Next, Tick, Step, Start, Stop, Crash, Judge, JudgeUnread, SaveBefore, Checkpoint, Record,
         ApplyRead, WriteConfig, Verify, HostTears, HostMends, LoseState, Elapse, Edit, budgets, vars
<1>2. losses' = losses \/ (LoseState /\ losses' = losses + 1)
  BY DEF Next, Tick, Step, Start, Stop, Crash, Judge, JudgeUnread, SaveBefore, Checkpoint, Record,
         ApplyRead, WriteConfig, Verify, HostTears, HostMends, LoseState, Elapse, Edit, budgets, vars
<1>3. TypeOK'
  BY StepType
<1>4. faults' = 0 /\ crashes' = 0 /\ losses' = 0 /\ Attentive
  BY <1>3 DEF Sound, TypeOK
<1>5. faults = 0 /\ \A k : ~ Fails(k)
  BY <1>4, NoFaultYet
<1>6. crashes = 0 /\ losses = 0
  BY <1>1, <1>2, <1>4, <1>t
<1>7. ~ Crash /\ ~ LoseState
  BY <1>4, <1>t DEF Crash, LoseState
<1> QED
  BY <1>4, <1>5, <1>6, <1>7 DEF Sound, Quiet

\* Memory after a decision, by the decision (guard.go, decide).
LEMMA OwnershipDecided ==
    ASSUME NEW S \in [Account -> AccountState], NEW view, NEW b, NEW o, NEW a \in Account
    PROVE  LET c == count(S, view, b, o)
               d == Decisions(c, view, o)
               owned == decide(c, view, d, o)[a].disabledByGuard
           IN  /\ d[a] = "none" => (owned <=> S[a].disabledByGuard)
               /\ d[a] \in {"enable", "enable_external"} => ~ owned /\ S[a].disabledByGuard
               /\ d[a] = "disable" => owned
               /\ d[a] = "disable_dry_run" => ~ owned /\ ~ S[a].disabledByGuard
               /\ view[a] = "enabled" /\ S[a].disabledByGuard => d[a] = "enable_external"
               /\ d[a] = "enable" => view[a] = "disabled"
<1> DEFINE c == count(S, view, b, o)
           d == Decisions(c, view, o)
           m == decide(c, view, d, o)
<1>1. /\ c[a].disabledByGuard = S[a].disabledByGuard
      /\ [c[a] EXCEPT !.dryRunReported = TRUE].disabledByGuard = c[a].disabledByGuard
  BY DEF count, CountAccount, AccountState
<1>2. d[a] = Decision(c, view, o, a)
  BY DEF Decisions
<1>3. m[a] = Decided(c[a], view[a], d[a], o)
  BY DEF decide
<1>4. d[a] \in Action
  BY DecisionsType
<1> HIDE DEF c, m
<1>5. /\ a \in Candidates(c, view, o) => ~ c[a].disabledByGuard
      /\ a \in Disables(c, view, o) => a \in Candidates(c, view, o)
  BY DEF Candidates, Disables
<1>6. /\ d[a] = "disable_dry_run" => ~ c[a].disabledByGuard
      /\ d[a] \in {"enable", "enable_external"} => c[a].disabledByGuard
      /\ d[a] = "enable" => view[a] = "disabled"
      /\ view[a] = "enabled" /\ c[a].disabledByGuard => d[a] = "enable_external"
  BY <1>2, <1>5 DEF Decision
<1> HIDE DEF d
<1>7. CASE d[a] = "none"
  <2>1. m[a] \in {c[a], Forgotten(c[a])}
    BY <1>3, <1>7 DEF Decided
  <2>2. m[a].disabledByGuard <=> c[a].disabledByGuard
    BY <2>1 DEF Forgotten
  <2> QED
    BY <1>1, <1>6, <1>7, <2>2 DEF c, d, m
<1>8. CASE d[a] \in {"enable", "enable_external"}
  <2>1. ~ m[a].disabledByGuard
    BY <1>3, <1>8 DEF Decided, Given, FreshAccount
  <2> QED
    BY <1>1, <1>6, <1>8, <2>1 DEF c, d, m
<1>9. CASE d[a] = "disable"
  <2>1. m[a].disabledByGuard
    BY <1>3, <1>9 DEF Decided, Claimed
  <2> QED
    BY <1>1, <1>6, <1>9, <2>1 DEF c, d, m
<1>10. CASE d[a] = "disable_dry_run"
  <2>1. ~ m[a].disabledByGuard
    BY <1>1, <1>3, <1>6, <1>10 DEF Decided
  <2> QED
    BY <1>1, <1>6, <1>10, <2>1 DEF c, d, m
<1> QED
  BY <1>4, <1>7, <1>8, <1>9, <1>10 DEF Action

\* The reconciliation finds nothing to adopt: what the trail says is the guard's is
\* owned already.
LEMMA NothingToAdopt ==
    ASSUME TypeOK, RoundInv, OwnInv, Sound, pc \in {"start", "idle"}
    PROVE  Adoptable(st, View, audit) = {}
<1>1. \A a \in Account : audit[a] = "disable" => st[a].disabledByGuard
  BY DEF RoundInv, NoDecision, OwnInv, Owned
<1> QED
  BY <1>1 DEF Adoptable

LEMMA AdoptsNothing ==
    ASSUME NEW S \in [Account -> AccountState], NEW view, NEW trail, NEW o,
           Adoptable(S, view, trail) = {}
    PROVE  AdoptOwnership(S, view, trail, o) = S
  BY DEF AdoptOwnership

LEMMA OwnJudge ==
    ASSUME TypeOK, RoundInv, QuietInv, Quiet, OwnInv, Sound, Judge PROVE OwnInv'
<1>1. PICK base \in [Account -> AccountState], b \in Batches \cup {NoSamples} :
          /\ Reconciled(base)
          /\ todo' = Decisions(count(base, View, b, opts), View, opts)
          /\ st' = decide(count(base, View, b, opts), View, todo', opts)
  BY JudgeBase
<1>2. pc \in {"start", "idle"} /\ todo = NoDecision
  BY DEF Judge, RoundInv
<1>3. base = st
  BY <1>1, <1>2, NothingToAdopt, AdoptsNothing DEF Reconciled, TypeOK
<1>4. \A a \in Account : View[a] = file[a]
  BY DEF View, QuietInv, NoDecision
<1>5. /\ UNCHANGED <<file, audit, offBy, disk>> /\ touched' = {}
      /\ forced' = (todo' # NoDecision)
      /\ pc' = IF forced' THEN "record" ELSE "checkpoint"
  BY DEF Judge, files
<1>6. ASSUME NEW a \in Account
      PROVE  /\ todo'[a] = "none" => (st'[a].disabledByGuard <=> st[a].disabledByGuard)
             /\ todo'[a] \in {"enable", "enable_external"} =>
                    ~ st'[a].disabledByGuard /\ st[a].disabledByGuard
             /\ todo'[a] = "disable" => st'[a].disabledByGuard
             /\ todo'[a] = "disable_dry_run" => ~ st'[a].disabledByGuard /\ ~ st[a].disabledByGuard
             /\ file[a] = "enabled" /\ st[a].disabledByGuard => todo'[a] = "enable_external"
             /\ todo'[a] = "enable" => file[a] = "disabled"
  BY <1>1, <1>3, <1>4, OwnershipDecided
<1>7. todo' \in [Account -> Action]
  BY <1>1, DecisionsType
<1>8. \A a \in Account : st[a].disabledByGuard =>
          offBy[a] = "guard" \/ file[a] = "enabled"
  BY <1>2 DEF OwnInv, Owned, NoDecision
<1>9. \A a \in Account : disk[a].disabledByGuard = st[a].disabledByGuard
  BY <1>2 DEF OwnInv
<1>10. \A a \in Account : audit[a] = "disable" => st[a].disabledByGuard
  BY <1>2 DEF OwnInv, Owned, NoDecision
<1>11. pc' = "checkpoint" /\ ~ forced' =>
           \A a \in Account : disk'[a].disabledByGuard = st'[a].disabledByGuard
  <2>1. ~ forced' => \A a \in Account : todo'[a] = "none"
    BY <1>5 DEF NoDecision
  <2>2. \A a \in Account : disk[a].disabledByGuard \in BOOLEAN /\ st'[a].disabledByGuard \in BOOLEAN
    BY JudgeType DEF TypeOK, AccountState
  <2> QED
    BY <1>5, <1>6, <1>9, <2>1, <2>2
<1>12. ASSUME NEW a \in Account, st'[a].disabledByGuard
       PROVE  offBy[a] = "guard" \/ todo'[a] = "disable"
  BY <1>6, <1>7, <1>8, <1>12 DEF Action
<1>13. ASSUME NEW a \in Account, todo'[a] = "enable"
       PROVE  offBy[a] = "guard" /\ ~ st'[a].disabledByGuard
  BY <1>6, <1>8, <1>13
<1>14. ASSUME NEW a \in Account, audit[a] = "disable"
       PROVE  st'[a].disabledByGuard \/ todo'[a] \in {"enable", "enable_external"}
  BY <1>6, <1>7, <1>10, <1>14 DEF Action
<1> QED
  BY <1>5, <1>11, <1>12, <1>13, <1>14 DEF OwnInv, Owned

\* A step of the tick between Judge and the checkpoint that leaves file and memory alone.
LEMMA OwnRound ==
    ASSUME OwnInv, Sound, UNCHANGED <<st, offBy, forced>>,
           pc \in {"record", "read", "save", "write", "verify"},
           pc' \in {"record", "read", "save", "write", "checkpoint"},
           \A a \in Account :
               /\ todo'[a] = todo[a]
                      \/ (todo'[a] = "none" /\ (todo[a] = "disable" => offBy[a] = "guard"))
               /\ todo'[a] = "enable" => ~ (pc = "verify" /\ Current(a))
               /\ audit'[a] = "disable" =>
                      \/ audit[a] = "disable" /\ (todo'[a] = todo[a]
                                              \/ todo[a] \notin {"enable", "enable_external"})
                      \/ st[a].disabledByGuard
    PROVE  OwnInv'
<1>1. forced' /\ pc # "down" /\ pc' # "down" /\ forced
  BY DEF OwnInv
<1>2. \A a \in Account : Owned(a)' <=> Owned(a)
  BY <1>1 DEF Owned
<1>3. ASSUME NEW a \in Account, Owned(a)' PROVE offBy'[a] = "guard" \/ todo'[a] = "disable"
  BY <1>2, <1>3 DEF OwnInv
<1>4. ASSUME NEW a \in Account, todo'[a] = "enable" PROVE offBy'[a] = "guard" /\ ~ Owned(a)'
  BY <1>2, <1>4 DEF OwnInv
<1>5. ASSUME NEW a \in Account, audit'[a] = "disable"
      PROVE  Owned(a)' \/ todo'[a] \in {"enable", "enable_external"}
  BY <1>1, <1>2, <1>5 DEF OwnInv, Owned
<1> QED
  BY <1>1, <1>3, <1>4, <1>5 DEF OwnInv

\* A step that leaves the runner, the files and the attribution alone but for what no
\* ownership depends on.
LEMMA OwnStands ==
    ASSUME OwnInv, Sound, UNCHANGED <<pc, todo, forced, file, touched, audit, offBy>>,
           \A a \in Account :
               /\ st'[a].disabledByGuard = st[a].disabledByGuard
               /\ disk'[a].disabledByGuard = disk[a].disabledByGuard
    PROVE  OwnInv'
<1>1. \A a \in Account : (Current(a)' <=> Current(a)) /\ (Owned(a)' <=> Owned(a))
  BY DEF Current, Due, Owned
<1> QED
  BY <1>1 DEF OwnInv

LEMMA OwnRecord ==
    ASSUME TypeOK, RoundInv, KnownInv, OwnInv, Sound, NEW a \in Account, Record(a),
           ~ Fails("audit")
    PROVE  OwnInv'
<1>1. /\ pc = "record" /\ UNCHANGED <<st, offBy, forced>> /\ todo[a] # "none"
      /\ audit' = [audit EXCEPT ![a] = todo[a]] /\ Current(a)
  BY DEF Record, Current, Due
<1>2. \A b \in Account \ {a} : todo'[b] = todo[b] /\ audit'[b] = audit[b]
  BY <1>1 DEF Record, NextDecision, TypeOK
<1>3. /\ todo'[a] = todo[a] \/ (todo'[a] = "none" /\ todo[a] \notin {"disable", "enable"})
      /\ audit'[a] = todo[a] /\ pc' \in {"read", "record", "checkpoint"}
  BY <1>1 DEF Record, NextDecision, TypeOK
<1>4. todo[a] = "disable" => st[a].disabledByGuard
  BY DEF KnownInv
<1> QED
  BY <1>1, <1>2, <1>3, <1>4, OwnRound

LEMMA OwnWrite ==
    ASSUME TypeOK, RoundInv, KnownInv, QuietInv, Quiet, OwnInv, Sound,
           NEW a \in Account, WriteConfig(a), ~ Fails("write")
    PROVE  OwnInv'
<1>1. /\ pc' = "verify" /\ pc = "write" /\ Current(a)
      /\ UNCHANGED <<todo, audit, st, disk, forced>>
      /\ \A b \in Account \ {a} : file'[b] = file[b] /\ offBy'[b] = offBy[b]
      /\ offBy'[a] = IF todo[a] = "disable" THEN "guard" ELSE "nobody"
      /\ todo[a] \in {"disable", "enable"}
  BY QuietWrite DEF WriteConfig
<1>2. \A b \in Account : (Current(b)' <=> Current(b)) /\ (Owned(b)' <=> Owned(b))
  BY <1>1 DEF Current, Due, Owned
<1>3. ASSUME NEW b \in Account, Owned(b)' PROVE offBy'[b] = "guard" \/ todo'[b] = "disable"
  <2>1. CASE b = a /\ todo[a] = "enable"
    <3>1. ~ Owned(a)
      BY <2>1 DEF OwnInv
    <3> QED
      BY <1>2, <1>3, <2>1, <3>1
  <2>2. CASE ~ (b = a /\ todo[a] = "enable")
    BY <1>1, <1>2, <1>3, <2>2 DEF OwnInv
  <2> QED
    BY <2>1, <2>2
<1> QED
  BY <1>1, <1>2, <1>3 DEF OwnInv

LEMMA OwnVerify ==
    ASSUME TypeOK, RoundInv, KnownInv, QuietInv, Quiet, OwnInv, Sound,
           NEW a \in Account, Verify(a), ~ Fails("read")
    PROVE  OwnInv'
<1>1. /\ pc = "verify" /\ pc' \in {"record", "checkpoint"} /\ Current(a)
      /\ UNCHANGED <<audit, offBy, st, forced>> /\ todo' = [todo EXCEPT ![a] = "none"]
      /\ todo[a] = "disable" => offBy[a] = "guard"
  BY QuietVerify DEF Verify, NextDecision
<1>2. audit[a] = todo[a]
  BY <1>1 DEF KnownInv, Quiet
<1>3. todo[a] = "disable" => st[a].disabledByGuard
  BY DEF KnownInv
<1>4. \A b \in Account : Current(b) => b = a
  BY <1>1, OneCurrent
<1>5. \A b \in Account : todo'[b] = IF b = a THEN "none" ELSE todo[b]
  BY <1>1 DEF TypeOK
<1> QED
  BY <1>1, <1>2, <1>3, <1>4, <1>5, OwnRound

LEMMA OwnCheckpoint ==
    ASSUME TypeOK, RoundInv, OwnInv, Sound, Checkpoint, ~ Fails("save") PROVE OwnInv'
<1>1. /\ pc = "checkpoint" /\ pc' = "idle"
      /\ disk' = st \/ (~ forced /\ disk' = disk)
      /\ UNCHANGED <<file, audit, offBy, touched, st, todo>> /\ todo = NoDecision
  BY DEF Checkpoint, RoundInv
<1>2. \A a \in Account : disk'[a].disabledByGuard = st'[a].disabledByGuard
  BY <1>1 DEF OwnInv
<1>3. \A a \in Account : (Owned(a)' <=> Owned(a)) /\ todo'[a] = "none"
  BY <1>1 DEF Owned, NoDecision
<1>4. \A a \in Account : Owned(a) => offBy[a] = "guard" \/ todo[a] = "disable"
  BY <1>1 DEF OwnInv
<1> QED
  BY <1>1, <1>2, <1>3, <1>4 DEF OwnInv

\* Starting and stopping hand the ownership from the state file to memory and back.
LEMMA OwnHanded ==
    ASSUME TypeOK, RoundInv, OwnInv, Sound, Start \/ Stop PROVE OwnInv'
<1>1. /\ UNCHANGED <<file, audit, offBy, touched, disk>> /\ todo = NoDecision
      /\ pc \in {"down", "idle"} /\ pc' \in {"down", "start"} /\ todo' = NoDecision
  BY DEF Start, Stop, Gone, files, RoundInv
<1>2. \A a \in Account : Owned(a)' <=> Owned(a)
  BY DEF Start, Stop, Gone, files, Owned, OwnInv
<1>3. pc' = "start" => \A a \in Account : disk'[a].disabledByGuard = st'[a].disabledByGuard
  BY DEF Start, Stop, Gone, files
<1> QED
  BY <1>1, <1>2, <1>3 DEF OwnInv, NoDecision

LEMMA OwnEdit ==
    ASSUME TypeOK, RoundInv, QuietInv, Quiet, OwnInv, Sound,
           NEW a \in Account, NEW v \in Entry, Edit(a, v)
    PROVE  OwnInv'
<1>1. /\ pc \in {"down", "start", "idle"} /\ a \notin touched /\ todo = NoDecision
      /\ UNCHANGED <<pc, disk, audit, st, todo, forced>> /\ touched' = touched \cup {a}
      /\ file' = [file EXCEPT ![a] = v] /\ offBy' = [offBy EXCEPT ![a] = OffByEdited(a, v)]
      /\ file[a] # v
  BY DEF Edit, runner, Sound, RoundInv
<1>2. \A b \in Account : Owned(b)' <=> Owned(b)
  BY <1>1 DEF Owned
<1>3. ASSUME NEW b \in Account, Owned(b)
      PROVE  offBy'[b] = "guard" \/ (file'[b] = "enabled" /\ b \in touched')
  <2>1. CASE b = a
    <3>1. offBy[a] = "guard"
      BY <1>1, <1>3, <2>1 DEF OwnInv, NoDecision
    <3>2. file[a] # "enabled"
      BY <3>1 DEF QuietInv, Attributed
    <3>3. file'[a] = v /\ offBy'[a] = OffByEdited(a, v)
      BY <1>1 DEF TypeOK
    <3>4. v # "enabled" => OffByEdited(a, v) = "guard"
      BY <1>1, <3>1, <3>2 DEF OffByEdited, Entry, TypeOK
    <3> QED
      BY <1>1, <2>1, <3>3, <3>4
  <2>2. CASE b # a
    <3>1. file'[b] = file[b] /\ offBy'[b] = offBy[b]
      BY <1>1, <2>2 DEF TypeOK
    <3> QED
      BY <1>1, <1>3, <3>1 DEF OwnInv, NoDecision
  <2> QED
    BY <2>1, <2>2
<1> QED
  BY <1>1, <1>2, <1>3 DEF OwnInv, NoDecision

LEMMA OwnStep == Inv /\ KnownInv /\ QuietInv /\ OwnInv /\ [Next]_vars => OwnInv'
<1> SUFFICES ASSUME TypeOK, RoundInv, KnownInv, QuietInv, OwnInv, [Next]_vars, Sound'
             PROVE  OwnInv'
  BY DEF Inv, OwnInv
<1>q. Sound /\ Quiet /\ (\A k : ~ Fails(k)) /\ ~ Crash /\ ~ LoseState
  BY SoundBefore
<1>1. CASE Start \/ Stop
  BY <1>1, <1>q, OwnHanded
<1>2. CASE Judge
  BY <1>2, <1>q, OwnJudge
<1>3. CASE JudgeUnread \/ HostTears
  BY <1>3, <1>q DEF JudgeUnread, HostTears
<1>4. CASE SaveBefore
  <2>1. /\ UNCHANGED <<st, offBy, forced, todo, audit>> /\ pc = "save" /\ pc' = "write"
    BY <1>4 DEF SaveBefore
  <2> QED
    BY <1>q, <2>1, OwnRound
<1>5. CASE Checkpoint
  BY <1>5, <1>q, OwnCheckpoint
<1>6. ASSUME NEW a \in Account, ApplyRead(a) PROVE OwnInv'
  <2>1. pc = "read" /\ pc' = "save" /\ UNCHANGED <<audit, offBy, st, forced>>
    BY <1>6, <1>q, QuietApplyRead DEF ApplyRead, files
  <2>2. todo' = todo
    BY <1>6, <2>1, NextDecisionDone DEF ApplyRead
  <2> QED
    BY <1>q, <2>1, <2>2, OwnRound
<1>7. CASE \E a \in Account : Step(a)
  BY <1>6, <1>7, <1>q, OwnRecord, OwnWrite, OwnVerify DEF Step
<1>8. CASE \E a \in Account, v \in Entry : Edit(a, v)
  BY <1>8, <1>q, OwnEdit
<1>9. CASE Elapse
  <2>1. \A a \in Account : /\ st'[a].disabledByGuard = st[a].disabledByGuard
                           /\ disk'[a].disabledByGuard = disk[a].disabledByGuard
    BY <1>9, AgeKeeps DEF Elapse, TypeOK
  <2>2. UNCHANGED <<pc, todo, forced, file, touched, audit, offBy>>
    BY <1>9 DEF Elapse
  <2> QED
    BY <1>q, <2>1, <2>2, OwnStands
<1>10. CASE HostMends \/ UNCHANGED vars
  BY <1>10, <1>q, OwnStands DEF HostMends, vars, files, runner
<1> QED
  BY <1>1, <1>2, <1>3, <1>4, <1>5, <1>7, <1>8, <1>9, <1>10, <1>q DEF Next, Tick

LEMMA OwnInvariance == Spec => []OwnInv
  BY OwnInit, OwnStep, Invariance, KnownInvariance, QuietInvariance, PTL DEF Spec

\* The reconciliation takes nobody's account but the guard's: without edits because
\* the operator's accounts are not in the trail, and with edits between ticks because
\* what the trail says is the guard's is owned already.
THEOREM OwnAdopted == Spec => AdoptsOwnOnly
<1>1. Inv /\ QuietInv /\ OperatorInv /\ OwnInv /\ [Next]_vars =>
          [~adopted /\ (edits = 0 \/ (Attentive /\ faults + crashes + losses = 0)) /\ Judge =>
              \A a \in Adoptable(st, View, audit) : offBy[a] = "guard"]_vars
  <2> SUFFICES ASSUME TypeOK, RoundInv, OperatorInv, OwnInv, ~ adopted, Judge,
                      edits = 0 \/ Sound,
                      NEW a \in Adoptable(st, View, audit)
               PROVE  offBy[a] = "guard"
    BY DEF Inv, Sound
  <2>1. pc \in {"start", "idle"} /\ a \in Account /\ View[a] = "disabled" /\ audit[a] = "disable"
    BY DEF Judge, Adoptable
  <2>2. ~ Sound
    BY <2>1, NothingToAdopt
  <2>3. file[a] = "disabled" /\ offBy[a] # "operator"
    BY <2>1, <2>2 DEF OperatorInv, View, NoDecision
  <2> QED
    BY <2>1, <2>2, <2>3 DEF OperatorInv
<1> QED
  BY <1>1, Invariance, QuietInvariance, OperatorInvariance, OwnInvariance, PTL
     DEF Spec, AdoptsOwnOnly

-----------------------------------------------------------------------------
(* The runner keeps the contract *)

\* Every configuration of a run counts the same accounts towards the same floor.
OneFloor ==
    \A o \in Configs : /\ normalized(o).scope = Common.scope
                       /\ normalized(o).minEnabled = Common.minEnabled

\* The file is read and written without failures and edited between ticks only; and
\* either nobody edits it at all, or nothing else goes wrong.
Orderly ==
    /\ Undisturbed /\ OneFloor
    /\ MaxEdits = 0 \/ (Faults = {} /\ MaxCrashes = 0 /\ MaxLosses = 0)

\* What a bound of zero rules out.
NeverInv ==
    /\ MaxEdits = 0 => edits = 0
    /\ Faults = {} => faults = 0
    /\ MaxCrashes = 0 => crashes = 0
    /\ MaxLosses = 0 => losses = 0

LEMMA NeverStep == NeverInv /\ [Next]_vars => NeverInv'
<1> SUFFICES ASSUME NeverInv, [Next]_vars PROVE NeverInv'
  OBVIOUS
<1> USE BoundsAssumption DEF NeverInv
<1>0. Faults = {} => \A k : ~ Fails(k)
  BY DEF Fails
<1>1. CASE Start \/ HostMends \/ Elapse \/ UNCHANGED vars
  BY <1>1 DEF Start, HostMends, Elapse, vars, budgets
<1>2. CASE Stop
  BY <1>2 DEF Stop
<1>3. CASE Crash
  BY <1>3 DEF Crash
<1>4. CASE LoseState
  BY <1>4 DEF LoseState
<1>5. CASE Judge
  BY <1>0, <1>5 DEF Judge, Reconciled, Works
<1>6. CASE JudgeUnread \/ SaveBefore \/ Checkpoint
  BY <1>0, <1>6 DEF JudgeUnread, SaveBefore, Checkpoint, Works
<1>7. CASE HostTears
  BY <1>0, <1>7 DEF HostTears
<1>8. ASSUME NEW a \in Account, Step(a) PROVE NeverInv'
  BY <1>0, <1>8 DEF Step, Record, ApplyRead, WriteConfig, Verify, Works
<1>9. ASSUME NEW a \in Account, NEW v \in Entry, Edit(a, v) PROVE NeverInv'
  BY <1>9 DEF Edit
<1> QED
  BY <1>1, <1>2, <1>3, <1>4, <1>5, <1>6, <1>7, <1>8, <1>9 DEF Next, Tick

\* The guard decides to switch off an account of its scope only.
ScopeInv == \A a \in Account : todo[a] = "disable" => InScope(opts, a)

LEMMA ScopeStep == TypeOK /\ RoundInv /\ ScopeInv /\ [Next]_vars => ScopeInv'
<1> SUFFICES ASSUME TypeOK, RoundInv, ScopeInv, [Next]_vars PROVE ScopeInv'
  OBVIOUS
<1>t. todo \in [Account -> Action]
  BY DEF TypeOK
<1>1. CASE Start \/ Stop \/ Crash
  <2>1. todo' = NoDecision
    BY <1>1 DEF Start, Stop, Crash, Gone, RoundInv
  <2> QED
    BY <2>1 DEF ScopeInv, NoDecision
<1>2. CASE Judge
  <2>1. PICK S : todo' = Decisions(S, View, opts)
    BY <1>2 DEF Judge
  <2>2. \A a \in Account : todo'[a] = "disable" => a \in Candidates(S, View, opts)
    BY <2>1 DEF Decisions, Decision, Disables
  <2>3. opts' = opts
    BY <1>2 DEF Judge
  <2> QED
    BY <2>2, <2>3 DEF Candidates, ScopeInv
<1>3. ASSUME opts' = opts, \A a \in Account : todo'[a] \in {todo[a], "none"} PROVE ScopeInv'
  BY <1>3 DEF ScopeInv
<1>4. CASE JudgeUnread \/ SaveBefore \/ Checkpoint \/ HostTears \/ HostMends \/ LoseState \/ Elapse
           \/ UNCHANGED vars
  BY <1>3, <1>4 DEF JudgeUnread, SaveBefore, Checkpoint, HostTears, HostMends, LoseState, Elapse,
                    vars, runner
<1>5. ASSUME NEW a \in Account, Step(a) PROVE ScopeInv'
  <2>1. opts' = opts
    BY <1>5 DEF Step, Record, ApplyRead, WriteConfig, Verify
  <2>2. todo' = todo \/ NextDecision(a)
    BY <1>5 DEF Step, Record, ApplyRead, WriteConfig, Verify
  <2> QED
    BY <1>3, <2>1, <2>2, NextDecisionDone
<1>6. ASSUME NEW a \in Account, NEW v \in Entry, Edit(a, v) PROVE ScopeInv'
  BY <1>3, <1>6 DEF Edit, runner
<1> QED
  BY <1>1, <1>2, <1>4, <1>5, <1>6 DEF Next, Tick

\* Everything the refinement is proved from.
ContractInv ==
    /\ Inv /\ KnownInv /\ QuietInv /\ OperatorInv /\ OwnInv /\ NeverInv /\ ScopeInv /\ FloorInv

\* The file says who owns an entry that is on or off.
LEMMA OnIsNobodys ==
    ASSUME Orderly, ContractInv, NEW a \in Account
    PROVE  file[a] = "enabled" <=> (file[a] # "absent" /\ offBy[a] = "nobody")
<1>0. file[a] \in Entry
  BY DEF ContractInv, Inv, TypeOK
<1>1. CASE edits = 0
  BY <1>1 DEF ContractInv, OperatorInv
<1>2. CASE edits # 0
  <2>1. Quiet
    BY <1>2 DEF ContractInv, NeverInv, Orderly, Undisturbed, Quiet
  <2>2. Attributed(a)
    BY <2>1 DEF ContractInv, QuietInv
  <2> QED
    BY <1>0, <2>2 DEF Attributed, Entry
<1> QED
  BY <1>1, <1>2

\* An account the guard puts back is one it switched off.
LEMMA PutBackIsOurs ==
    ASSUME Orderly, ContractInv, NEW a \in Account, pc = "write", Current(a),
           todo[a] = "enable", file[a] = "disabled"
    PROVE  offBy[a] = "guard"
<1>1. CASE edits = 0
  BY <1>1 DEF ContractInv, OperatorInv
<1>2. CASE edits # 0
  <2>0. TypeOK
    BY DEF ContractInv, Inv
  <2>1. Sound
    BY <1>2 DEF ContractInv, NeverInv, Orderly, Undisturbed, Sound
  <2> QED
    BY <2>1 DEF ContractInv, OwnInv
<1> QED
  BY <1>1, <1>2

\* The accounts the contract counts are the enabled ones of the runner's scope.
LEMMA OnIsEnabled ==
    ASSUME Orderly, ContractInv
    PROVE  /\ Contract!On = EnabledInScope(file, opts)
           /\ Common.minEnabled = opts.minEnabled
<1>1. opts.scope = Common.scope /\ opts.minEnabled = Common.minEnabled
  BY DEF ContractInv, Inv, TypeOK, Orderly, OneFloor
<1>2. \A a \in Account : InScope(opts, a) <=> InScope(Common, a)
  BY <1>1 DEF InScope
<1>3. Contract!On = {a \in {x \in Account : InScope(Common, x)} : Owner(a) = "nobody"}
  BY DEF Contract!On
<1>4. \A a \in Account : Owner(a) = "nobody" <=> file[a] = "enabled"
  BY OnIsNobodys DEF Owner
<1> QED
  BY <1>1, <1>2, <1>3, <1>4 DEF EnabledInScope

\* The contract counts as the runner does.
LEMMA SameCount == \A S : Contract!Cardinality(S) = Cardinality(S)
  BY DEF Contract!Cardinality, Cardinality

\* The write of a disable is the contract's Disable, that of an enable its Release.
LEMMA WriteIsAllowed ==
    ASSUME Orderly, ContractInv, ContractInv', NEW a \in Account, WriteConfig(a)
    PROVE  Contract!Disable(a) \/ Contract!Release(a)
           \/ UNCHANGED Contract!vars
<1>0. TypeOK /\ RoundInv /\ FloorInv /\ Undisturbed /\ file[a] \in Entry
  BY DEF ContractInv, Inv, Orderly, TypeOK
<1>1. /\ pc = "write" /\ Current(a) /\ file' = buf /\ offBy' = OffByAfter(a)
      /\ UNCHANGED <<edits, opts, todo>>
  BY <1>0, NoReadFault DEF WriteConfig
<1>2. /\ buf[a] = Want(todo[a]) /\ todo[a] \in {"disable", "enable"}
      /\ \A b \in Account \ {a} : buf[b] = file[b]
  BY <1>0, <1>1 DEF RoundInv, Undisturbed
<1>3. \A b \in Account \ {a} : file'[b] = file[b] /\ offBy'[b] = offBy[b]
  BY <1>1, <1>2 DEF OffByAfter
<1>4. file[a] # "absent"
  BY <1>0, <1>1 DEF FloorInv, Current, Due
<1>5. CASE file[a] = Want(todo[a])
  <2>1. file'[a] = file[a] /\ offBy'[a] = offBy[a]
    BY <1>1, <1>2, <1>5 DEF OffByAfter
  <2> QED
    BY <1>1, <1>3, <2>1 DEF Owner, Contract!vars
<1>6. CASE todo[a] = "disable" /\ file[a] = "enabled"
  <2>1. file'[a] = "disabled" /\ offBy'[a] = "guard"
    BY <1>1, <1>2, <1>6 DEF OffByAfter, Want
  <2>2. \A b \in Account : Owner(b)' = IF b = a THEN "guard" ELSE Owner(b)
    BY <1>3, <2>1 DEF Owner
  <2>3. a \in EnabledInScope(file, opts) /\ a \notin EnabledInScope(file', opts)
    BY <1>6, <2>1 DEF EnabledInScope, ContractInv, ScopeInv
  <2>4. EnabledInScope(file', opts) = EnabledInScope(file, opts) \ {a}
    BY <1>3, <2>1, <2>3 DEF EnabledInScope
  <2>5. Cardinality(EnabledInScope(file', opts)) >= opts.minEnabled
    <3>1. a \in ToDisable' /\ FloorInv'
      BY <1>1, <1>6 DEF ToDisable, ContractInv
    <3>2. Cardinality(EnabledInScope(file', opts) \ ToDisable') >= opts.minEnabled
      BY <1>1, <3>1 DEF FloorInv
    <3>3. EnabledInScope(file', opts) \ ToDisable' \subseteq EnabledInScope(file', opts) \ {}
      OBVIOUS
    <3>4. opts.minEnabled \in Nat
      BY <1>0, OptsNormal DEF NormalOptions, Options
    <3>5. Cardinality(EnabledInScope(file', opts) \ {}) >= opts.minEnabled
      BY <3>2, <3>3, <3>4, EnabledFinite, FloorShrinks
    <3> QED
      BY <3>5
  <2>6. Cardinality(EnabledInScope(file', opts)) = Cardinality(EnabledInScope(file, opts)) - 1
    BY <2>3, <2>4, EnabledFinite, FS_RemoveElement
  <2>7. Cardinality(EnabledInScope(file, opts)) > opts.minEnabled
    <3>1. opts.minEnabled \in Int
      BY <1>0, OptsNormal DEF NormalOptions, Options
    <3> QED
      BY <2>5, <2>6, <3>1, EnabledFinite
  <2>8. [b \in Account |-> Owner(b)]' = [[b \in Account |-> Owner(b)] EXCEPT ![a] = "guard"]
    BY <2>2
  <2>9. a \in Contract!On /\ Cardinality(Contract!On) > Common.minEnabled
    BY <2>3, <2>7, OnIsEnabled
  <2> QED
    BY <1>1, <2>8, <2>9, SameCount DEF Contract!Disable
<1>7. CASE todo[a] = "enable" /\ file[a] = "disabled"
  <2>1. file'[a] = "enabled" /\ offBy'[a] = "nobody"
    BY <1>1, <1>2, <1>7 DEF OffByAfter, Want
  <2>2. Owner(a) = "guard"
    BY <1>1, <1>7, PutBackIsOurs DEF Owner
  <2>3. \A b \in Account : Owner(b)' = IF b = a THEN "nobody" ELSE Owner(b)
    BY <1>3, <2>1 DEF Owner
  <2>4. [b \in Account |-> Owner(b)]' = [[b \in Account |-> Owner(b)] EXCEPT ![a] = "nobody"]
    BY <2>3
  <2> QED
    BY <1>1, <2>2, <2>4 DEF Contract!Release
<1> QED
  BY <1>0, <1>2, <1>4, <1>5, <1>6, <1>7 DEF Want, Entry

\* An edit is the contract's Operator.
LEMMA EditIsOperators ==
    ASSUME TypeOK, NEW a \in Account, NEW v \in Entry, Edit(a, v) PROVE Contract!Operator(a)
<1>1. /\ file[a] # v /\ edits' = edits + 1 /\ file[a] \in Entry
      /\ file' = [file EXCEPT ![a] = v] /\ offBy' = [offBy EXCEPT ![a] = OffByEdited(a, v)]
  BY DEF Edit, TypeOK
<1>2. /\ \A b \in Account \ {a} : Owner(b)' = Owner(b)
      /\ file'[a] = v /\ offBy'[a] = OffByEdited(a, v)
  BY <1>1 DEF Owner, TypeOK
<1>3. \/ Owner(a)' \in {"nobody", "operator", "absent"}
      \/ Owner(a) = "guard" /\ Owner(a)' = "taken"
      \/ Owner(a) = "taken" /\ Owner(a)' = "guard"
  BY <1>1, <1>2 DEF Owner, OffByEdited, Entry
<1>4. [b \in Account |-> Owner(b)]' = [[b \in Account |-> Owner(b)] EXCEPT ![a] = Owner(a)']
  BY <1>2
<1> QED
  BY <1>1, <1>3, <1>4 DEF Contract!Operator

LEMMA StepIsAllowed ==
    ASSUME Orderly, ContractInv, ContractInv', [Next]_vars
    PROVE  Contract!Next \/ UNCHANGED Contract!vars
<1>1. CASE \E a \in Account : WriteConfig(a)
  BY <1>1, WriteIsAllowed DEF Contract!Next
<1>2. CASE \E a \in Account, v \in Entry : Edit(a, v)
  <2>1. TypeOK
    BY DEF ContractInv, Inv
  <2> QED
    BY <1>2, <2>1, EditIsOperators DEF Contract!Next
<1>3. CASE UNCHANGED <<file, offBy, edits>>
  BY <1>3 DEF Owner, Contract!vars
<1>4. CASE ~ \E a \in Account : WriteConfig(a)
  BY <1>2, <1>3, <1>4 DEF Next, Tick, Step, Start, Stop, Crash, Gone, Judge, JudgeUnread,
     SaveBefore, Checkpoint, Record, ApplyRead, Verify, HostTears, HostMends, LoseState, Elapse,
     vars, files, budgets
<1> QED
  BY <1>1, <1>4

LEMMA ContractInvariance == ASSUME Orderly PROVE Spec => []ContractInv
<1>1. Init => NeverInv /\ ScopeInv /\ FloorInv
  BY DEF Init, NeverInv, ScopeInv, FloorInv, ToDisable, NoDecision
<1>2. Inv /\ NeverInv /\ ScopeInv /\ FloorInv /\ [Next]_vars =>
          NeverInv' /\ ScopeInv' /\ FloorInv'
  BY NeverStep, ScopeStep, FloorStep DEF Orderly, Inv
<1> QED
  BY <1>1, <1>2, Invariance, KnownInvariance, QuietInvariance, OperatorInvariance, OwnInvariance,
     PTL DEF Spec, ContractInv

\* The runner implements the safety half of the contract: it switches off no account
\* but one that is on while more than minEnabled are, and on none but its own.  With
\* edits between ticks, as long as nothing goes wrong; without edits, whatever dies, is
\* lost or is not recorded, as long as the configuration is read and written.
THEOREM ContractKept == ASSUME Orderly PROVE Spec => Contract!Safety
<1>1. Init => Contract!Init
  BY DEF Init, Contract!Init, Owner
<1>2. ContractInv /\ ContractInv' /\ [Next]_vars =>
          [Contract!Next]_Contract!vars
  BY StepIsAllowed DEF Contract!vars
<1>3. Spec => []ContractInv
  BY ContractInvariance
<1> QED
  BY <1>1, <1>2, <1>3, PTL DEF Spec, Contract!Safety

-----------------------------------------------------------------------------
(* What the guard switched off has a time at which it is put back *)

\* Every account the guard claims, in a memory or a state file, is retried within M minutes.
Retried(S, M) ==
    \A a \in Account : S[a].disabledByGuard => S[a].nextRetryAt \in 0 .. M

\* No configuration turns the retry off, or has a longer pause.
RetryWithin(M) ==
    \A o \in Configs : normalized(o).reenableMinutes # 0 /\ normalized(o).maxDisableMinutes <= M

LEMMA BackoffWithin ==
    ASSUME NEW M \in Nat, NEW n \in 1 .. CountCap, NEW o \in NormalOptions,
           o.reenableMinutes # 0, o.maxDisableMinutes <= M
    PROVE  backoffNext(n, o) \in 0 .. M
<1>1. n - 1 \in 0 .. CountCap
  BY CountCapAssumption
<1>2. 2 ^ (n - 1) \in Nat
  BY <1>1, DoublingAssumption
<1>3. o.reenableMinutes \in Nat /\ o.maxDisableMinutes \in Nat
  BY DEF NormalOptions, Options
<1>4. o.reenableMinutes * 2 ^ (n - 1) \in Nat
  BY <1>2, <1>3
<1> QED
  BY <1>3, <1>4 DEF backoffNext

\* A claim made in a round is retried within M, and no other claim is changed.
LEMMA DecidedRetried ==
    ASSUME NEW M \in Nat, NEW s \in AccountState, NEW e, NEW d, NEW o \in NormalOptions,
           o.reenableMinutes # 0, o.maxDisableMinutes <= M,
           s.disabledByGuard => s.nextRetryAt \in 0 .. M,
           Decided(s, e, d, o).disabledByGuard
    PROVE  Decided(s, e, d, o).nextRetryAt \in 0 .. M
<1>1. s.disableCount \in 0 .. CountCap
  BY DEF AccountState
<1>2. backoffNext(Bump(s.disableCount), o) \in 0 .. M
  BY <1>1, BumpType, BackoffWithin
<1>3. CASE d = "disable"
  BY <1>2, <1>3 DEF Decided, Claimed
<1>4. CASE d # "disable"
  <2>1. \A n : ~ Given(n).disabledByGuard
    BY DEF Given, FreshAccount
  <2>2. /\ Forgotten(s).disabledByGuard = s.disabledByGuard
        /\ Forgotten(s).nextRetryAt = s.nextRetryAt
    BY DEF Forgotten
  <2>3. /\ [s EXCEPT !.dryRunReported = TRUE].disabledByGuard = s.disabledByGuard
        /\ [s EXCEPT !.dryRunReported = TRUE].nextRetryAt = s.nextRetryAt
    BY DEF AccountState
  <2> QED
    BY <1>4, <2>1, <2>2, <2>3 DEF Decided
<1> QED
  BY <1>3, <1>4

LEMMA AdoptedRetried ==
    ASSUME NEW M \in Nat, NEW S \in [Account -> AccountState], NEW view, NEW trail,
           NEW o \in NormalOptions, o.reenableMinutes # 0, o.maxDisableMinutes <= M,
           Retried(S, M)
    PROVE  Retried(AdoptOwnership(S, view, trail, o), M)
<1> SUFFICES ASSUME NEW a \in Account, AdoptOwnership(S, view, trail, o)[a].disabledByGuard
             PROVE  AdoptOwnership(S, view, trail, o)[a].nextRetryAt \in 0 .. M
  BY DEF Retried
<1>1. CASE a \in Adoptable(S, view, trail)
  <2> DEFINE n == IF S[a].disableCount < 1 THEN 1 ELSE S[a].disableCount
  <2>1. n \in 1 .. CountCap
    BY CountCapAssumption DEF AccountState
  <2>2. backoffNext(n, o) \in 0 .. M
    BY <2>1, BackoffWithin
  <2>3. AdoptOwnership(S, view, trail, o)[a] = Claimed(S[a], n, o)
    BY <1>1 DEF AdoptOwnership, AdoptAccount
  <2> QED
    BY <2>2, <2>3 DEF Claimed
<1>2. CASE a \notin Adoptable(S, view, trail)
  BY <1>2 DEF AdoptOwnership, Retried
<1> QED
  BY <1>1, <1>2

LEMMA CountedRetried ==
    ASSUME NEW M \in Nat, NEW S, NEW view, NEW b, NEW o, Retried(S, M)
    PROVE  Retried(count(S, view, b, o), M)
  BY DEF Retried, count, CountAccount

LEMMA AgedRetried ==
    ASSUME NEW M \in Nat, NEW S \in [Account -> AccountState], Retried(S, M)
    PROVE  Retried(Age(S), M)
<1> SUFFICES ASSUME NEW a \in Account, Age(S)[a].disabledByGuard
             PROVE  Age(S)[a].nextRetryAt \in 0 .. M
  BY DEF Retried
<1>1. /\ Age(S)[a].disabledByGuard = S[a].disabledByGuard
      /\ Age(S)[a].nextRetryAt = IF S[a].nextRetryAt > 0 THEN S[a].nextRetryAt - 1
                                 ELSE S[a].nextRetryAt
  BY DEF Age, AccountState
<1>2. S[a].nextRetryAt \in 0 .. M
  BY <1>1 DEF Retried
<1> QED
  BY <1>1, <1>2

LEMMA NothingClaimed ==
    ASSUME NEW M \in Nat PROVE Retried(NewState, M)
  BY DEF Retried, NewState, FreshAccount

\* What one round makes of the memory it began with.
LEMMA JudgedIs ==
    ASSUME TypeOK, Judge
    PROVE  \E base \in {st, AdoptOwnership(st, View, audit, opts)} :
           \E b \in [Account -> [baseline : BOOLEAN, off : 0 .. MaxBatch]] :
              LET counted == count(base, View, b, opts)
              IN  /\ base \in [Account -> AccountState] /\ counted \in [Account -> AccountState]
                  /\ todo' = Decisions(counted, View, opts)
                  /\ st' = decide(counted, View, todo', opts)
<1>1. PICK base \in {st, AdoptOwnership(st, View, audit, opts)},
           b \in Batches \cup {NoSamples} :
        /\ todo' = Decisions(count(base, View, b, opts), View, opts)
        /\ st' = decide(count(base, View, b, opts), View, todo', opts)
  BY DEF Judge
<1>2. base \in [Account -> AccountState]
  BY OptsNormal, AdoptType DEF TypeOK
<1>3. b \in [Account -> [baseline : BOOLEAN, off : 0 .. MaxBatch]]
  <2>1. CASE b \in Batches
    BY <2>1 DEF Batches
  <2>2. CASE b = NoSamples
    <3>1. 0 \in 0 .. MaxBatch
      BY BoundsAssumption
    <3> QED
      BY <2>2, <3>1 DEF NoSamples
  <2> QED
    BY <2>1, <2>2
<1>4. count(base, View, b, opts) \in [Account -> AccountState]
  BY <1>2, <1>3, CountedType
<1> QED
  BY <1>1, <1>2, <1>3, <1>4

LEMMA RetriedStep ==
    ASSUME NEW M \in Nat, RetryWithin(M), TypeOK, Retried(st, M), Retried(disk, M), [Next]_vars
    PROVE  Retried(st', M) /\ Retried(disk', M)
<1>1. /\ opts \in NormalOptions /\ opts.reenableMinutes # 0 /\ opts.maxDisableMinutes <= M
  BY OptsNormal DEF TypeOK, RetryWithin
<1>2. CASE Judge
  <2>1. PICK base \in {st, AdoptOwnership(st, View, audit, opts)},
             b \in [Account -> [baseline : BOOLEAN, off : 0 .. MaxBatch]] :
          /\ base \in [Account -> AccountState]
          /\ count(base, View, b, opts) \in [Account -> AccountState]
          /\ st' = decide(count(base, View, b, opts), View, todo', opts)
    BY <1>2, JudgedIs
  <2>2. Retried(base, M)
    BY <1>1, AdoptedRetried DEF TypeOK
  <2>3. PICK counted \in [Account -> AccountState] : counted = count(base, View, b, opts)
    BY <2>1
  <2>4. Retried(counted, M)
    BY <2>2, <2>3, CountedRetried
  <2>5. ASSUME NEW a \in Account, st'[a].disabledByGuard PROVE st'[a].nextRetryAt \in 0 .. M
    <3>1. st'[a] = Decided(counted[a], View[a], todo'[a], opts)
      BY <2>1, <2>3 DEF decide
    <3>2. counted[a] \in AccountState
                /\ (counted[a].disabledByGuard => counted[a].nextRetryAt \in 0 .. M)
      BY <2>4 DEF Retried
    <3> QED
      BY <1>1, <2>5, <3>1, <3>2, DecidedRetried
  <2>6. disk' = disk
    BY <1>2 DEF Judge, files
  <2> QED
    BY <2>5, <2>6 DEF Retried
<1>3. CASE Start
  BY <1>3 DEF Start, files
<1>4. CASE Stop \/ Crash
  BY <1>4, NothingClaimed DEF Stop, Crash, Gone, files
<1>5. CASE Elapse
  BY <1>5, AgedRetried DEF Elapse, TypeOK
<1>6. CASE LoseState
  BY <1>6, NothingClaimed DEF LoseState, runner
<1>7. CASE SaveBefore \/ Checkpoint
  <2>1. st' = st /\ disk' \in {st, disk}
    BY <1>7 DEF SaveBefore, Checkpoint
  <2> QED
    BY <2>1
<1>8. CASE \/ JudgeUnread \/ HostTears \/ HostMends
           \/ (\E a \in Account : Step(a)) \/ \E a \in Account, v \in Entry : Edit(a, v)
  <2>1. st' = st /\ disk' = disk
    BY <1>8 DEF JudgeUnread, Step, Record, ApplyRead, WriteConfig, Verify, Edit, HostTears,
                HostMends, files, runner
  <2> QED
    BY <2>1
<1>9. CASE UNCHANGED vars
  BY <1>9 DEF vars, files, runner
<1> QED
  BY <1>2, <1>3, <1>4, <1>5, <1>6, <1>7, <1>8, <1>9 DEF Next, Tick

\* Whatever fails, dies, is lost or is edited: if every configuration retries within M
\* minutes, then what the guard claims, in its memory as in the file it starts from, has a
\* time to be put back at, not further away than that (backoffNext's cap, the adoption of a
\* first tick, and what a restart reads).
THEOREM RetryIsSet ==
    ASSUME NEW M \in Nat, RetryWithin(M)
    PROVE  Spec => [](Retried(st, M) /\ Retried(disk, M))
<1>1. Init => Retried(st, M) /\ Retried(disk, M)
  BY NothingClaimed DEF Init
<1>2. TypeOK /\ Retried(st, M) /\ Retried(disk, M) /\ [Next]_vars
          => Retried(st', M) /\ Retried(disk', M)
  BY RetriedStep
<1>3. Retried(st', M) /\ Retried(disk', M) <=> (Retried(st, M) /\ Retried(disk, M))'
  BY DEF Retried
<1> QED
  BY <1>1, <1>2, <1>3, TypeCorrect, PTL DEF Spec

\* No step puts off the retry of an account that is claimed before and after it.
RetryNotPutOff ==
    [][\A a \in Account : st[a].disabledByGuard /\ st'[a].disabledByGuard =>
            st'[a].nextRetryAt <= st[a].nextRetryAt]_vars

LEMMA DecidedKeepsRetry ==
    ASSUME NEW S \in [Account -> AccountState], NEW view, NEW o \in NormalOptions, NEW a \in Account,
           S[a].disabledByGuard,
           decide(S, view, Decisions(S, view, o), o)[a].disabledByGuard
    PROVE  decide(S, view, Decisions(S, view, o), o)[a].nextRetryAt = S[a].nextRetryAt
<1> DEFINE d == Decisions(S, view, o)[a]
<1>1. d # "disable"
  <2>1. a \notin Disables(S, view, o)
    BY DEF Disables, Candidates
  <2> QED
    BY <2>1 DEF Decisions, Decision
<1>2. decide(S, view, Decisions(S, view, o), o)[a] = Decided(S[a], view[a], d, o)
  BY DEF decide
<1> HIDE DEF d
<1>3. \A n : ~ Given(n).disabledByGuard
  BY DEF Given, FreshAccount
<1>4. [S[a] EXCEPT !.dryRunReported = TRUE].nextRetryAt = S[a].nextRetryAt
  BY DEF AccountState
<1> QED
  BY <1>1, <1>2, <1>3, <1>4 DEF Decided, Forgotten

\* A process that is gone claims nothing.
NoMemory == pc = "down" => \A a \in Account : ~ st[a].disabledByGuard

LEMMA NoMemoryInvariance == Spec => []NoMemory
<1>1. \A a \in Account : ~ NewState[a].disabledByGuard
  BY DEF NewState, FreshAccount
<1>2. Init => NoMemory
  BY <1>1 DEF Init, NoMemory
<1>3. TypeOK /\ NoMemory /\ [Next]_vars => NoMemory'
  <2> SUFFICES ASSUME TypeOK, NoMemory, [Next]_vars, pc' = "down", NEW a \in Account
               PROVE  ~ st'[a].disabledByGuard
    BY DEF NoMemory
  <2>1. CASE Stop \/ Crash
    BY <1>1, <2>1 DEF Stop, Crash, Gone
  <2>2. CASE Start \/ Tick
    <3>1. pc' # "down"
      BY <2>2, NextDecisionDone DEF Start, Tick, Step, Judge, JudgeUnread, SaveBefore, Checkpoint,
                    Record, ApplyRead, WriteConfig, Verify
    <3> QED
      BY <3>1
  <2>3. CASE Elapse
    <3>1. pc = "down" /\ st' = Age(st)
      BY <2>3 DEF Elapse
    <3>2. st[a] \in AccountState /\ ~ st[a].disabledByGuard
      BY <3>1 DEF NoMemory, TypeOK
    <3>3. st'[a].disabledByGuard = st[a].disabledByGuard
      BY <3>1, <3>2 DEF Age, AccountState
    <3> QED
      BY <3>2, <3>3
  <2>4. CASE \/ HostTears \/ HostMends \/ LoseState
             \/ \E b \in Account, v \in Entry : Edit(b, v)
    BY <2>4 DEF NoMemory, HostTears, HostMends, LoseState, Edit, runner
  <2>5. CASE UNCHANGED vars
    BY <2>5 DEF NoMemory, vars, runner
  <2> QED
    BY <2>1, <2>2, <2>3, <2>4, <2>5 DEF Next
<1> QED
  BY <1>2, <1>3, TypeCorrect, PTL DEF Spec

\* Once an account is off, no failure, edit or round of a guard that lives defers the time
\* it is put back at: a round claims only what is not claimed, and an adoption only what
\* the memory does not know.
THEOREM RetryStands == Spec => RetryNotPutOff
<1>1. TypeOK /\ NoMemory /\ [Next]_vars =>
         \A a \in Account : st[a].disabledByGuard /\ st'[a].disabledByGuard =>
            st'[a].nextRetryAt <= st[a].nextRetryAt
  <2> SUFFICES ASSUME TypeOK, NoMemory, [Next]_vars, NEW a \in Account,
                      st[a].disabledByGuard, st'[a].disabledByGuard
               PROVE  st'[a].nextRetryAt <= st[a].nextRetryAt
    OBVIOUS
  <2>1. st[a] \in AccountState /\ st[a].nextRetryAt \in Int
    BY DEF TypeOK, AccountState, Never
  <2>2. CASE Judge
    <3>1. PICK base \in {st, AdoptOwnership(st, View, audit, opts)},
               b \in [Account -> [baseline : BOOLEAN, off : 0 .. MaxBatch]] :
            /\ base \in [Account -> AccountState]
            /\ count(base, View, b, opts) \in [Account -> AccountState]
            /\ todo' = Decisions(count(base, View, b, opts), View, opts)
            /\ st' = decide(count(base, View, b, opts), View, todo', opts)
      BY <2>2, JudgedIs
    <3>2. base[a] = st[a]
      BY <3>1 DEF AdoptOwnership, Adoptable
    <3>3. PICK counted \in [Account -> AccountState] : counted = count(base, View, b, opts)
      BY <3>1
    <3>4. /\ counted[a].disabledByGuard = st[a].disabledByGuard
          /\ counted[a].nextRetryAt = st[a].nextRetryAt
      BY <3>2, <3>3 DEF count, CountAccount
    <3>5. st' = decide(counted, View, Decisions(counted, View, opts), opts)
      BY <3>1, <3>3
    <3>6. st'[a].nextRetryAt = counted[a].nextRetryAt
      BY <3>4, <3>5, OptsNormal, DecidedKeepsRetry
    <3> QED
      BY <2>1, <3>4, <3>6
  <2>3. CASE Elapse
    <3>1. st'[a].nextRetryAt = IF st[a].nextRetryAt > 0 THEN st[a].nextRetryAt - 1
                               ELSE st[a].nextRetryAt
      BY <2>1, <2>3 DEF Elapse, Age, AccountState
    <3> QED
      BY <2>1, <3>1
  <2>4. CASE Start
    BY <2>4 DEF Start, NoMemory
  <2>5. CASE Stop \/ Crash
    BY <2>5 DEF Stop, Crash, Gone, NewState, FreshAccount
  <2>6. CASE \/ SaveBefore \/ Checkpoint \/ JudgeUnread \/ HostTears \/ HostMends \/ LoseState
             \/ (\E b \in Account : Step(b)) \/ \E b \in Account, v \in Entry : Edit(b, v)
    <3>1. st' = st
      BY <2>6 DEF SaveBefore, Checkpoint, JudgeUnread, Step, Record, ApplyRead, WriteConfig,
                  Verify, Edit, HostTears, HostMends, LoseState, files, runner
    <3> QED
      BY <2>1, <3>1
  <2>7. CASE UNCHANGED vars
    BY <2>1, <2>7 DEF vars, runner
  <2> QED
    BY <2>2, <2>3, <2>4, <2>5, <2>6, <2>7 DEF Next, Tick
<1> QED
  BY <1>1, TypeCorrect, NoMemoryInvariance, PTL DEF Spec, RetryNotPutOff

-----------------------------------------------------------------------------
(* A tick ends *)

InTick == {"record", "read", "save", "write", "verify", "checkpoint"}

\* How many accesses to a file this tick has left: five at most for each decision that is
\* not carried out, and the save.
Left ==
    LET n == 5 * Cardinality(Due)
    IN  CASE pc = "record" -> n + 1
          [] pc = "read"   -> n
          [] pc = "save"   -> n - 1
          [] pc = "write"  -> n - 2
          [] pc = "verify" -> n - 3
          [] pc = "checkpoint" -> 1
          [] OTHER -> 0

\* A step of the guard brings its tick nearer to the end, and no other prolongs it.
TickAdvances ==
    [][/\ SaveBefore \/ Checkpoint \/ (\E a \in Account : Step(a)) => Left' < Left
       /\ pc \in InTick => Left' < Left \/ UNCHANGED <<pc, todo>>]_vars

\* Between two accesses of a tick to a file, a decision is under way.
DueInv == pc \in InTick \ {"checkpoint"} => Due # {}

LEMMA DueCount ==
    ASSUME TypeOK
    PROVE  /\ IsFiniteSet(Due) /\ Cardinality(Due) \in 0 .. NumAccounts
           /\ Due # {} => Cardinality(Due) > 0
           /\ \A a \in Due : Cardinality(Due \ {a}) = Cardinality(Due) - 1
<1>1. IsFiniteSet(Account) /\ Cardinality(Account) = NumAccounts
  BY NumAccountsAssumption, FS_Interval DEF Account
<1>2. IsFiniteSet(Due) /\ Cardinality(Due) <= NumAccounts /\ Cardinality(Due) \in Nat
  BY <1>1, FS_Subset, FS_CardinalityType DEF Due
<1>3. Due # {} => Cardinality(Due) # 0
  BY <1>2, FS_EmptySet
<1>4. \A a \in Due : Cardinality(Due \ {a}) = Cardinality(Due) - 1
  BY <1>2, FS_RemoveElement
<1> QED
  BY <1>2, <1>3, <1>4, NumAccountsAssumption

LEMMA LeftBounds ==
    ASSUME TypeOK, DueInv PROVE Left \in 0 .. 5 * NumAccounts + 1
<1>1. Cardinality(Due) \in 0 .. NumAccounts /\ NumAccounts \in Nat
  BY DueCount, NumAccountsAssumption
<1>2. pc \in InTick \ {"checkpoint"} => Cardinality(Due) > 0
  BY DueCount DEF DueInv
<1>3. CASE pc \in InTick \ {"checkpoint"}
  BY <1>1, <1>2, <1>3 DEF Left, InTick
<1>4. CASE pc \notin InTick \ {"checkpoint"}
  BY <1>1, <1>4 DEF Left, InTick
<1> QED
  BY <1>3, <1>4

\* With a decision done, the next one is recorded, or the tick is saved.
LEMMA NextIsLess ==
    ASSUME TypeOK, NEW a \in Account, Current(a), NextDecision(a),
           pc \in InTick \ {"checkpoint"}
    PROVE  DueInv' /\ Left' < Left
<1>1. a \in Due /\ todo \in [Account -> Action]
  BY DEF Current, TypeOK
<1>2. Due' = Due \ {a}
  BY <1>1 DEF Due, NextDecision
<1>3. /\ Cardinality(Due) \in 0 .. NumAccounts /\ Cardinality(Due) > 0
      /\ Cardinality(Due') = Cardinality(Due) - 1
  BY <1>1, <1>2, DueCount
<1>4. pc' = IF Due = {a} THEN "checkpoint" ELSE "record"
  BY DEF NextDecision
<1>5. Left >= 5 * Cardinality(Due) - 3
  BY <1>3, NumAccountsAssumption DEF Left, InTick
<1>6. Left' = IF Due = {a} THEN 1 ELSE 5 * (Cardinality(Due) - 1) + 1
  BY <1>3, <1>4 DEF Left
<1>7. DueInv'
  BY <1>1, <1>2, <1>4 DEF DueInv, InTick
<1>8. Left \in Int /\ Left' \in Int
  BY <1>3, <1>6, NumAccountsAssumption DEF Left, InTick
<1> QED
  BY <1>3, <1>5, <1>6, <1>7, <1>8, NumAccountsAssumption

\* A step of a decision under way.
LEMMA SameDue ==
    ASSUME TypeOK, DueInv, UNCHANGED todo,
           <<pc, pc'>> \in {<<"record", "read">>, <<"read", "save">>, <<"save", "write">>,
                            <<"write", "verify">>}
    PROVE  DueInv' /\ Left' < Left
<1>1. Due' = Due /\ Cardinality(Due) \in Int
  BY DueCount, NumAccountsAssumption DEF Due
<1>2. Due # {}
  BY DEF DueInv, InTick
<1> QED
  BY <1>1, <1>2 DEF DueInv, Left

LEMMA StepAdvances ==
    ASSUME TypeOK, DueInv, SaveBefore \/ Checkpoint \/ \E a \in Account : Step(a)
    PROVE  DueInv' /\ Left' < Left
<1>1. CASE SaveBefore
  BY <1>1, SameDue DEF SaveBefore
<1>2. CASE Checkpoint
  BY <1>2 DEF Checkpoint, Left, DueInv, InTick
<1>3. CASE \E a \in Account : Step(a)
  <2>1. PICK a \in Account : Record(a) \/ ApplyRead(a) \/ WriteConfig(a) \/ Verify(a)
    BY <1>3 DEF Step
  <2>2. Current(a) /\ pc \in InTick \ {"checkpoint"}
    BY <2>1 DEF Record, ApplyRead, WriteConfig, Verify, InTick
  <2>3. \/ NextDecision(a)
        \/ /\ UNCHANGED todo
           /\ <<pc, pc'>> \in {<<"record", "read">>, <<"read", "save">>, <<"save", "write">>,
                               <<"write", "verify">>}
    BY <2>1 DEF Record, ApplyRead, WriteConfig, Verify
  <2> QED
    BY <2>2, <2>3, NextIsLess, SameDue
<1> QED
  BY <1>1, <1>2, <1>3

LEMMA TickStep ==
    ASSUME TypeOK, DueInv, [Next]_vars
    PROVE  /\ DueInv'
           /\ SaveBefore \/ Checkpoint \/ (\E a \in Account : Step(a)) => Left' < Left
           /\ pc \in InTick => Left' < Left \/ UNCHANGED <<pc, todo>>
<1>1. CASE SaveBefore \/ Checkpoint \/ \E a \in Account : Step(a)
  BY <1>1, StepAdvances
<1>2. CASE Judge
  <2>1. pc' = (IF todo' # NoDecision THEN "record" ELSE "checkpoint") /\ pc \notin InTick
    BY <1>2 DEF Judge, InTick
  <2>2. todo' \in [Account -> Action]
    BY <1>2, DecisionsType DEF Judge
  <2>3. todo' # NoDecision => Due' # {}
    BY <2>2 DEF Due, NoDecision
  <2> QED
    BY <1>2, <2>1, <2>3, StepAdvances DEF DueInv, InTick
<1>3. CASE Start \/ JudgeUnread
  BY <1>3, StepAdvances DEF Start, JudgeUnread, DueInv, InTick
<1>4. CASE Stop \/ Crash
  <2>1. pc' = "down" /\ Left' = 0
    BY <1>4 DEF Stop, Crash, Gone, Left
  <2>2. Left \in 0 .. 5 * NumAccounts + 1 /\ NumAccounts \in Nat
    BY LeftBounds, NumAccountsAssumption
  <2>3. pc \in InTick => Left > 0
    <3>1. Cardinality(Due) \in 0 .. NumAccounts
      BY DueCount
    <3>2. pc \in InTick \ {"checkpoint"} => Cardinality(Due) > 0
      BY DueCount DEF DueInv
    <3> QED
      BY <3>1, <3>2, NumAccountsAssumption DEF Left, InTick
  <2> QED
    BY <2>1, <2>2, <2>3, StepAdvances DEF DueInv, InTick
<1>5. CASE \/ HostTears \/ HostMends \/ LoseState \/ Elapse
           \/ \E a \in Account, v \in Entry : Edit(a, v)
  <2>1. UNCHANGED <<pc, todo>>
    BY <1>5 DEF HostTears, HostMends, LoseState, Elapse, Edit, runner
  <2> QED
    BY <2>1, StepAdvances DEF DueInv, Due
<1>6. CASE UNCHANGED vars
  BY <1>6, StepAdvances DEF vars, runner, DueInv, Due
<1> QED
  BY <1>1, <1>2, <1>3, <1>4, <1>5, <1>6 DEF Next, Tick

LEMMA DueInvariance == Spec => []DueInv
<1>1. Init => DueInv
  BY DEF Init, DueInv, InTick
<1>2. TypeOK /\ DueInv /\ [Next]_vars => DueInv'
  BY TickStep
<1> QED
  BY <1>1, <1>2, TypeCorrect, PTL DEF Spec

\* However many calls fail and whatever is edited meanwhile, a tick accesses a file five
\* times at most for each of its decisions, and once to save: each decision is carried out
\* or given up in its turn, and none is taken up again before the next tick.
THEOREM TicksEnd == Spec => [](Left \in 0 .. 5 * NumAccounts + 1) /\ TickAdvances
<1>1. TypeOK /\ DueInv => Left \in 0 .. 5 * NumAccounts + 1
  BY LeftBounds
<1>2. TypeOK /\ DueInv /\ [Next]_vars =>
          /\ SaveBefore \/ Checkpoint \/ (\E a \in Account : Step(a)) => Left' < Left
          /\ pc \in InTick => Left' < Left \/ UNCHANGED <<pc, todo>>
  BY TickStep
<1> QED
  BY <1>1, <1>2, TypeCorrect, DueInvariance, PTL DEF Spec, TickAdvances
=============================================================================
