----------------------------- MODULE AccountGuard ------------------------------
(***************************************************************************)
(* The account guard's runner, internal/plugin/accountguard.go, between    *)
(* CPA's configuration file, the state file account-guard.json and the     *)
(* audit trail account-guard.jsonl, all of which outlive it.               *)
(*                                                                         *)
(* A tick is one goroutine's sequence of steps; the operator, CPA's own    *)
(* writer, a crash and the clock come between them.  The goroutine's own   *)
(* memory is private, so everything it does between two accesses to a file *)
(* is one step.                                                            *)
(***************************************************************************)
EXTENDS Guard

CONSTANTS
    Configs,       \* the option records a reconfigure can bring, not normalised
    Faults,        \* which calls may fail, and "tear": CPA is caught half-way through a write
    MaxFaults,     \* how many calls fail in a run
    MaxEdits,      \* how many edits the operator makes
    MaxStops,      \* how many graceful stops (quiesce, reconfigure) there are
    MaxCrashes,    \* how many times the process dies
    MaxLosses,     \* how many times the state file is emptied or damaged
    MaxBatch,      \* how many off-baseline samples of one account one round finds
    MaxStreak,     \* bound on the streak
    Attentive      \* TRUE: no edit lands inside a tick, nor two on an entry between ticks

ASSUME ConfigsAssumption == Configs \subseteq Options

\* The cap on the counter is past the point where the backoff stops growing.
ASSUME SaturationAssumption == \A o \in Configs : Saturates(o)

ASSUME BoundsAssumption ==
    /\ Faults \subseteq {"read", "audit", "save", "write", "scan", "tear"}
    /\ {MaxFaults, MaxEdits, MaxStops, MaxCrashes, MaxLosses} \subseteq Nat
    /\ MaxBatch \in Nat /\ MaxStreak \in Nat /\ Attentive \in BOOLEAN

VARIABLES
    file,      \* CPA's configuration: what each entry's `disabled` says
    torn,      \* the file is half-written: nothing in it can be parsed
    disk,      \* account-guard.json
    audit,     \* account-guard.jsonl: the last action recorded of each account
    pc,        \* where the runner's goroutine is
    opts,      \* its options, normalised
    st,        \* its memory, guard.State
    pending,   \* writes that did not land: the wanted value, or "none"
    adopted,   \* the ownership reconciliation has run
    todo,      \* decisions of this round still to be carried out
    forced,    \* this round took a decision, so it is saved
    buf,       \* the configuration bytes about to be written
    offBy,     \* who switched each entry off (observes the file, no code reads it)
    touched,   \* entries edited since the guard last looked (for Attentive)
    faults, edits, stops, crashes, losses

files    == <<file, torn, disk, audit>>
runner   == <<pc, opts, st, pending, adopted, todo, forced, buf>>
budgets  == <<faults, edits, stops, crashes, losses>>
vars     == <<files, runner, offBy, touched, budgets>>

-----------------------------------------------------------------------------
PCs == {"down", "start", "idle", "record", "read", "save", "write", "verify", "checkpoint"}

NoDecision == [a \in Account |-> "none"]

\* The account whose decision is carried out now: decisions go in file order.
Due == {a \in Account : todo[a] # "none"}
Current(a) == a \in Due /\ \A b \in Due : a <= b

Want(d) == IF d = "disable" THEN "disabled" ELSE "enabled"

\* A call of this kind fails, if the run has a failure of it left.
Fails(kind) ==
    /\ kind \in Faults
    /\ faults < MaxFaults
    /\ faults' = faults + 1

Works == faults' = faults

\* The rest of the round after a decision is done with: the next one, or the end.
NextDecision(a) ==
    /\ todo' = [todo EXCEPT ![a] = "none"]
    /\ pc' = IF Due = {a} THEN "checkpoint" ELSE "record"

\* fail() and clearPending().
Fail(a)  == pending' = [pending EXCEPT ![a] = Want(todo[a])]
Clear(a) == pending' = [pending EXCEPT ![a] = "none"]

-----------------------------------------------------------------------------
(* Starting and stopping *)

Init ==
    /\ file \in [Account -> {"enabled", "disabled"}]
    /\ offBy = [a \in Account |-> IF file[a] = "disabled" THEN "operator" ELSE "nobody"]
    /\ torn = FALSE
    /\ disk = NewState
    /\ audit = NoDecision
    /\ pc = "down"
    /\ opts \in {normalized(o) : o \in Configs}
    /\ st = NewState
    /\ pending = NoDecision
    /\ adopted = FALSE
    /\ todo = NoDecision
    /\ forced = FALSE
    /\ buf = file
    /\ touched = {}
    /\ faults = 0 /\ edits = 0 /\ stops = 0 /\ crashes = 0 /\ losses = 0

\* startAccountGuard: load the state and run the first tick.  A reconfigure may
\* bring other options.
Start ==
    /\ pc = "down"
    /\ pc' = "start"
    /\ opts' \in {normalized(o) : o \in Configs}
    /\ st' = disk
    /\ UNCHANGED <<files, pending, adopted, todo, forced, buf, offBy, touched, budgets>>

\* What is left of a runner once its goroutine is gone.
Gone ==
    /\ pc' = "down"
    /\ st' = NewState
    /\ pending' = NoDecision
    /\ adopted' = FALSE
    /\ todo' = NoDecision
    /\ forced' = FALSE
    /\ buf' = file
    /\ UNCHANGED opts

\* stopAccountGuard waits for the tick to end, and saves nothing.
Stop ==
    /\ pc = "idle" /\ stops < MaxStops
    /\ stops' = stops + 1
    /\ Gone
    /\ UNCHANGED <<files, offBy, touched, faults, edits, crashes, losses>>

Crash ==
    /\ pc # "down" /\ crashes < MaxCrashes
    /\ crashes' = crashes + 1
    /\ Gone
    /\ UNCHANGED <<files, offBy, touched, faults, edits, stops, losses>>

-----------------------------------------------------------------------------
(* A tick *)

\* The accounts as the guard sees them: the file, and on top of it every write
\* that is still to be read back.  A file that does not parse has no entries.
View == [a \in Account |-> IF torn \/ file[a] = "absent" THEN "absent"
                           ELSE IF pending[a] # "none" THEN pending[a]
                           ELSE file[a]]

Batches == [Account -> [baseline : BOOLEAN, off : 0 .. MaxBatch]]
NoSamples == [a \in Account |-> [baseline |-> FALSE, off |-> 0]]

\* The reconciliation of the first tick; the audit scan it needs may fail.
Reconciled(base) ==
    \/ /\ adopted /\ Works
       /\ base = st
    \/ /\ ~adopted /\ Works
       /\ base = AdoptOwnership(st, View, audit, opts)
    \/ /\ ~adopted /\ Fails("scan")
       /\ \E a \in Account : View[a] = "disabled" /\ ~st[a].disabledByGuard
       /\ base = st

\* tick() up to the decisions: accounts, reconcileOwnership, samples, Advance.
\* A guard that is switched off reads no samples.
Judge ==
    /\ pc \in {"start", "idle"}
    /\ \E base \in {st, AdoptOwnership(st, View, audit, opts)} :
        /\ Reconciled(base)
        /\ \E b \in (IF opts.enabled THEN Batches ELSE {NoSamples}) :
            LET counted == count(base, View, b, opts)
            IN  /\ \A a \in Account : counted[a].streak <= MaxStreak
                /\ todo' = Decisions(counted, View, opts)
                /\ st' = decide(counted, View, todo', opts)
    /\ adopted' = TRUE
    /\ forced' = (todo' # NoDecision)
    /\ pc' = IF forced' THEN "record" ELSE "checkpoint"
    /\ touched' = {}
    /\ UNCHANGED <<files, opts, pending, buf, offBy, edits, stops, crashes, losses>>

\* The configuration cannot be read: the tick publishes the error and ends.
JudgeUnread ==
    /\ pc = "start"
    /\ Fails("read")
    /\ pc' = "idle"
    /\ UNCHANGED <<files, opts, st, pending, adopted, todo, forced, buf, offBy, touched,
                   edits, stops, crashes, losses>>

\* record(): a failed append is logged, and the decision goes on.
Record(a) ==
    /\ pc = "record" /\ Current(a)
    /\ \/ Works /\ audit' = [audit EXCEPT ![a] = todo[a]]
       \/ Fails("audit") /\ UNCHANGED audit
    /\ IF todo[a] \in {"disable", "enable"}
       THEN pc' = "read" /\ UNCHANGED todo
       ELSE NextDecision(a)
    /\ UNCHANGED <<file, torn, disk, opts, st, pending, adopted, forced, buf, offBy, touched,
                   edits, stops, crashes, losses>>

ApplyCached(a) ==   \* mutated form: edits the bytes an earlier round read
    /\ pc = "read" /\ Current(a) /\ Works
    /\ buf' = [buf EXCEPT ![a] = Want(todo[a])]
    /\ pc' = "save"
    /\ UNCHANGED <<files, opts, st, pending, todo, adopted, forced, offBy, touched,
                   edits, stops, crashes, losses>>

\* apply(), first half: read the file again and set the one entry in a copy.
ApplyRead(a) ==
    /\ pc = "read" /\ Current(a)
    /\ \/ /\ Fails("read") \/ (Works /\ (torn \/ file[a] = "absent"))
          /\ Fail(a) /\ NextDecision(a) /\ UNCHANGED buf
       \/ /\ Works /\ ~torn /\ file[a] = Want(todo[a])
          /\ Clear(a) /\ NextDecision(a) /\ UNCHANGED buf
       \/ /\ Works /\ ~torn /\ file[a] \notin {"absent", Want(todo[a])}
          /\ buf' = [file EXCEPT ![a] = Want(todo[a])]
          /\ pc' = "save"
          /\ UNCHANGED <<pending, todo>>
    /\ UNCHANGED <<files, opts, st, adopted, forced, offBy, touched,
                   edits, stops, crashes, losses>>

SaveLater ==   \* mutated form: the state is saved at the end of the round only
    /\ pc = "save" /\ pc' = "write"
    /\ UNCHANGED <<files, opts, st, pending, adopted, todo, forced, buf, offBy, touched, budgets>>

\* The state goes to disk before the configuration; a failure is only logged.
SaveBefore ==
    /\ pc = "save"
    /\ \/ Works /\ disk' = st
       \/ Fails("save") /\ UNCHANGED disk
    /\ pc' = "write"
    /\ UNCHANGED <<file, torn, audit, opts, st, pending, adopted, todo, forced, buf, offBy,
                   touched, edits, stops, crashes, losses>>

\* Who switched an entry off after a write of the whole buffer: "stale" is an
\* entry the write put back to an older value on the way.
OffByAfter(a) ==
    [b \in Account |->
        IF buf[b] = file[b] THEN offBy[b]
        ELSE IF buf[b] # "disabled" THEN "nobody"
        ELSE IF b = a THEN "guard" ELSE "stale"]

\* writeConfigAtomic: one rename, so the whole file becomes the buffer.
WriteConfig(a) ==
    /\ pc = "write" /\ Current(a)
    /\ \/ /\ Works
          /\ file' = buf /\ torn' = FALSE
          /\ offBy' = OffByAfter(a)
          /\ pc' = "verify"
          /\ UNCHANGED <<pending, todo>>
       \/ /\ Fails("write")
          /\ Fail(a) /\ NextDecision(a)
          /\ UNCHANGED <<file, torn, offBy>>
    /\ UNCHANGED <<disk, audit, opts, st, adopted, forced, buf, touched,
                   edits, stops, crashes, losses>>

\* The write counts once it is read back.
Verify(a) ==
    /\ pc = "verify" /\ Current(a)
    /\ \/ Works /\ ~torn /\ file[a] = Want(todo[a]) /\ Clear(a)
       \/ Works /\ (torn \/ file[a] # Want(todo[a])) /\ Fail(a)
       \/ Fails("read") /\ Fail(a)
    /\ NextDecision(a)
    /\ UNCHANGED <<files, opts, st, adopted, forced, buf, offBy, touched,
                   edits, stops, crashes, losses>>

\* maybeSave: always after a decision, otherwise when fifteen seconds are up.
Checkpoint ==
    /\ pc = "checkpoint"
    /\ \/ Works /\ disk' = st
       \/ Works /\ ~forced /\ UNCHANGED disk
       \/ Fails("save") /\ UNCHANGED disk
    /\ pc' = "idle"
    /\ forced' = FALSE
    /\ buf' = file   \* no code reads the old buffer again
    /\ UNCHANGED <<file, torn, audit, opts, st, pending, adopted, todo, offBy, touched,
                   edits, stops, crashes, losses>>

-----------------------------------------------------------------------------
(* The environment *)

\* Who switched an entry off after an edit: one that is put back disabled, after
\* it was taken out while it was the guard's, is still the guard's.
OffByEdited(a, v) ==
    CASE v = "enabled"  -> "nobody"
      [] v = "absent"   -> IF offBy[a] = "guard" THEN "guard" ELSE "nobody"
      [] v = "disabled" -> IF file[a] = "absent" /\ offBy[a] = "guard"
                           THEN "guard" ELSE "operator"

\* The operator edits one entry, or adds or removes it.
Edit(a, v) ==
    /\ edits < MaxEdits /\ ~torn
    /\ file[a] # v
    /\ Attentive => pc \in {"down", "start", "idle"} /\ a \notin touched
    /\ edits' = edits + 1
    /\ file' = [file EXCEPT ![a] = v]
    /\ offBy' = [offBy EXCEPT ![a] = OffByEdited(a, v)]
    /\ touched' = touched \cup {a}
    /\ UNCHANGED <<torn, disk, audit, runner, faults, stops, crashes, losses>>

\* CPA rewrites its file in place: for a moment the file is not a document.
HostTears ==
    /\ ~torn /\ Fails("tear")
    /\ torn' = TRUE
    /\ UNCHANGED <<file, disk, audit, runner, offBy, touched,
                   edits, stops, crashes, losses>>

HostMends ==
    /\ torn /\ torn' = FALSE
    /\ UNCHANGED <<file, disk, audit, runner, offBy, touched, budgets>>

\* The state file is lost between two runners: deleted, damaged, emptied.
LoseState ==
    /\ pc = "down" /\ losses < MaxLosses /\ disk # NewState
    /\ losses' = losses + 1
    /\ disk' = NewState
    /\ UNCHANGED <<file, torn, audit, runner, offBy, touched,
                   faults, edits, stops, crashes>>

AgeNil(s) ==   \* mutated form: does not ask whether there is a retry time
    [a \in Account |-> [s[a] EXCEPT !.nextRetryAt = IF @ # 0 THEN @ - 1 ELSE @]]

\* A minute goes by.
Age(s) == [a \in Account |->
              [s[a] EXCEPT !.nextRetryAt = IF @ > 0 THEN @ - 1 ELSE @]]

Elapse ==
    /\ \E a \in Account : disk[a].nextRetryAt > 0 \/ st[a].nextRetryAt > 0
    /\ disk' = Age(disk) /\ st' = Age(st)
    /\ UNCHANGED <<file, torn, audit, pc, opts, pending, adopted, todo, forced, buf,
                   offBy, touched, budgets>>

-----------------------------------------------------------------------------
Step(a) == Record(a) \/ ApplyRead(a) \/ WriteConfig(a) \/ Verify(a)

Tick == Judge \/ JudgeUnread \/ SaveBefore \/ Checkpoint \/ \E a \in Account : Step(a)

Next ==
    \/ Start \/ Stop \/ Crash
    \/ Tick
    \/ \E a \in Account, v \in Entry : Edit(a, v)
    \/ HostTears \/ HostMends \/ LoseState \/ Elapse

\* The ticker keeps ticking, the host starts what it stopped, CPA finishes the
\* write it began, and the clock goes on.  The operator owes nothing.
Fairness == WF_vars(Tick) /\ WF_vars(Start) /\ WF_vars(HostMends) /\ WF_vars(Elapse)

Spec == Init /\ [][Next]_vars
FairSpec == Spec /\ Fairness

-----------------------------------------------------------------------------
(* Properties *)

\* Every variable has its type.
TypeOK ==
    /\ file \in [Account -> Entry] /\ torn \in BOOLEAN
    /\ disk \in [Account -> AccountState] /\ audit \in [Account -> Action]
    /\ pc \in PCs
    /\ opts \in {normalized(o) : o \in Configs}
    /\ st \in [Account -> AccountState]
    /\ pending \in [Account -> {"none", "enabled", "disabled"}]
    /\ adopted \in BOOLEAN /\ forced \in BOOLEAN
    /\ todo \in [Account -> Action]
    /\ buf \in [Account -> Entry]
    /\ offBy \in [Account -> {"nobody", "guard", "operator", "stale"}]
    /\ touched \in SUBSET Account
    /\ {faults, edits, stops, crashes, losses} \subseteq Nat

\* A reconfigure may change the switches; for the contract the configurations of
\* a run share one scope and one floor.
Common == normalized(CHOOSE o \in Configs : TRUE)

\* Who owns an entry, read off the file: an entry that is away may still be the guard's.
Owner(a) ==
    CASE file[a] # "absent" -> offBy[a]
      [] file[a] = "absent" /\ offBy[a] = "guard" -> "taken"
      [] OTHER -> "absent"

\* The runner is an implementation of the contract: who switched an entry off,
\* read off the file, never changes in a way the contract forbids.
Contract == INSTANCE GuardContract WITH
    Guarded <- {a \in Account : InScope(Common, a)},
    MinKept <- Common.minEnabled,
    owner <- [a \in Account |-> Owner(a)],
    edits <- edits

ImplementsContract == Contract!Spec

\* A write of the guard that switches an account off leaves minEnabled accounts
\* of its scope on in the file (rule 4, "keep at least MinEnabled enabled").
SwitchesOff(a) == offBy[a] # "guard" /\ offBy'[a] = "guard"

MinEnabledKept ==
    [][\A a \in Account : SwitchesOff(a) =>
            Cardinality(EnabledInScope(file', opts)) >= opts.minEnabled]_vars

\* Only a runner that may judge, and not in dry run, switches an account off.
DryRunWritesNothing ==
    [][\A a \in Account : SwitchesOff(a) => canJudge(opts) /\ ~opts.dryRun]_vars

\* A write of the guard changes the entry it is about and leaves every other
\* entry as it is in the file at that moment, as long as nobody edits the file
\* in the middle of a tick (apply reads the file again before each write).
OneEntryPerWrite ==
    [][\A a \in Account : WriteConfig(a) => \A b \in Account \ {a} : file'[b] = file[b]]_vars

\* While every call works, an account is known to be the guard's before it is off,
\* so that a runner that dies at any point leaves none it cannot put back: the
\* account's last line in the audit trail says so (record before apply), and so does
\* the state file (Save before writeConfigAtomic).
KnownBeforeWrite ==
    [][\A a \in Account : SwitchesOff(a) /\ faults = 0 =>
            audit[a] = "disable" /\ disk[a].disabledByGuard]_vars

\* What the guard switched off stays the guard's in the trail, as long as no edit
\* lands inside a tick; and once the reconciliation of the first tick has run, the
\* runner claims all of it that it has not decided to put back, even if the state
\* file was lost.  Of an entry that is away, or a file half-written, the
\* reconciliation sees nothing, and it runs once.
ClaimsMatchTrail ==
    faults = 0 => \A a \in Account : offBy[a] = "guard" =>
        /\ Attentive \/ edits = 0 => audit[a] \in {"disable", "enable"}
        /\ adopted /\ edits = 0 /\ audit[a] = "disable" =>
               st[a].disabledByGuard \/ todo[a] = "enable"

\* Adoption takes back only what the guard switched off itself: whatever failed,
\* died or was lost as long as nobody edits the file, and whatever is edited between
\* ticks as long as nothing else goes wrong.
AdoptsOwnOnly ==
    [][~adopted /\ (edits = 0 \/ (Attentive /\ faults + crashes + losses = 0)) /\ Judge =>
            \A a \in Adoptable(st, View, audit) : offBy[a] = "guard"]_vars

(* A claim of the documentation that the code does not keep. *)

\* README: a write that is not read back "is retried in the next round".
RetriedWrite ==
    \A a \in Account, v \in {"enabled", "disabled"} : (pending[a] = v) ~> (file[a] = v)
=============================================================================
