---------------------------- MODULE GuardEvidence ------------------------------
(***************************************************************************)
(* What a round of the account guard makes of the requests (guard.go,      *)
(* Advance): the loop of State.count over those of the last hour, with the *)
(* ring of tokens that keeps one from being counted twice (markSeen), and  *)
(* the decisions that follow it; between the records, the channel facts    *)
(* that land after them in any order, the hour that moves on, the entries  *)
(* an operator edits, and the state file that a restart goes back to.      *)
(*                                                                         *)
(* AccountGuard sums a round up in one batch per account (CountAccount);   *)
(* SummaryIsLoop checks that the sum is what the loop does.  Here a write  *)
(* is done with its round: the overlay of pending writes shows it to the   *)
(* runner whether it landed or not.                                        *)
(***************************************************************************)
EXTENDS Guard, Sequences

CONSTANTS
    NumRequests,   \* requests, in the order of their time
    SeenLimit,     \* seenLimit: length of the ring
    Window,        \* how many requests an hour can hold
    Edited,        \* the accounts whose entries are edited
    Configs,       \* the option records a restart can bring, not normalised
    MaxEvents      \* how many edits, failed reads and restarts of the runner

ASSUME EvidenceAssumption ==
    /\ NumAccounts > 0 /\ Edited \subseteq Account
    /\ NumRequests \in Nat /\ SeenLimit \in Nat \ {0} /\ Window \in Nat \ {0}
    /\ MaxEvents \in Nat

\* The cap on the counter is past the point where the backoff stops growing.
ASSUME ConfigsAssumption == Configs \subseteq Options /\ \A o \in Configs : Saturates(o)

Request == 1 .. NumRequests
Channel == {"baseline", "other", "none"}   \* "none": no fact yet, or one without a channel

VARIABLES
    made,      \* requests made so far: those in 1 .. made
    landed,    \* requests whose fact is in the store
    account,   \* the account of each of these
    answer,    \* the channel its fact names
    gone,      \* the oldest requests, out of the hour
    view,      \* the entries as the runner sees them: the file, and the pending writes
    opts,      \* its options, normalised
    mind,      \* its memory: the accounts and the ring
    adopted,   \* its ownership reconciliation has run
    saved,     \* the state file
    ordered,   \* observes that each fact so far landed in its turn, within the hour
    events     \* edits, failed reads and restarts so far

requests == <<made, landed, account, answer, gone, ordered>>
runner   == <<view, opts, mind, adopted, saved>>
vars     == <<requests, runner, events>>

\* No code reads times and cleared: how often each request has been counted, and, of
\* each account, those that had been when a decision last took its streak away.
Mind == [accounts : [Account -> AccountState], seen : Seq(Request),
         times : [Request -> Nat], cleared : [Account -> SUBSET Request]]

NewMind == [accounts |-> NewState, seen |-> <<>>,
            times |-> [r \in Request |-> 0], cleared |-> [a \in Account |-> {}]]

-----------------------------------------------------------------------------
(* samples: the requests of the hour, oldest first, with the joined channel *)

InHour == (gone + 1) .. made

SamplesNewest == [i \in 1 .. (made - gone) |-> made + 1 - i]   \* mutated form: newest first

Samples == [i \in 1 .. (made - gone) |-> gone + i]

ChannelOf(r) == IF r \in landed THEN answer[r] ELSE "none"

(* count *)

pushOne(seen, r) == <<r>>                 \* mutated form: the ring holds one token

push(seen, r) ==
    LET longer == Append(seen, r)
    IN  IF Len(longer) > SeenLimit THEN Tail(longer) ELSE longer

StreakKept(s, channel) ==   \* mutated form: a baseline answer does not reset
    IF channel = "baseline" THEN s ELSE [s EXCEPT !.streak = @ + 1]

Streak(s, channel) ==
    IF channel = "baseline" THEN [s EXCEPT !.streak = 0, !.dryRunReported = FALSE]
    ELSE [s EXCEPT !.streak = @ + 1]

InRing(m, r) == \E i \in DOMAIN m.seen : m.seen[i] = r

\* The channel goes into the streak, the token into the ring.
Counting(m, r) ==
    [m EXCEPT !.accounts[account[r]] = Streak(@, ChannelOf(r)),
              !.seen = push(@, r),
              !.times[r] = @ + 1]

ConsumeEarly(m, r) ==   \* mutated form: a request without a channel is consumed as well
    IF view[account[r]] = "absent" \/ InRing(m, r) THEN m
    ELSE IF ChannelOf(r) = "none" THEN [m EXCEPT !.seen = push(@, r)]
    ELSE Counting(m, r)

\* One sample: of an account that is not in the file, or without a channel, it is neither
\* counted nor consumed.
Consume(m, r) ==
    IF view[account[r]] = "absent" \/ ChannelOf(r) = "none" \/ InRing(m, r) THEN m
    ELSE Counting(m, r)

\* The loop over the samples: the memory after each of them.
Loop(m) ==
    LET after[k \in 0 .. Len(Samples)] ==
            IF k = 0 THEN m ELSE Consume(after[k - 1], Samples[k])
    IN  after

\* A guard that may not judge counts nothing.
Count(m) == IF canJudge(opts) THEN Loop(m)[Len(Samples)] ELSE m

(* decide *)

Done(m) == {r \in Request : m.times[r] > 0}

\* The accounts whose streak a round's decisions take away.
Clears(m, ds) ==
    {a \in Account : \/ ds[a] \in {"enable", "enable_external"}
                     \/ view[a] = "disabled" /\ ~m.accounts[a].disabledByGuard}

\* The memory a round's decisions leave.
Decide(m, ds) ==
    [m EXCEPT !.accounts = decide(@, view, ds, opts),
              !.cleared = [a \in Account |-> IF a \in Clears(m, ds) THEN Done(m) ELSE @[a]]]

Want(d) == IF d = "disable" THEN "disabled" ELSE "enabled"

-----------------------------------------------------------------------------
\* Every entry is on; that one is not is an edit before the first round.
Init ==
    /\ made = 0 /\ gone = 0
    /\ landed = {}
    /\ account = [r \in Request |-> 1]
    /\ answer = [r \in Request |-> "none"]
    /\ view = [a \in Account |-> "enabled"]
    /\ opts \in {normalized(o) : o \in Configs}
    /\ mind = NewMind /\ saved = NewMind /\ adopted = FALSE
    /\ ordered = TRUE /\ events = 0

Make ==
    /\ made < NumRequests /\ made - gone < Window
    /\ made' = made + 1
    /\ UNCHANGED <<landed, account, answer, gone, ordered, runner, events>>

\* Nothing asks for a request's account before its channel is known: both are drawn here.
Land(r) ==
    /\ r \in InHour \ landed
    /\ ordered' = (ordered /\ 1 .. (r - 1) \subseteq landed)
    /\ landed' = landed \cup {r}
    /\ \E a \in Account : account' = [account EXCEPT ![r] = a]
    /\ \E channel \in {"baseline", "other"} : answer' = [answer EXCEPT ![r] = channel]
    /\ UNCHANGED <<made, gone, runner, events>>

\* The oldest request of the hour leaves it.
Pass ==
    /\ gone < made
    /\ ordered' = (ordered /\ gone + 1 \in landed)
    /\ gone' = gone + 1
    /\ UNCHANGED <<made, landed, account, answer, runner, events>>

\* What a round begins with: the first one takes back what the audit trail says is the
\* guard's.  AccountGuard models the trail; here it says of each account what it likes.
Begun ==
    IF adopted THEN {mind}
    ELSE {[mind EXCEPT !.accounts = AdoptOwnership(@, view, trail, opts)] :
              trail \in [Account -> {"disable", "none"}]}

\* What Advance does once it has counted, the writes it decides on, and the save, which
\* may not be due yet, or fail.  A file no restart is left to read is taken as saved: a bound.
Finish(counted) ==
    /\ adopted' = TRUE
    /\ \E ds \in {Decisions(counted.accounts, view, opts)} :
        /\ mind' = Decide(counted, ds)
        /\ view' = [a \in Account |-> IF ds[a] \in {"disable", "enable"}
                                      THEN Want(ds[a]) ELSE view[a]]
    /\ saved' \in {mind'} \cup (IF events < MaxEvents THEN {saved} ELSE {})

\* A tick: reconciliation, samples, Advance.
Round ==
    /\ UNCHANGED <<requests, opts, events>>
    /\ \E counted \in {Count(begun) : begun \in Begun} : Finish(counted)

\* A tick that cannot read the records: what it has of them names no channel (Report).
RoundUnread ==
    /\ events < MaxEvents /\ events' = events + 1
    /\ UNCHANGED <<requests, opts>>
    /\ \E begun \in Begun : Finish(begun)

Restart ==
    /\ events < MaxEvents /\ events' = events + 1
    /\ mind' = saved /\ adopted' = FALSE
    /\ opts' \in {normalized(o) : o \in Configs}
    /\ UNCHANGED <<requests, view, saved>>

\* An entry is edited, added or taken out, or an overlay a restart dropped shows the file.
Edit(a, v) ==
    /\ a \in Edited
    /\ events < MaxEvents /\ events' = events + 1
    /\ view[a] # v
    /\ view' = [view EXCEPT ![a] = v]
    /\ UNCHANGED <<requests, opts, mind, adopted, saved>>

\* A minute goes by.
Age(s) == [a \in Account |-> [s[a] EXCEPT !.nextRetryAt = IF @ > 0 THEN @ - 1 ELSE @]]

Aged(m) == [m EXCEPT !.accounts = Age(@)]

Elapse ==
    /\ mind' = Aged(mind) /\ saved' = Aged(saved)
    /\ UNCHANGED <<requests, view, opts, adopted, events>>

Next ==
    \/ Make \/ (\E r \in Request : Land(r)) \/ Pass
    \/ Round \/ RoundUnread \/ Restart \/ Elapse
    \/ \E a \in Account, v \in Entry : Edit(a, v)

Spec == Init /\ [][Next]_vars
FairSpec == Spec /\ WF_vars(Round)

-----------------------------------------------------------------------------
(* Properties *)

TypeOK ==
    /\ made \in 0 .. NumRequests /\ gone \in 0 .. made
    /\ account \in [Request -> Account] /\ answer \in [Request -> Channel]
    /\ landed \subseteq Request
    /\ view \in [Account -> Entry]
    /\ opts \in {normalized(o) : o \in Configs}
    /\ mind \in Mind /\ saved \in Mind
    /\ Len(mind.seen) <= SeenLimit
    /\ adopted \in BOOLEAN /\ ordered \in BOOLEAN

\* With every variable in its type, README: reading the same hour again counts nothing
\* again, before and after a restart.
CountedOnce == TypeOK /\ \A r \in Request : mind.times[r] <= 1

\* The streak is what an operator counts in the records: how many of the requests
\* counted last, in a row, were not on the baseline, since the guard last took the
\* account's streak away: when it put the account back, found it put back, or found
\* it switched off by somebody else (decide).  That holds while the facts land in the
\* order of their requests; a late one is counted when it lands, after requests that
\* are younger than it.
RunLength(a, S) ==
    LET mine == {r \in S : account[r] = a}
        base == {r \in mine : answer[r] = "baseline"}
    IN  Cardinality({r \in mine : \A b \in base : b < r})

StreakIsRun ==
    ordered => \A a \in Account :
        mind.accounts[a].streak = RunLength(a, Done(mind) \ mind.cleared[a])

\* A round does to the accounts what AccountGuard's Judge does with one batch for each:
\* the loop over the samples comes to that batch, and what is decided is decided on it.
Batch(a) ==
    LET fresh == {r \in Request : mind'.times[r] > mind.times[r]}
        mine  == {r \in fresh : account[r] = a}
    IN  [baseline |-> \E r \in mine : answer[r] = "baseline", off |-> RunLength(a, mine)]

Judges(before, after) ==
    \E counted \in {count(before, view, [a \in Account |-> Batch(a)], opts)} :
    \E ds \in {Decisions(counted, view, opts)} :
        after = decide(counted, view, ds, opts)

SummaryIsLoop ==
    [][Round \/ RoundUnread =>
           \E begun \in Begun : Judges(begun.accounts, mind'.accounts)]_vars

\* A request whose channel is known while it is in the hour is counted, unless before the
\* next round it leaves the hour, its account leaves the file, or the guard may not judge:
\* again and again there is a moment at which none is owed.
EveryAnswerCounts ==
    []<>(canJudge(opts) => \A r \in landed :
             mind.times[r] > 0 \/ r <= gone \/ view[account[r]] = "absent")
================================================================================
