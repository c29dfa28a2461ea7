----------------------------- MODULE OfficialUsage -----------------------------
(***************************************************************************)
(* The collector of Cline's per-request usage records,                     *)
(* internal/plan/official_usage.go: a walk pages from the newest record    *)
(* backwards, over HTTP and without the collector's lock, while Cline goes *)
(* on publishing, the clock goes on, a page fails or a reconfigure builds  *)
(* another collector.                                                      *)
(*                                                                         *)
(* Records are numbered in the order they are published in, which is that   *)
(* of their times; some have the very time of the one before them.         *)
(* Times are kept as ages that stop growing once they no longer matter, so *)
(* that a run may go on for ever.                                          *)
(*                                                                         *)
(* Names that PlanPoller has too carry a "Usage" here, for PlanProofs      *)
(* extends both.                                                           *)
(***************************************************************************)
EXTENDS Integers, FiniteSets, FiniteSetsExt

CONSTANTS
    NumRecords,    \* records Cline publishes in a run
    MaxTwins,      \* how many of them share the time of the one before
    Retention,     \* officialUsageRetention, in ticks of the clock
    Windows,       \* the page windows, in ticks
    PageSize,      \* officialUsagePageSize
    PagesSteady,   \* page budget of a walk once the retention is covered
    PagesExtend,   \* and until then
    AccountAges,   \* how old the account may be at first
    Calm,          \* TRUE: no more is published between two walks than a short one reads
    Every,         \* plan_usage_refresh, in ticks
    MaxBackoff,    \* officialUsageMaxBackoff, in ticks
    MaxErrors,     \* how many pages fail in a run
    MaxRestarts    \* how many collectors a reconfigure replaces

\* A walk that extends the coverage has the greater budget (lines 45-46: 5 and 60).
ASSUME BudgetsAssumption ==
    /\ {NumRecords, MaxTwins} \subseteq Nat
    /\ {Retention, PageSize, PagesSteady, PagesExtend, Every, MaxBackoff} \subseteq Nat \ {0}
    /\ Windows \subseteq 1 .. Retention
    /\ AccountAges \subseteq 0 .. Retention + 1 /\ Calm \in BOOLEAN
    /\ {MaxErrors, MaxRestarts} \subseteq Nat
    /\ PagesSteady <= PagesExtend

\* The backoff's powers of two, which the provers have no definition of.
ASSUME BackoffAssumption == \A n \in 0 .. 4 : 2 ^ n \in Nat

Record == 1 .. NumRecords

\* Past these, an age or a wait makes no difference any more.
OldAge   == Retention + 1
LongWait == IF Every > MaxBackoff THEN Every ELSE MaxBackoff

VARIABLES
    published,   \* Cline has published the records 1 .. published
    twins,       \* those with the very time of the record before them
    age,         \* how long ago each of them was made
    accountAge,  \* how long ago the account was
    items,       \* the records kept
    since,       \* how long ago the last walk that brought something began, or Never
    wait,        \* how long until retryAt
    failures,    \* failures in a row, up to the five that tell backoffs apart
    truncated,
    walk,        \* the walk under way
    asOf,        \* the newest record there was when the last kept walk began
    cut,         \* observes that this collector kept a walk that was cut short
    errors, restarts

collector == <<items, since, wait, failures, truncated>>
cline     == <<published, twins, age, accountAge>>
usageBudgets == <<errors, restarts>>
usageVars == <<cline, collector, walk, asOf, cut, usageBudgets>>

Never == LongWait + 1

Idle == [on |-> FALSE, watermark |-> 0, old |-> {}, older |-> {}, budget |-> 0, next |-> 0,
         collected |-> {}, top |-> 0, elapsed |-> 0]

Older(n, limit) == IF n < limit THEN n + 1 ELSE n

Least(m, n) == IF m < n THEN m ELSE n

Newest(S) == IF S = {} THEN 0 ELSE Max(S)

\* Times, as far as the order of two records can tell them apart.
Time(r) == r - Cardinality(twins \cap (1 .. r))

\* A tick of the clock, for the ages of the records Cline has published.
Aged(a) == [r \in Record |-> IF r <= published THEN Older(a[r], OldAge) ELSE a[r]]

UsageInit ==
    /\ published = 0 /\ twins = {}
    /\ age = [r \in Record |-> 0]
    /\ accountAge \in AccountAges
    /\ items = {} /\ since = Never /\ wait = 0 /\ failures = 0 /\ truncated = FALSE
    /\ walk = Idle /\ asOf = 0 /\ cut = FALSE
    /\ errors = 0 /\ restarts = 0

-----------------------------------------------------------------------------
(* Cline and the clock *)

Publish ==
    /\ published < NumRecords
    /\ Calm => \/ since = Never /\ walk.collected = {}
               \/ published - Newest(items \cup walk.collected) < PagesSteady * PageSize
    /\ published' = published + 1
    /\ twins' \in {twins} \cup (IF published > 0 /\ age[published] = 0 /\ Cardinality(twins) < MaxTwins
                               THEN {twins \cup {published + 1}} ELSE {})
    /\ UNCHANGED <<age, accountAge, collector, walk, asOf, cut, usageBudgets>>

Tick ==
    /\ age' = Aged(age)
    /\ accountAge' = Older(accountAge, OldAge)
    /\ since' = IF since = Never THEN Never ELSE Older(since, LongWait)
    /\ wait' = IF wait = 0 THEN 0 ELSE wait - 1
    /\ walk' = IF walk.on THEN [walk EXCEPT !.elapsed = Older(@, LongWait)] ELSE walk
    /\ UNCHANGED <<published, twins, items, failures, truncated, asOf, cut, usageBudgets>>

-----------------------------------------------------------------------------
(* A walk *)

DueOnce == wait = 0 /\ since >= Every /\ failures = 0   \* mutated form: no retry

Due == wait = 0 /\ since >= Every

\* The records reached the horizon already, so a short walk is enough.
Covered == \E r \in items : age[r] >= Retention

BeginWalk ==
    /\ ~walk.on /\ Due
    /\ walk' = [Idle EXCEPT !.on = TRUE,
                !.watermark = Newest(items),
                !.old = {r \in Record : r <= published /\ age[r] >= Retention},
                !.older = {r \in Record : r <= published /\ age[r] > Retention},
                !.budget = IF Covered THEN PagesSteady ELSE PagesExtend,
                !.next = NumRecords,
                !.top = published]
    /\ UNCHANGED <<cline, collector, asOf, cut, usageBudgets>>

PageSkips(cursor) ==   \* mutated form: the cursor's own record is left out
    LET last == Least(cursor, published) - 1
    IN  {r \in Record : last - PageSize < r /\ r <= last}

\* The page of Cline's records that ends with the newest one up to a cursor.
Page(cursor) ==
    LET last == Least(cursor, published)
    IN  {r \in Record : last - PageSize < r /\ r <= last}

Backoff(n) == Least(Every * 2 ^ (n - 1), MaxBackoff)

\* retryAt counts from when the walk began.
NoteFailure ==
    /\ failures' = Least(failures + 1, 5)
    /\ wait' = IF Backoff(failures') > walk.elapsed THEN Backoff(failures') - walk.elapsed ELSE 0

MergeLatest(collected, full) ==   \* mutated form: keeps what this walk brought only
    /\ items' = collected \ walk.older
    /\ since' = walk.elapsed /\ truncated' = ~full /\ asOf' = walk.top /\ walk' = Idle
    /\ cut' = (cut \/ ~full)

\* The end of a walk that brought these records; full: it got to where it meant to.
Merge(collected, full) ==
    /\ items' = (items \cup collected) \ walk.older
    /\ since' = walk.elapsed
    /\ truncated' = ~full
    /\ asOf' = walk.top
    /\ cut' = (cut \/ ~full)
    /\ walk' = Idle

\* A page: its records down to the horizon or to what the last walk knew.
NextPage ==
    /\ walk.on /\ walk.budget > 0
    /\ LET page  == Page(walk.next)
           fresh == {r \in page : r \notin walk.old /\ Time(r) > Time(walk.watermark)}
           all   == walk.collected \cup fresh
           edge  == fresh # page \/ page = {}
           last  == edge \/ 1 \in page
       IN  IF last
           THEN Merge(all, TRUE) /\ failures' = 0 /\ wait' = 0
           ELSE IF walk.budget = 1
           THEN Merge(all, FALSE) /\ failures' = 0 /\ wait' = 0
           ELSE /\ walk' = [walk EXCEPT !.collected = all, !.next = Min(page) - 1,
                                        !.budget = @ - 1]
                /\ UNCHANGED <<collector, asOf, cut>>
    /\ UNCHANGED <<cline, usageBudgets>>

\* A page fails: what the walk had is kept, a walk that had nothing changes
\* nothing, and the collector backs off.
FailPage ==
    /\ walk.on /\ errors < MaxErrors
    /\ errors' = errors + 1
    /\ NoteFailure
    /\ \/ /\ walk.collected # {} /\ Merge(walk.collected, FALSE)
       \/ /\ walk.collected = {}
          /\ walk' = Idle
          /\ UNCHANGED <<items, since, truncated, asOf, cut>>
    /\ UNCHANGED <<cline, restarts>>

\* A reconfigure starts from an empty collector; a walk of the old one is lost.
Restart ==
    /\ restarts < MaxRestarts
    /\ restarts' = restarts + 1
    /\ items' = {} /\ since' = Never /\ wait' = 0 /\ failures' = 0 /\ truncated' = FALSE
    /\ walk' = Idle /\ asOf' = 0 /\ cut' = FALSE
    /\ UNCHANGED <<cline, errors>>

-----------------------------------------------------------------------------
UsageNext == Publish \/ Tick \/ BeginWalk \/ NextPage \/ FailPage \/ Restart

\* The poller polls, Cline answers, and time goes by.
UsageSpec == UsageInit /\ [][UsageNext]_usageVars
FairUsageSpec == UsageSpec /\ WF_usageVars(Tick) /\ WF_usageVars(BeginWalk) /\ WF_usageVars(NextPage)

-----------------------------------------------------------------------------
(* Properties *)

UsageTypeOK ==
    /\ published \in 0 .. NumRecords /\ twins \subseteq 2 .. published
    /\ age \in [Record -> 0 .. OldAge] /\ accountAge \in 0 .. OldAge
    /\ items \subseteq Record
    /\ since \in 0 .. Never /\ wait \in 0 .. MaxBackoff
    /\ failures \in 0 .. 5 /\ truncated \in BOOLEAN
    /\ walk.on \in BOOLEAN /\ walk.collected \subseteq Record
    /\ asOf \in 0 .. published /\ cut \in BOOLEAN
    /\ errors \in 0 .. MaxErrors /\ restarts \in 0 .. MaxRestarts

\* aggregate: the window is complete if the account is younger than it, or the
\* oldest record kept is as old as it.
WindowCovered(w) == accountAge <= w \/ \E r \in items : age[r] >= w

\* What Cline had published when the last walk that was kept began, and is not kept;
\* but a record with the very time of one that is kept is taken for known.
TakenForKnown(r) == \E q \in items : q < r /\ Time(q) = Time(r)

Missing ==
    IF since = Never THEN {}
    ELSE {r \in 1 .. asOf : age[r] < Retention /\ ~TakenForKnown(r)} \ items

\* A window that says it is covered has every record it is about: its numbers
\* are a total, not a lower bound.  What counts is what Cline had published when
\* the last walk that was kept began.  Two windows say so and are not: one of a
\* collector that met a page that failed, whose walk will not go back for what was
\* behind it, and one of an account younger than it whose walk was cut short.
CoveredIsTotal ==
    errors = 0 => \A w \in Windows :
        WindowCovered(w) /\ (accountAge > w \/ ~cut) => \A r \in Missing : age[r] >= w

\* With every variable in its type: as long as no walk was cut short, the records
\* kept are everything there was when the last walk began, whatever Cline publishes
\* while it pages, but for what shares its time with a record that was there first.
NothingMissing == UsageTypeOK /\ (~cut => Missing = {})

\* The backoff ends: once Cline answers again, the collector has no failure left.
Recovers == (failures > 0) ~> (failures = 0)
================================================================================
