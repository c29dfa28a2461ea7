# clinepass-channel-monitor in TLA+

A TLA+ development of the plugin in `src/`: modules that model its stateful parts,
TLC configurations that check them on small instances, and theorems TLAPS proves for
every value of the constants. Paths below are relative to the repository, line
numbers are those of the commit modelled.

## 1. The system

The program is a plugin (a shared library) of CPA, a proxy for language-model clients.
It watches which gateway channel really answered each request, shows that on a page,
and switches off upstream accounts that keep answering on the wrong channel.

| Component | State | Operations | Talks to |
|---|---|---|---|
| Account guard, decision logic (`internal/guard/guard.go`) | `State`: per account streak, `DisabledByGuard`, `DisableCount`, `NextRetryAt`, `DryRunReported`; ring of 4096 counted request tokens | `Advance` (count, decide), `AdoptOwnership` | called by the runner; pure |
| Account guard, runner (`internal/plugin/accountguard.go`) | `state`, `pending` writes, `reconciled` flag, last save | start, stop, `tick` every 5 s: read the accounts, reconcile once, sample, `Advance`, record, apply, save, publish | CPA's `config.yaml` (read and rewritten), state file, audit trail, recorder (samples), page (snapshot) |
| State file and audit trail (`internal/guard/store.go`) | `account-guard.json`, `account-guard.jsonl` | `Load`, `Save` (temporary file and rename), `AppendAudit`, `RecentAudit` | shared by every process that has the plugin loaded |
| Heartbeats (`internal/guard/instance.go`) | one file per runner | `TouchInstance`, `ForgetInstance`, `LiveInstances` | guards of other builds and processes |
| Host configuration (`internal/hostconf`, `internal/plugin/plugindefaults.go`) | none | find entries, set one entry's `disabled`, insert plugin defaults | `config.yaml` |
| Usage recorder (`internal/observation/observation.go`) | queue, counters of `Health`, `started`, `stopCh` | `ObserveUsage` on request threads; `writeLoop`, `cleanLoop`, `Flush`, `Stop` | host callback; record store; page, guard |
| Record store (`internal/observation/store.go`) | the open file of the day, its 64 KiB buffer, the files on disk | `append`, `flush`, `rotateLocked`, `clean`, `list`, `scan` | disk |
| Join (`internal/observation/join.go`, `factsource.go`) | five-second cache of the facts | `match` by session, else by token counters | recorder, scanner's files |
| Aggregation, export (`internal/observation/aggregate.go`) | none | `Summary` of a window, CSV | recorder, join, page |
| Request-log scanner (`internal/channellog/channellog.go`, `store.go`) | ring of facts, seen set, counters; fact files | `Start`, `Stop`, `ScanOnce` every poll | CPA's log directory (reads and unlinks), join |
| Request-log parser (`internal/channellog/parse.go`) | none | one log to one fact | scanner |
| Subscription poller (`internal/plan/plan.go`) | accounts by key, published snapshot | `syncAccounts`, `refresh`, `publish` | Cline over HTTP, page |
| Official usage collector (`internal/plan/official_usage.go`) | retained records, watermark, backoff, `truncated` | `fetch` page by page, `aggregate` | Cline over HTTP, poller |
| Lifecycle (`internal/plugin/plugin.go`, `internal/state`) | published pointers | `LoadConfig`, quiesce, shutdown: stop and start every component | host |
| Management API and page, configuration, ABI, probe command | none of their own | render, parse, dial | |

What is hard here is not the single steps but what comes between them:

- **the guard** reads a file that CPA and the operator write too, decides on it, and
  writes two files and the configuration one after another; the write itself makes CPA
  reload, that is stop, the plugin; any of the calls may fail;
- **evidence** arrives in the wrong order: a request is stored when it ends, its channel
  is known only after CPA has written its log, the log has been quiet for a while and
  the scanner has come by; a restart goes back to a state file fifteen seconds old;
- **the scanner** decides from a name, a size and an age that CPA is done with a file,
  and deletes it;
- **the recorder** measures a queue under a lock and sends to it outside, has one
  goroutine that selects between records, a timer, flush requests and the stop, and a
  retention loop that deletes files others read or write;
- **the collector** pages backwards through a list that grows at its head;
- **the log** of one request holds several attempts, errors, a request body that may
  quote anything, and ends wherever CPA was when it was read;
- **the page and the guard** take their bounds at one moment and read at another, over
  lines of this build and of an older one;
- **two builds** stay loaded over one configuration and one directory, and the plugin's
  own writes make the host reload it.

What makes each part correct:

- guard: it never switches off the last `min_enabled` accounts, never switches on what
  the operator switched off, puts everything back that it switched off, and can tell
  after any crash what it did; a dry run changes nothing; a write changes one entry;
- evidence: each request counts once, in the end, and the streak means what it says;
- scanner: no log is deleted before its fact is stored; no fact is stored twice; every
  channel becomes known;
- recorder: a record is on its way, stored, or counted as lost; a flush or a stop that
  returns has done its work; a query sees what was there;
- collector: what is shown as a total is one; failures lose nothing and end;
- parser: the fact is the last answer the client was served, whatever came before it;
- page: what it counts adds up, a channel it shows was measured, and the guard judges by
  the same one;
- lifecycle: a build has one guard at most and none once it is retired, the page shows the
  guard that runs, guards see each other and no ghosts, and reloads end.

## 2. Modules

| Module | Models | Abstract or composed of |
|---|---|---|
| `Guard` | decision logic as operators, no variable | |
| `GuardContract` | what the guard promises, without saying how | abstract specification |
| `AccountGuard` | the runner between configuration, state file and trail | extends `Guard`; implements `GuardContract` |
| `AccountGuardProofs` | theorems about `AccountGuard` | |
| `GuardEvidence` | `Advance` over single samples: late facts, the ring, the streaks decisions take away, restarts | extends `Guard`; justifies the batches `AccountGuard` uses |
| `GuardEvidenceProofs` | theorems about `GuardEvidence` | |
| `ChannelLog` | the request-log scanner and CPA's writes | |
| `ChannelLogProofs` | theorems about `ChannelLog` | |
| `Join` | which fact a record is shown, as both arrive and the facts are cached | |
| `JoinProofs` | theorems about `Join` | |
| `Recorder` | the usage recorder and its store | |
| `RecorderProofs` | theorems about `Recorder` | |
| `OfficialUsage` | the collector of Cline's usage records | |
| `PlanPoller` | the rounds of the subscription poller | |
| `PlanProofs` | theorems about `PlanPoller` and `OfficialUsage` | |
| `LogParser` | one request log, line by line, to one fact | |
| `Report` | facts from the logs joined to records of two schemas; the page's `Summary`, the guard's samples | extends `LogParser` |
| `ReportProofs` | theorems about `LogParser` and `Report` | |
| `Lifecycle` | loads, reconfigures, quiesces and crashes of two builds; the seeder; guard goroutines, snapshots and heartbeats | |
| `LifecycleProofs` | theorems about `Lifecycle` | |
| `MC*` | the instances TLC checks | |

`TypeOK` is a property of its own in `guard_faults` and `join_views`; elsewhere it is a
conjunct of an invariant a run checks (`CountedOnce`, `StoredFirst`, `QueuedAddsUp`,
`OwnAccount`, `NothingMissing`, `OffIsMeasured`, `OneWriter`).

### Guard and AccountGuard

An account is its position in CPA's configuration file, because `decide` walks the file
and earlier accounts reach the floor first; `uniqueAccounts` makes keys unique before
that. `NextRetryAt` is kept as the minutes left (`Never` is the nil pointer), so a run
may go on for ever; `disableCount` saturates at `CountCap`, which an assumption
(`SaturationAssumption`) puts past the point where the backoff has reached its cap.

A tick is a sequence of steps of one goroutine. Its memory is private, so everything
between two accesses to a file is one step:

| Action | Code |
|---|---|
| `Start`, `Stop`, `Gone` | `startAccountGuard`, `stopAccountGuard`: load the state; wait for the tick, save nothing |
| `Judge`, `JudgeUnread` | `tick` up to the decisions: `accounts` (the file, with pending writes laid over it: `View`), `reconcileOwnership`, `samples`, `Advance` |
| `Record` | `record`: append to the trail; an error is logged and the decision goes on |
| `ApplyRead`, `SaveBefore`, `WriteConfig`, `Verify` | `apply`: read again and edit a copy, save the state, rename the copy over the file, read back |
| `Checkpoint` | `maybeSave` |
| `Edit`, `HostTears`, `HostMends`, `LoseState`, `Elapse`, `Crash` | the operator; CPA in the middle of its own write; the state file lost; time; the process dies |

`offBy` observes who switched each entry off, and no code reads it: it is what the
promises are about. An entry the operator takes out while it is the guard's and puts
back disabled is still the guard's, for the code never drops the memory of an account
that has left the file.

`GuardContract` has one variable for that and one that counts the operator's edits.
`Contract` in `AccountGuard` is the refinement mapping; the operator's steps map to
`Operator`, a write to `Disable` or `Release`, everything else stutters. Because only
`Operator` may move `edits`, a runner that switched an operator's entry on would be no
implementation.

### GuardEvidence

Requests are numbered in the order of their time. `Make`, `Land`, `Pass` let them be
stored, get their channel, and leave the hour. Nothing asks for a request's account or
channel before its fact lands, so `Land` draws both.

| Action | Code |
|---|---|
| `Round` = `Begun`, `Count`, `Finish` | `tick`: `reconcileOwnership` the first time, then `Advance`, that is `count` over `Samples`, oldest first, with the ring of tokens, if the guard may judge (`canJudge`), and `decide`; the writes; the save |
| `RoundUnread` | the same after a read of the records that failed: none of its samples has a channel (`Report`), so none counts |
| `Restart`, `Edit`, `Elapse` | a new runner goes back to the state file, with other options perhaps; an entry is edited, added or taken out; a minute of the backoff |

`decide` is the operator of `Guard` that `AccountGuard` uses. It takes a streak away in three
places (`guard.go:371`, `393`, `402`): when it puts an account back, finds it put back, or
finds it switched off by somebody else (`Clears`). `cleared` observes which requests had
been counted by then, `times` how often each was. `StreakIsRun` says that the streak is what
an operator counts in the records since. `SummaryIsLoop` ties this loop to the one
batch per account `AccountGuard` draws: a round leaves the accounts as one batch and the same
decisions do.

What `AccountGuard` has in detail is small here: the trail says of each account what it
likes, the writes of a round are done with it (the overlay of pending writes shows
the runner its own decisions whether they reached the file or not), and the save is
the last thing in a round, if it is due and works.

### ChannelLog

A log is written in `NumChunks` appends, the routing block in the last one. A pass of
`ScanOnce` is `List`, then for each log `Info` (age), `Stat` (size again, seen set),
`Read` (parse; the size again), `Store` (append the fact, then the ring), `Unlink`, and
at the end `Prune`. CPA may append between any two of them. `quiet` says that a log has
not been modified for `MinAge`. Two variables observe: `paused`, the logs CPA paused in
for that long before their end, and `forgot`, that the seen set lacks the key of a stored
fact: it has dropped one, or never had it, for an append that fails may have left its fact
(`Close` reports an error after the line was written).

### Join

A request has one `story`: its time, by how much its log's timestamp is earlier, the
session and the counters both halves report, and whether the log has a channel. `Record`
and `Land` store the two halves in any order, `Land` a second time if the scanner died
before it unlinked the log. `Merge` is `loadFactFiles` and `mergeFacts` (files, plus what
only the ring has), `ViewLoads` and `ViewCached` a view with and without a load, `Matches`
the rule of `match`. Several facts as close in one session are a choice: the order of the
load decides. `Restart` empties ring and cache.

`JoinedOwn` says what `join.go:170-172` wants ("picking one of them would attach a
measured channel to the wrong request"), and needs three things the code takes for
granted: the record's own fact is loaded, its clock lag is inside the window of the path
it takes, and the turns of one session are further apart than the clocks are wrong.

### Recorder

One request thread per record is in one of four places of `ObserveUsage`; `writer` is
where `writeLoop` is. The counters of `Health` are the sets of records they counted,
except `queued`, which moves both ways. The store is the open file's day, whether its
name is still there, the buffer, and `bufio.Writer`'s sticky error; a failed flush
leaves a part of the buffer on disk and possibly half a line, which spoils the next
one. A reconfigure makes a new recorder over the same directory (`New`) while old
threads still hold the old one (`SendToOld`).

### OfficialUsage

A walk begins with a watermark, a cut-off and a page budget (`BeginWalk`), takes a page at a
time (`NextPage`, `FailPage`) and merges what it has (`Merge`); between pages Cline
publishes and the clock goes on. Ages and waits stop growing where the code stops
telling them apart. `asOf` and `cut` observe what Cline had published when the last kept
walk began, and whether this collector has kept a walk that was cut short. `twins` are
records published with the very time of the one before: the walk stops at the first
record not after the watermark, so a twin of it that came later is taken for known
(`TakenForKnown`).

### PlanPoller

A round is `Refresh` (which keys are there: each once, at most `MaxKeys`), then for every
key in turn `Merged`, or `Me`, `Limits` and `Daily`, one action per call to Cline, and the
last `Finish` publishes. `sources` is what the four places keys are found in list
together; `EditSources`, `Revoke` and `Restore` change it, and what Cline accepts, between
any two calls. `Owner` says which account a key belongs to, which the poller learns from
an answer to `Me` only. `covered` is `byUserID`. Totals are represented by the account
they were fetched for, which is what `OwnAccount` is about; `due` by whether an hour has
passed. `asked` and `restored` observe the round. A key that is not listed for one round
(the configuration file was unreadable, say) loses its state, totals included:
`FailureTakesNothing` compares two publications that both list it.

### LogParser

A line is a record of what each reader of the parser would get out of its text: the
section it opens, a session header, a time, a frame with its choices and counters, or
nothing; `fits` is FALSE for a line longer than the buffer. Which of them counts is
decided by `section`, as in `line`: `SectionLine`, `InfoLine`, `HeaderLine`, `FrameLine`,
`Unread`. `Open` is `open` with `closeResponse`, `WithFrame` is `frameLine`,
`Finish` is `finish` applied to the lines read so far, so the fact is checked for a log
that ends after any line. `log` observes the lines, and no action reads it:
`FactOfTheLog` says of the log, without a parser, what the fact has to be (the last
answer that carried a block, its last block, the last value of each counter; session and
time of their own sections only). The text of a line is not modelled.

### Report

`Report` reads one log line by line, lets its fact and the other requests' facts land
(`Lands`) and records be stored (`Records`) in any order, while the clock counts half hours
(`Tick`), so that an hour turns between the moment `Summary` takes its bounds
(`SummaryOpens`) and the moment it reads (`SummaryReads`). `Fetched` is what a read of the
records can give: all of them, those of the days before a file that cannot be opened, with
an error, or nothing and no error if the directory cannot be listed. `Summary` joins and
counts what it got in each case; `ChannelRecordsSince` joins nothing after an error
(`ChannelRecord`), and `GuardReads`, which is that and `guardSamples`, goes on with it. What a
reader says of a request is kept with whether it had a fact then (`known`) and whether the
reader looked for one (`joined`). `Decode` is `UnmarshalJSON`, which moves the
credential an old line has under the channel's names; `Seen` is `withChannel`;
`GatewayChannel` the method of that name. A block is what tells the readers apart: its
final and its resolved provider, and whether it has anything else. That a record gets its
own fact is what `Join` is about.

### Lifecycle

The unit of time is the guard's save interval, so every tick saves.

| Action | Code |
|---|---|
| `Load`, `Reload`, `Quiesce` with `Withdraw`, `StopReturns` | `LoadConfig` and `quiesce` as far as the guard goes: `stopAccountGuard` clears the active runner and the snapshot, closes the stop channel, waits, forgets the heartbeat |
| `SeedReads`, `SeedWrites`, `SeedFails` | `seedPluginConfigDefaults`: a key is missing, or the block is one it refuses; the write sets off a reload; one that fails is logged and leaves the file as it was or, if it failed in place, anything of it |
| `StartGuard`, `Started` | `startAccountGuard`: the first tick on the caller's goroutine, then the loop |
| `TickBegins`, `PublishesError`, `Publishes`, `Saves`, `LoopEnds` | `run` and `tick`: a tick that cannot read the configuration publishes and returns; one that can publishes, then saves and counts the heartbeats; the select may take a due tick although the stop channel is closed |
| `Touched`, `Kept`, `Live` | `TouchInstance`, `LiveInstances` (what is older than `Stale` is removed, what is older than the window or this build is not counted) |
| `Elapse`, `Edit`, `Hide`, `Unhide`, `Crash` | time, the file changed by others, unreadable for a while, the process killed and started again |

`blind` observes which runners have had a tick without the file since their last save,
`unwritten` that the seeder's last write failed.

## 3. Runs

Every run finishes in about two minutes with two workers. Deadlock is checked except where
the system may rest for good: a recorder with all records sent and nothing to stop, and a
page whose log is read, facts landed and clock at its bound.

| Run | Checks | Shows |
|---|---|---|
| `guard_contract` | `ImplementsContract`, `MinEnabledKept`, `OneEntryPerWrite` | under two edits, a stop and the clock, without failing calls, the runner implements the contract with its fairness: every account it switched off comes back |
| `guard_faults` | `TypeOK`, `KnownBeforeWrite`, `ClaimsMatchTrail`, `AdoptsOwnOnly`, `DryRunWritesNothing` | one failing call of any kind (a torn file included), one crash, one lost state file and one edit at any point, with a live, a dry and a switched-off configuration: the guard has put down what it does before it does it, the next runner claims it, and nothing of the operator's is adopted |
| `guard_retry` | `RetriedWrite` (violated) | a failed write is never repeated |
| `evidence_rounds` | `CountedOnce`, `StreakIsRun`, `SummaryIsLoop`, `EveryAnswerCounts` | facts in any order, rounds that switch off and put back, one edit, failed read or restart at any point: no request counts twice, none is forgotten, and the streak is what the records say |
| `channellog_read` | `StoredFirst`, `NoFactTwice`, `ChannelKnown` | a failure, a stop and a crash at any step; a failed append that left its fact or did not; logs unlinked or kept |
| `join_views` | `TypeOK`, `JoinedOwn`, `KnownIsShown` | two requests with any stories, facts late or stored twice, a cache, a restart |
| `recorder_life` | `QueuedAddsUp`, `AwaitedIsStored`, `StoredOrReported`, `QuerySeesAll`, `ReachesFile` | threads, writer, retention and a query, with any two of a stop with its successor, a disk that breaks and mends, and the query: who waits for the writer is told the truth, nothing disappears uncounted, a query without an error saw everything |
| `recorder_mended` | `MendedDiskWrites` (violated) | after one failed flush records fail on a disk that works |
| `poller_rounds` | `OwnAccount`, `OncePerAccount`, `FailureTakesNothing`, `AccountShown` | three keys of two accounts, lists that change, keys refused and accepted between two calls, a failing call, a reconfigure |
| `usage_walks` | `CoveredIsTotal`, `NothingMissing`, `Recovers` | publishing under a walk, two records of one time, failing pages, a reconfigure |
| `log_to_page` | `FactOfTheLog`, `TimelineAddsUp`, `OffIsMeasured`, `GuardAgreesWithPage` | every log of up to five lines, ending anywhere, and its fact on the way to the page and the guard, each of which may fail to read the records |
| `lifecycle_calls` | `OneWriter`, `NewestShown`, `NoFalseAlarm`, `LiveKept`, `OthersSeen`, `Settles` | two builds, three guards, any two of a load, a quiesce, an edit, a guard's write, a write of the seeder's that fails, a file that cannot be read, a crash |

**Bounds.** Two accounts suffice for the guard: what one account's decision can do to
another goes through the floor (with `minEnabled` 1, the second of two candidates of one
round is the one it must stop) and through the shared file. A threshold of one and a
batch of one reach it in a round; the backoff doubles once (1, 2) and is capped at the
second time. Two edits are needed to take an account back and switch it off again, or to
take an entry out and put it in. One fault, one crash and one loss together give every
pair of a failure and a restart. Four requests in an hour of two with a ring of three
make requests leave the hour, and the ring overflow, while others are late; a ring of two, which
holds the hour but not twice the hour less one, would count requests twice (sections 4 and 6).
Their guard judges with the default threshold of three, so that streaks of one, two and three
requests occur, and the third switches the account off; it is back a minute later. One
event in all (an edit, a failed read, a restart) comes at any point of that. Edits are of the
first account, for with one candidate in a round the two are alike. That a guard
which may not judge counts nothing is in the module and in the proofs; this run always
judges. Two logs of two chunks with a ring of
one and a seen set of two make both sets overflow. Two requests are what one can be
mistaken for another with; times three apart, a lag of none or two and windows of two
(exclusive) and three (inclusive) put a fact on either side of each boundary, and a
foreign one nearer or further than the own. Two records with a queue of one and a buffer
of two give a full queue, a forced flush and a change of day; a retention of two days
and a size cap of one delete the open file and an old one; `MaxEvents` 2 gives every pair of
disturbances, which one alone would not (a stop on a broken disk). Three keys with a limit of two give
a list that is too long, two keys of one account in both positions, and a key alone; two
changes let a key be refused and accepted again, or a list change under a refused key.
Four published records, one of them perhaps of the time of the one before, page size one
and budgets of two and three make a walk end at the horizon, at the watermark and at its
budget. Five lines are two answers with a frame each and an error, a stray text or a line
too long between them; the lines are one of each kind a section can open, and frames that
differ in where their block and which of their counters stands. The file that cannot be
opened is that of the second hour, so that a failed read may have got something or nothing.
A window of an hour and a
clock that runs one more turn the hour twice. Three guards are two that run and the one a
killed process left; a window of two and a removal at three put a heartbeat on either
side of each limit. Each module names its bounds in its
`CONSTANTS`, and each bound appears in the guard of the action it limits.

**Symmetry.** Only `log_to_page` uses it (requests are interchangeable, and its properties
are invariants).

**Observing variables.** `offBy`, `touched`, `times`, `ordered`, `paused`, `forgot`,
`early`, `wiped`, `asOf`, `cut`, `asked`, `restored`, `blind`, `cleared`, `unwritten`, `log`
and `known` and `joined` in `views` are not in the code. No guard reads them, with the
exception of `touched`, and of the length of `log`, which bounds it: the constant `Attentive` forbids an edit inside a tick and a
second edit of an entry the guard has not looked at since the first. `Attentive` is TRUE
where a property needs it (the whole-file rename of `writeConfigAtomic` does overwrite
such an edit) and FALSE in `guard_faults`.

**Fairness.** `AccountGuard`: the ticker ticks and a goroutine goes on with what it
began, the host starts what it stopped, CPA finishes a write, the clock runs. Nothing is
owed by the operator. `GuardEvidence`: rounds go on. `ChannelLog`: the poll loop goes
on, the host restarts the scanner, and a log nobody writes to becomes old.  `Recorder`:
threads finish their call and the writer goroutine runs; its flush timer needs strong
fairness, for Go's `select` chooses at random among the ready cases and the ticker's
case is ready again and again. `Join`: views go on and the cache grows old. `PlanPoller`: the poll loop goes on; that
keys and lists stop changing is not assumed, `AccountShown` lets go when they change.
`OfficialUsage`: time, beginning a walk when one is due,
and pages that answer; failures are bounded by `MaxErrors`, so "Cline answers again" is
what the bound says. `Lifecycle`: calls go on and return, goroutines and tickers run, the
clock runs, a file comes back; the end of a loop needs strong fairness, for its select may
take a due tick instead, and so does a reload, for the host follows the file but never has
two calls in one build. `Report` has no liveness property.

## 4. What is proved

Every theorem is about the specification a run checks, with the constants left open:
bounds on failures, edits, stops and crashes may be any numbers, and so no theorem is about
a short behaviour only. Liveness apart, every property of the passing runs is proved.

`AccountGuardProofs`, for any number of accounts, any set of configurations, any bounds
and any faults; the assumptions are those named in `Guard` and `AccountGuard` (types of
the constants, and that the capped counter is past the backoff's cap).

- `TypeCorrect`: `Spec => []TypeOK`. One lemma per action.
- `DryRun`: `Spec => DryRunWritesNothing`, under any fault, crash or edit.
- `OneEntry`: `Spec => OneEntryPerWrite` if `Attentive`.
- `FloorOfARound`: one evaluation of `decide` that disables anybody leaves at least
  `minEnabled` in-scope accounts enabled in what it sees. This is the arithmetic of the
  floor: the last account it disables saw `enabled - (earlier ones)` above the floor.
- `FloorKept`: `Spec => MinEnabledKept` if no read or write of the configuration fails,
  the file is never met torn and the operator is attentive (`Undisturbed`); crashes,
  lost state files, failing appends, saves and scans, stops and reconfigures are allowed.

The argument. None of these properties is inductive. `Inv` adds `RoundInv`: outside a
round there is nothing left to do; a decision to disable stands only while the runner may
judge and is not in dry run; past the read, the decision carried out is a disable or an
enable, the buffer has its value for that entry, and (if attentive) every other entry as
in the file. That carries a fact about the moment of the decision to the moment of the
write, several steps and any number of interruptions later. `FloorInv` adds that the
accounts enabled in the file, without those this round has still to disable, are at least
`minEnabled`; `FloorOfARound` establishes it in `Judge`, where the view equals the file
because nothing is pending, and each write moves one account from one side to the other.

The condition of `FloorKept` is not a convenience: with a write that fails, the floor
does not hold in the file (section 6).

- `KnownFirst`: `Spec => KnownBeforeWrite`. `KnownInv` carries the decision from the trail
  (`Record`) over the state file (`SaveBefore`) to the write: past the append, the last line
  of the account in hand is the decision, at the write the state file has it too.
- `TrailMatched`: `Spec => []ClaimsMatchTrail`. `QuietInv` says what a tick may rely on while
  no call has failed and nobody edits inside it: nothing is pending, the file is whole and
  says of every entry somebody switched off that there is somebody (`Attributed`), and of
  the decisions still to be carried out it says what it said when they were taken
  (`Landed`). From that, `ClaimInv`: once reconciled, what the trail says the guard holds, the
  memory holds, or the round is about to put it back.
- `OwnAdopted`: `Spec => AdoptsOwnOnly`. Two arguments, one per exemption. Without edits, an
  account the operator left off stays unknown to memory, state file and trail
  (`OperatorInv`), whatever fails or dies. With edits between ticks and nothing that goes
  wrong, what the trail gives to the guard is owned already, so that a later reconciliation has
  nothing to add (`OwnInv`, which ties memory, state file, trail and configuration to each
  other at every program counter).
- `ContractKept`: `Spec => Contract!Safety`, the initial states and every step of
  `GuardContract` under the mapping, if `Orderly`: the configuration is read and written
  without failures and edited between ticks only, the options of a run share scope and
  floor (the contract has one of each), and either nobody edits or nothing else goes wrong.
  Each disjunct is there for a behaviour in which the code does not keep the contract
  (section 6). The proof rests on all the invariants above: a write that switches off
  is a `Disable` because the account is nobody's and the floor holds (`FloorInv`), one that
  switches on a `Release` because the account is the guard's (`OwnInv`, `OperatorInv`).

- `RetryIsSet`: `Spec => [](Retried(st, M) /\ Retried(disk, M))` if every configuration retries
  within `M` minutes, under anything that may fail, die, be lost or be edited: what the guard
  claims, in memory and in the state file, it will put back, at most `M` minutes from now.
  `RetryStands`: `Spec => RetryNotPutOff`, no step defers that time for an account claimed before
  and after it. The memory of a process that is gone claims nothing (`NoMemory`), so a restart
  is the one thing that may set a later time.
- `TicksEnd`: a tick accesses a file five times at most for each account, and once to save
  (`Left`), whatever fails and whoever edits.

`GuardEvidenceProofs`, for any number of accounts, requests, requests in an hour and restarts,
from `EvidenceAssumption` (types); the first two for a ring that holds twice the hour's
requests, less one (`LongRing`):

- `CountsOnce`: `Spec => []CountedOnce`. `Ring`: what has been counted and is still in the hour is
  in the ring, and all that is in the ring has been counted once, in the memory and in the
  state file.
  `PushRing` says why the ring does not drive such a token out: its tokens differ
  and none is an hour older than one counted before it (`Spaced`), so that those behind a token
  of the hour are among at most `2 * Window - 1` requests, and the ring holds them all. A ring
  that is merely longer than the hour is not enough, and TLC shows it (a request that
  is counted late pushes its token in behind younger ones).
- `StreakIsRead`: `Spec => []StreakIsRun`. While facts land in order, a landed request of the
  hour that is older than a counted one has been counted too (`Runs`), so a new answer is the
  youngest and `RunGrows` says what it makes of the run; where `decide` takes a streak away, the
  run begins anew (`FinishRuns`). Edits, failed reads, restarts and guards that may not judge
  are in the theorem.
- `LoopIsSummary`: `Spec => SummaryIsLoop`, with any ring. `Summed` says it of every step of the loop: what
  one sample adds to an account is what it adds to the batch (`SummaryGrows`, `BatchGrows`), and
  what is decided is decided on the sum.

- `NoAnswerMissed`: `Spec => []RoundCountsAll`, with any ring. `Honest` says that what a memory takes for
  counted was counted, the state file's included; so a round of a guard that may
  judge counts every answer of the hour that is known and was not counted, of every account
  in the file, in whatever order the facts landed.

A loop over samples calls for an induction, which the library states with an operator as a
parameter. `EachStep` gets by without it: a set of numbers that is not empty has a
least one (`HasFirst`), so a step of the loop that fails has a first one. `LoopSteps` shows in
the same way that the recursive function exists.

`ChannelLogProofs`, for any number of logs and chunks, any caps of ring and seen set, and
any failures, stops and crashes, from `SizesAssumption` and `ChoicesAssumption`:

- `NoLogLost`: `Spec => []StoredFirst`. `StoreInv` adds what the five accesses to a file hand on
  to each other: a log that has been quiet is complete unless CPA paused in it (`QuietIsDone`);
  so is the one in hand at the size it was listed with, and before the unlink its fact at
  that size is stored (`InHand`). CPA may append between any two accesses, and the size
  read again is what rules out that it did.
- `FactsOnce`: `Spec => []NoFactTwice`. Whether an append makes a duplicate depends on the
  seen set, which is written after it: `OnceInv` says that every stored size is in the set,
  or in hand until the unlink (`AllSeen`), unless an append failed and left its fact
  (`forgot`), and that what is read and stored is in neither (`Fresh`).

- `PassesEnd`: a pass takes five steps at most for each log, and a prune (`StepsLeft`), for whatever
  cannot be read, stored or unlinked it goes on to the next log, and what CPA writes
  meanwhile does not bring one back.

`RecorderProofs`, for any finite set of records, any queue, buffer, retention and number
of recorders one after another, from `BoundsAssumption`:

- `QueuedIsRight`: `Spec => []QueuedAddsUp`. The counter is a cardinality: `Places` says that a
  record is in one place at most (`Distinct` queue, disjoint sets, the threads that have
  brought it there), so that each step moves one element and the counter by one.
- `NothingIsLost`, `WaitersAreTold`, `QueriesSeeAll`: `StoredOrReported`, `AwaitedIsStored` and
  `QuerySeesAll`. `Promised` has one conjunct per party that waits: who counted a record
  (`CountedKept`), the caller of `Flush`, the caller of `Stop`, the query. `RecInv` is what they
  rest on: a line is in the file of its record's day, a buffer belongs to one day, an open
  file without a name was deleted (`Filed`); while the disk has never failed, nothing is
  half-written (`Sound`). `FlushLeaves`, `PutLeaves`, `AppendKeeps` and `CleanKeeps` say what the store's
  operations leave of file and buffer, and every action uses them; they are stated for any
  store and files, so that they hold of the primed ones too.

- `FilesOnlyGrow`: `Spec => FiledStays`. What is on file leaves it with its day only, whatever the disk
  takes; `LinesStay` says it of the store's operations.
- `ReportedIsLost`, `NothingUncounted`: `Spec => []LossesAreReal`, `Spec => []HealthAddsUp`, under any
  failures and after a stop as well, where `NothingIsLost` is silent: no record that Health
  counts as lost is on file, and every request is counted as queued or as dropped.
  `LossInv` keeps the lost ones apart from all that may still reach a file (`Apart`): buffer,
  queue, the lines in a caller's hands.

`PlanProofs` has two parts. Of the poller, for any keys, users, lists and failures, from
`PollerAssumption`:

- `OwnIsShown`: `Spec => []OwnAccount`. `PollInv` says of every key, of its draft in the middle of
  its turn (`Drafted`) and of the snapshot that they name no account but the key's own;
  `RankTaken` and the lemmas on `syncAccounts` say that a list that changed keeps each key's
  state with its key.
- `NothingIsTaken`: `Spec => FailureTakesNothing`. A draft is refused only by its last call, or
  the key was accepted again since (`Drafted`); a key that is done kept its totals (`Settled`).
- `AskedOnce`: `Spec => []OncePerAccount`. `AskInv`: an account that was asked is covered, or it
  is its key's turn.

- `RoundsEnd`: a round makes three calls at most for every key (`CallsLeft`), refused and
  unanswered ones included.

Of the collector, for any page size, budgets, windows and retention, any number of records
and of failing pages, from `BudgetsAssumption` (types, and that the budget that extends the
coverage is not the shorter one) and `BackoffAssumption` (that powers of two are numbers):

- `NothingIsMissing`: `UsageSpec => []NothingMissing`. A record is known to a set if it is in it, too
  old, or has the time of an earlier one in it (`KnownTo`). `ItemsInv`: the collector knows all
  that there was when the last kept walk began, unless one was cut short. `WalkInv` says it of
  a walk under way: what it collected are the records from its cursor to the newest of its
  first page, and what is `Stale` (too old, or not after the watermark) is so with all that
  came before it, for times and ages are in the order of publication (`ClineInv`). So a walk
  that ends in full has passed every record it did not know (`PageEnds`, `MergeKnows`), whatever
  was published above its first page, and what the merge drops is too old (`KeptKnown`).
- `CoveredMeansTotal`: `UsageSpec => []CoveredIsTotal` if `Calm`. `NoHole`: from the oldest record kept
  up to where the last kept walk began, nothing is missing. A walk cut short at its budget
  keeps that, either because it had nothing to join on to, or because its budget reaches
  the watermark: what was published since the newest record kept fits into the steady
  budget (`Calm`, `NearEnd`), the pages a walk has left always reach from its cursor to the
  watermark (`GetsBack`), and the other budget is not smaller.

- `WalksEnd`: a walk under way has a page left to ask for, every page leaves it fewer, a failed one
  ends it; so it ends after `PagesExtend` pages at most.

`LifecycleProofs`, for any builds, a finite set of runners and any windows, from
`LifecycleAssumption` (a window of two saves at least, and a removal after it, as
`instance.go` has them):

- `LifecycleTypes`: `Spec => []TypeOK`.
- `OneWriterHolds`: `Spec => []OneWriter`. `CallInv` says for each stage of a call which one guard a
  build may have (`Mine`): its active one between calls, the one a call waits for inside.
- `NewestIsShown`: `Spec => []NewestShown`, from the same: the loop that ticks is the only one that can
  publish, and a load's first tick is over before the load is.
- `FalseAlarmsRuledOut`, `LiveIsKept`: `Spec => NoFalseAlarm`, `Spec => LiveKept`. `BeatInv` bounds
  ages: a heartbeat nobody is behind any more is older than every build that is loaded,
  and that of a guard that can read its configuration is one save old at most. That needs
  one more invariant, that the build the host reloads is loaded (`HostInv`).

- `CallsGoOn`: `Spec => []NobodyWaitsInVain /\ CallAdvances`. A stop waits only for a guard that was told
  to stop, a load only for its own guard's first tick; no call of a build is joined by
  another or taken back, and each has five stages at most.

`JoinProofs`, for any number of requests, any stories and any windows, from
`JoinAssumption` (types of the constants):

- `JoinTypes`: `Spec => []TypeOK`.
- `OwnChannel`: `Spec => []JoinedOwn`. `OwnIsMatched` is the heart of it: with the own fact
  among the candidates, it is strictly the closest of its session (`OtherDelta`), or it is
  the only one with its counters, or nothing is matched. `ShownMatches` carries that from
  the view to every later state: what is shown was matched among the facts still cached.

`ReportProofs` has two parts. Of the parser, for any lines, blocks, sessions and times and logs
of any length, from `ParserAssumption` (types of the constants):

- `ParserTypes`: `ParserSpec => []ParserTypeOK`.
- `FactIsSaid`: `ParserSpec => []FactOfTheLog`. The parser keeps one answer and the best so
  far; `FactInv` says which answers of the log these are: the one whose header still
  stands, and the last of the closed ones that had a block (`AnswerOf`). `GrownAnswer` and
  `SameAnswer` say what one line does to an answer, `ClosingAll` what closing the last one
  gives, which is the fact. Sets of lines have a last member (`HasLast`), which rests on the
  well-foundedness of the naturals.

Of the report, for any requests, names, window and clock, from `ParserAssumption` and
`ReportAssumption` (types, and that a window is not empty), all four properties of
`log_to_page`:

- `FactsOfTheLogs`: `Spec => []FactOfTheLog`, the parser among the other steps.
- `OffBaselineMeasured`, `GuardAgrees`: `Spec => []OffIsMeasured`, `Spec => []GuardAgreesWithPage`.
  A page speaks of the past: `ReportInv` ties what was rendered to facts and records of
  now, which works because neither is ever replaced (`Kept`), and because no record has a
  channel of its own once it is decoded (`RecordsInv`, `SeenIs`). Of what a read gave they use
  only that it is a part of the hour's records (`FetchedIsRecent`), and of one that failed
  that the guard then has no channel at all.
- `TimelineComplete`: `Spec => []TimelineAddsUp`. A request at or after the window's bound
  is of its hour or a later one (`HoursInOrder`).

Only model-checked: liveness (`ImplementsContract`'s fairness, `EveryAnswerCounts`,
`ChannelKnown`, `KnownIsShown`, `AccountShown`, `ReachesFile`, `Recovers`, `OthersSeen`,
`Settles`), which needs fairness and `ENABLED` and so is out of the prover's reach. What is
proved of it is the half that is safety: that the loops whose turns it counts on end
within a bound (`TicksEnd`, `PassesEnd`, `RoundsEnd`, `WalksEnd`, `CallsGoOn`), that a claimed
account has a time to be put back at (`RetryIsSet`, `RetryStands`), and that the next round
counts what it can (`NoAnswerMissed`). No run checks these, for they hold without fairness
and for every value of the constants. What TLC alone says of the safety properties is that
the situations they are about occur: every mutant of the code breaks its property.

What proving and rereading the code changed in the model, each where it was wrong or could
not be reasoned about:

- `KnownBeforeWrite` was an invariant on the state after the write, which a later loss of
  the state file breaks; it is about the write itself.
- `AdoptsOwnOnly` was checked where nothing is ever lost, so that a reconciliation had nothing
  to adopt; it now speaks of the behaviours in which one has.
- The refinement mapping named the owner of an entry in overlapping cases, of which TLC
  takes the first and a proof may not; `Owner` has disjoint ones.
- `Once` (each key where it is listed first) was a fold; `Firsts` and `Rank` say the same of
  positions.
- `Count` was a fold over the samples; `Loop` is a recursive function, of whose values a proof
  can speak. The ring was said to need more than the hour; it needs twice as much, less one.
- `StreakIsRun` was about the loop alone, without the decisions that take a streak away; the
  module now has the whole of `Advance`, and the property says since when it counts.
- `LiveKept` and `NoFalseAlarm` rest on the host reloading a build that is loaded, which the
  model had but said nowhere (`HostInv`).
- That a window which says it is covered is total needs the two budgets in their order; were
  the one that extends the coverage the shorter, a walk could end before the watermark.
  `BudgetsAssumption` now says so.

## 5. What is not modelled

- YAML and JSON text: that `SetEntryDisabled` keeps every other byte is left to the tests
  (`internal/hostconf/accounts_test.go`), the model changes one entry; so is where in the
  text the seeder inserts a key. What a line of a log decodes to is given in `LogParser`.
- Two guards that both decide over one configuration (`Lifecycle` has several guards, but
  not their decisions); a heartbeat that cannot be written, read or decoded (it is
  skipped) or removed: `stopAccountGuard` logs that (`accountguard.go:146-150`), and the
  heartbeat of a stopped guard may then count as another's for a window, so that `NoFalseAlarm`
  is about a directory whose files can be removed; in `AccountGuard`, the in-place fallback
  of `writeConfigAtomic`; the limit of `RecentAudit` to 500
  lines; what the snapshot says of each account.
- In the join: the cap of 40000 facts, and records whose counters differ from their log's
  (they find no partner).
- In the scanner's store: a failed append may leave half a line, which spoils the next
  fact (`channellog/store.go:64-67`); `ChannelLog` lets a failed append leave the whole fact
  or nothing. The same in the recorder's store is modelled.
- In the recorder: its disk fails at writes only. A directory that cannot be listed is an
  empty one for a query, without an error (`observation/store.go:262-268`); `Report` has
  that, `QuerySeesAll` does not.
- In the lifecycle: failing writes of the seeder without an end. One that fails in place at
  every load, having changed the file, would set off reloads for ever; `MaxEvents` bounds
  how many fail.
- In the aggregation: sums of tokens and cost, percentiles, the rows by model and
  credential, the layout of the CSV. In the collector: the sums per window and model and
  the bound on items. Neither has state or order the other properties depend on.
- In the lifecycle: the order in which `LoadConfig` replaces the other components; each
  one's own stop and start is in its module.
- Management pages (they render what the others publish), the configuration's parsing, cgo
  glue and asynchronous logging, the probe command (a one-shot diagnostic).

## 6. Where the code and its documentation disagree

Two are runs TLC must find violated, and the findings quote the lines: `guard_retry` and
`recorder_mended`. The others were met as counterexamples while the
properties were written; each is an exemption in the property named, so that the property
holds for the rest:

| Where | What the code does | Exempt in |
|---|---|---|
| `accountguard.go:213` | the floor counts an account whose enabling write failed as enabled, so the last one that is on may be switched off, although the README (338, 151) promises one that stays | `MinEnabledKept` runs without write faults |
| `accountguard.go:394` | a decision whose audit line failed is carried out, although `accountguard.go:391-393` says it must not be | `KnownBeforeWrite`, `ClaimsMatchTrail` (`faults = 0`) |
| `accountguard.go:441-447` | an enabling write that fails, or a crash between the save and the write, leaves an account off for good: memory and trail both say it was put back (README 331, 364) | `ImplementsContract` runs without faults and crashes |
| `accountguard.go:241` | a first tick that meets a half-written file ends the reconciliation without having seen an account (README 364-366) | `ClaimsMatchTrail` (`faults = 0`) |
| `guard.go:219` | an account the operator switched on and off again while no runner looked is adopted, although the README (367) says the guard leaves the operator's alone | `AdoptsOwnOnly` (`edits = 0`, or edits between ticks and nothing else that goes wrong) |
| `guard.go:354` | a guard that is switched off goes on putting accounts back; the README (495) says it does not | none claims it: `DryRunWritesNothing` is about switching off |
| `guard.go:497` | the ring of 4096 is not bounded by the hour's requests: with more than 2048 of them a request may be counted again when others land late, with more than 4096 every round counts again (README 348; `guard.go:36-38` says a fixed ring is enough) | `CountedOnce` runs, and is proved, with `SeenLimit >= 2 * Window - 1` |
| `guard.go:303` | a baseline answer whose fact lands late resets the streak of younger requests (README 497) | `StreakIsRun` (`ordered`) |
| `channellog.go:447` | a log CPA pauses in for `MinAge` is parsed half, stored and unlinked, which `channellog.go:452-454` says the size checks exclude | `StoredFirst`, `ChannelKnown` (`paused`) |
| `channellog.go:354` | more kept logs than the seen set holds are stored again and again (`channellog.go:231-234`) | `NoFactTwice` (`forgot`) |
| `join.go:200` | a record whose own fact is not loaded yet takes another's if that is the only one with its counters, or the only one of its session in the window, although `join.go:170-172` says ambiguity is not evidence; a guard that samples in that moment counts the wrong channel | `JoinedOwn` (`cached[r] > 0`) |
| `factsource.go:152` | a fact stored twice (a crash before the unlink) makes its own counters ambiguous for good, although `factsource.go:138-140` says one request must be joined once | `KnownIsShown` (`stored[r] = 2`) |
| `factsource.go:60` | the facts are cached across queries for five seconds, although `join.go:102-104` says they are not | none: `KnownIsShown` waits for the next load |
| `observation.go:449` | a record sent after a stop's last drain is lost and not counted (README 268) | `StoredOrReported` (`~stopping`) |
| `store.go:125` | records in a buffer whose flush fails were counted as written, and no counter takes that back (`store.go:23-25`) | `StoredOrReported` (`breaks = 0`) |
| `store.go:222` | the size cap may delete the open file; what follows on that day goes into a file without a name | `Outlived` (`wiped`) |
| `plan.go:539` | a key is skipped as a duplicate of an earlier one of its account although that one, accepted once, is refused now: after a key is replaced, the account stays unavailable until the old key is taken out (README 215 speaks of duplicate fetches only) | `AccountShown` (`Reachable`) |
| `plan.go:570`, `592` | a key refused by the first call and accepted by the next is published as available and rejected, and the page hides it (README 218) | `FailureTakesNothing` (`restored`) |
| `official_usage.go:619` | a walk that fails after a page leaves a gap nobody goes back to, and the window says `covered` (`official_usage.go:173-174`) | `CoveredIsTotal` (`errors = 0`) |
| `official_usage.go:620` | an account younger than the window counts as covered although its walk was cut short | `CoveredIsTotal` (`~cut`) |
| `official_usage.go:476` | a walk cut short at its budget is never continued: the next stops at the watermark, although `official_usage.go:27-28` says coverage grows over a few cycles | `CoveredIsTotal`, `NothingMissing` (`cut`) |
| `official_usage.go:475` | a record with the very time of the watermark, published after it was read, is taken for known | `NothingMissing` (`TakenForKnown`) |
| `aggregate.go:131` | a request whose log names only a slug or a pinned provider counts as resolved, that is as one that carries a real channel, and has none | `OffIsMeasured` (no row is asked of it) |
| `accountguard.go:33-34` | a request whose log names only the resolved provider is off the baseline on the page, and has no channel for the guard, which is said never to disagree | `OffIsMeasured`, `GuardAgreesWithPage` (`fact[r].final = Unknown`) |
| `observation.go:776`, `store.go:319` | a read of the records that fails at one file hands the guard those of the earlier days without their channels, and it goes on with them (`accountguard.go:340-346`), while the page joins the same records: they disagree, although `accountguard.go:33-34` and `330-331` say they never do. The guard then counts nothing, and counts the same requests at the next read that works | `GuardAgreesWithPage` (`joined`) |
| `channellog/store.go:68` | an append that fails when the file is closed, after its line was written, is taken for not done: the log is parsed and stored again | `NoFactTwice` (`forgot`) |
| `aggregate.go:173`, `185` | a request of an hour that begins after `Summary` has taken its bounds is counted and stands at no point of the timeline | `TimelineAddsUp` (`page.now`) |
| `accountguard.go:134-140` | `stopAccountGuard` unpublishes the snapshot before the goroutine is gone, and a tick in flight publishes it again: after a quiesce the page may go on showing it | `NewestShown` speaks of loads |
| `accountguard.go:555-556` | the instance count is said never to be older than the state it is published with, but a tick publishes before it saves and counts, so the count is the one of the tick that saved before | none: `NoFalseAlarm` and `OthersSeen` are about the count itself |

## 7. Plan

Done: `Guard`, `GuardContract`, `AccountGuard`, `GuardEvidence`, `ChannelLog`,
`Join`, `Recorder`, `OfficialUsage`, `PlanPoller`, `LogParser`, `Report`, `Lifecycle`, and the
proofs above.

Next, in this order:

1. Two runners that decide over one configuration and state file, inside `AccountGuard`'s
   environment.
2. Half lines in the scanner's fact files, after `append` of `ChannelLog`.
