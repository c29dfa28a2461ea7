------------------------------- MODULE Lifecycle -------------------------------
(***************************************************************************)
(* The lifecycle of the plugin and the heartbeats of its guards:           *)
(* plugin/plugin.go, plugin/plugindefaults.go, guard/instance.go, and the  *)
(* start, stop and publish of plugin/accountguard.go.  The host keeps an   *)
(* old build loaded beside its replacement, each with its own package      *)
(* state, over one configuration file and one store directory; it reloads  *)
(* the current build whenever the file changes, the plugin's own writes    *)
(* included.  It never has two calls in one build at a time.               *)
(*                                                                         *)
(* A unit of time is the guard's save interval, so that every tick saves.  *)
(* Ages stop growing where the code stops telling them apart.              *)
(***************************************************************************)
EXTENDS Integers, FiniteSets

CONSTANTS
    Builds,
    Runners,       \* the ids a runner may have; one is used again once nothing has it
    NoOne,
    Window,        \* accountGuardInstanceWindow
    Stale,         \* instanceStaleAfter
    MaxEvents      \* how often the environment acts: calls that no change of the
                   \* file asks for, changes that are not the seeder's, writes of
                   \* the seeder's that fail, spells without the file, crashes

ASSUME LifecycleAssumption ==
    /\ Builds # {} /\ IsFiniteSet(Runners) /\ NoOne \notin Runners
    /\ {Window, Stale} \subseteq Nat /\ 2 <= Window /\ Window < Stale
    /\ MaxEvents \in Nat

NoAge == Stale + 2

VARIABLES
    boot,        \* how long each build has been loaded; NoAge: it is not
    call,        \* where LoadConfig or quiesce is, per build
    goal,        \* which of the two it is, or was
    current,     \* the build the host reloads
    active,      \* accountGuardActive
    leaving,     \* the runner stopAccountGuard waits for
    published,   \* whose snapshot state.AccountGuard returns
    owner, loop, \* the build of each runner, and where its goroutine is
    stopped,     \* runners whose stop channel is closed
    since,       \* how long ago the runner's last tick began
    beat,        \* the age of LastSeen in its heartbeat file; NoAge: no file
    count,       \* how many heartbeats it found when it saved last
    keys,        \* of the file: whether it has every key the panel shows
    readable, reload,
    unwritten,   \* the seeder's last write failed (observes)
    blind,       \* runners that have had a tick without the file since (observes)
    events

runner   == <<owner, loop, stopped, since, beat, count, blind>>
host     == <<boot, current>>
lifecycle == <<call, goal, active, leaving>>
file     == <<keys, readable, reload, unwritten>>
vars     == <<host, lifecycle, published, runner, file, events>>

Event == events < MaxEvents /\ events' = events + 1

Ticking == {"ticking", "saving"}
Alive   == {i \in Runners : loop[i] # "none"}
Of(b)   == {i \in Alive : owner[i] = b}

\* "refused": the block is missing, or of a shape the seeder does not edit.
Keys == {"all", "missing", "refused"}

\* What holds of the process when it has just loaded build b, and is in the first
\* call: there is nothing to stop.
Only(b, here, elsewhere) == [c \in Builds |-> IF c = b THEN here ELSE elsewhere]
Nobody                   == [b \in Builds |-> NoOne]
AllRunners(value)        == [i \in Runners |-> value]

Init ==
    /\ current = CHOOSE b \in Builds : TRUE
    /\ boot = Only(current, 0, NoAge)
    /\ call = Only(current, "seeding", "none") /\ goal = Only(current, "load", "quiesce")
    /\ active = Nobody /\ leaving = Nobody /\ published = Nobody
    /\ owner = AllRunners(NoOne) /\ loop = AllRunners("none") /\ stopped = {}
    /\ since = AllRunners(0) /\ beat = AllRunners(NoAge) /\ count = AllRunners(0)
    /\ keys \in Keys /\ readable = TRUE /\ reload = FALSE
    /\ unwritten = FALSE /\ blind = {} /\ events = 0

-----------------------------------------------------------------------------
(* Calls of the host *)

WithdrawNot(b, to) ==   \* mutated form: a quiesce leaves the guard running
    /\ call[b] = "none" /\ goal' = [goal EXCEPT ![b] = to]
    /\ call' = [call EXCEPT ![b] = IF to = "load" THEN "stopping" ELSE @]
    /\ leaving' = [leaving EXCEPT ![b] = IF to = "load" THEN active[b] ELSE @]
    /\ active' = [active EXCEPT ![b] = NoOne]
    /\ published' = [published EXCEPT ![b] = NoOne]
    /\ stopped' = stopped \cup (IF to = "load" THEN {active[b]} \ {NoOne} ELSE {})
    /\ UNCHANGED <<owner, loop, since, beat, count, blind>>

\* stopAccountGuard up to the wait for the goroutine: the snapshot goes first.
Withdraw(b, to) ==
    /\ call[b] = "none" /\ goal' = [goal EXCEPT ![b] = to]
    /\ call' = [call EXCEPT ![b] = "stopping"]
    /\ leaving' = [leaving EXCEPT ![b] = active[b]]
    /\ active' = [active EXCEPT ![b] = NoOne]
    /\ published' = [published EXCEPT ![b] = NoOne]
    /\ stopped' = stopped \cup ({active[b]} \ {NoOne})
    /\ UNCHANGED <<owner, loop, since, beat, count, blind>>

\* The host loads a build, or reconfigures the one it has.
Load(b) ==
    /\ Event
    /\ boot' = [boot EXCEPT ![b] = IF @ = NoAge THEN 0 ELSE @]
    /\ current' = b /\ Withdraw(b, "load")
    /\ reload' = IF b = current THEN FALSE ELSE reload
    /\ UNCHANGED <<keys, readable, unwritten>>

\* plugin.quiesce and plugin.shutdown, as HandleMethod answers them.
Quiesce(b) ==
    /\ Event
    /\ boot[b] # NoAge /\ Withdraw(b, "quiesce")
    /\ UNCHANGED <<boot, current, file>>

\* The file has changed.
Reload ==
    /\ reload /\ reload' = FALSE
    /\ Withdraw(current, "load")
    /\ UNCHANGED <<host, keys, readable, unwritten, events>>

StopUnawaited(b) ==   \* mutated form: the call does not wait for the goroutine
    /\ call[b] = "stopping"
    /\ beat' = [i \in Runners |-> IF i = leaving[b] THEN NoAge ELSE beat[i]]
    /\ leaving' = [leaving EXCEPT ![b] = NoOne]
    /\ call' = [call EXCEPT ![b] = IF goal[b] = "load" THEN "seeding" ELSE "none"]
    /\ UNCHANGED <<host, goal, active, published, owner, loop, stopped, since, count, blind, file,
                   events>>

\* The goroutine is gone: ForgetInstance.
StopReturns(b) ==
    /\ call[b] = "stopping" /\ leaving[b] \notin Alive
    /\ beat' = [i \in Runners |-> IF i = leaving[b] THEN NoAge ELSE beat[i]]
    /\ leaving' = [leaving EXCEPT ![b] = NoOne]
    /\ call' = [call EXCEPT ![b] = IF goal[b] = "load" THEN "seeding" ELSE "none"]
    /\ UNCHANGED <<host, goal, active, published, owner, loop, stopped, since, count, blind, file,
                   events>>

MissingAlways == readable   \* mutated form: the file is written whether it changes or not

Missing == readable /\ keys = "missing"

\* seedPluginConfigDefaults reads the file, and writes it if a key is missing.
SeedReads(b) ==
    /\ call[b] = "seeding"
    /\ call' = [call EXCEPT ![b] = IF Missing THEN "writing" ELSE "starting"]
    /\ UNCHANGED <<host, goal, active, leaving, published, runner, file, events>>

SeedWrites(b) ==
    /\ call[b] = "writing" /\ call' = [call EXCEPT ![b] = "starting"]
    /\ keys' = "all" /\ reload' = TRUE /\ unwritten' = FALSE
    /\ UNCHANGED <<host, goal, active, leaving, published, runner, readable, events>>

\* It logs a write that fails, and that is all.  One that failed in place, where the file
\* cannot be renamed over, may have left anything of it.
SeedFails(b) ==
    /\ call[b] = "writing" /\ call' = [call EXCEPT ![b] = "starting"]
    /\ Event /\ unwritten' = TRUE
    /\ \/ UNCHANGED <<keys, reload>>
       \/ keys' \in Keys /\ reload' = TRUE
    /\ UNCHANGED <<host, goal, active, leaving, published, runner, readable>>

\* An id nothing has: neither a goroutine nor a file nor a snapshot.
Unused == {i \in Runners : /\ loop[i] = "none" /\ beat[i] = NoAge
                           /\ \A b \in Builds : i \notin {leaving[b], published[b]}}

\* startAccountGuard up to the tick it makes itself.
StartGuard(b) ==
    /\ call[b] = "starting"
    /\ \E i \in Unused : (\A j \in Unused : i <= j) /\
         /\ call' = [call EXCEPT ![b] = "first"]
         /\ leaving' = [leaving EXCEPT ![b] = i]
         /\ owner' = [owner EXCEPT ![i] = b] /\ loop' = [loop EXCEPT ![i] = "ticking"]
    /\ UNCHANGED <<host, goal, active, published, stopped, since, beat, count, blind, file, events>>

\* That tick is over, and the goroutine is started.
Started(b) ==
    /\ call[b] = "first" /\ loop[leaving[b]] = "rest"
    /\ call' = [call EXCEPT ![b] = "none"]
    /\ active' = [active EXCEPT ![b] = leaving[b]]
    /\ leaving' = [leaving EXCEPT ![b] = NoOne]
    /\ UNCHANGED <<host, goal, published, runner, file, events>>

-----------------------------------------------------------------------------
(* A runner's goroutine.  Its select may take a tick that is due although the
   stop channel is closed. *)

InFirst(i) == \E b \in Builds : call[b] = "first" /\ leaving[b] = i

TickBegins(i) ==
    /\ loop[i] = "rest" /\ since[i] > 0 /\ ~ InFirst(i)
    /\ loop' = [loop EXCEPT ![i] = "ticking"] /\ since' = [since EXCEPT ![i] = 0]
    /\ UNCHANGED <<host, lifecycle, published, owner, stopped, beat, count, blind, file, events>>

\* A tick that reads no configuration publishes that and is over.
PublishesError(i) ==
    /\ loop[i] = "ticking" /\ ~ readable
    /\ published' = [published EXCEPT ![owner[i]] = i]
    /\ loop' = [loop EXCEPT ![i] = "rest"] /\ blind' = blind \cup {i}
    /\ UNCHANGED <<host, lifecycle, owner, stopped, since, beat, count, file, events>>

\* A tick that decides something writes the file before it publishes.
Publishes(i) ==
    /\ loop[i] = "ticking" /\ readable
    /\ \/ UNCHANGED <<file, events>>
       \/ Event /\ reload' = TRUE /\ UNCHANGED <<keys, readable, unwritten>>
    /\ published' = [published EXCEPT ![owner[i]] = i]
    /\ loop' = [loop EXCEPT ![i] = "saving"]
    /\ UNCHANGED <<host, lifecycle, owner, stopped, since, beat, count, blind>>

\* Heartbeats that are there once i has touched its own, and not too old.
Touched(i) == [beat EXCEPT ![i] = since[i]]

KeptIfLive(i) ==   \* mutated form: what is older than this build is removed as well
    [j \in Runners |-> IF Touched(i)[j] > boot[owner[i]] THEN NoAge ELSE Touched(i)[j]]

Kept(i) == [j \in Runners |-> IF Touched(i)[j] > Stale THEN NoAge ELSE Touched(i)[j]]

LiveInWindow(i) ==   \* mutated form: a heartbeat may be older than this build
    {j \in Runners : Kept(i)[j] <= Window}

\* LiveInstances, for the build of i.
Live(i) == {j \in Runners : Kept(i)[j] <= Window /\ Kept(i)[j] <= boot[owner[i]]}

SavesFirst(i) ==   \* mutated form: the heartbeats are counted once
    /\ loop[i] = "saving" /\ loop' = [loop EXCEPT ![i] = "rest"]
    /\ beat' = Kept(i)
    /\ count' = [count EXCEPT ![i] = IF @ = 0 THEN Cardinality(Live(i)) ELSE @]
    /\ blind' = blind \ {i}
    /\ UNCHANGED <<host, lifecycle, published, owner, stopped, since, file, events>>

Saves(i) ==
    /\ loop[i] = "saving" /\ loop' = [loop EXCEPT ![i] = "rest"]
    /\ beat' = Kept(i) /\ count' = [count EXCEPT ![i] = Cardinality(Live(i))]
    /\ blind' = blind \ {i}
    /\ UNCHANGED <<host, lifecycle, published, owner, stopped, since, file, events>>

LoopEnds(i) ==
    /\ loop[i] = "rest" /\ i \in stopped
    /\ loop' = [loop EXCEPT ![i] = "none"] /\ owner' = [owner EXCEPT ![i] = NoOne]
    /\ stopped' = stopped \ {i} /\ blind' = blind \ {i}
    /\ since' = [since EXCEPT ![i] = 0] /\ count' = [count EXCEPT ![i] = 0]
    /\ UNCHANGED <<host, lifecycle, published, beat, file, events>>

-----------------------------------------------------------------------------
(* What happens around them *)

Older(age, cap) == IF age = NoAge THEN age ELSE IF age < cap THEN age + 1 ELSE cap

Aged ==
    /\ beat' = [i \in Runners |-> Older(beat[i], Stale + 1)]
    /\ boot' = [b \in Builds |-> Older(boot[b], Window + 1)]

\* No tick is later, or takes longer, than a save interval, and what a call does
\* but for its wait takes no time.
Elapse ==
    /\ \A i \in Alive : since[i] = 0
    /\ \A b \in Builds : call[b] \in {"none", "stopping"}
    /\ since' = [i \in Runners |-> IF i \in Alive THEN since[i] + 1 ELSE 0]
    /\ Aged
    /\ UNCHANGED <<current, lifecycle, published, owner, loop, stopped, count, blind, file,
                   events>>

\* The operator or the host changes the file, its keys and their shape among it.
Edit ==
    /\ Event
    /\ keys' \in Keys /\ reload' = TRUE
    /\ UNCHANGED <<host, lifecycle, published, runner, readable, unwritten>>

\* The file cannot be read for a while; when it can, it has changed.
Hide ==
    /\ readable /\ Event
    /\ readable' = FALSE
    /\ UNCHANGED <<host, lifecycle, published, runner, keys, reload, unwritten>>

Unhide ==
    /\ ~ readable /\ readable' = TRUE /\ reload' = TRUE
    /\ UNCHANGED <<host, lifecycle, published, runner, keys, unwritten, events>>

\* The process is killed, and the host, back a while later, loads the build again.
Crash ==
    /\ Event /\ reload' = FALSE
    /\ beat' = [i \in Runners |-> Older(beat[i], Stale + 1)]
    /\ boot' = Only(current, 0, NoAge)
    /\ call' = Only(current, "seeding", "none") /\ goal' = Only(current, "load", "quiesce")
    /\ active' = Nobody /\ leaving' = Nobody /\ published' = Nobody
    /\ owner' = AllRunners(NoOne) /\ loop' = AllRunners("none") /\ stopped' = {}
    /\ since' = AllRunners(0) /\ count' = AllRunners(0) /\ blind' = {}
    /\ UNCHANGED <<current, keys, readable, unwritten>>

Call(b) ==
    \/ StopReturns(b) \/ SeedReads(b) \/ SeedWrites(b) \/ SeedFails(b)
    \/ StartGuard(b) \/ Started(b)
Loop(i) == TickBegins(i) \/ PublishesError(i) \/ Publishes(i) \/ Saves(i)

Next ==
    \/ \E b \in Builds : Load(b) \/ Quiesce(b) \/ Call(b)
    \/ \E i \in Runners : Loop(i) \/ LoopEnds(i)
    \/ Reload \/ Elapse \/ Edit \/ Hide \/ Unhide \/ Crash

Spec == Init /\ [][Next]_vars

\* Go runs its goroutines and its tickers, a select takes each case that is ready
\* again and again in the end, and the host, outside src/, follows the file.
Fairness ==
    /\ \A b \in Builds : WF_vars(Call(b))
    /\ \A i \in Runners : WF_vars(Loop(i)) /\ SF_vars(LoopEnds(i))
    /\ WF_vars(Elapse) /\ WF_vars(Unhide) /\ SF_vars(Reload)

FairSpec == Spec /\ Fairness

-----------------------------------------------------------------------------
(* Properties *)

Ages == 0 .. NoAge

TypeOK ==
    /\ boot \in [Builds -> Ages] /\ current \in Builds
    /\ call \in [Builds -> {"none", "stopping", "seeding", "writing", "starting", "first"}]
    /\ goal \in [Builds -> {"load", "quiesce"}]
    /\ {active, leaving, published} \subseteq [Builds -> Runners \cup {NoOne}]
    /\ owner \in [Runners -> Builds \cup {NoOne}]
    /\ loop \in [Runners -> {"none", "rest"} \cup Ticking]
    /\ {stopped, blind} \subseteq SUBSET Runners
    /\ since \in [Runners -> Ages] /\ beat \in [Runners -> Ages]
    /\ count \in [Runners -> 0 .. Cardinality(Runners)]
    /\ keys \in Keys /\ {readable, reload, unwritten} \subseteq BOOLEAN

\* With every variable in its type: a build never has two guards, nor a guard while
\* its seeder is at the file, and none is left when a quiesce has returned: a retired
\* instance writes nothing (plugin.go:269-275).
OneWriter ==
    /\ TypeOK
    /\ \A b \in Builds :
        /\ Cardinality(Of(b)) <= 1
        /\ call[b] \in {"seeding", "writing", "starting"} => Of(b) = {}
        /\ call[b] = "none" /\ goal[b] = "quiesce" => Of(b) = {}

\* Once a load has returned, the page shows the guard that is running, and no
\* snapshot of its predecessor's last tick.
NewestShown ==
    \A b \in Builds : call[b] = "none" /\ goal[b] = "load" =>
        active[b] # NoOne /\ published[b] = active[b]

\* More guards are reported than there are only while one is being stopped, never
\* for what a killed process left behind.
NoFalseAlarm ==
    [][\A i \in Runners : Saves(i) =>
          count'[i] <= Cardinality(Alive \cup ({leaving[b] : b \in Builds} \ {NoOne}))]_vars

\* The heartbeat of a runner that is alive and can read its configuration is
\* never taken for a dead one's (instance.go:29-32).
LiveKept ==
    [][\A i \in Alive : beat'[i] = NoAge /\ beat[i] # NoAge => i \in blind]_vars

\* Guards that go on running beside each other are seen by each of them.
Running == Alive \ stopped
OthersSeen ==
    Cardinality(Running) > 1
        ~> (\A i \in Running : count[i] > 1) \/ Cardinality(Running) <= 1 \/ ~ readable

\* Every call returns, and what the seeder writes sets off no endless chain of reloads: in
\* the end nothing moves, and the panel has its keys unless the seeder's last write failed
\* (plugindefaults.go:106-112; the next load tries again) or the file is not one it edits.
\* MaxEvents bounds the guard's own writes, and those of the seeder that fail.
Settles ==
    <>[](/\ ~ reload /\ \A b \in Builds : call[b] = "none"
         /\ keys = "missing" => unwritten)
=============================================================================
