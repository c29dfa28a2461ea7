--------------------------- MODULE LifecycleProofs ----------------------------
(***************************************************************************)
(* What TLAPS proves of Lifecycle, for any number of builds and runners,   *)
(* any window and any number of calls, edits, crashes and spells without   *)
(* the file.                                                               *)
(***************************************************************************)
EXTENDS Lifecycle, FiniteSetTheorems, TLAPS

USE LifecycleAssumption

-----------------------------------------------------------------------------
(* Types *)

LEMMA OlderType ==
    ASSUME NEW age \in Ages, NEW cap \in 0 .. Stale + 1
    PROVE  /\ Older(age, cap) \in Ages
           /\ Older(age, cap) = NoAge <=> age = NoAge
  BY DEF Older, Ages, NoAge

LEMMA InitType == Init => TypeOK
<1> SUFFICES ASSUME Init PROVE TypeOK
  OBVIOUS
<1>1. current \in Builds
  BY DEF Init
<1>2. 0 \in Ages /\ NoAge \in Ages
  BY DEF Ages, NoAge
<1>3. boot \in [Builds -> Ages]
  BY <1>2 DEF Init, Only
<1>4. /\ call \in [Builds -> {"none", "stopping", "seeding", "writing", "starting", "first"}]
      /\ goal \in [Builds -> {"load", "quiesce"}]
  BY DEF Init, Only
<1>5. {active, leaving, published} \subseteq [Builds -> Runners \cup {NoOne}]
  BY DEF Init, Nobody
<1>6. /\ owner \in [Runners -> Builds \cup {NoOne}]
      /\ loop \in [Runners -> {"none", "rest"} \cup Ticking]
  BY DEF Init, AllRunners
<1>7. since \in [Runners -> Ages] /\ beat \in [Runners -> Ages]
  BY <1>2 DEF Init, AllRunners
<1>8. count \in [Runners -> 0 .. Cardinality(Runners)]
  BY FS_CardinalityType DEF Init, AllRunners
<1> QED
  BY <1>1, <1>3, <1>4, <1>5, <1>6, <1>7, <1>8 DEF Init, TypeOK

\* The heartbeats a save leaves, and how many of them it counts.
LEMMA KeptType ==
    ASSUME TypeOK, NEW i \in Runners
    PROVE  /\ Kept(i) \in [Runners -> Ages]
           /\ Live(i) \in SUBSET Runners
           /\ Cardinality(Live(i)) \in 0 .. Cardinality(Runners)
<1>1. Touched(i) \in [Runners -> Ages]
  BY DEF TypeOK, Touched
<1>2. Kept(i) \in [Runners -> Ages]
  BY <1>1 DEF Kept, Ages, NoAge
<1>3. Live(i) \in SUBSET Runners
  BY DEF Live
<1> QED
  BY <1>2, <1>3, FS_Subset, FS_CardinalityType

LEMMA AgedType ==
    ASSUME TypeOK, Aged
    PROVE  beat' \in [Runners -> Ages] /\ boot' \in [Builds -> Ages]
<1>1. Stale + 1 \in 0 .. Stale + 1 /\ Window + 1 \in 0 .. Stale + 1
  OBVIOUS
<1> QED
  BY <1>1, OlderType DEF TypeOK, Aged

FileType == keys \in Keys /\ {readable, reload, unwritten} \subseteq BOOLEAN

LEMMA WithdrawType ==
    ASSUME TypeOK, NEW b \in Builds, NEW to \in {"load", "quiesce"}, Withdraw(b, to),
           current' \in Builds, boot' \in [Builds -> Ages],
           FileType'
    PROVE  TypeOK'
<1>1. {active', leaving', published'} \subseteq [Builds -> Runners \cup {NoOne}]
  BY DEF Withdraw, TypeOK
<1>2. stopped' \subseteq Runners
  BY DEF Withdraw, TypeOK
<1> QED
  BY <1>1, <1>2 DEF Withdraw, TypeOK, FileType

LEMMA StepType == TypeOK /\ [Next]_vars => TypeOK'
<1> SUFFICES ASSUME TypeOK, [Next]_vars PROVE TypeOK'
  OBVIOUS
<1>0. 0 \in Ages /\ NoAge \in Ages
  BY DEF Ages, NoAge
<1> USE DEF host, lifecycle, runner, file, FileType
<1>1. ASSUME NEW b \in Builds, Load(b) PROVE TypeOK'
  <2>1. boot' \in [Builds -> Ages] /\ current' \in Builds /\ Withdraw(b, "load")
        /\ FileType'
    BY <1>0, <1>1 DEF Load, TypeOK
  <2> QED
    BY <2>1, WithdrawType
<1>2. ASSUME NEW b \in Builds, Quiesce(b) PROVE TypeOK'
  <2>1. boot' \in [Builds -> Ages] /\ current' \in Builds /\ Withdraw(b, "quiesce")
        /\ FileType'
    BY <1>2 DEF Quiesce, TypeOK
  <2> QED
    BY <2>1, WithdrawType
<1>3. CASE Reload
  <2>1. boot' \in [Builds -> Ages] /\ current' \in Builds /\ Withdraw(current, "load")
        /\ FileType' /\ current \in Builds
    BY <1>3 DEF Reload, TypeOK
  <2> QED
    BY <2>1, WithdrawType
<1>4. ASSUME NEW b \in Builds, StopReturns(b) PROVE TypeOK'
  <2>1. beat' \in [Runners -> Ages]
    BY <1>0, <1>4 DEF StopReturns, TypeOK
  <2> QED
    BY <1>4, <2>1 DEF StopReturns, TypeOK
<1>5. ASSUME NEW b \in Builds, SeedReads(b) \/ SeedWrites(b) \/ SeedFails(b) PROVE TypeOK'
  <2>1. call' \in [Builds -> {"none", "stopping", "seeding", "writing", "starting", "first"}]
    BY <1>5 DEF SeedReads, SeedWrites, SeedFails, TypeOK
  <2>2. FileType'
    <3>1. CASE SeedReads(b)
      BY <3>1 DEF SeedReads, TypeOK
    <3>2. CASE SeedWrites(b)
      BY <3>2 DEF SeedWrites, TypeOK, Keys
    <3>3. CASE SeedFails(b)
      <4>1. keys' \in Keys /\ reload' \in BOOLEAN
        BY <3>3 DEF SeedFails, TypeOK
      <4> QED
        BY <3>3, <4>1 DEF SeedFails, TypeOK
    <3> QED
      BY <1>5, <3>1, <3>2, <3>3
  <2>3. UNCHANGED <<boot, current, goal, active, leaving, published, owner, loop, stopped, blind,
                    since, beat, count>>
    BY <1>5 DEF SeedReads, SeedWrites, SeedFails
  <2> QED
    BY <2>1, <2>2, <2>3 DEF TypeOK
<1>6. ASSUME NEW b \in Builds, StartGuard(b) PROVE TypeOK'
  <2>1. PICK i \in Runners : /\ leaving' = [leaving EXCEPT ![b] = i]
                             /\ owner' = [owner EXCEPT ![i] = b]
                             /\ loop' = [loop EXCEPT ![i] = "ticking"]
                             /\ call' = [call EXCEPT ![b] = "first"]
    BY <1>6 DEF StartGuard, Unused
  <2> QED
    BY <1>6, <2>1 DEF StartGuard, TypeOK, Ticking
<1>7. ASSUME NEW b \in Builds, Started(b) PROVE TypeOK'
  BY <1>7 DEF Started, TypeOK
<1>8. ASSUME NEW i \in Runners, TickBegins(i) PROVE TypeOK'
  BY <1>0, <1>8 DEF TickBegins, TypeOK, Ticking
<1>9. ASSUME NEW i \in Runners, PublishesError(i) \/ Publishes(i) PROVE TypeOK'
  <2>1. /\ published' \in [Builds -> Runners \cup {NoOne}]
        /\ loop' \in [Runners -> {"none", "rest"} \cup Ticking]
    BY <1>9 DEF PublishesError, Publishes, TypeOK, Ticking
  <2>2. {stopped', blind'} \subseteq SUBSET Runners
    BY <1>9 DEF PublishesError, Publishes, TypeOK
  <2>3. FileType'
    BY <1>9 DEF PublishesError, Publishes, TypeOK
  <2>4. UNCHANGED <<boot, current, call, goal, active, leaving, owner, since, beat, count>>
    BY <1>9 DEF PublishesError, Publishes
  <2> QED
    BY <2>1, <2>2, <2>3, <2>4 DEF TypeOK
<1>10. ASSUME NEW i \in Runners, Saves(i) PROVE TypeOK'
  <2>1. beat' \in [Runners -> Ages] /\ count' \in [Runners -> 0 .. Cardinality(Runners)]
    BY <1>10, KeptType DEF Saves, TypeOK
  <2> QED
    BY <1>10, <2>1 DEF Saves, TypeOK, Ticking
<1>11. ASSUME NEW i \in Runners, LoopEnds(i) PROVE TypeOK'
  <2>1. count' \in [Runners -> 0 .. Cardinality(Runners)]
    BY <1>11, FS_CardinalityType DEF LoopEnds, TypeOK
  <2> QED
    BY <1>0, <1>11, <2>1 DEF LoopEnds, TypeOK, Ticking
<1>12. CASE Elapse
  <2>1. since' \in [Runners -> Ages]
    BY <1>12 DEF Elapse, Alive, Ages, NoAge
  <2> QED
    BY <1>12, <2>1, AgedType DEF Elapse, TypeOK
<1>13. CASE Edit \/ Hide \/ Unhide
  BY <1>13 DEF Edit, Hide, Unhide, TypeOK
<1>14. CASE Crash
  <2>1. beat' \in [Runners -> Ages]
    <3>1. Stale + 1 \in 0 .. Stale + 1
      OBVIOUS
    <3> QED
      BY <1>14, <3>1, OlderType DEF Crash, TypeOK
  <2>2. boot' \in [Builds -> Ages]
    BY <1>0, <1>14 DEF Crash, Only
  <2>3. /\ call' \in [Builds -> {"none", "stopping", "seeding", "writing", "starting", "first"}]
        /\ goal' \in [Builds -> {"load", "quiesce"}]
    BY <1>14 DEF Crash, Only
  <2>4. {active', leaving', published'} \subseteq [Builds -> Runners \cup {NoOne}]
    BY <1>14 DEF Crash, Nobody
  <2>5. /\ owner' \in [Runners -> Builds \cup {NoOne}]
        /\ loop' \in [Runners -> {"none", "rest"} \cup Ticking]
        /\ since' \in [Runners -> Ages] /\ stopped' = {} /\ blind' = {}
    BY <1>0, <1>14 DEF Crash, AllRunners
  <2>6. count' \in [Runners -> 0 .. Cardinality(Runners)]
    BY <1>14, FS_CardinalityType DEF Crash, AllRunners
  <2>7. FileType' /\ current' \in Builds
    BY <1>14 DEF Crash, TypeOK
  <2> QED
    BY <2>1, <2>2, <2>3, <2>4, <2>5, <2>6, <2>7 DEF TypeOK
<1>15. CASE UNCHANGED vars
  BY <1>15 DEF vars, TypeOK
<1> QED
  BY <1>1, <1>2, <1>3, <1>4, <1>5, <1>6, <1>7, <1>8, <1>9, <1>10, <1>11, <1>12, <1>13, <1>14,
     <1>15 DEF Next, Call, Loop

\* Every behaviour of the builds, guards and the host keeps the type invariant.
THEOREM LifecycleTypes == Spec => []TypeOK
  BY InitType, StepType, PTL DEF Spec

-----------------------------------------------------------------------------
(* One guard per build *)

\* The one runner a build may have: the active one between two calls, and inside a
\* call the one it waits for.
Mine(b) == IF call[b] = "none" THEN active[b] ELSE leaving[b]

IsOf(b, i) == i \in Runners /\ loop[i] # "none" /\ owner[i] = b

\* Where a build's call is says which runner it has.
CallInv(b) ==
    /\ \A i \in Runners : IsOf(b, i) => i = Mine(b)
    /\ \A i \in stopped : owner[i] = b => call[b] = "stopping"
    /\ call[b] = "none" =>
           /\ leaving[b] = NoOne
           /\ goal[b] = "quiesce" => active[b] = NoOne
           /\ goal[b] = "load" => IsOf(b, active[b]) /\ published[b] = active[b]
    /\ call[b] # "none" => active[b] = NoOne
    /\ call[b] \in {"seeding", "writing", "starting"} => goal[b] = "load" /\ leaving[b] = NoOne
    /\ call[b] = "first" =>
           /\ goal[b] = "load" /\ IsOf(b, leaving[b])
           /\ loop[leaving[b]] # "ticking" => published[b] = leaving[b]

LifeInv ==
    /\ \A b \in Builds : CallInv(b)
    /\ \A i \in Runners : loop[i] # "none" => owner[i] \in Builds
    /\ \A i \in stopped : loop[i] # "none"

LEMMA LifeInit == Init => LifeInv
<1> SUFFICES ASSUME Init PROVE LifeInv
  OBVIOUS
<1>1. \A b \in Builds : /\ call[b] \in {"seeding", "none"} /\ active[b] = NoOne
                        /\ leaving[b] = NoOne
                        /\ goal[b] = IF call[b] = "seeding" THEN "load" ELSE "quiesce"
  BY DEF Init, Only, Nobody
<1>2. (\A i \in Runners : loop[i] = "none") /\ stopped = {}
  BY DEF Init, AllRunners
<1> QED
  BY <1>1, <1>2 DEF LifeInv, CallInv, IsOf

\* A build that a step does not touch.
LEMMA OtherBuild ==
    ASSUME NEW b \in Builds, CallInv(b),
           call'[b] = call[b], goal'[b] = goal[b], active'[b] = active[b],
           leaving'[b] = leaving[b], published'[b] = published[b],
           \A i \in Runners : owner[i] = b \/ owner'[i] = b =>
               /\ owner'[i] = owner[i]
               /\ loop'[i] = "none" <=> loop[i] = "none"
               /\ call[b] = "first" => loop'[i] = loop[i],
           stopped' \subseteq Runners,
           \A i \in stopped' : owner'[i] = b => i \in stopped
    PROVE  CallInv(b)'
<1>1. \A i : IsOf(b, i)' <=> IsOf(b, i)
  BY DEF IsOf
<1>2. call[b] = "first" => loop'[leaving[b]] = loop[leaving[b]]
  BY DEF CallInv, IsOf
<1>3. Mine(b)' = Mine(b)
  BY DEF Mine
<1>4. \A i \in stopped' : owner'[i] = b => i \in stopped /\ owner[i] = b
  OBVIOUS
<1> QED
  BY <1>1, <1>2, <1>3, <1>4 DEF CallInv

\* What stopAccountGuard does at once.
LEMMA LifeWithdraw ==
    ASSUME TypeOK, LifeInv, NEW b \in Builds, NEW to \in {"load", "quiesce"}, Withdraw(b, to)
    PROVE  LifeInv'
<1>1. /\ call[b] = "none" /\ call'[b] = "stopping" /\ active'[b] = NoOne
      /\ leaving'[b] = active[b] /\ UNCHANGED <<owner, loop>>
      /\ stopped' = stopped \cup ({active[b]} \ {NoOne})
      /\ \A c \in Builds \ {b} :
             /\ call'[c] = call[c] /\ goal'[c] = goal[c] /\ active'[c] = active[c]
             /\ leaving'[c] = leaving[c] /\ published'[c] = published[c]
  BY DEF Withdraw, TypeOK
<1>2. active[b] # NoOne => IsOf(b, active[b])
  BY <1>1 DEF LifeInv, CallInv, TypeOK
<1>3. stopped' \subseteq Runners
  BY <1>1, <1>2 DEF IsOf, TypeOK
<1>4. ASSUME NEW c \in Builds \ {b} PROVE CallInv(c)'
  BY <1>1, <1>2, <1>3, OtherBuild DEF LifeInv, IsOf
<1>5. CallInv(b)'
  <2>1. \A i : IsOf(b, i)' <=> IsOf(b, i)
    BY <1>1 DEF IsOf
  <2>2. \A i \in Runners : IsOf(b, i) => i = active[b]
    BY <1>1 DEF LifeInv, CallInv, Mine
  <2> QED
    BY <1>1, <2>1, <2>2 DEF CallInv, Mine
<1>6. \A i \in stopped' : loop'[i] # "none"
  BY <1>1, <1>2 DEF LifeInv, IsOf
<1> QED
  BY <1>1, <1>4, <1>5, <1>6 DEF LifeInv

\* A step of the call of one build.
LEMMA LifeCall ==
    ASSUME TypeOK, LifeInv, NEW b \in Builds,
           StopReturns(b) \/ SeedReads(b) \/ SeedWrites(b) \/ SeedFails(b) \/ Started(b)
    PROVE  LifeInv'
<1> USE DEF runner, file
<1>1. /\ UNCHANGED <<owner, loop, stopped, published, goal>>
      /\ \A c \in Builds \ {b} :
             call'[c] = call[c] /\ active'[c] = active[c] /\ leaving'[c] = leaving[c]
  BY DEF StopReturns, SeedReads, SeedWrites, SeedFails, Started, TypeOK
<1>2. \A c \in Builds \ {b} : CallInv(c)'
  BY <1>1, OtherBuild DEF LifeInv, TypeOK
<1>3. \A i : IsOf(b, i)' <=> IsOf(b, i)
  BY <1>1 DEF IsOf
<1>4. CallInv(b)'
  <2>1. CASE StopReturns(b)
    <3>1. /\ call[b] = "stopping" /\ leaving[b] \notin Alive /\ leaving'[b] = NoOne
          /\ call'[b] = IF goal[b] = "load" THEN "seeding" ELSE "none"
          /\ active'[b] = active[b]
      BY <2>1 DEF StopReturns, TypeOK
    <3>2. \A i \in Runners : ~ IsOf(b, i)
      BY <3>1 DEF LifeInv, CallInv, Mine, IsOf, Alive
    <3>3. \A i \in stopped : owner[i] # b
      BY <3>2 DEF LifeInv, IsOf, TypeOK
    <3>4. goal[b] \in {"load", "quiesce"}
      BY DEF TypeOK
    <3> QED
      BY <1>1, <1>3, <3>1, <3>2, <3>3, <3>4 DEF LifeInv, CallInv
  <2>2. CASE SeedReads(b) \/ SeedWrites(b) \/ SeedFails(b)
    <3>1. /\ call[b] \in {"seeding", "writing"} /\ call'[b] \in {"writing", "starting"}
          /\ UNCHANGED <<active, leaving>>
      BY <2>2 DEF SeedReads, SeedWrites, SeedFails, TypeOK
    <3>2. Mine(b)' = Mine(b)
      BY <3>1 DEF Mine
    <3> QED
      BY <1>1, <1>3, <3>1, <3>2 DEF LifeInv, CallInv
  <2>3. CASE Started(b)
    <3>1. /\ call[b] = "first" /\ call'[b] = "none" /\ loop[leaving[b]] = "rest"
          /\ active'[b] = leaving[b] /\ leaving'[b] = NoOne
      BY <2>3 DEF Started, TypeOK
    <3>2. Mine(b)' = Mine(b)
      BY <3>1 DEF Mine
    <3> QED
      BY <1>1, <1>3, <3>1, <3>2 DEF LifeInv, CallInv
  <2> QED
    BY <2>1, <2>2, <2>3
<1> QED
  BY <1>1, <1>2, <1>4 DEF LifeInv

\* A new runner has an id nothing had.
LEMMA LifeStartGuard ==
    ASSUME TypeOK, LifeInv, NEW b \in Builds, StartGuard(b) PROVE LifeInv'
<1>1. PICK i \in Unused : /\ call' = [call EXCEPT ![b] = "first"]
                          /\ leaving' = [leaving EXCEPT ![b] = i]
                          /\ owner' = [owner EXCEPT ![i] = b]
                          /\ loop' = [loop EXCEPT ![i] = "ticking"]
                          /\ call[b] = "starting" /\ UNCHANGED <<goal, active, published, stopped>>
  BY DEF StartGuard
<1>2. i \in Runners /\ loop[i] = "none" /\ i \notin stopped
  BY DEF Unused, LifeInv
<1>3. /\ loop'[i] = "ticking" /\ owner'[i] = b /\ leaving'[b] = i /\ call'[b] = "first"
      /\ \A j \in Runners \ {i} : loop'[j] = loop[j] /\ owner'[j] = owner[j]
      /\ \A c \in Builds \ {b} : call'[c] = call[c] /\ leaving'[c] = leaving[c]
  BY <1>1, <1>2 DEF TypeOK
<1>4. ASSUME NEW c \in Builds \ {b} PROVE CallInv(c)'
  <2>1. /\ \A j : IsOf(c, j)' <=> IsOf(c, j)
        /\ \A j \in stopped : owner'[j] = c => owner[j] = c
        /\ Mine(c)' = Mine(c)
    BY <1>1, <1>2, <1>3 DEF IsOf, Mine, TypeOK
  <2>2. call[c] = "first" => loop'[leaving[c]] = loop[leaving[c]]
    BY <1>2, <1>3 DEF LifeInv, CallInv, IsOf
  <2> QED
    BY <1>1, <1>3, <2>1, <2>2 DEF LifeInv, CallInv
<1>5. CallInv(b)'
  <2>1. \A j \in Runners : IsOf(b, j)' => j = i
    BY <1>1, <1>3 DEF LifeInv, CallInv, IsOf, Mine
  <2>2. \A j \in stopped : owner'[j] # b
    BY <1>1, <1>2, <1>3 DEF LifeInv, CallInv, TypeOK
  <2>3. active[b] = NoOne /\ goal[b] = "load"
    BY <1>1 DEF LifeInv, CallInv
  <2> QED
    BY <1>1, <1>2, <1>3, <2>1, <2>2, <2>3 DEF CallInv, IsOf, Mine
<1> QED
  BY <1>1, <1>2, <1>3, <1>4, <1>5 DEF LifeInv

\* A step of a runner's goroutine but its last.
LEMMA LifeLoop ==
    ASSUME TypeOK, LifeInv, NEW i \in Runners, Loop(i) PROVE LifeInv'
<1>1. /\ UNCHANGED <<call, goal, active, leaving, owner, stopped>>
      /\ loop[i] # "none" /\ loop'[i] # "none"
      /\ \A j \in Runners \ {i} : loop'[j] = loop[j]
      /\ \A b \in Builds \ {owner[i]} : published'[b] = published[b]
      /\ published'[owner[i]] \in {published[owner[i]], i}
      /\ loop[i] = "ticking" => published'[owner[i]] = i
      /\ loop'[i] = "ticking" => ~ InFirst(i)
  <2>0. owner[i] \in Builds \/ loop[i] = "none"
    BY DEF LifeInv
  <2>1. CASE TickBegins(i)
    BY <2>1 DEF TickBegins, lifecycle, TypeOK, Ticking
  <2>2. CASE PublishesError(i) \/ Publishes(i)
    <3>1. /\ published' = [published EXCEPT ![owner[i]] = i]
          /\ loop[i] = "ticking"
           /\ loop' \in {[loop EXCEPT ![i] = "rest"], [loop EXCEPT ![i] = "saving"]}
          /\ UNCHANGED <<lifecycle, owner, stopped>>
      BY <2>2 DEF PublishesError, Publishes
    <3> QED
      BY <2>0, <3>1 DEF lifecycle, TypeOK
  <2>3. CASE Saves(i)
    BY <2>3 DEF Saves, lifecycle, TypeOK
  <2> QED
    BY <2>1, <2>2, <2>3 DEF Loop
<1>2. owner[i] \in Builds
  BY <1>1 DEF LifeInv
<1>3. ASSUME NEW b \in Builds \ {owner[i]} PROVE CallInv(b)'
  <2>1. stopped' \subseteq Runners
    BY <1>1 DEF TypeOK
  <2> QED
    BY <1>1, <1>3, <2>1, OtherBuild DEF LifeInv
<1>4. ASSUME NEW b \in Builds, b = owner[i] PROVE CallInv(b)'
  <2>1. /\ \A j : IsOf(b, j)' <=> IsOf(b, j)
        /\ Mine(b)' = Mine(b) /\ i = Mine(b)
    BY <1>1, <1>4 DEF LifeInv, CallInv, IsOf, Mine
  <2>2. call[b] = "first" => /\ leaving[b] = i
                             /\ loop'[i] # "ticking" => published'[b] = i
    BY <1>1, <1>4, <2>1 DEF LifeInv, CallInv, Mine
  <2>3. call[b] = "none" /\ goal[b] = "load" => published'[b] = active[b]
    BY <1>1, <1>4, <2>1 DEF LifeInv, CallInv, Mine
  <2> QED
    BY <1>1, <1>4, <2>1, <2>2, <2>3 DEF LifeInv, CallInv
<1>5. \A b \in Builds : CallInv(b)'
  BY <1>3, <1>4
<1>6. \A j \in stopped' : loop'[j] # "none"
  BY <1>1 DEF LifeInv, TypeOK
<1>7. \A j \in Runners : loop'[j] # "none" => owner'[j] \in Builds
  BY <1>1 DEF LifeInv
<1> QED
  BY <1>5, <1>6, <1>7 DEF LifeInv

\* A goroutine ends only once it is told to, so while a call waits for it.
LEMMA LifeLoopEnds ==
    ASSUME TypeOK, LifeInv, NEW i \in Runners, LoopEnds(i) PROVE LifeInv'
<1>1. /\ UNCHANGED <<call, goal, active, leaving, published>> /\ i \in stopped
      /\ loop[i] # "none" /\ loop'[i] = "none" /\ stopped' = stopped \ {i}
      /\ \A j \in Runners \ {i} : loop'[j] = loop[j] /\ owner'[j] = owner[j]
  BY DEF LoopEnds, lifecycle, TypeOK
<1>2. owner[i] \in Builds /\ call[owner[i]] = "stopping"
  BY <1>1 DEF LifeInv, CallInv
<1>3. ASSUME NEW b \in Builds PROVE CallInv(b)'
  <2>1. \A j \in Runners : IsOf(b, j)' => IsOf(b, j)
    BY <1>1 DEF IsOf
  <2>2. \A j \in stopped' : owner'[j] = b => call'[b] = "stopping"
    BY <1>1 DEF LifeInv, CallInv, TypeOK
  <2>3. Mine(b)' = Mine(b)
    BY <1>1 DEF Mine
  <2>4. CASE b = owner[i]
    BY <1>1, <1>2, <2>1, <2>2, <2>3, <2>4 DEF LifeInv, CallInv
  <2>5. CASE b # owner[i]
    <3>1. \A j : IsOf(b, j) => IsOf(b, j)' /\ loop'[j] = loop[j]
      BY <1>1, <2>5 DEF IsOf
    <3> QED
      BY <1>1, <2>1, <2>2, <2>3, <3>1 DEF LifeInv, CallInv
  <2> QED
    BY <2>4, <2>5
<1> QED
  BY <1>1, <1>3 DEF LifeInv, TypeOK

LEMMA LifeStands ==
    ASSUME LifeInv, UNCHANGED <<call, goal, active, leaving, published, owner, loop, stopped>>
    PROVE  LifeInv'
<1>1. ASSUME NEW b \in Builds PROVE CallInv(b)'
  <2>1. (\A j : IsOf(b, j)' <=> IsOf(b, j)) /\ Mine(b)' = Mine(b)
    BY DEF IsOf, Mine
  <2> QED
    BY <2>1 DEF LifeInv, CallInv
<1> QED
  BY <1>1 DEF LifeInv

LEMMA LifeStep == TypeOK /\ LifeInv /\ [Next]_vars => LifeInv'
<1> SUFFICES ASSUME TypeOK, LifeInv, [Next]_vars PROVE LifeInv'
  OBVIOUS
<1>1. ASSUME NEW b \in Builds, Load(b) \/ Quiesce(b) PROVE LifeInv'
  BY <1>1, LifeWithdraw DEF Load, Quiesce
<1>2. CASE Reload
  BY <1>2, LifeWithdraw DEF Reload, TypeOK
<1>3. ASSUME NEW b \in Builds, Call(b) PROVE LifeInv'
  BY <1>3, LifeCall, LifeStartGuard DEF Call
<1>4. CASE Elapse \/ Edit \/ Hide \/ Unhide \/ UNCHANGED vars
  BY <1>4, LifeStands DEF Elapse, Edit, Hide, Unhide, vars, lifecycle, runner
<1>5. CASE Crash
  <2>1. \A b \in Builds : /\ call'[b] \in {"seeding", "none"} /\ active'[b] = NoOne
                          /\ leaving'[b] = NoOne
                          /\ goal'[b] = IF call'[b] = "seeding" THEN "load" ELSE "quiesce"
    BY <1>5 DEF Crash, Only, Nobody
  <2>2. (\A i \in Runners : loop'[i] = "none") /\ stopped' = {}
    BY <1>5 DEF Crash, AllRunners
  <2> QED
    BY <2>1, <2>2 DEF LifeInv, CallInv, IsOf
<1> QED
  BY <1>1, <1>2, <1>3, <1>4, <1>5, LifeLoop, LifeLoopEnds DEF Next

LEMMA LifeInvariance == Spec => []LifeInv
  BY LifeInit, LifeStep, LifecycleTypes, PTL DEF Spec

\* However calls, ticks, reloads and crashes of two or more builds fall: a build has one
\* guard at most, none while its seeder is at the file and none once quiesced.
THEOREM OneWriterHolds == Spec => []OneWriter
<1>1. TypeOK /\ LifeInv => OneWriter
  <2> SUFFICES ASSUME TypeOK, LifeInv, NEW b \in Builds
               PROVE  /\ Cardinality(Of(b)) <= 1
                      /\ call[b] \in {"seeding", "writing", "starting"} => Of(b) = {}
                      /\ call[b] = "none" /\ goal[b] = "quiesce" => Of(b) = {}
    BY DEF OneWriter
  <2>1. \A i \in Of(b) : IsOf(b, i) /\ i = Mine(b)
    BY DEF LifeInv, CallInv, Of, Alive, IsOf
  <2>2. Of(b) = {} \/ Of(b) = {Mine(b)}
    BY <2>1
  <2>3. Cardinality(Of(b)) <= 1
    <3>1. Cardinality({}) = 0 /\ Cardinality({Mine(b)}) = 1
      BY FS_EmptySet, FS_Singleton
    <3> QED
      BY <2>2, <3>1
  <2>4. Mine(b) = NoOne => Of(b) = {}
    BY <2>1 DEF IsOf
  <2> QED
    BY <2>3, <2>4 DEF LifeInv, CallInv, Mine
<1> QED
  BY <1>1, LifecycleTypes, LifeInvariance, PTL

\* Between two calls of a loaded build the page is served the snapshot of the guard
\* that runs, never one that its predecessor published last.
THEOREM NewestIsShown == Spec => []NewestShown
<1>1. LifeInv => NewestShown
  BY DEF LifeInv, CallInv, IsOf, NewestShown
<1> QED
  BY <1>1, LifeInvariance, PTL

-----------------------------------------------------------------------------
(* No call waits in vain *)

\* A stop waits only for a guard whose stop channel is closed, a load only for the first
\* tick of its own guard, which nobody has told to stop (stopAccountGuard, startAccountGuard).
NobodyWaitsInVain ==
    \A b \in Builds :
        /\ call[b] = "stopping" /\ leaving[b] \in Alive => leaving[b] \in stopped
        /\ call[b] = "first" => leaving[b] \in Of(b) \ stopped

\* How much of a call is left.
ToDo(stage) ==
    CASE stage = "stopping" -> 5
      [] stage = "seeding"  -> 4
      [] stage = "writing"  -> 3
      [] stage = "starting" -> 2
      [] stage = "first"    -> 1
      [] stage = "none"     -> 0

\* The process may die under a call. Otherwise it goes on to a later stage, or what it
\* is for and what it waits for stay as they are (LoadConfig, HandleMethod).
CallAdvances ==
    [][\A b \in Builds : call[b] # "none" =>
           \/ ToDo(call'[b]) < ToDo(call[b])
           \/ UNCHANGED <<call[b], goal[b], leaving[b]>>
           \/ Crash]_vars

LEMMA WaitStep == TypeOK /\ LifeInv /\ NobodyWaitsInVain /\ [Next]_vars => NobodyWaitsInVain'
<1> SUFFICES ASSUME TypeOK, LifeInv, NobodyWaitsInVain, [Next]_vars PROVE NobodyWaitsInVain'
  OBVIOUS
<1>a. ASSUME NEW c \in Builds, call'[c] = "first"
      PROVE  /\ leaving'[c] \in Runners /\ loop'[leaving'[c]] # "none"
             /\ owner'[leaving'[c]] = c /\ leaving'[c] \notin stopped'
  <2>1. LifeInv'
    BY LifeStep
  <2>2. IsOf(c, leaving[c])' /\ \A i \in stopped' : owner'[i] = c => call'[c] = "stopping"
    BY <1>a, <2>1 DEF LifeInv, CallInv
  <2> QED
    BY <1>a, <2>2 DEF IsOf
<1> SUFFICES ASSUME NEW b \in Builds, call'[b] = "stopping", leaving'[b] \in Alive'
             PROVE  leaving'[b] \in stopped'
  BY <1>a DEF NobodyWaitsInVain, Of, Alive
<1> USE DEF Alive
<1>1. ASSUME NEW c \in Builds, NEW to \in {"load", "quiesce"}, Withdraw(c, to)
      PROVE  leaving'[b] \in stopped'
  <2>1. CASE b = c
    BY <1>1, <2>1, LifecycleAssumption DEF Withdraw, TypeOK
  <2>2. CASE b # c
    BY <1>1, <2>2 DEF Withdraw, TypeOK, NobodyWaitsInVain
  <2> QED
    BY <2>1, <2>2
<1>2. ASSUME NEW c \in Builds, Call(c) PROVE leaving'[b] \in stopped'
  <2>1. CASE StopReturns(c) \/ SeedReads(c) \/ SeedWrites(c) \/ SeedFails(c) \/ Started(c)
    <3>1. UNCHANGED <<loop, stopped>> /\ call[b] = "stopping" /\ leaving'[b] = leaving[b]
      BY <2>1 DEF StopReturns, SeedReads, SeedWrites, SeedFails, Started, runner, TypeOK
    <3> QED
      BY <3>1 DEF NobodyWaitsInVain
  <2>2. CASE StartGuard(c)
    <3>1. PICK i \in Unused : /\ call' = [call EXCEPT ![c] = "first"]
                              /\ leaving' = [leaving EXCEPT ![c] = i]
                              /\ loop' = [loop EXCEPT ![i] = "ticking"] /\ stopped' = stopped
      BY <2>2 DEF StartGuard
    <3>2. b # c /\ call[b] = "stopping" /\ leaving'[b] = leaving[b]
      BY <3>1 DEF TypeOK
    <3>3. leaving[b] # i
      BY <3>1 DEF Unused
    <3> QED
      BY <3>1, <3>2, <3>3 DEF NobodyWaitsInVain, TypeOK
  <2> QED
    BY <1>2, <2>1, <2>2 DEF Call
<1>3. ASSUME NEW i \in Runners, Loop(i) \/ LoopEnds(i) PROVE leaving'[b] \in stopped'
  <2>1. /\ UNCHANGED <<call, leaving>>
        /\ \A j \in Runners : loop'[j] # "none" => loop[j] # "none"
        /\ stopped' = stopped \/ (stopped' = stopped \ {i} /\ loop'[i] = "none")
    BY <1>3 DEF Loop, TickBegins, PublishesError, Publishes, Saves, LoopEnds, lifecycle, TypeOK
  <2> QED
    BY <2>1 DEF NobodyWaitsInVain
<1>4. CASE Elapse \/ Edit \/ Hide \/ Unhide \/ UNCHANGED vars
  BY <1>4 DEF Elapse, Edit, Hide, Unhide, vars, lifecycle, runner, NobodyWaitsInVain
<1>5. CASE Crash
  BY <1>5 DEF Crash, AllRunners
<1>6. CASE Reload
  BY <1>1, <1>6 DEF Reload, TypeOK
<1> QED
  BY <1>1, <1>2, <1>3, <1>4, <1>5, <1>6 DEF Next, Load, Quiesce

\* However calls, ticks, reloads and crashes fall, a stop never waits for a guard that
\* was not told to stop nor a load for one that is, and no call is taken back or joined
\* by another of its build: it returns after five stages at most.
THEOREM CallsGoOn == Spec => []NobodyWaitsInVain /\ CallAdvances
<1>1. Init => NobodyWaitsInVain
  BY DEF Init, NobodyWaitsInVain, Only
<1>2. TypeOK /\ [Next]_vars =>
          [\A b \in Builds : call[b] # "none" =>
               \/ ToDo(call'[b]) < ToDo(call[b])
               \/ UNCHANGED <<call[b], goal[b], leaving[b]>>
               \/ Crash]_vars
  <2> SUFFICES ASSUME TypeOK, Next, ~ Crash, NEW b \in Builds, call[b] # "none"
               PROVE  \/ ToDo(call'[b]) < ToDo(call[b])
                      \/ UNCHANGED <<call[b], goal[b], leaving[b]>>
    OBVIOUS
  <2>1. ASSUME NEW c \in Builds, NEW to \in {"load", "quiesce"}, Withdraw(c, to)
        PROVE  UNCHANGED <<call[b], goal[b], leaving[b]>>
    BY <2>1 DEF Withdraw, TypeOK
  <2>2. ASSUME NEW c \in Builds, Call(c)
        PROVE  ToDo(call'[b]) < ToDo(call[b]) \/ UNCHANGED <<call[b], goal[b], leaving[b]>>
    <3>1. CASE b # c
      BY <2>2, <3>1 DEF Call, StopReturns, SeedReads, SeedWrites, SeedFails, StartGuard, Started, TypeOK
    <3>2. CASE b = c
      <4>1. \/ call[b] = "stopping" /\ call'[b] \in {"seeding", "none"}
            \/ call[b] = "seeding" /\ call'[b] \in {"writing", "starting"}
            \/ call[b] = "writing" /\ call'[b] = "starting"
            \/ call[b] = "starting" /\ call'[b] = "first"
            \/ call[b] = "first" /\ call'[b] = "none"
        BY <2>2, <3>2 DEF Call, StopReturns, SeedReads, SeedWrites, SeedFails, StartGuard, Started, TypeOK
      <4> QED
        BY <4>1 DEF ToDo
    <3> QED
      BY <3>1, <3>2
  <2>3. CASE \E i \in Runners : Loop(i) \/ LoopEnds(i)
    BY <2>3 DEF Loop, TickBegins, PublishesError, Publishes, Saves, LoopEnds, lifecycle
  <2>4. CASE Elapse \/ Edit \/ Hide \/ Unhide
    BY <2>4 DEF Elapse, Edit, Hide, Unhide, lifecycle
  <2>5. CASE Reload
    BY <2>1, <2>5 DEF Reload, TypeOK
  <2> QED
    BY <2>1, <2>2, <2>3, <2>4, <2>5 DEF Next, Load, Quiesce
<1> QED
  BY <1>1, <1>2, WaitStep, LifecycleTypes, LifeInvariance, PTL DEF Spec, CallAdvances

-----------------------------------------------------------------------------
(* Heartbeats *)

Left(j) == loop[j] = "none" /\ \A b \in Builds : leaving[b] # j

\* A heartbeat nobody is behind any more is older than every build that is loaded; the
\* heartbeat of a guard that can read its configuration is not much older than its
\* last tick.
BeatInv ==
    /\ \A b \in Builds : /\ boot[b] \in 0 .. Window + 1 \/ boot[b] = NoAge
                         /\ call[b] # "none" \/ goal[b] = "load" => boot[b] # NoAge
    /\ \A i \in Runners : since[i] \in {0, 1}
    /\ \A j \in Runners : Left(j) =>
           beat[j] >= 1 /\ \A b \in Builds : boot[b] # NoAge => beat[j] > boot[b]
    /\ \A i \in Runners : loop[i] # "none" /\ i \notin blind /\ beat[i] # NoAge =>
           beat[i] <= since[i] + IF loop[i] = "rest" THEN 0 ELSE 1

LEMMA BeatInit == Init => BeatInv
<1> SUFFICES ASSUME Init PROVE BeatInv
  OBVIOUS
<1>1. \A b \in Builds : /\ boot[b] = 0 \/ boot[b] = NoAge
                        /\ boot[b] = NoAge => call[b] = "none" /\ goal[b] = "quiesce"
  BY DEF Init, Only, NoAge
<1>2. \A i \in Runners : loop[i] = "none" /\ since[i] = 0 /\ beat[i] = NoAge
  BY DEF Init, AllRunners
<1> QED
  BY <1>1, <1>2 DEF BeatInv, NoAge

\* A guard is of a build that is loaded.
LEMMA OwnerLoaded ==
    ASSUME TypeOK, LifeInv, BeatInv, NEW i \in Runners, loop[i] # "none"
    PROVE  owner[i] \in Builds /\ boot[owner[i]] \in 0 .. Window + 1
<1>1. owner[i] \in Builds /\ IsOf(owner[i], i) /\ CallInv(owner[i])
  BY DEF LifeInv, IsOf
<1>2. call[owner[i]] # "none" \/ goal[owner[i]] = "load"
  BY <1>1 DEF CallInv, Mine, TypeOK
<1>3. boot[owner[i]] # NoAge
  BY <1>1, <1>2 DEF BeatInv
<1> QED
  BY <1>1, <1>3 DEF BeatInv

\* A step that leaves heartbeats, builds, clocks and goroutines alone, and lets go of
\* no runner that is gone.
LEMMA BeatStands ==
    ASSUME BeatInv, UNCHANGED <<boot, since, beat, loop, blind>>,
           \A b \in Builds : call'[b] # "none" \/ goal'[b] = "load" => boot[b] # NoAge,
           \A j \in Runners : Left(j)' => Left(j)
    PROVE  BeatInv'
<1>1. \A b \in Builds : /\ boot'[b] \in 0 .. Window + 1 \/ boot'[b] = NoAge
                        /\ call'[b] # "none" \/ goal'[b] = "load" => boot'[b] # NoAge
  BY DEF BeatInv
<1>2. \A i \in Runners : since'[i] \in {0, 1}
  BY DEF BeatInv
<1>3. ASSUME NEW j \in Runners, Left(j)'
      PROVE  beat'[j] >= 1 /\ \A b \in Builds : boot'[b] # NoAge => beat'[j] > boot'[b]
  BY <1>3 DEF BeatInv
<1>4. \A i \in Runners : loop'[i] # "none" /\ i \notin blind' /\ beat'[i] # NoAge =>
           beat'[i] <= since'[i] + IF loop'[i] = "rest" THEN 0 ELSE 1
  BY DEF BeatInv
<1> QED
  BY <1>1, <1>2, <1>3, <1>4 DEF BeatInv

\* What a load does to the age of its build; a build that is loaded keeps its age.
Kindled(b) == boot' = [boot EXCEPT ![b] = IF @ = NoAge THEN 0 ELSE @]

\* A call begins: the build is loaded, and waits for the guard it has.
LEMMA BeatWithdraw ==
    ASSUME TypeOK, LifeInv, BeatInv, NEW b \in Builds, NEW to \in {"load", "quiesce"},
           Withdraw(b, to), Kindled(b)
    PROVE  BeatInv'
<1>1. /\ call[b] = "none" /\ leaving[b] = NoOne
      /\ UNCHANGED <<since, beat, loop, blind>>
      /\ \A c \in Builds \ {b} :
             call'[c] = call[c] /\ goal'[c] = goal[c] /\ leaving'[c] = leaving[c]
  BY DEF Withdraw, TypeOK, LifeInv, CallInv
<1>2. \A j \in Runners : Left(j)' => Left(j)
  BY <1>1 DEF Left
<1>3. \A c \in Builds : boot'[c] = boot[c] \/ (c = b /\ boot'[c] = 0)
  BY DEF TypeOK, Kindled
<1>4. boot'[b] # NoAge
  BY DEF TypeOK, Kindled, NoAge
<1>5. \A c \in Builds : /\ boot'[c] \in 0 .. Window + 1 \/ boot'[c] = NoAge
                        /\ call'[c] # "none" \/ goal'[c] = "load" => boot'[c] # NoAge
  BY <1>1, <1>3, <1>4 DEF BeatInv
<1>6. ASSUME NEW j \in Runners, Left(j)'
      PROVE  beat'[j] >= 1 /\ \A c \in Builds : boot'[c] # NoAge => beat'[j] > boot'[c]
  <2>1. beat[j] >= 1 /\ beat[j] \in Ages /\ \A c \in Builds : boot[c] # NoAge => beat[j] > boot[c]
    BY <1>2, <1>6 DEF BeatInv, TypeOK
  <2> QED
    BY <1>1, <1>3, <2>1 DEF Ages, NoAge
<1> QED
  BY <1>1, <1>5, <1>6 DEF BeatInv

\* The heartbeat of the runner a call waited for goes with it.
LEMMA BeatStopReturns ==
    ASSUME TypeOK, LifeInv, BeatInv, NEW b \in Builds, StopReturns(b) PROVE BeatInv'
<1>1. /\ call[b] = "stopping" /\ leaving[b] \notin Alive
      /\ UNCHANGED <<boot, since, loop, blind, goal>>
      /\ beat' = [i \in Runners |-> IF i = leaving[b] THEN NoAge ELSE beat[i]]
      /\ \A c \in Builds \ {b} : call'[c] = call[c] /\ leaving'[c] = leaving[c]
  BY DEF StopReturns, host, TypeOK
<1>2. \A c \in Builds : /\ boot[c] \in 0 .. Window + 1 \/ boot[c] = NoAge
                        /\ call'[c] # "none" \/ goal'[c] = "load" => boot[c] # NoAge
  BY <1>1 DEF BeatInv
<1>3. ASSUME NEW j \in Runners, Left(j)'
      PROVE  beat'[j] >= 1 /\ \A c \in Builds : boot[c] # NoAge => beat'[j] > boot[c]
  <2>1. CASE j = leaving[b]
    <3>1. beat'[j] = NoAge
      BY <1>1, <2>1
    <3> QED
      BY <1>2, <3>1 DEF NoAge
  <2>2. CASE j # leaving[b]
    <3>1. beat'[j] = beat[j] /\ Left(j)
      BY <1>1, <1>3, <2>2 DEF Left
    <3> QED
      BY <3>1 DEF BeatInv
  <2> QED
    BY <2>1, <2>2
<1>4. ASSUME NEW i \in Runners, loop[i] # "none" PROVE beat'[i] = beat[i]
  BY <1>1, <1>4 DEF Alive
<1> QED
  BY <1>1, <1>2, <1>3, <1>4 DEF BeatInv

\* A new runner has no heartbeat yet.
LEMMA BeatStartGuard ==
    ASSUME TypeOK, LifeInv, BeatInv, NEW b \in Builds, StartGuard(b) PROVE BeatInv'
<1>1. PICK i \in Unused : /\ call' = [call EXCEPT ![b] = "first"]
                          /\ leaving' = [leaving EXCEPT ![b] = i]
                          /\ loop' = [loop EXCEPT ![i] = "ticking"]
                          /\ call[b] = "starting" /\ UNCHANGED <<boot, goal, since, beat, blind>>
  BY DEF StartGuard, host
<1>2. i \in Runners /\ beat[i] = NoAge /\ leaving[b] = NoOne /\ loop'[i] = "ticking"
      /\ \A j \in Runners \ {i} : loop'[j] = loop[j]
      /\ \A c \in Builds \ {b} : call'[c] = call[c] /\ leaving'[c] = leaving[c]
  BY <1>1 DEF Unused, LifeInv, CallInv, TypeOK
<1>3. \A j \in Runners : Left(j)' => Left(j)
  BY <1>2 DEF Left
<1>4. \A c \in Builds : call'[c] # "none" \/ goal'[c] = "load" => boot[c] # NoAge
  BY <1>1, <1>2 DEF BeatInv
<1> QED
  BY <1>1, <1>2, <1>3, <1>4 DEF BeatInv

\* A tick, whole or in parts, takes less than the time to the next one.
LEMMA BeatLoop ==
    ASSUME TypeOK, LifeInv, BeatInv, NEW i \in Runners,
           TickBegins(i) \/ PublishesError(i) \/ Publishes(i)
    PROVE  BeatInv'
<1>1. /\ UNCHANGED <<boot, call, goal, leaving, beat>>
      /\ \A j \in Runners \ {i} : loop'[j] = loop[j] /\ since'[j] = since[j]
      /\ loop[i] # "none" /\ loop'[i] # "none"
      /\ \A j \in Runners : j \notin blind' => j \notin blind
      /\ \/ since'[i] = 0 /\ since[i] > 0 /\ loop[i] = "rest" /\ loop'[i] = "ticking"
         \/ since'[i] = since[i] /\ loop[i] = "ticking" /\ (loop'[i] = "saving" \/ i \in blind')
  BY DEF TickBegins, PublishesError, Publishes, TypeOK, host, lifecycle
<1>2. \A j \in Runners : Left(j)' => Left(j)
  BY <1>1 DEF Left
<1>3. ASSUME NEW j \in Runners, loop'[j] # "none", j \notin blind', beat[j] # NoAge
      PROVE  beat[j] <= since'[j] + IF loop'[j] = "rest" THEN 0 ELSE 1
  <2>1. beat[j] <= since[j] + IF loop[j] = "rest" THEN 0 ELSE 1
    BY <1>1, <1>3 DEF BeatInv
  <2> QED
    BY <1>1, <1>3, <2>1 DEF BeatInv, TypeOK, Ages
<1>4. \A j \in Runners : since'[j] \in {0, 1}
  BY <1>1 DEF BeatInv
<1> QED
  BY <1>1, <1>2, <1>3, <1>4 DEF BeatInv

\* What a save keeps: its own heartbeat, new; of the others all but the stale ones.
LEMMA BeatSaves ==
    ASSUME TypeOK, LifeInv, BeatInv, NEW i \in Runners, Saves(i)
    PROVE  /\ BeatInv'
           /\ \A j \in Alive : beat'[j] = NoAge /\ beat[j] # NoAge => j \in blind
<1>1. /\ UNCHANGED <<boot, call, goal, leaving, since>> /\ beat' = Kept(i)
      /\ \A j \in Runners \ {i} : loop'[j] = loop[j]
      /\ loop[i] = "saving" /\ loop'[i] = "rest" /\ blind' = blind \ {i}
  BY DEF Saves, TypeOK, host, lifecycle
<1>2. beat'[i] = since[i]
  BY <1>1 DEF Kept, Touched, BeatInv, TypeOK
<1>3. ASSUME NEW j \in Runners \ {i}
      PROVE  beat'[j] = IF beat[j] > Stale THEN NoAge ELSE beat[j]
  BY <1>1 DEF Kept, Touched, TypeOK
<1>4. ASSUME NEW j \in Runners, Left(j)'
      PROVE  beat'[j] >= 1 /\ \A b \in Builds : boot[b] # NoAge => beat'[j] > boot[b]
  <2>1. Left(j) /\ j # i
    BY <1>1, <1>4 DEF Left
  <2>2. beat[j] >= 1 /\ beat[j] \in Ages /\ \A b \in Builds : boot[b] # NoAge => beat[j] > boot[b]
    BY <2>1 DEF BeatInv, TypeOK
  <2>3. \A b \in Builds : boot[b] \in 0 .. Window + 1 \/ boot[b] = NoAge
    BY DEF BeatInv
  <2> QED
    BY <1>3, <2>1, <2>2, <2>3 DEF NoAge, Ages
<1>5. ASSUME NEW j \in Runners \ {i}, loop[j] # "none", j \notin blind, beat[j] # NoAge
      PROVE  beat'[j] = beat[j] /\ beat[j] <= since[j] + IF loop[j] = "rest" THEN 0 ELSE 1
  <2>1. beat[j] <= since[j] + (IF loop[j] = "rest" THEN 0 ELSE 1) /\ since[j] \in {0, 1}
    BY <1>5 DEF BeatInv
  <2>2. beat[j] \in Ages
    BY DEF TypeOK
  <2> QED
    BY <1>3, <2>1, <2>2 DEF Ages
<1>6. ASSUME NEW j \in Runners, loop'[j] # "none", j \notin blind', beat'[j] # NoAge
      PROVE  beat'[j] <= since[j] + IF loop'[j] = "rest" THEN 0 ELSE 1
  <2>1. CASE j = i
    BY <1>1, <1>2, <2>1 DEF BeatInv
  <2>2. CASE j # i
    <3>1. beat[j] # NoAge
      BY <1>3, <1>6, <2>2 DEF NoAge
    <3> QED
      BY <1>1, <1>5, <1>6, <2>2, <3>1
  <2> QED
    BY <2>1, <2>2
<1>7. BeatInv'
  BY <1>1, <1>4, <1>6 DEF BeatInv
<1>8. ASSUME NEW j \in Alive, beat'[j] = NoAge, beat[j] # NoAge PROVE j \in blind
  <2>1. j # i
    BY <1>2, <1>8 DEF BeatInv, NoAge
  <2> QED
    BY <1>5, <1>8, <2>1 DEF Alive
<1> QED
  BY <1>7, <1>8

\* A goroutine that ends is one a call waits for.
LEMMA BeatLoopEnds ==
    ASSUME TypeOK, LifeInv, BeatInv, NEW i \in Runners, LoopEnds(i) PROVE BeatInv'
<1>1. /\ UNCHANGED <<boot, call, goal, leaving, beat>> /\ i \in stopped
      /\ loop[i] # "none" /\ loop'[i] = "none"
      /\ \A j \in Runners \ {i} : loop'[j] = loop[j] /\ since'[j] = since[j]
      /\ since'[i] = 0 /\ blind' = blind \ {i}
  BY DEF LoopEnds, TypeOK, host, lifecycle
<1>2. owner[i] \in Builds /\ leaving[owner[i]] = i
  BY <1>1 DEF LifeInv, CallInv, Mine, IsOf
<1>3. \A j \in Runners : Left(j)' => Left(j)
  BY <1>1, <1>2 DEF Left
<1> QED
  BY <1>1, <1>3 DEF BeatInv

LEMMA BeatElapse ==
    ASSUME TypeOK, LifeInv, BeatInv, Elapse PROVE BeatInv'
<1>1. /\ UNCHANGED <<call, goal, leaving, loop, blind>>
      /\ \A i \in Runners : loop[i] # "none" => since[i] = 0
      /\ \A i \in Runners : since'[i] = IF loop[i] # "none" THEN since[i] + 1 ELSE 0
      /\ \A i \in Runners : beat'[i] = Older(beat[i], Stale + 1)
      /\ \A b \in Builds : boot'[b] = Older(boot[b], Window + 1)
  BY DEF Elapse, Aged, Alive, lifecycle
<1>2. \A b \in Builds : /\ boot[b] \in 0 .. Window + 1 \/ boot[b] = NoAge
                        /\ boot'[b] \in 0 .. Window + 1 \/ boot'[b] = NoAge
                        /\ boot'[b] = NoAge <=> boot[b] = NoAge
                        /\ boot[b] # NoAge => boot'[b] <= boot[b] + 1
  BY <1>1 DEF BeatInv, Older, NoAge
<1>3. \A i \in Runners : /\ beat[i] = NoAge <=> beat'[i] = NoAge
                         /\ beat[i] # NoAge => beat'[i] <= beat[i] + 1
                         /\ beat'[i] = beat[i] + 1 \/ beat'[i] > Stale
  BY <1>1 DEF TypeOK, Ages, Older, NoAge
<1>4. ASSUME NEW j \in Runners, Left(j)'
      PROVE  beat'[j] >= 1 /\ \A b \in Builds : boot'[b] # NoAge => beat'[j] > boot'[b]
  <2>1. Left(j) /\ beat[j] \in Ages /\ beat'[j] \in Ages
    BY <1>1, <1>4, AgedType DEF Left, TypeOK, Elapse
  <2>2. beat[j] >= 1 /\ \A b \in Builds : boot[b] # NoAge => beat[j] > boot[b]
    BY <2>1 DEF BeatInv
  <2> QED
    BY <1>2, <1>3, <2>1, <2>2 DEF Ages
<1>5. ASSUME NEW i \in Runners, loop'[i] # "none", i \notin blind', beat'[i] # NoAge
      PROVE  beat'[i] <= since'[i] + IF loop'[i] = "rest" THEN 0 ELSE 1
  <2>1. beat[i] <= since[i] + IF loop[i] = "rest" THEN 0 ELSE 1
    BY <1>1, <1>3, <1>5 DEF BeatInv
  <2>2. beat[i] \in Ages /\ beat'[i] \in Ages
    BY AgedType DEF TypeOK, Elapse
  <2> QED
    BY <1>1, <1>3, <1>5, <2>1, <2>2 DEF Ages
<1> QED
  BY <1>1, <1>2, <1>4, <1>5 DEF BeatInv

LEMMA BeatCrash ==
    ASSUME TypeOK, BeatInv, Crash PROVE BeatInv'
<1>1. \A b \in Builds : /\ boot'[b] = 0 \/ boot'[b] = NoAge
                        /\ boot'[b] = NoAge => call'[b] = "none" /\ goal'[b] = "quiesce"
  BY DEF Crash, Only, NoAge
<1>2. \A i \in Runners : /\ loop'[i] = "none" /\ since'[i] = 0
                         /\ beat'[i] = Older(beat[i], Stale + 1)
  BY DEF Crash, AllRunners
<1>3. \A i \in Runners : beat'[i] >= 1
  BY <1>2 DEF Older, TypeOK, Ages, NoAge
<1>4. \A b \in Builds : /\ boot'[b] \in 0 .. Window + 1 \/ boot'[b] = NoAge
                        /\ call'[b] # "none" \/ goal'[b] = "load" => boot'[b] # NoAge
  BY <1>1 DEF NoAge
<1>5. \A j \in Runners : Left(j)' =>
          beat'[j] >= 1 /\ \A b \in Builds : boot'[b] # NoAge => beat'[j] > boot'[b]
  <2>1. \A j \in Runners : beat'[j] \in Ages
    BY <1>2, OlderType DEF TypeOK
  <2> QED
    BY <1>1, <1>3, <2>1 DEF Ages
<1>6. \A i \in Runners : since'[i] \in {0, 1}
  BY <1>2
<1> QED
  BY <1>2, <1>4, <1>5, <1>6 DEF BeatInv

\* The host has the build loaded that it reloads.
HostInv == boot[current] # NoAge

LEMMA HostStep == TypeOK /\ HostInv /\ [Next]_vars => HostInv'
<1> SUFFICES ASSUME TypeOK, HostInv, [Next]_vars PROVE HostInv'
  OBVIOUS
<1>1. ASSUME NEW b \in Builds, Load(b) PROVE HostInv'
  BY <1>1 DEF Load, HostInv, TypeOK, NoAge
<1>2. CASE Elapse
  <2>1. boot'[current] = Older(boot[current], Window + 1) /\ current' = current
    BY <1>2 DEF Elapse, Aged, TypeOK
  <2>2. boot[current] \in Ages /\ Window + 1 \in 0 .. Stale + 1
    BY DEF TypeOK
  <2> QED
    BY <2>1, <2>2, OlderType DEF HostInv
<1>3. CASE Crash
  BY <1>3 DEF Crash, Only, HostInv, TypeOK, NoAge
<1>4. CASE UNCHANGED host
  BY <1>4 DEF host, HostInv
<1>5. ASSUME NEW b \in Builds, Quiesce(b) \/ Call(b) PROVE UNCHANGED host
  BY <1>5 DEF Quiesce, Call, StopReturns, SeedReads, SeedWrites, SeedFails, StartGuard, Started, host
<1>6. ASSUME NEW i \in Runners, Loop(i) \/ LoopEnds(i) PROVE UNCHANGED host
  BY <1>6 DEF Loop, TickBegins, PublishesError, Publishes, Saves, LoopEnds
<1>7. CASE Reload \/ Edit \/ Hide \/ Unhide \/ UNCHANGED vars
  BY <1>4, <1>7 DEF Reload, Edit, Hide, Unhide, vars
<1> QED
  BY <1>1, <1>2, <1>3, <1>4, <1>5, <1>6, <1>7 DEF Next

LEMMA BeatStep == TypeOK /\ LifeInv /\ HostInv /\ BeatInv /\ [Next]_vars => BeatInv'
<1> SUFFICES ASSUME TypeOK, LifeInv, HostInv, BeatInv, [Next]_vars PROVE BeatInv'
  OBVIOUS
<1>1. ASSUME NEW b \in Builds, Load(b) PROVE BeatInv'
  <2>1. Withdraw(b, "load") /\ Kindled(b)
    BY <1>1 DEF Load, Kindled
  <2> QED
    BY <2>1, BeatWithdraw
<1>2. ASSUME NEW b \in Builds, Quiesce(b) PROVE BeatInv'
  <2>1. Withdraw(b, "quiesce") /\ Kindled(b)
    BY <1>2 DEF Quiesce, Kindled, TypeOK
  <2> QED
    BY <2>1, BeatWithdraw
<1>3. CASE Reload
  <2>1. current \in Builds /\ Withdraw(current, "load") /\ Kindled(current)
    BY <1>3 DEF Reload, host, TypeOK, HostInv, Kindled
  <2> QED
    BY <2>1, BeatWithdraw
<1>4. ASSUME NEW b \in Builds, SeedReads(b) \/ SeedWrites(b) \/ SeedFails(b) PROVE BeatInv'
  <2>1. /\ UNCHANGED <<boot, since, beat, loop, blind, leaving, goal>>
        /\ call[b] # "none" /\ \A c \in Builds \ {b} : call'[c] = call[c]
    BY <1>4 DEF SeedReads, SeedWrites, SeedFails, host, runner, TypeOK
  <2>2. \A c \in Builds : call'[c] # "none" \/ goal'[c] = "load" => boot[c] # NoAge
    BY <2>1 DEF BeatInv
  <2>3. \A j \in Runners : Left(j)' => Left(j)
    BY <2>1 DEF Left
  <2> QED
    BY <2>1, <2>2, <2>3, BeatStands
<1>5. ASSUME NEW b \in Builds, Started(b) PROVE BeatInv'
  <2>1. /\ UNCHANGED <<boot, since, beat, loop, blind, goal>>
        /\ call[b] = "first" /\ loop[leaving[b]] = "rest"
        /\ \A c \in Builds \ {b} : call'[c] = call[c] /\ leaving'[c] = leaving[c]
    BY <1>5 DEF Started, host, runner, TypeOK
  <2>2. \A c \in Builds : call'[c] # "none" \/ goal'[c] = "load" => boot[c] # NoAge
    BY <2>1 DEF BeatInv
  <2>3. \A j \in Runners : Left(j)' => Left(j)
    BY <2>1 DEF Left
  <2> QED
    BY <2>1, <2>2, <2>3, BeatStands
<1>6. CASE Edit \/ Hide \/ Unhide \/ UNCHANGED vars
  <2>1. UNCHANGED <<boot, since, beat, loop, blind, goal, call, leaving>>
    BY <1>6 DEF Edit, Hide, Unhide, vars, host, runner, lifecycle
  <2>2. \A c \in Builds : call'[c] # "none" \/ goal'[c] = "load" => boot[c] # NoAge
    BY <2>1 DEF BeatInv
  <2>3. \A j \in Runners : Left(j)' => Left(j)
    BY <2>1 DEF Left
  <2> QED
    BY <2>1, <2>2, <2>3, BeatStands
<1>7. ASSUME NEW b \in Builds, Call(b) PROVE BeatInv'
  BY <1>4, <1>5, <1>7, BeatStopReturns, BeatStartGuard DEF Call
<1>8. ASSUME NEW i \in Runners, Loop(i) \/ LoopEnds(i) PROVE BeatInv'
  BY <1>8, BeatLoop, BeatSaves, BeatLoopEnds DEF Loop
<1> QED
  BY <1>1, <1>2, <1>3, <1>6, <1>7, <1>8, BeatElapse, BeatCrash DEF Next

LEMMA BeatInvariance == Spec => []BeatInv
<1>1. Init => HostInv
  BY DEF Init, HostInv, Only, NoAge
<1>2. Init => BeatInv
  BY BeatInit
<1>3. TypeOK /\ HostInv /\ [Next]_vars => HostInv'
  BY HostStep
<1>4. TypeOK /\ LifeInv /\ HostInv /\ BeatInv /\ [Next]_vars => BeatInv'
  BY BeatStep
<1> QED
  BY <1>1, <1>2, <1>3, <1>4, LifecycleTypes, LifeInvariance, PTL DEF Spec

\* A save counts the guards there are and the one whose stop is awaited, at most: what a
\* process that was killed has left behind is older than any build loaded since.
THEOREM FalseAlarmsRuledOut == Spec => NoFalseAlarm
<1>1. TypeOK /\ LifeInv /\ BeatInv /\ [Next]_vars =>
        [\A i \in Runners : Saves(i) =>
           count'[i] <= Cardinality(Alive \cup ({leaving[b] : b \in Builds} \ {NoOne}))]_vars
  <2> DEFINE Seen == Alive \cup ({leaving[b] : b \in Builds} \ {NoOne})
  <2> SUFFICES ASSUME TypeOK, LifeInv, BeatInv, NEW i \in Runners, Saves(i)
               PROVE  count'[i] <= Cardinality(Seen)
    OBVIOUS
  <2>1. count'[i] = Cardinality(Live(i)) /\ loop[i] = "saving"
    BY DEF Saves, TypeOK
  <2>2. owner[i] \in Builds /\ boot[owner[i]] \in 0 .. Window + 1
    BY <2>1, OwnerLoaded
  <2>3. ASSUME NEW j \in Live(i), Left(j) PROVE FALSE
    <3>1. j \in Runners /\ Kept(i)[j] <= boot[owner[i]] /\ Kept(i)[j] <= Window /\ j # i
      BY <2>1, <2>3 DEF Live, Left
    <3>2. Kept(i)[j] = IF beat[j] > Stale THEN NoAge ELSE beat[j]
      BY <3>1 DEF Kept, Touched, TypeOK
    <3>3. beat[j] > boot[owner[i]] /\ beat[j] \in Ages
      BY <2>2, <2>3, <3>1 DEF BeatInv, TypeOK, NoAge
    <3> QED
      BY <2>2, <3>1, <3>2, <3>3 DEF NoAge, Ages
  <2>4. Live(i) \subseteq Seen
    BY <2>3 DEF Live, Left, Alive
  <2>5. Seen \subseteq Runners
    BY DEF TypeOK, Alive
  <2>6. IsFiniteSet(Seen)
    BY <2>5, FS_Subset
  <2> QED
    <3>1. Cardinality(Live(i)) <= Cardinality(Seen)
      BY <2>4, <2>6, FS_Subset
    <3> QED
      BY <2>1, <3>1
<1> QED
  BY <1>1, LifecycleTypes, LifeInvariance, BeatInvariance, PTL DEF Spec, NoFalseAlarm

\* No save of any guard takes the heartbeat of a live one for a dead one's, as long as
\* that one can read its configuration.
THEOREM LiveIsKept == Spec => LiveKept
<1>1. TypeOK /\ LifeInv /\ BeatInv /\ [Next]_vars =>
        [\A i \in Alive : beat'[i] = NoAge /\ beat[i] # NoAge => i \in blind]_vars
  <2> SUFFICES ASSUME TypeOK, LifeInv, BeatInv, Next, NEW j \in Runners, loop[j] # "none",
                      beat'[j] = NoAge, beat[j] # NoAge
               PROVE  j \in blind
    BY DEF Alive
  <2>1. ASSUME NEW i \in Runners, Saves(i) PROVE j \in blind
    BY <2>1, BeatSaves DEF Alive
  <2>2. ASSUME NEW b \in Builds, StopReturns(b) PROVE FALSE
    BY <2>2 DEF StopReturns, Alive
  <2>3. CASE Elapse \/ Crash
    <3>1. beat'[j] = Older(beat[j], Stale + 1)
      BY <2>3 DEF Elapse, Aged, Crash
    <3>2. beat[j] \in Ages /\ Stale + 1 \in 0 .. Stale + 1
      BY DEF TypeOK
    <3> QED
      BY <3>1, <3>2, OlderType
  <2>4. ASSUME beat' = beat PROVE FALSE
    BY <2>4
  <2>5. ASSUME NEW b \in Builds, Load(b) \/ Quiesce(b) \/ Call(b) PROVE j \in blind
    BY <2>2, <2>4, <2>5
       DEF Load, Quiesce, Withdraw, Call, SeedReads, SeedWrites, SeedFails, StartGuard, Started, runner
  <2>6. ASSUME NEW i \in Runners, Loop(i) \/ LoopEnds(i) PROVE j \in blind
    BY <2>1, <2>4, <2>6 DEF Loop, TickBegins, PublishesError, Publishes, LoopEnds
  <2>7. CASE Reload \/ Edit \/ Hide \/ Unhide
    BY <2>4, <2>7 DEF Reload, Withdraw, Edit, Hide, Unhide, runner
  <2> QED
    BY <2>3, <2>5, <2>6, <2>7 DEF Next
<1> QED
  BY <1>1, LifecycleTypes, LifeInvariance, BeatInvariance, PTL DEF Spec, LiveKept
================================================================================
