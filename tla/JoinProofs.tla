------------------------------ MODULE JoinProofs -------------------------------
(***************************************************************************)
(* What TLAPS proves of Join, for any number of requests, any stories of   *)
(* theirs and any windows.                                                 *)
(***************************************************************************)
EXTENDS Join, TLAPS

-----------------------------------------------------------------------------
(* The match *)

LEMMA GapType ==
    ASSUME NEW m \in Int, NEW n \in Int PROVE Gap(m, n) \in Nat
  BY DEF Gap

\* What is known of the times of a request.
LEMMA StoryTimes ==
    ASSUME story \in [Request -> Story], NEW r \in Request
    PROVE  story[r].at \in Nat /\ story[r].lag \in Nat
  BY JoinAssumption DEF Story

\* Its own fact is as far from a record as its log's clock lags.
LEMMA OwnDelta ==
    ASSUME story \in [Request -> Story], NEW r \in Request
    PROVE  Delta(r, r) = story[r].lag
  BY StoryTimes DEF Delta, Gap

\* A request is as far from another's fact as the two are apart, less the lag.
LEMMA OtherDelta ==
    ASSUME story \in [Request -> Story], NEW r \in Request, NEW q \in Request,
           Gap(story[r].at, story[q].at) > story[r].lag + story[q].lag
    PROVE  Delta(r, q) > Delta(r, r)
<1>1. story[r].at \in Nat /\ story[r].lag \in Nat /\ story[q].at \in Nat /\ story[q].lag \in Nat
  BY StoryTimes
<1>2. Delta(r, q) > story[r].lag
  BY <1>1 DEF Delta, Gap
<1> QED
  BY <1>2, OwnDelta

\* A match never takes another's fact once the record's own is among the facts it
\* chooses from (join.go, matchBySession and matchByUsage).
LEMMA OwnIsMatched ==
    ASSUME story \in [Request -> Story], NEW STATE known, NEW r \in Request,
           known[r] > 0, story[r].channel, Turns, Near(r)
    PROVE  Matches(known, r) \subseteq {r, None}
<1>1. r \in Usable(known)
  BY DEF Usable
<1>2. Delta(r, r) = story[r].lag /\ story[r].lag \in Nat
  BY OwnDelta, StoryTimes
<1>3. CASE story[r].session # NoSession
  <2>1. r \in InSession(known, r)
    BY <1>1, <1>2, <1>3 DEF InSession, Near
  <2>2. ASSUME NEW q \in Closest(known, r), q # r PROVE FALSE
    <3>1. q \in Request /\ story[q].session = story[r].session
      BY DEF Closest, InSession, Usable
    <3>2. Gap(story[r].at, story[q].at) > story[r].lag + story[q].lag
      BY <1>3, <2>2, <3>1 DEF Turns
    <3>3. Delta(r, q) > Delta(r, r)
      BY <3>1, <3>2, OtherDelta
    <3>4. Delta(r, q) <= Delta(r, r)
      BY <2>1 DEF Closest
    <3>5. Delta(r, q) \in Nat /\ Delta(r, r) \in Nat
      <4>1. story[q].at - story[q].lag \in Int
        BY <3>1, StoryTimes
      <4>2. story[r].at - story[r].lag \in Int /\ story[r].at \in Int
        BY StoryTimes
      <4> QED
        BY <4>1, <4>2, GapType DEF Delta
    <3> QED
      BY <3>3, <3>4, <3>5
  <2> QED
    BY <2>1, <2>2 DEF Matches
<1>4. CASE story[r].session = NoSession
  <2>1. InSession(known, r) = {}
    BY <1>4 DEF InSession
  <2>2. CASE story[r].tokens # NoTokens
    <3>1. r \in ByUsage(known, r)
      BY <1>1, <1>2, <1>4, <2>2 DEF ByUsage, Near
    <3>2. (\E f \in Request : ByUsage(known, r) = {f} /\ known[f] = 1)
            => ByUsage(known, r) = {r}
      BY <3>1
    <3> QED
      BY <2>1, <3>2 DEF Matches
  <2>3. CASE story[r].tokens = NoTokens
    <3>1. ByUsage(known, r) = {}
      BY <2>3 DEF ByUsage
    <3> QED
      BY <2>1, <3>1 DEF Matches
  <2> QED
    BY <2>2, <2>3
<1> QED
  BY <1>3, <1>4

-----------------------------------------------------------------------------
(* Types *)

LEMMA MergeType ==
    ASSUME TypeOK PROVE Merge \in [Request -> 0 .. 2]
  BY DEF TypeOK, Merge

LEMMA TypeInit ==
    Init => TypeOK
  BY JoinAssumption DEF Init, TypeOK, Nothing

LEMMA TypeNext ==
    TypeOK /\ [Next]_vars => TypeOK'
<1> SUFFICES ASSUME TypeOK, [Next]_vars PROVE TypeOK'
  OBVIOUS
<1> USE DEF TypeOK
<1>1. ASSUME NEW r \in Request, Record(r) PROVE TypeOK'
  BY <1>1 DEF Record, facts
<1>2. ASSUME NEW r \in Request, Land(r) PROVE TypeOK'
  <2>1. stored[r] + 1 \in 0 .. 2
    BY <1>2 DEF Land
  <2>2. stored' \in [Request -> 0 .. 2]
    BY <1>2, <2>1 DEF Land
  <2>3. repeats' \in 0 .. MaxRepeats
    BY <1>2, JoinAssumption DEF Land
  <2> QED
    BY <1>2, <2>2, <2>3 DEF Land
<1>3. CASE Restart
  BY <1>3, JoinAssumption DEF Restart, Nothing
<1>4. CASE ViewLoads
  BY <1>4, MergeType, JoinAssumption DEF ViewLoads, Show, facts
<1>5. CASE ViewCached
  BY <1>5 DEF ViewCached, Show, facts
<1>6. CASE Tick
  BY <1>6, JoinAssumption DEF Tick, facts
<1>7. CASE UNCHANGED vars
  BY <1>7 DEF vars, facts
<1> QED
  BY <1>1, <1>2, <1>3, <1>4, <1>5, <1>6, <1>7 DEF Next

\* TypeOK holds of every behaviour of the join.
THEOREM JoinTypes == Spec => []TypeOK
  BY TypeInit, TypeNext, PTL DEF Spec

-----------------------------------------------------------------------------
(* A request is shown its own channel *)

\* Whatever a record was shown, it matched among the facts that are cached, unless
\* they have been forgotten since.  JoinedOwn is not inductive by itself: it does not
\* say where shown comes from, so no step could keep it for a fact loaded later.
ShownMatches ==
    \A r \in Request : cached[r] > 0 => shown[r] \in Matches(cached, r) \cup {None}

LEMMA ShownInit ==
    Init => ShownMatches
  BY DEF Init, ShownMatches, Nothing

LEMMA ShownNext ==
    TypeOK /\ ShownMatches /\ [Next]_vars => ShownMatches'
<1> SUFFICES ASSUME TypeOK, ShownMatches, [Next]_vars, NEW r \in Request, cached'[r] > 0
             PROVE  shown'[r] \in Matches(cached, r)' \cup {None}
  BY DEF ShownMatches
<1>1. story' = story
  BY DEF Next, Record, Land, Restart, ViewLoads, ViewCached, Tick, vars
<1>2. Matches(cached, r)' = Matches(cached', r)
  BY <1>1 DEF Matches, Closest, InSession, ByUsage, Usable, Delta
<1>3. ASSUME UNCHANGED <<cached, shown>> PROVE shown'[r] \in Matches(cached', r) \cup {None}
  BY <1>3 DEF ShownMatches
<1>4. CASE Restart
  BY <1>4 DEF Restart, Nothing
<1>5. CASE ViewLoads
  <2>1. cached' = Merge /\ Show(Merge)
    BY <1>5 DEF ViewLoads
  <2>2. shown'[r] \in Matches(Merge, r) \cup {None}
    BY <2>1 DEF Show
  <2> QED
    BY <1>2, <2>1, <2>2
<1>6. CASE ViewCached
  <2>1. cached' = cached /\ Show(cached)
    BY <1>6 DEF ViewCached
  <2>2. shown'[r] \in Matches(cached, r) \cup {None}
    BY <2>1 DEF Show
  <2> QED
    BY <1>2, <2>1, <2>2
<1>7. CASE (\E q \in Request : Record(q) \/ Land(q)) \/ Tick \/ UNCHANGED vars
  <2>1. UNCHANGED <<cached, shown>>
    BY <1>7 DEF Record, Land, Tick, vars
  <2> QED
    BY <1>2, <1>3, <2>1
<1> QED
  BY <1>4, <1>5, <1>6, <1>7 DEF Next

\* A request whose fact is loaded is shown its own channel or none.
THEOREM OwnChannel == Spec => []JoinedOwn
<1>1. TypeOK /\ ShownMatches => JoinedOwn
  <2> SUFFICES ASSUME TypeOK, ShownMatches, NEW r \in Request,
                      Turns, Near(r), cached[r] > 0, story[r].channel
               PROVE  shown[r] \in {r, None}
    BY DEF JoinedOwn
  <2>1. Matches(cached, r) \subseteq {r, None}
    BY OwnIsMatched DEF TypeOK
  <2> QED
    BY <2>1 DEF ShownMatches
<1>2. Init => TypeOK /\ ShownMatches
  BY TypeInit, ShownInit
<1>3. TypeOK /\ ShownMatches /\ [Next]_vars => (TypeOK /\ ShownMatches)'
  BY TypeNext, ShownNext
<1> QED
  BY <1>1, <1>2, <1>3, PTL DEF Spec
================================================================================
