--------------------------------- MODULE Join ----------------------------------
(***************************************************************************)
(* The join of usage records and channel facts, internal/observation:      *)
(* join.go and factsource.go.  A view matches every record against the     *)
(* facts loaded last, by session first and by token counters otherwise;    *)
(* the facts land in the store in any order, before or after the record,   *)
(* twice if the scanner died between storing one and unlinking its log,    *)
(* and the newest are in the scanner's ring as well.                       *)
(*                                                                         *)
(* A request is a number; its fact goes by the same number.  The pair of   *)
(* token counters is one value, NoTokens being 0/0.                        *)
(***************************************************************************)
EXTENDS Integers, FiniteSets

CONSTANTS
    NumRequests,
    Times,         \* when a request may be made, as its record says
    Lags,          \* by how much its log's timestamp may be earlier
    Sessions, NoSession,
    Counters, NoTokens,
    JoinWindow,    \* joinWindow: facts closer than this match by session
    UsageWindow,   \* joinUsageWindow: facts up to this match by counters
    TTL,           \* factSourceTTL, in ticks
    MaxRepeats     \* how many facts are stored a second time

ASSUME JoinAssumption ==
    /\ NumRequests \in Nat /\ Times \subseteq Nat /\ Lags \subseteq Nat
    /\ NoSession \notin Sessions /\ NoTokens \notin Counters
    /\ {JoinWindow, UsageWindow, TTL} \subseteq Nat \ {0} /\ MaxRepeats \in Nat

Request == 1 .. NumRequests
None    == 0

\* What a request's record and its log agree on, and whether the log has a channel.
Story == [at : Times, lag : Lags, session : Sessions \cup {NoSession},
          tokens : Counters \cup {NoTokens}, channel : BOOLEAN]

VARIABLES
    story,     \* of each request
    recorded,  \* requests whose record is stored
    stored,    \* how often the fact of each is in the fact files
    ring,      \* requests whose fact the running scanner still holds
    cached,    \* the facts loaded last, as often as they were stored
    loaded,    \* how long ago, or TTL: long enough to load again
    shown,     \* the request whose fact each record had in the last view, or None
    repeats

facts == <<stored, ring>>
vars  == <<story, recorded, facts, cached, loaded, shown, repeats>>

-----------------------------------------------------------------------------
(* The match *)

Gap(m, n) == IF m < n THEN n - m ELSE m - n

\* The distance between a record and a fact.
Delta(r, f) == Gap(story[r].at, story[f].at - story[f].lag)

\* Facts in a load that could fill a channel in.
Usable(known) == {f \in Request : known[f] > 0 /\ story[f].channel}

InSession(known, r) ==
    {f \in Usable(known) : /\ story[r].session # NoSession
                           /\ story[f].session = story[r].session
                           /\ Delta(r, f) < JoinWindow}

Closest(known, r) ==
    {f \in InSession(known, r) : \A g \in InSession(known, r) : Delta(r, f) <= Delta(r, g)}

ByUsage(known, r) ==
    {f \in Usable(known) : /\ story[r].tokens # NoTokens
                           /\ story[f].tokens = story[r].tokens
                           /\ Delta(r, f) <= UsageWindow}

MatchesAny(known, r) ==   \* mutated form: an ambiguous pair is not refused
    IF InSession(known, r) # {} THEN Closest(known, r)
    ELSE IF ByUsage(known, r) # {} THEN ByUsage(known, r) ELSE {None}

\* Of facts equally close in a session, the one loaded first is taken: any.  A
\* pair of counters that more than one loaded fact has identifies nobody.
Matches(known, r) ==
    IF InSession(known, r) # {} THEN Closest(known, r)
    ELSE IF \E f \in Request : ByUsage(known, r) = {f} /\ known[f] = 1
    THEN ByUsage(known, r) ELSE {None}

-----------------------------------------------------------------------------
Nothing == [r \in Request |-> 0]

Init ==
    /\ story \in [Request -> Story]
    /\ recorded = {} /\ stored = Nothing /\ ring = {}
    /\ cached = Nothing /\ loaded = TTL
    /\ shown = [r \in Request |-> None]
    /\ repeats = 0

\* A request ends, and the recorder stores its record.
Record(r) ==
    /\ r \notin recorded
    /\ recorded' = recorded \cup {r}
    /\ UNCHANGED <<story, facts, cached, loaded, shown, repeats>>

\* The scanner stores the fact; again, if it died before the log was unlinked.
Land(r) ==
    /\ \/ stored[r] = 0 /\ UNCHANGED repeats
       \/ stored[r] = 1 /\ repeats < MaxRepeats /\ repeats' = repeats + 1
    /\ stored' = [stored EXCEPT ![r] = @ + 1]
    /\ ring' = ring \cup {r}
    /\ UNCHANGED <<story, recorded, cached, loaded, shown>>

\* A new scanner and a new recorder: an empty ring, and nothing cached.
Restart ==
    /\ ring' = {} /\ cached' = Nothing /\ loaded' = TTL
    /\ UNCHANGED <<story, recorded, stored, shown, repeats>>

\* Each record takes one of the facts it matches, and the others have none.
Show(known) ==
    /\ shown' \in [Request -> Request \cup {None}]
    /\ \A r \in Request : shown'[r] \in IF r \in recorded THEN Matches(known, r) ELSE {None}

MergeAll ==   \* mutated form: what the ring and the files both hold counts twice
    [r \in Request |-> stored[r] + IF r \in ring THEN 1 ELSE 0]

\* loadFactFiles and mergeFacts: a fact of the ring is left out if the files have it.
Merge ==
    [r \in Request |-> IF stored[r] = 0 /\ r \in ring THEN 1 ELSE stored[r]]

ViewLoadedOnce ==   \* mutated form: what was loaded once is never too old
    /\ loaded = TTL /\ cached = Nothing
    /\ cached' = Merge /\ loaded' = 0
    /\ Show(Merge)
    /\ UNCHANGED <<story, recorded, facts, repeats>>

\* A view whose facts are too old loads them again.
ViewLoads ==
    /\ loaded = TTL
    /\ cached' = Merge /\ loaded' = 0
    /\ Show(Merge)
    /\ UNCHANGED <<story, recorded, facts, repeats>>

ViewCached ==
    /\ loaded < TTL
    /\ Show(cached)
    /\ UNCHANGED <<story, recorded, facts, cached, loaded, repeats>>

Tick ==
    /\ loaded < TTL /\ loaded' = loaded + 1
    /\ UNCHANGED <<story, recorded, facts, cached, shown, repeats>>

Next ==
    \/ \E r \in Request : Record(r) \/ Land(r)
    \/ Restart \/ ViewLoads \/ ViewCached \/ Tick

\* The page and the guard look again and again, and time goes by.
Spec == Init /\ [][Next]_vars
FairSpec == Spec /\ WF_vars(ViewLoads) /\ WF_vars(ViewCached) /\ WF_vars(Tick)

-----------------------------------------------------------------------------
(* Properties *)

TypeOK ==
    /\ story \in [Request -> Story]
    /\ recorded \subseteq Request
    /\ stored \in [Request -> 0 .. 2] /\ cached \in [Request -> 0 .. 2]
    /\ ring \subseteq Request
    /\ loaded \in 0 .. TTL
    /\ shown \in [Request -> Request \cup {None}]
    /\ repeats \in 0 .. MaxRepeats

\* The turns of one session are so far apart that their clocks tell them apart.
Turns ==
    \A r, q \in Request : r # q /\ story[r].session = story[q].session
                                /\ story[r].session # NoSession =>
        Gap(story[r].at, story[q].at) > story[r].lag + story[q].lag

\* Its own fact is within the window of the way it is matched.
Near(r) == IF story[r].session # NoSession THEN story[r].lag < JoinWindow
           ELSE story[r].lag <= UsageWindow

\* A request whose fact was loaded is shown that fact's channel or none, never that
\* of another request ("picking one of them would attach a measured channel to the
\* wrong request").  Until its own fact is there, a record may well be shown another's.
JoinedOwn ==
    \A r \in Request :
        Turns /\ Near(r) /\ cached[r] > 0 /\ story[r].channel => shown[r] \in {r, None}

\* A request the rule can tell from the others: by its session, or by counters that
\* no request around it shares.
Identified(r) ==
    /\ story[r].channel /\ Turns /\ Near(r)
    /\ \/ story[r].session # NoSession
       \/ /\ story[r].tokens # NoTokens
          /\ \A q \in Request \ {r} : story[q].tokens # story[r].tokens

\* Its channel is shown in the end, whatever the order record and fact come in and
\* whatever was cached meanwhile.  A fact stored twice makes counters ambiguous.
KnownIsShown ==
    \A r \in Request :
        (Identified(r) /\ r \in recorded /\ stored[r] > 0)
            ~> (shown[r] = r \/ (story[r].session = NoSession /\ stored[r] = 2))
================================================================================
