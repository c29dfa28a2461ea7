------------------------------ MODULE ChannelLog -------------------------------
(***************************************************************************)
(* The request-log scanner, internal/channellog: CPA writes one log per    *)
(* request into a directory, and the scanner reads each one once it has    *)
(* been quiet for a while, appends one fact about it to its own store and  *)
(* unlinks it.  CPA writes while the scanner looks, and the scanner may    *)
(* stop, die or fail between any two accesses to a file.                   *)
(*                                                                         *)
(* A log is written in NumChunks appends, and the routing block is in the  *)
(* last one: a fact of fewer chunks has no channel.  Logs only grow, so    *)
(* name|size|mtime, the key of the seen set, is the log and its size here. *)
(***************************************************************************)
EXTENDS Integers, Sequences, FiniteSets

CONSTANTS
    NumLogs,      \* request logs, in the order of their names
    NumChunks,    \* appends until a log is complete
    MaxFacts,     \* length of the ring the page is served from
    SeenCap,      \* seenCap: how many keys the seen set holds
    SeenTrim,     \* seenTrim: how many it drops when it is full
    Deletes,      \* the values delete_after_read may have
    Faults,       \* which calls may fail: "read", "store", "unlink"
    MaxFaults,    \* how many do in a run
    MaxStops,     \* how many times the scanner is stopped
    MaxCrashes    \* how many times the process dies

ASSUME SizesAssumption ==
    /\ NumLogs \in Nat /\ NumChunks \in Nat \ {0} /\ MaxFacts \in Nat \ {0}
    /\ SeenTrim \in Nat \ {0} /\ SeenCap \in Nat /\ SeenTrim <= SeenCap

ASSUME ChoicesAssumption ==
    /\ Deletes \subseteq BOOLEAN /\ Deletes # {}
    /\ Faults \subseteq {"read", "store", "unlink"}
    /\ {MaxFaults, MaxStops, MaxCrashes} \subseteq Nat

Log  == 1 .. NumLogs
Size == 1 .. NumChunks

VARIABLES
    written,   \* chunks CPA has written of each log
    quiet,     \* the log has not been modified for MinAge
    gone,      \* the log has been unlinked
    expired,   \* the log's day is past the retention of the fact store
    paused,    \* observes which logs CPA paused in for MinAge, before their end
    facts,     \* the fact store: the sizes each log was read at
    pc,        \* where the scanner's goroutine is
    delete,    \* delete_after_read
    todo,      \* logs this pass has still to look at
    size,      \* what the listing said of the current log's size
    ring,      \* facts served to the page, newest first
    seenKeys,  \* keys of the seen set, oldest first
    forgot,    \* observes that the seen set lacks the key of a stored fact: dropped,
               \* or never added, as the append said it had failed
    faults, stops, crashes

directory == <<written, quiet, gone, expired, paused>>
seenSet   == <<seenKeys, forgot>>
memory    == <<ring, seenSet>>
budgets   == <<faults, stops, crashes>>
vars      == <<directory, facts, pc, delete, todo, size, memory, budgets>>

PCs == {"stopped", "idle", "info", "stat", "read", "store", "unlink", "prune"}

-----------------------------------------------------------------------------
Current == CHOOSE f \in todo : \A g \in todo : f <= g

Seen(key) == \E i \in DOMAIN seenKeys : seenKeys[i] = key

Fails(kind) == kind \in Faults /\ faults < MaxFaults /\ faults' = faults + 1
Works == faults' = faults

\* The next log of this pass; after the last one the fact store is pruned.
NextLog ==
    /\ todo' = todo \ {Current}
    /\ pc' = IF todo = {Current} THEN "prune" ELSE "info"
    /\ size' = 0

Init ==
    /\ written = [f \in Log |-> 0]
    /\ quiet = [f \in Log |-> FALSE]
    /\ gone = [f \in Log |-> FALSE]
    /\ expired = {} /\ paused = {}
    /\ facts = [f \in Log |-> <<>>]
    /\ pc = "stopped" /\ delete \in Deletes
    /\ todo = {} /\ size = 0
    /\ ring = <<>> /\ seenKeys = <<>> /\ forgot = FALSE
    /\ faults = 0 /\ stops = 0 /\ crashes = 0

-----------------------------------------------------------------------------
(* CPA *)

Append1(f) ==
    /\ written[f] < NumChunks
    /\ written' = [written EXCEPT ![f] = @ + 1]
    /\ quiet' = [quiet EXCEPT ![f] = FALSE]
    /\ UNCHANGED <<gone, expired, paused, facts, pc, delete, todo, size, memory, budgets>>

\* MinAge goes by without a write.
Settle(f) ==
    /\ written[f] > 0 /\ ~quiet[f]
    /\ paused' = IF written[f] < NumChunks THEN paused \cup {f} ELSE paused
    /\ quiet' = [quiet EXCEPT ![f] = TRUE]
    /\ UNCHANGED <<written, gone, expired, facts, pc, delete, todo, size, memory, budgets>>

\* Days later.
Expire(f) ==
    /\ quiet[f] /\ f \notin expired
    /\ expired' = expired \cup {f}
    /\ UNCHANGED <<written, quiet, gone, paused, facts, pc, delete, todo, size, memory, budgets>>

-----------------------------------------------------------------------------
(* The scanner *)

\* A reconfigure builds a new scanner, with an empty ring and an empty seen set.
Start ==
    /\ pc = "stopped" /\ pc' = "idle"
    /\ delete' \in Deletes
    /\ UNCHANGED <<directory, facts, todo, size, memory, budgets>>

Gone ==
    /\ pc' = "stopped" /\ todo' = {} /\ size' = 0
    /\ ring' = <<>> /\ seenKeys' = <<>> /\ forgot' = FALSE
    /\ UNCHANGED <<directory, facts, delete, faults>>

\* Stop waits for the pass in flight.
Stop == pc = "idle" /\ stops < MaxStops /\ stops' = stops + 1 /\ UNCHANGED crashes /\ Gone

Crash == pc # "stopped" /\ crashes < MaxCrashes /\ crashes' = crashes + 1 /\ UNCHANGED stops /\ Gone

\* ScanOnce lists the directory.
List ==
    /\ pc = "idle"
    /\ todo' = {f \in Log : written[f] > 0 /\ ~gone[f]}
    /\ pc' = IF todo' = {} THEN "prune" ELSE "info"
    /\ UNCHANGED <<directory, facts, delete, size, memory, budgets>>

\* entry.Info(): a log that is too young is left alone.
Info ==
    /\ pc = "info"
    /\ \/ ~quiet[Current] /\ NextLog
       \/ /\ quiet[Current]
          /\ size' = written[Current]
          /\ pc' = "stat" /\ UNCHANGED todo
    /\ UNCHANGED <<directory, facts, delete, memory, budgets>>

\* os.Stat(): so is a log that has grown, or that this scanner read at this size.
Stat ==
    /\ pc = "stat"
    /\ \/ (written[Current] # size \/ Seen(<<Current, size>>)) /\ NextLog
       \/ /\ written[Current] = size /\ ~Seen(<<Current, size>>)
          /\ pc' = "read" /\ UNCHANGED <<todo, size>>
    /\ UNCHANGED <<directory, facts, delete, memory, budgets>>

markLast(key) ==   \* mutated form: remembers the last log only
    seenKeys' = <<key>> /\ UNCHANGED forgot

markSeen(key) ==
    LET grown == Append(seenKeys, key)
    IN  IF Seen(key) THEN UNCHANGED seenSet
        ELSE IF Len(grown) > SeenCap
        THEN seenKeys' = SubSeq(grown, SeenTrim + 1, Len(grown)) /\ forgot' = TRUE
        ELSE seenKeys' = grown /\ UNCHANGED forgot

ReadMarksFirst ==   \* mutated form: marks the log as seen before it knows it was read
    /\ pc = "read"
    /\ \/ Fails("read") /\ NextLog
       \/ Works /\ written[Current] # size /\ NextLog
       \/ Works /\ written[Current] = size /\ pc' = "store" /\ UNCHANGED <<todo, size>>
    /\ markSeen(<<Current, size>>)
    /\ UNCHANGED <<directory, facts, delete, ring, stops, crashes>>

\* parseLog: a log that cannot be read is tried again; one that turns out longer
\* than the listing said is not stored, but marked as seen at the old size.
Read ==
    /\ pc = "read"
    /\ \/ Fails("read") /\ NextLog /\ UNCHANGED seenSet
       \/ Works /\ written[Current] # size /\ NextLog /\ markSeen(<<Current, size>>)
       \/ /\ Works /\ written[Current] = size
          /\ pc' = "store" /\ UNCHANGED <<todo, size, seenSet>>
    /\ UNCHANGED <<directory, facts, delete, ring, stops, crashes>>

\* factWriter.append: the fact of the log that is read, at the end of its day's file.
append == facts' = [facts EXCEPT ![Current] = Append(@, size)]

\* recordFact: the newest fact first, and no more than MaxFacts.
recordFact ==
    LET newest == <<<<Current, size>>>> \o ring
    IN  ring' = IF Len(newest) > MaxFacts THEN SubSeq(newest, 1, MaxFacts) ELSE newest

StoreAnyway ==   \* mutated form: a failed append does not keep the log
    /\ pc = "store" /\ delete
    /\ \/ Fails("store") /\ UNCHANGED <<facts, ring>>
       \/ Works /\ append /\ recordFact
    /\ pc' = "unlink" /\ UNCHANGED <<todo, size, seenSet>>
    /\ UNCHANGED <<directory, delete, stops, crashes>>

\* scanFile: an append that fails keeps its log.  One whose close fails has left its fact.
Store ==
    /\ pc = "store"
    /\ \/ /\ Fails("store") /\ NextLog /\ UNCHANGED <<ring, seenKeys>>
          /\ \/ UNCHANGED <<facts, forgot>>
             \/ append /\ forgot' = TRUE
       \/ /\ Works /\ append /\ recordFact
          /\ IF delete
             THEN pc' = "unlink" /\ UNCHANGED <<todo, size, seenSet>>
             ELSE NextLog /\ markSeen(<<Current, size>>)
    /\ UNCHANGED <<directory, delete, stops, crashes>>

\* os.Remove: a failure is noted, and the log counts as read all the same.
Unlink ==
    /\ pc = "unlink"
    /\ \/ Works /\ gone' = [gone EXCEPT ![Current] = TRUE]
       \/ Fails("unlink") /\ UNCHANGED gone
    /\ markSeen(<<Current, size>>)
    /\ NextLog
    /\ UNCHANGED <<written, quiet, expired, paused, facts, delete, ring, stops, crashes>>

\* pruneStore: the fact files of expired days go.
Prune ==
    /\ pc = "prune" /\ pc' = "idle"
    /\ facts' = [f \in Log |-> IF f \in expired THEN <<>> ELSE facts[f]]
    /\ UNCHANGED <<directory, delete, todo, size, memory, budgets>>

-----------------------------------------------------------------------------
Scan == List \/ Info \/ Stat \/ Read \/ Store \/ Unlink \/ Prune

Next ==
    \/ \E f \in Log : Append1(f) \/ Settle(f) \/ Expire(f)
    \/ Start \/ Stop \/ Crash \/ Scan

\* The poll loop goes on, the host starts what it stopped, and time goes by.
Fairness == WF_vars(Scan) /\ WF_vars(Start) /\ \A f \in Log : WF_vars(Settle(f))

Spec == Init /\ [][Next]_vars
FairSpec == Spec /\ Fairness

-----------------------------------------------------------------------------
(* Properties *)

TypeOK ==
    /\ written \in [Log -> 0 .. NumChunks]
    /\ quiet \in [Log -> BOOLEAN] /\ gone \in [Log -> BOOLEAN]
    /\ expired \subseteq Log /\ paused \subseteq Log
    /\ facts \in [Log -> Seq(Size)]
    /\ pc \in PCs /\ delete \in BOOLEAN
    /\ todo \in SUBSET Log /\ size \in {0} \cup Size
    /\ ring \in Seq(Log \X Size) /\ Len(ring) <= MaxFacts
    /\ seenKeys \in Seq(Log \X Size) /\ Len(seenKeys) <= SeenCap
    /\ forgot \in BOOLEAN
    /\ {faults, stops, crashes} \subseteq Nat

StoredAt(f, n) == \E i \in DOMAIN facts[f] : facts[f][i] = n

\* With every variable in its type: a log that is gone left a fact of all of it
\* behind, and whatever the page is served is on disk.  No request loses its channel
\* because its log was unlinked too early (scanFile's order of append, recordFact and
\* unlink, and the two size checks), until the retention deletes the fact.  A log
\* CPA paused in for MinAge looks complete to the scanner, and is exempt.
StoredFirst ==
    /\ TypeOK
    /\ \A f \in Log \ (expired \cup paused) : gone[f] => StoredAt(f, NumChunks)
    /\ \A i \in DOMAIN ring : ring[i][1] \in expired \/ StoredAt(ring[i][1], ring[i][2])

\* As long as the scanner lives, its seen set has dropped nothing and no append that
\* failed has left its fact on disk, it stores no fact twice: neither of a log that
\* stays on disk on purpose, nor of one whose unlink failed.
NoFactTwice ==
    stops + crashes = 0 /\ ~forgot =>
        \A f \in Log : \A i, j \in DOMAIN facts[f] : facts[f][i] = facts[f][j] => i = j

\* The channel of a complete log is known in the end, whatever failed once, and
\* whether or not the log is kept.
ChannelKnown ==
    \A f \in Log : (written[f] = NumChunks /\ ~gone[f]) ~>
                        (StoredAt(f, NumChunks) \/ f \in expired \cup paused)
================================================================================
