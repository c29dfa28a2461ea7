------------------------------- MODULE Recorder --------------------------------
(***************************************************************************)
(* The usage recorder and its record store, internal/observation:          *)
(* ObserveUsage on the host's request threads, the writer goroutine, Flush,*)
(* Stop, the retention loop and the scan every query runs.                 *)
(*                                                                         *)
(* A record is a model value; one request thread brings it.  What the      *)
(* counters of Health count is kept as the set of records counted, except  *)
(* Queued, which goes up and down.  A file holds the lines a scan decodes. *)
(***************************************************************************)
EXTENDS Integers, FiniteSets, SequencesExt

CONSTANTS
    Records,        \* what the host reports, one usage record per request
    QueueCap,       \* queueCapacity, at least one
    BufCap,         \* records that fill the 64 KiB buffer and force a flush
    LastDay,        \* the days of a run are 1 .. LastDay
    RetentionDays,  \* channel_retention_days
    SizeCap,        \* channel_max_size_mb, in records
    MaxBreaks,      \* how many times the disk stops taking writes
    MaxStops,       \* how many times a recorder is stopped (reconfigure, quiesce)
    MaxScans,       \* how many queries scan the store
    MaxEvents       \* how many of those three there are in all

ASSUME BoundsAssumption ==
    /\ IsFiniteSet(Records)
    /\ {QueueCap, BufCap, LastDay, RetentionDays} \subseteq Nat \ {0}
    /\ {SizeCap, MaxBreaks, MaxStops, MaxScans, MaxEvents} \subseteq Nat

VARIABLES
    life,       \* which recorder this is
    started,    \* Recorder.started
    stopping,   \* stopCh is closed
    writer,     \* where writeLoop is
    queue,      \* the channel of records
    queued,     \* Health.Queued
    events, dropped, written, failed,   \* the records each counter counted
    caller,     \* where the request thread of each record is in ObserveUsage
    held,       \* the recorder that thread got from Active()
    day,        \* the UTC day of the record
    store,      \* the open file: its day, its name still there, buffer, sticky error
    files,      \* the lines on disk, the files there are, those ending in half a line
    diskOk,     \* the disk takes writes
    flusher,    \* a call of Flush: where it is, what was queued when it was made
    scan,       \* a query: where it is, the files it listed, what it got
    today, breaks, scans,
    early,      \* records in the queue or the buffer when stopCh was closed
    wiped       \* days whose file the retention deleted (observes, no code reads it)

counters == <<queued, events, dropped, written, failed>>
threads  == <<caller, held, day>>
process  == <<life, started, stopping, writer>>
outside  == <<diskOk, today, breaks>>
reading  == <<scan, scans>>
vars == <<process, queue, counters, threads, store, files, outside, flusher, reading,
          early, wiped>>

-----------------------------------------------------------------------------
Days  == 1 .. LastDay
NoDay == 0

Closed  == [day |-> NoDay, linked |-> FALSE, buffer |-> <<>>, broken |-> FALSE]
Opened(d) == [day |-> d, linked |-> TRUE, buffer |-> <<>>, broken |-> FALSE]

NoFlush == [pc |-> "idle", before |-> {}]
NoScan  == [pc |-> "idle", want |-> {}, days |-> {}, got |-> {}]

OnFile == UNION {files.lines[d] : d \in Days}

\* What the writer still holds and a flush would bring to the file.
Buffered == IF store.broken \/ ~store.linked THEN {} ELSE ToSet(store.buffer)

Init ==
    /\ life = 1 /\ started = FALSE /\ stopping = FALSE /\ writer = "off"
    /\ queue = <<>> /\ queued = 0
    /\ events = {} /\ dropped = {} /\ written = {} /\ failed = {}
    /\ caller = [r \in Records |-> "idle"]
    /\ held = [r \in Records |-> 0]
    /\ day = [r \in Records |-> NoDay]
    /\ store = Closed
    /\ files = [lines |-> [d \in Days |-> {}], present |-> {}, ragged |-> {}]
    /\ diskOk = TRUE /\ today = 1 /\ breaks = 0
    /\ flusher = NoFlush /\ scan = NoScan /\ scans = 0
    /\ early = {} /\ wiped = {}

-----------------------------------------------------------------------------
(* The store.  An outcome is what a call leaves: the store and the files.   *)

\* Lines appended to the file of a day.  If it ends in half a line, the first
\* of them runs on from it, and the reader decodes neither.
Landed(f, d, rs) ==
    [f EXCEPT !.lines[d] = @ \cup ToSet(IF d \in f.ragged /\ rs # <<>> THEN Tail(rs) ELSE rs),
              !.ragged   = IF rs # <<>> THEN @ \ {d} ELSE @]

Torn(f, d, half) == IF half THEN [f EXCEPT !.ragged = @ \cup {d}] ELSE f

\* bufio.Writer.Flush: after an error it takes nothing more, for ever.  A file
\* whose name is gone takes the bytes, and nobody will read them.
Flushed(s, f) ==
    IF s.broken \/ s.day = NoDay \/ s.buffer = <<>>
    THEN {[store |-> s, files |-> f, ok |-> ~s.broken]}
    ELSE IF diskOk
    THEN {[store |-> [s EXCEPT !.buffer = <<>>],
           files |-> IF s.linked THEN Landed(f, s.day, s.buffer) ELSE f,
           ok    |-> TRUE]}
    ELSE {[store |-> [s EXCEPT !.buffer = <<>>, !.broken = TRUE],
           files |-> IF s.linked
                     THEN Torn(Landed(f, s.day, SubSeq(s.buffer, 1, n)), s.day, half)
                     ELSE f,
           ok    |-> FALSE] : n \in 0 .. Len(s.buffer) - 1, half \in BOOLEAN}

\* rotateLocked: what the old file did not take is forgotten.  A disk that takes
\* no writes may still open a file that is there.
Rotated(s, f, d) ==
    UNION {{[store |-> Opened(d), files |-> [o.files EXCEPT !.present = @ \cup {d}], ok |-> TRUE]
               : x \in {y \in {1} : diskOk \/ d \in o.files.present}}
           \cup {[store |-> Closed, files |-> o.files, ok |-> FALSE]
               : x \in {y \in {1} : ~diskOk}}
        : o \in Flushed(s, f)}

\* store.append, once the file of the record's day is open.
Put(s, f, r) ==
    IF s.broken THEN {[store |-> s, files |-> f, ok |-> FALSE]}
    ELSE LET t == [s EXCEPT !.buffer = Append(@, r)]
         IN  IF Len(t.buffer) >= BufCap THEN Flushed(t, f)
             ELSE {[store |-> t, files |-> f, ok |-> TRUE]}

AppendedOver(s, f, r) ==   \* mutated form: the old day's buffer is not flushed
    IF s.day = day[r] THEN Put(s, f, r)
    ELSE Put(Opened(day[r]), [f EXCEPT !.present = @ \cup {day[r]}], r)

Appended(s, f, r) ==
    IF s.day = day[r] THEN Put(s, f, r)
    ELSE UNION {IF o.ok THEN Put(o.store, o.files, r) ELSE {o} : o \in Rotated(s, f, day[r])}

-----------------------------------------------------------------------------
(* The life of a recorder *)

Stops == life - 1 + IF stopping THEN 1 ELSE 0
Room  == breaks + scans + Stops < MaxEvents

Start ==
    /\ ~started /\ writer = "off"
    /\ started' = TRUE /\ writer' = "run"
    /\ UNCHANGED <<life, stopping, queue, counters, threads, store, files, outside, flusher,
                   reading, early, wiped>>

Stop ==
    /\ started /\ ~stopping /\ life <= MaxStops /\ Room
    /\ stopping' = TRUE
    /\ early' = ToSet(queue) \cup Buffered
    /\ UNCHANGED <<life, started, writer, queue, counters, threads, store, files, outside,
                   flusher, reading, wiped>>

\* wg.Wait is over: the store is closed.
Close ==
    /\ started /\ writer = "ended"
    /\ \E o \in Flushed(store, files) : files' = o.files
    /\ store' = Closed
    /\ started' = FALSE
    /\ UNCHANGED <<life, stopping, writer, queue, counters, threads, outside, flusher,
                   reading, early, wiped>>

\* A reconfigure builds another recorder over the same directory.
New ==
    /\ ~started /\ writer = "ended"
    /\ life' = life + 1 /\ writer' = "off" /\ stopping' = FALSE
    /\ queue' = <<>> /\ queued' = 0
    /\ events' = {} /\ dropped' = {} /\ written' = {} /\ failed' = {}
    /\ flusher' = NoFlush /\ scan' = NoScan
    /\ early' = {}
    /\ UNCHANGED <<started, threads, store, files, outside, scans, wiped>>

-----------------------------------------------------------------------------
(* ObserveUsage *)

\* The recorder is running, and the record gets its time: a request that began
\* yesterday may end today.
Check(r) ==
    /\ caller[r] = "idle" /\ started
    /\ caller' = [caller EXCEPT ![r] = "checked"]
    /\ held' = [held EXCEPT ![r] = life]
    /\ \E d \in {today - 1, today} \cap Days : day' = [day EXCEPT ![r] = d]
    /\ UNCHANGED <<process, queue, counters, store, files, outside, flusher, reading, early,
                   wiped>>

Away(r) == caller' = [caller EXCEPT ![r] = "done"]

\* Under the lock: counted, and dropped if the queue looks full.
Enlist(r) ==
    /\ caller[r] = "checked" /\ held[r] = life
    /\ events' = events \cup {r}
    /\ \/ /\ Len(queue) = QueueCap
          /\ dropped' = dropped \cup {r}
          /\ Away(r) /\ UNCHANGED queued
       \/ /\ Len(queue) # QueueCap
          /\ queued' = queued + 1
          /\ caller' = [caller EXCEPT ![r] = "enlisted"]
          /\ UNCHANGED dropped
    /\ UNCHANGED <<process, queue, written, failed, held, day, store, files, outside, flusher,
                   reading, early, wiped>>

SendForgets(r) ==   \* mutated form: a record that does not fit stays counted as queued
    /\ caller[r] = "enlisted" /\ held[r] = life
    /\ IF Len(queue) < QueueCap
       THEN queue' = Append(queue, r) /\ UNCHANGED dropped
       ELSE dropped' = dropped \cup {r} /\ UNCHANGED queue
    /\ Away(r)
    /\ UNCHANGED <<process, queued, events, written, failed, held, day, store, files, outside,
                   flusher, reading, early, wiped>>

SendUncounted(r) ==   \* mutated form: a record that does not fit is dropped in silence
    /\ caller[r] = "enlisted" /\ held[r] = life
    /\ IF Len(queue) < QueueCap
       THEN queue' = Append(queue, r) /\ UNCHANGED queued
       ELSE queued' = queued - 1 /\ UNCHANGED queue
    /\ Away(r)
    /\ UNCHANGED <<process, events, dropped, written, failed, held, day, store, files, outside,
                   flusher, reading, early, wiped>>

\* The send does not block.  The queue may have filled up since.
Send(r) ==
    /\ caller[r] = "enlisted" /\ held[r] = life
    /\ \/ /\ Len(queue) < QueueCap
          /\ queue' = Append(queue, r)
          /\ UNCHANGED <<dropped, queued>>
       \/ /\ Len(queue) = QueueCap
          /\ dropped' = dropped \cup {r}
          /\ queued' = queued - 1
          /\ UNCHANGED queue
    /\ Away(r)
    /\ UNCHANGED <<process, events, written, failed, held, day, store, files, outside, flusher,
                   reading, early, wiped>>

\* The thread still holds the recorder before this one: whatever it does there,
\* nobody reads it.
SendToOld(r) ==
    /\ caller[r] \in {"checked", "enlisted"} /\ held[r] # life
    /\ Away(r)
    /\ UNCHANGED <<process, queue, counters, held, day, store, files, outside, flusher,
                   reading, early, wiped>>

-----------------------------------------------------------------------------
(* writeLoop.  Between two steps of it the store's lock is free. *)

\* One record, in any of the three places that receive from the queue.
WriteOne ==
    /\ writer \in {"run", "sync", "drain"} /\ queue # <<>>
    /\ LET r == Head(queue)
       IN \E o \in Appended(store, files, r) :
            /\ store' = o.store /\ files' = o.files
            /\ written' = IF o.ok THEN written \cup {r} ELSE written
            /\ failed' = IF o.ok THEN failed ELSE failed \cup {r}
    /\ queue' = Tail(queue)
    /\ UNCHANGED <<process, queued, events, dropped, threads, outside, flusher, reading, early,
                   wiped>>

FlushTimer ==
    /\ writer = "run"
    /\ \E o \in Flushed(store, files) : store' = o.store /\ files' = o.files
    /\ UNCHANGED <<process, queue, counters, threads, outside, flusher, reading, early, wiped>>

\* The select picks the closed stopCh; it may pick anything else that is ready first.
BeginDrain ==
    /\ writer = "run" /\ stopping
    /\ writer' = "drain"
    /\ UNCHANGED <<life, started, stopping, queue, counters, threads, store, files, outside,
                   flusher, reading, early, wiped>>

EndDrainLeaves ==   \* mutated form: stops without emptying the queue
    /\ writer = "drain"
    /\ \E o \in Flushed(store, files) : store' = o.store /\ files' = o.files
    /\ writer' = "ended"
    /\ UNCHANGED <<life, started, stopping, queue, counters, threads, outside, flusher, reading,
                   early, wiped>>

\* The queue is empty at this moment: one last flush, and the goroutine is gone.
EndDrain ==
    /\ writer = "drain" /\ queue = <<>>
    /\ \E o \in Flushed(store, files) : store' = o.store /\ files' = o.files
    /\ writer' = "ended"
    /\ UNCHANGED <<life, started, stopping, queue, counters, threads, outside, flusher, reading,
                   early, wiped>>

-----------------------------------------------------------------------------
(* Flush *)

CallFlush ==
    /\ flusher.pc = "idle" /\ started /\ ~stopping
    /\ flusher' = [pc |-> "asking", before |-> ToSet(queue) \cup Buffered]
    /\ UNCHANGED <<process, queue, counters, threads, store, files, outside, reading, early,
                   wiped>>

TakeFlush ==
    /\ writer = "run" /\ flusher.pc = "asking"
    /\ writer' = "sync"
    /\ flusher' = [flusher EXCEPT !.pc = "waiting"]
    /\ UNCHANGED <<life, started, stopping, queue, counters, threads, store, files, outside,
                   reading, early, wiped>>

AnswerFlush ==
    /\ writer = "sync" /\ queue = <<>>
    /\ \E o \in Flushed(store, files) : store' = o.store /\ files' = o.files
    /\ writer' = "run"
    /\ flusher' = [flusher EXCEPT !.pc = IF @ = "waiting" THEN "acked" ELSE @]
    /\ UNCHANGED <<life, started, stopping, queue, counters, threads, outside, reading, early,
                   wiped>>

\* A closed stopCh lets Flush go, answered or not.
GiveUpFlush ==
    /\ stopping /\ flusher.pc \in {"asking", "waiting"}
    /\ flusher' = [flusher EXCEPT !.pc = "gone"]
    /\ UNCHANGED <<process, queue, counters, threads, store, files, outside, reading, early,
                   wiped>>

-----------------------------------------------------------------------------
(* cleanLoop *)

Size(f, S) == Cardinality(UNION {f.lines[d] : d \in S})

\* The files clean removes: the expired ones, then the oldest until the rest
\* fits.  A disk that takes no writes may refuse to remove some of them.
Doomed(f, stuck) ==
    LET expired == {d \in f.present : d <= today - RetentionDays} \ stuck
        kept    == f.present \ expired
        free    == kept \ stuck
    IN  expired \cup {d \in free : Size(f, kept \ {e \in free : e < d}) > SizeCap}

Clean ==
    /\ started /\ writer # "off"
    /\ \E stuck \in IF diskOk THEN {{}} ELSE SUBSET files.present :
        LET doomed == Doomed(files, stuck)
        IN  /\ doomed # {}
            /\ wiped' = wiped \cup doomed
            /\ files' = [lines   |-> [d \in Days |-> IF d \in doomed THEN {} ELSE files.lines[d]],
                         present |-> files.present \ doomed,
                         ragged  |-> files.ragged \ doomed]
            /\ store' = [store EXCEPT !.linked = @ /\ store.day \notin doomed]
    /\ UNCHANGED <<process, queue, counters, threads, outside, flusher, reading, early>>

-----------------------------------------------------------------------------
(* A query: scan flushes, lists the files and opens them one after another. *)

ScanUnflushed ==   \* mutated form: reads what is on file only
    /\ scan.pc = "idle" /\ scans < MaxScans /\ Room /\ writer # "off"
    /\ scans' = scans + 1
    /\ scan' = [NoScan EXCEPT !.pc = "list", !.want = OnFile \cup Buffered]
    /\ UNCHANGED <<process, queue, counters, threads, store, files, outside, flusher, early,
                   wiped>>

ScanFlush ==
    /\ scan.pc = "idle" /\ scans < MaxScans /\ Room /\ writer # "off"
    /\ scans' = scans + 1
    /\ \E o \in Flushed(store, files) : store' = o.store /\ files' = o.files
    /\ scan' = [NoScan EXCEPT !.pc = "list", !.want = OnFile \cup Buffered]
    /\ UNCHANGED <<process, queue, counters, threads, outside, flusher, early, wiped>>

ScanList ==
    /\ scan.pc = "list"
    /\ scan' = [scan EXCEPT !.pc = "read", !.days = files.present]
    /\ UNCHANGED <<process, queue, counters, threads, store, files, outside, flusher, scans,
                   early, wiped>>

\* A file that is gone by now ends the query with an error.
ScanRead ==
    /\ scan.pc = "read"
    /\ \/ /\ scan.days = {}
          /\ scan' = [scan EXCEPT !.pc = "answered"]
       \/ \E d \in scan.days :
            /\ \A e \in scan.days : d <= e
            /\ scan' = IF d \in files.present
                       THEN [scan EXCEPT !.days = @ \ {d}, !.got = @ \cup files.lines[d]]
                       ELSE [scan EXCEPT !.pc = "error"]
    /\ UNCHANGED <<process, queue, counters, threads, store, files, outside, flusher, scans,
                   early, wiped>>

ScanDone ==
    /\ scan.pc \in {"answered", "error"}
    /\ scan' = NoScan
    /\ UNCHANGED <<process, queue, counters, threads, store, files, outside, flusher, scans,
                   early, wiped>>

-----------------------------------------------------------------------------
(* The outside *)

NextDay ==
    /\ today < LastDay /\ today' = today + 1
    /\ UNCHANGED <<process, queue, counters, threads, store, files, diskOk, breaks, flusher,
                   reading, early, wiped>>

DiskBreaks ==
    /\ diskOk /\ breaks < MaxBreaks /\ Room
    /\ diskOk' = FALSE /\ breaks' = breaks + 1
    /\ UNCHANGED <<process, queue, counters, threads, store, files, today, flusher, reading,
                   early, wiped>>

DiskMends ==
    /\ ~diskOk /\ diskOk' = TRUE
    /\ UNCHANGED <<process, queue, counters, threads, store, files, today, breaks, flusher,
                   reading, early, wiped>>

-----------------------------------------------------------------------------
Observe(r) == Check(r) \/ Enlist(r) \/ Send(r) \/ SendToOld(r)

Writes == WriteOne \/ BeginDrain \/ EndDrain \/ TakeFlush \/ AnswerFlush

Scans == ScanFlush \/ ScanList \/ ScanRead \/ ScanDone

Next ==
    \/ Start \/ Stop \/ Close \/ New
    \/ \E r \in Records : Observe(r)
    \/ Writes \/ FlushTimer
    \/ CallFlush \/ GiveUpFlush
    \/ Clean
    \/ Scans
    \/ NextDay \/ DiskBreaks \/ DiskMends

\* A request thread finishes its call, the writer goroutine runs, its timer is
\* served among the other cases of the select, and Stop goes on to the end.
Fairness ==
    /\ \A r \in Records : WF_vars(Enlist(r) \/ Send(r) \/ SendToOld(r))
    /\ WF_vars(Writes) /\ SF_vars(FlushTimer)
    /\ WF_vars(Close) /\ WF_vars(GiveUpFlush)

Spec == Init /\ [][Next]_vars
FairSpec == Spec /\ Fairness

-----------------------------------------------------------------------------
(* Properties *)

\* Every variable has its type, and queue and buffer keep within their bounds.
TypeOK ==
    /\ life \in 1 .. MaxStops + 1 /\ started \in BOOLEAN /\ stopping \in BOOLEAN
    /\ writer \in {"off", "run", "sync", "drain", "ended"}
    /\ queue \in Seq(Records) /\ Len(queue) <= QueueCap
    /\ queued \in 0 .. Cardinality(Records)
    /\ {events, dropped, written, failed, early} \subseteq SUBSET Records /\ wiped \subseteq Days
    /\ caller \in [Records -> {"idle", "checked", "enlisted", "done"}]
    /\ held \in [Records -> 0 .. MaxStops + 1] /\ day \in [Records -> Days \cup {NoDay}]
    /\ store \in [day : Days \cup {NoDay}, linked : BOOLEAN, buffer : Seq(Records),
                  broken : BOOLEAN]
    /\ Len(store.buffer) < BufCap
    /\ files \in [lines : [Days -> SUBSET Records], present : SUBSET Days, ragged : SUBSET Days]
    /\ flusher \in [pc : {"idle", "asking", "waiting", "acked", "gone"}, before : SUBSET Records]
    /\ scan \in [pc : {"idle", "list", "read", "answered", "error"}, want : SUBSET Records,
                 days : SUBSET Days, got : SUBSET Records]
    /\ diskOk \in BOOLEAN /\ today \in Days /\ {breaks, scans} \subseteq Nat

Enlisted == {r \in Records : caller[r] = "enlisted" /\ held[r] = life}

\* With every variable in its type: Health's Queued counts every record that was taken
\* and not dropped: the one a thread is about to send, those in the queue, and those the
\* writer has settled.  The counter is moved under a lock the queue itself knows nothing
\* of.
QueuedAddsUp ==
    /\ TypeOK
    /\ queued = Cardinality(Enlisted) + Len(queue) + Cardinality(written) + Cardinality(failed)

Pending == Enlisted \cup ToSet(queue)

\* Records of a day whose file the retention deleted, or is free to delete.  A
\* file deleted for its size may be the open one: the rest of its day goes with it.
Outlived == {r \in Records : day[r] \in wiped \/ day[r] <= today - RetentionDays}

\* A record that was counted is on its way, stored, or reported as dropped or
\* failed; only the retention deletes it ("every failure is recorded in health").
\* Two losses are reported nowhere, and exempt: what is sent to a queue whose
\* writer has ended, and what the buffer held when the disk stopped taking writes.
StoredOrReported ==
    breaks = 0 /\ ~stopping =>
        events \subseteq Pending \cup Buffered \cup OnFile \cup Outlived \cup dropped \cup failed

\* Who waits for the writer is told the truth, however its select goes and whatever
\* arrives meanwhile: what had been sent when Flush was called is on file when it is
\* acknowledged, and what had been sent when Stop was called when Stop returns.
AwaitedIsStored ==
    breaks = 0 =>
        /\ flusher.pc = "acked" => flusher.before \subseteq OnFile \cup Outlived
        /\ writer = "ended" /\ ~started => early \subseteq OnFile \cup Outlived

\* A query that ends without an error has everything that was stored or
\* buffered when it began, but for what the retention deleted under it.
QuerySeesAll ==
    breaks = 0 /\ scan.pc = "answered" => scan.want \subseteq scan.got \cup Outlived

\* A record whose thread is about to send it reaches the file, or a counter says
\* why not ("the page's records table is never more than this far behind"); a stop
\* or a broken disk may be in its way.
ReachesFile ==
    \A r \in Records : (caller[r] = "enlisted" /\ held[r] = 1 /\ life = 1) ~>
        \/ r \in OnFile \cup Outlived \cup dropped \cup failed
        \/ breaks > 0 \/ Stops > 0

(* A claim of the documentation that the code does not keep. *)

\* README: once the directory is mended, new records are written again.
MendedDiskWrites == [][diskOk => failed' \subseteq failed]_vars
================================================================================
