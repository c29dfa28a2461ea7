---------------------------- MODULE RecorderProofs -----------------------------
(***************************************************************************)
(* What TLAPS proves of Recorder, for any number of records, days, queue   *)
(* and buffer sizes, stops, queries and failures of the disk.              *)
(***************************************************************************)
EXTENDS Recorder, SequenceTheorems, FiniteSetTheorems, TLAPS

LEMMA Bounds ==
    /\ IsFiniteSet(Records)
    /\ QueueCap \in Nat \ {0} /\ BufCap \in Nat \ {0} /\ LastDay \in Nat \ {0}
    /\ RetentionDays \in Nat \ {0}
    /\ MaxBreaks \in Nat /\ MaxStops \in Nat /\ MaxScans \in Nat /\ MaxEvents \in Nat
  BY BoundsAssumption

-----------------------------------------------------------------------------
(* The queue *)

Distinct(s) == \A i \in DOMAIN s : \A j \in DOMAIN s : s[i] = s[j] => i = j

LEMMA QueueTail ==
    ASSUME NEW S, NEW s \in Seq(S), s # <<>>
    PROVE  /\ Head(s) \in S /\ Tail(s) \in Seq(S) /\ Len(Tail(s)) = Len(s) - 1
           /\ Len(s) \in Nat \ {0}
           /\ ToSet(s) = ToSet(Tail(s)) \cup {Head(s)}
           /\ Distinct(s) => Distinct(Tail(s)) /\ Head(s) \notin ToSet(Tail(s))
<1>1. /\ Len(s) \in Nat \ {0} /\ DOMAIN s = 1 .. Len(s) /\ Head(s) = s[1]
      /\ \A i \in 1 .. Len(s) : s[i] \in S
  OBVIOUS
<1>2. /\ Tail(s) \in Seq(S) /\ Len(Tail(s)) = Len(s) - 1
      /\ \A i \in 1 .. Len(s) - 1 : Tail(s)[i] = s[i + 1]
  BY <1>1
<1>3. DOMAIN Tail(s) = 1 .. Len(s) - 1
  BY <1>2
<1>4. ASSUME NEW i \in 1 .. Len(s)
      PROVE  s[i] \in ToSet(Tail(s)) \cup {Head(s)}
  <2>1. CASE i = 1
    BY <1>1, <2>1
  <2>2. CASE i # 1
    <3>1. i - 1 \in 1 .. Len(s) - 1 /\ Tail(s)[i - 1] = s[i]
      BY <1>1, <1>2, <2>2
    <3> QED
      BY <1>3, <3>1 DEF ToSet
  <2> QED
    BY <2>1, <2>2
<1>5. ASSUME NEW i \in 1 .. Len(s) - 1
      PROVE  Tail(s)[i] \in ToSet(s)
  BY <1>1, <1>2 DEF ToSet
<1>6. ToSet(s) = ToSet(Tail(s)) \cup {Head(s)}
  <2>1. ToSet(s) \subseteq ToSet(Tail(s)) \cup {Head(s)}
    BY <1>1, <1>4 DEF ToSet
  <2>2. ToSet(Tail(s)) \subseteq ToSet(s)
    BY <1>3, <1>5 DEF ToSet
  <2>3. Head(s) \in ToSet(s)
    BY <1>1 DEF ToSet
  <2> QED
    BY <2>1, <2>2, <2>3
<1>7. ASSUME Distinct(s) PROVE Distinct(Tail(s)) /\ Head(s) \notin ToSet(Tail(s))
  <2>1. ASSUME NEW i \in 1 .. Len(s) - 1, NEW j \in 1 .. Len(s) - 1, Tail(s)[i] = Tail(s)[j]
        PROVE  i = j
    BY <1>1, <1>2, <1>7, <2>1 DEF Distinct
  <2>2. ASSUME NEW i \in 1 .. Len(s) - 1 PROVE Tail(s)[i] # Head(s)
    BY <1>1, <1>2, <1>7 DEF Distinct
  <2> QED
    BY <1>3, <2>1, <2>2 DEF Distinct, ToSet
<1> QED
  BY <1>1, <1>2, <1>6, <1>7

LEMMA QueueAppend ==
    ASSUME NEW S, NEW s \in Seq(S), NEW e \in S
    PROVE  /\ Append(s, e) \in Seq(S) /\ Len(Append(s, e)) = Len(s) + 1 /\ Len(s) \in Nat
           /\ ToSet(Append(s, e)) = ToSet(s) \cup {e}
           /\ Distinct(s) /\ e \notin ToSet(s) => Distinct(Append(s, e))
<1> DEFINE t == Append(s, e)
<1>1. /\ t \in Seq(S) /\ Len(t) = Len(s) + 1 /\ Len(s) \in Nat
      /\ DOMAIN s = 1 .. Len(s) /\ DOMAIN t = 1 .. Len(s) + 1
      /\ t[Len(s) + 1] = e /\ \A i \in 1 .. Len(s) : t[i] = s[i]
  OBVIOUS
<1> HIDE DEF t
<1>2. ASSUME NEW i \in 1 .. Len(s) + 1 PROVE t[i] \in ToSet(s) \cup {e}
  <2>1. CASE i = Len(s) + 1
    BY <1>1, <2>1
  <2>2. CASE i # Len(s) + 1
    BY <1>1, <2>2 DEF ToSet
  <2> QED
    BY <2>1, <2>2
<1>3. ASSUME NEW i \in 1 .. Len(s) PROVE s[i] \in ToSet(t)
  BY <1>1 DEF ToSet
<1>4. ToSet(t) = ToSet(s) \cup {e}
  <2>1. ToSet(t) \subseteq ToSet(s) \cup {e}
    BY <1>1, <1>2 DEF ToSet
  <2>2. ToSet(s) \subseteq ToSet(t)
    BY <1>1, <1>3 DEF ToSet
  <2>3. e \in ToSet(t)
    BY <1>1 DEF ToSet
  <2> QED
    BY <2>1, <2>2, <2>3
<1>5. ASSUME Distinct(s), e \notin ToSet(s) PROVE Distinct(t)
  <2>1. \A i \in 1 .. Len(s) : s[i] # e
    BY <1>1, <1>5 DEF ToSet
  <2> QED
    BY <1>1, <1>5, <2>1 DEF Distinct
<1> QED
  BY <1>1, <1>4, <1>5 DEF t

\* A queue of different records has as many as it has places.
LEMMA QueueCount ==
    ASSUME NEW S, NEW s \in Seq(S), Distinct(s)
    PROVE  IsFiniteSet(ToSet(s)) /\ Cardinality(ToSet(s)) = Len(s)
<1> DEFINE f == [i \in 1 .. Len(s) |-> s[i]]
<1>1. Len(s) \in Nat /\ DOMAIN s = 1 .. Len(s)
  OBVIOUS
<1>2. f \in [1 .. Len(s) -> ToSet(s)]
  BY <1>1 DEF ToSet
<1>3. \A i \in 1 .. Len(s) : \A j \in 1 .. Len(s) : f[i] = f[j] => i = j
  BY <1>1 DEF Distinct
<1>4. \A e \in ToSet(s) : \E i \in 1 .. Len(s) : f[i] = e
  BY <1>1 DEF ToSet
<1> HIDE DEF f
<1>5. f \in Bijection(1 .. Len(s), ToSet(s))
  BY <1>2, <1>3, <1>4 DEF Bijection, Injection, Surjection, IsInjective
<1>6. ExistsBijection(1 .. Len(s), ToSet(s))
  BY <1>5 DEF ExistsBijection
<1>7. IsFiniteSet(ToSet(s))
  BY <1>1, <1>6, FS_NatBijection
<1> QED
  BY <1>1, <1>6, <1>7, FS_CountingElements

-----------------------------------------------------------------------------
(* The stages of a recorder's life *)

StageInv ==
    /\ life \in 1 .. MaxStops + 1 /\ started \in BOOLEAN /\ stopping \in BOOLEAN
    /\ writer \in {"off", "run", "sync", "drain", "ended"}
    /\ writer \in {"drain", "ended"} => stopping
    /\ writer = "off" => ~ stopping /\ ~ started
    /\ ~ started => writer \in {"off", "ended"}
    /\ stopping => life <= MaxStops

LEMMA StageInvariance == Spec => []StageInv
<1>1. Init => StageInv
  <2> SUFFICES ASSUME Init PROVE StageInv
    OBVIOUS
  <2>1. started \in BOOLEAN /\ stopping \in BOOLEAN
    BY DEF Init
  <2>2. life \in 1 .. MaxStops + 1
    BY Bounds DEF Init
  <2> QED
    BY <2>1, <2>2 DEF Init, StageInv
<1>2. StageInv /\ [Next]_vars => StageInv'
  <2> SUFFICES ASSUME StageInv, [Next]_vars PROVE StageInv'
    OBVIOUS
  <2>1. ASSUME UNCHANGED process PROVE StageInv'
    BY <2>1 DEF process, StageInv
  <2>2. ASSUME UNCHANGED <<life, started, stopping>>,
               writer \in {"run", "sync"}, writer' \in {"run", "sync"}
        PROVE  StageInv'
    BY <2>2 DEF StageInv
  <2>3. CASE Start
    BY <2>3 DEF Start, StageInv
  <2>4. CASE Stop
    BY <2>4 DEF Stop, StageInv
  <2>5. CASE Close
    BY <2>5 DEF Close, StageInv
  <2>6. CASE New
    <3>1. life' \in 1 .. MaxStops + 1
      BY <2>6, Bounds DEF New, StageInv
    <3>2. started' = FALSE /\ stopping' = FALSE /\ writer' = "off"
      BY <2>6 DEF New, StageInv
    <3> QED
      BY <3>1, <3>2 DEF StageInv
  <2>7. CASE BeginDrain \/ EndDrain
    BY <2>7 DEF BeginDrain, EndDrain, StageInv
  <2>8. CASE WriteOne \/ TakeFlush \/ AnswerFlush
    BY <2>1, <2>2, <2>8 DEF WriteOne, TakeFlush, AnswerFlush
  <2>9. CASE FlushTimer \/ CallFlush \/ GiveUpFlush \/ Clean
    BY <2>1, <2>9 DEF FlushTimer, CallFlush, GiveUpFlush, Clean
  <2>10. CASE Scans
    BY <2>1, <2>10 DEF Scans, ScanFlush, ScanList, ScanRead, ScanDone
  <2>11. CASE NextDay \/ DiskBreaks \/ DiskMends \/ UNCHANGED vars
    BY <2>1, <2>11 DEF NextDay, DiskBreaks, DiskMends, vars
  <2>12. ASSUME NEW r \in Records, Observe(r) PROVE StageInv'
    BY <2>1, <2>12 DEF Observe, Check, Enlist, Send, SendToOld
  <2> QED
    BY <2>3, <2>4, <2>5, <2>6, <2>7, <2>8, <2>9, <2>10, <2>11, <2>12 DEF Next, Writes
<1> QED
  BY <1>1, <1>2, PTL DEF Spec

-----------------------------------------------------------------------------
(* The store: what a flush and an append leave *)

Stores   == [day : Days \cup {NoDay}, linked : BOOLEAN, buffer : Seq(Records), broken : BOOLEAN]
FileSets == [lines : [Days -> SUBSET Records], present : SUBSET Days, ragged : SUBSET Days]

LEMMA DayFacts == Days \subseteq Nat \ {0} /\ NoDay = 0 /\ NoDay \notin Days
  BY Bounds DEF Days, NoDay

LEMMA BufferPart ==
    ASSUME NEW S, NEW s \in Seq(S), NEW n \in 0 .. Len(s)
    PROVE  SubSeq(s, 1, n) \in Seq(S) /\ ToSet(SubSeq(s, 1, n)) \subseteq ToSet(s)
<1>1. /\ SubSeq(s, 1, n) \in Seq(S) /\ Len(SubSeq(s, 1, n)) = n
      /\ \A i \in 1 .. n : SubSeq(s, 1, n)[i] = s[i] /\ i \in 1 .. Len(s)
  <2>1. Len(s) \in Nat /\ \A i \in 1 .. Len(s) : s[i] \in S
    OBVIOUS
  <2>2. \A i \in 1 .. n : s[i] \in S /\ i \in 1 .. Len(s)
    BY <2>1
  <2>3. SubSeq(s, 1, n) = [i \in 1 .. n |-> s[i]]
    BY <2>1
  <2>4. Len([i \in 1 .. n |-> s[i]]) = n /\ [i \in 1 .. n |-> s[i]] \in Seq(S)
    BY <2>1, <2>2, LenProperties, SeqDef
  <2> QED
    BY <2>2, <2>3, <2>4
<1> QED
  BY <1>1 DEF ToSet

\* Lines only come to the file of one day, and all of them if it ends with a whole line.
LEMMA LandedLines ==
    ASSUME NEW f \in FileSets, NEW d \in Days, NEW rs \in Seq(Records)
    PROVE  /\ Landed(f, d, rs) \in FileSets
           /\ Landed(f, d, rs).present = f.present
           /\ Landed(f, d, rs).ragged \subseteq f.ragged
           /\ \A e \in Days : e # d => Landed(f, d, rs).lines[e] = f.lines[e]
           /\ f.lines[d] \subseteq Landed(f, d, rs).lines[d]
           /\ Landed(f, d, rs).lines[d] \subseteq f.lines[d] \cup ToSet(rs)
           /\ d \notin f.ragged => Landed(f, d, rs).lines[d] = f.lines[d] \cup ToSet(rs)
<1> DEFINE ls == IF d \in f.ragged /\ rs # <<>> THEN Tail(rs) ELSE rs
           m  == [f.lines EXCEPT ![d] = @ \cup ToSet(ls)]
           g  == Landed(f, d, rs)
<1>1. ls \in Seq(Records) /\ ToSet(ls) \subseteq ToSet(rs) /\ (d \notin f.ragged => ls = rs)
  BY QueueTail
<1>2. ToSet(ls) \subseteq Records
  <2> HIDE DEF ls
  <2>1. \A i \in DOMAIN ls : ls[i] \in Records
    BY <1>1
  <2> QED
    BY <2>1 DEF ToSet
<1> HIDE DEF ls
<1>3. /\ f.lines \in [Days -> SUBSET Records]
      /\ m \in [Days -> SUBSET Records] /\ m[d] = f.lines[d] \cup ToSet(ls)
      /\ \A e \in Days : e # d => m[e] = f.lines[e]
  BY <1>2 DEF FileSets
<1>4. /\ g.lines = m /\ g.present = f.present
      /\ g.ragged = IF rs # <<>> THEN f.ragged \ {d} ELSE f.ragged
      /\ g = [lines |-> m, present |-> f.present, ragged |-> g.ragged]
  <2>1. g = [f EXCEPT !.lines[d] = @ \cup ToSet(ls),
                      !.ragged = IF rs # <<>> THEN @ \ {d} ELSE @]
    BY DEF Landed, ls
  <2>2. f = [lines |-> f.lines, present |-> f.present, ragged |-> f.ragged]
    BY DEF FileSets
  <2> HIDE DEF g
  <2> QED
    BY <2>1, <2>2
<1> HIDE DEF m, g
<1>5. g \in FileSets
  BY <1>3, <1>4 DEF FileSets
<1> QED
  BY <1>1, <1>3, <1>4, <1>5 DEF g

LEMMA TornLines ==
    ASSUME NEW f \in FileSets, NEW d \in Days, NEW half \in BOOLEAN
    PROVE  /\ Torn(f, d, half) \in FileSets
           /\ Torn(f, d, half).present = f.present /\ Torn(f, d, half).lines = f.lines
  BY DEF Torn, FileSets

LEMMA EmptyBuffer == <<>> \in Seq(Records) /\ ToSet(<<>>) = {}
  BY DEF ToSet

LEMMA StoreEmptied ==
    ASSUME NEW s \in Stores, NEW b \in BOOLEAN
    PROVE  LET t == [s EXCEPT !.buffer = <<>>, !.broken = b]
           IN  /\ t \in Stores /\ t.day = s.day /\ t.linked = s.linked
               /\ t.buffer = <<>> /\ t.broken = b
<1>1. s \in [day : Days \cup {NoDay}, linked : BOOLEAN, buffer : Seq(Records), broken : BOOLEAN]
  BY DEF Stores
<1>2. [s EXCEPT !.buffer = <<>>, !.broken = b]
        \in [day : Days \cup {NoDay}, linked : BOOLEAN, buffer : Seq(Records), broken : BOOLEAN]
  BY <1>1, EmptyBuffer
<1> QED
  BY <1>1, <1>2 DEF Stores

\* A flush: the file of the open day gets some of the buffer, all of it if the disk and
\* the file are in order; nothing that was on file goes away.
LEMMA FlushLeaves ==
    ASSUME diskOk \in BOOLEAN, NEW s \in Stores, NEW f \in FileSets, NEW o \in Flushed(s, f)
    PROVE  /\ o.store \in Stores /\ o.files \in FileSets
           /\ o.store.day = s.day /\ o.store.linked = s.linked
           /\ o.store.buffer \in {<<>>, s.buffer}
           /\ ~ s.broken /\ s.day # NoDay => o.store.buffer = <<>>
           /\ o.files.present = f.present
           /\ \A d \in Days : f.lines[d] \subseteq o.files.lines[d]
           /\ \A d \in Days : d # s.day \/ ~ s.linked => o.files.lines[d] = f.lines[d]
           /\ s.day \in Days => o.files.lines[s.day] \subseteq f.lines[s.day] \cup ToSet(s.buffer)
           /\ diskOk => /\ o.store.broken = s.broken /\ o.files.ragged \subseteq f.ragged
                        /\ o.ok = ~ s.broken
           /\ diskOk /\ ~ s.broken /\ s.linked /\ f.ragged = {} /\ s.day \in Days
                => o.files.lines[s.day] = f.lines[s.day] \cup ToSet(s.buffer)
<1>1. /\ s.day \in Days \cup {NoDay} /\ s.linked \in BOOLEAN /\ s.broken \in BOOLEAN
      /\ s.buffer \in Seq(Records)
      /\ s = [day |-> s.day, linked |-> s.linked, buffer |-> s.buffer, broken |-> s.broken]
  BY DEF Stores
<1>2. CASE s.broken \/ s.day = NoDay \/ s.buffer = <<>>
  <2>1. o = [store |-> s, files |-> f, ok |-> ~ s.broken]
    BY <1>2 DEF Flushed
  <2>2. o.store = s /\ o.files = f /\ o.ok = ~ s.broken
    BY <2>1
  <2>3. s.buffer = <<>> => ToSet(s.buffer) = {}
    BY DEF ToSet
  <2>4. s.day \in Days => f.lines[s.day] = f.lines[s.day] \cup {}
    OBVIOUS
  <2>5. /\ ~ s.broken /\ s.day # NoDay => s.buffer = <<>>
        /\ ~ s.broken /\ s.day \in Days => ToSet(s.buffer) = {}
    BY <1>2, <2>3, DayFacts
  <2> QED
    BY <2>2, <2>4, <2>5
<1>3. CASE ~ (s.broken \/ s.day = NoDay \/ s.buffer = <<>>) /\ diskOk
  <2>1. s.day \in Days /\ s.broken = FALSE
    BY <1>1, <1>3
  <2>2. o = [store |-> [s EXCEPT !.buffer = <<>>],
             files |-> IF s.linked THEN Landed(f, s.day, s.buffer) ELSE f, ok |-> TRUE]
    BY <1>3 DEF Flushed
  <2>3. /\ o.store = [s EXCEPT !.buffer = <<>>] /\ o.ok = TRUE
        /\ o.files = IF s.linked THEN Landed(f, s.day, s.buffer) ELSE f
    BY <2>2
  <2>4. /\ o.store \in Stores /\ o.store.day = s.day /\ o.store.linked = s.linked
        /\ o.store.broken = s.broken /\ o.store.buffer = <<>>
    <3>1. o.store = [s EXCEPT !.buffer = <<>>, !.broken = FALSE]
      BY <1>1, <2>1, <2>3
    <3> QED
      BY <2>1, <3>1, StoreEmptied
  <2>5. CASE s.linked
    <3>1. o.files = Landed(f, s.day, s.buffer)
      BY <2>3, <2>5
    <3>2. /\ o.files \in FileSets /\ o.files.present = f.present
          /\ o.files.ragged \subseteq f.ragged
          /\ \A e \in Days : e # s.day => o.files.lines[e] = f.lines[e]
          /\ f.lines[s.day] \subseteq o.files.lines[s.day]
          /\ o.files.lines[s.day] \subseteq f.lines[s.day] \cup ToSet(s.buffer)
          /\ s.day \notin f.ragged => o.files.lines[s.day] = f.lines[s.day] \cup ToSet(s.buffer)
      BY <1>1, <2>1, <3>1, LandedLines
    <3>3. \A d \in Days : f.lines[d] \subseteq o.files.lines[d]
      BY <3>2
    <3> QED
      BY <1>3, <2>1, <2>3, <2>4, <2>5, <3>2, <3>3
  <2>6. CASE ~ s.linked
    BY <2>1, <2>3, <2>4, <2>6
  <2> QED
    BY <2>5, <2>6
<1>4. CASE ~ (s.broken \/ s.day = NoDay \/ s.buffer = <<>>) /\ ~ diskOk
  <2>1. s.day \in Days /\ Len(s.buffer) \in Nat
    BY <1>1, <1>4
  <2>2. PICK n \in 0 .. Len(s.buffer) - 1, half \in BOOLEAN :
          o = [store |-> [s EXCEPT !.buffer = <<>>, !.broken = TRUE],
               files |-> IF s.linked
                         THEN Torn(Landed(f, s.day, SubSeq(s.buffer, 1, n)), s.day, half)
                         ELSE f,
               ok |-> FALSE]
    BY <1>4 DEF Flushed
  <2> DEFINE part == SubSeq(s.buffer, 1, n)
             g    == Landed(f, s.day, part)
  <2>3. /\ o.store = [s EXCEPT !.buffer = <<>>, !.broken = TRUE]
        /\ o.files = IF s.linked THEN Torn(g, s.day, half) ELSE f
    BY <2>2
  <2>4. /\ o.store \in Stores /\ o.store.day = s.day /\ o.store.linked = s.linked
        /\ o.store.buffer = <<>>
    BY <2>3, StoreEmptied
  <2>5. part \in Seq(Records) /\ ToSet(part) \subseteq ToSet(s.buffer)
    <3>1. n \in 0 .. Len(s.buffer)
      BY <2>1
    <3> QED
      BY <1>1, <3>1, BufferPart
  <2> HIDE DEF part
  <2>6. /\ g \in FileSets /\ g.present = f.present
        /\ \A e \in Days : e # s.day => g.lines[e] = f.lines[e]
        /\ f.lines[s.day] \subseteq g.lines[s.day]
        /\ g.lines[s.day] \subseteq f.lines[s.day] \cup ToSet(part)
    BY <2>1, <2>5, LandedLines
  <2> HIDE DEF g
  <2>7. CASE s.linked
    <3>1. o.files \in FileSets /\ o.files.present = g.present /\ o.files.lines = g.lines
      BY <2>1, <2>3, <2>6, <2>7, TornLines
    <3>2. \A d \in Days : f.lines[d] \subseteq o.files.lines[d]
      BY <2>6, <3>1
    <3> QED
      BY <1>4, <2>1, <2>4, <2>5, <2>6, <2>7, <3>1, <3>2
  <2>8. CASE ~ s.linked
    BY <1>4, <2>1, <2>3, <2>4, <2>8
  <2> QED
    BY <2>7, <2>8
<1> QED
  BY <1>2, <1>3, <1>4

LEMMA StoreTaken ==
    ASSUME NEW s \in Stores, NEW r \in Records
    PROVE  LET t == [s EXCEPT !.buffer = Append(@, r)]
           IN  /\ t \in Stores /\ t.day = s.day /\ t.linked = s.linked /\ t.broken = s.broken
               /\ t.buffer = Append(s.buffer, r) /\ Len(t.buffer) = Len(s.buffer) + 1
               /\ Len(s.buffer) \in Nat
               /\ ToSet(t.buffer) = ToSet(s.buffer) \cup {r}
<1>1. s \in [day : Days \cup {NoDay}, linked : BOOLEAN, buffer : Seq(Records), broken : BOOLEAN]
  BY DEF Stores
<1>2. Append(s.buffer, r) \in Seq(Records) /\ Len(Append(s.buffer, r)) = Len(s.buffer) + 1
      /\ ToSet(Append(s.buffer, r)) = ToSet(s.buffer) \cup {r} /\ Len(s.buffer) \in Nat
  BY <1>1, QueueAppend
<1> DEFINE b == Append(s.buffer, r)
<1>3. b \in Seq(Records)
  BY <1>2
<1> HIDE DEF b
<1>4. [s EXCEPT !.buffer = b]
        \in [day : Days \cup {NoDay}, linked : BOOLEAN, buffer : Seq(Records), broken : BOOLEAN]
  BY <1>1, <1>3
<1>5. /\ [s EXCEPT !.buffer = b].day = s.day /\ [s EXCEPT !.buffer = b].linked = s.linked
      /\ [s EXCEPT !.buffer = b].broken = s.broken /\ [s EXCEPT !.buffer = b].buffer = b
  BY <1>1
<1>6. [s EXCEPT !.buffer = Append(@, r)] = [s EXCEPT !.buffer = b]
  BY DEF b
<1> QED
  BY <1>2, <1>4, <1>5, <1>6 DEF Stores, b

\* Once the file of its day is open, a record goes to the buffer, and from a full buffer
\* on to the file.
LEMMA PutLeaves ==
    ASSUME diskOk \in BOOLEAN, NEW s \in Stores, NEW f \in FileSets, NEW r \in Records,
           s.day \in Days, NEW o \in Put(s, f, r)
    PROVE  /\ o.store \in Stores /\ o.files \in FileSets
           /\ o.store.day = s.day /\ o.store.linked = s.linked
           /\ Len(s.buffer) < BufCap => Len(o.store.buffer) < BufCap
           /\ ToSet(o.store.buffer) \subseteq ToSet(s.buffer) \cup {r}
           /\ o.files.present = f.present
           /\ \A d \in Days : f.lines[d] \subseteq o.files.lines[d]
           /\ \A d \in Days : d # s.day \/ ~ s.linked => o.files.lines[d] = f.lines[d]
           /\ o.files.lines[s.day] \subseteq f.lines[s.day] \cup ToSet(s.buffer) \cup {r}
           /\ diskOk /\ ~ s.broken => o.ok /\ ~ o.store.broken /\ o.files.ragged \subseteq f.ragged
           /\ diskOk /\ ~ s.broken /\ s.linked /\ f.ragged = {}
                => ToSet(s.buffer) \cup {r} \subseteq ToSet(o.store.buffer) \cup o.files.lines[s.day]
<1> DEFINE t == [s EXCEPT !.buffer = Append(@, r)]
<1>1. CASE s.broken
  <2>1. o = [store |-> s, files |-> f, ok |-> FALSE]
    BY <1>1 DEF Put
  <2>2. o.store = s /\ o.files = f
    BY <2>1
  <2> QED
    BY <1>1, <2>2
<1>2. /\ t \in Stores /\ t.day = s.day /\ t.linked = s.linked /\ t.broken = s.broken
      /\ Len(t.buffer) = Len(s.buffer) + 1 /\ Len(s.buffer) \in Nat
      /\ ToSet(t.buffer) = ToSet(s.buffer) \cup {r}
  BY StoreTaken
<1>3. CASE ~ s.broken /\ Len(t.buffer) >= BufCap
  <2>1. o \in Flushed(t, f)
    BY <1>3 DEF Put
  <2> HIDE DEF t
  <2>2. t.day \in Days /\ t.day # NoDay /\ ~ t.broken
    BY <1>2, <1>3, DayFacts
  <2>3. /\ o.store \in Stores /\ o.files \in FileSets
        /\ o.store.day = t.day /\ o.store.linked = t.linked /\ o.store.buffer = <<>>
        /\ o.files.present = f.present
        /\ \A d \in Days : f.lines[d] \subseteq o.files.lines[d]
        /\ \A d \in Days : d # t.day \/ ~ t.linked => o.files.lines[d] = f.lines[d]
        /\ o.files.lines[t.day] \subseteq f.lines[t.day] \cup ToSet(t.buffer)
        /\ diskOk => /\ o.store.broken = t.broken /\ o.files.ragged \subseteq f.ragged
                     /\ o.ok = ~ t.broken
        /\ diskOk /\ t.linked /\ f.ragged = {}
             => o.files.lines[t.day] = f.lines[t.day] \cup ToSet(t.buffer)
    BY <1>2, <2>1, <2>2, FlushLeaves
  <2>4. Len(o.store.buffer) < BufCap /\ ToSet(o.store.buffer) = {}
    BY <2>3, Bounds, EmptyBuffer
  <2> QED
    BY <1>2, <1>3, <2>3, <2>4
<1>4. CASE ~ s.broken /\ ~ (Len(t.buffer) >= BufCap)
  <2>1. o = [store |-> t, files |-> f, ok |-> TRUE]
    BY <1>4 DEF Put
  <2> HIDE DEF t
  <2>2. o.store = t /\ o.files = f /\ o.ok = TRUE
    BY <2>1
  <2>3. Len(t.buffer) < BufCap
    BY <1>2, <1>4, Bounds
  <2> QED
    BY <1>2, <1>4, <2>2, <2>3
<1> QED
  BY <1>1, <1>3, <1>4

\* The file of another day: the buffer is flushed to the old one first, and given up if
\* that fails.
LEMMA RotateLeaves ==
    ASSUME diskOk \in BOOLEAN, NEW s \in Stores, NEW f \in FileSets, NEW d \in Days,
           NEW o \in Rotated(s, f, d)
    PROVE  \E p \in Flushed(s, f) :
             \/ /\ o.store = Opened(d) /\ o.ok /\ o.files \in FileSets
                /\ o.files.lines = p.files.lines /\ o.files.ragged = p.files.ragged
                /\ o.files.present = p.files.present \cup {d}
             \/ o.store = Closed /\ o.files = p.files /\ ~ o.ok /\ ~ diskOk
<1>1. PICK p \in Flushed(s, f) :
        \/ o = [store |-> Opened(d), files |-> [p.files EXCEPT !.present = @ \cup {d}], ok |-> TRUE]
        \/ o = [store |-> Closed, files |-> p.files, ok |-> FALSE] /\ ~ diskOk
  BY DEF Rotated
<1>2. p.files \in FileSets
  BY FlushLeaves
<1>3. CASE o = [store |-> Opened(d), files |-> [p.files EXCEPT !.present = @ \cup {d}], ok |-> TRUE]
  <2>1. o.store = Opened(d) /\ o.files = [p.files EXCEPT !.present = @ \cup {d}] /\ o.ok = TRUE
    BY <1>3
  <2>2. p.files.present \cup {d} \in SUBSET Days
    BY <1>2 DEF FileSets
  <2>3. o.files \in FileSets
    BY <1>2, <2>1, <2>2 DEF FileSets
  <2>4. /\ o.files.lines = p.files.lines /\ o.files.ragged = p.files.ragged
        /\ o.files.present = p.files.present \cup {d}
    BY <1>2, <2>1 DEF FileSets
  <2> QED
    BY <2>1, <2>3, <2>4
<1>4. CASE o = [store |-> Closed, files |-> p.files, ok |-> FALSE] /\ ~ diskOk
  <2>1. o.store = Closed /\ o.files = p.files /\ o.ok = FALSE
    BY <1>4
  <2> QED
    BY <1>4, <2>1
<1> QED
  BY <1>1, <1>3, <1>4

\* A line is in the file of its record's day; a buffer belongs to one day; an open file
\* without a name was deleted; a closed store holds nothing.
Filed(s, f, w, dy) ==
    /\ \A d \in Days : \A x \in f.lines[d] : dy[x] = d /\ d \in f.present
    /\ \A x \in ToSet(s.buffer) : dy[x] = s.day
    /\ s.day \in Days /\ ~ s.linked => s.day \in w
    /\ s.linked => s.day \in f.present
    /\ s.day = NoDay => s.buffer = <<>> /\ ~ s.broken
    /\ Len(s.buffer) < BufCap

Healthy(s, f) == ~ s.broken /\ f.ragged = {}

Lines(f) == UNION {f.lines[d] : d \in Days}

\* What is on file, or comes there with the next flush.
Keeps(s, f) == (IF s.broken \/ ~ s.linked THEN {} ELSE ToSet(s.buffer)) \cup Lines(f)

LEMMA FlushKeeps ==
    ASSUME diskOk \in BOOLEAN, NEW s \in Stores, NEW f \in FileSets, NEW w, NEW dy,
           Filed(s, f, w, dy), NEW o \in Flushed(s, f)
    PROVE  /\ o.store \in Stores /\ o.files \in FileSets /\ Filed(o.store, o.files, w, dy)
           /\ o.files.present = f.present
           /\ o.store.day = s.day /\ (s.day \in Days /\ ~ s.broken => o.store.buffer = <<>>)
           /\ \A d \in Days : f.lines[d] \subseteq o.files.lines[d]
           /\ diskOk /\ Healthy(s, f) => /\ Healthy(o.store, o.files) /\ o.ok
                                         /\ Keeps(s, f) \subseteq Lines(o.files)
<1>1. /\ o.store \in Stores /\ o.files \in FileSets
      /\ o.store.day = s.day /\ o.store.linked = s.linked
      /\ o.store.buffer \in {<<>>, s.buffer}
      /\ ~ s.broken /\ s.day # NoDay => o.store.buffer = <<>>
      /\ o.files.present = f.present
      /\ \A d \in Days : f.lines[d] \subseteq o.files.lines[d]
      /\ \A d \in Days : d # s.day \/ ~ s.linked => o.files.lines[d] = f.lines[d]
      /\ s.day \in Days => o.files.lines[s.day] \subseteq f.lines[s.day] \cup ToSet(s.buffer)
      /\ diskOk => /\ o.store.broken = s.broken /\ o.files.ragged \subseteq f.ragged
                   /\ o.ok = ~ s.broken
      /\ diskOk /\ ~ s.broken /\ s.linked /\ f.ragged = {} /\ s.day \in Days
           => o.files.lines[s.day] = f.lines[s.day] \cup ToSet(s.buffer)
  BY FlushLeaves
<1>2. /\ s.day \in Days \cup {NoDay} /\ s.linked \in BOOLEAN /\ f.present \subseteq Days
      /\ o.store.linked \in BOOLEAN
  BY <1>1 DEF Stores, FileSets
<1>3. Filed(o.store, o.files, w, dy)
  <2>1. ASSUME NEW d \in Days, NEW x \in o.files.lines[d] PROVE dy[x] = d /\ d \in o.files.present
    <3>1. CASE x \in f.lines[d]
      BY <1>1, <3>1 DEF Filed
    <3>2. CASE x \notin f.lines[d]
      <4>1. d = s.day /\ s.linked /\ x \in ToSet(s.buffer)
        BY <1>1, <2>1, <3>2
      <4> QED
        BY <1>1, <4>1 DEF Filed
    <3> QED
      BY <3>1, <3>2
  <2>2. ToSet(o.store.buffer) \subseteq ToSet(s.buffer)
    BY <1>1, EmptyBuffer
  <2>3. Len(o.store.buffer) < BufCap
    <3>1. Len(<<>>) < BufCap
      BY Bounds
    <3> QED
      BY <1>1, <3>1 DEF Filed
  <2>4. s.day = NoDay => o.store.buffer = <<>> /\ ~ o.store.broken
    <3>1. ASSUME s.day = NoDay PROVE o.store = s
      <4>1. o = [store |-> s, files |-> f, ok |-> ~ s.broken]
        BY <3>1 DEF Flushed
      <4> QED
        BY <4>1
    <3> QED
      BY <3>1 DEF Filed
  <2> QED
    BY <1>1, <2>1, <2>2, <2>3, <2>4 DEF Filed
<1>4. ASSUME diskOk, Healthy(s, f)
      PROVE  Healthy(o.store, o.files) /\ o.ok /\ Keeps(s, f) \subseteq Lines(o.files)
  <2>1. Lines(f) \subseteq Lines(o.files)
    BY <1>1 DEF Lines
  <2>2. ASSUME s.linked PROVE ToSet(s.buffer) \subseteq Lines(o.files)
    <3>1. s.day \in Days
      BY <1>2, <2>2 DEF Filed
    <3>2. ToSet(s.buffer) \subseteq o.files.lines[s.day]
      BY <1>1, <1>4, <2>2, <3>1 DEF Healthy
    <3> QED
      BY <3>1, <3>2 DEF Lines
  <2> QED
    BY <1>1, <1>4, <2>1, <2>2 DEF Healthy, Keeps
<1> QED
  BY <1>1, <1>3, <1>4, DayFacts

LEMMA PutKeeps ==
    ASSUME diskOk \in BOOLEAN, NEW s \in Stores, NEW f \in FileSets, NEW w, NEW dy,
           NEW r \in Records, s.day \in Days, dy[r] = s.day,
           Filed(s, f, w, dy), NEW o \in Put(s, f, r)
    PROVE  /\ o.store \in Stores /\ o.files \in FileSets /\ Filed(o.store, o.files, w, dy)
           /\ \A d \in Days : f.lines[d] \subseteq o.files.lines[d]
           /\ diskOk /\ Healthy(s, f) =>
                /\ Healthy(o.store, o.files) /\ o.ok
                /\ Keeps(s, f) \subseteq Keeps(o.store, o.files)
                /\ r \in Keeps(o.store, o.files) \/ s.day \in w
<1>1. /\ o.store \in Stores /\ o.files \in FileSets
      /\ o.store.day = s.day /\ o.store.linked = s.linked
      /\ Len(s.buffer) < BufCap => Len(o.store.buffer) < BufCap
      /\ ToSet(o.store.buffer) \subseteq ToSet(s.buffer) \cup {r}
      /\ o.files.present = f.present
      /\ \A d \in Days : f.lines[d] \subseteq o.files.lines[d]
      /\ \A d \in Days : d # s.day \/ ~ s.linked => o.files.lines[d] = f.lines[d]
      /\ o.files.lines[s.day] \subseteq f.lines[s.day] \cup ToSet(s.buffer) \cup {r}
      /\ diskOk /\ ~ s.broken => o.ok /\ ~ o.store.broken /\ o.files.ragged \subseteq f.ragged
      /\ diskOk /\ ~ s.broken /\ s.linked /\ f.ragged = {}
           => ToSet(s.buffer) \cup {r} \subseteq ToSet(o.store.buffer) \cup o.files.lines[s.day]
  BY PutLeaves
<1>2. s.linked \in BOOLEAN /\ f.present \subseteq Days /\ s.day # NoDay /\ o.store.linked \in BOOLEAN
  BY <1>1, DayFacts DEF Stores, FileSets
<1>3. Filed(o.store, o.files, w, dy)
  <2>1. ASSUME NEW d \in Days, NEW x \in o.files.lines[d] PROVE dy[x] = d /\ d \in o.files.present
    <3>1. CASE x \in f.lines[d]
      BY <1>1, <3>1 DEF Filed
    <3>2. CASE x \notin f.lines[d]
      <4>1. d = s.day /\ s.linked /\ (x \in ToSet(s.buffer) \/ x = r)
        BY <1>1, <2>1, <3>2
      <4> QED
        BY <1>1, <4>1 DEF Filed
    <3> QED
      BY <3>1, <3>2
  <2>2. \A x \in ToSet(o.store.buffer) : dy[x] = o.store.day
    BY <1>1 DEF Filed
  <2> QED
    BY <1>1, <1>2, <2>1, <2>2 DEF Filed
<1>4. ASSUME diskOk, Healthy(s, f)
      PROVE  /\ Healthy(o.store, o.files) /\ o.ok
             /\ Keeps(s, f) \subseteq Keeps(o.store, o.files)
             /\ r \in Keeps(o.store, o.files) \/ s.day \in w
  <2>1. Lines(f) \subseteq Lines(o.files) /\ o.files.lines[s.day] \subseteq Lines(o.files)
    BY <1>1 DEF Lines
  <2>2. Healthy(o.store, o.files) /\ o.ok
    BY <1>1, <1>4 DEF Healthy
  <2>3. CASE s.linked
    <3>1. ToSet(s.buffer) \cup {r} \subseteq ToSet(o.store.buffer) \cup o.files.lines[s.day]
      BY <1>1, <1>4, <2>3 DEF Healthy
    <3>2. Keeps(o.store, o.files) = ToSet(o.store.buffer) \cup Lines(o.files)
      BY <1>1, <2>2, <2>3 DEF Keeps, Healthy
    <3>3. Keeps(s, f) \subseteq ToSet(s.buffer) \cup Lines(f)
      BY DEF Keeps
    <3> QED
      BY <2>1, <2>2, <3>1, <3>2, <3>3
  <2>4. CASE ~ s.linked
    <3>1. s.day \in w
      BY <2>4 DEF Filed
    <3>2. Keeps(s, f) = Lines(f) /\ Lines(o.files) \subseteq Keeps(o.store, o.files)
      BY <2>4 DEF Keeps
    <3> QED
      BY <2>1, <2>2, <3>1, <3>2
  <2> QED
    BY <1>2, <2>3, <2>4
<1> QED
  BY <1>1, <1>3, <1>4

\* The writer's append keeps the files in order whatever the disk does; on a good disk it
\* loses nothing of what was kept, and the record itself only with its day.
LEMMA AppendKeeps ==
    ASSUME diskOk \in BOOLEAN, NEW s \in Stores, NEW f \in FileSets, NEW w,
           NEW r \in Records, day[r] \in Days,
           Filed(s, f, w, day), NEW o \in Appended(s, f, r)
    PROVE  /\ o.store \in Stores /\ o.files \in FileSets /\ Filed(o.store, o.files, w, day)
           /\ \A d \in Days : f.lines[d] \subseteq o.files.lines[d]
           /\ diskOk /\ Healthy(s, f) =>
                /\ Healthy(o.store, o.files) /\ o.ok
                /\ Keeps(s, f) \subseteq Keeps(o.store, o.files)
                /\ r \in Keeps(o.store, o.files) \/ day[r] \in w
<1>1. CASE s.day = day[r]
  <2>1. o \in Put(s, f, r)
    BY <1>1 DEF Appended
  <2> QED
    BY <1>1, <2>1, PutKeeps
<1>2. CASE s.day # day[r]
  <2>1. PICK q \in Rotated(s, f, day[r]) : IF q.ok THEN o \in Put(q.store, q.files, r) ELSE o = q
    BY <1>2 DEF Appended
  <2>2. PICK p \in Flushed(s, f) :
          \/ /\ q.store = Opened(day[r]) /\ q.ok /\ q.files \in FileSets
             /\ q.files.lines = p.files.lines /\ q.files.ragged = p.files.ragged
             /\ q.files.present = p.files.present \cup {day[r]}
          \/ q.store = Closed /\ q.files = p.files /\ ~ q.ok /\ ~ diskOk
    BY RotateLeaves
  <2>3. /\ p.store \in Stores /\ p.files \in FileSets /\ Filed(p.store, p.files, w, day)
        /\ \A d \in Days : f.lines[d] \subseteq p.files.lines[d]
        /\ diskOk /\ Healthy(s, f) =>
             Healthy(p.store, p.files) /\ Keeps(s, f) \subseteq Lines(p.files)
    BY FlushKeeps
  <2>4. CASE q.ok
    <3> DEFINE t == Opened(day[r])
    <3>1. /\ q.store = t /\ q.files \in FileSets
          /\ q.files.lines = p.files.lines /\ q.files.ragged = p.files.ragged
          /\ q.files.present = p.files.present \cup {day[r]}
      BY <2>2, <2>4
    <3>2. /\ t.day = day[r] /\ t.linked = TRUE /\ t.buffer = <<>> /\ t.broken = FALSE
          /\ t \in Stores
      BY EmptyBuffer DEF Opened, Stores
    <3> HIDE DEF t
    <3>3. Filed(t, q.files, w, day)
      <4>1. \A d \in Days : \A x \in q.files.lines[d] : day[x] = d /\ d \in q.files.present
        BY <2>3, <3>1 DEF Filed
      <4>2. Len(t.buffer) < BufCap /\ ToSet(t.buffer) = {}
        BY <3>2, Bounds, EmptyBuffer
      <4> QED
        BY <3>1, <3>2, <4>1, <4>2 DEF Filed
    <3>4. o \in Put(t, q.files, r)
      BY <2>1, <2>4, <3>1
    <3>5. /\ o.store \in Stores /\ o.files \in FileSets /\ Filed(o.store, o.files, w, day)
          /\ \A d \in Days : q.files.lines[d] \subseteq o.files.lines[d]
          /\ diskOk /\ Healthy(t, q.files) =>
                /\ Healthy(o.store, o.files) /\ o.ok
                /\ Keeps(t, q.files) \subseteq Keeps(o.store, o.files)
                /\ r \in Keeps(o.store, o.files) \/ t.day \in w
      BY <3>1, <3>2, <3>3, <3>4, PutKeeps
    <3>6. Lines(p.files) = Lines(q.files) /\ Lines(q.files) \subseteq Keeps(t, q.files)
      BY <3>1 DEF Lines, Keeps
    <3>7. Healthy(p.store, p.files) => Healthy(t, q.files)
      BY <3>1, <3>2 DEF Healthy
    <3>8. \A d \in Days : f.lines[d] \subseteq o.files.lines[d]
      BY <2>3, <3>1, <3>5
    <3> QED
      BY <2>3, <3>2, <3>5, <3>6, <3>7, <3>8
  <2>5. CASE ~ q.ok
    <3>1. o.store = Closed /\ o.files = p.files /\ ~ diskOk
      BY <2>1, <2>2, <2>5
    <3>2. /\ Closed.day = NoDay /\ Closed.linked = FALSE /\ Closed.buffer = <<>>
          /\ Closed.broken = FALSE /\ Closed \in Stores
      BY EmptyBuffer DEF Closed, Stores
    <3>3. Len(<<>>) < BufCap /\ ToSet(<<>>) = {}
      BY Bounds, EmptyBuffer
    <3>4. Filed(Closed, p.files, w, day)
      BY <2>3, <3>2, <3>3, DayFacts DEF Filed
    <3> QED
      BY <2>3, <3>1, <3>2, <3>4
  <2> QED
    BY <2>4, <2>5
<1> QED
  BY <1>1, <1>2

-----------------------------------------------------------------------------
(* The inductive invariant *)

QueueTypes ==
    /\ queue \in Seq(Records) /\ Len(queue) <= QueueCap
    /\ events \in SUBSET Records /\ dropped \in SUBSET Records
    /\ written \in SUBSET Records /\ failed \in SUBSET Records
    /\ early \in SUBSET Records /\ wiped \in SUBSET Days

ThreadTypes ==
    /\ caller \in [Records -> {"idle", "checked", "enlisted", "done"}]
    /\ held \in [Records -> 0 .. MaxStops + 1] /\ day \in [Records -> Days \cup {NoDay}]

StoreTypes == store \in Stores /\ files \in FileSets

AskTypes ==
    /\ flusher \in [pc : {"idle", "asking", "waiting", "acked", "gone"}, before : SUBSET Records]
    /\ scan \in [pc : {"idle", "list", "read", "answered", "error"}, want : SUBSET Records,
                 days : SUBSET Days, got : SUBSET Records]

OutsideTypes == diskOk \in BOOLEAN /\ today \in Days /\ breaks \in Nat /\ scans \in Nat

Types == QueueTypes /\ ThreadTypes /\ StoreTypes /\ AskTypes /\ OutsideTypes

\* A record is in one place at most, and its thread has brought it there; Health's Queued
\* counts the places.
Places ==
    /\ \A r \in Records : caller[r] = "idle" <=> day[r] = NoDay
    /\ \A r \in Records : held[r] <= life
    /\ \A r \in ToSet(queue) \cup written \cup failed : caller[r] = "done"
    /\ written \cap failed = {} /\ ToSet(queue) \cap (written \cup failed) = {}
    /\ Distinct(queue)
    /\ queued = Cardinality(Enlisted) + Len(queue) + Cardinality(written) + Cardinality(failed)

\* What is promised to somebody is a record that has come.
Come == \A r \in events \cup early \cup flusher.before \cup scan.want : caller[r] # "idle"

\* As long as the disk has never failed, nothing else has.
Sound == breaks = 0 => diskOk /\ Healthy(store, files) /\ failed = {}

RecInv ==
    /\ StageInv /\ Types /\ Places /\ Come /\ Filed(store, files, wiped, day) /\ Sound

-----------------------------------------------------------------------------
(* Types *)

LEMMA HeldRecords ==
    ASSUME QueueTypes, StoreTypes
    PROVE  ToSet(queue) \subseteq Records /\ Buffered \subseteq Records /\ OnFile \subseteq Records
<1>1. ToSet(queue) \subseteq Records
  BY DEF QueueTypes, ToSet
<1>2. store.buffer \in Seq(Records) /\ files.lines \in [Days -> SUBSET Records]
  BY DEF StoreTypes, Stores, FileSets
<1>3. ToSet(store.buffer) \subseteq Records
  BY <1>2 DEF ToSet
<1> QED
  BY <1>1, <1>2, <1>3 DEF Buffered, OnFile

LEMMA TypesAtInit == Init => Types
<1> SUFFICES ASSUME Init PROVE Types
  OBVIOUS
<1>1. QueueTypes
  <2>1. Len(<<>>) = 0 /\ 0 <= QueueCap
    BY Bounds
  <2> QED
    BY <2>1 DEF Init, QueueTypes
<1>2. ThreadTypes
  <2>1. 0 \in 0 .. MaxStops + 1
    BY Bounds
  <2> QED
    BY <2>1 DEF Init, ThreadTypes
<1>3. StoreTypes
  BY EmptyBuffer DEF Init, StoreTypes, Stores, FileSets, Closed
<1>4. AskTypes
  BY DEF Init, AskTypes, NoFlush, NoScan
<1>5. OutsideTypes
  <2>1. today \in Days /\ breaks \in Nat /\ scans \in Nat
    BY Bounds DEF Init, Days
  <2> QED
    BY <2>1 DEF Init, OutsideTypes
<1> QED
  BY <1>1, <1>2, <1>3, <1>4, <1>5 DEF Types

LEMMA QueueTypesStep ==
    ASSUME Types, [Next]_vars PROVE QueueTypes'
<1> USE DEF Types
<1>1. ASSUME UNCHANGED <<queue, events, dropped, written, failed, early, wiped>> PROVE QueueTypes'
  BY <1>1 DEF QueueTypes
<1>2. CASE Start \/ Close \/ BeginDrain \/ EndDrain \/ TakeFlush \/ AnswerFlush \/ FlushTimer
           \/ CallFlush \/ GiveUpFlush
  BY <1>1, <1>2 DEF Start, Close, BeginDrain, EndDrain, TakeFlush, AnswerFlush, FlushTimer,
                    CallFlush, GiveUpFlush, counters
<1>3. CASE Scans \/ NextDay \/ DiskBreaks \/ DiskMends \/ UNCHANGED vars
  BY <1>1, <1>3 DEF Scans, ScanFlush, ScanList, ScanRead, ScanDone, NextDay, DiskBreaks,
                    DiskMends, vars, counters
<1>4. CASE Stop
  <2>1. early' \in SUBSET Records
    BY <1>4, HeldRecords DEF Stop
  <2> QED
    BY <1>4, <2>1 DEF Stop, QueueTypes, counters
<1>5. CASE New
  <2>1. queue' \in Seq(Records) /\ Len(queue') <= QueueCap
    <3>1. <<>> \in Seq(Records) /\ Len(<<>>) = 0 /\ 0 <= QueueCap
      BY Bounds
    <3> QED
      BY <1>5, <3>1 DEF New
  <2>2. events' = {} /\ dropped' = {} /\ written' = {} /\ failed' = {} /\ early' = {} /\ wiped' = wiped
    BY <1>5 DEF New
  <2> QED
    BY <2>1, <2>2 DEF QueueTypes
<1>6. CASE WriteOne
  <2>1. /\ queue # <<>> /\ queue' = Tail(queue)
        /\ written' \in {written, written \cup {Head(queue)}}
        /\ failed' \in {failed, failed \cup {Head(queue)}}
        /\ UNCHANGED <<events, dropped, early, wiped>>
    BY <1>6 DEF WriteOne
  <2>2. /\ Head(queue) \in Records /\ Tail(queue) \in Seq(Records)
        /\ Len(Tail(queue)) = Len(queue) - 1 /\ Len(queue) \in Nat
    BY <2>1, QueueTail DEF QueueTypes
  <2>3. Len(queue') <= QueueCap
    BY <2>1, <2>2, Bounds DEF QueueTypes
  <2> QED
    BY <2>1, <2>2, <2>3 DEF QueueTypes
<1>7. CASE Clean
  <2>1. UNCHANGED <<queue, events, dropped, written, failed, early>>
    BY <1>7 DEF Clean, counters
  <2>2. PICK stuck \in IF diskOk THEN {{}} ELSE SUBSET files.present :
          wiped' = wiped \cup Doomed(files, stuck)
    BY <1>7 DEF Clean
  <2>3. Doomed(files, stuck) \subseteq files.present
    BY DEF Doomed
  <2>4. files.present \subseteq Days
    BY DEF StoreTypes, FileSets
  <2> QED
    BY <2>1, <2>2, <2>3, <2>4 DEF QueueTypes
<1>8. ASSUME NEW r \in Records, Check(r) \/ Enlist(r) \/ SendToOld(r) PROVE QueueTypes'
  BY <1>8 DEF Check, Enlist, SendToOld, QueueTypes, counters
<1>9. ASSUME NEW r \in Records, Send(r) PROVE QueueTypes'
  <2>1. /\ queue' = queue \/ (queue' = Append(queue, r) /\ Len(queue) < QueueCap)
        /\ dropped' \in {dropped, dropped \cup {r}}
        /\ UNCHANGED <<events, written, failed, early, wiped>>
    BY <1>9 DEF Send
  <2>2. /\ Append(queue, r) \in Seq(Records) /\ Len(Append(queue, r)) = Len(queue) + 1
        /\ Len(queue) \in Nat
    BY QueueAppend DEF QueueTypes
  <2>3. queue' \in Seq(Records) /\ Len(queue') <= QueueCap
    BY <2>1, <2>2, Bounds DEF QueueTypes
  <2> QED
    BY <2>1, <2>3 DEF QueueTypes
<1> QED
  BY <1>2, <1>3, <1>4, <1>5, <1>6, <1>7, <1>8, <1>9 DEF Next, Writes, Observe

LEMMA ThreadTypesStep ==
    ASSUME StageInv, Types, [Next]_vars PROVE ThreadTypes'
<1> USE DEF Types
<1>1. ASSUME UNCHANGED threads PROVE ThreadTypes'
  BY <1>1 DEF threads, ThreadTypes
<1>2. CASE Start \/ Stop \/ Close \/ New \/ Writes \/ FlushTimer \/ CallFlush \/ GiveUpFlush \/ Clean
  BY <1>1, <1>2 DEF Start, Stop, Close, New, Writes, WriteOne, BeginDrain, EndDrain, TakeFlush,
                    AnswerFlush, FlushTimer, CallFlush, GiveUpFlush, Clean
<1>3. CASE Scans \/ NextDay \/ DiskBreaks \/ DiskMends \/ UNCHANGED vars
  BY <1>1, <1>3 DEF Scans, ScanFlush, ScanList, ScanRead, ScanDone, NextDay, DiskBreaks,
                    DiskMends, vars
<1>4. ASSUME NEW r \in Records, Check(r) PROVE ThreadTypes'
  <2>1. PICK d \in {today - 1, today} \cap Days : day' = [day EXCEPT ![r] = d]
    BY <1>4 DEF Check
  <2>2. life \in 0 .. MaxStops + 1
    BY Bounds DEF StageInv
  <2>3. /\ caller' = [caller EXCEPT ![r] = "checked"] /\ held' = [held EXCEPT ![r] = life]
        /\ d \in Days
    BY <1>4, <2>1 DEF Check
  <2> QED
    BY <2>1, <2>2, <2>3 DEF ThreadTypes
<1>5. ASSUME NEW r \in Records, Enlist(r) \/ Send(r) \/ SendToOld(r) PROVE ThreadTypes'
  BY <1>5 DEF Enlist, Send, SendToOld, Away, ThreadTypes
<1> QED
  BY <1>2, <1>3, <1>4, <1>5 DEF Next, Observe

LEMMA AskTypesStep ==
    ASSUME Types, [Next]_vars PROVE AskTypes'
<1> USE DEF Types
<1>1. ASSUME UNCHANGED <<flusher, scan>> PROVE AskTypes'
  BY <1>1 DEF AskTypes
<1>2. CASE Start \/ Stop \/ Close \/ WriteOne \/ BeginDrain \/ EndDrain \/ FlushTimer \/ Clean
  BY <1>1, <1>2 DEF Start, Stop, Close, WriteOne, BeginDrain, EndDrain, FlushTimer, Clean, reading
<1>3. CASE NextDay \/ DiskBreaks \/ DiskMends \/ UNCHANGED vars
  BY <1>1, <1>3 DEF NextDay, DiskBreaks, DiskMends, vars, reading
<1>4. ASSUME NEW r \in Records, Observe(r) PROVE AskTypes'
  BY <1>1, <1>4 DEF Observe, Check, Enlist, Send, SendToOld, reading
<1>5. CASE New
  BY <1>5 DEF New, AskTypes, NoFlush, NoScan
<1>6. CASE CallFlush
  BY <1>6, HeldRecords DEF CallFlush, AskTypes, reading
<1>7. CASE TakeFlush \/ AnswerFlush \/ GiveUpFlush
  BY <1>7 DEF TakeFlush, AnswerFlush, GiveUpFlush, AskTypes, reading
<1>8. CASE ScanFlush
  <2>1. flusher' = flusher /\ scan' = [NoScan EXCEPT !.pc = "list", !.want = OnFile \cup Buffered]
    BY <1>8 DEF ScanFlush
  <2>2. OnFile \cup Buffered \in SUBSET Records
    BY HeldRecords
  <2> QED
    BY <2>1, <2>2 DEF AskTypes, NoScan
<1>9. CASE ScanList
  <2>1. flusher' = flusher /\ scan' = [scan EXCEPT !.pc = "read", !.days = files.present]
    BY <1>9 DEF ScanList
  <2>2. files.present \in SUBSET Days
    BY DEF StoreTypes, FileSets
  <2> QED
    BY <2>1, <2>2 DEF AskTypes
<1>10. CASE ScanRead
  <2>1. \A d \in Days : files.lines[d] \in SUBSET Records
    BY DEF StoreTypes, FileSets
  <2>2. CASE scan' = [scan EXCEPT !.pc = "answered"] \/ scan' = [scan EXCEPT !.pc = "error"]
    BY <1>10, <2>2 DEF ScanRead, AskTypes
  <2>3. ASSUME NEW d \in scan.days,
               scan' = [scan EXCEPT !.days = @ \ {d}, !.got = @ \cup files.lines[d]]
        PROVE  AskTypes'
    <3>1. d \in Days /\ scan.days \ {d} \in SUBSET Days
      BY DEF AskTypes
    <3>2. scan.got \cup files.lines[d] \in SUBSET Records
      BY <2>1, <3>1 DEF AskTypes
    <3> QED
      BY <1>10, <2>3, <3>1, <3>2 DEF ScanRead, AskTypes
  <2> QED
    BY <1>10, <2>2, <2>3 DEF ScanRead
<1>11. CASE ScanDone
  BY <1>11 DEF ScanDone, AskTypes, NoScan
<1> QED
  BY <1>2, <1>3, <1>4, <1>5, <1>6, <1>7, <1>8, <1>9, <1>10, <1>11 DEF Next, Writes, Scans

LEMMA OutsideTypesStep ==
    ASSUME Types, [Next]_vars PROVE OutsideTypes'
<1> USE DEF Types
<1>1. ASSUME UNCHANGED <<outside, scans>> PROVE OutsideTypes'
  BY <1>1 DEF outside, OutsideTypes
<1>2. CASE Start \/ Stop \/ Close \/ New \/ Writes \/ FlushTimer \/ CallFlush \/ GiveUpFlush \/ Clean
  BY <1>1, <1>2 DEF Start, Stop, Close, New, Writes, WriteOne, BeginDrain, EndDrain, TakeFlush,
                    AnswerFlush, FlushTimer, CallFlush, GiveUpFlush, Clean, reading
<1>3. CASE ScanList \/ ScanRead \/ ScanDone \/ UNCHANGED vars
  BY <1>1, <1>3 DEF ScanList, ScanRead, ScanDone, vars, reading
<1>4. ASSUME NEW r \in Records, Observe(r) PROVE OutsideTypes'
  BY <1>1, <1>4 DEF Observe, Check, Enlist, Send, SendToOld, reading
<1>5. CASE ScanFlush
  BY <1>5 DEF ScanFlush, OutsideTypes, outside
<1>6. CASE NextDay
  <2>1. today' \in Days
    BY <1>6, Bounds DEF NextDay, OutsideTypes, Days
  <2> QED
    BY <1>6, <2>1 DEF NextDay, OutsideTypes, reading
<1>7. CASE DiskBreaks \/ DiskMends
  <2>1. diskOk' \in BOOLEAN
    BY <1>7 DEF DiskBreaks, DiskMends
  <2>2. breaks' \in Nat
    BY <1>7 DEF DiskBreaks, DiskMends, OutsideTypes
  <2> QED
    BY <1>7, <2>1, <2>2 DEF DiskBreaks, DiskMends, OutsideTypes, reading
<1> QED
  BY <1>2, <1>3, <1>4, <1>5, <1>6, <1>7 DEF Next, Scans

-----------------------------------------------------------------------------
(* The files *)

LEMMA CleanKeeps ==
    ASSUME RecInv, Clean
    PROVE  /\ StoreTypes' /\ Filed(store', files', wiped', day')
           /\ store'.broken = store.broken /\ store'.buffer = store.buffer
           /\ store'.day = store.day /\ (store'.linked => store.linked)
           /\ store.linked /\ ~ store'.linked => store.day \in wiped'
           /\ files'.ragged \subseteq files.ragged
           /\ \A d \in Days : d \notin wiped' => files'.lines[d] = files.lines[d]
<1>1. PICK stuck \in IF diskOk THEN {{}} ELSE SUBSET files.present :
        LET doomed == Doomed(files, stuck)
        IN  /\ doomed # {}
            /\ wiped' = wiped \cup doomed
            /\ files' = [lines   |-> [d \in Days |-> IF d \in doomed THEN {} ELSE files.lines[d]],
                         present |-> files.present \ doomed,
                         ragged  |-> files.ragged \ doomed]
            /\ store' = [store EXCEPT !.linked = @ /\ store.day \notin doomed]
  BY DEF Clean
<1> DEFINE doomed == Doomed(files, stuck)
           kept   == [d \in Days |-> IF d \in doomed THEN {} ELSE files.lines[d]]
           there  == store.linked /\ store.day \notin doomed
<1>2. /\ wiped' = wiped \cup doomed
      /\ files' = [lines |-> kept, present |-> files.present \ doomed,
                   ragged |-> files.ragged \ doomed]
      /\ store' = [store EXCEPT !.linked = there]
  BY <1>1
<1> HIDE DEF doomed
<1>3. /\ store \in Stores /\ files \in FileSets /\ Filed(store, files, wiped, day)
      /\ files.lines \in [Days -> SUBSET Records] /\ files.present \subseteq Days
      /\ files.ragged \subseteq Days /\ store.linked \in BOOLEAN
  BY DEF RecInv, Types, StoreTypes, Stores, FileSets
<1>4. /\ kept \in [Days -> SUBSET Records]
      /\ \A d \in Days : kept[d] = IF d \in doomed THEN {} ELSE files.lines[d]
  BY <1>3
<1>5. there \in BOOLEAN
  BY <1>3
<1> HIDE DEF kept
<1>6. /\ files' \in FileSets /\ files'.lines = kept /\ files'.present = files.present \ doomed
      /\ files'.ragged = files.ragged \ doomed
  BY <1>2, <1>3, <1>4 DEF FileSets
<1>7. there = (store.linked /\ store.day \notin doomed)
  OBVIOUS
<1> HIDE DEF there
<1>8. /\ store' \in Stores /\ store'.day = store.day /\ store'.buffer = store.buffer
      /\ store'.broken = store.broken /\ store'.linked = there
  <2>1. store \in [day : Days \cup {NoDay}, linked : BOOLEAN, buffer : Seq(Records), broken : BOOLEAN]
    BY <1>3 DEF Stores
  <2>2. [store EXCEPT !.linked = there]
          \in [day : Days \cup {NoDay}, linked : BOOLEAN, buffer : Seq(Records), broken : BOOLEAN]
    BY <1>5, <2>1
  <2> QED
    BY <1>2, <2>1, <2>2 DEF Stores
<1>9. day' = day
  BY DEF Clean, threads
<1>10. Filed(store', files', wiped', day')
  <2>1. \A d \in Days : \A x \in files'.lines[d] : day'[x] = d /\ d \in files'.present
    BY <1>3, <1>4, <1>6, <1>9 DEF Filed
  <2>2. \A x \in ToSet(store'.buffer) : day'[x] = store'.day
    BY <1>3, <1>8, <1>9 DEF Filed
  <2>3. store'.linked => store'.day \in files'.present
    BY <1>3, <1>6, <1>7, <1>8 DEF Filed
  <2>4. store'.day \in Days /\ ~ store'.linked => store'.day \in wiped'
    BY <1>2, <1>3, <1>7, <1>8 DEF Filed
  <2>5. /\ store'.day = NoDay => store'.buffer = <<>> /\ ~ store'.broken
        /\ Len(store'.buffer) < BufCap
    BY <1>3, <1>8 DEF Filed
  <2> QED
    BY <2>1, <2>2, <2>3, <2>4, <2>5 DEF Filed
<1> QED
  BY <1>2, <1>3, <1>4, <1>5, <1>6, <1>7, <1>8, <1>10 DEF StoreTypes

\* What the writer takes from the queue has its day.
LEMMA HeadHasDay ==
    ASSUME RecInv, queue # <<>>
    PROVE  Head(queue) \in Records /\ day[Head(queue)] \in Days
<1>1. Head(queue) \in Records /\ Head(queue) \in ToSet(queue)
  BY QueueTail DEF RecInv, Types, QueueTypes
<1>2. caller[Head(queue)] = "done"
  BY <1>1 DEF RecInv, Places
<1>3. day[Head(queue)] # NoDay
  BY <1>1, <1>2 DEF RecInv, Places
<1> QED
  BY <1>1, <1>3 DEF RecInv, Types, ThreadTypes

LEMMA FilesStep ==
    ASSUME RecInv, [Next]_vars PROVE StoreTypes' /\ Filed(store', files', wiped', day')
<1>1. /\ StoreTypes /\ store \in Stores /\ files \in FileSets /\ diskOk \in BOOLEAN
      /\ Filed(store, files, wiped, day)
  BY DEF RecInv, Types, StoreTypes, OutsideTypes
<1>2. ASSUME UNCHANGED <<store, files, wiped, day>>
      PROVE  StoreTypes' /\ Filed(store', files', wiped', day')
  BY <1>1, <1>2 DEF StoreTypes
<1>3. ASSUME UNCHANGED <<wiped, day>>,
             \E o \in Flushed(store, files) : store' = o.store /\ files' = o.files
      PROVE  StoreTypes' /\ Filed(store', files', wiped', day')
  BY <1>1, <1>3, FlushKeeps DEF StoreTypes
<1>4. CASE Start \/ Stop \/ New \/ BeginDrain \/ TakeFlush \/ CallFlush \/ GiveUpFlush
  BY <1>2, <1>4 DEF Start, Stop, New, BeginDrain, TakeFlush, CallFlush, GiveUpFlush, threads
<1>5. CASE EndDrain \/ AnswerFlush \/ FlushTimer \/ ScanFlush
  BY <1>3, <1>5 DEF EndDrain, AnswerFlush, FlushTimer, ScanFlush, threads
<1>6. CASE ScanList \/ ScanRead \/ ScanDone \/ NextDay \/ DiskBreaks \/ DiskMends \/ UNCHANGED vars
  BY <1>2, <1>6 DEF ScanList, ScanRead, ScanDone, NextDay, DiskBreaks, DiskMends, vars, threads
<1>7. CASE Clean
  BY <1>7, CleanKeeps
<1>8. CASE Close
  <2>1. PICK o \in Flushed(store, files) : files' = o.files
    BY <1>8 DEF Close
  <2>2. store' = Closed /\ UNCHANGED <<wiped, day>>
    BY <1>8 DEF Close, threads
  <2>3. o.files \in FileSets /\ Filed(o.store, o.files, wiped, day)
    BY <1>1, FlushKeeps
  <2>4. /\ Closed.day = NoDay /\ Closed.linked = FALSE /\ Closed.buffer = <<>>
        /\ Closed.broken = FALSE /\ Closed \in Stores
    BY EmptyBuffer DEF Closed, Stores
  <2>5. Len(<<>>) < BufCap /\ ToSet(<<>>) = {}
    BY Bounds, EmptyBuffer
  <2> QED
    BY <2>1, <2>2, <2>3, <2>4, <2>5, DayFacts DEF Filed, StoreTypes
<1>9. CASE WriteOne
  <2>1. /\ queue # <<>> /\ UNCHANGED <<wiped, day>>
        /\ \E o \in Appended(store, files, Head(queue)) : store' = o.store /\ files' = o.files
    BY <1>9 DEF WriteOne, threads
  <2> QED
    BY <1>1, <2>1, HeadHasDay, AppendKeeps DEF StoreTypes
<1>10. ASSUME NEW r \in Records, Enlist(r) \/ Send(r) \/ SendToOld(r)
       PROVE  StoreTypes' /\ Filed(store', files', wiped', day')
  BY <1>2, <1>10 DEF Enlist, Send, SendToOld
<1>11. ASSUME NEW r \in Records, Check(r) PROVE StoreTypes' /\ Filed(store', files', wiped', day')
  <2>1. /\ UNCHANGED <<store, files, wiped>> /\ caller[r] = "idle"
        /\ \E d \in Days : day' = [day EXCEPT ![r] = d]
    BY <1>11 DEF Check
  <2>2. day[r] = NoDay
    BY <2>1 DEF RecInv, Places
  <2>3. day \in [Records -> Days \cup {NoDay}]
    BY DEF RecInv, Types, ThreadTypes
  <2>4. \A x : day[x] \in Days /\ x \in Records => day'[x] = day[x]
    BY <2>1, <2>2, <2>3, DayFacts
  <2>5. ASSUME NEW d \in Days, NEW x \in files.lines[d] PROVE day'[x] = d /\ d \in files.present
    <3>1. x \in Records /\ day[x] = d /\ d \in files.present
      BY <1>1 DEF Filed, FileSets
    <3> QED
      BY <2>4, <3>1
  <2>6. ASSUME NEW x \in ToSet(store.buffer) PROVE day'[x] = store.day
    <3>1. x \in Records /\ day[x] = store.day
      BY <1>1 DEF Filed, Stores, ToSet
    <3>2. store.day \in Days
      BY <1>1, EmptyBuffer DEF Filed, Stores
    <3> QED
      BY <2>4, <3>1, <3>2
  <2> QED
    BY <1>1, <2>1, <2>5, <2>6 DEF Filed, StoreTypes
<1> QED
  BY <1>4, <1>5, <1>6, <1>7, <1>8, <1>9, <1>10, <1>11 DEF Next, Writes, Scans, Observe

-----------------------------------------------------------------------------
(* The threads and the queue *)

LEMMA CountOne ==
    ASSUME NEW S \in SUBSET Records, NEW r \in Records
    PROVE  /\ Cardinality(S) \in Nat
           /\ r \notin S => Cardinality(S \cup {r}) = Cardinality(S) + 1
           /\ r \in S => Cardinality(S \ {r}) = Cardinality(S) - 1
<1>1. IsFiniteSet(S)
  BY Bounds, FS_Subset
<1>2. Cardinality(S) \in Nat
  BY <1>1, FS_CardinalityType
<1>3. r \notin S => Cardinality(S \cup {r}) = Cardinality(S) + 1
  BY <1>1, FS_AddElement
<1>4. r \in S => Cardinality(S \ {r}) = Cardinality(S) - 1
  BY <1>1, FS_RemoveElement
<1> QED
  BY <1>2, <1>3, <1>4

LEMMA PlacesStep ==
    ASSUME RecInv, [Next]_vars PROVE Places'
<1>1. /\ QueueTypes /\ ThreadTypes /\ Places /\ life \in Nat
      /\ written \in SUBSET Records /\ failed \in SUBSET Records /\ queue \in Seq(Records)
      /\ Enlisted \in SUBSET Records /\ Len(queue) \in Nat
      /\ Cardinality(Enlisted) \in Nat /\ Cardinality(written) \in Nat /\ Cardinality(failed) \in Nat
  <2>1. QueueTypes /\ ThreadTypes /\ Places /\ life \in Nat
    BY DEF RecInv, Types, StageInv
  <2>2. Enlisted \in SUBSET Records
    BY DEF Enlisted
  <2>3. /\ IsFiniteSet(Enlisted) /\ IsFiniteSet(written) /\ IsFiniteSet(failed)
        /\ written \in SUBSET Records /\ failed \in SUBSET Records /\ queue \in Seq(Records)
    BY <2>1, <2>2, Bounds, FS_Subset DEF QueueTypes
  <2> QED
    BY <2>1, <2>2, <2>3, FS_CardinalityType
<1>2. ASSUME UNCHANGED <<queue, queued, written, failed, threads, life>> PROVE Places'
  BY <1>1, <1>2 DEF Places, threads, Enlisted
<1>3. CASE Start \/ Stop \/ Close \/ BeginDrain \/ EndDrain \/ TakeFlush \/ AnswerFlush
  BY <1>2, <1>3 DEF Start, Stop, Close, BeginDrain, EndDrain, TakeFlush, AnswerFlush, counters
<1>4. CASE FlushTimer \/ CallFlush \/ GiveUpFlush \/ Clean
  BY <1>2, <1>4 DEF FlushTimer, CallFlush, GiveUpFlush, Clean, counters, process
<1>5. CASE Scans \/ NextDay \/ DiskBreaks \/ DiskMends \/ UNCHANGED vars
  BY <1>2, <1>5 DEF Scans, ScanFlush, ScanList, ScanRead, ScanDone, NextDay, DiskBreaks,
                    DiskMends, vars, counters, process
<1>6. CASE New
  <2>1. /\ life' = life + 1 /\ queue' = <<>> /\ queued' = 0 /\ written' = {} /\ failed' = {}
        /\ UNCHANGED threads
    BY <1>6 DEF New
  <2>2. \A r \in Records : held[r] \in Nat /\ held[r] <= life
    BY <1>1, Bounds DEF ThreadTypes, Places
  <2>3. Enlisted' = {} /\ \A r \in Records : held'[r] <= life'
    BY <1>1, <2>1, <2>2 DEF Enlisted, threads
  <2>4. Cardinality({}) = 0 /\ Len(<<>>) = 0 /\ ToSet(<<>>) = {} /\ Distinct(<<>>)
    BY FS_EmptySet, EmptyBuffer DEF Distinct
  <2>5. queued' = Cardinality(Enlisted') + Len(queue') + Cardinality(written') + Cardinality(failed')
    BY <2>1, <2>3, <2>4
  <2>6. \A r \in Records : caller'[r] = "idle" <=> day'[r] = NoDay
    BY <1>1, <2>1 DEF Places, threads
  <2> QED
    BY <2>1, <2>3, <2>4, <2>5, <2>6 DEF Places
<1>7. CASE WriteOne
  <2> DEFINE r == Head(queue)
  <2>1. /\ queue # <<>> /\ queue' = Tail(queue) /\ UNCHANGED <<queued, threads, life>>
        /\ \/ written' = written \cup {r} /\ failed' = failed
           \/ written' = written /\ failed' = failed \cup {r}
    BY <1>7 DEF WriteOne, process
  <2>2. /\ r \in Records /\ Len(queue') = Len(queue) - 1 /\ ToSet(queue) = ToSet(queue') \cup {r}
        /\ Distinct(queue') /\ r \notin ToSet(queue')
    BY <1>1, <2>1, QueueTail DEF Places
  <2> HIDE DEF r
  <2>3. r \notin written /\ r \notin failed /\ caller[r] = "done"
    BY <1>1, <2>2 DEF Places
  <2>4. /\ Cardinality(written \cup {r}) = Cardinality(written) + 1
        /\ Cardinality(failed \cup {r}) = Cardinality(failed) + 1
    BY <1>1, <2>2, <2>3, CountOne
  <2>5. Enlisted' = Enlisted
    BY <2>1 DEF Enlisted, threads
  <2>6. queued' = Cardinality(Enlisted') + Len(queue') + Cardinality(written') + Cardinality(failed')
    <3>1. queued = Cardinality(Enlisted) + Len(queue) + Cardinality(written) + Cardinality(failed)
      BY <1>1 DEF Places
    <3>2. queued' = queued /\ Cardinality(Enlisted') = Cardinality(Enlisted)
      BY <2>1, <2>5
    <3>3. CASE written' = written \cup {r} /\ failed' = failed
      <4>1. /\ Cardinality(written') = Cardinality(written) + 1
            /\ Cardinality(failed') = Cardinality(failed)
        BY <2>4, <3>3
      <4> QED
        BY <1>1, <2>2, <3>1, <3>2, <4>1
    <3>4. CASE written' = written /\ failed' = failed \cup {r}
      <4>1. /\ Cardinality(written') = Cardinality(written)
            /\ Cardinality(failed') = Cardinality(failed) + 1
        BY <2>4, <3>4
      <4> QED
        BY <1>1, <2>2, <3>1, <3>2, <4>1
    <3> QED
      BY <2>1, <3>3, <3>4
  <2>7. /\ \A x \in ToSet(queue') \cup written' \cup failed' : caller'[x] = "done"
        /\ written' \cap failed' = {} /\ ToSet(queue') \cap (written' \cup failed') = {}
    BY <1>1, <2>1, <2>2, <2>3 DEF Places, threads
  <2>8. /\ \A x \in Records : caller'[x] = "idle" <=> day'[x] = NoDay
        /\ \A x \in Records : held'[x] <= life'
    BY <1>1, <2>1 DEF Places, threads
  <2> QED
    BY <2>2, <2>6, <2>7, <2>8 DEF Places
<1>8. ASSUME NEW r \in Records, Check(r) PROVE Places'
  <2>1. /\ caller[r] = "idle" /\ caller' = [caller EXCEPT ![r] = "checked"]
        /\ held' = [held EXCEPT ![r] = life] /\ UNCHANGED <<life, queue, queued, written, failed>>
    BY <1>8 DEF Check, process, counters
  <2>2. \E d \in Days : day' = [day EXCEPT ![r] = d]
    BY <1>8 DEF Check
  <2>3. \A x \in Records : caller'[x] = "idle" <=> day'[x] = NoDay
    BY <1>1, <2>1, <2>2, DayFacts DEF Places, ThreadTypes
  <2>4. \A x \in Records : held'[x] <= life'
    BY <1>1, <2>1 DEF Places, ThreadTypes
  <2>5. Enlisted' = Enlisted
    BY <1>1, <2>1 DEF Enlisted, ThreadTypes
  <2>6. \A x \in ToSet(queue') \cup written' \cup failed' : caller'[x] = "done"
    BY <1>1, <2>1 DEF Places, ThreadTypes
  <2> QED
    BY <1>1, <2>1, <2>3, <2>4, <2>5, <2>6 DEF Places
<1>9. ASSUME NEW r \in Records, Enlist(r) PROVE Places'
  <2>1. /\ caller[r] = "checked" /\ held[r] = life
        /\ UNCHANGED <<life, queue, written, failed, held, day>>
        /\ \/ caller' = [caller EXCEPT ![r] = "done"] /\ queued' = queued
           \/ caller' = [caller EXCEPT ![r] = "enlisted"] /\ queued' = queued + 1
    BY <1>9 DEF Enlist, Away, process
  <2>2. r \notin ToSet(queue) \cup written \cup failed /\ r \notin Enlisted
    BY <1>1, <2>1 DEF Places, Enlisted
  <2>3. /\ \A x \in Records : caller'[x] = "idle" <=> day'[x] = NoDay
        /\ \A x \in Records : held'[x] <= life'
        /\ \A x \in ToSet(queue') \cup written' \cup failed' : caller'[x] = "done"
    <3>1. \A x \in Records : caller'[x] = "idle" <=> day'[x] = NoDay
      BY <1>1, <2>1 DEF Places, ThreadTypes
    <3>2. \A x \in Records : held'[x] <= life'
      BY <1>1, <2>1 DEF Places
    <3>3. ToSet(queue') \cup written' \cup failed' \subseteq Records \ {r}
      BY <1>1, <2>1, <2>2 DEF ToSet
    <3>4. \A x \in ToSet(queue') \cup written' \cup failed' : caller[x] = "done"
      BY <1>1, <2>1 DEF Places
    <3>5. \A x \in ToSet(queue') \cup written' \cup failed' : caller'[x] = "done"
      BY <1>1, <2>1, <3>3, <3>4 DEF ThreadTypes
    <3> QED
      BY <3>1, <3>2, <3>5
  <2>4. CASE caller' = [caller EXCEPT ![r] = "done"] /\ queued' = queued
    <3>1. Enlisted' = Enlisted
      BY <1>1, <2>1, <2>4 DEF Enlisted, ThreadTypes
    <3> QED
      BY <1>1, <2>1, <2>3, <2>4, <3>1 DEF Places
  <2>5. CASE caller' = [caller EXCEPT ![r] = "enlisted"] /\ queued' = queued + 1
    <3>1. Enlisted' = Enlisted \cup {r}
      BY <1>1, <2>1, <2>5 DEF Enlisted, ThreadTypes
    <3>2. Cardinality(Enlisted \cup {r}) = Cardinality(Enlisted) + 1
      BY <1>1, <2>2, CountOne
    <3>3. queued' = Cardinality(Enlisted') + Len(queue') + Cardinality(written') + Cardinality(failed')
      <4>1. queued = Cardinality(Enlisted) + Len(queue) + Cardinality(written) + Cardinality(failed)
        BY <1>1 DEF Places
      <4> QED
        BY <1>1, <2>1, <2>5, <3>1, <3>2, <4>1
    <3> QED
      BY <1>1, <2>1, <2>3, <3>3 DEF Places
  <2> QED
    BY <2>1, <2>4, <2>5
<1>10. ASSUME NEW r \in Records, Send(r) PROVE Places'
  <2>1. /\ caller[r] = "enlisted" /\ held[r] = life /\ caller' = [caller EXCEPT ![r] = "done"]
        /\ UNCHANGED <<life, written, failed, held, day>>
        /\ \/ queue' = Append(queue, r) /\ queued' = queued
           \/ queue' = queue /\ queued' = queued - 1
    BY <1>10 DEF Send, Away, process
  <2>2. r \notin ToSet(queue) \cup written \cup failed /\ r \in Enlisted
    BY <1>1, <2>1 DEF Places, Enlisted
  <2>3. /\ \A x \in Records : caller'[x] = "idle" <=> day'[x] = NoDay
        /\ \A x \in Records : held'[x] <= life'
        /\ \A x \in ToSet(queue) \cup written' \cup failed' \cup {r} : caller'[x] = "done"
    BY <1>1, <2>1, <2>2 DEF Places, ThreadTypes
  <2>4. Enlisted' = Enlisted \ {r} /\ Cardinality(Enlisted \ {r}) = Cardinality(Enlisted) - 1
    <3>1. Enlisted' = Enlisted \ {r}
      BY <1>1, <2>1 DEF Enlisted, ThreadTypes
    <3> QED
      BY <1>1, <2>2, <3>1, CountOne
  <2>5. /\ Len(Append(queue, r)) = Len(queue) + 1 /\ ToSet(Append(queue, r)) = ToSet(queue) \cup {r}
        /\ Distinct(Append(queue, r))
    BY <1>1, <2>2, QueueAppend DEF Places
  <2>6. /\ ToSet(queue') \subseteq ToSet(queue) \cup {r} /\ Distinct(queue')
    BY <1>1, <2>1, <2>5 DEF Places
  <2>7. queued' = Cardinality(Enlisted') + Len(queue') + Cardinality(written') + Cardinality(failed')
    <3>1. queued = Cardinality(Enlisted) + Len(queue) + Cardinality(written) + Cardinality(failed)
      BY <1>1 DEF Places
    <3>2. /\ queued \in Int /\ Cardinality(Enlisted) \in Int /\ Len(queue) \in Int
          /\ Cardinality(written) \in Int /\ Cardinality(failed) \in Int
      BY <1>1 DEF Places
    <3>3. written' = written /\ failed' = failed
      BY <2>1
    <3>4. Cardinality(Enlisted') = Cardinality(Enlisted) - 1
      BY <2>4
    <3>5. \/ Len(queue') = Len(queue) + 1 /\ queued' = queued
          \/ Len(queue') = Len(queue) /\ queued' = queued - 1
      BY <2>1, <2>5
    <3> QED
      BY <3>1, <3>2, <3>3, <3>4, <3>5
  <2>8. written' \cap failed' = {} /\ ToSet(queue') \cap (written' \cup failed') = {}
    BY <1>1, <2>1, <2>2, <2>6 DEF Places
  <2>9. \A x \in ToSet(queue') \cup written' \cup failed' : caller'[x] = "done"
    BY <2>3, <2>6
  <2> QED
    BY <2>3, <2>6, <2>7, <2>8, <2>9 DEF Places
<1>11. ASSUME NEW r \in Records, SendToOld(r) PROVE Places'
  <2>1. /\ held[r] # life /\ caller[r] \in {"checked", "enlisted"}
        /\ caller' = [caller EXCEPT ![r] = "done"]
        /\ UNCHANGED <<life, queue, queued, written, failed, held, day>>
    BY <1>11 DEF SendToOld, Away, process, counters
  <2>2. Enlisted' = Enlisted
    BY <1>1, <2>1 DEF Enlisted, ThreadTypes
  <2>3. \A x \in Records : caller'[x] = "idle" <=> day'[x] = NoDay
    BY <1>1, <2>1 DEF Places, ThreadTypes
  <2>4. \A x \in ToSet(queue') \cup written' \cup failed' : caller'[x] = "done"
    BY <1>1, <2>1 DEF Places, ThreadTypes
  <2> QED
    BY <1>1, <2>1, <2>2, <2>3, <2>4 DEF Places
<1> QED
  BY <1>3, <1>4, <1>5, <1>6, <1>7, <1>8, <1>9, <1>10, <1>11 DEF Next, Writes, Observe

\* Nobody waits for, counts or stores a record that has not come.
LEMMA HeldCome ==
    ASSUME RecInv
    PROVE  \A r \in ToSet(queue) \cup Buffered \cup OnFile : r \in Records /\ caller[r] # "idle"
<1>1. ToSet(queue) \subseteq Records /\ Buffered \subseteq Records /\ OnFile \subseteq Records
  BY HeldRecords DEF RecInv, Types
<1>2. Filed(store, files, wiped, day) /\ Places /\ store \in Stores
  BY DEF RecInv, Types, StoreTypes
<1>3. \A r \in ToSet(queue) : caller[r] # "idle"
  BY <1>2 DEF Places
<1>4. ASSUME NEW r \in Buffered PROVE caller[r] # "idle"
  <2>1. r \in ToSet(store.buffer)
    BY <1>4 DEF Buffered
  <2>2. store.buffer # <<>>
    BY <2>1, EmptyBuffer
  <2>3. day[r] # NoDay
    BY <1>2, <2>1, <2>2 DEF Filed, Stores
  <2> QED
    BY <1>1, <1>2, <1>4, <2>3 DEF Places
<1>5. ASSUME NEW r \in OnFile PROVE caller[r] # "idle"
  <2>1. PICK d \in Days : r \in files.lines[d]
    BY <1>5 DEF OnFile
  <2>2. day[r] # NoDay
    BY <1>2, <2>1, DayFacts DEF Filed
  <2> QED
    BY <1>1, <1>2, <1>5, <2>2 DEF Places
<1> QED
  BY <1>1, <1>3, <1>4, <1>5

LEMMA ComeStep ==
    ASSUME RecInv, [Next]_vars PROVE Come'
<1>1. /\ Come /\ Places /\ ThreadTypes
      /\ \A r \in ToSet(queue) \cup Buffered \cup OnFile : r \in Records /\ caller[r] # "idle"
      /\ events \cup early \cup flusher.before \cup scan.want \subseteq Records
      /\ flusher \in [pc : {"idle", "asking", "waiting", "acked", "gone"}, before : SUBSET Records]
      /\ scan \in [pc : {"idle", "list", "read", "answered", "error"}, want : SUBSET Records,
                   days : SUBSET Days, got : SUBSET Records]
  <2>1. events \in SUBSET Records /\ early \in SUBSET Records
    BY DEF RecInv, Types, QueueTypes
  <2>2. flusher.before \in SUBSET Records /\ scan.want \in SUBSET Records
    BY DEF RecInv, Types, AskTypes
  <2> QED
    BY <2>1, <2>2, HeldCome DEF RecInv, Types, AskTypes
<1>2. ASSUME UNCHANGED <<caller, events, early, flusher, scan>> PROVE Come'
  BY <1>1, <1>2 DEF Come
<1>3. CASE Start \/ Close \/ WriteOne \/ BeginDrain \/ EndDrain \/ FlushTimer \/ Clean
  BY <1>2, <1>3 DEF Start, Close, WriteOne, BeginDrain, EndDrain, FlushTimer, Clean, threads,
                    counters, reading
<1>4. CASE NextDay \/ DiskBreaks \/ DiskMends \/ UNCHANGED vars
  BY <1>2, <1>4 DEF NextDay, DiskBreaks, DiskMends, vars, threads, counters, reading
<1>5. CASE Stop
  BY <1>1, <1>5 DEF Stop, Come, threads, counters, reading
<1>6. CASE New
  BY <1>1, <1>6 DEF New, Come, threads, NoFlush, NoScan
<1>7. CASE TakeFlush \/ AnswerFlush \/ GiveUpFlush
  <2>1. flusher'.before = flusher.before /\ UNCHANGED <<caller, events, early, scan>>
    BY <1>1, <1>7 DEF TakeFlush, AnswerFlush, GiveUpFlush, threads, counters, reading
  <2> QED
    BY <1>1, <2>1 DEF Come
<1>8. CASE CallFlush
  BY <1>1, <1>8 DEF CallFlush, Come, threads, counters, reading
<1>9. CASE ScanList \/ ScanRead \/ ScanDone
  <2>1. UNCHANGED <<caller, events, early, flusher>>
    BY <1>9 DEF ScanList, ScanRead, ScanDone, threads, counters
  <2>2. ASSUME ScanList \/ ScanRead PROVE scan'.want = scan.want
    BY <1>1, <2>2 DEF ScanList, ScanRead
  <2>3. ASSUME ScanDone PROVE scan'.want = {}
    BY <2>3 DEF ScanDone, NoScan
  <2> QED
    BY <1>1, <1>9, <2>1, <2>2, <2>3 DEF Come
<1>10. CASE ScanFlush
  <2>1. scan'.want = OnFile \cup Buffered /\ UNCHANGED <<caller, events, early, flusher>>
    BY <1>10 DEF ScanFlush, NoScan, threads, counters
  <2> QED
    BY <1>1, <2>1 DEF Come
<1>11. ASSUME NEW r \in Records, Observe(r) PROVE Come'
  <2>1. /\ events' \subseteq events \cup {r} /\ UNCHANGED <<early, flusher, scan>>
        /\ \E pc \in {"checked", "enlisted", "done"} : caller' = [caller EXCEPT ![r] = pc]
    BY <1>11 DEF Observe, Check, Enlist, Send, SendToOld, Away, counters, reading
  <2>2. \A x \in Records : caller[x] # "idle" \/ x = r => caller'[x] # "idle"
    BY <1>1, <2>1 DEF ThreadTypes
  <2>3. \A x \in events' \cup early' \cup flusher'.before \cup scan'.want :
            x \in Records /\ (caller[x] # "idle" \/ x = r)
    BY <1>1, <2>1 DEF Come
  <2> QED
    BY <2>2, <2>3 DEF Come
<1> QED
  BY <1>3, <1>4, <1>5, <1>6, <1>7, <1>8, <1>9, <1>10, <1>11 DEF Next, Writes, Scans

LEMMA SoundStep ==
    ASSUME RecInv, [Next]_vars PROVE Sound'
<1>1. /\ store \in Stores /\ files \in FileSets /\ diskOk \in BOOLEAN /\ breaks \in Nat
      /\ Filed(store, files, wiped, day) /\ Sound
  BY DEF RecInv, Types, StoreTypes, OutsideTypes
<1>2. ASSUME UNCHANGED <<store, files, failed, outside>> PROVE Sound'
  BY <1>1, <1>2 DEF Sound, outside, Healthy
<1>3. ASSUME UNCHANGED <<failed, outside>>,
             \E o \in Flushed(store, files) : store' = o.store /\ files' = o.files
      PROVE  Sound'
  <2>1. PICK o \in Flushed(store, files) : store' = o.store /\ files' = o.files
    BY <1>3
  <2>2. diskOk /\ Healthy(store, files) => Healthy(o.store, o.files)
    BY <1>1, FlushKeeps
  <2> QED
    BY <1>1, <1>3, <2>1, <2>2 DEF Sound, outside
<1>4. CASE Start \/ Stop \/ BeginDrain \/ TakeFlush \/ CallFlush \/ GiveUpFlush
  BY <1>2, <1>4 DEF Start, Stop, BeginDrain, TakeFlush, CallFlush, GiveUpFlush, counters
<1>5. CASE EndDrain \/ AnswerFlush \/ FlushTimer \/ ScanFlush
  BY <1>3, <1>5 DEF EndDrain, AnswerFlush, FlushTimer, ScanFlush, counters
<1>6. CASE ScanList \/ ScanRead \/ ScanDone \/ UNCHANGED vars
  BY <1>2, <1>6 DEF ScanList, ScanRead, ScanDone, vars, counters
<1>7. ASSUME NEW r \in Records, Observe(r) PROVE Sound'
  BY <1>2, <1>7 DEF Observe, Check, Enlist, Send, SendToOld, counters
<1>8. CASE Close
  <2>1. PICK o \in Flushed(store, files) : files' = o.files
    BY <1>8 DEF Close
  <2>2. diskOk /\ Healthy(store, files) => Healthy(o.store, o.files)
    BY <1>1, FlushKeeps
  <2>3. store' = Closed /\ Closed.broken = FALSE /\ UNCHANGED <<failed, diskOk, breaks>>
    BY <1>8 DEF Close, counters, outside, Closed
  <2> QED
    BY <1>1, <2>1, <2>2, <2>3 DEF Sound, Healthy
<1>9. CASE New
  BY <1>1, <1>9 DEF New, Sound, outside, Healthy
<1>10. CASE WriteOne
  <2>1. PICK o \in Appended(store, files, Head(queue)) :
          /\ store' = o.store /\ files' = o.files
          /\ failed' = IF o.ok THEN failed ELSE failed \cup {Head(queue)}
    BY <1>10 DEF WriteOne
  <2>2. diskOk /\ Healthy(store, files) => Healthy(o.store, o.files) /\ o.ok
    BY <1>1, <1>10, HeadHasDay, AppendKeeps DEF WriteOne
  <2>3. UNCHANGED outside
    BY <1>10 DEF WriteOne
  <2> QED
    BY <1>1, <2>1, <2>2, <2>3 DEF Sound, outside
<1>11. CASE Clean
  <2>1. store'.broken = store.broken /\ files'.ragged \subseteq files.ragged
    BY <1>11, CleanKeeps
  <2>2. UNCHANGED <<failed, outside>>
    BY <1>11 DEF Clean, counters
  <2> QED
    BY <1>1, <2>1, <2>2 DEF Sound, outside, Healthy
<1>12. CASE NextDay \/ DiskMends
  BY <1>1, <1>12 DEF NextDay, DiskMends, Sound, counters, Healthy
<1>13. CASE DiskBreaks
  BY <1>1, <1>13 DEF DiskBreaks, Sound
<1> QED
  BY <1>4, <1>5, <1>6, <1>7, <1>8, <1>9, <1>10, <1>11, <1>12, <1>13 DEF Next, Writes, Scans

LEMMA RecInvAtInit == Init => RecInv
<1> SUFFICES ASSUME Init PROVE RecInv
  OBVIOUS
<1>1. Types /\ StageInv
  <2>1. started \in BOOLEAN /\ stopping \in BOOLEAN
    BY DEF Init
  <2>2. life \in 1 .. MaxStops + 1
    BY Bounds DEF Init
  <2> QED
    BY <2>1, <2>2, TypesAtInit DEF Init, StageInv
<1>2. Places
  <2>1. Enlisted = {}
    BY DEF Init, Enlisted
  <2>2. /\ Cardinality({}) = 0 /\ Len(<<>>) = 0 /\ ToSet(<<>>) = {} /\ Distinct(<<>>)
    BY FS_EmptySet, EmptyBuffer DEF Distinct
  <2>3. queued = Cardinality(Enlisted) + Len(queue) + Cardinality(written) + Cardinality(failed)
    BY <2>1, <2>2 DEF Init
  <2> QED
    BY <2>2, <2>3 DEF Init, Places
<1>3. Come
  BY DEF Init, Come, NoFlush, NoScan
<1>4. Filed(store, files, wiped, day) /\ Sound
  <2>1. /\ Closed.day = NoDay /\ Closed.linked = FALSE /\ Closed.buffer = <<>>
        /\ Closed.broken = FALSE
    BY DEF Closed
  <2>2. Len(<<>>) < BufCap /\ ToSet(<<>>) = {}
    BY Bounds, EmptyBuffer
  <2>3. \A d \in Days : files.lines[d] = {}
    BY DEF Init
  <2>4. files.ragged = {} /\ store = Closed /\ diskOk /\ failed = {}
    BY DEF Init
  <2> QED
    BY <2>1, <2>2, <2>3, <2>4, DayFacts DEF Filed, Sound, Healthy
<1> QED
  BY <1>1, <1>2, <1>3, <1>4 DEF RecInv

LEMMA RecInvariance == Spec => []RecInv
<1>1. Init => RecInv
  BY RecInvAtInit
<1>2. RecInv /\ StageInv' /\ [Next]_vars => RecInv'
  <2> SUFFICES ASSUME RecInv, StageInv', [Next]_vars PROVE RecInv'
    OBVIOUS
  <2>1. Types /\ StageInv
    BY DEF RecInv
  <2>2. Types'
    BY <2>1, QueueTypesStep, ThreadTypesStep, FilesStep, AskTypesStep, OutsideTypesStep DEF Types
  <2>3. Filed(store, files, wiped, day)'
    BY FilesStep
  <2> QED
    BY <2>2, <2>3, PlacesStep, ComeStep, SoundStep DEF RecInv
<1> QED
  BY <1>1, <1>2, StageInvariance, PTL DEF Spec

-----------------------------------------------------------------------------
(* The counter of Health *)

LEMMA CountBoth ==
    ASSUME NEW S, NEW T, S \subseteq Records, T \subseteq Records, S \cap T = {}
    PROVE  Cardinality(S \cup T) = Cardinality(S) + Cardinality(T)
<1>1. IsFiniteSet(S) /\ IsFiniteSet(T)
  BY Bounds, FS_Subset
<1>2. Cardinality(S) \in Nat /\ Cardinality(T) \in Nat
  BY <1>1, FS_CardinalityType
<1>3. Cardinality(S \cap T) = 0
  BY FS_EmptySet
<1>4. Cardinality(S \cup T) = Cardinality(S) + Cardinality(T) - Cardinality(S \cap T)
  BY <1>1, FS_Union
<1> QED
  BY <1>2, <1>3, <1>4

LEMMA QueuedBounded ==
    ASSUME RecInv
    PROVE  queued \in 0 .. Cardinality(Records)
<1> DEFINE A == Enlisted
           B == ToSet(queue)
           U == A \cup B
           V == U \cup written
           W == V \cup failed
<1>1. /\ A \subseteq Records /\ B \subseteq Records /\ written \subseteq Records
      /\ failed \subseteq Records
  BY DEF Enlisted, RecInv, Types, QueueTypes, ToSet
<1>2. A \cap B = {} /\ U \cap written = {} /\ V \cap failed = {}
  BY DEF RecInv, Places, Enlisted
<1>3. /\ Cardinality(B) = Len(queue)
      /\ queued = Cardinality(A) + Len(queue) + Cardinality(written) + Cardinality(failed)
  BY QueueCount DEF RecInv, Types, QueueTypes, Places
<1> HIDE DEF A, B
<1>4. U \subseteq Records /\ V \subseteq Records /\ W \subseteq Records
  BY <1>1
<1>5. Cardinality(U) = Cardinality(A) + Cardinality(B)
  BY <1>1, <1>2, CountBoth
<1>6. Cardinality(V) = Cardinality(U) + Cardinality(written)
  <2> HIDE DEF U
  <2> QED
    BY <1>1, <1>2, <1>4, CountBoth
<1>7. Cardinality(W) = Cardinality(V) + Cardinality(failed)
  <2> HIDE DEF V
  <2> QED
    BY <1>1, <1>2, <1>4, CountBoth
<1> HIDE DEF U, V, W
<1>8. Cardinality(W) <= Cardinality(Records) /\ Cardinality(W) \in Nat /\ Cardinality(Records) \in Nat
  BY <1>4, Bounds, FS_Subset, FS_CardinalityType
<1>9. queued = Cardinality(W)
  BY <1>3, <1>5, <1>6, <1>7
<1> QED
  BY <1>8, <1>9

\* Recorder.Health: every variable keeps its type and its bound, and Queued is what was
\* taken and not dropped, for any interleaving of request threads and writer.
THEOREM QueuedIsRight == Spec => []QueuedAddsUp
<1>1. RecInv => QueuedAddsUp
  <2> SUFFICES ASSUME RecInv PROVE QueuedAddsUp
    OBVIOUS
  <2>1. /\ life \in 1 .. MaxStops + 1 /\ started \in BOOLEAN /\ stopping \in BOOLEAN
        /\ writer \in {"off", "run", "sync", "drain", "ended"}
    BY DEF RecInv, StageInv
  <2>2. /\ queue \in Seq(Records) /\ Len(queue) <= QueueCap
        /\ {events, dropped, written, failed, early} \subseteq SUBSET Records /\ wiped \subseteq Days
    BY DEF RecInv, Types, QueueTypes
  <2>3. queued \in 0 .. Cardinality(Records)
    BY QueuedBounded
  <2>4. /\ caller \in [Records -> {"idle", "checked", "enlisted", "done"}]
        /\ held \in [Records -> 0 .. MaxStops + 1] /\ day \in [Records -> Days \cup {NoDay}]
    BY DEF RecInv, Types, ThreadTypes
  <2>5. /\ store \in [day : Days \cup {NoDay}, linked : BOOLEAN, buffer : Seq(Records),
                      broken : BOOLEAN]
        /\ files \in [lines : [Days -> SUBSET Records], present : SUBSET Days, ragged : SUBSET Days]
    BY DEF RecInv, Types, StoreTypes, Stores, FileSets
  <2>6. Len(store.buffer) < BufCap
    BY DEF RecInv, Filed
  <2>7. /\ flusher \in [pc : {"idle", "asking", "waiting", "acked", "gone"}, before : SUBSET Records]
        /\ scan \in [pc : {"idle", "list", "read", "answered", "error"}, want : SUBSET Records,
                     days : SUBSET Days, got : SUBSET Records]
    BY DEF RecInv, Types, AskTypes
  <2>8. diskOk \in BOOLEAN /\ today \in Days /\ {breaks, scans} \subseteq Nat
    BY DEF RecInv, Types, OutsideTypes
  <2>9. queued = Cardinality(Enlisted) + Len(queue) + Cardinality(written) + Cardinality(failed)
    BY DEF RecInv, Places
  <2> QED
    BY <2>1, <2>2, <2>3, <2>4, <2>5, <2>6, <2>7, <2>8, <2>9 DEF QueuedAddsUp, TypeOK
<1> QED
  BY <1>1, RecInvariance, PTL

-----------------------------------------------------------------------------
(* What a step does to a record that is queued, buffered or on file *)

LEMMA OutlivedStays ==
    ASSUME RecInv, [Next]_vars, NEW r \in Records, caller[r] # "idle"
    PROVE  day'[r] = day[r] /\ wiped \subseteq wiped' /\ (r \in Outlived => r \in Outlived')
<1>1. day \in [Records -> Days \cup {NoDay}] /\ today \in Nat
  BY DayFacts DEF RecInv, Types, ThreadTypes, OutsideTypes
<1>2. day'[r] = day[r] /\ wiped \subseteq wiped' /\ today' \in {today, today + 1}
  <2>1. CASE Start \/ Stop \/ Close \/ New \/ Writes \/ FlushTimer \/ CallFlush \/ GiveUpFlush
    BY <2>1 DEF Start, Stop, Close, New, Writes, WriteOne, BeginDrain, EndDrain, TakeFlush,
                AnswerFlush, FlushTimer, CallFlush, GiveUpFlush, threads, outside
  <2>2. CASE Scans \/ DiskBreaks \/ DiskMends \/ UNCHANGED vars
    BY <2>2 DEF Scans, ScanFlush, ScanList, ScanRead, ScanDone, DiskBreaks, DiskMends, vars,
                threads, outside
  <2>3. CASE NextDay \/ Clean
    BY <2>3 DEF NextDay, Clean, threads, outside
  <2>4. ASSUME NEW x \in Records, Check(x)
        PROVE  day'[r] = day[r] /\ wiped \subseteq wiped' /\ today' \in {today, today + 1}
    <3>1. x # r /\ UNCHANGED <<wiped, today>> /\ \E d \in Days : day' = [day EXCEPT ![x] = d]
      BY <2>4 DEF Check, outside
    <3> QED
      BY <1>1, <3>1
  <2>5. ASSUME NEW x \in Records, Enlist(x) \/ Send(x) \/ SendToOld(x)
        PROVE  day'[r] = day[r] /\ wiped \subseteq wiped' /\ today' \in {today, today + 1}
    BY <2>5 DEF Enlist, Send, SendToOld, outside
  <2> QED
    BY <2>1, <2>2, <2>3, <2>4, <2>5 DEF Next, Observe
<1>3. day[r] \in Nat
  <2>1. day[r] \in Days \cup {NoDay}
    BY <1>1
  <2>2. \A d \in Days \cup {NoDay} : d \in Nat
    BY DayFacts
  <2> QED
    BY <2>1, <2>2
<1>4. ASSUME day[r] <= today - RetentionDays PROVE day'[r] <= today' - RetentionDays
  BY <1>1, <1>2, <1>3, <1>4, Bounds
<1> QED
  BY <1>2, <1>4 DEF Outlived

LEMMA LinesStay ==
    ASSUME RecInv, [Next]_vars, NEW d \in Days, NEW r \in files.lines[d]
    PROVE  r \in files'.lines[d] \/ (d \in wiped' /\ r \in Outlived')
<1>1. /\ store \in Stores /\ files \in FileSets /\ diskOk \in BOOLEAN
      /\ Filed(store, files, wiped, day)
  BY DEF RecInv, Types, StoreTypes, OutsideTypes
<1>2. r \in Records /\ caller[r] # "idle" /\ day[r] = d
  <2>1. r \in OnFile
    BY DEF OnFile
  <2> QED
    BY <1>1, <2>1, HeldCome DEF Filed
<1>3. ASSUME \E o \in Flushed(store, files) : files' = o.files PROVE r \in files'.lines[d]
  BY <1>1, <1>3, FlushKeeps
<1>4. CASE files' = files
  BY <1>4
<1>5. CASE Close \/ EndDrain \/ AnswerFlush \/ FlushTimer \/ ScanFlush
  BY <1>3, <1>5 DEF Close, EndDrain, AnswerFlush, FlushTimer, ScanFlush
<1>6. CASE WriteOne
  <2>1. PICK o \in Appended(store, files, Head(queue)) : files' = o.files
    BY <1>6 DEF WriteOne
  <2>2. \A e \in Days : files.lines[e] \subseteq o.files.lines[e]
    BY <1>1, <1>6, HeadHasDay, AppendKeeps DEF WriteOne
  <2> QED
    BY <2>1, <2>2
<1>7. CASE Clean
  <2>1. CASE d \in wiped'
    BY <1>2, <2>1, OutlivedStays DEF Outlived
  <2>2. CASE d \notin wiped'
    BY <1>7, <2>2, CleanKeeps
  <2> QED
    BY <2>1, <2>2
<1>8. ASSUME NEW x \in Records, Observe(x) PROVE files' = files
  BY <1>8 DEF Observe, Check, Enlist, Send, SendToOld
<1>9. CASE Start \/ Stop \/ New \/ BeginDrain \/ TakeFlush \/ CallFlush \/ GiveUpFlush
  BY <1>4, <1>9 DEF Start, Stop, New, BeginDrain, TakeFlush, CallFlush, GiveUpFlush
<1>10. CASE ScanList \/ ScanRead \/ ScanDone \/ NextDay \/ DiskBreaks \/ DiskMends \/ UNCHANGED vars
  BY <1>4, <1>10 DEF ScanList, ScanRead, ScanDone, NextDay, DiskBreaks, DiskMends, vars
<1> QED
  BY <1>4, <1>5, <1>6, <1>7, <1>8, <1>9, <1>10 DEF Next, Writes, Scans

\* With the disk in order, these steps bring to the file all that a flush can.
LEMMA FlushBrings ==
    ASSUME RecInv, breaks = 0, Close \/ EndDrain \/ AnswerFlush \/ FlushTimer \/ ScanFlush
    PROVE  Keeps(store, files) \subseteq Lines(files')
<1>1. /\ store \in Stores /\ files \in FileSets /\ diskOk \in BOOLEAN /\ diskOk
      /\ Filed(store, files, wiped, day) /\ Healthy(store, files)
  BY DEF RecInv, Types, StoreTypes, OutsideTypes, Sound
<1>2. \E o \in Flushed(store, files) : files' = o.files
  BY DEF Close, EndDrain, AnswerFlush, FlushTimer, ScanFlush
<1> QED
  BY <1>1, <1>2, FlushKeeps

LEMMA WriteBrings ==
    ASSUME RecInv, breaks = 0, WriteOne
    PROVE  /\ Keeps(store, files) \subseteq Keeps(store', files')
           /\ Head(queue) \in Keeps(store', files') \/ Head(queue) \in Outlived'
<1>1. /\ store \in Stores /\ files \in FileSets /\ diskOk \in BOOLEAN /\ diskOk
      /\ Filed(store, files, wiped, day) /\ Healthy(store, files)
  BY DEF RecInv, Types, StoreTypes, OutsideTypes, Sound
<1>2. PICK o \in Appended(store, files, Head(queue)) : store' = o.store /\ files' = o.files
  BY DEF WriteOne
<1>3. queue # <<>> /\ UNCHANGED <<wiped, day>>
  BY DEF WriteOne, threads
<1>4. Head(queue) \in Records /\ day[Head(queue)] \in Days
  BY <1>3, HeadHasDay
<1> DEFINE r == Head(queue)
<1> HIDE DEF r
<1>5. r \in Records /\ day[r] \in Days /\ o \in Appended(store, files, r)
  BY <1>2, <1>4 DEF r
<1>6. /\ Keeps(store, files) \subseteq Keeps(o.store, o.files)
      /\ r \in Keeps(o.store, o.files) \/ day[r] \in wiped
  BY <1>1, <1>5, AppendKeeps
<1>7. day[r] \in wiped => r \in Outlived'
  BY <1>3, <1>5 DEF Outlived
<1> QED
  BY <1>2, <1>6, <1>7 DEF r

\* With the disk in order, what a flush would bring to the file stays so, is brought
\* there, or is deleted with its day.
LEMMA KeepsStay ==
    ASSUME RecInv, [Next]_vars, breaks = 0, NEW r \in Keeps(store, files)
    PROVE  r \in Keeps(store', files') \/ r \in Outlived'
<1>1. Lines(files') \subseteq Keeps(store', files')
  BY DEF Keeps
<1>2. CASE UNCHANGED <<store, files>>
  BY <1>2
<1>3. CASE Close \/ EndDrain \/ AnswerFlush \/ FlushTimer \/ ScanFlush
  BY <1>1, <1>3, FlushBrings
<1>4. CASE WriteOne
  BY <1>4, WriteBrings
<1>5. CASE Clean
  <2>1. CASE r \in Lines(files)
    <3>1. PICK d \in Days : r \in files.lines[d]
      BY <2>1 DEF Lines
    <3>2. r \in files'.lines[d] \/ r \in Outlived'
      BY <3>1, LinesStay
    <3> QED
      BY <1>1, <3>2 DEF Lines
  <2>2. CASE r \notin Lines(files)
    <3>1. ~ store.broken /\ store.linked /\ r \in ToSet(store.buffer) /\ r \in Buffered
      BY <2>2 DEF Keeps, Buffered
    <3>2. r \in Records /\ caller[r] # "idle" /\ day[r] = store.day
      BY <3>1, HeldCome DEF RecInv, Filed
    <3>3. /\ store'.broken = store.broken /\ store'.buffer = store.buffer
          /\ ~ store'.linked => store.day \in wiped'
      BY <1>5, <3>1, CleanKeeps
    <3>4. CASE store'.linked
      BY <3>1, <3>3, <3>4 DEF Keeps
    <3>5. CASE ~ store'.linked
      BY <3>2, <3>3, <3>5, OutlivedStays DEF Outlived
    <3> QED
      BY <3>4, <3>5
  <2> QED
    BY <2>1, <2>2
<1>6. ASSUME NEW x \in Records, Observe(x) PROVE UNCHANGED <<store, files>>
  BY <1>6 DEF Observe, Check, Enlist, Send, SendToOld
<1>7. CASE Start \/ Stop \/ New \/ BeginDrain \/ TakeFlush \/ CallFlush \/ GiveUpFlush
  BY <1>2, <1>7 DEF Start, Stop, New, BeginDrain, TakeFlush, CallFlush, GiveUpFlush
<1>8. CASE ScanList \/ ScanRead \/ ScanDone \/ NextDay \/ DiskBreaks \/ DiskMends \/ UNCHANGED vars
  BY <1>2, <1>8 DEF ScanList, ScanRead, ScanDone, NextDay, DiskBreaks, DiskMends, vars
<1> QED
  BY <1>2, <1>3, <1>4, <1>5, <1>6, <1>7, <1>8 DEF Next, Writes, Scans

LEMMA QueueStays ==
    ASSUME RecInv, [Next]_vars, breaks = 0, ~ New, NEW r \in ToSet(queue)
    PROVE  r \in ToSet(queue') \/ r \in Keeps(store', files') \/ r \in Outlived'
<1>1. queue \in Seq(Records)
  BY DEF RecInv, Types, QueueTypes
<1>2. CASE queue' = queue
  BY <1>2
<1>3. CASE WriteOne
  <2>1. queue # <<>> /\ queue' = Tail(queue)
    BY <1>3 DEF WriteOne
  <2>2. ToSet(queue) = ToSet(queue') \cup {Head(queue)}
    BY <1>1, <2>1, QueueTail
  <2> QED
    BY <1>3, <2>2, WriteBrings
<1>4. ASSUME NEW x \in Records, Observe(x) PROVE ToSet(queue) \subseteq ToSet(queue')
  <2>1. queue' \in {queue, Append(queue, x)}
    BY <1>4 DEF Observe, Check, Enlist, Send, SendToOld
  <2>2. ToSet(Append(queue, x)) = ToSet(queue) \cup {x}
    BY <1>1, QueueAppend
  <2> QED
    BY <2>1, <2>2
<1>5. CASE Start \/ Stop \/ Close \/ BeginDrain \/ EndDrain \/ TakeFlush \/ AnswerFlush \/ FlushTimer
           \/ CallFlush \/ GiveUpFlush \/ Clean
  BY <1>2, <1>5 DEF Start, Stop, Close, BeginDrain, EndDrain, TakeFlush, AnswerFlush, FlushTimer,
                    CallFlush, GiveUpFlush, Clean
<1>6. CASE Scans \/ NextDay \/ DiskBreaks \/ DiskMends \/ UNCHANGED vars
  BY <1>2, <1>6 DEF Scans, ScanFlush, ScanList, ScanRead, ScanDone, NextDay, DiskBreaks,
                    DiskMends, vars
<1> QED
  BY <1>3, <1>4, <1>5, <1>6 DEF Next, Writes

-----------------------------------------------------------------------------
(* What is promised *)

Stored == OnFile \cup Outlived
Kept   == Keeps(store, files) \cup Outlived

CountedKept == ~ stopping => events \subseteq Pending \cup Kept \cup dropped

FlushKept ==
    /\ flusher.pc \in {"asking", "waiting"} => flusher.before \subseteq ToSet(queue) \cup Kept
    /\ flusher.pc = "acked" => flusher.before \subseteq Stored

StopKept ==
    /\ stopping => early \subseteq ToSet(queue) \cup Kept
    /\ writer = "ended" => early \subseteq Stored

ScanKept ==
    /\ scan.pc = "list" => scan.want \subseteq Stored
    /\ scan.pc = "read" =>
         scan.want \subseteq scan.got \cup Outlived \cup UNION {files.lines[d] : d \in scan.days}
    /\ scan.pc = "answered" => scan.want \subseteq scan.got \cup Outlived

Promised == breaks = 0 => CountedKept /\ FlushKept /\ StopKept /\ ScanKept

LEMMA KeptFacts ==
    Lines(files) = OnFile /\ Keeps(store, files) = Buffered \cup OnFile /\ Stored \subseteq Kept
  BY DEF Lines, OnFile, Keeps, Buffered, Stored, Kept

LEMMA NeverMended ==
    ASSUME RecInv, [Next]_vars, breaks' = 0 PROVE breaks = 0
<1>1. breaks \in Nat
  BY DEF RecInv, Types, OutsideTypes
<1>2. CASE DiskBreaks
  BY <1>1, <1>2 DEF DiskBreaks
<1>3. CASE breaks' = breaks
  BY <1>3
<1>4. CASE Start \/ Stop \/ Close \/ New \/ Writes \/ FlushTimer \/ CallFlush \/ GiveUpFlush \/ Clean
  BY <1>3, <1>4 DEF Start, Stop, Close, New, Writes, WriteOne, BeginDrain, EndDrain, TakeFlush,
                    AnswerFlush, FlushTimer, CallFlush, GiveUpFlush, Clean, outside
<1>5. CASE Scans \/ NextDay \/ DiskMends \/ UNCHANGED vars
  BY <1>3, <1>5 DEF Scans, ScanFlush, ScanList, ScanRead, ScanDone, NextDay, DiskMends, vars, outside
<1>6. ASSUME NEW r \in Records, Observe(r) PROVE breaks = 0
  BY <1>3, <1>6 DEF Observe, Check, Enlist, Send, SendToOld, outside
<1> QED
  BY <1>2, <1>4, <1>5, <1>6 DEF Next

\* What is stored stays stored, what is kept stays kept, until its day is over.
LEMMA KeptStays ==
    ASSUME RecInv, [Next]_vars, breaks = 0, NEW r \in Records, caller[r] # "idle"
    PROVE  /\ r \in Stored => r \in Stored'
           /\ r \in Kept => r \in Kept'
           /\ r \in ToSet(queue) /\ ~ New => r \in ToSet(queue') \cup Kept'
<1>1. r \in Outlived => r \in Outlived'
  BY OutlivedStays
<1>2. ASSUME r \in OnFile PROVE r \in OnFile' \/ r \in Outlived'
  <2>1. PICK d \in Days : r \in files.lines[d]
    BY <1>2 DEF OnFile
  <2>2. r \in files'.lines[d] \/ r \in Outlived'
    BY <2>1, LinesStay
  <2> QED
    BY <2>1, <2>2 DEF OnFile
<1>3. r \in Keeps(store, files) => r \in Keeps(store', files') \/ r \in Outlived'
  BY KeepsStay
<1>4. r \in ToSet(queue) /\ ~ New =>
          r \in ToSet(queue') \/ r \in Keeps(store', files') \/ r \in Outlived'
  BY QueueStays
<1> QED
  BY <1>1, <1>2, <1>3, <1>4 DEF Stored, Kept

\* The state before a step, for the four lemmas that follow.
LEMMA PromiseFacts ==
    ASSUME RecInv
    PROVE  /\ \A r \in events \cup early \cup flusher.before \cup scan.want :
                  r \in Records /\ caller[r] # "idle"
           /\ \A r \in ToSet(queue) \cup Kept : r \in Records
           /\ flusher \in [pc : {"idle", "asking", "waiting", "acked", "gone"}, before : SUBSET Records]
           /\ scan \in [pc : {"idle", "list", "read", "answered", "error"}, want : SUBSET Records,
                        days : SUBSET Days, got : SUBSET Records]
           /\ files.lines \in [Days -> SUBSET Records]
<1>1. /\ flusher \in [pc : {"idle", "asking", "waiting", "acked", "gone"}, before : SUBSET Records]
      /\ scan \in [pc : {"idle", "list", "read", "answered", "error"}, want : SUBSET Records,
                   days : SUBSET Days, got : SUBSET Records]
  BY DEF RecInv, Types, AskTypes
<1>2. files.lines \in [Days -> SUBSET Records]
  BY DEF RecInv, Types, StoreTypes, FileSets
<1>3. events \subseteq Records /\ early \subseteq Records
  BY DEF RecInv, Types, QueueTypes
<1>4. \A r \in events \cup early \cup flusher.before \cup scan.want :
          r \in Records /\ caller[r] # "idle"
  BY <1>1, <1>3 DEF RecInv, Come
<1>5. \A r \in ToSet(queue) \cup Kept : r \in Records
  BY HeldCome, KeptFacts DEF Kept, Outlived
<1> QED
  BY <1>1, <1>2, <1>4, <1>5

LEMMA CountedKeptStep ==
    ASSUME RecInv, [Next]_vars, breaks = 0, CountedKept PROVE CountedKept'
<1> SUFFICES ASSUME ~ stopping', NEW r \in events' PROVE r \in Pending' \cup Kept' \cup dropped'
  BY DEF CountedKept
<1>1. CASE New
  BY <1>1 DEF New
<1>2. ASSUME stopping' = stopping \/ Stop, events' = events, dropped \subseteq dropped', ~ New,
             r \in Enlisted => r \in Enlisted' \cup ToSet(queue') \cup dropped'
      PROVE  r \in Pending' \cup Kept' \cup dropped'
  <2>1. ~ stopping /\ r \in events /\ r \in Records /\ caller[r] # "idle"
    BY <1>2, PromiseFacts DEF Stop
  <2>2. r \in Enlisted \cup ToSet(queue) \cup Kept \cup dropped
    BY <2>1 DEF CountedKept, Pending
  <2>3. r \in ToSet(queue) \cup Kept => r \in ToSet(queue') \cup Kept'
    BY <1>2, <2>1, KeptStays
  <2> QED
    BY <1>2, <2>2, <2>3 DEF Pending
<1>3. ASSUME UNCHANGED <<stopping, events, dropped, life, threads>>, ~ New
      PROVE  r \in Pending' \cup Kept' \cup dropped'
  <2>1. r \in Enlisted => r \in Enlisted'
    BY <1>3 DEF Enlisted, threads
  <2> QED
    BY <1>2, <1>3, <2>1
<1>4. CASE Start \/ Close \/ BeginDrain \/ EndDrain \/ TakeFlush \/ AnswerFlush \/ WriteOne
  BY <1>1, <1>3, <1>4 DEF Start, Close, BeginDrain, EndDrain, TakeFlush, AnswerFlush, WriteOne,
                          counters, process
<1>5. CASE FlushTimer \/ CallFlush \/ GiveUpFlush \/ Clean
  BY <1>1, <1>3, <1>5 DEF FlushTimer, CallFlush, GiveUpFlush, Clean, counters, process
<1>6. CASE Scans \/ NextDay \/ DiskBreaks \/ DiskMends \/ UNCHANGED vars
  BY <1>1, <1>3, <1>6 DEF Scans, ScanFlush, ScanList, ScanRead, ScanDone, NextDay, DiskBreaks,
                          DiskMends, vars, counters, process
<1>7. CASE Stop
  BY <1>7 DEF Stop
<1>8. ASSUME NEW x \in Records, Check(x) \/ SendToOld(x)
      PROVE  r \in Pending' \cup Kept' \cup dropped'
  <2>1. UNCHANGED <<stopping, events, dropped, life>>
    BY <1>8 DEF Check, SendToOld, counters, process
  <2>2. /\ x \notin Enlisted
        /\ \A y \in Records : y # x => caller'[y] = caller[y] /\ held'[y] = held[y]
    BY <1>8 DEF Check, SendToOld, Away, Enlisted, RecInv, Types, ThreadTypes
  <2>3. r \in Enlisted => r \in Enlisted'
    BY <2>1, <2>2 DEF Enlisted
  <2> QED
    BY <1>1, <1>2, <2>1, <2>3
<1>9. ASSUME NEW x \in Records, Send(x) PROVE r \in Pending' \cup Kept' \cup dropped'
  <2>1. /\ UNCHANGED <<stopping, events, life, held>> /\ dropped \subseteq dropped'
        /\ caller' = [caller EXCEPT ![x] = "done"]
        /\ queue' = Append(queue, x) \/ x \in dropped'
    BY <1>9 DEF Send, Away, process
  <2>2. x \in ToSet(queue') \cup dropped'
    <3>1. ToSet(Append(queue, x)) = ToSet(queue) \cup {x}
      BY QueueAppend DEF RecInv, Types, QueueTypes
    <3> QED
      BY <2>1, <3>1
  <2>3. r \in Enlisted /\ r # x => r \in Enlisted'
    BY <2>1 DEF Enlisted, RecInv, Types, ThreadTypes
  <2> QED
    BY <1>1, <1>2, <2>1, <2>2, <2>3
<1>10. ASSUME NEW x \in Records, Enlist(x) PROVE r \in Pending' \cup Kept' \cup dropped'
  <2>1. /\ UNCHANGED <<stopping, life, held, queue>> /\ events' = events \cup {x}
        /\ caller[x] = "checked" /\ held[x] = life
        /\ \/ caller' = [caller EXCEPT ![x] = "done"] /\ dropped' = dropped \cup {x}
           \/ caller' = [caller EXCEPT ![x] = "enlisted"] /\ dropped' = dropped
    BY <1>10 DEF Enlist, Away, process
  <2>2. x \in Enlisted' \cup dropped'
    BY <2>1 DEF Enlisted, RecInv, Types, ThreadTypes
  <2>3. CASE r = x
    BY <2>2, <2>3 DEF Pending
  <2>4. CASE r # x /\ r \in events
    <3>1. r \in Records /\ caller[r] # "idle"
      BY <2>4, PromiseFacts
    <3>2. r \in Enlisted \cup ToSet(queue) \cup Kept \cup dropped
      BY <2>1, <2>4 DEF CountedKept, Pending
    <3>3. r \in Enlisted => r \in Enlisted'
      BY <2>1, <2>4 DEF Enlisted, RecInv, Types, ThreadTypes
    <3>4. r \in Kept => r \in Kept'
      BY <3>1, KeptStays
    <3> QED
      BY <2>1, <3>2, <3>3, <3>4 DEF Pending
  <2> QED
    BY <2>1, <2>3, <2>4
<1> QED
  BY <1>1, <1>4, <1>5, <1>6, <1>7, <1>8, <1>9, <1>10 DEF Next, Writes, Observe

LEMMA FlushKeptStep ==
    ASSUME RecInv, [Next]_vars, breaks = 0, FlushKept PROVE FlushKept'
<1>1. ASSUME flusher'.before = flusher.before, ~ New,
             \/ flusher'.pc = flusher.pc
             \/ flusher.pc = "asking" /\ flusher'.pc = "waiting"
             \/ flusher'.pc = "gone"
      PROVE  FlushKept'
  <2>1. \A r \in flusher.before : r \in Records /\ caller[r] # "idle"
    BY PromiseFacts
  <2>2. ASSUME flusher'.pc \in {"asking", "waiting"}, NEW r \in flusher.before
        PROVE  r \in ToSet(queue') \cup Kept'
    <3>1. r \in ToSet(queue) \cup Kept
      BY <1>1, <2>2 DEF FlushKept
    <3> QED
      BY <1>1, <2>1, <3>1, KeptStays
  <2>3. ASSUME flusher'.pc = "acked", NEW r \in flusher.before PROVE r \in Stored'
    <3>1. r \in Stored
      BY <1>1, <2>3 DEF FlushKept
    <3> QED
      BY <2>1, <3>1, KeptStays
  <2> QED
    BY <1>1, <2>2, <2>3 DEF FlushKept
<1>2. CASE New
  BY <1>2 DEF New, FlushKept, NoFlush
<1>3. CASE UNCHANGED flusher
  BY <1>1, <1>2, <1>3
<1>4. CASE Start \/ Stop \/ Close \/ WriteOne \/ BeginDrain \/ EndDrain \/ FlushTimer \/ Clean
  BY <1>3, <1>4 DEF Start, Stop, Close, WriteOne, BeginDrain, EndDrain, FlushTimer, Clean
<1>5. CASE Scans \/ NextDay \/ DiskBreaks \/ DiskMends \/ UNCHANGED vars
  BY <1>3, <1>5 DEF Scans, ScanFlush, ScanList, ScanRead, ScanDone, NextDay, DiskBreaks,
                    DiskMends, vars
<1>6. ASSUME NEW x \in Records, Observe(x) PROVE FlushKept'
  BY <1>3, <1>6 DEF Observe, Check, Enlist, Send, SendToOld
<1>7. CASE TakeFlush \/ GiveUpFlush
  <2>1. /\ flusher'.before = flusher.before
        /\ \/ flusher.pc = "asking" /\ flusher'.pc = "waiting"
           \/ flusher'.pc = "gone"
    BY <1>7, PromiseFacts DEF TakeFlush, GiveUpFlush
  <2> QED
    BY <1>1, <1>2, <2>1
<1>8. CASE CallFlush
  <2>1. /\ flusher'.pc = "asking" /\ flusher'.before = ToSet(queue) \cup Buffered
        /\ UNCHANGED <<queue, store, files, today, wiped, day>>
    BY <1>8 DEF CallFlush, outside, threads
  <2>2. Buffered \subseteq Kept /\ Kept' = Kept
    BY <2>1, KeptFacts DEF Kept, Outlived
  <2> QED
    BY <2>1, <2>2 DEF FlushKept
<1>9. CASE AnswerFlush
  <2>1. /\ queue = <<>> /\ flusher'.before = flusher.before /\ ~ New
        /\ IF flusher.pc = "waiting" THEN flusher'.pc = "acked" ELSE flusher'.pc = flusher.pc
    BY <1>9, PromiseFacts DEF AnswerFlush, New
  <2>2. CASE flusher.pc = "waiting"
    <3>1. Keeps(store, files) \subseteq OnFile'
      BY <1>9, FlushBrings DEF Lines, OnFile
    <3>2. ASSUME NEW r \in flusher.before PROVE r \in Stored'
      <4>1. r \in Kept /\ r \in Records /\ caller[r] # "idle"
        BY <2>1, <2>2, EmptyBuffer, PromiseFacts DEF FlushKept
      <4> QED
        BY <3>1, <4>1, OutlivedStays DEF Kept, Stored
    <3> QED
      BY <2>1, <2>2, <3>2 DEF FlushKept
  <2>3. CASE flusher.pc # "waiting"
    BY <1>1, <2>1, <2>3
  <2> QED
    BY <2>2, <2>3
<1> QED
  BY <1>2, <1>4, <1>5, <1>6, <1>7, <1>8, <1>9 DEF Next, Writes

LEMMA StopKeptStep ==
    ASSUME RecInv, [Next]_vars, breaks = 0, StopKept PROVE StopKept'
<1>1. ASSUME early' = early, stopping' = stopping, writer' = "ended" => writer = "ended", ~ New
      PROVE  StopKept'
  <2>1. \A r \in early : r \in Records /\ caller[r] # "idle"
    BY PromiseFacts
  <2>2. ASSUME stopping', NEW r \in early PROVE r \in ToSet(queue') \cup Kept'
    BY <1>1, <2>1, <2>2, KeptStays DEF StopKept
  <2>3. ASSUME writer' = "ended", NEW r \in early PROVE r \in Stored'
    BY <1>1, <2>1, <2>3, KeptStays DEF StopKept
  <2> QED
    BY <1>1, <2>2, <2>3 DEF StopKept
<1>2. CASE New
  BY <1>2 DEF New, StopKept
<1>3. CASE Start \/ Close \/ WriteOne \/ BeginDrain \/ TakeFlush \/ AnswerFlush
  BY <1>1, <1>2, <1>3 DEF Start, Close, WriteOne, BeginDrain, TakeFlush, AnswerFlush, process
<1>4. CASE FlushTimer \/ CallFlush \/ GiveUpFlush \/ Clean
  BY <1>1, <1>2, <1>4 DEF FlushTimer, CallFlush, GiveUpFlush, Clean, process
<1>5. CASE Scans \/ NextDay \/ DiskBreaks \/ DiskMends \/ UNCHANGED vars
  BY <1>1, <1>2, <1>5 DEF Scans, ScanFlush, ScanList, ScanRead, ScanDone, NextDay, DiskBreaks,
                          DiskMends, vars, process
<1>6. ASSUME NEW x \in Records, Observe(x) PROVE StopKept'
  BY <1>1, <1>2, <1>6 DEF Observe, Check, Enlist, Send, SendToOld, process
<1>7. CASE Stop
  <2>1. /\ early' = ToSet(queue) \cup Buffered /\ writer' = writer /\ ~ stopping
        /\ UNCHANGED <<queue, store, files, today, wiped, day>>
    BY <1>7 DEF Stop, outside, threads
  <2>2. Buffered \subseteq Kept /\ Kept' = Kept
    BY <2>1, KeptFacts DEF Kept, Outlived
  <2>3. writer # "ended"
    BY <2>1 DEF RecInv, StageInv
  <2> QED
    BY <2>1, <2>2, <2>3 DEF StopKept
<1>8. CASE EndDrain
  <2>1. queue = <<>> /\ early' = early /\ stopping' = stopping /\ writer = "drain"
    BY <1>8 DEF EndDrain
  <2>2. Keeps(store, files) \subseteq OnFile'
    BY <1>8, FlushBrings DEF Lines, OnFile
  <2>3. stopping
    BY <2>1 DEF RecInv, StageInv
  <2>4. ASSUME NEW r \in early PROVE r \in Stored'
    <3>1. r \in Kept /\ r \in Records /\ caller[r] # "idle"
      BY <2>1, <2>3, EmptyBuffer, PromiseFacts DEF StopKept
    <3> QED
      BY <2>2, <3>1, OutlivedStays DEF Kept, Stored
  <2>5. Stored' \subseteq Kept'
    BY DEF Stored, Kept, Keeps, Lines, OnFile
  <2> QED
    BY <2>1, <2>4, <2>5 DEF StopKept
<1> QED
  BY <1>2, <1>3, <1>4, <1>5, <1>6, <1>7, <1>8 DEF Next, Writes

LEMMA ScanKeptStep ==
    ASSUME RecInv, [Next]_vars, breaks = 0, ScanKept PROVE ScanKept'
<1>1. CASE UNCHANGED scan
  <2>1. \A r \in scan.want : r \in Records /\ caller[r] # "idle"
    BY PromiseFacts
  <2>2. ASSUME scan.pc = "list", NEW r \in scan.want PROVE r \in Stored'
    BY <2>1, <2>2, KeptStays DEF ScanKept
  <2>3. ASSUME scan.pc = "read", NEW r \in scan.want
        PROVE  r \in scan.got \/ r \in Outlived' \/ \E d \in scan.days : r \in files'.lines[d]
    <3>1. CASE r \in scan.got
      BY <3>1
    <3>2. CASE r \in Outlived
      BY <2>1, <3>2, OutlivedStays
    <3>3. CASE \E d \in scan.days : r \in files.lines[d]
      <4>1. PICK d \in scan.days : r \in files.lines[d]
        BY <3>3
      <4>2. d \in Days
        BY PromiseFacts
      <4> QED
        BY <4>1, <4>2, LinesStay
    <3> QED
      BY <2>3, <3>1, <3>2, <3>3 DEF ScanKept
  <2>4. ASSUME scan.pc = "answered", NEW r \in scan.want PROVE r \in scan.got \/ r \in Outlived'
    BY <2>1, <2>4, OutlivedStays DEF ScanKept
  <2> QED
    BY <1>1, <2>2, <2>3, <2>4 DEF ScanKept
<1>2. CASE New \/ ScanDone
  BY <1>2 DEF New, ScanDone, ScanKept, NoScan
<1>3. CASE Start \/ Stop \/ Close \/ Writes \/ FlushTimer \/ CallFlush \/ GiveUpFlush \/ Clean
  BY <1>1, <1>3 DEF Start, Stop, Close, Writes, WriteOne, BeginDrain, EndDrain, TakeFlush,
                    AnswerFlush, FlushTimer, CallFlush, GiveUpFlush, Clean, reading
<1>4. CASE NextDay \/ DiskBreaks \/ DiskMends \/ UNCHANGED vars
  BY <1>1, <1>4 DEF NextDay, DiskBreaks, DiskMends, vars, reading
<1>5. ASSUME NEW x \in Records, Observe(x) PROVE ScanKept'
  BY <1>1, <1>5 DEF Observe, Check, Enlist, Send, SendToOld, reading
<1>6. CASE ScanFlush
  <2>1. scan'.pc = "list" /\ scan'.want = OnFile \cup Buffered
    BY <1>6 DEF ScanFlush, NoScan
  <2>2. Keeps(store, files) \subseteq OnFile'
    BY <1>6, FlushBrings DEF Lines, OnFile
  <2> QED
    BY <2>1, <2>2, KeptFacts DEF ScanKept, Stored
<1>7. CASE ScanList
  <2>1. /\ scan.pc = "list" /\ scan' = [scan EXCEPT !.pc = "read", !.days = files.present]
        /\ UNCHANGED <<files, today, wiped, day>>
    BY <1>7 DEF ScanList, outside, threads
  <2>2. /\ scan'.pc = "read" /\ scan'.days = files.present /\ scan'.want = scan.want
    BY <2>1, PromiseFacts
  <2>3. ASSUME NEW r \in scan.want
        PROVE  r \in Outlived' \/ \E d \in files.present : r \in files.lines[d]
    <3>1. r \in OnFile \/ r \in Outlived
      BY <2>1 DEF ScanKept, Stored
    <3>2. ASSUME r \in OnFile PROVE \E d \in files.present : r \in files.lines[d]
      BY <3>2 DEF OnFile, RecInv, Filed
    <3> QED
      BY <2>1, <3>1, <3>2 DEF Outlived
  <2> QED
    BY <2>1, <2>2, <2>3 DEF ScanKept
<1>8. CASE ScanRead
  <2>1. scan.pc = "read" /\ UNCHANGED <<files, today, wiped, day>> /\ Outlived' = Outlived
    BY <1>8 DEF ScanRead, outside, threads, Outlived
  <2>2. CASE scan.days = {} /\ scan' = [scan EXCEPT !.pc = "answered"]
    <3>1. scan'.pc = "answered" /\ scan'.want = scan.want /\ scan'.got = scan.got
      BY <2>2, PromiseFacts
    <3> QED
      BY <2>1, <2>2, <3>1 DEF ScanKept
  <2>3. CASE scan' = [scan EXCEPT !.pc = "error"]
    <3>1. scan'.pc = "error"
      BY <2>3, PromiseFacts
    <3> QED
      BY <3>1 DEF ScanKept
  <2>4. ASSUME NEW d \in scan.days,
               scan' = [scan EXCEPT !.days = @ \ {d}, !.got = @ \cup files.lines[d]]
        PROVE  ScanKept'
    <3>1. /\ scan'.pc = scan.pc /\ scan'.want = scan.want /\ scan'.days = scan.days \ {d}
          /\ scan'.got = scan.got \cup files.lines[d]
      BY <2>4, PromiseFacts
    <3> QED
      BY <2>1, <3>1 DEF ScanKept
  <2> QED
    BY <1>8, <2>2, <2>3, <2>4 DEF ScanRead
<1> QED
  BY <1>2, <1>3, <1>4, <1>5, <1>6, <1>7, <1>8 DEF Next, Scans

LEMMA PromiseInvariance == Spec => []Promised
<1>1. Init => Promised
  BY DEF Init, Promised, CountedKept, FlushKept, StopKept, ScanKept, NoFlush, NoScan
<1>2. RecInv /\ Promised /\ [Next]_vars => Promised'
  <2> SUFFICES ASSUME RecInv, Promised, [Next]_vars, breaks' = 0
               PROVE  CountedKept' /\ FlushKept' /\ StopKept' /\ ScanKept'
    BY DEF Promised
  <2>1. breaks = 0
    BY NeverMended
  <2>2. CountedKept /\ FlushKept /\ StopKept /\ ScanKept
    BY <2>1 DEF Promised
  <2> QED
    BY <2>1, <2>2, CountedKeptStep, FlushKeptStep, StopKeptStep, ScanKeptStep
<1> QED
  BY <1>1, <1>2, RecInvariance, PTL DEF Spec

\* What the counters say: a record that was counted is on its way, stored, deleted with
\* its day, or reported as dropped (none fails while the disk has never broken).
THEOREM NothingIsLost == Spec => []StoredOrReported
<1>1. Promised => StoredOrReported
  BY KeptFacts DEF Promised, CountedKept, StoredOrReported, Kept
<1> QED
  BY <1>1, PromiseInvariance, PTL

\* Recorder.Flush and Recorder.Stop: whoever waits for the writer finds on file what the
\* queue and the buffer held when they asked.
THEOREM WaitersAreTold == Spec => []AwaitedIsStored
<1>1. Promised => AwaitedIsStored
  BY DEF Promised, FlushKept, StopKept, AwaitedIsStored, Stored
<1> QED
  BY <1>1, PromiseInvariance, PTL

\* store.scan: a query that ends well has seen all that was stored or buffered when it
\* began, whatever was written and deleted while it read one file after another.
THEOREM QueriesSeeAll == Spec => []QuerySeesAll
<1>1. Promised => QuerySeesAll
  BY DEF Promised, ScanKept, QuerySeesAll
<1> QED
  BY <1>1, PromiseInvariance, PTL

-----------------------------------------------------------------------------
(* What Health reports, whatever the disk does *)

\* What is on file already leaves it with the file of its day only, which the retention
\* deletes, whatever the disk takes, and whoever stops (store.append, rotateLocked).
FiledStays == [][\A r \in OnFile : r \in OnFile' \/ day[r] \in wiped']_vars

\* What Health calls dropped or failed is a loss: it is not on file all the same.
LossesAreReal == OnFile \cap (dropped \cup failed) = {}

\* Every request that was counted is queued or dropped, in Health's own numbers.
HealthAddsUp == Cardinality(events) = queued + Cardinality(dropped)

\* A failing disk, a torn line, a rotation, a stop or a new recorder over the directory
\* takes no stored record off its file: only the retention does, with the whole day.
THEOREM FilesOnlyGrow == Spec => FiledStays
<1>1. RecInv /\ [Next]_vars => [\A r \in OnFile : r \in OnFile' \/ day[r] \in wiped']_vars
  <2> SUFFICES ASSUME RecInv, [Next]_vars, NEW r \in OnFile
               PROVE  r \in OnFile' \/ day[r] \in wiped'
    OBVIOUS
  <2>1. PICK d \in Days : r \in files.lines[d]
    BY DEF OnFile
  <2>2. day[r] = d
    BY <2>1 DEF RecInv, Filed
  <2>3. r \in files'.lines[d] \/ d \in wiped'
    BY <2>1, LinesStay
  <2> QED
    BY <2>1, <2>2, <2>3 DEF OnFile
<1> QED
  BY <1>1, RecInvariance, PTL DEF Spec, FiledStays

\* What is buffered, on a broken writer too, or on file.
Taken(s, f) == ToSet(s.buffer) \cup Lines(f)

LEMMA FlushTakes ==
    ASSUME diskOk \in BOOLEAN, NEW s \in Stores, NEW f \in FileSets, NEW o \in Flushed(s, f)
    PROVE  Taken(o.store, o.files) \subseteq Taken(s, f)
<1>1. /\ o.store.buffer \in {<<>>, s.buffer}
      /\ \A d \in Days : d # s.day => o.files.lines[d] = f.lines[d]
      /\ s.day \in Days => o.files.lines[s.day] \subseteq f.lines[s.day] \cup ToSet(s.buffer)
  BY FlushLeaves
<1>2. ToSet(o.store.buffer) \subseteq ToSet(s.buffer)
  BY <1>1, EmptyBuffer
<1>3. \A d \in Days : o.files.lines[d] \subseteq f.lines[d] \cup ToSet(s.buffer)
  BY <1>1
<1> QED
  BY <1>2, <1>3 DEF Taken, Lines

\* The part of a buffer that a failing disk has taken is without its last record.
LEMMA PartTaken ==
    ASSUME diskOk = FALSE, NEW s \in Stores, NEW f \in FileSets, NEW r \in Records,
           s.day \in Days, ~ s.broken,
           NEW t \in Stores, t.day = s.day, ~ t.broken, t.buffer = Append(s.buffer, r),
           NEW o \in Flushed(t, f)
    PROVE  Taken(o.store, o.files) \subseteq Taken(s, f)
<1>1. /\ s.buffer \in Seq(Records) /\ Len(s.buffer) \in Nat
      /\ t.buffer \in Seq(Records) /\ Len(t.buffer) = Len(s.buffer) + 1 /\ t.buffer # <<>>
      /\ t.day # NoDay
  <2>1. s.buffer \in Seq(Records) /\ t.day # NoDay
    BY DayFacts DEF Stores
  <2>2. t.buffer \in Seq(Records) /\ Len(t.buffer) = Len(s.buffer) + 1 /\ Len(s.buffer) \in Nat
    BY <2>1, QueueAppend
  <2> QED
    BY <2>1, <2>2
<1>2. PICK n \in 0 .. Len(t.buffer) - 1, half \in BOOLEAN :
          o = [store |-> [t EXCEPT !.buffer = <<>>, !.broken = TRUE],
               files |-> IF t.linked
                         THEN Torn(Landed(f, t.day, SubSeq(t.buffer, 1, n)), t.day, half)
                         ELSE f,
               ok |-> FALSE]
  BY <1>1 DEF Flushed
<1> DEFINE part == SubSeq(t.buffer, 1, n)
<1>3. part \in Seq(Records) /\ ToSet(part) \subseteq ToSet(s.buffer)
  <2>1. n \in 0 .. Len(s.buffer) /\ n \in 0 .. Len(t.buffer)
    BY <1>1, <1>2
  <2>2. \A i \in 1 .. n : t.buffer[i] = s.buffer[i] /\ i \in 1 .. Len(s.buffer)
    BY <1>1, <2>1
  <2>3. part = [i \in 1 .. n |-> t.buffer[i]]
    BY <1>1, <2>1
  <2>4. DOMAIN part = 1 .. n /\ \A i \in 1 .. n : part[i] = t.buffer[i]
    BY <2>3
  <2>5. part \in Seq(Records)
    BY <1>1, <2>1, BufferPart
  <2> HIDE DEF part
  <2>6. DOMAIN s.buffer = 1 .. Len(s.buffer)
    BY <1>1
  <2>7. ToSet(part) \subseteq ToSet(s.buffer)
    BY <2>2, <2>4, <2>6 DEF ToSet
  <2> QED
    BY <2>5, <2>7
<1>4. /\ o.store = [t EXCEPT !.buffer = <<>>, !.broken = TRUE]
      /\ o.files = IF t.linked THEN Torn(Landed(f, t.day, part), t.day, half) ELSE f
  BY <1>2
<1>5. ToSet(o.store.buffer) = {}
  BY <1>4, StoreEmptied, EmptyBuffer
<1> HIDE DEF part
<1>6. \A d \in Days : o.files.lines[d] \subseteq f.lines[d] \cup ToSet(s.buffer)
  <2>1. CASE t.linked
    <3> DEFINE g == Landed(f, t.day, part)
    <3>1. /\ g \in FileSets
          /\ \A e \in Days : e # t.day => g.lines[e] = f.lines[e]
          /\ g.lines[t.day] \subseteq f.lines[t.day] \cup ToSet(part)
      BY <1>3, LandedLines
    <3>2. o.files = Torn(g, t.day, half)
      BY <1>4, <2>1
    <3> HIDE DEF g
    <3>3. o.files.lines = g.lines
      BY <3>1, <3>2, TornLines
    <3> QED
      BY <1>3, <3>1, <3>3
  <2>2. CASE ~ t.linked
    BY <1>4, <2>2
  <2> QED
    BY <2>1, <2>2
<1> QED
  BY <1>5, <1>6 DEF Taken, Lines

\* An append that fails takes nothing in; one that works takes its record at most.
LEMMA PutTakes ==
    ASSUME diskOk \in BOOLEAN, NEW s \in Stores, NEW f \in FileSets, NEW r \in Records,
           s.day \in Days, NEW o \in Put(s, f, r)
    PROVE  /\ Taken(o.store, o.files) \subseteq Taken(s, f) \cup {r}
           /\ ~ o.ok => Taken(o.store, o.files) \subseteq Taken(s, f)
<1>1. Taken(o.store, o.files) \subseteq Taken(s, f) \cup {r}
  <2>1. /\ ToSet(o.store.buffer) \subseteq ToSet(s.buffer) \cup {r}
        /\ \A d \in Days : d # s.day => o.files.lines[d] = f.lines[d]
        /\ o.files.lines[s.day] \subseteq f.lines[s.day] \cup ToSet(s.buffer) \cup {r}
    BY PutLeaves
  <2>2. \A d \in Days : o.files.lines[d] \subseteq f.lines[d] \cup ToSet(s.buffer) \cup {r}
    BY <2>1
  <2> QED
    BY <2>1, <2>2 DEF Taken, Lines
<1>2. ASSUME ~ o.ok PROVE Taken(o.store, o.files) \subseteq Taken(s, f)
  <2>1. CASE s.broken
    <3>1. o = [store |-> s, files |-> f, ok |-> FALSE]
      BY <2>1 DEF Put
    <3>2. o.store = s /\ o.files = f
      BY <3>1
    <3> QED
      BY <3>2
  <2>2. CASE ~ s.broken
    <3> DEFINE t == [s EXCEPT !.buffer = Append(@, r)]
    <3>1. /\ t \in Stores /\ t.day = s.day /\ ~ t.broken /\ t.buffer = Append(s.buffer, r)
      BY <2>2, StoreTaken
    <3>2. \/ o \in Flushed(t, f)
          \/ o = [store |-> t, files |-> f, ok |-> TRUE]
      BY <2>2 DEF Put
    <3> HIDE DEF t
    <3>3. o \in Flushed(t, f)
      <4>1. o = [store |-> t, files |-> f, ok |-> TRUE] => o.ok = TRUE
        OBVIOUS
      <4> QED
        BY <1>2, <3>2, <4>1
    <3>4. diskOk = FALSE
      <4>1. diskOk => o.ok = ~ t.broken
        BY <3>1, <3>3, FlushLeaves
      <4> QED
        BY <1>2, <3>1, <4>1
    <3> QED
      BY <2>2, <3>1, <3>3, <3>4, PartTaken
  <2> QED
    BY <2>1, <2>2
<1> QED
  BY <1>1, <1>2

LEMMA AppendTakes ==
    ASSUME diskOk \in BOOLEAN, NEW s \in Stores, NEW f \in FileSets, NEW r \in Records,
           day[r] \in Days, NEW o \in Appended(s, f, r)
    PROVE  /\ Taken(o.store, o.files) \subseteq Taken(s, f) \cup {r}
           /\ ~ o.ok => Taken(o.store, o.files) \subseteq Taken(s, f)
<1>1. CASE s.day = day[r]
  <2>1. o \in Put(s, f, r) /\ s.day \in Days
    BY <1>1 DEF Appended
  <2> QED
    BY <2>1, PutTakes
<1>2. CASE s.day # day[r]
  <2>1. PICK q \in Rotated(s, f, day[r]) : IF q.ok THEN o \in Put(q.store, q.files, r) ELSE o = q
    BY <1>2 DEF Appended
  <2>2. PICK p \in Flushed(s, f) :
          \/ /\ q.store = Opened(day[r]) /\ q.ok /\ q.files \in FileSets
             /\ q.files.lines = p.files.lines
          \/ q.store = Closed /\ q.files = p.files /\ ~ q.ok
    BY <2>1, RotateLeaves
  <2>3. Lines(p.files) \subseteq Taken(s, f)
    BY <2>2, FlushTakes DEF Taken
  <2>4. CASE q.store = Closed /\ q.files = p.files /\ ~ q.ok
    <3>1. o.store.buffer = <<>> /\ o.files = p.files
      BY <2>1, <2>4 DEF Closed
    <3> QED
      BY <2>3, <3>1, EmptyBuffer DEF Taken
  <2>5. CASE /\ q.store = Opened(day[r]) /\ q.ok /\ q.files \in FileSets
             /\ q.files.lines = p.files.lines
    <3>1. /\ q.store \in Stores /\ q.store.day = day[r] /\ q.store.buffer = <<>>
      BY <2>5, EmptyBuffer DEF Opened, Stores
    <3>2. Taken(q.store, q.files) \subseteq Taken(s, f)
      BY <2>3, <2>5, <3>1, EmptyBuffer DEF Taken, Lines
    <3>3. o \in Put(q.store, q.files, r)
      BY <2>1, <2>5
    <3>4. /\ Taken(o.store, o.files) \subseteq Taken(q.store, q.files) \cup {r}
          /\ ~ o.ok => Taken(o.store, o.files) \subseteq Taken(q.store, q.files)
      BY <2>5, <3>1, <3>3, PutTakes
    <3> QED
      BY <3>2, <3>4
  <2> QED
    BY <2>2, <2>4, <2>5
<1> QED
  BY <1>1, <1>2

Held == Taken(store, files)

\* A record that is buffered, on file or dropped is out of its thread's hands and out of the
\* queue, and reported as lost only if it is nowhere.
Apart ==
    /\ \A r \in Held \cup dropped : r \in Records /\ caller[r] = "done"
    /\ ToSet(queue) \cap (Held \cup dropped) = {}
    /\ (dropped \cup failed) \cap Held = {}

\* What was counted is past the lock.
Counted == \A r \in events : caller[r] \in {"enlisted", "done"}

LossInv == Apart /\ Counted /\ HealthAddsUp

LEMMA LossAtInit == Init => LossInv
<1> SUFFICES ASSUME Init PROVE LossInv
  OBVIOUS
<1>1. Lines(files) = {}
  <2>1. \A d \in Days : files.lines[d] = {}
    BY DEF Init
  <2> QED
    BY <2>1 DEF Lines
<1>2. ToSet(store.buffer) = {} /\ ToSet(queue) = {}
  BY EmptyBuffer DEF Init, Closed
<1>3. Held = {}
  BY <1>1, <1>2 DEF Held, Taken
<1>4. events = {} /\ dropped = {} /\ failed = {} /\ queued = 0
  BY DEF Init
<1>5. Cardinality({}) = 0
  BY FS_EmptySet
<1> QED
  BY <1>2, <1>3, <1>4, <1>5 DEF LossInv, Apart, Counted, HealthAddsUp

\* No step but the writer's own takes a record into the buffer or the files.
LEMMA HeldShrinks ==
    ASSUME RecInv, [Next]_vars, ~ WriteOne PROVE Held' \subseteq Held
<1>1. store \in Stores /\ files \in FileSets /\ diskOk \in BOOLEAN
  BY DEF RecInv, Types, StoreTypes, OutsideTypes
<1>2. ASSUME UNCHANGED <<store, files>> PROVE Held' \subseteq Held
  BY <1>2 DEF Held
<1>3. ASSUME \E o \in Flushed(store, files) : store' = o.store /\ files' = o.files
      PROVE  Held' \subseteq Held
  BY <1>1, <1>3, FlushTakes DEF Held
<1>4. CASE Close
  <2>1. PICK o \in Flushed(store, files) : files' = o.files
    BY <1>4 DEF Close
  <2>2. store'.buffer = <<>>
    BY <1>4 DEF Close, Closed
  <2>3. Lines(o.files) \subseteq Taken(store, files)
    BY <1>1, <2>1, FlushTakes DEF Taken
  <2> QED
    BY <2>1, <2>2, <2>3, EmptyBuffer DEF Held, Taken
<1>5. CASE Clean
  <2>1. store'.buffer = store.buffer
    BY <1>5, CleanKeeps
  <2>2. \E doomed : files'.lines = [d \in Days |-> IF d \in doomed THEN {} ELSE files.lines[d]]
    BY <1>5 DEF Clean
  <2>3. Lines(files') \subseteq Lines(files)
    BY <2>2 DEF Lines
  <2> QED
    BY <2>1, <2>3 DEF Held, Taken
<1>6. CASE EndDrain \/ AnswerFlush \/ FlushTimer \/ ScanFlush
  BY <1>3, <1>6 DEF EndDrain, AnswerFlush, FlushTimer, ScanFlush
<1>7. CASE Start \/ Stop \/ New \/ BeginDrain \/ TakeFlush \/ CallFlush \/ GiveUpFlush
  BY <1>2, <1>7 DEF Start, Stop, New, BeginDrain, TakeFlush, CallFlush, GiveUpFlush
<1>8. CASE ScanList \/ ScanRead \/ ScanDone \/ NextDay \/ DiskBreaks \/ DiskMends \/ UNCHANGED vars
  BY <1>2, <1>8 DEF ScanList, ScanRead, ScanDone, NextDay, DiskBreaks, DiskMends, vars
<1>9. ASSUME NEW x \in Records, Observe(x) PROVE Held' \subseteq Held
  BY <1>2, <1>9 DEF Observe, Check, Enlist, Send, SendToOld
<1> QED
  BY <1>4, <1>5, <1>6, <1>7, <1>8, <1>9 DEF Next, Writes, Scans

LEMMA LossStands ==
    ASSUME LossInv, Held' \subseteq Held,
           UNCHANGED <<queue, queued, events, dropped, failed, caller>>
    PROVE  LossInv'
<1>1. Apart'
  BY DEF LossInv, Apart
<1>2. Counted'
  BY DEF LossInv, Counted
<1>3. HealthAddsUp'
  BY DEF LossInv, HealthAddsUp
<1> QED
  BY <1>1, <1>2, <1>3 DEF LossInv

\* The writer settles the record at the head of the queue.
LEMMA WriteLoses ==
    ASSUME RecInv, LossInv, WriteOne PROVE LossInv'
<1>1. /\ store \in Stores /\ files \in FileSets /\ diskOk \in BOOLEAN /\ queue \in Seq(Records)
      /\ Places /\ queue # <<>>
  BY DEF RecInv, Types, StoreTypes, OutsideTypes, QueueTypes, WriteOne
<1>2. PICK r : r = Head(queue)
  OBVIOUS
<1>3. /\ r \in Records /\ r \in ToSet(queue) /\ day[r] \in Days
      /\ ToSet(queue) = ToSet(Tail(queue)) \cup {r}
      /\ r \notin ToSet(Tail(queue))
  BY <1>1, <1>2, QueueTail, HeadHasDay DEF Places
<1>4. PICK o \in Appended(store, files, r) :
          /\ store' = o.store /\ files' = o.files
          /\ failed' = IF o.ok THEN failed ELSE failed \cup {r}
  BY <1>2 DEF WriteOne
<1>5. queue' = Tail(queue) /\ UNCHANGED <<queued, events, dropped, caller>>
  BY DEF WriteOne, threads
<1>6. /\ Held' \subseteq Held \cup {r} /\ (~ o.ok => Held' \subseteq Held)
  BY <1>1, <1>3, <1>4, AppendTakes DEF Held
<1>7. /\ caller[r] = "done" /\ r \notin Held /\ r \notin dropped /\ r \notin failed
      /\ ToSet(queue) \cap (Held \cup dropped) = {}
  BY <1>1, <1>3 DEF LossInv, Apart, Places
<1>8. Apart'
  <2>1. \A x \in Held' \cup dropped' : x \in Records /\ caller'[x] = "done"
    BY <1>3, <1>5, <1>6, <1>7 DEF LossInv, Apart
  <2>2. ToSet(queue') \cap (Held' \cup dropped') = {}
    BY <1>3, <1>5, <1>6, <1>7
  <2>3. (dropped' \cup failed') \cap Held' = {}
    <3>1. CASE o.ok
      BY <1>4, <1>5, <1>6, <1>7, <3>1 DEF LossInv, Apart
    <3>2. CASE ~ o.ok
      BY <1>4, <1>5, <1>6, <1>7, <3>2 DEF LossInv, Apart
    <3> QED
      BY <3>1, <3>2
  <2> QED
    BY <2>1, <2>2, <2>3 DEF Apart
<1>9. Counted' /\ HealthAddsUp'
  BY <1>5 DEF LossInv, Counted, HealthAddsUp
<1> QED
  BY <1>8, <1>9 DEF LossInv

\* The thread of a record counts it, drops it or sends it.
LEMMA ObserveLoses ==
    ASSUME RecInv, LossInv, NEW r \in Records, Observe(r) PROVE LossInv'
<1>1. /\ caller \in [Records -> {"idle", "checked", "enlisted", "done"}]
      /\ queue \in Seq(Records) /\ Places
      /\ events \in SUBSET Records /\ dropped \in SUBSET Records
      /\ \A x \in ToSet(queue) \cup failed : caller[x] = "done"
      /\ ToSet(queue) \cap failed = {}
  BY DEF RecInv, Types, ThreadTypes, QueueTypes, Places
<1>2. /\ queued \in Int /\ Cardinality(events) \in Nat /\ Cardinality(dropped) \in Nat
      /\ Cardinality(events) = queued + Cardinality(dropped)
  <2>1. Cardinality(Records) \in Nat /\ queued \in 0 .. Cardinality(Records)
    BY QueuedBounded, CountOne
  <2>2. Cardinality(events) \in Nat /\ Cardinality(dropped) \in Nat
    BY <1>1, CountOne
  <2> QED
    BY <2>1, <2>2 DEF LossInv, HealthAddsUp
<1>3. UNCHANGED <<store, files, failed>> /\ Held' = Held
  BY DEF Observe, Check, Enlist, Send, SendToOld, counters, Held
<1>4. ASSUME caller[r] # "done"
      PROVE  r \notin Held /\ r \notin dropped /\ r \notin ToSet(queue) /\ r \notin failed
  BY <1>1, <1>4 DEF LossInv, Apart
<1>5. ASSUME caller[r] # "done", NEW stage, caller' = [caller EXCEPT ![r] = stage],
             UNCHANGED <<queue, dropped>>
      PROVE  Apart'
  <2>1. \A x \in Held \cup dropped : x # r /\ x \in Records /\ caller'[x] = caller[x]
    BY <1>1, <1>4, <1>5 DEF LossInv, Apart
  <2> QED
    BY <1>3, <1>5, <2>1 DEF LossInv, Apart
<1>6. ASSUME caller[r] # "done", caller' = [caller EXCEPT ![r] = "done"],
             queue' = queue, dropped' = dropped \cup {r}
      PROVE  Apart'
  <2>1. \A x \in Held \cup dropped : x \in Records /\ caller'[x] = "done"
    BY <1>1, <1>6 DEF LossInv, Apart
  <2>2. caller'[r] = "done"
    BY <1>1, <1>6
  <2> QED
    BY <1>3, <1>4, <1>6, <2>1, <2>2 DEF LossInv, Apart
<1>7. ASSUME NEW stage \in {"checked", "enlisted", "done"}, caller' = [caller EXCEPT ![r] = stage],
             r \in events' => stage # "checked", events' \subseteq events \cup {r}
      PROVE  Counted'
  <2>1. \A x \in Records : caller'[x] = IF x = r THEN stage ELSE caller[x]
    BY <1>1, <1>7
  <2>2. events' \subseteq Records
    BY <1>1, <1>7
  <2> QED
    BY <1>7, <2>1, <2>2 DEF LossInv, Counted
<1>8. CASE Check(r)
  <2>1. /\ caller[r] = "idle" /\ caller' = [caller EXCEPT ![r] = "checked"]
        /\ UNCHANGED <<queue, queued, events, dropped>>
    BY <1>8 DEF Check, counters
  <2>2. r \notin events
    BY <2>1 DEF LossInv, Counted
  <2>3. Apart' /\ Counted'
    BY <1>5, <1>7, <2>1, <2>2
  <2> QED
    BY <2>1, <2>3 DEF LossInv, HealthAddsUp
<1>9. CASE Enlist(r)
  <2>1. /\ caller[r] = "checked" /\ events' = events \cup {r} /\ queue' = queue
        /\ \/ /\ dropped' = dropped \cup {r} /\ caller' = [caller EXCEPT ![r] = "done"]
              /\ queued' = queued
           \/ /\ queued' = queued + 1 /\ caller' = [caller EXCEPT ![r] = "enlisted"]
              /\ dropped' = dropped
    BY <1>9 DEF Enlist, Away
  <2>2. r \notin events /\ r \notin dropped
    BY <1>4, <2>1 DEF LossInv, Counted
  <2>3. Apart' /\ Counted'
    BY <1>5, <1>6, <1>7, <2>1
  <2>4. /\ Cardinality(events') = Cardinality(events) + 1
        /\ Cardinality(dropped \cup {r}) = Cardinality(dropped) + 1
    BY <1>1, <2>1, <2>2, CountOne
  <2>5. \/ queued' = queued /\ Cardinality(dropped') = Cardinality(dropped) + 1
        \/ queued' = queued + 1 /\ Cardinality(dropped') = Cardinality(dropped)
    BY <2>1, <2>4
  <2>6. HealthAddsUp'
    BY <1>2, <2>4, <2>5 DEF HealthAddsUp
  <2> QED
    BY <2>3, <2>6 DEF LossInv
<1>10. CASE Send(r)
  <2>1. /\ caller[r] = "enlisted" /\ caller' = [caller EXCEPT ![r] = "done"] /\ events' = events
        /\ \/ queue' = Append(queue, r) /\ dropped' = dropped /\ queued' = queued
           \/ dropped' = dropped \cup {r} /\ queued' = queued - 1 /\ queue' = queue
    BY <1>10 DEF Send, Away
  <2>2. r \notin dropped /\ r \notin Held
    BY <1>4, <2>1
  <2>3. Counted'
    BY <1>7, <2>1
  <2>4. HealthAddsUp'
    <3>1. Cardinality(dropped \cup {r}) = Cardinality(dropped) + 1
      BY <1>1, <2>2, CountOne
    <3>2. \/ queued' = queued /\ Cardinality(dropped') = Cardinality(dropped)
          \/ queued' = queued - 1 /\ Cardinality(dropped') = Cardinality(dropped) + 1
      BY <2>1, <3>1
    <3>3. Cardinality(events') = Cardinality(events)
      BY <2>1
    <3> QED
      BY <1>2, <3>2, <3>3 DEF HealthAddsUp
  <2>5. CASE queue' = Append(queue, r) /\ dropped' = dropped
    <3>1. ToSet(queue') = ToSet(queue) \cup {r}
      BY <1>1, <2>5, QueueAppend
    <3>2. \A x \in Held \cup dropped : x \in Records /\ caller'[x] = "done"
      BY <1>1, <2>1 DEF LossInv, Apart
    <3>3. Apart'
      BY <1>3, <2>2, <2>5, <3>1, <3>2 DEF LossInv, Apart
    <3> QED
      BY <2>3, <2>4, <3>3 DEF LossInv
  <2>6. CASE dropped' = dropped \cup {r} /\ queue' = queue
    BY <1>6, <2>1, <2>3, <2>4, <2>6 DEF LossInv
  <2> QED
    BY <2>1, <2>5, <2>6
<1>11. CASE SendToOld(r)
  <2>1. /\ caller[r] \in {"checked", "enlisted"} /\ caller' = [caller EXCEPT ![r] = "done"]
        /\ UNCHANGED <<queue, queued, events, dropped>>
    BY <1>11 DEF SendToOld, Away, counters
  <2>2. Apart' /\ Counted'
    BY <1>5, <1>7, <2>1
  <2> QED
    BY <2>1, <2>2 DEF LossInv, HealthAddsUp
<1> QED
  BY <1>8, <1>9, <1>10, <1>11 DEF Observe

LEMMA LossStep == RecInv /\ LossInv /\ [Next]_vars => LossInv'
<1> SUFFICES ASSUME RecInv, LossInv, [Next]_vars PROVE LossInv'
  OBVIOUS
<1>1. CASE WriteOne
  BY <1>1, WriteLoses
<1>2. ASSUME NEW r \in Records, Observe(r) PROVE LossInv'
  BY <1>2, ObserveLoses
<1>3. CASE New
  <2>1. ~ WriteOne
    BY <1>3 DEF New, WriteOne
  <2>2. /\ queue' = <<>> /\ events' = {} /\ dropped' = {} /\ failed' = {} /\ queued' = 0
        /\ UNCHANGED caller
    BY <1>3 DEF New, threads
  <2>3. Held' \subseteq Held /\ ToSet(queue') = {}
    BY <2>1, <2>2, HeldShrinks, EmptyBuffer
  <2>4. Apart' /\ Counted'
    BY <2>2, <2>3 DEF LossInv, Apart, Counted
  <2>5. Cardinality({}) = 0
    BY FS_EmptySet
  <2>6. HealthAddsUp'
    BY <2>2, <2>5 DEF HealthAddsUp
  <2> QED
    BY <2>4, <2>6 DEF LossInv
<1>4. ASSUME UNCHANGED <<queue, queued, events, dropped, failed, caller>> PROVE LossInv'
  <2>1. CASE WriteOne
    BY <2>1, <1>1
  <2>2. CASE ~ WriteOne
    BY <1>4, <2>2, HeldShrinks, LossStands
  <2> QED
    BY <2>1, <2>2
<1>5. CASE Start \/ Stop \/ Close \/ BeginDrain \/ EndDrain \/ TakeFlush \/ AnswerFlush
  BY <1>4, <1>5 DEF Start, Stop, Close, BeginDrain, EndDrain, TakeFlush, AnswerFlush, counters,
                    threads
<1>6. CASE FlushTimer \/ CallFlush \/ GiveUpFlush \/ Clean
  BY <1>4, <1>6 DEF FlushTimer, CallFlush, GiveUpFlush, Clean, counters, threads
<1>7. CASE Scans \/ NextDay \/ DiskBreaks \/ DiskMends \/ UNCHANGED vars
  BY <1>4, <1>7 DEF Scans, ScanFlush, ScanList, ScanRead, ScanDone, NextDay, DiskBreaks,
                    DiskMends, vars, counters, threads
<1> QED
  BY <1>1, <1>2, <1>3, <1>5, <1>6, <1>7 DEF Next, Writes

LEMMA LossInvariance == Spec => []LossInv
  BY LossAtInit, LossStep, RecInvariance, PTL DEF Spec

\* Health does not cry wolf: a record it counted as dropped, or as failed, is not on file,
\* however much of a buffer a failing disk has taken.
THEOREM ReportedIsLost == Spec => []LossesAreReal
<1>1. LossInv => LossesAreReal
  BY DEF LossInv, Apart, LossesAreReal, Held, Taken, Lines, OnFile
<1> QED
  BY <1>1, LossInvariance, PTL

\* Health's numbers add up: no request that was counted goes uncounted between the lock,
\* the queue and the writer, whatever fails and whoever stops when.
THEOREM NothingUncounted == Spec => []HealthAddsUp
<1>1. LossInv => HealthAddsUp
  BY DEF LossInv
<1> QED
  BY <1>1, LossInvariance, PTL
================================================================================
