--------------------------- MODULE ChannelLogProofs ----------------------------
(***************************************************************************)
(* What TLAPS proves of ChannelLog, for any number of logs of any length,  *)
(* any caps and any faults.                                                *)
(***************************************************************************)
EXTENDS ChannelLog, SequenceTheorems, FiniteSetTheorems, WellFoundedInduction, TLAPS

-----------------------------------------------------------------------------
(* Operators *)

\* A pass that has logs to look at has a current one.
LEMMA CurrentIn ==
    ASSUME todo \in SUBSET Log, todo # {} PROVE Current \in todo /\ Current \in Log
<1> DEFINE R == OpToRel(<, Nat)
<1>1. IsWellFoundedOn(R, Nat)
  BY NatLessThanWellFounded
<1>2. todo \subseteq Nat
  BY SizesAssumption DEF Log
<1> HIDE DEF R
<1>3. PICK f \in todo : \A g \in todo : ~ (<<g, f>> \in R)
  BY <1>1, <1>2, WFMin
<1>4. \A g \in todo : ~ (g < f)
  BY <1>2, <1>3 DEF R, OpToRel
<1>5. \A g \in todo : f <= g
  BY <1>2, <1>4
<1> QED
  BY <1>5 DEF Current

\* The seen set keeps to its cap, of keys of its type.
LEMMA MarkSeenType ==
    ASSUME NEW key \in Log \X Size, markSeen(key),
           seenKeys \in Seq(Log \X Size), Len(seenKeys) <= SeenCap, forgot \in BOOLEAN
    PROVE  /\ seenKeys' \in Seq(Log \X Size) /\ Len(seenKeys') <= SeenCap
           /\ forgot' \in BOOLEAN
<1> DEFINE grown == Append(seenKeys, key)
<1>1. grown \in Seq(Log \X Size) /\ Len(grown) = Len(seenKeys) + 1 /\ Len(seenKeys) \in Nat
  OBVIOUS
<1> HIDE DEF grown
<1>2. CASE Seen(key)
  BY <1>2 DEF markSeen, seenSet
<1>3. CASE ~ Seen(key) /\ Len(grown) > SeenCap
  <2>1. seenKeys' = SubSeq(grown, SeenTrim + 1, Len(grown)) /\ forgot' = TRUE
    BY <1>3 DEF markSeen, grown
  <2>2. SeenTrim \in Nat \ {0} /\ SeenTrim + 1 \in 1 .. Len(grown) + 1
    BY <1>1, <1>3, SizesAssumption
  <2>3. /\ SubSeq(grown, SeenTrim + 1, Len(grown)) \in Seq(Log \X Size)
        /\ Len(SubSeq(grown, SeenTrim + 1, Len(grown))) = Len(grown) - SeenTrim
    <3>1. \A i \in SeenTrim + 1 .. Len(grown) : grown[i] \in Log \X Size
      BY <1>1, <2>2
    <3>2. /\ SubSeq(grown, SeenTrim + 1, Len(grown)) \in Seq(Log \X Size)
          /\ Len(SubSeq(grown, SeenTrim + 1, Len(grown))) =
                 IF SeenTrim + 1 <= Len(grown) THEN Len(grown) - (SeenTrim + 1) + 1 ELSE 0
      BY <1>1, <2>2, <3>1, SubSeqProperties
    <3> QED
      BY <1>1, <2>2, <3>2
  <2>4. Len(grown) - SeenTrim <= SeenCap
    BY <1>1, SizesAssumption
  <2> QED
    BY <2>1, <2>3, <2>4
<1>4. CASE ~ Seen(key) /\ ~ (Len(grown) > SeenCap)
  BY <1>1, <1>4, SizesAssumption DEF markSeen, grown
<1> QED
  BY <1>2, <1>3, <1>4

\* A seen set that drops nothing knows what it knew, and the key.
LEMMA MarkSeenKeeps ==
    ASSUME NEW key, markSeen(key), ~ forgot', forgot \in BOOLEAN,
           seenKeys \in Seq(Log \X Size), key \in Log \X Size
    PROVE  ~ forgot /\ \A k : Seen(k)' <=> Seen(k) \/ k = key
<1>1. CASE Seen(key)
  BY <1>1 DEF markSeen, seenSet, Seen
<1>2. CASE ~ Seen(key)
  <2>1. seenKeys' = Append(seenKeys, key) /\ ~ forgot
    BY <1>2 DEF markSeen
  <2>2. /\ DOMAIN seenKeys' = 1 .. Len(seenKeys) + 1 /\ DOMAIN seenKeys = 1 .. Len(seenKeys)
        /\ seenKeys'[Len(seenKeys) + 1] = key /\ Len(seenKeys) \in Nat
        /\ \A i \in 1 .. Len(seenKeys) : seenKeys'[i] = seenKeys[i]
    BY <2>1
  <2>3. \A i : i \in 1 .. Len(seenKeys) + 1 <=> i \in 1 .. Len(seenKeys) \/ i = Len(seenKeys) + 1
    BY <2>2
  <2> QED
    BY <2>1, <2>2, <2>3 DEF Seen
<1> QED
  BY <1>1, <1>2

\* The next log of a pass, or the end of it.
LEMMA NextLogPass ==
    ASSUME NextLog, todo \in SUBSET Log, todo # {}
    PROVE  /\ todo' \in SUBSET Log /\ size' = 0
           /\ pc' \in {"info", "prune"} /\ (pc' = "info" => todo' # {})
  BY DEF NextLog

\* An append adds its fact and keeps the others.
LEMMA AppendStores ==
    ASSUME append, facts \in [Log -> Seq(Size)], Current \in Log, size \in Size
    PROVE  /\ facts' \in [Log -> Seq(Size)]
           /\ \A f \in Log \ {Current} : facts'[f] = facts[f]
           /\ DOMAIN facts'[Current] = 1 .. Len(facts[Current]) + 1
           /\ DOMAIN facts[Current] = 1 .. Len(facts[Current]) /\ Len(facts[Current]) \in Nat
           /\ \A i \in DOMAIN facts[Current] : facts'[Current][i] = facts[Current][i]
           /\ facts'[Current][Len(facts[Current]) + 1] = size
<1>1. facts[Current] \in Seq(Size)
  OBVIOUS
<1>2. Append(facts[Current], size) \in Seq(Size)
  BY <1>1
<1>3. facts' = [facts EXCEPT ![Current] = Append(facts[Current], size)]
  BY DEF append
<1>4. facts'[Current] = Append(facts[Current], size) /\ facts' \in [Log -> Seq(Size)]
  BY <1>2, <1>3
<1> QED
  BY <1>1, <1>3, <1>4

\* What is stored stays stored when a fact is appended, and the new one is.
LEMMA AppendKeeps ==
    ASSUME append, facts \in [Log -> Seq(Size)], Current \in Log, size \in Size
    PROVE  /\ \A f \in Log : \A n : StoredAt(f, n) => StoredAt(f, n)'
           /\ \A f, n : f = Current /\ n = size => StoredAt(f, n)'
<1>1. Len(facts[Current]) + 1 \in 1 .. Len(facts[Current]) + 1
  BY AppendStores
<1>2. \A f, n : f = Current /\ n = size => StoredAt(f, n)'
  BY <1>1, AppendStores DEF StoredAt
<1>3. ASSUME NEW f \in Log, NEW n, StoredAt(f, n) PROVE StoredAt(f, n)'
  <2>1. CASE f # Current
    BY <1>3, <2>1, AppendStores DEF StoredAt
  <2>2. CASE f = Current
    BY <1>3, <2>2, AppendStores DEF StoredAt
  <2> QED
    BY <2>1, <2>2
<1> QED
  BY <1>2, <1>3

\* The ring takes the new fact and drops old ones.
LEMMA RingTakes ==
    ASSUME recordFact, ring \in Seq(Log \X Size), <<Current, size>> \in Log \X Size
    PROVE  /\ ring' \in Seq(Log \X Size) /\ Len(ring') <= MaxFacts
           /\ \A i \in DOMAIN ring' :
                  ring'[i] = <<Current, size>> \/ \E j \in DOMAIN ring : ring'[i] = ring[j]
<1> DEFINE newest == <<<<Current, size>>>> \o ring
<1>1. /\ newest \in Seq(Log \X Size) /\ Len(newest) = Len(ring) + 1 /\ Len(ring) \in Nat
      /\ newest[1] = <<Current, size>>
      /\ \A i \in 2 .. Len(ring) + 1 : newest[i] = ring[i - 1]
  OBVIOUS
<1>2. ring' = IF Len(newest) > MaxFacts THEN SubSeq(newest, 1, MaxFacts) ELSE newest
  BY DEF recordFact
<1> HIDE DEF newest
<1>3. /\ ring' \in Seq(Log \X Size) /\ Len(ring') <= MaxFacts /\ Len(ring') <= Len(ring) + 1
      /\ \A i \in DOMAIN ring' : ring'[i] = newest[i] /\ i \in 1 .. Len(ring) + 1
  <2>1. CASE Len(newest) > MaxFacts
    BY <1>1, <1>2, <2>1, SizesAssumption
  <2>2. CASE ~ (Len(newest) > MaxFacts)
    BY <1>1, <1>2, <2>2, SizesAssumption
  <2> QED
    BY <2>1, <2>2
<1>4. ASSUME NEW i \in DOMAIN ring'
      PROVE  newest[i] = <<Current, size>> \/ \E j \in DOMAIN ring : newest[i] = ring[j]
  <2>1. i \in 1 .. Len(ring) + 1
    BY <1>3
  <2>2. CASE i = 1
    BY <1>1, <2>2
  <2>3. CASE i # 1
    <3>1. i \in 2 .. Len(ring) + 1 /\ i - 1 \in DOMAIN ring
      BY <1>1, <2>1, <2>3
    <3> QED
      BY <1>1, <3>1
  <2> QED
    BY <2>2, <2>3
<1> QED
  BY <1>3, <1>4

-----------------------------------------------------------------------------
(* Types *)

LEMMA TypeInit ==
    Init => TypeOK
<1> SUFFICES ASSUME Init PROVE TypeOK
  OBVIOUS
<1>1. /\ written \in [Log -> 0 .. NumChunks] /\ facts \in [Log -> Seq(Size)]
      /\ quiet \in [Log -> BOOLEAN] /\ gone \in [Log -> BOOLEAN]
  BY SizesAssumption DEF Init
<1>2. /\ ring \in Seq(Log \X Size) /\ Len(ring) <= MaxFacts
      /\ seenKeys \in Seq(Log \X Size) /\ Len(seenKeys) <= SeenCap
  BY SizesAssumption DEF Init
<1>3. pc \in PCs /\ delete \in BOOLEAN
  BY ChoicesAssumption DEF Init, PCs
<1>4. /\ expired = {} /\ paused = {} /\ todo = {} /\ size = 0 /\ forgot = FALSE
      /\ faults = 0 /\ stops = 0 /\ crashes = 0
  BY DEF Init
<1>5. /\ expired \subseteq Log /\ paused \subseteq Log /\ todo \in SUBSET Log
      /\ size \in {0} \cup Size /\ forgot \in BOOLEAN
  BY <1>4
<1>6. {faults, stops, crashes} \subseteq Nat
  BY <1>4
<1> QED
  BY <1>1, <1>2, <1>3, <1>5, <1>6 DEF TypeOK

\* CPA's own steps.
LEMMA WriterType ==
    ASSUME TypeOK, NEW f \in Log, Append1(f) \/ Settle(f) \/ Expire(f)
    PROVE  TypeOK'
<1> USE DEF TypeOK, memory, seenSet, budgets
<1>1. CASE Append1(f)
  <2>1. written[f] + 1 \in 0 .. NumChunks
    BY <1>1, SizesAssumption DEF Append1
  <2> QED
    BY <1>1, <2>1 DEF Append1
<1>2. CASE Settle(f)
  BY <1>2 DEF Settle
<1>3. CASE Expire(f)
  BY <1>3 DEF Expire
<1> QED
  BY <1>1, <1>2, <1>3

LEMMA GoneType ==
    ASSUME TypeOK, Gone, {stops', crashes'} \subseteq Nat PROVE TypeOK'
<1>1. /\ ring' \in Seq(Log \X Size) /\ Len(ring') <= MaxFacts
      /\ seenKeys' \in Seq(Log \X Size) /\ Len(seenKeys') <= SeenCap
  BY SizesAssumption DEF Gone
<1> QED
  BY <1>1 DEF TypeOK, Gone, directory, PCs

LEMMA HostType ==
    ASSUME TypeOK, Start \/ Stop \/ Crash PROVE TypeOK'
<1>1. CASE Start
  BY <1>1, ChoicesAssumption DEF Start, TypeOK, directory, memory, seenSet, budgets, PCs
<1>2. CASE Stop
  <2>1. Gone /\ stops' = stops + 1 /\ crashes' = crashes /\ {stops, crashes} \subseteq Nat
    BY <1>2 DEF Stop, TypeOK
  <2>2. {stops', crashes'} \subseteq Nat
    BY <2>1
  <2> QED
    BY <2>1, <2>2, GoneType
<1>3. CASE Crash
  <2>1. Gone /\ crashes' = crashes + 1 /\ stops' = stops /\ {stops, crashes} \subseteq Nat
    BY <1>3 DEF Crash, TypeOK
  <2>2. {stops', crashes'} \subseteq Nat
    BY <2>1
  <2> QED
    BY <2>1, <2>2, GoneType
<1> QED
  BY <1>1, <1>2, <1>3

\* The logs of a pass are logs; a pass that is at one has one.
InPass == pc \in {"info", "stat", "read", "store", "unlink"} => todo # {}

\* A log that is past its listing has a size.
Sized == pc \in {"stat", "read", "store", "unlink"} => size \in Size

LEMMA NextLogType ==
    ASSUME TypeOK, NextLog
    PROVE  todo' \in SUBSET Log /\ size' \in {0} \cup Size /\ pc' \in PCs
  BY DEF TypeOK, NextLog, PCs

LEMMA ScanType ==
    ASSUME TypeOK, InPass, Sized, Scan PROVE TypeOK'
<1>1. Works \/ (\E kind : Fails(kind)) => faults' \in Nat
  BY DEF Works, Fails, TypeOK
<1>2. pc \in {"info", "stat", "read", "store", "unlink"} => Current \in Log
  BY CurrentIn DEF TypeOK, InPass
<1>3. pc \in {"stat", "read", "store", "unlink"} =>
          <<Current, size>> \in Log \X Size
  BY <1>2 DEF Sized
<1> USE DEF TypeOK, directory, memory, seenSet, budgets
<1>4. CASE List
  BY <1>4 DEF List, PCs
<1>5. CASE Info
  <2>1. CASE NextLog
    BY <1>5, <2>1, NextLogType DEF Info
  <2>2. CASE size' = written[Current] /\ pc' = "stat" /\ UNCHANGED todo
    <3>1. size' \in {0} \cup Size
      BY <1>2, <1>5, <2>2, SizesAssumption DEF Info, Size
    <3> QED
      BY <1>5, <2>2, <3>1 DEF Info, PCs
  <2> QED
    BY <1>5, <2>1, <2>2 DEF Info
<1>6. CASE Stat
  BY <1>6, NextLogType DEF Stat, PCs
<1>7. CASE Read
  <2>1. CASE markSeen(<<Current, size>>) /\ NextLog /\ Works
    BY <1>1, <1>3, <1>7, <2>1, MarkSeenType, NextLogType DEF Read
  <2>2. CASE Fails("read") /\ NextLog /\ UNCHANGED seenSet
    BY <1>1, <1>7, <2>2, NextLogType DEF Read
  <2>3. CASE Works /\ pc' = "store" /\ UNCHANGED <<todo, size, seenSet>>
    BY <1>1, <1>7, <2>3 DEF Read, PCs
  <2> QED
    BY <1>7, <2>1, <2>2, <2>3 DEF Read
<1>8. CASE Store
  <2>1. CASE Fails("store") /\ NextLog /\ UNCHANGED <<facts, memory>>
    BY <1>1, <1>8, <2>1, NextLogType DEF Store
  <2>3. CASE Fails("store") /\ NextLog /\ append /\ forgot' = TRUE /\ UNCHANGED <<ring, seenKeys>>
    <3>1. facts' \in [Log -> Seq(Size)]
      BY <1>2, <1>3, <1>8, <2>3, AppendStores DEF Store
    <3> QED
      BY <1>1, <1>8, <2>3, <3>1, NextLogType DEF Store
  <2>2. CASE /\ Works /\ append /\ recordFact
             /\ \/ pc' = "unlink" /\ UNCHANGED <<todo, size, seenSet>>
                \/ NextLog /\ markSeen(<<Current, size>>)
    <3>1. /\ facts' \in [Log -> Seq(Size)]
          /\ ring' \in Seq(Log \X Size) /\ Len(ring') <= MaxFacts
      BY <1>2, <1>3, <1>8, <2>2, AppendStores, RingTakes DEF Store
    <3>2. CASE pc' = "unlink" /\ UNCHANGED <<todo, size, seenSet>>
      BY <1>1, <1>8, <2>2, <3>1, <3>2 DEF Store, PCs
    <3>3. CASE NextLog /\ markSeen(<<Current, size>>)
      <4>1. /\ seenKeys' \in Seq(Log \X Size) /\ Len(seenKeys') <= SeenCap
            /\ forgot' \in BOOLEAN
        BY <1>3, <1>8, <3>3, MarkSeenType DEF Store
      <4>2. /\ todo' \in SUBSET Log /\ size' \in {0} \cup Size /\ pc' \in PCs
            /\ {faults', stops', crashes'} \subseteq Nat
        BY <1>1, <1>8, <2>2, <3>3, NextLogType DEF Store
      <4> QED
        BY <1>8, <3>1, <4>1, <4>2 DEF Store
    <3> QED
      BY <2>2, <3>2, <3>3
  <2> QED
    BY <1>8, <2>1, <2>2, <2>3 DEF Store
<1>9. CASE Unlink
  BY <1>1, <1>3, <1>9, MarkSeenType, NextLogType DEF Unlink
<1>10. CASE Prune
  BY <1>10 DEF Prune, PCs
<1> QED
  BY <1>4, <1>5, <1>6, <1>7, <1>8, <1>9, <1>10 DEF Scan

-----------------------------------------------------------------------------
(* No log is deleted before its fact is stored *)

\* A log that has been quiet has been written to, and is complete unless CPA paused.
QuietIsDone ==
    \A f \in Log : quiet[f] => written[f] > 0 /\ (written[f] = NumChunks \/ f \in paused)

\* What the scanner knows of the log in its hands: the size it was listed with is all
\* of it unless CPA paused, and its fact is stored before it is unlinked.
InHand ==
    /\ InPass /\ Sized
    /\ pc \in {"stat", "read", "store", "unlink"} => size = NumChunks \/ Current \in paused
    /\ pc = "unlink" => StoredAt(Current, size)

\* StoredFirst with what the scanner's five accesses to a file hand on to each other.
StoreInv == StoredFirst /\ QuietIsDone /\ InHand

LEMMA StoreInit ==
    Init => StoreInv
  BY TypeInit, SizesAssumption
     DEF Init, StoreInv, StoredFirst, QuietIsDone, InHand, InPass, Sized

\* CPA's writes: no fact is touched, and no log becomes both complete and unknown.
LEMMA WriterStores ==
    ASSUME StoreInv, NEW f \in Log, Append1(f) \/ Settle(f) \/ Expire(f)
    PROVE  StoreInv'
<1> USE DEF memory, seenSet, budgets
<1>1. TypeOK'
  BY WriterType DEF StoreInv, StoredFirst
<1>2. UNCHANGED <<facts, gone, ring, pc, todo, size>>
  BY DEF Append1, Settle, Expire
<1>3. paused \subseteq paused' /\ expired \subseteq expired'
  BY DEF Append1, Settle, Expire
<1>4. \A g, n : StoredAt(g, n)' <=> StoredAt(g, n)
  BY <1>2 DEF StoredAt
<1>5. Current' = Current
  BY <1>2 DEF Current
<1>6. StoredFirst'
  BY <1>1, <1>2, <1>3, <1>4 DEF StoreInv, StoredFirst
<1>7. QuietIsDone'
  <2>1. CASE Append1(f)
    BY <2>1 DEF Append1, StoreInv, StoredFirst, TypeOK, QuietIsDone
  <2>2. CASE Settle(f)
    <3>1. written[f] \in 0 .. NumChunks /\ NumChunks \in Nat
      BY SizesAssumption DEF StoreInv, StoredFirst, TypeOK
    <3>2. written[f] = NumChunks \/ f \in paused'
      BY <2>2, <3>1 DEF Settle
    <3> QED
      BY <2>2, <3>2 DEF Settle, StoreInv, StoredFirst, TypeOK, QuietIsDone
  <2>3. CASE Expire(f)
    BY <2>3 DEF Expire, StoreInv, QuietIsDone
  <2> QED
    BY <2>1, <2>2, <2>3
<1>8. InHand'
  BY <1>2, <1>3, <1>4, <1>5 DEF StoreInv, InHand, InPass, Sized
<1> QED
  BY <1>6, <1>7, <1>8 DEF StoreInv

\* A scanner that stops or dies leaves the disk as it is and nothing in hand.
LEMMA HostStores ==
    ASSUME StoreInv, Start \/ Stop \/ Crash PROVE StoreInv'
<1>1. TypeOK'
  BY HostType DEF StoreInv, StoredFirst
<1>2. UNCHANGED <<written, quiet, gone, expired, paused, facts>>
  BY DEF Start, Stop, Crash, Gone, directory
<1>3. pc' \in {"idle", "stopped"} /\ (ring' = ring \/ ring' = <<>>)
  BY DEF Start, Stop, Crash, Gone, memory
<1>4. \A g, n : StoredAt(g, n)' <=> StoredAt(g, n)
  BY <1>2 DEF StoredAt
<1>5. \A i \in DOMAIN ring' : i \in DOMAIN ring /\ ring'[i] = ring[i]
  BY <1>3
<1>6. StoredFirst'
  BY <1>1, <1>2, <1>4, <1>5 DEF StoreInv, StoredFirst
<1>7. QuietIsDone' /\ InHand'
  BY <1>2, <1>3 DEF StoreInv, QuietIsDone, InHand, InPass, Sized
<1> QED
  BY <1>6, <1>7 DEF StoreInv

\* A step of the scanner that touches neither the facts nor a file nor the ring.
LEMMA LooksStores ==
    ASSUME StoreInv, TypeOK', InHand', UNCHANGED <<directory, facts, ring>>
    PROVE  StoreInv'
<1>1. \A g, n : StoredAt(g, n)' <=> StoredAt(g, n)
  BY DEF StoredAt
<1> QED
  BY <1>1 DEF StoreInv, StoredFirst, QuietIsDone, directory

\* After the last access to a log nothing is in hand.
LEMMA NextLogHand ==
    ASSUME NextLog, TypeOK, InPass, pc \in PCs \ {"stopped", "idle", "prune"} PROVE InHand'
  BY NextLogPass DEF TypeOK, InPass, InHand, Sized, PCs

\* The listing takes a size that is all of the log, unless CPA paused in it.
LEMMA InfoStores ==
    ASSUME StoreInv, Info, TypeOK' PROVE StoreInv'
<1>1. Current \in Log
  BY CurrentIn DEF StoreInv, StoredFirst, TypeOK, InHand, InPass, Info
<1>2. UNCHANGED <<directory, facts, ring>>
  BY DEF Info, memory
<1>3. CASE NextLog
  <2>1. InHand'
    BY <1>3, NextLogHand DEF Info, StoreInv, StoredFirst, InHand, PCs
  <2> QED
    BY <1>2, <2>1, LooksStores
<1>4. CASE quiet[Current] /\ size' = written[Current] /\ pc' = "stat" /\ UNCHANGED todo
  <2>1. written[Current] \in Size /\ (written[Current] = NumChunks \/ Current \in paused)
    <3>1. written \in [Log -> 0 .. NumChunks]
      BY DEF StoreInv, StoredFirst, TypeOK
    <3>2. written[Current] \in 0 .. NumChunks
      BY <1>1, <3>1
    <3>3. written[Current] > 0 /\ (written[Current] = NumChunks \/ Current \in paused)
      BY <1>1, <1>4 DEF StoreInv, QuietIsDone
    <3> QED
      BY <3>2, <3>3, SizesAssumption DEF Size
  <2>2. Current' = Current /\ paused' = paused
    BY <1>2, <1>4 DEF Current, directory
  <2>3. InHand'
    <3>1. todo # {} /\ todo' = todo
      BY <1>4 DEF Info, StoreInv, InHand, InPass
    <3> QED
      BY <1>4, <2>1, <2>2, <3>1 DEF InHand, InPass, Sized
  <2> QED
    BY <1>2, <2>3, LooksStores
<1> QED
  BY <1>3, <1>4 DEF Info

\* The second look and the reading hand the size on.
LEMMA StatReadStores ==
    ASSUME StoreInv, Stat \/ Read, TypeOK' PROVE StoreInv'
<1>1. UNCHANGED <<directory, facts, ring>>
  BY DEF Stat, Read, memory
<1>2. pc \in {"stat", "read"}
  BY DEF Stat, Read
<1>3. CASE NextLog
  <2>1. InHand'
    BY <1>2, <1>3, NextLogHand DEF StoreInv, StoredFirst, InHand, PCs
  <2> QED
    BY <1>1, <2>1, LooksStores
<1>4. CASE pc' \in {"read", "store"} /\ UNCHANGED <<todo, size>>
  <2>1. Current' = Current /\ paused' = paused
    BY <1>1, <1>4 DEF Current, directory
  <2>2. InHand'
    BY <1>2, <1>4, <2>1 DEF StoreInv, InHand, InPass, Sized
  <2> QED
    BY <1>1, <2>2, LooksStores
<1> QED
  BY <1>3, <1>4 DEF Stat, Read

\* The append reaches the disk before the ring and before the unlink.
LEMMA StoreStores ==
    ASSUME StoreInv, Store, TypeOK' PROVE StoreInv'
<1>1. /\ Current \in Log /\ size \in Size /\ <<Current, size>> \in Log \X Size
      /\ UNCHANGED directory
  BY CurrentIn DEF StoreInv, StoredFirst, TypeOK, InHand, InPass, Sized, Store
<1>2. NextLog => InHand'
  BY NextLogHand DEF Store, StoreInv, StoredFirst, InHand, PCs
<1>3. CASE NextLog /\ UNCHANGED <<facts, memory>>
  BY <1>1, <1>2, <1>3, LooksStores DEF memory
<1>4. CASE append /\ (recordFact \/ ring' = ring)
  <2>1. /\ \A f \in Log : \A n : StoredAt(f, n) => StoredAt(f, n)'
        /\ \A f, n : f = Current /\ n = size => StoredAt(f, n)'
    BY <1>1, <1>4, AppendKeeps DEF StoreInv, StoredFirst, TypeOK
  <2>2. ASSUME NEW i \in DOMAIN ring'
        PROVE  ring'[i][1] \in expired' \/ StoredAt(ring[i][1], ring[i][2])'
    <3>1. ring'[i] = <<Current, size>> \/ \E j \in DOMAIN ring : ring'[i] = ring[j]
      <4>1. CASE recordFact
        BY <1>1, <4>1, RingTakes DEF StoreInv, StoredFirst, TypeOK
      <4>2. CASE ring' = ring
        BY <4>2
      <4> QED
        BY <1>4, <4>1, <4>2
    <3>2. CASE ring'[i] = <<Current, size>>
      BY <2>1, <3>2
    <3>3. ASSUME NEW j \in DOMAIN ring, ring'[i] = ring[j]
          PROVE  ring'[i][1] \in expired' \/ StoredAt(ring[i][1], ring[i][2])'
      <4>1. ring[j] \in Log \X Size
        BY DEF StoreInv, StoredFirst, TypeOK
      <4>2. ring[j][1] \in expired \/ StoredAt(ring[j][1], ring[j][2])
        BY DEF StoreInv, StoredFirst
      <4>3. ASSUME NEW f \in Log, NEW n, f = ring[j][1], n = ring[j][2], StoredAt(f, n)
            PROVE  StoredAt(ring[i][1], ring[i][2])'
        BY <2>1, <3>3, <4>3
      <4> QED
        BY <1>1, <3>3, <4>1, <4>2, <4>3 DEF directory
    <3> QED
      BY <3>1, <3>2, <3>3
  <2>3. StoredFirst'
    <3>1. \A f \in Log \ (expired' \cup paused') : gone'[f] => StoredAt(f, NumChunks)'
      BY <1>1, <2>1 DEF StoreInv, StoredFirst, directory
    <3> QED
      BY <2>2, <3>1 DEF StoredFirst
  <2>4. QuietIsDone'
    BY <1>1 DEF StoreInv, QuietIsDone, directory
  <2>5. InHand'
    <3>1. CASE pc' = "unlink" /\ UNCHANGED <<todo, size>>
      <4>1. Current' = Current /\ paused' = paused
        BY <1>1, <3>1 DEF Current, directory
      <4>2. StoredAt(Current, size)'
        BY <2>1, <3>1, <4>1
      <4> QED
        BY <3>1, <4>1, <4>2 DEF Store, StoreInv, InHand, InPass, Sized
    <3> QED
      BY <1>2, <1>4, <3>1 DEF Store
  <2> QED
    BY <2>3, <2>4, <2>5 DEF StoreInv
<1> QED
  BY <1>3, <1>4 DEF Store, memory, seenSet

\* The log that is unlinked is the one whose fact was stored, and all of it.
LEMMA UnlinkStores ==
    ASSUME StoreInv, Unlink, TypeOK' PROVE StoreInv'
<1>1. /\ Current \in Log /\ StoredAt(Current, size)
      /\ size = NumChunks \/ Current \in paused
  BY CurrentIn DEF StoreInv, StoredFirst, TypeOK, InHand, InPass, Unlink
<1>2. UNCHANGED <<written, quiet, expired, paused, facts, ring>>
  BY DEF Unlink
<1>3. \A g, n : StoredAt(g, n)' <=> StoredAt(g, n)
  BY <1>2 DEF StoredAt
<1>4. \A f \in Log \ {Current} : gone'[f] = gone[f]
  BY DEF Unlink, StoreInv, StoredFirst, TypeOK
<1>5. \A f \in Log \ (expired \cup paused) : gone'[f] => StoredAt(f, NumChunks)
  BY <1>1, <1>4 DEF StoreInv, StoredFirst
<1>6. StoredFirst'
  BY <1>2, <1>3, <1>5 DEF StoreInv, StoredFirst
<1>7. InHand'
  BY NextLogHand DEF Unlink, StoreInv, StoredFirst, InHand, PCs
<1>8. QuietIsDone'
  BY <1>2 DEF StoreInv, QuietIsDone
<1> QED
  BY <1>6, <1>7, <1>8 DEF StoreInv

\* The retention takes the facts of expired days only.
LEMMA PruneStores ==
    ASSUME StoreInv, Prune, TypeOK' PROVE StoreInv'
<1>1. UNCHANGED <<written, quiet, gone, expired, paused, ring>> /\ pc' = "idle"
  BY DEF Prune, directory, memory
<1>2. \A f \in Log \ expired : \A n : StoredAt(f, n) => StoredAt(f, n)'
  <2>1. \A f \in Log \ expired : facts'[f] = facts[f]
    BY DEF Prune
  <2> QED
    BY <2>1 DEF StoredAt
<1>3. \A f \in Log \ (expired \cup paused) : gone[f] => StoredAt(f, NumChunks)'
  BY <1>2 DEF StoreInv, StoredFirst
<1>4. ASSUME NEW i \in DOMAIN ring, ring[i][1] \notin expired
      PROVE  StoredAt(ring[i][1], ring[i][2])'
  <2>1. ring[i] \in Log \X Size
    BY DEF StoreInv, StoredFirst, TypeOK
  <2>2. ring[i][1] \in Log \ expired /\ StoredAt(ring[i][1], ring[i][2])
    BY <1>4, <2>1 DEF StoreInv, StoredFirst
  <2>3. ASSUME NEW f, NEW n, f = ring[i][1], n = ring[i][2]
        PROVE  StoredAt(ring[i][1], ring[i][2])'
    BY <1>1, <1>2, <2>2, <2>3
  <2> QED
    BY <2>3
<1>5. StoredFirst'
  BY <1>1, <1>3, <1>4 DEF StoredFirst
<1> QED
  BY <1>1, <1>5 DEF StoreInv, QuietIsDone, InHand, InPass, Sized

LEMMA ScanStores ==
    ASSUME StoreInv, Scan PROVE StoreInv'
<1>1. TypeOK'
  BY ScanType DEF StoreInv, StoredFirst, InHand
<1>2. CASE List
  <2>1. UNCHANGED <<directory, facts, ring>> /\ InHand'
    BY <1>2 DEF List, memory, InHand, InPass, Sized
  <2> QED
    BY <1>1, <2>1, LooksStores
<1> QED
  BY <1>1, <1>2, InfoStores, StatReadStores, StoreStores, UnlinkStores, PruneStores DEF Scan

LEMMA StoreNext ==
    StoreInv /\ [Next]_vars => StoreInv'
<1> SUFFICES ASSUME StoreInv, [Next]_vars PROVE StoreInv'
  OBVIOUS
<1>1. CASE UNCHANGED vars
  <2>1. UNCHANGED <<directory, facts, ring, pc, todo, size>>
    BY <1>1 DEF vars, memory
  <2>2. TypeOK'
    BY <1>1 DEF vars, directory, memory, seenSet, budgets, StoreInv, StoredFirst, TypeOK
  <2>3. Current' = Current /\ \A g, n : StoredAt(g, n)' <=> StoredAt(g, n)
    BY <2>1 DEF Current, StoredAt
  <2>4. InHand'
    BY <2>1, <2>3 DEF directory, StoreInv, InHand, InPass, Sized
  <2> QED
    BY <2>1, <2>2, <2>4, LooksStores
<1> QED
  BY <1>1, WriterStores, HostStores, ScanStores DEF Next

\* For any number of logs and chunks, any caps, and whatever fails, stops and dies when:
\* a log that was unlinked left the fact of all of it on disk, and the page is served
\* nothing that is not.
THEOREM NoLogLost == Spec => []StoredFirst
<1>1. StoreInv => StoredFirst
  BY DEF StoreInv
<1> QED
  BY <1>1, StoreInit, StoreNext, PTL DEF Spec

-----------------------------------------------------------------------------
(* No fact is stored twice *)

\* The facts of a log are at different sizes.
Distinct == \A f \in Log : \A i, j \in DOMAIN facts[f] : facts[f][i] = facts[f][j] => i = j

\* Every size a fact was stored at is in the seen set, or in hand until the unlink.
AllSeen ==
    \A f \in Log : \A n : StoredAt(f, n) =>
        Seen(<<f, n>>) \/ (pc = "unlink" /\ f = Current /\ n = size)

\* What is read and stored has not been seen.
Fresh == pc \in {"read", "store"} => ~ Seen(<<Current, size>>)

Once == stops + crashes = 0 /\ ~ forgot => Distinct /\ AllSeen /\ Fresh

\* NoFactTwice is not inductive: whether a second append makes a duplicate depends on
\* the seen set, which is written after the append.
OnceInv == StoreInv /\ Once

LEMMA OnceInit ==
    Init => OnceInv
  BY StoreInit DEF Init, OnceInv, Once, Distinct, AllSeen, Fresh, StoredAt

\* A step that leaves facts and seen set alone, and brings no seen log to be read.
LEMMA OnceKept ==
    ASSUME OnceInv, UNCHANGED <<facts, seenSet, stops, crashes>>,
           pc = "unlink" => UNCHANGED <<pc, todo, size>>,
           pc' \in {"read", "store"} =>
               UNCHANGED <<todo, size>> /\ (pc \in {"read", "store"} \/ ~ Seen(<<Current, size>>))
    PROVE  Once'
<1> SUFFICES ASSUME stops + crashes = 0, ~ forgot PROVE (Distinct /\ AllSeen /\ Fresh)'
  BY DEF Once, seenSet
<1>1. Distinct /\ AllSeen /\ Fresh
  BY DEF OnceInv, Once
<1>2. \A k : Seen(k)' <=> Seen(k)
  BY DEF Seen, seenSet
<1>3. \A f, n : StoredAt(f, n)' <=> StoredAt(f, n)
  BY DEF StoredAt
<1>4. pc = "unlink" => pc' = pc /\ Current' = Current /\ size' = size
  BY DEF Current
<1>5. pc' \in {"read", "store"} => Current' = Current /\ size' = size
  BY DEF Current
<1>6. Fresh'
  BY <1>1, <1>2, <1>5 DEF Fresh
<1>7. AllSeen'
  BY <1>1, <1>2, <1>3, <1>4 DEF AllSeen
<1> QED
  BY <1>1, <1>6, <1>7 DEF Distinct

\* A log the scanner is done with is seen at the size it had in hand.
LEMMA OnceMarked ==
    ASSUME OnceInv, UNCHANGED <<facts, stops, crashes>>, NextLog, markSeen(<<Current, size>>),
           pc \in {"read", "unlink"}
    PROVE  Once'
<1> SUFFICES ASSUME stops + crashes = 0, ~ forgot' PROVE (Distinct /\ AllSeen /\ Fresh)'
  BY DEF Once
<1>1. <<Current, size>> \in Log \X Size
  BY CurrentIn DEF OnceInv, StoreInv, StoredFirst, TypeOK, InHand, InPass, Sized
<1>2. ~ forgot /\ \A k : Seen(k)' <=> Seen(k) \/ k = <<Current, size>>
  BY <1>1, MarkSeenKeeps DEF OnceInv, StoreInv, StoredFirst, TypeOK
<1>3. Distinct /\ AllSeen
  BY <1>2 DEF OnceInv, Once
<1>4. \A f, n : StoredAt(f, n)' <=> StoredAt(f, n)
  BY DEF StoredAt
<1>5. pc' \in {"info", "prune"}
  BY DEF NextLog
<1>6. AllSeen'
  BY <1>2, <1>3, <1>4 DEF AllSeen
<1> QED
  BY <1>3, <1>5, <1>6 DEF Distinct, Fresh

\* A fact that is stored has not been seen, so it is a new one.
LEMMA OnceStored ==
    ASSUME OnceInv, Store, append PROVE Once'
<1>1. /\ Current \in Log /\ size \in Size /\ <<Current, size>> \in Log \X Size
      /\ facts \in [Log -> Seq(Size)] /\ UNCHANGED <<stops, crashes>> /\ pc = "store"
  BY CurrentIn DEF OnceInv, StoreInv, StoredFirst, TypeOK, InHand, InPass, Sized, Store
<1> SUFFICES ASSUME stops + crashes = 0, ~ forgot' PROVE (Distinct /\ AllSeen /\ Fresh)'
  BY <1>1 DEF Once
<1>2. /\ ~ forgot /\ (\A k : Seen(k) => Seen(k)')
      /\ \/ pc' = "unlink" /\ UNCHANGED <<todo, size>>
         \/ NextLog /\ \A k : k = <<Current, size>> => Seen(k)'
  <2>1. CASE UNCHANGED facts
    <3>1. facts' # facts
      BY <1>1, AppendStores
    <3> QED
      BY <2>1, <3>1
  <2>2. CASE pc' = "unlink" /\ UNCHANGED <<todo, size, seenSet>>
    BY <2>2 DEF Seen, seenSet
  <2>3. CASE NextLog /\ markSeen(<<Current, size>>)
    <3>1. ~ forgot /\ \A k : Seen(k)' <=> Seen(k) \/ k = <<Current, size>>
      BY <1>1, <2>3, MarkSeenKeeps DEF OnceInv, StoreInv, StoredFirst, TypeOK
    <3> QED
      BY <2>3, <3>1
  <2> QED
    BY <2>1, <2>2, <2>3 DEF Store
<1>3. Distinct /\ AllSeen /\ Fresh
  BY <1>2 DEF OnceInv, Once
<1>4. \A i \in DOMAIN facts[Current] : facts[Current][i] # size
  <2>1. ~ StoredAt(Current, size)
    BY <1>1, <1>3 DEF AllSeen, Fresh
  <2> QED
    BY <2>1 DEF StoredAt
<1>5. Distinct'
  <2>1. ASSUME NEW i \in DOMAIN facts'[Current], NEW j \in DOMAIN facts'[Current],
               facts'[Current][i] = facts'[Current][j]
        PROVE  i = j
    <3>1. CASE i \in DOMAIN facts[Current] /\ j \in DOMAIN facts[Current]
      BY <1>1, <1>3, <2>1, <3>1, AppendStores DEF Distinct
    <3>2. \A k \in DOMAIN facts'[Current] :
              k \in DOMAIN facts[Current] \/ k = Len(facts[Current]) + 1
      BY <1>1, AppendStores
    <3> QED
      BY <1>1, <1>4, <2>1, <3>1, <3>2, AppendStores
  <2>2. \A f \in Log \ {Current} : facts'[f] = facts[f]
    BY <1>1, AppendStores
  <2> QED
    BY <1>3, <2>1, <2>2 DEF Distinct
<1>6. ASSUME NEW f \in Log, NEW n, StoredAt(f, n)', ~ StoredAt(f, n)
      PROVE  f = Current /\ n = size
  <2>1. f = Current
    BY <1>1, <1>6, AppendStores DEF StoredAt
  <2>2. PICK k \in DOMAIN facts'[Current] : facts'[Current][k] = n
    BY <1>6, <2>1 DEF StoredAt
  <2>3. k \notin DOMAIN facts[Current]
    BY <1>1, <1>6, <2>1, <2>2, AppendStores DEF StoredAt
  <2>4. k = Len(facts[Current]) + 1
    BY <1>1, <2>3, AppendStores
  <2> QED
    BY <1>1, <2>1, <2>2, <2>4, AppendStores
<1>7. ASSUME NEW f \in Log, NEW n, StoredAt(f, n)'
      PROVE  Seen(<<f, n>>)' \/ (pc' = "unlink" /\ f = Current' /\ n = size')
  <2>1. CASE StoredAt(f, n)
    BY <1>1, <1>2, <1>3, <2>1 DEF AllSeen
  <2>2. CASE ~ StoredAt(f, n)
    <3>1. UNCHANGED <<todo, size>> => Current' = Current /\ size' = size
      BY DEF Current
    <3> QED
      BY <1>2, <1>6, <1>7, <2>2, <3>1
  <2> QED
    BY <2>1, <2>2
<1>8. pc' \in {"unlink", "info", "prune"}
  BY <1>2 DEF NextLog
<1> QED
  BY <1>5, <1>7, <1>8 DEF AllSeen, Fresh

\* Facts that go with their day leave no duplicate behind.
LEMMA OncePruned ==
    ASSUME OnceInv, Prune PROVE Once'
<1> SUFFICES ASSUME stops + crashes = 0, ~ forgot PROVE (Distinct /\ AllSeen /\ Fresh)'
  BY DEF Prune, Once, memory, seenSet, budgets
<1>1. Distinct /\ AllSeen
  BY DEF OnceInv, Once
<1>2. \A f \in Log : facts'[f] = <<>> \/ facts'[f] = facts[f]
  BY DEF Prune
<1>3. \A k : Seen(k)' <=> Seen(k)
  BY DEF Prune, Seen, memory, seenSet
<1>4. \A f \in Log : \A n : StoredAt(f, n)' => StoredAt(f, n)
  BY <1>2 DEF StoredAt
<1>5. pc = "prune" /\ pc' = "idle"
  BY DEF Prune
<1>6. AllSeen'
  BY <1>1, <1>3, <1>4, <1>5 DEF AllSeen
<1>7. Distinct'
  BY <1>1, <1>2 DEF Distinct
<1> QED
  BY <1>5, <1>6, <1>7 DEF Fresh

LEMMA OnceScan ==
    ASSUME OnceInv, Scan PROVE Once'
<1> USE DEF memory, seenSet, budgets
<1>1. CASE List
  BY <1>1, OnceKept DEF List
<1>2. CASE Info
  BY <1>2, OnceKept DEF Info, NextLog
<1>3. CASE Stat
  BY <1>3, OnceKept DEF Stat, NextLog
<1>4. CASE Read
  BY <1>4, OnceKept, OnceMarked DEF Read, NextLog
<1>5. CASE Store
  <2>1. CASE append
    BY <1>5, <2>1, OnceStored
  <2>2. CASE NextLog /\ UNCHANGED <<facts, memory>>
    BY <1>5, <2>2, OnceKept DEF Store, NextLog
  <2> QED
    BY <1>5, <2>1, <2>2 DEF Store
<1>6. CASE Unlink
  BY <1>6, OnceMarked DEF Unlink
<1>7. CASE Prune
  BY <1>7, OncePruned
<1> QED
  BY <1>1, <1>2, <1>3, <1>4, <1>5, <1>6, <1>7 DEF Scan

LEMMA OnceNext ==
    OnceInv /\ [Next]_vars => OnceInv'
<1> SUFFICES ASSUME OnceInv, [Next]_vars PROVE Once'
  BY StoreNext DEF OnceInv
<1> USE DEF memory, seenSet, budgets
<1>1. ASSUME NEW f \in Log, Append1(f) \/ Settle(f) \/ Expire(f) PROVE Once'
  BY <1>1, OnceKept DEF Append1, Settle, Expire
<1>2. CASE Start
  BY <1>2, OnceKept DEF Start
<1>3. CASE Stop \/ Crash
  <2>1. stops \in Nat /\ crashes \in Nat
    BY DEF OnceInv, StoreInv, StoredFirst, TypeOK
  <2>2. stops' + crashes' # 0
    BY <1>3, <2>1 DEF Stop, Crash
  <2> QED
    BY <2>2 DEF Once
<1>4. CASE UNCHANGED vars
  BY <1>4, OnceKept DEF vars
<1> QED
  BY <1>1, <1>2, <1>3, <1>4, OnceScan DEF Next

\* For any seen set and any failures: a scanner that runs on, has forgotten no key and had
\* no append that failed after its fact was written stores each size of a log once,
\* whether or not the log is kept or could be unlinked.
THEOREM FactsOnce == Spec => []NoFactTwice
<1>1. OnceInv => NoFactTwice
  BY DEF OnceInv, Once, Distinct, NoFactTwice
<1> QED
  BY <1>1, OnceInit, OnceNext, PTL DEF Spec

-----------------------------------------------------------------------------
(* A pass ends *)

\* The steps the log in hand has before it, the steps that all logs of this pass
\* and the prune at its end have.
Ahead == IF pc = "info" THEN 5 ELSE IF pc = "stat" THEN 4 ELSE IF pc = "read" THEN 3
         ELSE IF pc = "store" THEN 2 ELSE 1

StepsLeft ==
    IF pc \in {"stopped", "idle"} THEN 0
    ELSE IF pc = "prune" THEN 1
    ELSE 5 * (Cardinality(todo) - 1) + Ahead + 1

\* Every step of a pass leaves fewer of them, a log that cannot be read, stored or
\* unlinked included, and no write of CPA gives the pass more (ScanOnce, scanFile).
PassAdvances ==
    [][pc \notin {"stopped", "idle"} =>
           StepsLeft' <= StepsLeft /\ (Scan => StepsLeft' < StepsLeft)]_vars

LEMMA TodoCount ==
    ASSUME TypeOK
    PROVE  /\ IsFiniteSet(todo) /\ Cardinality(todo) \in 0 .. NumLogs
           /\ todo # {} => Cardinality(todo) >= 1
<1>1. IsFiniteSet(Log) /\ Cardinality(Log) = NumLogs /\ NumLogs \in Nat
  BY SizesAssumption, FS_Interval DEF Log
<1>2. todo \in SUBSET Log
  BY DEF TypeOK
<1>3. /\ IsFiniteSet(todo) /\ Cardinality(todo) \in Nat /\ Cardinality(todo) <= NumLogs
  BY <1>1, <1>2, FS_Subset, FS_CardinalityType
<1>4. todo # {} => Cardinality(todo) # 0
  BY <1>3, FS_EmptySet
<1> QED
  BY <1>1, <1>3, <1>4

LEMMA StepsBound == TypeOK /\ InPass => StepsLeft \in 0 .. 5 * NumLogs + 1
<1> SUFFICES ASSUME TypeOK, InPass PROVE StepsLeft \in 0 .. 5 * NumLogs + 1
  OBVIOUS
<1>1. /\ Cardinality(todo) \in 0 .. NumLogs /\ NumLogs \in Nat
      /\ todo # {} => Cardinality(todo) >= 1
  BY TodoCount, SizesAssumption
<1>2. Ahead \in 1 .. 5
  BY DEF Ahead
<1>3. pc \in PCs
  BY DEF TypeOK
<1>4. CASE pc \in {"stopped", "idle", "prune"}
  <2>1. StepsLeft \in 0 .. 1
    BY <1>4 DEF StepsLeft
  <2> HIDE DEF StepsLeft
  <2> QED
    BY <1>1, <2>1
<1>5. CASE pc \in {"info", "stat", "read", "store", "unlink"}
  <2>1. todo # {} /\ StepsLeft = 5 * (Cardinality(todo) - 1) + Ahead + 1
    BY <1>5 DEF InPass, StepsLeft
  <2> HIDE DEF StepsLeft, Ahead
  <2> QED
    BY <1>1, <1>2, <2>1
<1> QED
  BY <1>3, <1>4, <1>5 DEF PCs

\* A log that is done with leaves the steps of the logs after it, and the prune.
LEMMA LogLeaves ==
    ASSUME TypeOK, todo # {}, NextLog
    PROVE  StepsLeft' \in Nat /\ StepsLeft' <= 5 * (Cardinality(todo) - 1) + 1
<1>1. /\ IsFiniteSet(todo) /\ Cardinality(todo) \in Nat /\ Cardinality(todo) >= 1
      /\ Current \in todo
  BY TodoCount, CurrentIn DEF TypeOK
<1>2. Cardinality(todo \ {Current}) = Cardinality(todo) - 1
  BY <1>1, FS_RemoveElement
<1>3. CASE todo = {Current}
  <2>1. StepsLeft' = 1
    BY <1>3 DEF NextLog, StepsLeft
  <2> QED
    BY <1>1, <2>1
<1>4. CASE todo # {Current}
  <2>1. todo' = todo \ {Current} /\ pc' = "info"
    BY <1>4 DEF NextLog
  <2>2. StepsLeft' = 5 * (Cardinality(todo') - 1) + 5 + 1
    BY <2>1 DEF StepsLeft, Ahead
  <2>3. Cardinality(todo) - 1 # 0
    <3>1. todo \ {Current} # {} /\ IsFiniteSet(todo \ {Current})
      BY <1>1, <1>4, FS_RemoveElement
    <3> QED
      BY <1>2, <3>1, FS_EmptySet
  <2> QED
    BY <1>1, <1>2, <2>1, <2>2, <2>3
<1> QED
  BY <1>3, <1>4

LEMMA ScanAdvances ==
    ASSUME TypeOK, InPass, Scan, pc # "idle"
    PROVE  StepsLeft' < StepsLeft
<1>1. pc \in {"info", "stat", "read", "store", "unlink", "prune"}
  BY DEF Scan, List, Info, Stat, Read, Store, Unlink, Prune
<1>2. CASE Prune
  BY <1>2 DEF Prune, StepsLeft
<1>3. CASE pc # "prune"
  <2>1. todo # {} /\ Cardinality(todo) \in Nat /\ Cardinality(todo) >= 1
    BY <1>1, <1>3, TodoCount DEF InPass
  <2>2. StepsLeft = 5 * (Cardinality(todo) - 1) + Ahead + 1 /\ Ahead \in 1 .. 5
    BY <1>1, <1>3 DEF StepsLeft, Ahead
  <2>3. CASE NextLog
    <3>1. StepsLeft' \in Nat /\ StepsLeft' <= 5 * (Cardinality(todo) - 1) + 1
      BY <2>1, <2>3, LogLeaves
    <3> HIDE DEF StepsLeft, Ahead
    <3> QED
      BY <2>1, <2>2, <3>1
  <2>4. ASSUME todo' = todo, pc' \in {"stat", "read", "store", "unlink"}, Ahead' = Ahead - 1
        PROVE  StepsLeft' < StepsLeft
    <3>1. StepsLeft' = 5 * (Cardinality(todo) - 1) + Ahead' + 1
      BY <2>4 DEF StepsLeft
    <3> HIDE DEF StepsLeft, Ahead
    <3> QED
      BY <2>1, <2>2, <2>4, <3>1
  <2>5. \/ NextLog
        \/ todo' = todo /\ \/ pc = "info" /\ pc' = "stat"
                           \/ pc = "stat" /\ pc' = "read"
                           \/ pc = "read" /\ pc' = "store"
                           \/ pc = "store" /\ pc' = "unlink"
    BY <1>1, <1>3 DEF Scan, List, Info, Stat, Read, Store, Unlink, Prune
  <2> QED
    BY <2>3, <2>4, <2>5 DEF Ahead
<1> QED
  BY <1>1, <1>2, <1>3 DEF Scan, List, Info, Stat, Read, Store, Unlink

\* What CPA, the clock and the host do gives a pass no more steps.
LEMMA OthersAdd ==
    ASSUME TypeOK, InPass, ~ Scan, [Next]_vars, pc \notin {"stopped", "idle"}
    PROVE  StepsLeft' <= StepsLeft
<1>1. StepsLeft \in Nat
  BY StepsBound, SizesAssumption
<1>2. CASE Crash
  <2>1. StepsLeft' = 0
    BY <1>2 DEF Crash, Gone, StepsLeft
  <2> QED
    BY <1>1, <2>1
<1>3. CASE (\E f \in Log : Append1(f) \/ Settle(f) \/ Expire(f)) \/ UNCHANGED vars
  <2>1. pc' = pc /\ todo' = todo
    BY <1>3 DEF Append1, Settle, Expire, vars
  <2>2. StepsLeft' = StepsLeft
    BY <2>1 DEF StepsLeft, Ahead
  <2> QED
    BY <1>1, <2>2
<1>4. ~ Start /\ ~ Stop
  BY DEF Start, Stop
<1> QED
  BY <1>2, <1>3, <1>4 DEF Next

\* A pass over the directory ends: it takes at most five steps for every log there is,
\* and a prune, whatever cannot be read, stored or unlinked, and however much CPA
\* writes in the meantime.
THEOREM PassesEnd == Spec => [](StepsLeft \in 0 .. 5 * NumLogs + 1) /\ PassAdvances
<1>1. StoreInv => TypeOK /\ InPass
  BY DEF StoreInv, StoredFirst, InHand
<1>2. Spec => [](TypeOK /\ InPass)
  BY <1>1, StoreInit, StoreNext, PTL DEF Spec
<1>3. TypeOK /\ InPass /\ (TypeOK /\ InPass)' /\ [Next]_vars =>
          [pc \notin {"stopped", "idle"} =>
              StepsLeft' <= StepsLeft /\ (Scan => StepsLeft' < StepsLeft)]_vars
  <2> SUFFICES ASSUME TypeOK, InPass, (TypeOK /\ InPass)', [Next]_vars,
                      pc \notin {"stopped", "idle"}
               PROVE  StepsLeft' <= StepsLeft /\ (Scan => StepsLeft' < StepsLeft)
    OBVIOUS
  <2>1. StepsLeft \in Nat
    BY StepsBound, SizesAssumption
  <2>2. StepsLeft' \in Nat
    <3>1. (StepsLeft \in 0 .. 5 * NumLogs + 1)'
      BY StepsBound, PTL
    <3> QED
      BY <3>1, SizesAssumption
  <2>3. Scan => StepsLeft' < StepsLeft
    BY ScanAdvances
  <2>4. ~ Scan => StepsLeft' <= StepsLeft
    BY OthersAdd
  <2> HIDE DEF StepsLeft
  <2> QED
    BY <2>1, <2>2, <2>3, <2>4
<1> QED
  BY <1>2, <1>3, StepsBound, PTL DEF Spec, PassAdvances
================================================================================
