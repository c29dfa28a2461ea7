------------------------------ MODULE ReportProofs ------------------------------
(***************************************************************************)
(* What TLAPS proves of LogParser and Report, for any lines, requests,     *)
(* names and bounds: types, that the fact the parser makes is the one the  *)
(* lines say, and what becomes of it on the page and in the guard.  The    *)
(* parser keeps one answer and the best so far; the invariant FactInv says *)
(* which answers of the log these are.                                     *)
(***************************************************************************)
EXTENDS Report, FiniteSetTheorems, WellFoundedInduction, TLAPS

-----------------------------------------------------------------------------
(* The types of the parser *)

\* A set of lines that is not empty has a last one.
LEMMA HasLast ==
    ASSUME NEW n \in Nat, NEW S \in SUBSET (1 .. n), S # {}
    PROVE  \E m \in S : \A j \in S : j <= m
<1> DEFINE R == OpToRel(<, Nat)
           T == {n - i : i \in S}
<1>1. IsWellFoundedOn(R, Nat)
  BY NatLessThanWellFounded
<1>2. S \subseteq Int /\ \A i \in S : n - i \in Nat
  OBVIOUS
<1>3. T \subseteq Nat
  BY <1>2
<1>4. T # {}
  <2>1. PICK i \in S : TRUE
    OBVIOUS
  <2>2. n - i \in T
    BY <2>1
  <2> QED
    BY <2>2
<1> HIDE DEF R
<1>5. PICK x \in T : \A y \in T : ~ (<<y, x>> \in R)
  BY <1>1, <1>3, <1>4, WFMin
<1>6. PICK m \in S : x = n - m
  BY <1>5
<1>7. ASSUME NEW j \in S PROVE j <= m
  <2>1. n - j \in T
    OBVIOUS
  <2>2. ~ (n - j < x)
    BY <2>1, <1>5, <1>3 DEF OpToRel, R
  <2> QED
    BY <2>2, <1>6, <1>2
<1> QED
  BY <1>7

\* Last is that one.
LEMMA LastIn ==
    ASSUME NEW n \in Nat, NEW S \in SUBSET (1 .. n), S # {}
    PROVE  Last(S) \in S /\ \A j \in S : j <= Last(S)
  BY HasLast DEF Last

\* A member nothing comes after is the last.
LEMMA LastIs ==
    ASSUME NEW S, S \subseteq Int, NEW m \in S, \A j \in S : j <= m
    PROVE  Last(S) = m
<1>1. \A k \in S : (\A j \in S : j <= k) => k = m
  OBVIOUS
<1> QED
  BY <1>1 DEF Last

\* The block a frame names is a block.
LEMMA BlockType ==
    ASSUME NEW frame \in Frame PROVE BlockIn(frame) \in Named(Blocks)
<1> DEFINE with == {i \in DOMAIN frame.choices : BlockOf(frame.choices[i]) # Nothing}
           n == Len(frame.choices)
<1>1. frame.choices \in Seq(Choice)
  BY DEF Frame
<1>2. n \in Nat /\ with \subseteq 1 .. n
  BY <1>1
<1>3. ASSUME NEW i \in with PROVE BlockOf(frame.choices[i]) \in Blocks
  <2>1. frame.choices[i] \in Choice
    BY <1>1, <1>2
  <2>2. frame.choices[i].delta \in Named(Blocks) /\ frame.choices[i].message \in Named(Blocks)
    BY <2>1 DEF Choice
  <2>3. BlockOf(frame.choices[i]) \in Named(Blocks)
    BY <2>2 DEF BlockOf
  <2> QED
    BY <2>3 DEF Named
<1>4. CASE with = {}
  BY <1>4 DEF BlockIn, Named
<1>5. CASE with # {}
  <2>1. \E i \in with : \A j \in with : j <= i
    BY <1>2, <1>5, HasLast
  <2>2. (CHOOSE i \in with : \A j \in with : j <= i) \in with
    BY <2>1
  <2> QED
    BY <2>2, <1>3, <1>5 DEF BlockIn, Named
<1> QED
  BY <1>4, <1>5

\* An answer stays one with a frame more.
LEMMA AnswerType ==
    ASSUME NEW answer \in Answer, NEW frame \in Frame
    PROVE  WithFrame(answer, frame) \in Answer
<1>1. BlockIn(frame) \in Named(Blocks)
  BY BlockType
<1>2. \A counter \in {"prompt", "completion"} :
         Updated(counter, frame, answer[counter]) \in Nat
  BY DEF Updated, Frame, Named, Answer
<1> QED
  BY <1>1, <1>2 DEF WithFrame, Answer, Named

\* An answer that has just been opened is one, and not nothing.
LEMMA EmptyType == EmptyAnswer \in Answer /\ EmptyAnswer # Nothing
<1>1. EmptyBlock \in Blocks /\ Nothing \notin Answer
  BY ParserAssumption
<1>2. EmptyAnswer \in Answer
  BY <1>1 DEF EmptyAnswer, Answer
<1> QED
  BY <1>1, <1>2

\* Before the first line everything has its type.
LEMMA StartTypes == AtStart => ParserTypeOK
<1> SUFFICES ASSUME AtStart PROVE ParserTypeOK
  OBVIOUS
<1>1. log \in Seq(Lines) /\ section \in Sections
  BY DEF AtStart, Sections
<1>2. (section = "response") = (response # Nothing)
  BY DEF AtStart
<1> QED
  BY <1>1, <1>2 DEF AtStart, ParserTypeOK, Named

\* A section header closes the answer that was open.
LEMMA OpenTypes ==
    ASSUME ParserTypeOK, NEW kind \in Sections, Open(kind)
    PROVE  /\ section' \in Sections
           /\ response' \in Named(Answer) /\ best' \in Named(Answer)
           /\ lastFrames' \in Nat /\ attempts' \in Nat /\ hadError' \in BOOLEAN
           /\ (section' = "response") = (response' # Nothing)
<1>1. EmptyAnswer \in Answer /\ EmptyAnswer # Nothing
  BY EmptyType
<1>2. best' \in Named(Answer) /\ lastFrames' \in Nat
  BY DEF ParserTypeOK, Open, BestClosed, FramesClosed, Named, Answer
<1>3. attempts' \in Nat /\ hadError' \in BOOLEAN
  BY DEF ParserTypeOK, Open
<1>4. response' = IF kind = "response" THEN EmptyAnswer ELSE Nothing
  BY DEF Open
<1>5. section' = kind
  BY DEF Open
<1> QED
  BY <1>1, <1>2, <1>3, <1>4, <1>5 DEF Named

\* Every line keeps the types: no reader writes to an answer that is not open.
LEMMA ReadTypes ==
    ASSUME ParserTypeOK, NEW l \in Lines, Read(l)
    PROVE  ParserTypeOK'
<1>1. l \in Line
  BY ParserAssumption
<1>2. log' \in Seq(Lines)
  BY DEF ParserTypeOK, Read
<1>3. CASE SectionLine(l)
  <2>1. l.opens \in Sections
    BY <1>1, <1>3 DEF Line, Named, SectionLine
  <2>2. Open(l.opens) /\ UNCHANGED <<stamp, session>>
    BY <1>3 DEF SectionLine
  <2> QED
    BY <1>2, <2>1, <2>2, OpenTypes DEF ParserTypeOK
<1>4. CASE InfoLine(l)
  BY <1>1, <1>2, <1>4 DEF InfoLine, ParserTypeOK, Line, Named
<1>5. CASE HeaderLine(l)
  BY <1>1, <1>2, <1>5 DEF HeaderLine, ParserTypeOK, Line, Named
<1>6. CASE FrameLine(l)
  <2>1. l.frame \in Frame
    BY <1>1, <1>6 DEF FrameLine, Line, Named
  <2>2. response \in Answer
    BY <1>6 DEF FrameLine, ParserTypeOK, Named
  <2>3. response' \in Answer
    BY <1>6, <2>1, <2>2, AnswerType DEF FrameLine
  <2>4. response' # Nothing
    BY <2>3, ParserAssumption
  <2> QED
    BY <1>2, <1>6, <2>3, <2>4 DEF FrameLine, ParserTypeOK, Named
<1>7. CASE Unread(l)
  BY <1>2, <1>7 DEF Unread, ParserTypeOK, parser
<1> QED
  BY <1>3, <1>4, <1>5, <1>6, <1>7 DEF Read

\* Whatever the log, the parser's variables keep their types, and an answer is open
\* exactly in a response section, so that frameLine finds one (parse.go:236-270).
THEOREM ParserTypes == ParserSpec => []ParserTypeOK
<1>1. ParserTypeOK /\ [\E l \in Lines : Read(l)]_pvars => ParserTypeOK'
  <2>1. ParserTypeOK /\ UNCHANGED pvars => ParserTypeOK'
    BY DEF ParserTypeOK, pvars, parser
  <2> QED
    BY <2>1, ReadTypes
<1> QED
  BY <1>1, StartTypes, PTL DEF ParserSpec

-----------------------------------------------------------------------------
(* One line more *)

Heads(l)  == l.fits /\ l.opens # Nothing
Frames(l) == ~ Heads(l) /\ l.fits /\ l.frame # Nothing

\* Head h is the one whose section the log is in.
Stands(h) == h \in At /\ IsHead(h) /\ \A j \in (h + 1) .. Len(log) : ~ IsHead(j)

\* What appending a line does to the log.
LEMMA Grown ==
    ASSUME log \in Seq(Lines), NEW l \in Lines, log' = Append(log, l),
           NEW m, m = Len(log) + 1
    PROVE  /\ m \in Nat /\ Len(log) \in Nat /\ Len(log') = m
           /\ At' = At \cup {m} /\ At \subseteq Nat /\ m \notin At
           /\ \A i \in At : log'[i] = log[i]
           /\ log'[m] = l
  BY DEF At

\* The headers among the lines stay, and the new line is one or is not.
LEMMA GrownHeads ==
    ASSUME log \in Seq(Lines), NEW l \in Lines, log' = Append(log, l),
           NEW m, m = Len(log) + 1
    PROVE  /\ \A i \in At : IsHead(i)' <=> IsHead(i)
           /\ IsHead(m)' <=> Heads(l)
  BY Grown DEF IsHead, Heads

\* Old lines stay under their headers; a new one that is no header comes under the
\* one that stands.
LEMMA GrownUnder ==
    ASSUME log \in Seq(Lines), NEW l \in Lines, log' = Append(log, l),
           NEW m, m = Len(log) + 1
    PROVE  /\ \A h, i \in At : Under(h, i)' <=> Under(h, i)
           /\ \A h \in At : Under(h, m)' <=> (Stands(h) /\ ~ Heads(l))
           /\ \A i \in At' : ~ Under(m, i)'
<1>1. m = Len(log) + 1 /\ Len(log) \in Nat /\ At = 1 .. Len(log) /\ At' = 1 .. m
  BY Grown DEF At
<1>2. (\A i \in At : IsHead(i)' <=> IsHead(i)) /\ (IsHead(m)' <=> Heads(l))
  BY GrownHeads
<1>3. ASSUME NEW h \in At, NEW i \in At PROVE Under(h, i)' <=> Under(h, i)
  BY <1>1, <1>2 DEF Under
<1>4. ASSUME NEW h \in At PROVE Under(h, m)' <=> (Stands(h) /\ ~ Heads(l))
  <2>1. h < m /\ (h + 1) .. m = ((h + 1) .. Len(log)) \cup {m} /\ (h + 1) .. Len(log) \subseteq At
    BY <1>1
  <2> QED
    BY <1>1, <1>2, <2>1 DEF Under, Stands
<1>5. ASSUME NEW i \in At' PROVE ~ Under(m, i)'
  BY <1>1 DEF Under
<1> QED
  BY <1>3, <1>4, <1>5

\* A header stands until the next.
LEMMA GrownStands ==
    ASSUME log \in Seq(Lines), NEW l \in Lines, log' = Append(log, l),
           NEW m, m = Len(log) + 1
    PROVE  /\ \A h \in At : Stands(h)' <=> (Stands(h) /\ ~ Heads(l))
           /\ Stands(m)' <=> Heads(l)
<1>1. m = Len(log) + 1 /\ Len(log) \in Nat /\ At = 1 .. Len(log) /\ At' = 1 .. m /\ Len(log') = m
  BY Grown DEF At
<1>2. (\A i \in At : IsHead(i)' <=> IsHead(i)) /\ (IsHead(m)' <=> Heads(l))
  BY GrownHeads
<1>3. ASSUME NEW h \in At PROVE Stands(h)' <=> (Stands(h) /\ ~ Heads(l))
  <2>1. (h + 1) .. m = ((h + 1) .. Len(log)) \cup {m} /\ (h + 1) .. Len(log) \subseteq At
    BY <1>1
  <2> QED
    BY <1>1, <1>2, <2>1 DEF Stands
<1>4. Stands(m)' <=> Heads(l)
  <2>1. (m + 1) .. m = {} /\ m \in At'
    BY <1>1
  <2> QED
    BY <1>1, <1>2, <2>1 DEF Stands
<1> QED
  BY <1>3, <1>4

\* Only one header stands.
LEMMA OneStands ==
    ASSUME log \in Seq(Lines), NEW h, NEW g, Stands(h), Stands(g)
    PROVE  h = g
<1>1. h \in 1 .. Len(log) /\ g \in 1 .. Len(log) /\ Len(log) \in Nat
  BY DEF Stands, At
<1>2. ~ (h < g) /\ ~ (g < h)
  BY <1>1 DEF Stands
<1> QED
  BY <1>1, <1>2

\* A frame belongs to the answer that stands, and no other answer gets one.
LEMMA GrownFrames ==
    ASSUME log \in Seq(Lines), NEW l \in Lines, log' = Append(log, l),
           NEW m, m = Len(log) + 1, NEW h \in At
    PROVE  /\ ~ (Stands(h) /\ Frames(l)) => FramesOf(h)' = FramesOf(h) /\ BlocksOf(h)' = BlocksOf(h)
           /\ Stands(h) /\ Frames(l) =>
                /\ FramesOf(h)' = FramesOf(h) \cup {m}
                /\ BlocksOf(h)' = BlocksOf(h) \cup
                      (IF BlockIn(l.frame) # Nothing THEN {m} ELSE {})
<1>1. /\ At' = At \cup {m} /\ m \notin At
      /\ \A i \in At : log'[i] = log[i]
      /\ log'[m] = l
  BY Grown
<1>2. /\ \A i \in At : Under(h, i)' <=> Under(h, i)
      /\ Under(h, m)' <=> (Stands(h) /\ ~ Heads(l))
  BY GrownUnder
<1>3. FramesOf(h)' = FramesOf(h) \cup (IF Stands(h) /\ Frames(l) THEN {m} ELSE {})
  <2>1. /\ \A i : i \in FramesOf(h)' <=> /\ i \in At' /\ Under(h, i)'
                                        /\ log'[i].fits /\ log'[i].frame # Nothing
        /\ \A i : i \in FramesOf(h) <=> /\ i \in At /\ Under(h, i)
                                       /\ log[i].fits /\ log[i].frame # Nothing
    BY DEF FramesOf
  <2>2. \A i \in At : i \in FramesOf(h)' <=> i \in FramesOf(h)
    BY <1>1, <1>2, <2>1
  <2>3. m \in FramesOf(h)' <=> Stands(h) /\ Frames(l)
    BY <1>1, <1>2, <2>1 DEF Frames
  <2> QED
    BY <1>1, <2>1, <2>2, <2>3
<1>4. FramesOf(h) \subseteq At
  BY DEF FramesOf
<1> QED
  BY <1>1, <1>3, <1>4 DEF BlocksOf

\* A new header has nothing under it.
LEMMA NewFrames ==
    ASSUME log \in Seq(Lines), NEW l \in Lines, log' = Append(log, l),
           NEW m, m = Len(log) + 1
    PROVE  FramesOf(m)' = {} /\ BlocksOf(m)' = {}
<1>1. FramesOf(m)' = {}
  BY GrownUnder DEF FramesOf
<1> QED
  BY <1>1 DEF BlocksOf

\* Frames and blocks are lines of the log.
LEMMA FramesAreLines ==
    ASSUME NEW h PROVE FramesOf(h) \in SUBSET At /\ BlocksOf(h) \in SUBSET FramesOf(h)
  BY DEF FramesOf, BlocksOf

-----------------------------------------------------------------------------
(* The answers of the log *)

\* What the answer under head h says.
AnswerOf(h) ==
    [frames     |-> Cardinality(FramesOf(h)),
     block      |-> IF BlocksOf(h) = {} THEN EmptyBlock
                    ELSE BlockIn(log[Last(BlocksOf(h))].frame),
     prompt     |-> LastNamed(h, "prompt"),
     completion |-> LastNamed(h, "completion"),
     found      |-> BlocksOf(h) # {}]

Naming(h, counter) == {i \in FramesOf(h) : log[i].frame[counter] # Nothing}

\* The answers whose section is over.
Closed       == {h \in Answers : ~ Stands(h)}
ClosedServed == {h \in Closed : BlocksOf(h) # {}}

\* A set of lines is finite, and has a last one if it has any.
LEMMA LinesAreFinite ==
    ASSUME log \in Seq(Lines), NEW S \in SUBSET At
    PROVE  /\ IsFiniteSet(S) /\ Cardinality(S) \in Nat
           /\ S # {} => Last(S) \in S
<1>1. Len(log) \in Nat /\ At = 1 .. Len(log)
  BY DEF At
<1>2. IsFiniteSet(At)
  BY <1>1, FS_Interval
<1> QED
  BY <1>1, <1>2, FS_Subset, FS_CardinalityType, LastIn

\* LastNamed, by the frames that name the counter.
LEMMA NamedBy ==
    ASSUME NEW h, NEW counter
    PROVE  LastNamed(h, counter) = IF Naming(h, counter) = {} THEN 0
                                   ELSE log[Last(Naming(h, counter))].frame[counter]
  BY DEF LastNamed, Naming

\* What an answer says has its type.
LEMMA SaidType ==
    ASSUME log \in Seq(Lines), NEW h PROVE AnswerOf(h) \in Answer
<1>1. FramesOf(h) \in SUBSET At /\ BlocksOf(h) \in SUBSET FramesOf(h)
  BY FramesAreLines
<1>2. ASSUME NEW i \in FramesOf(h) PROVE log[i].frame \in Frame
  <2>1. log[i] \in Lines /\ log[i].frame # Nothing
    BY <1>1, <1>2 DEF At, FramesOf
  <2>2. log[i] \in Line
    BY <2>1, ParserAssumption
  <2> QED
    BY <2>1, <2>2 DEF Line, Named
<1>3. Cardinality(FramesOf(h)) \in Nat
  BY <1>1, LinesAreFinite
<1>4. BlocksOf(h) # {} => BlockIn(log[Last(BlocksOf(h))].frame) \in Blocks
  <2>1. SUFFICES ASSUME BlocksOf(h) # {} PROVE BlockIn(log[Last(BlocksOf(h))].frame) \in Blocks
    OBVIOUS
  <2>2. Last(BlocksOf(h)) \in BlocksOf(h)
    BY <1>1, <2>1, LinesAreFinite
  <2>3. log[Last(BlocksOf(h))].frame \in Frame /\ BlockIn(log[Last(BlocksOf(h))].frame) # Nothing
    BY <1>1, <1>2, <2>2 DEF BlocksOf
  <2>4. BlockIn(log[Last(BlocksOf(h))].frame) \in Named(Blocks)
    BY <2>3, BlockType
  <2> QED
    BY <2>3, <2>4 DEF Named
<1>5. ASSUME NEW counter \in {"prompt", "completion"} PROVE LastNamed(h, counter) \in Nat
  <2>1. Naming(h, counter) \in SUBSET At /\ Naming(h, counter) \subseteq FramesOf(h)
    BY <1>1 DEF Naming
  <2>2. CASE Naming(h, counter) = {}
    BY <2>2, NamedBy
  <2>3. CASE Naming(h, counter) # {}
    <3> DEFINE i == Last(Naming(h, counter))
    <3>1. i \in Naming(h, counter)
      BY <2>1, <2>3, LinesAreFinite
    <3>2. log[i].frame \in Frame /\ log[i].frame[counter] # Nothing
      BY <2>1, <3>1, <1>2 DEF Naming
    <3>3. log[i].frame[counter] \in Nat
      BY <3>2 DEF Frame, Named
    <3> QED
      BY <2>3, <3>3, NamedBy
  <2> QED
    BY <2>2, <2>3
<1>6. EmptyBlock \in Blocks
  BY ParserAssumption
<1> QED
  BY <1>3, <1>4, <1>5, <1>6 DEF AnswerOf, Answer

\* A response header is a new answer, and any header closes those before.
LEMMA GrownAnswers ==
    ASSUME log \in Seq(Lines), NEW l \in Lines, log' = Append(log, l),
           NEW m, m = Len(log) + 1
    PROVE  /\ Answers' = Answers \cup (IF Heads(l) /\ l.opens = "response" THEN {m} ELSE {})
           /\ Closed' = IF Heads(l) THEN Answers ELSE Closed
<1>1. /\ At' = At \cup {m} /\ m \notin At
      /\ \A i \in At : log'[i] = log[i]
      /\ log'[m] = l
  BY Grown
<1>2. Answers' = Answers \cup (IF Heads(l) /\ l.opens = "response" THEN {m} ELSE {})
  BY <1>1, GrownHeads DEF Answers
<1>3. Answers \subseteq At
  BY DEF Answers
<1>4. (\A h \in At : Stands(h)' <=> (Stands(h) /\ ~ Heads(l))) /\ (Stands(m)' <=> Heads(l))
  BY GrownStands
<1> QED
  BY <1>2, <1>3, <1>4 DEF Closed

\* A line that is no frame of an answer changes nothing in what it says.
LEMMA SameAnswer ==
    ASSUME log \in Seq(Lines), NEW l \in Lines, log' = Append(log, l),
           NEW h \in At, ~ (Stands(h) /\ Frames(l))
    PROVE  AnswerOf(h)' = AnswerOf(h)
<1> DEFINE m == Len(log) + 1
<1>1. FramesOf(h)' = FramesOf(h) /\ BlocksOf(h)' = BlocksOf(h)
  BY GrownFrames
<1>2. FramesOf(h) \in SUBSET At /\ BlocksOf(h) \in SUBSET At
  BY FramesAreLines
<1>3. \A i \in At : log'[i] = log[i]
  BY Grown
<1>4. BlocksOf(h) # {} => Last(BlocksOf(h)) \in At
  BY <1>2, LinesAreFinite
<1>5. ASSUME NEW counter PROVE LastNamed(h, counter)' = LastNamed(h, counter)
  <2>1. Naming(h, counter)' = Naming(h, counter) /\ Naming(h, counter) \in SUBSET At
    BY <1>1, <1>2, <1>3 DEF Naming
  <2>2. Naming(h, counter) # {} => Last(Naming(h, counter)) \in At
    BY <2>1, LinesAreFinite
  <2>3. LastNamed(h, counter)' = IF Naming(h, counter)' = {} THEN 0
                                 ELSE log'[Last(Naming(h, counter)')].frame[counter]
    BY DEF LastNamed, Naming
  <2> QED
    BY <2>1, <2>2, <2>3, <1>3, NamedBy
<1> QED
  BY <1>1, <1>3, <1>4, <1>5 DEF AnswerOf

\* A new answer says nothing.
LEMMA NewAnswer ==
    ASSUME log \in Seq(Lines), NEW l \in Lines, log' = Append(log, l),
           NEW m, m = Len(log) + 1
    PROVE  AnswerOf(m)' = EmptyAnswer
<1>1. FramesOf(m)' = {} /\ BlocksOf(m)' = {}
  BY NewFrames
<1>2. \A counter : LastNamed(m, counter)' = 0
  BY <1>1 DEF LastNamed
<1> QED
  BY <1>1, <1>2, FS_EmptySet DEF AnswerOf, EmptyAnswer

\* A frame of the answer that is being read is one more in what it says.
LEMMA GrownAnswer ==
    ASSUME log \in Seq(Lines), NEW l \in Lines, log' = Append(log, l),
           NEW h \in At, Stands(h), Frames(l)
    PROVE  AnswerOf(h)' = WithFrame(AnswerOf(h), l.frame)
<1>1. PICK m : m = Len(log) + 1
  OBVIOUS
<1>2. /\ m \in Nat /\ m \notin At /\ At \subseteq Int /\ \A i \in At : i < m
      /\ \A i \in At : log'[i] = log[i]
      /\ log'[m] = l
  BY <1>1, Grown DEF At
<1>3. /\ FramesOf(h)' = FramesOf(h) \cup {m}
      /\ BlocksOf(h)' = BlocksOf(h) \cup (IF BlockIn(l.frame) # Nothing THEN {m} ELSE {})
  BY <1>1, GrownFrames
<1>4. FramesOf(h) \in SUBSET At /\ BlocksOf(h) \in SUBSET At
  BY FramesAreLines
<1>5. ASSUME NEW S \in SUBSET At PROVE Last(S \cup {m}) = m
  <2>1. S \cup {m} \subseteq Int /\ \A j \in S \cup {m} : j <= m
    BY <1>2
  <2> HIDE DEF At
  <2>2. ASSUME NEW T, T = S \cup {m} PROVE Last(T) = m
    BY <2>1, <2>2, LastIs
  <2> QED
    BY <2>2
<1>6. Cardinality(FramesOf(h))' = Cardinality(FramesOf(h)) + 1
  BY <1>2, <1>3, <1>4, LinesAreFinite, FS_AddElement
<1>7. AnswerOf(h)'.block = WithFrame(AnswerOf(h), l.frame).block
  <2>1. CASE BlockIn(l.frame) = Nothing
    <3>1. BlocksOf(h)' = BlocksOf(h) /\ (BlocksOf(h) # {} => Last(BlocksOf(h)) \in At)
      BY <1>3, <1>4, <2>1, LinesAreFinite
    <3> QED
      BY <2>1, <3>1, <1>2 DEF AnswerOf, WithFrame
  <2>2. CASE BlockIn(l.frame) # Nothing
    <3>1. BlocksOf(h)' # {} /\ Last(BlocksOf(h)') = m
      BY <1>3, <1>4, <1>5, <2>2
    <3> QED
      BY <2>2, <3>1, <1>2 DEF AnswerOf, WithFrame
  <2> QED
    BY <2>1, <2>2
<1>8. ASSUME NEW counter
      PROVE  LastNamed(h, counter)' = Updated(counter, l.frame, LastNamed(h, counter))
  <2>1. Naming(h, counter)' = Naming(h, counter)
                                \cup (IF l.frame[counter] # Nothing THEN {m} ELSE {})
    BY <1>2, <1>3, <1>4 DEF Naming
  <2>2. Naming(h, counter) \in SUBSET At
    BY <1>4 DEF Naming
  <2>3. LastNamed(h, counter)' = IF Naming(h, counter)' = {} THEN 0
                                 ELSE log'[Last(Naming(h, counter)')].frame[counter]
    BY DEF LastNamed, Naming
  <2>4. CASE l.frame[counter] = Nothing
    <3>1. Naming(h, counter) # {} => Last(Naming(h, counter)) \in At
      BY <2>2, LinesAreFinite
    <3> QED
      BY <2>1, <2>3, <2>4, <3>1, <1>2, NamedBy DEF Updated
  <2>5. CASE l.frame[counter] # Nothing
    <3>1. Naming(h, counter)' # {} /\ Last(Naming(h, counter)') = m
      BY <2>1, <2>2, <2>5, <1>5
    <3> QED
      BY <2>3, <2>5, <3>1, <1>2 DEF Updated
  <2> QED
    BY <2>4, <2>5
<1>9. AnswerOf(h)'.found = WithFrame(AnswerOf(h), l.frame).found
  BY <1>3 DEF AnswerOf, WithFrame
<1> QED
  BY <1>6, <1>7, <1>8, <1>9 DEF AnswerOf, WithFrame

-----------------------------------------------------------------------------
(* The sections of the log *)

\* The lines that say something in a section of their kind.
Saying(kind, field) ==
    {i \in At : /\ log[i].fits /\ log[i][field] # Nothing
               /\ \E h \in At : Under(h, i) /\ log[h].opens = kind}

\* LastOf, by the lines that say it.
LEMMA SaidBy ==
    ASSUME NEW kind, NEW field
    PROVE  LastOf(kind, field) = IF Saying(kind, field) = {} THEN Nothing
                                 ELSE log[Last(Saying(kind, field))][field]
  BY DEF LastOf, Saying

\* The parser's section is the one the log is in.
InSection ==
    \A kind \in Sections \ {"other"} :
        (section = kind) <=> \E h \in At : Stands(h) /\ log[h].opens = kind

\* A line says something in the section the parser is in, and nowhere else.
LEMMA GrownSaid ==
    ASSUME log \in Seq(Lines), NEW l \in Lines, log' = Append(log, l), InSection,
           NEW kind \in Sections \ {"other"}, NEW field
    PROVE  LastOf(kind, field)' =
             IF ~ Heads(l) /\ l.fits /\ l[field] # Nothing /\ section = kind
             THEN l[field] ELSE LastOf(kind, field)
<1> DEFINE says == ~ Heads(l) /\ l.fits /\ l[field] # Nothing /\ section = kind
<1>1. PICK m : m = Len(log) + 1
  OBVIOUS
<1>2. /\ m \in Nat /\ m \notin At /\ At \subseteq Int /\ \A i \in At : i < m
      /\ At' = At \cup {m}
      /\ \A i \in At : log'[i] = log[i]
      /\ log'[m] = l
  BY <1>1, Grown DEF At
<1>3. /\ \A h, i \in At : Under(h, i)' <=> Under(h, i)
      /\ \A h \in At : Under(h, m)' <=> (Stands(h) /\ ~ Heads(l))
      /\ \A i \in At' : ~ Under(m, i)'
  BY <1>1, GrownUnder
<1>4. Saying(kind, field)' = Saying(kind, field) \cup (IF says THEN {m} ELSE {})
  <2>1. ASSUME NEW i \in At PROVE i \in Saying(kind, field)' <=> i \in Saying(kind, field)
    BY <1>2, <1>3 DEF Saying
  <2>2. m \in Saying(kind, field)' <=> says
    <3>1. m \in Saying(kind, field)' <=>
             /\ m \in At' /\ log'[m].fits /\ log'[m][field] # Nothing
             /\ \E h \in At' : Under(h, m)' /\ log'[h].opens = kind
      BY DEF Saying
    <3>2. (\E h \in At' : Under(h, m)' /\ log'[h].opens = kind)
             <=> \E h \in At : Stands(h) /\ ~ Heads(l) /\ log[h].opens = kind
      BY <1>2, <1>3
    <3>3. section = kind <=> \E h \in At : Stands(h) /\ log[h].opens = kind
      BY DEF InSection
    <3> QED
      BY <1>2, <3>1, <3>2, <3>3
  <2>3. Saying(kind, field)' \subseteq At' /\ Saying(kind, field) \subseteq At
    BY DEF Saying
  <2> QED
    BY <2>1, <2>2, <2>3, <1>2
<1>5. Saying(kind, field) \in SUBSET At
  BY DEF Saying
<1>6. LastOf(kind, field)' = IF Saying(kind, field)' = {} THEN Nothing
                             ELSE log'[Last(Saying(kind, field)')][field]
  BY DEF LastOf, Saying
<1>7. CASE says
  <2>1. Last(Saying(kind, field) \cup {m}) = m
    <3>1. ASSUME NEW T, T = Saying(kind, field) \cup {m} PROVE Last(T) = m
      <4>1. ASSUME NEW j \in T PROVE j \in Int /\ j <= m
        <5>1. CASE j = m
          BY <5>1, <1>2
        <5>2. CASE j \in At
          <6>1. j \in Int /\ j < m
            BY <5>2, <1>2
          <6> QED
            BY <6>1, <1>2
        <5> QED
          BY <5>1, <5>2, <3>1, <1>5
      <4>2. T \subseteq Int /\ m \in T /\ \A j \in T : j <= m
        BY <4>1, <3>1
      <4> QED
        BY <4>2, LastIs
    <3> QED
      BY <3>1
  <2> QED
    BY <1>2, <1>4, <1>6, <1>7, <2>1
<1>8. CASE ~ says
  <2>1. Saying(kind, field) # {} => Last(Saying(kind, field)) \in At
    BY <1>5, LinesAreFinite
  <2> QED
    BY <1>2, <1>4, <1>6, <1>8, <2>1, SaidBy
<1> QED
  BY <1>7, <1>8

-----------------------------------------------------------------------------
(* The fact *)

\* What the parser remembers is what the lines say.
FactInv ==
    /\ InSection
    /\ stamp = LastOf("info", "stamp") /\ session = LastOf("headers", "session")
    /\ \A h \in Answers : Stands(h) => response = AnswerOf(h)
    /\ best = IF ClosedServed = {} THEN Nothing ELSE AnswerOf(Last(ClosedServed))
    /\ lastFrames = IF Closed = {} THEN 0 ELSE Cardinality(FramesOf(Last(Closed)))

\* The parser has an answer open if the log has.
LEMMA StandingAnswer ==
    ASSUME ParserTypeOK, FactInv
    PROVE  (response # Nothing) <=> \E h \in Answers : Stands(h)
<1>1. (section = "response") <=> \E h \in At : Stands(h) /\ log[h].opens = "response"
  BY DEF FactInv, InSection, Sections
<1> QED
  BY <1>1 DEF ParserTypeOK, Answers, Stands

\* An answer that is being read is the last of all.
LEMMA StandingIsLast ==
    ASSUME log \in Seq(Lines), NEW h \in Answers, Stands(h)
    PROVE  Answers = Closed \cup {h} /\ \A g \in Answers : g <= h
<1>1. Answers \subseteq 1 .. Len(log) /\ Len(log) \in Nat /\ \A g \in Answers : IsHead(g)
  BY DEF Answers, At
<1>2. ASSUME NEW g \in Answers, h < g PROVE FALSE
  <2>1. g \in (h + 1) .. Len(log)
    BY <1>1, <1>2
  <2> QED
    BY <2>1, <1>1 DEF Stands
<1>3. \A g \in Answers : Stands(g) => g = h
  BY OneStands
<1>4. Answers = Closed \cup {h}
  BY <1>3 DEF Closed
<1>5. \A g \in Answers : g \in Int
  BY <1>1
<1>6. \A g \in Answers : g <= h
  BY <1>2, <1>5
<1> QED
  BY <1>4, <1>6

\* What closing the section makes of the answers: the last of those that had a
\* block, and the frames of the last.
LEMMA ClosingAll ==
    ASSUME ParserTypeOK, FactInv
    PROVE  /\ BestClosed = IF Served = {} THEN Nothing ELSE AnswerOf(Last(Served))
           /\ FramesClosed = IF Answers = {} THEN 0 ELSE Cardinality(FramesOf(Last(Answers)))
<1>1. log \in Seq(Lines) /\ Answers \subseteq Int /\ Served = {h \in Answers : BlocksOf(h) # {}}
  BY DEF ParserTypeOK, Answers, Served, At
<1>2. CASE response = Nothing
  <2>1. Closed = Answers /\ ClosedServed = Served
    BY <1>2, StandingAnswer DEF Closed, ClosedServed, Served
  <2> QED
    BY <1>2, <2>1 DEF BestClosed, FramesClosed, FactInv
<1>3. CASE response # Nothing
  <2>1. PICK h \in Answers : Stands(h)
    BY <1>3, StandingAnswer
  <2>2. response = AnswerOf(h)
    BY <2>1 DEF FactInv
  <2>3. Answers = Closed \cup {h} /\ \A g \in Answers : g <= h
    BY <1>1, <2>1, StandingIsLast
  <2>4. Last(Answers) = h
    BY <1>1, <2>3, LastIs
  <2>5. FramesClosed = Cardinality(FramesOf(Last(Answers)))
    BY <1>3, <2>2, <2>4 DEF FramesClosed, AnswerOf
  <2>6. CASE BlocksOf(h) # {}
    <3>1. h \in Served /\ Served \subseteq Int /\ \A g \in Served : g <= h
      BY <1>1, <2>3, <2>6
    <3>2. Last(Served) = h
      BY <3>1, LastIs
    <3> QED
      BY <1>3, <2>2, <2>5, <2>6, <3>1, <3>2 DEF BestClosed, AnswerOf
  <2>7. CASE BlocksOf(h) = {}
    <3>1. ClosedServed = Served
      BY <1>1, <2>1, <2>3, <2>7 DEF ClosedServed, Closed
    <3> QED
      BY <1>3, <2>2, <2>5, <2>7, <3>1 DEF BestClosed, AnswerOf, FactInv
  <2> QED
    BY <2>6, <2>7
<1> QED
  BY <1>2, <1>3

\* FactInv says more than the property: with the answers closed, the fact is theirs.
LEMMA FactIsTheLogs ==
    ASSUME ParserTypeOK, FactInv PROVE FactOfTheLog
<1>1. /\ BestClosed = IF Served = {} THEN Nothing ELSE AnswerOf(Last(Served))
      /\ FramesClosed = IF Answers = {} THEN 0 ELSE Cardinality(FramesOf(Last(Answers)))
  BY ClosingAll
<1>2. Finish.stamp = stamp /\ Finish.session = session
  BY DEF Finish
<1>3. KeysOfTheirSections
  BY <1>2 DEF FactInv, KeysOfTheirSections
<1>4. CASE Served = {}
  <2>1. BestClosed = Nothing
    BY <1>1, <1>4
  <2>2. /\ Finish.block = EmptyBlock /\ Finish.frames = FramesClosed
        /\ Finish.prompt = 0 /\ Finish.completion = 0
    BY <2>1 DEF Finish, EmptyAnswer
  <2> QED
    BY <1>1, <1>3, <1>4, <2>2 DEF FactOfTheLog, ChannelOfLastAnswer, CountersOfThatAnswer
<1>5. CASE Served # {}
  <2> DEFINE h == Last(Served)
  <2>1. BestClosed = AnswerOf(h)
    BY <1>1, <1>5
  <2>2. h \in Served /\ Answers # {}
    <3>1. log \in Seq(Lines) /\ Served \in SUBSET At
      BY DEF ParserTypeOK, Served, Answers
    <3>2. h \in Served
      BY <1>5, <3>1, LinesAreFinite
    <3> QED
      BY <3>2 DEF Served
  <2>3. BlocksOf(h) # {}
    BY <2>2 DEF Served
  <2> HIDE DEF h
  <2>4. AnswerOf(h) # Nothing
    BY SaidType, ParserAssumption DEF ParserTypeOK
  <2>5. /\ Finish.block = AnswerOf(h).block /\ Finish.frames = AnswerOf(h).frames
        /\ Finish.prompt = AnswerOf(h).prompt /\ Finish.completion = AnswerOf(h).completion
    BY <2>1, <2>4 DEF Finish
  <2>6. /\ Finish.block = BlockIn(log[Last(BlocksOf(h))].frame)
        /\ Finish.frames = Cardinality(FramesOf(h))
        /\ Finish.prompt = LastNamed(h, "prompt") /\ Finish.completion = LastNamed(h, "completion")
    BY <2>3, <2>5 DEF AnswerOf
  <2> QED
    BY <1>3, <1>5, <2>2, <2>6 DEF FactOfTheLog, ChannelOfLastAnswer, CountersOfThatAnswer, h
<1> QED
  BY <1>4, <1>5

-----------------------------------------------------------------------------
(* FactInv is inductive *)

\* Without a line there is nothing to say, and the parser remembers nothing.
LEMMA StartFact == AtStart => FactInv
<1> SUFFICES ASSUME AtStart PROVE FactInv
  OBVIOUS
<1>1. At = {}
  BY DEF AtStart, At
<1>2. Answers = {} /\ Closed = {} /\ ClosedServed = {}
  BY <1>1 DEF Answers, Closed, ClosedServed
<1>3. \A kind, field : LastOf(kind, field) = Nothing
  BY <1>1 DEF LastOf
<1>4. InSection
  BY <1>1 DEF InSection, AtStart
<1> QED
  BY <1>2, <1>3, <1>4 DEF FactInv, AtStart

\* A section header.
LEMMA HeadKeeps ==
    ASSUME ParserTypeOK, FactInv, NEW l \in Lines, Read(l), Heads(l)
    PROVE  FactInv'
<1>1. PICK m : m = Len(log) + 1
  OBVIOUS
<1>2. log \in Seq(Lines) /\ log' = Append(log, l)
  BY DEF ParserTypeOK, Read
<1>3. Open(l.opens) /\ UNCHANGED <<stamp, session>>
  BY DEF Read, Heads, SectionLine, InfoLine, HeaderLine, FrameLine, Unread
<1>4. /\ At' = At \cup {m} /\ m \notin At
      /\ \A i \in At : log'[i] = log[i]
      /\ log'[m] = l
  BY <1>1, <1>2, Grown
<1>5. (\A h \in At : ~ Stands(h)') /\ Stands(m)'
  BY <1>1, <1>2, GrownStands
<1>6. /\ Answers' = Answers \cup (IF l.opens = "response" THEN {m} ELSE {})
      /\ Closed' = Answers
  BY <1>1, <1>2, GrownAnswers
<1>7. Answers \subseteq At /\ Served \subseteq Answers
  BY DEF Answers, Served
<1>8. \A h \in At : /\ AnswerOf(h)' = AnswerOf(h)
                    /\ FramesOf(h)' = FramesOf(h) /\ BlocksOf(h)' = BlocksOf(h)
  BY <1>1, <1>2, SameAnswer, GrownFrames DEF Frames
<1>9. ClosedServed' = Served
  BY <1>6, <1>7, <1>8 DEF ClosedServed, Served
<1>10. InSection'
  BY <1>3, <1>4, <1>5 DEF InSection, Open
<1>11. stamp' = LastOf("info", "stamp")' /\ session' = LastOf("headers", "session")'
  <2>1. "info" \in Sections \ {"other"} /\ "headers" \in Sections \ {"other"}
    BY DEF Sections
  <2>2. \A kind \in Sections \ {"other"} : \A field : LastOf(kind, field)' = LastOf(kind, field)
    BY <1>2, GrownSaid DEF FactInv
  <2> QED
    BY <1>3, <2>1, <2>2 DEF FactInv
<1>12. ASSUME NEW h \in Answers', Stands(h)' PROVE response' = AnswerOf(h)'
  <2>1. h = m /\ l.opens = "response"
    BY <1>5, <1>6, <1>7, <1>12
  <2>2. AnswerOf(h)' = EmptyAnswer
    BY <1>1, <1>2, <2>1, NewAnswer
  <2> QED
    BY <1>3, <2>1, <2>2 DEF Open
<1>13. best' = IF ClosedServed' = {} THEN Nothing ELSE AnswerOf(Last(ClosedServed))'
  <2>1. best' = IF Served = {} THEN Nothing ELSE AnswerOf(Last(Served))
    BY <1>3, ClosingAll DEF Open
  <2>2. CASE Served = {}
    BY <1>9, <2>1, <2>2
  <2>3. CASE Served # {}
    <3>1. PICK h : h = Last(Served)
      OBVIOUS
    <3>2. h \in At
      BY <1>2, <1>7, <2>3, <3>1, LinesAreFinite
    <3>3. Last(ClosedServed)' = h
      BY <1>9, <3>1
    <3>4. AnswerOf(Last(ClosedServed))' = AnswerOf(h)'
      BY <3>3
    <3> QED
      BY <1>8, <1>9, <2>1, <2>3, <3>1, <3>2, <3>4
  <2> QED
    BY <2>2, <2>3
<1>14. lastFrames' = IF Closed' = {} THEN 0 ELSE Cardinality(FramesOf(Last(Closed)))'
  <2>1. lastFrames' = IF Answers = {} THEN 0 ELSE Cardinality(FramesOf(Last(Answers)))
    BY <1>3, ClosingAll DEF Open
  <2>2. CASE Answers = {}
    BY <1>6, <2>1, <2>2
  <2>3. CASE Answers # {}
    <3>1. PICK h : h = Last(Answers)
      OBVIOUS
    <3>2. h \in At
      BY <1>2, <1>7, <2>3, <3>1, LinesAreFinite
    <3>3. Last(Closed)' = h
      BY <1>6, <3>1
    <3>4. Cardinality(FramesOf(Last(Closed)))' = Cardinality(FramesOf(h)')
      BY <3>3
    <3> QED
      BY <1>6, <1>8, <2>1, <2>3, <3>1, <3>2, <3>4
  <2> QED
    BY <2>2, <2>3
<1> QED
  BY <1>10, <1>11, <1>12, <1>13, <1>14 DEF FactInv

\* Any other line.
LEMMA LineKeeps ==
    ASSUME ParserTypeOK, FactInv, NEW l \in Lines, Read(l), ~ Heads(l)
    PROVE  FactInv'
<1>1. PICK m : m = Len(log) + 1
  OBVIOUS
<1>2. log \in Seq(Lines) /\ log' = Append(log, l)
  BY DEF ParserTypeOK, Read
<1>3. /\ section' = section /\ best' = best /\ lastFrames' = lastFrames
      /\ stamp' = IF l.fits /\ l.stamp # Nothing /\ section = "info" THEN l.stamp ELSE stamp
      /\ session' = IF l.fits /\ l.session # Nothing /\ section = "headers"
                    THEN l.session ELSE session
      /\ response' = IF Frames(l) /\ section = "response" THEN WithFrame(response, l.frame)
                     ELSE response
  BY DEF Read, Heads, Frames, SectionLine, InfoLine, HeaderLine, FrameLine, Unread, parser
<1>4. /\ At' = At \cup {m} /\ m \notin At
      /\ \A i \in At : log'[i] = log[i]
      /\ log'[m] = l
  BY <1>1, <1>2, Grown
<1>5. (\A h \in At : Stands(h)' <=> Stands(h)) /\ ~ Stands(m)'
  BY <1>1, <1>2, GrownStands
<1>6. Answers' = Answers /\ Closed' = Closed
  BY <1>1, <1>2, GrownAnswers
<1>7. Answers \subseteq At /\ Closed \subseteq At /\ ClosedServed \subseteq Closed
  BY DEF Answers, Closed, ClosedServed
<1>8. \A h \in Closed : /\ AnswerOf(h)' = AnswerOf(h)
                        /\ FramesOf(h)' = FramesOf(h) /\ BlocksOf(h)' = BlocksOf(h)
  BY <1>1, <1>2, <1>7, SameAnswer, GrownFrames DEF Closed
<1>9. ClosedServed' = ClosedServed
  BY <1>6, <1>7, <1>8 DEF ClosedServed
<1>10. InSection'
  BY <1>3, <1>4, <1>5 DEF InSection, FactInv
<1>11. stamp' = LastOf("info", "stamp")' /\ session' = LastOf("headers", "session")'
  <2>1. "info" \in Sections \ {"other"} /\ "headers" \in Sections \ {"other"}
    BY DEF Sections
  <2>2. LastOf("info", "stamp")' = IF l.fits /\ l["stamp"] # Nothing /\ section = "info"
                                   THEN l["stamp"] ELSE LastOf("info", "stamp")
    BY <1>2, <2>1, GrownSaid DEF FactInv
  <2>3. LastOf("headers", "session")' = IF l.fits /\ l["session"] # Nothing /\ section = "headers"
                                        THEN l["session"] ELSE LastOf("headers", "session")
    BY <1>2, <2>1, GrownSaid DEF FactInv
  <2> QED
    BY <1>3, <2>2, <2>3 DEF FactInv
<1>12. ASSUME NEW h \in Answers', Stands(h)' PROVE response' = AnswerOf(h)'
  <2>1. h \in Answers /\ h \in At /\ Stands(h)
    BY <1>5, <1>6, <1>7, <1>12
  <2>2. response = AnswerOf(h)
    BY <2>1 DEF FactInv
  <2>3. section = "response"
    <3>1. response # Nothing
      BY <2>1, StandingAnswer
    <3> QED
      BY <3>1 DEF ParserTypeOK
  <2>4. CASE Frames(l)
    BY <1>2, <1>3, <2>1, <2>2, <2>3, <2>4, GrownAnswer
  <2>5. CASE ~ Frames(l)
    BY <1>2, <1>3, <2>1, <2>2, <2>5, SameAnswer
  <2> QED
    BY <2>4, <2>5
<1>13. best' = IF ClosedServed' = {} THEN Nothing ELSE AnswerOf(Last(ClosedServed))'
  <2>1. best' = IF ClosedServed = {} THEN Nothing ELSE AnswerOf(Last(ClosedServed))
    BY <1>3 DEF FactInv
  <2>2. CASE ClosedServed = {}
    BY <1>9, <2>1, <2>2
  <2>3. CASE ClosedServed # {}
    <3>1. PICK h : h = Last(ClosedServed)
      OBVIOUS
    <3>2. h \in Closed
      <4>1. ClosedServed \in SUBSET At
        BY <1>7
      <4> QED
        BY <1>2, <1>7, <2>3, <3>1, <4>1, LinesAreFinite
    <3>3. Last(ClosedServed)' = h
      BY <1>9, <3>1
    <3>4. AnswerOf(Last(ClosedServed))' = AnswerOf(h)'
      BY <3>3
    <3> QED
      BY <1>8, <1>9, <2>1, <2>3, <3>1, <3>2, <3>4
  <2> QED
    BY <2>2, <2>3
<1>14. lastFrames' = IF Closed' = {} THEN 0 ELSE Cardinality(FramesOf(Last(Closed)))'
  <2>1. lastFrames' = IF Closed = {} THEN 0 ELSE Cardinality(FramesOf(Last(Closed)))
    BY <1>3 DEF FactInv
  <2>2. CASE Closed = {}
    BY <1>6, <2>1, <2>2
  <2>3. CASE Closed # {}
    <3>1. PICK h : h = Last(Closed)
      OBVIOUS
    <3>2. h \in Closed
      BY <1>2, <1>7, <2>3, <3>1, LinesAreFinite
    <3>3. Last(Closed)' = h
      BY <1>6, <3>1
    <3>4. Cardinality(FramesOf(Last(Closed)))' = Cardinality(FramesOf(h)')
      BY <3>3
    <3> QED
      BY <1>6, <1>8, <2>1, <2>3, <3>1, <3>2, <3>4
  <2> QED
    BY <2>2, <2>3
<1> QED
  BY <1>10, <1>11, <1>12, <1>13, <1>14 DEF FactInv

\* FactInv is about the parser's variables and the log only.
LEMMA NothingKeeps ==
    ASSUME FactInv, UNCHANGED pvars PROVE FactInv'
<1>1. UNCHANGED <<section, response, best, lastFrames, stamp, session, log>>
  BY DEF pvars, parser
<1>2. At' = At /\ \A h : IsHead(h)' <=> IsHead(h)
  BY <1>1 DEF At, IsHead
<1>3. \A h, i : Under(h, i)' <=> Under(h, i)
  BY <1>2 DEF Under
<1>4. \A h : Stands(h)' <=> Stands(h)
  BY <1>1, <1>2 DEF Stands
<1>5. \A h : FramesOf(h)' = FramesOf(h)
  BY <1>1, <1>2, <1>3 DEF FramesOf
<1>6. \A h : BlocksOf(h)' = BlocksOf(h)
  BY <1>1, <1>5 DEF BlocksOf
<1>7. Answers' = Answers /\ Closed' = Closed
  BY <1>1, <1>2, <1>4 DEF Answers, Closed
<1>8. ClosedServed' = ClosedServed
  BY <1>6, <1>7 DEF ClosedServed
<1>9. \A h, counter : LastNamed(h, counter)' = LastNamed(h, counter)
  BY <1>1, <1>5 DEF LastNamed
<1>10. \A h : AnswerOf(h)' = AnswerOf(h)
  BY <1>1, <1>5, <1>6, <1>9 DEF AnswerOf
<1>11. \A kind, field : LastOf(kind, field)' = LastOf(kind, field)
  BY <1>1, <1>2, <1>3 DEF LastOf
<1>12. InSection'
  BY <1>1, <1>2, <1>4 DEF FactInv, InSection
<1>13. AnswerOf(Last(ClosedServed))' = AnswerOf(Last(ClosedServed))
  <2>1. ASSUME NEW h, h = Last(ClosedServed) PROVE AnswerOf(Last(ClosedServed))' = AnswerOf(h)'
    BY <1>8, <2>1
  <2> QED
    BY <1>10, <2>1
<1>14. FramesOf(Last(Closed))' = FramesOf(Last(Closed))
  <2>1. ASSUME NEW h, h = Last(Closed) PROVE FramesOf(Last(Closed))' = FramesOf(h)'
    BY <1>7, <2>1
  <2> QED
    BY <1>5, <2>1
<1> QED
  BY <1>1, <1>4, <1>7, <1>8, <1>10, <1>11, <1>12, <1>13, <1>14 DEF FactInv

\* For any log, of any lines and any length, and wherever it ends, the fact the parser
\* returns is what the lines say: channel and counters of the last answer that was
\* served, session and time of their own sections (parse.go:154-308).
THEOREM FactIsSaid == ParserSpec => []FactOfTheLog
<1>1. ParserTypeOK /\ FactInv /\ [\E l \in Lines : Read(l)]_pvars => FactInv'
  <2>1. ParserTypeOK /\ FactInv /\ (\E l \in Lines : Read(l)) => FactInv'
    BY HeadKeeps, LineKeeps
  <2>2. FactInv /\ UNCHANGED pvars => FactInv'
    BY NothingKeeps
  <2> QED
    BY <2>1, <2>2
<1> QED
  BY <1>1, ParserTypes, StartFact, FactIsTheLogs, PTL DEF ParserSpec

ViewType == [known : SUBSET Requests, joined : SUBSET Requests,
             channel : [Requests -> Named(Names \cup {Unknown})]]

\* A stored record and a fact stay as they are.
Kept(old, new) == \A r \in Requests : old[r] # Nothing => new[r] = old[r]

-----------------------------------------------------------------------------
(* The types of the report *)

\* The initial states have the types.
LEMMA StartReports == Init => TypeOK
<1> SUFFICES ASSUME Init PROVE TypeOK
  OBVIOUS
<1>1. ParserTypeOK
  BY StartTypes DEF Init
<1>2. clock \in Window .. (Window + MaxTime)
  BY ReportAssumption DEF Init
<1>3. views \in [View -> ViewType]
  BY DEF Init, Said, ViewType, Named
<1> QED
  BY <1>1, <1>2, <1>3 DEF Init, TypeOK, Named, ViewType

\* What the parser has read is a block, whatever the log.
LEMMA ReadBlock ==
    ASSUME ParserTypeOK PROVE Finish.block \in Blocks
<1>1. BestClosed \in Named(Answer)
  BY DEF BestClosed, ParserTypeOK, Named
<1>2. EmptyAnswer.block \in Blocks
  BY ParserAssumption DEF EmptyAnswer
<1> QED
  BY <1>1, <1>2 DEF Finish, Named, Answer

\* What the clock can be.
LEMMA ClockType ==
    ASSUME TypeOK
    PROVE  /\ clock \in Nat /\ clock >= Window /\ clock - 1 \in Nat
           /\ Window \in Nat /\ MaxTime \in Nat
<1>1. Window \in Nat \ {0} /\ MaxTime \in Nat
  BY ReportAssumption
<1> QED
  BY <1>1 DEF TypeOK

\* The channel a reader sees is a name or none.
LEMMA SeenType ==
    ASSUME TypeOK, NEW r \in Requests, stored[r] # Nothing
    PROVE  /\ Seen(r).final \in Names \cup {Unknown}
           /\ Decode(r).final \in Names \cup {Unknown}
           /\ GatewayChannel(Seen(r)) \in Names \cup {Unknown}
<1>1. stored[r] \in Record
  BY DEF TypeOK, Named
<1>2. Credential \in Names
  BY ReportAssumption
<1>5. Decode(r).final \in Names \cup {Unknown}
  BY <1>1, <1>2 DEF Decode, Record
<1>3. CASE Joined(r)
  <2>1. fact[r] \in Routing
    BY <1>3, ReportAssumption DEF Joined, TypeOK, Named
  <2>2. /\ Seen(r).final \in Names \cup {Unknown}
        /\ GatewayChannel(Seen(r)) \in Names \cup {Unknown}
    BY <1>1, <1>3, <2>1 DEF Seen, Decode, Record, Routing, GatewayChannel
  <2> QED
    BY <1>5, <2>2
<1>4. CASE ~ Joined(r)
  <2>1. GatewayChannel(Seen(r)) \in Names \cup {Unknown}
    BY <1>1, <1>2, <1>4 DEF Seen, Decode, Record, GatewayChannel
  <2> QED
    BY <1>4, <1>5, <2>1 DEF Seen
<1> QED
  BY <1>3, <1>4

\* Whatever a reader gets was stored within the window.
LEMMA FetchedIsRecent ==
    ASSUME NEW got \in Fetched
    PROVE  /\ got.records \subseteq Recent /\ got.failed \in BOOLEAN
           /\ \A r \in got.records : r \in Requests /\ stored[r] # Nothing
<1>1. \A S : S \subseteq Recent => \A r \in S : r \in Requests /\ stored[r] # Nothing
  BY DEF Recent
<1>2. CASE got \in {[records |-> S, failed |-> FALSE] : S \in {Recent, {}}}
  <2>1. PICK S \in {Recent, {}} : got = [records |-> S, failed |-> FALSE]
    BY <1>2
  <2>2. got.records \subseteq Recent /\ got.failed = FALSE
    BY <2>1
  <2> QED
    BY <1>1, <2>2
<1>3. CASE got \in {[records |-> {r \in Recent : stored[r].at < day}, failed |-> TRUE] : day \in Days}
  <2>1. PICK day \in Days :
          got = [records |-> {r \in Recent : stored[r].at < day}, failed |-> TRUE]
    BY <1>3
  <2>2. got.records \subseteq Recent /\ got.failed = TRUE
    BY <2>1
  <2> QED
    BY <1>1, <2>2
<1> QED
  BY <1>2, <1>3 DEF Fetched

\* A step that leaves the parser alone leaves its types.
LEMMA ParserStays ==
    ASSUME ParserTypeOK, UNCHANGED pvars PROVE ParserTypeOK'
  BY DEF ParserTypeOK, pvars, parser

\* Between two logs the parser is as at the start.
LEMMA LogStarts ==
    ASSUME LogEnds PROVE AtStart'
  BY DEF LogEnds, AtStart

\* Every step leaves the types, the parser's by the lemmas of its own.
LEMMA ReportTypes ==
    ASSUME TypeOK, [Next]_vars PROVE TypeOK'
<1>1. CASE UNCHANGED vars
  <2>1. UNCHANGED pvars /\ UNCHANGED <<clock, stored, parsed, fact, opened, views>>
    BY <1>1 DEF vars, rvars
  <2> QED
    BY <2>1, ParserStays DEF TypeOK
<1>2. CASE ReadLine
  <2>1. (\E l \in Lines : Read(l)) /\ UNCHANGED rvars
    BY <1>2 DEF ReadLine
  <2>2. ParserTypeOK'
    BY <2>1, ReadTypes DEF TypeOK
  <2> QED
    BY <2>1, <2>2 DEF TypeOK, rvars
<1>3. CASE LogEnds
  <2>1. ParserTypeOK'
    <3>1. AtStart'
      BY <1>3, LogStarts
    <3> QED
      BY <3>1, StartTypes, PTL
  <2>2. parsed' \in Named(Blocks)
    BY <1>3, ReadBlock DEF LogEnds, TypeOK, Named
  <2> QED
    BY <1>3, <2>1, <2>2 DEF LogEnds, TypeOK
<1>4. ASSUME NEW r \in Requests, Lands(r) PROVE TypeOK'
  BY <1>4, ParserStays DEF Lands, TypeOK, Named
<1>5. ASSUME NEW r \in Requests, Records(r) PROVE TypeOK'
  <2>1. PICK at \in {clock - 1, clock}, credential \in {Credential, Unknown}, legacy \in BOOLEAN :
          /\ legacy => credential = Credential
          /\ stored' = [stored EXCEPT ![r] =
               [at |-> at, legacy |-> legacy, gateway |-> Unknown,
                credential |-> IF legacy THEN Unknown ELSE credential,
                final      |-> IF legacy THEN credential ELSE Unknown,
                resolved   |-> IF legacy THEN credential ELSE Unknown]]
    BY <1>5 DEF Records
  <2>2. at \in Nat
    BY ClockType
  <2>3. stored' \in [Requests -> Named(Record)]
    BY <2>1, <2>2 DEF TypeOK, Record, Named
  <2> QED
    BY <1>5, <2>3, ParserStays DEF Records, TypeOK
<1>6. CASE SummaryOpens
  BY <1>6, ClockType, ParserStays DEF SummaryOpens, TypeOK, Named
<1>7. CASE SummaryReads
  <2>1. views' \in [View -> ViewType]
    <3>1. PICK got \in Fetched :
            views' = [views EXCEPT !["page"] =
                        Said([r \in got.records |-> GatewayChannel(Seen(r))],
                             got.records, got.records)]
      BY <1>7 DEF SummaryReads
    <3>2. \A r \in got.records : GatewayChannel(Seen(r)) \in Names \cup {Unknown}
      BY FetchedIsRecent, SeenType
    <3>3. Said([r \in got.records |-> GatewayChannel(Seen(r))], got.records, got.records) \in ViewType
      BY <3>2, FetchedIsRecent DEF Said, ViewType, Named
    <3> QED
      BY <3>1, <3>3 DEF TypeOK, ViewType
  <2> QED
    BY <1>7, <2>1, ParserStays DEF SummaryReads, TypeOK, Named, ViewType
<1>8. CASE GuardReads
  <2>1. views' \in [View -> ViewType]
    <3>1. PICK got \in Fetched :
            views' = [views EXCEPT !["guard"] =
                         Said(Samples(got), Sampled(got), LookedUp(got))]
      BY <1>8 DEF GuardReads
    <3>2. \A r \in Sampled(got) : Samples(got)[r] \in Names \cup {Unknown}
      BY FetchedIsRecent, SeenType DEF Samples, Sampled, ChannelRecord
    <3>3. Said(Samples(got), Sampled(got), LookedUp(got)) \in ViewType
      BY <3>2, FetchedIsRecent DEF Said, ViewType, Named, Sampled, LookedUp
    <3> QED
      BY <3>1, <3>3 DEF TypeOK, ViewType
  <2> QED
    BY <1>8, <2>1, ParserStays DEF GuardReads, TypeOK, ViewType
<1>9. CASE Tick
  <2>1. clock' \in Window .. (Window + MaxTime)
    BY <1>9, ClockType DEF Tick
  <2> QED
    BY <1>9, <2>1, ParserStays DEF Tick, TypeOK
<1> QED
  BY <1>1, <1>2, <1>3, <1>4, <1>5, <1>6, <1>7, <1>8, <1>9 DEF Next

-----------------------------------------------------------------------------
(* What a reader can see *)

\* No record of this build has a channel of its own.
RecordsInv ==
    \A r \in Requests : stored[r] # Nothing =>
        Decode(r).final = Unknown /\ Decode(r).resolved = Unknown /\ Decode(r).gateway = Unknown

\* The channel the page shows for a request whose fact is there.
Shown(block) == IF block.final # Unknown THEN block.final
                ELSE IF HasChannel(block) THEN block.resolved ELSE Unknown

\* With its fact a record shows the fact's channel, without it none: an old line's
\* credential is never a channel.
LEMMA SeenIs ==
    ASSUME TypeOK, RecordsInv, NEW r \in Requests, stored[r] # Nothing
    PROVE  /\ Seen(r).final = IF fact[r] # Nothing THEN fact[r].final ELSE Unknown
           /\ Seen(r).gateway = Seen(r).final
           /\ GatewayChannel(Seen(r)) = IF fact[r] # Nothing THEN Shown(fact[r]) ELSE Unknown
<1>1. stored[r] \in Record
  BY DEF TypeOK, Named
<1>2. Decode(r).final = Unknown /\ Decode(r).resolved = Unknown /\ Decode(r).gateway = Unknown
  BY DEF RecordsInv
<1>3. CASE Joined(r)
  <2>1. Decode(r) \in Record
    BY <1>1 DEF Decode, Record
  <2>2. /\ Seen(r).final = fact[r].final /\ Seen(r).gateway = fact[r].final
        /\ Seen(r).resolved = fact[r].resolved
    BY <1>3, <2>1 DEF Seen, Record
  <2> QED
    BY <1>3, <2>2 DEF Joined, GatewayChannel, Shown
<1>4. CASE fact[r] # Nothing /\ ~ Joined(r)
  BY <1>2, <1>4 DEF Seen, Joined, HasChannel, GatewayChannel, Shown
<1>5. CASE fact[r] = Nothing
  BY <1>2, <1>5 DEF Seen, Joined, GatewayChannel
<1> QED
  BY <1>3, <1>4, <1>5

-----------------------------------------------------------------------------
(* The page and the guard *)

\* What the page counted was stored, what it counted with a channel had its fact,
\* and its rows are as OffIsMeasured says.
PageInv ==
    page # Nothing =>
        /\ page.off \subseteq page.resolved
        /\ \A r \in Counted : r \in Requests /\ stored[r] # Nothing
        /\ \A r \in page.resolved : fact[r] # Nothing
        /\ \A r \in page.off :
             \/ \E n \in Names \ {Baseline} : r \in page.rows[n]
             \/ fact[r].final = Unknown
        /\ \A r \in Counted \ page.off, n \in Names \ {Baseline} : r \notin page.rows[n]

\* What a reader said of a request is what its fact says, if it had one and used it, and
\* none else.
ViewsInv ==
    \A r \in Requests :
        /\ \A v \in View :
             /\ r \in views[v].known => fact[r] # Nothing
             /\ r \notin views[v].known => views[v].channel[r] \in {Unknown, Nothing}
        /\ r \in views["page"].known => views["page"].channel[r] \in {Shown(fact[r]), Nothing}
        /\ r \in views["guard"].known =>
             \/ views["guard"].channel[r] \in {fact[r].final, Nothing}
             \/ r \notin views["guard"].joined /\ views["guard"].channel[r] = Unknown

ReportInv == TypeOK /\ RecordsInv /\ PageInv /\ ViewsInv

\* ReportInv holds before anything is stored.
LEMMA StartInv == Init => ReportInv
<1> SUFFICES ASSUME Init PROVE ReportInv
  OBVIOUS
<1>1. TypeOK
  BY StartReports
<1>2. \A r \in Requests : stored[r] = Nothing
  BY DEF Init
<1>3. page = Nothing
  BY DEF Init
<1>4. ViewsInv
  BY <1>2 DEF Init, ViewsInv, Said, View
<1> QED
  BY <1>1, <1>2, <1>3, <1>4 DEF ReportInv, RecordsInv, PageInv

\* A step that renders nothing leaves what was rendered true, for records and facts
\* stay as they are.
LEMMA RenderedStays ==
    ASSUME ReportInv, UNCHANGED <<page, views>>, Kept(stored, stored'), Kept(fact, fact')
    PROVE  PageInv' /\ ViewsInv'
<1>1. PageInv'
  BY DEF ReportInv, PageInv, Counted, Kept
<1>2. ViewsInv'
  <2>1. ASSUME NEW r \in Requests, NEW v \in View, r \in views[v].known
        PROVE  fact'[r] = fact[r] /\ fact[r] # Nothing
    BY <2>1 DEF ReportInv, ViewsInv, Kept
  <2> QED
    BY <2>1 DEF ReportInv, ViewsInv, View, Shown, HasChannel
<1> QED
  BY <1>1, <1>2

\* A Summary renders what PageInv and ViewsInv say.
LEMMA SummaryKeeps ==
    ASSUME ReportInv, SummaryReads PROVE PageInv' /\ ViewsInv'
<1>1. UNCHANGED <<stored, fact>>
  BY DEF SummaryReads
<1>a. PICK got \in Fetched :
        /\ page' = [now        |-> opened,
                    resolved   |-> {r \in got.records : Joined(r)},
                    unresolved |-> {r \in got.records : ~ Joined(r)},
                    off        |-> {r \in got.records : Off(r)},
                    rows       |-> [n \in Names |->
                                      {r \in got.records : Seen(r).gateway = n}],
                    hours      |-> [h \in Hours(opened) |->
                                      {r \in got.records : Truncate(stored[r].at) = h}]]
        /\ views' = [views EXCEPT !["page"] =
                        Said([r \in got.records |-> GatewayChannel(Seen(r))],
                             got.records, got.records)]
  BY DEF SummaryReads
<1> DEFINE read == got.records
<1>2. ASSUME NEW r \in read
      PROVE  /\ r \in Requests /\ stored[r] # Nothing
             /\ Seen(r).final = IF fact[r] # Nothing THEN fact[r].final ELSE Unknown
             /\ Seen(r).gateway = Seen(r).final
             /\ GatewayChannel(Seen(r)) = IF fact[r] # Nothing THEN Shown(fact[r]) ELSE Unknown
             /\ Seen(r).final \in Names \cup {Unknown}
  BY SeenIs, SeenType, FetchedIsRecent DEF ReportInv
<1>3. /\ page'.off = {r \in read : Off(r)}
      /\ page'.resolved = {r \in read : Joined(r)}
      /\ page'.unresolved = {r \in read : ~ Joined(r)}
      /\ \A n \in Names : page'.rows[n] = {r \in read : Seen(r).gateway = n}
  BY <1>a
<1> HIDE DEF read
<1>4. PageInv'
  <2>1. page'.off \subseteq page'.resolved
    BY <1>2, <1>3 DEF Off, Joined, Shown, HasChannel
  <2>2. Counted' = read
    BY <1>3 DEF Counted
  <2>3. \A r \in page'.resolved : fact'[r] # Nothing
    BY <1>1, <1>3 DEF Joined
  <2>4. ASSUME NEW r \in page'.off, fact'[r].final # Unknown
        PROVE  \E n \in Names \ {Baseline} : r \in page'.rows[n]
    <3>1. r \in read /\ Off(r) /\ fact[r] # Nothing
      BY <1>1, <1>3, <2>1, <2>3
    <3>2. GatewayChannel(Seen(r)) = Seen(r).gateway /\ Seen(r).gateway \in Names
      BY <1>1, <1>2, <2>4, <3>1 DEF Shown
    <3>3. Seen(r).gateway \in Names \ {Baseline}
      BY <3>1, <3>2 DEF Off
    <3> QED
      BY <1>3, <3>1, <3>3
  <2>5. ASSUME NEW r \in read \ page'.off, NEW n \in Names \ {Baseline}
        PROVE  r \notin page'.rows[n]
    <3>1. Seen(r).gateway = n => GatewayChannel(Seen(r)) = n
      BY <1>2, ReportAssumption DEF Shown
    <3>2. GatewayChannel(Seen(r)) \in {Unknown, Baseline}
      BY <1>3 DEF Off
    <3> QED
      BY <1>3, <3>1, <3>2, ReportAssumption
  <2> QED
    BY <1>1, <1>2, <2>1, <2>2, <2>3, <2>4, <2>5 DEF PageInv
<1>5. ViewsInv'
  <2>1. /\ views'["page"] = Said([r \in read |-> GatewayChannel(Seen(r))], read, read)
        /\ views'["guard"] = views["guard"]
    BY <1>a DEF ReportInv, TypeOK, View, read
  <2>2. ASSUME NEW r \in Requests
        PROVE  /\ r \in views'["page"].known <=> r \in read /\ fact[r] # Nothing
               /\ views'["page"].channel[r] = IF r \in read THEN GatewayChannel(Seen(r))
                                              ELSE Nothing
    BY <2>1 DEF Said
  <2>3. ASSUME NEW r \in Requests
        PROVE  views'["page"].channel[r] \in
                   {IF fact'[r] # Nothing THEN Shown(fact'[r]) ELSE Unknown, Nothing}
    BY <1>1, <1>2, <2>2
  <2> QED
    BY <1>1, <2>1, <2>2, <2>3 DEF ReportInv, ViewsInv, View, Shown, HasChannel
<1> QED
  BY <1>4, <1>5

\* So does a sample of the guard.
LEMMA GuardKeeps ==
    ASSUME ReportInv, GuardReads PROVE PageInv' /\ ViewsInv'
<1>1. UNCHANGED <<stored, fact, page>>
  BY DEF GuardReads
<1>2. PICK got \in Fetched :
        views' = [views EXCEPT !["guard"] = Said(Samples(got), Sampled(got), LookedUp(got))]
  BY DEF GuardReads
<1>3. PageInv'
  BY <1>1 DEF ReportInv, PageInv, Counted
<1>4. /\ views'["guard"] = Said(Samples(got), Sampled(got), LookedUp(got))
      /\ views'["page"] = views["page"]
  BY <1>2 DEF ReportInv, TypeOK, View
<1>5. ASSUME NEW r \in Sampled(got)
      PROVE  Samples(got)[r] =
                 IF fact[r] # Nothing /\ ~ got.failed THEN fact[r].final ELSE Unknown
  <2>1. /\ Seen(r).final = IF fact[r] # Nothing THEN fact[r].final ELSE Unknown
        /\ Decode(r).final = Unknown
    BY SeenIs, FetchedIsRecent DEF ReportInv, RecordsInv, Sampled
  <2> QED
    BY <2>1, FetchedIsRecent DEF Samples, ChannelRecord
<1>6. ASSUME NEW r \in Requests
      PROVE  /\ r \in views'["guard"].known <=> r \in Sampled(got) /\ fact[r] # Nothing
             /\ r \in Sampled(got) => (r \in views'["guard"].joined <=> ~ got.failed)
             /\ views'["guard"].channel[r] =
                    IF r \notin Sampled(got) THEN Nothing
                    ELSE IF fact[r] # Nothing /\ ~ got.failed THEN fact[r].final ELSE Unknown
  BY <1>4, <1>5 DEF Said, LookedUp
<1>7. ViewsInv'
  BY <1>1, <1>4, <1>6 DEF ReportInv, ViewsInv, View, Shown, HasChannel
<1> QED
  BY <1>3, <1>7

\* A record that is stored changes no other and has no channel of its own.
LEMMA RecordKeeps ==
    ASSUME ReportInv, NEW r \in Requests, Records(r)
    PROVE  RecordsInv' /\ Kept(stored, stored')
<1>1. PICK at \in {clock - 1, clock}, credential \in {Credential, Unknown}, legacy \in BOOLEAN :
        /\ legacy => credential = Credential
        /\ stored' = [stored EXCEPT ![r] =
             [at |-> at, legacy |-> legacy, gateway |-> Unknown,
              credential |-> IF legacy THEN Unknown ELSE credential,
              final      |-> IF legacy THEN credential ELSE Unknown,
              resolved   |-> IF legacy THEN credential ELSE Unknown]]
  BY DEF Records
<1>2. stored[r] = Nothing /\ stored \in [Requests -> Named(Record)]
  BY DEF Records, ReportInv, TypeOK
<1>3. ASSUME NEW q \in Requests, q # r PROVE stored'[q] = stored[q]
  BY <1>1, <1>2, <1>3
<1>4. Kept(stored, stored')
  BY <1>2, <1>3 DEF Kept
<1>5. ASSUME NEW q \in Requests, stored'[q] # Nothing
      PROVE  (/\ Decode(q).final = Unknown /\ Decode(q).resolved = Unknown
              /\ Decode(q).gateway = Unknown)'
  <2>1. CASE q = r
    BY <1>1, <1>2, <2>1 DEF Decode
  <2>2. CASE q # r
    BY <1>3, <1>5, <2>2 DEF ReportInv, RecordsInv, Decode
  <2> QED
    BY <2>1, <2>2
<1> QED
  BY <1>4, <1>5 DEF RecordsInv

\* ReportInv is inductive.
LEMMA StepKeeps ==
    ASSUME ReportInv, [Next]_vars PROVE ReportInv'
<1>1. TypeOK'
  BY ReportTypes DEF ReportInv
<1>2. ASSUME UNCHANGED <<stored, fact, page, views>> PROVE ReportInv'
  <2>1. RecordsInv'
    BY <1>2 DEF ReportInv, RecordsInv, Decode
  <2>2. Kept(stored, stored') /\ Kept(fact, fact')
    BY <1>2 DEF Kept
  <2> QED
    BY <1>1, <1>2, <2>1, <2>2, RenderedStays DEF ReportInv
<1>3. CASE UNCHANGED vars
  BY <1>2, <1>3 DEF vars, rvars
<1>4. CASE ReadLine \/ LogEnds \/ SummaryOpens \/ Tick
  BY <1>2, <1>4 DEF ReadLine, LogEnds, SummaryOpens, Tick, rvars
<1>5. ASSUME NEW r \in Requests, Lands(r) PROVE ReportInv'
  <2>1. RecordsInv'
    BY <1>5 DEF ReportInv, RecordsInv, Decode, Lands
  <2>2. Kept(stored, stored') /\ Kept(fact, fact')
    BY <1>5 DEF Kept, Lands, ReportInv, TypeOK
  <2>3. UNCHANGED <<page, views>>
    BY <1>5 DEF Lands
  <2> QED
    BY <1>1, <2>1, <2>2, <2>3, RenderedStays DEF ReportInv
<1>6. ASSUME NEW r \in Requests, Records(r) PROVE ReportInv'
  <2>1. RecordsInv' /\ Kept(stored, stored') /\ UNCHANGED <<fact, page, views>>
    BY <1>6, RecordKeeps DEF Records
  <2>2. Kept(fact, fact')
    BY <2>1 DEF Kept
  <2> QED
    BY <1>1, <2>1, <2>2, RenderedStays DEF ReportInv
<1>7. CASE SummaryReads
  <2>1. RecordsInv'
    BY <1>7 DEF SummaryReads, ReportInv, RecordsInv, Decode
  <2> QED
    BY <1>1, <1>7, <2>1, SummaryKeeps DEF ReportInv
<1>8. CASE GuardReads
  <2>1. RecordsInv'
    BY <1>8 DEF GuardReads, ReportInv, RecordsInv, Decode
  <2> QED
    BY <1>1, <1>8, <2>1, GuardKeeps DEF ReportInv
<1> QED
  BY <1>3, <1>4, <1>5, <1>6, <1>7, <1>8 DEF Next

\* ReportInv, the types among it, holds in every state.
THEOREM ReportsInv == Spec => []ReportInv
  BY StartInv, StepKeeps, PTL DEF Spec

\* Whatever is stored and lands, in whatever order, what the page counts off the baseline
\* has a channel from its own log and stands in that channel's row (aggregate.go:131-137, 216).
THEOREM OffBaselineMeasured == Spec => []OffIsMeasured
<1>1. ReportInv => OffIsMeasured
  BY DEF ReportInv, PageInv, OffIsMeasured
<1> QED
  BY <1>1, ReportsInv, PTL

\* Whenever page and guard had the same facts to go by, the guard judges by the channel the
\* page shows or, after a read that failed or by a fact that names only the resolved
\* provider, by none: never by another (accountguard.go:33-34).
THEOREM GuardAgrees == Spec => []GuardAgreesWithPage
<1>1. ReportInv => GuardAgreesWithPage
  BY DEF ReportInv, ViewsInv, GuardAgreesWithPage, View, Shown
<1> QED
  BY <1>1, ReportsInv, PTL

-----------------------------------------------------------------------------
(* The timeline *)

\* An hour is its two halves.
LEMMA Halves ==
    ASSUME NEW t \in Nat
    PROVE  /\ Truncate(t) \in Nat /\ Truncate(t) % 2 = 0
           /\ Truncate(t) <= t /\ t <= Truncate(t) + 1
  BY DEF Truncate

\* An earlier moment is of an earlier hour or of the same.
LEMMA HoursInOrder ==
    ASSUME NEW s \in Nat, NEW t \in Nat, s <= t
    PROVE  Truncate(s) <= Truncate(t)
<1>1. PICK a, b : a = Truncate(s) /\ b = Truncate(t)
  OBVIOUS
<1>2. a \in Nat /\ b \in Nat /\ a % 2 = 0 /\ b % 2 = 0 /\ a <= s /\ t <= b + 1
  BY <1>1, Halves
<1>3. ~ (a = b + 1)
  BY <1>2
<1> QED
  BY <1>1, <1>2, <1>3

\* TimelineAddsUp, and that the bounds of a Summary are never ahead of the clock.
TimeInv ==
    /\ opened # Nothing => opened \in Nat /\ Window <= opened /\ opened <= clock
    /\ page # Nothing => \A r \in Counted : r \in Requests /\ stored[r] # Nothing
    /\ TimelineAddsUp

\* A Summary gives every request it counts one point, if its hour has begun.
LEMMA SummaryTimes ==
    ASSUME TypeOK, TimeInv, SummaryReads PROVE TimeInv'
<1>1. UNCHANGED <<stored, clock>> /\ opened # Nothing /\ opened' = Nothing
  BY DEF SummaryReads
<1>2. PICK read \in SUBSET Recent :
        /\ page'.now = opened
        /\ page'.resolved \cup page'.unresolved = read
        /\ page'.hours = [h \in Hours(opened) |-> {r \in read : Truncate(stored[r].at) = h}]
  <2>1. PICK got \in Fetched :
          /\ page'.now = opened
          /\ page'.resolved = {r \in got.records : Joined(r)}
          /\ page'.unresolved = {r \in got.records : ~ Joined(r)}
          /\ page'.hours = [h \in Hours(opened) |->
                               {r \in got.records : Truncate(stored[r].at) = h}]
    BY DEF SummaryReads
  <2>2. got.records \in SUBSET Recent /\ page'.resolved \cup page'.unresolved = got.records
    BY <2>1, FetchedIsRecent
  <2> QED
    BY <2>1, <2>2
<1>3. opened \in Nat /\ Window <= opened /\ opened <= clock /\ Window \in Nat /\ clock \in Nat
  BY <1>1, ClockType DEF TimeInv
<1>4. ASSUME NEW r \in read
      PROVE  \/ \E h \in DOMAIN page'.hours :
                  \A g \in DOMAIN page'.hours : (r \in page'.hours[g]) = (g = h)
             \/ Truncate(stored[r].at) > opened
  <2> DEFINE h == Truncate(stored[r].at)
  <2>1. stored[r].at \in Nat /\ stored[r].at >= clock - Window
    BY DEF Recent, TypeOK, Named, Record
  <2>2. h \in Nat /\ h % 2 = 0
    BY <2>1, Halves
  <2>3. opened - Window \in Nat /\ opened - Window <= stored[r].at
    BY <1>3, <2>1
  <2>4. Truncate(opened - Window) <= h /\ Truncate(opened - Window) \in Nat
    BY <2>1, <2>3, HoursInOrder, Halves
  <2>5. CASE h <= opened
    <3> HIDE DEF h
    <3>1. h \in Hours(opened)
      BY <1>3, <2>2, <2>4, <2>5 DEF Hours
    <3> USE DEF h
    <3>2. \A g \in Hours(opened) : (r \in page'.hours[g]) = (g = h)
      BY <1>2
    <3> QED
      BY <1>2, <3>1, <3>2
  <2>6. CASE ~ (h <= opened)
    BY <1>3, <2>2, <2>6
  <2> QED
    BY <2>5, <2>6
<1>5. TimelineAddsUp'
  BY <1>1, <1>2, <1>4 DEF TimelineAddsUp, Counted
<1> QED
  BY <1>1, <1>2, <1>5 DEF TimeInv, Recent, Counted

\* TimeInv is inductive.
LEMMA StepTimes ==
    ASSUME TypeOK, TimeInv, [Next]_vars PROVE TimeInv'
<1>1. clock \in Nat
  BY ClockType
<1>2. ASSUME page' = page, opened' = opened, clock' \in {clock, clock + 1}, Kept(stored, stored')
      PROVE  TimeInv'
  BY <1>1, <1>2 DEF TimeInv, TimelineAddsUp, Counted, Kept
<1>3. CASE UNCHANGED vars
  BY <1>2, <1>3 DEF vars, rvars, Kept
<1>4. CASE ReadLine \/ LogEnds \/ GuardReads \/ Tick
  BY <1>2, <1>4 DEF ReadLine, LogEnds, GuardReads, Tick, rvars, Kept
<1>5. ASSUME NEW r \in Requests, Lands(r) \/ Records(r) PROVE TimeInv'
  BY <1>2, <1>5 DEF Lands, Records, Kept, TypeOK
<1>6. CASE SummaryOpens
  <2>1. opened' = clock /\ UNCHANGED <<clock, page, stored>>
    BY <1>6 DEF SummaryOpens
  <2> QED
    BY <2>1, ClockType DEF TimeInv, TimelineAddsUp, Counted
<1>7. CASE SummaryReads
  BY <1>7, SummaryTimes
<1> QED
  BY <1>3, <1>4, <1>5, <1>6, <1>7 DEF Next

\* For any window, the timeline accounts for every request the page counts, but for one
\* of an hour that began after the bounds were taken (aggregate.go:173, 185).
THEOREM TimelineComplete == Spec => []TimelineAddsUp
<1>1. Init => TimeInv
  BY DEF Init, TimeInv, TimelineAddsUp
<1>2. ReportInv => TypeOK
  BY DEF ReportInv
<1>3. TimeInv => TimelineAddsUp
  BY DEF TimeInv
<1> QED
  BY <1>1, <1>2, <1>3, StepTimes, ReportsInv, PTL DEF Spec

-----------------------------------------------------------------------------
(* The log that is read *)

\* Beside everything else the parser goes its way, and starts over with a log.
THEOREM FactsOfTheLogs == Spec => []FactOfTheLog
<1>1. Init => FactInv
  BY StartFact DEF Init
<1>2. ReportInv /\ FactInv /\ [Next]_vars => FactInv'
  <2> SUFFICES ASSUME ReportInv, FactInv, [Next]_vars PROVE FactInv'
    OBVIOUS
  <2>1. ParserTypeOK
    BY DEF ReportInv, TypeOK
  <2>2. CASE UNCHANGED pvars
    BY <2>2, NothingKeeps
  <2>3. CASE ReadLine
    BY <2>1, <2>3, HeadKeeps, LineKeeps DEF ReadLine
  <2>4. CASE LogEnds
    <3>1. AtStart'
      BY <2>4, LogStarts
    <3> QED
      BY <3>1, StartFact, PTL
  <2> QED
    BY <2>2, <2>3, <2>4
       DEF Next, Lands, Records, SummaryOpens, SummaryReads, GuardReads, Tick, vars
<1>3. ReportInv /\ FactInv => FactOfTheLog
  BY FactIsTheLogs DEF ReportInv, TypeOK
<1> QED
  BY <1>1, <1>2, <1>3, ReportsInv, PTL DEF Spec
================================================================================
