------------------------------- MODULE LogParser -------------------------------
(***************************************************************************)
(* The request-log parser, internal/channellog/parse.go: one log, line by  *)
(* line, to one fact.  A line is what each reader of the parser would get  *)
(* out of its text, and the section decides which reader it meets.  The    *)
(* log may end after any line, a last line that was cut being a line of    *)
(* its own; the fact is what the parser would return at that point.        *)
(***************************************************************************)
EXTENDS Integers, Sequences, FiniteSets

CONSTANTS
    Lines,           \* the lines a log may be made of
    Blocks,          \* what a provider_metadata block decodes to
    EmptyBlock,      \* the one that names nothing
    Sessions, Stamps,
    Nothing          \* what a text does not hold, or what was never read

Named(S) == S \cup {Nothing}
Sections == {"other", "info", "headers", "response", "error"}

\* A choice of a frame, and where its block may stand; a counter that is no
\* number is named and is 0.
Choice == [delta : Named(Blocks), message : Named(Blocks)]
Frame  == [prompt : Named(Nat), completion : Named(Nat), choices : Seq(Choice)]

\* fits: the line is no longer than the buffer.
Line == [fits : BOOLEAN, opens : Named(Sections), session : Named(Sessions),
         stamp : Named(Stamps), frame : Named(Frame)]

\* responseSection.
Answer      == [frames : Nat, block : Blocks, prompt : Nat, completion : Nat, found : BOOLEAN]
EmptyAnswer == [frames |-> 0, block |-> EmptyBlock, prompt |-> 0, completion |-> 0, found |-> FALSE]

ASSUME ParserAssumption ==
    /\ Lines \subseteq Line /\ EmptyBlock \in Blocks
    /\ Nothing \notin Blocks /\ Nothing \notin Sessions /\ Nothing \notin Stamps
    /\ Nothing \notin Sections /\ Nothing \notin Nat /\ Nothing \notin Frame
    /\ Nothing \notin Answer

VARIABLES
    section,     \* the section the parser is in
    response,    \* the answer that is being read
    best,        \* the last answer closed that had a block
    lastFrames, attempts, hadError,
    stamp, session,
    log          \* the lines read so far (observes)

parser == <<section, response, best, lastFrames, attempts, hadError, stamp, session>>
pvars  == <<parser, log>>

AtStart ==
    /\ section = "other" /\ response = Nothing /\ best = Nothing
    /\ lastFrames = 0 /\ attempts = 0 /\ hadError = FALSE
    /\ stamp = Nothing /\ session = Nothing /\ log = <<>>

-----------------------------------------------------------------------------
(* Sections *)

BestIfFirst ==   \* mutated form: the first answer with a block stays the best
    IF best = Nothing /\ response # Nothing /\ response.found THEN response ELSE best

\* closeResponse, also as finish calls it.
BestClosed   == IF response # Nothing /\ response.found THEN response ELSE best
FramesClosed == IF response # Nothing THEN response.frames ELSE lastFrames

Open(kind) ==
    /\ best' = BestClosed /\ lastFrames' = FramesClosed
    /\ response' = IF kind = "response" THEN EmptyAnswer ELSE Nothing
    /\ attempts' = attempts + IF kind \in {"response", "error"} THEN 1 ELSE 0
    /\ hadError' = (hadError \/ kind = "error")
    /\ section' = kind

-----------------------------------------------------------------------------
(* Frames *)

\* The block of a choice: its delta's, or else its message's.
BlockOf(choice) == IF choice.delta # Nothing THEN choice.delta ELSE choice.message

\* The block a frame leaves in its answer, of several choices the last.
BlockIn(frame) ==
    LET with == {i \in DOMAIN frame.choices : BlockOf(frame.choices[i]) # Nothing}
    IN IF with = {} THEN Nothing
       ELSE BlockOf(frame.choices[CHOOSE i \in with : \A j \in with : j <= i])

Updated(counter, frame, old) == IF frame[counter] # Nothing THEN frame[counter] ELSE old

WithFrame(answer, frame) ==
    [frames     |-> answer.frames + 1,
     block      |-> IF BlockIn(frame) # Nothing THEN BlockIn(frame) ELSE answer.block,
     prompt     |-> Updated("prompt", frame, answer.prompt),
     completion |-> Updated("completion", frame, answer.completion),
     found      |-> answer.found \/ BlockIn(frame) # Nothing]

-----------------------------------------------------------------------------
(* Lines: a line that is too long is consumed and never interpreted. *)

SectionLine(l) ==
    /\ l.fits /\ l.opens # Nothing
    /\ Open(l.opens)
    /\ UNCHANGED <<stamp, session>>

InfoLine(l) ==
    /\ l.fits /\ l.opens = Nothing /\ section = "info"
    /\ stamp' = IF l.stamp # Nothing THEN l.stamp ELSE stamp
    /\ UNCHANGED <<section, response, best, lastFrames, attempts, hadError, session>>

HeaderLine(l) ==
    /\ l.fits /\ l.opens = Nothing /\ section = "headers"
    /\ session' = IF l.session # Nothing THEN l.session ELSE session
    /\ UNCHANGED <<section, response, best, lastFrames, attempts, hadError, stamp>>

FrameLine(l) ==
    /\ l.fits /\ l.opens = Nothing /\ section = "response" /\ l.frame # Nothing
    /\ response' = WithFrame(response, l.frame)
    /\ UNCHANGED <<section, best, lastFrames, attempts, hadError, stamp, session>>

Unread(l) ==
    /\ \/ ~ l.fits
       \/ l.opens = Nothing /\ section \in {"other", "error"}
       \/ l.opens = Nothing /\ section = "response" /\ l.frame = Nothing
    /\ UNCHANGED parser

Read(l) ==
    /\ log' = Append(log, l)
    /\ SectionLine(l) \/ InfoLine(l) \/ HeaderLine(l) \/ FrameLine(l) \/ Unread(l)

\* finish: the fact of the lines read so far.
Finish ==
    LET a == IF BestClosed = Nothing THEN EmptyAnswer ELSE BestClosed
    IN [block      |-> a.block,
        frames     |-> IF BestClosed = Nothing THEN FramesClosed ELSE a.frames,
        prompt     |-> a.prompt, completion |-> a.completion,
        attempts   |-> attempts, hadError |-> hadError, stamp |-> stamp, session |-> session]

ParserSpec == AtStart /\ [][\E l \in Lines : Read(l)]_pvars

-----------------------------------------------------------------------------
(* What the lines say, without a parser. *)

At        == 1 .. Len(log)
IsHead(i) == log[i].fits /\ log[i].opens # Nothing

\* Line i stands in the section that line h opened.
Under(h, i) ==
    /\ h < i /\ IsHead(h)
    /\ \A j \in (h + 1) .. i : ~ IsHead(j)

Answers     == {h \in At : IsHead(h) /\ log[h].opens = "response"}
FramesOf(h) == {i \in At : Under(h, i) /\ log[i].fits /\ log[i].frame # Nothing}
BlocksOf(h) == {i \in FramesOf(h) : BlockIn(log[i].frame) # Nothing}

Last(S) == CHOOSE i \in S : \A j \in S : j <= i

\* The answers that carried a block: the fact describes the last of them.
Served == {h \in Answers : BlocksOf(h) # {}}

LastNamed(h, counter) ==
    LET naming == {i \in FramesOf(h) : log[i].frame[counter] # Nothing}
    IN IF naming = {} THEN 0 ELSE log[Last(naming)].frame[counter]

LastOf(kind, field) ==
    LET saying == {i \in At : /\ log[i].fits /\ log[i][field] # Nothing
                              /\ \E h \in At : Under(h, i) /\ log[h].opens = kind}
    IN IF saying = {} THEN Nothing ELSE log[Last(saying)][field]

-----------------------------------------------------------------------------
(* Properties *)

\* Everything has its type, and an answer is open exactly in its section, which
\* is what keeps frameLine from writing through a nil pointer.
ParserTypeOK ==
    /\ section \in Sections
    /\ response \in Named(Answer) /\ best \in Named(Answer)
    /\ lastFrames \in Nat /\ attempts \in Nat /\ hadError \in BOOLEAN
    /\ stamp \in Named(Stamps) /\ session \in Named(Sessions)
    /\ log \in Seq(Lines)
    /\ (section = "response") = (response # Nothing)

\* The channel of a fact is the one the client was served by: of the last answer
\* that had a block, the last block, and its frames.  Failed attempts before it,
\* sections in between, blocks in a request body or an error, and lines too long
\* to be read change nothing; without such an answer there is no channel.
ChannelOfLastAnswer ==
    /\ Finish.block = IF Served = {} THEN EmptyBlock
                      ELSE BlockIn(log[Last(BlocksOf(Last(Served)))].frame)
    /\ Finish.frames = IF Answers = {} THEN 0
                       ELSE Cardinality(FramesOf(Last(IF Served = {} THEN Answers ELSE Served)))

\* The counters the join compares are that same answer's, each of the last frame
\* that named it, a usage that names one leaving the other: never an attempt's
\* that failed, and 0 where the answer has none (parse.go:144-146, 295-297).
CountersOfThatAnswer ==
    \A counter \in {"prompt", "completion"} :
        Finish[counter] = IF Served = {} THEN 0 ELSE LastNamed(Last(Served), counter)

\* What the join looks a fact up by is read in its own section only: the same
\* text in a body or in an answer is nobody's session and nobody's time.
KeysOfTheirSections ==
    /\ Finish.session = LastOf("headers", "session")
    /\ Finish.stamp = LastOf("info", "stamp")

\* The fact is the log's: what the parser has made of the lines, one at a time, is
\* what they say, wherever the log ends.
FactOfTheLog == ChannelOfLastAnswer /\ CountersOfThatAnswer /\ KeysOfTheirSections
=============================================================================
