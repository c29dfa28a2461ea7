--------------------------------- MODULE MCReport ---------------------------------
(* A small instance of Report: the lines of its logs. *)
EXTENDS Report, TLC

CONSTANTS baseline, off, credential, unknown, nothing, s1, t1

MCBlock(final, resolved, other) == [final |-> final, resolved |-> resolved, other |-> other]

MCEmpty    == MCBlock(unknown, unknown, FALSE)
MCServed   == MCBlock(baseline, baseline, TRUE)
MCOff      == MCBlock(off, baseline, TRUE)
MCResolved == MCBlock(unknown, off, FALSE)
MCPinned   == MCBlock(unknown, unknown, TRUE)
MCBlocks   == {MCEmpty, MCServed, MCOff, MCResolved, MCPinned}

MCText == [fits |-> TRUE, opens |-> nothing, session |-> nothing, stamp |-> nothing,
           frame |-> nothing]

MCHeads == {[MCText EXCEPT !.opens = kind] : kind \in Sections}

MCFrame(prompt, completion, choices) ==
    [MCText EXCEPT !.frame = [prompt |-> prompt, completion |-> completion, choices |-> choices]]

MCDelta(block)   == [delta |-> block, message |-> nothing]
MCMessage(block) == [delta |-> nothing, message |-> block]

MCFrames ==
    {MCFrame(nothing, nothing, <<MCDelta(MCServed)>>),
     MCFrame(1, 2, <<MCMessage(MCOff), MCDelta(nothing)>>),
     MCFrame(3, nothing, <<[delta |-> MCResolved, message |-> MCServed]>>),
     MCFrame(nothing, 0, <<>>),
     MCFrame(nothing, nothing, <<MCDelta(MCOff), MCMessage(MCEmpty)>>),
     MCFrame(1, nothing, <<MCDelta(MCPinned)>>)}

MCLines ==
    MCHeads \cup MCFrames
    \cup {[MCText EXCEPT !.session = s1], [MCText EXCEPT !.stamp = t1],
          [MCFrame(4, 4, <<MCDelta(MCServed)>>) EXCEPT !.fits = FALSE]}

MCSymmetry == Permutations(Requests)
===================================================================================
