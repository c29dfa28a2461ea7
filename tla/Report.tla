--------------------------------- MODULE Report ---------------------------------
(***************************************************************************)
(* From the request log to the page: the facts the parser reads out of the *)
(* logs, joined onto the stored records by the two readers that have to    *)
(* say the same: the Summary of the page (aggregate.go) and the samples of *)
(* the account guard (plugin/accountguard.go).  A request's fact matches   *)
(* its own record and no other, which is what Join is about.  The clock    *)
(* counts half hours; a name is the same in every letter case.             *)
(***************************************************************************)
EXTENDS LogParser

CONSTANTS
    Requests,
    Names, Baseline, Credential,
    Unknown,         \* the empty string
    Window,          \* the window of both readers, in half hours
    Days,            \* when the file of a day begins: one file holds the records of a day
    MaxTime,         \* how long the clock runs
    MaxLines         \* how many lines the log has

Routing == [final : Names \cup {Unknown}, resolved : Names \cup {Unknown}, other : BOOLEAN]

ASSUME ReportAssumption ==
    /\ Blocks \subseteq Routing /\ {Baseline, Credential} \subseteq Names
    /\ Unknown \notin Names /\ Nothing \notin Names \cup {Unknown}
    /\ Days \subseteq Nat
    /\ Window \in Nat \ {0} /\ MaxTime \in Nat /\ MaxLines \in Nat

\* A stored line; a legacy one has its credential under the channel's names.
Record == [at : Nat, legacy : BOOLEAN, credential : {Credential, Unknown},
           final : {Credential, Unknown}, gateway : {Unknown}, resolved : {Credential, Unknown}]

VARIABLES
    clock,
    stored,      \* the record of each request
    parsed,      \* the block of the log that was read line by line
    fact,        \* the block of each request's log, once its fact is stored
    opened,      \* when the Summary under way took its bounds
    page,        \* the Summary rendered last
    views        \* what the page and the guard said last

rvars == <<clock, stored, parsed, fact, opened, page, views>>
vars  == <<pvars, rvars>>

-----------------------------------------------------------------------------
(* A record as a reader sees it *)

DecodeAsWritten(r) == stored[r]   \* mutated form: an old line is read like a new one

\* UnmarshalJSON: an old line's channel is its credential, and it has no channel.
Decode(r) ==
    IF ~ stored[r].legacy THEN stored[r]
    ELSE [stored[r] EXCEPT
            !.credential = IF @ # Unknown THEN @
                           ELSE IF stored[r].final # Unknown THEN stored[r].final
                           ELSE stored[r].resolved,
            !.final = Unknown, !.resolved = Unknown, !.gateway = Unknown]

HasChannel(block) == block.final # Unknown \/ block.resolved # Unknown \/ block.other
Joined(r)         == fact[r] # Nothing /\ HasChannel(fact[r])

\* The record, with its fact's channel if it has one: withChannel.
Seen(r) ==
    IF Joined(r)
    THEN [Decode(r) EXCEPT !.final = fact[r].final, !.gateway = fact[r].final,
                           !.resolved = fact[r].resolved]
    ELSE Decode(r)

ChannelResolved(v) ==   \* mutated form: where it was resolved to comes first
    IF v.resolved # Unknown THEN v.resolved
    ELSE IF v.gateway # Unknown THEN v.gateway ELSE v.final

GatewayChannel(v) ==
    IF v.gateway # Unknown THEN v.gateway
    ELSE IF v.final # Unknown THEN v.final ELSE v.resolved

Off(r) == GatewayChannel(Seen(r)) \notin {Unknown, Baseline}

Recent == {r \in Requests : stored[r] # Nothing /\ stored[r].at >= clock - Window}

\* RecordsSince: the files are read in the order of their days.  One that cannot be opened
\* ends the read with what the earlier ones held and an error; a directory that cannot be
\* listed is an empty one.
Fetched ==
    {[records |-> S, failed |-> FALSE] : S \in {Recent, {}}}
    \cup {[records |-> {r \in Recent : stored[r].at < day}, failed |-> TRUE] : day \in Days}

-----------------------------------------------------------------------------
(* The readers *)

View == {"page", "guard"}

\* What a reader says of the requests it has, which of them had a fact then, and for which
\* it has looked for one.
Said(channel, about, joined) ==
    [known   |-> {r \in about : fact[r] # Nothing},
     joined  |-> joined,
     channel |-> [r \in Requests |-> IF r \in about THEN channel[r] ELSE Nothing]]

Truncate(t) == t - (t % 2)

HoursFromBound(now) ==   \* mutated form: the first hour is the bound, not its hour
    {h \in (now - Window) .. now : (h - (now - Window)) % 2 = 0}

\* The points of the timeline.
Hours(now) == {h \in Truncate(now - Window) .. now : h % 2 = 0}

\* The Summary's bounds, and then what it counts.
SummaryOpens ==
    /\ opened = Nothing /\ opened' = clock
    /\ UNCHANGED <<pvars, clock, stored, parsed, fact, page, views>>

\* It counts what it got, if the read failed, and joins it.
SummaryReads ==
    /\ opened # Nothing /\ opened' = Nothing
    /\ \E got \in Fetched :
        /\ page' = [now        |-> opened,
                    resolved   |-> {r \in got.records : Joined(r)},
                    unresolved |-> {r \in got.records : ~ Joined(r)},
                    off        |-> {r \in got.records : Off(r)},
                    rows       |-> [n \in Names |->
                                      {r \in got.records : Seen(r).gateway = n}],
                    hours      |-> [h \in Hours(opened) |->
                                      {r \in got.records : Truncate(stored[r].at) = h}]]
        /\ views' = [views EXCEPT !["page"] =
                        Said([r \in got.records |-> GatewayChannel(Seen(r))],
                             got.records, got.records)]
    /\ UNCHANGED <<pvars, clock, stored, parsed, fact>>

\* ChannelRecordsSince: what a read that failed got is not joined.
ChannelRecord(r, failed) == IF failed THEN Decode(r) ELSE Seen(r)

Sampled(got) == {r \in got.records : ChannelRecord(r, got.failed).credential # Unknown}

\* guardSamples: what counts is the final provider.
Samples(got) == [r \in Sampled(got) |-> ChannelRecord(r, got.failed).final]

\* The samples a fact was looked for.
LookedUp(got) == IF got.failed THEN {} ELSE Sampled(got)

\* After a read that failed the guard goes on with what there is.
GuardReads ==
    /\ \E got \in Fetched :
         views' = [views EXCEPT !["guard"] =
                      Said(Samples(got), Sampled(got), LookedUp(got))]
    /\ UNCHANGED <<pvars, clock, stored, parsed, fact, opened, page>>

-----------------------------------------------------------------------------
(* The requests *)

Init ==
    /\ AtStart
    /\ clock = Window /\ opened = Nothing /\ page = Nothing
    /\ stored = [r \in Requests |-> Nothing] /\ parsed = Nothing /\ fact = stored
    /\ views = [v \in View |-> Said(stored, {}, {})]

ReadLine ==
    /\ Len(log) < MaxLines
    /\ \E l \in Lines : Read(l)
    /\ UNCHANGED rvars

LogEnds ==
    /\ parsed' = Finish.block
    /\ section' = "other" /\ response' = Nothing /\ best' = Nothing
    /\ lastFrames' = 0 /\ attempts' = 0 /\ hadError' = FALSE
    /\ stamp' = Nothing /\ session' = Nothing /\ log' = <<>>
    /\ UNCHANGED <<clock, stored, fact, opened, page, views>>

\* The scanner stores the fact of r's log, if it ever does: the first is of the
\* log that was read line by line, and the others' may have held any block.
Lands(r) ==
    /\ fact[r] = Nothing
    /\ \E block \in Blocks :
         /\ (\A q \in Requests : fact[q] = Nothing) => block = parsed
         /\ fact' = [fact EXCEPT ![r] = block]
    /\ UNCHANGED <<pvars, clock, stored, parsed, opened, page, views>>

\* The usage hook stores a request made a moment ago, this build's or, before an
\* upgrade, that of one without schema v3 (an old line that names nothing reads
\* like a new one).
Records(r) ==
    /\ stored[r] = Nothing
    /\ \E at \in {clock - 1, clock}, credential \in {Credential, Unknown}, legacy \in BOOLEAN :
         /\ legacy => credential = Credential
         /\ stored' = [stored EXCEPT ![r] =
             [at |-> at, legacy |-> legacy, gateway |-> Unknown,
              credential |-> IF legacy THEN Unknown ELSE credential,
              final      |-> IF legacy THEN credential ELSE Unknown,
              resolved   |-> IF legacy THEN credential ELSE Unknown]]
    /\ UNCHANGED <<pvars, clock, parsed, fact, opened, page, views>>

Tick ==
    /\ clock < Window + MaxTime /\ clock' = clock + 1
    /\ UNCHANGED <<pvars, stored, parsed, fact, opened, page, views>>

\* What the logs hold is settled first: when their facts land is what matters.
Next ==
    IF parsed = Nothing
    THEN ReadLine \/ LogEnds
    ELSE \/ \E r \in Requests : Lands(r) \/ Records(r)
         \/ SummaryOpens \/ SummaryReads \/ GuardReads
         \/ Tick

Spec == Init /\ [][Next]_vars

-----------------------------------------------------------------------------
(* Properties *)

TypeOK ==
    /\ ParserTypeOK
    /\ clock \in Window .. (Window + MaxTime) /\ opened \in Named(Nat)
    /\ stored \in [Requests -> Named(Record)]
    /\ parsed \in Named(Blocks) /\ fact \in [Requests -> Named(Blocks)]
    /\ views \in [View -> [known : SUBSET Requests, joined : SUBSET Requests,
                          channel : [Requests -> Named(Names \cup {Unknown})]]]

Counted == page.resolved \cup page.unresolved

\* Every request the page counts stands at one point of its timeline, so the
\* points add up to resolved_requests + unresolved_requests.  The Summary takes
\* the end of its timeline before it reads the records (aggregate.go:173, 185),
\* so one of an hour that began in between is counted and has no point.
TimelineAddsUp ==
    page # Nothing =>
        \A r \in Counted :
            \/ \E h \in DOMAIN page.hours :
                 \A g \in DOMAIN page.hours : (r \in page.hours[g]) = (g = h)
            \/ Truncate(stored[r].at) > page.now

\* With every variable in its type: a request counted off the baseline has a channel
\* from its own log, never an old line's credential, and stands in the row of a channel
\* that is not the baseline; every other one that is resolved stands in the baseline's
\* row or in none.  A fact that names only the provider the request was resolved to is
\* counted off and has no row.
OffIsMeasured ==
    /\ TypeOK
    /\ page # Nothing =>
        /\ page.off \subseteq page.resolved
        /\ \A r \in page.off :
             \/ \E n \in Names \ {Baseline} : r \in page.rows[n]
             \/ fact[r].final = Unknown
        /\ \A r \in Counted \ page.off, n \in Names \ {Baseline} : r \notin page.rows[n]

\* The guard judges a request by no other channel than the page shows for it, when both
\* had the same facts to go by (accountguard.go:33-34).  Where the page shows one the
\* guard may have none: it does not see the channel of a fact that names only the
\* resolved provider, and none at all when its read of the records failed.
GuardAgreesWithPage ==
    \A r \in Requests :
        \/ \E v \in View : views[v].channel[r] = Nothing
        \/ (r \in views["page"].known) # (r \in views["guard"].known)
        \/ views["page"].channel[r] = views["guard"].channel[r]
        \/ /\ views["guard"].channel[r] = Unknown
           /\ fact[r].final = Unknown \/ r \notin views["guard"].joined
=================================================================================
