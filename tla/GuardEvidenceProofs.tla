-------------------------- MODULE GuardEvidenceProofs --------------------------
(***************************************************************************)
(* What TLAPS proves of GuardEvidence, for any number of accounts and      *)
(* requests and any number of restarts: what the loop over the samples     *)
(* comes to, that no request is counted twice while the ring is long       *)
(* enough, that the streak is what an operator reads in the records since  *)
(* a decision last took it away, and that no answer which is known in its  *)
(* hour is missed.                                                         *)
(***************************************************************************)
EXTENDS GuardEvidence, FiniteSetTheorems, WellFoundedInduction, TLAPS

-----------------------------------------------------------------------------
(* The loop *)

\* A set of numbers that is not empty has a least one.
LEMMA HasFirst ==
    ASSUME NEW S, S \subseteq Nat, S # {}
    PROVE  \E m \in S : \A j \in S : m <= j
<1> DEFINE R == OpToRel(<, Nat)
<1>1. IsWellFoundedOn(R, Nat)
  BY NatLessThanWellFounded
<1> HIDE DEF R
<1>2. PICK m \in S : \A j \in S : ~ (<<j, m>> \in R)
  BY <1>1, WFMin
<1>3. \A j \in S : ~ (j < m)
  BY <1>2 DEF R, OpToRel
<1> QED
  BY <1>3

\* f is what the loop leaves after each of the first n samples.
Steps(f, m, n) ==
    f = [k \in 0 .. n |-> IF k = 0 THEN m ELSE Consume(f[k - 1], Samples[k])]

Hour == made \in Nat /\ gone \in Nat /\ gone <= made

LEMMA HourSamples ==
    ASSUME Hour
    PROVE  /\ Len(Samples) = made - gone /\ made - gone \in Nat
           /\ \A k \in 1 .. Len(Samples) : Samples[k] = gone + k
  BY DEF Hour, Samples

LEMMA StepsExist ==
    ASSUME NEW m, NEW n \in Nat
    PROVE  \E f : Steps(f, m, n)
<1> DEFINE T == {i \in Nat : ~ \E f : Steps(f, m, i)}
<1>1. SUFFICES ASSUME T # {} PROVE FALSE
  BY <1>1
<1>2. PICK i \in T : \A j \in T : i <= j
  BY <1>1, HasFirst, T \subseteq Nat
<1>3. CASE i = 0
  <2> DEFINE f == [k \in 0 .. 0 |-> m]
  <2>1. Steps(f, m, 0)
    BY DEF Steps
  <2> QED
    BY <1>2, <1>3, <2>1
<1>4. CASE i # 0
  <2>1. i - 1 \in Nat /\ i - 1 \notin T
    BY <1>2, <1>4
  <2>2. PICK g : Steps(g, m, i - 1)
    BY <2>1
  <2> DEFINE f == [k \in 0 .. i |-> IF k = i THEN Consume(g[i - 1], Samples[i]) ELSE g[k]]
  <2>3. \A k \in 0 .. i - 1 : f[k] = g[k]
    BY <2>1
  <2>4. f[i] = Consume(g[i - 1], Samples[i])
    BY <2>1
  <2>5. \A k \in 0 .. i - 1 : g[k] = IF k = 0 THEN m ELSE Consume(g[k - 1], Samples[k])
    BY <2>2 DEF Steps
  <2>7. ASSUME NEW k \in 0 .. i
        PROVE  f[k] = IF k = 0 THEN m ELSE Consume(f[k - 1], Samples[k])
    <3>1. CASE k = i
      <4>1. k - 1 \in 0 .. i - 1
        BY <1>4, <2>1, <3>1
      <4>2. f[k - 1] = g[i - 1]
        BY <2>3, <3>1, <4>1
      <4> QED
        BY <1>4, <2>4, <3>1, <4>2
    <3>2. CASE k # i /\ k # 0
      <4>1. k \in 0 .. i - 1 /\ k - 1 \in 0 .. i - 1
        BY <3>2
      <4>2. f[k] = g[k] /\ f[k - 1] = g[k - 1]
        BY <2>3, <4>1
      <4> QED
        BY <2>5, <3>2, <4>1, <4>2
    <3>3. CASE k # i /\ k = 0
      <4>1. k \in 0 .. i - 1
        BY <3>3
      <4> QED
        BY <2>3, <2>5, <3>3, <4>1
    <3> QED
      BY <3>1, <3>2, <3>3
  <2>6. Steps(f, m, i)
    <3> HIDE DEF f
    <3>1. f = [k \in 0 .. i |-> f[k]]
      BY DEF f
    <3> QED
      BY <2>7, <3>1 DEF Steps
  <2> QED
    BY <1>2, <2>6
<1> QED
  BY <1>3, <1>4

\* The loop as its first steps: what a recursive definition is worth knowing by.
LEMMA LoopSteps ==
    ASSUME Hour, NEW m
    PROVE  /\ Loop(m)[0] = m
           /\ \A k \in 1 .. made - gone : Loop(m)[k] = Consume(Loop(m)[k - 1], gone + k)
           /\ Count(m) = IF canJudge(opts) THEN Loop(m)[made - gone] ELSE m
<1> DEFINE n == made - gone
<1>1. Len(Samples) = n /\ n \in Nat /\ \A k \in 1 .. n : Samples[k] = gone + k
  BY HourSamples
<1>2. PICK f : Steps(f, m, n)
  BY <1>1, StepsExist
<1>3. Steps(Loop(m), m, n)
  BY <1>1, <1>2 DEF Loop, Steps
<1>4. \A k \in 0 .. n : Loop(m)[k] = IF k = 0 THEN m ELSE Consume(Loop(m)[k - 1], Samples[k])
  <2> DEFINE g == Loop(m)
  <2>1. g = [k \in 0 .. n |-> IF k = 0 THEN m ELSE Consume(g[k - 1], Samples[k])]
    BY <1>3 DEF Steps
  <2> HIDE DEF g
  <2>2. \A k \in 0 .. n : g[k] = IF k = 0 THEN m ELSE Consume(g[k - 1], Samples[k])
    BY <2>1
  <2> QED
    BY <2>2 DEF g
<1>5. Loop(m)[0] = m
  BY <1>1, <1>4
<1>6. ASSUME NEW k \in 1 .. n PROVE Loop(m)[k] = Consume(Loop(m)[k - 1], gone + k)
  <2>1. k \in 0 .. n /\ k # 0
    BY <1>1
  <2> QED
    BY <1>1, <1>4, <2>1
<1> QED
  BY <1>1, <1>5, <1>6 DEF Count

\* What holds before the first sample and is kept by each holds after all of them.
LEMMA EachStep ==
    ASSUME NEW n \in Nat, NEW G, 0 \in G, \A k \in 1 .. n : k - 1 \in G => k \in G
    PROVE  \A k \in 0 .. n : k \in G
<1> DEFINE T == {k \in 0 .. n : k \notin G}
<1>1. SUFFICES ASSUME T # {} PROVE FALSE
  BY <1>1
<1>2. PICK i \in T : \A j \in T : i <= j
  BY <1>1, HasFirst, T \subseteq Nat
<1>3. i # 0 /\ i \in 1 .. n /\ i - 1 \in 0 .. n
  BY <1>2
<1>4. i - 1 \notin T
  BY <1>2, <1>3
<1> QED
  BY <1>2, <1>3, <1>4

-----------------------------------------------------------------------------
(* Types *)

Memory == {m \in Mind : Len(m.seen) <= SeenLimit}

\* The options a runner works with: normalised ones.
NormalOptions == {o \in Options : o.reenableMinutes >= 0 /\ o.maxDisableMinutes > 0
                                  /\ o.threshold > 0 /\ o.minEnabled > 0}

\* What is true of requests, facts, hour and configuration, whatever the guard does.
World ==
    /\ TypeOK /\ saved \in Memory
    /\ made - gone <= Window
    /\ landed \subseteq 1 .. made
    /\ \A r \in landed : answer[r] \in {"baseline", "other"}

LEMMA MemoryFields ==
    ASSUME NEW m \in Memory
    PROVE  /\ m.accounts \in [Account -> AccountState] /\ m.seen \in Seq(Request)
           /\ m.times \in [Request -> Nat] /\ m.cleared \in [Account -> SUBSET Request]
           /\ Len(m.seen) <= SeenLimit
  BY DEF Memory, Mind

LEMMA WorldHour == ASSUME World PROVE Hour /\ \A r \in InHour : r \in Request
  BY EvidenceAssumption DEF World, TypeOK, Hour, InHour, Request

LEMMA StreakType ==
    ASSUME NEW s \in AccountState, NEW c \in Channel
    PROVE  /\ Streak(s, c) \in AccountState
           /\ Streak(s, c).streak = IF c = "baseline" THEN 0 ELSE s.streak + 1
<1>1. s.streak \in Nat /\ s.streak + 1 \in Nat
  BY DEF AccountState
<1>2. CASE c = "baseline"
  BY <1>2 DEF Streak, AccountState
<1>3. CASE c # "baseline"
  <2>1. Streak(s, c) = [s EXCEPT !.streak = s.streak + 1]
    BY <1>3 DEF Streak
  <2> QED
    BY <1>1, <1>3, <2>1 DEF AccountState
<1> QED
  BY <1>2, <1>3

LEMMA PushType ==
    ASSUME NEW seen \in Seq(Request), Len(seen) <= SeenLimit, NEW r \in Request
    PROVE  push(seen, r) \in Seq(Request) /\ Len(push(seen, r)) <= SeenLimit
<1> DEFINE longer == Append(seen, r)
<1>1. longer \in Seq(Request) /\ Len(longer) = Len(seen) + 1 /\ Len(seen) \in Nat
  OBVIOUS
<1>2. SeenLimit \in Nat
  BY EvidenceAssumption
<1> HIDE DEF longer
<1>3. CASE Len(longer) > SeenLimit
  <2>1. longer # <<>>
    BY <1>1
  <2>2. Tail(longer) \in Seq(Request) /\ Len(Tail(longer)) = Len(longer) - 1
    BY <1>1, <2>1
  <2> QED
    BY <1>1, <1>2, <1>3, <2>2 DEF push, longer
<1>4. CASE ~ (Len(longer) > SeenLimit)
  BY <1>1, <1>2, <1>4 DEF push, longer
<1> QED
  BY <1>3, <1>4

\* What a sample that counts does.
LEMMA CountingFields ==
    ASSUME World, NEW m \in Memory, NEW r \in Request
    PROVE  /\ Counting(m, r) \in Memory
           /\ Counting(m, r).accounts
                  = [m.accounts EXCEPT ![account[r]] = Streak(@, ChannelOf(r))]
           /\ Counting(m, r).seen = push(m.seen, r)
           /\ Counting(m, r).times = [m.times EXCEPT ![r] = @ + 1]
           /\ Counting(m, r).cleared = m.cleared
<1> DEFINE accounts == [m.accounts EXCEPT ![account[r]] = Streak(@, ChannelOf(r))]
           seen == push(m.seen, r)
           times == [m.times EXCEPT ![r] = @ + 1]
<1>1. Counting(m, r) = [m EXCEPT !.accounts = accounts, !.seen = seen, !.times = times]
  BY DEF Counting
<1>2. account[r] \in Account /\ ChannelOf(r) \in Channel
  BY DEF World, TypeOK, ChannelOf, Channel
<1>3. Streak(m.accounts[account[r]], ChannelOf(r)) \in AccountState
  BY <1>2, MemoryFields, StreakType
<1>a. m.accounts \in [Account -> AccountState] /\ m.times \in [Request -> Nat]
  BY MemoryFields
<1>4. accounts \in [Account -> AccountState] /\ times \in [Request -> Nat]
  <2>1. accounts \in [Account -> AccountState]
    BY <1>3, <1>a
  <2>2. times \in [Request -> Nat]
    BY <1>a
  <2> QED
    BY <2>1, <2>2
<1>5. seen \in Seq(Request) /\ Len(seen) <= SeenLimit
  BY MemoryFields, PushType
<1> HIDE DEF accounts, seen, times
<1>6. /\ Counting(m, r).accounts = accounts /\ Counting(m, r).seen = seen
      /\ Counting(m, r).times = times /\ Counting(m, r).cleared = m.cleared
      /\ Counting(m, r) \in Mind
  BY <1>1, <1>4, <1>5 DEF Memory, Mind
<1> QED
  BY <1>5, <1>6 DEF Memory, accounts, seen, times

LEMMA ConsumeType ==
    ASSUME World, NEW m \in Memory, NEW r \in Request
    PROVE  Consume(m, r) \in Memory
  BY CountingFields DEF Consume

LEMMA LoopType ==
    ASSUME World, NEW m \in Memory
    PROVE  \A k \in 0 .. made - gone : Loop(m)[k] \in Memory
<1> DEFINE n == made - gone
           G == {k \in 0 .. n : Loop(m)[k] \in Memory}
<1>1. Hour /\ n \in Nat
  BY WorldHour DEF Hour
<1>2. 0 \in G
  BY <1>1, LoopSteps
<1>3. ASSUME NEW k \in 1 .. n, k - 1 \in G PROVE k \in G
  <2>1. gone + k \in Request
    BY <1>1, WorldHour DEF Hour, InHour
  <2> QED
    BY <1>1, <1>3, <2>1, LoopSteps, ConsumeType
<1> HIDE DEF G
<1>4. \A k \in 0 .. n : k \in G
  BY <1>1, <1>2, <1>3, EachStep
<1> QED
  BY <1>4 DEF G

LEMMA CountType == ASSUME World, NEW m \in Memory PROVE Count(m) \in Memory
<1>1. Hour /\ made - gone \in 0 .. made - gone
  BY WorldHour DEF Hour
<1>2. Loop(m)[made - gone] \in Memory
  BY <1>1, LoopType
<1> QED
  BY <1>1, <1>2, LoopSteps

(* The decisions *)

LEMMA NormalizedOptions ==
    ASSUME NEW o \in Options PROVE normalized(o) \in NormalOptions
  BY DEF normalized, Options, NormalOptions

\* The backoff is a number of minutes or never (guard.go, backoffNext).
LEMMA BackoffType ==
    ASSUME NEW n \in 1 .. CountCap, NEW o \in NormalOptions
    PROVE  backoffNext(n, o) \in Nat \cup {Never}
<1>1. n - 1 \in 0 .. CountCap
  BY CountCapAssumption
<1>2. 2 ^ (n - 1) \in Nat
  BY <1>1, DoublingAssumption
<1>3. o.reenableMinutes \in Nat /\ o.maxDisableMinutes \in Nat
  BY DEF NormalOptions, Options
<1>4. o.reenableMinutes * 2 ^ (n - 1) \in Nat
  BY <1>2, <1>3
<1> QED
  BY <1>3, <1>4 DEF backoffNext

\* An account the guard takes for its own keeps its streak (guard.go, decide and
\* AdoptOwnership).
LEMMA ClaimedType ==
    ASSUME NEW s \in AccountState, NEW n \in 1 .. CountCap, NEW o \in NormalOptions
    PROVE  Claimed(s, n, o) \in AccountState /\ Claimed(s, n, o).streak = s.streak
<1>1. backoffNext(n, o) \in Nat \cup {Never}
  BY BackoffType
<1>2. n \in 0 .. CountCap
  BY CountCapAssumption
<1> QED
  BY <1>1, <1>2 DEF Claimed, AccountState

LEMMA AdoptedType ==
    ASSUME NEW s \in AccountState, NEW o \in NormalOptions
    PROVE  AdoptAccount(s, o) \in AccountState /\ AdoptAccount(s, o).streak = s.streak
<1> DEFINE n == IF s.disableCount < 1 THEN 1 ELSE s.disableCount
<1>1. n \in 1 .. CountCap
  BY CountCapAssumption DEF AccountState
<1> QED
  BY <1>1, ClaimedType DEF AdoptAccount

\* A decision keeps the streak of an account or takes it away, and these are the cases in
\* which it takes it away.
LEMMA DecidedType ==
    ASSUME NEW s \in AccountState, NEW e, NEW d, NEW o \in NormalOptions
    PROVE  /\ Decided(s, e, d, o) \in AccountState
           /\ d \in {"enable", "enable_external"} => Decided(s, e, d, o).streak = 0
           /\ d = "none" /\ e = "disabled" /\ ~s.disabledByGuard
                  => Decided(s, e, d, o).streak = 0
           /\ d \notin {"enable", "enable_external"}
              /\ ~(d = "none" /\ e = "disabled" /\ ~s.disabledByGuard)
                  => Decided(s, e, d, o).streak = s.streak
<1>1. ASSUME NEW n \in 0 .. CountCap PROVE Given(n) \in AccountState /\ Given(n).streak = 0
  BY DEF Given, FreshAccount, AccountState, Never
<1>2. Forgotten(s) \in AccountState /\ Forgotten(s).streak = 0
  BY DEF Forgotten, AccountState
<1>3. CASE d = "enable"
  BY <1>1, <1>3 DEF Decided, AccountState
<1>4. CASE d = "enable_external"
  BY <1>1, <1>4, CountCapAssumption DEF Decided
<1>5. CASE d = "disable_dry_run"
  BY <1>5 DEF Decided, AccountState
<1>6. CASE d = "disable"
  <2>1. Bump(s.disableCount) \in 1 .. CountCap
    BY CountCapAssumption DEF Bump, AccountState
  <2> QED
    BY <1>6, <2>1, ClaimedType DEF Decided
<1>7. CASE d = "none" /\ e = "disabled" /\ ~s.disabledByGuard
  BY <1>2, <1>7 DEF Decided
<1>8. CASE /\ d \notin {"enable", "enable_external", "disable_dry_run", "disable"}
           /\ ~(d = "none" /\ e = "disabled" /\ ~s.disabledByGuard)
  BY <1>8 DEF Decided
<1> QED
  BY <1>3, <1>4, <1>5, <1>6, <1>7, <1>8

\* No decision is taken of an account that somebody else switched off.
LEMMA ForeignIsNone ==
    ASSUME NEW S, NEW e, NEW o, NEW a \in Account, e[a] = "disabled",
           S[a].disabledByGuard = FALSE
    PROVE  Decisions(S, e, o)[a] = "none"
<1>1. a \notin Candidates(S, e, o) /\ a \notin Disables(S, e, o)
  BY DEF Candidates, Disables
<1> QED
  BY <1>1 DEF Decisions, Decision

LEMMA DecisionKinds ==
    ASSUME NEW S, NEW e, NEW o, NEW a \in Account
    PROVE  Decisions(S, e, o)[a] \in {"disable", "enable", "disable_dry_run", "enable_external",
                                      "none"}
  BY DEF Decisions, Decision

\* What a round begins with differs from the memory in who owns which account.
LEMMA BegunFields ==
    ASSUME World, NEW begun \in Begun
    PROVE  /\ begun \in Memory
           /\ begun.seen = mind.seen /\ begun.times = mind.times /\ begun.cleared = mind.cleared
           /\ \A a \in Account : begun.accounts[a].streak = mind.accounts[a].streak
<1>1. mind \in Memory
  BY DEF World, TypeOK, Memory
<1>2. CASE adopted
  BY <1>1, <1>2 DEF Begun
<1>3. CASE ~adopted
  <2>1. PICK trail : begun = [mind EXCEPT !.accounts = AdoptOwnership(@, view, trail, opts)]
    BY <1>3 DEF Begun
  <2>2. opts \in NormalOptions
    BY ConfigsAssumption, NormalizedOptions DEF World, TypeOK
  <2> DEFINE adopt == AdoptOwnership(mind.accounts, view, trail, opts)
  <2>3. \A a \in Account : /\ adopt[a] \in AccountState
                           /\ adopt[a].streak = mind.accounts[a].streak
    BY <1>1, <2>2, MemoryFields, AdoptedType DEF AdoptOwnership
  <2>4. adopt \in [Account -> AccountState]
    BY <2>3 DEF AdoptOwnership
  <2>5. begun = [mind EXCEPT !.accounts = adopt]
    BY <2>1
  <2> HIDE DEF adopt
  <2>6. /\ begun \in Memory /\ begun.accounts = adopt /\ begun.seen = mind.seen
        /\ begun.times = mind.times /\ begun.cleared = mind.cleared
    BY <1>1, <2>4, <2>5 DEF Memory, Mind
  <2> QED
    BY <2>3, <2>6
<1> QED
  BY <1>2, <1>3

\* What a round ends with: of every account, a decision took the streak away, and what was
\* counted is noted, or nothing of the two.
LEMMA FinishFields ==
    ASSUME World, NEW m \in Memory, Finish(m)
    PROVE  /\ mind' \in Memory /\ mind'.seen = m.seen /\ mind'.times = m.times
           /\ mind'.accounts = decide(m.accounts, view, Decisions(m.accounts, view, opts), opts)
           /\ \A a \in Account :
                  \/ mind'.cleared[a] = Done(m) /\ mind'.accounts[a].streak = 0
                  \/ /\ mind'.cleared[a] = m.cleared[a]
                     /\ mind'.accounts[a].streak = m.accounts[a].streak
           /\ saved' \in {saved, mind'} /\ view' \in [Account -> Entry] /\ adopted' = TRUE
<1> DEFINE ds == Decisions(m.accounts, view, opts)
           accounts == decide(m.accounts, view, ds, opts)
           cleared == [a \in Account |-> IF a \in Clears(m, ds) THEN Done(m) ELSE m.cleared[a]]
<1>1. /\ mind' = Decide(m, ds)
      /\ view' = [a \in Account |-> IF ds[a] \in {"disable", "enable"}
                                    THEN Want(ds[a]) ELSE view[a]]
      /\ saved' \in {saved, mind'} /\ adopted' = TRUE
  BY DEF Finish
<1>2. mind' = [m EXCEPT !.accounts = accounts, !.cleared = cleared]
  BY <1>1 DEF Decide
<1>3. opts \in NormalOptions
  BY ConfigsAssumption, NormalizedOptions DEF World, TypeOK
<1>4. m.accounts \in [Account -> AccountState] /\ m.cleared \in [Account -> SUBSET Request]
  BY MemoryFields
<1> HIDE DEF ds
<1>5. accounts \in [Account -> AccountState]
  BY <1>3, <1>4, DecidedType DEF decide
<1>6. cleared \in [Account -> SUBSET Request]
  BY <1>4 DEF Done
<1>7. ASSUME NEW a \in Account
      PROVE  \/ cleared[a] = Done(m) /\ accounts[a].streak = 0
             \/ cleared[a] = m.cleared[a] /\ accounts[a].streak = m.accounts[a].streak
  <2>1. accounts[a] = Decided(m.accounts[a], view[a], ds[a], opts)
    BY DEF decide
  <2>2. m.accounts[a] \in AccountState /\ m.accounts[a].disabledByGuard \in BOOLEAN
    BY <1>4 DEF AccountState
  <2>3. CASE a \in Clears(m, ds)
    <3>0. ds[a] \in {"enable", "enable_external"}
          \/ (view[a] = "disabled" /\ m.accounts[a].disabledByGuard = FALSE)
      BY <2>2, <2>3 DEF Clears
    <3>1. ds[a] \in {"enable", "enable_external"}
          \/ (ds[a] = "none" /\ view[a] = "disabled" /\ ~m.accounts[a].disabledByGuard)
      BY <3>0, ForeignIsNone DEF ds
    <3> QED
      BY <1>3, <2>1, <2>2, <2>3, <3>1, DecidedType
  <2>4. CASE a \notin Clears(m, ds)
    <3>1. /\ ds[a] \notin {"enable", "enable_external"}
          /\ ~(ds[a] = "none" /\ view[a] = "disabled" /\ ~m.accounts[a].disabledByGuard)
      BY <2>4 DEF Clears
    <3> QED
      BY <1>3, <2>1, <2>2, <2>4, <3>1, DecidedType
  <2> QED
    BY <2>3, <2>4
<1>8. view' \in [Account -> Entry]
  <2>1. \A d : Want(d) \in Entry
    BY DEF Want, Entry
  <2>2. view \in [Account -> Entry]
    BY DEF World, TypeOK
  <2> QED
    BY <1>1, <2>1, <2>2
<1>9. accounts = decide(m.accounts, view, Decisions(m.accounts, view, opts), opts)
  BY DEF ds
<1> HIDE DEF accounts, cleared
<1>10. /\ mind' \in Memory /\ mind'.seen = m.seen /\ mind'.times = m.times
       /\ mind'.accounts = accounts /\ mind'.cleared = cleared
  BY <1>2, <1>5, <1>6 DEF Memory, Mind
<1> QED
  BY <1>1, <1>7, <1>8, <1>9, <1>10

\* A round, whether it can read the records or not.
LEMMA RoundParts ==
    ASSUME Round \/ RoundUnread
    PROVE  /\ \E begun \in Begun : \E counted \in {Count(begun), begun} : Finish(counted)
           /\ UNCHANGED <<requests, opts>>
  BY DEF Round, RoundUnread

\* Minutes that go by change no streak, ring or count.
LEMMA AgedFields ==
    ASSUME NEW m \in Memory
    PROVE  /\ Aged(m) \in Memory /\ Aged(m).seen = m.seen /\ Aged(m).times = m.times
           /\ Aged(m).cleared = m.cleared
           /\ \A a \in Account : Aged(m).accounts[a].streak = m.accounts[a].streak
<1> DEFINE accounts == Age(m.accounts)
<1>1. Aged(m) = [m EXCEPT !.accounts = accounts]
  BY DEF Aged
<1>2. ASSUME NEW s \in AccountState
      PROVE  /\ [s EXCEPT !.nextRetryAt = IF @ > 0 THEN @ - 1 ELSE @] \in AccountState
             /\ [s EXCEPT !.nextRetryAt = IF @ > 0 THEN @ - 1 ELSE @].streak = s.streak
  BY DEF AccountState, Never
<1>a. m.accounts \in [Account -> AccountState]
  BY MemoryFields
<1>3. /\ accounts \in [Account -> AccountState]
      /\ \A a \in Account : accounts[a].streak = m.accounts[a].streak
  BY <1>2, <1>a DEF Age
<1> HIDE DEF accounts
<1>4. /\ Aged(m) \in Memory /\ Aged(m).seen = m.seen /\ Aged(m).times = m.times
      /\ Aged(m).cleared = m.cleared /\ Aged(m).accounts = accounts
  BY <1>1, <1>3 DEF Memory, Mind
<1> QED
  BY <1>3, <1>4

(* What stays true *)

LEMMA WorldInit == Init => World
<1> SUFFICES ASSUME Init PROVE World
  OBVIOUS
<1>1. FreshAccount \in AccountState
  BY CountCapAssumption DEF FreshAccount, AccountState
<1>2. NewMind \in Memory
  BY <1>1, EvidenceAssumption DEF NewMind, NewState, Memory, Mind
<1>3. 1 \in Account
  BY EvidenceAssumption, NumAccountsAssumption DEF Account
<1>4. mind \in Memory /\ saved \in Memory /\ view \in [Account -> Entry]
  BY <1>2 DEF Init, Entry
<1>5. account \in [Request -> Account] /\ answer \in [Request -> Channel] /\ landed = {}
  BY <1>3 DEF Init, Channel
<1>6. TypeOK
  <2>1. made \in 0 .. NumRequests /\ gone \in 0 .. made /\ landed \subseteq Request
    BY <1>5, EvidenceAssumption DEF Init
  <2>2. opts \in {normalized(o) : o \in Configs} /\ adopted \in BOOLEAN /\ ordered \in BOOLEAN
    BY DEF Init
  <2>3. mind \in Mind /\ saved \in Mind /\ Len(mind.seen) <= SeenLimit
    BY <1>4 DEF Memory
  <2> QED
    BY <1>4, <1>5, <2>1, <2>2, <2>3 DEF TypeOK
<1>7. made - gone <= Window
  BY EvidenceAssumption DEF Init
<1> QED
  BY <1>4, <1>5, <1>6, <1>7 DEF World

LEMMA WorldStep == World /\ [Next]_vars => World'
<1> SUFFICES ASSUME World, [Next]_vars PROVE World'
  OBVIOUS
<1> USE DEF World, TypeOK, Memory, Request, requests, runner
<1>0. made \in Nat /\ gone \in Nat /\ NumRequests \in Nat /\ Window \in Nat
  BY EvidenceAssumption
<1>1. CASE Make
  BY <1>0, <1>1 DEF Make
<1>2. ASSUME NEW r \in Request, Land(r) PROVE World'
  <2>1. r \in 1 .. made /\ landed' = landed \cup {r}
    BY <1>0, <1>2 DEF Land, InHour
  <2>2. account' \in [Request -> Account]
    BY <1>2 DEF Land
  <2>3. PICK c \in {"baseline", "other"} : answer' = [answer EXCEPT ![r] = c]
    BY <1>2 DEF Land
  <2>4. answer' \in [Request -> Channel] /\ \A q \in landed' : answer'[q] \in {"baseline", "other"}
    BY <1>2, <2>1, <2>3 DEF Channel
  <2>5. ordered' \in BOOLEAN
    BY <1>2 DEF Land
  <2> QED
    BY <1>0, <1>2, <2>1, <2>2, <2>4, <2>5 DEF Land
<1>3. CASE Pass
  BY <1>0, <1>3 DEF Pass
<1>4. CASE Round \/ RoundUnread
  <2>1. PICK begun \in Begun : \E counted \in {Count(begun), begun} : Finish(counted)
    BY <1>4, RoundParts
  <2>2. PICK counted \in {Count(begun), begun} : Finish(counted)
    BY <2>1
  <2>3. counted \in Memory
    BY <2>1, BegunFields, CountType
  <2>4. UNCHANGED <<requests, opts>>
    BY <1>4, RoundParts
  <2>5. /\ mind' \in Memory /\ saved' \in {saved, mind'} /\ view' \in [Account -> Entry]
        /\ adopted' = TRUE
    BY <2>2, <2>3, FinishFields
  <2> QED
    BY <2>4, <2>5
<1>5. CASE Restart
  BY <1>5 DEF Restart
<1>6. ASSUME NEW a \in Account, NEW v \in Entry, Edit(a, v) PROVE World'
  BY <1>6 DEF Edit
<1>7. CASE Elapse
  <2>1. mind' \in Memory /\ saved' \in Memory
    BY <1>7, AgedFields DEF Elapse
  <2> QED
    BY <1>7, <2>1 DEF Elapse
<1>8. CASE UNCHANGED vars
  BY <1>8 DEF vars
<1> QED
  BY <1>1, <1>2, <1>3, <1>4, <1>5, <1>6, <1>7, <1>8 DEF Next

LEMMA WorldInvariance == Spec => []World
  BY WorldInit, WorldStep, PTL DEF Spec

-----------------------------------------------------------------------------
(* No request is counted twice *)

\* A request that is counted late stands in the ring among requests that are up to an
\* hour older and up to an hour younger: the ring must hold both hours.
LongRing == 2 * Window - 1 <= SeenLimit

\* Different requests, none of them an hour older than one that was counted before it.
Spaced(seen) ==
    \A i, j \in DOMAIN seen : i < j => seen[i] # seen[j] /\ seen[i] - Window < seen[j]

In(seen, r) == \E i \in DOMAIN seen : seen[i] = r

\* A new token in the ring drives out none of the hour, which begins after g.
LEMMA PushRing ==
    ASSUME LongRing, NEW g \in Nat, NEW r \in Request, g < r, r <= g + Window,
           NEW seen \in Seq(Request), Len(seen) <= SeenLimit, Spaced(seen),
           \A i \in DOMAIN seen : seen[i] # r /\ seen[i] <= g + Window
    PROVE  /\ Spaced(push(seen, r))
           /\ \A q : In(push(seen, r), q) => q = r \/ In(seen, q)
           /\ In(push(seen, r), r)
           /\ \A q : In(seen, q) /\ q > g => In(push(seen, r), q)
<1> DEFINE longer == Append(seen, r)
           n == Len(seen)
<1>1. /\ n \in Nat /\ DOMAIN seen = 1 .. n /\ DOMAIN longer = 1 .. n + 1
      /\ longer \in Seq(Request) /\ Len(longer) = n + 1
      /\ longer[n + 1] = r /\ \A i \in 1 .. n : longer[i] = seen[i] /\ seen[i] \in Request
  OBVIOUS
<1>2. SeenLimit \in Nat \ {0} /\ Window \in Nat \ {0} /\ Request \subseteq Nat
  BY EvidenceAssumption DEF Request
<1>a. push(seen, r) = IF n + 1 > SeenLimit THEN Tail(longer) ELSE longer
  BY <1>1 DEF push
<1>b. n <= SeenLimit /\ \A i \in 1 .. n : seen[i] # r /\ seen[i] <= g + Window
  BY <1>1
<1>c. \A i, j \in 1 .. n : i < j => seen[i] # seen[j] /\ seen[i] - Window < seen[j]
  BY <1>1 DEF Spaced
<1> HIDE DEF longer, n
<1>3. ASSUME NEW i \in 1 .. n + 1 PROVE longer[i] \in Nat /\ longer[i] <= g + Window
  <2>1. CASE i \in 1 .. n
    BY <1>1, <1>2, <1>b, <2>1
  <2>2. CASE i = n + 1
    BY <1>1, <1>2, <2>2
  <2> QED
    BY <1>1, <2>1, <2>2
<1>4. ASSUME NEW i \in 1 .. n + 1, NEW j \in 1 .. n + 1, i < j
      PROVE  longer[i] # longer[j] /\ longer[i] - Window < longer[j]
  <2>1. CASE j = n + 1
    <3>1. i \in 1 .. n
      BY <1>1, <1>4, <2>1
    <3>2. seen[i] \in Nat /\ seen[i] <= g + Window /\ seen[i] # r
      BY <1>1, <1>2, <1>b, <3>1
    <3> QED
      BY <1>1, <1>2, <2>1, <3>1, <3>2
  <2>2. CASE j # n + 1
    <3>1. i \in 1 .. n /\ j \in 1 .. n
      BY <1>1, <1>4, <2>2
    <3> QED
      BY <1>1, <1>4, <1>c, <3>1
  <2> QED
    BY <2>1, <2>2
<1>5. CASE n + 1 <= SeenLimit
  <2>1. push(seen, r) = longer
    BY <1>1, <1>2, <1>5, <1>a
  <2> QED
    BY <1>1, <1>4, <2>1 DEF Spaced, In
<1>6. CASE n + 1 > SeenLimit
  <2>1. n = SeenLimit
    BY <1>1, <1>2, <1>6, <1>b
  <2> DEFINE tail == Tail(longer)
  <2>2. push(seen, r) = tail
    BY <1>1, <1>2, <1>6, <1>a
  <2>3. DOMAIN tail = 1 .. n /\ \A i \in 1 .. n : tail[i] = longer[i + 1]
    BY <1>1, <1>2, <2>1
  <2> HIDE DEF tail
  <2>4. Spaced(tail)
    BY <1>1, <1>4, <2>3 DEF Spaced
  <2>5. \A q : In(tail, q) => q = r \/ In(seen, q)
    <3> SUFFICES ASSUME NEW i \in 1 .. n PROVE tail[i] = r \/ In(seen, tail[i])
      BY <2>3 DEF In
    <3>1. CASE i = n
      BY <1>1, <2>3, <3>1
    <3>2. CASE i # n
      <4>1. i + 1 \in 1 .. n
        BY <1>1, <3>2
      <4> QED
        BY <1>1, <2>3, <4>1 DEF In
    <3> QED
      BY <3>1, <3>2
  <2>6. In(tail, r)
    BY <1>1, <1>2, <2>1, <2>3 DEF In
  <2>a. 1 \in 1 .. n /\ seen[1] \in Nat
    <3>1. 1 \in 1 .. n
      BY <1>2, <2>1
    <3>2. seen[1] \in Request
      BY <1>1, <3>1
    <3> QED
      BY <1>2, <3>1, <3>2
  <2>7. seen[1] <= g
    <3> DEFINE h == seen[1]
               low == h - Window + 1
               high == h + Window - 1
    <3> SUFFICES ASSUME h > g PROVE FALSE
      BY <2>a
    <3>1. h \in Nat /\ longer[1] = h
      BY <1>1, <2>a
    <3>2. \A i \in 1 .. n + 1 : longer[i] \in low .. high
      <4> TAKE i \in 1 .. n + 1
      <4>1. longer[i] \in Nat /\ longer[i] <= high
        BY <1>2, <1>3, <3>1
      <4>2. i = 1 \/ h - Window < longer[i]
        BY <1>1, <1>4, <3>1
      <4> QED
        BY <1>2, <3>1, <4>1, <4>2
    <3>3. low \in Int /\ high \in Int
      BY <1>2, <3>1
    <3>a. ~ (low > high) /\ high - low + 1 = 2 * Window - 1
      BY <1>2, <3>1
    <3> HIDE DEF low, high
    <3>4. IsFiniteSet(low .. high) /\ Cardinality(low .. high) = 2 * Window - 1
      BY <3>a, <3>3, FS_Interval
    <3>5. IsFiniteSet(1 .. n + 1) /\ Cardinality(1 .. n + 1) = n + 1
      BY <1>1, FS_Interval
    <3>6. Cardinality(low .. high) < Cardinality(1 .. n + 1)
      BY <1>1, <1>2, <2>1, <3>4, <3>5 DEF LongRing
    <3> DEFINE f == [i \in 1 .. n + 1 |-> longer[i]]
    <3>7. f \in [1 .. n + 1 -> low .. high]
      BY <3>2
    <3> HIDE DEF f
    <3>8. \E x, y \in 1 .. n + 1 : x # y /\ f[x] = f[y]
      BY <3>4, <3>5, <3>6, <3>7, FS_PigeonHole
    <3>9. PICK x \in 1 .. n + 1, y \in 1 .. n + 1 : x # y /\ longer[x] = longer[y]
      BY <3>8 DEF f
    <3> QED
      BY <1>1, <1>4, <3>9
  <2>8. ASSUME NEW i \in 1 .. n, seen[i] > g PROVE In(tail, seen[i])
    <3>1. i # 1 /\ i - 1 \in 1 .. n
      BY <1>1, <2>a, <2>7, <2>8
    <3>2. tail[i - 1] = seen[i]
      BY <1>1, <2>3, <3>1
    <3> QED
      BY <2>3, <3>1, <3>2 DEF In
  <2>9. \A q : In(seen, q) /\ q > g => In(tail, q)
    BY <1>1, <2>8 DEF In
  <2> QED
    BY <2>2, <2>4, <2>5, <2>6, <2>9
<1> QED
  BY <1>1, <1>2, <1>5, <1>6

\* What ring and counters of a memory say of each other, when the facts of L have landed
\* and the requests up to g have left the hour.
Ring(m, L, g) ==
    /\ Spaced(m.seen)
    /\ \A r : In(m.seen, r) => r \in Done(m)
    /\ \A r \in Done(m) : m.times[r] = 1 /\ r \in L
    /\ \A r \in Done(m) : r > g => In(m.seen, r)

LEMMA RingLater ==
    ASSUME NEW m, NEW L, NEW K, NEW g \in Nat, NEW h \in Nat, L \subseteq K, g <= h,
           Ring(m, L, g)
    PROVE  Ring(m, K, h)
<1>1. \A r \in Done(m) : r > h => In(m.seen, r)
  BY EvidenceAssumption DEF Ring, Done, Request
<1> QED
  BY <1>1 DEF Ring

LEMMA RingSame ==
    ASSUME NEW m, NEW k, NEW L, NEW g, k.seen = m.seen, k.times = m.times, Ring(m, L, g)
    PROVE  Ring(k, L, g)
  BY DEF Ring, Done

\* One sample.
LEMMA ConsumeRing ==
    ASSUME World, LongRing, NEW m \in Memory, Ring(m, landed, gone), NEW r \in InHour
    PROVE  /\ Ring(Consume(m, r), landed, gone)
           /\ Consume(m, r) # m => r \in landed \ Done(m) /\ Done(Consume(m, r)) = Done(m) \cup {r}
           /\ r \in landed /\ view[account[r]] # "absent" => r \in Done(Consume(m, r))
<1>0. /\ made \in Nat /\ gone \in Nat /\ r \in Request /\ r \in 1 .. made /\ gone < r
      /\ Window \in Nat /\ made <= gone + Window
  BY EvidenceAssumption, WorldHour DEF World, TypeOK, InHour
<1>a. r <= gone + Window /\ \A q \in landed : q <= gone + Window /\ q \in Nat
  BY <1>0 DEF World
<1>1. m.seen \in Seq(Request) /\ m.times \in [Request -> Nat] /\ Len(m.seen) <= SeenLimit
  BY DEF Memory, Mind
<1>2. CASE r \notin landed \/ view[account[r]] = "absent" \/ In(m.seen, r)
  <2>1. Consume(m, r) = m
    BY <1>2 DEF Consume, ChannelOf, In, InRing
  <2> QED
    BY <1>2, <2>1 DEF Ring
<1>3. CASE r \in landed /\ view[account[r]] # "absent" /\ ~ In(m.seen, r)
  <2>1. ChannelOf(r) # "none"
    BY <1>0, <1>3 DEF ChannelOf, World
  <2>2. Consume(m, r) = Counting(m, r)
    BY <1>3, <2>1 DEF Consume, In, InRing
  <2>3. r \notin Done(m)
    BY <1>0, <1>3 DEF Ring
  <2> DEFINE c == Consume(m, r)
  <2>4. c.seen = push(m.seen, r) /\ c.times = [m.times EXCEPT ![r] = @ + 1]
    <3>1. /\ Counting(m, r).seen = push(m.seen, r)
          /\ Counting(m, r).times = [m.times EXCEPT ![r] = @ + 1]
      BY <1>0, CountingFields
    <3> QED
      BY <2>2, <3>1
  <2> HIDE DEF c
  <2>5. c.times[r] = 1 /\ \A q \in Request : q # r => c.times[q] = m.times[q]
    <3>1. m.times[r] = 0
      BY <1>0, <1>1, <2>3 DEF Done
    <3> QED
      BY <1>0, <1>1, <2>4, <3>1
  <2>6. Done(c) = Done(m) \cup {r}
    <3>1. \A q \in Request : q \in Done(c) <=> q \in Done(m) \cup {r}
      BY <2>5 DEF Done
    <3>2. Done(c) \subseteq Request /\ Done(m) \cup {r} \subseteq Request
      BY <1>0 DEF Done
    <3> QED
      BY <3>1, <3>2
  <2>7. \A i \in DOMAIN m.seen : m.seen[i] # r /\ m.seen[i] <= gone + Window
    <3> TAKE i \in DOMAIN m.seen
    <3>1. In(m.seen, m.seen[i])
      BY DEF In
    <3>2. m.seen[i] \in landed
      BY <3>1 DEF Ring
    <3>3. m.seen[i] # r
      BY <1>3 DEF In
    <3> QED
      BY <1>a, <3>2, <3>3
  <2>8. /\ Spaced(c.seen) /\ In(c.seen, r)
        /\ \A q : In(c.seen, q) => q = r \/ In(m.seen, q)
        /\ \A q : In(m.seen, q) /\ q > gone => In(c.seen, q)
    <3>1. Spaced(m.seen)
      BY DEF Ring
    <3> QED
      BY <1>0, <1>1, <1>a, <2>4, <2>7, <3>1, PushRing
  <2>9. Ring(c, landed, gone)
    <3>1. \A q : In(c.seen, q) => q \in Done(c)
      BY <2>6, <2>8 DEF Ring
    <3>2. \A q \in Done(c) : c.times[q] = 1 /\ q \in landed
      BY <1>3, <2>3, <2>5, <2>6 DEF Ring, Done
    <3>3. \A q \in Done(c) : q > gone => In(c.seen, q)
      BY <2>6, <2>8 DEF Ring
    <3> QED
      BY <2>8, <3>1, <3>2, <3>3 DEF Ring
  <2> QED
    BY <1>3, <2>3, <2>6, <2>9 DEF c
<1> QED
  BY <1>2, <1>3

\* The ring stands the whole loop.
LEMMA CountRing ==
    ASSUME World, LongRing, NEW m \in Memory, Ring(m, landed, gone)
    PROVE  \A k \in 0 .. made - gone : Ring(Loop(m)[k], landed, gone)
<1> DEFINE n == made - gone
           G == {k \in 0 .. n : Ring(Loop(m)[k], landed, gone)}
<1>1. Hour /\ n \in Nat
  BY WorldHour DEF Hour
<1>2. 0 \in G
  BY <1>1, LoopSteps
<1>3. ASSUME NEW k \in 1 .. n, k - 1 \in G PROVE k \in G
  <2>1. gone + k \in InHour /\ k - 1 \in 0 .. n /\ k \in 0 .. n
    BY <1>1 DEF Hour, InHour
  <2>2. Loop(m)[k - 1] \in Memory
    BY <2>1, LoopType
  <2>3. Ring(Consume(Loop(m)[k - 1], gone + k), landed, gone)
    BY <1>3, <2>1, <2>2, ConsumeRing
  <2> QED
    BY <1>1, <2>1, <2>3, LoopSteps
<1> HIDE DEF G
<1>4. \A k \in 0 .. n : k \in G
  BY <1>1, <1>2, <1>3, EachStep
<1> QED
  BY <1>4 DEF G

\* Counting or not.
LEMMA CountedRing ==
    ASSUME World, LongRing, NEW m \in Memory, Ring(m, landed, gone)
    PROVE  Ring(Count(m), landed, gone)
<1>1. Hour /\ made - gone \in 0 .. made - gone
  BY WorldHour DEF Hour
<1>2. Ring(Loop(m)[made - gone], landed, gone)
  BY <1>1, CountRing
<1> QED
  BY <1>1, <1>2, LoopSteps

RingInv == Ring(mind, landed, gone) /\ Ring(saved, landed, gone)

LEMMA RingInit == Init => RingInv
  BY DEF Init, RingInv, Ring, NewMind, Spaced, In, Done

LEMMA RingStep == World /\ LongRing /\ RingInv /\ [Next]_vars => RingInv'
<1> SUFFICES ASSUME World, LongRing, RingInv, [Next]_vars PROVE RingInv'
  OBVIOUS
<1> USE DEF requests, runner
<1>0. gone \in Nat /\ gone + 1 \in Nat
  BY DEF World, TypeOK
<1>1. CASE Make \/ UNCHANGED vars
  BY <1>1 DEF Make, vars, RingInv
<1>2. ASSUME NEW r \in Request, Land(r) PROVE RingInv'
  <2>1. landed \subseteq landed' /\ gone' = gone /\ mind' = mind /\ saved' = saved
    BY <1>2 DEF Land
  <2>2. Ring(mind, landed', gone) /\ Ring(saved, landed', gone)
    BY <1>0, <2>1, RingLater DEF RingInv
  <2> QED
    BY <2>1, <2>2 DEF RingInv
<1>3. CASE Pass
  <2>1. landed' = landed /\ gone' = gone + 1 /\ mind' = mind /\ saved' = saved
    BY <1>3 DEF Pass
  <2>2. Ring(mind, landed, gone + 1) /\ Ring(saved, landed, gone + 1)
    BY <1>0, RingLater DEF RingInv
  <2> QED
    BY <2>1, <2>2 DEF RingInv
<1>4. CASE Round \/ RoundUnread
  <2>1. PICK begun \in Begun : \E counted \in {Count(begun), begun} : Finish(counted)
    BY <1>4, RoundParts
  <2>2. PICK counted \in {Count(begun), begun} : Finish(counted)
    BY <2>1
  <2>3. begun \in Memory /\ Ring(begun, landed, gone)
    BY BegunFields, RingSame DEF RingInv
  <2>4. counted \in Memory /\ Ring(counted, landed, gone)
    BY <2>3, CountType, CountedRing
  <2>5. mind'.seen = counted.seen /\ mind'.times = counted.times /\ saved' \in {saved, mind'}
    BY <2>2, <2>4, FinishFields
  <2>6. Ring(mind', landed, gone)
    BY <2>4, <2>5, RingSame
  <2>7. landed' = landed /\ gone' = gone
    BY <1>4, RoundParts
  <2> QED
    BY <2>5, <2>6, <2>7 DEF RingInv
<1>5. CASE Restart
  BY <1>5 DEF Restart, RingInv
<1>6. ASSUME NEW a \in Account, NEW v \in Entry, Edit(a, v) PROVE RingInv'
  BY <1>6 DEF Edit, RingInv
<1>7. CASE Elapse
  <2>1. mind' = Aged(mind) /\ saved' = Aged(saved) /\ landed' = landed /\ gone' = gone
    BY <1>7 DEF Elapse
  <2>2. mind \in Memory /\ saved \in Memory
    BY DEF World, TypeOK, Memory
  <2>3. Ring(Aged(mind), landed, gone) /\ Ring(Aged(saved), landed, gone)
    BY <2>2, AgedFields, RingSame DEF RingInv
  <2> QED
    BY <2>1, <2>3 DEF RingInv
<1> QED
  BY <1>1, <1>2, <1>3, <1>4, <1>5, <1>6, <1>7 DEF Next

LEMMA RingInvariance == ASSUME LongRing PROVE Spec => []RingInv
  BY RingInit, RingStep, WorldInvariance, PTL DEF Spec

\* With a ring that holds twice the requests of an hour, less one, no request is counted
\* twice, however late its fact lands and whatever state file a restart goes back to.
THEOREM CountsOnce == ASSUME LongRing PROVE Spec => []CountedOnce
<1>1. World /\ RingInv => CountedOnce
  BY EvidenceAssumption DEF World, TypeOK, Mind, RingInv, Ring, Done, CountedOnce
<1> QED
  BY <1>1, WorldInvariance, RingInvariance, PTL

-----------------------------------------------------------------------------
(* The streak is the run of the last answers off the baseline *)

\* RunLength, of accounts and answers that are given.
RunOf(a, S, acc, ans) ==
    LET mine == {r \in S : acc[r] = a}
        base == {r \in mine : ans[r] = "baseline"}
    IN  Cardinality({r \in mine : \A b \in base : b < r})

LEMMA RunIsRunOf == \A a, S : RunLength(a, S) = RunOf(a, S, account, answer)
  BY DEF RunLength, RunOf

LEMMA RunSame ==
    ASSUME NEW a, NEW S, NEW acc, NEW ans, NEW acc2, NEW ans2,
           \A r \in S : acc2[r] = acc[r] /\ ans2[r] = ans[r]
    PROVE  RunOf(a, S, acc2, ans2) = RunOf(a, S, acc, ans)
<1>1. {r \in S : acc2[r] = a} = {r \in S : acc[r] = a}
  OBVIOUS
<1>2. {r \in {q \in S : acc[q] = a} : ans2[r] = "baseline"}
      = {r \in {q \in S : acc[q] = a} : ans[r] = "baseline"}
  OBVIOUS
<1> QED
  BY <1>1, <1>2 DEF RunOf

LEMMA RunOfMine ==
    ASSUME NEW a, NEW S, NEW T \in SUBSET S, NEW acc, NEW ans,
           \A r \in S : r \in T <=> acc[r] = a
    PROVE  RunOf(a, T, acc, ans) = RunOf(a, S, acc, ans)
<1>1. {r \in T : acc[r] = a} = {r \in S : acc[r] = a}
  OBVIOUS
<1> QED
  BY <1>1 DEF RunOf

LEMMA RunEmpty == ASSUME NEW a, NEW acc, NEW ans PROVE RunOf(a, {}, acc, ans) = 0
<1>1. {r \in {q \in {} : acc[q] = a} :
          \A b \in {q \in {p \in {} : acc[p] = a} : ans[q] = "baseline"} : b < r} = {}
  OBVIOUS
<1> QED
  BY <1>1, FS_EmptySet DEF RunOf

\* What the youngest answer makes of a run.
LEMMA RunGrows ==
    ASSUME NEW a, NEW S \in SUBSET Request, NEW acc, NEW ans, NEW r \in Request,
           \A c \in S : acc[c] = acc[r] => c < r
    PROVE  RunOf(a, S \cup {r}, acc, ans) =
               IF acc[r] # a THEN RunOf(a, S, acc, ans)
               ELSE IF ans[r] = "baseline" THEN 0 ELSE RunOf(a, S, acc, ans) + 1
<1> DEFINE mine == {q \in S : acc[q] = a}
           base == {q \in mine : ans[q] = "baseline"}
           run == {q \in mine : \A b \in base : b < q}
           mine2 == {q \in S \cup {r} : acc[q] = a}
           base2 == {q \in mine2 : ans[q] = "baseline"}
           run2 == {q \in mine2 : \A b \in base2 : b < q}
<1>0. r \in Nat /\ \A c \in S : c \in Nat /\ (acc[c] = acc[r] => c < r)
  BY EvidenceAssumption DEF Request
<1>1. RunOf(a, S, acc, ans) = Cardinality(run) /\ RunOf(a, S \cup {r}, acc, ans) = Cardinality(run2)
  BY DEF RunOf
<1>2. IsFiniteSet(run)
  <2>1. IsFiniteSet(Request)
    BY EvidenceAssumption, FS_Interval DEF Request
  <2> QED
    BY <2>1, FS_Subset
<1>3. CASE acc[r] # a
  <2>1. mine2 = mine
    BY <1>3
  <2> QED
    BY <1>1, <1>3, <2>1
<1>4. CASE acc[r] = a /\ ans[r] = "baseline"
  <2>1. r \in base2
    BY <1>4
  <2>2. \A q \in mine2 : ~ (r < q)
    BY <1>0, <1>4
  <2>3. run2 = {}
    BY <2>1, <2>2
  <2> QED
    BY <1>1, <1>4, <2>3, FS_EmptySet
<1>5. CASE acc[r] = a /\ ans[r] # "baseline"
  <2>1. mine2 = mine \cup {r} /\ base2 = base
    BY <1>5
  <2>2. \A b \in base : b < r
    BY <1>0, <1>5
  <2>3. run2 = run \cup {r}
    BY <2>1, <2>2
  <2>4. r \notin run
    BY <1>0
  <2> QED
    BY <1>1, <1>2, <1>5, <2>3, <2>4, FS_AddElement
<1> QED
  BY <1>3, <1>4, <1>5

\* A sample that counts.
LEMMA ConsumeCounts ==
    ASSUME World, NEW m \in Memory, NEW r \in InHour, Consume(m, r) # m
    PROVE  /\ Consume(m, r).accounts = [m.accounts EXCEPT ![account[r]] = Streak(@, answer[r])]
           /\ Consume(m, r).times = [m.times EXCEPT ![r] = @ + 1]
           /\ Consume(m, r).cleared = m.cleared
           /\ r \in landed /\ account[r] \in Account /\ answer[r] \in {"baseline", "other"}
           /\ view[account[r]] # "absent"
<1>1. r \in landed /\ view[account[r]] # "absent" /\ Consume(m, r) = Counting(m, r)
  BY DEF Consume, ChannelOf
<1>2. ChannelOf(r) = answer[r] /\ account[r] \in Account /\ answer[r] \in {"baseline", "other"}
  BY <1>1, WorldHour DEF ChannelOf, World, TypeOK, InHour
<1>3. r \in Request
  BY WorldHour
<1> QED
  BY <1>1, <1>2, <1>3, CountingFields

\* The streaks of a memory, when the facts of L have landed and the requests up to g have
\* left the hour: what it counted last of an account is the youngest it can count of it.
Runs(m, L, g, acc, ans) ==
    /\ \A a \in Account : /\ m.cleared[a] \subseteq Done(m)
                         /\ m.accounts[a].streak = RunOf(a, Done(m) \ m.cleared[a], acc, ans)
    /\ \A c \in Done(m), r \in L : acc[r] = acc[c] /\ g < r /\ r < c => r \in Done(m)

LEMMA ConsumeRuns ==
    ASSUME World, LongRing, NEW m \in Memory, Ring(m, landed, gone), NEW r \in InHour,
           Runs(m, landed, gone, account, answer),
           \A q \in landed : view[account[q]] # "absent" /\ gone < q /\ q < r => q \in Done(m)
    PROVE  Runs(Consume(m, r), landed, gone, account, answer)
<1>1. CASE Consume(m, r) = m
  BY <1>1
<1>2. CASE Consume(m, r) # m
  <2> DEFINE c == Consume(m, r)
  <2>1. /\ c.accounts = [m.accounts EXCEPT ![account[r]] = Streak(@, answer[r])]
        /\ c.cleared = m.cleared
        /\ r \in landed /\ account[r] \in Account /\ answer[r] \in {"baseline", "other"}
        /\ view[account[r]] # "absent"
    BY <1>2, ConsumeCounts
  <2>2. Done(c) = Done(m) \cup {r} /\ r \notin Done(m)
    BY <1>2, ConsumeRing
  <2> HIDE DEF c
  <2>3. r \in Request /\ gone < r /\ gone \in Nat /\ Request \subseteq Nat
    BY WorldHour, EvidenceAssumption DEF InHour, World, TypeOK, Request
  <2>4. \A q \in Done(m) : account[q] = account[r] => q < r
    <3>1. \A q \in Done(m) : account[q] = account[r] => ~(r < q) /\ q # r /\ q \in Nat
      BY <2>1, <2>2, <2>3 DEF Runs, Done
    <3> QED
      BY <2>3, <3>1
  <2>5. ASSUME NEW a \in Account
        PROVE  /\ c.cleared[a] \subseteq Done(c)
               /\ c.accounts[a].streak = RunOf(a, Done(c) \ c.cleared[a], account, answer)
    <3> DEFINE S == Done(m) \ m.cleared[a]
    <3>0. m.cleared[a] \subseteq Done(m) /\ Done(c) \ c.cleared[a] = S \cup {r}
          /\ c.cleared[a] \subseteq Done(c)
      BY <2>1, <2>2 DEF Runs
    <3>1. RunOf(a, S \cup {r}, account, answer) =
              IF account[r] # a THEN RunOf(a, S, account, answer)
              ELSE IF answer[r] = "baseline" THEN 0 ELSE RunOf(a, S, account, answer) + 1
      <4>1. S \in SUBSET Request /\ r \in Request
        BY <2>3 DEF Done
      <4>2. \A q \in S : account[q] = account[r] => q < r
        BY <2>4
      <4> HIDE DEF S
      <4> QED
        BY <4>1, <4>2, RunGrows
    <3>2. m.accounts \in [Account -> AccountState]
      BY MemoryFields
    <3>3. m.accounts[a].streak = RunOf(a, S, account, answer)
      BY DEF Runs
    <3> HIDE DEF S
    <3>4. CASE account[r] = a
      <4>1. c.accounts[a] = Streak(m.accounts[a], answer[r])
        BY <2>1, <3>2, <3>4
      <4>2. c.accounts[a].streak = IF answer[r] = "baseline" THEN 0 ELSE m.accounts[a].streak + 1
        BY <2>1, <3>2, <4>1, StreakType DEF Channel
      <4> QED
        BY <3>0, <3>1, <3>3, <3>4, <4>2
    <3>5. CASE account[r] # a
      BY <2>1, <3>0, <3>1, <3>2, <3>3, <3>5
    <3> QED
      BY <3>0, <3>4, <3>5
  <2>6. ASSUME NEW d \in Done(c), NEW q \in landed, account[q] = account[d], gone < q, q < d
        PROVE  q \in Done(c)
    <3>1. CASE d \in Done(m)
      BY <2>2, <2>6, <3>1 DEF Runs
    <3>2. CASE d = r
      BY <2>1, <2>2, <2>6, <3>2
    <3> QED
      BY <2>2, <3>1, <3>2
  <2> QED
    BY <2>5, <2>6 DEF Runs, c
<1> QED
  BY <1>1, <1>2

LEMMA CountRuns ==
    ASSUME World, LongRing, NEW m \in Memory, Ring(m, landed, gone),
           Runs(m, landed, gone, account, answer)
    PROVE  Runs(Count(m), landed, gone, account, answer)
<1> DEFINE n == made - gone
           Upto(k) == \A q \in landed : view[account[q]] # "absent" /\ gone < q /\ q <= gone + k
                                             => q \in Done(Loop(m)[k])
           G == {k \in 0 .. n : Runs(Loop(m)[k], landed, gone, account, answer) /\ Upto(k)}
<1>1. Hour /\ n \in Nat /\ gone \in Nat /\ landed \subseteq Nat
  BY WorldHour DEF Hour, World
<1>2. 0 \in G
  BY <1>1, LoopSteps
<1>3. ASSUME NEW k \in 1 .. n, k - 1 \in G PROVE k \in G
  <2> DEFINE l == Loop(m)[k - 1]
             r == gone + k
  <2>1. r \in InHour /\ k - 1 \in 0 .. n /\ k \in 0 .. n
    BY <1>1 DEF Hour, InHour
  <2>2. l \in Memory /\ Ring(l, landed, gone)
    BY <2>1, LoopType, CountRing
  <2>3. Loop(m)[k] = Consume(l, r)
    BY <1>1, LoopSteps
  <2>4. Runs(l, landed, gone, account, answer)
        /\ \A q \in landed : view[account[q]] # "absent" /\ gone < q /\ q < r => q \in Done(l)
    BY <1>1, <1>3
  <2> HIDE DEF l
  <2>5. Runs(Consume(l, r), landed, gone, account, answer)
    BY <2>1, <2>2, <2>4, ConsumeRuns
  <2>6. /\ Done(l) \subseteq Done(Consume(l, r))
        /\ r \in landed /\ view[account[r]] # "absent" => r \in Done(Consume(l, r))
    BY <2>1, <2>2, ConsumeRing
  <2>7. ASSUME NEW q \in landed, view[account[q]] # "absent", gone < q, q <= gone + k
        PROVE  q \in Done(Consume(l, r))
    <3>1. q < r \/ q = r
      BY <1>1, <2>7
    <3> QED
      BY <2>4, <2>6, <2>7, <3>1
  <2> QED
    BY <2>1, <2>3, <2>5, <2>7
<1> HIDE DEF G
<1>4. n \in G
  BY <1>1, <1>2, <1>3, EachStep
<1> QED
  BY <1>1, <1>4, LoopSteps DEF G

\* While the facts land in order, they are those of the oldest requests.
RunInv ==
    ordered => /\ \A c \in landed : 1 .. c \subseteq landed
               /\ Runs(mind, landed, gone, account, answer)
               /\ Runs(saved, landed, gone, account, answer)

LEMMA RunInit == Init => RunInv
<1> SUFFICES ASSUME Init PROVE RunInv
  OBVIOUS
<1>1. Done(NewMind) = {}
  BY DEF Done, NewMind
<1>2. \A a \in Account : NewMind.accounts[a].streak = 0 /\ NewMind.cleared[a] = {}
  BY DEF NewMind, NewState, FreshAccount
<1>3. \A a \in Account : Done(NewMind) \ NewMind.cleared[a] = {}
  BY <1>1
<1> QED
  BY <1>1, <1>2, <1>3, RunEmpty DEF Init, RunInv, Runs

\* A memory's runs stay while what it counted is as it was, and what it did not count
\* has left the hour or is younger.
LEMMA RunsKept ==
    ASSUME NEW m, NEW L, NEW g \in Nat, NEW acc, NEW ans, Runs(m, L, g, acc, ans),
           NEW K \in SUBSET Nat, NEW h \in Nat, NEW acc2, NEW ans2, g <= h,
           \A r \in L \cup Done(m) : acc2[r] = acc[r] /\ ans2[r] = ans[r],
           \A r \in K \ L, c \in Done(m) : c < r
    PROVE  Runs(m, K, h, acc2, ans2)
<1>1. ASSUME NEW a \in Account
      PROVE  RunOf(a, Done(m) \ m.cleared[a], acc2, ans2)
             = RunOf(a, Done(m) \ m.cleared[a], acc, ans)
  <2>1. \A r \in Done(m) \ m.cleared[a] : acc2[r] = acc[r] /\ ans2[r] = ans[r]
    OBVIOUS
  <2> QED
    BY <2>1, RunSame
<1>2. ASSUME NEW c \in Done(m), NEW r \in K, acc2[r] = acc2[c], h < r, r < c
      PROVE  r \in Done(m)
  <2>1. c \in Nat /\ g < r
    BY <1>2, EvidenceAssumption DEF Done, Request
  <2>2. r \in L
    <3>1. r \in Nat /\ ~ (c < r)
      BY <1>2, <2>1
    <3> QED
      BY <1>2, <3>1
  <2>3. acc[r] = acc[c]
    BY <1>2, <2>2
  <2> QED
    BY <1>2, <2>1, <2>2, <2>3 DEF Runs
<1> QED
  BY <1>1, <1>2 DEF Runs

\* A memory that differs in who owns which account, or in minutes that went by.
LEMMA RunsSame ==
    ASSUME NEW m, NEW k, NEW L, NEW g, NEW acc, NEW ans, Runs(m, L, g, acc, ans),
           k.times = m.times, k.cleared = m.cleared,
           \A a \in Account : k.accounts[a].streak = m.accounts[a].streak
    PROVE  Runs(k, L, g, acc, ans)
<1>1. Done(k) = Done(m)
  BY DEF Done
<1> QED
  BY <1>1 DEF Runs

\* The decisions leave the run of what was counted, or no run and nothing to count.
LEMMA FinishRuns ==
    ASSUME World, NEW m \in Memory, Finish(m), Runs(m, landed, gone, account, answer)
    PROVE  Runs(mind', landed, gone, account, answer)
<1>1. Done(mind') = Done(m)
  BY FinishFields DEF Done
<1>2. ASSUME NEW a \in Account
      PROVE  /\ mind'.cleared[a] \subseteq Done(mind')
             /\ mind'.accounts[a].streak
                    = RunOf(a, Done(mind') \ mind'.cleared[a], account, answer)
  <2>1. CASE mind'.cleared[a] = Done(m) /\ mind'.accounts[a].streak = 0
    <3>1. Done(mind') \ mind'.cleared[a] = {}
      BY <1>1, <2>1
    <3> QED
      BY <1>1, <2>1, <3>1, RunEmpty
  <2>2. CASE /\ mind'.cleared[a] = m.cleared[a]
             /\ mind'.accounts[a].streak = m.accounts[a].streak
    BY <1>1, <2>2 DEF Runs
  <2> QED
    BY <2>1, <2>2, FinishFields
<1> QED
  BY <1>1, <1>2 DEF Runs

LEMMA RunStep == World /\ LongRing /\ RingInv /\ RunInv /\ [Next]_vars => RunInv'
<1> SUFFICES ASSUME World, LongRing, RingInv, RunInv, [Next]_vars, ordered'
             PROVE  RunInv'
  BY DEF RunInv
<1> USE DEF requests, runner
<1>0. /\ gone \in Nat /\ gone + 1 \in Nat /\ made \in Nat /\ landed \subseteq 1 .. made
      /\ landed \subseteq Nat
      /\ \A m \in {mind, saved} : Done(m) \subseteq landed
  BY DEF World, TypeOK, RingInv, Ring
<1>1. CASE Make \/ UNCHANGED vars
  BY <1>1 DEF Make, vars, RunInv
<1>2. ASSUME NEW r \in Request, Land(r) PROVE RunInv'
  <2>1. /\ UNCHANGED <<gone, mind, saved>> /\ landed' = landed \cup {r}
        /\ ordered /\ 1 .. r - 1 \subseteq landed /\ r \notin landed /\ r \in 1 .. made
    <3>1. ordered /\ 1 .. (r - 1) \subseteq landed
      BY <1>2 DEF Land
    <3> QED
      BY <1>0, <1>2, <3>1 DEF Land, InHour
  <2>2. \A c \in landed : c < r
    BY <1>0, <2>1 DEF RunInv
  <2>3. landed' \subseteq Nat /\ \A c \in landed' : 1 .. c \subseteq landed'
    BY <1>0, <2>1 DEF RunInv
  <2>4. \A q \in landed : account'[q] = account[q] /\ answer'[q] = answer[q]
    BY <1>2, <2>1 DEF Land, World, TypeOK
  <2>5. ASSUME NEW m \in {mind, saved} PROVE Runs(m, landed', gone, account', answer')
    <3> DEFINE K == landed'
               acc == account'
               ans == answer'
    <3>1. Runs(m, landed, gone, account, answer)
      BY <2>1 DEF RunInv
    <3>2. \A q \in K \ landed, c \in Done(m) : c < q
      BY <1>0, <2>1, <2>2
    <3>3. \A q \in landed \cup Done(m) : acc[q] = account[q] /\ ans[q] = answer[q]
      BY <1>0, <2>4
    <3>4. K \in SUBSET Nat /\ gone \in Nat /\ gone <= gone
      BY <1>0, <2>3
    <3> HIDE DEF K, acc, ans
    <3>5. Runs(m, K, gone, acc, ans)
      BY <3>1, <3>2, <3>3, <3>4, RunsKept
    <3> QED
      BY <3>5 DEF K, acc, ans
  <2> QED
    BY <2>1, <2>3, <2>5 DEF RunInv
<1>3. CASE Pass
  <2>1. UNCHANGED <<account, answer, landed, mind, saved>> /\ gone' = gone + 1 /\ ordered
    BY <1>3 DEF Pass
  <2>2. \A m \in {mind, saved} : Runs(m, landed, gone + 1, account, answer)
    BY <1>0, <2>1, RunsKept DEF RunInv
  <2> QED
    BY <2>1, <2>2 DEF RunInv
<1>4. CASE Round \/ RoundUnread
  <2>1. PICK begun \in Begun : \E counted \in {Count(begun), begun} : Finish(counted)
    BY <1>4, RoundParts
  <2>2. PICK counted \in {Count(begun), begun} : Finish(counted)
    BY <2>1
  <2>3. UNCHANGED <<account, answer, landed, gone, ordered>>
    BY <1>4, RoundParts
  <2>4. begun \in Memory /\ Ring(begun, landed, gone)
    BY BegunFields, RingSame DEF RingInv
  <2>5. Runs(begun, landed, gone, account, answer)
    BY <2>3, BegunFields, RunsSame DEF RunInv
  <2>6. counted \in Memory /\ Runs(counted, landed, gone, account, answer)
    BY <2>4, <2>5, CountType, CountRuns
  <2>7. Runs(mind', landed, gone, account, answer)
    BY <2>2, <2>6, FinishRuns
  <2>8. saved' \in {saved, mind'}
    BY <2>2, <2>6, FinishFields
  <2> QED
    BY <2>3, <2>7, <2>8 DEF RunInv
<1>5. CASE Restart
  BY <1>5 DEF Restart, RunInv
<1>6. ASSUME NEW a \in Account, NEW v \in Entry, Edit(a, v) PROVE RunInv'
  BY <1>6 DEF Edit, RunInv
<1>7. CASE Elapse
  <2>1. /\ mind' = Aged(mind) /\ saved' = Aged(saved)
        /\ UNCHANGED <<account, answer, landed, gone, ordered>>
    BY <1>7 DEF Elapse
  <2>2. mind \in Memory /\ saved \in Memory
    BY DEF World, TypeOK, Memory
  <2>3. /\ Runs(Aged(mind), landed, gone, account, answer)
        /\ Runs(Aged(saved), landed, gone, account, answer)
    BY <2>1, <2>2, AgedFields, RunsSame DEF RunInv
  <2> QED
    BY <2>1, <2>3 DEF RunInv
<1> QED
  BY <1>1, <1>2, <1>3, <1>4, <1>5, <1>6, <1>7 DEF Next

\* While facts land in the order of their requests, before they leave the hour, the streak
\* of an account is what the records say: how many of the requests counted last, in a row,
\* were not on the baseline, since a decision last took the streak away.
THEOREM StreakIsRead == ASSUME LongRing PROVE Spec => []StreakIsRun
<1>1. RunInv => StreakIsRun
  BY RunIsRunOf DEF RunInv, Runs, StreakIsRun
<1> QED
  BY <1>1, RunInit, RunStep, WorldInvariance, RingInvariance, PTL DEF Spec

-----------------------------------------------------------------------------
(* The loop in one batch per account *)

\* What a round's fresh requests F say of an account.
BatchOf(a, F) == [baseline |-> \E r \in F : account[r] = a /\ answer[r] = "baseline",
                  off      |-> RunOf(a, F, account, answer)]

Fresh(m, l) == {r \in Request : l.times[r] > m.times[r]}

\* Where the loop is after k samples, if it began with m.
Summed(m, l, k) ==
    /\ Fresh(m, l) \subseteq (gone + 1) .. (gone + k)
    /\ \A r \in Fresh(m, l) : view[account[r]] # "absent"
    /\ \A r \in Request \ Fresh(m, l) : l.times[r] = m.times[r]
    /\ \A a \in Account : l.accounts[a] = CountAccount(m.accounts[a], BatchOf(a, Fresh(m, l)))

LEMMA SameAccount ==
    ASSUME NEW s \in AccountState, NEW t \in AccountState,
           s.streak = t.streak, s.disabledByGuard = t.disabledByGuard,
           s.disableCount = t.disableCount, s.nextRetryAt = t.nextRetryAt,
           s.dryRunReported = t.dryRunReported
    PROVE  s = t
  BY DEF AccountState

LEMMA CountFields ==
    ASSUME NEW s \in AccountState, NEW b \in [baseline : BOOLEAN, off : Nat]
    PROVE  /\ CountAccount(s, b) \in AccountState
           /\ CountAccount(s, b).streak = (IF b.baseline THEN 0 ELSE s.streak) + b.off
           /\ CountAccount(s, b).disabledByGuard = s.disabledByGuard
           /\ CountAccount(s, b).disableCount = s.disableCount
           /\ CountAccount(s, b).nextRetryAt = s.nextRetryAt
           /\ CountAccount(s, b).dryRunReported = (s.dryRunReported /\ ~ b.baseline)
<1>1. (s.dryRunReported /\ ~ b.baseline) \in BOOLEAN
  OBVIOUS
<1>2. (IF b.baseline THEN 0 ELSE s.streak) + b.off \in Nat
  BY DEF AccountState
<1>3. CountAccount(s, b) \in AccountState
  BY <1>1, <1>2 DEF CountAccount, AccountState
<1> QED
  BY <1>3 DEF CountAccount

LEMMA StreakFields ==
    ASSUME NEW s \in AccountState, NEW c
    PROVE  /\ Streak(s, c).streak = IF c = "baseline" THEN 0 ELSE s.streak + 1
           /\ Streak(s, c).disabledByGuard = s.disabledByGuard
           /\ Streak(s, c).disableCount = s.disableCount
           /\ Streak(s, c).nextRetryAt = s.nextRetryAt
           /\ Streak(s, c).dryRunReported = IF c = "baseline" THEN FALSE ELSE s.dryRunReported
<1>1. CASE c = "baseline"
  BY <1>1 DEF Streak, AccountState
<1>2. CASE c # "baseline"
  BY <1>2 DEF Streak, AccountState
<1> QED
  BY <1>1, <1>2

LEMMA SummaryGrows ==
    ASSUME NEW s \in AccountState, NEW b \in [baseline : BOOLEAN, off : Nat]
    PROVE  /\ CountAccount(s, [baseline |-> b.baseline, off |-> b.off + 1])
              = Streak(CountAccount(s, b), "other")
           /\ CountAccount(s, [baseline |-> TRUE, off |-> 0])
              = Streak(CountAccount(s, b), "baseline")
<1> DEFINE other == [baseline |-> b.baseline, off |-> b.off + 1]
           base == [baseline |-> TRUE, off |-> 0]
<1>1. /\ other \in [baseline : BOOLEAN, off : Nat] /\ base \in [baseline : BOOLEAN, off : Nat]
      /\ other.baseline = b.baseline /\ other.off = b.off + 1
      /\ base.baseline = TRUE /\ base.off = 0
  OBVIOUS
<1> HIDE DEF other, base
<1> DEFINE t == CountAccount(s, b)
<1>2. t \in AccountState /\ s.streak \in Nat /\ b.off \in Nat
  BY CountFields DEF AccountState
<1>3. t.streak = (IF b.baseline THEN 0 ELSE s.streak) + b.off
  BY CountFields
<1>4. t.dryRunReported = (s.dryRunReported /\ ~ b.baseline)
  BY CountFields
<1>5. /\ t.disabledByGuard = s.disabledByGuard /\ t.disableCount = s.disableCount
      /\ t.nextRetryAt = s.nextRetryAt
  BY CountFields
<1> HIDE DEF t
<1>6. CountAccount(s, other) = Streak(t, "other")
  <2>1. CountAccount(s, other) \in AccountState /\ Streak(t, "other") \in AccountState
    BY <1>1, <1>2, CountFields, StreakType DEF Channel
  <2>2. CountAccount(s, other).streak = Streak(t, "other").streak
    <3>1. CountAccount(s, other).streak
          = (IF other.baseline THEN 0 ELSE s.streak) + other.off
      BY <1>1, CountFields
    <3>2. Streak(t, "other").streak = t.streak + 1
      BY <1>2, StreakFields
    <3> QED
      BY <1>1, <1>2, <1>3, <3>1, <3>2
  <2>3. CountAccount(s, other).dryRunReported = Streak(t, "other").dryRunReported
    <3>1. CountAccount(s, other).dryRunReported = (s.dryRunReported /\ ~ b.baseline)
      BY <1>1, CountFields
    <3>2. Streak(t, "other").dryRunReported = t.dryRunReported
      BY <1>2, StreakFields
    <3> QED
      BY <1>4, <3>1, <3>2
  <2>4. /\ CountAccount(s, other).disabledByGuard = Streak(t, "other").disabledByGuard
        /\ CountAccount(s, other).disableCount = Streak(t, "other").disableCount
        /\ CountAccount(s, other).nextRetryAt = Streak(t, "other").nextRetryAt
    BY <1>1, <1>2, <1>5, CountFields, StreakFields
  <2> QED
    BY <2>1, <2>2, <2>3, <2>4, SameAccount
<1>7. CountAccount(s, base) = Streak(t, "baseline")
  <2>1. CountAccount(s, base) \in AccountState /\ Streak(t, "baseline") \in AccountState
    BY <1>1, <1>2, CountFields, StreakType DEF Channel
  <2>2. CountAccount(s, base).streak = Streak(t, "baseline").streak
    <3>1. CountAccount(s, base).streak = (IF base.baseline THEN 0 ELSE s.streak) + base.off
      BY <1>1, CountFields
    <3>2. Streak(t, "baseline").streak = 0
      BY <1>2, StreakFields
    <3> QED
      BY <1>1, <1>2, <3>1, <3>2
  <2>3. CountAccount(s, base).dryRunReported = Streak(t, "baseline").dryRunReported
    <3>1. CountAccount(s, base).dryRunReported = (s.dryRunReported /\ ~ TRUE)
      BY <1>1, CountFields
    <3>2. Streak(t, "baseline").dryRunReported = FALSE
      BY <1>2, StreakFields
    <3> QED
      BY <3>1, <3>2
  <2>4. /\ CountAccount(s, base).disabledByGuard = Streak(t, "baseline").disabledByGuard
        /\ CountAccount(s, base).disableCount = Streak(t, "baseline").disableCount
        /\ CountAccount(s, base).nextRetryAt = Streak(t, "baseline").nextRetryAt
    BY <1>1, <1>2, <1>5, CountFields, StreakFields
  <2> QED
    BY <2>1, <2>2, <2>3, <2>4, SameAccount
<1> QED
  BY <1>6, <1>7 DEF other, base, t

LEMMA RunType ==
    ASSUME NEW a, NEW S \in SUBSET Request, NEW acc, NEW ans PROVE RunOf(a, S, acc, ans) \in Nat
<1>1. IsFiniteSet(Request)
  BY EvidenceAssumption, FS_Interval DEF Request
<1> QED
  BY <1>1, FS_Subset, FS_CardinalityType DEF RunOf

\* One more sample in a batch.
LEMMA BatchGrows ==
    ASSUME NEW s \in AccountState, NEW a, NEW F \in SUBSET Request, NEW r \in Request,
           \A c \in F : c < r, answer[r] \in {"baseline", "other"}
    PROVE  CountAccount(s, BatchOf(a, F \cup {r})) =
               IF account[r] = a THEN Streak(CountAccount(s, BatchOf(a, F)), answer[r])
               ELSE CountAccount(s, BatchOf(a, F))
<1>1. RunOf(a, F \cup {r}, account, answer) =
          IF account[r] # a THEN RunOf(a, F, account, answer)
          ELSE IF answer[r] = "baseline" THEN 0 ELSE RunOf(a, F, account, answer) + 1
  <2>1. \A c \in F : account[c] = account[r] => c < r
    OBVIOUS
  <2> QED
    BY <2>1, RunGrows
<1>2. BatchOf(a, F) \in [baseline : BOOLEAN, off : Nat]
  <2>1. (\E q \in F : account[q] = a /\ answer[q] = "baseline") \in BOOLEAN
    OBVIOUS
  <2> QED
    BY <2>1, RunType DEF BatchOf
<1>4. CASE account[r] # a
  <2>1. BatchOf(a, F \cup {r}) = BatchOf(a, F)
    BY <1>1, <1>4 DEF BatchOf
  <2> QED
    BY <1>4, <2>1
<1>5. CASE account[r] = a /\ answer[r] = "baseline"
  <2>1. BatchOf(a, F \cup {r}) = [baseline |-> TRUE, off |-> 0]
    BY <1>1, <1>5 DEF BatchOf
  <2> QED
    BY <1>2, <1>5, <2>1, SummaryGrows
<1>6. CASE account[r] = a /\ answer[r] = "other"
  <2>1. (\E q \in F \cup {r} : account[q] = a /\ answer[q] = "baseline")
        = (\E q \in F : account[q] = a /\ answer[q] = "baseline")
    BY <1>6
  <2>2. BatchOf(a, F \cup {r})
        = [baseline |-> BatchOf(a, F).baseline, off |-> BatchOf(a, F).off + 1]
    BY <1>1, <1>6, <2>1 DEF BatchOf
  <2> QED
    BY <1>2, <1>6, <2>2, SummaryGrows
<1> QED
  BY <1>4, <1>5, <1>6

LEMMA BatchEmpty ==
    ASSUME NEW s \in AccountState, NEW a PROVE CountAccount(s, BatchOf(a, {})) = s
<1>1. BatchOf(a, {}) = [baseline |-> FALSE, off |-> 0]
  BY RunEmpty DEF BatchOf
<1> QED
  BY <1>1 DEF CountAccount, AccountState

LEMMA LoopSums ==
    ASSUME World, NEW m \in Memory
    PROVE  Summed(m, Loop(m)[made - gone], made - gone)
<1> DEFINE n == made - gone
           G == {k \in 0 .. n : Summed(m, Loop(m)[k], k)}
<1>1. Hour /\ n \in Nat /\ gone \in Nat
  BY WorldHour DEF Hour
<1>2. m.accounts \in [Account -> AccountState] /\ m.times \in [Request -> Nat]
  BY DEF Memory, Mind
<1>3. 0 \in G
  <2>1. Fresh(m, m) = {}
    BY <1>2 DEF Fresh
  <2> QED
    <3>1. \A a \in Account : m.accounts[a] = CountAccount(m.accounts[a], BatchOf(a, Fresh(m, m)))
      BY <1>2, <2>1, BatchEmpty
    <3>2. Summed(m, m, 0)
      BY <2>1, <3>1 DEF Summed
    <3> QED
      BY <1>1, <3>2, LoopSteps
<1>4. ASSUME NEW k \in 1 .. n, k - 1 \in G PROVE k \in G
  <2> DEFINE l == Loop(m)[k - 1]
             r == gone + k
             c == Consume(l, r)
             F == Fresh(m, l)
  <2>1. r \in InHour /\ k - 1 \in 0 .. n /\ k \in 0 .. n
    BY <1>1 DEF Hour, InHour
  <2>2. l \in Memory /\ Loop(m)[k] = c
    BY <1>1, <2>1, LoopType, LoopSteps
  <2>3. Summed(m, l, k - 1)
    BY <1>4
  <2>4. r \in Request /\ F \in SUBSET Request /\ \A q \in F : q < r
    BY <1>1, <2>1, <2>3, WorldHour DEF Summed, Fresh
  <2>5. CASE c = l
    <3>1. Fresh(m, c) \subseteq (gone + 1) .. (gone + k)
      BY <1>1, <2>3, <2>5 DEF Summed
    <3> QED
      BY <2>1, <2>2, <2>3, <2>5, <3>1 DEF Summed
  <2>6. CASE c # l
    <3> HIDE DEF l
    <3>1. /\ c.accounts = [l.accounts EXCEPT ![account[r]] = Streak(@, answer[r])]
          /\ c.times = [l.times EXCEPT ![r] = @ + 1]
          /\ account[r] \in Account /\ answer[r] \in {"baseline", "other"}
          /\ view[account[r]] # "absent"
      BY <2>1, <2>2, <2>6, ConsumeCounts
    <3>2. l.accounts \in [Account -> AccountState] /\ l.times \in [Request -> Nat]
      BY <2>2 DEF Memory, Mind
    <3> HIDE DEF c
    <3>3. l.times[r] = m.times[r] /\ r \notin F
      BY <1>1, <2>3, <2>4 DEF Summed
    <3>4. c.times[r] = m.times[r] + 1 /\ \A q \in Request : q # r => c.times[q] = l.times[q]
      BY <2>4, <3>1, <3>2, <3>3
    <3>5. Fresh(m, c) = F \cup {r}
      <4>1. \A q \in Request : q \in Fresh(m, c) <=> q \in F \cup {r}
        BY <1>2, <2>4, <3>4 DEF Fresh
      <4> QED
        BY <2>4, <4>1 DEF Fresh
    <3>6. Fresh(m, c) \subseteq (gone + 1) .. (gone + k)
      BY <1>1, <2>3, <3>5 DEF Summed
    <3>7. \A q \in Request \ Fresh(m, c) : c.times[q] = m.times[q]
      BY <2>3, <3>4, <3>5 DEF Summed
    <3>8. ASSUME NEW a \in Account
          PROVE  c.accounts[a] = CountAccount(m.accounts[a], BatchOf(a, Fresh(m, c)))
      <4>1. l.accounts[a] = CountAccount(m.accounts[a], BatchOf(a, F))
        BY <2>3 DEF Summed
      <4>2. CountAccount(m.accounts[a], BatchOf(a, F \cup {r})) =
                IF account[r] = a
                THEN Streak(CountAccount(m.accounts[a], BatchOf(a, F)), answer[r])
                ELSE CountAccount(m.accounts[a], BatchOf(a, F))
        <5>1. m.accounts[a] \in AccountState
          BY <1>2
        <5> HIDE DEF F, r
        <5> QED
          BY <2>4, <3>1, <5>1, BatchGrows
      <4> QED
        BY <3>1, <3>2, <3>5, <4>1, <4>2
    <3>9. \A q \in Fresh(m, c) : view[account[q]] # "absent"
      BY <2>3, <3>1, <3>5 DEF Summed
    <3> QED
      BY <2>1, <2>2, <3>6, <3>7, <3>8, <3>9 DEF Summed
  <2> QED
    BY <2>5, <2>6
<1> HIDE DEF G
<1>5. n \in G
  BY <1>1, <1>3, <1>4, EachStep
<1> QED
  BY <1>5 DEF G

\* What a round counts, as AccountGuard says it.
LEMMA CountSums ==
    ASSUME World, NEW m \in Memory
    PROVE  Count(m).accounts
               = count(m.accounts, view, [a \in Account |-> BatchOf(a, Fresh(m, Count(m)))], opts)
<1> DEFINE batches == [a \in Account |-> BatchOf(a, Fresh(m, Count(m)))]
<1>1. Hour
  BY WorldHour
<1>2. Count(m).accounts \in [Account -> AccountState]
  BY CountType, MemoryFields
<1>3. CASE canJudge(opts)
  <2>1. Summed(m, Count(m), made - gone)
    BY <1>1, <1>3, LoopSteps, LoopSums
  <2>2. ASSUME NEW a \in Account
        PROVE  Count(m).accounts[a] = IF canJudge(opts) /\ view[a] # "absent"
                                      THEN CountAccount(m.accounts[a], batches[a])
                                      ELSE m.accounts[a]
    <3>1. Count(m).accounts[a] = CountAccount(m.accounts[a], BatchOf(a, Fresh(m, Count(m))))
      BY <2>1 DEF Summed
    <3>2. CASE view[a] # "absent"
      BY <1>3, <3>1, <3>2
    <3>3. CASE view[a] = "absent"
      <4> DEFINE F == Fresh(m, Count(m))
      <4>1. \A r \in F : account[r] # a
        BY <2>1, <3>3 DEF Summed
      <4> HIDE DEF F
      <4>2. RunOf(a, {}, account, answer) = RunOf(a, F, account, answer)
        BY <4>1, RunOfMine
      <4>3. BatchOf(a, F) = BatchOf(a, {})
        BY <4>1, <4>2 DEF BatchOf
      <4>4. CountAccount(m.accounts[a], BatchOf(a, {})) = m.accounts[a]
        BY MemoryFields, BatchEmpty
      <4> QED
        BY <3>1, <3>3, <4>3, <4>4 DEF F
    <3> QED
      BY <3>2, <3>3
  <2> HIDE DEF batches
  <2> QED
    BY <1>2, <2>2 DEF count, batches
<1>4. CASE ~canJudge(opts)
  <2>1. Count(m) = m
    BY <1>1, <1>4, LoopSteps
  <2> HIDE DEF batches
  <2> QED
    BY <1>2, <1>4, <2>1 DEF count, batches
<1> QED
  BY <1>3, <1>4

\* In every round, whatever has landed in whatever order: the loop over the samples does
\* to an account what one batch does, the one AccountGuard draws, and the round decides
\* what AccountGuard decides.
THEOREM LoopIsSummary == Spec => SummaryIsLoop
<1>1. World /\ [Next]_vars =>
          [Round \/ RoundUnread =>
               \E begun \in Begun : Judges(begun.accounts, mind'.accounts)]_vars
  <2> SUFFICES ASSUME World, Round \/ RoundUnread
               PROVE  \E begun \in Begun : Judges(begun.accounts, mind'.accounts)
    OBVIOUS
  <2>1. PICK begun \in Begun : \E counted \in {Count(begun), begun} : Finish(counted)
    BY RoundParts
  <2>2. PICK counted \in {Count(begun), begun} : Finish(counted)
    BY <2>1
  <2>3. begun \in Memory /\ begun.times = mind.times /\ counted \in Memory
    BY BegunFields, CountType
  <2>4. /\ mind'.times = counted.times
        /\ mind'.accounts
           = decide(counted.accounts, view, Decisions(counted.accounts, view, opts), opts)
    BY <2>2, <2>3, FinishFields
  <2> DEFINE F == Fresh(begun, counted)
             batches == [a \in Account |-> BatchOf(a, F)]
  <2>5. F = {r \in Request : mind'.times[r] > mind.times[r]}
    BY <2>3, <2>4 DEF Fresh
  <2>6. counted.accounts = count(begun.accounts, view, batches, opts)
    <3>1. CASE counted = Count(begun)
      BY <2>3, <3>1, CountSums
    <3>2. CASE counted = begun
      <4>1. F = {}
        BY <2>3, <3>2, MemoryFields DEF Fresh
      <4>2. \A a \in Account : CountAccount(begun.accounts[a], batches[a]) = begun.accounts[a]
        BY <2>3, <4>1, MemoryFields, BatchEmpty
      <4>3. begun.accounts \in [Account -> AccountState]
        BY <2>3, MemoryFields
      <4> HIDE DEF batches, F
      <4> QED
        BY <3>2, <4>2, <4>3 DEF count
    <3> QED
      BY <3>1, <3>2
  <2> HIDE DEF F
  <2>7. ASSUME NEW a \in Account PROVE Batch(a) = BatchOf(a, F)
    <3> DEFINE M == {r \in F : account[r] = a}
    <3>2. M \in SUBSET F /\ \A r \in F : r \in M <=> account[r] = a
      OBVIOUS
    <3>3. RunLength(a, M) = RunOf(a, F, account, answer)
      <4> HIDE DEF M
      <4>1. RunLength(a, M) = RunOf(a, M, account, answer)
        BY RunIsRunOf
      <4> QED
        BY <3>2, <4>1, RunOfMine
    <3>4. Batch(a) = [baseline |-> \E r \in M : answer[r] = "baseline",
                      off |-> RunLength(a, M)]
      BY <2>5 DEF Batch
    <3>5. (\E r \in M : answer[r] = "baseline")
          = (\E r \in F : account[r] = a /\ answer[r] = "baseline")
      OBVIOUS
    <3>6. BatchOf(a, F) = [baseline |-> \E r \in F : account[r] = a /\ answer[r] = "baseline",
                           off |-> RunOf(a, F, account, answer)]
      BY DEF BatchOf
    <3> HIDE DEF M
    <3> QED
      BY <3>3, <3>4, <3>5, <3>6
  <2>8. [a \in Account |-> Batch(a)] = batches
    BY <2>7
  <2>9. Judges(begun.accounts, mind'.accounts)
    BY <2>4, <2>6, <2>8 DEF Judges
  <2> QED
    BY <2>9
<1> QED
  BY <1>1, WorldInvariance, PTL DEF Spec, SummaryIsLoop

-----------------------------------------------------------------------------
(* No answer is missed *)

\* What a memory takes for counted has been counted.
Honest(m) == \A r : In(m.seen, r) => r \in Done(m)

LEMMA PushBrings ==
    ASSUME NEW seen \in Seq(Request), NEW r \in Request, NEW q, In(push(seen, r), q)
    PROVE  q = r \/ In(seen, q)
<1> DEFINE longer == Append(seen, r)
<1>1. /\ longer \in Seq(Request) /\ Len(longer) = Len(seen) + 1 /\ Len(seen) \in Nat
      /\ DOMAIN longer = 1 .. Len(seen) + 1 /\ DOMAIN seen = 1 .. Len(seen)
      /\ \A i \in 1 .. Len(seen) + 1 : longer[i] = IF i = Len(seen) + 1 THEN r ELSE seen[i]
  OBVIOUS
<1> HIDE DEF longer
<1>2. \A i \in DOMAIN longer : longer[i] = r \/ In(seen, longer[i])
  BY <1>1 DEF In
<1>3. DOMAIN Tail(longer) = 1 .. Len(seen)
      /\ \A i \in 1 .. Len(seen) : Tail(longer)[i] = longer[i + 1]
  BY <1>1
<1>4. \A i \in DOMAIN Tail(longer) : Tail(longer)[i] = r \/ In(seen, Tail(longer)[i])
  BY <1>1, <1>2, <1>3
<1>5. push(seen, r) \in {longer, Tail(longer)}
  BY DEF push, longer
<1>6. PICK i \in DOMAIN push(seen, r) : push(seen, r)[i] = q
  BY DEF In
<1> QED
  BY <1>2, <1>4, <1>5, <1>6

\* One sample, with any ring: an answer that is known is counted, and none is forgotten.
LEMMA ConsumeKeeps ==
    ASSUME World, NEW m \in Memory, Honest(m), NEW r \in InHour
    PROVE  /\ Honest(Consume(m, r)) /\ Done(m) \subseteq Done(Consume(m, r))
           /\ r \in landed /\ view[account[r]] # "absent" => r \in Done(Consume(m, r))
<1>0. r \in Request /\ m.seen \in Seq(Request) /\ m.times \in [Request -> Nat]
  BY WorldHour DEF Memory, Mind
<1>1. CASE r \notin landed \/ view[account[r]] = "absent" \/ In(m.seen, r)
  <2>1. Consume(m, r) = m
    BY <1>1 DEF Consume, ChannelOf, In, InRing
  <2> QED
    BY <1>1, <2>1 DEF Honest
<1>2. CASE r \in landed /\ view[account[r]] # "absent" /\ ~ In(m.seen, r)
  <2>2. ChannelOf(r) # "none"
    BY <1>2 DEF ChannelOf, World
  <2> DEFINE c == Consume(m, r)
  <2>3. c = Counting(m, r)
    BY <1>2, <2>2 DEF Consume, In, InRing
  <2> HIDE DEF c
  <2>4. c.seen = push(m.seen, r) /\ c.times = [m.times EXCEPT ![r] = @ + 1]
    BY <1>0, <2>3, CountingFields
  <2> HIDE DEF c
  <2>5. c.times[r] > 0 /\ \A q \in Request : q # r => c.times[q] = m.times[q]
    BY <1>0, <2>4
  <2>6. Done(c) = Done(m) \cup {r}
    <3>1. \A q \in Request : q \in Done(c) <=> q \in Done(m) \cup {r}
      BY <2>5 DEF Done
    <3>2. Done(c) \subseteq Request /\ Done(m) \cup {r} \subseteq Request
      BY <1>0 DEF Done
    <3> QED
      BY <3>1, <3>2
  <2>7. \A q : In(c.seen, q) => q = r \/ In(m.seen, q)
    BY <1>0, <2>4, PushBrings
  <2>8. Honest(c)
    BY <2>6, <2>7 DEF Honest
  <2> QED
    BY <2>6, <2>8 DEF c
<1> QED
  BY <1>1, <1>2

LEMMA CountKeeps ==
    ASSUME World, NEW m \in Memory, Honest(m)
    PROVE  /\ Honest(Count(m))
           /\ canJudge(opts) => \A r \in landed \cap InHour :
                                   view[account[r]] # "absent" => r \in Done(Count(m))
<1> DEFINE n == made - gone
           Upto(k) == {r \in landed : view[account[r]] # "absent" /\ gone < r /\ r <= gone + k}
           G == {k \in 0 .. n : Honest(Loop(m)[k]) /\ Upto(k) \subseteq Done(Loop(m)[k])}
<1>1. Hour /\ n \in Nat /\ landed \subseteq Nat
  BY WorldHour, EvidenceAssumption DEF Hour, World
<1>2. 0 \in G
  <2>1. \A r \in landed : ~ (gone < r /\ r <= gone + 0)
    BY <1>1 DEF Hour
  <2>2. Upto(0) = {}
    BY <2>1
  <2>3. Loop(m)[0] = m /\ 0 \in 0 .. n
    BY <1>1, LoopSteps
  <2> HIDE DEF Upto
  <2> QED
    BY <2>2, <2>3
<1>3. ASSUME NEW k \in 1 .. n, k - 1 \in G PROVE k \in G
  <2> DEFINE r == gone + k
             l == Loop(m)[k - 1]
  <2>1. r \in InHour /\ k - 1 \in 0 .. n /\ k \in 0 .. n
    BY <1>1 DEF Hour, InHour
  <2>2. l \in Memory
    BY <2>1, LoopType
  <2>3. Loop(m)[k] = Consume(l, r)
    BY <1>1, LoopSteps
  <2>4. Honest(l) /\ Upto(k - 1) \subseteq Done(l)
    BY <1>3
  <2>5. \A q \in landed : q <= gone + k => q <= gone + (k - 1) \/ q = gone + k
    BY <1>1 DEF Hour
  <2>6. Upto(k) \subseteq Upto(k - 1) \cup {q \in {r} \cap landed : view[account[q]] # "absent"}
    BY <2>5
  <2> HIDE DEF r, l, Upto
  <2>7. /\ Honest(Consume(l, r)) /\ Done(l) \subseteq Done(Consume(l, r))
        /\ r \in landed /\ view[account[r]] # "absent" => r \in Done(Consume(l, r))
    BY <2>1, <2>2, <2>4, ConsumeKeeps
  <2> QED
    BY <2>1, <2>3, <2>4, <2>6, <2>7
<1>4. \A r \in landed \cap InHour : view[account[r]] # "absent" => r \in Upto(n)
  BY <1>1 DEF Hour, InHour
<1> HIDE DEF G, Upto
<1>5. \A k \in 0 .. n : k \in G
  BY <1>1, <1>2, <1>3, EachStep
<1>6. n \in G /\ Count(m) = IF canJudge(opts) THEN Loop(m)[n] ELSE m
  BY <1>1, <1>5, LoopSteps
<1>7. Honest(Loop(m)[n]) /\ Upto(n) \subseteq Done(Loop(m)[n])
  BY <1>6 DEF G
<1> QED
  BY <1>4, <1>6, <1>7

LEMMA HonestSame ==
    ASSUME NEW m, NEW k, k.seen = m.seen, k.times = m.times, Honest(m)
    PROVE  Honest(k)
  BY DEF Honest, Done

LEMMA HonestStep ==
    World /\ Honest(mind) /\ Honest(saved) /\ [Next]_vars => Honest(mind') /\ Honest(saved')
<1> SUFFICES ASSUME World, Honest(mind), Honest(saved), [Next]_vars
             PROVE  Honest(mind') /\ Honest(saved')
  OBVIOUS
<1>1. CASE Round \/ RoundUnread
  <2>1. PICK begun \in Begun : \E counted \in {Count(begun), begun} : Finish(counted)
    BY <1>1, RoundParts
  <2>2. PICK counted \in {Count(begun), begun} : Finish(counted)
    BY <2>1
  <2>3. begun \in Memory /\ Honest(begun)
    BY BegunFields, HonestSame
  <2>4. counted \in Memory /\ Honest(counted)
    BY <2>3, CountType, CountKeeps
  <2>5. mind'.seen = counted.seen /\ mind'.times = counted.times /\ saved' \in {saved, mind'}
    BY <2>2, <2>4, FinishFields
  <2>6. Honest(mind')
    BY <2>4, <2>5, HonestSame
  <2> QED
    BY <2>5, <2>6
<1>2. CASE Elapse
  <2>1. mind' = Aged(mind) /\ saved' = Aged(saved)
    BY <1>2 DEF Elapse
  <2>2. mind \in Memory /\ saved \in Memory
    BY DEF World, TypeOK, Memory
  <2>3. Honest(Aged(mind)) /\ Honest(Aged(saved))
    BY <2>2, AgedFields, HonestSame
  <2> QED
    BY <2>1, <2>3
<1>3. (mind' \in {mind, saved} /\ saved' = saved) \/ Round \/ RoundUnread \/ Elapse
  BY DEF Next, Make, Land, Pass, Restart, Edit, vars, requests, runner
<1> QED
  BY <1>1, <1>2, <1>3

\* A round that began now, and could read the records, would leave no answer of the hour
\* uncounted that is known and of an account that is in the file (count).
RoundCountsAll ==
    canJudge(opts) => \A begun \in Begun : \A r \in landed \cap InHour :
        view[account[r]] # "absent" => Count(begun).times[r] > 0

\* With any ring, in whatever order the facts land and whatever state file a restart goes
\* back to: an answer that is known while its request is in the hour and its account in
\* the file is counted by the next round of a guard that may judge, if it has not been.
\* Nothing is taken for counted that was not.
THEOREM NoAnswerMissed == Spec => []RoundCountsAll
<1>1. Init => Honest(mind) /\ Honest(saved)
  BY DEF Init, NewMind, Honest, In
<1>2. World /\ Honest(mind) => RoundCountsAll
  <2> SUFFICES ASSUME World, Honest(mind), canJudge(opts), NEW begun \in Begun,
                      NEW r \in landed \cap InHour, view[account[r]] # "absent"
               PROVE  Count(begun).times[r] > 0
    BY DEF RoundCountsAll
  <2>1. begun \in Memory /\ Honest(begun)
    BY BegunFields, HonestSame
  <2> QED
    BY <2>1, CountKeeps DEF Done
<1>3. Honest(mind') /\ Honest(saved') <=> (Honest(mind) /\ Honest(saved))'
  BY DEF Honest, In, Done
<1> QED
  BY <1>1, <1>2, <1>3, HonestStep, WorldInvariance, PTL DEF Spec
================================================================================
