------------------------------ MODULE PlanPoller -------------------------------
(***************************************************************************)
(* The subscription poller, internal/plan/plan.go: every few minutes it    *)
(* finds the Cline keys this deployment has, asks Cline about each of them *)
(* in turn, and publishes one snapshot per key.  Several keys may belong   *)
(* to one Cline account, which only an answer tells; keys come and go and  *)
(* are refused and accepted again at any moment, between two calls for the *)
(* same key too.  The request-by-request usage of an account is a module   *)
(* of its own, OfficialUsage.                                              *)
(***************************************************************************)
EXTENDS Integers, Sequences, FiniteSets, SequencesExt

CONSTANTS
    Keys,
    Users, NoUser,   \* Cline accounts
    Owner,           \* the account a key belongs to
    Setups,          \* what all sources of keys together may list, in order of preference
    MaxKeys,         \* planMaxCredentials
    MaxChanges,      \* how often the world changes: a source, a key, the configuration
    MaxFaults        \* how many calls fail that could have been answered

ASSUME PollerAssumption ==
    /\ Owner \in [Keys -> Users] /\ NoUser \notin Users
    /\ Setups \subseteq Seq(Keys) /\ Setups # {}
    /\ MaxKeys \in Nat \ {0} /\ MaxChanges \in Nat /\ MaxFaults \in Nat

\* What the page knows of a key, and whose daily totals it shows.
Snapshot == [key : Keys, available : BOOLEAN, rejected : BOOLEAN, merged : BOOLEAN,
             user : Users \cup {NoUser}, totals : Users \cup {NoUser}]

\* The polling state of a key; due says that the totals are more than an hour old.
AccountState == [key : Keys, user : Users \cup {NoUser}, totals : Users \cup {NoUser},
                 due : BOOLEAN, snapshot : Snapshot]

VARIABLES
    sources,   \* the keys the deployment lists now
    valid,     \* the keys Cline accepts now
    accounts,  \* Poller.accounts
    pc,        \* the call the poller makes next, or "wait" between two rounds
    index,     \* the account of this round it is about
    covered,   \* byUserID: Cline accounts already asked in this round
    draft,     \* the snapshot refreshAccount is building
    quota,     \* the snapshots the page is served
    asked,     \* observes the round: accounts whose limits were asked, and if known before
    restored,  \* observes keys accepted again after this round had begun with them
    changes, faults

world   == <<sources, valid>>
round   == <<index, covered, draft, asked>>
budgets == <<changes, faults>>
vars    == <<world, accounts, pc, round, quota, restored, budgets>>

-----------------------------------------------------------------------------
(* Keys *)

\* Where a key is listed first, and how many such places there are up to one of them.
Firsts(listed)  == {i \in DOMAIN listed : \A j \in 1 .. i - 1 : listed[j] # listed[i]}
Rank(listed, i) == Cardinality({j \in Firsts(listed) : j <= i})

\* Each key once, and no more than MaxKeys.
Once(listed) ==
    [n \in 1 .. Cardinality(Firsts(listed)) |->
        listed[CHOOSE i \in Firsts(listed) : Rank(listed, i) = n]]

ResolveCredentials(listed) ==
    IF Len(Once(listed)) > MaxKeys THEN SubSeq(Once(listed), 1, MaxKeys) ELSE Once(listed)

Empty(k) == [key |-> k, available |-> FALSE, rejected |-> FALSE, merged |-> FALSE,
             user |-> NoUser, totals |-> NoUser]

newPlanAccount(k) == [key |-> k, user |-> NoUser, totals |-> NoUser, due |-> TRUE,
                      snapshot |-> Empty(k)]

syncByPlace(creds) ==   \* mutated form: the state goes by the place in the list
    [i \in DOMAIN creds |->
        IF i \in DOMAIN accounts THEN [accounts[i] EXCEPT !.key = creds[i]]
        ELSE newPlanAccount(creds[i])]

\* Keys that are still there keep their state, those that went lose it.
syncAccounts(creds) ==
    [i \in DOMAIN creds |->
        IF \E j \in DOMAIN accounts : accounts[j].key = creds[i]
        THEN CHOOSE a \in ToSet(accounts) : a.key = creds[i]
        ELSE newPlanAccount(creds[i])]

-----------------------------------------------------------------------------
(* One round *)

Current == accounts[index]

\* How a call ends: Cline accepts the key, or refuses it, or does not answer.
Accepted == Current.key \in valid /\ UNCHANGED faults

NoAnswer(refused) ==
    IF refused THEN Current.key \notin valid /\ UNCHANGED faults
    ELSE faults < MaxFaults /\ faults' = faults + 1

Init ==
    /\ sources \in Setups /\ valid \in SUBSET Keys
    /\ accounts = <<>> /\ pc = "wait"
    /\ index = 0 /\ covered = {} /\ draft = <<>> /\ asked = <<>>
    /\ quota = <<>> /\ restored = {}
    /\ changes = 0 /\ faults = 0

\* refresh: which keys are there.  None is published as none.
Refresh ==
    /\ pc = "wait"
    /\ accounts' = syncAccounts(ResolveCredentials(sources))
    /\ covered' = {} /\ asked' = <<>> /\ restored' = {} /\ draft' = <<>>
    /\ IF accounts' = <<>>
       THEN quota' = <<>> /\ index' = 0 /\ UNCHANGED pc
       ELSE index' = 1 /\ pc' = "me" /\ UNCHANGED quota
    /\ UNCHANGED <<world, budgets>>

\* The account of this turn becomes a; after the last one the round is published.
Finish(a) ==
    LET done == [accounts EXCEPT ![index] = a]
    IN  /\ accounts' = done
        /\ draft' = <<>>
        /\ IF index < Len(accounts)
           THEN index' = index + 1 /\ pc' = "me" /\ UNCHANGED quota
           ELSE /\ index' = 0 /\ pc' = "wait"
                /\ quota' = [i \in DOMAIN done |-> done[i].snapshot]

\* byUserID after refreshAccount, which is told of accounts that have a user.
CoveredAlways(a) == covered' = covered \cup {a.user}   \* mutated form: of all accounts

CoveredIfShown(a) ==   \* mutated form: only of those that answered
    covered' = IF a.snapshot.available THEN covered \cup {a.user} ELSE covered

Covers(a) == covered' = IF a.user = NoUser THEN covered ELSE covered \cup {a.user}

\* A key of an account that another key has covered in this round is not polled.
Merged ==
    /\ pc = "me" /\ Current.user \in covered
    /\ Finish([Current EXCEPT !.snapshot =
                  [Empty(Current.key) EXCEPT !.merged = TRUE, !.user = Current.user]])
    /\ UNCHANGED <<world, covered, asked, restored, budgets>>

BeginBare == Empty(Current.key)   \* mutated form: the totals are not taken along

Begin == [Empty(Current.key) EXCEPT !.totals = Current.totals]

\* client.me: who is it?  A key that has never answered is not asked further.
Me ==
    /\ pc = "me" /\ Current.user \notin covered
    /\ \/ /\ Accepted
          /\ LET user == Owner[Current.key]
             IN  /\ accounts' = [accounts EXCEPT ![index].user = user]
                 /\ draft' = [Begin EXCEPT !.user = user]
          /\ asked' = Append(asked, [user |-> Owner[Current.key], known |-> Current.user # NoUser])
          /\ pc' = "limits" /\ UNCHANGED <<index, covered, quota>>
       \/ \E refused \in BOOLEAN :
          /\ NoAnswer(refused)
          /\ LET silent == [Begin EXCEPT !.rejected = @ \/ refused]
             IN  IF Current.user = NoUser
                 THEN /\ Finish([Current EXCEPT !.snapshot = silent])
                      /\ Covers(Current) /\ UNCHANGED asked
                 ELSE /\ draft' = silent
                      /\ asked' = Append(asked, [user |-> Current.user, known |-> TRUE])
                      /\ pc' = "limits" /\ UNCHANGED <<accounts, index, covered, quota>>
    /\ UNCHANGED <<world, restored, changes>>

\* client.usageLimits: without them the key is not available.
Limits ==
    /\ pc = "limits"
    /\ \/ /\ Accepted
          /\ IF Current.due
             THEN pc' = "daily" /\ UNCHANGED <<accounts, index, covered, draft, quota>>
             ELSE LET a == [Current EXCEPT !.snapshot = [draft EXCEPT !.available = TRUE]]
                  IN  Finish(a) /\ Covers(a)
       \/ \E refused \in BOOLEAN :
          /\ NoAnswer(refused)
          /\ LET a == [Current EXCEPT !.snapshot = [draft EXCEPT !.rejected = @ \/ refused]]
             IN  Finish(a) /\ Covers(a)
    /\ UNCHANGED <<world, asked, restored, changes>>

\* client.dailyUsage: kept until a later answer replaces it.
Daily ==
    /\ pc = "daily"
    /\ \/ /\ Accepted
          /\ LET user == Current.user
                 a == [Current EXCEPT !.totals = user, !.due = FALSE,
                          !.snapshot = [draft EXCEPT !.available = TRUE, !.totals = user]]
             IN  Finish(a) /\ Covers(a)
       \/ /\ \E refused \in BOOLEAN : NoAnswer(refused)
          /\ LET a == [Current EXCEPT !.snapshot = [draft EXCEPT !.available = TRUE]]
             IN  Finish(a) /\ Covers(a)
    /\ UNCHANGED <<world, asked, restored, changes>>

Step == Refresh \/ Merged \/ Me \/ Limits \/ Daily

-----------------------------------------------------------------------------
(* The world *)

Change == changes < MaxChanges /\ changes' = changes + 1 /\ UNCHANGED faults

EditSources ==
    /\ Change
    /\ sources' \in Setups \ {sources}
    /\ UNCHANGED <<valid, accounts, pc, round, quota, restored>>

Revoke(k) ==
    /\ Change
    /\ k \in valid /\ valid' = valid \ {k}
    /\ UNCHANGED <<sources, accounts, pc, round, quota, restored>>

Restore(k) ==
    /\ Change
    /\ k \notin valid /\ valid' = valid \cup {k}
    /\ restored' = IF pc = "wait" THEN restored ELSE restored \cup {k}
    /\ UNCHANGED <<sources, accounts, pc, round, quota>>

\* An hour after the totals were fetched, they are due.
Hour ==
    /\ accounts # <<>>
    /\ accounts' = [i \in DOMAIN accounts |-> [accounts[i] EXCEPT !.due = TRUE]]
    /\ UNCHANGED <<world, pc, round, quota, restored, budgets>>

\* A reconfigure publishes a new poller; what the old one still asks reaches nobody.
Start ==
    /\ Change
    /\ accounts' = <<>> /\ pc' = "wait"
    /\ index' = 0 /\ covered' = {} /\ draft' = <<>> /\ asked' = <<>>
    /\ quota' = <<>> /\ restored' = {}
    /\ UNCHANGED world

Next ==
    \/ Step
    \/ EditSources \/ Start \/ Hour
    \/ \E k \in Keys : Revoke(k) \/ Restore(k)

\* The poll loop goes on; whatever changes, changes in the end no more.
Spec == Init /\ [][Next]_vars
FairSpec == Spec /\ WF_vars(Step)

-----------------------------------------------------------------------------
(* Properties *)

TypeOK ==
    /\ sources \in Setups /\ valid \subseteq Keys
    /\ accounts \in Seq(AccountState) /\ Len(accounts) <= MaxKeys
    /\ pc \in {"wait", "me", "limits", "daily"}
    /\ index \in 0 .. Len(accounts) /\ (pc = "wait" <=> index = 0)
    /\ covered \subseteq Users
    /\ draft \in Snapshot \cup {<<>>}
    /\ quota \in Seq(Snapshot) /\ Len(quota) <= MaxKeys
    /\ asked \in Seq([user : Users, known : BOOLEAN])
    /\ restored \subseteq Keys
    /\ {changes, faults} \subseteq Nat

Published == ToSet(quota)

\* With every variable in its type: what the page shows under a key, its account and its
\* totals, is the account's the key belongs to, however the list of keys was reordered
\* (syncAccounts goes by id).
OwnAccount ==
    /\ TypeOK
    /\ \A s \in Published : {s.user, s.totals} \subseteq {NoUser, Owner[s.key]}

\* Two keys of one account do not make twice the calls: the limits of an account are
\* asked again in a round only for a key whose account was not known before (refresh,
\* byUserID).
OncePerAccount ==
    \A i, j \in DOMAIN asked : i < j /\ asked[i].user = asked[j].user => ~asked[j].known

Shows(q, k) == \E i \in DOMAIN q : q[i].key = k /\ ~q[i].merged
Totals(q, k) == \E i \in DOMAIN q : q[i].key = k /\ q[i].totals # NoUser

\* One call that fails takes nothing away that another one brought: a key that
\* answers is not hidden as a refused one, unless it was accepted again between two
\* calls for it, and totals once shown for a key stay, as long as the key is listed
\* and the poller lives (refreshAccount, the early returns).
FailureTakesNothing ==
    [][ /\ \A s \in ToSet(quota') : s.available /\ s.rejected => s.key \in restored
        /\ \A k \in Keys : Totals(quota, k) /\ Shows(quota', k) => Totals(quota', k) ]_quota

\* An account has a key that is accepted, and no key before it in the list that is
\* refused although it was accepted once.
Reachable(u) ==
    LET creds == ResolveCredentials(sources)
        stale(k) == /\ k \notin valid /\ Owner[k] = u
                    /\ \E a \in ToSet(accounts) : a.key = k /\ a.user = u
    IN  \E i \in DOMAIN creds :
            /\ Owner[creds[i]] = u /\ creds[i] \in valid
            /\ \A j \in 1 .. i - 1 : ~stale(creds[j])

\* Such an account is shown with its quota in the end, by one of its keys.
AccountShown ==
    \A u \in Users :
        Reachable(u) ~> (~Reachable(u) \/ \E s \in Published : s.user = u /\ s.available)
================================================================================
