------------------------------ MODULE PlanProofs ------------------------------
(***************************************************************************)
(* What TLAPS proves of the two clients of internal/plan: of PlanPoller,   *)
(* for any keys, lists of keys, owners and number of changes and faults,   *)
(* and of OfficialUsage, for any sizes of pages, budgets, windows and      *)
(* retention, any number of records and any failures.                      *)
(***************************************************************************)
EXTENDS PlanPoller, OfficialUsage, SequenceTheorems, FiniteSetTheorems, WellFoundedInduction, TLAPS

USE PollerAssumption

-----------------------------------------------------------------------------
(* PlanPoller: lists of keys *)

LEMMA FirstsFinite ==
    ASSUME NEW listed \in Seq(Keys)
    PROVE  IsFiniteSet(Firsts(listed)) /\ Cardinality(Firsts(listed)) \in Nat
<1>1. Firsts(listed) \in SUBSET (1 .. Len(listed)) /\ Len(listed) \in Int
  BY DEF Firsts
<1>2. IsFiniteSet(1 .. Len(listed))
  BY <1>1, FS_Interval
<1>3. IsFiniteSet(Firsts(listed))
  BY <1>1, <1>2, FS_Subset
<1> QED
  BY <1>3, FS_CardinalityType

\* Every rank up to the number of different keys is taken by a first place.
LEMMA RankTaken ==
    ASSUME NEW listed \in Seq(Keys), NEW n \in 1 .. Cardinality(Firsts(listed))
    PROVE  \E i \in Firsts(listed) : Rank(listed, i) = n
<1> DEFINE F == Firsts(listed)
           UpTo(m) == {j \in F : j <= m}
           Enough  == {m \in Nat : Cardinality(UpTo(m)) >= n}
           R == OpToRel(<, Nat)
<1>1. Len(listed) \in Nat /\ \A j \in F : j \in Nat /\ 1 <= j /\ j <= Len(listed)
  BY DEF Firsts
<1>2. IsFiniteSet(F)
  BY FirstsFinite
<1>3. \A i : Rank(listed, i) = Cardinality(UpTo(i))
  BY DEF Rank
<1> HIDE DEF F, R
<1>4. ASSUME NEW m PROVE IsFiniteSet(UpTo(m)) /\ Cardinality(UpTo(m)) \in Nat
  <2>1. UpTo(m) \in SUBSET F
    OBVIOUS
  <2>2. IsFiniteSet(UpTo(m))
    BY <1>2, <2>1, FS_Subset
  <2> QED
    BY <2>2, FS_CardinalityType
<1>5. Len(listed) \in Enough
  <2>1. UpTo(Len(listed)) = F
    BY <1>1
  <2>2. Cardinality(F) >= n
    BY FirstsFinite DEF F
  <2> QED
    BY <1>1, <2>1, <2>2
<1>6. PICK m \in Enough : \A k \in Enough : ~ (<<k, m>> \in R)
  <2>1. IsWellFoundedOn(R, Nat)
    BY NatLessThanWellFounded DEF R
  <2>2. Enough \subseteq Nat /\ Enough # {}
    BY <1>5
  <2> HIDE DEF Enough
  <2> QED
    BY <2>1, <2>2, WFMin
<1>7. m \in Nat /\ Cardinality(UpTo(m)) >= n
  OBVIOUS
<1>8. m # 0
  <2>1. UpTo(0) = {}
    BY <1>1
  <2>2. Cardinality(UpTo(0)) = 0
    BY <2>1, FS_EmptySet
  <2> HIDE DEF UpTo
  <2> QED
    BY <1>7, <2>2
<1>9. m - 1 \in Nat /\ m - 1 \notin Enough
  <2>1. m - 1 \in Nat
    BY <1>7, <1>8
  <2>2. <<m - 1, m>> \in R
    BY <1>7, <2>1 DEF R, OpToRel
  <2> HIDE DEF Enough
  <2> QED
    BY <1>6, <2>1, <2>2
<1>10. UpTo(m) = IF m \in F THEN UpTo(m - 1) \cup {m} ELSE UpTo(m - 1)
  BY <1>1, <1>7
<1>11. m \notin UpTo(m - 1)
  BY <1>7
<1>12. IsFiniteSet(UpTo(m - 1)) /\ Cardinality(UpTo(m - 1)) \in Nat
  BY <1>4
<1>13. ~ (Cardinality(UpTo(m - 1)) >= n)
  BY <1>9
<1> HIDE DEF UpTo, Enough
<1>14. m \in F
  BY <1>7, <1>10, <1>13
<1>15. Cardinality(UpTo(m)) = Cardinality(UpTo(m - 1)) + 1
  BY <1>10, <1>11, <1>12, <1>14, FS_AddElement
<1>16. Cardinality(UpTo(m)) = n
  BY <1>7, <1>12, <1>13, <1>15
<1> QED
  BY <1>3, <1>14, <1>16 DEF F

\* The keys to poll: each is one that is listed, and none is there twice.
LEMMA ResolvedKeys ==
    ASSUME NEW listed \in Seq(Keys)
    PROVE  /\ ResolveCredentials(listed) \in Seq(Keys)
           /\ Len(ResolveCredentials(listed)) <= MaxKeys
           /\ \A m, n \in 1 .. Len(ResolveCredentials(listed)) :
                 ResolveCredentials(listed)[m] = ResolveCredentials(listed)[n] => m = n
<1> DEFINE C == Cardinality(Firsts(listed))
           Place(n) == CHOOSE i \in Firsts(listed) : Rank(listed, i) = n
           once == Once(listed)
<1>1. \A i \in Firsts(listed) : i \in 1 .. Len(listed)
  BY DEF Firsts
<1>2. C \in Nat
  BY FirstsFinite
<1>3. \A n \in 1 .. C : Place(n) \in Firsts(listed) /\ Rank(listed, Place(n)) = n
  BY RankTaken
<1>4. once = [n \in 1 .. C |-> listed[Place(n)]]
  BY DEF Once
<1> HIDE DEF C, Place, once
<1>5. once \in Seq(Keys) /\ Len(once) = C /\ \A n \in 1 .. C : once[n] = listed[Place(n)]
  <2>1. \A n \in 1 .. C : listed[Place(n)] \in Keys
    BY <1>1, <1>3
  <2> QED
    BY <1>2, <1>4, <2>1
<1>6. ASSUME NEW m \in 1 .. C, NEW n \in 1 .. C, once[m] = once[n] PROVE m = n
  <2>1. listed[Place(m)] = listed[Place(n)]
    BY <1>5, <1>6
  <2>2. ~ (Place(m) < Place(n)) /\ ~ (Place(n) < Place(m))
    BY <1>1, <1>3, <2>1 DEF Firsts
  <2>3. Place(m) = Place(n)
    BY <1>1, <1>3, <2>2
  <2> QED
    BY <1>3, <2>3
<1>7. CASE Len(once) > MaxKeys
  <2>1. ResolveCredentials(listed) = SubSeq(once, 1, MaxKeys)
    BY <1>7 DEF ResolveCredentials, once
  <2>2. /\ SubSeq(once, 1, MaxKeys) \in Seq(Keys)
        /\ Len(SubSeq(once, 1, MaxKeys)) = MaxKeys
        /\ \A n \in 1 .. MaxKeys : SubSeq(once, 1, MaxKeys)[n] = once[n]
    BY <1>5, <1>7, SubSeqProperties
  <2> QED
    BY <1>2, <1>5, <1>6, <1>7, <2>1, <2>2
<1>8. CASE ~ (Len(once) > MaxKeys)
  <2>1. ResolveCredentials(listed) = once
    BY <1>8 DEF ResolveCredentials, once
  <2> QED
    BY <1>2, <1>5, <1>6, <1>8, <2>1
<1> QED
  BY <1>7, <1>8

\* The state of every key is that of a key that was there, or new; a key of an account
\* the list keeps takes it along.
LEMMA SyncedAccounts ==
    ASSUME NEW creds \in Seq(Keys), accounts \in Seq(AccountState)
    PROVE  /\ syncAccounts(creds) \in Seq(AccountState)
           /\ Len(syncAccounts(creds)) = Len(creds)
           /\ \A i \in 1 .. Len(creds) :
                /\ syncAccounts(creds)[i].key = creds[i]
                /\ \/ \E j \in 1 .. Len(accounts) : syncAccounts(creds)[i] = accounts[j]
                   \/ /\ syncAccounts(creds)[i] = newPlanAccount(creds[i])
                      /\ \A j \in 1 .. Len(accounts) : accounts[j].key # creds[i]
<1> DEFINE S == syncAccounts(creds)
           Next1(i) == IF \E j \in DOMAIN accounts : accounts[j].key = creds[i]
                       THEN CHOOSE a \in ToSet(accounts) : a.key = creds[i]
                       ELSE newPlanAccount(creds[i])
<1>1. S = [i \in 1 .. Len(creds) |-> Next1(i)]
  BY DEF syncAccounts
<1>2. ASSUME NEW i \in 1 .. Len(creds)
      PROVE  /\ Next1(i) \in AccountState /\ Next1(i).key = creds[i]
             /\ \/ \E j \in 1 .. Len(accounts) : Next1(i) = accounts[j]
                \/ /\ Next1(i) = newPlanAccount(creds[i])
                   /\ \A j \in 1 .. Len(accounts) : accounts[j].key # creds[i]
  <2>1. CASE \E j \in DOMAIN accounts : accounts[j].key = creds[i]
    <3>1. \E a \in ToSet(accounts) : a.key = creds[i]
      BY <2>1 DEF ToSet
    <3>2. Next1(i) \in ToSet(accounts) /\ Next1(i).key = creds[i]
      BY <2>1, <3>1
    <3> HIDE DEF Next1
    <3>3. \E j \in 1 .. Len(accounts) : Next1(i) = accounts[j]
      BY <3>2 DEF ToSet
    <3> QED
      BY <3>2, <3>3
  <2>2. CASE ~ \E j \in DOMAIN accounts : accounts[j].key = creds[i]
    <3>1. Next1(i) = newPlanAccount(creds[i]) /\ creds[i] \in Keys
      BY <2>2
    <3>2. newPlanAccount(creds[i]) \in AccountState /\ newPlanAccount(creds[i]).key = creds[i]
      BY <3>1 DEF newPlanAccount, AccountState, Snapshot, Empty
    <3> HIDE DEF Next1
    <3> QED
      BY <2>2, <3>1, <3>2
  <2> QED
    BY <2>1, <2>2
<1> HIDE DEF Next1, S
<1>3. S \in Seq(AccountState) /\ Len(S) = Len(creds) /\ \A i \in 1 .. Len(creds) : S[i] = Next1(i)
  BY <1>1, <1>2
<1> QED
  BY <1>2, <1>3 DEF S

-----------------------------------------------------------------------------
(* PlanPoller: types *)

OfKey(k) == {NoUser, Owner[k]}

\* What the state of a key, and the snapshot in it, may say.
Own(a) ==
    /\ a.snapshot.key = a.key
    /\ a.user \in OfKey(a.key) /\ a.totals \in OfKey(a.key)
    /\ a.snapshot.user \in OfKey(a.key) /\ a.snapshot.totals \in OfKey(a.key)
    /\ a.snapshot.totals # NoUser => a.totals # NoUser

\* A key this round is done with.
Settled(a) ==
    /\ a.snapshot.available /\ a.snapshot.rejected => a.key \in restored
    /\ a.totals # NoUser /\ ~ a.snapshot.merged => a.snapshot.totals # NoUser

\* The key this round is at: a refusal counts against it until an answer comes, and
\* an answer after a refusal means that the key was accepted again in between.
Drafted ==
    /\ draft \in Snapshot /\ draft.key = Current.key
    /\ ~ draft.available /\ ~ draft.merged
    /\ draft.user \in OfKey(Current.key) /\ draft.totals = Current.totals
    /\ Current.user # NoUser
    /\ draft.rejected => Current.key \in restored \/ (pc = "limits" /\ Current.key \notin valid)

\* Every key is polled with its own state, however the list of keys changes, and that
\* state has what the page was given.
PollInv ==
    /\ \A i \in DOMAIN accounts : Own(accounts[i])
    /\ \A i, j \in DOMAIN accounts : accounts[i].key = accounts[j].key => i = j
    /\ pc # "wait" => \A i \in 1 .. index - 1 : Settled(accounts[i])
    /\ pc \in {"limits", "daily"} => Drafted
    /\ \A i \in DOMAIN quota :
           quota[i].user \in OfKey(quota[i].key) /\ quota[i].totals \in OfKey(quota[i].key)
    /\ \A i \in DOMAIN quota : \A j \in DOMAIN accounts :
           quota[i].totals # NoUser /\ quota[i].key = accounts[j].key => accounts[j].totals # NoUser
    /\ pc = "wait" => /\ Len(quota) = Len(accounts)
                      /\ \A i \in DOMAIN quota : quota[i].key = accounts[i].key

\* What a step that publishes may not do: FailureTakesNothing without its box.
NothingTaken ==
    /\ \A s \in ToSet(quota') : s.available /\ s.rejected => s.key \in restored
    /\ \A k \in Keys : Totals(quota, k) /\ Shows(quota', k) => Totals(quota', k)

LEMMA StartState == Init => TypeOK /\ PollInv
<1> SUFFICES ASSUME Init PROVE TypeOK /\ PollInv
  OBVIOUS
<1>1. /\ accounts = <<>> /\ pc = "wait" /\ index = 0 /\ covered = {} /\ draft = <<>>
      /\ asked = <<>> /\ quota = <<>> /\ restored = {} /\ changes = 0 /\ faults = 0
      /\ sources \in Setups /\ valid \in SUBSET Keys
  BY DEF Init
<1>2. TypeOK
  BY <1>1 DEF TypeOK
<1> QED
  BY <1>1, <1>2 DEF PollInv

\* The turn of a key ends: if it was the last of the round, the round is published.
LEMMA Finished ==
    ASSUME TypeOK, PollInv, pc # "wait", UNCHANGED restored, NEW a \in AccountState, Finish(a),
           Own(a), Settled(a), a.key = Current.key, Current.totals # NoUser => a.totals # NoUser
    PROVE  /\ accounts' \in Seq(AccountState) /\ Len(accounts') = Len(accounts)
           /\ pc' \in {"wait", "me"} /\ draft' = <<>>
           /\ index' \in 0 .. Len(accounts) /\ (pc' = "wait" <=> index' = 0)
           /\ quota' \in Seq(Snapshot) /\ Len(quota') <= MaxKeys
           /\ PollInv'
           /\ quota' = quota \/ NothingTaken
<1> DEFINE done == [accounts EXCEPT ![index] = a]
<1>1. /\ index \in 1 .. Len(accounts) /\ Len(accounts) \in Nat /\ accounts \in Seq(AccountState)
      /\ Len(accounts) <= MaxKeys /\ quota \in Seq(Snapshot)
  BY DEF TypeOK
<1>2. /\ done \in Seq(AccountState) /\ Len(done) = Len(accounts) /\ done[index] = a
      /\ \A j \in 1 .. Len(accounts) : j # index => done[j] = accounts[j]
  BY <1>1, ExceptSeq
<1>3. /\ accounts' = done /\ draft' = <<>>
      /\ \/ /\ index < Len(accounts) /\ index' = index + 1 /\ pc' = "me" /\ quota' = quota
         \/ /\ ~ (index < Len(accounts)) /\ index' = 0 /\ pc' = "wait"
            /\ quota' = [i \in DOMAIN done |-> done[i].snapshot]
  BY DEF Finish
<1> HIDE DEF done
<1>4. \A i \in 1 .. Len(accounts) : Own(done[i]) /\ done[i].key = accounts[i].key
  <2>1. /\ \A i \in 1 .. Len(accounts) : Own(accounts[i])
        /\ a.key = accounts[index].key
    BY <1>1 DEF PollInv, Current
  <2> QED
    BY <1>2, <2>1
<1>5. ASSUME NEW i \in 1 .. index PROVE Settled(done[i])
  <2>1. CASE i = index
    BY <1>2, <2>1
  <2>2. CASE i # index
    <3>1. i \in 1 .. index - 1 /\ i \in 1 .. Len(accounts)
      BY <1>1, <2>2
    <3>2. Settled(accounts[i])
      BY <3>1 DEF PollInv
    <3> QED
      BY <1>2, <2>2, <3>1, <3>2
  <2> QED
    BY <2>1, <2>2
<1>6. \A i, j \in 1 .. Len(accounts) : done[i].key = done[j].key => i = j
  BY <1>1, <1>4 DEF PollInv
<1>7. \A i \in DOMAIN quota : \A j \in 1 .. Len(accounts) :
          quota[i].totals # NoUser /\ quota[i].key = done[j].key => done[j].totals # NoUser
  BY <1>1, <1>2, <1>4 DEF PollInv, Current
<1>8. \A i \in 1 .. Len(accounts) : done[i] \in AccountState
  BY <1>1, <1>2
<1>9. CASE index < Len(accounts)
  <2>1. index' = index + 1 /\ pc' = "me" /\ quota' = quota
    BY <1>3, <1>9
  <2>2. ASSUME NEW i \in 1 .. index' - 1 PROVE Settled(accounts[i])'
    <3>1. i \in 1 .. index /\ accounts'[i] = done[i]
      BY <1>1, <1>3, <2>1
    <3>2. Settled(done[i])
      BY <1>5, <3>1
    <3> QED
      BY <3>1, <3>2 DEF Settled
  <2>3. PollInv'
    <3>1. DOMAIN accounts' = 1 .. Len(accounts) /\ \A i \in 1 .. Len(accounts) : Own(accounts'[i])
      BY <1>1, <1>2, <1>3, <1>4
    <3>2. /\ \A i \in DOMAIN quota' : /\ quota'[i].user \in OfKey(quota'[i].key)
                                     /\ quota'[i].totals \in OfKey(quota'[i].key)
          /\ \A i \in DOMAIN quota' : \A j \in DOMAIN accounts' :
                 quota'[i].totals # NoUser /\ quota'[i].key = accounts'[j].key =>
                     accounts'[j].totals # NoUser
      BY <1>3, <1>7, <2>1, <3>1 DEF PollInv
    <3>3. \A i, j \in DOMAIN accounts' : accounts'[i].key = accounts'[j].key => i = j
      BY <1>3, <1>6, <3>1
    <3> QED
      BY <2>1, <2>2, <3>1, <3>2, <3>3 DEF PollInv
  <2> QED
    BY <1>1, <1>2, <1>3, <1>9, <2>1, <2>3 DEF TypeOK
<1>10. CASE ~ (index < Len(accounts))
  <2>1. index' = 0 /\ pc' = "wait" /\ quota' = [i \in DOMAIN done |-> done[i].snapshot]
    BY <1>3, <1>10
  <2>2. /\ quota' \in Seq(Snapshot) /\ Len(quota') = Len(accounts)
        /\ DOMAIN quota' = 1 .. Len(accounts)
        /\ \A i \in 1 .. Len(accounts) : quota'[i] = done[i].snapshot
    <3>1. DOMAIN done = 1 .. Len(accounts)
      BY <1>1, <1>2
    <3>2. quota' \in [1 .. Len(accounts) -> Snapshot]
      BY <1>8, <2>1, <3>1 DEF AccountState
    <3> QED
      BY <1>1, <2>1, <3>1, <3>2
  <2>3. PollInv'
    <3>1. \A i \in 1 .. Len(accounts) : Own(accounts'[i])
      BY <1>3, <1>4
    <3>2. \A i \in 1 .. Len(accounts) :
              /\ quota'[i].user \in OfKey(quota'[i].key)
              /\ quota'[i].totals \in OfKey(quota'[i].key)
              /\ quota'[i].key = done[i].key
              /\ quota'[i].totals # NoUser => done[i].totals # NoUser
      BY <1>4, <2>2 DEF Own
    <3>3. /\ DOMAIN accounts' = 1 .. Len(accounts) /\ DOMAIN quota' = 1 .. Len(accounts)
          /\ Len(quota') = Len(accounts') /\ accounts' = done
      BY <1>1, <1>2, <1>3, <2>2
    <3>4. \A i \in DOMAIN quota' : \A j \in DOMAIN accounts' :
              quota'[i].totals # NoUser /\ quota'[i].key = accounts'[j].key =>
                  accounts'[j].totals # NoUser
      BY <1>6, <3>2, <3>3
    <3>5. \A i, j \in DOMAIN accounts' : accounts'[i].key = accounts'[j].key => i = j
      BY <1>6, <3>3
    <3>6. \A i \in DOMAIN quota' : quota'[i].key = accounts'[i].key
      BY <3>2, <3>3
    <3> QED
      BY <2>1, <3>1, <3>2, <3>3, <3>4, <3>5, <3>6 DEF PollInv
  <2>4. ASSUME NEW s \in ToSet(quota'), s.available, s.rejected PROVE s.key \in restored
    <3>1. PICK i \in 1 .. Len(accounts) : s = done[i].snapshot
      BY <1>1, <2>2 DEF ToSet
    <3>2. Settled(done[i]) /\ Own(done[i])
      BY <1>1, <1>4, <1>5, <1>10
    <3> QED
      BY <2>4, <3>1, <3>2 DEF Settled, Own
  <2>5. ASSUME NEW k \in Keys, Totals(quota, k), Shows(quota', k) PROVE Totals(quota', k)
    <3>1. PICK i \in 1 .. Len(accounts) : quota'[i].key = k /\ ~ quota'[i].merged
      BY <1>1, <2>2, <2>5 DEF Shows
    <3>2. PICK m \in DOMAIN quota : quota[m].key = k /\ quota[m].totals # NoUser
      BY <2>5 DEF Totals
    <3>3. Settled(done[i]) /\ Own(done[i]) /\ quota'[i] = done[i].snapshot
      BY <1>1, <1>4, <1>5, <1>10, <2>2
    <3>4. done[i].totals # NoUser
      BY <1>7, <3>1, <3>2, <3>3 DEF Own
    <3>5. quota'[i].totals # NoUser /\ i \in DOMAIN quota'
      BY <2>2, <3>1, <3>3, <3>4 DEF Settled
    <3> QED
      BY <3>1, <3>5 DEF Totals
  <2> QED
    BY <1>1, <1>2, <1>3, <2>1, <2>2, <2>3, <2>4, <2>5 DEF NothingTaken
<1> QED
  BY <1>9, <1>10

\* The draft of a key becomes its snapshot.
LEMMA DraftEnds ==
    ASSUME TypeOK, PollInv, pc \in {"limits", "daily"}, UNCHANGED <<sources, valid, restored>>,
           UNCHANGED changes, faults' \in Nat, asked' = asked,
           NEW a \in AccountState, Finish(a), Covers(a), a.user = Current.user,
           Own(a), Settled(a), a.key = Current.key,
           Current.totals # NoUser => a.totals # NoUser
    PROVE  TypeOK' /\ PollInv' /\ (quota' = quota \/ NothingTaken)
<1>1. pc # "wait"
  OBVIOUS
<1>2. covered' \subseteq Users
  BY DEF Covers, TypeOK, AccountState
<1>3. UNCHANGED restored
  OBVIOUS
<1> QED
  BY <1>1, <1>2, <1>3, Finished DEF TypeOK

LEMMA CurrentState ==
    ASSUME TypeOK, PollInv, pc # "wait"
    PROVE  /\ index \in 1 .. Len(accounts) /\ Current \in AccountState /\ Own(Current)
           /\ Current.key \in Keys /\ Owner[Current.key] \in Users
           /\ Current.user # NoUser => Current.user = Owner[Current.key]
<1>1. index \in 1 .. Len(accounts)
  BY DEF TypeOK
<1>2. Current \in AccountState /\ Own(Current)
  BY <1>1 DEF TypeOK, PollInv, Current
<1> QED
  BY <1>1, <1>2 DEF AccountState, Own, OfKey

LEMMA RefreshStep ==
    ASSUME TypeOK, PollInv, Refresh
    PROVE  TypeOK' /\ PollInv' /\ (quota' = quota \/ NothingTaken)
<1> DEFINE creds == ResolveCredentials(sources)
           S == syncAccounts(creds)
<1>1. sources \in Seq(Keys)
  BY DEF TypeOK
<1>2. /\ creds \in Seq(Keys) /\ Len(creds) <= MaxKeys
      /\ \A m, n \in 1 .. Len(creds) : creds[m] = creds[n] => m = n
  BY <1>1, ResolvedKeys
<1> HIDE DEF creds
<1>3. /\ S \in Seq(AccountState) /\ Len(S) = Len(creds)
      /\ \A i \in 1 .. Len(creds) :
           /\ S[i].key = creds[i]
           /\ \/ \E j \in 1 .. Len(accounts) : S[i] = accounts[j]
              \/ /\ S[i] = newPlanAccount(creds[i])
                 /\ \A j \in 1 .. Len(accounts) : accounts[j].key # creds[i]
  BY <1>2, SyncedAccounts DEF TypeOK
<1> HIDE DEF S
<1>4. /\ pc = "wait" /\ accounts' = S /\ covered' = {} /\ asked' = <<>> /\ restored' = {}
      /\ draft' = <<>> /\ UNCHANGED <<sources, valid, changes, faults>>
      /\ \/ S = <<>> /\ quota' = <<>> /\ index' = 0 /\ pc' = pc
         \/ S # <<>> /\ quota' = quota /\ index' = 1 /\ pc' = "me"
  BY DEF Refresh, world, budgets, S, creds
<1>5. /\ accounts \in Seq(AccountState) /\ quota \in Seq(Snapshot) /\ Len(quota) <= MaxKeys
      /\ sources \in Setups /\ valid \subseteq Keys /\ {changes, faults} \subseteq Nat
  BY DEF TypeOK
<1>6. ASSUME NEW i \in 1 .. Len(creds) PROVE Own(S[i])
  <2>1. ASSUME NEW j \in 1 .. Len(accounts), S[i] = accounts[j] PROVE Own(S[i])
    BY <1>5, <2>1 DEF PollInv
  <2>2. CASE S[i] = newPlanAccount(creds[i])
    BY <2>2 DEF newPlanAccount, Empty, Own, OfKey
  <2> QED
    BY <1>3, <2>1, <2>2
<1>7. ASSUME NEW i \in DOMAIN quota, NEW j \in 1 .. Len(creds),
             quota[i].totals # NoUser, quota[i].key = S[j].key
      PROVE  S[j].totals # NoUser
  <2>1. i \in 1 .. Len(accounts) /\ quota[i].key = accounts[i].key
    BY <1>4, <1>5 DEF PollInv
  <2>2. PICK m \in 1 .. Len(accounts) : S[j] = accounts[m]
    BY <1>3, <1>7, <2>1
  <2> QED
    BY <1>5, <1>7, <2>2 DEF PollInv
<1>8. DOMAIN S = 1 .. Len(creds) /\ Len(creds) \in Nat
  BY <1>2, <1>3
<1>9. CASE S = <<>>
  <2>1. quota' = <<>> /\ index' = 0 /\ pc' = "wait"
    BY <1>4, <1>9
  <2>2. TypeOK'
    BY <1>2, <1>3, <1>4, <1>5, <1>9, <2>1 DEF TypeOK
  <2>3. PollInv'
    BY <1>4, <1>9, <2>1 DEF PollInv
  <2>4. NothingTaken
    BY <2>1 DEF NothingTaken, Shows, ToSet
  <2> QED
    BY <2>2, <2>3, <2>4
<1>10. CASE S # <<>>
  <2>1. quota' = quota /\ index' = 1 /\ pc' = "me"
    BY <1>4, <1>10
  <2>2. Len(S) \in Nat \ {0}
    BY <1>3, <1>10
  <2>3. TypeOK'
    BY <1>2, <1>3, <1>4, <1>5, <2>1, <2>2 DEF TypeOK
  <2>4. \A i, j \in 1 .. Len(creds) : S[i].key = S[j].key => i = j
    BY <1>2, <1>3
  <2>5. \A i \in DOMAIN quota :
            quota[i].user \in OfKey(quota[i].key) /\ quota[i].totals \in OfKey(quota[i].key)
    BY DEF PollInv
  <2>6. PollInv'
    BY <1>4, <1>6, <1>7, <1>8, <2>1, <2>4, <2>5 DEF PollInv
  <2> QED
    BY <2>1, <2>3, <2>6
<1> QED
  BY <1>9, <1>10

LEMMA MergedStep ==
    ASSUME TypeOK, PollInv, Merged
    PROVE  TypeOK' /\ PollInv' /\ (quota' = quota \/ NothingTaken)
<1> DEFINE merged == [Empty(Current.key) EXCEPT !.merged = TRUE, !.user = Current.user]
           a == [Current EXCEPT !.snapshot = merged]
<1>1. /\ pc = "me" /\ Finish(a)
      /\ UNCHANGED <<sources, valid, covered, asked, restored, changes, faults>>
  BY DEF Merged, world, budgets
<1>2. Current \in AccountState /\ Own(Current) /\ Current.key \in Keys
  BY <1>1, CurrentState
<1>3. /\ merged \in Snapshot /\ merged.key = Current.key /\ merged.merged /\ ~ merged.available
      /\ merged.user = Current.user /\ merged.totals = NoUser
  BY <1>2 DEF Empty, Snapshot, AccountState
<1> HIDE DEF merged
<1>4. /\ a \in AccountState /\ a.key = Current.key /\ a.totals = Current.totals
      /\ a.user = Current.user /\ a.snapshot = merged
  BY <1>2, <1>3 DEF AccountState
<1> HIDE DEF a
<1>5. Own(a) /\ Settled(a)
  BY <1>2, <1>3, <1>4 DEF Own, Settled, OfKey
<1> QED
  BY <1>1, <1>4, <1>5, Finished DEF TypeOK

\* The calls: each of them leaves what the next one needs.
LEMMA MeStep ==
    ASSUME TypeOK, PollInv, Me
    PROVE  TypeOK' /\ PollInv' /\ (quota' = quota \/ NothingTaken)
<1>1. pc = "me" /\ UNCHANGED <<sources, valid, restored, changes>>
  BY DEF Me, world
<1>2. /\ index \in 1 .. Len(accounts) /\ Current \in AccountState /\ Own(Current)
      /\ Current.key \in Keys /\ Owner[Current.key] \in Users
      /\ Current.user # NoUser => Current.user = Owner[Current.key]
  BY <1>1, CurrentState
<1>3. /\ accounts \in Seq(AccountState) /\ Len(accounts) \in Nat /\ Len(accounts) <= MaxKeys
      /\ quota \in Seq(Snapshot) /\ Len(quota) <= MaxKeys /\ covered \subseteq Users
      /\ asked \in Seq([user : Users, known : BOOLEAN]) /\ faults \in Nat
      /\ sources \in Setups /\ valid \subseteq Keys /\ restored \subseteq Keys /\ changes \in Nat
  BY DEF TypeOK
<1>4. /\ Begin \in Snapshot /\ Begin.key = Current.key /\ ~ Begin.available /\ ~ Begin.merged
      /\ ~ Begin.rejected /\ Begin.user = NoUser /\ Begin.totals = Current.totals
  BY <1>2 DEF Begin, Empty, Snapshot, AccountState
<1> DEFINE user == Owner[Current.key]
<1>5. CASE /\ Accepted /\ accounts' = [accounts EXCEPT ![index].user = user]
           /\ draft' = [Begin EXCEPT !.user = user]
           /\ asked' = Append(asked, [user |-> user, known |-> Current.user # NoUser])
           /\ pc' = "limits" /\ UNCHANGED <<index, covered, quota>>
  <2> DEFINE a == [Current EXCEPT !.user = user]
  <2>1. accounts' = [accounts EXCEPT ![index] = a]
    BY <1>5 DEF Current
  <2>2. /\ a \in AccountState /\ a.key = Current.key /\ a.user = user /\ a.totals = Current.totals
        /\ a.snapshot = Current.snapshot
    BY <1>2 DEF AccountState
  <2> HIDE DEF a
  <2>3. /\ accounts' \in Seq(AccountState) /\ Len(accounts') = Len(accounts)
        /\ accounts'[index] = a
        /\ \A j \in 1 .. Len(accounts) : j # index => accounts'[j] = accounts[j]
    BY <1>2, <1>3, <2>1, <2>2, ExceptSeq
  <2>4. [user |-> user, known |-> Current.user # NoUser] \in [user : Users, known : BOOLEAN]
    BY <1>2
  <2>5. asked' \in Seq([user : Users, known : BOOLEAN])
    BY <1>3, <1>5, <2>4
  <2>6. /\ draft' \in Snapshot /\ draft'.key = Current.key /\ ~ draft'.available
        /\ ~ draft'.merged /\ ~ draft'.rejected /\ draft'.user = user
        /\ draft'.totals = Current.totals
    BY <1>2, <1>4, <1>5 DEF Snapshot
  <2>7. faults' \in Nat
    BY <1>3, <1>5 DEF Accepted
  <2>8. TypeOK'
    BY <1>1, <1>2, <1>3, <1>5, <2>3, <2>5, <2>6, <2>7 DEF TypeOK
  <2>9. Current' = a
    BY <1>5, <2>3 DEF Current
  <2>10. Drafted'
    BY <1>2, <2>2, <2>6, <2>9 DEF Drafted, OfKey
  <2>11. PollInv'
    <3>1. ASSUME NEW i \in 1 .. Len(accounts)
          PROVE  /\ Own(accounts'[i]) /\ accounts'[i].key = accounts[i].key
                 /\ accounts'[i].totals = accounts[i].totals
      <4>1. CASE i = index
        BY <1>2, <2>2, <2>3, <4>1 DEF Own, OfKey, Current
      <4>2. CASE i # index
        BY <1>3, <2>3, <4>2 DEF PollInv
      <4> QED
        BY <4>1, <4>2
    <3>2. ASSUME NEW i \in 1 .. index - 1 PROVE Settled(accounts[i])'
      <4>1. accounts'[i] = accounts[i] /\ Settled(accounts[i])
        BY <1>1, <1>2, <1>3, <2>3 DEF PollInv
      <4> QED
        BY <1>1, <4>1 DEF Settled
    <3>3. DOMAIN accounts' = 1 .. Len(accounts) /\ DOMAIN accounts = 1 .. Len(accounts)
      BY <1>3, <2>3
    <3>4. \A i, j \in DOMAIN accounts' : accounts'[i].key = accounts'[j].key => i = j
      BY <3>1, <3>3 DEF PollInv
    <3>5. \A i \in DOMAIN quota : \A j \in DOMAIN accounts' :
              quota[i].totals # NoUser /\ quota[i].key = accounts'[j].key =>
                  accounts'[j].totals # NoUser
      BY <3>1, <3>3 DEF PollInv
    <3>6. \A i \in DOMAIN quota :
              quota[i].user \in OfKey(quota[i].key) /\ quota[i].totals \in OfKey(quota[i].key)
      BY DEF PollInv
    <3>7. \A i \in DOMAIN accounts' : Own(accounts'[i])
      BY <3>1, <3>3
    <3> QED
      BY <1>5, <2>10, <3>2, <3>4, <3>5, <3>6, <3>7 DEF PollInv
  <2> QED
    BY <1>5, <2>8, <2>11
<1>6. ASSUME NEW refused \in BOOLEAN, NoAnswer(refused),
             LET silent == [Begin EXCEPT !.rejected = @ \/ refused]
             IN  IF Current.user = NoUser
                 THEN /\ Finish([Current EXCEPT !.snapshot = silent])
                      /\ Covers(Current) /\ UNCHANGED asked
                 ELSE /\ draft' = silent
                      /\ asked' = Append(asked, [user |-> Current.user, known |-> TRUE])
                      /\ pc' = "limits" /\ UNCHANGED <<accounts, index, covered, quota>>
      PROVE  TypeOK' /\ PollInv' /\ (quota' = quota \/ NothingTaken)
  <2> DEFINE silent == [Begin EXCEPT !.rejected = @ \/ refused]
             a == [Current EXCEPT !.snapshot = silent]
  <2>1. /\ silent \in Snapshot /\ silent.key = Current.key /\ ~ silent.available
        /\ ~ silent.merged /\ silent.user = NoUser /\ silent.totals = Current.totals
        /\ silent.rejected <=> refused
    BY <1>4 DEF Snapshot
  <2>2. faults' \in Nat /\ (refused => Current.key \notin valid)
    BY <1>3, <1>6 DEF NoAnswer
  <2>3. CASE Current.user = NoUser
    <3>1. Finish(a) /\ Covers(Current) /\ UNCHANGED asked
      BY <1>6, <2>3
    <3> HIDE DEF silent
    <3>2. /\ a \in AccountState /\ a.key = Current.key /\ a.totals = Current.totals
          /\ a.user = Current.user /\ a.snapshot = silent
      BY <1>2, <2>1 DEF AccountState
    <3> HIDE DEF a
    <3>3. Own(a) /\ Settled(a)
      BY <1>2, <2>1, <3>2 DEF Own, Settled, OfKey
    <3>4. covered' \subseteq Users
      BY <1>2, <1>3, <3>1 DEF Covers
    <3> QED
      BY <1>1, <1>3, <2>2, <3>1, <3>2, <3>3, <3>4, Finished DEF TypeOK
  <2>4. CASE Current.user # NoUser
    <3>1. /\ draft' = silent /\ pc' = "limits" /\ UNCHANGED <<accounts, index, covered, quota>>
          /\ asked' = Append(asked, [user |-> Current.user, known |-> TRUE])
      BY <1>6, <2>4
    <3> HIDE DEF silent
    <3>2. [user |-> Current.user, known |-> TRUE] \in [user : Users, known : BOOLEAN]
      BY <1>2, <2>4
    <3>3. asked' \in Seq([user : Users, known : BOOLEAN])
      BY <1>3, <3>1, <3>2
    <3>4. TypeOK'
      BY <1>1, <1>2, <1>3, <2>1, <2>2, <3>1, <3>3 DEF TypeOK
    <3>5. Current' = Current
      BY <3>1 DEF Current
    <3>6. Drafted'
      BY <1>1, <2>1, <2>2, <2>4, <3>1, <3>5 DEF Drafted, OfKey
    <3>7. ASSUME NEW i \in 1 .. index - 1 PROVE Settled(accounts[i])'
      <4>1. Settled(accounts[i])
        BY <1>1, <1>2, <1>3 DEF PollInv
      <4> QED
        BY <1>1, <3>1, <4>1 DEF Settled
    <3>8. PollInv'
      BY <3>1, <3>6, <3>7 DEF PollInv
    <3> QED
      BY <3>1, <3>4, <3>8
  <2> QED
    BY <2>3, <2>4
<1> QED
  BY <1>5, <1>6 DEF Me

LEMMA LimitsStep ==
    ASSUME TypeOK, PollInv, Limits
    PROVE  TypeOK' /\ PollInv' /\ (quota' = quota \/ NothingTaken)
<1>1. pc = "limits" /\ UNCHANGED <<sources, valid, asked, restored, changes>>
  BY DEF Limits, world
<1>2. /\ index \in 1 .. Len(accounts) /\ Current \in AccountState /\ Own(Current)
      /\ Current.key \in Keys
  BY <1>1, CurrentState
<1>3. Drafted
  BY <1>1 DEF PollInv
<1>4. faults \in Nat
  BY DEF TypeOK
<1>5. CASE /\ Accepted /\ Current.due /\ pc' = "daily"
           /\ UNCHANGED <<accounts, index, covered, draft, quota>>
  <2>1. Current.key \in valid /\ faults' = faults
    BY <1>5 DEF Accepted
  <2>2. TypeOK'
    BY <1>1, <1>4, <1>5, <2>1 DEF TypeOK
  <2>3. Drafted'
    BY <1>1, <1>3, <1>5, <2>1 DEF Drafted, Current
  <2>4. ASSUME NEW i \in 1 .. index - 1 PROVE Settled(accounts[i])'
    <3>1. Settled(accounts[i])
      BY <1>1, <2>4 DEF PollInv
    <3> QED
      BY <1>1, <1>5, <3>1 DEF Settled
  <2>5. PollInv'
    BY <1>5, <2>3, <2>4 DEF PollInv
  <2> QED
    BY <1>5, <2>2, <2>5
<1>6. CASE /\ Accepted /\ ~ Current.due
           /\ LET a == [Current EXCEPT !.snapshot = [draft EXCEPT !.available = TRUE]]
              IN  Finish(a) /\ Covers(a)
  <2> DEFINE shown == [draft EXCEPT !.available = TRUE]
             a == [Current EXCEPT !.snapshot = shown]
  <2>1. Current.key \in valid /\ faults' = faults /\ Finish(a) /\ Covers(a)
    BY <1>6 DEF Accepted
  <2>2. /\ shown \in Snapshot /\ shown.key = Current.key /\ shown.rejected = draft.rejected
        /\ shown.user = draft.user /\ shown.totals = Current.totals
    BY <1>3 DEF Drafted, Snapshot
  <2> HIDE DEF shown
  <2>3. /\ a \in AccountState /\ a.key = Current.key /\ a.totals = Current.totals
        /\ a.user = Current.user /\ a.snapshot = shown
    BY <1>2, <2>2 DEF AccountState
  <2> HIDE DEF a
  <2>4. Own(a) /\ Settled(a)
    BY <1>2, <1>3, <2>1, <2>2, <2>3 DEF Own, Settled, Drafted, OfKey
  <2> QED
    BY <1>1, <1>4, <2>1, <2>3, <2>4, DraftEnds
<1>7. ASSUME NEW refused \in BOOLEAN, NoAnswer(refused),
             LET a == [Current EXCEPT !.snapshot = [draft EXCEPT !.rejected = @ \/ refused]]
             IN  Finish(a) /\ Covers(a)
      PROVE  TypeOK' /\ PollInv' /\ (quota' = quota \/ NothingTaken)
  <2> DEFINE shown == [draft EXCEPT !.rejected = @ \/ refused]
             a == [Current EXCEPT !.snapshot = shown]
  <2>1. faults' \in Nat /\ Finish(a) /\ Covers(a)
    BY <1>4, <1>7 DEF NoAnswer
  <2>2. /\ shown \in Snapshot /\ shown.key = Current.key /\ ~ shown.available
        /\ shown.user = draft.user /\ shown.totals = Current.totals
    BY <1>3 DEF Drafted, Snapshot
  <2> HIDE DEF shown
  <2>3. /\ a \in AccountState /\ a.key = Current.key /\ a.totals = Current.totals
        /\ a.user = Current.user /\ a.snapshot = shown
    BY <1>2, <2>2 DEF AccountState
  <2> HIDE DEF a
  <2>4. Own(a) /\ Settled(a)
    BY <1>2, <1>3, <2>2, <2>3 DEF Own, Settled, Drafted, OfKey
  <2> QED
    BY <1>1, <2>1, <2>3, <2>4, DraftEnds
<1> QED
  BY <1>5, <1>6, <1>7 DEF Limits

LEMMA DailyStep ==
    ASSUME TypeOK, PollInv, Daily
    PROVE  TypeOK' /\ PollInv' /\ (quota' = quota \/ NothingTaken)
<1>1. pc = "daily" /\ UNCHANGED <<sources, valid, asked, restored, changes>>
  BY DEF Daily, world
<1>2. /\ index \in 1 .. Len(accounts) /\ Current \in AccountState /\ Own(Current)
      /\ Current.key \in Keys
  BY <1>1, CurrentState
<1>3. Drafted
  BY <1>1 DEF PollInv
<1>4. faults \in Nat
  BY DEF TypeOK
<1>5. draft.rejected => Current.key \in restored
  BY <1>1, <1>3 DEF Drafted
<1>6. CASE /\ Accepted
           /\ LET user == Current.user
                  a == [Current EXCEPT !.totals = user, !.due = FALSE,
                           !.snapshot = [draft EXCEPT !.available = TRUE, !.totals = user]]
              IN  Finish(a) /\ Covers(a)
  <2> DEFINE shown == [draft EXCEPT !.available = TRUE, !.totals = Current.user]
             a == [Current EXCEPT !.totals = Current.user, !.due = FALSE, !.snapshot = shown]
  <2>1. faults' = faults /\ Finish(a) /\ Covers(a)
    BY <1>6 DEF Accepted
  <2>2. /\ shown \in Snapshot /\ shown.key = Current.key /\ shown.rejected = draft.rejected
        /\ shown.user = draft.user /\ shown.totals = Current.user
    BY <1>2, <1>3 DEF Drafted, Snapshot, AccountState
  <2> HIDE DEF shown
  <2>3. /\ a \in AccountState /\ a.key = Current.key /\ a.totals = Current.user
        /\ a.user = Current.user /\ a.snapshot = shown
    BY <1>2, <2>2 DEF AccountState
  <2> HIDE DEF a
  <2>4. Own(a) /\ Settled(a) /\ a.totals # NoUser
    BY <1>2, <1>3, <1>5, <2>2, <2>3 DEF Own, Settled, Drafted, OfKey
  <2> QED
    BY <1>1, <1>4, <2>1, <2>3, <2>4, DraftEnds
<1>7. CASE /\ \E refused \in BOOLEAN : NoAnswer(refused)
           /\ LET a == [Current EXCEPT !.snapshot = [draft EXCEPT !.available = TRUE]]
              IN  Finish(a) /\ Covers(a)
  <2> DEFINE shown == [draft EXCEPT !.available = TRUE]
             a == [Current EXCEPT !.snapshot = shown]
  <2>1. faults' \in Nat /\ Finish(a) /\ Covers(a)
    BY <1>4, <1>7 DEF NoAnswer
  <2>2. /\ shown \in Snapshot /\ shown.key = Current.key /\ shown.rejected = draft.rejected
        /\ shown.user = draft.user /\ shown.totals = Current.totals
    BY <1>3 DEF Drafted, Snapshot
  <2> HIDE DEF shown
  <2>3. /\ a \in AccountState /\ a.key = Current.key /\ a.totals = Current.totals
        /\ a.user = Current.user /\ a.snapshot = shown
    BY <1>2, <2>2 DEF AccountState
  <2> HIDE DEF a
  <2>4. Own(a) /\ Settled(a)
    BY <1>2, <1>3, <1>5, <2>2, <2>3 DEF Own, Settled, Drafted, OfKey
  <2> QED
    BY <1>1, <2>1, <2>3, <2>4, DraftEnds
<1> QED
  BY <1>6, <1>7 DEF Daily

LEMMA DueFits ==
    ASSUME NEW a \in AccountState
    PROVE  LET b == [a EXCEPT !.due = TRUE]
           IN  /\ b \in AccountState /\ b.key = a.key /\ b.user = a.user
               /\ b.totals = a.totals /\ b.snapshot = a.snapshot
  BY DEF AccountState

\* What changes around the poller.  A key that is accepted again in the middle of a round
\* is remembered as such, and totals that fall due are no less there.
LEMMA WorldStep ==
    ASSUME TypeOK, PollInv,
           EditSources \/ Start \/ Hour \/ (\E k \in Keys : Revoke(k) \/ Restore(k))
    PROVE  TypeOK' /\ PollInv' /\ (quota' = quota \/ NothingTaken)
<1>1. CASE EditSources
  <2>1. UNCHANGED <<valid, accounts, pc, index, covered, draft, asked, quota, restored, faults>>
        /\ sources' \in Setups /\ changes' \in Nat
    BY <1>1 DEF EditSources, Change, round, TypeOK
  <2>2. TypeOK' /\ PollInv'
    BY <2>1 DEF TypeOK, PollInv, Drafted, Settled, Current
  <2> QED
    BY <2>1, <2>2
<1>2. CASE Start
  <2>1. /\ accounts' = <<>> /\ pc' = "wait" /\ index' = 0 /\ covered' = {} /\ draft' = <<>>
        /\ asked' = <<>> /\ quota' = <<>> /\ restored' = {} /\ UNCHANGED <<sources, valid, faults>>
        /\ changes' \in Nat
    BY <1>2 DEF Start, Change, world, TypeOK
  <2>2. TypeOK' /\ PollInv'
    BY <2>1 DEF TypeOK, PollInv
  <2>3. NothingTaken
    BY <2>1 DEF NothingTaken, Shows, ToSet
  <2> QED
    BY <2>2, <2>3
<1>3. CASE Hour
  <2>1. /\ accounts' = [i \in DOMAIN accounts |-> [accounts[i] EXCEPT !.due = TRUE]]
        /\ UNCHANGED <<sources, valid, pc, index, covered, draft, asked, quota, restored, changes,
                       faults>>
    BY <1>3 DEF Hour, world, round, budgets
  <2>2. /\ accounts \in Seq(AccountState) /\ Len(accounts) \in Nat
        /\ DOMAIN accounts = 1 .. Len(accounts)
    BY DEF TypeOK
  <2>3. \A i \in 1 .. Len(accounts) : /\ accounts[i] \in AccountState
                                        /\ accounts'[i] = [accounts[i] EXCEPT !.due = TRUE]
    BY <2>1, <2>2
  <2>4. \A i \in 1 .. Len(accounts) :
           /\ accounts'[i] \in AccountState /\ accounts'[i].key = accounts[i].key
           /\ accounts'[i].user = accounts[i].user /\ accounts'[i].totals = accounts[i].totals
           /\ accounts'[i].snapshot = accounts[i].snapshot
    <3> SUFFICES ASSUME NEW i \in 1 .. Len(accounts)
                 PROVE  /\ accounts'[i] \in AccountState /\ accounts'[i].key = accounts[i].key
                        /\ accounts'[i].user = accounts[i].user
                        /\ accounts'[i].totals = accounts[i].totals
                        /\ accounts'[i].snapshot = accounts[i].snapshot
      OBVIOUS
    <3>1. PICK a \in AccountState : a = accounts[i]
      BY <2>3
    <3>2. accounts'[i] = [a EXCEPT !.due = TRUE]
      BY <2>3, <3>1
    <3> QED
      BY <3>1, <3>2, DueFits
  <2>5. /\ accounts' \in Seq(AccountState) /\ Len(accounts') = Len(accounts)
        /\ DOMAIN accounts' = 1 .. Len(accounts)
    <3>1. accounts' \in [1 .. Len(accounts) -> AccountState]
      BY <2>1, <2>2, <2>4
    <3> QED
      BY <2>2, <3>1
  <2>6. TypeOK'
    BY <2>1, <2>5 DEF TypeOK
  <2>7. pc \in {"limits", "daily"} => Drafted'
    <3>1. index \in 1 .. Len(accounts) => /\ Current'.key = Current.key
                                          /\ Current'.totals = Current.totals
                                          /\ Current'.user = Current.user
      BY <2>1, <2>4 DEF Current
    <3> QED
      BY <2>1, <3>1, CurrentState DEF PollInv, Drafted
  <2>8. \A i \in 1 .. Len(accounts) : Own(accounts'[i])
    BY <2>2, <2>4 DEF PollInv, Own
  <2>9. pc # "wait" => \A i \in 1 .. index - 1 : Settled(accounts[i])'
    <3> SUFFICES ASSUME pc # "wait", NEW i \in 1 .. index - 1 PROVE Settled(accounts[i])'
      OBVIOUS
    <3>1. i \in 1 .. Len(accounts) /\ Settled(accounts[i])
      BY CurrentState DEF PollInv, TypeOK
    <3> QED
      BY <2>1, <2>4, <3>1 DEF Settled
  <2>10. /\ \A i, j \in DOMAIN accounts' : accounts'[i].key = accounts'[j].key => i = j
        /\ \A i \in DOMAIN quota' : \A j \in DOMAIN accounts' :
              quota'[i].totals # NoUser /\ quota'[i].key = accounts'[j].key =>
                  accounts'[j].totals # NoUser
    <3>1. /\ \A i, j \in DOMAIN accounts : accounts[i].key = accounts[j].key => i = j
          /\ \A i \in DOMAIN quota : \A j \in DOMAIN accounts :
                quota[i].totals # NoUser /\ quota[i].key = accounts[j].key =>
                    accounts[j].totals # NoUser
      BY DEF PollInv
    <3>2. /\ DOMAIN accounts' = DOMAIN accounts /\ quota' = quota
          /\ \A j \in DOMAIN accounts : /\ accounts'[j].key = accounts[j].key
                                        /\ accounts'[j].totals = accounts[j].totals
      BY <2>1, <2>2, <2>4, <2>5
    <3>3. \A i, j \in DOMAIN accounts' : accounts'[i].key = accounts'[j].key => i = j
      BY <3>1, <3>2
    <3>4. ASSUME NEW i \in DOMAIN quota', NEW j \in DOMAIN accounts',
                 quota'[i].totals # NoUser, quota'[i].key = accounts'[j].key
          PROVE  accounts'[j].totals # NoUser
      BY <3>1, <3>2, <3>4
    <3> QED
      BY <3>3, <3>4
  <2>11. pc' = "wait" => /\ Len(quota') = Len(accounts')
                         /\ \A i \in DOMAIN quota' : quota'[i].key = accounts'[i].key
    <3>1. quota \in Seq(Snapshot)
      BY DEF TypeOK
    <3> QED
      BY <2>1, <2>4, <2>5, <3>1 DEF PollInv
  <2>12. \A i \in DOMAIN quota :
             quota[i].user \in OfKey(quota[i].key) /\ quota[i].totals \in OfKey(quota[i].key)
    BY DEF PollInv
  <2> QED
    BY <2>1, <2>5, <2>6, <2>7, <2>8, <2>9, <2>10, <2>11, <2>12 DEF PollInv
<1>4. ASSUME NEW k \in Keys, Revoke(k) \/ Restore(k)
      PROVE  TypeOK' /\ PollInv' /\ (quota' = quota \/ NothingTaken)
  <2>1. /\ UNCHANGED <<sources, accounts, pc, index, covered, draft, asked, quota, faults>>
        /\ restored \subseteq restored' /\ restored' \subseteq Keys /\ valid' \subseteq Keys
        /\ pc # "wait" => \A j \in Keys : j \in restored' \/ j \in valid \/ j \notin valid'
        /\ changes' \in Nat
    BY <1>4 DEF Revoke, Restore, Change, round, TypeOK
  <2>2. TypeOK'
    BY <2>1 DEF TypeOK
  <2>3. pc \in {"limits", "daily"} => Drafted'
    <3>1. Current' = Current
      BY <2>1 DEF Current
    <3> QED
      BY <2>1, <3>1, CurrentState DEF PollInv, Drafted
  <2>4. pc # "wait" => \A i \in 1 .. index - 1 : Settled(accounts[i])'
    BY <2>1 DEF PollInv, Settled
  <2>5. PollInv'
    BY <2>1, <2>3, <2>4 DEF PollInv
  <2> QED
    BY <2>1, <2>2, <2>5
<1> QED
  BY <1>1, <1>2, <1>3, <1>4

LEMMA PollStep ==
    TypeOK /\ PollInv /\ [Next]_vars =>
        TypeOK' /\ PollInv' /\ (quota' = quota \/ NothingTaken)
<1> SUFFICES ASSUME TypeOK, PollInv, [Next]_vars
             PROVE  TypeOK' /\ PollInv' /\ (quota' = quota \/ NothingTaken)
  OBVIOUS
<1>1. CASE Step
  BY <1>1, RefreshStep, MergedStep, MeStep, LimitsStep, DailyStep DEF Step
<1>2. CASE UNCHANGED vars
  BY <1>2 DEF vars, world, round, budgets, TypeOK, PollInv, Drafted, Settled, Current
<1> QED
  BY <1>1, <1>2, WorldStep DEF Next

-----------------------------------------------------------------------------
(* PlanPoller: results *)

LEMMA PollInvariance == Spec => [](TypeOK /\ PollInv)
  BY StartState, PollStep, PTL DEF Spec

\* The page shows under each key the account, and the totals, of that key, whatever is
\* added, taken out or reordered between and during rounds.
THEOREM OwnIsShown == Spec => []OwnAccount
<1>1. TypeOK /\ PollInv => OwnAccount
  <2> SUFFICES ASSUME TypeOK, PollInv, NEW s \in Published
               PROVE  {s.user, s.totals} \subseteq {NoUser, Owner[s.key]}
    BY DEF OwnAccount
  <2>1. PICK i \in DOMAIN quota : s = quota[i]
    BY DEF Published, ToSet
  <2>2. s.user \in OfKey(s.key) /\ s.totals \in OfKey(s.key)
    BY <2>1 DEF PollInv
  <2> QED
    BY <2>2 DEF OfKey
<1> QED
  BY <1>1, PollInvariance, PTL

\* No step that publishes hides a key that answers as a refused one, unless it was
\* accepted again in that very round, nor drops totals that were shown.
THEOREM NothingIsTaken == Spec => FailureTakesNothing
<1>1. TypeOK /\ PollInv /\ [Next]_vars => [NothingTaken]_quota
  BY PollStep
<1>2. [NothingTaken]_quota =>
        [ /\ \A s \in ToSet(quota') : s.available /\ s.rejected => s.key \in restored
          /\ \A k \in Keys : Totals(quota, k) /\ Shows(quota', k) => Totals(quota', k) ]_quota
  BY DEF NothingTaken
<1> QED
  BY <1>1, <1>2, PollInvariance, PTL DEF Spec, FailureTakesNothing

-----------------------------------------------------------------------------
(* PlanPoller: what a round asks *)

\* An account asked in this round is covered by then, or is the one of this turn.
Answered(n) == \/ asked[n].user \in covered
               \/ pc \in {"limits", "daily"} /\ asked[n].user = Current.user

AskInv == OncePerAccount /\ \A n \in DOMAIN asked : Answered(n)

LEMMA AskStands ==
    ASSUME AskInv, asked' = asked, \A n \in DOMAIN asked : Answered(n)'
    PROVE  AskInv'
  BY DEF AskInv, OncePerAccount

\* The turn of a key whose account is known ends with that account covered.
LEMMA AskCovers ==
    ASSUME TypeOK, PollInv, AskInv, pc \in {"limits", "daily"}, asked' = asked,
           NEW a, a.user = Current.user, Covers(a)
    PROVE  AskInv'
<1>1. Current.user # NoUser
  BY DEF PollInv, Drafted
<1>2. covered' = covered \cup {Current.user}
  BY <1>1 DEF Covers
<1>3. \A n \in DOMAIN asked : asked[n].user \in covered'
  BY <1>2 DEF AskInv, Answered
<1> QED
  BY <1>3, AskStands DEF Answered

LEMMA AskMe ==
    ASSUME TypeOK, PollInv, AskInv, Me PROVE AskInv'
<1>1. pc = "me" /\ Current.user \notin covered
  BY DEF Me
<1>2. /\ index \in 1 .. Len(accounts) /\ Current \in AccountState
      /\ Current.user # NoUser => Current.user = Owner[Current.key]
  BY <1>1, CurrentState
<1>3. asked \in Seq([user : Users, known : BOOLEAN])
  BY DEF TypeOK
<1>4. \A n \in DOMAIN asked : asked[n].user \in covered
  BY <1>1 DEF AskInv, Answered
<1>5. ASSUME NEW e, asked' = Append(asked, e), e.known => e.user = Current.user,
             covered' = covered, pc' = "limits", Current'.user = e.user
      PROVE  AskInv'
  <2>1. /\ DOMAIN asked' = 1 .. Len(asked) + 1 /\ DOMAIN asked = 1 .. Len(asked)
        /\ Len(asked) \in Nat /\ asked'[Len(asked) + 1] = e
        /\ \A n \in 1 .. Len(asked) : asked'[n] = asked[n]
    BY <1>3, <1>5
  <2>2. ASSUME NEW i \in DOMAIN asked', NEW j \in DOMAIN asked', i < j,
               asked'[i].user = asked'[j].user, asked'[j].known
        PROVE  FALSE
    <3>1. i \in 1 .. Len(asked) /\ asked'[i] = asked[i] /\ asked[i].user \in covered
      BY <1>4, <2>1, <2>2
    <3>2. CASE j = Len(asked) + 1
      BY <1>1, <1>5, <2>1, <2>2, <3>1, <3>2
    <3>3. CASE j # Len(asked) + 1
      BY <2>1, <2>2, <3>1, <3>3 DEF AskInv, OncePerAccount
    <3> QED
      BY <3>2, <3>3
  <2>3. \A n \in DOMAIN asked' : Answered(n)'
    BY <1>4, <1>5, <2>1 DEF Answered
  <2> QED
    BY <2>2, <2>3 DEF AskInv, OncePerAccount
<1>6. CASE /\ Accepted
           /\ LET user == Owner[Current.key]
              IN  /\ accounts' = [accounts EXCEPT ![index].user = user]
                  /\ draft' = [Begin EXCEPT !.user = user]
           /\ asked' = Append(asked, [user  |-> Owner[Current.key],
                                      known |-> Current.user # NoUser])
           /\ pc' = "limits" /\ UNCHANGED <<index, covered, quota>>
  <2>1. Current'.user = Owner[Current.key]
    BY <1>2, <1>6 DEF Current, TypeOK, AccountState
  <2> DEFINE e == [user |-> Owner[Current.key], known |-> Current.user # NoUser]
  <2>2. /\ e.user = Owner[Current.key] /\ (e.known => e.user = Current.user)
        /\ asked' = Append(asked, e)
    BY <1>2, <1>6
  <2> HIDE DEF e
  <2> QED
    BY <1>5, <1>6, <2>1, <2>2
<1>7. ASSUME NEW refused \in BOOLEAN,
             LET silent == [Begin EXCEPT !.rejected = @ \/ refused]
             IN  IF Current.user = NoUser
                 THEN /\ Finish([Current EXCEPT !.snapshot = silent])
                      /\ Covers(Current) /\ UNCHANGED asked
                 ELSE /\ draft' = silent
                      /\ asked' = Append(asked, [user |-> Current.user, known |-> TRUE])
                      /\ pc' = "limits" /\ UNCHANGED <<accounts, index, covered, quota>>
      PROVE  AskInv'
  <2>1. CASE Current.user = NoUser
    <3>1. asked' = asked /\ covered' = covered
      BY <1>7, <2>1 DEF Covers
    <3> QED
      BY <1>4, <3>1, AskStands DEF Answered
  <2>2. CASE Current.user # NoUser
    <3> DEFINE e == [user |-> Current.user, known |-> TRUE]
    <3>1. /\ asked' = Append(asked, e) /\ e.user = Current.user /\ pc' = "limits"
          /\ UNCHANGED <<accounts, index, covered>>
      BY <1>7, <2>2
    <3>2. Current' = Current
      BY <3>1 DEF Current
    <3> HIDE DEF e
    <3> QED
      BY <1>5, <3>1, <3>2
  <2> QED
    BY <2>1, <2>2
<1> QED
  BY <1>6, <1>7 DEF Me

LEMMA AskStep == TypeOK /\ PollInv /\ AskInv /\ [Next]_vars => AskInv'
<1> SUFFICES ASSUME TypeOK, PollInv, AskInv, [Next]_vars PROVE AskInv'
  OBVIOUS
<1>1. CASE Refresh \/ Start
  <2>1. asked' = <<>>
    BY <1>1 DEF Refresh, Start
  <2> QED
    BY <2>1 DEF AskInv, OncePerAccount
<1>2. CASE Merged
  <2>1. pc = "me" /\ asked' = asked /\ covered' = covered
    BY <1>2 DEF Merged
  <2> QED
    BY <2>1, AskStands DEF AskInv, Answered
<1>3. CASE Limits
  <2>1. pc = "limits" /\ asked' = asked
    BY <1>3 DEF Limits
  <2>2. Current \in AccountState
    BY <2>1, CurrentState
  <2>3. CASE pc' = "daily" /\ UNCHANGED <<accounts, index, covered>>
    <3>1. Current' = Current
      BY <2>3 DEF Current
    <3> QED
      BY <2>1, <2>3, <3>1, AskStands DEF AskInv, Answered
  <2>4. ASSUME NEW s, Covers([Current EXCEPT !.snapshot = s]) PROVE AskInv'
    <3>1. [Current EXCEPT !.snapshot = s].user = Current.user
      BY <2>2 DEF AccountState
    <3> QED
      BY <2>1, <2>4, <3>1, AskCovers
  <2> QED
    BY <1>3, <2>3, <2>4 DEF Limits
<1>4. CASE Daily
  <2>1. pc = "daily" /\ asked' = asked
    BY <1>4 DEF Daily
  <2>2. Current \in AccountState
    BY <2>1, CurrentState
  <2>3. ASSUME NEW s, Covers([Current EXCEPT !.snapshot = s]) PROVE AskInv'
    <3>1. [Current EXCEPT !.snapshot = s].user = Current.user
      BY <2>2 DEF AccountState
    <3> QED
      BY <2>1, <2>3, <3>1, AskCovers
  <2>4. ASSUME NEW s,
               Covers([Current EXCEPT !.totals = Current.user, !.due = FALSE, !.snapshot = s])
        PROVE  AskInv'
    <3>1. [Current EXCEPT !.totals = Current.user, !.due = FALSE, !.snapshot = s].user =
              Current.user
      BY <2>2 DEF AccountState
    <3> QED
      BY <2>1, <2>4, <3>1, AskCovers
  <2> QED
    BY <1>4, <2>3, <2>4 DEF Daily
<1>5. CASE Hour
  <2>1. /\ accounts' = [i \in DOMAIN accounts |-> [accounts[i] EXCEPT !.due = TRUE]]
        /\ UNCHANGED <<pc, index, covered, asked>>
    BY <1>5 DEF Hour, round
  <2>2. pc \in {"limits", "daily"} => Current'.user = Current.user
    <3> SUFFICES ASSUME pc \in {"limits", "daily"} PROVE Current'.user = Current.user
      OBVIOUS
    <3>1. /\ index \in 1 .. Len(accounts) /\ Current \in AccountState
          /\ DOMAIN accounts = 1 .. Len(accounts)
      BY CurrentState DEF TypeOK
    <3>2. Current' = [Current EXCEPT !.due = TRUE]
      BY <2>1, <3>1 DEF Current
    <3> QED
      BY <3>1, <3>2 DEF AccountState
  <2> QED
    BY <2>1, <2>2, AskStands DEF AskInv, Answered
<1>6. CASE EditSources \/ (\E k \in Keys : Revoke(k) \/ Restore(k)) \/ UNCHANGED vars
  <2>1. UNCHANGED <<accounts, pc, index, covered, asked>>
    BY <1>6 DEF EditSources, Revoke, Restore, vars, round
  <2>2. Current' = Current
    BY <2>1 DEF Current
  <2> QED
    BY <2>1, <2>2, AskStands DEF AskInv, Answered
<1> QED
  BY <1>1, <1>2, <1>3, <1>4, <1>5, <1>6, AskMe DEF Next, Step

\* However many keys of one account are listed, a round asks again about an account it
\* has asked about only for a key of which it did not know whose it is.
THEOREM AskedOnce == Spec => []OncePerAccount
<1>1. Init => AskInv
  BY DEF Init, AskInv, OncePerAccount
<1>2. AskInv => OncePerAccount
  BY DEF AskInv
<1> QED
  BY <1>1, <1>2, AskStep, PollInvariance, PTL DEF Spec

-----------------------------------------------------------------------------
(* PlanPoller: a round ends *)

\* The calls a key in this phase has before it at most, and those this round has.
Phase(p) == IF p = "me" THEN 3 ELSE IF p = "limits" THEN 2 ELSE 1

CallsLeft == IF pc = "wait" THEN 0 ELSE 3 * (Len(accounts) - index) + Phase(pc)

Turn == Merged \/ Me \/ Limits \/ Daily

\* Every turn of a round leaves fewer calls to make, refused and unanswered ones
\* included, and nothing else gives a round more of them (refresh, refreshAccount).
RoundAdvances ==
    [][pc # "wait" => CallsLeft' <= CallsLeft /\ (Turn => CallsLeft' < CallsLeft)]_vars

LEMMA CallsBound == TypeOK => CallsLeft \in 0 .. 3 * MaxKeys
<1> SUFFICES ASSUME TypeOK PROVE CallsLeft \in 0 .. 3 * MaxKeys
  OBVIOUS
<1>1. /\ Len(accounts) \in Nat /\ Len(accounts) <= MaxKeys /\ MaxKeys \in Nat
      /\ index \in 0 .. Len(accounts) /\ (pc = "wait" <=> index = 0)
  BY DEF TypeOK
<1>2. Phase(pc) \in 1 .. 3
  BY DEF Phase
<1> HIDE DEF Phase
<1> QED
  BY <1>1, <1>2 DEF CallsLeft

\* The turn of a key that ends leaves what the keys after it need.
LEMMA FinishLeaves ==
    ASSUME TypeOK, pc # "wait", NEW a, Finish(a)
    PROVE  CallsLeft' \in Nat /\ CallsLeft' <= 3 * (Len(accounts) - index)
<1>1. /\ index \in 1 .. Len(accounts) /\ Len(accounts) \in Nat /\ accounts \in Seq(AccountState)
  BY DEF TypeOK
<1> DEFINE done == [accounts EXCEPT ![index] = a]
<1>2. Len(done) = Len(accounts)
  BY <1>1
<1>3. /\ accounts' = done
      /\ \/ index < Len(accounts) /\ index' = index + 1 /\ pc' = "me"
         \/ ~ (index < Len(accounts)) /\ index' = 0 /\ pc' = "wait"
  BY DEF Finish
<1> HIDE DEF done
<1>4. Len(accounts') = Len(accounts)
  BY <1>2, <1>3
<1>5. CASE index < Len(accounts)
  <2>1. CallsLeft' = 3 * (Len(accounts) - (index + 1)) + 3
    BY <1>3, <1>4, <1>5 DEF CallsLeft, Phase
  <2> QED
    BY <1>1, <1>5, <2>1
<1>6. CASE ~ (index < Len(accounts))
  <2>1. CallsLeft' = 0
    BY <1>3, <1>6 DEF CallsLeft
  <2> QED
    BY <1>1, <2>1
<1> QED
  BY <1>5, <1>6

LEMMA TurnAdvances == TypeOK /\ PollInv /\ Turn => CallsLeft' < CallsLeft
<1> SUFFICES ASSUME TypeOK, PollInv, Turn PROVE CallsLeft' < CallsLeft
  OBVIOUS
<1>1. pc \in {"me", "limits", "daily"} /\ pc # "wait"
  BY DEF Turn, Merged, Me, Limits, Daily
<1>2. /\ index \in 1 .. Len(accounts) /\ Len(accounts) \in Nat /\ accounts \in Seq(AccountState)
  BY <1>1 DEF TypeOK
<1>3. CallsLeft = 3 * (Len(accounts) - index) + Phase(pc) /\ Phase(pc) \in 1 .. 3
  BY <1>1 DEF CallsLeft, Phase
<1>4. ASSUME NEW a, Finish(a) PROVE CallsLeft' < CallsLeft
  <2>1. CallsLeft' \in Nat /\ CallsLeft' <= 3 * (Len(accounts) - index)
    BY <1>1, <1>4, FinishLeaves
  <2> HIDE DEF CallsLeft
  <2> QED
    BY <1>2, <1>3, <2>1
<1>5. ASSUME Len(accounts') = Len(accounts), index' = index, pc' # "wait", Phase(pc') < Phase(pc)
      PROVE  CallsLeft' < CallsLeft
  <2>1. Phase(pc') \in 1 .. 3
    BY DEF Phase
  <2>2. CallsLeft' = 3 * (Len(accounts) - index) + Phase(pc')
    BY <1>5 DEF CallsLeft
  <2> HIDE DEF Phase, CallsLeft
  <2> QED
    BY <1>2, <1>3, <1>5, <2>1, <2>2
<1>6. CASE Merged
  BY <1>4, <1>6 DEF Merged
<1>7. CASE Me
  <2>1. pc = "me" /\ Phase(pc) = 3
    BY <1>7 DEF Me, Phase
  <2>2. \/ /\ accounts' = [accounts EXCEPT ![index].user = Owner[Current.key]]
           /\ pc' = "limits" /\ index' = index
        \/ \E refused \in BOOLEAN :
               Finish([Current EXCEPT !.snapshot = [Begin EXCEPT !.rejected = @ \/ refused]])
        \/ pc' = "limits" /\ index' = index /\ accounts' = accounts
    BY <1>7 DEF Me
  <2>3. pc' = "limits" => Phase(pc') = 2 /\ pc' # "wait"
    BY DEF Phase
  <2>4. CASE accounts' = [accounts EXCEPT ![index].user = Owner[Current.key]]
             /\ pc' = "limits" /\ index' = index
    <3>1. Len(accounts') = Len(accounts)
      BY <1>2, <2>4
    <3> QED
      BY <1>5, <2>1, <2>3, <2>4, <3>1
  <2>5. CASE pc' = "limits" /\ index' = index /\ accounts' = accounts
    BY <1>5, <2>1, <2>3, <2>5
  <2> QED
    BY <1>4, <2>2, <2>4, <2>5
<1>8. CASE Limits
  <2>1. pc = "limits" /\ Phase(pc) = 2
    BY <1>8 DEF Limits, Phase
  <2>2. \/ pc' = "daily" /\ index' = index /\ accounts' = accounts
        \/ Finish([Current EXCEPT !.snapshot = [draft EXCEPT !.available = TRUE]])
        \/ \E refused \in BOOLEAN :
               Finish([Current EXCEPT !.snapshot = [draft EXCEPT !.rejected = @ \/ refused]])
    BY <1>8 DEF Limits
  <2>3. pc' = "daily" => Phase(pc') = 1 /\ pc' # "wait"
    BY DEF Phase
  <2>4. CASE pc' = "daily" /\ index' = index /\ accounts' = accounts
    BY <1>5, <2>1, <2>3, <2>4
  <2> QED
    BY <1>4, <2>2, <2>4
<1>9. CASE Daily
  <2>1. \E a : Finish(a)
    BY <1>9 DEF Daily
  <2> QED
    BY <1>4, <2>1
<1> QED
  BY <1>6, <1>7, <1>8, <1>9 DEF Turn

\* What happens to the keys, the sources and the clock gives a round no more calls.
LEMMA WorldAdds ==
    ASSUME TypeOK, pc # "wait", ~ Turn, [Next]_vars
    PROVE  CallsLeft' <= CallsLeft
<1>1. CallsLeft \in Nat
  BY CallsBound
<1>2. /\ accounts \in Seq(AccountState) /\ Len(accounts) \in Nat
  BY DEF TypeOK
<1>3. ~ Refresh
  BY DEF Refresh
<1>4. CASE Start
  <2>1. CallsLeft' = 0
    BY <1>4 DEF Start, CallsLeft
  <2> QED
    BY <1>1, <2>1
<1>5. ASSUME Len(accounts') = Len(accounts), index' = index, pc' = pc
      PROVE  CallsLeft' <= CallsLeft
  <2>1. CallsLeft' = CallsLeft
    BY <1>5 DEF CallsLeft
  <2> QED
    BY <1>1, <2>1
<1>6. CASE Hour
  <2>1. Len(accounts') = Len(accounts) /\ index' = index /\ pc' = pc
    BY <1>2, <1>6 DEF Hour, round
  <2> QED
    BY <1>5, <2>1
<1>7. CASE EditSources \/ (\E k \in Keys : Revoke(k) \/ Restore(k)) \/ UNCHANGED vars
  <2>1. accounts' = accounts /\ index' = index /\ pc' = pc
    BY <1>7 DEF EditSources, Revoke, Restore, vars, round
  <2> QED
    BY <1>5, <2>1
<1> QED
  BY <1>3, <1>4, <1>6, <1>7 DEF Next, Step, Turn

\* A round of the poller ends: it makes at most three calls for every key, whatever
\* fails, is refused, changes or is edited while it asks.
THEOREM RoundsEnd == Spec => [](CallsLeft \in 0 .. 3 * MaxKeys) /\ RoundAdvances
<1>1. TypeOK /\ PollInv /\ [Next]_vars =>
          [pc # "wait" => CallsLeft' <= CallsLeft /\ (Turn => CallsLeft' < CallsLeft)]_vars
  <2> SUFFICES ASSUME TypeOK, PollInv, [Next]_vars, pc # "wait"
               PROVE  CallsLeft' <= CallsLeft /\ (Turn => CallsLeft' < CallsLeft)
    OBVIOUS
  <2>1. CASE Turn
    <3>1. CallsLeft' < CallsLeft
      BY <2>1, TurnAdvances
    <3>2. CallsLeft \in Nat /\ TypeOK'
      BY CallsBound, PollStep
    <3>3. (CallsLeft \in 0 .. 3 * MaxKeys)'
      BY <3>2, CallsBound, PTL
    <3> QED
      BY <3>1, <3>2, <3>3
  <2>2. CASE ~ Turn
    BY <2>2, WorldAdds
  <2> QED
    BY <2>1, <2>2
<1>2. Spec => [](TypeOK /\ PollInv)
  BY PollInvariance
<1>3. Spec => [](CallsLeft \in 0 .. 3 * MaxKeys)
  BY <1>2, CallsBound, PTL
<1> QED
  BY <1>1, <1>2, <1>3, PTL DEF Spec, RoundAdvances

HIDE PollerAssumption

LEMMA HasLast ==
    ASSUME NEW n \in Nat, NEW S \in SUBSET (1 .. n), S # {}
    PROVE  \E m \in S : \A j \in S : j <= m
<1> DEFINE R == OpToRel(<, Nat)
           T == {n - i : i \in S}
<1>1. IsWellFoundedOn(R, Nat)
  BY NatLessThanWellFounded
<1>2. S \subseteq Int /\ \A i \in S : n - i \in Nat
  OBVIOUS
<1>3. T \subseteq Nat
  BY <1>2
<1>4. T # {}
  <2>1. PICK i \in S : TRUE
    OBVIOUS
  <2>2. n - i \in T
    BY <2>1
  <2> QED
    BY <2>2
<1> HIDE DEF R
<1>5. PICK x \in T : \A y \in T : ~ (<<y, x>> \in R)
  BY <1>1, <1>3, <1>4, WFMin
<1>6. PICK m \in S : x = n - m
  BY <1>5
<1>7. ASSUME NEW j \in S PROVE j <= m
  <2>1. n - j \in T
    OBVIOUS
  <2>2. ~ (n - j < x)
    BY <2>1, <1>5, <1>3 DEF OpToRel, R
  <2> QED
    BY <2>2, <1>6, <1>2
<1> QED
  BY <1>7

\* Ends is that one.
LEMMA NewestIs ==
    ASSUME NEW S \in SUBSET Record
    PROVE  IF S = {} THEN Newest(S) = 0
           ELSE Newest(S) \in S /\ \A q \in S : q <= Newest(S)
<1>1. CASE S = {}
  BY <1>1 DEF Newest
<1>2. CASE S # {}
  <2>1. S \in SUBSET (1 .. NumRecords) /\ NumRecords \in Nat
    BY BudgetsAssumption DEF Record
  <2>2. \E m \in S : \A j \in S : j <= m
    BY <1>2, <2>1, HasLast
  <2>3. \E m \in S : \A j \in S : m >= j
    BY <2>1, <2>2
  <2>4. Max(S) \in S /\ \A j \in S : Max(S) >= j
    BY <2>3 DEF Max
  <2> QED
    BY <1>2, <2>1, <2>4 DEF Newest
<1> QED
  BY <1>1, <1>2

-----------------------------------------------------------------------------
(* OfficialUsage: times *)

\* The time of a record, if T are the twins.
TimeIn(T, r) == r - Cardinality(T \cap (1 .. r))

LEMMA TimeIsTimeIn == \A r : Time(r) = TimeIn(twins, r)
  BY DEF Time, TimeIn

LEMMA UpToFinite ==
    ASSUME NEW T, NEW m \in Nat, NEW n \in Nat
    PROVE  /\ IsFiniteSet(T \cap (m .. n)) /\ Cardinality(T \cap (m .. n)) \in Nat
           /\ Cardinality(T \cap (m .. n)) <= IF m > n THEN 0 ELSE n - m + 1
<1>1. IsFiniteSet(m .. n) /\ Cardinality(m .. n) = IF m > n THEN 0 ELSE n - m + 1
  BY FS_Interval
<1>2. T \cap (m .. n) \in SUBSET (m .. n)
  OBVIOUS
<1> QED
  BY <1>1, <1>2, FS_Subset, FS_CardinalityType

LEMMA TimeStep ==
    ASSUME NEW T, NEW r \in Nat
    PROVE  /\ TimeIn(T, r) \in Int
           /\ TimeIn(T, r + 1) = TimeIn(T, r) + (IF r + 1 \in T THEN 0 ELSE 1)
<1>1. IsFiniteSet(T \cap (1 .. r)) /\ Cardinality(T \cap (1 .. r)) \in Nat
  BY UpToFinite
<1>2. CASE r + 1 \in T
  <2>1. T \cap (1 .. r + 1) = (T \cap (1 .. r)) \cup {r + 1}
    BY <1>2
  <2>2. r + 1 \notin T \cap (1 .. r)
    OBVIOUS
  <2>3. Cardinality(T \cap (1 .. r + 1)) = Cardinality(T \cap (1 .. r)) + 1
    BY <1>1, <2>1, <2>2, FS_AddElement
  <2> QED
    BY <1>1, <1>2, <2>3 DEF TimeIn
<1>3. CASE r + 1 \notin T
  <2>1. T \cap (1 .. r + 1) = T \cap (1 .. r)
    BY <1>3
  <2>2. Cardinality(T \cap (1 .. r + 1)) = Cardinality(T \cap (1 .. r))
    BY <2>1
  <2>3. TimeIn(T, r + 1) = (r + 1) - Cardinality(T \cap (1 .. r))
    BY <2>2 DEF TimeIn
  <2> QED
    BY <1>1, <1>3, <2>3 DEF TimeIn
<1> QED
  BY <1>2, <1>3

\* A record that was published later is not of an earlier time.
LEMMA TimeGrows ==
    ASSUME NEW T, NEW q \in Nat, NEW r \in Nat, q <= r
    PROVE  TimeIn(T, q) <= TimeIn(T, r)
<1> DEFINE A == T \cap (1 .. q)
           B == T \cap ((q + 1) .. r)
<1>1. IsFiniteSet(A) /\ Cardinality(A) \in Nat
  BY UpToFinite
<1>2. /\ IsFiniteSet(B) /\ Cardinality(B) \in Nat
      /\ Cardinality(B) <= IF q + 1 > r THEN 0 ELSE r - (q + 1) + 1
  <2>1. q + 1 \in Nat
    OBVIOUS
  <2> QED
    BY <2>1, UpToFinite
<1>3. T \cap (1 .. r) = A \cup B
  OBVIOUS
<1>4. A \cap B = {}
  OBVIOUS
<1> HIDE DEF A, B
<1>5. Cardinality(A \cup B) = Cardinality(A) + Cardinality(B) - Cardinality(A \cap B)
  BY <1>1, <1>2, FS_Union
<1>6. Cardinality(T \cap (1 .. r)) = Cardinality(A) + Cardinality(B)
  BY <1>1, <1>2, <1>3, <1>4, <1>5, FS_EmptySet
<1>7. TimeIn(T, q) = q - Cardinality(A) /\ TimeIn(T, r) = r - Cardinality(T \cap (1 .. r))
  BY DEF TimeIn, A
<1> QED
  BY <1>1, <1>2, <1>6, <1>7

LEMMA TimePositive ==
    ASSUME NEW T, 1 \notin T, NEW r \in Nat \ {0}
    PROVE  TimeIn(T, 0) = 0 /\ TimeIn(T, r) >= 1
<1>1. T \cap (1 .. 0) = {}
  OBVIOUS
<1>2. TimeIn(T, 0) = 0
  BY <1>1, FS_EmptySet DEF TimeIn
<1>3. TimeIn(T, 0 + 1) = TimeIn(T, 0) + (IF 0 + 1 \in T THEN 0 ELSE 1)
  BY TimeStep
<1>4. TimeIn(T, 1) = 1
  BY <1>2, <1>3
<1>5. TimeIn(T, 1) <= TimeIn(T, r) /\ TimeIn(T, r) \in Int
  BY TimeGrows, TimeStep
<1> QED
  BY <1>2, <1>4, <1>5

-----------------------------------------------------------------------------
(* OfficialUsage: types and pages *)

Walk == [on : BOOLEAN, watermark : 0 .. NumRecords, old : SUBSET Record, older : SUBSET Record,
         budget : Nat, next : 0 .. NumRecords, collected : SUBSET Record, top : 0 .. NumRecords,
         elapsed : 0 .. LongWait]

TypeInv == UsageTypeOK /\ walk \in Walk

LEMMA Bounds ==
    /\ NumRecords \in Nat /\ MaxTwins \in Nat /\ Retention \in Nat \ {0}
    /\ PageSize \in Nat \ {0} /\ PagesSteady \in Nat \ {0} /\ PagesExtend \in Nat \ {0}
    /\ Every \in Nat \ {0} /\ MaxBackoff \in Nat \ {0}
    /\ MaxErrors \in Nat /\ MaxRestarts \in Nat
    /\ LongWait \in Nat /\ OldAge = Retention + 1 /\ Never = LongWait + 1
  BY BudgetsAssumption DEF LongWait, OldAge, Never

\* A page is the records up to its newest one, as many as there are or as it holds.
LEMMA PageIs ==
    ASSUME NEW cursor \in Nat, published \in 0 .. NumRecords
    PROVE  LET c == Least(cursor, published)
               p == Page(cursor)
           IN  /\ c \in 0 .. published /\ c <= cursor
               /\ p \in SUBSET (1 .. c) /\ p \in SUBSET Record
               /\ p = {} => c = 0
               /\ \A r \in 1 .. c : r \notin p => 1 \notin p /\ \A q \in p : r < q
               /\ p # {} /\ 1 \notin p =>
                      /\ c > PageSize /\ p = (c - PageSize + 1) .. c
                      /\ Min(p) = c - PageSize + 1
<1> DEFINE c == Least(cursor, published)
           p == Page(cursor)
<1>1. c \in 0 .. published /\ c <= cursor
  BY DEF Least
<1>2. p = {r \in Record : c - PageSize < r /\ r <= c}
  BY DEF Page
<1>3. NumRecords \in Nat /\ PageSize \in Nat \ {0} /\ Record = 1 .. NumRecords
  BY Bounds DEF Record
<1> HIDE DEF c, p
<1>4. c \in Nat /\ c <= NumRecords
  BY <1>1, <1>3
<1>5. p \in SUBSET (1 .. c) /\ p \in SUBSET Record
  BY <1>2, <1>3, <1>4
<1>6. p = {} => c = 0
  <2>1. c # 0 => c \in p
    BY <1>2, <1>3, <1>4
  <2> QED
    BY <2>1
<1>7. \A r \in 1 .. c : r \notin p => 1 \notin p /\ \A q \in p : r < q
  BY <1>2, <1>3, <1>4
<1>8. ASSUME p # {}, 1 \notin p
      PROVE  /\ c > PageSize /\ p = (c - PageSize + 1) .. c
             /\ Min(p) = c - PageSize + 1
  <2>1. c > PageSize
    BY <1>2, <1>3, <1>4, <1>8
  <2>2. p = (c - PageSize + 1) .. c
    BY <1>2, <1>3, <1>4, <2>1
  <2>3. c - PageSize + 1 \in p /\ \A q \in p : c - PageSize + 1 <= q
    BY <1>3, <1>4, <2>1, <2>2
  <2>4. Min(p) \in p /\ \A q \in p : Min(p) <= q
    BY <2>3 DEF Min
  <2>5. p \subseteq Int
    BY <1>3, <1>4, <2>2
  <2>6. Min(p) <= c - PageSize + 1 /\ c - PageSize + 1 <= Min(p) /\ Min(p) \in Int
    BY <2>3, <2>4, <2>5
  <2> QED
    BY <1>3, <1>4, <2>1, <2>2, <2>6
<1> QED
  BY <1>1, <1>5, <1>6, <1>7, <1>8 DEF c, p

LEMMA BackoffBound ==
    ASSUME NEW n \in 1 .. 5
    PROVE  Backoff(n) \in Nat /\ Backoff(n) <= MaxBackoff
<1>1. n - 1 \in 0 .. 4
  OBVIOUS
<1>2. 2 ^ (n - 1) \in Nat
  BY <1>1, BackoffAssumption
<1> DEFINE power == 2 ^ (n - 1)
<1> HIDE DEF power
<1>3. power \in Nat /\ Every * power \in Nat
  BY <1>2, Bounds DEF power
<1>4. Backoff(n) = Least(Every * power, MaxBackoff)
  BY DEF Backoff, power
<1> QED
  BY <1>3, <1>4, Bounds DEF Least

LEMMA IdleType == Idle \in Walk
  BY Bounds DEF Idle, Walk

LEMMA TypeInit == UsageInit => TypeInv
<1> SUFFICES ASSUME UsageInit PROVE TypeInv
  OBVIOUS
<1>1. walk \in Walk /\ walk = Idle
  BY IdleType DEF UsageInit
<1>2. walk.on = FALSE /\ walk.collected = {}
  BY <1>1 DEF Idle
<1>3. age \in [Record -> 0 .. OldAge] /\ accountAge \in 0 .. OldAge
  BY Bounds, BudgetsAssumption DEF UsageInit
<1>4. twins = {} /\ published = 0 /\ asOf = 0 /\ published \in 0 .. NumRecords
  BY Bounds DEF UsageInit
<1>5. since \in 0 .. Never /\ wait \in 0 .. MaxBackoff /\ failures \in 0 .. 5
  BY Bounds DEF UsageInit
<1>6. errors \in 0 .. MaxErrors /\ restarts \in 0 .. MaxRestarts
  BY Bounds DEF UsageInit
<1>7. items = {} /\ truncated = FALSE /\ cut = FALSE
  BY DEF UsageInit
<1>8. twins \subseteq 2 .. published /\ asOf \in 0 .. published
  BY <1>4
<1> QED
  BY <1>1, <1>2, <1>3, <1>4, <1>5, <1>6, <1>7, <1>8 DEF TypeInv, UsageTypeOK

LEMMA OlderType ==
    ASSUME NEW limit \in Nat, NEW n \in 0 .. limit
    PROVE  Older(n, limit) \in 0 .. limit /\ n <= Older(n, limit)
  BY DEF Older

LEMMA PublishType == TypeInv /\ Publish => TypeInv'
<1> SUFFICES ASSUME TypeInv, Publish PROVE TypeInv'
  OBVIOUS
<1>1. published' = published + 1 /\ published' \in 0 .. NumRecords
  BY Bounds DEF Publish, TypeInv, UsageTypeOK
<1>2. twins' \subseteq 2 .. published'
  <2>1. twins \subseteq 2 .. published'
    BY <1>1 DEF TypeInv, UsageTypeOK
  <2>2. twins' = twins \/ (twins' = twins \cup {published + 1} /\ published > 0)
    BY DEF Publish
  <2>3. published > 0 => published + 1 \in 2 .. published'
    BY <1>1 DEF TypeInv, UsageTypeOK
  <2> QED
    BY <2>1, <2>2, <2>3
<1>3. asOf' \in 0 .. published'
  BY <1>1 DEF Publish, TypeInv, UsageTypeOK
<1> QED
  BY <1>1, <1>2, <1>3 DEF Publish, TypeInv, UsageTypeOK, collector, usageBudgets

LEMMA TickType == TypeInv /\ Tick => TypeInv'
<1> SUFFICES ASSUME TypeInv, Tick PROVE TypeInv'
  OBVIOUS
<1>1. age' \in [Record -> 0 .. OldAge]
  <2>1. \A r \in Record : Older(age[r], OldAge) \in 0 .. OldAge
    BY Bounds, OlderType DEF TypeInv, UsageTypeOK
  <2>2. Aged(age) \in [Record -> 0 .. OldAge]
    BY <2>1 DEF Aged, TypeInv, UsageTypeOK
  <2> QED
    BY <2>2 DEF Tick
<1>2. accountAge' \in 0 .. OldAge
  BY Bounds, OlderType DEF Tick, TypeInv, UsageTypeOK
<1>3. since' \in 0 .. Never
  <2>1. CASE since = Never
    BY <2>1, Bounds DEF Tick, TypeInv, UsageTypeOK
  <2>2. CASE since # Never
    <3>1. since \in 0 .. LongWait
      BY <2>2, Bounds DEF TypeInv, UsageTypeOK
    <3>2. since' = Older(since, LongWait)
      BY <2>2 DEF Tick
    <3> QED
      BY <3>1, <3>2, Bounds, OlderType
  <2> QED
    BY <2>1, <2>2
<1>4. wait' \in 0 .. MaxBackoff
  BY Bounds DEF Tick, TypeInv, UsageTypeOK
<1>5. walk' \in Walk /\ walk'.on = walk.on /\ walk'.collected = walk.collected
  <2>1. walk \in Walk
    BY DEF TypeInv
  <2>2. Older(walk.elapsed, LongWait) \in 0 .. LongWait
    BY <2>1, Bounds, OlderType DEF Walk
  <2>3. walk' = IF walk.on THEN [walk EXCEPT !.elapsed = Older(@, LongWait)] ELSE walk
    BY DEF Tick
  <2> QED
    BY <2>1, <2>2, <2>3 DEF Walk
<1> QED
  BY <1>1, <1>2, <1>3, <1>4, <1>5 DEF Tick, TypeInv, UsageTypeOK, usageBudgets

LEMMA BeginType == TypeInv /\ BeginWalk => TypeInv'
<1> SUFFICES ASSUME TypeInv, BeginWalk PROVE TypeInv'
  OBVIOUS
<1>1. Newest(items) \in 0 .. NumRecords
  <2>1. items \in SUBSET Record
    BY DEF TypeInv, UsageTypeOK
  <2>2. Newest(items) = 0 \/ Newest(items) \in Record
    BY <2>1, NewestIs
  <2> QED
    BY <2>2, Bounds DEF Record
<1>2. (IF Covered THEN PagesSteady ELSE PagesExtend) \in Nat
  BY Bounds
<1>3. /\ walk' \in Walk /\ walk'.on = TRUE /\ walk'.collected = {}
  <2> DEFINE old == {r \in Record : r <= published /\ age[r] >= Retention}
             older == {r \in Record : r <= published /\ age[r] > Retention}
             budget == IF Covered THEN PagesSteady ELSE PagesExtend
  <2>1. old \in SUBSET Record /\ older \in SUBSET Record /\ budget \in Nat
    BY <1>2
  <2>2. walk' = [Idle EXCEPT !.on = TRUE, !.watermark = Newest(items), !.old = old,
                  !.older = older, !.budget = budget, !.next = NumRecords, !.top = published]
    BY DEF BeginWalk
  <2> HIDE DEF old, older, budget
  <2>3. walk' = [on |-> TRUE, watermark |-> Newest(items), old |-> old, older |-> older,
                 budget |-> budget, next |-> NumRecords, collected |-> {},
                 top |-> published, elapsed |-> 0]
    BY <2>2 DEF Idle
  <2>4. published \in 0 .. NumRecords /\ NumRecords \in 0 .. NumRecords /\ 0 \in 0 .. LongWait
    BY Bounds DEF TypeInv, UsageTypeOK
  <2> QED
    BY <1>1, <2>1, <2>3, <2>4 DEF Walk
<1> QED
  BY <1>3 DEF BeginWalk, TypeInv, UsageTypeOK, cline, collector, usageBudgets

LEMMA MergeType ==
    ASSUME TypeInv, NEW A \in SUBSET Record, NEW full \in BOOLEAN, Merge(A, full),
           walk.top <= published
    PROVE  /\ items' \subseteq Record /\ since' \in 0 .. Never /\ since' # Never
           /\ truncated' \in BOOLEAN /\ asOf' \in 0 .. published /\ cut' \in BOOLEAN
           /\ walk' = Idle
<1>1. walk \in Walk
  BY DEF TypeInv
<1>2. since' \in 0 .. LongWait
  BY <1>1 DEF Merge, Walk
<1>3. asOf' \in 0 .. published
  BY <1>1 DEF Merge, Walk, TypeInv, UsageTypeOK
<1> QED
  BY <1>2, <1>3, Bounds DEF Merge, TypeInv, UsageTypeOK

-----------------------------------------------------------------------------
(* OfficialUsage: Cline's records *)

\* A later record is not older, records of one time are of one age, and what is not
\* published has none.
ClineInv ==
    /\ \A q, r \in 1 .. published : q < r => age[r] <= age[q]
    /\ \A q, r \in 1 .. published : Time(q) = Time(r) => age[q] = age[r]
    /\ \A r \in Record : r > published => age[r] = 0

LEMMA TimeOrder ==
    ASSUME TypeInv
    PROVE  /\ \A r \in Nat : Time(r) \in Int
           /\ \A q, r \in Nat : q <= r => Time(q) <= Time(r)
           /\ Time(0) = 0 /\ \A r \in Nat \ {0} : Time(r) >= 1
<1>1. 1 \notin twins
  BY DEF TypeInv, UsageTypeOK
<1> QED
  BY <1>1, TimeStep, TimeGrows, TimePositive, TimeIsTimeIn

LEMMA PublishTimes ==
    ASSUME TypeInv, Publish
    PROVE  /\ \A r \in 0 .. published : TimeIn(twins', r) = TimeIn(twins, r)
           /\ \A r \in 0 .. published : (Time(r))' = Time(r)
<1>1. published \in Nat /\ (twins' = twins \/ twins' = twins \cup {published + 1})
  BY DEF Publish, TypeInv, UsageTypeOK
<1>2. ASSUME NEW r \in 0 .. published PROVE TimeIn(twins', r) = TimeIn(twins, r)
  <2>1. twins' \cap (1 .. r) = twins \cap (1 .. r)
    <3>1. published + 1 \notin 1 .. r
      BY <1>1
    <3> QED
      BY <1>1, <3>1
  <2> QED
    BY <2>1 DEF TimeIn
<1>3. \A r : (Time(r))' = TimeIn(twins', r)
  BY DEF Time, TimeIn
<1> QED
  BY <1>2, <1>3, TimeIsTimeIn

LEMMA ClineLater ==
    ASSUME TypeInv, Publish \/ Tick \/ UNCHANGED cline
    PROVE  /\ published <= published' /\ published' \in Nat /\ published \in Nat
           /\ \A r \in 1 .. published : /\ age[r] \in Nat /\ age'[r] \in Nat
                                        /\ age[r] <= age'[r]
           /\ \A r \in 0 .. published : (Time(r))' = Time(r)
<1>1. published \in Nat /\ 1 .. published \subseteq Record /\ OldAge \in Nat
  BY Bounds DEF TypeInv, UsageTypeOK, Record
<1>2. \A r \in 1 .. published : r \in Record /\ age[r] \in 0 .. OldAge
  BY <1>1 DEF TypeInv, UsageTypeOK
<1>3. CASE Publish
  <2>1. age' = age /\ published' = published + 1
    BY <1>3 DEF Publish
  <2> QED
    BY <1>1, <1>2, <1>3, <2>1, PublishTimes
<1>4. CASE Tick
  <2>1. published' = published /\ twins' = twins /\ age' = Aged(age)
    BY <1>4 DEF Tick
  <2>2. \A r : (Time(r))' = Time(r)
    BY <2>1 DEF Time
  <2>3. \A r \in 1 .. published : age'[r] = Older(age[r], OldAge)
    BY <1>1, <1>2, <2>1 DEF Aged
  <2> QED
    BY <1>1, <1>2, <2>1, <2>2, <2>3, OlderType
<1>5. CASE UNCHANGED cline
  <2>1. published' = published /\ twins' = twins /\ age' = age
    BY <1>5 DEF cline
  <2>2. \A r : (Time(r))' = Time(r)
    BY <2>1 DEF Time
  <2> QED
    BY <1>1, <1>2, <2>1, <2>2
<1> QED
  BY <1>3, <1>4, <1>5

LEMMA ClineInit == UsageInit => ClineInv
  BY DEF UsageInit, ClineInv

LEMMA PublishCline == TypeInv /\ ClineInv /\ Publish => ClineInv'
<1> SUFFICES ASSUME TypeInv, ClineInv, Publish PROVE ClineInv'
  OBVIOUS
<1> DEFINE p == published
<1>1. /\ p \in Nat /\ published' = p + 1 /\ p + 1 \in Record /\ age' = age
      /\ age \in [Record -> 0 .. OldAge] /\ OldAge \in Nat
      /\ 1 .. p \subseteq Record
  BY Bounds DEF Publish, TypeInv, UsageTypeOK, Record
<1>2. age[p + 1] = 0
  BY <1>1 DEF ClineInv
<1>3. \A r \in 1 .. p + 1 : age[r] \in Nat /\ r \in Record
  BY <1>1
<1>4. \A q, r \in 1 .. published' : q < r => age'[r] <= age'[q]
  <2> SUFFICES ASSUME NEW q \in 1 .. p + 1, NEW r \in 1 .. p + 1, q < r
               PROVE  age[r] <= age[q]
    BY <1>1
  <2>1. CASE r = p + 1
    BY <1>2, <1>3, <2>1
  <2>2. CASE r # p + 1
    BY <1>1, <2>2 DEF ClineInv
  <2> QED
    BY <2>1, <2>2
<1>5. ASSUME NEW q \in 1 .. p, TimeIn(twins', q) = TimeIn(twins', p + 1)
      PROVE  age[q] = 0
  <2>2. /\ TimeIn(twins', q) <= TimeIn(twins', p)
        /\ TimeIn(twins', p) \in Int /\ TimeIn(twins', q) \in Int
        /\ TimeIn(twins', p + 1) = TimeIn(twins', p) + (IF p + 1 \in twins' THEN 0 ELSE 1)
    BY <1>1, TimeGrows, TimeStep
  <2>3. p + 1 \in twins' /\ TimeIn(twins', q) = TimeIn(twins', p)
    BY <1>5, <2>2
  <2>4. p + 1 \notin twins
    BY <1>1 DEF TypeInv, UsageTypeOK
  <2>5. p > 0 /\ age[p] = 0
    BY <2>3, <2>4 DEF Publish
  <2>6. Time(q) = Time(p)
    BY <1>1, <2>3, PublishTimes, TimeIsTimeIn
  <2> QED
    BY <1>1, <2>5, <2>6 DEF ClineInv
<1>6. ASSUME NEW q \in 1 .. p + 1, NEW r \in 1 .. p + 1, TimeIn(twins', q) = TimeIn(twins', r)
      PROVE  age[q] = age[r]
  <2>1. CASE q \in 1 .. p /\ r \in 1 .. p
    <3>1. q \in 0 .. p /\ r \in 0 .. p
      BY <1>1, <2>1
    <3>2. Time(q) = Time(r)
      BY <1>6, <3>1, PublishTimes, TimeIsTimeIn
    <3> QED
      BY <2>1, <3>2 DEF ClineInv
  <2>2. CASE q = p + 1 /\ r \in 1 .. p
    BY <1>1, <1>2, <1>5, <1>6, <2>2
  <2>3. CASE r = p + 1 /\ q \in 1 .. p
    BY <1>1, <1>2, <1>5, <1>6, <2>3
  <2>4. CASE r = q
    BY <2>4
  <2> QED
    BY <1>1, <2>1, <2>2, <2>3, <2>4
<1>7. \A r \in Record : r > published' => age'[r] = 0
  BY <1>1, Bounds DEF ClineInv, Record
<1>8. \A r : (Time(r))' = TimeIn(twins', r)
  BY DEF Time, TimeIn
<1>9. \A q, r \in 1 .. published' : (Time(q))' = (Time(r))' => age'[q] = age'[r]
  BY <1>1, <1>6, <1>8
<1> QED
  BY <1>4, <1>7, <1>9 DEF ClineInv

LEMMA TickCline == TypeInv /\ ClineInv /\ Tick => ClineInv'
<1> SUFFICES ASSUME TypeInv, ClineInv, Tick PROVE ClineInv'
  OBVIOUS
<1>1. /\ published \in Nat /\ 1 .. published \subseteq Record /\ OldAge \in Nat
      /\ published' = published /\ twins' = twins /\ age' = Aged(age)
  <2>1. published \in 0 .. NumRecords
    BY DEF TypeInv, UsageTypeOK
  <2> QED
    BY <2>1, Bounds DEF Tick, Record
<1>2. \A r \in 1 .. published : /\ age[r] \in 0 .. OldAge
                                /\ age'[r] = Older(age[r], OldAge)
  BY <1>1 DEF Aged, TypeInv, UsageTypeOK
<1>3. \A r : (Time(r))' = Time(r)
  BY <1>1 DEF Time
<1>4. \A q, r \in 1 .. published : q < r => age'[r] <= age'[q]
  BY <1>1, <1>2 DEF ClineInv, Older
<1>5. \A q, r \in 1 .. published : Time(q) = Time(r) => age'[q] = age'[r]
  BY <1>1, <1>2 DEF ClineInv
<1>6. \A r \in Record : r > published => age'[r] = 0
  BY <1>1, Bounds DEF ClineInv, Aged, Record, TypeInv, UsageTypeOK
<1> QED
  BY <1>1, <1>3, <1>4, <1>5, <1>6 DEF ClineInv

-----------------------------------------------------------------------------
(* OfficialUsage: what is known, and what a walk has passed *)

\* The records S have r, or need not.
KnownTo(r, S) ==
    \/ r \in S
    \/ age[r] >= Retention
    \/ \E q \in S : q < r /\ Time(q) = Time(r)

Reached(r) == r <= asOf \/ \E q \in items : r <= q

ItemsInv ==
    /\ since = Never => items = {} /\ asOf = 0
    /\ items \in SUBSET (1 .. published)
    /\ ~ cut => \A r \in 1 .. published : Reached(r) => KnownTo(r, items)

\* Where a walk stops.
Stale(r) == r \in walk.old \/ Time(r) <= Time(walk.watermark)

WalkInv ==
    /\ ~ walk.on => walk = Idle
    /\ walk.on =>
        /\ walk.top <= published /\ walk.budget > 0
        /\ items = {} => walk.watermark = 0
        /\ items # {} => walk.watermark \in items /\ \A q \in items : q <= walk.watermark
        /\ \A r \in walk.old : r <= published /\ age[r] >= Retention /\ 1 .. r \subseteq walk.old
        /\ \A r \in walk.older : r \in walk.old /\ 1 .. r \subseteq walk.older
        /\ walk.collected = {} => walk.next = NumRecords
        /\ walk.collected # {} =>
              \E hi \in walk.top .. published :
                 /\ walk.next > 0 /\ walk.next < hi
                 /\ walk.collected = (walk.next + 1) .. hi
                 /\ \A r \in walk.collected : ~ Stale(r)

LEMMA KnownLater ==
    ASSUME TypeInv, Publish \/ Tick \/ UNCHANGED cline,
           NEW S \in SUBSET (1 .. published), NEW r \in 1 .. published, KnownTo(r, S)
    PROVE  (KnownTo(r, S))'
<1>1. CASE r \in S
  BY <1>1 DEF KnownTo
<1>2. CASE age[r] >= Retention
  BY <1>2, ClineLater, Bounds DEF KnownTo
<1>3. CASE \E q \in S : q < r /\ Time(q) = Time(r)
  <2>1. PICK q \in S : q < r /\ Time(q) = Time(r)
    BY <1>3
  <2>2. q \in 0 .. published /\ r \in 0 .. published
    BY ClineLater
  <2>3. (Time(q))' = (Time(r))'
    BY <2>1, <2>2, ClineLater
  <2> QED
    BY <2>1, <2>3 DEF KnownTo
<1> QED
  BY <1>1, <1>2, <1>3 DEF KnownTo

LEMMA WatermarkType ==
    ASSUME TypeInv, ItemsInv, WalkInv, walk.on
    PROVE  walk.watermark \in 0 .. published /\ walk.watermark \in Nat /\ published \in Nat
<1>1. published \in Nat
  BY DEF TypeInv, UsageTypeOK
<1>2. walk.watermark = 0 \/ walk.watermark \in 1 .. published
  BY DEF ItemsInv, WalkInv
<1> QED
  BY <1>1, <1>2

\* What is older than a record a walk stops at, the walk stops at too.
LEMMA StaleDown ==
    ASSUME TypeInv, ItemsInv, WalkInv, walk.on,
           NEW r \in 1 .. published, NEW q \in 1 .. r, Stale(r)
    PROVE  Stale(q)
<1>1. CASE r \in walk.old
  BY <1>1 DEF WalkInv, Stale
<1>2. CASE Time(r) <= Time(walk.watermark)
  <2>1. /\ Time(q) <= Time(r) /\ Time(q) \in Int /\ Time(r) \in Int
        /\ Time(walk.watermark) \in Int
    BY TimeOrder, WatermarkType
  <2> QED
    BY <1>2, <2>1 DEF Stale
<1> QED
  BY <1>1, <1>2 DEF Stale

\* Where a walk stands: it has brought all from its cursor up to the newest record there
\* was when it read its first page.
LEMMA WalkStands ==
    ASSUME TypeInv, ItemsInv, WalkInv, walk.on
    PROVE  \E hi \in walk.top .. published :
              /\ Least(walk.next, published) \in 0 .. hi
              /\ walk.collected = (Least(walk.next, published) + 1) .. hi
              /\ \A r \in walk.collected : ~ Stale(r)
              /\ walk.collected = {} => hi = published /\ Least(walk.next, published) = published
              /\ walk.collected # {} => Least(walk.next, published) = walk.next
<1>0. /\ published \in 0 .. NumRecords /\ NumRecords \in Nat
      /\ walk.top \in Nat /\ walk.next \in 0 .. NumRecords /\ walk.top <= published
  BY Bounds DEF TypeInv, UsageTypeOK, Walk, WalkInv
<1>1. CASE walk.collected = {}
  <2>1. walk.next = NumRecords
    BY <1>1 DEF WalkInv
  <2>2. Least(walk.next, published) = published
    BY <1>0, <2>1 DEF Least
  <2>3. published \in walk.top .. published /\ (published + 1) .. published = {}
    BY <1>0
  <2> QED
    BY <1>0, <1>1, <2>2, <2>3
<1>2. CASE walk.collected # {}
  <2>1. PICK hi \in walk.top .. published :
                 /\ walk.next > 0 /\ walk.next < hi
                 /\ walk.collected = (walk.next + 1) .. hi
                 /\ \A r \in walk.collected : ~ Stale(r)
    BY <1>2 DEF WalkInv
  <2>2. Least(walk.next, published) = walk.next
    BY <1>0, <2>1 DEF Least
  <2> QED
    BY <1>0, <1>2, <2>1, <2>2
<1> QED
  BY <1>1, <1>2

\* What NextPage computes.
FreshOf(page) == {r \in page : r \notin walk.old /\ Time(r) > Time(walk.watermark)}
Ends(page) == FreshOf(page) # page \/ page = {} \/ 1 \in page

LEMMA FreshIs ==
    ASSUME TypeInv, ItemsInv, WalkInv, walk.on, NEW r \in Nat, NEW p
    PROVE  r \in FreshOf(p) <=> r \in p /\ ~ Stale(r)
<1>1. Time(r) \in Int /\ Time(walk.watermark) \in Int
  BY TimeOrder, WatermarkType
<1> QED
  BY <1>1 DEF FreshOf, Stale

LEMMA PageEnds ==
    ASSUME TypeInv, ItemsInv, WalkInv, walk.on
    PROVE  LET c == Least(walk.next, published)
               page == Page(walk.next)
               all == walk.collected \cup FreshOf(page)
           IN  /\ all \in SUBSET Record
               /\ \E hi \in walk.top .. published :
                    /\ all \in SUBSET (1 .. hi)
                    /\ walk.collected = {} => hi = published
                    /\ walk.collected # {} => hi \in walk.collected
                    /\ all # {} => hi \in all
                    /\ \A r \in all : ~ Stale(r)
                    /\ Ends(page) => \A r \in 1 .. hi : r \in all \/ Stale(r)
                    /\ ~ Ends(page) => /\ c \in Nat /\ c > PageSize /\ c <= hi /\ c <= walk.next
                                       /\ all = (c - PageSize + 1) .. hi
                                       /\ Min(page) = c - PageSize + 1
<1> DEFINE c == Least(walk.next, published)
           page == Page(walk.next)
           fresh == FreshOf(page)
           all == walk.collected \cup fresh
<1>1. PICK hi \in walk.top .. published :
              /\ c \in 0 .. hi
              /\ walk.collected = (c + 1) .. hi
              /\ \A r \in walk.collected : ~ Stale(r)
              /\ walk.collected = {} => hi = published /\ c = published
              /\ walk.collected # {} => c = walk.next
  BY WalkStands
<1>2. /\ c <= walk.next
      /\ page \in SUBSET (1 .. c) /\ page \in SUBSET Record
      /\ page = {} => c = 0
      /\ \A r \in 1 .. c : r \notin page => 1 \notin page /\ \A q \in page : r < q
      /\ page # {} /\ 1 \notin page =>
             /\ c > PageSize /\ page = (c - PageSize + 1) .. c
             /\ Min(page) = c - PageSize + 1
  <2>1. walk.next \in Nat /\ published \in 0 .. NumRecords
    BY Bounds DEF TypeInv, UsageTypeOK, Walk
  <2> QED
    BY <2>1, PageIs
<1>3. fresh \in SUBSET page /\ \A r \in page : r \in fresh <=> ~ Stale(r)
  <2>1. \A r \in page : r \in Nat
    BY <1>1, <1>2
  <2> QED
    BY <2>1, FreshIs DEF FreshOf
<1>4. Ends(page) <=> (fresh # page \/ page = {} \/ 1 \in page)
  BY DEF Ends
<1>5. /\ c \in Nat /\ hi \in Nat /\ c <= hi /\ hi <= published /\ published \in Nat
      /\ PageSize \in Nat \ {0} /\ walk.top \in Nat
  BY <1>1, Bounds DEF TypeInv, UsageTypeOK, Walk
<1>6. walk.collected \in SUBSET Record
  BY DEF TypeInv, UsageTypeOK
<1> HIDE DEF c, page, fresh
<1>7. all \in SUBSET Record
  BY <1>2, <1>3, <1>6
<1>8. all \in SUBSET (1 .. hi)
  BY <1>1, <1>2, <1>3, <1>5
<1>9. walk.collected # {} => hi \in walk.collected
  BY <1>1, <1>5
<1>10. all # {} => hi \in all
  <2>1. CASE walk.collected # {}
    BY <1>9, <2>1
  <2>2. CASE walk.collected = {} /\ fresh # {}
    <3>1. PICK r \in fresh : TRUE
      BY <2>2
    <3>2. r \in page /\ r \in 1 .. c /\ ~ Stale(r) /\ c = hi /\ hi = published
      BY <1>1, <1>2, <1>3, <2>2
    <3>3. c \in 1 .. published /\ r \in 1 .. c
      BY <1>5, <3>2
    <3>4. ~ Stale(c)
      BY <3>2, <3>3, StaleDown
    <3>5. c \in page
      BY <1>2, <3>2, <3>3, <1>5
    <3> QED
      BY <1>3, <3>2, <3>4, <3>5
  <2> QED
    BY <2>1, <2>2
<1>11. \A r \in all : ~ Stale(r)
  BY <1>1, <1>3
<1>12. ASSUME Ends(page), NEW r \in 1 .. hi PROVE r \in all \/ Stale(r)
  <2>1. CASE r > c
    BY <1>1, <1>5, <2>1
  <2>2. CASE r \in page
    BY <1>3, <2>2
  <2>3. CASE r <= c /\ r \notin page
    <3>1. r \in 1 .. c
      BY <1>5, <2>3
    <3>2. page # {} /\ 1 \notin page /\ \A q \in page : r < q
      BY <1>2, <2>3, <3>1
    <3>3. PICK q \in page : q \notin fresh
      BY <1>3, <1>4, <1>12, <3>2
    <3>4. Stale(q) /\ q \in 1 .. published /\ r \in 1 .. q
      BY <1>2, <1>3, <1>5, <3>1, <3>2, <3>3
    <3> QED
      BY <3>4, StaleDown
  <2> QED
    BY <1>5, <2>1, <2>2, <2>3
<1>13. ASSUME ~ Ends(page)
       PROVE  /\ c > PageSize /\ all = (c - PageSize + 1) .. hi
              /\ Min(page) = c - PageSize + 1
  <2>1. fresh = page /\ page # {} /\ 1 \notin page
    BY <1>4, <1>13
  <2>2. /\ c > PageSize /\ page = (c - PageSize + 1) .. c
        /\ Min(page) = c - PageSize + 1
    BY <1>2, <2>1
  <2>3. all = (c - PageSize + 1) .. hi
    BY <1>1, <1>5, <2>1, <2>2
  <2> QED
    BY <2>2, <2>3
<1> QED
  <2>1. /\ all \in SUBSET (1 .. hi)
        /\ walk.collected = {} => hi = published
        /\ walk.collected # {} => hi \in walk.collected
        /\ all # {} => hi \in all
        /\ \A r \in all : ~ Stale(r)
        /\ Ends(page) => \A r \in 1 .. hi : r \in all \/ Stale(r)
        /\ ~ Ends(page) => /\ c \in Nat /\ c > PageSize /\ c <= hi /\ c <= walk.next
                           /\ all = (c - PageSize + 1) .. hi
                           /\ Min(page) = c - PageSize + 1
    BY <1>1, <1>2, <1>5, <1>8, <1>9, <1>10, <1>11, <1>12, <1>13
  <2> HIDE DEF all
  <2>2. all \in SUBSET Record
    BY <1>7 DEF all
  <2> QED
    BY <2>1, <2>2 DEF all, c, page, fresh

-----------------------------------------------------------------------------
(* OfficialUsage: the end of a walk *)

LEMMA StaleKnown ==
    ASSUME TypeInv, ItemsInv, WalkInv, walk.on, NEW r \in 1 .. published, Stale(r),
           \A q \in items : r <= q => KnownTo(r, items)
    PROVE  KnownTo(r, items)
<1>1. CASE r \in walk.old
  BY <1>1 DEF WalkInv, KnownTo
<1>2. CASE Time(r) <= Time(walk.watermark)
  <2>1. /\ Time(r) \in Int /\ Time(r) >= 1 /\ Time(0) = 0
        /\ Time(walk.watermark) \in Int /\ walk.watermark \in 0 .. published
        /\ (walk.watermark <= r => Time(walk.watermark) <= Time(r))
    BY TimeOrder, WatermarkType
  <2>2. walk.watermark # 0
    BY <1>2, <2>1
  <2>3. walk.watermark \in items
    BY <2>2 DEF WalkInv
  <2>4. CASE r <= walk.watermark
    BY <2>3, <2>4
  <2>5. CASE walk.watermark < r
    <3>1. Time(walk.watermark) = Time(r)
      BY <1>2, <2>1, <2>5
    <3> QED
      BY <2>3, <2>5, <3>1 DEF KnownTo
  <2> QED
    BY <2>1, <2>4, <2>5
<1> QED
  BY <1>1, <1>2 DEF Stale

\* The records a merge drops were needed by nobody.
LEMMA KeptKnown ==
    ASSUME TypeInv, ClineInv, WalkInv, walk.on,
           NEW S \in SUBSET (1 .. published), NEW r \in 1 .. published, KnownTo(r, S)
    PROVE  KnownTo(r, S \ walk.older)
<1>1. \A q \in walk.older : age[q] >= Retention
  BY DEF WalkInv
<1>2. CASE r \in S
  BY <1>1, <1>2 DEF KnownTo
<1>3. CASE age[r] >= Retention
  BY <1>3 DEF KnownTo
<1>4. CASE \E q \in S : q < r /\ Time(q) = Time(r)
  <2>1. PICK q \in S : q < r /\ Time(q) = Time(r)
    BY <1>4
  <2>2. age[q] = age[r]
    BY <2>1 DEF ClineInv
  <2>3. q \in walk.older => age[r] >= Retention
    BY <1>1, <2>2
  <2> QED
    BY <2>1, <2>3 DEF KnownTo
<1> QED
  BY <1>2, <1>3, <1>4 DEF KnownTo

LEMMA MoreKnown ==
    ASSUME NEW S, NEW T, S \subseteq T, NEW r, KnownTo(r, S)
    PROVE  KnownTo(r, T)
  BY DEF KnownTo

\* After a walk that got to where it meant to, all is known that there was.
LEMMA MergeKnows ==
    ASSUME TypeInv, ClineInv, ItemsInv, WalkInv, walk.on, ~ cut,
           NEW hi \in walk.top .. published, NEW A \in SUBSET (1 .. hi),
           \A r \in 1 .. hi : r \in A \/ Stale(r),
           NEW r \in 1 .. published,
           r <= walk.top \/ \E q \in (items \cup A) \ walk.older : r <= q
    PROVE  KnownTo(r, (items \cup A) \ walk.older)
<1>0. /\ published \in Nat /\ walk.top \in Nat /\ items \in SUBSET (1 .. published)
      /\ items \cup A \in SUBSET (1 .. published)
  BY DEF TypeInv, UsageTypeOK, Walk, ItemsInv
<1>1. \A q \in items : r <= q => KnownTo(r, items)
  BY DEF ItemsInv, Reached
<1>2. KnownTo(r, items \cup A)
  <2>1. CASE r \in A
    BY <2>1 DEF KnownTo
  <2>2. CASE \E q \in items : r <= q
    BY <1>1, <2>2, MoreKnown
  <2>3. CASE r <= hi /\ r \notin A
    <3>1. Stale(r)
      BY <1>0, <2>3
    <3>2. KnownTo(r, items)
      BY <1>1, <3>1, StaleKnown
    <3> QED
      BY <3>2, MoreKnown
  <2>4. r <= hi \/ \E q \in items : r <= q
    BY <1>0
  <2> QED
    BY <2>1, <2>2, <2>3, <2>4
<1> QED
  BY <1>0, <1>2, KeptKnown

\* What Calm, and no page that fails, add: behind the oldest record kept nothing is
\* missing, because every walk gets back to where the last one began.
NoHole == \A r \in 1 .. published : \A q \in items : q < r /\ Reached(r) => KnownTo(r, items)

NearEnd == \A m \in items \cup walk.collected :
               (\A q \in items \cup walk.collected : q <= m)
                   => published - m <= PageSize * PagesSteady

GetsBack ==
    walk.on /\ items # {} =>
        /\ walk.collected = {} => walk.budget >= PagesSteady
        /\ walk.collected # {} => walk.next - PageSize * walk.budget <= walk.watermark

CalmInv == (errors = 0 => NoHole) /\ NearEnd /\ GetsBack

LEMMA MergeNoHole ==
    ASSUME TypeInv, ClineInv, ItemsInv, WalkInv, walk.on, NoHole,
           NEW hi \in walk.top .. published, NEW A \in SUBSET (1 .. hi),
           \A q \in A : ~ Stale(q),
           \A r \in 1 .. hi : \/ r \in A \/ Stale(r)
                              \/ /\ items # {} => r <= walk.watermark
                                 /\ \A q \in A : r < q,
           NEW r \in 1 .. published, NEW q \in (items \cup A) \ walk.older, q < r,
           r <= walk.top \/ \E p \in (items \cup A) \ walk.older : r <= p
    PROVE  KnownTo(r, (items \cup A) \ walk.older)
<1>0. /\ published \in Nat /\ walk.top \in Nat /\ items \in SUBSET (1 .. published)
      /\ items \cup A \in SUBSET (1 .. published) /\ walk.watermark \in 0 .. published
  BY WatermarkType DEF TypeInv, UsageTypeOK, Walk, ItemsInv
<1>1. KnownTo(r, items \cup A)
  <2>1. CASE r \in A
    BY <2>1 DEF KnownTo
  <2>2. CASE \E p \in items : r <= p
    <3>1. PICK p \in items : r <= p
      BY <2>2
    <3>2. p <= walk.watermark
      BY <3>1 DEF WalkInv
    <3>3. q \notin A
      <4>1. SUFFICES ASSUME q \in A PROVE FALSE
        OBVIOUS
      <4>2. q \in 1 .. published /\ q <= walk.watermark
        BY <1>0, <3>1, <3>2
      <4>3. Time(q) <= Time(walk.watermark)
        BY <1>0, <4>2, TimeOrder
      <4> QED
        BY <4>1, <4>3 DEF Stale
    <3>4. KnownTo(r, items)
      BY <3>1, <3>3 DEF NoHole, Reached
    <3> QED
      BY <3>4, MoreKnown
  <2>3. CASE r <= hi /\ r \notin A /\ ~ \E p \in items : r <= p
    <3>1. CASE Stale(r)
      <4>1. KnownTo(r, items)
        BY <2>3, <3>1, StaleKnown
      <4> QED
        BY <4>1, MoreKnown
    <3>2. CASE ~ Stale(r)
      <4>1. r \in 1 .. hi
        BY <1>0, <2>3
      <4>2. (items # {} => r <= walk.watermark) /\ \A a \in A : r < a
        BY <2>3, <3>2, <4>1
      <4>3. q \in items
        BY <1>0, <4>2
      <4>4. walk.watermark \in items /\ r <= walk.watermark
        BY <4>2, <4>3 DEF WalkInv
      <4> QED
        BY <2>3, <4>4
    <3> QED
      BY <3>1, <3>2
  <2>4. r <= hi \/ \E p \in items : r <= p
    BY <1>0
  <2> QED
    BY <2>1, <2>2, <2>3, <2>4
<1> QED
  BY <1>0, <1>1, KeptKnown

\* The newest record the collector has, with those A the walk has brought, is near the end.
LEMMA NearWith ==
    ASSUME TypeInv, ItemsInv, NearEnd,
           NEW hi \in 0 .. published, NEW A \in SUBSET (1 .. hi), walk.collected \subseteq A,
           walk.collected = {} => hi = published,
           walk.collected # {} => hi \in walk.collected,
           A # {} => hi \in A,
           NEW m \in items \cup A, \A q \in items \cup A : q <= m
    PROVE  published - m <= PageSize * PagesSteady
<1>1. published \in Nat /\ PageSize * PagesSteady \in Nat
  BY Bounds DEF TypeInv, UsageTypeOK
<1>2. m \in Nat
  BY <1>1 DEF ItemsInv
<1>3. CASE m \in items \cup walk.collected
  <2>1. \A q \in items \cup walk.collected : q <= m
    OBVIOUS
  <2> QED
    BY <1>3, <2>1 DEF NearEnd
<1>4. CASE m \notin items \cup walk.collected
  <2>1. m \in A /\ hi \in A
    BY <1>4
  <2>2. m = hi
    BY <1>1, <2>1
  <2>3. hi = published
    BY <1>4, <2>2
  <2> QED
    BY <1>1, <2>2, <2>3
<1> QED
  BY <1>3, <1>4

\* Dropping what is too old leaves the newest, or nothing.
LEMMA DropsOldest ==
    ASSUME WalkInv, walk.on, NEW S \in SUBSET Nat, NEW m \in S \ walk.older,
           \A q \in S \ walk.older : q <= m, 0 \notin S
    PROVE  \A q \in S : q <= m
<1> SUFFICES ASSUME NEW q \in S, ~ (q <= m) PROVE FALSE
  OBVIOUS
<1>1. q \in walk.older
  OBVIOUS
<1>2. m \in 1 .. q
  OBVIOUS
<1> QED
  BY <1>1, <1>2 DEF WalkInv

\* A walk's pages, as many as it has left, reach what was known when it began.
LEMMA PagesReach ==
    ASSUME TypeInv, ItemsInv, WalkInv, NearEnd, GetsBack, walk.on, items # {}
    PROVE  Least(walk.next, published) - PageSize * walk.budget <= walk.watermark
<1>1. /\ published \in Nat /\ PageSize \in Nat /\ PagesSteady \in Nat /\ walk.budget \in Nat
      /\ walk.watermark \in Nat /\ walk.watermark \in items
      /\ \A q \in items : q <= walk.watermark
  BY Bounds, WatermarkType DEF TypeInv, UsageTypeOK, Walk, WalkInv
<1>2. CASE walk.collected = {}
  <2>1. Least(walk.next, published) = published
    BY <1>2, WalkStands
  <2>2. published - walk.watermark <= PageSize * PagesSteady
    BY <1>1, <1>2 DEF NearEnd
  <2>3. walk.budget >= PagesSteady
    BY <1>2 DEF GetsBack
  <2>4. PageSize * PagesSteady <= PageSize * walk.budget
    <3>1. PICK d \in Nat : walk.budget = PagesSteady + d
      <4>1. /\ walk.budget - PagesSteady \in Nat
            /\ walk.budget = PagesSteady + (walk.budget - PagesSteady)
        BY <1>1, <2>3
      <4> QED
        BY <4>1
    <3>2. PageSize * (PagesSteady + d) = PageSize * PagesSteady + PageSize * d
      BY <1>1
    <3>3. PageSize * d \in Nat /\ PageSize * PagesSteady \in Nat
      BY <1>1
    <3> QED
      BY <3>1, <3>2, <3>3
  <2>5. PageSize * PagesSteady \in Int /\ PageSize * walk.budget \in Int
    BY <1>1
  <2> QED
    BY <1>1, <2>1, <2>2, <2>4, <2>5
<1>3. CASE walk.collected # {}
  BY <1>3, WalkStands DEF GetsBack
<1> QED
  BY <1>2, <1>3

-----------------------------------------------------------------------------
(* OfficialUsage: the steps *)

CollectorInv == TypeInv /\ ClineInv /\ ItemsInv /\ WalkInv

LEMMA CollectorInit == UsageInit => CollectorInv
<1> SUFFICES ASSUME UsageInit PROVE CollectorInv
  OBVIOUS
<1>1. ItemsInv
  BY DEF UsageInit, ItemsInv
<1>2. WalkInv
  BY DEF UsageInit, WalkInv, Idle
<1> QED
  BY <1>1, <1>2, TypeInit, ClineInit DEF CollectorInv

\* While Cline publishes and the clock goes on, a walk is where it was.
LEMMA WalkKept ==
    ASSUME TypeInv, Publish \/ Tick
    PROVE  /\ walk'.on = walk.on /\ walk'.watermark = walk.watermark
           /\ walk'.old = walk.old /\ walk'.older = walk.older /\ walk'.budget = walk.budget
           /\ walk'.next = walk.next /\ walk'.collected = walk.collected
           /\ walk'.top = walk.top
           /\ ~ walk.on => walk' = walk
           /\ items' = items /\ asOf' = asOf /\ cut' = cut /\ errors' = errors
           /\ since' = Never => since = Never
<1>1. CASE Publish
  BY <1>1 DEF Publish, collector, usageBudgets
<1>2. CASE Tick
  <2>1. walk' = IF walk.on THEN [walk EXCEPT !.elapsed = Older(@, LongWait)] ELSE walk
    BY <1>2 DEF Tick
  <2>2. walk \in Walk
    BY DEF TypeInv
  <2>3. since' = Never => since = Never
    <3>1. ASSUME since # Never PROVE since' # Never
      <4>1. since' = Older(since, LongWait) /\ since \in 0 .. LongWait
        BY <1>2, <3>1, Bounds DEF Tick, TypeInv, UsageTypeOK
      <4> QED
        BY <4>1, Bounds, OlderType
    <3> QED
      BY <3>1
  <2> QED
    BY <1>2, <2>1, <2>2, <2>3 DEF Tick, Walk, usageBudgets
<1> QED
  BY <1>1, <1>2

LEMMA StaleLater ==
    ASSUME TypeInv, ItemsInv, WalkInv, walk.on, Publish \/ Tick, NEW r \in 0 .. published
    PROVE  (Stale(r))' <=> Stale(r)
<1>1. PICK w \in 0 .. published : w = walk.watermark
  BY WatermarkType
<1>2. (Time(w))' = Time(w) /\ (Time(r))' = Time(r) /\ walk'.watermark = w /\ walk'.old = walk.old
  BY <1>1, ClineLater, WalkKept
<1>3. (Stale(r))' <=> r \in walk'.old \/ (Time(r))' <= (Time(w))'
  BY <1>2 DEF Stale
<1> QED
  BY <1>1, <1>2, <1>3 DEF Stale

LEMMA ItemsLater ==
    ASSUME TypeInv, ItemsInv, Publish \/ Tick PROVE ItemsInv'
<1>1. /\ published \in Nat /\ published' \in Nat /\ published <= published'
      /\ asOf \in 0 .. published
  BY ClineLater DEF TypeInv, UsageTypeOK
<1>2. PICK S \in SUBSET (1 .. published) : S = items
  BY DEF ItemsInv
<1>3. items' = S /\ asOf' = asOf /\ cut' = cut /\ (since' = Never => since = Never)
  BY <1>2, WalkKept
<1>4. items' \in SUBSET (1 .. published')
  BY <1>1, <1>2, <1>3
<1>5. ASSUME ~ cut', NEW r \in 1 .. published', (Reached(r))'
      PROVE  (KnownTo(r, items))'
  <2>1. Reached(r) /\ r \in 1 .. published
    BY <1>1, <1>2, <1>3, <1>5 DEF Reached
  <2>2. KnownTo(r, S)
    BY <1>2, <1>3, <1>5, <2>1 DEF ItemsInv
  <2>3. (KnownTo(r, S))'
    BY <1>2, <2>1, <2>2, KnownLater
  <2> QED
    BY <1>3, <2>3 DEF KnownTo
<1>6. since' = Never => items' = {} /\ asOf' = 0
  BY <1>2, <1>3 DEF ItemsInv
<1> QED
  BY <1>4, <1>5, <1>6 DEF ItemsInv

LEMMA WalkLater ==
    ASSUME TypeInv, ItemsInv, WalkInv, Publish \/ Tick PROVE WalkInv'
<1>1. CASE ~ walk.on
  BY <1>1, WalkKept, IdleType DEF WalkInv
<1>2. CASE walk.on
  <2>1. /\ published \in Nat /\ published' \in Nat /\ published <= published'
        /\ \A r \in 1 .. published : /\ age[r] \in Nat /\ age'[r] \in Nat
                                     /\ age[r] <= age'[r]
    BY ClineLater
  <2>2. /\ walk.top \in Nat /\ walk.next \in Nat /\ Retention \in Nat /\ walk.on'
        /\ walk.old \in SUBSET Record /\ walk.top <= published
    <3>1. walk \in Walk /\ walk'.on = walk.on
      BY WalkKept DEF TypeInv
    <3>2. walk.top <= published
      BY <1>2 DEF WalkInv
    <3> QED
      BY <1>2, <3>1, <3>2, Bounds DEF Walk
  <2>3. \A r \in walk.old : r \in 1 .. published
    BY <1>2, <2>2 DEF WalkInv, Record
  <2>4. \A r \in walk'.old : /\ r <= published' /\ age'[r] >= Retention
                             /\ 1 .. r \subseteq walk'.old
    <3>1. walk'.old = walk.old
      BY WalkKept
    <3>2. ASSUME NEW r \in walk.old
          PROVE  r <= published' /\ age'[r] >= Retention /\ 1 .. r \subseteq walk.old
      <4>1. age[r] >= Retention /\ 1 .. r \subseteq walk.old
        BY <1>2 DEF WalkInv
      <4>2. /\ r \in 1 .. published /\ age[r] \in Nat /\ age'[r] \in Nat
            /\ age[r] <= age'[r] /\ r <= published'
        BY <2>1, <2>3
      <4>3. age'[r] >= Retention
        BY <2>2, <4>1, <4>2
      <4> QED
        BY <4>1, <4>2, <4>3
    <3> QED
      BY <3>1, <3>2
  <2>5. /\ \A r \in walk'.older : r \in walk'.old /\ 1 .. r \subseteq walk'.older
        /\ items' = {} => walk'.watermark = 0
        /\ items' # {} => walk'.watermark \in items' /\ \A q \in items' : q <= walk'.watermark
        /\ walk'.collected = {} => walk'.next = NumRecords
        /\ walk'.top <= published' /\ walk'.budget > 0
    BY <1>2, <2>1, <2>2, WalkKept DEF WalkInv
  <2>6. ASSUME walk'.collected # {}
        PROVE  \E hi \in walk'.top .. published' :
                 /\ walk'.next > 0 /\ walk'.next < hi
                 /\ walk'.collected = (walk'.next + 1) .. hi
                 /\ \A r \in walk'.collected : ~ (Stale(r))'
    <3>1. PICK hi \in walk.top .. published :
                 /\ walk.next > 0 /\ walk.next < hi
                 /\ walk.collected = (walk.next + 1) .. hi
                 /\ \A r \in walk.collected : ~ Stale(r)
      BY <1>2, <2>6, WalkKept DEF WalkInv
    <3>2. \A r \in walk.collected : r \in 0 .. published
      BY <2>1, <2>2, <3>1
    <3>3. \A r \in walk.collected : ~ (Stale(r))'
      BY <1>2, <3>1, <3>2, StaleLater
    <3>4. hi \in walk'.top .. published'
      <4>1. walk'.top = walk.top
        BY WalkKept
      <4>2. hi \in Nat /\ walk.top <= hi /\ hi <= published
        BY <2>1, <2>2
      <4> QED
        BY <2>1, <2>2, <4>1, <4>2
    <3> QED
      BY <3>1, <3>3, <3>4, WalkKept
  <2> QED
    BY <2>2, <2>4, <2>5, <2>6 DEF WalkInv
<1> QED
  BY <1>1, <1>2

LEMMA BeginStep == CollectorInv /\ BeginWalk => CollectorInv'
<1> SUFFICES ASSUME CollectorInv, BeginWalk PROVE CollectorInv'
  OBVIOUS
<1>0. /\ TypeInv /\ ClineInv /\ ItemsInv
      /\ published' = published /\ age' = age /\ twins' = twins
      /\ items' = items /\ since' = since /\ asOf' = asOf /\ cut' = cut
  BY DEF CollectorInv, BeginWalk, cline, collector
<1>1. TypeInv'
  BY <1>0, BeginType
<1>2. ClineInv'
  BY <1>0 DEF ClineInv, Time
<1>3. ItemsInv'
  BY <1>0 DEF ItemsInv, Reached, KnownTo, Time
<1>4. WalkInv'
  <2> DEFINE old == {r \in Record : r <= published /\ age[r] >= Retention}
             older == {r \in Record : r <= published /\ age[r] > Retention}
  <2>1. /\ walk'.on = TRUE /\ walk'.watermark = Newest(items) /\ walk'.old = old
        /\ walk'.older = older /\ walk'.next = NumRecords /\ walk'.top = published
        /\ walk'.collected = {} /\ walk'.budget = IF Covered THEN PagesSteady ELSE PagesExtend
    BY DEF BeginWalk, Idle
  <2>2. walk'.budget > 0
    BY <2>1, Bounds
  <2>3. items \in SUBSET Record
    BY <1>0 DEF TypeInv, UsageTypeOK
  <2>4. /\ items = {} => Newest(items) = 0
        /\ items # {} => Newest(items) \in items /\ \A q \in items : q <= Newest(items)
    BY <2>3, NewestIs
  <2>5. published \in Nat /\ published <= NumRecords /\ NumRecords \in Nat /\ Retention \in Nat
    BY <1>0, Bounds DEF TypeInv, UsageTypeOK
  <2>6. \A r \in 1 .. published : r \in Record /\ age[r] \in Nat
    BY <1>0, <2>5, Bounds DEF TypeInv, UsageTypeOK, Record
  <2>7. \A r \in old : r \in 1 .. published
    BY <2>5 DEF Record
  <2>8. ASSUME NEW r \in 1 .. published, NEW q \in 1 .. r
        PROVE  q \in 1 .. published /\ age[r] <= age[q]
    BY <1>0, <2>5, <2>6 DEF ClineInv
  <2>9. \A r \in old : r <= published /\ age[r] >= Retention /\ 1 .. r \subseteq old
    BY <2>5, <2>6, <2>7, <2>8
  <2>10. ASSUME NEW r \in older PROVE r \in old /\ 1 .. r \subseteq older
    <3>1. r \in 1 .. published /\ age[r] > Retention /\ age[r] \in Nat
      BY <2>5, <2>6 DEF Record
    <3>2. \A q \in 1 .. r : q \in Record /\ q <= published /\ age[q] > Retention
      BY <2>5, <2>6, <2>8, <3>1
    <3> QED
      BY <2>5, <2>6, <3>1, <3>2
  <2> HIDE DEF old, older
  <2> QED
    BY <1>0, <2>1, <2>2, <2>4, <2>5, <2>9, <2>10 DEF WalkInv
<1> QED
  BY <1>1, <1>2, <1>3, <1>4 DEF CollectorInv

LEMMA MergeStep ==
    ASSUME CollectorInv, walk.on, UNCHANGED cline,
           NEW hi \in walk.top .. published, NEW A \in SUBSET (1 .. hi), NEW full \in BOOLEAN,
           Merge(A, full), full => \A r \in 1 .. hi : r \in A \/ Stale(r)
    PROVE  ItemsInv' /\ WalkInv' /\ ClineInv'
<1>1. /\ published' = published /\ age' = age /\ twins' = twins /\ published \in Nat
      /\ walk.top \in Nat /\ NumRecords \in Nat /\ published <= NumRecords
      /\ TypeInv /\ ClineInv /\ ItemsInv /\ WalkInv /\ walk.top <= published
  <2>1. published' = published /\ age' = age /\ twins' = twins
    BY DEF cline
  <2>2. TypeInv /\ ClineInv /\ ItemsInv /\ WalkInv
    BY DEF CollectorInv
  <2>3. published \in 0 .. NumRecords /\ walk \in Walk /\ NumRecords \in Nat
    BY <2>2, Bounds DEF TypeInv, UsageTypeOK
  <2>4. published \in Nat /\ published <= NumRecords
    BY <2>3
  <2>5. walk.top \in Nat
    BY <2>3 DEF Walk
  <2>6. walk.top <= published
    BY <2>2 DEF WalkInv
  <2> QED
    BY <2>1, <2>2, <2>3, <2>4, <2>5, <2>6
<1>2. A \in SUBSET Record
  BY <1>1 DEF Record
<1>3. since' # Never /\ walk' = Idle
  BY <1>1, <1>2, MergeType
<1>4. /\ items' = (items \cup A) \ walk.older /\ asOf' = walk.top
      /\ cut' = (cut \/ ~ full)
  BY DEF Merge
<1>5. items' \in SUBSET (1 .. published')
  <2>1. items \in SUBSET (1 .. published)
    BY <1>1 DEF ItemsInv
  <2>2. A \in SUBSET (1 .. published)
    BY <1>1
  <2> QED
    BY <1>1, <1>4, <2>1, <2>2
<1>6. ASSUME ~ cut', NEW r \in 1 .. published', (Reached(r))'
      PROVE  (KnownTo(r, items))'
  <2>1. ~ cut /\ full
    BY <1>4, <1>6
  <2>2. r <= walk.top \/ \E q \in (items \cup A) \ walk.older : r <= q
    BY <1>4, <1>6 DEF Reached
  <2>3. KnownTo(r, (items \cup A) \ walk.older)
    BY <1>1, <2>1, <2>2, MergeKnows
  <2> QED
    BY <1>1, <1>4, <2>3 DEF KnownTo, Time
<1>7. ItemsInv'
  BY <1>3, <1>5, <1>6 DEF ItemsInv
<1>8. WalkInv'
  BY <1>3 DEF WalkInv, Idle
<1>9. ClineInv'
  BY <1>1 DEF ClineInv, Time
<1> QED
  BY <1>7, <1>8, <1>9

\* A page ends the walk, in full or at its budget, or the walk goes on below it.
LEMMA NextPageIs ==
    ASSUME TypeInv, NextPage
    PROVE  LET page == Page(walk.next)
               all == walk.collected \cup FreshOf(page)
           IN  /\ walk.on /\ UNCHANGED cline /\ errors' = errors /\ restarts' = restarts
               /\ \/ Ends(page) /\ Merge(all, TRUE) /\ failures' = 0 /\ wait' = 0
                  \/ /\ ~ Ends(page) /\ walk.budget = 1
                     /\ Merge(all, FALSE) /\ failures' = 0 /\ wait' = 0
                  \/ /\ ~ Ends(page) /\ walk.budget # 1
                     /\ walk' = [walk EXCEPT !.collected = all, !.next = Min(page) - 1,
                                             !.budget = @ - 1]
                     /\ UNCHANGED <<collector, asOf, cut>>
  BY DEF NextPage, Ends, FreshOf, usageBudgets

LEMMA PageStep == CollectorInv /\ NextPage => CollectorInv'
<1> SUFFICES ASSUME CollectorInv, NextPage PROVE CollectorInv'
  OBVIOUS
<1>0. /\ TypeInv /\ ClineInv /\ ItemsInv /\ WalkInv
  BY DEF CollectorInv
<1> DEFINE c == Least(walk.next, published)
           page == Page(walk.next)
           all == walk.collected \cup FreshOf(page)
<1>1. /\ walk.on /\ UNCHANGED cline /\ errors' = errors /\ restarts' = restarts
      /\ \/ Ends(page) /\ Merge(all, TRUE) /\ failures' = 0 /\ wait' = 0
         \/ /\ ~ Ends(page) /\ walk.budget = 1
            /\ Merge(all, FALSE) /\ failures' = 0 /\ wait' = 0
         \/ /\ ~ Ends(page) /\ walk.budget # 1
            /\ walk' = [walk EXCEPT !.collected = all, !.next = Min(page) - 1,
                                    !.budget = @ - 1]
            /\ UNCHANGED <<collector, asOf, cut>>
  BY <1>0, NextPageIs
<1>2. all \in SUBSET Record
  BY <1>0, <1>1, PageEnds
<1>3. PICK hi \in walk.top .. published :
           /\ all \in SUBSET (1 .. hi)
           /\ all # {} => hi \in all
           /\ \A r \in all : ~ Stale(r)
           /\ Ends(page) => \A r \in 1 .. hi : r \in all \/ Stale(r)
           /\ ~ Ends(page) => /\ c \in Nat /\ c > PageSize /\ c <= hi /\ c <= walk.next
                              /\ all = (c - PageSize + 1) .. hi
                              /\ Min(page) = c - PageSize + 1
  BY <1>0, <1>1, PageEnds
<1>4. /\ published' = published /\ age' = age /\ twins' = twins /\ accountAge' = accountAge
      /\ walk.top <= published
  BY <1>0, <1>1 DEF cline, WalkInv
<1> HIDE DEF c, page, all
<1>5. ASSUME NEW full \in BOOLEAN, Merge(all, full), full => Ends(page),
             failures' = 0, wait' = 0
      PROVE  CollectorInv'
  <2>1. ItemsInv' /\ WalkInv' /\ ClineInv'
    BY <1>1, <1>3, <1>5, MergeStep
  <2>2. TypeInv'
    <3>1. /\ items' \subseteq Record /\ since' \in 0 .. Never
          /\ truncated' \in BOOLEAN /\ asOf' \in 0 .. published /\ cut' \in BOOLEAN
          /\ walk' = Idle
      BY <1>0, <1>2, <1>4, <1>5, MergeType
    <3>2. Idle \in Walk /\ Idle.on = FALSE /\ Idle.collected = {}
      BY IdleType DEF Idle
    <3>3. failures' \in 0 .. 5 /\ wait' \in 0 .. MaxBackoff
      BY <1>5, Bounds
    <3>4. /\ published' \in 0 .. NumRecords /\ twins' \subseteq 2 .. published'
          /\ age' \in [Record -> 0 .. OldAge] /\ accountAge' \in 0 .. OldAge
          /\ errors' \in 0 .. MaxErrors /\ restarts' \in 0 .. MaxRestarts
      BY <1>0, <1>1, <1>4 DEF TypeInv, UsageTypeOK
    <3> QED
      BY <1>4, <3>1, <3>2, <3>3, <3>4 DEF TypeInv, UsageTypeOK
  <2> QED
    BY <2>1, <2>2 DEF CollectorInv
<1>6. ASSUME ~ Ends(page), walk.budget # 1,
             walk' = [walk EXCEPT !.collected = all, !.next = Min(page) - 1, !.budget = @ - 1],
             UNCHANGED <<collector, asOf, cut>>
      PROVE  CollectorInv'
  <2>1. /\ walk.budget \in Nat /\ walk.budget > 1 /\ walk.top \in Nat /\ published \in Nat
        /\ PageSize \in Nat \ {0} /\ NumRecords \in Nat /\ walk.next \in 0 .. NumRecords
        /\ walk \in Walk
    <3>1. walk \in Walk /\ published \in Nat /\ walk.budget > 0
      BY <1>0, <1>1 DEF TypeInv, UsageTypeOK, WalkInv
    <3> QED
      BY <1>6, <3>1, Bounds DEF Walk
  <2>2. /\ c \in Nat /\ c > PageSize /\ c <= hi /\ c <= walk.next
        /\ all = (c - PageSize + 1) .. hi /\ Min(page) = c - PageSize + 1
        /\ hi \in Nat
    BY <1>3, <1>6, <2>1
  <2>3. Min(page) - 1 = c - PageSize /\ c - PageSize \in 0 .. NumRecords /\ c - PageSize > 0
    BY <2>1, <2>2
  <2>4. walk.budget - 1 \in Nat /\ walk.budget - 1 > 0
    BY <2>1
  <2>5. /\ walk' \in Walk /\ walk'.on = TRUE /\ walk'.watermark = walk.watermark
        /\ walk'.old = walk.old /\ walk'.older = walk.older /\ walk'.top = walk.top
        /\ walk'.collected = all /\ walk'.next = c - PageSize
        /\ walk'.budget = walk.budget - 1
    BY <1>1, <1>2, <1>6, <2>1, <2>3, <2>4 DEF Walk
  <2>6. items' = items /\ since' = since /\ asOf' = asOf /\ cut' = cut
    BY <1>6 DEF collector
  <2>7. TypeInv'
    BY <1>0, <1>1, <1>2, <1>4, <1>6, <2>5 DEF TypeInv, UsageTypeOK, collector
  <2>8. ClineInv'
    BY <1>0, <1>4 DEF ClineInv, Time
  <2>9. ItemsInv'
    BY <1>0, <1>4, <2>6 DEF ItemsInv, Reached, KnownTo, Time
  <2>10. WalkInv'
    <3>1. /\ c - PageSize > 0 /\ c - PageSize < hi /\ all = ((c - PageSize) + 1) .. hi
          /\ all # {}
      BY <2>1, <2>2, <2>3
    <3>2. \A r : (Stale(r))' <=> Stale(r)
      BY <1>4, <2>5 DEF Stale, Time
    <3>3. /\ items' = {} => walk'.watermark = 0
          /\ items' # {} => walk'.watermark \in items' /\ \A q \in items' : q <= walk'.watermark
          /\ \A r \in walk'.old : /\ r <= published' /\ age'[r] >= Retention
                                  /\ 1 .. r \subseteq walk'.old
          /\ \A r \in walk'.older : r \in walk'.old /\ 1 .. r \subseteq walk'.older
      BY <1>0, <1>1, <1>4, <2>5, <2>6 DEF WalkInv
    <3>4. \E h \in walk'.top .. published' :
                 /\ walk'.next > 0 /\ walk'.next < h
                 /\ walk'.collected = (walk'.next + 1) .. h
                 /\ \A r \in walk'.collected : ~ (Stale(r))'
      BY <1>3, <1>4, <2>5, <3>1, <3>2
    <3> QED
      BY <1>4, <2>4, <2>5, <3>1, <3>3, <3>4 DEF WalkInv
  <2> QED
    BY <2>7, <2>8, <2>9, <2>10 DEF CollectorInv
<1> QED
  <2>1. CASE Ends(page) /\ Merge(all, TRUE) /\ failures' = 0 /\ wait' = 0
    BY <1>5, <2>1
  <2>2. CASE ~ Ends(page) /\ Merge(all, FALSE) /\ failures' = 0 /\ wait' = 0
    BY <1>5, <2>2
  <2> QED
    BY <1>1, <1>6, <2>1, <2>2

LEMMA FailStep == CollectorInv /\ FailPage => CollectorInv'
<1> SUFFICES ASSUME CollectorInv, FailPage PROVE CollectorInv'
  OBVIOUS
<1>0. /\ TypeInv /\ ClineInv /\ ItemsInv /\ WalkInv
      /\ published' = published /\ age' = age /\ twins' = twins /\ accountAge' = accountAge
      /\ restarts' = restarts /\ walk.on /\ walk.top <= published /\ UNCHANGED cline
  BY DEF CollectorInv, FailPage, cline, WalkInv
<1>1. errors' \in 0 .. MaxErrors
  BY <1>0, Bounds DEF FailPage, TypeInv, UsageTypeOK
<1>2. failures' \in 0 .. 5 /\ wait' \in 0 .. MaxBackoff
  <2>1. failures' \in 1 .. 5 /\ walk.elapsed \in Nat
    BY <1>0, Bounds DEF FailPage, NoteFailure, Least, TypeInv, UsageTypeOK, Walk
  <2>2. Backoff(failures') \in Nat /\ Backoff(failures') <= MaxBackoff
    BY <2>1, BackoffBound
  <2>3. wait' = IF Backoff(failures') > walk.elapsed THEN Backoff(failures') - walk.elapsed ELSE 0
    BY DEF FailPage, NoteFailure
  <2> QED
    BY <2>1, <2>2, <2>3, Bounds
<1>3. Idle \in Walk /\ Idle.on = FALSE /\ Idle.collected = {}
  BY IdleType DEF Idle
<1>6. /\ published' \in 0 .. NumRecords /\ twins' \subseteq 2 .. published'
      /\ age' \in [Record -> 0 .. OldAge] /\ accountAge' \in 0 .. OldAge
      /\ restarts' \in 0 .. MaxRestarts
  BY <1>0 DEF TypeInv, UsageTypeOK
<1>4. CASE walk.collected # {} /\ Merge(walk.collected, FALSE)
  <2>1. PICK hi \in walk.top .. published : walk.collected \in SUBSET (1 .. hi)
    <3>1. PICK hi \in walk.top .. published :
              /\ Least(walk.next, published) \in 0 .. hi
              /\ walk.collected = (Least(walk.next, published) + 1) .. hi
      BY <1>0, WalkStands
    <3> QED
      BY <3>1
  <2>2. ItemsInv' /\ WalkInv' /\ ClineInv'
    BY <1>0, <1>4, <2>1, MergeStep
  <2>3. walk.collected \in SUBSET Record
    BY <1>0 DEF TypeInv, UsageTypeOK
  <2>4. /\ items' \subseteq Record /\ since' \in 0 .. Never
        /\ truncated' \in BOOLEAN /\ asOf' \in 0 .. published /\ cut' \in BOOLEAN
        /\ walk' = Idle
    BY <1>0, <1>4, <2>3, MergeType
  <2>5. TypeInv'
    BY <1>0, <1>1, <1>2, <1>3, <1>6, <2>4 DEF TypeInv, UsageTypeOK
  <2> QED
    BY <2>2, <2>5 DEF CollectorInv
<1>5. CASE walk' = Idle /\ UNCHANGED <<items, since, truncated, asOf, cut>>
  <2>1. TypeInv'
    <3>1. /\ items' \subseteq Record /\ since' \in 0 .. Never
          /\ truncated' \in BOOLEAN /\ asOf' \in 0 .. published' /\ cut' \in BOOLEAN
      BY <1>0, <1>5 DEF TypeInv, UsageTypeOK
    <3> QED
      BY <1>1, <1>2, <1>3, <1>5, <1>6, <3>1 DEF TypeInv, UsageTypeOK
  <2>2. ClineInv'
    BY <1>0 DEF ClineInv, Time
  <2>3. ItemsInv'
    BY <1>0, <1>5 DEF ItemsInv, Reached, KnownTo, Time
  <2>4. WalkInv'
    BY <1>3, <1>5 DEF WalkInv
  <2> QED
    BY <2>1, <2>2, <2>3, <2>4 DEF CollectorInv
<1> QED
  BY <1>4, <1>5 DEF FailPage

LEMMA RestartStep == CollectorInv /\ Restart => CollectorInv'
<1> SUFFICES ASSUME CollectorInv, Restart PROVE CollectorInv'
  OBVIOUS
<1>0. /\ TypeInv /\ ClineInv
      /\ published' = published /\ age' = age /\ twins' = twins /\ accountAge' = accountAge
  BY DEF CollectorInv, Restart, cline
<1>1. Idle \in Walk /\ Idle.on = FALSE /\ Idle.collected = {}
  BY IdleType DEF Idle
<1>2. TypeInv'
  <2>1. restarts' \in 0 .. MaxRestarts
    BY <1>0, Bounds DEF Restart, TypeInv, UsageTypeOK
  <2>2. /\ items' = {} /\ since' = Never /\ wait' = 0 /\ failures' = 0 /\ truncated' = FALSE
        /\ walk' = Idle /\ asOf' = 0 /\ cut' = FALSE /\ errors' = errors
    BY DEF Restart
  <2>3. since' \in 0 .. Never /\ wait' \in 0 .. MaxBackoff /\ failures' \in 0 .. 5
    BY <2>2, Bounds
  <2>4. asOf' \in 0 .. published'
    BY <1>0, <2>2 DEF TypeInv, UsageTypeOK
  <2> QED
    BY <1>0, <1>1, <2>1, <2>2, <2>3, <2>4 DEF TypeInv, UsageTypeOK
<1>3. ClineInv'
  BY <1>0 DEF ClineInv, Time
<1>4. ItemsInv'
  <2>1. items' = {} /\ asOf' = 0
    BY DEF Restart
  <2>2. \A r \in 1 .. published' : ~ (Reached(r))'
    BY <1>0, <2>1 DEF Reached, TypeInv, UsageTypeOK
  <2> QED
    BY <2>1, <2>2 DEF ItemsInv
<1>5. WalkInv'
  BY <1>1 DEF WalkInv, Restart
<1> QED
  BY <1>2, <1>3, <1>4, <1>5 DEF CollectorInv

LEMMA CollectorStep == CollectorInv /\ [UsageNext]_usageVars => CollectorInv'
<1> SUFFICES ASSUME CollectorInv, [UsageNext]_usageVars PROVE CollectorInv'
  OBVIOUS
<1>1. CASE Publish
  BY <1>1, PublishType, PublishCline, ItemsLater, WalkLater DEF CollectorInv
<1>2. CASE Tick
  BY <1>2, TickType, TickCline, ItemsLater, WalkLater DEF CollectorInv
<1>3. CASE BeginWalk
  BY <1>3, BeginStep
<1>4. CASE NextPage
  BY <1>4, PageStep
<1>5. CASE FailPage
  BY <1>5, FailStep
<1>6. CASE Restart
  BY <1>6, RestartStep
<1>7. CASE UNCHANGED usageVars
  <2>1. /\ published' = published /\ twins' = twins /\ age' = age /\ accountAge' = accountAge
        /\ items' = items /\ since' = since /\ wait' = wait /\ failures' = failures
        /\ truncated' = truncated /\ walk' = walk /\ asOf' = asOf /\ cut' = cut
        /\ errors' = errors /\ restarts' = restarts
    BY <1>7 DEF usageVars, cline, collector, usageBudgets
  <2>2. TypeInv'
    BY <2>1 DEF CollectorInv, TypeInv, UsageTypeOK
  <2>3. ClineInv' /\ ItemsInv'
    BY <2>1 DEF CollectorInv, ClineInv, ItemsInv, Reached, KnownTo, Time
  <2>4. WalkInv'
    BY <2>1 DEF CollectorInv, WalkInv, Stale, Time
  <2> QED
    BY <2>2, <2>3, <2>4 DEF CollectorInv
<1> QED
  BY <1>1, <1>2, <1>3, <1>4, <1>5, <1>6, <1>7 DEF UsageNext

LEMMA CollectorInvariance == UsageSpec => []CollectorInv
  BY CollectorInit, CollectorStep, PTL DEF UsageSpec

\* As long as no walk was cut short, the collector has everything Cline had published when
\* the last kept walk began and that is not older than the retention, whatever is published
\* while it pages, but for a record that shares its time with one that was there first.
THEOREM NothingIsMissing == UsageSpec => []NothingMissing
<1>1. CollectorInv => NothingMissing
  <2> SUFFICES ASSUME CollectorInv PROVE NothingMissing
    OBVIOUS
  <2>1. UsageTypeOK /\ ItemsInv
    BY DEF CollectorInv, TypeInv
  <2>2. ASSUME ~ cut, NEW r \in Missing PROVE FALSE
    <3>1. r \in 1 .. asOf /\ age[r] < Retention /\ ~ TakenForKnown(r) /\ r \notin items
      BY <2>2 DEF Missing
    <3>2. r \in 1 .. published /\ age[r] \in Nat
      BY <2>1, <3>1, Bounds DEF UsageTypeOK, Record
    <3>3. KnownTo(r, items)
      BY <2>1, <2>2, <3>1, <3>2 DEF ItemsInv, Reached
    <3> QED
      BY <3>1, <3>2, <3>3, Bounds DEF KnownTo, TakenForKnown
  <2> QED
    BY <2>1, <2>2 DEF NothingMissing
<1> QED
  BY <1>1, CollectorInvariance, PTL

-----------------------------------------------------------------------------
(* OfficialUsage: a window that says it is covered *)

LEMMA CalmInit == UsageInit => CalmInv
  BY DEF UsageInit, CalmInv, NoHole, NearEnd, GetsBack, Idle

LEMMA NoHoleKept ==
    ASSUME NoHole, UNCHANGED <<cline, items, asOf>> PROVE NoHole'
  BY DEF NoHole, Reached, KnownTo, Time, cline

LEMMA NoHoleLater ==
    ASSUME TypeInv, ItemsInv, NoHole, Publish \/ Tick PROVE NoHole'
<1>1. /\ published \in Nat /\ published' \in Nat /\ published <= published'
      /\ asOf \in 0 .. published
  BY ClineLater DEF TypeInv, UsageTypeOK
<1>2. PICK S \in SUBSET (1 .. published) : S = items
  BY DEF ItemsInv
<1>3. items' = S /\ asOf' = asOf
  BY <1>2, WalkKept
<1>4. ASSUME NEW r \in 1 .. published', NEW q \in S, q < r, (Reached(r))'
      PROVE  (KnownTo(r, items))'
  <2>1. Reached(r) /\ r \in 1 .. published
    BY <1>1, <1>2, <1>3, <1>4 DEF Reached
  <2>2. KnownTo(r, S)
    BY <1>2, <1>4, <2>1 DEF NoHole
  <2>3. (KnownTo(r, S))'
    BY <1>2, <2>1, <2>2, KnownLater
  <2> QED
    BY <1>3, <2>3 DEF KnownTo
<1> QED
  BY <1>3, <1>4 DEF NoHole

LEMMA CalmPublish == Calm /\ CollectorInv /\ CalmInv /\ Publish => CalmInv'
<1> SUFFICES ASSUME Calm, CollectorInv, CalmInv, Publish PROVE CalmInv'
  OBVIOUS
<1>1. /\ TypeInv /\ ItemsInv /\ items' = items /\ walk' = walk /\ errors' = errors
      /\ published' = published + 1 /\ published \in Nat
      /\ PageSize \in Nat /\ PagesSteady \in Nat
  BY Bounds DEF CollectorInv, Publish, collector, usageBudgets, TypeInv, UsageTypeOK
<1>2. errors' = 0 => NoHole'
  BY <1>1, NoHoleLater DEF CalmInv
<1>3. ASSUME NEW m \in items \cup walk.collected, \A q \in items \cup walk.collected : q <= m
      PROVE  published + 1 - m <= PageSize * PagesSteady
  <2> DEFINE S == items \cup walk.collected
  <2>1. S \in SUBSET Record /\ Record \subseteq Int
    <3>1. S \in SUBSET Record
      BY <1>1 DEF TypeInv, UsageTypeOK
    <3>2. Record \subseteq Int
      BY Bounds DEF Record
    <3> QED
      BY <3>1, <3>2
  <2>2. ~ (since = Never /\ walk.collected = {})
    BY <1>1 DEF ItemsInv
  <2>3. published - Newest(S) < PagesSteady * PageSize
    BY <2>2 DEF Publish
  <2>4. Newest(S) \in S /\ \A q \in S : q <= Newest(S)
    BY <2>1, NewestIs
  <2>5. Newest(S) = m
    <3>1. Newest(S) <= m /\ m <= Newest(S) /\ m \in Int /\ Newest(S) \in Int
      BY <1>3, <2>1, <2>4
    <3> QED
      BY <3>1
  <2>6. PagesSteady * PageSize = PageSize * PagesSteady /\ PageSize * PagesSteady \in Int
    BY <1>1
  <2>7. m \in Int
    BY <2>1
  <2> QED
    BY <1>1, <2>3, <2>5, <2>6, <2>7
<1>4. NearEnd'
  <2> SUFFICES ASSUME NEW m \in (items \cup walk.collected)',
                      \A q \in (items \cup walk.collected)' : q <= m
               PROVE  published' - m <= PageSize * PagesSteady
    BY DEF NearEnd
  <2>1. m \in items \cup walk.collected /\ \A q \in items \cup walk.collected : q <= m
    BY <1>1
  <2>2. published + 1 - m <= PageSize * PagesSteady
    BY <1>3, <2>1
  <2>3. m \in Int
    BY <1>1, <2>1, Bounds DEF TypeInv, UsageTypeOK, Record
  <2>4. published' - m = published + 1 - m
    BY <1>1, <2>3
  <2> QED
    BY <2>2, <2>4
<1>5. GetsBack'
  BY <1>1 DEF CalmInv, GetsBack
<1> QED
  BY <1>2, <1>4, <1>5 DEF CalmInv

LEMMA CalmTick == CollectorInv /\ CalmInv /\ Tick => CalmInv'
<1> SUFFICES ASSUME CollectorInv, CalmInv, Tick PROVE CalmInv'
  OBVIOUS
<1>1. /\ TypeInv /\ ItemsInv
      /\ items' = items /\ errors' = errors /\ published' = published
      /\ walk'.on = walk.on /\ walk'.collected = walk.collected /\ walk'.budget = walk.budget
      /\ walk'.next = walk.next /\ walk'.watermark = walk.watermark
  BY WalkKept DEF CollectorInv, Tick
<1>2. errors' = 0 => NoHole'
  BY <1>1, NoHoleLater DEF CalmInv
<1> QED
  BY <1>1, <1>2 DEF CalmInv, NearEnd, GetsBack

LEMMA CalmBegin == CollectorInv /\ CalmInv /\ BeginWalk => CalmInv'
<1> SUFFICES ASSUME CollectorInv, CalmInv, BeginWalk PROVE CalmInv'
  OBVIOUS
<1>1. /\ items' = items /\ errors' = errors /\ published' = published /\ asOf' = asOf
      /\ UNCHANGED cline
  BY DEF BeginWalk, cline, collector, usageBudgets
<1>2. errors' = 0 => NoHole'
  BY <1>1, NoHoleKept DEF CalmInv
<1>3. walk.collected = {}
  BY DEF CollectorInv, WalkInv, BeginWalk, Idle
<1>4. walk'.collected = {} /\ walk'.budget = IF Covered THEN PagesSteady ELSE PagesExtend
  BY DEF BeginWalk, Idle
<1>5. walk'.budget >= PagesSteady
  BY <1>4, Bounds, BudgetsAssumption
<1> QED
  BY <1>1, <1>2, <1>3, <1>4, <1>5 DEF CalmInv, NearEnd, GetsBack

LEMMA NearAfterMerge ==
    ASSUME CollectorInv, CalmInv, walk.on, UNCHANGED cline,
           NEW hi \in 0 .. published, NEW A \in SUBSET (1 .. hi), walk.collected \subseteq A,
           walk.collected = {} => hi = published,
           walk.collected # {} => hi \in walk.collected,
           A # {} => hi \in A,
           NEW full, Merge(A, full)
    PROVE  NearEnd' /\ GetsBack'
<1>1. /\ TypeInv /\ ItemsInv /\ WalkInv /\ published' = published /\ published \in Nat
      /\ items' = (items \cup A) \ walk.older /\ walk' = Idle
      /\ items \in SUBSET (1 .. published)
  BY DEF CollectorInv, cline, TypeInv, UsageTypeOK, Merge, ItemsInv
<1>2. walk'.on = FALSE /\ walk'.collected = {}
  BY <1>1 DEF Idle
<1>3. ASSUME NEW m \in items', \A q \in items' : q <= m
      PROVE  published - m <= PageSize * PagesSteady
  <2>1. items \cup A \in SUBSET Nat /\ 0 \notin items \cup A
    BY <1>1
  <2>2. \A q \in items \cup A : q <= m
    BY <1>1, <1>3, <2>1, DropsOldest
  <2> QED
    BY <1>1, <2>2, NearWith DEF CalmInv
<1>4. NearEnd'
  BY <1>1, <1>2, <1>3 DEF NearEnd
<1>5. GetsBack'
  BY <1>2 DEF GetsBack
<1> QED
  BY <1>4, <1>5

LEMMA NoHoleAfterMerge ==
    ASSUME CollectorInv, NoHole, walk.on, UNCHANGED cline,
           NEW hi \in walk.top .. published, NEW A \in SUBSET (1 .. hi),
           \A q \in A : ~ Stale(q),
           \A r \in 1 .. hi : \/ r \in A \/ Stale(r)
                              \/ /\ items # {} => r <= walk.watermark
                                 /\ \A q \in A : r < q,
           NEW full, Merge(A, full)
    PROVE  NoHole'
<1>1. /\ TypeInv /\ ClineInv /\ ItemsInv /\ WalkInv
      /\ published' = published /\ age' = age /\ twins' = twins
      /\ items' = (items \cup A) \ walk.older /\ asOf' = walk.top
  BY DEF CollectorInv, cline, Merge
<1>2. ASSUME NEW r \in 1 .. published, NEW q \in (items \cup A) \ walk.older, q < r,
             (Reached(r))'
      PROVE  (KnownTo(r, items))'
  <2>1. r <= walk.top \/ \E p \in (items \cup A) \ walk.older : r <= p
    BY <1>1, <1>2 DEF Reached
  <2>2. KnownTo(r, (items \cup A) \ walk.older)
    BY <1>1, <1>2, <2>1, MergeNoHole
  <2> QED
    BY <1>1, <2>2 DEF KnownTo, Time
<1> QED
  BY <1>1, <1>2 DEF NoHole

LEMMA CalmPage == CollectorInv /\ CalmInv /\ NextPage => CalmInv'
<1> SUFFICES ASSUME CollectorInv, CalmInv, NextPage PROVE CalmInv'
  OBVIOUS
<1>0. /\ TypeInv /\ ClineInv /\ ItemsInv /\ WalkInv /\ NearEnd /\ GetsBack
      /\ (errors = 0 => NoHole)
  BY DEF CollectorInv, CalmInv
<1> DEFINE c == Least(walk.next, published)
           page == Page(walk.next)
           all == walk.collected \cup FreshOf(page)
<1>1. /\ walk.on /\ UNCHANGED cline /\ errors' = errors /\ restarts' = restarts
      /\ \/ Ends(page) /\ Merge(all, TRUE) /\ failures' = 0 /\ wait' = 0
         \/ /\ ~ Ends(page) /\ walk.budget = 1
            /\ Merge(all, FALSE) /\ failures' = 0 /\ wait' = 0
         \/ /\ ~ Ends(page) /\ walk.budget # 1
            /\ walk' = [walk EXCEPT !.collected = all, !.next = Min(page) - 1,
                                    !.budget = @ - 1]
            /\ UNCHANGED <<collector, asOf, cut>>
  BY <1>0, NextPageIs
<1>2. PICK hi \in walk.top .. published :
           /\ all \in SUBSET (1 .. hi)
           /\ walk.collected = {} => hi = published
           /\ walk.collected # {} => hi \in walk.collected
           /\ all # {} => hi \in all
           /\ \A r \in all : ~ Stale(r)
           /\ Ends(page) => \A r \in 1 .. hi : r \in all \/ Stale(r)
           /\ ~ Ends(page) => /\ c \in Nat /\ c > PageSize /\ c <= hi /\ c <= walk.next
                              /\ all = (c - PageSize + 1) .. hi
                              /\ Min(page) = c - PageSize + 1
  BY <1>0, <1>1, PageEnds
<1>3. /\ walk.top \in Nat /\ published \in Nat /\ hi \in Nat /\ hi \in 0 .. published
      /\ PageSize \in Nat \ {0} /\ walk.budget \in Nat
      /\ walk.watermark \in Nat /\ walk \in Walk
  <2>1. walk.top \in Nat /\ published \in Nat /\ walk.budget \in Nat /\ walk \in Walk
    BY <1>0 DEF TypeInv, UsageTypeOK, Walk
  <2> QED
    BY <1>0, <1>1, <2>1, Bounds, WatermarkType
<1>4. items # {} => c - PageSize * walk.budget <= walk.watermark
  BY <1>0, <1>1, PagesReach
<1>5. walk.collected \subseteq all
  OBVIOUS
<1> HIDE DEF c, page, all
<1>6. CASE Ends(page) /\ Merge(all, TRUE)
  <2>1. NearEnd' /\ GetsBack'
    BY <1>1, <1>2, <1>3, <1>5, <1>6, NearAfterMerge
  <2>2. NoHole => NoHole'
    BY <1>1, <1>2, <1>6, NoHoleAfterMerge
  <2> QED
    BY <1>0, <1>1, <2>1, <2>2 DEF CalmInv
<1>7. CASE ~ Ends(page) /\ walk.budget = 1 /\ Merge(all, FALSE)
  <2>1. NearEnd' /\ GetsBack'
    BY <1>1, <1>2, <1>3, <1>5, <1>7, NearAfterMerge
  <2>2. c \in Nat /\ all = (c - PageSize + 1) .. hi /\ PageSize * walk.budget = PageSize
    BY <1>2, <1>3, <1>7
  <2>3. ASSUME NEW r \in 1 .. hi, r \notin all
        PROVE  (items # {} => r <= walk.watermark) /\ \A q \in all : r < q
    <3>1. r <= c - PageSize
      BY <1>3, <2>2, <2>3
    <3>2. \A q \in all : r < q
      BY <1>3, <2>2, <3>1
    <3>3. items # {} => r <= walk.watermark
      <4>1. items # {} => c - PageSize <= walk.watermark
        BY <1>4, <2>2
      <4>2. c - PageSize \in Int /\ r \in Int /\ walk.watermark \in Int
        BY <1>3, <2>2
      <4> QED
        BY <3>1, <4>1, <4>2
    <3> QED
      BY <3>2, <3>3
  <2>4. NoHole => NoHole'
    BY <1>1, <1>2, <1>7, <2>3, NoHoleAfterMerge
  <2> QED
    BY <1>0, <1>1, <2>1, <2>4 DEF CalmInv
<1>8. CASE /\ ~ Ends(page) /\ walk.budget # 1
           /\ walk' = [walk EXCEPT !.collected = all, !.next = Min(page) - 1, !.budget = @ - 1]
           /\ UNCHANGED <<collector, asOf, cut>>
  <2>1. items' = items /\ asOf' = asOf /\ published' = published
    BY <1>1, <1>8 DEF collector, cline
  <2>2. NoHole => NoHole'
    BY <1>1, <2>1, NoHoleKept
  <2>3. /\ walk'.on = walk.on /\ walk'.watermark = walk.watermark /\ walk'.collected = all
        /\ walk'.next = Min(page) - 1 /\ walk'.budget = walk.budget - 1
    BY <1>3, <1>8 DEF Walk
  <2>4. c \in Nat /\ walk'.next = c - PageSize /\ all # {}
    <3>1. /\ c \in Nat /\ c <= hi /\ all = (c - PageSize + 1) .. hi
          /\ Min(page) = c - PageSize + 1
      BY <1>2, <1>8
    <3>2. Min(page) - 1 = c - PageSize
      BY <1>3, <3>1
    <3>3. hi \in (c - PageSize + 1) .. hi
      BY <1>3, <3>1
    <3> QED
      BY <2>3, <3>1, <3>2, <3>3
  <2>5. PageSize * (walk.budget - 1) = PageSize * walk.budget - PageSize
    BY <1>3
  <2>6. PageSize * walk.budget \in Nat
    BY <1>3
  <2>7. GetsBack'
    BY <1>3, <1>4, <2>1, <2>3, <2>4, <2>5, <2>6 DEF GetsBack
  <2>8. ASSUME NEW m \in items \cup all, \A q \in items \cup all : q <= m
        PROVE  published - m <= PageSize * PagesSteady
    BY <1>0, <1>2, <1>3, <1>5, <2>8, NearWith
  <2>9. NearEnd'
    BY <2>1, <2>3, <2>8 DEF NearEnd
  <2> QED
    BY <1>0, <1>1, <2>2, <2>7, <2>9 DEF CalmInv
<1> QED
  BY <1>1, <1>6, <1>7, <1>8

LEMMA CalmFail == CollectorInv /\ CalmInv /\ FailPage => CalmInv'
<1> SUFFICES ASSUME CollectorInv, CalmInv, FailPage PROVE CalmInv'
  OBVIOUS
<1>0. /\ TypeInv /\ ItemsInv /\ WalkInv /\ walk.on /\ UNCHANGED cline /\ published' = published
      /\ published \in Nat
  BY DEF CollectorInv, FailPage, cline, TypeInv, UsageTypeOK
<1>1. errors' # 0
  BY <1>0 DEF FailPage, TypeInv, UsageTypeOK
<1>2. CASE walk.collected # {} /\ Merge(walk.collected, FALSE)
  <2>1. PICK hi \in walk.top .. published :
              /\ Least(walk.next, published) \in 0 .. hi
              /\ walk.collected = (Least(walk.next, published) + 1) .. hi
    BY <1>0, WalkStands
  <2>2. walk.top \in Nat /\ hi \in 0 .. published
    BY <1>0, <2>1 DEF TypeInv, Walk
  <2>3. walk.collected \in SUBSET (1 .. hi) /\ hi \in walk.collected
    BY <1>0, <1>2, <2>1, <2>2
  <2>4. NearEnd' /\ GetsBack'
    BY <1>0, <1>2, <2>2, <2>3, NearAfterMerge
  <2> QED
    BY <1>1, <2>4 DEF CalmInv
<1>3. CASE /\ walk.collected = {} /\ walk' = Idle
           /\ UNCHANGED <<items, since, truncated, asOf, cut>>
  <2>1. walk'.on = FALSE /\ walk'.collected = {}
    BY <1>3 DEF Idle
  <2> QED
    BY <1>0, <1>1, <1>3, <2>1 DEF CalmInv, NearEnd, GetsBack
<1> QED
  BY <1>2, <1>3 DEF FailPage

LEMMA CalmRestart == CollectorInv /\ Restart => CalmInv'
<1> SUFFICES ASSUME Restart PROVE CalmInv'
  OBVIOUS
<1>1. items' = {} /\ walk'.on = FALSE /\ walk'.collected = {}
  BY DEF Restart, Idle
<1> QED
  BY <1>1 DEF CalmInv, NoHole, NearEnd, GetsBack

LEMMA CalmStep == Calm /\ CollectorInv /\ CalmInv /\ [UsageNext]_usageVars => CalmInv'
<1>1. CalmInv /\ UNCHANGED usageVars => CalmInv'
  BY DEF usageVars, cline, collector, usageBudgets, CalmInv, NoHole, NearEnd, GetsBack,
         Reached, KnownTo, Time
<1> QED
  BY <1>1, CalmPublish, CalmTick, CalmBegin, CalmPage, CalmFail, CalmRestart DEF UsageNext

LEMMA CalmInvariance == ASSUME Calm PROVE UsageSpec => []CalmInv
  BY CalmInit, CalmStep, CollectorInvariance, PTL DEF UsageSpec

\* If Cline publishes no more between two walks than a short one reads, then as long as no
\* page failed, a window that says it is covered has every record it is about, but for the
\* window of an account younger than it whose walk was cut short.
THEOREM CoveredMeansTotal == ASSUME Calm PROVE UsageSpec => []CoveredIsTotal
<1>1. CollectorInv /\ CalmInv => CoveredIsTotal
  <2> SUFFICES ASSUME CollectorInv, CalmInv, errors = 0, NEW w \in Windows,
                      WindowCovered(w), accountAge > w \/ ~ cut, NEW r \in Missing
               PROVE  age[r] >= w
    BY DEF CoveredIsTotal
  <2>1. UsageTypeOK /\ ClineInv /\ ItemsInv /\ NoHole
    BY DEF CollectorInv, CalmInv, TypeInv
  <2>2. r \in 1 .. asOf /\ age[r] < Retention /\ ~ TakenForKnown(r) /\ r \notin items
    BY DEF Missing
  <2>3. /\ r \in 1 .. published /\ age[r] \in Nat /\ w \in Nat /\ accountAge \in Nat
        /\ published \in Nat
    BY <2>1, <2>2, Bounds, BudgetsAssumption DEF UsageTypeOK, Record
  <2>4. ~ KnownTo(r, items)
    BY <2>2, <2>3, Bounds DEF KnownTo, TakenForKnown
  <2>5. Reached(r)
    BY <2>2 DEF Reached
  <2>6. cut
    BY <2>1, <2>3, <2>4, <2>5 DEF ItemsInv
  <2>7. PICK q \in items : age[q] >= w
    BY <2>3, <2>6 DEF WindowCovered
  <2>8. q \in 1 .. published /\ ~ (q < r) /\ q # r
    BY <2>1, <2>2, <2>3, <2>4, <2>5 DEF NoHole, ItemsInv
  <2>9. age[q] <= age[r] /\ age[q] \in Nat
    BY <2>1, <2>3, <2>8, Bounds DEF ClineInv, UsageTypeOK, Record
  <2> QED
    BY <2>3, <2>7, <2>9
<1> QED
  BY <1>1, CollectorInvariance, CalmInvariance, PTL

-----------------------------------------------------------------------------
(* OfficialUsage: a walk ends *)

\* A walk under way has a page left to ask for.
PagesLeft == walk.on => walk.budget \in 1 .. PagesExtend

\* Every page a walk asks for leaves it fewer, or ends it, the one that fails included;
\* nothing Cline publishes meanwhile gives it more.
WalkAdvances ==
    [][walk.on /\ walk'.on =>
           /\ walk'.budget <= walk.budget
           /\ ~ FailPage /\ (NextPage => walk'.budget < walk.budget)]_usageVars

LEMMA WalkStep ==
    ASSUME TypeInv, PagesLeft, [UsageNext]_usageVars
    PROVE  /\ PagesLeft'
           /\ walk.on /\ walk'.on =>
                /\ walk'.budget <= walk.budget
                /\ ~ FailPage /\ (NextPage => walk'.budget < walk.budget)
<1> DEFINE Goal == /\ PagesLeft'
                   /\ walk.on /\ walk'.on =>
                        /\ walk'.budget <= walk.budget
                        /\ ~ FailPage /\ (NextPage => walk'.budget < walk.budget)
<1>1. walk \in Walk /\ walk.on \in BOOLEAN /\ walk.budget \in Nat
  BY DEF TypeInv, Walk
<1>2. /\ PagesSteady \in Nat \ {0} /\ PagesExtend \in Nat \ {0} /\ PagesSteady <= PagesExtend
  BY BudgetsAssumption
<1>3. ~ Idle.on
  BY DEF Idle
<1>4. ASSUME walk' = Idle PROVE Goal
  BY <1>3, <1>4 DEF PagesLeft
<1>5. CASE FailPage
  <2>1. walk' = Idle
    BY <1>5 DEF FailPage, Merge
  <2> QED
    BY <1>4, <2>1
<1>6. CASE NextPage
  <2>1. \/ walk' = Idle
        \/ /\ walk.on /\ walk.budget # 1 /\ walk.budget > 0
           /\ walk' = [walk EXCEPT !.collected = walk.collected \cup FreshOf(Page(walk.next)),
                                   !.next = Min(Page(walk.next)) - 1, !.budget = @ - 1]
    BY <1>6 DEF NextPage, Merge, FreshOf
  <2>2. ASSUME walk.on, walk.budget # 1, walk.budget > 0,
               walk' = [walk EXCEPT !.collected = walk.collected \cup FreshOf(Page(walk.next)),
                                    !.next = Min(Page(walk.next)) - 1, !.budget = @ - 1]
        PROVE  Goal
    <3>1. walk'.budget = walk.budget - 1
      BY <1>1, <2>2 DEF Walk
    <3>2. walk.budget \in 1 .. PagesExtend
      BY <2>2 DEF PagesLeft
    <3>3. walk'.budget < walk.budget /\ walk'.budget \in 1 .. PagesExtend
      BY <1>1, <1>2, <2>2, <3>1, <3>2
    <3>4. ~ FailPage
      <4>1. CASE FailPage
        <5>1. walk' = Idle /\ Idle.budget = 0
          BY <4>1 DEF FailPage, Merge, Idle
        <5> QED
          BY <3>3, <5>1
      <4> QED
        BY <4>1
    <3> QED
      BY <1>1, <3>1, <3>3, <3>4 DEF PagesLeft
  <2> QED
    BY <1>4, <2>1, <2>2
<1>7. ASSUME walk'.on => walk.on, walk'.on => walk'.budget = walk.budget,
             ~ NextPage, ~ FailPage
      PROVE  Goal
  BY <1>1, <1>7 DEF PagesLeft
<1>8. CASE ~ NextPage /\ ~ FailPage
  <2>1. CASE Publish \/ UNCHANGED usageVars
    BY <1>7, <1>8, <2>1 DEF Publish, usageVars
  <2>2. CASE Tick
    <3>1. walk' = IF walk.on THEN [walk EXCEPT !.elapsed = Older(@, LongWait)] ELSE walk
      BY <2>2 DEF Tick
    <3>2. walk'.on = walk.on /\ walk'.budget = walk.budget
      BY <1>1, <3>1 DEF Walk
    <3> QED
      BY <1>7, <1>8, <3>2
  <2>3. CASE BeginWalk
    <3>1. ~ walk.on /\ walk'.budget \in {PagesSteady, PagesExtend}
      BY <2>3 DEF BeginWalk, Idle
    <3> QED
      BY <1>2, <3>1 DEF PagesLeft
  <2>4. CASE Restart
    <3>1. walk' = Idle
      BY <2>4 DEF Restart
    <3> QED
      BY <1>4, <3>1
  <2> QED
    BY <1>8, <2>1, <2>2, <2>3, <2>4 DEF UsageNext
<1> QED
  BY <1>5, <1>6, <1>8

\* A walk is never left with no page to ask for, and it ends: after PagesExtend pages at
\* most, however far back its watermark is, whatever is published under it and whichever
\* page fails.
THEOREM WalksEnd == UsageSpec => []PagesLeft /\ WalkAdvances
<1>1. UsageInit => PagesLeft
  BY DEF UsageInit, Idle, PagesLeft
<1>2. UsageSpec => []TypeInv
  <2>1. CollectorInv => TypeInv
    BY DEF CollectorInv
  <2> QED
    BY <2>1, CollectorInvariance, PTL
<1>3. TypeInv /\ PagesLeft /\ [UsageNext]_usageVars => PagesLeft'
  BY WalkStep
<1>4. TypeInv /\ PagesLeft /\ [UsageNext]_usageVars =>
          [walk.on /\ walk'.on =>
              /\ walk'.budget <= walk.budget
              /\ ~ FailPage /\ (NextPage => walk'.budget < walk.budget)]_usageVars
  BY WalkStep
<1> QED
  BY <1>1, <1>2, <1>3, <1>4, PTL DEF UsageSpec, WalkAdvances
=============================================================================
