-------------------------- MODULE FollowerLinkProofs --------------------------
(***************************************************************************)
(* The link implements the channel, for any number of events, restarts,    *)
(* lost, late and repeated requests; and the channel delivers in order and *)
(* at most once.                                                           *)
(***************************************************************************)
EXTENDS FollowerLink, FiniteSetTheorems, SequenceTheorems, WellFoundedInduction, TLAPS

Ascends(s) == \A i, j \in 1 .. Len(s) : i < j => s[i] < s[j]

\* X is what comes first in P.
Initial(X, P) == X \subseteq P /\ \A x \in X, e \in P : e < x => e \in X

-----------------------------------------------------------------------------
(* The invariant.                                                             *)

\* A queue: events in order, with the frozen batch or transfer at its head.
QueueOK(q, top) ==
  /\ q \in Queues /\ Ascends(q.events) /\ \A e \in Members(q.events) : e <= top
  /\ q.batched <= Len(q.events)
  /\ q.transferring => q.batched = 0 /\ q.events # <<>>

\* Its request carries the frozen batch or transfer.
Carries(q) ==
  /\ q.request.path = (IF q.transferring THEN "transfer" ELSE "events")
  /\ q.request.events = SubSeq(q.events, 1, IF q.transferring THEN 1 ELSE q.batched)

\* A request of the present epoch does; clear() fenced the others.
QueueFits ==
  /\ QueueOK(queue, emitted) /\ (queue.fenced => Delivering(queue))
  /\ Delivering(queue) /\ ~queue.fenced => Carries(queue)

\* a is an answer to the request r.
Answers(a, r) ==
  /\ a \in Replies
  /\ a.status = "ok" => r.path = "events"
  /\ a.status \in {"complete", "fragment"} => r.path = "transfer"
  /\ a.status = "fragment" => a.received < Fragments
  /\ a.status = "acceptance_failed" => a.event \in Members(r.events)

ReplyFits == reply # NoReply => Delivering(queue) /\ Answers(reply, queue.request)

\* What an answer acknowledges has been accepted.
ReplyTrue ==
  reply # NoReply /\ ~queue.fenced /\ ~severed =>
    /\ reply.status \in {"ok", "complete"} => Unaccepted(queue.request.events) = {}
    /\ reply.status = "acceptance_failed" =>
         \A e \in Unaccepted(queue.request.events) : e >= reply.event

\* A request as a follower makes one.
Proper(r) ==
  r \in EventRequests /\ Ascends(r.events) /\ (r.path = "transfer" => Len(r.events) = 1)

\* Requests on the wire are of events that were emitted and of sessions that began.
Wellformed(r) ==
  Proper(r) /\ (\A e \in Members(r.events) : e <= emitted) /\ r.session <= sessions

WireFits ==
  /\ \A r \in strays : r.path # "register" => Wellformed(r)
  /\ Delivering(queue) => Wellformed(queue.request)

\* What the leader would still take of a request comes first in what waits.
Honest(r) == Authentic(hub, r.session) => Initial(Unaccepted(r.events), Waiting)

WireHonest ==
  /\ \A r \in strays : r.path # "register" => Honest(r)
  /\ Delivering(queue) => Honest(queue.request)

\* Sessions and leaders are numbered in the order of their start.
NumbersFit ==
  /\ hub.session <= sessions /\ session <= sessions /\ welcome.session <= sessions
  /\ queue.envelope <= sessions /\ queue.waiter <= sessions
  /\ hub.generation # 0 => hub.session # 0
  /\ leaderToken <= hub.token
  /\ welcome.status = "ok" =>
       /\ leaderToken <= welcome.token /\ welcome.token <= hub.token /\ welcome.token # 0
       /\ Authentic(hub, welcome.session) => welcome.token = hub.token

\* A session the leader knows is one of a process that knows this leader.
SessionsFit ==
  leaderToken # 0 =>
    /\ \A s \in {session, queue.envelope, queue.waiter} \cup
                {r.session : r \in {x \in strays : x.path # "register"}} :
         Authentic(hub, s) => leaderToken = hub.token
    /\ Delivering(queue) /\ Authentic(hub, queue.request.session) =>
         leaderToken = hub.token /\ ~queue.fenced

\* A process that has not registered has nothing, and one that has is the present one.
NewcomerFits ==
  leaderToken = 0 =>
    /\ queue = NewQueue /\ session = 0 /\ reply = NoReply
    /\ welcome.status = "ok" => OnTheWire = {}

HubFits == \A e \in Event : hub.outcome[e] # "none" => e <= emitted

LinkInv ==
  /\ TypeOK /\ QueueFits /\ ReplyFits /\ ReplyTrue /\ WireFits /\ WireHonest
  /\ NumbersFit /\ SessionsFit /\ NewcomerFits /\ HubFits

-----------------------------------------------------------------------------
(* Ascending sequences of numbers.                                            *)

\* A nonempty set of numbers has a least one.
LEMMA LeastOf ==
  ASSUME NEW S \in SUBSET Nat, S # {}
  PROVE  \E n \in S : \A m \in S : n <= m
<1>1. PICK n \in S : \A m \in S : ~ (<<m, n>> \in OpToRel(<, Nat))
  BY NatLessThanWellFounded, WFMin, Zenon
<1>2. \A m \in S : ~ (m < n)
  BY <1>1 DEF OpToRel
<1> QED BY <1>2

\* What the members of a sequence are.
LEMMA MembersOf ==
  ASSUME NEW S, NEW s \in Seq(S)
  PROVE  /\ Members(s) \subseteq S
         /\ \A i \in 1 .. Len(s) : s[i] \in Members(s)
         /\ \A e \in Members(s) : \E i \in 1 .. Len(s) : s[i] = e
BY ElementOfSeq DEF Members

\* Two ascending sequences with the same members agree as far as both go.
LEMMA AgreeSoFar ==
  ASSUME NEW s \in Seq(Nat), NEW t \in Seq(Nat), Ascends(s), Ascends(t),
         Members(s) = Members(t)
  PROVE  \A i \in 1 .. Len(s) : i <= Len(t) => s[i] = t[i]
<1> SUFFICES ASSUME NEW i0 \in 1 .. Len(s), i0 <= Len(t), s[i0] # t[i0] PROVE FALSE
  OBVIOUS
<1> DEFINE D == {i \in 1 .. Len(s) : i <= Len(t) /\ s[i] # t[i]}
<1>1. PICK i \in D : \A j \in D : i <= j
  <2>1. D \subseteq Nat /\ i0 \in D
    OBVIOUS
  <2> QED BY <2>1, LeastOf
<1>2. i \in 1 .. Len(s) /\ i \in 1 .. Len(t) /\ s[i] # t[i] /\ s[i] \in Nat /\ t[i] \in Nat
  <2>1. Len(s) \in Nat /\ Len(t) \in Nat
    BY LenProperties
  <2>2. i \in 1 .. Len(s) /\ i \in 1 .. Len(t) /\ s[i] # t[i]
    BY <2>1
  <2> HIDE DEF D
  <2> QED BY <2>2, ElementOfSeq
<1>3. \A j \in 1 .. Len(s) : j < i => s[j] = t[j] /\ j \in 1 .. Len(t)
  <2> SUFFICES ASSUME NEW j \in 1 .. Len(s), j < i PROVE s[j] = t[j] /\ j \in 1 .. Len(t)
    OBVIOUS
  <2>1. Len(s) \in Nat /\ Len(t) \in Nat
    BY LenProperties
  <2>2. j \in 1 .. Len(t) /\ j <= Len(t) /\ ~ (i <= j)
    BY <1>2, <2>1
  <2>3. j \notin D
    BY <1>1, <2>2
  <2> QED BY <2>2, <2>3
<1> HIDE DEF D
<1>4. t[i] <= s[i]
  <2>1. PICK j \in 1 .. Len(t) : t[j] = s[i]
    BY <1>2, MembersOf
  <2>2. ~ j < i
    <3> SUFFICES ASSUME j < i PROVE FALSE
      OBVIOUS
    <3>1. j \in 1 .. Len(s)
      BY <1>2
    <3>2. s[j] < s[i]
      BY <1>2, <3>1 DEF Ascends
    <3> QED BY <1>2, <1>3, <2>1, <3>1, <3>2
  <2>3. CASE j = i
    BY <1>2, <2>1, <2>3
  <2>4. CASE i < j
    <3>1. t[i] < t[j]
      BY <1>2, <2>4 DEF Ascends
    <3>2. t[i] < s[i]
      BY <2>1, <3>1
    <3> QED BY <1>2, <3>2, SMTT(20)
  <2> QED BY <1>2, <2>2, <2>3, <2>4
<1>5. s[i] <= t[i]
  <2>1. PICK j \in 1 .. Len(s) : s[j] = t[i]
    BY <1>2, MembersOf
  <2>2. ~ j < i
    <3> SUFFICES ASSUME j < i PROVE FALSE
      OBVIOUS
    <3>1. j \in 1 .. Len(t) /\ t[j] = t[i]
      BY <1>3, <2>1
    <3>2. t[j] < t[i]
      BY <1>2, <3>1 DEF Ascends
    <3> QED BY <1>2, <3>1, <3>2
  <2>3. CASE j = i
    BY <1>2, <2>1, <2>3
  <2>4. CASE i < j
    <3>1. s[i] < s[j]
      BY <1>2, <2>4 DEF Ascends
    <3>2. s[i] < t[i]
      BY <2>1, <3>1
    <3> QED BY <1>2, <3>2, SMTT(20)
  <2> QED BY <1>2, <2>2, <2>3, <2>4
<1> QED BY <1>2, <1>4, <1>5

\* Neither of them is longer.
LEMMA NotLonger ==
  ASSUME NEW s \in Seq(Nat), NEW t \in Seq(Nat), Ascends(s), Ascends(t),
         Members(s) = Members(t)
  PROVE  Len(s) <= Len(t)
<1> SUFFICES ASSUME Len(t) < Len(s) PROVE FALSE
  BY LenProperties
<1> DEFINE i == Len(t) + 1
<1>1. i \in 1 .. Len(s) /\ Len(t) \in Nat
  BY LenProperties
<1>2. PICK j \in 1 .. Len(t) : t[j] = s[i]
  BY <1>1, MembersOf
<1>3. j \in 1 .. Len(s) /\ j < i /\ s[j] = t[j]
  BY <1>1, AgreeSoFar
<1>4. s[j] < s[i]
  BY <1>1, <1>3 DEF Ascends
<1>5. s[i] \in Nat
  BY <1>1, ElementOfSeq
<1> QED BY <1>2, <1>3, <1>4, <1>5

\* An ascending sequence is determined by its members.
LEMMA SameMembers ==
  ASSUME NEW s \in Seq(Nat), NEW t \in Seq(Nat), Ascends(s), Ascends(t),
         Members(s) = Members(t)
  PROVE  s = t
<1>1. Len(s) = Len(t)
  BY NotLonger, LenProperties
<1> QED BY <1>1, AgreeSoFar, SeqEqual, LenProperties

\* The rank of a number among S.
Rank(S, n) == Cardinality({m \in S : m <= n})

\* Ranks are numbers from 1 to the size of the set, in the order of the numbers.
LEMMA RanksAscend ==
  ASSUME NEW S \in SUBSET Nat, IsFiniteSet(S)
  PROVE  /\ \A n \in S : Rank(S, n) \in 1 .. Cardinality(S)
         /\ \A n, k \in S : n < k => Rank(S, n) < Rank(S, k)
<1>1. ASSUME NEW n \in S PROVE Rank(S, n) \in 1 .. Cardinality(S)
  <2> DEFINE T == {m \in S : m <= n}
  <2>1. IsFiniteSet(T) /\ Cardinality(T) <= Cardinality(S) /\ n \in T
    BY FS_Subset
  <2>2. Cardinality(T) \in Nat /\ Cardinality(S) \in Nat /\ Cardinality(T) # 0
    BY <2>1, FS_CardinalityType, FS_EmptySet
  <2> QED BY <2>1, <2>2 DEF Rank
<1>2. ASSUME NEW n \in S, NEW k \in S, n < k PROVE Rank(S, n) < Rank(S, k)
  <2> DEFINE T == {m \in S : m <= n}
             U == {m \in S : m <= k}
  <2>1. T \in SUBSET U /\ k \in U /\ k \notin T
    <3>1. \A m \in S : m <= n => m <= k
      BY <1>2
    <3>2. k <= k /\ ~ k <= n
      BY <1>2
    <3> QED BY <3>1, <3>2
  <2>2. IsFiniteSet(U) /\ IsFiniteSet(T)
    BY FS_Subset
  <2>3. Cardinality(T) <= Cardinality(U) /\ Cardinality(U) # Cardinality(T)
    BY <2>1, <2>2, FS_Subset
  <2>4. Cardinality(T) \in Nat /\ Cardinality(U) \in Nat
    BY <2>2, FS_CardinalityType
  <2> QED BY <2>3, <2>4 DEF Rank
<1> QED BY <1>1, <1>2

\* Each of them is the rank of one number.
LEMMA RanksCover ==
  ASSUME NEW S \in SUBSET Nat, IsFiniteSet(S), NEW j \in 1 .. Cardinality(S)
  PROVE  \E n \in S : Rank(S, n) = j /\ \A k \in S : Rank(S, k) = j => k = n
<1> DEFINE f == [n \in S |-> Rank(S, n)]
           T == 1 .. Cardinality(S)
<1>1. Cardinality(S) \in Nat /\ IsFiniteSet(T) /\ Cardinality(T) = Cardinality(S)
  BY FS_CardinalityType, FS_Interval
<1>2. f \in [S -> T]
  BY RanksAscend
<1>3. \A n, k \in S : f[n] = f[k] => n = k
  <2> SUFFICES ASSUME NEW n \in S, NEW k \in S, f[n] = f[k], n # k PROVE FALSE
    OBVIOUS
  <2>1. n < k \/ k < n
    OBVIOUS
  <2>2. Rank(S, n) \in Nat /\ Rank(S, k) \in Nat /\ Rank(S, n) = Rank(S, k)
    BY RanksAscend, <1>1
  <2> QED BY <2>1, <2>2, RanksAscend
<1>4. f \in Injection(S, T)
  BY <1>2, <1>3 DEF Injection, IsInjective
<1>5. f \in Surjection(S, T)
  BY <1>1, <1>4, FS_Injection
<1>6. PICK n \in S : f[n] = j
  BY <1>5 DEF Surjection
<1> QED BY <1>3, <1>6

\* Ascending(S) lists the members of S in ascending order.
LEMMA AscendingLists ==
  ASSUME NEW S \in SUBSET Nat, IsFiniteSet(S)
  PROVE  /\ Ascending(S) \in Seq(Nat) /\ Len(Ascending(S)) = Cardinality(S)
         /\ Members(Ascending(S)) = S /\ Ascends(Ascending(S))
<1> DEFINE a == Ascending(S)
           n == Cardinality(S)
<1>1. n \in Nat
  BY FS_CardinalityType
<1>2. ASSUME NEW j \in 1 .. n PROVE a[j] \in S /\ Rank(S, a[j]) = j
  <2>1. a[j] = CHOOSE k \in S : Rank(S, k) = j
    BY DEF Ascending, Rank
  <2>2. \E k \in S : Rank(S, k) = j
    BY RanksCover
  <2> QED BY <2>1, <2>2
<1>3. a \in [1 .. n -> Nat]
  BY <1>2 DEF Ascending
<1>4. a \in Seq(Nat) /\ Len(a) = n
  <2>1. a \in Seq(Nat)
    BY <1>1, <1>3, SeqDef
  <2> QED BY <1>1, <1>3, <2>1, LenProperties
<1> HIDE DEF a
<1>5. Members(a) = S
  <2>1. \A i \in 1 .. n : a[i] \in S
    BY <1>2
  <2>2. ASSUME NEW e \in S PROVE \E i \in 1 .. Len(a) : a[i] = e
    <3>1. Rank(S, e) \in 1 .. n
      BY RanksAscend
    <3>2. Rank(S, a[Rank(S, e)]) = Rank(S, e) /\ a[Rank(S, e)] \in S
      BY <1>2, <3>1
    <3>3. a[Rank(S, e)] = e
      BY <3>1, <3>2, RanksCover
    <3> QED BY <1>4, <3>1, <3>3
  <2> QED BY <1>4, <2>1, <2>2 DEF Members
<1>6. Ascends(a)
  <2> SUFFICES ASSUME NEW i \in 1 .. n, NEW j \in 1 .. n, i < j PROVE a[i] < a[j]
    BY <1>4 DEF Ascends
  <2>1. a[i] \in S /\ a[j] \in S /\ Rank(S, a[i]) = i /\ Rank(S, a[j]) = j
    BY <1>2
  <2>2. \A k, l \in S : k < l => Rank(S, k) < Rank(S, l)
    BY RanksAscend
  <2>3. a[j] < a[i] => j < i
    BY <2>1, <2>2, Zenon
  <2>4. i # j /\ ~ (j < i)
    BY <1>1
  <2>5. a[i] # a[j]
    BY <2>1, <2>4, Zenon
  <2>6. a[i] \in Nat /\ a[j] \in Nat
    BY <2>1
  <2> QED BY <2>3, <2>4, <2>5, <2>6
<1> QED BY <1>4, <1>5, <1>6 DEF a

\* The members of a sequence of numbers are finitely many.
LEMMA MembersFinite ==
  ASSUME NEW s \in Seq(Nat)
  PROVE  Members(s) \in SUBSET Nat /\ IsFiniteSet(Members(s))
<1> DEFINE D == 1 .. Len(s)
           f == [i \in D |-> s[i]]
<1>1. IsFiniteSet(D)
  BY FS_Interval, LenProperties
<1>2. f \in Surjection(D, Members(s))
  BY DEF Surjection, Members
<1>3. IsFiniteSet(Members(s))
  BY <1>1, <1>2, FS_Surjection
<1> QED BY <1>3, MembersOf

\* An ascending sequence is the ascending sequence of its members.
LEMMA AscendingIs ==
  ASSUME NEW s \in Seq(Nat), Ascends(s)
  PROVE  s = Ascending(Members(s))
<1>1. Members(s) \in SUBSET Nat /\ IsFiniteSet(Members(s))
  BY MembersFinite
<1> QED BY <1>1, AscendingLists, SameMembers, Zenon

\* Parts of an ascending sequence ascend, and split its members.
LEMMA PartAscends ==
  ASSUME NEW s \in Seq(Nat), Ascends(s), NEW m \in 1 .. Len(s) + 1, NEW n \in 0 .. Len(s)
  PROVE  /\ SubSeq(s, m, n) \in Seq(Nat) /\ Ascends(SubSeq(s, m, n))
         /\ Members(SubSeq(s, m, n)) = {s[i] : i \in m .. n}
<1> DEFINE t == SubSeq(s, m, n)
<1>1. Len(s) \in Nat /\ m \in Int /\ n \in Int /\ \A i \in m .. n : s[i] \in Nat
  BY LenProperties, ElementOfSeq
<1>2. /\ t \in Seq(Nat) /\ Len(t) = IF m <= n THEN n - m + 1 ELSE 0
      /\ \A i \in 1 .. n - m + 1 : t[i] = s[m + i - 1]
  BY <1>1, SubSeqProperties
<1> HIDE DEF t
<1>3. \A i \in 1 .. Len(t) : t[i] = s[m + i - 1] /\ m + i - 1 \in m .. n
  BY <1>1, <1>2
<1>4. Ascends(t)
  <2> SUFFICES ASSUME NEW i \in 1 .. Len(t), NEW j \in 1 .. Len(t), i < j PROVE t[i] < t[j]
    BY DEF Ascends
  <2> DEFINE x == m + i - 1
             y == m + j - 1
  <2>1. t[i] = s[x] /\ t[j] = s[y]
    BY <1>3
  <2>2. x \in 1 .. Len(s) /\ y \in 1 .. Len(s) /\ x < y
    BY <1>1, <1>2
  <2> HIDE DEF x, y
  <2> QED BY <2>1, <2>2 DEF Ascends
<1>5. Members(t) = {s[i] : i \in m .. n}
  <2>1. ASSUME NEW i \in m .. n PROVE s[i] \in Members(t)
    <3>1. i - m + 1 \in 1 .. Len(t) /\ m + (i - m + 1) - 1 = i
      BY <1>1, <1>2
    <3>2. PICK x \in 1 .. Len(t) : m + x - 1 = i
      BY <3>1
    <3>3. t[x] = s[i]
      BY <1>3, <3>2
    <3> QED BY <3>3 DEF Members
  <2>2. ASSUME NEW e \in Members(t) PROVE e \in {s[i] : i \in m .. n}
    <3>1. PICK x \in 1 .. Len(t) : t[x] = e
      BY <2>2 DEF Members
    <3> QED BY <1>3, <3>1
  <2> QED BY <2>1, <2>2
<1> QED BY <1>2, <1>4, <1>5 DEF t

\* The first k of P are those of X; the rest of P comes behind them, its least first.
SplitsAt(P, X, k) ==
  /\ k \in 0 .. Len(Ascending(P))
  /\ X = {Ascending(P)[i] : i \in 1 .. k}
  /\ SubSeq(Ascending(P), 1, k) = Ascending(X)
  /\ SubSeq(Ascending(P), k + 1, Len(Ascending(P))) = Ascending(P \ X)
  /\ \A f \in P \ X : (\A e \in P \ X : f <= e) =>
       k < Len(Ascending(P)) /\ Ascending(P)[k + 1] = f

LEMMA InitialFirst ==
  ASSUME NEW P \in SUBSET Nat, IsFiniteSet(P), NEW X, Initial(X, P)
  PROVE  \E k : SplitsAt(P, X, k)
<1> DEFINE a == Ascending(P)
           n == Len(a)
           D == {k \in 0 .. n : k = n \/ a[k + 1] \notin X}
<1>1. a \in Seq(Nat) /\ Members(a) = P /\ Ascends(a)
  BY AscendingLists
<1> HIDE DEF a
<1>2. n \in Nat /\ \A i \in 1 .. n : a[i] \in P /\ a[i] \in Nat
  BY <1>1, LenProperties, MembersOf, ElementOfSeq
<1>3. \A e \in P : \E i \in 1 .. n : a[i] = e
  BY <1>1, MembersOf
<1> HIDE DEF n
<1>4. PICK k \in D : \A j \in D : k <= j
  <2>1. D \subseteq Nat /\ n \in D
    BY <1>2
  <2> QED BY <2>1, LeastOf
<1>5. k \in 0 .. n /\ (k = n \/ a[k + 1] \notin X)
  BY <1>4
<1>6. ASSUME NEW i \in 1 .. k PROVE a[i] \in X
  <2>1. i - 1 \in 0 .. n /\ ~ (k <= i - 1) /\ i - 1 # n /\ (i - 1) + 1 = i
    BY <1>2, <1>5
  <2>2. i - 1 \notin D
    BY <1>4, <2>1
  <2> QED BY <2>1, <2>2
<1>7. ASSUME NEW i \in k + 1 .. n PROVE a[i] \in P \ X
  <2>1. i \in 1 .. n /\ k + 1 \in 1 .. n /\ k # n
    BY <1>2, <1>5
  <2>2. a[k + 1] \notin X /\ a[k + 1] \in P /\ a[i] \in P
    BY <1>2, <1>5, <2>1
  <2>3. CASE i = k + 1
    BY <2>2, <2>3
  <2>4. CASE i # k + 1
    <3>1. k + 1 < i
      BY <1>5, <2>1, <2>4
    <3>2. a[k + 1] < a[i]
      BY <1>1, <2>1, <3>1 DEF Ascends, n
    <3> QED BY <2>2, <3>2 DEF Initial
  <2> QED BY <2>3, <2>4
<1>8. k + 1 \in 1 .. Len(a) + 1 /\ k \in 0 .. Len(a) /\ n \in 0 .. Len(a) /\ 1 \in 1 .. Len(a) + 1
  BY <1>2, <1>5 DEF n
<1>9. \A i \in 1 .. n : i \in 1 .. k \/ i \in k + 1 .. n
  BY <1>2, <1>5
<1>10. SubSeq(a, 1, k) = Ascending(X) /\ X = {a[i] : i \in 1 .. k}
  <2>1. {a[i] : i \in 1 .. k} = X
    <3>1. ASSUME NEW e \in X PROVE \E i \in 1 .. k : a[i] = e
      <4>1. PICK i \in 1 .. n : a[i] = e
        BY <1>3 DEF Initial
      <4> QED BY <1>7, <1>9, <4>1
    <3> QED BY <1>6, <3>1
  <2>2. SubSeq(a, 1, k) \in Seq(Nat) /\ Ascends(SubSeq(a, 1, k)) /\ Members(SubSeq(a, 1, k)) = X
    BY <1>1, <1>8, <2>1, PartAscends
  <2> QED BY <2>1, <2>2, AscendingIs, Zenon
<1>11. SubSeq(a, k + 1, n) = Ascending(P \ X)
  <2>1. {a[i] : i \in k + 1 .. n} = P \ X
    <3>1. ASSUME NEW e \in P \ X PROVE \E i \in k + 1 .. n : a[i] = e
      <4>1. PICK i \in 1 .. n : a[i] = e
        BY <1>3
      <4> QED BY <1>6, <1>9, <4>1
    <3> QED BY <1>7, <3>1
  <2>2. /\ SubSeq(a, k + 1, n) \in Seq(Nat) /\ Ascends(SubSeq(a, k + 1, n))
        /\ Members(SubSeq(a, k + 1, n)) = P \ X
    BY <1>1, <1>8, <2>1, PartAscends
  <2> QED BY <2>2, AscendingIs, Zenon
<1>12. ASSUME NEW f \in P \ X, \A e \in P \ X : f <= e PROVE k < n /\ a[k + 1] = f
  <2>1. PICK i \in 1 .. n : a[i] = f
    BY <1>3
  <2>2. i \in k + 1 .. n
    BY <1>6, <1>9, <2>1
  <2>3. k + 1 \in k + 1 .. n /\ k < n /\ k + 1 \in 1 .. n
    BY <1>2, <1>5, <2>2
  <2>4. f <= a[k + 1]
    BY <1>7, <1>12, <2>3
  <2>5. CASE i = k + 1
    BY <2>1, <2>3, <2>5
  <2>6. CASE i # k + 1
    <3>1. k + 1 < i
      BY <1>5, <2>2, <2>6
    <3>2. a[k + 1] < f
      BY <1>1, <2>1, <2>3, <3>1 DEF Ascends, n
    <3> QED BY <1>2, <2>1, <2>3, <2>4, <3>2
  <2> QED BY <2>5, <2>6
<1> QED BY <1>5, <1>10, <1>11, <1>12 DEF a, n, SplitsAt

\* A number above all of a set is listed last.
LEMMA AscendingGrows ==
  ASSUME NEW P \in SUBSET Nat, IsFiniteSet(P), NEW n \in Nat, \A e \in P : e < n
  PROVE  Ascending(P \cup {n}) = Append(Ascending(P), n)
<1> DEFINE a == Ascending(P)
           b == Append(a, n)
<1>1. a \in Seq(Nat) /\ Members(a) = P /\ Ascends(a)
  BY AscendingLists
<1> HIDE DEF a
<1>2. /\ b \in Seq(Nat) /\ Len(b) = Len(a) + 1 /\ b[Len(a) + 1] = n
      /\ \A i \in 1 .. Len(a) : b[i] = a[i]
  BY <1>1, AppendProperties
<1>3. Len(a) \in Nat /\ \A i \in 1 .. Len(a) : a[i] \in P
  BY <1>1, LenProperties, MembersOf
<1> HIDE DEF b
<1>4. \A i \in 1 .. Len(b) : i \in 1 .. Len(a) \/ i = Len(a) + 1
  BY <1>2, <1>3
<1>5. Members(b) = P \cup {n}
  <2>1. \A i \in 1 .. Len(b) : b[i] \in P \cup {n}
    BY <1>2, <1>3, <1>4
  <2>2. ASSUME NEW e \in P PROVE \E i \in 1 .. Len(b) : b[i] = e
    <3>1. PICK i \in 1 .. Len(a) : a[i] = e
      BY <1>1, MembersOf
    <3>2. i \in 1 .. Len(b)
      BY <1>2, <1>3
    <3> QED BY <1>2, <3>1, <3>2
  <2>3. Len(a) + 1 \in 1 .. Len(b)
    BY <1>2, <1>3
  <2> QED BY <1>2, <2>1, <2>2, <2>3 DEF Members
<1>6. Ascends(b)
  <2> SUFFICES ASSUME NEW i \in 1 .. Len(b), NEW j \in 1 .. Len(b), i < j PROVE b[i] < b[j]
    BY DEF Ascends
  <2>1. i \in 1 .. Len(a)
    BY <1>2, <1>3
  <2>2. CASE j \in 1 .. Len(a)
    BY <1>1, <1>2, <2>1, <2>2 DEF Ascends
  <2>3. CASE j = Len(a) + 1
    BY <1>2, <1>3, <2>1, <2>3
  <2> QED BY <1>4, <2>2, <2>3
<1> QED BY <1>2, <1>5, <1>6, AscendingIs DEF a, b

\* Picking from an ascending sequence lists what was picked.
LEMMA PickedLists ==
  ASSUME NEW s \in Seq(Nat), Ascends(s), NEW S
  PROVE  Picked(s, S) = Ascending(Members(s) \cap S)
<1> DEFINE at == {i \in 1 .. Len(s) : s[i] \in S}
           a == Ascending(at)
           p == Picked(s, S)
           n == Cardinality(at)
<1>1. Len(s) \in Nat /\ IsFiniteSet(1 .. Len(s))
  BY LenProperties, FS_Interval
<1>2. IsFiniteSet(at) /\ at \in SUBSET Nat
  BY <1>1, FS_Subset
<1>3. a \in Seq(Nat) /\ Len(a) = n /\ Members(a) = at /\ Ascends(a)
  BY <1>2, AscendingLists
<1>4. n \in Nat
  BY <1>2, FS_CardinalityType
<1>5. p = [j \in 1 .. n |-> s[a[j]]]
  BY DEF Picked
<1>6. \A j \in 1 .. n : a[j] \in at
  BY <1>3, MembersOf
<1>7. \A e \in at : \E j \in 1 .. n : a[j] = e
  BY <1>3, MembersOf
<1>8. \A i \in at : i \in 1 .. Len(s) /\ s[i] \in S /\ s[i] \in Nat
  BY ElementOfSeq
<1> HIDE DEF p, n, a
<1>9. p \in Seq(Nat) /\ Len(p) = n
  <2>1. p \in [1 .. n -> Nat]
    BY <1>5, <1>6, <1>8
  <2>2. p \in Seq(Nat)
    BY <1>4, <2>1, SeqDef
  <2> QED BY <1>4, <2>1, <2>2, LenProperties
<1>10. Ascends(p)
  <2> SUFFICES ASSUME NEW i \in 1 .. n, NEW j \in 1 .. n, i < j PROVE p[i] < p[j]
    BY <1>9 DEF Ascends
  <2>1. a[i] < a[j] /\ a[i] \in 1 .. Len(s) /\ a[j] \in 1 .. Len(s)
    BY <1>3, <1>6, <1>8 DEF Ascends
  <2>2. p[i] = s[a[i]] /\ p[j] = s[a[j]]
    BY <1>5
  <2> QED BY <2>1, <2>2 DEF Ascends
<1>11. Members(p) = Members(s) \cap S
  <2>1. ASSUME NEW i \in 1 .. n PROVE p[i] \in Members(s) \cap S
    BY <1>5, <1>6, <1>8, MembersOf
  <2>2. ASSUME NEW e \in Members(s) \cap S PROVE \E i \in 1 .. n : p[i] = e
    <3>1. PICK k \in 1 .. Len(s) : s[k] = e
      BY MembersOf
    <3>2. k \in at
      BY <3>1
    <3>3. PICK j \in 1 .. n : a[j] = k
      BY <1>7, <3>2
    <3> QED BY <1>5, <3>1, <3>3
  <2> QED BY <1>9, <2>1, <2>2 DEF Members
<1> QED BY <1>9, <1>10, <1>11, AscendingIs DEF p

-----------------------------------------------------------------------------
(* What the leader does with a request.                                       *)

LEMMA EventsAreNumbers == Event \subseteq Nat /\ \A e \in Event : e # 0
BY ProtocolAssumption DEF Event

\* Of es, N is accepted and F fails, and what is before either has been accepted.
Takes(h, g, es, N, F) ==
  /\ N \subseteq Members(es) /\ \A e \in N : h.outcome[e] = "none"
  /\ \A e \in N, d \in Members(es) : d < e => d \in N \/ h.outcome[d] = "accepted"
  /\ \/ F = {}
     \/ \E f \in Members(es) : F = {f} /\ f \notin N /\ h.outcome[f] # "accepted"
          /\ \A d \in Members(es) : d < f => d \in N \/ h.outcome[d] = "accepted"
  /\ g \in Hubs /\ g.log = h.log \o Ascending(N)
  /\ g.outcome = [e \in Event |-> IF e \in N THEN "accepted"
                                  ELSE IF e \in F THEN "failed" ELSE h.outcome[e]]
  /\ g.token = h.token /\ g.generation = h.generation /\ g.session = h.session
  /\ g.superseded = h.superseded

\* An answer says ok or complete when all of es is accepted, and names an event whose
\* acceptance failed when those before it are.
Truthful(a, g, es) ==
  /\ a \in Replies
  /\ a.status \in {"ok", "complete"} => \A e \in Members(es) : g.outcome[e] = "accepted"
  /\ a.status = "acceptance_failed" =>
       a.event \in Members(es) /\ \A d \in Members(es) : d < a.event => g.outcome[d] = "accepted"
  /\ a.status = "fragment" => a.received < Fragments

\* The walk over a batch ends at its end or before the first event that does not pass.
LEMMA PassedIs ==
  ASSUME NEW h, NEW es \in Seq(Event), NEW bad
  PROVE  LET k == Passed(h, es, bad) IN
           /\ k \in 0 .. Len(es)
           /\ \A i \in 1 .. k : Passes(h, es[i], bad)
           /\ k < Len(es) => ~Passes(h, es[k + 1], bad)
<1> DEFINE n == Len(es)
           D == {k \in 0 .. n : k = n \/ ~Passes(h, es[k + 1], bad)}
           P(k) == /\ \A i \in 1 .. k : Passes(h, es[i], bad)
                   /\ k < n => ~Passes(h, es[k + 1], bad)
<1>1. n \in Nat
  BY LenProperties
<1>2. PICK k \in D : \A j \in D : k <= j
  <2>1. D \subseteq Nat /\ n \in D
    BY <1>1
  <2> QED BY <2>1, LeastOf
<1>3. ASSUME NEW i \in 1 .. k PROVE Passes(h, es[i], bad)
  <2>1. i - 1 \in 0 .. n /\ ~ (k <= i - 1) /\ i - 1 # n /\ (i - 1) + 1 = i
    BY <1>1, <1>2
  <2>2. i - 1 \notin D
    BY <1>2, <2>1
  <2> QED BY <2>1, <2>2
<1>4. k \in 0 .. n /\ P(k)
  BY <1>1, <1>2, <1>3
<1>5. \E j \in 0 .. n : P(j)
  BY <1>4
<1>6. Passed(h, es, bad) = CHOOSE j \in 0 .. n : P(j)
  BY DEF Passed
<1> HIDE DEF P, n
<1>7. Passed(h, es, bad) \in 0 .. n /\ P(Passed(h, es, bad))
  BY <1>5, <1>6
<1> QED BY <1>7 DEF P, n

\* acceptEvent over a batch.
LEMMA AcceptEventsTakes ==
  ASSUME NEW h \in Hubs, NEW es \in Seq(Event), Ascends(es), NEW bad
  PROVE  LET a == AcceptEvents(h, es, bad) IN
           /\ \E N, F : Takes(h, a.hub, es, N, F)
           /\ Truthful(a.reply, a.hub, es)
           /\ a.reply.status \in {"ok", "acceptance_failed"}
<1> DEFINE k     == Passed(h, es, bad)
           front == SubSeq(es, 1, k)
           none  == {e \in Event : h.outcome[e] = "none"}
           N     == Members(front) \cap none
           taken == {es[i] : i \in 1 .. k}
           a     == AcceptEvents(h, es, bad)
<1>1. /\ k \in 0 .. Len(es) /\ \A i \in 1 .. k : Passes(h, es[i], bad)
      /\ k < Len(es) => ~Passes(h, es[k + 1], bad)
  BY PassedIs
<1> HIDE DEF k
<1>2. es \in Seq(Nat) /\ Len(es) \in Nat
  BY EventsAreNumbers, SeqMonotonic, LenProperties
<1>3. front \in Seq(Nat) /\ Ascends(front) /\ Members(front) = taken
  <2>1. 1 \in 1 .. Len(es) + 1
    BY <1>2
  <2> QED BY <1>1, <1>2, <2>1, PartAscends
<1> HIDE DEF front
<1>4. \A i \in 1 .. Len(es) : es[i] \in Event /\ h.outcome[es[i]] \in Outcomes
  BY ElementOfSeq DEF Hubs
<1>5. \A e \in taken : e \in Event /\ e \in Members(es) /\ h.outcome[e] \in {"none", "accepted"}
  <2> SUFFICES ASSUME NEW i \in 1 .. k
               PROVE es[i] \in Event /\ es[i] \in Members(es) /\ h.outcome[es[i]] \in {"none", "accepted"}
    OBVIOUS
  <2>1. i \in 1 .. Len(es)
    BY <1>1, <1>2
  <2> QED BY <1>1, <1>4, <2>1, MembersOf DEF Passes
<1>6. Picked(front, none) = Ascending(N)
  BY <1>3, PickedLists
<1>7. N = {e \in taken : h.outcome[e] = "none"}
  BY <1>3, <1>5
<1> DEFINE new   == Picked(front, none)
           after == [h EXCEPT !.log = @ \o new,
                              !.outcome = [e \in Event |-> IF e \in taken THEN "accepted" ELSE @[e]]]
<1>8. a = IF k = Len(es) THEN Answered(after, Status("ok"))
          ELSE Answered([after EXCEPT !.outcome[es[k + 1]] = "failed"], AcceptanceFailed(es[k + 1]))
  BY DEF AcceptEvents, k, front
<1>9. new \in Seq(Event)
  <2>1. N \in SUBSET Nat /\ IsFiniteSet(N) /\ N \subseteq Event
    BY <1>3, <1>5, <1>7, EventsAreNumbers, MembersFinite, FS_Subset
  <2>2. Ascending(N) \in Seq(Nat) /\ Members(Ascending(N)) = N
    BY <2>1, AscendingLists
  <2>3. \A i \in 1 .. Len(Ascending(N)) : Ascending(N)[i] \in Event
    BY <2>1, <2>2, MembersOf
  <2>4. Ascending(N) \in [1 .. Len(Ascending(N)) -> Event] /\ Len(Ascending(N)) \in Nat
    BY <2>2, <2>3, LenProperties
  <2> QED BY <1>6, <2>4, SeqDef
<1> HIDE DEF new, a, N, none
<1>10. /\ after \in Hubs /\ after.log = h.log \o Ascending(N)
       /\ after.outcome = [e \in Event |-> IF e \in taken THEN "accepted" ELSE h.outcome[e]]
       /\ after.token = h.token /\ after.generation = h.generation
       /\ after.session = h.session /\ after.superseded = h.superseded
  <2>1. h.log \o new \in Seq(Event)
    BY <1>9, ConcatProperties DEF Hubs
  <2> DEFINE o == [e \in Event |-> IF e \in taken THEN "accepted" ELSE h.outcome[e]]
  <2>2. o \in [Event -> Outcomes]
    BY DEF Hubs, Outcomes
  <2>3. after = [h EXCEPT !.log = h.log \o new, !.outcome = o]
    OBVIOUS
  <2> HIDE DEF after, o
  <2> DEFINE b == [h EXCEPT !.log = h.log \o new]
  <2>4. b \in Hubs /\ b.log = h.log \o new
    BY <2>1 DEF Hubs
  <2>5. after = [b EXCEPT !.outcome = o]
    BY <2>3 DEF Hubs
  <2>6. /\ b.token = h.token /\ b.generation = h.generation
        /\ b.session = h.session /\ b.superseded = h.superseded
    BY DEF Hubs
  <2> HIDE DEF b
  <2>7. after \in Hubs /\ after.log = b.log /\ after.outcome = o
    BY <2>2, <2>4, <2>5 DEF Hubs
  <2>8. /\ after.token = b.token /\ after.generation = b.generation
        /\ after.session = b.session /\ after.superseded = b.superseded
    BY <2>4, <2>5 DEF Hubs
  <2> QED BY <1>6, <2>4, <2>6, <2>7, <2>8 DEF o, new
<1> HIDE DEF after
<1>11. \A d, e \in Members(es) : e \in taken /\ d < e => d \in taken
  <2> SUFFICES ASSUME NEW i \in 1 .. k, NEW d \in Members(es), d < es[i] PROVE d \in taken
    OBVIOUS
  <2>1. PICK j \in 1 .. Len(es) : es[j] = d
    BY MembersOf
  <2>2. i \in 1 .. Len(es) /\ es[i] \in Nat /\ es[j] \in Nat
    <3>1. i \in 1 .. Len(es)
      BY <1>1, <1>2
    <3> QED BY <1>2, <3>1, ElementOfSeq
  <2>3. ~ (i < j) /\ i # j
    BY <2>1, <2>2 DEF Ascends
  <2>4. j \in 1 .. k
    BY <1>1, <1>2, <2>2, <2>3
  <2> QED BY <2>1, <2>4
<1>12. \A e \in taken : e \in N \/ h.outcome[e] = "accepted"
  BY <1>5, <1>7
<1>13. N \subseteq Members(es) /\ \A e \in N : h.outcome[e] = "none" /\ e \in taken
  BY <1>5, <1>7
<1>14. \A e \in N, d \in Members(es) : d < e => d \in N \/ h.outcome[d] = "accepted"
  BY <1>11, <1>12, <1>13
<1>15. CASE k = Len(es)
  <2>1. a.hub = after /\ a.reply = Status("ok")
    BY <1>8, <1>15 DEF Answered
  <2>2. after.outcome = [e \in Event |-> IF e \in N THEN "accepted"
                                         ELSE IF e \in {} THEN "failed" ELSE h.outcome[e]]
    BY <1>10, <1>12, <1>13
  <2>3. Takes(h, a.hub, es, N, {})
    BY <1>10, <1>13, <1>14, <2>1, <2>2 DEF Takes
  <2>4. \A e \in Members(es) : e \in taken /\ e \in Event
    BY <1>4, <1>15 DEF Members
  <2>5. \A e \in Members(es) : a.hub.outcome[e] = "accepted"
    BY <1>10, <2>1, <2>4
  <2>6. a.reply.status = "ok" /\ a.reply \in Replies
    BY <2>1 DEF Status, Replies
  <2> QED BY <2>3, <2>5, <2>6 DEF Truthful, a
<1>16. CASE k # Len(es)
  <2> DEFINE f == es[k + 1]
             g == [after EXCEPT !.outcome[f] = "failed"]
  <2>1. a.hub = g /\ a.reply = AcceptanceFailed(f)
    BY <1>8, <1>16 DEF Answered
  <2>2. k + 1 \in 1 .. Len(es) /\ k < Len(es)
    BY <1>1, <1>2, <1>16
  <2>3. f \in Event /\ f \in Members(es) /\ f \in Nat /\ h.outcome[f] # "accepted"
    BY <1>1, <1>4, <2>2, EventsAreNumbers, MembersOf DEF Passes
  <2>4. f \notin taken
    <3> SUFFICES ASSUME NEW i \in 1 .. k, es[i] = f PROVE FALSE
      OBVIOUS
    <3>1. i \in 1 .. Len(es) /\ i < k + 1
      BY <1>1, <1>2
    <3>2. es[i] < f
      BY <2>2, <3>1 DEF Ascends
    <3> QED BY <2>3, <3>2
  <2>5. \A d \in Members(es) : d < f => d \in taken
    <3> SUFFICES ASSUME NEW d \in Members(es), d < f PROVE d \in taken
      OBVIOUS
    <3>1. PICK j \in 1 .. Len(es) : es[j] = d
      BY MembersOf
    <3>2. ~ (k + 1 < j) /\ k + 1 # j
      BY <1>2, <2>2, <2>3, <3>1, ElementOfSeq DEF Ascends
    <3>3. j \in 1 .. k
      BY <1>1, <1>2, <2>2, <3>2
    <3> QED BY <3>1, <3>3
  <2> HIDE DEF f
  <2>6. /\ g \in Hubs /\ g.log = after.log /\ g.token = after.token
        /\ g.generation = after.generation /\ g.session = after.session
        /\ g.superseded = after.superseded
        /\ g.outcome = [after.outcome EXCEPT ![f] = "failed"]
    BY <1>10, <2>3 DEF Hubs, Outcomes
  <2>7. g.outcome = [e \in Event |-> IF e \in N THEN "accepted"
                                     ELSE IF e \in {f} THEN "failed" ELSE h.outcome[e]]
    <3>1. \A e \in Event : e \in taken => e # f /\ (e \in N \/ h.outcome[e] = "accepted")
      BY <1>12, <2>4
    <3> QED BY <1>10, <1>13, <2>3, <2>6, <3>1
  <2> HIDE DEF g
  <2>8. f \notin N /\ \A d \in Members(es) : d < f => d \in N \/ h.outcome[d] = "accepted"
    BY <1>12, <1>13, <2>4, <2>5
  <2>9. Takes(h, a.hub, es, N, {f})
    BY <1>10, <1>13, <1>14, <2>1, <2>3, <2>6, <2>7, <2>8 DEF Takes
  <2>10. \A d \in Members(es) : d < f => a.hub.outcome[d] = "accepted"
    BY <1>5, <1>10, <2>1, <2>4, <2>5, <2>6
  <2>11. a.reply.status = "acceptance_failed" /\ a.reply.event = f /\ a.reply \in Replies
    BY <2>1, <2>3 DEF AcceptanceFailed, Replies
  <2> QED BY <2>3, <2>9, <2>10, <2>11 DEF Truthful, a
<1> QED BY <1>15, <1>16

\* Nothing of a batch is accepted or fails when it is not looked at.
LEMMA TakesNothing ==
  ASSUME NEW h \in Hubs, NEW g \in Hubs, NEW es, g.log = h.log, g.outcome = h.outcome,
         g.token = h.token, g.generation = h.generation, g.session = h.session,
         g.superseded = h.superseded
  PROVE  Takes(h, g, es, {}, {})
<1>1. Ascending({}) = <<>>
  <2>1. IsFiniteSet({}) /\ Cardinality({}) = 0
    BY FS_EmptySet
  <2>2. Ascending({}) \in Seq(Nat) /\ Len(Ascending({})) = 0
    BY <2>1, AscendingLists
  <2> QED BY <2>2, EmptySeq
<1>2. g.log = h.log \o Ascending({})
  <2>1. h.log \in Seq(Event)
    BY DEF Hubs
  <2> QED BY <1>1, <2>1, ConcatEmptySeq
<1>3. g.outcome = [e \in Event |-> IF e \in {} THEN "accepted"
                                   ELSE IF e \in {} THEN "failed" ELSE h.outcome[e]]
  BY DEF Hubs
<1> QED BY <1>2, <1>3 DEF Takes

\* Discarding what was staged changes nothing else.
LEMMA DiscardKeeps ==
  ASSUME NEW h \in Hubs
  PROVE  \A g \in {Discard(h), Staged(h)} :
           /\ g \in Hubs /\ g.log = h.log /\ g.outcome = h.outcome
           /\ g.token = h.token /\ g.generation = h.generation /\ g.session = h.session
           /\ g.superseded = h.superseded
           /\ g.staging \in {h.staging, NoStaging}
<1> DEFINE g == [h EXCEPT !.staging = NoStaging]
<1>1. NoStaging \in {NoStaging} \cup
                   [generation : Nat \ {0}, event : Event, received : 1 .. Fragments - 1]
  OBVIOUS
<1> HIDE DEF NoStaging
<1>2. g \in Hubs /\ g.staging = NoStaging
  BY <1>1 DEF Hubs
<1>3. /\ g.log = h.log /\ g.outcome = h.outcome
      /\ g.token = h.token /\ g.generation = h.generation /\ g.session = h.session
      /\ g.superseded = h.superseded
  BY DEF Hubs
<1> HIDE DEF g
<1>4. Discard(h) = g /\ Staged(h) \in {h, g}
  BY DEF Discard, Staged, g
<1> QED BY <1>2, <1>3, <1>4

\* The next fragment is staged, or was the last and the event is dispatched.
LEMMA NextFragmentTakes ==
  ASSUME NEW h \in Hubs, h.generation # 0, NEW e \in Event, NEW n \in 1 .. Fragments, NEW bad
  PROVE  LET a == NextFragment(h, e, n, bad) IN
           /\ \E N, F : Takes(h, a.hub, <<e>>, N, F)
           /\ Truthful(a.reply, a.hub, <<e>>)
           /\ a.reply.status # "ok"
<1> DEFINE a == NextFragment(h, e, n, bad)
<1>1. <<e>> \in Seq(Event) /\ Ascends(<<e>>) /\ Members(<<e>>) = {e}
  BY DEF Ascends, Members
<1>2. CASE n < Fragments
  <2> DEFINE s == [generation |-> h.generation, event |-> e, received |-> n]
             g == [h EXCEPT !.staging = s]
  <2>1. s \in [generation : Nat \ {0}, event : Event, received : 1 .. Fragments - 1]
    BY <1>2, ProtocolAssumption DEF Hubs
  <2>2. a = Answered(g, Received(n))
    BY <1>2 DEF NextFragment
  <2> HIDE DEF s, a
  <2>3. g \in Hubs
    BY <2>1 DEF Hubs
  <2>4. /\ g.log = h.log /\ g.outcome = h.outcome
        /\ g.token = h.token /\ g.generation = h.generation /\ g.session = h.session
        /\ g.superseded = h.superseded
    BY DEF Hubs
  <2> HIDE DEF g
  <2>5. Takes(h, g, <<e>>, {}, {})
    BY <2>3, <2>4, TakesNothing
  <2>6. a.hub = g /\ a.reply = Received(n)
    BY <2>2 DEF Answered
  <2>7. a.reply.status = "fragment" /\ a.reply.received = n /\ a.reply \in Replies
    BY <2>6 DEF Received, Replies
  <2> QED BY <1>2, <2>5, <2>6, <2>7 DEF Truthful, a
<1>3. CASE ~ (n < Fragments)
  <2> DEFINE d == AcceptEvents(Discard(h), <<e>>, bad)
  <2>1. a = Answered(d.hub, IF d.reply = Status("ok") THEN Status("complete") ELSE d.reply)
    BY <1>3 DEF NextFragment
  <2>2. /\ Discard(h) \in Hubs /\ Discard(h).log = h.log /\ Discard(h).outcome = h.outcome
        /\ Discard(h).token = h.token /\ Discard(h).generation = h.generation
        /\ Discard(h).session = h.session /\ Discard(h).superseded = h.superseded
    BY DiscardKeeps
  <2>3. /\ \E N, F : Takes(Discard(h), d.hub, <<e>>, N, F)
        /\ Truthful(d.reply, d.hub, <<e>>)
        /\ d.reply.status \in {"ok", "acceptance_failed"}
    BY <1>1, <2>2, AcceptEventsTakes
  <2> HIDE DEF d, a
  <2>4. \A N, F : Takes(Discard(h), d.hub, <<e>>, N, F) => Takes(h, d.hub, <<e>>, N, F)
    BY <2>2 DEF Takes
  <2>5. a.hub = d.hub /\ a.reply = IF d.reply = Status("ok") THEN Status("complete") ELSE d.reply
    BY <2>1 DEF Answered
  <2>6. d.reply.status = "ok" => d.reply = Status("ok")
    BY <2>3 DEF Truthful, Replies, Status, AcceptanceFailed, Received
  <2>7. CASE d.reply = Status("ok")
    <3>1. a.reply.status = "complete" /\ a.reply \in Replies
      BY <2>5, <2>7 DEF Status, Replies
    <3>2. \A x \in Members(<<e>>) : d.hub.outcome[x] = "accepted"
      BY <2>3, <2>7 DEF Truthful, Status
    <3> QED BY <2>3, <2>4, <2>5, <3>1, <3>2 DEF Truthful, a
  <2>8. CASE d.reply # Status("ok")
    <3>1. a.reply = d.reply /\ d.reply.status = "acceptance_failed"
      BY <2>3, <2>5, <2>6, <2>8
    <3> QED BY <2>3, <2>4, <2>5, <3>1 DEF a
  <2> QED BY <2>7, <2>8
<1> QED BY <1>2, <1>3

\* EventTransferReceiver.accept.
LEMMA AcceptFragmentTakes ==
  ASSUME NEW h \in Hubs, h.generation # 0, NEW e \in Event, NEW i \in 0 .. Fragments - 1,
         NEW bad, NEW full
  PROVE  LET a == AcceptFragment(h, e, i, bad, full) IN
           /\ \E N, F : Takes(h, a.hub, <<e>>, N, F)
           /\ Truthful(a.reply, a.hub, <<e>>)
           /\ a.reply.status # "ok"
<1> DEFINE a   == AcceptFragment(h, e, i, bad, full)
           cur == Staged(h)
           s   == cur.staging
           Good(x) == /\ \E N, F : Takes(h, x.hub, <<e>>, N, F)
                      /\ Truthful(x.reply, x.hub, <<e>>)
                      /\ x.reply.status # "ok"
<1>1. Members(<<e>>) = {e} /\ e \in Nat
  BY EventsAreNumbers DEF Members
<1>2. /\ cur \in Hubs /\ cur.log = h.log /\ cur.outcome = h.outcome
      /\ cur.token = h.token /\ cur.generation = h.generation /\ cur.session = h.session
      /\ cur.superseded = h.superseded
  BY DiscardKeeps
<1> HIDE DEF cur
<1>3. ASSUME NEW g \in {h, Discard(h), cur, Discard(cur)} PROVE Takes(h, g, <<e>>, {}, {})
  <2>1. /\ g \in Hubs /\ g.log = h.log /\ g.outcome = h.outcome
        /\ g.token = h.token /\ g.generation = h.generation /\ g.session = h.session
        /\ g.superseded = h.superseded
    BY <1>2, DiscardKeeps
  <2> QED BY <2>1, TakesNothing
<1>4. ASSUME NEW g \in {h, Discard(h), cur, Discard(cur)}, NEW r \in {"busy", "restart"}
      PROVE  Good(Answered(g, Status(r)))
  <2>1. Status(r).status = r /\ Status(r) \in Replies
    BY DEF Status, Replies
  <2> QED BY <1>3, <2>1 DEF Answered, Truthful
<1>5. ASSUME NEW n \in 1 .. Fragments PROVE Good(NextFragment(cur, e, n, bad))
  <2> DEFINE x == NextFragment(cur, e, n, bad)
  <2>1. /\ \E N, F : Takes(cur, x.hub, <<e>>, N, F)
        /\ Truthful(x.reply, x.hub, <<e>>)
        /\ x.reply.status # "ok"
    BY <1>2, NextFragmentTakes
  <2> HIDE DEF x
  <2>2. \A N, F : Takes(cur, x.hub, <<e>>, N, F) => Takes(h, x.hub, <<e>>, N, F)
    BY <1>2 DEF Takes
  <2> QED BY <2>1, <2>2 DEF x
<1>6. s = NoStaging \/ (s.event \in Event /\ s.received \in 1 .. Fragments - 1)
  BY <1>2 DEF Hubs
<1>7. CASE h.outcome[e] # "none"
  <2> DEFINE g == IF h.staging.event = e THEN Discard(h) ELSE h
             r == IF h.outcome[e] = "accepted" THEN Status("complete") ELSE AcceptanceFailed(e)
  <2>1. a = Answered(g, r)
    BY <1>7 DEF AcceptFragment
  <2>2. Takes(h, g, <<e>>, {}, {}) /\ g.outcome = h.outcome
    <3>1. g \in {h, Discard(h)}
      OBVIOUS
    <3> QED BY <1>3, <3>1, DiscardKeeps
  <2>3. r \in Replies /\ r.status \in {"complete", "acceptance_failed"}
    BY DEF Replies, Status, AcceptanceFailed
  <2>4. /\ r.status = "complete" => h.outcome[e] = "accepted"
        /\ r.status = "acceptance_failed" => r.event = e
    BY DEF Status, AcceptanceFailed
  <2> HIDE DEF g, r, a
  <2>5. a.hub = g /\ a.reply = r
    BY <2>1 DEF Answered
  <2> QED BY <1>1, <2>2, <2>3, <2>4, <2>5 DEF Truthful, a
<1>8. CASE h.outcome[e] = "none"
  <2>1. a = CASE s.event \notin {0, e} -> Answered(cur, Status("busy"))
              [] s.event = 0 /\ i # 0   -> Answered(cur, Status("restart"))
              [] s.event = 0 /\ i = 0   -> IF full THEN Answered(cur, Status("busy"))
                                          ELSE NextFragment(cur, e, 1, bad)
              [] s.event = e           ->
                   CASE i < s.received -> Answered(cur, Received(s.received))
                     [] i = s.received -> NextFragment(cur, e, i + 1, bad)
                     [] i > s.received -> Answered(Discard(cur), Status("restart"))
    BY <1>8 DEF AcceptFragment, cur
  <2>2. e # 0 /\ 1 \in 1 .. Fragments
    BY EventsAreNumbers, ProtocolAssumption
  <2> HIDE DEF a, Good, s
  <2>3. CASE s.event \notin {0, e}
    <3>1. a = Answered(cur, Status("busy"))
      BY <2>1, <2>2, <2>3
    <3> QED BY <1>4, <3>1 DEF a, Good
  <2>4. CASE s.event = 0 /\ i # 0
    <3>1. a = Answered(cur, Status("restart"))
      BY <2>1, <2>2, <2>4
    <3> QED BY <1>4, <3>1 DEF a, Good
  <2>5. CASE s.event = 0 /\ i = 0
    <3>1. a = Answered(cur, Status("busy")) \/ a = NextFragment(cur, e, 1, bad)
      BY <2>1, <2>2, <2>5
    <3> QED BY <1>4, <1>5, <2>2, <3>1 DEF a, Good
  <2>6. CASE s.event = e
    <3>1. s.received \in 1 .. Fragments - 1 /\ s.received \in Int
      BY <1>6, <2>2, <2>6 DEF NoStaging
    <3>2. a = CASE i < s.received -> Answered(cur, Received(s.received))
                [] i = s.received -> NextFragment(cur, e, i + 1, bad)
                [] i > s.received -> Answered(Discard(cur), Status("restart"))
      BY <2>1, <2>2, <2>6
    <3>3. CASE i < s.received
      <4> DEFINE r == Received(s.received)
      <4>1. a = Answered(cur, r)
        BY <3>1, <3>2, <3>3
      <4>2. /\ r.status = "fragment" /\ r.received < Fragments /\ r \in Replies
        BY <3>1, ProtocolAssumption DEF Received, Replies
      <4> HIDE DEF r
      <4>3. a.hub = cur /\ a.reply = r
        BY <4>1 DEF Answered
      <4>4. Takes(h, cur, <<e>>, {}, {})
        BY <1>3
      <4> QED BY <4>2, <4>3, <4>4 DEF Truthful, a
    <3>4. CASE i = s.received
      <4>1. i + 1 \in 1 .. Fragments /\ a = NextFragment(cur, e, i + 1, bad)
        BY <3>1, <3>2, <3>4, ProtocolAssumption
      <4> QED BY <1>5, <4>1 DEF a, Good
    <3>5. CASE i > s.received
      <4>1. a = Answered(Discard(cur), Status("restart"))
        BY <3>1, <3>2, <3>5
      <4> QED BY <1>4, <4>1 DEF a, Good
    <3> QED BY <3>1, <3>3, <3>4, <3>5
  <2> QED BY <2>3, <2>4, <2>5, <2>6
<1> QED BY <1>7, <1>8

\* /events and /events/transfer.
LEMMA HandleTakes ==
  ASSUME NEW h \in Hubs, NEW r, Proper(r), NEW bad, NEW full
  PROVE  LET a == Handle(h, r, bad, full) IN
           /\ \E N, F : Takes(h, a.hub, r.events, N, F)
           /\ Truthful(a.reply, a.hub, r.events)
           /\ a.reply.status = "ok" => r.path = "events"
           /\ a.reply.status \in {"complete", "fragment"} => r.path = "transfer"
           /\ ~Authentic(h, r.session) => a.hub = h
<1> DEFINE a == Handle(h, r, bad, full)
<1>1. /\ r.path \in {"events", "transfer"} /\ r.events \in Seq(Event)
      /\ r.index \in 0 .. Fragments - 1
  BY DEF Proper, EventRequests
<1>2. CASE ~Authentic(h, r.session)
  <2>1. a = Answered(h, Status("gone"))
    BY <1>2 DEF Handle
  <2>2. Takes(h, h, r.events, {}, {})
    BY TakesNothing
  <2>3. Status("gone").status = "gone" /\ Status("gone") \in Replies
    BY DEF Status, Replies
  <2> QED BY <2>1, <2>2, <2>3 DEF Answered, Truthful
<1>3. CASE Authentic(h, r.session) /\ r.path = "events"
  <2>1. a = AcceptEvents(h, r.events, bad)
    BY <1>3 DEF Handle
  <2> HIDE DEF a
  <2>2. /\ \E N, F : Takes(h, a.hub, r.events, N, F)
        /\ Truthful(a.reply, a.hub, r.events)
        /\ a.reply.status \in {"ok", "acceptance_failed"}
    BY <1>1, <2>1, AcceptEventsTakes DEF Proper
  <2> QED BY <1>3, <2>2 DEF a
<1>4. CASE Authentic(h, r.session) /\ r.path = "transfer"
  <2> DEFINE e == r.events[1]
  <2>1. a = AcceptFragment(h, e, r.index, bad, full)
    BY <1>4 DEF Handle
  <2>2. e \in Event /\ r.events = <<e>>
    BY <1>1, <1>4 DEF Proper
  <2> HIDE DEF a, e
  <2>3. /\ \E N, F : Takes(h, a.hub, <<e>>, N, F)
        /\ Truthful(a.reply, a.hub, <<e>>)
        /\ a.reply.status # "ok"
    BY <1>1, <1>4, <2>1, <2>2, AcceptFragmentTakes DEF Authentic
  <2> QED BY <1>4, <2>2, <2>3 DEF a
<1> QED BY <1>1, <1>2, <1>3, <1>4

-----------------------------------------------------------------------------
(* What the follower's queue does.                                            *)

\* r has the events of q; it is idle or has a request in one of the sessions ss.
Resumes(r, top, ss) ==
  /\ QueueOK(r, top) /\ ~r.fenced
  /\ Delivering(r) => Carries(r) /\ r.request.session \in ss
  /\ r.envelope \in ss /\ r.waiter \in ss

\* What a queue carries is a proper request, and of its first events.
LEMMA CarriesFirst ==
  ASSUME NEW q, NEW top, QueueOK(q, top), Carries(q), q.request \in EventRequests
  PROVE  /\ Proper(q.request)
         /\ Initial(Members(q.request.events), Members(q.events))
<1> DEFINE n  == IF q.transferring THEN 1 ELSE q.batched
           es == q.request.events
<1>1. q.events \in Seq(Nat) /\ Len(q.events) \in Nat /\ Ascends(q.events)
  BY EventsAreNumbers, SeqMonotonic, LenProperties DEF QueueOK, Queues
<1>2. n \in 0 .. Len(q.events)
  <2>1. q.batched \in Nat /\ q.batched <= Len(q.events)
    BY QueueAssumption DEF QueueOK, Queues
  <2>2. q.transferring => Len(q.events) # 0
    BY <1>1, EmptySeq DEF QueueOK
  <2> QED BY <1>1, <2>1, <2>2
<1>3. es = SubSeq(q.events, 1, n)
  BY DEF Carries
<1>4. Ascends(es) /\ Members(es) = {q.events[i] : i \in 1 .. n}
  <2>1. 1 \in 1 .. Len(q.events) + 1
    BY <1>1
  <2> QED BY <1>1, <1>2, <1>3, <2>1, PartAscends
<1>5. q.request.path = "transfer" => Len(es) = 1
  <2>1. \A i \in 1 .. n : q.events[i] \in Nat
    BY <1>1, <1>2, ElementOfSeq
  <2>2. Len(es) = IF 1 <= n THEN n - 1 + 1 ELSE 0
    BY <1>2, <1>3, <2>1, SubSeqProperties
  <2> QED BY <2>2 DEF Carries
<1> HIDE DEF n
<1>6. ASSUME NEW i \in 1 .. n, NEW e \in Members(q.events), e < q.events[i]
      PROVE  e \in Members(es)
  <2>1. PICK j \in 1 .. Len(q.events) : q.events[j] = e
    BY <1>1, MembersOf
  <2>2. i \in 1 .. Len(q.events) /\ q.events[i] \in Nat /\ q.events[j] \in Nat
    BY <1>1, <1>2, ElementOfSeq
  <2>3. ~ (i < j) /\ i # j
    BY <1>1, <1>6, <2>1, <2>2 DEF Ascends
  <2>4. j \in 1 .. n
    BY <1>2, <2>2, <2>3
  <2> QED BY <1>4, <2>1, <2>4
<1>7. \A i \in 1 .. n : q.events[i] \in Members(q.events)
  BY <1>1, <1>2, MembersOf
<1>8. Initial(Members(es), Members(q.events))
  BY <1>4, <1>6, <1>7 DEF Initial
<1> QED BY <1>4, <1>5, <1>8 DEF Proper

\* The largest batch that fits.
LEMMA FittingIs ==
  ASSUME NEW q, q.events \in Seq(Event)
  PROVE  Fitting(q) \in 0 .. Len(q.events) /\ Fitting(q) <= BatchMax
<1> DEFINE n    == Len(q.events)
           D    == {k \in 0 .. n : k = n \/ k = BatchMax \/ q.events[k + 1] \in Large}
           P(k) == /\ k <= BatchMax /\ \A i \in 1 .. k : q.events[i] \notin Large
                   /\ k < n => k = BatchMax \/ q.events[k + 1] \in Large
<1>1. n \in Nat /\ BatchMax \in Nat
  BY LenProperties, QueueAssumption
<1>2. PICK k \in D : \A j \in D : k <= j
  <2>1. D \subseteq Nat /\ n \in D
    BY <1>1
  <2> QED BY <2>1, LeastOf
<1>3. k <= BatchMax
  <2>1. BatchMax <= n => BatchMax \in D
    BY <1>1
  <2>2. BatchMax \in D => k <= BatchMax
    BY <1>2
  <2>3. k \in 0 .. n
    BY <1>2
  <2> HIDE DEF D
  <2> QED BY <1>1, <2>1, <2>2, <2>3
<1>4. ASSUME NEW i \in 1 .. k PROVE q.events[i] \notin Large
  <2>1. i - 1 \in 0 .. n /\ ~ (k <= i - 1) /\ (i - 1) + 1 = i
    BY <1>1, <1>2
  <2>2. i - 1 \notin D
    BY <1>2, <2>1
  <2> QED BY <2>1, <2>2
<1>5. k \in 0 .. n /\ P(k)
  BY <1>1, <1>2, <1>3, <1>4
<1>6. Fitting(q) = CHOOSE j \in 0 .. n : P(j)
  BY DEF Fitting
<1> HIDE DEF P, n
<1>7. Fitting(q) \in 0 .. n /\ P(Fitting(q))
  BY <1>5, <1>6
<1> QED BY <1>7 DEF P, n

\* A batch or a transfer is frozen for what comes first.
LEMMA FormedFits ==
  ASSUME NEW q, NEW top, QueueOK(q, top), q.events # <<>>
  PROVE  LET r == Formed(q) IN
           /\ QueueOK(r, top) /\ r.events = q.events /\ (r.transferring \/ r.batched > 0)
           /\ r.envelope = q.envelope /\ r.waiter = q.waiter /\ r.fenced = q.fenced
<1>1. q.batched \in Nat /\ q.events \in Seq(Event)
  BY QueueAssumption DEF QueueOK, Queues
<1>2. CASE q.batched > 0 \/ q.transferring
  BY <1>2 DEF Formed
<1>3. CASE ~ (q.batched > 0 \/ q.transferring)
  <2> DEFINE n == Fitting(q)
             t == (n = 0)
             r == [q EXCEPT !.batched = n, !.transferring = t, !.index = 0]
  <2>1. n \in 0 .. Len(q.events) /\ n \in 0 .. BatchMax
    BY <1>1, FittingIs, LenProperties, QueueAssumption
  <2>2. 0 \in 0 .. Fragments - 1 /\ t \in BOOLEAN /\ (t \/ n > 0) /\ (t => n = 0)
    BY <2>1, ProtocolAssumption
  <2>3. Formed(q) = r
    BY <1>3 DEF Formed
  <2> HIDE DEF n, t
  <2>4. /\ r \in Queues /\ r.events = q.events /\ r.batched = n /\ r.transferring = t
        /\ r.envelope = q.envelope /\ r.waiter = q.waiter /\ r.fenced = q.fenced
    BY <2>1, <2>2 DEF QueueOK, Queues
  <2> HIDE DEF r
  <2> QED BY <2>1, <2>2, <2>3, <2>4 DEF QueueOK
<1> QED BY <1>2, <1>3

\* The next request, if there is one to send.
LEMMA TurnResumes ==
  ASSUME NEW q, NEW top, QueueOK(q, top), ~q.fenced, NEW s, NEW ss \in SUBSET Nat,
         {0, q.envelope, q.waiter, s} \subseteq ss
  PROVE  Resumes(Turn(q, s), top, ss) /\ Turn(q, s).events = q.events
<1>1. CASE q.events = <<>> \/ Parked(q)
  <2> DEFINE r == [q EXCEPT !.request = NoRequest, !.envelope = 0, !.fenced = FALSE]
  <2>1. Turn(q, s) = r
    BY <1>1 DEF Turn, Idle
  <2>2. NoRequest \in EventRequests \cup {NoRequest}
    OBVIOUS
  <2> HIDE DEF NoRequest
  <2>3. /\ r \in Queues /\ r.events = q.events /\ r.batched = q.batched
        /\ r.transferring = q.transferring /\ r.request = NoRequest
        /\ r.envelope = 0 /\ r.waiter = q.waiter /\ r.fenced = FALSE
    BY <2>2 DEF QueueOK, Queues
  <2> HIDE DEF r
  <2> QED BY <2>1, <2>3 DEF QueueOK, Resumes, Delivering
<1>2. CASE ~ (q.events = <<>> \/ Parked(q))
  <2> DEFINE f == Formed(q)
             n == IF f.transferring THEN 1 ELSE f.batched
             req == IF f.transferring
                    THEN [path |-> "transfer", session |-> s, events |-> <<f.events[1]>>,
                          index |-> f.index]
                    ELSE [path |-> "events", session |-> f.envelope,
                          events |-> SubSeq(f.events, 1, f.batched), index |-> 0]
             r == [f EXCEPT !.request = req]
  <2>1. Turn(q, s) = r
    BY <1>2 DEF Turn, Post
  <2>2. /\ QueueOK(f, top) /\ f.events = q.events /\ (f.transferring \/ f.batched > 0)
        /\ f.envelope = q.envelope /\ f.waiter = q.waiter /\ f.fenced = q.fenced
    BY <1>2, FormedFits
  <2> HIDE DEF f
  <2>3. /\ f.events \in Seq(Event) /\ Len(f.events) \in Nat \ {0}
        /\ f.batched \in 0 .. Len(f.events) /\ f.index \in 0 .. Fragments - 1
        /\ f.transferring \in BOOLEAN /\ f.envelope \in Nat
    BY <1>2, <2>2, EmptySeq, QueueAssumption DEF QueueOK, Queues
  <2>4. n \in 1 .. Len(f.events)
    BY <2>2, <2>3
  <2>5. SubSeq(f.events, 1, n) \in Seq(Event)
    <3>1. \A i \in 1 .. n : f.events[i] \in Event
      BY <2>3, <2>4, ElementOfSeq
    <3> QED BY <2>4, <3>1, SubSeqProperties
  <2>6. f.transferring => <<f.events[1]>> = SubSeq(f.events, 1, n)
    <3> SUFFICES ASSUME f.transferring PROVE <<f.events[1]>> = SubSeq(f.events, 1, 1)
      OBVIOUS
    <3> DEFINE t == SubSeq(f.events, 1, 1)
    <3>1. f.events[1] \in Event /\ \A i \in 1 .. 1 : f.events[i] \in Event
      BY <2>3, ElementOfSeq
    <3>2. t \in Seq(Event) /\ Len(t) = 1 /\ t[1] = f.events[1]
      BY <3>1, SubSeqProperties
    <3> HIDE DEF t
    <3>3. t = <<t[1]>>
      BY <3>2
    <3> QED BY <3>2, <3>3 DEF t
  <2>7. /\ req \in EventRequests /\ req.session \in {f.envelope, s}
        /\ req.path = IF f.transferring THEN "transfer" ELSE "events"
        /\ req.events = SubSeq(f.events, 1, n)
    <3>0. 0 \in 0 .. Fragments - 1
      BY ProtocolAssumption
    <3>1. 0 \in 0 .. Fragments - 1 /\ s \in Nat
      BY <3>0
    <3>2. CASE f.transferring
      <4>1. <<f.events[1]>> \in Seq(Event)
        BY <2>3, ElementOfSeq
      <4> QED BY <2>3, <2>6, <3>1, <3>2, <4>1 DEF EventRequests
    <3>3. CASE ~f.transferring
      BY <2>3, <2>5, <3>1, <3>3 DEF EventRequests
    <3> QED BY <3>2, <3>3
  <2> HIDE DEF req
  <2>8. /\ r \in Queues /\ r.events = f.events /\ r.batched = f.batched
        /\ r.transferring = f.transferring /\ r.request = req
        /\ r.envelope = f.envelope /\ r.waiter = f.waiter /\ r.fenced = f.fenced
    BY <2>2, <2>7 DEF QueueOK, Queues
  <2> HIDE DEF r
  <2>9. QueueOK(r, top) /\ Carries(r)
    BY <2>2, <2>7, <2>8 DEF QueueOK, Carries
  <2> QED BY <2>1, <2>2, <2>7, <2>8, <2>9 DEF Resumes
<1> QED BY <1>1, <1>2

\* The end of a delivery, and the one that was waiting for it.
LEMMA SettleResumes ==
  ASSUME NEW q, NEW top, QueueOK(q, top), NEW s, NEW ss \in SUBSET Nat,
         {0, q.waiter, s} \subseteq ss
  PROVE  Resumes(Settle(q, s), top, ss) /\ Settle(q, s).events = q.events
<1> DEFINE i == [q EXCEPT !.request = NoRequest, !.envelope = 0, !.fenced = FALSE]
<1>1. NoRequest \in EventRequests \cup {NoRequest}
  OBVIOUS
<1>2. i = Idle(q)
  BY DEF Idle
<1> HIDE DEF NoRequest
<1>3. /\ i \in Queues /\ i.events = q.events /\ i.batched = q.batched
      /\ i.transferring = q.transferring /\ i.request = NoRequest
      /\ i.envelope = 0 /\ i.waiter = q.waiter /\ i.fenced = FALSE
  BY <1>1 DEF QueueOK, Queues
<1> HIDE DEF i
<1>4. QueueOK(i, top)
  BY <1>3 DEF QueueOK
<1>5. CASE q.waiter = 0
  BY <1>2, <1>3, <1>4, <1>5 DEF Settle, Resumes, Delivering
<1>6. CASE q.waiter # 0
  <2> DEFINE j == [i EXCEPT !.envelope = q.waiter, !.waiter = 0]
  <2>1. Settle(q, s) = Turn(j, s)
    BY <1>2, <1>6 DEF Settle
  <2>2. q.waiter \in Nat
    BY DEF QueueOK, Queues
  <2>3. /\ j \in Queues /\ j.events = i.events /\ j.batched = i.batched
        /\ j.transferring = i.transferring
        /\ j.envelope = q.waiter /\ j.waiter = 0 /\ j.fenced = FALSE
    BY <1>3, <2>2 DEF Queues
  <2> HIDE DEF j
  <2>4. QueueOK(j, top)
    BY <1>4, <2>3 DEF QueueOK
  <2> QED BY <1>3, <2>1, <2>3, <2>4, TurnResumes
<1> QED BY <1>5, <1>6

\* flush() begins a delivery, or waits behind a fenced one.
LEMMA FlushFits ==
  ASSUME NEW q, NEW top, QueueOK(q, top), q.fenced => Delivering(q), NEW s, NEW ss \in SUBSET Nat,
         {0, q.envelope, q.waiter, s} \subseteq ss
  PROVE  LET r == Flush(q, s) IN
           /\ r.events = q.events
           /\ \/ r = q
              \/ ~Delivering(q) /\ Resumes(r, top, ss)
              \/ Delivering(q) /\ q.fenced /\ s # 0 /\ r = [q EXCEPT !.waiter = s]
<1>1. CASE s = 0
  BY <1>1 DEF Flush
<1>2. CASE s # 0 /\ ~Delivering(q)
  <2> DEFINE j == [q EXCEPT !.envelope = s]
  <2>1. Flush(q, s) = Turn(j, s)
    BY <1>2 DEF Flush, IsFlushing
  <2>2. /\ j \in Queues /\ j.events = q.events /\ j.batched = q.batched
        /\ j.transferring = q.transferring
        /\ j.envelope = s /\ j.waiter = q.waiter /\ j.fenced = q.fenced
    BY DEF QueueOK, Queues
  <2> HIDE DEF j
  <2>3. QueueOK(j, top) /\ ~j.fenced
    BY <1>2, <2>2 DEF QueueOK, Queues
  <2> QED BY <1>2, <2>1, <2>2, <2>3, TurnResumes
<1>3. CASE s # 0 /\ IsFlushing(q)
  BY <1>3 DEF Flush, IsFlushing
<1>4. CASE s # 0 /\ Delivering(q) /\ q.fenced
  <2>1. Flush(q, s) = IF q.waiter = 0 THEN [q EXCEPT !.waiter = s] ELSE q
    BY <1>4 DEF Flush, IsFlushing
  <2> QED BY <1>4, <2>1 DEF QueueOK, Queues
<1> QED BY <1>1, <1>2, <1>3, <1>4 DEF IsFlushing

\* The rest of a queue, and what was dropped.
LEMMA DroppedIs ==
  ASSUME NEW q, NEW top, QueueOK(q, top), NEW d \in 0 .. Len(q.events)
  PROVE  /\ Dropped(q, d) \in Seq(Event) /\ Ascends(Dropped(q, d))
         /\ Members(Dropped(q, d)) \subseteq Members(q.events)
         /\ \A e \in Members(q.events) :
              e \in Members(Dropped(q, d)) \/ \E i \in 1 .. d : e = q.events[i]
<1> DEFINE n == Len(q.events)
           t == SubSeq(q.events, d + 1, n)
<1>1. q.events \in Seq(Event) /\ q.events \in Seq(Nat) /\ n \in Nat /\ Ascends(q.events)
  BY EventsAreNumbers, SeqMonotonic, LenProperties DEF QueueOK, Queues
<1>2. t \in Seq(Event)
  <2>1. \A i \in d + 1 .. n : q.events[i] \in Event
    BY <1>1, ElementOfSeq
  <2>2. d + 1 \in Int /\ n \in Int
    BY <1>1
  <2> QED BY <2>1, <2>2, SubSeqProperties
<1>3. Ascends(t) /\ Members(t) = {q.events[i] : i \in d + 1 .. n}
  <2>1. d + 1 \in 1 .. n + 1 /\ n \in 0 .. n
    BY <1>1
  <2> QED BY <1>1, <2>1, PartAscends
<1>4. Dropped(q, d) = t
  BY DEF Dropped
<1> HIDE DEF t
<1>5. ASSUME NEW e \in Members(q.events) PROVE e \in Members(t) \/ \E i \in 1 .. d : e = q.events[i]
  <2>1. PICK i \in 1 .. n : q.events[i] = e
    BY <1>1, MembersOf
  <2>2. i \in 1 .. d \/ i \in d + 1 .. n
    BY <1>1
  <2> QED BY <1>3, <2>1, <2>2
<1>6. Members(t) \subseteq Members(q.events)
  <2>1. \A i \in d + 1 .. n : i \in 1 .. n
    BY <1>1
  <2> QED BY <1>1, <1>3, <2>1, MembersOf
<1> QED BY <1>2, <1>3, <1>4, <1>5, <1>6

\* What an answer lets the follower forget.
Forgets(a, es) ==
  {e \in Members(es) : \/ a.status \in {"ok", "complete"}
                       \/ a.status = "acceptance_failed" /\ e < a.event}

\* A queue whose first d events are dropped, with nothing frozen.
LEMMA AfterDrop ==
  ASSUME NEW q, NEW top, QueueOK(q, top), NEW d \in 0 .. Len(q.events), NEW r, r \in Queues,
         r.events = Dropped(q, d), r.batched = 0, r.transferring = FALSE
  PROVE  QueueOK(r, top)
<1>1. Ascends(r.events) /\ Members(r.events) \subseteq Members(q.events) /\ r.events \in Seq(Event)
  BY DroppedIs
<1>2. 0 <= Len(r.events)
  BY <1>1, LenProperties
<1> QED BY <1>1, <1>2 DEF QueueOK

LEMMA AcknowledgedIs ==
  ASSUME NEW q, NEW top, QueueOK(q, top), Carries(q), q.request.path = "events"
  PROVE  LET r == Acknowledged(q)
             d == Len(q.request.events) IN
           /\ QueueOK(r, top) /\ r.envelope = q.envelope /\ r.waiter = q.waiter
           /\ r.fenced = q.fenced /\ r.events = Dropped(q, d) /\ d \in 0 .. Len(q.events)
           /\ \A i \in 1 .. d : q.events[i] \in Members(q.request.events)
<1> DEFINE d  == Len(q.request.events)
           es == Dropped(q, d)
           r  == [q EXCEPT !.events = es, !.batched = 0]
<1>1. /\ q.events \in Seq(Event) /\ Len(q.events) \in Nat /\ q.batched \in 0 .. Len(q.events)
      /\ q.transferring = FALSE /\ q.request.events = SubSeq(q.events, 1, q.batched)
  BY LenProperties, QueueAssumption DEF QueueOK, Queues, Carries
<1>2. /\ d = q.batched /\ q.request.events \in Seq(Event)
      /\ \A i \in 1 .. d : q.request.events[i] = q.events[i]
  <2>1. \A i \in 1 .. q.batched : q.events[i] \in Event
    BY <1>1, ElementOfSeq
  <2>2. 1 \in Int /\ q.batched \in Int
    BY <1>1
  <2> QED BY <1>1, <2>1, <2>2, SubSeqProperties
<1>3. \A i \in 1 .. d : q.events[i] \in Members(q.request.events)
  BY <1>2, MembersOf
<1>4. d \in 0 .. Len(q.events) /\ 0 \in 0 .. BatchMax
  BY <1>1, <1>2, QueueAssumption
<1>5. es \in Seq(Event)
  BY <1>4, DroppedIs
<1>6. Acknowledged(q) = r
  BY DEF Acknowledged
<1> HIDE DEF d, es
<1>7. /\ r \in Queues /\ r.events = es /\ r.batched = 0 /\ r.transferring = q.transferring
      /\ r.envelope = q.envelope /\ r.waiter = q.waiter /\ r.fenced = q.fenced
  BY <1>4, <1>5 DEF QueueOK, Queues
<1> HIDE DEF r
<1>8. QueueOK(r, top)
  BY <1>1, <1>4, <1>7, AfterDrop DEF es
<1> QED BY <1>3, <1>4, <1>6, <1>7, <1>8 DEF d, es

LEMMA CompletedIs ==
  ASSUME NEW q, NEW top, QueueOK(q, top), Carries(q), q.request.path = "transfer"
  PROVE  LET r == Completed(q) IN
           /\ QueueOK(r, top) /\ r.envelope = q.envelope /\ r.waiter = q.waiter
           /\ r.fenced = q.fenced /\ r.events = Dropped(q, 1) /\ 1 \in 0 .. Len(q.events)
           /\ \A i \in 1 .. 1 : q.events[i] \in Members(q.request.events)
<1> DEFINE es == Tail(q.events)
           r  == [q EXCEPT !.events = es, !.transferring = FALSE, !.index = 0]
<1>1. /\ q.events \in Seq(Event) /\ Len(q.events) \in Nat \ {0} /\ q.batched = 0
      /\ q.request.events = SubSeq(q.events, 1, 1) /\ q.events # <<>>
  BY EmptySeq DEF QueueOK, Queues, Carries
<1>2. q.events[1] \in Members(q.request.events)
  <2>1. \A i \in 1 .. 1 : q.events[i] \in Event
    BY <1>1, ElementOfSeq
  <2>2. /\ q.request.events \in Seq(Event) /\ Len(q.request.events) = 1
        /\ q.request.events[1] = q.events[1]
    BY <1>1, <2>1, SubSeqProperties
  <2> QED BY <2>2, MembersOf
<1>3. 1 \in 0 .. Len(q.events) /\ 0 \in 0 .. Fragments - 1
  <2>1. 0 \in 0 .. Fragments - 1
    BY ProtocolAssumption
  <2> QED BY <1>1, <2>1
<1>4. es = Dropped(q, 1) /\ es \in Seq(Event)
  BY <1>1, <1>3, DroppedIs, TailIsSubSeq DEF Dropped
<1>5. Completed(q) = r
  BY DEF Completed
<1> HIDE DEF es
<1>6. /\ r \in Queues /\ r.events = es /\ r.batched = q.batched /\ r.transferring = FALSE
      /\ r.envelope = q.envelope /\ r.waiter = q.waiter /\ r.fenced = q.fenced
  BY <1>3, <1>4 DEF QueueOK, Queues
<1> HIDE DEF r
<1>7. QueueOK(r, top)
  BY <1>1, <1>3, <1>4, <1>6, AfterDrop
<1> QED BY <1>2, <1>3, <1>4, <1>5, <1>6, <1>7

LEMMA RejectedIs ==
  ASSUME NEW q, NEW top, QueueOK(q, top), Carries(q), q.request \in EventRequests,
         NEW e \in Event, e \in Members(q.request.events)
  PROVE  LET r == Rejected(q, e) IN
           /\ QueueOK(r, top) /\ r.envelope = q.envelope /\ r.waiter = q.waiter
           /\ r.fenced = q.fenced
           /\ \E d \in 0 .. Len(q.events) :
                /\ r.events = Dropped(q, d)
                /\ \A i \in 1 .. d : q.events[i] \in Members(q.request.events) /\ q.events[i] < e
<1> DEFINE rs == q.request.events
           n  == IF q.transferring THEN 1 ELSE q.batched
           at == CHOOSE i \in 1 .. Len(rs) : rs[i] = e
           d  == at - 1
           es == Dropped(q, d)
           r  == [q EXCEPT !.events = es, !.batched = 0,
                           !.transferring = FALSE, !.index = 0, !.stuck = e]
<1>1. /\ q.events \in Seq(Event) /\ q.events \in Seq(Nat) /\ Len(q.events) \in Nat
      /\ rs \in Seq(Event) /\ Len(rs) \in Nat
  BY EventsAreNumbers, SeqMonotonic, LenProperties DEF QueueOK, Queues, EventRequests
<1>2. n \in 0 .. Len(q.events)
  <2>1. q.batched \in Nat /\ q.batched <= Len(q.events)
    BY QueueAssumption DEF QueueOK, Queues
  <2>2. q.transferring => Len(q.events) # 0
    BY <1>1, EmptySeq DEF QueueOK
  <2> QED BY <1>1, <2>1, <2>2
<1>3. rs = SubSeq(q.events, 1, n)
  BY DEF Carries
<1> HIDE DEF n
<1>4. Len(rs) = n /\ \A i \in 1 .. n : rs[i] = q.events[i]
  <2>1. \A i \in 1 .. n : q.events[i] \in Event
    BY <1>1, <1>2, ElementOfSeq
  <2>2. 1 \in Int /\ n \in Int
    BY <1>2
  <2> QED BY <1>2, <1>3, <2>1, <2>2, SubSeqProperties
<1>5. at \in 1 .. n /\ rs[at] = e
  <2>1. \E i \in 1 .. Len(rs) : rs[i] = e
    BY <1>1, MembersOf
  <2>2. at \in 1 .. Len(rs) /\ rs[at] = e
    BY <2>1
  <2> QED BY <1>4, <2>2
<1>6. Rejected(q, e) = r
  BY DEF Rejected
<1> HIDE DEF at
<1>7. d \in 0 .. Len(q.events) /\ at = d + 1
  BY <1>1, <1>2, <1>5
<1>8. ASSUME NEW i \in 1 .. d PROVE q.events[i] \in Members(rs) /\ q.events[i] < e
  <2>1. i \in 1 .. n /\ at \in 1 .. n /\ i < at /\ i \in 1 .. Len(q.events) /\ at \in 1 .. Len(q.events)
    <3> HIDE DEF d
    <3>1. Len(q.events) \in Nat /\ n \in Nat /\ n <= Len(q.events) /\ at \in 1 .. n
      BY <1>1, <1>2, <1>5
    <3>2. d \in Nat /\ at = d + 1 /\ i \in 1 .. d
      BY <1>1, <1>7, <1>8
    <3> QED BY <3>1, <3>2
  <2>2. q.events[i] < q.events[at]
    BY <2>1 DEF QueueOK, Ascends
  <2> QED BY <1>1, <1>4, <1>5, <2>1, <2>2, MembersOf
<1>9. es \in Seq(Event)
  BY <1>7, DroppedIs
<1>10. 0 \in 0 .. BatchMax /\ e \in 0 .. MaxEvents
  BY QueueAssumption, ProtocolAssumption DEF Event
<1>11. 0 \in 0 .. Fragments - 1
  BY ProtocolAssumption
<1> HIDE DEF es, d
<1>12. /\ r \in Queues /\ r.events = es /\ r.batched = 0 /\ r.transferring = FALSE
       /\ r.envelope = q.envelope /\ r.waiter = q.waiter /\ r.fenced = q.fenced
  BY <1>9, <1>10, <1>11 DEF QueueOK, Queues
<1> HIDE DEF r
<1>13. QueueOK(r, top)
  BY <1>7, <1>12, AfterDrop DEF es
<1> QED BY <1>6, <1>7, <1>8, <1>12, <1>13 DEF es

\* r keeps of q what an answer to the request es does not let it forget.
Remembers(r, q, a, es) ==
  /\ Members(r.events) \subseteq Members(q.events)
  /\ \A e \in Members(q.events) : e \in Members(r.events) \/ e \in Forgets(a, es)

\* The delivery in flight takes its answer.
LEMMA TakeResumes ==
  ASSUME NEW q, NEW top, QueueOK(q, top), ~q.fenced, Carries(q), q.request \in EventRequests,
         NEW a, Answers(a, q.request), NEW s, NEW ss \in SUBSET Nat,
         {0, q.envelope, q.waiter, s} \subseteq ss
  PROVE  Resumes(Take(q, a, s), top, ss) /\ Remembers(Take(q, a, s), q, a, q.request.events)
<1> DEFINE t  == Take(q, a, s)
           es == q.request.events
<1>1. a.status \in {"ok", "complete", "restart", "busy", "gone", "error",
                    "acceptance_failed", "fragment"}
  BY DEF Answers, Replies, AcceptanceFailed, Received
<1>2. ASSUME NEW r, QueueOK(r, top), ~r.fenced, r.envelope = q.envelope, r.waiter = q.waiter
      PROVE  /\ Resumes(Turn(r, s), top, ss) /\ Turn(r, s).events = r.events
             /\ Resumes(Settle(r, s), top, ss) /\ Settle(r, s).events = r.events
  <2>1. {0, r.envelope, r.waiter, s} \subseteq ss /\ {0, r.waiter, s} \subseteq ss
    BY <1>2
  <2> QED BY <1>2, <2>1, TurnResumes, SettleResumes
<1>3. ASSUME NEW r, NEW d \in 0 .. Len(q.events), Members(r.events) = Members(Dropped(q, d)),
             \A i \in 1 .. d : q.events[i] \in Forgets(a, es)
      PROVE  Remembers(r, q, a, es)
  BY <1>3, DroppedIs DEF Remembers
<1>4. CASE a.status = "ok"
  <2> DEFINE r == Acknowledged(q)
             d == Len(es)
  <2>1. t = Turn(r, s)
    BY <1>4 DEF Take
  <2>2. /\ QueueOK(r, top) /\ r.envelope = q.envelope /\ r.waiter = q.waiter
        /\ r.fenced = q.fenced /\ r.events = Dropped(q, d) /\ d \in 0 .. Len(q.events)
        /\ \A i \in 1 .. d : q.events[i] \in Members(es)
    BY <1>4, AcknowledgedIs DEF Answers
  <2> HIDE DEF r, d, t
  <2>3. Resumes(t, top, ss) /\ t.events = r.events
    BY <1>2, <2>1, <2>2
  <2>4. \A i \in 1 .. d : q.events[i] \in Forgets(a, es)
    BY <1>4, <2>2 DEF Forgets
  <2> QED BY <1>3, <2>2, <2>3, <2>4 DEF t
<1>5. CASE a.status = "complete"
  <2> DEFINE r == Completed(q)
  <2>1. t = Turn(r, s)
    BY <1>5 DEF Take
  <2>2. /\ QueueOK(r, top) /\ r.envelope = q.envelope /\ r.waiter = q.waiter
        /\ r.fenced = q.fenced /\ r.events = Dropped(q, 1) /\ 1 \in 0 .. Len(q.events)
        /\ \A i \in 1 .. 1 : q.events[i] \in Members(es)
    BY <1>5, CompletedIs DEF Answers
  <2> HIDE DEF r, t
  <2>3. Resumes(t, top, ss) /\ t.events = r.events
    BY <1>2, <2>1, <2>2
  <2>4. \A i \in 1 .. 1 : q.events[i] \in Forgets(a, es)
    BY <1>5, <2>2 DEF Forgets
  <2> QED BY <1>3, <2>2, <2>3, <2>4 DEF t
<1>6. CASE a.status = "acceptance_failed"
  <2> DEFINE r == Rejected(q, a.event)
  <2>1. t = Turn(r, s)
    BY <1>6 DEF Take
  <2>2. a.event \in Event /\ a.event \in Members(es)
    BY <1>6 DEF Answers, Replies, AcceptanceFailed, Received
  <2>3. /\ QueueOK(r, top) /\ r.envelope = q.envelope /\ r.waiter = q.waiter
        /\ r.fenced = q.fenced
        /\ \E d \in 0 .. Len(q.events) :
             /\ r.events = Dropped(q, d)
             /\ \A i \in 1 .. d : q.events[i] \in Members(es) /\ q.events[i] < a.event
    BY <2>2, RejectedIs
  <2> HIDE DEF r, t
  <2>4. Resumes(t, top, ss) /\ t.events = r.events
    BY <1>2, <2>1, <2>3
  <2>5. PICK d \in 0 .. Len(q.events) :
          /\ r.events = Dropped(q, d)
          /\ \A i \in 1 .. d : q.events[i] \in Members(es) /\ q.events[i] < a.event
    BY <2>3
  <2>6. \A i \in 1 .. d : q.events[i] \in Forgets(a, es)
    BY <1>6, <2>5 DEF Forgets
  <2> QED BY <1>3, <2>4, <2>5, <2>6 DEF t
<1>7. ASSUME NEW r, r.events = q.events PROVE Remembers(r, q, a, es)
  BY <1>7 DEF Remembers
<1>8. q.index \in 0 .. Fragments - 1 /\ 0 \in 0 .. Fragments - 1
  <2>1. 0 \in 0 .. Fragments - 1
    BY ProtocolAssumption
  <2> QED BY <2>1 DEF QueueOK, Queues
<1>9. ASSUME NEW i \in 0 .. Fragments - 1
      PROVE  LET r == [q EXCEPT !.index = i] IN
               /\ QueueOK(r, top) /\ r.envelope = q.envelope /\ r.waiter = q.waiter
               /\ ~r.fenced /\ r.events = q.events
  <2> DEFINE r == [q EXCEPT !.index = i]
  <2>1. /\ r \in Queues /\ r.events = q.events /\ r.batched = q.batched
        /\ r.transferring = q.transferring
        /\ r.envelope = q.envelope /\ r.waiter = q.waiter /\ r.fenced = q.fenced
    BY DEF QueueOK, Queues
  <2> HIDE DEF r
  <2>2. QueueOK(r, top)
    BY <2>1 DEF QueueOK
  <2> QED BY <2>1, <2>2 DEF r
<1>10. CASE a.status = "fragment"
  <2>1. t = IF a.received = q.index + 1 THEN Turn([q EXCEPT !.index = @ + 1], s) ELSE Settle(q, s)
    BY <1>10 DEF Take
  <2>2. CASE a.received = q.index + 1
    <3> DEFINE i == q.index + 1
               r == [q EXCEPT !.index = i]
    <3>1. i \in 0 .. Fragments - 1
      BY <1>8, <1>10, <2>2, ProtocolAssumption DEF Answers
    <3>2. t = Turn(r, s)
      BY <2>1, <2>2
    <3> HIDE DEF i, t
    <3>3. /\ QueueOK(r, top) /\ r.envelope = q.envelope /\ r.waiter = q.waiter
          /\ ~r.fenced /\ r.events = q.events
      BY <1>9, <3>1
    <3> HIDE DEF r
    <3>4. Resumes(t, top, ss) /\ t.events = q.events
      BY <1>2, <3>2, <3>3
    <3> QED BY <1>7, <3>4 DEF t
  <2>3. CASE a.received # q.index + 1
    <3>1. t = Settle(q, s)
      BY <2>1, <2>3
    <3> HIDE DEF t
    <3>2. Resumes(t, top, ss) /\ t.events = q.events
      BY <1>2, <3>1
    <3> QED BY <1>7, <3>2 DEF t
  <2> QED BY <2>2, <2>3
<1>11. CASE a.status = "restart"
  <2> DEFINE r == [q EXCEPT !.index = 0]
  <2>1. t = Settle(r, s)
    BY <1>11 DEF Take
  <2>2. /\ QueueOK(r, top) /\ r.envelope = q.envelope /\ r.waiter = q.waiter
        /\ ~r.fenced /\ r.events = q.events
    BY <1>8, <1>9
  <2> HIDE DEF r, t
  <2>3. Resumes(t, top, ss) /\ t.events = q.events
    BY <1>2, <2>1, <2>2
  <2> QED BY <1>7, <2>3 DEF t
<1>12. CASE a.status \in {"busy", "gone", "error"}
  <2>1. t = Settle(q, s)
    BY <1>12 DEF Take
  <2> HIDE DEF t
  <2>2. Resumes(t, top, ss) /\ t.events = q.events
    BY <1>2, <2>1
  <2> QED BY <1>7, <2>2 DEF t
<1> QED BY <1>1, <1>4, <1>5, <1>6, <1>10, <1>11, <1>12

\* An answer, or the end of the wait for it, whatever the epoch.
LEMMA ReceiveResumes ==
  ASSUME NEW q, NEW top, QueueOK(q, top), ~q.fenced => Carries(q), q.request \in EventRequests,
         NEW a, Answers(a, q.request), NEW s, NEW ss \in SUBSET Nat,
         {0, q.envelope, q.waiter, s} \subseteq ss
  PROVE  LET r == Receive(q, a, s) IN
           /\ Resumes(r, top, ss) /\ (q.fenced => r.events = q.events)
           /\ ~q.fenced => Remembers(r, q, a, q.request.events)
<1>1. {0, q.waiter, s} \subseteq ss
  OBVIOUS
<1>2. CASE q.fenced
  BY <1>1, <1>2, SettleResumes DEF Receive
<1>3. CASE ~q.fenced
  BY <1>3, TakeResumes DEF Receive
<1> QED BY <1>2, <1>3

-----------------------------------------------------------------------------
(* Steps of the follower.                                                     *)

\* What the channel sees.
LEMMA StutterIs ==
  ASSUME emitted' = emitted, Waiting' = Waiting, hub'.log = hub.log, hub'.outcome = hub.outcome,
         hub'.token = hub.token, leaderToken' = leaderToken
  PROVE  UNCHANGED Channel!vars
<1>1. Pending' = Pending
  BY DEF Pending
<1>2. severed' = severed /\ (leaderToken = 0)' = (leaderToken = 0)
  BY DEF severed
<1> QED BY <1>1, <1>2 DEF Channel!vars

\* What the leader would take of a request comes first when its events do.
LEMMA UnacceptedFirst ==
  ASSUME NEW es, NEW fs, Initial(Members(es), Members(fs))
  PROVE  Initial(Unaccepted(es), Unaccepted(fs))
BY DEF Initial, Unaccepted

\* Steps of the poll loop and of a registration, which leave the queue alone.
LEMMA QuietKeeps ==
  ASSUME LinkInv, UNCHANGED <<hub, queue, reply, generation, leaderToken, emitted, sessions>>,
         session' \in {session, 0}, sendTimer' \in BOOLEAN,
         loop' \in {"pausing", "registering", "polling"},
         welcome' \in {welcome, NoWelcome}, faults' \in 0 .. MaxFaults,
         strays' \in {strays, strays \cup {Registration(generation)}}
  PROVE  LinkInv' /\ UNCHANGED Channel!vars
<1>1. ASSUME NEW r \in strays', r.path # "register" PROVE r \in strays
  BY <1>1 DEF Registration
<1>2. OnTheWire' = OnTheWire
  BY DEF OnTheWire, Registration
<1>3. Waiting' = Waiting /\ severed' = severed
  BY <1>2 DEF Waiting, severed, Unaccepted
<1>4. TypeOK'
  <2>1. welcome' \in [status : {"none", "ok", "superseded", "error"}, session : Nat, token : Nat]
    BY DEF LinkInv, TypeOK, NoWelcome
  <2>2. \A r \in strays' : r \in EventRequests \/ \E g \in 1 .. generation' : r = Registration(g)
    <3>1. generation \in 1 .. generation
      BY DEF LinkInv, TypeOK
    <3> QED BY <3>1 DEF LinkInv, TypeOK
  <2>3. session' \in Nat
    BY DEF LinkInv, TypeOK
  <2> QED BY <2>1, <2>2, <2>3 DEF LinkInv, TypeOK
<1>5. QueueFits' /\ ReplyFits' /\ HubFits'
  BY DEF LinkInv, QueueFits, ReplyFits, HubFits
<1>6. ReplyTrue'
  BY <1>3 DEF LinkInv, ReplyTrue, Unaccepted
<1>7. WireFits'
  BY <1>1 DEF LinkInv, WireFits, Wellformed
<1>8. WireHonest'
  BY <1>1, <1>3 DEF LinkInv, WireHonest, Honest, Unaccepted
<1>9. NumbersFit'
  <2>1. sessions \in Nat /\ session' <= sessions
    BY DEF LinkInv, TypeOK, NumbersFit
  <2>2. welcome'.session <= sessions
    BY <2>1 DEF LinkInv, NumbersFit, NoWelcome
  <2>3. welcome'.status = "ok" => welcome' = welcome
    BY DEF NoWelcome
  <2> QED BY <2>1, <2>2, <2>3 DEF LinkInv, NumbersFit
<1>10. SessionsFit'
  <2>1. hub.generation # 0 => hub.session # 0
    BY DEF LinkInv, NumbersFit
  <2>2. ~Authentic(hub, 0)
    BY <2>1 DEF Authentic
  <2> QED BY <1>1, <2>2 DEF LinkInv, SessionsFit
<1>11. NewcomerFits'
  <2>1. welcome'.status = "ok" => welcome' = welcome
    BY DEF NoWelcome
  <2> QED BY <1>2, <2>1 DEF LinkInv, NewcomerFits
<1>12. UNCHANGED Channel!vars
  BY <1>3, StutterIs
<1> QED BY <1>4, <1>5, <1>6, <1>7, <1>8, <1>9, <1>10, <1>11, <1>12 DEF LinkInv

\* Sessions of a process that knows the present leader, if that leader knows them.
KnownSessions(ss) ==
  ss \subseteq Nat /\ \A s \in ss : s <= sessions /\ (Authentic(hub, s) => leaderToken = hub.token)

\* A delivery goes on, ends or begins, or a flush waits behind a fenced one.
Delivers(ss) ==
  \/ queue' = queue /\ reply' = reply /\ queue.waiter \in ss
  \/ Resumes(queue', emitted, ss) /\ reply' = NoReply
  \/ /\ Delivering(queue) /\ queue.fenced /\ reply' = reply
     /\ \E s \in ss : queue' = [queue EXCEPT !.waiter = s]

LEMMA DeliveryKeeps ==
  ASSUME LinkInv, leaderToken # 0, UNCHANGED <<hub, generation, leaderToken, emitted, sessions>>,
         NEW ss, KnownSessions(ss), {queue.envelope, session'} \subseteq ss, Delivers(ss),
         sendTimer' \in BOOLEAN, loop' \in {"pausing", "registering", "polling"},
         welcome' \in {welcome, NoWelcome}, faults' \in 0 .. MaxFaults,
         strays' = strays \/ (Delivering(queue) /\ strays' = strays \cup {queue.request}),
         severed \/ Unaccepted(queue'.events) = Unaccepted(queue.events)
  PROVE  LinkInv' /\ UNCHANGED Channel!vars
<1>1. /\ QueueOK(queue', emitted) /\ queue'.envelope \in ss
      /\ queue'.waiter \in ss
      /\ queue'.fenced => Delivering(queue')
      /\ Delivering(queue') /\ ~queue'.fenced => Carries(queue')
      /\ \/ ~queue'.fenced /\ reply' = NoReply
              /\ (Delivering(queue') => queue'.request.session \in ss)
         \/ queue'.request = queue.request /\ queue'.fenced = queue.fenced /\ reply' = reply
  <2>0. CASE queue' = queue /\ reply' = reply /\ queue.waiter \in ss
    BY <2>0 DEF LinkInv, QueueFits
  <2>1. CASE Resumes(queue', emitted, ss) /\ reply' = NoReply
    BY <2>1 DEF Resumes
  <2>2. CASE /\ Delivering(queue) /\ queue.fenced /\ reply' = reply
             /\ \E s \in ss : queue' = [queue EXCEPT !.waiter = s]
    <3>1. PICK s \in ss : queue' = [queue EXCEPT !.waiter = s]
      BY <2>2
    <3>2. /\ queue' \in Queues /\ queue'.events = queue.events /\ queue'.batched = queue.batched
          /\ queue'.transferring = queue.transferring /\ queue'.envelope = queue.envelope
          /\ queue'.fenced = queue.fenced /\ queue'.request = queue.request /\ queue'.waiter = s
      BY <3>1 DEF LinkInv, TypeOK, Queues, KnownSessions
    <3>3. QueueOK(queue', emitted)
      BY <3>2 DEF LinkInv, QueueFits, QueueOK
    <3> QED BY <2>2, <3>2, <3>3 DEF Delivering
  <2> QED BY <2>0, <2>1, <2>2 DEF Delivers
<1>2. severed' = severed
  BY DEF severed
<1>3. Waiting' = Waiting
  <2>1. Waiting = IF severed THEN {} ELSE Unaccepted(queue.events)
    BY DEF Waiting
  <2>2. Waiting' = IF severed' THEN {} ELSE Unaccepted(queue.events)'
    BY DEF Waiting
  <2>3. Unaccepted(queue.events)' = Unaccepted(queue'.events)
    BY DEF Unaccepted
  <2> QED BY <1>2, <2>1, <2>2, <2>3
<1>4. ASSUME NEW r \in strays', r.path # "register"
      PROVE  r \in strays \/ (Delivering(queue) /\ r = queue.request)
  OBVIOUS
<1>5. queue'.request \in EventRequests \/ ~Delivering(queue')
  BY <1>1 DEF QueueOK, Queues, Delivering
<1>6. Delivering(queue') /\ ~queue'.fenced =>
        /\ Proper(queue'.request)
        /\ Initial(Members(queue'.request.events), Members(queue'.events))
  BY <1>1, <1>5, CarriesFirst
<1>7. TypeOK'
  <2>1. welcome' \in [status : {"none", "ok", "superseded", "error"}, session : Nat, token : Nat]
    BY DEF LinkInv, TypeOK, NoWelcome
  <2>2. \A r \in strays' : r \in EventRequests \/ \E g \in 1 .. generation' : r = Registration(g)
    <3>1. Delivering(queue) => queue.request \in EventRequests
      BY DEF LinkInv, TypeOK, Queues, Delivering
    <3> QED BY <3>1 DEF LinkInv, TypeOK
  <2>3. session' \in Nat
    BY DEF KnownSessions
  <2>4. queue' \in Queues
    BY <1>1 DEF QueueOK
  <2>5. reply' \in Replies \cup {NoReply}
    BY <1>1 DEF LinkInv, TypeOK
  <2> QED BY <2>1, <2>2, <2>3, <2>4, <2>5 DEF LinkInv, TypeOK
<1>8. QueueFits'
  BY <1>1 DEF QueueFits
<1>9. ReplyFits'
  BY <1>1 DEF LinkInv, ReplyFits, Delivering
<1>10. ReplyTrue'
  BY <1>1, <1>2 DEF LinkInv, ReplyTrue, Unaccepted
<1>11. WireFits'
  <2>1. ASSUME NEW r \in strays', r.path # "register" PROVE Wellformed(r)'
    <3>1. Wellformed(r)
      BY <1>4, <2>1 DEF LinkInv, WireFits
    <3> QED BY <3>1 DEF Wellformed
  <2>2. ASSUME Delivering(queue') PROVE Wellformed(queue.request)'
    <3>1. CASE queue'.request = queue.request
      <4>1. Wellformed(queue.request)
        BY <2>2, <3>1 DEF LinkInv, WireFits, Delivering
      <4> QED BY <3>1, <4>1 DEF Wellformed
    <3>2. CASE ~queue'.fenced /\ queue'.request.session \in ss
      <4>1. Proper(queue'.request) /\ queue'.request.session <= sessions
        BY <1>6, <2>2, <3>2 DEF KnownSessions
      <4>2. \A e \in Members(queue'.request.events) : e <= emitted
        BY <1>1, <1>6, <2>2, <3>2 DEF QueueOK, Initial
      <4> QED BY <4>1, <4>2 DEF Wellformed
    <3> QED BY <1>1, <2>2, <3>1, <3>2
  <2> QED BY <2>1, <2>2 DEF WireFits
<1>12. WireHonest'
  <2>1. ASSUME NEW r \in strays', r.path # "register" PROVE Honest(r)'
    <3>1. Honest(r)
      BY <1>4, <2>1 DEF LinkInv, WireHonest
    <3> QED BY <1>3, <3>1 DEF Honest, Unaccepted
  <2>2. ASSUME Delivering(queue') PROVE Honest(queue.request)'
    <3>1. CASE queue'.request = queue.request
      <4>1. Honest(queue.request)
        BY <2>2, <3>1 DEF LinkInv, WireHonest, Delivering
      <4> QED BY <1>3, <3>1, <4>1 DEF Honest, Unaccepted
    <3>2. CASE ~queue'.fenced /\ queue'.request.session \in ss
      <4> SUFFICES ASSUME Authentic(hub, queue'.request.session)
                   PROVE  Initial(Unaccepted(queue'.request.events), Waiting)
        BY <1>3 DEF Honest, Unaccepted
      <4>1. leaderToken = hub.token
        BY <3>2 DEF KnownSessions
      <4>2. ~severed /\ Waiting = Unaccepted(queue'.events)
        BY <4>1 DEF severed, Waiting
      <4>3. Initial(Members(queue'.request.events), Members(queue'.events))
        BY <1>6, <2>2, <3>2
      <4> QED BY <4>2, <4>3, UnacceptedFirst
    <3> QED BY <1>1, <2>2, <3>1, <3>2
  <2> QED BY <2>1, <2>2 DEF WireHonest
<1>13. NumbersFit'
  <2>1. welcome'.session <= sessions /\ (welcome'.status = "ok" => welcome' = welcome)
    BY DEF LinkInv, NumbersFit, NoWelcome, TypeOK
  <2>2. session' <= sessions /\ queue'.envelope <= sessions /\ queue'.waiter <= sessions
    BY <1>1 DEF KnownSessions
  <2> QED BY <2>1, <2>2 DEF LinkInv, NumbersFit
<1>14. SessionsFit'
  <2>1. ASSUME NEW s \in {session', queue'.envelope, queue'.waiter}, Authentic(hub, s)
        PROVE  leaderToken = hub.token
    BY <1>1, <2>1 DEF KnownSessions
  <2>2. ASSUME NEW r \in strays', r.path # "register", Authentic(hub, r.session)
        PROVE  leaderToken = hub.token
    BY <1>4, <2>2 DEF LinkInv, SessionsFit
  <2>3. ASSUME Delivering(queue'), Authentic(hub, queue'.request.session)
        PROVE  leaderToken = hub.token /\ ~queue'.fenced
    <3>1. CASE queue'.request = queue.request /\ queue'.fenced = queue.fenced
      BY <2>3, <3>1 DEF LinkInv, SessionsFit, Delivering
    <3>2. CASE ~queue'.fenced /\ queue'.request.session \in ss
      BY <2>3, <3>2 DEF KnownSessions
    <3> QED BY <1>1, <2>3, <3>1, <3>2
  <2> QED BY <2>1, <2>2, <2>3 DEF SessionsFit
<1>15. NewcomerFits' /\ HubFits'
  BY DEF LinkInv, NewcomerFits, HubFits
<1>16. UNCHANGED Channel!vars
  BY <1>3, StutterIs
<1> QED BY <1>7, <1>8, <1>9, <1>10, <1>11, <1>12, <1>13, <1>14, <1>15, <1>16 DEF LinkInv

\* The sessions a process knows of.
LEMMA OwnSessions ==
  ASSUME LinkInv, leaderToken # 0
  PROVE  KnownSessions({0, session, queue.envelope, queue.waiter})
<1>1. ~Authentic(hub, 0)
  BY DEF LinkInv, NumbersFit, Authentic
<1>2. {0, session, queue.envelope, queue.waiter} \subseteq Nat /\ sessions \in Nat
  BY DEF LinkInv, TypeOK, Queues
<1>3. \A s \in {0, session, queue.envelope, queue.waiter} : s <= sessions
  BY <1>2 DEF LinkInv, NumbersFit
<1>4. \A s \in {session, queue.envelope, queue.waiter} : Authentic(hub, s) => leaderToken = hub.token
  BY DEF LinkInv, SessionsFit
<1> QED BY <1>1, <1>2, <1>3, <1>4 DEF KnownSessions

\* A flush in a known session.
LEMMA FlushDelivers ==
  ASSUME LinkInv, NEW ss, ss \subseteq Nat, NEW s, {0, queue.envelope, queue.waiter, s} \subseteq ss,
         queue' = Flush(queue, s), reply' = reply
  PROVE  Delivers(ss) /\ queue'.events = queue.events
<1>1. QueueOK(queue, emitted) /\ (queue.fenced => Delivering(queue))
  BY DEF LinkInv, QueueFits
<1>2. /\ queue'.events = queue.events
      /\ \/ queue' = queue
         \/ ~Delivering(queue) /\ Resumes(queue', emitted, ss)
         \/ Delivering(queue) /\ queue.fenced /\ s # 0 /\ queue' = [queue EXCEPT !.waiter = s]
  BY <1>1, FlushFits
<1>3. ~Delivering(queue) => reply = NoReply
  BY DEF LinkInv, ReplyFits
<1> QED BY <1>2, <1>3 DEF Delivers

LEMMA TimerFiresKeeps == ASSUME LinkInv, TimerFires PROVE LinkInv' /\ UNCHANGED Channel!vars
<1>1. /\ UNCHANGED <<hub, reply, generation, session, leaderToken, loop, welcome, strays, emitted,
                     sessions, faults>>
      /\ sendTimer' = FALSE /\ queue' = Flush(queue, session)
  BY DEF TimerFires
<1>2. loop \in {"pausing", "registering", "polling"} /\ faults \in 0 .. MaxFaults
  BY DEF LinkInv, TypeOK
<1>3. CASE leaderToken = 0
  <2>1. queue' = queue
    BY <1>1, <1>3 DEF LinkInv, NewcomerFits, Flush
  <2> QED BY <1>1, <1>2, <2>1, QuietKeeps
<1>4. CASE leaderToken # 0
  <2> DEFINE ss == {0, session, queue.envelope, queue.waiter}
  <2>1. KnownSessions(ss)
    BY <1>4, OwnSessions
  <2>2. ss \subseteq Nat
    BY <2>1 DEF KnownSessions
  <2>3. Delivers(ss) /\ queue'.events = queue.events
    BY <1>1, <2>2, FlushDelivers
  <2>4. {queue.envelope, session'} \subseteq ss
    BY <1>1
  <2> HIDE DEF ss
  <2> QED BY <1>1, <1>2, <1>4, <2>1, <2>3, <2>4, DeliveryKeeps
<1> QED BY <1>3, <1>4

\* One iteration of the loop in a known session.
LEMMA IterateDelivers ==
  ASSUME LinkInv, NEW s, NEW ss, ss \subseteq Nat, {0, queue.envelope, queue.waiter, s} \subseteq ss,
         Iterate(queue, s), reply' = reply
  PROVE  /\ Delivers(ss) /\ queue'.events = queue.events
         /\ loop' \in {"pausing", "registering", "polling"}
<1>1. CASE queue' = queue /\ loop' \in {"registering", "polling"}
  BY <1>1 DEF Delivers
<1>2. CASE queue' = Flush(queue, s) /\ loop' = "polling"
  BY <1>2, FlushDelivers
<1> QED BY <1>1, <1>2 DEF Iterate

LEMMA PauseEndsKeeps == ASSUME LinkInv, PauseEnds PROVE LinkInv' /\ UNCHANGED Channel!vars
<1>1. /\ UNCHANGED <<hub, reply, generation, session, leaderToken, sendTimer, welcome, strays,
                     emitted, sessions, faults>>
      /\ Iterate(queue, session)
  BY DEF PauseEnds
<1>2. sendTimer \in BOOLEAN /\ faults \in 0 .. MaxFaults
  BY DEF LinkInv, TypeOK
<1>3. CASE leaderToken = 0
  <2>1. queue' = queue /\ loop' = "registering"
    BY <1>1, <1>3 DEF LinkInv, NewcomerFits, Iterate
  <2> QED BY <1>1, <1>2, <2>1, QuietKeeps
<1>4. CASE leaderToken # 0
  <2> DEFINE ss == {0, session, queue.envelope, queue.waiter}
  <2>1. KnownSessions(ss)
    BY <1>4, OwnSessions
  <2>2. ss \subseteq Nat
    BY <2>1 DEF KnownSessions
  <2>3. Delivers(ss) /\ queue'.events = queue.events /\ loop' \in {"pausing", "registering", "polling"}
    BY <1>1, <2>2, IterateDelivers
  <2>4. {queue.envelope, session'} \subseteq ss
    BY <1>1
  <2> HIDE DEF ss
  <2> QED BY <1>1, <1>2, <1>4, <2>1, <2>3, <2>4, DeliveryKeeps
<1> QED BY <1>3, <1>4

LEMMA PollAnsweredKeeps == ASSUME LinkInv, PollAnswered PROVE LinkInv' /\ UNCHANGED Channel!vars
<1>1. /\ UNCHANGED <<hub, reply, generation, leaderToken, sendTimer, welcome, strays,
                     emitted, sessions, faults>>
      /\ Iterate(queue, session') /\ session' \in {0, session}
  BY DEF PollAnswered
<1>2. sendTimer \in BOOLEAN /\ faults \in 0 .. MaxFaults
  BY DEF LinkInv, TypeOK
<1>3. CASE leaderToken = 0
  <2>1. queue' = queue /\ loop' = "registering"
    BY <1>1, <1>3 DEF LinkInv, NewcomerFits, Iterate
  <2> QED BY <1>1, <1>2, <2>1, QuietKeeps
<1>4. CASE leaderToken # 0
  <2> DEFINE ss == {0, session, queue.envelope, queue.waiter}
  <2>1. KnownSessions(ss)
    BY <1>4, OwnSessions
  <2>2. ss \subseteq Nat /\ {0, queue.envelope, queue.waiter, session'} \subseteq ss
    BY <1>1, <2>1 DEF KnownSessions
  <2>3. Delivers(ss) /\ queue'.events = queue.events /\ loop' \in {"pausing", "registering", "polling"}
    BY <1>1, <2>2, IterateDelivers
  <2>4. {queue.envelope, session'} \subseteq ss
    BY <2>2
  <2> HIDE DEF ss
  <2> QED BY <1>1, <1>2, <1>4, <2>1, <2>3, <2>4, DeliveryKeeps
<1> QED BY <1>3, <1>4

LEMMA PollFailsKeeps == ASSUME LinkInv, PollFails PROVE LinkInv' /\ UNCHANGED Channel!vars
<1>1. /\ UNCHANGED <<hub, queue, reply, generation, session, leaderToken, sendTimer, welcome, strays,
                     emitted, sessions>>
      /\ loop' = "pausing" /\ faults' = faults + 1 /\ faults < MaxFaults
  BY DEF PollFails, Fault
<1>2. sendTimer \in BOOLEAN /\ faults' \in 0 .. MaxFaults
  BY <1>1, FaultsAssumption DEF LinkInv, TypeOK
<1> QED BY <1>1, <1>2, QuietKeeps

LEMMA RegistrationFailsKeeps ==
  ASSUME LinkInv, RegistrationFails PROVE LinkInv' /\ UNCHANGED Channel!vars
<1>1. /\ UNCHANGED <<hub, queue, reply, generation, session, leaderToken, sendTimer, strays,
                     emitted, sessions, faults>>
      /\ loop' = "pausing" /\ welcome' = NoWelcome
  BY DEF RegistrationFails
<1>2. sendTimer \in BOOLEAN /\ faults \in 0 .. MaxFaults
  BY DEF LinkInv, TypeOK
<1> QED BY <1>1, <1>2, QuietKeeps

LEMMA RegistrationTimesOutKeeps ==
  ASSUME LinkInv, RegistrationTimesOut PROVE LinkInv' /\ UNCHANGED Channel!vars
<1>1. /\ UNCHANGED <<hub, queue, reply, generation, session, leaderToken, sendTimer, emitted, sessions>>
      /\ loop' = "pausing" /\ welcome' = NoWelcome /\ faults' = faults + 1 /\ faults < MaxFaults
      /\ strays' \in {strays, strays \cup {Registration(generation)}}
  BY DEF RegistrationTimesOut, Fault
<1>2. sendTimer \in BOOLEAN /\ faults' \in 0 .. MaxFaults
  BY <1>1, FaultsAssumption DEF LinkInv, TypeOK
<1> QED BY <1>1, <1>2, QuietKeeps

\* Only a registered process delivers.
LEMMA DelivererIsKnown == ASSUME LinkInv, Delivering(queue) PROVE leaderToken # 0
<1>1. ~Delivering(NewQueue)
  BY DEF Delivering, NewQueue
<1> QED BY <1>1 DEF LinkInv, NewcomerFits

\* What the follower forgets has been accepted.
LEMMA RememberedUnaccepted ==
  ASSUME LinkInv, Delivering(queue), ~severed, ~queue.fenced, reply # NoReply,
         Remembers(queue', queue, reply, queue.request.events)
  PROVE  Unaccepted(queue'.events) = Unaccepted(queue.events)
<1> DEFINE es == queue.request.events
<1>1. /\ reply.status \in {"ok", "complete"} => Unaccepted(es) = {}
      /\ reply.status = "acceptance_failed" => \A e \in Unaccepted(es) : e >= reply.event
  BY DEF LinkInv, ReplyTrue
<1>2. es \in Seq(Event) /\ \A e \in Members(es) : e \in Nat
  <2>1. es \in Seq(Event)
    BY DEF LinkInv, WireFits, Wellformed, Proper, EventRequests
  <2> QED BY <2>1, MembersOf, EventsAreNumbers
<1>3. reply.status = "acceptance_failed" => reply.event \in Nat
  BY <1>2 DEF LinkInv, ReplyFits, Answers
<1>4. ASSUME NEW e \in Forgets(reply, es), hub.outcome[e] # "accepted" PROVE FALSE
  <2>1. e \in Unaccepted(es) /\ e \in Nat
    BY <1>2, <1>4 DEF Forgets, Unaccepted
  <2> QED BY <1>1, <1>3, <2>1, <1>4 DEF Forgets
<1> QED BY <1>4 DEF Remembers, Unaccepted

LEMMA AnswerKeeps == ASSUME LinkInv, Answer PROVE LinkInv' /\ UNCHANGED Channel!vars
<1>1. /\ Delivering(queue) /\ reply # NoReply /\ session' \in {0, session}
      /\ queue' = Receive(queue, reply, session) /\ reply' = NoReply
      /\ UNCHANGED <<hub, generation, leaderToken, sendTimer, loop, welcome, strays, emitted,
                     sessions, faults>>
  BY DEF Answer
<1> DEFINE ss == {0, session, queue.envelope, queue.waiter}
<1>2. leaderToken # 0
  BY <1>1, DelivererIsKnown
<1>3. KnownSessions(ss)
  BY <1>2, OwnSessions
<1>4. ss \subseteq Nat /\ {0, queue.envelope, queue.waiter, session} \subseteq ss
      /\ {queue.envelope, session'} \subseteq ss
  BY <1>1, <1>3 DEF KnownSessions
<1> HIDE DEF ss
<1>5. /\ QueueOK(queue, emitted) /\ (~queue.fenced => Carries(queue))
      /\ queue.request \in EventRequests
  BY <1>1 DEF LinkInv, QueueFits, QueueOK, Queues, Delivering
<1>6. Answers(reply, queue.request)
  BY <1>1 DEF LinkInv, ReplyFits
<1>7. /\ Resumes(queue', emitted, ss) /\ (queue.fenced => queue'.events = queue.events)
      /\ ~queue.fenced => Remembers(queue', queue, reply, queue.request.events)
  BY <1>1, <1>4, <1>5, <1>6, ReceiveResumes
<1>8. severed \/ Unaccepted(queue'.events) = Unaccepted(queue.events)
  BY <1>1, <1>7, RememberedUnaccepted
<1>9. Delivers(ss)
  BY <1>1, <1>7 DEF Delivers
<1>10. /\ sendTimer \in BOOLEAN /\ loop \in {"pausing", "registering", "polling"}
       /\ faults \in 0 .. MaxFaults
  BY DEF LinkInv, TypeOK
<1> QED BY <1>1, <1>2, <1>3, <1>4, <1>8, <1>9, <1>10, DeliveryKeeps

LEMMA RequestTimesOutKeeps ==
  ASSUME LinkInv, RequestTimesOut PROVE LinkInv' /\ UNCHANGED Channel!vars
<1> DEFINE err == [status |-> "error"]
           ss == {0, session, queue.envelope, queue.waiter}
<1>1. /\ Delivering(queue) /\ faults' = faults + 1 /\ faults < MaxFaults
      /\ queue' = Receive(queue, err, session) /\ reply' = NoReply
      /\ strays' = strays \/ strays' = strays \cup {queue.request}
      /\ UNCHANGED <<hub, generation, session, leaderToken, sendTimer, loop, welcome, emitted, sessions>>
  BY DEF RequestTimesOut, Fault, follower
<1>2. leaderToken # 0
  BY <1>1, DelivererIsKnown
<1>3. KnownSessions(ss)
  BY <1>2, OwnSessions
<1>4. ss \subseteq Nat /\ {0, queue.envelope, queue.waiter, session} \subseteq ss
      /\ {queue.envelope, session'} \subseteq ss
  BY <1>1, <1>3 DEF KnownSessions
<1> HIDE DEF ss
<1>5. /\ QueueOK(queue, emitted) /\ (~queue.fenced => Carries(queue))
      /\ queue.request \in EventRequests
  BY <1>1 DEF LinkInv, QueueFits, QueueOK, Queues, Delivering
<1>6. Answers(err, queue.request) /\ Forgets(err, queue.request.events) = {}
  BY DEF Answers, Replies, Forgets
<1> HIDE DEF err
<1>7. /\ Resumes(queue', emitted, ss) /\ (queue.fenced => queue'.events = queue.events)
      /\ ~queue.fenced => Remembers(queue', queue, err, queue.request.events)
  BY <1>1, <1>4, <1>5, <1>6, ReceiveResumes
<1>8. Members(queue'.events) = Members(queue.events)
  BY <1>6, <1>7 DEF Remembers
<1>9. Unaccepted(queue'.events) = Unaccepted(queue.events)
  BY <1>8 DEF Unaccepted
<1>10. Delivers(ss)
  BY <1>1, <1>7 DEF Delivers
<1>11. /\ sendTimer \in BOOLEAN /\ loop \in {"pausing", "registering", "polling"}
       /\ faults' \in 0 .. MaxFaults
  BY <1>1, FaultsAssumption DEF LinkInv, TypeOK
<1> QED BY <1>1, <1>2, <1>3, <1>4, <1>9, <1>10, <1>11, DeliveryKeeps

-----------------------------------------------------------------------------
(* Steps of the channel.                                                      *)

\* What waits has been emitted.
LEMMA WaitingFits ==
  ASSUME LinkInv
  PROVE  /\ Waiting \in SUBSET Nat /\ IsFiniteSet(Waiting) /\ Waiting \subseteq Event
         /\ \A e \in Waiting : e <= emitted /\ hub.outcome[e] # "accepted"
<1>1. \A r \in OnTheWire : r.events \in Seq(Event) /\ \A e \in Members(r.events) : e <= emitted
  BY DEF LinkInv, WireFits, Wellformed, Proper, EventRequests, OnTheWire
<1>2. queue.events \in Seq(Event) /\ \A e \in Members(queue.events) : e <= emitted
  BY DEF LinkInv, QueueFits, QueueOK, Queues
<1>3. ASSUME NEW e \in Waiting PROVE e \in Event /\ e <= emitted /\ hub.outcome[e] # "accepted"
  <2>1. CASE leaderToken = 0
    <3>1. PICK r \in OnTheWire : e \in Unaccepted(r.events)
      BY <1>3, <2>1 DEF Waiting
    <3> QED BY <1>1, <3>1, MembersOf DEF Unaccepted
  <2>2. CASE leaderToken # 0
    <3>1. e \in Unaccepted(queue.events)
      BY <1>3, <2>2 DEF Waiting
    <3> QED BY <1>2, <3>1, MembersOf DEF Unaccepted
  <2> QED BY <2>1, <2>2
<1>4. IsFiniteSet(Event)
  BY FS_Interval, ProtocolAssumption DEF Event
<1> QED BY <1>3, <1>4, EventsAreNumbers, FS_Subset

LEMMA NothingAscends == Ascending({}) = <<>>
<1>1. IsFiniteSet({}) /\ Cardinality({}) = 0
  BY FS_EmptySet
<1>2. Ascending({}) \in Seq(Nat) /\ Len(Ascending({})) = 0
  BY <1>1, AscendingLists
<1> QED BY <1>2, EmptySeq

\* Nobody is there to repeat what does not wait any more.
LEMMA ChannelLoses ==
  ASSUME LinkInv, leaderToken' = 0, emitted' = emitted, hub'.log = hub.log,
         hub'.outcome = hub.outcome, Initial(Waiting', Waiting)
  PROVE  Channel!Lose
<1>1. PICK k : SplitsAt(Waiting, Waiting', k)
  BY WaitingFits, InitialFirst
<1>2. k \in 0 .. Len(Pending) /\ Pending' = SubSeq(Pending, 1, k)
  BY <1>1 DEF Pending, SplitsAt
<1>3. (leaderToken = 0)' = TRUE /\ severed' = FALSE
  BY DEF severed
<1>4. {e \in Event : hub.outcome[e] = "failed"}' = {e \in Event : hub.outcome[e] = "failed"}
  OBVIOUS
<1> QED BY <1>2, <1>3, <1>4 DEF Channel!Lose, Channel!First

\* N is accepted and F fails.
LEMMA ChannelAccepts ==
  ASSUME LinkInv, leaderToken' = leaderToken, emitted' = emitted, hub'.token = hub.token,
         NEW es, NEW N, NEW F, Takes(hub, hub', es, N, F),
         Initial(Unaccepted(es), Waiting), N # {} \/ F # {},
         \/ Waiting' = Waiting \ N
         \/ leaderToken = 0 /\ Initial(Waiting', Waiting \ N)
  PROVE  Channel!Accept
<1> DEFINE rest == SubSeq(Pending, 1, 0)
           bad  == {e \in Event : hub.outcome[e] = "failed"}
<1>1. /\ Waiting \in SUBSET Nat /\ IsFiniteSet(Waiting) /\ Waiting \subseteq Event
      /\ \A e \in Waiting : hub.outcome[e] # "accepted"
  BY WaitingFits
<1>2. Initial(N, Waiting)
  BY DEF Takes, Initial, Unaccepted
<1>0. PICK k : SplitsAt(Waiting, N, k)
  BY <1>1, <1>2, InitialFirst
<1>3. /\ k \in 0 .. Len(Pending)
      /\ N = {Pending[i] : i \in 1 .. k} /\ SubSeq(Pending, 1, k) = Ascending(N)
      /\ SubSeq(Pending, k + 1, Len(Pending)) = Ascending(Waiting \ N)
      /\ \A f \in Waiting \ N : (\A e \in Waiting \ N : f <= e) =>
           k < Len(Pending) /\ Pending[k + 1] = f
  BY <1>0 DEF Pending, SplitsAt
<1>4. \A i \in 1 .. k : Pending[i] \notin bad
  BY <1>3 DEF Takes
<1>5. hub'.log = hub.log \o Channel!First(Pending, k)
  BY <1>3 DEF Takes, Channel!First
<1>6. Pending' \in Channel!Remains(Channel!Rest(Pending, k))
  <2>1. Channel!Rest(Pending, k) = Ascending(Waiting \ N)
    BY <1>3 DEF Channel!Rest
  <2>2. CASE leaderToken # 0
    BY <2>1, <2>2 DEF Channel!Remains, Pending
  <2>3. CASE leaderToken = 0
    <3>1. Initial(Waiting', Waiting \ N)
      BY DEF Initial
    <3>2. Waiting \ N \in SUBSET Nat /\ IsFiniteSet(Waiting \ N)
      BY <1>1, FS_Subset
    <3>3. PICK j : SplitsAt(Waiting \ N, Waiting', j)
      BY <3>1, <3>2, InitialFirst
    <3>4. /\ j \in 0 .. Len(Ascending(Waiting \ N))
          /\ SubSeq(Ascending(Waiting \ N), 1, j) = Ascending(Waiting')
      BY <3>3 DEF SplitsAt
    <3> QED BY <2>1, <2>3, <3>4 DEF Channel!Remains, Channel!First, Pending
  <2> QED BY <2>2, <2>3
<1>7. \/ k > 0 /\ bad' = bad
      \/ k < Len(Pending) /\ bad' = bad \cup {Pending[k + 1]}
  <2>1. hub'.outcome = [e \in Event |-> IF e \in N THEN "accepted"
                                        ELSE IF e \in F THEN "failed" ELSE hub.outcome[e]]
    BY DEF Takes
  <2>2. \A e \in N : hub.outcome[e] = "none"
    BY DEF Takes
  <2>3. CASE F = {}
    <3>1. bad' = bad
      BY <2>1, <2>2, <2>3
    <3>2. k # 0
      <4>1. PICK e \in N : TRUE
        BY <2>3
      <4>2. PICK i \in 1 .. k : Pending[i] = e
        BY <1>3
      <4> QED BY <1>3, <4>2
    <3> QED BY <1>3, <3>1, <3>2
  <2>4. CASE F # {}
    <3>1. PICK f \in Members(es) :
            /\ F = {f} /\ f \notin N /\ hub.outcome[f] # "accepted"
            /\ \A d \in Members(es) : d < f => d \in N \/ hub.outcome[d] = "accepted"
      BY <2>4 DEF Takes
    <3>2. f \in Unaccepted(es) /\ f \in Waiting \ N /\ f \in Event
      BY <1>1, <3>1 DEF Unaccepted, Initial
    <3>3. \A e \in Waiting \ N : ~ (e < f)
      BY <3>1, <3>2 DEF Initial, Unaccepted
    <3>4. \A e \in Waiting \ N : f <= e
      BY <1>1, <3>2, <3>3
    <3>5. k < Len(Pending) /\ Pending[k + 1] = f
      BY <1>3, <3>2, <3>4
    <3>6. bad' = bad \cup {f}
      BY <2>1, <2>2, <3>1, <3>2
    <3> QED BY <3>5, <3>6
  <2> QED BY <2>3, <2>4
<1>8. severed' = severed
  BY DEF severed
<1>9. UNCHANGED <<emitted, severed, (leaderToken = 0)>>
  BY <1>8
<1> QED BY <1>3, <1>4, <1>5, <1>6, <1>7, <1>9, Zenon DEF Channel!Accept

\* A step of the channel, or none.
Moves == Channel!Next \/ UNCHANGED Channel!vars

-----------------------------------------------------------------------------
(* Steps of the leader.                                                       *)

\* The leader takes N of some request and fails F, and may have answered it.
LEMMA HubKeeps ==
  ASSUME LinkInv, UNCHANGED <<queue, follower, emitted, sessions>>, faults' \in 0 .. MaxFaults,
         NEW es, NEW N, NEW F, Takes(hub, hub', es, N, F), \A e \in Members(es) : e <= emitted,
         N # {} \/ F # {} => Initial(Unaccepted(es), Waiting),
         strays' \subseteq strays,
         \/ welcome' = welcome
         \/ welcome' = [NoWelcome EXCEPT !.status = "superseded"],
         \/ reply' = reply
         \/ /\ Delivering(queue) /\ Answers(reply', queue.request)
            /\ reply'.status \in {"ok", "complete"} =>
                 \A e \in Members(queue.request.events) : hub'.outcome[e] = "accepted"
            /\ reply'.status = "acceptance_failed" =>
                 \A e \in Members(queue.request.events) :
                   e < reply'.event => hub'.outcome[e] = "accepted"
  PROVE  LinkInv' /\ Moves
<1>1. /\ hub' \in Hubs /\ hub'.token = hub.token /\ hub'.generation = hub.generation
      /\ hub'.session = hub.session
      /\ hub'.outcome = [e \in Event |-> IF e \in N THEN "accepted"
                                         ELSE IF e \in F THEN "failed" ELSE hub.outcome[e]]
      /\ \A e \in N : hub.outcome[e] = "none"
      /\ N \subseteq Members(es) /\ F \subseteq Members(es)
      /\ \A e \in F : hub.outcome[e] # "accepted"
  BY DEF Takes
<1>2. /\ generation' = generation /\ session' = session /\ leaderToken' = leaderToken
      /\ sendTimer' = sendTimer /\ loop' = loop /\ severed' = severed
      /\ \A s : Authentic(hub, s)' <=> Authentic(hub, s)
  BY <1>1 DEF follower, severed, Authentic
<1>3. ASSUME NEW e \in Event PROVE (hub'.outcome[e] = "accepted") <=> (e \in N \/ hub.outcome[e] = "accepted")
  BY <1>1
<1>4. ASSUME NEW fs, Members(fs) \subseteq Event PROVE Unaccepted(fs)' = Unaccepted(fs) \ N
  BY <1>3, <1>4 DEF Unaccepted
<1>5. /\ Members(queue.events) \subseteq Event
      /\ \A r \in strays : r.path # "register" => Members(r.events) \subseteq Event
      /\ Delivering(queue) => Members(queue.request.events) \subseteq Event
  BY MembersOf DEF LinkInv, WireFits, Wellformed, Proper, EventRequests, QueueFits, QueueOK, Queues
<1>6. OnTheWire' \subseteq OnTheWire /\ \A r \in OnTheWire : r \in strays /\ r.path # "register"
  BY <1>2 DEF OnTheWire
<1>7. Waiting' \subseteq Waiting \ N /\ (leaderToken # 0 => Waiting' = Waiting \ N)
  <2>1. CASE leaderToken = 0
    <3>1. Waiting' = UNION {Unaccepted(r.events)' : r \in OnTheWire'}
      BY <1>2, <2>1 DEF Waiting
    <3>2. Waiting = UNION {Unaccepted(r.events) : r \in OnTheWire}
      BY <2>1 DEF Waiting
    <3>3. \A r \in OnTheWire' : r \in OnTheWire /\ Unaccepted(r.events)' = Unaccepted(r.events) \ N
      BY <1>4, <1>5, <1>6
    <3> QED BY <2>1, <3>1, <3>2, <3>3
  <2>2. CASE leaderToken # 0
    <3>1. Waiting' = IF severed THEN {} ELSE Unaccepted(queue.events)'
      BY <1>2, <2>2 DEF Waiting
    <3>2. Waiting = IF severed THEN {} ELSE Unaccepted(queue.events)
      BY <2>2 DEF Waiting
    <3>3. Unaccepted(queue.events)' = Unaccepted(queue.events) \ N
      BY <1>4, <1>5
    <3> QED BY <3>1, <3>2, <3>3
  <2> QED BY <2>1, <2>2
<1>8. ASSUME NEW r \in EventRequests, Honest(r),
             \/ r \in strays' /\ r.path # "register"
             \/ leaderToken # 0 /\ Delivering(queue) /\ r = queue.request
      PROVE  Honest(r)'
  <2> SUFFICES ASSUME Authentic(hub, r.session) PROVE Initial(Unaccepted(r.events)', Waiting')
    BY <1>2 DEF Honest
  <2>1. Initial(Unaccepted(r.events), Waiting) /\ Unaccepted(r.events)' = Unaccepted(r.events) \ N
    BY <1>4, <1>5, <1>8 DEF Honest
  <2>2. Unaccepted(r.events)' \subseteq Waiting'
    <3>1. CASE leaderToken # 0
      BY <1>7, <2>1, <3>1 DEF Initial
    <3>2. CASE leaderToken = 0
      <4>1. r \in OnTheWire'
        BY <1>2, <1>8, <3>2 DEF OnTheWire
      <4> QED BY <1>2, <3>2, <4>1 DEF Waiting
    <3> QED BY <3>1, <3>2
  <2> QED BY <1>7, <2>1, <2>2 DEF Initial
<1>9. \A r \in strays : r.path # "register" => r \in EventRequests /\ Honest(r) /\ Wellformed(r)
  BY DEF LinkInv, WireHonest, WireFits, Wellformed, Proper
<1>10. Delivering(queue) => /\ leaderToken # 0 /\ queue.request \in EventRequests
                            /\ Honest(queue.request) /\ Wellformed(queue.request)
  BY DelivererIsKnown DEF LinkInv, WireHonest, WireFits, Wellformed, Proper
<1>11. welcome'.status = "ok" => welcome' = welcome
  BY DEF NoWelcome
<1>12. TypeOK'
  <2>1. welcome' \in [status : {"none", "ok", "superseded", "error"}, session : Nat, token : Nat]
    BY DEF LinkInv, TypeOK, NoWelcome
  <2>2. reply' \in Replies \cup {NoReply}
    BY DEF LinkInv, TypeOK, Answers
  <2>3. \A r \in strays' : r \in EventRequests \/ \E g \in 1 .. generation' : r = Registration(g)
    BY <1>2 DEF LinkInv, TypeOK
  <2> QED BY <1>1, <1>2, <2>1, <2>2, <2>3 DEF LinkInv, TypeOK
<1>13. QueueFits' /\ ReplyFits' /\ WireFits'
  <2>1. ReplyFits'
    BY DEF LinkInv, ReplyFits, Delivering
  <2>2. \A r : Wellformed(r)' <=> Wellformed(r)
    BY DEF Wellformed
  <2> QED BY <1>9, <1>10, <2>1, <2>2 DEF LinkInv, QueueFits, WireFits, Delivering
<1>14. ReplyTrue'
  <2> DEFINE fs == queue.request.events
  <2> SUFFICES ASSUME reply' # NoReply, ~queue.fenced, ~severed
               PROVE  /\ reply'.status \in {"ok", "complete"} => Unaccepted(fs)' = {}
                      /\ reply'.status = "acceptance_failed" =>
                           \A e \in Unaccepted(fs)' : e >= reply'.event
    BY <1>2 DEF ReplyTrue
  <2>1. Delivering(queue)
    BY DEF LinkInv, ReplyFits
  <2>2. Unaccepted(fs)' = Unaccepted(fs) \ N
    BY <1>4, <1>5, <2>1
  <2>3. CASE reply' = reply
    BY <2>2, <2>3 DEF LinkInv, ReplyTrue
  <2>4. CASE reply' # reply
    <3>1. Unaccepted(fs)' = {e \in Members(fs) : hub'.outcome[e] # "accepted"}
      BY DEF Unaccepted
    <3>2. reply'.status = "acceptance_failed" => reply'.event \in Members(fs)
      BY <2>4 DEF Answers
    <3>3. \A e \in Members(fs) : e \in Nat
      BY <1>5, <2>1, EventsAreNumbers
    <3> QED BY <2>4, <3>1, <3>2, <3>3
  <2> QED BY <2>3, <2>4
<1>15. WireHonest'
  <2>1. \A r \in strays' : r.path # "register" => Honest(r)'
    BY <1>8, <1>9
  <2>2. Delivering(queue)' => Honest(queue.request)'
    <3>1. Delivering(queue)' => Delivering(queue)
      BY DEF Delivering
    <3>2. \A r : r = queue.request /\ Delivering(queue) => Honest(r)'
      BY <1>8, <1>10
    <3>3. Delivering(queue) => Honest(queue.request)'
      BY <3>2 DEF Honest
    <3> QED BY <3>1, <3>3
  <2> QED BY <2>1, <2>2 DEF WireHonest
<1>16. NumbersFit'
  <2>1. welcome'.session <= sessions
    BY DEF LinkInv, NumbersFit, TypeOK, NoWelcome
  <2> QED BY <1>1, <1>2, <1>11, <2>1 DEF LinkInv, NumbersFit
<1>17. SessionsFit'
  <2>1. {r.session : r \in {x \in strays' : x.path # "register"}} \subseteq
        {r.session : r \in {x \in strays : x.path # "register"}}
    OBVIOUS
  <2> QED BY <1>1, <1>2, <2>1 DEF LinkInv, SessionsFit, Delivering
<1>18. NewcomerFits'
  BY <1>2, <1>6, <1>10, <1>11 DEF LinkInv, NewcomerFits
<1>19. HubFits'
  BY <1>1 DEF LinkInv, HubFits
<1>20. Moves
  <2>1. CASE N # {} \/ F # {}
    <3>1. leaderToken = 0 => Initial(Waiting', Waiting \ N)
      <4> SUFFICES ASSUME leaderToken = 0, NEW x \in Waiting', NEW e \in Waiting \ N, e < x
                   PROVE  e \in Waiting'
        BY <1>7 DEF Initial
      <4>1. PICK r \in OnTheWire' : x \in Unaccepted(r.events)'
        BY <1>2 DEF Waiting
      <4>2. Initial(Unaccepted(r.events), Waiting) /\ Unaccepted(r.events)' = Unaccepted(r.events) \ N
        BY <1>4, <1>5, <1>6, <1>9, <4>1 DEF Honest, OnTheWire
      <4>3. e \in Unaccepted(r.events)'
        BY <4>1, <4>2 DEF Initial
      <4> QED BY <1>2, <4>1, <4>3 DEF Waiting
    <3> QED BY <1>1, <1>2, <1>7, <2>1, <3>1, ChannelAccepts DEF Moves, Channel!Next
  <2>2. CASE N = {} /\ F = {}
    <3>1. hub'.log = hub.log /\ hub'.outcome = hub.outcome
      <4>1. hub'.log = hub.log \o <<>> /\ hub.log \in Seq(Event)
        BY <2>2, NothingAscends DEF Takes, LinkInv, TypeOK, Hubs
      <4>2. hub'.outcome = [e \in Event |-> hub.outcome[e]]
        BY <1>1, <2>2
      <4> QED BY <4>1, <4>2, ConcatEmptySeq DEF LinkInv, TypeOK, Hubs
    <3>2. CASE leaderToken # 0
      BY <1>1, <1>2, <1>7, <2>2, <3>1, <3>2, StutterIs DEF Moves
    <3>3. CASE leaderToken = 0
      <4>1. Initial(Waiting', Waiting)
        <5> SUFFICES ASSUME NEW x \in Waiting', NEW e \in Waiting, e < x PROVE e \in Waiting'
          BY <1>7 DEF Initial
        <5>1. PICK r \in OnTheWire' : x \in Unaccepted(r.events)'
          BY <1>2, <3>3 DEF Waiting
        <5>2. Initial(Unaccepted(r.events), Waiting) /\ Unaccepted(r.events)' = Unaccepted(r.events)
          BY <1>4, <1>5, <1>6, <1>9, <2>2, <5>1 DEF Honest, OnTheWire
        <5>3. e \in Unaccepted(r.events)'
          BY <5>1, <5>2 DEF Initial
        <5> QED BY <1>2, <3>3, <5>1, <5>3 DEF Waiting
      <4> QED BY <1>2, <3>1, <3>3, <4>1, ChannelLoses DEF Moves, Channel!Next
    <3> QED BY <3>2, <3>3
  <2> QED BY <2>1, <2>2
<1> QED BY <1>12, <1>13, <1>14, <1>15, <1>16, <1>17, <1>18, <1>19, <1>20 DEF LinkInv

\* An answer the hub gives.
LEMMA HandledTakes ==
  ASSUME LinkInv, NEW r, Wellformed(r), NEW a, a \in {Usual(r)} \cup Unusual(r)
  PROVE  /\ \E N, F : Takes(hub, a.hub, r.events, N, F)
         /\ Truthful(a.reply, a.hub, r.events) /\ Answers(a.reply, r)
         /\ ~Authentic(hub, r.session) => a.hub = hub
<1>1. PICK bad, full : a = Handle(hub, r, bad, full)
  BY DEF Usual, Unusual
<1>2. Proper(r) /\ hub \in Hubs
  BY DEF Wellformed, LinkInv, TypeOK
<1>3. /\ \E N, F : Takes(hub, a.hub, r.events, N, F)
      /\ Truthful(a.reply, a.hub, r.events)
      /\ a.reply.status = "ok" => r.path = "events"
      /\ a.reply.status \in {"complete", "fragment"} => r.path = "transfer"
      /\ ~Authentic(hub, r.session) => a.hub = hub
  BY <1>1, <1>2, HandleTakes
<1> QED BY <1>3 DEF Answers, Truthful

\* Of a request of a session the leader knows, it takes what comes first in what waits.
LEMMA HandledFirst ==
  ASSUME LinkInv, NEW r, Wellformed(r), Honest(r), NEW a, a \in {Usual(r)} \cup Unusual(r)
  PROVE  \E N, F : /\ Takes(hub, a.hub, r.events, N, F)
                   /\ N # {} \/ F # {} => Initial(Unaccepted(r.events), Waiting)
<1>1. CASE Authentic(hub, r.session)
  BY <1>1, HandledTakes DEF Honest
<1>2. CASE ~Authentic(hub, r.session)
  <2>1. a.hub = hub /\ hub \in Hubs
    BY <1>2, HandledTakes DEF LinkInv, TypeOK
  <2>2. Takes(hub, a.hub, r.events, {}, {})
    BY <2>1, TakesNothing
  <2> QED BY <2>2
<1> QED BY <1>1, <1>2

\* A step is at most one fault.
LEMMA FaultsBounded ==
  ASSUME LinkInv, faults' = faults \/ Fault
  PROVE  faults' \in 0 .. MaxFaults
BY FaultsAssumption DEF LinkInv, TypeOK, Fault

LEMMA HandleRequestKeeps == ASSUME LinkInv, HandleRequest PROVE LinkInv' /\ Moves
<1> DEFINE r == queue.request
<1>1. PICK a \in {Usual(r)} \cup Unusual(r) : Handled(r, a) /\ hub' = a.hub /\ reply' = a.reply
  BY DEF HandleRequest
<1>2. /\ Delivering(queue) /\ UNCHANGED <<queue, follower, welcome, strays, emitted, sessions>>
      /\ faults' \in 0 .. MaxFaults
  BY <1>1, FaultsBounded DEF HandleRequest, Handled
<1>3. Wellformed(r) /\ Honest(r)
  BY <1>2 DEF LinkInv, WireFits, WireHonest
<1>4. PICK N, F : /\ Takes(hub, hub', r.events, N, F)
                  /\ N # {} \/ F # {} => Initial(Unaccepted(r.events), Waiting)
  BY <1>1, <1>3, HandledFirst
<1>5. Truthful(reply', hub', r.events) /\ Answers(reply', r)
  BY <1>1, <1>3, HandledTakes
<1>6. \A e \in Members(r.events) : e <= emitted
  BY <1>3 DEF Wellformed
<1>7. /\ reply'.status \in {"ok", "complete"} =>
           \A e \in Members(r.events) : hub'.outcome[e] = "accepted"
      /\ reply'.status = "acceptance_failed" =>
           \A e \in Members(r.events) : e < reply'.event => hub'.outcome[e] = "accepted"
  BY <1>5 DEF Truthful
<1> QED BY <1>2, <1>4, <1>5, <1>6, <1>7, HubKeeps

\* Nothing is taken when nothing but what was staged changes.
LEMMA IdleHubKeeps ==
  ASSUME LinkInv, UNCHANGED <<queue, follower, reply, emitted, sessions>>, faults' \in 0 .. MaxFaults,
         hub' \in {hub, Discard(hub)}, strays' \subseteq strays,
         \/ welcome' = welcome
         \/ welcome' = [NoWelcome EXCEPT !.status = "superseded"]
  PROVE  LinkInv' /\ Moves
<1>1. hub \in Hubs
  BY DEF LinkInv, TypeOK
<1>2. /\ hub' \in Hubs /\ hub'.log = hub.log /\ hub'.outcome = hub.outcome
      /\ hub'.token = hub.token /\ hub'.generation = hub.generation
      /\ hub'.session = hub.session /\ hub'.superseded = hub.superseded
  BY <1>1, DiscardKeeps
<1>3. Takes(hub, hub', <<>>, {}, {})
  BY <1>1, <1>2, TakesNothing
<1>4. \A e \in Members(<<>>) : e <= emitted
  BY DEF Members
<1> QED BY <1>3, <1>4, HubKeeps

LEMMA StagingExpiresKeeps == ASSUME LinkInv, StagingExpires PROVE LinkInv' /\ Moves
<1>1. /\ UNCHANGED <<queue, reply, follower, welcome, strays, emitted, sessions>>
      /\ hub' = Discard(hub) /\ faults' \in 0 .. MaxFaults
  BY FaultsBounded DEF StagingExpires
<1> QED BY <1>1, IdleHubKeeps

\* A registration gives a new session, and no other is known to the leader any more.
LEMMA RegisterKeeps ==
  ASSUME LinkInv, UNCHANGED <<queue, follower, reply, emitted, faults>>, sessions' = sessions + 1,
         NEW g \in 1 .. generation, hub' = Register(hub, g, sessions + 1), strays' \subseteq strays,
         \/ welcome' = welcome
         \/ welcome' = [status |-> "ok", session |-> sessions + 1, token |-> hub.token]
  PROVE  LinkInv' /\ Moves
<1>1. /\ generation' = generation /\ session' = session /\ leaderToken' = leaderToken
      /\ sendTimer' = sendTimer /\ loop' = loop
  BY DEF follower
<1>2. hub \in Hubs /\ generation \in Nat \ {0} /\ sessions \in Nat /\ g \in Nat \ {0}
  BY DEF LinkInv, TypeOK
<1>3. /\ hub' \in Hubs /\ hub'.token = hub.token /\ hub'.generation = g
      /\ hub'.session = sessions + 1 /\ hub'.outcome = hub.outcome /\ hub'.log = hub.log
  <2> DEFINE s == sessions + 1
             x == [hub EXCEPT !.generation = g, !.session = s]
             old == hub.superseded \cup {hub.generation}
             y == [hub EXCEPT !.generation = g, !.session = s, !.staging = NoStaging, !.superseded = old]
  <2>1. hub' = x \/ hub' = y
    BY DEF Register
  <2>2. s \in Nat /\ old \in SUBSET Nat
    BY <1>2 DEF Hubs
  <2> HIDE DEF s, old, NoStaging
  <2>3. /\ x \in Hubs /\ x.token = hub.token /\ x.generation = g
        /\ x.session = s /\ x.outcome = hub.outcome /\ x.log = hub.log
    BY <1>2, <2>2 DEF Hubs
  <2>4. /\ y \in Hubs /\ y.token = hub.token /\ y.generation = g
        /\ y.session = s /\ y.outcome = hub.outcome /\ y.log = hub.log
    BY <1>2, <2>2 DEF Hubs
  <2> HIDE DEF x, y
  <2> QED BY <2>1, <2>3, <2>4 DEF s
<1>4. \A s : s <= sessions => ~Authentic(hub', s)
  BY <1>2, <1>3 DEF Authentic
<1>5. /\ \A r \in strays' : r.path # "register" => ~Authentic(hub', r.session)
      /\ Delivering(queue) => ~Authentic(hub', queue.request.session)
      /\ \A s \in {session, queue.envelope, queue.waiter} : ~Authentic(hub', s)
  BY <1>4 DEF LinkInv, WireFits, Wellformed, NumbersFit
<1>6. OnTheWire' = {} /\ severed' = severed
  BY <1>1, <1>3, <1>5 DEF OnTheWire, severed
<1>7. \A fs : Unaccepted(fs)' = Unaccepted(fs)
  BY <1>3 DEF Unaccepted
<1>8. Waiting' = IF leaderToken = 0 THEN {} ELSE Waiting
  <2>1. Unaccepted(queue.events)' = Unaccepted(queue.events)
    BY <1>3 DEF Unaccepted
  <2> QED BY <1>1, <1>6, <2>1 DEF Waiting
<1>9. TypeOK'
  <2>1. welcome' \in [status : {"none", "ok", "superseded", "error"}, session : Nat, token : Nat]
    BY <1>2 DEF LinkInv, TypeOK, Hubs
  <2>2. \A r \in strays' : r \in EventRequests \/ \E n \in 1 .. generation' : r = Registration(n)
    BY <1>1 DEF LinkInv, TypeOK
  <2>3. sessions' \in Nat
    BY <1>2
  <2> QED BY <1>1, <1>3, <2>1, <2>2, <2>3 DEF LinkInv, TypeOK
<1>10. QueueFits' /\ ReplyFits' /\ HubFits'
  BY <1>3 DEF LinkInv, QueueFits, ReplyFits, Delivering, HubFits
<1>11. ReplyTrue'
  BY <1>3, <1>6 DEF LinkInv, ReplyTrue, Unaccepted
<1>12. WireFits'
  <2>1. \A s : s \in Nat /\ s <= sessions => s <= sessions'
    BY <1>2
  <2>2. ASSUME NEW r, Wellformed(r) PROVE Wellformed(r)'
    <3>1. r.session \in Nat
      BY <2>2 DEF Wellformed, Proper, EventRequests
    <3> QED BY <2>1, <2>2, <3>1 DEF Wellformed
  <2>3. Delivering(queue)' => Wellformed(queue.request)'
    <3> SUFFICES ASSUME Delivering(queue) PROVE Wellformed(queue.request)'
      BY DEF Delivering
    <3>1. Wellformed(queue.request)
      BY DEF LinkInv, WireFits
    <3>2. queue.request.session \in Nat
      BY <3>1 DEF Wellformed, Proper, EventRequests
    <3> QED BY <2>1, <3>1, <3>2 DEF Wellformed
  <2> QED BY <2>2, <2>3 DEF LinkInv, WireFits
<1>13. WireHonest'
  BY <1>5 DEF WireHonest, Honest, Delivering
<1>14. NumbersFit'
  <2>1. /\ session \in Nat /\ queue.envelope \in Nat /\ queue.waiter \in Nat
        /\ welcome.session \in Nat /\ hub.token \in Nat \ {0} /\ leaderToken \in Nat
    BY <1>2 DEF LinkInv, TypeOK, Queues, Hubs
  <2>2. /\ session <= sessions' /\ queue.envelope <= sessions' /\ queue.waiter <= sessions'
        /\ welcome.session <= sessions' /\ sessions + 1 <= sessions'
    BY <1>2, <2>1 DEF LinkInv, NumbersFit
  <2>3. sessions + 1 # 0
    BY <1>2
  <2>4. CASE welcome' = welcome
    <3>1. ~Authentic(hub', welcome.session)
      BY <1>4 DEF LinkInv, NumbersFit
    <3> QED BY <1>1, <1>3, <2>2, <2>3, <2>4, <3>1 DEF LinkInv, NumbersFit
  <2>5. CASE welcome' = [status |-> "ok", session |-> sessions + 1, token |-> hub.token]
    <3>1. welcome'.session = sessions + 1 /\ welcome'.token = hub.token
      BY <2>5
    <3>2. leaderToken <= hub.token /\ hub.token <= hub.token
      BY <2>1 DEF LinkInv, NumbersFit
    <3> QED BY <1>1, <1>3, <2>1, <2>2, <2>3, <3>1, <3>2 DEF NumbersFit
  <2> QED BY <2>4, <2>5
<1>15. SessionsFit'
  BY <1>1, <1>5 DEF SessionsFit, Delivering
<1>16. NewcomerFits'
  BY <1>1, <1>6 DEF LinkInv, NewcomerFits
<1>17. Moves
  <2>1. CASE leaderToken # 0
    BY <1>1, <1>3, <1>8, <2>1, StutterIs DEF Moves
  <2>2. CASE leaderToken = 0
    <3>1. Initial(Waiting', Waiting)
      BY <1>8, <2>2 DEF Initial
    <3> QED BY <1>1, <1>3, <2>2, <3>1, ChannelLoses DEF Moves, Channel!Next
  <2> QED BY <2>1, <2>2
<1> QED BY <1>9, <1>10, <1>11, <1>12, <1>13, <1>14, <1>15, <1>16, <1>17 DEF LinkInv

LEMMA HandleRegistrationKeeps == ASSUME LinkInv, HandleRegistration PROVE LinkInv' /\ Moves
<1>1. UNCHANGED <<queue, reply, follower, strays, emitted, faults>>
  BY DEF HandleRegistration
<1>2. CASE Refused(hub, generation)
  <2>1. welcome' = [NoWelcome EXCEPT !.status = "superseded"] /\ UNCHANGED <<hub, sessions>>
    BY <1>2 DEF HandleRegistration
  <2>2. faults' \in 0 .. MaxFaults
    BY <1>1 DEF LinkInv, TypeOK
  <2> QED BY <1>1, <2>1, <2>2, IdleHubKeeps
<1>3. CASE ~Refused(hub, generation)
  <2>1. /\ sessions' = sessions + 1 /\ hub' = Register(hub, generation, sessions + 1)
        /\ welcome' = [status |-> "ok", session |-> sessions + 1, token |-> hub.token]
    BY <1>3 DEF HandleRegistration
  <2>2. generation \in 1 .. generation
    BY DEF LinkInv, TypeOK
  <2> QED BY <1>1, <2>1, <2>2, RegisterKeeps
<1> QED BY <1>2, <1>3

LEMMA HandleStrayKeeps == ASSUME LinkInv, HandleStray PROVE LinkInv' /\ Moves
<1>1. PICK r \in strays :
        /\ strays' = strays \ {r}
        /\ IF r.path = "register"
           THEN IF Refused(hub, r.generation) THEN UNCHANGED <<hub, sessions, faults>>
                ELSE /\ sessions' = sessions + 1
                     /\ hub' = Register(hub, r.generation, sessions + 1)
                     /\ UNCHANGED faults
           ELSE /\ \E a \in {Usual(r)} \cup Unusual(r) : Handled(r, a) /\ hub' = a.hub
                /\ UNCHANGED sessions
        /\ UNCHANGED <<queue, reply, follower, welcome, emitted>>
  BY DEF HandleStray
<1>2. strays' \subseteq strays
  BY <1>1
<1>3. CASE r.path = "register" /\ Refused(hub, r.generation)
  <2>1. faults' \in 0 .. MaxFaults
    BY <1>1, <1>3 DEF LinkInv, TypeOK
  <2> QED BY <1>1, <1>2, <1>3, <2>1, IdleHubKeeps
<1>4. CASE r.path = "register" /\ ~Refused(hub, r.generation)
  <2>1. r.generation \in 1 .. generation
    <3>1. r \notin EventRequests
      BY <1>4 DEF EventRequests
    <3>2. PICK n \in 1 .. generation : r = Registration(n)
      BY <3>1 DEF LinkInv, TypeOK
    <3> QED BY <3>2 DEF Registration
  <2> QED BY <1>1, <1>2, <1>4, <2>1, RegisterKeeps
<1>5. CASE r.path # "register"
  <2>1. PICK a \in {Usual(r)} \cup Unusual(r) : Handled(r, a) /\ hub' = a.hub
    BY <1>1, <1>5
  <2>2. faults' \in 0 .. MaxFaults /\ sessions' = sessions
    BY <1>1, <1>5, <2>1, FaultsBounded DEF Handled
  <2>3. Wellformed(r) /\ Honest(r)
    BY <1>5 DEF LinkInv, WireFits, WireHonest
  <2>4. PICK N, F : /\ Takes(hub, hub', r.events, N, F)
                    /\ N # {} \/ F # {} => Initial(Unaccepted(r.events), Waiting)
    BY <2>1, <2>3, HandledFirst
  <2>5. \A e \in Members(r.events) : e <= emitted
    BY <2>3 DEF Wellformed
  <2> QED BY <1>1, <1>2, <2>2, <2>4, <2>5, HubKeeps
<1> QED BY <1>3, <1>4, <1>5

\* A new leader has accepted nothing.
LEMMA NewHubIs ==
  ASSUME NEW t \in Nat \ {0}
  PROVE  /\ NewHub(t) \in Hubs /\ NewHub(t).token = t /\ NewHub(t).generation = 0
         /\ NewHub(t).session = 0 /\ NewHub(t).log = <<>>
         /\ NewHub(t).outcome = [e \in Event |-> "none"]
<1> DEFINE o == [e \in Event |-> "none"]
           sup == {}
           log == <<>>
           h == [token |-> t, generation |-> 0, session |-> 0, superseded |-> sup,
                 outcome |-> o, staging |-> NoStaging, log |-> log]
<1>1. o \in [Event -> Outcomes] /\ sup \in SUBSET Nat /\ log \in Seq(Event)
  BY DEF Outcomes
<1>2. NewHub(t) = h
  BY DEF NewHub
<1> HIDE DEF o, sup, log, NoStaging
<1>3. /\ h \in Hubs /\ h.token = t /\ h.generation = 0 /\ h.session = 0
      /\ h.log = log /\ h.outcome = o
  BY <1>1 DEF Hubs
<1> HIDE DEF h
<1> QED BY <1>2, <1>3 DEF o, log

LEMMA LeaderRestartsKeeps == ASSUME LinkInv, LeaderRestarts PROVE LinkInv' /\ Moves
<1>1. /\ hub' = NewHub(hub.token + 1) /\ strays' = {} /\ faults' \in 0 .. MaxFaults
      /\ UNCHANGED <<queue, generation, session, leaderToken, sendTimer, loop, emitted, sessions>>
      /\ reply' = IF Delivering(queue) /\ reply = NoReply THEN [status |-> "error"] ELSE reply
      /\ welcome' \in {welcome, [NoWelcome EXCEPT !.status = "error"]}
  BY FaultsBounded DEF LeaderRestarts, follower
<1>2. hub.token \in Nat \ {0} /\ leaderToken \in Nat /\ leaderToken <= hub.token
  BY DEF LinkInv, TypeOK, Hubs, NumbersFit
<1>3. /\ hub' \in Hubs /\ hub'.token = hub.token + 1 /\ hub'.generation = 0
      /\ hub'.session = 0 /\ hub'.log = <<>> /\ hub'.outcome = [e \in Event |-> "none"]
  BY <1>1, <1>2, NewHubIs
<1>4. \A s : ~Authentic(hub', s)
  BY <1>3 DEF Authentic
<1>5. severed' = (leaderToken # 0)
  BY <1>1, <1>2, <1>3 DEF severed
<1>6. Waiting' = {}
  <2>1. OnTheWire' = {}
    BY <1>1 DEF OnTheWire
  <2> QED BY <1>1, <1>5, <2>1 DEF Waiting
<1>7. Answers([status |-> "error"], queue.request)
  BY DEF Answers, Replies
<1>8. welcome'.status = "ok" => welcome' = welcome
  BY <1>1 DEF NoWelcome
<1>9. TypeOK'
  <2>1. welcome' \in [status : {"none", "ok", "superseded", "error"}, session : Nat, token : Nat]
    BY <1>1 DEF LinkInv, TypeOK, NoWelcome
  <2>2. reply' \in Replies \cup {NoReply}
    BY <1>1, <1>7 DEF LinkInv, TypeOK, Answers
  <2> QED BY <1>1, <1>3, <2>1, <2>2 DEF LinkInv, TypeOK
<1>10. QueueFits' /\ ReplyFits'
  BY <1>1, <1>7 DEF LinkInv, QueueFits, ReplyFits, Delivering
<1>11. ReplyTrue'
  <2>1. CASE leaderToken # 0
    BY <1>5, <2>1 DEF ReplyTrue
  <2>2. CASE leaderToken = 0
    <3>1. ~Delivering(queue) /\ reply = NoReply
      BY <2>2, DelivererIsKnown DEF LinkInv, NewcomerFits
    <3> QED BY <1>1, <3>1 DEF ReplyTrue
  <2> QED BY <2>1, <2>2
<1>12. WireFits' /\ WireHonest' /\ HubFits'
  BY <1>1, <1>3, <1>4 DEF LinkInv, WireFits, WireHonest, Honest, Delivering, Wellformed, HubFits
<1>13. NumbersFit'
  <2>1. welcome'.session <= sessions /\ sessions \in Nat
    BY <1>1 DEF LinkInv, NumbersFit, TypeOK, NoWelcome
  <2>2. welcome'.status = "ok" =>
          leaderToken <= welcome'.token /\ welcome'.token <= hub.token + 1 /\ welcome'.token # 0
    BY <1>2, <1>8 DEF LinkInv, NumbersFit, TypeOK
  <2>3. leaderToken <= hub.token + 1
    BY <1>2
  <2> QED BY <1>1, <1>3, <1>4, <2>1, <2>2, <2>3 DEF LinkInv, NumbersFit
<1>14. SessionsFit'
  BY <1>1, <1>4 DEF SessionsFit
<1>15. NewcomerFits'
  <2>1. leaderToken = 0 => ~Delivering(queue)
    BY DelivererIsKnown
  <2>2. OnTheWire' = {}
    BY <1>1 DEF OnTheWire
  <2> QED BY <1>1, <2>1, <2>2 DEF LinkInv, NewcomerFits
<1>16. Channel!Replace
  <2>1. Pending' = <<>>
    BY <1>6, NothingAscends DEF Pending
  <2>2. {e \in Event : hub'.outcome[e] = "failed"} = {}
    BY <1>3
  <2>3. severed' \in IF leaderToken = 0 THEN {FALSE} ELSE BOOLEAN
    BY <1>5
  <2> QED BY <1>1, <1>3, <2>1, <2>2, <2>3 DEF Channel!Replace
<1> QED BY <1>9, <1>10, <1>11, <1>12, <1>13, <1>14, <1>15, <1>16 DEF LinkInv, Moves, Channel!Next

-----------------------------------------------------------------------------
(* Starts and ends of a follower's process.                                   *)

\* A queue that nothing was put in.
LEMMA NewQueueIs ==
  /\ NewQueue \in Queues /\ NewQueue.events = <<>> /\ NewQueue.fenced = FALSE
  /\ NewQueue.request = NoRequest /\ NewQueue.envelope = 0 /\ NewQueue.waiter = 0
  /\ ~Delivering(NewQueue) /\ Members(NewQueue.events) = {}
  /\ \A top : QueueOK(NewQueue, top)
<1> DEFINE none == <<>>
           q == [events |-> none, batched |-> 0, transferring |-> FALSE, index |-> 0, stuck |-> 0,
                 request |-> NoRequest, envelope |-> 0, fenced |-> FALSE, waiter |-> 0]
<1>1. none \in Seq(Event) /\ NoRequest \in EventRequests \cup {NoRequest}
  OBVIOUS
<1>2. 0 \in 0 .. BatchMax /\ 0 \in 0 .. Fragments - 1 /\ 0 \in 0 .. MaxEvents
  BY QueueAssumption, ProtocolAssumption
<1>3. NewQueue = q
  BY DEF NewQueue
<1>4. Ascends(none) /\ Members(none) = {} /\ Len(none) = 0
  BY DEF Ascends, Members
<1> HIDE DEF none, NoRequest
<1>5. /\ q \in Queues /\ q.events = none /\ q.fenced = FALSE /\ q.request = NoRequest
      /\ q.envelope = 0 /\ q.waiter = 0 /\ q.batched = 0 /\ q.transferring = FALSE
  BY <1>1, <1>2 DEF Queues
<1> HIDE DEF q
<1>6. \A top : QueueOK(q, top)
  BY <1>4, <1>5 DEF QueueOK
<1> QED BY <1>3, <1>4, <1>5, <1>6 DEF Delivering, none

LEMMA FollowerRestartsKeeps == ASSUME LinkInv, FollowerRestarts PROVE LinkInv' /\ Moves
<1>1. /\ generation' = generation + 1 /\ hub' \in {hub, Unregister(hub)}
      /\ strays' = strays \cup (IF Delivering(queue) /\ reply = NoReply THEN {queue.request} ELSE {})
                          \cup (IF loop = "registering" /\ welcome = NoWelcome
                                THEN {Registration(generation)} ELSE {})
      /\ queue' = NewQueue /\ reply' = NoReply /\ session' = 0 /\ leaderToken' = 0
      /\ sendTimer' = FALSE /\ loop' = "registering" /\ welcome' = NoWelcome
      /\ emitted' = emitted /\ sessions' = sessions /\ faults' \in 0 .. MaxFaults
  BY FaultsBounded DEF FollowerRestarts
<1>2. hub \in Hubs /\ generation \in Nat \ {0}
  BY DEF LinkInv, TypeOK
<1>3. /\ hub' \in Hubs /\ hub'.token = hub.token /\ hub'.outcome = hub.outcome /\ hub'.log = hub.log
      /\ \/ hub'.generation = hub.generation /\ hub'.session = hub.session
         \/ hub'.generation = 0 /\ hub'.session = 0
  <2> DEFINE x == [hub EXCEPT !.generation = 0, !.session = 0, !.staging = NoStaging]
  <2>1. hub' = hub \/ hub' = x
    BY <1>1 DEF Unregister
  <2> HIDE DEF NoStaging
  <2>2. /\ x \in Hubs /\ x.token = hub.token /\ x.generation = 0
        /\ x.session = 0 /\ x.outcome = hub.outcome /\ x.log = hub.log
    BY <1>2 DEF Hubs
  <2>3. x.session = 0
    BY <1>2 DEF Hubs
  <2> HIDE DEF x
  <2>4. CASE hub' = hub
    BY <1>2, <2>4
  <2>5. CASE hub' = x
    BY <2>2, <2>3, <2>5
  <2> QED BY <2>1, <2>4, <2>5
<1>4. \A s : Authentic(hub', s) => Authentic(hub, s)
  BY <1>3 DEF Authentic
<1>5. ASSUME NEW r \in strays', r.path # "register"
      PROVE  r \in EventRequests /\ Wellformed(r) /\ Honest(r)
  <2>1. CASE r \in strays
    BY <1>5, <2>1 DEF LinkInv, WireFits, WireHonest, Wellformed, Proper
  <2>2. CASE r \notin strays
    <3>1. r = queue.request /\ Delivering(queue)
      BY <1>1, <1>5, <2>2 DEF Registration
    <3> QED BY <3>1 DEF LinkInv, WireFits, WireHonest, Wellformed, Proper
  <2> QED BY <2>1, <2>2
<1>6. \A r \in OnTheWire' : r \in strays' /\ r.path # "register" /\ Authentic(hub, r.session)
  BY <1>4 DEF OnTheWire
<1>7. Waiting' = UNION {Unaccepted(r.events) : r \in OnTheWire'}
  <2>1. Waiting' = UNION {Unaccepted(r.events)' : r \in OnTheWire'}
    BY <1>1 DEF Waiting
  <2>2. \A r \in OnTheWire' : Unaccepted(r.events)' = Unaccepted(r.events)
    BY <1>3 DEF Unaccepted
  <2> QED BY <2>1, <2>2
<1>8. \A r \in OnTheWire' : Initial(Unaccepted(r.events), Waiting)
  BY <1>5, <1>6 DEF Honest
<1>9. Initial(Waiting', Waiting)
  <2> SUFFICES ASSUME NEW x \in Waiting' PROVE x \in Waiting /\ \A e \in Waiting : e < x => e \in Waiting'
    BY DEF Initial
  <2>1. PICK r \in OnTheWire' : x \in Unaccepted(r.events)
    BY <1>7
  <2>2. Initial(Unaccepted(r.events), Waiting) /\ Unaccepted(r.events) \subseteq Waiting'
    BY <1>7, <1>8
  <2> QED BY <2>1, <2>2 DEF Initial
<1>10. TypeOK'
  <2>1. welcome' \in [status : {"none", "ok", "superseded", "error"}, session : Nat, token : Nat]
    BY <1>1 DEF NoWelcome
  <2>2. \A r \in strays' : r \in EventRequests \/ \E g \in 1 .. generation' : r = Registration(g)
    <3> SUFFICES ASSUME NEW r \in strays', r \notin EventRequests
                 PROVE  \E g \in 1 .. generation + 1 : r = Registration(g)
      BY <1>1
    <3>1. CASE r \in strays
      <4>1. PICK g \in 1 .. generation : r = Registration(g)
        BY <3>1 DEF LinkInv, TypeOK
      <4>2. g \in 1 .. generation + 1
        BY <1>2
      <4> QED BY <4>1, <4>2
    <3>2. CASE r \notin strays
      <4>1. Delivering(queue) => queue.request \in EventRequests
        BY DEF LinkInv, TypeOK, Queues, Delivering
      <4>2. r = Registration(generation) /\ generation \in 1 .. generation + 1
        BY <1>1, <1>2, <3>2, <4>1
      <4> QED BY <4>2
    <3> QED BY <3>1, <3>2
  <2>3. generation' \in Nat \ {0} /\ queue' \in Queues
    BY <1>1, <1>2, NewQueueIs
  <2> QED BY <1>1, <1>3, <2>1, <2>2, <2>3 DEF LinkInv, TypeOK
<1>11. QueueFits' /\ ReplyFits' /\ ReplyTrue' /\ HubFits'
  BY <1>1, <1>3, NewQueueIs DEF LinkInv, QueueFits, ReplyFits, ReplyTrue, HubFits
<1>12. WireFits'
  <2>1. \A r : Wellformed(r)' <=> Wellformed(r)
    BY <1>1 DEF Wellformed
  <2>2. ~Delivering(queue)'
    BY <1>1, NewQueueIs DEF Delivering
  <2> QED BY <1>5, <2>1, <2>2 DEF WireFits
<1>13. WireHonest'
  <2>1. ASSUME NEW r \in strays', r.path # "register" PROVE Honest(r)'
    <3> SUFFICES ASSUME Authentic(hub', r.session) PROVE Initial(Unaccepted(r.events)', Waiting')
      BY DEF Honest
    <3>1. r \in OnTheWire' /\ Unaccepted(r.events)' = Unaccepted(r.events)
      BY <1>3, <2>1 DEF OnTheWire, Unaccepted
    <3>2. Initial(Unaccepted(r.events), Waiting) /\ Unaccepted(r.events) \subseteq Waiting'
      BY <1>7, <1>8, <3>1
    <3> QED BY <1>9, <3>1, <3>2 DEF Initial
  <2>2. ~Delivering(queue)'
    BY <1>1, NewQueueIs DEF Delivering
  <2> QED BY <2>1, <2>2 DEF WireHonest
<1>14. NumbersFit'
  <2>1. sessions \in Nat /\ hub'.token \in Nat
    BY <1>3 DEF LinkInv, TypeOK, Hubs
  <2>2. hub'.session <= sessions /\ (hub'.generation # 0 => hub'.session # 0)
    BY <1>3, <2>1 DEF LinkInv, NumbersFit
  <2> QED BY <1>1, <2>1, <2>2, NewQueueIs DEF NumbersFit, NoWelcome
<1>15. SessionsFit' /\ NewcomerFits'
  BY <1>1 DEF SessionsFit, NewcomerFits, NoWelcome
<1>16. Moves
  BY <1>1, <1>3, <1>9, ChannelLoses DEF Moves, Channel!Next
<1> QED BY <1>10, <1>11, <1>12, <1>13, <1>14, <1>15, <1>16 DEF LinkInv

\* An event is emitted behind all others.
LEMMA EmitKeeps == ASSUME LinkInv, Emit PROVE LinkInv' /\ Moves
<1> DEFINE n == emitted + 1
           es == Append(queue.events, n)
<1>1. /\ leaderToken # 0 /\ emitted < MaxEvents /\ emitted' = n /\ queue' = Enqueue(queue, n)
      /\ sendTimer' = (sendTimer \/ ~IsFlushing(queue))
      /\ UNCHANGED <<hub, reply, generation, session, leaderToken, loop, welcome, strays, sessions,
                     faults>>
  BY DEF Emit
<1>2. emitted \in Nat /\ n \in Event /\ n \in Nat /\ emitted' \in 0 .. MaxEvents
  BY <1>1, ProtocolAssumption DEF LinkInv, TypeOK, Event
<1>3. /\ queue.events \in Seq(Event) /\ queue.events \in Seq(Nat) /\ Len(queue.events) \in Nat
      /\ Ascends(queue.events) /\ \A e \in Members(queue.events) : e <= emitted /\ e \in Nat
  <2>1. queue.events \in Seq(Event) /\ Ascends(queue.events) /\ \A e \in Members(queue.events) : e <= emitted
    BY DEF LinkInv, QueueFits, QueueOK, Queues
  <2>2. queue.events \in Seq(Nat)
    BY <2>1, EventsAreNumbers, SeqMonotonic
  <2> QED BY <2>1, <2>2, LenProperties, MembersOf
<1>4. /\ es \in Seq(Event) /\ Len(es) = Len(queue.events) + 1 /\ es[Len(queue.events) + 1] = n
      /\ \A i \in 1 .. Len(queue.events) : es[i] = queue.events[i]
  BY <1>2, <1>3, AppendProperties
<1> HIDE DEF es, n
<1>5. \A i \in 1 .. Len(es) : i \in 1 .. Len(queue.events) \/ i = Len(queue.events) + 1
  BY <1>3, <1>4
<1>6. \A i \in 1 .. Len(queue.events) : queue.events[i] \in Members(queue.events)
  BY <1>3, MembersOf
<1>7. Members(es) = Members(queue.events) \cup {n}
  <2>1. Len(queue.events) + 1 \in 1 .. Len(es) /\ \A i \in 1 .. Len(queue.events) : i \in 1 .. Len(es)
    BY <1>3, <1>4
  <2>2. Members(es) = {es[i] : i \in 1 .. Len(es)} /\ Members(queue.events) = {queue.events[i] : i \in 1 .. Len(queue.events)}
    BY DEF Members
  <2> QED BY <1>4, <1>5, <2>1, <2>2
<1>8. Ascends(es)
  <2> SUFFICES ASSUME NEW i \in 1 .. Len(es), NEW j \in 1 .. Len(es), i < j PROVE es[i] < es[j]
    BY DEF Ascends
  <2>1. i \in 1 .. Len(queue.events)
    BY <1>3, <1>4
  <2>2. CASE j \in 1 .. Len(queue.events)
    BY <1>3, <1>4, <2>1, <2>2 DEF Ascends
  <2>3. CASE j = Len(queue.events) + 1
    BY <1>2, <1>3, <1>4, <1>6, <2>1, <2>3 DEF n
  <2> QED BY <1>5, <2>2, <2>3
<1>9. /\ queue' \in Queues /\ queue'.events = es /\ queue'.batched = queue.batched
      /\ queue'.transferring = queue.transferring /\ queue'.request = queue.request
      /\ queue'.envelope = queue.envelope /\ queue'.waiter = queue.waiter
      /\ queue'.fenced = queue.fenced
  <2>1. queue' = [queue EXCEPT !.events = es] /\ queue \in Queues
    BY <1>1 DEF Enqueue, LinkInv, TypeOK, es
  <2> QED BY <1>4, <2>1 DEF Queues
<1>10. QueueFits'
  <2>1. QueueOK(queue', emitted')
    <3>1. \A e \in Members(es) : e <= n
      BY <1>2, <1>3, <1>7 DEF n
    <3>2. queue.batched <= Len(es) /\ es # <<>> /\ (queue.transferring => queue.batched = 0)
      <4>1. queue.batched <= Len(queue.events) /\ queue.batched \in Nat
        BY QueueAssumption DEF LinkInv, QueueFits, QueueOK, Queues
      <4>2. Len(es) # 0
        BY <1>3, <1>4
      <4> QED BY <1>3, <1>4, <4>1, <4>2, EmptySeq DEF LinkInv, QueueFits, QueueOK
    <3> QED BY <1>1, <1>8, <1>9, <3>1, <3>2 DEF QueueOK
  <2>2. queue'.fenced => Delivering(queue')
    BY <1>9 DEF LinkInv, QueueFits, Delivering
  <2>3. ASSUME Delivering(queue'), ~queue'.fenced PROVE Carries(queue')
    <3> DEFINE m == IF queue.transferring THEN 1 ELSE queue.batched
    <3>1. Carries(queue)
      BY <1>9, <2>3 DEF LinkInv, QueueFits, Delivering
    <3>2. m \in 0 .. Len(queue.events)
      <4>1. queue.batched <= Len(queue.events) /\ queue.batched \in Nat
        BY QueueAssumption DEF LinkInv, QueueFits, QueueOK, Queues
      <4>2. queue.transferring => Len(queue.events) # 0
        BY <1>3, EmptySeq DEF LinkInv, QueueFits, QueueOK
      <4> QED BY <1>3, <4>1, <4>2
    <3>3. SubSeq(es, 1, m) = SubSeq(queue.events, 1, m)
      <4>1. /\ 1 \in Int /\ m \in Int
            /\ \A i \in 1 .. m : queue.events[i] \in Event /\ es[i] = queue.events[i]
        BY <1>3, <1>4, <3>2, ElementOfSeq
      <4>2. /\ SubSeq(es, 1, m) \in Seq(Event) /\ SubSeq(queue.events, 1, m) \in Seq(Event)
            /\ Len(SubSeq(es, 1, m)) = m /\ Len(SubSeq(queue.events, 1, m)) = m
            /\ \A i \in 1 .. m : SubSeq(es, 1, m)[i] = es[i]
            /\ \A i \in 1 .. m : SubSeq(queue.events, 1, m)[i] = queue.events[i]
        BY <3>2, <4>1, SubSeqProperties
      <4> QED BY <4>1, <4>2, SeqEqual
    <3> QED BY <1>9, <3>1, <3>3 DEF Carries
  <2> QED BY <2>1, <2>2, <2>3 DEF QueueFits
<1>11. hub.outcome[n] = "none"
  <2>1. ~ (n <= emitted)
    BY <1>2 DEF n
  <2> QED BY <1>2, <2>1 DEF LinkInv, HubFits
<1>12. severed' = severed /\ OnTheWire' = OnTheWire
  BY <1>1 DEF severed, OnTheWire
<1>13. Waiting' = IF severed THEN Waiting ELSE Waiting \cup {n}
  <2>1. Unaccepted(queue.events)' = {e \in Members(es) : hub.outcome[e] # "accepted"}
    BY <1>1, <1>9 DEF Unaccepted
  <2>2. Unaccepted(queue.events)' = Unaccepted(queue.events) \cup {n}
    BY <1>7, <1>11, <2>1 DEF Unaccepted
  <2> QED BY <1>1, <1>12, <2>2 DEF Waiting
<1>14. ASSUME NEW r, Wellformed(r) PROVE Wellformed(r)'
  <2>1. \A e \in Members(r.events) : e \in Nat /\ e <= emitted
    <3>1. r.events \in Seq(Event)
      BY <1>14 DEF Wellformed, Proper, EventRequests
    <3> QED BY <1>14, <3>1, MembersOf, EventsAreNumbers DEF Wellformed
  <2>2. \A e \in Members(r.events) : e <= emitted'
    BY <1>1, <1>2, <2>1 DEF n
  <2> QED BY <1>1, <1>14, <2>2 DEF Wellformed
<1>15. ASSUME NEW r, Honest(r) PROVE Honest(r)'
  <2> SUFFICES ASSUME Authentic(hub, r.session) PROVE Initial(Unaccepted(r.events), Waiting')
    BY <1>1 DEF Honest, Unaccepted
  <2>1. Initial(Unaccepted(r.events), Waiting)
    BY <1>15 DEF Honest
  <2>2. \A e \in Waiting : ~ (n < e)
    BY <1>2, WaitingFits DEF n
  <2> QED BY <1>13, <2>1, <2>2 DEF Initial
<1>16. TypeOK'
  <2>1. sendTimer' \in BOOLEAN
    BY <1>1 DEF LinkInv, TypeOK
  <2> QED BY <1>1, <1>2, <1>9, <2>1 DEF LinkInv, TypeOK
<1>17. ReplyFits' /\ ReplyTrue'
  BY <1>1, <1>9, <1>12 DEF LinkInv, ReplyFits, ReplyTrue, Delivering, Unaccepted
<1>18. WireFits'
  <2>1. \A r \in strays' : r.path # "register" => Wellformed(r)'
    BY <1>1, <1>14 DEF LinkInv, WireFits
  <2>2. Delivering(queue)' => Wellformed(queue.request)'
    <3> SUFFICES ASSUME Delivering(queue) PROVE Wellformed(queue.request)'
      BY <1>9 DEF Delivering
    <3> DEFINE r == queue.request
    <3>1. Wellformed(r)
      BY DEF LinkInv, WireFits
    <3>2. \A e \in Members(r.events) : e \in Nat /\ e <= emitted
      <4>1. r.events \in Seq(Event)
        BY <3>1 DEF Wellformed, Proper, EventRequests
      <4> QED BY <3>1, <4>1, MembersOf, EventsAreNumbers DEF Wellformed
    <3>3. \A e \in Members(r.events) : e <= emitted'
      BY <1>1, <1>2, <3>2 DEF n
    <3> QED BY <1>1, <1>9, <3>1, <3>3 DEF Wellformed
  <2> QED BY <2>1, <2>2 DEF WireFits
<1>19. WireHonest'
  <2>1. \A r \in strays' : r.path # "register" => Honest(r)'
    BY <1>1, <1>15 DEF LinkInv, WireHonest
  <2>2. Delivering(queue)' => Honest(queue.request)'
    <3> SUFFICES ASSUME Delivering(queue), Authentic(hub, queue.request.session)
                 PROVE  Initial(Unaccepted(queue.request.events), Waiting')
      BY <1>1, <1>9 DEF Honest, Delivering, Unaccepted
    <3>1. Initial(Unaccepted(queue.request.events), Waiting)
      BY DEF LinkInv, WireHonest, Honest
    <3>2. \A e \in Waiting : ~ (n < e)
      BY <1>2, WaitingFits DEF n
    <3> QED BY <1>13, <3>1, <3>2 DEF Initial
  <2> QED BY <2>1, <2>2 DEF WireHonest
<1>20. NumbersFit' /\ SessionsFit' /\ NewcomerFits'
  BY <1>1, <1>9 DEF LinkInv, NumbersFit, SessionsFit, NewcomerFits, Delivering
<1>21. HubFits'
  <2> SUFFICES ASSUME NEW e \in Event, hub.outcome[e] # "none" PROVE e <= n
    BY <1>1 DEF HubFits
  <2>1. e <= emitted /\ e \in Nat
    BY EventsAreNumbers DEF LinkInv, HubFits
  <2> QED BY <1>2, <2>1 DEF n
<1>22. Channel!Emit
  <2>1. Pending' = IF severed THEN Pending ELSE Append(Pending, n)
    <3>1. \A e \in Waiting : e < n
      BY <1>2, WaitingFits DEF n
    <3>2. Ascending(Waiting \cup {n}) = Append(Ascending(Waiting), n)
      BY <1>2, <3>1, WaitingFits, AscendingGrows
    <3> QED BY <1>13, <3>2 DEF Pending
  <2> QED BY <1>1, <1>12, <2>1 DEF Channel!Emit, n
<1> QED BY <1>10, <1>16, <1>17, <1>18, <1>19, <1>20, <1>21, <1>22 DEF LinkInv, Moves, Channel!Next

\* What the leader welcomed a process with.
LEMMA WelcomeIs ==
  ASSUME LinkInv, welcome.status = "ok"
  PROVE  /\ welcome.session \in Nat /\ welcome.token \in Nat \ {0} /\ hub.token \in Nat
         /\ welcome.session <= sessions
         /\ leaderToken \in Nat /\ leaderToken <= welcome.token /\ welcome.token <= hub.token
         /\ Authentic(hub, welcome.session) => welcome.token = hub.token
         /\ ~Authentic(hub, 0)
BY DEF LinkInv, TypeOK, Hubs, NumbersFit, Authentic

\* The first registration of a process.
LEMMA FirstRegistered == ASSUME LinkInv, Registered, leaderToken = 0 PROVE LinkInv' /\ Moves
<1>1. /\ session' = welcome.session /\ leaderToken' = welcome.token /\ welcome' = NoWelcome
      /\ UNCHANGED <<hub, reply, generation, sendTimer, strays, emitted, sessions, faults>>
      /\ Iterate(queue, welcome.session) /\ welcome.status = "ok"
  BY DEF Registered
<1>2. queue = NewQueue /\ reply = NoReply /\ OnTheWire = {}
  BY <1>1 DEF LinkInv, NewcomerFits
<1>3. queue' = NewQueue /\ loop' \in {"pausing", "registering", "polling"}
  BY <1>1, <1>2, NewQueueIs DEF Iterate, HasPending
<1>4. /\ welcome.session \in Nat /\ welcome.token \in Nat \ {0} /\ welcome.session <= sessions
      /\ welcome.token <= hub.token /\ ~Authentic(hub, 0)
      /\ Authentic(hub, welcome.session) => welcome.token = hub.token
  BY <1>1, WelcomeIs
<1>5. \A r \in strays : r.path # "register" => ~Authentic(hub, r.session)
  BY <1>2 DEF OnTheWire
<1>6. Waiting = {} /\ Waiting' = {}
  <2>1. Unaccepted(queue.events)' = {}
    BY <1>3, NewQueueIs DEF Unaccepted
  <2> QED BY <1>1, <1>2, <1>4, <2>1 DEF Waiting
<1>7. TypeOK'
  BY <1>1, <1>3, <1>4, NewQueueIs DEF LinkInv, TypeOK, NoWelcome
<1>8. QueueFits' /\ ReplyFits' /\ ReplyTrue' /\ HubFits'
  BY <1>1, <1>2, <1>3, NewQueueIs DEF LinkInv, QueueFits, ReplyFits, ReplyTrue, HubFits
<1>9. WireFits' /\ WireHonest'
  BY <1>1, <1>3, <1>5, NewQueueIs
  DEF LinkInv, WireFits, Wellformed, WireHonest, Honest, Delivering
<1>10. NumbersFit'
  BY <1>1, <1>3, <1>4, NewQueueIs DEF LinkInv, NumbersFit, TypeOK, NoWelcome
<1>11. SessionsFit'
  BY <1>1, <1>3, <1>4, <1>5, NewQueueIs DEF SessionsFit, Delivering
<1>12. NewcomerFits'
  BY <1>1, <1>4 DEF NewcomerFits
<1>13. Channel!Return
  <2>1. Pending = <<>> /\ Pending' = <<>>
    BY <1>6, NothingAscends DEF Pending
  <2>2. severed' \in BOOLEAN
    BY DEF severed
  <2> QED BY <1>1, <1>4, <2>1, <2>2 DEF Channel!Return
<1> QED BY <1>7, <1>8, <1>9, <1>10, <1>11, <1>12, <1>13 DEF LinkInv, Moves, Channel!Next

\* A new session with the same leader.
LEMMA RegisteredAgain ==
  ASSUME LinkInv, Registered, leaderToken # 0, leaderToken = welcome.token PROVE LinkInv' /\ Moves
<1>1. /\ session' = welcome.session /\ leaderToken' = leaderToken /\ welcome' = NoWelcome
      /\ UNCHANGED <<hub, reply, generation, sendTimer, strays, emitted, sessions, faults>>
      /\ Iterate(queue, welcome.session) /\ welcome.status = "ok"
  BY DEF Registered
<1> DEFINE own == {0, session, queue.envelope, queue.waiter}
           ss  == own \cup {welcome.session}
<1>2. KnownSessions(own)
  BY OwnSessions
<1>3. KnownSessions(ss)
  BY <1>1, <1>2, WelcomeIs DEF KnownSessions
<1>4. ss \subseteq Nat
  BY <1>3 DEF KnownSessions
<1>5. /\ Delivers(ss) /\ queue'.events = queue.events
      /\ loop' \in {"pausing", "registering", "polling"}
  BY <1>1, <1>4, IterateDelivers
<1>6. {queue.envelope, session'} \subseteq ss /\ Unaccepted(queue'.events) = Unaccepted(queue.events)
  BY <1>1, <1>5
<1>7. sendTimer \in BOOLEAN /\ faults \in 0 .. MaxFaults
  BY DEF LinkInv, TypeOK
<1> HIDE DEF own, ss
<1> QED BY <1>1, <1>3, <1>5, <1>6, <1>7, DeliveryKeeps DEF Moves

\* clear() keeps the request in flight, and fences it.
LEMMA ClearIs ==
  ASSUME NEW q \in Queues, NEW top
  PROVE  LET c == Clear(q) IN
           /\ QueueOK(c, top) /\ c.events = <<>> /\ Members(c.events) = {}
           /\ c.fenced = Delivering(q) /\ c.request = q.request
           /\ c.envelope = q.envelope /\ c.waiter = 0
<1> DEFINE none == <<>>
           d == Delivering(q)
           c == [q EXCEPT !.events = none, !.batched = 0, !.transferring = FALSE, !.index = 0,
                          !.stuck = 0, !.fenced = d, !.waiter = 0]
<1>1. none \in Seq(Event) /\ d \in BOOLEAN
  BY DEF Delivering
<1>2. 0 \in 0 .. BatchMax /\ 0 \in 0 .. Fragments - 1 /\ 0 \in 0 .. MaxEvents
  BY QueueAssumption, ProtocolAssumption
<1>3. Clear(q) = c
  BY DEF Clear
<1>4. Ascends(none) /\ Members(none) = {} /\ Len(none) = 0
  BY DEF Ascends, Members
<1> HIDE DEF none, d
<1>5. /\ c \in Queues /\ c.events = none /\ c.fenced = d /\ c.request = q.request
      /\ c.envelope = q.envelope /\ c.waiter = 0 /\ c.batched = 0 /\ c.transferring = FALSE
  BY <1>1, <1>2 DEF Queues
<1> HIDE DEF c
<1>6. QueueOK(c, top)
  BY <1>4, <1>5 DEF QueueOK
<1> QED BY <1>3, <1>4, <1>5, <1>6 DEF none, d

\* Registration with a leader that replaced the one known.
LEMMA RegisteredElsewhere ==
  ASSUME LinkInv, Registered, leaderToken \notin {0, welcome.token} PROVE LinkInv' /\ Moves
<1>1. /\ session' = welcome.session /\ leaderToken' = welcome.token /\ welcome' = NoWelcome
      /\ UNCHANGED <<hub, reply, generation, sendTimer, strays, emitted, sessions, faults>>
      /\ Iterate(Clear(queue), welcome.session) /\ welcome.status = "ok"
  BY DEF Registered
<1>2. queue \in Queues
  BY DEF LinkInv, TypeOK
<1>3. /\ QueueOK(Clear(queue), emitted) /\ Clear(queue).events = <<>> /\ Members(Clear(queue).events) = {}
      /\ Clear(queue).fenced = Delivering(queue) /\ Clear(queue).request = queue.request
      /\ Clear(queue).envelope = queue.envelope /\ Clear(queue).waiter = 0
  BY <1>2, ClearIs
<1>4. queue' = Clear(queue) /\ loop' \in {"pausing", "registering", "polling"}
  BY <1>1, <1>3 DEF Iterate, HasPending
<1>5. /\ welcome.session \in Nat /\ welcome.token \in Nat \ {0} /\ welcome.session <= sessions
      /\ welcome.token <= hub.token /\ ~Authentic(hub, 0)
      /\ Authentic(hub, welcome.session) => welcome.token = hub.token
  BY <1>1, WelcomeIs
<1>6. leaderToken # 0 /\ leaderToken # hub.token /\ severed
  <2>1. leaderToken \in Nat /\ leaderToken <= welcome.token /\ hub.token \in Nat
    BY <1>1, WelcomeIs
  <2> QED BY <1>5, <2>1 DEF severed
<1>7. /\ \A r \in strays : r.path # "register" => ~Authentic(hub, r.session)
      /\ ~Authentic(hub, queue.envelope)
      /\ Delivering(queue) => ~Authentic(hub, queue.request.session)
  BY <1>6 DEF LinkInv, SessionsFit
<1>8. Waiting = {} /\ Waiting' = {}
  <2>1. Unaccepted(queue.events)' = {}
    BY <1>3, <1>4 DEF Unaccepted
  <2> QED BY <1>1, <1>5, <1>6, <2>1 DEF Waiting
<1>9. TypeOK'
  <2>1. queue' \in Queues
    BY <1>3, <1>4 DEF QueueOK
  <2> QED BY <1>1, <1>4, <1>5, <2>1 DEF LinkInv, TypeOK, NoWelcome
<1>10. QueueFits' /\ HubFits'
  BY <1>1, <1>3, <1>4 DEF LinkInv, QueueFits, HubFits, Delivering
<1>11. ReplyFits' /\ ReplyTrue'
  BY <1>1, <1>3, <1>4 DEF LinkInv, ReplyFits, ReplyTrue, Delivering
<1>12. WireFits' /\ WireHonest'
  BY <1>1, <1>3, <1>4, <1>7 DEF LinkInv, WireFits, Wellformed, WireHonest, Honest, Delivering
<1>13. NumbersFit'
  BY <1>1, <1>3, <1>4, <1>5 DEF LinkInv, NumbersFit, TypeOK, NoWelcome
<1>14. SessionsFit'
  BY <1>1, <1>3, <1>4, <1>5, <1>7 DEF SessionsFit, Delivering
<1>15. NewcomerFits'
  BY <1>1, <1>5 DEF NewcomerFits
<1>16. Moves
  <2>1. Pending' = Pending
    BY <1>8 DEF Pending
  <2>2. UNCHANGED <<emitted, Pending, hub.log, (leaderToken = 0), {e \in Event : hub.outcome[e] = "failed"}>>
    BY <1>1, <1>5, <1>6, <2>1
  <2>3. severed' = FALSE \/ severed' = TRUE
    BY DEF severed
  <2>4. CASE severed' = FALSE
    BY <1>6, <2>2, <2>4 DEF Moves, Channel!Next, Channel!Resume
  <2>5. CASE severed' = TRUE
    BY <1>6, <2>2, <2>5 DEF Moves, Channel!vars
  <2> QED BY <2>3, <2>4, <2>5
<1> QED BY <1>9, <1>10, <1>11, <1>12, <1>13, <1>14, <1>15, <1>16 DEF LinkInv

LEMMA RegisteredKeeps == ASSUME LinkInv, Registered PROVE LinkInv' /\ Moves
BY FirstRegistered, RegisteredAgain, RegisteredElsewhere

-----------------------------------------------------------------------------
(* The link implements the channel.                                           *)

LEMMA InitFits == Init => LinkInv /\ Channel!Init
<1> SUFFICES ASSUME Init PROVE LinkInv /\ Channel!Init
  OBVIOUS
<1>1. /\ hub = NewHub(1) /\ queue = NewQueue /\ reply = NoReply
      /\ generation = 1 /\ session = 0 /\ leaderToken = 0 /\ sendTimer = FALSE
      /\ loop = "registering" /\ welcome = NoWelcome
      /\ strays = {} /\ emitted = 0 /\ sessions = 0 /\ faults = 0
  BY DEF Init
<1>2. /\ hub \in Hubs /\ hub.token = 1 /\ hub.generation = 0 /\ hub.session = 0
      /\ hub.log = <<>> /\ hub.outcome = [e \in Event |-> "none"]
  BY <1>1, NewHubIs
<1>3. Waiting = {} /\ OnTheWire = {} /\ ~severed
  BY <1>1 DEF Waiting, OnTheWire, severed
<1>4. TypeOK
  <2>1. welcome \in [status : {"none", "ok", "superseded", "error"}, session : Nat, token : Nat]
    BY <1>1 DEF NoWelcome
  <2>2. emitted \in 0 .. MaxEvents /\ faults \in 0 .. MaxFaults
    BY <1>1, ProtocolAssumption, FaultsAssumption
  <2>3. queue \in Queues
    BY <1>1, NewQueueIs
  <2>4. /\ reply \in Replies \cup {NoReply} /\ generation \in Nat \ {0} /\ session \in Nat
        /\ leaderToken \in Nat /\ sendTimer \in BOOLEAN /\ sessions \in Nat
        /\ loop \in {"pausing", "registering", "polling"}
    <3>1. reply \in Replies \cup {NoReply}
      BY <1>1
    <3>2. generation \in Nat \ {0} /\ session \in Nat /\ leaderToken \in Nat /\ sessions \in Nat
      BY <1>1
    <3>3. sendTimer \in BOOLEAN /\ loop \in {"pausing", "registering", "polling"}
      BY <1>1
    <3> QED BY <3>1, <3>2, <3>3
  <2>5. \A r \in strays : r \in EventRequests \/ \E g \in 1 .. generation : r = Registration(g)
    BY <1>1
  <2> QED BY <1>2, <2>1, <2>2, <2>3, <2>4, <2>5 DEF TypeOK
<1>5. QueueFits /\ ReplyFits /\ ReplyTrue /\ WireFits /\ WireHonest
  BY <1>1, NewQueueIs DEF QueueFits, ReplyFits, ReplyTrue, WireFits, WireHonest
<1>6. NumbersFit /\ SessionsFit /\ NewcomerFits /\ HubFits
  BY <1>1, <1>2, NewQueueIs DEF NumbersFit, SessionsFit, NewcomerFits, HubFits, NoWelcome
<1>7. Channel!Init
  <2>1. Pending = <<>> /\ {e \in Event : hub.outcome[e] = "failed"} = {}
    BY <1>2, <1>3, NothingAscends DEF Pending
  <2> QED BY <1>1, <1>2, <1>3, <2>1 DEF Channel!Init
<1> QED BY <1>4, <1>5, <1>6, <1>7 DEF LinkInv

LEMMA StutterKeeps == ASSUME LinkInv, UNCHANGED vars PROVE LinkInv' /\ Moves
<1>1. /\ UNCHANGED <<hub, queue, reply, generation, session, leaderToken, sendTimer, loop, welcome,
                     strays, emitted, sessions, faults>>
  BY DEF vars, follower
<1>2. /\ sendTimer \in BOOLEAN /\ loop \in {"pausing", "registering", "polling"}
      /\ faults \in 0 .. MaxFaults
  BY DEF LinkInv, TypeOK
<1> QED BY <1>1, <1>2, QuietKeeps DEF Moves

\* Every step of the link is one of the channel, or none.
LEMMA StepKeeps == LinkInv /\ [Next]_vars => LinkInv' /\ [Channel!Next]_Channel!vars
<1> SUFFICES ASSUME LinkInv, [Next]_vars PROVE LinkInv' /\ Moves
  BY DEF Moves
<1>1. CASE Emit                  BY <1>1, EmitKeeps
<1>2. CASE TimerFires            BY <1>2, TimerFiresKeeps DEF Moves
<1>3. CASE PauseEnds             BY <1>3, PauseEndsKeeps DEF Moves
<1>4. CASE PollAnswered          BY <1>4, PollAnsweredKeeps DEF Moves
<1>5. CASE Registered            BY <1>5, RegisteredKeeps
<1>6. CASE RegistrationFails     BY <1>6, RegistrationFailsKeeps DEF Moves
<1>7. CASE Answer                BY <1>7, AnswerKeeps DEF Moves
<1>8. CASE HandleRequest         BY <1>8, HandleRequestKeeps
<1>9. CASE HandleRegistration    BY <1>9, HandleRegistrationKeeps
<1>10. CASE HandleStray          BY <1>10, HandleStrayKeeps
<1>11. CASE PollFails            BY <1>11, PollFailsKeeps DEF Moves
<1>12. CASE RequestTimesOut      BY <1>12, RequestTimesOutKeeps DEF Moves
<1>13. CASE RegistrationTimesOut BY <1>13, RegistrationTimesOutKeeps DEF Moves
<1>14. CASE FollowerRestarts     BY <1>14, FollowerRestartsKeeps
<1>15. CASE StagingExpires       BY <1>15, StagingExpiresKeeps
<1>16. CASE LeaderRestarts       BY <1>16, LeaderRestartsKeeps
<1>17. CASE UNCHANGED vars       BY <1>17, StutterKeeps
<1> QED
  BY <1>1, <1>2, <1>3, <1>4, <1>5, <1>6, <1>7, <1>8, <1>9, <1>10, <1>11, <1>12, <1>13, <1>14,
     <1>15, <1>16, <1>17
  DEF Next, FollowerStep, LeaderStep, Faults

\* Requests carry the frozen head of the queue, answers say what was accepted, and what the
\* leader would still take of any request comes first in what waits.
THEOREM LinkInvariant == Spec => []LinkInv
BY InitFits, StepKeeps, PTL DEF Spec

\* The state of the follower, its leader and what is on the wire has its types.
THEOREM TypeCorrect == Spec => []TypeOK
<1>1. LinkInv => TypeOK
  BY DEF LinkInv
<1> QED BY <1>1, LinkInvariant, PTL

\* No answer acknowledges an event the present leader has not accepted: what the follower
\* drops from its queue, the leader has.
THEOREM AnswersAreTrue == Spec => [](ReplyFits /\ ReplyTrue)
<1>1. LinkInv => ReplyFits /\ ReplyTrue
  BY DEF LinkInv
<1> QED BY <1>1, LinkInvariant, PTL

\* Queue and hub together are a FIFO channel, whatever is lost, late or repeated, and
\* whoever is restarted: every step of theirs is a step of the channel, or none.
THEOREM LinkIsChannel == Spec => ImplementsChannel
BY InitFits, StepKeeps, PTL DEF Spec, ImplementsChannel

-----------------------------------------------------------------------------
(* The channel delivers in order and at most once.                            *)

Ordered(s, top) == Ascends(s) /\ \A i \in 1 .. Len(s) : s[i] <= top

ChannelInv ==
  /\ emitted \in Nat /\ hub.log \in Seq(Nat) /\ Pending \in Seq(Nat)
  /\ Ordered(hub.log \o Pending, emitted)

\* Concatenation is associative.
LEMMA Associative ==
  ASSUME NEW s \in Seq(Nat), NEW t \in Seq(Nat), NEW u \in Seq(Nat)
  PROVE  (s \o t) \o u = s \o (t \o u)
<1>1. /\ (s \o t) \o u \in Seq(Nat) /\ s \o (t \o u) \in Seq(Nat)
      /\ Len((s \o t) \o u) = Len(s) + Len(t) + Len(u)
      /\ Len(s \o (t \o u)) = Len(s) + Len(t) + Len(u)
  BY ConcatProperties, LenProperties
<1>2. ASSUME NEW i \in 1 .. Len(s) + Len(t) + Len(u)
      PROVE  ((s \o t) \o u)[i] = (s \o (t \o u))[i]
  <2>1. Len(s) \in Nat /\ Len(t) \in Nat /\ Len(u) \in Nat
    BY LenProperties
  <2>2. CASE i <= Len(s)
    BY <2>1, <2>2
  <2>3. CASE Len(s) < i /\ i <= Len(s) + Len(t)
    BY <2>1, <2>3
  <2>4. CASE Len(s) + Len(t) < i
    BY <2>1, <2>4
  <2> QED BY <2>1, <2>2, <2>3, <2>4
<1> QED BY <1>1, <1>2, SeqEqual

\* What comes first in an ordered sequence is ordered.
LEMMA OrderedFront ==
  ASSUME NEW s \in Seq(Nat), NEW t \in Seq(Nat), NEW top \in Nat, Ordered(s \o t, top)
  PROVE  Ordered(s, top)
<1>1. \A i \in 1 .. Len(s) : i \in 1 .. Len(s \o t) /\ (s \o t)[i] = s[i]
  BY ConcatProperties
<1> QED BY <1>1 DEF Ordered, Ascends

\* An ordered sequence followed by a new largest number is ordered.
LEMMA OrderedAppend ==
  ASSUME NEW s \in Seq(Nat), NEW top \in Nat, Ordered(s, top)
  PROVE  Ordered(Append(s, top + 1), top + 1)
<1> DEFINE n == Append(s, top + 1)
<1>1. /\ n \in Seq(Nat) /\ Len(n) = Len(s) + 1 /\ n[Len(s) + 1] = top + 1
      /\ \A i \in 1 .. Len(s) : n[i] = s[i]
  BY AppendProperties
<1>2. \A i \in 1 .. Len(s) : s[i] \in Nat /\ s[i] <= top
  BY ElementOfSeq DEF Ordered
<1>3. \A i, j \in 1 .. Len(s) : i < j => s[i] < s[j]
  BY DEF Ordered, Ascends
<1>4. Len(s) \in Nat
  OBVIOUS
<1> HIDE DEF n
<1>5. \A i \in 1 .. Len(n) : i \in 1 .. Len(s) \/ i = Len(s) + 1
  BY <1>1, <1>4
<1>6. ASSUME NEW i \in 1 .. Len(n) PROVE n[i] <= top + 1
  <2>1. CASE i \in 1 .. Len(s)
    BY <1>1, <1>2, <2>1
  <2>2. CASE i = Len(s) + 1
    BY <1>1, <2>2
  <2> QED BY <1>5, <2>1, <2>2
<1>7. ASSUME NEW i \in 1 .. Len(n), NEW j \in 1 .. Len(n), i < j PROVE n[i] < n[j]
  <2>1. i \in 1 .. Len(s)
    BY <1>1, <1>4, <1>7
  <2>2. CASE j \in 1 .. Len(s)
    BY <1>1, <1>3, <1>7, <2>1, <2>2
  <2>3. CASE j = Len(s) + 1
    BY <1>1, <1>2, <2>1, <2>3
  <2> QED BY <1>5, <2>2, <2>3
<1> QED BY <1>6, <1>7 DEF Ordered, Ascends, n

\* A sequence is its beginning followed by the rest.
LEMMA Split ==
  ASSUME NEW s \in Seq(Nat), NEW k \in 0 .. Len(s)
  PROVE  /\ Channel!First(s, k) \in Seq(Nat) /\ Channel!Rest(s, k) \in Seq(Nat)
         /\ Channel!First(s, k) \o Channel!Rest(s, k) = s
<1>1. SubSeq(s, 1, k) \o SubSeq(s, k + 1, Len(s)) = SubSeq(s, 1, Len(s))
  <2>1. 1 \in 1 .. Len(s) + 1 /\ k \in 1 - 1 .. Len(s) /\ Len(s) \in k .. Len(s)
    OBVIOUS
  <2> QED BY <2>1, ConcatAdjacentSubSeq, Zenon
<1>2. SubSeq(s, 1, Len(s)) = s
  BY SubSeqFull
<1>3. SubSeq(s, 1, k) \in Seq(Nat) /\ SubSeq(s, k + 1, Len(s)) \in Seq(Nat)
  BY SubSeqProperties
<1> QED BY <1>1, <1>2, <1>3 DEF Channel!First, Channel!Rest

\* Dropping the end of what waits keeps the order.
LEMMA Shortened ==
  ASSUME NEW l \in Seq(Nat), NEW p \in Seq(Nat), NEW k \in 0 .. Len(p), NEW top \in Nat,
         Ordered(l \o p, top)
  PROVE  Ordered(l \o Channel!First(p, k), top)
<1> DEFINE f == Channel!First(p, k)
           r == Channel!Rest(p, k)
<1>1. f \in Seq(Nat) /\ r \in Seq(Nat) /\ f \o r = p
  BY Split
<1> HIDE DEF f, r
<1>2. (l \o f) \o r = l \o (f \o r)
  BY <1>1, Associative
<1>3. l \o f \in Seq(Nat) /\ Ordered((l \o f) \o r, top)
  BY <1>1, <1>2, ConcatProperties
<1>4. Ordered(l \o f, top)
  BY <1>1, <1>3, OrderedFront
<1> QED BY <1>4 DEF f

\* Accepted events move from one end of the same sequence to the other.
LEMMA AcceptOrdered == ASSUME ChannelInv, Channel!Accept PROVE ChannelInv'
<1>1. PICK k \in 0 .. Len(Pending) :
        /\ hub'.log = hub.log \o Channel!First(Pending, k)
        /\ Pending' \in Channel!Remains(Channel!Rest(Pending, k))
        /\ emitted' = emitted
  BY DEF Channel!Accept
<1> DEFINE f == Channel!First(Pending, k)
           r == Channel!Rest(Pending, k)
<1>2. f \in Seq(Nat) /\ r \in Seq(Nat) /\ f \o r = Pending
  BY Split DEF ChannelInv
<1>3. PICK j \in 0 .. Len(r) : Pending' = Channel!First(r, j)
  <2>1. CASE leaderToken = 0
    BY <1>1, <2>1 DEF Channel!Remains
  <2>2. CASE leaderToken # 0
    <3>1. Channel!First(r, Len(r)) = r
      BY <1>2, SubSeqFull DEF Channel!First
    <3>2. Pending' = r
      BY <1>1, <2>2 DEF Channel!Remains
    <3>3. Len(r) \in 0 .. Len(r)
      BY <1>2
    <3> QED BY <3>1, <3>2, <3>3
  <2> QED BY <2>1, <2>2
<1>4. hub'.log = hub.log \o f
  BY <1>1
<1> HIDE DEF f, r
<1>5. hub'.log \in Seq(Nat) /\ Pending' \in Seq(Nat)
  BY <1>2, <1>3, <1>4, ConcatProperties, Split DEF ChannelInv
<1>6. hub'.log \o r = hub.log \o Pending
  <2>1. hub.log \in Seq(Nat)
    BY DEF ChannelInv
  <2>2. (hub.log \o f) \o r = hub.log \o (f \o r)
    BY <1>2, <2>1, Associative
  <2> QED BY <1>2, <1>4, <2>2
<1>7. Ordered(hub'.log \o Pending', emitted)
  BY <1>2, <1>3, <1>5, <1>6, Shortened DEF ChannelInv
<1> QED BY <1>1, <1>5, <1>7 DEF ChannelInv

\* What is lost is lost from the end.
LEMMA LoseOrdered == ASSUME ChannelInv, Channel!Lose PROVE ChannelInv'
<1>1. PICK k \in 0 .. Len(Pending) : Pending' = Channel!First(Pending, k)
  BY DEF Channel!Lose
<1>2. hub'.log = hub.log /\ emitted' = emitted
  BY DEF Channel!Lose
<1>3. Pending' \in Seq(Nat)
  BY <1>1, Split DEF ChannelInv
<1>4. Ordered(hub.log \o Pending', emitted)
  BY <1>1, Shortened DEF ChannelInv
<1> QED BY <1>2, <1>3, <1>4 DEF ChannelInv

\* A new event comes after all there were.
LEMMA EmitOrdered == ASSUME ChannelInv, Channel!Emit PROVE ChannelInv'
<1> DEFINE e == emitted + 1
           all == hub.log \o Pending
<1>1. emitted' = e /\ hub'.log = hub.log
  BY DEF Channel!Emit
<1>2. e \in Nat /\ all \in Seq(Nat)
  BY ConcatProperties DEF ChannelInv
<1>3. Ordered(Append(all, e), e)
  BY <1>2, OrderedAppend DEF ChannelInv
<1>4. Append(all, e) = all \o <<e>> /\ Append(Pending, e) = Pending \o <<e>>
  BY <1>2, AppendIsConcat DEF ChannelInv
<1>5. CASE Pending' = Pending
  <2>1. Ordered(all, e)
    <3>1. <<e>> \in Seq(Nat)
      BY <1>2
    <3>2. Ordered(all \o <<e>>, e)
      BY <1>3, <1>4, Zenon
    <3> QED BY <1>2, <3>1, <3>2, OrderedFront
  <2> QED BY <1>1, <1>2, <1>5, <2>1 DEF ChannelInv
<1>6. CASE Pending' = Append(Pending, e)
  <2>1. <<e>> \in Seq(Nat) /\ Pending' \in Seq(Nat)
    BY <1>2, <1>6, AppendProperties DEF ChannelInv
  <2>2. hub.log \o Pending' = Append(all, e)
    <3> DEFINE log == hub.log
               P   == Pending
               z   == <<e>>
    <3>1. log \in Seq(Nat) /\ P \in Seq(Nat) /\ z \in Seq(Nat)
      BY <2>1 DEF ChannelInv
    <3> HIDE DEF log, P, z
    <3>2. (log \o P) \o z = log \o (P \o z)
      BY <3>1, Associative
    <3> QED BY <1>4, <1>6, <3>2 DEF log, P, z
  <2> QED BY <1>1, <1>2, <1>3, <2>1, <2>2 DEF ChannelInv
<1> QED BY <1>5, <1>6 DEF Channel!Emit

\* A replaced leader starts with nothing.
LEMMA ReplaceOrdered == ASSUME ChannelInv, Channel!Replace PROVE ChannelInv'
<1>1. hub'.log = <<>> /\ Pending' = <<>> /\ emitted' = emitted
  BY DEF Channel!Replace
<1>2. hub'.log \o Pending' = <<>>
  BY <1>1
<1> QED BY <1>1, <1>2 DEF ChannelInv, Ordered, Ascends

\* Every step of the channel keeps the order.
LEMMA ChannelStepOrdered == ChannelInv /\ [Channel!Next]_Channel!vars => ChannelInv'
<1> SUFFICES ASSUME ChannelInv, [Channel!Next]_Channel!vars PROVE ChannelInv'
  OBVIOUS
<1>1. CASE Channel!Emit      BY <1>1, EmitOrdered
<1>2. CASE Channel!Accept    BY <1>2, AcceptOrdered
<1>3. CASE Channel!Replace   BY <1>3, ReplaceOrdered
<1>4. CASE Channel!Resume    BY <1>4 DEF Channel!Resume, ChannelInv
<1>5. CASE Channel!Lose      BY <1>5, LoseOrdered
<1>6. CASE Channel!Return    BY <1>6 DEF Channel!Return, ChannelInv
<1>7. CASE UNCHANGED Channel!vars  BY <1>7 DEF Channel!vars, ChannelInv
<1> QED BY <1>1, <1>2, <1>3, <1>4, <1>5, <1>6, <1>7 DEF Channel!Next

\* What is true of every channel: no event is accepted twice, or before one that was
\* emitted earlier, and what waits comes after what was accepted.
THEOREM ChannelInOrder == Channel!Spec => []Channel!InOrder
<1>1. Channel!Init => ChannelInv
  <2> SUFFICES ASSUME Channel!Init PROVE ChannelInv
    OBVIOUS
  <2>1. hub.log = <<>> /\ Pending = <<>> /\ emitted = 0 /\ hub.log \o Pending = <<>>
    BY DEF Channel!Init
  <2> QED BY <2>1 DEF ChannelInv, Ordered, Ascends
<1>2. ChannelInv => Channel!InOrder
  BY DEF ChannelInv, Ordered, Ascends, Channel!InOrder, Channel!Increasing
<1> QED BY <1>1, <1>2, ChannelStepOrdered, PTL DEF Channel!Spec

\* The leader accepts events in the order they were emitted, each at most once.
THEOREM DeliveredInOrder == Spec => []Channel!InOrder
BY LinkIsChannel, ChannelInOrder, PTL DEF ImplementsChannel, Channel!Spec
=============================================================================
