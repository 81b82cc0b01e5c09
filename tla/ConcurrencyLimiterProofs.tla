----------------------- MODULE ConcurrencyLimiterProofs -----------------------
(***************************************************************************)
(* Theorems about the capacity gate (ConcurrencyLimiter), for any number   *)
(* of tasks and of slots.  The inductive invariant adds to the properties  *)
(* what connects them: only a promotion makes an entry uncounted, so every *)
(* waiter will take a slot when it starts.                                 *)
(***************************************************************************)
EXTENDS ConcurrencyLimiter, SequenceTheorems, TLAPS, FiniteSetTheorems

(* The first n entries of a queue. *)
Prefix(q, n) == {q[i] : i \in 1 .. n}

(* The state pump() leaves when it starts the first n entries of q. *)
Pumped(q, st, used, n) ==
  /\ queue' \in Seq(Task) /\ Distinct(queue')
  /\ Elements(queue') = Elements(q) \ Prefix(q, n)
  /\ Prefix(q, n) \subseteq Elements(q) /\ Prefix(q, n) \subseteq Task
  /\ IsFiniteSet(Prefix(q, n)) /\ Cardinality(Prefix(q, n)) = n
  /\ active' = used + n /\ active' \in Nat /\ active' <= Max
  /\ queue' # <<>> => active' = Max
  /\ state' = [t \in Task |-> IF t \in Prefix(q, n) THEN "popped" ELSE st[t]]

Counting ==
  /\ \A t \in promoting : ~counted[t]
  /\ \A t \in Task : state[t] = "fresh" => counted[t]

IndInv == TypeOK /\ Counting /\ NothingLost /\ SlotsAccounted /\ WorkConserving

-----------------------------------------------------------------------------
(* What the operations on a queue do to its entries. *)

(* Taking an entry out of a queue takes out nothing else. *)
LEMMA WithoutProperties ==
  ASSUME NEW S, NEW q \in Seq(S), Distinct(q), NEW e \in S
  PROVE  /\ Without(q, e) \in Seq(S)
         /\ Distinct(Without(q, e))
         /\ Elements(Without(q, e)) = Elements(q) \ {e}
         /\ q = <<>> => Without(q, e) = <<>>
         /\ Len(Without(q, e)) >= Len(q) - 1
<1>1. CASE \E i \in 1 .. Len(q) : q[i] = e
  <2> DEFINE k == CHOOSE i \in 1 .. Len(q) : q[i] = e
             n == Len(q) - 1
             from(i) == IF i < k THEN i ELSE i + 1
             w == [i \in 1 .. n |-> IF i < k THEN q[i] ELSE q[i + 1]]
  <2>1. k \in 1 .. Len(q) /\ q[k] = e /\ Len(q) \in Nat
    BY <1>1, LenProperties
  <2>2. Without(q, e) = w
    BY <1>1 DEF Without
  <2> HIDE DEF k
  <2>3. n \in Nat /\ \A i \in 1 .. n : from(i) \in 1 .. Len(q) /\ from(i) # k /\ w[i] = q[from(i)]
    BY <2>1
  <2>4. w \in Seq(S) /\ Len(w) = n
    BY <2>1, <2>3, ElementOfSeq
  <2>5. /\ \A i, j \in 1 .. n : from(i) = from(j) => i = j
        /\ \A m \in 1 .. Len(q) : m # k => \E i \in 1 .. n : from(i) = m
    <3>1. ASSUME NEW m \in 1 .. Len(q), m # k PROVE \E i \in 1 .. n : from(i) = m
      <4>1. CASE m < k
        BY <2>1, <4>1
      <4>2. CASE m > k
        <5>1. (m - 1) \in 1 .. n /\ from(m - 1) = m
          BY <2>1, <4>2
        <5> QED BY <5>1
      <4> QED BY <2>1, <3>1, <4>1, <4>2
    <3> QED BY <2>1, <3>1
  <2>6. q # <<>>
    BY <2>1, EmptySeq
  <2> HIDE DEF w, from, n
  <2>7. Distinct(w)
    BY <2>3, <2>4, <2>5 DEF Distinct
  <2>8. Elements(w) = Elements(q) \ {e}
    <3>1. Elements(w) \subseteq Elements(q) \ {e}
      BY <2>1, <2>3, <2>4 DEF Distinct, Elements
    <3>2. Elements(q) \ {e} \subseteq Elements(w)
      BY <2>1, <2>3, <2>4, <2>5 DEF Elements
    <3> QED BY <3>1, <3>2
  <2> QED BY <2>1, <2>2, <2>4, <2>6, <2>7, <2>8 DEF n
<1>2. CASE ~ \E i \in 1 .. Len(q) : q[i] = e
  BY <1>2, LenProperties DEF Without, Elements
<1> QED BY <1>1, <1>2

-----------------------------------------------------------------------------
(* pump() moves a prefix of the queue out, one slot for each, until the queue *)
(* or the slots run out.                                                      *)
LEMMA PumpProperties ==
  ASSUME NEW q \in Seq(Task), Distinct(q), NEW st \in [Task -> States],
         NEW used \in Nat, used <= Max, Pump(q, st, used)
  PROVE  \E n \in 0 .. Len(q) : Pumped(q, st, used, n)
<1> DEFINE n == Startable(q, used)
           chosen == Prefix(q, n)
<1> USE DEF Prefix
<1>1. /\ n \in 0 .. Len(q) /\ used + n <= Max
      /\ n = Len(q) \/ used + n = Max
  BY LenProperties, MaxAssumption DEF Startable, Smaller
<1>2. /\ queue' = SubSeq(q, n + 1, Len(q)) /\ active' = used + n
      /\ state' = [t \in Task |-> IF t \in chosen THEN "popped" ELSE st[t]]
  BY DEF Pump
<1>0. n \in 0 .. Len(q)
  BY <1>1
<1> HIDE DEF n
<1>3. /\ queue' \in Seq(Task) /\ Len(queue') = Len(q) - n
      /\ \A i \in 1 .. (Len(q) - n) : queue'[i] = q[n + i]
  BY <1>1, <1>2, SubSeqProperties, LenProperties, ElementOfSeq
<1>a. Len(q) \in Nat /\ n \in Nat /\ \A i \in 1 .. (Len(q) - n) : n + i \in 1 .. Len(q)
  BY <1>0, LenProperties
<1>4. Distinct(queue')
  <2>1. SUFFICES ASSUME NEW i \in 1 .. (Len(q) - n), NEW j \in 1 .. (Len(q) - n),
                        q[n + i] = q[n + j]
                 PROVE  i = j
    BY <1>3 DEF Distinct
  <2>2. n + i = n + j
    BY <1>a, <2>1 DEF Distinct
  <2> QED BY <1>a, <2>2
<1>5. Elements(queue') = Elements(q) \ chosen
  <2>1. ASSUME NEW x \in Elements(queue') PROVE x \in Elements(q) \ chosen
    <3>1. PICK i \in 1 .. (Len(q) - n) : x = q[n + i]
      BY <1>3 DEF Elements
    <3>2. \A j \in 1 .. n : j \in 1 .. Len(q) /\ j # n + i
      BY <1>0, <1>a
    <3> QED BY <1>a, <3>1, <3>2 DEF Elements, Distinct
  <2>2. ASSUME NEW x \in Elements(q) \ chosen PROVE x \in Elements(queue')
    <3>1. PICK i \in 1 .. Len(q) : q[i] = x /\ i > n
      BY <1>1, LenProperties DEF Elements
    <3>2. (i - n) \in 1 .. Len(queue') /\ queue'[i - n] = x
      BY <1>1, <1>3, <3>1, LenProperties
    <3> QED BY <3>2 DEF Elements
  <2> QED BY <2>1, <2>2
<1>6. IsFiniteSet(chosen) /\ Cardinality(chosen) = n
  <2> DEFINE f == [i \in 1 .. n |-> q[i]]
  <2>1. f \in Bijection(1 .. n, chosen)
    <3>1. f \in [1 .. n -> chosen] /\ \A x \in chosen : \E i \in 1 .. n : f[i] = x
      OBVIOUS
    <3>2. \A i, j \in 1 .. n : f[i] = f[j] => i = j
      BY <1>1, LenProperties DEF Distinct
    <3> HIDE DEF f, chosen
    <3> QED BY <3>1, <3>2 DEF Bijection, Injection, Surjection, IsInjective
  <2> HIDE DEF f, chosen
  <2>2. ExistsBijection(1 .. n, chosen)
    BY <2>1 DEF ExistsBijection
  <2>3. n \in Nat
    BY <1>1, LenProperties
  <2> QED BY <2>2, <2>3, FS_NatBijection, FS_CountingElements
<1>7. chosen \subseteq Elements(q) /\ chosen \subseteq Task
  BY <1>1, LenProperties, ElementOfSeq DEF Elements
<1>8. queue' # <<>> => active' = Max
  BY <1>1, <1>2, <1>3, LenProperties
<1>9. active' \in Nat /\ active' <= Max
  BY <1>1, <1>2, LenProperties
<1> WITNESS n \in 0 .. Len(q)
<1> QED BY <1>2, <1>3, <1>4, <1>5, <1>6, <1>7, <1>8, <1>9 DEF Pumped

-----------------------------------------------------------------------------
(* The tasks that hold a slot can be counted. *)
LEMMA HoldersFinite == IsFiniteSet(Holders) /\ Cardinality(Holders) \in Nat
<1>1. Holders \subseteq Task
  BY DEF Holders
<1> QED BY <1>1, TaskAssumption, FS_Subset, FS_CardinalityType

(* The empty gate satisfies the invariant. *)
LEMMA InitOK == Init => IndInv
<1> SUFFICES ASSUME Init PROVE IndInv
  OBVIOUS
<1>1. TypeOK /\ Counting
  BY EmptySeq DEF Init, TypeOK, Counting, States
<1>2. NothingLost /\ WorkConserving
  BY EmptySeq DEF Init, NothingLost, WorkConserving, Waiters
<1>3. Holders = {}
  BY DEF Init, Holders, Started
<1>4. SlotsAccounted
  BY <1>3, FS_EmptySet, MaxAssumption DEF Init, SlotsAccounted
<1> QED BY <1>1, <1>2, <1>3, <1>4 DEF IndInv

(* An entry that arrives joins the end of the queue, once. *)
LEMMA ArrivalProperties ==
  ASSUME IndInv, NEW t \in Task, state[t] = "fresh"
  PROVE  LET q == Append(queue, t)
         IN /\ q \in Seq(Task) /\ Elements(q) = Waiters \cup {t} /\ Distinct(q)
            /\ Len(queue) \in Nat /\ Len(q) = Len(queue) + 1
            /\ \A k \in 1 .. Len(queue) : q[k] = queue[k]
<1> DEFINE q == Append(queue, t)
<1>1. queue \in Seq(Task) /\ Len(queue) \in Nat /\ t \notin Waiters
  BY LenProperties DEF IndInv, TypeOK, NothingLost
<1>2. /\ q \in Seq(Task) /\ Len(q) = Len(queue) + 1 /\ q[Len(queue) + 1] = t
      /\ \A k \in 1 .. Len(queue) : q[k] = queue[k]
  BY <1>1, AppendProperties
<1> HIDE DEF q
<1>3. Elements(q) = Waiters \cup {t}
  BY <1>1, <1>2 DEF Elements, Waiters
<1>4. Distinct(q)
  BY <1>1, <1>2 DEF Distinct, Waiters, IndInv, NothingLost
<1> QED BY <1>1, <1>2, <1>3, <1>4 DEF q

(* An arrival joins the end of the queue, and the pump runs. *)
LEMMA EnqueueOK ==
  ASSUME IndInv, NEW t \in Task, Enqueue(t)
  PROVE  IndInv'
<1> DEFINE q  == Append(queue, t)
           st == [state EXCEPT ![t] = "queued"]
<1> USE DEF IndInv, TypeOK
<1>1. /\ q \in Seq(Task) /\ Elements(q) = Waiters \cup {t} /\ Distinct(q)
  BY ArrivalProperties DEF Enqueue
<1>2. st \in [Task -> States]
  BY DEF States
<1> HIDE DEF q, st
<1>3. Pump(q, st, active) /\ UNCHANGED <<counted, promoting>> /\ state[t] = "fresh"
  BY DEF Enqueue, q, st
<1>4. active \in Nat /\ active <= Max
  BY DEF SlotsAccounted
<1>5. PICK n \in 0 .. Len(q) : Pumped(q, st, active, n)
  BY <1>1, <1>2, <1>3, <1>4, PumpProperties
<1> DEFINE chosen == Prefix(q, n)
<1> HIDE DEF chosen
<1>6. /\ state' \in [Task -> States] /\ counted' = counted /\ promoting' = promoting
      /\ \A u \in Task : state'[u] = IF u \in chosen THEN "popped"
                                     ELSE IF u = t THEN "queued" ELSE state[u]
  BY <1>2, <1>3, <1>5 DEF Pumped, chosen, st, States
<1>7. Elements(queue') = (Waiters \cup {t}) \ chosen /\ chosen \subseteq Waiters \cup {t}
  BY <1>1, <1>5 DEF Pumped, chosen
<1>8. TypeOK' /\ Counting' /\ WorkConserving'
  BY <1>3, <1>5, <1>6 DEF Pumped, Counting, WorkConserving
<1>9. counted[t] /\ t \notin promoting
  BY <1>3 DEF Counting
<1>10. NothingLost'
  <2>1. Waiters' = Elements(queue') /\ Waiters \subseteq Task
    BY ElementOfSeq DEF Waiters, Elements
  <2>2. \A u \in Waiters' : state'[u] = "queued" /\ counted'[u] /\ u \notin promoting'
    BY <2>1, <1>6, <1>7, <1>9 DEF NothingLost
  <2>3. \A u \in Task : state'[u] = "queued" => u \in Waiters' \cup promoting'
    BY <2>1, <1>6, <1>7 DEF NothingLost
  <2>4. Distinct(queue')
    BY <1>5 DEF Pumped
  <2> QED BY <2>2, <2>3, <2>4 DEF NothingLost, Distinct
<1>11. Holders' = Holders \cup chosen /\ Holders \cap chosen = {}
  <2>1. Waiters \subseteq Task /\ chosen \subseteq Task
    BY <1>5, ElementOfSeq DEF Waiters, Pumped, chosen
  <2>2. \A u \in chosen : counted[u] /\ state[u] \in {"queued", "fresh"}
    BY <1>3, <1>7, <1>9 DEF NothingLost
  <2> QED BY <2>1, <2>2, <1>3, <1>6 DEF Holders, Started
<1>12. IsFiniteSet(chosen) /\ Cardinality(chosen) = n /\ active' = active + n /\ active' <= Max
  BY <1>5 DEF Pumped, chosen
<1>13. SlotsAccounted'
  <2>1. Cardinality(Holders \cup chosen)
          = Cardinality(Holders) + Cardinality(chosen) - Cardinality(Holders \cap chosen)
    BY <1>12, HoldersFinite, FS_Union
  <2>2. Cardinality(Holders \cap chosen) = 0
    BY <1>11, FS_EmptySet
  <2>3. n \in Nat
    BY <1>1, LenProperties
  <2>4. Cardinality(Holders') = Cardinality(Holders) + n
    BY <1>11, <1>12, <2>1, <2>2, <2>3, HoldersFinite
  <2> QED BY <1>12, <2>4 DEF SlotsAccounted
<1> QED BY <1>8, <1>10, <1>13

(* A promotion or a cancellation takes the entry out of the queue first. *)
LEMMA LeaveQueueOK ==
  ASSUME IndInv, NEW t \in Task, Promote(t) \/ Cancel(t)
  PROVE  IndInv'
<1> USE DEF IndInv, TypeOK
<1>1. Distinct(queue)
  BY DEF NothingLost, Distinct
<1>2. /\ queue' \in Seq(Task) /\ Distinct(queue') /\ Elements(queue') = Elements(queue) \ {t}
      /\ queue' # <<>> => queue # <<>>
  <2> DEFINE w == Without(queue, t)
  <2>1. /\ w \in Seq(Task) /\ Distinct(w) /\ Elements(w) = Elements(queue) \ {t}
        /\ queue = <<>> => w = <<>>
    <3>1. queue \in Seq(Task)
      OBVIOUS
    <3> QED BY <1>1, <3>1, WithoutProperties
  <2>2. queue' = w
    BY DEF Promote, Cancel
  <2> HIDE DEF w
  <2> QED BY <2>1, <2>2
<1>3. Waiters = Elements(queue) /\ Waiters' = Elements(queue')
  BY DEF Waiters, Elements
<1>4. Waiters \subseteq Task
  BY ElementOfSeq DEF Waiters
<1>5. TypeOK' /\ Counting' /\ WorkConserving'
  BY <1>2 DEF Promote, Cancel, Counting, WorkConserving, States
<1>6. NothingLost'
  <2>1. \A u \in Waiters' : state'[u] = "queued" /\ counted'[u] /\ u \notin promoting'
    BY <1>2, <1>3, <1>4 DEF NothingLost, Promote, Cancel
  <2>2. \A u \in Task : state'[u] = "queued" => u \in Waiters' \cup promoting'
    BY <1>2, <1>3 DEF NothingLost, Promote, Cancel
  <2> QED BY <1>2, <2>1, <2>2 DEF NothingLost, Distinct
<1>7. Holders' = Holders
  BY DEF Holders, Started, Promote, Cancel
<1>8. SlotsAccounted'
  BY <1>7 DEF SlotsAccounted, Promote, Cancel
<1> QED BY <1>5, <1>6, <1>8

(* Neither a start outside the queue nor a step of a started task touches the *)
(* queue or the slots.                                                        *)
LEMMA StartedStepOK ==
  ASSUME IndInv, NEW t \in Task, StartPromoted(t) \/ CallFn(t) \/ Resolve(t)
  PROVE  IndInv'
<1> USE DEF IndInv, TypeOK
<1>1. Waiters' = Waiters /\ Waiters \subseteq Task
  BY ElementOfSeq DEF Waiters, StartPromoted, CallFn, Resolve
<1>2. t \notin Waiters
  BY DEF NothingLost, StartPromoted, CallFn, Resolve
<1>3. TypeOK' /\ Counting' /\ WorkConserving'
  BY DEF StartPromoted, CallFn, Resolve, Counting, WorkConserving, States
<1>4. NothingLost'
  <2>1. \A u \in Waiters' : state'[u] = "queued" /\ counted'[u] /\ u \notin promoting'
    BY <1>1, <1>2 DEF NothingLost, StartPromoted, CallFn, Resolve
  <2>2. \A u \in Task : state'[u] = "queued" => u \in Waiters' \cup promoting'
    BY <1>1 DEF NothingLost, StartPromoted, CallFn, Resolve
  <2>3. queue' = queue
    BY DEF StartPromoted, CallFn, Resolve
  <2> QED BY <2>1, <2>2, <2>3 DEF NothingLost
<1>5. Holders' = Holders
  BY DEF Holders, Started, StartPromoted, CallFn, Resolve, Counting
<1>6. SlotsAccounted'
  BY <1>5 DEF SlotsAccounted, StartPromoted, CallFn, Resolve
<1> QED BY <1>3, <1>4, <1>6

(* A counted task gives its slot back, and the pump hands it on. *)
LEMMA ReleaseOK ==
  ASSUME IndInv, NEW t \in Task, Release(t)
  PROVE  IndInv'
<1> DEFINE st == [state EXCEPT ![t] = "settled"]
<1> USE DEF IndInv, TypeOK
<1>1. Waiters \subseteq Task /\ t \notin Waiters /\ Waiters = Elements(queue)
  BY ElementOfSeq DEF Waiters, Elements, NothingLost, Release
<1>2. st \in [Task -> States] /\ \A u \in Task : st[u] = IF u = t THEN "settled" ELSE state[u]
  BY DEF States
<1> HIDE DEF st
<1>3. /\ state[t] = "resolved" /\ counted' = counted /\ promoting' = promoting
  BY DEF Release
<1>4. CASE ~counted[t]
  <2>1. queue' = queue /\ active' = active /\ state' = st
    BY <1>4 DEF Release, st
  <2>2. TypeOK' /\ Counting' /\ WorkConserving'
    BY <1>2, <1>3, <2>1 DEF Counting, WorkConserving
  <2>3. Waiters' = Waiters
    BY <2>1 DEF Waiters
  <2>4. NothingLost'
    BY <1>1, <1>2, <1>3, <2>1, <2>3 DEF NothingLost
  <2>5. Holders' = Holders
    BY <1>2, <1>3, <1>4, <2>1 DEF Holders, Started
  <2>6. SlotsAccounted'
    BY <2>1, <2>5 DEF SlotsAccounted
  <2> QED BY <2>2, <2>4, <2>6
<1>5. CASE counted[t]
  <2>1. Pump(queue, st, active - 1)
    BY <1>5 DEF Release, st
  <2>2. t \in Holders
    BY <1>3, <1>5 DEF Holders, Started
  <2>3. IsFiniteSet(Holders \ {t}) /\ Cardinality(Holders \ {t}) = active - 1
    BY <2>2, HoldersFinite, FS_RemoveElement DEF SlotsAccounted
  <2>4. active - 1 \in Nat /\ active - 1 <= Max
    BY <2>3, HoldersFinite, FS_CardinalityType, MaxAssumption DEF SlotsAccounted
  <2>5. PICK n \in 0 .. Len(queue) : Pumped(queue, st, active - 1, n)
    <3>1. Distinct(queue)
      BY DEF NothingLost, Distinct
    <3> QED BY <1>2, <2>1, <2>4, <3>1, PumpProperties
  <2> DEFINE chosen == Prefix(queue, n)
  <2> HIDE DEF chosen
  <2>6. /\ state' \in [Task -> States]
        /\ \A u \in Task : state'[u] = IF u \in chosen THEN "popped"
                                       ELSE IF u = t THEN "settled" ELSE state[u]
    BY <1>2, <2>5 DEF Pumped, chosen, States
  <2>7. /\ Elements(queue') = Waiters \ chosen /\ chosen \subseteq Waiters
        /\ Distinct(queue')
    BY <1>1, <2>5 DEF Pumped, chosen
  <2>8. TypeOK' /\ Counting' /\ WorkConserving'
    BY <1>3, <2>5, <2>6 DEF Pumped, Counting, WorkConserving
  <2>9. NothingLost'
    <3>1. Waiters' = Elements(queue')
      BY DEF Waiters, Elements
    <3>2. \A u \in Waiters' : state'[u] = "queued" /\ counted'[u] /\ u \notin promoting'
      BY <3>1, <1>1, <1>3, <2>6, <2>7 DEF NothingLost
    <3>3. \A u \in Task : state'[u] = "queued" => u \in Waiters' \cup promoting'
      BY <3>1, <1>3, <2>6, <2>7 DEF NothingLost
    <3> QED BY <2>7, <3>2, <3>3 DEF NothingLost, Distinct
  <2>10. Holders' = (Holders \ {t}) \cup chosen /\ (Holders \ {t}) \cap chosen = {}
    <3>1. \A u \in chosen : counted[u] /\ state[u] = "queued" /\ u \in Task
      BY <1>1, <2>7 DEF NothingLost
    <3> QED BY <3>1, <1>1, <1>3, <2>6, <2>7 DEF Holders, Started
  <2>11. /\ IsFiniteSet(chosen) /\ Cardinality(chosen) = n
         /\ active' = active - 1 + n /\ active' <= Max
    BY <2>5 DEF Pumped, chosen
  <2>12. SlotsAccounted'
    <3>1. Cardinality((Holders \ {t}) \cup chosen)
            = Cardinality(Holders \ {t}) + Cardinality(chosen)
              - Cardinality((Holders \ {t}) \cap chosen)
      BY <2>3, <2>11, FS_Union
    <3>2. Cardinality((Holders \ {t}) \cap chosen) = 0
      BY <2>10, FS_EmptySet
    <3>3. n \in Nat
      BY LenProperties
    <3>4. Cardinality(Holders') = active - 1 + n
      BY <2>3, <2>4, <2>10, <2>11, <3>1, <3>2, <3>3
    <3> QED BY <2>11, <3>4 DEF SlotsAccounted
  <2> QED BY <2>8, <2>9, <2>12
<1> QED BY <1>4, <1>5

(* Every step keeps the invariant. *)
LEMMA StepOK == IndInv /\ [Next]_vars => IndInv'
<1> SUFFICES ASSUME IndInv, [Next]_vars PROVE IndInv'
  OBVIOUS
<1>1. CASE UNCHANGED vars
  BY <1>1 DEF vars, IndInv, TypeOK, Counting, NothingLost, SlotsAccounted, WorkConserving,
              Waiters, Holders
<1>2. CASE Next
  BY <1>2, EnqueueOK, LeaveQueueOK, StartedStepOK, ReleaseOK DEF Next
<1> QED BY <1>1, <1>2

(* The inductive invariant holds throughout. *)
THEOREM Inductive == Spec => []IndInv
<1> QED BY InitOK, StepOK, PTL DEF Spec

(* The queue, the states and the counters keep their types. *)
THEOREM TypeCorrect == Spec => []TypeOK
<1>1. IndInv => TypeOK
  BY DEF IndInv
<1> QED BY <1>1, Inductive, PTL

(* At most max normal tasks hold a slot, and active counts exactly them.      *)
THEOREM SlotsAlwaysAccounted == Spec => []SlotsAccounted
<1>1. IndInv => SlotsAccounted
  BY DEF IndInv
<1> QED BY <1>1, Inductive, PTL

(* A queued entry is in the queue or in one promotion's microtask, never in   *)
(* both, never in neither.                                                    *)
THEOREM NothingIsLost == Spec => []NothingLost
<1>1. IndInv => NothingLost
  BY DEF IndInv
<1> QED BY <1>1, Inductive, PTL

(* No slot is idle while an entry waits for one. *)
THEOREM SlotsNeverIdle == Spec => []WorkConserving
<1>1. IndInv => WorkConserving
  BY DEF IndInv
<1> QED BY <1>1, Inductive, PTL

-----------------------------------------------------------------------------
(* A start takes slots in order, and no entry outside the queue starts. *)
LEMMA PumpIsFifo ==
  ASSUME NEW q \in Seq(Task), Distinct(q), NEW st \in [Task -> States],
         NEW used \in Nat, used <= Max, Pump(q, st, used)
  PROVE  /\ \A i, j \in 1 .. Len(q) :
              i < j /\ st[q[j]] # "popped" /\ state'[q[j]] = "popped"
                => state'[q[i]] = "popped"
         /\ \A u \in Task \ Elements(q) : state'[u] = st[u]
<1>1. PICK n \in 0 .. Len(q) : Pumped(q, st, used, n)
  BY PumpProperties
<1>2. ASSUME NEW i \in 1 .. Len(q), NEW j \in 1 .. Len(q), i < j,
             st[q[j]] # "popped", state'[q[j]] = "popped"
      PROVE  state'[q[i]] = "popped"
  <2>1. q[i] \in Task /\ q[j] \in Task
    BY ElementOfSeq
  <2>2. q[j] \in Prefix(q, n)
    BY <1>1, <1>2, <2>1 DEF Pumped
  <2>3. j <= n
    BY <1>1, <2>2, LenProperties DEF Prefix, Distinct
  <2>4. q[i] \in Prefix(q, n)
    BY <1>2, <2>3, LenProperties DEF Prefix
  <2> QED BY <1>1, <2>1, <2>4 DEF Pumped
<1>3. ASSUME NEW u \in Task \ Elements(q) PROVE state'[u] = st[u]
  BY <1>1 DEF Pumped
<1> QED BY <1>2, <1>3

(* No waiter is overtaken by a normal task that arrived after it. *)
THEOREM StartsAreFifo == Spec => FifoStart
<1> DEFINE Fifo == \A i, j \in 1 .. Len(queue) :
             i < j /\ state'[queue[j]] = "popped" => state'[queue[i]] = "popped"
<1>1. IndInv /\ [Next]_vars => [Fifo]_vars
  <2> SUFFICES ASSUME IndInv, Next, NEW i \in 1 .. Len(queue), NEW j \in 1 .. Len(queue),
                      i < j, state'[queue[j]] = "popped"
               PROVE  state'[queue[i]] = "popped"
    OBVIOUS
  <2> USE DEF IndInv, TypeOK
  <2>1. /\ queue[j] \in Waiters /\ queue[j] \in Task /\ queue[i] \in Task
        /\ state[queue[j]] = "queued" /\ queue[j] \notin promoting
    BY ElementOfSeq DEF Waiters, NothingLost
  <2>2. active \in Nat /\ active <= Max /\ Len(queue) \in Nat /\ Distinct(queue)
    BY LenProperties DEF SlotsAccounted, NothingLost, Distinct
  <2>3. PICK t \in Task : \/ Enqueue(t) \/ Promote(t) \/ StartPromoted(t) \/ Cancel(t)
                          \/ CallFn(t) \/ Resolve(t) \/ Release(t)
    BY DEF Next
  <2>4. CASE Enqueue(t)
    <3> DEFINE q  == Append(queue, t)
               st == [state EXCEPT ![t] = "queued"]
    <3>1. /\ q \in Seq(Task) /\ Distinct(q) /\ Len(q) = Len(queue) + 1
          /\ \A k \in 1 .. Len(queue) : q[k] = queue[k]
      BY <2>4, ArrivalProperties DEF Enqueue
    <3>2. st \in [Task -> States] /\ st[queue[j]] # "popped" /\ Pump(q, st, active)
      BY <2>1, <2>4 DEF States, Enqueue
    <3> HIDE DEF q, st
    <3>3. i \in 1 .. Len(q) /\ j \in 1 .. Len(q) /\ q[i] = queue[i] /\ q[j] = queue[j]
      BY <2>2, <3>1
    <3>4. \A a, b \in 1 .. Len(q) :
            a < b /\ st[q[b]] # "popped" /\ state'[q[b]] = "popped"
              => state'[q[a]] = "popped"
      BY <2>2, <3>1, <3>2, PumpIsFifo
    <3>5. st[q[j]] # "popped" /\ state'[q[j]] = "popped"
      BY <3>2, <3>3
    <3>6. state'[q[i]] = "popped"
      BY <3>3, <3>4, <3>5
    <3> QED BY <3>3, <3>6
  <2>5. CASE Release(t)
    <3> DEFINE st == [state EXCEPT ![t] = "settled"]
    <3>1. st \in [Task -> States] /\ st[queue[j]] # "popped"
      BY <2>1 DEF States
    <3>2. CASE counted[t]
      <4>1. Pump(queue, st, active - 1)
        BY <2>5, <3>2 DEF Release
      <4>2. t \in Holders
        BY <2>5, <3>2 DEF Release, Holders, Started
      <4>3. Cardinality(Holders) # 0
        BY <4>2, HoldersFinite, FS_EmptySet
      <4>4. active - 1 \in Nat /\ active - 1 <= Max
        BY <2>2, <4>3, MaxAssumption, HoldersFinite DEF SlotsAccounted
      <4> HIDE DEF st
      <4> QED BY <2>2, <3>1, <4>1, <4>4, PumpIsFifo
    <3>3. CASE ~counted[t]
      BY <2>5, <3>1, <3>3 DEF Release
    <3> QED BY <3>2, <3>3
  <2>6. CASE Promote(t) \/ StartPromoted(t) \/ Cancel(t) \/ CallFn(t) \/ Resolve(t)
    BY <2>1, <2>6 DEF Promote, StartPromoted, Cancel, CallFn, Resolve
  <2> QED BY <2>3, <2>4, <2>5, <2>6
<1> QED BY <1>1, Inductive, PTL DEF Spec, FifoStart

(* An entry whose cancel() answered true never starts. *)
THEOREM CancellationIsFinal == Spec => SettledIsFinal
<1> DEFINE Final == \A t \in Task : state[t] = "settled" => state'[t] = "settled"
<1>1. IndInv /\ [Next]_vars => [Final]_vars
  <2> SUFFICES ASSUME IndInv, Next, NEW u \in Task, state[u] = "settled"
               PROVE  state'[u] = "settled"
    OBVIOUS
  <2> USE DEF IndInv, TypeOK
  <2>1. PICK t \in Task : \/ Enqueue(t) \/ Promote(t) \/ StartPromoted(t) \/ Cancel(t)
                          \/ CallFn(t) \/ Resolve(t) \/ Release(t)
    BY DEF Next
  <2>2. u \notin Waiters
    BY DEF NothingLost
  <2>3. active \in Nat /\ active <= Max /\ Distinct(queue) /\ Elements(queue) = Waiters
    BY DEF SlotsAccounted, NothingLost, Distinct, Elements, Waiters
  <2>4. CASE Enqueue(t)
    <3> DEFINE st == [state EXCEPT ![t] = "queued"]
    <3>1. st \in [Task -> States] /\ st[u] = "settled" /\ u # t
      BY <2>4 DEF States, Enqueue
    <3> DEFINE q == Append(queue, t)
    <3>2. Pump(q, st, active)
      BY <2>4 DEF Enqueue
    <3>3. q \in Seq(Task) /\ Distinct(q) /\ Elements(q) = Waiters \cup {t}
      BY <2>4, ArrivalProperties DEF Enqueue
    <3> HIDE DEF st, q
    <3>4. u \in Task \ Elements(q)
      BY <2>2, <3>1, <3>3
    <3>5. \A x \in Task \ Elements(q) : state'[x] = st[x]
      BY <2>3, <3>1, <3>2, <3>3, PumpIsFifo
    <3> QED BY <3>1, <3>4, <3>5
  <2>5. CASE Release(t)
    <3> DEFINE st == [state EXCEPT ![t] = "settled"]
    <3>1. st \in [Task -> States] /\ st[u] = "settled"
      BY DEF States
    <3>2. CASE counted[t]
      <4>1. Pump(queue, st, active - 1) /\ t \in Holders
        BY <2>5, <3>2 DEF Release, Holders, Started
      <4>2. Cardinality(Holders) # 0
        BY <4>1, HoldersFinite, FS_EmptySet
      <4>3. active - 1 \in Nat /\ active - 1 <= Max
        BY <2>3, <4>2, MaxAssumption, HoldersFinite DEF SlotsAccounted
      <4> HIDE DEF st
      <4> QED BY <2>2, <2>3, <3>1, <4>1, <4>3, PumpIsFifo
    <3>3. CASE ~counted[t]
      BY <2>5, <3>1, <3>3 DEF Release
    <3> QED BY <3>2, <3>3
  <2>6. CASE Promote(t) \/ StartPromoted(t) \/ Cancel(t) \/ CallFn(t) \/ Resolve(t)
    BY <2>6 DEF Promote, StartPromoted, Cancel, CallFn, Resolve
  <2> QED BY <2>1, <2>4, <2>5, <2>6
<1> QED BY <1>1, Inductive, PTL DEF Spec, SettledIsFinal
=============================================================================
