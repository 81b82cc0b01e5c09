------------------------- MODULE ComputerUseLockProofs -------------------------
(***************************************************************************)
(* Theorems about the computer-use lock (ComputerUseLock), for any number  *)
(* of actors and of requests.  The inductive invariant adds to the         *)
(* properties what ties the queues and the holder to where each actor's    *)
(* run stands: the queues hold exactly the waiting runs, split by          *)
(* priority, and one run at most is between the lock's grant and release.  *)
(***************************************************************************)
EXTENDS ComputerUseLock, SequenceTheorems, TLAPS

Waiters(ph, resp, urgent) == {a \in Actor : ph[a] = "queued" /\ resp[a] = urgent}

QueuesAgree ==
  /\ Distinct(responsiveQueue) /\ Elements(responsiveQueue) = Waiters(phase, responsive, TRUE)
  /\ Distinct(normalQueue) /\ Elements(normalQueue) = Waiters(phase, responsive, FALSE)

HolderAgrees ==
  /\ holder # NoActor => phase[holder] \in {"locked", "ended"}
  /\ \A a \in Actor : phase[a] \in {"locked", "ended"} => a = holder

AdmissionRecorded == \A a \in Actor : phase[a] = "unlocked" => ~admitted[a]

ClosedIsEmpty == closed => \A a \in Actor : phase[a] # "queued"

IndInv ==
  /\ TypeOK /\ QueuesAgree /\ HolderAgrees /\ AdmissionRecorded /\ ClosedIsEmpty
  /\ NoPriorityInversion /\ FreeLockIsIdle

-----------------------------------------------------------------------------
(* What the operations on a queue do to its entries. *)

(* Taking an entry out of a queue takes out nothing else. *)
LEMMA WithoutProperties ==
  ASSUME NEW S, NEW q \in Seq(S), Distinct(q), NEW e \in S
  PROVE  /\ Without(q, e) \in Seq(S)
         /\ Distinct(Without(q, e))
         /\ Elements(Without(q, e)) = Elements(q) \ {e}
         /\ q = <<>> => Without(q, e) = <<>>
         /\ Len(Without(q, e)) >= Len(q) - 1
<1>1. CASE \E i \in 1 .. Len(q) : q[i] = e
  <2> DEFINE k == CHOOSE i \in 1 .. Len(q) : q[i] = e
             n == Len(q) - 1
             from(i) == IF i < k THEN i ELSE i + 1
             w == [i \in 1 .. n |-> IF i < k THEN q[i] ELSE q[i + 1]]
  <2>1. k \in 1 .. Len(q) /\ q[k] = e /\ Len(q) \in Nat
    BY <1>1, LenProperties
  <2>2. Without(q, e) = w
    BY <1>1 DEF Without
  <2> HIDE DEF k
  <2>3. n \in Nat /\ \A i \in 1 .. n : from(i) \in 1 .. Len(q) /\ from(i) # k /\ w[i] = q[from(i)]
    BY <2>1
  <2>4. w \in Seq(S) /\ Len(w) = n
    BY <2>1, <2>3, ElementOfSeq
  <2>5. /\ \A i, j \in 1 .. n : from(i) = from(j) => i = j
        /\ \A m \in 1 .. Len(q) : m # k => \E i \in 1 .. n : from(i) = m
    <3>1. ASSUME NEW m \in 1 .. Len(q), m # k PROVE \E i \in 1 .. n : from(i) = m
      <4>1. CASE m < k
        BY <2>1, <4>1
      <4>2. CASE m > k
        <5>1. (m - 1) \in 1 .. n /\ from(m - 1) = m
          BY <2>1, <4>2
        <5> QED BY <5>1
      <4> QED BY <2>1, <3>1, <4>1, <4>2
    <3> QED BY <2>1, <3>1
  <2>6. q # <<>>
    BY <2>1, EmptySeq
  <2> HIDE DEF w, from, n
  <2>7. Distinct(w)
    BY <2>3, <2>4, <2>5 DEF Distinct
  <2>8. Elements(w) = Elements(q) \ {e}
    <3>1. Elements(w) \subseteq Elements(q) \ {e}
      BY <2>1, <2>3, <2>4 DEF Distinct, Elements
    <3>2. Elements(q) \ {e} \subseteq Elements(w)
      BY <2>1, <2>3, <2>4, <2>5 DEF Elements
    <3> QED BY <3>1, <3>2
  <2> QED BY <2>1, <2>2, <2>4, <2>6, <2>7, <2>8 DEF n
<1>2. CASE ~ \E i \in 1 .. Len(q) : q[i] = e
  BY <1>2, LenProperties DEF Without, Elements
<1> QED BY <1>1, <1>2

(* push: the new entry joins the others. *)
LEMMA PushProperties ==
  ASSUME NEW S, NEW q \in Seq(S), Distinct(q), NEW e \in S, e \notin Elements(q)
  PROVE  /\ Append(q, e) \in Seq(S) /\ Append(q, e) # <<>>
         /\ Distinct(Append(q, e))
         /\ Elements(Append(q, e)) = Elements(q) \cup {e}
<1> DEFINE w == Append(q, e)
<1>1. /\ w \in Seq(S) /\ w # <<>> /\ Len(w) = Len(q) + 1
      /\ w[Len(q) + 1] = e /\ \A i \in 1 .. Len(q) : w[i] = q[i]
  BY AppendProperties
<1>2. Len(q) \in Nat
  BY LenProperties
<1> HIDE DEF w
<1>3. Distinct(w)
  <2>1. \A i \in 1 .. Len(q) : w[i] # e
    BY <1>1 DEF Elements
  <2> QED BY <1>1, <1>2, <2>1 DEF Distinct
<1>4. Elements(w) = Elements(q) \cup {e}
  BY <1>1, <1>2 DEF Elements
<1> QED BY <1>1, <1>3, <1>4 DEF w

(* shift: the front entry leaves the others behind. *)
LEMMA ShiftProperties ==
  ASSUME NEW S, NEW q \in Seq(S), Distinct(q), q # <<>>
  PROVE  /\ Head(q) \in Elements(q) /\ Tail(q) \in Seq(S)
         /\ Distinct(Tail(q))
         /\ Elements(Tail(q)) = Elements(q) \ {Head(q)}
<1> DEFINE w == Tail(q)
<1>1. Len(q) \in Nat \ {0}
  BY EmptySeq
<1>2. /\ w \in Seq(S) /\ Len(w) = Len(q) - 1
      /\ \A i \in 1 .. Len(q) - 1 : w[i] = q[i + 1]
  BY HeadTailProperties
<1>3. Head(q) = q[1]
  BY <1>1
<1> HIDE DEF w
<1>4. Distinct(w)
  <2>1. \A i \in 1 .. Len(q) - 1 : i + 1 \in 1 .. Len(q)
    BY <1>1
  <2> QED BY <1>1, <1>2, <2>1 DEF Distinct
<1>5. Elements(w) = Elements(q) \ {q[1]}
  <2>1. ASSUME NEW x \in Elements(w) PROVE x \in Elements(q) \ {q[1]}
    <3>1. PICK i \in 1 .. Len(q) - 1 : x = q[i + 1]
      BY <1>2, <2>1 DEF Elements
    <3>2. i + 1 \in 1 .. Len(q) /\ i + 1 # 1 /\ 1 \in 1 .. Len(q)
      BY <1>1
    <3> QED BY <3>1, <3>2 DEF Elements, Distinct
  <2>2. ASSUME NEW x \in Elements(q) \ {q[1]} PROVE x \in Elements(w)
    <3>1. PICK i \in 1 .. Len(q) : x = q[i] /\ i # 1
      BY <2>2 DEF Elements
    <3>2. i - 1 \in 1 .. Len(q) - 1 /\ (i - 1) + 1 = i
      BY <1>1, <3>1
    <3> QED BY <1>2, <3>1, <3>2 DEF Elements
  <2> QED BY <2>1, <2>2
<1>6. Head(q) \in Elements(q)
  BY <1>1, <1>3 DEF Elements
<1> QED BY <1>2, <1>3, <1>4, <1>5, <1>6 DEF w

(* A queue is empty exactly if nothing waits in it. *)
LEMMA EmptyQueue ==
  ASSUME NEW S, NEW q \in Seq(S)
  PROVE  q = <<>> <=> Elements(q) = {}
<1>1. CASE q = <<>>
  BY <1>1 DEF Elements
<1>2. CASE q # <<>>
  <2>1. 1 \in 1 .. Len(q)
    BY <1>2, EmptySeq
  <2> QED BY <1>2, <2>1 DEF Elements
<1> QED BY <1>1, <1>2

-----------------------------------------------------------------------------
(* pump() on a free lock whose queues agree with the runs' phases leaves      *)
(* everything in agreement, with a responsive holder if a responsive run      *)
(* waits, and with nothing left to do if nobody gets the lock.                *)
LEMMA PumpProperties ==
  ASSUME NEW rq \in Seq(Actor), NEW nq \in Seq(Actor), Distinct(rq), Distinct(nq),
         NEW ph \in [Actor -> Phases], NEW resp \in [Actor -> BOOLEAN],
         NEW pend \in SUBSET Actor, owed \subseteq Actor, NoActor \notin Actor,
         Elements(rq) = Waiters(ph, resp, TRUE), Elements(nq) = Waiters(ph, resp, FALSE),
         \A a \in Actor : ph[a] \notin {"locked", "ended"},
         responsive' = resp, Pump(rq, nq, ph, pend)
  PROVE  /\ holder' \in Actor \cup {NoActor} /\ phase' \in [Actor -> Phases]
         /\ responsiveQueue' \in Seq(Actor) /\ normalQueue' \in Seq(Actor)
         /\ pendingReRequests' \subseteq Actor /\ owed' \subseteq Actor
         /\ QueuesAgree' /\ HolderAgrees'
         /\ \A a \in Actor : phase'[a] # "locked" => phase'[a] = ph[a]
         /\ \A a \in Actor : phase'[a] = "queued" /\ resp[a] =>
              holder' # NoActor /\ resp[holder']
         /\ holder' = NoActor =>
              pendingReRequests' = {} /\ \A a \in Actor : phase'[a] # "queued"
<1> DEFINE next == CASE rq # <<>> -> Head(rq)
                     [] rq = <<>> /\ nq # <<>> -> Head(nq)
                     [] OTHER -> NoActor
<1>1. /\ holder' = next
      /\ phase' = [a \in Actor |-> IF a = next THEN "locked" ELSE ph[a]]
      /\ responsiveQueue' = IF rq # <<>> THEN Tail(rq) ELSE rq
      /\ normalQueue' = IF rq = <<>> /\ nq # <<>> THEN Tail(nq) ELSE nq
      /\ pendingReRequests' = IF rq = <<>> THEN {} ELSE pend
      /\ owed' = IF rq = <<>> THEN owed \ pend ELSE owed
  BY DEF Pump
<1>2. CASE rq # <<>>
  <2>1. /\ Head(rq) \in Elements(rq) /\ Tail(rq) \in Seq(Actor) /\ Distinct(Tail(rq))
        /\ Elements(Tail(rq)) = Elements(rq) \ {Head(rq)}
    BY <1>2, ShiftProperties
  <2>2. next = Head(rq) /\ Head(rq) \in Actor /\ resp[Head(rq)]
    BY <1>2, <2>1 DEF Waiters
  <2> DEFINE h == Head(rq)
             tl == Tail(rq)
  <2>3. /\ holder' = h /\ responsiveQueue' = tl /\ normalQueue' = nq
        /\ phase' = [a \in Actor |-> IF a = h THEN "locked" ELSE ph[a]]
        /\ pendingReRequests' = pend /\ owed' = owed
    BY <1>1, <1>2, <2>2
  <2> HIDE DEF next, h, tl
  <2>4. /\ h \in Elements(rq) /\ h \in Actor /\ resp[h]
        /\ tl \in Seq(Actor) /\ Distinct(tl) /\ Elements(tl) = Elements(rq) \ {h}
    BY <2>1, <2>2 DEF h, tl
  <2>5. QueuesAgree'
    BY <2>3, <2>4 DEF QueuesAgree, Waiters
  <2>6. HolderAgrees'
    BY <2>3, <2>4 DEF HolderAgrees
  <2> QED BY <2>3, <2>4, <2>5, <2>6 DEF Phases
<1>3. CASE rq = <<>> /\ nq # <<>>
  <2>1. /\ Head(nq) \in Elements(nq) /\ Tail(nq) \in Seq(Actor) /\ Distinct(Tail(nq))
        /\ Elements(Tail(nq)) = Elements(nq) \ {Head(nq)}
    BY <1>3, ShiftProperties
  <2>2. next = Head(nq) /\ Head(nq) \in Actor
    BY <1>3, <2>1 DEF Waiters
  <2> DEFINE h == Head(nq)
             tl == Tail(nq)
  <2>3. /\ holder' = h /\ responsiveQueue' = rq /\ normalQueue' = tl
        /\ phase' = [a \in Actor |-> IF a = h THEN "locked" ELSE ph[a]]
        /\ pendingReRequests' = {} /\ owed' = owed \ pend
    BY <1>1, <1>3, <2>2
  <2> HIDE DEF next, h, tl
  <2>4. /\ h \in Elements(nq) /\ h \in Actor
        /\ tl \in Seq(Actor) /\ Distinct(tl) /\ Elements(tl) = Elements(nq) \ {h}
    BY <2>1, <2>2 DEF h, tl
  <2>5. Waiters(ph, resp, TRUE) = {}
    BY <1>3, EmptyQueue
  <2>6. QueuesAgree'
    BY <2>3, <2>4 DEF QueuesAgree, Waiters
  <2>7. HolderAgrees'
    BY <2>3, <2>4 DEF HolderAgrees
  <2>8. \A a \in Actor : ~(phase'[a] = "queued" /\ resp[a])
    BY <2>3, <2>5 DEF Waiters
  <2> QED BY <2>3, <2>4, <2>6, <2>7, <2>8 DEF Phases
<1>4. CASE rq = <<>> /\ nq = <<>>
  <2>1. next = NoActor
    BY <1>4
  <2>2. Waiters(ph, resp, TRUE) = {} /\ Waiters(ph, resp, FALSE) = {}
    BY <1>4, EmptyQueue
  <2>3. \A a \in Actor : ph[a] # "queued"
    BY <2>2 DEF Waiters
  <2>4. /\ holder' = NoActor /\ responsiveQueue' = rq /\ normalQueue' = nq
        /\ phase' = ph /\ pendingReRequests' = {} /\ owed' = owed \ pend
    <3>1. phase' = [a \in Actor |-> ph[a]]
      BY <1>1, <2>1
    <3> QED BY <1>1, <1>4, <2>1, <3>1
  <2>5. QueuesAgree'
    BY <2>4 DEF QueuesAgree
  <2>6. HolderAgrees'
    BY <2>4 DEF HolderAgrees
  <2> QED BY <2>3, <2>4, <2>5, <2>6
<1> QED BY <1>2, <1>3, <1>4

(* A waiter that enters a queue, or changes queues, keeps the invariant.      *)
LEMMA QueuedOK ==
  ASSUME IndInv, NEW rq \in Seq(Actor), NEW nq \in Seq(Actor), Distinct(rq), Distinct(nq),
         NEW ph \in [Actor -> Phases], NEW a \in Actor,
         Elements(rq) = Waiters(ph, responsive', TRUE),
         Elements(nq) = Waiters(ph, responsive', FALSE),
         responsive' \in [Actor -> BOOLEAN], admitted' \in [Actor -> BOOLEAN],
         ph[a] = "queued", phase[a] \in {"pacing", "queued"}, ~closed,
         \A b \in Actor \ {a} : /\ ph[b] = phase[b] /\ responsive'[b] = responsive[b]
                                /\ admitted'[b] = admitted[b],
         capable' = capable, closed' = closed, requests' = requests,
         Queued(rq, nq, ph, responsive'[a])
  PROVE  IndInv'
<1> USE DEF IndInv, TypeOK
<1>1. a # holder /\ NoActor \notin Actor
  BY ActorAssumption DEF HolderAgrees
<1>2. CASE holder = NoActor
  <2>1. Pump(rq, nq, ph, pendingReRequests) /\ preempted' = preempted
    BY <1>2 DEF Queued
  <2>2. \A b \in Actor : ph[b] \notin {"locked", "ended"}
    BY <1>1, <1>2 DEF HolderAgrees
  <2>3. /\ holder' \in Actor \cup {NoActor} /\ phase' \in [Actor -> Phases]
        /\ responsiveQueue' \in Seq(Actor) /\ normalQueue' \in Seq(Actor)
        /\ pendingReRequests' \subseteq Actor /\ owed' \subseteq Actor
        /\ QueuesAgree' /\ HolderAgrees'
        /\ \A b \in Actor : phase'[b] # "locked" => phase'[b] = ph[b]
        /\ \A b \in Actor : phase'[b] = "queued" /\ responsive'[b] =>
             holder' # NoActor /\ responsive'[holder']
        /\ holder' = NoActor =>
             pendingReRequests' = {} /\ \A b \in Actor : phase'[b] # "queued"
    BY <1>1, <2>1, <2>2, PumpProperties
  <2>4. TypeOK'
    BY <1>2, <2>1, <2>3
  <2>5. AdmissionRecorded'
    BY <2>3 DEF AdmissionRecorded
  <2> QED BY <2>3, <2>4, <2>5 DEF ClosedIsEmpty, NoPriorityInversion, FreeLockIsIdle
<1>3. CASE holder # NoActor
  <2>1. /\ preempted' = (preempted \/ (responsive'[a] /\ ~responsive[holder] /\ ~preempted))
        /\ owed' \in {owed, owed \cup {holder}}
        /\ responsiveQueue' = rq /\ normalQueue' = nq /\ phase' = ph
        /\ holder' = holder /\ pendingReRequests' = pendingReRequests
    BY <1>3 DEF Queued, AskHolder
  <2>2. holder \in Actor \ {a}
    BY <1>1, <1>3
  <2>3. TypeOK'
    BY <1>3, <2>1, <2>2
  <2>4. QueuesAgree'
    BY <2>1 DEF QueuesAgree
  <2>5. HolderAgrees'
    BY <1>1, <2>1, <2>2 DEF HolderAgrees
  <2>6. AdmissionRecorded'
    BY <2>1 DEF AdmissionRecorded
  <2>7. NoPriorityInversion'
    <3>1. SUFFICES ASSUME NEW b \in Actor, ph[b] = "queued", responsive'[b]
                   PROVE  responsive[holder] \/ preempted'
      BY <1>3, <2>1, <2>2 DEF NoPriorityInversion
    <3>2. CASE b = a
      BY <2>1, <3>1, <3>2
    <3>3. CASE b # a
      BY <2>1, <3>1, <3>3 DEF NoPriorityInversion
    <3> QED BY <3>2, <3>3
  <2> QED BY <1>3, <2>1, <2>3, <2>4, <2>5, <2>6, <2>7 DEF ClosedIsEmpty, FreeLockIsIdle
<1> QED BY <1>2, <1>3

(* gate(): a run the provider admitted joins the queue of its priority. *)
LEMMA AdmitToLockOK ==
  ASSUME IndInv, NEW a \in Actor, AdmitToLock(a)
  PROVE  IndInv'
<1> USE DEF IndInv, TypeOK
<1> DEFINE ph == [phase EXCEPT ![a] = "queued"]
           rq == IF responsive[a] THEN Append(responsiveQueue, a) ELSE responsiveQueue
           nq == IF responsive[a] THEN normalQueue ELSE Append(normalQueue, a)
<1>1. /\ phase[a] = "pacing" /\ ~closed /\ responsive' = responsive /\ capable' = capable
      /\ closed' = closed /\ requests' = requests
      /\ admitted' = [admitted EXCEPT ![a] = TRUE]
      /\ Queued(rq, nq, ph, responsive[a])
  BY DEF AdmitToLock
<1>2. a \notin Elements(responsiveQueue) /\ a \notin Elements(normalQueue)
  BY <1>1 DEF QueuesAgree, Waiters
<1>3. /\ rq \in Seq(Actor) /\ Distinct(rq)
      /\ Elements(rq) = Elements(responsiveQueue) \cup (IF responsive[a] THEN {a} ELSE {})
  <2>1. CASE responsive[a]
    <3>1. /\ rq = Append(responsiveQueue, a) /\ responsiveQueue \in Seq(Actor) /\ Distinct(responsiveQueue)
          /\ a \notin Elements(responsiveQueue)
      BY <1>2, <2>1 DEF QueuesAgree
    <3> HIDE DEF IndInv, TypeOK, ph, rq, nq
    <3>2. /\ rq \in Seq(Actor) /\ Distinct(rq)
          /\ Elements(rq) = Elements(responsiveQueue) \cup {a}
      BY <3>1, PushProperties
    <3> QED BY <2>1, <3>2
  <2>2. CASE ~responsive[a]
    BY <2>2 DEF QueuesAgree
  <2> QED BY <2>1, <2>2
<1>4. /\ nq \in Seq(Actor) /\ Distinct(nq)
      /\ Elements(nq) = Elements(normalQueue) \cup (IF responsive[a] THEN {} ELSE {a})
  <2>1. CASE ~responsive[a]
    <3>1. /\ nq = Append(normalQueue, a) /\ normalQueue \in Seq(Actor) /\ Distinct(normalQueue)
          /\ a \notin Elements(normalQueue)
      BY <1>2, <2>1 DEF QueuesAgree
    <3> HIDE DEF IndInv, TypeOK, ph, rq, nq
    <3>2. /\ nq \in Seq(Actor) /\ Distinct(nq)
          /\ Elements(nq) = Elements(normalQueue) \cup {a}
      BY <3>1, PushProperties
    <3> QED BY <2>1, <3>2
  <2>2. CASE responsive[a]
    BY <2>2 DEF QueuesAgree
  <2> QED BY <2>1, <2>2
<1> HIDE DEF rq, nq
<1>5. Elements(rq) = Waiters(ph, responsive, TRUE) /\ Elements(nq) = Waiters(ph, responsive, FALSE)
  BY <1>1, <1>3, <1>4 DEF QueuesAgree, Waiters
<1>6. ph \in [Actor -> Phases] /\ ph[a] = "queued"
  BY DEF Phases
<1>7. \A b \in Actor \ {a} : /\ ph[b] = phase[b] /\ responsive'[b] = responsive[b]
                             /\ admitted'[b] = admitted[b]
  BY <1>1
<1> HIDE DEF ph
<1> QED BY <1>1, <1>3, <1>4, <1>5, <1>6, <1>7, QueuedOK

(* promote(): a waiter of either priority goes to the back of the responsive  *)
(* queue.                                                                     *)
LEMMA PromoteQueuedOK ==
  ASSUME IndInv, NEW a \in Actor, PromoteQueued(a)
  PROVE  IndInv'
<1> USE DEF IndInv, TypeOK
<1> DEFINE r  == Without(responsiveQueue, a)
           rq == Append(r, a)
           nq == Without(normalQueue, a)
<1>1. /\ phase[a] = "queued" /\ capable' = capable /\ admitted' = admitted
      /\ closed' = closed /\ requests' = requests
      /\ responsive' = [responsive EXCEPT ![a] = TRUE]
      /\ Queued(rq, nq, phase, TRUE)
  <2> HIDE DEF IndInv, TypeOK
  <2> QED BY DEF PromoteQueued, grants
<1>2. /\ responsiveQueue \in Seq(Actor) /\ Distinct(responsiveQueue)
      /\ normalQueue \in Seq(Actor) /\ Distinct(normalQueue)
  BY DEF QueuesAgree
<1>3. r \in Seq(Actor) /\ Distinct(r) /\ Elements(r) = Elements(responsiveQueue) \ {a}
  <2> HIDE DEF IndInv, TypeOK
  <2> QED BY <1>2, WithoutProperties
<1>4. nq \in Seq(Actor) /\ Distinct(nq) /\ Elements(nq) = Elements(normalQueue) \ {a}
  <2> HIDE DEF IndInv, TypeOK
  <2> QED BY <1>2, WithoutProperties
<1> HIDE DEF r, nq
<1>5. rq \in Seq(Actor) /\ Distinct(rq) /\ Elements(rq) = Elements(r) \cup {a}
  BY <1>3, PushProperties
<1> HIDE DEF rq
<1>6. /\ Elements(rq) = Waiters(phase, responsive', TRUE)
      /\ Elements(nq) = Waiters(phase, responsive', FALSE)
  BY <1>1, <1>3, <1>4, <1>5 DEF QueuesAgree, Waiters
<1>7. ~closed /\ responsive'[a]
  BY <1>1 DEF ClosedIsEmpty
<1>8. \A b \in Actor \ {a} : responsive'[b] = responsive[b]
  BY <1>1
<1>9. responsive' \in [Actor -> BOOLEAN] /\ Queued(rq, nq, phase, responsive'[a])
  BY <1>1, <1>7
<1> QED BY <1>1, <1>4, <1>5, <1>6, <1>7, <1>8, <1>9, QueuedOK

(* cancel(): a waiter leaves its queue, and the others keep their places. *)
LEMMA CancelQueuedOK ==
  ASSUME IndInv, NEW a \in Actor, CancelQueued(a)
  PROVE  IndInv'
<1> USE DEF IndInv, TypeOK
<1> DEFINE rq == Without(responsiveQueue, a)
           nq == Without(normalQueue, a)
<1>1. /\ phase[a] = "queued" /\ phase' = [phase EXCEPT ![a] = "idle"]
      /\ responsiveQueue' = rq /\ normalQueue' = nq
      /\ UNCHANGED <<responsive, capable, admitted, holder, preempted, pendingReRequests,
                     closed, requests, owed>>
  BY DEF CancelQueued, grants
<1>2. /\ responsiveQueue \in Seq(Actor) /\ Distinct(responsiveQueue)
      /\ normalQueue \in Seq(Actor) /\ Distinct(normalQueue)
  BY DEF QueuesAgree
<1>3. /\ rq \in Seq(Actor) /\ Distinct(rq) /\ Elements(rq) = Elements(responsiveQueue) \ {a}
      /\ nq \in Seq(Actor) /\ Distinct(nq) /\ Elements(nq) = Elements(normalQueue) \ {a}
  <2> HIDE DEF IndInv, TypeOK
  <2>1. rq \in Seq(Actor) /\ Distinct(rq) /\ Elements(rq) = Elements(responsiveQueue) \ {a}
    BY <1>2, WithoutProperties
  <2>2. nq \in Seq(Actor) /\ Distinct(nq) /\ Elements(nq) = Elements(normalQueue) \ {a}
    BY <1>2, WithoutProperties
  <2> QED BY <2>1, <2>2
<1> HIDE DEF rq, nq
<1>4. TypeOK'
  BY <1>1, <1>3 DEF Phases
<1>5. QueuesAgree'
  BY <1>1, <1>3 DEF QueuesAgree, Waiters
<1>6. HolderAgrees' /\ AdmissionRecorded' /\ ClosedIsEmpty'
  BY <1>1 DEF HolderAgrees, AdmissionRecorded, ClosedIsEmpty
<1>7. NoPriorityInversion' /\ FreeLockIsIdle'
  BY <1>1 DEF NoPriorityInversion, FreeLockIsIdle
<1> QED BY <1>4, <1>5, <1>6, <1>7

(* release(): the lock is free for a moment, and pump() gives it on. *)
LEMMA ReleaseOK ==
  ASSUME IndInv, NEW a \in Actor, Release(a)
  PROVE  IndInv'
<1> USE DEF IndInv, TypeOK
<1> DEFINE ph   == [phase EXCEPT ![a] = "idle"]
           pend == IF preempted THEN pendingReRequests \cup {a} ELSE pendingReRequests
<1>1. /\ phase[a] = "ended" /\ holder = a /\ preempted' = FALSE
      /\ UNCHANGED <<responsive, capable, admitted, closed, requests>>
  BY DEF Release, grants
<1>2. /\ ph \in [Actor -> Phases] /\ ph[a] = "idle"
      /\ \A b \in Actor \ {a} : ph[b] = phase[b]
  BY DEF Phases
<1>3. pend \in SUBSET Actor
  OBVIOUS
<1>4. \A b \in Actor : ph[b] \notin {"locked", "ended"}
  BY <1>1, <1>2 DEF HolderAgrees
<1>5. CASE closed
  <2>1. /\ holder' = NoActor /\ phase' = ph /\ pendingReRequests' = pend
        /\ responsiveQueue' = responsiveQueue /\ normalQueue' = normalQueue /\ owed' = owed
    BY <1>5 DEF Release, queues
  <2> HIDE DEF ph, pend
  <2>2. TypeOK'
    BY <1>1, <1>2, <1>3, <2>1
  <2>3. QueuesAgree'
    BY <1>1, <1>2, <2>1 DEF QueuesAgree, Waiters
  <2>4. HolderAgrees' /\ AdmissionRecorded' /\ ClosedIsEmpty'
    BY <1>1, <1>2, <1>4, <2>1 DEF HolderAgrees, AdmissionRecorded, ClosedIsEmpty
  <2>5. NoPriorityInversion' /\ FreeLockIsIdle'
    BY <1>1, <1>2, <1>5, <2>1, <2>4 DEF NoPriorityInversion, FreeLockIsIdle, ClosedIsEmpty
  <2> QED BY <2>2, <2>3, <2>4, <2>5
<1>6. CASE ~closed
  <2>1. Pump(responsiveQueue, normalQueue, ph, pend)
    BY <1>6 DEF Release
  <2> HIDE DEF ph, pend
  <2>2. /\ Elements(responsiveQueue) = Waiters(ph, responsive, TRUE)
        /\ Elements(normalQueue) = Waiters(ph, responsive, FALSE)
        /\ Distinct(responsiveQueue) /\ Distinct(normalQueue)
    BY <1>1, <1>2 DEF QueuesAgree, Waiters
  <2>3. /\ holder' \in Actor \cup {NoActor} /\ phase' \in [Actor -> Phases]
        /\ responsiveQueue' \in Seq(Actor) /\ normalQueue' \in Seq(Actor)
        /\ pendingReRequests' \subseteq Actor /\ owed' \subseteq Actor
        /\ QueuesAgree' /\ HolderAgrees'
        /\ \A b \in Actor : phase'[b] # "locked" => phase'[b] = ph[b]
        /\ \A b \in Actor : phase'[b] = "queued" /\ responsive[b] =>
             holder' # NoActor /\ responsive[holder']
        /\ holder' = NoActor =>
             pendingReRequests' = {} /\ \A b \in Actor : phase'[b] # "queued"
    BY <1>1, <1>2, <1>3, <1>4, <2>1, <2>2, PumpProperties, ActorAssumption
  <2>4. TypeOK'
    BY <1>1, <2>3
  <2>5. AdmissionRecorded'
    BY <1>1, <1>2, <2>3 DEF AdmissionRecorded
  <2> QED BY <1>1, <1>6, <2>3, <2>4, <2>5
          DEF ClosedIsEmpty, NoPriorityInversion, FreeLockIsIdle
<1> QED BY <1>5, <1>6

(* The steps that touch neither the lock nor its queues. *)
LEMMA OutsideOK ==
  ASSUME IndInv, NEW a \in Actor,
         \/ \E urgent \in BOOLEAN : Request(a, urgent)
         \/ AdmitUnlocked(a) \/ AdmitClosed(a) \/ PromotePacing(a) \/ CancelPacing(a)
         \/ RunEnds(a) \/ ChangeCapability(a)
  PROVE  IndInv'
<1> USE DEF IndInv, TypeOK
<1>1. /\ UNCHANGED <<holder, preempted, responsiveQueue, normalQueue, pendingReRequests,
                     closed, owed>>
      /\ phase' \in [Actor -> Phases] /\ responsive' \in [Actor -> BOOLEAN]
      /\ capable' \in [Actor -> BOOLEAN] /\ admitted' \in [Actor -> BOOLEAN]
      /\ requests' \in 0 .. MaxRequests
  <2>1. CASE \E urgent \in BOOLEAN : Request(a, urgent)
    BY <2>1, MaxRequestsAssumption DEF Request, Phases, grants, queues
  <2>2. CASE AdmitUnlocked(a) \/ AdmitClosed(a)
    BY <2>2 DEF AdmitUnlocked, AdmitClosed, Phases, queues
  <2>3. CASE PromotePacing(a) \/ CancelPacing(a)
    BY <2>3 DEF PromotePacing, CancelPacing, Phases, grants, queues
  <2>4. CASE RunEnds(a) \/ ChangeCapability(a)
    BY <2>4 DEF RunEnds, ChangeCapability, Phases, grants, queues
  <2> QED BY <2>1, <2>2, <2>3, <2>4
<1>2. \A b \in Actor :
        /\ phase'[b] = "queued" <=> phase[b] = "queued"
        /\ phase[b] = "queued" => responsive'[b] = responsive[b]
        /\ phase'[b] \in {"locked", "ended"} <=> phase[b] \in {"locked", "ended"}
        /\ phase[b] \in {"locked", "ended"} => responsive'[b] = responsive[b]
        /\ phase'[b] = "unlocked" =>
             ~admitted'[b] \/ (phase[b] = "unlocked" /\ admitted'[b] = admitted[b])
  BY DEF Request, AdmitUnlocked, AdmitClosed, PromotePacing, CancelPacing, RunEnds,
     ChangeCapability, grants, queues
<1>3. TypeOK'
  BY <1>1
<1>4. QueuesAgree'
  BY <1>1, <1>2 DEF QueuesAgree, Waiters
<1>5. HolderAgrees' /\ AdmissionRecorded' /\ ClosedIsEmpty'
  BY <1>1, <1>2 DEF HolderAgrees, AdmissionRecorded, ClosedIsEmpty
<1>6. NoPriorityInversion' /\ FreeLockIsIdle'
  BY <1>1, <1>2 DEF NoPriorityInversion, FreeLockIsIdle, HolderAgrees
<1> QED BY <1>3, <1>4, <1>5, <1>6

(* close(): nobody waits any more. *)
LEMMA CloseOK ==
  ASSUME IndInv, Close
  PROVE  IndInv'
<1> USE DEF IndInv, TypeOK
<1>1. /\ UNCHANGED <<responsive, capable, admitted, holder, preempted, requests, owed>>
      /\ phase' = [a \in Actor |-> IF phase[a] = "queued" THEN "idle" ELSE phase[a]]
      /\ responsiveQueue' = <<>> /\ normalQueue' = <<>> /\ pendingReRequests' = {}
      /\ closed' = TRUE
  BY DEF Close, grants
<1>2. /\ <<>> \in Seq(Actor) /\ Elements(<<>>) = {} /\ Distinct(<<>>)
  BY EmptySeq DEF Elements, Distinct
<1>3. \A a \in Actor : phase'[a] # "queued" /\ (phase[a] # "queued" => phase'[a] = phase[a])
  BY <1>1
<1>4. TypeOK'
  BY <1>1, <1>2 DEF Phases
<1>5. QueuesAgree'
  BY <1>1, <1>2, <1>3 DEF QueuesAgree, Waiters
<1>6. HolderAgrees' /\ AdmissionRecorded' /\ ClosedIsEmpty'
  BY <1>1, <1>3 DEF HolderAgrees, AdmissionRecorded, ClosedIsEmpty
<1> QED BY <1>1, <1>3, <1>4, <1>5, <1>6 DEF NoPriorityInversion, FreeLockIsIdle

LEMMA InitOK == Init => IndInv
<1> SUFFICES ASSUME Init PROVE IndInv
  OBVIOUS
<1>1. <<>> \in Seq(Actor) /\ Elements(<<>>) = {} /\ Distinct(<<>>)
  BY EmptySeq DEF Elements, Distinct
<1>2. TypeOK
  <2>1. responsiveQueue \in Seq(Actor) /\ normalQueue \in Seq(Actor)
    BY <1>1 DEF Init
  <2>2. /\ phase \in [Actor -> Phases] /\ responsive \in [Actor -> BOOLEAN]
        /\ capable \in [Actor -> BOOLEAN] /\ admitted \in [Actor -> BOOLEAN]
    BY DEF Init, Phases
  <2>3. requests \in 0 .. MaxRequests
    BY MaxRequestsAssumption DEF Init
  <2>4. /\ holder \in Actor \cup {NoActor} /\ preempted = FALSE
        /\ pendingReRequests \subseteq Actor /\ owed \subseteq Actor /\ closed \in BOOLEAN
    BY DEF Init
  <2> QED BY <2>1, <2>2, <2>3, <2>4 DEF TypeOK
<1>3. \A a \in Actor : phase[a] = "idle"
  BY DEF Init
<1>4. QueuesAgree
  BY <1>1, <1>3 DEF Init, QueuesAgree, Waiters
<1>5. HolderAgrees /\ AdmissionRecorded /\ ClosedIsEmpty
  BY <1>3 DEF Init, HolderAgrees, AdmissionRecorded, ClosedIsEmpty
<1>6. NoPriorityInversion /\ FreeLockIsIdle
  BY <1>3 DEF Init, NoPriorityInversion, FreeLockIsIdle
<1> QED BY <1>2, <1>4, <1>5, <1>6 DEF IndInv

LEMMA StepOK == IndInv /\ [Next]_vars => IndInv'
<1> SUFFICES ASSUME IndInv, [Next]_vars PROVE IndInv'
  OBVIOUS
<1>1. ASSUME NEW a \in Actor, Caller(a) PROVE IndInv'
  BY <1>1, OutsideOK, PromoteQueuedOK, CancelQueuedOK DEF Caller
<1>2. ASSUME NEW a \in Actor, Admit(a) PROVE IndInv'
  BY <1>2, OutsideOK, AdmitToLockOK DEF Admit
<1>3. ASSUME NEW a \in Actor, RunEnds(a) \/ Release(a) \/ ChangeCapability(a) PROVE IndInv'
  BY <1>3, OutsideOK, ReleaseOK
<1>4. CASE Close
  BY <1>4, CloseOK
<1>5. CASE UNCHANGED vars
  BY <1>5 DEF vars, grants, queues, IndInv, TypeOK, QueuesAgree, Waiters, HolderAgrees,
     AdmissionRecorded, ClosedIsEmpty, NoPriorityInversion, FreeLockIsIdle
<1> QED BY <1>1, <1>2, <1>3, <1>4, <1>5 DEF Next

(* Types, agreement of queues, phases and holder, and both lock invariants,   *)
(* hold in every reachable state.                                             *)
THEOREM Inductive == Spec => []IndInv
BY InitOK, StepOK, PTL DEF Spec

(* The types of the lock's state, for any actors and number of requests. *)
THEOREM TypeCorrect == Spec => []TypeOK
<1>1. IndInv => TypeOK
  BY DEF IndInv
<1> QED BY <1>1, Inductive, PTL

(* The computer is driven by the holder of the lock alone, whatever is        *)
(* granted and revoked meanwhile: shouldLock's answer binds the whole run.    *)
THEOREM ComputerIsExclusive == Spec => []ExclusiveUse
<1>1. IndInv => ExclusiveUse
  BY DEF IndInv, HolderAgrees, AdmissionRecorded, ExclusiveUse, UsesComputer
<1> QED BY <1>1, Inductive, PTL

(* Every responsive waiter has a responsive holder, or one that was asked to  *)
(* stop, in front of it.                                                      *)
THEOREM ResponsiveIsNeverBlocked == Spec => []NoPriorityInversion
<1>1. IndInv => NoPriorityInversion
  BY DEF IndInv
<1> QED BY <1>1, Inductive, PTL

(* The lock is never free while anyone waits for it or for a re-request. *)
THEOREM LockIsNeverIdle == Spec => []FreeLockIsIdle
<1>1. IndInv => FreeLockIsIdle
  BY DEF IndInv
<1> QED BY <1>1, Inductive, PTL
=============================================================================
