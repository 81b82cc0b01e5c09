-------------------------- MODULE FollowerEventQueue --------------------------
(***************************************************************************)
(* The follower's outbound queue (remote-instances/follower-event-queue.ts).*)
(* It is a record; a method returns the next record.  deliverPending waits *)
(* in one place only, for the answer to `request`, so a delivery is in     *)
(* flight exactly while there is a request, and everything from one answer *)
(* to the next request is one step.  clear() fences the delivery; a flush  *)
(* that finds a fenced one waits for it with the envelope it was called    *)
(* with, and the first such flush is the one that delivers.                *)
(*                                                                         *)
(* pendingBatch is always a prefix of the events and pendingTransfer their *)
(* head, so a length and the next fragment stand for them.                 *)
(***************************************************************************)
EXTENDS FollowerProtocol

CONSTANTS
  Large,        \* events that fit no batch
  BatchMax      \* how many of the others one body holds

ASSUME QueueAssumption == Large \subseteq Event /\ BatchMax \in Nat \ {0}

NoRequest == [path |-> "none", session |-> 0, events |-> <<>>, index |-> 0]

Queues ==
  [events : Seq(Event),
   batched : 0 .. BatchMax,            \* pendingBatch
   transferring : BOOLEAN, index : 0 .. Fragments - 1,   \* pendingTransfer
   stuck : 0 .. MaxEvents,             \* acceptanceFailed
   request : EventRequests \cup {NoRequest},                 \* inFlight
   envelope : Nat,                     \* the session a delivery was begun with
   fenced : BOOLEAN,                   \* it began in an earlier epoch
   waiter : Nat]                       \* envelope of the flush behind a fenced delivery

NewQueue ==
  [events |-> <<>>, batched |-> 0, transferring |-> FALSE, index |-> 0, stuck |-> 0,
   request |-> NoRequest, envelope |-> 0, fenced |-> FALSE, waiter |-> 0]

Enqueue(q, e) == [q EXCEPT !.events = Append(@, e)]

HasPending(q) == q.events # <<>>

Delivering(q) == q.request # NoRequest

IsFlushing(q) == Delivering(q) /\ ~q.fenced

\* Flushes of the old epoch return when they wake.
Clear(q) ==
  [q EXCEPT !.events = <<>>, !.batched = 0, !.transferring = FALSE, !.index = 0, !.stuck = 0,
            !.fenced = Delivering(q), !.waiter = 0]

Dropped(q, n) == SubSeq(q.events, n + 1, Len(q.events))

-----------------------------------------------------------------------------
(* One turn of deliverPending's loop, from its condition to the next request. *)
Parked(q) ==
  q.batched = 0 /\ ~q.transferring /\ q.events # <<>> /\ q.events[1] = q.stuck

\* The largest prefix that fits; 0 when the head fits no batch.
Fitting(q) ==
  CHOOSE n \in 0 .. Len(q.events) :
    /\ n <= BatchMax /\ \A i \in 1 .. n : q.events[i] \notin Large
    /\ n < Len(q.events) => n = BatchMax \/ q.events[n + 1] \in Large

Formed(q) ==
  IF q.batched > 0 \/ q.transferring THEN q
  ELSE [q EXCEPT !.batched = Fitting(q), !.transferring = (Fitting(q) = 0), !.index = 0]

\* A batch carries the delivery's envelope, a fragment the present session.
Post(q, session) ==
  [q EXCEPT !.request =
    IF q.transferring
    THEN [path |-> "transfer", session |-> session, events |-> <<q.events[1]>>, index |-> q.index]
    ELSE [path |-> "events", session |-> q.envelope,
          events |-> SubSeq(q.events, 1, q.batched), index |-> 0]]

Idle(q) == [q EXCEPT !.request = NoRequest, !.envelope = 0, !.fenced = FALSE]

Turn(q, session) ==
  IF q.events = <<>> \/ Parked(q) THEN Idle(q) ELSE Post(Formed(q), session)

\* The delivery ends, by a throw or because it is fenced; a flush may be waiting.
Settle(q, session) ==
  IF q.waiter = 0 THEN Idle(q)
  ELSE Turn([Idle(q) EXCEPT !.envelope = q.waiter, !.waiter = 0], session)

\* flush(), with the session of its envelope.
Flush(q, session) ==
  CASE session = 0 -> q
    [] session # 0 /\ ~Delivering(q) -> Turn([q EXCEPT !.envelope = session], session)
    [] session # 0 /\ IsFlushing(q)  -> q
    [] session # 0 /\ Delivering(q) /\ q.fenced ->
         IF q.waiter = 0 THEN [q EXCEPT !.waiter = session] ELSE q

-----------------------------------------------------------------------------
(* The answer to the request.                                                 *)
Acknowledged(q) ==
  [q EXCEPT !.events = Dropped(q, Len(q.request.events)), !.batched = 0]

Completed(q) == [q EXCEPT !.events = Tail(@), !.transferring = FALSE, !.index = 0]

\* The accepted prefix is acknowledged, the failed event becomes the parked head.
Rejected(q, e) ==
  LET at == CHOOSE i \in 1 .. Len(q.request.events) : q.request.events[i] = e
  IN [q EXCEPT !.events = Dropped(q, at - 1), !.batched = 0,
               !.transferring = FALSE, !.index = 0, !.stuck = e]

\* What the delivery in flight does with it, if it still is the present one.
Take(q, reply, session) ==
  CASE reply.status = "ok"       -> Turn(Acknowledged(q), session)
    [] reply.status = "complete" -> Turn(Completed(q), session)
    [] reply.status = "acceptance_failed" -> Turn(Rejected(q, reply.event), session)
    [] reply.status = "fragment" ->
         IF reply.received = q.index + 1
         THEN Turn([q EXCEPT !.index = @ + 1], session) ELSE Settle(q, session)
    [] reply.status = "restart"  -> Settle([q EXCEPT !.index = 0], session)
    [] reply.status \in {"busy", "gone", "error"} -> Settle(q, session)

Receive(q, reply, session) ==
  IF q.fenced THEN Settle(q, session) ELSE Take(q, reply, session)
=============================================================================
