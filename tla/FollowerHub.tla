----------------------------- MODULE FollowerHub ------------------------------
(***************************************************************************)
(* The leader's side of one follower ID: registration and its fences       *)
(* (remote-instances/follower-hub.ts), the record of what was accepted     *)
(* (FollowerDedupeTracker, remote-instances/remote-instance.ts) and the    *)
(* reassembly of large events (EventTransferReceiver,                      *)
(* remote-instances/follower-event-transfer.ts).  The hub is a record; a   *)
(* handler is synchronous once the body is read and returns the next hub   *)
(* and its answer.                                                         *)
(*                                                                         *)
(* A batch ID names its events (the follower freezes them), so a batch is  *)
(* a duplicate exactly when each of its events is, and the set of batch    *)
(* IDs is left out.  A transfer ID names one event of one process in the   *)
(* same way.  Both trackers' bounds (1,000 and 10,000) are not reached.    *)
(***************************************************************************)
EXTENDS FollowerProtocol

NoStaging == [generation |-> 0, event |-> 0, received |-> 0]

Outcomes == {"none", "accepted", "failed"}

Hubs == [token : Nat \ {0}, generation : Nat, session : Nat, superseded : SUBSET Nat,
         outcome : [Event -> Outcomes], log : Seq(Event),
         staging : {NoStaging} \cup
                   [generation : Nat \ {0}, event : Event, received : 1 .. Fragments - 1]]

NewHub(token) ==
  [token |-> token, generation |-> 0, session |-> 0, superseded |-> {},
   outcome |-> [e \in Event |-> "none"], staging |-> NoStaging,
   log |-> <<>>]                               \* history: what receive() was given

Answered(h, reply) == [hub |-> h, reply |-> reply]

-----------------------------------------------------------------------------
(* Registration.  A process that registers again gets a new session; a new   *)
(* process replaces the registered one, which may then never come back.      *)
Refused(h, g) == g \in h.superseded

Register(h, g, session) ==
  IF h.generation \in {0, g}
  THEN [h EXCEPT !.generation = g, !.session = session]
  ELSE [h EXCEPT !.generation = g, !.session = session, !.staging = NoStaging,
                 !.superseded = @ \cup {h.generation}]

\* drop(), for /unregister: the tracker stays.
Unregister(h) == [h EXCEPT !.generation = 0, !.session = 0, !.staging = NoStaging]

Authentic(h, session) == h.generation # 0 /\ session = h.session

-----------------------------------------------------------------------------
(* acceptEvent over the members of a batch, in order: one already accepted is *)
(* skipped, the first that failed before or fails now (`bad`) ends the walk.  *)
Passes(h, e, bad) == h.outcome[e] = "accepted" \/ (h.outcome[e] = "none" /\ e \notin bad)

Passed(h, es, bad) ==
  CHOOSE k \in 0 .. Len(es) :
    /\ \A i \in 1 .. k : Passes(h, es[i], bad)
    /\ k < Len(es) => ~Passes(h, es[k + 1], bad)

\* Mutant: events are not looked up in the tracker, only batches are.
AcceptAgain(h, es, bad) ==
  Answered([h EXCEPT !.log = @ \o es,
                     !.outcome = [e \in Event |-> IF \E i \in 1 .. Len(es) : es[i] = e
                                                  THEN "accepted" ELSE @[e]]],
           Status("ok"))

AcceptEvents(h, es, bad) ==
  LET k     == Passed(h, es, bad)
      new   == Picked(SubSeq(es, 1, k), {e \in Event : h.outcome[e] = "none"})
      taken == {es[i] : i \in 1 .. k}
      after == [h EXCEPT !.log = @ \o new,
                         !.outcome = [e \in Event |-> IF e \in taken THEN "accepted" ELSE @[e]]]
  IN IF k = Len(es) THEN Answered(after, Status("ok"))
     ELSE Answered([after EXCEPT !.outcome[es[k + 1]] = "failed"], AcceptanceFailed(es[k + 1]))

-----------------------------------------------------------------------------
(* EventTransferReceiver.accept of fragment i (0-based) of event e, and the   *)
(* dispatch when it was the last.  `full`: no capacity for another transfer.  *)
Discard(h) == [h EXCEPT !.staging = NoStaging]

\* Staging a replaced process left counts as none.
Staged(h) == IF h.staging.generation = h.generation THEN h ELSE Discard(h)

\* Mutant: the transfer is incomplete while receivedBytes <= totalBytes.
NeverComplete(h, e, n, bad) ==
  Answered([h EXCEPT !.staging = [generation |-> h.generation, event |-> e, received |-> n]],
           Received(n))

NextFragment(h, e, n, bad) ==
  IF n < Fragments
  THEN Answered([h EXCEPT !.staging = [generation |-> h.generation, event |-> e, received |-> n]],
                Received(n))
  ELSE LET done == AcceptEvents(Discard(h), <<e>>, bad)
       IN Answered(done.hub, IF done.reply = Status("ok") THEN Status("complete") ELSE done.reply)

AcceptFragment(h, e, i, bad, full) ==
  LET cur == Staged(h)
      s   == cur.staging
  IN IF h.outcome[e] # "none"
     THEN Answered(IF h.staging.event = e THEN Discard(h) ELSE h,
                   IF h.outcome[e] = "accepted" THEN Status("complete") ELSE AcceptanceFailed(e))
     ELSE CASE s.event \notin {0, e} -> Answered(cur, Status("busy"))
            [] s.event = 0 /\ i # 0   -> Answered(cur, Status("restart"))
            [] s.event = 0 /\ i = 0   -> IF full THEN Answered(cur, Status("busy"))
                                        ELSE NextFragment(cur, e, 1, bad)
            [] s.event = e           ->
                 CASE i < s.received -> Answered(cur, Received(s.received))
                   [] i = s.received -> NextFragment(cur, e, i + 1, bad)
                   [] i > s.received -> Answered(Discard(cur), Status("restart"))

\* /events and /events/transfer: both ask first whose session it is.
Handle(h, r, bad, full) ==
  CASE ~Authentic(h, r.session) -> Answered(h, Status("gone"))
    [] Authentic(h, r.session) /\ r.path = "events" -> AcceptEvents(h, r.events, bad)
    [] Authentic(h, r.session) /\ r.path = "transfer" ->
         AcceptFragment(h, r.events[1], r.index, bad, full)
=============================================================================
