----------------------------- MODULE FollowerLink -----------------------------
(***************************************************************************)
(* A follower process and its leader (commands/start-follower.ts with      *)
(* FollowerEventQueue, over HTTP, with FollowerHub).  The follower has one *)
(* loop that registers and polls and at most one delivery of events.  A    *)
(* request whose answer it gave up on may still reach the leader, at any   *)
(* time, before or after later ones.  Either side may be restarted; the    *)
(* leader's restart ends its connections.                                  *)
(*                                                                         *)
(* Commands to the follower, and what the leader does with an event, are   *)
(* environment; a listener may throw.                                      *)
(***************************************************************************)
EXTENDS FollowerHub, FollowerEventQueue

CONSTANT MaxFaults      \* restarts, lost answers, failed acceptances, lost staging

ASSUME FaultsAssumption == MaxFaults \in Nat

VARIABLES
  hub,            \* the leader
  queue,          \* the follower's event queue
  reply,          \* the leader's answer to queue.request, until it is received
  generation,     \* the process, numbered in order of their start
  session, leaderToken, sendTimer,
  loop,           \* where the poll loop stands
  welcome,        \* the leader's answer to /register, until it is received
  strays,         \* requests given up on that are still on the wire
  emitted, sessions, faults

follower == <<generation, session, leaderToken, sendTimer, loop>>
vars == <<hub, queue, reply, follower, welcome, strays, emitted, sessions, faults>>

NoReply   == [status |-> "none"]
NoWelcome == [status |-> "none", session |-> 0, token |-> 0]

TypeOK ==
  /\ hub \in Hubs /\ queue \in Queues
  /\ reply \in Replies \cup {NoReply}
  /\ generation \in Nat \ {0} /\ session \in Nat /\ leaderToken \in Nat
  /\ sendTimer \in BOOLEAN /\ loop \in {"pausing", "registering", "polling"}
  /\ welcome \in [status : {"none", "ok", "superseded", "error"}, session : Nat, token : Nat]
  /\ \A r \in strays : r \in EventRequests \/ \E g \in 1 .. generation : r = Registration(g)
  /\ emitted \in 0 .. MaxEvents /\ sessions \in Nat /\ faults \in 0 .. MaxFaults

Init ==
  /\ hub = NewHub(1) /\ queue = NewQueue /\ reply = NoReply
  /\ generation = 1 /\ session = 0 /\ leaderToken = 0 /\ sendTimer = FALSE
  /\ loop = "registering" /\ welcome = NoWelcome
  /\ strays = {} /\ emitted = 0 /\ sessions = 0 /\ faults = 0

Fault == faults < MaxFaults /\ faults' = faults + 1

-----------------------------------------------------------------------------
(* The follower                                                               *)

\* An actor's host emits; it exists only once the leader has sent commands.
Emit ==
  /\ leaderToken # 0 /\ emitted < MaxEvents
  /\ emitted' = emitted + 1
  /\ queue' = Enqueue(queue, emitted + 1)
  /\ sendTimer' = (sendTimer \/ ~IsFlushing(queue))
  /\ UNCHANGED <<hub, reply, generation, session, leaderToken, loop, welcome, strays, sessions,
                 faults>>

TimerFires ==
  /\ sendTimer /\ sendTimer' = FALSE
  /\ queue' = Flush(queue, session)
  /\ UNCHANGED <<hub, reply, generation, session, leaderToken, loop, welcome, strays, emitted,
                 sessions, faults>>

\* Mutant: the loop leaves the queue to the timer.
IterateOnly(q, s) ==
  queue' = q /\ loop' = IF s = 0 THEN "registering" ELSE "polling"

\* One iteration of the loop, with the queue and session it starts from.
Iterate(q, s) ==
  IF s = 0
  THEN loop' = "registering" /\ queue' = q
  ELSE /\ loop' = "polling"
       /\ queue' = IF HasPending(q) /\ ~IsFlushing(q) THEN Flush(q, s) ELSE q

PauseEnds ==
  /\ loop = "pausing" /\ Iterate(queue, session)
  /\ UNCHANGED <<hub, reply, generation, session, leaderToken, sendTimer, welcome, strays,
                 emitted, sessions, faults>>

\* With commands or none, or with 410 when the leader does not know the session.
PollAnswered ==
  /\ loop = "polling"
  /\ session' = IF session # 0 /\ ~Authentic(hub, session) THEN 0 ELSE session
  /\ Iterate(queue, session')
  /\ UNCHANGED <<hub, reply, generation, leaderToken, sendTimer, welcome, strays, emitted,
                 sessions, faults>>

PollFails ==
  /\ loop = "polling" /\ Fault /\ loop' = "pausing"
  /\ UNCHANGED <<hub, queue, reply, generation, session, leaderToken, sendTimer, welcome, strays,
                 emitted, sessions>>

\* A leader other than the one registered with before gets none of its events.
Registered ==
  /\ loop = "registering" /\ welcome.status = "ok"
  /\ session' = welcome.session /\ leaderToken' = welcome.token
  /\ Iterate(IF leaderToken \notin {0, welcome.token} THEN Clear(queue) ELSE queue, session')
  /\ welcome' = NoWelcome
  /\ UNCHANGED <<hub, reply, generation, sendTimer, strays, emitted, sessions, faults>>

RegistrationFails ==
  /\ loop = "registering" /\ welcome.status \in {"superseded", "error"}
  /\ loop' = "pausing" /\ welcome' = NoWelcome
  /\ UNCHANGED <<hub, queue, reply, generation, session, leaderToken, sendTimer, strays, emitted,
                 sessions, faults>>

\* deliverPending goes on; every flush that joined it sees a 410.
Answer ==
  /\ Delivering(queue) /\ reply # NoReply
  /\ session' = IF reply.status = "gone" THEN 0 ELSE session
  /\ queue' = Receive(queue, reply, session)
  /\ reply' = NoReply
  /\ UNCHANGED <<hub, generation, leaderToken, sendTimer, loop, welcome, strays, emitted,
                 sessions, faults>>

\* AbortSignal.timeout: the request, or its answer, is still on the wire.
RequestTimesOut ==
  /\ Delivering(queue) /\ Fault
  /\ queue' = Receive(queue, [status |-> "error"], session)
  /\ strays' = IF reply = NoReply THEN strays \cup {queue.request} ELSE strays
  /\ reply' = NoReply
  /\ UNCHANGED <<hub, follower, welcome, emitted, sessions>>

RegistrationTimesOut ==
  /\ loop = "registering" /\ Fault
  /\ loop' = "pausing" /\ welcome' = NoWelcome
  /\ strays' = IF welcome = NoWelcome THEN strays \cup {Registration(generation)} ELSE strays
  /\ UNCHANGED <<hub, queue, reply, generation, session, leaderToken, sendTimer, emitted, sessions>>

\* The process ends, with or without /unregister, and its successor starts.
FollowerRestarts ==
  /\ Fault
  /\ generation' = generation + 1
  /\ hub' \in {hub} \cup {IF Authentic(hub, session) THEN Unregister(hub) ELSE hub}
  /\ strays' = strays \cup (IF Delivering(queue) /\ reply = NoReply THEN {queue.request} ELSE {})
                      \cup (IF loop = "registering" /\ welcome = NoWelcome
                            THEN {Registration(generation)} ELSE {})
  /\ queue' = NewQueue /\ reply' = NoReply /\ session' = 0 /\ leaderToken' = 0
  /\ sendTimer' = FALSE /\ loop' = "registering" /\ welcome' = NoWelcome
  /\ UNCHANGED <<emitted, sessions>>

-----------------------------------------------------------------------------
(* The leader                                                                 *)

Usual(r) == Handle(hub, r, {}, FALSE)

\* A listener of one event throws, or there is no room for another transfer.
Unusual(r) ==
  ({Handle(hub, r, {e}, FALSE) : e \in Event} \cup {Handle(hub, r, {}, TRUE)}) \ {Usual(r)}

Handled(r, a) ==
  \/ a = Usual(r) /\ faults' = faults
  \/ a \in Unusual(r) /\ Fault

HandleRequest ==
  /\ Delivering(queue) /\ reply = NoReply
  /\ \E a \in {Usual(queue.request)} \cup Unusual(queue.request) :
       Handled(queue.request, a) /\ hub' = a.hub /\ reply' = a.reply
  /\ UNCHANGED <<queue, follower, welcome, strays, emitted, sessions>>

HandleRegistration ==
  /\ loop = "registering" /\ welcome = NoWelcome
  /\ IF Refused(hub, generation)
     THEN /\ welcome' = [NoWelcome EXCEPT !.status = "superseded"]
          /\ UNCHANGED <<hub, sessions>>
     ELSE /\ sessions' = sessions + 1
          /\ hub' = Register(hub, generation, sessions + 1)
          /\ welcome' = [status |-> "ok", session |-> sessions + 1, token |-> hub.token]
  /\ UNCHANGED <<queue, reply, follower, strays, emitted, faults>>

\* A request nobody waits for any more; its answer is lost.
HandleStray ==
  \E r \in strays :
    /\ strays' = strays \ {r}
    /\ IF r.path = "register"
       THEN IF Refused(hub, r.generation) THEN UNCHANGED <<hub, sessions, faults>>
            ELSE /\ sessions' = sessions + 1
                 /\ hub' = Register(hub, r.generation, sessions + 1)
                 /\ UNCHANGED faults
       ELSE /\ \E a \in {Usual(r)} \cup Unusual(r) : Handled(r, a) /\ hub' = a.hub
            /\ UNCHANGED sessions
    /\ UNCHANGED <<queue, reply, follower, welcome, emitted>>

StagingExpires ==
  /\ hub.staging # NoStaging /\ Fault
  /\ hub' = Discard(hub)
  /\ UNCHANGED <<queue, reply, follower, welcome, strays, emitted, sessions>>

\* A new incarnation: nothing is kept, every connection is closed.
LeaderRestarts ==
  /\ Fault
  /\ hub' = NewHub(hub.token + 1)
  /\ reply' = IF Delivering(queue) /\ reply = NoReply THEN [status |-> "error"] ELSE reply
  /\ welcome' = IF loop = "registering" /\ welcome = NoWelcome
                THEN [NoWelcome EXCEPT !.status = "error"] ELSE welcome
  /\ strays' = {}
  /\ UNCHANGED <<queue, follower, emitted, sessions>>

-----------------------------------------------------------------------------
FollowerStep == TimerFires \/ PauseEnds \/ PollAnswered \/ Registered \/ RegistrationFails \/ Answer

LeaderStep == HandleRequest \/ HandleRegistration

Faults == PollFails \/ RequestTimesOut \/ RegistrationTimesOut \/ FollowerRestarts
            \/ StagingExpires \/ LeaderRestarts

Next == Emit \/ FollowerStep \/ LeaderStep \/ HandleStray \/ Faults

\* Timers fire, the leader answers, and the follower takes the answers it gets.
Fairness ==
  /\ WF_vars(TimerFires) /\ WF_vars(PauseEnds) /\ WF_vars(PollAnswered)
  /\ WF_vars(Registered) /\ WF_vars(RegistrationFails) /\ WF_vars(Answer)
  /\ WF_vars(HandleRequest) /\ WF_vars(HandleRegistration)

Spec == Init /\ [][Next]_vars /\ Fairness

-----------------------------------------------------------------------------
(* The channel this link implements.                                          *)
Members(s) == {s[i] : i \in 1 .. Len(s)}

Unaccepted(s) == {e \in Members(s) : hub.outcome[e] # "accepted"}

severed == leaderToken \notin {0, hub.token}

\* Requests the leader would still take, of a process that may be gone.
OnTheWire == {r \in strays : r.path # "register" /\ Authentic(hub, r.session)}

\* What the present leader has not accepted: of the process that knows it what is in the
\* queue, of a process that is gone what is on the wire.
Waiting ==
  IF leaderToken = 0 THEN UNION {Unaccepted(r.events) : r \in OnTheWire}
  ELSE IF severed THEN {} ELSE Unaccepted(queue.events)

Pending == Ascending(Waiting)

Channel == INSTANCE EventChannel WITH
  pending <- Pending, log <- hub.log, gone <- (leaderToken = 0),
  failed <- {e \in Event : hub.outcome[e] = "failed"}

\* The link is a FIFO channel: every event is accepted in order and once, none is
\* acknowledged that was not accepted, and none reaches another leader.
ImplementsChannel == Channel!Init /\ [][Channel!Next]_Channel!vars

\* The queue empties again and again: no event stays in it, whatever was lost, unless it
\* is behind one whose acceptance failed, or the leader takes the process for a superseded one.
QueueDrains == []<>(~HasPending(queue) \/ queue.stuck # 0 \/ generation \in hub.superseded)

=============================================================================
