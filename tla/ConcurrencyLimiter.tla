-------------------------- MODULE ConcurrencyLimiter --------------------------
(***************************************************************************)
(* The mesh's capacity gate (actor/concurrency-limiter.ts): at most Max    *)
(* normal tasks run at once, the rest wait in arrival order.  A promoted   *)
(* task leaves the queue and starts without a slot; a cancelled one never  *)
(* starts.  One action is one synchronous stretch of the event loop, so a  *)
(* task passes through four of them once it has been popped: the call of   *)
(* fn, the settling of its promise, the resolution of the caller's result  *)
(* and the finally handler that gives the slot back.                       *)
(***************************************************************************)
EXTENDS WaitingQueue, FiniteSets

CONSTANTS
  Task,       \* the entries that will ever be enqueued
  Max         \* slots; the constructor refuses max < 1

ASSUME TaskAssumption == IsFiniteSet(Task)
ASSUME MaxAssumption  == Max \in Nat \ {0}

VARIABLES
  queue,      \* waiting entries, oldest first
  state,      \* entry.state, a started entry's split at its promises
  counted,    \* entry.counted: the entry takes a slot when it starts
  active,     \* slots in use
  promoting   \* entries whose queueMicrotask(start) has not run

vars == <<queue, state, counted, active, promoting>>

States   == {"fresh", "queued", "popped", "running", "resolved", "settled"}
Started  == {"popped", "running", "resolved"}   \* state === "started"

TypeOK ==
  /\ queue \in Seq(Task)
  /\ state \in [Task -> States]
  /\ counted \in [Task -> BOOLEAN]
  /\ active \in Nat
  /\ promoting \in SUBSET Task

Init ==
  /\ queue = <<>>
  /\ state = [t \in Task |-> "fresh"]
  /\ counted = [t \in Task |-> TRUE]
  /\ active = 0
  /\ promoting = {}

-----------------------------------------------------------------------------
Smaller(m, n) == IF m <= n THEN m ELSE n

(* pump: start the oldest waiters while a slot is free.  `q`, `st` and `used` *)
(* are the queue, states and slots it finds.  A started waiter takes its slot *)
(* at once and calls fn in a microtask.                                       *)
StartableOneMore(q, used) == IF used <= Max THEN Smaller(Max - used + 1, Len(q)) ELSE 0

Startable(q, used) == IF used < Max THEN Smaller(Max - used, Len(q)) ELSE 0

PumpNewest(q, st, used) ==
  LET n == Startable(q, used)
      chosen == {q[i] : i \in (Len(q) - n + 1) .. Len(q)}
  IN /\ queue' = SubSeq(q, 1, Len(q) - n)
     /\ state' = [t \in Task |-> IF t \in chosen THEN "popped" ELSE st[t]]
     /\ active' = used + n

Pump(q, st, used) ==
  LET n == Startable(q, used)
      chosen == {q[i] : i \in 1 .. n}
  IN /\ queue' = SubSeq(q, n + 1, Len(q))
     /\ state' = [t \in Task |-> IF t \in chosen THEN "popped" ELSE st[t]]
     /\ active' = used + n

Enqueue(t) ==
  /\ state[t] = "fresh"
  /\ Pump(Append(queue, t), [state EXCEPT ![t] = "queued"], active)
  /\ UNCHANGED <<counted, promoting>>

(* promote: no effect once the entry has started or settled. *)
Promote(t) ==
  /\ state[t] = "queued"
  /\ queue' = Without(queue, t)
  /\ counted' = [counted EXCEPT ![t] = FALSE]
  /\ promoting' = promoting \cup {t}
  /\ UNCHANGED <<state, active>>

StartPromotedUnchecked(t) ==
  /\ t \in promoting
  /\ promoting' = promoting \ {t}
  /\ state' = [state EXCEPT ![t] = "popped"]
  /\ UNCHANGED <<queue, counted, active>>

(* The promotion's microtask; start() ignores an entry cancelled meanwhile. *)
StartPromoted(t) ==
  /\ t \in promoting
  /\ promoting' = promoting \ {t}
  /\ state' = [state EXCEPT ![t] = IF @ = "queued" THEN "popped" ELSE @]
  /\ UNCHANGED <<queue, counted, active>>

CancelLeavingEntry(t) ==
  /\ state[t] = "queued"
  /\ state' = [state EXCEPT ![t] = "settled"]
  /\ UNCHANGED <<queue, counted, active, promoting>>

(* cancel answers false, and does nothing, once the entry has been popped. *)
Cancel(t) ==
  /\ state[t] = "queued"
  /\ queue' = Without(queue, t)
  /\ state' = [state EXCEPT ![t] = "settled"]
  /\ UNCHANGED <<counted, active, promoting>>

CallFn(t) ==
  /\ state[t] = "popped"
  /\ state' = [state EXCEPT ![t] = "running"]
  /\ UNCHANGED <<queue, counted, active, promoting>>

(* fn's promise settles, either way, and the caller's with it. *)
Resolve(t) ==
  /\ state[t] = "running"
  /\ state' = [state EXCEPT ![t] = "resolved"]
  /\ UNCHANGED <<queue, counted, active, promoting>>

ReleaseWithoutPump(t) ==
  /\ state[t] = "resolved"
  /\ state' = [state EXCEPT ![t] = "settled"]
  /\ active' = IF counted[t] THEN active - 1 ELSE active
  /\ UNCHANGED <<queue, counted, promoting>>

Release(t) ==
  /\ state[t] = "resolved"
  /\ LET st == [state EXCEPT ![t] = "settled"]
     IN IF counted[t]
        THEN Pump(queue, st, active - 1)
        ELSE state' = st /\ UNCHANGED <<queue, active>>
  /\ UNCHANGED <<counted, promoting>>

Next ==
  \E t \in Task :
    \/ Enqueue(t) \/ Promote(t) \/ StartPromoted(t) \/ Cancel(t)
    \/ CallFn(t) \/ Resolve(t) \/ Release(t)

Spec == Init /\ [][Next]_vars

-----------------------------------------------------------------------------
(* Properties *)

Holders == {t \in Task : state[t] \in Started /\ counted[t]}

Waiters == {queue[i] : i \in 1 .. Len(queue)}

(* The slot counter counts exactly the normal tasks between their start and   *)
(* their release, and never exceeds max: no promotion, cancellation or        *)
(* failure leaks a slot or gives one back twice.                              *)
SlotsAccounted == active = Cardinality(Holders) /\ active <= Max

(* A slot is never left idle while a task waits for one. *)
WorkConserving == queue # <<>> => active = Max

(* A queued entry is in exactly one place that will start it, once: the queue *)
(* (in which case it will take a slot) or a promotion's microtask.  pump()'s  *)
(* test for an entry that is no longer queued can therefore never fire.       *)
NothingLost ==
  /\ \A i, j \in 1 .. Len(queue) : queue[i] = queue[j] => i = j
  /\ \A t \in Task : state[t] = "queued" => t \in Waiters \cup promoting
  /\ \A t \in Waiters : state[t] = "queued" /\ counted[t] /\ t \notin promoting

(* A start takes slots in arrival order: no waiter is overtaken by a normal   *)
(* task that arrived after it.                                                *)
FifoStart ==
  [][\A i, j \in 1 .. Len(queue) :
       i < j /\ state'[queue[j]] = "popped" => state'[queue[i]] = "popped"]_vars

(* cancel() answering true is final: the task never starts afterwards, not    *)
(* even when a promotion's microtask was already scheduled for it.            *)
SettledIsFinal ==
  [][\A t \in Task : state[t] = "settled" => state'[t] = "settled"]_vars

(* Microtasks run, and every provider call ends (the actor's watchdog timers  *)
(* bound it), so every task that entered is settled.                          *)
Fairness ==
  \A t \in Task : WF_vars(StartPromoted(t) \/ CallFn(t) \/ Resolve(t) \/ Release(t))

EveryTaskSettles ==
  \A t \in Task : state[t] = "queued" ~> state[t] = "settled"

FairSpec == Spec /\ Fairness
=============================================================================
