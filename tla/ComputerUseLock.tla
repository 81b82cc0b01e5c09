---------------------------- MODULE ComputerUseLock ----------------------------
(***************************************************************************)
(* The lock around one desktop (actor/computer-use-lock.ts).  A run whose  *)
(* actor holds the computer-use capability when its provider admits it     *)
(* waits here, responsive runs first; a responsive waiter asks an ordinary *)
(* holder to stop, and the stopped actor is asked to run again once no     *)
(* responsive run waits.  One action is one synchronous stretch of the     *)
(* event loop.                                                             *)
(*                                                                         *)
(* An actor's runs are serial and its callbacks only schedule (requestRun  *)
(* is debounced), so an entry is named by its actor.  The provider gate    *)
(* and the run itself are environment: only when they answer is modelled.  *)
(***************************************************************************)
EXTENDS WaitingQueue, FiniteSets

CONSTANTS
  Actor,          \* the actors hosted by this process
  NoActor,        \* holder === undefined
  MaxRequests     \* runs requested in all

ASSUME ActorAssumption == IsFiniteSet(Actor) /\ NoActor \notin Actor
ASSUME MaxRequestsAssumption == MaxRequests \in Nat

VARIABLES
  phase,            \* where an actor's run stands
  responsive,       \* lockResponsive, then entry.responsive
  capable,          \* the mesh's hasActiveCapability
  admitted,         \* what shouldLock found at the provider's admission
  holder, preempted,
  responsiveQueue, normalQueue,
  pendingReRequests,
  closed,
  requests,         \* how many of MaxRequests have happened
  owed              \* history: actors asked to stop and not yet to run again

queues == <<responsiveQueue, normalQueue>>
grants == <<capable, admitted>>
vars   == <<phase, responsive, grants, holder, preempted, queues, pendingReRequests,
            closed, requests, owed>>

(* pacing  with the provider gate     locked    the run has the lock           *)
(* queued  waiting for the lock       ended     its promise has settled        *)
(*                                    unlocked  admitted without the capability *)
Phases == {"idle", "pacing", "queued", "locked", "ended", "unlocked"}

TypeOK ==
  /\ phase \in [Actor -> Phases] /\ responsive \in [Actor -> BOOLEAN]
  /\ capable \in [Actor -> BOOLEAN] /\ admitted \in [Actor -> BOOLEAN]
  /\ holder \in Actor \cup {NoActor} /\ preempted \in BOOLEAN
  /\ preempted => holder # NoActor
  /\ responsiveQueue \in Seq(Actor) /\ normalQueue \in Seq(Actor)
  /\ pendingReRequests \subseteq Actor /\ owed \subseteq Actor
  /\ closed \in BOOLEAN /\ requests \in 0 .. MaxRequests

Init ==
  /\ phase = [a \in Actor |-> "idle"] /\ responsive = [a \in Actor |-> FALSE]
  /\ capable \in [Actor -> BOOLEAN] /\ admitted = [a \in Actor |-> FALSE]
  /\ holder = NoActor /\ preempted = FALSE
  /\ responsiveQueue = <<>> /\ normalQueue = <<>>
  /\ pendingReRequests = {} /\ owed = {}
  /\ closed = FALSE /\ requests = 0

-----------------------------------------------------------------------------
(* pump on an open lock that nobody holds: if no responsive run waits, the    *)
(* preempted actors are asked to run again; then the first waiter gets it.    *)
Pump(rq, nq, ph, pend) ==
  LET next == CASE rq # <<>> -> Head(rq)
                [] rq = <<>> /\ nq # <<>> -> Head(nq)
                [] OTHER -> NoActor
  IN /\ holder' = next
     /\ phase' = [a \in Actor |-> IF a = next THEN "locked" ELSE ph[a]]
     /\ responsiveQueue' = IF rq # <<>> THEN Tail(rq) ELSE rq
     /\ normalQueue' = IF rq = <<>> /\ nq # <<>> THEN Tail(nq) ELSE nq
     /\ pendingReRequests' = IF rq = <<>> THEN {} ELSE pend
     /\ owed' = IF rq = <<>> THEN owed \ pend ELSE owed

(* requestResponsivePreemption, for a waiter that is responsive or not: an    *)
(* ordinary holder is asked once to stop.                                     *)
AskHolder(urgent) ==
  LET asks == urgent /\ holder # NoActor /\ ~responsive[holder] /\ ~preempted
  IN /\ preempted' = (preempted \/ asks)
     /\ owed' = IF asks THEN owed \cup {holder} ELSE owed

(* A waiter has been put in a queue: requestResponsivePreemption, then pump. *)
Queued(rq, nq, ph, urgent) ==
  IF holder = NoActor
  THEN Pump(rq, nq, ph, pendingReRequests) /\ UNCHANGED preempted
  ELSE /\ AskHolder(urgent)
       /\ responsiveQueue' = rq /\ normalQueue' = nq /\ phase' = ph
       /\ UNCHANGED <<holder, pendingReRequests>>

-----------------------------------------------------------------------------
(* gateAfterProvider: the provider gate is asked first. *)
Request(a, urgent) ==
  /\ requests < MaxRequests /\ requests' = requests + 1
  /\ phase[a] = "idle"
  /\ phase' = [phase EXCEPT ![a] = "pacing"]
  /\ responsive' = [responsive EXCEPT ![a] = urgent]
  /\ UNCHANGED <<grants, holder, preempted, queues, pendingReRequests, closed, owed>>

AdmitUnlockedUnrecorded(a) ==
  /\ phase[a] = "pacing" /\ ~capable[a]
  /\ phase' = [phase EXCEPT ![a] = "unlocked"]
  /\ UNCHANGED <<responsive, grants, holder, preempted, queues, pendingReRequests,
                 closed, requests, owed>>

(* The provider admits the run, and shouldLock reads the capability. *)
AdmitUnlocked(a) ==
  /\ phase[a] = "pacing" /\ ~capable[a]
  /\ admitted' = [admitted EXCEPT ![a] = FALSE]
  /\ phase' = [phase EXCEPT ![a] = "unlocked"]
  /\ UNCHANGED <<responsive, capable, holder, preempted, queues, pendingReRequests,
                 closed, requests, owed>>

AdmitClosed(a) ==
  /\ phase[a] = "pacing" /\ capable[a] /\ closed
  /\ admitted' = [admitted EXCEPT ![a] = TRUE]
  /\ phase' = [phase EXCEPT ![a] = "idle"]
  /\ UNCHANGED <<responsive, capable, holder, preempted, queues, pendingReRequests,
                 closed, requests, owed>>

AdmitToLock(a) ==
  /\ phase[a] = "pacing" /\ capable[a] /\ ~closed
  /\ admitted' = [admitted EXCEPT ![a] = TRUE]
  /\ LET ph == [phase EXCEPT ![a] = "queued"]
     IN IF responsive[a]
        THEN Queued(Append(responsiveQueue, a), normalQueue, ph, TRUE)
        ELSE Queued(responsiveQueue, Append(normalQueue, a), ph, FALSE)
  /\ UNCHANGED <<responsive, capable, closed, requests>>

(* promote, before the provider's admission: remembered for the lock entry. *)
PromotePacing(a) ==
  /\ phase[a] = "pacing"
  /\ responsive' = [responsive EXCEPT ![a] = TRUE]
  /\ UNCHANGED <<phase, grants, holder, preempted, queues, pendingReRequests,
                 closed, requests, owed>>

PromoteWithoutAsking(a) ==
  /\ phase[a] = "queued"
  /\ responsive' = [responsive EXCEPT ![a] = TRUE]
  /\ Queued(Append(Without(responsiveQueue, a), a), Without(normalQueue, a), phase, FALSE)
  /\ UNCHANGED <<grants, closed, requests>>

(* promote of a waiter, responsive already or not: to the back of the         *)
(* responsive queue.                                                          *)
PromoteQueued(a) ==
  /\ phase[a] = "queued"
  /\ responsive' = [responsive EXCEPT ![a] = TRUE]
  /\ Queued(Append(Without(responsiveQueue, a), a), Without(normalQueue, a), phase, TRUE)
  /\ UNCHANGED <<grants, closed, requests>>

CancelPacing(a) ==
  /\ phase[a] = "pacing"
  /\ phase' = [phase EXCEPT ![a] = "idle"]
  /\ UNCHANGED <<responsive, grants, holder, preempted, queues, pendingReRequests,
                 closed, requests, owed>>

CancelQueued(a) ==
  /\ phase[a] = "queued"
  /\ phase' = [phase EXCEPT ![a] = "idle"]
  /\ responsiveQueue' = Without(responsiveQueue, a)
  /\ normalQueue' = Without(normalQueue, a)
  /\ UNCHANGED <<responsive, grants, holder, preempted, pendingReRequests, closed,
                 requests, owed>>

(* The operator grants or revokes the capability, at any time. *)
ChangeCapability(a) ==
  /\ capable' = [capable EXCEPT ![a] = ~@]
  /\ UNCHANGED <<phase, responsive, admitted, holder, preempted, queues,
                 pendingReRequests, closed, requests, owed>>

(* The run returns, by itself or because it was asked to stop.  The holder    *)
(* keeps the lock until the finally handler of its promise has run.           *)
RunEnds(a) ==
  /\ phase[a] \in {"locked", "unlocked"}
  /\ phase' = [phase EXCEPT ![a] = IF @ = "locked" THEN "ended" ELSE "idle"]
  /\ UNCHANGED <<responsive, grants, holder, preempted, queues, pendingReRequests,
                 closed, requests, owed>>

ReleaseForgetting(a) ==
  /\ phase[a] = "ended" /\ holder = a
  /\ preempted' = FALSE
  /\ LET ph == [phase EXCEPT ![a] = "idle"]
     IN IF closed
        THEN /\ holder' = NoActor /\ phase' = ph
             /\ UNCHANGED <<queues, pendingReRequests, owed>>
        ELSE Pump(responsiveQueue, normalQueue, ph, pendingReRequests)
  /\ UNCHANGED <<responsive, grants, closed, requests>>

ReleaseWithoutPump(a) ==
  /\ phase[a] = "ended" /\ holder = a
  /\ preempted' = FALSE
  /\ pendingReRequests' = IF preempted THEN pendingReRequests \cup {a} ELSE pendingReRequests
  /\ holder' = NoActor /\ phase' = [phase EXCEPT ![a] = "idle"]
  /\ UNCHANGED <<responsive, grants, queues, closed, requests, owed>>

Release(a) ==
  /\ phase[a] = "ended" /\ holder = a
  /\ preempted' = FALSE
  /\ LET ph   == [phase EXCEPT ![a] = "idle"]
         pend == IF preempted THEN pendingReRequests \cup {a} ELSE pendingReRequests
     IN IF closed
        THEN /\ holder' = NoActor /\ phase' = ph /\ pendingReRequests' = pend
             /\ UNCHANGED <<queues, owed>>
        ELSE Pump(responsiveQueue, normalQueue, ph, pend)
  /\ UNCHANGED <<responsive, grants, closed, requests>>

(* Teardown: waiters are rejected and the holder is asked to stop. *)
Close ==
  /\ ~closed /\ closed' = TRUE
  /\ phase' = [a \in Actor |-> IF phase[a] = "queued" THEN "idle" ELSE phase[a]]
  /\ responsiveQueue' = <<>> /\ normalQueue' = <<>> /\ pendingReRequests' = {}
  /\ UNCHANGED <<responsive, grants, holder, preempted, requests, owed>>

-----------------------------------------------------------------------------
Caller(a) ==
  \/ \E urgent \in BOOLEAN : Request(a, urgent)
  \/ PromotePacing(a) \/ PromoteQueued(a)
  \/ CancelPacing(a) \/ CancelQueued(a)

Admit(a) == AdmitUnlocked(a) \/ AdmitClosed(a) \/ AdmitToLock(a)

Next ==
  \/ \E a \in Actor : Caller(a) \/ Admit(a) \/ RunEnds(a) \/ Release(a)
  \/ \E a \in Actor : ChangeCapability(a)
  \/ Close

Spec == Init /\ [][Next]_vars

(* Runs end (the provider's watchdogs stop a run that would not) and promise  *)
(* handlers run.  Nobody is obliged to request, promote, cancel or close.     *)
FairSpec == Spec /\ \A a \in Actor : WF_vars(RunEnds(a)) /\ WF_vars(Release(a))

-----------------------------------------------------------------------------
(* isAdmitted: the run's provider is given the computer. *)
UsesComputer(a) ==
  phase[a] \in {"locked", "unlocked"} /\ admitted[a] /\ capable[a]

(* One run at a time drives the desktop, the one that has the lock, although  *)
(* the capability is granted and revoked while runs wait in pacing, wait for  *)
(* the lock, and run.                                                         *)
ExclusiveUse == \A a \in Actor : UsesComputer(a) => holder = a

(* No responsive run waits behind an ordinary one that has not been asked to  *)
(* stop, whenever the waiter became responsive and the holder took the lock.  *)
NoPriorityInversion ==
  \A a \in Actor : phase[a] = "queued" /\ responsive[a] =>
    holder # NoActor /\ (responsive[holder] \/ preempted)

(* A free lock has nothing to do: nobody waits for it, and no preempted actor *)
(* waits to be asked again.                                                   *)
FreeLockIsIdle ==
  holder = NoActor /\ ~closed =>
    pendingReRequests = {} /\ \A a \in Actor : phase[a] # "queued"

(* A run cut short for a responsive one is in the end asked to run again,     *)
(* once the responsive requests are over, unless the instance shuts down.     *)
PreemptedRunReturns == \A a \in Actor : a \in owed ~> a \notin owed \/ closed

(* Every waiter gets the lock or is cancelled. *)
EveryWaiterServed == \A a \in Actor : phase[a] = "queued" ~> phase[a] # "queued"

=============================================================================
