------------------------------- MODULE ActorRun -------------------------------
(***************************************************************************)
(* One actor and the durable inbox behind it, from a delivered row to a    *)
(* finished run: RunManager.dispatch (runtime/run-manager.ts) turns an     *)
(* advisory poke into a scheduling request, Actor.runOnce/executeTurn      *)
(* (actor/actor.ts) carry it through a sequence of awaits, and operators,  *)
(* halts, model changes, voice sessions, retirement and a restart of the   *)
(* process act between any two of them.  One action is one synchronous     *)
(* stretch of the event loop.                                              *)
(*                                                                         *)
(* The admission gate, the host's hooks and the provider are environment:  *)
(* only when they answer and what they answer is modelled.  `halted` is    *)
(* the halt file or a hold on every model of the actor's pool, `shutdown`  *)
(* the update drain (update/drain.ts).                                     *)
(***************************************************************************)
EXTENDS ActorState, FiniteSets

CONSTANTS
  Entries,        \* the inbox rows that will be delivered
  Kind,           \* what each row asks for
  MaxDisturbances \* operator interventions and gate setbacks, together

Kinds == {"ordinary", "join", "interrupt", "voice"}

ASSUME KindAssumption == IsFiniteSet(Entries) /\ Kind \in [Entries -> Kinds]
ASSUME MaxDisturbancesAssumption == MaxDisturbances \in Nat

VARIABLES
  actor,          \* the fields of the Actor and its TriggerRunner
  delivered,      \* rows appended so far
  unhandled,      \* delivered rows no run or operator has handled
  seen,           \* rows with seenAt set
  owed,           \* appendWakesOwed: the wake this actor is still owed
  halted,
  shutdown,       \* gracefulShutdown, and the drain's answer
  voiceSession,   \* isVoiceSessionActive
  sinceStart,     \* rows delivered after currentRunStartTime
  sinceMark,      \* rows delivered after interruptedWatermark
  disturbances,   \* how many of MaxDisturbances have happened
  \* history
  offered,        \* rows a started or a reported-failed run was there to read
  terminals,      \* terminal events emitted for the open opportunity
  lapses          \* the steps so far that are known to drop a wake

inboxVars == <<delivered, unhandled, seen, owed>>
hostVars  == <<halted, shutdown, voiceSession>>
markVars  == <<sinceStart, sinceMark>>
history   == <<offered, terminals, lapses>>
vars      == <<actor, inboxVars, hostVars, markVars, disturbances, history>>

Wakes  == {"none", "join", "preempt"}
Shutdowns == {"none", "draining", "quiesced"}
Lapses == {"double-cancel", "debounce-interrupt", "mount-failure", "refused-replay",
           "missed-promotion"}

TypeOK ==
  /\ actor \in ActorState
  /\ delivered \subseteq Entries /\ unhandled \subseteq delivered
  /\ seen \subseteq delivered /\ offered \subseteq delivered
  /\ owed \in Wakes
  /\ halted \in BOOLEAN /\ shutdown \in Shutdowns /\ voiceSession \in BOOLEAN
  /\ sinceStart \subseteq delivered /\ sinceMark \subseteq delivered
  /\ disturbances \in 0 .. MaxDisturbances
  /\ terminals \in Nat /\ lapses \subseteq Lapses

Init ==
  /\ actor = NewActor
  /\ delivered = {} /\ unhandled = {} /\ seen = {} /\ owed = "none"
  /\ halted = FALSE /\ shutdown = "none" /\ voiceSession = FALSE
  /\ sinceStart = {} /\ sinceMark = {} /\ disturbances = 0
  /\ offered = {} /\ terminals = 1 /\ lapses = {}

-----------------------------------------------------------------------------
(* The predicates of the host *)

HasRunnableInbox(a, rows) ==
  IF a.watermark THEN rows \cap sinceMark # {} ELSE rows # {}

(* beforeRun and admitRun, at the moment their answer is applied: a local    *)
(* actor's answer is one microtask old, a follower's comes over the ordered  *)
(* link that also carries every later halt or interrupt.                     *)
Refusing  == halted \/ shutdown # "none"

BeforeRun == ~Refusing /\ HasRunnableInbox(actor, unhandled)

AdmitRun  == HasRunnableInbox(actor, unhandled) /\ (actor.responsive \/ ~voiceSession)

(* Preempting only after the request drops the request with the stale ones. *)
DispatchedRequestFirst(a, rows, session, wake, suppress) ==
  LET preempts == wake = "preempt" /\ \E e \in rows \ seen : Kind[e] = "interrupt"
      b        == RequestRun(a, Responsive)
  IN IF a.closed \/ rows = {}
     THEN [actor |-> a, seen |-> seen, preempts |-> FALSE]
     ELSE [actor |-> IF preempts THEN PreemptForResponsive(b) ELSE b,
           seen |-> IF a.queued THEN seen \cup rows ELSE seen, preempts |-> preempts]

(* RunManager.dispatchInternal on a worklist: the actor and the seen rows    *)
(* after it.  `wake` says whether it may preempt, `suppress` what the        *)
(* interruption policy answers.                                              *)
Dispatched(a, rows, session, wake, suppress) ==
  LET pending  == {e \in rows : Kind[e] # "ordinary"}
      arrived  == pending \ seen
      nudge    == CASE pending = {} -> Ordinary
                    [] \E e \in arrived : Kind[e] = "voice" -> Voice
                    [] OTHER -> Responsive
      preempts == /\ wake = "preempt" /\ ~suppress
                  /\ \E e \in arrived : Kind[e] \in {"interrupt", "voice"}
      b        == IF preempts THEN PreemptForResponsive(a) ELSE a
      held     == session /\ arrived = {}
  IN IF a.closed \/ rows = {} \/ held
     THEN [actor |-> a, seen |-> seen, preempts |-> FALSE]
     ELSE [actor |-> RequestRun(b, nudge),
           seen  |-> IF b.queued THEN seen \cup rows ELSE seen,
           preempts |-> preempts]

(* A preemption that finds its start already cancelled or rejected leaves a   *)
(* flag that no invocation of that start will ever consume.                   *)
FlagOutlivesStart(a) ==
  ~(a.executing /\ a.controller # "none") /\ a.pendingStart \in {"cancelled", "stale"}

DispatchTo(a, rows, session, wake, suppress) ==
  LET d == Dispatched(a, rows, session, wake, suppress)
  IN /\ actor' = d.actor
     /\ seen' = d.seen
     /\ lapses' = IF d.preempts /\ FlagOutlivesStart(a)
                  THEN lapses \cup {"double-cancel"} ELSE lapses

-----------------------------------------------------------------------------
(* Deliveries and operators *)

Disturb == disturbances < MaxDisturbances /\ disturbances' = disturbances + 1

DeliverUnlisted(e, wake) ==
  /\ e \notin delivered
  /\ unhandled' = unhandled \cup {e}
  /\ owed' = wake
  /\ UNCHANGED <<actor, delivered, seen, hostVars, markVars, history, disturbances>>

(* A row becomes durable; its recipient is owed the stronger of two wakes. *)
Deliver(e, wake) ==
  /\ e \notin delivered
  /\ delivered' = delivered \cup {e}
  /\ unhandled' = unhandled \cup {e}
  /\ sinceStart' = sinceStart \cup {e}
  /\ sinceMark' = sinceMark \cup {e}
  /\ owed' = IF owed = "preempt" THEN owed ELSE wake
  /\ UNCHANGED <<actor, seen, hostVars, history, disturbances>>

(* The operator's runNow: a row that lifts the interrupt mark. *)
RunNow(e, suppress) ==
  /\ e \notin delivered /\ Kind[e] = "interrupt" /\ ~actor.closed
  /\ delivered' = delivered \cup {e}
  /\ unhandled' = unhandled \cup {e}
  /\ sinceStart' = sinceStart \cup {e}
  /\ sinceMark' = sinceMark \cup {e}
  /\ DispatchTo([actor EXCEPT !.watermark = FALSE], unhandled \cup {e}, voiceSession,
                "preempt", suppress)
  /\ UNCHANGED <<owed, hostVars, offered, terminals, disturbances>>

(* The owed dispatch, by the appender or by the microtask after it. *)
Dispatch(suppress) ==
  /\ owed # "none"
  /\ owed' = "none"
  /\ DispatchTo(actor, unhandled, voiceSession, owed, suppress)
  /\ UNCHANGED <<delivered, unhandled, hostVars, markVars, offered, terminals, disturbances>>

EngageHalt ==
  /\ Disturb
  /\ ~halted
  /\ halted' = TRUE
  /\ actor' = IF actor.closed THEN actor ELSE CancelQueuedRun(actor, TRUE)
  /\ UNCHANGED <<inboxVars, shutdown, voiceSession, markVars, history>>

(* resumeAfterHalt: replay the parked start unless the pool is halted, then   *)
(* wake unseen work.                                                          *)
ResumeWork(pool, suppress) ==
  /\ LET a == IF actor.closed \/ pool THEN actor ELSE ResumeCancelledRun(actor)
     IN IF unhandled \ seen # {}
        THEN DispatchTo(a, unhandled, voiceSession, "preempt", suppress)
        ELSE actor' = a /\ UNCHANGED <<seen, lapses>>
  /\ UNCHANGED <<delivered, unhandled, owed, voiceSession, markVars, offered, terminals,
                 disturbances>>

LiftHalt(suppress) ==
  /\ halted
  /\ halted' = FALSE
  /\ UNCHANGED shutdown
  /\ ResumeWork(FALSE, suppress)

(* MeshDrainer.engage: a flag beforeRun reads.  Queued starts stay queued. *)
RequestShutdown ==
  /\ Disturb
  /\ shutdown = "none" /\ shutdown' = "draining"
  /\ UNCHANGED <<actor, inboxVars, halted, voiceSession, markVars, history>>

(* waitForQuiescence reads activeRunThreadIds from a timer, when no microtask *)
(* is pending: no actor is between a host's answer and its next step then.    *)
Quiesce ==
  /\ shutdown = "draining" /\ shutdown' = "quiesced"
  /\ ~actor.executing /\ ~actor.queued
  /\ actor.at \notin {"preflight", "regating", "admitting"} /\ actor.pendingStart # "popped"
  /\ UNCHANGED <<actor, inboxVars, halted, voiceSession, markVars, history, disturbances>>

(* MaintenanceShutdownCoordinator.abandon: an operator, a timeout or a failed *)
(* exit hands the mesh back.                                                  *)
CancelShutdown(suppress) ==
  /\ shutdown # "none" /\ shutdown' = "none"
  /\ UNCHANGED halted
  /\ ResumeWork(halted, suppress)

(* Someone else empties the worklist under a queued run. *)
HandleElsewhere(e) ==
  /\ e \in unhandled
  /\ unhandled' = unhandled \ {e}
  /\ actor' = IF ~actor.executing /\ actor.queued
                 /\ ~HasRunnableInbox(actor, unhandled \ {e})
              THEN CancelQueuedRun(actor, FALSE) ELSE actor
  /\ UNCHANGED <<delivered, seen, owed, hostVars, markVars, history, disturbances>>

(* The run handles a row; rows left over earn a dispatch. *)
HandleInRun(e, suppress) ==
  /\ actor.at = "running" /\ e \in unhandled
  /\ unhandled' = unhandled \ {e}
  /\ DispatchTo(actor, unhandled \ {e}, voiceSession, "preempt", suppress)
  /\ UNCHANGED <<delivered, owed, hostVars, markVars, offered, terminals, disturbances>>

(* ActorMesh.interrupt: a stopped running turn earns a dispatch for the rows *)
(* delivered since it started.                                               *)
OperatorInterrupt(suppress) ==
  /\ Disturb
  /\ ~actor.closed
  /\ LET a == Interrupt(actor)
         fresh == unhandled \cap sinceStart
     IN /\ sinceMark' = CASE InterruptsRunning(actor) -> sinceStart
                          [] InterruptsQueued(actor)  -> {}
                          [] OTHER -> sinceMark
        /\ IF InterruptsRunning(actor) /\ fresh # {}
           THEN LET d == Dispatched(a, unhandled, voiceSession, "preempt", suppress)
                IN actor' = d.actor /\ seen' = d.seen
           ELSE actor' = a /\ UNCHANGED seen
  /\ lapses' = IF actor.timer THEN lapses \cup {"debounce-interrupt"} ELSE lapses
  /\ UNCHANGED <<delivered, unhandled, owed, hostVars, sinceStart, offered, terminals>>

(* set_actor_model on a queued run: park it under a halt, else re-quote it. *)
ChangeModel ==
  /\ Disturb
  /\ ~actor.closed
  /\ actor' = IF Refusing THEN CancelQueuedRun(actor, TRUE) ELSE RescheduleQueuedRun(actor)
  /\ UNCHANGED <<inboxVars, hostVars, markVars, history>>

MarkUnkillable ==
  /\ actor.at = "running" /\ ~actor.closed
  /\ actor' = [actor EXCEPT !.killable = FALSE]
  /\ UNCHANGED <<inboxVars, hostVars, markVars, history, disturbances>>

BeginVoiceSession ==
  /\ Disturb
  /\ ~voiceSession /\ voiceSession' = TRUE
  /\ UNCHANGED <<actor, inboxVars, halted, shutdown, markVars, history>>

(* The ordinary rows a session held back get one nudge when it ends. *)
EndVoiceSession(suppress) ==
  /\ voiceSession /\ voiceSession' = FALSE
  /\ IF \E e \in unhandled : Kind[e] = "ordinary"
     THEN DispatchTo(actor, unhandled, FALSE, "preempt", suppress)
     ELSE UNCHANGED <<actor, seen, lapses>>
  /\ UNCHANGED <<delivered, unhandled, owed, halted, shutdown, markVars, offered, terminals,
                 disturbances>>

CloseActor ==
  /\ Disturb
  /\ ~actor.closed
  /\ actor' = Close(actor)
  /\ UNCHANGED <<inboxVars, hostVars, markVars, history>>

(* Time passes: waiting utterances reach the coalescing age. *)
VoiceAges ==
  LET Aged(n) == IF n = Voice THEN OldVoice ELSE n
  IN /\ actor' = [actor EXCEPT !.pendingNudge = Aged(@), !.currentNudge = Aged(@),
                               !.cancelledNudge = Aged(@), !.nudgeWhileQueued = Aged(@)]
     /\ actor' # actor
     /\ UNCHANGED <<inboxVars, hostVars, markVars, history, disturbances>>

(* rehydrate: a retired actor is never rebuilt, any other is built anew. *)
Rehydrated(a) == [NewActor EXCEPT !.closed = a.closed]

RestartWithoutNudge(suppress) ==
  /\ Disturb
  /\ actor' = Rehydrated(actor)
  /\ owed' = "none" /\ shutdown' = "none" /\ voiceSession' = FALSE
  /\ sinceStart' = {} /\ sinceMark' = {}
  /\ offered' = {} /\ terminals' = 1 /\ lapses' = {}
  /\ UNCHANGED <<delivered, unhandled, seen, halted>>

(* The process dies at any await, or exits after its drain, and boots.  The   *)
(* rows, the halt file and the retirements survive it; reconcileInbox derives *)
(* every wake afresh from the unhandled rows, the seen ones included.  A run  *)
(* that died offered its rows to nobody, and a wake dropped earlier is no     *)
(* excuse any more.                                                           *)
Restart(suppress) ==
  /\ Disturb
  /\ owed' = "none" /\ shutdown' = "none" /\ voiceSession' = FALSE
  /\ LET d == Dispatched(Rehydrated(actor), unhandled, voiceSession', "preempt", suppress)
     IN actor' = d.actor /\ seen' = d.seen
  /\ sinceStart' = {} /\ sinceMark' = {}
  /\ offered' = {} /\ terminals' = 1 /\ lapses' = {}
  /\ UNCHANGED <<delivered, unhandled, halted>>

-----------------------------------------------------------------------------
(* The run *)

DebounceFires ==
  /\ actor.timer
  /\ actor' = StartLoop(actor)
  /\ UNCHANGED <<inboxVars, hostVars, markVars, history, disturbances>>

PreflightRefused ==
  /\ actor.at = "preflight" /\ ~BeforeRun
  /\ actor' = LoopAgain(IF actor.rescheduling
                        THEN [actor EXCEPT !.rescheduling = FALSE,
                                           !.cancelledNudge = actor.currentNudge,
                                           !.cancelledRun = TRUE]
                        ELSE actor)
  /\ lapses' = IF ~actor.rescheduling /\ Refusing
                  /\ (unhandled \cap seen) \ offered # {}
               THEN lapses \cup {"refused-replay"} ELSE lapses
  /\ UNCHANGED <<inboxVars, hostVars, markVars, offered, terminals, disturbances>>

PreflightOutdated ==
  /\ actor.at = "preflight" /\ BeforeRun /\ actor.epochMoved
  /\ actor' = LoopAgain(actor)
  /\ UNCHANGED <<inboxVars, hostVars, markVars, history, disturbances>>

(* A new opportunity: onQueued marks the whole worklist seen. *)
PreflightPassed ==
  /\ actor.at = "preflight" /\ BeforeRun /\ ~actor.epochMoved
  /\ actor' = [actor EXCEPT !.rescheduling = FALSE, !.runEndReported = FALSE,
                            !.runStartReported = FALSE, !.queued = TRUE,
                            !.startedAfterMark = TRUE, !.at = "announcing"]
  /\ seen' = seen \cup unhandled
  /\ sinceStart' = {}
  /\ terminals' = 0
  /\ UNCHANGED <<delivered, unhandled, owed, hostVars, sinceMark, offered, lapses, disturbances>>

(* The understanding mount is ready: fresh controller, and the gate is asked. *)
EnterGate ==
  /\ actor.at = "announcing"
  /\ actor' = [actor EXCEPT !.killable = TRUE, !.coalesceAborted = FALSE,
                            !.controller = "live", !.pendingStart = "waiting",
                            !.at = "gated"]
  /\ UNCHANGED <<inboxVars, hostVars, markVars, history, disturbances>>

(* An abandoned opportunity is reported once, and only if nothing else was. *)
Abandon(a) ==
  /\ actor' = LeaveTurn(a)
  /\ terminals' = terminals + 1

(* The mount throws outside the boundary that turns failures into results. *)
MountFails ==
  /\ Disturb
  /\ actor.at = "announcing"
  /\ Abandon(actor)
  /\ lapses' = lapses \cup {"mount-failure"}
  /\ UNCHANGED <<inboxVars, hostVars, markVars, offered>>

Pop ==
  /\ actor.at = "gated" /\ actor.pendingStart = "waiting"
  /\ actor' = [actor EXCEPT !.pendingStart = "popped"]
  /\ UNCHANGED <<inboxVars, hostVars, markVars, history, disturbances>>

(* The lane's interval grew while the popped start waited. *)
PutBack ==
  /\ Disturb
  /\ actor.at = "gated" /\ actor.pendingStart = "popped" /\ ~actor.responsive
  /\ actor' = [actor EXCEPT !.pendingStart = "waiting"]
  /\ UNCHANGED <<inboxVars, hostVars, markVars, history>>

(* The head of invoke. *)
Invoked(a) == [a EXCEPT !.pendingStart = "none", !.queued = FALSE,
                        !.nudgeWhileQueued = NoNudge,
                        !.preemptedQueuedRun = FALSE]

Invoke ==
  /\ actor.at = "gated" /\ actor.pendingStart = "popped"
  /\ IF actor.closed \/ actor.preemptedQueuedRun
     THEN Abandon(Invoked(actor))
     ELSE /\ actor' = [Invoked(actor) EXCEPT !.at = "admitting"]
          /\ UNCHANGED terminals
  /\ UNCHANGED <<inboxVars, hostVars, markVars, offered, lapses, disturbances>>

(* The lane no longer carries the actor's pool: ask beforeRun once more. *)
GateStale ==
  /\ Disturb
  /\ actor.at = "gated" /\ actor.pendingStart = "popped" /\ ~actor.responsive
  /\ actor' = [actor EXCEPT !.pendingStart = "stale", !.at = "regating"]
  /\ UNCHANGED <<inboxVars, hostVars, markVars, history>>

Regate ==
  /\ actor.at = "regating" /\ BeforeRun
  /\ actor' = [actor EXCEPT !.pendingStart = "waiting", !.at = "gated"]
  /\ UNCHANGED <<inboxVars, hostVars, markVars, history, disturbances>>

RegateRefused ==
  /\ actor.at = "regating" /\ ~BeforeRun
  /\ Abandon([actor EXCEPT !.cancelledRun = TRUE])
  /\ UNCHANGED <<inboxVars, hostVars, markVars, offered, lapses, disturbances>>

Unwind ==
  /\ actor.at = "gated" /\ actor.pendingStart = "cancelled"
  /\ Abandon(actor)
  /\ UNCHANGED <<inboxVars, hostVars, markVars, offered, lapses, disturbances>>

ReportResultLate(a) ==
  /\ actor' = [a EXCEPT !.pendingStart = "none", !.controller = "none", !.at = "ending"]
  /\ terminals' = terminals + 1

(* The opportunity ends with a result. *)
ReportResult(a) ==
  /\ actor' = [a EXCEPT !.pendingStart = "none", !.controller = "none",
                        !.runEndReported = TRUE, !.at = "ending"]
  /\ terminals' = terminals + 1

(* The pool is exhausted, or the gate throws, which onError is told.  A       *)
(* popped start that a preemption marked is invoked all the same, before      *)
(* runOnce hears of the failure, and stops at the mark.                       *)
GateFails ==
  /\ Disturb
  /\ actor.at = "gated" /\ actor.pendingStart \in {"waiting", "popped"}
  /\ LET a == IF actor.pendingStart = "popped" /\ actor.preemptedQueuedRun
              THEN Invoked(actor) ELSE [actor EXCEPT !.pendingStart = "stale"]
     IN actor' = [a EXCEPT !.at = "failing"]
  /\ offered' = offered \cup unhandled
  /\ UNCHANGED <<inboxVars, hostVars, markVars, terminals, lapses>>

AdmissionRefused ==
  /\ actor.at = "admitting" /\ ~AdmitRun
  /\ Abandon(actor)
  /\ lapses' = IF HasRunnableInbox(actor, unhandled)
                  /\ \E e \in unhandled \ offered : Kind[e] # "ordinary"
               THEN lapses \cup {"missed-promotion"} ELSE lapses
  /\ UNCHANGED <<inboxVars, hostVars, markVars, offered, disturbances>>

(* The run starts: its prompt is built from the inbox as it is now. *)
Start ==
  /\ actor.at = "admitting" /\ AdmitRun
  /\ actor' = [actor EXCEPT !.executing = TRUE, !.at = "starting",
                            !.watermark = @ /\ ~actor.startedAfterMark]
  /\ offered' = offered \cup unhandled
  /\ UNCHANGED <<inboxVars, hostVars, markVars, terminals, lapses, disturbances>>

(* buildPrompt, loadSessionId or the provider throws. *)
RunFails ==
  /\ Disturb
  /\ actor.at \in {"starting", "running"}
  /\ IF actor.coalesceAborted THEN Abandon(actor)
     ELSE actor' = [actor EXCEPT !.at = "failing"] /\ UNCHANGED terminals
  /\ UNCHANGED <<inboxVars, hostVars, markVars, offered, lapses>>

StartReported ==
  /\ actor.at = "starting"
  /\ actor' = [actor EXCEPT !.runStartReported = TRUE, !.at = "running"]
  /\ UNCHANGED <<inboxVars, hostVars, markVars, history, disturbances>>

ProviderReturns ==
  /\ actor.at = "running"
  /\ IF actor.coalesceAborted THEN Abandon(actor) ELSE ReportResult(actor)
  /\ UNCHANGED <<inboxVars, hostVars, markVars, offered, lapses, disturbances>>

(* A failure becomes the run's result, unless a voice nudge came meanwhile. *)
FailureReported ==
  /\ actor.at = "failing"
  /\ IF actor.coalesceAborted THEN Abandon(actor) ELSE ReportResult(actor)
  /\ UNCHANGED <<inboxVars, hostVars, markVars, offered, lapses, disturbances>>

(* runOnce's finally block after a reported result. *)
EndReported ==
  /\ actor.at = "ending"
  /\ IF actor.runEndReported
     THEN actor' = FinishTurn(actor) /\ UNCHANGED terminals
     ELSE Abandon(actor)
  /\ UNCHANGED <<inboxVars, hostVars, markVars, offered, lapses, disturbances>>

AbandonReported ==
  /\ actor.at = "closing"
  /\ actor' = FinishTurn(actor)
  /\ UNCHANGED <<inboxVars, hostVars, markVars, history, disturbances>>

-----------------------------------------------------------------------------
Environment ==
  \/ \E e \in Entries, wake \in {"join", "preempt"} : Deliver(e, wake)
  \/ \E e \in Entries, suppress \in BOOLEAN : RunNow(e, suppress)
  \/ EngageHalt
  \/ \E suppress \in BOOLEAN : LiftHalt(suppress)
  \/ RequestShutdown \/ Quiesce
  \/ \E suppress \in BOOLEAN : CancelShutdown(suppress)
  \/ \E e \in Entries : HandleElsewhere(e)
  \/ \E e \in Entries, suppress \in BOOLEAN : HandleInRun(e, suppress)
  \/ \E suppress \in BOOLEAN : OperatorInterrupt(suppress)
  \/ ChangeModel
  \/ MarkUnkillable
  \/ BeginVoiceSession
  \/ \E suppress \in BOOLEAN : EndVoiceSession(suppress)
  \/ CloseActor
  \/ VoiceAges
  \/ \E suppress \in BOOLEAN : Restart(suppress)

(* Steps of the event loop, and answers the host owes. *)
Progress ==
  \/ \E suppress \in BOOLEAN : Dispatch(suppress)
  \/ DebounceFires
  \/ PreflightRefused \/ PreflightOutdated \/ PreflightPassed
  \/ EnterGate \/ Pop \/ Invoke \/ Regate \/ RegateRefused \/ Unwind
  \/ AdmissionRefused \/ Start \/ StartReported \/ ProviderReturns
  \/ FailureReported \/ EndReported \/ AbandonReported

Setbacks == MountFails \/ PutBack \/ GateStale \/ GateFails \/ RunFails

Next == Environment \/ Progress \/ Setbacks

Spec == Init /\ [][Next]_vars
-----------------------------------------------------------------------------
(* What the scheduler promises *)

(* Control state and flags agree: one opportunity at a time, whose flags say  *)
(* where it stands, and which reports its end exactly once.                   *)
FlagsMatchPlace == FlagsAgree(actor)

(* "Every queued run has exactly one terminal event" (actor-lifecycle.ts): an *)
(* opportunity that was announced is closed by one result or one abandonment  *)
(* before the next is announced, whichever await it was stopped at.           *)
OneTerminal ==
  /\ terminals <= 1
  /\ actor.at \in {"idle", "preflight"} => terminals = 1

(* A run cut short by a preemption or a voice follow-up is followed by the    *)
(* run it made way for: the runner is dirty until the aborted run returns.    *)
(* Only an operator's interrupt (the watermark) or retirement stops it for    *)
(* good.                                                                      *)
AbortedRunReplaced ==
  actor.executing /\ actor.controller = "aborted" /\ ~actor.watermark /\ ~actor.closed
    => actor.dirty

(* Someone asked for this row not to run now. *)
Withheld(e) ==
  Refusing \/ voiceSession \/ actor.closed \/ (actor.watermark /\ e \notin sinceMark)

Settled(e) == e \notin unhandled \/ e \in offered \/ Withheld(e)

(* An actor with nothing scheduled has no row that a run has never been       *)
(* offered and nobody withheld, except after one of the five known lapses:    *)
(* whatever the order of deliveries, halts, interrupts, preemptions, model    *)
(* changes, voice sessions, gate failures and restarts, no other wake is      *)
(* lost; and a restart makes good what a lapse before it dropped.             *)
NoStrandedWork ==
  lapses = {} /\ actor.at = "idle" /\ ~actor.timer /\ owed = "none"
    => \A e \in Entries : Settled(e)

(* The process exits once the drain has found no run in flight; "no in-flight *)
(* run is ever missed", because what passed beforeRun is already counted and  *)
(* the brake stops the rest (update/drain.ts).                                *)
NoRunMissedByDrain == shutdown = "quiesced" => ~actor.executing

-----------------------------------------------------------------------------
(* Liveness: the event loop runs what is ready, and the hooks, the admission  *)
(* gate and the provider answer.  Disturbances are never obliged to happen,   *)
(* and a halt or a voice session may last for ever.                           *)
FairSpec == Spec /\ WF_vars(Progress)

(* Every row is in the end handled, offered to a run, or withheld by someone. *)
EveryRowSettled ==
  \A e \in Entries : e \in unhandled ~> Settled(e) \/ lapses # {}
=============================================================================
