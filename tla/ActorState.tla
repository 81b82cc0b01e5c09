------------------------------ MODULE ActorState ------------------------------
(***************************************************************************)
(* The synchronous half of one actor of the mesh: what each method of      *)
(* Actor (actor/actor.ts) and of the TriggerRunner it owns                 *)
(* (actor/trigger-runner.ts) does to the fields of the two objects before  *)
(* it returns to the event loop.  Every operator takes the record of those *)
(* fields and returns the record after the call, so a caller that makes    *)
(* several calls in one turn composes them.  ActorRun puts them under a    *)
(* scheduler.                                                              *)
(*                                                                         *)
(* A nudge carries a priority and, for voice, a timestamp.  Merging keeps  *)
(* the higher priority and the older timestamp, so nudges are ranked: an   *)
(* utterance older than voiceCoalesceMaxAgeMs outranks a fresh one.        *)
(***************************************************************************)
EXTENDS Integers

NoNudge    == 0    \* null / undefined
Ordinary   == 1    \* {}
Responsive == 2    \* priority "responsive"
Voice      == 3    \* a voiceTimestamp younger than the coalescing age
OldVoice   == 4    \* a voiceTimestamp that has reached it

Nudge == NoNudge .. OldVoice

IsResponsive(nudge) == nudge >= Responsive

Bigger(l, r) == IF l > r THEN l ELSE r
MergeNudges(l, r) == Bigger(Ordinary, Bigger(l, r))

(* Where runOnce stands.  Each value but the first is an await: *)
(*   preflight  beforeRun             gated     the admission gate's result  *)
(*   announcing onQueued, then the    regating  beforeRun again, the lane    *)
(*              understanding mount             having gone stale            *)
(*   admitting  admitRun              starting  onStart                      *)
(*   running    the provider          failing   onError                      *)
(*   ending     onEnd with a result   closing   onEnd of an abandoned        *)
(*                                              opportunity                  *)
Places == {"idle", "preflight", "announcing", "gated", "regating", "admitting",
           "starting", "running", "failing", "ending", "closing"}

(* pendingStart as its cancel() sees it: a waiting start can be cancelled; one *)
(* the scheduler has popped, one already cancelled and one already rejected,   *)
(* its lane being stale or the gate having failed, cannot.                     *)
Starts == {"none", "waiting", "popped", "cancelled", "stale"}

ActorState ==
  [ at                : Places,
    \* TriggerRunner
    running           : BOOLEAN,  timer   : BOOLEAN,  dirty : BOOLEAN,
    pendingNudge      : Nudge,    currentNudge : Nudge,
    \* Actor
    closed            : BOOLEAN,  killable : BOOLEAN, coalesceAborted : BOOLEAN,
    controller        : {"none", "live", "aborted"},
    pendingStart      : Starts,   responsive : BOOLEAN,
    queued            : BOOLEAN,  executing  : BOOLEAN,
    cancelledRun      : BOOLEAN,  cancelledNudge : Nudge,
    rescheduling      : BOOLEAN,  preemptedQueuedRun : BOOLEAN,
    nudgeWhileQueued  : Nudge,
    runEndReported    : BOOLEAN,  runStartReported : BOOLEAN,
    epochMoved        : BOOLEAN,  \* admissionEpoch !== epoch
    watermark         : BOOLEAN,  \* interruptedWatermark is set
    startedAfterMark  : BOOLEAN ] \* currentRunStartTime > interruptedWatermark

NewActor ==
  [ at |-> "idle", running |-> FALSE, timer |-> FALSE, dirty |-> FALSE,
    pendingNudge |-> NoNudge, currentNudge |-> NoNudge, closed |-> FALSE,
    killable |-> TRUE, coalesceAborted |-> FALSE, controller |-> "none",
    pendingStart |-> "none", responsive |-> FALSE, queued |-> FALSE,
    executing |-> FALSE, cancelledRun |-> FALSE, cancelledNudge |-> NoNudge,
    rescheduling |-> FALSE, preemptedQueuedRun |-> FALSE,
    nudgeWhileQueued |-> NoNudge, runEndReported |-> TRUE,
    runStartReported |-> FALSE, epochMoved |-> FALSE,
    watermark |-> FALSE, startedAfterMark |-> FALSE ]

(* Which flags may be set where. *)
FlagsAgree(a) ==
  /\ a.running <=> a.at # "idle"
  /\ a.timer => ~a.running
  /\ a.pendingStart # "none" => a.at \in {"gated", "regating", "failing"} /\ ~a.executing
  /\ a.pendingStart \in {"waiting", "popped", "cancelled"} <=> a.at = "gated"
  /\ a.at = "regating" => a.pendingStart = "stale"
  /\ a.executing => a.at \in {"starting", "running", "failing", "ending"} /\ ~a.queued
  /\ a.queued => a.at \in {"announcing", "gated", "regating", "failing", "ending"}
  /\ a.runEndReported <=> a.at \in {"idle", "preflight", "ending", "closing"}

-----------------------------------------------------------------------------
(* TriggerRunner *)

(* The head of runOnce, up to its first await.  A closed actor's returns at   *)
(* once, and the loop ends: nothing is dirty yet.                             *)
RunOnce(a, nudge) ==
  IF a.closed
  THEN [a EXCEPT !.running = FALSE, !.currentNudge = NoNudge, !.at = "idle"]
  ELSE [a EXCEPT !.running = TRUE, !.currentNudge = nudge, !.at = "preflight",
                 !.responsive = IsResponsive(nudge), !.epochMoved = FALSE]

(* The head of the runner's loop: take the pending nudge. *)
StartLoop(a) ==
  RunOnce([a EXCEPT !.timer = FALSE, !.dirty = FALSE, !.pendingNudge = NoNudge],
          Bigger(Ordinary, a.pendingNudge))

(* runOnce settled: loop while dirty, otherwise go idle. *)
LoopAgain(a) ==
  IF a.dirty THEN StartLoop(a)
  ELSE [a EXCEPT !.running = FALSE, !.currentNudge = NoNudge, !.at = "idle"]

(* A voice nudge folds the current run into its own follow-up and aborts it, *)
(* unless the run's oldest utterance has already waited the maximum age.     *)
CoalesceKill(a) ==
  IF a.currentNudge = OldVoice THEN [a EXCEPT !.dirty = TRUE]
  ELSE [a EXCEPT !.pendingNudge = MergeNudges(a.currentNudge, a.pendingNudge),
                 !.currentNudge = NoNudge, !.dirty = TRUE,
                 !.coalesceAborted = TRUE,
                 !.controller = IF @ = "live" THEN "aborted" ELSE @]

RunnerRequest(a, nudge) ==
  LET b == [a EXCEPT !.pendingNudge = MergeNudges(@, nudge)]
      isKillable == a.killable /\ a.pendingStart = "none"
  IN CASE a.running /\ nudge >= Voice /\ isKillable -> CoalesceKill(b)
       [] a.running /\ ~(nudge >= Voice /\ isKillable) -> [b EXCEPT !.dirty = TRUE]
       [] ~a.running /\ IsResponsive(nudge) -> StartLoop(b)
       [] OTHER -> [b EXCEPT !.timer = TRUE]

CancelPending(a) ==
  [a EXCEPT !.timer = FALSE, !.dirty = FALSE, !.pendingNudge = NoNudge]

-----------------------------------------------------------------------------
(* Actor *)

Promote(a) ==
  IF a.pendingStart \in {"waiting", "popped"} THEN [a EXCEPT !.responsive = TRUE] ELSE a

RequestRun(a, nudge) ==
  IF a.closed THEN a
  ELSE LET b == IF IsResponsive(nudge) THEN Promote(a) ELSE a
       IN IF a.queued
          THEN [b EXCEPT !.nudgeWhileQueued = MergeNudges(@, nudge)]
          ELSE RunnerRequest(b, nudge)

CancelQueuedRun(a, retain) ==
  CASE a.rescheduling ->
         CancelPending([a EXCEPT !.rescheduling = FALSE, !.epochMoved = TRUE,
                                 !.cancelledRun = retain,
                                 !.cancelledNudge = IF retain THEN a.currentNudge ELSE NoNudge])
    [] ~a.rescheduling /\ a.pendingStart = "waiting" /\ retain ->
         [a EXCEPT !.pendingStart = "cancelled", !.cancelledRun = TRUE,
                   !.cancelledNudge = MergeNudges(a.currentNudge, a.nudgeWhileQueued),
                   !.nudgeWhileQueued = NoNudge]
    [] ~a.rescheduling /\ a.pendingStart = "waiting" /\ ~retain ->
         [a EXCEPT !.pendingStart = "cancelled", !.cancelledRun = FALSE,
                   !.cancelledNudge = NoNudge]
    [] OTHER -> a

RescheduleQueuedRun(a) ==
  IF a.rescheduling \/ a.pendingStart # "waiting" THEN a
  ELSE [a EXCEPT !.pendingStart = "cancelled", !.rescheduling = TRUE,
                 !.pendingNudge = MergeNudges(@, a.currentNudge), !.dirty = TRUE]

ResumeCancelledRun(a) ==
  IF ~a.cancelledRun THEN a
  ELSE RunnerRequest([a EXCEPT !.cancelledRun = FALSE, !.cancelledNudge = NoNudge],
                     Bigger(Ordinary, a.cancelledNudge))

Busy(a) == a.executing \/ a.queued \/ a.running \/ a.timer \/ a.pendingStart # "none"

PreemptForResponsive(a) ==
  LET b == CancelPending([a EXCEPT !.epochMoved = TRUE])
      c == [b EXCEPT !.queued = FALSE]
  IN CASE ~Busy(a) -> [a EXCEPT !.epochMoved = TRUE]
       [] a.executing /\ a.controller # "none" -> [b EXCEPT !.controller = "aborted"]
       [] ~(a.executing /\ a.controller # "none") /\ a.pendingStart = "none" /\ Busy(a) -> c
       [] ~(a.executing /\ a.controller # "none") /\ a.pendingStart = "waiting" ->
            [c EXCEPT !.pendingStart = "cancelled"]
       [] OTHER -> [c EXCEPT !.preemptedQueuedRun = TRUE]

(* interrupt() reports a running or a queued run stopped, or nothing to stop. *)
InterruptsRunning(a) == a.executing /\ a.controller # "none"
InterruptsQueued(a)  ==
  ~InterruptsRunning(a) /\ (a.pendingStart # "none" \/ a.queued \/ a.running)

Interrupt(a) ==
  LET b == CancelPending([a EXCEPT !.epochMoved = TRUE])
      m == [b EXCEPT !.watermark = TRUE, !.startedAfterMark = FALSE]
  IN CASE InterruptsRunning(a) -> [m EXCEPT !.controller = "aborted"]
       [] InterruptsQueued(a)  ->
            [(IF a.pendingStart = "none" THEN m ELSE CancelQueuedRun(m, TRUE))
               EXCEPT !.queued = FALSE]
       [] OTHER -> b

Close(a) ==
  [CancelPending(a) EXCEPT !.closed = TRUE, !.nudgeWhileQueued = NoNudge,
                           !.pendingStart = IF @ = "waiting" THEN "cancelled" ELSE @]

LeaveTurnStillQueued(a) ==
  [a EXCEPT !.executing = FALSE, !.pendingStart = "none",
            !.runEndReported = TRUE, !.at = "closing"]

(* runOnce's finally block up to its await: the flags are cleared, and an   *)
(* opportunity that reported no result is reported abandoned.               *)
LeaveTurn(a) ==
  [a EXCEPT !.queued = FALSE, !.executing = FALSE, !.pendingStart = "none",
            !.runEndReported = TRUE, !.at = "closing"]

FinishTurnWithoutReplay(a) ==
  LoopAgain([a EXCEPT !.queued = FALSE, !.executing = FALSE, !.pendingStart = "none"])

(* The rest of it: replay a nudge that joined a run that never started, and *)
(* let the runner's loop go on.                                             *)
FinishTurn(a) ==
  LET b == [a EXCEPT !.queued = FALSE, !.executing = FALSE, !.pendingStart = "none"]
      c == IF ~b.runStartReported /\ b.nudgeWhileQueued # NoNudge
           THEN RunnerRequest([b EXCEPT !.nudgeWhileQueued = NoNudge],
                              b.nudgeWhileQueued)
           ELSE b
  IN LoopAgain(c)
=============================================================================
