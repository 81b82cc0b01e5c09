---------------------------- MODULE ActorRunProofs ----------------------------
(***************************************************************************)
(* Theorems about one actor's life (ActorRun), for any inbox and any       *)
(* number of operator interventions.  The inductive invariant has two      *)
(* halves: the fields of the actor (with the count of terminal events they *)
(* account for), and the types of everything around it.  The last part     *)
(* adds a third, in whose hands every row is, and with it NoStrandedWork.  *)
(***************************************************************************)
EXTENDS ActorRun, TLAPS

-----------------------------------------------------------------------------
(* What every method of the actor leaves true of its fields, whatever state   *)
(* it is called in (ActorState).                                              *)

(* A fresh start has a controller nobody has aborted, and a re-quoted run is  *)
(* on its way back to its preflight: its start is cancelled, or unwound.  A   *)
(* run that has reported its result has no controller left, what is queued    *)
(* has not started, and the loop goes idle only when nothing more is wanted.  *)
StartsClean(a) ==
  /\ a.at \in {"gated", "regating"} => a.controller = "live"
  /\ a.at = "ending" => a.controller = "none"
  /\ a.rescheduling => a.at \in {"idle", "preflight", "closing"} \/ a.pendingStart = "cancelled"
  /\ a.queued \/ a.at \in {"announcing", "gated", "regating"} => ~a.runStartReported
  /\ a.at = "idle" => ~a.dirty

Well(a) == a \in ActorState /\ FlagsAgree(a) /\ StartsClean(a)

(* A call that neither opens nor closes an opportunity. *)
Alike(a, b) == Well(b) /\ b.runEndReported = a.runEndReported /\ b.closed = a.closed

(* Where the loop may begin a turn. *)
Ready(a) == ~a.queued /\ ~a.executing /\ a.pendingStart = "none" /\ a.runEndReported = TRUE

(* An aborted run owes its replacement, from the moment it is admitted until  *)
(* it reports; the mark an operator's interrupt left before the start         *)
(* outlives it.                                                               *)
Replaced(a) ==
  a.controller = "aborted" /\ ~a.closed =>
    /\ a.at = "admitting" => a.dirty \/ (a.watermark /\ ~a.startedAfterMark)
    /\ a.executing => a.dirty \/ a.watermark

(* Merging nudges yields a nudge. *)
LEMMA NudgeType ==
  /\ NoNudge \in Nudge /\ Ordinary \in Nudge /\ Responsive \in Nudge
  /\ Voice \in Nudge /\ OldVoice \in Nudge
  /\ \A n, m \in Nudge : Bigger(n, m) \in Nudge /\ MergeNudges(n, m) \in Nudge
  /\ \A n \in Nudge : IsResponsive(n) \in BOOLEAN
  BY DEF Nudge, NoNudge, Ordinary, Responsive, Voice, OldVoice, Bigger, MergeNudges, IsResponsive

-----------------------------------------------------------------------------
(* TriggerRunner *)

(* The head of runOnce, at any point where the loop may begin a turn.         *)
LEMMA RunOnceAlike ==
  ASSUME NEW a, Well(a), NEW n \in Nudge, Ready(a), ~a.timer, ~a.dirty,
         a.at \in {"idle", "preflight", "closing"} \/ ~a.rescheduling
  PROVE  Alike(a, RunOnce(a, n))
<1> USE DEF Places, Starts, ActorState
<1>1. RunOnce(a, n) \in ActorState
  BY NudgeType, ZenonT(30) DEF RunOnce, Well
<1>2. FlagsAgree(RunOnce(a, n)) /\ StartsClean(RunOnce(a, n))
  BY DEF RunOnce, Ready, Well, FlagsAgree, StartsClean
<1>3. (RunOnce(a, n)).runEndReported = a.runEndReported /\ (RunOnce(a, n)).closed = a.closed
  BY DEF RunOnce, Well
<1> QED BY <1>1, <1>2, <1>3 DEF Alike, Well

(* A turn of the loop does not start in the middle of another. *)
LEMMA StartLoopAlike ==
  ASSUME NEW a, Well(a), Ready(a)
  PROVE  Alike(a, StartLoop(a)) /\ ~(StartLoop(a)).executing /\ (StartLoop(a)).at # "admitting"
<1> DEFINE b == [a EXCEPT !.timer = FALSE, !.dirty = FALSE, !.pendingNudge = NoNudge]
           n == Bigger(Ordinary, a.pendingNudge)
<1>1. /\ Alike(a, b) /\ Ready(b) /\ ~b.timer /\ ~b.dirty /\ b.at = a.at
      /\ b.rescheduling = a.rescheduling
  BY NudgeType DEF Alike, Well, ActorState, FlagsAgree, StartsClean, Ready
<1>2. n \in Nudge
  BY NudgeType DEF Well, ActorState
<1>3. a.at \in {"idle", "preflight", "closing"} \/ ~a.rescheduling
  BY DEF Well, StartsClean, Ready
<1> HIDE DEF n, b
<1>4. Alike(b, RunOnce(b, n))
  BY <1>1, <1>2, <1>3, RunOnceAlike DEF Alike
<1>5. ~(RunOnce(b, n)).executing /\ (RunOnce(b, n)).at # "admitting"
  BY <1>1, <1>2 DEF RunOnce, Ready, Alike, Well, ActorState
<1> QED BY <1>1, <1>4, <1>5 DEF StartLoop, Alike, b, n

(* Nor does the turn that follows one that ended. *)
LEMMA LoopAgainAlike ==
  ASSUME NEW a, Well(a), Ready(a)
  PROVE  Alike(a, LoopAgain(a)) /\ ~(LoopAgain(a)).executing /\ (LoopAgain(a)).at # "admitting"
<1> USE DEF Places, Starts, ActorState
<1>1. CASE a.dirty
  BY <1>1, StartLoopAlike DEF LoopAgain
<1>2. CASE ~a.dirty
  BY <1>2, NudgeType DEF LoopAgain, Alike, Well, FlagsAgree, StartsClean, Ready
<1> QED BY <1>1, <1>2

(* A coalescing kill, before the run is gated or after it has started.        *)
LEMMA CoalesceKillAlike ==
  ASSUME NEW a, Well(a), a.pendingStart = "none", a.running
  PROVE  Alike(a, CoalesceKill(a)) /\ (CoalesceKill(a)).dirty
<1> USE DEF Places, Starts, ActorState
<1>1. CoalesceKill(a) \in ActorState
  <2>1. MergeNudges(a.currentNudge, a.pendingNudge) \in Nudge /\ NoNudge \in Nudge
    BY NudgeType DEF Well
  <2>2. (IF a.controller = "live" THEN "aborted" ELSE a.controller) \in {"none", "live", "aborted"}
    BY DEF Well
  <2> DEFINE c == IF a.controller = "live" THEN "aborted" ELSE a.controller
             n == MergeNudges(a.currentNudge, a.pendingNudge)
  <2> HIDE DEF c, n
  <2>3. [a EXCEPT !.pendingNudge = n, !.currentNudge = NoNudge, !.dirty = TRUE,
                  !.coalesceAborted = TRUE, !.controller = c] \in ActorState
    BY <2>1, <2>2, ZenonT(30) DEF Well, c, n
  <2>4. [a EXCEPT !.dirty = TRUE] \in ActorState
    BY DEF Well
  <2> QED BY <2>3, <2>4 DEF CoalesceKill, c, n
<1>2. FlagsAgree(CoalesceKill(a)) /\ StartsClean(CoalesceKill(a))
  BY DEF CoalesceKill, Well, FlagsAgree, StartsClean
<1>3. /\ (CoalesceKill(a)).runEndReported = a.runEndReported
      /\ (CoalesceKill(a)).closed = a.closed /\ (CoalesceKill(a)).dirty
  BY DEF CoalesceKill, Well
<1> QED BY <1>1, <1>2, <1>3 DEF Alike, Well

(* A request makes a running loop dirty, so whatever it cuts short or finds   *)
(* cut short will be followed by another turn.                                *)
LEMMA RunnerRequestAlike ==
  ASSUME NEW a, Well(a), NEW n \in Nudge
  PROVE  Alike(a, RunnerRequest(a, n)) /\ Replaced(RunnerRequest(a, n))
<1> USE DEF Places, Starts, ActorState
<1> DEFINE b == [a EXCEPT !.pendingNudge = MergeNudges(@, n)]
<1>1. Alike(a, b) /\ b.running = a.running /\ b.at = a.at /\ b.pendingStart = a.pendingStart
  BY NudgeType DEF Alike, Well, FlagsAgree, StartsClean
<1>2. ~a.running => Ready(b)
  BY <1>1 DEF Alike, Well, FlagsAgree, Ready
<1> HIDE DEF b
<1>3. CASE a.running
  <2>1. Alike(b, [b EXCEPT !.dirty = TRUE])
    BY <1>1, <1>3, ZenonT(30) DEF Alike, Well, FlagsAgree, StartsClean
  <2>2. [b EXCEPT !.dirty = TRUE].dirty
    BY <1>1 DEF Alike, Well
  <2>3. a.pendingStart = "none" => Alike(b, CoalesceKill(b)) /\ (CoalesceKill(b)).dirty
    BY <1>1, <1>3, CoalesceKillAlike DEF Alike
  <2>4. Alike(b, RunnerRequest(a, n)) /\ (RunnerRequest(a, n)).dirty
    BY <2>1, <2>2, <2>3, <1>3 DEF RunnerRequest, b
  <2> QED BY <2>4, <1>1 DEF Alike, Replaced
<1>4. CASE ~a.running
  <2>1. LET c == [b EXCEPT !.timer = TRUE]
        IN Alike(b, c) /\ ~c.executing /\ c.at # "admitting"
    BY <1>1, <1>2, <1>4 DEF Alike, Well, FlagsAgree, StartsClean, Ready
  <2>2. Alike(b, StartLoop(b)) /\ ~(StartLoop(b)).executing /\ (StartLoop(b)).at # "admitting"
    BY <1>1, <1>2, <1>4, StartLoopAlike DEF Alike
  <2>3. /\ Alike(b, RunnerRequest(a, n))
        /\ ~(RunnerRequest(a, n)).executing /\ (RunnerRequest(a, n)).at # "admitting"
    BY <2>1, <2>2, <1>4 DEF RunnerRequest, b
  <2> QED BY <2>3, <1>1 DEF Alike, Replaced
<1> QED BY <1>3, <1>4

-----------------------------------------------------------------------------
(* Actor *)

(* Unless the actor is closed, a request pays whatever an abort owed. *)
LEMMA RequestRunAlike ==
  ASSUME NEW a, Well(a), NEW n \in Nudge
  PROVE  Alike(a, RequestRun(a, n)) /\ (~a.closed => Replaced(RequestRun(a, n)))
<1> USE DEF Places, Starts, ActorState
<1> DEFINE b == IF IsResponsive(n) THEN Promote(a) ELSE a
<1>1. Alike(a, b) /\ b.queued = a.queued
  <2>1. [a EXCEPT !.responsive = TRUE] \in ActorState
    BY DEF Well
  <2>2. Promote(a) \in ActorState
    BY <2>1 DEF Promote, Well
  <2>3. Alike(a, Promote(a)) /\ (Promote(a)).queued = a.queued
    BY <2>2 DEF Promote, Alike, Well, FlagsAgree, StartsClean
  <2> QED BY <2>3 DEF Alike
<1> HIDE DEF b
<1>2. CASE a.closed
  BY <1>2 DEF RequestRun, Alike
<1>3. CASE ~a.closed /\ a.queued
  <2>1. Alike(b, [b EXCEPT !.nudgeWhileQueued = MergeNudges(@, n)])
    BY <1>1, NudgeType DEF Alike, Well, FlagsAgree, StartsClean
  <2>2. Replaced([b EXCEPT !.nudgeWhileQueued = MergeNudges(@, n)])
    BY <1>1, <1>3 DEF Alike, Well, FlagsAgree, Replaced
  <2> QED BY <1>1, <1>3, <2>1, <2>2 DEF RequestRun, Alike, b
<1>4. CASE ~a.closed /\ ~a.queued
  <2>1. Alike(b, RunnerRequest(b, n)) /\ Replaced(RunnerRequest(b, n))
    BY <1>1, RunnerRequestAlike DEF Alike
  <2> QED BY <1>1, <1>4, <2>1 DEF RequestRun, Alike, b
<1> QED BY <1>2, <1>3, <1>4

(* Dropping the requests of the runner moves nothing else. *)
LEMMA CancelPendingAlike ==
  ASSUME NEW a, Well(a)
  PROVE  /\ Alike(a, CancelPending(a))
         /\ (CancelPending(a)).at = a.at /\ (CancelPending(a)).executing = a.executing
         /\ (CancelPending(a)).queued = a.queued
         /\ (CancelPending(a)).pendingStart = a.pendingStart
         /\ (CancelPending(a)).controller = a.controller
  BY NudgeType, ZenonT(30)
  DEF CancelPending, Alike, Well, FlagsAgree, StartsClean, ActorState, Places, Starts

(* Parking or dropping a queued run cancels its start, if it still can.       *)
LEMMA CancelQueuedRunAlike ==
  ASSUME NEW a, Well(a), NEW retain \in BOOLEAN
  PROVE  /\ Alike(a, CancelQueuedRun(a, retain))
         /\ Replaced(a) => Replaced(CancelQueuedRun(a, retain))
<1> USE DEF Places, Starts, ActorState
<1>1. CASE a.rescheduling
  <2> DEFINE b == [a EXCEPT !.rescheduling = FALSE, !.epochMoved = TRUE,
                            !.cancelledRun = retain,
                            !.cancelledNudge = IF retain THEN a.currentNudge ELSE NoNudge]
  <2>0. b \in ActorState
    <3>1. a.currentNudge \in Nudge /\ (IF retain THEN a.currentNudge ELSE NoNudge) \in Nudge
      BY NudgeType DEF Well
    <3> QED BY <3>1, ZenonT(30) DEF Well
  <2>1. Alike(a, b) /\ b.at = a.at /\ b.executing = a.executing
    BY <2>0, <1>1 DEF Alike, Well, FlagsAgree, StartsClean
  <2>2. ~b.executing /\ b.at # "admitting"
    BY <1>1, <2>1 DEF Well, FlagsAgree, StartsClean
  <2> HIDE DEF b
  <2>3. Alike(b, CancelPending(b)) /\ Replaced(CancelPending(b))
    BY <2>1, <2>2, CancelPendingAlike DEF Alike, Replaced
  <2> QED BY <1>1, <2>1, <2>3 DEF CancelQueuedRun, Alike, b
<1>2. CASE ~a.rescheduling
  <2>1. CancelQueuedRun(a, retain) \in ActorState
    BY <1>2, NudgeType DEF CancelQueuedRun, Well
  <2>2. FlagsAgree(CancelQueuedRun(a, retain)) /\ StartsClean(CancelQueuedRun(a, retain))
    <3>1. CASE a.pendingStart = "waiting"
      BY <1>2, <3>1 DEF CancelQueuedRun, Well, FlagsAgree, StartsClean
    <3>2. CASE a.pendingStart # "waiting"
      BY <1>2, <3>2 DEF CancelQueuedRun, Well
    <3> QED BY <3>1, <3>2
  <2>3. /\ (CancelQueuedRun(a, retain)).runEndReported = a.runEndReported
        /\ (CancelQueuedRun(a, retain)).closed = a.closed
        /\ Replaced(a) => Replaced(CancelQueuedRun(a, retain))
    BY <1>2 DEF CancelQueuedRun, Well, Replaced
  <2> QED BY <2>1, <2>2, <2>3 DEF Alike, Well
<1> QED BY <1>1, <1>2 DEF Well

(* A model change re-quotes a start only by cancelling it. *)
LEMMA RescheduleQueuedRunAlike ==
  ASSUME NEW a, Well(a)
  PROVE  /\ Alike(a, RescheduleQueuedRun(a))
         /\ Replaced(a) => Replaced(RescheduleQueuedRun(a))
<1> USE DEF Places, Starts, ActorState
<1>1. RescheduleQueuedRun(a) \in ActorState
  <2>1. a.currentNudge \in Nudge /\ MergeNudges(a.pendingNudge, a.currentNudge) \in Nudge
    BY NudgeType DEF Well
  <2>2. [a EXCEPT !.pendingStart = "cancelled", !.rescheduling = TRUE,
                  !.pendingNudge = MergeNudges(@, a.currentNudge), !.dirty = TRUE] \in ActorState
    BY <2>1 DEF Well
  <2> QED BY <2>2 DEF RescheduleQueuedRun, Well
<1>2. FlagsAgree(RescheduleQueuedRun(a)) /\ StartsClean(RescheduleQueuedRun(a))
  BY DEF RescheduleQueuedRun, Well, FlagsAgree, StartsClean
<1>3. /\ (RescheduleQueuedRun(a)).runEndReported = a.runEndReported
      /\ (RescheduleQueuedRun(a)).closed = a.closed
      /\ Replaced(a) => Replaced(RescheduleQueuedRun(a))
  BY DEF RescheduleQueuedRun, Well, Replaced
<1> QED BY <1>1, <1>2, <1>3 DEF Alike, Well

(* Replaying a parked run is a request like any other. *)
LEMMA ResumeCancelledRunAlike ==
  ASSUME NEW a, Well(a)
  PROVE  /\ Alike(a, ResumeCancelledRun(a))
         /\ Replaced(a) => Replaced(ResumeCancelledRun(a))
<1> DEFINE b == [a EXCEPT !.cancelledRun = FALSE, !.cancelledNudge = NoNudge]
           n == Bigger(Ordinary, a.cancelledNudge)
<1>1. Alike(a, b) /\ n \in Nudge
  <2>1. n \in Nudge /\ b \in ActorState
    BY NudgeType DEF Well, ActorState
  <2> QED BY <2>1 DEF Alike, Well, FlagsAgree, StartsClean, ActorState
<1> HIDE DEF b, n
<1>2. Alike(b, RunnerRequest(b, n)) /\ Replaced(RunnerRequest(b, n))
  BY <1>1, RunnerRequestAlike DEF Alike
<1>3. CASE a.cancelledRun
  BY <1>1, <1>2, <1>3 DEF ResumeCancelledRun, Alike, b, n
<1>4. CASE ~a.cancelledRun
  BY <1>4 DEF ResumeCancelledRun, Alike
<1> QED BY <1>3, <1>4

(* A preemption aborts the run or drops its start, never both. *)
LEMMA PreemptForResponsiveAlike ==
  ASSUME NEW a, Well(a)
  PROVE  Alike(a, PreemptForResponsive(a))
<1> USE DEF Places, Starts, ActorState
<1> DEFINE e == [a EXCEPT !.epochMoved = TRUE]
           b == CancelPending(e)
           c == [b EXCEPT !.queued = FALSE]
<1>1. /\ Alike(a, e) /\ e.at = a.at /\ e.pendingStart = a.pendingStart
      /\ e.controller = a.controller
  BY ZenonT(30) DEF Alike, Well, FlagsAgree, StartsClean
<1> HIDE DEF e
<1>2. /\ Alike(a, b) /\ b.at = a.at /\ b.pendingStart = a.pendingStart
      /\ b.executing = a.executing /\ b.controller = a.controller
  BY <1>1, CancelPendingAlike DEF e, Alike, Well
<1> HIDE DEF b
<1>3. Alike(a, c) /\ c.pendingStart = a.pendingStart
  BY <1>2, ZenonT(30) DEF Alike, Well, FlagsAgree, StartsClean
<1>4. a.executing /\ a.controller # "none" => Alike(a, [b EXCEPT !.controller = "aborted"])
  BY <1>2 DEF Alike, Well, FlagsAgree, StartsClean
<1> HIDE DEF c
<1>5. a.pendingStart = "waiting" => Alike(a, [c EXCEPT !.pendingStart = "cancelled"])
  BY <1>3 DEF Alike, Well, FlagsAgree, StartsClean
<1>6. Alike(a, [c EXCEPT !.preemptedQueuedRun = TRUE])
  <2>1. [c EXCEPT !.preemptedQueuedRun = TRUE] \in ActorState
    BY <1>3 DEF Alike, Well
  <2> QED BY <1>3, <2>1 DEF Alike, Well, FlagsAgree, StartsClean
<1> QED BY <1>1, <1>3, <1>4, <1>5, <1>6 DEF PreemptForResponsive, b, c, e

(* An operator's mark set after the start pays for any abort. *)
LEMMA MarkedReplaced ==
  ASSUME NEW a, a.watermark = TRUE, a.startedAfterMark = FALSE
  PROVE  Replaced(a)
  BY DEF Replaced

(* An operator's mark stands for the run it stopped. *)
LEMMA InterruptAlike ==
  ASSUME NEW a, Well(a)
  PROVE  Alike(a, Interrupt(a)) /\ Replaced(Interrupt(a))
<1> USE DEF Places, Starts, ActorState
<1> DEFINE e == [a EXCEPT !.epochMoved = TRUE]
           b == CancelPending(e)
           m == [b EXCEPT !.watermark = TRUE, !.startedAfterMark = FALSE]
           q == IF a.pendingStart = "none" THEN m ELSE CancelQueuedRun(m, TRUE)
<1>1. /\ Alike(a, e) /\ e.at = a.at /\ e.pendingStart = a.pendingStart
      /\ e.executing = a.executing /\ e.running = a.running
  BY ZenonT(30) DEF Alike, Well, FlagsAgree, StartsClean
<1> HIDE DEF e
<1>2. Alike(a, b) /\ b.at = a.at /\ b.executing = a.executing
  BY <1>1, CancelPendingAlike DEF Alike
<1> HIDE DEF b
<1>3. Alike(a, m) /\ m.executing = a.executing /\ m.at = a.at
  <2>1. m \in ActorState
    BY <1>2 DEF Alike, Well
  <2> QED BY <1>2, <2>1 DEF Alike, Well, FlagsAgree, StartsClean
<1>4. m.watermark = TRUE /\ m.startedAfterMark = FALSE
  BY <1>2 DEF Alike, Well
<1> HIDE DEF m
<1>5. CASE InterruptsRunning(a)
  <2>1. Alike(a, [m EXCEPT !.controller = "aborted"])
    BY <1>3, <1>5 DEF InterruptsRunning, Alike, Well, FlagsAgree, StartsClean
  <2>2. Replaced([m EXCEPT !.controller = "aborted"])
    <3>1. /\ [m EXCEPT !.controller = "aborted"].watermark = TRUE
          /\ [m EXCEPT !.controller = "aborted"].startedAfterMark = FALSE
      BY <1>3, <1>4 DEF Alike, Well
    <3> QED BY <3>1, MarkedReplaced
  <2>3. ~InterruptsQueued(a)
    BY <1>5 DEF InterruptsQueued
  <2> QED BY <1>5, <2>1, <2>2, <2>3 DEF Interrupt, e, b, m
<1>6. CASE InterruptsQueued(a)
  <2>1. Alike(a, q) /\ Replaced(q)
    <3>1. Replaced(m)
      BY <1>4 DEF Replaced
    <3> QED BY <1>3, <3>1, CancelQueuedRunAlike DEF Alike
  <2> HIDE DEF q
  <2>2. Alike(a, [q EXCEPT !.queued = FALSE])
    <3>1. [q EXCEPT !.queued = FALSE] \in ActorState
      BY <2>1 DEF Alike, Well
    <3> QED BY <2>1, <3>1 DEF Alike, Well, FlagsAgree, StartsClean
  <2>3. Replaced([q EXCEPT !.queued = FALSE])
    BY <2>1 DEF Alike, Well, Replaced
  <2>4. ~InterruptsRunning(a)
    BY <1>6 DEF InterruptsQueued
  <2> QED BY <1>6, <2>2, <2>3, <2>4 DEF Interrupt, e, b, m, q
<1>7. CASE ~InterruptsRunning(a) /\ ~InterruptsQueued(a)
  <2>1. a.at = "idle"
    BY <1>7 DEF InterruptsRunning, InterruptsQueued, Well, FlagsAgree
  <2>2. Replaced(b)
    BY <1>2, <2>1 DEF Alike, Well, FlagsAgree, Replaced
  <2> QED BY <1>2, <1>7, <2>2 DEF Interrupt, e, b
<1> QED BY <1>5, <1>6, <1>7

(* A closed actor owes nothing. *)
LEMMA CloseWell ==
  ASSUME NEW a, Well(a)
  PROVE  /\ Well(Close(a)) /\ Replaced(Close(a))
         /\ (Close(a)).runEndReported = a.runEndReported
<1> USE DEF Places, Starts, ActorState
<1> DEFINE b == CancelPending(a)
<1>1. Alike(a, b) /\ b.pendingStart = a.pendingStart /\ b.at = a.at
  BY CancelPendingAlike
<1> HIDE DEF b
<1>2. [b EXCEPT !.closed = TRUE, !.nudgeWhileQueued = NoNudge,
                !.pendingStart = IF @ = "waiting" THEN "cancelled" ELSE @] \in ActorState
  BY <1>1, NudgeType, ZenonT(30) DEF Alike, Well
<1>3. Close(a) \in ActorState
  BY <1>2 DEF Close, b
<1> QED BY <1>1, <1>3 DEF Close, b, Alike, Well, FlagsAgree, StartsClean, Replaced

(* Leaving the turn closes the opportunity, whatever its flags were. *)
LEMMA LeaveTurnWell ==
  ASSUME NEW a \in ActorState, a.running, ~a.timer
  PROVE  /\ Well(LeaveTurn(a)) /\ Replaced(LeaveTurn(a))
         /\ (LeaveTurn(a)).runEndReported = TRUE /\ (LeaveTurn(a)).at = "closing"
<1> USE DEF Places, Starts, ActorState
<1>1. LeaveTurn(a) \in ActorState
  BY DEF LeaveTurn
<1> QED BY <1>1 DEF LeaveTurn, Well, FlagsAgree, StartsClean, Replaced

(* The end of a turn leaves the loop idle or at the head of the next.         *)
LEMMA FinishTurnAlike ==
  ASSUME NEW a, Well(a), a.at \in {"ending", "closing"}
  PROVE  Alike(a, FinishTurn(a)) /\ Replaced(FinishTurn(a))
<1> USE DEF Places, Starts, ActorState
<1> DEFINE b == [a EXCEPT !.queued = FALSE, !.executing = FALSE, !.pendingStart = "none"]
           d == [b EXCEPT !.nudgeWhileQueued = NoNudge]
           c == IF ~b.runStartReported /\ b.nudgeWhileQueued # NoNudge
                THEN RunnerRequest(d, b.nudgeWhileQueued) ELSE b
<1>1. Alike(a, b) /\ Ready(b) /\ b.at = a.at /\ b.running
  BY DEF Alike, Well, FlagsAgree, StartsClean, Ready
<1> HIDE DEF b
<1>2. Alike(a, d) /\ Ready(d) /\ d.at = a.at /\ d.running /\ b.nudgeWhileQueued \in Nudge
  BY <1>1, NudgeType DEF Alike, Well, FlagsAgree, StartsClean, Ready
<1> HIDE DEF d
<1>3. Alike(a, RunnerRequest(d, b.nudgeWhileQueued))
  BY <1>2, RunnerRequestAlike DEF Alike
<1>4. Ready(RunnerRequest(d, b.nudgeWhileQueued))
  BY <1>2, NudgeType DEF RunnerRequest, CoalesceKill, Ready, Alike, Well
<1>5. Alike(a, c) /\ Ready(c)
  BY <1>1, <1>3, <1>4
<1> HIDE DEF c
<1>6. Alike(c, LoopAgain(c)) /\ ~(LoopAgain(c)).executing /\ (LoopAgain(c)).at # "admitting"
  BY <1>5, LoopAgainAlike DEF Alike
<1>7. FinishTurn(a) = LoopAgain(c)
  BY DEF FinishTurn, b, c, d
<1> QED BY <1>5, <1>6, <1>7 DEF Alike, Replaced

-----------------------------------------------------------------------------
(* The actor among its rows, its runner and its operators (ActorRun) *)

ActorOK ==
  /\ Well(actor) /\ Replaced(actor)
  /\ terminals = IF actor.runEndReported THEN 1 ELSE 0

HostOK ==
  /\ delivered \subseteq Entries /\ unhandled \subseteq delivered
  /\ seen \subseteq delivered /\ offered \subseteq delivered
  /\ owed \in Wakes
  /\ halted \in BOOLEAN /\ shutdown \in Shutdowns /\ voiceSession \in BOOLEAN
  /\ sinceStart \subseteq delivered /\ sinceMark \subseteq delivered
  /\ disturbances \in 0 .. MaxDisturbances
  /\ lapses \subseteq Lapses

IndInv == ActorOK /\ HostOK

-----------------------------------------------------------------------------
(* A dispatch leaves the actor well and its debts paid: it does nothing, or   *)
(* it ends in a request.                                                      *)
LEMMA DispatchedAlike ==
  ASSUME NEW a, Well(a), NEW rows, NEW session, NEW wake, NEW suppress
  PROVE  LET d == Dispatched(a, rows, session, wake, suppress)
         IN /\ Alike(a, d.actor)
            /\ \/ Replaced(a)
               \/ ~a.closed /\ \E e \in rows \ seen : Kind[e] # "ordinary"
               => Replaced(d.actor)
            /\ d.seen = seen \/ d.seen = seen \cup rows
<1> DEFINE pending  == {e \in rows : Kind[e] # "ordinary"}
           arrived  == pending \ seen
           nudge    == CASE pending = {} -> Ordinary
                         [] \E e \in arrived : Kind[e] = "voice" -> Voice
                         [] OTHER -> Responsive
           preempts == /\ wake = "preempt" /\ ~suppress
                       /\ \E e \in arrived : Kind[e] \in {"interrupt", "voice"}
           b        == IF preempts THEN PreemptForResponsive(a) ELSE a
           held     == session /\ arrived = {}
           d        == Dispatched(a, rows, session, wake, suppress)
<1>1. nudge \in Nudge
  BY NudgeType
<1>2. Alike(a, b)
  BY PreemptForResponsiveAlike DEF Alike
<1> HIDE DEF nudge
<1>3. CASE a.closed \/ rows = {} \/ held
  <2>1. d = [actor |-> a, seen |-> seen, preempts |-> FALSE]
    BY <1>3 DEF Dispatched
  <2>2. (~a.closed /\ \E e \in rows \ seen : Kind[e] # "ordinary") => FALSE
    BY <1>3
  <2> QED BY <2>1, <2>2 DEF Alike
<1>4. CASE ~(a.closed \/ rows = {} \/ held)
  <2>1. d = [actor |-> RequestRun(b, nudge),
             seen |-> IF b.queued THEN seen \cup rows ELSE seen, preempts |-> preempts]
    BY <1>4 DEF Dispatched, nudge
  <2> HIDE DEF b, d
  <2>2. Alike(b, RequestRun(b, nudge)) /\ Replaced(RequestRun(b, nudge))
    BY <1>1, <1>2, <1>4, RequestRunAlike DEF Alike
  <2> QED BY <1>2, <2>1, <2>2 DEF Alike, d
<1> QED BY <1>3, <1>4

(* The same of the action that applies a dispatch. *)
LEMMA DispatchToAlike ==
  ASSUME NEW a, Well(a), NEW rows, NEW session, NEW wake, NEW suppress,
         lapses \subseteq Lapses, DispatchTo(a, rows, session, wake, suppress)
  PROVE  /\ Alike(a, actor')
         /\ \/ Replaced(a)
            \/ ~a.closed /\ \E e \in rows \ seen : Kind[e] # "ordinary"
            => Replaced(actor')
         /\ seen' = seen \/ seen' = seen \cup rows
         /\ lapses' \subseteq Lapses
<1>1. lapses' \subseteq Lapses
  BY DEF DispatchTo, Lapses
<1> QED BY <1>1, DispatchedAlike DEF DispatchTo

(* ResumeWork replays a parked start before it dispatches. *)
LEMMA ResumeWorkAlike ==
  ASSUME IndInv, NEW pool, NEW suppress, ResumeWork(pool, suppress)
  PROVE  /\ Alike(actor, actor') /\ Replaced(actor')
         /\ seen' = seen \/ seen' = seen \cup unhandled
         /\ lapses' \subseteq Lapses
<1> DEFINE a == IF actor.closed \/ pool THEN actor ELSE ResumeCancelledRun(actor)
<1>1. Alike(actor, a) /\ Replaced(a)
  BY ResumeCancelledRunAlike DEF IndInv, ActorOK, Alike
<1> HIDE DEF a
<1>2. CASE unhandled \ seen # {}
  <2>1. DispatchTo(a, unhandled, voiceSession, "preempt", suppress)
    BY <1>2 DEF ResumeWork, a
  <2>2. lapses \subseteq Lapses
    BY DEF IndInv, HostOK
  <2> QED BY <1>1, <2>1, <2>2, DispatchToAlike DEF Alike
<1>3. CASE unhandled \ seen = {}
  BY <1>1, <1>3 DEF ResumeWork, a, IndInv, HostOK
<1> QED BY <1>2, <1>3

(* Boot builds the actor anew, which is as good a state as any to poke it in. *)
LEMMA RehydratedWell ==
  ASSUME NEW a, Well(a)
  PROVE  /\ Well(Rehydrated(a)) /\ Replaced(Rehydrated(a))
         /\ Rehydrated(a).runEndReported = TRUE
<1>1. a.closed \in BOOLEAN
  BY DEF Well, ActorState
<1> QED
  BY <1>1, NudgeType, ZenonT(30)
  DEF Rehydrated, NewActor, Well, ActorState, FlagsAgree, StartsClean, Replaced, Places, Starts

(* Whatever a crash interrupted, the poke at boot leaves the actor well.      *)
LEMMA RestartAlike ==
  ASSUME IndInv, NEW suppress, Restart(suppress)
  PROVE  /\ Well(actor') /\ Replaced(actor') /\ actor'.runEndReported = TRUE
         /\ seen' \subseteq seen \cup unhandled
<1> DEFINE r == Rehydrated(actor)
           d == Dispatched(r, unhandled, voiceSession', "preempt", suppress)
<1>1. Well(r) /\ Replaced(r) /\ r.runEndReported = TRUE
  BY RehydratedWell DEF IndInv, ActorOK
<1>2. actor' = d.actor /\ seen' = d.seen
  BY DEF Restart
<1> HIDE DEF r
<1>3. Alike(r, d.actor) /\ Replaced(d.actor) /\ (d.seen = seen \/ d.seen = seen \cup unhandled)
  BY <1>1, DispatchedAlike
<1> HIDE DEF d
<1> QED
  BY <1>1, <1>2, <1>3 DEF Alike

-----------------------------------------------------------------------------
(* A new actor satisfies the invariant. *)
LEMMA InitOK == Init => IndInv
<1> SUFFICES ASSUME Init PROVE IndInv
  OBVIOUS
<1>1. ActorOK
  BY NudgeType DEF Init, ActorOK, NewActor, Well, ActorState, FlagsAgree, StartsClean,
                   Replaced, Places, Starts
<1>2. HostOK
  <2>1. 0 \in 0 .. MaxDisturbances
    BY MaxDisturbancesAssumption
  <2> QED BY <2>1 DEF Init, HostOK, Wakes, Shutdowns
<1> QED BY <1>1, <1>2 DEF IndInv

(* What the rest of the host makes of a step of the environment. *)
LEMMA EnvironmentHost == IndInv /\ Environment => HostOK'
<1> SUFFICES ASSUME IndInv, Environment PROVE HostOK'
  OBVIOUS
<1> USE MaxDisturbancesAssumption DEF IndInv, HostOK, Wakes, Shutdowns
<1>1. ASSUME NEW e \in Entries, NEW wake \in {"join", "preempt"}, Deliver(e, wake)
      PROVE  HostOK'
  BY <1>1 DEF Deliver, hostVars, history
<1>2. ASSUME NEW e \in Entries, NEW suppress \in BOOLEAN, RunNow(e, suppress)
      PROVE  HostOK'
  <2> DEFINE a == [actor EXCEPT !.watermark = FALSE]
  <2>1. Well(a)
    BY ZenonT(30) DEF ActorOK, Well, ActorState, FlagsAgree, StartsClean
  <2>2. DispatchTo(a, unhandled \cup {e}, voiceSession, "preempt", suppress)
    BY <1>2 DEF RunNow
  <2> HIDE DEF a
  <2>3. lapses' \subseteq Lapses /\ seen' \subseteq seen \cup unhandled \cup {e}
    BY <2>1, <2>2, DispatchToAlike
  <2> QED BY <1>2, <2>3 DEF RunNow, hostVars
<1>3. ASSUME EngageHalt PROVE HostOK'
  BY <1>3 DEF EngageHalt, Disturb, inboxVars, markVars, history
<1>4. ASSUME NEW suppress \in BOOLEAN, LiftHalt(suppress) PROVE HostOK'
  BY <1>4, ResumeWorkAlike DEF LiftHalt, ResumeWork, markVars
<1>5. ASSUME RequestShutdown PROVE HostOK'
  BY <1>5 DEF RequestShutdown, Disturb, inboxVars, markVars, history
<1>6. ASSUME Quiesce PROVE HostOK'
  BY <1>6 DEF Quiesce, inboxVars, markVars, history
<1>7. ASSUME NEW suppress \in BOOLEAN, CancelShutdown(suppress) PROVE HostOK'
  BY <1>7, ResumeWorkAlike DEF CancelShutdown, ResumeWork, markVars
<1>8. ASSUME NEW e \in Entries, HandleElsewhere(e) PROVE HostOK'
  BY <1>8 DEF HandleElsewhere, hostVars, markVars, history
<1>9. ASSUME NEW e \in Entries, NEW suppress \in BOOLEAN, HandleInRun(e, suppress)
      PROVE  HostOK'
  <2>1. lapses' \subseteq Lapses /\ seen' \subseteq seen \cup unhandled
    BY <1>9, DispatchToAlike DEF HandleInRun, ActorOK
  <2> QED BY <1>9, <2>1 DEF HandleInRun, hostVars, markVars
<1>10. ASSUME NEW suppress \in BOOLEAN, OperatorInterrupt(suppress) PROVE HostOK'
  <2>1. Alike(actor, Interrupt(actor))
    BY InterruptAlike DEF ActorOK
  <2>2. seen' \subseteq seen \cup unhandled
    BY <1>10, <2>1, DispatchedAlike DEF OperatorInterrupt, Alike
  <2>3. sinceMark' \subseteq delivered
    BY <1>10 DEF OperatorInterrupt
  <2>4. lapses' \subseteq Lapses
    BY <1>10 DEF OperatorInterrupt, Lapses
  <2> QED BY <1>10, <2>2, <2>3, <2>4 DEF OperatorInterrupt, Disturb, hostVars
<1>11. ASSUME ChangeModel PROVE HostOK'
  BY <1>11 DEF ChangeModel, Disturb, inboxVars, hostVars, markVars, history
<1>12. ASSUME MarkUnkillable PROVE HostOK'
  BY <1>12 DEF MarkUnkillable, inboxVars, hostVars, markVars, history
<1>13. ASSUME BeginVoiceSession PROVE HostOK'
  BY <1>13 DEF BeginVoiceSession, Disturb, inboxVars, markVars, history
<1>14. ASSUME NEW suppress \in BOOLEAN, EndVoiceSession(suppress) PROVE HostOK'
  <2>1. lapses' \subseteq Lapses /\ seen' \subseteq seen \cup unhandled
    BY <1>14, DispatchToAlike DEF EndVoiceSession, ActorOK
  <2> QED BY <1>14, <2>1 DEF EndVoiceSession, markVars
<1>15. ASSUME CloseActor PROVE HostOK'
  BY <1>15 DEF CloseActor, Disturb, inboxVars, hostVars, markVars, history
<1>16. ASSUME VoiceAges PROVE HostOK'
  BY <1>16 DEF VoiceAges, inboxVars, hostVars, markVars, history
<1>17. ASSUME NEW suppress \in BOOLEAN, Restart(suppress) PROVE HostOK'
  <2>1. seen' \subseteq seen \cup unhandled
    BY <1>17, RestartAlike
  <2>2. /\ owed' = "none" /\ shutdown' = "none" /\ voiceSession' = FALSE
        /\ sinceStart' = {} /\ sinceMark' = {} /\ offered' = {} /\ lapses' = {}
        /\ UNCHANGED <<delivered, unhandled, halted>> /\ Disturb
    BY <1>17 DEF Restart
  <2>3. disturbances' \in 0 .. MaxDisturbances
    BY <2>2 DEF Disturb
  <2>4. voiceSession' \in BOOLEAN /\ owed' \in Wakes /\ shutdown' \in Shutdowns
    BY <2>2
  <2>5. /\ seen' \subseteq delivered' /\ unhandled' \subseteq delivered'
        /\ delivered' \subseteq Entries
    BY <2>1, <2>2
  <2>6. halted' \in BOOLEAN /\ offered' \subseteq delivered' /\ lapses' \subseteq Lapses
    BY <2>2
  <2>7. sinceStart' \subseteq delivered' /\ sinceMark' \subseteq delivered'
    BY <2>2
  <2> QED BY ONLY <2>3, <2>4, <2>5, <2>6, <2>7 DEF HostOK
<1> QED
  BY <1>1, <1>2, <1>3, <1>4, <1>5, <1>6, <1>7, <1>8, <1>9, <1>10, <1>11, <1>12, <1>13,
     <1>14, <1>15, <1>16, <1>17 DEF Environment

(* A call that keeps the opportunity and whose debts are paid keeps ActorOK. *)
LEMMA AlikeOK ==
  ASSUME ActorOK, Alike(actor, actor'), Replaced(actor'), terminals' = terminals
  PROVE  ActorOK'
  BY DEF ActorOK, Alike

(* Nothing the mesh, an operator or a delivery does breaks the actor's half.  *)
LEMMA EnvironmentActor == IndInv /\ Environment => ActorOK'
<1> SUFFICES ASSUME IndInv, Environment PROVE ActorOK'
  OBVIOUS
<1> USE DEF IndInv
<1>a. Well(actor) /\ Replaced(actor) /\ lapses \subseteq Lapses
  BY DEF ActorOK, HostOK
<1>b. ASSUME UNCHANGED <<actor, terminals>> PROVE ActorOK'
  BY <1>b DEF ActorOK
<1>1. ASSUME NEW e \in Entries, NEW wake \in {"join", "preempt"}, Deliver(e, wake)
      PROVE  ActorOK'
  BY <1>1, <1>b DEF Deliver, history
<1>2. ASSUME NEW e \in Entries, NEW suppress \in BOOLEAN, RunNow(e, suppress)
      PROVE  ActorOK'
  <2> DEFINE a == [actor EXCEPT !.watermark = FALSE]
  <2>0. a \in ActorState
    BY <1>a DEF Well, ActorState
  <2>1. Alike(actor, a)
    BY <1>a, <2>0 DEF Alike, Well, FlagsAgree, StartsClean, ActorState
  <2> HIDE DEF a
  <2>2. DispatchTo(a, unhandled \cup {e}, voiceSession, "preempt", suppress)
    BY <1>2 DEF RunNow, a
  <2>3. ~a.closed /\ e \in (unhandled \cup {e}) \ seen /\ Kind[e] # "ordinary"
    BY <1>2, <2>1 DEF RunNow, HostOK, Alike
  <2>4. Alike(a, actor') /\ Replaced(actor')
    BY <1>a, <2>1, <2>2, <2>3, DispatchToAlike DEF Alike
  <2> QED BY <1>2, <2>1, <2>4, AlikeOK DEF RunNow, Alike
<1>3. ASSUME EngageHalt PROVE ActorOK'
  BY <1>3, <1>a, <1>b, CancelQueuedRunAlike, AlikeOK DEF EngageHalt, history
<1>4. ASSUME NEW suppress \in BOOLEAN, LiftHalt(suppress) PROVE ActorOK'
  BY <1>4, ResumeWorkAlike, AlikeOK DEF LiftHalt, ResumeWork
<1>5. ASSUME RequestShutdown PROVE ActorOK'
  BY <1>5, <1>b DEF RequestShutdown, history
<1>6. ASSUME Quiesce PROVE ActorOK'
  BY <1>6, <1>b DEF Quiesce, history
<1>7. ASSUME NEW suppress \in BOOLEAN, CancelShutdown(suppress) PROVE ActorOK'
  BY <1>7, ResumeWorkAlike, AlikeOK DEF CancelShutdown, ResumeWork
<1>8. ASSUME NEW e \in Entries, HandleElsewhere(e) PROVE ActorOK'
  <2>1. Alike(actor, CancelQueuedRun(actor, FALSE)) /\ Replaced(CancelQueuedRun(actor, FALSE))
    BY <1>a, CancelQueuedRunAlike
  <2> QED BY <1>8, <1>b, <2>1, AlikeOK DEF HandleElsewhere, history
<1>9. ASSUME NEW e \in Entries, NEW suppress \in BOOLEAN, HandleInRun(e, suppress)
      PROVE  ActorOK'
  BY <1>9, <1>a, DispatchToAlike, AlikeOK DEF HandleInRun
<1>10. ASSUME NEW suppress \in BOOLEAN, OperatorInterrupt(suppress) PROVE ActorOK'
  <2>1. Alike(actor, Interrupt(actor)) /\ Replaced(Interrupt(actor))
    BY <1>a, InterruptAlike
  <2>2. Alike(actor, actor') /\ Replaced(actor')
    BY <1>10, <2>1, DispatchedAlike DEF OperatorInterrupt, Alike
  <2> QED BY <1>10, <2>2, AlikeOK DEF OperatorInterrupt
<1>11. ASSUME ChangeModel PROVE ActorOK'
  <2>1. Alike(actor, CancelQueuedRun(actor, TRUE)) /\ Replaced(CancelQueuedRun(actor, TRUE))
    BY <1>a, CancelQueuedRunAlike
  <2>2. Alike(actor, RescheduleQueuedRun(actor)) /\ Replaced(RescheduleQueuedRun(actor))
    BY <1>a, RescheduleQueuedRunAlike
  <2> QED BY <1>11, <2>1, <2>2, AlikeOK DEF ChangeModel, history
<1>12. ASSUME MarkUnkillable PROVE ActorOK'
  <2>0. [actor EXCEPT !.killable = FALSE] \in ActorState
    BY <1>a DEF Well, ActorState
  <2>1. Alike(actor, [actor EXCEPT !.killable = FALSE])
    BY <1>a, <2>0 DEF Alike, Well, FlagsAgree, StartsClean, ActorState
  <2>2. Replaced([actor EXCEPT !.killable = FALSE])
    BY <1>a DEF Well, ActorState, Replaced
  <2> QED BY <1>12, <2>1, <2>2, AlikeOK DEF MarkUnkillable, history
<1>13. ASSUME BeginVoiceSession PROVE ActorOK'
  BY <1>13, <1>b DEF BeginVoiceSession, history
<1>14. ASSUME NEW suppress \in BOOLEAN, EndVoiceSession(suppress) PROVE ActorOK'
  BY <1>14, <1>a, <1>b, DispatchToAlike, AlikeOK DEF EndVoiceSession
<1>15. ASSUME CloseActor PROVE ActorOK'
  BY <1>15, <1>a, CloseWell DEF CloseActor, history, ActorOK
<1>16. ASSUME VoiceAges PROVE ActorOK'
  <2> DEFINE Aged(n) == IF n = Voice THEN OldVoice ELSE n
             a == [actor EXCEPT !.pendingNudge = Aged(@), !.currentNudge = Aged(@),
                                !.cancelledNudge = Aged(@), !.nudgeWhileQueued = Aged(@)]
  <2>1. \A n \in Nudge : Aged(n) \in Nudge
    BY NudgeType
  <2> HIDE DEF Aged
  <2>2. a \in ActorState
    BY <1>a, <2>1 DEF Well, ActorState
  <2>3. Alike(actor, a) /\ Replaced(a)
    BY <1>a, <2>2 DEF Alike, Well, ActorState, FlagsAgree, StartsClean, Replaced
  <2> QED BY <1>16, <2>3, AlikeOK DEF VoiceAges, history, Aged
<1>17. ASSUME NEW suppress \in BOOLEAN, Restart(suppress) PROVE ActorOK'
  BY <1>17, RestartAlike DEF Restart, ActorOK
<1> QED
  BY <1>1, <1>2, <1>3, <1>4, <1>5, <1>6, <1>7, <1>8, <1>9, <1>10, <1>11, <1>12, <1>13,
     <1>14, <1>15, <1>16, <1>17 DEF Environment

-----------------------------------------------------------------------------
(* The steps of the run itself.  Those that open or close the opportunity     *)
(* move the flag and the count of terminal events together.                   *)
LEMMA AbandonOK ==
  ASSUME NEW a \in ActorState, a.running, ~a.timer, terminals = 0, Abandon(a)
  PROVE  ActorOK'
<1>1. terminals' = 1
  BY DEF Abandon
<1>2. Well(actor') /\ Replaced(actor') /\ actor'.runEndReported = TRUE
  BY LeaveTurnWell DEF Abandon
<1> QED BY <1>1, <1>2 DEF ActorOK

(* A result closes the open opportunity. *)
LEMMA ReportResultOK ==
  ASSUME NEW a \in ActorState, a.running, ~a.timer, ~a.rescheduling,
         a.executing => ~a.queued, a.queued => ~a.runStartReported,
         terminals = 0, ReportResult(a)
  PROVE  ActorOK'
<1> USE DEF ActorState, Places, Starts
<1>1. actor' \in ActorState
  BY DEF ReportResult
<1>2. FlagsAgree(actor') /\ StartsClean(actor') /\ Replaced(actor')
  BY DEF ReportResult, FlagsAgree, StartsClean, Replaced
<1>3. actor'.runEndReported = TRUE /\ terminals' = 1
  BY DEF ReportResult
<1> QED BY <1>1, <1>2, <1>3 DEF Well, ActorOK

(* Nor does a step of the run itself, or a failure of one of its awaits.      *)
LEMMA ProgressActor == IndInv /\ (Progress \/ Setbacks) => ActorOK'
<1> SUFFICES ASSUME IndInv, Progress \/ Setbacks PROVE ActorOK'
  OBVIOUS
<1> USE DEF IndInv
<1>a. Well(actor) /\ Replaced(actor) /\ lapses \subseteq Lapses
  BY DEF ActorOK, HostOK
<1>b. actor.runEndReported = FALSE => terminals = 0
  BY DEF ActorOK
<1>1. ASSUME NEW suppress \in BOOLEAN, Dispatch(suppress) PROVE ActorOK'
  BY <1>1, <1>a, DispatchToAlike, AlikeOK DEF Dispatch
<1>2. ASSUME DebounceFires PROVE ActorOK'
  <2>1. Ready(actor)
    BY <1>2, <1>a DEF DebounceFires, Well, FlagsAgree, Ready, ActorState
  <2>2. Alike(actor, actor') /\ Replaced(actor')
    BY <1>2, <1>a, <2>1, StartLoopAlike DEF DebounceFires, Replaced
  <2> QED BY <1>2, <2>2, AlikeOK DEF DebounceFires, history
<1>3. ASSUME PreflightRefused PROVE ActorOK'
  <2> DEFINE b == [actor EXCEPT !.rescheduling = FALSE,
                                !.cancelledNudge = actor.currentNudge, !.cancelledRun = TRUE]
             c == IF actor.rescheduling THEN b ELSE actor
  <2>1. Alike(actor, b) /\ Ready(b) /\ Ready(actor)
    BY <1>3, <1>a DEF PreflightRefused, Alike, Well, ActorState, FlagsAgree, StartsClean, Ready
  <2> HIDE DEF b
  <2>2. Alike(actor, c) /\ Ready(c)
    BY <1>a, <2>1 DEF Alike
  <2> HIDE DEF c
  <2>3. Alike(actor, LoopAgain(c)) /\ Replaced(LoopAgain(c))
    BY <2>2, LoopAgainAlike DEF Alike, Replaced
  <2>4. actor' = LoopAgain(c)
    BY <1>3 DEF PreflightRefused, b, c
  <2> QED BY <1>3, <2>3, <2>4, AlikeOK DEF PreflightRefused
<1>4. ASSUME PreflightOutdated PROVE ActorOK'
  <2>1. Ready(actor)
    BY <1>4, <1>a DEF PreflightOutdated, Well, FlagsAgree, Ready, ActorState
  <2>2. Alike(actor, actor') /\ Replaced(actor')
    BY <1>4, <1>a, <2>1, LoopAgainAlike DEF PreflightOutdated, Replaced
  <2> QED BY <1>4, <2>2, AlikeOK DEF PreflightOutdated, history
<1>5. ASSUME PreflightPassed PROVE ActorOK'
  <2> USE DEF ActorState, Places, Starts
  <2>1. actor' \in ActorState
    <3>1. [actor EXCEPT !.rescheduling = FALSE, !.runEndReported = FALSE,
                        !.runStartReported = FALSE, !.queued = TRUE,
                        !.startedAfterMark = TRUE, !.at = "announcing"] \in ActorState
      BY <1>a, ZenonT(30) DEF Well
    <3> QED BY <1>5, <3>1 DEF PreflightPassed
  <2>2. FlagsAgree(actor') /\ StartsClean(actor') /\ Replaced(actor')
    <3>1. /\ actor'.at = "announcing" /\ actor'.running /\ ~actor'.timer /\ ~actor'.executing
          /\ actor'.queued /\ ~actor'.rescheduling /\ ~actor'.runStartReported
          /\ ~actor'.runEndReported /\ actor'.pendingStart = "none"
      BY <1>5, <1>a DEF PreflightPassed, Well, FlagsAgree
    <3> QED BY <3>1 DEF FlagsAgree, StartsClean, Replaced
  <2>3. actor'.runEndReported = FALSE /\ terminals' = 0
    BY <1>5, <1>a DEF PreflightPassed, Well
  <2> QED BY <2>1, <2>2, <2>3 DEF Well, ActorOK
<1>6. ASSUME EnterGate PROVE ActorOK'
  <2> USE DEF ActorState, Places, Starts
  <2>1. actor' \in ActorState
    BY <1>6, <1>a DEF EnterGate, Well
  <2>2. Alike(actor, actor') /\ Replaced(actor')
    BY <1>6, <1>a, <2>1 DEF EnterGate, Alike, Well, FlagsAgree, StartsClean, Replaced
  <2> QED BY <1>6, <2>2, AlikeOK DEF EnterGate, history
<1>7. ASSUME Pop PROVE ActorOK'
  <2> DEFINE b == [actor EXCEPT !.pendingStart = "popped"]
  <2>1. b \in ActorState
    BY <1>a DEF Well, ActorState, Starts, Places
  <2>2. Alike(actor, b) /\ Replaced(b)
    BY <1>7, <1>a, <2>1 DEF Pop, Alike, Well, FlagsAgree, StartsClean, Replaced,
                            ActorState, Starts, Places
  <2> QED BY <1>7, <2>2, AlikeOK DEF Pop, history
<1>8. ASSUME PutBack PROVE ActorOK'
  <2> DEFINE b == [actor EXCEPT !.pendingStart = "waiting"]
  <2>1. b \in ActorState
    BY <1>a DEF Well, ActorState, Starts, Places
  <2>2. Alike(actor, b) /\ Replaced(b)
    BY <1>8, <1>a, <2>1 DEF PutBack, Alike, Well, FlagsAgree, StartsClean, Replaced,
                            ActorState, Starts, Places
  <2> QED BY <1>8, <2>2, AlikeOK DEF PutBack, history
<1>9. ASSUME GateStale PROVE ActorOK'
  <2> DEFINE b == [actor EXCEPT !.pendingStart = "stale", !.at = "regating"]
  <2>1. b \in ActorState
    BY <1>a DEF Well, ActorState, Starts, Places
  <2>2. Alike(actor, b) /\ Replaced(b)
    BY <1>9, <1>a, <2>1 DEF GateStale, Alike, Well, FlagsAgree, StartsClean, Replaced,
                            ActorState, Starts, Places
  <2> QED BY <1>9, <2>2, AlikeOK DEF GateStale, history
<1>10. ASSUME Regate PROVE ActorOK'
  <2> DEFINE b == [actor EXCEPT !.pendingStart = "waiting", !.at = "gated"]
  <2>1. b \in ActorState
    BY <1>a DEF Well, ActorState, Starts, Places
  <2>2. Alike(actor, b) /\ Replaced(b)
    BY <1>10, <1>a, <2>1 DEF Regate, Alike, Well, FlagsAgree, StartsClean, Replaced,
                            ActorState, Starts, Places
  <2> QED BY <1>10, <2>2, AlikeOK DEF Regate, history
<1>11. ASSUME Invoke PROVE ActorOK'
  <2> DEFINE p == Invoked(actor)
             b == [p EXCEPT !.at = "admitting"]
  <2> USE DEF ActorState, Places, Starts
  <2>1. /\ p \in ActorState /\ p.running /\ p.runEndReported = FALSE
        /\ p.at = "gated" /\ ~p.executing /\ ~p.timer /\ p.controller = "live"
        /\ ~p.rescheduling /\ p.pendingStart = "none" /\ ~p.queued /\ p.closed = actor.closed
    BY <1>11, <1>a, NudgeType DEF Invoke, Invoked, Well, FlagsAgree, StartsClean
  <2>2. actor.runEndReported = FALSE
    BY <1>11, <1>a DEF Invoke, Well, FlagsAgree
  <2>3. Abandon(p) \/ (actor' = b /\ terminals' = terminals)
    BY <1>11 DEF Invoke
  <2> HIDE DEF p
  <2>4. b \in ActorState
    BY <2>1
  <2>5. Alike(actor, b) /\ Replaced(b)
    BY <2>1, <2>2, <2>4 DEF Alike, Well, FlagsAgree, StartsClean, Replaced
  <2> HIDE DEF b
  <2> QED BY <1>b, <2>1, <2>2, <2>3, <2>5, AbandonOK, AlikeOK
<1>12. ASSUME RegateRefused PROVE ActorOK'
  <2> DEFINE a == [actor EXCEPT !.cancelledRun = TRUE]
  <2>1. a \in ActorState /\ a.running /\ ~a.timer /\ actor.runEndReported = FALSE
    BY <1>12, <1>a DEF RegateRefused, Well, FlagsAgree, ActorState
  <2> QED BY <1>12, <1>b, <2>1, AbandonOK DEF RegateRefused
<1>13. ASSUME MountFails \/ Unwind \/ AdmissionRefused PROVE ActorOK'
  <2>1. actor \in ActorState /\ actor.running /\ ~actor.timer /\ actor.runEndReported = FALSE
    BY <1>13, <1>a DEF MountFails, Unwind, AdmissionRefused, Well, FlagsAgree, ActorState
  <2> QED BY <1>13, <1>b, <2>1, AbandonOK DEF MountFails, Unwind, AdmissionRefused
<1>14. ASSUME GateFails PROVE ActorOK'
  <2> DEFINE p == Invoked(actor)
             q == [actor EXCEPT !.pendingStart = "stale"]
             Fields(a) == /\ a \in ActorState /\ a.pendingStart \in {"none", "stale"}
                          /\ a.running /\ a.runEndReported = FALSE /\ ~a.executing
                          /\ ~a.timer /\ ~a.rescheduling /\ ~a.runStartReported
                          /\ a.closed = actor.closed
  <2> USE DEF ActorState, Places, Starts
  <2>0. /\ actor \in ActorState /\ actor.running /\ actor.runEndReported = FALSE
        /\ ~actor.executing /\ ~actor.timer /\ ~actor.rescheduling /\ ~actor.runStartReported
    BY <1>14, <1>a DEF GateFails, Well, FlagsAgree, StartsClean
  <2>1. Fields(p) /\ Fields(q)
    BY <2>0, NudgeType DEF Invoked
  <2>2. (\E a \in {p, q} : actor' = [a EXCEPT !.at = "failing"]) /\ terminals' = terminals
    BY <1>14 DEF GateFails
  <2> HIDE DEF p, q, Fields
  <2>3. PICK a : Fields(a) /\ actor' = [a EXCEPT !.at = "failing"]
    BY <2>1, <2>2
  <2> USE DEF Fields
  <2> DEFINE b == [a EXCEPT !.at = "failing"]
  <2>4. b \in ActorState
    BY <2>3
  <2>5. Alike(actor, b) /\ Replaced(b)
    BY <2>0, <2>3, <2>4 DEF Alike, Well, FlagsAgree, StartsClean, Replaced
  <2> QED BY <2>2, <2>3, <2>5, AlikeOK
<1>15. ASSUME Start PROVE ActorOK'
  <2> DEFINE mark == actor.watermark /\ ~actor.startedAfterMark
             a == [actor EXCEPT !.executing = TRUE, !.at = "starting", !.watermark = mark]
  <2> USE DEF ActorState, Places, Starts
  <2>1. mark \in BOOLEAN
    OBVIOUS
  <2>2. actor' = a
    BY <1>15, <1>a DEF Start, Well
  <2> HIDE DEF mark
  <2>3. a \in ActorState
    BY <1>a, <2>1 DEF Well
  <2>4. Alike(actor, a)
    BY <1>15, <1>a, <2>3 DEF Start, Alike, Well, FlagsAgree, StartsClean
  <2>5. Replaced(a)
    BY <1>15, <1>a DEF Start, Well, Replaced, mark
  <2> QED BY <1>15, <2>2, <2>4, <2>5, AlikeOK DEF Start
<1>16. ASSUME ProviderReturns \/ FailureReported PROVE ActorOK'
  <2>1. /\ actor \in ActorState /\ actor.running /\ ~actor.timer
        /\ actor.runEndReported = FALSE /\ ~actor.rescheduling
        /\ actor.executing => ~actor.queued
        /\ actor.queued => ~actor.runStartReported
    BY <1>16, <1>a
       DEF ProviderReturns, FailureReported, Well, FlagsAgree, StartsClean, ActorState
  <2> QED BY <1>16, <1>b, <2>1, AbandonOK, ReportResultOK DEF ProviderReturns, FailureReported
<1>17. ASSUME StartReported PROVE ActorOK'
  <2> DEFINE a == [actor EXCEPT !.runStartReported = TRUE, !.at = "running"]
  <2>1. a \in ActorState
    BY <1>a DEF Well, ActorState, Places
  <2>2. Alike(actor, a) /\ Replaced(a)
    BY <1>17, <1>a, <2>1 DEF StartReported, Alike, Well, FlagsAgree, StartsClean, Replaced,
                            ActorState, Places
  <2> QED BY <1>17, <2>2, AlikeOK DEF StartReported, history
<1>18. ASSUME EndReported \/ AbandonReported PROVE ActorOK'
  <2>1. actor.at \in {"ending", "closing"} /\ actor.runEndReported
    BY <1>18, <1>a DEF EndReported, AbandonReported, Well, FlagsAgree
  <2>2. actor' = FinishTurn(actor) /\ terminals' = terminals
    BY <1>18, <2>1 DEF EndReported, AbandonReported, history
  <2> QED BY <1>a, <2>1, <2>2, FinishTurnAlike, AlikeOK
<1>19. ASSUME RunFails PROVE ActorOK'
  <2> DEFINE a == [actor EXCEPT !.at = "failing"]
  <2>1. a \in ActorState
    BY <1>a DEF Well, ActorState, Places
  <2>2. /\ Alike(actor, a) /\ Replaced(a)
        /\ actor \in ActorState /\ actor.running /\ ~actor.timer /\ actor.runEndReported = FALSE
    BY <1>19, <1>a, <2>1 DEF RunFails, Alike, Well, FlagsAgree, StartsClean, Replaced,
                             ActorState, Places
  <2>3. Abandon(actor) \/ (actor' = a /\ terminals' = terminals)
    BY <1>19 DEF RunFails
  <2> HIDE DEF a
  <2> QED BY <1>b, <2>2, <2>3, AbandonOK, AlikeOK
<1> QED
  BY <1>1, <1>2, <1>3, <1>4, <1>5, <1>6, <1>7, <1>8, <1>9, <1>10, <1>11, <1>12, <1>13,
     <1>14, <1>15, <1>16, <1>17, <1>18, <1>19 DEF Progress, Setbacks

(* The same steps keep the types of the inbox and the host's flags.           *)
LEMMA ProgressHost == IndInv /\ (Progress \/ Setbacks) => HostOK'
<1> SUFFICES ASSUME IndInv, Progress \/ Setbacks PROVE HostOK'
  OBVIOUS
<1> USE MaxDisturbancesAssumption DEF IndInv, HostOK
<1>1. ASSUME NEW suppress \in BOOLEAN, Dispatch(suppress) PROVE HostOK'
  <2>1. lapses' \subseteq Lapses /\ (seen' = seen \/ seen' = seen \cup unhandled)
    BY <1>1, DispatchToAlike DEF Dispatch, ActorOK
  <2> QED BY <1>1, <2>1 DEF Dispatch, hostVars, markVars, Wakes
<1>2. ASSUME DebounceFires \/ PreflightOutdated \/ EnterGate \/ Pop \/ Regate
             \/ StartReported \/ AbandonReported
      PROVE  HostOK'
  BY <1>2 DEF DebounceFires, PreflightOutdated, EnterGate, Pop, Regate, StartReported,
              AbandonReported, inboxVars, hostVars, markVars, history
<1>3. ASSUME PreflightRefused PROVE HostOK'
  BY <1>3 DEF PreflightRefused, inboxVars, hostVars, markVars, Lapses
<1>4. ASSUME PreflightPassed PROVE HostOK'
  BY <1>4 DEF PreflightPassed, hostVars
<1>5. ASSUME Invoke \/ RegateRefused \/ Unwind PROVE HostOK'
  BY <1>5 DEF Invoke, RegateRefused, Unwind, inboxVars, hostVars, markVars
<1>6. ASSUME AdmissionRefused PROVE HostOK'
  BY <1>6 DEF AdmissionRefused, inboxVars, hostVars, markVars, Lapses
<1>7. ASSUME Start PROVE HostOK'
  BY <1>7 DEF Start, inboxVars, hostVars, markVars
<1>8. ASSUME ProviderReturns \/ FailureReported \/ EndReported PROVE HostOK'
  BY <1>8 DEF ProviderReturns, FailureReported, EndReported, inboxVars, hostVars, markVars
<1>9. ASSUME MountFails PROVE HostOK'
  BY <1>9 DEF MountFails, Disturb, inboxVars, hostVars, markVars, Lapses
<1>10. ASSUME PutBack \/ GateStale PROVE HostOK'
  BY <1>10 DEF PutBack, GateStale, Disturb, inboxVars, hostVars, markVars, history
<1>11. ASSUME GateFails PROVE HostOK'
  BY <1>11 DEF GateFails, Disturb, inboxVars, hostVars, markVars
<1>12. ASSUME RunFails PROVE HostOK'
  BY <1>12 DEF RunFails, Disturb, inboxVars, hostVars, markVars
<1> QED
  BY <1>1, <1>2, <1>3, <1>4, <1>5, <1>6, <1>7, <1>8, <1>9, <1>10, <1>11, <1>12
     DEF Progress, Setbacks

(* Every step keeps the invariant. *)
LEMMA StepOK == IndInv /\ [Next]_vars => IndInv'
<1> SUFFICES ASSUME IndInv, [Next]_vars PROVE IndInv'
  OBVIOUS
<1>1. CASE Environment
  BY <1>1, EnvironmentActor, EnvironmentHost DEF IndInv
<1>2. CASE Progress \/ Setbacks
  BY <1>2, ProgressActor, ProgressHost DEF IndInv
<1>3. CASE UNCHANGED vars
  BY <1>3 DEF vars, inboxVars, hostVars, markVars, history, IndInv, ActorOK, HostOK
<1> QED BY <1>1, <1>2, <1>3 DEF Next

(* The inductive invariant holds throughout. *)
THEOREM Inductive == Spec => []IndInv
<1> QED BY InitOK, StepOK, PTL DEF Spec

(* Every field of the actor, of the inbox and of its host keeps its type. *)
THEOREM TypeCorrect == Spec => []TypeOK
<1>1. IndInv => TypeOK
  BY DEF IndInv, ActorOK, HostOK, Well, TypeOK
<1> QED BY <1>1, Inductive, PTL

(* For any inbox and any number of interventions, the flags of Actor and its  *)
(* TriggerRunner agree with the await runOnce and executeTurn stand at.       *)
THEOREM FlagsAlwaysAgree == Spec => []FlagsMatchPlace
<1>1. IndInv => FlagsMatchPlace
  BY DEF IndInv, ActorOK, Well, FlagsMatchPlace
<1> QED BY <1>1, Inductive, PTL

(* Every announced opportunity emits one onEnd, a result or an abandonment,   *)
(* before the next one is announced.                                          *)
THEOREM ExactlyOneTerminal == Spec => []OneTerminal
<1>1. IndInv => OneTerminal
  BY DEF IndInv, ActorOK, Well, FlagsAgree, OneTerminal
<1> QED BY <1>1, Inductive, PTL

(* A run aborted by a preemption or a voice follow-up has left the runner     *)
(* dirty: the run it made way for follows.                                    *)
THEOREM AbortIsPaid == Spec => []AbortedRunReplaced
<1>1. IndInv => AbortedRunReplaced
  BY DEF IndInv, ActorOK, Replaced, AbortedRunReplaced
<1> QED BY <1>1, Inductive, PTL

-----------------------------------------------------------------------------
(* What it takes to strand nothing.  An actor that is not retired keeps every *)
(* row no run was offered in one of four hands: a run on its way, the wake    *)
(* owed to its appender, the brake that will release it, or a voice session.  *)

(* Something will lead to a preflight, or to a start that nobody has stopped. *)
Coming(a) ==
  \/ a.timer \/ a.dirty
  \/ a.at = "preflight" /\ ~a.epochMoved
  \/ a.at \in {"announcing", "regating", "admitting"}
  \/ a.at = "gated" /\ a.pendingStart = "waiting"
  \/ a.at = "gated" /\ a.pendingStart = "popped" /\ ~a.preemptedQueuedRun
  \/ /\ a.at \in {"failing", "ending", "closing"} \/ a.pendingStart = "cancelled"
     /\ a.nudgeWhileQueued # NoNudge /\ ~a.runStartReported

(* The mark of a preemption is on a start that will be invoked and stopped;   *)
(* only a responsive start is neither put back nor rejected as stale.         *)
MarkFits(a) ==
  a.preemptedQueuedRun =>
    a.at = "gated" /\ a.pendingStart = "popped" /\ a.responsive /\ ~a.queued

(* A call that leaves the run where it is, or starts the loop. *)
Beside(a, b) ==
  MarkFits(b) /\ ((b.at = a.at /\ b.executing = a.executing) \/ b.at = "preflight")

(* A run that has started, and has not reported yet. *)
InRun(a) == a.executing /\ a.at \in {"starting", "running", "failing"}

(* A turn that begins is on its way. *)
LEMMA StartLoopComes ==
  ASSUME NEW a, Well(a), Ready(a)
  PROVE  /\ ~a.closed => (StartLoop(a)).at = "preflight" /\ Coming(StartLoop(a))
         /\ (StartLoop(a)).at \in {"idle", "preflight"}
         /\ (StartLoop(a)).preemptedQueuedRun = a.preemptedQueuedRun
         /\ (StartLoop(a)).watermark = a.watermark
         /\ (StartLoop(a)).cancelledRun = a.cancelledRun
  BY DEF StartLoop, RunOnce, Well, ActorState, Coming, Ready

(* A loop asked for more goes on; another stops where it is. *)
LEMMA LoopAgainComes ==
  ASSUME NEW a, Well(a), Ready(a)
  PROVE  /\ ~a.closed /\ a.dirty => Coming(LoopAgain(a))
         /\ (LoopAgain(a)).at \in {"idle", "preflight"}
         /\ (LoopAgain(a)).preemptedQueuedRun = a.preemptedQueuedRun
         /\ (LoopAgain(a)).watermark = a.watermark
         /\ (LoopAgain(a)).cancelledRun = a.cancelledRun
<1>1. CASE a.dirty
  BY <1>1, StartLoopComes DEF LoopAgain
<1>2. CASE ~a.dirty
  BY <1>2 DEF LoopAgain, Well, ActorState
<1> QED BY <1>1, <1>2

(* A request to a runner is a run to come. *)
LEMMA RunnerRequestComes ==
  ASSUME NEW a, Well(a), NEW n \in Nudge, MarkFits(a), ~a.closed
  PROVE  Coming(RunnerRequest(a, n)) /\ Beside(a, RunnerRequest(a, n))
<1> USE DEF ActorState
<1> DEFINE b == [a EXCEPT !.pendingNudge = MergeNudges(@, n)]
<1>1. /\ Well(b) /\ MarkFits(b) /\ b.running = a.running /\ b.at = a.at /\ ~b.closed
      /\ b.pendingStart = a.pendingStart /\ b.executing = a.executing
  BY NudgeType DEF Well, FlagsAgree, StartsClean, MarkFits
<1>2. ~a.running => Ready(b) /\ ~b.preemptedQueuedRun
  BY <1>1 DEF Well, FlagsAgree, Ready, MarkFits
<1> HIDE DEF b
<1>3. CASE a.running
  <2>1. LET c == [b EXCEPT !.dirty = TRUE] IN Coming(c) /\ Beside(b, c)
    BY <1>1 DEF Well, Coming, Beside, MarkFits
  <2>2. a.pendingStart = "none" => Coming(CoalesceKill(b)) /\ Beside(b, CoalesceKill(b))
    BY <1>1 DEF Well, CoalesceKill, Coming, Beside, MarkFits
  <2> QED BY <1>1, <1>3, <2>1, <2>2 DEF RunnerRequest, Beside, b
<1>4. CASE ~a.running
  <2>1. LET c == [b EXCEPT !.timer = TRUE] IN Coming(c) /\ Beside(b, c)
    BY <1>1 DEF Well, Coming, Beside, MarkFits
  <2>2. Coming(StartLoop(b)) /\ Beside(b, StartLoop(b))
    BY <1>1, <1>2, <1>4, StartLoopComes DEF Beside, MarkFits
  <2> QED BY <1>1, <1>4, <2>1, <2>2 DEF RunnerRequest, Beside, b
<1> QED BY <1>3, <1>4

(* So is a request to an actor, which may join a queued run.  A responsive    *)
(* request makes a marked start responsive.                                   *)
LEMMA RequestRunComes ==
  ASSUME NEW a, Well(a), NEW n \in Nudge, ~a.closed,
         a.preemptedQueuedRun =>
           /\ a.at = "gated" /\ a.pendingStart = "popped" /\ ~a.queued
           /\ a.responsive \/ IsResponsive(n)
  PROVE  Coming(RequestRun(a, n)) /\ Beside(a, RequestRun(a, n))
<1> USE DEF ActorState
<1> DEFINE b == IF IsResponsive(n) THEN Promote(a) ELSE a
<1>1. /\ Well(b) /\ MarkFits(b) /\ b.queued = a.queued /\ b.at = a.at /\ ~b.closed
      /\ b.pendingStart = a.pendingStart /\ b.executing = a.executing
  <2>1. [a EXCEPT !.responsive = TRUE] \in ActorState
    BY DEF Well
  <2>2. Promote(a) \in ActorState
    BY <2>1 DEF Promote, Well
  <2>3. /\ Well(Promote(a)) /\ (Promote(a)).queued = a.queued /\ (Promote(a)).at = a.at
        /\ (Promote(a)).pendingStart = a.pendingStart /\ (Promote(a)).closed = a.closed
        /\ (Promote(a)).executing = a.executing
        /\ (Promote(a)).preemptedQueuedRun = a.preemptedQueuedRun
        /\ a.pendingStart = "popped" => (Promote(a)).responsive
    BY <2>2 DEF Promote, Well, FlagsAgree, StartsClean
  <2> QED BY <2>3 DEF MarkFits
<1> HIDE DEF b
<1>2. CASE a.queued
  <2> DEFINE c == [b EXCEPT !.nudgeWhileQueued = MergeNudges(@, n)]
  <2>1. MergeNudges(b.nudgeWhileQueued, n) # NoNudge
    BY <1>1 DEF Well, Nudge, MergeNudges, Bigger, Ordinary, NoNudge
  <2>2. /\ c.nudgeWhileQueued # NoNudge /\ c.at = b.at /\ c.pendingStart = b.pendingStart
        /\ c.runStartReported = b.runStartReported /\ c.queued = b.queued
        /\ c.executing = b.executing
        /\ c.preemptedQueuedRun = b.preemptedQueuedRun /\ c.responsive = b.responsive
    BY <1>1, <2>1 DEF Well
  <2>3. RequestRun(a, n) = c
    BY <1>2 DEF RequestRun, b
  <2> HIDE DEF c
  <2>4. ~b.runStartReported /\ b.at \in {"announcing", "gated", "regating", "failing", "ending"}
        /\ ~b.preemptedQueuedRun
    BY <1>1, <1>2 DEF Well, FlagsAgree, StartsClean, MarkFits
  <2>5. b.at = "gated" => b.pendingStart \in {"waiting", "popped", "cancelled"}
    BY <1>1 DEF Well, FlagsAgree, Starts
  <2> QED BY <1>1, <2>2, <2>3, <2>4, <2>5 DEF Coming, Beside, MarkFits
<1>3. CASE ~a.queued
  <2>1. Coming(RunnerRequest(b, n)) /\ Beside(b, RunnerRequest(b, n))
    BY <1>1, RunnerRequestComes
  <2> QED BY <1>1, <1>3, <2>1 DEF RequestRun, Beside, b
<1> QED BY <1>2, <1>3

(* A preemption marks a start only when it can no longer be cancelled, and    *)
(* only a start that will still be invoked unless the flag outlives it.       *)
LEMMA PreemptMarks ==
  ASSUME NEW a, Well(a), MarkFits(a), ~FlagOutlivesStart(a)
  PROVE  LET b == PreemptForResponsive(a)
         IN /\ b.at = a.at /\ b.executing = a.executing
            /\ b.preemptedQueuedRun =>
                 b.at = "gated" /\ b.pendingStart = "popped" /\ ~b.queued
<1> USE DEF ActorState
<1>1. a.pendingStart \in {"none", "waiting", "popped"} \/ (a.executing /\ a.controller # "none")
  BY DEF FlagOutlivesStart, Well, Starts
<1>2. a.pendingStart # "none" => a.at \in {"gated", "regating", "failing"} /\ ~a.executing
  BY DEF Well, FlagsAgree
<1>3. a.pendingStart = "popped" => a.at = "gated"
  BY <1>2 DEF Well, FlagsAgree
<1> QED BY <1>1, <1>2, <1>3 DEF PreemptForResponsive, CancelPending, Busy, Well, MarkFits

(* A dispatch either does nothing at all or ends in a request; it does        *)
(* nothing for a retired actor, for no rows, and for a voice session that no  *)
(* new row but an ordinary one has reached.                                   *)
Idles(a, rows, session) ==
  a.closed \/ rows = {} \/ (session /\ \A e \in rows \ seen : Kind[e] = "ordinary")

LEMMA DispatchedComes ==
  ASSUME NEW a, Well(a), MarkFits(a), NEW rows, NEW session, NEW wake, NEW suppress,
         (Dispatched(a, rows, session, wake, suppress)).preempts => ~FlagOutlivesStart(a)
  PROVE  LET d == Dispatched(a, rows, session, wake, suppress)
         IN /\ Beside(a, d.actor)
            /\ Idles(a, rows, session) => d.actor = a /\ d.seen = seen
            /\ ~Idles(a, rows, session) => Coming(d.actor)
            /\ InRun(d.actor) => d.seen = seen
            /\ d.seen \subseteq seen \cup rows /\ seen \subseteq d.seen
<1> DEFINE pending  == {e \in rows : Kind[e] # "ordinary"}
           arrived  == pending \ seen
           nudge    == CASE pending = {} -> Ordinary
                         [] \E e \in arrived : Kind[e] = "voice" -> Voice
                         [] OTHER -> Responsive
           preempts == /\ wake = "preempt" /\ ~suppress
                       /\ \E e \in arrived : Kind[e] \in {"interrupt", "voice"}
           b        == IF preempts THEN PreemptForResponsive(a) ELSE a
           held     == session /\ arrived = {}
           d        == Dispatched(a, rows, session, wake, suppress)
<1>1. nudge \in Nudge /\ (preempts => IsResponsive(nudge))
  BY NudgeType DEF IsResponsive, Responsive, Voice, OldVoice
<1>2. held <=> session /\ \A e \in rows \ seen : Kind[e] = "ordinary"
  OBVIOUS
<1>3. CASE Idles(a, rows, session)
  <2>1. d = [actor |-> a, seen |-> seen, preempts |-> FALSE]
    BY <1>2, <1>3 DEF Dispatched, Idles
  <2> QED BY <1>3, <2>1 DEF Beside
<1>4. CASE ~Idles(a, rows, session)
  <2>1. d = [actor |-> RequestRun(b, nudge),
             seen |-> IF b.queued THEN seen \cup rows ELSE seen, preempts |-> preempts]
    BY <1>2, <1>4 DEF Dispatched, Idles
  <2>2. preempts => ~FlagOutlivesStart(a)
    BY <2>1
  <2>3. Well(b) /\ b.closed = a.closed
    BY PreemptForResponsiveAlike DEF Alike
  <2> HIDE DEF nudge
  <2>4. /\ b.at = a.at /\ b.executing = a.executing
        /\ b.preemptedQueuedRun =>
             /\ b.at = "gated" /\ b.pendingStart = "popped" /\ ~b.queued
             /\ b.responsive \/ IsResponsive(nudge)
    BY <1>1, <2>2, PreemptMarks DEF MarkFits
  <2> HIDE DEF b, d
  <2>5. Coming(RequestRun(b, nudge)) /\ Beside(b, RequestRun(b, nudge))
    BY <1>1, <1>4, <2>3, <2>4, RequestRunComes DEF Idles
  <2>6. b.queued => ~InRun(b)
    BY <2>3 DEF InRun, Well, FlagsAgree
  <2> QED BY <1>4, <2>1, <2>4, <2>5, <2>6 DEF Beside, InRun, d
<1> QED BY <1>3, <1>4

(* The same of the action that applies a dispatch, while no wake has lapsed.  *)
LEMMA DispatchToComes ==
  ASSUME NEW a, Well(a), MarkFits(a), NEW rows, NEW session, NEW wake, NEW suppress,
         DispatchTo(a, rows, session, wake, suppress), lapses' = {}
  PROVE  /\ Beside(a, actor')
         /\ Idles(a, rows, session) => actor' = a /\ seen' = seen
         /\ ~Idles(a, rows, session) => Coming(actor')
         /\ InRun(actor') => seen' = seen
         /\ seen' \subseteq seen \cup rows /\ seen \subseteq seen' /\ lapses = {}
<1> DEFINE d == Dispatched(a, rows, session, wake, suppress)
<1>1. actor' = d.actor /\ seen' = d.seen
      /\ lapses' = IF d.preempts /\ FlagOutlivesStart(a)
                   THEN lapses \cup {"double-cancel"} ELSE lapses
  BY DEF DispatchTo
<1>2. d.preempts => ~FlagOutlivesStart(a)
  BY <1>1
<1>3. /\ Beside(a, d.actor)
      /\ Idles(a, rows, session) => d.actor = a /\ d.seen = seen
      /\ ~Idles(a, rows, session) => Coming(d.actor)
      /\ InRun(d.actor) => d.seen = seen
      /\ d.seen \subseteq seen \cup rows /\ seen \subseteq d.seen
  BY <1>2, DispatchedComes
<1> HIDE DEF d
<1> QED BY <1>1, <1>3

(* Cancelling a queued run leaves a marked start alone; a run it parks will   *)
(* be resumed, any other goes on.                                             *)
LEMMA CancelQueuedRunParks ==
  ASSUME NEW a, Well(a), MarkFits(a), NEW retain \in BOOLEAN
  PROVE  LET b == CancelQueuedRun(a, retain)
         IN /\ MarkFits(b) /\ b.at = a.at /\ b.executing = a.executing
            /\ b.watermark = a.watermark
            /\ retain /\ (Coming(a) \/ a.cancelledRun) => Coming(b) \/ b.cancelledRun
<1> USE DEF ActorState, Well
<1>1. CASE a.rescheduling
  <2>1. ~a.preemptedQueuedRun
    BY <1>1 DEF MarkFits, StartsClean
  <2> QED BY <1>1, <2>1 DEF CancelQueuedRun, CancelPending, MarkFits
<1>2. CASE ~a.rescheduling
  BY <1>2 DEF CancelQueuedRun, MarkFits
<1> QED BY <1>1, <1>2

(* A run that is quoted again is on its way again. *)
LEMMA RescheduleQueuedRunComes ==
  ASSUME NEW a, Well(a), MarkFits(a)
  PROVE  LET b == RescheduleQueuedRun(a)
         IN /\ MarkFits(b) /\ b.at = a.at /\ b.executing = a.executing
            /\ b = a \/ Coming(b)
  BY DEF RescheduleQueuedRun, MarkFits, Coming, Well, ActorState

(* So is a parked run that is resumed. *)
LEMMA ResumeCancelledRunComes ==
  ASSUME NEW a, Well(a), MarkFits(a), ~a.closed
  PROVE  LET b == ResumeCancelledRun(a)
         IN Beside(a, b) /\ (a.cancelledRun => Coming(b)) /\ (~a.cancelledRun => b = a)
<1> DEFINE b == [a EXCEPT !.cancelledRun = FALSE, !.cancelledNudge = NoNudge]
           n == Bigger(Ordinary, a.cancelledNudge)
<1>1. Well(b) /\ n \in Nudge /\ MarkFits(b) /\ ~b.closed /\ b.at = a.at
      /\ b.executing = a.executing
  <2>1. n \in Nudge /\ b \in ActorState
    BY NudgeType DEF Well, ActorState
  <2> QED BY <2>1 DEF Well, FlagsAgree, StartsClean, ActorState, MarkFits
<1> HIDE DEF b, n
<1>2. Coming(RunnerRequest(b, n)) /\ Beside(b, RunnerRequest(b, n))
  BY <1>1, RunnerRequestComes
<1>3. CASE a.cancelledRun
  BY <1>1, <1>2, <1>3 DEF ResumeCancelledRun, Beside, b, n
<1>4. CASE ~a.cancelledRun
  BY <1>4 DEF ResumeCancelledRun, Beside
<1> QED BY <1>3, <1>4

(* An interrupt of anything sets the watermark; of nothing, it only clears    *)
(* what was debounced.                                                        *)
LEMMA InterruptMarks ==
  ASSUME NEW a, Well(a), MarkFits(a)
  PROVE  LET b == Interrupt(a)
         IN /\ MarkFits(b) /\ b.at = a.at /\ b.executing = a.executing
            /\ InterruptsRunning(a) =>
                 b.executing /\ b.controller = "aborted" /\ ~b.preemptedQueuedRun
            /\ InterruptsRunning(a) \/ InterruptsQueued(a) => b.watermark
            /\ ~InterruptsRunning(a) /\ ~InterruptsQueued(a) =>
                 /\ b.watermark = a.watermark /\ b.cancelledRun = a.cancelledRun
                 /\ ~a.timer => ~Coming(a)
<1> USE DEF ActorState
<1> DEFINE b == CancelPending([a EXCEPT !.epochMoved = TRUE])
           m == [b EXCEPT !.watermark = TRUE, !.startedAfterMark = FALSE]
           q == CancelQueuedRun(m, TRUE)
<1>1. /\ b \in ActorState /\ Well(b) /\ b.at = a.at /\ b.executing = a.executing
      /\ b.watermark = a.watermark /\ b.cancelledRun = a.cancelledRun
      /\ b.preemptedQueuedRun = a.preemptedQueuedRun /\ MarkFits(b)
  BY NudgeType, ZenonT(30) DEF CancelPending, Well, FlagsAgree, StartsClean, MarkFits
<1> HIDE DEF b
<1>2. /\ m \in ActorState /\ Well(m) /\ m.at = a.at /\ m.executing = a.executing
      /\ m.watermark = TRUE /\ MarkFits(m) /\ m.preemptedQueuedRun = a.preemptedQueuedRun
  <2>1. m \in ActorState
    BY <1>1
  <2> QED BY <1>1, <2>1 DEF Well, FlagsAgree, StartsClean, MarkFits
<1> HIDE DEF m
<1>3. /\ q \in ActorState /\ MarkFits(q) /\ q.at = a.at /\ q.executing = a.executing
      /\ q.watermark = TRUE
  <2>1. TRUE \in BOOLEAN
    OBVIOUS
  <2>2. MarkFits(q) /\ q.at = m.at /\ q.executing = m.executing /\ q.watermark = m.watermark
    BY <1>2, <2>1, CancelQueuedRunParks
  <2>3. q \in ActorState
    BY <1>2, <2>1, CancelQueuedRunAlike DEF Alike, Well
  <2> QED BY <1>2, <2>2, <2>3
<1> HIDE DEF q
<1>4. CASE InterruptsRunning(a)
  <2>1. ~a.preemptedQueuedRun /\ ~InterruptsQueued(a)
    BY <1>4 DEF InterruptsRunning, InterruptsQueued, MarkFits, Well, FlagsAgree
  <2>2. Interrupt(a) = [m EXCEPT !.controller = "aborted"]
    BY <1>4, <2>1 DEF Interrupt, b, m
  <2> QED BY <1>2, <1>4, <2>1, <2>2 DEF InterruptsRunning, MarkFits
<1>5. CASE InterruptsQueued(a)
  <2>1. ~InterruptsRunning(a)
    BY <1>5 DEF InterruptsQueued
  <2>2. \/ Interrupt(a) = [m EXCEPT !.queued = FALSE]
        \/ Interrupt(a) = [q EXCEPT !.queued = FALSE]
    BY <1>5, <2>1 DEF Interrupt, b, m, q
  <2> QED BY <1>2, <1>3, <1>5, <2>1, <2>2 DEF MarkFits
<1>6. CASE ~InterruptsRunning(a) /\ ~InterruptsQueued(a)
  <2>1. Interrupt(a) = b
    BY <1>6 DEF Interrupt, b
  <2>2. a.at = "idle" /\ ~a.dirty /\ a.pendingStart = "none"
    BY <1>6 DEF InterruptsRunning, InterruptsQueued, Well, FlagsAgree, StartsClean
  <2>3. ~a.timer => ~Coming(a)
    BY <2>2 DEF Coming
  <2> QED BY <1>1, <1>6, <2>1, <2>3
<1> QED BY <1>4, <1>5, <1>6

(* What a turn still owed when it was left, it passes on when it ends. *)
LEMMA FinishTurnComes ==
  ASSUME NEW a, Well(a), a.at \in {"ending", "closing"}
  PROVE  LET b == FinishTurn(a)
         IN /\ ~a.closed /\ Coming(a) => Coming(b)
            /\ b.at \in {"idle", "preflight"}
            /\ b.preemptedQueuedRun = a.preemptedQueuedRun
            /\ b.watermark = a.watermark /\ b.cancelledRun = a.cancelledRun
<1> USE DEF ActorState
<1> DEFINE b == [a EXCEPT !.queued = FALSE, !.executing = FALSE, !.pendingStart = "none"]
           d == [b EXCEPT !.nudgeWhileQueued = NoNudge]
           r == RunnerRequest(d, b.nudgeWhileQueued)
           c == IF ~b.runStartReported /\ b.nudgeWhileQueued # NoNudge THEN r ELSE b
<1>1. /\ Well(b) /\ Ready(b) /\ b.at = a.at /\ b.running /\ b.closed = a.closed
      /\ b.dirty = a.dirty /\ b.nudgeWhileQueued = a.nudgeWhileQueued
      /\ b.runStartReported = a.runStartReported /\ b.watermark = a.watermark
      /\ b.cancelledRun = a.cancelledRun /\ b.preemptedQueuedRun = a.preemptedQueuedRun
  BY DEF Well, FlagsAgree, StartsClean, Ready
<1> HIDE DEF b
<1>2. /\ Well(d) /\ Ready(d) /\ d.running /\ b.nudgeWhileQueued \in Nudge
      /\ d.closed = a.closed /\ d.watermark = a.watermark
      /\ d.cancelledRun = a.cancelledRun /\ d.preemptedQueuedRun = a.preemptedQueuedRun
  BY <1>1, NudgeType DEF Well, FlagsAgree, StartsClean, Ready
<1> HIDE DEF d
<1>3. /\ Well(r) /\ Ready(r) /\ r.dirty /\ r.closed = a.closed /\ r.watermark = a.watermark
      /\ r.cancelledRun = a.cancelledRun /\ r.preemptedQueuedRun = a.preemptedQueuedRun
  <2>1. Well(r)
    BY <1>2, RunnerRequestAlike DEF Alike
  <2> QED BY <1>2, <2>1, NudgeType DEF RunnerRequest, CoalesceKill, Ready, Well
<1> HIDE DEF r
<1>4. /\ Well(c) /\ Ready(c) /\ c.closed = a.closed /\ c.watermark = a.watermark
      /\ c.cancelledRun = a.cancelledRun /\ c.preemptedQueuedRun = a.preemptedQueuedRun
  BY <1>1, <1>3
<1>5. Coming(a) => c.dirty
  <2>1. ~a.timer /\ a.pendingStart = "none"
    BY DEF Well, FlagsAgree
  <2>2. Coming(a) => a.dirty \/ (a.nudgeWhileQueued # NoNudge /\ ~a.runStartReported)
    BY <2>1 DEF Coming
  <2> QED BY <1>1, <1>3, <2>2
<1> HIDE DEF c
<1>6. FinishTurn(a) = LoopAgain(c)
  BY DEF FinishTurn, b, d, r, c
<1> QED BY <1>4, <1>5, <1>6, LoopAgainComes

-----------------------------------------------------------------------------
(* The invariant behind NoStrandedWork *)

Visible(e) == actor.watermark => e \in sinceMark

(* In whose hands a row that no run was offered is. *)
Cared(e) ==
  \/ Coming(actor)
  \/ owed # "none" /\ e \notin seen
  \/ Refusing /\ (actor.cancelledRun \/ e \notin seen)
  \/ voiceSession /\ Kind[e] = "ordinary"

InHand == ~actor.closed => \A e \in unhandled \ offered : Visible(e) => Cared(e)

(* What a run under way has not been offered, nobody has looked at since. *)
FreshUnseen == InRun(actor) => unhandled \cap seen \subseteq offered

NothingForgotten == lapses = {} => MarkFits(actor) /\ FreshUnseen /\ InHand

(* An actor with a run to come has every row in hand. *)
LEMMA Scheduled ==
  ASSUME Coming(actor') \/ actor'.closed
  PROVE  InHand'
  BY DEF InHand, Cared

(* So has one whose rows, wakes and brakes are what they were. *)
LEMMA Undisturbed ==
  ASSUME InHand, unhandled' \subseteq unhandled, offered \subseteq offered', seen' = seen,
         sinceMark' = sinceMark, owed' = owed, Refusing => Refusing', voiceSession' = voiceSession,
         actor'.closed = actor.closed, actor'.watermark = actor.watermark,
         actor'.cancelledRun = actor.cancelledRun,
         ~actor.closed /\ Coming(actor) => Coming(actor')
  PROVE  InHand'
<1> SUFFICES ASSUME ~actor'.closed, NEW e \in unhandled' \ offered', Visible(e)'
             PROVE  Cared(e)'
  BY DEF InHand
<1>1. Cared(e)
  BY DEF InHand, Visible
<1> QED BY <1>1 DEF Cared

(* So has one whose wake came to nothing. *)
LEMMA Held ==
  ASSUME InHand, actor' = actor, seen' = seen, unhandled' \subseteq unhandled,
         offered' = offered, sinceMark' = sinceMark, voiceSession' = voiceSession,
         Idles(actor, unhandled', voiceSession), Refusing /\ actor.cancelledRun => Refusing'
  PROVE  InHand'
<1> SUFFICES ASSUME ~actor'.closed, NEW e \in unhandled' \ offered', Visible(e)'
             PROVE  Cared(e)'
  BY DEF InHand
<1>1. Cared(e)
  BY DEF InHand, Visible
<1>2. voiceSession /\ (e \notin seen => Kind[e] = "ordinary")
  BY DEF Idles
<1> QED BY <1>1, <1>2 DEF Cared

(* A dispatch of the whole worklist, whatever it finds. *)
LEMMA DispatchHolds ==
  ASSUME Well(actor), MarkFits(actor), InHand, FreshUnseen, NEW wake, NEW suppress,
         DispatchTo(actor, unhandled', voiceSession, wake, suppress), lapses' = {},
         unhandled' \subseteq unhandled, offered' = offered, sinceMark' = sinceMark,
         voiceSession' = voiceSession, Refusing /\ actor.cancelledRun => Refusing'
  PROVE  MarkFits(actor') /\ FreshUnseen' /\ InHand'
<1> DEFINE rows == unhandled'
<1>1. /\ Beside(actor, actor')
      /\ Idles(actor, rows, voiceSession) => actor' = actor /\ seen' = seen
      /\ ~Idles(actor, rows, voiceSession) => Coming(actor')
      /\ InRun(actor') => seen' = seen
  <2> HIDE DEF rows
  <2>1. DispatchTo(actor, rows, voiceSession, wake, suppress)
    BY DEF rows
  <2> QED BY <2>1, DispatchToComes
<1>2. MarkFits(actor')
  BY <1>1 DEF Beside
<1>3. FreshUnseen'
  BY <1>1 DEF Beside, FreshUnseen, InRun
<1>4. InHand'
  BY <1>1, Scheduled, Held
<1> QED BY <1>2, <1>3, <1>4

(* Work resumed: a parked run is replayed first, unless the pool is halted.   *)
LEMMA ResumeHolds ==
  ASSUME IndInv, MarkFits(actor), InHand, FreshUnseen, NEW pool, NEW suppress,
         ResumeWork(pool, suppress), lapses' = {}, pool => Refusing'
  PROVE  MarkFits(actor') /\ FreshUnseen' /\ InHand'
<1> DEFINE a == IF actor.closed \/ pool THEN actor ELSE ResumeCancelledRun(actor)
<1>0. Well(actor)
  BY DEF IndInv, ActorOK
<1>1. /\ Well(a) /\ Beside(actor, a) /\ a.closed = actor.closed
      /\ ~actor.closed /\ ~pool /\ actor.cancelledRun => Coming(a)
      /\ actor.closed \/ pool \/ ~actor.cancelledRun => a = actor
  <2>1. Beside(actor, actor)
    BY DEF Beside
  <2>2. Alike(actor, ResumeCancelledRun(actor))
    BY <1>0, ResumeCancelledRunAlike
  <2> QED BY <1>0, <2>1, <2>2, ResumeCancelledRunComes DEF Alike
<1>2. /\ UNCHANGED <<unhandled, owed, voiceSession, markVars, offered>>
      /\ IF unhandled \ seen # {}
         THEN DispatchTo(a, unhandled, voiceSession, "preempt", suppress)
         ELSE actor' = a /\ UNCHANGED <<seen, lapses>>
  BY DEF ResumeWork
<1> HIDE DEF a
<1>3. /\ Beside(a, actor') /\ ((actor' = a /\ seen' = seen) \/ Coming(actor'))
      /\ actor' = a =>
           unhandled \subseteq seen \/ Idles(a, unhandled, voiceSession) \/ Coming(actor')
      /\ InRun(actor') => seen' = seen
  <2>1. CASE unhandled \ seen # {}
    BY <1>1, <1>2, <2>1, DispatchToComes DEF Beside
  <2>2. CASE unhandled \ seen = {}
    BY <1>1, <1>2, <2>2 DEF Beside
  <2> QED BY <2>1, <2>2
<1>4. MarkFits(actor')
  BY <1>3 DEF Beside
<1>5. FreshUnseen'
  BY <1>1, <1>2, <1>3 DEF Beside, FreshUnseen, InRun
<1>6. InHand'
  <2> SUFFICES ASSUME ~actor'.closed, ~Coming(actor'),
                      NEW e \in unhandled' \ offered', Visible(e)'
               PROVE  Cared(e)'
    BY Scheduled DEF InHand
  <2>1. actor' = a /\ seen' = seen /\ a = actor /\ (pool \/ ~actor.cancelledRun)
    BY <1>1, <1>3
  <2>2. Cared(e)
    BY <1>2, <2>1 DEF InHand, Visible, markVars
  <2>3. e \notin seen => voiceSession /\ Kind[e] = "ordinary"
    BY <1>2, <1>3, <2>1 DEF Idles
  <2> QED BY <1>2, <2>1, <2>2, <2>3 DEF Cared
<1> QED BY <1>4, <1>5, <1>6

(* Nothing the mesh, an operator or a delivery does forgets a row. *)
LEMMA EnvironmentForgetsNothing == IndInv /\ NothingForgotten /\ Environment => NothingForgotten'
<1> SUFFICES ASSUME IndInv, NothingForgotten, Environment, lapses' = {}
             PROVE  MarkFits(actor') /\ FreshUnseen' /\ InHand'
  BY DEF NothingForgotten
<1> DEFINE Goal == MarkFits(actor') /\ FreshUnseen' /\ InHand'
<1>a. Well(actor)
  BY DEF IndInv, ActorOK
<1>b. lapses = {} => MarkFits(actor) /\ FreshUnseen /\ InHand
  BY DEF NothingForgotten
<1>c. unhandled \subseteq delivered /\ seen \subseteq delivered
  BY DEF IndInv, HostOK
<1>1. ASSUME NEW e \in Entries, NEW wake \in {"join", "preempt"}, Deliver(e, wake) PROVE Goal
  <2>1. MarkFits(actor) /\ FreshUnseen /\ InHand
    BY <1>1, <1>b DEF Deliver, history
  <2>2. MarkFits(actor') /\ FreshUnseen'
    BY <1>1, <1>c, <2>1 DEF Deliver, FreshUnseen, InRun, history
  <2>3. InHand'
    <3> SUFFICES ASSUME ~actor'.closed, NEW f \in unhandled' \ offered', Visible(f)'
                 PROVE  Cared(f)'
      BY DEF InHand
    <3>1. owed' # "none" /\ (owed # "none" => owed' # "none")
      BY <1>1 DEF Deliver
    <3>2. CASE f = e
      BY <1>1, <1>c, <3>1, <3>2 DEF Deliver, Cared
    <3>3. CASE f # e
      <4>1. Cared(f)
        BY <1>1, <2>1, <3>3 DEF Deliver, InHand, Visible, history
      <4> QED BY <1>1, <3>1, <4>1 DEF Deliver, Cared, hostVars, Refusing
    <3> QED BY <3>2, <3>3
  <2> QED BY <2>2, <2>3
<1>2. ASSUME NEW e \in Entries, NEW suppress \in BOOLEAN, RunNow(e, suppress) PROVE Goal
  <2> DEFINE a == [actor EXCEPT !.watermark = FALSE]
             rows == unhandled \cup {e}
  <2>1. DispatchTo(a, rows, voiceSession, "preempt", suppress)
    BY <1>2 DEF RunNow
  <2>2. MarkFits(actor) /\ FreshUnseen
    BY <1>b, <2>1 DEF DispatchTo
  <2>3. /\ Well(a) /\ MarkFits(a) /\ a.at = actor.at /\ a.closed = actor.closed
        /\ a.executing = actor.executing
    <3>1. a \in ActorState
      BY <1>a DEF Well, ActorState
    <3> QED BY <1>a, <2>2, <3>1 DEF Well, ActorState, FlagsAgree, StartsClean, MarkFits
  <2>4. ~Idles(a, rows, voiceSession)
    BY <1>2, <1>c, <2>3 DEF RunNow, Idles
  <2> HIDE DEF a
  <2>5. unhandled' = rows /\ offered' = offered /\ e \notin seen
    BY <1>2, <1>c DEF RunNow
  <2> HIDE DEF rows
  <2>6. /\ Beside(a, actor') /\ Coming(actor')
        /\ InRun(actor') => seen' = seen
    BY <2>1, <2>3, <2>4, DispatchToComes
  <2>7. FreshUnseen'
    BY <2>2, <2>3, <2>5, <2>6 DEF FreshUnseen, InRun, Beside, rows
  <2> QED BY <2>6, <2>7, Scheduled DEF Beside
<1>3. ASSUME EngageHalt PROVE Goal
  <2>1. MarkFits(actor) /\ FreshUnseen /\ InHand
    BY <1>3, <1>b DEF EngageHalt, history
  <2>2. /\ UNCHANGED <<unhandled, seen, owed, voiceSession, sinceMark, offered>> /\ Refusing'
        /\ actor' = IF actor.closed THEN actor ELSE CancelQueuedRun(actor, TRUE)
    BY <1>3 DEF EngageHalt, inboxVars, markVars, history, Refusing
  <2>3. /\ MarkFits(actor') /\ actor'.at = actor.at /\ actor'.watermark = actor.watermark
        /\ actor'.executing = actor.executing
        /\ actor'.closed = actor.closed
        /\ ~actor.closed /\ (Coming(actor) \/ actor.cancelledRun)
             => Coming(actor') \/ actor'.cancelledRun
    BY <1>a, <2>1, <2>2, CancelQueuedRunParks, CancelQueuedRunAlike DEF Alike
  <2>4. FreshUnseen'
    BY <2>1, <2>2, <2>3 DEF FreshUnseen, InRun
  <2>5. InHand'
    BY <2>1, <2>2, <2>3 DEF InHand, Visible, Cared
  <2> QED BY <2>3, <2>4, <2>5
<1>4. ASSUME NEW suppress \in BOOLEAN, LiftHalt(suppress) PROVE Goal
  <2> DEFINE pool == FALSE
  <2>1. ResumeWork(pool, suppress) /\ (pool => Refusing')
    BY <1>4 DEF LiftHalt
  <2> HIDE DEF pool
  <2>2. lapses = {}
    BY <2>1 DEF ResumeWork, DispatchTo
  <2> QED BY <1>b, <2>1, <2>2, ResumeHolds
<1>5. ASSUME RequestShutdown \/ Quiesce \/ BeginVoiceSession PROVE Goal
  <2>1. MarkFits(actor) /\ FreshUnseen /\ InHand
    BY <1>5, <1>b DEF RequestShutdown, Quiesce, BeginVoiceSession, history
  <2>2. UNCHANGED <<actor, unhandled, seen, owed, sinceMark, offered>> /\ (Refusing => Refusing')
    BY <1>5 DEF RequestShutdown, Quiesce, BeginVoiceSession, inboxVars, markVars, history, Refusing
  <2>3. CASE voiceSession' = voiceSession
    BY <2>1, <2>2, <2>3, Undisturbed DEF FreshUnseen, InRun
  <2>4. CASE BeginVoiceSession
    <3>1. ~voiceSession /\ voiceSession' = TRUE
      BY <2>4 DEF BeginVoiceSession
    <3>2. InHand'
      BY <2>1, <2>2, <3>1 DEF InHand, Visible, Cared
    <3> QED BY <2>1, <2>2, <3>2 DEF FreshUnseen, InRun
  <2> QED BY <1>5, <2>3, <2>4 DEF RequestShutdown, Quiesce
<1>6. ASSUME NEW suppress \in BOOLEAN, CancelShutdown(suppress) PROVE Goal
  <2>1. ResumeWork(halted, suppress) /\ (halted => Refusing')
    BY <1>6 DEF CancelShutdown, Refusing
  <2>2. lapses = {}
    BY <2>1 DEF ResumeWork, DispatchTo
  <2> QED BY <1>b, <2>1, <2>2, ResumeHolds
<1>7. ASSUME NEW e \in Entries, HandleElsewhere(e) PROVE Goal
  <2>1. MarkFits(actor) /\ FreshUnseen /\ InHand
    BY <1>7, <1>b DEF HandleElsewhere, history
  <2>2. /\ unhandled' \subseteq unhandled /\ Refusing' = Refusing
        /\ UNCHANGED <<seen, owed, voiceSession, sinceMark, offered>>
    BY <1>7 DEF HandleElsewhere, hostVars, markVars, history, Refusing
  <2>3. CASE actor' = actor
    BY <2>1, <2>2, <2>3, Undisturbed DEF FreshUnseen, InRun
  <2>4. CASE actor' = CancelQueuedRun(actor, FALSE) /\ ~HasRunnableInbox(actor, unhandled')
    <3>1. /\ MarkFits(actor') /\ actor'.at = actor.at /\ actor'.watermark = actor.watermark
          /\ actor'.executing = actor.executing
      BY <1>a, <2>1, <2>4, CancelQueuedRunParks
    <3>2. InHand'
      BY <2>2, <2>4, <3>1 DEF HasRunnableInbox, InHand, Visible
    <3> QED BY <2>1, <2>2, <3>1, <3>2 DEF FreshUnseen, InRun
  <2> QED BY <1>7, <2>3, <2>4 DEF HandleElsewhere
<1>8. ASSUME NEW e \in Entries, NEW suppress \in BOOLEAN, HandleInRun(e, suppress) PROVE Goal
  <2>1. DispatchTo(actor, unhandled', voiceSession, "preempt", suppress)
    BY <1>8 DEF HandleInRun
  <2>2. /\ unhandled' \subseteq unhandled /\ Refusing' = Refusing
        /\ UNCHANGED <<owed, voiceSession, sinceMark, offered>>
    BY <1>8 DEF HandleInRun, hostVars, markVars, Refusing
  <2>3. lapses = {}
    BY <2>1 DEF DispatchTo
  <2> QED BY <1>a, <1>b, <2>1, <2>2, <2>3, DispatchHolds
<1>9. ASSUME NEW suppress \in BOOLEAN, OperatorInterrupt(suppress) PROVE Goal
  <2> DEFINE a == Interrupt(actor)
             fresh == unhandled \cap sinceStart
             d == Dispatched(a, unhandled, voiceSession, "preempt", suppress)
  <2>1. MarkFits(actor) /\ FreshUnseen /\ InHand /\ ~actor.timer
    BY <1>9, <1>b DEF OperatorInterrupt
  <2>2. /\ UNCHANGED <<unhandled, owed, hostVars, offered>>
        /\ sinceMark' = CASE InterruptsRunning(actor) -> sinceStart
                          [] InterruptsQueued(actor)  -> {}
                          [] OTHER -> sinceMark
        /\ IF InterruptsRunning(actor) /\ fresh # {}
           THEN actor' = d.actor /\ seen' = d.seen
           ELSE actor' = a /\ seen' = seen
    BY <1>9 DEF OperatorInterrupt
  <2>3. /\ Well(a) /\ MarkFits(a) /\ a.at = actor.at /\ a.closed = actor.closed
        /\ a.executing = actor.executing
        /\ InterruptsRunning(actor) => a.executing /\ a.controller = "aborted"
        /\ InterruptsRunning(actor) \/ InterruptsQueued(actor) => a.watermark
        /\ ~InterruptsRunning(actor) /\ ~InterruptsQueued(actor) =>
             /\ a.watermark = actor.watermark /\ a.cancelledRun = actor.cancelledRun
             /\ ~Coming(actor)
    BY <1>a, <2>1, InterruptAlike, InterruptMarks DEF Alike
  <2> HIDE DEF a, fresh, d
  <2>4. CASE InterruptsRunning(actor) /\ fresh # {}
    <3>1. ~FlagOutlivesStart(a)
      BY <2>3, <2>4 DEF FlagOutlivesStart
    <3>2. /\ Beside(a, d.actor)
          /\ Idles(a, unhandled, voiceSession) => d.actor = a /\ d.seen = seen
          /\ ~Idles(a, unhandled, voiceSession) => Coming(d.actor)
          /\ InRun(d.actor) => d.seen = seen
      BY <2>3, <3>1, DispatchedComes DEF d
    <3>3. MarkFits(actor') /\ FreshUnseen'
      BY <2>1, <2>2, <2>3, <2>4, <3>2 DEF Beside, FreshUnseen, InRun
    <3>4. InHand'
      <4> SUFFICES ASSUME ~actor'.closed, ~Coming(actor'),
                          NEW e \in unhandled' \ offered', Visible(e)'
                   PROVE  Cared(e)'
        BY Scheduled DEF InHand
      <4>1. InRun(actor)
        BY <1>a, <2>4 DEF InterruptsRunning, InRun, Well, FlagsAgree, StartsClean
      <4>2. e \notin seen
        BY <2>1, <2>2, <4>1 DEF FreshUnseen, InRun
      <4>3. Idles(a, unhandled, voiceSession) /\ actor' = a
        BY <2>2, <2>4, <3>2
      <4>4. voiceSession /\ Kind[e] = "ordinary"
        BY <2>2, <4>2, <4>3 DEF Idles
      <4> QED BY <2>2, <4>4 DEF Cared, hostVars
    <3> QED BY <3>3, <3>4
  <2>5. CASE ~(InterruptsRunning(actor) /\ fresh # {})
    <3>1. actor' = a /\ seen' = seen
      BY <2>2, <2>5
    <3>2. MarkFits(actor') /\ FreshUnseen'
      BY <2>1, <2>2, <2>3, <3>1 DEF FreshUnseen, InRun
    <3>3. CASE InterruptsRunning(actor)
      <4>1. a.watermark /\ sinceMark' = sinceStart /\ fresh = {}
        BY <2>2, <2>3, <2>5, <3>3 DEF InterruptsQueued
      <4> QED BY <2>2, <3>1, <3>2, <4>1 DEF InHand, Visible, fresh
    <3>4. CASE InterruptsQueued(actor)
      <4>1. a.watermark /\ sinceMark' = {}
        BY <2>2, <2>3, <3>4 DEF InterruptsQueued
      <4> QED BY <3>1, <3>2, <4>1 DEF InHand, Visible
    <3>5. CASE ~InterruptsRunning(actor) /\ ~InterruptsQueued(actor)
      <4>1. sinceMark' = sinceMark /\ ~Coming(actor) /\ Refusing' = Refusing
        BY <2>2, <2>3, <3>5 DEF hostVars, Refusing
      <4>2. actor'.watermark = actor.watermark /\ actor'.cancelledRun = actor.cancelledRun
        BY <2>3, <3>1, <3>5
      <4>3. InHand'
        BY <2>1, <2>2, <2>3, <3>1, <4>1, <4>2, Undisturbed DEF hostVars
      <4> QED BY <3>2, <4>3
    <3> QED BY <3>3, <3>4, <3>5
  <2> QED BY <2>4, <2>5
<1>10. ASSUME ChangeModel PROVE Goal
  <2>1. MarkFits(actor) /\ FreshUnseen /\ InHand
    BY <1>10, <1>b DEF ChangeModel, history
  <2>2. /\ UNCHANGED <<unhandled, seen, owed, voiceSession, sinceMark, offered>>
        /\ Refusing' = Refusing
    BY <1>10 DEF ChangeModel, inboxVars, hostVars, markVars, history, Refusing
  <2>3. CASE Refusing /\ actor' = CancelQueuedRun(actor, TRUE)
    <3>1. /\ MarkFits(actor') /\ actor'.at = actor.at /\ actor'.watermark = actor.watermark
          /\ actor'.executing = actor.executing
          /\ actor'.closed = actor.closed
          /\ Coming(actor) \/ actor.cancelledRun => Coming(actor') \/ actor'.cancelledRun
      BY <1>a, <2>1, <2>3, CancelQueuedRunParks, CancelQueuedRunAlike DEF Alike
    <3>2. InHand'
      BY <2>1, <2>2, <2>3, <3>1 DEF InHand, Visible, Cared
    <3> QED BY <2>1, <2>2, <3>1, <3>2 DEF FreshUnseen, InRun
  <2>4. CASE actor' = RescheduleQueuedRun(actor)
    <3>1. /\ MarkFits(actor') /\ actor'.at = actor.at /\ actor'.executing = actor.executing
          /\ actor' = actor \/ Coming(actor')
      BY <1>a, <2>1, <2>4, RescheduleQueuedRunComes
    <3>2. InHand'
      BY <2>1, <2>2, <3>1, Scheduled, Undisturbed
    <3> QED BY <2>1, <2>2, <3>1, <3>2 DEF FreshUnseen, InRun
  <2> QED BY <1>10, <2>3, <2>4 DEF ChangeModel
<1>11. ASSUME MarkUnkillable \/ VoiceAges PROVE Goal
  <2>1. MarkFits(actor) /\ FreshUnseen /\ InHand
    BY <1>11, <1>b DEF MarkUnkillable, VoiceAges, history
  <2>2. /\ UNCHANGED <<unhandled, seen, owed, voiceSession, sinceMark, offered>>
        /\ Refusing' = Refusing
    BY <1>11 DEF MarkUnkillable, VoiceAges, inboxVars, hostVars, markVars, history, Refusing
  <2>3. /\ MarkFits(actor') /\ actor'.at = actor.at /\ actor'.closed = actor.closed
        /\ actor'.executing = actor.executing
        /\ actor'.watermark = actor.watermark /\ actor'.cancelledRun = actor.cancelledRun
        /\ Coming(actor) => Coming(actor')
    <3>1. CASE MarkUnkillable
      BY <1>a, <2>1, <3>1 DEF MarkUnkillable, Well, ActorState, MarkFits, Coming
    <3>2. CASE VoiceAges
      <4> DEFINE Aged(n) == IF n = Voice THEN OldVoice ELSE n
      <4>1. actor' = [actor EXCEPT !.pendingNudge = Aged(@), !.currentNudge = Aged(@),
                                   !.cancelledNudge = Aged(@), !.nudgeWhileQueued = Aged(@)]
        BY <3>2 DEF VoiceAges
      <4>2. Aged(actor.nudgeWhileQueued) = NoNudge => actor.nudgeWhileQueued = NoNudge
        BY DEF OldVoice, NoNudge
      <4> HIDE DEF Aged
      <4> QED BY <1>a, <2>1, <4>1, <4>2 DEF Well, ActorState, MarkFits, Coming
    <3> QED BY <1>11, <3>1, <3>2
  <2>4. InHand'
    BY <2>1, <2>2, <2>3, Undisturbed
  <2> QED BY <2>1, <2>2, <2>3, <2>4 DEF FreshUnseen, InRun
<1>12. ASSUME NEW suppress \in BOOLEAN, EndVoiceSession(suppress) PROVE Goal
  <2> DEFINE session == FALSE
  <2>1. /\ UNCHANGED <<unhandled, owed, sinceMark, offered>> /\ ~voiceSession'
        /\ Refusing' = Refusing
        /\ IF \E e \in unhandled : Kind[e] = "ordinary"
           THEN DispatchTo(actor, unhandled, session, "preempt", suppress)
           ELSE UNCHANGED <<actor, seen, lapses>>
    BY <1>12 DEF EndVoiceSession, markVars, Refusing
  <2>2. lapses = {}
    BY <2>1 DEF DispatchTo
  <2>3. ~session
    OBVIOUS
  <2> HIDE DEF session
  <2>4. CASE \E e \in unhandled : Kind[e] = "ordinary"
    <3>1. /\ Beside(actor, actor')
          /\ Idles(actor, unhandled, session) => actor' = actor /\ seen' = seen
          /\ ~Idles(actor, unhandled, session) => Coming(actor')
          /\ InRun(actor') => seen' = seen
      BY <1>a, <1>b, <2>1, <2>2, <2>4, DispatchToComes
    <3>2. Coming(actor') \/ actor'.closed
      BY <2>3, <2>4, <3>1 DEF Idles
    <3> QED BY <1>b, <2>1, <2>2, <3>1, <3>2, Scheduled DEF Beside, FreshUnseen, InRun
  <2>5. CASE ~\E e \in unhandled : Kind[e] = "ordinary"
    <3>1. UNCHANGED <<actor, seen>>
      BY <2>1, <2>5
    <3> QED BY <1>b, <2>1, <2>2, <2>5, <3>1 DEF FreshUnseen, InRun, InHand, Visible, Cared
  <2> QED BY <2>4, <2>5
<1>13. ASSUME CloseActor PROVE Goal
  <2>1. MarkFits(actor) /\ FreshUnseen
    BY <1>13, <1>b DEF CloseActor, history
  <2>2. actor' = Close(actor) /\ UNCHANGED <<unhandled, seen, offered>>
    BY <1>13 DEF CloseActor, inboxVars, history
  <2>3. /\ MarkFits(actor') /\ actor'.at = actor.at /\ actor'.closed
        /\ actor'.executing = actor.executing
    BY <1>a, <2>1, <2>2 DEF Close, CancelPending, Well, ActorState, MarkFits
  <2> QED BY <2>1, <2>2, <2>3, Scheduled DEF FreshUnseen, InRun
<1>14. ASSUME NEW suppress \in BOOLEAN, Restart(suppress) PROVE Goal
  <2> DEFINE a == Rehydrated(actor)
             session == voiceSession'
             d == Dispatched(a, unhandled, session, "preempt", suppress)
  <2>1. actor' = d.actor /\ unhandled' = unhandled /\ ~session
    BY <1>14 DEF Restart
  <2>2. Well(a)
    BY <1>a, RehydratedWell
  <2>3. MarkFits(a) /\ ~FlagOutlivesStart(a) /\ a.at = "idle"
    BY DEF Rehydrated, NewActor, MarkFits, FlagOutlivesStart
  <2> HIDE DEF a, session
  <2>4. /\ Beside(a, d.actor)
        /\ Idles(a, unhandled, session) => d.actor = a
        /\ ~Idles(a, unhandled, session) => Coming(d.actor)
    BY <2>2, <2>3, DispatchedComes
  <2> HIDE DEF d
  <2>5. MarkFits(actor') /\ FreshUnseen'
    BY <2>1, <2>3, <2>4 DEF Beside, FreshUnseen, InRun
  <2>6. CASE Idles(a, unhandled, session)
    BY <2>1, <2>4, <2>5, <2>6 DEF Idles, InHand
  <2>7. CASE ~Idles(a, unhandled, session)
    BY <2>1, <2>4, <2>5, <2>7, Scheduled
  <2> QED BY <2>6, <2>7
<1> QED
  BY <1>1, <1>2, <1>3, <1>4, <1>5, <1>6, <1>7, <1>8, <1>9, <1>10, <1>11, <1>12, <1>13, <1>14
     DEF Environment

(* Nor does a step of the run itself, or a failure of one of its awaits. *)
LEMMA ProgressForgetsNothing ==
  IndInv /\ NothingForgotten /\ (Progress \/ Setbacks) => NothingForgotten'
<1> SUFFICES ASSUME IndInv, NothingForgotten, Progress \/ Setbacks, lapses' = {}
             PROVE  MarkFits(actor') /\ FreshUnseen' /\ InHand'
  BY DEF NothingForgotten
<1> DEFINE Goal == MarkFits(actor') /\ FreshUnseen' /\ InHand'
<1>a. Well(actor)
  BY DEF IndInv, ActorOK
<1>b. lapses = {} => MarkFits(actor) /\ FreshUnseen /\ InHand
  BY DEF NothingForgotten
<1>c. \A a : a.at \notin {"starting", "running", "failing"} /\ actor' = a => FreshUnseen'
  BY DEF FreshUnseen, InRun
<1>1. ASSUME NEW suppress \in BOOLEAN, Dispatch(suppress) PROVE Goal
  <2>1. DispatchTo(actor, unhandled', voiceSession, owed, suppress)
    BY <1>1 DEF Dispatch
  <2>2. /\ unhandled' = unhandled /\ Refusing' = Refusing
        /\ UNCHANGED <<voiceSession, sinceMark, offered>>
    BY <1>1 DEF Dispatch, hostVars, markVars, Refusing
  <2>3. lapses = {}
    BY <2>1 DEF DispatchTo
  <2> QED BY <1>a, <1>b, <2>1, <2>2, <2>3, DispatchHolds
<1>2. ASSUME DebounceFires PROVE Goal
  <2>1. MarkFits(actor) /\ actor' = StartLoop(actor) /\ lapses = {}
    BY <1>2, <1>b DEF DebounceFires, history
  <2>2. Ready(actor) /\ ~actor.preemptedQueuedRun
    BY <1>2, <1>a, <2>1 DEF DebounceFires, Well, FlagsAgree, Ready, MarkFits, ActorState
  <2>3. /\ ~actor.closed => Coming(actor')
        /\ actor'.at \in {"idle", "preflight"}
        /\ actor'.preemptedQueuedRun = actor.preemptedQueuedRun
    BY <1>a, <2>1, <2>2, StartLoopComes
  <2>4. actor'.closed = actor.closed
    BY <1>a, <2>1, <2>2, StartLoopAlike DEF Alike
  <2> QED BY <1>c, <2>2, <2>3, <2>4, Scheduled DEF MarkFits
<1>3. ASSUME PreflightRefused PROVE Goal
  <2> DEFINE b == [actor EXCEPT !.rescheduling = FALSE,
                                !.cancelledNudge = actor.currentNudge, !.cancelledRun = TRUE]
             c == IF actor.rescheduling THEN b ELSE actor
  <2>1. /\ lapses = {} /\ MarkFits(actor) /\ InHand
        /\ ~actor.rescheduling /\ Refusing => (unhandled \cap seen) \ offered = {}
        /\ UNCHANGED <<unhandled, seen, owed, hostVars, sinceMark, offered>> /\ Refusing' = Refusing
        /\ actor.at = "preflight" /\ ~BeforeRun
        /\ actor' = LoopAgain(c)
    BY <1>3, <1>b DEF PreflightRefused, inboxVars, hostVars, markVars, Refusing
  <2>2. Alike(actor, b) /\ Ready(b) /\ Ready(actor)
        /\ b.cancelledRun = TRUE /\ b.watermark = actor.watermark
        /\ b.preemptedQueuedRun = actor.preemptedQueuedRun
    BY <2>1, <1>a DEF Alike, Well, ActorState, FlagsAgree, StartsClean, Ready
  <2>3. ~actor.preemptedQueuedRun
    BY <2>1 DEF MarkFits
  <2> HIDE DEF b
  <2>4. /\ Well(c) /\ Ready(c) /\ c.closed = actor.closed /\ c.watermark = actor.watermark
        /\ c.preemptedQueuedRun = actor.preemptedQueuedRun
        /\ actor.rescheduling => c.cancelledRun
    BY <1>a, <2>2 DEF Alike
  <2> HIDE DEF c
  <2>5. /\ Alike(c, actor')
        /\ actor'.at \in {"idle", "preflight"}
        /\ actor'.preemptedQueuedRun = c.preemptedQueuedRun
        /\ actor'.watermark = c.watermark /\ actor'.cancelledRun = c.cancelledRun
    BY <2>1, <2>4, LoopAgainAlike, LoopAgainComes
  <2>6. MarkFits(actor') /\ FreshUnseen'
    BY <1>c, <2>3, <2>4, <2>5 DEF MarkFits
  <2>7. InHand'
    <3> SUFFICES ASSUME ~actor'.closed, NEW e \in unhandled' \ offered', Visible(e)'
                 PROVE  Cared(e)'
      BY DEF InHand
    <3>1. HasRunnableInbox(actor, unhandled)
      BY <2>1, <2>4, <2>5 DEF HasRunnableInbox, Visible
    <3>2. Refusing
      BY <2>1, <3>1 DEF BeforeRun
    <3>3. e \notin seen \/ actor.rescheduling
      BY <2>1, <3>2
    <3> QED BY <2>1, <2>4, <2>5, <3>2, <3>3 DEF Cared
  <2> QED BY <2>6, <2>7
<1>4. ASSUME PreflightOutdated PROVE Goal
  <2>1. /\ lapses = {} /\ MarkFits(actor) /\ InHand
        /\ UNCHANGED <<unhandled, seen, owed, voiceSession, sinceMark, offered>>
        /\ Refusing' = Refusing
        /\ actor.at = "preflight" /\ actor.epochMoved /\ actor' = LoopAgain(actor)
    BY <1>4, <1>b DEF PreflightOutdated, inboxVars, hostVars, markVars, history, Refusing
  <2>2. Ready(actor) /\ ~actor.timer /\ ~actor.preemptedQueuedRun /\ actor.pendingStart = "none"
    BY <1>a, <2>1 DEF Well, FlagsAgree, Ready, MarkFits, ActorState
  <2>3. Coming(actor) => actor.dirty
    BY <2>1, <2>2 DEF Coming
  <2>4. /\ Alike(actor, actor')
        /\ ~actor.closed /\ actor.dirty => Coming(actor')
        /\ actor'.at \in {"idle", "preflight"}
        /\ actor'.preemptedQueuedRun = actor.preemptedQueuedRun
        /\ actor'.watermark = actor.watermark /\ actor'.cancelledRun = actor.cancelledRun
    BY <1>a, <2>1, <2>2, LoopAgainAlike, LoopAgainComes
  <2>5. InHand'
    BY <2>1, <2>3, <2>4, Undisturbed DEF Alike
  <2> QED BY <1>c, <2>2, <2>4, <2>5 DEF MarkFits
<1>5. ASSUME PreflightPassed \/ EnterGate \/ Pop \/ PutBack \/ GateStale \/ Regate PROVE Goal
  <2>1. lapses = {} /\ MarkFits(actor)
    BY <1>5, <1>b DEF PreflightPassed, EnterGate, Pop, PutBack, GateStale, Regate, history
  <2>2. ~actor.preemptedQueuedRun \/ Pop
    BY <1>5, <1>a, <2>1 DEF PreflightPassed, EnterGate, PutBack, GateStale, Regate, MarkFits,
                            Well, FlagsAgree
  <2>3. ~actor.preemptedQueuedRun
    BY <2>1, <2>2 DEF Pop, MarkFits
  <2>4. /\ actor'.at \in {"announcing", "gated", "regating"} /\ ~actor'.preemptedQueuedRun
        /\ actor'.at = "gated" => actor'.pendingStart \in {"waiting", "popped"}
    <3>1. CASE PreflightPassed \/ EnterGate
      BY <3>1, <1>a, <2>3 DEF PreflightPassed, EnterGate, Well, ActorState
    <3>2. CASE Pop \/ PutBack \/ GateStale \/ Regate
      BY <3>2, <1>a, <2>3 DEF Pop, PutBack, GateStale, Regate, Well, ActorState
    <3> QED BY <1>5, <3>1, <3>2
  <2> QED BY <1>c, <2>4, Scheduled DEF MarkFits, Coming
<1>6. ASSUME Invoke PROVE Goal
  <2> DEFINE p == Invoked(actor)
  <2>1. /\ lapses = {} /\ InHand /\ MarkFits(actor)
        /\ UNCHANGED <<unhandled, seen, owed, voiceSession, sinceMark, offered>>
        /\ Refusing' = Refusing
        /\ actor.at = "gated" /\ actor.pendingStart = "popped"
        /\ IF actor.closed \/ actor.preemptedQueuedRun
           THEN actor' = LeaveTurn(p) ELSE actor' = [p EXCEPT !.at = "admitting"]
    BY <1>6, <1>b DEF Invoke, Abandon, inboxVars, hostVars, markVars, Refusing
  <2>2. /\ p \in ActorState /\ ~p.preemptedQueuedRun /\ p.dirty = actor.dirty
        /\ p.watermark = actor.watermark /\ p.cancelledRun = actor.cancelledRun
        /\ p.closed = actor.closed
    BY <1>a, NudgeType DEF Invoked, Well, ActorState, Starts
  <2> HIDE DEF p
  <2>3. CASE actor.closed \/ actor.preemptedQueuedRun
    <3>1. /\ actor'.at = "closing" /\ ~actor'.preemptedQueuedRun /\ actor'.dirty = actor.dirty
          /\ actor'.watermark = actor.watermark /\ actor'.cancelledRun = actor.cancelledRun
          /\ actor'.closed = actor.closed
      BY <2>1, <2>2, <2>3, ZenonT(30) DEF LeaveTurn, ActorState
    <3>2. ~actor.timer
      BY <1>a, <2>1 DEF Well, FlagsAgree
    <3>3. ~actor.closed /\ Coming(actor) => Coming(actor')
      BY <2>1, <2>3, <3>1, <3>2 DEF Coming
    <3>4. InHand'
      BY <2>1, <3>1, <3>3, Undisturbed
    <3> QED BY <1>c, <3>1, <3>4 DEF MarkFits
  <2>4. CASE ~(actor.closed \/ actor.preemptedQueuedRun)
    <3>1. actor'.at = "admitting" /\ ~actor'.preemptedQueuedRun
      BY <2>1, <2>2, <2>4 DEF ActorState
    <3> QED BY <1>c, <3>1, Scheduled DEF MarkFits, Coming
  <2> QED BY <2>3, <2>4
<1>7. ASSUME RegateRefused PROVE Goal
  <2>1. /\ lapses = {} /\ MarkFits(actor) /\ actor.at = "regating" /\ ~BeforeRun
        /\ UNCHANGED <<unhandled, seen, owed, hostVars, sinceMark, offered>>
        /\ Refusing' = Refusing
        /\ actor' = LeaveTurn([actor EXCEPT !.cancelledRun = TRUE])
    BY <1>7, <1>b DEF RegateRefused, Abandon, inboxVars, hostVars, markVars, Refusing
  <2>2. /\ actor'.at = "closing" /\ ~actor'.preemptedQueuedRun /\ actor'.cancelledRun
        /\ actor'.watermark = actor.watermark /\ actor'.closed = actor.closed
    BY <1>a, <2>1 DEF LeaveTurn, Well, ActorState, MarkFits
  <2>3. InHand'
    BY <2>1, <2>2 DEF BeforeRun, HasRunnableInbox, InHand, Visible, Cared
  <2> QED BY <1>c, <2>2, <2>3 DEF MarkFits
<1>8. ASSUME Unwind \/ RunFails \/ ProviderReturns \/ FailureReported PROVE Goal
  <2>1. /\ lapses = {} /\ InHand /\ FreshUnseen /\ MarkFits(actor)
        /\ UNCHANGED <<unhandled, seen, owed, voiceSession, sinceMark, offered>>
        /\ Refusing' = Refusing
        /\ Unwind \/ actor.at \in {"starting", "running", "failing"}
    BY <1>8, <1>b DEF Unwind, RunFails, ProviderReturns, FailureReported,
                      inboxVars, hostVars, markVars, Refusing
  <2>2. CASE actor' = LeaveTurn(actor)
    <3>1. /\ actor'.at = "closing" /\ actor'.dirty = actor.dirty /\ actor'.timer = actor.timer
          /\ actor'.nudgeWhileQueued = actor.nudgeWhileQueued
          /\ actor'.runStartReported = actor.runStartReported
          /\ actor'.preemptedQueuedRun = actor.preemptedQueuedRun
          /\ actor'.watermark = actor.watermark /\ actor'.cancelledRun = actor.cancelledRun
          /\ actor'.closed = actor.closed
      BY <1>a, <2>2 DEF LeaveTurn, Well, ActorState
    <3>2. ~actor.preemptedQueuedRun
      BY <2>1 DEF Unwind, MarkFits
    <3>3. \/ actor.at = "gated" /\ actor.pendingStart = "cancelled"
          \/ actor.at \in {"starting", "running"} /\ actor.pendingStart = "none"
          \/ actor.at = "failing" /\ actor.pendingStart \in {"none", "stale"}
      BY <1>a, <2>1 DEF Unwind, Well, FlagsAgree, ActorState, Starts
    <3>4. Coming(actor) => Coming(actor')
      BY <3>1, <3>3 DEF Coming
    <3>5. InHand'
      BY <2>1, <3>1, <3>4, Undisturbed
    <3> QED BY <1>c, <3>1, <3>2, <3>5 DEF MarkFits
  <2>3. CASE /\ actor.at \in {"starting", "running", "failing"}
             /\ ReportResult(actor) \/ actor' = [actor EXCEPT !.at = "failing"]
    <3>1. /\ actor'.at \in {"ending", "failing"} /\ actor'.executing = actor.executing
          /\ actor'.dirty = actor.dirty /\ actor'.timer = actor.timer
          /\ actor'.nudgeWhileQueued = actor.nudgeWhileQueued
          /\ actor'.runStartReported = actor.runStartReported
          /\ actor'.preemptedQueuedRun = actor.preemptedQueuedRun
          /\ actor'.watermark = actor.watermark /\ actor'.cancelledRun = actor.cancelledRun
          /\ actor'.closed = actor.closed
      BY <1>a, <2>3 DEF ReportResult, Well, ActorState
    <3>2. ~actor.preemptedQueuedRun /\ actor.pendingStart # "cancelled"
      BY <1>a, <2>1, <2>3 DEF MarkFits, Well, FlagsAgree
    <3>3. Coming(actor) => Coming(actor')
      BY <2>3, <3>1, <3>2 DEF Coming
    <3>4. InHand'
      BY <2>1, <3>1, <3>3, Undisturbed
    <3> QED BY <2>1, <2>3, <3>1, <3>2, <3>4 DEF MarkFits, FreshUnseen, InRun
  <2> QED BY <1>8, <2>2, <2>3 DEF Unwind, RunFails, ProviderReturns, FailureReported, Abandon
<1>9. ASSUME MountFails PROVE Goal
  BY <1>9 DEF MountFails
<1>10. ASSUME GateFails PROVE Goal
  <2>1. /\ lapses = {} /\ MarkFits(actor) /\ unhandled' \subseteq offered'
        /\ LET a == IF actor.pendingStart = "popped" /\ actor.preemptedQueuedRun
                    THEN Invoked(actor) ELSE [actor EXCEPT !.pendingStart = "stale"]
           IN actor' = [a EXCEPT !.at = "failing"]
    BY <1>10, <1>b DEF GateFails, inboxVars
  <2>2. ~actor'.preemptedQueuedRun /\ actor'.at = "failing"
    BY <1>a, <2>1 DEF Invoked, MarkFits, Well, ActorState
  <2> QED BY <2>1, <2>2 DEF FreshUnseen, InHand, MarkFits
<1>11. ASSUME AdmissionRefused PROVE Goal
  <2>1. /\ lapses = {} /\ MarkFits(actor) /\ ~AdmitRun /\ actor.at = "admitting"
        /\ UNCHANGED <<unhandled, seen, owed, hostVars, sinceMark, offered>>
        /\ actor' = LeaveTurn(actor)
        /\ HasRunnableInbox(actor, unhandled) =>
             \A e \in unhandled \ offered : Kind[e] = "ordinary"
    BY <1>11, <1>b DEF AdmissionRefused, Abandon, inboxVars, markVars
  <2>2. /\ actor'.at = "closing" /\ ~actor'.preemptedQueuedRun
        /\ actor'.watermark = actor.watermark /\ actor'.closed = actor.closed
    BY <1>a, <2>1 DEF LeaveTurn, Well, ActorState, MarkFits
  <2>3. InHand'
    <3> SUFFICES ASSUME NEW e \in unhandled' \ offered', Visible(e)' PROVE Cared(e)'
      BY DEF InHand
    <3>1. HasRunnableInbox(actor, unhandled)
      BY <2>1, <2>2 DEF HasRunnableInbox, Visible
    <3>2. voiceSession /\ Kind[e] = "ordinary"
      BY <2>1, <3>1 DEF AdmitRun
    <3> QED BY <2>1, <3>2 DEF Cared, hostVars
  <2> QED BY <1>c, <2>2, <2>3 DEF MarkFits
<1>12. ASSUME Start PROVE Goal
  <2>1. /\ lapses = {} /\ MarkFits(actor) /\ unhandled' \subseteq offered'
        /\ actor.at = "admitting"
        /\ actor'.preemptedQueuedRun = actor.preemptedQueuedRun
    BY <1>12, <1>a, <1>b DEF Start, inboxVars, Well, ActorState
  <2> QED BY <2>1 DEF FreshUnseen, InRun, InHand, MarkFits
<1>13. ASSUME StartReported PROVE Goal
  <2>1. /\ lapses = {} /\ MarkFits(actor) /\ FreshUnseen /\ InHand /\ actor.at = "starting"
        /\ UNCHANGED <<unhandled, seen, owed, voiceSession, sinceMark, offered>>
        /\ Refusing' = Refusing
    BY <1>13, <1>b DEF StartReported, inboxVars, hostVars, markVars, history, Refusing
  <2>2. /\ actor'.at = "running" /\ actor'.dirty = actor.dirty /\ actor'.timer = actor.timer
        /\ actor'.executing = actor.executing
        /\ actor'.preemptedQueuedRun = actor.preemptedQueuedRun
        /\ actor'.watermark = actor.watermark /\ actor'.cancelledRun = actor.cancelledRun
        /\ actor'.closed = actor.closed
    BY <1>13, <1>a DEF StartReported, Well, ActorState
  <2>3. ~actor.preemptedQueuedRun /\ actor.pendingStart = "none"
    BY <1>a, <2>1 DEF MarkFits, Well, FlagsAgree
  <2>4. Coming(actor) => Coming(actor')
    BY <2>1, <2>2, <2>3 DEF Coming
  <2>5. InHand'
    BY <2>1, <2>2, <2>4, Undisturbed
  <2> QED BY <2>1, <2>2, <2>3, <2>5 DEF MarkFits, FreshUnseen, InRun
<1>14. ASSUME EndReported \/ AbandonReported PROVE Goal
  <2>1. actor.at \in {"ending", "closing"} /\ actor.runEndReported
    BY <1>14, <1>a DEF EndReported, AbandonReported, Well, FlagsAgree
  <2>2. /\ lapses = {} /\ MarkFits(actor) /\ InHand /\ actor' = FinishTurn(actor)
        /\ UNCHANGED <<unhandled, seen, owed, voiceSession, sinceMark, offered>>
        /\ Refusing' = Refusing
    BY <1>14, <1>b, <2>1
       DEF EndReported, AbandonReported, inboxVars, hostVars, markVars, history, Refusing
  <2>3. /\ Alike(actor, actor')
        /\ ~actor.closed /\ Coming(actor) => Coming(actor')
        /\ actor'.at \in {"idle", "preflight"}
        /\ actor'.preemptedQueuedRun = actor.preemptedQueuedRun
        /\ actor'.watermark = actor.watermark /\ actor'.cancelledRun = actor.cancelledRun
    BY <1>a, <2>1, <2>2, FinishTurnAlike, FinishTurnComes
  <2>4. ~actor.preemptedQueuedRun
    BY <2>1, <2>2 DEF MarkFits
  <2>5. InHand'
    BY <2>2, <2>3, Undisturbed DEF Alike
  <2> QED BY <1>c, <2>3, <2>4, <2>5 DEF MarkFits
<1> QED
  BY <1>1, <1>2, <1>3, <1>4, <1>5, <1>6, <1>7, <1>8, <1>9, <1>10, <1>11, <1>12, <1>13, <1>14
     DEF Progress, Setbacks

(* For any inbox and any number of interventions: an actor at rest has no row *)
(* that no run was ever offered and nobody withheld, unless one of the five   *)
(* known lapses has happened since the process booted.                        *)
THEOREM RowsNeverStranded == Spec => []NoStrandedWork
<1> DEFINE Inv == IndInv /\ NothingForgotten
<1>1. Init => Inv
  <2>1. Init => NothingForgotten
    BY DEF Init, NewActor, NothingForgotten, MarkFits, FreshUnseen, InRun, InHand
  <2> QED BY <2>1, InitOK
<1>2. Inv /\ [Next]_vars => Inv'
  <2> SUFFICES ASSUME Inv, [Next]_vars PROVE Inv'
    OBVIOUS
  <2>1. CASE UNCHANGED vars
    <3>1. UNCHANGED <<actor, unhandled, seen, owed, halted, shutdown, voiceSession, sinceMark,
                      offered, lapses>>
      BY <2>1 DEF vars, inboxVars, hostVars, markVars, history
    <3>2. lapses = {} => MarkFits(actor') /\ FreshUnseen' /\ InHand'
      BY <3>1, Undisturbed DEF NothingForgotten, FreshUnseen, InRun, Refusing
    <3> QED BY <3>1, <3>2, StepOK DEF NothingForgotten
  <2>2. CASE Next
    BY <2>2, StepOK, EnvironmentForgetsNothing, ProgressForgetsNothing DEF Next
  <2> QED BY <2>1, <2>2
<1>3. Inv => NoStrandedWork
  <2> SUFFICES ASSUME Inv, lapses = {}, actor.at = "idle", ~actor.timer, owed = "none",
                      NEW e \in Entries, e \in unhandled \ offered, ~Withheld(e)
               PROVE  FALSE
    BY DEF NoStrandedWork, Settled
  <2>1. Well(actor) /\ InHand
    BY DEF IndInv, ActorOK, NothingForgotten
  <2>2. ~actor.dirty /\ actor.pendingStart = "none"
    BY <2>1 DEF Well, FlagsAgree, StartsClean
  <2>3. ~Coming(actor)
    BY <2>2 DEF Coming
  <2>4. ~Cared(e)
    BY <2>3 DEF Cared, Withheld
  <2> QED BY <2>1, <2>4 DEF InHand, Visible, Withheld
<1> QED BY <1>1, <1>2, <1>3, PTL DEF Spec
=============================================================================
