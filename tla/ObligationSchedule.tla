--------------------------- MODULE ObligationSchedule ---------------------------
(***************************************************************************)
(* Deadlines of obligations and the host jobs that keep them               *)
(* (db/repositories/obligation-repository.ts, actor/os-scheduler.ts).  The *)
(* row in the database says when a snooze ends or a recurring obligation   *)
(* is ready again; nothing in the process counts the time.  After each     *)
(* commit the process derives one `at' job or one crontab block from the   *)
(* row; the host runs it and the job calls back.  The write of a job may   *)
(* fail, the job of an earlier deadline may call back, the process may be  *)
(* down when the call comes, and the standalone dashboard commits to the   *)
(* same database with no scheduler attached.                               *)
(*                                                                         *)
(* Time runs in half minutes, so that a deadline may carry seconds while   *)
(* `at' keeps minutes.  Whether an active row is ready or waiting is       *)
(* ObligationGraph's business.  atd, cron and curl are external.           *)
(***************************************************************************)
EXTENDS Naturals, FiniteSets

CONSTANTS
  Row,
  Interval,          \* recurrence_interval_seconds of the completion-interval rows
  CronEvery,         \* the period of the cron rows
  MaxTime,           \* bound: the last half minute
  MaxEdits,          \* bound: commands of owners, here and in the dashboard
  MaxWriteFailures,  \* bound: failed writes of host jobs
  MaxCrashes         \* bound: deaths of the process

ASSUME ScheduleAssumption ==
  /\ IsFiniteSet(Row)
  /\ Interval \in Nat \ {0} /\ CronEvery \in Nat \ {0} /\ CronEvery % 2 = 0
  /\ MaxTime \in Nat /\ MaxEdits \in Nat /\ MaxWriteFailures \in Nat /\ MaxCrashes \in Nat

Time     == 0 .. MaxTime
Never    == MaxTime + 1
Deadline == Time \cup {Never}

VARIABLES
  rowStatus,     \* active (ready or waiting), scheduled or closed
  policy,        \* recurrence_policy
  snooze,        \* snoozed_until
  next,          \* next_ready_at
  completedAt,   \* of the last completion
  atJobs,        \* the at queue: <<row, minute it runs at>>
  crontab,       \* rows with a block in the crontab
  calls,         \* rows whose callback is on its way
  up, dirty,     \* the process; dirtyScheduleIds
  retries,       \* attempts left of scheduleReconcileRetry
  now, edits, failures, crashes,
  gaveUp,        \* history: rows whose last job write failed for good, with a warning
  elsewhere      \* history: rows the dashboard changed since their job was derived

row == <<rowStatus, policy, snooze, next, completedAt>>
host == <<atJobs, crontab>>
process == <<up, dirty, retries>>
bounds == <<edits, failures, crashes>>
scheduleHistory == <<gaveUp, elsewhere>>
scheduleVars == <<row, host, calls, process, now, bounds, scheduleHistory>>

ScheduleTypeOK ==
  /\ rowStatus \in [Row -> {"active", "scheduled", "closed"}]
  /\ policy \in [Row -> {"none", "cron", "interval"}]
  /\ snooze \in [Row -> Deadline] /\ next \in [Row -> Deadline] /\ completedAt \in [Row -> Time]
  /\ atJobs \subseteq Row \X Time /\ crontab \subseteq Row /\ calls \subseteq Row
  /\ up \in BOOLEAN /\ dirty \subseteq Row /\ retries \in [Row -> 0 .. 2]
  /\ now \in Time
  /\ gaveUp \subseteq Row /\ elsewhere \subseteq Row
  /\ \A o \in Row : rowStatus[o] = "scheduled" <=> next[o] # Never

ScheduleInit ==
  /\ rowStatus = [o \in Row |-> "active"] /\ policy \in [Row -> {"none", "cron", "interval"}]
  /\ snooze = [o \in Row |-> Never] /\ next = [o \in Row |-> Never]
  /\ completedAt = [o \in Row |-> 0]
  /\ atJobs = {} /\ crontab = {o \in Row : policy[o] = "cron"} /\ calls = {}
  /\ up = TRUE /\ dirty = {} /\ retries = [o \in Row |-> 0]
  /\ now = 0 /\ edits = 0 /\ failures = 0 /\ crashes = 0
  /\ gaveUp = {} /\ elsewhere = {}

-----------------------------------------------------------------------------
(* Time *)

(* `at' drops the seconds of a run time. *)
atRunInstant(d) == d - (d % 2)

isDeadlineDueExactly(d) == d # Never /\ now >= d          \* mutant
isDeadlineDue(d) == d # Never /\ now >= atRunInstant(d)

nextCronOccurrence(t) == CHOOSE n \in (t + 1) .. (t + CronEvery) : n % CronEvery = 0

-----------------------------------------------------------------------------
(* activationPlan, and the host jobs derived from it *)

PlannedAt(o) ==
  IF rowStatus[o] = "closed" THEN Never
  ELSE IF snooze[o] # Never THEN snooze[o]
  ELSE IF policy[o] # "cron" THEN next[o] ELSE Never

PlannedCron(o) == rowStatus[o] # "closed" /\ snooze[o] = Never /\ policy[o] = "cron"

JobsOf(Os)   == {j \in atJobs : j[1] \in Os}
Wanted(Os)   == {<<o, atRunInstant(PlannedAt(o))>> : o \in {o \in Os : PlannedAt(o) # Never}}
InstalledUnlessThere(Os) ==                              \* mutant
  /\ atJobs' = atJobs \cup {w \in Wanted(Os) : JobsOf({w[1]}) = {}}
  /\ crontab' = (crontab \ Os) \cup {o \in Os : PlannedCron(o)}

Installed(Os) ==
  /\ atJobs' = (atJobs \ JobsOf(Os)) \cup Wanted(Os)
  /\ crontab' = (crontab \ Os) \cup {o \in Os : PlannedCron(o)}

(* A write that fails leaves what was there, or the replacement beside it: the *)
(* new job is installed before the stale ones are removed.                     *)
InstalledInPart(o) ==
  \/ UNCHANGED host
  \/ /\ atJobs' = atJobs \cup Wanted({o})
     /\ crontab' \in {crontab \cup {x \in {o} : PlannedCron(x)},
                      IF PlannedCron(o) THEN crontab \cup {o} ELSE crontab \ {o}}

WriteFailure == failures < MaxWriteFailures /\ failures' = failures + 1

(* reconcileObligationSchedule after the commit. *)
Flush(o) ==
  /\ up /\ o \in dirty
  /\ dirty' = dirty \ {o}
  /\ \/ /\ Installed({o})
        /\ gaveUp' = gaveUp \ {o} /\ elsewhere' = elsewhere \ {o}
        /\ UNCHANGED <<retries, failures>>
     \/ /\ WriteFailure /\ InstalledInPart(o)
        /\ retries' = [retries EXCEPT ![o] = 2]
        /\ UNCHANGED scheduleHistory
  /\ UNCHANGED <<row, calls, up, now, edits, crashes>>

(* scheduleReconcileRetry: a timer, so it re-derives whatever the row is then. *)
Retry(o) ==
  /\ up /\ dirty = {} /\ retries[o] > 0
  /\ \/ /\ Installed({o})
        /\ retries' = [retries EXCEPT ![o] = 0]
        /\ gaveUp' = gaveUp \ {o} /\ elsewhere' = elsewhere \ {o}
        /\ UNCHANGED failures
     \/ /\ WriteFailure /\ InstalledInPart(o)
        /\ retries' = [retries EXCEPT ![o] = @ - 1]
        /\ gaveUp' = IF retries[o] = 1 THEN gaveUp \cup {o} ELSE gaveUp
        /\ UNCHANGED elsewhere
  /\ UNCHANGED <<row, calls, up, dirty, now, edits, crashes>>

-----------------------------------------------------------------------------
(* Transitions of a row *)

ActivateKeepingNext(o) ==                                \* mutant
  rowStatus' = [rowStatus EXCEPT ![o] = "active"] /\ UNCHANGED next

ActivateRow(o) ==
  /\ rowStatus' = [rowStatus EXCEPT ![o] = "active"] /\ next' = [next EXCEPT ![o] = Never]

releaseSnooze(o) ==
  /\ snooze' = [snooze EXCEPT ![o] = Never]
  /\ IF isDeadlineDue(next[o]) THEN ActivateRow(o) ELSE UNCHANGED <<rowStatus, next>>
  /\ UNCHANGED <<policy, completedAt>>

Close(o) ==
  /\ rowStatus' = [rowStatus EXCEPT ![o] = "closed"] /\ policy' = [policy EXCEPT ![o] = "none"]
  /\ snooze' = [snooze EXCEPT ![o] = Never] /\ next' = [next EXCEPT ![o] = Never]
  /\ UNCHANGED completedAt

(* setTerminalStatus(done) of a recurring row. *)
Recycle(o) ==
  LET due == IF policy[o] = "cron" THEN nextCronOccurrence(now) ELSE now + Interval IN
  /\ due \in Time
  /\ rowStatus' = [rowStatus EXCEPT ![o] = "scheduled"] /\ next' = [next EXCEPT ![o] = due]
  /\ completedAt' = [completedAt EXCEPT ![o] = now]
  /\ UNCHANGED <<policy, snooze>>

Complete(o) == rowStatus[o] = "active" /\ IF policy[o] = "none" THEN Close(o) ELSE Recycle(o)
Cancel(o)   == rowStatus[o] # "closed" /\ Close(o)

-----------------------------------------------------------------------------
(* Commands to the process.  `dirty' is flushed before the next one.         *)

Idle      == up /\ dirty = {}
Edit      == edits < MaxEdits /\ edits' = edits + 1
MarkNone(Os) == UNCHANGED dirty                           \* mutant
Mark(Os)  == dirty' = dirty \cup Os
Committed == UNCHANGED <<host, calls, up, retries, now, failures, crashes, scheduleHistory>>

setSnooze(o, d) ==
  /\ Idle /\ Edit /\ rowStatus[o] # "closed" /\ d > now
  /\ snooze' = [snooze EXCEPT ![o] = d]
  /\ Mark({o}) /\ Committed
  /\ UNCHANGED <<rowStatus, policy, next, completedAt>>

clearSnooze(o) ==
  /\ Idle /\ Edit /\ rowStatus[o] # "closed"
  /\ IF snooze[o] # Never THEN releaseSnooze(o) ELSE UNCHANGED row
  /\ Mark({o}) /\ Committed

setTerminalStatusOf(o) ==
  /\ Idle /\ Edit
  /\ \/ /\ Complete(o)
        /\ Mark({x \in {o} : policy[x] = "interval" \/ (policy[x] = "none" /\ snooze[x] # Never)})
     \/ /\ Cancel(o)
        /\ Mark({x \in {o} : policy[x] # "none" \/ snooze[x] # Never})
  /\ Committed

setRecurrence(o, p) ==
  /\ Idle /\ Edit /\ rowStatus[o] # "closed"
  /\ IF p = "none" /\ rowStatus[o] = "scheduled" THEN Close(o)
     ELSE /\ policy' = [policy EXCEPT ![o] = p]
          /\ LET due == IF p = "cron" THEN nextCronOccurrence(now) ELSE completedAt[o] + Interval
             IN IF rowStatus[o] # "scheduled" THEN UNCHANGED <<rowStatus, next>>
                ELSE IF p = "interval" /\ due <= now THEN ActivateRow(o)
                ELSE due \in Time /\ next' = [next EXCEPT ![o] = due] /\ UNCHANGED rowStatus
          /\ UNCHANGED <<snooze, completedAt>>
  /\ Mark({o}) /\ Committed

(* Strict yield ends the snoozes that came due during a run. *)
expireDueSnoozes(o) ==
  /\ Idle /\ rowStatus[o] # "closed" /\ isDeadlineDue(snooze[o])
  /\ releaseSnooze(o)
  /\ Mark({o}) /\ Committed /\ UNCHANGED edits

(* The callback: acts on what is due now, whichever job made it. *)
wakeScheduled(o) ==
  /\ Idle /\ o \in calls
  /\ calls' = calls \ {o}
  /\ CASE rowStatus[o] # "closed" /\ snooze[o] # Never ->
            IF isDeadlineDue(snooze[o]) THEN releaseSnooze(o) /\ Mark({o})
            ELSE Mark({o}) /\ UNCHANGED row
       [] rowStatus[o] = "scheduled" /\ snooze[o] = Never ->
            IF isDeadlineDue(next[o])
            THEN ActivateRow(o) /\ UNCHANGED <<policy, snooze, completedAt, dirty>>
            ELSE Mark({o}) /\ UNCHANGED row
       [] OTHER -> UNCHANGED <<row, dirty>>
  /\ UNCHANGED <<host, up, retries, now, bounds, scheduleHistory>>

(* The standalone dashboard: the same transitions, committed with no scheduler *)
(* attached (it refuses to set a snooze).                                      *)
dashboardEdit(o) ==
  /\ Edit
  /\ \/ Complete(o)
     \/ Cancel(o)
     \/ rowStatus[o] # "closed" /\ snooze[o] # Never /\ releaseSnooze(o)
  /\ elsewhere' = elsewhere \cup {o}
  /\ UNCHANGED <<host, calls, process, now, failures, crashes, gaveUp>>

-----------------------------------------------------------------------------
(* The host *)

FireAt(j) ==
  /\ j \in atJobs /\ j[2] <= now
  /\ atJobs' = atJobs \ {j}
  /\ calls' = IF up THEN calls \cup {j[1]} ELSE calls
  /\ UNCHANGED <<row, crontab, process, now, bounds, scheduleHistory>>

Tick ==
  /\ now < MaxTime /\ now' = now + 1
  /\ calls' = IF up /\ now' % CronEvery = 0 THEN calls \cup crontab ELSE calls
  /\ UNCHANGED <<row, host, process, bounds, scheduleHistory>>

Crash ==
  /\ up /\ crashes < MaxCrashes /\ crashes' = crashes + 1
  /\ up' = FALSE /\ dirty' = {} /\ retries' = [o \in Row |-> 0] /\ calls' = {}
  /\ UNCHANGED <<row, host, now, edits, failures, scheduleHistory>>

Overdue(o) ==
  \/ isDeadlineDue(snooze[o])
  \/ snooze[o] = Never /\ policy[o] # "cron" /\ isDeadlineDue(next[o])

(* reconcileScheduledObligations settles what came due while the process was  *)
(* down, in a commit per row; then every row gets its job, each write guarded *)
(* on its own.                                                                *)
BootSettle(o) ==
  /\ ~up /\ Overdue(o)
  /\ IF snooze[o] # Never THEN releaseSnooze(o)
     ELSE ActivateRow(o) /\ UNCHANGED <<policy, snooze, completedAt>>
  /\ UNCHANGED <<host, calls, process, now, bounds, scheduleHistory>>

BootArm ==
  /\ ~up /\ \A o \in Row : ~Overdue(o)
  /\ up' = TRUE
  /\ \E failed \in SUBSET {o \in Row : PlannedAt(o) # Never \/ PlannedCron(o)} :
       /\ failures + Cardinality(failed) <= MaxWriteFailures
       /\ failures' = failures + Cardinality(failed)
       /\ Installed(Row \ failed)
       /\ gaveUp' = failed /\ elsewhere' = {}
  /\ UNCHANGED <<row, calls, dirty, retries, now, edits, crashes>>

-----------------------------------------------------------------------------
ScheduleNext ==
  \/ \E o \in Row :
       \/ \E d \in Time : setSnooze(o, d)
       \/ \E p \in {"none", "cron", "interval"} : setRecurrence(o, p)
       \/ clearSnooze(o) \/ setTerminalStatusOf(o) \/ expireDueSnoozes(o)
       \/ dashboardEdit(o) \/ wakeScheduled(o) \/ Flush(o) \/ Retry(o) \/ BootSettle(o)
  \/ \E j \in atJobs : FireAt(j)
  \/ Tick \/ Crash \/ BootArm

ScheduleSpec == ScheduleInit /\ [][ScheduleNext]_scheduleVars

(* Time passes, atd runs what is due, the event loop serves callbacks and     *)
(* timers, and the service manager starts a process that died.                *)
FairScheduleSpec ==
  /\ ScheduleSpec
  /\ WF_scheduleVars(Tick) /\ WF_scheduleVars(BootArm)
  /\ \A o \in Row :
       /\ WF_scheduleVars(Flush(o)) /\ WF_scheduleVars(Retry(o))
       /\ WF_scheduleVars(wakeScheduled(o)) /\ WF_scheduleVars(BootSettle(o))
       /\ \A t \in Time : WF_scheduleVars(FireAt(<<o, t>>))

-----------------------------------------------------------------------------
(* What will bring a row's deadline to the process. *)
Pending(o) == o \in calls \cup dirty \/ retries[o] > 0

Covered(o) ==
  /\ PlannedAt(o) # Never =>
       \/ Pending(o)
       \/ \E j \in JobsOf({o}) : j[2] <= atRunInstant(PlannedAt(o))
  /\ PlannedCron(o) => Pending(o) \/ o \in crontab

(* While the process runs, every deadline in the database has something on    *)
(* its way to end it: a job no later than the deadline, a callback, or a      *)
(* write still to be (re)tried; otherwise the write failed for good and was   *)
(* reported, or the dashboard's process committed the change.                 *)
DeadlineCovered == up => \A o \in Row : Covered(o) \/ o \in gaveUp \cup elsewhere

(* A callback that finds its deadline not yet due arms a job for later, not   *)
(* one the host runs at once: no loop of callbacks until the seconds pass.    *)
NoBusyTimer ==
  [][\A o \in Row : o \in calls /\ o \notin calls' /\ up' /\ o \in dirty' /\ PlannedAt(o)' # Never =>
       now < atRunInstant(PlannedAt(o)')]_scheduleVars

(* What is due comes about: a snooze ends, a row is active again, whether the *)
(* process was up, down, or had a write fail.                                 *)
DueIsDelivered ==
  \A o \in Row : Overdue(o) ~> ~Overdue(o) \/ o \in gaveUp \cup elsewhere

================================================================================
