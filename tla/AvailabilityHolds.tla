--------------------------- MODULE AvailabilityHolds ---------------------------
(***************************************************************************)
(* The brakes that keep starts from a lane, and who replays them           *)
(* (actor/availability-holds.ts, actor/halt-switch.ts and their wiring in  *)
(* commands/start.ts).  A hold is a durable row that takes the lanes of    *)
(* its scope out of every pool until it expires or is cleared; the HALT    *)
(* file is one global brake.  Reads compare with the clock, so both lapse  *)
(* by themselves; the timers only wake the work that waits for that, and   *)
(* may be late.                                                            *)
(*                                                                         *)
(* Of an actor only this is kept: that it has a start withheld from it     *)
(* (parked by cancelQueuedRun or refused by beforeRun, with unseen rows),  *)
(* waiting in the admission list, or claimed by a lane.  ActorRun and      *)
(* AdmissionQueue have the rest.  A HALT file made or removed by hand,     *)
(* which tells nobody, is left out.                                        *)
(***************************************************************************)
EXTENDS Integers, FiniteSets

CONSTANTS
  Lane,          \* a provider and model each
  Scope,         \* a whole provider, or one model of it
  Covers,        \* the lanes of each scope
  Actor,
  Pool,          \* the lanes each actor may start on
  NoLane,
  MaxTime,       \* bound: the last instant
  MaxChanges     \* bound: commands of operators, and restarts

ASSUME HoldsAssumption ==
  /\ IsFiniteSet(Lane) /\ IsFiniteSet(Scope) /\ IsFiniteSet(Actor) /\ NoLane \notin Lane
  /\ Covers \in [Scope -> SUBSET Lane \ {{}}]
  /\ \A s, t \in Scope : Covers[s] = Covers[t] => s = t
  /\ Pool \in [Actor -> SUBSET Lane \ {{}}]
  /\ MaxTime \in Nat /\ MaxChanges \in Nat

Off    == -1
Never  == MaxTime + 1       \* no expiry
Time   == 0 .. MaxTime
Origin == {"chat", "mesh"}
Row    == [scope : Scope, origin : Origin, expiry : 0 .. Never]

VARIABLES
  rows,          \* availability_holds: one row for each scope and origin
  brake,         \* `until' of the HALT file, Off without one
  holdTimer,     \* the expiry AvailabilityHolds.timer is armed for
  haltTimer,     \* the same of haltExpiryTimer
  start,         \* where the start of each actor stands
  lane,          \* the lane of a claimed one
  now, changes,
  forgotten      \* history: actors that lost their replay, for one of the named reasons

vars == <<rows, brake, holdTimer, haltTimer, start, lane, now, changes, forgotten>>

TypeOK ==
  /\ rows \subseteq Row /\ brake \in Off .. Never
  /\ \A r, s \in rows : r.scope = s.scope /\ r.origin = s.origin => r = s
  /\ holdTimer \in Off .. MaxTime /\ haltTimer \in Off .. MaxTime
  /\ start \in [Actor -> {"idle", "withheld", "waiting", "claimed"}]
  /\ lane \in [Actor -> Lane \cup {NoLane}]
  /\ \A a \in Actor : lane[a] # NoLane <=> start[a] = "claimed"
  /\ now \in Time /\ changes \in 0 .. MaxChanges /\ forgotten \subseteq Actor

Init ==
  /\ rows = {} /\ brake = Off /\ holdTimer = Off /\ haltTimer = Off
  /\ start = [a \in Actor |-> "idle"] /\ lane = [a \in Actor |-> NoLane]
  /\ now = 0 /\ changes = 0 /\ forgotten = {}

Change == changes < MaxChanges /\ changes' = changes + 1

-----------------------------------------------------------------------------
(* isProviderHalted, over given rows and a given brake, at an instant t.      *)
Halted(rs, b, t) ==
  {l \in Lane : b > t \/ \E r \in rs : l \in Covers[r.scope] /\ r.expiry > t}

(* allCandidatesHalted *)
Blocked(a, halts) == Pool[a] \subseteq halts

blocked(a) == Blocked(a, Halted(rows, brake, now))

(* schedule(): the earliest expiry that is still to come. *)
Upcoming(rs, t) == {r.expiry : r \in {s \in rs : s.expiry > t /\ s.expiry # Never}}

Scheduled(rs, t) ==
  IF Upcoming(rs, t) = {} THEN Off
  ELSE CHOOSE e \in Upcoming(rs, t) : \A f \in Upcoming(rs, t) : e <= f

Due(timer) == timer # Off /\ timer <= now

Withheld == {a \in Actor : start[a] = "withheld"}

(* cancelHaltedQueuedRuns: a claimed start is parked when its own lane is     *)
(* halted, an unclaimed one when every lane of its pool is.                   *)
Parked(halts) ==
  {a \in Actor : \/ start[a] = "claimed" /\ lane[a] \in halts
                 \/ start[a] = "waiting" /\ Blocked(a, halts)}

Park(halts) ==
  /\ start' = [a \in Actor |-> IF a \in Parked(halts) THEN "withheld" ELSE start[a]]
  /\ lane'  = [a \in Actor |-> IF a \in Parked(halts) THEN NoLane ELSE lane[a]]

(* resumeAfterHalt: replay what is parked and dispatch what is unseen; where  *)
(* the whole pool is halted, the first is left and the second refused again.  *)
Replayed(halts) == {a \in Withheld : ~Blocked(a, halts)}

Replay(halts) ==
  /\ start' = [a \in Actor |-> IF a \in Replayed(halts) THEN "waiting" ELSE start[a]]
  /\ forgotten' = forgotten \ Replayed(halts)
  /\ UNCHANGED lane

-----------------------------------------------------------------------------
(* Operators.  A command that re-arms the timer while it is due takes the     *)
(* expiry it stood for out of sight: those who waited for it are forgotten.   *)
Overtaken(rs) ==
  IF Due(holdTimer) THEN Replayed(Halted(rs, brake, now)) ELSE {}

(* set(), by /halt with a scope or by a tool.  A claimed start is parked even *)
(* when another lane of its pool is open; nothing replays it before some      *)
(* brake ends.                                                                *)
SetHold(scope, origin, expiry) ==
  LET kept  == {r \in rows : r.scope # scope \/ r.origin # origin}
      after == kept \cup {[scope |-> scope, origin |-> origin, expiry |-> expiry]}
      halts == Halted(after, brake, now)
  IN /\ Change /\ expiry > now
     /\ rows' = after /\ holdTimer' = Scheduled(after, now)
     /\ Park(halts)
     /\ forgotten' = forgotten \cup Overtaken(after)
                       \cup {a \in Parked(halts) : ~Blocked(a, halts)}
     /\ UNCHANGED <<brake, haltTimer, now>>

Cleared(scope, origins) ==
  {r \in rows : Covers[r.scope] \subseteq Covers[scope] /\ r.origin \in origins}

\* Mutant: the starts are replayed only when no row is left.
ClearHoldsLast(scope, origins) ==
  LET gone  == Cleared(scope, origins)
      after == rows \ gone
  IN /\ Change
     /\ rows' = after /\ holdTimer' = Scheduled(after, now)
     /\ IF after = {} THEN Replay(Halted(after, brake, now))
        ELSE forgotten' = forgotten \cup Overtaken(after) /\ UNCHANGED <<start, lane>>
     /\ UNCHANGED <<brake, haltTimer, now>>

(* clear(), by /resume with a scope (rows of chat) or by the dashboard and    *)
(* the tools (any): also the rows of the models of a provider.  Only rows     *)
(* that were in force release anything.                                       *)
ClearHolds(scope, origins) ==
  LET gone  == Cleared(scope, origins)
      after == rows \ gone
  IN /\ Change
     /\ rows' = after /\ holdTimer' = Scheduled(after, now)
     /\ IF \E r \in gone : r.expiry > now
        THEN Replay(Halted(after, brake, now))
        ELSE forgotten' = forgotten \cup Overtaken(after) /\ UNCHANGED <<start, lane>>
     /\ UNCHANGED <<brake, haltTimer, now>>

(* /halt: refused while one is active, otherwise with a timer of its own.  An *)
(* `until' that has passed makes a file that brakes nothing.                  *)
Halt(until) ==
  /\ Change /\ brake <= now
  /\ brake' = until
  /\ IF until > now
     THEN /\ Park(Lane) /\ UNCHANGED forgotten
          /\ haltTimer' = IF until = Never THEN Off ELSE until
     ELSE Replay(Halted(rows, until, now)) /\ haltTimer' = Off
  /\ UNCHANGED <<rows, holdTimer, now>>

(* releaseHalts: /resume without a scope, or the dashboard. *)
ReleaseHalts(origins) ==
  LET after == {r \in rows : r.origin \notin origins}
  IN /\ Change
     /\ rows' = after /\ brake' = Off
     /\ holdTimer' = Scheduled(after, now) /\ haltTimer' = Off
     /\ Replay(Halted(after, Off, now))
     /\ UNCHANGED now

-----------------------------------------------------------------------------
(* The timers                                                                 *)

\* Mutant: expired rows are looked for among the active ones.
HoldTimerFiresLate ==
  LET expired == {r \in rows : r.expiry >= holdTimer /\ r.expiry > now}
  IN /\ Due(holdTimer)
     /\ holdTimer' = Scheduled(rows, now)
     /\ IF expired # {} THEN Replay(Halted(rows, brake, now))
        ELSE UNCHANGED <<start, lane, forgotten>>
     /\ UNCHANGED <<rows, brake, haltTimer, now, changes>>

(* Armed for an expiry, it also takes the rows that expired since. *)
HoldTimerFires ==
  LET expired == {r \in rows : r.expiry >= holdTimer /\ r.expiry <= now}
  IN /\ Due(holdTimer)
     /\ holdTimer' = Scheduled(rows, now)
     /\ IF expired # {} THEN Replay(Halted(rows, brake, now))
        ELSE UNCHANGED <<start, lane, forgotten>>
     /\ UNCHANGED <<rows, brake, haltTimer, now, changes>>

HaltTimerFires ==
  /\ Due(haltTimer) /\ haltTimer' = Off
  /\ Replay(Halted(rows, brake, now))
  /\ UNCHANGED <<rows, brake, holdTimer, now, changes>>

(* Who waits for the end of a HALT that has no timer, after a restart, is     *)
(* forgotten when it comes, unless the timer of a hold is due as well.        *)
Tick ==
  /\ now < MaxTime /\ now' = now + 1
  /\ forgotten' = IF brake = now + 1 /\ haltTimer = Off /\ holdTimer \notin 0 .. now + 1
                  THEN forgotten \cup Replayed(Halted(rows, brake, now + 1)) ELSE forgotten
  /\ UNCHANGED <<rows, brake, holdTimer, haltTimer, start, lane, changes>>

-----------------------------------------------------------------------------
(* The actors                                                                 *)

(* A row arrives: dispatch, and beforeRun asks for an open lane. *)
Arrive(a) ==
  /\ start[a] \in {"idle", "withheld"}
  /\ start' = [start EXCEPT ![a] = IF blocked(a) THEN "withheld" ELSE "waiting"]
  /\ forgotten' = IF blocked(a) THEN forgotten ELSE forgotten \ {a}
  /\ UNCHANGED <<rows, brake, holdTimer, haltTimer, lane, now, changes>>

Claim(a) ==
  /\ start[a] = "waiting"
  /\ \E l \in Pool[a] \ Halted(rows, brake, now) :
       start' = [start EXCEPT ![a] = "claimed"] /\ lane' = [lane EXCEPT ![a] = l]
  /\ UNCHANGED <<rows, brake, holdTimer, haltTimer, now, changes, forgotten>>

\* Mutant: the selection outlives the start.
StartSelected(a) ==
  /\ start[a] = "claimed" /\ start' = [start EXCEPT ![a] = "idle"]
  /\ UNCHANGED <<rows, brake, holdTimer, haltTimer, lane, now, changes, forgotten>>

Start(a) ==
  /\ start[a] = "claimed"
  /\ start' = [start EXCEPT ![a] = "idle"] /\ lane' = [lane EXCEPT ![a] = NoLane]
  /\ UNCHANGED <<rows, brake, holdTimer, haltTimer, now, changes, forgotten>>

(* The timer of the holds is armed at boot, that of the HALT file is not. *)
Armed == holdTimer' = Scheduled(rows, now) /\ haltTimer' = Off

(* The rows and the file survive; every actor with work is dispatched again. *)
Restart ==
  /\ Change /\ Armed
  /\ start' = [a \in Actor |-> IF start[a] = "idle" THEN "idle"
                               ELSE IF blocked(a) THEN "withheld" ELSE "waiting"]
  /\ lane' = [a \in Actor |-> NoLane] /\ forgotten' = {}
  /\ UNCHANGED <<rows, brake, now>>

-----------------------------------------------------------------------------
Operators ==
  \/ \E s \in Scope, o \in Origin, e \in 0 .. Never : SetHold(s, o, e)
  \/ \E s \in Scope, os \in {{"chat"}, Origin} : ClearHolds(s, os)
  \/ \E u \in 0 .. Never : Halt(u)
  \/ \E os \in {{"chat"}, Origin} : ReleaseHalts(os)

Next ==
  \/ Operators \/ HoldTimerFires \/ HaltTimerFires \/ Tick \/ Restart
  \/ \E a \in Actor : Arrive(a) \/ Claim(a) \/ Start(a)

\* Time passes, timers fire, and an open lane takes its starts (AdmissionQueue).
Fairness ==
  /\ WF_vars(Tick) /\ WF_vars(HoldTimerFires) /\ WF_vars(HaltTimerFires)
  /\ \A a \in Actor : WF_vars(Claim(a)) /\ WF_vars(Start(a))

Spec == Init /\ [][Next]_vars /\ Fairness

-----------------------------------------------------------------------------
(* Properties *)

(* A start is withheld only while every lane of its pool is halted, or while  *)
(* the timer that replays it is due; whatever holds are set, replaced,        *)
(* cleared by origin or expire together, and however late the timers are.     *)
(* Not so for the three lapses: a start parked with an open lane in its pool, *)
(* an expiry overtaken by a command, and a timed HALT after a restart.        *)
WithheldForReason ==
  \A a \in Withheld \ forgotten : blocked(a) \/ Due(holdTimer) \/ Due(haltTimer)

(* Each start happens in the end, unless its pool is halted again and again   *)
(* or its replay was lost.                                                    *)
OpenPoolStarts ==
  \A a \in Actor : []<>(start[a] = "idle") \/ []<>blocked(a) \/ []<>(a \in forgotten)
=============================================================================
