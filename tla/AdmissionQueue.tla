---------------------------- MODULE AdmissionQueue ----------------------------
(***************************************************************************)
(* Admission of runs to provider lanes (UnifiedAdmissionQueue, through     *)
(* submitPoolGate, ProviderPacer.submit and the concurrency limiter;       *)
(* actor/provider-pacer.ts).  Normal starts wait in one list until one of  *)
(* their lanes is idle, are claimed by it, staged with the limiter, and    *)
(* revalidated when it pops them; responsive ones bypass pacing.  One      *)
(* action is one synchronous stretch of the event loop.                    *)
(*                                                                         *)
(* The limiter is what ConcurrencyLimiter shows it to be: a free slot goes *)
(* to some staged request.  Which of several equally idle lanes            *)
(* selectPoolLane ranks first, and whether a lane is exhausted, are left   *)
(* open.                                                                   *)
(***************************************************************************)
EXTENDS ProviderPacer, WaitingQueue

CONSTANTS
  Item,             \* admissions that will be requested
  Candidates,       \* the lanes each item declares
  NoLane,           \* claimedLane === undefined
  Slots,            \* mesh concurrency
  MaxDisturbances   \* published pacing changes, halts and reorders, together

ASSUME ItemAssumption ==
  /\ IsFiniteSet(Item) /\ Slots \in Nat \ {0} /\ MaxDisturbances \in Nat
  /\ Candidates \in [Item -> (SUBSET Lane) \ {{}}] /\ NoLane \notin Lane

Off    == -1

VARIABLES
  waiting,      \* the one list of unclaimed items
  phase,        \* where an item's request stands
  lane,         \* the lane that claimed it
  responsive,
  holders,      \* items holding a mesh slot
  rejected,     \* items whose handle was rejected while their request lived on
  clock,        \* the pacers' clocks
  halted,       \* halted lanes
  listTimer,    \* delay left on the list's timer, or Off
  refreshDue,   \* a queueMicrotask(refresh) has not run
  disturbances

vars == <<waiting, phase, lane, responsive, holders, rejected, clock, halted,
          listTimer, refreshDue, disturbances>>

(* waiting    in the list           laned     put back in its pacer's queue   *)
(* staged     with the limiter      popped    started by it, fn not yet called *)
(* bypassing  its pacer's start     running   the run itself                   *)
(*            is a microtask away                                              *)
Phases == {"fresh", "waiting", "laned", "staged", "popped", "bypassing", "running", "done"}
Held   == {"laned", "staged", "popped"}

TypeOK ==
  /\ waiting \in Seq(Item) /\ phase \in [Item -> Phases]
  /\ lane \in [Item -> Lane \cup {NoLane}] /\ responsive \in [Item -> BOOLEAN]
  /\ holders \subseteq Item /\ rejected \subseteq Item
  /\ clock \in [Lane -> Clock] /\ halted \subseteq Lane
  /\ listTimer \in Off .. MaxInterval /\ refreshDue \in BOOLEAN
  /\ disturbances \in 0 .. MaxDisturbances

Init ==
  /\ waiting = <<>> /\ phase = [i \in Item |-> "fresh"]
  /\ lane = [i \in Item |-> NoLane] /\ responsive = [i \in Item |-> FALSE]
  /\ holders = {} /\ rejected = {} /\ halted = {}
  /\ clock = [l \in Lane |-> Fresh]
  /\ listTimer = Off /\ refreshDue = FALSE /\ disturbances = 0

Disturb == disturbances < MaxDisturbances /\ disturbances' = disturbances + 1

-----------------------------------------------------------------------------
(* healthy: a halted candidate is passed over unless all of them are. *)
Healthy(i, halts) ==
  IF Candidates[i] \subseteq halts THEN Candidates[i] ELSE Candidates[i] \ halts

BusyUnlinked(ph, la, l) == \E i \in Item : ph[i] \in Held /\ la[i] = l

(* pacer.busy: a request is queued or staged on a lane of the same clock. *)
Busy(ph, la, l) == \E i \in Item : ph[i] \in Held /\ la[i] \in SameClock(l)

Idle(ph, la, ck, l) == ~Busy(ph, la, l) /\ Available(ck, l) = 0

(* claimNormal: walk the list; each item takes a lane idle now whose clock no *)
(* earlier item of the pass took.                                             *)
Claims(w, ph, la, ck, halts) ==
  {f \in [1 .. Len(w) -> Lane \cup {NoLane}] :
     \A k \in 1 .. Len(w) :
       LET open == {l \in Healthy(w[k], halts) :
                      /\ Idle(ph, la, ck, l)
                      /\ \A j \in 1 .. (k - 1) : f[j] \notin SameClock(l)}
       IN IF open = {} THEN f[k] = NoLane ELSE f[k] \in open}

(* drain: claim what can be claimed, then arm the timer for the earliest lane *)
(* that only pacing keeps from the items left.  A claimed item is staged at   *)
(* once: its lane is idle.                                                    *)
Drain(w, ph, la, ck, halts) ==
  \E f \in Claims(w, ph, la, ck, halts) :
    LET At(i)  == CHOOSE k \in 1 .. Len(w) : w[k] = i /\ f[k] # NoLane
        taken  == {w[k] : k \in {j \in 1 .. Len(w) : f[j] # NoLane}}
        ph2    == [i \in Item |-> IF i \in taken THEN "staged" ELSE ph[i]]
        la2    == [i \in Item |-> IF i \in taken THEN f[At(i)] ELSE la[i]]
        quotes == {Available(ck, l) : l \in {m \in Lane :
                     /\ ~Busy(ph2, la2, m) /\ Available(ck, m) > 0
                     /\ \E i \in Elements(w) \ taken : m \in Healthy(i, halts)}}
    IN /\ waiting' \in Remaining(w, taken) /\ phase' = ph2 /\ lane' = la2
       /\ \/ quotes = {} /\ listTimer' = Off
          \/ listTimer' \in {q \in quotes : \A r \in quotes : q <= r}

(* pacer.schedule on a set of lanes: a put-back request whose lane is open is *)
(* staged, any other gets a new timer.                                        *)
PutBack(ph, la, l) == {i \in Item : ph[i] = "laned" /\ la[i] = l}

Staged(ph, la, ck, lanes) ==
  [i \in Item |-> IF ph[i] = "laned" /\ la[i] \in lanes /\ Available(ck, la[i]) = 0
                  THEN "staged" ELSE ph[i]]

Armed(ph, la, ck, lanes) ==
  [l \in Lane |-> IF l \in lanes /\ PutBack(ph, la, l) # {}
                  THEN [ck[l] EXCEPT !.timer = Available(ck, l)] ELSE ck[l]]

-----------------------------------------------------------------------------
(* A request that has started or been dropped holds no lane any more. *)
LetGo(i) ==
  /\ lane' = [lane EXCEPT ![i] = NoLane]
  /\ responsive' = [responsive EXCEPT ![i] = FALSE]

(* claimResponsive: any live lane, or the pool is exhausted. *)
ClaimResponsive(i) ==
  /\ waiting' = Without(waiting, i)
  /\ \/ \E l \in Healthy(i, halted) :
          /\ lane' = [lane EXCEPT ![i] = l]
          /\ responsive' = [responsive EXCEPT ![i] = TRUE]
          /\ phase' = [phase EXCEPT ![i] = "bypassing"]
     \/ phase' = [phase EXCEPT ![i] = "done"] /\ UNCHANGED <<lane, responsive>>

EnqueueNormal(i) ==
  /\ phase[i] = "fresh"
  /\ Drain(Append(waiting, i), [phase EXCEPT ![i] = "waiting"], lane, clock, halted)
  /\ UNCHANGED <<responsive, holders, rejected, clock, halted, refreshDue, disturbances>>

EnqueueResponsive(i) ==
  /\ phase[i] = "fresh"
  /\ ClaimResponsive(i)
  /\ UNCHANGED <<holders, rejected, clock, halted, listTimer, refreshDue, disturbances>>

PromoteWaiting(i) ==
  /\ phase[i] = "waiting"
  /\ ClaimResponsive(i)
  /\ UNCHANGED <<holders, rejected, clock, halted, listTimer, refreshDue, disturbances>>

(* A claim keeps its lane; a put-back request starts a microtask later, a     *)
(* staged one leaves the limiter's queue.                                     *)
PromoteClaimed(i) ==
  /\ phase[i] \in Held /\ i \notin rejected /\ ~responsive[i]
  /\ responsive' = [responsive EXCEPT ![i] = TRUE]
  /\ phase' = [phase EXCEPT ![i] = IF @ = "laned" THEN "bypassing" ELSE @]
  /\ UNCHANGED <<waiting, lane, holders, rejected, clock, halted, listTimer, refreshDue,
                 disturbances>>

(* The lane is exhausted by then: the handle is rejected, and the request     *)
(* cancelled unless the limiter has popped it.                                *)
PromoteRefused(i) ==
  /\ phase[i] \in Held \cup {"bypassing"} /\ i \notin rejected
  /\ IF phase[i] = "popped"
     THEN rejected' = rejected \cup {i} /\ UNCHANGED <<phase, lane, responsive>>
     ELSE phase' = [phase EXCEPT ![i] = "done"] /\ LetGo(i) /\ UNCHANGED rejected
  /\ refreshDue' = TRUE
  /\ UNCHANGED <<waiting, holders, clock, halted, listTimer, disturbances>>

CancelWaiting(i) ==
  /\ phase[i] = "waiting"
  /\ Drain(Without(waiting, i), [phase EXCEPT ![i] = "done"], lane, clock, halted)
  /\ UNCHANGED <<responsive, holders, rejected, clock, halted, refreshDue, disturbances>>

CancelClaimedSilently(i) ==
  /\ phase[i] \in {"laned", "staged", "bypassing"}
  /\ phase' = [phase EXCEPT ![i] = "done"] /\ LetGo(i)
  /\ UNCHANGED <<waiting, holders, rejected, clock, halted, listTimer, refreshDue,
                 disturbances>>

CancelClaimed(i) ==
  /\ phase[i] \in {"laned", "staged", "bypassing"}
  /\ phase' = [phase EXCEPT ![i] = "done"] /\ LetGo(i)
  /\ refreshDue' = TRUE
  /\ UNCHANGED <<waiting, holders, rejected, clock, halted, listTimer, disturbances>>

Reorder(i, to) ==
  /\ phase[i] = "waiting" /\ to \in 1 .. Len(waiting) /\ waiting[to] # i
  /\ Disturb
  /\ LET rest == Without(waiting, i)
     IN waiting' = SubSeq(rest, 1, to - 1) \o <<i>> \o SubSeq(rest, to, Len(rest))
  /\ UNCHANGED <<phase, lane, responsive, holders, rejected, clock, halted, listTimer,
                 refreshDue>>

-----------------------------------------------------------------------------
(* The limiter pops a staged request; a promoted one needs no slot. *)
Grant(i) ==
  /\ phase[i] = "staged"
  /\ responsive[i] \/ Cardinality(holders) < Slots
  /\ phase' = [phase EXCEPT ![i] = "popped"]
  /\ holders' = IF responsive[i] THEN holders ELSE holders \cup {i}
  /\ UNCHANGED <<waiting, lane, responsive, rejected, clock, halted, listTimer, refreshDue,
                 disturbances>>

(* The actor's pool changed while it waited: the caller asks again. *)
RejectStale(i) ==
  /\ phase[i] = "popped" /\ ~responsive[i]
  /\ phase' = [phase EXCEPT ![i] = "done"] /\ LetGo(i)
  /\ holders' = holders \ {i} /\ rejected' = rejected \ {i}
  /\ refreshDue' = TRUE
  /\ UNCHANGED <<waiting, clock, halted, listTimer, disturbances>>

(* The interval grew, or another start was charged, while it waited. *)
TooEarly(i) ==
  /\ phase[i] = "popped" /\ ~responsive[i] /\ Available(clock, lane[i]) > 0
  /\ LET ph == [phase EXCEPT ![i] = "laned"]
     IN /\ phase' = ph
        /\ clock' = Armed(ph, lane, clock, {lane[i]})
  /\ holders' = holders \ {i}
  /\ UNCHANGED <<waiting, lane, responsive, rejected, halted, listTimer, refreshDue,
                 disturbances>>

Start(i) ==
  LET l  == lane[i]
      ck == Started(clock, l)
      ph == [phase EXCEPT ![i] = "running"]
  IN /\ phase' = Staged(ph, lane, ck, ScheduledByStart(l))
     /\ clock' = Armed(phase', lane, ck, ScheduledByStart(l))
     /\ LetGo(i)
     /\ rejected' = rejected \ {i}
     /\ refreshDue' = TRUE
     /\ UNCHANGED <<waiting, holders, halted, listTimer, disturbances>>

StartNormalUnchecked(i) == phase[i] = "popped" /\ ~responsive[i] /\ Start(i)

StartNormal(i) ==
  phase[i] = "popped" /\ ~responsive[i] /\ Available(clock, lane[i]) = 0 /\ Start(i)

StartResponsive(i) ==
  (phase[i] = "bypassing" \/ (phase[i] = "popped" /\ responsive[i])) /\ Start(i)

Finish(i) ==
  /\ phase[i] = "running"
  /\ phase' = [phase EXCEPT ![i] = "done"]
  /\ holders' = holders \ {i}
  /\ UNCHANGED <<waiting, lane, responsive, rejected, clock, halted, listTimer, refreshDue,
                 disturbances>>

Refresh ==
  /\ refreshDue
  /\ refreshDue' = FALSE
  /\ Drain(waiting, phase, lane, clock, halted)
  /\ UNCHANGED <<responsive, holders, rejected, clock, halted, disturbances>>

ListTimerFires ==
  /\ listTimer = 0
  /\ Drain(waiting, phase, lane, clock, halted)
  /\ UNCHANGED <<responsive, holders, rejected, clock, halted, refreshDue, disturbances>>

LaneTimerFires(l) ==
  /\ PutBack(phase, lane, l) # {} /\ clock[l].timer = 0
  /\ phase' = [i \in Item |-> IF i \in PutBack(phase, lane, l) THEN "staged" ELSE phase[i]]
  /\ UNCHANGED <<waiting, lane, responsive, holders, rejected, clock, halted, listTimer,
                 refreshDue, disturbances>>

-----------------------------------------------------------------------------
(* The quota service publishes a lane's pacing: setInterval, deferUntil when  *)
(* it carries a deadline, and a refresh of the list.                          *)
Publish(l, interval, deadline) ==
  /\ Disturb
  /\ LET ck == DeferUntil(SetInterval(clock, l, interval), l, deadline)
         ph == Staged(phase, lane, SetInterval(clock, l, interval), ScheduledByChange(l))
     IN /\ clock' = Armed(ph, lane, ck, ScheduledByChange(l))
        /\ Drain(waiting, ph, lane, ck, halted)
  /\ UNCHANGED <<responsive, holders, rejected, halted, refreshDue>>

Halt(l) ==
  /\ Disturb
  /\ l \notin halted /\ halted' = halted \cup {l}
  /\ UNCHANGED <<waiting, phase, lane, responsive, holders, rejected, clock, listTimer,
                 refreshDue>>

Resume(l) ==
  /\ l \in halted /\ halted' = halted \ {l}
  /\ Drain(waiting, phase, lane, clock, halted \ {l})
  /\ UNCHANGED <<responsive, holders, rejected, clock, refreshDue, disturbances>>

Tick ==
  /\ clock' = Elapsed(clock)
  /\ listTimer' = IF listTimer = Off THEN Off ELSE Minus(listTimer, 1)
  /\ UNCHANGED <<waiting, phase, lane, responsive, holders, rejected, halted, refreshDue,
                 disturbances>>

-----------------------------------------------------------------------------
Request(i) ==
  \/ EnqueueNormal(i) \/ EnqueueResponsive(i)
  \/ PromoteWaiting(i) \/ PromoteClaimed(i) \/ PromoteRefused(i)
  \/ CancelWaiting(i) \/ CancelClaimed(i)
  \/ \E to \in 1 .. Cardinality(Item) : Reorder(i, to)

Serve(i) ==
  \/ Grant(i) \/ RejectStale(i) \/ TooEarly(i) \/ StartNormal(i) \/ StartResponsive(i)
  \/ Finish(i)

Environment ==
  \/ \E l \in Lane, interval, deadline \in 0 .. MaxInterval : Publish(l, interval, deadline)
  \/ \E l \in Lane : Halt(l)
  \/ \E l \in Lane : Resume(l)

Next ==
  \/ \E i \in Item : Request(i)
  \/ \E i \in Item : Serve(i)
  \/ Refresh \/ ListTimerFires
  \/ \E l \in Lane : LaneTimerFires(l)
  \/ Environment
  \/ Tick

Spec == Init /\ [][Next]_vars

-----------------------------------------------------------------------------
(* Properties *)

(* "Requiring an idle lane keeps at most one claimed-but-unstarted actor per  *)
(* lane": a model lane and its provider's share one clock and one claim,      *)
(* through put-backs, promotions, cancellations and timers.                   *)
OneClaimPerClock ==
  \A i, j \in Item :
    i # j /\ phase[i] \in Held /\ phase[j] \in Held => lane[i] \notin SameClock(lane[j])

(* No item is forgotten in the list: each of its live lanes holds a claim, or *)
(* a start about to happen, whose end re-scans the list, or the timer is set  *)
(* to look again no later than the lane opens, or a re-scan is scheduled.     *)
ListServed ==
  refreshDue \/ \A k \in 1 .. Len(waiting) : \A l \in Candidates[waiting[k]] \ halted :
    \/ \E i \in Item : phase[i] \in Held \cup {"bypassing"} /\ lane[i] \in SameClock(l)
    \/ listTimer # Off /\ listTimer <= Available(clock, l)

(* A normal run starts no sooner after the last start on its lane, or on its  *)
(* provider's clock, than that clock's interval, whatever was published,      *)
(* started responsively or put back while it waited.                          *)
NormalStartsSpaced ==
  [][\A i \in Item : StartNormal(i) =>
       \A l \in {lane[i], Provider[lane[i]]} : clock[l].age >= clock[l].interval]_vars

(* Time passes, timers and microtasks fire, the limiter hands out its slots   *)
(* and runs end, so every item is started, refused or cancelled.              *)
Fairness ==
  /\ WF_vars(Refresh) /\ WF_vars(ListTimerFires) /\ WF_vars(Tick)
  /\ \A l \in Lane : WF_vars(LaneTimerFires(l))
  /\ \A i \in Item : WF_vars(Serve(i))

FairSpec == Spec /\ Fairness

EveryItemServed ==
  \A i \in Item : phase[i] = "waiting" ~> phase[i] \in {"running", "done"}
=============================================================================
