---------------------------- MODULE ProviderPacer ----------------------------
(***************************************************************************)
(* The start clocks of the provider lanes (class ProviderPacer,            *)
(* actor/provider-pacer.ts).  A lane spaces normal starts by its interval; *)
(* a model's lane is linked to its provider's, and each of its starts is   *)
(* charged to both.  The operators below take the clocks of all lanes and  *)
(* return them after a call; AdmissionQueue holds the requests.            *)
(*                                                                         *)
(* Time is relative: `wait` is nextAvailableAt - now, floored at 0, and    *)
(* `age` the time since lastStartedAt, capped where no interval reaches.   *)
(***************************************************************************)
EXTENDS Integers, FiniteSets

CONSTANTS
  Lane,           \* one pacer each
  Provider,       \* the provider-wide lane each lane answers to (itself, if unlinked)
  MaxInterval     \* the longest interval or deferral published

ASSUME LaneAssumption ==
  /\ IsFiniteSet(Lane) /\ MaxInterval \in Nat
  /\ Provider \in [Lane -> Lane]
  /\ \A l \in Lane : Provider[Provider[l]] = Provider[l]

Later(m, n) == IF m >= n THEN m ELSE n
Minus(m, n) == Later(m - n, 0)

Never == MaxInterval + 1    \* lastStartedAt === null

Clock == [ interval : 0 .. MaxInterval, age : 0 .. Never, wait : 0 .. MaxInterval,
           timer : 0 .. MaxInterval ]   \* of its put-back request, if it has one

Fresh == [interval |-> 0, age |-> Never, wait |-> 0, timer |-> 0]

(* The lanes whose start clock is shared with l. *)
SameClock(l) == {m \in Lane : Provider[m] = Provider[l]}

(* availableAt - now *)
Available(ck, l) == Later(ck[l].wait, ck[Provider[l]].wait)

SetInterval(ck, l, v) ==
  [ck EXCEPT ![l].interval = v,
             ![l].wait = IF ck[l].age = Never THEN @ ELSE Minus(v, ck[l].age)]

DeferUntil(ck, l, d) == [ck EXCEPT ![l].wait = Later(@, d)]

(* A start on a lane sets its clock, and is charged to its provider's, where  *)
(* an earlier deferral is kept.                                               *)
Started(ck, l) ==
  [m \in Lane |->
     CASE m = l -> [ck[m] EXCEPT !.age = 0, !.wait = ck[m].interval]
       [] m # l /\ m = Provider[l] ->
            [ck[m] EXCEPT !.age = 0, !.wait = Later(@, ck[m].interval)]
       [] OTHER -> ck[m]]

(* The lanes a call reschedules: a provider's change reaches its models, and  *)
(* so does a model's start, through the charge; a provider's own start does   *)
(* not.                                                                       *)
ScheduledByChange(l) == {m \in Lane : m = l \/ Provider[m] = l}
ScheduledByStart(l)  == IF Provider[l] = l THEN {l} ELSE SameClock(l)

ElapsedUnfloored(ck) == [l \in Lane |-> [ck[l] EXCEPT !.wait = @ - 1]]

Elapsed(ck) ==
  [l \in Lane |->
     [ck[l] EXCEPT !.age = IF @ >= MaxInterval THEN @ ELSE @ + 1,
                   !.wait = Minus(@, 1), !.timer = Minus(@, 1)]]
=============================================================================
