---------------------------- MODULE ObligationGraph ----------------------------
(***************************************************************************)
(* When an obligation may be worked on (db/repositories/                   *)
(* obligation-repository.ts).  A row is ready or waiting; it waits for its *)
(* live children (the tree) and for its named prerequisites, and the two   *)
(* relations together are the wait-for graph.  Every operation is one      *)
(* SQLite transaction (mutate), so it is one action here; a transition     *)
(* that ends a wait releases what waited on it in the same transaction.    *)
(*                                                                         *)
(* Owners, priorities, titles and notes are left out.  Snoozes keep the    *)
(* status and are left out too; when a scheduled row is due is the clock's *)
(* business (ObligationSchedule), so activation is always possible here.   *)
(***************************************************************************)
EXTENDS FiniteSets

CONSTANTS
  Obligation,     \* the rows that can be created
  NoParent        \* parent_id IS NULL

ASSUME ObligationAssumption == IsFiniteSet(Obligation) /\ NoParent \notin Obligation

VARIABLES
  status,         \* absent before create()
  parent,         \* parent_id
  recurring,      \* rows with a recurrence_policy
  matcher,        \* the completion matcher of a row
  blockedBy,      \* obligation_prerequisites: <<dependent, prerequisite>>
  reawakened,     \* history: live rows a schedule activated inside a tree
  forfeited,      \* history: rows closed by ending their recurrence
  overlooked      \* history: ready rows whose matcher was satisfied over a live child

history == <<reawakened, forfeited, overlooked>>
vars    == <<status, parent, recurring, matcher, blockedBy, history>>

LiveStatus     == {"ready", "waiting"}
TerminalStatus == {"done", "cancelled"}
Status         == LiveStatus \cup TerminalStatus \cup {"absent", "scheduled"}

TypeOK ==
  /\ status \in [Obligation -> Status]
  /\ parent \in [Obligation -> Obligation \cup {NoParent}]
  /\ recurring \subseteq Obligation /\ reawakened \subseteq Obligation
  /\ forfeited \subseteq Obligation /\ overlooked \subseteq Obligation
  /\ matcher \in [Obligation -> {"none", "open", "satisfied"}]
  /\ blockedBy \subseteq Obligation \X Obligation

Init ==
  /\ status = [o \in Obligation |-> "absent"]
  /\ parent = [o \in Obligation |-> NoParent]
  /\ matcher = [o \in Obligation |-> "none"]
  /\ recurring = {} /\ blockedBy = {}
  /\ reawakened = {} /\ forfeited = {} /\ overlooked = {}

Terminal(o) == status[o] \in TerminalStatus
Usable(o)   == status[o] \notin TerminalStatus \cup {"absent"}

-----------------------------------------------------------------------------
(* The wait-for graph *)

HasLiveChild(st, tree, o) == \E c \in Obligation : tree[c] = o /\ st[c] \in LiveStatus

ChildEdges(children) == {<<parent[c], c>> : c \in {c \in children : parent[c] # NoParent}}

WaitsForPrerequisites == blockedBy                                   \* mutant

(* What wouldCreateCycle walks: prerequisites, and parents of live children. *)
WaitsFor == blockedBy \cup ChildEdges({c \in Obligation : status[c] \in LiveStatus})

(* The nodes one or more edges away from a: in every set the edges cannot leave. *)
Reachable(edges, a) ==
  {b \in Obligation :
     \A S \in SUBSET Obligation :
       (\A e \in edges : e[1] \in S \cup {a} => e[2] \in S) => b \in S}

wouldCreateCycle(dependent, prerequisite) == dependent \in Reachable(WaitsFor, prerequisite)

isDescendant(o, ancestor) ==
  ancestor \in Reachable({<<c, parent[c]>> : c \in {c \in Obligation : parent[c] # NoParent}}, o)

prerequisitesOf(edges, o) == {e[2] : e \in {d \in edges : d[1] = o}}
dependentsOf(edges, o)    == {e[1] : e \in {d \in edges : d[2] = o}}

prerequisitesSatisfied(st, edges, o) == \A q \in prerequisitesOf(edges, o) : st[q] = "done"

-----------------------------------------------------------------------------
(* tryRelease and the completions it cascades into.  `st', `tree' and      *)
(* `edges' are the tables once the caller has written its own change.      *)

Finished(st, D) == [o \in Obligation |-> IF o \in D THEN "done" ELSE st[o]]

(* Who is looked at: the caller's rows, then what waited on a completed one. *)
Examined(seeds, tree, edges, D) ==
  seeds \cup {o \in Obligation : \E d \in D : tree[d] = o \/ <<o, d>> \in edges}

CompletesByMatcher(D, st, tree, o) ==
  st[o] = "waiting" /\ matcher[o] = "satisfied" /\ ~HasLiveChild(Finished(st, D), tree, o)

CascadeEnded(D, seeds, st, tree, edges) ==
  \A o \in Examined(seeds, tree, edges, D) : CompletesByMatcher(D, st, tree, o) => o \in D

(* The rows the cascade completes: the least set it ends with. *)
Completed(seeds, st, tree, edges) ==
  {o \in Obligation :
     \A D \in SUBSET Obligation : CascadeEnded(D, seeds, st, tree, edges) => o \in D}

tryRelease(seeds, st, tree, edges) ==
  LET D   == Completed(seeds, st, tree, edges)
      fin == Finished(st, D)
  IN [o \in Obligation |->
        IF /\ o \in Examined(seeds, tree, edges, D)
           /\ fin[o] = "waiting"
           /\ ~HasLiveChild(fin, tree, o)
           /\ prerequisitesSatisfied(fin, edges, o)
        THEN "ready" ELSE fin[o]]

(* A write that leaves a row with something to wait for. *)
Demoted(st, o) ==
  [x \in Obligation |-> IF x = o /\ st[x] = "ready" THEN "waiting" ELSE st[x]]

(* The schedule puts a row back to work beside live children or under a     *)
(* parent without looking at either.                                        *)
NowReawakened(new) == reawakened' = {o \in reawakened \cup new : status'[o] \in LiveStatus}
KeepHistory        == NowReawakened({}) /\ UNCHANGED <<forfeited, overlooked>>

InTree(o) == parent[o] # NoParent \/ HasLiveChild(status, parent, o)

-----------------------------------------------------------------------------
(* Operations *)

EligibleIfNotParent(q, p) ==                                         \* mutant
  status[q] # "absent" /\ q \notin recurring /\ q # p

(* assertEligiblePrerequisite, and the self and cycle checks of create(). *)
EligibleForNew(q, p) ==
  /\ status[q] # "absent" /\ q \notin recurring
  /\ p # NoParent => q # p /\ ~wouldCreateCycle(p, q)

create(o, p, prerequisites, recurs, m) ==
  /\ status[o] = "absent"
  /\ p # NoParent => Usable(p)
  /\ recurs => prerequisites = {} /\ m = "none"
  /\ \A q \in prerequisites : EligibleForNew(q, p)
  /\ status' = LET initial == IF \A q \in prerequisites : status[q] = "done"
                              THEN "ready" ELSE "waiting"
               IN Demoted([status EXCEPT ![o] = initial], p)
  /\ parent' = [parent EXCEPT ![o] = p]
  /\ recurring' = IF recurs THEN recurring \cup {o} ELSE recurring
  /\ matcher' = [matcher EXCEPT ![o] = m]
  /\ blockedBy' = blockedBy \cup ({o} \X prerequisites)
  /\ KeepHistory

addPrerequisiteToCancelled(o, q) ==                                  \* mutant
  /\ o # q /\ Usable(o) /\ status[q] # "absent"
  /\ q \notin recurring /\ o \notin recurring
  /\ <<o, q>> \notin blockedBy /\ ~wouldCreateCycle(o, q)
  /\ blockedBy' = blockedBy \cup {<<o, q>>}
  /\ status' = IF Terminal(q) THEN status ELSE Demoted(status, o)
  /\ KeepHistory
  /\ UNCHANGED <<parent, recurring, matcher>>

addPrerequisite(o, q) ==
  /\ o # q /\ Usable(o) /\ status[q] # "absent"
  /\ q \notin recurring /\ o \notin recurring
  /\ <<o, q>> \notin blockedBy /\ ~wouldCreateCycle(o, q)
  /\ blockedBy' = blockedBy \cup {<<o, q>>}
  /\ status' = IF status[q] = "done" THEN status ELSE Demoted(status, o)
  /\ KeepHistory
  /\ UNCHANGED <<parent, recurring, matcher>>

removePrerequisite(o, q) ==
  /\ <<o, q>> \in blockedBy
  /\ blockedBy' = blockedBy \ {<<o, q>>}
  /\ status' = tryRelease({o}, status, parent, blockedBy')
  /\ KeepHistory
  /\ UNCHANGED <<parent, recurring, matcher>>

reparent(o, p) ==
  /\ Usable(o) /\ p # o /\ p # parent[o]
  /\ p # NoParent => Usable(p) /\ ~isDescendant(p, o) /\ ~wouldCreateCycle(p, o)
  /\ parent' = [parent EXCEPT ![o] = p]
  /\ status' = LET demoted == IF status[o] \in LiveStatus THEN Demoted(status, p) ELSE status
               IN tryRelease({parent[o]} \ {NoParent}, demoted, parent', blockedBy)
  /\ KeepHistory
  /\ UNCHANGED <<recurring, matcher, blockedBy>>

LeaveOnlyDone(o, to) ==                                              \* mutant
  IF to = "done"
  THEN status' = tryRelease(({parent[o]} \ {NoParent}) \cup dependentsOf(blockedBy, o),
                            [status EXCEPT ![o] = to], parent, blockedBy)
  ELSE status' = [status EXCEPT ![o] = to]

(* The parent is always looked at; dependents only when the row is done. *)
Leave(o, to) ==
  status' = tryRelease(({parent[o]} \ {NoParent})
                         \cup (IF to = "done" THEN dependentsOf(blockedBy, o) ELSE {}),
                       [status EXCEPT ![o] = to], parent, blockedBy)

setTerminalStatusOverChildren(o, to) ==                              \* mutant
  /\ Usable(o) /\ ~(status[o] = "scheduled" /\ to = "done")
  /\ IF to = "done" /\ o \in recurring
     THEN Leave(o, "scheduled") /\ UNCHANGED recurring
     ELSE Leave(o, to) /\ recurring' = recurring \ {o}
  /\ KeepHistory
  /\ UNCHANGED <<parent, matcher, blockedBy>>

setTerminalStatus(o, to) ==
  /\ Usable(o) /\ ~(status[o] = "scheduled" /\ to = "done")
  /\ ~HasLiveChild(status, parent, o)
  /\ IF to = "done" /\ o \in recurring
     THEN Leave(o, "scheduled") /\ UNCHANGED recurring
     ELSE Leave(o, to) /\ recurring' = recurring \ {o}
  /\ KeepHistory
  /\ UNCHANGED <<parent, matcher, blockedBy>>

Activate(o) ==
  /\ status' = [status EXCEPT ![o] = "ready"]
  /\ NowReawakened(IF InTree(o) THEN {o} ELSE {})

activateScheduled(o) ==
  /\ status[o] = "scheduled"
  /\ Activate(o)
  /\ UNCHANGED <<parent, recurring, matcher, blockedBy, forfeited, overlooked>>

(* assertNotInDependencyGraph; a shortened interval may be due at once. *)
startRecurrence(o) ==
  /\ Usable(o) /\ matcher[o] = "none"
  /\ \A e \in blockedBy : o \notin {e[1], e[2]}
  /\ recurring' = recurring \cup {o}
  /\ \/ UNCHANGED <<status, reawakened>>
     \/ status[o] = "scheduled" /\ Activate(o)
  /\ UNCHANGED <<parent, matcher, blockedBy, forfeited, overlooked>>

stopRecurrence(o) ==
  /\ Usable(o) /\ o \in recurring
  /\ recurring' = recurring \ {o}
  /\ IF status[o] = "scheduled"
     THEN /\ status' = tryRelease({parent[o]} \ {NoParent}, [status EXCEPT ![o] = "done"],
                                  parent, blockedBy)
          /\ forfeited' = forfeited \cup {o}
     ELSE UNCHANGED <<status, forfeited>>
  /\ NowReawakened({})
  /\ UNCHANGED <<parent, matcher, blockedBy, overlooked>>

setCompletionMatcher(o, m) ==
  /\ Usable(o) /\ o \notin recurring
  /\ matcher' = [matcher EXCEPT ![o] = m]
  /\ UNCHANGED <<status, parent, recurring, blockedBy, history>>

(* The observation is kept while a live child remains; tryRelease will only   *)
(* act on it if the row is waiting by then.                                   *)
satisfyCompletionMatcher(o) ==
  /\ Usable(o) /\ matcher[o] # "none"
  /\ matcher' = [matcher EXCEPT ![o] = "satisfied"]
  /\ IF HasLiveChild(status, parent, o)
     THEN /\ overlooked' = overlooked \cup {x \in {o} : status[x] = "ready"}
          /\ UNCHANGED status
     ELSE Leave(o, "done") /\ UNCHANGED overlooked
  /\ NowReawakened({})
  /\ UNCHANGED <<parent, recurring, blockedBy, forfeited>>

Next ==
  \E o \in Obligation :
    \/ \E p \in Obligation \cup {NoParent} :
         \/ reparent(o, p)
         \/ \E prerequisites \in SUBSET Obligation, recurs \in BOOLEAN, m \in {"none", "open"} :
              create(o, p, prerequisites, recurs, m)
    \/ \E q \in Obligation : addPrerequisite(o, q) \/ removePrerequisite(o, q)
    \/ \E to \in TerminalStatus : setTerminalStatus(o, to)
    \/ activateScheduled(o) \/ startRecurrence(o) \/ stopRecurrence(o)
    \/ \E m \in {"none", "open"} : setCompletionMatcher(o, m)
    \/ satisfyCompletionMatcher(o)

Spec == Init /\ [][Next]_vars

-----------------------------------------------------------------------------
(* Properties *)

Acyclic(edges) ==
  \A S \in (SUBSET Obligation) \ {{}} : \E a \in S : \A b \in S : <<a, b>> \notin edges

(* No set of obligations waits for itself: every operation that adds an edge  *)
(* to the combined wait-for graph refuses to close a loop.  Edges to a child  *)
(* its schedule put back to work are left out: no check is made for those     *)
(* (see NoCombinedCycle).                                                     *)
NoWaitCycle ==
  Acyclic(blockedBy \cup ChildEdges({c \in Obligation \ reawakened : status[c] \in LiveStatus}))

(* A live child holds its parent back: the parent is waiting, or asleep until *)
(* its next cycle; it is never finished before the child.  The exceptions are *)
(* what the code does when a schedule acts on a row inside a tree.            *)
LiveChildHoldsParent ==
  \A c \in Obligation :
    status[c] \in LiveStatus /\ parent[c] # NoParent /\ c \notin reawakened =>
      \/ status[parent[c]] \in {"waiting", "scheduled"}
      \/ status[parent[c]] = "ready" /\ parent[c] \in reawakened
      \/ status[parent[c]] = "done" /\ parent[c] \in forfeited

(* However the cascade of releases and matcher completions ran, a waiting     *)
(* obligation still has something to wait for, and one whose matcher is       *)
(* satisfied is kept open by a live child alone (or was overlooked: it was    *)
(* already ready beside a reawakened child).                                  *)
NothingStranded ==
  \A o \in Obligation :
    /\ status[o] = "waiting" =>
         HasLiveChild(status, parent, o) \/ ~prerequisitesSatisfied(status, blockedBy, o)
    /\ Usable(o) /\ matcher[o] = "satisfied" =>
         HasLiveChild(status, parent, o) \/ o \in overlooked

(* Nothing is offered as work while a prerequisite is not done. *)
ReadyIsUnblocked ==
  \A o \in Obligation : status[o] = "ready" => prerequisitesSatisfied(status, blockedBy, o)

(* No obligation depends on a cancelled one: the owners have done the repairs *)
(* they were prompted for.                                                    *)
Repaired ==
  \A e \in blockedBy : status[e[1]] \in LiveStatus => status[e[2]] # "cancelled"

(* Whenever work is left, some of it can be done: the tree, the prerequisites *)
(* and the matchers together never leave everyone waiting on everyone.        *)
SomeoneCanWork ==
  Repaired /\ reawakened = {} /\ (\E o \in Obligation : status[o] \in LiveStatus) =>
    \E o \in Obligation : status[o] = "ready" /\ ~HasLiveChild(status, parent, o)

(* What the declare-prerequisite tool promises, of every live child.          *)
NoCombinedCycle == Acyclic(WaitsFor)

=============================================================================
