--------------------------- MODULE ObligationProofs ---------------------------
(***************************************************************************)
(* Theorems about obligations, for every set of rows: the graph they form  *)
(* (ObligationGraph), and the deadlines some of them have                  *)
(* (ObligationSchedule), whose names in this module begin with Schedule.   *)
(* The two specifications share no variable.                               *)
(*                                                                         *)
(* The graph.  The parts of its inductive invariant take the tables as     *)
(* arguments, so that a transition can be followed in two halves: what the *)
(* operation writes, and what the cascade it starts then releases.         *)
(* `owed' are the rows the operation still has to hand to tryRelease.      *)
(***************************************************************************)
EXTENDS ObligationGraph, ObligationSchedule, TLAPS

Typed(st, tree, edges, rec, mat, rw, ff, ov) ==
  /\ st \in [Obligation -> Status]
  /\ tree \in [Obligation -> Obligation \cup {NoParent}]
  /\ rec \subseteq Obligation /\ rw \subseteq Obligation
  /\ ff \subseteq Obligation /\ ov \subseteq Obligation
  /\ mat \in [Obligation -> {"none", "open", "satisfied"}]
  /\ edges \subseteq Obligation \X Obligation

(* Recurring rows stay out of the prerequisite graph and carry no matcher;   *)
(* rows that do not exist yet are named by nobody.                           *)
Shaped(st, tree, edges, rec, mat) ==
  /\ \A o \in Obligation : st[o] = "scheduled" => o \in rec
  /\ \A o \in rec : st[o] \notin TerminalStatus \cup {"absent"} /\ mat[o] = "none"
  /\ \A e \in edges : {e[1], e[2]} \cap rec = {} /\ st[e[1]] # "absent" /\ st[e[2]] # "absent"
  /\ \A o \in Obligation :
       /\ tree[o] # NoParent => st[o] # "absent" /\ st[tree[o]] # "absent"
       /\ mat[o] # "none" => st[o] # "absent"

Waited(st, tree, rw) ==
  {<<tree[c], c>> : c \in {c \in Obligation \ rw : st[c] \in LiveStatus /\ tree[c] # NoParent}}

NoLoop(st, tree, edges, rw) == Acyclic(edges \cup Waited(st, tree, rw))

HoldsParent(st, tree, rw, ff) ==
  \A c \in Obligation :
    st[c] \in LiveStatus /\ tree[c] # NoParent /\ c \notin rw =>
      \/ st[tree[c]] \in {"waiting", "scheduled"}
      \/ st[tree[c]] = "ready" /\ tree[c] \in rw
      \/ st[tree[c]] = "done" /\ tree[c] \in ff

WaitsForCause(owed, st, tree, edges) ==
  \A o \in Obligation \ owed :
    st[o] = "waiting" => HasLiveChild(st, tree, o) \/ ~prerequisitesSatisfied(st, edges, o)

(* A satisfied matcher not acted on at once belongs to a waiting row. *)
MatcherKept(owed, st, tree, mat, ov) ==
  \A o \in Obligation \ ov :
    st[o] \notin TerminalStatus /\ mat[o] = "satisfied" =>
      st[o] = "waiting" /\ (o \in owed \/ HasLiveChild(st, tree, o))

ReadyUnblocked(st, edges) ==
  \A o \in Obligation : st[o] = "ready" => prerequisitesSatisfied(st, edges, o)

Sound(owed, st, tree, edges, rec, mat, rw, ff, ov) ==
  /\ Typed(st, tree, edges, rec, mat, rw, ff, ov)
  /\ Shaped(st, tree, edges, rec, mat)
  /\ NoLoop(st, tree, edges, rw)
  /\ HoldsParent(st, tree, rw, ff)
  /\ WaitsForCause(owed, st, tree, edges)
  /\ MatcherKept(owed, st, tree, mat, ov)
  /\ ReadyUnblocked(st, edges)

IInv == Sound({}, status, parent, blockedBy, recurring, matcher, reawakened, forfeited, overlooked)

Tables(st, tree, edges, seeds) ==
  /\ st \in [Obligation -> Status]
  /\ tree \in [Obligation -> Obligation \cup {NoParent}]
  /\ edges \subseteq Obligation \X Obligation
  /\ seeds \subseteq Obligation

-----------------------------------------------------------------------------
(* The cascade *)

(* Completing more rows lets more rows complete. *)
LEMMA CascadeMonotone ==
  ASSUME NEW st, NEW tree, NEW edges, NEW seeds, Tables(st, tree, edges, seeds),
         NEW D \in SUBSET Obligation, NEW E \in SUBSET Obligation, D \subseteq E,
         NEW o \in Obligation
  PROVE  /\ o \in Examined(seeds, tree, edges, D) => o \in Examined(seeds, tree, edges, E)
         /\ CompletesByMatcher(D, st, tree, o) => CompletesByMatcher(E, st, tree, o)
<1>1. o \in Examined(seeds, tree, edges, D) => o \in Examined(seeds, tree, edges, E)
  BY DEF Examined
<1>2. HasLiveChild(Finished(st, E), tree, o) => HasLiveChild(Finished(st, D), tree, o)
  BY DEF HasLiveChild, Finished, LiveStatus
<1>. QED
  BY <1>1, <1>2 DEF CompletesByMatcher

(* The least set the cascade can end with is one it ends with. *)
LEMMA CascadeEnds ==
  ASSUME NEW st, NEW tree, NEW edges, NEW seeds, Tables(st, tree, edges, seeds)
  PROVE  CascadeEnded(Completed(seeds, st, tree, edges), seeds, st, tree, edges)
<1>. DEFINE C == Completed(seeds, st, tree, edges)
<1>. HIDE DEF C
<1>1. C \in SUBSET Obligation
  BY DEF C, Completed
<1>2. SUFFICES ASSUME NEW o \in Examined(seeds, tree, edges, C),
                      CompletesByMatcher(C, st, tree, o),
                      NEW D \in SUBSET Obligation, CascadeEnded(D, seeds, st, tree, edges)
               PROVE  o \in D
  <2>1. Examined(seeds, tree, edges, C) \subseteq Obligation
    BY DEF Examined, Tables
  <2>. QED
    BY <2>1 DEF CascadeEnded, C, Completed
<1>3. C \subseteq D
  BY <1>2 DEF C, Completed
<1>4. o \in Obligation
  BY <1>2 DEF Examined, Tables
<1>. QED
  BY <1>1, <1>2, <1>3, <1>4, CascadeMonotone DEF CascadeEnded

(* Only rows that were waiting, with a satisfied matcher and no live child    *)
(* left, are completed.                                                       *)
LEMMA CascadeJustified ==
  ASSUME NEW st, NEW tree, NEW edges, NEW seeds, Tables(st, tree, edges, seeds),
         NEW o \in Completed(seeds, st, tree, edges)
  PROVE  CompletesByMatcher(Completed(seeds, st, tree, edges), st, tree, o)
<1>. DEFINE C == Completed(seeds, st, tree, edges)
            F == {x \in C : CompletesByMatcher(C, st, tree, x)}
<1>. HIDE DEF C
<1>1. C \in SUBSET Obligation /\ o \in C
  BY DEF C, Completed
<1>2. F \in SUBSET Obligation /\ F \subseteq C
  BY <1>1
<1>3. CascadeEnded(C, seeds, st, tree, edges)
  BY CascadeEnds DEF C
<1>4. CascadeEnded(F, seeds, st, tree, edges)
  <2>. SUFFICES ASSUME NEW x \in Examined(seeds, tree, edges, F),
                       CompletesByMatcher(F, st, tree, x)
                PROVE  x \in F
    BY DEF CascadeEnded
  <2>1. x \in Obligation
    BY DEF Examined, Tables
  <2>2. x \in Examined(seeds, tree, edges, C) /\ CompletesByMatcher(C, st, tree, x)
    BY <1>1, <1>2, <2>1, CascadeMonotone
  <2>. QED
    BY <2>2, <1>3 DEF CascadeEnded
<1>5. C \subseteq F
  BY <1>2, <1>4 DEF C, Completed
<1>. QED
  BY <1>1, <1>5 DEF C

(* What tryRelease does to a row: nothing, or it ends a wait for a reason     *)
(* that holds afterwards; and a row it examined that still waits has a cause. *)
LEMMA ReleaseRow ==
  ASSUME NEW st, NEW tree, NEW edges, NEW seeds, Tables(st, tree, edges, seeds),
         NEW r, r = tryRelease(seeds, st, tree, edges),
         NEW o \in Obligation
  PROVE  /\ r \in [Obligation -> Status]
         /\ r[o] # st[o] =>
              /\ st[o] = "waiting" /\ ~HasLiveChild(r, tree, o)
              /\ \/ r[o] = "done" /\ matcher[o] = "satisfied"
                 \/ r[o] = "ready" /\ prerequisitesSatisfied(r, edges, o) /\ matcher[o] # "satisfied"
         /\ r[o] = "waiting" /\ (o \in seeds \/ \E d \in Obligation :
                                   /\ r[d] = "done" /\ st[d] # "done"
                                   /\ tree[d] = o \/ <<o, d>> \in edges) =>
              \/ HasLiveChild(r, tree, o)
              \/ ~prerequisitesSatisfied(r, edges, o) /\ matcher[o] # "satisfied"
<1>. DEFINE C == Completed(seeds, st, tree, edges)
            fin == Finished(st, C)
<1>. HIDE DEF C
<1>1. C \in SUBSET Obligation
  BY DEF C, Completed
<1>2. CascadeEnded(C, seeds, st, tree, edges)
  BY CascadeEnds DEF C
<1>3. \A x \in C : st[x] = "waiting" /\ matcher[x] = "satisfied" /\ ~HasLiveChild(fin, tree, x)
  BY CascadeJustified DEF C, CompletesByMatcher
<1>4. fin \in [Obligation -> Status] /\ \A x \in Obligation : fin[x] = IF x \in C THEN "done" ELSE st[x]
  BY DEF Finished, Tables, Status, TerminalStatus
<1>. DEFINE rel(x) == /\ x \in Examined(seeds, tree, edges, C)
                      /\ fin[x] = "waiting"
                      /\ ~HasLiveChild(fin, tree, x)
                      /\ prerequisitesSatisfied(fin, edges, x)
<1>5. r = [x \in Obligation |-> IF rel(x) THEN "ready" ELSE fin[x]]
  BY DEF tryRelease, C
<1>. HIDE DEF fin
<1>6. r \in [Obligation -> Status] /\ \A x \in Obligation : r[x] = IF rel(x) THEN "ready" ELSE fin[x]
  BY <1>4, <1>5 DEF Status, LiveStatus
<1>7. \A x \in Obligation : HasLiveChild(r, tree, x) <=> HasLiveChild(fin, tree, x)
  BY <1>6 DEF HasLiveChild, LiveStatus
<1>8. \A x \in Obligation : prerequisitesSatisfied(r, edges, x) <=> prerequisitesSatisfied(fin, edges, x)
  <2>1. \A x \in Obligation : prerequisitesOf(edges, x) \subseteq Obligation
    BY DEF prerequisitesOf, Tables
  <2>2. \A x \in Obligation : (r[x] = "done") <=> (fin[x] = "done")
    BY <1>6
  <2>. QED
    BY <2>1, <2>2 DEF prerequisitesSatisfied
<1>9. r[o] # st[o] =>
        /\ st[o] = "waiting" /\ ~HasLiveChild(r, tree, o)
        /\ \/ r[o] = "done" /\ matcher[o] = "satisfied"
           \/ r[o] = "ready" /\ prerequisitesSatisfied(r, edges, o) /\ matcher[o] # "satisfied"
  <2>1. CASE rel(o)
    <3>1. st[o] = "waiting" /\ o \notin C
      BY <2>1, <1>4
    <3>2. matcher[o] # "satisfied"
      BY <2>1, <3>1, <1>2 DEF CascadeEnded, CompletesByMatcher, fin
    <3>. QED
      BY <2>1, <3>1, <3>2, <1>6, <1>7, <1>8
  <2>2. CASE ~rel(o)
    BY <2>2, <1>3, <1>4, <1>6, <1>7
  <2>. QED
    BY <2>1, <2>2
<1>10. ASSUME r[o] = "waiting", o \in seeds \/ \E d \in Obligation :
                                   /\ r[d] = "done" /\ st[d] # "done"
                                   /\ tree[d] = o \/ <<o, d>> \in edges
       PROVE  \/ HasLiveChild(r, tree, o)
              \/ ~prerequisitesSatisfied(r, edges, o) /\ matcher[o] # "satisfied"
  <2>1. \A d \in Obligation : r[d] = "done" /\ st[d] # "done" => d \in C
    BY <1>4, <1>6
  <2>2. o \in Examined(seeds, tree, edges, C)
    BY <1>10, <2>1 DEF Examined
  <2>3. fin[o] = "waiting" /\ st[o] = "waiting" /\ o \notin C /\ ~rel(o)
    BY <1>10, <1>4, <1>6
  <2>4. matcher[o] = "satisfied" => HasLiveChild(fin, tree, o)
    BY <1>2, <2>2, <2>3 DEF CascadeEnded, CompletesByMatcher, fin
  <2>5. HasLiveChild(fin, tree, o) \/ ~prerequisitesSatisfied(fin, edges, o)
    BY <2>2, <2>3
  <2>. QED
    BY <2>4, <2>5, <1>7, <1>8
<1>. QED
  BY <1>6, <1>9, <1>10

-----------------------------------------------------------------------------
(* Graphs *)

LEMMA FewerEdgesAcyclic ==
  ASSUME NEW E, NEW F, Acyclic(E), F \subseteq E
  PROVE  Acyclic(F)
  BY DEF Acyclic

(* Edges from one node to nodes that cannot reach it close no loop. *)
LEMMA AddEdges ==
  ASSUME NEW E, NEW W, Acyclic(E), E \subseteq W,
         NEW d \in Obligation, NEW Q \in SUBSET Obligation,
         \A q \in Q : q # d /\ d \notin Reachable(W, q)
  PROVE  Acyclic(E \cup ({d} \X Q))
<1>. SUFFICES ASSUME NEW S \in (SUBSET Obligation) \ {{}},
                     \A a \in S : \E b \in S : <<a, b>> \in E \cup ({d} \X Q)
              PROVE  FALSE
  BY DEF Acyclic
<1>1. CASE \E q \in Q : <<d, q>> \in {d} \X Q /\ d \in S /\ q \in S
  <2>1. PICK q \in Q : d \in S /\ q \in S
    BY <1>1
  <2>2. PICK T \in SUBSET Obligation : (\A e \in W : e[1] \in T \cup {q} => e[2] \in T) /\ d \notin T
    BY <2>1 DEF Reachable
  <2>. DEFINE U == S \cap (T \cup {q})
  <2>3. U \in (SUBSET Obligation) \ {{}}
    BY <2>1
  <2>4. ASSUME NEW a \in U PROVE \E b \in U : <<a, b>> \in E
    <3>1. a # d
      BY <2>2
    <3>2. PICK b \in S : <<a, b>> \in E \cup ({d} \X Q)
      OBVIOUS
    <3>3. <<a, b>> \in E
      BY <3>1, <3>2
    <3>4. b \in T
      BY <3>3, <2>2
    <3>. QED
      BY <3>3, <3>4
  <2>. QED
    BY <2>3, <2>4 DEF Acyclic
<1>2. CASE ~\E q \in Q : <<d, q>> \in {d} \X Q /\ d \in S /\ q \in S
  <2>1. \A a \in S : \E b \in S : <<a, b>> \in E
    BY <1>2
  <2>. QED
    BY <2>1 DEF Acyclic
<1>. QED
  BY <1>1, <1>2

-----------------------------------------------------------------------------
(* The second half of a transition: releasing what the operation left owed. *)

Kept(rw, r) == {o \in rw : r[o] \in LiveStatus}

LEMMA ReleaseSound ==
  ASSUME NEW owed \in SUBSET Obligation, NEW st, NEW tree, NEW edges, NEW rec, NEW rw,
         NEW ff, NEW ov, NEW r, r = tryRelease(owed, st, tree, edges),
         Sound(owed, st, tree, edges, rec, matcher, rw, ff, ov)
  PROVE  Sound({}, r, tree, edges, rec, matcher, Kept(rw, r), ff, ov)
<1>. USE DEF Sound
<1>1. Tables(st, tree, edges, owed) /\ matcher \in [Obligation -> {"none", "open", "satisfied"}]
  BY DEF Tables, Typed
<1>2. r \in [Obligation -> Status]
  <2>1. CASE Obligation = {}
    <3>1. r = [o \in Obligation |-> st[o]]
      BY <2>1 DEF tryRelease
    <3>. QED
      BY <2>1, <3>1
  <2>2. CASE Obligation # {}
    <3>1. PICK o \in Obligation : TRUE
      BY <2>2
    <3>. QED
      BY <3>1, <1>1, ReleaseRow
  <2>. QED
    BY <2>1, <2>2
<1>3. \A o \in Obligation :
        r[o] # st[o] =>
              /\ st[o] = "waiting" /\ ~HasLiveChild(r, tree, o)
              /\ \/ r[o] = "done" /\ matcher[o] = "satisfied"
                 \/ r[o] = "ready" /\ prerequisitesSatisfied(r, edges, o) /\ matcher[o] # "satisfied"
  BY <1>1, ReleaseRow
<1>4. \A o \in Obligation :
         r[o] = "waiting" /\ (o \in owed \/ \E d \in Obligation :
                                   /\ r[d] = "done" /\ st[d] # "done"
                                   /\ tree[d] = o \/ <<o, d>> \in edges) =>
              \/ HasLiveChild(r, tree, o)
              \/ ~prerequisitesSatisfied(r, edges, o) /\ matcher[o] # "satisfied"
  BY <1>1, ReleaseRow
<1>5. \A o \in Obligation : /\ st[o] \notin LiveStatus => r[o] = st[o]
                            /\ r[o] \in LiveStatus => st[o] \in LiveStatus
                            /\ st[o] = "done" => r[o] = "done"
                            /\ r[o] = "waiting" => st[o] = "waiting"
  BY <1>3 DEF LiveStatus
<1>6. Typed(r, tree, edges, rec, matcher, Kept(rw, r), ff, ov)
  BY <1>2 DEF Typed, Kept
<1>7. Shaped(r, tree, edges, rec, matcher)
  <2>1. \A o \in Obligation : r[o] \in {"absent", "scheduled"} <=> st[o] \in {"absent", "scheduled"}
    BY <1>3
  <2>2. \A o \in Obligation : r[o] = "absent" <=> st[o] = "absent"
    BY <1>3
  <2>3. \A o \in Obligation : r[o] = "scheduled" <=> st[o] = "scheduled"
    BY <1>3
  <2>4. \A o \in rec : o \in Obligation /\ r[o] \notin TerminalStatus \cup {"absent"}
    BY <1>3 DEF Shaped, Typed, TerminalStatus
  <2>5. \A e \in edges : e[1] \in Obligation /\ e[2] \in Obligation
    BY DEF Typed
  <2>6. \A o \in Obligation : tree[o] # NoParent => tree[o] \in Obligation
    BY DEF Typed
  <2>. QED
    BY <2>2, <2>3, <2>4, <2>5, <2>6 DEF Shaped
<1>8. NoLoop(r, tree, edges, Kept(rw, r))
  <2>1. Waited(r, tree, Kept(rw, r)) \subseteq Waited(st, tree, rw)
    BY <1>5 DEF Waited, Kept
  <2>. QED
    BY <2>1, FewerEdgesAcyclic DEF NoLoop
<1>9. HoldsParent(r, tree, Kept(rw, r), ff)
  <2>. SUFFICES ASSUME NEW c \in Obligation,
                       r[c] \in LiveStatus, tree[c] # NoParent, c \notin Kept(rw, r)
                PROVE  \/ r[tree[c]] \in {"waiting", "scheduled"}
                       \/ r[tree[c]] = "ready" /\ tree[c] \in Kept(rw, r)
                       \/ r[tree[c]] = "done" /\ tree[c] \in ff
    BY DEF HoldsParent
  <2>1. tree[c] \in Obligation /\ st[c] \in LiveStatus /\ c \notin rw
    BY <1>5 DEF Typed, Kept
  <2>2. \/ st[tree[c]] \in {"waiting", "scheduled"}
        \/ st[tree[c]] = "ready" /\ tree[c] \in rw
        \/ st[tree[c]] = "done" /\ tree[c] \in ff
    BY <2>1 DEF HoldsParent
  <2>3. HasLiveChild(r, tree, tree[c])
    BY DEF HasLiveChild
  <2>4. r[tree[c]] = st[tree[c]]
    BY <2>1, <2>3, <1>3
  <2>. QED
    BY <2>2, <2>4 DEF Kept, LiveStatus
<1>10. ASSUME NEW o \in Obligation, o \notin owed, r[o] = "waiting", HasLiveChild(st, tree, o)
       PROVE  \/ HasLiveChild(r, tree, o)
              \/ ~prerequisitesSatisfied(r, edges, o) /\ matcher[o] # "satisfied"
  <2>1. PICK c \in Obligation : tree[c] = o /\ st[c] \in LiveStatus
    BY <1>10 DEF HasLiveChild
  <2>2. CASE r[c] \in LiveStatus
    BY <2>1, <2>2 DEF HasLiveChild
  <2>3. CASE r[c] \notin LiveStatus
    <3>1. r[c] = "done" /\ st[c] # "done"
      BY <2>1, <2>3, <1>3 DEF LiveStatus
    <3>2. \E d \in Obligation : r[d] = "done" /\ st[d] # "done" /\ (tree[d] = o \/ <<o, d>> \in edges)
      BY <3>1, <2>1
    <3>. QED
      BY <3>2, <1>4, <1>10
  <2>. QED
    BY <2>2, <2>3
<1>11. WaitsForCause({}, r, tree, edges)
  <2>. SUFFICES ASSUME NEW o \in Obligation, r[o] = "waiting"
                PROVE  HasLiveChild(r, tree, o) \/ ~prerequisitesSatisfied(r, edges, o)
    BY DEF WaitsForCause
  <2>1. CASE o \in owed
    BY <2>1, <1>4
  <2>2. CASE o \notin owed /\ HasLiveChild(st, tree, o)
    BY <2>2, <1>10
  <2>3. CASE o \notin owed /\ ~prerequisitesSatisfied(st, edges, o)
    <3>1. PICK q \in prerequisitesOf(edges, o) : st[q] # "done"
      BY <2>3 DEF prerequisitesSatisfied
    <3>2. q \in Obligation /\ <<o, q>> \in edges
      BY DEF prerequisitesOf, Typed
    <3>3. CASE r[q] # "done"
      BY <3>3 DEF prerequisitesSatisfied
    <3>4. CASE r[q] = "done"
      BY <3>1, <3>2, <3>4, <1>4
    <3>. QED
      BY <3>3, <3>4
  <2>. QED
    BY <2>1, <2>2, <2>3, <1>5 DEF WaitsForCause
<1>12. MatcherKept({}, r, tree, matcher, ov)
  <2>. SUFFICES ASSUME NEW o \in Obligation \ ov, r[o] \notin TerminalStatus, matcher[o] = "satisfied"
                PROVE  r[o] = "waiting" /\ HasLiveChild(r, tree, o)
    BY DEF MatcherKept
  <2>1. st[o] \notin TerminalStatus
    BY <1>3 DEF TerminalStatus
  <2>2. st[o] = "waiting" /\ (o \in owed \/ HasLiveChild(st, tree, o))
    BY <2>1 DEF MatcherKept
  <2>3. CASE r[o] = "waiting"
    BY <2>2, <2>3, <1>4, <1>10
  <2>4. CASE r[o] # "waiting"
    BY <2>2, <2>4, <1>3 DEF TerminalStatus
  <2>. QED
    BY <2>3, <2>4
<1>13. ReadyUnblocked(r, edges)
  <2>. SUFFICES ASSUME NEW o \in Obligation, r[o] = "ready"
                PROVE  prerequisitesSatisfied(r, edges, o)
    BY DEF ReadyUnblocked
  <2>1. CASE st[o] = "ready"
    <3>1. prerequisitesSatisfied(st, edges, o)
      BY <2>1 DEF ReadyUnblocked
    <3>2. prerequisitesOf(edges, o) \subseteq Obligation
      BY DEF prerequisitesOf, Typed
    <3>. QED
      BY <3>1, <3>2, <1>5 DEF prerequisitesSatisfied
  <2>2. CASE st[o] # "ready"
    BY <2>2, <1>3
  <2>. QED
    BY <2>1, <2>2
<1>. QED
  BY <1>6, <1>7, <1>8, <1>9, <1>11, <1>12, <1>13

-----------------------------------------------------------------------------
(* The first half: what each operation writes *)

LEMMA PrerequisiteEdges ==
  ASSUME NEW edges \in SUBSET (Obligation \X Obligation), NEW o, NEW q
  PROVE  /\ q \in prerequisitesOf(edges, o) <=> <<o, q>> \in edges
         /\ q \in dependentsOf(edges, o) <=> <<q, o>> \in edges
         /\ prerequisitesOf(edges, o) \subseteq Obligation
         /\ dependentsOf(edges, o) \subseteq Obligation
  BY DEF prerequisitesOf, dependentsOf

LEMMA DemotedRow ==
  ASSUME NEW st \in [Obligation -> Status], NEW p
  PROVE  /\ Demoted(st, p) \in [Obligation -> Status]
         /\ \A x \in Obligation :
              Demoted(st, p)[x] = IF x = p /\ st[x] = "ready" THEN "waiting" ELSE st[x]
  BY DEF Demoted, Status, LiveStatus

(* A row leaves the live ones: it is closed, or sleeps until its next cycle. *)
LEMMA LeaveSound ==
  ASSUME IInv, NEW o \in Obligation, Usable(o),
         NEW to \in {"done", "cancelled", "scheduled"},
         NEW ff \in SUBSET Obligation, forfeited \subseteq ff,
         NEW rec, rec = (IF to = "scheduled" THEN recurring ELSE recurring \ {o}),
         to = "scheduled" => o \in recurring,
         HasLiveChild(status, parent, o) => to = "done" /\ o \in ff
  PROVE  Sound(({parent[o]} \ {NoParent})
                  \cup (IF to = "done" THEN dependentsOf(blockedBy, o) ELSE {}),
               [status EXCEPT ![o] = to], parent, blockedBy, rec, matcher, reawakened, ff, overlooked)
<1>. DEFINE owed == ({parent[o]} \ {NoParent})
                       \cup (IF to = "done" THEN dependentsOf(blockedBy, o) ELSE {})
            st == [status EXCEPT ![o] = to]
<1>. USE DEF IInv, Sound
<1>1. /\ status \in [Obligation -> Status] /\ parent \in [Obligation -> Obligation \cup {NoParent}]
      /\ blockedBy \in SUBSET (Obligation \X Obligation) /\ recurring \subseteq Obligation
  BY DEF Typed
<1>2. st \in [Obligation -> Status] /\ \A x \in Obligation : st[x] = IF x = o THEN to ELSE status[x]
  BY <1>1 DEF Status, TerminalStatus
<1>3. status[o] \notin {"done", "cancelled", "absent"}
  BY DEF Usable, TerminalStatus
<1>4. dependentsOf(blockedBy, o) \subseteq Obligation
  BY <1>1, PrerequisiteEdges
<1>. HIDE DEF st
<1>5. Typed(st, parent, blockedBy, rec, matcher, reawakened, ff, overlooked)
  BY <1>1, <1>2 DEF Typed
<1>6. Shaped(st, parent, blockedBy, rec, matcher)
  <2>1. \A x \in Obligation : st[x] = "absent" <=> status[x] = "absent"
    BY <1>2, <1>3
  <2>2. \A x \in Obligation : st[x] = "scheduled" => x \in rec
    BY <1>2 DEF Shaped
  <2>3. \A x \in rec : st[x] \notin TerminalStatus \cup {"absent"} /\ matcher[x] = "none"
    BY <1>1, <1>2 DEF Shaped, TerminalStatus
  <2>4. \A e \in blockedBy : /\ {e[1], e[2]} \cap rec = {}
                             /\ st[e[1]] # "absent" /\ st[e[2]] # "absent"
    BY <2>1, <1>1 DEF Shaped
  <2>5. \A x \in Obligation :
          /\ parent[x] # NoParent => st[x] # "absent" /\ st[parent[x]] # "absent"
          /\ matcher[x] # "none" => st[x] # "absent"
    BY <2>1, <1>1 DEF Shaped
  <2>. QED
    BY <2>2, <2>3, <2>4, <2>5 DEF Shaped
<1>7. NoLoop(st, parent, blockedBy, reawakened)
  <2>1. Waited(st, parent, reawakened) \subseteq Waited(status, parent, reawakened)
    BY <1>2 DEF Waited, LiveStatus
  <2>. QED
    BY <2>1, FewerEdgesAcyclic DEF NoLoop
<1>8. HoldsParent(st, parent, reawakened, ff)
  <2>. SUFFICES ASSUME NEW c \in Obligation,
                       st[c] \in LiveStatus, parent[c] # NoParent, c \notin reawakened
                PROVE  \/ st[parent[c]] \in {"waiting", "scheduled"}
                       \/ st[parent[c]] = "ready" /\ parent[c] \in reawakened
                       \/ st[parent[c]] = "done" /\ parent[c] \in ff
    BY DEF HoldsParent
  <2>1. c # o /\ status[c] \in LiveStatus /\ parent[c] \in Obligation
    BY <1>1, <1>2 DEF LiveStatus
  <2>2. CASE parent[c] = o
    BY <2>1, <2>2, <1>2 DEF HasLiveChild
  <2>3. CASE parent[c] # o
    BY <2>1, <2>3, <1>2 DEF HoldsParent
  <2>. QED
    BY <2>2, <2>3
<1>9. \A x \in Obligation \ owed : HasLiveChild(status, parent, x) => HasLiveChild(st, parent, x)
  <2>. SUFFICES ASSUME NEW x \in Obligation \ owed, HasLiveChild(status, parent, x)
                PROVE  HasLiveChild(st, parent, x)
    OBVIOUS
  <2>1. PICK c \in Obligation : parent[c] = x /\ status[c] \in LiveStatus
    BY DEF HasLiveChild
  <2>2. c # o
    BY <2>1, ObligationAssumption
  <2>. QED
    BY <2>1, <2>2, <1>2 DEF HasLiveChild
<1>10. WaitsForCause(owed, st, parent, blockedBy)
  <2>. SUFFICES ASSUME NEW x \in Obligation \ owed, st[x] = "waiting"
                PROVE  HasLiveChild(st, parent, x) \/ ~prerequisitesSatisfied(st, blockedBy, x)
    BY DEF WaitsForCause
  <2>1. status[x] = "waiting"
    BY <1>2
  <2>2. CASE HasLiveChild(status, parent, x)
    BY <2>2, <1>9
  <2>3. CASE ~prerequisitesSatisfied(status, blockedBy, x)
    <3>1. PICK q \in Obligation : <<x, q>> \in blockedBy /\ status[q] # "done"
      BY <2>3, <1>1, PrerequisiteEdges DEF prerequisitesSatisfied
    <3>2. st[q] # "done"
      BY <3>1, <1>1, <1>2, PrerequisiteEdges
    <3>. QED
      BY <3>1, <3>2, <1>1, PrerequisiteEdges DEF prerequisitesSatisfied
  <2>. QED
    BY <2>1, <2>2, <2>3 DEF WaitsForCause
<1>11. MatcherKept(owed, st, parent, matcher, overlooked)
  <2>. SUFFICES ASSUME NEW x \in Obligation \ overlooked, st[x] \notin TerminalStatus,
                       matcher[x] = "satisfied"
                PROVE  st[x] = "waiting" /\ (x \in owed \/ HasLiveChild(st, parent, x))
    BY DEF MatcherKept
  <2>1. x # o
    BY <1>2, <1>1 DEF Shaped, TerminalStatus
  <2>2. st[x] = status[x]
    BY <2>1, <1>2
  <2>3. status[x] = "waiting" /\ HasLiveChild(status, parent, x)
    BY <2>2 DEF MatcherKept
  <2>. QED
    BY <2>2, <2>3, <1>9
<1>12. ReadyUnblocked(st, blockedBy)
  <2>. SUFFICES ASSUME NEW x \in Obligation, st[x] = "ready",
                       NEW q \in Obligation, <<x, q>> \in blockedBy
                PROVE  st[q] = "done"
    BY <1>1, PrerequisiteEdges DEF ReadyUnblocked, prerequisitesSatisfied
  <2>1. status[x] = "ready"
    BY <1>2
  <2>2. status[q] = "done"
    BY <2>1, <1>1, PrerequisiteEdges DEF ReadyUnblocked, prerequisitesSatisfied
  <2>. QED
    BY <2>2, <1>2, <1>3
<1>. QED
  BY <1>5, <1>6, <1>7, <1>8, <1>10, <1>11, <1>12 DEF st

LEMMA setTerminalStatusSound ==
  ASSUME IInv, NEW o \in Obligation, NEW to \in TerminalStatus, setTerminalStatus(o, to)
  PROVE  IInv'
<1>. DEFINE end == IF to = "done" /\ o \in recurring THEN "scheduled" ELSE to
<1>1. /\ Usable(o) /\ ~HasLiveChild(status, parent, o) /\ Leave(o, end)
      /\ recurring' = IF end = "scheduled" THEN recurring ELSE recurring \ {o}
      /\ end \in {"done", "cancelled", "scheduled"}
      /\ end = "scheduled" => o \in recurring
  BY DEF setTerminalStatus, TerminalStatus
<1>2. /\ parent' = parent /\ matcher' = matcher /\ blockedBy' = blockedBy
      /\ forfeited' = forfeited /\ overlooked' = overlooked
      /\ reawakened' = Kept(reawakened, status')
  BY DEF setTerminalStatus, KeepHistory, NowReawakened, Kept
<1>. HIDE DEF end
<1>3. forfeited \in SUBSET Obligation
  BY DEF IInv, Sound, Typed
<1>4. Sound(({parent[o]} \ {NoParent})
                  \cup (IF end = "done" THEN dependentsOf(blockedBy, o) ELSE {}),
            [status EXCEPT ![o] = end], parent, blockedBy, recurring', matcher, reawakened,
            forfeited, overlooked)
  BY <1>1, <1>3, LeaveSound
<1>5. ({parent[o]} \ {NoParent}) \cup (IF end = "done" THEN dependentsOf(blockedBy, o) ELSE {})
        \in SUBSET Obligation
  <2>1. /\ blockedBy \in SUBSET (Obligation \X Obligation)
        /\ parent[o] \in Obligation \cup {NoParent}
    BY DEF IInv, Sound, Typed
  <2>2. dependentsOf(blockedBy, o) \subseteq Obligation
    BY <2>1, PrerequisiteEdges
  <2>. QED
    BY <2>1, <2>2
<1>6. Sound({}, status', parent, blockedBy, recurring', matcher, Kept(reawakened, status'),
            forfeited, overlooked)
  BY <1>1, <1>4, <1>5, ReleaseSound DEF Leave
<1>. QED
  BY <1>2, <1>6 DEF IInv

LEMMA stopRecurrenceSound ==
  ASSUME IInv, NEW o \in Obligation, stopRecurrence(o)
  PROVE  IInv'
<1>1. /\ Usable(o) /\ o \in recurring /\ recurring' = recurring \ {o}
      /\ parent' = parent /\ matcher' = matcher /\ blockedBy' = blockedBy /\ overlooked' = overlooked
      /\ reawakened' = Kept(reawakened, status')
  BY DEF stopRecurrence, NowReawakened, Kept
<1>2. CASE status[o] = "scheduled"
  <2>. DEFINE owed == {parent[o]} \ {NoParent}
              ff == forfeited \cup {o}
  <2>1. /\ status' = tryRelease(owed, [status EXCEPT ![o] = "done"], parent, blockedBy)
        /\ forfeited' = ff
    BY <1>2 DEF stopRecurrence
  <2>2. ff \in SUBSET Obligation /\ owed \in SUBSET Obligation /\ dependentsOf(blockedBy, o) = {}
    <3>1. \A q : <<q, o>> \notin blockedBy
      BY <1>1 DEF IInv, Sound, Shaped
    <3>2. /\ blockedBy \in SUBSET (Obligation \X Obligation) /\ forfeited \in SUBSET Obligation
          /\ parent[o] \in Obligation \cup {NoParent}
      BY DEF IInv, Sound, Typed
    <3>3. dependentsOf(blockedBy, o) = {}
      BY <3>1, <3>2, PrerequisiteEdges
    <3>. QED
      BY <3>2, <3>3
  <2>3. Sound(owed, [status EXCEPT ![o] = "done"], parent, blockedBy, recurring', matcher,
              reawakened, ff, overlooked)
    <3>1. Sound(({parent[o]} \ {NoParent})
                  \cup (IF "done" = "done" THEN dependentsOf(blockedBy, o) ELSE {}),
               [status EXCEPT ![o] = "done"], parent, blockedBy, recurring', matcher, reawakened,
               ff, overlooked)
      BY <1>1, <2>2, LeaveSound
    <3>2. ({parent[o]} \ {NoParent})
            \cup (IF "done" = "done" THEN dependentsOf(blockedBy, o) ELSE {}) = owed
      BY <2>2
    <3>. QED
      BY <3>1, <3>2
  <2>. HIDE DEF owed, ff
  <2>4. Sound({}, status', parent, blockedBy, recurring', matcher, Kept(reawakened, status'),
              ff, overlooked)
    BY <2>1, <2>2, <2>3, ReleaseSound
  <2>. QED
    BY <1>1, <2>1, <2>4 DEF IInv
<1>3. CASE status[o] # "scheduled"
  <2>1. status' = status /\ forfeited' = forfeited
    BY <1>3 DEF stopRecurrence
  <2>2. Waited(status, parent, reawakened') = Waited(status, parent, reawakened)
    BY <1>1, <2>1 DEF Waited, Kept
  <2>3. NoLoop(status, parent, blockedBy, reawakened')
    BY <2>2 DEF IInv, Sound, NoLoop
  <2>. QED
    BY <1>1, <1>3, <2>1, <2>3 DEF IInv, Sound, Typed, Shaped, HoldsParent, Kept, LiveStatus
<1>. QED
  BY <1>2, <1>3

LEMMA satisfyCompletionMatcherSound ==
  ASSUME IInv, NEW o \in Obligation, satisfyCompletionMatcher(o)
  PROVE  IInv'
<1>1. /\ Usable(o) /\ matcher[o] # "none"
      /\ matcher' = [matcher EXCEPT ![o] = "satisfied"]
      /\ parent' = parent /\ recurring' = recurring /\ blockedBy' = blockedBy
      /\ forfeited' = forfeited
      /\ reawakened' = Kept(reawakened, status')
  BY DEF satisfyCompletionMatcher, NowReawakened, Kept
<1>2. o \notin recurring /\ status[o] # "scheduled"
  BY <1>1 DEF IInv, Sound, Shaped
<1>3. /\ matcher' \in [Obligation -> {"none", "open", "satisfied"}]
      /\ \A x \in Obligation : matcher'[x] = IF x = o THEN "satisfied" ELSE matcher[x]
  BY <1>1 DEF IInv, Sound, Typed
<1>4. CASE HasLiveChild(status, parent, o)
  <2>1. status' = status /\ overlooked' = overlooked \cup {x \in {o} : status[x] = "ready"}
    BY <1>4 DEF satisfyCompletionMatcher
  <2>2. MatcherKept({}, status, parent, matcher', overlooked')
    <3>. SUFFICES ASSUME NEW x \in Obligation \ overlooked', status[x] \notin TerminalStatus,
                         matcher'[x] = "satisfied"
                  PROVE  status[x] = "waiting" /\ HasLiveChild(status, parent, x)
      BY DEF MatcherKept
    <3>1. CASE x = o
      <4>1. status[o] \in Status /\ status[o] # "ready"
        BY <2>1, <3>1 DEF IInv, Sound, Typed
      <4>2. status[o] = "waiting"
        BY <4>1, <1>1, <1>2 DEF Usable, Status, LiveStatus
      <4>. QED
        BY <3>1, <4>2, <1>4
    <3>2. CASE x # o
      BY <3>2, <1>3, <2>1 DEF IInv, Sound, MatcherKept
    <3>. QED
      BY <3>1, <3>2
  <2>3. Shaped(status, parent, blockedBy, recurring, matcher')
    BY <1>1, <1>2, <1>3 DEF IInv, Sound, Shaped, Usable, Typed
  <2>4. Typed(status, parent, blockedBy, recurring, matcher', reawakened', forfeited, overlooked')
    BY <1>1, <1>3, <2>1 DEF IInv, Sound, Typed, Kept
  <2>5. NoLoop(status, parent, blockedBy, reawakened') /\ HoldsParent(status, parent, reawakened', forfeited)
    BY <1>1, <2>1 DEF IInv, Sound, NoLoop, Waited, HoldsParent, Kept, Acyclic, LiveStatus
  <2>. QED
    BY <1>1, <2>1, <2>2, <2>3, <2>4, <2>5 DEF IInv, Sound
<1>5. CASE ~HasLiveChild(status, parent, o)
  <2>. DEFINE owed == ({parent[o]} \ {NoParent})
                        \cup (IF "done" = "done" THEN dependentsOf(blockedBy, o) ELSE {})
              st == [status EXCEPT ![o] = "done"]
  <2>1. /\ status' = tryRelease(owed, st, parent, blockedBy)
        /\ overlooked' = overlooked
    BY <1>5 DEF satisfyCompletionMatcher, Leave
  <2>2. /\ blockedBy \in SUBSET (Obligation \X Obligation) /\ forfeited \in SUBSET Obligation
        /\ parent[o] \in Obligation \cup {NoParent}
    BY DEF IInv, Sound, Typed
  <2>3. owed \in SUBSET Obligation
    BY <2>2, PrerequisiteEdges
  <2>4. Sound(owed, st, parent, blockedBy, recurring, matcher, reawakened, forfeited, overlooked)
    <3>1. recurring = recurring \ {o}
      BY <1>2
    <3>. QED
      BY <1>1, <1>5, <2>2, <3>1, LeaveSound
  <2>5. status'[o] = "done"
    <3>1. Tables(st, parent, blockedBy, owed)
      BY <2>3, <2>4 DEF Sound, Typed, Tables
    <3>2. st[o] = "done"
      BY DEF IInv, Sound, Typed
    <3>. HIDE DEF st, owed
    <3>3. status'[o] # st[o] => st[o] = "waiting"
      BY <3>1, <2>1, ReleaseRow
    <3>. QED
      BY <3>2, <3>3
  <2>. HIDE DEF owed, st
  <2>6. Sound({}, status', parent, blockedBy, recurring, matcher, Kept(reawakened, status'),
              forfeited, overlooked)
    BY <2>1, <2>3, <2>4, ReleaseSound
  <2>7. MatcherKept({}, status', parent, matcher', overlooked)
    BY <2>5, <2>6, <1>3 DEF Sound, MatcherKept, TerminalStatus
  <2>8. Shaped(status', parent, blockedBy, recurring, matcher')
    BY <2>5, <2>6, <1>2, <1>3 DEF Sound, Shaped, Typed
  <2>9. Typed(status', parent, blockedBy, recurring, matcher', Kept(reawakened, status'), forfeited, overlooked)
    BY <2>6, <1>3 DEF Sound, Typed
  <2>. QED
    BY <1>1, <2>1, <2>6, <2>7, <2>8, <2>9 DEF IInv, Sound
<1>. QED
  BY <1>4, <1>5

LEMMA setCompletionMatcherSound ==
  ASSUME IInv, NEW o \in Obligation, NEW m \in {"none", "open"}, setCompletionMatcher(o, m)
  PROVE  IInv'
<1>1. /\ Usable(o) /\ o \notin recurring
      /\ \A x \in Obligation : matcher'[x] = IF x = o THEN m ELSE matcher[x]
      /\ matcher' \in [Obligation -> {"none", "open", "satisfied"}]
      /\ UNCHANGED <<status, parent, recurring, blockedBy, reawakened, forfeited, overlooked>>
  BY DEF setCompletionMatcher, history, IInv, Sound, Typed
<1>2. Shaped(status, parent, blockedBy, recurring, matcher')
  BY <1>1 DEF IInv, Sound, Shaped, Usable, Typed
<1>3. MatcherKept({}, status, parent, matcher', overlooked)
  BY <1>1 DEF IInv, Sound, MatcherKept
<1>. QED
  BY <1>1, <1>2, <1>3 DEF IInv, Sound, Typed

(* A row outside the prerequisite graph becomes, or is, a recurring one. *)
LEMMA RecurringSound ==
  ASSUME IInv, NEW o \in Obligation, Usable(o), matcher[o] = "none",
         \A e \in blockedBy : o \notin {e[1], e[2]}
  PROVE  Sound({}, status, parent, blockedBy, recurring \cup {o}, matcher, reawakened,
               forfeited, overlooked)
<1>1. Shaped(status, parent, blockedBy, recurring \cup {o}, matcher)
  BY DEF IInv, Sound, Shaped, Usable
<1>. QED
  BY <1>1 DEF IInv, Sound, Typed

(* The history remembers the rows a schedule put back to work inside a tree;  *)
(* that is all the tree relies on.                                            *)
LEMMA ActivateSound ==
  ASSUME NEW rec, NEW o \in rec,
         Sound({}, status, parent, blockedBy, rec, matcher, reawakened, forfeited, overlooked),
         status[o] = "scheduled", Activate(o)
  PROVE  Sound({}, status', parent, blockedBy, rec, matcher, reawakened', forfeited, overlooked)
<1>. USE DEF Sound
<1>1. /\ o \in Obligation /\ status' \in [Obligation -> Status]
      /\ \A x \in Obligation : status'[x] = IF x = o THEN "ready" ELSE status[x]
  BY DEF Activate, Typed, Status, LiveStatus
<1>2. /\ reawakened' = {x \in reawakened \cup (IF InTree(o) THEN {o} ELSE {}) : status'[x] \in LiveStatus}
      /\ reawakened' \subseteq Obligation
  BY <1>1 DEF Activate, NowReawakened, Typed
<1>3. Typed(status', parent, blockedBy, rec, matcher, reawakened', forfeited, overlooked)
  BY <1>1, <1>2 DEF Typed
<1>4. Shaped(status', parent, blockedBy, rec, matcher)
  BY <1>1 DEF Shaped, Typed, TerminalStatus
<1>5. NoLoop(status', parent, blockedBy, reawakened')
  <2>1. Waited(status', parent, reawakened') \subseteq Waited(status, parent, reawakened)
    <3>. SUFFICES ASSUME NEW c \in Obligation, c \notin reawakened', status'[c] \in LiveStatus,
                         parent[c] # NoParent
                  PROVE  c \notin reawakened /\ status[c] \in LiveStatus
      BY DEF Waited
    <3>1. c # o
      BY <1>1, <1>2 DEF InTree, LiveStatus
    <3>. QED
      BY <3>1, <1>1, <1>2
  <2>. QED
    BY <2>1, FewerEdgesAcyclic DEF NoLoop
<1>6. HoldsParent(status', parent, reawakened', forfeited)
  <2>. SUFFICES ASSUME NEW c \in Obligation,
                       status'[c] \in LiveStatus, parent[c] # NoParent, c \notin reawakened'
                PROVE  \/ status'[parent[c]] \in {"waiting", "scheduled"}
                       \/ status'[parent[c]] = "ready" /\ parent[c] \in reawakened'
                       \/ status'[parent[c]] = "done" /\ parent[c] \in forfeited
    BY DEF HoldsParent
  <2>1. c # o
    BY <1>1, <1>2 DEF InTree, LiveStatus
  <2>2. status[c] \in LiveStatus /\ c \notin reawakened /\ parent[c] \in Obligation
    BY <2>1, <1>1, <1>2 DEF Typed
  <2>3. CASE parent[c] = o
    <3>1. InTree(o)
      BY <2>2, <2>3 DEF InTree, HasLiveChild
    <3>. QED
      BY <3>1, <2>3, <1>1, <1>2 DEF LiveStatus
  <2>4. CASE parent[c] # o
    BY <2>2, <2>4, <1>1, <1>2 DEF HoldsParent, LiveStatus
  <2>. QED
    BY <2>3, <2>4
<1>7. \A x \in Obligation : HasLiveChild(status, parent, x) => HasLiveChild(status', parent, x)
  BY <1>1 DEF HasLiveChild, LiveStatus
<1>8. \A x \in Obligation : prerequisitesSatisfied(status, blockedBy, x)
                              <=> prerequisitesSatisfied(status', blockedBy, x)
  <2>1. \A x \in Obligation : prerequisitesOf(blockedBy, x) \subseteq Obligation
    BY PrerequisiteEdges DEF Typed
  <2>. QED
    BY <2>1, <1>1 DEF prerequisitesSatisfied
<1>9. WaitsForCause({}, status', parent, blockedBy)
  BY <1>1, <1>7, <1>8 DEF WaitsForCause
<1>10. MatcherKept({}, status', parent, matcher, overlooked)
  BY <1>1, <1>7 DEF MatcherKept, Shaped
<1>11. ReadyUnblocked(status', blockedBy)
  <2>. \A q : <<o, q>> \notin blockedBy
    BY DEF Shaped
  <2>1. prerequisitesOf(blockedBy, o) = {}
    BY PrerequisiteEdges DEF Typed
  <2>2. prerequisitesSatisfied(status', blockedBy, o)
    BY <2>1 DEF prerequisitesSatisfied
  <2>. QED
    BY <2>2, <1>1, <1>8 DEF ReadyUnblocked
<1>. QED
  BY <1>3, <1>4, <1>5, <1>6, <1>9, <1>10, <1>11

LEMMA activateScheduledSound ==
  ASSUME IInv, NEW o \in Obligation, activateScheduled(o)
  PROVE  IInv'
<1>1. status[o] = "scheduled" /\ o \in recurring /\ Activate(o)
  BY DEF activateScheduled, IInv, Sound, Shaped
<1>2. Sound({}, status', parent, blockedBy, recurring, matcher, reawakened', forfeited, overlooked)
  BY <1>1, ActivateSound DEF IInv
<1>. QED
  BY <1>2 DEF IInv, activateScheduled

LEMMA startRecurrenceSound ==
  ASSUME IInv, NEW o \in Obligation, startRecurrence(o)
  PROVE  IInv'
<1>1. Sound({}, status, parent, blockedBy, recurring', matcher, reawakened, forfeited, overlooked)
  BY RecurringSound DEF startRecurrence
<1>2. CASE UNCHANGED <<status, reawakened>>
  BY <1>1, <1>2 DEF IInv, startRecurrence
<1>3. CASE status[o] = "scheduled" /\ Activate(o)
  <2>1. o \in recurring'
    BY DEF startRecurrence
  <2>2. Sound({}, status', parent, blockedBy, recurring', matcher, reawakened', forfeited, overlooked)
    BY <1>1, <1>3, <2>1, ActivateSound
  <2>. QED
    BY <2>2 DEF IInv, startRecurrence
<1>. QED
  BY <1>2, <1>3 DEF startRecurrence

LEMMA removePrerequisiteSound ==
  ASSUME IInv, NEW o \in Obligation, NEW q \in Obligation, removePrerequisite(o, q)
  PROVE  IInv'
<1>1. /\ blockedBy' = blockedBy \ {<<o, q>>}
      /\ status' = tryRelease({o}, status, parent, blockedBy')
      /\ reawakened' = Kept(reawakened, status')
      /\ UNCHANGED <<parent, recurring, matcher, forfeited, overlooked>>
  BY DEF removePrerequisite, KeepHistory, NowReawakened, Kept
<1>2. Typed(status, parent, blockedBy', recurring, matcher, reawakened, forfeited, overlooked)
  BY <1>1 DEF IInv, Sound, Typed
<1>3. Shaped(status, parent, blockedBy', recurring, matcher)
  BY <1>1 DEF IInv, Sound, Shaped
<1>4. NoLoop(status, parent, blockedBy', reawakened)
  <2>1. blockedBy' \cup Waited(status, parent, reawakened)
          \subseteq blockedBy \cup Waited(status, parent, reawakened)
    BY <1>1
  <2>. QED
    BY <2>1, FewerEdgesAcyclic DEF IInv, Sound, NoLoop
<1>5. \A x \in Obligation \ {o} : prerequisitesSatisfied(status, blockedBy', x)
                                    <=> prerequisitesSatisfied(status, blockedBy, x)
  BY <1>1 DEF prerequisitesSatisfied, prerequisitesOf
<1>6. WaitsForCause({o}, status, parent, blockedBy')
  BY <1>5 DEF IInv, Sound, WaitsForCause
<1>7. MatcherKept({o}, status, parent, matcher, overlooked)
  BY DEF IInv, Sound, MatcherKept
<1>8. ReadyUnblocked(status, blockedBy')
  BY <1>1 DEF IInv, Sound, ReadyUnblocked, prerequisitesSatisfied, prerequisitesOf
<1>9. Sound({o}, status, parent, blockedBy', recurring, matcher, reawakened, forfeited, overlooked)
  BY <1>2, <1>3, <1>4, <1>6, <1>7, <1>8 DEF IInv, Sound
<1>10. Sound({}, status', parent, blockedBy', recurring, matcher, Kept(reawakened, status'),
             forfeited, overlooked)
  BY <1>1, <1>9, ReleaseSound
<1>. QED
  BY <1>1, <1>10 DEF IInv

(* The refusals of wouldCreateCycle walk at least the graph NoLoop is about. *)
LEMMA WaitedInWaitsFor ==
  ASSUME NEW rw
  PROVE  blockedBy \cup Waited(status, parent, rw) \subseteq WaitsFor
  BY DEF Waited, WaitsFor, ChildEdges

LEMMA addPrerequisiteSound ==
  ASSUME IInv, NEW o \in Obligation, NEW q \in Obligation, addPrerequisite(o, q)
  PROVE  IInv'
<1>. USE DEF IInv, Sound
<1>1. /\ o # q /\ Usable(o) /\ status[q] # "absent" /\ q \notin recurring /\ o \notin recurring
      /\ ~wouldCreateCycle(o, q)
      /\ blockedBy' = blockedBy \cup {<<o, q>>}
      /\ status' = IF status[q] = "done" THEN status ELSE Demoted(status, o)
      /\ reawakened' = Kept(reawakened, status')
      /\ UNCHANGED <<parent, recurring, matcher, forfeited, overlooked>>
  BY DEF addPrerequisite, KeepHistory, NowReawakened, Kept
<1>2. /\ status' \in [Obligation -> Status]
      /\ \A x \in Obligation :
           status'[x] = IF x = o /\ status[x] = "ready" /\ status[q] # "done" THEN "waiting" ELSE status[x]
  BY <1>1, DemotedRow DEF Typed
<1>3. \A x \in Obligation : /\ status'[x] \in LiveStatus <=> status[x] \in LiveStatus
                            /\ status'[x] \in TerminalStatus <=> status[x] \in TerminalStatus
                            /\ status'[x] = "done" <=> status[x] = "done"
                            /\ status'[x] = "absent" <=> status[x] = "absent"
                            /\ status'[x] = "scheduled" <=> status[x] = "scheduled"
  BY <1>2 DEF LiveStatus, TerminalStatus
<1>4. Typed(status', parent, blockedBy', recurring, matcher, reawakened', forfeited, overlooked)
  BY <1>1, <1>2 DEF Typed, Kept
<1>5. Shaped(status', parent, blockedBy', recurring, matcher)
  <2>1. \A e \in blockedBy' : /\ {e[1], e[2]} \cap recurring = {}
                              /\ status'[e[1]] # "absent" /\ status'[e[2]] # "absent"
    <3>. SUFFICES ASSUME NEW e \in blockedBy'
                  PROVE  /\ {e[1], e[2]} \cap recurring = {}
                         /\ status'[e[1]] # "absent" /\ status'[e[2]] # "absent"
      OBVIOUS
    <3>1. CASE e = <<o, q>>
      BY <3>1, <1>1, <1>3 DEF Usable
    <3>2. CASE e \in blockedBy
      BY <3>2, <1>3 DEF Shaped, Typed
    <3>. QED
      BY <3>1, <3>2, <1>1
  <2>. QED
    BY <2>1, <1>3 DEF Shaped, Typed
<1>6. NoLoop(status', parent, blockedBy', reawakened')
  <2>. DEFINE E == blockedBy \cup Waited(status, parent, reawakened)
  <2>1. Acyclic(E) /\ E \subseteq WaitsFor
    BY WaitedInWaitsFor DEF NoLoop
  <2>2. o \notin Reachable(WaitsFor, q)
    BY <1>1 DEF wouldCreateCycle
  <2>. HIDE DEF E
  <2>3. Acyclic(E \cup ({o} \X {q}))
    BY <2>1, <2>2, <1>1, AddEdges
  <2>4. blockedBy' \cup Waited(status', parent, reawakened') \subseteq E \cup ({o} \X {q})
    BY <1>1, <1>3 DEF E, Waited, Kept
  <2>. QED
    BY <2>3, <2>4, FewerEdgesAcyclic DEF NoLoop
<1>7. HoldsParent(status', parent, reawakened', forfeited)
  BY <1>1, <1>2, <1>3 DEF HoldsParent, Kept, Typed, LiveStatus
<1>8. \A x \in Obligation : HasLiveChild(status', parent, x) <=> HasLiveChild(status, parent, x)
  BY <1>3 DEF HasLiveChild
<1>9. \A x \in Obligation : /\ prerequisitesSatisfied(status', blockedBy', x)
                                 => prerequisitesSatisfied(status, blockedBy, x)
                            /\ x # o \/ status[q] = "done" =>
                                 (prerequisitesSatisfied(status, blockedBy, x)
                                    => prerequisitesSatisfied(status', blockedBy', x))
  <2>1. \A x \in Obligation : prerequisitesOf(blockedBy', x) \subseteq Obligation
    BY PrerequisiteEdges, <1>4 DEF Typed
  <2>2. \A x \in Obligation : prerequisitesOf(blockedBy, x) \subseteq prerequisitesOf(blockedBy', x)
    BY <1>1 DEF prerequisitesOf
  <2>3. \A x \in Obligation : \A y \in prerequisitesOf(blockedBy', x) :
           y \in prerequisitesOf(blockedBy, x) \/ (x = o /\ y = q)
    BY <1>1 DEF prerequisitesOf
  <2>. QED
    BY <2>1, <2>2, <2>3, <1>3 DEF prerequisitesSatisfied
<1>10. WaitsForCause({}, status', parent, blockedBy')
  <2>. SUFFICES ASSUME NEW x \in Obligation, status'[x] = "waiting"
                PROVE  HasLiveChild(status', parent, x) \/ ~prerequisitesSatisfied(status', blockedBy', x)
    BY DEF WaitsForCause
  <2>1. CASE status[x] = "waiting"
    BY <2>1, <1>8, <1>9 DEF WaitsForCause
  <2>2. CASE status[x] # "waiting"
    <3>1. x = o /\ status[q] # "done"
      BY <2>2, <1>2
    <3>2. q \in prerequisitesOf(blockedBy', o)
      BY <1>1, <1>4, PrerequisiteEdges DEF Typed
    <3>. QED
      BY <3>1, <3>2, <1>3 DEF prerequisitesSatisfied
  <2>. QED
    BY <2>1, <2>2
<1>11. MatcherKept({}, status', parent, matcher, overlooked)
  BY <1>2, <1>3, <1>8 DEF MatcherKept
<1>12. ReadyUnblocked(status', blockedBy')
  BY <1>2, <1>9 DEF ReadyUnblocked
<1>. QED
  BY <1>1, <1>4, <1>5, <1>6, <1>7, <1>10, <1>11, <1>12

(* Nobody names a row that does not exist yet. *)
LEMMA AbsentUnnamed ==
  ASSUME IInv, NEW o \in Obligation, status[o] = "absent"
  PROVE  /\ o \notin recurring /\ parent[o] = NoParent /\ matcher[o] = "none"
         /\ \A x \in Obligation : parent[x] # o
         /\ \A e \in blockedBy : e[1] # o /\ e[2] # o
         /\ \A e \in WaitsFor : e[1] # o /\ e[2] # o
<1>1. \A e \in blockedBy : e[1] # o /\ e[2] # o
  BY DEF IInv, Sound, Shaped
<1>2. /\ o \notin recurring /\ parent[o] = NoParent /\ matcher[o] = "none"
      /\ \A x \in Obligation : parent[x] # o
  BY ObligationAssumption DEF IInv, Sound, Shaped
<1>3. \A e \in WaitsFor : e[1] # o /\ e[2] # o
  BY <1>1, <1>2 DEF WaitsFor, ChildEdges, LiveStatus
<1>. QED
  BY <1>1, <1>2, <1>3

(* A new row's prerequisites, none of which waits for its parent, still do    *)
(* not wait for the row once its parent does.                                 *)
LEMMA NewRowUnreachable ==
  ASSUME IInv, NEW o \in Obligation, status[o] = "absent",
         NEW p \in Obligation \cup {NoParent}, p # o,
         NEW q \in Obligation, q # o, p # NoParent => q # p /\ ~wouldCreateCycle(p, q)
  PROVE  o \notin Reachable(WaitsFor \cup ({p} \X {o}), q)
<1>1. PICK T \in SUBSET Obligation :
        (\A e \in WaitsFor : e[1] \in T \cup {q} => e[2] \in T) /\ p \notin T
  <2>1. CASE p = NoParent
    <3>1. \A e \in WaitsFor : e[2] \in Obligation
      BY DEF WaitsFor, ChildEdges, IInv, Sound, Typed
    <3>. QED
      BY <2>1, <3>1, ObligationAssumption
  <2>2. CASE p # NoParent
    BY <2>2 DEF wouldCreateCycle, Reachable
  <2>. QED
    BY <2>1, <2>2
<1>. DEFINE U == T \ {o}
<1>2. U \in SUBSET Obligation /\ o \notin U
  OBVIOUS
<1>3. \A e \in WaitsFor \cup ({p} \X {o}) : e[1] \in U \cup {q} => e[2] \in U
  <2>1. p # q
    BY ObligationAssumption
  <2>. QED
    BY <1>1, <2>1, AbsentUnnamed
<1>. QED
  BY <1>2, <1>3 DEF Reachable

LEMMA createSound ==
  ASSUME IInv, NEW o \in Obligation, NEW p \in Obligation \cup {NoParent},
         NEW Q \in SUBSET Obligation, NEW recurs \in BOOLEAN, NEW m \in {"none", "open"},
         create(o, p, Q, recurs, m)
  PROVE  IInv'
<1>. USE DEF IInv, Sound
<1>. DEFINE initial == IF \A q \in Q : status[q] = "done" THEN "ready" ELSE "waiting"
            st == [status EXCEPT ![o] = initial]
<1>1. /\ status[o] = "absent" /\ (p # NoParent => Usable(p))
      /\ recurs => Q = {} /\ m = "none"
      /\ \A q \in Q : EligibleForNew(q, p)
      /\ status' = Demoted(st, p)
      /\ parent' = [parent EXCEPT ![o] = p]
      /\ recurring' = IF recurs THEN recurring \cup {o} ELSE recurring
      /\ matcher' = [matcher EXCEPT ![o] = m]
      /\ blockedBy' = blockedBy \cup ({o} \X Q)
      /\ reawakened' = Kept(reawakened, status')
      /\ UNCHANGED <<forfeited, overlooked>>
  BY DEF create, KeepHistory, NowReawakened, Kept
<1>2. st \in [Obligation -> Status] /\ \A x \in Obligation : st[x] = IF x = o THEN initial ELSE status[x]
  BY DEF Typed, Status, LiveStatus
<1>3. p # o
  BY <1>1, ObligationAssumption DEF Usable
<1>4. initial \in {"ready", "waiting"} /\ (initial = "waiting" <=> \E q \in Q : status[q] # "done")
  OBVIOUS
<1>. HIDE DEF initial, st
<1>5. /\ status' \in [Obligation -> Status]
      /\ \A x \in Obligation :
           status'[x] = IF x = o THEN initial
                        ELSE IF x = p /\ status[x] = "ready" THEN "waiting" ELSE status[x]
  BY <1>1, <1>2, <1>3, DemotedRow
<1>6. /\ \A x \in Obligation : parent'[x] = IF x = o THEN p ELSE parent[x]
      /\ \A x \in Obligation : matcher'[x] = IF x = o THEN m ELSE matcher[x]
      /\ parent' \in [Obligation -> Obligation \cup {NoParent}]
      /\ matcher' \in [Obligation -> {"none", "open", "satisfied"}]
  BY <1>1 DEF Typed
<1>7. \A x \in Obligation \ {o} : /\ status'[x] \in LiveStatus <=> status[x] \in LiveStatus
                                  /\ status'[x] \in TerminalStatus <=> status[x] \in TerminalStatus
                                  /\ status'[x] = "done" <=> status[x] = "done"
                                  /\ status'[x] = "absent" <=> status[x] = "absent"
                                  /\ status'[x] = "scheduled" <=> status[x] = "scheduled"
  BY <1>5 DEF LiveStatus, TerminalStatus
<1>8. status'[o] \in LiveStatus /\ status'[o] \in {"ready", "waiting"}
  BY <1>4, <1>5 DEF LiveStatus
<1>9. /\ o \notin recurring /\ parent[o] = NoParent
      /\ \A x \in Obligation : parent[x] # o
      /\ \A e \in blockedBy : e[1] # o /\ e[2] # o
      /\ \A e \in WaitsFor : e[1] # o /\ e[2] # o
  BY <1>1, AbsentUnnamed
<1>10. \A q \in Q : /\ q # o /\ status[q] # "absent" /\ q \notin recurring
                    /\ p # NoParent => q # p /\ ~wouldCreateCycle(p, q)
  BY <1>1 DEF EligibleForNew
<1>11. Typed(status', parent', blockedBy', recurring', matcher', reawakened', forfeited', overlooked')
  BY <1>1, <1>5, <1>6 DEF Typed, Kept
<1>12. Shaped(status', parent', blockedBy', recurring', matcher')
  <2>1. \A x \in Obligation : status'[x] = "scheduled" => x \in recurring'
    BY <1>1, <1>7, <1>8 DEF Shaped
  <2>2. \A x \in recurring' : status'[x] \notin TerminalStatus \cup {"absent"} /\ matcher'[x] = "none"
    <3>. SUFFICES ASSUME NEW x \in recurring'
                  PROVE  status'[x] \notin TerminalStatus \cup {"absent"} /\ matcher'[x] = "none"
      OBVIOUS
    <3>1. CASE x = o
      BY <3>1, <1>1, <1>6, <1>8, <1>9 DEF TerminalStatus
    <3>2. CASE x # o
      BY <3>2, <1>1, <1>6, <1>7, <1>11 DEF Shaped, Typed
    <3>. QED
      BY <3>1, <3>2
  <2>3. ASSUME NEW e \in blockedBy'
        PROVE  /\ {e[1], e[2]} \cap recurring' = {}
               /\ status'[e[1]] # "absent" /\ status'[e[2]] # "absent"
    <3>1. CASE e \in {o} \X Q
      <4>1. recurs = FALSE
        BY <3>1, <1>1
      <4>. QED
        BY <3>1, <4>1, <1>1, <1>7, <1>8, <1>9, <1>10 DEF LiveStatus
    <3>2. CASE e \in blockedBy
      BY <3>2, <1>1, <1>7, <1>9 DEF Shaped, Typed
    <3>. QED
      BY <3>1, <3>2, <1>1
  <2>4. \A x \in Obligation :
          /\ parent'[x] # NoParent => status'[x] # "absent" /\ status'[parent'[x]] # "absent"
          /\ matcher'[x] # "none" => status'[x] # "absent"
    <3>. SUFFICES ASSUME NEW x \in Obligation
                  PROVE  /\ parent'[x] # NoParent => status'[x] # "absent" /\ status'[parent'[x]] # "absent"
                         /\ matcher'[x] # "none" => status'[x] # "absent"
      OBVIOUS
    <3>1. CASE x = o
      BY <3>1, <1>1, <1>3, <1>6, <1>7, <1>8 DEF Usable
    <3>2. CASE x # o
      <4>1. parent[x] \in Obligation \cup {NoParent} /\ parent[x] # o
        BY <1>9 DEF Typed
      <4>. QED
        BY <3>2, <4>1, <1>6, <1>7 DEF Shaped
    <3>. QED
      BY <3>1, <3>2
  <2>. QED
    BY <2>1, <2>2, <2>3, <2>4 DEF Shaped
<1>13. NoLoop(status', parent', blockedBy', reawakened')
  <2>. DEFINE E == blockedBy \cup Waited(status, parent, reawakened)
              E1 == E \cup ({p} \X {o})
              W1 == WaitsFor \cup ({p} \X {o})
  <2>1. Acyclic(E) /\ E \subseteq WaitsFor
    BY WaitedInWaitsFor DEF NoLoop
  <2>. HIDE DEF E
  <2>2. Acyclic(E1)
    <3>1. CASE p = NoParent
      <4>1. \A S \in SUBSET Obligation : \A a \in S : a # p
        BY <3>1, ObligationAssumption
      <4>. QED
        BY <2>1, <4>1 DEF Acyclic
    <3>2. CASE p \in Obligation
      <4>1. p \notin Reachable(WaitsFor, o)
        <5>1. \A e \in WaitsFor : e[1] \in {} \cup {o} => e[2] \in {}
          BY <1>9
        <5>. QED
          BY <5>1 DEF Reachable
      <4>. QED
        BY <2>1, <3>2, <4>1, <1>3, AddEdges
    <3>. QED
      BY <3>1, <3>2
  <2>3. \A q \in Q : q # o /\ o \notin Reachable(W1, q)
    BY <1>1, <1>3, <1>10, NewRowUnreachable
  <2>4. E1 \subseteq W1
    BY <2>1
  <2>. HIDE DEF E1, W1
  <2>5. Acyclic(E1 \cup ({o} \X Q))
    BY <2>2, <2>3, <2>4, AddEdges
  <2>6. blockedBy' \cup Waited(status', parent', reawakened') \subseteq E1 \cup ({o} \X Q)
    <3>1. Waited(status', parent', reawakened') \subseteq E1
      <4>. SUFFICES ASSUME NEW c \in Obligation \ reawakened', status'[c] \in LiveStatus,
                           parent'[c] # NoParent
                    PROVE  <<parent'[c], c>> \in E1
        BY DEF Waited
      <4>1. CASE c = o
        BY <4>1, <1>6 DEF E1
      <4>2. CASE c # o
        BY <4>2, <1>1, <1>6, <1>7 DEF E1, E, Waited, Kept
      <4>. QED
        BY <4>1, <4>2
    <3>. QED
      BY <3>1, <1>1 DEF E1, E
  <2>. QED
    BY <2>5, <2>6, FewerEdgesAcyclic DEF NoLoop
<1>14. HoldsParent(status', parent', reawakened', forfeited')
  <2>. SUFFICES ASSUME NEW c \in Obligation,
                       status'[c] \in LiveStatus, parent'[c] # NoParent, c \notin reawakened'
                PROVE  \/ status'[parent'[c]] \in {"waiting", "scheduled"}
                       \/ status'[parent'[c]] = "ready" /\ parent'[c] \in reawakened'
                       \/ status'[parent'[c]] = "done" /\ parent'[c] \in forfeited'
    BY DEF HoldsParent
  <2>1. CASE c = o
    <3>1. parent'[c] = p /\ p \in Obligation /\ Usable(p)
      BY <2>1, <1>1, <1>6
    <3>2. status[p] \in {"ready", "waiting", "scheduled"}
      BY <3>1 DEF Usable, Typed, Status, LiveStatus, TerminalStatus
    <3>. QED
      BY <3>1, <3>2, <1>3, <1>5
  <2>2. CASE c # o
    <3>1. parent'[c] = parent[c] /\ parent[c] \in Obligation /\ parent[c] # o
      BY <2>2, <1>6, <1>9 DEF Typed
    <3>2. status[c] \in LiveStatus /\ c \notin reawakened
      BY <2>2, <1>1, <1>7 DEF Kept
    <3>. QED
      BY <3>1, <3>2, <1>1, <1>5, <1>7 DEF HoldsParent, Kept, LiveStatus
  <2>. QED
    BY <2>1, <2>2
<1>15. \A x \in Obligation : HasLiveChild(status, parent, x) => HasLiveChild(status', parent', x)
  <2>. SUFFICES ASSUME NEW x \in Obligation, NEW c \in Obligation, parent[c] = x, status[c] \in LiveStatus
                PROVE  HasLiveChild(status', parent', x)
    BY DEF HasLiveChild
  <2>1. c # o
    BY <1>1 DEF LiveStatus
  <2>. QED
    BY <2>1, <1>6, <1>7 DEF HasLiveChild
<1>16. \A x \in Obligation \ {o} : prerequisitesSatisfied(status', blockedBy', x)
                                     <=> prerequisitesSatisfied(status, blockedBy, x)
  <2>. SUFFICES ASSUME NEW x \in Obligation \ {o}
                PROVE  prerequisitesSatisfied(status', blockedBy', x)
                                     <=> prerequisitesSatisfied(status, blockedBy, x)
    OBVIOUS
  <2>1. \A q : <<x, q>> \in blockedBy' <=> <<x, q>> \in blockedBy
    BY <1>1
  <2>2. blockedBy \in SUBSET (Obligation \X Obligation) /\ blockedBy' \in SUBSET (Obligation \X Obligation)
    BY <1>11 DEF Typed
  <2>3. /\ \A q : q \in prerequisitesOf(blockedBy, x) <=> <<x, q>> \in blockedBy
        /\ \A q : q \in prerequisitesOf(blockedBy', x) <=> <<x, q>> \in blockedBy'
        /\ prerequisitesOf(blockedBy, x) \subseteq Obligation
    BY <2>2, PrerequisiteEdges
  <2>4. prerequisitesOf(blockedBy', x) = prerequisitesOf(blockedBy, x)
    BY <2>1, <2>3
  <2>5. ASSUME NEW q \in prerequisitesOf(blockedBy, x) PROVE q \in Obligation \ {o}
    <3>1. q \in Obligation /\ <<x, q>> \in blockedBy
      BY <2>3
    <3>2. <<x, q>>[2] # o
      BY <3>1, <1>9
    <3>. QED
      BY <3>1, <3>2
  <2>. QED
    BY <2>4, <2>5, <1>7 DEF prerequisitesSatisfied
<1>17. prerequisitesOf(blockedBy', o) = Q
  <2>1. \A q : <<o, q>> \in blockedBy' <=> q \in Q
    BY <1>1, <1>9
  <2>. QED
    BY <2>1, <1>11, PrerequisiteEdges DEF Typed
<1>18. WaitsForCause({}, status', parent', blockedBy')
  <2>. SUFFICES ASSUME NEW x \in Obligation, status'[x] = "waiting"
                PROVE  HasLiveChild(status', parent', x) \/ ~prerequisitesSatisfied(status', blockedBy', x)
    BY DEF WaitsForCause
  <2>1. CASE x = o
    BY <2>1, <1>4, <1>5, <1>7, <1>10, <1>17 DEF prerequisitesSatisfied
  <2>2. CASE x # o /\ x = p
    BY <2>2, <1>6, <1>8 DEF HasLiveChild
  <2>3. CASE x # o /\ x # p
    BY <2>3, <1>5, <1>15, <1>16 DEF WaitsForCause
  <2>. QED
    BY <2>1, <2>2, <2>3
<1>19. MatcherKept({}, status', parent', matcher', overlooked')
  <2>. SUFFICES ASSUME NEW x \in Obligation \ overlooked, status'[x] \notin TerminalStatus,
                       matcher'[x] = "satisfied"
                PROVE  status'[x] = "waiting" /\ HasLiveChild(status', parent', x)
    BY <1>1 DEF MatcherKept
  <2>1. x # o
    BY <1>6
  <2>. QED
    BY <2>1, <1>5, <1>6, <1>7, <1>15 DEF MatcherKept
<1>20. ReadyUnblocked(status', blockedBy')
  <2>. SUFFICES ASSUME NEW x \in Obligation, status'[x] = "ready"
                PROVE  prerequisitesSatisfied(status', blockedBy', x)
    BY DEF ReadyUnblocked
  <2>1. CASE x = o
    BY <2>1, <1>4, <1>5, <1>7, <1>10, <1>17 DEF prerequisitesSatisfied
  <2>2. CASE x # o
    BY <2>2, <1>5, <1>16 DEF ReadyUnblocked
  <2>. QED
    BY <2>1, <2>2
<1>. QED
  BY <1>11, <1>12, <1>13, <1>14, <1>18, <1>19, <1>20

LEMMA reparentSound ==
  ASSUME IInv, NEW o \in Obligation, NEW p \in Obligation \cup {NoParent}, reparent(o, p)
  PROVE  IInv'
<1>. USE DEF IInv, Sound
<1>. DEFINE live == status[o] \in LiveStatus
            st == IF live THEN Demoted(status, p) ELSE status
            owed == {parent[o]} \ {NoParent}
<1>1. /\ Usable(o) /\ p # o /\ p # parent[o]
      /\ p # NoParent => Usable(p) /\ ~wouldCreateCycle(p, o)
      /\ parent' = [parent EXCEPT ![o] = p]
      /\ status' = tryRelease(owed, st, parent', blockedBy)
      /\ reawakened' = Kept(reawakened, status')
      /\ UNCHANGED <<recurring, matcher, blockedBy, forfeited, overlooked>>
  BY DEF reparent, KeepHistory, NowReawakened, Kept
<1>2. /\ st \in [Obligation -> Status]
      /\ \A x \in Obligation :
           st[x] = IF x = p /\ live /\ status[x] = "ready" THEN "waiting" ELSE status[x]
  BY DemotedRow DEF Typed
<1>3. /\ parent' \in [Obligation -> Obligation \cup {NoParent}]
      /\ \A x \in Obligation : parent'[x] = IF x = o THEN p ELSE parent[x]
  BY <1>1 DEF Typed
<1>4. owed \in SUBSET Obligation
  BY DEF Typed
<1>. HIDE DEF st
<1>5. \A x \in Obligation : /\ st[x] \in LiveStatus <=> status[x] \in LiveStatus
                            /\ st[x] \in TerminalStatus <=> status[x] \in TerminalStatus
                            /\ st[x] = "done" <=> status[x] = "done"
                            /\ st[x] = "absent" <=> status[x] = "absent"
                            /\ st[x] = "scheduled" <=> status[x] = "scheduled"
  BY <1>2 DEF LiveStatus, TerminalStatus
<1>6. Typed(st, parent', blockedBy, recurring, matcher, reawakened, forfeited, overlooked)
  BY <1>2, <1>3 DEF Typed
<1>7. Shaped(st, parent', blockedBy, recurring, matcher)
  <2>1. \A x \in Obligation : parent'[x] # NoParent => st[x] # "absent" /\ st[parent'[x]] # "absent"
    <3>. SUFFICES ASSUME NEW x \in Obligation, parent'[x] # NoParent
                  PROVE  st[x] # "absent" /\ st[parent'[x]] # "absent"
      OBVIOUS
    <3>1. CASE x = o
      BY <3>1, <1>1, <1>3, <1>5 DEF Usable
    <3>2. CASE x # o
      BY <3>2, <1>3, <1>5 DEF Shaped, Typed
    <3>. QED
      BY <3>1, <3>2
  <2>2. \A e \in blockedBy : e[1] \in Obligation /\ e[2] \in Obligation
    BY DEF Typed
  <2>3. \A x \in recurring : x \in Obligation
    BY DEF Typed
  <2>. QED
    BY <2>1, <2>2, <2>3, <1>5 DEF Shaped
<1>8. NoLoop(st, parent', blockedBy, reawakened)
  <2>. DEFINE E == blockedBy \cup Waited(status, parent, reawakened)
  <2>1. Acyclic(E) /\ E \subseteq WaitsFor
    BY WaitedInWaitsFor DEF NoLoop
  <2>. HIDE DEF E
  <2>2. CASE p = NoParent
    <3>1. blockedBy \cup Waited(st, parent', reawakened) \subseteq E
      BY <2>2, <1>3, <1>5 DEF E, Waited
    <3>. QED
      BY <2>1, <3>1, FewerEdgesAcyclic DEF NoLoop
  <2>3. CASE p \in Obligation /\ p # NoParent
    <3>1. p \notin Reachable(WaitsFor, o)
      BY <2>3, <1>1 DEF wouldCreateCycle
    <3>2. Acyclic(E \cup ({p} \X {o}))
      BY <2>1, <2>3, <3>1, <1>1, AddEdges
    <3>3. blockedBy \cup Waited(st, parent', reawakened) \subseteq E \cup ({p} \X {o})
      BY <1>3, <1>5 DEF E, Waited
    <3>. QED
      BY <3>2, <3>3, FewerEdgesAcyclic DEF NoLoop
  <2>. QED
    BY <2>2, <2>3
<1>9. HoldsParent(st, parent', reawakened, forfeited)
  <2>. SUFFICES ASSUME NEW c \in Obligation,
                       st[c] \in LiveStatus, parent'[c] # NoParent, c \notin reawakened
                PROVE  \/ st[parent'[c]] \in {"waiting", "scheduled"}
                       \/ st[parent'[c]] = "ready" /\ parent'[c] \in reawakened
                       \/ st[parent'[c]] = "done" /\ parent'[c] \in forfeited
    BY DEF HoldsParent
  <2>1. CASE c = o
    <3>1. parent'[c] = p /\ p \in Obligation /\ Usable(p) /\ live
      BY <2>1, <1>1, <1>3, <1>5
    <3>2. status[p] \in {"ready", "waiting", "scheduled"}
      BY <3>1 DEF Usable, Typed, Status, LiveStatus, TerminalStatus
    <3>. QED
      BY <3>1, <3>2, <1>2
  <2>2. CASE c # o
    <3>1. parent'[c] = parent[c] /\ parent[c] \in Obligation /\ status[c] \in LiveStatus
      BY <2>2, <1>3, <1>5 DEF Typed
    <3>2. \/ status[parent[c]] \in {"waiting", "scheduled"}
          \/ status[parent[c]] = "ready" /\ parent[c] \in reawakened
          \/ status[parent[c]] = "done" /\ parent[c] \in forfeited
      BY <3>1, <2>2, <1>3 DEF HoldsParent
    <3>. QED
      BY <3>1, <3>2, <1>2
  <2>. QED
    BY <2>1, <2>2
<1>10. \A x \in Obligation \ owed : HasLiveChild(status, parent, x) => HasLiveChild(st, parent', x)
  <2>. SUFFICES ASSUME NEW x \in Obligation \ owed,
                       NEW c \in Obligation, parent[c] = x, status[c] \in LiveStatus
                PROVE  HasLiveChild(st, parent', x)
    BY DEF HasLiveChild
  <2>1. c # o
    BY ObligationAssumption
  <2>. QED
    BY <2>1, <1>3, <1>5 DEF HasLiveChild
<1>11. \A x \in Obligation : prerequisitesSatisfied(st, blockedBy, x)
                               <=> prerequisitesSatisfied(status, blockedBy, x)
  <2>1. \A x \in Obligation : prerequisitesOf(blockedBy, x) \subseteq Obligation
    BY PrerequisiteEdges DEF Typed
  <2>. QED
    BY <2>1, <1>5 DEF prerequisitesSatisfied
<1>. HIDE DEF owed
<1>12. WaitsForCause(owed, st, parent', blockedBy)
  <2>. SUFFICES ASSUME NEW x \in Obligation \ owed, st[x] = "waiting"
                PROVE  HasLiveChild(st, parent', x) \/ ~prerequisitesSatisfied(st, blockedBy, x)
    BY DEF WaitsForCause
  <2>1. CASE status[x] = "waiting"
    BY <2>1, <1>10, <1>11 DEF WaitsForCause
  <2>2. CASE status[x] # "waiting"
    <3>1. x = p /\ live
      BY <2>2, <1>2
    <3>. QED
      BY <3>1, <1>3, <1>5 DEF HasLiveChild
  <2>. QED
    BY <2>1, <2>2
<1>13. MatcherKept(owed, st, parent', matcher, overlooked)
  <2>. SUFFICES ASSUME NEW x \in Obligation \ overlooked, st[x] \notin TerminalStatus,
                       matcher[x] = "satisfied"
                PROVE  st[x] = "waiting" /\ (x \in owed \/ HasLiveChild(st, parent', x))
    BY DEF MatcherKept
  <2>1. status[x] = "waiting" /\ HasLiveChild(status, parent, x)
    BY <1>5 DEF MatcherKept
  <2>. QED
    BY <2>1, <1>2, <1>10
<1>14. ReadyUnblocked(st, blockedBy)
  BY <1>2, <1>11 DEF ReadyUnblocked
<1>15. Sound(owed, st, parent', blockedBy, recurring, matcher, reawakened, forfeited, overlooked)
  BY <1>6, <1>7, <1>8, <1>9, <1>12, <1>13, <1>14
<1>16. Sound({}, status', parent', blockedBy, recurring, matcher, Kept(reawakened, status'),
             forfeited, overlooked)
  BY <1>1, <1>4, <1>15, ReleaseSound
<1>. QED
  BY <1>1, <1>16

-----------------------------------------------------------------------------
(* Theorems *)

LEMMA InitIInv ==
  ASSUME Init
  PROVE  IInv
<1>1. Waited(status, parent, reawakened) = {} /\ blockedBy = {}
  BY DEF Init, Waited, LiveStatus
<1>2. NoLoop(status, parent, blockedBy, reawakened)
  <2>1. Acyclic({})
    <3>1. SUFFICES ASSUME NEW S \in SUBSET Obligation, S # {}
                   PROVE  \E a \in S : \A b \in S : <<a, b>> \notin {}
      BY DEF Acyclic
    <3>2. PICK a \in S : TRUE
      BY <3>1
    <3>. QED
      BY <3>2
  <2>2. blockedBy \cup Waited(status, parent, reawakened) = {}
    BY <1>1
  <2>. QED
    BY <2>1, <2>2 DEF NoLoop
<1>. QED
  BY <1>2 DEF Init, IInv, Sound, Typed, Shaped, HoldsParent, WaitsForCause, MatcherKept,
              ReadyUnblocked, Status, LiveStatus, TerminalStatus

LEMMA NextIInv ==
  ASSUME IInv, [Next]_vars
  PROVE  IInv'
<1>1. CASE UNCHANGED vars
  BY <1>1 DEF vars, history, IInv, Sound, Typed, Shaped, NoLoop, Waited, HoldsParent, WaitsForCause,
              MatcherKept, ReadyUnblocked, Acyclic, HasLiveChild, prerequisitesSatisfied, prerequisitesOf
<1>2. ASSUME NEW o \in Obligation, NEW p \in Obligation \cup {NoParent}, reparent(o, p)
      PROVE  IInv'
  BY <1>2, reparentSound
<1>3. ASSUME NEW o \in Obligation, NEW p \in Obligation \cup {NoParent}, NEW Q \in SUBSET Obligation,
             NEW recurs \in BOOLEAN, NEW m \in {"none", "open"}, create(o, p, Q, recurs, m)
      PROVE  IInv'
  BY <1>3, createSound
<1>4. ASSUME NEW o \in Obligation, NEW q \in Obligation, addPrerequisite(o, q)
      PROVE  IInv'
  BY <1>4, addPrerequisiteSound
<1>5. ASSUME NEW o \in Obligation, NEW q \in Obligation, removePrerequisite(o, q)
      PROVE  IInv'
  BY <1>5, removePrerequisiteSound
<1>6. ASSUME NEW o \in Obligation, NEW to \in TerminalStatus, setTerminalStatus(o, to)
      PROVE  IInv'
  BY <1>6, setTerminalStatusSound
<1>7. ASSUME NEW o \in Obligation, activateScheduled(o) \/ startRecurrence(o) \/ stopRecurrence(o)
      PROVE  IInv'
  BY <1>7, activateScheduledSound, startRecurrenceSound, stopRecurrenceSound
<1>8. ASSUME NEW o \in Obligation, NEW m \in {"none", "open"}, setCompletionMatcher(o, m)
      PROVE  IInv'
  BY <1>8, setCompletionMatcherSound
<1>9. ASSUME NEW o \in Obligation, satisfyCompletionMatcher(o)
      PROVE  IInv'
  BY <1>9, satisfyCompletionMatcherSound
<1>. QED
  BY <1>1, <1>2, <1>3, <1>4, <1>5, <1>6, <1>7, <1>8, <1>9 DEF Next

LEMMA Inductive == Spec => []IInv
<1>1. Init => IInv
  BY InitIInv
<1>2. IInv /\ [Next]_vars => IInv'
  BY NextIInv
<1>. QED
  BY <1>1, <1>2, PTL DEF Spec

(* The tables keep their shape (obligation-repository.ts, every mutation). *)
THEOREM TypeCorrect == Spec => []TypeOK
<1>1. IInv => TypeOK
  BY DEF IInv, Sound, Typed, TypeOK
<1>. QED
  BY <1>1, Inductive, PTL

(* create, addPrerequisite and reparent never close a loop in the wait-for    *)
(* graph, and no other operation adds an edge to it.                          *)
THEOREM WaitCycleFree == Spec => []NoWaitCycle
<1>1. IInv => NoWaitCycle
  <2>1. blockedBy \cup ChildEdges({c \in Obligation \ reawakened : status[c] \in LiveStatus})
          \subseteq blockedBy \cup Waited(status, parent, reawakened)
    BY DEF ChildEdges, Waited
  <2>. QED
    BY <2>1, FewerEdgesAcyclic DEF IInv, Sound, NoLoop, NoWaitCycle
<1>. QED
  BY <1>1, Inductive, PTL

(* A live child keeps its parent waiting or asleep. *)
THEOREM ChildHoldsParent == Spec => []LiveChildHoldsParent
<1>1. IInv => LiveChildHoldsParent
  BY DEF IInv, Sound, HoldsParent, LiveChildHoldsParent
<1>. QED
  BY <1>1, Inductive, PTL

(* The cascade of tryRelease, reevaluateDependents and matcher completions    *)
(* leaves no row waiting without a cause.                                     *)
THEOREM CascadeComplete == Spec => []NothingStranded
<1>1. IInv => NothingStranded
  <2>. SUFFICES ASSUME IInv, NEW o \in Obligation
                PROVE  /\ status[o] = "waiting" =>
                             HasLiveChild(status, parent, o) \/ ~prerequisitesSatisfied(status, blockedBy, o)
                       /\ Usable(o) /\ matcher[o] = "satisfied" =>
                             HasLiveChild(status, parent, o) \/ o \in overlooked
    BY DEF NothingStranded
  <2>1. status[o] = "waiting" =>
          HasLiveChild(status, parent, o) \/ ~prerequisitesSatisfied(status, blockedBy, o)
    BY DEF IInv, Sound, WaitsForCause
  <2>2. Usable(o) /\ matcher[o] = "satisfied" =>
          HasLiveChild(status, parent, o) \/ o \in overlooked
    BY DEF IInv, Sound, MatcherKept, Usable
  <2>. QED
    BY <2>1, <2>2
<1>. QED
  BY <1>1, Inductive, PTL

(* No row is offered as work over an unfinished prerequisite. *)
THEOREM ReadyMeansUnblocked == Spec => []ReadyIsUnblocked
<1>1. IInv => ReadyIsUnblocked
  BY DEF IInv, Sound, ReadyUnblocked, ReadyIsUnblocked
<1>. QED
  BY <1>1, Inductive, PTL

(* While live rows remain one of them can be worked on: a live row without    *)
(* successors among the live ones waits for nothing.                          *)
THEOREM WorkRemainsPossible == Spec => []SomeoneCanWork
<1>1. IInv => SomeoneCanWork
  <2>. SUFFICES ASSUME IInv, Repaired, reawakened = {}, \E o \in Obligation : status[o] \in LiveStatus
                PROVE  \E o \in Obligation : status[o] = "ready" /\ ~HasLiveChild(status, parent, o)
    BY DEF SomeoneCanWork
  <2>. DEFINE S == {o \in Obligation : status[o] \in LiveStatus}
  <2>1. S \in (SUBSET Obligation) \ {{}}
    <3>1. PICK o \in Obligation : status[o] \in LiveStatus
      OBVIOUS
    <3>2. o \in S /\ S \in SUBSET Obligation
      BY <3>1
    <3>. HIDE DEF S
    <3>3. S # {}
      BY <3>2
    <3>. QED
      BY <3>2, <3>3
  <2>2. PICK o \in S : \A b \in S : <<o, b>> \notin blockedBy \cup Waited(status, parent, reawakened)
    BY <2>1 DEF IInv, Sound, NoLoop, Acyclic
  <2>3. ~HasLiveChild(status, parent, o)
    <3>. SUFFICES ASSUME NEW c \in Obligation, parent[c] = o, status[c] \in LiveStatus
                  PROVE  FALSE
      BY DEF HasLiveChild
    <3>1. <<o, c>> \in Waited(status, parent, reawakened)
      BY ObligationAssumption DEF Waited
    <3>. QED
      BY <3>1, <2>2
  <2>4. prerequisitesSatisfied(status, blockedBy, o)
    <3>. SUFFICES ASSUME NEW q \in prerequisitesOf(blockedBy, o)
                  PROVE  status[q] = "done"
      BY DEF prerequisitesSatisfied
    <3>1. blockedBy \in SUBSET (Obligation \X Obligation) /\ status \in [Obligation -> Status]
      BY DEF IInv, Sound, Typed
    <3>2. q \in Obligation /\ <<o, q>> \in blockedBy
      BY <3>1, PrerequisiteEdges
    <3>3. status[q] \notin LiveStatus
      BY <3>2, <2>2
    <3>4. status[q] # "absent" /\ status[q] # "scheduled"
      BY <3>2 DEF IInv, Sound, Shaped
    <3>5. status[q] # "cancelled"
      BY <3>2 DEF Repaired
    <3>. QED
      BY <3>1, <3>2, <3>3, <3>4, <3>5 DEF Status, LiveStatus, TerminalStatus
  <2>5. status[o] = "ready"
    BY <2>3, <2>4 DEF IInv, Sound, WaitsForCause, LiveStatus
  <2>. QED
    BY <2>3, <2>5
<1>. QED
  BY <1>1, Inductive, PTL

-----------------------------------------------------------------------------
(* Deadlines (ObligationSchedule).  A block of the crontab calls back again   *)
(* and again, so what keeps a cron row must not lean on a callback that is    *)
(* about to be used up: the inductive form of DeadlineCovered leaves the      *)
(* callbacks out of that half.                                                *)

AwaitsWrite(o) == o \in dirty \/ retries[o] > 0

AtKept(o) ==
  PlannedAt(o) # Never =>
    \/ o \in calls \/ AwaitsWrite(o)
    \/ \E j \in JobsOf({o}) : j[2] <= atRunInstant(PlannedAt(o))

CronKept(o) == PlannedCron(o) => AwaitsWrite(o) \/ o \in crontab

ScheduleKept == up => \A o \in Row : (AtKept(o) /\ CronKept(o)) \/ o \in gaveUp \cup elsewhere

ScheduleInv == ScheduleTypeOK /\ ScheduleKept

LEMMA Instants ==
  /\ MaxTime \in Nat /\ Never \in Nat /\ Never \notin Time /\ Time \subseteq Nat
  /\ \A d \in Time : atRunInstant(d) \in Time
  /\ \A d \in Deadline : atRunInstant(d) \in Nat
<1>1. MaxTime \in Nat
  BY ScheduleAssumption
<1>2. \A d \in Nat : d % 2 \in 0 .. 1 /\ (d = 0 => d % 2 = 0)
  OBVIOUS
<1>3. \A d \in Nat : atRunInstant(d) \in 0 .. d
  BY <1>2 DEF atRunInstant
<1> QED BY <1>1, <1>3 DEF Time, Never, Deadline

LEMMA PlannedTypes ==
  ASSUME ScheduleTypeOK, NEW o \in Row
  PROVE  PlannedAt(o) \in Deadline /\ PlannedCron(o) \in BOOLEAN
BY DEF ScheduleTypeOK, PlannedAt, PlannedCron, Deadline

(* A step that leaves the rows alone plans the same jobs. *)
LEMMA SamePlan ==
  ASSUME UNCHANGED row
  PROVE  \A o \in Row : PlannedAt(o)' = PlannedAt(o) /\ PlannedCron(o)' = PlannedCron(o)
BY DEF row, PlannedAt, PlannedCron

-----------------------------------------------------------------------------
(* Transitions of one row leave the others as they are, and well typed. *)
RowsTyped ==
  /\ rowStatus \in [Row -> {"active", "scheduled", "closed"}]
  /\ policy \in [Row -> {"none", "cron", "interval"}]
  /\ snooze \in [Row -> Deadline] /\ next \in [Row -> Deadline] /\ completedAt \in [Row -> Time]
  /\ \A o \in Row : rowStatus[o] = "scheduled" <=> next[o] # Never

Changes(o) ==
  \A x \in Row \ {o} :
    /\ rowStatus'[x] = rowStatus[x] /\ policy'[x] = policy[x]
    /\ snooze'[x] = snooze[x] /\ next'[x] = next[x]

LEMMA ChangesPlan ==
  ASSUME NEW o \in Row, Changes(o)
  PROVE  \A x \in Row \ {o} : PlannedAt(x)' = PlannedAt(x) /\ PlannedCron(x)' = PlannedCron(x)
BY DEF Changes, PlannedAt, PlannedCron

LEMMA ReleaseRows ==
  ASSUME RowsTyped, NEW o \in Row, releaseSnooze(o)
  PROVE  RowsTyped' /\ Changes(o)
BY Instants DEF RowsTyped, releaseSnooze, ActivateRow, Changes, Deadline

LEMMA CloseRows ==
  ASSUME RowsTyped, NEW o \in Row, Close(o)
  PROVE  RowsTyped' /\ Changes(o) /\ PlannedAt(o)' = Never /\ ~PlannedCron(o)'
BY Instants DEF RowsTyped, Close, Changes, Deadline, PlannedAt, PlannedCron

LEMMA RecycleRows ==
  ASSUME RowsTyped, NEW o \in Row, Recycle(o), now \in Time
  PROVE  RowsTyped' /\ Changes(o) /\ UNCHANGED <<policy, snooze>>
<1>1. PICK due \in Time : next' = [next EXCEPT ![o] = due]
  BY DEF Recycle
<1> QED BY <1>1, Instants DEF RowsTyped, Recycle, Changes, Deadline

-----------------------------------------------------------------------------
(* The host jobs of a row, written whole or in part. *)
LEMMA WantedTypes ==
  ASSUME ScheduleTypeOK, NEW Os \in SUBSET Row
  PROVE  Wanted(Os) \subseteq Row \X Time
<1>1. \A o \in Row : PlannedAt(o) # Never => atRunInstant(PlannedAt(o)) \in Time
  BY PlannedTypes, Instants DEF Deadline
<1> QED BY <1>1 DEF Wanted

(* What is lost to nobody: each row of S has the jobs and the block it had. *)
HostKeeps(S) ==
  \A x \in S : JobsOf({x}) \subseteq JobsOf({x})' /\ (x \in crontab => x \in crontab')

LEMMA InstalledProperties ==
  ASSUME ScheduleTypeOK, UNCHANGED row, NEW Os \in SUBSET Row, Installed(Os)
  PROVE  /\ atJobs' \subseteq Row \X Time /\ crontab' \subseteq Row
         /\ HostKeeps(Row \ Os)
         /\ \A o \in Os : AtKept(o)' /\ CronKept(o)'
<1>1. atJobs' \subseteq Row \X Time /\ crontab' \subseteq Row
  BY WantedTypes DEF ScheduleTypeOK, Installed
<1>2. HostKeeps(Row \ Os)
  <2> SUFFICES ASSUME NEW x \in Row \ Os PROVE JobsOf({x}) \subseteq JobsOf({x})'
    BY DEF HostKeeps, Installed
  <2> QED BY DEF Installed, JobsOf
<1>3. ASSUME NEW o \in Os PROVE AtKept(o)' /\ CronKept(o)'
  <2>1. PlannedAt(o)' = PlannedAt(o) /\ PlannedCron(o)' = PlannedCron(o)
    BY SamePlan
  <2>2. CronKept(o)'
    BY <1>3, <2>1 DEF CronKept, Installed
  <2>3. AtKept(o)'
    <3>1. SUFFICES ASSUME PlannedAt(o) # Never
                   PROVE  \E j \in JobsOf({o})' : j[2] <= atRunInstant(PlannedAt(o)')
      BY <2>1 DEF AtKept
    <3> DEFINE j == <<o, atRunInstant(PlannedAt(o))>>
    <3>2. j \in Wanted(Os)
      BY <3>1 DEF Wanted
    <3>3. j \in JobsOf({o})'
      BY <3>2 DEF Installed, JobsOf
    <3>4. j[2] = atRunInstant(PlannedAt(o)') /\ atRunInstant(PlannedAt(o)') \in Nat
      BY <2>1, PlannedTypes, Instants
    <3> HIDE DEF j
    <3> QED BY <3>3, <3>4
  <2> QED BY <2>2, <2>3
<1> QED BY <1>1, <1>2, <1>3

LEMMA InPartProperties ==
  ASSUME ScheduleTypeOK, NEW o \in Row, InstalledInPart(o)
  PROVE  atJobs' \subseteq Row \X Time /\ crontab' \subseteq Row /\ HostKeeps(Row \ {o})
<1>1. CASE UNCHANGED host
  BY <1>1 DEF ScheduleTypeOK, host, HostKeeps, JobsOf
<1>2. CASE atJobs' = atJobs \cup Wanted({o}) /\
           crontab' \in {crontab \cup {x \in {o} : PlannedCron(x)},
                         IF PlannedCron(o) THEN crontab \cup {o} ELSE crontab \ {o}}
  <2>1. Wanted({o}) \subseteq Row \X Time
    BY WantedTypes
  <2>2. crontab \ {o} \subseteq crontab' /\ crontab' \subseteq crontab \cup {o}
    BY <1>2
  <2>3. HostKeeps(Row \ {o})
    BY <1>2, <2>2 DEF HostKeeps, JobsOf
  <2> QED BY <1>2, <2>1, <2>2, <2>3 DEF ScheduleTypeOK
<1> QED BY <1>1, <1>2 DEF InstalledInPart

(* A row that is not touched, and loses nothing that will bring its deadline, *)
(* stays kept.                                                                *)
LEMMA RowStaysKept ==
  ASSUME NEW x \in Row, AtKept(x), CronKept(x),
         PlannedAt(x)' = PlannedAt(x), PlannedCron(x)' = PlannedCron(x),
         HostKeeps({x}), x \in calls => x \in calls', AwaitsWrite(x) => AwaitsWrite(x)'
  PROVE  AtKept(x)' /\ CronKept(x)'
<1>1. CronKept(x)'
  BY DEF CronKept, HostKeeps
<1>2. AtKept(x)'
  <2>1. CASE PlannedAt(x) = Never
    BY <2>1 DEF AtKept
  <2>2. CASE x \in calls \/ AwaitsWrite(x)
    BY <2>2 DEF AtKept
  <2>3. CASE \E j \in JobsOf({x}) : j[2] <= atRunInstant(PlannedAt(x))
    <3>1. PICK j \in JobsOf({x}) : j[2] <= atRunInstant(PlannedAt(x))
      BY <2>3
    <3>2. j \in JobsOf({x})'
      BY <3>1 DEF HostKeeps
    <3>3. atRunInstant(PlannedAt(x)') = atRunInstant(PlannedAt(x))
      OBVIOUS
    <3>4. atRunInstant(PlannedAt(x))' = atRunInstant(PlannedAt(x)')
      BY DEF atRunInstant
    <3> QED BY <3>1, <3>2, <3>3, <3>4 DEF AtKept
  <2> QED BY <2>1, <2>2, <2>3 DEF AtKept
<1> QED BY <1>1, <1>2

-----------------------------------------------------------------------------
(* Steps that write no host job. *)

HostTyped ==
  /\ atJobs \subseteq Row \X Time /\ crontab \subseteq Row /\ calls \subseteq Row
  /\ up \in BOOLEAN /\ dirty \subseteq Row /\ retries \in [Row -> 0 .. 2]
  /\ now \in Time /\ gaveUp \subseteq Row /\ elsewhere \subseteq Row

LEMMA ScheduleTypes == ScheduleTypeOK <=> RowsTyped /\ HostTyped
BY DEF ScheduleTypeOK, RowsTyped, HostTyped

(* A transition of one row keeps the deadlines of all when its own new        *)
(* deadline is marked, or gone, or the row is recorded as left behind.        *)
LEMMA TransitionKeeps ==
  ASSUME ScheduleInv, NEW o \in Row, RowsTyped', Changes(o),
         UNCHANGED <<host, up, retries, now, gaveUp>>,
         dirty \subseteq dirty', dirty' \subseteq Row,
         calls' \subseteq calls, calls \ {o} \subseteq calls',
         elsewhere \subseteq elsewhere', elsewhere' \subseteq Row,
         up => (AtKept(o)' /\ CronKept(o)') \/ o \in gaveUp \cup elsewhere'
  PROVE  ScheduleInv'
<1>1. ScheduleTypeOK'
  <2>1. HostTyped'
    BY ScheduleTypes DEF ScheduleInv, HostTyped, host
  <2> QED BY <2>1 DEF RowsTyped, HostTyped, ScheduleTypeOK
<1>2. ScheduleKept'
  <2>1. SUFFICES ASSUME up, NEW x \in Row \ {o}, AtKept(x) /\ CronKept(x)
                 PROVE  AtKept(x)' /\ CronKept(x)'
    BY DEF ScheduleInv, ScheduleKept
  <2>2. PlannedAt(x)' = PlannedAt(x) /\ PlannedCron(x)' = PlannedCron(x)
    BY ChangesPlan
  <2>3. HostKeeps({x})
    BY DEF HostKeeps, JobsOf, host
  <2>4. x \in calls => x \in calls'
    OBVIOUS
  <2>5. AwaitsWrite(x) => AwaitsWrite(x)'
    BY DEF AwaitsWrite
  <2> QED BY <2>1, <2>2, <2>3, <2>4, <2>5, RowStaysKept
<1> QED BY <1>1, <1>2 DEF ScheduleInv

LEMMA MarkedIsKept ==
  ASSUME NEW o \in Row, o \in dirty'
  PROVE  AtKept(o)' /\ CronKept(o)'
BY DEF AtKept, CronKept, AwaitsWrite

LEMMA UnplannedIsKept ==
  ASSUME NEW o \in Row, PlannedAt(o)' = Never, ~PlannedCron(o)'
  PROVE  AtKept(o)' /\ CronKept(o)'
BY DEF AtKept, CronKept

(* The commands of owners to the process. *)
LEMMA CommandKeeps ==
  ASSUME ScheduleInv, NEW o \in Row,
         \/ \E d \in Time : setSnooze(o, d)
         \/ \E p \in {"none", "cron", "interval"} : setRecurrence(o, p)
         \/ clearSnooze(o) \/ expireDueSnoozes(o)
  PROVE  ScheduleInv'
<1> USE ScheduleTypes DEF ScheduleInv
<1>1. /\ dirty' = dirty \cup {o} /\ UNCHANGED <<host, calls, up, retries, now, gaveUp, elsewhere>>
  BY DEF setSnooze, setRecurrence, clearSnooze, expireDueSnoozes, Mark, Committed, scheduleHistory
<1>2. RowsTyped' /\ Changes(o)
  <2>1. CASE \E d \in Time : setSnooze(o, d)
    BY <2>1 DEF setSnooze, RowsTyped, Changes, Deadline
  <2>2. ASSUME NEW p \in {"none", "cron", "interval"}, setRecurrence(o, p)
        PROVE  RowsTyped' /\ Changes(o)
    <3>1. CASE p = "none" /\ rowStatus[o] = "scheduled"
      BY <2>2, <3>1, CloseRows DEF setRecurrence
    <3>2. CASE ~(p = "none" /\ rowStatus[o] = "scheduled")
      <4>1. /\ policy' = [policy EXCEPT ![o] = p] /\ UNCHANGED <<snooze, completedAt>>
            /\ \/ UNCHANGED <<rowStatus, next>>
               \/ rowStatus[o] = "scheduled" /\ ActivateRow(o)
               \/ /\ rowStatus[o] = "scheduled" /\ UNCHANGED rowStatus
                  /\ \E due \in Time : next' = [next EXCEPT ![o] = due]
        BY <2>2, <3>2 DEF setRecurrence
      <4> QED BY <4>1, Instants DEF RowsTyped, ActivateRow, Changes, Deadline
    <3> QED BY <3>1, <3>2
  <2>3. CASE clearSnooze(o)
    BY <2>3, ReleaseRows DEF clearSnooze, row, RowsTyped, Changes
  <2>4. CASE expireDueSnoozes(o)
    BY <2>4, ReleaseRows DEF expireDueSnoozes
  <2> QED BY <2>1, <2>2, <2>3, <2>4
<1>3. dirty \subseteq Row
  BY DEF HostTyped
<1>4. AtKept(o)' /\ CronKept(o)'
  BY <1>1, MarkedIsKept
<1>5. elsewhere \subseteq Row
  BY DEF HostTyped
<1> QED BY <1>1, <1>2, <1>3, <1>4, <1>5, TransitionKeeps

(* The end of a life of a row, and of a round of a recurring one, which marks *)
(* only the rows whose host job changes.                                      *)
LEMMA CompleteRows ==
  ASSUME RowsTyped, now \in Time, NEW o \in Row, Complete(o)
  PROVE  /\ RowsTyped' /\ Changes(o)
         /\ \/ PlannedAt(o)' = Never /\ ~PlannedCron(o)'
            \/ policy[o] = "interval"
            \/ /\ policy[o] = "cron" /\ PlannedCron(o)' = PlannedCron(o)
               /\ PlannedAt(o)' = PlannedAt(o)
<1>1. CASE policy[o] = "none"
  BY <1>1, CloseRows DEF Complete
<1>2. CASE policy[o] # "none"
  <2>1. Recycle(o) /\ rowStatus[o] = "active"
    BY <1>2 DEF Complete
  <2>2. RowsTyped' /\ Changes(o) /\ UNCHANGED <<policy, snooze>>
    BY <2>1, RecycleRows
  <2>3. rowStatus'[o] = "scheduled"
    BY <2>1 DEF Recycle, RowsTyped
  <2>4. CASE policy[o] = "cron"
    BY <2>1, <2>2, <2>3, <2>4 DEF PlannedAt, PlannedCron
  <2> QED BY <1>2, <2>2, <2>4 DEF RowsTyped
<1> QED BY <1>1, <1>2

LEMMA setTerminalStatusKeeps ==
  ASSUME ScheduleInv, NEW o \in Row, setTerminalStatusOf(o)
  PROVE  ScheduleInv'
<1> USE ScheduleTypes DEF ScheduleInv
<1>1. /\ dirty \subseteq dirty' /\ dirty' \subseteq dirty \cup {o}
      /\ UNCHANGED <<host, calls, up, retries, now, gaveUp, elsewhere>>
  BY DEF setTerminalStatusOf, Mark, Committed, scheduleHistory
<1>2. dirty \subseteq Row /\ elsewhere \subseteq Row /\ now \in Time
  BY DEF HostTyped
<1>3. CASE Cancel(o)
  <2>1. RowsTyped' /\ Changes(o) /\ AtKept(o)' /\ CronKept(o)'
    BY <1>3, CloseRows, UnplannedIsKept DEF Cancel
  <2> QED BY <1>1, <1>2, <2>1, TransitionKeeps
<1>4. CASE Complete(o) /\ Mark({x \in {o} : \/ policy[x] = "interval"
                                            \/ policy[x] = "none" /\ snooze[x] # Never})
  <2>1. RowsTyped' /\ Changes(o)
    BY <1>2, <1>4, CompleteRows
  <2>2. CASE policy[o] = "interval"
    <3>1. o \in dirty'
      BY <1>4, <2>2 DEF Mark
    <3> QED BY <1>1, <1>2, <2>1, <3>1, MarkedIsKept, TransitionKeeps
  <2>3. CASE PlannedAt(o)' = Never /\ ~PlannedCron(o)'
    BY <1>1, <1>2, <2>1, <2>3, UnplannedIsKept, TransitionKeeps
  <2>4. CASE PlannedCron(o)' = PlannedCron(o) /\ PlannedAt(o)' = PlannedAt(o)
    <3>1. HostKeeps({o}) /\ (AwaitsWrite(o) => AwaitsWrite(o)')
      BY <1>1 DEF HostKeeps, JobsOf, host, AwaitsWrite
    <3>2. up => (AtKept(o)' /\ CronKept(o)') \/ o \in gaveUp \cup elsewhere'
      BY <1>1, <2>4, <3>1, RowStaysKept DEF ScheduleKept
    <3> QED BY <1>1, <1>2, <2>1, <3>2, TransitionKeeps
  <2> QED BY <1>2, <1>4, <2>2, <2>3, <2>4, CompleteRows
<1> QED BY <1>3, <1>4 DEF setTerminalStatusOf

(* The callback, which is used up: a row it wakes has no deadline left, one   *)
(* it finds too early is marked, and any other had none.                      *)
LEMMA wakeScheduledKeeps ==
  ASSUME ScheduleInv, NEW o \in Row, wakeScheduled(o)
  PROVE  ScheduleInv'
<1> USE ScheduleTypes DEF ScheduleInv
<1>1. /\ up /\ dirty = {} /\ calls' = calls \ {o}
      /\ UNCHANGED <<host, up, retries, now, gaveUp, elsewhere>>
  BY DEF wakeScheduled, Idle, scheduleHistory
<1>2. dirty' \subseteq Row /\ elsewhere \subseteq Row
  BY DEF HostTyped, wakeScheduled, Mark
<1>3. CASE o \in dirty' /\ (releaseSnooze(o) \/ UNCHANGED row)
  <2>1. RowsTyped' /\ Changes(o)
    BY <1>3, ReleaseRows DEF row, RowsTyped, Changes
  <2> QED BY <1>1, <1>2, <1>3, <2>1, MarkedIsKept, TransitionKeeps
<1>4. CASE /\ snooze[o] = Never /\ UNCHANGED <<policy, snooze, completedAt, dirty>>
           /\ rowStatus[o] = "scheduled" /\ ActivateRow(o)
  <2>1. RowsTyped' /\ Changes(o)
    BY <1>4, Instants DEF RowsTyped, ActivateRow, Changes, Deadline
  <2>2. PlannedAt(o)' = Never /\ PlannedCron(o)' = PlannedCron(o)
    BY <1>4 DEF PlannedAt, PlannedCron, ActivateRow, RowsTyped
  <2>3. UNCHANGED <<crontab, AwaitsWrite(o)>>
    BY <1>1, <1>4 DEF host, AwaitsWrite
  <2>4. (AtKept(o)' /\ CronKept(o)') \/ o \in gaveUp \cup elsewhere'
    BY <1>1, <2>2, <2>3 DEF ScheduleKept, AtKept, CronKept
  <2> QED BY <1>1, <1>2, <2>1, <2>4, TransitionKeeps
<1>5. CASE /\ UNCHANGED <<row, dirty>>
           /\ rowStatus[o] = "closed" \/ (snooze[o] = Never /\ rowStatus[o] # "scheduled")
  <2>1. RowsTyped' /\ Changes(o)
    BY <1>5 DEF row, RowsTyped, Changes
  <2>2. PlannedAt(o)' = Never /\ PlannedCron(o)' = PlannedCron(o)
    BY <1>5, SamePlan DEF PlannedAt, RowsTyped
  <2>3. UNCHANGED <<crontab, AwaitsWrite(o)>>
    BY <1>1, <1>5 DEF host, AwaitsWrite
  <2>4. (AtKept(o)' /\ CronKept(o)') \/ o \in gaveUp \cup elsewhere'
    BY <1>1, <2>2, <2>3 DEF ScheduleKept, AtKept, CronKept
  <2> QED BY <1>1, <1>2, <2>1, <2>4, TransitionKeeps
<1> QED
  <2>1. CASE rowStatus[o] # "closed" /\ snooze[o] # Never
    <3>1. Mark({o}) /\ (releaseSnooze(o) \/ UNCHANGED row)
      BY <2>1 DEF wakeScheduled
    <3> QED BY <1>3, <3>1 DEF Mark
  <2>2. CASE rowStatus[o] = "scheduled" /\ snooze[o] = Never
    <3>1. \/ ActivateRow(o) /\ UNCHANGED <<policy, snooze, completedAt, dirty>>
          \/ Mark({o}) /\ UNCHANGED row
      BY <2>2 DEF wakeScheduled
    <3> QED BY <1>3, <1>4, <2>2, <3>1 DEF Mark
  <2>3. CASE /\ ~(rowStatus[o] # "closed" /\ snooze[o] # Never)
             /\ ~(rowStatus[o] = "scheduled" /\ snooze[o] = Never)
    <3>1. UNCHANGED <<row, dirty>>
      BY <2>3 DEF wakeScheduled
    <3> QED BY <1>5, <2>3, <3>1
  <2> QED BY <2>1, <2>2, <2>3

(* The other process, and the boot before it arms anything. *)
LEMMA OutsideKeeps ==
  ASSUME ScheduleInv, NEW o \in Row, dashboardEdit(o) \/ BootSettle(o)
  PROVE  ScheduleInv'
<1> USE ScheduleTypes DEF ScheduleInv
<1>1. RowsTyped' /\ Changes(o)
  <2>1. now \in Time
    BY DEF HostTyped
  <2>2. CASE Complete(o)
    BY <2>1, <2>2, CompleteRows
  <2>3. CASE Cancel(o)
    BY <2>3, CloseRows DEF Cancel
  <2>4. CASE releaseSnooze(o)
    BY <2>4, ReleaseRows
  <2>5. CASE ActivateRow(o) /\ next[o] # Never /\ UNCHANGED <<policy, snooze, completedAt>>
    BY <2>5, Instants DEF RowsTyped, ActivateRow, Changes, Deadline
  <2>6. ASSUME BootSettle(o)
        PROVE  \/ releaseSnooze(o)
               \/ ActivateRow(o) /\ next[o] # Never /\ UNCHANGED <<policy, snooze, completedAt>>
    BY <2>6 DEF BootSettle, Overdue, isDeadlineDue
  <2> QED BY <2>2, <2>3, <2>4, <2>5, <2>6 DEF dashboardEdit
<1>2. /\ UNCHANGED <<host, up, retries, now, gaveUp, dirty, calls>>
      /\ dirty \subseteq Row /\ elsewhere \subseteq elsewhere' /\ elsewhere' \subseteq Row
      /\ ~up \/ o \in elsewhere'
  BY DEF dashboardEdit, BootSettle, process, scheduleHistory, HostTyped
<1> QED BY <1>1, <1>2, TransitionKeeps

(* A write, in the wake of the commit or retried: done, or to be tried again, *)
(* or given up with a warning.                                                *)
LEMMA WriteKeeps ==
  ASSUME ScheduleInv, NEW o \in Row, Flush(o) \/ Retry(o)
  PROVE  ScheduleInv'
<1> USE ScheduleTypes DEF ScheduleInv
<1>1. /\ UNCHANGED <<row, calls, up, now>> /\ dirty \ {o} \subseteq dirty' /\ dirty' \subseteq dirty
      /\ \A x \in Row \ {o} : retries'[x] = retries[x]
      /\ gaveUp \ {o} \subseteq gaveUp' /\ elsewhere \ {o} \subseteq elsewhere'
      /\ gaveUp' \subseteq gaveUp \cup {o} /\ elsewhere' \subseteq elsewhere
  BY DEF Flush, Retry, HostTyped, scheduleHistory
<1>2. retries' \in [Row -> 0 .. 2]
  BY DEF Flush, Retry, HostTyped
<1>3. /\ atJobs' \subseteq Row \X Time /\ crontab' \subseteq Row /\ HostKeeps(Row \ {o})
      /\ (AtKept(o)' /\ CronKept(o)') \/ o \in gaveUp' \cup elsewhere'
  <2>1. CASE Installed({o})
    BY <1>1, <2>1, InstalledProperties
  <2>2. CASE InstalledInPart(o) /\ (retries'[o] > 0 \/ o \in gaveUp')
    <3>1. retries'[o] > 0 => AtKept(o)' /\ CronKept(o)'
      BY DEF AtKept, CronKept, AwaitsWrite
    <3> QED BY <2>2, <3>1, InPartProperties
  <2>3. CASE Flush(o)
    BY <2>1, <2>2, <2>3 DEF Flush, HostTyped
  <2>4. CASE Retry(o)
    BY <2>1, <2>2, <2>4 DEF Retry, HostTyped
  <2> QED BY <2>3, <2>4
<1>4. RowsTyped' /\ HostTyped'
  BY <1>1, <1>2, <1>3 DEF row, RowsTyped, HostTyped
<1>5. ScheduleKept'
  <2>1. SUFFICES ASSUME up, NEW x \in Row \ {o}, AtKept(x) /\ CronKept(x)
                 PROVE  AtKept(x)' /\ CronKept(x)'
    BY <1>1, <1>3 DEF ScheduleKept
  <2>2. PlannedAt(x)' = PlannedAt(x) /\ PlannedCron(x)' = PlannedCron(x)
    BY <1>1, SamePlan
  <2>3. HostKeeps({x})
    BY <1>3 DEF HostKeeps
  <2>4. (x \in calls => x \in calls') /\ (AwaitsWrite(x) => AwaitsWrite(x)')
    BY <1>1 DEF AwaitsWrite
  <2> QED BY <2>1, <2>2, <2>3, <2>4, RowStaysKept
<1>6. ScheduleTypeOK'
  BY <1>4 DEF RowsTyped, HostTyped, ScheduleTypeOK
<1> QED BY <1>5, <1>6

(* A job that runs turns into the callback; the clock only adds some. *)
LEMMA HostStepKeeps ==
  ASSUME ScheduleInv, Tick \/ \E j \in atJobs : FireAt(j)
  PROVE  ScheduleInv'
<1> USE ScheduleTypes DEF ScheduleInv
<1>1. /\ UNCHANGED <<row, crontab, up, dirty, retries, gaveUp, elsewhere>>
      /\ calls \subseteq calls' /\ calls' \subseteq Row
      /\ atJobs' \subseteq atJobs /\ now' \in Time
  BY Instants DEF Tick, FireAt, process, host, scheduleHistory, HostTyped, Time
<1>2. \A j \in atJobs \ atJobs' : up => j[1] \in calls'
  BY DEF Tick, FireAt, host
<1>3. RowsTyped' /\ HostTyped'
  BY <1>1 DEF row, RowsTyped, HostTyped
<1>4. ScheduleKept'
  <2>1. SUFFICES ASSUME up, NEW x \in Row, AtKept(x) /\ CronKept(x)
                 PROVE  AtKept(x)' /\ CronKept(x)'
    BY <1>1 DEF ScheduleKept
  <2>2. PlannedAt(x)' = PlannedAt(x) /\ PlannedCron(x)' = PlannedCron(x)
    BY <1>1, SamePlan
  <2>3. AwaitsWrite(x)' <=> AwaitsWrite(x)
    BY <1>1 DEF AwaitsWrite
  <2>4. CASE x \in calls'
    BY <1>1, <2>1, <2>2, <2>3, <2>4 DEF AtKept, CronKept
  <2>5. CASE x \notin calls'
    <3>1. JobsOf({x}) \subseteq JobsOf({x})'
      BY <1>2, <2>1, <2>5 DEF JobsOf
    <3>2. HostKeeps({x}) /\ (x \in calls => x \in calls')
      BY <1>1, <3>1 DEF HostKeeps
    <3> QED BY <2>1, <2>2, <2>3, <3>2, RowStaysKept
  <2> QED BY <2>4, <2>5
<1>5. ScheduleTypeOK'
  BY <1>3 DEF RowsTyped, HostTyped, ScheduleTypeOK
<1> QED BY <1>4, <1>5

LEMMA CrashKeeps ==
  ASSUME ScheduleInv, Crash
  PROVE  ScheduleInv'
<1> USE ScheduleTypes DEF ScheduleInv
<1>1. RowsTyped' /\ HostTyped'
  <2>1. RowsTyped'
    BY DEF Crash, row, RowsTyped
  <2>2. HostTyped
    OBVIOUS
  <2>3. HostTyped'
    <3>1. /\ UNCHANGED <<atJobs, crontab, now, gaveUp, elsewhere>>
          /\ up' = FALSE /\ dirty' = {} /\ calls' = {} /\ retries' = [x \in Row |-> 0]
      BY DEF Crash, host, scheduleHistory
    <3>2. retries' \in [Row -> 0 .. 2]
      BY <3>1
    <3> QED BY <2>2, <3>1, <3>2 DEF HostTyped
  <2> QED BY <2>1, <2>3
<1>2. ScheduleTypeOK'
  BY <1>1 DEF RowsTyped, HostTyped, ScheduleTypeOK
<1>3. ScheduleKept'
  BY DEF Crash, ScheduleKept
<1> QED BY <1>2, <1>3

(* Boot derives the jobs of every row anew, and records the writes that fail. *)
LEMMA BootArmKeeps ==
  ASSUME ScheduleInv, BootArm
  PROVE  ScheduleInv'
<1> USE ScheduleTypes DEF ScheduleInv
<1>1. PICK failed \in SUBSET Row : Installed(Row \ failed) /\ gaveUp' = failed
  BY DEF BootArm
<1>2. elsewhere' = {} /\ up' = TRUE /\ UNCHANGED <<row, calls, dirty, retries, now>>
  BY DEF BootArm
<1>3. /\ atJobs' \subseteq Row \X Time /\ crontab' \subseteq Row
      /\ \A o \in Row \ failed : AtKept(o)' /\ CronKept(o)'
  BY <1>1, <1>2, InstalledProperties
<1>4. RowsTyped' /\ HostTyped'
  BY <1>1, <1>2, <1>3 DEF row, RowsTyped, HostTyped
<1>5. ScheduleTypeOK'
  BY <1>4 DEF RowsTyped, HostTyped, ScheduleTypeOK
<1>6. ScheduleKept'
  BY <1>1, <1>2, <1>3 DEF ScheduleKept
<1> QED BY <1>5, <1>6

-----------------------------------------------------------------------------
LEMMA ScheduleInitInv == ScheduleInit => ScheduleInv
<1> SUFFICES ASSUME ScheduleInit PROVE ScheduleInv
  OBVIOUS
<1>1. 0 \in Time
  BY Instants DEF Time
<1>2. ScheduleTypeOK
  BY <1>1, Instants DEF ScheduleInit, ScheduleTypeOK, Deadline
<1>3. \A o \in Row : PlannedAt(o) = Never /\ (PlannedCron(o) => o \in crontab)
  BY DEF ScheduleInit, PlannedAt, PlannedCron
<1>4. ScheduleKept
  BY <1>3 DEF ScheduleKept, AtKept, CronKept
<1> QED BY <1>2, <1>4 DEF ScheduleInv

LEMMA ScheduleNextInv == ScheduleInv /\ [ScheduleNext]_scheduleVars => ScheduleInv'
<1> SUFFICES ASSUME ScheduleInv, [ScheduleNext]_scheduleVars PROVE ScheduleInv'
  OBVIOUS
<1>1. ASSUME NEW o \in Row,
             \/ \E d \in Time : setSnooze(o, d)
             \/ \E p \in {"none", "cron", "interval"} : setRecurrence(o, p)
             \/ clearSnooze(o) \/ expireDueSnoozes(o)
      PROVE  ScheduleInv'
  BY <1>1, CommandKeeps
<1>2. ASSUME NEW o \in Row, setTerminalStatusOf(o) \/ wakeScheduled(o)
      PROVE  ScheduleInv'
  BY <1>2, setTerminalStatusKeeps, wakeScheduledKeeps
<1>3. ASSUME NEW o \in Row, dashboardEdit(o) \/ BootSettle(o) \/ Flush(o) \/ Retry(o)
      PROVE  ScheduleInv'
  BY <1>3, OutsideKeeps, WriteKeeps
<1>4. CASE (\E j \in atJobs : FireAt(j)) \/ Tick \/ Crash \/ BootArm
  BY <1>4, HostStepKeeps, CrashKeeps, BootArmKeeps
<1>5. CASE UNCHANGED scheduleVars
  <2> USE DEF scheduleVars, row, host, process, scheduleHistory
  <2>1. \A o \in Row : PlannedAt(o)' = PlannedAt(o) /\ PlannedCron(o)' = PlannedCron(o)
    BY <1>5, SamePlan
  <2>2. \A x \in Row : HostKeeps({x}) /\ (AwaitsWrite(x) => AwaitsWrite(x)')
    BY <1>5 DEF HostKeeps, JobsOf, AwaitsWrite
  <2>3. ScheduleKept'
    BY <1>5, <2>1, <2>2, RowStaysKept DEF ScheduleInv, ScheduleKept
  <2>4. ScheduleTypeOK'
    BY <1>5 DEF ScheduleInv, ScheduleTypeOK
  <2> QED BY <2>3, <2>4 DEF ScheduleInv
<1> QED BY <1>1, <1>2, <1>3, <1>4, <1>5 DEF ScheduleNext

LEMMA ScheduleInductive == ScheduleSpec => []ScheduleInv
BY ScheduleInitInv, ScheduleNextInv, PTL DEF ScheduleSpec

(* A row sleeps exactly while it has a time to wake at, and every table of    *)
(* the schedule keeps to its type.                                            *)
THEOREM ScheduleTypeCorrect == ScheduleSpec => []ScheduleTypeOK
<1>1. ScheduleInv => ScheduleTypeOK
  BY DEF ScheduleInv
<1> QED BY <1>1, ScheduleInductive, PTL

(* While the process runs no deadline is left without a job, a callback or a  *)
(* write on its way, whichever writes fail, whatever jobs of earlier          *)
(* deadlines call back, and however often the process dies.                   *)
THEOREM DeadlinesCovered == ScheduleSpec => []DeadlineCovered
<1>1. ScheduleInv => DeadlineCovered
  BY DEF ScheduleInv, ScheduleKept, AtKept, CronKept, AwaitsWrite, DeadlineCovered, Covered, Pending
<1> QED BY <1>1, ScheduleInductive, PTL

(* Only a callback that is served leaves a process that runs. *)
LEMMA ServedCallback ==
  ASSUME ScheduleInv, [ScheduleNext]_scheduleVars, NEW o \in Row,
         o \in calls, o \notin calls', up'
  PROVE  wakeScheduled(o)
<1> USE DEF row, host, process, scheduleHistory
<1>1. ASSUME NEW x \in Row,
             \/ \E d \in Time : setSnooze(x, d)
             \/ \E p \in {"none", "cron", "interval"} : setRecurrence(x, p)
             \/ clearSnooze(x) \/ setTerminalStatusOf(x) \/ expireDueSnoozes(x)
             \/ dashboardEdit(x) \/ Flush(x) \/ Retry(x) \/ BootSettle(x)
      PROVE  FALSE
  BY <1>1 DEF setSnooze, setRecurrence, clearSnooze, setTerminalStatusOf, expireDueSnoozes,
              dashboardEdit, Flush, Retry, BootSettle, Committed
<1>2. ASSUME NEW x \in Row, wakeScheduled(x) PROVE wakeScheduled(o)
  <2>1. x = o
    BY <1>2 DEF wakeScheduled
  <2> QED BY <1>2, <2>1
<1>3. CASE (\E j \in atJobs : FireAt(j)) \/ Tick \/ Crash \/ BootArm \/ UNCHANGED scheduleVars
  BY <1>3 DEF FireAt, Tick, Crash, BootArm, scheduleVars
<1> QED BY <1>1, <1>2, <1>3 DEF ScheduleNext

(* The job a callback arms lies ahead, because being due and the instant of   *)
(* the job drop the same seconds.                                             *)
LEMMA ArmedAhead ==
  ASSUME ScheduleInv, NEW o \in Row, wakeScheduled(o), o \in dirty', PlannedAt(o)' # Never
  PROVE  now < atRunInstant(PlannedAt(o)')
<1> USE DEF ScheduleInv
<1>1. ASSUME NEW d \in Deadline, d # Never, ~isDeadlineDue(d) PROVE now < atRunInstant(d)
  <2>1. now \in Nat /\ atRunInstant(d) \in Nat
    BY <1>1, Instants DEF ScheduleTypeOK
  <2> QED BY <1>1, <2>1 DEF isDeadlineDue
<1>2. dirty = {} /\ snooze[o] \in Deadline /\ next[o] \in Deadline
  BY DEF wakeScheduled, Idle, ScheduleTypeOK
<1>3. CASE rowStatus[o] # "closed" /\ snooze[o] # Never /\ isDeadlineDue(snooze[o])
  <2>1. releaseSnooze(o)
    BY <1>3 DEF wakeScheduled
  <2>2. snooze'[o] = Never /\ policy' = policy
    BY <2>1 DEF releaseSnooze, ScheduleTypeOK
  <2>3. PlannedAt(o)' = next'[o] /\ next'[o] # Never
    BY <2>2 DEF PlannedAt
  <2>4. next'[o] = next[o] /\ ~isDeadlineDue(next[o])
    BY <2>1, <2>3 DEF releaseSnooze, ActivateRow, ScheduleTypeOK
  <2> QED BY <1>1, <1>2, <2>3, <2>4
<1>4. CASE rowStatus[o] # "closed" /\ snooze[o] # Never /\ ~isDeadlineDue(snooze[o])
  <2>1. UNCHANGED row
    BY <1>4 DEF wakeScheduled
  <2>2. PlannedAt(o)' = snooze[o]
    BY <1>4, <2>1, SamePlan DEF PlannedAt
  <2> QED BY <1>1, <1>2, <1>4, <2>2
<1>5. CASE rowStatus[o] = "scheduled" /\ snooze[o] = Never
  <2>1. UNCHANGED row /\ ~isDeadlineDue(next[o])
    BY <1>2, <1>5 DEF wakeScheduled
  <2>2. PlannedAt(o)' = next[o]
    BY <1>5, <2>1, SamePlan DEF PlannedAt
  <2> QED BY <1>1, <1>2, <2>1, <2>2
<1>6. CASE /\ ~(rowStatus[o] # "closed" /\ snooze[o] # Never)
           /\ ~(rowStatus[o] = "scheduled" /\ snooze[o] = Never)
  BY <1>2, <1>6 DEF wakeScheduled
<1> QED BY <1>3, <1>4, <1>5, <1>6

(* A callback that comes before the seconds of its deadline have passed acts  *)
(* on it or arms a job that lies ahead, so the host is never made to call     *)
(* back at once again and again.                                              *)
THEOREM CallbacksDoNotSpin == ScheduleSpec => NoBusyTimer
<1> DEFINE Ahead == \A o \in Row : o \in calls /\ o \notin calls' /\ up' /\ o \in dirty'
                                     /\ PlannedAt(o)' # Never =>
                      now < atRunInstant(PlannedAt(o)')
<1>1. ScheduleInv /\ [ScheduleNext]_scheduleVars => [Ahead]_scheduleVars
  BY ServedCallback, ArmedAhead
<1>2. ScheduleSpec => [][Ahead]_scheduleVars
  BY <1>1, ScheduleInductive, PTL DEF ScheduleSpec
<1> QED BY <1>2 DEF NoBusyTimer
=============================================================================
