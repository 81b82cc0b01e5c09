------------------------- MODULE AdmissionQueueProofs -------------------------
(***************************************************************************)
(* The pacing of normal starts (AdmissionQueue), for any set of lanes,     *)
(* linked in any way, any items and any intervals.  NormalStartsSpaced is  *)
(* about a single step, and rests on what the clocks keep at all times:    *)
(* the wait left and the time since the last start together cover the      *)
(* interval.  A claimed item must also have a lane for its clock to exist. *)
(*                                                                         *)
(* On that rest the claims: a pass over the list takes only idle lanes,    *)
(* one to a clock, and leaves behind only items that somebody will look at *)
(* again.  For that the list and the phases must name the same items.      *)
(***************************************************************************)
EXTENDS AdmissionQueue, SequenceTheorems, TLAPS

(* What a call on the clocks keeps. *)
Covered(ck) ==
  /\ ck \in [Lane -> Clock]
  /\ \A l \in Lane : ck[l].wait + ck[l].age >= ck[l].interval

(* What the list keeps: an item that has left it to start has a lane. *)
Claimed(ph, la) ==
  /\ ph \in [Item -> Phases]
  /\ la \in [Item -> Lane \cup {NoLane}]
  /\ \A i \in Item : ph[i] \in Held \cup {"bypassing"} => la[i] \in Lane

IndInv == Covered(clock) /\ Claimed(phase, lane)

-----------------------------------------------------------------------------
(* What the operations on a queue do to its entries. *)

(* Taking an entry out of a queue takes out nothing else. *)
LEMMA WithoutProperties ==
  ASSUME NEW S, NEW q \in Seq(S), Distinct(q), NEW e \in S
  PROVE  /\ Without(q, e) \in Seq(S)
         /\ Distinct(Without(q, e))
         /\ Elements(Without(q, e)) = Elements(q) \ {e}
         /\ q = <<>> => Without(q, e) = <<>>
         /\ Len(Without(q, e)) >= Len(q) - 1
<1>1. CASE \E i \in 1 .. Len(q) : q[i] = e
  <2> DEFINE k == CHOOSE i \in 1 .. Len(q) : q[i] = e
             n == Len(q) - 1
             from(i) == IF i < k THEN i ELSE i + 1
             w == [i \in 1 .. n |-> IF i < k THEN q[i] ELSE q[i + 1]]
  <2>1. k \in 1 .. Len(q) /\ q[k] = e /\ Len(q) \in Nat
    BY <1>1, LenProperties
  <2>2. Without(q, e) = w
    BY <1>1 DEF Without
  <2> HIDE DEF k
  <2>3. n \in Nat /\ \A i \in 1 .. n : from(i) \in 1 .. Len(q) /\ from(i) # k /\ w[i] = q[from(i)]
    BY <2>1
  <2>4. w \in Seq(S) /\ Len(w) = n
    BY <2>1, <2>3, ElementOfSeq
  <2>5. /\ \A i, j \in 1 .. n : from(i) = from(j) => i = j
        /\ \A m \in 1 .. Len(q) : m # k => \E i \in 1 .. n : from(i) = m
    <3>1. ASSUME NEW m \in 1 .. Len(q), m # k PROVE \E i \in 1 .. n : from(i) = m
      <4>1. CASE m < k
        BY <2>1, <4>1
      <4>2. CASE m > k
        <5>1. (m - 1) \in 1 .. n /\ from(m - 1) = m
          BY <2>1, <4>2
        <5> QED BY <5>1
      <4> QED BY <2>1, <3>1, <4>1, <4>2
    <3> QED BY <2>1, <3>1
  <2>6. q # <<>>
    BY <2>1, EmptySeq
  <2> HIDE DEF w, from, n
  <2>7. Distinct(w)
    BY <2>3, <2>4, <2>5 DEF Distinct
  <2>8. Elements(w) = Elements(q) \ {e}
    <3>1. Elements(w) \subseteq Elements(q) \ {e}
      BY <2>1, <2>3, <2>4 DEF Distinct, Elements
    <3>2. Elements(q) \ {e} \subseteq Elements(w)
      BY <2>1, <2>3, <2>4, <2>5 DEF Elements
    <3> QED BY <3>1, <3>2
  <2> QED BY <2>1, <2>2, <2>4, <2>6, <2>7, <2>8 DEF n
<1>2. CASE ~ \E i \in 1 .. Len(q) : q[i] = e
  BY <1>2, LenProperties DEF Without, Elements
<1> QED BY <1>1, <1>2

(* push: the new entry joins the others. *)
LEMMA PushProperties ==
  ASSUME NEW S, NEW q \in Seq(S), Distinct(q), NEW e \in S, e \notin Elements(q)
  PROVE  /\ Append(q, e) \in Seq(S) /\ Append(q, e) # <<>>
         /\ Distinct(Append(q, e))
         /\ Elements(Append(q, e)) = Elements(q) \cup {e}
<1> DEFINE w == Append(q, e)
<1>1. /\ w \in Seq(S) /\ w # <<>> /\ Len(w) = Len(q) + 1
      /\ w[Len(q) + 1] = e /\ \A i \in 1 .. Len(q) : w[i] = q[i]
  BY AppendProperties
<1>2. Len(q) \in Nat
  BY LenProperties
<1> HIDE DEF w
<1>3. Distinct(w)
  <2>1. \A i \in 1 .. Len(q) : w[i] # e
    BY <1>1 DEF Elements
  <2> QED BY <1>1, <1>2, <2>1 DEF Distinct
<1>4. Elements(w) = Elements(q) \cup {e}
  BY <1>1, <1>2 DEF Elements
<1> QED BY <1>1, <1>3, <1>4 DEF w

(* splice(to - 1, 0, e): the new entry joins the others in their midst. *)
LEMMA InsertProperties ==
  ASSUME NEW S, NEW q \in Seq(S), Distinct(q), NEW e \in S, e \notin Elements(q),
         NEW to \in 1 .. Len(q) + 1
  PROVE  LET w == SubSeq(q, 1, to - 1) \o <<e>> \o SubSeq(q, to, Len(q))
         IN  w \in Seq(S) /\ Distinct(w) /\ Elements(w) = Elements(q) \cup {e}
<1> DEFINE w == SubSeq(q, 1, to - 1) \o <<e>> \o SubSeq(q, to, Len(q))
           l == SubSeq(q, 1, to - 1)
           r == SubSeq(q, to, Len(q))
           m == l \o <<e>>
<1>1. Len(q) \in Nat /\ to \in Int /\ \A i \in 1 .. Len(q) : q[i] \in S
  BY LenProperties, ElementOfSeq
<1>2. /\ l \in Seq(S) /\ Len(l) = to - 1
      /\ \A i \in 1 .. (to - 1) : l[i] = q[i]
  <2>1. \A i \in 1 .. (to - 1) : q[i] \in S
    BY <1>1
  <2> QED BY <1>1, <2>1, SubSeqProperties
<1>3. /\ r \in Seq(S) /\ Len(r) = Len(q) - to + 1
      /\ \A i \in 1 .. (Len(q) - to + 1) : r[i] = q[to + i - 1]
  <2>1. \A i \in to .. Len(q) : q[i] \in S
    BY <1>1
  <2> QED BY <1>1, <2>1, SubSeqProperties
<1>4. <<e>> \in Seq(S) /\ Len(<<e>>) = 1 /\ <<e>>[1] = e
  OBVIOUS
<1> HIDE DEF l, r
<1>5. /\ m \in Seq(S) /\ Len(m) = to
      /\ \A i \in 1 .. to : m[i] = IF i <= to - 1 THEN l[i] ELSE <<e>>[i - (to - 1)]
  BY <1>1, <1>2, <1>4, ConcatProperties
<1>6. \A i \in 1 .. to : m[i] = IF i < to THEN q[i] ELSE e
  BY <1>1, <1>2, <1>4, <1>5
<1> HIDE DEF m
<1>7. w = m \o r
  BY DEF m, l, r
<1> HIDE DEF w
<1>8. /\ w \in Seq(S) /\ Len(w) = Len(q) + 1
      /\ \A i \in 1 .. (Len(q) + 1) : w[i] = IF i <= to THEN m[i] ELSE r[i - to]
  <2>1. /\ m \o r \in Seq(S) /\ Len(m \o r) = Len(m) + Len(r)
        /\ \A i \in 1 .. Len(m) + Len(r) :
             (m \o r)[i] = IF i <= Len(m) THEN m[i] ELSE r[i - Len(m)]
    BY <1>3, <1>5, ConcatProperties
  <2>2. Len(m) + Len(r) = Len(q) + 1
    BY <1>1, <1>3, <1>5
  <2> QED BY <1>5, <1>7, <2>1, <2>2
<1>9. \A i \in 1 .. (Len(q) + 1) :
        w[i] = IF i < to THEN q[i] ELSE IF i = to THEN e ELSE q[i - 1]
  <2>0. ASSUME NEW i \in 1 .. (Len(q) + 1), i <= to
        PROVE  w[i] = IF i < to THEN q[i] ELSE e
    <3>1. i \in 1 .. to
      BY <1>1, <2>0
    <3> QED BY <1>6, <1>8, <2>0, <3>1
  <2> SUFFICES ASSUME NEW i \in 1 .. (Len(q) + 1), i > to PROVE w[i] = q[i - 1]
    BY <1>1, <2>0
  <2>1. i - to \in 1 .. (Len(q) - to + 1) /\ to + (i - to) - 1 = i - 1 /\ ~(i <= to)
    BY <1>1
  <2> QED BY <1>3, <1>8, <2>1
<1>10. Distinct(w)
  <2> DEFINE from(i) == IF i < to THEN i ELSE i - 1
  <2>1. \A i \in 1 .. (Len(q) + 1) : i # to => from(i) \in 1 .. Len(q) /\ w[i] = q[from(i)]
    BY <1>1, <1>9
  <2>2. SUFFICES ASSUME NEW i \in 1 .. (Len(q) + 1), NEW j \in 1 .. (Len(q) + 1),
                        w[i] = w[j]
                 PROVE  i = j
    BY <1>8 DEF Distinct
  <2>3. w[to] = e /\ \A k \in 1 .. Len(q) : q[k] # e
    BY <1>1, <1>9 DEF Elements
  <2>4. CASE i = to \/ j = to
    BY <2>1, <2>2, <2>3, <2>4
  <2>5. CASE i # to /\ j # to
    <3>1. from(i) = from(j)
      BY <2>1, <2>2, <2>5 DEF Distinct
    <3> QED BY <1>1, <2>5, <3>1
  <2> QED BY <2>4, <2>5
<1>11. Elements(w) = Elements(q) \cup {e}
  <2>1. ASSUME NEW x \in Elements(w) PROVE x \in Elements(q) \cup {e}
    <3>1. PICK i \in 1 .. (Len(q) + 1) : x = w[i]
      BY <1>8, <2>1 DEF Elements
    <3> QED BY <1>1, <1>9, <3>1 DEF Elements
  <2>2. ASSUME NEW k \in 1 .. Len(q) PROVE q[k] \in Elements(w)
    <3>1. \E i \in 1 .. (Len(q) + 1) : w[i] = q[k]
      <4>1. CASE k < to
        BY <1>1, <1>9, <4>1
      <4>2. CASE k >= to
        <5>1. k + 1 \in 1 .. (Len(q) + 1) /\ ~(k + 1 < to) /\ k + 1 # to /\ (k + 1) - 1 = k
          BY <1>1, <4>2
        <5> QED BY <1>9, <5>1
      <4> QED BY <1>1, <4>1, <4>2
    <3> QED BY <1>8, <3>1 DEF Elements
  <2>3. e \in Elements(w)
    <3>1. w[to] = e /\ to \in 1 .. Len(w)
      BY <1>1, <1>8, <1>9
    <3> QED BY <3>1 DEF Elements
  <2> QED BY <2>1, <2>2, <2>3 DEF Elements
<1> QED BY <1>8, <1>10, <1>11 DEF w

(* What is left of a queue that lost some of its entries. *)
LEMMA RemainingProperties ==
  ASSUME NEW S, NEW q \in Seq(S), Distinct(q), NEW T, NEW r \in Remaining(q, T)
  PROVE  r \in Seq(S) /\ Distinct(r) /\ Elements(r) = Elements(q) \ T
<1>1. Len(q) \in Nat /\ Elements(q) \subseteq S
  BY LenProperties, ElementOfSeq DEF Elements
<1>2. PICK n \in 0 .. Len(q) : r \in [1 .. n -> Elements(q) \ T]
  BY DEF Remaining
<1>3. r \in Seq(S) /\ Len(r) = n
  BY <1>1, <1>2
<1>4. Distinct(r)
  <2> SUFFICES ASSUME NEW i \in 1 .. Len(r), NEW j \in 1 .. Len(r), i < j
               PROVE  r[i] # r[j]
    BY <1>1, <1>3 DEF Distinct
  <2>1. PICK k, l \in 1 .. Len(q) : k < l /\ q[k] = r[i] /\ q[l] = r[j]
    BY DEF Remaining
  <2> QED BY <1>1, <2>1 DEF Distinct
<1> QED BY <1>3, <1>4 DEF Remaining

-----------------------------------------------------------------------------
(* A lane and its provider's open later than either alone. *)
LEMMA AvailableBounds ==
  ASSUME NEW ck, Covered(ck), NEW l \in Lane
  PROVE  /\ Available(ck, l) \in 0 .. MaxInterval
         /\ Provider[l] \in Lane
         /\ Available(ck, l) = 0 => ck[l].wait = 0 /\ ck[Provider[l]].wait = 0
<1>1. Provider[l] \in Lane /\ MaxInterval \in Nat
  BY LaneAssumption
<1>2. ck[l] \in Clock /\ ck[Provider[l]] \in Clock
  BY <1>1 DEF Covered
<1>3. ck[l].wait \in 0 .. MaxInterval /\ ck[Provider[l]].wait \in 0 .. MaxInterval
  BY <1>2 DEF Clock
<1> QED BY <1>1, <1>3 DEF Available, Later

(* Rearming the put-back requests' timers touches nothing else. *)
LEMMA ArmedCovered ==
  ASSUME NEW ck, Covered(ck), NEW ph, NEW la, NEW lanes
  PROVE  Covered(Armed(ph, la, ck, lanes))
<1>1. ASSUME NEW l \in Lane
      PROVE  Armed(ph, la, ck, lanes)[l] \in
               {ck[l], [ck[l] EXCEPT !.timer = Available(ck, l)]}
  BY DEF Armed
<1>2. ASSUME NEW l \in Lane
      PROVE  LET c == Armed(ph, la, ck, lanes)[l]
             IN /\ c \in Clock /\ c.wait = ck[l].wait
                /\ c.age = ck[l].age /\ c.interval = ck[l].interval
  <2>1. ck[l] \in Clock /\ Available(ck, l) \in 0 .. MaxInterval
    BY AvailableBounds DEF Covered
  <2> QED BY <1>1, <2>1 DEF Clock
<1>3. Armed(ph, la, ck, lanes) = [l \in Lane |-> Armed(ph, la, ck, lanes)[l]]
  BY DEF Armed
<1> QED BY <1>2, <1>3 DEF Covered

(* A start, on its own lane and on its provider's. *)
LEMMA StartedCovered ==
  ASSUME NEW ck, Covered(ck), NEW l \in Lane
  PROVE  Covered(Started(ck, l))
<1>1. MaxInterval \in Nat
  BY LaneAssumption
<1>2. ASSUME NEW k \in Lane
      PROVE  LET c == Started(ck, l)[k]
             IN c \in Clock /\ c.wait + c.age >= c.interval
  <2>1. /\ ck[k] \in Clock /\ ck[k].wait + ck[k].age >= ck[k].interval
        /\ ck[k].wait \in 0 .. MaxInterval /\ ck[k].interval \in 0 .. MaxInterval
    BY DEF Covered, Clock
  <2>2. Started(ck, l)[k] \in {[ck[k] EXCEPT !.age = 0, !.wait = ck[k].interval],
                               [ck[k] EXCEPT !.age = 0, !.wait = Later(@, ck[k].interval)],
                               ck[k]}
    BY DEF Started
  <2>3. Later(ck[k].wait, ck[k].interval) \in 0 .. MaxInterval
        /\ Later(ck[k].wait, ck[k].interval) >= ck[k].interval
        /\ 0 \in 0 .. Never /\ ck[k].interval + 0 >= ck[k].interval
    BY <1>1, <2>1 DEF Later, Never
  <2> DEFINE w == Later(ck[k].wait, ck[k].interval)
  <2> HIDE DEF w
  <2>4. \A x \in {ck[k].interval, w} :
          LET c == [ck[k] EXCEPT !.age = 0, !.wait = x]
          IN c \in Clock /\ c.wait = x /\ c.age = 0 /\ c.interval = ck[k].interval
    BY <2>1, <2>3 DEF Clock, w
  <2>5. CASE Started(ck, l)[k] = [ck[k] EXCEPT !.age = 0, !.wait = ck[k].interval]
    BY <2>1, <2>3, <2>4, <2>5
  <2>6. CASE Started(ck, l)[k] = [ck[k] EXCEPT !.age = 0, !.wait = w]
    BY <1>1, <2>1, <2>3, <2>4, <2>6 DEF w
  <2> QED BY <2>1, <2>2, <2>5, <2>6 DEF w
<1>3. Started(ck, l) = [k \in Lane |-> Started(ck, l)[k]]
  BY DEF Started
<1> QED BY <1>2, <1>3 DEF Covered

(* A published interval and deadline. *)
LEMMA PublishedCovered ==
  ASSUME NEW ck, Covered(ck), NEW l \in Lane,
         NEW v \in 0 .. MaxInterval, NEW d \in 0 .. MaxInterval
  PROVE  Covered(DeferUntil(SetInterval(ck, l, v), l, d))
<1>1. MaxInterval \in Nat
  BY LaneAssumption
<1> DEFINE s == SetInterval(ck, l, v)
<1>2. Covered(s)
  <2>1. /\ ck[l] \in Clock /\ ck[l].age \in 0 .. Never /\ ck[l].wait \in 0 .. MaxInterval
        /\ ck[l].interval \in 0 .. MaxInterval
    BY DEF Covered, Clock
  <2>2. s[l] = [ck[l] EXCEPT !.interval = v,
                  !.wait = IF ck[l].age = Never THEN @ ELSE Minus(v, ck[l].age)]
    BY DEF Covered, SetInterval
  <2> DEFINE x == IF ck[l].age = Never THEN ck[l].wait ELSE Minus(v, ck[l].age)
  <2>7. x \in 0 .. MaxInterval /\ x + ck[l].age >= v
    BY <1>1, <2>1 DEF Minus, Later, Never
  <2> HIDE DEF x
  <2>8. s[l] = [ck[l] EXCEPT !.interval = v, !.wait = x]
    BY <2>1, <2>2 DEF x, Clock
  <2>3. s[l] \in Clock /\ s[l].wait + s[l].age >= s[l].interval
    BY <2>1, <2>7, <2>8 DEF Clock
  <2>4. DOMAIN s = Lane /\ \A k \in Lane \ {l} : s[k] = ck[k]
    BY DEF Covered, SetInterval
  <2>5. s = [k \in Lane |-> s[k]]
    BY DEF Covered, SetInterval
  <2> HIDE DEF s
  <2>6. s \in [Lane -> Clock]
    BY <2>3, <2>4, <2>5 DEF Covered
  <2> QED BY <2>3, <2>4, <2>6 DEF Covered
<1> HIDE DEF s
<1>3. /\ s[l] \in Clock /\ s[l].wait \in 0 .. MaxInterval /\ s[l].age \in 0 .. Never
      /\ s[l].interval \in 0 .. MaxInterval /\ s[l].wait + s[l].age >= s[l].interval
  BY <1>2 DEF Covered, Clock
<1> DEFINE r == DeferUntil(s, l, d)
<1>4. r[l] = [s[l] EXCEPT !.wait = Later(@, d)]
  BY <1>2 DEF Covered, DeferUntil
<1>5. r[l] \in Clock /\ r[l].wait + r[l].age >= r[l].interval
  BY <1>1, <1>3, <1>4 DEF Clock, Later, Never
<1>6. r = [k \in Lane |-> r[k]] /\ \A k \in Lane \ {l} : r[k] = s[k]
  BY <1>2 DEF Covered, DeferUntil
<1> HIDE DEF r
<1>7. r \in [Lane -> Clock]
  BY <1>2, <1>5, <1>6 DEF Covered
<1>8. Covered(r)
  BY <1>2, <1>5, <1>6, <1>7 DEF Covered
<1> QED BY <1>8 DEF r, s

(* The passing of time. *)
LEMMA ElapsedCovered ==
  ASSUME NEW ck, Covered(ck)
  PROVE  Covered(Elapsed(ck))
<1>1. MaxInterval \in Nat
  BY LaneAssumption
<1>2. ASSUME NEW l \in Lane
      PROVE  LET c == Elapsed(ck)[l]
             IN c \in Clock /\ c.wait + c.age >= c.interval
  <2>1. /\ ck[l] \in Clock /\ ck[l].wait + ck[l].age >= ck[l].interval
        /\ ck[l].wait \in 0 .. MaxInterval /\ ck[l].interval \in 0 .. MaxInterval
        /\ ck[l].age \in 0 .. Never /\ ck[l].timer \in 0 .. MaxInterval
    BY DEF Covered, Clock
  <2>2. Elapsed(ck)[l] =
          [ck[l] EXCEPT !.age = IF @ >= MaxInterval THEN @ ELSE @ + 1,
                        !.wait = Minus(@, 1), !.timer = Minus(@, 1)]
    BY DEF Elapsed
  <2> DEFINE a == IF ck[l].age >= MaxInterval THEN ck[l].age ELSE ck[l].age + 1
             x == Minus(ck[l].wait, 1)
             t == Minus(ck[l].timer, 1)
  <2>3. /\ a \in 0 .. Never /\ x \in 0 .. MaxInterval /\ t \in 0 .. MaxInterval
        /\ x + a >= ck[l].interval
    BY <1>1, <2>1 DEF Minus, Later, Never
  <2>4. Elapsed(ck)[l] = [ck[l] EXCEPT !.age = a, !.wait = x, !.timer = t]
    BY <2>2
  <2> HIDE DEF a, x, t
  <2> QED BY <2>1, <2>3, <2>4 DEF Clock
<1>3. Elapsed(ck) = [l \in Lane |-> Elapsed(ck)[l]]
  BY DEF Elapsed
<1> QED BY <1>2, <1>3 DEF Covered

(* A pass over the list gives every item it takes one of its lanes. *)
LEMMA DrainClaims ==
  ASSUME NEW w, NEW ph, NEW la, NEW ck, NEW halts, Claimed(ph, la),
         Drain(w, ph, la, ck, halts)
  PROVE  Claimed(phase', lane')
<1>1. PICK f \in Claims(w, ph, la, ck, halts) :
        LET At(i)  == CHOOSE k \in 1 .. Len(w) : w[k] = i /\ f[k] # NoLane
            taken  == {w[k] : k \in {j \in 1 .. Len(w) : f[j] # NoLane}}
        IN /\ phase' = [i \in Item |-> IF i \in taken THEN "staged" ELSE ph[i]]
           /\ lane' = [i \in Item |-> IF i \in taken THEN f[At(i)] ELSE la[i]]
  BY DEF Drain
<1> DEFINE At(i) == CHOOSE k \in 1 .. Len(w) : w[k] = i /\ f[k] # NoLane
           taken == {w[k] : k \in {j \in 1 .. Len(w) : f[j] # NoLane}}
<1>2. f \in [1 .. Len(w) -> Lane \cup {NoLane}]
  BY DEF Claims
<1>3. ASSUME NEW i \in taken PROVE f[At(i)] \in Lane
  <2>1. \E k \in 1 .. Len(w) : w[k] = i /\ f[k] # NoLane
    BY <1>3
  <2>2. At(i) \in 1 .. Len(w) /\ f[At(i)] # NoLane
    BY <2>1
  <2> QED BY <1>2, <2>2
<1>4. /\ phase' = [i \in Item |-> IF i \in taken THEN "staged" ELSE ph[i]]
      /\ lane' = [i \in Item |-> IF i \in taken THEN f[At(i)] ELSE la[i]]
  BY <1>1
<1> HIDE DEF At, taken
<1> QED BY <1>3, <1>4 DEF Claimed, Phases, Held

(* pacer.schedule moves a request, never its lane. *)
LEMMA StagedClaims ==
  ASSUME NEW ph, NEW la, NEW ck, NEW lanes, Claimed(ph, la)
  PROVE  Claimed(Staged(ph, la, ck, lanes), la)
BY DEF Claimed, Staged, Phases, Held

-----------------------------------------------------------------------------
(* The initial states. *)
LEMMA InitOK == Init => IndInv
<1> SUFFICES ASSUME Init PROVE IndInv
  OBVIOUS
<1>1. MaxInterval \in Nat
  BY LaneAssumption
<1>2. Fresh \in Clock /\ Fresh.wait + Fresh.age >= Fresh.interval
  BY <1>1 DEF Fresh, Clock, Never
<1>3. Covered(clock)
  BY <1>2 DEF Init, Covered
<1>4. Claimed(phase, lane)
  BY DEF Init, Claimed, Phases, Held
<1> QED BY <1>3, <1>4 DEF IndInv

(* The steps of one request. *)
LEMMA RequestOK ==
  ASSUME IndInv, NEW i \in Item, Request(i)
  PROVE  IndInv'
<1> USE DEF IndInv
<1>1. clock' = clock
  BY DEF Request, EnqueueNormal, EnqueueResponsive, PromoteWaiting, PromoteClaimed,
         PromoteRefused, CancelWaiting, CancelClaimed, Reorder
<1>2. CASE EnqueueNormal(i)
  <2> DEFINE ph == [phase EXCEPT ![i] = "waiting"]
  <2>1. Claimed(ph, lane)
    BY DEF Claimed, Phases, Held
  <2>2. Drain(Append(waiting, i), ph, lane, clock, halted)
    BY <1>2 DEF EnqueueNormal
  <2> HIDE DEF ph
  <2> QED BY <1>1, <2>1, <2>2, DrainClaims
<1>3. CASE CancelWaiting(i)
  <2> DEFINE ph == [phase EXCEPT ![i] = "done"]
  <2>1. Claimed(ph, lane)
    BY DEF Claimed, Phases, Held
  <2>2. Drain(Without(waiting, i), ph, lane, clock, halted)
    BY <1>3 DEF CancelWaiting
  <2> HIDE DEF ph
  <2> QED BY <1>1, <2>1, <2>2, DrainClaims
<1>4. CASE EnqueueResponsive(i) \/ PromoteWaiting(i)
  <2>1. ClaimResponsive(i)
    BY <1>4 DEF EnqueueResponsive, PromoteWaiting
  <2>2. Healthy(i, halted) \subseteq Lane
    BY ItemAssumption DEF Healthy
  <2> QED BY <1>1, <2>1, <2>2 DEF ClaimResponsive, Claimed, Phases, Held
<1>5. CASE PromoteClaimed(i)
  BY <1>1, <1>5 DEF PromoteClaimed, Claimed, Phases, Held
<1>6. CASE PromoteRefused(i)
  BY <1>1, <1>6 DEF PromoteRefused, LetGo, Claimed, Phases, Held
<1>7. CASE CancelClaimed(i)
  BY <1>1, <1>7 DEF CancelClaimed, LetGo, Claimed, Phases, Held
<1>8. CASE \E to \in 1 .. Cardinality(Item) : Reorder(i, to)
  BY <1>1, <1>8 DEF Reorder
<1> QED BY <1>2, <1>3, <1>4, <1>5, <1>6, <1>7, <1>8 DEF Request

(* Its way through the limiter to its run and back. *)
LEMMA ServeOK ==
  ASSUME IndInv, NEW i \in Item, Serve(i)
  PROVE  IndInv'
<1> USE DEF IndInv
<1>1. CASE Grant(i)
  BY <1>1 DEF Grant, Claimed, Phases, Held
<1>2. CASE RejectStale(i)
  BY <1>2 DEF RejectStale, LetGo, Claimed, Phases, Held
<1>3. CASE TooEarly(i)
  <2>1. Claimed(phase', lane')
    BY <1>3 DEF TooEarly, Claimed, Phases, Held
  <2>2. Covered(clock')
    BY <1>3, ArmedCovered DEF TooEarly
  <2> QED BY <2>1, <2>2
<1>4. CASE StartNormal(i) \/ StartResponsive(i)
  <2>1. Start(i) /\ lane[i] \in Lane
    BY <1>4 DEF StartNormal, StartResponsive, Claimed, Held
  <2> DEFINE ck == Started(clock, lane[i])
             ph == [phase EXCEPT ![i] = "running"]
             lanes == ScheduledByStart(lane[i])
  <2>2. /\ phase' = Staged(ph, lane, ck, lanes)
        /\ clock' = Armed(phase', lane, ck, lanes)
        /\ lane' = [lane EXCEPT ![i] = NoLane]
    BY <2>1 DEF Start, LetGo
  <2>3. Covered(ck)
    BY <2>1, StartedCovered
  <2>4. Claimed(ph, lane) /\ ph[i] = "running"
    BY DEF Claimed, Phases, Held
  <2> HIDE DEF ck, ph, lanes
  <2>5. Covered(clock')
    BY <2>2, <2>3, ArmedCovered
  <2>6. Claimed(phase', lane) /\ phase'[i] = "running"
    BY <2>2, <2>4, StagedClaims DEF Staged
  <2>7. Claimed(phase', lane')
    BY <2>2, <2>6 DEF Claimed, Held
  <2> QED BY <2>5, <2>7
<1>5. CASE Finish(i)
  BY <1>5 DEF Finish, Claimed, Phases, Held
<1> QED BY <1>1, <1>2, <1>3, <1>4, <1>5 DEF Serve

(* Every step keeps the invariant. *)
LEMMA StepOK == IndInv /\ [Next]_vars => IndInv'
<1> SUFFICES ASSUME IndInv, [Next]_vars PROVE IndInv'
  OBVIOUS
<1> USE DEF IndInv
<1>1. CASE \E i \in Item : Request(i)
  BY <1>1, RequestOK
<1>2. CASE \E i \in Item : Serve(i)
  BY <1>2, ServeOK
<1>3. CASE Refresh \/ ListTimerFires
  <2>1. Drain(waiting, phase, lane, clock, halted) /\ clock' = clock
    BY <1>3 DEF Refresh, ListTimerFires
  <2> QED BY <2>1, DrainClaims
<1>4. CASE \E l \in Lane : LaneTimerFires(l)
  BY <1>4 DEF LaneTimerFires, PutBack, Claimed, Phases, Held
<1>5. CASE \E l \in Lane, interval, deadline \in 0 .. MaxInterval :
             Publish(l, interval, deadline)
  <2>1. PICK l \in Lane, interval \in 0 .. MaxInterval, deadline \in 0 .. MaxInterval :
               Publish(l, interval, deadline)
    BY <1>5
  <2> DEFINE ck == DeferUntil(SetInterval(clock, l, interval), l, deadline)
             ph == Staged(phase, lane, SetInterval(clock, l, interval), ScheduledByChange(l))
  <2>2. clock' = Armed(ph, lane, ck, ScheduledByChange(l)) /\ Drain(waiting, ph, lane, ck, halted)
    BY <2>1 DEF Publish
  <2>3. Covered(ck) /\ Claimed(ph, lane)
    BY PublishedCovered, StagedClaims
  <2> HIDE DEF ck, ph
  <2> QED BY <2>2, <2>3, ArmedCovered, DrainClaims
<1>6. CASE \E l \in Lane : Halt(l)
  BY <1>6 DEF Halt
<1>7. CASE \E l \in Lane : Resume(l)
  <2>1. PICK l \in Lane : Drain(waiting, phase, lane, clock, halted \ {l}) /\ clock' = clock
    BY <1>7 DEF Resume
  <2> QED BY <2>1, DrainClaims
<1>8. CASE Tick
  BY <1>8, ElapsedCovered DEF Tick
<1>9. CASE UNCHANGED vars
  BY <1>9 DEF vars
<1> QED BY <1>1, <1>2, <1>3, <1>4, <1>5, <1>6, <1>7, <1>8, <1>9 DEF Next, Environment

(* The clocks always cover their intervals, and claims always name a lane. *)
THEOREM Inductive == Spec => []IndInv
<1> QED BY InitOK, StepOK, PTL DEF Spec

(* A normal run never starts sooner after the last start on its lane's clock, *)
(* or its provider's, than that clock's interval.                             *)
THEOREM StartsAreSpaced == Spec => NormalStartsSpaced
<1> DEFINE Spaced == \A i \in Item : StartNormal(i) =>
             \A l \in {lane[i], Provider[lane[i]]} : clock[l].age >= clock[l].interval
<1>1. IndInv => Spaced
  <2> SUFFICES ASSUME IndInv, NEW i \in Item, StartNormal(i),
                      NEW l \in {lane[i], Provider[lane[i]]}
               PROVE  clock[l].age >= clock[l].interval
    OBVIOUS
  <2>1. lane[i] \in Lane /\ Available(clock, lane[i]) = 0 /\ Covered(clock)
    BY DEF StartNormal, IndInv, Claimed, Held
  <2>2. l \in Lane /\ clock[l].wait = 0
    BY <2>1, AvailableBounds
  <2>3. clock[l].age \in 0 .. Never /\ clock[l].wait + clock[l].age >= clock[l].interval
    BY <2>1, <2>2 DEF Covered, Clock
  <2> QED BY <2>2, <2>3, LaneAssumption DEF Never
<1>2. IndInv /\ [Next]_vars => [Spaced]_vars
  BY <1>1
<1> QED BY <1>2, Inductive, PTL DEF Spec, NormalStartsSpaced

-----------------------------------------------------------------------------
(* The list holds the waiting items, each once. *)
Listed(w, ph) ==
  /\ w \in Seq(Item) /\ Distinct(w)
  /\ Elements(w) = {i \in Item : ph[i] = "waiting"}

(* No two claims share a clock. *)
Exclusive(ph, la) ==
  \A i, j \in Item : i # j /\ ph[i] \in Held /\ ph[j] \in Held => la[i] \notin SameClock(la[j])

(* Somebody looks at the listed items again: the end of a claim, or the timer. *)
Watched(ph, la, l) ==
  \E i \in Item : ph[i] \in Held \cup {"bypassing"} /\ la[i] \in SameClock(l)

Served(w, ph, la, ck, halts, timer) ==
  \A e \in Elements(w) : \A l \in Candidates[e] \ halts :
    Watched(ph, la, l) \/ (timer # Off /\ timer <= Available(ck, l))

(* The rest of the state has its types. *)
Sorts ==
  /\ responsive \in [Item -> BOOLEAN] /\ holders \subseteq Item /\ rejected \subseteq Item
  /\ halted \subseteq Lane /\ refreshDue \in BOOLEAN
  /\ disturbances \in 0 .. MaxDisturbances

ListInv ==
  /\ IndInv /\ Sorts
  /\ Listed(waiting, phase) /\ Exclusive(phase, lane)
  /\ listTimer \in Off .. MaxInterval
  /\ refreshDue \/ Served(waiting, phase, lane, clock, halted, listTimer)

(* What a pass over the list does, step by step. *)
LEMMA DrainPass ==
  ASSUME NEW w, NEW ph, NEW la, NEW ck, NEW halts,
         Covered(ck), Claimed(ph, la), Listed(w, ph), Exclusive(ph, la),
         Drain(w, ph, la, ck, halts)
  PROVE  /\ Listed(waiting', phase')
         /\ Exclusive(phase', lane')
         /\ listTimer' \in Off .. MaxInterval
         /\ Served(waiting', phase', lane', ck, halts, listTimer')
<1>1. PICK f \in Claims(w, ph, la, ck, halts) :
        LET At(i)  == CHOOSE k \in 1 .. Len(w) : w[k] = i /\ f[k] # NoLane
            taken  == {w[k] : k \in {j \in 1 .. Len(w) : f[j] # NoLane}}
            ph2    == [i \in Item |-> IF i \in taken THEN "staged" ELSE ph[i]]
            la2    == [i \in Item |-> IF i \in taken THEN f[At(i)] ELSE la[i]]
            quotes == {Available(ck, l) : l \in {m \in Lane :
                         /\ ~Busy(ph2, la2, m) /\ Available(ck, m) > 0
                         /\ \E i \in Elements(w) \ taken : m \in Healthy(i, halts)}}
        IN /\ waiting' \in Remaining(w, taken) /\ phase' = ph2 /\ lane' = la2
           /\ \/ quotes = {} /\ listTimer' = Off
              \/ listTimer' \in {q \in quotes : \A r \in quotes : q <= r}
  BY DEF Drain
<1> DEFINE At(i) == CHOOSE k \in 1 .. Len(w) : w[k] = i /\ f[k] # NoLane
           taken == {w[k] : k \in {j \in 1 .. Len(w) : f[j] # NoLane}}
           wanted(m) == /\ ~Busy(phase', lane', m) /\ Available(ck, m) > 0
                        /\ \E i \in Elements(w) \ taken : m \in Healthy(i, halts)
           quotes == {Available(ck, l) : l \in {m \in Lane : wanted(m)}}
<1>2. /\ waiting' \in Remaining(w, taken)
      /\ phase' = [i \in Item |-> IF i \in taken THEN "staged" ELSE ph[i]]
      /\ lane' = [i \in Item |-> IF i \in taken THEN f[At(i)] ELSE la[i]]
      /\ \/ quotes = {} /\ listTimer' = Off
         \/ listTimer' \in {q \in quotes : \A r \in quotes : q <= r}
  BY <1>1
<1>3. /\ f \in [1 .. Len(w) -> Lane \cup {NoLane}]
      /\ \A k \in 1 .. Len(w) :
           LET open == {l \in Healthy(w[k], halts) :
                          /\ Idle(ph, la, ck, l)
                          /\ \A j \in 1 .. (k - 1) : f[j] \notin SameClock(l)}
           IN IF open = {} THEN f[k] = NoLane ELSE f[k] \in open
  BY DEF Claims
<1>4. Len(w) \in Nat /\ Elements(w) \subseteq Item /\ \A k \in 1 .. Len(w) : w[k] \in Elements(w)
  BY LenProperties, ElementOfSeq DEF Listed, Elements
<1>5. taken \subseteq Elements(w)
  BY DEF Elements
(* An item taken at k has the lane found at k. *)
<1>6. ASSUME NEW k \in 1 .. Len(w), f[k] # NoLane
      PROVE  w[k] \in taken /\ At(w[k]) = k
  <2>1. w[k] \in taken
    BY <1>6
  <2>2. \A j \in 1 .. Len(w) : w[j] = w[k] => j = k
    BY DEF Listed, Distinct
  <2> QED BY <1>6, <2>1, <2>2
<1>7. ASSUME NEW i \in taken
      PROVE  \E k \in 1 .. Len(w) : i = w[k] /\ f[k] # NoLane /\ At(i) = k
  BY <1>6
<1>8. ASSUME NEW i \in Item \ taken PROVE phase'[i] = ph[i] /\ lane'[i] = la[i]
  BY <1>2
<1>9. ASSUME NEW k \in 1 .. Len(w), f[k] # NoLane
      PROVE  /\ phase'[w[k]] = "staged" /\ lane'[w[k]] = f[k] /\ f[k] \in Lane
             /\ Idle(ph, la, ck, f[k]) /\ \A j \in 1 .. (k - 1) : f[j] \notin SameClock(f[k])
  <2>1. w[k] \in Item /\ w[k] \in taken /\ At(w[k]) = k
    BY <1>4, <1>6, <1>9
  <2>2. phase'[w[k]] = "staged" /\ lane'[w[k]] = f[k]
    BY <1>2, <2>1
  <2>3. f[k] \in {l \in Healthy(w[k], halts) :
                    /\ Idle(ph, la, ck, l)
                    /\ \A j \in 1 .. (k - 1) : f[j] \notin SameClock(l)}
    BY <1>3, <1>9
  <2>4. f[k] \in Lane
    BY <1>3, <1>9
  <2> QED BY <2>2, <2>3, <2>4
<1> HIDE DEF At, taken
<1>10. Listed(waiting', phase')
  <2>1. /\ waiting' \in Seq(Item) /\ Distinct(waiting')
        /\ Elements(waiting') = Elements(w) \ taken
    BY <1>2, RemainingProperties DEF Listed
  <2>2. \A i \in Item : phase'[i] = "waiting" <=> ph[i] = "waiting" /\ i \notin taken
    BY <1>2
  <2> QED BY <2>1, <2>2 DEF Listed
<1>11. Exclusive(phase', lane')
  <2> SUFFICES ASSUME NEW i \in Item, NEW j \in Item, i # j,
                      phase'[i] \in Held, phase'[j] \in Held, lane'[i] \in SameClock(lane'[j])
               PROVE  FALSE
    BY DEF Exclusive
  <2>0. lane'[i] \in Lane /\ Provider[lane'[i]] = Provider[lane'[j]]
    BY DEF SameClock
  <2>1. CASE i \notin taken /\ j \notin taken
    BY <1>8, <2>1 DEF Exclusive
  <2>2. CASE i \in taken /\ j \notin taken
    <3>1. PICK k \in 1 .. Len(w) : i = w[k] /\ f[k] # NoLane
      BY <1>7, <2>2
    <3>2. lane'[i] = f[k] /\ ~Busy(ph, la, f[k])
      BY <1>9, <3>1 DEF Idle
    <3>3. ph[j] \in Held /\ la[j] = lane'[j] /\ la[j] \in Lane
      BY <1>8, <2>2 DEF Claimed
    <3> QED BY <2>0, <3>2, <3>3 DEF Busy, SameClock
  <2>3. CASE i \notin taken /\ j \in taken
    <3>1. PICK k \in 1 .. Len(w) : j = w[k] /\ f[k] # NoLane
      BY <1>7, <2>3
    <3>2. lane'[j] = f[k] /\ ~Busy(ph, la, f[k])
      BY <1>9, <3>1 DEF Idle
    <3>3. ph[i] \in Held /\ la[i] = lane'[i]
      BY <1>8, <2>3
    <3> QED BY <3>2, <3>3 DEF Busy
  <2>4. CASE i \in taken /\ j \in taken
    <3>1. PICK k \in 1 .. Len(w) : i = w[k] /\ f[k] # NoLane
      BY <1>7, <2>4
    <3>2. PICK n \in 1 .. Len(w) : j = w[n] /\ f[n] # NoLane
      BY <1>7, <2>4
    <3>3. lane'[i] = f[k] /\ lane'[j] = f[n] /\ f[k] \in Lane /\ f[n] \in Lane
      BY <1>9, <3>1, <3>2
    <3>4. CASE k < n
      <4>1. f[k] \notin SameClock(f[n])
        <5>1. k \in 1 .. (n - 1)
          BY <3>4
        <5> QED BY <1>9, <3>2, <5>1
      <4> QED BY <3>3, <4>1
    <3>5. CASE n < k
      <4>1. f[n] \notin SameClock(f[k])
        <5>1. n \in 1 .. (k - 1)
          BY <3>5
        <5> QED BY <1>9, <3>1, <5>1
      <4> QED BY <2>0, <3>3, <4>1 DEF SameClock
    <3>6. k # n
      BY <3>1, <3>2
    <3> QED BY <3>4, <3>5, <3>6
  <2> QED BY <2>1, <2>2, <2>3, <2>4
<1>12. \A m \in Lane : Available(ck, m) \in 0 .. MaxInterval
  BY AvailableBounds
<1>13. quotes \subseteq 1 .. MaxInterval /\ MaxInterval \in Nat
  BY <1>12, LaneAssumption
<1>14. listTimer' \in Off .. MaxInterval
  <2>1. CASE listTimer' = Off
    BY <1>13, <2>1 DEF Off
  <2>2. CASE listTimer' \in quotes
    <3>1. listTimer' \in 1 .. MaxInterval
      BY <1>13, <2>2
    <3> QED BY <1>13, <3>1 DEF Off
  <2> QED BY <1>2, <2>1, <2>2
<1>15. Served(waiting', phase', lane', ck, halts, listTimer')
  <2> SUFFICES ASSUME NEW e \in Elements(waiting'), NEW l \in Candidates[e] \ halts,
                      ~Watched(phase', lane', l)
               PROVE  listTimer' # Off /\ listTimer' <= Available(ck, l)
    BY DEF Served
  <2>1. e \in Elements(w) \ taken /\ e \in Item
    BY <1>2, <1>4, RemainingProperties DEF Listed
  <2>2. l \in Healthy(e, halts) /\ l \in Lane
    BY <2>1, ItemAssumption DEF Healthy
  <2>3. PICK k \in 1 .. Len(w) : w[k] = e
    BY <2>1 DEF Elements
  <2>4. f[k] = NoLane
    BY <1>6, <2>1, <2>3
  <2>5. ~(Idle(ph, la, ck, l) /\ \A j \in 1 .. (k - 1) : f[j] \notin SameClock(l))
    <3> DEFINE open == {m \in Healthy(e, halts) :
                          /\ Idle(ph, la, ck, m)
                          /\ \A j \in 1 .. (k - 1) : f[j] \notin SameClock(m)}
    <3>1. IF open = {} THEN f[k] = NoLane ELSE f[k] \in open
      BY <1>3, <2>3
    <3>2. NoLane \notin Healthy(e, halts)
      BY <2>1, ItemAssumption DEF Healthy
    <3> QED BY <2>2, <2>4, <3>1, <3>2
  <2>6. \A j \in 1 .. (k - 1) : f[j] \notin SameClock(l)
    <3> SUFFICES ASSUME NEW j \in 1 .. (k - 1), f[j] \in SameClock(l) PROVE FALSE
      OBVIOUS
    <3>1. j \in 1 .. Len(w) /\ f[j] # NoLane
      BY <1>4, ItemAssumption DEF SameClock
    <3>2. w[j] \in Item /\ phase'[w[j]] \in Held /\ lane'[w[j]] \in SameClock(l)
      BY <1>4, <1>9, <3>1 DEF Held
    <3> QED BY <3>2 DEF Watched
  <2>7. ~Busy(ph, la, l)
    <3> SUFFICES ASSUME NEW i \in Item, ph[i] \in Held, la[i] \in SameClock(l) PROVE FALSE
      BY DEF Busy
    <3>1. i \notin taken
      BY <1>5 DEF Listed, Held
    <3> QED BY <1>8, <3>1 DEF Watched
  <2>8. Available(ck, l) > 0
    BY <1>12, <2>2, <2>5, <2>6, <2>7 DEF Idle
  <2>9. ~Busy(phase', lane', l)
    BY DEF Busy, Watched
  <2>10. Available(ck, l) \in quotes
    BY <2>1, <2>2, <2>8, <2>9
  <2>11. listTimer' \in quotes /\ listTimer' <= Available(ck, l)
    BY <1>2, <2>10
  <2> QED BY <1>13, <2>11 DEF Off
<1> QED BY <1>10, <1>11, <1>14, <1>15

-----------------------------------------------------------------------------
(* Rearming leaves the quotes of the lanes as they are. *)
LEMMA ArmedAvailable ==
  ASSUME NEW ck, Covered(ck), NEW ph, NEW la, NEW lanes, NEW l \in Lane
  PROVE  Available(Armed(ph, la, ck, lanes), l) = Available(ck, l)
<1>1. ASSUME NEW k \in Lane PROVE Armed(ph, la, ck, lanes)[k].wait = ck[k].wait
  <2>1. ck[k] \in Clock
    BY DEF Covered
  <2> QED BY <2>1 DEF Armed, Clock
<1>2. Provider[l] \in Lane
  BY LaneAssumption
<1> QED BY <1>1, <1>2 DEF Available

(* What is listed stays served while its watchers stay and the quotes too. *)
LEMMA ServedKept ==
  ASSUME NEW w, NEW v, NEW ph, NEW pi, NEW la, NEW lb, NEW ck, NEW cl,
         NEW halts, NEW halts2, NEW timer,
         Served(w, ph, la, ck, halts, timer),
         Elements(v) \subseteq Elements(w), Elements(w) \subseteq Item, halts \subseteq halts2,
         \A i \in Item : ph[i] \in Held \cup {"bypassing"} =>
            pi[i] \in Held \cup {"bypassing"} /\ lb[i] = la[i],
         \A l \in Lane : Available(cl, l) = Available(ck, l)
  PROVE  Served(v, pi, lb, cl, halts2, timer)
<1> SUFFICES ASSUME NEW e \in Elements(v), NEW l \in Candidates[e] \ halts2
             PROVE  Watched(pi, lb, l) \/ (timer # Off /\ timer <= Available(cl, l))
  BY DEF Served
<1>1. e \in Item /\ e \in Elements(w) /\ l \in Candidates[e] \ halts /\ l \in Lane
  BY ItemAssumption
<1>2. Watched(ph, la, l) \/ (timer # Off /\ timer <= Available(ck, l))
  BY <1>1 DEF Served
<1>3. Watched(ph, la, l) => Watched(pi, lb, l)
  BY DEF Watched
<1> QED BY <1>1, <1>2, <1>3

(* pacer.schedule stages requests: claims and lists are not disturbed by it. *)
LEMMA StagedKeeps ==
  ASSUME NEW ph, NEW la, NEW ck, NEW lanes, NEW w
  PROVE  /\ Exclusive(ph, la) => Exclusive(Staged(ph, la, ck, lanes), la)
         /\ ph \in [Item -> Phases] /\ Listed(w, ph) => Listed(w, Staged(ph, la, ck, lanes))
<1> DEFINE pi == Staged(ph, la, ck, lanes)
<1>1. \A i \in Item : pi[i] = ph[i] \/ (ph[i] = "laned" /\ pi[i] = "staged")
  BY DEF Staged
<1> HIDE DEF pi
<1>2. \A i \in Item :
        (pi[i] \in Held => ph[i] \in Held) /\ (pi[i] = "waiting" <=> ph[i] = "waiting")
  BY <1>1 DEF Held
<1>3. Exclusive(ph, la) => Exclusive(pi, la)
  BY <1>2 DEF Exclusive
<1>4. Listed(w, ph) => Listed(w, pi)
  BY <1>2 DEF Listed
<1> QED BY <1>3, <1>4 DEF pi

LEMMA ListInit == Init => ListInv
<1> SUFFICES ASSUME Init PROVE ListInv
  OBVIOUS
<1>1. Sorts
  <2>1. disturbances \in 0 .. MaxDisturbances
    BY ItemAssumption DEF Init
  <2>2. responsive \in [Item -> BOOLEAN]
    BY DEF Init
  <2> QED BY <2>1, <2>2 DEF Init, Sorts
<1>2. waiting = <<>> /\ Elements(waiting) = {}
  BY DEF Init, Elements
<1>3. Listed(waiting, phase)
  BY <1>2 DEF Init, Listed, Distinct
<1>4. Exclusive(phase, lane)
  BY DEF Init, Exclusive, Held
<1>5. listTimer \in Off .. MaxInterval
  BY LaneAssumption DEF Init, Off
<1>6. Served(waiting, phase, lane, clock, halted, listTimer)
  BY <1>2 DEF Served
<1> QED BY <1>1, <1>3, <1>4, <1>5, <1>6, InitOK DEF ListInv

(* A request enters the list, leaves it, or changes places in it. *)
LEMMA RequestServed ==
  ASSUME ListInv, NEW i \in Item, Request(i)
  PROVE  ListInv'
<1> USE DEF ListInv
<1>0. IndInv'
  BY RequestOK
<1>a. /\ Covered(clock) /\ Claimed(phase, lane) /\ phase \in [Item -> Phases]
      /\ lane \in [Item -> Lane \cup {NoLane}] /\ responsive \in [Item -> BOOLEAN]
  BY DEF IndInv, Claimed, Sorts
<1>b. waiting \in Seq(Item) /\ Distinct(waiting)
      /\ Elements(waiting) = {k \in Item : phase[k] = "waiting"}
  BY DEF Listed
<1>c. /\ Without(waiting, i) \in Seq(Item) /\ Distinct(Without(waiting, i))
      /\ Elements(Without(waiting, i)) = Elements(waiting) \ {i}
      /\ Len(Without(waiting, i)) >= Len(waiting) - 1
  BY <1>b, WithoutProperties
<1>d. clock' = clock /\ halted' = halted
  BY DEF Request, EnqueueNormal, EnqueueResponsive, PromoteWaiting, PromoteClaimed,
         PromoteRefused, CancelWaiting, CancelClaimed, Reorder
<1>1. CASE EnqueueNormal(i)
  <2> DEFINE ph == [phase EXCEPT ![i] = "waiting"]
             w == Append(waiting, i)
  <2>1. Claimed(ph, lane) /\ Exclusive(ph, lane)
    BY <1>a DEF Claimed, Phases, Held, Exclusive
  <2>2. Listed(w, ph)
    <3>1. phase[i] = "fresh"
      BY <1>1 DEF EnqueueNormal
    <3>2. w \in Seq(Item) /\ Distinct(w) /\ Elements(w) = Elements(waiting) \cup {i}
      BY <1>b, <3>1, PushProperties
    <3>3. \A k \in Item : ph[k] = "waiting" <=> k = i \/ phase[k] = "waiting"
      BY <1>a
    <3> QED BY <1>b, <3>2, <3>3 DEF Listed
  <2>3. Drain(w, ph, lane, clock, halted)
    BY <1>1 DEF EnqueueNormal
  <2> HIDE DEF ph, w
  <2>4. Sorts'
    BY <1>1 DEF EnqueueNormal, Sorts
  <2> QED BY <1>0, <1>a, <1>d, <2>1, <2>2, <2>3, <2>4, DrainPass
<1>2. CASE CancelWaiting(i)
  <2> DEFINE ph == [phase EXCEPT ![i] = "done"]
             w == Without(waiting, i)
  <2>1. Claimed(ph, lane) /\ Exclusive(ph, lane)
    BY <1>a DEF Claimed, Phases, Held, Exclusive
  <2>2. Listed(w, ph)
    <3>1. \A k \in Item : ph[k] = "waiting" <=> k # i /\ phase[k] = "waiting"
      BY <1>a
    <3> QED BY <1>b, <1>c, <3>1 DEF Listed
  <2>3. Drain(w, ph, lane, clock, halted)
    BY <1>2 DEF CancelWaiting
  <2> HIDE DEF ph, w
  <2>4. Sorts'
    BY <1>2 DEF CancelWaiting, Sorts
  <2> QED BY <1>0, <1>a, <1>d, <2>1, <2>2, <2>3, <2>4, DrainPass
<1>3. CASE EnqueueResponsive(i) \/ PromoteWaiting(i)
  <2>1. /\ ClaimResponsive(i) /\ phase[i] \in {"fresh", "waiting"}
        /\ UNCHANGED <<holders, rejected, clock, halted, listTimer, refreshDue, disturbances>>
    BY <1>3 DEF EnqueueResponsive, PromoteWaiting
  <2>2. PICK p \in {"bypassing", "done"} : phase' = [phase EXCEPT ![i] = p]
    BY <2>1 DEF ClaimResponsive
  <2>3. waiting' = Without(waiting, i) /\ \A k \in Item \ {i} : lane'[k] = lane[k]
    BY <1>a, <2>1 DEF ClaimResponsive
  <2>4. Sorts'
    BY <1>a, <2>1 DEF ClaimResponsive, Sorts
  <2>5. Listed(waiting', phase')
    <3>1. \A k \in Item : phase'[k] = "waiting" <=> k # i /\ phase[k] = "waiting"
      BY <1>a, <2>2
    <3> QED BY <1>b, <1>c, <2>3, <3>1 DEF Listed
  <2>6. Exclusive(phase', lane')
    <3>1. \A k \in Item : phase'[k] \in Held => k # i /\ phase[k] \in Held
      BY <1>a, <2>2 DEF Held
    <3> QED BY <2>3, <3>1 DEF Exclusive
  <2>7. \A k \in Item : phase[k] \in Held \cup {"bypassing"} =>
           phase'[k] \in Held \cup {"bypassing"} /\ lane'[k] = lane[k]
    BY <1>a, <2>1, <2>2, <2>3 DEF Held
  <2>8. refreshDue' \/ Served(waiting', phase', lane', clock', halted', listTimer')
    BY <1>b, <1>c, <1>d, <2>1, <2>3, <2>7, ServedKept
  <2> QED BY <1>0, <2>1, <2>4, <2>5, <2>6, <2>8
<1>4. CASE PromoteClaimed(i)
  <2>1. Sorts' /\ UNCHANGED <<waiting, lane, clock, halted, listTimer, refreshDue>>
    BY <1>4 DEF PromoteClaimed, Sorts
  <2>2. /\ \A k \in Item : phase'[k] \in Held => phase[k] \in Held
        /\ \A k \in Item : phase'[k] = "waiting" <=> phase[k] = "waiting"
        /\ \A k \in Item : phase[k] \in Held \cup {"bypassing"} =>
               phase'[k] \in Held \cup {"bypassing"}
    BY <1>4, <1>a DEF PromoteClaimed, Held
  <2>3. Listed(waiting', phase') /\ Exclusive(phase', lane')
    BY <2>1, <2>2 DEF Listed, Exclusive
  <2>4. refreshDue' \/ Served(waiting', phase', lane', clock', halted', listTimer')
    BY <1>b, <2>1, <2>2, ServedKept
  <2> QED BY <1>0, <2>1, <2>3, <2>4
<1>5. CASE PromoteRefused(i) \/ CancelClaimed(i)
  <2>1. /\ Sorts' /\ UNCHANGED <<waiting, clock, halted, listTimer>> /\ refreshDue' = TRUE
    BY <1>5 DEF PromoteRefused, CancelClaimed, Sorts, LetGo
  <2>2. \A k \in Item :
           /\ phase'[k] \in Held => phase[k] \in Held /\ lane'[k] = lane[k]
           /\ phase'[k] = "waiting" <=> phase[k] = "waiting"
    BY <1>5, <1>a DEF PromoteRefused, CancelClaimed, LetGo, Held
  <2>3. Listed(waiting', phase') /\ Exclusive(phase', lane')
    BY <2>1, <2>2 DEF Listed, Exclusive
  <2> QED BY <1>0, <2>1, <2>3
<1>6. CASE \E to \in 1 .. Cardinality(Item) : Reorder(i, to)
  <2>1. PICK to \in 1 .. Cardinality(Item) : Reorder(i, to)
    BY <1>6
  <2> DEFINE rest == Without(waiting, i)
  <2>2. /\ waiting' = SubSeq(rest, 1, to - 1) \o <<i>> \o SubSeq(rest, to, Len(rest))
        /\ to \in 1 .. Len(waiting) /\ phase[i] = "waiting"
        /\ UNCHANGED <<phase, lane, listTimer, refreshDue>>
    BY <2>1 DEF Reorder
  <2>3. Sorts'
    <3>1. /\ disturbances < MaxDisturbances /\ disturbances' = disturbances + 1
          /\ UNCHANGED <<responsive, holders, rejected, halted, refreshDue>>
      BY <2>1 DEF Reorder, Disturb
    <3> QED BY <3>1, ItemAssumption DEF Sorts
  <2>4. rest \in Seq(Item) /\ Distinct(rest) /\ Elements(rest) = Elements(waiting) \ {i}
        /\ Len(rest) >= Len(waiting) - 1
    BY <1>c
  <2> HIDE DEF rest
  <2>5. to \in 1 .. Len(rest) + 1
    BY <1>b, <2>2, <2>4, LenProperties
  <2>6. waiting' \in Seq(Item) /\ Distinct(waiting') /\ Elements(waiting') = Elements(rest) \cup {i}
    BY <2>2, <2>4, <2>5, InsertProperties
  <2>7. Elements(waiting') = Elements(waiting)
    BY <1>b, <2>2, <2>4, <2>6
  <2>8. Listed(waiting', phase') /\ Exclusive(phase', lane')
    BY <2>2, <2>6, <2>7 DEF Listed
  <2>9. refreshDue' \/ Served(waiting', phase', lane', clock', halted', listTimer')
    BY <1>b, <1>d, <2>2, <2>7, ServedKept
  <2> QED BY <1>0, <2>2, <2>3, <2>8, <2>9
<1> QED BY <1>1, <1>2, <1>3, <1>4, <1>5, <1>6 DEF Request

(* Its way through the limiter and back touches neither list nor timer. *)
LEMMA ServeServed ==
  ASSUME ListInv, NEW i \in Item, Serve(i)
  PROVE  ListInv'
<1> USE DEF ListInv
<1>0. IndInv'
  BY ServeOK
<1>a. /\ Covered(clock) /\ phase \in [Item -> Phases]
      /\ lane \in [Item -> Lane \cup {NoLane}] /\ responsive \in [Item -> BOOLEAN]
  BY DEF IndInv, Claimed, Sorts
<1>b. Elements(waiting) \subseteq Item
  BY DEF Listed
<1>c. UNCHANGED <<waiting, halted, listTimer, disturbances>>
  BY DEF Serve, Grant, RejectStale, TooEarly, StartNormal, StartResponsive, Start, Finish
(* A step that starts no claim keeps what the claims and the list keep. *)
<1>d. ASSUME \A k \in Item : /\ phase'[k] \in Held => phase[k] \in Held /\ lane'[k] = lane[k]
                             /\ phase'[k] = "waiting" <=> phase[k] = "waiting"
      PROVE  Listed(waiting', phase') /\ Exclusive(phase', lane')
  <2>1. Listed(waiting', phase')
    BY <1>c, <1>d DEF Listed
  <2>2. Exclusive(phase', lane')
    BY <1>d DEF Exclusive
  <2> QED BY <2>1, <2>2
<1>1. CASE Grant(i) \/ TooEarly(i)
  <2>1. /\ lane' = lane /\ refreshDue' = refreshDue
        /\ \A k \in Item : phase[k] \in Held <=> phase'[k] \in Held
        /\ \A k \in Item : phase[k] = phase'[k] \/ (k = i /\ phase[k] \in Held)
    BY <1>1, <1>a DEF Grant, TooEarly, Held
  <2>2. Sorts'
    BY <1>1, <1>c DEF Grant, TooEarly, Sorts
  <2>3. Listed(waiting', phase') /\ Exclusive(phase', lane')
    BY <1>d, <2>1 DEF Held
  <2>4. \A l \in Lane : Available(clock', l) = Available(clock, l)
    <3>1. CASE Grant(i)
      BY <3>1 DEF Grant
    <3>2. CASE TooEarly(i)
      BY <1>a, <3>2, ArmedAvailable DEF TooEarly
    <3> QED BY <1>1, <3>1, <3>2
  <2>5. \A k \in Item :
          phase[k] \in Held \cup {"bypassing"} => phase'[k] \in Held \cup {"bypassing"}
    BY <2>1
  <2>6. refreshDue' \/ Served(waiting', phase', lane', clock', halted', listTimer')
    BY <1>b, <1>c, <2>1, <2>4, <2>5, ServedKept
  <2> QED BY <1>0, <1>c, <2>2, <2>3, <2>6
<1>2. CASE RejectStale(i)
  <2>1. Sorts' /\ refreshDue' = TRUE
    BY <1>2, <1>a, <1>c DEF RejectStale, LetGo, Sorts
  <2>2. \A k \in Item : /\ phase'[k] \in Held => phase[k] \in Held /\ lane'[k] = lane[k]
                        /\ phase'[k] = "waiting" <=> phase[k] = "waiting"
    BY <1>2, <1>a DEF RejectStale, LetGo, Held
  <2> QED BY <1>0, <1>c, <1>d, <2>1, <2>2
<1>3. CASE StartNormal(i) \/ StartResponsive(i)
  <2>1. Start(i) /\ phase[i] \in {"popped", "bypassing"}
    BY <1>3 DEF StartNormal, StartResponsive
  <2>2. Sorts' /\ refreshDue' = TRUE
    BY <2>1, <1>a, <1>c DEF Start, LetGo, Sorts
  <2> DEFINE ph == [phase EXCEPT ![i] = "running"]
             pi == Staged(ph, lane, Started(clock, lane[i]), ScheduledByStart(lane[i]))
  <2>3. phase' = pi /\ lane' = [lane EXCEPT ![i] = NoLane]
    BY <2>1 DEF Start, LetGo
  <2>4. \A k \in Item : pi[k] = ph[k] \/ (ph[k] = "laned" /\ pi[k] = "staged")
    BY DEF Staged
  <2> HIDE DEF pi
  <2>5. \A k \in Item : /\ phase'[k] \in Held => phase[k] \in Held /\ lane'[k] = lane[k]
                        /\ phase'[k] = "waiting" <=> phase[k] = "waiting"
    BY <1>a, <2>1, <2>3, <2>4 DEF Held
  <2> QED BY <1>0, <1>c, <1>d, <2>2, <2>5
<1>4. CASE Finish(i)
  <2>1. Sorts' /\ UNCHANGED <<lane, clock, refreshDue>>
    BY <1>4, <1>c DEF Finish, Sorts
  <2>2. \A k \in Item : /\ phase'[k] \in Held <=> phase[k] \in Held
                        /\ phase'[k] = "waiting" <=> phase[k] = "waiting"
                        /\ phase[k] = "bypassing" => phase'[k] = "bypassing"
    BY <1>4, <1>a DEF Finish, Held
  <2>3. Listed(waiting', phase') /\ Exclusive(phase', lane')
    BY <1>d, <2>1, <2>2
  <2>4. refreshDue' \/ Served(waiting', phase', lane', clock', halted', listTimer')
    BY <1>b, <1>c, <2>1, <2>2, ServedKept
  <2> QED BY <1>0, <1>c, <2>1, <2>3, <2>4
<1> QED BY <1>1, <1>2, <1>3, <1>4 DEF Serve

(* Time brings the timer and the quote nearer together. *)
LEMMA ElapsedServed ==
  ASSUME NEW w, NEW ph, NEW la, NEW ck, NEW halts, NEW timer \in Off .. MaxInterval,
         Covered(ck), Elements(w) \subseteq Item, Served(w, ph, la, ck, halts, timer),
         NEW t, t = IF timer = Off THEN Off ELSE Minus(timer, 1)
  PROVE  Served(w, ph, la, Elapsed(ck), halts, t) /\ t \in Off .. MaxInterval
<1>1. MaxInterval \in Nat
  BY LaneAssumption
<1>2. t \in Off .. MaxInterval
  BY <1>1 DEF Off, Minus, Later
<1>3. ASSUME NEW l \in Lane
      PROVE  Available(Elapsed(ck), l) = Minus(Available(ck, l), 1)
  <2>1. ASSUME NEW k \in Lane
        PROVE  ck[k].wait \in 0 .. MaxInterval /\ Elapsed(ck)[k].wait = Minus(ck[k].wait, 1)
    <3>1. ck[k] \in Clock
      BY DEF Covered
    <3> QED BY <3>1 DEF Elapsed, Clock
  <2>2. Provider[l] \in Lane
    BY LaneAssumption
  <2> QED BY <1>1, <2>1, <2>2 DEF Available, Minus, Later
<1>4. ASSUME NEW e \in Elements(w), NEW l \in Candidates[e] \ halts, timer # Off,
             timer <= Available(ck, l)
      PROVE  t # Off /\ t <= Available(Elapsed(ck), l)
  <2>1. l \in Lane
    BY ItemAssumption
  <2>2. Available(ck, l) \in 0 .. MaxInterval
    BY <2>1, AvailableBounds
  <2> QED BY <1>1, <1>3, <1>4, <2>1, <2>2 DEF Off, Minus, Later
<1> QED BY <1>2, <1>4 DEF Served

(* Every step keeps it. *)
LEMMA ListStep == ListInv /\ [Next]_vars => ListInv'
<1> SUFFICES ASSUME ListInv, [Next]_vars PROVE ListInv'
  OBVIOUS
<1> USE DEF ListInv
<1>0. IndInv'
  BY StepOK
<1>a. /\ Covered(clock) /\ Claimed(phase, lane) /\ phase \in [Item -> Phases]
      /\ Listed(waiting, phase) /\ Exclusive(phase, lane) /\ Elements(waiting) \subseteq Item
  BY DEF IndInv, Claimed, Listed
<1>1. CASE \E i \in Item : Request(i)
  BY <1>1, RequestServed
<1>2. CASE \E i \in Item : Serve(i)
  BY <1>2, ServeServed
<1>3. CASE Refresh \/ ListTimerFires
  <2>1. Drain(waiting, phase, lane, clock, halted) /\ clock' = clock /\ halted' = halted /\ Sorts'
    BY <1>3 DEF Refresh, ListTimerFires, Sorts
  <2> QED BY <1>0, <1>a, <2>1, DrainPass
<1>4. CASE \E l \in Lane : LaneTimerFires(l)
  <2>1. PICK l \in Lane : LaneTimerFires(l)
    BY <1>4
  <2>2. /\ UNCHANGED <<waiting, lane, clock, halted, listTimer, refreshDue>> /\ Sorts'
        /\ \A k \in Item : phase'[k] = phase[k] \/ (phase[k] = "laned" /\ phase'[k] = "staged")
    BY <2>1 DEF LaneTimerFires, PutBack, Sorts
  <2>3. \A k \in Item : /\ phase'[k] \in Held <=> phase[k] \in Held
                        /\ phase'[k] = "waiting" <=> phase[k] = "waiting"
                        /\ phase[k] = "bypassing" => phase'[k] = "bypassing"
    BY <2>2 DEF Held
  <2>4. Listed(waiting', phase')
    BY <2>2, <2>3 DEF Listed
  <2>5. Exclusive(phase', lane')
    BY <2>2, <2>3 DEF Exclusive
  <2>6. refreshDue' \/ Served(waiting', phase', lane', clock', halted', listTimer')
    BY <1>a, <2>2, <2>3, ServedKept
  <2> QED BY <1>0, <2>2, <2>4, <2>5, <2>6
<1>5. CASE \E l \in Lane, interval, deadline \in 0 .. MaxInterval :
             Publish(l, interval, deadline)
  <2>1. PICK l \in Lane, interval \in 0 .. MaxInterval, deadline \in 0 .. MaxInterval :
               Publish(l, interval, deadline)
    BY <1>5
  <2> DEFINE ck == DeferUntil(SetInterval(clock, l, interval), l, deadline)
             ph == Staged(phase, lane, SetInterval(clock, l, interval), ScheduledByChange(l))
  <2>2. /\ clock' = Armed(ph, lane, ck, ScheduledByChange(l))
        /\ Drain(waiting, ph, lane, ck, halted)
        /\ disturbances < MaxDisturbances /\ disturbances' = disturbances + 1
        /\ UNCHANGED <<responsive, holders, rejected, halted, refreshDue>>
    BY <2>1 DEF Publish, Disturb
  <2>3. /\ Covered(ck) /\ Claimed(ph, lane) /\ Listed(waiting, ph) /\ Exclusive(ph, lane)
    BY <1>a, PublishedCovered, StagedClaims, StagedKeeps
  <2> HIDE DEF ck, ph
  <2>4. Sorts'
    BY <2>2, ItemAssumption DEF Sorts
  <2>5. /\ Listed(waiting', phase') /\ Exclusive(phase', lane')
        /\ listTimer' \in Off .. MaxInterval
        /\ Served(waiting', phase', lane', ck, halted, listTimer')
    BY <2>2, <2>3, DrainPass
  <2>6. Served(waiting', phase', lane', clock', halted', listTimer')
    <3>1. \A k \in Lane : Available(clock', k) = Available(ck, k)
      BY <2>2, <2>3, ArmedAvailable
    <3>2. Elements(waiting') \subseteq Item
      BY <2>5 DEF Listed
    <3> QED BY <2>2, <2>5, <3>1, <3>2, ServedKept
  <2> QED BY <1>0, <2>4, <2>5, <2>6
<1>6. CASE \E l \in Lane : Halt(l)
  <2>1. PICK l \in Lane : Halt(l)
    BY <1>6
  <2>2. /\ UNCHANGED <<waiting, phase, lane, responsive, holders, rejected, clock, listTimer,
                       refreshDue>>
        /\ halted' = halted \cup {l}
        /\ disturbances < MaxDisturbances /\ disturbances' = disturbances + 1
    BY <2>1 DEF Halt, Disturb
  <2>3. Sorts'
    BY <2>2, ItemAssumption DEF Sorts
  <2>4. refreshDue' \/ Served(waiting', phase', lane', clock', halted', listTimer')
    BY <1>a, <2>2, ServedKept
  <2> QED BY <1>0, <1>a, <2>2, <2>3, <2>4
<1>7. CASE \E l \in Lane : Resume(l)
  <2>1. PICK l \in Lane : Resume(l)
    BY <1>7
  <2>2. /\ Drain(waiting, phase, lane, clock, halted') /\ clock' = clock
        /\ halted' = halted \ {l} /\ Sorts'
    BY <2>1 DEF Resume, Sorts
  <2> DEFINE halts == halted \ {l}
  <2>3. Drain(waiting, phase, lane, clock, halts)
    BY <2>1 DEF Resume
  <2>4. halted' = halts
    BY <2>2
  <2> HIDE DEF halts
  <2> QED BY <1>0, <1>a, <2>2, <2>3, <2>4, DrainPass
<1>8. CASE Tick
  <2>1. /\ UNCHANGED <<waiting, phase, lane, halted, refreshDue>> /\ Sorts'
        /\ clock' = Elapsed(clock)
        /\ listTimer' = IF listTimer = Off THEN Off ELSE Minus(listTimer, 1)
    BY <1>8 DEF Tick, Sorts
  <2>2. listTimer' \in Off .. MaxInterval
    BY <2>1, LaneAssumption DEF Off, Minus, Later
  <2>3. refreshDue' \/ Served(waiting', phase', lane', clock', halted', listTimer')
    BY <1>a, <2>1, ElapsedServed
  <2> QED BY <1>0, <1>a, <2>1, <2>2, <2>3
<1>9. CASE UNCHANGED vars
  BY <1>0, <1>9 DEF vars, Sorts
<1> QED BY <1>1, <1>2, <1>3, <1>4, <1>5, <1>6, <1>7, <1>8, <1>9 DEF Next, Environment

THEOREM ListInductive == Spec => []ListInv
<1> QED BY ListInit, ListStep, PTL DEF Spec

(* Every variable keeps its type. *)
THEOREM TypesKept == Spec => []TypeOK
<1>1. ListInv => TypeOK
  BY DEF ListInv, IndInv, Sorts, Listed, Covered, Claimed, TypeOK
<1> QED BY <1>1, ListInductive, PTL

(* At no time do two claimed items share a provider clock. *)
THEOREM ClaimsAreExclusive == Spec => []OneClaimPerClock
<1>1. ListInv => OneClaimPerClock
  BY DEF ListInv, Exclusive, OneClaimPerClock
<1> QED BY <1>1, ListInductive, PTL

(* No item is forgotten in the list: for each of its live lanes something is  *)
(* on its way that ends in another pass.                                      *)
THEOREM NothingForgotten == Spec => []ListServed
<1>1. ListInv => ListServed
  <2> SUFFICES ASSUME ListInv, ~refreshDue, NEW k \in 1 .. Len(waiting),
                      NEW l \in Candidates[waiting[k]] \ halted
               PROVE  \/ Watched(phase, lane, l)
                      \/ listTimer # Off /\ listTimer <= Available(clock, l)
    BY DEF ListServed, Watched
  <2>1. waiting[k] \in Elements(waiting)
    BY DEF Elements
  <2> QED BY <2>1 DEF ListInv, Served
<1> QED BY <1>1, ListInductive, PTL
=============================================================================
