------------------------------ MODULE WaitingQueue ------------------------------
(***************************************************************************)
(* The arrays in which runs wait: the capacity gate's queue, the list of   *)
(* unclaimed admissions and the two queues of the computer-use lock.  All  *)
(* are used the same way: push at the back, shift from the front, and      *)
(* splice one entry out of the middle.                                     *)
(***************************************************************************)
EXTENDS Integers, Sequences

Elements(q) == {q[i] : i \in 1 .. Len(q)}

Distinct(q) == \A i, j \in 1 .. Len(q) : q[i] = q[j] => i = j

(* q.indexOf(e) and, if it found the entry, q.splice(index, 1). *)
Without(q, e) ==
  IF \E i \in 1 .. Len(q) : q[i] = e
  THEN LET k == CHOOSE i \in 1 .. Len(q) : q[i] = e
       IN [i \in 1 .. Len(q) - 1 |-> IF i < k THEN q[i] ELSE q[i + 1]]
  ELSE q

(* The queue once the entries of S are spliced out: the others, in their order. *)
Remaining(q, S) ==
  {r \in UNION {[1 .. n -> Elements(q) \ S] : n \in 0 .. Len(q)} :
     /\ Elements(r) = Elements(q) \ S
     /\ \A i, j \in 1 .. Len(r) :
          i < j => \E k, l \in 1 .. Len(q) : k < l /\ q[k] = r[i] /\ q[l] = r[j]}
=============================================================================
