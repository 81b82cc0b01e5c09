----------------------------- MODULE EventChannel -----------------------------
(***************************************************************************)
(* What a follower's event queue and the leader's hub promise together: a  *)
(* FIFO channel.  Events, numbered as they are emitted, are accepted in    *)
(* order, at most once, without gaps, by one incarnation of the leader.    *)
(* An event whose acceptance failed blocks those behind it.  A new leader  *)
(* starts with an empty log and is told nothing that was emitted for the   *)
(* old one; a follower process that dies takes what it had not sent along. *)
(***************************************************************************)
EXTENDS Naturals, Sequences

CONSTANT MaxEvents

VARIABLES
  emitted,   \* how many events there have been
  pending,   \* emitted for the present leader and not accepted
  log,       \* what the present leader accepted
  failed,    \* what it failed to accept
  severed,   \* the follower does not know yet that its leader was replaced
  gone       \* no follower process is known to the leader as the present one

vars == <<emitted, pending, log, failed, severed, gone>>

Event == 1 .. MaxEvents

First(s, k)  == SubSeq(s, 1, k)
Rest(s, k)   == SubSeq(s, k + 1, Len(s))

Init ==
  /\ emitted = 0 /\ pending = <<>> /\ log = <<>> /\ failed = {}
  /\ severed = FALSE /\ gone = TRUE

Emit ==
  /\ ~gone /\ emitted < MaxEvents
  /\ emitted' = emitted + 1
  /\ pending' = IF severed THEN pending ELSE Append(pending, emitted + 1)
  /\ UNCHANGED <<log, failed, severed, gone>>

\* What may remain of s: all of it, or less when nobody is there to repeat it.
Remains(s) == IF gone THEN {First(s, k) : k \in 0 .. Len(s)} ELSE {s}

\* A prefix is accepted, and the event behind it may fail.
Accept ==
  \E k \in 0 .. Len(pending) :
    /\ \A i \in 1 .. k : pending[i] \notin failed
    /\ log' = log \o First(pending, k)
    /\ pending' \in Remains(Rest(pending, k))
    /\ \/ k > 0 /\ failed' = failed
       \/ k < Len(pending) /\ failed' = failed \cup {pending[k + 1]}
    /\ UNCHANGED <<emitted, severed, gone>>

\* A new leader incarnation.
Replace ==
  /\ log' = <<>> /\ failed' = {} /\ pending' = <<>>
  /\ severed' \in (IF gone THEN {FALSE} ELSE BOOLEAN)
  /\ UNCHANGED <<emitted, gone>>

Resume ==
  /\ severed /\ severed' = FALSE
  /\ UNCHANGED <<emitted, pending, log, failed, gone>>

\* The follower process ends; what is on the wire may still arrive.
Lose ==
  /\ gone' = TRUE /\ severed' = FALSE
  /\ \E k \in 0 .. Len(pending) : pending' = First(pending, k)
  /\ UNCHANGED <<emitted, log, failed>>

\* Its successor registers.
Return ==
  /\ gone /\ gone' = FALSE /\ pending = <<>> /\ severed' \in BOOLEAN
  /\ UNCHANGED <<emitted, pending, log, failed>>

Next == Emit \/ Accept \/ Replace \/ Resume \/ Lose \/ Return

Spec == Init /\ [][Next]_vars

Increasing(s) == \A i, j \in 1 .. Len(s) : i < j => s[i] < s[j]

\* Events are accepted in the order they were emitted, each at most once, and those
\* that wait come after those accepted.
InOrder == Increasing(log \o pending)
=============================================================================
