--------------------------- MODULE FollowerProtocol ---------------------------
(***************************************************************************)
(* What a follower and its leader say to each other about events           *)
(* (remote-instances/protocol.ts).  An event, a process, a session and a   *)
(* leader are numbers, 0 is none; numbers are never used again.            *)
(***************************************************************************)
EXTENDS Naturals, Sequences, FiniteSets

CONSTANTS
  MaxEvents,    \* events are numbered in the order they are emitted
  Fragments     \* how many fragments a large event is sent in

ASSUME ProtocolAssumption == MaxEvents \in Nat /\ Fragments \in Nat \ {0}

Event == 1 .. MaxEvents

\* The numbers of a finite set in ascending order.
Ascending(S) ==
  [j \in 1 .. Cardinality(S) |-> CHOOSE n \in S : Cardinality({m \in S : m <= n}) = j]

\* The members of S among s, in the order of s.
Picked(s, S) ==
  LET at == {i \in 1 .. Len(s) : s[i] \in S}
  IN [j \in 1 .. Cardinality(at) |-> s[Ascending(at)[j]]]

\* The bodies of /events and /events/transfer; a transfer is of one event, and
\* its fragments are numbered from 0.
EventRequests ==
  [path : {"events", "transfer"}, session : Nat, events : Seq(Event), index : 0 .. Fragments - 1]

Registration(g) == [path |-> "register", generation |-> g]

Status(s) == [status |-> s]
AcceptanceFailed(e) == [status |-> "acceptance_failed", event |-> e]
Received(n) == [status |-> "fragment", received |-> n]

\* "gone" is a 410, "error" is no answer.
Replies ==
  [status : {"ok", "complete", "restart", "busy", "gone", "error"}]
    \cup {AcceptanceFailed(e) : e \in Event} \cup {Received(n) : n \in 1 .. Fragments}
=============================================================================
