---------------------------- MODULE MCCodexAuthBroker ----------------------------
(* Two processes of one host, each with one Codex process: what the run is    *)
(* about is between the processes.  (The chain of a process then holds one    *)
(* request; a second one multiplies the states beyond what a run can take.)   *)
EXTENDS CodexAuthBroker

CONSTANTS b1, b2, c1, c2

Brokers   == {b1, b2}
Consumers == {c1, c2}
Homes     == [c \in Consumers |-> IF c = c1 THEN b1 ELSE b2]

================================================================================
