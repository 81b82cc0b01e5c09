------------------------------ MODULE MCActorRun ------------------------------
(* Three inbox rows, of which two interrupt a running turn, or two rows of *)
(* which one is spoken.                                                    *)
EXTENDS ActorRun, TLC

CONSTANTS e1, e2, e3

OrdinaryAndInterrupts == (e1 :> "ordinary") @@ (e2 :> "interrupt") @@ (e3 :> "interrupt")
OrdinaryAndInterrupt  == (e1 :> "ordinary") @@ (e2 :> "interrupt")
OrdinaryAndVoice      == (e1 :> "ordinary") @@ (e2 :> "voice")

Alike == Permutations({e2, e3})

(* Two ways for an actor at rest to have begun, which share the bounds: a   *)
(* disturbance is behind it and three rows to come, or an interrupting row  *)
(* has been run and handled and as many disturbances as allowed are to come.*)
Begun ==
  /\ \/ delivered = {} /\ disturbances = 1
     \/ delivered \in {{e2}, {e3}} /\ disturbances = 0
  /\ seen = delivered /\ offered = delivered /\ sinceMark = delivered
  /\ actor = NewActor /\ unhandled = {} /\ owed = "none" /\ sinceStart = {}
  /\ halted = FALSE /\ shutdown = "none" /\ voiceSession = FALSE
  /\ terminals = 1 /\ lapses = {}

BegunSpec == Begun /\ [][Next]_vars
=============================================================================
