------------------------- MODULE MCEngineLifecycle -------------------------
(* Instances of EngineLifecycle for TLC. *)
EXTENDS EngineLifecycle, TLC

CONSTANTS one, two,             \* engines
          arm, leg,             \* robots
          armPd, armMpc, legPd  \* controllers

TheController == armPd :> arm @@ armMpc :> arm @@ legPd :> leg

OneEngine == one :> <<arm, leg>>
OneFirst == one :> <<armPd, legPd>>

\* The robots are locked in opposite orders.
CrossedEngines == one :> <<arm, leg>> @@ two :> <<leg, arm>>
CrossedFirst == one :> <<armPd, legPd>> @@ two :> <<legPd, armMpc>>
=============================================================================
