--------------------------- MODULE MCPolicyTraining ---------------------------
(* Instances of PolicyTraining for TLC.                                        *)
EXTENDS PolicyTraining

\* Two levels of tasks, one node with two below it.
OneByTwo == <<1, 2>>
ThreeFields == <<2, 1, 3>>
TheirOrder == <<1, 2, 3>>

\* Without and with remote evaluation workers.
LocalOrTwo == {{}, {1, 2}}
DefaultOnly == {Default}

=============================================================================
