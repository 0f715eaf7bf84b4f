--------------------------- MODULE MCEngineStepper ---------------------------
(* Instances of EngineStepper for TLC: schedules of impulse forces and of      *)
(* periodic updates.  STEPPER_MIN_TIMESTEP is between 1 and 2 ticks,           *)
(* SIMULATION_MIN_TIMESTEP is 4 ticks.                                         *)
EXTENDS EngineStepper, TLC

CONSTANTS arm, leg,         \* systems
          push, pull,       \* impulse forces
          wind              \* a force profile

OneProfile == wind :> 16
NoProfile == [f \in {} |-> 0]

\* Off the grid of the periods, overlapping, the second one ending within
\* SIMULATION_MIN_TIMESTEP of an update of the command (at 16).
SpreadSystem == push :> arm @@ pull :> leg
SpreadTime == push :> 3 @@ pull :> 10
SpreadDuration == push :> 9 @@ pull :> 5

\* The second starts one tick after the first ends: closer than
\* STEPPER_MIN_TIMESTEP, as 0.1 + 0.2 and 0.3 are in floating point.
TightSystem == push :> arm @@ pull :> arm
TightTime == push :> 3 @@ pull :> 11
TightDuration == push :> 7 @@ pull :> 6
=============================================================================
