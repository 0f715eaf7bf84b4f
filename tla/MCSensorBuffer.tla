--------------------------- MODULE MCSensorBuffer ---------------------------
(* Instances of SensorBuffer for TLC: the nodes of the ODE steppers, sensors   *)
(* of various delays.  A tick is 1/360 of the largest step.                    *)
EXTENDS SensorBuffer, TLC

CONSTANTS slow, fast    \* sensors: delayed, and not

\* RungeKuttaDOPRIStepper, RungeKutta4Stepper, EulerExplicitStepper.
Dopri == [nodes |-> <<18, 27, 72, 80, 90, 90>>, isFsal |-> TRUE]
RungeKutta4 == [nodes |-> <<45, 45, 90>>, isFsal |-> FALSE]
Euler == [nodes |-> <<>>, isFsal |-> FALSE]

OnlyDopri == {Dopri}
DopriOrEuler == {Dopri, Euler}
OnlyRungeKutta4 == {RungeKutta4}

\* An error on the first sensor is one on both.
SlowThenFast == <<slow, fast>>
ShortDelay == slow :> 60 @@ fast :> 0
MediumDelay == slow :> 200 @@ fast :> 0
LongDelay == slow :> 500 @@ fast :> 0
NoJitter == slow :> {0} @@ fast :> {0}
SomeJitter == slow :> {0, 45} @@ fast :> {0}
=============================================================================
