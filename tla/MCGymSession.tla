---------------------------- MODULE MCGymSession ----------------------------
(* Instances of GymSession for TLC.                                          *)
EXTENDS GymSession

B(kind, ratio) == [kind |-> kind, ratio |-> ratio]

\* A controller of period 2 over an observer of period 2 over a PD controller of period 1,
\* every second frame being stacked.
Walker == <<B("pd", 1), B("observer", 2), B("controller", 2), B("stack", 1)>>

\* An action beyond the bounds of the speed, positions in and out of bounds.
SomeSpeeds == {-2}
SomePositions == {-5, 2}

\* A horizon shorter than an episode, and none.
SomeHorizons == {1, None}
=============================================================================
