--------------------------- MODULE MCEngineForces ---------------------------
(* Instances of EngineForces for TLC. *)
EXTENDS EngineForces, TLC

CONSTANTS arm, leg, cart    \* systems

\* An impulse force, and one that a register never takes.
OneWindow == {[t |-> 0, dt |-> 3], [t |-> -1, dt |-> 3]}
NoWindows == {}

SameNames == Permutations(Names)
=============================================================================
