----------------------------- MODULE MCSimulator -----------------------------
(* Instances of Simulator for TLC.                                           *)
EXTENDS Simulator

\* A configuration that records the positions and the sensors, and one that records the
\* positions of a flexible model only.
SomeFlexible == ("full" :> FALSE @@ "soft" :> TRUE)
SomeRecorded == ("full" :> {"position", "imu"} @@ "soft" :> {"position"})

=============================================================================
