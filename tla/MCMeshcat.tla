----------------------------- MODULE MCMeshcat -----------------------------
(* Instances of Meshcat and of its recorder for TLC.                       *)
EXTENDS MeshcatRecorder
=============================================================================
