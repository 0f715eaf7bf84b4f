------------------------------ MODULE MCViewer ------------------------------
(* Instance of Viewer for TLC: two simulators, whose robots have distinct  *)
(* names.  To exchange both simulators and their robots changes nothing.   *)
EXTENDS Viewer, TLC

CONSTANTS s1, s2, a, b

OwnNames == s1 :> a @@ s2 :> b
Exchange == {s1 :> s1 @@ s2 :> s2 @@ a :> a @@ b :> b, s1 :> s2 @@ s2 :> s1 @@ a :> b @@ b :> a}
=============================================================================
