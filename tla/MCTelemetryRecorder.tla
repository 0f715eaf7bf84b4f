------------------------ MODULE MCTelemetryRecorder ------------------------
(* Instances of TelemetryRecorder for TLC. *)
EXTENDS TelemetryRecorder

CONSTANTS a, b

\* A header with room for two lines behind it, with room for none, larger than a chunk and of
\* exactly one; lines that divide the size of a chunk, or not, or fill it.
SomeLayouts == {[header |-> 4, line |-> 3], [header |-> 9, line |-> 5],
                [header |-> 14, line |-> 6], [header |-> 10, line |-> 10]}

=============================================================================
