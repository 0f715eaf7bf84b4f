---------------------------- MODULE TelemetryLog ----------------------------
(***************************************************************************)
(* What the telemetry recorder promises: the log of a simulation is the    *)
(* sequence of the snapshots that were taken of the telemetry data, in     *)
(* order, whole and without any missing; a file is a copy of the log.      *)
(***************************************************************************)
EXTENDS Integers, Sequences

CONSTANTS Values,       \* contents of the telemetry data
          NoFile

VARIABLES
    data,               \* the telemetry data
    log,                \* the snapshots of the current simulation, or of the last one
    taken,              \* how many were taken
    file                \* the last log written to the disk

vars == <<data, log, taken, file>>

Init == data \in Values /\ log = <<>> /\ taken = 0 /\ file = NoFile

Begin == /\ log' = <<>> /\ taken' = 0
         /\ data' \in Values
         /\ UNCHANGED file

Update == data' \in Values /\ UNCHANGED <<log, taken, file>>

TakeSnapshot == /\ log' = Append(log, data) /\ taken' = taken + 1
                /\ UNCHANGED <<data, file>>

WriteLog == file' = log /\ UNCHANGED <<data, log, taken>>

Next == Begin \/ Update \/ TakeSnapshot \/ WriteLog

Spec == Init /\ [][Next]_vars
=============================================================================
