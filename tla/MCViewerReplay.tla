--------------------------- MODULE MCViewerReplay ---------------------------
(* Instances of ViewerReplay for TLC.                                      *)
EXTENDS AsyncReplay

TwoSlots == {"s1", "s2"}
OwnNames == [s1 |-> "a", s2 |-> "b"]
NoForces == [s1 |-> 0, s2 |-> 0]

Request(order, given, options) ==
    [order |-> order, given |-> given, backend |-> "panda3d", record |-> "record" \in options,
     clock |-> "clock" \in options, legend |-> Len(order) > 1 \/ "legend" \in options,
     travelling |-> "travelling" \in options, motion |-> "motion" \in options,
     watermark |-> "watermark" \in options,
     hooks |-> "hooks" \in options, close |-> "close" \in options]

\* Two trajectories or one, from no viewer or with those of the caller.
Live ==
    {Request(<<"s1", "s2">>, {}, {"clock", "hooks", "motion", "watermark"}),
     Request(<<"s2">>, {"s2"}, {"clock", "travelling"}),
     Request(<<"s1">>, {"s1"}, {"clock", "legend", "motion", "close"}),
     Request(<<"s1", "s2">>, TwoSlots, {"record", "clock", "travelling"})}

\* A job that replays then records, and one that only records.
SomeJobs ==
    {[replay |-> TRUE, record |-> TRUE, plays |-> Request(<<"s2">>, {}, {"clock"})],
     [replay |-> FALSE, record |-> TRUE, plays |-> Request(<<"s2">>, {}, {"legend"})]}
=============================================================================
