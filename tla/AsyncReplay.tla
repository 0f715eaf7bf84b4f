----------------------------- MODULE AsyncReplay -----------------------------
(***************************************************************************)
(* Replays that are asked for from threads                                 *)
(* (async_play_and_record_logs_files of viewer/replay.py): each job        *)
(* replays, then records, or only one of them, with viewers of its own     *)
(* that it closes.  A lock makes the jobs wait for one another.  Nothing   *)
(* makes the caller wait: it is assumed not to replay anything under a     *)
(* job, though it may close viewers and the backend.                       *)
(***************************************************************************)
EXTENDS ViewerReplay

CONSTANTS Jobs,     \* what may be asked: [replay, record, plays]
          MaxJobs   \* bound: jobs asked for

ASSUME JobsAssumption == Jobs \subseteq [replay : BOOLEAN, record : BOOLEAN, plays : AllRequests]

VARIABLES waiting,  \* the jobs that wait for the lock
          job,      \* the calls the job that has the lock is to make, the first being under way
                    \* if `playing'; none if it has not the lock
          asked     \* how many jobs were asked for

jobVars == <<waiting, job, asked>>
asyncVars == <<replayVars, jobVars>>

NoJob == [calls |-> <<>>, playing |-> FALSE]

AsyncInit == ReplayInit /\ waiting = {} /\ job = NoJob /\ asked = 0

\* The calls of a job.  The backend is closed after each of them if there are two.
CallsOf(j) ==
    LET both == j.replay /\ j.record
        call1 == [j.plays EXCEPT !.record = FALSE, !.close = both]
        call2 == [j.plays EXCEPT !.record = TRUE, !.close = both]
    IN (IF j.replay THEN <<call1>> ELSE <<>>) \o (IF j.record THEN <<call2>> ELSE <<>>)

\* One of a kind waits at most.
Ask ==
    /\ asked < MaxJobs
    /\ \E j \in Jobs \ waiting : waiting' = waiting \cup {j}
    /\ asked' = asked + 1 /\ UNCHANGED <<replayVars, job>>

Acquire ==
    /\ Free /\ job = NoJob
    /\ \E j \in waiting : job' = [calls |-> CallsOf(j), playing |-> FALSE] /\ waiting' = waiting \ {j}
    /\ UNCHANGED <<replayVars, asked>>

JobPlays ==
    /\ Free /\ job.calls # <<>> /\ ~job.playing
    /\ CanPlay(Now, Head(job.calls)) /\ PlayTrajectories(Now, Head(job.calls))
    /\ job' = [job EXCEPT !.playing = TRUE] /\ UNCHANGED <<waiting, asked>>

\* Variant: its robot is not deleted.
ClosedForGoodKept(s, v) ==
    IF s.viewer[v] = None THEN s
    ELSE [ClosedViewer([s EXCEPT !.viewer[v].deletes = FALSE], v) EXCEPT !.viewer[v] = None]

\* A viewer is closed, then collected, which closes it again.
ClosedForGood(s, v) ==
    IF s.viewer[v] = None THEN s ELSE [ClosedViewer(s, v) EXCEPT !.viewer[v] = None]

\* The viewers the call returned, one after the other.
JobViewersClosed(s, r) ==
    LET closed[k \in 0 .. Len(r.order)] ==
          IF k = 0 THEN s ELSE ClosedForGood(closed[k - 1], r.order[k])
    IN closed[Len(r.order)]

\* Whether the close of one of them raises: its process is no more.
CloseRaises(s, r) ==
    \E k \in 1 .. Len(r.order) :
      LET o == s.viewer[r.order[k]]
      IN o # None /\ o.proc = s.class.proc /\ o.isOpen /\ o.deletes /\ ~IsAlive(s)

\* The call returned or raised.  An error of a replay is not one of the job.
JobCloses ==
    LET r == Head(job.calls)
        failed == call.pc = "raised" \/ CloseRaises(Now, r)
    IN  /\ Free /\ job.playing
        /\ Become(IF call.pc = "raised" THEN Now ELSE JobViewersClosed(Now, r))
        /\ job' = [calls |-> IF failed /\ r.record THEN <<>> ELSE Tail(job.calls), playing |-> FALSE]
        /\ call' = [call EXCEPT !.pc = "idle"]
        /\ UNCHANGED <<thread, video, waiting, asked>>

Job == Acquire \/ JobPlays \/ JobCloses

AsyncNext ==
    \/ Job \/ Ask
    \/ /\ UNCHANGED jobVars
       /\ \/ job = NoJob /\ (Play \/ Replay \/ Interrupt)
          \/ ~job.playing /\ Between
          \/ Main \/ UserCloses \/ \E v \in Slots : Run(v)

AsyncSpec == AsyncInit /\ [][AsyncNext]_asyncVars /\ ReplayFairness

---------------------------------------------------------------------------
\* Whatever was replayed or recorded, closed, interrupted or raised, the scene only holds
\* robots of viewers that someone still has.
RobotsHaveViewers ==
    (IsAlive(Now) /\ call.pc \in {"idle", "returned", "raised"}) =>
      \A g \in scene.groups : \E v \in Slots : viewer[v] # None /\ g[1] = NameOf[v]

=============================================================================
