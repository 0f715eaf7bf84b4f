---------------------------- MODULE ViewerReplay ----------------------------
(***************************************************************************)
(* The replay of trajectories (viewer/replay.py, Viewer.replay and         *)
(* Simulator.replay): the viewers are made ready, then either one thread   *)
(* for each of them displays its trajectory while the caller waits for     *)
(* them, or the caller renders the frames of a video one after the other.  *)
(* The user may close the window or hit Ctrl-C at any time.                *)
(*                                                                         *)
(* The names of the viewers a replay makes are random: one that is still   *)
(* registered does not prevent the next from being made.                   *)
(***************************************************************************)
EXTENDS Viewer, Sequences

CONSTANTS Requests,      \* what a replay is asked: slots in order, and its options
          Frames,        \* bound: frames of a trajectory
          Forces,        \* external forces of the trajectory of every slot, 0 for no data
          MaxInterrupts  \* bound: Ctrl-C hit

\* What play_trajectories may be asked: slots in order, those whose viewer is given, options.
AllRequests ==
    [order : Seq(Slots), given : SUBSET Slots, backend : Backends, record : BOOLEAN,
     clock : BOOLEAN, legend : BOOLEAN, travelling : BOOLEAN, motion : BOOLEAN,
     watermark : BOOLEAN, hooks : BOOLEAN, close : BOOLEAN]

\* A call without a trajectory has nothing to replay: it returns at once.
ASSUME ReplayAssumption == Requests \subseteq AllRequests /\ \A r \in Requests : r.order # <<>>

VARIABLES call,     \* the call of play_trajectories: where it is, and its options
          thread,   \* the thread of every slot
          video     \* the frames of the video: the index every viewer shows

replayVars == <<class, scene, viewer, call, thread, video>>

Idle == [pc |-> "ended", frames |-> 0, off |-> FALSE, killed |-> FALSE]

ReplayInit ==
    /\ Init
    /\ call = [pc |-> "idle", at |-> 0, shown |-> [v \in Slots |-> FALSE], interrupts |-> 0,
               cursor |-> 0, asked |-> CHOOSE r \in Requests : TRUE]
    /\ thread = [v \in Slots |-> Idle]
    /\ video = <<>>

Order == call.asked.order
Ended == {"ended", "failed", "dead"}

---------------------------------------------------------------------------
(* The viewers are made ready.                                             *)

\* Viewers that are used again: the first one that is closed is replaced, not the others.
Kept(s, r) ==
    LET given == {v \in r.given : s.viewer[v] # None}
        closed == {k \in 1 .. Len(r.order) : r.order[k] \in given /\ ~IsOpen(s, r.order[k])}
        replaced == {r.order[k] : k \in {i \in closed : \A j \in closed : i <= j}}
    IN IF IsAlive(s) THEN given \ replaced ELSE {}

\* One viewer after the other is made or displayed, then set up again with the color it is given;
\* one that cannot be displayed raises, see Raises.
MadeReady(s, r, kept) ==
    LET OneMore(t, v) ==
          LET anonymous == [t EXCEPT !.class.names = @ \ {NameOf[v]}]
          IN IF v \notin kept THEN Constructed(anonymous, v, r.backend, ~r.record, FALSE, TRUE)
             ELSE IF ~IsConnected(t, v) THEN t
             ELSE IF Len(r.order) > 1 THEN SetUp(Refreshed(t, v), v) ELSE Refreshed(t, v)
        ready[k \in 0 .. Len(r.order)] == IF k = 0 THEN s ELSE OneMore(ready[k - 1], r.order[k])
    IN ready

\* Each viewer is displayed at the start of its trajectory.  If there was no viewer yet,
\* contact forces are displayed by default when there are data; only panda3d has them.
WithDefaults(s, r, kept) ==
    LET OneMore(t, v) ==
          IF kept = {} /\ IsPanda(t) THEN Displayed(Refreshed(t, v), v, r.hooks) ELSE Refreshed(t, v)
        shown[k \in 0 .. Len(r.order)] == IF k = 0 THEN s ELSE OneMore(shown[k - 1], r.order[k])
    IN shown[Len(r.order)]

RegisterCameraMotion(s) == [s EXCEPT !.class.motion = TRUE]
RemoveCameraMotion(s) == [s EXCEPT !.class.motion = FALSE]

\* The overlays, which only panda3d has.
ShowClock(s, time) == IF IsPanda(s) THEN [s EXCEPT !.scene = SetClock(@, time)] ELSE s
ShowWatermark(s, image) == IF IsPanda(s) THEN [s EXCEPT !.scene = SetWatermark(@, image)] ELSE s

\* The motion of the camera and the overlays that are asked for.
Moving(s, r) == IF r.motion THEN RegisterCameraMotion(s) ELSE s

Overlaid(s, r) ==
    LET labelled == IF r.legend THEN [s EXCEPT !.scene = SetLegend(@, TRUE)] ELSE s
    IN IF r.watermark THEN ShowWatermark(labelled, TRUE) ELSE labelled

Travelling(s, r) == [s EXCEPT !.class.travelling = IF r.travelling THEN Head(r.order) ELSE @]

\* The viewers a call made are collected if it raises: the caller did not get them.
Dropped(s, made, before) ==
    [v \in Slots |-> IF v \in made THEN before[v] ELSE s.viewer[v]]

Closed(s, made) ==
    LET n == {NameOf[v] : v \in made}
    IN [s EXCEPT !.class.names = @ \ n, !.class.colored = @ \ n,
                 !.scene.groups = {g \in @ : g[1] \notin n}]

\* What is displayed by a viewer of a process that is no more raises: at its turn, or, when a
\* viewer that was made after it has started another backend, at the start of its trajectory.
\* So does a legend without a label for every color.
Raises(s, r, kept, ready) ==
    LET n == Len(r.order)
        made == {v \in Slots : v \in {r.order[k] : k \in 1 .. n} \ kept}
        failing == {k \in 1 .. n : r.order[k] \in kept /\ ~IsConnected(ready[k - 1], r.order[k])}
        first == CHOOSE i \in failing : \A j \in failing : i <= j
        moving == Moving(ready[n], r)
        unlabelled == r.legend /\ Cardinality(ready[n].class.colored) # n
        lost == \E k \in 1 .. n : ~IsConnected(ready[n], r.order[k])
        last == IF failing # {} THEN ready[first - 1]
                ELSE IF unlabelled THEN moving ELSE Overlaid(moving, r)
        done == IF failing # {} THEN made \cap {r.order[i] : i \in 1 .. first - 1} ELSE made
    IN [fails |-> failing # {} \/ unlabelled \/ lost,
        state |-> [Closed(last, done) EXCEPT !.viewer = Dropped(last, done, s.viewer)]]

Launched(s, r) ==
    /\ thread' = [v \in Slots |->
                    IF ~r.record /\ \E k \in 1 .. Len(r.order) : r.order[k] = v
                      THEN [pc |-> "begin", frames |-> Frames, off |-> FALSE, killed |-> FALSE]
                      ELSE Idle]
    /\ call' = [call EXCEPT !.pc = IF r.record THEN "recording" ELSE "joining",
                            !.at = 1, !.cursor = 1, !.asked = r,
                            !.shown = [v \in Slots |-> s.viewer[v] # None /\ s.viewer[v].display]]
    /\ video' = <<>>

\* play_trajectories, until its threads are started or its recording begins.
PlayTrajectories(s, r) ==
    LET kept == Kept(s, r)
        ready == MadeReady(s, r, kept)
        raised == Raises(s, r, kept, ready)
        overlaid == Overlaid(Moving(ready[Len(r.order)], r), r)
        following == Travelling(WithDefaults(overlaid, r, kept), r)
        opened == IF r.record THEN following ELSE OpenedGui(following)
    IN IF raised.fails
         THEN /\ Become(raised.state)
              /\ call' = [call EXCEPT !.pc = "raised", !.asked = r]
              /\ UNCHANGED <<thread, video>>
         ELSE Become(opened) /\ Launched(opened, r)

\* The caller has returned, though a thread it asked to exit may still be in a call.
Free == call.pc \in {"idle", "returned", "raised"} /\ \A v \in Slots : thread[v].pc \in Ended

\* A slot that is not given takes a new viewer: it holds none that is open.
CanPlay(s, r) ==
    /\ CanStart(s, r.backend)
    /\ \A k \in 1 .. Len(r.order) : r.order[k] \notin r.given => ~IsOpen(s, r.order[k])

Play ==
    /\ Free
    /\ \E r \in Requests : CanPlay(Now, r) /\ PlayTrajectories(Now, r)

\* Simulator.replay: the viewers of the previous replay but its own are closed, its own is
\* made if needed, and is the only one that is given.
Rendered(s, r) ==
    LET v == Head(r.order)
        anonymous == [s EXCEPT !.class.names = @ \ {NameOf[v]}]
    IN IF IsOpen(s, v) THEN Refreshed(s, v)
       ELSE Displayed(Constructed(anonymous, v, r.backend, FALSE, FALSE, TRUE), v, TRUE)

WithoutOthers(s, v) ==
    LET others == {w \in Slots \ {v} : s.viewer[w] # None}
    IN IF others = {} THEN s
       ELSE LET w == CHOOSE o \in others : TRUE
            IN ClosedViewer([s EXCEPT !.viewer[w].deletes = TRUE], w)

Replay ==
    /\ Free
    /\ \E r \in Requests :
         LET s == WithoutOthers(Now, Head(r.order)) IN
         /\ CanStart(s, r.backend)
         /\ IsOpen(s, Head(r.order)) => IsConnected(s, Head(r.order))
         /\ PlayTrajectories(Rendered(s, r), [r EXCEPT !.given = {Head(r.order)}])

---------------------------------------------------------------------------
(* A thread.  One that is asked to exit may end the call it is in first.   *)

Goto(v, pc) ==
    thread' = [thread EXCEPT ![v].pc = IF thread[v].killed THEN "dead" ELSE pc]

\* Outside of any try, the viewer must be open, and the display of data that no hook updates
\* is disabled.
Begin(v) ==
    /\ thread[v].pc = "begin"
    /\ IF ~IsOpen(Now, v) THEN UNCHANGED vars /\ Goto(v, "dead")
       ELSE IF call.asked.hooks \/ ~viewer[v].display THEN UNCHANGED vars /\ Goto(v, "clock")
       ELSE IF ~IsConnected(Now, v) THEN UNCHANGED vars /\ Goto(v, "dead")
       ELSE /\ Become(Displayed(Now, v, FALSE))
            /\ thread' = [thread EXCEPT ![v].off = TRUE,
                                        ![v].pc = IF thread[v].killed THEN "dead" ELSE "clock"]
    /\ UNCHANGED <<call, video>>

Clock(v) ==
    /\ thread[v].pc = "clock"
    /\ IF ~call.asked.clock THEN UNCHANGED vars /\ Goto(v, "show")
       ELSE IF ~IsAlive(Now) THEN UNCHANGED vars /\ Goto(v, "handle")
       ELSE Become(ShowClock(Now, TRUE)) /\ Goto(v, "show")
    /\ UNCHANGED <<call, video>>

Show(v) ==
    /\ thread[v].pc = "show" /\ IsConnected(Now, v)
    /\ Become(Refreshed(Now, v))
    /\ thread' = [thread EXCEPT ![v].frames = @ - 1,
                    ![v].pc = IF thread[v].killed THEN "dead"
                              ELSE IF thread[v].frames = 1 THEN "end" ELSE "clock"]
    /\ UNCHANGED <<call, video>>

\* The viewer was closed, or the hook of the user raises.
ShowFails(v) ==
    /\ thread[v].pc = "show" /\ (~IsConnected(Now, v) \/ call.asked.hooks)
    /\ Goto(v, "handle") /\ UNCHANGED <<vars, call, video>>

\* Variant: it goes on with the next frame.
AfterErrorAgain == IF class.backend = None THEN "clock" ELSE "closing"

\* Where a thread goes on when an exception was raised in its loop.
AfterError == IF class.backend = None THEN "ended" ELSE "closing"

Handle(v) ==
    /\ thread[v].pc = "handle"
    /\ Goto(v, AfterError) /\ UNCHANGED <<vars, call, video>>

\* Variant: the backend is left as it is.
CloseOnErrorNot(v) ==
    /\ thread[v].pc = "closing"
    /\ Goto(v, "failed") /\ UNCHANGED <<vars, call, video>>

CloseOnError(v) ==
    /\ thread[v].pc = "closing"
    /\ Become(ClosedAll(Now)) /\ Goto(v, "failed") /\ UNCHANGED <<call, video>>

\* The clock is hidden, then the display of data is enabled again.
End(v) ==
    /\ thread[v].pc = "end"
    /\ Goto(v, IF IsAlive(Now) THEN "endClock" ELSE "ended") /\ UNCHANGED <<vars, call, video>>

EndClock(v) ==
    /\ thread[v].pc = "endClock"
    /\ IF ~call.asked.clock THEN UNCHANGED vars /\ Goto(v, "endDisplay")
       ELSE IF ~IsAlive(Now) THEN UNCHANGED vars /\ Goto(v, "dead")
       ELSE Become(ShowClock(Now, FALSE)) /\ Goto(v, "endDisplay")
    /\ UNCHANGED <<call, video>>

\* Variant: the display is not enabled again.
EndDisplayNot(v) ==
    /\ thread[v].pc = "endDisplay"
    /\ Goto(v, "ended") /\ UNCHANGED <<vars, call, video>>

EndDisplay(v) ==
    /\ thread[v].pc = "endDisplay"
    /\ IF ~thread[v].off THEN UNCHANGED vars /\ Goto(v, "ended")
       ELSE IF ~IsConnected(Now, v) THEN UNCHANGED vars /\ Goto(v, "dead")
       ELSE Become(Displayed(Now, v, TRUE)) /\ Goto(v, "ended")
    /\ UNCHANGED <<call, video>>

\* The exception it was sent is raised before it does anything else.
Exit(v) ==
    /\ thread[v].killed /\ thread[v].pc \notin Ended
    /\ thread' = [thread EXCEPT ![v].pc = "dead"] /\ UNCHANGED <<vars, call, video>>

Run(v) ==
    \/ Begin(v) \/ Clock(v) \/ Show(v) \/ ShowFails(v) \/ Handle(v) \/ CloseOnError(v)
    \/ End(v) \/ EndClock(v) \/ EndDisplay(v) \/ Exit(v)

---------------------------------------------------------------------------
(* The caller.                                                             *)

AfterThread == [call EXCEPT !.at = @ + 1, !.pc = IF call.at = Len(Order) THEN "checking" ELSE @]

Join ==
    /\ call.pc = "joining" /\ thread[Order[call.at]].pc \in Ended
    /\ call' = AfterThread /\ UNCHANGED <<vars, thread, video>>

\* Ctrl-C: the thread that is waited for is asked to exit, and is no longer waited for.
Interrupt ==
    /\ call.pc = "joining" /\ call.interrupts < MaxInterrupts
    /\ call' = [AfterThread EXCEPT !.interrupts = @ + 1]
    /\ thread' = [thread EXCEPT ![Order[call.at]].killed = @ \/ thread[Order[call.at]].pc \notin Ended]
    /\ UNCHANGED <<vars, video>>

\* One viewer is displayed at the index of the frame; with force data, the loop over the
\* forces leaves its own index behind.
ShowFrame ==
    LET v == Order[call.at] IN
    /\ call.pc = "recording" /\ call.at <= Len(Order)
    /\ IF call.cursor > Frames
         THEN call' = [call EXCEPT !.pc = "raised"] /\ UNCHANGED <<class, scene, viewer, video>>
       ELSE IF ~IsConnected(Now, v)
         THEN call' = [call EXCEPT !.pc = "checking"] /\ UNCHANGED <<class, scene, viewer, video>>
       ELSE /\ Become(Refreshed(Now, v))
            /\ video' = IF call.at = 1 THEN Append(video, <<call.cursor>>)
                        ELSE [video EXCEPT ![Len(video)] = Append(@, call.cursor)]
            /\ call' = [call EXCEPT !.at = @ + 1, !.cursor = IF Forces[v] > 0 THEN Forces[v] ELSE @]
    /\ UNCHANGED thread

AddFrame ==
    /\ call.pc = "recording" /\ call.at > Len(Order)
    /\ call' = [call EXCEPT !.at = 1, !.cursor = Len(video) + 1,
                            !.pc = IF Len(video) = Frames \/ ~IsAlive(Now) THEN "checking" ELSE @]
    /\ Become(IF call.asked.clock /\ IsAlive(Now) THEN ShowClock(Now, TRUE) ELSE Now)
    /\ UNCHANGED <<thread, video>>

Check ==
    /\ call.pc = "checking"
    /\ call' = [call EXCEPT !.pc = IF IsAlive(Now) THEN "cleaning" ELSE "closing"]
    /\ UNCHANGED <<vars, thread, video>>

Undecorated(s, r) ==
    LET detached == IF r.travelling THEN DetachCamera(s) ELSE s
        still == IF r.motion THEN RemoveCameraMotion(detached) ELSE detached
        unlabelled == IF r.legend THEN [still EXCEPT !.scene = SetLegend(@, FALSE)] ELSE still
        unmarked == IF r.watermark THEN ShowWatermark(unlabelled, FALSE) ELSE unlabelled
    IN IF r.clock THEN ShowClock(unmarked, FALSE) ELSE unmarked

\* What is sent to a process that ended since the check raises.
Clean ==
    LET r == call.asked IN
    /\ call.pc = "cleaning"
    /\ Become(Undecorated(Now, r))
    /\ call' = [call EXCEPT !.pc = IF (r.legend \/ r.watermark \/ r.clock) /\ ~IsAlive(Now) THEN "raised" ELSE "closing"]
    /\ UNCHANGED <<thread, video>>

Return ==
    /\ call.pc = "closing"
    /\ IF call.asked.close THEN Become(ClosedAll(Now)) ELSE UNCHANGED vars
    /\ call' = [call EXCEPT !.pc = "returned"]
    /\ UNCHANGED <<thread, video>>

Main == Join \/ ShowFrame \/ AddFrame \/ Check \/ Clean \/ Return

---------------------------------------------------------------------------
(* The user, and what is done between two replays.                         *)

UserCloses == CloseWindow /\ UNCHANGED <<call, thread, video>>

Between ==
    /\ Free /\ (CloseAll \/ \E v \in Slots : CloseViewer(v))
    /\ UNCHANGED <<call, thread, video>>

ReplayNext ==
    \/ Play \/ Replay \/ Main \/ Interrupt \/ UserCloses \/ Between
    \/ \E v \in Slots : Run(v)

\* Threads are scheduled, and so is the caller that waits for them.
ReplayFairness == WF_replayVars(Main) /\ \A v \in Slots : WF_replayVars(Run(v))

---------------------------------------------------------------------------
\* A replay returns or raises, whatever is closed, interrupted or raised meanwhile: no
\* thread goes on with a backend that is no more.
ReplayEnds ==
    (call.pc \in {"joining", "recording"}) ~> (call.pc \in {"returned", "raised"})

\* No error of a thread leaves the others to display in a backend that goes on without it.  One
\* in its loop closes the backend: nothing is left of it until the call has ended.  One that is
\* raised before its first frame or after its last goes through, and leaves the attributes of the
\* class as they are; it is only raised because the process is no more, unless it is the
\* exception the caller sent.
FailureClosesBackend ==
    \A v \in Slots : ~Free =>
        /\ thread[v].pc = "failed" => class = NoClass
        /\ (thread[v].pc = "dead" /\ ~thread[v].killed) => ~IsAlive(Now)

\* A replay that returns and was not interrupted leaves the scene as it was: no overlay,
\* no travelling, no motion of the camera, and the markers displayed before are again,
\* though the threads hide and show them one after the other.
LeavesNoTrace ==
    (call.pc = "returned" /\ call.interrupts = 0 /\ IsAlive(Now)) =>
      /\ scene.widgets = {} /\ ~scene.legend
      /\ call.asked.motion => ~class.motion
      /\ call.asked.travelling => class.travelling = None
      /\ \A v \in Slots : (viewer[v] # None /\ IsConnected(Now, v)) =>
            viewer[v].display = call.shown[v]
=============================================================================
