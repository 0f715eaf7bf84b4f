--------------------------- MODULE MeshcatRecorder ---------------------------
(***************************************************************************)
(* The recorder of meshcat (viewer/meshcat/recorder.py, and the calls of   *)
(* wrapper.py that go through it): a process that drives a browser without *)
(* window, whose page is one more page of the server.  Python and this     *)
(* process share two values, a request and a message, that both write.     *)
(*                                                                         *)
(* A request ends when the process clears it, when the process is dead, or *)
(* after a timeout, whether or not its answer was about to come.           *)
(***************************************************************************)
EXTENDS Meshcat

CONSTANTS MaxCalls   \* bound: calls that go through the recorder

VARIABLES recorder,  \* Python: the call it is in, and the attributes of the recorder
          shm,       \* the values that are shared
          child      \* the process, and the request it serves

recorderVars == <<server, page, wire, caller, recorder, shm, child>>

Nothing == [kind |-> "", id |-> 0]
NoChild == [pc |-> "none", serves |-> 0, page |-> None]

RecorderInit ==
    /\ MeshInit
    /\ recorder = [pc |-> "idle", call |-> None, calls |-> 0, open |-> FALSE,
                   recording |-> FALSE, result |-> None]
    /\ shm = [request |-> "", message |-> Nothing]
    /\ child = NoChild

Write(kind, id) == shm' = [shm EXCEPT !.message = [kind |-> kind, id |-> id]]

Unused == {w \in Webs : page[w].status = "new"}

---------------------------------------------------------------------------
(* Python.                                                                 *)

Raise(r) == [r EXCEPT !.pc = "idle", !.result = None]

\* capture_frame, start_recording, add_frame and stop_recording of the wrapper.
Call(kind) ==
    /\ recorder.pc = "idle" /\ caller.pc = "idle" /\ recorder.calls < MaxCalls
    /\ LET called == [recorder EXCEPT !.call = kind, !.calls = @ + 1, !.result = None]
       IN recorder' =
            IF kind \in {"add", "stop"} THEN
              IF recorder.recording THEN [called EXCEPT !.pc = "submit"] ELSE Raise(called)
            ELSE IF ~recorder.open THEN [called EXCEPT !.pc = "open"]
            ELSE [called EXCEPT !.pc = IF kind = "capture" THEN "check" ELSE "submit"]
    /\ UNCHANGED <<meshVars, shm, child>>

\* open, until the process is started: the values are new.
Open ==
    /\ recorder.pc = "open" /\ Unused # {}
    /\ shm' = [request |-> "", message |-> Nothing]
    /\ child' = [NoChild EXCEPT !.pc = "starting", !.page = CHOOSE w \in Unused : TRUE]
    /\ recorder' = [recorder EXCEPT !.pc = "opening"]
    /\ UNCHANGED meshVars

\* The first message tells whether the browser could be started.
Opened ==
    /\ recorder.pc = "opening" /\ shm.message # Nothing
    /\ IF shm.request = "quit"
         THEN recorder' = Raise(recorder) /\ UNCHANGED shm
         ELSE /\ recorder' = [recorder EXCEPT !.open = TRUE, !.pc = "check"]
              /\ shm' = [shm EXCEPT !.message = Nothing]
    /\ UNCHANGED <<meshVars, child>>

OpenTimeout ==
    /\ recorder.pc = "opening" /\ shm.message = Nothing
    /\ recorder' = Raise(recorder) /\ UNCHANGED <<meshVars, shm, child>>

\* MeshcatWrapper.wait, before anything is asked.
Check ==
    /\ recorder.pc = "check" /\ (AskPage \/ AskReady)
    /\ recorder' = [recorder EXCEPT !.pc = "checking"] /\ UNCHANGED <<shm, child>>

GoOnChecking ==
    /\ recorder.pc = "checking" /\ (ReplyPage \/ (caller.pc = "ask" /\ AskReady))
    /\ UNCHANGED <<recorder, shm, child>>

Checked ==
    /\ recorder.pc = "checking" /\ caller.pc = "idle"
    /\ recorder' = [recorder EXCEPT !.pc = "submit"] /\ UNCHANGED <<meshVars, shm, child>>

\* _send_request: the message, then the request.
Submit ==
    /\ recorder.pc = "submit"
    /\ IF ~recorder.open THEN recorder' = Raise(recorder) /\ UNCHANGED shm
       ELSE /\ recorder' = [recorder EXCEPT !.pc = "request"]
            /\ Write("arguments", recorder.calls)
    /\ UNCHANGED <<meshVars, child>>

SendRequest ==
    /\ recorder.pc = "request"
    /\ shm' = [shm EXCEPT !.request = recorder.call]
    /\ recorder' = [recorder EXCEPT !.pc = "sent"] /\ UNCHANGED <<meshVars, child>>

Receive ==
    /\ recorder.pc = "sent" /\ shm.request = ""
    /\ recorder' = [recorder EXCEPT !.pc = "idle", !.result = shm.message,
                      !.recording = CASE recorder.call = "start" -> TRUE
                                      [] recorder.call = "stop" -> FALSE
                                      [] OTHER -> @]
    /\ UNCHANGED <<meshVars, shm, child>>

\* Variant: the process is left to its request.
ReleaseNot == recorder' = Raise(recorder) /\ UNCHANGED <<meshVars, shm, child>>

\* release: the process is terminated.
Release ==
    /\ recorder' = [Raise(recorder) EXCEPT !.open = FALSE]
    /\ child' = NoChild /\ UNCHANGED <<meshVars, shm>>

\* Variant: Python waits as long as the process is alive.
IsOverWhenDead == child.pc = "gone"

\* The process is found dead, or the timeout has elapsed, which may be at any time.
IsOver == TRUE

GiveUp == recorder.pc = "sent" /\ shm.request # "" /\ IsOver /\ Release

---------------------------------------------------------------------------
(* The process.                                                            *)

ChildStarts ==
    /\ child.pc = "starting" /\ shm.request # "quit"
    /\ OpenPage(child.page)
    /\ child' = [child EXCEPT !.pc = "loaded"] /\ UNCHANGED <<recorder, shm>>

ChildTells ==
    /\ child.pc = "loaded"
    /\ Write("pid", 0)
    /\ child' = [child EXCEPT !.pc = "loop"] /\ UNCHANGED <<meshVars, recorder>>

\* The request comes first: what Python waits for is the message.
ChildRefuses ==
    /\ child.pc = "starting" /\ shm.request # "quit"
    /\ shm' = [shm EXCEPT !.request = "quit"] /\ UNCHANGED <<meshVars, recorder, child>>

ChildTellsWhy ==
    /\ child.pc = "starting" /\ shm.request = "quit"
    /\ Write("error", 0)
    /\ child' = [child EXCEPT !.pc = "gone"] /\ UNCHANGED <<meshVars, recorder>>

Serve ==
    /\ child.pc = "loop" /\ shm.request \notin {"", "quit"}
    /\ child' = [child EXCEPT !.pc = "serving", !.serves = shm.message.id]
    /\ UNCHANGED <<meshVars, recorder, shm>>

\* The result is written, then the request is cleared.
WriteOutput ==
    /\ child.pc = "serving" /\ Write("output", child.serves)
    /\ child' = [child EXCEPT !.pc = "served"] /\ UNCHANGED <<meshVars, recorder>>

ClearRequest ==
    /\ child.pc = "served" /\ shm' = [shm EXCEPT !.request = ""]
    /\ child' = [child EXCEPT !.pc = "loop"] /\ UNCHANGED <<meshVars, recorder>>

ChildRaises ==
    /\ child.pc = "serving"
    /\ Write("error", 0)
    /\ child' = [child EXCEPT !.pc = "gone"] /\ UNCHANGED <<meshVars, recorder>>

ChildDies ==
    /\ child.pc \in {"starting", "loop", "serving", "served"}
    /\ child' = [child EXCEPT !.pc = "gone"] /\ UNCHANGED <<meshVars, recorder, shm>>

ChildHangs ==
    /\ child.pc \in {"starting", "serving"}
    /\ child' = [child EXCEPT !.pc = "hung"] /\ UNCHANGED <<meshVars, recorder, shm>>

---------------------------------------------------------------------------
Python ==
    \/ Open \/ Opened \/ OpenTimeout \/ Check \/ GoOnChecking \/ Checked \/ Submit \/ SendRequest
    \/ Receive \/ GiveUp

Child ==
    \/ ChildStarts \/ ChildTells \/ ChildRefuses \/ ChildTellsWhy \/ Serve \/ WriteOutput
    \/ ClearRequest \/ ChildRaises \/ ChildDies \/ ChildHangs

\* The server and the pages, the one of the browser being opened by the process.
Around ==
    /\ \/ Watchdog
       \/ \E p \in Pages : \/ p \in Comms /\ OpenPage(p)
                           \/ ClosePage(p) \/ Vanish(p) \/ Answer(p) \/ SayAlive(p)
                           \/ HandleWeb(p) \/ HandleComm(p)
    /\ UNCHANGED <<recorder, shm, child>>

RecorderNext == Python \/ Child \/ Around \/ \E kind \in {"capture", "start", "add", "stop"} : Call(kind)

RecorderSpec ==
    /\ RecorderInit /\ [][RecorderNext]_recorderVars
    /\ WF_recorderVars(Python)
    /\ WF_recorderVars(Watchdog /\ UNCHANGED <<recorder, shm, child>>)
    /\ \A p \in Pages :
         /\ WF_recorderVars(Answer(p) /\ UNCHANGED <<recorder, shm, child>>)
         /\ WF_recorderVars((HandleWeb(p) \/ HandleComm(p)) /\ UNCHANGED <<recorder, shm, child>>)

---------------------------------------------------------------------------
\* What a request returns was computed for it, and not for one that timed out before.
ResultOfItsRequest ==
    recorder.result # None => recorder.result = [kind |-> "output", id |-> recorder.calls]

\* A request ends, by its result or by an error, even if the process hangs.
RequestEnds == (recorder.pc = "sent") ~> (recorder.pc = "idle")
=============================================================================
