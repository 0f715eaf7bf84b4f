------------------------------ MODULE Simulator ------------------------------
(***************************************************************************)
(* A Simulator of jiminy_py (simulator.py): one robot in one engine, the   *)
(* options of both, the viewer it renders in and the figure it plots in.   *)
(* The engine is what EngineLifecycle says of it, seen from here.  A call  *)
(* of `simulate' goes step by step; plotting blocks until the figure is    *)
(* closed, unless the session is interactive.                              *)
(*                                                                         *)
(* The external forces are a buffer of the engine that every start makes   *)
(* anew.  The viewer holds references to its elements, or forces of its    *)
(* own: what it displays is then of another time.  A replay writes in      *)
(* them, be they those of the engine.                                      *)
(***************************************************************************)
EXTENDS TabbedFigure

CONSTANTS Configs,        \* configurations: of the model, its telemetry, the controller, the engine
          FlexibleOf,     \* whether a configuration makes the model flexible
          RecordedOf,     \* the groups that a configuration records
          RobotHas,       \* the groups of the sensors the robot has
          Default,        \* the configuration a simulator is built with
          MaxTime,        \* bound: steps of a simulation
          MaxStarts       \* bound: simulations

ASSUME SimulatorAssumption ==
    /\ Default \in Configs
    /\ FlexibleOf \in [Configs -> BOOLEAN]
    /\ RecordedOf \in [Configs -> SUBSET (StateGroups \cup SensorGroups)]

VARIABLES engine,     \* is_simulation_running, the time, the buffer of forces, who started
          options,    \* of the model, its telemetry, the controller and the engine
          log,        \* log_data: what the last simulation recorded
          viewer,     \* viewer, and whose forces it displays
          call,       \* the call of simulate: where it is, its arguments
          files,      \* the log that was written and the options that were exported
          mixed,      \* history: the options were set during a simulation
          blocked,    \* plot waits for its figure to be closed
          alone       \* a figure that was made without plot is in use

simVars == <<engine, options, log, viewer, call, files, mixed, blocked, alone>>
allVars == <<simVars, figure>>

Parts == {"model", "telemetry", "controller", "engine"}
Uniform(config) == [part \in Parts |-> config]
Idle == [pc |-> "user", bar |-> FALSE, path |-> None, end |-> 0]

NoFiles == [log |-> None, options |-> None]
AtRest == [running |-> FALSE, t |-> 0, buffer |-> 0, by |-> "start"]

SimulatorInit ==
    /\ engine = AtRest /\ options = Uniform(Default) /\ log = None /\ viewer = None
    /\ call = Idle /\ files = NoFiles
    /\ mixed = FALSE /\ blocked = FALSE /\ alone = FALSE
    /\ FigureInit

IsFree == call.pc = "user" /\ ~blocked /\ ~alone

---------------------------------------------------------------------------
(* Simulations *)

IsFlexible == FlexibleOf[options["model"]]

\* What is recorded is settled by the start: states by the engine, sensors by the robot.
NewLog == [lines |-> 0, flexible |-> IsFlexible, of |-> engine.buffer + 1,
           recorded |-> (RecordedOf[options["engine"]] \cap StateGroups)
                          \cup (RecordedOf[options["telemetry"]] \cap SensorGroups)]

WithLine(l) == [l EXCEPT !.lines = @ + 1]

Started(by) == [running |-> TRUE, t |-> 0, buffer |-> engine.buffer + 1, by |-> by]

\* Nothing runs any more, and the last point is logged.
StopEngine == engine' = [engine EXCEPT !.running = FALSE]
StopLog == log' = IF engine.running THEN WithLine(log) ELSE log

Stop == IsFree /\ StopEngine /\ StopLog /\ UNCHANGED <<options, viewer, call, files, mixed, blocked, alone, figure>>

Reset == Stop

\* seed: the engine is stopped, as it refuses its options otherwise, then reset.
Seed == Stop

\* Variant: the viewer keeps the buffer of the previous simulation.
SharedNot(v, buffer) == v

\* The references to the elements of the buffer are given to the viewer.
Shared(v, buffer) == IF v = None THEN None ELSE [v EXCEPT !.forces = buffer]

Start ==
    /\ IsFree /\ ~engine.running /\ engine.buffer < MaxStarts
    /\ engine' = Started("start") /\ log' = NewLog
    /\ viewer' = Shared(viewer, engine.buffer + 1)
    /\ UNCHANGED <<options, call, files, mixed, blocked, alone, figure>>

\* Variant: the viewer is told in any case.
StartFailsShared ==
    /\ IsFree /\ ~engine.running /\ engine.buffer < MaxStarts
    /\ engine' = [Started("start") EXCEPT !.running = FALSE]
    /\ viewer' = Shared(viewer, engine.buffer + 1)
    /\ UNCHANGED <<options, log, call, files, mixed, blocked, alone, figure>>

\* It raises once the buffer was made: the viewer is not told.
StartFails ==
    /\ IsFree /\ ~engine.running /\ engine.buffer < MaxStarts
    /\ engine' = [Started("start") EXCEPT !.running = FALSE]
    /\ UNCHANGED <<options, log, viewer, call, files, mixed, blocked, alone, figure>>

Advance ==
    /\ engine.running /\ engine.t < MaxTime
    /\ engine' = [engine EXCEPT !.t = @ + 1]
    /\ log' = WithLine(log)
    /\ UNCHANGED <<options, viewer, call, files, mixed, blocked, alone, figure>>

Step == IsFree /\ Advance

\* simulate resets and starts the engine, and not by the methods of the simulator; or its
\* arguments are refused and what runs is stopped, as by a start that fails.
Simulate(end, path, bar) ==
    /\ IsFree /\ engine.buffer < MaxStarts
    /\ \/ engine' = Started("simulate") /\ log' = NewLog
          /\ call' = [pc |-> "simulate", bar |-> bar, path |-> path, end |-> end]
       \/ StopEngine /\ StopLog
          /\ call' = [pc |-> "failed", bar |-> bar, path |-> path, end |-> end]
    /\ UNCHANGED <<options, viewer, files, mixed, blocked, alone, figure>>

SimulateStep == call.pc = "simulate" /\ engine.t < call.end /\ Advance

\* The end, the callback or the engine stop it, and the last point is logged.
SimulateStops ==
    /\ call.pc = "simulate"
    /\ StopEngine /\ StopLog
    /\ call' \in {[call EXCEPT !.pc = "done"], [call EXCEPT !.pc = "failed"]}
    /\ UNCHANGED <<options, viewer, files, mixed, blocked, alone, figure>>

\* An exception of Python goes through the engine, which goes on running.
SimulateRaises ==
    /\ call.pc = "simulate"
    /\ call' = [call EXCEPT !.pc = "failed"]
    /\ UNCHANGED <<engine, options, log, viewer, files, mixed, blocked, alone, figure>>

\* Variant: the bar is closed after a success only.
ReturnedIfDone(c) == IF c.pc = "done" THEN Idle ELSE [Idle EXCEPT !.bar = c.bar]

\* The bar is closed in any case.
Returned(c) == Idle

\* A log is written after a success only; a path of another format raises as None does nothing.
Written(c) == c.pc = "done" /\ c.path = "data"

WrittenLog == [lines |-> log.lines, end |-> engine.t, over |-> ~engine.running]

SimulateReturns ==
    /\ call.pc \in {"done", "failed"}
    /\ files' = IF Written(call)
                  THEN [files EXCEPT !.log = WrittenLog]
                  ELSE files
    /\ call' = Returned(call)
    /\ UNCHANGED <<engine, options, log, viewer, mixed, blocked, alone, figure>>

---------------------------------------------------------------------------
(* Rendering *)

\* "Note that the force vector must be converted to plain list to avoid copy": a viewer
\* that is made during a simulation is given a copy.
Sliced == 0    \* no buffer

IsViewerAvailable == viewer # None /\ viewer.open

\* The viewer after it was rendered in.
Available ==
    IF IsViewerAvailable THEN viewer
    ELSE [open |-> TRUE, made |-> engine.buffer, forces |-> Sliced]

Render ==
    /\ IsFree /\ viewer' = Available
    /\ UNCHANGED <<engine, options, log, call, files, mixed, blocked, alone, figure>>

\* The user closes the window at any time.
CloseWindow ==
    /\ IsViewerAvailable /\ viewer' = [viewer EXCEPT !.open = FALSE]
    /\ UNCHANGED <<engine, options, log, call, files, mixed, blocked, alone, figure>>

\* The fields of the robot are read by name.  Those that are not in the log are empty, which
\* raises if others are there.
CanBeExtracted == "position" \in log.recorded => (IsFlexible => log.flexible)

\* A replay, which blocks: the simulation it shows, and the forces that it writes in.
Playing(of, forces) == [pc |-> "replay", bar |-> FALSE, of |-> of, forces |-> forces]

\* The episode until now is replayed in the viewer, whose forces remain where they are.
Replay ==
    /\ log # None /\ log.lines > 0 /\ IsFree
    /\ IF CanBeExtracted
         THEN viewer' = Available /\ call' = Playing(log.of, Available.forces)
         ELSE UNCHANGED <<viewer, call>>
    /\ UNCHANGED <<engine, options, log, files, mixed, blocked, alone, figure>>

\* A log that was written is played in a viewer of its own, with the robot of the file: its
\* fields are those of the log.
PlayFile ==
    /\ files.log # None /\ IsFree
    /\ call' = Playing(None, Sliced)
    /\ UNCHANGED <<engine, options, log, viewer, files, mixed, blocked, alone, figure>>

ReplayReturns ==
    /\ call.pc = "replay" /\ call' = Idle
    /\ UNCHANGED <<engine, options, log, viewer, files, mixed, blocked, alone, figure>>

Close ==
    /\ IsFree /\ viewer' = None
    /\ IF isOpen THEN CloseFigure ELSE UNCHANGED figure
    /\ UNCHANGED <<engine, options, log, call, files, mixed, blocked, alone>>

---------------------------------------------------------------------------
(* Plotting *)

\* The names of the fields are those of the robot as it is: without those of flexible
\* joints, that the log may not have, unless they are asked for.
FieldsAreLogged(l, flexible) == TRUE

StatesOf(l) == IF FieldsAreLogged(l, IsFlexible) THEN l.recorded ELSE l.recorded \ StateGroups

\* A figure is made, and the previous one is not closed.
Plot(block) ==
    /\ IsFree /\ log # None /\ log.lines > 0
    /\ PlotLog(TabsOfLog(StatesOf(log), RobotHas))
    /\ blocked' = block
    /\ UNCHANGED <<engine, options, log, viewer, call, files, mixed, alone>>

\* What the user does in the window while plot waits.
UseFigure ==
    /\ blocked
    /\ FigureUser
    /\ blocked' = isOpen'
    /\ UNCHANGED <<engine, options, log, viewer, call, files, mixed, alone>>

\* A figure the program makes and changes by itself.  The simulator knows nothing of it,
\* bound: it is made first, and nothing else is done.
MakeFigure ==
    /\ IsFree /\ engine = AtRest /\ options = Uniform(Default) /\ viewer = None /\ files = NoFiles
    /\ OpenFigure /\ alone' = TRUE
    /\ UNCHANGED <<engine, options, log, viewer, call, files, mixed, blocked>>

ChangeFigure == alone /\ (FigureUser \/ FigureProgram) /\ UNCHANGED simVars

---------------------------------------------------------------------------
(* Options *)

\* During a simulation the telemetry and the engine refuse theirs, and nobody looks.
Accepted(config) ==
    [part \in Parts |-> IF engine.running /\ part \in {"telemetry", "engine"} THEN options[part]
                        ELSE config]

\* Bound: the model is not made again during a simulation.
SetOptions(config) ==
    /\ IsFree /\ engine.running => FlexibleOf[config] = IsFlexible
    /\ options' = Accepted(config) /\ mixed' = engine.running
    /\ UNCHANGED <<engine, log, viewer, call, files, blocked, alone, figure>>

ExportOptions ==
    /\ IsFree
    /\ files' = [files EXCEPT !.options = [parts |-> options, mixed |-> mixed, known |-> TRUE]]
    /\ UNCHANGED <<engine, options, log, viewer, call, mixed, blocked, alone, figure>>

\* The file is edited: a key that is not an option.
EditOptions ==
    /\ IsFree /\ files.options # None
    /\ files' = [files EXCEPT !.options.known = FALSE]
    /\ UNCHANGED <<engine, options, log, viewer, call, mixed, blocked, alone, figure>>

\* Variant: every part is set as it is read.
ImportedByPart(f) ==
    IF f.known THEN f.parts ELSE [options EXCEPT !["model"] = f.parts["model"]]

\* The file is merged with the options as a whole before any of them is set.
Imported(f) == IF f.known THEN f.parts ELSE options

\* Bound: between simulations, where an import does as SetOptions.
ImportOptions ==
    /\ IsFree /\ files.options # None /\ ~engine.running
    /\ options' = Imported(files.options)
    /\ mixed' = IF files.options.known THEN files.options.mixed ELSE mixed
    /\ UNCHANGED <<engine, log, viewer, call, files, blocked, alone, figure>>

SimulatorNext ==
    \/ Stop \/ Seed \/ Start \/ StartFails \/ Step
    \/ \E end \in 1 .. MaxTime, path \in {None, "data"}, bar \in BOOLEAN : Simulate(end, path, bar)
    \/ SimulateStep \/ SimulateStops \/ SimulateRaises \/ SimulateReturns
    \/ Render \/ CloseWindow \/ Replay \/ PlayFile \/ ReplayReturns \/ Close
    \/ UseFigure \/ MakeFigure \/ ChangeFigure \/ \E block \in BOOLEAN : Plot(block)
    \/ \E config \in Configs : SetOptions(config)
    \/ ExportOptions \/ EditOptions \/ ImportOptions

SimulatorSpec == SimulatorInit /\ [][SimulatorNext]_allVars

---------------------------------------------------------------------------
\* Whichever way a call of simulate ends, and whatever its arguments, its progress bar is
\* closed; it leaves a simulation running only if an exception of Python went through it;
\* and the log it wrote is that of a simulation that is over, up to its final point.
SimulateCleansUp ==
    /\ call.pc = "user" => ~call.bar
    /\ call.pc = "done" => ~engine.running
    /\ files.log # None => files.log.over /\ files.log.lines = files.log.end + 1

\* The forces displayed during a simulation are those of the engine, whatever was started,
\* failed, closed or replayed before, if the viewer was there when it was started.
ForcesAreShared ==
    (viewer # None /\ engine.running /\ engine.by = "start" /\ viewer.made < engine.buffer) =>
      viewer.forces = engine.buffer

\* A replay sets the forces its viewer displays to zero, then to those of each frame, in place:
\* if they are those of the engine, the next line that is logged may hold what it leaves.  Yet it
\* never leaves the forces of one simulation to another: the engine is then still at the simulation
\* that is replayed, whatever was started, failed to start or was closed since.
ReplayWritesItsOwn ==
    (call.pc = "replay" /\ call.forces # Sliced /\ call.forces = engine.buffer) =>
      call.of = engine.buffer

\* "Import the full configuration": the options of the model, the telemetry, the controller
\* and the engine are those of one configuration, whatever file was imported, unless they
\* were set during a simulation.
OptionsAreOfOneConfig == ~mixed => \E config \in Configs : options = Uniform(config)
=============================================================================
