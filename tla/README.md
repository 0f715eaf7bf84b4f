# TLA+ models and proofs of jiminy

jiminy is a simulator of poly-articulated robots: a C++ core that integrates their dynamics, and
Python packages around it (a simulator with viewers, gym environments and the training of
policies). This directory holds TLA+ models of its control logic, the TLC runs that check them, and
proofs checked by TLAPS. Numerical code (kinematics, Jacobians, contact forces) is abstracted to the
outcomes the control flow tells apart.

Paths of the C++ core are relative to `src/core/src` unless they say otherwise, those of Python to
`src/python`.

## 1. Inventory

### C++ core

| Component | Source | State | Operations |
|---|---|---|---|
| integration loop | `engine/EngineMultiRobot.cc` | `stepperState_` (time, suggested steps), breakpoint iterators, active impulses, held commands and force samples | `start`, `step`, `simulate`, `stop` |
| engine registers | same, `include/jiminy/core/engine/System.h` | systems, coupling forces, impulse forces with their breakpoints and flags, force profiles, update periods | `addSystem`, `removeSystem`, `register*`, `remove*`, `setOptions`, `reset` |
| engine lifecycle, robot locks | same, `robot/Robot.cc`, `utilities/Helpers.cc` | running and telemetry flags, guards on robots, the cached log | `start` and its failures, `stop`, `reset`, `setController`, `getLog` |
| single-robot engine | `engine/Engine.cc` | a system with an empty name | wrappers of the above |
| ODE steppers | `stepper/*.cc` | stage derivatives, candidate state | `tryStep` |
| sensor delay buffer | `include/jiminy/core/robot/AbstractSensor.tpp` | ring of times and samples, largest delay | `resetAll`, `setAll`, `measureDataAll` |
| robot hardware | `robot/Robot.cc`, `AbstractMotor.cc`, `AbstractSensor.cc` | motors and sensors, indices in shared holders | attach, detach, options, refused under the lock |
| robot model | `robot/Model.cc` | frames, collision bodies, contact points, constraint registers | add, remove, reset |
| constraints, their solver | `constraints/*.cc`, `solver/ConstraintSolvers.cc` | enabled flags, references, multipliers | attach, enable, projected Gauss-Seidel |
| controllers | `control/AbstractController.cc` | registered variables, telemetry flag | `initialize`, `reset`, `configureTelemetry` |
| telemetry data and senders | `telemetry/TelemetryData.cc`, `TelemetrySender.cc` | the registry, pointers into it | `registerVariable`, `updateValue`, `reset` |
| telemetry recorder | `telemetry/TelemetryRecorder.cc` | chunks, byte counters | `initialize`, `flushDataSnapshot`, `getLog`, `writeLog`, `reset` |
| IO devices | `io/*.cc` | buffer, cursor | `seek`, `read`, `write` |

### Python

| Component | Source | State | Operations |
|---|---|---|---|
| simulator | `jiminy_py/.../simulator.py` | one engine, its options, its viewer, its figure, the buffer of forces the viewer reads | `start`, `step`, `simulate`, `stop`, `render`, `replay`, `plot`, `set_options`, `import_options` |
| logs | `jiminy_py/.../log.py` | none: a robot and a trajectory from a log | `build_robot_from_log`, `extract_trajectory_from_log`, `update_sensors_data_from_log` |
| figures | `jiminy_py/.../plot.py` | tabs, the active one, its legend, its zooms | `add_tab`, `remove_tab`, `set_active_tab`, `clear`, `save_all_tabs`, clicks |
| viewers | `jiminy_py/.../viewer/viewer.py` | attributes of the class (backend, names, colors, travelling), and of every viewer | open, connect, close, refresh, display, cameras |
| scene of panda3d | `jiminy_py/.../viewer/panda3d/` | window, groups of nodes, selection, overlays | requests of the viewers, the mouse |
| replays | `jiminy_py/.../viewer/replay.py` | threads, the overlays they share | `play_trajectories`, `play_logs_data`, asynchronous jobs |
| meshcat | `jiminy_py/.../viewer/meshcat/` | pages of the server, acknowledgements; the process of the recorder | `ready`, capture and recording, watchdog |
| gym environments | `gym_jiminy/common/.../envs` | step counters, mode, what an episode draws | `reset`, `step`, `evaluate`, `play_interactive`, `train`, `eval` |
| pipelines, blocks, wrappers | `gym_jiminy/common/.../{bases,blocks,wrappers}`, `pipeline.py` | update ratios, held actions, targets, stacked frames | `reset`, `refresh_observation`, `compute_command` |
| curriculum | `gym_jiminy/toolbox/.../meta_envs.py`, `gym_jiminy/rllib/.../curriculum.py` | probabilities of a tree of tasks, windows of scores | `sample_task`, `on_episode_end`, `on_train_result` |
| training | `gym_jiminy/rllib/.../{utilities,ppo}.py` | callbacks of the workers, logs kept, checkpoints | `train`, `evaluate_algo`, `evaluate_from_checkpoint`, the loss |
| hardware files, dynamics, bindings | `jiminy_py/.../{robot,dynamics}.py`, `jiminy_pywrap` | none of their own | parsing, kinematics, glue |

### How they interact

`start` of the engine resets what has to be, gives its systems their first state, takes a guard on
the lock of each robot, and configures the telemetry: sensors, controllers and the engine are
senders that keep raw pointers into `TelemetryData`. `step` then alternates, up to the time asked
for: switch impulse forces, refresh force profiles and the command, log, let the ODE stepper try
steps up to the next breakpoint, and refresh the sensors. Each trial of the ODE stepper evaluates
the dynamics several times, at times that do not always grow, and the sensors with it when they are
continuous; `setAll` has to undo the samples of what is rejected. `stop` logs the final point,
clears the registry and releases the robots. Everything in the C++ core runs in the caller's thread:
what interleaves is the calls of several engines that share robots, and the calls a user makes
between two steps.

A `Simulator` owns one engine and hands the memory of its external forces to a viewer. All the
viewers of a Python process share one backend, a process of its own, through attributes of their
class; a replay gives each of them a thread. The server of meshcat is one more process, between
Python, the pages of browsers (websockets) and the cells of a notebook (comms through the kernel);
its recorder is yet another process, that drives a browser and shares two values with Python.
A gym environment steps a simulator and gives it its handles as controller and observer: the engine
calls the topmost layer of the pipeline, which calls down. `evaluate` and `play_interactive`
run episodes on behalf of the user, the keys of the latter coming from a thread. Training runs
environments in the workers of RLlib: the driver calls methods on all of them and gathers what those
that are alive answer in time.

### What is hard in this code

The hazards are listed at their lines in `PROJECT.json`. In the core: comparisons of times with
tolerances (two resolutions, 1e-10 s and 1e-6 s), breakpoints close to each other, calls that go on
after an error, an acceleration reused as first stage of the next step, a buffer rewritten by a
solver going back in time, registers that must stay in line with each other by name and by index,
locks and pointers that outlive what they were taken for, return codes that are dropped, and a byte
counter compared by equality. In Python: attributes of a class that name an object that is closed,
a window the user closes under threads that draw in it, interrupts that land anywhere in a
sequence of changes to undo, buffers shared by reference and made anew, replies that come after
their timeout, modes that are switched and given back, one flag of freshness for blocks of different
periods, and answers of several workers gathered by several calls.

What makes each part correct: the loop never integrates over a breakpoint and always returns; the
registers are consistent; a delayed measurement is taken from the samples around its time, none
from a rejected trial; a running engine holds its robots and nobody else does anything to them; what
is logged is exactly what was recorded, and is kept. The scene shows the viewers that are open and
nothing else, and a replay leaves it as it was; a request gets its own reply and always ends; a
figure shows its active tab; a replay leaves no forces to another simulation. Every block of a pipeline is up to
date at its own period; an episode has what was drawn for it and nothing of another; who runs
episodes on behalf of the user gives the environment back as it was; a curriculum never gives a task
up, and the logs kept are those of the episodes they are kept for.

## 2. Modules

| Module | Models | Properties in |
|---|---|---|
| `EngineStepper` | the integration loop | itself, `EngineStepperProofs` |
| `EngineForces` | the registers of an engine between and under simulations | itself, `EngineForcesProofs` |
| `SensorBuffer` | the delay buffer under the calls of the ODE steppers | itself, `EngineLifecycleProofs` |
| `TelemetryRecorder` | the chunks of the recorder over the memory device | itself, `SimulatorProofs` |
| `TelemetryLog` | abstract: a log is the sequence of the snapshots taken | refined by `TelemetryRecorder` |
| `EngineLifecycle` | engines that share robots: start, stop, reset, locks, senders | itself, `EngineLifecycleProofs` |
| `Panda3dApp` | what the process of a backend shows, as operators on a scene | `Viewer` |
| `Viewer` | the viewers, the attributes of their class and the process they share | itself, `ViewerProofs` |
| `ViewerReplay` | replays: the threads of the viewers, the caller, videos | itself, `ViewerProofs` |
| `AsyncReplay` | jobs that replay and record from threads | itself |
| `Meshcat` | the server of meshcat, its pages, and Python waiting for them | itself, `MeshcatProofs` |
| `MeshcatRecorder` | the process of the recorder and what Python asks of it | itself, `MeshcatProofs` |
| `TabbedFigure` | the figure of plots and its user | itself, `SimulatorProofs` |
| `Simulator` | a simulator with its engine, options, viewer, figure and files | itself, `SimulatorProofs` |
| `GymPipeline` | an environment and the blocks around it, from `reset` to the end of an episode | itself |
| `GymSession` | who runs the episodes: the user, an evaluation, an interaction | itself, `GymSessionProofs` |
| `TaskCurriculum` | a tree of tasks, its environments and its driver | itself |
| `PpoLoss` | what the terms of the loss read, as operators | itself |
| `PolicyTraining` | the loop of `train`, its evaluations and their workers | itself, `PolicyTrainingProofs` |
| `MC*` | instances for TLC | |

They compose by extension: `AsyncReplay` extends `ViewerReplay`, which extends `Viewer`, which
extends `Panda3dApp`; `MeshcatRecorder` extends `Meshcat`; `Simulator` extends `TabbedFigure`;
`GymSession` extends `GymPipeline`; `PolicyTraining` extends `TaskCurriculum` and
`PpoLoss`. Each extension adds its variables and conjoins what it leaves alone. Type
invariants (`TypeOK`, `SessionTypeOK`) are stated in the modules and can be added to any cfg; those of
`EngineStepper`, `EngineForces`, `TelemetryRecorder` and `EngineLifecycle` are proved.

Definitions that are named after a variant of another (`..Not..`, `..Early`, preceded by a comment
"Variant") are plausible mistakes in that definition. No specification uses them: replacing the
definition by its variant must break the property it is paired with, which shows that the property
depends on the code.

### EngineStepper

Time is an integer number of ticks. STEPPER_MIN_TIMESTEP lies between `StepperMin` and one more, so
that no duration is equal to it; SIMULATION_MIN_TIMESTEP is `SimMin`. `pc` marks the points between
which `step` is cut: head (breakpoints, `UpdateInputs`), plan (`PlanDiscrete`, `PlanContinuous`),
inner loop (`Prepare*`), trial (`TrySucceeds`, `TryFails`, `TryDiverges`), tail (`EndIteration`). The
state that is integrated is not modelled; the acceleration is kept as the inputs it was computed
from, which is enough to tell whether it is outdated. `step` is sequential: nothing but a user's next
call happens in between.

### EngineForces

One action per call, with its arguments and its early returns, and the return code it reports.
A system is its name; a profile its period; an impulse its window. `stepperUpdatePeriod` is
recomputed by the calls that do so in the code, system by system where the code does it.

### SensorBuffer

The samples are the times of the states they were made from. The nodes of the stepper (Dormand-Prince,
Runge-Kutta 4, Euler) are a parameter: a trial evaluates the dynamics at each of them. The bisection is
a recursive function. A measurement records between which samples it was interpolated.

### TelemetryRecorder and TelemetryLog

A chunk is its size, its cursor and its lines; bytes are counted as the code does. A line that only
partly fits would become `Cut`; one that does not fit is lost. `TelemetryLog` knows a register, `data`,
the log and the file last written. `LogIsSnapshots` states that the recorder implements it,
with `log` mapped to the concatenation of the lines of the chunks.

### EngineLifecycle

A robot has a lock flag; an engine holds guards, and destroying one lowers the flag. A sender (the
sensors of a robot, a controller) is a flag and the registry it points into, `<<e, n>>` for the n-th
registry of engine e, `stop` ending one and starting the next. `FailStart` has the three places where
start gives up after it has changed something: a contact force that is too large (before the
locks), a robot that is locked (after the previous ones were taken), an acceleration that is not a number
(after all were). The telemetry of controllers and motors is enabled.

### Panda3dApp and Viewer

A scene is a record: its process, window, groups of nodes by robot, the node that is picked and
those highlighted, overlays, and one marker by robot. `Viewer` threads the whole state through
operators (`Now`, `Become`), since a method of the code is a sequence of calls that each change the class, the
process or the object. A slot is what holds a viewer object: an object that is closed may be
replaced; one that counts as open may belong to a process that is no more. A process started counts
as a number, so that a new one is told from the last.

### ViewerReplay and AsyncReplay

A thread goes frame by frame through the points where another may run: before its first instruction,
before the clock, before the refresh, in its handler of exceptions, in the three parts of its end. One
that raises in its loop (`failed`) goes through the handler, which closes the backend. One that raises
outside of it (`dead`: the viewer is not open when the thread begins, or the process is no more when
it tidies up) closes nothing, and leaves the attributes of the class as they are. The caller joins the threads
one after the other, or renders the frames of a video. `Interrupt` is Ctrl-C, which asks the thread
that is waited for to exit; it may end the call it is in first. `UserCloses` may happen at any point.
A job of `AsyncReplay` holds the lock from its first call to its last; the caller is assumed not to replay
by itself meanwhile.

### Meshcat and MeshcatRecorder

A page has the `ready` requests it has to answer, and its messages to the server arrive in order.
Comms may vanish without a word, and are then purged by the watchdog or said to be closed by the
kernel. `WebsStay` keeps the websockets from opening and closing while a request is pending: see
`ReadyIsAnswered` below. The recorder shares `request` and `message` with its process: each write is
a step of its own, the timeout may elapse at any of them, and the process may die or hang in any of
its own.

### TabbedFigure and Simulator

A tab is an object with a number, whatever its name, since a name may be given twice. `reused`
records that a tab was added after the last one was removed, or under a name in use: from then on
`tab_active` may be one that is no more, and some calls raise. In `Simulator` the buffer of
external forces is a number that every start increases; `viewer.forces` is the buffer the viewer
reads, and writes: a replay puts the forces of each frame in that very buffer. A log has the number of
the simulation it is of. `simulate` is cut into its steps, as its callback may raise at each of them; a configuration is a
name, and the options are four parts that hold one each.

### GymPipeline and GymSession

Layer 0 is the environment and layer l its l-th wrapper; the kinds and update ratios of `Blocks` are
parameters. A buffer is what it was computed from: the time, and the action of the user. The engine calls the
topmost observer and controller handles at its update periods within `Iterate`; `EndStep` refreshes once more. The
target of a proportional-derivative controller is kept with its value, as its bounds are what
it is about. An episode draws disturbances, friction, delays and flexibility; what the registers hold
is the set of the episodes they come from. `GymSession` adds the mode, the runners and the queue of
keys, in which a thread puts them at any time.

### TaskCurriculum, PpoLoss and PolicyTraining

Probabilities are weights in multiples of 1/`Unit`, not divided by the sum over the siblings. `PpoLoss` names
tensors rather than computing them; what a configuration forwards, slices and reads is three separate
conditions in the code. The order of the mirror
matrices is a parameter (`MirrorFields`), which the code does not compare with that of the fields.
In `PolicyTraining` a log is known by the episode at the end of which it was written and the
environment it is of: the hook writes those of all the environments of a worker when an episode of one
of them ends. A worker has the hook and the paths its callbacks keep, and a round of an evaluation is
split from the collection of its logs, between which workers may die. `disturbed` records that hooks
were left by Ctrl-C or a failure, or that a worker was lost between a round and the collection; a
worker that dies at another time does not count.

## 3. Runs

`tlc -config X.cfg M`, where the cfg and the module of a run are in `PROJECT.json`. All hold.

| Run | Question |
|---|---|
| `stepper_discrete` | in discrete time, do impulses act in their windows only, is everything held for its period, is the acceleration ever outdated, does a step ever go past the end of its call? |
| `stepper_continuous` | without any period, where breakpoints are passed one per iteration: does every call return, and does a call that returns without an error reach its end? |
| `forces_registers` | do the registers stay in line with each other under every order of calls on three systems? |
| `sensor_rejections` | are delayed measurements interpolated between the right samples, none of them from a rejected trial, whatever the adaptive stepper rejects? |
| `recorder_chunks` | is the log the sequence of snapshots, with exact accounting, for lines that fit a chunk? |
| `lifecycle_shared` | two engines that lock the same two robots in opposite orders: is a simulated robot locked, by one engine, failed starts included? Is the log kept after a stop the whole log? |
| `viewer_calls` | two viewers, two kinds of backends, every order of calls, closed windows and failed constructions: does the class name open viewers only, does the scene hold theirs only, are markers shown as displayed, does any highlight remain? |
| `replay_live` | replays, videos and one asynchronous job, interrupted or not, the window being closed at any point: does an error close the backend, is the scene left as it was, does every robot have a viewer, does every call end? |
| `meshcat_recorder` | does every request get its own reply, through cells that vanish and a process that dies, hangs or answers late? |
| `simulator_session` | two simulations and two configurations: does `simulate` clean up, does the viewer read the forces of the engine, does a replay ever leave its forces to another simulation, are options imported as a whole, does the figure show its active tab? |
| `gym_session` | a pipeline of four blocks, stepped, evaluated, played, interrupted, with episodes that fail: is every block up to date, is an episode set up for itself, is the environment given back, and always? |
| `training_session` | a call of `train` with evaluations of three episodes: can every task be sampled, are the logs kept those of the best and worst episodes, does every term of the loss read its own batch? |

Further configurations, not among the runs of `PROJECT.json`. V: TLC finds the property
violated, which section 5 explains.

| Configuration | Module | Property | |
|---|---|---|---|
| `EngineForces_single.cfg` | `MCEngineForces` | `PeriodsAreMultiples`, `FrozenWhileRunning` with one system | holds |
| `EngineForces_periods.cfg` | `MCEngineForces` | `PeriodsAreMultiples` with two systems | V |
| `SensorBuffer_accepted.cfg` | `MCSensorBuffer` | `DelayedDataAvailable`, `TimesSorted` when no trial is rejected | holds |
| `SensorBuffer_unavailable.cfg` | `MCSensorBuffer` | `DelayedDataAvailable` with rejections | V |
| `EngineLifecycle_single.cfg` | `MCEngineLifecycle` | `SensorsAreLogged`, `LogIsKept`, `RobotUndisturbed`, `StoppedLogIsWhole` with one engine | holds |
| `Meshcat_webs.cfg` | `MCMeshcat` | `ReadyIsAnswered` with websockets that open and close at any time | V |
| `PolicyTraining_envs.cfg` | `MCPolicyTraining` | `PathsFollowEpisodes` with two environments per evaluation worker | V |
| `PolicyTraining_scores.cfg` | `MCPolicyTraining` | those of `training_session` with episodes of different scores, hence uneven weights (4 minutes) | holds |

### Bounds

- Stepper: 24 to 40 ticks with periods of 8 and 16, i.e. several periods of each kind and all the
  breakpoints of two impulse forces. They are off the grid and overlap. Breakpoints one tick
  apart are in the schedule of `AbortOnlyOnFailure` below. Step sizes include 0 (chosen by the engine), one
  that is refused and some that end near a breakpoint. `FailMax` is 2.
- Registers: three systems, up to two impulse forces (one with a window that is refused), one
  coupling; three systems are what it takes for an index to shift between those of a coupling. In
  `EngineForces_single.cfg` three profiles, whose periods include divisors, multiples and neither.
- Sensors: a tick is 1/360 of SIMULATION_MAX_TIMESTEP; the delays are a sixth of it, above half of
  it and above it, with and without jitter; the sensors are continuous or updated every 450 ticks.
  The steps are a quarter of the largest and the largest. The duration, 2.5 to 5 of the largest, is
  enough for samples to be dropped; `SensorBuffer_accepted.cfg` also lowers DELAY_MAX_BUFFER_EXCEED
  to 4, so that they are dropped in bunches too, and keeps the INIT_ITERATIONS of the code.
- Recorder: chunks of 10 bytes, four layouts (header smaller than a chunk with and without room for
  a line, equal to it, larger), and six snapshots: two to six chunks.
- Lifecycle: two engines, two robots, three controllers, two simulations each; four simulations with
  one engine. Log lengths are bounded since only the comparison of two logs matters.
- Viewers: two slots with robots of their own (exchanging both is a symmetry), both kinds of
  backends, two processes in a lifetime: one to leave objects behind, one that they do not belong to.
- Replays: two viewers, two frames, one Ctrl-C, one job, two processes. Two frames are enough for a
  thread to meet at each of its points whatever the other or the user did during its previous one.
  The requests (`Live`) cover one and two trajectories, viewers that are given or made, every
  overlay, hooks that raise, and a video.
- Meshcat: two websockets (the browser of a recorder that is started again), one cell, two `ready`
  requests and two calls of the recorder: the second may meet what the first left behind.
- Simulator: two simulations of up to two steps, one configuration that records the sensors and one
  with a flexible model, three tabs. A figure the program uses by itself is only explored from the
  initial state, since the simulator knows nothing of it.
- Gym: two episodes of two steps of three control periods and one beyond, a PD controller, an
  observer of ratio 2, a controller of ratio 2 and a stack that skips one frame: the period of the
  step is not a multiple of those of all the blocks. One action, beyond the bounds of the speed;
  initial positions in and out of bounds; two keys waiting at most.
- Training: a tree of two levels, one worker with two environments, two remote evaluation workers or
  none, of one environment each (`EvaluationEnvs`, to which `KeptLogsAreTheirs` is restricted), three episodes an evaluation, hence two rounds, one worker that dies, two iterations.
  Every episode has the same score in the run; `PolicyTraining_scores.cfg` has two scores. With windows
  this short, what `CurriculumIsSound` says of the windows of the children of a node hardly has a case: it
  rests on its theorem. That a softmin is not zero is a bound on `Scores` and `Unit`, not a result.

Deadlock is checked in the runs of the core, of the viewers, of the replays and of the gym. It is not in
`meshcat_recorder`, `simulator_session` and `training_session`: there every call is counted, and
once the calls are used up nothing is left to do.

### Fairness

- `EngineStepper`: weak fairness on `Run`, the steps of the call under way: sequential code that
  nothing can suspend. Nothing is assumed of the user, who may never call again, nor of the ODE
  stepper, which may fail or succeed at each trial.
- `ViewerReplay`: weak fairness of the caller in its own call (`Main`) and of each thread
  (`Run(v)`): the operating system schedules them. None on Ctrl-C, on the window or on the next call.
- `MeshcatRecorder`: weak fairness of Python in its call, of the watchdog (a timer), of the handling
  of what is received and of the answers of a page that is open. None of the process of the
  recorder, which may hang: it is the timeout of Python that ends a request. None of the pages
  opening, closing or saying they are alive.
- `GymSession`: weak fairness of the engine under a step and of the loops of `evaluate` and
  `play_interactive`; none of the user, of the keyboard or of an interrupt.

## 4. Proofs

All are checked by `tlapm` for every value of the constants that satisfies the named assumptions of
the modules, with no bound on the number of robots, engines, systems, impulses, lines, episodes, pages,
requests, tabs or on time. The invariants below are those of the induction; TLC checked them on the
runs of the same modules first.

**EngineStepperProofs.**
- In any mode and without further assumption: `TypeCorrect`; `AccelerationIsFresh` (`FreshInv`: an
  outdated acceleration is about to be computed again, by this call or, if an error cuts it, by the
  head of the next one, since the time has not changed); `UpdatesHeld`; `ReturnsOnTime`; `StaysInCall`;
  `StepsAreBounded` (`BoundedInv`: only an aborted call leaves a stretched step behind).
- `UpdatesHeld` rests on `UpdatesInv`: what was updated last covers the time up to the next update of
  each period (`CoveredUpTo`), wherever the loop is. It needs that every period is a multiple of the
  shortest (`GcdAssumption`, what `isGcdIncluded` accepts), the lemmas on `NextUpdate` (remainders
  by one period of multiples of another), and that a call that was cut is remembered as such
  (`AbortsRemembered`). `ReturnInv` adds what holds when a call is about to return.
- `ImpulseWindows`, `TimeMovesForward` and `AbortsNeedAFailure` assume `IsDiscrete \/ BreaksApart`: in
  continuous time, that no two breakpoints of a system are within twice STEPPER_MIN_TIMESTEP. Without
  it they fail, see `AbortOnlyOnFailure` below. In discrete time the windows do not follow from the
  state of a trial alone: `WindowInv` adds that every breakpoint the iterators have passed is reached
  (`PastReached`), that the active set is exact between its update and the planning of the next
  breakpoint (`ActiveUpToDate`), and that nothing starts or ends before the planned one
  (`ActiveUpToNext`). In continuous time `ContinuousInv` says instead that the iterators stand on
  breakpoints that lie ahead, and `LongEnough` that as long as no attempt failed dt is longer than the
  smallest step.

**EngineForcesProofs.** `RegistersTypes`, `CouplingsFollow` and `ImpulsesKeepBreaks` for any sequence of
systems added and removed, of forces registered, refused and removed: `RegistersInv` says that the data
are one per system, that the indices of a coupling are those of its systems (`Follows`), that each system
has the breakpoints of its impulses, and that the period of the breakpoints is one that the search
may give. `RunningIsFrozen` is an action property of it. `SingleSystemPeriods`: with one
system at most, the period of the breakpoints divides every other (`PeriodsInv`, checked on
`EngineForces_single`); with two it does not (`PeriodsAreMultiples` below).

**EngineLifecycleProofs.** `LifecycleTypes`; `RunningEnginesHoldLocks` and `GuardsOfOneEngine`, for any
number of engines sharing robots in any order: `LocksInv` is their conjunction, which is inductive since
an attempt to start only takes robots that nobody has locked (`TakenAreFree`) and stop releases its
own. `StoppedLogs`. And, assuming that no robot is shared (`EnginesApart`), `SensorsOfEnginesApart`
and `EnginesApartUndisturbed`: `SensorsInv` adds that once the telemetry of an engine is not configured
its sensors are not either, without which `start` would skip them. Without the assumption both fail,
see below.

The same module holds the proofs about the sensors an engine starts, of `SensorBuffer`, for any steps,
delays, kinds of sensors and explicit steppers: `TimesAreSorted`, on which the bisection of
`interpolateData` relies, and `RejectedSamplesGone`. The invariant `BufferInv` is that the times are
sorted (`AreSorted`) and what a trial leaves (`TrialInv`): before the first evaluation of a trial,
what a rejected one left after the accepted time is beyond that evaluation, which drops it; from then on
the samples after the accepted time are of the trial, one per stage at most. The hypothesis on steppers,
in `StepperAssumption`, is that the first evaluation of a trial is its earliest, as in those of the code.

**GymSessionProofs.** For every pipeline, whatever its blocks. `ModeOfTheUser`: `ModeInv` says whose mode it
is in each state of a runner, evaluations and interactions having saved what they give back, and
that a runner that ended by an exception is remembered. `SetUpIsOfEpisode`: `SetUpInv` says that
the registered disturbances are of past episodes outside of a simulation, all of them being
removed before those of the next are registered, that a failed reset leaves those of its own, and
what the options hold, number by number of episodes. `PolicyForgets`: `MemoryInv` says that once an
episode has given a reward, or while its first step is under way, the policy was called in it.
`PipelineIsOnSchedule` is of the blocks: each is computed at the breakpoints of its period only, and what
is derived from one of them then is of this very time. It assumes that the control period divides the
step of the environment; the code asserts no more than that it is not longer
(`block_bases.py:168` and `:233`), and without it the breakpoint after the end of a step reads an
observation of the step before. `PipeInv` follows the recursive definitions of the pipeline block by
block (`Induction`): which buffers are of the present time and which of their previous breakpoint, in
the order in which a step refreshes them, and of which action each command stems.

**MeshcatProofs.** For any number of notebook pages, browser pages, requests and calls.
- `RecorderRefinesMesh`: a step of the recorder, of its process or of the watchdog is a step of the
  protocol of `Meshcat`, or leaves it alone. What is proved of the protocol then holds with a recorder.
- `MeshOneReply` and `RecorderReplies`, from `MeshInv`: whose turn it is, what is still on the wire and
  what has been counted add up to the number of pages asked, page by page for the comms, in number for
  the websockets; the reply that Python read is kept in the caller. `RecorderReplies` assumes
  `WebsStay`, that no websocket opens or closes while a request is under way; without it the server
  counts wrongly, which `Meshcat_webs.cfg` exhibits (section 5).
- `RecorderResults`, from `RecorderInv`: in the shared memory, what is written and what the process
  still has to do are of the call under way, and nothing of an abandoned process is left there when
  the next one is opened.

**SimulatorProofs.** For any configurations, length of a simulation, names and groups of tabs.
The second part is about the recorder, that writes the log a simulator reads.
- `CleansUp`: `LogInv` has one line per step and the last one missing while the engine runs, `CallInv`
  what each point of `simulate` has, `FilesInv` that what was written is whole.
- `SharesForces` (`ViewerInv`), `OneConfig` (`OptionsInv`, also of the options that were exported).
- `WritesItsOwn`, from `SharedInv`: a viewer knows no buffer that is not made yet, and if it knows that of
  the engine, the log there is, if any, is of this very simulation. A start that fails is what makes it
  hard: the engine has a new buffer while the log is still that of the simulation before; the viewer is not
  told, and keeps the old one.
- `ShowsActive`: the titles, numbers and views of the figure; `ShownInv` says that the views that were
  set are in the toolbar for the active tab and saved for the others (`KeepsViews`), or everywhere if
  the tabs are synchronized, and that each tab has its number. Removing a tab is the hard case: it
  moves the numbers, the active tab or both.
- `RecorderTypes`, `LinesAreWhole` and `AccountingIsExact`, of `TelemetryRecorder`, for every size of the
  chunks, of the header and of a line. `Accounting` is that the room left in the current chunk is a
  whole number of lines (none if a line is larger than a chunk), that the limit is its size and the
  counter its cursor. The arithmetic of the limit (`LimitIsHeaderAndLines`) and of one more line
  (`RoomForOneMore`) are lemmas.
- `RecorderImplementsLog`: if a line of each layout fits a chunk, every step of the recorder is a step of
  `TelemetryLog` or a stutter, its log being what is read through the chunks. Reading is a fold over them
  (`FlattenSeq`): `FlattenLast` is what the last chunk contributes, `FlattenAppend` that a line appended
  to it is appended to the log, and `GetLog` restores every cursor. Without the hypothesis a line is
  lost, see `LogIsSnapshots` below.

**ViewerProofs.** For any number of viewers, of processes and of kinds of backends.
- `FollowsOpen`, `LitIsPicked`, and, for robots with different names (`NamesDiffer`), `ScenesOfOpenViewers`
  and `MarkersDisplayed`. `InvOf` and `NamedInv` are stated of a record that holds the class, the scene and
  the objects, and each call of a viewer keeps them, the constructor being a chain of five such calls
  (`ConstructedInv`) and a call that raises half-way one that stops there. `ProcessInv` is what
  makes the objects of a process that is no more harmless: none is of a later process than the
  last. For the markers, `MarkerOf` relates the status of a node, its visibility and the choice of the
  object, also when the refresh is outdated. Two robots of the same name would share a color
  and a marker.
- `FailuresCloseBackend` is of the replays, any number of threads and jobs. It is of threads that fail in
  their loop and of those that die outside of it. `FailureInv` adds the places of the threads
  (`CallInv`) and `LaunchedInv`: as long as a call is under way, the viewers of its threads reach the
  process or there is none, since no other call starts one meanwhile. A thread that raises before its
  first frame or after its last therefore finds no process, unless it is the caller that ended it.
- `RobotsAreOwned` is of the same system, for requests over any list of viewers (`AllRequests`), and
  holds even if two robots have the same name. `Owned` is stronger than `RobotsHaveViewers`: each group
  of the scene is of a viewer that is *open in the process of the class*, and the viewers of replays
  delete their robot. Without the former a viewer that is closed for good could have been the only
  one left of a robot of another process; with it, closing one removes exactly what it owned
  (`ClosedViewerOwned`), and a slot that owns nothing may be emptied (`EmptiedOwned`). A call that raises
  is the hard case: its new viewers are taken back from a state some turns into the loop over the
  viewers (`DroppedOwned`, `RaisesOwned`). The three loops are recursive functions over the list of viewers:
  `MadeReadyDef`, `AllDisplayedDef` and `AllClosedDef` are their equations, and `Induction` is induction over
  the naturals by a set, which follows from the cardinality of what would be missing.

**PolicyTrainingProofs.** For any workers, environments, numbers of episodes and iterations.
- `KeptLogsOfEpisodes`, for one environment per evaluation worker (`OneEnv`: a worker then has one log at a
  time), until hooks are left or a worker dies between a round and its logs. `KeptInv`: the hooks are on
  exactly the workers of the evaluation while it lasts (`HooksAreOn`), the logs gathered so far are
  of the episodes of the same numbers (`LogsMatch`), and between a round and the gathering of
  its logs each selected worker holds the log of the one episode it did in it (`RoundsMatch`). That
  the two calls pair the same workers needs that both take them by their identifiers, the selected
  ones being the first (`SelectedAre`), and that these may be put in order at all
  (`EnumerationExists`: the last element of a finite set for a total order is put behind the others).
- `LossesReadTheirs`, for any set of regularisations, number of steps of the adversary and fields of
  an observation. A configuration is a set of names, so what is forwarded and what is read are
  compared by cases on the names (`BatchesAreMeans`, `LossReads`). The noise stays in its box step by
  step (`Clipped` is all a step ends with), and, for matrices that follow the fields
  (`MatricesFollowFields`), the slices are disjoint and cover the observation since each begins where
  the sum of the fields before ends (`MirroredSound`).
- `CurriculumStaysSound`, for any tree of tasks, any scores and whatever episodes end and workers are
  replaced. `CurriculumInv`: the trees of the environments have all the nodes with positive weights;
  an episode and a result hold, for every task, scores of this task; the windows of the driver
  are all there or none is, each of scores of tasks below its node (`WindowsInv`). The hard part is
  that a window that is not full holds as many scores as those of its children together: what a
  result adds to a node is the sum over the tasks below it, in the order of the result
  (`FlattenTasks`), which the children share out (`ChildrenShare`, `SumOfParts`), and a child cannot
  be full before its parent (`UpdatedKept`). The weights are positive since the mean score of a
  window is below the score a softmin of zero would take, and since `Unit` is large enough to be divided by the
  length of a window and by the number of siblings (`SoftminIsPositive`, `ProbasArePositive`).

### Only model-checked

- Liveness (`StepReturns`, `ReplayEnds`, `ReadyIsAnswered`, `RequestEnds`, `RunnersReturn`): out of
  reach of the prover.
- `MeasurementsBracket` is not true of every instance, only of those with bounds such as the run's: a
  stepper that has no first-same-as-last stage samples a new state at a time that was sampled before; enough
  rejections at the start drop the initial samples, so that an early delayed measurement is of
  a state that is not the initial one; and with jitter a sensor without delay interpolates as well.
- `LeavesNoTrace` is not true of every instance: it counts on trajectories whose forces have no more
  samples than they have frames, and on viewers with different names.

## 5. Disagreements

### In the C++ core

What the code says of itself and does not do, met while modelling it. Each is a property of a module
that TLC finds violated, with the cfg named here once its properties are replaced by this one (and its
constants changed where it is said); the first two have a cfg of their own.

- **`PeriodsAreMultiples`** (`EngineForces_periods.cfg`), `engine/EngineMultiRobot.cc:2686`.
  registerForceProfile refuses a profile unless "the update period of force profiles and the stepper
  update period (min of controller and sensor update periods) must be multiple of each other"
  (EngineMultiRobot.cc:2598). removeForcesProfile(systemName) recomputes the period from the
  shortest of each system and ignores whether the others are multiples of it, which isGcdIncluded
  tells: with the controller at 4 and profiles at 2 and 6 in two systems, removing the profile at 2
  leaves breakpoints every 4, between which the profile at 6 is due.
- **`DelayedDataAvailable`** (`SensorBuffer_unavailable.cfg`), `include/robot/AbstractSensor.tpp:450`.
  setAll announces "Make sure at least the requested delay plus the maximum time step is available
  to handle the case where the solver goes back in time." (AbstractSensor.tpp:442), but drops the
  oldest sample as soon as that one is older, whether or not the next is old enough, and after a
  step back in time keeps what a trial that was rejected dropped. With a delay of a little
  more than half the largest step, a delayed measurement has no sample to be interpolated from: it is refused, the error is
  dropped by Robot::setSensorsData (robot/Robot.cc:1238), and the sensors keep their previous
  measurement.
- **`AbortOnlyOnFailure`** (`EngineStepper_continuous.cfg` with `ImpulseSystem`, `ImpulseTime` and
  `ImpulseDuration` from `TightSystem`, `TightTime` and `TightDuration`, `MaximumLogTime = 40`,
  `StepSizes = {0, 5, 6}`), `engine/EngineMultiRobot.cc:2287`. In continuous time, dt is the time
  left to the next impulse breakpoint, and one breakpoint is passed per iteration. When two
  breakpoints are closer than STEPPER_MIN_TIMESTEP (an impulse at 0.3 and one at 0.1 lasting 0.2,
  whose end is 0.30000000000000004) and a call ends on the second, the next call tries a step of
  zero, gets zero back as the suggested step and aborts with an error although the ODE stepper never
  failed. The loop claims the opposite at EngineMultiRobot.cc:1954, "Perform the integration. Do not
  simulate extremely small time steps.", and the error it raises blames the physics,
  EngineMultiRobot.cc:2379. Without such breakpoints, and in discrete time, `AbortsNeedAFailure` proves
  the claim.
- **`SensorsUpdatedInAnticipation`** (`EngineStepper_discrete.cfg`),
  `engine/EngineMultiRobot.cc:2104`. When the next update is less than SIMULATION_MIN_TIMESTEP
  ahead, the loop jumps to the one after, because "in this case, the sensors have already been
  updated in anticipation in previous loop" (EngineMultiRobot.cc:2103). After a call that failed
  (divergence, too many failures, timeout) in that window no loop has updated them: the next call,
  which the engine accepts, integrates over a whole sensor period with outdated sensors.
- **`EndpointLogged`** (`EngineStepper_discrete.cfg`), `engine/EngineMultiRobot.cc:2066`. The
  documentation of step says that it performs a single integration step "in the sense that only the
  endpoint is added to the log" (EngineMultiRobot.h:446). The code adds a line at the head of its
  iterations that are due, hence the start of the call and every update period in between, and not
  its endpoint, which the next call or stop logs.
- **`OptionsAreBreakpoints`** (`EngineForces_periods.cfg` with `Periods = {0, 4, 8, 12}`),
  `engine/EngineMultiRobot.cc:2686`. The same rule ("multiple of each other",
  EngineMultiRobot.cc:2598) fails for the controller: with the controller at 12, profiles at 4 and 8
  in two systems, removing the one at 4 leaves the loop with breakpoints every 8, and the updates of
  the controller at 12 fall in the middle of a step.
- **`DiscreteProfileAccepted`** (`EngineForces_single.cfg`), `include/utilities/Helpers.tpp:89`. A
  force profile "can be either time-continuous or discrete" (EngineMultiRobot.h:481). With
  continuous controller and sensors stepperUpdatePeriod_ is infinite, isGcdIncluded compares it with
  the new period by fmod(INF, period), which is not a number, and registerForceProfile refuses every
  discrete profile. For the same reason setOptions refuses to make the controller and the sensors
  continuous once a discrete profile is registered (EngineMultiRobot.cc:2808).
- **`CouplingFrozenWhileRunning`** (`EngineForces_registers.cfg`), `engine/EngineMultiRobot.cc:716`.
  removeForcesCoupling() prints "A simulation is already running. Stop it before removing coupling
  forces." (EngineMultiRobot.cc:712), sets the error code and clears the register all the same,
  under the running simulation.
- **`RefusalReported`** (`EngineForces_registers.cfg`), `engine/EngineMultiRobot.cc:2519`.
  registerForceImpulse refuses a force, "A simulation is running. Please stop it before registering
  new forces." (EngineMultiRobot.cc:2475) for one, with an error in returnCode, and returns
  hresult_t::SUCCESS.
- **`BreaksAreOfForces`** (`EngineForces_registers.cfg`), `engine/EngineMultiRobot.cc:2639`.
  forcesImpulseBreaks is the "Ordered list (without repetitions) of the start and end time
  associated with the forces" (System.h:142). removeForcesImpulse clears the forces and leaves their
  breakpoints, at which the integration keeps stopping.
- **`SystemNamesUnique`** (`EngineForces_registers.cfg`), `engine/EngineMultiRobot.cc:93`. The
  addSystem that takes no controller refuses a name that is taken, "A system with this name has
  already been added to the engine." (EngineMultiRobot.cc:187); the one that takes a controller
  checks nothing, and start can then never be given one initial state per system.
- **`DelayedDataAvailable`** (`SensorBuffer_accepted.cfg` with `Steppers <- OnlyRungeKutta4`),
  `include/robot/AbstractSensor.tpp:450`. "Make sure at least the requested delay plus the maximum
  time step is available" (AbstractSensor.tpp:442) also fails without any rejection: the fixed-step
  Runge-Kutta stepper goes back to the start of every step
  (stepper/AbstractRungeKuttaStepper.cc:71), each time dropping a sample for good and putting none
  back, and with steps of the largest size the buffer is soon too short for any delay.
- **`SamplesAreTimely`** (`SensorBuffer_accepted.cfg`), `stepper/AbstractRungeKuttaStepper.cc:71`.
  "Update state and compute derivative if success" (stepper/AbstractRungeKuttaStepper.cc:61): the
  state is the one at the end of the step, t + dt, and the derivative is computed as f(t, state), at
  the time of its start. With continuous sensors the sample of time t is replaced by one of the
  state at t + dt; so do time-dependent forces and controllers see the wrong time.
- **`LastValueShown`** (`SensorBuffer_rejections.cfg`), `include/robot/AbstractSensor.tpp:469`. A
  new sample starts as a copy of the last one, which "is important for `data()` to always provide
  the last true value" (AbstractSensor.tpp:480). Once the buffer is full the other branch rotates it
  instead, and data() shows the oldest sample: the continuity of the quaternion of the IMUs is then
  chosen with respect to it.
- **`AcceptedTimeKept`** (`SensorBuffer_rejections.cfg` with `SimMax = 720`, `Steps = {90, 180, 360,
  720}`), `include/robot/AbstractSensor.tpp:494`. When the solver goes back in time, "Remove the
  extra last elements" (AbstractSensor.tpp:490) is done by removing the samples after the new time,
  then giving that time to the last one left: if no sample of exactly that time exists, the last
  accepted state is overwritten by the one of a later stage.
- **`LogIsSnapshots`** (`TelemetryRecorder_chunks.cfg` with `MinBufferSize = 5`),
  `telemetry/TelemetryRecorder.cc:129`. flushDataSnapshot is documented as "Create a new line in the
  record with the current telemetry data." (TelemetryRecorder.h:57). The limit of a chunk is a whole
  number of lines of TELEMETRY_MIN_BUFFER_SIZE bytes at least, hence zero when a line is larger:
  every call then creates one more empty chunk, writes nothing and returns SUCCESS, and the log is
  empty.
- **`LockedOnlyWhileRunning`** (`EngineLifecycle_shared.cfg` or `_single.cfg`),
  `engine/EngineMultiRobot.cc:1577`. start locks the robots, then may return an error (a second
  robot that is locked, an acceleration that is not a number) without releasing them. They refuse
  every change, "Robot is locked, probably because a simulation is running. Please stop it before
  adding motors." (robot/Robot.cc:153), although none is running; every further start is refused
  too, by getLock, until stop() is called, and reset(), which calls it only while a simulation runs,
  does not help.
- **`SensorsDoNotDangle`** (`EngineLifecycle_shared.cfg`), `engine/EngineMultiRobot.cc:1258`. start
  is to "Call reset if the internal state of the engine is not clean." (EngineMultiRobot.cc:1252)
  but looks at its own flag only. The sensors of a robot that another engine simulated before are
  still configured, hence skipped by configureTelemetry (robot/AbstractSensor.cc:36): during the
  simulation they write through pointers into the telemetry data of the other engine, which its stop
  has cleared, and are missing from the log.
- **`RobotUndisturbed`** (`EngineLifecycle_shared.cfg`), `engine/EngineMultiRobot.cc:973`. Of a
  robot that is locked by start "it is no longer possible to change the robot anymore"
  (EngineMultiRobot.cc:1496). The reset of another engine that has the same robot, or the one its
  start makes before it finds the robot locked, resets its sensors and their telemetry in the middle
  of the simulation.
- **`GravityIsOwn`** (`EngineLifecycle_shared.cfg`), `engine/EngineMultiRobot.cc:1269`. "Lock the
  robot. At this point it is no longer possible to change the robot anymore."
  (EngineMultiRobot.cc:1496). An engine that starts with a robot that another engine is simulating
  writes its own gravity into the model of the robot before it tries the lock; its start fails, and
  the simulation of the other goes on with that gravity.
- **`ControllersAreLogged`** (`EngineLifecycle_single.cfg`), `control/AbstractController.cc:136`.
  Resetting the engine manually and altering a system before the next start is supported, "It gives
  the opportunity to customize the system by resetting first the engine manually"
  (EngineMultiRobot.cc:1254). A controller replaced after a stop is not reset with the engine; set
  again after the reset, it is still configured, configureTelemetry skips it, and its variables are
  written through pointers into a registry that was cleared.
- **`KeptLogIsCurrent`** (`EngineLifecycle_single.cfg`), `engine/EngineMultiRobot.cc:4069`. The
  recorder is cleared at init time, "so that it remains accessible until the next initialization"
  (EngineMultiRobot.cc:2454), but the copy that getLog keeps is dropped by step, stop and reset
  only: after a failed start cleared the flag, or a manual reset, a log read before start is still
  what getLog returns once the simulation has started, although the recorder was initialised for the
  new one.
- **`VariablesAfterStop`** (`EngineLifecycle_single.cfg`), `control/AbstractController.cc:185`. The
  documentation of stop says that it releases the telemetry "so that it is possible again to update
  the robot (for example to update the options, add or remove sensors...) and to register new
  variables or forces" (EngineMultiRobot.h:457). A controller refuses new variables until it is
  reset, which stop does not do.

### In the Python packages

What the models follow the code in, where a comment, a docstring or the evident purpose says otherwise.
`Meshcat_webs.cfg` exhibits the first and `PolicyTraining_envs.cfg` one of the last; the others were met while translating and are part
of the models: the properties are stated so that they do not rest on them.

Meshcat (`jiminy_py/src/jiminy_py/viewer/meshcat`):
- "New opening/closing connection while awaiting for 'ready' acknowledgement is handled by the
  server" (wrapper.py:394). It is for the comms: a websocket that opens or closes meanwhile changes the
  number of pages without anyone counting again, and the request is never answered.
- Attributes looked up by `hasattr(self, "__shm")` and the like (recorder.py:275, wrapper.py:352) have
  mangled names and are never found: the requests "quit" and "stop" are never sent, the browser is not
  killed, the manager not shut down. `release` also leaves `is_recording`.

Viewers (`viewer/viewer.py` and `viewer/panda3d`):
- "Robot names must be unique" (viewer.py:537): connecting the first viewer to its backend closes
  everything, its own name included, and a second viewer of the same name is accepted. Conversely
  a construction that fails, or the window being closed, leaves names registered.
- `close` of the viewer that "is the one having started the backend server, it also terminates it"
  (viewer.py:1051): it does not. With `delete_robot_on_close`, it raises before it marks the
  viewer as closed if the process is no more.
- `is_open` does not look at the process a viewer belongs to; a set up through such an object deletes the
  robot of the same name of the current process.
- `picked_object` is kept when its group is removed or loaded again: the next click raises in the
  first case (panda3d_visualizer.py:698) and only unpicks in the second.
- A motion of the camera has no effect while it travels with a locked pose (viewer.py:2333).

Replays (`viewer/replay.py`):
- Of the viewers that are given, only the first that is closed is replaced (replay.py:229).
- "Add frames to video sequentially" (replay.py:538): the loop over the external forces of a viewer
  reuses the index of the frame, and the next viewers are displayed at another (replay.py:553).
- The lock of the asynchronous jobs is "to force waiting for the current evaluation to finish"
  (replay.py:849), but the replays of the caller do not take it.
- Ctrl-C skips what the thread was to restore, such as the display of contact forces.

Simulator, logs and figures (`simulator.py`, `log.py`, `plot.py`):
- The forces "must be converted to pain list to avoid copy" (simulator.py:380): `render` does
  not (:522), nor does `simulate` share the new buffer, so the viewer displays forces of another time.
- A replay writes the forces of its frames in those of its viewer (viewer.py:2522, replay.py:416, :553).
  When they are those of the engine, one made during a simulation leaves the forces of its last frame in
  the buffer that `stop` logs as it is (EngineMultiRobot.cc:2431). `ReplayWritesItsOwn` is that they are at
  least of the same simulation.
- The references a viewer keeps dangle once the buffer is made anew without telling it: after `simulate`, or
  after a `start` that fails (System.cc:138). It then reads and writes memory that was freed; in
  `Simulator` a buffer that is no more is a number below the last one, which no property reads.
- A Python exception in a callback goes through `engine.simulate`, whose `stop` is then skipped:
  the simulation goes on and the robot stays locked.
- `set_options` during a simulation sets the options of the model and of the controller, while the
  telemetry and the engine refuse theirs without an exception.
- Outside of a log, the hook of the sensors is to "clip to desired time to the available data range"
  (log.py:298): the sensors are left as they are.
- `tab_active` is kept after the last tab is removed or its name is given again (plot.py:381); from
  then on some calls raise. `save_tab` names a PDF file '.png' (plot.py:458).

Environments (`gym_jiminy/common`):
- "the observation of the environment has been refreshed automatically prior to calling this method"
  (generic_bases.py:117) holds if the step is a multiple of the period of the controller. If not, the
  refresh at the end of a step keeps the next handle from making its own.
- An episode is truncated "if the maximum number of steps will be exceeded next step"
  (env_generic.py:838), counted before the step under way: it lasts one more.
- `evaluate` and `play_interactive` of a pipeline are those of the bare environment: the blocks are
  bypassed. An exception that goes through them leaves the environment in eval mode or interactive.
- The noise of the flexibility is added to the options of the episode before
  (env_locomotion.py:284), unlike the others: it accumulates, and a reset with the same
  seed does not give the same robot. `reset` returns the info of the episode before.
- A Mahony filter that is not compiled yet goes on to a first iteration when it is initialised
  (mahony_filter.py:216).

Training (`gym_jiminy/rllib`):
- Without remote workers `evaluate_algo` installs the hook and `evaluate_local_worker` toggles it off
  again: the evaluation raises. An evaluation that is interrupted or fails
  leaves hooks that the next one removes instead of installing.
- The hook writes the logs of all the environments of a worker (utilities.py:784), `evaluate_algo` chains
  them (utilities.py:1024) and looks for those of the best and worst episodes at the positions of their rewards,
  of which there is one per worker. With more than one environment per evaluation worker, which the
  evaluation inherits from the training unless `evaluation_config` says otherwise, the logs that are kept are those of
  other episodes, some not over (`PolicyTraining_envs.cfg`); and `evaluate_local_worker`, which unpacks
  exactly one path (utilities.py:880), raises and leaves its hook.
- The fields of an observation are mirrored in the order of `mirror_mat` (ppo.py:177), which nothing compares
  with that of the flattened observation: in another order, or with a field missing, the slices are of
  other fields.
- A round cut by its timeout may leave no episode at all, and the best of none raises; with a single
  episode and a duration of more, the same file is moved twice. A worker that dies between the
  samples and the paths of a round shifts the logs against the rewards.
- `max_iters` allows one iteration more (utilities.py:492).
- `on_episode_end` also adds the scores of the sub-environments whose episode goes on, and the
  probabilities of the tasks are 0/0 once the exponentials of all siblings underflow.

## 6. Not modelled, and the plan

Not modelled: kinematics, dynamics, contact forces, Lie algebra, JSON and URDF, the generation of hardware
descriptions (numerical or parsing code without control state), the bindings (no state),
the backend `panda3d-sync` that has no process, notebooks and scripts, and Ray, PyTorch,
panda3d and the browsers (third-party).

Left, in order of importance:

1. `RobotHardware`: motors and sensors, their indices in shared holders when others are detached, groups
   of sensors, options under the lock (`delayMax_` is stale if a delay changes during a simulation).
   Abstract specification: each holder is a function from names to values, which the indexed one
   implements. Instance: three sensors of two types, two motors. To prove: the indices are a permutation.
2. `ContactConstraints`: registers of constraints of a model, enabling and disabling under the contact
   model, references, restarts; the projected Gauss-Seidel loop on a small integer problem. Instance:
   two contact points and a joint bound, forces and bounds in -2..2.
3. `TrialEffects`: what a failed trial leaves in the state that the next update and the log read,
   extending `EngineStepper` by the registers a trial writes.
4. `MeasurementsBracket` as a theorem: it takes a weaker property, of the samples that are kept rather than
   of the times of the nodes, for which the rejected trials are counted against `delayMax_`.
