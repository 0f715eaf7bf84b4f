--------------------------- MODULE EngineLifecycle ---------------------------
(***************************************************************************)
(* The life of a simulation: start, step, stop and reset of engines that   *)
(* may share robots, the locks that keep a robot as it is meanwhile, and   *)
(* what each engine logs.                                                  *)
(*                                                                         *)
(* A robot is locked by one flag and released by whoever holds a guard on  *)
(* it.  The sensors of a robot, and a controller with its registered       *)
(* variables, are senders: they keep pointers into the telemetry data they *)
(* were last configured for, <<e, n>> standing for the n-th registry of    *)
(* engine e.  `stop' frees the registry.  A log is the registry it was     *)
(* recorded from and its number of lines.  What is simulated is abstracted *)
(* away, but for the ways `start' fails.                                   *)
(***************************************************************************)
EXTENDS Integers, SequencesExt

CONSTANTS
    Engines, Robots, Controllers,
    Systems,            \* the robots of each engine, in order
    RobotOf,            \* the robot a controller is initialised for
    FirstController,    \* the controllers each engine is given first
    None,
    MaxSimulations, MaxLines    \* bounds of a run, per engine

ASSUME SystemsAssumption ==
    /\ Systems \in [Engines -> Seq(Robots)]
    /\ \A e \in Engines : Systems[e] # <<>> /\ IsInjective(Systems[e])

ASSUME ControllersAssumption ==
    /\ RobotOf \in [Controllers -> Robots]
    /\ FirstController \in [Engines -> Seq(Controllers)]
    /\ \A e \in Engines :
          /\ DOMAIN FirstController[e] = DOMAIN Systems[e]
          /\ \A i \in DOMAIN Systems[e] : RobotOf[FirstController[e][i]] = Systems[e][i]

ASSUME BoundsAssumption == MaxSimulations \in Nat /\ MaxLines \in Nat

VARIABLES
    controller,             \* of each system of an engine
    isSimulationRunning, isTelemetryConfigured,
    locked,                 \* the flag of the mutex of each robot
    guards,                 \* robotLock: the robots each engine holds a guard on
    gravity,                \* the engine each robot was last given its gravity by
    sensors, controllers,   \* the senders
    registry,               \* how many times the telemetry data of an engine was reset
    flows,                  \* the log in the telemetry recorder of an engine
    logData                 \* logData_, the log kept for the next `getLog'

senders == <<sensors, controllers>>
locks == <<locked, guards>>
telemetry == <<registry, flows, logData>>
vars == <<controller, isSimulationRunning, isTelemetryConfigured, locks, gravity, senders, telemetry>>

RobotsOf(e) == Range(Systems[e])
ControllersOf(e) == Range(controller[e])

NewSender == [isConfigured |-> FALSE, target |-> None]
NoLog == [registry |-> 0, lines |-> 0]

Init ==
    /\ controller = FirstController
    /\ isSimulationRunning = [e \in Engines |-> FALSE]
    /\ isTelemetryConfigured = [e \in Engines |-> FALSE]
    /\ locked = [r \in Robots |-> FALSE] /\ guards = [e \in Engines |-> {}]
    /\ gravity = [r \in Robots |-> None]
    /\ sensors = [r \in Robots |-> NewSender] /\ controllers = [c \in Controllers |-> NewSender]
    /\ registry = [e \in Engines |-> 1]
    /\ flows = [e \in Engines |-> NoLog] /\ logData = [e \in Engines |-> None]

-----------------------------------------------------------------------------
(* Senders *)

\* `reset' of the robots, or of the controllers, of a set.
Unconfigured(objects, S) ==
    [o \in DOMAIN objects |-> IF o \in S THEN [objects[o] EXCEPT !.isConfigured = FALSE]
                              ELSE objects[o]]

\* One that is configured already is left as it is.
Configured(objects, S, e) ==
    [o \in DOMAIN objects |->
        IF o \in S /\ ~objects[o].isConfigured
        THEN [isConfigured |-> TRUE, target |-> <<e, registry[e]>>] ELSE objects[o]]

-----------------------------------------------------------------------------
(* Locks *)

\* Variant: a robot is taken without looking at its lock.
LockableAll(e) == DOMAIN Systems[e]

\* One after the other, up to the first robot that is locked.
Lockable(e) ==
    {i \in DOMAIN Systems[e] : \A j \in 1 .. i : ~locked[Systems[e][j]]}

Lock(e) == LET taken == {Systems[e][i] : i \in Lockable(e)} IN
    /\ locked' = [r \in Robots |-> locked[r] \/ r \in taken]
    /\ guards' = [guards EXCEPT ![e] = @ \cup taken]

\* Variant: robots are released, and guards kept.
UnlockFlags(e) == /\ locked' = [r \in Robots |-> locked[r] /\ r \notin guards[e]]
                  /\ UNCHANGED guards

\* Destroying a guard lowers the flag, whoever raised it.
Unlock(e) == /\ locked' = [r \in Robots |-> locked[r] /\ r \notin guards[e]]
             /\ guards' = [guards EXCEPT ![e] = {}]

-----------------------------------------------------------------------------
(* Starting.  Nothing changes if a simulation is running, or if a state or a device is not *)
(* valid.                                                                                 *)

\* reset(false, false), called if the telemetry is configured.
CleanedUp(e, objects, S) == IF isTelemetryConfigured[e] THEN Unconfigured(objects, S) ELSE objects

\* Every robot is given the gravity of the engine, and the log that was kept is dropped.
CleanUp(e) ==
    /\ gravity' = [r \in Robots |-> IF r \in RobotsOf(e) THEN e ELSE gravity[r]]
    /\ logData' = IF isTelemetryConfigured[e] THEN [logData EXCEPT ![e] = None] ELSE logData

\* A contact force that is too large is found before the robots are locked, a robot that is
\* locked after the previous ones were, an acceleration that is not a number after all were.
FailStart(e, reason) ==
    /\ ~isSimulationRunning[e]
    /\ reason = "acceleration" => Lockable(e) = DOMAIN Systems[e]
    /\ reason = "lock" => Lockable(e) # DOMAIN Systems[e]
    /\ CleanUp(e)
    /\ sensors' = CleanedUp(e, sensors, RobotsOf(e))
    /\ controllers' = CleanedUp(e, controllers, ControllersOf(e))
    /\ isTelemetryConfigured' = [isTelemetryConfigured EXCEPT ![e] = FALSE]
    /\ IF reason = "force" THEN UNCHANGED locks ELSE Lock(e)
    /\ UNCHANGED <<controller, isSimulationRunning, registry, flows>>

ConfigureTelemetry(e) ==
    /\ sensors' = Configured(CleanedUp(e, sensors, RobotsOf(e)), RobotsOf(e), e)
    /\ controllers' = Configured(CleanedUp(e, controllers, ControllersOf(e)), ControllersOf(e), e)
    /\ isTelemetryConfigured' = [isTelemetryConfigured EXCEPT ![e] = TRUE]

Start(e) ==
    /\ ~isSimulationRunning[e] /\ Lockable(e) = DOMAIN Systems[e]
    /\ registry[e] <= MaxSimulations
    /\ CleanUp(e) /\ Lock(e) /\ ConfigureTelemetry(e)
    /\ flows' = [flows EXCEPT ![e] = [registry |-> registry[e], lines |-> 0]]
    /\ isSimulationRunning' = [isSimulationRunning EXCEPT ![e] = TRUE]
    /\ UNCHANGED <<controller, registry>>

-----------------------------------------------------------------------------
(* Running *)

\* `updateTelemetry', so many times.
Logged(e, lines) == [flows EXCEPT ![e].lines = @ + lines]

\* A step may end before its first line, and log several.
Step(e, lines) ==
    /\ isSimulationRunning[e] /\ flows[e].lines + lines < MaxLines
    /\ logData' = [logData EXCEPT ![e] = None]
    /\ flows' = Logged(e, lines)
    /\ UNCHANGED <<controller, isSimulationRunning, isTelemetryConfigured, locks, gravity, senders, registry>>

\* Variant: the log kept is not the last one.
EndSimulationCached(e) ==
    /\ flows' = Logged(e, 1)
    /\ registry' = [registry EXCEPT ![e] = @ + 1]
    /\ isSimulationRunning' = [isSimulationRunning EXCEPT ![e] = FALSE]
    /\ UNCHANGED logData

\* The final point is logged, then the telemetry data is reset.
EndSimulation(e) ==
    /\ flows' = Logged(e, 1)
    /\ logData' = [logData EXCEPT ![e] = None]
    /\ registry' = [registry EXCEPT ![e] = @ + 1]
    /\ isSimulationRunning' = [isSimulationRunning EXCEPT ![e] = FALSE]

\* Robots are released whether or not a simulation is running.
Stop(e) ==
    /\ Unlock(e)
    /\ IF isSimulationRunning[e] THEN EndSimulation(e)
       ELSE UNCHANGED <<isSimulationRunning, telemetry>>
    /\ UNCHANGED <<controller, isTelemetryConfigured, gravity, senders>>

\* With bad arguments nothing is started, and what runs is stopped.
RefuseSimulate(e) == Stop(e)

\* Variant: a simulation goes on.
ResetWithoutStop(e) ==
    /\ logData' = [logData EXCEPT ![e] = None]
    /\ sensors' = Unconfigured(sensors, RobotsOf(e))
    /\ controllers' = Unconfigured(controllers, ControllersOf(e))
    /\ isTelemetryConfigured' = [isTelemetryConfigured EXCEPT ![e] = FALSE]
    /\ UNCHANGED <<controller, isSimulationRunning, locks, gravity, registry, flows>>

Reset(e) ==
    /\ IF isSimulationRunning[e] THEN Unlock(e) ELSE UNCHANGED locks
    /\ IF isSimulationRunning[e] THEN EndSimulation(e)
       ELSE /\ logData' = [logData EXCEPT ![e] = None]
            /\ UNCHANGED <<isSimulationRunning, registry, flows>>
    /\ sensors' = Unconfigured(sensors, RobotsOf(e))
    /\ controllers' = Unconfigured(controllers, ControllersOf(e))
    /\ isTelemetryConfigured' = [isTelemetryConfigured EXCEPT ![e] = FALSE]
    /\ UNCHANGED <<controller, gravity>>

SetController(e, i, c) ==
    /\ ~isSimulationRunning[e] /\ RobotOf[c] = Systems[e][i]
    /\ controller' = [controller EXCEPT ![e][i] = c]
    /\ UNCHANGED <<isSimulationRunning, isTelemetryConfigured, locks, gravity, senders, telemetry>>

GetLog(e) ==
    /\ logData' = [logData EXCEPT ![e] = IF @ = None THEN flows[e] ELSE @]
    /\ UNCHANGED <<controller, isSimulationRunning, isTelemetryConfigured, locks, gravity, senders,
                   registry, flows>>

Next == \E e \in Engines :
    \/ Start(e)
    \/ \E reason \in {"force", "lock", "acceleration"} : FailStart(e, reason)
    \/ \E lines \in 0 .. 2 : Step(e, lines)
    \/ Stop(e) \/ RefuseSimulate(e) \/ Reset(e) \/ GetLog(e)
    \/ \E i \in DOMAIN Systems[e], c \in Controllers : SetController(e, i, c)

Spec == Init /\ [][Next]_vars

-----------------------------------------------------------------------------
(* Properties *)

Sender == [isConfigured : BOOLEAN, target : {None} \cup (Engines \X Nat)]
Log == [registry : Nat, lines : Nat]

\* The type of every variable: in particular, a system has a controller of its own robot.
TypeOK ==
    /\ controller \in [Engines -> Seq(Controllers)]
    /\ \A e \in Engines :
          /\ Len(controller[e]) = Len(Systems[e])
          /\ \A i \in DOMAIN Systems[e] : RobotOf[controller[e][i]] = Systems[e][i]
    /\ isSimulationRunning \in [Engines -> BOOLEAN]
    /\ isTelemetryConfigured \in [Engines -> BOOLEAN]
    /\ locked \in [Robots -> BOOLEAN] /\ guards \in [Engines -> SUBSET Robots]
    /\ gravity \in [Robots -> Engines \cup {None}]
    /\ sensors \in [Robots -> Sender] /\ controllers \in [Controllers -> Sender]
    /\ registry \in [Engines -> Nat] /\ flows \in [Engines -> Log]
    /\ logData \in [Engines -> Log \cup {None}]

\* "Lock the robot. At this point it is no longer possible to change the robot anymore.": as
\* long as an engine simulates a robot it holds the guard on it, and no other engine does,
\* whatever the others start, stop or fail to start.
RunningHoldsLocks ==
    \A e \in Engines : isSimulationRunning[e] =>
        \A r \in RobotsOf(e) : /\ locked[r] /\ r \in guards[e]
                               /\ \A other \in Engines \ {e} : r \notin guards[other]

\* A guard lowers the flag without knowing who raised it: no robot is released under a guard
\* of another engine, nor left locked without any.
GuardsAreExclusive ==
    \A r \in Robots :
        /\ locked[r] <=> \E e \in Engines : r \in guards[e]
        /\ \A e, other \in Engines : r \in guards[e] /\ r \in guards[other] => e = other

\* What the errors of a locked robot say, "probably because a simulation is running. Please
\* stop it": a robot is locked only while a simulation runs.
LockedOnlyWhileRunning ==
    \A r \in Robots : locked[r] => \E e \in Engines : isSimulationRunning[e] /\ r \in RobotsOf(e)

\* The sensors of a simulated robot write where the engine that simulates it logs: not into a
\* registry that was reset, nor into the one of another engine.
SensorsAreLogged ==
    \A e \in Engines : isSimulationRunning[e] =>
        \A r \in RobotsOf(e) : sensors[r] = [isConfigured |-> TRUE, target |-> <<e, registry[e]>>]

\* "Call reset if the internal state of the engine is not clean": whatever robots and engines
\* were used before, a sensor of a simulated robot does not write into a registry that was
\* reset, whose memory is freed.
SensorsDoNotDangle ==
    \A e \in Engines : isSimulationRunning[e] =>
        \A r \in RobotsOf(e) : sensors[r].isConfigured => sensors[r].target = <<e, registry[e]>>

\* The same of the variables of the controllers, which all are logged.
ControllersAreLogged ==
    \A e \in Engines : isSimulationRunning[e] =>
        \A c \in ControllersOf(e) :
            controllers[c] = [isConfigured |-> TRUE, target |-> <<e, registry[e]>>]

\* "At this point it is no longer possible to change the robot anymore": a robot is simulated
\* with the gravity of the engine that simulates it.
GravityIsOwn ==
    \A e \in Engines : isSimulationRunning[e] => \A r \in RobotsOf(e) : gravity[r] = e

\* Nothing is done to the sensors of a robot that is simulated, but by the engine that does:
\* "it is no longer possible to change the robot".
RobotUndisturbed ==
    [][\A e \in Engines : isSimulationRunning[e] /\ isSimulationRunning'[e] =>
           \A r \in RobotsOf(e) : sensors'[r] = sensors[r]]_vars

\* Once a simulation is stopped, a log that is kept is its whole log, with the final point.
StoppedLogIsWhole ==
    \A e \in Engines : ~isSimulationRunning[e] => logData[e] \in {None, flows[e]}

\* "Clearing is done at init time, so that it remains accessible until the next
\* initialization": the log of the last simulation that was started is kept until the next
\* one is, whether start fails, the engine is reset or another controller is set.
LogIsKept ==
    [][\A e \in Engines : ~(~isSimulationRunning[e] /\ isSimulationRunning'[e]) =>
           /\ flows'[e].registry = flows[e].registry
           /\ flows'[e].lines >= flows[e].lines]_vars

\* And what `getLog' returns is what is in there.
KeptLogIsCurrent == \A e \in Engines : logData[e] \in {None, flows[e]}

\* What the documentation of `stop' says: "it is possible again [...] to register new
\* variables", which a controller refuses as long as its telemetry is configured.
VariablesAfterStop ==
    \A c \in Controllers :
        (\A e \in Engines : ~isSimulationRunning[e]) => ~controllers[c].isConfigured

=============================================================================
