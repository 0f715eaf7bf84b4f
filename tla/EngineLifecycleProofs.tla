------------------------ MODULE EngineLifecycleProofs ------------------------
(***************************************************************************)
(* What holds of the life of a simulation for any number of engines,       *)
(* whatever robots they share and in whatever order they lock them; and    *)
(* what holds only of engines that share no robot.  Then, within a         *)
(* simulation, the order and the origin of the samples the sensors keep,   *)
(* whatever the ODE stepper tries and rejects.                             *)
(***************************************************************************)
EXTENDS EngineLifecycle, SensorBuffer, FiniteSetTheorems, SequenceTheorems, TLAPS

\* The robots an attempt to start takes.
Taken(e) == {Systems[e][i] : i \in Lockable(e)}

\* Engines that share no robot: what the sensors, the gravity and the telemetry rely on.
EnginesApart ==
    \A e, other \in Engines : RobotsOf(e) \cap RobotsOf(other) # {} => e = other

-----------------------------------------------------------------------------
(* Systems and locks *)

LEMMA RobotsOfType ==
    ASSUME NEW e \in Engines
    PROVE  /\ RobotsOf(e) \subseteq Robots
           /\ DOMAIN Systems[e] = 1 .. Len(Systems[e]) /\ Len(Systems[e]) \in Nat
           /\ \A i \in DOMAIN Systems[e] : Systems[e][i] \in Robots
BY SystemsAssumption DEF RobotsOf, Range

\* An attempt to start takes robots of the engine that nobody has locked, all of them if it
\* succeeds.
LEMMA TakenAreFree ==
    ASSUME NEW e \in Engines
    PROVE  /\ Taken(e) \subseteq RobotsOf(e)
           /\ \A r \in Taken(e) : ~locked[r]
           /\ Lockable(e) = DOMAIN Systems[e] => Taken(e) = RobotsOf(e)
<1>1. \A i \in Lockable(e) : i \in DOMAIN Systems[e] /\ ~locked[Systems[e][i]]
  <2>1. \A i \in DOMAIN Systems[e] : i \in 1 .. i
    BY RobotsOfType
  <2> QED BY <2>1 DEF Lockable
<1> QED BY <1>1 DEF Taken, RobotsOf, Range

LEMMA LockTypes ==
    ASSUME NEW e \in Engines, guards \in [Engines -> SUBSET Robots], Lock(e)
    PROVE  locked' \in [Robots -> BOOLEAN] /\ guards' \in [Engines -> SUBSET Robots]
<1>1. Taken(e) \subseteq Robots
  BY TakenAreFree, RobotsOfType
<1>2. /\ locked' = [r \in Robots |-> locked[r] \/ r \in Taken(e)]
      /\ guards' = [guards EXCEPT ![e] = @ \cup Taken(e)]
  BY DEF Lock, Taken
<1> QED BY <1>1, <1>2

LEMMA UnlockTypes ==
    ASSUME NEW e \in Engines, guards \in [Engines -> SUBSET Robots], Unlock(e)
    PROVE  locked' \in [Robots -> BOOLEAN] /\ guards' \in [Engines -> SUBSET Robots]
BY DEF Unlock

LEMMA MoreLines ==
    ASSUME NEW log \in Log, NEW n \in Nat
    PROVE  [log EXCEPT !.lines = @ + n] \in Log
<1>1. log = [registry |-> log.registry, lines |-> log.lines]
      /\ log.registry \in Nat /\ log.lines \in Nat
  BY DEF Log
<1>2. [log EXCEPT !.lines = @ + n] = [registry |-> log.registry, lines |-> log.lines + n]
  BY <1>1
<1>3. log.lines + n \in Nat
  BY <1>1
<1> QED BY <1>1, <1>2, <1>3 DEF Log

-----------------------------------------------------------------------------
(* Types *)

\* Every register keeps its type, for any number of engines and robots: in particular, a
\* system is never given a controller that was initialised for another robot.
THEOREM LifecycleTypes == Spec => []TypeOK
<1>1. Init => TypeOK
  <2> SUFFICES ASSUME Init PROVE TypeOK
    OBVIOUS
  <2>1. NewSender \in Sender /\ NoLog \in Log
    BY DEF NewSender, NoLog, Sender, Log
  <2>2. \A e \in Engines : Len(controller[e]) = Len(Systems[e])
    BY SystemsAssumption, ControllersAssumption DEF Init
  <2> QED BY <2>1, <2>2, ControllersAssumption DEF Init, TypeOK
<1>2. TypeOK /\ [Next]_vars => TypeOK'
  <2> SUFFICES ASSUME TypeOK, [Next]_vars PROVE TypeOK'
    OBVIOUS
  <2> USE DEF TypeOK
  <2>1. ASSUME NEW objects, NEW K, NEW S, objects \in [K -> Sender]
        PROVE  Unconfigured(objects, S) \in [K -> Sender]
    <3>1. \A sender \in Sender : [sender EXCEPT !.isConfigured = FALSE] \in Sender
      BY DEF Sender
    <3>2. DOMAIN objects = K
      BY <2>1
    <3> QED BY <2>1, <3>1, <3>2 DEF Unconfigured
  <2>2. ASSUME NEW objects, NEW K, NEW S, NEW e \in Engines, objects \in [K -> Sender]
        PROVE  Configured(objects, S, e) \in [K -> Sender]
    BY <2>2 DEF Configured, Sender
  <2>3. ASSUME NEW objects, NEW K, NEW S, NEW e \in Engines, objects \in [K -> Sender]
        PROVE  CleanedUp(e, objects, S) \in [K -> Sender]
    BY <2>1, <2>3 DEF CleanedUp
  <2>4. ASSUME NEW e \in Engines, CleanUp(e)
        PROVE  gravity' \in [Robots -> Engines \cup {None}] /\ logData' \in [Engines -> Log \cup {None}]
    BY <2>4 DEF CleanUp
  <2>5. ASSUME NEW e \in Engines, NEW lines \in Nat
        PROVE  Logged(e, lines) \in [Engines -> Log]
    <3>1. \A log \in Log : [log EXCEPT !.lines = @ + lines] \in Log
      BY <2>5, MoreLines
    <3> QED BY <3>1 DEF Logged
  <2>6. ASSUME NEW e \in Engines, EndSimulation(e)
        PROVE  /\ flows' \in [Engines -> Log] /\ logData' \in [Engines -> Log \cup {None}]
               /\ registry' \in [Engines -> Nat] /\ isSimulationRunning' \in [Engines -> BOOLEAN]
    <3>1. flows' = Logged(e, 1)
      BY <2>6 DEF EndSimulation
    <3>2. flows' \in [Engines -> Log]
      BY <2>5, <3>1
    <3> QED BY <2>6, <3>2 DEF EndSimulation
  <2>7. ASSUME NEW e \in Engines, NEW reason, FailStart(e, reason) PROVE TypeOK'
    <3>1. sensors' \in [Robots -> Sender] /\ controllers' \in [Controllers -> Sender]
      BY <2>3, <2>7 DEF FailStart
    <3>2. locked' \in [Robots -> BOOLEAN] /\ guards' \in [Engines -> SUBSET Robots]
      BY <2>7, LockTypes DEF FailStart, locks
    <3> QED BY <2>4, <2>7, <3>1, <3>2 DEF FailStart
  <2>8. ASSUME NEW e \in Engines, Start(e) PROVE TypeOK'
    <3>1. sensors' \in [Robots -> Sender] /\ controllers' \in [Controllers -> Sender]
      <4>1. /\ sensors' = Configured(CleanedUp(e, sensors, RobotsOf(e)), RobotsOf(e), e)
            /\ controllers' = Configured(CleanedUp(e, controllers, ControllersOf(e)), ControllersOf(e), e)
        BY <2>8 DEF Start, ConfigureTelemetry
      <4>2. /\ CleanedUp(e, sensors, RobotsOf(e)) \in [Robots -> Sender]
            /\ CleanedUp(e, controllers, ControllersOf(e)) \in [Controllers -> Sender]
        BY <2>3
      <4> QED BY <2>2, <4>1, <4>2
    <3>2. locked' \in [Robots -> BOOLEAN] /\ guards' \in [Engines -> SUBSET Robots]
      BY <2>8, LockTypes DEF Start
    <3>3. flows' \in [Engines -> Log]
      BY <2>8 DEF Start, Log
    <3> QED BY <2>4, <2>8, <3>1, <3>2, <3>3 DEF Start, ConfigureTelemetry
  <2>9. ASSUME NEW e \in Engines, NEW lines \in 0 .. 2, Step(e, lines) PROVE TypeOK'
    <3>1. flows' \in [Engines -> Log]
      BY <2>5, <2>9 DEF Step
    <3> QED BY <2>9, <3>1 DEF Step, locks, senders
  <2>10. ASSUME NEW e \in Engines, Stop(e) PROVE TypeOK'
    BY <2>6, <2>10, UnlockTypes DEF Stop, telemetry, senders
  <2>11. ASSUME NEW e \in Engines, Reset(e) PROVE TypeOK'
    <3>1. sensors' \in [Robots -> Sender] /\ controllers' \in [Controllers -> Sender]
      BY <2>1, <2>11 DEF Reset
    <3>2. locked' \in [Robots -> BOOLEAN] /\ guards' \in [Engines -> SUBSET Robots]
      BY <2>11, UnlockTypes DEF Reset, locks
    <3> QED BY <2>6, <2>11, <3>1, <3>2 DEF Reset
  <2>12. ASSUME NEW e \in Engines, NEW i \in DOMAIN Systems[e], NEW c \in Controllers, SetController(e, i, c)
         PROVE  TypeOK'
    <3>1. controller[e] \in Seq(Controllers)
      OBVIOUS
    <3>2. [controller[e] EXCEPT ![i] = c] \in Seq(Controllers)
          /\ Len([controller[e] EXCEPT ![i] = c]) = Len(controller[e])
      BY <3>1, RobotsOfType
    <3>3. /\ controller' \in [Engines -> Seq(Controllers)]
          /\ \A o \in Engines : Len(controller'[o]) = Len(Systems[o])
      BY <2>12, <3>2 DEF SetController
    <3>4. ASSUME NEW o \in Engines, NEW j \in DOMAIN Systems[o]
          PROVE  RobotOf[controller'[o][j]] = Systems[o][j]
      BY <2>12, RobotsOfType, <3>4 DEF SetController
    <3> QED BY <2>12, <3>3, <3>4 DEF SetController, locks, senders, telemetry
  <2>13. ASSUME NEW e \in Engines, GetLog(e) PROVE TypeOK'
    BY <2>13 DEF GetLog, locks, senders
  <2>14. CASE UNCHANGED vars
    BY <2>14 DEF vars, locks, senders, telemetry
  <2> QED BY <2>7, <2>8, <2>9, <2>10, <2>11, <2>12, <2>13, <2>14 DEF Next, RefuseSimulate
<1> QED BY <1>1, <1>2, PTL DEF Spec

-----------------------------------------------------------------------------
(* Locks *)

LocksInv == guards \in [Engines -> SUBSET Robots] /\ GuardsAreExclusive /\ RunningHoldsLocks

\* Robots that are free are taken, and those that other engines hold stay as they are.
LEMMA LockKeeps ==
    ASSUME LocksInv, NEW e \in Engines, ~isSimulationRunning[e], Lock(e),
           isSimulationRunning' \in [Engines -> BOOLEAN],
           \A o \in Engines \ {e} : isSimulationRunning'[o] = isSimulationRunning[o],
           isSimulationRunning'[e] => Lockable(e) = DOMAIN Systems[e]
    PROVE  LocksInv'
<1>1. /\ locked' = [r \in Robots |-> locked[r] \/ r \in Taken(e)]
      /\ guards' = [guards EXCEPT ![e] = @ \cup Taken(e)]
  BY DEF Lock, Taken
<1>2. /\ Taken(e) \subseteq RobotsOf(e)
      /\ \A r \in Taken(e) : ~locked[r]
      /\ Lockable(e) = DOMAIN Systems[e] => Taken(e) = RobotsOf(e)
  BY TakenAreFree
<1>3. \A o \in Engines : RobotsOf(o) \subseteq Robots
  BY RobotsOfType
<1>4. \A o \in Engines : guards'[o] = IF o = e THEN guards[e] \cup Taken(e) ELSE guards[o]
  BY <1>1 DEF LocksInv
<1>5. \A r \in Taken(e), o \in Engines : r \notin guards[o]
  BY <1>2, <1>3 DEF LocksInv, GuardsAreExclusive
<1>6. guards' \in [Engines -> SUBSET Robots]
  BY <1>1, <1>2, <1>3 DEF LocksInv
<1>7. GuardsAreExclusive'
  <2>1. ASSUME NEW r \in Robots PROVE locked'[r] <=> \E o \in Engines : r \in guards'[o]
    BY <1>1, <1>4 DEF LocksInv, GuardsAreExclusive
  <2>2. ASSUME NEW r \in Robots, NEW o \in Engines, NEW other \in Engines,
               r \in guards'[o], r \in guards'[other]
        PROVE  o = other
    BY <1>4, <1>5, <2>2 DEF LocksInv, GuardsAreExclusive
  <2> QED BY <2>1, <2>2 DEF GuardsAreExclusive
<1>8. RunningHoldsLocks'
  <2> SUFFICES ASSUME NEW o \in Engines, isSimulationRunning'[o], NEW r \in RobotsOf(o)
               PROVE  /\ locked'[r] /\ r \in guards'[o]
                      /\ \A other \in Engines \ {o} : r \notin guards'[other]
    BY DEF RunningHoldsLocks
  <2>1. r \in guards'[o]
    <3>1. CASE o = e
      BY <1>2, <1>4, <3>1
    <3>2. CASE o # e
      BY <1>4, <3>2 DEF LocksInv, RunningHoldsLocks
    <3> QED BY <3>1, <3>2
  <2> QED BY <1>3, <1>7, <2>1 DEF GuardsAreExclusive
<1> QED BY <1>6, <1>7, <1>8 DEF LocksInv

\* Only robots that no other engine simulates are released.
LEMMA UnlockKeeps ==
    ASSUME LocksInv, NEW e \in Engines, Unlock(e),
           \A o \in Engines \ {e} : isSimulationRunning'[o] = isSimulationRunning[o],
           ~isSimulationRunning'[e]
    PROVE  LocksInv'
<1>1. /\ locked' = [r \in Robots |-> locked[r] /\ r \notin guards[e]]
      /\ guards' = [guards EXCEPT ![e] = {}]
  BY DEF Unlock
<1>2. \A o \in Engines : guards'[o] = IF o = e THEN {} ELSE guards[o]
  BY <1>1 DEF LocksInv
<1>3. \A o \in Engines : RobotsOf(o) \subseteq Robots
  BY RobotsOfType
<1>4. GuardsAreExclusive'
  <2>1. ASSUME NEW r \in Robots PROVE locked'[r] <=> \E o \in Engines : r \in guards'[o]
    BY <1>1, <1>2 DEF LocksInv, GuardsAreExclusive
  <2>2. ASSUME NEW r \in Robots, NEW o \in Engines, NEW other \in Engines,
               r \in guards'[o], r \in guards'[other]
        PROVE  o = other
    BY <1>2, <2>2 DEF LocksInv, GuardsAreExclusive
  <2> QED BY <2>1, <2>2 DEF GuardsAreExclusive
<1>5. RunningHoldsLocks'
  <2> SUFFICES ASSUME NEW o \in Engines, isSimulationRunning'[o], NEW r \in RobotsOf(o)
               PROVE  /\ locked'[r] /\ r \in guards'[o]
                      /\ \A other \in Engines \ {o} : r \notin guards'[other]
    BY DEF RunningHoldsLocks
  <2>1. o # e /\ isSimulationRunning[o]
    OBVIOUS
  <2>2. r \in guards'[o]
    BY <1>2, <2>1 DEF LocksInv, RunningHoldsLocks
  <2> QED BY <1>3, <1>4, <2>2 DEF GuardsAreExclusive
<1>6. guards' \in [Engines -> SUBSET Robots]
  BY <1>1 DEF LocksInv
<1> QED BY <1>4, <1>5, <1>6 DEF LocksInv

\* Calls that leave the locks alone, and end no more than a simulation.
LEMMA UntouchedLocks ==
    ASSUME LocksInv, UNCHANGED locks, UNCHANGED isSimulationRunning
    PROVE  LocksInv'
<1>1. locked' = locked /\ guards' = guards
  BY DEF locks
<1> QED BY <1>1 DEF LocksInv, GuardsAreExclusive, RunningHoldsLocks

LEMMA LocksInvHolds == Spec => []LocksInv
<1>1. Init => LocksInv
  BY DEF Init, LocksInv, GuardsAreExclusive, RunningHoldsLocks
<1>2. TypeOK /\ LocksInv /\ [Next]_vars => LocksInv'
  <2> SUFFICES ASSUME TypeOK, LocksInv, [Next]_vars PROVE LocksInv'
    OBVIOUS
  <2>1. isSimulationRunning \in [Engines -> BOOLEAN]
    BY DEF TypeOK
  <2>2. ASSUME NEW e \in Engines, NEW reason, FailStart(e, reason) PROVE LocksInv'
    <3>1. ~isSimulationRunning[e] /\ UNCHANGED isSimulationRunning
      BY <2>2 DEF FailStart
    <3>2. UNCHANGED locks \/ Lock(e)
      BY <2>2 DEF FailStart
    <3> QED BY <2>1, <3>1, <3>2, LockKeeps, UntouchedLocks
  <2>3. ASSUME NEW e \in Engines, Start(e) PROVE LocksInv'
    <3>1. /\ ~isSimulationRunning[e] /\ Lockable(e) = DOMAIN Systems[e] /\ Lock(e)
          /\ isSimulationRunning' = [isSimulationRunning EXCEPT ![e] = TRUE]
      BY <2>3 DEF Start
    <3> QED BY <2>1, <3>1, LockKeeps
  <2>4. ASSUME NEW e \in Engines, EndSimulation(e)
        PROVE  /\ \A o \in Engines \ {e} : isSimulationRunning'[o] = isSimulationRunning[o]
               /\ ~isSimulationRunning'[e]
    BY <2>1, <2>4 DEF EndSimulation
  <2>5. ASSUME NEW e \in Engines, Stop(e) PROVE LocksInv'
    <3>1. /\ \A o \in Engines \ {e} : isSimulationRunning'[o] = isSimulationRunning[o]
          /\ ~isSimulationRunning'[e]
      BY <2>4, <2>5 DEF Stop
    <3> QED BY <2>5, <3>1, UnlockKeeps DEF Stop
  <2>6. ASSUME NEW e \in Engines, Reset(e) PROVE LocksInv'
    <3>1. CASE isSimulationRunning[e]
      BY <2>4, <2>6, <3>1, UnlockKeeps DEF Reset
    <3>2. CASE ~isSimulationRunning[e]
      BY <2>6, <3>2, UntouchedLocks DEF Reset
    <3> QED BY <3>1, <3>2
  <2>7. ASSUME NEW e \in Engines,
               \/ \E lines \in 0 .. 2 : Step(e, lines)
               \/ \E i \in DOMAIN Systems[e], c \in Controllers : SetController(e, i, c)
               \/ GetLog(e)
        PROVE  LocksInv'
    <3>1. UNCHANGED locks /\ UNCHANGED isSimulationRunning
      BY <2>7 DEF Step, SetController, GetLog
    <3> QED BY <3>1, UntouchedLocks
  <2>8. CASE UNCHANGED vars
    <3>1. UNCHANGED locks /\ UNCHANGED isSimulationRunning
      BY <2>8 DEF vars
    <3> QED BY <3>1, UntouchedLocks
  <2> QED BY <2>2, <2>3, <2>5, <2>6, <2>7, <2>8 DEF Next, RefuseSimulate
<1> QED BY <1>1, <1>2, LifecycleTypes, PTL DEF Spec

\* As long as an engine simulates a robot, it holds the guard on it and no other engine does,
\* for any number of engines that share robots in any order.
THEOREM RunningEnginesHoldLocks == Spec => []RunningHoldsLocks
<1>1. LocksInv => RunningHoldsLocks
  BY DEF LocksInv
<1> QED BY <1>1, LocksInvHolds, PTL

\* A robot is locked exactly when an engine holds a guard on it, and one engine only: a guard
\* that is destroyed never releases a robot of another engine.
THEOREM GuardsOfOneEngine == Spec => []GuardsAreExclusive
<1>1. LocksInv => GuardsAreExclusive
  BY DEF LocksInv
<1> QED BY <1>1, LocksInvHolds, PTL

-----------------------------------------------------------------------------
(* The log *)

\* The log kept for an engine that is stopped is its whole log, whatever the others do.
THEOREM StoppedLogs == Spec => []StoppedLogIsWhole
<1>1. Init => StoppedLogIsWhole
  BY DEF Init, StoppedLogIsWhole
<1>2. TypeOK /\ StoppedLogIsWhole /\ [Next]_vars => StoppedLogIsWhole'
  <2> SUFFICES ASSUME TypeOK, StoppedLogIsWhole, [Next]_vars PROVE StoppedLogIsWhole'
    OBVIOUS
  <2>1. /\ isSimulationRunning \in [Engines -> BOOLEAN]
        /\ DOMAIN logData = Engines /\ DOMAIN flows = Engines
    BY DEF TypeOK
  <2>2. ASSUME NEW e \in Engines, NEW reason, FailStart(e, reason) PROVE StoppedLogIsWhole'
    BY <2>1, <2>2 DEF FailStart, CleanUp, StoppedLogIsWhole
  <2>3. ASSUME NEW e \in Engines, Start(e) PROVE StoppedLogIsWhole'
    <3>1. ASSUME NEW o \in Engines, ~isSimulationRunning'[o]
          PROVE  o # e /\ logData'[o] = logData[o] /\ flows'[o] = flows[o] /\ ~isSimulationRunning[o]
      BY <2>1, <2>3, <3>1 DEF Start, CleanUp
    <3> QED BY <3>1 DEF StoppedLogIsWhole
  <2>4. ASSUME NEW e \in Engines, NEW lines \in 0 .. 2, Step(e, lines) PROVE StoppedLogIsWhole'
    <3>1. ASSUME NEW o \in Engines, ~isSimulationRunning'[o]
          PROVE  o # e /\ logData'[o] = logData[o] /\ flows'[o] = flows[o] /\ ~isSimulationRunning[o]
      BY <2>1, <2>4, <3>1 DEF Step, Logged
    <3> QED BY <3>1 DEF StoppedLogIsWhole
  <2>5. ASSUME NEW e \in Engines, EndSimulation(e) PROVE StoppedLogIsWhole'
    <3>1. logData'[e] = None
      BY <2>1, <2>5 DEF EndSimulation
    <3>2. ASSUME NEW o \in Engines \ {e}
          PROVE  /\ logData'[o] = logData[o] /\ flows'[o] = flows[o]
                 /\ isSimulationRunning'[o] = isSimulationRunning[o]
      BY <2>1, <2>5 DEF EndSimulation, Logged
    <3> QED BY <3>1, <3>2 DEF StoppedLogIsWhole
  <2>6. ASSUME NEW e \in Engines, Stop(e) PROVE StoppedLogIsWhole'
    BY <2>5, <2>6 DEF Stop, telemetry, StoppedLogIsWhole
  <2>7. ASSUME NEW e \in Engines, Reset(e) PROVE StoppedLogIsWhole'
    BY <2>1, <2>5, <2>7 DEF Reset, StoppedLogIsWhole
  <2>8. ASSUME NEW e \in Engines, NEW i, NEW c, SetController(e, i, c) PROVE StoppedLogIsWhole'
    BY <2>8 DEF SetController, telemetry, StoppedLogIsWhole
  <2>9. ASSUME NEW e \in Engines, GetLog(e) PROVE StoppedLogIsWhole'
    BY <2>1, <2>9 DEF GetLog, StoppedLogIsWhole
  <2>10. CASE UNCHANGED vars
    BY <2>10 DEF vars, telemetry, StoppedLogIsWhole
  <2> QED BY <2>2, <2>3, <2>4, <2>6, <2>7, <2>8, <2>9, <2>10 DEF Next, RefuseSimulate
<1> QED BY <1>1, <1>2, LifecycleTypes, PTL DEF Spec

-----------------------------------------------------------------------------
(* Engines that share no robot *)

\* A sensor is configured for the current registry while the engine simulates, and for none
\* once the telemetry is not configured any more: `start' would skip one that still is.
SensorsInv ==
    \A e \in Engines :
        /\ isSimulationRunning[e] =>
              \A r \in RobotsOf(e) : sensors[r] = [isConfigured |-> TRUE, target |-> <<e, registry[e]>>]
        /\ ~isTelemetryConfigured[e] => \A r \in RobotsOf(e) : ~sensors[r].isConfigured

\* Unconfiguring the sensors of one engine leaves those of the others alone.
LEMMA UnconfiguredSensors ==
    ASSUME EnginesApart, sensors \in [Robots -> Sender], NEW e \in Engines
    PROVE  LET new == Unconfigured(sensors, RobotsOf(e)) IN
           /\ new \in [Robots -> Sender]
           /\ \A r \in RobotsOf(e) : ~new[r].isConfigured
           /\ \A o \in Engines \ {e} : \A r \in RobotsOf(o) : new[r] = sensors[r]
<1>1. \A sender \in Sender : /\ [sender EXCEPT !.isConfigured = FALSE] \in Sender
                             /\ ~[sender EXCEPT !.isConfigured = FALSE].isConfigured
  BY DEF Sender
<1>2. \A o \in Engines \ {e} : \A r \in RobotsOf(o) : r \notin RobotsOf(e)
  BY DEF EnginesApart
<1>3. \A o \in Engines : RobotsOf(o) \subseteq Robots
  BY RobotsOfType
<1> QED BY <1>1, <1>2, <1>3 DEF Unconfigured

\* So does what `start' does to them before it configures the telemetry, after which none of
\* its sensors is configured.
LEMMA CleanedUpSensors ==
    ASSUME EnginesApart, sensors \in [Robots -> Sender], SensorsInv, NEW e \in Engines
    PROVE  LET new == CleanedUp(e, sensors, RobotsOf(e)) IN
           /\ new \in [Robots -> Sender]
           /\ \A r \in RobotsOf(e) : ~new[r].isConfigured
           /\ \A o \in Engines \ {e} : \A r \in RobotsOf(o) : new[r] = sensors[r]
<1>1. CASE isTelemetryConfigured[e]
  BY <1>1, UnconfiguredSensors DEF CleanedUp
<1>2. CASE ~isTelemetryConfigured[e]
  BY <1>2 DEF CleanedUp, SensorsInv
<1> QED BY <1>1, <1>2

LEMMA ConfiguredSensors ==
    ASSUME EnginesApart, sensors \in [Robots -> Sender], SensorsInv, NEW e \in Engines,
           ConfigureTelemetry(e)
    PROVE  /\ \A r \in RobotsOf(e) : sensors'[r] = [isConfigured |-> TRUE, target |-> <<e, registry[e]>>]
           /\ \A o \in Engines \ {e} : \A r \in RobotsOf(o) : sensors'[r] = sensors[r]
<1> DEFINE clean == CleanedUp(e, sensors, RobotsOf(e))
<1>1. /\ clean \in [Robots -> Sender]
      /\ \A r \in RobotsOf(e) : ~clean[r].isConfigured
      /\ \A o \in Engines \ {e} : \A r \in RobotsOf(o) : clean[r] = sensors[r]
  BY CleanedUpSensors
<1>2. sensors' = Configured(clean, RobotsOf(e), e)
  BY DEF ConfigureTelemetry
<1> HIDE DEF clean
<1>3. \A o \in Engines : RobotsOf(o) \subseteq Robots
  BY RobotsOfType
<1>4. \A o \in Engines \ {e} : \A r \in RobotsOf(o) : r \notin RobotsOf(e)
  BY DEF EnginesApart
<1>5. \A r \in Robots : sensors'[r] = IF r \in RobotsOf(e) /\ ~clean[r].isConfigured
                                      THEN [isConfigured |-> TRUE, target |-> <<e, registry[e]>>]
                                      ELSE clean[r]
  BY <1>1, <1>2 DEF Configured
<1> QED BY <1>1, <1>3, <1>4, <1>5

LEMMA SensorsInvHolds == ASSUME EnginesApart PROVE Spec => []SensorsInv
<1>1. Init => SensorsInv
  BY RobotsOfType DEF Init, SensorsInv, NewSender
<1>2. TypeOK /\ SensorsInv /\ [Next]_vars => SensorsInv'
  <2> SUFFICES ASSUME TypeOK, SensorsInv, [Next]_vars PROVE SensorsInv'
    OBVIOUS
  <2>1. /\ isSimulationRunning \in [Engines -> BOOLEAN] /\ isTelemetryConfigured \in [Engines -> BOOLEAN]
        /\ sensors \in [Robots -> Sender] /\ DOMAIN registry = Engines
    BY DEF TypeOK
  <2>2. ASSUME NEW e \in Engines, NEW reason, FailStart(e, reason) PROVE SensorsInv'
    <3>1. /\ ~isSimulationRunning[e] /\ UNCHANGED <<isSimulationRunning, registry>>
          /\ sensors' = CleanedUp(e, sensors, RobotsOf(e))
          /\ isTelemetryConfigured' = [isTelemetryConfigured EXCEPT ![e] = FALSE]
      BY <2>2 DEF FailStart
    <3>2. /\ \A r \in RobotsOf(e) : ~sensors'[r].isConfigured
          /\ \A o \in Engines \ {e} : \A r \in RobotsOf(o) : sensors'[r] = sensors[r]
      BY <2>1, <3>1, CleanedUpSensors
    <3> QED BY <2>1, <3>1, <3>2 DEF SensorsInv
  <2>3. ASSUME NEW e \in Engines, Start(e) PROVE SensorsInv'
    <3>1. /\ isSimulationRunning' = [isSimulationRunning EXCEPT ![e] = TRUE]
          /\ isTelemetryConfigured' = [isTelemetryConfigured EXCEPT ![e] = TRUE]
          /\ registry' = registry
      BY <2>3 DEF Start, ConfigureTelemetry
    <3>2. /\ \A r \in RobotsOf(e) : sensors'[r] = [isConfigured |-> TRUE, target |-> <<e, registry[e]>>]
          /\ \A o \in Engines \ {e} : \A r \in RobotsOf(o) : sensors'[r] = sensors[r]
      BY <2>1, <2>3, ConfiguredSensors DEF Start
    <3> QED BY <2>1, <3>1, <3>2 DEF SensorsInv
  <2>4. ASSUME NEW e \in Engines, EndSimulation(e)
        PROVE  /\ ~isSimulationRunning'[e]
               /\ \A o \in Engines \ {e} : /\ isSimulationRunning'[o] = isSimulationRunning[o]
                                           /\ registry'[o] = registry[o]
    BY <2>1, <2>4 DEF EndSimulation
  <2>5. ASSUME NEW e \in Engines, Stop(e) PROVE SensorsInv'
    <3>1. UNCHANGED <<isTelemetryConfigured, sensors>>
      BY <2>5 DEF Stop, senders
    <3>2. CASE isSimulationRunning[e]
      BY <2>4, <2>5, <3>1, <3>2 DEF Stop, SensorsInv
    <3>3. CASE ~isSimulationRunning[e]
      BY <2>5, <3>1, <3>3 DEF Stop, telemetry, SensorsInv
    <3> QED BY <3>2, <3>3
  <2>6. ASSUME NEW e \in Engines, Reset(e) PROVE SensorsInv'
    <3>1. /\ ~isSimulationRunning'[e]
          /\ \A o \in Engines \ {e} : /\ isSimulationRunning'[o] = isSimulationRunning[o]
                                      /\ registry'[o] = registry[o]
      BY <2>4, <2>6 DEF Reset
    <3>2. isTelemetryConfigured' = [isTelemetryConfigured EXCEPT ![e] = FALSE]
      BY <2>6 DEF Reset
    <3>3. /\ \A r \in RobotsOf(e) : ~sensors'[r].isConfigured
          /\ \A o \in Engines \ {e} : \A r \in RobotsOf(o) : sensors'[r] = sensors[r]
      BY <2>1, <2>6, UnconfiguredSensors DEF Reset
    <3> QED BY <2>1, <3>1, <3>2, <3>3 DEF SensorsInv
  <2>7. ASSUME UNCHANGED <<isSimulationRunning, isTelemetryConfigured, sensors, registry>>
        PROVE  SensorsInv'
    BY <2>7 DEF SensorsInv
  <2>8. ASSUME NEW e \in Engines,
               \/ \E lines \in 0 .. 2 : Step(e, lines)
               \/ \E i \in DOMAIN Systems[e], c \in Controllers : SetController(e, i, c)
               \/ GetLog(e)
        PROVE  SensorsInv'
    BY <2>7, <2>8 DEF Step, SetController, GetLog, senders, telemetry
  <2>9. CASE UNCHANGED vars
    BY <2>7, <2>9 DEF vars, senders, telemetry
  <2> QED BY <2>2, <2>3, <2>5, <2>6, <2>8, <2>9 DEF Next, RefuseSimulate
<1> QED BY <1>1, <1>2, LifecycleTypes, PTL DEF Spec

\* As long as no robot is shared, the sensors of every robot that is simulated write where its
\* engine logs, whatever starts failed and whatever was reset before.
THEOREM SensorsOfEnginesApart == ASSUME EnginesApart PROVE Spec => []SensorsAreLogged
<1>1. SensorsInv => SensorsAreLogged
  BY DEF SensorsInv, SensorsAreLogged
<1> QED BY <1>1, SensorsInvHolds, PTL

\* As long as no robot is shared, nothing but its own engine touches the sensors of a robot
\* that is simulated.
THEOREM EnginesApartUndisturbed == ASSUME EnginesApart PROVE Spec => RobotUndisturbed
<1> DEFINE Kept == \A e \in Engines : isSimulationRunning[e] /\ isSimulationRunning'[e] =>
                       \A r \in RobotsOf(e) : sensors'[r] = sensors[r]
<1>1. TypeOK /\ SensorsInv /\ [Next]_vars => [Kept]_vars
  <2> SUFFICES ASSUME TypeOK, SensorsInv, Next,
                      NEW o \in Engines, isSimulationRunning[o], isSimulationRunning'[o],
                      NEW r \in RobotsOf(o)
               PROVE  sensors'[r] = sensors[r]
    OBVIOUS
  <2>1. /\ isSimulationRunning \in [Engines -> BOOLEAN] /\ sensors \in [Robots -> Sender]
    BY DEF TypeOK
  <2>2. ASSUME NEW e \in Engines, NEW reason, FailStart(e, reason) PROVE sensors'[r] = sensors[r]
    BY <2>1, <2>2, CleanedUpSensors DEF FailStart
  <2>3. ASSUME NEW e \in Engines, Start(e) PROVE sensors'[r] = sensors[r]
    <3>1. e # o
      BY <2>3 DEF Start
    <3> QED BY <2>1, <2>3, <3>1, ConfiguredSensors DEF Start
  <2>4. ASSUME NEW e \in Engines, Reset(e) PROVE sensors'[r] = sensors[r]
    <3>1. e # o
      BY <2>1, <2>4 DEF Reset, EndSimulation
    <3> QED BY <2>1, <2>4, <3>1, UnconfiguredSensors DEF Reset
  <2>5. ASSUME NEW e \in Engines,
               \/ \E lines \in 0 .. 2 : Step(e, lines)
               \/ Stop(e)
               \/ \E i \in DOMAIN Systems[e], c \in Controllers : SetController(e, i, c)
               \/ GetLog(e)
        PROVE  sensors'[r] = sensors[r]
    BY <2>5 DEF Step, Stop, SetController, GetLog, senders
  <2> QED BY <2>2, <2>3, <2>4, <2>5 DEF Next, RefuseSimulate
<1> QED BY <1>1, LifecycleTypes, SensorsInvHolds, PTL DEF Spec, RobotUndisturbed

-----------------------------------------------------------------------------
(* The buffer of the sensors *)

\* Where a solver going back to x finds the sample it replaces.
LEMMA KeptAtIs ==
    ASSUME NEW x \in Nat, time \in Seq(Nat)
    PROVE  LET old == Cardinality({k \in DOMAIN time : time[k] <= x})
           IN  /\ old \in 0 .. Len(time)
               /\ KeptAt(x) = IF old >= 1 THEN old ELSE 1
<1> DEFINE S == {k \in DOMAIN time : time[k] <= x}
<1>1. Len(time) \in Nat /\ DOMAIN time = 1 .. Len(time)
  BY LenProperties
<1>2. /\ IsFiniteSet(1 .. Len(time)) /\ Cardinality(1 .. Len(time)) = Len(time)
  BY <1>1, FS_Interval
<1>3. S \subseteq 1 .. Len(time)
  BY <1>1
<1>4. Cardinality(S) \in Nat /\ Cardinality(S) <= Len(time)
  BY <1>1, <1>2, <1>3, FS_Subset, FS_CardinalityType
<1>5. KeptAt(x) = Max({1, Cardinality(S)})
  BY DEF KeptAt
<1> HIDE DEF S
<1>6. Max({1, Cardinality(S)}) = IF Cardinality(S) >= 1 THEN Cardinality(S) ELSE 1
  BY <1>4 DEF Max
<1> QED
  BY <1>1, <1>4, <1>5, <1>6 DEF S

\* The samples are in the order of their times.
AreSorted(times) == \A i, j \in DOMAIN times : i <= j => times[i] <= times[j]

\* As they are, those at x or before are the first ones.
LEMMA OldSamplesFirst ==
    ASSUME NEW x \in Nat, time \in Seq(Nat), AreSorted(time),
           NEW k \in 1 .. Cardinality({j \in DOMAIN time : time[j] <= x})
    PROVE  k \in 1 .. Len(time) /\ time[k] <= x
<1> DEFINE S == {j \in DOMAIN time : time[j] <= x}
<1>1. Len(time) \in Nat /\ DOMAIN time = 1 .. Len(time) /\ \A i \in 1 .. Len(time) : time[i] \in Nat
  BY LenProperties, ElementOfSeq
<1>2. Cardinality(S) \in 0 .. Len(time)
  BY KeptAtIs
<1>3. k \in 1 .. Len(time)
  BY <1>1, <1>2
<1>4. SUFFICES ASSUME time[k] > x PROVE FALSE
  BY <1>1, <1>3
<1>5. \A j \in 1 .. Len(time) : time[j] <= x => j \in 1 .. k - 1
  <2> SUFFICES ASSUME NEW j \in 1 .. Len(time), time[j] <= x PROVE j \in 1 .. k - 1
    OBVIOUS
  <2>1. ~(k <= j)
    BY <1>1, <1>3, <1>4 DEF AreSorted
  <2> QED
    BY <1>1, <1>3, <2>1
<1>6. S \subseteq 1 .. k - 1
  BY <1>1, <1>5
<1>7. 1 \in Int /\ k - 1 \in Int /\ (1 > k - 1 => k - 1 = 0)
  BY <1>1, <1>3
<1>8. IsFiniteSet(1 .. k - 1) /\ Cardinality(1 .. k - 1) = IF 1 > k - 1 THEN 0 ELSE k - 1 - 1 + 1
  BY <1>7, FS_Interval
<1>9. Cardinality(1 .. k - 1) = k - 1
  BY <1>7, <1>8
<1>10. Cardinality(S) <= k - 1
  BY <1>6, <1>8, <1>9, FS_Subset
<1> QED
  BY <1>1, <1>2, <1>3, <1>10

\* What is dropped are samples there are.
LEMMA OutdatedAreThere ==
    ASSUME NEW x \in Nat, time \in Seq(Nat), time # <<>>
    PROVE  Outdated(x) \in 0 .. Len(time)
<1>1. Len(time) \in Nat \ {0}
  BY EmptySeq
<1>2. Exceed \in Nat
  BY StepperAssumption
<1> QED
  BY <1>1, <1>2 DEF Outdated

\* The room made for a sample at x: x comes last, after samples of the buffer at x or before
\* that keep their order; at least as many as the samples added are gone.
IsRoom(times, x) ==
    /\ times \in Seq(Nat) /\ times # <<>> /\ times[Len(times)] = x /\ AreSorted(times)
    /\ \E d \in Nat :
          /\ Len(times) + d <= Len(time) + 1
          /\ \A i \in 1 .. Len(times) - 1 :
                i + d \in 1 .. Len(time) /\ times[i] = time[i + d] /\ time[i + d] <= x

LEMMA SortedRoom ==
    ASSUME NEW x \in Nat, time \in Seq(Nat), AreSorted(time), NEW times \in Seq(Nat),
           times # <<>>, times[Len(times)] = x, NEW d \in Nat, Len(times) + d <= Len(time) + 1,
           \A i \in 1 .. Len(times) - 1 :
              i + d \in 1 .. Len(time) /\ times[i] = time[i + d] /\ time[i + d] <= x
    PROVE  IsRoom(times, x)
<1>1. Len(times) \in Nat \ {0} /\ DOMAIN times = 1 .. Len(times)
  BY EmptySeq, LenProperties
<1>2. Len(time) \in Nat /\ DOMAIN time = 1 .. Len(time)
  BY LenProperties
<1>3. ASSUME NEW i \in 1 .. Len(times), NEW j \in 1 .. Len(times), i <= j
      PROVE  times[i] <= times[j]
  <2>0. Len(times) \in Nat /\ Len(times) >= 1
    BY <1>1
  <2>1. CASE j = Len(times) /\ i = j
    BY <2>1
  <2>2. CASE j = Len(times) /\ i # j
    <3>1. i \in 1 .. Len(times) - 1
      BY <1>3, <2>0, <2>2
    <3>2. times[i] = time[i + d] /\ time[i + d] <= x
      BY <3>1
    <3> QED
      BY <2>2, <3>2
  <2>3. CASE j # Len(times)
    <3>1. i \in 1 .. Len(times) - 1 /\ j \in 1 .. Len(times) - 1
      BY <1>3, <2>0, <2>3
    <3>2. i + d \in DOMAIN time /\ j + d \in DOMAIN time /\ i + d <= j + d
      BY <1>1, <1>2, <1>3, <3>1
    <3>3. time[i + d] <= time[j + d]
      BY <3>2 DEF AreSorted
    <3> QED
      BY <3>1, <3>3
  <2> QED
    BY <2>1, <2>2, <2>3
<1>4. AreSorted(times)
  BY <1>1, <1>3 DEF AreSorted
<1> QED
  BY <1>4 DEF IsRoom

LEMMA AddedLast ==
    ASSUME NEW kept \in Seq(Nat), NEW x \in Nat
    PROVE  /\ Append(kept, x) \in Seq(Nat) /\ Append(kept, x) # <<>>
           /\ Len(Append(kept, x)) = Len(kept) + 1
           /\ \A i \in 1 .. Len(kept) : Append(kept, x)[i] = kept[i]
           /\ Append(kept, x)[Len(kept) + 1] = x
BY AppendProperties

LEMMA RoomIs ==
    ASSUME NEW x \in Nat, time \in Seq(Nat), time # <<>>, AreSorted(time)
    PROVE  IsRoom(Room(x).time, x)
<1>1. Len(time) \in Nat \ {0} /\ DOMAIN time = 1 .. Len(time)
  BY EmptySeq, LenProperties
<1>2. \A i \in 1 .. Len(time) : time[i] \in Nat
  BY ElementOfSeq
<1>3. CASE x >= Last(time)
  <2> DEFINE d == Outdated(x)
             kept == SubSeq(time, d + 1, Len(time))
  <2>1. d \in Nat /\ d <= Len(time)
    BY <1>1, OutdatedAreThere
  <2> HIDE DEF d
  <2>2. d + 1 \in Int /\ Len(time) \in Int /\ \A i \in d + 1 .. Len(time) : time[i] \in Nat
    BY <1>1, <1>2, <2>1
  <2>3. /\ kept \in Seq(Nat)
        /\ Len(kept) = IF d + 1 <= Len(time) THEN Len(time) - (d + 1) + 1 ELSE 0
        /\ \A i \in 1 .. Len(time) - (d + 1) + 1 : kept[i] = time[(d + 1) + i - 1]
    BY <2>2, SubSeqProperties
  <2> HIDE DEF kept
  <2>4. Len(kept) = Len(time) - d
    <3>1. Len(kept) = IF d + 1 <= Len(time) THEN Len(time) - (d + 1) + 1 ELSE 0
      BY <2>3
    <3>2. Len(time) \in Nat /\ d \in Nat /\ d <= Len(time)
      BY <1>1, <2>1
    <3> QED
      BY <3>1, <3>2
  <2>5. \A i \in 1 .. Len(kept) : kept[i] = time[i + d] /\ i + d \in 1 .. Len(time)
    <3> SUFFICES ASSUME NEW i \in 1 .. Len(kept)
                 PROVE  kept[i] = time[i + d] /\ i + d \in 1 .. Len(time)
      OBVIOUS
    <3>1. i \in 1 .. Len(time) - (d + 1) + 1 /\ (d + 1) + i - 1 = i + d /\ i + d \in 1 .. Len(time)
      BY <1>1, <2>1, <2>4
    <3> QED
      BY <2>3, <3>1
  <2>6. \A i \in 1 .. Len(time) : time[i] <= x
    <3> TAKE i \in 1 .. Len(time)
    <3>1. Len(time) \in DOMAIN time /\ i <= Len(time) /\ i \in DOMAIN time
      BY <1>1
    <3>2. time[i] <= time[Len(time)]
      BY <3>1 DEF AreSorted
    <3>3. x >= time[Len(time)]
      BY <1>3 DEF Last
    <3> QED
      BY <1>1, <1>2, <3>2, <3>3
  <2> DEFINE r == Append(kept, x)
  <2>7. Room(x).time = r
    BY <1>3 DEF Room, d, kept
  <2>8. /\ r \in Seq(Nat) /\ r # <<>> /\ Len(r) = Len(kept) + 1
        /\ \A i \in 1 .. Len(kept) : r[i] = kept[i]
        /\ r[Len(kept) + 1] = x
    <3>1. kept \in Seq(Nat)
      BY <2>3
    <3> QED
      BY <3>1, AddedLast
  <2> HIDE DEF r
  <2>9. Len(r) + d <= Len(time) + 1 /\ r[Len(r)] = x
    BY <1>1, <2>1, <2>4, <2>8
  <2>10. \A i \in 1 .. Len(r) - 1 :
            i + d \in 1 .. Len(time) /\ r[i] = time[i + d] /\ time[i + d] <= x
    BY <1>1, <2>1, <2>4, <2>5, <2>6, <2>8
  <2>11. IsRoom(r, x)
    BY <2>1, <2>8, <2>9, <2>10, SortedRoom
  <2> QED
    BY <2>7, <2>11
<1>4. CASE ~(x >= Last(time))
  <2> DEFINE kept == SubSeq(time, 1, KeptAt(x) - 1)
             S == {k \in DOMAIN time : time[k] <= x}
  <2>1. Cardinality(S) \in 0 .. Len(time) /\ KeptAt(x) = IF Cardinality(S) >= 1 THEN Cardinality(S) ELSE 1
    BY KeptAtIs
  <2>2. \A k \in 1 .. Cardinality(S) : k \in 1 .. Len(time) /\ time[k] <= x
    BY OldSamplesFirst
  <2> HIDE DEF S
  <2>3. KeptAt(x) - 1 \in Nat /\ KeptAt(x) - 1 <= Len(time) - 1 /\ \A k \in 1 .. KeptAt(x) - 1 : time[k] <= x
    BY <1>1, <2>1, <2>2
  <2> DEFINE n == KeptAt(x) - 1
  <2>30. n \in Nat /\ n <= Len(time) - 1 /\ \A k \in 1 .. n : time[k] <= x
    BY <2>3
  <2>31. kept = SubSeq(time, 1, n)
    OBVIOUS
  <2> HIDE DEF n
  <2>4. 1 \in Int /\ n \in Int /\ \A i \in 1 .. n : time[i] \in Nat
    BY <1>1, <1>2, <2>30
  <2> HIDE DEF kept
  <2>5. /\ kept \in Seq(Nat)
        /\ Len(kept) = IF 1 <= n THEN n - 1 + 1 ELSE 0
        /\ \A i \in 1 .. n - 1 + 1 : kept[i] = time[1 + i - 1]
    BY <2>4, <2>31, SubSeqProperties
  <2>6. Len(kept) = n
    BY <2>30, <2>5
  <2>7. \A i \in 1 .. n : kept[i] = time[i]
    <3> TAKE i \in 1 .. n
    <3>1. i \in 1 .. n - 1 + 1 /\ 1 + i - 1 = i
      BY <2>30
    <3> QED
      BY <2>5, <3>1
  <2> DEFINE r == Append(kept, x)
  <2>8. Room(x).time = r
    BY <1>4 DEF Room, kept
  <2>9. /\ r \in Seq(Nat) /\ r # <<>> /\ Len(r) = Len(kept) + 1
        /\ \A i \in 1 .. Len(kept) : r[i] = kept[i]
        /\ r[Len(kept) + 1] = x
    <3>1. kept \in Seq(Nat)
      BY <2>5
    <3> QED
      BY <3>1, AddedLast
  <2> HIDE DEF r
  <2>10. Len(r) + 0 <= Len(time) + 1 /\ r[Len(r)] = x /\ 0 \in Nat
    BY <1>1, <2>30, <2>6, <2>9
  <2>11. \A i \in 1 .. Len(r) - 1 :
            i + 0 \in 1 .. Len(time) /\ r[i] = time[i + 0] /\ time[i + 0] <= x
    <3> TAKE i \in 1 .. Len(r) - 1
    <3>1. i + 0 = i /\ i \in 1 .. n /\ i \in 1 .. Len(time)
      BY <1>1, <2>30, <2>6, <2>9
    <3> QED
      BY <2>30, <2>6, <2>7, <2>9, <3>1
  <2>12. IsRoom(r, x)
    BY <2>9, <2>10, <2>11, SortedRoom
  <2> QED
    BY <2>8, <2>12
<1> QED
  BY <1>3, <1>4
-----------------------------------------------------------------------------
(* The trials of the ODE stepper *)

\* The time of stage i of the trial.
NodeTime(i) == t + (dt * stepper.nodes[i]) \div NodesUnit

\* Between two trials no sample is after the accepted time.  When one begins, what the trial
\* rejected before left after it is beyond the first stage; once a stage was evaluated, the
\* samples of the trial, within it, are the last ones.
TrialInv ==
    /\ t \in Nat /\ dt \in Steps \cup {0} /\ stage \in Nat
    /\ period \in Periods /\ stepper \in Steppers
    /\ period > 0 => dt = 0
    /\ dt = 0 => \A k \in DOMAIN time : time[k] <= t
    /\ dt > 0 /\ stage = 0 =>
          \A k \in DOMAIN time : time[k] <= t \/ (stepper.nodes # <<>> /\ time[k] > NodeTime(1))
    /\ dt > 0 /\ stage > 0 =>
          /\ \A k \in DOMAIN time : time[k] <= t \/ (NodeTime(1) <= time[k] /\ time[k] <= t + dt)
          /\ \A k \in 1 .. Len(time) - stage : time[k] <= t

BufferInv ==
    /\ time \in Seq(Nat) /\ time # <<>> /\ AreSorted(time)
    /\ TrialInv

\* The quotients are exact.
LEMMA ExactQuotient ==
    ASSUME NEW a \in Nat, NEW u \in Nat, u > 0, a % u = 0
    PROVE  a \div u \in Nat /\ a = u * (a \div u)
OBVIOUS

LEMMA LargerQuotient ==
    ASSUME NEW a \in Nat, NEW b \in Nat, NEW u \in Nat, u > 0
    PROVE  /\ a % u = 0 /\ b % u = 0 /\ a <= b => a \div u <= b \div u
           /\ a % u = 0 /\ b % u = 0 /\ a < b => a \div u < b \div u
<1>1. ASSUME a % u = 0, b % u = 0 PROVE a = u * (a \div u) /\ b = u * (b \div u)
  BY <1>1, ExactQuotient
<1> DEFINE p == a \div u
           q == b \div u
<1>2. ASSUME a % u = 0, b % u = 0 PROVE p \in Nat /\ q \in Nat
  BY <1>2, ExactQuotient
<1>3. ASSUME NEW m \in Nat, NEW n \in Nat, m < n PROVE u * m < u * n
  <2>1. n = m + (n - m) /\ n - m >= 1 /\ n - m \in Nat
    BY <1>3
  <2>2. u * n = u * m + u * (n - m)
    BY <2>1
  <2>3. u * (n - m) >= 1
    BY <2>1
  <2> QED
    BY <2>2, <2>3
<1> QED
  BY <1>1, <1>2, <1>3

\* The stages of a trial are within it, none before the first one; a shorter trial has its first
\* stage earlier.
LEMMA NodesOfTrial ==
    ASSUME NEW s \in Steppers, NEW h \in Steps, NEW i \in DOMAIN s.nodes
    PROVE  /\ 1 \in DOMAIN s.nodes
           /\ (h * s.nodes[i]) \div NodesUnit \in Nat
           /\ (h * s.nodes[i]) \div NodesUnit <= h
           /\ (h * s.nodes[1]) \div NodesUnit <= (h * s.nodes[i]) \div NodesUnit
           /\ \A g \in Steps : g < h => (g * s.nodes[1]) \div NodesUnit < (h * s.nodes[1]) \div NodesUnit
<1> DEFINE u == NodesUnit
           n == s.nodes[i]
           m == s.nodes[1]
<1>1. h \in Nat /\ h >= 1 /\ u \in Nat /\ \A g \in Steps : g \in Nat /\ g >= 1
  BY StepperAssumption
<1>2. s.nodes \in Seq(1 .. u) /\ s.nodes[1] <= s.nodes[i]
  BY StepperAssumption
<1>3. Len(s.nodes) \in Nat /\ DOMAIN s.nodes = 1 .. Len(s.nodes)
  BY <1>2, LenProperties
<1>4. 1 \in DOMAIN s.nodes /\ n \in 1 .. u /\ m \in 1 .. u
  <2>1. i \in 1 .. Len(s.nodes) /\ 1 \in 1 .. Len(s.nodes)
    BY <1>3
  <2>2. s.nodes \in Seq(1 .. u)
    BY <1>2
  <2>3. n \in 1 .. u
    BY <2>1, <2>2, ElementOfSeq
  <2>4. m \in 1 .. u
    BY <2>1, <2>2, ElementOfSeq
  <2> QED
    BY <1>3, <2>1, <2>3, <2>4
<1>5. \A g \in Steps : (g * m) % u = 0 /\ (g * n) % u = 0
  BY <1>4, StepperAssumption
<1>6. m <= n
  BY <1>2
<1> HIDE DEF u, n, m
<1>7. u > 0 /\ n \in Nat /\ m \in Nat /\ n <= u /\ m >= 1
  BY <1>1, <1>4
<1>8. h * n \in Nat /\ h * m \in Nat /\ h * m <= h * n /\ h * u \in Nat /\ h * n <= h * u
  BY <1>1, <1>6, <1>7
<1>9. (h * u) % u = 0 /\ (h * u) \div u = h
  BY <1>1, <1>7
<1>10. (h * n) \div u \in Nat
  BY <1>1, <1>5, <1>7, <1>8, ExactQuotient
<1>11. (h * n) \div u <= (h * u) \div u
  BY <1>1, <1>5, <1>7, <1>8, <1>9, LargerQuotient
<1>12. (h * m) \div u <= (h * n) \div u
  BY <1>1, <1>5, <1>7, <1>8, LargerQuotient
<1>13. ASSUME NEW g \in Steps, g < h PROVE (g * m) \div u < (h * m) \div u
  <2>1. g * m \in Nat /\ g * m < h * m
    <3>1. h = g + (h - g) /\ h - g >= 1 /\ h - g \in Nat /\ g \in Nat
      BY <1>1, <1>13
    <3>2. h * m = g * m + (h - g) * m
      BY <1>7, <3>1
    <3>3. (h - g) * m >= 1
      BY <1>7, <3>1
    <3> QED
      BY <1>7, <3>1, <3>2, <3>3
  <2> QED
    BY <1>1, <1>5, <1>7, <1>8, <2>1, LargerQuotient
<1> QED
  BY <1>4, <1>9, <1>10, <1>11, <1>12, <1>13 DEF u, n, m
\* The call of setAll makes room for its sample.
LEMMA SetAllIs ==
    ASSUME BufferInv, NEW x \in Nat, NEW of, SetAll(x, of)
    PROVE  IsRoom(time', x)
BY RoomIs DEF BufferInv, SetAll

\* Calls at the accepted time.
LEMMA SampleAtTime ==
    ASSUME NEW x \in Nat, NEW times, IsRoom(times, x)
    PROVE  /\ times \in Seq(Nat) /\ times # <<>> /\ AreSorted(times)
           /\ \A k \in DOMAIN times : times[k] \in Nat /\ times[k] <= x
<1>1. times \in Seq(Nat) /\ times # <<>> /\ AreSorted(times) /\ times[Len(times)] = x
  BY DEF IsRoom
<1>2. Len(times) \in Nat \ {0} /\ DOMAIN times = 1 .. Len(times)
  BY <1>1, EmptySeq, LenProperties
<1>3. \A k \in DOMAIN times : times[k] \in Nat
  BY <1>1, <1>2, ElementOfSeq
<1>4. \A k \in DOMAIN times : times[k] <= times[Len(times)]
  BY <1>1, <1>2 DEF AreSorted
<1> QED
  BY <1>1, <1>3, <1>4

\* A stage: what is before its sample in the buffer is old enough, and none of it of a trial
\* that was rejected.
LEMMA StageKeeps ==
    ASSUME BufferInv, Stage
    PROVE  BufferInv'
<1> DEFINE x == t + (dt * stepper.nodes[stage + 1]) \div NodesUnit
<1>1. /\ dt \in Steps /\ dt > 0 /\ stage \in Nat /\ stage < Len(stepper.nodes) /\ t \in Nat
      /\ stepper \in Steppers /\ period \in Periods
  BY DEF BufferInv, TrialInv, Stage
<1>2. /\ stage' = stage + 1 /\ SetAll(x, x)
      /\ UNCHANGED <<t, dt, period, stepper>>
  BY DEF Stage, options
<1>3. stepper.nodes \in Seq(1 .. NodesUnit)
  BY <1>1, StepperAssumption
<1>4. stage + 1 \in DOMAIN stepper.nodes /\ stepper.nodes # <<>>
  <2>1. Len(stepper.nodes) \in Nat /\ DOMAIN stepper.nodes = 1 .. Len(stepper.nodes)
    BY <1>3, LenProperties
  <2>2. stage + 1 \in 1 .. Len(stepper.nodes)
    BY <1>1, <2>1
  <2> QED
    BY <2>1, <2>2
<1>5. x \in Nat /\ x <= t + dt /\ NodeTime(1) \in Nat /\ NodeTime(1) <= x /\ dt \in Nat
  <2>1. /\ (dt * stepper.nodes[stage + 1]) \div NodesUnit \in Nat
        /\ (dt * stepper.nodes[stage + 1]) \div NodesUnit <= dt
        /\ (dt * stepper.nodes[1]) \div NodesUnit <= (dt * stepper.nodes[stage + 1]) \div NodesUnit
        /\ 1 \in DOMAIN stepper.nodes
    BY <1>1, <1>4, NodesOfTrial
  <2>2. (dt * stepper.nodes[1]) \div NodesUnit \in Nat
    BY <1>1, <2>1, NodesOfTrial
  <2>3. dt \in Nat
    BY <1>1, StepperAssumption
  <2> DEFINE p == (dt * stepper.nodes[stage + 1]) \div NodesUnit
             q == (dt * stepper.nodes[1]) \div NodesUnit
  <2>4. x = t + p /\ NodeTime(1) = t + q
    BY DEF NodeTime
  <2> HIDE DEF p, q, x
  <2>5. p \in Nat /\ p <= dt /\ q <= p /\ q \in Nat
    BY <2>1, <2>2 DEF p, q
  <2> QED
    BY <1>1, <2>3, <2>4, <2>5
<1>6. stage = 0 => x = NodeTime(1)
  BY DEF NodeTime
<1> HIDE DEF x
<1>7. IsRoom(time', x)
  BY <1>2, <1>5, SetAllIs
<1>8. /\ time' \in Seq(Nat) /\ time' # <<>> /\ AreSorted(time')
      /\ \A k \in DOMAIN time' : time'[k] \in Nat /\ time'[k] <= x
  BY <1>5, <1>7, SampleAtTime
<1>9. time \in Seq(Nat) /\ Len(time) \in Nat /\ DOMAIN time = 1 .. Len(time)
  BY LenProperties DEF BufferInv
<1>10. \A k \in DOMAIN time : time[k] \in Nat
  BY <1>9, ElementOfSeq
<1>11. Len(time') \in Nat /\ DOMAIN time' = 1 .. Len(time') /\ time'[Len(time')] = x
  BY <1>7, <1>8, LenProperties DEF IsRoom
<1>12. PICK d \in Nat :
          /\ Len(time') + d <= Len(time) + 1
          /\ \A i \in 1 .. Len(time') - 1 :
                i + d \in 1 .. Len(time) /\ time'[i] = time[i + d] /\ time[i + d] <= x
  BY <1>7 DEF IsRoom
<1>13. \A k \in DOMAIN time' : time'[k] <= t \/ (NodeTime(1) <= time'[k] /\ time'[k] <= t + dt)
  <2> TAKE k \in DOMAIN time'
  <2>1. CASE k = Len(time')
    BY <1>1, <1>5, <1>11, <2>1
  <2>2. CASE k # Len(time')
    <3>1. k \in 1 .. Len(time') - 1
      BY <1>11, <2>2
    <3>2. k + d \in DOMAIN time /\ time'[k] = time[k + d] /\ time[k + d] <= x
      BY <1>9, <1>12, <3>1
    <3>3. CASE stage = 0
      <4>1. time[k + d] <= t \/ time[k + d] > NodeTime(1)
        BY <1>1, <3>2, <3>3 DEF BufferInv, TrialInv
      <4> QED
        BY <1>5, <1>6, <1>10, <3>2, <3>3, <4>1
    <3>4. CASE stage # 0
      <4>1. time[k + d] <= t \/ (NodeTime(1) <= time[k + d] /\ time[k + d] <= t + dt)
        BY <1>1, <3>2, <3>4 DEF BufferInv, TrialInv
      <4> QED
        BY <3>2, <4>1
    <3> QED
      BY <3>3, <3>4
  <2> QED
    BY <2>1, <2>2
<1>14. \A k \in 1 .. Len(time') - (stage + 1) : time'[k] <= t
  <2> TAKE k \in 1 .. Len(time') - (stage + 1)
  <2>1. k \in 1 .. Len(time') - 1
    BY <1>1, <1>11
  <2>2. k + d \in 1 .. Len(time) /\ time'[k] = time[k + d] /\ time[k + d] <= x
    BY <1>12, <2>1
  <2>3. CASE stage = 0
    <3>1. time[k + d] <= t \/ time[k + d] > NodeTime(1)
      BY <1>1, <1>9, <2>2, <2>3 DEF BufferInv, TrialInv
    <3> QED
      BY <1>5, <1>6, <1>9, <1>10, <2>2, <2>3, <3>1
  <2>4. CASE stage # 0
    <3>1. k + d \in 1 .. Len(time) - stage
      BY <1>1, <1>9, <1>11, <1>12, <2>2
    <3>2. time[k + d] <= t
      BY <1>1, <2>4, <3>1 DEF BufferInv, TrialInv
    <3> QED
      BY <2>2, <3>2
  <2> QED
    BY <2>3, <2>4
<1>15. NodeTime(1)' = NodeTime(1)
  BY <1>2 DEF NodeTime
<1>16. stage' \in Nat /\ stage' > 0
  BY <1>1, <1>2
<1>17. TrialInv'
  <2>1. (period > 0 => dt = 0)'
    BY <1>2 DEF BufferInv, TrialInv
  <2>2. (dt > 0 /\ dt # 0)' /\ (stage # 0)'
    BY <1>1, <1>2, <1>5, <1>16
  <2>3. \A k \in 1 .. Len(time') - stage' : time'[k] <= t'
    BY <1>2, <1>14
  <2>4. \A k \in DOMAIN time' : time'[k] <= t' \/ (NodeTime(1)' <= time'[k] /\ time'[k] <= t' + dt')
    BY <1>2, <1>13, <1>15
  <2> QED
    BY <1>1, <1>2, <1>16, <2>1, <2>2, <2>3, <2>4 DEF TrialInv
<1> QED
  BY <1>8, <1>17 DEF BufferInv, AreSorted

\* Calls that leave no sample after the time of the state.
LEMMA AllAccepted ==
    ASSUME t' \in Nat, dt' = 0, stage' \in Nat, period' \in Periods, stepper' \in Steppers,
           time' \in Seq(Nat), time' # <<>>, AreSorted(time'),
           \A k \in DOMAIN time' : time'[k] <= t'
    PROVE  BufferInv'
<1>1. ~(dt' > 0) /\ dt' \in Steps \cup {0}
  OBVIOUS
<1>2. TrialInv'
  BY <1>1 DEF TrialInv
<1> QED
  BY <1>2 DEF BufferInv, AreSorted
LEMMA StartKeepsBuffer ==
    ASSUME StartSensors
    PROVE  BufferInv'
<1> DEFINE n == InitIterations + 2
<1>1. n \in Nat /\ n >= 1
  BY StepperAssumption
<1>2. time' = [k \in 1 .. n |-> 0]
  BY DEF StartSensors
<1> HIDE DEF n
<1>3. time' \in Seq(Nat) /\ Len(time') = n
  BY <1>1, <1>2
<1>4. DOMAIN time' = 1 .. n /\ \A k \in 1 .. n : time'[k] = 0
  BY <1>2
<1>5. time' # <<>>
  BY <1>1, <1>3
<1>6. AreSorted(time') /\ t' = 0 /\ \A k \in DOMAIN time' : time'[k] <= t'
  BY <1>4 DEF AreSorted, StartSensors
<1>7. t' \in Nat /\ dt' = 0 /\ stage' \in Nat /\ period' \in Periods /\ stepper' \in Steppers
  BY DEF StartSensors
<1> QED
  BY <1>3, <1>5, <1>6, <1>7, AllAccepted

\* A trial begins with no sample after the accepted time ...
LEMMA TryKeepsBuffer ==
    ASSUME BufferInv, NEW h \in Steps, Try(h)
    PROVE  BufferInv'
<1>1. h \in Nat /\ h >= 1
  BY StepperAssumption
<1>2. /\ dt = 0 /\ dt' = h /\ stage' = 0 /\ period = 0
      /\ UNCHANGED <<time, t, period, stepper>>
  BY DEF Try, buffer, options
<1>3. \A k \in DOMAIN time : time[k] <= t
  BY <1>2 DEF BufferInv, TrialInv
<1>4. TrialInv'
  BY <1>1, <1>2, <1>3 DEF BufferInv, TrialInv
<1> QED
  BY <1>2, <1>4 DEF BufferInv, AreSorted

\* ... or with those of a longer one.
LEMMA RejectKeepsBuffer ==
    ASSUME BufferInv, NEW h \in Steps, Reject(h)
    PROVE  BufferInv'
<1>1. h \in Nat /\ h >= 1
  BY StepperAssumption
<1>2. /\ dt > 0 /\ stage = Len(stepper.nodes) /\ h < dt /\ dt' = h /\ stage' = 0
      /\ UNCHANGED <<time, t, period, stepper>>
  BY DEF Reject, buffer, options
<1>3. /\ dt \in Steps /\ dt # 0 /\ stage \in Nat /\ t \in Nat /\ stepper \in Steppers /\ period \in Periods
      /\ (period > 0 => dt = 0)
  BY <1>2 DEF BufferInv, TrialInv
<1>4. stepper.nodes \in Seq(1 .. NodesUnit)
  BY <1>3, StepperAssumption
<1>5. time \in Seq(Nat) /\ DOMAIN time = 1 .. Len(time) /\ \A k \in DOMAIN time : time[k] \in Nat
  BY LenProperties, ElementOfSeq DEF BufferInv
<1>6. \A k \in DOMAIN time : time[k] <= t \/ (stepper.nodes # <<>> /\ time[k] > NodeTime(1)')
  <2> TAKE k \in DOMAIN time
  <2>1. CASE stage = 0
    <3>1. stepper.nodes = <<>>
      BY <1>2, <1>4, <2>1, EmptySeq
    <3> QED
      BY <1>2, <2>1, <3>1 DEF BufferInv, TrialInv
  <2>2. CASE stage # 0
    <3>1. Len(stepper.nodes) \in Nat /\ DOMAIN stepper.nodes = 1 .. Len(stepper.nodes)
      BY <1>4, LenProperties
    <3>2. 1 \in DOMAIN stepper.nodes /\ stepper.nodes # <<>>
      BY <1>2, <1>4, <2>2, <3>1, EmptySeq
    <3> DEFINE p == (h * stepper.nodes[1]) \div NodesUnit
               q == (dt * stepper.nodes[1]) \div NodesUnit
    <3>3. p < q
      BY <1>2, <1>3, <3>2, NodesOfTrial
    <3>4. p \in Nat /\ q \in Nat
      BY <1>3, <3>2, NodesOfTrial
    <3>5. NodeTime(1)' = t + p /\ NodeTime(1) = t + q
      BY <1>2 DEF NodeTime
    <3>6. time[k] <= t \/ NodeTime(1) <= time[k]
      BY <1>2, <1>3, <2>2 DEF BufferInv, TrialInv
    <3> HIDE DEF p, q
    <3> QED
      BY <1>3, <1>5, <3>2, <3>3, <3>4, <3>5, <3>6
  <2> QED
    BY <2>1, <2>2
<1>7. period' \in Periods /\ (period' > 0 => dt' = 0)
  <2>1. ~(period > 0)
    BY <1>3
  <2> QED
    BY <1>2, <1>3, <2>1
<1>8. TrialInv'
  BY <1>1, <1>2, <1>3, <1>6, <1>7 DEF TrialInv
<1> QED
  BY <1>2, <1>8 DEF BufferInv, AreSorted

\* An accepted trial: its samples are within it.
LEMMA AcceptKeepsBuffer ==
    ASSUME BufferInv, Accept
    PROVE  BufferInv'
<1>1. /\ dt > 0 /\ dt \in Steps /\ stage \in Nat /\ t \in Nat /\ stepper \in Steppers /\ period \in Periods
  BY DEF BufferInv, TrialInv, Accept
<1>2. dt \in Nat
  BY <1>1, StepperAssumption
<1>3. t' = t + dt /\ dt' = 0 /\ stage' = stage + 1 /\ UNCHANGED options
  BY DEF Accept
<1>4. t' \in Nat /\ stage' \in Nat /\ period' \in Periods /\ stepper' \in Steppers
  BY <1>1, <1>2, <1>3 DEF options
<1>5. CASE UNCHANGED buffer /\ stage = Len(stepper.nodes)
  <2>1. time' = time
    BY <1>5 DEF buffer
  <2>2. \A k \in DOMAIN time : time[k] \in Nat /\ time[k] <= t + dt
    <3> TAKE k \in DOMAIN time
    <3>1. time[k] \in Nat
      BY LenProperties, ElementOfSeq DEF BufferInv
    <3>2. CASE stage = 0
      <4>1. stepper.nodes = <<>>
        BY <1>1, <1>5, <3>2, EmptySeq, StepperAssumption
      <4>2. time[k] <= t
        BY <1>1, <3>2, <4>1 DEF BufferInv, TrialInv
      <4> QED
        BY <1>1, <1>2, <3>1, <4>2
    <3>3. CASE stage # 0
      <4>1. time[k] <= t \/ time[k] <= t + dt
        BY <1>1, <3>3 DEF BufferInv, TrialInv
      <4> QED
        BY <1>1, <1>2, <3>1, <4>1
    <3> QED
      BY <3>2, <3>3
  <2>3. time' \in Seq(Nat) /\ time' # <<>> /\ AreSorted(time')
    BY <2>1 DEF BufferInv, AreSorted
  <2>4. \A k \in DOMAIN time' : time'[k] <= t'
    BY <1>3, <2>1, <2>2
  <2> QED
    BY <1>3, <1>4, <2>3, <2>4, AllAccepted
<1>6. CASE SetAll(t, t + dt)
  <2>1. IsRoom(time', t)
    BY <1>1, <1>6, SetAllIs
  <2>2. /\ time' \in Seq(Nat) /\ time' # <<>> /\ AreSorted(time')
        /\ \A k \in DOMAIN time' : time'[k] \in Nat /\ time'[k] <= t
    BY <1>1, <2>1, SampleAtTime
  <2>3. \A k \in DOMAIN time' : time'[k] <= t'
    BY <1>1, <1>2, <1>3, <2>2
  <2> QED
    BY <1>3, <1>4, <2>2, <2>3, AllAccepted
<1> QED
  BY <1>5, <1>6 DEF Accept

LEMMA EndIterationKeepsBuffer ==
    ASSUME BufferInv, EndIteration
    PROVE  BufferInv'
<1>1. /\ dt = 0 /\ t \in Nat /\ stepper \in Steppers /\ period \in Periods
      /\ SetAll(t, t) /\ stage' = 0 /\ UNCHANGED <<t, dt, period, stepper>>
  BY DEF BufferInv, TrialInv, EndIteration, options
<1>2. IsRoom(time', t)
  BY <1>1, SetAllIs
<1>3. /\ time' \in Seq(Nat) /\ time' # <<>> /\ AreSorted(time')
      /\ \A k \in DOMAIN time' : time'[k] \in Nat /\ time'[k] <= t
  BY <1>1, <1>2, SampleAtTime
<1>4. t' \in Nat /\ dt' = 0 /\ stage' \in Nat /\ period' \in Periods /\ stepper' \in Steppers
  BY <1>1
<1>5. \A k \in DOMAIN time' : time'[k] <= t'
  BY <1>1, <1>3
<1> QED
  BY <1>3, <1>4, <1>5, AllAccepted

LEMMA BreakpointKeepsBuffer ==
    ASSUME BufferInv, Breakpoint
    PROVE  BufferInv'
<1>1. /\ dt = 0 /\ t \in Nat /\ stage \in Nat /\ stepper \in Steppers /\ period \in Periods
      /\ period \in Nat
  BY StepperAssumption DEF BufferInv, TrialInv, Breakpoint
<1>2. SetAll(t + period, t + period) /\ t' = t + period /\ UNCHANGED <<dt, stage, period, stepper>>
  BY DEF Breakpoint, options
<1>3. t + period \in Nat
  BY <1>1
<1>4. IsRoom(time', t + period)
  BY <1>2, <1>3, SetAllIs
<1>5. /\ time' \in Seq(Nat) /\ time' # <<>> /\ AreSorted(time')
      /\ \A k \in DOMAIN time' : time'[k] \in Nat /\ time'[k] <= t + period
  BY <1>3, <1>4, SampleAtTime
<1>6. t' \in Nat /\ dt' = 0 /\ stage' \in Nat /\ period' \in Periods /\ stepper' \in Steppers
  BY <1>1, <1>2, <1>3
<1>7. \A k \in DOMAIN time' : time'[k] <= t'
  BY <1>2, <1>5
<1> QED
  BY <1>5, <1>6, <1>7, AllAccepted

LEMMA UnchangedBuffer ==
    ASSUME BufferInv, UNCHANGED <<time, t, dt, stage, period, stepper>>
    PROVE  BufferInv'
BY DEF BufferInv, AreSorted, TrialInv, NodeTime

\* The invariant: what the stages of a trial leave in the buffer, and in which order.
LEMMA BufferInvHolds == SensorsSpec => []BufferInv
<1>1. SensorsInit => BufferInv
  <2> SUFFICES ASSUME SensorsInit PROVE BufferInv
    OBVIOUS
  <2>1. time = <<0>> /\ t = 0 /\ dt = 0 /\ stage = 0 /\ period \in Periods /\ stepper \in Steppers
    BY DEF SensorsInit
  <2>2. time \in Seq(Nat) /\ time # <<>> /\ DOMAIN time = {1} /\ time[1] = 0
    BY <2>1
  <2>3. AreSorted(time) /\ \A k \in DOMAIN time : time[k] <= t
    BY <2>1, <2>2 DEF AreSorted
  <2> QED
    BY <2>1, <2>2, <2>3 DEF BufferInv, TrialInv
<1>2. BufferInv /\ [SensorsNext]_sensorsVars => BufferInv'
  <2> SUFFICES ASSUME BufferInv, [SensorsNext]_sensorsVars PROVE BufferInv'
    OBVIOUS
  <2>1. CASE StartSensors
    BY <2>1, StartKeepsBuffer
  <2>2. CASE Stage
    BY <2>2, StageKeeps
  <2>3. CASE Accept
    BY <2>3, AcceptKeepsBuffer
  <2>4. CASE EndIteration
    BY <2>4, EndIterationKeepsBuffer
  <2>5. CASE Breakpoint
    BY <2>5, BreakpointKeepsBuffer
  <2>6. CASE StopSensors
    BY <2>6, UnchangedBuffer DEF StopSensors, buffer, options
  <2>7. ASSUME NEW h \in Steps, Try(h) PROVE BufferInv'
    BY <2>7, TryKeepsBuffer
  <2>8. ASSUME NEW h \in Steps, Reject(h) PROVE BufferInv'
    BY <2>8, RejectKeepsBuffer
  <2>9. CASE UNCHANGED sensorsVars
    BY <2>9, UnchangedBuffer DEF sensorsVars, buffer, options
  <2> QED
    BY <2>1, <2>2, <2>3, <2>4, <2>5, <2>6, <2>7, <2>8, <2>9 DEF SensorsNext
<1> QED
  BY <1>1, <1>2, PTL DEF SensorsSpec

\* The bisection of interpolateData may rely on the order of the times, wherever the solver
\* goes back to, and whatever the steps, the nodes and the delays.
THEOREM TimesAreSorted == SensorsSpec => []TimesSorted
<1>1. BufferInv => TimesSorted
  <2> SUFFICES ASSUME BufferInv, NEW k \in 1 .. Len(time) - 1 PROVE time[k] <= time[k + 1]
    BY DEF TimesSorted
  <2>1. Len(time) \in Nat /\ DOMAIN time = 1 .. Len(time)
    BY LenProperties DEF BufferInv
  <2>2. k \in DOMAIN time /\ k + 1 \in DOMAIN time /\ k <= k + 1
    BY <2>1
  <2> QED
    BY <2>2 DEF BufferInv, AreSorted
<1> QED
  BY <1>1, BufferInvHolds, PTL

\* Once a trial has evaluated a stage, the samples after the accepted time are its own, for any
\* explicit stepper of which the first node is the earliest, however often it rejects.
THEOREM RejectedSamplesGone == SensorsSpec => []NoRejectedSample
<1>1. BufferInv => NoRejectedSample
  <2> SUFFICES ASSUME BufferInv, dt > 0, stage > 0
               PROVE  Cardinality({k \in DOMAIN time : time[k] > t}) <= stage
    BY DEF NoRejectedSample
  <2> DEFINE n == Len(time)
             first == IF stage <= n THEN n - stage + 1 ELSE 1
             S == {k \in DOMAIN time : time[k] > t}
  <2>1. n \in Nat /\ DOMAIN time = 1 .. n /\ time \in Seq(Nat) /\ stage \in Nat /\ t \in Nat
    BY LenProperties DEF BufferInv, TrialInv
  <2>2. \A k \in DOMAIN time : time[k] \in Nat
    BY <2>1, ElementOfSeq
  <2>3. \A k \in 1 .. n - stage : time[k] <= t
    BY DEF BufferInv, TrialInv
  <2>4. S \subseteq first .. n
    <3> SUFFICES ASSUME NEW k \in DOMAIN time, time[k] > t PROVE k \in first .. n
      OBVIOUS
    <3>1. k \notin 1 .. n - stage
      BY <2>1, <2>2, <2>3
    <3> HIDE DEF n
    <3> QED
      BY <2>1, <3>1
  <2> HIDE DEF S, n
  <2>5. first \in Int /\ n \in Int /\ first \in Nat
    BY <2>1
  <2>6. n - first + 1 <= stage /\ (first > n => 0 <= stage)
    BY <2>1
  <2> HIDE DEF first
  <2>7. IsFiniteSet(first .. n) /\ Cardinality(first .. n) = IF first > n THEN 0 ELSE n - first + 1
    BY <2>5, FS_Interval
  <2>8. Cardinality(first .. n) <= stage
    BY <2>5, <2>6, <2>7
  <2>9. Cardinality(S) <= Cardinality(first .. n) /\ Cardinality(S) \in Nat /\ Cardinality(first .. n) \in Nat
    BY <2>4, <2>7, FS_Subset, FS_CardinalityType
  <2> QED
    BY <2>1, <2>8, <2>9 DEF S
<1> QED
  BY <1>1, BufferInvHolds, PTL
=============================================================================
