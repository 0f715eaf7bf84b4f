---------------------------- MODULE EngineForces ----------------------------
(***************************************************************************)
(* The registers of an engine between two simulations: its systems, the    *)
(* forces registered for each of them and between them, the update periods *)
(* in its options, and stepperUpdatePeriod_, the period of the breakpoints *)
(* of the integration loop, which every call has to keep in line with the  *)
(* periods it changes.  EngineStepper takes the outcome as constants.      *)
(*                                                                         *)
(* A system is a name, a force profile the period it is updated at (0 if   *)
(* it is continuous), an impulse force the time it starts and its          *)
(* duration, a coupling force the names and the indices of its two         *)
(* systems.  What each force does, and to which frame, is abstracted away: *)
(* isFrameValid tells whether the frame exists and is not the universe,    *)
(* isRobotValid whether the robot and its controller are initialised, for  *)
(* each other, and the robot is in no other system if that is checked.     *)
(***************************************************************************)
EXTENDS Integers, FiniteSets, SequencesExt

CONSTANTS
    Names,          \* names the systems are given
    Periods,        \* update periods a user asks for, 0: continuous
    SimMin,         \* SIMULATION_MIN_TIMESTEP
    Windows,        \* impulse forces a user asks for
    StepperMin,     \* STEPPER_MIN_TIMESTEP
    Infinity,       \* INF
    MaxSystems,     \* bounds of a run: systems ...
    MaxForces,      \* ... impulse forces since `reset', or profiles, of a system ...
    MaxCouplings    \* ... and coupling forces

ASSUME PeriodsAssumption ==
    /\ Periods \subseteq Nat /\ 0 \in Periods /\ SimMin \in Nat
    /\ Infinity \in Nat /\ \A p \in Periods : p < Infinity

ASSUME WindowsAssumption ==
    /\ Windows \subseteq [t : Int, dt : Int] /\ StepperMin \in Nat

ASSUME BoundsAssumption ==
    MaxSystems \in Nat /\ MaxForces \in Nat /\ MaxCouplings \in Nat

VARIABLES
    systems,                \* systems_: the names
    systemsData,            \* systemsDataHolder_: the registers of each system
    forcesCoupling,         \* forcesCoupling_
    controllerUpdatePeriod, sensorsUpdatePeriod,    \* the options
    stepperUpdatePeriod,
    isSimulationRunning,
    returnCode,             \* of the last call
    isRefused               \* history: that call was refused

registers == <<systems, systemsData, forcesCoupling>>
periods == <<controllerUpdatePeriod, sensorsUpdatePeriod, stepperUpdatePeriod>>
vars == <<registers, periods, isSimulationRunning, returnCode, isRefused>>

NoData == [profiles |-> {}, impulses |-> <<>>, breaks |-> {}, activeFlags |-> 0]

Init ==
    /\ systems = <<>> /\ systemsData = <<>> /\ forcesCoupling = {}
    /\ controllerUpdatePeriod = 0 /\ sensorsUpdatePeriod = 0
    /\ stepperUpdatePeriod = Infinity
    /\ isSimulationRunning = FALSE
    /\ returnCode = "SUCCESS" /\ isRefused = FALSE

Report(isDone) == /\ returnCode' = IF isDone THEN "SUCCESS" ELSE "ERROR"
                  /\ isRefused' = ~isDone

\* SUCCESS, whatever happened.
ReportSuccess(isDone) == returnCode' = "SUCCESS" /\ isRefused' = ~isDone

-----------------------------------------------------------------------------
(* Is the shortest of some periods a divisor of the others? *)

\* minClipped: zeros, the continuous ones, do not count.
MinClipped(P) == IF \E p \in P : p > 0 THEN Min({p \in P : p > 0}) ELSE Infinity

\* fmod(value, period) < EPS.  The remainder of an infinite value is not a number, which
\* is smaller than nothing.
IsMultiple(value, period) == value # Infinity /\ value % period = 0

IsGcdIncluded(P) ==
    MinClipped(P) = Infinity \/ \A p \in P : p = 0 \/ IsMultiple(p, MinClipped(P))

\* The periods of the profiles of a system, and other ones.  Without any profile that is
\* discrete they fit, but a discrete profile does not fit other ones that are all continuous:
\* INF is no multiple of its period.
GcdOf(P, Q) ==
    LET p == MinClipped(P)
        q == MinClipped(Q)
    IN  IF ~IsGcdIncluded(P) \/ ~IsGcdIncluded(Q) THEN [isIncluded |-> FALSE, period |-> Infinity]
        ELSE [isIncluded |-> p = Infinity \/ IsMultiple(p, q) \/ IsMultiple(q, p),
              period     |-> Min({p, q})]

\* System by system, up to the first one that does not fit.
GcdOfSystems(data, Q) ==
    LET gcd == [i \in DOMAIN data |-> GcdOf(data[i].profiles, Q)]
        misfits == {i \in DOMAIN data : ~gcd[i].isIncluded}
        visited == IF misfits = {} THEN DOMAIN data ELSE 1 .. Min(misfits)
    IN  IF data = <<>> THEN [isIncluded |-> IsGcdIncluded(Q), period |-> MinClipped(Q)]
        ELSE [isIncluded |-> misfits = {},
              period     |-> Min({gcd[i].period : i \in visited})]

OptionPeriods == {controllerUpdatePeriod, sensorsUpdatePeriod}

-----------------------------------------------------------------------------
(* The systems *)

IsSystem(name) == \E i \in DOMAIN systems : systems[i] = name
SystemIdx(name) == Min({i \in DOMAIN systems : systems[i] = name})

AddSystemWithController(name, isRobotValid) ==
    LET isDone == ~isSimulationRunning /\ isRobotValid
    IN  /\ Len(systems) < MaxSystems
        /\ Report(isDone)
        /\ IF isDone THEN /\ systems' = Append(systems, name)
                          /\ systemsData' = Append(systemsData, NoData)
           ELSE UNCHANGED <<systems, systemsData>>
        /\ UNCHANGED <<forcesCoupling, periods, isSimulationRunning>>

\* With a controller doing nothing: here the name is checked.
AddSystem(name, isRobotValid) == AddSystemWithController(name, isRobotValid /\ ~IsSystem(name))

Involves(force, name) == force.name1 = name \/ force.name2 = name

\* Variant: the system removed is counted as after itself.
ShiftedFromRemoved(idx, removed) == IF idx > removed + 1 THEN idx - 1 ELSE idx

Shifted(idx, removed) == IF idx > removed THEN idx - 1 ELSE idx

RemoveSystem(name) ==
    LET idx == SystemIdx(name)
        kept == {force \in forcesCoupling : ~Involves(force, name)}
    IN  /\ Report(~isSimulationRunning /\ IsSystem(name))
        /\ IF isSimulationRunning \/ ~IsSystem(name) THEN UNCHANGED registers
           ELSE /\ forcesCoupling' = {[force EXCEPT !.idx1 = Shifted(@, idx),
                                                    !.idx2 = Shifted(@, idx)] : force \in kept}
                /\ systems' = RemoveAt(systems, idx)
                /\ systemsData' = RemoveAt(systemsData, idx)
        /\ UNCHANGED <<periods, isSimulationRunning>>

-----------------------------------------------------------------------------
(* Coupling forces *)

RegisterForceCoupling(name1, name2, isFrameValid) ==
    LET isDone == ~isSimulationRunning /\ IsSystem(name1) /\ IsSystem(name2) /\ isFrameValid
    IN  /\ Cardinality(forcesCoupling) < MaxCouplings
        /\ Report(isDone)
        /\ forcesCoupling' = forcesCoupling \cup
              (IF isDone THEN {[name1 |-> name1, idx1 |-> SystemIdx(name1),
                                name2 |-> name2, idx2 |-> SystemIdx(name2)]}
               ELSE {})
        /\ UNCHANGED <<systems, systemsData, periods, isSimulationRunning>>

RemoveForcesCoupling(name1, name2) ==
    LET isDone == ~isSimulationRunning /\ IsSystem(name1) /\ IsSystem(name2)
    IN  /\ Report(isDone)
        /\ forcesCoupling' =
              {force \in forcesCoupling : ~(isDone /\ force.name1 = name1 /\ force.name2 = name2)}
        /\ UNCHANGED <<systems, systemsData, periods, isSimulationRunning>>

RemoveForcesCouplingOf(name) ==
    LET isDone == ~isSimulationRunning /\ IsSystem(name)
    IN  /\ Report(isDone)
        /\ forcesCoupling' = {force \in forcesCoupling : ~(isDone /\ Involves(force, name))}
        /\ UNCHANGED <<systems, systemsData, periods, isSimulationRunning>>

RemoveAllForcesCoupling ==
    /\ Report(~isSimulationRunning)
    /\ forcesCoupling' = {}
    /\ UNCHANGED <<systems, systemsData, periods, isSimulationRunning>>

-----------------------------------------------------------------------------
(* Impulse forces *)

\* Variant: the end is not a breakpoint.
WithImpulseStart(data, w) ==
    [data EXCEPT !.impulses = Append(@, w), !.breaks = @ \cup {w.t}, !.activeFlags = @ + 1]

WithImpulse(data, w) ==
    [data EXCEPT !.impulses = Append(@, w),
                 !.breaks = @ \cup {w.t, w.t + w.dt},
                 !.activeFlags = @ + 1]

RegisterForceImpulse(name, w, isFrameValid) ==
    LET isDone == /\ ~isSimulationRunning /\ IsSystem(name) /\ isFrameValid
                  /\ w.dt >= StepperMin /\ w.t >= 0
    IN  /\ isDone => systemsData[SystemIdx(name)].activeFlags < MaxForces
        /\ ReportSuccess(isDone)
        /\ systemsData' = IF isDone THEN [systemsData EXCEPT ![SystemIdx(name)] = WithImpulse(@, w)]
                          ELSE systemsData
        /\ UNCHANGED <<systems, forcesCoupling, periods, isSimulationRunning>>

WithoutImpulses(data) == [data EXCEPT !.impulses = <<>>]

RemoveForcesImpulseOf(name) ==
    LET isDone == ~isSimulationRunning /\ IsSystem(name)
    IN  /\ ReportSuccess(isDone)
        /\ systemsData' = IF isDone THEN [systemsData EXCEPT ![SystemIdx(name)] = WithoutImpulses(@)]
                          ELSE systemsData
        /\ UNCHANGED <<systems, forcesCoupling, periods, isSimulationRunning>>

RemoveForcesImpulse ==
    /\ Report(~isSimulationRunning)
    /\ systemsData' = IF isSimulationRunning THEN systemsData
                      ELSE [i \in DOMAIN systemsData |-> WithoutImpulses(systemsData[i])]
    /\ UNCHANGED <<systems, forcesCoupling, periods, isSimulationRunning>>

-----------------------------------------------------------------------------
(* Force profiles *)

IsPeriodValid(p) == p = 0 \/ SimMin <= p

\* The periods once a profile is updated at p.
WithPeriod(p) == GcdOfSystems(systemsData, {stepperUpdatePeriod, p})

RegisterForceProfile(name, p, isFrameValid) ==
    LET isDone == /\ ~isSimulationRunning /\ IsSystem(name) /\ isFrameValid
                  /\ IsPeriodValid(p) /\ WithPeriod(p).isIncluded
    IN  /\ isDone => Cardinality(systemsData[SystemIdx(name)].profiles) < MaxForces
        /\ Report(isDone)
        /\ IF isDone
           THEN /\ stepperUpdatePeriod' = WithPeriod(p).period
                /\ systemsData' = [systemsData EXCEPT ![SystemIdx(name)].profiles = @ \cup {p}]
           ELSE UNCHANGED <<stepperUpdatePeriod, systemsData>>
        /\ UNCHANGED <<systems, forcesCoupling, controllerUpdatePeriod, sensorsUpdatePeriod,
                       isSimulationRunning>>

WithoutProfiles(data) == [data EXCEPT !.profiles = {}]

RemoveForcesProfileOf(name) ==
    LET isDone == ~isSimulationRunning /\ IsSystem(name)
    IN  /\ IF isSimulationRunning THEN Report(FALSE) ELSE ReportSuccess(isDone)
        /\ IF isDone
           THEN /\ systemsData' = [systemsData EXCEPT ![SystemIdx(name)] = WithoutProfiles(@)]
                /\ stepperUpdatePeriod' = GcdOfSystems(systemsData', OptionPeriods).period
           ELSE UNCHANGED <<systemsData, stepperUpdatePeriod>>
        /\ UNCHANGED <<systems, forcesCoupling, controllerUpdatePeriod, sensorsUpdatePeriod,
                       isSimulationRunning>>

\* Here the period is left alone.
RemoveForcesProfile ==
    /\ Report(~isSimulationRunning)
    /\ systemsData' = IF isSimulationRunning THEN systemsData
                      ELSE [i \in DOMAIN systemsData |-> WithoutProfiles(systemsData[i])]
    /\ UNCHANGED <<systems, forcesCoupling, periods, isSimulationRunning>>

\* One after the other, up to the first error.
RemoveAllForces ==
    /\ Report(~isSimulationRunning)
    /\ forcesCoupling' = {}
    /\ systemsData' = IF isSimulationRunning THEN systemsData
                      ELSE [i \in DOMAIN systemsData |-> WithoutProfiles(WithoutImpulses(systemsData[i]))]
    /\ UNCHANGED <<systems, periods, isSimulationRunning>>

-----------------------------------------------------------------------------
(* The options, and the simulation itself *)

SetOptions(controller, sensors) ==
    LET gcd == GcdOfSystems(systemsData, {controller, sensors})
        isDone == /\ ~isSimulationRunning
                  /\ IsPeriodValid(controller) /\ IsPeriodValid(sensors)
                  /\ gcd.isIncluded
    IN  /\ Report(isDone)
        /\ IF isDone
           THEN /\ controllerUpdatePeriod' = controller /\ sensorsUpdatePeriod' = sensors
                /\ stepperUpdatePeriod' = gcd.period
           ELSE UNCHANGED periods
        /\ UNCHANGED <<registers, isSimulationRunning>>

\* `start' changes no register.  It takes one initial state per name, and needs one per
\* system; isStateValid stands for its other reasons to fail.
Start(isStateValid) ==
    LET isDone == /\ ~isSimulationRunning /\ systems # <<>> /\ isStateValid
                  /\ Cardinality(Range(systems)) = Len(systems)
    IN  /\ Report(isDone)
        /\ isSimulationRunning' = (isSimulationRunning \/ isDone)
        /\ UNCHANGED <<registers, periods>>

Stop ==
    /\ isSimulationRunning' = FALSE
    /\ UNCHANGED <<registers, periods, returnCode, isRefused>>

Cleared(removeAllForce) ==
    /\ IF removeAllForce
       THEN /\ systemsData' = [i \in DOMAIN systemsData |-> NoData]
            /\ stepperUpdatePeriod' = MinClipped(OptionPeriods)
       ELSE UNCHANGED <<systemsData, stepperUpdatePeriod>>
    /\ UNCHANGED <<systems, forcesCoupling, controllerUpdatePeriod, sensorsUpdatePeriod,
                   returnCode, isRefused>>

\* Variant: a simulation goes on.
ResetWithoutStop(removeAllForce) == Cleared(removeAllForce) /\ UNCHANGED isSimulationRunning

\* `reset' stops the simulation first; the coupling forces are not removed.
Reset(removeAllForce) == isSimulationRunning' = FALSE /\ Cleared(removeAllForce)

Next ==
    \/ \E name \in Names, isValid \in BOOLEAN :
          \/ AddSystem(name, isValid) \/ AddSystemWithController(name, isValid)
          \/ \E other \in Names : RegisterForceCoupling(name, other, isValid)
          \/ \E w \in Windows : RegisterForceImpulse(name, w, isValid)
          \/ \E p \in Periods : RegisterForceProfile(name, p, isValid)
    \/ \E name \in Names :
          \/ RemoveSystem(name) \/ RemoveForcesCouplingOf(name)
          \/ RemoveForcesImpulseOf(name) \/ RemoveForcesProfileOf(name)
          \/ \E other \in Names : RemoveForcesCoupling(name, other)
    \/ RemoveAllForcesCoupling \/ RemoveForcesImpulse \/ RemoveForcesProfile \/ RemoveAllForces
    \/ \E controller, sensors \in Periods : SetOptions(controller, sensors)
    \/ \E isStateValid \in BOOLEAN : Start(isStateValid)
    \/ Stop
    \/ \E removeAllForce \in BOOLEAN : Reset(removeAllForce)

Spec == Init /\ [][Next]_vars

-----------------------------------------------------------------------------
(* Properties *)

\* The type of every register.  In particular the loop never has a breakpoint period of zero.
TypeOK ==
    /\ systems \in Seq(Names)
    /\ systemsData \in Seq([profiles : SUBSET Periods, impulses : Seq(Windows),
                            breaks : SUBSET Int, activeFlags : Nat])
    /\ forcesCoupling \subseteq [name1 : Names, idx1 : Nat, name2 : Names, idx2 : Nat]
    /\ controllerUpdatePeriod \in Periods /\ sensorsUpdatePeriod \in Periods
    /\ stepperUpdatePeriod \in (Periods \ {0}) \cup {Infinity}
    /\ isSimulationRunning \in BOOLEAN /\ isRefused \in BOOLEAN
    /\ returnCode \in {"SUCCESS", "ERROR"}

\* `computeForcesCoupling' indexes the systems with what the coupling forces hold: whatever
\* systems were removed since, it is in range and of the system the force was registered for.
CouplingsFollowSystems ==
    \A force \in forcesCoupling :
        /\ force.idx1 \in DOMAIN systems /\ systems[force.idx1] = force.name1
        /\ force.idx2 \in DOMAIN systems /\ systems[force.idx2] = force.name2

\* What EngineStepper and the integration loop take for granted: there is a breakpoint where
\* every impulse force starts and ends, and a flag for each of them, which `start' and `step'
\* go through side by side without looking at the end of the flags.
ImpulsesHaveBreaks ==
    \A i \in DOMAIN systemsData :
        LET data == systemsData[i] IN
        /\ Len(data.impulses) <= data.activeFlags
        /\ \A k \in DOMAIN data.impulses :
              {data.impulses[k].t, data.impulses[k].t + data.impulses[k].dt} \subseteq data.breaks

\* What the comment of forcesImpulseBreaks says of it: "Ordered list (without repetitions) of
\* the start and end time associated with the forces".
BreaksAreOfForces ==
    \A i \in DOMAIN systemsData : \A b \in systemsData[i].breaks :
        \E k \in DOMAIN systemsData[i].impulses :
            LET w == systemsData[i].impulses[k] IN b = w.t \/ b = w.t + w.dt

\* The error of registerForceProfile, "the update period of force profiles and the stepper
\* update period (min of controller and sensor update periods) must be multiple of each
\* other", is what EngineStepper assumes of the periods: whatever is registered, removed and
\* set, and in whatever order, the breakpoints of the integration loop are among those of
\* each discrete update.  It holds with a single system.
DiscretePeriods ==
    {p \in OptionPeriods \cup UNION {systemsData[i].profiles : i \in DOMAIN systemsData} : p > 0}
AreBreakpointsOf(P) == \A p \in P : stepperUpdatePeriod <= p /\ IsMultiple(p, stepperUpdatePeriod)
PeriodsAreMultiples == AreBreakpointsOf(DiscretePeriods)

\* The same of the controller and the sensors alone, whose updates the loop would miss.
OptionsAreBreakpoints == AreBreakpointsOf({p \in OptionPeriods : p > 0})

\* A force profile "can be either time-continuous or discrete": where no other period is
\* set, any period that is long enough is accepted.
DiscreteProfileAccepted ==
    systems # <<>> /\ DiscretePeriods = {} =>
        \A p \in Periods : IsPeriodValid(p) => WithPeriod(p).isIncluded

\* A simulation runs with the systems, the forces of each of them and the periods it was
\* started with, whichever call is made in the meantime.
FrozenWhileRunning ==
    [][isSimulationRunning /\ isSimulationRunning' => UNCHANGED <<systems, systemsData, periods>>]_vars

\* The same of the coupling forces, as the error of removeForcesCoupling says: "A simulation
\* is already running. Stop it before removing coupling forces."
CouplingFrozenWhileRunning ==
    [][isSimulationRunning /\ isSimulationRunning' => UNCHANGED forcesCoupling]_vars

\* An error is reported to the caller and not only printed: a call that is refused returns
\* an error.
RefusalReported == isRefused => returnCode # "SUCCESS"

\* The error of `addSystem', "A system with this name has already been added to the engine.":
\* two systems never have the same name.
SystemNamesUnique == \A i, j \in DOMAIN systems : systems[i] = systems[j] => i = j

=============================================================================
