---------------------------- MODULE EngineStepper ----------------------------
(***************************************************************************)
(* The integration loop of the engine: `EngineMultiRobot::step', from the  *)
(* call that asks for a step of a given size to its return, with the       *)
(* adaptive ODE stepper it drives.  One or several systems are integrated  *)
(* together; impulse forces switch on and off at breakpoints, and the      *)
(* command, the force profiles and the sensors are refreshed periodically. *)
(*                                                                         *)
(* Time is counted in integer ticks.  STEPPER_MIN_TIMESTEP falls strictly  *)
(* between StepperMin and StepperMin + 1 ticks, so that a duration x is    *)
(* smaller than it iff x <= StepperMin, and never equal to it;             *)
(* SIMULATION_MIN_TIMESTEP is exactly SimMin ticks.                        *)
(*                                                                         *)
(* What is integrated (q, v) is abstracted away.  The acceleration aSplit  *)
(* is kept as the INPUTS it was computed from: which impulses were active, *)
(* which command and which force samples were in use.                      *)
(***************************************************************************)
EXTENDS Integers, FiniteSets

CONSTANTS
    StepperMin, SimMin,     \* the two time resolutions, see above
    DtMax,                  \* option stepper.dtMax
    ControllerPeriod,       \* option stepper.controllerUpdatePeriod, 0: continuous
    SensorsPeriod,          \* option stepper.sensorsUpdatePeriod, 0: continuous
    Profiles,               \* the force profiles ...
    ProfilePeriod,          \* ... and their update periods, 0: continuous
    Systems, Impulses,      \* the systems and the impulse forces ...
    ImpulseSystem,          \* ... the system each one acts upon
    ImpulseTime, ImpulseDuration,
    FailMax,                \* option stepper.successiveIterFailedMax
    LogInternalSteps,       \* option stepper.logInternalStepperSteps
    MayTimeout,             \* option stepper.timeout is set
    RestoreRatio,           \* 1 / stepper.dtRestoreThresholdRel
    Grow, Shrink,           \* factors the step size is multiplied or divided by
    MayNan,                 \* the physics can diverge
    StepSizes,              \* what a user asks for; 0 lets the engine choose
    MaximumLogTime,         \* what the telemetry can log, the bound of a run
    Infinity                \* INF: above every time of a run

Min2(x, y) == IF x <= y THEN x ELSE y
Smallest(S) == CHOOSE x \in S : \A y \in S : x <= y

ASSUME TimeAssumption ==
    /\ StepperMin \in Nat /\ SimMin \in Nat /\ StepperMin < SimMin
    /\ DtMax \in Nat /\ SimMin <= DtMax /\ DtMax < Infinity
    /\ MaximumLogTime \in Nat /\ Infinity \in Nat /\ MaximumLogTime < Infinity
    /\ StepSizes \subseteq Nat
    /\ FailMax \in Nat \ {0} /\ RestoreRatio \in Nat \ {0}
    /\ Grow \subseteq Nat \ {0} /\ Shrink \subseteq Nat \ {0}

ASSUME FlagAssumption ==
    LogInternalSteps \in BOOLEAN /\ MayTimeout \in BOOLEAN /\ MayNan \in BOOLEAN

\* What setOptions and registerForceProfile let through: a period is 0 or no
\* shorter than SIMULATION_MIN_TIMESTEP.
ASSUME PeriodAssumption ==
    /\ ProfilePeriod \in [Profiles -> Nat]
    /\ ControllerPeriod \in Nat /\ SensorsPeriod \in Nat
    /\ \A p \in {ControllerPeriod, SensorsPeriod} \cup {ProfilePeriod[f] : f \in Profiles} :
          p = 0 \/ (SimMin <= p /\ p < Infinity)

\* What registerForceImpulse lets through.
ASSUME ImpulseAssumption ==
    /\ IsFiniteSet(Impulses) /\ IsFiniteSet(Systems)
    /\ ImpulseSystem \in [Impulses -> Systems]
    /\ ImpulseTime \in [Impulses -> Nat]
    /\ ImpulseDuration \in [Impulses -> Nat]
    /\ \A f \in Impulses : /\ ImpulseDuration[f] > StepperMin
                           /\ ImpulseTime[f] + ImpulseDuration[f] < Infinity

-----------------------------------------------------------------------------
(* Time, periods and breakpoints *)

Negligible(x) == x <= StepperMin        \* x < STEPPER_MIN_TIMESTEP

UpdatePeriods == {p \in {ControllerPeriod, SensorsPeriod} \cup {ProfilePeriod[f] : f \in Profiles} : p > 0}

\* stepperUpdatePeriod_: the shortest of the periods, which divides them all.
StepperUpdatePeriod == IF UpdatePeriods = {} THEN Infinity ELSE Smallest(UpdatePeriods)
IsDiscrete == UpdatePeriods # {}

ASSUME GcdAssumption == \A p \in UpdatePeriods : p % StepperUpdatePeriod = 0

DtNext(now, period) == period - (now % period)

\* Variant: the update is not anticipated.
IsDueNotAnticipated(now, period) == Negligible(period - DtNext(now, period))

\* Either the next period starts in less than SIMULATION_MIN_TIMESTEP, and the
\* update is anticipated, or the current one has just started.
IsDue(now, period) == \/ DtNext(now, period) < SimMin
                      \/ Negligible(period - DtNext(now, period))

ImpulseEnd(f) == ImpulseTime[f] + ImpulseDuration[f]

\* forcesImpulseBreaks: the ordered set of the times some impulse of a system
\* starts or ends.
Breaks(s) == {ImpulseTime[f] : f \in {g \in Impulses : ImpulseSystem[g] = s}}
             \cup {ImpulseEnd(f) : f \in {g \in Impulses : ImpulseSystem[g] = s}}

\* The element that follows b in the set, end() being Infinity.
BreakAfter(s, b) == LET later == {c \in Breaks(s) : b < c}
                    IN  IF later = {} THEN Infinity ELSE Smallest(later)

-----------------------------------------------------------------------------
VARIABLES
    pc,             \* where `step' is: "ready" between two calls
    rc,             \* what the last call returned, or is about to
    t, tPrev, dt, dtLargest, dtLargestPrev,     \* stepperState_; dtLargest = 0 stands for NaN
    tEnd, tNext, successiveIterFailed, isNan, timedOut,     \* locals of `step'
    isBreakpointReached, hasDynamicsChanged,
    active,         \* forcesImpulseActive
    breakNext,      \* forcesImpulseBreakNextIt, per system
    command,        \* when the command in use was computed
    sample,         \* when the sample of each force profile in use was taken
    sensors,        \* when the sensors were last updated
    logTime,        \* when the last line was added to the log
    aSplit,         \* the inputs the acceleration was computed from
    hasFailed,      \* iterFailed > 0: some attempt of the ODE stepper has failed
    hasAborted      \* history: some earlier call was aborted

stepperState == <<t, tPrev, dt, dtLargest, dtLargestPrev>>
locals == <<tEnd, tNext, successiveIterFailed, isNan, timedOut, isBreakpointReached, hasDynamicsChanged>>
inputs == <<active, breakNext, command, sample>>
vars == <<pc, rc, stepperState, locals, inputs, sensors, logTime, aSplit, hasFailed, hasAborted>>

Inputs == [active |-> active, command |-> command, sample |-> sample]

Reached(b) == Negligible(b - t)         \* t >= b - STEPPER_MIN_TIMESTEP

TForceImpulseNext == Smallest({breakNext[s] : s \in Systems} \cup {Infinity})

\* What `start' leaves behind: the command and the sensors are computed at t = 0,
\* the impulses that start there are active, no force profile has been sampled.
Init ==
    /\ pc = "ready" /\ rc = "SUCCESS"
    /\ t = 0 /\ tPrev = 0 /\ dt = SimMin /\ dtLargest = SimMin /\ dtLargestPrev = SimMin
    /\ tEnd = 0 /\ tNext = 0 /\ successiveIterFailed = 0 /\ isNan = FALSE /\ timedOut = FALSE
    /\ isBreakpointReached = FALSE /\ hasDynamicsChanged = FALSE
    /\ active = [f \in Impulses |-> Negligible(ImpulseTime[f])]
    /\ breakNext = [s \in Systems |-> BreakAfter(s, -1)]
    /\ command = 0 /\ sensors = 0 /\ logTime = -1
    /\ sample = [f \in Profiles |-> -1]
    /\ aSplit = Inputs
    /\ hasFailed = FALSE /\ hasAborted = FALSE

-----------------------------------------------------------------------------
(* The call *)

IsAccepted(size) == size = 0 \/ SimMin <= size

StepSize(size) == CASE size > 0 -> size
                    [] size = 0 /\ ControllerPeriod > 0 -> ControllerPeriod
                    [] size = 0 /\ ControllerPeriod = 0 /\ SensorsPeriod > 0 -> SensorsPeriod
                    [] OTHER -> DtMax

FitsLog(size) == t + StepSize(size) <= MaximumLogTime

Step(size) ==
    /\ pc = "ready"
    /\ IsAccepted(size) /\ FitsLog(size)
    /\ pc' = "head" /\ rc' = "SUCCESS"
    /\ tEnd' = t + StepSize(size)
    /\ successiveIterFailed' = 0 /\ isNan' = FALSE /\ timedOut' = FALSE
    /\ isBreakpointReached' = FALSE /\ hasDynamicsChanged' = FALSE
    /\ UNCHANGED <<stepperState, tNext, inputs, sensors, logTime, aSplit, hasFailed, hasAborted>>

RejectStep(size) ==
    /\ pc = "ready"
    /\ ~IsAccepted(size) \/ ~FitsLog(size)
    /\ rc' = "REJECTED"
    /\ UNCHANGED <<pc, stepperState, locals, inputs, sensors, logTime, aSplit, hasFailed, hasAborted>>

\* Variant: the time is left where the last iteration ended.
TReturnedNotSet == t

TReturned == IF rc = "SUCCESS" THEN tEnd ELSE t

\* The loop is left once tEnd is reached or something failed.
Return ==
    /\ pc = "head"
    /\ rc # "SUCCESS" \/ Negligible(tEnd - t)
    /\ pc' = "ready"
    /\ t' = TReturned
    /\ hasAborted' = (hasAborted \/ rc = "ABORTED")
    /\ UNCHANGED <<rc, tPrev, dt, dtLargest, dtLargestPrev, locals, inputs, sensors, logTime, aSplit,
                   hasFailed>>

-----------------------------------------------------------------------------
(* The head of an iteration: what changes at a breakpoint *)

UpdatedActive(f) == IF Reached(ImpulseEnd(f)) THEN FALSE
                    ELSE IF Reached(ImpulseTime[f]) THEN TRUE ELSE active[f]

\* Variants: the iterator moves on too early; never.
UpdatedBreakEarly(s) == IF breakNext[s] # Infinity /\ breakNext[s] - t < SimMin
                        THEN BreakAfter(s, breakNext[s]) ELSE breakNext[s]
\* One breakpoint at most is passed per iteration.
UpdatedBreak(s) == IF breakNext[s] # Infinity /\ Reached(breakNext[s])
                   THEN BreakAfter(s, breakNext[s])
                   ELSE breakNext[s]

DueProfiles == {f \in Profiles : ProfilePeriod[f] > 0 /\ IsDue(t, ProfilePeriod[f])}
IsCommandDue == ControllerPeriod > 0 /\ IsDue(t, ControllerPeriod)
IsLogDue == IF IsDiscrete THEN ~LogInternalSteps /\ IsDue(t, StepperUpdatePeriod) ELSE TRUE

UpdateInputs ==
    /\ pc = "head" /\ rc = "SUCCESS" /\ ~Negligible(tEnd - t)
    /\ pc' = "plan"
    /\ active' = [f \in Impulses |-> UpdatedActive(f)]
    /\ breakNext' = [s \in Systems |-> UpdatedBreak(s)]
    /\ sample' = [f \in Profiles |-> IF f \in DueProfiles THEN t ELSE sample[f]]
    /\ command' = IF IsCommandDue THEN t ELSE command
    /\ hasDynamicsChanged' = \/ hasDynamicsChanged
                             \/ \E f \in Impulses : Reached(ImpulseTime[f])
                             \/ DueProfiles # {}
                             \/ IsCommandDue
    /\ logTime' = IF IsLogDue THEN t ELSE logTime
    /\ UNCHANGED <<rc, stepperState, tEnd, tNext, successiveIterFailed, isNan, timedOut,
                   isBreakpointReached, sensors, aSplit, hasFailed, hasAborted>>

\* Variant: the flag is consumed without computing the acceleration.
FixFsalDropped == aSplit' = aSplit /\ hasDynamicsChanged' = FALSE

\* First same as last: the ODE stepper starts from the acceleration it is given,
\* which has to be computed again when the inputs changed.
FixFsal ==
    /\ aSplit' = IF hasDynamicsChanged THEN Inputs ELSE aSplit
    /\ hasDynamicsChanged' = FALSE

-----------------------------------------------------------------------------
(* Discrete time: integrate up to the next breakpoint *)

DtNextGlobal ==
    LET dtUpdate == DtNext(t, StepperUpdatePeriod)
        dtPeriod == IF dtUpdate < SimMin THEN dtUpdate + StepperUpdatePeriod ELSE dtUpdate
    IN  Min2(dtPeriod, TForceImpulseNext - t)

\* Variant: no tolerance on the end of the step.
PlannedEndExact == IF tEnd - t = DtNextGlobal THEN tEnd ELSE t + DtNextGlobal

PlannedEnd == IF Negligible(tEnd - t - DtNextGlobal) THEN tEnd ELSE t + DtNextGlobal

PlanDiscrete ==
    /\ pc = "plan" /\ IsDiscrete
    /\ pc' = "inner"
    /\ tNext' = PlannedEnd
    /\ UNCHANGED <<rc, stepperState, tEnd, successiveIterFailed, isNan, timedOut,
                   isBreakpointReached, hasDynamicsChanged, inputs, sensors, logTime, aSplit, hasFailed, hasAborted>>

\* End exactly at the breakpoint if what would be left is too short.
SnappedDt ==
    LET wanted == Min2(dt, tNext - t)
        left == tNext - t - wanted
        isShort == IF dtLargest > SimMin THEN left < SimMin ELSE Negligible(left)
    IN  IF isShort THEN tNext - t ELSE wanted

\* Prefer multiples of SIMULATION_MIN_TIMESTEP.
RoundedDt(d) ==
    LET residual == d % SimMin
    IN  IF d > SimMin /\ ~Negligible(residual) /\ ~Negligible(SimMin - residual)
                      /\ ~Negligible(d - residual)
        THEN d - residual ELSE d

PrepareDiscrete ==
    /\ pc = "inner" /\ IsDiscrete /\ ~Negligible(tNext - t)
    /\ logTime' = IF successiveIterFailed = 0 /\ LogInternalSteps THEN t ELSE logTime
    /\ FixFsal
    /\ dt' = RoundedDt(SnappedDt)
    /\ timedOut' \in {timedOut, MayTimeout}
    /\ IF Negligible(dt') \/ timedOut' \/ successiveIterFailed > FailMax
       THEN /\ pc' = "tail"
            /\ UNCHANGED <<dtLargest, isBreakpointReached>>
       ELSE /\ pc' = "try"
            /\ isBreakpointReached' = (dtLargest > dt')
            /\ dtLargest' = dt'
    /\ UNCHANGED <<rc, t, tPrev, dtLargestPrev, tEnd, tNext, successiveIterFailed, isNan,
                   inputs, sensors, hasFailed, hasAborted>>

LeaveDiscrete ==
    /\ pc = "inner" /\ IsDiscrete /\ Negligible(tNext - t)
    /\ pc' = "tail"
    /\ UNCHANGED <<rc, stepperState, locals, inputs, sensors, logTime, aSplit, hasFailed, hasAborted>>

-----------------------------------------------------------------------------
(* Continuous time: one successful step per iteration *)

ContinuousDt == Min2(dt, Min2(tEnd - t, TForceImpulseNext - t))

PlanContinuous ==
    /\ pc = "plan" /\ ~IsDiscrete
    /\ pc' = "inner"
    /\ FixFsal
    /\ dt' = ContinuousDt
    /\ isBreakpointReached' = (dtLargest > dt')
    /\ UNCHANGED <<rc, t, tPrev, dtLargest, dtLargestPrev, tEnd, tNext, successiveIterFailed,
                   isNan, timedOut, inputs, sensors, logTime, hasFailed, hasAborted>>

PrepareContinuous ==
    /\ pc = "inner" /\ ~IsDiscrete
    /\ pc' = IF successiveIterFailed > FailMax THEN "tail" ELSE "try"
    /\ dtLargest' = dt
    /\ UNCHANGED <<rc, t, tPrev, dt, dtLargestPrev, locals, inputs, sensors, logTime, aSplit, hasFailed, hasAborted>>

-----------------------------------------------------------------------------
(* One attempt of the ODE stepper.  It evaluates the dynamics up to t + dt, and *)
(* with it the sensors if they are continuous, whatever comes out of it.        *)

IsFixedStep == Grow = {}                \* RK4 and Euler: never fail, suggest INF
Suggestions == IF IsFixedStep THEN {Infinity} ELSE {g * dt : g \in Grow}

TrySensors == sensors' = IF SensorsPeriod = 0 THEN t + dt ELSE sensors

\* A step cut short by a breakpoint says little about the step to take next.
Restored(d) == IF isBreakpointReached /\ dt < d /\ RestoreRatio * d < dtLargestPrev
               THEN dtLargestPrev ELSE d

NextDt(largest) == Min2(largest, DtMax)

TrySucceeds(suggestion) ==
    /\ pc = "try" /\ suggestion \in Suggestions
    /\ pc' = IF IsDiscrete THEN "inner" ELSE "tail"
    /\ t' = t + dt /\ tPrev' = t'
    /\ aSplit' = Inputs
    /\ successiveIterFailed' = 0
    /\ dtLargest' = Restored(suggestion)
    /\ dtLargestPrev' = dtLargest'
    /\ dt' = NextDt(dtLargest')
    /\ TrySensors
    /\ UNCHANGED <<rc, tEnd, tNext, isNan, timedOut, isBreakpointReached, hasDynamicsChanged,
                   inputs, logTime, hasFailed, hasAborted>>

\* Variant: failures are not counted.
FailedOnceMoreNot == successiveIterFailed

FailedOnceMore == successiveIterFailed + 1

TryFails(factor) ==
    /\ pc = "try" /\ ~IsFixedStep
    /\ pc' = "inner"
    /\ successiveIterFailed' = FailedOnceMore /\ hasFailed' = TRUE
    /\ dtLargest' = dt \div factor
    /\ dt' = NextDt(dtLargest')
    /\ TrySensors
    /\ UNCHANGED <<rc, t, tPrev, dtLargestPrev, tEnd, tNext, isNan, timedOut,
                   isBreakpointReached, hasDynamicsChanged, inputs, logTime, aSplit, hasAborted>>

TryDiverges ==
    /\ pc = "try" /\ MayNan
    /\ pc' = "tail"
    /\ isNan' = TRUE /\ dtLargest' = 0
    /\ TrySensors
    /\ UNCHANGED <<rc, t, tPrev, dt, dtLargestPrev, tEnd, tNext, successiveIterFailed, timedOut,
                   isBreakpointReached, hasDynamicsChanged, inputs, logTime, aSplit, hasFailed, hasAborted>>

-----------------------------------------------------------------------------
(* The tail of an iteration: errors, then the sensors *)

EndIteration ==
    /\ pc = "tail"
    /\ pc' = "head"
    /\ timedOut' \in {timedOut, timedOut \/ MayTimeout}
    /\ IF isNan \/ successiveIterFailed > FailMax \/ Negligible(dt) \/ timedOut'
       THEN /\ rc' = "ABORTED"
            /\ UNCHANGED sensors
       ELSE /\ rc' = rc
            /\ sensors' = IF SensorsPeriod = 0 \/ IsDue(t, SensorsPeriod) THEN t ELSE sensors
    /\ UNCHANGED <<stepperState, tEnd, tNext, successiveIterFailed, isNan, isBreakpointReached,
                   hasDynamicsChanged, inputs, logTime, aSplit, hasFailed, hasAborted>>

Run == \/ UpdateInputs \/ PlanDiscrete \/ PrepareDiscrete \/ LeaveDiscrete
       \/ PlanContinuous \/ PrepareContinuous
       \/ \E suggestion \in Suggestions : TrySucceeds(suggestion)
       \/ \E factor \in Shrink : TryFails(factor)
       \/ TryDiverges \/ EndIteration \/ Return

Next == \/ \E size \in StepSizes : Step(size) \/ RejectStep(size)
        \/ Run

Spec == Init /\ [][Next]_vars

\* `step' is sequential code: once called, it runs on.
FairSpec == Spec /\ WF_vars(Run)

-----------------------------------------------------------------------------
(* Properties *)

\* The type of every variable of the loop.
TypeOK ==
    /\ pc \in {"ready", "head", "plan", "inner", "try", "tail"}
    /\ rc \in {"SUCCESS", "ABORTED", "REJECTED"}
    /\ t \in Int /\ tPrev \in Int /\ tNext \in Int
    /\ tEnd \in Int /\ tEnd <= MaximumLogTime
    /\ dt \in Int /\ dtLargest \in Int /\ dtLargestPrev \in Int
    /\ successiveIterFailed \in Nat
    /\ isNan \in BOOLEAN /\ timedOut \in BOOLEAN
    /\ isBreakpointReached \in BOOLEAN /\ hasDynamicsChanged \in BOOLEAN
    /\ hasFailed \in BOOLEAN /\ hasAborted \in BOOLEAN
    /\ active \in [Impulses -> BOOLEAN]
    /\ breakNext \in [Systems -> Nat]
    /\ command \in Int /\ sensors \in Int /\ logTime \in Int
    /\ sample \in [Profiles -> Int]
    /\ aSplit \in [active : [Impulses -> BOOLEAN], command : Int, sample : [Profiles -> Int]]

\* An impulse force cannot be applied outside its window: over the whole interval
\* the ODE stepper integrates, the forces switched on have started and not ended,
\* and those switched off have ended or not started, to STEPPER_MIN_TIMESTEP.
\* The comment of the active set claims it: breakpoints are "already enforced, so
\* that the forces cannot get activated/desactivate too late".
ImpulseInWindow(f, from, to) ==
    IF active[f] THEN Negligible(ImpulseTime[f] - from) /\ Negligible(to - ImpulseEnd(f))
    ELSE Negligible(to - ImpulseTime[f]) \/ Negligible(ImpulseEnd(f) - from)

ImpulsesInWindow == pc = "try" => \A f \in Impulses : ImpulseInWindow(f, t, t + dt)

\* The first update of a given period that is not covered by one made at `last': an
\* update made less than SIMULATION_MIN_TIMESTEP ahead of its time counts for it.
NextUpdate(last, period) == period * ((last + SimMin + period - 1) \div period)

IsHeld(last, period) == t < NextUpdate(last, period)
                        /\ Negligible(t + dt - NextUpdate(last, period))

\* In discrete time, the ODE stepper never integrates over an update of the command:
\* whatever the impulses, the step sizes asked for and the adaptation of dt, no
\* control period is skipped, and the command in use is the one of this period.
CommandHeldOnePeriod == pc = "try" /\ ControllerPeriod > 0 => IsHeld(command, ControllerPeriod)

\* The same of the samples of the force profiles.
ProfilesHeldOnePeriod ==
    pc = "try" => \A f \in Profiles : ProfilePeriod[f] > 0 => IsHeld(sample[f], ProfilePeriod[f])

\* The same of the sensors, which are updated at the tail of the iterations.
\* It takes that no earlier call was aborted.
SensorsHeldOnePeriod ==
    pc = "try" /\ SensorsPeriod > 0 /\ ~hasAborted => IsHeld(sensors, SensorsPeriod)

\* What the comment of `step' says of a step to the next update that is too short and
\* skipped: "the sensors have already been updated in anticipation in previous loop".
SensorsUpdatedInAnticipation ==
    pc = "inner" /\ SensorsPeriod > 0 /\ DtNext(t, SensorsPeriod) < SimMin =>
        t < NextUpdate(sensors, SensorsPeriod)

\* The same of the log: no period of the engine is missing from it.
LogHeldOnePeriod ==
    pc = "try" /\ IsDiscrete /\ ~LogInternalSteps => IsHeld(logTime, StepperUpdatePeriod)

\* The ODE stepper reuses the acceleration of the previous step as its first
\* evaluation; it is one of the current active forces, command and force samples.
FreshAcceleration == pc = "try" => aSplit = Inputs

\* Together: between two breakpoints the ODE stepper integrates with the inputs of the
\* current periods, whichever of them are discrete.
UpdatesHeldOnePeriod ==
    /\ CommandHeldOnePeriod /\ SensorsHeldOnePeriod
    /\ ProfilesHeldOnePeriod /\ LogHeldOnePeriod

\* Integration never runs past what was asked for, nor past the breakpoint.
NeverPastEnd == pc # "ready" => t <= tEnd /\ (pc = "try" => t + dt <= tEnd)

\* Ending on a breakpoint stretches dt past dtMax by SIMULATION_MIN_TIMESTEP at most,
\* in discrete time only (a call aborted by a timeout leaves the stretched dt behind, for
\* the next call to stretch again).
StepBounded == pc = "try" /\ ~hasAborted => dt < DtMax + (IF IsDiscrete THEN SimMin ELSE 1)

\* "The internal time step is getting too small. Impossible to integrate physics
\* further in time": the physics is to blame.  As long as no attempt of the ODE stepper
\* failed, a call is not aborted but for a NaN or a timeout (once one was, dt may stay
\* too small and abort the next ones).
AbortOnlyOnFailure ==
    pc = "head" /\ rc = "ABORTED" => hasAborted \/ isNan \/ timedOut \/ hasFailed

\* A call that succeeds ends at the time asked for, with sensors of that time if
\* they are continuous and of the current period otherwise.
SuccessfulReturn ==
    pc = "ready" /\ rc = "SUCCESS" /\ tEnd > 0 /\ ~hasAborted =>
        /\ t = tEnd /\ Negligible(t - tPrev)
        /\ IF SensorsPeriod = 0 THEN Negligible(t - sensors) /\ sensors <= t
           ELSE t <= NextUpdate(sensors, SensorsPeriod) + StepperMin

\* What the documentation of `step' says: a call performs a single integration step "in
\* the sense that only the endpoint is added to the log".
EndpointLogged == pc = "ready" /\ rc = "SUCCESS" /\ tEnd > 0 => logTime = t

\* Time only moves forward, and only by what the ODE stepper accepted.
TimeMonotone == [][t <= t']_vars

\* Every call returns: the loop cannot spin without integrating, whatever the
\* breakpoints and the failures.
StepReturns == pc = "head" ~> pc = "ready"

=============================================================================
