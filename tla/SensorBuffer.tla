---------------------------- MODULE SensorBuffer ----------------------------
(***************************************************************************)
(* The buffer shared by the sensors of one type (SensorSharedDataHolder_t) *)
(* through which their delayed measurements are made: every call of setAll *)
(* appends a sample, of all the sensors, at the time it is given, drops    *)
(* the samples that became too old or that a solver going back in time     *)
(* invalidates, and interpolates what each sensor measures `delay' earlier.*)
(*                                                                         *)
(* The calls are those of the engine.  When the sensors are continuous,    *)
(* one for every stage of a trial of the ODE stepper, which may be         *)
(* rejected and tried again with a smaller step, one at the end of the     *)
(* iteration; when they are discrete, one every period.                    *)
(*                                                                         *)
(* What a sensor measures is abstracted by the time of the state it is     *)
(* computed from.  Times are ticks: EPS and STEPPER_MIN_TIMESTEP are       *)
(* smaller than one, the latter is what tells the desired time from a      *)
(* sample of exactly that time.                                            *)
(***************************************************************************)
EXTENDS Integers, SequencesExt, FiniteSets

CONSTANTS
    Sensors,            \* sensors_, in the order in which they were attached
    Delay, Jitters,     \* options of each sensor: its delay, samples of its jitter
    LinearOrder,        \* the sensors whose delayInterpolationOrder is 1
    SimMax,             \* SIMULATION_MAX_TIMESTEP
    Exceed,             \* DELAY_MAX_BUFFER_EXCEED
    InitIterations,     \* INIT_ITERATIONS
    Periods,            \* choices of sensorsUpdatePeriod, 0: continuous ...
    Steppers,           \* ... and of ODE stepper: its nodes after the first, in order, and isFSAL_
    NodesUnit,          \* nodes are over this
    Steps,              \* steps that are tried
    MayReject,          \* is the error of a trial ever too large?
    MaxTime             \* bound of a run: duration of a simulation

ASSUME SensorsAssumption ==
    /\ Delay \in [Range(Sensors) -> Nat]
    /\ Jitters \in [Range(Sensors) -> (SUBSET Nat) \ {{}}]
    /\ LinearOrder \subseteq Range(Sensors)

ASSUME StepperAssumption ==
    /\ SimMax \in Nat /\ Exceed \in Nat /\ InitIterations \in Nat /\ NodesUnit \in Nat
    /\ Periods \subseteq Nat
    /\ Steps \subseteq 1 .. SimMax
    /\ \A s \in Steppers :
          /\ s.nodes \in Seq(1 .. NodesUnit) /\ s.isFsal \in BOOLEAN
          /\ \A h \in Steps, i \in DOMAIN s.nodes : (h * s.nodes[i]) % NodesUnit = 0
          /\ \A i \in DOMAIN s.nodes : s.nodes[1] <= s.nodes[i]
    /\ MayReject \in BOOLEAN /\ MaxTime \in Nat

VARIABLES
    time, data,     \* time_, data_: the samples
    delayMax,       \* delayMax_
    dataMeasured,   \* dataMeasured_
    t,              \* of the integration: the time of its state ...
    dt,             \* ... the step that is tried, 0 for none ...
    stage,          \* ... the stages of that trial already evaluated ...
    isRunning,      \* ... and whether there is one
    period, stepper \* options of this simulation

buffer == <<time, data, dataMeasured>>
options == <<period, stepper>>
sensorsVars == <<buffer, delayMax, t, dt, stage, isRunning, options>>

Nothing == [lo |-> 0, hi |-> 0, desired |-> 0, isFresh |-> TRUE]

SensorsInit ==
    /\ time = <<0>> /\ data = <<0>> /\ delayMax = 0
    /\ dataMeasured = [s \in Range(Sensors) |-> Nothing]
    /\ t = 0 /\ dt = 0 /\ stage = 0 /\ isRunning = FALSE
    /\ period \in Periods /\ stepper \in Steppers

-----------------------------------------------------------------------------
(* What a sensor measures *)

\* Variant: the loop forgets which side of the last position it is on.
BisectUnsided(times, desired) ==
    LET search[left, right, mid \in 0 .. Len(times)] ==
            LET m == (left + right) \div 2 IN
            IF left >= right THEN mid + 1
            ELSE IF desired < times[m + 1] THEN search[left, m, m] ELSE search[m + 1, right, m]
    IN  IF desired >= Last(times) THEN Len(times)
        ELSE IF desired < Head(times) THEN 0 ELSE search[0, Len(times) - 1, 0]

\* bisectLeft, plus one: the number of samples that are old enough.
Bisect(times, desired) ==
    LET search[left, right, mid \in 0 .. Len(times)] ==
            LET m == (left + right) \div 2 IN
            IF left >= right THEN IF desired < times[mid + 1] THEN mid ELSE mid + 1
            ELSE IF desired < times[m + 1] THEN search[left, m, m] ELSE search[m + 1, right, m]
    IN  IF desired >= Last(times) THEN Len(times)
        ELSE IF desired < Head(times) THEN 0 ELSE search[0, Len(times) - 1, 0]

\* While the buffer is not filled up: the last sample of the initial state.
Oldest(times, samples) ==
    LET initial == Cardinality({k \in DOMAIN times : times[k] <= 0})
    IN  IF initial = Len(times) THEN Last(samples) ELSE samples[Max({1, initial})]

\* interpolateData: the samples between which sensor s is interpolated, if there are any.
Interpolated(s, jitter, times, samples) ==
    LET desired == Last(times) - Delay[s] - jitter
        left == Bisect(times, desired)
        Of(lo, hi) == [lo |-> lo, hi |-> hi, desired |-> desired, isFresh |-> TRUE]
    IN  IF desired >= 0 /\ left < Len(times)
        THEN IF left = 0 THEN [Nothing EXCEPT !.isFresh = FALSE]
             ELSE Of(samples[left], samples[IF s \in LinearOrder THEN left + 1 ELSE left])
        ELSE IF Delay[s] > 0 \/ Jitters[s] # {0}
             THEN Of(Oldest(times, samples), Oldest(times, samples))
             ELSE Of(Last(samples), Last(samples))

\* measureDataAll: one sensor after the other, up to the first error.
Measured(jitter, times, samples) ==
    LET of == [i \in DOMAIN Sensors |->
                  Interpolated(Sensors[i], jitter[Sensors[i]], times, samples)]
        IsReached(i) == \A k \in 1 .. i : of[k].isFresh
    IN  [s \in Range(Sensors) |->
            LET i == CHOOSE k \in DOMAIN Sensors : Sensors[k] = s
            IN  IF IsReached(i) THEN of[i] ELSE [dataMeasured[s] EXCEPT !.isFresh = FALSE]]

-----------------------------------------------------------------------------
(* setAll *)

\* Variant: the sample at the time the solver goes back to is not looked at.
KeptAll(x) == Len(time)

\* The samples a solver going back to x leaves, the last of which is replaced.
KeptAt(x) == Max({1, Cardinality({k \in DOMAIN time : time[k] <= x})})

\* How many samples are dropped before x is added: the oldest one once it is too old, and
\* with it a bunch of them when that many are too old.
Outdated(x) ==
    LET timeMin == x - delayMax - SimMax
    IN  IF timeMin <= Head(time) THEN 0
        ELSE IF Len(time) > 1 + Exceed /\ timeMin > time[Exceed + 1] THEN Exceed + 1 ELSE 1

\* The room made for a sample at x, and what `data()' shows in it beforehand.
Room(x) ==
    LET kept(s) == SubSeq(s, Outdated(x) + 1, Len(s))
    IN  IF x >= Last(time)
        THEN [time |-> Append(kept(time), x),
              data |-> Append(kept(data), IF Outdated(x) > 0 THEN data[Outdated(x)] ELSE Last(data))]
        ELSE [time |-> Append(SubSeq(time, 1, KeptAt(x) - 1), x),
              data |-> SubSeq(data, 1, KeptAt(x))]

\* A sample at x of the state of time `of'.  That there was an error is ignored by
\* Robot::setSensorsData.
SetAll(x, of) ==
    LET room == Room(x)
        samples == ReplaceAt(room.data, Len(room.data), of)
    IN  /\ time' = room.time
        /\ data' = samples
        /\ \E jitter \in [Range(Sensors) -> UNION Range(Jitters)] :
              /\ \A s \in Range(Sensors) : jitter[s] \in Jitters[s]
              /\ dataMeasured' = Measured(jitter, room.time, samples)

-----------------------------------------------------------------------------
(* The calls of the engine *)

\* `start' resets the sensors, then iterates on the initial acceleration: the buffer holds
\* the initial state once more than the number of calls, all of them at zero.  The options may
\* have changed.
StartSensors ==
    /\ ~isRunning
    /\ time' = [k \in 1 .. InitIterations + 2 |-> 0]
    /\ data' = [k \in 1 .. InitIterations + 2 |-> 0]
    /\ delayMax' = Max({Delay[s] + Max(Jitters[s]) : s \in Range(Sensors)})
    /\ dataMeasured' = [s \in Range(Sensors) |->
                          [Nothing EXCEPT !.desired = -Delay[s] - Max(Jitters[s])]]
    /\ t' = 0 /\ dt' = 0 /\ stage' = 0 /\ isRunning' = TRUE
    /\ period' \in Periods /\ stepper' \in Steppers

\* Continuous sensors: a step is tried ...
Try(h) ==
    /\ isRunning /\ period = 0 /\ dt = 0 /\ t + h <= MaxTime
    /\ dt' = h /\ stage' = 0
    /\ UNCHANGED <<buffer, delayMax, t, isRunning, options>>

\* ... stage by stage.
Stage ==
    /\ dt > 0 /\ stage < Len(stepper.nodes)
    /\ LET x == t + (dt * stepper.nodes[stage + 1]) \div NodesUnit IN SetAll(x, x)
    /\ stage' = stage + 1
    /\ UNCHANGED <<delayMax, t, dt, isRunning, options>>

\* Its error is too large: it is tried again with a smaller step.
Reject(h) ==
    /\ MayReject /\ dt > 0 /\ stage = Len(stepper.nodes) /\ h < dt
    /\ dt' = h /\ stage' = 0
    /\ UNCHANGED <<buffer, delayMax, t, isRunning, options>>

\* It is accepted.  When the last stage is not the derivative at the end of the step, that one
\* is computed now, of the new state but at the time of the old one.
Accept ==
    /\ dt > 0
    /\ \/ stepper.isFsal /\ stage = Len(stepper.nodes) /\ UNCHANGED buffer
       \/ ~stepper.isFsal /\ stage = Len(stepper.nodes) /\ SetAll(t, t + dt)
    /\ t' = t + dt /\ dt' = 0 /\ stage' = stage + 1
    /\ UNCHANGED <<delayMax, isRunning, options>>

\* The end of the iteration, of one step or several.  The calls at the beginning of the next
\* one, when the dynamics has changed at a breakpoint, would only repeat it.
EndIteration ==
    /\ dt = 0 /\ stage > 0
    /\ SetAll(t, t)
    /\ stage' = 0
    /\ UNCHANGED <<delayMax, t, dt, isRunning, options>>

\* Discrete sensors: no trial shows, only the breakpoints.
Breakpoint ==
    /\ isRunning /\ period > 0 /\ t + period <= MaxTime
    /\ SetAll(t + period, t + period)
    /\ t' = t + period
    /\ UNCHANGED <<delayMax, dt, stage, isRunning, options>>

StopSensors ==
    /\ isRunning /\ dt = 0 /\ stage = 0
    /\ isRunning' = FALSE
    /\ UNCHANGED <<buffer, delayMax, t, dt, stage, options>>

SensorsNext ==
    \/ StartSensors \/ Stage \/ Accept \/ EndIteration \/ Breakpoint \/ StopSensors
    \/ \E h \in Steps : Try(h) \/ Reject(h)

SensorsSpec == SensorsInit /\ [][SensorsNext]_sensorsVars

-----------------------------------------------------------------------------
(* Properties *)

\* The types, and a time for every sample.
SensorsTypeOK ==
    /\ time \in Seq(Nat) /\ time # <<>> /\ data \in Seq(Nat) /\ Len(data) = Len(time)
    /\ delayMax \in Nat
    /\ dataMeasured \in [Range(Sensors) -> [lo : Nat, hi : Nat, desired : Int, isFresh : BOOLEAN]]
    /\ t \in Nat /\ dt \in Steps \cup {0} /\ stage \in 0 .. Len(stepper.nodes) + 1 /\ isRunning \in BOOLEAN
    /\ period \in Periods /\ stepper \in Steppers

\* "Bisection method can be used since times are sorted.": a solver going back in time leaves
\* no sample after the one it adds.
TimesSorted == \A k \in 1 .. Len(time) - 1 : time[k] <= time[k + 1]

\* The samples of a trial that was rejected are gone as soon as the next one evaluates a stage:
\* those after the last accepted time are of the current trial.
NoRejectedSample ==
    dt > 0 /\ stage > 0 => Cardinality({k \in DOMAIN time : time[k] > t}) <= stage

\* Every sample is of the state of its time.
SamplesAreTimely == \A k \in DOMAIN time : data[k] = time[k]

\* A measurement is interpolated between two samples around the desired time, the closest
\* ones of the buffer; before the first delay has elapsed it is the initial state.
MeasurementsBracket ==
    \A s \in Range(Sensors) :
        LET m == dataMeasured[s] IN
        m.isFresh =>
            IF m.desired < 0 THEN m.lo = 0 /\ m.hi = 0
            ELSE /\ m.lo <= m.desired /\ (m.hi >= m.desired \/ s \notin LinearOrder)
                 /\ \A k \in DOMAIN data : ~(m.lo < data[k] /\ data[k] < m.hi)
                 /\ \A k \in DOMAIN data : data[k] <= m.desired => data[k] <= m.lo

\* setAll makes "sure at least the requested delay plus the maximum time step is available to
\* handle the case where the solver goes back in time": a measurement is never refused, and
\* left as it was, because no data old enough is available.
DelayedDataAvailable == \A s \in Range(Sensors) : dataMeasured[s].isFresh

\* "This is important for `data()` to always provide the last true value": the memory a sensor
\* writes its new value to shows the last one.
LastValueShown ==
    isRunning => Last(Room(Last(time) + 1).data) = Last(data)

\* Only "the extra last elements" are removed when the solver goes back in time: there is a
\* sample of every accepted time the sensors may still ask for.  Here, of the current one.
AcceptedTimeKept == isRunning /\ dt > 0 => \E k \in DOMAIN data : data[k] = t

=============================================================================
