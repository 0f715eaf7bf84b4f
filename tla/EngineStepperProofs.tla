------------------------- MODULE EngineStepperProofs -------------------------
(* What TLAPS proves of the integration loop, for every schedule of impulse     *)
(* forces and every option: the types; that the ODE stepper never starts from   *)
(* an outdated acceleration; that every update is held for its period; what a   *)
(* call that succeeds leaves; how long a step can be; and, but for breakpoints  *)
(* too close to each other in continuous time, that no impulse force is         *)
(* integrated outside of its window and that the physics is to blame for aborts.*)
EXTENDS EngineStepper, WellFoundedInduction, TLAPS

LEMMA SmallestIsLeast ==
    ASSUME NEW S, S \subseteq Nat, S # {}
    PROVE  Smallest(S) \in S /\ \A y \in S : Smallest(S) <= y
<1> DEFINE R == {ss \in Nat \X Nat : ss[1] < ss[2]}
<1>1. IsWellFoundedOn(R, Nat)
  <2>1. R = OpToRel(<, Nat)
    BY DEF OpToRel
  <2> QED BY <2>1, NatLessThanWellFounded
<1>2. \A x, y \in Nat : y < x => <<y, x>> \in R
  OBVIOUS
<1>3. PICK x \in S : \A y \in S : ~(<<y, x>> \in R)
  <2> HIDE DEF R
  <2> QED BY <1>1, WFMin
<1>4. ASSUME NEW y \in S
      PROVE  x <= y
  <2>1. x \in Nat /\ y \in Nat
    OBVIOUS
  <2>2. ~(y < x)
    <3> HIDE DEF R
    <3> QED BY <1>2, <1>3, <2>1, Zenon
  <2> QED BY <2>1, <2>2
<1>5. QED
  BY <1>4 DEF Smallest

LEMMA BreaksAreNat ==
    ASSUME NEW s
    PROVE  Breaks(s) \subseteq Nat
BY ImpulseAssumption DEF Breaks, ImpulseEnd

\* The iterator stands on the next breakpoint: those before it are not later than b.
LEMMA BreakAfterSkipsNone ==
    ASSUME NEW s, NEW b \in Int
    PROVE  /\ BreakAfter(s, b) \in Nat
           /\ \A c \in Breaks(s) : c < BreakAfter(s, b) => c <= b
<1> DEFINE later == {c \in Breaks(s) : b < c}
<1>1. later \subseteq Nat /\ Breaks(s) \subseteq Nat
  BY BreaksAreNat
<1>2. CASE later = {}
  <2>1. \A c \in Breaks(s) : c <= b
    BY <1>1, <1>2
  <2> QED BY <2>1, <1>2, TimeAssumption DEF BreakAfter
<1>3. CASE later # {}
  <2>1. BreakAfter(s, b) = Smallest(later)
    BY <1>3 DEF BreakAfter
  <2>2. Smallest(later) \in later /\ \A y \in later : Smallest(later) <= y
    <3> HIDE DEF later
    <3> QED BY <1>1, <1>3, SmallestIsLeast
  <2>3. ASSUME NEW c \in Breaks(s), c < BreakAfter(s, b), b < c
        PROVE  FALSE
    <3>1. c \in later
      BY <2>3
    <3> QED BY <3>1, <2>1, <2>2, <2>3, <1>1
  <2> QED BY <2>1, <2>2, <2>3, <1>1
<1>4. QED
  BY <1>2, <1>3

LEMMA StepSizeIsNat ==
    ASSUME NEW size \in StepSizes
    PROVE  StepSize(size) \in Nat
BY TimeAssumption, PeriodAssumption DEF StepSize

LEMMA StepperPeriodIsNat == StepperUpdatePeriod \in Nat \ {0}
<1>1. UpdatePeriods \subseteq Nat \ {0}
  BY PeriodAssumption DEF UpdatePeriods
<1>2. CASE UpdatePeriods = {}
  BY <1>2, TimeAssumption DEF StepperUpdatePeriod
<1>3. CASE UpdatePeriods # {}
  BY <1>1, <1>3, SmallestIsLeast DEF StepperUpdatePeriod
<1> QED BY <1>2, <1>3

LEMMA NextBreakIsLeast ==
    ASSUME TypeOK
    PROVE  /\ TForceImpulseNext \in Nat
           /\ \A s \in Systems : TForceImpulseNext <= breakNext[s]
<1> DEFINE S == {breakNext[s] : s \in Systems} \cup {Infinity}
<1>1. S \subseteq Nat /\ S # {}
  BY TimeAssumption DEF TypeOK
<1>2. Smallest(S) \in S /\ \A y \in S : Smallest(S) <= y
  <2> HIDE DEF S
  <2> QED BY <1>1, SmallestIsLeast
<1> QED BY <1>1, <1>2 DEF TForceImpulseNext

LEMMA PlannedEndBounds ==
    ASSUME TypeOK
    PROVE  /\ DtNextGlobal \in Int /\ DtNextGlobal <= TForceImpulseNext - t
           /\ PlannedEnd \in Int
           /\ PlannedEnd <= tEnd
           /\ PlannedEnd <= TForceImpulseNext + StepperMin
<1>1. DtNext(t, StepperUpdatePeriod) \in Int
  BY StepperPeriodIsNat DEF DtNext, TypeOK
<1>2. DtNextGlobal \in Int /\ DtNextGlobal <= TForceImpulseNext - t
  BY <1>1, StepperPeriodIsNat, NextBreakIsLeast DEF DtNextGlobal, Min2, TypeOK
<1>3. PlannedEnd \in Int
  BY <1>2 DEF PlannedEnd, TypeOK
<1>4. PlannedEnd <= tEnd /\ PlannedEnd <= TForceImpulseNext + StepperMin
  BY <1>2, NextBreakIsLeast, TimeAssumption DEF PlannedEnd, Negligible, TypeOK
<1> QED BY <1>2, <1>3, <1>4

LEMMA RoundedDtBounds ==
    ASSUME NEW d \in Int
    PROVE  RoundedDt(d) \in Int /\ RoundedDt(d) <= d
<1>1. d % SimMin \in Nat
  BY TimeAssumption
<1> QED BY <1>1 DEF RoundedDt

LEMMA SnappedDtBounds ==
    ASSUME TypeOK
    PROVE  SnappedDt \in Int /\ SnappedDt <= tNext - t
BY DEF SnappedDt, Min2, TypeOK

-----------------------------------------------------------------------------
\* One step of the loop preserves the types.
LEMMA TypeStep ==
    ASSUME TypeOK, [Next]_vars
    PROVE  TypeOK'
<1> USE DEF TypeOK
<1> SUFFICES ASSUME Next
             PROVE  TypeOK'
  BY DEF vars, stepperState, locals, inputs
<1>1. ASSUME NEW size \in StepSizes, Step(size)
      PROVE  TypeOK'
  <2>1. tEnd' \in Int /\ tEnd' <= MaximumLogTime
    BY <1>1, StepSizeIsNat, TimeAssumption DEF Step, FitsLog
  <2> QED BY <1>1, <2>1 DEF Step, stepperState, inputs
<1>2. ASSUME NEW size \in StepSizes, RejectStep(size)
      PROVE  TypeOK'
  BY <1>2 DEF RejectStep, stepperState, locals, inputs
<1>3. CASE UpdateInputs
  <2>1. breakNext' \in [Systems -> Nat]
    BY <1>3, BreakAfterSkipsNone DEF UpdateInputs, UpdatedBreak
  <2>2. active' \in [Impulses -> BOOLEAN]
    BY <1>3 DEF UpdateInputs, UpdatedActive
  <2>3. sample' \in [Profiles -> Int] /\ command' \in Int /\ logTime' \in Int
    BY <1>3 DEF UpdateInputs
  <2>4. hasDynamicsChanged' \in BOOLEAN
    BY <1>3 DEF UpdateInputs
  <2> QED BY <1>3, <2>1, <2>2, <2>3, <2>4 DEF UpdateInputs, stepperState
<1>4. CASE PlanDiscrete
  BY <1>4, PlannedEndBounds DEF PlanDiscrete, stepperState, inputs
<1>5. CASE PrepareDiscrete
  <2>1. dt' \in Int /\ dtLargest' \in Int
    BY <1>5, SnappedDtBounds, RoundedDtBounds DEF PrepareDiscrete
  <2>2. aSplit' \in [active : [Impulses -> BOOLEAN], command : Int, sample : [Profiles -> Int]]
    BY <1>5 DEF PrepareDiscrete, FixFsal, Inputs
  <2>3. logTime' \in Int /\ hasDynamicsChanged' \in BOOLEAN
    BY <1>5 DEF PrepareDiscrete, FixFsal
  <2>4. timedOut' \in BOOLEAN
    BY <1>5, FlagAssumption DEF PrepareDiscrete
  <2>5. isBreakpointReached' \in BOOLEAN
    <3>1. \/ isBreakpointReached' = isBreakpointReached
          \/ isBreakpointReached' = (dtLargest > dt')
      BY <1>5, Zenon DEF PrepareDiscrete
    <3>2. isBreakpointReached \in BOOLEAN /\ (dtLargest > dt') \in BOOLEAN
      BY <2>1
    <3> QED BY <3>1, <3>2, Zenon
  <2>6. pc' \in {"tail", "try"}
    BY <1>5 DEF PrepareDiscrete
  <2> QED BY <1>5, <2>1, <2>2, <2>3, <2>4, <2>5, <2>6 DEF PrepareDiscrete, inputs
<1>6. CASE LeaveDiscrete
  BY <1>6 DEF LeaveDiscrete, stepperState, locals, inputs
<1>7. CASE PlanContinuous
  <2>1. aSplit' \in [active : [Impulses -> BOOLEAN], command : Int, sample : [Profiles -> Int]]
    BY <1>7 DEF PlanContinuous, FixFsal, Inputs
  <2>2. dt' \in Int
    BY <1>7, NextBreakIsLeast DEF PlanContinuous, ContinuousDt, Min2
  <2>3. isBreakpointReached' \in BOOLEAN
    <3>1. isBreakpointReached' = (dtLargest > dt')
      BY <1>7, Zenon DEF PlanContinuous
    <3> QED BY <2>2, <3>1
  <2>4. hasDynamicsChanged' \in BOOLEAN
    BY <1>7 DEF PlanContinuous, FixFsal
  <2> QED BY <1>7, <2>1, <2>2, <2>3, <2>4 DEF PlanContinuous, inputs
<1>8. CASE PrepareContinuous
  BY <1>8 DEF PrepareContinuous, locals, inputs
<1>9. ASSUME NEW suggestion \in Suggestions, TrySucceeds(suggestion)
      PROVE  TypeOK'
  <2>1. suggestion \in Int
    BY TimeAssumption DEF Suggestions
  <2>2. dtLargest' \in Int /\ dt' \in Int /\ sensors' \in Int
    BY <1>9, <2>1, TimeAssumption
       DEF TrySucceeds, Restored, NextDt, Min2, TrySensors
  <2>3. aSplit' \in [active : [Impulses -> BOOLEAN], command : Int, sample : [Profiles -> Int]]
    BY <1>9 DEF TrySucceeds, Inputs
  <2> QED BY <1>9, <2>2, <2>3 DEF TrySucceeds, inputs
<1>10. ASSUME NEW factor \in Shrink, TryFails(factor)
       PROVE  TypeOK'
  <2>1. dtLargest' \in Int /\ dt' \in Int /\ sensors' \in Int
    BY <1>10, TimeAssumption DEF TryFails, NextDt, Min2, TrySensors
  <2> QED BY <1>10, <2>1 DEF TryFails, FailedOnceMore, inputs
<1>11. CASE TryDiverges
  BY <1>11 DEF TryDiverges, TrySensors, inputs
<1>12. CASE EndIteration
  BY <1>12, FlagAssumption DEF EndIteration, stepperState, inputs
<1>13. CASE Return
  BY <1>13 DEF Return, TReturned, locals, inputs
<1> QED BY <1>1, <1>2, <1>3, <1>4, <1>5, <1>6, <1>7, <1>8, <1>9, <1>10, <1>11, <1>12, <1>13
        DEF Next, Run

LEMMA TypeInit == Init => TypeOK
<1> SUFFICES ASSUME Init
             PROVE  TypeOK
  OBVIOUS
<1>1. breakNext \in [Systems -> Nat]
  BY BreakAfterSkipsNone DEF Init
<1>2. active \in [Impulses -> BOOLEAN]
  BY DEF Init, Negligible
<1>3. aSplit \in [active : [Impulses -> BOOLEAN], command : Int, sample : [Profiles -> Int]]
  BY <1>2 DEF Init, Inputs
<1>4. /\ t \in Int /\ tPrev \in Int /\ tNext \in Int /\ tEnd \in Int /\ tEnd <= MaximumLogTime
      /\ dt \in Int /\ dtLargest \in Int /\ dtLargestPrev \in Int
      /\ command \in Int /\ sensors \in Int /\ logTime \in Int /\ sample \in [Profiles -> Int]
  BY TimeAssumption DEF Init
<1> QED BY <1>1, <1>2, <1>3, <1>4 DEF Init, TypeOK

\* The variables of `step' keep their types.
THEOREM TypeCorrect == Spec => []TypeOK
<1>1. TypeOK /\ [Next]_vars => TypeOK'
  BY TypeStep
<1> QED BY <1>1, TypeInit, PTL DEF Spec

-----------------------------------------------------------------------------
(* Discrete time: the windows of the impulse forces *)

\* The order of the times the loop goes between: time only moves forward.
TimesOrdered ==
    /\ pc # "ready" => t <= tEnd
    /\ pc \in {"inner", "try"} => tNext <= tEnd
    /\ pc = "try" => dt > 0 /\ t + dt <= tNext

\* The breakpoints the iterators have passed are reached, and so is the start of
\* every impulse force that is switched on.
PastReached ==
    /\ \A s \in Systems : \A b \in Breaks(s) : b < breakNext[s] => Reached(b)
    /\ \A f \in Impulses : active[f] => Reached(ImpulseTime[f])

\* Between the update of the active set and the planning of the next breakpoint.
ActiveUpToDate ==
    pc = "plan" => \A f \in Impulses :
        IF active[f] THEN ~Reached(ImpulseEnd(f))
        ELSE ~Reached(ImpulseTime[f]) \/ Reached(ImpulseEnd(f))

\* Up to the planned breakpoint no impulse force starts or ends.
ActiveUpToNext ==
    pc \in {"inner", "try"} => \A f \in Impulses :
        IF active[f] THEN Negligible(tNext - ImpulseEnd(f))
        ELSE Negligible(tNext - ImpulseTime[f]) \/ Reached(ImpulseEnd(f))

WindowInv == TypeOK /\ TimesOrdered /\ PastReached /\ ActiveUpToDate /\ ActiveUpToNext

LEMMA WindowInit == Init => WindowInv
<1> SUFFICES ASSUME Init
             PROVE  WindowInv
  OBVIOUS
<1>1. TypeOK
  BY TypeInit
<1>2. TimesOrdered /\ ActiveUpToDate /\ ActiveUpToNext
  BY DEF Init, TimesOrdered, ActiveUpToDate, ActiveUpToNext
<1>3. ASSUME NEW s \in Systems, NEW b \in Breaks(s), b < breakNext[s]
      PROVE  Reached(b)
  <2>1. breakNext[s] = BreakAfter(s, -1)
    BY DEF Init
  <2>2. b <= -1
    BY <1>3, <2>1, BreakAfterSkipsNone
  <2>3. b \in Nat
    BY BreaksAreNat
  <2> QED BY <2>2, <2>3
<1>4. ASSUME NEW f \in Impulses, active[f]
      PROVE  Reached(ImpulseTime[f])
  <2>1. t = 0 /\ Negligible(ImpulseTime[f])
    BY <1>4, Zenon DEF Init
  <2> QED BY <2>1, ImpulseAssumption DEF Reached, Negligible
<1> QED BY <1>1, <1>2, <1>3, <1>4 DEF WindowInv, PastReached

\* In discrete time a step of the loop keeps the order of the times, and the time never
\* decreases: an attempt of the ODE stepper is always of a positive duration.
LEMMA TimesStep ==
    ASSUME IsDiscrete, TypeOK, TimesOrdered, [Next]_vars
    PROVE  TimesOrdered' /\ t <= t'
<1> USE DEF TimesOrdered, TypeOK
<1>1. ASSUME NEW size \in StepSizes, Step(size)
      PROVE  TimesOrdered' /\ t <= t'
  BY <1>1, StepSizeIsNat DEF Step, stepperState
<1>2. ASSUME NEW size \in StepSizes, RejectStep(size)
      PROVE  TimesOrdered' /\ t <= t'
  BY <1>2 DEF RejectStep, stepperState
<1>3. CASE UpdateInputs
  BY <1>3 DEF UpdateInputs, stepperState
<1>4. CASE PlanDiscrete
  BY <1>4, PlannedEndBounds DEF PlanDiscrete, stepperState
<1>5. CASE PrepareDiscrete
  <2>1. /\ RoundedDt(SnappedDt) \in Int
        /\ RoundedDt(SnappedDt) <= tNext - t
    BY SnappedDtBounds, RoundedDtBounds
  <2>2. /\ t' = t /\ tNext' = tNext /\ tEnd' = tEnd
        /\ dt' = RoundedDt(SnappedDt)
        /\ pc = "inner" /\ pc' \in {"tail", "try"}
        /\ pc' = "try" => ~Negligible(dt')
    BY <1>5 DEF PrepareDiscrete
  <2> QED BY <2>1, <2>2, TimeAssumption DEF Negligible
<1>6. CASE LeaveDiscrete
  BY <1>6 DEF LeaveDiscrete, stepperState, locals
<1>7. CASE PlanContinuous \/ PrepareContinuous
  BY <1>7 DEF PlanContinuous, PrepareContinuous
<1>8. ASSUME NEW suggestion \in Suggestions, TrySucceeds(suggestion)
      PROVE  TimesOrdered' /\ t <= t'
  BY <1>8 DEF TrySucceeds
<1>9. ASSUME NEW factor \in Shrink, TryFails(factor)
      PROVE  TimesOrdered' /\ t <= t'
  BY <1>9 DEF TryFails
<1>10. CASE TryDiverges
  BY <1>10 DEF TryDiverges
<1>11. CASE EndIteration
  BY <1>11 DEF EndIteration, stepperState
<1>12. CASE Return
  BY <1>12 DEF Return, TReturned, locals
<1>13. CASE UNCHANGED vars
  BY <1>13 DEF vars, stepperState, locals
<1> QED BY <1>1, <1>2, <1>3, <1>4, <1>5, <1>6, <1>7, <1>8, <1>9, <1>10, <1>11, <1>12, <1>13
        DEF Next, Run

\* Only the head of an iteration changes the active set and the iterators.
LEMMA InputsUnchanged ==
    ASSUME [Next]_vars, ~UpdateInputs
    PROVE  UNCHANGED <<active, breakNext>>
<1>1. CASE UNCHANGED vars
  BY <1>1 DEF vars, inputs
<1>2. CASE \E size \in StepSizes : Step(size) \/ RejectStep(size)
  BY <1>2 DEF Step, RejectStep, inputs
<1>3. CASE \/ PlanDiscrete \/ PrepareDiscrete \/ LeaveDiscrete
           \/ PlanContinuous \/ PrepareContinuous
  BY <1>3 DEF PlanDiscrete, PrepareDiscrete, LeaveDiscrete, PlanContinuous,
              PrepareContinuous, inputs
<1>4. CASE \/ \E suggestion \in Suggestions : TrySucceeds(suggestion)
           \/ \E factor \in Shrink : TryFails(factor)
           \/ TryDiverges
  BY <1>4 DEF TrySucceeds, TryFails, TryDiverges, inputs
<1>5. CASE EndIteration \/ Return
  BY <1>5 DEF EndIteration, Return, inputs
<1> QED BY <1>1, <1>2, <1>3, <1>4, <1>5 DEF Next, Run

LEMMA NegligibleLater ==
    ASSUME NEW u \in Int, NEW v \in Int, u <= v, NEW b \in Int, Negligible(b - u)
    PROVE  Negligible(b - v)
BY TimeAssumption DEF Negligible

\* As the time moves forward, what is reached stays so.
LEMMA ReachedStays ==
    ASSUME TypeOK, TypeOK', t <= t', NEW b \in Int, Reached(b)
    PROVE  Reached(b)'
<1>1. t \in Int /\ t' \in Int
  BY DEF TypeOK
<1>2. Negligible(b - t)
  BY DEF Reached
<1>3. Negligible(b - t')
  BY <1>1, <1>2, NegligibleLater
<1> QED BY <1>3 DEF Reached

LEMMA PastStep ==
    ASSUME TypeOK, TypeOK', t <= t', PastReached, [Next]_vars
    PROVE  PastReached'
<1>1. CASE UpdateInputs
  <2>1. t' = t
    BY <1>1 DEF UpdateInputs, stepperState
  <2>2. ASSUME NEW s \in Systems, NEW b \in Breaks(s), b < breakNext'[s]
        PROVE  Reached(b)
    <3>1. breakNext'[s] = UpdatedBreak(s)
      BY <1>1 DEF UpdateInputs
    <3>2. breakNext[s] \in Nat /\ b \in Nat
      BY BreaksAreNat DEF TypeOK
    <3>3. CASE Reached(breakNext[s]) /\ UpdatedBreak(s) = BreakAfter(s, breakNext[s])
      <4>1. b <= breakNext[s]
        BY <2>2, <3>1, <3>2, <3>3, BreakAfterSkipsNone
      <4> QED BY <3>2, <3>3, <4>1, TimeAssumption DEF Reached, Negligible, TypeOK
    <3>4. CASE UpdatedBreak(s) = breakNext[s]
      BY <2>2, <3>1, <3>4 DEF PastReached
    <3> QED BY <3>3, <3>4 DEF UpdatedBreak
  <2>3. ASSUME NEW f \in Impulses, active'[f]
        PROVE  Reached(ImpulseTime[f])
    BY <1>1, <2>3 DEF UpdateInputs, UpdatedActive, PastReached
  <2> QED BY <2>1, <2>2, <2>3 DEF PastReached, Reached
<1>2. CASE ~UpdateInputs
  <2>1. active' = active /\ breakNext' = breakNext
    BY <1>2, InputsUnchanged
  <2>2. ASSUME NEW s \in Systems, NEW b \in Breaks(s), b < breakNext[s]
        PROVE  Reached(b)'
    BY <2>2, BreaksAreNat, ReachedStays DEF PastReached
  <2>3. ASSUME NEW f \in Impulses, active[f]
        PROVE  Reached(ImpulseTime[f])'
    BY <2>3, ImpulseAssumption, ReachedStays DEF PastReached
  <2> QED BY <2>1, <2>2, <2>3 DEF PastReached
<1> QED BY <1>1, <1>2

\* Planning: the next breakpoint is planned no later than any start or end to come.
LEMMA PlannedBefore ==
    ASSUME TypeOK, PastReached, PlanDiscrete, NEW f \in Impulses,
           NEW b \in {ImpulseTime[f], ImpulseEnd(f)}, ~Reached(b)
    PROVE  Negligible(tNext' - b)
<1> DEFINE s == ImpulseSystem[f]
<1>1. s \in Systems /\ b \in Breaks(s) /\ b \in Nat
  BY ImpulseAssumption DEF Breaks, ImpulseEnd
<1>2. breakNext[s] \in Nat /\ breakNext[s] <= b
  BY <1>1 DEF PastReached, TypeOK
<1>3. TForceImpulseNext \in Nat /\ TForceImpulseNext <= breakNext[s]
  BY <1>1, NextBreakIsLeast
<1>4. PlannedEnd \in Int /\ PlannedEnd <= TForceImpulseNext + StepperMin
  BY PlannedEndBounds
<1>5. PlannedEnd - b <= StepperMin
  BY <1>1, <1>2, <1>3, <1>4, TimeAssumption
<1> QED BY <1>5 DEF PlanDiscrete, Negligible

LEMMA ActiveStep ==
    ASSUME IsDiscrete, TypeOK, TypeOK', t <= t', PastReached,
           ActiveUpToDate, ActiveUpToNext, [Next]_vars
    PROVE  ActiveUpToDate' /\ ActiveUpToNext'
<1>1. CASE UpdateInputs
  <2>1. t' = t /\ pc' = "plan"
    BY <1>1 DEF UpdateInputs, stepperState
  <2>2. ASSUME NEW f \in Impulses
        PROVE  IF active'[f] THEN ~Reached(ImpulseEnd(f))
               ELSE ~Reached(ImpulseTime[f]) \/ Reached(ImpulseEnd(f))
    <3>1. active'[f] = UpdatedActive(f)
      BY <1>1 DEF UpdateInputs
    <3> QED BY <3>1 DEF UpdatedActive
  <2> QED BY <2>1, <2>2 DEF ActiveUpToDate, ActiveUpToNext, Reached
<1>2. CASE PlanDiscrete
  <2>1. t' = t /\ active' = active /\ pc = "plan" /\ pc' = "inner"
    BY <1>2 DEF PlanDiscrete, stepperState, inputs
  <2>2. ASSUME NEW f \in Impulses
        PROVE  IF active[f] THEN Negligible(tNext' - ImpulseEnd(f))
               ELSE Negligible(tNext' - ImpulseTime[f]) \/ Reached(ImpulseEnd(f))
    BY <1>2, <2>1, PlannedBefore DEF ActiveUpToDate
  <2> QED BY <2>1, <2>2 DEF ActiveUpToDate, ActiveUpToNext, Reached
<1>3. CASE ~UpdateInputs /\ ~PlanDiscrete
  <2>1. active' = active
    BY <1>3, InputsUnchanged
  <2>2. pc' = "plan" => pc = "plan"
    BY <1>3 DEF Next, Run, Step, RejectStep, PrepareDiscrete, LeaveDiscrete, PlanContinuous,
                PrepareContinuous, TrySucceeds, TryFails, TryDiverges, EndIteration, Return, vars
  <2>3. pc' = "plan" => t' = t
    BY <1>3 DEF Next, Run, Step, RejectStep, PrepareDiscrete, LeaveDiscrete, PlanContinuous,
                PrepareContinuous, TrySucceeds, TryFails, TryDiverges, EndIteration, Return, vars,
                stepperState
  <2>4. pc' \in {"inner", "try"} => pc \in {"inner", "try"} /\ tNext' = tNext
    BY <1>3 DEF Next, Run, Step, RejectStep, PrepareDiscrete, LeaveDiscrete, PlanContinuous,
                PrepareContinuous, TrySucceeds, TryFails, TryDiverges, EndIteration, Return, vars,
                locals
  <2>5. ActiveUpToDate'
    BY <2>1, <2>2, <2>3 DEF ActiveUpToDate, Reached
  <2>6. ASSUME NEW f \in Impulses, Reached(ImpulseEnd(f))
        PROVE  Reached(ImpulseEnd(f))'
    <3>1. ImpulseEnd(f) \in Int
      BY ImpulseAssumption DEF ImpulseEnd
    <3> QED BY <2>6, <3>1, ReachedStays
  <2>7. ActiveUpToNext'
    BY <2>1, <2>4, <2>6 DEF ActiveUpToNext
  <2> QED BY <2>5, <2>7
<1> QED BY <1>1, <1>2, <1>3

LEMMA WindowStep ==
    ASSUME IsDiscrete, WindowInv, [Next]_vars
    PROVE  WindowInv'
<1> USE DEF WindowInv
<1>1. TypeOK'
  BY TypeStep
<1>2. TimesOrdered' /\ t <= t'
  BY TimesStep
<1>3. PastReached'
  BY <1>1, <1>2, PastStep
<1>4. ActiveUpToDate' /\ ActiveUpToNext'
  BY <1>1, <1>2, ActiveStep
<1> QED BY <1>1, <1>2, <1>3, <1>4

LEMMA WindowInvSuffices ==
    ASSUME WindowInv
    PROVE  ImpulsesInWindow
<1> SUFFICES ASSUME pc = "try", NEW f \in Impulses
             PROVE  ImpulseInWindow(f, t, t + dt)
  BY DEF ImpulsesInWindow
<1>1. t \in Int /\ dt \in Int /\ tNext \in Int /\ t + dt <= tNext
  BY DEF WindowInv, TypeOK, TimesOrdered
<1>2. ImpulseTime[f] \in Int /\ ImpulseEnd(f) \in Int
  BY ImpulseAssumption DEF ImpulseEnd
<1>3. CASE active[f]
  <2>1. Negligible(ImpulseTime[f] - t)
    BY <1>3 DEF WindowInv, PastReached, Reached
  <2>2. Negligible(tNext - ImpulseEnd(f))
    BY <1>3 DEF WindowInv, ActiveUpToNext
  <2>3. Negligible(t + dt - ImpulseEnd(f))
    BY <1>1, <1>2, <2>2, TimeAssumption DEF Negligible
  <2> QED BY <1>1, <1>2, <1>3, <2>1, <2>3 DEF ImpulseInWindow, Negligible
<1>4. CASE ~active[f]
  <2>1. Negligible(tNext - ImpulseTime[f]) \/ Reached(ImpulseEnd(f))
    BY <1>4 DEF WindowInv, ActiveUpToNext
  <2>2. Negligible(tNext - ImpulseTime[f]) => Negligible(t + dt - ImpulseTime[f])
    BY <1>1, <1>2, TimeAssumption DEF Negligible
  <2> QED BY <1>1, <1>2, <1>4, <2>1, <2>2 DEF ImpulseInWindow, Reached, Negligible
<1> QED BY <1>3, <1>4

-----------------------------------------------------------------------------
(* The acceleration the ODE stepper starts from *)

\* The head of an iteration that starts now has the acceleration computed again.
IsDynamicsDue == \/ \E f \in Impulses : Reached(ImpulseTime[f])
                 \/ DueProfiles # {}
                 \/ IsCommandDue

\* An acceleration of other inputs than the current ones is about to be computed again:
\* in this call, whose flag says so and which has not ended yet, or, when an error cuts
\* the call short and the flag is lost, in the next one, since the time has not changed.
FreshInv ==
    aSplit # Inputs => /\ pc # "try"
                       /\ IsDynamicsDue
                       /\ pc # "ready" => ~Negligible(tEnd - t)
                       /\ pc \in {"plan", "inner"} => hasDynamicsChanged
                       /\ pc = "inner" => IsDiscrete

\* The head of an iteration changes the inputs only where it has the acceleration
\* computed again.
LEMMA InputsChangeWhenDue ==
    ASSUME TypeOK, UpdateInputs, ~IsDynamicsDue
    PROVE  active' = active /\ command' = command /\ sample' = sample
<1>1. ASSUME NEW f \in Impulses
      PROVE  UpdatedActive(f) = active[f]
  <2>1. ~Negligible(ImpulseTime[f] - t)
    BY DEF IsDynamicsDue, Reached
  <2>2. t \in Int /\ ImpulseTime[f] \in Nat /\ ImpulseDuration[f] \in Nat
    BY ImpulseAssumption DEF TypeOK
  <2>3. ~Negligible(ImpulseEnd(f) - t)
    BY <2>1, <2>2, TimeAssumption DEF Negligible, ImpulseEnd
  <2> QED BY <2>1, <2>3 DEF UpdatedActive, Reached
<1>2. active' = active
  BY <1>1 DEF UpdateInputs, TypeOK
<1>3. sample' = sample
  BY DEF UpdateInputs, IsDynamicsDue, TypeOK
<1> QED BY <1>2, <1>3 DEF UpdateInputs, IsDynamicsDue

\* A step that leaves the time alone leaves what is due alone.
LEMMA DueUnchanged ==
    ASSUME t' = t
    PROVE  IsDynamicsDue' = IsDynamicsDue
BY DEF IsDynamicsDue, Reached, DueProfiles, IsCommandDue

LEMMA StepIsNotNegligible ==
    ASSUME NEW size \in StepSizes, IsAccepted(size)
    PROVE  StepSize(size) > StepperMin
BY TimeAssumption, PeriodAssumption DEF IsAccepted, StepSize

LEMMA FreshStep ==
    ASSUME TypeOK, FreshInv, [Next]_vars
    PROVE  FreshInv'
<1> USE DEF FreshInv, Inputs
<1>1. ASSUME NEW size \in StepSizes, Step(size)
      PROVE  FreshInv'
  <2>1. tEnd' - t > StepperMin
    BY <1>1, StepIsNotNegligible, StepSizeIsNat, TimeAssumption DEF Step, TypeOK
  <2>2. t' = t /\ pc = "ready" /\ pc' = "head"
    BY <1>1 DEF Step, stepperState
  <2>3. ~Negligible(tEnd' - t')
    BY <2>1, <2>2, StepSizeIsNat, <1>1, TimeAssumption DEF Negligible, Step, TypeOK
  <2> QED BY <1>1, <2>2, <2>3, DueUnchanged DEF Step, inputs
<1>2. ASSUME NEW size \in StepSizes, RejectStep(size)
      PROVE  FreshInv'
  BY <1>2, DueUnchanged DEF RejectStep, inputs, stepperState, locals
<1>3. CASE UpdateInputs
  <2>1. t' = t /\ tEnd' = tEnd /\ aSplit' = aSplit /\ pc = "head" /\ pc' = "plan"
    BY <1>3 DEF UpdateInputs, stepperState
  <2>2. ~Negligible(tEnd - t)
    BY <1>3 DEF UpdateInputs
  <2>3. IsDynamicsDue => hasDynamicsChanged'
    BY <1>3 DEF UpdateInputs, IsDynamicsDue
  <2>4. ~IsDynamicsDue => aSplit = Inputs /\ Inputs' = Inputs
    BY <1>3, InputsChangeWhenDue
  <2> QED BY <2>1, <2>2, <2>3, <2>4, DueUnchanged
<1>4. CASE PlanDiscrete \/ LeaveDiscrete
  BY <1>4, DueUnchanged DEF PlanDiscrete, LeaveDiscrete, inputs, stepperState, locals
<1>5. CASE PrepareDiscrete \/ PlanContinuous \/ PrepareContinuous
  BY <1>5 DEF PrepareDiscrete, PlanContinuous, PrepareContinuous, FixFsal, inputs
<1>6. CASE \/ \E suggestion \in Suggestions : TrySucceeds(suggestion)
           \/ \E factor \in Shrink : TryFails(factor)
           \/ TryDiverges
  BY <1>6 DEF TrySucceeds, TryFails, TryDiverges, inputs
<1>7. CASE EndIteration
  BY <1>7, DueUnchanged DEF EndIteration, inputs, stepperState
<1>8. CASE Return
  <2>1. CASE rc = "SUCCESS"
    BY <1>8, <2>1 DEF Return, inputs
  <2>2. CASE rc # "SUCCESS"
    <3>1. t' = t /\ pc' = "ready"
      BY <1>8, <2>2 DEF Return, TReturned
    <3> QED BY <1>8, <3>1, DueUnchanged DEF Return, inputs
  <2> QED BY <2>1, <2>2
<1>9. CASE UNCHANGED vars
  BY <1>9, DueUnchanged DEF vars, inputs, stepperState, locals
<1> QED BY <1>1, <1>2, <1>3, <1>4, <1>5, <1>6, <1>7, <1>8, <1>9 DEF Next, Run

\* Whatever changes the inputs, and even when a call is cut short between the change and
\* its use, the ODE stepper never starts from the acceleration of other inputs.
THEOREM AccelerationIsFresh == Spec => []FreshAcceleration
<1>1. Init => TypeOK /\ FreshInv
  BY TypeInit DEF Init, FreshInv
<1>2. TypeOK /\ FreshInv /\ [Next]_vars => (TypeOK /\ FreshInv)'
  BY TypeStep, FreshStep
<1>3. FreshInv => FreshAcceleration
  BY DEF FreshInv, FreshAcceleration
<1> QED BY <1>1, <1>2, <1>3, PTL DEF Spec

-----------------------------------------------------------------------------
(* Multiples of the periods *)

LEMMA Division ==
    ASSUME NEW x \in Int, NEW d \in Nat \ {0}
    PROVE  x \div d \in Int /\ x % d \in 0 .. (d - 1) /\ x = d * (x \div d) + (x % d)
<1>1. x \div d \in Int /\ x % d \in 0 .. (d - 1)
  OBVIOUS
<1>2. x = d * (x \div d) + (x % d)
  BY Z3
<1> QED BY <1>1, <1>2

\* Between two multiples of a period there is a whole period.
LEMMA MultiplesApart ==
    ASSUME NEW p \in Nat \ {0}, NEW i \in Int, NEW j \in Int, p * i < p * j
    PROVE  p * i + p <= p * j
<1>1. p * i \in Int /\ p * j \in Int
  OBVIOUS
<1>2. CASE j <= i
  <2>1. p * j <= p * i
    BY <1>2, Z3
  <2> QED BY <1>1, <2>1
<1>3. CASE i + 1 <= j
  <2>1. p * (i + 1) <= p * j
    BY <1>3, Z3
  <2>2. p * (i + 1) = p * i + p
    BY Z3
  <2> QED BY <2>1, <2>2
<1> QED BY <1>2, <1>3

\* The next update is a multiple of the period, not before SIMULATION_MIN_TIMESTEP and
\* no later than a period after that.
LEMMA NextUpdateIsMultiple ==
    ASSUME NEW last \in Int, NEW p \in Nat \ {0}
    PROVE  \E k \in Int : /\ NextUpdate(last, p) = p * k /\ p * k \in Int
                          /\ last + SimMin <= p * k /\ p * k < last + SimMin + p
<1> DEFINE x == last + SimMin + p - 1
<1>1. x \in Int
  BY TimeAssumption
<1>2. x \div p \in Int /\ x % p \in 0 .. (p - 1) /\ x = p * (x \div p) + (x % p)
  <2> HIDE DEF x
  <2> QED BY <1>1, Division
<1>3. NextUpdate(last, p) = p * (x \div p)
  BY DEF NextUpdate
<1>4. ASSUME NEW k \in Int, NEW r \in 0 .. (p - 1), x = p * k + r
      PROVE  p * k \in Int /\ last + SimMin <= p * k /\ p * k < last + SimMin + p
  <2>1. p * k \in Int
    OBVIOUS
  <2> QED BY <1>4, <2>1, TimeAssumption
<1> QED
  <2> HIDE DEF x
  <2>1. /\ x \div p \in Int /\ p * (x \div p) \in Int
        /\ last + SimMin <= p * (x \div p) /\ p * (x \div p) < last + SimMin + p
    BY <1>2, <1>4, Zenon
  <2> QED BY <1>3, <2>1, Zenon

\* It is the first such multiple.
LEMMA NextUpdateIsFirst ==
    ASSUME NEW last \in Int, NEW p \in Nat \ {0}, NEW m \in Int, last + SimMin <= p * m
    PROVE  NextUpdate(last, p) <= p * m
<1>1. PICK k \in Int : /\ NextUpdate(last, p) = p * k /\ p * k \in Int
                       /\ last + SimMin <= p * k /\ p * k < last + SimMin + p
  BY NextUpdateIsMultiple
<1>2. p * m \in Int
  OBVIOUS
<1>3. p * m < p * k => p * m + p <= p * k
  BY MultiplesApart
<1> HIDE DEF NextUpdate
<1> QED BY <1>1, <1>2, <1>3, TimeAssumption

LEMMA NextUpdateBounds ==
    ASSUME NEW last \in Int, NEW p \in Nat \ {0}
    PROVE  NextUpdate(last, p) \in Int /\ last + SimMin <= NextUpdate(last, p)
BY NextUpdateIsMultiple

\* The updates of a period that divides another one are not later.
LEMMA DivisorUpdatesFirst ==
    ASSUME NEW last \in Int, NEW p \in Nat \ {0}, NEW q \in Nat \ {0}, q % p = 0
    PROVE  NextUpdate(last, p) <= NextUpdate(last, q)
<1>1. PICK k \in Int : /\ NextUpdate(last, q) = q * k /\ q * k \in Int
                       /\ last + SimMin <= q * k /\ q * k < last + SimMin + q
  BY NextUpdateIsMultiple
<1>2. q \div p \in Int /\ q = p * (q \div p)
  BY Division
<1>3. PICK j \in Int : q = p * j
  BY <1>2
<1>4. j * k \in Int /\ q * k = p * (j * k)
  BY <1>3, Z3
<1>5. last + SimMin <= p * (j * k)
  BY <1>1, <1>4, Zenon
<1>6. NextUpdate(last, p) <= p * (j * k)
  BY <1>4, <1>5, NextUpdateIsFirst
<1> QED BY <1>1, <1>4, <1>6, Zenon

\* The end of the current period, a multiple of it.
LEMMA PeriodEnd ==
    ASSUME NEW now \in Int, NEW p \in Nat \ {0}
    PROVE  /\ DtNext(now, p) \in 1 .. p
           /\ \E q \in Int : now + DtNext(now, p) = p * q + p /\ p * q \in Int /\ p * q <= now
<1>1. now \div p \in Int /\ now % p \in 0 .. (p - 1) /\ now = p * (now \div p) + (now % p)
  BY Division
<1>2. ASSUME NEW q \in Int, NEW r \in 0 .. (p - 1), now = p * q + r, DtNext(now, p) = p - r
      PROVE  /\ DtNext(now, p) \in 1 .. p
             /\ now + DtNext(now, p) = p * q + p /\ p * q \in Int /\ p * q <= now
  <2>1. p * q \in Int
    OBVIOUS
  <2> QED BY <1>2, <2>1
<1>3. DtNext(now, p) = p - (now % p)
  BY DEF DtNext
<1> QED BY <1>1, <1>2, <1>3

\* What `step' adds to the time, the end of the current period or of the next one when
\* that is anticipated, is no later than the next update.
LEMMA PeriodEndIsNextUpdate ==
    ASSUME NEW now \in Int, NEW p \in Nat \ {0}
    PROVE  /\ now + DtNext(now, p) <= NextUpdate(now, p)
           /\ DtNext(now, p) < SimMin => now + DtNext(now, p) + p <= NextUpdate(now, p)
<1>1. DtNext(now, p) \in 1 .. p
  BY PeriodEnd
<1>2. PICK q \in Int : now + DtNext(now, p) = p * q + p /\ p * q \in Int /\ p * q <= now
  BY PeriodEnd
<1>3. PICK k \in Int : /\ NextUpdate(now, p) = p * k /\ p * k \in Int
                       /\ now + SimMin <= p * k /\ p * k < now + SimMin + p
  BY NextUpdateIsMultiple
<1>4. p * q < p * k
  BY <1>2, <1>3, TimeAssumption
<1>5. p * q + p <= p * k
  BY <1>4, MultiplesApart
<1>6. p * (q + 1) = p * q + p /\ q + 1 \in Int
  BY Z3
<1>7. p * (q + 1) < p * k => p * (q + 1) + p <= p * k
  BY <1>6, MultiplesApart
<1>8. now + DtNext(now, p) <= p * k
  BY <1>2, <1>5
<1>9. DtNext(now, p) < SimMin => now + DtNext(now, p) + p <= p * k
  BY <1>1, <1>2, <1>3, <1>6, <1>7, TimeAssumption
<1> QED BY <1>3, <1>8, <1>9, Zenon

\* An update that is not due is not missed: the next one counted from now is the one that
\* was already to come.
LEMMA NotDueNotMissed ==
    ASSUME NEW now \in Int, NEW last \in Int, NEW p \in Nat \ {0},
           now <= NextUpdate(last, p) + StepperMin, ~IsDue(now, p)
    PROVE  NextUpdate(now, p) <= NextUpdate(last, p)
<1>1. PICK m \in Int : NextUpdate(last, p) = p * m /\ p * m \in Int
  BY NextUpdateIsMultiple
<1>2. DtNext(now, p) \in 1 .. p
  BY PeriodEnd
<1>3. PICK q \in Int : now + DtNext(now, p) = p * q + p /\ p * q \in Int /\ p * q <= now
  BY PeriodEnd
<1>4. SimMin <= DtNext(now, p) /\ StepperMin < p - DtNext(now, p)
  BY <1>2, TimeAssumption DEF IsDue, Negligible
<1>5. now <= p * m + StepperMin
  BY <1>1, Zenon
<1>6. p * q < p * m
  BY <1>1, <1>3, <1>4, <1>5, <1>2, MultiplesApart, TimeAssumption
<1>7. p * q + p <= p * m
  BY <1>6, MultiplesApart
<1>8. now + SimMin <= p * m
  BY <1>1, <1>2, <1>3, <1>4, <1>7, TimeAssumption
<1> QED BY <1>1, <1>8, NextUpdateIsFirst, Zenon

-----------------------------------------------------------------------------
(* Discrete time: the updates *)

\* What is updated once a period: the next update of the period comes no earlier than the
\* breakpoint being integrated to, nor than the end of a call that is about to return.
CoveredUpTo(update) ==
    /\ t <= update + StepperMin
    /\ pc # "ready" /\ Negligible(tEnd - t) => tEnd <= update + StepperMin
    /\ pc = "plan" => NextUpdate(t, StepperUpdatePeriod) <= update
    /\ pc \in {"inner", "try"} => tNext <= update + StepperMin

\* A breakpoint is reached exactly, or there is time left to integrate before it, never a
\* remainder that the ODE stepper could not integrate.
Exact ==
    /\ pc = "plan" => ~Negligible(tEnd - t)
    /\ pc \in {"inner", "try"} => tEnd = tNext \/ ~Negligible(tEnd - tNext)
    /\ pc = "inner" => t = tNext \/ ~Negligible(tEnd - t)
    /\ pc = "try" => ~Negligible(dt) /\ (t + dt = tNext \/ ~Negligible(tNext - t - dt))

\* What has the tail of an iteration abort the call.
Failing == isNan \/ successiveIterFailed > FailMax \/ Negligible(dt) \/ timedOut

\* A call that returns successfully in discrete time has integrated up to its end.
Ends ==
    /\ pc = "tail" => Failing \/ ~Negligible(tEnd - t) \/ t = tEnd
    /\ pc = "head" /\ rc = "SUCCESS" => ~Negligible(tEnd - t) \/ t = tEnd

\* The sensors are updated at the tail: they are ahead of the head of the next iteration,
\* unless an abort skipped them.
SensorsAhead ==
    SensorsPeriod > 0 /\ ~hasAborted /\ rc # "ABORTED" =>
        LET update == NextUpdate(sensors, SensorsPeriod) IN
            /\ t <= update + StepperMin
            /\ pc \in {"plan", "head", "ready"} => NextUpdate(t, StepperUpdatePeriod) <= update
            /\ pc \in {"inner", "try"} => tNext <= update + StepperMin

\* An iteration goes on as long as nothing failed, and an abort is remembered.
AbortsRemembered ==
    /\ pc \in {"plan", "inner", "try", "tail"} => rc = "SUCCESS"
    /\ pc = "ready" /\ rc = "ABORTED" => hasAborted

UpdatesInv ==
    /\ TypeOK /\ TimesOrdered /\ Exact /\ Ends /\ AbortsRemembered /\ SensorsAhead
    /\ ControllerPeriod > 0 => CoveredUpTo(NextUpdate(command, ControllerPeriod))
    /\ \A f \in Profiles :
          ProfilePeriod[f] > 0 => CoveredUpTo(NextUpdate(sample[f], ProfilePeriod[f]))
    /\ ~LogInternalSteps => CoveredUpTo(NextUpdate(logTime, StepperUpdatePeriod))

\* Every period is a multiple of the shortest one.
LEMMA PeriodsAreMultiples ==
    ASSUME IsDiscrete
    PROVE  /\ StepperUpdatePeriod \in UpdatePeriods
           /\ \A p \in UpdatePeriods : /\ p \in Nat \ {0} /\ SimMin <= p
                                       /\ p % StepperUpdatePeriod = 0
<1>1. UpdatePeriods \subseteq Nat \ {0} /\ \A p \in UpdatePeriods : SimMin <= p
  BY PeriodAssumption DEF UpdatePeriods
<1>2. StepperUpdatePeriod = Smallest(UpdatePeriods) /\ UpdatePeriods # {}
  BY DEF StepperUpdatePeriod, IsDiscrete
<1>3. StepperUpdatePeriod \in UpdatePeriods
  BY <1>1, <1>2, SmallestIsLeast
<1> QED BY <1>1, <1>3, GcdAssumption

\* The planned breakpoint is no later than the next update of the shortest period.
LEMMA PlannedBeforeUpdate ==
    ASSUME IsDiscrete, TypeOK
    PROVE  PlannedEnd <= NextUpdate(t, StepperUpdatePeriod) + StepperMin
<1> DEFINE P == StepperUpdatePeriod
           u == NextUpdate(t, P)
           d == DtNext(t, P)
<1>1. t \in Int /\ tEnd \in Int
  BY DEF TypeOK
<1>2. P \in Nat \ {0}
  BY StepperPeriodIsNat
<1>3. u \in Int /\ d \in 1 .. P /\ t + d <= u /\ (d < SimMin => t + d + P <= u)
  <2> HIDE DEF P
  <2> QED BY <1>1, <1>2, NextUpdateBounds, PeriodEnd, PeriodEndIsNextUpdate
<1>4. TForceImpulseNext \in Nat
  BY NextBreakIsLeast
<1>5. DtNextGlobal = Min2(IF d < SimMin THEN d + P ELSE d, TForceImpulseNext - t)
  BY Zenon DEF DtNextGlobal
<1> HIDE DEF P, u, d
<1>6. DtNextGlobal \in Int /\ t + DtNextGlobal <= u
  BY <1>1, <1>2, <1>3, <1>4, <1>5, TimeAssumption DEF Min2
<1>7. PlannedEnd <= u + StepperMin
  BY <1>1, <1>3, <1>6, TimeAssumption DEF PlannedEnd, Negligible
<1> QED BY <1>7 DEF u, P

\* What `step' gives the ODE stepper ends on the breakpoint or well before it.
LEMMA PreparedExactly ==
    ASSUME TypeOK
    PROVE  LET d == RoundedDt(SnappedDt)
           IN  d \in Int /\ (t + d = tNext \/ ~Negligible(tNext - t - d))
<1> DEFINE s == SnappedDt
           d == RoundedDt(s)
<1>1. t \in Int /\ tNext \in Int /\ dt \in Int /\ dtLargest \in Int
  BY DEF TypeOK
<1>2. s \in Int /\ s <= tNext - t
  BY SnappedDtBounds
<1>3. s = tNext - t \/ StepperMin < tNext - t - s
  BY <1>1, TimeAssumption DEF SnappedDt, Min2, Negligible
<1>4. s % SimMin \in Nat
  BY <1>2, TimeAssumption
<1>5. d = s \/ (d = s - (s % SimMin) /\ StepperMin < s % SimMin)
  <2> HIDE DEF s
  <2> QED BY <1>2, <1>4, TimeAssumption DEF RoundedDt, Negligible
<1> HIDE DEF s, d
<1>6. d \in Int /\ (t + d = tNext \/ StepperMin < tNext - t - d)
  BY <1>1, <1>2, <1>3, <1>4, <1>5, TimeAssumption
<1>7. d \in Int /\ (t + d = tNext \/ ~Negligible(tNext - t - d))
  BY <1>1, <1>6, TimeAssumption DEF Negligible
<1> QED BY <1>7 DEF d, s

-----------------------------------------------------------------------------
\* A step of the loop keeps the breakpoints exact.
LEMMA ExactStep ==
    ASSUME IsDiscrete, TypeOK, TimesOrdered, Exact, [Next]_vars
    PROVE  Exact'
<1> USE DEF Exact
<1>0. /\ t \in Int /\ tEnd \in Int /\ tNext \in Int /\ dt \in Int
  BY DEF TypeOK
<1>1. ASSUME NEW size \in StepSizes, Step(size) \/ RejectStep(size)
      PROVE  Exact'
  BY <1>1 DEF Step, RejectStep
<1>2. CASE UpdateInputs
  BY <1>2 DEF UpdateInputs, stepperState
<1>3. CASE PlanDiscrete
  <2>1. /\ pc = "plan" /\ pc' = "inner" /\ t' = t /\ tEnd' = tEnd /\ tNext' = PlannedEnd
    BY <1>3 DEF PlanDiscrete, stepperState
  <2>2. DtNextGlobal \in Int
    BY PlannedEndBounds
  <2>3. PlannedEnd = tEnd \/ ~Negligible(tEnd - PlannedEnd)
    BY <1>0, <2>2, TimeAssumption DEF PlannedEnd, Negligible
  <2> QED BY <2>1, <2>3
<1>4. CASE PrepareDiscrete
  <2>1. /\ pc = "inner" /\ t' = t /\ tEnd' = tEnd /\ tNext' = tNext
        /\ pc' = "tail" \/ (pc' = "try" /\ ~Negligible(dt'))
        /\ dt' = RoundedDt(SnappedDt)
    BY <1>4 DEF PrepareDiscrete
  <2>2. t + dt' = tNext \/ ~Negligible(tNext - t - dt')
    BY <2>1, PreparedExactly, Zenon
  <2> QED BY <2>1, <2>2
<1>5. CASE LeaveDiscrete \/ PlanContinuous \/ PrepareContinuous \/ TryDiverges
           \/ EndIteration \/ Return
  BY <1>5 DEF LeaveDiscrete, PlanContinuous, PrepareContinuous, TryDiverges, EndIteration,
              Return
<1>6. ASSUME NEW suggestion \in Suggestions, TrySucceeds(suggestion)
      PROVE  Exact'
  <2>1. /\ pc = "try" /\ pc' = "inner" /\ t' = t + dt /\ tEnd' = tEnd /\ tNext' = tNext
    BY <1>6 DEF TrySucceeds
  <2>2. t + dt = tNext \/ StepperMin < tNext - t - dt
    BY <1>0, <2>1, TimeAssumption DEF Negligible
  <2>3. tNext <= tEnd
    BY <2>1 DEF TimesOrdered
  <2>4. t' = tNext \/ ~Negligible(tEnd - t')
    BY <1>0, <2>1, <2>2, <2>3, TimeAssumption DEF Negligible
  <2> QED BY <2>1, <2>4
<1>7. ASSUME NEW factor \in Shrink, TryFails(factor)
      PROVE  Exact'
  <2>1. /\ pc = "try" /\ pc' = "inner" /\ t' = t /\ tEnd' = tEnd /\ tNext' = tNext
    BY <1>7 DEF TryFails
  <2>2. StepperMin < dt /\ t + dt <= tNext /\ tNext <= tEnd
    BY <1>0, <2>1, TimeAssumption DEF TimesOrdered, Negligible
  <2>3. ~Negligible(tEnd - t)
    BY <1>0, <2>2, TimeAssumption DEF Negligible
  <2> QED BY <2>1, <2>3
<1>8. CASE UNCHANGED vars
  BY <1>8 DEF vars, stepperState, locals
<1> QED BY <1>1, <1>2, <1>3, <1>4, <1>5, <1>6, <1>7, <1>8 DEF Next, Run

LEMMA EndsStep ==
    ASSUME IsDiscrete, TypeOK, TimesOrdered, Exact, Ends, [Next]_vars
    PROVE  Ends'
<1> USE DEF Ends, Failing
<1>0. /\ t \in Int /\ tEnd \in Int /\ tNext \in Int
  BY DEF TypeOK
<1>1. ASSUME NEW size \in StepSizes, Step(size)
      PROVE  Ends'
  <2>1. /\ pc' = "head" /\ t' = t /\ tEnd' = t + StepSize(size)
    BY <1>1 DEF Step, stepperState
  <2>2. StepSize(size) \in Nat /\ StepperMin < StepSize(size)
    BY <1>1, StepIsNotNegligible, StepSizeIsNat DEF Step
  <2>3. ~Negligible(tEnd' - t')
    BY <1>0, <2>1, <2>2, TimeAssumption DEF Negligible
  <2> QED BY <2>1, <2>3
<1>2. ASSUME NEW size \in StepSizes, RejectStep(size)
      PROVE  Ends'
  BY <1>2 DEF RejectStep
<1>3. CASE \/ UpdateInputs \/ PlanDiscrete \/ PlanContinuous \/ PrepareContinuous \/ Return
           \/ \E suggestion \in Suggestions : TrySucceeds(suggestion)
           \/ \E factor \in Shrink : TryFails(factor)
  <2>1. pc' \in {"plan", "inner", "try", "ready"} \/ ~IsDiscrete
    BY <1>3 DEF UpdateInputs, PlanDiscrete, PlanContinuous, PrepareContinuous, Return,
                TrySucceeds, TryFails
  <2> QED BY <2>1
<1>4. CASE PrepareDiscrete
  <2>1. pc' = "try" \/ (pc' = "tail" /\ Failing')
    BY <1>4, Zenon DEF PrepareDiscrete
  <2> QED BY <2>1
<1>5. CASE LeaveDiscrete
  <2>1. /\ pc = "inner" /\ pc' = "tail" /\ t' = t /\ tEnd' = tEnd /\ Negligible(tNext - t)
    BY <1>5 DEF LeaveDiscrete, stepperState, locals
  <2>2. tEnd = tNext \/ ~Negligible(tEnd - tNext)
    BY <2>1 DEF Exact
  <2>3. t = tNext \/ ~Negligible(tEnd - t)
    BY <2>1 DEF Exact
  <2>4. t = tEnd \/ ~Negligible(tEnd - t)
    BY <2>2, <2>3
  <2> QED BY <2>1, <2>4
<1>6. CASE TryDiverges
  BY <1>6 DEF TryDiverges
<1>7. CASE EndIteration
  <2>1. /\ pc = "tail" /\ pc' = "head" /\ t' = t /\ tEnd' = tEnd
    BY <1>7 DEF EndIteration, stepperState
  <2>2. rc' = "SUCCESS" => ~Failing
    BY <1>7 DEF EndIteration
  <2> QED BY <2>1, <2>2
<1>8. CASE UNCHANGED vars
  BY <1>8 DEF vars, stepperState, locals
<1> HIDE DEF Ends, Failing
<1> QED BY <1>1, <1>2, <1>3, <1>4, <1>5, <1>6, <1>7, <1>8 DEF Next, Run

LEMMA AbortsStep ==
    ASSUME AbortsRemembered, [Next]_vars
    PROVE  AbortsRemembered'
<1> USE DEF AbortsRemembered
<1>1. ASSUME NEW size \in StepSizes, Step(size) \/ RejectStep(size)
      PROVE  AbortsRemembered'
  BY <1>1 DEF Step, RejectStep
<1>2. CASE UpdateInputs \/ PlanDiscrete \/ PrepareDiscrete \/ LeaveDiscrete
           \/ PlanContinuous \/ PrepareContinuous
  BY <1>2 DEF UpdateInputs, PlanDiscrete, PrepareDiscrete, LeaveDiscrete, PlanContinuous,
              PrepareContinuous
<1>3. CASE \/ \E suggestion \in Suggestions : TrySucceeds(suggestion)
           \/ \E factor \in Shrink : TryFails(factor)
           \/ TryDiverges
  BY <1>3 DEF TrySucceeds, TryFails, TryDiverges
<1>4. CASE EndIteration \/ Return
  BY <1>4 DEF EndIteration, Return
<1>5. CASE UNCHANGED vars
  BY <1>5 DEF vars
<1> QED BY <1>1, <1>2, <1>3, <1>4, <1>5 DEF Next, Run

\* What is not updated is still covered after any step but the head of an iteration.
LEMMA CoveredStays ==
    ASSUME IsDiscrete, TypeOK, TimesOrdered, Exact,
           NEW u \in Int, CoveredUpTo(u), [Next]_vars, ~UpdateInputs
    PROVE  /\ t' <= u + StepperMin
           /\ pc' # "ready" /\ Negligible(tEnd' - t') => tEnd' <= u + StepperMin
           /\ pc' # "plan" \/ (pc = "plan" /\ t' = t)
           /\ pc' \in {"inner", "try"} => tNext' <= u + StepperMin
<1> DEFINE Goal == /\ t' <= u + StepperMin
                   /\ pc' # "ready" /\ Negligible(tEnd' - t') => tEnd' <= u + StepperMin
                   /\ pc' # "plan" \/ (pc = "plan" /\ t' = t)
                   /\ pc' \in {"inner", "try"} => tNext' <= u + StepperMin
<1> USE DEF CoveredUpTo
<1>0. /\ t \in Int /\ tEnd \in Int /\ tNext \in Int /\ dt \in Int
  BY DEF TypeOK
<1>1. ASSUME NEW size \in StepSizes, Step(size)
      PROVE  Goal
  <2>1. /\ pc' = "head" /\ t' = t /\ tEnd' = t + StepSize(size)
    BY <1>1 DEF Step, stepperState
  <2>2. StepSize(size) \in Nat /\ StepperMin < StepSize(size)
    BY <1>1, StepIsNotNegligible, StepSizeIsNat DEF Step
  <2>3. ~Negligible(tEnd' - t')
    BY <1>0, <2>1, <2>2, TimeAssumption DEF Negligible
  <2> QED BY <2>1, <2>3
<1>2. ASSUME NEW size \in StepSizes, RejectStep(size)
      PROVE  Goal
  BY <1>2 DEF RejectStep, stepperState, locals
<1>3. CASE PlanDiscrete
  <2>1. /\ pc = "plan" /\ pc' = "inner" /\ t' = t /\ tEnd' = tEnd /\ tNext' = PlannedEnd
    BY <1>3 DEF PlanDiscrete, stepperState
  <2>2. PlannedEnd \in Int /\ PlannedEnd <= NextUpdate(t, StepperUpdatePeriod) + StepperMin
    BY PlannedBeforeUpdate, PlannedEndBounds
  <2>3. NextUpdate(t, StepperUpdatePeriod) \in Int /\ NextUpdate(t, StepperUpdatePeriod) <= u
    BY <1>0, <2>1, NextUpdateBounds, StepperPeriodIsNat
  <2>4. tNext' <= u + StepperMin
    BY <2>1, <2>2, <2>3, TimeAssumption
  <2> QED BY <2>1, <2>4
<1>4. CASE PrepareDiscrete
  BY <1>4 DEF PrepareDiscrete
<1>5. CASE LeaveDiscrete \/ EndIteration
  BY <1>5 DEF LeaveDiscrete, EndIteration, stepperState, locals
<1>6. CASE PlanContinuous \/ PrepareContinuous
  BY <1>6 DEF PlanContinuous, PrepareContinuous
<1>7. ASSUME NEW suggestion \in Suggestions, TrySucceeds(suggestion)
      PROVE  Goal
  <2>1. /\ pc = "try" /\ pc' = "inner" /\ t' = t + dt /\ tEnd' = tEnd /\ tNext' = tNext
    BY <1>7 DEF TrySucceeds
  <2>2. t + dt <= tNext /\ tNext <= tEnd /\ tNext <= u + StepperMin
    BY <2>1 DEF TimesOrdered
  <2>3. t + dt = tNext \/ StepperMin < tNext - t - dt
    BY <1>0, <2>1, TimeAssumption DEF Exact, Negligible
  <2>4. tEnd = tNext \/ StepperMin < tEnd - tNext
    BY <1>0, <2>1, TimeAssumption DEF Exact, Negligible
  <2>5. t' <= u + StepperMin
    BY <1>0, <2>1, <2>2, TimeAssumption
  <2>6. Negligible(tEnd' - t') => tEnd' <= u + StepperMin
    BY <1>0, <2>1, <2>2, <2>3, <2>4, TimeAssumption DEF Negligible
  <2> QED BY <2>1, <2>2, <2>5, <2>6
<1>8. ASSUME NEW factor \in Shrink, TryFails(factor)
      PROVE  Goal
  BY <1>8 DEF TryFails
<1>9. CASE TryDiverges
  BY <1>9 DEF TryDiverges
<1>10. CASE Return
  BY <1>10 DEF Return, TReturned, locals
<1>11. CASE UNCHANGED vars
  BY <1>11 DEF vars, stepperState, locals
<1> QED BY <1>1, <1>2, <1>3, <1>4, <1>5, <1>6, <1>7, <1>8, <1>9, <1>10, <1>11 DEF Next, Run

\* When what is due is updated, the first update of any period comes no later than the next
\* one of this period.
LEMMA UpdatedIfDue ==
    ASSUME IsDiscrete, NEW now \in Int, NEW p \in UpdatePeriods, NEW last \in Int,
           now <= NextUpdate(last, p) + StepperMin,
           NEW new, new = IF IsDue(now, p) THEN now ELSE last
    PROVE  /\ NextUpdate(now, StepperUpdatePeriod) <= NextUpdate(new, p)
           /\ now + SimMin <= NextUpdate(new, p)
<1> DEFINE P == StepperUpdatePeriod
<1>1. p \in Nat \ {0} /\ P \in Nat \ {0} /\ p % P = 0
  BY PeriodsAreMultiples
<1> HIDE DEF P
<1>2. /\ NextUpdate(now, P) \in Int /\ now + SimMin <= NextUpdate(now, P)
      /\ NextUpdate(now, p) \in Int /\ NextUpdate(last, p) \in Int
  BY <1>1, NextUpdateBounds
<1>3. NextUpdate(now, P) <= NextUpdate(now, p)
  BY <1>1, DivisorUpdatesFirst
<1>4. NextUpdate(now, p) <= NextUpdate(new, p) /\ NextUpdate(new, p) \in Int
  <2>1. CASE IsDue(now, p)
    BY <1>2, <2>1
  <2>2. CASE ~IsDue(now, p)
    BY <1>1, <1>2, <2>2, NotDueNotMissed
  <2> QED BY <2>1, <2>2
<1>5. /\ NextUpdate(now, P) <= NextUpdate(new, p)
      /\ now + SimMin <= NextUpdate(new, p)
  <2> HIDE DEF NextUpdate
  <2> QED BY <1>2, <1>3, <1>4, TimeAssumption
<1> QED BY <1>5 DEF P

\* The head of an iteration covers what it updates.
LEMMA CoveredAtHead ==
    ASSUME IsDiscrete, TypeOK, UpdateInputs, NEW p \in UpdatePeriods, NEW last \in Int,
           t <= NextUpdate(last, p) + StepperMin,
           NEW new, new = IF IsDue(t, p) THEN t ELSE last
    PROVE  /\ t' <= NextUpdate(new, p) + StepperMin
           /\ pc' # "ready" /\ Negligible(tEnd' - t') => tEnd' <= NextUpdate(new, p) + StepperMin
           /\ pc' = "plan" => NextUpdate(t', StepperUpdatePeriod) <= NextUpdate(new, p)
           /\ pc' \in {"inner", "try"} => tNext' <= NextUpdate(new, p) + StepperMin
<1>1. /\ pc' = "plan" /\ t' = t /\ tEnd' = tEnd /\ ~Negligible(tEnd - t)
  BY DEF UpdateInputs, stepperState
<1>2. t \in Int /\ p \in Nat \ {0} /\ new \in Int
  BY PeriodsAreMultiples DEF TypeOK
<1>3. /\ NextUpdate(t, StepperUpdatePeriod) <= NextUpdate(new, p)
      /\ t + SimMin <= NextUpdate(new, p)
  BY <1>2, UpdatedIfDue
<1>4. NextUpdate(new, p) \in Int
  BY <1>2, NextUpdateBounds
<1>5. t' <= NextUpdate(new, p) + StepperMin
  <2> HIDE DEF NextUpdate
  <2> QED BY <1>1, <1>2, <1>3, <1>4, TimeAssumption
<1> QED BY <1>1, <1>3, <1>5

\* One step keeps an update of period p covered, if it makes it when it is due.
LEMMA CoveredStep ==
    ASSUME IsDiscrete, TypeOK, TimesOrdered, Exact, [Next]_vars,
           NEW p \in UpdatePeriods, NEW last \in Int, CoveredUpTo(NextUpdate(last, p)),
           NEW new, new = IF UpdateInputs /\ IsDue(t, p) THEN t ELSE last
    PROVE  /\ t' <= NextUpdate(new, p) + StepperMin
           /\ pc' # "ready" /\ Negligible(tEnd' - t') => tEnd' <= NextUpdate(new, p) + StepperMin
           /\ pc' = "plan" => NextUpdate(t', StepperUpdatePeriod) <= NextUpdate(new, p)
           /\ pc' \in {"inner", "try"} => tNext' <= NextUpdate(new, p) + StepperMin
<1>1. CASE UpdateInputs
  <2>1. t <= NextUpdate(last, p) + StepperMin
    BY DEF CoveredUpTo
  <2>2. new = IF IsDue(t, p) THEN t ELSE last
    BY <1>1
  <2> QED BY <1>1, <2>1, <2>2, CoveredAtHead
<1>2. CASE ~UpdateInputs
  <2>1. new = last
    BY <1>2
  <2>2. p \in Nat \ {0}
    BY PeriodsAreMultiples
  <2>3. NextUpdate(last, p) \in Int
    BY <2>2, NextUpdateBounds
  <2>4. PICK u \in Int : u = NextUpdate(last, p)
    BY <2>3
  <2>5. CoveredUpTo(u)
    BY <2>4
  <2>6. /\ t' <= u + StepperMin
        /\ pc' # "ready" /\ Negligible(tEnd' - t') => tEnd' <= u + StepperMin
        /\ pc' # "plan" \/ (pc = "plan" /\ t' = t)
        /\ pc' \in {"inner", "try"} => tNext' <= u + StepperMin
    BY <1>2, <2>5, CoveredStays
  <2>7. pc' = "plan" => NextUpdate(t', StepperUpdatePeriod) <= u
    BY <2>5, <2>6, Zenon DEF CoveredUpTo
  <2> QED BY <2>1, <2>4, <2>6, <2>7, Zenon
<1> QED BY <1>1, <1>2

\* The command, the samples and the log change at the head of an iteration only.
LEMMA UpdatesAtHead ==
    ASSUME IsDiscrete, TypeOK, [Next]_vars
    PROVE  /\ command' = IF UpdateInputs /\ IsCommandDue THEN t ELSE command
           /\ \A f \in Profiles :
                 sample'[f] = IF UpdateInputs /\ f \in DueProfiles THEN t ELSE sample[f]
           /\ ~LogInternalSteps =>
                 logTime' = IF UpdateInputs /\ IsDue(t, StepperUpdatePeriod) THEN t ELSE logTime
<1>1. CASE UpdateInputs
  BY <1>1 DEF UpdateInputs, IsLogDue
<1>2. CASE ~UpdateInputs
  <2> SUFFICES /\ command' = command /\ sample' = sample
               /\ ~LogInternalSteps => logTime' = logTime
    BY <1>2
  <2>1. CASE \E size \in StepSizes : Step(size) \/ RejectStep(size)
    BY <2>1 DEF Step, RejectStep, inputs
  <2>2. CASE PrepareDiscrete
    BY <2>2, FlagAssumption DEF PrepareDiscrete, inputs
  <2>3. CASE PlanDiscrete \/ LeaveDiscrete \/ EndIteration \/ Return
    BY <2>3 DEF PlanDiscrete, LeaveDiscrete, EndIteration, Return, inputs
  <2>4. CASE PlanContinuous \/ PrepareContinuous
    BY <2>4 DEF PlanContinuous, PrepareContinuous
  <2>5. CASE \/ \E suggestion \in Suggestions : TrySucceeds(suggestion)
             \/ \E factor \in Shrink : TryFails(factor)
             \/ TryDiverges
    BY <2>5 DEF TrySucceeds, TryFails, TryDiverges, inputs
  <2>6. CASE UNCHANGED vars
    BY <2>6 DEF vars, inputs
  <2> QED BY <1>2, <2>1, <2>2, <2>3, <2>4, <2>5, <2>6 DEF Next, Run
<1> QED BY <1>1, <1>2

LEMMA CommandStep ==
    ASSUME UpdatesInv, [Next]_vars, IsDiscrete, ControllerPeriod > 0
    PROVE  CoveredUpTo(NextUpdate(command, ControllerPeriod))'
<1>1. ControllerPeriod \in UpdatePeriods
  BY DEF UpdatePeriods
<1>2. command \in Int /\ CoveredUpTo(NextUpdate(command, ControllerPeriod))
  BY DEF UpdatesInv, TypeOK
<1>3. command' = IF UpdateInputs /\ IsDue(t, ControllerPeriod) THEN t ELSE command
  BY UpdatesAtHead DEF UpdatesInv, IsCommandDue
<1>4. TypeOK /\ TimesOrdered /\ Exact
  BY DEF UpdatesInv
<1> QED BY <1>1, <1>2, <1>3, <1>4, CoveredStep DEF CoveredUpTo

LEMMA SampleStep ==
    ASSUME UpdatesInv, [Next]_vars, IsDiscrete, NEW f \in Profiles, ProfilePeriod[f] > 0
    PROVE  CoveredUpTo(NextUpdate(sample[f], ProfilePeriod[f]))'
<1>1. ProfilePeriod[f] \in UpdatePeriods
  BY DEF UpdatePeriods
<1>2. sample[f] \in Int /\ CoveredUpTo(NextUpdate(sample[f], ProfilePeriod[f]))
  BY DEF UpdatesInv, TypeOK
<1>3. sample'[f] = IF UpdateInputs /\ IsDue(t, ProfilePeriod[f]) THEN t ELSE sample[f]
  BY UpdatesAtHead DEF UpdatesInv, DueProfiles
<1>4. TypeOK /\ TimesOrdered /\ Exact
  BY DEF UpdatesInv
<1> QED BY <1>1, <1>2, <1>3, <1>4, CoveredStep DEF CoveredUpTo

LEMMA LogStep ==
    ASSUME UpdatesInv, [Next]_vars, IsDiscrete, ~LogInternalSteps
    PROVE  CoveredUpTo(NextUpdate(logTime, StepperUpdatePeriod))'
<1>1. StepperUpdatePeriod \in UpdatePeriods
  BY PeriodsAreMultiples
<1>2. logTime \in Int /\ CoveredUpTo(NextUpdate(logTime, StepperUpdatePeriod))
  BY DEF UpdatesInv, TypeOK
<1>3. logTime' = IF UpdateInputs /\ IsDue(t, StepperUpdatePeriod) THEN t ELSE logTime
  BY UpdatesAtHead DEF UpdatesInv
<1>4. TypeOK /\ TimesOrdered /\ Exact
  BY DEF UpdatesInv
<1> QED BY <1>1, <1>2, <1>3, <1>4, CoveredStep DEF CoveredUpTo

LEMMA SensorsStep ==
    ASSUME IsDiscrete, TypeOK, TimesOrdered, Ends, AbortsRemembered, SensorsAhead, [Next]_vars
    PROVE  SensorsAhead'
<1> SUFFICES ASSUME SensorsPeriod > 0, ~hasAborted', rc' # "ABORTED"
             PROVE  LET update == NextUpdate(sensors', SensorsPeriod) IN
                       /\ t' <= update + StepperMin
                       /\ pc' \in {"plan", "head", "ready"} =>
                             NextUpdate(t', StepperUpdatePeriod) <= update
                       /\ pc' \in {"inner", "try"} => tNext' <= update + StepperMin
  BY DEF SensorsAhead
<1> DEFINE u == NextUpdate(sensors, SensorsPeriod)
           Goal == /\ t' <= NextUpdate(sensors', SensorsPeriod) + StepperMin
                   /\ pc' \in {"plan", "head", "ready"} =>
                        NextUpdate(t', StepperUpdatePeriod) <= NextUpdate(sensors', SensorsPeriod)
                   /\ pc' \in {"inner", "try"} =>
                        tNext' <= NextUpdate(sensors', SensorsPeriod) + StepperMin
           Ahead == /\ t <= u + StepperMin
                    /\ pc \in {"plan", "head", "ready"} => NextUpdate(t, StepperUpdatePeriod) <= u
                    /\ pc \in {"inner", "try"} => tNext <= u + StepperMin
<1> SUFFICES Goal
  OBVIOUS
<1>a. SensorsPeriod \in UpdatePeriods /\ SensorsPeriod \in Nat \ {0}
  BY PeriodAssumption DEF UpdatePeriods
<1>b. /\ t \in Int /\ tEnd \in Int /\ tNext \in Int /\ dt \in Int /\ sensors \in Int
  BY DEF TypeOK
<1>c. u \in Int
  BY <1>a, <1>b, NextUpdateBounds
<1>d. ~hasAborted /\ rc # "ABORTED" => Ahead
  BY Zenon DEF SensorsAhead
<1>e. sensors' = sensors => NextUpdate(sensors', SensorsPeriod) = u
  OBVIOUS
<1> HIDE DEF u, Ahead
<1>1. ASSUME NEW size \in StepSizes, Step(size)
      PROVE  Goal
  <2>1. /\ pc = "ready" /\ pc' = "head" /\ t' = t /\ sensors' = sensors
        /\ hasAborted' = hasAborted
    BY <1>1 DEF Step, stepperState
  <2>2. Ahead
    BY <2>1, <1>d DEF AbortsRemembered
  <2> QED BY <2>1, <2>2, <1>e DEF Ahead
<1>2. ASSUME NEW size \in StepSizes, RejectStep(size)
      PROVE  Goal
  <2>1. /\ pc = "ready" /\ pc' = "ready" /\ t' = t /\ sensors' = sensors
        /\ hasAborted' = hasAborted
    BY <1>2 DEF RejectStep, stepperState
  <2>2. Ahead
    BY <2>1, <1>d DEF AbortsRemembered
  <2> QED BY <2>1, <2>2, <1>e DEF Ahead
<1>3. CASE UpdateInputs
  <2>1. /\ pc = "head" /\ pc' = "plan" /\ t' = t /\ sensors' = sensors
        /\ hasAborted' = hasAborted /\ rc' = rc
    BY <1>3 DEF UpdateInputs, stepperState
  <2>2. Ahead
    BY <2>1, <1>d
  <2> QED BY <2>1, <2>2, <1>e DEF Ahead
<1>4. CASE PlanDiscrete
  <2>1. /\ pc = "plan" /\ pc' = "inner" /\ t' = t /\ sensors' = sensors
        /\ hasAborted' = hasAborted /\ rc' = rc /\ tNext' = PlannedEnd
    BY <1>4 DEF PlanDiscrete, stepperState
  <2>2. Ahead
    BY <2>1, <1>d
  <2>3. PlannedEnd \in Int /\ PlannedEnd <= NextUpdate(t, StepperUpdatePeriod) + StepperMin
    BY PlannedBeforeUpdate, PlannedEndBounds
  <2>4. NextUpdate(t, StepperUpdatePeriod) \in Int /\ NextUpdate(t, StepperUpdatePeriod) <= u
    BY <1>b, <2>1, <2>2, NextUpdateBounds, StepperPeriodIsNat DEF Ahead
  <2>5. tNext' <= u + StepperMin
    BY <1>c, <2>1, <2>3, <2>4, TimeAssumption
  <2> QED BY <2>1, <2>2, <2>5, <1>e DEF Ahead
<1>5. CASE PrepareDiscrete
  <2>1. /\ pc = "inner" /\ pc' \in {"tail", "try"} /\ t' = t /\ sensors' = sensors
        /\ hasAborted' = hasAborted /\ rc' = rc /\ tNext' = tNext
    BY <1>5 DEF PrepareDiscrete
  <2>2. Ahead
    BY <2>1, <1>d
  <2> QED BY <2>1, <2>2, <1>e DEF Ahead
<1>6. CASE LeaveDiscrete \/ TryDiverges
  <2>1. /\ pc' = "tail" /\ t' = t /\ sensors' = sensors
        /\ hasAborted' = hasAborted /\ rc' = rc
    BY <1>6 DEF LeaveDiscrete, TryDiverges, TrySensors, stepperState
  <2>2. Ahead
    BY <2>1, <1>d
  <2> QED BY <2>1, <2>2, <1>e DEF Ahead
<1>7. CASE PlanContinuous \/ PrepareContinuous
  BY <1>7 DEF PlanContinuous, PrepareContinuous
<1>8. ASSUME NEW suggestion \in Suggestions, TrySucceeds(suggestion)
      PROVE  Goal
  <2>1. /\ pc = "try" /\ pc' = "inner" /\ t' = t + dt /\ sensors' = sensors
        /\ hasAborted' = hasAborted /\ rc' = rc /\ tNext' = tNext
    BY <1>8 DEF TrySucceeds, TrySensors
  <2>2. Ahead
    BY <2>1, <1>d
  <2>3. t + dt <= tNext /\ tNext <= u + StepperMin
    BY <2>1, <2>2 DEF TimesOrdered, Ahead
  <2>4. t' <= u + StepperMin
    BY <1>b, <1>c, <2>1, <2>3, TimeAssumption
  <2> QED BY <2>1, <2>3, <2>4, <1>e
<1>9. ASSUME NEW factor \in Shrink, TryFails(factor)
      PROVE  Goal
  <2>1. /\ pc = "try" /\ pc' = "inner" /\ t' = t /\ sensors' = sensors
        /\ hasAborted' = hasAborted /\ rc' = rc /\ tNext' = tNext
    BY <1>9 DEF TryFails, TrySensors
  <2>2. Ahead
    BY <2>1, <1>d
  <2> QED BY <2>1, <2>2, <1>e DEF Ahead
<1>10. CASE EndIteration
  <2>1. /\ pc = "tail" /\ pc' = "head" /\ t' = t /\ hasAborted' = hasAborted
        /\ rc' # "ABORTED" => /\ rc' = rc
                              /\ sensors' = IF IsDue(t, SensorsPeriod) THEN t ELSE sensors
    BY <1>10 DEF EndIteration, stepperState
  <2>2. t <= u + StepperMin
    BY <2>1, <1>d DEF Ahead
  <2>3. PICK new : new = IF IsDue(t, SensorsPeriod) THEN t ELSE sensors
    OBVIOUS
  <2>4. /\ NextUpdate(t, StepperUpdatePeriod) <= NextUpdate(new, SensorsPeriod)
        /\ t + SimMin <= NextUpdate(new, SensorsPeriod)
    BY <1>a, <1>b, <2>2, <2>3, UpdatedIfDue DEF u
  <2>5. new \in Int /\ NextUpdate(new, SensorsPeriod) \in Int
    BY <1>a, <1>b, <2>3, NextUpdateBounds
  <2>6. t <= NextUpdate(new, SensorsPeriod) + StepperMin
    <3> HIDE DEF NextUpdate
    <3> QED BY <1>b, <2>4, <2>5, TimeAssumption
  <2>7. sensors' = new
    BY <2>1, <2>3
  <2> QED BY <2>1, <2>4, <2>6, <2>7
<1>11. CASE Return
  <2>1. /\ pc = "head" /\ pc' = "ready" /\ sensors' = sensors /\ rc' = rc /\ t' = TReturned
        /\ rc # "SUCCESS" \/ Negligible(tEnd - t)
    BY <1>11 DEF Return
  <2>2. t' = t
    BY <2>1 DEF TReturned, Ends
  <2>3. Ahead
    BY <1>11, <2>1, <1>d DEF Return
  <2> QED BY <2>1, <2>2, <2>3, <1>e DEF Ahead
<1>12. CASE UNCHANGED vars
  <2>1. /\ pc' = pc /\ t' = t /\ sensors' = sensors
        /\ hasAborted' = hasAborted /\ rc' = rc /\ tNext' = tNext
    BY <1>12 DEF vars, stepperState, locals
  <2>2. Ahead
    BY <2>1, <1>d
  <2> QED BY <2>1, <2>2, <1>e DEF Ahead
<1> HIDE DEF Goal
<1> QED BY <1>1, <1>2, <1>3, <1>4, <1>5, <1>6, <1>7, <1>8, <1>9, <1>10, <1>11, <1>12
        DEF Next, Run

LEMMA UpdatesInit ==
    ASSUME IsDiscrete, Init
    PROVE  UpdatesInv
<1>1. TypeOK /\ TimesOrdered /\ Exact /\ Ends /\ AbortsRemembered
  <2>1. TypeOK
    BY TypeInit
  <2> QED BY <2>1 DEF Init, TimesOrdered, Exact, Ends, AbortsRemembered
<1>2. pc = "ready" /\ t = 0 /\ command = 0 /\ sensors = 0 /\ logTime = -1
  BY DEF Init
<1>3. \A f \in Profiles : sample[f] = -1
  BY DEF Init
<1>4. ASSUME NEW p \in UpdatePeriods, NEW last \in {0, -1}
      PROVE  CoveredUpTo(NextUpdate(last, p))
  <2>1. p \in Nat \ {0} /\ last \in Int
    BY PeriodsAreMultiples
  <2>2. NextUpdate(last, p) \in Int /\ last + SimMin <= NextUpdate(last, p)
    BY <2>1, NextUpdateBounds
  <2>3. 0 <= NextUpdate(last, p) + StepperMin
    <3> HIDE DEF NextUpdate
    <3> QED BY <1>4, <2>2, TimeAssumption
  <2> QED BY <1>2, <2>3 DEF CoveredUpTo
<1>5. SensorsAhead
  <2> SUFFICES ASSUME SensorsPeriod > 0
               PROVE  /\ t <= NextUpdate(sensors, SensorsPeriod) + StepperMin
                      /\ NextUpdate(t, StepperUpdatePeriod) <= NextUpdate(sensors, SensorsPeriod)
    BY <1>2 DEF SensorsAhead
  <2>1. SensorsPeriod \in UpdatePeriods
    BY DEF UpdatePeriods
  <2>2. CoveredUpTo(NextUpdate(0, SensorsPeriod))
    BY <1>4, <2>1
  <2>3. NextUpdate(0, StepperUpdatePeriod) <= NextUpdate(0, SensorsPeriod)
    BY <2>1, PeriodsAreMultiples, DivisorUpdatesFirst
  <2> QED BY <1>2, <2>2, <2>3 DEF CoveredUpTo
<1>6. ControllerPeriod > 0 => CoveredUpTo(NextUpdate(command, ControllerPeriod))
  BY <1>2, <1>4 DEF UpdatePeriods
<1>7. ASSUME NEW f \in Profiles, ProfilePeriod[f] > 0
      PROVE  CoveredUpTo(NextUpdate(sample[f], ProfilePeriod[f]))
  <2>1. ProfilePeriod[f] \in UpdatePeriods
    BY <1>7 DEF UpdatePeriods
  <2> QED BY <1>3, <1>4, <2>1
<1>8. CoveredUpTo(NextUpdate(logTime, StepperUpdatePeriod))
  BY <1>2, <1>4, PeriodsAreMultiples
<1> QED BY <1>1, <1>5, <1>6, <1>7, <1>8 DEF UpdatesInv

LEMMA UpdatesStep ==
    ASSUME IsDiscrete, UpdatesInv, [Next]_vars
    PROVE  UpdatesInv'
<1>1. TypeOK /\ TimesOrdered /\ Exact /\ Ends /\ AbortsRemembered /\ SensorsAhead
  BY DEF UpdatesInv
<1>2. TypeOK' /\ TimesOrdered'
  BY <1>1, TypeStep, TimesStep
<1>3. Exact' /\ Ends' /\ AbortsRemembered'
  BY <1>1, ExactStep, EndsStep, AbortsStep
<1>4. SensorsAhead'
  BY <1>1, SensorsStep
<1>5. ControllerPeriod > 0 => CoveredUpTo(NextUpdate(command, ControllerPeriod))'
  BY CommandStep
<1>6. \A f \in Profiles :
         ProfilePeriod[f] > 0 => CoveredUpTo(NextUpdate(sample[f], ProfilePeriod[f]))'
  BY SampleStep
<1>7. ~LogInternalSteps => CoveredUpTo(NextUpdate(logTime, StepperUpdatePeriod))'
  BY LogStep
<1> QED BY <1>2, <1>3, <1>4, <1>5, <1>6, <1>7 DEF UpdatesInv

LEMMA HeldIfCovered ==
    ASSUME UpdatesInv, pc = "try", NEW u \in Int, tNext <= u + StepperMin
    PROVE  t < u /\ Negligible(t + dt - u)
<1>1. t \in Int /\ dt \in Int /\ tNext \in Int
  BY DEF UpdatesInv, TypeOK
<1>2. t + dt <= tNext /\ ~Negligible(dt)
  BY DEF UpdatesInv, TimesOrdered, Exact
<1> QED BY <1>1, <1>2, TimeAssumption DEF Negligible

LEMMA UpdatesInvSuffices ==
    ASSUME IsDiscrete, UpdatesInv
    PROVE  UpdatesHeldOnePeriod
<1> SUFFICES ASSUME pc = "try"
             PROVE  UpdatesHeldOnePeriod
  BY DEF UpdatesHeldOnePeriod, CommandHeldOnePeriod, SensorsHeldOnePeriod,
         ProfilesHeldOnePeriod, LogHeldOnePeriod
<1>1. command \in Int /\ sensors \in Int /\ logTime \in Int /\ sample \in [Profiles -> Int]
  BY DEF UpdatesInv, TypeOK
<1>2. ASSUME NEW last \in Int, NEW p \in Nat \ {0}, tNext <= NextUpdate(last, p) + StepperMin
      PROVE  IsHeld(last, p)
  <2>1. NextUpdate(last, p) \in Int
    BY NextUpdateBounds
  <2> QED BY <1>2, <2>1, HeldIfCovered DEF IsHeld
<1>3. ControllerPeriod > 0 => IsHeld(command, ControllerPeriod)
  BY <1>1, <1>2, PeriodAssumption DEF UpdatesInv, CoveredUpTo
<1>4. SensorsPeriod > 0 /\ ~hasAborted => IsHeld(sensors, SensorsPeriod)
  BY <1>1, <1>2, PeriodAssumption DEF UpdatesInv, SensorsAhead, AbortsRemembered
<1>5. \A f \in Profiles : ProfilePeriod[f] > 0 => IsHeld(sample[f], ProfilePeriod[f])
  BY <1>1, <1>2, PeriodAssumption DEF UpdatesInv, CoveredUpTo
<1>6. ~LogInternalSteps => IsHeld(logTime, StepperUpdatePeriod)
  BY <1>1, <1>2, StepperPeriodIsNat DEF UpdatesInv, CoveredUpTo
<1> QED BY <1>3, <1>4, <1>5, <1>6
        DEF UpdatesHeldOnePeriod, CommandHeldOnePeriod, SensorsHeldOnePeriod,
            ProfilesHeldOnePeriod, LogHeldOnePeriod

\* Whatever the impulse forces, the periods, the sizes of the steps asked for and what the
\* ODE stepper answers, the loop integrates over no update of the command, of a force
\* profile, of the sensors or of the log: none is skipped, none is applied too late.  The
\* sensors may be, after a call that was aborted.
THEOREM UpdatesHeld == Spec => []UpdatesHeldOnePeriod
<1>1. CASE IsDiscrete
  <2>1. Init => UpdatesInv
    BY <1>1, UpdatesInit
  <2>2. UpdatesInv /\ [Next]_vars => UpdatesInv'
    BY <1>1, UpdatesStep
  <2>3. UpdatesInv => UpdatesHeldOnePeriod
    BY <1>1, UpdatesInvSuffices
  <2> QED BY <2>1, <2>2, <2>3, PTL DEF Spec
<1>2. CASE ~IsDiscrete
  <2>1. /\ ~(ControllerPeriod > 0) /\ ~(SensorsPeriod > 0)
        /\ \A f \in Profiles : ~(ProfilePeriod[f] > 0)
    BY <1>2 DEF IsDiscrete, UpdatePeriods
  <2>2. UpdatesHeldOnePeriod
    BY <1>2, <2>1 DEF UpdatesHeldOnePeriod, CommandHeldOnePeriod, SensorsHeldOnePeriod,
                      ProfilesHeldOnePeriod, LogHeldOnePeriod
  <2> QED BY <2>2, PTL
<1> QED BY <1>1, <1>2

-----------------------------------------------------------------------------
(* What a successful call leaves *)

\* The time never runs past the end of the call.
BeforeEnd ==
    /\ pc # "ready" => t <= tEnd
    /\ pc \in {"inner", "try"} /\ ~IsDiscrete => dt <= tEnd - t

\* A call that ends has just integrated up to its end, and then refreshed the sensors.
JustIntegrated ==
    /\ pc = "plan" => ~Negligible(tEnd - t)
    /\ pc = "inner" /\ IsDiscrete => t = tPrev \/ ~Negligible(tEnd - t)
    /\ pc = "tail" => Failing \/ ~Negligible(tEnd - t) \/ tPrev = t
    /\ pc = "head" /\ rc = "SUCCESS" /\ Negligible(tEnd - t) =>
          tPrev = t /\ (SensorsPeriod = 0 => sensors = t)
    /\ pc = "ready" /\ rc = "SUCCESS" /\ tEnd > 0 =>
          /\ t = tEnd /\ Negligible(t - tPrev)
          /\ SensorsPeriod = 0 => Negligible(t - sensors) /\ sensors <= t

ReturnInv == TypeOK /\ BeforeEnd /\ JustIntegrated /\ (IsDiscrete => UpdatesInv)

\* Dividing a duration never makes it longer than what is left.
LEMMA QuotientBound ==
    ASSUME NEW x \in Int, NEW d \in Nat \ {0}, NEW left \in Nat, x <= left
    PROVE  x \div d <= left
<1>1. x \div d \in Int /\ x % d \in 0 .. (d - 1) /\ x = d * (x \div d) + (x % d)
  BY Division
<1>2. ASSUME NEW k \in Int, NEW r \in Nat, x = d * k + r, left < k
      PROVE  FALSE
  <2>1. k \in Nat \ {0}
    BY <1>2
  <2>2. k <= d * k
    BY <2>1, Z3
  <2>3. d * k \in Int
    OBVIOUS
  <2> QED BY <1>2, <2>2, <2>3
<1> QED BY <1>1, <1>2

LEMMA BeforeEndStep ==
    ASSUME TypeOK, BeforeEnd, IsDiscrete => TimesOrdered, [Next]_vars
    PROVE  BeforeEnd'
<1>a. CASE IsDiscrete
  <2>1. TimesOrdered'
    BY <1>a, TimesStep
  <2> QED BY <1>a, <2>1 DEF BeforeEnd, TimesOrdered
<1>b. CASE ~IsDiscrete
  <2> USE <1>b DEF BeforeEnd
  <2>0. /\ t \in Int /\ tEnd \in Int /\ dt \in Int /\ dtLargest \in Int
    BY DEF TypeOK
  <2>1. ASSUME NEW size \in StepSizes, Step(size)
        PROVE  BeforeEnd'
    <3>1. /\ pc' = "head" /\ t' = t /\ tEnd' = t + StepSize(size)
      BY <2>1 DEF Step, stepperState
    <3>2. StepSize(size) \in Nat
      BY StepSizeIsNat
    <3> QED BY <2>0, <3>1, <3>2
  <2>2. ASSUME NEW size \in StepSizes, RejectStep(size)
        PROVE  BeforeEnd'
    BY <2>2 DEF RejectStep
  <2>3. CASE UpdateInputs \/ PrepareContinuous \/ EndIteration \/ Return \/ TryDiverges
    BY <2>3 DEF UpdateInputs, PrepareContinuous, EndIteration, Return, TryDiverges, stepperState,
                locals
  <2>4. CASE PlanDiscrete \/ PrepareDiscrete \/ LeaveDiscrete
    BY <2>4 DEF PlanDiscrete, PrepareDiscrete, LeaveDiscrete
  <2>5. CASE PlanContinuous
    <3>1. /\ pc = "plan" /\ t' = t /\ tEnd' = tEnd /\ dt' = ContinuousDt
      BY <2>5 DEF PlanContinuous
    <3>2. ContinuousDt <= tEnd - t
      BY <2>0, NextBreakIsLeast DEF ContinuousDt, Min2
    <3> QED BY <3>1, <3>2
  <2>6. ASSUME NEW suggestion \in Suggestions, TrySucceeds(suggestion)
        PROVE  BeforeEnd'
    BY <2>0, <2>6 DEF TrySucceeds
  <2>7. ASSUME NEW factor \in Shrink, TryFails(factor)
        PROVE  BeforeEnd'
    <3>1. /\ pc = "try" /\ t' = t /\ tEnd' = tEnd /\ dt' = NextDt(dt \div factor)
      BY <2>7 DEF TryFails
    <3>2. factor \in Nat \ {0}
      BY TimeAssumption
    <3>3. tEnd - t \in Nat /\ dt <= tEnd - t
      BY <2>0, <3>1
    <3>4. dt \div factor \in Int /\ dt \div factor <= tEnd - t
      BY <2>0, <3>2, <3>3, QuotientBound
    <3>5. NextDt(dt \div factor) <= tEnd - t
      BY <2>0, <3>4, TimeAssumption DEF NextDt, Min2
    <3> QED BY <3>1, <3>5
  <2>8. CASE UNCHANGED vars
    BY <2>8 DEF vars, stepperState, locals
  <2> QED BY <2>1, <2>2, <2>3, <2>4, <2>5, <2>6, <2>7, <2>8 DEF Next, Run
<1> QED BY <1>a, <1>b

LEMMA JustIntegratedStep ==
    ASSUME ReturnInv, [Next]_vars
    PROVE  JustIntegrated'
<1> USE DEF JustIntegrated
<1>0. /\ t \in Int /\ tEnd \in Int /\ dt \in Int /\ tPrev \in Int /\ sensors \in Int
      /\ tNext \in Int /\ JustIntegrated
  BY DEF ReturnInv, TypeOK
<1>1. ASSUME NEW size \in StepSizes, Step(size)
      PROVE  JustIntegrated'
  <2>1. /\ pc' = "head" /\ t' = t /\ tEnd' = t + StepSize(size)
    BY <1>1 DEF Step, stepperState
  <2>2. StepSize(size) \in Nat /\ StepperMin < StepSize(size)
    BY <1>1, StepIsNotNegligible, StepSizeIsNat DEF Step
  <2>3. ~Negligible(tEnd' - t')
    BY <1>0, <2>1, <2>2, TimeAssumption DEF Negligible
  <2> QED BY <2>1, <2>3
<1>2. ASSUME NEW size \in StepSizes, RejectStep(size)
      PROVE  JustIntegrated'
  BY <1>2 DEF RejectStep
<1>3. CASE UpdateInputs
  BY <1>3 DEF UpdateInputs, stepperState
<1>4. CASE PlanDiscrete
  <2>1. /\ pc = "plan" /\ pc' = "inner" /\ t' = t /\ tEnd' = tEnd
    BY <1>4 DEF PlanDiscrete, stepperState
  <2> QED BY <1>0, <2>1
<1>5. CASE PlanContinuous
  BY <1>5 DEF PlanContinuous
<1>6. CASE PrepareDiscrete
  <2>1. pc' = "try" \/ (pc' = "tail" /\ Failing')
    BY <1>6, Zenon DEF PrepareDiscrete, Failing
  <2> QED BY <2>1
<1>7. CASE LeaveDiscrete
  <2>1. /\ pc = "inner" /\ pc' = "tail" /\ t' = t /\ tEnd' = tEnd /\ tPrev' = tPrev /\ IsDiscrete
    BY <1>7 DEF LeaveDiscrete, stepperState, locals
  <2> QED BY <1>0, <2>1
<1>8. CASE PrepareContinuous
  <2>1. pc' = "try" \/ (pc' = "tail" /\ Failing')
    BY <1>8 DEF PrepareContinuous, Failing, locals
  <2> QED BY <2>1
<1>9. ASSUME NEW suggestion \in Suggestions, TrySucceeds(suggestion)
      PROVE  JustIntegrated'
  <2>1. pc' \in {"inner", "tail"} /\ tPrev' = t'
    BY <1>9 DEF TrySucceeds
  <2> QED BY <2>1
<1>10. ASSUME NEW factor \in Shrink, TryFails(factor)
       PROVE  JustIntegrated'
  <2>1. /\ pc = "try" /\ pc' = "inner" /\ t' = t /\ tEnd' = tEnd
    BY <1>10 DEF TryFails
  <2>2. IsDiscrete => ~Negligible(tEnd - t)
    <3> SUFFICES ASSUME IsDiscrete
                 PROVE  ~Negligible(tEnd - t)
      OBVIOUS
    <3>1. ~Negligible(dt) /\ t + dt <= tNext /\ tNext <= tEnd
      BY <2>1 DEF ReturnInv, UpdatesInv, Exact, TimesOrdered
    <3> QED BY <1>0, <3>1, TimeAssumption DEF Negligible
  <2> QED BY <2>1, <2>2
<1>11. CASE TryDiverges
  BY <1>11 DEF TryDiverges, Failing
<1>12. CASE EndIteration
  <2>1. /\ pc = "tail" /\ pc' = "head" /\ t' = t /\ tEnd' = tEnd /\ tPrev' = tPrev
    BY <1>12 DEF EndIteration, stepperState
  <2>2. rc' = "SUCCESS" => ~Failing /\ (SensorsPeriod = 0 => sensors' = t)
    BY <1>12 DEF EndIteration, Failing
  <2> QED BY <1>0, <2>1, <2>2
<1>13. CASE Return
  <2>1. /\ pc = "head" /\ pc' = "ready" /\ tEnd' = tEnd /\ tPrev' = tPrev /\ rc' = rc
        /\ sensors' = sensors /\ (rc = "SUCCESS" => t' = tEnd /\ Negligible(tEnd - t))
    BY <1>13 DEF Return, TReturned, locals
  <2>2. t <= tEnd
    BY <2>1 DEF ReturnInv, BeforeEnd
  <2>3. rc = "SUCCESS" => tPrev = t /\ (SensorsPeriod = 0 => sensors = t)
    BY <1>0, <2>1
  <2> QED BY <2>1, <2>2, <2>3
<1>14. CASE UNCHANGED vars
  <2>1. Failing' = Failing
    BY <1>14 DEF vars, stepperState, locals, Failing
  <2> QED BY <1>0, <1>14, <2>1 DEF vars, stepperState, locals
<1> HIDE DEF JustIntegrated
<1> QED BY <1>1, <1>2, <1>3, <1>4, <1>5, <1>6, <1>7, <1>8, <1>9, <1>10, <1>11, <1>12, <1>13,
           <1>14 DEF Next, Run

LEMMA ReturnInit == Init => ReturnInv
<1> SUFFICES ASSUME Init
             PROVE  ReturnInv
  OBVIOUS
<1>1. TypeOK /\ (IsDiscrete => UpdatesInv)
  BY TypeInit, UpdatesInit
<1>2. BeforeEnd /\ JustIntegrated
  BY DEF Init, BeforeEnd, JustIntegrated
<1> QED BY <1>1, <1>2 DEF ReturnInv

LEMMA ReturnStep ==
    ASSUME ReturnInv, [Next]_vars
    PROVE  ReturnInv'
<1>1. TypeOK' /\ (IsDiscrete => UpdatesInv')
  BY TypeStep, UpdatesStep DEF ReturnInv
<1>2. BeforeEnd'
  BY BeforeEndStep DEF ReturnInv, UpdatesInv
<1>3. JustIntegrated'
  BY JustIntegratedStep
<1> QED BY <1>1, <1>2, <1>3 DEF ReturnInv

\* A call that succeeds, in discrete or in continuous time, leaves the time it was asked for,
\* an integration that ended there but for a remainder shorter than STEPPER_MIN_TIMESTEP, and
\* sensors of that time if they are continuous, of the current period otherwise.
THEOREM ReturnsOnTime == Spec => []SuccessfulReturn
<1>1. Init => ReturnInv
  BY ReturnInit
<1>2. ReturnInv /\ [Next]_vars => ReturnInv'
  BY ReturnStep
<1>3. ReturnInv => SuccessfulReturn
  <2> SUFFICES ASSUME ReturnInv, pc = "ready", rc = "SUCCESS", tEnd > 0, ~hasAborted
               PROVE  /\ t = tEnd /\ Negligible(t - tPrev)
                      /\ IF SensorsPeriod = 0 THEN Negligible(t - sensors) /\ sensors <= t
                         ELSE t <= NextUpdate(sensors, SensorsPeriod) + StepperMin
    BY DEF SuccessfulReturn
  <2>1. /\ t = tEnd /\ Negligible(t - tPrev)
        /\ SensorsPeriod = 0 => Negligible(t - sensors) /\ sensors <= t
    BY DEF ReturnInv, JustIntegrated
  <2>2. SensorsPeriod # 0 => t <= NextUpdate(sensors, SensorsPeriod) + StepperMin
    <3> SUFFICES ASSUME SensorsPeriod # 0
                 PROVE  t <= NextUpdate(sensors, SensorsPeriod) + StepperMin
      OBVIOUS
    <3>1. SensorsPeriod > 0 /\ IsDiscrete
      BY PeriodAssumption DEF IsDiscrete, UpdatePeriods
    <3> QED BY <3>1 DEF ReturnInv, UpdatesInv, SensorsAhead
  <2> QED BY <2>1, <2>2
<1> QED BY <1>1, <1>2, <1>3, PTL DEF Spec

\* In every mode integration stays in the call.
THEOREM StaysInCall == Spec => []NeverPastEnd
<1>1. Init => ReturnInv
  BY ReturnInit
<1>2. ReturnInv /\ [Next]_vars => ReturnInv'
  BY ReturnStep
<1>3. ReturnInv => NeverPastEnd
  <2> SUFFICES ASSUME ReturnInv, pc # "ready"
               PROVE  t <= tEnd /\ (pc = "try" => t + dt <= tEnd)
    BY DEF NeverPastEnd
  <2>1. t \in Int /\ dt \in Int /\ tEnd \in Int /\ tNext \in Int
    BY DEF ReturnInv, TypeOK
  <2>2. t <= tEnd /\ (pc = "try" /\ ~IsDiscrete => dt <= tEnd - t)
    BY DEF ReturnInv, BeforeEnd
  <2>3. pc = "try" /\ IsDiscrete => t + dt <= tNext /\ tNext <= tEnd
    BY DEF ReturnInv, UpdatesInv, TimesOrdered
  <2> QED BY <2>1, <2>2, <2>3
<1> QED BY <1>1, <1>2, <1>3, PTL DEF Spec

-----------------------------------------------------------------------------
(* Continuous time: the breakpoints *)

\* Two breakpoints of a same system are not so close that an iteration, which passes one of
\* them at most, can start between them.
BreaksApart ==
    \A s \in Systems : \A b, c \in Breaks(s) : b < c => b + 2 * StepperMin < c

\* The iterators are ahead of the time, which runs to the next breakpoint at most, but for
\* the end of a call that is STEPPER_MIN_TIMESTEP away at most.
BreakAhead(b) ==
    /\ t <= b + StepperMin
    /\ pc \in {"plan", "inner", "try", "tail"} => t <= b
    /\ pc = "head" /\ Negligible(tEnd - t) => t <= b
    /\ pc = "plan" => t + StepperMin < b
    /\ pc \in {"inner", "try"} => t + dt <= b

BreaksAhead == \A s \in Systems : BreakAhead(breakNext[s])

\* What is switched on is so at the time the iteration starts from.
ActiveNow ==
    pc \in {"plan", "inner", "try"} => \A f \in Impulses :
        IF active[f] THEN ~Reached(ImpulseEnd(f))
        ELSE ~Reached(ImpulseTime[f]) \/ Reached(ImpulseEnd(f))

\* The iterators stand on breakpoints, or at the end.
OnBreaks == \A s \in Systems : breakNext[s] \in Breaks(s) \cup {Infinity}

ContinuousInv == ReturnInv /\ OnBreaks /\ BreaksAhead /\ dt >= 0 /\ PastReached /\ ActiveNow

LEMMA BreakAfterIsBreak ==
    ASSUME NEW s, NEW b \in Int
    PROVE  /\ BreakAfter(s, b) \in Breaks(s) \cup {Infinity}
           /\ BreakAfter(s, b) = Infinity \/ b < BreakAfter(s, b)
<1> DEFINE later == {c \in Breaks(s) : b < c}
<1>1. CASE later = {}
  BY <1>1 DEF BreakAfter
<1>2. CASE later # {}
  <2>1. BreakAfter(s, b) = Smallest(later)
    BY <1>2 DEF BreakAfter
  <2>2. later \subseteq Nat
    BY BreaksAreNat
  <2>3. Smallest(later) \in later
    <3> HIDE DEF later
    <3> QED BY <1>2, <2>2, SmallestIsLeast
  <2> QED BY <2>1, <2>3
<1> QED BY <1>1, <1>2

LEMMA NextBreakIsOne ==
    ASSUME TypeOK
    PROVE  \/ TForceImpulseNext = Infinity
           \/ \E s \in Systems : TForceImpulseNext = breakNext[s]
<1> DEFINE S == {breakNext[s] : s \in Systems} \cup {Infinity}
<1>1. S \subseteq Nat /\ S # {}
  BY TimeAssumption DEF TypeOK
<1>2. Smallest(S) \in S
  <2> HIDE DEF S
  <2> QED BY <1>1, SmallestIsLeast
<1> QED BY <1>2 DEF TForceImpulseNext

\* The head of an iteration leaves every iterator well ahead of the time.
LEMMA HeadPassesBreaks ==
    ASSUME BreaksApart, TypeOK, OnBreaks, BreaksAhead, UpdateInputs, t <= tEnd,
           NEW s \in Systems
    PROVE  /\ breakNext'[s] \in Breaks(s) \cup {Infinity}
           /\ t + StepperMin < breakNext'[s]
<1>1. /\ t \in Int /\ tEnd \in Int /\ breakNext[s] \in Nat /\ t + StepperMin < tEnd
      /\ tEnd <= MaximumLogTime
  BY TimeAssumption DEF TypeOK, UpdateInputs, Negligible
<1>2. breakNext'[s] = UpdatedBreak(s)
  BY DEF UpdateInputs
<1>3. t + StepperMin < Infinity
  BY <1>1, TimeAssumption
<1>4. CASE breakNext[s] = Infinity
  BY <1>2, <1>3, <1>4 DEF UpdatedBreak
<1>5. CASE breakNext[s] # Infinity /\ ~Reached(breakNext[s])
  <2>1. UpdatedBreak(s) = breakNext[s]
    BY <1>5 DEF UpdatedBreak
  <2>2. t + StepperMin < breakNext[s]
    BY <1>1, <1>5, TimeAssumption DEF Reached, Negligible
  <2> QED BY <1>2, <1>5, <2>1, <2>2 DEF OnBreaks
<1>6. CASE breakNext[s] # Infinity /\ Reached(breakNext[s])
  <2>1. UpdatedBreak(s) = BreakAfter(s, breakNext[s])
    BY <1>6 DEF UpdatedBreak
  <2>2. /\ BreakAfter(s, breakNext[s]) \in Breaks(s) \cup {Infinity}
        /\ BreakAfter(s, breakNext[s]) = Infinity \/ breakNext[s] < BreakAfter(s, breakNext[s])
    BY <1>1, BreakAfterIsBreak
  <2>3. t <= breakNext[s] + StepperMin
    BY DEF BreaksAhead, BreakAhead
  <2>4. breakNext[s] \in Breaks(s)
    BY <1>6 DEF OnBreaks
  <2>5. ASSUME NEW c \in Breaks(s), breakNext[s] < c
        PROVE  t + StepperMin < c
    <3>1. breakNext[s] + 2 * StepperMin < c
      BY <2>4, <2>5 DEF BreaksApart
    <3>2. c \in Nat
      BY BreaksAreNat
    <3> QED BY <1>1, <2>3, <3>1, <3>2, TimeAssumption
  <2> QED BY <1>2, <1>3, <2>1, <2>2, <2>5
<1> QED BY <1>4, <1>5, <1>6

LEMMA BreakAheadStep ==
    ASSUME ~IsDiscrete, ReturnInv, dt >= 0, NEW b \in Nat, BreakAhead(b), [Next]_vars,
           ~UpdateInputs, TForceImpulseNext <= b
    PROVE  /\ t' <= b + StepperMin
           /\ pc' \in {"plan", "inner", "try", "tail"} => t' <= b
           /\ pc' = "head" /\ Negligible(tEnd' - t') => t' <= b
           /\ pc' = "plan" => t' + StepperMin < b
           /\ pc' \in {"inner", "try"} => t' + dt' <= b
<1> DEFINE Goal == /\ t' <= b + StepperMin
                   /\ pc' \in {"plan", "inner", "try", "tail"} => t' <= b
                   /\ pc' = "head" /\ Negligible(tEnd' - t') => t' <= b
                   /\ pc' = "plan" => t' + StepperMin < b
                   /\ pc' \in {"inner", "try"} => t' + dt' <= b
<1> USE DEF BreakAhead
<1>0. /\ t \in Int /\ tEnd \in Int /\ dt \in Int /\ TForceImpulseNext \in Nat
  BY NextBreakIsLeast DEF ReturnInv, TypeOK
<1>1. ASSUME NEW size \in StepSizes, Step(size)
      PROVE  Goal
  <2>1. /\ pc' = "head" /\ t' = t /\ tEnd' = t + StepSize(size)
    BY <1>1 DEF Step, stepperState
  <2>2. StepSize(size) \in Nat /\ StepperMin < StepSize(size)
    BY <1>1, StepIsNotNegligible, StepSizeIsNat DEF Step
  <2>3. ~Negligible(tEnd' - t')
    BY <1>0, <2>1, <2>2, TimeAssumption DEF Negligible
  <2> QED BY <2>1, <2>3
<1>2. ASSUME NEW size \in StepSizes, RejectStep(size)
      PROVE  Goal
  BY <1>2 DEF RejectStep, stepperState, locals
<1>3. CASE PlanDiscrete \/ PrepareDiscrete \/ LeaveDiscrete
  BY <1>3 DEF PlanDiscrete, PrepareDiscrete, LeaveDiscrete
<1>4. CASE PlanContinuous
  <2>1. /\ pc = "plan" /\ pc' = "inner" /\ t' = t /\ dt' = ContinuousDt
    BY <1>4 DEF PlanContinuous
  <2>2. ContinuousDt \in Int /\ ContinuousDt <= TForceImpulseNext - t
    BY <1>0 DEF ContinuousDt, Min2
  <2>3. t' + dt' <= b
    BY <1>0, <2>1, <2>2
  <2> QED BY <2>1, <2>3
<1>5. CASE PrepareContinuous
  BY <1>5 DEF PrepareContinuous, locals
<1>6. ASSUME NEW suggestion \in Suggestions, TrySucceeds(suggestion)
      PROVE  Goal
  <2>1. /\ pc = "try" /\ pc' = "tail" /\ t' = t + dt
    BY <1>6 DEF TrySucceeds
  <2>2. t' \in Int /\ t' <= b
    BY <1>0, <2>1
  <2> QED BY <2>1, <2>2, TimeAssumption
<1>7. ASSUME NEW factor \in Shrink, TryFails(factor)
      PROVE  Goal
  <2>1. /\ pc = "try" /\ pc' = "inner" /\ t' = t /\ dt' = NextDt(dt \div factor)
    BY <1>7 DEF TryFails
  <2>2. factor \in Nat \ {0}
    BY TimeAssumption
  <2>3. dt \div factor \in Int /\ dt \div factor <= dt
    BY <1>0, <2>2, QuotientBound
  <2>4. dt' <= dt /\ dt' \in Int
    BY <1>0, <2>1, <2>3, TimeAssumption DEF NextDt, Min2
  <2>5. t' + dt' <= b
    BY <1>0, <2>1, <2>4
  <2> QED BY <2>1, <2>5
<1>8. CASE TryDiverges
  BY <1>8 DEF TryDiverges
<1>9. CASE EndIteration
  BY <1>9 DEF EndIteration, stepperState
<1>10. CASE Return
  <2>1. /\ pc = "head" /\ pc' = "ready" /\ t' = TReturned
        /\ rc # "SUCCESS" \/ Negligible(tEnd - t)
    BY <1>10 DEF Return
  <2>2. t' <= b + StepperMin
    BY <1>0, <2>1, TimeAssumption DEF TReturned, Negligible
  <2> QED BY <2>1, <2>2
<1>11. CASE UNCHANGED vars
  BY <1>11 DEF vars, stepperState, locals
<1> QED BY <1>1, <1>2, <1>3, <1>4, <1>5, <1>6, <1>7, <1>8, <1>9, <1>10, <1>11 DEF Next, Run

LEMMA BreaksAheadStep ==
    ASSUME ~IsDiscrete, BreaksApart, ContinuousInv, [Next]_vars
    PROVE  OnBreaks' /\ BreaksAhead'
<1>0. /\ ReturnInv /\ TypeOK /\ OnBreaks /\ BreaksAhead /\ dt >= 0
      /\ t \in Int /\ tEnd \in Int /\ breakNext \in [Systems -> Nat]
  BY DEF ContinuousInv, ReturnInv, TypeOK
<1>1. CASE UpdateInputs
  <2>1. /\ pc = "head" /\ pc' = "plan" /\ t' = t
    BY <1>1 DEF UpdateInputs, stepperState
  <2>2. t <= tEnd
    BY <1>0, <2>1 DEF ReturnInv, BeforeEnd
  <2>3. ASSUME NEW s \in Systems
        PROVE  breakNext'[s] \in Breaks(s) \cup {Infinity} /\ t + StepperMin < breakNext'[s]
    BY <1>0, <1>1, <2>2, HeadPassesBreaks
  <2>4. ASSUME NEW b \in Nat, t + StepperMin < b
        PROVE  t <= b + StepperMin /\ t <= b
    BY <1>0, <2>4, TimeAssumption
  <2>5. ASSUME NEW s \in Systems
        PROVE  breakNext'[s] \in Nat
    BY <2>3, BreaksAreNat, TimeAssumption
  <2>6. OnBreaks'
    BY <2>3 DEF OnBreaks
  <2>7. BreaksAhead'
    BY <2>1, <2>3, <2>4, <2>5 DEF BreaksAhead, BreakAhead
  <2> QED BY <2>6, <2>7
<1>2. CASE ~UpdateInputs
  <2>1. breakNext' = breakNext
    BY <1>2, InputsUnchanged
  <2>2. ASSUME NEW s \in Systems
        PROVE  BreakAhead(breakNext[s])'
    <3>1. PICK b \in Nat : b = breakNext[s]
      BY <1>0
    <3>2. BreakAhead(b) /\ TForceImpulseNext <= b
      BY <1>0, <3>1, NextBreakIsLeast DEF BreaksAhead
    <3>3. /\ t' <= b + StepperMin
          /\ pc' \in {"plan", "inner", "try", "tail"} => t' <= b
          /\ pc' = "head" /\ Negligible(tEnd' - t') => t' <= b
          /\ pc' = "plan" => t' + StepperMin < b
          /\ pc' \in {"inner", "try"} => t' + dt' <= b
      BY <1>0, <1>2, <3>2, BreakAheadStep
    <3>4. breakNext'[s] = b
      BY <2>1, <3>1
    <3> QED BY <3>3, <3>4 DEF BreakAhead
  <2>3. BreaksAhead'
    BY <2>2 DEF BreaksAhead
  <2>4. OnBreaks'
    BY <1>0, <2>1 DEF OnBreaks
  <2> QED BY <2>3, <2>4
<1> QED BY <1>1, <1>2

\* In continuous time no attempt is of a negative duration.
LEMMA ForwardStep ==
    ASSUME ~IsDiscrete, BreaksApart, ContinuousInv, [Next]_vars
    PROVE  dt' >= 0 /\ t <= t'
<1>0. /\ ReturnInv /\ TypeOK /\ BreaksAhead /\ dt >= 0
      /\ t \in Int /\ tEnd \in Int /\ dt \in Int /\ dtLargestPrev \in Int
      /\ breakNext \in [Systems -> Nat]
  BY DEF ContinuousInv, ReturnInv, TypeOK
<1>1. CASE \E size \in StepSizes : Step(size) \/ RejectStep(size)
  BY <1>0, <1>1 DEF Step, RejectStep, stepperState
<1>2. CASE UpdateInputs \/ PrepareContinuous \/ EndIteration
  <2>1. t' = t /\ dt' = dt
    BY <1>2 DEF UpdateInputs, PrepareContinuous, EndIteration, stepperState
  <2> QED BY <1>0, <2>1
<1>3. CASE PlanDiscrete \/ PrepareDiscrete \/ LeaveDiscrete
  BY <1>3 DEF PlanDiscrete, PrepareDiscrete, LeaveDiscrete
<1>4. CASE PlanContinuous
  <2>1. /\ pc = "plan" /\ t' = t /\ dt' = ContinuousDt
    BY <1>4 DEF PlanContinuous
  <2>2. t <= tEnd
    BY <1>0, <2>1 DEF ReturnInv, BeforeEnd
  <2>3. tEnd <= Infinity
    BY <1>0, TimeAssumption DEF TypeOK
  <2>4. TForceImpulseNext \in Nat /\ t <= TForceImpulseNext
    <3>1. \A s \in Systems : t <= breakNext[s]
      BY <2>1, <1>0 DEF BreaksAhead, BreakAhead
    <3>2. t <= Infinity
      BY <1>0, <2>2, <2>3, TimeAssumption
    <3> QED BY <1>0, <3>1, <3>2, NextBreakIsOne, NextBreakIsLeast
  <2>5. ContinuousDt >= 0
    BY <1>0, <2>2, <2>4 DEF ContinuousDt, Min2
  <2> QED BY <1>0, <2>1, <2>5
<1>5. ASSUME NEW suggestion \in Suggestions, TrySucceeds(suggestion)
      PROVE  dt' >= 0 /\ t <= t'
  <2>1. t' = t + dt /\ dt' = NextDt(Restored(suggestion))
    BY <1>5 DEF TrySucceeds
  <2>2. suggestion \in Nat
    BY <1>0, TimeAssumption DEF Suggestions
  <2>3. Restored(suggestion) \in Nat
    BY <1>0, <2>2, TimeAssumption DEF Restored
  <2>4. dt' >= 0
    BY <2>1, <2>3, TimeAssumption DEF NextDt, Min2
  <2> QED BY <1>0, <2>1, <2>4
<1>6. ASSUME NEW factor \in Shrink, TryFails(factor)
      PROVE  dt' >= 0 /\ t <= t'
  <2>1. t' = t /\ dt' = NextDt(dt \div factor)
    BY <1>6 DEF TryFails
  <2>2. factor \in Nat \ {0} /\ dt \in Nat
    BY <1>0, TimeAssumption
  <2>3. dt \div factor \in Nat
    BY <2>2
  <2>4. dt' >= 0
    BY <2>1, <2>3, TimeAssumption DEF NextDt, Min2
  <2> QED BY <1>0, <2>1, <2>4
<1>7. CASE TryDiverges
  BY <1>0, <1>7 DEF TryDiverges
<1>8. CASE Return
  BY <1>0, <1>8 DEF Return, TReturned, ReturnInv, BeforeEnd
<1>9. CASE UNCHANGED vars
  BY <1>0, <1>9 DEF vars, stepperState
<1> QED BY <1>1, <1>2, <1>3, <1>4, <1>5, <1>6, <1>7, <1>8, <1>9 DEF Next, Run

LEMMA ActiveNowStep ==
    ASSUME ~IsDiscrete, ActiveNow, [Next]_vars
    PROVE  ActiveNow'
<1>1. CASE UpdateInputs
  <2>1. t' = t
    BY <1>1 DEF UpdateInputs, stepperState
  <2>2. ASSUME NEW f \in Impulses
        PROVE  IF active'[f] THEN ~Reached(ImpulseEnd(f))
               ELSE ~Reached(ImpulseTime[f]) \/ Reached(ImpulseEnd(f))
    <3>1. active'[f] = UpdatedActive(f)
      BY <1>1 DEF UpdateInputs
    <3> QED BY <3>1 DEF UpdatedActive
  <2> QED BY <2>1, <2>2 DEF ActiveNow, Reached
<1>2. CASE ~UpdateInputs
  <2>1. active' = active
    BY <1>2, InputsUnchanged
  <2>2. pc' \in {"plan", "inner", "try"} => pc \in {"plan", "inner", "try"} /\ t' = t
    <3>1. CASE \E size \in StepSizes : Step(size) \/ RejectStep(size)
      BY <3>1 DEF Step, RejectStep
    <3>2. CASE PlanDiscrete \/ PrepareDiscrete \/ LeaveDiscrete
      BY <3>2 DEF PlanDiscrete, PrepareDiscrete, LeaveDiscrete
    <3>3. CASE PlanContinuous \/ PrepareContinuous
      BY <3>3 DEF PlanContinuous, PrepareContinuous
    <3>4. CASE \/ \E suggestion \in Suggestions : TrySucceeds(suggestion)
               \/ \E factor \in Shrink : TryFails(factor)
               \/ TryDiverges
      BY <3>4 DEF TrySucceeds, TryFails, TryDiverges
    <3>5. CASE EndIteration \/ Return
      BY <3>5 DEF EndIteration, Return
    <3>6. CASE UNCHANGED vars
      BY <3>6 DEF vars, stepperState
    <3> QED BY <1>2, <3>1, <3>2, <3>3, <3>4, <3>5, <3>6 DEF Next, Run
  <2> QED BY <2>1, <2>2 DEF ActiveNow, Reached
<1> QED BY <1>1, <1>2

LEMMA ContinuousInit ==
    ASSUME Init
    PROVE  ContinuousInv
<1>1. ReturnInv /\ PastReached
  BY ReturnInit, WindowInit DEF WindowInv
<1>2. pc = "ready" /\ t = 0 /\ dt = SimMin /\ breakNext = [s \in Systems |-> BreakAfter(s, -1)]
  BY DEF Init
<1>3. OnBreaks
  BY <1>2, BreakAfterIsBreak DEF OnBreaks
<1>4. BreaksAhead
  <2>1. \A s \in Systems : breakNext[s] \in Nat
    BY <1>1 DEF ReturnInv, TypeOK
  <2> QED BY <1>2, <2>1, TimeAssumption DEF BreaksAhead, BreakAhead
<1>5. ActiveNow /\ dt >= 0
  BY <1>2, TimeAssumption DEF ActiveNow
<1> QED BY <1>1, <1>3, <1>4, <1>5 DEF ContinuousInv

LEMMA ContinuousStep ==
    ASSUME ~IsDiscrete, BreaksApart, ContinuousInv, [Next]_vars
    PROVE  ContinuousInv' /\ t <= t'
<1>1. ReturnInv'
  BY ReturnStep DEF ContinuousInv
<1>2. OnBreaks' /\ BreaksAhead'
  BY BreaksAheadStep
<1>3. dt' >= 0 /\ t <= t'
  BY ForwardStep
<1>4. PastReached'
  BY <1>1, <1>3, PastStep DEF ContinuousInv, ReturnInv
<1>5. ActiveNow'
  BY ActiveNowStep DEF ContinuousInv
<1> QED BY <1>1, <1>2, <1>3, <1>4, <1>5 DEF ContinuousInv

LEMMA ContinuousWindows ==
    ASSUME ContinuousInv
    PROVE  ImpulsesInWindow
<1> SUFFICES ASSUME pc = "try", NEW f \in Impulses
             PROVE  ImpulseInWindow(f, t, t + dt)
  BY DEF ImpulsesInWindow
<1>1. t \in Int /\ dt \in Int
  BY DEF ContinuousInv, ReturnInv, TypeOK
<1> DEFINE s == ImpulseSystem[f]
<1>2. /\ s \in Systems /\ ImpulseTime[f] \in Nat /\ ImpulseEnd(f) \in Nat
      /\ ImpulseTime[f] \in Breaks(s) /\ ImpulseEnd(f) \in Breaks(s)
  BY ImpulseAssumption DEF Breaks, ImpulseEnd
<1>3. ASSUME NEW b \in Breaks(s), b \in Nat, ~Reached(b)
      PROVE  Negligible(t + dt - b)
  <2>1. breakNext[s] \in Nat /\ breakNext[s] <= b
    BY <1>2, <1>3 DEF ContinuousInv, PastReached, ReturnInv, TypeOK
  <2>2. t + dt <= breakNext[s]
    BY <1>2 DEF ContinuousInv, BreaksAhead, BreakAhead
  <2> QED BY <1>1, <1>3, <2>1, <2>2, TimeAssumption DEF Negligible
<1>4. CASE active[f]
  <2>1. Reached(ImpulseTime[f]) /\ ~Reached(ImpulseEnd(f))
    BY <1>4 DEF ContinuousInv, PastReached, ActiveNow
  <2>2. Negligible(t + dt - ImpulseEnd(f))
    BY <1>2, <1>3, <2>1
  <2> QED BY <1>1, <1>2, <1>4, <2>1, <2>2 DEF ImpulseInWindow, Reached, Negligible
<1>5. CASE ~active[f]
  <2>1. ~Reached(ImpulseTime[f]) \/ Reached(ImpulseEnd(f))
    BY <1>5 DEF ContinuousInv, ActiveNow
  <2>2. ~Reached(ImpulseTime[f]) => Negligible(t + dt - ImpulseTime[f])
    BY <1>2, <1>3
  <2> QED BY <1>1, <1>2, <1>5, <2>1, <2>2 DEF ImpulseInWindow, Reached, Negligible
<1> QED BY <1>4, <1>5

-----------------------------------------------------------------------------
(* The size of the steps *)

\* A stretched step is only left behind by a call that is being aborted.
BoundedInv ==
    ~hasAborted /\ rc # "ABORTED" =>
        /\ pc # "try" => dt <= DtMax \/ (pc = "tail" /\ Failing)
        /\ pc = "try" => dt < DtMax + (IF IsDiscrete THEN SimMin ELSE 1)

LEMMA BoundedStep ==
    ASSUME TypeOK, AbortsRemembered, BoundedInv, [Next]_vars
    PROVE  BoundedInv'
<1> USE DEF BoundedInv
<1>0. t \in Int /\ tNext \in Int /\ tEnd \in Int /\ dt \in Int
  BY DEF TypeOK
<1>1. ASSUME NEW size \in StepSizes, Step(size) \/ RejectStep(size)
      PROVE  BoundedInv'
  <2>1. /\ pc = "ready" /\ pc' # "try" /\ dt' = dt /\ hasAborted' = hasAborted
    BY <1>1 DEF Step, RejectStep, stepperState
  <2> QED BY <2>1 DEF AbortsRemembered
<1>2. CASE UpdateInputs \/ PlanDiscrete
  <2>1. /\ pc \in {"head", "plan"} /\ pc' # "try" /\ dt' = dt /\ hasAborted' = hasAborted /\ rc' = rc
    BY <1>2 DEF UpdateInputs, PlanDiscrete, stepperState
  <2> QED BY <2>1
<1>3. CASE PrepareDiscrete
  <2>1. /\ pc = "inner" /\ IsDiscrete /\ (pc' = "try" \/ (pc' = "tail" /\ Failing'))
        /\ hasAborted' = hasAborted /\ rc' = rc /\ dt' = RoundedDt(SnappedDt)
    BY <1>3, Zenon DEF PrepareDiscrete, Failing
  <2>2. dt <= DtMax => SnappedDt < DtMax + SimMin
    BY <1>0, TimeAssumption DEF SnappedDt, Min2, Negligible, TypeOK
  <2>3. /\ RoundedDt(SnappedDt) \in Int /\ RoundedDt(SnappedDt) <= SnappedDt
        /\ SnappedDt \in Int
    BY SnappedDtBounds, RoundedDtBounds
  <2>4. dt <= DtMax => dt' < DtMax + SimMin
    BY <2>1, <2>2, <2>3, TimeAssumption
  <2> QED BY <2>1, <2>4
<1>4. CASE LeaveDiscrete
  <2>1. /\ pc = "inner" /\ pc' # "try" /\ dt' = dt /\ hasAborted' = hasAborted /\ rc' = rc
    BY <1>4 DEF LeaveDiscrete, stepperState
  <2> QED BY <2>1
<1>5. CASE PlanContinuous
  <2>1. /\ pc = "plan" /\ pc' = "inner" /\ hasAborted' = hasAborted /\ rc' = rc
        /\ dt' = ContinuousDt
    BY <1>5 DEF PlanContinuous
  <2>2. ContinuousDt <= dt /\ ContinuousDt \in Int
    BY <1>0, NextBreakIsLeast DEF ContinuousDt, Min2
  <2>3. dt <= DtMax => dt' <= DtMax
    BY <1>0, <2>1, <2>2, TimeAssumption
  <2> QED BY <2>1, <2>3
<1>6. CASE PrepareContinuous
  <2>1. /\ pc = "inner" /\ dt' = dt /\ hasAborted' = hasAborted /\ rc' = rc /\ ~IsDiscrete
        /\ pc' = "try" \/ pc' = "tail"
    BY <1>6 DEF PrepareContinuous, locals
  <2>2. dt <= DtMax => dt < DtMax + 1
    BY <1>0, TimeAssumption
  <2> QED BY <2>1, <2>2
<1>7. ASSUME NEW suggestion \in Suggestions, TrySucceeds(suggestion)
      PROVE  BoundedInv'
  <2>1. pc' # "try" /\ dt' = NextDt(Restored(suggestion))
    BY <1>7 DEF TrySucceeds
  <2>2. NextDt(Restored(suggestion)) <= DtMax
    BY <1>0, TimeAssumption DEF NextDt, Min2, Restored, Suggestions, TypeOK
  <2> QED BY <2>1, <2>2
<1>8. ASSUME NEW factor \in Shrink, TryFails(factor)
      PROVE  BoundedInv'
  <2>1. pc' = "inner" /\ dt' = NextDt(dt \div factor)
    BY <1>8 DEF TryFails
  <2>2. dt \div factor \in Int
    BY <1>0, TimeAssumption
  <2>3. NextDt(dt \div factor) <= DtMax
    BY <2>2, TimeAssumption DEF NextDt, Min2
  <2> QED BY <2>1, <2>3
<1>9. CASE TryDiverges
  <2>1. pc' = "tail" /\ Failing'
    BY <1>9 DEF TryDiverges, Failing
  <2> QED BY <2>1
<1>10. CASE EndIteration
  <2>1. /\ pc = "tail" /\ pc' = "head" /\ dt' = dt /\ hasAborted' = hasAborted
        /\ rc' # "ABORTED" => ~Failing /\ rc' = rc
    BY <1>10 DEF EndIteration, Failing, stepperState
  <2> QED BY <2>1
<1>11. CASE Return
  <2>1. /\ pc = "head" /\ pc' = "ready" /\ dt' = dt /\ rc' = rc
        /\ ~hasAborted' => ~hasAborted /\ rc # "ABORTED"
    BY <1>11 DEF Return
  <2> QED BY <2>1
<1>12. CASE UNCHANGED vars
  <2>1. Failing' = Failing
    BY <1>12 DEF vars, stepperState, locals, Failing
  <2> QED BY <1>12, <2>1 DEF vars, stepperState
<1> HIDE DEF BoundedInv
<1> QED BY <1>1, <1>2, <1>3, <1>4, <1>5, <1>6, <1>7, <1>8, <1>9, <1>10, <1>11, <1>12
        DEF Next, Run

\* No attempt of the ODE stepper is longer than the option dtMax, but for the stretch to a
\* breakpoint, which is shorter than SIMULATION_MIN_TIMESTEP and in discrete time only, until
\* a call is aborted.
THEOREM StepsAreBounded == Spec => []StepBounded
<1>1. Init => TypeOK /\ AbortsRemembered /\ BoundedInv
  BY TypeInit, TimeAssumption DEF Init, AbortsRemembered, BoundedInv
<1>2. TypeOK /\ AbortsRemembered /\ BoundedInv /\ [Next]_vars
         => (TypeOK /\ AbortsRemembered /\ BoundedInv)'
  BY TypeStep, AbortsStep, BoundedStep
<1>3. AbortsRemembered /\ BoundedInv => StepBounded
  BY Zenon DEF AbortsRemembered, BoundedInv, StepBounded
<1> QED BY <1>1, <1>2, <1>3, PTL DEF Spec

-----------------------------------------------------------------------------
(* Aborts *)

\* As long as no attempt failed, dt stays long enough for the next one.
LongEnough ==
    /\ ~hasFailed => successiveIterFailed = 0
    /\ ~hasFailed /\ ~hasAborted => StepperMin < dt
    /\ AbortOnlyOnFailure

\* What either mode knows when it plans a step.
PlannedAhead ==
    pc = "plan" /\ ~IsDiscrete => /\ StepperMin < tEnd - t
                                  /\ StepperMin < TForceImpulseNext - t

LEMMA PlannedAheadHolds ==
    ASSUME ContinuousInv
    PROVE  PlannedAhead
<1> SUFFICES ASSUME pc = "plan", ~IsDiscrete
             PROVE  StepperMin < tEnd - t /\ StepperMin < TForceImpulseNext - t
  BY DEF PlannedAhead
<1>1. TypeOK /\ t \in Int /\ tEnd \in Int /\ tEnd <= MaximumLogTime
      /\ breakNext \in [Systems -> Nat]
  BY DEF ContinuousInv, ReturnInv, TypeOK
<1>2. ~Negligible(tEnd - t)
  BY DEF ContinuousInv, ReturnInv, JustIntegrated
<1>3. StepperMin < tEnd - t
  BY <1>1, <1>2, TimeAssumption DEF Negligible
<1>4. \A s \in Systems : t + StepperMin < breakNext[s]
  BY DEF ContinuousInv, BreaksAhead, BreakAhead
<1>5. t + StepperMin < Infinity
  BY <1>1, <1>3, TimeAssumption
<1>6. TForceImpulseNext \in Nat /\ t + StepperMin < TForceImpulseNext
  BY <1>1, <1>4, <1>5, NextBreakIsOne, NextBreakIsLeast
<1>7. StepperMin < TForceImpulseNext - t
  BY <1>1, <1>6, TimeAssumption
<1> QED BY <1>3, <1>7

LEMMA LongEnoughStep ==
    ASSUME TypeOK, AbortsRemembered, PlannedAhead, LongEnough, [Next]_vars
    PROVE  LongEnough'
<1> USE DEF LongEnough, AbortOnlyOnFailure
<1>0. /\ t \in Int /\ tNext \in Int /\ tEnd \in Int /\ dt \in Int /\ dtLargestPrev \in Int
      /\ successiveIterFailed \in Nat /\ TForceImpulseNext \in Nat
  BY NextBreakIsLeast DEF TypeOK
<1>1. ASSUME NEW size \in StepSizes, Step(size) \/ RejectStep(size)
      PROVE  LongEnough'
  <2>1. /\ pc = "ready" /\ dt' = dt /\ hasAborted' = hasAborted /\ hasFailed' = hasFailed
        /\ successiveIterFailed' \in {0, successiveIterFailed}
        /\ (pc' = "head" /\ rc' = "SUCCESS") \/ pc' = "ready"
    BY <1>1 DEF Step, RejectStep, stepperState, locals
  <2> QED BY <2>1
<1>2. CASE UpdateInputs \/ PlanDiscrete \/ LeaveDiscrete \/ PrepareContinuous
  <2>1. /\ pc' # "head" /\ dt' = dt /\ hasAborted' = hasAborted /\ hasFailed' = hasFailed
        /\ successiveIterFailed' = successiveIterFailed
    BY <1>2 DEF UpdateInputs, PlanDiscrete, LeaveDiscrete, PrepareContinuous, stepperState, locals
  <2> QED BY <2>1
<1>3. CASE PrepareDiscrete
  <2>1. /\ pc' # "head" /\ hasAborted' = hasAborted /\ hasFailed' = hasFailed
        /\ successiveIterFailed' = successiveIterFailed
        /\ ~Negligible(tNext - t) /\ dt' = RoundedDt(SnappedDt)
    BY <1>3 DEF PrepareDiscrete
  <2>2. StepperMin < tNext - t
    BY <1>0, <2>1, TimeAssumption DEF Negligible
  <2>3. SnappedDt \in Int /\ (StepperMin < dt => StepperMin < SnappedDt)
    BY <1>0, <2>2, SnappedDtBounds, TimeAssumption DEF SnappedDt, Min2
  <2>4. StepperMin < SnappedDt => StepperMin < RoundedDt(SnappedDt)
    <3> DEFINE s == SnappedDt
    <3>1. s \in Int /\ s % SimMin \in Int
      BY <2>3, TimeAssumption
    <3> HIDE DEF s
    <3>2. StepperMin < s => StepperMin < RoundedDt(s)
      BY <3>1, TimeAssumption DEF RoundedDt, Negligible
    <3> QED BY <3>2 DEF s
  <2> QED BY <2>1, <2>3, <2>4
<1>4. CASE PlanContinuous
  <2>1. /\ pc = "plan" /\ pc' # "head" /\ hasAborted' = hasAborted /\ hasFailed' = hasFailed
        /\ successiveIterFailed' = successiveIterFailed /\ dt' = ContinuousDt /\ ~IsDiscrete
    BY <1>4 DEF PlanContinuous
  <2>2. StepperMin < dt => StepperMin < ContinuousDt
    BY <1>0, <2>1, TimeAssumption DEF PlannedAhead, ContinuousDt, Min2
  <2> QED BY <2>1, <2>2
<1>5. ASSUME NEW suggestion \in Suggestions, TrySucceeds(suggestion)
      PROVE  LongEnough'
  <2>1. /\ pc' # "head" /\ hasAborted' = hasAborted /\ hasFailed' = hasFailed
        /\ successiveIterFailed' = 0 /\ dt' = NextDt(Restored(suggestion))
    BY <1>5 DEF TrySucceeds
  <2>2. StepperMin < dt => suggestion \in Int /\ StepperMin < suggestion
    <3> SUFFICES ASSUME StepperMin < dt
                 PROVE  suggestion \in Int /\ StepperMin < suggestion
      OBVIOUS
    <3>1. CASE IsFixedStep
      <4>1. suggestion = Infinity
        BY <3>1 DEF Suggestions
      <4> QED BY <4>1, TimeAssumption
    <3>2. CASE ~IsFixedStep
      <4>1. PICK g \in Grow : suggestion = g * dt
        BY <3>2 DEF Suggestions
      <4>2. g \in Nat \ {0} /\ dt \in Nat
        BY <1>0, TimeAssumption
      <4>3. dt <= g * dt
        BY <4>2, Z3
      <4> QED BY <1>0, <4>1, <4>2, <4>3, TimeAssumption
    <3> QED BY <3>1, <3>2
  <2>3. StepperMin < dt => StepperMin < dt'
    BY <1>0, <2>1, <2>2, TimeAssumption DEF NextDt, Min2, Restored
  <2> QED BY <2>1, <2>3
<1>6. ASSUME NEW factor \in Shrink, TryFails(factor)
      PROVE  LongEnough'
  <2>1. pc' # "head" /\ hasFailed'
    BY <1>6 DEF TryFails
  <2> QED BY <2>1
<1>7. CASE TryDiverges
  <2>1. /\ pc' # "head" /\ dt' = dt /\ hasAborted' = hasAborted /\ hasFailed' = hasFailed
        /\ successiveIterFailed' = successiveIterFailed
    BY <1>7 DEF TryDiverges
  <2> QED BY <2>1
<1>8. CASE EndIteration
  <2>1. /\ pc = "tail" /\ dt' = dt /\ hasAborted' = hasAborted /\ hasFailed' = hasFailed
        /\ successiveIterFailed' = successiveIterFailed /\ isNan' = isNan
        /\ rc' = "ABORTED" => \/ rc = "ABORTED" \/ isNan \/ successiveIterFailed > FailMax
                              \/ Negligible(dt) \/ timedOut'
    BY <1>8 DEF EndIteration, stepperState
  <2>2. rc # "ABORTED"
    BY <2>1 DEF AbortsRemembered
  <2>3. successiveIterFailed > FailMax => hasFailed
    BY <1>0, TimeAssumption
  <2>4. Negligible(dt) => hasFailed \/ hasAborted
    BY <1>0, TimeAssumption DEF Negligible
  <2> QED BY <2>1, <2>2, <2>3, <2>4
<1>9. CASE Return
  <2>1. /\ pc' # "head" /\ dt' = dt /\ hasFailed' = hasFailed
        /\ successiveIterFailed' = successiveIterFailed /\ (~hasAborted' => ~hasAborted)
    BY <1>9 DEF Return, locals
  <2> QED BY <2>1
<1>10. CASE UNCHANGED vars
  BY <1>10 DEF vars, stepperState, locals
<1> HIDE DEF LongEnough
<1> QED BY <1>1, <1>2, <1>3, <1>4, <1>5, <1>6, <1>7, <1>8, <1>9, <1>10 DEF Next, Run

\* Unless the physics is to blame no call is aborted: not before an attempt of the ODE stepper
\* failed, a NaN or a timeout, provided that in continuous time no two breakpoints of a system
\* are within twice STEPPER_MIN_TIMESTEP of each other.
THEOREM AbortsNeedAFailure ==
    ASSUME IsDiscrete \/ BreaksApart
    PROVE  Spec => []AbortOnlyOnFailure
<1>1. Init => TypeOK /\ AbortsRemembered /\ LongEnough
  BY TypeInit, TimeAssumption DEF Init, AbortsRemembered, LongEnough, AbortOnlyOnFailure
<1>2. TypeOK /\ AbortsRemembered /\ LongEnough /\ PlannedAhead /\ [Next]_vars
         => (TypeOK /\ AbortsRemembered /\ LongEnough)'
  BY TypeStep, AbortsStep, LongEnoughStep
<1>3. LongEnough => AbortOnlyOnFailure
  BY DEF LongEnough
<1>4. CASE IsDiscrete
  <2>1. PlannedAhead
    BY <1>4 DEF PlannedAhead
  <2> QED BY <1>1, <1>2, <1>3, <2>1, PTL DEF Spec
<1>5. CASE ~IsDiscrete
  <2>1. Init => ContinuousInv
    BY ContinuousInit
  <2>2. ContinuousInv /\ [Next]_vars => ContinuousInv'
    BY <1>5, ContinuousStep
  <2>3. ContinuousInv => PlannedAhead
    BY PlannedAheadHolds
  <2> QED BY <1>1, <1>2, <1>3, <2>1, <2>2, <2>3, PTL DEF Spec
<1> QED BY <1>4, <1>5

-----------------------------------------------------------------------------
(* The windows of the impulse forces and the time, in either mode *)

\* Whatever the impulse forces, the periods, the sizes of the steps asked for and what the
\* ODE stepper answers, `step' never integrates an impulse force outside of its window, nor
\* over the beginning or the end of one, provided that in continuous time no two breakpoints
\* of a system are within twice STEPPER_MIN_TIMESTEP of each other.
THEOREM ImpulseWindows ==
    ASSUME IsDiscrete \/ BreaksApart
    PROVE  Spec => []ImpulsesInWindow
<1>1. CASE IsDiscrete
  <2>1. Init => WindowInv
    BY WindowInit
  <2>2. WindowInv /\ [Next]_vars => WindowInv'
    BY <1>1, WindowStep
  <2>3. WindowInv => ImpulsesInWindow
    BY WindowInvSuffices
  <2> QED BY <2>1, <2>2, <2>3, PTL DEF Spec
<1>2. CASE ~IsDiscrete
  <2>1. Init => ContinuousInv
    BY ContinuousInit
  <2>2. ContinuousInv /\ [Next]_vars => ContinuousInv'
    BY <1>2, ContinuousStep
  <2>3. ContinuousInv => ImpulsesInWindow
    BY ContinuousWindows
  <2> QED BY <2>1, <2>2, <2>3, PTL DEF Spec
<1> QED BY <1>1, <1>2

\* No step of the loop goes back in time, under the same condition.
THEOREM TimeMovesForward ==
    ASSUME IsDiscrete \/ BreaksApart
    PROVE  Spec => TimeMonotone
<1>1. CASE IsDiscrete
  <2>1. Init => WindowInv
    BY WindowInit
  <2>2. WindowInv /\ [Next]_vars => WindowInv'
    BY <1>1, WindowStep
  <2>3. WindowInv /\ [Next]_vars => [t <= t']_vars
    BY <1>1, TimesStep DEF WindowInv
  <2> QED BY <2>1, <2>2, <2>3, PTL DEF Spec, TimeMonotone
<1>2. CASE ~IsDiscrete
  <2>1. Init => ContinuousInv
    BY ContinuousInit
  <2>2. ContinuousInv /\ [Next]_vars => ContinuousInv'
    BY <1>2, ContinuousStep
  <2>3. ContinuousInv /\ [Next]_vars => [t <= t']_vars
    BY <1>2, ContinuousStep
  <2> QED BY <2>1, <2>2, <2>3, PTL DEF Spec, TimeMonotone
<1> QED BY <1>1, <1>2
=============================================================================
