--------------------------- MODULE GymSessionProofs ---------------------------
(***************************************************************************)
(* What a user of an environment finds after an evaluation or an           *)
(* interaction, and the schedule of the blocks of a pipeline, for every    *)
(* pipeline and any number of episodes.                                    *)
(***************************************************************************)
EXTENDS GymSession, FiniteSetTheorems, TLAPS

\* The mode while somebody else runs the episodes: eval, and what the user had is kept aside.
ModeInv ==
    /\ training \in BOOLEAN /\ chosen \in BOOLEAN /\ interactive \in BOOLEAN
    /\ raised \in BOOLEAN
    /\ runner \in {"user", "evaluate", "play"}
    /\ runner # "user" => ~training
    /\ (runner # "play" /\ ~raised) => ~interactive
    /\ (runner = "user" /\ ~raised) => training = chosen

\* What most of the actions leave alone.
KeepsMode ==
    /\ training' = training /\ chosen' = chosen /\ interactive' = interactive
    /\ raised' = raised /\ runner' = runner

LEMMA ModeKept == ModeInv /\ KeepsMode => ModeInv'
BY SMT DEF ModeInv, KeepsMode

LEMMA ModeInit == SessionInit => ModeInv
BY Zenon DEF SessionInit, ModeInv

LEMMA ModeStep == ModeInv /\ [SessionNext]_sessionVars => ModeInv'
<1> SUFFICES ASSUME ModeInv, [SessionNext]_sessionVars PROVE ModeInv'
  OBVIOUS
<1> USE DEF ModeInv
<1>1. CASE UserActs
  BY <1>1, Zenon DEF UserActs, mode
<1>2. CASE SetMode
  BY <1>2, Zenon DEF SetMode
<1>3. CASE EngineActs
  BY <1>3, Zenon DEF EngineActs, mode
<1>4. CASE EngineFails
  BY <1>4, Zenon DEF EngineFails, mode
<1>5. CASE Evaluate
  <2>1. /\ runner = "user" /\ chosen' = training /\ training' = FALSE /\ interactive' = interactive
        /\ \/ runner' = "evaluate" /\ raised' = raised
           \/ runner' = "user" /\ raised' = TRUE
    BY <1>5, Zenon DEF Evaluate
  <2>2. CASE runner' = "evaluate" /\ raised' = raised
    BY <2>1, <2>2, Zenon
  <2>3. CASE runner' = "user" /\ raised' = TRUE
    BY <2>1, <2>3, Zenon
  <2> QED
    BY <2>1, <2>2, <2>3, Zenon
<1>6. CASE EvaluateInterrupted
  BY <1>6, Zenon DEF EvaluateInterrupted, Restored
<1>7. CASE EvaluatePolicy
  BY <1>7, Zenon DEF EvaluatePolicy, mode
<1>8. CASE EvaluateReturns
  BY <1>8, Zenon DEF EvaluateReturns, Restored
<1>9. CASE Play
  BY <1>9, Zenon DEF Play
<1>10. CASE PlayInterrupted
  BY <1>10, Zenon DEF PlayInterrupted, mode
<1>11. CASE CallStep \/ SkipCall \/ ReadKeys
  <2>1. KeepsMode
    BY <1>11, Zenon DEF CallStep, SkipCall, ReadKeys, mode, KeepsMode
  <2> QED
    BY <2>1, ModeKept, Zenon
<1>12. CASE PlayReturns
  BY <1>12, Zenon DEF PlayReturns, Restored
<1>13. CASE \E key \in {Exit, Pause, Arrow, CtrlC} : Press(key)
  <2>1. KeepsMode
    BY <1>13, Zenon DEF Press, mode, KeepsMode
  <2> QED
    BY <2>1, ModeKept, Zenon
<1>14. CASE UNCHANGED sessionVars
  BY <1>14, Zenon DEF sessionVars, mode
<1> QED
  BY <1>1, <1>2, <1>3, <1>4, <1>5, <1>6, <1>7, <1>8, <1>9, <1>10, <1>11, <1>12, <1>13, <1>14, Zenon
     DEF SessionNext, Evaluation, Interaction

\* The mode is the one the user chose, whatever ran the episodes in between (train, eval,
\* evaluate and play_interactive of the environment).
THEOREM ModeOfTheUser == SessionSpec => []ModeIsRestored
<1>1. ModeInv => ModeIsRestored
  BY Zenon DEF ModeInv, ModeIsRestored
<1> QED
  BY <1>1, ModeInit, ModeStep, PTL DEF SessionSpec

---------------------------------------------------------------------------
(* What is set up for an episode.                                          *)

SetUpInv ==
    /\ episode \in Nat
    /\ drawn.flexibility = 1 .. episode
    /\ running => SetUpOfEpisode

\* What a reset leaves in the engine, whether or not it starts.
Prepared ==
    /\ episode' = episode + 1
    /\ forces' = {episode'} \X Impulses
    /\ drawn' = [friction |-> {episode'}, delays |-> {episode'},
                 flexibility |-> drawn.flexibility \cup {episode'}]

KeepsWorld ==
    /\ episode' = episode /\ forces' = forces /\ drawn' = drawn
    /\ running' => running

LEMMA PrepareSetsUp == ASSUME NEW top, Prepare(top) PROVE Prepared
BY Zenon DEF Prepare, Prepared, RemoveAllForces, RegisterForces, Randomized

LEMMA OneMore == ASSUME NEW n \in Nat PROVE 1 .. (n + 1) = (1 .. n) \cup {n + 1}
BY SMT

LEMMA SetUpByReset == ASSUME SetUpInv, Prepared PROVE SetUpInv'
<1>1. episode' \in Nat
  BY SMT DEF SetUpInv, Prepared
<1>2. drawn'.flexibility = drawn.flexibility \cup {episode'}
  BY Zenon DEF Prepared
<1>3. drawn'.flexibility = 1 .. episode'
  BY <1>2, OneMore, Zenon DEF SetUpInv, Prepared
<1>4. drawn' = [friction |-> {episode'}, delays |-> {episode'}, flexibility |-> 1 .. episode']
  BY <1>3, <1>2, Zenon DEF Prepared
<1> QED
  BY <1>1, <1>3, <1>4, Zenon DEF SetUpInv, SetUpOfEpisode, Prepared

LEMMA SetUpKept == ASSUME SetUpInv, KeepsWorld PROVE SetUpInv'
BY Zenon DEF SetUpInv, KeepsWorld, SetUpOfEpisode

LEMMA SetUpInit == SessionInit => SetUpInv
<1> SUFFICES ASSUME SessionInit PROVE SetUpInv
  OBVIOUS
<1>1. episode = 0 /\ drawn.flexibility = {} /\ running = FALSE
  BY Zenon DEF SessionInit, Init
<1>2. 1 .. 0 = {}
  BY SMT
<1> QED
  BY <1>1, <1>2, SMT DEF SetUpInv

LEMMA EngineKeeps == ASSUME EngineActs \/ EngineFails PROVE KeepsWorld
<1>1. CASE Iterate
  <2>1. running' = running /\ UNCHANGED world
    BY <1>1, Zenon DEF Iterate
  <2> QED
    BY <2>1, Zenon DEF world, KeepsWorld
<1>2. CASE EndStep
  <2>1. running' = running /\ UNCHANGED world
    BY <1>2, Zenon DEF EndStep
  <2> QED
    BY <2>1, Zenon DEF world, KeepsWorld
<1>3. CASE StepFails
  <2>1. running' = FALSE /\ UNCHANGED world
    BY <1>3, Zenon DEF StepFails
  <2> QED
    BY <2>1, Zenon DEF world, KeepsWorld
<1> QED
  BY <1>1, <1>2, <1>3, Zenon DEF EngineActs, EngineFails

LEMMA StepKeeps == ASSUME NEW l, BeginStep(l) PROVE KeepsWorld
BY Zenon DEF BeginStep, world, KeepsWorld

LEMMA StopKeeps == ASSUME StopSimulation PROVE KeepsWorld
BY Zenon DEF StopSimulation, world, KeepsWorld

LEMMA ResetSetsUp == ASSUME NEW l, Reset(l) \/ ResetFails(l) PROVE Prepared
BY PrepareSetsUp, Zenon DEF Reset, ResetFails

LEMMA VarsKeep == ASSUME UNCHANGED vars PROVE KeepsWorld
BY Zenon DEF vars, world, KeepsWorld

LEMMA SetUpStep == SetUpInv /\ [SessionNext]_sessionVars => SetUpInv'
<1> SUFFICES ASSUME SetUpInv, [SessionNext]_sessionVars PROVE SetUpInv'
  OBVIOUS
<1>1. CASE UserActs
  BY <1>1, ResetSetsUp, StepKeeps, StopKeeps, SetUpByReset, SetUpKept, Zenon DEF UserActs
<1>2. CASE SetMode
  BY <1>2, VarsKeep, SetUpKept, Zenon DEF SetMode
<1>3. CASE EngineActs \/ EngineFails
  BY <1>3, EngineKeeps, SetUpKept, Zenon
<1>4. CASE Evaluate
  BY <1>4, ResetSetsUp, SetUpByReset, Zenon DEF Evaluate
<1>5. CASE EvaluateInterrupted
  BY <1>5, VarsKeep, StopKeeps, SetUpKept, Zenon DEF EvaluateInterrupted, ReplayEpisode
<1>6. CASE Evaluation
  BY <1>6, StepKeeps, StopKeeps, SetUpKept, Zenon DEF Evaluation, EvaluatePolicy, EvaluateReturns
<1>7. CASE Play
  BY <1>7, ResetSetsUp, SetUpByReset, Zenon DEF Play
<1>8. CASE PlayInterrupted
  BY <1>8, VarsKeep, SetUpKept, Zenon DEF PlayInterrupted
<1>9. CASE Interaction
  BY <1>9, StepKeeps, StopKeeps, VarsKeep, SetUpKept, Zenon
     DEF Interaction, CallStep, SkipCall, ReadKeys, PlayReturns
<1>10. CASE \E key \in {Exit, Pause, Arrow, CtrlC} : Press(key)
  BY <1>10, VarsKeep, SetUpKept, Zenon DEF Press
<1>11. CASE UNCHANGED sessionVars
  BY <1>11, VarsKeep, SetUpKept, Zenon DEF sessionVars
<1> QED
  BY <1>1, <1>2, <1>3, <1>4, <1>5, <1>6, <1>7, <1>8, <1>9, <1>10, <1>11, Zenon DEF SessionNext

\* A simulation only has the forces and the options that its own episode drew, the
\* flexibility excepted (reset of the environment and _setup of a walker).
THEOREM SetUpIsOfEpisode == SessionSpec => []SetUpOfEpisode
<1>1. SetUpInv => SetUpOfEpisode
  BY Zenon DEF SetUpInv, SetUpOfEpisode
<1> QED
  BY <1>1, SetUpInit, SetUpStep, PTL DEF SessionSpec

---------------------------------------------------------------------------
(* What a policy remembers.                                                *)

\* The clock of a step under way, which a call that has not begun one does not have.
ClockInv == t \in Int /\ tEnd \in Int \cup {None}

\* Once an episode has given a reward, or while its first step is under way, the policy has
\* been called in it.
MemoryInv ==
    /\ ClockInv
    /\ (runner = "evaluate" /\ (tEnd # None \/ reward # {})) => memory = episode

LEMMA MemoryInit == SessionInit => MemoryInv
BY DEF SessionInit, Init, MemoryInv, ClockInv

LEMMA StepDtIsInt == StepDt \in Int /\ ControlDt \in Nat \ {0}
BY PipelineAssumption

LEMMA MinOfTwoInts ==
    ASSUME NEW a \in Int, NEW b \in Int
    PROVE  Min({a, b}) \in Int
<1>1. \E x \in {a, b} : \A y \in {a, b} : x <= y
  OBVIOUS
<1> QED BY <1>1 DEF Min

LEMMA ResetClock ==
    ASSUME NEW l, Reset(l) \/ ResetFails(l)
    PROVE  ClockInv' /\ tEnd' = None /\ reward' = {}
<1>1. t' = 0 /\ tEnd' = None /\ reward' = {}
  BY Zenon DEF Reset, ResetFails, Prepare
<1> QED BY <1>1 DEF ClockInv

LEMMA StepClock ==
    ASSUME ClockInv, NEW l, BeginStep(l)
    PROVE  ClockInv' /\ tEnd = None /\ reward' = reward /\ episode' = episode
BY StepDtIsInt DEF BeginStep, ClockInv, steps, world

LEMMA StopClock ==
    ASSUME ClockInv, StopSimulation
    PROVE  ClockInv' /\ tEnd' = tEnd /\ reward' = reward /\ episode' = episode
BY DEF StopSimulation, ClockInv, steps, world

LEMMA VarsClock ==
    ASSUME ClockInv, UNCHANGED vars
    PROVE  ClockInv' /\ tEnd' = tEnd /\ reward' = reward /\ episode' = episode
BY DEF vars, ClockInv, steps, world

\* The engine only goes on with a step that is under way.
LEMMA EngineClock ==
    ASSUME ClockInv, Iterate \/ EndStep \/ StepFails
    PROVE  ClockInv' /\ tEnd # None /\ episode' = episode
<1>1. CASE Iterate
  <2>1. t + ControlDt - (t % ControlDt) \in Int /\ tEnd \in Int
    BY <1>1, StepDtIsInt DEF Iterate, ClockInv
  <2>2. t' \in Int
    BY <1>1, <2>1, MinOfTwoInts DEF Iterate
  <2> QED BY <1>1, <2>2 DEF Iterate, ClockInv, world
<1>2. CASE EndStep
  BY <1>2, PipelineAssumption DEF EndStep, ClockInv, world
<1>3. CASE StepFails
  BY <1>3 DEF StepFails, ClockInv, world
<1> QED BY <1>1, <1>2, <1>3

LEMMA MemoryStep == MemoryInv /\ [SessionNext]_sessionVars => MemoryInv'
<1> SUFFICES ASSUME MemoryInv, [SessionNext]_sessionVars PROVE MemoryInv'
  OBVIOUS
<1> ClockInv
  BY DEF MemoryInv
<1>1. CASE UserActs
  <2>1. ClockInv' /\ runner' = runner /\ runner = "user"
    BY <1>1, ResetClock, StepClock, StopClock, Zenon DEF UserActs
  <2> QED BY <2>1 DEF MemoryInv
<1>2. CASE SetMode
  BY <1>2, VarsClock DEF SetMode, MemoryInv
<1>3. CASE EngineActs
  <2>1. /\ ClockInv' /\ tEnd # None /\ episode' = episode
        /\ runner' = runner /\ memory' = memory
    BY <1>3, EngineClock, Zenon DEF EngineActs
  <2> QED BY <2>1 DEF MemoryInv
<1>4. CASE EngineFails
  <2>1. ClockInv' /\ (runner' = runner \/ runner' = "user") /\ runner' # "evaluate"
    BY <1>4, EngineClock DEF EngineFails
  <2> QED BY <2>1 DEF MemoryInv
<1>5. CASE Evaluate
  <2>1. ClockInv' /\ tEnd' = None /\ reward' = {}
    BY <1>5, ResetClock, Zenon DEF Evaluate
  <2> QED BY <2>1 DEF MemoryInv
<1>6. CASE EvaluateInterrupted
  <2>1. ClockInv' /\ runner' = "user"
    BY <1>6, VarsClock, StopClock, Zenon DEF EvaluateInterrupted, ReplayEpisode
  <2> QED BY <2>1 DEF MemoryInv
<1>7. CASE EvaluatePolicy
  <2>1. ClockInv' /\ reward' = reward /\ episode' = episode /\ runner = "evaluate"
    BY <1>7, StepClock, Zenon DEF EvaluatePolicy
  <2>2. memory' = IF reward = {} \/ memory = 0 THEN episode ELSE memory
    BY <1>7 DEF EvaluatePolicy, Remembered
  <2> QED BY <2>1, <2>2 DEF MemoryInv
<1>8. CASE EvaluateReturns
  <2>1. ClockInv' /\ runner' = "user"
    BY <1>8, StopClock, Zenon DEF EvaluateReturns
  <2> QED BY <2>1 DEF MemoryInv
<1>9. CASE Play
  <2>1. ClockInv' /\ runner' # "evaluate"
    BY <1>9, ResetClock DEF Play
  <2> QED BY <2>1 DEF MemoryInv
<1>10. CASE PlayInterrupted
  BY <1>10, VarsClock DEF PlayInterrupted, MemoryInv
<1>11. CASE CallStep
  BY <1>11, StepClock DEF CallStep, MemoryInv
<1>12. CASE SkipCall \/ ReadKeys
  BY <1>12, VarsClock DEF SkipCall, ReadKeys, MemoryInv
<1>13. CASE PlayReturns
  BY <1>13, StopClock DEF PlayReturns, MemoryInv
<1>14. CASE \E key \in {Exit, Pause, Arrow, CtrlC} : Press(key)
  BY <1>14, VarsClock DEF Press, MemoryInv
<1>15. CASE UNCHANGED sessionVars
  BY <1>15, VarsClock DEF sessionVars, MemoryInv
<1> QED
  BY <1>1, <1>2, <1>3, <1>4, <1>5, <1>6, <1>7, <1>8, <1>9, <1>10, <1>11, <1>12, <1>13, <1>14,
     <1>15, Zenon DEF SessionNext, Evaluation, Interaction

\* A policy acts on what it remembers of its own episode, however the evaluations before it
\* ended: interrupted, cut by their horizon or by an exception (build_policy_wrapper).
THEOREM PolicyForgets == SessionSpec => []MemoryOfEpisode
<1>1. MemoryInv => MemoryOfEpisode
  BY Zenon DEF MemoryInv, MemoryOfEpisode
<1> QED
  BY <1>1, MemoryInit, MemoryStep, PTL DEF SessionSpec

---------------------------------------------------------------------------
(* Breakpoints.                                                            *)

\* The quotient and the remainder are what they are for.
LEMMA Division ==
    ASSUME NEW x \in Nat, NEW d \in Nat \ {0}
    PROVE  x \div d \in Nat /\ x % d \in 0 .. (d - 1) /\ x = (x \div d) * d + (x % d)
<1>1. x \div d \in Int /\ x % d \in 0 .. (d - 1)
  BY SMT
<1>2. x = d * (x \div d) + (x % d)
  BY SMT
<1>3. x \div d >= 0
  BY SMT
<1>4. d * (x \div d) = (x \div d) * d
  BY <1>1, SMT
<1> QED BY <1>1, <1>2, <1>3, <1>4

\* They are determined by that.
LEMMA DivisionIs ==
    ASSUME NEW q \in Nat, NEW d \in Nat \ {0}, NEW r \in 0 .. (d - 1)
    PROVE  (q * d + r) \div d = q /\ (q * d + r) % d = r /\ q * d + r \in Nat
<1> DEFINE x == q * d + r
           p == x \div d
           s == x % d
<1>1. x \in Nat
  <2>1. q * d \in Nat
    BY SMT
  <2> QED BY <2>1
<1>2. p \in Nat /\ s \in 0 .. (d - 1) /\ x = p * d + s
  <2> HIDE DEF x
  <2> QED BY <1>1, Division
<1>3. q * d + r = p * d + s
  BY <1>2
<1> HIDE DEF p, s, x
<1>4. ~(q < p)
  <2> SUFFICES ASSUME q < p PROVE FALSE
    OBVIOUS
  <2>1. (q + 1) * d <= p * d
    BY <1>2, SMT
  <2>2. (q + 1) * d = q * d + d
    BY SMT
  <2>3. q * d \in Int /\ p * d \in Int
    BY <1>2, SMT
  <2> QED BY <1>2, <1>3, <2>1, <2>2, <2>3
<1>5. ~(p < q)
  <2> SUFFICES ASSUME p < q PROVE FALSE
    OBVIOUS
  <2>1. (p + 1) * d <= q * d
    BY <1>2, SMT
  <2>2. (p + 1) * d = p * d + d
    BY <1>2, SMT
  <2>3. q * d \in Int /\ p * d \in Int
    BY <1>2, SMT
  <2> QED BY <1>2, <1>3, <2>1, <2>2, <2>3
<1>6. p = q
  BY <1>2, <1>4, <1>5
<1>7. s = r
  <2>1. q * d \in Int
    BY SMT
  <2> QED BY <1>2, <1>3, <1>6, <2>1
<1> QED BY <1>1, <1>6, <1>7 DEF p, s, x

\* Of multiples of d, the next one of one that divides it is a breakpoint or in its period.
LEMMA MultipleIs ==
    ASSUME NEW x \in Nat, NEW d \in Nat \ {0}, x % d = 0
    PROVE  x = (x \div d) * d /\ x \div d \in Nat
BY Division

\* Multiples.
LEMMA MultipleOf ==
    ASSUME NEW q \in Nat, NEW d \in Nat \ {0}
    PROVE  q * d \in Nat /\ (q * d) % d = 0 /\ (q * d) \div d = q
<1>1. 0 \in 0 .. (d - 1) /\ q * d \in Nat
  BY SMT
<1>2. q * d + 0 = q * d
  BY <1>1
<1> QED BY <1>1, <1>2, DivisionIs

\* A multiple of a multiple is one.
LEMMA MultipleOfMultiple ==
    ASSUME NEW x \in Nat, NEW d \in Nat \ {0}, NEW e \in Nat \ {0}, x % d = 0, d % e = 0
    PROVE  x % e = 0
<1> DEFINE q == x \div d
           p == d \div e
<1>1. x = q * d /\ q \in Nat /\ d = p * e /\ p \in Nat
  BY MultipleIs
<1> HIDE DEF q, p
<1>2. x = (q * p) * e /\ q * p \in Nat
  BY <1>1, SMT
<1> QED BY <1>2, MultipleOf

\* Sums and differences of multiples are multiples.
LEMMA MultiplesAdd ==
    ASSUME NEW x \in Nat, NEW y \in Nat, NEW d \in Nat \ {0}, x % d = 0, y % d = 0
    PROVE  (x + y) % d = 0 /\ (x <= y => (y - x) % d = 0) /\ (x < y => x + d <= y)
<1> DEFINE p == x \div d
           q == y \div d
<1>1. x = p * d /\ p \in Nat /\ y = q * d /\ q \in Nat
  BY MultipleIs
<1> HIDE DEF q, p
<1>2. x + y = (p + q) * d /\ y - x = (q - p) * d
  BY <1>1, SMT
<1>3. (x + y) % d = 0
  BY <1>1, <1>2, MultipleOf
<1>4. ASSUME x <= y PROVE q - p \in Nat
  <2>1. ASSUME q < p PROVE FALSE
    <3>1. (q + 1) * d <= p * d
      BY <1>1, <2>1, SMT
    <3>2. (q + 1) * d = q * d + d
      BY <1>1, SMT
    <3> QED BY <1>1, <1>4, <3>1, <3>2
  <2> QED BY <1>1, <2>1
<1>5. ASSUME x < y PROVE x + d <= y
  <2>1. q - p \in Nat
    BY <1>4, <1>5
  <2>2. q # p
    BY <1>1, <1>5
  <2>3. p + 1 <= q
    BY <1>1, <2>1, <2>2
  <2>4. (p + 1) * d <= q * d
    BY <1>1, <2>3, SMT
  <2>5. (p + 1) * d = p * d + d
    BY <1>1, SMT
  <2> QED BY <1>1, <2>4, <2>5
<1>6. ASSUME x <= y PROVE (y - x) % d = 0
  BY <1>2, <1>4, <1>6, MultipleOf
<1> QED BY <1>3, <1>5, <1>6

\* From one multiple of e to the next, either a period d of it ends or none does.
LEMMA NextMultiple ==
    ASSUME NEW x \in Nat, NEW d \in Nat \ {0}, NEW e \in Nat \ {0}, x % e = 0, d % e = 0
    PROVE  /\ (x + e) % d = 0 => (x + e) \div d = (x \div d) + 1
           /\ (x + e) % d # 0 => /\ (x + e) \div d = x \div d
                                 /\ (x + e) % d = (x % d) + e
<1> DEFINE q == x \div d
           r == x % d
<1>1. q \in Nat /\ r \in 0 .. (d - 1) /\ x = q * d + r
  BY Division
<1>2. q * d \in Nat /\ (q * d) % d = 0 /\ (q * d) % e = 0
  <2> HIDE DEF q, r
  <2>1. q * d \in Nat /\ (q * d) % d = 0
    BY <1>1, MultipleOf
  <2> QED BY <2>1, MultipleOfMultiple
<1>3. r % e = 0
  <2> HIDE DEF q, r
  <2>1. q * d <= x /\ x - q * d = r
    BY <1>1, <1>2
  <2> QED BY <1>2, <2>1, MultiplesAdd
<1>4. r + e <= d
  <2> HIDE DEF q, r
  <2>1. r < d /\ r \in Nat
    BY <1>1
  <2> QED BY <1>3, <2>1, MultiplesAdd
<1>5. CASE r + e = d
  <2> HIDE DEF q, r
  <2>1. x + e = (q + 1) * d
    <3>1. (q + 1) * d = q * d + d
      BY <1>1, SMT
    <3> QED BY <1>1, <1>2, <1>5, <3>1
  <2>2. (x + e) \div d = q + 1 /\ (x + e) % d = 0
    BY <1>1, <2>1, MultipleOf
  <2> QED BY <2>2 DEF q
<1>6. CASE r + e # d
  <2> HIDE DEF q, r
  <2>1. r + e \in 0 .. (d - 1) /\ x + e = q * d + (r + e) /\ r + e # 0
    BY <1>1, <1>2, <1>4, <1>6
  <2>2. (x + e) \div d = q /\ (x + e) % d = r + e
    BY <1>1, <2>1, DivisionIs
  <2> QED BY <2>1, <2>2 DEF q, r
<1> QED BY <1>5, <1>6

\* The last update of period d is a breakpoint of it.
LEMMA LastUpdateIs ==
    ASSUME NEW x \in Nat, NEW d \in Nat \ {0}
    PROVE  /\ LastUpdate(x, d) = (x \div d) * d
           /\ LastUpdate(x, d) \in Nat /\ LastUpdate(x, d) % d = 0
           /\ LastUpdate(x, d) \div d = x \div d
           /\ x % d = 0 => LastUpdate(x, d) = x
<1> DEFINE q == x \div d
<1>1. q \in Nat /\ x % d \in 0 .. (d - 1) /\ x = q * d + (x % d)
  BY Division
<1>2. q * d \in Nat
  <2> HIDE DEF q
  <2> QED BY <1>1, SMT
<1>3. LastUpdate(x, d) = q * d
  <2> HIDE DEF q
  <2> QED BY <1>1, <1>2 DEF LastUpdate
<1>4. x % d = 0 => LastUpdate(x, d) = x
  BY DEF LastUpdate
<1>5. (q * d) % d = 0 /\ (q * d) \div d = q
  <2> HIDE DEF q
  <2> QED BY <1>1, MultipleOf
<1> QED BY <1>2, <1>3, <1>4, <1>5

\* From one multiple of e to the next, the last update of a period d is the new one or that of before.
LEMMA NextLastUpdate ==
    ASSUME NEW x \in Nat, NEW d \in Nat \ {0}, NEW e \in Nat \ {0}, x % e = 0, d % e = 0
    PROVE  /\ (x + e) % d = 0 => LastUpdate(x + e, d) = x + e
           /\ (x + e) % d # 0 => LastUpdate(x + e, d) = LastUpdate(x, d)
<1>1. x + e \in Nat
  OBVIOUS
<1>2. (x + e) % d = 0 => LastUpdate(x + e, d) = x + e
  BY <1>1, LastUpdateIs
<1>3. ASSUME (x + e) % d # 0 PROVE LastUpdate(x + e, d) = LastUpdate(x, d)
  <2>1. (x + e) \div d = x \div d
    BY <1>3, NextMultiple
  <2>2. LastUpdate(x + e, d) = ((x + e) \div d) * d
    BY <1>1, LastUpdateIs
  <2>3. LastUpdate(x, d) = (x \div d) * d
    BY LastUpdateIs
  <2> QED BY <2>1, <2>2, <2>3
<1> QED BY <1>2, <1>3

---------------------------------------------------------------------------
(* Layers, from the lowest to the highest.                                 *)

\* Induction over a set of numbers, from the cardinality of what would be missing.
LEMMA Induction ==
    ASSUME NEW T, 0 \in T, \A n \in Nat : n \in T => n + 1 \in T
    PROVE  \A n \in Nat : n \in T
<1> SUFFICES ASSUME NEW n \in Nat, n \notin T PROVE FALSE
  OBVIOUS
<1> DEFINE U == {k \in 0 .. n : k \notin T}
           V == {k \in 0 .. n - 1 : k \notin T}
           pred == [k \in U |-> k - 1]
<1>1. IsFiniteSet(V) /\ Cardinality(V) \in Nat
  <2>1. IsFiniteSet(0 .. n - 1)
    BY FS_Interval
  <2>2. V \in SUBSET (0 .. n - 1)
    OBVIOUS
  <2> QED
    BY <2>1, <2>2, FS_Subset, FS_CardinalityType
<1>2. U = V \cup {n} /\ n \notin V
  OBVIOUS
<1>3. Cardinality(U) = Cardinality(V) + 1
  BY <1>1, <1>2, FS_AddElement
<1>4. pred \in Injection(U, V)
  <2>1. \A k \in U : k - 1 \in V
    <3> SUFFICES ASSUME NEW k \in U PROVE k - 1 \in V
      OBVIOUS
    <3>1. k \in Nat /\ k # 0 /\ k - 1 \in Nat /\ k = (k - 1) + 1
      OBVIOUS
    <3> QED
      BY <3>1
  <2>2. pred \in [U -> V]
    BY <2>1
  <2>3. \A k, l \in U : pred[k] = pred[l] => k = l
    OBVIOUS
  <2> QED
    BY <2>2, <2>3 DEF Injection, IsInjective
<1>5. Cardinality(U) <= Cardinality(V)
  BY <1>1, <1>4, FS_Injection
<1> QED
  BY <1>1, <1>3, <1>5


\* The constants, one by one.
LEMMA Periods ==
    /\ ControlDt \in Nat \ {0} /\ StepDt \in Nat \ {0} /\ NumStack \in Nat \ {0}
    /\ InitIterations \in Nat \ {0} /\ None \notin Int
BY PipelineAssumption

\* The layers are numbered from the environment to the top; what a block is of is one.
LEMMA LayersAre ==
    /\ Top \in Nat /\ Layers = 0 .. Top /\ Top \in Layers /\ 0 \in Layers
    /\ \A l \in Controllers \cup Observers :
          l \in Layers /\ l # 0 /\ l \in Nat /\ Blocks[l].ratio \in Nat \ {0}
    /\ \A l \in Stacks : l \in Layers /\ l # 0 /\ l \in Nat /\ Blocks[l].ratio \in Nat
    /\ Buffers \subseteq Layers /\ 0 \in Buffers /\ Buffers = {0} \cup Controllers
    /\ Pds \subseteq Controllers
<1>1. Blocks \in Seq([kind : {"observer", "controller", "pd", "stack"}, ratio : Nat])
  BY PipelineAssumption
<1>2. Len(Blocks) \in Nat /\ \A l \in 1 .. Len(Blocks) : Blocks[l].ratio \in Nat
  <2> DEFINE R == [kind : {"observer", "controller", "pd", "stack"}, ratio : Nat]
  <2>1. \A b \in R : b.ratio \in Nat
    OBVIOUS
  <2>2. Blocks \in Seq(R)
    BY <1>1
  <2> HIDE DEF R
  <2>3. Len(Blocks) \in Nat /\ \A l \in 1 .. Len(Blocks) : Blocks[l] \in R
    BY <2>2
  <2> QED BY <2>1, <2>3
<1>3. Top \in Nat /\ Layers = 0 .. Top /\ Top \in Layers /\ 0 \in Layers
  BY <1>2 DEF Top, Layers
<1>4. \A l \in Controllers \cup Observers \cup Stacks :
        l \in Layers /\ l # 0 /\ l \in Nat /\ Blocks[l].ratio \in Nat
  BY <1>2, <1>3 DEF Controllers, Observers, Stacks, IsKind, Layers
<1>5. \A l \in Controllers \cup Observers : Blocks[l].ratio > 0
  BY PipelineAssumption
<1> HIDE DEF Top
<1>6. \A l \in Controllers \cup Observers : Blocks[l].ratio \in Nat \ {0}
  BY <1>4, <1>5
<1>7. Buffers \subseteq Layers /\ 0 \in Buffers /\ Pds \subseteq Controllers
  BY <1>3, <1>4 DEF Buffers, Pds, Controllers, IsKind
<1> QED BY <1>3, <1>4, <1>6, <1>7 DEF Buffers

\* What holds of a buffer once it holds of those above it holds of all of them.
LEMMA FromTheTop ==
    ASSUME NEW P, \A k \in Buffers : (\A j \in Buffers : k < j => j \in P) => k \in P
    PROVE  \A k \in Buffers : k \in P
<1> DEFINE T == {n \in Nat : \A k \in Buffers : Top - k < n => k \in P}
<1>1. \A k \in Buffers : k \in Nat /\ k <= Top /\ Top \in Nat
  BY LayersAre
<1>2. 0 \in T
  BY <1>1
<1>3. ASSUME NEW n \in Nat, n \in T PROVE n + 1 \in T
  <2> SUFFICES ASSUME NEW k \in Buffers, Top - k < n + 1 PROVE k \in P
    OBVIOUS
  <2>1. ASSUME NEW j \in Buffers, k < j PROVE j \in P
    BY <1>1, <1>3, <2>1
  <2> QED BY <2>1
<1> HIDE DEF T
<1>4. \A n \in Nat : n \in T
  BY <1>2, <1>3, Induction
<1>5. ASSUME NEW k \in Buffers PROVE k \in P
  <2>1. Top + 1 \in T /\ Top - k < Top + 1
    BY <1>1, <1>4
  <2> QED BY <2>1 DEF T
<1> QED BY <1>5

\* A set of layers has a lowest one.
LEMMA LowestOf ==
    ASSUME NEW S \in SUBSET Nat, S # {}
    PROVE  Min(S) \in S /\ \A j \in S : Min(S) <= j
<1>1. \E x \in S : \A y \in S : x <= y
  <2> SUFFICES ASSUME \A x \in S : \E y \in S : ~(x <= y) PROVE FALSE
    OBVIOUS
  <2> DEFINE T == {n \in Nat : \A y \in S : y > n}
  <2>1. 0 \in T
    OBVIOUS
  <2>2. ASSUME NEW n \in Nat, n \in T PROVE n + 1 \in T
    <3>1. \A y \in S : n + 1 <= y
      BY <2>2
    <3>2. n + 1 \notin S
      BY <3>1
    <3> QED BY <3>1, <3>2
  <2> HIDE DEF T
  <2>3. \A n \in Nat : n \in T
    BY <2>1, <2>2, Induction
  <2>4. PICK x \in S : TRUE
    OBVIOUS
  <2>5. x \in T
    BY <2>3
  <2> QED BY <2>5 DEF T
<1> QED BY <1>1, Zenon DEF Min

\* The buffer a layer reads is the highest that is not above it.
LEMMA BufferIs ==
    ASSUME NEW l \in Layers
    PROVE  /\ BufferOf(l) \in Buffers /\ BufferOf(l) <= l
           /\ \A j \in Buffers : j <= l => j <= BufferOf(l)
<1> DEFINE S == {n \in Nat : \E k \in Buffers : n = l - k /\ k <= l}
           n == Min(S)
<1>1. l \in Nat /\ \A k \in Buffers : k \in Nat
  BY LayersAre
<1>2. S \in SUBSET Nat /\ l \in S
  BY <1>1, LayersAre
<1>3. n \in S /\ \A j \in S : n <= j
  <2> HIDE DEF S
  <2> QED BY <1>2, LowestOf
<1> HIDE DEF n
<1>4. PICK k \in Buffers : n = l - k /\ k <= l
  BY <1>3
<1>5. \A j \in Buffers : j <= l => j <= k
  <2> SUFFICES ASSUME NEW j \in Buffers, j <= l PROVE j <= k
    OBVIOUS
  <2>1. l - j \in S
    BY <1>1
  <2>2. l - k <= l - j
    BY <1>3, <1>4, <2>1
  <2> QED BY <1>1, <2>2
<1> QED BY <1>4, <1>5, Zenon DEF BufferOf

\* The controllers above a buffer, up to a layer.
AboveOf(k, top) == {l \in Controllers : k < l /\ l <= top}

\* The controller that computes a buffer is the lowest above it.
LEMMA ControllerOf ==
    ASSUME NEW k \in Buffers, NEW c \in Controllers, NEW top \in Layers,
           c <= top, BufferOf(c - 1) = k
    PROVE  k < c /\ c \in AboveOf(k, top) /\ Min(AboveOf(k, top)) = c
<1>1. c \in Nat \ {0} /\ c \in Layers /\ top \in Nat /\ Layers = 0 .. Top /\ Top \in Nat
      /\ AboveOf(k, top) \in SUBSET Nat
  BY LayersAre DEF AboveOf
<1>2. c - 1 \in Layers
  BY <1>1
<1>3. k <= c - 1 /\ k \in Nat /\ \A j \in Buffers : j <= c - 1 => j <= k
  BY <1>2, BufferIs, LayersAre
<1>4. k < c /\ c \in AboveOf(k, top)
  BY <1>1, <1>3 DEF AboveOf
<1>5. Min(AboveOf(k, top)) \in AboveOf(k, top) /\ Min(AboveOf(k, top)) <= c
  BY <1>1, <1>4, LowestOf
<1>6. ASSUME NEW m \in AboveOf(k, top), m <= c PROVE m = c
  <2>1. m \in Controllers /\ m \in Buffers /\ k < m /\ m \in Nat
    BY LayersAre DEF AboveOf
  <2> QED BY <1>1, <1>3, <1>6, <2>1
<1> QED BY <1>4, <1>5, <1>6

\* There are controllers above a buffer exactly if it is not the one the layer reads.
LEMMA AboveIs ==
    ASSUME NEW k \in Buffers, NEW top \in Layers, k <= top
    PROVE  /\ AboveOf(k, top) # {} <=> k < BufferOf(top)
           /\ AboveOf(k, top) # {} =>
                LET c == Min(AboveOf(k, top)) IN
                /\ c \in Controllers /\ c \in Buffers /\ k < c /\ c <= top
                /\ c <= BufferOf(top) /\ BufferOf(top) \in Controllers
           /\ k <= BufferOf(top)
<1>1. AboveOf(k, top) \in SUBSET Nat /\ k \in Nat /\ top \in Nat
      /\ \A c \in AboveOf(k, top) : c \in Controllers /\ c \in Buffers /\ k < c /\ c <= top
  BY LayersAre DEF AboveOf
<1>2. /\ BufferOf(top) \in Buffers /\ BufferOf(top) \in Nat /\ BufferOf(top) <= top
      /\ \A j \in Buffers : j <= top => j <= BufferOf(top)
  BY BufferIs, LayersAre
<1>3. ASSUME k < BufferOf(top) PROVE BufferOf(top) \in AboveOf(k, top) /\ BufferOf(top) \in Controllers
  <2>1. BufferOf(top) # 0
    BY <1>1, <1>2, <1>3
  <2> QED BY <1>2, <1>3, <2>1, LayersAre DEF AboveOf
<1>4. ASSUME AboveOf(k, top) # {}
      PROVE  Min(AboveOf(k, top)) \in AboveOf(k, top) /\ k < BufferOf(top)
  <2>1. Min(AboveOf(k, top)) \in AboveOf(k, top)
    BY <1>1, <1>4, LowestOf
  <2>2. PICK c \in AboveOf(k, top) : TRUE
    BY <1>4
  <2>3. c <= BufferOf(top) /\ k < c /\ c \in Nat
    BY <1>1, <1>2
  <2> QED BY <1>1, <1>2, <2>1, <2>3
<1> QED BY <1>1, <1>2, <1>3, <1>4

---------------------------------------------------------------------------
(* The periods of the layers.                                              *)


\* The period at which a layer is controlled, from that of the layer below.
LEMMA ControlDtDef ==
    ControlDtOf = [l \in Layers |->
        IF l = 0 THEN ControlDt
        ELSE IF l \in Controllers THEN Blocks[l].ratio * ControlDtOf[l - 1] ELSE ControlDtOf[l - 1]]
<1> DEFINE IsF(f, n) ==
             f = [l \in 0 .. n |->
                    IF l = 0 THEN ControlDt
                    ELSE IF l \in Controllers THEN Blocks[l].ratio * f[l - 1] ELSE f[l - 1]]
           T == {n \in Nat : \E f : IsF(f, n)}
<1>1. 0 \in T
  <2> DEFINE f == [l \in 0 .. 0 |-> ControlDt]
  <2>1. IsF(f, 0)
    OBVIOUS
  <2> QED BY <2>1
<1>2. ASSUME NEW n \in Nat, n \in T PROVE n + 1 \in T
  <2>1. PICK f : IsF(f, n)
    BY <1>2
  <2> DEFINE g == [l \in 0 .. n + 1 |->
                     IF l = 0 THEN ControlDt
                     ELSE IF l \in Controllers THEN Blocks[l].ratio * f[l - 1] ELSE f[l - 1]]
  <2>2. \A l \in 0 .. n : g[l] = f[l]
    <3>1. \A l \in 0 .. n : l \in 0 .. n + 1
      OBVIOUS
    <3> QED BY <2>1, <3>1, Zenon
  <2>3. \A l \in 0 .. n + 1 : l # 0 => l - 1 \in 0 .. n
    OBVIOUS
  <2>4. g = [l \in 0 .. n + 1 |->
               IF l = 0 THEN ControlDt
               ELSE IF l \in Controllers THEN Blocks[l].ratio * g[l - 1] ELSE g[l - 1]]
    <3> HIDE DEF IsF
    <3> SUFFICES ASSUME NEW l \in 0 .. n + 1, l # 0 PROVE g[l - 1] = f[l - 1]
      OBVIOUS
    <3> QED BY <2>2, <2>3
  <2> HIDE DEF g
  <2>5. IsF(g, n + 1)
    BY <2>4, Zenon
  <2> QED BY <2>5
<1> HIDE DEF T
<1>3. Top \in T
  BY <1>1, <1>2, Induction, LayersAre
<1>4. \E f : f = [l \in Layers |->
                    IF l = 0 THEN ControlDt
                    ELSE IF l \in Controllers THEN Blocks[l].ratio * f[l - 1] ELSE f[l - 1]]
  BY <1>3, LayersAre DEF T
<1> QED BY <1>4, Zenon DEF ControlDtOf

\* The period at which a layer is observed, from that of the layer below.
LEMMA ObserveDtDef ==
    ObserveDtOf = [l \in Layers |->
        IF l = 0 THEN ControlDt
        ELSE IF l \in Observers THEN Blocks[l].ratio * ObserveDtOf[l - 1] ELSE ObserveDtOf[l - 1]]
<1> DEFINE IsF(f, n) ==
             f = [l \in 0 .. n |->
                    IF l = 0 THEN ControlDt
                    ELSE IF l \in Observers THEN Blocks[l].ratio * f[l - 1] ELSE f[l - 1]]
           T == {n \in Nat : \E f : IsF(f, n)}
<1>1. 0 \in T
  <2> DEFINE f == [l \in 0 .. 0 |-> ControlDt]
  <2>1. IsF(f, 0)
    OBVIOUS
  <2> QED BY <2>1
<1>2. ASSUME NEW n \in Nat, n \in T PROVE n + 1 \in T
  <2>1. PICK f : IsF(f, n)
    BY <1>2
  <2> DEFINE g == [l \in 0 .. n + 1 |->
                     IF l = 0 THEN ControlDt
                     ELSE IF l \in Observers THEN Blocks[l].ratio * f[l - 1] ELSE f[l - 1]]
  <2>2. \A l \in 0 .. n : g[l] = f[l]
    <3>1. \A l \in 0 .. n : l \in 0 .. n + 1
      OBVIOUS
    <3> QED BY <2>1, <3>1, Zenon
  <2>3. \A l \in 0 .. n + 1 : l # 0 => l - 1 \in 0 .. n
    OBVIOUS
  <2>4. g = [l \in 0 .. n + 1 |->
               IF l = 0 THEN ControlDt
               ELSE IF l \in Observers THEN Blocks[l].ratio * g[l - 1] ELSE g[l - 1]]
    <3> HIDE DEF IsF
    <3> SUFFICES ASSUME NEW l \in 0 .. n + 1, l # 0 PROVE g[l - 1] = f[l - 1]
      OBVIOUS
    <3> QED BY <2>2, <2>3
  <2> HIDE DEF g
  <2>5. IsF(g, n + 1)
    BY <2>4, Zenon
  <2> QED BY <2>5
<1> HIDE DEF T
<1>3. Top \in T
  BY <1>1, <1>2, Induction, LayersAre
<1>4. \E f : f = [l \in Layers |->
                    IF l = 0 THEN ControlDt
                    ELSE IF l \in Observers THEN Blocks[l].ratio * f[l - 1] ELSE f[l - 1]]
  BY <1>3, LayersAre DEF T
<1> QED BY <1>4, Zenon DEF ObserveDtOf

\* It is a multiple of that of the engine.
LEMMA ControlDtIs ==
    \A l \in Layers : ControlDtOf[l] \in Nat \ {0} /\ ControlDtOf[l] % ControlDt = 0
<1> DEFINE T == {n \in Nat : n \in Layers =>
                    ControlDtOf[n] \in Nat \ {0} /\ ControlDtOf[n] % ControlDt = 0}
<1>0. ControlDt \in Nat \ {0} /\ ControlDt % ControlDt = 0
  <2>1. 1 * ControlDt = ControlDt /\ ControlDt \in Nat \ {0}
    BY Periods
  <2> QED BY <2>1, MultipleOf
<1>1. 0 \in T
  BY <1>0, ControlDtDef
<1>2. ASSUME NEW n \in Nat, n \in T PROVE n + 1 \in T
  <2> SUFFICES ASSUME n + 1 \in Layers
               PROVE  ControlDtOf[n + 1] \in Nat \ {0} /\ ControlDtOf[n + 1] % ControlDt = 0
    OBVIOUS
  <2> DEFINE below == ControlDtOf[n]
             ratio == Blocks[n + 1].ratio
  <2>1. n \in Layers /\ (n + 1) - 1 = n /\ n + 1 # 0
    BY LayersAre
  <2>2. below \in Nat \ {0} /\ below % ControlDt = 0
    BY <1>2, <2>1
  <2>3. ControlDtOf[n + 1] = IF n + 1 \in Controllers THEN ratio * below ELSE below
    BY <2>1, ControlDtDef
  <2>4. n + 1 \in Controllers => ratio \in Nat \ {0}
    BY LayersAre
  <2> HIDE DEF below, ratio
  <2>5. ASSUME n + 1 \in Controllers
        PROVE  ratio * below \in Nat \ {0} /\ (ratio * below) % ControlDt = 0
    <3>1. ratio * below \in Nat /\ (ratio * below) % below = 0
      BY <2>2, <2>4, <2>5, MultipleOf
    <3>2. ratio * below # 0
      BY <2>2, <2>4, <2>5, SMT
    <3> QED BY <1>0, <2>2, <3>1, <3>2, MultipleOfMultiple
  <2> QED BY <2>2, <2>3, <2>5
<1> HIDE DEF T
<1>3. \A n \in Nat : n \in T
  BY <1>1, <1>2, Induction
<1> QED BY <1>3, LayersAre DEF T

\* It is a multiple of that of the engine.
LEMMA ObserveDtIs ==
    \A l \in Layers : ObserveDtOf[l] \in Nat \ {0} /\ ObserveDtOf[l] % ControlDt = 0
<1> DEFINE T == {n \in Nat : n \in Layers =>
                    ObserveDtOf[n] \in Nat \ {0} /\ ObserveDtOf[n] % ControlDt = 0}
<1>0. ControlDt \in Nat \ {0} /\ ControlDt % ControlDt = 0
  <2>1. 1 * ControlDt = ControlDt /\ ControlDt \in Nat \ {0}
    BY Periods
  <2> QED BY <2>1, MultipleOf
<1>1. 0 \in T
  BY <1>0, ObserveDtDef
<1>2. ASSUME NEW n \in Nat, n \in T PROVE n + 1 \in T
  <2> SUFFICES ASSUME n + 1 \in Layers
               PROVE  ObserveDtOf[n + 1] \in Nat \ {0} /\ ObserveDtOf[n + 1] % ControlDt = 0
    OBVIOUS
  <2> DEFINE below == ObserveDtOf[n]
             ratio == Blocks[n + 1].ratio
  <2>1. n \in Layers /\ (n + 1) - 1 = n /\ n + 1 # 0
    BY LayersAre
  <2>2. below \in Nat \ {0} /\ below % ControlDt = 0
    BY <1>2, <2>1
  <2>3. ObserveDtOf[n + 1] = IF n + 1 \in Observers THEN ratio * below ELSE below
    BY <2>1, ObserveDtDef
  <2>4. n + 1 \in Observers => ratio \in Nat \ {0}
    BY LayersAre
  <2> HIDE DEF below, ratio
  <2>5. ASSUME n + 1 \in Observers
        PROVE  ratio * below \in Nat \ {0} /\ (ratio * below) % ControlDt = 0
    <3>1. ratio * below \in Nat /\ (ratio * below) % below = 0
      BY <2>2, <2>4, <2>5, MultipleOf
    <3>2. ratio * below # 0
      BY <2>2, <2>4, <2>5, SMT
    <3> QED BY <1>0, <2>2, <3>1, <3>2, MultipleOfMultiple
  <2> QED BY <2>2, <2>3, <2>5
<1> HIDE DEF T
<1>3. \A n \in Nat : n \in T
  BY <1>1, <1>2, Induction
<1> QED BY <1>3, LayersAre DEF T

\* The period of a layer is a multiple of those of the layers below.
LEMMA PeriodsGrow ==
    ASSUME NEW k \in Layers, NEW l \in Layers, k <= l
    PROVE  ControlDtOf[l] % ControlDtOf[k] = 0
<1> DEFINE T == {n \in Nat : n \in Layers /\ k <= n => ControlDtOf[n] % ControlDtOf[k] = 0}
<1>1. k \in Nat /\ ControlDtOf[k] \in Nat \ {0} /\ ControlDtOf[k] % ControlDtOf[k] = 0
  <2>1. k \in Nat /\ ControlDtOf[k] \in Nat \ {0}
    BY LayersAre, ControlDtIs
  <2>2. 1 * ControlDtOf[k] = ControlDtOf[k]
    BY <2>1
  <2> QED BY <2>1, <2>2, MultipleOf
<1>2. 0 \in T
  BY <1>1
<1>3. ASSUME NEW n \in Nat, n \in T PROVE n + 1 \in T
  <2> SUFFICES ASSUME n + 1 \in Layers, k <= n + 1
               PROVE  ControlDtOf[n + 1] % ControlDtOf[k] = 0
    OBVIOUS
  <2>1. CASE k = n + 1
    BY <1>1, <2>1
  <2>2. CASE k # n + 1
    <3> DEFINE below == ControlDtOf[n]
               ratio == Blocks[n + 1].ratio
    <3>1. n \in Layers /\ (n + 1) - 1 = n /\ n + 1 # 0 /\ k <= n
      BY <1>1, <2>2, LayersAre
    <3>2. below \in Nat \ {0} /\ below % ControlDtOf[k] = 0
      BY <1>3, <3>1, ControlDtIs
    <3>3. ControlDtOf[n + 1] = IF n + 1 \in Controllers THEN ratio * below ELSE below
      BY <3>1, ControlDtDef
    <3>4. n + 1 \in Controllers => ratio \in Nat \ {0}
      BY LayersAre
    <3> HIDE DEF below, ratio
    <3>5. ASSUME n + 1 \in Controllers PROVE (ratio * below) % ControlDtOf[k] = 0
      <4>1. ratio * below \in Nat /\ (ratio * below) % below = 0
        BY <3>2, <3>4, <3>5, MultipleOf
      <4> QED BY <1>1, <3>2, <4>1, MultipleOfMultiple
    <3> QED BY <3>2, <3>3, <3>5
  <2> QED BY <2>1, <2>2
<1> HIDE DEF T
<1>4. l \in T
  BY <1>2, <1>3, Induction, LayersAre
<1> QED BY <1>4 DEF T

---------------------------------------------------------------------------
(* What the handles leave in the registers.                                *)

RegisterNames == {"refreshed", "observation", "feature", "frames", "nLastStack", "action",
                  "target", "command"}
ActionNames == {"of", "value", "at", "seen"}

\* Two records that differ by their observation only, what is made of it included.
SameButObservation(b, c) ==
    DOMAIN c = DOMAIN b /\ c.action = b.action /\ c.target = b.target /\ c.command = b.command

\* What an observer holds after a refresh at `now'.
FeatureAfter(b, l, now, run, top) ==
    IF l <= top /\ IsBreakpoint(now, ObserveDtOf[l])
    THEN [at |-> now, count |-> IF run THEN b.feature[l].count + 1 ELSE 0] ELSE b.feature[l]

StackedAfter(b, l, now, run, top) ==
    l <= top /\ StackCount(b, l, now, run) = Blocks[l].ratio

FramesAfter(b, l, now, run, top) ==
    IF StackedAfter(b, l, now, run, top) THEN Append(Tail(b.frames[l]), now) ELSE b.frames[l]

CountAfter(b, l, now, run, top) ==
    IF StackedAfter(b, l, now, run, top) THEN -1
    ELSE IF l <= top THEN StackCount(b, l, now, run) ELSE b.nLastStack[l]

\* What a refresh leaves.
RefreshedFrom(c, b, now, run, top) ==
    /\ c.observation = now
    /\ c.feature = [l \in Observers |-> FeatureAfter(b, l, now, run, top)]
    /\ c.frames = [l \in Stacks |-> FramesAfter(b, l, now, run, top)]
    /\ c.nLastStack = [l \in Stacks |-> CountAfter(b, l, now, run, top)]

\* A refresh computes every observation anew, and nothing else.
LEMMA RefreshLeaves ==
    ASSUME NEW b, DOMAIN b = RegisterNames, NEW now, NEW run, NEW top, NEW c,
           c = RefreshObservation(b, now, run, top)
    PROVE  SameButObservation(b, c) /\ RefreshedFrom(c, b, now, run, top)
<1> DEFINE e == [b EXCEPT !.observation = now]
           feat == [l \in Observers |-> FeatureAfter(b, l, now, run, top)]
           frm == [l \in Stacks |-> FramesAfter(b, l, now, run, top)]
           cnt == [l \in Stacks |-> CountAfter(b, l, now, run, top)]
<1>1. /\ DOMAIN e = RegisterNames /\ e.observation = now
      /\ e.refreshed = b.refreshed /\ e.action = b.action /\ e.target = b.target
      /\ e.command = b.command /\ e.feature = b.feature /\ e.frames = b.frames
      /\ e.nLastStack = b.nLastStack
  BY DEF RegisterNames
<1>2. c = [e EXCEPT !.feature = feat, !.frames = frm, !.nLastStack = cnt]
  <2>1. c = [e EXCEPT !.feature = [l \in Observers |->
                         IF l <= top /\ IsBreakpoint(now, ObserveDtOf[l])
                           THEN Estimated(e.feature[l], now, run) ELSE e.feature[l]],
                      !.frames = [l \in Stacks |->
                         IF StackedAfter(b, l, now, run, top)
                           THEN Stacked(e.frames[l], now) ELSE e.frames[l]],
                      !.nLastStack = [l \in Stacks |->
                            IF StackedAfter(b, l, now, run, top) THEN -1
                            ELSE IF l <= top THEN StackCount(b, l, now, run)
                                             ELSE e.nLastStack[l]]]
    BY Zenon DEF RefreshObservation, EnvObservation, StackedAfter
  <2> HIDE DEF e
  <2> QED BY <1>1, <2>1, Zenon DEF FeatureAfter, FramesAfter, CountAfter, Estimated, Stacked
<1> HIDE DEF e, feat, frm, cnt
<1>3. /\ DOMAIN c = RegisterNames /\ c.feature = feat /\ c.frames = frm /\ c.nLastStack = cnt
      /\ c.refreshed = e.refreshed /\ c.action = e.action /\ c.target = e.target
      /\ c.command = e.command /\ c.observation = e.observation
  BY <1>1, <1>2 DEF RegisterNames
<1> QED BY <1>1, <1>3, Zenon DEF SameButObservation, RefreshedFrom, feat, frm, cnt

\* What the handle of the observers leaves.
ObservedFrom(c, b, now, run, top) ==
    /\ SameButObservation(b, c) /\ c.refreshed = run
    /\ b.refreshed => /\ c.observation = b.observation /\ c.feature = b.feature
                      /\ c.frames = b.frames /\ c.nLastStack = b.nLastStack
    /\ ~b.refreshed => RefreshedFrom(c, b, now, run, top)

\* The handle of the observers refreshes the observation unless it is already.
LEMMA ObserverLeaves ==
    ASSUME NEW b, DOMAIN b = RegisterNames, NEW now, NEW run, NEW top, NEW c,
           c = ObserverHandle(b, now, run, top)
    PROVE  ObservedFrom(c, b, now, run, top)
<1> DEFINE e == IF b.refreshed THEN b ELSE RefreshObservation(b, now, run, top)
<1>1. c = [e EXCEPT !.refreshed = run]
  BY Zenon DEF ObserverHandle
<1>2. /\ SameButObservation(b, e)
      /\ b.refreshed => e = b
      /\ ~b.refreshed => RefreshedFrom(e, b, now, run, top)
  <2>1. CASE b.refreshed
    BY <2>1, Zenon DEF SameButObservation
  <2>2. CASE ~b.refreshed
    <3>1. e = RefreshObservation(b, now, run, top)
      BY <2>2, Zenon
    <3> HIDE DEF e
    <3>2. SameButObservation(b, e) /\ RefreshedFrom(e, b, now, run, top)
      BY <3>1, RefreshLeaves
    <3> QED BY <2>2, <3>2, Zenon
  <2> QED BY <2>1, <2>2, Zenon
<1> HIDE DEF e
<1>3. DOMAIN e = RegisterNames
  BY <1>2, Zenon DEF SameButObservation
<1>4. /\ DOMAIN c = RegisterNames /\ c.refreshed = run /\ c.observation = e.observation
      /\ c.feature = e.feature /\ c.frames = e.frames /\ c.nLastStack = e.nLastStack
      /\ c.action = e.action /\ c.target = e.target /\ c.command = e.command
  BY <1>1, <1>3 DEF RegisterNames
<1> QED BY <1>2, <1>4, Zenon DEF SameButObservation, ObservedFrom, RefreshedFrom

---------------------------------------------------------------------------
(* The actions, from the highest controller to the lowest.                 *)

\* The action of a buffer, from those of the buffers above.
NextAction(f, k, b, now, run, top) ==
    IF AboveOf(k, top) = {} THEN b.action[k]
    ELSE IF ~IsBreakpoint(now, ControlDtOf[Min(AboveOf(k, top))]) THEN b.action[k]
    ELSE IF Min(AboveOf(k, top)) \in Pds /\ ~run
           THEN [NullAction EXCEPT !.at = now, !.seen = b.observation]
           ELSE [f[Min(AboveOf(k, top))] EXCEPT !.at = now, !.seen = b.observation]

IsComputed(f, b, now, run, top) == f = [k \in Buffers |-> NextAction(f, k, b, now, run, top)]

\* There are such actions.
LEMMA NextActions ==
    ASSUME NEW b, NEW now, NEW run, NEW top \in Layers
    PROVE  \E f : IsComputed(f, b, now, run, top)
<1> DEFINE Part(n) == {k \in Buffers : Top - k < n}
           IsF(f, n) == f = [k \in Part(n) |-> NextAction(f, k, b, now, run, top)]
           T == {n \in Nat : \E f : IsF(f, n)}
<1>0. \A k \in Buffers : k \in Nat /\ k <= Top /\ Top \in Nat
  BY LayersAre
<1>1. 0 \in T
  <2>1. Part(0) = {}
    BY <1>0
  <2> DEFINE f == [k \in {} |-> 0]
  <2>2. f = [k \in {} |-> NextAction(f, k, b, now, run, top)]
    OBVIOUS
  <2> HIDE DEF f
  <2>3. IsF(f, 0)
    BY <2>1, <2>2, Zenon
  <2> QED BY <2>3
<1>2. ASSUME NEW n \in Nat, n \in T PROVE n + 1 \in T
  <2>1. PICK f : IsF(f, n)
    BY <1>2
  <2> DEFINE g == [k \in Part(n + 1) |-> NextAction(f, k, b, now, run, top)]
  <2>2. \A k \in Part(n) : k \in Part(n + 1)
    BY <1>0
  <2>3. \A k \in Part(n) : g[k] = f[k]
    <3> HIDE DEF Part
    <3> QED BY <2>1, <2>2, Zenon
  <2>4. \A k \in Part(n + 1) : AboveOf(k, top) # {} => Min(AboveOf(k, top)) \in Part(n)
    <3> SUFFICES ASSUME NEW k \in Part(n + 1), AboveOf(k, top) # {}
                 PROVE  Min(AboveOf(k, top)) \in Part(n)
      OBVIOUS
    <3>1. AboveOf(k, top) \in SUBSET Nat
      BY LayersAre DEF AboveOf
    <3>2. Min(AboveOf(k, top)) \in AboveOf(k, top)
      BY <3>1, LowestOf
    <3> HIDE DEF Part
    <3>3. \A c \in AboveOf(k, top) : c \in Buffers /\ k < c
      BY LayersAre DEF AboveOf
    <3> QED BY <1>0, <3>2, <3>3 DEF Part
  <2>5. \A k \in Part(n + 1) :
          NextAction(f, k, b, now, run, top) = NextAction(g, k, b, now, run, top)
    <3> HIDE DEF Part, g
    <3> QED BY <2>3, <2>4, Zenon DEF NextAction
  <2>6. g = [k \in Part(n + 1) |-> NextAction(g, k, b, now, run, top)]
    <3> HIDE DEF Part
    <3> QED BY <2>5, Zenon
  <2> HIDE DEF g
  <2>7. IsF(g, n + 1)
    BY <2>6, Zenon
  <2> QED BY <2>7
<1> HIDE DEF T
<1>3. Top + 1 \in T
  BY <1>0, <1>1, <1>2, Induction, LayersAre
<1>4. Part(Top + 1) = Buffers
  BY <1>0
<1> HIDE DEF Part
<1> QED BY <1>3, <1>4, Zenon DEF T, IsComputed

\* What the controllers compute.
ControlledFrom(c, b, now, run, top) ==
    /\ DOMAIN c = RegisterNames
    /\ c.refreshed = b.refreshed /\ c.observation = b.observation
    /\ c.feature = b.feature /\ c.frames = b.frames /\ c.nLastStack = b.nLastStack
    /\ IsComputed(c.action, b, now, run, top)
    /\ c.command = [c.action[0] EXCEPT !.at = now, !.seen = b.observation]

\* They compute that.
LEMMA ControllersLeave ==
    ASSUME NEW b, DOMAIN b = RegisterNames, NEW now, NEW run, NEW top \in Layers,
           NEW measured, NEW c, c = ComputeCommand(b, now, run, top, measured)
    PROVE  ControlledFrom(c, b, now, run, top)
<1>0. \E f : f = [k \in Buffers |-> NextAction(f, k, b, now, run, top)]
  <2>1. \E f : IsComputed(f, b, now, run, top)
    BY NextActions, Zenon
  <2> QED BY <2>1, Zenon DEF IsComputed
<1> DEFINE Is(f) == f = [k \in Buffers |-> NextAction(f, k, b, now, run, top)]
           next == CHOOSE f : Is(f)
           tgt == [l \in Pds |->
                     IF l <= top /\ IsBreakpoint(now, ControlDtOf[l])
                       THEN NextTarget(b.target[l], next[l].value, l, run, measured)
                       ELSE b.target[l]]
           cmd == [next[0] EXCEPT !.at = now, !.seen = b.observation]
<1>1. Is(next)
  <2>1. \E f : Is(f)
    BY <1>0, Zenon
  <2> HIDE DEF Is
  <2> QED BY <2>1, Zenon
<1>2. c = [b EXCEPT !.action = next, !.target = tgt, !.command = cmd]
  BY Zenon DEF ComputeCommand, NextAction, AboveOf
<1> HIDE DEF next, tgt, cmd
<1>3. /\ DOMAIN c = RegisterNames
      /\ c.refreshed = b.refreshed /\ c.observation = b.observation
      /\ c.feature = b.feature /\ c.frames = b.frames /\ c.nLastStack = b.nLastStack
      /\ c.action = next /\ c.command = cmd
  BY <1>2 DEF RegisterNames
<1> QED BY <1>1, <1>3, Zenon DEF cmd, ControlledFrom, IsComputed

\* An action in every buffer.
AreActions(a) == DOMAIN a = Buffers /\ \A k \in Buffers : DOMAIN a[k] = ActionNames

\* A buffer that is not the one its layer reads holds what the controller above computed at its
\* last breakpoint, if the command was computed at `at'.
SentAt(a, at, top) ==
    \A k \in Buffers, c \in Controllers :
      (c <= top /\ BufferOf(c - 1) = k) => a[k].at = LastUpdate(at, ControlDtOf[c])

\* From an observation of that very time.
SeenWhenSent(a, top) ==
    \A k \in Buffers, c \in Controllers :
      (c <= top /\ BufferOf(c - 1) = k) => a[k].seen = a[k].at

\* All of them stem from the action of the step under way at the last breakpoint of the highest
\* controller: those below are updated at it as well.
StemFrom(a, e, at, top) ==
    \A k \in Buffers : k < BufferOf(top) =>
        a[k].of = <<e, LastUpdate(at, ControlDtOf[BufferOf(top)]) \div StepDt>>

OfEpisode(a, e, top) ==
    \A k \in Buffers : (k <= top /\ a[k].of # NoAction) => a[k].of[1] = e

\* What the controllers leave in the buffer of the highest layer, and in one below.
ComputedOf(f, b, now, run, top) ==
    /\ \A k \in Buffers : AboveOf(k, top) = {} => f[k] = b.action[k]
    /\ \A k \in Buffers, c \in Controllers :
         (AboveOf(k, top) # {} /\ c = Min(AboveOf(k, top))) =>
            /\ ~IsBreakpoint(now, ControlDtOf[c]) => f[k] = b.action[k]
            /\ IsBreakpoint(now, ControlDtOf[c]) =>
                 /\ f[k].at = now /\ f[k].seen = b.observation
                 /\ f[k].of \in {f[c].of, NoAction} /\ (run => f[k].of = f[c].of)

\* They leave that.
LEMMA ComputedActions ==
    ASSUME NEW b, AreActions(b.action), NEW now, NEW run, NEW top \in Layers,
           NEW f, IsComputed(f, b, now, run, top)
    PROVE  AreActions(f) /\ ComputedOf(f, b, now, run, top)
<1>1. DOMAIN f = Buffers /\ \A k \in Buffers : f[k] = NextAction(f, k, b, now, run, top)
  BY Zenon DEF IsComputed
<1> DEFINE P == {k \in Buffers : DOMAIN f[k] = ActionNames}
<1>2. ASSUME NEW k \in Buffers, \A j \in Buffers : k < j => j \in P PROVE k \in P
  <2>1. AboveOf(k, top) # {} =>
          Min(AboveOf(k, top)) \in Buffers /\ k < Min(AboveOf(k, top))
    <3> SUFFICES ASSUME AboveOf(k, top) # {}
                 PROVE  Min(AboveOf(k, top)) \in Buffers /\ k < Min(AboveOf(k, top))
      OBVIOUS
    <3>1. AboveOf(k, top) \in SUBSET Nat
          /\ \A c \in AboveOf(k, top) : c \in Buffers /\ k < c
      BY LayersAre DEF AboveOf
    <3> QED BY <3>1, LowestOf
  <2> DEFINE c == Min(AboveOf(k, top))
  <2>2. DOMAIN NullAction = ActionNames
    BY DEF NullAction, ActionNames
  <2>3. AboveOf(k, top) # {} => DOMAIN f[c] = ActionNames
    BY <1>2, <2>1
  <2> HIDE DEF c
  <2>4. DOMAIN NextAction(f, k, b, now, run, top) = ActionNames
    BY <2>2, <2>3, Zenon DEF NextAction, AreActions, c
  <2> QED BY <1>1, <2>4
<1>3. \A k \in Buffers : k \in P
  <2> HIDE DEF P
  <2> QED BY <1>2, FromTheTop
<1>4. AreActions(f)
  BY <1>1, <1>3 DEF AreActions
<1>5. \A k \in Buffers : AboveOf(k, top) = {} => f[k] = b.action[k]
  BY <1>1, Zenon DEF NextAction
<1>6. ASSUME NEW k \in Buffers, AboveOf(k, top) # {}, NEW c, c = Min(AboveOf(k, top))
      PROVE  /\ ~IsBreakpoint(now, ControlDtOf[c]) => f[k] = b.action[k]
             /\ IsBreakpoint(now, ControlDtOf[c]) =>
                     /\ f[k].at = now /\ f[k].seen = b.observation
                     /\ f[k].of \in {f[c].of, NoAction} /\ (run => f[k].of = f[c].of)
  <2>1. c \in Buffers
    <3>1. AboveOf(k, top) \in SUBSET Nat
          /\ \A d \in AboveOf(k, top) : d \in Buffers
      BY LayersAre DEF AboveOf
    <3> QED BY <1>6, <3>1, LowestOf
  <2>2. DOMAIN f[c] = ActionNames /\ DOMAIN NullAction = ActionNames
    BY <1>4, <2>1 DEF AreActions, NullAction, ActionNames
  <2>3. NullAction.of = NoAction
    BY DEF NullAction
  <2> HIDE DEF P
  <2>4. ASSUME ~IsBreakpoint(now, ControlDtOf[c]) PROVE f[k] = b.action[k]
    BY <1>1, <1>6, <2>4, Zenon DEF NextAction
  <2>5. ASSUME IsBreakpoint(now, ControlDtOf[c])
        PROVE  /\ f[k].at = now /\ f[k].seen = b.observation
               /\ f[k].of \in {f[c].of, NoAction} /\ (run => f[k].of = f[c].of)
    <3>1. f[k] = IF c \in Pds /\ ~run
                   THEN [NullAction EXCEPT !.at = now, !.seen = b.observation]
                   ELSE [f[c] EXCEPT !.at = now, !.seen = b.observation]
      BY <1>1, <1>6, <2>5, Zenon DEF NextAction
    <3>2. ASSUME NEW g, DOMAIN g = ActionNames, NEW h,
                 h = [g EXCEPT !.at = now, !.seen = b.observation]
          PROVE  h.at = now /\ h.seen = b.observation /\ h.of = g.of
      BY <3>2 DEF ActionNames
    <3>3. CASE c \in Pds /\ ~run
      <4>1. f[k] = [NullAction EXCEPT !.at = now, !.seen = b.observation]
        BY <3>1, <3>3, Zenon
      <4> QED BY <2>2, <2>3, <3>2, <3>3, <4>1, Zenon
    <3>4. CASE ~(c \in Pds /\ ~run)
      <4>1. f[k] = [f[c] EXCEPT !.at = now, !.seen = b.observation]
        BY <3>1, <3>4, Zenon
      <4> QED BY <2>2, <3>2, <4>1, Zenon
    <3> QED BY <3>3, <3>4, Zenon
  <2> QED BY <2>4, <2>5, Zenon
<1> QED BY <1>4, <1>5, <1>6, Zenon DEF ComputedOf

\* Nothing is sent but what was there, or nothing.
LEMMA SentWasThere ==
    ASSUME NEW b, AreActions(b.action), NEW now, NEW run, NEW top \in Layers,
           NEW f, IsComputed(f, b, now, run, top), NEW S, NoAction \in S,
           \A k \in Buffers : k <= top => b.action[k].of \in S
    PROVE  \A k \in Buffers : k <= top => f[k].of \in S
<1>0. ComputedOf(f, b, now, run, top)
  BY ComputedActions
<1> DEFINE P == {k \in Buffers : k <= top => f[k].of \in S}
<1>1. ASSUME NEW k \in Buffers, \A j \in Buffers : k < j => j \in P PROVE k \in P
  <2> SUFFICES ASSUME k <= top PROVE f[k].of \in S
    OBVIOUS
  <2>1. CASE AboveOf(k, top) = {}
    BY <1>0, <2>1, Zenon DEF ComputedOf
  <2>2. CASE AboveOf(k, top) # {}
    <3> DEFINE c == Min(AboveOf(k, top))
    <3>1. c \in Buffers /\ c \in Controllers /\ k < c /\ c <= top
      BY <2>2, AboveIs
    <3>2. f[c].of \in S
      BY <1>1, <3>1
    <3>3. \/ f[k] = b.action[k]
          \/ f[k].of \in {f[c].of, NoAction}
      <4> HIDE DEF c, P
      <4> QED BY <1>0, <2>2, <3>1, Zenon DEF ComputedOf, c
    <3> QED BY <3>2, <3>3
  <2> QED BY <2>1, <2>2
<1> HIDE DEF P
<1>2. \A k \in Buffers : k \in P
  BY <1>1, FromTheTop
<1> QED BY <1>2 DEF P

\* Not at a breakpoint, the last one is that of the control period before.
LEMMA NotYet ==
    ASSUME NEW now \in Nat, now % ControlDt = 0, NEW d \in Nat \ {0}, d % ControlDt = 0,
           now % d # 0
    PROVE  now > 0 /\ now - ControlDt \in Nat /\ LastUpdate(now, d) = LastUpdate(now - ControlDt, d)
<1>1. ControlDt \in Nat \ {0}
  BY Periods
<1>2. now # 0
  <2>1. 0 * d = 0 /\ 0 \in Nat
    OBVIOUS
  <2>2. 0 % d = 0
    BY <2>1, MultipleOf
  <2> QED BY <2>2
<1> DEFINE x == now - ControlDt
<1>3. x \in Nat /\ x % ControlDt = 0 /\ x + ControlDt = now
  <2>1. 0 % ControlDt = 0 /\ ControlDt % ControlDt = 0
    BY <1>1, SMT
  <2>2. 0 + ControlDt <= now
    BY <1>1, <1>2, <2>1, MultiplesAdd
  <2> QED BY <1>1, <2>1, <2>2, MultiplesAdd
<1> HIDE DEF x
<1>4. (x + ControlDt) % d # 0
  BY <1>3
<1>5. LastUpdate(x + ControlDt, d) = LastUpdate(x, d)
  BY <1>1, <1>3, <1>4, NextLastUpdate
<1> QED BY <1>2, <1>3, <1>5 DEF x

\* A buffer holds what was computed at the last breakpoint of the controller above it.
LEMMA SentOnTime ==
    ASSUME NEW b, AreActions(b.action), NEW now \in Nat, now % ControlDt = 0, NEW run,
           NEW top \in Layers, NEW f, IsComputed(f, b, now, run, top),
           now > 0 => SentAt(b.action, now - ControlDt, top)
    PROVE  /\ SentAt(f, now, top)
           /\ (b.observation = now /\ (now > 0 => SeenWhenSent(b.action, top)))
                => SeenWhenSent(f, top)
<1>0. ComputedOf(f, b, now, run, top)
  BY ComputedActions
<1>1. ASSUME NEW k \in Buffers, NEW c \in Controllers, c <= top, BufferOf(c - 1) = k
      PROVE  /\ f[k].at = LastUpdate(now, ControlDtOf[c])
             /\ (b.observation = now /\ (now > 0 => SeenWhenSent(b.action, top)))
                  => f[k].seen = f[k].at
  <2>1. AboveOf(k, top) # {} /\ Min(AboveOf(k, top)) = c
    BY <1>1, ControllerOf
  <2>2. ControlDtOf[c] \in Nat \ {0} /\ ControlDtOf[c] % ControlDt = 0 /\ ControlDt \in Nat \ {0}
    BY ControlDtIs, LayersAre, Periods
  <2>3. CASE IsBreakpoint(now, ControlDtOf[c])
    <3>1. f[k].at = now /\ f[k].seen = b.observation
      BY <1>0, <2>1, <2>3, Zenon DEF ComputedOf
    <3>2. LastUpdate(now, ControlDtOf[c]) = now
      BY <2>2, <2>3, LastUpdateIs DEF IsBreakpoint
    <3> QED BY <3>1, <3>2, Zenon
  <2>4. CASE ~IsBreakpoint(now, ControlDtOf[c])
    <3>1. f[k] = b.action[k]
      BY <1>0, <2>1, <2>4, Zenon DEF ComputedOf
    <3>2. now % ControlDtOf[c] # 0
      BY <2>4 DEF IsBreakpoint
    <3>3. now > 0 /\ now - ControlDt \in Nat
          /\ LastUpdate(now, ControlDtOf[c]) = LastUpdate(now - ControlDt, ControlDtOf[c])
      BY <2>2, <3>2, NotYet
    <3>5. b.action[k].at = LastUpdate(now - ControlDt, ControlDtOf[c])
      BY <1>1, <3>3 DEF SentAt
    <3>6. SeenWhenSent(b.action, top) => b.action[k].seen = b.action[k].at
      BY <1>1, Zenon DEF SeenWhenSent
    <3> QED BY <3>1, <3>3, <3>5, <3>6, Zenon
  <2> QED BY <2>3, <2>4
<1> QED BY <1>1, Zenon DEF SentAt, SeenWhenSent

\* The action of the step under way goes down to every buffer at the breakpoints of the highest
\* controller, and the buffers keep theirs in between.
LEMMA StemsOnTime ==
    ASSUME NEW b, AreActions(b.action), NEW now \in Nat, now % ControlDt = 0,
           NEW top \in Layers, NEW f, IsComputed(f, b, now, TRUE, top),
           NEW e, BufferOf(top) > 0 => b.action[BufferOf(top)].of = <<e, now \div StepDt>>,
           now > 0 => StemFrom(b.action, e, now - ControlDt, top)
    PROVE  StemFrom(f, e, now, top) /\ f[BufferOf(top)] = b.action[BufferOf(top)]
<1> DEFINE high == BufferOf(top)
           d == ControlDtOf[high]
           was == b.action
<1>0. ComputedOf(f, b, now, TRUE, top)
  BY ComputedActions
<1>1. high \in Buffers /\ high \in Layers /\ high <= top /\ high \in Nat /\ top \in Nat
  BY BufferIs, LayersAre
<1>2. f[high] = was[high]
  <2>1. AboveOf(high, top) = {}
    BY <1>1, AboveIs
  <2> QED BY <1>0, <1>1, <2>1, Zenon DEF ComputedOf
<1>3. d \in Nat \ {0} /\ d % ControlDt = 0
  BY <1>1, ControlDtIs
<1>4. \A k \in Buffers : k \in Nat
  BY LayersAre
<1> HIDE DEF high, d, was
<1>5. ASSUME NEW k \in Buffers, k < high, NEW c, c = Min(AboveOf(k, top))
      PROVE  /\ c \in Controllers /\ c \in Buffers /\ k < c /\ c <= high /\ high > 0
             /\ ~IsBreakpoint(now, ControlDtOf[c]) => f[k] = was[k]
             /\ IsBreakpoint(now, ControlDtOf[c]) => f[k].of = f[c].of
  <2>1. k <= top
    <3>1. k \in Nat /\ high \in Nat /\ top \in Nat /\ k < high /\ high <= top
      BY <1>1, <1>4, <1>5
    <3> QED BY <3>1
  <2>2. AboveOf(k, top) # {} /\ c \in Controllers /\ c \in Buffers /\ k < c /\ c <= high
    BY <1>5, <2>1, AboveIs DEF high
  <2>3. high > 0
    <3>1. k \in Nat /\ high \in Nat /\ k < high
      BY <1>1, <1>4, <1>5
    <3> QED BY <3>1
  <2> QED BY <1>0, <1>5, <2>2, <2>3, Zenon DEF ComputedOf, was
<1>6. CASE now % d = 0
  <2> DEFINE P == {k \in Buffers : (k <= high /\ high > 0) => f[k].of = <<e, now \div StepDt>>}
  <2>1. ASSUME NEW k \in Buffers, \A j \in Buffers : k < j => j \in P PROVE k \in P
    <3> SUFFICES ASSUME k <= high, high > 0 PROVE f[k].of = <<e, now \div StepDt>>
      OBVIOUS
    <3>1. CASE k = high
      BY <1>2, <3>1 DEF high, was
    <3>2. CASE k # high
      <4> DEFINE c == Min(AboveOf(k, top))
      <4>1. k < high
        <5>1. k \in Nat /\ high \in Nat /\ k <= high /\ k # high
          BY <1>1, <1>4, <3>2
        <5> QED BY <5>1
      <4>2. /\ c \in Controllers /\ c \in Buffers /\ k < c /\ c <= high
            /\ IsBreakpoint(now, ControlDtOf[c]) => f[k].of = f[c].of
        BY <1>5, <4>1
      <4>3. c \in Layers /\ ControlDtOf[c] \in Nat \ {0}
        BY <4>2, LayersAre, ControlDtIs
      <4> HIDE DEF c
      <4>4. d % ControlDtOf[c] = 0
        BY <1>1, <4>2, <4>3, PeriodsGrow DEF d
      <4>5. now % ControlDtOf[c] = 0
        BY <1>3, <1>6, <4>3, <4>4, MultipleOfMultiple
      <4>6. f[c].of = <<e, now \div StepDt>>
        BY <2>1, <4>2
      <4> QED BY <4>2, <4>5, <4>6 DEF IsBreakpoint
    <3> QED BY <3>1, <3>2
  <2> HIDE DEF P
  <2>2. \A k \in Buffers : k \in P
    BY <2>1, FromTheTop
  <2>3. LastUpdate(now, d) = now
    BY <1>3, <1>6, LastUpdateIs
  <2>4. ASSUME NEW k \in Buffers, k < high
        PROVE  f[k].of = <<e, LastUpdate(now, d) \div StepDt>>
    <3>1. k <= high /\ high > 0
      BY <1>1, <1>4, <2>4
    <3> QED BY <2>2, <2>3, <3>1 DEF P
  <2>5. StemFrom(f, e, now, top)
    BY <2>4, Zenon DEF StemFrom, d, high
  <2> QED BY <1>2, <2>5, Zenon DEF high, was
<1>7. CASE now % d # 0
  <2> DEFINE u == LastUpdate(now, d) \div StepDt
             P == {k \in Buffers : k < high => f[k].of = <<e, u>>}
  <2>1. now > 0 /\ LastUpdate(now, d) = LastUpdate(now - ControlDt, d)
    BY <1>3, <1>7, NotYet
  <2>2. \A k \in Buffers : k < high => was[k].of = <<e, u>>
    BY <2>1, Zenon DEF StemFrom, high, d, was
  <2> HIDE DEF u
  <2>3. ASSUME NEW k \in Buffers, \A j \in Buffers : k < j => j \in P PROVE k \in P
    <3> SUFFICES ASSUME k < high PROVE f[k].of = <<e, u>>
      OBVIOUS
    <3> DEFINE c == Min(AboveOf(k, top))
    <3>1. /\ c \in Controllers /\ c \in Buffers /\ k < c /\ c <= high
          /\ ~IsBreakpoint(now, ControlDtOf[c]) => f[k] = was[k]
          /\ IsBreakpoint(now, ControlDtOf[c]) => f[k].of = f[c].of
      BY <1>5
    <3> HIDE DEF c
    <3>2. CASE IsBreakpoint(now, ControlDtOf[c])
      <4>1. c # high
        BY <1>7, <3>2 DEF IsBreakpoint, d
      <4>2. c < high
        BY <1>1, <1>4, <3>1, <4>1
      <4> QED BY <2>3, <3>1, <3>2, <4>2
    <3>3. CASE ~IsBreakpoint(now, ControlDtOf[c])
      BY <2>2, <3>1, <3>3
    <3> QED BY <3>2, <3>3
  <2> HIDE DEF P
  <2>4. \A k \in Buffers : k \in P
    BY <2>3, FromTheTop
  <2>5. StemFrom(f, e, now, top)
    BY <2>4, Zenon DEF P, StemFrom, u, d, high
  <2> QED BY <1>2, <2>5, Zenon DEF high, was
<1> QED BY <1>6, <1>7

---------------------------------------------------------------------------
(* When the action of the user was last taken.                             *)

NextTime(f, k, at, top) ==
    IF AboveOf(k, top) = {} THEN at
    ELSE LastUpdate(f[Min(AboveOf(k, top))], ControlDtOf[Min(AboveOf(k, top))])

AreTimes(f, at, top) == f = [k \in Buffers |-> NextTime(f, k, at, top)]

\* There are such times.
LEMMA TimesExist ==
    ASSUME NEW at, NEW top \in Layers
    PROVE  \E f : AreTimes(f, at, top)
<1> DEFINE Part(n) == {k \in Buffers : Top - k < n}
           IsF(f, n) == f = [k \in Part(n) |-> NextTime(f, k, at, top)]
           T == {n \in Nat : \E f : IsF(f, n)}
<1>0. \A k \in Buffers : k \in Nat /\ k <= Top /\ Top \in Nat
  BY LayersAre
<1>1. 0 \in T
  <2>1. Part(0) = {}
    BY <1>0
  <2> DEFINE f == [k \in {} |-> 0]
  <2>2. f = [k \in {} |-> NextTime(f, k, at, top)]
    OBVIOUS
  <2> HIDE DEF f
  <2>3. IsF(f, 0)
    BY <2>1, <2>2, Zenon
  <2> QED BY <2>3
<1>2. ASSUME NEW n \in Nat, n \in T PROVE n + 1 \in T
  <2>1. PICK f : IsF(f, n)
    BY <1>2
  <2> DEFINE g == [k \in Part(n + 1) |-> NextTime(f, k, at, top)]
  <2>2. \A k \in Part(n) : k \in Part(n + 1)
    BY <1>0
  <2>3. \A k \in Part(n) : g[k] = f[k]
    <3> HIDE DEF Part
    <3> QED BY <2>1, <2>2, Zenon
  <2>4. \A k \in Part(n + 1) : AboveOf(k, top) # {} => Min(AboveOf(k, top)) \in Part(n)
    <3> SUFFICES ASSUME NEW k \in Part(n + 1), AboveOf(k, top) # {}
                 PROVE  Min(AboveOf(k, top)) \in Part(n)
      OBVIOUS
    <3>1. AboveOf(k, top) \in SUBSET Nat
      BY LayersAre DEF AboveOf
    <3>2. Min(AboveOf(k, top)) \in AboveOf(k, top)
      BY <3>1, LowestOf
    <3> HIDE DEF Part
    <3>3. \A c \in AboveOf(k, top) : c \in Buffers /\ k < c
      BY LayersAre DEF AboveOf
    <3> QED BY <1>0, <3>2, <3>3 DEF Part
  <2>5. \A k \in Part(n + 1) : NextTime(f, k, at, top) = NextTime(g, k, at, top)
    <3> HIDE DEF Part, g
    <3> QED BY <2>3, <2>4, Zenon DEF NextTime
  <2>6. g = [k \in Part(n + 1) |-> NextTime(g, k, at, top)]
    <3> HIDE DEF Part
    <3> QED BY <2>5, Zenon
  <2> HIDE DEF g
  <2>7. IsF(g, n + 1)
    BY <2>6, Zenon
  <2> QED BY <2>7
<1> HIDE DEF T
<1>3. Top + 1 \in T
  BY <1>0, <1>1, <1>2, Induction, LayersAre
<1>4. Part(Top + 1) = Buffers
  BY <1>0
<1> HIDE DEF Part
<1> QED BY <1>3, <1>4, Zenon DEF T, AreTimes

\* Below the highest controller, it is the last breakpoint of that controller.
LEMMA TimesAre ==
    ASSUME NEW at \in Nat, NEW top \in Layers, NEW f, AreTimes(f, at, top),
           NEW k \in Buffers, k <= top, AboveOf(k, top) # {}
    PROVE  k < BufferOf(top) /\ f[k] = LastUpdate(at, ControlDtOf[BufferOf(top)])
<1> DEFINE high == BufferOf(top)
           d == ControlDtOf[high]
           u == LastUpdate(at, d)
<1>1. high \in Buffers /\ high \in Layers /\ high <= top /\ high \in Nat /\ top \in Nat
  BY BufferIs, LayersAre
<1>2. d \in Nat \ {0} /\ u \in Nat /\ u % d = 0
  <2>1. d \in Nat \ {0}
    BY <1>1, ControlDtIs
  <2> HIDE DEF d
  <2> QED BY <2>1, LastUpdateIs
<1>3. \A j \in Buffers : j \in Nat /\ f[j] = NextTime(f, j, at, top)
  BY LayersAre DEF AreTimes
<1> HIDE DEF high, d, u
<1>4. f[high] = at
  <2>1. AboveOf(high, top) = {}
    BY <1>1, AboveIs DEF high
  <2> QED BY <1>1, <1>3, <2>1, Zenon DEF NextTime
<1> DEFINE P == {j \in Buffers : j < high => f[j] = u}
<1>5. ASSUME NEW j \in Buffers, \A i \in Buffers : j < i => i \in P PROVE j \in P
  <2> SUFFICES ASSUME j < high PROVE f[j] = u
    OBVIOUS
  <2> DEFINE c == Min(AboveOf(j, top))
  <2>1. j <= top
    BY <1>1, <1>3
  <2>2. AboveOf(j, top) # {} /\ c \in Controllers /\ c \in Buffers /\ j < c /\ c <= high
    BY <2>1, AboveIs DEF high
  <2>3. f[j] = LastUpdate(f[c], ControlDtOf[c])
    BY <1>3, <2>2, Zenon DEF NextTime
  <2> HIDE DEF c
  <2>4. CASE c = high
    BY <1>4, <2>3, <2>4 DEF u, d
  <2>5. CASE c # high
    <3>1. f[c] = u
      BY <1>1, <1>3, <1>5, <2>2, <2>5
    <3>2. c \in Layers /\ ControlDtOf[c] \in Nat \ {0}
      BY <2>2, LayersAre, ControlDtIs
    <3>3. d % ControlDtOf[c] = 0
      BY <1>1, <2>2, <3>2, PeriodsGrow DEF d
    <3>4. u % ControlDtOf[c] = 0
      BY <1>2, <3>2, <3>3, MultipleOfMultiple
    <3>5. LastUpdate(u, ControlDtOf[c]) = u
      BY <1>2, <3>2, <3>4, LastUpdateIs
    <3> QED BY <2>3, <3>1, <3>5
  <2> QED BY <2>4, <2>5
<1> HIDE DEF P
<1>6. \A j \in Buffers : j \in P
  BY <1>5, FromTheTop
<1>7. k < high
  BY AboveIs DEF high
<1> QED BY <1>6, <1>7 DEF P, u, d, high

---------------------------------------------------------------------------
(* What is known at any time of an episode.                                *)

\* Every observer holds the estimate of its last breakpoint, made once per breakpoint.
Estimates(feat, o, top) ==
    \A l \in Observers : l <= top =>
        feat[l] = [at |-> LastUpdate(o, ObserveDtOf[l]),
                   count |-> 1 + (LastUpdate(o, ObserveDtOf[l]) \div ObserveDtOf[l])]

\* The frames up to the last-th, one every dt.
FramesUpTo(last, dt) ==
    [i \in 1 .. NumStack |-> IF last - NumStack + i < 0 THEN Zero ELSE (last - NumStack + i) * dt]

FrameDt(l) == (Blocks[l].ratio + 1) * ObserveDtOf[l]

\* A stack holds the frames of its breakpoints; it has counted those since the last frame.
Framed(frm, cnt, o, top) ==
    \A l \in Stacks : l <= top =>
        /\ frm[l] = FramesUpTo(LastUpdate(o, FrameDt(l)) \div FrameDt(l), FrameDt(l))
        /\ cnt[l] = ((o \div ObserveDtOf[l]) % (Blocks[l].ratio + 1)) - 1

\* The clock of the episode, and the observation of the environment.
Clocked ==
    /\ t % ControlDt = 0 /\ numSteps \in Nat
    /\ tEnd = None => t = numSteps * StepDt /\ refreshed
    /\ tEnd # None => tEnd = (numSteps + 1) * StepDt /\ numSteps * StepDt <= t /\ t <= tEnd
    /\ observation \in Nat /\ observation % ControlDt = 0
    /\ refreshed => observation = t
    /\ ~refreshed => t > 0 /\ observation = t - ControlDt

Observed == Estimates(feature, observation, derived) /\ Framed(frames, nLastStack, observation, derived)

\* The command and the actions it was computed from.
LastCommand == IF t = 0 THEN 0 ELSE t - ControlDt

Commanded ==
    /\ command.at = LastCommand /\ (t > 0 => command.seen = LastCommand)
    /\ SentAt(action, LastCommand, derived) /\ (t > 0 => SeenWhenSent(action, derived))
    /\ OfEpisode(action, episode, derived)
    /\ t > 0 => StemFrom(action, episode, LastCommand, derived)
    /\ (tEnd # None /\ BufferOf(derived) > 0) =>
          action[BufferOf(derived)].of = <<episode, numSteps>>

\* Whether or not a simulation runs.
Kept ==
    /\ t \in Nat /\ derived \in {0, Top}
    /\ tEnd \in Nat \cup {None} /\ (tEnd # None => running)
    /\ AreActions(action)

PipeInv == Kept /\ (running => Clocked /\ Observed /\ Commanded)

\* The runners reset the environment itself, and step it.
SessionInv == PipeInv /\ (runner # "user" => derived = 0)

---------------------------------------------------------------------------
(* A refresh of the observation.                                           *)

\* The quotient by a product.
LEMMA DivisionTwice ==
    ASSUME NEW x \in Nat, NEW d \in Nat \ {0}, NEW e \in Nat \ {0}
    PROVE  x \div (e * d) = (x \div d) \div e
<1> DEFINE q == x \div d
           s == x % d
           m == q \div e
           u == q % e
<1>1. q \in Nat /\ s \in 0 .. (d - 1) /\ x = q * d + s
  BY Division
<1> HIDE DEF q, s
<1>2. m \in Nat /\ u \in 0 .. (e - 1) /\ q = m * e + u
  BY <1>1, Division
<1> HIDE DEF m, u
<1>3. q * d = m * (e * d) + u * d
  <2>1. q * d = (m * e) * d + u * d
    BY <1>1, <1>2
  <2> QED BY <1>2, <2>1
<1>4. u * d <= (e - 1) * d /\ u * d \in Nat /\ (e - 1) * d = e * d - d
  <2>1. u \in Nat /\ (e - 1) - u \in Nat
    BY <1>2
  <2>2. ((e - 1) - u) * d \in Nat /\ u * d \in Nat
    BY <2>1
  <2>3. ((e - 1) - u) * d = (e - 1) * d - u * d
    BY <2>1
  <2>4. (e - 1) * d \in Int /\ (e - 1) * d = e * d - d
    OBVIOUS
  <2> QED BY <2>2, <2>3, <2>4
<1>5. e * d \in Nat \ {0}
  BY SMT
<1> DEFINE r == u * d + s
           ed == e * d
<1>6. r \in 0 .. (ed - 1) /\ x = m * ed + r
  <2>1. m * ed \in Nat
    BY <1>2, <1>5
  <2> QED BY <1>1, <1>3, <1>4, <1>5, <2>1
<1>7. ed \in Nat \ {0}
  BY <1>5
<1> HIDE DEF r, ed
<1>8. x \div ed = m
  BY <1>2, <1>6, <1>7, DivisionIs
<1> QED BY <1>8 DEF ed, m, q

\* From one breakpoint of the engine to the next, the observers hold the estimates of the next.
LEMMA EstimatesAdvance ==
    ASSUME NEW b, NEW top \in Layers, NEW o \in Nat, o % ControlDt = 0,
           Estimates(b.feature, o, top), NEW now, now = o + ControlDt,
           NEW c, RefreshedFrom(c, b, now, TRUE, top)
    PROVE  Estimates(c.feature, now, top)
<1> DEFINE feat == c.feature
<1>0. feat = [l \in Observers |-> FeatureAfter(b, l, now, TRUE, top)]
  BY DEF RefreshedFrom
<1> HIDE DEF feat
<1> SUFFICES ASSUME NEW l \in Observers, l <= top
             PROVE  feat[l] = [at |-> LastUpdate(now, ObserveDtOf[l]),
                               count |-> 1 + (LastUpdate(now, ObserveDtOf[l]) \div ObserveDtOf[l])]
  BY DEF Estimates, feat
<1> DEFINE d == ObserveDtOf[l]
<1>1. d \in Nat \ {0} /\ d % ControlDt = 0 /\ ControlDt \in Nat \ {0} /\ now \in Nat
  BY ObserveDtIs, LayersAre, Periods
<1>2. b.feature[l] = [at |-> LastUpdate(o, d), count |-> 1 + (LastUpdate(o, d) \div d)]
  BY DEF Estimates
<1> HIDE DEF d
<1>3. LastUpdate(o, d) \div d = o \div d /\ LastUpdate(now, d) \div d = now \div d
      /\ o \div d \in Nat
  BY <1>1, LastUpdateIs, Division
<1>4. CASE now % d = 0
  <2>1. now \div d = (o \div d) + 1 /\ LastUpdate(now, d) = now
    BY <1>1, <1>4, NextMultiple, NextLastUpdate
  <2>2. feat[l] = [at |-> now, count |-> b.feature[l].count + 1]
    BY <1>0, <1>4 DEF FeatureAfter, IsBreakpoint, d
  <2>3. b.feature[l].count = 1 + (o \div d)
    BY <1>2, <1>3
  <2>4. b.feature[l].count + 1 = 1 + (now \div d)
    BY <1>3, <2>1, <2>3
  <2> QED BY <1>3, <2>1, <2>2, <2>4 DEF d
<1>5. CASE now % d # 0
  <2>1. LastUpdate(now, d) = LastUpdate(o, d)
    BY <1>1, <1>5, NextLastUpdate
  <2>2. feat[l] = b.feature[l]
    BY <1>0, <1>5 DEF FeatureAfter, IsBreakpoint, d
  <2> QED BY <1>2, <2>1, <2>2 DEF d
<1> QED BY <1>4, <1>5

\* A frame.
LEMMA FramesAt ==
    ASSUME NEW last, NEW dt, NEW i \in 1 .. NumStack
    PROVE  FramesUpTo(last, dt)[i] =
             IF last - NumStack + i < 0 THEN Zero ELSE (last - NumStack + i) * dt
BY DEF FramesUpTo

\* The frames move by one, the oldest is dropped.
LEMMA FramesShift ==
    ASSUME NEW m \in Nat \cup {-1}, NEW dt \in Nat \ {0}
    PROVE  Append(Tail(FramesUpTo(m, dt)), (m + 1) * dt) = FramesUpTo(m + 1, dt)
<1> DEFINE f == FramesUpTo(m, dt)
           g == FramesUpTo(m + 1, dt)
<1>1. NumStack \in Nat \ {0}
  BY Periods
<1>2. \A i \in 1 .. NumStack : f[i] = IF m - NumStack + i < 0 THEN Zero ELSE (m - NumStack + i) * dt
  BY DEF FramesUpTo
<1>3. \A i \in 1 .. NumStack :
        g[i] = IF (m + 1) - NumStack + i < 0 THEN Zero ELSE ((m + 1) - NumStack + i) * dt
  BY FramesAt, Zenon
<1>4. f \in [1 .. NumStack -> Int] /\ g \in [1 .. NumStack -> Int]
  BY <1>1 DEF FramesUpTo, Zero
<1>5. f \in Seq(Int) /\ Len(f) = NumStack /\ g \in Seq(Int) /\ Len(g) = NumStack
  BY <1>1, <1>4
<1> HIDE DEF f, g
<1> DEFINE h == Tail(f)
           a == Append(h, (m + 1) * dt)
<1>6. h \in Seq(Int) /\ Len(h) = NumStack - 1 /\ \A i \in 1 .. (NumStack - 1) : h[i] = f[i + 1]
  BY <1>1, <1>5
<1>7. (m + 1) * dt \in Int
  OBVIOUS
<1> HIDE DEF h
<1>8. a \in Seq(Int) /\ Len(a) = NumStack
      /\ (\A i \in 1 .. (NumStack - 1) : a[i] = h[i]) /\ a[NumStack] = (m + 1) * dt
  BY <1>1, <1>6, <1>7
<1> HIDE DEF a
<1>9. \A i \in 1 .. NumStack : a[i] = g[i]
  <2> SUFFICES ASSUME NEW i \in 1 .. NumStack PROVE a[i] = g[i]
    OBVIOUS
  <2>1. CASE i = NumStack
    <3>1. g[i] = ((m + 1) - NumStack + i) * dt
      BY <1>1, <1>3, <2>1
    <3>2. (m + 1) - NumStack + i = m + 1
      BY <1>1, <2>1
    <3> QED BY <1>8, <2>1, <3>1, <3>2
  <2>2. CASE i # NumStack
    <3>1. i \in 1 .. (NumStack - 1) /\ i + 1 \in 1 .. NumStack
      BY <1>1, <2>2
    <3>2. m - NumStack + (i + 1) = (m + 1) - NumStack + i
      BY <1>1
    <3>3. a[i] = f[i + 1]
      BY <1>6, <1>8, <3>1
    <3> QED BY <1>2, <1>3, <3>1, <3>2, <3>3
  <2> QED BY <2>1, <2>2
<1>10. a = g
  BY <1>1, <1>5, <1>8, <1>9
<1> QED BY <1>10 DEF a, h, f, g

\* Likewise for the stacks.
LEMMA FramesAdvance ==
    ASSUME NEW b, NEW top \in Layers, NEW o \in Nat, o % ControlDt = 0,
           Framed(b.frames, b.nLastStack, o, top), NEW now, now = o + ControlDt,
           NEW c, RefreshedFrom(c, b, now, TRUE, top)
    PROVE  Framed(c.frames, c.nLastStack, now, top)
<1> DEFINE frm == c.frames
           cnt == c.nLastStack
<1>00. /\ frm = [l \in Stacks |-> FramesAfter(b, l, now, TRUE, top)]
       /\ cnt = [l \in Stacks |-> CountAfter(b, l, now, TRUE, top)]
  BY DEF RefreshedFrom
<1> HIDE DEF frm, cnt
<1> SUFFICES ASSUME NEW l \in Stacks, l <= top
             PROVE  /\ frm[l] = FramesUpTo(LastUpdate(now, FrameDt(l)) \div FrameDt(l), FrameDt(l))
                    /\ cnt[l] = ((now \div ObserveDtOf[l]) % (Blocks[l].ratio + 1)) - 1
  BY DEF Framed, frm, cnt
<1> DEFINE d == ObserveDtOf[l]
           r == Blocks[l].ratio
           dt == (r + 1) * d
           q == o \div d
           n == now \div d
<1>1. d \in Nat \ {0} /\ d % ControlDt = 0 /\ ControlDt \in Nat \ {0} /\ now \in Nat
      /\ r \in Nat
  BY ObserveDtIs, LayersAre, Periods
<1>2. b.frames[l] = FramesUpTo(LastUpdate(o, dt) \div dt, dt) /\ b.nLastStack[l] = (q % (r + 1)) - 1
  BY DEF Framed, FrameDt
<1>0. FrameDt(l) = dt
  BY DEF FrameDt
<1> HIDE DEF d, r
<1>3. r + 1 \in Nat \ {0} /\ dt \in Nat \ {0}
  BY <1>1
<1>4. q \in Nat /\ n \in Nat
  BY <1>1, Division
<1>5. LastUpdate(o, dt) \div dt = q \div (r + 1) /\ LastUpdate(now, dt) \div dt = n \div (r + 1)
  <2>1. LastUpdate(o, dt) \div dt = o \div dt /\ LastUpdate(now, dt) \div dt = now \div dt
    <3> HIDE DEF dt
    <3> QED BY <1>1, <1>3, LastUpdateIs
  <2>2. o \div dt = q \div (r + 1) /\ now \div dt = n \div (r + 1)
    BY <1>1, <1>3, DivisionTwice
  <2> QED BY <2>1, <2>2
<1>6. /\ q % (r + 1) \in 0 .. r /\ q \div (r + 1) \in Nat
      /\ q = (q \div (r + 1)) * (r + 1) + (q % (r + 1))
  <2> HIDE DEF q
  <2>1. /\ q % (r + 1) \in 0 .. ((r + 1) - 1) /\ q \div (r + 1) \in Nat
        /\ q = (q \div (r + 1)) * (r + 1) + (q % (r + 1))
    <3> DEFINE w == r + 1
    <3>1. w \in Nat \ {0} /\ q \in Nat
      BY <1>3, <1>4
    <3> HIDE DEF w
    <3>2. q \div w \in Nat /\ q % w \in 0 .. (w - 1) /\ q = (q \div w) * w + (q % w)
      BY <3>1, Division, Zenon
    <3> QED BY <3>2 DEF w
  <2>2. (r + 1) - 1 = r
    BY <1>1
  <2> QED BY <2>1, <2>2
<1> DEFINE cn == StackCount(b, l, now, TRUE)
<1>7. /\ frm[l] = IF cn = r THEN Append(Tail(b.frames[l]), now) ELSE b.frames[l]
      /\ cnt[l] = IF cn = r THEN -1 ELSE cn
  BY <1>00 DEF FramesAfter, CountAfter, StackedAfter, r
<1>8. cn = IF now % d = 0 THEN b.nLastStack[l] + 1 ELSE b.nLastStack[l]
  BY DEF StackCount, IsBreakpoint, d
<1> HIDE DEF cn
<1>9. CASE now % d # 0
  <2>1. n = q
    BY <1>1, <1>9, NextMultiple
  <2>2. cn = (q % (r + 1)) - 1 /\ cn # r
    BY <1>1, <1>2, <1>6, <1>8, <1>9
  <2> HIDE DEF q, n, dt
  <2>3. frm[l] = b.frames[l] /\ cnt[l] = (n % (r + 1)) - 1
    BY <1>7, <2>1, <2>2
  <2> QED BY <1>0, <1>2, <1>5, <2>1, <2>3 DEF n, d, r
<1>10. CASE now % d = 0
  <2>1. n = q + 1
    BY <1>1, <1>10, NextMultiple
  <2>2. cn = q % (r + 1)
    <3> HIDE DEF q
    <3> QED BY <1>1, <1>2, <1>6, <1>8, <1>10
  <2>3. now = n * d
    BY <1>1, <1>10, MultipleIs
  <2> HIDE DEF q, n
  <2>5. CASE cn = r
    <3>1. n \div (r + 1) = q \div (r + 1) + 1 /\ n % (r + 1) = 0
      <4>1. q = (q \div (r + 1)) * (r + 1) + r
        BY <1>6, <2>2, <2>5
      <4> DEFINE m == q \div (r + 1)
      <4>2. m \in Nat /\ q = m * (r + 1) + r
        BY <1>6, <4>1
      <4> HIDE DEF m
      <4>3. m * (r + 1) \in Nat /\ (m + 1) * (r + 1) = m * (r + 1) + (r + 1)
        BY <1>1, <4>2
      <4>4. n = (m + 1) * (r + 1)
        BY <1>1, <2>1, <4>2, <4>3
      <4>5. n \div (r + 1) = m + 1 /\ n % (r + 1) = 0
        BY <1>3, <4>2, <4>4, MultipleOf
      <4> QED BY <4>5 DEF m
    <3> DEFINE m == q \div (r + 1)
    <3>2. m \in Nat
      BY <1>6
    <3>3. now = (m + 1) * dt
      <4>1. n = (n \div (r + 1)) * (r + 1)
        BY <1>3, <1>4, <3>1, MultipleIs
      <4>2. n = (m + 1) * (r + 1)
        BY <3>1, <4>1
      <4> HIDE DEF m
      <4> QED BY <1>1, <2>3, <3>2, <4>2
    <3> HIDE DEF dt
    <3>4. frm[l] = Append(Tail(FramesUpTo(m, dt)), (m + 1) * dt) /\ cnt[l] = -1
      BY <1>2, <1>5, <1>7, <2>5, <3>3
    <3> HIDE DEF m
    <3>5. frm[l] = FramesUpTo(m + 1, dt)
      BY <1>3, <3>2, <3>4, FramesShift
    <3>6. LastUpdate(now, dt) \div dt = m + 1
      BY <1>5, <3>1 DEF m
    <3>7. cnt[l] = (n % (r + 1)) - 1
      <4>1. n % (r + 1) = 0 /\ cnt[l] = -1
        BY <3>1, <3>4
      <4>2. 0 - 1 = -1
        OBVIOUS
      <4> QED BY <4>1, <4>2
    <3> QED BY <1>0, <3>5, <3>6, <3>7 DEF n, d, r
  <2>6. CASE cn # r
    <3>2. (q + 1) \div (r + 1) = q \div (r + 1) /\ (q + 1) % (r + 1) = (q % (r + 1)) + 1
      <4> DEFINE m == q \div (r + 1)
                 u == q % (r + 1)
      <4>1. m \in Nat /\ u \in 0 .. r /\ q = m * (r + 1) + u /\ u # r
        BY <1>6, <2>2, <2>6
      <4> HIDE DEF m, u
      <4>2. q + 1 = m * (r + 1) + (u + 1) /\ u + 1 \in 0 .. ((r + 1) - 1)
        <5>1. m * (r + 1) \in Nat
          BY <1>1, <4>1
        <5> QED BY <1>1, <4>1, <5>1
      <4> DEFINE s == r + 1
                 v == u + 1
      <4>3. s \in Nat \ {0} /\ v \in 0 .. (s - 1) /\ q + 1 = m * s + v
        BY <1>3, <4>2
      <4> HIDE DEF s, v
      <4>6. m \in Nat
        BY <4>1
      <4>7. s \in Nat \ {0} /\ v \in 0 .. (s - 1)
        BY <4>3
      <4>5. (m * s + v) \div s = m /\ (m * s + v) % s = v
        BY <4>6, <4>7, DivisionIs
      <4>4. (q + 1) \div s = m /\ (q + 1) % s = v
        BY <4>3, <4>5, Zenon
      <4> QED BY <4>4 DEF s, v, m, u
    <3>3. frm[l] = b.frames[l] /\ cnt[l] = cn
      BY <1>7, <2>6
    <3>4. cn = ((q + 1) % (r + 1)) - 1
      <4> DEFINE u == q % (r + 1)
      <4>1. u \in Int /\ cn = u /\ (q + 1) % (r + 1) = u + 1
        BY <1>6, <2>2, <3>2
      <4> HIDE DEF u
      <4> QED BY <4>1
    <3> HIDE DEF dt
    <3>5. frm[l] = FramesUpTo(LastUpdate(now, dt) \div dt, dt)
      BY <1>2, <1>5, <2>1, <3>2, <3>3
    <3> QED BY <1>0, <2>1, <3>3, <3>4, <3>5 DEF n, d, r
  <2> QED BY <2>5, <2>6
<1> QED BY <1>9, <1>10

---------------------------------------------------------------------------
(* The handles.                                                            *)

\* What a call of the controller makes of the registers b, the observer having left e.
HandledFrom(c, e, b, now, run, top) ==
    /\ DOMAIN c = RegisterNames /\ ~c.refreshed /\ c.observation = e.observation
    /\ c.feature = e.feature /\ c.frames = e.frames /\ c.nLastStack = e.nLastStack
    /\ IsComputed(c.action, e, now, run, top) /\ e.action = b.action
    /\ AreActions(c.action)
    /\ c.command.at = now /\ c.command.seen = e.observation

\* The controller is computed from the observation of the observer.
LEMMA HandleLeaves ==
    ASSUME NEW b, DOMAIN b = RegisterNames, AreActions(b.action), NEW now, NEW run,
           NEW top \in Layers, NEW measured,
           NEW e, e = ObserverHandle(b, now, run, top),
           NEW c, c = ControllerHandle(b, now, run, top, measured)
    PROVE  HandledFrom(c, e, b, now, run, top)
<1> DEFINE d == ComputeCommand(e, now, run, top, measured)
<1>1. DOMAIN e = RegisterNames /\ e.action = b.action
  <2>1. ObservedFrom(e, b, now, run, top)
    BY ObserverLeaves
  <2> QED BY <2>1, Zenon DEF ObservedFrom, SameButObservation
<1>2. c = [d EXCEPT !.refreshed = FALSE]
  BY Zenon DEF ControllerHandle
<1>3. ControlledFrom(d, e, now, run, top)
  <2>1. DOMAIN e = RegisterNames /\ d = ComputeCommand(e, now, run, top, measured)
    BY <1>1
  <2> HIDE DEF d
  <2> QED BY <2>1, ControllersLeave
<1> HIDE DEF d
<1>4. /\ DOMAIN c = RegisterNames /\ c.refreshed = FALSE /\ c.observation = d.observation
      /\ c.feature = d.feature /\ c.frames = d.frames /\ c.nLastStack = d.nLastStack
      /\ c.action = d.action /\ c.command = d.command
  <2>1. DOMAIN d = RegisterNames
    BY <1>3, Zenon DEF ControlledFrom
  <2> QED BY <1>2, <2>1 DEF RegisterNames
<1>5. IsComputed(c.action, e, now, run, top)
  BY <1>3, <1>4, Zenon DEF ControlledFrom
<1>6. AreActions(e.action)
  BY <1>1, Zenon
<1>7. AreActions(c.action)
  BY <1>5, <1>6, ComputedActions
<1>8. DOMAIN c.action[0] = ActionNames
  BY <1>7, LayersAre, Zenon DEF AreActions
<1>9. c.command = [c.action[0] EXCEPT !.at = now, !.seen = e.observation]
  BY <1>3, <1>4, Zenon DEF ControlledFrom
<1>10. ASSUME NEW g, DOMAIN g = ActionNames, NEW h,
              h = [g EXCEPT !.at = now, !.seen = e.observation]
       PROVE  h.at = now /\ h.seen = e.observation
  BY <1>10 DEF ActionNames
<1>11. c.command.at = now /\ c.command.seen = e.observation
  BY <1>8, <1>9, <1>10, Zenon
<1> QED BY <1>1, <1>3, <1>4, <1>5, <1>7, <1>11, Zenon DEF HandledFrom, ControlledFrom

\* An observation of `now', every block being up to date.
UpToDate(e, now, top) ==
    /\ e.observation = now
    /\ Estimates(e.feature, now, top) /\ Framed(e.frames, e.nLastStack, now, top)

\* Whether or not it is refreshed, the observation is of the time of the handle.
LEMMA ObserveOnTime ==
    ASSUME NEW b, DOMAIN b = RegisterNames, NEW now \in Nat, NEW top \in Layers,
           b.observation \in Nat, b.observation % ControlDt = 0,
           b.refreshed => b.observation = now,
           ~b.refreshed => now = b.observation + ControlDt,
           UpToDate(b, b.observation, top),
           NEW e, e = ObserverHandle(b, now, TRUE, top)
    PROVE  SameButObservation(b, e) /\ e.refreshed /\ UpToDate(e, now, top)
<1>1. ObservedFrom(e, b, now, TRUE, top)
  BY ObserverLeaves
<1>2. CASE b.refreshed
  BY <1>1, <1>2, Zenon DEF UpToDate, ObservedFrom
<1>3. CASE ~b.refreshed
  <2> DEFINE o == b.observation
  <2>1. /\ o \in Nat /\ o % ControlDt = 0 /\ now = o + ControlDt
        /\ Estimates(b.feature, o, top) /\ Framed(b.frames, b.nLastStack, o, top)
    BY <1>3 DEF UpToDate
  <2> HIDE DEF o
  <2>0. RefreshedFrom(e, b, now, TRUE, top)
    BY <1>1, <1>3, Zenon DEF ObservedFrom
  <2>2. Estimates(e.feature, now, top)
    BY <2>0, <2>1, EstimatesAdvance
  <2>3. Framed(e.frames, e.nLastStack, now, top)
    BY <2>0, <2>1, FramesAdvance
  <2> QED BY <1>1, <2>0, <2>2, <2>3, Zenon DEF UpToDate, ObservedFrom, RefreshedFrom
<1> QED BY <1>2, <1>3

---------------------------------------------------------------------------
(* The start of the engine.                                                *)

\* Nothing was observed since the set up, nor any action taken.
Starting(x, top) ==
    /\ DOMAIN x = RegisterNames /\ AreActions(x.action)
    /\ \A l \in Observers : l <= top => x.feature[l].count = 0
    /\ \A l \in Stacks : l <= top =>
          x.frames[l] = FramesUpTo(-1, FrameDt(l)) /\ x.nLastStack[l] = Blocks[l].ratio - 1
    /\ \A k \in Buffers : k <= top => x.action[k].of = NoAction

\* The controller was called.
Iterated(x, top) ==
    Starting(x, top) /\ ~x.refreshed /\ x.command.at = 0 /\ SentAt(x.action, 0, top)

\* Zero is a breakpoint of every period.
LEMMA ZeroIs == ASSUME NEW d \in Nat \ {0} PROVE 0 % d = 0 /\ 0 \div d = 0 /\ LastUpdate(0, d) = 0
<1>1. 0 \in Nat /\ 0 * d = 0
  OBVIOUS
<1>2. 0 % d = 0 /\ 0 \div d = 0
  BY <1>1, MultipleOf
<1> QED BY <1>1, <1>2, LastUpdateIs

\* No simulation runs yet: an observation leaves the filters and the stacks as they are.
LEMMA ObserveBefore ==
    ASSUME NEW x, NEW top \in Layers, Starting(x, top),
           NEW e, e = ObserverHandle(x, 0, FALSE, top)
    PROVE  Starting(e, top)
<1>1. ObservedFrom(e, x, 0, FALSE, top)
  <2>1. DOMAIN x = RegisterNames
    BY Zenon DEF Starting
  <2> QED BY <2>1, ObserverLeaves
<1>2. DOMAIN e = RegisterNames /\ e.action = x.action
  BY <1>1, Zenon DEF ObservedFrom, SameButObservation, Starting
<1>3. CASE x.refreshed
  <2>1. e.feature = x.feature /\ e.frames = x.frames /\ e.nLastStack = x.nLastStack
    BY <1>1, <1>3, Zenon DEF ObservedFrom
  <2> QED BY <1>2, <2>1, Zenon DEF Starting
<1>4. CASE ~x.refreshed
  <2>0. RefreshedFrom(e, x, 0, FALSE, top)
    BY <1>1, <1>4, Zenon DEF ObservedFrom
  <2>1. ASSUME NEW l \in Observers, l <= top PROVE e.feature[l].count = 0
    <3>1. IsBreakpoint(0, ObserveDtOf[l])
      BY ZeroIs, ObserveDtIs, LayersAre DEF IsBreakpoint
    <3>2. e.feature[l] = [at |-> 0, count |-> 0]
      BY <2>0, <2>1, <3>1 DEF FeatureAfter, RefreshedFrom
    <3>3. ASSUME NEW g, g = [at |-> 0, count |-> 0] PROVE g.count = 0
      BY <3>3
    <3> QED BY <3>2, <3>3, Zenon
  <2>2. ASSUME NEW l \in Stacks, l <= top
        PROVE  e.frames[l] = x.frames[l] /\ e.nLastStack[l] = x.nLastStack[l]
    <3>1. StackCount(x, l, 0, FALSE) = x.nLastStack[l]
      BY DEF StackCount
    <3>2. ~StackedAfter(x, l, 0, FALSE, top)
      <4>1. x.nLastStack[l] = Blocks[l].ratio - 1 /\ Blocks[l].ratio \in Nat
        BY <2>2, LayersAre DEF Starting
      <4>2. x.nLastStack[l] # Blocks[l].ratio
        BY <4>1
      <4> QED BY <3>1, <4>2, Zenon DEF StackedAfter
    <3> QED BY <2>0, <2>2, <3>1, <3>2 DEF FramesAfter, CountAfter, RefreshedFrom
  <2>3. \A l \in Stacks : l <= top =>
          e.frames[l] = FramesUpTo(-1, FrameDt(l)) /\ e.nLastStack[l] = Blocks[l].ratio - 1
    BY <2>2, Zenon DEF Starting
  <2> QED BY <1>2, <2>1, <2>3, Zenon DEF Starting
<1> QED BY <1>3, <1>4

\* Nor does the controller take any action.
LEMMA HandleBefore ==
    ASSUME NEW x, NEW top \in Layers, Starting(x, top), NEW measured,
           NEW c, c = ControllerHandle(x, 0, FALSE, top, measured)
    PROVE  Iterated(c, top)
<1> DEFINE e == ObserverHandle(x, 0, FALSE, top)
<1>1. Starting(e, top)
  BY ObserveBefore
<1>2. HandledFrom(c, e, x, 0, FALSE, top)
  BY HandleLeaves, Zenon DEF Starting
<1> HIDE DEF e
<1>3. AreActions(e.action) /\ IsComputed(c.action, e, 0, FALSE, top)
  BY <1>1, <1>2, Zenon DEF Starting, HandledFrom
<1>4. SentAt(c.action, 0, top)
  <2>1. 0 \in Nat /\ 0 % ControlDt = 0 /\ (0 > 0 => SentAt(e.action, 0 - ControlDt, top))
    BY ZeroIs, Periods
  <2> QED BY <1>3, <2>1, SentOnTime
<1>5. \A k \in Buffers : k <= top => c.action[k].of \in {NoAction}
  <2>1. NoAction \in {NoAction} /\ \A k \in Buffers : k <= top => e.action[k].of \in {NoAction}
    BY <1>1, Zenon DEF Starting
  <2> DEFINE S == {NoAction}
  <2> HIDE DEF S
  <2>2. NoAction \in S /\ \A k \in Buffers : k <= top => e.action[k].of \in S
    BY <2>1 DEF S
  <2>3. \A k \in Buffers : k <= top => c.action[k].of \in S
    BY <1>3, <2>2, SentWasThere
  <2> QED BY <2>3, Zenon DEF S
<1>6. Starting(c, top)
  BY <1>1, <1>2, <1>5, Zenon DEF Starting, HandledFrom
<1> QED BY <1>2, <1>4, <1>6, Zenon DEF Iterated, HandledFrom

\* The registers after i calls of the controller.
StartStep(f, i, b, top, measured) ==
    IF i = 0 THEN b ELSE ControllerHandle(f[i - 1], 0, FALSE, top, measured)

AreStarts(f, n, b, top, measured) == f = [i \in 0 .. n |-> StartStep(f, i, b, top, measured)]

\* There are such registers.
LEMMA StartsExist ==
    ASSUME NEW b, NEW top, NEW measured
    PROVE  \A n \in Nat : \E f : AreStarts(f, n, b, top, measured)
<1> DEFINE T == {n \in Nat : \E f : AreStarts(f, n, b, top, measured)}
<1>1. 0 \in T
  <2> DEFINE f == [i \in 0 .. 0 |-> b]
  <2>1. f = [i \in 0 .. 0 |-> StartStep(f, i, b, top, measured)]
    BY DEF StartStep
  <2> HIDE DEF f
  <2>2. AreStarts(f, 0, b, top, measured)
    BY <2>1, Zenon DEF AreStarts
  <2> QED BY <2>2
<1>2. ASSUME NEW n \in Nat, n \in T PROVE n + 1 \in T
  <2>1. PICK f : AreStarts(f, n, b, top, measured)
    BY <1>2
  <2> DEFINE g == [i \in 0 .. n + 1 |-> StartStep(f, i, b, top, measured)]
  <2>2. \A i \in 0 .. n : i \in 0 .. n + 1
    OBVIOUS
  <2>3. \A i \in 0 .. n : g[i] = f[i]
    BY <2>1, <2>2, Zenon DEF AreStarts
  <2>4. \A i \in 0 .. n + 1 : i # 0 => i - 1 \in 0 .. n
    OBVIOUS
  <2>5. \A i \in 0 .. n + 1 :
          StartStep(f, i, b, top, measured) = StartStep(g, i, b, top, measured)
    <3> HIDE DEF g
    <3> QED BY <2>3, <2>4, Zenon DEF StartStep
  <2>6. g = [i \in 0 .. n + 1 |-> StartStep(g, i, b, top, measured)]
    BY <2>5, Zenon
  <2> HIDE DEF g
  <2>7. AreStarts(g, n + 1, b, top, measured)
    BY <2>6, Zenon DEF AreStarts
  <2> QED BY <2>7
<1> HIDE DEF T
<1>3. \A n \in Nat : n \in T
  BY <1>1, <1>2, Induction
<1> QED BY <1>3 DEF T

\* All the calls of the controller, then the observation.
LEMMA StartedIs ==
    ASSUME NEW b, NEW top, NEW measured
    PROVE  \E f : /\ AreStarts(f, InitIterations, b, top, measured)
                  /\ Started(b, top, measured) = ObserverHandle(f[InitIterations], 0, TRUE, top)
<1> DEFINE Is(f) == f = [i \in 0 .. InitIterations |->
                           IF i = 0 THEN b ELSE ControllerHandle(f[i - 1], 0, FALSE, top, measured)]
           f == CHOOSE g : Is(g)
<1>1. \E g : AreStarts(g, InitIterations, b, top, measured)
  BY StartsExist, Periods
<1>2. \E g : Is(g)
  BY <1>1, Zenon DEF AreStarts, StartStep
<1>3. Is(f)
  <2> HIDE DEF Is
  <2> QED BY <1>2, Zenon
<1>4. Started(b, top, measured) = ObserverHandle(f[InitIterations], 0, TRUE, top)
  BY Zenon DEF Started
<1> HIDE DEF f
<1>5. AreStarts(f, InitIterations, b, top, measured)
  BY <1>3, Zenon DEF AreStarts, StartStep
<1> QED BY <1>4, <1>5, Zenon

\* The simulation starts with the observation of its start, and no action.
LEMMA StartOnTime ==
    ASSUME NEW b, NEW top \in Layers, Starting(b, top), NEW measured,
           NEW c, c = Started(b, top, measured)
    PROVE  /\ DOMAIN c = RegisterNames /\ AreActions(c.action)
           /\ c.refreshed /\ UpToDate(c, 0, top)
           /\ c.command.at = 0 /\ SentAt(c.action, 0, top)
           /\ \A k \in Buffers : k <= top => c.action[k].of = NoAction
<1>1. PICK f : /\ AreStarts(f, InitIterations, b, top, measured)
               /\ c = ObserverHandle(f[InitIterations], 0, TRUE, top)
  BY StartedIs
<1>2. \A i \in 0 .. InitIterations : f[i] = StartStep(f, i, b, top, measured)
  BY <1>1, Zenon DEF AreStarts
<1> DEFINE T == {n \in Nat : n + 1 <= InitIterations => Iterated(f[n + 1], top)}
<1>3. 0 \in T
  <2>1. 0 \in 0 .. InitIterations /\ 1 \in 0 .. InitIterations /\ 1 - 1 = 0 /\ 0 + 1 = 1 /\ 1 # 0
    BY Periods
  <2>2. f[0] = b
    BY <1>2, <2>1, Zenon DEF StartStep
  <2>3. f[1] = ControllerHandle(f[1 - 1], 0, FALSE, top, measured)
    BY <1>2, <2>1, Zenon DEF StartStep
  <2>4. f[1] = ControllerHandle(b, 0, FALSE, top, measured)
    BY <2>1, <2>2, <2>3, Zenon
  <2>5. Iterated(f[1], top)
    BY <2>4, HandleBefore
  <2> QED BY <2>1, <2>5
<1>4. ASSUME NEW n \in Nat, n \in T PROVE n + 1 \in T
  <2> SUFFICES ASSUME (n + 1) + 1 <= InitIterations PROVE Iterated(f[(n + 1) + 1], top)
    OBVIOUS
  <2> DEFINE i == (n + 1) + 1
  <2>1. i \in 0 .. InitIterations /\ i # 0 /\ i - 1 = n + 1 /\ n + 1 <= InitIterations
    BY Periods
  <2>2. Iterated(f[n + 1], top)
    BY <1>4, <2>1
  <2> HIDE DEF i
  <2>3. f[i] = ControllerHandle(f[i - 1], 0, FALSE, top, measured)
    BY <1>2, <2>1, Zenon DEF StartStep
  <2>4. f[i] = ControllerHandle(f[n + 1], 0, FALSE, top, measured) /\ Starting(f[n + 1], top)
    BY <2>1, <2>2, <2>3, Zenon DEF Iterated
  <2>5. Iterated(f[i], top)
    BY <2>4, HandleBefore
  <2> QED BY <2>5 DEF i
<1> HIDE DEF T
<1>5. \A n \in Nat : n \in T
  BY <1>3, <1>4, Induction
<1> DEFINE x == f[InitIterations]
<1>6. Iterated(x, top)
  <2>1. InitIterations - 1 \in Nat /\ (InitIterations - 1) + 1 = InitIterations
        /\ InitIterations <= InitIterations
    BY Periods
  <2> QED BY <1>5, <2>1 DEF T
<1>7. c = ObserverHandle(x, 0, TRUE, top)
  BY <1>1
<1> HIDE DEF x
<1>8. DOMAIN x = RegisterNames /\ ~x.refreshed
  BY <1>6, Zenon DEF Iterated, Starting
<1>90. ObservedFrom(c, x, 0, TRUE, top)
  BY <1>7, <1>8, ObserverLeaves
<1>9. SameButObservation(x, c) /\ c.refreshed /\ RefreshedFrom(c, x, 0, TRUE, top)
  BY <1>8, <1>90, Zenon DEF ObservedFrom
<1>10. Estimates(c.feature, 0, top)
  <2> SUFFICES ASSUME NEW l \in Observers, l <= top
               PROVE  c.feature[l] = [at |-> LastUpdate(0, ObserveDtOf[l]),
                                count |-> 1 + (LastUpdate(0, ObserveDtOf[l]) \div ObserveDtOf[l])]
    BY DEF Estimates
  <2>1. 0 % ObserveDtOf[l] = 0 /\ 0 \div ObserveDtOf[l] = 0 /\ LastUpdate(0, ObserveDtOf[l]) = 0
    BY ZeroIs, ObserveDtIs, LayersAre
  <2>2. c.feature[l] = [at |-> 0, count |-> x.feature[l].count + 1]
    BY <1>9, <2>1 DEF FeatureAfter, IsBreakpoint, RefreshedFrom
  <2>3. x.feature[l].count = 0
    BY <1>6, Zenon DEF Iterated, Starting
  <2> QED BY <2>1, <2>2, <2>3
<1>11. Framed(c.frames, c.nLastStack, 0, top)
  <2> SUFFICES ASSUME NEW l \in Stacks, l <= top
               PROVE  /\ c.frames[l] = FramesUpTo(LastUpdate(0, FrameDt(l)) \div FrameDt(l), FrameDt(l))
                      /\ c.nLastStack[l] = ((0 \div ObserveDtOf[l]) % (Blocks[l].ratio + 1)) - 1
    BY DEF Framed
  <2> DEFINE r == Blocks[l].ratio
             d == ObserveDtOf[l]
             dt == FrameDt(l)
  <2>1. r \in Nat /\ d \in Nat \ {0} /\ dt \in Nat \ {0} /\ r + 1 \in Nat \ {0}
    <3>1. r \in Nat /\ d \in Nat \ {0}
      BY ObserveDtIs, LayersAre
    <3>2. dt = (r + 1) * d
      BY DEF FrameDt
    <3> HIDE DEF r, d, dt
    <3> QED BY <3>1, <3>2
  <2>2. x.frames[l] = FramesUpTo(-1, dt) /\ x.nLastStack[l] = r - 1
    BY <1>6, Zenon DEF Iterated, Starting
  <2> HIDE DEF r, d, dt
  <2>3. 0 % d = 0 /\ 0 \div d = 0 /\ LastUpdate(0, dt) = 0 /\ 0 \div dt = 0 /\ 0 % (r + 1) = 0
    BY <2>1, ZeroIs
  <2>4. StackCount(x, l, 0, TRUE) = r
    <3>1. StackCount(x, l, 0, TRUE) = x.nLastStack[l] + 1
      BY <2>3 DEF StackCount, IsBreakpoint, d
    <3>2. (r - 1) + 1 = r
      BY <2>1
    <3> QED BY <2>2, <3>1, <3>2, Zenon
  <2>5. c.frames[l] = Append(Tail(FramesUpTo(-1, dt)), 0) /\ c.nLastStack[l] = -1
    BY <1>9, <2>2, <2>4 DEF FramesAfter, CountAfter, StackedAfter, RefreshedFrom, r
  <2>6. (-1 + 1) * dt = 0 /\ -1 + 1 = 0 /\ 0 - 1 = -1 /\ -1 \in Nat \cup {-1}
    BY <2>1
  <2> DEFINE m == -1
  <2>7. Append(Tail(FramesUpTo(m, dt)), (m + 1) * dt) = FramesUpTo(m + 1, dt)
    <3>1. m \in Nat \cup {-1}
      BY <2>6
    <3> HIDE DEF m
    <3> QED BY <2>1, <3>1, FramesShift
  <2>8. c.frames[l] = FramesUpTo(0, dt)
    BY <2>5, <2>6, <2>7, Zenon
  <2>9. c.nLastStack[l] = ((0 \div d) % (r + 1)) - 1
    BY <2>3, <2>5, <2>6, Zenon
  <2> QED BY <2>3, <2>8, <2>9, Zenon DEF d, dt, r
<1>12. /\ DOMAIN c = RegisterNames /\ c.action = x.action /\ c.command = x.command
  BY <1>8, <1>9, Zenon DEF SameButObservation
<1> QED BY <1>6, <1>9, <1>10, <1>11, <1>12, Zenon DEF UpToDate, Iterated, Starting, RefreshedFrom

---------------------------------------------------------------------------
(* The set up of an episode.                                               *)

\* A set up leaves nothing of the episode before, for the layers that are reset.
LEMMA SetUpLeaves ==
    ASSUME NEW b, DOMAIN b = RegisterNames, AreActions(b.action), NEW top \in Layers,
           NEW c, c = SetUp(b, top)
    PROVE  Starting(c, top)
<1> DEFINE b1 == SetUpEnv(b)
           b2 == SetUpObservers(b1, top)
           b3 == SetUpControllers(b2, top)
           b4 == SetUpTargets(b3, top)
           act == [k \in Buffers |-> IF k <= top THEN NullAction ELSE b2.action[k]]
           feat == [l \in Observers |-> IF l <= top THEN NoFeature ELSE b1.feature[l]]
           tgt == [l \in Pds |-> IF l <= top THEN [pos |-> 0, move |-> 0] ELSE b3.target[l]]
           frm == [l \in Stacks |-> IF l <= top THEN NoFrames ELSE b4.frames[l]]
           cnt == [l \in Stacks |-> IF l <= top THEN Blocks[l].ratio - 1 ELSE b4.nLastStack[l]]
<1>1. /\ b2 = [b1 EXCEPT !.feature = feat]
      /\ b3 = [b2 EXCEPT !.action = act]
      /\ b4 = [b3 EXCEPT !.target = tgt]
      /\ c = [b4 EXCEPT !.frames = frm, !.nLastStack = cnt]
  BY Zenon DEF SetUp, SetUpObservers, SetUpControllers, SetUpTargets, SetUpStacks
<1>2. DOMAIN b1 = RegisterNames /\ DOMAIN b1.action = Buffers
      /\ \A k \in Buffers : DOMAIN b1.action[k] = ActionNames
  <2>1. DOMAIN NullAction = ActionNames
    BY DEF NullAction, ActionNames
  <2>2. DOMAIN b1 = RegisterNames /\ b1.action = [b.action EXCEPT ![0] = NullAction]
    BY DEF SetUpEnv, RegisterNames
  <2> HIDE DEF b1
  <2> QED BY <2>1, <2>2 DEF AreActions
<1> HIDE DEF b1, b2, b3, b4, act, feat, tgt, frm, cnt
<1>3. DOMAIN b2 = RegisterNames /\ b2.feature = feat /\ b2.action = b1.action
  BY <1>1, <1>2 DEF RegisterNames
<1>4. DOMAIN b3 = RegisterNames /\ b3.feature = feat /\ b3.action = act
  BY <1>1, <1>3 DEF RegisterNames
<1>5. DOMAIN b4 = RegisterNames /\ b4.feature = feat /\ b4.action = act
  BY <1>1, <1>4 DEF RegisterNames
<1>6. /\ DOMAIN c = RegisterNames /\ c.feature = feat /\ c.action = act
      /\ c.frames = frm /\ c.nLastStack = cnt
  BY <1>1, <1>5 DEF RegisterNames
<1>7. AreActions(act) /\ \A k \in Buffers : k <= top => act[k].of = NoAction
  <2>1. DOMAIN NullAction = ActionNames /\ NullAction.of = NoAction
    BY DEF NullAction, ActionNames
  <2>2. DOMAIN act = Buffers /\ \A k \in Buffers : act[k] = IF k <= top THEN NullAction ELSE b2.action[k]
    BY Zenon DEF act
  <2> QED BY <1>2, <1>3, <2>1, <2>2, Zenon DEF AreActions
<1>8. \A l \in Observers : l <= top => feat[l].count = 0
  <2>1. NoFeature.count = 0
    BY DEF NoFeature
  <2> QED BY <2>1, Zenon DEF feat
<1>9. \A l \in Stacks : l <= top =>
        frm[l] = FramesUpTo(-1, FrameDt(l)) /\ cnt[l] = Blocks[l].ratio - 1
  <2>1. ASSUME NEW dt PROVE NoFrames = FramesUpTo(-1, dt)
    <3>1. \A i \in 1 .. NumStack : -1 - NumStack + i < 0
      BY Periods
    <3> QED BY <3>1, Zenon DEF NoFrames, FramesUpTo
  <2> QED BY <2>1, Zenon DEF frm, cnt
<1> QED BY <1>6, <1>7, <1>8, <1>9, Zenon DEF Starting

\* The registers are a record of all of them.
LEMMA RegistersAre ==
    /\ DOMAIN Registers = RegisterNames /\ Registers.refreshed = refreshed
    /\ Registers.observation = observation /\ Registers.feature = feature
    /\ Registers.frames = frames /\ Registers.nLastStack = nLastStack
    /\ Registers.action = action /\ Registers.command = command
BY DEF Registers, RegisterNames

\* A reset puts everything back on schedule, whatever was before.
LEMMA ResetOnTime ==
    ASSUME PipeInv, NEW top \in {0, Top}, Reset(top) PROVE PipeInv'
<1>1. PICK measured \in Measured : SetRegisters(Started(SetUp(Registers, top), top, measured))
  BY DEF Reset
<1> DEFINE b == SetUp(Registers, top)
           c == Started(b, top, measured)
<1>2. top \in Layers
  BY LayersAre
<1>3. Starting(b, top)
  <2>1. DOMAIN Registers = RegisterNames /\ AreActions(Registers.action)
    BY RegistersAre, Zenon DEF PipeInv, Kept
  <2> QED BY <1>2, <2>1, SetUpLeaves
<1> HIDE DEF b
<1>4. /\ DOMAIN c = RegisterNames /\ AreActions(c.action)
      /\ c.refreshed /\ UpToDate(c, 0, top)
      /\ c.command.at = 0 /\ SentAt(c.action, 0, top)
      /\ \A k \in Buffers : k <= top => c.action[k].of = NoAction
  BY <1>2, <1>3, StartOnTime
<1>5. /\ refreshed' = c.refreshed /\ observation' = c.observation /\ feature' = c.feature
      /\ frames' = c.frames /\ nLastStack' = c.nLastStack /\ action' = c.action
      /\ command' = c.command
  BY <1>1, Zenon DEF SetRegisters, b
<1>6. t' = 0 /\ numSteps' = 0 /\ tEnd' = None /\ derived' = top /\ running' = TRUE
  BY Zenon DEF Reset, Prepare
<1> HIDE DEF c
<1>7. /\ observation' = 0 /\ Estimates(feature', 0, top)
      /\ Framed(frames', nLastStack', 0, top)
  BY <1>4, <1>5, Zenon DEF UpToDate
<1>8. Clocked'
  <2>1. 0 % ControlDt = 0 /\ 0 \in Nat /\ 0 * StepDt = 0
    BY Periods, ZeroIs
  <2> QED BY <1>4, <1>5, <1>6, <1>7, <2>1, Zenon DEF Clocked
<1>9. Observed'
  BY <1>6, <1>7, Zenon DEF Observed
<1>10. Commanded'
  <2>1. ~(0 > 0)
    OBVIOUS
  <2> QED BY <1>4, <1>5, <1>6, <2>1, Zenon DEF Commanded, LastCommand, OfEpisode
<1>11. Kept'
  <2>1. 0 \in Nat
    OBVIOUS
  <2> QED BY <1>4, <1>5, <1>6, <2>1, Zenon DEF Kept
<1> QED BY <1>8, <1>9, <1>10, <1>11, Zenon DEF PipeInv

\* A start that fails leaves no simulation.
LEMMA FailedResetOnTime ==
    ASSUME PipeInv, NEW top \in {0, Top}, ResetFails(top) PROVE PipeInv'
<1> DEFINE b == SetUp(Registers, top)
<1>1. SetRegisters(b) /\ t' = 0 /\ tEnd' = None /\ derived' = top /\ running' = FALSE
  BY Zenon DEF ResetFails, Prepare
<1>2. Starting(b, top)
  <2>1. DOMAIN Registers = RegisterNames /\ AreActions(Registers.action) /\ top \in Layers
    BY RegistersAre, LayersAre, Zenon DEF PipeInv, Kept
  <2> QED BY <2>1, SetUpLeaves
<1> HIDE DEF b
<1>3. AreActions(action')
  BY <1>1, <1>2, Zenon DEF SetRegisters, Starting
<1>4. 0 \in Nat
  OBVIOUS
<1> QED BY <1>1, <1>3, <1>4, Zenon DEF PipeInv, Kept

\* Nothing is known once the simulation is stopped.
LEMMA StopOnTime ==
    ASSUME PipeInv, StepFails \/ StopSimulation PROVE PipeInv'
<1>1. running' = FALSE /\ tEnd' = None /\ UNCHANGED <<t, derived, blocks>>
  BY Zenon DEF StepFails, StopSimulation
<1>2. action' = action
  BY <1>1, Zenon DEF blocks
<1> QED BY <1>1, <1>2, Zenon DEF PipeInv, Kept

---------------------------------------------------------------------------
(* A step.                                                                 *)

\* The action of a step is copied in the buffer of its layer, which no controller that was reset
\* computes.
LEMMA BeginStepOnTime ==
    ASSUME PipeInv, NEW l \in Layers, derived \in {0, l}, BeginStep(l) PROVE PipeInv'
<1> DEFINE high == BufferOf(l)
<1>0. running /\ Kept /\ Clocked /\ Observed /\ Commanded /\ tEnd = None
  BY Zenon DEF PipeInv, BeginStep
<1>1. PICK v \in Speeds :
        action' = [action EXCEPT ![high] = [NullAction EXCEPT !.of = <<episode, numSteps>>, !.value = v]]
  BY Zenon DEF BeginStep
<1> DEFINE new == [NullAction EXCEPT !.of = <<episode, numSteps>>, !.value = v]
<1>2. high \in Buffers /\ high <= l /\ high \in Nat /\ l \in Nat /\ derived \in Layers /\ derived <= l
      /\ derived \in Nat
  <2>1. l \in Nat /\ 0 <= l /\ 0 \in Nat
    BY LayersAre
  <2> QED BY <2>1, BufferIs, LayersAre
<1>3. DOMAIN new = ActionNames /\ new.of = <<episode, numSteps>>
  BY DEF NullAction, ActionNames
<1> HIDE DEF high, new
<1>4. /\ DOMAIN action' = Buffers /\ action'[high] = new
      /\ \A k \in Buffers : k # high => action'[k] = action[k]
  <2>1. DOMAIN action = Buffers
    BY <1>0 DEF Kept, AreActions
  <2>2. action' = [action EXCEPT ![high] = new]
    BY <1>1 DEF new
  <2> QED BY <1>2, <2>1, <2>2
<1>5. /\ tEnd' = t + StepDt /\ t' = t /\ derived' = derived /\ running' = running
      /\ refreshed' = refreshed /\ observation' = observation /\ feature' = feature
      /\ frames' = frames /\ nLastStack' = nLastStack /\ command' = command
      /\ numSteps' = numSteps /\ episode' = episode
  BY Zenon DEF BeginStep, steps, world
<1>6. AreActions(action')
  BY <1>0, <1>3, <1>4, Zenon DEF Kept, AreActions
<1>7. tEnd' \in Nat /\ tEnd' # None
  BY <1>0, <1>5, Periods DEF Kept
<1>8. Kept'
  BY <1>0, <1>5, <1>6, <1>7, Zenon DEF Kept
<1>9. Clocked'
  <2>1. t = numSteps * StepDt /\ numSteps \in Nat
    BY <1>0, Zenon DEF Clocked
  <2>2. numSteps * StepDt \in Nat /\ (numSteps + 1) * StepDt = numSteps * StepDt + StepDt
    BY <2>1, Periods
  <2>3. tEnd' = (numSteps + 1) * StepDt /\ numSteps * StepDt <= t /\ t <= tEnd'
    BY <1>5, <2>1, <2>2, Periods
  <2> QED BY <1>0, <1>5, <1>7, <2>3, Zenon DEF Clocked
<1>10. Observed'
  BY <1>0, <1>5, Zenon DEF Observed
<1>11. Commanded'
  <2>1. LastCommand' = LastCommand
    BY <1>5, Zenon DEF LastCommand
  <2>2. ASSUME NEW k \in Buffers, NEW c \in Controllers, c <= derived, BufferOf(c - 1) = k
        PROVE  action'[k] = action[k]
    <3>1. k < c /\ c \in Buffers /\ c \in Nat /\ k \in Nat
      BY <1>2, <2>2, ControllerOf, LayersAre
    <3>2. c <= high
      <4>1. c <= l
        BY <1>2, <2>2, <3>1
      <4> QED BY <3>1, <4>1, BufferIs DEF high
    <3>3. k # high
      BY <1>2, <3>1, <3>2
    <3> QED BY <1>4, <3>3
  <2>3. SentAt(action', LastCommand, derived) /\ (t > 0 => SeenWhenSent(action', derived))
    BY <1>0, <2>2, Zenon DEF Commanded, SentAt, SeenWhenSent
  <2>4. OfEpisode(action', episode, derived)
    <3>1. ASSUME NEW k \in Buffers, k <= derived, action'[k].of # NoAction
          PROVE  action'[k].of[1] = episode
      <4>1. CASE k = high
        BY <1>3, <1>4, <4>1
      <4>2. CASE k # high
        BY <1>0, <1>4, <3>1, <4>2, Zenon DEF Commanded, OfEpisode
      <4> QED BY <4>1, <4>2
    <3> QED BY <3>1, Zenon DEF OfEpisode
  <2>5. t > 0 => StemFrom(action', episode, LastCommand, derived)
    <3>1. ASSUME NEW k \in Buffers, k < BufferOf(derived) PROVE action'[k] = action[k]
      <4>1. BufferOf(derived) \in Buffers /\ BufferOf(derived) <= derived /\ BufferOf(derived) \in Nat
            /\ k \in Nat
        BY <1>2, BufferIs, LayersAre
      <4>2. BufferOf(derived) <= l
        BY <1>2, <4>1
      <4>3. BufferOf(derived) <= high
        BY <4>1, <4>2, BufferIs DEF high
      <4>4. k # high
        BY <1>2, <3>1, <4>1, <4>3
      <4> QED BY <1>4, <4>4
    <3> QED BY <1>0, <3>1, Zenon DEF Commanded, StemFrom
  <2>6. BufferOf(derived) > 0 => action'[BufferOf(derived)].of = <<episode, numSteps>>
    <3>1. CASE derived = l
      BY <1>3, <1>4, <3>1 DEF high
    <3>2. CASE derived = 0
      <4>1. BufferOf(0) = 0
        <5>1. BufferOf(0) \in Nat /\ BufferOf(0) <= 0
          BY BufferIs, LayersAre
        <5> QED BY <5>1
      <4> QED BY <3>2, <4>1
    <3> QED BY <3>1, <3>2
  <2> QED BY <1>0, <1>5, <2>1, <2>3, <2>4, <2>5, <2>6, Zenon DEF Commanded
<1> QED BY <1>8, <1>9, <1>10, <1>11, Zenon DEF PipeInv

\* The registers as the observer finds them.
LEMMA RegistersOnTime ==
    ASSUME PipeInv, running, NEW e, e = ObserverHandle(Registers, t, TRUE, derived)
    PROVE  SameButObservation(Registers, e) /\ e.refreshed /\ UpToDate(e, t, derived)
<1> DEFINE b == Registers
<1>1. t \in Nat /\ derived \in Layers /\ DOMAIN b = RegisterNames
  BY RegistersAre, LayersAre DEF PipeInv, Kept
<1>2. /\ observation \in Nat /\ observation % ControlDt = 0
      /\ refreshed => observation = t
      /\ ~refreshed => observation = t - ControlDt
  BY Zenon DEF PipeInv, Clocked
<1>3. ~refreshed => t = observation + ControlDt
  BY <1>1, <1>2, Periods
<1>4. /\ b.observation \in Nat /\ b.observation % ControlDt = 0
      /\ b.refreshed => b.observation = t
      /\ ~b.refreshed => t = b.observation + ControlDt
  BY <1>2, <1>3, RegistersAre, Zenon
<1>5. UpToDate(b, b.observation, derived)
  BY RegistersAre, Zenon DEF UpToDate, PipeInv, Observed
<1>6. e = ObserverHandle(b, t, TRUE, derived)
  OBVIOUS
<1> HIDE DEF b
<1>7. SameButObservation(b, e) /\ e.refreshed /\ UpToDate(e, t, derived)
  BY <1>1, <1>4, <1>5, <1>6, ObserveOnTime
<1> QED BY <1>7 DEF b

\* The lower of two times.
LEMMA LowerOf ==
    ASSUME NEW x \in Nat, NEW y \in Nat, y <= x PROVE Min({x, y}) = y
<1>1. {x, y} \in SUBSET Nat /\ {x, y} # {}
  OBVIOUS
<1>2. Min({x, y}) \in {x, y} /\ \A j \in {x, y} : Min({x, y}) <= j
  BY <1>1, LowestOf
<1> QED BY <1>2

\* The end of a step is a breakpoint of the engine, and a step lasts until its end.
LEMMA StepIs ==
    ASSUME StepDt % ControlDt = 0, NEW n \in Nat, NEW now \in Nat,
           n * StepDt <= now, now < (n + 1) * StepDt
    PROVE  now \div StepDt = n
<1>1. StepDt \in Nat \ {0}
  BY Periods
<1> DEFINE r == now - n * StepDt
<1>2. n * StepDt \in Nat /\ (n + 1) * StepDt = n * StepDt + StepDt
  BY <1>1
<1>3. r \in 0 .. (StepDt - 1) /\ n * StepDt + r = now
  BY <1>1, <1>2
<1> HIDE DEF r
<1>4. (n * StepDt + r) \div StepDt = n
  BY <1>1, <1>3, DivisionIs
<1> QED BY <1>3, <1>4

\* An iteration goes from a breakpoint to the next.
LEMMA IterateOnTime ==
    ASSUME StepDt % ControlDt = 0, PipeInv, Iterate PROVE PipeInv'
<1> DEFINE e == ObserverHandle(Registers, t, TRUE, derived)
           c == ControllerHandle(Registers, t, TRUE, derived, 0)
<1>0. /\ running /\ Kept /\ Clocked /\ Observed /\ Commanded /\ tEnd # None
      /\ t \in Nat /\ tEnd \in Nat /\ t < tEnd /\ derived \in Layers
      /\ ControlDt \in Nat \ {0} /\ StepDt \in Nat \ {0}
  BY LayersAre, Periods DEF PipeInv, Kept, Iterate
<1>1. /\ t % ControlDt = 0 /\ numSteps \in Nat /\ tEnd = (numSteps + 1) * StepDt
      /\ numSteps * StepDt <= t
  BY <1>0, Zenon DEF Clocked
<1>2. SetRegisters(c)
  BY <1>1, Zenon DEF Iterate, IsBreakpoint
<1>3. /\ running' = running /\ derived' = derived /\ tEnd' = tEnd /\ numSteps' = numSteps
      /\ episode' = episode
  BY Zenon DEF Iterate, steps, world
<1>4. t' = t + ControlDt /\ t + ControlDt <= tEnd /\ (t + ControlDt) % ControlDt = 0
  <2>1. tEnd % ControlDt = 0
    <3>1. tEnd % StepDt = 0
      <4>1. numSteps + 1 \in Nat
        BY <1>1
      <4> QED BY <1>0, <1>1, <4>1, MultipleOf
    <3> QED BY <1>0, <3>1, MultipleOfMultiple
  <2>2. t + ControlDt <= tEnd
    BY <1>0, <1>1, <2>1, MultiplesAdd
  <2>3. t' = Min({tEnd, t + ControlDt - (t % ControlDt)})
    BY Zenon DEF Iterate
  <2>4. t + ControlDt - (t % ControlDt) = t + ControlDt /\ t + ControlDt \in Nat
    BY <1>0, <1>1
  <2>5. Min({tEnd, t + ControlDt}) = t + ControlDt
    BY <1>0, <2>2, <2>4, LowerOf
  <2>6. ControlDt % ControlDt = 0
    <3>1. 1 * ControlDt = ControlDt /\ 1 \in Nat
      BY <1>0
    <3>2. (1 * ControlDt) % ControlDt = 0
      BY <1>0, MultipleOf, <3>1
    <3> QED BY <3>1, <3>2
  <2>7. (t + ControlDt) % ControlDt = 0
    BY <1>0, <1>1, <2>6, MultiplesAdd
  <2> QED BY <2>2, <2>3, <2>4, <2>5, <2>7, Zenon
<1>5. SameButObservation(Registers, e) /\ e.refreshed /\ UpToDate(e, t, derived)
  BY <1>0, RegistersOnTime
<1>6. HandledFrom(c, e, Registers, t, TRUE, derived)
  <2>1. DOMAIN Registers = RegisterNames /\ AreActions(Registers.action)
    BY <1>0, RegistersAre, Zenon DEF Kept
  <2> QED BY <1>0, <2>1, HandleLeaves
<1> HIDE DEF e, c
<1>7. /\ refreshed' = FALSE /\ observation' = t /\ feature' = e.feature
      /\ frames' = e.frames /\ nLastStack' = e.nLastStack /\ action' = c.action
      /\ command'.at = t /\ command'.seen = t
  BY <1>2, <1>5, <1>6 DEF SetRegisters, HandledFrom, UpToDate
<1>8. t' > 0 /\ t' \in Nat /\ t' - ControlDt = t
  BY <1>0, <1>4
<1>9. Kept'
  BY <1>0, <1>3, <1>6, <1>7, <1>8, Zenon DEF Kept, HandledFrom
<1>10. Clocked'
  <2>1. numSteps * StepDt <= t'
    <3>1. numSteps * StepDt \in Nat
      BY <1>0, <1>1
    <3> QED BY <1>0, <1>1, <1>4, <3>1
  <2> QED BY <1>0, <1>1, <1>3, <1>4, <1>7, <1>8, <2>1, Zenon DEF Clocked
<1>11. Observed'
  BY <1>3, <1>5, <1>7, Zenon DEF Observed, UpToDate
<1>12. Commanded'
  <2>1. LastCommand' = t
    BY <1>8 DEF LastCommand
  <2>2. t > 0 => LastCommand = t - ControlDt
    BY DEF LastCommand
  <2>3. /\ AreActions(e.action) /\ e.action = action /\ IsComputed(action', e, t, TRUE, derived)
        /\ e.observation = t
    BY <1>0, <1>5, <1>6, <1>7, RegistersAre, Zenon DEF Kept, HandledFrom, UpToDate
  <2>4. SentAt(action', t, derived) /\ SeenWhenSent(action', derived)
    <3>1. /\ t > 0 => SentAt(e.action, t - ControlDt, derived)
          /\ t > 0 => SeenWhenSent(e.action, derived)
      BY <1>0, <2>2, <2>3, Zenon DEF Commanded
    <3>2. /\ SentAt(action', t, derived)
          /\ (e.observation = t /\ (t > 0 => SeenWhenSent(e.action, derived)))
                => SeenWhenSent(action', derived)
      BY <1>0, <1>1, <2>3, <3>1, SentOnTime
    <3> QED BY <2>3, <3>1, <3>2, Zenon
  <2>5. OfEpisode(action', episode, derived)
    <3> DEFINE S == {NoAction} \cup {action[k].of : k \in {j \in Buffers : j <= derived}}
    <3>1. NoAction \in S /\ \A k \in Buffers : k <= derived => action[k].of \in S
      OBVIOUS
    <3>2. ASSUME NEW x \in S, x # NoAction PROVE x[1] = episode
      <4>1. PICK k \in Buffers : k <= derived /\ x = action[k].of
        BY <3>2
      <4> QED BY <1>0, <3>2, <4>1, Zenon DEF Commanded, OfEpisode
    <3> HIDE DEF S
    <3>3. \A k \in Buffers : k <= derived => e.action[k].of \in S
      BY <2>3, <3>1, Zenon
    <3>4. \A k \in Buffers : k <= derived => action'[k].of \in S
      BY <1>0, <2>3, <3>1, <3>3, SentWasThere
    <3> QED BY <3>2, <3>4, Zenon DEF OfEpisode
  <2>6. /\ StemFrom(action', episode, t, derived)
        /\ action'[BufferOf(derived)] = action[BufferOf(derived)]
    <3>1. t \div StepDt = numSteps
      BY <1>0, <1>1, StepIs
    <3>2. BufferOf(derived) > 0 => e.action[BufferOf(derived)].of = <<episode, t \div StepDt>>
      BY <1>0, <2>3, <3>1, Zenon DEF Commanded
    <3>3. t > 0 => StemFrom(e.action, episode, t - ControlDt, derived)
      BY <1>0, <2>2, <2>3, Zenon DEF Commanded
    <3> DEFINE f == action'
               p == episode
    <3>4. /\ AreActions(e.action) /\ t \in Nat /\ t % ControlDt = 0 /\ derived \in Layers
          /\ IsComputed(f, e, t, TRUE, derived)
          /\ BufferOf(derived) > 0 => e.action[BufferOf(derived)].of = <<p, t \div StepDt>>
          /\ t > 0 => StemFrom(e.action, p, t - ControlDt, derived)
      BY <1>0, <1>1, <2>3, <3>2, <3>3
    <3> HIDE DEF f, p
    <3>5. StemFrom(f, p, t, derived) /\ f[BufferOf(derived)] = e.action[BufferOf(derived)]
      BY <3>4, StemsOnTime
    <3> QED BY <2>3, <3>5, Zenon DEF f, p
  <2>7. (tEnd # None /\ BufferOf(derived) > 0) =>
           action'[BufferOf(derived)].of = <<episode, numSteps>>
    BY <1>0, <2>6, Zenon DEF Commanded
  <2> QED BY <1>3, <1>7, <2>1, <2>4, <2>5, <2>6, <2>7, Zenon DEF Commanded
<1> QED BY <1>9, <1>10, <1>11, <1>12, Zenon DEF PipeInv

\* The observation of the end of the step is of that very time.
LEMMA EndStepOnTime ==
    ASSUME PipeInv, EndStep PROVE PipeInv'
<1> DEFINE e == ObserverHandle(Registers, t, TRUE, derived)
<1>0. /\ t \in Nat /\ tEnd = t /\ tEnd # None /\ running
      /\ Kept /\ Clocked /\ Observed /\ Commanded
  <2>1. t \in Nat /\ tEnd = t /\ None \notin Int
    BY Periods DEF PipeInv, Kept, EndStep
  <2>2. tEnd # None
    BY <2>1
  <2> QED BY <2>1, <2>2, Zenon DEF PipeInv, Kept
<1>1. SetRegisters(e)
  BY Zenon DEF EndStep
<1>2. /\ running' = running /\ derived' = derived /\ tEnd' = None /\ numSteps' = numSteps + 1
      /\ episode' = episode /\ t' = t
  BY Zenon DEF EndStep, world
<1>3. SameButObservation(Registers, e) /\ e.refreshed /\ UpToDate(e, t, derived)
  BY <1>0, RegistersOnTime
<1> HIDE DEF e
<1>4. /\ refreshed' = e.refreshed /\ observation' = t /\ feature' = e.feature
      /\ frames' = e.frames /\ nLastStack' = e.nLastStack /\ action' = action
      /\ command' = command
  BY <1>1, <1>3, RegistersAre, Zenon DEF SetRegisters, SameButObservation, UpToDate
<1>5. Kept'
  BY <1>0, <1>2, <1>4, Zenon DEF Kept
<1>6. Clocked'
  <2>1. t % ControlDt = 0 /\ numSteps \in Nat /\ t = (numSteps + 1) * StepDt
    BY <1>0, Zenon DEF Clocked
  <2>2. numSteps + 1 \in Nat
    BY <2>1
  <2> QED BY <1>0, <1>2, <1>3, <1>4, <2>1, <2>2, Zenon DEF Clocked
<1>7. Observed'
  BY <1>2, <1>3, <1>4, Zenon DEF Observed, UpToDate
<1>8. LastCommand' = LastCommand
  BY <1>2, Zenon DEF LastCommand
<1>9. Commanded'
  BY <1>0, <1>2, <1>4, <1>8, Zenon DEF Commanded
<1> QED BY <1>5, <1>6, <1>7, <1>9, Zenon DEF PipeInv

---------------------------------------------------------------------------
(* Whoever runs the episodes.                                              *)

\* The registers before the first reset.
LEMMA PipeInit == SessionInit => SessionInv
<1> SUFFICES ASSUME SessionInit PROVE SessionInv
  OBVIOUS
<1>1. /\ running = FALSE /\ t = 0 /\ derived = 0 /\ action = NoRegisters.action
      /\ tEnd = None /\ runner = "user"
  BY Zenon DEF SessionInit, Init
<1>2. NoRegisters.action = [k \in Buffers |-> NullAction]
  BY DEF NoRegisters
<1>3. AreActions(action)
  <2>1. DOMAIN NullAction = ActionNames
    BY DEF NullAction, ActionNames
  <2> QED BY <1>1, <1>2, <2>1 DEF AreActions
<1>4. 0 \in Nat /\ running # TRUE
  BY <1>1
<1> QED BY <1>1, <1>3, <1>4, Zenon DEF SessionInv, PipeInv, Kept

\* What leaves the pipeline as it is.
LEMMA PipeKept == ASSUME PipeInv, UNCHANGED vars PROVE PipeInv'
<1>1. /\ running' = running /\ t' = t /\ derived' = derived /\ tEnd' = tEnd
      /\ UNCHANGED <<blocks, steps, world>>
  BY Zenon DEF vars
<1>2. /\ refreshed' = refreshed /\ observation' = observation /\ feature' = feature
      /\ frames' = frames /\ nLastStack' = nLastStack /\ action' = action
      /\ command' = command /\ numSteps' = numSteps /\ episode' = episode
  BY <1>1, Zenon DEF blocks, steps, world
<1> QED BY <1>1, <1>2, Zenon DEF PipeInv, Kept, Clocked, Observed, Commanded, LastCommand

\* Every step of a session.
LEMMA PipeStep ==
    ASSUME StepDt % ControlDt = 0, SessionInv, [SessionNext]_sessionVars PROVE SessionInv'
<1>0. /\ PipeInv /\ derived \in {0, Top} /\ Top \in Layers /\ 0 \in Layers
      /\ Top \in {0, Top} /\ 0 \in {0, Top} /\ (runner # "user" => derived = 0)
  BY LayersAre DEF SessionInv, PipeInv, Kept
<1>1. CASE UserActs
  <2>1. runner = "user" /\ runner' = "user"
    BY <1>1, Zenon DEF UserActs
  <2>2. CASE Reset(Top)
    BY <1>0, <2>1, <2>2, ResetOnTime DEF SessionInv
  <2>3. CASE ResetFails(Top)
    BY <1>0, <2>1, <2>3, FailedResetOnTime DEF SessionInv
  <2>4. CASE BeginStep(Top)
    BY <1>0, <2>1, <2>4, BeginStepOnTime DEF SessionInv
  <2>5. CASE StopSimulation
    BY <1>0, <2>1, <2>5, StopOnTime DEF SessionInv
  <2> QED BY <1>1, <2>2, <2>3, <2>4, <2>5, Zenon DEF UserActs
<1>2. CASE UNCHANGED vars /\ (runner' = runner)
  <2>1. PipeInv' /\ derived' = derived
    BY <1>0, <1>2, PipeKept DEF vars
  <2> QED BY <1>0, <1>2, <2>1, Zenon DEF SessionInv
<1>3. CASE EngineActs
  <2>1. runner' = runner /\ derived' = derived
    BY <1>3, Zenon DEF EngineActs, Iterate, EndStep
  <2>2. PipeInv'
    BY <1>0, <1>3, IterateOnTime, EndStepOnTime DEF EngineActs
  <2> QED BY <1>0, <2>1, <2>2, Zenon DEF SessionInv
<1>4. CASE EngineFails
  <2>1. derived' = derived /\ runner' \in {runner, "user"} /\ StepFails
    BY <1>4, Zenon DEF EngineFails, StepFails
  <2>2. PipeInv'
    BY <1>0, <2>1, StopOnTime
  <2> QED BY <1>0, <2>1, <2>2 DEF SessionInv
<1>5. CASE Evaluate \/ Play
  <2>1. Reset(0) \/ ResetFails(0)
    BY <1>5, Zenon DEF Evaluate, Play
  <2>2. derived' = 0
    BY <2>1, Zenon DEF Reset, ResetFails, Prepare
  <2>3. PipeInv'
    BY <1>0, <2>1, ResetOnTime, FailedResetOnTime
  <2> QED BY <2>2, <2>3, Zenon DEF SessionInv
<1>6. CASE EvaluatePolicy \/ CallStep
  <2>1. BeginStep(0) /\ runner # "user" /\ runner' = runner
    BY <1>6 DEF EvaluatePolicy, CallStep
  <2>2. derived \in {0, 0} /\ derived' = 0
    BY <1>0, <2>1 DEF BeginStep
  <2>3. PipeInv'
    BY <1>0, <2>1, <2>2, BeginStepOnTime
  <2> QED BY <2>2, <2>3, Zenon DEF SessionInv
<1>7. CASE EvaluateInterrupted \/ EvaluateReturns \/ PlayReturns
  <2>1. runner' = "user" /\ (UNCHANGED vars \/ StopSimulation)
    BY <1>7, Zenon DEF EvaluateInterrupted, EvaluateReturns, PlayReturns, ReplayEpisode
  <2>2. PipeInv'
    BY <1>0, <2>1, StopOnTime, PipeKept
  <2> QED BY <2>1, <2>2, Zenon DEF SessionInv
<1>8. ASSUME \/ SetMode \/ PlayInterrupted \/ SkipCall \/ ReadKeys
             \/ \E key \in {Exit, Pause, Arrow, CtrlC} : Press(key)
             \/ UNCHANGED sessionVars
      PROVE  UNCHANGED vars /\ runner' = runner
  BY <1>8, Zenon DEF SetMode, PlayInterrupted, SkipCall, ReadKeys, Press, sessionVars
<1> QED
  BY <1>1, <1>2, <1>3, <1>4, <1>5, <1>6, <1>7, <1>8, Zenon DEF SessionNext, Evaluation, Interaction

\* The update before the one that is next.
LEMMA LastOfBefore ==
    ASSUME NEW now \in Nat, now > 0, NEW d \in Nat \ {0}, now % d = 0
    PROVE  LastUpdate(now - 1, d) = now - d /\ now - d \in Nat
<1> DEFINE q == now \div d
<1>1. q \in Nat /\ now = q * d
  BY MultipleIs
<1> HIDE DEF q
<1>2. q # 0
  <2>1. 0 * d = 0
    OBVIOUS
  <2> QED BY <1>1, <2>1
<1>3. q - 1 \in Nat /\ (q - 1) * d = q * d - d
  <2>1. q - 1 \in Nat
    BY <1>1, <1>2
  <2> QED BY <1>1, <2>1
<1> DEFINE m == q - 1
           r == d - 1
<1>4. m \in Nat /\ r \in 0 .. (d - 1) /\ m * d + r = now - 1 /\ m * d = now - d /\ m * d \in Nat
  BY <1>1, <1>3
<1>5. now - 1 \in Nat
  OBVIOUS
<1> HIDE DEF m, r
<1>6. (m * d + r) \div d = m
  BY <1>4, DivisionIs
<1>7. (now - 1) \div d = m
  BY <1>4, <1>6
<1> DEFINE x == now - 1
<1>8. x \in Nat /\ x \div d = m
  BY <1>5, <1>7
<1> HIDE DEF x
<1>9. LastUpdate(x, d) = m * d
  BY <1>8, LastUpdateIs
<1> QED BY <1>4, <1>9 DEF x

\* All of it is on schedule.
LEMMA BlocksAreOnSchedule == ASSUME PipeInv PROVE BlocksOnSchedule /\ FramesOnSchedule
<1> SUFFICES ASSUME running PROVE BlocksOnSchedule /\ FramesOnSchedule
  BY Zenon DEF BlocksOnSchedule, FramesOnSchedule
<1>1. t \in Nat /\ Clocked /\ Observed /\ Commanded /\ ControlDt \in Nat \ {0}
  BY Periods DEF PipeInv, Kept
<1>2. tEnd = None => observation = t
  BY <1>1, Zenon DEF Clocked
<1>3. t % ControlDt = 0
  BY <1>1, Zenon DEF Clocked
<1>4. t > 0 => LastUpdate(t - 1, ControlDt) = t - ControlDt /\ t - ControlDt \in Nat
  BY <1>1, <1>3, LastOfBefore
<1>5. (t > 0 => LastCommand = t - ControlDt) /\ (~(t > 0) => LastCommand = 0)
  BY <1>1 DEF LastCommand
<1>6. LastCommand >= 0
  BY <1>4, <1>5
<1>7. t > 0 => command.at = LastUpdate(t - 1, ControlDt)
  BY <1>1, <1>4, <1>5, Zenon DEF Commanded
<1>8. BlocksOnSchedule
  BY <1>1, <1>2, <1>6, <1>7, Zenon
     DEF BlocksOnSchedule, Observed, Commanded, Estimates, SentAt, SeenWhenSent
<1>9. FramesOnSchedule
  BY <1>1, Zenon DEF FramesOnSchedule, Observed, Framed, FramesUpTo, FrameDt
<1> QED BY <1>8, <1>9

\* Likewise for the actions: the time of the property is the one of the lemma above.
LEMMA ActionsAreOnSchedule == ASSUME PipeInv PROVE ActionsOnSchedule
<1> DEFINE Is(f) == f = [k \in Buffers |->
             IF {l \in Controllers : k < l /\ l <= derived} = {} THEN command.at
             ELSE LastUpdate(f[Min({l \in Controllers : k < l /\ l <= derived})],
                             ControlDtOf[Min({l \in Controllers : k < l /\ l <= derived})])]
           time == CHOOSE f : Is(f)
<1>1. derived \in Layers /\ t \in Nat
  BY LayersAre DEF PipeInv, Kept
<1>2. AreTimes(time, command.at, derived)
  <2>1. \E f : AreTimes(f, command.at, derived)
    BY <1>1, TimesExist
  <2>2. \E f : Is(f)
    BY <2>1, Zenon DEF AreTimes, NextTime, AboveOf
  <2>3. Is(time)
    <3> HIDE DEF Is
    <3> QED BY <2>2, Zenon
  <2> HIDE DEF time
  <2> QED BY <2>3, Zenon DEF AreTimes, NextTime, AboveOf
<1>3. ASSUME running, NEW k \in Buffers
      PROVE  /\ (k <= derived /\ action[k].of # NoAction) => action[k].of[1] = episode
             /\ (t > 0 /\ AboveOf(k, derived) # {} /\ k <= derived) =>
                  action[k].of = <<episode, time[k] \div StepDt>>
  <2>0. Commanded /\ Clocked
    BY <1>3, Zenon DEF PipeInv
  <2>1. (k <= derived /\ action[k].of # NoAction) => action[k].of[1] = episode
    BY <2>0, Zenon DEF Commanded, OfEpisode
  <2>2. ASSUME t > 0, AboveOf(k, derived) # {}, k <= derived
        PROVE  action[k].of = <<episode, time[k] \div StepDt>>
    <3>1. LastCommand \in Nat /\ command.at = LastCommand
      <4>1. t % ControlDt = 0 /\ ControlDt \in Nat \ {0}
        BY <2>0, Periods DEF Clocked
      <4>2. t - ControlDt \in Nat
        BY <1>1, <2>2, <4>1, LastOfBefore
      <4> QED BY <2>0, <2>2, <4>2 DEF LastCommand, Commanded
    <3> HIDE DEF time
    <3>2. AreTimes(time, LastCommand, derived)
      BY <1>2, <3>1, Zenon
    <3>3. /\ k < BufferOf(derived)
          /\ time[k] = LastUpdate(LastCommand, ControlDtOf[BufferOf(derived)])
      BY <1>1, <2>2, <3>1, <3>2, TimesAre
    <3>4. StemFrom(action, episode, LastCommand, derived)
      BY <2>0, <2>2, Zenon DEF Commanded
    <3> QED BY <3>3, <3>4, Zenon DEF StemFrom
  <2> QED BY <2>1, <2>2
<1> HIDE DEF time
<1>4. running => \A k \in Buffers :
             /\ (k <= derived /\ action[k].of # NoAction) => action[k].of[1] = episode
             /\ (t > 0 /\ {l \in Controllers : k < l /\ l <= derived} # {} /\ k <= derived) =>
                  action[k].of = <<episode, time[k] \div StepDt>>
  BY <1>3, Zenon DEF AboveOf
<1> QED BY <1>4, Zenon DEF ActionsOnSchedule, time

\* Every buffer of a pipeline is up to date and stems from the action of its own step, whatever
\* its blocks and whoever runs its episodes (compute_observation and compute_command of the
\* wrappers, bases/pipeline_bases.py), provided that the control period divides the step: the
\* code asks for no more than one being shorter than the other (bases/block_bases.py).
THEOREM PipelineIsOnSchedule ==
    ASSUME StepDt % ControlDt = 0 PROVE SessionSpec => []PipelineOnSchedule
<1>1. SessionInit => SessionInv
  BY PipeInit
<1>2. SessionInv /\ [SessionNext]_sessionVars => SessionInv'
  BY PipeStep
<1>3. SessionInv => PipelineOnSchedule
  BY BlocksAreOnSchedule, ActionsAreOnSchedule, Zenon DEF SessionInv, PipelineOnSchedule
<1> QED BY <1>1, <1>2, <1>3, PTL DEF SessionSpec
=============================================================================
