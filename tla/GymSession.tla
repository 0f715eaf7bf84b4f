------------------------------ MODULE GymSession ------------------------------
(***************************************************************************)
(* Who runs the episodes of a pipeline: its user, `evaluate` with a policy *)
(* or `play_interactive` with the keyboard, whose keys are put in a queue  *)
(* by a thread of its own (envs/env_generic.py, envs/internal/play.py).    *)
(* Both are methods of the environment: they reset and step layer 0.       *)
(***************************************************************************)
EXTENDS GymPipeline

CONSTANTS Exit, Pause, Arrow, CtrlC,    \* keys
          MaxKeys,               \* bound: keys waiting
          Horizons               \* of the evaluations, None to disable

VARIABLES training,   \* _is_training
          chosen,     \* mode chosen by the user, or found by the last runner
          runner,     \* who runs the episode: "user", "evaluate" or "play"
          horizon,    \* of the last evaluation
          raised,     \* a runner ended by an exception
          keys,       \* input_queue
          paused,     \* is_paused
          stop,       \* the interaction loop is to stop
          called,     \* the loop has called its function, keys are next
          interactive,\* _is_interactive
          memory      \* episode of the oldest observation the policy remembers, 0 if none

loop == <<paused, stop, called>>
mode == <<training, chosen, interactive>>
sessionVars == <<vars, mode, runner, horizon, raised, keys, loop, memory>>

SessionInit ==
    /\ Init
    /\ training = TRUE /\ chosen = TRUE /\ interactive = FALSE
    /\ runner = "user" /\ horizon = None /\ raised = FALSE /\ keys = <<>>
    /\ paused = TRUE /\ stop = FALSE /\ called = FALSE
    /\ memory = 0

UserActs ==
    /\ runner = "user"
    /\ Reset(Top) \/ ResetFails(Top) \/ BeginStep(Top) \/ StopSimulation
    /\ UNCHANGED <<mode, runner, horizon, raised, keys, loop, memory>>

\* train and eval.
SetMode ==
    /\ runner = "user" /\ tEnd = None
    /\ training' \in BOOLEAN /\ chosen' = training'
    /\ UNCHANGED <<vars, interactive, runner, horizon, raised, keys, loop, memory>>

EngineActs ==
    /\ Iterate \/ EndStep
    /\ UNCHANGED <<mode, runner, horizon, raised, keys, loop, memory>>

\* Variant: the mode is left as it is.
RestoredNot(isTraining) == training

\* The mode at the end of a call that was made in mode isTraining.
Restored(isTraining) == IF isTraining THEN TRUE ELSE training

\* Where the exception goes depends on who called: the loop of the keyboard prints it and
\* stops, the others let it go through.
EngineFails ==
    /\ StepFails
    /\ IF runner = "play" THEN stop' = TRUE /\ UNCHANGED <<runner, raised>>
                          ELSE runner' = "user" /\ raised' = TRUE /\ UNCHANGED stop
    /\ UNCHANGED <<mode, horizon, keys, paused, called, memory>>

---------------------------------------------------------------------------
(* evaluate *)

Evaluate ==
    /\ runner = "user" /\ tEnd = None
    /\ chosen' = training /\ training' = FALSE /\ horizon' \in Horizons
    /\ \/ Reset(0) /\ runner' = "evaluate" /\ UNCHANGED raised
       \/ ResetFails(0) /\ runner' = "user" /\ raised' = TRUE
    /\ UNCHANGED <<interactive, keys, loop, memory>>

IsFinished == numSteps > 0 /\ (outcome # "on" \/ (horizon # None /\ numSteps > horizon))

\* Variant: the policy forgets at the end of an episode.
RememberedSinceEnd == IF outcome # "on" \/ memory = 0 THEN episode ELSE memory

\* What the policy remembers once it is called: it forgets if there is no reward yet.
Remembered == IF reward = {} \/ memory = 0 THEN episode ELSE memory

EvaluatePolicy ==
    /\ runner = "evaluate" /\ ~IsFinished
    /\ BeginStep(0)
    /\ memory' = Remembered
    /\ UNCHANGED <<mode, runner, horizon, raised, keys, loop>>

\* The end of the loop, then the replay.
EvaluateReturns ==
    /\ runner = "evaluate" /\ IsFinished
    /\ StopSimulation
    /\ training' = Restored(chosen) /\ runner' = "user"
    /\ UNCHANGED <<chosen, interactive, horizon, raised, keys, loop, memory>>

\* replay, if it is asked for: it stops the simulation of an episode that is over.
ReplayEpisode == UNCHANGED vars \/ (outcome # "on" /\ StopSimulation)

\* KeyboardInterrupt between two steps: nothing but the replay stops the simulation.
EvaluateInterrupted ==
    /\ runner = "evaluate" /\ tEnd = None
    /\ training' = Restored(chosen) /\ runner' = "user"
    /\ ReplayEpisode
    /\ UNCHANGED <<chosen, interactive, horizon, raised, keys, loop, memory>>

---------------------------------------------------------------------------
(* play_interactive *)

Play ==
    /\ runner = "user" /\ tEnd = None
    /\ chosen' = training /\ training' = FALSE /\ interactive' = TRUE
    /\ \/ Reset(0) /\ runner' = "play" /\ UNCHANGED raised
       \/ ResetFails(0) /\ runner' = "user" /\ raised' = TRUE
    /\ keys' = <<>> /\ paused' = TRUE /\ stop' = FALSE /\ called' = FALSE
    /\ UNCHANGED <<horizon, memory>>

KeyOf(key) == IF key = CtrlC THEN Exit ELSE key

\* The thread of the keyboard.
Press(key) ==
    /\ runner = "play" /\ Len(keys) < MaxKeys
    /\ keys' = Append(keys, KeyOf(key))
    /\ UNCHANGED <<vars, mode, runner, horizon, raised, loop, memory>>

\* One call of the function: a step.
CallStep ==
    /\ runner = "play" /\ ~stop /\ ~called /\ ~paused
    /\ BeginStep(0)
    /\ called' = TRUE
    /\ UNCHANGED <<mode, runner, horizon, raised, keys, paused, stop, memory>>

SkipCall ==
    /\ runner = "play" /\ ~stop /\ ~called /\ paused
    /\ called' = TRUE
    /\ UNCHANGED <<vars, mode, runner, horizon, raised, keys, paused, stop, memory>>

\* All the keys that wait, one after the other.
PausedAfter(pressed) ==
    FoldSeq(LAMBDA key, acc : IF key = Pause THEN ~acc ELSE acc, paused, pressed)

\* Variant: only the last key is looked at.
StopsAtLast(pressed) == pressed # <<>> /\ pressed[Len(pressed)] = Exit

StopsAt(pressed) == Exit \in {pressed[i] : i \in DOMAIN pressed}

ReadKeys ==
    /\ runner = "play" /\ called /\ tEnd = None
    /\ called' = FALSE /\ keys' = <<>>
    /\ paused' = PausedAfter(keys)
    /\ stop' = (stop \/ StopsAt(keys) \/ (outcome # "on" /\ ~paused))
    /\ UNCHANGED <<vars, mode, runner, horizon, raised, memory>>

\* KeyboardInterrupt in the loop, but for its function.
PlayInterrupted ==
    /\ runner = "play" /\ tEnd = None
    /\ stop' = TRUE /\ called' = FALSE
    /\ UNCHANGED <<vars, mode, runner, horizon, raised, keys, paused, memory>>

PlayReturns ==
    /\ runner = "play" /\ stop /\ ~called
    /\ StopSimulation
    /\ training' = Restored(chosen) /\ interactive' = FALSE
    /\ runner' = "user" /\ keys' = <<>>
    /\ UNCHANGED <<chosen, horizon, raised, loop, memory>>

Evaluation == EvaluatePolicy \/ EvaluateReturns
Interaction == CallStep \/ SkipCall \/ ReadKeys \/ PlayReturns

SessionNext ==
    \/ UserActs \/ SetMode \/ EngineActs \/ EngineFails
    \/ Evaluate \/ EvaluateInterrupted \/ Evaluation
    \/ Play \/ PlayInterrupted \/ Interaction \/ \E key \in {Exit, Pause, Arrow, CtrlC} : Press(key)

SessionSpec == SessionInit /\ [][SessionNext]_sessionVars
FairSession ==
    /\ SessionSpec
    /\ WF_sessionVars(EngineActs) /\ WF_sessionVars(Evaluation) /\ WF_sessionVars(Interaction)

---------------------------------------------------------------------------
\* Every register of the session keeps its type: the queue holds keys of the loop only.
SessionTypeOK ==
    /\ TypeOK
    /\ {training, chosen, interactive, raised, paused, stop, called} \subseteq BOOLEAN
    /\ runner \in {"user", "evaluate", "play"}
    /\ horizon \in Horizons \cup {None}
    /\ keys \in Seq({Exit, Pause, Arrow}) /\ memory \in 0 .. MaxEpisodes

\* Whatever ends an evaluation or an interaction, except an exception that goes through
\* it, the user finds the environment in the mode it was put in, not interactive, and
\* nothing steps the simulation behind its back.
ModeIsRestored ==
    (runner = "user" /\ ~raised) =>
      training = chosen /\ ~interactive

\* The actions of an evaluation depend on the observations of its own episode only, however
\* the evaluations before it ended: the policy carries nothing over.
MemoryOfEpisode == (runner = "evaluate" /\ tEnd # None) => memory = episode

\* An evaluation returns, whatever the policy, unless it keeps being interrupted.
EvaluationReturns == (runner = "evaluate") ~> (runner # "evaluate")

\* An interaction ends once the exit key is pressed, whatever the keys around it, paused
\* or not, the simulation failing or over.
ExitKeyEnds == (runner = "play" /\ Exit \in {keys[i] : i \in DOMAIN keys}) ~> (runner # "play")

\* Whoever runs the episodes, the user gets the environment back.
RunnersReturn == EvaluationReturns /\ ExitKeyEnds
=============================================================================
