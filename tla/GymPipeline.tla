----------------------------- MODULE GymPipeline -----------------------------
(***************************************************************************)
(* A gym environment of jiminy and the pipeline of blocks around it        *)
(* (gym_jiminy/common: envs/env_generic.py, bases/, blocks/, wrappers/).   *)
(*                                                                         *)
(* Layer 0 is the environment, layer l its l-th wrapper.  The engine calls *)
(* the controller handle of the topmost layer set up at reset every        *)
(* `ControlDt` ticks; the environment calls its observer handle once more  *)
(* at the end of every step.  What a buffer holds is abstracted to the     *)
(* time it was computed at and the action it stems from; the target of a   *)
(* proportional-derivative controller keeps its value.                     *)
(***************************************************************************)
EXTENDS Integers, Sequences, FiniteSets, SequencesExt

CONSTANTS Blocks,          \* sequence of [kind, ratio]; ratio is the number of
                           \* frames that are skipped for a "stack"
          ControlDt,       \* controllerUpdatePeriod of the engine, in ticks
          StepDt,          \* step_dt of the environment, in ticks
          MaxSteps,        \* simulation_duration_max // step_dt
          NumStack,        \* frames kept by a stack
          InitIterations,  \* calls of the controller by a start of the engine
          Speeds,          \* values of the actions
          Measured,        \* positions of the motor at reset
          PosMax, SpeedMax,\* bounds of the target, symmetric
          Impulses,        \* disturbances registered by the set up of an episode
          MaxEpisodes,     \* bound: number of resets
          NoAction, None

StepsBound == MaxSteps + 2    \* bound: steps of an episode, some of them after its end

\* build_pipeline wraps the environment once per block, the lowest first.
Layers == 0 .. Len(Blocks)
\* The wrapper of a block is the one of the class of the block.
IsKind(l, kinds) == l > 0 /\ Blocks[l].kind \in kinds
Observers == {l \in Layers : IsKind(l, {"observer"})}
Controllers == {l \in Layers : IsKind(l, {"controller", "pd"})}
Pds == {l \in Layers : IsKind(l, {"pd"})}
Stacks == {l \in Layers : IsKind(l, {"stack"})}
\* Wrappers share the action of what they wrap, unless they are controllers.
Buffers == {0} \cup Controllers

ASSUME PipelineAssumption ==
    /\ Blocks \in Seq([kind : {"observer", "controller", "pd", "stack"}, ratio : Nat])
    /\ \A l \in Observers \cup Controllers : Blocks[l].ratio > 0
    /\ {ControlDt, StepDt, NumStack, InitIterations, PosMax, SpeedMax} \subseteq Nat \ {0}
    /\ MaxSteps \in Nat /\ MaxEpisodes \in Nat /\ None \notin Int

VARIABLES running,    \* is_simulation_running
          t,          \* stepper_state.t
          derived,    \* _env_derived, the layer whose handles are called
          refreshed,  \* __is_observation_refreshed of that layer
          observation,\* time of the last refresh of the observation of layer 0
          feature,    \* time of the last estimate of every observer, and iterations of its filter
          frames,     \* observations kept by every stack, oldest first
          nLastStack, \* __n_last_stack of every stack
          action,     \* every action buffer
          target,     \* _command_state of every proportional-derivative controller
          command,    \* what the engine applies
          tEnd,       \* end of the step under way, or None
          numSteps,   \* num_steps
          beyond,     \* _num_steps_beyond_terminate
          outcome,    \* of the last step: "on", "done" or "truncated"
          reward,     \* of the last step: the terms it is the sum of, "nan" beyond the end
          info,       \* what is known of the terms of the reward, in _info
          forces,     \* impulse forces registered in the engine
          drawn,      \* episodes whose draws the options of the engine and the robot hold
          episode     \* number of resets

blocks == <<refreshed, observation, feature, frames, nLastStack, action, target, command>>
steps == <<numSteps, beyond, outcome, reward, info>>
world == <<forces, drawn, episode>>
vars == <<running, t, derived, blocks, tEnd, steps, world>>

Zero == -1                                        \* the time of a buffer filled with 0
NullAction == [of |-> NoAction, value |-> 0, at |-> Zero, seen |-> Zero]

---------------------------------------------------------------------------
(* Periods, computed from the lowest layer to the highest by `_setup`.     *)

ControlDtOf[l \in Layers] ==
    IF l = 0 THEN ControlDt
    ELSE IF l \in Controllers THEN Blocks[l].ratio * ControlDtOf[l - 1] ELSE ControlDtOf[l - 1]

ObserveDtOf[l \in Layers] ==
    IF l = 0 THEN ControlDt
    ELSE IF l \in Observers THEN Blocks[l].ratio * ObserveDtOf[l - 1] ELSE ObserveDtOf[l - 1]

IsBreakpoint(now, dt) == now % dt = 0

\* The buffer that layer l reads its action from.
BufferOf(l) == CHOOSE k \in Buffers : k <= l /\ \A j \in Buffers : j <= l => j <= k

---------------------------------------------------------------------------
(* The blocks, as functions on a record of all their registers.            *)

Registers == [refreshed |-> refreshed, observation |-> observation, feature |-> feature,
              frames |-> frames, nLastStack |-> nLastStack, action |-> action,
              target |-> target, command |-> command]

SetRegisters(b) ==
    /\ refreshed' = b.refreshed /\ observation' = b.observation /\ feature' = b.feature
    /\ frames' = b.frames /\ nLastStack' = b.nLastStack /\ action' = b.action
    /\ target' = b.target /\ command' = b.command

NoFeature == [at |-> Zero, count |-> 0]
NoFrames == [i \in 1 .. NumStack |-> Zero]

SetUpEnv(b) ==
    [b EXCEPT !.refreshed = TRUE, !.observation = Zero, !.action[0] = NullAction,
              !.command = NullAction]

SetUpObservers(b, top) ==
    [b EXCEPT !.feature = [l \in Observers |-> IF l <= top THEN NoFeature ELSE @[l]]]

SetUpControllers(b, top) ==
    [b EXCEPT !.action = [k \in Buffers |-> IF k <= top THEN NullAction ELSE @[k]]]

SetUpTargets(b, top) ==
    [b EXCEPT !.target = [l \in Pds |-> IF l <= top THEN [pos |-> 0, move |-> 0] ELSE @[l]]]

SetUpStacks(b, top) ==
    [b EXCEPT !.frames = [l \in Stacks |-> IF l <= top THEN NoFrames ELSE @[l]],
              !.nLastStack = [l \in Stacks |-> IF l <= top THEN Blocks[l].ratio - 1 ELSE @[l]]]

\* What `_setup` leaves, for the layers up to `top`.
SetUp(b, top) ==
    SetUpStacks(SetUpTargets(SetUpControllers(SetUpObservers(SetUpEnv(b), top), top), top), top)

\* The filter starts from the state of the robot until a simulation runs.
Estimated(f, now, run) == [at |-> now, count |-> IF run THEN f.count + 1 ELSE 0]

Stacked(f, now) == Append(Tail(f), now)

StackCount(b, l, now, run) ==
    IF run /\ IsBreakpoint(now, ObserveDtOf[l]) THEN b.nLastStack[l] + 1 ELSE b.nLastStack[l]

\* The observation of the environment is a copy of the measurement of the engine.
EnvObservation(b, now) == [b EXCEPT !.observation = now]

RefreshObservation(b, now, run, top) ==
    LET IsStacked(l) == l <= top /\ StackCount(b, l, now, run) = Blocks[l].ratio
    IN [EnvObservation(b, now) EXCEPT
          !.feature = [l \in Observers |->
                         IF l <= top /\ IsBreakpoint(now, ObserveDtOf[l])
                           THEN Estimated(@[l], now, run) ELSE @[l]],
          !.frames = [l \in Stacks |-> IF IsStacked(l) THEN Stacked(@[l], now) ELSE @[l]],
          !.nLastStack = [l \in Stacks |->
                            IF IsStacked(l) THEN -1
                            ELSE IF l <= top THEN StackCount(b, l, now, run) ELSE @[l]]]

ObserverHandle(b, now, run, top) ==
    [(IF b.refreshed THEN b ELSE RefreshObservation(b, now, run, top)) EXCEPT !.refreshed = run]

Clip(x, lo, hi) == IF x < lo THEN lo ELSE IF x > hi THEN hi ELSE x

\* Displacement of the target over dt at zero-order hold: within the bounds of the
\* position first, then within those of the speed when they are compatible.
IntegrateZoh(pos, speed, dt) ==
    LET lo == -PosMax - pos   hi == PosMax - pos
        lo1 == IF lo < -SpeedMax * dt /\ -SpeedMax * dt < hi THEN -SpeedMax * dt ELSE lo
        hi1 == IF lo1 < SpeedMax * dt /\ SpeedMax * dt < hi THEN SpeedMax * dt ELSE hi
    IN Clip(speed * dt, lo1, hi1)

\* The target of a controller: its state is the measure until a simulation runs.
NextTarget(old, speed, l, run, measured) ==
    LET pos == IF run THEN old.pos ELSE Clip(measured, -PosMax, PosMax)
        move == IntegrateZoh(pos, speed, ControlDtOf[l])
    IN IF run THEN [pos |-> pos + move, move |-> move] ELSE [pos |-> pos, move |-> 0]

\* From the highest controller to the lowest: each computes the action of the next.
ComputeCommand(b, now, run, top, measured) ==
    LET Above(k) == {l \in Controllers : k < l /\ l <= top}
        next[k \in Buffers] ==
          IF Above(k) = {} THEN b.action[k]
          ELSE LET c == Min(Above(k))
                   sent == [next[c] EXCEPT !.at = now, !.seen = b.observation]
               IN IF ~IsBreakpoint(now, ControlDtOf[c]) THEN b.action[k]
                  ELSE IF c \in Pds /\ ~run
                         THEN [NullAction EXCEPT !.at = now, !.seen = b.observation]
                         ELSE sent
    IN [b EXCEPT !.action = next,
                 !.target = [l \in Pds |->
                     IF l <= top /\ IsBreakpoint(now, ControlDtOf[l])
                       THEN NextTarget(@[l], next[l].value, l, run, measured) ELSE @[l]],
                 !.command = [next[0] EXCEPT !.at = now, !.seen = b.observation]]

\* Variant: the observation is taken for refreshed once and for all.
ControllerHandleOnce(b, now, run, top, measured) ==
    ComputeCommand(ObserverHandle(b, now, run, top), now, run, top, measured)

ControllerHandle(b, now, run, top, measured) ==
    [ComputeCommand(ObserverHandle(b, now, run, top), now, run, top, measured)
       EXCEPT !.refreshed = FALSE]

---------------------------------------------------------------------------
(* The environment.                                                        *)

\* The registers of pipelines that were never reset.
NoRegisters ==
    [refreshed |-> TRUE, observation |-> Zero, feature |-> [l \in Observers |-> NoFeature],
     frames |-> [l \in Stacks |-> NoFrames],
     nLastStack |-> [l \in Stacks |-> 0], action |-> [k \in Buffers |-> NullAction],
     target |-> [l \in Pds |-> [pos |-> 0, move |-> 0]], command |-> NullAction]

Init ==
    /\ running = FALSE /\ t = 0 /\ derived = 0
    /\ refreshed = TRUE /\ observation = Zero /\ feature = NoRegisters.feature
    /\ frames = NoRegisters.frames /\ nLastStack = NoRegisters.nLastStack
    /\ action = NoRegisters.action /\ target = NoRegisters.target /\ command = NullAction
    /\ tEnd = None /\ numSteps = -1 /\ beyond = None /\ outcome = "on" /\ reward = {}
    /\ info = {}
    /\ forces = {} /\ episode = 0
    /\ drawn = [friction |-> {}, delays |-> {}, flexibility |-> {}]

\* Forces are neither removed nor registered under a simulation.
RemoveAllForces(run, registered) == IF run THEN registered ELSE {}
RegisterForces(run, registered, e) == IF run THEN registered ELSE registered \cup ({e} \X Impulses)

\* The options that are drawn for episode e, from those of the last one: the stiffness and
\* the damping are added to, the others replaced.
Randomized(options, e) ==
    [friction |-> {e}, delays |-> {e}, flexibility |-> options.flexibility \cup {e}]

\* The start of the engine calls the controller while no simulation runs, then the
\* environment its observer once it does.
Started(b, top, measured) ==
    LET after[i \in 0 .. InitIterations] ==
          IF i = 0 THEN b ELSE ControllerHandle(after[i - 1], 0, FALSE, top, measured)
    IN ObserverHandle(after[InitIterations], 0, TRUE, top)

\* Variant: the simulator is stopped after its forces were to be removed.
PrepareWithoutStop(top) ==
    /\ episode < MaxEpisodes /\ tEnd = None
    /\ episode' = episode + 1
    /\ forces' = RegisterForces(FALSE, RemoveAllForces(running, forces), episode')
    /\ drawn' = Randomized(drawn, episode') /\ derived' = top
    /\ t' = 0 /\ numSteps' = 0 /\ beyond' = None /\ outcome' = "on" /\ reward' = {}
    /\ tEnd' = None /\ UNCHANGED info

\* Everything a reset does before it starts the engine: it stops the simulator first.
Prepare(top) ==
    /\ episode < MaxEpisodes /\ tEnd = None
    /\ episode' = episode + 1
    /\ forces' = RegisterForces(FALSE, RemoveAllForces(FALSE, forces), episode')
    /\ drawn' = Randomized(drawn, episode') /\ derived' = top
    /\ t' = 0 /\ numSteps' = 0 /\ beyond' = None /\ outcome' = "on" /\ reward' = {}
    /\ tEnd' = None /\ UNCHANGED info

\* reset of layer `top`, whatever the layers above it.  It also raises, with the same
\* effects, when the episode is terminated already.
Reset(top) ==
    \E measured \in Measured :
      /\ Prepare(top)
      /\ running' = TRUE
      /\ SetRegisters(Started(SetUp(Registers, top), top, measured))

\* The engine refuses to start: an exception is raised.
ResetFails(top) ==
    /\ Prepare(top)
    /\ running' = FALSE
    /\ SetRegisters(SetUp(Registers, top))

\* step of layer `l`: the action is copied, and the engine asked to go on.
BeginStep(l) ==
    /\ running /\ tEnd = None /\ numSteps <= StepsBound
    /\ \E v \in Speeds :
         action' = [action EXCEPT ![BufferOf(l)] =
                      [NullAction EXCEPT !.of = <<episode, numSteps>>, !.value = v]]
    /\ tEnd' = t + StepDt
    /\ UNCHANGED <<running, t, derived, refreshed, observation, feature, frames, nLastStack,
                   target, command, steps, world>>

\* One iteration of the engine: the controller if it is due, then the state up to its
\* next update or to the end of the step.
Iterate ==
    /\ tEnd # None /\ t < tEnd
    /\ SetRegisters(IF IsBreakpoint(t, ControlDt)
                      THEN ControllerHandle(Registers, t, TRUE, derived, 0) ELSE Registers)
    /\ t' = Min({tEnd, t + ControlDt - (t % ControlDt)})
    /\ UNCHANGED <<running, derived, tEnd, steps, world>>

\* The engine returns an error: the simulation is stopped and the exception raised again.
StepFails ==
    /\ tEnd # None
    /\ running' = FALSE /\ tEnd' = None
    /\ UNCHANGED <<t, derived, blocks, steps, world>>

NextBeyond(over) == IF beyond # None THEN beyond + 1 ELSE IF over THEN 0 ELSE None

\* Truncated if the observation is out of its space, or after the last step.
IsTruncated == IF numSteps >= MaxSteps THEN {TRUE} ELSE BOOLEAN

\* The robot may have fallen too.
HasTerminated == {"done"} \cup {IF over THEN "truncated" ELSE "on" : over \in IsTruncated}

\* compute_reward, from what is known of its terms once it was cleared.
Terms(known, over) == IF over = "done" THEN {"survival", "failure"} ELSE {"survival"}

EndStep ==
    /\ tEnd = t
    /\ SetRegisters(ObserverHandle(Registers, t, TRUE, derived))
    /\ outcome' \in HasTerminated
    /\ beyond' = NextBeyond(outcome' # "on")
    /\ IF beyond' \in {None, 0} THEN info' = Terms(info, outcome') /\ reward' = info'
                                ELSE info' = {} /\ reward' = {"nan"}
    /\ numSteps' = numSteps + 1 /\ tEnd' = None
    /\ UNCHANGED <<running, t, derived, world>>

\* simulator.stop, called by the user or by what runs the episode.
StopSimulation ==
    /\ tEnd = None /\ running' = FALSE
    /\ UNCHANGED <<t, derived, blocks, tEnd, steps, world>>

Engine == Iterate \/ StepFails \/ EndStep

Top == Len(Blocks)

\* A user of the pipeline, and of the pipeline only.
Next == Reset(Top) \/ ResetFails(Top) \/ BeginStep(Top) \/ Engine \/ StopSimulation

Spec == Init /\ [][Next]_vars

---------------------------------------------------------------------------
Times == Int

ActionType == [of : {NoAction} \cup (1 .. MaxEpisodes) \X (0 .. StepsBound), value : Speeds \cup {0},
               at : Times, seen : Times]

\* Every register keeps its type: a target stays within the bounds of its position.
TypeOK ==
    /\ running \in BOOLEAN /\ t \in Nat /\ derived \in Layers
    /\ refreshed \in BOOLEAN /\ observation \in Times /\ feature \in [Observers -> [at : Times, count : Nat]]
    /\ \A l \in Stacks : frames[l] \in Seq(Times) /\ Len(frames[l]) = NumStack
    /\ \A l \in Stacks : nLastStack[l] \in -1 .. Blocks[l].ratio
    /\ \A k \in Buffers : action[k] \in ActionType
    /\ command \in ActionType
    /\ \A l \in Pds : target[l].pos \in -PosMax .. PosMax
    /\ tEnd \in Nat \cup {None} /\ numSteps \in -1 .. StepsBound + 1
    /\ beyond \in Nat \cup {None} /\ outcome \in {"on", "truncated", "done"}
    /\ info \subseteq {"survival", "failure"} /\ reward \subseteq {"survival", "failure", "nan"}
    /\ forces \subseteq (1 .. MaxEpisodes) \X Impulses /\ episode \in 0 .. MaxEpisodes
    /\ DOMAIN drawn = {"friction", "delays", "flexibility"}

LastUpdate(now, dt) == now - (now % dt)

\* Whatever the order of the handles that the engine and the environment call, at any
\* time of an episode the observation is the one of the last update or of the end of the
\* last step, every observer holds the estimate of its own last breakpoint, its filter having gone
\* through every breakpoint since the start once, and every
\* controller the target of its own, computed from the observation of that very time.
BlocksOnSchedule ==
    running =>
      /\ tEnd = None => observation = t
      /\ \A l \in Observers : l <= derived => 
           LET last == LastUpdate(observation, ObserveDtOf[l])
           IN feature[l] = [at |-> last, count |-> 1 + (last \div ObserveDtOf[l])]
      /\ t > 0 => command.at = LastUpdate(t - 1, ControlDt)
      /\ command.at >= 0 /\ (t > 0 => command.seen = command.at)
      /\ \A k \in Buffers, c \in Controllers :
           (c <= derived /\ BufferOf(c - 1) = k) =>
              /\ action[k].at = LastUpdate(command.at, ControlDtOf[c])
              /\ t > 0 => action[k].seen = action[k].at

\* A stack keeps the observations of every (ratio + 1)-th breakpoint since the first, and
\* nothing else: neither those made by the start of the engine nor one of them twice.
FramesOnSchedule ==
    running => \A l \in Stacks : l <= derived =>
      LET dt == (Blocks[l].ratio + 1) * ObserveDtOf[l]
          last == LastUpdate(observation, dt) \div dt
      IN frames[l] = [i \in 1 .. NumStack |->
                        IF last - NumStack + i < 0 THEN Zero ELSE (last - NumStack + i) * dt]

\* The action a buffer stems from is the one of the step in which the controllers above
\* were last updated, one after the other: never one of another episode.
ActionsOnSchedule ==
    LET Above(k) == {l \in Controllers : k < l /\ l <= derived}
        time[k \in Buffers] ==        \* when the action of the user was last taken
          IF Above(k) = {} THEN command.at
          ELSE LastUpdate(time[Min(Above(k))], ControlDtOf[Min(Above(k))])
    IN running => \A k \in Buffers :
         /\ (k <= derived /\ action[k].of # NoAction) => action[k].of[1] = episode
         /\ (t > 0 /\ Above(k) # {} /\ k <= derived) =>
              action[k].of = <<episode, time[k] \div StepDt>>

\* Every buffer of the pipeline is up to date, and stems from the action of its own step.
PipelineOnSchedule == BlocksOnSchedule /\ FramesOnSchedule /\ ActionsOnSchedule

\* Under a simulation the engine has the disturbances drawn for its episode, all of them and
\* none of another, and options drawn for this very episode: but for the flexibility, which
\* goes on from all the episodes before it.
SetUpOfEpisode ==
    running => /\ forces = {episode} \X Impulses
               /\ drawn = [friction |-> {episode}, delays |-> {episode}, flexibility |-> 1 .. episode]

=============================================================================
