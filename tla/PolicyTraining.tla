---------------------------- MODULE PolicyTraining ----------------------------
(***************************************************************************)
(* The training of a policy (gym_jiminy/rllib/utilities.py): `train' loops *)
(* over the iterations of an RLlib algorithm, whose rollout workers follow *)
(* the curriculum and which calls `evaluate_algo' from time to time.       *)
(*                                                                         *)
(* An evaluation hooks the callbacks of its workers, so that the logs of   *)
(* all the environments of a worker are written when an episode of one of  *)
(* them ends, before the reset that RLlib makes; it runs rounds of         *)
(* episodes, removes the hooks, and keeps the logs of the best and of the  *)
(* worst one, which it looks for at the positions of these episodes.  The  *)
(* hook is toggled: nothing removes those of an evaluation that did not    *)
(* reach its end.  RLlib is seen from here: calls on all the workers, of   *)
(* which those that are late or dead do not answer.                        *)
(***************************************************************************)
EXTENDS TaskCurriculum, PpoLoss

CONSTANTS SomeRemotes,         \* the sets of remote evaluation workers to try
          EvaluationEnvs,      \* num_envs_per_worker of evaluation_config, NumEnvs unless it says otherwise
          EvaluationDuration,  \* evaluation_duration, in episodes
          EvaluationInterval,  \* evaluation_interval, in iterations
          CheckpointPeriod,    \* checkpoint_period
          MaxIters,            \* max_iters
          TrainedConfigs,      \* bound: the configurations of the policy that are trained
          MaxTrains,           \* bound: calls of train
          MaxDeaths            \* bound: workers that die

ASSUME TrainingAssumption ==
    /\ EvaluationEnvs \in Nat \ {0}
    /\ EvaluationDuration \in Nat \ {0} /\ EvaluationInterval \in Nat \ {0}
    /\ CheckpointPeriod \in Nat /\ MaxIters \in Nat \ {0}
    /\ \A remotes \in SomeRemotes : remotes \subseteq Nat \ {0} /\ IsFiniteSet(remotes)

VARIABLES pc,          \* where train is
          iteration,   \* algo.iteration
          trains,      \* how often train was called
          config,      \* of the policy
          loss,        \* what its loss was made of, on the dummy batch
          saved,       \* the iterations of the checkpoints
          writer,      \* _file_writer: the iterations it wrote; Nil when there is none
          callbacks,   \* of each evaluation worker, 0 is the local one: hook and log_paths
          healthy,     \* the remote workers that are alive
          deaths,      \* how many died
          evaluation,  \* the episodes of the evaluation, in order, and all_log_paths
          files,       \* the logs that were written, in temporary files
          kept,        \* the logs the last evaluation kept, with the episodes they are kept for
          disturbed    \* history: hooks were left, or a worker was lost between a round and its logs

evalVars == <<callbacks, healthy, deaths, evaluation, files, kept, disturbed>>
trainVars == <<pc, iteration, trains, config, loss, saved, writer>>
policyVars == <<curriculumVars, evalVars, trainVars>>

Local == 0
NoEvaluation == [episodes |-> <<>>, logs |-> <<>>]
NewCallbacks == [hook |-> FALSE, log_paths |-> Nil]

TrainingInit ==
    /\ CurriculumInit
    /\ pc = "idle" /\ iteration = 0 /\ trains = 0 /\ saved = {} /\ writer = Nil
    /\ config = Default /\ loss = Loss(Default)
    /\ healthy \in SomeRemotes /\ deaths = 0
    /\ callbacks = [w \in {Local} \cup healthy |-> NewCallbacks]
    /\ evaluation = NoEvaluation /\ files = {} /\ kept = {} /\ disturbed = FALSE

Remotes == DOMAIN callbacks \ {Local}
\* By their identifiers.
InOrderOf(workers) == Ascending(workers)

\* A policy is built before it is trained: its loss is computed once, on a dummy batch.
BuildPolicy(chosen) ==
    /\ pc = "idle" /\ iteration = 0 /\ trains = 0
    /\ config' = chosen /\ loss' = Loss(chosen)
    /\ UNCHANGED <<curriculumVars, evalVars, pc, iteration, trains, saved, writer>>

---------------------------------------------------------------------------
(* Evaluation *)

\* Adds the hook where there is none, removes it otherwise.
Toggled(state) == [state EXCEPT !.hook = ~state.hook]
ToggledOn(workers) == [w \in DOMAIN callbacks |-> IF w \in workers THEN Toggled(callbacks[w]) ELSE callbacks[w]]

\* An episode is known by its iteration, its number and the environment it ends in, and a log
\* by the episode at the end of which it is written and the environment it is of: it is the log
\* of the episode if this is the same one, that of an episode which is not over otherwise.
LogsAt(episode, envs) == [e \in 1 .. envs |-> <<episode[1], episode[2], e>>]

\* An episode ends in one of the environments of a worker: the hook writes the logs of all of
\* them, before the reset.
WithEpisode(state, episode, envs) ==
    IF state.hook THEN [state EXCEPT !.log_paths = LogsAt(episode, envs)] ELSE state

Episode(k, env) == <<iteration, Len(evaluation.episodes) + k, env>>
Delta == EvaluationDuration - Len(evaluation.logs)

StartEvaluation ==
    /\ pc = "evaluate"
    /\ callbacks' = ToggledOn({Local} \cup healthy)
    /\ evaluation' = NoEvaluation
    /\ \/ Remotes = {} /\ pc' = "local"
       \/ healthy # {} /\ pc' = "rounds"
       \/ Remotes # {} /\ healthy = {} /\ pc' = "result"
    /\ UNCHANGED <<curriculumVars, healthy, deaths, files, kept, disturbed, iteration, trains, config, loss, saved, writer>>

\* evaluate_local_worker toggles the hook as well, before and after its episodes; after each of
\* them it unpacks the log, of which there has to be one.
LocalEvaluation(state, episodes, envs) ==
    [paths |-> [k \in DOMAIN episodes |-> WithEpisode(Toggled(state), episodes[k], envs).log_paths],
     after |-> Toggled(WithEpisode(Toggled(state), episodes[Len(episodes)], envs))]

IsOneLog(paths) == paths # Nil /\ Len(paths) = 1

\* Otherwise it fails after its first episode, before the second toggle.
EvaluateLocally ==
    /\ pc = "local"
    /\ \E envs \in [1 .. EvaluationDuration -> 1 .. EvaluationEnvs] :
          LET episodes == [k \in DOMAIN envs |-> Episode(k, envs[k])]
              run == LocalEvaluation(callbacks[Local], episodes, EvaluationEnvs)
              written == IF Toggled(callbacks[Local]).hook THEN DOMAIN envs ELSE {}
          IN  IF \A k \in DOMAIN episodes : IsOneLog(run.paths[k])
              THEN /\ callbacks' = [callbacks EXCEPT ![Local] = run.after]
                   /\ evaluation' = [episodes |-> episodes, logs |-> [k \in DOMAIN episodes |-> run.paths[k][1]]]
                   /\ files' = files \cup UNION {ToSet(LogsAt(episodes[k], EvaluationEnvs)) : k \in written}
                   /\ pc' = "end"
              ELSE /\ callbacks' = [callbacks EXCEPT ![Local] = WithEpisode(Toggled(@), episodes[1], EvaluationEnvs)]
                   /\ files' = files \cup UNION {ToSet(LogsAt(episodes[k], EvaluationEnvs)) : k \in written \cap {1}}
                   /\ pc' = "idle" /\ UNCHANGED evaluation
    /\ UNCHANGED <<curriculumVars, healthy, deaths, kept, disturbed, iteration, trains, config, loss, saved, writer>>

\* A policy that was saved is evaluated on a worker of its own, restored from the checkpoint with
\* one environment; its logs are played, and stay where they are.
EvaluateCheckpoint ==
    LET episodes == [k \in 1 .. EvaluationDuration |-> <<Nil, k, 1>>]
        run == LocalEvaluation(NewCallbacks, episodes, 1)
    IN  /\ pc = "idle" /\ saved # {}
        /\ \E best, worst \in DOMAIN episodes :
              /\ EvaluationDuration > 1 => best # worst
              /\ kept' = {[log |-> run.paths[i][1], episode |-> episodes[i]] : i \in {best, worst}}
        /\ UNCHANGED <<curriculumVars, callbacks, healthy, deaths, evaluation, files, disturbed, trainVars>>

\* Selected, from the other end of the list of the workers.
SelectedLast == LET ids == InOrderOf(healthy) IN SubSeq(ids, 1 + Max({0, Len(ids) - Delta}), Len(ids))

\* A round: an episode on each of the selected workers.  When some do not answer in time, the
\* others are dropped and no further round is run; the late ones still end their episode.
Selected == LET ids == InOrderOf(healthy) IN SubSeq(ids, 1, Min({Len(ids), Delta}))

RunRound ==
    /\ pc = "rounds" /\ Delta > 0 /\ healthy # {}
    /\ \E envs \in [DOMAIN Selected -> 1 .. EvaluationEnvs] :
          LET episodes == [k \in DOMAIN Selected |-> Episode(k, envs[k])]
          IN  /\ callbacks' = [w \in DOMAIN callbacks |->
                    IF \E k \in DOMAIN Selected : Selected[k] = w
                    THEN WithEpisode(callbacks[w], episodes[CHOOSE k \in DOMAIN Selected : Selected[k] = w], EvaluationEnvs)
                    ELSE callbacks[w]]
              /\ files' = files \cup UNION {ToSet(LogsAt(episodes[k], EvaluationEnvs))
                                              : k \in {k \in DOMAIN Selected : callbacks[Selected[k]].hook}}
              /\ \/ pc' = "logs" /\ evaluation' = [evaluation EXCEPT !.episodes = @ \o episodes]
                 \/ pc' = "end" /\ UNCHANGED evaluation
    /\ UNCHANGED <<curriculumVars, healthy, deaths, kept, disturbed, iteration, trains, config, loss, saved, writer>>

\* The paths are asked from all the workers, not only those of the round; those of a worker come
\* one after the other.
CollectLogs ==
    LET ids == InOrderOf(healthy)
    IN  /\ pc = "logs"
        /\ IF \A w \in healthy : callbacks[w].log_paths # Nil
           THEN /\ evaluation' = [evaluation EXCEPT !.logs = @ \o FlattenSeq([k \in DOMAIN ids |-> callbacks[ids[k]].log_paths])]
                /\ pc' = "rounds" /\ UNCHANGED disturbed
           ELSE pc' = "finish" /\ disturbed' = TRUE /\ UNCHANGED evaluation
        /\ UNCHANGED <<curriculumVars, callbacks, healthy, deaths, files, kept, iteration, trains, config, loss, saved, writer>>

EndRounds ==
    /\ pc = "rounds" /\ (Delta <= 0 \/ healthy = {})
    /\ pc' = "end"
    /\ UNCHANGED <<curriculumVars, evalVars, iteration, trains, config, loss, saved, writer>>

\* The hooks are removed; the logs of the best and of the worst episode are moved to the
\* directory of the algorithm.  Each of the failures goes through `train'.
Moves(best, worst) == IF EvaluationDuration = 1 THEN {best} ELSE {best, worst}

EndEvaluation ==
    LET n == Len(evaluation.episodes)
    IN  /\ pc = "end"
        /\ callbacks' = ToggledOn({Local} \cup healthy)
        /\ IF n = 0 THEN pc' = "idle" /\ UNCHANGED <<files, kept>>
           ELSE \E best, worst \in 1 .. n :
                  /\ n > 1 => best # worst
                  /\ IF /\ Moves(best, worst) \subseteq DOMAIN evaluation.logs
                        /\ \A i \in Moves(best, worst) : evaluation.logs[i] \in files
                        /\ EvaluationDuration > 1 => evaluation.logs[best] # evaluation.logs[worst]
                     THEN /\ files' = files \ {evaluation.logs[i] : i \in Moves(best, worst)}
                          /\ kept' = {[log |-> evaluation.logs[i], episode |-> evaluation.episodes[i]]
                                        : i \in Moves(best, worst)}
                          /\ pc' = "result"
                     ELSE pc' = "idle" /\ UNCHANGED <<files, kept>>
        /\ evaluation' = NoEvaluation
        /\ UNCHANGED <<curriculumVars, healthy, deaths, disturbed, iteration, trains, config, loss, saved, writer>>

InEvaluation == pc \in {"local", "rounds", "logs", "end"}

\* A worker dies; RLlib makes a new one between evaluations, with new callbacks.
WorkerDies(w) ==
    /\ deaths < MaxDeaths /\ w \in healthy /\ (InEvaluation \/ pc = "evaluate")
    /\ healthy' = healthy \ {w} /\ deaths' = deaths + 1
    /\ disturbed' = (disturbed \/ pc = "logs")
    /\ UNCHANGED <<curriculumVars, callbacks, evaluation, files, kept, trainVars>>

RestoreWorkers ==
    /\ ~InEvaluation /\ healthy # Remotes
    /\ healthy' = Remotes
    /\ callbacks' = [w \in DOMAIN callbacks |-> IF w \in Remotes \ healthy THEN NewCallbacks ELSE callbacks[w]]
    /\ UNCHANGED <<curriculumVars, deaths, evaluation, files, kept, disturbed, trainVars>>

---------------------------------------------------------------------------
(* Training *)

Train ==
    /\ pc = "idle" /\ trains < MaxTrains /\ config \in TrainedConfigs
    /\ pc' = "train" /\ trains' = trains + 1 /\ writer' = <<>>
    /\ IF trains = 0 THEN ResetEnvs ELSE UNCHANGED curriculumVars
    /\ UNCHANGED <<evalVars, iteration, config, loss, saved>>

\* The workers sample while the algorithm trains.
Sample(worker, env) ==
    pc = "train" /\ EndEpisode(worker, env) /\ UNCHANGED <<evalVars, trainVars>>

LoseWorker(worker) ==
    /\ pc = "train" /\ deaths < MaxDeaths
    /\ ReplaceWorker(worker) /\ deaths' = deaths + 1
    /\ UNCHANGED <<callbacks, healthy, evaluation, files, kept, disturbed, trainVars>>

\* The algorithm has what it needs for an iteration.
Learn ==
    /\ pc = "train"
    /\ pc' = IF (iteration + 1) % EvaluationInterval = 0 THEN "evaluate" ELSE "result"
    /\ UNCHANGED <<curriculumVars, evalVars, iteration, trains, config, loss, saved, writer>>

Schedule ==
    /\ pc = "result"
    /\ OnTrainResult
    /\ iteration' = iteration + 1 /\ pc' = "log"
    /\ UNCHANGED <<evalVars, trains, config, loss, saved, writer>>

\* After an iteration: the result is logged, the policy saved periodically, and the loop ends
\* on any of its conditions, the first of which are left to the environment.
IsLast(solved) == solved \/ MaxIters < iteration

\* on_result: what the result of an iteration holds is one more step of the curves.
Written(steps, it) == Append(steps, it)

\* flush, then close: there is no writer any more.
ClosedWriter(steps) == Nil

LogResult ==
    /\ pc = "log"
    /\ writer' = Written(writer, iteration)
    /\ saved' = IF CheckpointPeriod > 0 /\ iteration % CheckpointPeriod = 0 THEN saved \cup {iteration} ELSE saved
    /\ \E solved \in BOOLEAN : pc' = IF IsLast(solved) THEN "finish" ELSE "train"
    /\ UNCHANGED <<curriculumVars, evalVars, iteration, trains, config, loss>>

\* Ctrl-C ends the loop, wherever it is.
Interrupt ==
    /\ pc \notin {"idle", "finish"}
    /\ pc' = "finish"
    /\ disturbed' = (disturbed \/ InEvaluation)
    /\ UNCHANGED <<curriculumVars, callbacks, healthy, deaths, evaluation, files, kept,
                   iteration, trains, config, loss, saved, writer>>

Finish ==
    /\ pc = "finish"
    /\ writer' = ClosedWriter(writer) /\ saved' = saved \cup {iteration} /\ pc' = "idle"
    /\ UNCHANGED <<curriculumVars, evalVars, iteration, trains, config, loss>>

TrainingNext == \/ Learn \/ StartEvaluation \/ EvaluateLocally \/ RunRound \/ CollectLogs \/ EndRounds
        \/ EndEvaluation \/ Schedule \/ LogResult \/ Finish
        \/ Train \/ Interrupt \/ RestoreWorkers \/ EvaluateCheckpoint
        \/ \E chosen \in Configurations : BuildPolicy(chosen)
        \/ \E worker \in Workers : LoseWorker(worker) \/ \E e \in EnvIds : Sample(worker, e)
        \/ \E w \in healthy : WorkerDies(w)

TrainingSpec == TrainingInit /\ [][TrainingNext]_policyVars

---------------------------------------------------------------------------
(* Properties *)

\* The logs that are kept as those of the best and of the worst episode are the logs of these
\* episodes, though rewards and paths are gathered by different calls, from different workers, of
\* which some are late and some die (utilities.py:1007 and :1024), until hooks are left by Ctrl-C
\* or a failure, or a worker dies between these two calls.
PathsFollowEpisodes == disturbed \/ \A entry \in kept : entry.log = entry.episode

\* With one environment in each evaluation worker: the code pairs them for no other number.
KeptLogsAreTheirs == EvaluationEnvs = 1 => PathsFollowEpisodes

\* A policy can be built with any set of regularisations.
LossReadsItsBatches == ReadsItsBatches(loss) /\ TransformsAreSound(loss)

=============================================================================
