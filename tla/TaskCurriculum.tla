---------------------------- MODULE TaskCurriculum ----------------------------
(***************************************************************************)
(* The curriculum of gym_jiminy: environments with a tree of tasks         *)
(* (wrappers/meta_envs.py) and the callbacks that schedule them            *)
(* (rllib/curriculum.py).  A task is a path in the tree, one node per      *)
(* level.  The workers have the environments and see the episodes end; the *)
(* driver sees the scores with the result of an iteration, keeps a window  *)
(* of them for every node and tells the environments the probabilities.    *)
(* The callbacks of the driver and of the workers share no state.          *)
(*                                                                         *)
(* Probabilities are weights in multiples of 1/Unit, not divided by the    *)
(* sum over the siblings; the softmin is a decreasing positive function of *)
(* the mean score: scores are such that the exponential does not vanish.   *)
(***************************************************************************)
EXTENDS Naturals, SequencesExt, FiniteSetsExt

CONSTANTS Workers,        \* the rollout workers that sample
          NumEnvs,        \* num_envs_per_worker
          Sizes,          \* the number of nodes of each level: the task space
          HistoryLength,  \* history_length
          Scores,         \* what get_score may return
          Smoothing,      \* how many earlier episodes RLlib repeats in a result
          Unit,           \* divisible by the lengths of windows and numbers of siblings
          MaxEnded,    \* bound: episodes that end in an iteration
          Nil

ASSUME CurriculumAssumption ==
    /\ HistoryLength \in Nat \ {0} /\ NumEnvs \in Nat \ {0} /\ Smoothing \in Nat
    /\ Scores \subseteq Nat /\ IsFiniteSet(Scores)
    /\ Sizes \in Seq(Nat \ {0}) /\ Sizes # <<>>
    /\ Unit \in Nat \ {0}
    /\ \A n \in (1 .. HistoryLength) \cup ToSet(Sizes) : Unit % n = 0

VARIABLES task_tree_probas,  \* of each environment: the weight of the nodes of its tree
          task,              \* of each environment: the task it performs
          ended,             \* the data of the episodes since the last result, as hist_data
          earlier,           \* the data of the last episodes before
          task_tree_scores,  \* of the driver: the window of scores of each node
          task_metrics       \* of the last result

curriculumVars == <<task_tree_probas, task, ended, earlier, task_tree_scores, task_metrics>>

EnvIds == 1 .. NumEnvs
Envs == Workers \X EnvIds

PathsOf(depth) == {path \in [1 .. depth -> UNION {0 .. size - 1 : size \in ToSet(Sizes)}] :
                     \A level \in 1 .. depth : path[level] < Sizes[level]}
Tasks == PathsOf(Len(Sizes))
Nodes == UNION {PathsOf(depth) : depth \in 1 .. Len(Sizes)}

Before(a, b) == \E i \in DOMAIN a : SubSeq(a, 1, i - 1) = SubSeq(b, 1, i - 1) /\ a[i] < b[i]
\* The order of the tasks in a tree, thus of the fields of a result.
InOrder(tasks) ==
    CHOOSE seq \in [1 .. Cardinality(tasks) -> tasks] :
        \A i, j \in DOMAIN seq : i < j => Before(seq[i], seq[j])

\* That of the environments of a worker, and of the workers.
Ascending(ids) ==
    CHOOSE seq \in [1 .. Cardinality(ids) -> ids] : \A i, j \in DOMAIN seq : i < j => seq[i] < seq[j]

Siblings(tree, node) == {other \in DOMAIN tree : Len(other) = Len(node) /\ Front(other) = Front(node)}
LeavesOf(tree) == {node \in DOMAIN tree : Len(node) = Len(Sizes)}

---------------------------------------------------------------------------
(* Environments *)

\* Without an initial tree, every node is as likely as its siblings.
UniformTree == [node \in Nodes |-> Unit]

\* From the root to a leaf, among the nodes that have a chance.
CanBeSampled(tree, path) ==
    /\ path \in DOMAIN tree
    /\ \A depth \in 1 .. Len(path) : tree[SubSeq(path, 1, depth)] > 0

Samples(tree) == {path \in LeavesOf(tree) : CanBeSampled(tree, path)}

CurriculumInit ==
    /\ task_tree_probas = [env \in Envs |-> UniformTree]
    /\ task = [env \in Envs |-> Nil]
    /\ ended = <<>> /\ earlier = <<>>
    /\ task_tree_scores = << >> /\ task_metrics = Nil

\* The environments are reset when their worker starts to sample.
ResetEnvs ==
    /\ task' \in [Envs -> UNION {Samples(task_tree_probas[env]) : env \in Envs}]
    /\ \A env \in Envs : task'[env] \in Samples(task_tree_probas[env])
    /\ UNCHANGED <<task_tree_probas, ended, earlier, task_tree_scores, task_metrics>>

---------------------------------------------------------------------------
(* Workers *)

\* An episode ends: its data has a field for every task of the trees of the worker, and a
\* score of every environment of the worker, whichever ended.
ScoreData(worker, scores) ==
    [path \in UNION {LeavesOf(task_tree_probas[<<worker, e>>]) : e \in EnvIds} |->
        LET performing == Ascending({e \in EnvIds : task[<<worker, e>>] = path})
        IN  [k \in DOMAIN performing |-> [task |-> path, score |-> scores[performing[k]]]]]

\* The environment whose episode ended is then reset, which samples its next task.
EndEpisode(worker, env) ==
    /\ Len(ended) < MaxEnded
    /\ \E scores \in [EnvIds -> Scores] : ended' = Append(ended, ScoreData(worker, scores))
    /\ \E path \in Samples(task_tree_probas[<<worker, env>>]) : task' = [task EXCEPT ![<<worker, env>>] = path]
    /\ UNCHANGED <<task_tree_probas, earlier, task_tree_scores, task_metrics>>

\* RLlib replaces a worker that died: its environments are new.
ReplaceWorker(worker) ==
    /\ task_tree_probas' = [env \in Envs |->
            IF env[1] = worker THEN UniformTree ELSE task_tree_probas[env]]
    /\ \E next \in [EnvIds -> Samples(UniformTree)] :
            task' = [env \in Envs |-> IF env[1] = worker THEN next[env[2]] ELSE task[env]]
    /\ UNCHANGED <<ended, earlier, task_tree_scores, task_metrics>>

---------------------------------------------------------------------------
(* Driver *)

LatestOf(n, seq) == SubSeq(seq, IF Len(seq) > n THEN Len(seq) - n + 1 ELSE 1, Len(seq))

\* The fields of a result: those of its episodes, one after the other.
HistStats(episodes) ==
    [path \in UNION {DOMAIN episodes[i] : i \in DOMAIN episodes} |->
        FlattenSeq([i \in DOMAIN episodes |->
            IF path \in DOMAIN episodes[i] THEN episodes[i][path] ELSE <<>>])]

NodesOn(paths) == {SubSeq(path, 1, depth) : path \in paths, depth \in 1 .. Len(Sizes)}

\* A score counts for every node on the path of its task.
Gathered(stats) ==
    [node \in NodesOn(DOMAIN stats) |->
        LET below == InOrder({path \in DOMAIN stats : IsPrefix(node, path)})
        IN  FlattenSeq([k \in DOMAIN below |-> stats[below[k]]])]

\* Window that keeps one score more.
WindowOfOneMore(scores, new) == LatestOf(HistoryLength + 1, scores \o new)

\* What a node's window becomes with its new scores.
Window(scores, new) == LatestOf(HistoryLength, scores \o new)

Updated(windows, new) ==
    [node \in DOMAIN windows \cup DOMAIN new |->
        LET old == IF node \in DOMAIN windows THEN windows[node] ELSE <<>>
        IN  IF node \in DOMAIN new THEN Window(old, new[node]) ELSE old]

\* exp(- softmin_beta * mean)
Softmin(window) ==
    LET total == SumFunction([k \in DOMAIN window |-> window[k].score])
    IN  ((1 + Max(Scores)) * Len(window) - total) * (Unit \div Len(window))

\* A node without a score has the mean of its siblings'; all are the same when none has one.
Probas(windows) ==
    [node \in DOMAIN windows |->
        LET scored == {other \in Siblings(windows, node) : windows[other] # <<>>}
        IN  IF windows[node] # <<>> THEN Softmin(windows[node]) * Unit
            ELSE IF scored = {} THEN Unit
            ELSE SumFunction([other \in scored |-> Softmin(windows[other])])
                    * (Unit \div Cardinality(scored))]

\* dict.update: the branches of the root are replaced, those that are missing stay.
WithBranches(tree, probas) ==
    [node \in DOMAIN probas \cup {old \in DOMAIN tree : <<old[1]>> \notin DOMAIN probas} |->
        IF node \in DOMAIN probas THEN probas[node] ELSE tree[node]]

OnTrainResult ==
    LET episodes == (IF Len(ended) < Smoothing THEN LatestOf(Smoothing - Len(ended), earlier) ELSE <<>>) \o ended
        new == Gathered(HistStats(episodes))
    IN  /\ task_tree_scores' = Updated(task_tree_scores, new)
        /\ task_metrics' = [num |-> [node \in DOMAIN new |-> Len(new[node])],
                             proba |-> Probas(task_tree_scores')]
        /\ task_tree_probas' = [env \in Envs |-> WithBranches(task_tree_probas[env], task_metrics'.proba)]
        /\ ended' = <<>> /\ earlier' = LatestOf(Smoothing, earlier \o ended)
        /\ UNCHANGED task

---------------------------------------------------------------------------
(* Properties *)

\* The curriculum never gives up a task: whatever was sampled and scored so far, a reset of
\* any environment can sample any task (probabilities of NaN are replaced, curriculum.py:174,
\* and all the tasks have a field, :88).
EveryTaskCanBeSampled ==
    \A env \in Envs : \A path \in Tasks : CanBeSampled(task_tree_probas[env], path)

\* The windows are of the last scores of their own tasks: a score that the driver keeps under
\* a node is of a task below it, and what is kept below a node that is not full is kept there
\* too.
WindowsAreConsistent ==
    \A node \in DOMAIN task_tree_scores :
        LET window == task_tree_scores[node]
            children == {other \in DOMAIN task_tree_scores :
                            Len(other) = Len(node) + 1 /\ Front(other) = node}
        IN  /\ Len(window) <= HistoryLength
            /\ \A k \in DOMAIN window : IsPrefix(node, window[k].task)
            /\ (Len(window) < HistoryLength /\ children # {}) =>
                  Len(window) = SumFunction([other \in children |-> Len(task_tree_scores[other])])

\* The curriculum can go on from what it keeps.
CurriculumIsSound == EveryTaskCanBeSampled /\ WindowsAreConsistent

=============================================================================
