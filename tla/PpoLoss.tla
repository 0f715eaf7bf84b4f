------------------------------- MODULE PpoLoss -------------------------------
(***************************************************************************)
(* The loss of PPOTorchPolicy (gym_jiminy/rllib/ppo.py).  A configuration  *)
(* is the set of the regularisations that are enabled.  The observations   *)
(* that they need are forwarded with the true ones in one pass, and the    *)
(* outputs are split again: each term must read outputs of a batch that    *)
(* was forwarded, under conditions the code writes three times.  Tensors   *)
(* are named, not computed.                                                *)
(***************************************************************************)
EXTENDS Integers, SequencesExt, FiniteSetsExt

CONSTANTS ObsFields,       \* the sizes of the fields of a flattened observation
          MirrorFields,    \* mirror_mat: the numbers of the fields it has matrices for, in its own order
          NoiseScale,      \* spatial_noise_scale, in units of sgld_n_steps
          Steps            \* sgld_n_steps

ASSUME PpoAssumption ==
    /\ ObsFields \in Seq(Nat \ {0}) /\ MirrorFields \in Seq(DOMAIN ObsFields)
    /\ Steps \in Nat \ {0} /\ NoiseScale \in Nat

Regularizations == {"enable_adversarial_noise", "temporal_barrier", "caps_temporal",
                    "caps_spatial", "caps_global", "symmetric_policy", "l2"}

\* PPOConfig: everything is disabled unless `training' is told otherwise.
Default == {}
Training(enabled, disabled) == (Default \cup enabled) \ disabled
Configurations == {Training(enabled, {}) : enabled \in SUBSET Regularizations}

---------------------------------------------------------------------------
(* Observations *)

\* Stochastic gradient Langevin dynamics: a random half step, then the sign of a gradient, of
\* unknown value, times the scale of the noise, clipped to the box.
Clipped(noise) == Max({-NoiseScale, Min({noise, NoiseScale})})
Moved(noises) == {Clipped(noise + sign * NoiseScale) : noise \in noises, sign \in {-1, 0, 1}}
AdversarialNoise ==
    LET step == NoiseScale \div Steps
    IN  FoldLeft(LAMBDA noises, i : Moved(noises), {-step, step}, [i \in 1 .. Steps |-> i])

\* A flattened observation is mirrored one slice after the other, of the size of the fields that
\* have a matrix, in the order of the matrices.
MirroredSlices ==
    LET sizes == [k \in DOMAIN MirrorFields |-> ObsFields[MirrorFields[k]]]
        offset(k) == FoldSeq(+, 0, SubSeq(sizes, 1, k - 1))
    IN  [k \in DOMAIN MirrorFields |-> (offset(k) + 1) .. (offset(k) + sizes[k])]

\* What nothing checks: the matrices are those of the fields, in their order.
MatricesFollowFields == MirrorFields = [k \in DOMAIN ObsFields |-> k]

\* The policy: the transforms it extracts, and the columns of a batch it requires.  RLlib then
\* drops the columns that the loss of a dummy batch did not read.
Policy(config) == [mirror_mat |-> "symmetric_policy" \in config, view |-> {"obs", "prev_obs"}]

---------------------------------------------------------------------------
(* Loss *)

\* TrainBatches where the noisy observation is left to the global regularisation.
TrainBatchesNoisyIfGlobal(config) ==
    LET some(name, condition) == IF condition THEN <<name>> ELSE <<>>
    IN  <<"true">>
        \o some("prev", "caps_temporal" \in config \/ "temporal_barrier" \in config)
        \o some("worst", {"caps_spatial", "enable_adversarial_noise"} \subseteq config)
        \o some("noisy", "caps_global" \in config)
        \o some("mirrored", "symmetric_policy" \in config)

\* The batches that are forwarded, in order.
TrainBatches(config) ==
    LET some(name, condition) == IF condition THEN <<name>> ELSE <<>>
    IN  <<"true">>
        \o some("prev", "caps_temporal" \in config \/ "temporal_barrier" \in config)
        \o some("worst", {"caps_spatial", "enable_adversarial_noise"} \subseteq config)
        \o some("noisy", "caps_global" \in config \/ "enable_adversarial_noise" \notin config)
        \o some("mirrored", "symmetric_policy" \in config)

\* One pass for all of them, cut in as many chunks: the name of a batch to what was forwarded.
Forwarded(batches) == [name \in ToSet(batches) |-> CHOOSE k \in DOMAIN batches : batches[k] = name]

\* The action means that are extracted.
ActionMeans(config) ==
    {"true"}
    \cup (IF "caps_temporal" \in config \/ "temporal_barrier" \in config THEN {"prev"} ELSE {})
    \cup (IF "caps_global" \in config \/ "enable_adversarial_noise" \notin config THEN {"noisy"} ELSE {})
    \cup (IF {"caps_spatial", "enable_adversarial_noise"} \subseteq config THEN {"worst"} ELSE {})
    \cup (IF "symmetric_policy" \in config THEN {"mirrored"} ELSE {})

\* The columns that are read from the batch itself, not from a copy of it.
ColumnsRead(config) ==
    {"obs"} \cup (IF "prev" \in ToSet(TrainBatches(config)) THEN {"prev_obs"} ELSE {})

\* What the terms that are added to the loss read, each under the name of its statistics.
LossTerms(config) ==
    [term \in config \ {"enable_adversarial_noise"} |->
        CASE term \in {"caps_temporal", "temporal_barrier"} -> {"prev", "true"}
          [] term = "caps_spatial" ->
                {IF "enable_adversarial_noise" \in config THEN "worst" ELSE "noisy", "true"}
          [] term = "caps_global" -> {"noisy"}
          [] term = "symmetric_policy" -> {"mirrored", "true"}
          [] term = "l2" -> {}]

\* The statistics that stats_fn reads back.
StatsRead(config) ==
    config \cap {"symmetric_policy", "temporal_barrier", "caps_temporal", "caps_spatial",
                 "caps_global", "l2"}

Loss(config) ==
    [policy |-> Policy(config),
     read |-> ColumnsRead(config),
     forwarded |-> Forwarded(TrainBatches(config)),
     means |-> ActionMeans(config),
     terms |-> LossTerms(config),
     stats |-> StatsRead(config),
     mirrored |-> IF "symmetric_policy" \in config THEN MirroredSlices ELSE <<>>,
     noise |-> IF "worst" \in ToSet(TrainBatches(config)) THEN AdversarialNoise ELSE {}]

---------------------------------------------------------------------------

\* Whatever is enabled, the policy has what the loss reads, every term reads means that were extracted from outputs that were
\* forwarded, and its statistics are those that are shown.
ReadsItsBatches(loss) ==
    /\ loss.read \subseteq loss.policy.view
    /\ "mirrored" \in DOMAIN loss.forwarded => loss.policy.mirror_mat
    /\ loss.means \subseteq DOMAIN loss.forwarded
    /\ \A term \in DOMAIN loss.terms : loss.terms[term] \subseteq loss.means
    /\ loss.stats = DOMAIN loss.terms

\* The worst observation is in the box around the true one, and, when the matrices follow the
\* fields, the slices that are mirrored are all of the observation, once.
TransformsAreSound(loss) ==
    /\ \A noise \in loss.noise : noise \in (-NoiseScale) .. NoiseScale
    /\ loss.mirrored # <<>> /\ MatricesFollowFields =>
          /\ UNION ToSet(loss.mirrored) = 1 .. FoldSeq(+, 0, ObsFields)
          /\ \A j, k \in DOMAIN loss.mirrored : j # k => loss.mirrored[j] \cap loss.mirrored[k] = {}

=============================================================================
