\* One call of train, of two iterations at most; evaluations of three episodes, by the local worker or by
\* two remote ones, of which one may die.
CONSTANTS
    Workers = {1}
    NumEnvs = 2
    Sizes <- OneByTwo
    HistoryLength = 2
    Scores = {1}
    Smoothing = 0
    Unit = 4
    MaxEnded = 1
    ObsFields <- ThreeFields
    MirrorFields <- TheirOrder
    NoiseScale = 6
    Steps = 3
    SomeRemotes <- LocalOrTwo
    EvaluationEnvs = 1
    EvaluationDuration = 3
    EvaluationInterval = 1
    CheckpointPeriod = 2
    MaxIters = 1
    TrainedConfigs <- DefaultOnly
    MaxTrains = 1
    MaxDeaths = 1
    Nil = Nil
SPECIFICATION TrainingSpec
CHECK_DEADLOCK FALSE
INVARIANTS CurriculumIsSound KeptLogsAreTheirs LossReadsItsBatches
