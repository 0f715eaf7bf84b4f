\* The episodes of a pipeline of four blocks, whose control period divides the step:
\* stepped, evaluated or played, interrupted, failing, with any keys.
CONSTANTS
    Blocks <- Walker
    ControlDt = 2
    StepDt = 6
    MaxSteps = 2
    NumStack = 2
    InitIterations = 4
    Speeds <- SomeSpeeds
    Measured <- SomePositions
    PosMax = 3
    SpeedMax = 1
    Impulses = {1, 2}
    MaxEpisodes = 2
    NoAction = NoAction
    None = None
    Exit = Exit
    Pause = Pause
    Arrow = Arrow
    CtrlC = CtrlC
    MaxKeys = 2
    Horizons <- SomeHorizons
SPECIFICATION FairSession
INVARIANTS PipelineOnSchedule SetUpOfEpisode ModeIsRestored MemoryOfEpisode
PROPERTIES RunnersReturn
