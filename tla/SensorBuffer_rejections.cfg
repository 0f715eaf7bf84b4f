\* The Dormand-Prince stepper and its rejections.
CONSTANTS
    slow = slow
    fast = fast
    Sensors <- SlowThenFast
    Delay <- ShortDelay
    Jitters <- NoJitter
    LinearOrder = {slow}
    SimMax = 360
    Exceed = 100
    InitIterations = 1
    Periods = {0, 450}
    Steppers <- OnlyDopri
    NodesUnit = 90
    Steps = {90, 360}
    MayReject = TRUE
    MaxTime = 900
SPECIFICATION SensorsSpec
INVARIANTS NoRejectedSample MeasurementsBracket
