\* Continuous time: no update period at all, adaptive ODE stepper.
CONSTANTS
    arm = arm
    leg = leg
    push = push
    pull = pull
    wind = wind
    StepperMin = 1
    SimMin = 4
    DtMax = 6
    ControllerPeriod = 0
    SensorsPeriod = 0
    Profiles = {}
    ProfilePeriod <- NoProfile
    Systems = {arm, leg}
    Impulses = {push, pull}
    ImpulseSystem <- SpreadSystem
    ImpulseTime <- SpreadTime
    ImpulseDuration <- SpreadDuration
    FailMax = 2
    LogInternalSteps = FALSE
    MayTimeout = TRUE
    RestoreRatio = 5
    Grow = {1, 2, 5}
    Shrink = {2, 10}
    MayNan = TRUE
    StepSizes = {0, 2, 5, 9}
    MaximumLogTime = 24
    Infinity = 1000
SPECIFICATION FairSpec
INVARIANTS SuccessfulReturn
PROPERTIES StepReturns
