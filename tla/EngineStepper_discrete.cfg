\* Discrete time, adaptive ODE stepper, impulses off the grid of the periods.
CONSTANTS
    arm = arm
    leg = leg
    push = push
    pull = pull
    wind = wind
    StepperMin = 1
    SimMin = 4
    DtMax = 6
    ControllerPeriod = 16
    SensorsPeriod = 8
    Profiles = {wind}
    ProfilePeriod <- OneProfile
    Systems = {arm, leg}
    Impulses = {push, pull}
    ImpulseSystem <- SpreadSystem
    ImpulseTime <- SpreadTime
    ImpulseDuration <- SpreadDuration
    FailMax = 2
    LogInternalSteps = FALSE
    MayTimeout = FALSE
    RestoreRatio = 5
    Grow = {1, 2, 5}
    Shrink = {2, 10}
    MayNan = TRUE
    StepSizes = {0, 2, 5, 15}
    MaximumLogTime = 36
    Infinity = 1000
SPECIFICATION FairSpec
INVARIANTS ImpulsesInWindow UpdatesHeldOnePeriod FreshAcceleration NeverPastEnd
