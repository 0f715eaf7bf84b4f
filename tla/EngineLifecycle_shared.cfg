\* Two engines that share their robots.
CONSTANTS
    one = one
    two = two
    arm = arm
    leg = leg
    armPd = armPd
    armMpc = armMpc
    legPd = legPd
    None = None
    Engines = {one, two}
    Robots = {arm, leg}
    Controllers = {armPd, armMpc, legPd}
    RobotOf <- TheController
    Systems <- CrossedEngines
    FirstController <- CrossedFirst
    MaxSimulations = 2
    MaxLines = 2
SPECIFICATION Spec
INVARIANTS RunningHoldsLocks GuardsAreExclusive StoppedLogIsWhole
