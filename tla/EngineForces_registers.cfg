\* Three systems, their impulse forces and the coupling between two of them.
CONSTANTS
    arm = arm
    leg = leg
    cart = cart
    Names = {arm, leg, cart}
    Periods = {0}
    SimMin = 2
    Windows <- OneWindow
    StepperMin = 1
    Infinity = 1000
    MaxSystems = 3
    MaxForces = 2
    MaxCouplings = 1
SPECIFICATION Spec
SYMMETRY SameNames
INVARIANTS CouplingsFollowSystems ImpulsesHaveBreaks
