\* Two viewers of one backend, replays with several options.
CONSTANTS
    Slots <- TwoSlots
    Names = {"a", "b"}
    NameOf <- OwnNames
    Backends = {"panda3d"}
    MaxProcesses = 2
    Hits = {}
    None = None
    Requests <- Live
    Frames = 2
    Forces <- NoForces
    MaxInterrupts = 1
    Jobs <- SomeJobs
    MaxJobs = 1
SPECIFICATION AsyncSpec
INVARIANTS RobotsHaveViewers FailureClosesBackend LeavesNoTrace
PROPERTIES ReplayEnds
