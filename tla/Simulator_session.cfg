\* A simulator that is built again and again: two simulations, two configurations.
CONSTANTS
    StateGroups = {"position"}
    SensorGroups = {"imu", "force"}
    Names = {"position", "imu", "force"}
    RobotHas = {"imu"}
    SyncTabs = FALSE
    MaxTabs = 3
    MaxViews = 1
    Configs = {"full", "soft"}
    FlexibleOf <- SomeFlexible
    RecordedOf <- SomeRecorded
    Default = "full"
    MaxTime = 2
    MaxStarts = 2
    None = None
SPECIFICATION SimulatorSpec
CHECK_DEADLOCK FALSE
INVARIANTS SimulateCleansUp ForcesAreShared  OptionsAreOfOneConfig ActiveIsShown
