\* Two simulators with robots of distinct names, two kinds of backends.
CONSTANTS
    s1 = s1
    s2 = s2
    a = a
    b = b
    Slots = {s1, s2}
    Names = {a, b}
    NameOf <- OwnNames
    Hits = {"visuals"}
    Backends = {"panda3d", "meshcat"}
    MaxProcesses = 2
    None = None
SYMMETRY Exchange
SPECIFICATION Spec
INVARIANTS TravellingIsOpen SceneOfOpenViewers MarkersAsDisplayed OnlyPickedIsLit
