\* Headers and lines of several sizes, logs over several chunks.
CONSTANTS
    a = a
    b = b
    MinBufferSize = 10
    Layouts <- SomeLayouts
    Values = {a, b}
    NoFile = NoFile
    Cut = Cut
    MaxTaken = 6
SPECIFICATION Spec
INVARIANTS CountsWhatIsWritten
PROPERTIES LogIsSnapshots
