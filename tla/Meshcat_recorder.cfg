\* A cell of a notebook and the browser of a recorder, that may be started twice.
CONSTANTS
    Webs = {"w1", "w2"}
    Comms = {"c"}
    MaxRequests = 2
    MaxCalls = 2
    WebsStay = TRUE
    None = None
SPECIFICATION RecorderSpec
CHECK_DEADLOCK FALSE
INVARIANTS RepliesToRequests ResultOfItsRequest
PROPERTIES ReadyIsAnswered RequestEnds
