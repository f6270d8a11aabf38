CONSTANTS
    c1 = c1
    c2 = c2
    u1 = u1
    u2 = u2
    NoUrl = NoUrl
    NoRequest = NoRequest
    UrlChannel <- MCUrlChannel
    Jobs = {j1, j2}
    Channels = {c1}
    LiveKinds = {"capture"}
    Urls = {u1}
    Cap = 1
    MaxRetries = 1
    MaxEvents = 2
SPECIFICATION Spec
SYMMETRY MCSymmetry
PROPERTY SlotsSpec
CHECK_DEADLOCK FALSE
