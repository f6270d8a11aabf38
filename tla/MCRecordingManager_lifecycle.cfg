CONSTANTS
    c1 = c1
    c2 = c2
    u1 = u1
    u2 = u2
    NoUrl = NoUrl
    NoRequest = NoRequest
    UrlChannel <- MCUrlChannel
    Jobs = {j1}
    Channels = {c1}
    LiveKinds = {"capture", "fromStart"}
    Urls = {u1}
    Cap = 1
    MaxRetries = 2
    MaxEvents = 3
SPECIFICATION FairSpec
INVARIANTS
    ResolvingIsAnswered
    OneRecorderPerJob
    FinalizedPartsAreWhole
    NothingAfterTheEnd
    FfmpegIsOwned
PROPERTIES
    MediaIsKept
    StallsEnd
    ExitsAreHandled
CHECK_DEADLOCK FALSE
