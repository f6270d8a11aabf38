CONSTANTS
    c1 = c1
    u1 = u1
    NoUrl = NoUrl
    NoRequest = NoRequest
    NoJob = NoJob
    NoRow = NoRow
    UrlChannel <- MCUrlChannel
    Jobs = {j1}
    Channels = {c1}
    LiveKinds = {"capture", "fromStart"}
    Urls = {}
    Cap = 1
    MaxRetries = 1
    MaxEvents = 3
SPECIFICATION JSpec
INVARIANTS
    ClientsSeeTheManager
PROPERTIES
    EndIsFinal
    PruningSparesWork
    PruningFollowsTheFile
CHECK_DEADLOCK FALSE
