SPECIFICATION FairSpec
CONSTANTS
    Streams = {s1}
    Probes = {p1}
    RingSize = 2
    QueueSize = 2
    WireSize = 1
    MaxClients = 1
    MaxEvents = 3
CHECK_DEADLOCK FALSE
INVARIANTS
    StreamContinuesTheSnapshot
PROPERTIES
    EventsAreSentOrTheConnectionEnds
