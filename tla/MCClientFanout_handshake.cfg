SPECIFICATION Spec
CONSTANTS
    Streams = {s1}
    Probes = {}
    RingSize = 2
    QueueSize = 2
    WireSize = 1
    MaxClients = 1
    MaxEvents = 2
CHECK_DEADLOCK FALSE
INVARIANT
    FirstMessageIsTheSnapshot
