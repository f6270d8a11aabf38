CONSTANTS
    p1 = p1
    p2 = p2
    p3 = p3
    Pipelines = {p1, p2, p3}
    Stages = {"a", "b", "c", "d"}
    Graph <- MCGraph
    Inputs <- MCInputs
    Subject <- MCSubjects
    Locks = {"cpu", "disk", "file"}
    Rank <- MCRank
    Requires <- MCRequires
    Capacity <- MCCapacity
    Disk = "disk"
    MaxAttempts <- MCAttempts
    MaxTimers = 2
    MaxTasks = 2
SPECIFICATION FairSpec
INVARIANTS
    WorkersFitTheLocks
    NoLockDeadlock
    InputsAreDone
    DoneIsComplete
    FailedCanBeRetried
    NoWakeupIsLost
    RunningHasAWorker
PROPERTIES
    LateResultsDoNotResurrect
    StagesFollowTheLifecycle
    RunsEnd
CHECK_DEADLOCK FALSE
