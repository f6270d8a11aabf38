CONSTANTS
    a = a
    b = b
    Channels = {a}
    MaxVideo = 2
    PageSize = 1
SPECIFICATION Spec
INVARIANTS
    EventsMatchTheList
    AutoRecordRearms
    UploadsOnce
CHECK_DEADLOCK FALSE
