CONSTANTS
    a = a
    b = b
    Channels = {a}
    MaxVideo = 1
    PageSize = 1
SPECIFICATION Spec
PROPERTY MarksOfOptedInStay
CHECK_DEADLOCK FALSE
