\* Ticks of five seconds.
CONSTANTS
    Requests = {r1}
    Deadline = 3
    Limit <- OneTick
    Chunks = 3
    Buffer = 1
    Wrapped = TRUE
SPECIFICATION Spec
CHECK_DEADLOCK FALSE
INVARIANT Flushed
