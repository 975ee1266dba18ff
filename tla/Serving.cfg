\* Ticks of five seconds.
CONSTANTS
    Requests = {r1, r2}
    Deadline = 3
    Limit <- OneTick
    Chunks = 2
    Buffer = 1
    Wrapped = TRUE
SPECIFICATION FairSpec
CHECK_DEADLOCK FALSE
INVARIANTS
    TypeOK
    GraceHonoured
    SpansKept
PROPERTIES
    Ended
    Serves
    Stops
