SPECIFICATION Spec
CONSTANTS
    Worlds <- AllWorlds
    MaxChunks = 2
    MaxMessages = 3
    AppQueueSize = 1
    MaxBodySize = 1
INVARIANTS WireInOrder LoggedOnce Answered WholeBody
PROPERTY ConsumerEnds
CHECK_DEADLOCK FALSE
