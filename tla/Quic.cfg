SPECIFICATION Spec
CONSTANTS
    Scripts <- ClientScripts
    QueueSize = 1
    AppQueueSize = 1
    Timers = {"t1", "t2", "t3"}
    MaxFlushes = 1
    MaxPackets = 2
INVARIANTS SingleTimer NothingLeft
PROPERTY ConnectionsLeave
CHECK_DEADLOCK FALSE
