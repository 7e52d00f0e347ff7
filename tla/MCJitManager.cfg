\* One function, two threads that find it hot, a VM that is opened twice; no
\* symmetry, for liveness.  The program may stop: nobody has to interpret.
CONSTANTS
    Function = {f}
    Thread = {host, worker}
    Sessions = 2
    HotThreshold = 2
SPECIFICATION JMFairSpec
INVARIANTS QueuedOnce NoWakeupLost
PROPERTIES FreedAfterLastCompile RequestsGetTaken ManagerStops
CHECK_DEADLOCK FALSE
