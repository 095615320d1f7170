\* Three jobs that do not wait for each other, or one that waits for another;
\* two workers at most; two tasks.
SPECIFICATION FairSpec
CONSTANTS
    j1 = j1
    j2 = j2
    j3 = j3
    t1 = t1
    t2 = t2
    Jobs = {j1, j2, j3}
    Tasks = {t1, t2}
    Workloads <- MCWorkloads
    None = None
    MaxWorkers = 2
INVARIANTS
    PendingCounts
    QueuesOnlyWhenFull
PROPERTIES
    JobsResolve
    DropEnds
CHECK_DEADLOCK FALSE
