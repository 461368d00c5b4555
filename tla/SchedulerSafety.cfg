CONSTANTS
    health = health
    backup = backup
    r1 = r1
    r2 = r2
    Job <- Jobs
    Reader <- Readers
    MaxStarts = 2
    MaxReads = 2
SPECIFICATION Spec
INVARIANTS OneScheduler StatusIsCoherent
PROPERTY JobsRecur
CHECK_DEADLOCK FALSE
