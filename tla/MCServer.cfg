SPECIFICATION FairSpec
CONSTANTS
    MaxRuns = 2
    MaxConns = 3
    Files = 2
    Interval = 2
    MaxNow = 6
    None = None
INVARIANTS
    TypeOK
    ChainsKept
    NoneTurnedAway
    TimerOnSchedule
PROPERTIES
    EveryConnectionServed
    TimerHeard
CHECK_DEADLOCK FALSE
