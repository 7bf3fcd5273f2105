SPECIFICATION FairSpec
CONSTANTS
    Ids <- MCIds
    Methods <- MCMethods
    Handlers <- MCHandlers
    Throwing <- MCThrowing
    Args <- MCArgs
    Calls = {"c5", "c7"}
    CallOf <- MCCallOf
    FollowUp <- MCFollowUp
    Late = {}
    Unfit <- MCUnfit
    Stateful = {}
    NoCall = NoCall
    Garbage = Garbage
    Endpoints = 1
    SndBuf = 1
PROPERTY
    EveryCallReported
CHECK_DEADLOCK FALSE
