SPECIFICATION FairSpec
CONSTANTS
    Ids <- MCIds
    Methods <- MCMethods
    Handlers <- MCHandlers
    Throwing <- MCThrowing
    Args <- MCArgs
    Calls = {"c1", "c2", "c3", "c4"}
    CallOf <- MCCallOf
    FollowUp <- MCFollowUp
    Late = {}
    Unfit <- MCUnfit
    Stateful = {}
    NoCall = NoCall
    Garbage = Garbage
    Endpoints = 2
    SndBuf = 1
INVARIANTS
    RequestPipeline
    ReplyPipeline
PROPERTIES
    CallsKeepContract
    CallsComplete
CHECK_DEADLOCK FALSE
