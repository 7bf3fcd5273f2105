SPECIFICATION Spec
CONSTANTS
    Ids <- MCIds
    Methods <- MCMethods
    Handlers <- MCHandlers
    Throwing <- MCThrowing
    Args <- MCArgs
    Calls = {"c3"}
    CallOf <- MCCallOf
    FollowUp <- MCFollowUp
    Late = {}
    Unfit <- MCUnfit
    Stateful = {"c3"}
    NoCall = NoCall
    Garbage = Garbage
    Endpoints = 1
    SndBuf = 1
INVARIANT
    CallbackIntact
CHECK_DEADLOCK FALSE
