SPECIFICATION Spec
CONSTANTS
    Ids <- MCIds
    Methods <- MCMethods
    Handlers <- MCHandlers
    Throwing <- MCThrowing
    Args <- MCArgs
    Calls = {"c3"}
    CallOf <- MCCallOf
    FollowUp <- MCFollowUp
    Late = {}
    Unfit <- MCUnfit
    Stateful = {}
    NoCall = NoCall
    Garbage = Garbage
    Endpoints = 2
    SndBuf = 1
PROPERTY
    GivesUpWhenRefused
CHECK_DEADLOCK FALSE
