SPECIFICATION FairSpec
CONSTANTS
    Ids <- MCIds
    Methods <- MCMethods
    Handlers <- MCHandlers
    Throwing <- MCThrowing
    Args <- MCArgs
    Calls = {"c1", "c2"}
    CallOf <- MCCallOf
    FollowUp <- MCFollowUp
    Late = {"c2"}
    Unfit <- MCUnfit
    Stateful = {}
    NoCall = NoCall
    Garbage = Garbage
    Endpoints = 2
    SndBuf = 1
    MaxReplies = 2
INVARIANTS
    PeerTypeOK
    RequestStream
    RepliesIntact
    InvokedForResponse
PROPERTIES
    ClientLetsGo
    EveryTextHeard
CHECK_DEADLOCK FALSE
