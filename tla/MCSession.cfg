SPECIFICATION FairSpec
CONSTANTS
    Ids <- MCIds
    Methods <- MCMethods
    Handlers <- MCHandlers
    Throwing <- MCThrowing
    Args <- MCArgs
    SndBuf = 2
    MaxTexts = 3
INVARIANTS
    PeerTypeOK
    WriteDiscipline
    NoStalledQueue
    TextsIntact
    ReplyStream
PROPERTIES
    RepliesInOrder
    SilentAfterWriteError
    EveryTextAnswered
    SessionReleased
CHECK_DEADLOCK FALSE
