\* Every call against every answer of MCReplies: the frames and the messages
\* are exact, nothing behind an answer is taken, no answer is believed that
\* should not be, and no call waits for more than its frame.
SPECIFICATION FairSpec
CONSTANTS
    GoodAddrs    <- MCGoodAddrs
    CircuitAddrs <- MCCircuitAddrs
    GoodIds      <- MCGoodIds
    PublicKeys   <- MCPublicKeys
    ConnPeer     <- MCConnPeer
    LocalId      <- MCLocalId
    LocalKey     <- MCLocalKey
    LocalAddrs   <- MCLocalAddrs
    LocalProtos  <- MCLocalProtos
    Key          <- MCKey
    Val          <- MCVal
    Provider     <- MCProvider
    Calls        <- MCCalls
    Replies      <- MCReplies
    Garbage      <- MCGarbage
    Tails        <- MCTails
    MaxRecvLen   =  139
    Nonce        <- MCNonce
    Echoes       <- MCEchoes
INVARIANTS
    TypeOK
    RoundTrip
    NothingOverread
    EndsAgree
PROPERTY
    CallEnds
CHECK_DEADLOCK FALSE
