CONSTANTS
    p1 = p1
    p2 = p2
    t1 = t1
    t2 = t2
    t3 = t3
    Call = {c1, c2}
    Peer = {p1, p2}
    Track = {t1, t2, t3}
    PeerOf <- MCPeerOf
    MaxInbox = 1
    Failures <- AllFailures
    NoPeer = NoPeer
    NoCommand = NoCommand
SPECIFICATION FairSpec
INVARIANTS TypeOK RegisteredIsOpen MediaOwned
PROPERTIES AbandonDisconnects CallsIndependent Reconnects EveryCommandEnds
CHECK_DEADLOCK FALSE
