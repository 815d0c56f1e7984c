CONSTANTS
    p1 = p1
    p2 = p2
    t1 = t1
    t2 = t2
    t3 = t3
    Call = {c1}
    Peer = {p1}
    Track = {t1}
    PeerOf <- OneTrack
    MaxInbox = 2
    Failures <- NoFailures
    NoPeer = NoPeer
    NoCommand = NoCommand
SPECIFICATION FairSpec
PROPERTY ShutdownEnds
CHECK_DEADLOCK FALSE
