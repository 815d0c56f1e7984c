CONSTANTS
    a = a
    b = b
    c = c
    ab = ab
    own = own
    NoSession = NoSession
    NoFile = NoFile
    CutFile = CutFile
    Id <- MCId
    Path <- MCPath
    FileOf <- MCFileOf
    InitialFiles <- MCInitialFiles
    Faults <- MCFaults
    Field <- MCField
    MaxTurns <- MCMaxTurns
    Limit <- MCLimit
SYMMETRY Alike
SPECIFICATION Spec
INVARIANTS TypeOK MixOnlyWithinFile ListingAgrees
PROPERTIES KeepsPromise HistoryKept
