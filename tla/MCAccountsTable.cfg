SPECIFICATION FairSpec
CONSTANTS
    Chunks = {c1, c2}
    NoItem = NoItem
    MaxChunks = 2
    MaxInterrupts = 2
INVARIANTS
    TypeOK
    HoldsLastListing
PROPERTIES
    ReadsLastListing
    NothingLost
    ReadEnds
