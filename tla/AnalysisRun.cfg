\* Together: two nodes of one binary, one of another.
SPECIFICATION FairSpec
CONSTANTS
    Attempts = 2
    Order <- ThreeNodes
    BinaryOf <- Together
    Drivers = {"full", "selected", "bare"}
INVARIANTS TypeOK VerifiedUse TreesReclaimed NodesCounted VerdictHonest
PROPERTIES DatabaseRemovedAlone ImplementsRunReport RunEnds
