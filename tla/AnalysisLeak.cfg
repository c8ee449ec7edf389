SPECIFICATION Spec
CONSTANTS
    Attempts = 2
    Order <- OneNode
    BinaryOf <- Alone
    Drivers = {"selected"}
INVARIANTS EveryTreeReclaimed
