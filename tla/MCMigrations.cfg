\* Three copies of two releases start at the same time; one keeps failing.
SPECIFICATION FairSpec
CONSTANTS
    old = old
    new = new
    flaky = flaky
    Copies = {old, new, flaky}
    Latest = 3
    Ships <- MCShips
    Flaky = {flaky}
    Nobody = Nobody
INVARIANTS
    RunsOnce
    NobodyCollides
    InOrder
    UpIsMigrated
    Inv
PROPERTIES
    OthersStart
