\* Two teams, hydrated one a visit, whichever of them RGL never answers for; two
\* requests at a time, one of which may die.
SPECIFICATION FairSpec
CONSTANTS
    Requests = {r1, r2}
    Mortal = {r1}
    Teams = {1, 2}
    Batch = 1
PROPERTIES
    NeverPendingAgain
    DirectoryFills
