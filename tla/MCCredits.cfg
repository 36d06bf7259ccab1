\* Three requests, so that two spenders and a payment or release meet.
SPECIFICATION FairSpec
CONSTANTS
    Requests = {r1, r2, r3}
    rich = rich
    poor = poor
    p1 = p1
    p2 = p2
    Accounts = {rich, poor}
    Scrims = {s1, s2}
    Payments = {p1, p2}
    Payer <- MCPayer
    Worth <- MCWorth
    Opening <- MCOpening
    NoOne = NoOne
INVARIANTS
    NeverNegative
    RefusalIsHonest
    Inv
PROPERTIES
    FrozenWhileLocked
    Implements
    EveryRequestEnds
