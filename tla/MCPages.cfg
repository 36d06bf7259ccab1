\* Requests and reconciler runs one after the other, none dying half-way.
SPECIFICATION SpecPages
CONSTANTS
    Workers = {w1}
    t1 = t1
    t2 = t2
    t3 = t3
    Teams = {t1, t2, t3}
    Scrims = {s1}
    StartTimes = {1}
    Horizon = 9
    NoTeam = NoTeam
    Concurrent = FALSE
    Crashes = FALSE
    CreditTime = 4
    ExtensionTime = 2
    GraceTime = 1
    Opening <- MCOpening
    Led <- MCLed
    u1 = u1
    u2 = u2
    Users = {u1, u2}
    Account <- MCAccount
CHECK_DEADLOCK FALSE
INVARIANTS
    ButtonsWork
    ActionableFromItsPage
    DeadLinksAreKnown
    UnservedCanBeServed
    CancelledWasRefunded
    RefundedNeverRan
    ExtensionsBuyTime
    GraceBeforeStop
PROPERTIES
    NotCutShort
    FollowsStateMachine
    UsesThePromise
