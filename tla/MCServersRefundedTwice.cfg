\* Two cancellations at the same time.
SPECIFICATION SpecServers
CONSTANTS
    Workers = {w1, w2}
    t1 = t1
    t2 = t2
    Teams = {t1, t2}
    Scrims = {s1}
    StartTimes = {1}
    Horizon = 9
    NoTeam = NoTeam
    Concurrent = TRUE
    Crashes = FALSE
    CreditTime = 4
    ExtensionTime = 2
    GraceTime = 1
    Opening <- MCOpening
    Led <- MCLed
CHECK_DEADLOCK FALSE
INVARIANTS
    RefundedOnce
