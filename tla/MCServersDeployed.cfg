\* Two requests at a time, the CronJob, and crashes.
SPECIFICATION FairSpecServers
CONSTANTS
    Workers = {w1, w2}
    t1 = t1
    t2 = t2
    Teams = {t1, t2}
    Scrims = {s1}
    StartTimes = {1}
    Horizon = 5
    NoTeam = NoTeam
    Concurrent = TRUE
    Crashes = TRUE
    CreditTime = 1
    ExtensionTime = 1
    GraceTime = 1
    Opening <- MCOneEach
    Led <- MCLed
CHECK_DEADLOCK FALSE
INVARIANTS
    GraceOnce
    NoFreeTime
PROPERTIES
    EveryServerEnds
