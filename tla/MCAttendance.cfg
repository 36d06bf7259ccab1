\* Two requests at a time, and crashes.
SPECIFICATION SpecAttendance
CONSTANTS
    Workers = {w1, w2}
    t1 = t1
    Teams = {t1, t2, t3}
    Scrims = {s1}
    StartTimes = {1}
    Horizon = 2
    NoTeam = NoTeam
    Concurrent = TRUE
    Crashes = TRUE
    p1 = p1
    p2 = p2
    Players = {p1, p2}
    Users = {p1}
    Home <- MCHome
    Nobody = Nobody
CHECK_DEADLOCK FALSE
INVARIANTS
    MarkedAreNamed
    TrackerMirrorsRules
PROPERTIES
    FirstClaimWins
    MarksSettle
