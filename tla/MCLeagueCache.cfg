\* One user of two teams, one roster, two requests at a time.
SPECIFICATION FairSpec
CONSTANTS
    Requests = {r1, r2}
    Users = {u1}
    Teams = {1, 2}
    Format <- MCFormat
    Hosts = {1}
    Players = {p1, p2}
    NoKey = NoKey
    Unlinked = Unlinked
INVARIANTS
    LinkIsOneProfile
    StampedRosterIsThere
PROPERTIES
    EveryRequestEnds
