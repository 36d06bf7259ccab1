\* A second poller with an older view of Steam, and what follows.
SPECIFICATION FairSpec
CONSTANTS
    alice = alice
    bob = bob
    o1 = o1
    o2 = o2
    o3 = o3
    Payers = {alice}
    Requests = {r1}
    Pollers = {q1, q2}
    Offers = {o1}
    Sender <- MCSender
    Enough <- MCEnough
    MaxPayments = 1
    PollsFail = FALSE
    Garbled = FALSE
    None = None
PROPERTIES
    AcceptedIsSettled
