\* Two pollers at a time, polls cut off anywhere.
SPECIFICATION Spec
CONSTANTS
    alice = alice
    bob = bob
    o1 = o1
    o2 = o2
    o3 = o3
    Payers = {alice}
    Requests = {r1}
    Pollers = {q1, q2}
    Offers = {o1, o2}
    Sender <- MCSender
    Enough <- MCEnough
    MaxPayments = 2
    PollsFail = TRUE
    Garbled = FALSE
    None = None
SYMMETRY Symmetric
INVARIANTS
    CreditsAreBacked
    CompleteWasCredited
PROPERTIES
    FailsForAReason
