\* One poller at a time, as the CronJob has it, cut off anywhere; one payer, one
\* payment, two offers.
SPECIFICATION FairSpec
CONSTANTS
    alice = alice
    bob = bob
    o1 = o1
    o2 = o2
    o3 = o3
    Payers = {alice}
    Requests = {r1}
    Pollers = {q1}
    Offers = {o1, o2}
    Sender <- MCSender
    Enough <- MCEnough
    MaxPayments = 1
    PollsFail = TRUE
    Garbled = FALSE
    None = None
PROPERTIES
    CompleteIsFinal
    AcceptedIsSettled
