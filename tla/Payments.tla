------------------------------ MODULE Payments ------------------------------
(***************************************************************************)
(* Steam trades becoming credits: app/payments.py, the poll-payments       *)
(* command of app/cli.py, and the payment routes of app/routes/credits.py. *)
(*                                                                         *)
(* Three parties act.  Steam moves trade offers through their states.      *)
(* Payers start payments, in a check and a later INSERT, and abandon them. *)
(* Pollers fetch the offers Steam holds, first the active ones and then    *)
(* the others, and fold each into the payments, one statement at a time.   *)
(*                                                                         *)
(* The row of payments that reconcile_offer reads again after its claim is *)
(* left out: what is used of it never changes.  An offer's items are       *)
(* reduced to whether there are enough of them; the grant and the state it *)
(* comes with are one transaction (Credits!CommitComplete) and one step.   *)
(***************************************************************************)
EXTENDS Integers, FiniteSets, FiniteSetsExt

CONSTANTS
    Payers,         \* signed-in accounts with a trade link
    Requests,       \* payment requests that can be served at the same time
    Pollers,        \* poll-payments processes that can run at the same time
    Offers,         \* trade offers Steam may come to hold
    Sender,         \* Sender[o]: the account that sends offer o
    Enough,         \* offers with at least PAYMENT_MIN_KEYS of the item
    MaxPayments,    \* bound on the rows of payments
    PollsFail,      \* whether a poll can be cut off by Steam or by a kill
    Garbled,        \* whether an answer of Steam's can lack an offer's state
    None            \* no payer, no offer

ASSUME PaymentsAssumption ==
    /\ Sender \in [Offers -> Payers]
    /\ Enough \subseteq Offers
    /\ MaxPayments \in Nat
    /\ PollsFail \in BOOLEAN /\ Garbled \in BOOLEAN
    /\ None \notin Payers /\ None \notin Offers

VARIABLES
    offers,         \* the state of each offer at Steam
    payments,       \* rows of payments, in the order of their id
    grants,         \* grants[p]: grant entries in the ledger for payment p
    request,        \* the payer a start_payment has approved but not recorded
    poller,         \* what each poller is doing
    ignored         \* history: offers a poll found nobody's payment for

vars == <<offers, payments, grants, request, poller, ignored>>

Ids == 1 .. MaxPayments

NoPayment == [state |-> "none", payer |-> None, ref |-> None]

Recorded == {p \in Ids : payments[p] # NoPayment}

OpenStates == {"started", "held"}

Open(payer) == {p \in Ids : payments[p].payer = payer /\ payments[p].state \in OpenStates}

(* _payment_for_offer, as a set of at most one. *)
For(o) == {p \in Ids : payments[p].ref = o}

(* The rows _oldest_unclaimed chooses from. *)
Unclaimed(payer) == {p \in Open(payer) : payments[p].ref = None}

Asleep == [pc |-> "idle"]

Init ==
    /\ offers = [o \in Offers |-> "unsent"]
    /\ payments = [p \in Ids |-> NoPayment]
    /\ grants = [p \in Ids |-> 0]
    /\ request = [r \in Requests |-> None]
    /\ poller = [q \in Pollers |-> Asleep]
    /\ ignored = {}

-----------------------------------------------------------------------------
(* Steam.  "dead" stands for every state of DEAD_STATES, "pending" for     *)
(* those of PENDING_STATES.                                                *)

SteamSteps ==
    {<<"unsent", "pending">>, <<"pending", "escrow">>, <<"pending", "accepted">>,
     <<"pending", "dead">>, <<"escrow", "accepted">>, <<"escrow", "dead">>}

Steam(o) ==
    \E new \in {"pending", "escrow", "accepted", "dead"} :
        /\ <<offers[o], new>> \in SteamSteps
        /\ offers' = [offers EXCEPT ![o] = new]
        /\ UNCHANGED <<payments, grants, request, poller, ignored>>

-----------------------------------------------------------------------------
(* Payers.                                                                 *)

(* check_can_pay: the last of its checks asks Steam, over the network,     *)
(* about the payer's holds, and may refuse.                                *)
CheckCanPay(r, payer) ==
    /\ request[r] = None
    /\ Open(payer) = {}
    /\ request' = [request EXCEPT ![r] = payer]
    /\ UNCHANGED <<offers, payments, grants, poller, ignored>>

(* start_payment, once the verdict is in. *)
StartPayment(r) ==
    /\ request[r] # None
    /\ Cardinality(Recorded) < MaxPayments
    /\ payments' = [payments EXCEPT ![Cardinality(Recorded) + 1] =
          [state |-> "started", payer |-> request[r], ref |-> None]]
    /\ request' = [request EXCEPT ![r] = None]
    /\ UNCHANGED <<offers, grants, poller, ignored>>

(* Mutant: any payment of one's own can be given up. *)
AbandonAny(p) ==
    /\ payments[p] # NoPayment
    /\ payments' = [payments EXCEPT ![p].state = "failed"]
    /\ UNCHANGED <<offers, grants, request, poller, ignored>>

(* abandon: one UPDATE, for a payment no offer is attached to. *)
Abandon(p) ==
    /\ payments[p].state \in OpenStates
    /\ payments[p].ref = None
    /\ payments' = [payments EXCEPT ![p].state = "failed"]
    /\ UNCHANGED <<offers, grants, request, poller, ignored>>

-----------------------------------------------------------------------------
(* poll_once.                                                              *)

Active == {o \in Offers : offers[o] \in {"pending", "escrow"}}
Historical == {o \in Offers : offers[o] \in {"accepted", "dead"}}

(* Poller q has fetched these offers, as they are now, for this pass.  One *)
(* whose state is missing is taken for invalid, which is a dead state.     *)
Fetched(q, fetched, seen, pass) ==
    \E missing \in IF Garbled THEN SUBSET fetched ELSE {{}} :
        poller' = [poller EXCEPT ![q] =
            [pc |-> "next", pass |-> pass, seen |-> seen, offer |-> None, payment |-> 0,
             todo |-> [o \in fetched |-> IF o \in missing THEN "dead" ELSE offers[o]]]]

StartPoll(q) ==
    /\ poller[q].pc = "idle"
    /\ Fetched(q, Active, Active, "active")
    /\ UNCHANGED <<offers, payments, grants, request, ignored>>

(* Mutant: the second pass asks for active offers too. *)
SecondPassActiveOnly(q) ==
    /\ poller[q].pc = "next" /\ DOMAIN poller[q].todo = {}
    /\ poller[q].pass = "active"
    /\ Fetched(q, Active \ poller[q].seen, {}, "historical")
    /\ UNCHANGED <<offers, payments, grants, request, ignored>>

(* The second pass leaves out what the first has seen. *)
SecondPass(q) ==
    /\ poller[q].pc = "next" /\ DOMAIN poller[q].todo = {}
    /\ poller[q].pass = "active"
    /\ Fetched(q, Historical \ poller[q].seen, {}, "historical")
    /\ UNCHANGED <<offers, payments, grants, request, ignored>>

EndPoll(q) ==
    /\ poller[q].pc = "next" /\ DOMAIN poller[q].todo = {}
    /\ poller[q].pass = "historical"
    /\ poller' = [poller EXCEPT ![q] = Asleep]
    /\ UNCHANGED <<offers, payments, grants, request, ignored>>

(* A poll ends early: Steam does not answer, a reconcile raises, a kill. *)
PollFails(q) ==
    /\ PollsFail
    /\ poller[q].pc # "idle"
    /\ poller' = [poller EXCEPT ![q] = Asleep]
    /\ UNCHANGED <<offers, payments, grants, request, ignored>>

(* On to the next statement of reconcile_offer ...                         *)
At(q, pc, o, p) ==
    poller' = [poller EXCEPT ![q].pc = pc, ![q].offer = o, ![q].payment = p]

(* ... or back to poll_once, which is through with offer o.                *)
Return(q, o) ==
    poller' = [poller EXCEPT
        ![q].pc = "next", ![q].offer = None, ![q].payment = 0,
        ![q].todo = [x \in DOMAIN poller[q].todo \ {o} |-> poller[q].todo[x]]]

(* existing = _payment_for_offer *)
Lookup(q, o) ==
    /\ poller[q].pc = "next"
    /\ o \in DOMAIN poller[q].todo
    /\ \/ For(o) = {} /\ At(q, "oldest", o, 0)
       \/ \E p \in For(o) : IF payments[p].state = "complete"
                            THEN Return(q, o)
                            ELSE At(q, "settle", o, p)
    /\ UNCHANGED <<offers, payments, grants, request, ignored>>

(* ... or _oldest_unclaimed *)
Oldest(q) ==
    /\ poller[q].pc = "oldest"
    /\ LET o == poller[q].offer
           candidates == Unclaimed(Sender[o])
       IN  IF candidates = {}
           THEN Return(q, o) /\ ignored' = ignored \cup {o}
           ELSE At(q, "claim", o, Min(candidates)) /\ UNCHANGED ignored
    /\ UNCHANGED <<offers, payments, grants, request>>

(* Mutant: no unique index on the offer's id. *)
ClaimOfferUnindexed(q) ==
    /\ poller[q].pc = "claim"
    /\ LET o == poller[q].offer
           p == poller[q].payment
       IN  IF payments[p].ref = None
           THEN /\ payments' = [payments EXCEPT ![p].ref = o]
                /\ At(q, "settle", o, p)
           ELSE Return(q, o) /\ UNCHANGED payments
    /\ UNCHANGED <<offers, grants, request, ignored>>

(* _claim_offer: UNIQUE (method, provider_ref), and only a row without one. *)
ClaimOffer(q) ==
    /\ poller[q].pc = "claim"
    /\ LET o == poller[q].offer
           p == poller[q].payment
       IN  IF payments[p].ref = None /\ For(o) = {}
           THEN /\ payments' = [payments EXCEPT ![p].ref = o]
                /\ At(q, "settle", o, p)
           ELSE Return(q, o) /\ UNCHANGED payments
    /\ UNCHANGED <<offers, grants, request, ignored>>

(* _set_state: unconditional. *)
SetState(p, state) == payments' = [payments EXCEPT ![p].state = state]

(* Mutant: the state changes in a transaction of its own, before a grant   *)
(* that is lost.                                                           *)
CompleteWithoutGrant(q, o, p) ==
    /\ SetState(p, "complete")
    /\ Return(q, o)
    /\ UNCHANGED grants

(* _complete: a compare-and-set, then the grant, in one transaction.  If   *)
(* the payment has its grant already, the ledger's index refuses a second: *)
(* all is rolled back and the exception ends the poll.                     *)
Complete(q, o, p) ==
    \/ /\ payments[p].state = "complete"
       /\ Return(q, o)
       /\ UNCHANGED <<payments, grants>>
    \/ /\ payments[p].state # "complete"
       /\ grants[p] = 0
       /\ SetState(p, "complete")
       /\ grants' = [grants EXCEPT ![p] = @ + 1]
       /\ Return(q, o)
    \/ /\ payments[p].state # "complete"
       /\ grants[p] > 0
       /\ poller' = [poller EXCEPT ![q] = Asleep]
       /\ UNCHANGED <<payments, grants>>

(* What follows from the state the offer had when it was fetched. *)
Settle(q) ==
    /\ poller[q].pc = "settle"
    /\ LET o == poller[q].offer
           p == poller[q].payment
           seen == poller[q].todo[o]
           Record(state) == SetState(p, state) /\ Return(q, o) /\ UNCHANGED grants
       IN  \/ seen = "pending" /\ Return(q, o) /\ UNCHANGED <<payments, grants>>
           \/ seen = "escrow" /\ Record("held")
           \/ seen = "dead" /\ Record("failed")
           \/ seen = "accepted" /\ o \notin Enough /\ Record("insufficient")
           \/ seen = "accepted" /\ o \in Enough /\ Complete(q, o, p)
    /\ UNCHANGED <<offers, request, ignored>>

Poll(q) ==
    \/ StartPoll(q) \/ SecondPass(q) \/ EndPoll(q)
    \/ \E o \in Offers : Lookup(q, o)
    \/ Oldest(q) \/ ClaimOffer(q) \/ Settle(q)

Next ==
    \/ \E o \in Offers : Steam(o)
    \/ \E r \in Requests : StartPayment(r) \/ \E payer \in Payers : CheckCanPay(r, payer)
    \/ \E p \in Ids : Abandon(p)
    \/ \E q \in Pollers : Poll(q) \/ PollFails(q)

Spec == Init /\ [][Next]_vars

(* Poller q is at statement pc of reconcile_offer for offer o, and runs it. *)
Reconcile(q, pc, o) ==
    /\ poller[q].pc = pc /\ poller[q].offer = o
    /\ Oldest(q) \/ ClaimOffer(q) \/ Settle(q)

(* The CronJob keeps polling, and every poll goes on or is cut off.        *)
(* However often polls are cut off, they are not cut off every time before *)
(* the second pass, nor every time before the same statement for the same  *)
(* offer.  Steam and the payers owe nothing.                               *)
FairSpec ==
    /\ Spec
    /\ \A q \in Pollers :
          /\ WF_vars(Poll(q)) /\ SF_vars(SecondPass(q))
          /\ \A o \in Offers :
                /\ SF_vars(Lookup(q, o))
                /\ \A pc \in {"oldest", "claim", "settle"} : SF_vars(Reconcile(q, pc, o))

-----------------------------------------------------------------------------
TypeOK ==
    /\ offers \in [Offers -> {"unsent", "pending", "escrow", "accepted", "dead"}]
    /\ payments \in [Ids ->
          [state : OpenStates \cup {"none", "complete", "insufficient", "failed"},
           payer : Payers \cup {None}, ref : Offers \cup {None}]]
    /\ grants \in [Ids -> Nat]
    /\ request \in [Requests -> Payers \cup {None}]
    /\ \A q \in Pollers : poller[q].pc # "idle" =>
          /\ DOMAIN poller[q].todo \subseteq Offers
          /\ poller[q].payment \in Ids \cup {0}
    /\ ignored \subseteq Offers

(* Credits only ever come of a trade that Steam reports accepted with      *)
(* enough in it, sent by the payer they go to, once for each such trade    *)
(* (FR-009 and FR-038), whoever polls and how often.                       *)
CreditsAreBacked ==
    \A p \in Ids : grants[p] > 0 =>
        /\ grants[p] = 1
        /\ payments[p].ref \in Enough
        /\ offers[payments[p].ref] = "accepted"
        /\ Sender[payments[p].ref] = payments[p].payer
        /\ For(payments[p].ref) = {p}

(* A payment is shown complete only with its credits in the ledger. *)
CompleteWasCredited ==
    \A p \in Ids : payments[p].state = "complete" => grants[p] = 1

(* Steam having a bad minute fails no payment (SC-014): one fails when its *)
(* payer gives it up or when its offer is dead at Steam.  An answer of     *)
(* Steam's that lacks an offer's state is the exception (Garbled).         *)
FailsForAReason ==
    [][\A p \in Ids : payments'[p].state = "failed" /\ payments[p].state # "failed" =>
          \/ payments[p].ref = None
          \/ offers[payments[p].ref] = "dead"]_vars

(* started and held are not reachable from complete (005 data-model). *)
CompleteIsFinal ==
    [][\A p \in Ids : payments[p].state = "complete" =>
          payments'[p].state = "complete"]_vars

(* An accepted trade that a payment has claimed is settled in the end, if  *)
(* only the second pass finds it, and though polls are cut off.            *)
AcceptedIsSettled ==
    \A p \in Ids, o \in Offers :
        payments[p].ref = o /\ offers[o] = "accepted"
            ~> payments[p].state \in {"complete", "insufficient"}

(* At most one payment in progress for each payer (005 data-model). *)
OneAtATime == \A payer \in Payers : Cardinality(Open(payer)) <= 1

(* A trade nobody had a payment for is not ours to credit: the operator    *)
(* handles it out of band, and no later payment is completed by it.        *)
NotOursToCredit ==
    \A p \in Ids : grants[p] > 0 => payments[p].ref \notin ignored

=============================================================================
