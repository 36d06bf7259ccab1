---------------------------- MODULE PaymentsProof ----------------------------
(***************************************************************************)
(* Proofs about Payments, for any number of payers, pollers, offers and    *)
(* payments, polls cut off anywhere.  The argument: an offer that was      *)
(* fetched as accepted or dead is so for good, so that what a poller       *)
(* carries in todo is old but, in these two cases, true; a poller that     *)
(* settles has the payment of its offer (ReadyToSettle), which is the only *)
(* one, whatever other pollers do to its state; and the ledger's index     *)
(* makes the one grant that comes of it the last.                          *)
(*                                                                         *)
(* With a single poller there is more: what it settles is not complete     *)
(* (Undecided), so that no complete payment is ever set back.              *)
(***************************************************************************)
EXTENDS Payments, FiniteSetTheorems, WellFoundedInduction, TLAPS

-----------------------------------------------------------------------------
(* The inductive invariant                                                 *)

OfferStates == {"unsent", "pending", "escrow", "accepted", "dead"}

(* The records a poller at work is described by. *)
WorkStates(todo) ==
    [pc : {"next", "oldest", "claim", "settle"}, pass : {"active", "historical"},
     seen : SUBSET Offers, offer : Offers \cup {None}, payment : Ids \cup {0},
     todo : {todo}]

(* Of what a poller has fetched, the final states are still so: accepted   *)
(* whatever Steam's answers lack, dead when they lack nothing.             *)
FetchedIsOldButTrue(todo) ==
    /\ DOMAIN todo \subseteq Offers
    /\ \A o \in DOMAIN todo :
          /\ todo[o] = "accepted" => offers[o] = "accepted"
          /\ todo[o] = "dead" => Garbled \/ offers[o] = "dead"

ReadyToClaim(x) == x.payment \in Ids /\ payments[x.payment].payer = Sender[x.offer]

ReadyToSettle(x) == x.payment \in Ids /\ payments[x.payment].ref = x.offer

AtWork(x) ==
    /\ x \in WorkStates(x.todo)
    /\ FetchedIsOldButTrue(x.todo)
    /\ x.pc # "next" => x.offer \in DOMAIN x.todo
    /\ x.pc = "claim" => ReadyToClaim(x)
    /\ x.pc = "settle" => ReadyToSettle(x)

PollersAreRight ==
    /\ poller \in [Pollers -> {poller[q] : q \in Pollers}]
    /\ \A q \in Pollers : poller[q] = Asleep \/ AtWork(poller[q])

Types ==
    /\ offers \in [Offers -> OfferStates]
    /\ payments \in [Ids ->
          [state : OpenStates \cup {"none", "complete", "insufficient", "failed"},
           payer : Payers \cup {None}, ref : Offers \cup {None}]]
    /\ grants \in [Ids -> {0, 1}]
    /\ request \in [Requests -> Payers \cup {None}]

(* Rows are numbered from 1. *)
Numbered == \E n \in 0 .. MaxPayments : Recorded = 1 .. n

(* A claimed offer is its payer's, and claimed by one payment. *)
Claimed ==
    \A p \in Ids : payments[p].ref # None =>
        /\ payments[p].payer = Sender[payments[p].ref]
        /\ \A r \in Ids : payments[r].ref = payments[p].ref => r = p

Granted ==
    \A p \in Ids :
        /\ payments[p].state = "complete" => grants[p] = 1
        /\ grants[p] = 1 => /\ payments[p].ref \in Enough
                            /\ offers[payments[p].ref] = "accepted"

IInv == Types /\ Numbered /\ Claimed /\ Granted /\ PollersAreRight

-----------------------------------------------------------------------------
(* Steps of Steam and the payers                                           *)

LEMMA InitIInv == Init => IInv
  <1> SUFFICES ASSUME Init PROVE IInv
    OBVIOUS
  <1>1. Types /\ Claimed /\ Granted
    BY DEF Init, Types, Claimed, Granted, NoPayment, OfferStates
  <1>2. Numbered
    <2>1. Recorded = {} /\ 1 .. 0 = {}
      BY DEF Init, Recorded
    <2>2. 0 \in 0 .. MaxPayments
      BY PaymentsAssumption
    <2> QED BY <2>1, <2>2 DEF Numbered
  <1>3. PollersAreRight
    BY DEF Init, PollersAreRight
  <1> QED BY <1>1, <1>2, <1>3 DEF IInv

(* Accepted and dead are final at Steam. *)
LEMMA SteamKeeps ==
  ASSUME IInv, NEW o \in Offers, Steam(o)
  PROVE  IInv'
  <1>1. PICK new \in {"pending", "escrow", "accepted", "dead"} :
           /\ <<offers[o], new>> \in SteamSteps
           /\ offers' = [offers EXCEPT ![o] = new]
           /\ UNCHANGED <<payments, grants, request, poller, ignored>>
    BY DEF Steam
  <1>2. offers[o] \notin {"accepted", "dead"}
    BY <1>1 DEF SteamSteps
  <1>3. /\ offers' \in [Offers -> OfferStates]
        /\ \A x \in Offers : offers[x] \in {"accepted", "dead"} => offers'[x] = offers[x]
    BY <1>1, <1>2 DEF IInv, Types, OfferStates
  <1>4. Types' /\ Numbered' /\ Claimed'
    BY <1>1, <1>3 DEF IInv, Types, Numbered, Recorded, Claimed
  <1>5. Granted'
    BY <1>1, <1>3, PaymentsAssumption DEF IInv, Granted
  <1>6. ASSUME NEW q \in Pollers, AtWork(poller[q]) PROVE AtWork(poller[q])'
    <2>1. FetchedIsOldButTrue(poller[q].todo)'
      BY <1>1, <1>3, <1>6 DEF AtWork, FetchedIsOldButTrue
    <2> QED BY <1>1, <1>6, <2>1 DEF AtWork, WorkStates, ReadyToClaim, ReadyToSettle
  <1>7. PollersAreRight'
    BY <1>1, <1>6 DEF IInv, PollersAreRight
  <1> QED BY <1>4, <1>5, <1>7 DEF IInv

(* Rows may be added, claimed and given up under a poller that is at work: *)
(* their payers and what they have claimed do not change.                  *)
LEMMA RowsMoveOn ==
  ASSUME PollersAreRight, Types,
         \A p \in Ids : /\ (payments[p].payer # None =>
                               payments'[p].payer = payments[p].payer)
                        /\ (payments[p].ref # None => payments'[p].ref = payments[p].ref),
         NEW q \in Pollers, AtWork(poller[q]), UNCHANGED <<offers, poller>>
  PROVE  AtWork(poller[q])'
  <1> DEFINE x == poller[q]
  <1>1. x \in WorkStates(x.todo) /\ DOMAIN x.todo \subseteq Offers
    BY DEF AtWork, FetchedIsOldButTrue
  <1>2. x.pc # "next" => x.offer \in Offers /\ Sender[x.offer] # None /\ x.offer # None
    BY <1>1, PaymentsAssumption DEF AtWork
  <1>3. x.pc = "claim" => ReadyToClaim(x)'
    BY <1>2 DEF AtWork, ReadyToClaim
  <1>4. x.pc = "settle" => ReadyToSettle(x)'
    BY <1>2 DEF AtWork, ReadyToSettle
  <1>5. FetchedIsOldButTrue(x.todo)'
    BY DEF AtWork, FetchedIsOldButTrue
  <1> QED BY <1>3, <1>4, <1>5 DEF AtWork, WorkStates

(* The next row is free. *)
LEMMA NextRowIsFree ==
  ASSUME IInv, Cardinality(Recorded) < MaxPayments
  PROVE  LET p == Cardinality(Recorded) + 1
         IN  p \in Ids /\ payments[p] = NoPayment /\ Recorded \cup {p} = 1 .. p
  <1>1. PICK n \in 0 .. MaxPayments : Recorded = 1 .. n
    BY DEF IInv, Numbered
  <1>2. n \in Nat /\ MaxPayments \in Nat
    BY PaymentsAssumption
  <1>3. Cardinality(Recorded) = n
    <2>1. Cardinality(1 .. n) = IF 1 > n THEN 0 ELSE n - 1 + 1
      BY <1>2, FS_Interval
    <2> QED BY <1>1, <1>2, <2>1
  <1>4. n + 1 \in Ids
    BY <1>2, <1>3 DEF Ids
  <1>5. n + 1 \notin Recorded
    BY <1>1, <1>2
  <1>6. payments[n + 1] = NoPayment
    BY <1>4, <1>5 DEF Recorded
  <1>7. Recorded \cup {n + 1} = 1 .. (n + 1)
    BY <1>1, <1>2
  <1> QED BY <1>3, <1>4, <1>6, <1>7

LEMMA StartKeeps ==
  ASSUME IInv, NEW r \in Requests, StartPayment(r)
  PROVE  IInv'
  <1> DEFINE p == Cardinality(Recorded) + 1
             row == [state |-> "started", payer |-> request[r], ref |-> None]
  <1>1. /\ request[r] # None /\ Cardinality(Recorded) < MaxPayments
        /\ payments' = [payments EXCEPT ![p] = row]
        /\ request' = [request EXCEPT ![r] = None]
        /\ UNCHANGED <<offers, grants, poller>>
    BY DEF StartPayment
  <1>2. p \in Ids /\ payments[p] = NoPayment /\ Recorded \cup {p} = 1 .. p
    BY <1>1, NextRowIsFree
  <1>3. row # NoPayment /\ row.state = "started" /\ row.ref = None
    BY DEF NoPayment
  <1>4. row \in [state : OpenStates \cup {"none", "complete", "insufficient", "failed"},
                 payer : Payers \cup {None}, ref : Offers \cup {None}]
    BY DEF IInv, Types, OpenStates
  <1> HIDE DEF p, row
  <1>5. payments'[p] = row /\ \A i \in Ids \ {p} : payments'[i] = payments[i]
    BY <1>1, <1>2 DEF IInv, Types
  <1>6. Types'
    BY <1>1, <1>2, <1>4 DEF IInv, Types
  <1>7. Numbered'
    <2>1. Recorded' = Recorded \cup {p}
      BY <1>2, <1>3, <1>5 DEF Recorded
    <2>2. p \in 0 .. MaxPayments
      BY <1>2, PaymentsAssumption DEF Ids
    <2> QED BY <1>2, <2>1, <2>2 DEF Numbered
  <1>8. Claimed' /\ Granted'
    BY <1>1, <1>2, <1>3, <1>5 DEF IInv, Claimed, Granted, NoPayment
  <1>9. PollersAreRight'
    BY <1>1, <1>2, <1>5, RowsMoveOn DEF IInv, PollersAreRight, NoPayment
  <1> QED BY <1>6, <1>7, <1>8, <1>9 DEF IInv

(* Whoever changes the state of a recorded payment leaves the rest alone. *)
LEMMA StateKeeps ==
  ASSUME IInv, NEW p \in Ids, payments[p] # NoPayment,
         NEW state \in {"held", "failed", "insufficient", "complete"},
         payments' = [payments EXCEPT ![p].state = state],
         UNCHANGED <<offers, request>>
  PROVE  /\ payments' \in [Ids ->
               [state : OpenStates \cup {"none", "complete", "insufficient", "failed"},
                payer : Payers \cup {None}, ref : Offers \cup {None}]]
         /\ Numbered' /\ Claimed'
         /\ \A i \in Ids :
               /\ payments'[i].payer = payments[i].payer
               /\ payments'[i].ref = payments[i].ref
               /\ payments'[i].state = IF i = p THEN state ELSE payments[i].state
  <1>1. /\ payments'[p] = [payments[p] EXCEPT !.state = state]
        /\ \A i \in Ids \ {p} : payments'[i] = payments[i]
    BY DEF IInv, Types
  <1>2. /\ payments'[p].payer = payments[p].payer
        /\ payments'[p].ref = payments[p].ref
        /\ payments'[p].state = state
        /\ payments'[p] \in
              [state : OpenStates \cup {"none", "complete", "insufficient", "failed"},
               payer : Payers \cup {None}, ref : Offers \cup {None}]
    BY <1>1 DEF IInv, Types, OpenStates
  <1>3. payments' \in [Ids ->
               [state : OpenStates \cup {"none", "complete", "insufficient", "failed"},
                payer : Payers \cup {None}, ref : Offers \cup {None}]]
    BY <1>1, <1>2 DEF IInv, Types
  <1>4. Recorded' = Recorded
    BY <1>1, <1>2 DEF Recorded, NoPayment
  <1>5. Numbered'
    BY <1>4 DEF IInv, Numbered
  <1>6. Claimed'
    BY <1>1, <1>2 DEF IInv, Claimed
  <1> QED BY <1>1, <1>2, <1>3, <1>5, <1>6

(* ... and the pollers with it. *)
LEMMA StateKeepsPollers ==
  ASSUME IInv, UNCHANGED <<offers, poller>>,
         \A i \in Ids : /\ payments'[i].payer = payments[i].payer
                        /\ payments'[i].ref = payments[i].ref
  PROVE  PollersAreRight'
  BY RowsMoveOn DEF IInv, PollersAreRight

(* A payment without an offer, and so without credits, is given up. *)
LEMMA AbandonKeeps ==
  ASSUME IInv, NEW p \in Ids, Abandon(p)
  PROVE  IInv'
  <1>1. /\ payments[p].ref = None /\ payments[p] # NoPayment
        /\ payments' = [payments EXCEPT ![p].state = "failed"]
        /\ UNCHANGED <<offers, grants, request, poller>>
    BY DEF Abandon, NoPayment, OpenStates
  <1>2. /\ Numbered' /\ Claimed' /\ Types'
        /\ \A i \in Ids :
              /\ payments'[i].payer = payments[i].payer
              /\ payments'[i].ref = payments[i].ref
              /\ payments'[i].state = IF i = p THEN "failed" ELSE payments[i].state
    BY <1>1, StateKeeps DEF IInv, Types
  <1>3. Granted'
    BY <1>1, <1>2 DEF IInv, Granted
  <1>4. PollersAreRight'
    BY <1>1, <1>2, StateKeepsPollers
  <1> QED BY <1>2, <1>3, <1>4 DEF IInv

-----------------------------------------------------------------------------
(* Steps of the pollers                                                    *)

(* A poller goes on to x, the rows being as they were. *)
LEMMA PollerMovesOn ==
  ASSUME IInv, NEW q \in Pollers, NEW x,
         poller' = [poller EXCEPT ![q] = x], x = Asleep \/ AtWork(x),
         UNCHANGED <<offers, payments, grants, request>>
  PROVE  IInv'
  <1>1. Types' /\ Numbered' /\ Claimed' /\ Granted'
    BY DEF IInv, Types, Numbered, Recorded, Claimed, Granted
  <1>2. \A r \in Pollers : poller'[r] = x \/ poller'[r] = poller[r]
    BY DEF IInv, PollersAreRight
  <1>3. \A y : AtWork(y) => AtWork(y)'
    BY DEF AtWork, FetchedIsOldButTrue, ReadyToClaim, ReadyToSettle, WorkStates
  <1>4. poller' \in [Pollers -> {poller'[r] : r \in Pollers}]
    BY DEF IInv, PollersAreRight
  <1>5. ASSUME NEW r \in Pollers, poller'[r] # Asleep
        PROVE  AtWork(poller[r])'
    <2>1. AtWork(poller'[r])
      BY <1>2, <1>5 DEF IInv, PollersAreRight
    <2> QED BY <1>3, <2>1
  <1>6. PollersAreRight'
    BY <1>4, <1>5 DEF PollersAreRight, Asleep
  <1> QED BY <1>1, <1>6 DEF IInv

LEMMA FetchedKeeps ==
  ASSUME IInv, NEW q \in Pollers, NEW fetched \in SUBSET Offers,
         NEW seen \in SUBSET Offers, NEW pass \in {"active", "historical"},
         Fetched(q, fetched, seen, pass), UNCHANGED <<offers, payments, grants, request>>
  PROVE  IInv'
  <1>0. PICK missing \in IF Garbled THEN SUBSET fetched ELSE {{}} :
           poller' = [poller EXCEPT ![q] =
               [pc |-> "next", pass |-> pass, seen |-> seen, offer |-> None, payment |-> 0,
                todo |-> [o \in fetched |-> IF o \in missing THEN "dead" ELSE offers[o]]]]
    BY DEF Fetched
  <1> DEFINE todo == [o \in fetched |-> IF o \in missing THEN "dead" ELSE offers[o]]
             x == [pc |-> "next", pass |-> pass, seen |-> seen, offer |-> None,
                   payment |-> 0, todo |-> todo]
  <1>1. poller' = [poller EXCEPT ![q] = x]
    BY <1>0
  <1>2. FetchedIsOldButTrue(todo)
    <2>1. missing # {} => Garbled
      BY <1>0
    <2> QED BY <2>1 DEF FetchedIsOldButTrue
  <1>3. x \in WorkStates(x.todo) /\ x.pc = "next"
    BY DEF WorkStates
  <1>4. AtWork(x)
    BY <1>2, <1>3 DEF AtWork
  <1> HIDE DEF x
  <1> QED BY <1>1, <1>4, PollerMovesOn

(* A poller that is at work, and what becomes of it at the ends of a step. *)
LEMMA AtKeeps ==
  ASSUME NEW x, AtWork(x), NEW pc \in {"oldest", "claim", "settle"},
         NEW o \in DOMAIN x.todo, NEW p \in Ids \cup {0},
         pc = "claim" => p \in Ids /\ payments[p].payer = Sender[o],
         pc = "settle" => p \in Ids /\ payments[p].ref = o
  PROVE  AtWork([x EXCEPT !.pc = pc, !.offer = o, !.payment = p])
  <1> DEFINE y == [x EXCEPT !.pc = pc, !.offer = o, !.payment = p]
  <1>1. x \in WorkStates(x.todo) /\ o \in Offers
    BY DEF AtWork, FetchedIsOldButTrue
  <1>2. /\ y.pc = pc /\ y.offer = o /\ y.payment = p /\ y.todo = x.todo
        /\ y \in WorkStates(x.todo)
    BY <1>1 DEF WorkStates
  <1> HIDE DEF y
  <1>3. AtWork(y)
    BY <1>2 DEF AtWork, FetchedIsOldButTrue, ReadyToClaim, ReadyToSettle
  <1> QED BY <1>3 DEF y

LEMMA ReturnKeeps ==
  ASSUME NEW x, AtWork(x), NEW o,
         NEW y, y = [x EXCEPT !.pc = "next", !.offer = None, !.payment = 0,
                              !.todo = [z \in DOMAIN x.todo \ {o} |-> x.todo[z]]]
  PROVE  AtWork(y)
  <1> DEFINE rest == [z \in DOMAIN x.todo \ {o} |-> x.todo[z]]
  <1>1. x \in WorkStates(x.todo)
    BY DEF AtWork
  <1>2. FetchedIsOldButTrue(rest)
    BY DEF AtWork, FetchedIsOldButTrue
  <1> HIDE DEF rest
  <1>3. y.pc = "next" /\ y.todo = rest /\ y \in WorkStates(rest)
    BY <1>1 DEF WorkStates, rest
  <1> QED BY <1>2, <1>3 DEF AtWork

LEMMA LookupKeeps ==
  ASSUME IInv, NEW q \in Pollers, NEW o \in Offers, Lookup(q, o)
  PROVE  IInv'
  <1> DEFINE x == poller[q]
             passed == [x EXCEPT !.pc = "next", !.offer = None, !.payment = 0,
                                 !.todo = [z \in DOMAIN x.todo \ {o} |-> x.todo[z]]]
  <1>1. AtWork(x) /\ o \in DOMAIN x.todo
    BY DEF Lookup, IInv, PollersAreRight, Asleep
  <1>2. UNCHANGED <<offers, payments, grants, request>>
    BY DEF Lookup
  <1>3. CASE At(q, "oldest", o, 0)
    <2>1. poller' = [poller EXCEPT ![q] =
                       [x EXCEPT !.pc = "oldest", !.offer = o, !.payment = 0]]
      BY <1>3 DEF At
    <2>2. AtWork([x EXCEPT !.pc = "oldest", !.offer = o, !.payment = 0])
      BY <1>1, AtKeeps
    <2> QED BY <1>2, <2>1, <2>2, PollerMovesOn
  <1>4. ASSUME NEW p \in For(o), At(q, "settle", o, p)
        PROVE  IInv'
    <2>1. poller' = [poller EXCEPT ![q] =
                       [x EXCEPT !.pc = "settle", !.offer = o, !.payment = p]]
      BY <1>4 DEF At
    <2>2. p \in Ids /\ payments[p].ref = o
      BY DEF For
    <2>3. AtWork([x EXCEPT !.pc = "settle", !.offer = o, !.payment = p])
      BY <1>1, <2>2, AtKeeps
    <2> QED BY <1>2, <2>1, <2>3, PollerMovesOn
  <1>5. CASE Return(q, o)
    <2>1. poller' = [poller EXCEPT ![q] = passed]
      BY <1>5 DEF Return
    <2>2. AtWork(passed)
      BY <1>1, ReturnKeeps
    <2> HIDE DEF passed
    <2> QED BY <1>2, <2>1, <2>2, PollerMovesOn
  <1> QED BY <1>3, <1>4, <1>5 DEF Lookup

(* The oldest of the sender's unclaimed payments is the sender's. *)
LEMMA OldestIsTheSenders ==
  ASSUME NEW payer, Unclaimed(payer) # {}
  PROVE  Min(Unclaimed(payer)) \in Ids /\ payments[Min(Unclaimed(payer))].payer = payer
  <1> DEFINE S == Unclaimed(payer)
  <1>1. S \subseteq Nat /\ S # {}
    BY DEF Unclaimed, Open, Ids
  <1>2. \E x \in S : \A y \in S : x =< y
    <2> HIDE DEF S
    <2>1. \E x \in S : \A y \in S : ~ (<<y, x>> \in OpToRel(<, Nat))
      BY <1>1, NatLessThanWellFounded, WFMin
    <2>2. \A x, y \in S : x < y => <<x, y>> \in OpToRel(<, Nat)
      BY <1>1 DEF OpToRel
    <2>3. \E x \in S : \A y \in S : ~ (y < x)
      BY <2>1, <2>2, Zenon
    <2> QED BY <1>1, <2>3
  <1>3. Min(S) \in S
    BY <1>2 DEF Min
  <1> QED BY <1>3 DEF Unclaimed, Open


LEMMA OldestKeeps ==
  ASSUME IInv, NEW q \in Pollers, Oldest(q)
  PROVE  IInv'
  <1> DEFINE x == poller[q]
             o == x.offer
             p == Min(Unclaimed(Sender[o]))
             passed == [x EXCEPT !.pc = "next", !.offer = None, !.payment = 0,
                                 !.todo = [z \in DOMAIN x.todo \ {o} |-> x.todo[z]]]
  <1>1. /\ x.pc = "oldest" /\ AtWork(x)
        /\ UNCHANGED <<offers, payments, grants, request>>
    BY DEF Oldest, IInv, PollersAreRight, Asleep
  <1>2. o \in DOMAIN x.todo
    BY <1>1 DEF AtWork
  <1>3. CASE Return(q, o)
    <2>1. poller' = [poller EXCEPT ![q] = passed]
      BY <1>3 DEF Return
    <2>2. AtWork(passed)
      BY <1>1, ReturnKeeps
    <2> HIDE DEF passed
    <2> QED BY <1>1, <2>1, <2>2, PollerMovesOn
  <1>4. CASE Unclaimed(Sender[o]) # {} /\ At(q, "claim", o, p)
    <2>1. poller' = [poller EXCEPT ![q] =
                       [x EXCEPT !.pc = "claim", !.offer = o, !.payment = p]]
      BY <1>4 DEF At
    <2>2. p \in Ids /\ payments[p].payer = Sender[o]
      BY <1>4, OldestIsTheSenders
    <2> HIDE DEF p
    <2>3. AtWork([x EXCEPT !.pc = "claim", !.offer = o, !.payment = p])
      BY <1>1, <1>2, <2>2, AtKeeps
    <2> QED BY <1>1, <2>1, <2>3, PollerMovesOn
  <1> QED BY <1>3, <1>4 DEF Oldest

(* The unique index: an offer is claimed by one payment, its sender's. *)
LEMMA ClaimKeeps ==
  ASSUME IInv, NEW q \in Pollers, ClaimOffer(q)
  PROVE  IInv'
  <1> DEFINE x == poller[q]
             o == x.offer
             p == x.payment
             passed == [x EXCEPT !.pc = "next", !.offer = None, !.payment = 0,
                                 !.todo = [z \in DOMAIN x.todo \ {o} |-> x.todo[z]]]
             taken == [x EXCEPT !.pc = "settle", !.offer = o, !.payment = p]
  <1>1. /\ x.pc = "claim" /\ AtWork(x) /\ UNCHANGED <<offers, grants, request>>
    BY DEF ClaimOffer, IInv, PollersAreRight, Asleep
  <1>2. /\ o \in DOMAIN x.todo /\ o \in Offers /\ o # None
        /\ p \in Ids /\ payments[p].payer = Sender[o]
    BY <1>1, PaymentsAssumption DEF AtWork, FetchedIsOldButTrue, ReadyToClaim
  <1>3. CASE Return(q, o) /\ UNCHANGED payments
    <2>1. poller' = [poller EXCEPT ![q] = passed]
      BY <1>3 DEF Return
    <2>2. AtWork(passed)
      BY <1>1, ReturnKeeps
    <2> HIDE DEF passed
    <2> QED BY <1>1, <1>3, <2>1, <2>2, PollerMovesOn
  <1>4. CASE /\ payments[p].ref = None /\ For(o) = {}
             /\ payments' = [payments EXCEPT ![p].ref = o]
             /\ At(q, "settle", o, p)
    <2>1. /\ payments'[p] = [payments[p] EXCEPT !.ref = o]
          /\ \A i \in Ids \ {p} : payments'[i] = payments[i]
      BY <1>2, <1>4 DEF IInv, Types
    <2>2. /\ payments'[p].state = payments[p].state /\ payments'[p].ref = o
          /\ payments'[p].payer = payments[p].payer
          /\ payments'[p] \in
                [state : OpenStates \cup {"none", "complete", "insufficient", "failed"},
                 payer : Payers \cup {None}, ref : Offers \cup {None}]
      BY <1>2, <2>1 DEF IInv, Types
    <2>3. Types'
      BY <1>1, <1>2, <1>4, <2>2 DEF IInv, Types
    <2>4. Numbered'
      <3>1. payments[p].payer # None
        BY <1>2, PaymentsAssumption
      <3>2. Recorded' = Recorded
        BY <2>1, <2>2, <3>1 DEF Recorded, NoPayment
      <3> QED BY <3>2 DEF IInv, Numbered
    <2>5. Claimed'
      BY <1>2, <1>4, <2>1, <2>2 DEF IInv, Claimed, For
    <2>6. Granted'
      <3>1. grants[p] # 1
        BY <1>2, <1>4, PaymentsAssumption DEF IInv, Granted
      <3> QED BY <1>1, <1>2, <2>1, <2>2, <3>1 DEF IInv, Granted
    <2>7. poller' = [poller EXCEPT ![q] = taken]
      BY <1>4 DEF At
    <2>8. ASSUME NEW r \in Pollers, r # q, poller[r] # Asleep
          PROVE  AtWork(poller[r])'
      <3>1. AtWork(poller[r])
        BY <2>8 DEF IInv, PollersAreRight
      <3>2. poller'[r] = poller[r]
        BY <2>7, <2>8 DEF IInv, PollersAreRight
      <3>3. /\ ReadyToClaim(poller[r]) => ReadyToClaim(poller[r])'
            /\ ReadyToSettle(poller[r]) /\ poller[r].offer # None =>
                  ReadyToSettle(poller[r])'
        BY <1>4, <2>1, <2>2, <3>2 DEF ReadyToClaim, ReadyToSettle
      <3>4. poller[r].pc # "next" => poller[r].offer # None
        BY <3>1, PaymentsAssumption DEF AtWork, FetchedIsOldButTrue
      <3> QED BY <1>1, <3>1, <3>2, <3>3, <3>4 DEF AtWork, FetchedIsOldButTrue, WorkStates
    <2>9. AtWork(poller[q])'
      <3>1. /\ poller'[q].pc = "settle" /\ poller'[q].offer = o
            /\ poller'[q].payment = p /\ poller'[q].todo = x.todo
            /\ poller'[q] \in WorkStates(x.todo)
        <4>1. x \in WorkStates(x.todo) /\ poller'[q] = taken
          BY <1>1, <2>7 DEF AtWork, IInv, PollersAreRight
        <4> QED BY <1>2, <4>1 DEF WorkStates
      <3>2. FetchedIsOldButTrue(x.todo)
        BY <1>1 DEF AtWork
      <3> QED
        BY <1>1, <1>2, <2>2, <3>1, <3>2
        DEF AtWork, FetchedIsOldButTrue, ReadyToSettle, WorkStates
    <2>10. PollersAreRight'
      <3>1. poller' \in [Pollers -> {poller'[r] : r \in Pollers}]
        BY <2>7 DEF IInv, PollersAreRight
      <3>2. \A r \in Pollers : poller'[r] = Asleep \/ AtWork(poller[r])'
        BY <2>7, <2>8, <2>9 DEF IInv, PollersAreRight
      <3> QED BY <3>1, <3>2 DEF PollersAreRight
    <2> QED BY <2>3, <2>4, <2>5, <2>6, <2>10 DEF IInv
  <1> QED BY <1>3, <1>4 DEF ClaimOffer


(* A poller goes on to y, payers and claims being as they were. *)
LEMMA PollersKeep ==
  ASSUME IInv, NEW q \in Pollers, NEW y,
         poller' = [poller EXCEPT ![q] = y], y = Asleep \/ AtWork(y),
         UNCHANGED offers,
         \A i \in Ids : /\ payments'[i].payer = payments[i].payer
                        /\ payments'[i].ref = payments[i].ref
  PROVE  PollersAreRight'
  <1>1. \A r \in Pollers : poller'[r] = y \/ poller'[r] = poller[r]
    BY DEF IInv, PollersAreRight
  <1>2. \A z : AtWork(z) => AtWork(z)'
    BY DEF AtWork, FetchedIsOldButTrue, ReadyToClaim, ReadyToSettle, WorkStates
  <1>3. poller' \in [Pollers -> {poller'[r] : r \in Pollers}]
    BY DEF IInv, PollersAreRight
  <1>4. ASSUME NEW r \in Pollers, poller'[r] # Asleep
        PROVE  AtWork(poller[r])'
    <2>1. AtWork(poller'[r])
      BY <1>1, <1>4 DEF IInv, PollersAreRight
    <2> QED BY <1>2, <2>1
  <1> QED BY <1>3, <1>4 DEF PollersAreRight, Asleep

(* What settles a payment saw its offer, and what it saw still holds where *)
(* it matters: an offer seen accepted is.                                  *)
LEMMA SettleKeeps ==
  ASSUME IInv, NEW q \in Pollers, Settle(q)
  PROVE  IInv'
  <1> DEFINE x == poller[q]
             o == x.offer
             p == x.payment
             passed == [x EXCEPT !.pc = "next", !.offer = None, !.payment = 0,
                                 !.todo = [z \in DOMAIN x.todo \ {o} |-> x.todo[z]]]
  <1>1. /\ x.pc = "settle" /\ AtWork(x) /\ UNCHANGED <<offers, request>>
    BY DEF Settle, IInv, PollersAreRight, Asleep
  <1>2. /\ o \in DOMAIN x.todo /\ o \in Offers /\ o # None
        /\ p \in Ids /\ payments[p].ref = o /\ payments[p] # NoPayment
    BY <1>1, PaymentsAssumption
    DEF AtWork, FetchedIsOldButTrue, ReadyToSettle, NoPayment
  <1>3. x.todo[o] = "accepted" => offers[o] = "accepted"
    BY <1>1, <1>2 DEF AtWork, FetchedIsOldButTrue
  <1>4. ASSUME Return(q, o)
        PROVE  poller' = [poller EXCEPT ![q] = passed] /\ AtWork(passed)
    <2>1. poller' = [poller EXCEPT ![q] = passed]
      BY <1>4 DEF Return
    <2>2. AtWork(passed)
      BY <1>1, ReturnKeeps
    <2> QED BY <2>1, <2>2
  <1> HIDE DEF passed
  <1>5. CASE Return(q, o) /\ UNCHANGED <<payments, grants>>
    BY <1>1, <1>4, <1>5, PollerMovesOn
  <1>6. CASE UNCHANGED <<payments, grants>> /\ poller' = [poller EXCEPT ![q] = Asleep]
    BY <1>1, <1>6, PollerMovesOn
  <1>7. ASSUME NEW state \in {"held", "failed", "insufficient", "complete"},
               SetState(p, state), Return(q, o),
               IF state = "complete"
               THEN /\ x.todo[o] = "accepted" /\ o \in Enough /\ grants[p] = 0
                    /\ grants' = [grants EXCEPT ![p] = @ + 1]
               ELSE UNCHANGED grants
        PROVE  IInv'
    <2>1. payments' = [payments EXCEPT ![p].state = state]
      BY <1>7 DEF SetState
    <2>2. /\ payments' \in [Ids ->
                [state : OpenStates \cup {"none", "complete", "insufficient", "failed"},
                 payer : Payers \cup {None}, ref : Offers \cup {None}]]
          /\ Numbered' /\ Claimed'
          /\ \A i \in Ids :
                /\ payments'[i].payer = payments[i].payer
                /\ payments'[i].ref = payments[i].ref
                /\ payments'[i].state = IF i = p THEN state ELSE payments[i].state
      <3> HIDE DEF x, o, p
      <3>1. p \in Ids /\ payments[p] # NoPayment /\ UNCHANGED <<offers, request>>
        BY <1>1, <1>2
      <3> QED BY <2>1, <3>1, StateKeeps, ZenonT(60)
    <2>3. PollersAreRight'
      BY <1>1, <1>4, <1>7, <2>2, PollersKeep
    <2>4. CASE state = "complete"
      <3>1. /\ grants' \in [Ids -> {0, 1}]
            /\ \A i \in Ids : grants'[i] = IF i = p THEN 1 ELSE grants[i]
        BY <1>2, <1>7, <2>4 DEF IInv, Types
      <3>2. Types'
        BY <1>1, <2>2, <3>1 DEF IInv, Types
      <3>3. Granted'
        BY <1>1, <1>2, <1>3, <1>7, <2>2, <2>4, <3>1 DEF IInv, Granted
      <3> QED BY <2>2, <2>3, <3>2, <3>3 DEF IInv
    <2>5. CASE state # "complete"
      <3>1. Types'
        BY <1>1, <1>7, <2>2, <2>5 DEF IInv, Types
      <3>2. Granted'
        BY <1>1, <1>7, <2>2, <2>5 DEF IInv, Granted
      <3> QED BY <2>2, <2>3, <3>1, <3>2 DEF IInv
    <2> QED BY <2>4, <2>5
  <1>8. CASE x.todo[o] = "escrow" /\ SetState(p, "held") /\ Return(q, o) /\ UNCHANGED grants
    BY <1>7, <1>8
  <1>9. CASE x.todo[o] = "dead" /\ SetState(p, "failed") /\ Return(q, o) /\ UNCHANGED grants
    BY <1>7, <1>9
  <1>10. CASE /\ x.todo[o] = "accepted" /\ SetState(p, "insufficient")
              /\ Return(q, o) /\ UNCHANGED grants
    BY <1>7, <1>10
  <1>11. CASE x.todo[o] = "accepted" /\ o \in Enough /\ Complete(q, o, p)
    BY <1>5, <1>6, <1>7, <1>11 DEF Complete
  <1> QED BY <1>5, <1>8, <1>9, <1>10, <1>11 DEF Settle

-----------------------------------------------------------------------------
(* The theorems                                                            *)

LEMMA PollKeeps ==
  ASSUME IInv, NEW q \in Pollers, Poll(q) \/ PollFails(q)
  PROVE  IInv'
  <1>1. CASE StartPoll(q)
    BY <1>1, FetchedKeeps DEF StartPoll, Active
  <1>2. CASE SecondPass(q)
    BY <1>2, FetchedKeeps DEF SecondPass, Historical
  <1>3. CASE EndPoll(q) \/ PollFails(q)
    BY <1>3, PollerMovesOn DEF EndPoll, PollFails
  <1>4. CASE \E o \in Offers : Lookup(q, o)
    BY <1>4, LookupKeeps
  <1>5. CASE Oldest(q)
    BY <1>5, OldestKeeps
  <1>6. CASE ClaimOffer(q)
    BY <1>6, ClaimKeeps
  <1>7. CASE Settle(q)
    BY <1>7, SettleKeeps
  <1> QED BY <1>1, <1>2, <1>3, <1>4, <1>5, <1>6, <1>7 DEF Poll

LEMMA StepKeeps == IInv /\ [Next]_vars => IInv'
  <1> SUFFICES ASSUME IInv, [Next]_vars PROVE IInv'
    OBVIOUS
  <1>1. CASE \E o \in Offers : Steam(o)
    BY <1>1, SteamKeeps
  <1>2. CASE \E r \in Requests : StartPayment(r)
    BY <1>2, StartKeeps
  <1>3. ASSUME NEW r \in Requests, NEW payer \in Payers, CheckCanPay(r, payer)
        PROVE  IInv'
    <2>1. /\ request' = [request EXCEPT ![r] = payer]
          /\ UNCHANGED <<offers, payments, grants, poller>>
      BY <1>3 DEF CheckCanPay
    <2>2. Types' /\ Numbered' /\ Claimed' /\ Granted'
      BY <2>1 DEF IInv, Types, Numbered, Recorded, Claimed, Granted
    <2>3. PollersAreRight'
      BY <2>1, StateKeepsPollers
    <2> QED BY <2>2, <2>3 DEF IInv
  <1>4. CASE \E p \in Ids : Abandon(p)
    BY <1>4, AbandonKeeps
  <1>5. CASE \E q \in Pollers : Poll(q) \/ PollFails(q)
    BY <1>5, PollKeeps
  <1>6. CASE UNCHANGED vars
    <2>1. UNCHANGED <<offers, payments, grants, request, poller>>
      BY <1>6 DEF vars
    <2>2. Types' /\ Numbered' /\ Claimed' /\ Granted'
      BY <2>1 DEF IInv, Types, Numbered, Recorded, Claimed, Granted
    <2>3. PollersAreRight'
      BY <2>1, StateKeepsPollers
    <2> QED BY <2>2, <2>3 DEF IInv
  <1> QED BY <1>1, <1>2, <1>3, <1>4, <1>5, <1>6 DEF Next

(* The strengthening holds throughout (the code of app/payments.py, and    *)
(* the database's constraints on payments and credit_ledger).              *)
THEOREM Invariance == Spec => []IInv
  <1> QED BY InitIInv, StepKeeps, PTL DEF Spec

(* A payment is complete only with its credits: _complete's state change   *)
(* and grant are one transaction, and nothing else completes a payment.    *)
THEOREM CompletedIsCredited == Spec => []CompleteWasCredited
  <1>1. IInv => CompleteWasCredited
    BY DEF IInv, Granted, CompleteWasCredited
  <1> QED BY <1>1, Invariance, PTL

(* Credits come once of one accepted trade with enough in it, sent by the  *)
(* payer (reconcile_offer, and the indexes it relies on).                  *)
THEOREM CreditsHaveABacking == Spec => []CreditsAreBacked
  <1>1. ASSUME IInv, NEW p \in Ids, grants[p] > 0
        PROVE  /\ grants[p] = 1
               /\ payments[p].ref \in Enough
               /\ offers[payments[p].ref] = "accepted"
               /\ Sender[payments[p].ref] = payments[p].payer
               /\ For(payments[p].ref) = {p}
    <2>1. grants[p] = 1
      BY <1>1 DEF IInv, Types
    <2>2. payments[p].ref \in Enough /\ offers[payments[p].ref] = "accepted"
      BY <1>1, <2>1 DEF IInv, Granted
    <2>3. payments[p].ref # None
      BY <2>2, PaymentsAssumption
    <2> QED BY <1>1, <2>1, <2>2, <2>3 DEF IInv, Claimed, For
  <1>2. IInv => CreditsAreBacked
    BY <1>1 DEF CreditsAreBacked
  <1> QED BY <1>2, Invariance, PTL

(* A payment that has claimed an offer fails only when the offer is dead   *)
(* at Steam, however old what the poller knows of it (reconcile_offer,     *)
(* abandon), if Steam's answers never lack an offer's state.               *)
THEOREM NoFailureWithoutReason == ~Garbled => (Spec => FailsForAReason)
  <1> SUFFICES ASSUME ~Garbled PROVE Spec => FailsForAReason
    OBVIOUS
  <1> DEFINE Reason(p) == payments[p].ref = None \/ offers[payments[p].ref] = "dead"
             Fails(p) == payments'[p].state = "failed" /\ payments[p].state # "failed"
  <1>1. ASSUME IInv, Next, NEW p \in Ids, Fails(p)
        PROVE  Reason(p)
    <2>1. ASSUME NEW i \in Ids, Abandon(i) PROVE Reason(p)
      BY <1>1, <2>1 DEF Abandon, IInv, Types
    <2>2. ASSUME NEW r \in Requests, StartPayment(r) PROVE Reason(p)
      <3> DEFINE i == Cardinality(Recorded) + 1
                 row == [state |-> "started", payer |-> request[r], ref |-> None]
      <3>1. i \in Ids
        BY <1>1, <2>2, NextRowIsFree DEF StartPayment
      <3>2. payments' = [payments EXCEPT ![i] = row] /\ row.state = "started"
        BY <2>2 DEF StartPayment
      <3> HIDE DEF i, row
      <3> QED BY <1>1, <3>1, <3>2 DEF IInv, Types
    <2>3. ASSUME NEW q \in Pollers, ClaimOffer(q) PROVE Reason(p)
      <3> DEFINE i == poller[q].payment
                 o == poller[q].offer
      <3>1. i \in Ids
        BY <1>1, <2>3 DEF ClaimOffer, IInv, PollersAreRight, AtWork, ReadyToClaim, Asleep
      <3>2. payments' = payments \/ payments' = [payments EXCEPT ![i].ref = o]
        BY <2>3 DEF ClaimOffer
      <3> HIDE DEF i, o
      <3>3. payments'[p].state = payments[p].state
        BY <1>1, <3>1, <3>2 DEF IInv, Types
      <3> QED BY <1>1, <3>3
    <2>4. ASSUME NEW q \in Pollers, Settle(q) PROVE Reason(p)
      <3> DEFINE x == poller[q]
                 i == x.payment
      <3>1. /\ x.pc = "settle" /\ AtWork(x)
        BY <1>1, <2>4 DEF Settle, IInv, PollersAreRight, Asleep
      <3>2. /\ x.offer \in DOMAIN x.todo /\ i \in Ids /\ payments[i].ref = x.offer
            /\ x.todo[x.offer] = "dead" => offers[x.offer] = "dead"
        BY <3>1 DEF AtWork, FetchedIsOldButTrue, ReadyToSettle
      <3>3. \/ UNCHANGED payments
            \/ \E state \in {"held", "insufficient", "complete"} :
                  payments' = [payments EXCEPT ![i].state = state]
            \/ /\ x.todo[x.offer] = "dead"
               /\ payments' = [payments EXCEPT ![i].state = "failed"]
        BY <2>4 DEF Settle, Complete, SetState
      <3> HIDE DEF x, i
      <3> QED BY <1>1, <3>2, <3>3 DEF IInv, Types
    <2>5. \/ UNCHANGED payments
          \/ \E i \in Ids : Abandon(i)
          \/ \E r \in Requests : StartPayment(r)
          \/ \E q \in Pollers : ClaimOffer(q) \/ Settle(q)
      BY <1>1 DEF Next, Steam, CheckCanPay, Poll, PollFails, StartPoll, SecondPass,
                  EndPoll, Lookup, Oldest
    <2> QED BY <1>1, <2>1, <2>2, <2>3, <2>4, <2>5
  <1>2. IInv /\ [Next]_vars =>
           [\A p \in Ids : payments'[p].state = "failed" /\ payments[p].state # "failed" =>
              \/ payments[p].ref = None
              \/ offers[payments[p].ref] = "dead"]_vars
    BY <1>1
  <1> QED BY <1>2, Invariance, PTL DEF Spec, FailsForAReason

-----------------------------------------------------------------------------
(* One poller at a time                                                    *)

(* The payment that a poller is about to settle is not complete.           *)
Undecided ==
    \A q \in Pollers : poller[q].pc = "settle" =>
        payments[poller[q].payment].state # "complete"

(* A complete payment is made one, or ceases to be one, by Settle alone.   *)
LEMMA OnlySettlingCompletes ==
  ASSUME IInv, [Next]_vars, NEW p \in Ids,
         payments'[p].state # payments[p].state
  PROVE  \/ /\ payments[p].state # "complete"
            /\ payments'[p].state # "complete"
         \/ \E q \in Pollers : Settle(q) /\ p = poller[q].payment
  <1>1. ASSUME NEW i \in Ids, Abandon(i)
        PROVE  payments[p].state # "complete" /\ payments'[p].state # "complete"
    BY <1>1 DEF Abandon, OpenStates, IInv, Types
  <1>2. ASSUME NEW r \in Requests, StartPayment(r)
        PROVE  payments[p].state # "complete" /\ payments'[p].state # "complete"
    <2> DEFINE i == Cardinality(Recorded) + 1
               row == [state |-> "started", payer |-> request[r], ref |-> None]
    <2>1. i \in Ids /\ payments[i] = NoPayment
      BY <1>2, NextRowIsFree DEF StartPayment
    <2>2. payments' = [payments EXCEPT ![i] = row] /\ row.state = "started"
      BY <1>2 DEF StartPayment
    <2>3. NoPayment.state = "none"
      BY DEF NoPayment
    <2> HIDE DEF i, row
    <2> QED BY <2>1, <2>2, <2>3 DEF IInv, Types
  <1>3. ASSUME NEW q \in Pollers, ClaimOffer(q) PROVE FALSE
    <2> DEFINE i == poller[q].payment
               o == poller[q].offer
    <2>1. i \in Ids
      BY <1>3 DEF ClaimOffer, IInv, PollersAreRight, AtWork, ReadyToClaim, Asleep
    <2>2. payments' = payments \/ payments' = [payments EXCEPT ![i].ref = o]
      BY <1>3 DEF ClaimOffer
    <2> HIDE DEF i, o
    <2> QED BY <2>1, <2>2 DEF IInv, Types
  <1>4. ASSUME NEW q \in Pollers, Settle(q) PROVE p = poller[q].payment
    <2> DEFINE i == poller[q].payment
    <2>1. i \in Ids
      BY <1>4 DEF Settle, IInv, PollersAreRight, AtWork, ReadyToSettle, Asleep
    <2>2. \/ UNCHANGED payments
          \/ \E state \in {"held", "failed", "insufficient", "complete"} :
                payments' = [payments EXCEPT ![i].state = state]
      BY <1>4 DEF Settle, Complete, SetState
    <2> HIDE DEF i
    <2>3. p = i
      BY <2>1, <2>2 DEF IInv, Types
    <2> QED BY <2>3 DEF i
  <1>5. \/ UNCHANGED payments
        \/ \E i \in Ids : Abandon(i)
        \/ \E r \in Requests : StartPayment(r)
        \/ \E q \in Pollers : ClaimOffer(q) \/ Settle(q)
    BY DEF Next, Steam, CheckCanPay, Poll, PollFails, StartPoll, SecondPass,
           EndPoll, Lookup, Oldest, vars
  <1> QED BY <1>1, <1>2, <1>3, <1>4, <1>5

(* A payment is looked up before it is settled, and found not complete; or *)
(* it is claimed, and was without an offer.  With one poller nobody        *)
(* completes it in between.                                                *)
LEMMA StepKeepsUndecided ==
  ASSUME IInv, Undecided, [Next]_vars, \A q, r \in Pollers : q = r
  PROVE  Undecided'
  <1> SUFFICES ASSUME NEW q \in Pollers, poller'[q].pc = "settle"
               PROVE  payments'[poller'[q].payment].state # "complete"
    BY DEF Undecided
  <1>1. poller \in [Pollers -> {poller[r] : r \in Pollers}]
    BY DEF IInv, PollersAreRight
  <1>2. CASE poller'[q] = poller[q] /\ ~Settle(q)
    <2> DEFINE p == poller[q].payment
    <2>1. p \in Ids /\ payments[p].state # "complete"
      BY <1>2 DEF Undecided, IInv, PollersAreRight, AtWork, ReadyToSettle, Asleep
    <2>2. \A r \in Pollers : ~Settle(r)
      BY <1>2
    <2> HIDE DEF p
    <2>3. payments'[p].state # "complete"
      BY <2>1, <2>2, OnlySettlingCompletes
    <2> QED BY <1>2, <2>3 DEF p
  <1>3. ASSUME NEW o \in Offers, Lookup(q, o)
        PROVE  payments'[poller'[q].payment].state # "complete"
    <2>1. CASE Return(q, o) \/ At(q, "oldest", o, 0)
      <3>1. poller'[q].pc # "settle"
        BY <1>1, <1>3, <2>1 DEF Return, At, IInv, PollersAreRight, AtWork, WorkStates,
                                Lookup, Asleep
      <3> QED BY <3>1
    <2>2. ASSUME NEW p \in For(o), payments[p].state # "complete", At(q, "settle", o, p)
          PROVE  payments'[poller'[q].payment].state # "complete"
      <3>1. poller[q] \in WorkStates(poller[q].todo)
        BY <1>3 DEF Lookup, IInv, PollersAreRight, AtWork, Asleep
      <3>2. poller'[q].payment = p
        BY <1>1, <2>2, <3>1 DEF At, WorkStates
      <3>3. UNCHANGED payments
        BY <1>3 DEF Lookup
      <3> QED BY <2>2, <3>2, <3>3
    <2> QED BY <1>3, <2>1, <2>2 DEF Lookup
  <1>4. CASE ClaimOffer(q)
    <2> DEFINE p == poller[q].payment
               o == poller[q].offer
    <2>1. p \in Ids /\ poller[q] \in WorkStates(poller[q].todo)
      BY <1>4 DEF ClaimOffer, IInv, PollersAreRight, AtWork, ReadyToClaim, Asleep
    <2>2. payments[p].ref = None /\ At(q, "settle", o, p)
      <3>1. CASE Return(q, o)
        BY <1>1, <2>1, <3>1 DEF Return, WorkStates
      <3> QED BY <1>4, <3>1 DEF ClaimOffer
    <2>3. poller'[q].payment = p
      BY <1>1, <2>1, <2>2 DEF At, WorkStates
    <2>4. payments[p].state # "complete"
      BY <2>1, <2>2, PaymentsAssumption DEF IInv, Granted
    <2>5. ~Settle(q)
      BY <1>4 DEF ClaimOffer, Settle
    <2>6. \A r \in Pollers : ~Settle(r)
      BY <2>5
    <2> HIDE DEF p
    <2>7. payments'[p].state # "complete"
      BY <2>1, <2>4, <2>6, OnlySettlingCompletes
    <2> QED BY <2>3, <2>7
  <1>5. CASE Settle(q)
    <2>1. poller'[q].pc # "settle"
      <3>1. poller[q] \in WorkStates(poller[q].todo)
        BY <1>5 DEF Settle, IInv, PollersAreRight, AtWork, Asleep
      <3>2. Return(q, poller[q].offer) \/ poller' = [poller EXCEPT ![q] = Asleep]
        BY <1>5 DEF Settle, Complete
      <3> QED BY <1>1, <3>1, <3>2 DEF Return, WorkStates, Asleep
    <2> QED BY <2>1
  <1>6. CASE StartPoll(q) \/ SecondPass(q) \/ EndPoll(q) \/ PollFails(q) \/ Oldest(q)
    <2>1. CASE Oldest(q)
      <3>1. poller[q] \in WorkStates(poller[q].todo)
        BY <2>1 DEF Oldest, IInv, PollersAreRight, AtWork, Asleep
      <3>2. \/ Return(q, poller[q].offer)
            \/ \E p : At(q, "claim", poller[q].offer, p)
        BY <2>1 DEF Oldest
      <3>3. poller'[q].pc # "settle"
        BY <1>1, <3>1, <3>2 DEF Return, At, WorkStates
      <3> QED BY <3>3
    <2>2. CASE StartPoll(q) \/ SecondPass(q) \/ EndPoll(q) \/ PollFails(q)
      <3>1. poller'[q].pc # "settle"
        <4>1. ASSUME NEW fetched, NEW seen, NEW pass, Fetched(q, fetched, seen, pass)
              PROVE  poller'[q].pc = "next"
          <5>1. PICK todo : poller' = [poller EXCEPT ![q] =
                   [pc |-> "next", pass |-> pass, seen |-> seen, offer |-> None,
                    payment |-> 0, todo |-> todo]]
            BY <4>1 DEF Fetched
          <5> QED BY <1>1, <5>1
        <4> QED BY <1>1, <2>2, <4>1 DEF StartPoll, SecondPass, EndPoll, PollFails, Asleep
      <3> QED BY <3>1
    <2> QED BY <1>6, <2>1, <2>2
  <1>7. \/ UNCHANGED poller
        \/ \E r \in Pollers : Poll(r) \/ PollFails(r)
    BY DEF Next, Steam, StartPayment, CheckCanPay, Abandon, vars
  <1>8. UNCHANGED poller \/ Poll(q) \/ PollFails(q)
    BY <1>7
  <1> QED BY <1>2, <1>3, <1>4, <1>5, <1>6, <1>8 DEF Poll

(* A complete payment stays complete when polls do not overlap, which is   *)
(* what its CronJob sees to: reconcile_offer passes over what is complete, *)
(* and nobody completes it between that check and _set_state, which is     *)
(* unconditional.                                                          *)
THEOREM CompleteForGood ==
    (\A q, r \in Pollers : q = r) => (Spec => CompleteIsFinal)
  <1> SUFFICES ASSUME \A q, r \in Pollers : q = r
               PROVE  Spec => CompleteIsFinal
    OBVIOUS
  <1>1. Init => Undecided
    BY DEF Init, Undecided, Asleep
  <1>2. IInv /\ Undecided /\ [Next]_vars => Undecided'
    BY StepKeepsUndecided
  <1>3. ASSUME IInv, Undecided, Next, NEW p \in Ids, payments[p].state = "complete"
        PROVE  payments'[p].state = "complete"
    <2>1. ASSUME NEW q \in Pollers, Settle(q) PROVE p # poller[q].payment
      BY <1>3, <2>1 DEF Undecided, Settle
    <2> QED BY <1>3, <2>1, OnlySettlingCompletes
  <1>4. IInv /\ Undecided /\ [Next]_vars =>
           [\A p \in Ids : payments[p].state = "complete" =>
              payments'[p].state = "complete"]_vars
    BY <1>3
  <1> QED BY <1>1, <1>2, <1>4, Invariance, PTL DEF Spec, CompleteIsFinal

=============================================================================
