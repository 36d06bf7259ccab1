---------------------------- MODULE Entitlements ----------------------------
(***************************************************************************)
(* What the credit ledger promises to the rest of the application, with    *)
(* every operation a single indivisible step.  The promise is made by      *)
(* app/credits.py, servers_store.attach_to_scrim and payments._complete;   *)
(* module Credits models those functions statement by statement, on a      *)
(* store that interleaves transactions, and is shown to implement this.    *)
(***************************************************************************)
EXTENDS Integers

CONSTANTS
    Accounts,       \* signed-in Steam accounts (rows of users)
    Scrims,         \* scrims a server can be attached to
    Payments,       \* rows of payments
    Payer,          \* Payer[p]: the account that started payment p
    Worth,          \* Worth[p]: the credits payment p grants
    Opening,        \* Opening[a]: what account a can spend at the start
    NoOne           \* the owner of a server that does not exist

VARIABLES
    balance,        \* available credits of each account
    servers,        \* servers[s]: who paid for the server of scrim s
    paid            \* payments that have been credited

vars == <<balance, servers, paid>>

Init ==
    /\ balance = Opening
    /\ servers = [s \in Scrims |-> NoOne]
    /\ paid = {}

(* A completed payment is credited, in full, the first time it is seen. *)
Pay(p) ==
    /\ p \notin paid
    /\ paid' = paid \cup {p}
    /\ balance' = [balance EXCEPT ![Payer[p]] = @ + Worth[p]]
    /\ UNCHANGED servers

(* A server appears for a scrim that has none, and its credit leaves the   *)
(* balance in the same step.                                               *)
Reserve(a, s) ==
    /\ servers[s] = NoOne
    /\ balance[a] >= 1
    /\ servers' = [servers EXCEPT ![s] = a]
    /\ balance' = [balance EXCEPT ![a] = @ - 1]
    /\ UNCHANGED paid

(* More time on a server that exists, bought by whoever controls it.       *)
Extend(a) ==
    /\ \E s \in Scrims : servers[s] # NoOne
    /\ balance[a] >= 1
    /\ balance' = [balance EXCEPT ![a] = @ - 1]
    /\ UNCHANGED <<servers, paid>>

(* A credit comes back, to an account that owns a server.                  *)
Release(a) ==
    /\ \E s \in Scrims : servers[s] = a
    /\ balance' = [balance EXCEPT ![a] = @ + 1]
    /\ UNCHANGED <<servers, paid>>

Next ==
    \/ \E p \in Payments : Pay(p)
    \/ \E a \in Accounts, s \in Scrims : Reserve(a, s)
    \/ \E a \in Accounts : Extend(a) \/ Release(a)

Spec == Init /\ [][Next]_vars

=============================================================================
