------------------------------ MODULE Credits ------------------------------
(***************************************************************************)
(* The credit ledger (app/credits.py) and the transactions that write it,  *)
(* statement by statement, on PostgreSQL at READ COMMITTED:                *)
(*                                                                         *)
(*   attach    servers_store.attach_to_scrim: INSERT the server, then      *)
(*             credits.reserve, in one transaction()                       *)
(*   extend    credits.spend_extension, a transaction() of its own         *)
(*   release   credits.release: one INSERT and a commit                    *)
(*   complete  payments._complete: compare-and-set of the payment row,     *)
(*             then credits.grant, then a commit                           *)
(*                                                                         *)
(* A request runs one of these on its own pooled connection.  Row locks    *)
(* are held to the end of the transaction, so which locks a request holds  *)
(* follows from how far it has got, and needs no variable.  The ledger is  *)
(* kept, like the code's, without a stored total: per account, the rows    *)
(* committed of each kind (for grants, the credits they carry).            *)
(***************************************************************************)
EXTENDS Integers

CONSTANTS
    Requests,       \* HTTP requests and poller runs, each on its connection
    Accounts,       \* signed-in Steam accounts (rows of users)
    Scrims,         \* scrims a server can be attached to
    Payments,       \* rows of payments
    Payer,          \* Payer[p]: the account that started payment p
    Worth,          \* Worth[p]: credits_for_keys of what payment p received
    Opening,        \* Opening[a]: credits granted to a earlier
    NoOne           \* the owner of a server that does not exist

ASSUME CreditsAssumption ==
    /\ Payer \in [Payments -> Accounts]
    /\ Worth \in [Payments -> Nat \ {0}]
    /\ Opening \in [Accounts -> Nat]
    /\ NoOne \notin Accounts

(* What a request has been asked to do. *)
Jobs ==
    [op : {"attach", "extend", "release"}, acct : Accounts, item : Scrims]
        \cup { [op |-> "complete", acct |-> Payer[p], item |-> p] :
                 p \in Payments }

VARIABLES
    job,            \* the request's inputs, fixed when it arrives
    pc,             \* the statement the request executes next, or its outcome
    told,           \* the balance a refused request is told
    ledger,         \* committed rows of credit_ledger
    servers,        \* committed servers: the owner of each scrim's, or NoOne
    paid            \* payments whose committed state is COMPLETE

vars == <<job, pc, told, ledger, servers, paid>>

Spending == {"attach", "extend"}

(* How a request ended: committed, refused for want of credits, rolled     *)
(* back by a unique index or by the compare-and-set, turned away because   *)
(* there is no such server, chosen as the victim of a deadlock, or lost    *)
(* with its process or connection.                                         *)
Ended ==
    {"committed", "refused", "conflict", "already", "no_server", "deadlock", "lost"}

Running ==
    {"insert_server", "server_fk", "find_server", "lock_user", "spend",
     "refuse", "cas", "entry", "commit"}

FirstStatement ==
    [attach |-> "insert_server", extend |-> "find_server",
     release |-> "find_server", complete |-> "cas"]

(* available_credits: SUM(delta) over the account's committed rows. *)
Available(a) ==
    ledger[a].grant + ledger[a].release - ledger[a].reserve - ledger[a].extend

-----------------------------------------------------------------------------
(* Locks, as PostgreSQL holds them until commit or rollback.               *)

(* SELECT ... FOR UPDATE on the account's users row, taken by _spend. *)
HoldsUpdate(r, a) ==
    /\ job[r].acct = a
    /\ job[r].op \in Spending
    /\ pc[r] \in {"spend", "refuse", "commit"}

(* FOR KEY SHARE on the users row: the foreign key check of an INSERT into *)
(* servers or credit_ledger.                                               *)
HoldsKeyShare(r, a) ==
    /\ job[r].acct = a
    /\ \/ /\ job[r].op = "attach"
          /\ pc[r] \in {"lock_user", "spend", "refuse", "commit"}
       \/ /\ job[r].op \in {"release", "complete"}
          /\ pc[r] = "commit"

(* An uncommitted entry of idx_servers_scrim. *)
HoldsScrim(r, s) ==
    /\ job[r].op = "attach"
    /\ job[r].item = s
    /\ pc[r] \in {"server_fk", "lock_user", "spend", "refuse", "commit"}

(* The row lock of the UPDATE in _complete. *)
HoldsPayment(r, p) ==
    /\ job[r].op = "complete"
    /\ job[r].item = p
    /\ pc[r] \in {"entry", "commit"}

(* r's next statement blocks until q's transaction ends. *)
WaitsFor(r, q) ==
    /\ q # r
    /\ \/ pc[r] = "insert_server" /\ HoldsScrim(q, job[r].item)
       \/ pc[r] = "lock_user" /\ HoldsKeyShare(q, job[r].acct)
       \/ /\ pc[r] \in {"lock_user", "server_fk", "entry"}
          /\ HoldsUpdate(q, job[r].acct)
       \/ pc[r] = "cas" /\ HoldsPayment(q, job[r].item)

Blocked(r) == \E q \in Requests : WaitsFor(r, q)

(* Only an attach holds a lock another attach waits for while waiting      *)
(* itself, so every cycle of waits contains two requests that wait for     *)
(* each other.                                                             *)
Deadlocked(r) == \E q \in Requests : WaitsFor(r, q) /\ WaitsFor(q, r)

-----------------------------------------------------------------------------
Init ==
    /\ job \in [Requests -> Jobs]
    /\ pc = [r \in Requests |-> FirstStatement[job[r].op]]
    /\ told = [r \in Requests |-> 0]
    /\ ledger = [a \in Accounts |->
                   [grant |-> Opening[a], reserve |-> 0, release |-> 0, extend |-> 0]]
    /\ servers = [s \in Scrims |-> NoOne]
    /\ paid = {}

Goto(r, label) == pc' = [pc EXCEPT ![r] = label]

Committed == <<ledger, servers, paid>>

(* Mutant: without idx_servers_scrim nothing is waited for or refused. *)
InsertServerUnindexed(r) ==
    /\ pc[r] = "insert_server"
    /\ Goto(r, "server_fk")
    /\ UNCHANGED <<job, told, Committed>>

(* create_server(commit=False): the unique index admits one server for a   *)
(* scrim, after waiting for an uncommitted rival.                          *)
InsertServer(r) ==
    /\ pc[r] = "insert_server"
    /\ ~Blocked(r)
    /\ Goto(r, IF servers[job[r].item] = NoOne THEN "server_fk" ELSE "conflict")
    /\ UNCHANGED <<job, told, Committed>>

(* ... and its foreign key check shares the owner's users row. *)
ServerForeignKey(r) ==
    /\ pc[r] = "server_fk"
    /\ ~Blocked(r)
    /\ Goto(r, "lock_user")
    /\ UNCHANGED <<job, told, Committed>>

(* The caller's read of the server: routes/servers.extend finds it before  *)
(* it spends, release_if_unstarted before it releases to its owner.        *)
HasServer(r) ==
    /\ servers[job[r].item] # NoOne
    /\ job[r].op = "release" => servers[job[r].item] = job[r].acct

FindServer(r) ==
    /\ pc[r] = "find_server"
    /\ Goto(r, IF ~HasServer(r) THEN "no_server"
               ELSE IF job[r].op = "extend" THEN "lock_user" ELSE "entry")
    /\ UNCHANGED <<job, told, Committed>>

(* Mutant: the users row is read without FOR UPDATE. *)
LockUserUnlocked(r) ==
    /\ pc[r] = "lock_user"
    /\ Goto(r, "spend")
    /\ UNCHANGED <<job, told, Committed>>

(* _spend: SELECT 1 FROM users WHERE steam_id = ... FOR UPDATE. *)
LockUser(r) ==
    /\ pc[r] = "lock_user"
    /\ ~Blocked(r)
    /\ Goto(r, "spend")
    /\ UNCHANGED <<job, told, Committed>>

(* _spend: the conditional INSERT, against the rows committed by now. *)
Spend(r) ==
    /\ pc[r] = "spend"
    /\ Goto(r, IF Available(job[r].acct) >= 1 THEN "commit" ELSE "refuse")
    /\ UNCHANGED <<job, told, Committed>>

(* Mutant: the refusal commits the server it should have taken back. *)
RefuseKeepingServer(r) ==
    /\ pc[r] = "refuse"
    /\ told' = [told EXCEPT ![r] = Available(job[r].acct)]
    /\ servers' = IF job[r].op = "attach"
                  THEN [servers EXCEPT ![job[r].item] = job[r].acct] ELSE servers
    /\ Goto(r, "refused")
    /\ UNCHANGED <<job, ledger, paid>>

(* Mutant: no rollback; the transaction stays open with its locks. *)
RefuseWithoutRollback(r) ==
    /\ pc[r] = "refuse"
    /\ told' = [told EXCEPT ![r] = Available(job[r].acct)]
    /\ UNCHANGED <<job, pc, Committed>>

(* _spend: rowcount was 0.  The balance is read again for the message and  *)
(* the InsufficientCredits rolls the whole transaction back.               *)
Refuse(r) ==
    /\ pc[r] = "refuse"
    /\ told' = [told EXCEPT ![r] = Available(job[r].acct)]
    /\ Goto(r, "refused")
    /\ UNCHANGED <<job, Committed>>

(* _complete: UPDATE payments ... WHERE state <> COMPLETE. *)
CompareAndSet(r) ==
    /\ pc[r] = "cas"
    /\ ~Blocked(r)
    /\ Goto(r, IF job[r].item \in paid THEN "already" ELSE "entry")
    /\ UNCHANGED <<job, told, Committed>>

(* Mutant: an entry that checks no foreign key waits for nobody. *)
EntryWithoutForeignKey(r) ==
    /\ pc[r] = "entry"
    /\ Goto(r, IF job[r].op = "complete" /\ job[r].item \in paid
               THEN "conflict" ELSE "commit")
    /\ UNCHANGED <<job, told, Committed>>

(* _entry, from release or grant: an INSERT and its foreign key check.     *)
(* idx_credit_ledger_one_grant_per_payment refuses a payment's second      *)
(* grant, should one ever get this far.                                    *)
Entry(r) ==
    /\ pc[r] = "entry"
    /\ ~Blocked(r)
    /\ Goto(r, IF job[r].op = "complete" /\ job[r].item \in paid
               THEN "conflict" ELSE "commit")
    /\ UNCHANGED <<job, told, Committed>>

-----------------------------------------------------------------------------
(* COMMIT publishes what the transaction wrote, all of it at once.         *)

CommitAttach(r) ==
    /\ job[r].op = "attach"
    /\ servers' = [servers EXCEPT ![job[r].item] = job[r].acct]
    /\ ledger' = [ledger EXCEPT ![job[r].acct].reserve = @ + 1]
    /\ UNCHANGED paid

CommitExtend(r) ==
    /\ job[r].op = "extend"
    /\ ledger' = [ledger EXCEPT ![job[r].acct].extend = @ + 1]
    /\ UNCHANGED <<servers, paid>>

CommitRelease(r) ==
    /\ job[r].op = "release"
    /\ ledger' = [ledger EXCEPT ![job[r].acct].release = @ + 1]
    /\ UNCHANGED <<servers, paid>>

CommitComplete(r) ==
    /\ job[r].op = "complete"
    /\ paid' = paid \cup {job[r].item}
    /\ ledger' = [ledger EXCEPT ![job[r].acct].grant = @ + Worth[job[r].item]]
    /\ UNCHANGED servers

Commit(r) ==
    /\ pc[r] = "commit"
    /\ Goto(r, "committed")
    /\ CommitAttach(r) \/ CommitExtend(r) \/ CommitRelease(r) \/ CommitComplete(r)
    /\ UNCHANGED <<job, told>>

(* PostgreSQL's deadlock detector rolls one transaction of a cycle back. *)
DeadlockVictim(r) ==
    /\ Deadlocked(r)
    /\ Goto(r, "deadlock")
    /\ UNCHANGED <<job, told, Committed>>

(* The process dies or the connection drops before COMMIT: the server      *)
(* rolls the transaction back.                                             *)
Lose(r) ==
    /\ pc[r] \in Running
    /\ Goto(r, "lost")
    /\ UNCHANGED <<job, told, Committed>>

Statement(r) ==
    \/ InsertServer(r)
    \/ ServerForeignKey(r)
    \/ FindServer(r)
    \/ LockUser(r)
    \/ Spend(r)
    \/ Refuse(r)
    \/ CompareAndSet(r)
    \/ Entry(r)
    \/ Commit(r)

(* Every request has been answered; nothing more arrives. *)
AllEnded ==
    /\ \A r \in Requests : pc[r] \in Ended
    /\ UNCHANGED vars

Next ==
    \/ \E r \in Requests : Statement(r) \/ DeadlockVictim(r) \/ Lose(r)
    \/ AllEnded

Spec == Init /\ [][Next]_vars

(* A request that can execute its next statement does, and the detector    *)
(* runs deadlock_timeout after a wait begins.  Nothing is assumed of Lose. *)
FairSpec ==
    /\ Spec
    /\ \A r \in Requests : WF_vars(Statement(r)) /\ WF_vars(DeadlockVictim(r))

-----------------------------------------------------------------------------
TypeOK ==
    /\ job \in [Requests -> Jobs]
    /\ pc \in [Requests -> Running \cup Ended]
    /\ told \in [Requests -> Int]
    /\ ledger \in [Accounts -> [grant : Nat, reserve : Nat, release : Nat, extend : Nat]]
    /\ servers \in [Scrims -> Accounts \cup {NoOne}]
    /\ paid \in SUBSET Payments

(* No interleaving of attaches, extensions, releases and grants, and no    *)
(* crash, takes an account's balance below zero (FR-013; the race          *)
(* credits._spend locks the users row against).                            *)
NeverNegative == \A a \in Accounts : Available(a) >= 0

(* The number in an InsufficientCredits message is one the refusal was     *)
(* really made against: a request is never told it has the credit it was   *)
(* refused for want of (credits._spend reads it before the rollback).      *)
RefusalIsHonest == \A r \in Requests : pc[r] = "refused" => told[r] < 1

(* While a request holds an account's row for update, nobody else's commit *)
(* moves that account's rows: the balance _spend checked is still the      *)
(* balance when it commits.                                                *)
FrozenWhileLocked ==
    [][\A r \in Requests, a \in Accounts :
         (HoldsUpdate(r, a) /\ pc'[r] = pc[r]) => ledger'[a] = ledger[a]]_vars

(* The inductive invariant behind the properties above: each operation is  *)
(* at a statement of its own, the locks exclude what they should, and what *)
(* a statement found still holds when its transaction commits.             *)

OwnStatements ==
    \A r \in Requests :
        /\ pc[r] \in {"insert_server", "server_fk"} => job[r].op = "attach"
        /\ pc[r] \in {"lock_user", "spend", "refuse"} => job[r].op \in Spending
        /\ pc[r] = "find_server" => job[r].op \in {"extend", "release"}
        /\ pc[r] = "cas" => job[r].op = "complete"
        /\ pc[r] = "entry" => job[r].op \in {"release", "complete"}

UpdateExcludes ==
    \A r, q \in Requests : \A a \in Accounts :
        r # q /\ HoldsUpdate(r, a) => ~HoldsUpdate(q, a) /\ ~HoldsKeyShare(q, a)

SpendIsCovered ==
    \A r \in Requests : job[r].op \in Spending =>
        /\ pc[r] = "commit" => Available(job[r].acct) >= 1
        /\ pc[r] = "refuse" => Available(job[r].acct) < 1

ScrimExcludes ==
    \A r \in Requests, s \in Scrims : HoldsScrim(r, s) =>
        /\ servers[s] = NoOne
        /\ \A q \in Requests : q # r => ~HoldsScrim(q, s)

PaymentExcludes ==
    \A r \in Requests, p \in Payments : HoldsPayment(r, p) =>
        /\ p \notin paid
        /\ \A q \in Requests : q # r => ~HoldsPayment(q, p)

ServerWasFound ==
    \A r \in Requests :
        /\ job[r].op = "extend" /\ pc[r] \in {"lock_user", "spend", "commit"}
              => servers[job[r].item] # NoOne
        /\ job[r].op = "release" /\ pc[r] \in {"entry", "commit"}
              => servers[job[r].item] = job[r].acct

(* Between two statements no request's view is out of date: the conditions *)
(* that credits._spend, the unique indexes and the compare-and-set         *)
(* established are still true at COMMIT, whatever the others did.          *)
Inv ==
    /\ TypeOK
    /\ OwnStatements
    /\ UpdateExcludes
    /\ SpendIsCovered
    /\ ScrimExcludes
    /\ PaymentExcludes
    /\ ServerWasFound
    /\ NeverNegative
    /\ RefusalIsHonest

(* The ledger does what Entitlements promises: a server and its            *)
(* reservation, a payment and its grant appear together or not at all,     *)
(* once, and a spend happens only when the balance covers it (FR-009 to    *)
(* FR-013).                                                                *)
Promise == INSTANCE Entitlements WITH
    balance <- [a \in Accounts |-> Available(a)]

Implements == Promise!Spec

(* Every request is answered: lock waits end, by a commit, a rollback or   *)
(* the deadlock detector (FR-008: no writer waits indefinitely).           *)
EveryRequestEnds == \A r \in Requests : <>(pc[r] \in Ended)

(* FR-008: no writer fails because another is writing. *)
NoWriterFails == \A r \in Requests : pc[r] # "deadlock"

=============================================================================
