---------------------------- MODULE CreditsProof ----------------------------
(***************************************************************************)
(* For any accounts, scrims, payments and number of concurrent requests:   *)
(* Inv is an inductive invariant of Credits, so balances never go          *)
(* negative, and a locked account's rows do not move.                      *)
(***************************************************************************)
EXTENDS Credits, TLAPS

USE CreditsAssumption

(* What each of the four operations can be asked to do: the shape of a job, *)
(* as the provers need it.                                                  *)
LEMMA JobShape ==
    ASSUME NEW j \in Jobs
    PROVE  /\ j.acct \in Accounts
           /\ j.op \in {"attach", "extend", "release", "complete"}
           /\ j.op # "complete" => j.item \in Scrims
           /\ j.op = "complete" => j.item \in Payments /\ j.acct = Payer[j.item]
BY DEF Jobs

(* A balance is an integer: a sum of the committed rows of each kind. *)
LEMMA BalanceIsInt ==
    ASSUME TypeOK, NEW a \in Accounts
    PROVE  /\ Available(a) \in Int
           /\ ledger[a] \in [grant : Nat, reserve : Nat, release : Nat, extend : Nat]
BY DEF TypeOK, Available

(* The initial states satisfy the invariant: nothing is committed but the  *)
(* opening grants.                                                         *)
LEMMA InitInv == Init => Inv
<1> SUFFICES ASSUME Init PROVE Inv
    OBVIOUS
<1>1. \A r \in Requests :
          /\ pc[r] = FirstStatement[job[r].op]
          /\ job[r].op \in {"attach", "extend", "release", "complete"}
    BY JobShape DEF Init
<1>2. \A r \in Requests :
          \/ job[r].op = "attach" /\ pc[r] = "insert_server"
          \/ job[r].op \in {"extend", "release"} /\ pc[r] = "find_server"
          \/ job[r].op = "complete" /\ pc[r] = "cas"
    <2>1. /\ FirstStatement["attach"] = "insert_server"
          /\ FirstStatement["extend"] = "find_server"
          /\ FirstStatement["release"] = "find_server"
          /\ FirstStatement["complete"] = "cas"
        BY DEF FirstStatement
    <2> QED
        BY <1>1, <2>1
<1>3. TypeOK
    BY <1>2 DEF Init, TypeOK, Running
<1>4. OwnStatements
    BY <1>2 DEF OwnStatements
<1>5. UpdateExcludes /\ SpendIsCovered /\ ScrimExcludes /\ PaymentExcludes
    BY <1>2 DEF UpdateExcludes, SpendIsCovered, ScrimExcludes, PaymentExcludes,
               HoldsUpdate, HoldsScrim, HoldsPayment
<1>6. ServerWasFound /\ RefusalIsHonest
    BY <1>2 DEF ServerWasFound, RefusalIsHonest
<1>7. NeverNegative
    BY DEF NeverNegative, Available, Init
<1> QED
    BY <1>3, <1>4, <1>5, <1>6, <1>7 DEF Inv

(* A step that only moves request r from one of its statements to the next *)
(* keeps every part of the invariant that the statement r arrives at does  *)
(* not depend on: used for all the statements that commit nothing.         *)
LEMMA MoveKeepsInv ==
    ASSUME Inv,
           NEW r \in Requests, NEW label \in Running \cup Ended,
           pc' = [pc EXCEPT ![r] = label],
           UNCHANGED <<job, ledger, servers, paid>>,
           told' \in [Requests -> Int],
           \A q \in Requests : q # r => told'[q] = told[q],
           label \in {"insert_server", "server_fk"} => job[r].op = "attach",
           label \in {"lock_user", "spend", "refuse"} => job[r].op \in Spending,
           label = "find_server" => job[r].op \in {"extend", "release"},
           label = "cas" => job[r].op = "complete",
           label = "entry" => job[r].op \in {"release", "complete"},
           HoldsUpdate(r, job[r].acct)' =>
               \A q \in Requests : q # r =>
                   ~HoldsUpdate(q, job[r].acct) /\ ~HoldsKeyShare(q, job[r].acct),
           HoldsKeyShare(r, job[r].acct)' =>
               \A q \in Requests : q # r => ~HoldsUpdate(q, job[r].acct),
           job[r].op \in Spending /\ label = "commit" => Available(job[r].acct) >= 1,
           job[r].op \in Spending /\ label = "refuse" => Available(job[r].acct) < 1,
           HoldsScrim(r, job[r].item)' =>
               /\ servers[job[r].item] = NoOne
               /\ \A q \in Requests : q # r => ~HoldsScrim(q, job[r].item),
           HoldsPayment(r, job[r].item)' =>
               /\ job[r].item \notin paid
               /\ \A q \in Requests : q # r => ~HoldsPayment(q, job[r].item),
           job[r].op = "extend" /\ label \in {"lock_user", "spend", "commit"}
               => servers[job[r].item] # NoOne,
           job[r].op = "release" /\ label \in {"entry", "commit"}
               => servers[job[r].item] = job[r].acct,
           label = "refused" => told'[r] < 1
    PROVE  Inv'
<1>1. TypeOK'
    BY DEF Inv, TypeOK
<1>2. /\ pc'[r] = label
      /\ \A q \in Requests : q # r => pc'[q] = pc[q]
    BY DEF Inv, TypeOK
<1>3. OwnStatements'
    BY <1>2 DEF Inv, OwnStatements
<1>4. UpdateExcludes'
    BY <1>2 DEF Inv, UpdateExcludes, HoldsUpdate, HoldsKeyShare
<1>5. SpendIsCovered'
    BY <1>2 DEF Inv, SpendIsCovered, Available
<1>6. ScrimExcludes'
    BY <1>2 DEF Inv, ScrimExcludes, HoldsScrim
<1>7. PaymentExcludes'
    BY <1>2 DEF Inv, PaymentExcludes, HoldsPayment
<1>8. ServerWasFound'
    BY <1>2 DEF Inv, ServerWasFound
<1>9. NeverNegative' /\ RefusalIsHonest'
    BY <1>2 DEF Inv, NeverNegative, RefusalIsHonest, Available
<1> QED
    BY <1>1, <1>3, <1>4, <1>5, <1>6, <1>7, <1>8, <1>9 DEF Inv


(* Each statement of the code keeps the invariant. *)

LEMMA InsertServerInv ==
    ASSUME Inv, NEW r \in Requests, InsertServer(r) PROVE Inv'
<1> DEFINE s == job[r].item
           label == IF servers[s] = NoOne THEN "server_fk" ELSE "conflict"
<1>1. /\ job[r].op = "attach" /\ s \in Scrims
      /\ UNCHANGED <<job, told, ledger, servers, paid>>
      /\ pc' = [pc EXCEPT ![r] = label]
    BY JobShape DEF Inv, TypeOK, OwnStatements, InsertServer, Goto, Committed
<1>2. /\ pc'[r] = label
      /\ label \in {"server_fk", "conflict"}
      /\ label = "server_fk" => servers[s] = NoOne
    BY <1>1 DEF Inv, TypeOK
<1>3. \A q \in Requests : q # r => ~HoldsScrim(q, s)
    BY DEF InsertServer, Blocked, WaitsFor
<1> HIDE DEF label
<1>4. HoldsScrim(r, s)' => servers[s] = NoOne
    BY <1>1, <1>2 DEF HoldsScrim
<1>5. /\ ~HoldsUpdate(r, job[r].acct)' /\ ~HoldsKeyShare(r, job[r].acct)'
      /\ ~HoldsPayment(r, s)'
    BY <1>1, <1>2 DEF HoldsUpdate, HoldsKeyShare, HoldsPayment
<1> QED
    BY <1>1, <1>2, <1>3, <1>4, <1>5, MoveKeepsInv
       DEF Inv, TypeOK, Running, Ended, Spending

LEMMA ServerForeignKeyInv ==
    ASSUME Inv, NEW r \in Requests, ServerForeignKey(r) PROVE Inv'
<1>1. /\ job[r].op = "attach" /\ job[r].item \in Scrims
      /\ UNCHANGED <<job, told, ledger, servers, paid>>
      /\ pc' = [pc EXCEPT ![r] = "lock_user"]
    BY JobShape DEF Inv, TypeOK, OwnStatements, ServerForeignKey, Goto, Committed
<1>2. pc[r] = "server_fk" /\ pc'[r] = "lock_user"
    BY <1>1 DEF ServerForeignKey, Inv, TypeOK
<1>3. \A q \in Requests : q # r => ~HoldsUpdate(q, job[r].acct)
    BY <1>2 DEF ServerForeignKey, Blocked, WaitsFor
<1>4. /\ servers[job[r].item] = NoOne
      /\ \A q \in Requests : q # r => ~HoldsScrim(q, job[r].item)
    BY <1>1, <1>2 DEF Inv, ScrimExcludes, HoldsScrim
<1>5. ~HoldsUpdate(r, job[r].acct)' /\ ~HoldsPayment(r, job[r].item)'
    BY <1>1, <1>2 DEF HoldsUpdate, HoldsPayment
<1> QED
    BY <1>1, <1>2, <1>3, <1>4, <1>5, MoveKeepsInv
       DEF Inv, TypeOK, Running, Ended, Spending

LEMMA FindServerInv ==
    ASSUME Inv, NEW r \in Requests, FindServer(r) PROVE Inv'
<1> DEFINE s == job[r].item
           label == IF ~HasServer(r) THEN "no_server"
                    ELSE IF job[r].op = "extend" THEN "lock_user" ELSE "entry"
<1>1. /\ job[r].op \in {"extend", "release"}
      /\ UNCHANGED <<job, told, ledger, servers, paid>>
      /\ pc' = [pc EXCEPT ![r] = label]
    BY DEF Inv, TypeOK, OwnStatements, FindServer, Goto, Committed
<1>2. /\ label \in {"no_server", "lock_user", "entry"}
      /\ label # "no_server" =>
             servers[s] # NoOne /\ (job[r].op = "release" => servers[s] = job[r].acct)
      /\ label = "lock_user" => job[r].op = "extend"
      /\ label = "entry" => job[r].op = "release"
    BY <1>1 DEF HasServer
<1> HIDE DEF label
<1>3. pc'[r] = label
    BY <1>1 DEF Inv, TypeOK
<1>4. /\ ~HoldsUpdate(r, job[r].acct)' /\ ~HoldsKeyShare(r, job[r].acct)'
      /\ ~HoldsScrim(r, s)' /\ ~HoldsPayment(r, s)'
    BY <1>1, <1>2, <1>3
       DEF HoldsUpdate, HoldsKeyShare, HoldsScrim, HoldsPayment
<1> QED
    BY <1>1, <1>2, <1>3, <1>4, MoveKeepsInv
       DEF Inv, TypeOK, Running, Ended, Spending

LEMMA LockUserInv ==
    ASSUME Inv, NEW r \in Requests, LockUser(r) PROVE Inv'
<1>1. /\ pc[r] = "lock_user" /\ job[r].op \in Spending
      /\ UNCHANGED <<job, told, ledger, servers, paid>>
      /\ pc' = [pc EXCEPT ![r] = "spend"]
    BY DEF Inv, OwnStatements, LockUser, Goto, Committed
<1>2. pc'[r] = "spend"
    BY <1>1 DEF Inv, TypeOK
<1>3. \A q \in Requests : q # r =>
          ~HoldsUpdate(q, job[r].acct) /\ ~HoldsKeyShare(q, job[r].acct)
    BY <1>1 DEF LockUser, Blocked, WaitsFor
<1>4. HoldsScrim(r, job[r].item)' =>
          /\ servers[job[r].item] = NoOne
          /\ \A q \in Requests : q # r => ~HoldsScrim(q, job[r].item)
    <2> SUFFICES ASSUME job[r].op = "attach"
                 PROVE  /\ servers[job[r].item] = NoOne
                        /\ \A q \in Requests : q # r => ~HoldsScrim(q, job[r].item)
        BY <1>1 DEF HoldsScrim
    <2>1. HoldsScrim(r, job[r].item) /\ job[r].item \in Scrims
        BY <1>1, JobShape DEF HoldsScrim, Inv, TypeOK
    <2> QED
        BY <2>1 DEF Inv, ScrimExcludes
<1>5. ~HoldsPayment(r, job[r].item)'
    BY <1>1, <1>2 DEF HoldsPayment
<1>6. job[r].op = "extend" => servers[job[r].item] # NoOne
    BY <1>1 DEF Inv, ServerWasFound
<1> QED
    BY <1>1, <1>2, <1>3, <1>4, <1>5, <1>6, MoveKeepsInv
       DEF Inv, TypeOK, Running, Ended, Spending

LEMMA SpendInv ==
    ASSUME Inv, NEW r \in Requests, Spend(r) PROVE Inv'
<1> DEFINE label == IF Available(job[r].acct) >= 1 THEN "commit" ELSE "refuse"
<1>1. /\ pc[r] = "spend" /\ job[r].op \in Spending
      /\ UNCHANGED <<job, told, ledger, servers, paid>>
      /\ pc' = [pc EXCEPT ![r] = label]
    BY DEF Inv, OwnStatements, Spend, Goto, Committed
<1>2. /\ label \in {"commit", "refuse"}
      /\ pc'[r] = label
      /\ label = "commit" => Available(job[r].acct) >= 1
      /\ label = "refuse" => Available(job[r].acct) < 1
    BY <1>1, JobShape, BalanceIsInt DEF Inv, TypeOK
<1> HIDE DEF label
<1>3. \A q \in Requests : q # r =>
          ~HoldsUpdate(q, job[r].acct) /\ ~HoldsKeyShare(q, job[r].acct)
    <2>1. HoldsUpdate(r, job[r].acct) /\ job[r].acct \in Accounts
        BY <1>1, JobShape DEF HoldsUpdate, Inv, TypeOK
    <2> QED
        BY <2>1 DEF Inv, UpdateExcludes
<1>4. HoldsScrim(r, job[r].item)' =>
          /\ servers[job[r].item] = NoOne
          /\ \A q \in Requests : q # r => ~HoldsScrim(q, job[r].item)
    <2> SUFFICES ASSUME job[r].op = "attach"
                 PROVE  /\ servers[job[r].item] = NoOne
                        /\ \A q \in Requests : q # r => ~HoldsScrim(q, job[r].item)
        BY <1>1 DEF HoldsScrim
    <2>1. HoldsScrim(r, job[r].item) /\ job[r].item \in Scrims
        BY <1>1, JobShape DEF HoldsScrim, Inv, TypeOK
    <2> QED
        BY <2>1 DEF Inv, ScrimExcludes
<1>5. ~HoldsPayment(r, job[r].item)'
    BY <1>1 DEF HoldsPayment, Spending
<1>6. job[r].op = "extend" => servers[job[r].item] # NoOne
    BY <1>1 DEF Inv, ServerWasFound
<1> QED
    BY <1>1, <1>2, <1>3, <1>4, <1>5, <1>6, MoveKeepsInv
       DEF Inv, TypeOK, Running, Ended, Spending

(* A step after which r holds no lock and waits to hold none. *)
LEMMA EndInv ==
    ASSUME Inv, NEW r \in Requests, NEW label \in Ended \ {"refused", "committed"},
           pc' = [pc EXCEPT ![r] = label],
           UNCHANGED <<job, told, ledger, servers, paid>>
    PROVE  Inv'
<1>1. /\ pc'[r] = label
      /\ label \in {"conflict", "already", "no_server", "deadlock", "lost"}
    BY DEF Inv, TypeOK, Ended
<1>2. /\ ~HoldsUpdate(r, job[r].acct)' /\ ~HoldsKeyShare(r, job[r].acct)'
      /\ ~HoldsScrim(r, job[r].item)' /\ ~HoldsPayment(r, job[r].item)'
    BY <1>1 DEF HoldsUpdate, HoldsKeyShare, HoldsScrim, HoldsPayment
<1> QED
    BY <1>1, <1>2, MoveKeepsInv DEF Inv, TypeOK, Ended

LEMMA RefuseInv ==
    ASSUME Inv, NEW r \in Requests, Refuse(r) PROVE Inv'
<1>1. /\ pc[r] = "refuse" /\ job[r].op \in Spending /\ job[r].acct \in Accounts
      /\ UNCHANGED <<job, ledger, servers, paid>>
      /\ pc' = [pc EXCEPT ![r] = "refused"]
      /\ told' = [told EXCEPT ![r] = Available(job[r].acct)]
    BY JobShape DEF Inv, TypeOK, OwnStatements, Refuse, Goto, Committed
<1>2. Available(job[r].acct) < 1 /\ Available(job[r].acct) \in Int
    BY <1>1, BalanceIsInt DEF Inv, SpendIsCovered
<1>3. /\ pc'[r] = "refused"
      /\ told' \in [Requests -> Int] /\ told'[r] < 1
      /\ \A q \in Requests : q # r => told'[q] = told[q]
    BY <1>1, <1>2 DEF Inv, TypeOK
<1>4. /\ ~HoldsUpdate(r, job[r].acct)' /\ ~HoldsKeyShare(r, job[r].acct)'
      /\ ~HoldsScrim(r, job[r].item)' /\ ~HoldsPayment(r, job[r].item)'
    BY <1>3 DEF HoldsUpdate, HoldsKeyShare, HoldsScrim, HoldsPayment
<1> QED
    BY <1>1, <1>3, <1>4, MoveKeepsInv DEF Running, Ended

LEMMA CompareAndSetInv ==
    ASSUME Inv, NEW r \in Requests, CompareAndSet(r) PROVE Inv'
<1>1. /\ pc[r] = "cas" /\ job[r].op = "complete" /\ job[r].item \in Payments
      /\ UNCHANGED <<job, told, ledger, servers, paid>>
    BY JobShape DEF Inv, TypeOK, OwnStatements, CompareAndSet, Committed
<1>2. CASE job[r].item \in paid
    <2>1. pc' = [pc EXCEPT ![r] = "already"]
        BY <1>2 DEF CompareAndSet, Goto
    <2> QED
        BY <1>1, <2>1, EndInv DEF Ended
<1>3. CASE job[r].item \notin paid
    <2>1. pc' = [pc EXCEPT ![r] = "entry"] /\ pc'[r] = "entry"
        BY <1>3 DEF CompareAndSet, Goto, Inv, TypeOK
    <2>2. \A q \in Requests : q # r => ~HoldsPayment(q, job[r].item)
        BY <1>1 DEF CompareAndSet, Blocked, WaitsFor
    <2>3. /\ ~HoldsUpdate(r, job[r].acct)' /\ ~HoldsKeyShare(r, job[r].acct)'
          /\ ~HoldsScrim(r, job[r].item)'
        BY <1>1, <2>1 DEF HoldsUpdate, HoldsKeyShare, HoldsScrim
    <2> QED
        BY <1>1, <1>3, <2>1, <2>2, <2>3, MoveKeepsInv
           DEF Inv, TypeOK, Running, Spending
<1> QED
    BY <1>2, <1>3

LEMMA EntryInv ==
    ASSUME Inv, NEW r \in Requests, Entry(r) PROVE Inv'
<1>1. /\ pc[r] = "entry" /\ job[r].op \in {"release", "complete"}
      /\ UNCHANGED <<job, told, ledger, servers, paid>>
    BY DEF Inv, OwnStatements, Entry, Committed
<1>0. job[r].op = "complete" => job[r].item \notin paid
    BY <1>1, JobShape DEF Inv, TypeOK, PaymentExcludes, HoldsPayment
<1>2. pc' = [pc EXCEPT ![r] = "commit"] /\ pc'[r] = "commit"
    BY <1>0 DEF Entry, Goto, Inv, TypeOK
<1>3. \A q \in Requests : q # r => ~HoldsUpdate(q, job[r].acct)
    BY <1>1 DEF Entry, Blocked, WaitsFor
<1>4. ~HoldsUpdate(r, job[r].acct)' /\ ~HoldsScrim(r, job[r].item)'
    BY <1>1 DEF HoldsUpdate, HoldsScrim, Spending
<1>5. HoldsPayment(r, job[r].item)' =>
          /\ job[r].item \notin paid
          /\ \A q \in Requests : q # r => ~HoldsPayment(q, job[r].item)
    <2> SUFFICES ASSUME job[r].op = "complete"
                 PROVE  /\ job[r].item \notin paid
                        /\ \A q \in Requests : q # r => ~HoldsPayment(q, job[r].item)
        BY <1>1 DEF HoldsPayment
    <2>1. HoldsPayment(r, job[r].item) /\ job[r].item \in Payments
        BY <1>1, JobShape DEF HoldsPayment, Inv, TypeOK
    <2> QED
        BY <2>1 DEF Inv, PaymentExcludes
<1>6. job[r].op = "release" => servers[job[r].item] = job[r].acct
    BY <1>1 DEF Inv, ServerWasFound
<1> QED
    BY <1>1, <1>2, <1>3, <1>4, <1>5, <1>6, MoveKeepsInv
       DEF Inv, TypeOK, Running, Spending

(* What a commit does to the ledger: nothing to other accounts, and to its *)
(* own account the delta of its kind.                                      *)
LEMMA CommitEffect ==
    ASSUME TypeOK, NEW r \in Requests, Commit(r)
    PROVE  /\ ledger' \in [Accounts -> [grant : Nat, reserve : Nat, release : Nat, extend : Nat]]
           /\ \A a \in Accounts : a # job[r].acct => ledger'[a] = ledger[a]
           /\ job[r].op \in Spending => Available(job[r].acct)' = Available(job[r].acct) - 1
           /\ job[r].op = "release" => Available(job[r].acct)' = Available(job[r].acct) + 1
           /\ job[r].op = "complete" =>
                  Available(job[r].acct)' = Available(job[r].acct) + Worth[job[r].item]
<1> DEFINE b == job[r].acct
           Rows == [grant : Nat, reserve : Nat, release : Nat, extend : Nat]
           Untouched == \A a \in Accounts : a # b => ledger'[a] = ledger[a]
<1>1. b \in Accounts /\ job' = job /\ ledger[b] \in Rows
    BY JobShape DEF TypeOK, Commit
<1>2. CASE CommitAttach(r)
    <2>1. /\ job[r].op = "attach"
          /\ ledger' = [ledger EXCEPT ![b].reserve = @ + 1]
        BY <1>2 DEF CommitAttach
    <2>2. ledger'[b] = [ledger[b] EXCEPT !.reserve = @ + 1]
        BY <1>1, <2>1 DEF TypeOK
    <2>3. ledger'[b] \in Rows
        BY <1>1, <2>1, <2>2
    <2>4. ledger' \in [Accounts -> Rows] /\ Untouched
        BY <1>1, <2>1, <2>3 DEF TypeOK
    <2>5. Available(b)' = Available(b) - 1
        BY <1>1, <2>1, <2>2 DEF Available
    <2> QED
        BY <2>1, <2>4, <2>5 DEF Spending
<1>3. CASE CommitExtend(r)
    <2>1. /\ job[r].op = "extend"
          /\ ledger' = [ledger EXCEPT ![b].extend = @ + 1]
        BY <1>3 DEF CommitExtend
    <2>2. ledger'[b] = [ledger[b] EXCEPT !.extend = @ + 1]
        BY <1>1, <2>1 DEF TypeOK
    <2>3. ledger'[b] \in Rows
        BY <1>1, <2>1, <2>2
    <2>4. ledger' \in [Accounts -> Rows] /\ Untouched
        BY <1>1, <2>1, <2>3 DEF TypeOK
    <2>5. Available(b)' = Available(b) - 1
        BY <1>1, <2>1, <2>2 DEF Available
    <2> QED
        BY <2>1, <2>4, <2>5 DEF Spending
<1>4. CASE CommitRelease(r)
    <2>1. /\ job[r].op = "release"
          /\ ledger' = [ledger EXCEPT ![b].release = @ + 1]
        BY <1>4 DEF CommitRelease
    <2>2. ledger'[b] = [ledger[b] EXCEPT !.release = @ + 1]
        BY <1>1, <2>1 DEF TypeOK
    <2>3. ledger'[b] \in Rows
        BY <1>1, <2>1, <2>2
    <2>4. ledger' \in [Accounts -> Rows] /\ Untouched
        BY <1>1, <2>1, <2>3 DEF TypeOK
    <2>5. Available(b)' = Available(b) + 1
        BY <1>1, <2>1, <2>2 DEF Available
    <2> QED
        BY <2>1, <2>4, <2>5 DEF Spending
<1>5. CASE CommitComplete(r)
    <2>1. /\ job[r].op = "complete" /\ Worth[job[r].item] \in Nat
          /\ ledger' = [ledger EXCEPT ![b].grant = @ + Worth[job[r].item]]
        BY <1>5, JobShape DEF CommitComplete, TypeOK
    <2>2. ledger'[b] = [ledger[b] EXCEPT !.grant = @ + Worth[job[r].item]]
        BY <1>1, <2>1 DEF TypeOK
    <2>3. ledger'[b] \in Rows
        BY <1>1, <2>1, <2>2
    <2>4. ledger' \in [Accounts -> Rows] /\ Untouched
        BY <1>1, <2>1, <2>3 DEF TypeOK
    <2>5. Available(b)' = Available(b) + Worth[job[r].item]
        BY <1>1, <2>1, <2>2 DEF Available
    <2> QED
        BY <2>1, <2>4, <2>5 DEF Spending
<1> QED
    BY <1>2, <1>3, <1>4, <1>5 DEF Commit

(* What a commit does to servers and payments. *)
LEMMA CommitRows ==
    ASSUME TypeOK, NEW r \in Requests, Commit(r)
    PROVE  /\ job[r].op = "attach" =>
                  servers' = [servers EXCEPT ![job[r].item] = job[r].acct]
           /\ job[r].op # "attach" => servers' = servers
           /\ job[r].op = "complete" => paid' = paid \cup {job[r].item}
           /\ job[r].op # "complete" => paid' = paid
           /\ servers' \in [Scrims -> Accounts \cup {NoOne}]
           /\ paid' \in SUBSET Payments
<1>1. \/ job[r].op = "attach" /\ job[r].item \in Scrims
      \/ job[r].op = "complete" /\ job[r].item \in Payments
      \/ job[r].op \in {"extend", "release"}
    BY JobShape DEF TypeOK
<1>2. job[r].acct \in Accounts
    BY JobShape DEF TypeOK
<1> QED
    BY <1>1, <1>2 DEF Commit, CommitAttach, CommitExtend, CommitRelease,
                      CommitComplete, TypeOK

LEMMA CommitInv ==
    ASSUME Inv, NEW r \in Requests, Commit(r) PROVE Inv'
<1> DEFINE b == job[r].acct
<1>1. /\ TypeOK /\ b \in Accounts
      /\ job[r].op \in {"attach", "extend", "release", "complete"}
    BY JobShape DEF Inv, TypeOK
<1>2. /\ pc[r] = "commit" /\ pc'[r] = "committed"
      /\ pc' = [pc EXCEPT ![r] = "committed"]
      /\ \A q \in Requests : q # r => pc'[q] = pc[q]
      /\ job' = job /\ told' = told
    BY <1>1 DEF Commit, Goto, TypeOK
<1>3. TypeOK'
    BY <1>1, <1>2, CommitEffect, CommitRows DEF TypeOK, Ended
<1>4. OwnStatements'
    BY <1>2 DEF Inv, OwnStatements
<1>5. UpdateExcludes'
    BY <1>2 DEF Inv, UpdateExcludes, HoldsUpdate, HoldsKeyShare
<1>6. \A a \in Accounts : a # b => Available(a)' = Available(a)
    BY <1>1, CommitEffect DEF Available
<1>7. SpendIsCovered'
    <2> SUFFICES ASSUME NEW q \in Requests, q # r, job[q].op \in Spending,
                        pc[q] \in {"commit", "refuse"}
                 PROVE  job[q].acct # b
        BY <1>1, <1>2, <1>6, JobShape DEF Inv, SpendIsCovered, TypeOK
    <2>1. job[q].acct \in Accounts /\ HoldsUpdate(q, job[q].acct)
        BY <1>1, JobShape DEF TypeOK, HoldsUpdate
    <2>2. ~HoldsUpdate(r, job[q].acct) /\ ~HoldsKeyShare(r, job[q].acct)
        BY <2>1 DEF Inv, UpdateExcludes
    <2>3. HoldsUpdate(r, b) \/ HoldsKeyShare(r, b)
        BY <1>1, <1>2 DEF HoldsUpdate, HoldsKeyShare, Spending
    <2> QED
        BY <2>2, <2>3
<1>8. ScrimExcludes'
    <2> SUFFICES ASSUME NEW q \in Requests, NEW s \in Scrims, q # r, HoldsScrim(q, s)
                 PROVE  servers'[s] = NoOne
        BY <1>2 DEF Inv, ScrimExcludes, HoldsScrim
    <2>1. servers[s] = NoOne /\ ~HoldsScrim(r, s)
        BY DEF Inv, ScrimExcludes
    <2>2. job[r].op = "attach" => job[r].item # s
        BY <1>2, <2>1 DEF HoldsScrim
    <2> QED
        BY <1>1, <2>1, <2>2, CommitRows DEF TypeOK
<1>9. PaymentExcludes'
    <2> SUFFICES ASSUME NEW q \in Requests, NEW p \in Payments, q # r, HoldsPayment(q, p)
                 PROVE  p \notin paid'
        BY <1>2 DEF Inv, PaymentExcludes, HoldsPayment
    <2>1. p \notin paid /\ ~HoldsPayment(r, p)
        BY DEF Inv, PaymentExcludes
    <2>2. job[r].op = "complete" => job[r].item # p
        BY <1>2, <2>1 DEF HoldsPayment
    <2> QED
        BY <1>1, <2>1, <2>2, CommitRows
<1>10. ServerWasFound'
    <2>1. \A s \in Scrims : servers[s] # NoOne => servers'[s] = servers[s]
        <3>1. CASE job[r].op = "attach"
            <4>1. HoldsScrim(r, job[r].item) /\ job[r].item \in Scrims
                BY <1>1, <1>2, <3>1, JobShape DEF HoldsScrim, TypeOK
            <4>2. servers[job[r].item] = NoOne
                BY <4>1 DEF Inv, ScrimExcludes
            <4> QED
                BY <1>1, <3>1, <4>2, CommitRows DEF TypeOK
        <3>2. CASE job[r].op # "attach"
            BY <1>1, <3>2, CommitRows
        <3> QED
            BY <3>1, <3>2
    <2>2. \A q \in Requests : job[q].op \in {"extend", "release"} =>
              job[q].item \in Scrims /\ job[q].acct # NoOne
        BY <1>1, JobShape DEF TypeOK
    <2> QED
        BY <1>2, <2>1, <2>2 DEF Inv, ServerWasFound
<1>11. NeverNegative'
    <2>1. Available(b)' >= 0
        <3>1. Available(b) \in Int /\ Available(b) >= 0
            BY <1>1, BalanceIsInt DEF Inv, NeverNegative
        <3>2. CASE job[r].op \in Spending
            BY <1>1, <1>2, <3>1, <3>2, CommitEffect DEF Inv, SpendIsCovered
        <3>3. CASE job[r].op = "release"
            BY <1>1, <3>1, <3>3, CommitEffect
        <3>4. CASE job[r].op = "complete"
            <4>1. Worth[job[r].item] \in Nat
                BY <1>1, <3>4, JobShape DEF TypeOK
            <4> QED
                BY <1>1, <3>1, <3>4, <4>1, CommitEffect
        <3> QED
            BY <1>1, <3>2, <3>3, <3>4 DEF Spending
    <2> QED
        BY <1>1, <1>2, <1>6, <2>1 DEF Inv, NeverNegative
<1>12. RefusalIsHonest'
    BY <1>2 DEF Inv, RefusalIsHonest
<1> QED
    BY <1>3, <1>4, <1>5, <1>7, <1>8, <1>9, <1>10, <1>11, <1>12 DEF Inv

(* Every step keeps the invariant: one case per statement, the deadlock    *)
(* detector, a lost connection, and the stutter after the last answer.     *)
LEMMA NextInv == Inv /\ [Next]_vars => Inv'
<1> SUFFICES ASSUME Inv, [Next]_vars PROVE Inv'
    OBVIOUS
<1>1. ASSUME NEW r \in Requests, Statement(r) PROVE Inv'
    BY <1>1, InsertServerInv, ServerForeignKeyInv, FindServerInv, LockUserInv,
       SpendInv, RefuseInv, CompareAndSetInv, EntryInv, CommitInv DEF Statement
<1>2. ASSUME NEW r \in Requests, DeadlockVictim(r) PROVE Inv'
    BY <1>2, EndInv DEF DeadlockVictim, Goto, Committed, Ended
<1>3. ASSUME NEW r \in Requests, Lose(r) PROVE Inv'
    BY <1>3, EndInv DEF Lose, Goto, Committed, Ended
<1>4. CASE UNCHANGED vars
    <2>1. /\ UNCHANGED <<job, pc, told, ledger, servers, paid>>
        BY <1>4 DEF vars
    <2>2. TypeOK' /\ OwnStatements' /\ ServerWasFound' /\ RefusalIsHonest'
        BY <2>1 DEF Inv, TypeOK, OwnStatements, ServerWasFound, RefusalIsHonest
    <2>3. UpdateExcludes' /\ ScrimExcludes' /\ PaymentExcludes'
        BY <2>1 DEF Inv, UpdateExcludes, ScrimExcludes, PaymentExcludes,
                    HoldsUpdate, HoldsKeyShare, HoldsScrim, HoldsPayment
    <2>4. SpendIsCovered' /\ NeverNegative'
        BY <2>1 DEF Inv, SpendIsCovered, NeverNegative, Available
    <2> QED
        BY <2>2, <2>3, <2>4 DEF Inv
<1> QED
    BY <1>1, <1>2, <1>3, <1>4 DEF Next, AllEnded

-----------------------------------------------------------------------------
(* Inv holds in every state that the interleavings of any number of        *)
(* requests reach.                                                         *)
THEOREM Invariance == Spec => []Inv
BY InitInv, NextInv, PTL DEF Spec

(* The variables keep their types. *)
THEOREM TypeCorrect == Spec => []TypeOK
<1>1. Inv => TypeOK
    BY DEF Inv
<1> QED
    BY <1>1, Invariance, PTL

(* The balance of an account never goes below zero: the row lock and the   *)
(* conditional INSERT of credits._spend are enough, whatever mix of        *)
(* attaches, extensions, releases and grants runs beside it.               *)
THEOREM Solvent == Spec => []NeverNegative
<1>1. Inv => NeverNegative
    BY DEF Inv
<1> QED
    BY <1>1, Invariance, PTL

(* A refused request is told a balance that does not cover what it asked.  *)
THEOREM HonestRefusal == Spec => []RefusalIsHonest
<1>1. Inv => RefusalIsHonest
    BY DEF Inv
<1> QED
    BY <1>1, Invariance, PTL

(* Only a commit moves the ledger, the servers or the payments. *)
LEMMA OnlyCommits ==
    ASSUME [Next]_vars, ~ \E r \in Requests : Commit(r)
    PROVE  UNCHANGED <<ledger, servers, paid>>
BY DEF Next, Statement, InsertServer, ServerForeignKey, FindServer, LockUser,
       Spend, Refuse, CompareAndSet, Entry, DeadlockVictim, Lose, AllEnded,
       Committed, vars

(* While a request holds an account's row for update, the rows _spend      *)
(* summed stay what they were, however many others run.                    *)
THEOREM Frozen == Spec => FrozenWhileLocked
<1>1. ASSUME Inv, [Next]_vars, NEW r \in Requests, NEW a \in Accounts,
             HoldsUpdate(r, a), pc'[r] = pc[r]
      PROVE  ledger'[a] = ledger[a]
    <2>1. CASE ~ \E q \in Requests : Commit(q)
        BY <1>1, <2>1, OnlyCommits
    <2>2. ASSUME NEW q \in Requests, Commit(q)
          PROVE  ledger'[a] = ledger[a]
        <3>1. pc[q] = "commit" /\ pc'[q] = "committed" /\ q # r
            BY <1>1, <2>2 DEF Commit, Goto, Inv, TypeOK
        <3>2. ~HoldsUpdate(q, a) /\ ~HoldsKeyShare(q, a)
            BY <1>1, <3>1 DEF Inv, UpdateExcludes
        <3>3. job[q].op \in {"attach", "extend", "release", "complete"}
            BY <1>1, JobShape DEF Inv, TypeOK
        <3>4. job[q].acct # a
            BY <3>1, <3>2, <3>3 DEF HoldsUpdate, HoldsKeyShare, Spending
        <3> QED
            BY <1>1, <2>2, <3>4, CommitEffect DEF Inv
    <2> QED
        BY <2>1, <2>2
<1>2. Inv /\ [Next]_vars =>
          [\A r \in Requests, a \in Accounts :
             (HoldsUpdate(r, a) /\ pc'[r] = pc[r]) => ledger'[a] = ledger[a]]_vars
    BY <1>1
<1> QED
    BY <1>2, Invariance, PTL DEF Spec, FrozenWhileLocked

-----------------------------------------------------------------------------
(* A commit is one step of Entitlements. *)
LEMMA CommitRefines ==
    ASSUME Inv, NEW r \in Requests, Commit(r)
    PROVE  Promise!Next
<1> DEFINE b == job[r].acct
           balance == [a \in Accounts |-> Available(a)]
<1>1. /\ TypeOK /\ b \in Accounts /\ pc[r] = "commit" /\ job' = job
      /\ job[r].op \in {"attach", "extend", "release", "complete"}
      /\ job[r].op # "complete" => job[r].item \in Scrims
      /\ job[r].op = "complete" => job[r].item \in Payments /\ b = Payer[job[r].item]
    BY JobShape DEF Inv, TypeOK, Commit
<1>2. /\ Available(b) \in Int
      /\ job[r].op \in Spending => Available(b) >= 1
    BY <1>1, BalanceIsInt DEF Inv, SpendIsCovered
<1>3. \A a \in Accounts : a # b => Available(a)' = Available(a)
    BY <1>1, CommitEffect DEF Available
<1>4. /\ job[r].op \in Spending => balance' = [balance EXCEPT ![b] = @ - 1]
      /\ job[r].op = "release" => balance' = [balance EXCEPT ![b] = @ + 1]
      /\ job[r].op = "complete" => balance' = [balance EXCEPT ![b] = @ + Worth[job[r].item]]
    BY <1>1, <1>3, CommitEffect
<1>5. CASE job[r].op = "attach"
    <2>1. servers[job[r].item] = NoOne
        BY <1>1, <1>5 DEF Inv, ScrimExcludes, HoldsScrim
    <2>2. Promise!Reserve(b, job[r].item)
        BY <1>1, <1>2, <1>4, <1>5, <2>1, CommitRows DEF Promise!Reserve, Spending
    <2> QED
        BY <1>1, <1>5, <2>2 DEF Promise!Next
<1>6. CASE job[r].op = "extend"
    <2>1. servers[job[r].item] # NoOne
        BY <1>1, <1>6 DEF Inv, ServerWasFound
    <2>2. Promise!Extend(b)
        BY <1>1, <1>2, <1>4, <1>6, <2>1, CommitRows DEF Promise!Extend, Spending
    <2> QED
        BY <1>1, <2>2 DEF Promise!Next
<1>7. CASE job[r].op = "release"
    <2>1. servers[job[r].item] = b
        BY <1>1, <1>7 DEF Inv, ServerWasFound
    <2>2. Promise!Release(b)
        BY <1>1, <1>4, <1>7, <2>1, CommitRows DEF Promise!Release
    <2> QED
        BY <1>1, <2>2 DEF Promise!Next
<1>8. CASE job[r].op = "complete"
    <2>1. job[r].item \notin paid
        BY <1>1, <1>8 DEF Inv, PaymentExcludes, HoldsPayment
    <2>2. Promise!Pay(job[r].item)
        BY <1>1, <1>4, <1>8, <2>1, CommitRows DEF Promise!Pay
    <2> QED
        BY <1>1, <1>8, <2>2 DEF Promise!Next
<1> QED
    BY <1>1, <1>5, <1>6, <1>7, <1>8

(* Credits implements Entitlements: every interleaving of statements is,   *)
(* seen from outside, a sequence of indivisible payments, reservations,    *)
(* extensions and releases (FR-009, FR-010, FR-012).                       *)
THEOREM Refinement == Spec => Implements
<1>1. Init => Promise!Init
    BY DEF Init, Promise!Init, Available
<1>2. Inv /\ [Next]_vars => [Promise!Next]_(Promise!vars)
    <2> SUFFICES ASSUME Inv, [Next]_vars
                 PROVE  Promise!Next \/ UNCHANGED Promise!vars
        OBVIOUS
    <2>1. CASE \E r \in Requests : Commit(r)
        BY <2>1, CommitRefines
    <2>2. CASE ~ \E r \in Requests : Commit(r)
        BY <2>2, OnlyCommits DEF Promise!vars, Available
    <2> QED
        BY <2>1, <2>2
<1> QED
    BY <1>1, <1>2, Invariance, PTL DEF Spec, Implements, Promise!Spec

=============================================================================
