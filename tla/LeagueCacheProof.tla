-------------------------- MODULE LeagueCacheProof --------------------------
(***************************************************************************)
(* Proofs about LeagueCache, for any number of requests that overlap in    *)
(* any way, of any users, teams and players.  The argument: a refresh      *)
(* begins with the user's link, and so holds the link's row before it      *)
(* looks at the memberships; refreshes of one user are therefore one after *)
(* the other (OneRefresher).  An unlink keeps to no such order, but it     *)
(* only removes: nothing appears that the refresh has not seen             *)
(* (NothingUnseen), and what it commits is exactly what it fetched.        *)
(***************************************************************************)
EXTENDS LeagueCache, TLAPS

-----------------------------------------------------------------------------
(* The inductive invariant                                                 *)

Running ==
    [op : {"none", "refresh", "unlink", "roster"},
     pc : {"idle", "link", "teams", "delete", "deleting", "insert", "unlink"},
     key : Users \cup Hosts \cup {NoKey},
     got : SUBSET (Teams \cup Players), todo : SUBSET (Teams \cup Players),
     at : SUBSET (Teams \cup Players), sees : SUBSET (Teams \cup Players)]

Types ==
    /\ link \in [Users -> (SUBSET (Teams \cup Players)) \cup {Unlinked}]
    /\ members \in [Users -> SUBSET (Teams \cup Players)]
    /\ roster \in [Hosts -> SUBSET (Teams \cup Players)]
    /\ meta \in [Hosts -> [age : Ages, players : SUBSET (Teams \cup Players)]]
    /\ req \in [Requests -> Running]

(* Where a request can be, by what it is for. *)
InPlace(x) ==
    \/ x.op = "none" /\ x.pc = "idle"
    \/ /\ x.op = "refresh" /\ x.key \in Users
       /\ x.pc \in {"link", "teams", "delete", "deleting", "insert"}
    \/ /\ x.op = "unlink" /\ x.key \in Users /\ x.got = {}
       /\ x.pc \in {"delete", "deleting", "unlink"}
    \/ /\ x.op = "roster" /\ x.key \in Hosts
       /\ x.pc \in {"delete", "deleting", "insert"}

OneRefresher ==
    \A q, r \in Requests, u \in Users : HoldsLink(q, u) /\ HoldsLink(r, u) => q = r

NothingUnseen ==
    \A r \in Requests : req[r].op = "refresh" /\ req[r].pc \in {"deleting", "insert"} =>
        members[req[r].key] \subseteq req[r].sees

IInv ==
    /\ Types
    /\ \A r \in Requests : InPlace(req[r])
    /\ OneRefresher
    /\ NothingUnseen
    /\ LinkIsOneProfile
    /\ StampedRosterIsThere

-----------------------------------------------------------------------------
(* Steps that commit nothing                                               *)

LEMMA InitIInv == Init => IInv
  <1> SUFFICES ASSUME Init PROVE IInv
    OBVIOUS
  <1>1. Types
    <2>1. Resting \in Running
      BY DEF Running, Resting
    <2>2. [age |-> "never", players |-> {}] \in
             [age : Ages, players : SUBSET (Teams \cup Players)]
      BY DEF Ages
    <2>3. req \in [Requests -> Running]
      BY <2>1 DEF Init
    <2>4. meta \in [Hosts -> [age : Ages, players : SUBSET (Teams \cup Players)]]
      BY <2>2 DEF Init
    <2>5. {} \in SUBSET (Teams \cup Players)
      OBVIOUS
    <2>6. link \in [Users -> (SUBSET (Teams \cup Players)) \cup {Unlinked}]
      BY DEF Init
    <2>7. members \in [Users -> SUBSET (Teams \cup Players)]
      BY <2>5 DEF Init
    <2>8. roster \in [Hosts -> SUBSET (Teams \cup Players)]
      BY <2>5 DEF Init
    <2> QED BY <2>3, <2>4, <2>6, <2>7, <2>8 DEF Types
  <1>2. \A r \in Requests : InPlace(req[r])
    BY DEF Init, InPlace, Resting
  <1>3. OneRefresher /\ NothingUnseen
    BY DEF Init, OneRefresher, NothingUnseen, HoldsLink, Resting
  <1>4. LinkIsOneProfile /\ StampedRosterIsThere
    BY DEF Init, LinkIsOneProfile, StampedRosterIsThere
  <1> QED BY <1>1, <1>2, <1>3, <1>4 DEF IInv

(* Request r goes on to x, the cache being as it was. *)
LEMMA GoesOn ==
  ASSUME IInv, NEW r \in Requests, NEW x \in Running,
         req' = [req EXCEPT ![r] = x], UNCHANGED Cache,
         InPlace(x),
         (x.op = "refresh" /\ x.pc \in {"teams", "delete", "deleting", "insert"}) =>
             \A q \in Requests \ {r} : ~HoldsLink(q, x.key),
         (x.op = "refresh" /\ x.pc \in {"deleting", "insert"}) =>
             members[x.key] \subseteq x.sees
  PROVE  IInv'
  <1>1. req'[r] = x /\ \A q \in Requests \ {r} : req'[q] = req[q]
    BY DEF IInv, Types
  <1>2. UNCHANGED <<link, members, roster, meta>>
    BY DEF Cache
  <1>3. Types'
    BY <1>2 DEF IInv, Types
  <1>4. \A q \in Requests : InPlace(req[q])'
    BY <1>1 DEF IInv, InPlace
  <1>5. OneRefresher'
    <2>1. \A q \in Requests \ {r}, u \in Users : HoldsLink(q, u)' <=> HoldsLink(q, u)
      BY <1>1 DEF HoldsLink
    <2>2. \A u \in Users : HoldsLink(r, u)' =>
             \A q \in Requests \ {r} : ~HoldsLink(q, u)
      BY <1>1 DEF HoldsLink
    <2> QED BY <2>1, <2>2 DEF IInv, OneRefresher
  <1>6. NothingUnseen'
    BY <1>1, <1>2 DEF IInv, NothingUnseen
  <1>7. LinkIsOneProfile' /\ StampedRosterIsThere'
    BY <1>2 DEF IInv, LinkIsOneProfile, StampedRosterIsThere
  <1> QED BY <1>3, <1>4, <1>5, <1>6, <1>7 DEF IInv

LEMMA RestKeeps ==
  ASSUME IInv, NEW r \in Requests, Rest(r), UNCHANGED Cache
  PROVE  IInv'
  <1>1. Resting \in Running /\ InPlace(Resting) /\ Resting.op = "none"
    BY DEF Running, Resting, InPlace
  <1> QED BY <1>1, GoesOn DEF Rest

(* A request that begins. *)
LEMMA BeginKeeps ==
  ASSUME IInv, NEW r \in Requests, UNCHANGED Cache,
         NEW op, NEW pc, NEW key, NEW got \in SUBSET (Teams \cup Players),
         Begin(r, op, pc, key, got),
         \/ op = "refresh" /\ pc = "link" /\ key \in Users
         \/ op = "unlink" /\ pc = "delete" /\ key \in Users /\ got = {}
         \/ op = "roster" /\ pc = "delete" /\ key \in Hosts
  PROVE  IInv'
  <1> DEFINE todo == IF op = "refresh" THEN got ELSE {}
             x == [op |-> op, pc |-> pc, key |-> key, got |-> got, todo |-> todo,
                   at |-> {}, sees |-> {}]
  <1>1. req' = [req EXCEPT ![r] = x]
    BY DEF Begin
  <1>2. todo \in SUBSET (Teams \cup Players)
    OBVIOUS
  <1> HIDE DEF todo
  <1>3. x \in Running /\ InPlace(x) /\ (x.op = "refresh" => x.pc = "link")
    BY <1>2 DEF Running, InPlace
  <1> HIDE DEF x
  <1> QED BY <1>1, <1>3, GoesOn


(* A DELETE begins. *)
LEMMA GoesToDelete ==
  ASSUME NEW x \in Running, NEW sees \in SUBSET (Teams \cup Players)
  PROVE  LET y == [x EXCEPT !.pc = "deleting", !.sees = sees]
         IN  /\ y \in Running /\ y.pc = "deleting" /\ y.op = x.op /\ y.key = x.key
             /\ y.got = x.got /\ y.sees = sees
  BY DEF Running

(* The statements of a transaction up to its last. *)
LEMMA StatementKeeps ==
  ASSUME IInv, NEW r \in Requests,
         \/ UpsertLink(r) \/ UpsertTeam(r) \/ Delete(r) \/ Deleted(r)
         \/ InsertRow(r)
  PROVE  IInv'
  <1> DEFINE x == req[r]
  <1>1. x \in Running /\ InPlace(x) /\ UNCHANGED Cache
    BY DEF IInv, Types, UpsertLink, UpsertTeam, Delete, Deleted, InsertRow
  <1>2. (x.op = "refresh" /\ x.pc \in {"teams", "delete", "deleting", "insert"}) =>
           \A q \in Requests \ {r} : ~HoldsLink(q, x.key)
    BY <1>1 DEF IInv, OneRefresher, HoldsLink, InPlace
  <1>3. (x.op = "refresh" /\ x.pc \in {"deleting", "insert"}) =>
           members[x.key] \subseteq x.sees
    BY DEF IInv, NothingUnseen
  <1>4. ASSUME UpsertLink(r) PROVE IInv'
    <2>1. PICK pc \in {"delete", "teams"} : req' = [req EXCEPT ![r].pc = pc]
      BY <1>4 DEF UpsertLink, Goto
    <2> DEFINE y == [x EXCEPT !.pc = pc]
    <2>2. y \in Running /\ y.pc = pc /\ y.op = x.op /\ y.key = x.key
      BY <1>1 DEF Running
    <2>3. x.pc = "link" /\ x.op = "refresh" /\ x.key \in Users
      BY <1>1, <1>4 DEF UpsertLink, InPlace
    <2>4. \A q \in Requests \ {r} : ~HoldsLink(q, x.key)
      BY <1>4, <2>3 DEF UpsertLink, Blocked, WaitsFor
    <2>5. req' = [req EXCEPT ![r] = y]
      BY <2>1
    <2> HIDE DEF y, x
    <2>6. InPlace(y)
      BY <2>2, <2>3 DEF InPlace
    <2> QED BY <1>1, <2>2, <2>3, <2>4, <2>5, <2>6, GoesOn
  <1>5. ASSUME UpsertTeam(r) PROVE IInv'
    <2>1. PICK rest \in SUBSET (Teams \cup Players) : rest = x.todo \ First(x.todo)
      BY <1>1 DEF Running
    <2>2. PICK pc \in {"delete", "teams"} :
             req' = [req EXCEPT ![r].todo = rest, ![r].pc = pc]
      BY <1>5, <2>1 DEF UpsertTeam
    <2> DEFINE y == [x EXCEPT !.todo = rest, !.pc = pc]
    <2>3. req' = [req EXCEPT ![r] = y]
      BY <2>2
    <2>5. y \in Running /\ y.pc = pc /\ y.op = x.op /\ y.key = x.key
      <3>1. x \in Running
        BY <1>1
      <3> HIDE DEF x
      <3> QED BY <3>1 DEF Running
    <2>6. x.pc = "teams" /\ x.op = "refresh" /\ x.key \in Users
      BY <1>1, <1>5 DEF UpsertTeam, InPlace
    <2> HIDE DEF y, x
    <2>7. InPlace(y)
      BY <2>5, <2>6 DEF InPlace
    <2> QED BY <1>1, <1>2, <2>3, <2>5, <2>6, <2>7, GoesOn
  <1>6. ASSUME Delete(r) PROVE IInv'
    <2>1. PICK sees \in SUBSET (Teams \cup Players) : sees = Rows(r)
      BY <1>1, <1>6 DEF Delete, Rows, InPlace, IInv, Types
    <2> DEFINE y == [x EXCEPT !.pc = "deleting", !.sees = sees]
    <2>2. req' = [req EXCEPT ![r] = y]
      BY <1>6, <2>1 DEF Delete
    <2>4. /\ y \in Running /\ y.pc = "deleting" /\ y.op = x.op /\ y.key = x.key
          /\ y.got = x.got /\ y.sees = sees
      BY <1>1, GoesToDelete
    <2>5. x.pc = "delete" /\ (x.op = "refresh" => sees = members[x.key])
      BY <1>6, <2>1 DEF Delete, Rows
    <2> HIDE DEF y, x
    <2>6. InPlace(y)
      BY <1>1, <2>4, <2>5 DEF InPlace
    <2> QED BY <1>1, <1>2, <2>2, <2>4, <2>5, <2>6, GoesOn
  <1>7. ASSUME Deleted(r), x.op = "unlink" PROVE IInv'
    <2> DEFINE y == [x EXCEPT !.pc = "unlink"]
    <2>1. req' = [req EXCEPT ![r] = y] /\ x.pc = "deleting"
      BY <1>7 DEF Deleted, Goto
    <2>2. y \in Running /\ y.pc = "unlink" /\ y.op = x.op /\ y.key = x.key /\ y.got = x.got
      BY <1>1 DEF Running
    <2> HIDE DEF y, x
    <2>3. InPlace(y)
      BY <1>1, <1>7, <2>1, <2>2 DEF InPlace
    <2> QED BY <1>1, <1>7, <2>1, <2>2, <2>3, GoesOn
  <1>8. ASSUME \/ Deleted(r) /\ x.op # "unlink"
               \/ InsertRow(r)
        PROVE  IInv'
    <2>1. PICK rows \in SUBSET (Teams \cup Players) :
             Inserting(r, rows) /\ x.pc \in {"deleting", "insert"} /\ x.op # "unlink"
      BY <1>1, <1>8 DEF Deleted, InsertRow, Running, InPlace
    <2>2. PICK at \in {First(rows)} \cup {{p} : p \in rows} :
             req' = [req EXCEPT ![r].pc = "insert", ![r].todo = rows, ![r].at = at]
      BY <2>1 DEF Inserting
    <2>3. at \in SUBSET (Teams \cup Players)
      BY <2>1, <2>2 DEF First
    <2> DEFINE y == [x EXCEPT !.pc = "insert", !.todo = rows, !.at = at]
    <2>4. req' = [req EXCEPT ![r] = y]
      BY <2>2
    <2>5. /\ y \in Running /\ y.pc = "insert" /\ y.op = x.op /\ y.key = x.key
          /\ y.got = x.got /\ y.sees = x.sees
      <3>1. x \in Running
        BY <1>1
      <3> HIDE DEF x
      <3> QED BY <2>1, <2>3, <3>1 DEF Running
    <2> HIDE DEF y, x
    <2>6. InPlace(y)
      BY <1>1, <2>1, <2>5 DEF InPlace
    <2> QED BY <1>1, <1>2, <1>3, <2>1, <2>4, <2>5, <2>6, GoesOn
  <1> QED BY <1>4, <1>5, <1>6, <1>7, <1>8

-----------------------------------------------------------------------------
(* Commits                                                                 *)

(* A commit takes rows from under those that wait for them, no more. *)
LEMMA OthersAfterCommit ==
  ASSUME IInv, NEW r \in Requests, EndTransaction(r)
  PROVE  /\ req' \in [Requests -> Running]
         /\ \A q \in Requests : InPlace(req[q])'
         /\ OneRefresher'
         /\ req'[r] = Resting
         /\ \A q \in Requests \ {r} :
               /\ req'[q].op = req[q].op /\ req'[q].pc = req[q].pc
               /\ req'[q].key = req[q].key /\ req'[q].got = req[q].got
               /\ \/ req'[q].sees = req[q].sees
                  \/ /\ req[q].pc = "deleting" /\ req[q].key = req[r].key
                     /\ req'[q].sees = req[q].sees \ req[r].sees
  <1>1. Resting \in Running /\ InPlace(Resting) /\ Resting.op = "none"
    BY DEF Running, Resting, InPlace
  <1>2. req'[r] = Resting
    BY DEF EndTransaction
  <1>3. ASSUME NEW q \in Requests \ {r}
        PROVE  /\ req'[q] \in Running
               /\ req'[q].op = req[q].op /\ req'[q].pc = req[q].pc
               /\ req'[q].key = req[q].key /\ req'[q].got = req[q].got
               /\ \/ req'[q].sees = req[q].sees
                  \/ /\ req[q].pc = "deleting" /\ req[q].key = req[r].key
                     /\ req'[q].sees = req[q].sees \ req[r].sees
    <2>1. req[q] \in Running
      BY DEF IInv, Types
    <2>2. CASE req'[q] = req[q]
      BY <2>1, <2>2
    <2>3. CASE /\ req[q].pc = "deleting" /\ req[q].key = req[r].key
               /\ req'[q] = [req[q] EXCEPT !.sees = @ \ req[r].sees]
      BY <2>1, <2>3 DEF Running
    <2> QED BY <2>2, <2>3 DEF EndTransaction
  <1>4. req' \in [Requests -> Running]
    <2>1. \A q \in Requests : req'[q] \in Running
      BY <1>1, <1>2, <1>3
    <2>2. req' = [q \in Requests |-> req'[q]]
      BY DEF EndTransaction
    <2> QED BY <2>1, <2>2
  <1>5. \A q \in Requests : InPlace(req[q])'
    BY <1>1, <1>2, <1>3 DEF IInv, InPlace
  <1>6. OneRefresher'
    <2>1. \A q \in Requests, u \in Users : HoldsLink(q, u)' => q # r /\ HoldsLink(q, u)
      BY <1>1, <1>2, <1>3 DEF HoldsLink
    <2> QED BY <2>1 DEF IInv, OneRefresher
  <1> QED BY <1>2, <1>3, <1>4, <1>5, <1>6

LEMMA SaveMembershipsKeeps ==
  ASSUME IInv, NEW r \in Requests, SaveMemberships(r)
  PROVE  IInv'
  <1>1. PICK u \in Users, got \in SUBSET (Teams \cup Players) :
           u = req[r].key /\ got = req[r].got
    BY DEF IInv, Types, Running, InPlace, SaveMemberships, Last
  <1>2. Replaced(r) = got
    BY <1>1 DEF IInv, NothingUnseen, SaveMemberships, Last, Replaced, Rows
  <1>3. /\ link' = [link EXCEPT ![u] = got] /\ members' = [members EXCEPT ![u] = got]
        /\ EndTransaction(r) /\ UNCHANGED <<roster, meta>>
    BY <1>1, <1>2 DEF SaveMemberships
  <1>4. Types'
    <2>1. /\ link \in [Users -> (SUBSET (Teams \cup Players)) \cup {Unlinked}]
          /\ members \in [Users -> SUBSET (Teams \cup Players)]
      BY DEF IInv, Types
    <2>2. link' \in [Users -> (SUBSET (Teams \cup Players)) \cup {Unlinked}]
      BY <1>3, <2>1
    <2>3. members' \in [Users -> SUBSET (Teams \cup Players)]
      BY <1>3, <2>1
    <2> QED BY <1>3, <2>2, <2>3, OthersAfterCommit DEF IInv, Types
  <1>5. NothingUnseen'
    <2> SUFFICES ASSUME NEW q \in Requests, req'[q].op = "refresh",
                        req'[q].pc \in {"deleting", "insert"}
                 PROVE  members'[req'[q].key] \subseteq req'[q].sees
      BY DEF NothingUnseen
    <2>1. q # r
      BY <1>3, OthersAfterCommit DEF Resting
    <2>2. /\ req[q].op = "refresh" /\ req[q].pc \in {"deleting", "insert"}
          /\ req'[q].key = req[q].key
      BY <1>3, <2>1, OthersAfterCommit
    <2>3. req[q].key # u
      BY <1>1, <2>1, <2>2 DEF IInv, OneRefresher, HoldsLink, SaveMemberships, Last
    <2>4. req'[q].sees = req[q].sees
      BY <1>1, <1>3, <2>1, <2>3, OthersAfterCommit
    <2>5. members'[req[q].key] = members[req[q].key]
      BY <1>3, <2>2, <2>3 DEF IInv, Types, InPlace
    <2> QED BY <2>2, <2>4, <2>5 DEF IInv, NothingUnseen
  <1>6. LinkIsOneProfile' /\ StampedRosterIsThere'
    BY <1>3 DEF IInv, Types, LinkIsOneProfile, StampedRosterIsThere
  <1> QED BY <1>3, <1>4, <1>5, <1>6, OthersAfterCommit DEF IInv

LEMMA DeleteLinkKeeps ==
  ASSUME IInv, NEW r \in Requests, DeleteLink(r)
  PROVE  IInv'
  <1>1. PICK u \in Users, sees \in SUBSET (Teams \cup Players) :
           u = req[r].key /\ sees = req[r].sees
    BY DEF IInv, Types, Running, InPlace, DeleteLink
  <1>2. Replaced(r) = members[u] \ sees
    BY <1>1 DEF IInv, InPlace, DeleteLink, Replaced, Rows
  <1>3. /\ link' = [link EXCEPT ![u] = Unlinked]
        /\ members' = [members EXCEPT ![u] = members[u] \ sees]
        /\ EndTransaction(r) /\ UNCHANGED <<roster, meta>>
    BY <1>1, <1>2 DEF DeleteLink
  <1>4. Types'
    <2>1. /\ link \in [Users -> (SUBSET (Teams \cup Players)) \cup {Unlinked}]
          /\ members \in [Users -> SUBSET (Teams \cup Players)]
      BY DEF IInv, Types
    <2>2. link' \in [Users -> (SUBSET (Teams \cup Players)) \cup {Unlinked}]
      BY <1>3, <2>1
    <2>3. members' \in [Users -> SUBSET (Teams \cup Players)]
      BY <1>3, <2>1
    <2> QED BY <1>3, <2>2, <2>3, OthersAfterCommit DEF IInv, Types
  <1>5. NothingUnseen'
    <2> SUFFICES ASSUME NEW q \in Requests, req'[q].op = "refresh",
                        req'[q].pc \in {"deleting", "insert"}
                 PROVE  members'[req'[q].key] \subseteq req'[q].sees
      BY DEF NothingUnseen
    <2>1. q # r
      BY <1>3, OthersAfterCommit DEF Resting
    <2>2. /\ req[q].op = "refresh" /\ req[q].pc \in {"deleting", "insert"}
          /\ req'[q].key = req[q].key /\ req[q].key \in Users
      BY <1>3, <2>1, OthersAfterCommit DEF IInv, InPlace
    <2>3. members[req[q].key] \subseteq req[q].sees
      BY <2>2 DEF IInv, NothingUnseen
    <2>4. \/ req'[q].sees = req[q].sees
          \/ req[q].key = u /\ req'[q].sees = req[q].sees \ sees
      <3>1. \/ req'[q].sees = req[q].sees
            \/ req[q].key = req[r].key /\ req'[q].sees = req[q].sees \ req[r].sees
        BY <1>3, <2>1, OthersAfterCommit
      <3> QED BY <1>1, <3>1
    <2>5. CASE req[q].key = u
      BY <1>3, <2>2, <2>3, <2>4, <2>5 DEF IInv, Types
    <2>6. CASE req[q].key # u
      BY <1>3, <2>2, <2>3, <2>4, <2>6 DEF IInv, Types
    <2> QED BY <2>5, <2>6
  <1>6. LinkIsOneProfile' /\ StampedRosterIsThere'
    BY <1>3 DEF IInv, Types, LinkIsOneProfile, StampedRosterIsThere
  <1> QED BY <1>3, <1>4, <1>5, <1>6, OthersAfterCommit DEF IInv

LEMMA StampRosterKeeps ==
  ASSUME IInv, NEW r \in Requests, StampRoster(r)
  PROVE  IInv'
  <1>1. PICK t \in Hosts, got \in SUBSET (Teams \cup Players) :
           t = req[r].key /\ got = req[r].got /\ req[r].op = "roster"
    BY DEF IInv, Types, Running, InPlace, StampRoster
  <1>2. PICK new \in SUBSET (Teams \cup Players) : new = Replaced(r) /\ got \subseteq new
    <2>1. Replaced(r) = (roster[t] \ req[r].sees) \cup got
      BY <1>1 DEF Replaced, Rows
    <2>2. roster[t] \in SUBSET (Teams \cup Players)
      BY DEF IInv, Types
    <2>3. Replaced(r) \in SUBSET (Teams \cup Players) /\ got \subseteq Replaced(r)
      BY <2>1, <2>2
    <2> QED BY <2>3
  <1>3. /\ roster' = [roster EXCEPT ![t] = new]
        /\ meta' = [meta EXCEPT ![t] = [age |-> "fresh", players |-> got]]
        /\ EndTransaction(r) /\ UNCHANGED <<link, members>>
    BY <1>1, <1>2 DEF StampRoster
  <1>4. Types'
    <2>1. /\ roster \in [Hosts -> SUBSET (Teams \cup Players)]
          /\ meta \in [Hosts -> [age : Ages, players : SUBSET (Teams \cup Players)]]
      BY DEF IInv, Types
    <2>2. roster' \in [Hosts -> SUBSET (Teams \cup Players)]
      BY <1>3, <2>1
    <2>3. [age |-> "fresh", players |-> got] \in
             [age : Ages, players : SUBSET (Teams \cup Players)]
      BY DEF Ages
    <2>4. meta' \in [Hosts -> [age : Ages, players : SUBSET (Teams \cup Players)]]
      BY <1>3, <2>1, <2>3
    <2> QED BY <1>3, <2>2, <2>4, OthersAfterCommit DEF IInv, Types
  <1>5. NothingUnseen'
    <2> SUFFICES ASSUME NEW q \in Requests, req'[q].op = "refresh",
                        req'[q].pc \in {"deleting", "insert"}
                 PROVE  members'[req'[q].key] \subseteq req'[q].sees
      BY DEF NothingUnseen
    <2>1. q # r
      BY <1>3, OthersAfterCommit DEF Resting
    <2>2. /\ req[q].op = "refresh" /\ req[q].pc \in {"deleting", "insert"}
          /\ req'[q].key = req[q].key /\ req[q].key \in Users
      BY <1>3, <2>1, OthersAfterCommit DEF IInv, InPlace
    <2>3. req[q].key # t
      BY <2>2, LeagueAssumption
    <2>4. req'[q].sees = req[q].sees
      BY <1>1, <1>3, <2>1, <2>3, OthersAfterCommit
    <2> QED BY <1>3, <2>2, <2>4 DEF IInv, NothingUnseen
  <1>6. LinkIsOneProfile' /\ StampedRosterIsThere'
    BY <1>2, <1>3 DEF IInv, Types, LinkIsOneProfile, StampedRosterIsThere
  <1> QED BY <1>3, <1>4, <1>5, <1>6, OthersAfterCommit DEF IInv

LEMMA ExpireKeeps ==
  ASSUME IInv, NEW t \in Hosts, Expire(t)
  PROVE  IInv'
  <1>1. /\ meta' = [meta EXCEPT ![t].age = "stale"]
        /\ UNCHANGED <<link, members, roster, req>>
    BY DEF Expire
  <1>2. Types'
    BY <1>1 DEF IInv, Types, Ages
  <1>3. StampedRosterIsThere'
    BY <1>1 DEF IInv, Types, StampedRosterIsThere
  <1> QED BY <1>1, <1>2, <1>3
          DEF IInv, InPlace, OneRefresher, NothingUnseen, HoldsLink, LinkIsOneProfile

-----------------------------------------------------------------------------
(* The theorems                                                            *)

LEMMA StepKeeps == IInv /\ [Next]_vars => IInv'
  <1> SUFFICES ASSUME IInv, [Next]_vars PROVE IInv'
    OBVIOUS
  <1>1. CASE UNCHANGED vars
    BY <1>1 DEF vars, IInv, Types, InPlace, OneRefresher, NothingUnseen, HoldsLink,
                LinkIsOneProfile, StampedRosterIsThere
  <1>2. ASSUME NEW t \in Hosts, Expire(t) PROVE IInv'
    BY <1>2, ExpireKeeps
  <1>3. ASSUME NEW r \in Requests, NEW u \in Users, Fetch(r, u) PROVE IInv'
    <2>1. PICK P \in Profiles : Begin(r, "refresh", "link", u, P)
      BY <1>3 DEF Fetch
    <2>2. P \in SUBSET (Teams \cup Players) /\ UNCHANGED Cache
      BY <1>3 DEF Profiles, Fetch
    <2> QED BY <2>1, <2>2, BeginKeeps
  <1>4. ASSUME NEW r \in Requests, NEW u \in Users, Unlink(r, u) PROVE IInv'
    <2>1. Begin(r, "unlink", "delete", u, {}) /\ UNCHANGED Cache
      BY <1>4 DEF Unlink
    <2>2. {} \in SUBSET (Teams \cup Players)
      OBVIOUS
    <2> QED BY <2>1, <2>2, BeginKeeps
  <1>5. ASSUME NEW r \in Requests, NEW t \in Hosts, ViewScrim(r, t) PROVE IInv'
    <2>1. PICK P \in SUBSET Players : Begin(r, "roster", "delete", t, P)
      BY <1>5 DEF ViewScrim
    <2>2. P \in SUBSET (Teams \cup Players) /\ UNCHANGED Cache
      BY <1>5 DEF ViewScrim
    <2> QED BY <2>1, <2>2, BeginKeeps
  <1>6. ASSUME NEW r \in Requests, Statement(r) PROVE IInv'
    <2>1. CASE \/ UpsertLink(r) \/ UpsertTeam(r) \/ Delete(r) \/ Deleted(r)
               \/ InsertRow(r)
      BY <2>1, StatementKeeps
    <2>2. CASE SaveMemberships(r)
      BY <2>2, SaveMembershipsKeeps
    <2>3. CASE DeleteLink(r)
      BY <2>3, DeleteLinkKeeps
    <2>4. CASE StampRoster(r)
      BY <2>4, StampRosterKeeps
    <2>5. CASE UniqueViolation(r) \/ DeadlockVictim(r)
      BY <2>5, RestKeeps DEF UniqueViolation, DeadlockVictim
    <2> QED BY <1>6, <2>1, <2>2, <2>3, <2>4, <2>5 DEF Statement
  <1>7. ASSUME NEW r \in Requests, Lose(r) PROVE IInv'
    BY <1>7, RestKeeps DEF Lose
  <1> QED BY <1>1, <1>2, <1>3, <1>4, <1>5, <1>6, <1>7 DEF Next

(* The invariant holds, however many requests overlap. *)
THEOREM Invariance == Spec => []IInv
  BY InitIInv, StepKeeps, PTL DEF Spec

(* Refreshes and unlinks that overlap never leave a linked user with the   *)
(* memberships of another profile, or with a mixture of two.               *)
THEOREM NoMixture == Spec => []LinkIsOneProfile
  <1>1. IInv => LinkIsOneProfile
    BY DEF IInv
  <1> QED BY <1>1, Invariance, PTL

(* Everyone on the list a stamp stands for is on the cached roster.        *)
THEOREM StampIsTrue == Spec => []StampedRosterIsThere
  <1>1. IInv => StampedRosterIsThere
    BY DEF IInv
  <1> QED BY <1>1, Invariance, PTL

=============================================================================
