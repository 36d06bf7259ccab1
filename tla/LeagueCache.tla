---------------------------- MODULE LeagueCache ----------------------------
(***************************************************************************)
(* Links, memberships and rosters, as the store keeps them of RGL's data   *)
(* (app/rgl_store.py), and the requests that write them, statement by      *)
(* statement at READ COMMITTED:                                            *)
(*                                                                         *)
(*   refresh   routes/rgl.py _fetch_and_store: fetch the user's profile,   *)
(*             then save_link: link, teams, memberships, in one commit     *)
(*   unlink    unlink: memberships, then link, in one commit               *)
(*   roster    ensure_roster: fetch a team, then save_roster: players,     *)
(*             then stamp, in one commit                                   *)
(*                                                                         *)
(* Memberships and rosters are replaced wholesale: a DELETE, then INSERTs. *)
(* The DELETE removes the rows that were there when it began, less those   *)
(* another transaction removes while it waits; rows committed meanwhile    *)
(* are none of its business.  An INSERT writes one row.  A transaction's   *)
(* last statement and its commit are one step.  Of rgl_teams only the row  *)
(* locks matter here; Directory models what its rows are for.              *)
(***************************************************************************)
EXTENDS Integers, Functions

CONSTANTS
    Requests,       \* requests served at the same time
    Users,          \* signed-in accounts
    Teams,          \* RGL's team ids
    Format,         \* Format[t]: the position in FORMATS of t's format
    Hosts,          \* teams whose scrims are looked at
    Players,        \* players RGL may list on a host's roster
    NoKey,          \* the key of a request that is not running
    Unlinked        \* the link of a user who has none

ASSUME LeagueAssumption ==
    /\ Teams \subseteq Nat /\ Hosts \subseteq Teams
    /\ Users \cap Hosts = {} /\ NoKey \notin Users \cup Hosts
    /\ Format \in [Teams -> Nat \ {0}]

(* currentTeams names at most one team for each format. *)
Profiles ==
    {P \in SUBSET Teams : \A t, u \in P : Format[t] = Format[u] => t = u}

VARIABLES
    link,           \* rgl_links: the teams of the profile it was saved from
    members,        \* rgl_memberships: the teams each user may act for
    roster,         \* rgl_rosters: the players of each host
    meta,           \* rgl_roster_meta: its age, and (history) what was fetched
    req             \* what each request is doing

vars == <<link, members, roster, meta, req>>

Ages == {"never", "fresh", "stale"}

Resting ==
    [op |-> "none", pc |-> "idle", key |-> NoKey, got |-> {}, todo |-> {},
     at |-> {}, sees |-> {}]

Idle(r) == req[r].pc = "idle"

Init ==
    /\ link = [u \in Users |-> Unlinked]
    /\ members = [u \in Users |-> {}]
    /\ roster = [t \in Hosts |-> {}]
    /\ meta = [t \in Hosts |-> [age |-> "never", players |-> {}]]
    /\ req = [r \in Requests |-> Resting]

(* A request begins its transaction on row key, with what RGL answered.    *)
(* todo is what its loop has yet to write, at the row of its next INSERT,  *)
(* sees what its DELETE found.                                             *)
Begin(r, op, pc, key, got) ==
    req' = [req EXCEPT ![r] =
        [op |-> op, pc |-> pc, key |-> key, got |-> got,
         todo |-> IF op = "refresh" THEN got ELSE {}, at |-> {}, sees |-> {}]]

Goto(r, pc) == req' = [req EXCEPT ![r].pc = pc]
Rest(r) == req' = [req EXCEPT ![r] = Resting]

Cache == <<link, members, roster, meta>>

-----------------------------------------------------------------------------
(* Row locks, held to the end of the transaction.                          *)

HoldsLink(q, u) ==
    /\ req[q].op = "refresh" /\ req[q].key = u
    /\ req[q].pc \in {"teams", "delete", "deleting", "insert"}

HoldsTeam(q, t) ==
    /\ req[q].op = "refresh" /\ t \in req[q].got
    /\ req[q].pc \in {"link", "teams"} => t \notin req[q].todo

HoldsDeleted(q, key) ==
    IF req[q].key = key /\ req[q].pc \in {"insert", "unlink"} THEN req[q].sees ELSE {}

HoldsInserted(q, key) ==
    IF req[q].key = key /\ req[q].pc = "insert" THEN req[q].got \ req[q].todo ELSE {}

(* The first of a profile's teams in the order of FORMATS. *)
First(teams) == {t \in teams : \A u \in teams : Format[t] <= Format[u]}

(* r's next statement blocks until q's transaction ends. *)
WaitsFor(r, q) ==
    /\ q # r
    /\ \/ req[r].pc = "link" /\ HoldsLink(q, req[r].key)
       \/ req[r].pc = "unlink" /\ link[req[r].key] # Unlinked /\ HoldsLink(q, req[r].key)
       \/ req[r].pc = "teams" /\ \E t \in First(req[r].todo) : HoldsTeam(q, t)
       \/ req[r].pc = "deleting" /\ req[r].sees \cap HoldsDeleted(q, req[r].key) # {}
       \/ /\ req[r].pc = "insert"
          /\ req[r].at \cap (HoldsDeleted(q, req[r].key)
                               \cup HoldsInserted(q, req[r].key)) # {}

Blocked(r) == \E q \in Requests : WaitsFor(r, q)

-----------------------------------------------------------------------------
(* refresh and unlink                                                      *)

(* _fetch_and_store: an answer is saved, an outage leaves all as it is. *)
Fetch(r, u) ==
    /\ Idle(r)
    /\ \E P \in Profiles : Begin(r, "refresh", "link", u, P)
    /\ UNCHANGED Cache

(* Mutant: the link is written last, when the memberships are there. *)
UpsertLinkLate(r) ==
    /\ req[r].pc = "link"
    /\ Goto(r, IF req[r].got = {} THEN "delete" ELSE "teams")
    /\ UNCHANGED Cache

UpsertLink(r) ==
    /\ req[r].pc = "link"
    /\ ~Blocked(r)
    /\ Goto(r, IF req[r].got = {} THEN "delete" ELSE "teams")
    /\ UNCHANGED Cache

UpsertTeam(r) ==
    /\ req[r].pc = "teams"
    /\ ~Blocked(r)
    /\ LET rest == req[r].todo \ First(req[r].todo)
       IN  req' = [req EXCEPT ![r].todo = rest,
                              ![r].pc = IF rest = {} THEN "delete" ELSE "teams"]
    /\ UNCHANGED Cache

Unlink(r, u) ==
    /\ Idle(r)
    /\ Begin(r, "unlink", "delete", u, {})
    /\ UNCHANGED Cache

Rows(r) == IF req[r].op = "roster" THEN roster[req[r].key] ELSE members[req[r].key]

(* The rows r leaves behind, and what its commit means for the others. *)
Replaced(r) == (Rows(r) \ req[r].sees) \cup req[r].got

EndTransaction(r) ==
    req' = [q \in Requests |->
              IF q = r THEN Resting
              ELSE IF req[q].key = req[r].key /\ req[q].pc = "deleting"
              THEN [req[q] EXCEPT !.sees = @ \ req[r].sees]
              ELSE req[q]]

(* r goes on to an INSERT for each of these rows: teams in the order of    *)
(* FORMATS, players in RGL's, which can be any.                            *)
Inserting(r, rows) ==
    \E at \in IF req[r].op = "refresh" \/ rows = {} THEN {First(rows)}
              ELSE {{p} : p \in rows} :
        req' = [req EXCEPT ![r].pc = "insert", ![r].todo = rows, ![r].at = at]

(* save_link commits with its last INSERT. *)
Last(r) == req[r].op = "refresh" /\ req[r].todo = req[r].at

Delete(r) ==
    /\ req[r].pc = "delete"
    /\ req' = [req EXCEPT ![r].pc = "deleting", ![r].sees = Rows(r)]
    /\ UNCHANGED Cache

Deleted(r) ==
    /\ req[r].pc = "deleting"
    /\ ~Blocked(r)
    /\ IF req[r].op = "unlink" THEN Goto(r, "unlink") ELSE Inserting(r, req[r].got)
    /\ UNCHANGED Cache

Duplicates(r) == req[r].at \cap (Rows(r) \ req[r].sees) # {}

(* Mutant: the stamp is committed before the players are written. *)
InsertRowStamped(r) ==
    /\ req[r].pc = "insert" /\ req[r].at # {} /\ ~Last(r)
    /\ ~Blocked(r)
    /\ ~Duplicates(r)
    /\ Inserting(r, req[r].todo \ req[r].at)
    /\ meta' = IF req[r].op = "roster"
               THEN [meta EXCEPT ![req[r].key] = [age |-> "fresh", players |-> req[r].got]]
               ELSE meta
    /\ UNCHANGED <<link, members, roster>>

InsertRow(r) ==
    /\ req[r].pc = "insert" /\ req[r].at # {} /\ ~Last(r)
    /\ ~Blocked(r)
    /\ ~Duplicates(r)
    /\ Inserting(r, req[r].todo \ req[r].at)
    /\ UNCHANGED Cache

(* Mutant: the exception is caught and the transaction left open. *)
UniqueViolationCaught(r) ==
    /\ req[r].pc = "insert"
    /\ ~Blocked(r)
    /\ Duplicates(r)
    /\ UNCHANGED vars

(* The primary key refuses a row another transaction has inserted since    *)
(* the DELETE began: an exception, and all of r's transaction is undone.   *)
UniqueViolation(r) ==
    /\ req[r].pc = "insert"
    /\ ~Blocked(r)
    /\ Duplicates(r)
    /\ Rest(r)
    /\ UNCHANGED Cache

SaveMemberships(r) ==
    /\ req[r].pc = "insert" /\ Last(r)
    /\ ~Blocked(r)
    /\ ~Duplicates(r)
    /\ link' = [link EXCEPT ![req[r].key] = req[r].got]
    /\ members' = [members EXCEPT ![req[r].key] = Replaced(r)]
    /\ EndTransaction(r)
    /\ UNCHANGED <<roster, meta>>

DeleteLink(r) ==
    /\ req[r].pc = "unlink"
    /\ ~Blocked(r)
    /\ link' = [link EXCEPT ![req[r].key] = Unlinked]
    /\ members' = [members EXCEPT ![req[r].key] = Replaced(r)]
    /\ EndTransaction(r)
    /\ UNCHANGED <<roster, meta>>

-----------------------------------------------------------------------------
(* roster                                                                  *)

(* ensure_roster: with no fresh stamp, and an answer from RGL. *)
ViewScrim(r, t) ==
    /\ Idle(r)
    /\ meta[t].age # "fresh"
    /\ \E P \in SUBSET Players : Begin(r, "roster", "delete", t, P)
    /\ UNCHANGED Cache

StampRoster(r) ==
    /\ req[r].op = "roster" /\ req[r].pc = "insert" /\ req[r].at = {}
    /\ roster' = [roster EXCEPT ![req[r].key] = Replaced(r)]
    /\ meta' = [meta EXCEPT ![req[r].key] = [age |-> "fresh", players |-> req[r].got]]
    /\ EndTransaction(r)
    /\ UNCHANGED <<link, members>>

-----------------------------------------------------------------------------
(* PostgreSQL ends a cycle of waits by aborting one of its transactions.   *)
Deadlocked(r) ==
    \E C \in SUBSET {q \in Requests : Blocked(q)} :
        /\ r \in C
        /\ \E f \in Bijection(C, C) : \A q \in C : WaitsFor(q, f[q])

DeadlockVictim(r) ==
    /\ Deadlocked(r)
    /\ Rest(r)
    /\ UNCHANGED Cache

(* The process or its connection is lost, and with it the transaction. *)
Lose(r) ==
    /\ ~Idle(r)
    /\ Rest(r)
    /\ UNCHANGED Cache

(* RGL_ROSTER_TTL_SECONDS pass. *)
Expire(t) ==
    /\ meta[t].age = "fresh"
    /\ meta' = [meta EXCEPT ![t].age = "stale"]
    /\ UNCHANGED <<link, members, roster, req>>

Statement(r) ==
    \/ UpsertLink(r) \/ UpsertTeam(r) \/ Delete(r) \/ Deleted(r)
    \/ InsertRow(r) \/ UniqueViolation(r)
    \/ SaveMemberships(r) \/ DeleteLink(r) \/ StampRoster(r)
    \/ DeadlockVictim(r)

Next ==
    \/ \E t \in Hosts : Expire(t)
    \/ \E r \in Requests :
          \/ \E u \in Users : Fetch(r, u) \/ Unlink(r, u)
          \/ \E t \in Hosts : ViewScrim(r, t)
          \/ Statement(r)
          \/ Lose(r)

Spec == Init /\ [][Next]_vars

(* PostgreSQL grants a row lock to its waiters in turn, and its detector   *)
(* breaks deadlocks: a statement that can run again and again is run.      *)
FairSpec == Spec /\ \A r \in Requests : SF_vars(Statement(r))

-----------------------------------------------------------------------------
TypeOK ==
    /\ link \in [Users -> Profiles \cup {Unlinked}]
    /\ members \in [Users -> SUBSET Teams]
    /\ roster \in [Hosts -> SUBSET Players]
    /\ meta \in [Hosts -> [age : Ages, players : SUBSET Players]]
    /\ \A r \in Requests :
          \/ req[r] = Resting
          \/ /\ req[r].op \in {"refresh", "unlink"}
             /\ req[r].key \in Users
             /\ req[r].got \cup req[r].todo \cup req[r].at \cup req[r].sees
                   \subseteq Teams
          \/ /\ req[r].op = "roster"
             /\ req[r].key \in Hosts
             /\ req[r].got \cup req[r].todo \cup req[r].at \cup req[r].sees
                   \subseteq Players

(* The memberships of a linked user are those of one fetched profile, the  *)
(* one the link was saved from: refreshes and unlinks that overlap never   *)
(* leave a mixture of two.                                                 *)
LinkIsOneProfile ==
    \A u \in Users : link[u] # Unlinked => members[u] = link[u]

(* A user who has unlinked acts for no team.  Holds of requests one after  *)
(* the other; an unlink that overlaps a refresh refutes it.                *)
NoAuthorityUnlinked ==
    \A u \in Users : link[u] = Unlinked => members[u] = {}

(* Everyone on the fetched list a stamp stands for is on the cached        *)
(* roster, whatever other request replaced or is replacing it.             *)
StampedRosterIsThere ==
    \A t \in Hosts : meta[t].players \subseteq roster[t]

(* ... and nobody else.  Two first fetches with no player in common refute *)
(* it: neither DELETE sees the other's rows.                               *)
RosterIsOneFetch ==
    \A t \in Hosts : meta[t].age # "never" => roster[t] = meta[t].players

(* Every request comes to an end, locks and deadlocks included. *)
EveryRequestEnds == \A r \in Requests : ~Idle(r) ~> Idle(r)

=============================================================================
