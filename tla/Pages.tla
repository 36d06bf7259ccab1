------------------------------- MODULE Pages -------------------------------
(***************************************************************************)
(* What the pages show and offer, against what the routes behind them      *)
(* accept: routes/scrims.py (index, detail), routes/dashboard.py,          *)
(* routes/servers.py, routes/console.py, the queries of app/scrims.py and  *)
(* the access rules of app/servers_store.py.  Each list, flag and guard is *)
(* written out for itself, as it is in the code.                           *)
(*                                                                         *)
(* It refines who acts in ScrimServers: a request is a user's, and what    *)
(* the user may do depends on the team RGL last said the user is on.       *)
(* Requests are served one at a time, so that what a page offers is still  *)
(* so when the form is sent.  Users have one account each; one who is on   *)
(* another team than at first does everything there but schedule, claim    *)
(* and attach, which might spend a credit.                                 *)
(***************************************************************************)
EXTENDS ScrimServers

CONSTANTS
    Users,          \* signed-in users
    Account         \* Account[u]: the team u is on at first, whose name the
                    \* account of u has in ScrimServers

ASSUME PagesAssumption ==
    /\ Account \in [Users -> Teams]
    /\ \A u, v \in Users : Account[u] = Account[v] => u = v
    /\ ~Concurrent

VARIABLE team       \* rgl_memberships: the team of each user, or NoTeam

pageVars == <<allVars, team>>

Linked(u) == team[u] # NoTeam                           \* rgl_link_required

IsMember(u, t) == t # NoTeam /\ team[u] = t

IsOwn(u, s) == IsMember(u, scrims[s].proposer)
IsOpponent(u, s) == IsMember(u, scrims[s].opponent)
OnSide(u, s) == IsOwn(u, s) \/ IsOpponent(u, s)

Future(s) == scrims[s].at > now

(* Mutant: only who proposed it may look at a scrim that is not listed. *)
VisibleToOwn(u, s) ==
    /\ scrims[s] # NoScrim /\ Linked(u)
    /\ \/ scrims[s].origin = "listing" /\ scrims[s].status = "open" /\ Future(s)
       \/ IsOwn(u, s)

(* get_scrim_for_viewer, for a linked user. *)
Visible(u, s) ==
    /\ scrims[s] # NoScrim /\ Linked(u)
    /\ \/ scrims[s].origin = "listing" /\ scrims[s].status = "open" /\ Future(s)
       \/ OnSide(u, s)

-----------------------------------------------------------------------------
(* Who may see, and who may run, a server                                  *)

Owns(u, s) == servers[s].owner = Account[u]

(* Mutant: who is bound to the server, but not the other side. *)
CanAccessBound(u, s) ==
    /\ servers[s] # NoServer
    /\ Owns(u, s) \/ IsMember(u, servers[s].owner)

(* can_access, by get_accessible_server.  The server is bound to the team  *)
(* its buyer was on.                                                       *)
CanAccess(u, s) ==
    /\ servers[s] # NoServer
    /\ Owns(u, s) \/ IsMember(u, servers[s].owner) \/ OnSide(u, s)

(* accessible_servers *)
AccessibleServers(u) ==
    {s \in Scrims :
        /\ servers[s] # NoServer
        /\ \/ Owns(u, s)
           \/ \E t \in {servers[s].owner, scrims[s].proposer, scrims[s].opponent} :
                 IsMember(u, t)}

(* can_manage: who RGL's roster last named as a leader, wherever that user *)
(* is by now; the owner while no leader is known.                          *)
CanManage(u, s) ==
    IF scrims[s].proposer \in Led THEN Account[u] = scrims[s].proposer ELSE Owns(u, s)

IsLive(s) == servers[s].state \in {"running", "in_grace"}

Balance(u) == Available(Account[u])

-----------------------------------------------------------------------------
(* The lists                                                               *)

With(status) == {s \in Scrims : scrims[s].status = status}

IncomingPending(u) == {s \in With("pending") : IsOpponent(u, s)}
OutgoingPending(u) == {s \in With("pending") : IsOwn(u, s)}
UpcomingConfirmed(u) == {s \in With("confirmed") : OnSide(u, s) /\ scrims[s].at >= now}
MyOpenListings(u) == {s \in With("open") : IsOwn(u, s) /\ Future(s)}

(* Mutant: a listing nobody claimed stays on the list. *)
OpenListingsEver == With("open")

OpenListings == {s \in With("open") : Future(s)}

ScrimsWithoutServers(u) ==
    {s \in Scrims :
        /\ OnSide(u, s)
        /\ servers[s] = NoServer
        /\ scrims[s].status \in {"confirmed", "open", "pending"}
        /\ Future(s)}

(* The subquery every list and page says "Server reserved" by. *)
HasServer(s) == servers[s].state \notin {"none", "cancelled"}

(* The Servers page lists nothing to a user who is on no team. *)
ListedServers(u) == IF Linked(u) THEN AccessibleServers(u) ELSE {}

(* What u's pages link to the page of: the lists of the dashboard, of      *)
(* /scrims and of /servers (proposals are listed without a link), and      *)
(* "this scrim" on a server's own page.                                    *)
ScrimLinks(u) ==
    {s \in Scrims :
        \/ Linked(u) /\ s \in UpcomingConfirmed(u) \cup MyOpenListings(u)
                                 \cup OpenListings \cup ScrimsWithoutServers(u)
        \/ CanAccess(u, s)}

(* The list of /servers, and the server's name on its scrim's page. *)
ServerLinks(u) ==
    ListedServers(u) \cup {s \in Scrims : Visible(u, s) /\ servers[s] # NoServer}

-----------------------------------------------------------------------------
(* The buttons                                                             *)

Lifecycle == Ending \cup {"accept", "claim"}

(* scrim_detail.html *)
OnDetail(u, op, s) ==
    /\ Visible(u, s)
    /\ \/ op \in {"accept", "decline"} /\ scrims[s].status = "pending" /\ IsOpponent(u, s)
       \/ op = "withdraw" /\ scrims[s].status = "pending" /\ IsOwn(u, s)
       \/ op = "cancel" /\ scrims[s].status = "confirmed" /\ OnSide(u, s)
       \/ /\ op = "cancel_listing" /\ IsOwn(u, s)
          /\ scrims[s].origin = "listing" /\ scrims[s].status = "open"
       \/ op = "claim" /\ ~IsOwn(u, s) /\ scrims[s].status = "open" /\ Future(s)
       \/ /\ op = "attach" /\ servers[s] = NoServer /\ OnSide(u, s)
          /\ scrims[s].status \in {"pending", "confirmed", "open"} /\ Future(s)
          /\ Balance(u) >= 1
       \/ /\ op = "extend" /\ servers[s] # NoServer /\ CanManage(u, s) /\ IsLive(s)
          /\ Balance(u) >= 1

(* scrims.html, dashboard.html and the first part of servers_list.html *)
OnLists(u, op, s) ==
    /\ Linked(u)
    /\ \/ op \in {"accept", "decline"} /\ s \in IncomingPending(u)
       \/ op = "withdraw" /\ s \in OutgoingPending(u)
       \/ op = "cancel" /\ s \in UpcomingConfirmed(u)
       \/ op = "cancel_listing" /\ s \in MyOpenListings(u)
       \/ op = "claim" /\ s \in OpenListings /\ ~IsOwn(u, s)
       \/ op = "attach" /\ s \in ScrimsWithoutServers(u) /\ Balance(u) >= 1

(* server_detail.html *)
OnServer(u, op, s) ==
    /\ CanAccess(u, s) /\ CanManage(u, s)
    /\ \/ op = "extend" /\ IsLive(s) /\ Balance(u) >= 1
       \/ op = "settings"

(* What the route does with it: TRUE if it does what the button says. *)
Accepted(u, op, s) ==
    \/ /\ op \in Lifecycle /\ Linked(u) /\ May(op, team[u], scrims[s])
       /\ op = "claim" => scrims[s].status = "open" /\ scrims[s].at > now
    \/ /\ op = "attach" /\ Visible(u, s) /\ MayAttach(team[u], s)
       /\ Balance(u) >= 1
    \/ /\ op = "extend" /\ CanAccess(u, s) /\ CanManage(u, s) /\ IsLive(s)
       /\ Balance(u) >= 1
    \/ op = "settings" /\ CanAccess(u, s) /\ CanManage(u, s)

Operations == Lifecycle \cup {"attach", "extend", "settings"}

-----------------------------------------------------------------------------
(* Requests, each a user's                                                 *)

AtHome(u) == team[u] = Account[u]

AskPage(w, u) ==
    \/ AtHome(u) /\ Ask(w, team[u]) /\ UNCHANGED serverVars
    \/ \E s \in Scrims :
          \/ \E op \in Lifecycle \ {"claim"} :
                Linked(u) /\ Check(w, op, team[u], s) /\ UNCHANGED serverVars
          \/ AtHome(u) /\ CheckAttach(w, team[u], s)
          \/ CanAccess(u, s) /\ CheckExtend(w, Account[u], s)

(* save_link or unlink. *)
Refresh(u) ==
    /\ AllIdle /\ rec = Asleep
    /\ team' \in {[team EXCEPT ![u] = t] : t \in Teams \cup {NoTeam}}
    /\ UNCHANGED allVars

PageRequest ==
    \E w \in Workers :
        \/ GoOn(w) /\ UNCHANGED serverVars
        \/ GoOnServers(w)
        \/ \E u \in Users : AskPage(w, u)

NextPages ==
    \/ rec = Asleep /\ PageRequest /\ UNCHANGED team
    \/ (Reconcile \/ Clock) /\ UNCHANGED team
    \/ \E u \in Users : Refresh(u)

SpecPages == InitServers /\ team = Account /\ [][NextPages]_pageVars

-----------------------------------------------------------------------------
(* What a user sees while no request is under way.                         *)

(* A button that renders always succeeds (scrim_detail.html; FR-065 of     *)
(* 005), whichever page it is on and whatever has become of the user's     *)
(* team, the scrim, its server and the balance.                            *)
ButtonsWork ==
    AllIdle => \A u \in Users, s \in Scrims, op \in Operations :
        OnDetail(u, op, s) \/ OnLists(u, op, s) \/ OnServer(u, op, s) => Accepted(u, op, s)

(* A scrim has to be actionable from its own page (routes/scrims.py): what *)
(* the service would do for a user, a page the user can open offers.       *)
(* Attaching is left out: its route takes scrims that are over.            *)
ActionableFromItsPage ==
    AllIdle => \A u \in Users, s \in Scrims, op \in Operations \ {"attach"} :
        Accepted(u, op, s) => OnDetail(u, op, s) \/ OnServer(u, op, s)

(* A link leads to a page that opens, whatever lists it is on and whatever *)
(* has become of teams, scrims and servers, with two exceptions: a buyer   *)
(* who has left both sides keeps the server's page, and not the scrim it   *)
(* names; and the page of a listing names its server to those who may      *)
(* still claim it, and cannot see it yet.  And whoever may open a server   *)
(* finds it on the Servers page, but for a buyer who is on no team.        *)
DeadLinksAreKnown ==
    AllIdle => \A u \in Users, s \in Scrims :
        /\ s \in ScrimLinks(u) => Visible(u, s) \/ (Owns(u, s) /\ ~OnSide(u, s))
        /\ s \in ServerLinks(u) =>
              CanAccess(u, s) \/ (s \in OpenListings /\ ~OnSide(u, s))
        /\ CanAccess(u, s) => s \in ListedServers(u) \/ (Owns(u, s) /\ ~Linked(u))

(* A scrim that is still to be played and does not say "Server reserved"   *)
(* is among its players' scrims with no server, and can be given one:      *)
(* cancelled servers, which the two lists treat differently and of which   *)
(* the unique index keeps a scrim's first, are only left by scrims that    *)
(* are over.                                                               *)
UnservedCanBeServed ==
    AllIdle => \A u \in Users, s \in Scrims :
        /\ OnSide(u, s) /\ Future(s) /\ ~HasServer(s)
        /\ scrims[s].status \in {"pending", "open", "confirmed"}
        => s \in ScrimsWithoutServers(u) /\ MayAttach(team[u], s)

=============================================================================
