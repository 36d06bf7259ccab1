----------------------------- MODULE Attendance -----------------------------
(***************************************************************************)
(* The attendance tracker of a listing (app/attendance.py), beside the     *)
(* handlers that change the scrim and the caches of RGL that change under  *)
(* it.  set_status reads the scrim and the membership, checks its guards,  *)
(* and upserts the mark in a later statement; a form may be sent off a     *)
(* page that was rendered long ago.                                        *)
(*                                                                         *)
(* Only the players of one team of each format are followed: Home is the   *)
(* team a player is on, if on any.  Memberships (what an account may do)   *)
(* and rosters (who is listed) are two caches, filled at different times.  *)
(***************************************************************************)
EXTENDS Scrims

CONSTANTS
    Players,        \* players RGL may list
    Users,          \* those of them with an account here
    Home,           \* the team each may be on
    Nobody          \* the creator of a scrim that none of Users created

ASSUME AttendanceAssumption ==
    /\ Users \subseteq Players
    /\ Home \in [Players -> Teams]
    /\ Nobody \notin Players

VARIABLES
    creator,        \* scrims.created_by
    members,        \* users with a row in rgl_memberships for their team
    roster,         \* players with a row in rgl_rosters for their team
    marks,          \* scrim_attendance: marks[s][p]
    forms           \* forms[s]: the forms some page of s was rendered with

trackerVars == <<creator, members, roster, marks, forms>>
attendanceVars == <<scrimVars, trackerVars>>

(* STATUSES, less "unconfirmed", which is written like the others. *)
Statuses == {"attending", "not_attending"}

(* A row's player_name is the one RGL lists, or the bare SteamID. *)
Mark(status, named) == [status |-> status, named |-> named]

Unmarked == Mark("none", FALSE)

IsMember(u, t) == u \in members /\ Home[u] = t

InitAttendance ==
    /\ Init
    /\ creator = [s \in Scrims |-> Nobody]
    /\ members \in SUBSET Users
    /\ roster \in SUBSET Players
    /\ marks = [s \in Scrims |-> [p \in Players |-> Unmarked]]
    /\ forms = [s \in Scrims |-> {}]

-----------------------------------------------------------------------------
(* The page                                                                *)

(* roster_with_attendance: the roster, and who is marked but has left. *)
Entries(s) ==
    {p \in Players :
        \/ p \in roster /\ Home[p] = scrims[s].proposer
        \/ marks[s][p] # Unmarked}

(* Mutant: read-only only once the scrim has begun, not when it begins. *)
LockedLate(s) ==
    scrims[s].at < now \/ scrims[s].status \in {"cancelled", "declined"}

(* is_locked *)
Locked(s) ==
    scrims[s].at <= now \/ scrims[s].status \in {"cancelled", "declined"}

(* Whether the entry of p shows a name, which its form will carry. *)
Named(s, p) ==
    \/ p \in roster /\ Home[p] = scrims[s].proposer
    \/ marks[s][p].named

Form(p, named) == [player |-> p, named |-> named]

(* The players u's page of scrim s has a form for: can_mark_all, or u. *)
MarkForms(u, s) ==
    {p \in Entries(s) :
        /\ IsMember(u, scrims[s].proposer)
        /\ ~Locked(s)
        /\ p = u \/ u = creator[s]}

ViewTracker(u, s) ==
    /\ scrims[s] # NoScrim
    /\ forms' = [forms EXCEPT ![s] =
          @ \cup {Form(p, Named(s, p)) : p \in MarkForms(u, s)}]
    /\ UNCHANGED <<scrimVars, creator, members, roster, marks>>

-----------------------------------------------------------------------------
(* set_status                                                              *)

(* Mutant: only the scrim's status is looked at. *)
MayMarkAnyTime(u, s, p) ==
    /\ scrims[s].origin = "listing"
    /\ scrims[s].status \notin {"cancelled", "declined"}
    /\ IsMember(u, scrims[s].proposer)
    /\ u = creator[s] \/ p = u

MayMark(u, s, p) ==
    /\ scrims[s].origin = "listing"
    /\ scrims[s].status \notin {"cancelled", "declined"}
    /\ scrims[s].at > now
    /\ IsMember(u, scrims[s].proposer)
    /\ u = creator[s] \/ p = u

CheckMark(w, u, s, form, status) ==
    /\ Free(w)
    /\ MayMark(u, s, form.player)
    /\ worker' = [worker EXCEPT ![w] =
          [pc |-> "upsert", op |-> "mark", scrim |-> s, form |-> form,
           status |-> status]]
    /\ UNCHANGED <<now, scrims, trackerVars>>

(* Mutant: the name comes of the roster as it now is, not of the form. *)
UpsertResolving(w) ==
    /\ worker[w].pc = "upsert"
    /\ LET s == worker[w].scrim
           p == worker[w].form.player
       IN  marks' = [marks EXCEPT ![s][p] = Mark(worker[w].status, Named(s, p))]
    /\ Rest(w)
    /\ UNCHANGED <<now, scrims, creator, members, roster, forms>>

(* INSERT with the name the form carries ... ON CONFLICT DO UPDATE, which  *)
(* leaves the name the row has.                                            *)
Upsert(w) ==
    /\ worker[w].pc = "upsert"
    /\ LET s == worker[w].scrim
           form == worker[w].form
           old == marks[s][form.player]
       IN  marks' = [marks EXCEPT ![s][form.player] =
              Mark(worker[w].status, IF old = Unmarked THEN form.named ELSE old.named)]
    /\ Rest(w)
    /\ UNCHANGED <<now, scrims, creator, members, roster, forms>>

-----------------------------------------------------------------------------
(* A refresh or an unlink, and a roster fetched anew. *)

Refresh(u) ==
    /\ members' \in {members \cup {u}, members \ {u}}
    /\ UNCHANGED <<scrimVars, creator, roster, marks, forms>>

SaveRoster(p) ==
    /\ roster' \in {roster \cup {p}, roster \ {p}}
    /\ UNCHANGED <<scrimVars, creator, members, marks, forms>>

(* Creating a scrim records who did; no other handler touches the tracker. *)
Schedule ==
    /\ Handlers \/ \E w \in Workers : ServerSide(w)
    /\ \E u \in Users \cup {Nobody} :
          /\ creator' = [s \in Scrims |->
                IF scrims[s] = NoScrim /\ scrims'[s] # NoScrim THEN u ELSE creator[s]]
          /\ \A s \in Scrims :
                creator'[s] # creator[s] => IsMember(u, scrims'[s].proposer)
    /\ UNCHANGED <<members, roster, marks, forms>>

Clock == Tick /\ UNCHANGED trackerVars

NextAttendance ==
    \/ Schedule
    \/ \E u \in Users, s \in Scrims :
          \/ ViewTracker(u, s)
          \/ \E w \in Workers, form \in forms[s], status \in Statuses :
                CheckMark(w, u, s, form, status)
    \/ \E w \in Workers : Upsert(w)
    \/ \E u \in Users : Refresh(u)
    \/ \E p \in Players : SaveRoster(p)
    \/ Clock

(* Time passes; nothing is asked of the requests. *)
SpecAttendance ==
    InitAttendance /\ [][NextAttendance]_attendanceVars /\ WF_attendanceVars(Clock)

-----------------------------------------------------------------------------
(* What was marked when the scrim began is the record of it (FR-017): a    *)
(* request that had passed its checks may still write, but in the end      *)
(* nobody's mark changes any more.                                         *)
MarksSettle ==
    \A s \in Scrims : <>[][marks'[s] = marks[s]]_attendanceVars

(* Who is marked stays renderable after leaving (004 data-model): however  *)
(* the roster was replaced between a page, its form and the write, the row *)
(* has the name the player was listed under.                               *)
MarkedAreNamed ==
    \A s \in Scrims, p \in Players : marks[s][p] # Unmarked => marks[s][p].named

(* The tracker of a listing has a form for exactly the marks its service   *)
(* would take at that moment: the page's lock and set_status' checks, each *)
(* written out for itself, do not drift apart, on the scrim's very minute  *)
(* included.                                                               *)
TrackerMirrorsRules ==
    \A u \in Users, s \in Scrims : scrims[s].origin = "listing" =>
        MarkForms(u, s) = {p \in Entries(s) : MayMark(u, s, p)}

(* The same of every scrim, proposals included: a form is there to be sent.*)
OfferedMarksAreTaken ==
    \A u \in Users, s \in Scrims : \A p \in MarkForms(u, s) : MayMark(u, s, p)

=============================================================================
