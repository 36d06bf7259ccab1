----------------------------- MODULE Directory -----------------------------
(***************************************************************************)
(* The season directory of app/rgl_store.py.  RGL's season endpoint lists  *)
(* team ids only; names and divisions come team by team, so every visit of *)
(* the propose page (routes/scrims.py _opponent_picker) runs ensure_season *)
(* and then hydrates a batch of those still pending, over an API that may  *)
(* fail for any team at any time.  The batch is one transaction: a team's  *)
(* rows stay locked while RGL is asked for the next, and a member's        *)
(* refresh (save_link), which upserts the team's row too, waits.           *)
(***************************************************************************)
EXTENDS Integers, FiniteSets, FiniteSetsExt

CONSTANTS
    Requests,       \* requests served at the same time
    Mortal,         \* those whose worker can die before it has answered
    Teams,          \* ids of teams of the season's format
    Batch           \* RGL_HYDRATE_BATCH

ASSUME DirectoryAssumption ==
    /\ Mortal \subseteq Requests
    /\ Teams \subseteq Nat /\ Batch \in Nat \ {0}

VARIABLES
    mute,           \* RGL's: the teams it will never have an answer for
    season,         \* rgl_seasons: the age of the season's row
    named,          \* whether its format is not NULL: one of rgl.FORMATS
    entry,          \* rgl_season_teams: the participants, and their divisions
    known,          \* rgl_teams: the teams that have a row
    req             \* what each request is doing

vars == <<mute, season, named, entry, known, req>>

Cache == <<mute, season, named, entry, known>>

(* A participant's entry: missing; hydrated_at NULL; stamped with what RGL *)
(* said of the team; or stamped without, RGL having no such team.          *)
Entries == {"absent", "pending", "listed", "dead"}

Settled == {"listed", "dead"}

Resting ==
    [pc |-> "idle", todo |-> {}, found |-> {}, gone |-> {}, named |-> FALSE]

Idle(r) == req[r].pc = "idle"

Goto(r, pc, todo) == req' = [req EXCEPT ![r].pc = pc, ![r].todo = todo]
Rest(r) == req' = [req EXCEPT ![r] = Resting]

Init ==
    /\ mute \in SUBSET Teams
    /\ season = "never"
    /\ named = FALSE
    /\ entry = [t \in Teams |-> "absent"]
    /\ known = {}
    /\ req = [r \in Requests |-> Resting]

(* Row locks on rgl_teams and on rgl_season_teams. *)
TeamLocked(r, t) == \E q \in Requests \ {r} : t \in req[q].found
EntryLocked(r, t) ==
    \E q \in Requests \ {r} :
        req[q].pc # "refresh" /\ t \in req[q].found \cup req[q].gone

-----------------------------------------------------------------------------
(* ensure_season: a fresh row is used as it is, a stale one too if RGL     *)
(* does not answer; with neither, the page goes without a directory.       *)
Visit(r) ==
    /\ Idle(r)
    /\ season # "never"
    /\ Goto(r, "select", {})
    /\ UNCHANGED Cache

(* The answer's format is NULL for a formatName the site does not know. *)
FetchSeason(r) ==
    /\ Idle(r)
    /\ season # "fresh"
    /\ \E P \in SUBSET Teams, n \in BOOLEAN :
          req' = [req EXCEPT ![r] = [Resting EXCEPT !.pc = "season", !.todo = P,
                                                    !.named = n]]
    /\ UNCHANGED Cache

(* Mutant: a participant already recorded is overwritten. *)
SaveSeasonAnew(r) ==
    /\ req[r].pc = "season"
    /\ season' = "fresh"
    /\ named' = req[r].named
    /\ entry' = [t \in Teams |-> IF t \in req[r].todo THEN "pending" ELSE entry[t]]
    /\ Goto(r, "select", {})
    /\ UNCHANGED <<mute, known>>

(* ... ON CONFLICT DO NOTHING.  The season's row is upserted first and     *)
(* lets one such transaction through at a time.                            *)
SaveSeason(r) ==
    /\ req[r].pc = "season"
    /\ season' = "fresh"
    /\ named' = req[r].named
    /\ entry' = [t \in Teams |->
                   IF t \in req[r].todo /\ entry[t] = "absent" THEN "pending"
                   ELSE entry[t]]
    /\ Goto(r, "select", {})
    /\ UNCHANGED <<mute, known>>

Pending == {t \in Teams : entry[t] = "pending"}

(* ORDER BY rgl_team_id LIMIT batch *)
NextBatch == {t \in Pending : Cardinality({u \in Pending : u < t}) < Batch}

(* The batch writes the format as the season's row has it now, ... *)
ReadFormat(r) ==
    /\ req[r].pc = "select"
    /\ req' = [req EXCEPT ![r].pc = "pending", ![r].named = named]
    /\ UNCHANGED Cache

Select(r) ==
    /\ req[r].pc = "pending"
    /\ Goto(r, "hydrate", NextBatch)
    /\ UNCHANGED Cache

(* RGL is asked about the next team of the batch; if it does not answer    *)
(* the batch ends with what it has, whichever team that was.               *)
Unavailable(r) ==
    /\ req[r].pc = "hydrate" /\ req[r].todo # {}
    /\ Goto(r, "hydrate", {})
    /\ UNCHANGED Cache

Answer(r) ==
    /\ req[r].pc = "hydrate" /\ req[r].todo # {}
    /\ Min(req[r].todo) \notin mute
    /\ \E outcome \in {"ok", "no_team"} : Goto(r, outcome, req[r].todo)
    /\ UNCHANGED Cache

(* Its row in rgl_teams is upserted and its entry stamped, after whoever   *)
(* has them locked.  The two statements are one step: whoever has only the *)
(* entry goes on to teams of higher ids, so nobody waits in a circle.      *)
TeamFound(r) ==
    /\ req[r].pc = "ok"
    /\ req[r].named
    /\ LET t == Min(req[r].todo)
       IN  /\ ~TeamLocked(r, t) /\ ~EntryLocked(r, t)
           /\ req' = [req EXCEPT ![r].pc = "hydrate", ![r].todo = @ \ {t},
                                 ![r].found = @ \cup {t}]
    /\ UNCHANGED Cache

(* ... and rgl_teams takes no NULL: the request fails, and the batch with it. *)
TeamUnnamed(r) ==
    /\ req[r].pc = "ok"
    /\ ~req[r].named
    /\ Rest(r)
    /\ UNCHANGED Cache

(* Mutant: a team RGL does not know is left as it is. *)
TeamGoneUnstamped(r) ==
    /\ req[r].pc = "no_team"
    /\ Goto(r, "hydrate", req[r].todo \ {Min(req[r].todo)})
    /\ UNCHANGED Cache

TeamGone(r) ==
    /\ req[r].pc = "no_team"
    /\ LET t == Min(req[r].todo)
       IN  /\ ~EntryLocked(r, t)
           /\ req' = [req EXCEPT ![r].pc = "hydrate", ![r].todo = @ \ {t},
                                 ![r].gone = @ \cup {t}]
    /\ UNCHANGED Cache

SaveTeams(r) ==
    /\ req[r].pc = "hydrate" /\ req[r].todo = {}
    /\ known' = known \cup req[r].found
    /\ entry' = [t \in Teams |->
                   IF t \in req[r].found THEN "listed"
                   ELSE IF t \in req[r].gone THEN "dead" ELSE entry[t]]
    /\ Rest(r)
    /\ UNCHANGED <<mute, season, named>>

-----------------------------------------------------------------------------
(* save_link upserts a member's team, and holds its row to its commit. *)
Refresh(r, t) ==
    /\ Idle(r)
    /\ ~TeamLocked(r, t)
    /\ req' = [req EXCEPT ![r] = [Resting EXCEPT !.pc = "refresh", !.found = {t}]]
    /\ UNCHANGED Cache

SaveLink(r) ==
    /\ req[r].pc = "refresh"
    /\ known' = known \cup req[r].found
    /\ Rest(r)
    /\ UNCHANGED <<mute, season, named, entry>>

(* The process or its connection is lost, and with it the transaction. *)
Lose(r) ==
    /\ r \in Mortal
    /\ ~Idle(r)
    /\ Rest(r)
    /\ UNCHANGED Cache

(* RGL_DIRECTORY_TTL_SECONDS pass. *)
Expire ==
    /\ season = "fresh"
    /\ season' = "stale"
    /\ UNCHANGED <<mute, named, entry, known, req>>

Write(r) == TeamFound(r) \/ TeamGone(r)

Statement(r) ==
    \/ SaveSeason(r) \/ ReadFormat(r) \/ Select(r) \/ Unavailable(r) \/ Answer(r)
    \/ Write(r) \/ TeamUnnamed(r) \/ SaveTeams(r) \/ SaveLink(r)

Next ==
    \/ Expire
    \/ \E r \in Requests :
          \/ Visit(r) \/ FetchSeason(r) \/ Statement(r) \/ Lose(r)
          \/ \E t \in Teams : Refresh(r, t)

Spec == Init /\ [][Next]_vars

(* Statements that can run are run.  Members go on visiting the page, and  *)
(* not every worker dies; of a team that is not mute RGL does not fail to  *)
(* answer for ever, and PostgreSQL grants a lock to its waiters in turn.   *)
FairSpec ==
    /\ Spec
    /\ \A r \in Requests : WF_vars(Statement(r))
    /\ \A r \in Requests \ Mortal :
          SF_vars(Visit(r)) /\ SF_vars(Answer(r)) /\ SF_vars(Write(r))

-----------------------------------------------------------------------------
TypeOK ==
    /\ season \in {"never", "fresh", "stale"}
    /\ named \in BOOLEAN
    /\ mute \in SUBSET Teams
    /\ entry \in [Teams -> Entries]
    /\ known \in SUBSET Teams
    /\ req \in [Requests -> [pc : {"idle", "season", "select", "pending", "hydrate",
                                   "ok", "no_team", "refresh"},
                             todo : SUBSET Teams, found : SUBSET Teams,
                             gone : SUBSET Teams, named : BOOLEAN]]

(* What is settled is never pending again, however late a season's refresh *)
(* commits what it fetched.                                                *)
NeverPendingAgain ==
    [][\A t \in Teams : entry[t] \in Settled => entry'[t] \in Settled]_vars

(* Once the season's format is one the site knows, every recorded          *)
(* participant is settled at last, whatever dead teams and passing outages *)
(* there are ahead of it.  Only a team RGL never answers for keeps those   *)
(* of higher ids waiting, as every batch breaks at it; and while the       *)
(* format is NULL, every batch with a team RGL knows is rolled back.       *)
DirectoryFills ==
    <>[]named =>
      \A t \in Teams :
         entry[t] = "pending" ~>
            \/ entry[t] \in Settled
            \/ \E m \in mute : m <= t /\ entry[m] = "pending"

=============================================================================
