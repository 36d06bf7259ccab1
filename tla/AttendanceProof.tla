-------------------------- MODULE AttendanceProof --------------------------
(***************************************************************************)
(* Proofs about Attendance and the scrim handlers it runs beside, for any  *)
(* number of workers, teams, scrims and players.  Two arguments.  A claim  *)
(* is the only handler that touches listings which nobody has claimed: a   *)
(* worker about to accept, decline or withdraw found a pending row, only   *)
(* proposals are ever pending, and no row changes its origin.  And a form  *)
(* carries a name: it was rendered for a player on the roster, or for one  *)
(* whose mark had a name already.                                          *)
(***************************************************************************)
EXTENDS Attendance, TLAPS

-----------------------------------------------------------------------------
(* The inductive invariant                                                 *)

NamedForms == [player : Players, named : {TRUE}]

WorkerStates ==
    {Resting}
    \cup [pc : {"set_status"}, op : Ending \cup {"accept"}, team : Teams, scrim : Scrims]
    \cup [pc : {"claim"}, op : {"claim"}, team : Teams, scrim : Scrims]
    \cup [pc : {"attach", "release"}, op : {"attach", "release"},
          team : Teams \cup {NoTeam}, scrim : Scrims]
    \cup [pc : {"upsert"}, op : {"mark"}, scrim : Scrims, form : NamedForms,
          status : Statuses]

(* Only listings are open, and nobody has those; only proposals wait. *)
OpenIsUnclaimed ==
    \A s \in Scrims :
        /\ scrims[s].status = "open" =>
              scrims[s].origin = "listing" /\ scrims[s].opponent = NoTeam
        /\ scrims[s].status = "pending" => scrims[s].origin = "proposal"

(* Who is about to write a status has read a row that allows it. *)
ReadBeforeWriting ==
    \A w \in Workers : worker[w].pc = "set_status" =>
        /\ scrims[worker[w].scrim] \in Rows
        /\ worker[w].op \in {"accept", "decline", "withdraw"} =>
              scrims[worker[w].scrim].origin = "proposal"

ScrimTypes ==
    /\ now \in Nat
    /\ scrims \in [Scrims -> Rows \cup {NoScrim}]
    /\ worker \in [Workers -> WorkerStates]

TrackerTypes ==
    /\ marks \in [Scrims -> [Players ->
          [status : Statuses \cup {"none"}, named : BOOLEAN]]]
    /\ forms \in [Scrims -> SUBSET NamedForms]

IInv ==
    /\ ScrimTypes
    /\ OpenIsUnclaimed
    /\ ReadBeforeWriting
    /\ TrackerTypes
    /\ MarkedAreNamed

-----------------------------------------------------------------------------
(* The handlers of scrims                                                  *)

LEMMA InitIInv == InitAttendance => IInv
  <1> SUFFICES ASSUME InitAttendance PROVE IInv
    OBVIOUS
  <1>1. ScrimTypes /\ OpenIsUnclaimed /\ ReadBeforeWriting
    BY DEF InitAttendance, Init, ScrimTypes, OpenIsUnclaimed, ReadBeforeWriting,
           NoScrim, Resting, WorkerStates
  <1>2. TrackerTypes /\ MarkedAreNamed
    BY DEF InitAttendance, TrackerTypes, MarkedAreNamed, Unmarked, Mark
  <1> QED BY <1>1, <1>2 DEF IInv

(* A new scrim is a proposal that waits or a listing nobody has. *)
LEMMA CreateKeeps ==
  ASSUME ScrimTypes, OpenIsUnclaimed, ReadBeforeWriting,
         NEW w \in Workers, NEW t \in Teams, NEW s \in Scrims, NEW row \in Rows,
         Create(w, t, s, row),
         row.status = "open" => row.origin = "listing" /\ row.opponent = NoTeam,
         row.status = "pending" => row.origin = "proposal"
  PROVE  ScrimTypes' /\ OpenIsUnclaimed' /\ ReadBeforeWriting'
  <1>1. /\ now' = now
        /\ scrims[s] = NoScrim
        /\ scrims' = [scrims EXCEPT ![s] = row]
        /\ \/ worker' = worker
           \/ worker' = [worker EXCEPT ![w] =
                 [pc |-> "attach", op |-> "attach", team |-> t, scrim |-> s]]
    BY DEF Create, Busy
  <1>2. NoScrim \notin Rows
    BY DEF NoScrim, Rows
  <1>3. worker' \in [Workers -> WorkerStates]
    BY <1>1 DEF ScrimTypes, WorkerStates
  <1>4. ScrimTypes' /\ OpenIsUnclaimed'
    BY <1>1, <1>3 DEF ScrimTypes, OpenIsUnclaimed
  <1>5. ASSUME NEW v \in Workers, worker'[v].pc = "set_status"
        PROVE  /\ worker'[v] = worker[v] /\ worker[v].scrim \in Scrims
               /\ worker[v].scrim # s
    <2>1. worker'[v] = worker[v] /\ worker[v] \in WorkerStates
      BY <1>1, <1>5 DEF ScrimTypes
    <2>2. worker[v].scrim \in Scrims
      BY <1>5, <2>1 DEF WorkerStates, Resting
    <2> QED BY <1>1, <1>2, <1>5, <2>1, <2>2 DEF ReadBeforeWriting
  <1>6. ReadBeforeWriting'
    BY <1>1, <1>5 DEF ReadBeforeWriting, ScrimTypes
  <1> QED BY <1>4, <1>6

(* The status a worker has read may go stale, the origin does not. *)
LEMMA CheckKeeps ==
  ASSUME ScrimTypes, OpenIsUnclaimed, ReadBeforeWriting,
         NEW w \in Workers, NEW t \in Teams, NEW s \in Scrims,
         NEW op \in Ending \cup {"accept", "claim"}, Check(w, op, t, s)
  PROVE  ScrimTypes' /\ OpenIsUnclaimed' /\ ReadBeforeWriting'
  <1> DEFINE busy ==
        [pc |-> IF op = "claim" THEN "claim" ELSE "set_status",
         op |-> op, team |-> t, scrim |-> s]
  <1>1. /\ now' = now /\ scrims' = scrims
        /\ worker' = [worker EXCEPT ![w] = busy]
        /\ May(op, t, scrims[s])
    BY DEF Check, Busy
  <1>2. busy \in WorkerStates
    BY DEF WorkerStates
  <1>3. ScrimTypes' /\ OpenIsUnclaimed'
    BY <1>1, <1>2 DEF ScrimTypes, OpenIsUnclaimed
  <1>4. scrims[s] \in Rows \cup {NoScrim}
    BY DEF ScrimTypes
  <1>5. op # "claim" => scrims[s].status # "none"
    BY <1>1 DEF May, MayAccept, MayDecline, MayWithdraw, MayCancel, MayCancelListing
  <1>6. op \in {"accept", "decline", "withdraw"} => scrims[s].status = "pending"
    BY <1>1 DEF May, MayAccept, MayDecline, MayWithdraw
  <1>7. op # "claim" => scrims[s] \in Rows
    BY <1>4, <1>5 DEF NoScrim
  <1>8. op \in {"accept", "decline", "withdraw"} => scrims[s].origin = "proposal"
    BY <1>6 DEF OpenIsUnclaimed
  <1>9. ReadBeforeWriting'
    <2> SUFFICES ASSUME NEW v \in Workers, worker'[v].pc = "set_status"
                 PROVE  /\ scrims'[worker'[v].scrim] \in Rows
                        /\ worker'[v].op \in {"accept", "decline", "withdraw"} =>
                              scrims'[worker'[v].scrim].origin = "proposal"
      BY <1>1 DEF ReadBeforeWriting, Rows
    <2>1. CASE v = w
      <3>1. worker'[v] = busy /\ op # "claim"
        BY <1>1, <2>1 DEF ScrimTypes
      <3> QED BY <1>1, <1>7, <1>8, <3>1
    <2>2. CASE v # w
      BY <1>1, <2>2 DEF ReadBeforeWriting, ScrimTypes
    <2> QED BY <2>1, <2>2
  <1> QED BY <1>3, <1>9

(* A status is only written by who has read one, and never "open". *)
LEMMA SetStatusKeeps ==
  ASSUME ScrimTypes, OpenIsUnclaimed, ReadBeforeWriting,
         NEW w \in Workers, SetStatus(w)
  PROVE  ScrimTypes' /\ OpenIsUnclaimed' /\ ReadBeforeWriting'
  <1> DEFINE s == worker[w].scrim
             new == NewStatus[worker[w].op]
  <1>1. /\ now' = now /\ worker[w].pc = "set_status"
        /\ scrims' = [scrims EXCEPT ![s].status = new]
        /\ worker' \in {[worker EXCEPT ![w] = Resting],
                        [worker EXCEPT ![w] = [pc |-> "release", op |-> "release",
                                               team |-> NoTeam, scrim |-> s]]}
    BY DEF SetStatus, Call, Busy, Rest
  <1>2. /\ worker[w].op \in Ending \cup {"accept"} /\ s \in Scrims
    BY <1>1 DEF ScrimTypes, WorkerStates, Resting
  <1>3. scrims[s] \in Rows
    BY <1>1 DEF ReadBeforeWriting
  <1>4. new \in {"confirmed", "declined", "cancelled"}
    BY <1>2 DEF NewStatus, Ending
  <1>5. /\ scrims'[s] \in Rows
        /\ scrims'[s].status = new /\ scrims'[s].origin = scrims[s].origin
        /\ \A r \in Scrims \ {s} : scrims'[r] = scrims[r]
    BY <1>1, <1>2, <1>3, <1>4 DEF ScrimTypes, Rows
  <1>6. scrims' \in [Scrims -> Rows \cup {NoScrim}]
    BY <1>1, <1>5 DEF ScrimTypes
  <1>7. worker' \in [Workers -> WorkerStates]
    BY <1>1, <1>2 DEF ScrimTypes, WorkerStates
  <1>8. ScrimTypes' /\ OpenIsUnclaimed'
    BY <1>1, <1>4, <1>5, <1>6, <1>7 DEF ScrimTypes, OpenIsUnclaimed
  <1>9. ASSUME NEW v \in Workers, worker'[v].pc = "set_status"
        PROVE  worker'[v] = worker[v] /\ worker[v].scrim \in Scrims
    <2>1. worker'[v] = worker[v] /\ worker[v] \in WorkerStates
      BY <1>1, <1>9 DEF ScrimTypes, Resting
    <2> QED BY <1>9, <2>1 DEF WorkerStates, Resting
  <1>10. ReadBeforeWriting'
    BY <1>5, <1>9 DEF ReadBeforeWriting
  <1> QED BY <1>8, <1>10

(* A claim decides by the row it writes. *)
LEMMA ClaimKeeps ==
  ASSUME ScrimTypes, OpenIsUnclaimed, ReadBeforeWriting,
         NEW w \in Workers, Claim(w)
  PROVE  ScrimTypes' /\ OpenIsUnclaimed' /\ ReadBeforeWriting'
  <1> DEFINE s == worker[w].scrim
             t == worker[w].team
  <1>1. /\ now' = now /\ worker[w].pc = "claim"
        /\ \/ scrims' = scrims
           \/ /\ scrims[s].status = "open"
              /\ scrims' = [scrims EXCEPT ![s].status = "confirmed",
                                          ![s].opponent = t]
        /\ worker' \in {[worker EXCEPT ![w] = Resting],
                        [worker EXCEPT ![w] = [pc |-> "attach", op |-> "attach",
                                               team |-> t, scrim |-> s]]}
    BY DEF Claim, Call, Busy, Rest
  <1>2. s \in Scrims /\ t \in Teams
    BY <1>1 DEF ScrimTypes, WorkerStates, Resting
  <1>3. /\ \A r \in Scrims :
              /\ scrims'[r].origin = scrims[r].origin
              /\ (scrims[r] \in Rows => scrims'[r] \in Rows)
              /\ (scrims'[r] = scrims[r] \/ scrims'[r].status = "confirmed")
        /\ scrims' \in [Scrims -> Rows \cup {NoScrim}]
    <2>1. CASE scrims' = scrims
      BY <2>1 DEF ScrimTypes
    <2>2. CASE scrims' # scrims
      <3>1. scrims[s] \in Rows
        BY <1>1, <1>2, <2>2 DEF ScrimTypes, NoScrim
      <3>2. /\ scrims'[s] \in Rows
            /\ scrims'[s].status = "confirmed" /\ scrims'[s].origin = scrims[s].origin
            /\ \A r \in Scrims \ {s} : scrims'[r] = scrims[r]
        BY <1>1, <1>2, <2>2, <3>1 DEF ScrimTypes, Rows
      <3> QED BY <1>1, <2>2, <3>2 DEF ScrimTypes
    <2> QED BY <2>1, <2>2
  <1>4. worker' \in [Workers -> WorkerStates]
    BY <1>1, <1>2 DEF ScrimTypes, WorkerStates
  <1>5. ScrimTypes'
    BY <1>1, <1>3, <1>4 DEF ScrimTypes
  <1>8. OpenIsUnclaimed'
    <2> SUFFICES ASSUME NEW r \in Scrims, scrims'[r] = scrims[r]
                 PROVE  /\ scrims'[r].status = "open" =>
                              scrims'[r].origin = "listing" /\ scrims'[r].opponent = NoTeam
                        /\ scrims'[r].status = "pending" => scrims'[r].origin = "proposal"
      BY <1>3 DEF OpenIsUnclaimed
    <2> QED BY DEF OpenIsUnclaimed
  <1>6. ASSUME NEW v \in Workers, worker'[v].pc = "set_status"
        PROVE  worker'[v] = worker[v] /\ worker[v].scrim \in Scrims
    <2>1. worker'[v] = worker[v] /\ worker[v] \in WorkerStates
      BY <1>1, <1>6 DEF ScrimTypes, Resting
    <2> QED BY <1>6, <2>1 DEF WorkerStates, Resting
  <1>7. ReadBeforeWriting'
    <2> SUFFICES ASSUME NEW v \in Workers, worker'[v].pc = "set_status"
                 PROVE  /\ scrims'[worker'[v].scrim] \in Rows
                        /\ worker'[v].op \in {"accept", "decline", "withdraw"} =>
                              scrims'[worker'[v].scrim].origin = "proposal"
      BY DEF ReadBeforeWriting, Rows
    <2>1. worker'[v] = worker[v] /\ worker[v].scrim \in Scrims
      BY <1>6
    <2> QED BY <1>3, <2>1 DEF ReadBeforeWriting
  <1> QED BY <1>5, <1>7, <1>8

(* A worker whose request ends, or takes up a form, writes no status. *)
LEMMA WorkerMovesOn ==
  ASSUME ScrimTypes, OpenIsUnclaimed, ReadBeforeWriting,
         NEW w \in Workers, NEW state \in WorkerStates, state.pc # "set_status",
         worker' = [worker EXCEPT ![w] = state], UNCHANGED <<now, scrims>>
  PROVE  ScrimTypes' /\ OpenIsUnclaimed' /\ ReadBeforeWriting'
  <1>1. ScrimTypes' /\ OpenIsUnclaimed'
    BY DEF ScrimTypes, OpenIsUnclaimed
  <1>2. \A v \in Workers : worker'[v].pc = "set_status" => worker'[v] = worker[v]
    BY DEF ScrimTypes
  <1>3. ReadBeforeWriting'
    BY <1>2 DEF ReadBeforeWriting
  <1> QED BY <1>1, <1>3

LEMMA HandlersKeep ==
  ASSUME ScrimTypes, OpenIsUnclaimed, ReadBeforeWriting,
         Handlers \/ \E w \in Workers : ServerSide(w)
  PROVE  ScrimTypes' /\ OpenIsUnclaimed' /\ ReadBeforeWriting'
  <1>0. Resting \in WorkerStates /\ Resting.pc # "set_status"
    BY DEF WorkerStates, Resting
  <1>1. ASSUME NEW w \in Workers, NEW t \in Teams, NEW s \in Scrims,
               NEW at \in StartTimes, NEW opponent \in Teams,
               CreateProposal(w, t, opponent, s, at)
        PROVE  ScrimTypes' /\ OpenIsUnclaimed' /\ ReadBeforeWriting'
    <2> DEFINE row == [status |-> "pending", origin |-> "proposal", proposer |-> t,
                       opponent |-> opponent, at |-> at]
    <2>1. Create(w, t, s, row)
      BY <1>1 DEF CreateProposal
    <2>2. row \in Rows /\ row.status = "pending" /\ row.origin = "proposal"
      BY DEF Rows
    <2> HIDE DEF row
    <2> QED BY <2>1, <2>2, CreateKeeps
  <1>2. ASSUME NEW w \in Workers, NEW t \in Teams, NEW s \in Scrims,
               NEW at \in StartTimes, CreateListing(w, t, s, at)
        PROVE  ScrimTypes' /\ OpenIsUnclaimed' /\ ReadBeforeWriting'
    <2> DEFINE row == [status |-> "open", origin |-> "listing", proposer |-> t,
                       opponent |-> NoTeam, at |-> at]
    <2>1. Create(w, t, s, row)
      BY <1>2 DEF CreateListing
    <2>2. /\ row \in Rows /\ row.status = "open" /\ row.origin = "listing"
          /\ row.opponent = NoTeam
      BY DEF Rows
    <2> HIDE DEF row
    <2> QED BY <2>1, <2>2, CreateKeeps
  <1>3. ASSUME NEW w \in Workers, Crash(w) \/ ServerSide(w)
        PROVE  ScrimTypes' /\ OpenIsUnclaimed' /\ ReadBeforeWriting'
    <2>1. worker' = [worker EXCEPT ![w] = Resting] /\ UNCHANGED <<now, scrims>>
      BY <1>3 DEF Crash, ServerSide, Rest
    <2> QED BY <1>0, <2>1, WorkerMovesOn
  <1> QED
    BY <1>1, <1>2, <1>3, CheckKeeps, SetStatusKeeps, ClaimKeeps
    DEF Handlers, GoOn, Ask

-----------------------------------------------------------------------------
(* The tracker                                                             *)

(* Every name a page shows is one RGL listed. *)
LEMMA ViewKeeps ==
  ASSUME IInv, NEW u \in Users, NEW s \in Scrims, ViewTracker(u, s)
  PROVE  IInv'
  <1>1. \A p \in MarkForms(u, s) : Form(p, Named(s, p)) \in NamedForms
    BY DEF IInv, MarkForms, Entries, Named, Form, NamedForms, MarkedAreNamed
  <1>2. forms' = [forms EXCEPT ![s] =
                    @ \cup {Form(p, Named(s, p)) : p \in MarkForms(u, s)}]
    BY DEF ViewTracker
  <1>3. forms' \in [Scrims -> SUBSET NamedForms]
    BY <1>1, <1>2 DEF IInv, TrackerTypes
  <1>4. UNCHANGED <<now, scrims, worker, marks>>
    BY DEF ViewTracker, scrimVars
  <1> QED
    BY <1>3, <1>4 DEF IInv, ScrimTypes, OpenIsUnclaimed, ReadBeforeWriting,
                      TrackerTypes, MarkedAreNamed

LEMMA CheckMarkKeeps ==
  ASSUME IInv, NEW w \in Workers, NEW u \in Users, NEW s \in Scrims,
         NEW form \in forms[s], NEW status \in Statuses,
         CheckMark(w, u, s, form, status)
  PROVE  IInv'
  <1> DEFINE state == [pc |-> "upsert", op |-> "mark", scrim |-> s, form |-> form,
                       status |-> status]
  <1>1. /\ worker' = [worker EXCEPT ![w] = state]
        /\ UNCHANGED <<now, scrims, marks, forms>>
    BY DEF CheckMark, trackerVars
  <1>2. form \in NamedForms
    BY DEF IInv, TrackerTypes
  <1>3. state \in WorkerStates /\ state.pc # "set_status"
    BY <1>2 DEF WorkerStates
  <1> HIDE DEF state
  <1>4. ScrimTypes' /\ OpenIsUnclaimed' /\ ReadBeforeWriting'
    BY <1>1, <1>3, WorkerMovesOn DEF IInv
  <1> QED
    BY <1>1, <1>4 DEF IInv, TrackerTypes, MarkedAreNamed

(* A mark has the name of its form, or the one it had before. *)
LEMMA UpsertKeeps ==
  ASSUME IInv, NEW w \in Workers, Upsert(w)
  PROVE  IInv'
  <1> DEFINE s == worker[w].scrim
             p == worker[w].form.player
             new == Mark(worker[w].status,
                         IF marks[s][p] = Unmarked THEN worker[w].form.named
                                                   ELSE marks[s][p].named)
  <1>1. /\ worker[w].pc = "upsert"
        /\ worker' = [worker EXCEPT ![w] = Resting]
        /\ marks' = [marks EXCEPT ![s][p] = new]
        /\ UNCHANGED <<now, scrims, forms>>
    BY DEF Upsert, Rest
  <1>2. worker[w] \in [pc : {"upsert"}, op : {"mark"}, scrim : Scrims,
                      form : NamedForms, status : Statuses]
    BY <1>1 DEF IInv, ScrimTypes, WorkerStates, Resting
  <1>3. s \in Scrims /\ p \in Players
    BY <1>2 DEF NamedForms
  <1>4. new.named = TRUE /\ new \in [status : Statuses \cup {"none"}, named : BOOLEAN]
    BY <1>2, <1>3 DEF IInv, TrackerTypes, MarkedAreNamed, Mark, NamedForms
  <1> HIDE DEF new
  <1>5. marks' \in [Scrims -> [Players ->
                      [status : Statuses \cup {"none"}, named : BOOLEAN]]]
    BY <1>1, <1>3, <1>4 DEF IInv, TrackerTypes
  <1>6. MarkedAreNamed'
    <2> SUFFICES ASSUME NEW r \in Scrims, NEW q \in Players, marks'[r][q] # Unmarked
                 PROVE  marks'[r][q].named
      BY DEF MarkedAreNamed, Unmarked, Mark
    <2>1. CASE r = s /\ q = p
      <3>1. marks'[r][q] = new
        BY <1>1, <1>3, <2>1 DEF IInv, TrackerTypes
      <3> QED BY <1>4, <3>1
    <2>2. CASE ~(r = s /\ q = p)
      <3>1. marks'[r][q] = marks[r][q]
        BY <1>1, <1>3, <2>2 DEF IInv, TrackerTypes
      <3> QED BY <3>1 DEF IInv, MarkedAreNamed
    <2> QED BY <2>1, <2>2
  <1>7. Resting \in WorkerStates /\ Resting.pc # "set_status"
    BY DEF WorkerStates, Resting
  <1>8. ScrimTypes' /\ OpenIsUnclaimed' /\ ReadBeforeWriting'
    BY <1>1, <1>7, WorkerMovesOn DEF IInv
  <1> QED BY <1>1, <1>5, <1>6, <1>8 DEF IInv, TrackerTypes

LEMMA StepKeeps == IInv /\ [NextAttendance]_attendanceVars => IInv'
  <1> SUFFICES ASSUME IInv, [NextAttendance]_attendanceVars PROVE IInv'
    OBVIOUS
  <1>1. CASE Schedule
    <2>1. UNCHANGED <<marks, forms>>
      BY <1>1 DEF Schedule
    <2>2. ScrimTypes' /\ OpenIsUnclaimed' /\ ReadBeforeWriting'
      BY <1>1, HandlersKeep DEF IInv, Schedule
    <2> QED BY <2>1, <2>2 DEF IInv, TrackerTypes, MarkedAreNamed
  <1>2. CASE \/ Clock \/ UNCHANGED attendanceVars
             \/ \E u \in Users : Refresh(u)
             \/ \E p \in Players : SaveRoster(p)
    <2>1. /\ UNCHANGED <<scrims, worker, marks, forms>>
          /\ now' \in {now, now + 1}
      BY <1>2 DEF Clock, Tick, Refresh, SaveRoster, attendanceVars, scrimVars, trackerVars
    <2> QED
      BY <2>1 DEF IInv, ScrimTypes, OpenIsUnclaimed, ReadBeforeWriting, TrackerTypes,
                  MarkedAreNamed
  <1> QED
    BY <1>1, <1>2, ViewKeeps, CheckMarkKeeps, UpsertKeeps DEF NextAttendance

-----------------------------------------------------------------------------
(* The theorems                                                            *)

(* Rows, workers, marks and forms keep their types, and statuses go with   *)
(* origins and opponents as the handlers rely on.                          *)
THEOREM Invariance == SpecAttendance => []IInv
  BY InitIInv, StepKeeps, PTL DEF SpecAttendance

(* Who is marked stays renderable, however the roster was replaced between *)
(* the page, its form and the write.                                       *)
THEOREM MarksHaveNames == SpecAttendance => []MarkedAreNamed
  <1>1. IInv => MarkedAreNamed
    BY DEF IInv
  <1> QED BY <1>1, Invariance, PTL

(* The tracker offers the marks set_status would take, and no others.      *)
THEOREM TrackerIsTrue == SpecAttendance => []TrackerMirrorsRules
  <1>1. IInv => TrackerMirrorsRules
    <2> SUFFICES ASSUME IInv, NEW u \in Users, NEW s \in Scrims,
                        scrims[s].origin = "listing"
                 PROVE  MarkForms(u, s) = {p \in Entries(s) : MayMark(u, s, p)}
      BY DEF TrackerMirrorsRules
    <2>1. scrims[s] \in Rows /\ now \in Nat
      BY DEF IInv, ScrimTypes, NoScrim
    <2>2. scrims[s].at \in Nat
      BY <2>1, ScrimsAssumption DEF Rows
    <2>3. ~Locked(s) <=> /\ scrims[s].status \notin {"cancelled", "declined"}
                         /\ scrims[s].at > now
      BY <2>1, <2>2 DEF Locked
    <2> QED BY <2>3 DEF MarkForms, MayMark
  <1> QED BY <1>1, Invariance, PTL

(* What a step may not do to a row: Kept(s) is the body of FirstClaimWins. *)
Kept(s) ==
    /\ (scrims[s].opponent # NoTeam => scrims'[s].opponent = scrims[s].opponent)
    /\ (scrims[s].origin = "listing" /\ scrims[s].status = "cancelled" =>
            scrims'[s].status = "cancelled")

LEMMA HandlersKeepClaims ==
  ASSUME ScrimTypes, OpenIsUnclaimed, ReadBeforeWriting, NEW s \in Scrims,
         Handlers \/ \E w \in Workers : ServerSide(w)
  PROVE  Kept(s)
  <1>1. CASE scrims'[s] = scrims[s]
    BY <1>1 DEF Kept
  <1>2. ASSUME NEW w \in Workers, NEW t \in Teams, NEW r \in Scrims, NEW row,
               Create(w, t, r, row)
        PROVE  Kept(s)
    <2>1. scrims[r] = NoScrim /\ (s # r => scrims'[s] = scrims[s])
      BY <1>2 DEF Create, ScrimTypes
    <2> QED BY <1>1, <2>1 DEF Kept, NoScrim
  <1>3. ASSUME NEW w \in Workers, SetStatus(w)
        PROVE  Kept(s)
    <2> DEFINE new == NewStatus[worker[w].op]
    <2>1. /\ worker[w].pc = "set_status"
          /\ scrims' = [scrims EXCEPT ![worker[w].scrim].status = new]
      BY <1>3 DEF SetStatus
    <2>2. worker[w].op \in Ending \cup {"accept"} /\ worker[w].scrim \in Scrims
      BY <2>1 DEF ScrimTypes, WorkerStates, Resting
    <2>3. CASE s = worker[w].scrim
      <3>1. scrims[s] \in Rows
        BY <2>1, <2>3 DEF ReadBeforeWriting
      <3>2. scrims'[s].opponent = scrims[s].opponent /\ scrims'[s].status = new
        BY <2>1, <2>2, <2>3, <3>1 DEF ScrimTypes, Rows
      <3>3. scrims[s].origin = "listing" => worker[w].op \in {"cancel", "cancel_listing"}
        BY <2>1, <2>2, <2>3 DEF ReadBeforeWriting, Ending
      <3>4. worker[w].op \in {"cancel", "cancel_listing"} => new = "cancelled"
        BY DEF NewStatus
      <3> QED BY <3>2, <3>3, <3>4 DEF Kept
    <2>4. CASE s # worker[w].scrim
      BY <1>1, <2>1, <2>4 DEF ScrimTypes
    <2> QED BY <2>3, <2>4
  <1>4. ASSUME NEW w \in Workers, Claim(w)
        PROVE  Kept(s)
    <2> DEFINE r == worker[w].scrim
    <2>1. \/ scrims' = scrims
          \/ /\ scrims[r].status = "open"
             /\ scrims' = [scrims EXCEPT ![r].status = "confirmed",
                                         ![r].opponent = worker[w].team]
      BY <1>4 DEF Claim
    <2>2. CASE s = r
      BY <1>1, <2>1, <2>2 DEF Kept, OpenIsUnclaimed
    <2>3. CASE s # r
      BY <1>1, <2>1, <2>3 DEF ScrimTypes
    <2> QED BY <2>2, <2>3
  <1>5. ASSUME NEW w \in Workers, ServerSide(w) \/ Crash(w)
                  \/ \E op \in Ending \cup {"accept", "claim"}, t \in Teams, r \in Scrims :
                        Check(w, op, t, r)
        PROVE  Kept(s)
    BY <1>1, <1>5 DEF ServerSide, Crash, Check
  <1> QED
    BY <1>2, <1>3, <1>4, <1>5 DEF Handlers, GoOn, Ask, CreateProposal, CreateListing

(* First claim wins: whoever has a listing keeps it, and a listing that    *)
(* was pulled stays pulled, however many claims passed their checks before *)
(* the first UPDATE.                                                       *)
THEOREM FirstClaim == SpecAttendance => FirstClaimWins
  <1>1. IInv /\ [NextAttendance]_attendanceVars =>
          [\A s \in Scrims :
              /\ scrims[s].opponent # NoTeam => scrims'[s].opponent = scrims[s].opponent
              /\ scrims[s].origin = "listing" /\ scrims[s].status = "cancelled" =>
                    scrims'[s].status = "cancelled"]_scrimVars
    <2> SUFFICES ASSUME IInv, [NextAttendance]_attendanceVars, NEW s \in Scrims
                 PROVE  Kept(s)
      BY DEF Kept
    <2>1. CASE Schedule
      BY <2>1, HandlersKeepClaims DEF IInv, Schedule
    <2>2. CASE ~Schedule
      <3>1. scrims' = scrims
        BY <2>2 DEF NextAttendance, ViewTracker, CheckMark, Upsert, Refresh, SaveRoster,
                    Clock, Tick, attendanceVars, scrimVars
      <3> QED BY <3>1 DEF Kept
    <2> QED BY <2>1, <2>2
  <1> QED BY <1>1, Invariance, PTL DEF SpecAttendance, FirstClaimWins

=============================================================================
