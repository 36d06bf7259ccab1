----------------------------- MODULE PagesProof -----------------------------
(***************************************************************************)
(* Proofs about Pages, for any number of users, teams and scrims and any   *)
(* lengths of time.  The argument: requests and runs of the reconciler     *)
(* follow one another, so that what a request has checked is still so when *)
(* it writes (WorkIsRight) and what a run has read is still so when it     *)
(* acts (RunIsRight); a server is then on only once its scrim has begun,   *)
(* and cancelled only when its scrim is over (Sound), which is all that    *)
(* the pages and the routes could disagree about.                          *)
(*                                                                         *)
(* Every step is one of ScrimServers, so that what ServersProof shows of   *)
(* overlapping requests holds here too.  What needs them to follow one     *)
(* another is the rest: the ledger's entries fit the server's state        *)
(* (Books, Returned, Counted) and its window (Settled).                    *)
(***************************************************************************)
EXTENDS Pages, ServersProof

-----------------------------------------------------------------------------
(* The inductive invariant                                                 *)

Types ==
    /\ now \in Nat
    /\ scrims \in [Scrims -> ScrimRows]
    /\ servers \in [Scrims -> ServerRows]
    /\ worker \in [Workers -> {Resting} \cup Errands \cup Extensions]
    /\ graces \in [Scrims -> Nat]
    /\ team \in [Users -> Teams \cup {NoTeam}]

Serial ==
    /\ \A v, w \in Workers : Idle(v) \/ Idle(w) \/ v = w
    /\ rec = Asleep \/ AllIdle

CalledOff(s) == scrims[s].status \in {"declined", "cancelled"}

Sound(s) ==
    /\ scrims[s].status = "none" => scrims[s] = NoScrim
    /\ scrims[s].status # "none" => scrims[s].proposer # NoTeam
    /\ scrims[s].status = "open" => scrims[s].origin = "listing"
    /\ servers[s].state = "none" => servers[s] = NoServer
    /\ servers[s].state # "none" => scrims[s].status # "none"
    /\ IsLive(s) => scrims[s].at <= now
    /\ servers[s].state = "cancelled" => CalledOff(s)
    /\ \/ servers[s].state \in {"in_grace", "stopped"}
       \/ servers[s].grace /\ s \notin rec.marked
       => graces[s] > 0

(* What the worker doing x has checked is still so. *)
WorkIsRight(x) ==
    LET s == x.scrim
    IN  /\ x.pc = "set_status" =>
              x.op \in Lifecycle \ {"claim"} /\ May(x.op, x.team, scrims[s])
        /\ x.pc = "claim" => x.team # NoTeam /\ MayClaim(x.team, scrims[s])
        /\ x.pc = "attach" => x.team # NoTeam /\ scrims[s].status # "none"
        /\ x.pc \in {"release", "cancel_server", "refund"} => CalledOff(s)
        /\ x.pc = "cancel_server" => servers[s].state = "scheduled"
        /\ x.pc = "refund" => servers[s].state = "cancelled"
        /\ x.pc \in {"spend", "read_window", "write_window", "resume"} => IsLive(s)

(* What the run has read is still so. *)
RunIsRight ==
    /\ rec \in [now : Nat, rows : {rec.rows}, marked : SUBSET Scrims]
    /\ rec.now <= now
    /\ DOMAIN rec.rows \subseteq Scrims
    /\ \A s \in rec.marked :
          s \in DOMAIN rec.rows /\ rec.marked = {s} /\ servers[s].state = "running"
    /\ \A s \in DOMAIN rec.rows \ rec.marked : rec.rows[s] = servers[s]

IInv ==
    /\ Types
    /\ Serial
    /\ \A s \in Scrims : Sound(s)
    /\ \A w \in Workers : WorkIsRight(worker[w])
    /\ RunIsRight

-----------------------------------------------------------------------------
(* The parts of a step                                                     *)

LEMMA InitIInv == InitServers /\ team = Account => IInv
  <1> SUFFICES ASSUME InitServers, team = Account PROVE IInv
    OBVIOUS
  <1>1. Types
    BY PagesAssumption
    DEF InitServers, Init, Types, ScrimRows, ServerRows, NoScrim, NoServer
  <1>2. Serial
    BY DEF InitServers, Init, Serial, Idle, Resting
  <1>3. \A s \in Scrims : Sound(s)
    BY DEF InitServers, Init, Sound, NoScrim, NoServer, IsLive, CalledOff
  <1>4. \A w \in Workers : WorkIsRight(worker[w])
    BY DEF InitServers, Init, WorkIsRight, Resting
  <1>5. RunIsRight
    BY DEF InitServers, Init, RunIsRight, Asleep
  <1> QED BY <1>1, <1>2, <1>3, <1>4, <1>5 DEF IInv

(* When a worker takes the next step of a request, or a request up, no     *)
(* other is at work and the reconciler sleeps.                             *)
LEMMA AloneWhileWorking ==
  ASSUME IInv, NEW w \in Workers, Free(w) \/ (~Idle(w))
  PROVE  \A v \in Workers : v # w => Idle(v)
  BY PagesAssumption DEF IInv, Serial, Free

(* A request's step, of what it changes of the rows, the worker and the    *)
(* reconciler's view.                                                      *)
LEMMA RequestKeeps ==
  ASSUME IInv, rec = Asleep, NEW w \in Workers, Free(w) \/ ~Idle(w),
         NEW x, worker' = [worker EXCEPT ![w] = x],
         x \in {Resting} \cup Errands \cup Extensions,
         UNCHANGED <<now, rec, team>>,
         scrims' \in [Scrims -> ScrimRows], servers' \in [Scrims -> ServerRows],
         graces' \in [Scrims -> Nat],
         \A s \in Scrims : Sound(s)', WorkIsRight(x)'
  PROVE  IInv'
  <1>1. \A v \in Workers : v # w => Idle(v) /\ worker'[v] = worker[v]
    BY AloneWhileWorking DEF IInv, Types
  <1>2. worker'[w] = x
    BY DEF IInv, Types
  <1>3. Types'
    BY DEF IInv, Types
  <1>4. Serial'
    BY <1>1 DEF Serial, Idle
  <1>5. ASSUME NEW v \in Workers PROVE WorkIsRight(worker[v])'
    <2>1. CASE v = w
      BY <1>2, <2>1 DEF WorkIsRight
    <2>2. CASE v # w
      BY <1>1, <2>2 DEF WorkIsRight, Idle
    <2> QED BY <2>1, <2>2
  <1>6. RunIsRight'
    BY DEF IInv, Types, RunIsRight, Asleep
  <1> QED BY <1>3, <1>4, <1>5, <1>6 DEF IInv

(* A worker that goes on is where it was, with the same scrim. *)
LEMMA ErrandGoesOn ==
  ASSUME NEW x \in Errands, NEW pc \in {"cancel_server", "refund"}
  PROVE  LET y == [x EXCEPT !.pc = pc]
         IN  y \in Errands /\ y.pc = pc /\ y.scrim = x.scrim
  BY DEF Errands

LEMMA ExtensionGoesOn ==
  ASSUME NEW x \in Extensions, NEW pc \in {"read_window", "resume"}
  PROVE  LET y == [x EXCEPT !.pc = pc]
         IN  y \in Extensions /\ y.pc = pc /\ y.scrim = x.scrim
  BY DEF Extensions

(* What a worker at work has, by what it is doing. *)
LEMMA AtWork ==
  ASSUME IInv, NEW w \in Workers, ~Idle(w)
  PROVE  /\ WorkIsRight(worker[w])
         /\ worker[w].scrim \in Scrims /\ worker[w].team \in Teams \cup {NoTeam}
         /\ worker[w].pc \in {"set_status", "claim", "attach", "release",
                              "cancel_server", "refund"} => worker[w] \in Errands
         /\ worker[w].pc \in {"spend", "read_window", "write_window", "resume"} =>
               worker[w] \in Extensions
  BY DEF IInv, Types, Idle, Resting, Errands, Extensions

-----------------------------------------------------------------------------
(* Requests                                                                *)

(* A request that has only read. *)
LEMMA CheckedKeeps ==
  ASSUME IInv, rec = Asleep, NEW w \in Workers, Free(w) \/ ~Idle(w),
         NEW x, worker' = [worker EXCEPT ![w] = x],
         x \in {Resting} \cup Errands \cup Extensions,
         WorkIsRight(x),
         UNCHANGED <<now, scrims, servers, rec, graces, team>>
  PROVE  IInv'
  <1>1. \A s \in Scrims : Sound(s)'
    BY DEF IInv, Sound, IsLive, CalledOff
  <1>2. WorkIsRight(x)'
    BY DEF WorkIsRight, IsLive, CalledOff
  <1> QED BY <1>1, <1>2, RequestKeeps DEF IInv, Types

LEMMA CreateKeeps ==
  ASSUME IInv, rec = Asleep, NEW w \in Workers, NEW t \in Teams, NEW s \in Scrims,
         NEW row \in ScrimRows, row.proposer = t, row.status \in {"pending", "open"},
         row.status = "open" => row.origin = "listing",
         Create(w, t, s, row), UNCHANGED <<serverVars, team>>
  PROVE  IInv'
  <1> DEFINE x == [pc |-> "attach", op |-> "attach", team |-> t, scrim |-> s]
  <1>1. /\ Free(w) /\ scrims[s] = NoScrim
        /\ scrims' = [scrims EXCEPT ![s] = row]
        /\ UNCHANGED <<now, servers, rec, graces>>
        /\ worker' = [worker EXCEPT ![w] = x] \/ UNCHANGED worker
    BY DEF Create, Busy, serverVars
  <1>2. /\ scrims' \in [Scrims -> ScrimRows] /\ scrims'[s] = row
        /\ \A r \in Scrims \ {s} : scrims'[r] = scrims[r]
    BY <1>1 DEF IInv, Types
  <1>3. servers[s].state = "none"
    BY <1>1 DEF IInv, Sound, NoScrim
  <1>4. ASSUME NEW r \in Scrims PROVE Sound(r)'
    <2>1. Sound(r)
      BY DEF IInv
    <2>2. CASE r = s
      BY <1>1, <1>2, <1>3, <2>1, <2>2, ScrimsAssumption
      DEF Sound, IsLive, CalledOff, NoServer
    <2>3. CASE r # s
      BY <1>1, <1>2, <2>1, <2>3 DEF Sound, IsLive, CalledOff
    <2> QED BY <2>2, <2>3
  <1>5. CASE worker' = [worker EXCEPT ![w] = x]
    <2>1. x \in Errands /\ WorkIsRight(x)'
      BY <1>2, ScrimsAssumption DEF Errands, WorkIsRight
    <2> HIDE DEF x
    <2> QED BY <1>1, <1>2, <1>4, <1>5, <2>1, RequestKeeps DEF IInv, Types
  <1>6. CASE UNCHANGED worker
    <2>1. worker[w].pc = "idle"
      BY <1>1 DEF Free, Idle
    <2>2. worker[w] = Resting
      BY <2>1 DEF IInv, Types, Errands, Extensions
    <2>3. worker' = [worker EXCEPT ![w] = Resting] /\ WorkIsRight(Resting)'
      BY <1>6, <2>2 DEF IInv, Types, WorkIsRight, Resting
    <2> QED BY <1>1, <1>2, <1>4, <2>3, RequestKeeps DEF IInv, Types
  <1> QED BY <1>1, <1>5, <1>6

(* A handler that has checked its guards. *)
LEMMA CheckKeeps ==
  ASSUME IInv, rec = Asleep, NEW w \in Workers, NEW op \in Lifecycle,
         NEW t \in Teams \cup {NoTeam}, t # NoTeam, NEW s \in Scrims,
         Check(w, op, t, s), UNCHANGED <<serverVars, team>>
  PROVE  IInv'
  <1> DEFINE pc == IF op = "claim" THEN "claim" ELSE "set_status"
             x == [pc |-> pc, op |-> op, team |-> t, scrim |-> s]
  <1>1. /\ Free(w) /\ May(op, t, scrims[s]) /\ worker' = [worker EXCEPT ![w] = x]
        /\ UNCHANGED <<now, scrims, servers, rec, graces>>
    BY DEF Check, Busy, serverVars
  <1>2. x \in Errands
    BY DEF Errands, Lifecycle
  <1>3. WorkIsRight(x)
    BY <1>1 DEF WorkIsRight, May, Lifecycle, Ending
  <1> HIDE DEF x
  <1> QED BY <1>1, <1>2, <1>3, CheckedKeeps

LEMMA AskKeeps ==
  ASSUME IInv, rec = Asleep, NEW w \in Workers, NEW t \in Teams,
         Ask(w, t), UNCHANGED <<serverVars, team>>
  PROVE  IInv'
  <1> SUFFICES ASSUME NEW s \in Scrims,
                      \/ \E at \in StartTimes :
                            \/ \E opponent \in Teams :
                                  CreateProposal(w, t, opponent, s, at)
                            \/ CreateListing(w, t, s, at)
                      \/ \E op \in Ending \cup {"accept", "claim"} : Check(w, op, t, s)
               PROVE  IInv'
    BY DEF Ask
  <1>1. ASSUME NEW at \in StartTimes, NEW opponent \in Teams,
               CreateProposal(w, t, opponent, s, at)
        PROVE  IInv'
    <2> DEFINE row == [status |-> "pending", origin |-> "proposal", proposer |-> t,
                       opponent |-> opponent, at |-> at]
    <2>1. row \in ScrimRows /\ row.proposer = t /\ row.status = "pending"
      BY ScrimsAssumption DEF ScrimRows
    <2>2. Create(w, t, s, row)
      BY <1>1 DEF CreateProposal
    <2> HIDE DEF row
    <2> QED BY <2>1, <2>2, CreateKeeps
  <1>2. ASSUME NEW at \in StartTimes, CreateListing(w, t, s, at)
        PROVE  IInv'
    <2> DEFINE row == [status |-> "open", origin |-> "listing", proposer |-> t,
                       opponent |-> NoTeam, at |-> at]
    <2>1. /\ row \in ScrimRows /\ row.proposer = t /\ row.status = "open"
          /\ row.origin = "listing"
      BY ScrimsAssumption DEF ScrimRows
    <2>2. Create(w, t, s, row)
      BY <1>2 DEF CreateListing
    <2> HIDE DEF row
    <2> QED BY <2>1, <2>2, CreateKeeps
  <1>3. ASSUME NEW op \in Lifecycle, Check(w, op, t, s)
        PROVE  IInv'
    BY <1>3, CheckKeeps, ScrimsAssumption
  <1> QED BY <1>1, <1>2, <1>3 DEF Lifecycle

(* _set_status: the guard that was checked still holds. *)
LEMMA SetStatusKeeps ==
  ASSUME IInv, rec = Asleep, NEW w \in Workers, SetStatus(w),
         UNCHANGED <<serverVars, team>>
  PROVE  IInv'
  <1>1. /\ worker[w].pc = "set_status" /\ ~Idle(w)
        /\ UNCHANGED <<now, servers, rec, graces>>
    BY DEF SetStatus, Idle, serverVars
  <1>2. PICK s \in Scrims, op \in Lifecycle \ {"claim"}, t \in Teams \cup {NoTeam} :
           s = worker[w].scrim /\ op = worker[w].op /\ May(op, t, scrims[s])
    BY <1>1, AtWork DEF WorkIsRight
  <1> DEFINE new == NewStatus[op]
             x == IF op \in Ending
                  THEN [pc |-> "release", op |-> "release", team |-> NoTeam, scrim |-> s]
                  ELSE Resting
  <1>3. /\ scrims' = [scrims EXCEPT ![s].status = new]
        /\ worker' = [worker EXCEPT ![w] = x]
    BY <1>2 DEF SetStatus, Call, Busy, Rest
  <1>4. /\ new \in {"confirmed", "declined", "cancelled"}
        /\ op \in Ending => new \in {"declined", "cancelled"}
    BY <1>2 DEF NewStatus, Lifecycle, Ending
  <1>5. scrims[s].status \in {"pending", "open", "confirmed"}
    BY <1>2 DEF May, MayAccept, MayDecline, MayWithdraw, MayCancel, MayCancelListing,
                Lifecycle
  <1> HIDE DEF new
  <1>6. /\ scrims'[s] = [scrims[s] EXCEPT !.status = new]
        /\ \A r \in Scrims \ {s} : scrims'[r] = scrims[r]
    BY <1>3 DEF IInv, Types
  <1>7. /\ scrims'[s].status = new /\ scrims'[s] \in ScrimRows
        /\ scrims'[s].proposer = scrims[s].proposer /\ scrims'[s].at = scrims[s].at
        /\ scrims'[s].origin = scrims[s].origin
    BY <1>4, <1>6 DEF IInv, Types, ScrimRows
  <1>8. scrims' \in [Scrims -> ScrimRows]
    BY <1>3, <1>7 DEF IInv, Types
  <1>9. ASSUME NEW r \in Scrims PROVE Sound(r)'
    <2>1. Sound(r)
      BY DEF IInv
    <2>2. CASE r = s
      <3>1. servers[s].state # "cancelled"
        BY <1>5, <2>1, <2>2 DEF Sound, CalledOff
      <3> QED BY <1>1, <1>4, <1>5, <1>7, <2>1, <2>2, <3>1 DEF Sound, IsLive, CalledOff
    <2>3. CASE r # s
      BY <1>1, <1>6, <2>1, <2>3 DEF Sound, IsLive, CalledOff
    <2> QED BY <2>2, <2>3
  <1>10. x \in {Resting} \cup Errands \cup Extensions /\ WorkIsRight(x)'
    BY <1>4, <1>7 DEF Errands, WorkIsRight, CalledOff, Resting
  <1> HIDE DEF x
  <1> QED BY <1>1, <1>3, <1>8, <1>9, <1>10, RequestKeeps DEF IInv, Types

(* The claim's UPDATE looks at the status and the time itself. *)
LEMMA ClaimKeeps ==
  ASSUME IInv, rec = Asleep, NEW w \in Workers, Claim(w),
         UNCHANGED <<serverVars, team>>
  PROVE  IInv'
  <1>1. worker[w].pc = "claim" /\ ~Idle(w) /\ UNCHANGED <<now, servers, rec, graces>>
    BY DEF Claim, Idle, serverVars
  <1>2. PICK s \in Scrims, t \in Teams : s = worker[w].scrim /\ t = worker[w].team
    BY <1>1, AtWork DEF WorkIsRight
  <1> DEFINE x == [pc |-> "attach", op |-> "attach", team |-> t, scrim |-> s]
  <1>3. /\ x \in Errands /\ Resting \in {Resting} \cup Errands \cup Extensions
        /\ WorkIsRight(Resting)
    BY DEF Errands, WorkIsRight, Resting
  <1>4. CASE UNCHANGED scrims /\ Rest(w)
    BY <1>1, <1>3, <1>4, CheckedKeeps DEF Rest
  <1>5. CASE /\ scrims[s].status = "open"
             /\ scrims' = [scrims EXCEPT ![s].status = "confirmed", ![s].opponent = t]
             /\ Call(w, "attach", t) \/ Rest(w)
    <2>1. /\ scrims'[s] = [scrims[s] EXCEPT !.status = "confirmed", !.opponent = t]
          /\ \A r \in Scrims \ {s} : scrims'[r] = scrims[r]
      BY <1>5 DEF IInv, Types
    <2>2. /\ scrims'[s].status = "confirmed" /\ scrims'[s] \in ScrimRows
          /\ scrims'[s].proposer = scrims[s].proposer /\ scrims'[s].at = scrims[s].at
      <3>1. scrims[s] \in ScrimRows
        BY DEF IInv, Types
      <3>2. scrims'[s] = [status |-> "confirmed", origin |-> scrims[s].origin,
                          proposer |-> scrims[s].proposer, opponent |-> t,
                          at |-> scrims[s].at]
        BY <2>1, <3>1 DEF ScrimRows
      <3> QED BY <3>1, <3>2 DEF ScrimRows
    <2>3. scrims' \in [Scrims -> ScrimRows]
      BY <1>5, <2>2 DEF IInv, Types
    <2>4. ASSUME NEW r \in Scrims PROVE Sound(r)'
      <3>1. Sound(r)
        BY DEF IInv
      <3>2. CASE r = s
        <4>1. servers[s].state # "cancelled"
          BY <1>5, <3>1, <3>2 DEF Sound, CalledOff
        <4> QED BY <1>1, <1>5, <2>2, <3>1, <3>2, <4>1 DEF Sound, IsLive, CalledOff
      <3>3. CASE r # s
        BY <1>1, <2>1, <3>1, <3>3 DEF Sound, IsLive, CalledOff
      <3> QED BY <3>2, <3>3
    <2>5. WorkIsRight(x)' /\ WorkIsRight(Resting)'
      BY <2>2, ScrimsAssumption DEF WorkIsRight, Resting
    <2>6. worker' = [worker EXCEPT ![w] = x] \/ worker' = [worker EXCEPT ![w] = Resting]
      BY <1>2, <1>5 DEF Call, Busy, Rest
    <2> HIDE DEF x
    <2> QED BY <1>1, <1>3, <2>3, <2>4, <2>5, <2>6, RequestKeeps DEF IInv, Types
  <1> QED BY <1>2, <1>4, <1>5 DEF Claim

-----------------------------------------------------------------------------
(* Requests, on the side of the servers                                    *)

(* set_state changes one server's state and, at most, its graces. *)
LEMMA StateMoves ==
  ASSUME IInv, NEW s \in Scrims, NEW state \in States, SetState(s, state)
  PROVE  /\ servers' \in [Scrims -> ServerRows] /\ graces' \in [Scrims -> Nat]
         /\ servers'[s].state = state /\ servers'[s].grace = servers[s].grace
         /\ servers'[s].owner = servers[s].owner /\ servers'[s].ends = servers[s].ends
         /\ \A r \in Scrims \ {s} : servers'[r] = servers[r] /\ graces'[r] = graces[r]
         /\ graces'[s] >= graces[s] /\ (state = "in_grace" => graces'[s] > 0)
  <1>1. /\ servers' = [servers EXCEPT ![s].state = state]
        /\ graces' = [graces EXCEPT ![s] = @ + (IF state = "in_grace" THEN 1 ELSE 0)]
        /\ servers[s] \in ServerRows /\ graces[s] \in Nat
        /\ servers \in [Scrims -> ServerRows] /\ graces \in [Scrims -> Nat]
    BY DEF SetState, IInv, Types
  <1>2. /\ servers'[s] = [servers[s] EXCEPT !.state = state]
        /\ \A r \in Scrims \ {s} : servers'[r] = servers[r] /\ graces'[r] = graces[r]
        /\ graces'[s] = graces[s] + (IF state = "in_grace" THEN 1 ELSE 0)
    BY <1>1
  <1>3. /\ servers'[s] \in ServerRows
        /\ servers'[s].state = state /\ servers'[s].grace = servers[s].grace
        /\ servers'[s].owner = servers[s].owner /\ servers'[s].ends = servers[s].ends
    BY <1>1, <1>2 DEF ServerRows
  <1>4. servers' \in [Scrims -> ServerRows] /\ graces' \in [Scrims -> Nat]
    BY <1>1, <1>3
  <1> QED BY <1>1, <1>2, <1>3, <1>4

LEMMA CheckAttachKeeps ==
  ASSUME IInv, rec = Asleep, NEW w \in Workers, NEW t \in Teams, NEW s \in Scrims,
         CheckAttach(w, t, s), UNCHANGED team
  PROVE  IInv'
  <1> DEFINE x == [pc |-> "attach", op |-> "attach", team |-> t, scrim |-> s]
  <1>1. /\ Free(w) /\ t \in {scrims[s].proposer, scrims[s].opponent}
        /\ worker' = [worker EXCEPT ![w] = x]
        /\ UNCHANGED <<now, scrims, servers, rec, graces>>
    BY DEF CheckAttach, MayAttach, Busy, serverVars
  <1>2. t # NoTeam /\ scrims[s].status # "none"
    BY <1>1, ScrimsAssumption DEF IInv, Sound, NoScrim
  <1>3. x \in Errands /\ WorkIsRight(x)
    BY <1>2 DEF Errands, WorkIsRight
  <1> HIDE DEF x
  <1> QED BY <1>1, <1>3, CheckedKeeps

LEMMA CheckExtendKeeps ==
  ASSUME IInv, rec = Asleep, NEW w \in Workers, NEW t \in Teams, NEW s \in Scrims,
         CheckExtend(w, t, s), UNCHANGED team
  PROVE  IInv'
  <1>1. PICK saw \in States : saw = servers[s].state /\ saw \in {"running", "in_grace"}
    BY DEF CheckExtend, MayExtend, States
  <1> DEFINE x == [pc |-> "spend", op |-> "extend", team |-> t, scrim |-> s,
                   saw |-> saw, ends |-> 0]
  <1>2. /\ Free(w) /\ worker' = [worker EXCEPT ![w] = x]
        /\ UNCHANGED <<now, scrims, servers, rec, graces>>
    BY <1>1 DEF CheckExtend, serverVars
  <1>3. x \in Extensions /\ WorkIsRight(x)
    BY <1>1 DEF Extensions, WorkIsRight, IsLive
  <1> HIDE DEF x
  <1> QED BY <1>2, <1>3, CheckedKeeps

(* A request is over, or dies, with no change to rows the pages show. *)
LEMMA RestKeeps ==
  ASSUME IInv, rec = Asleep, NEW w \in Workers, ~Idle(w), Rest(w),
         UNCHANGED <<now, scrims, servers, rec, graces, team>>
  PROVE  IInv'
  <1>1. Resting \in {Resting} \cup Errands \cup Extensions /\ WorkIsRight(Resting)
    BY DEF WorkIsRight, Resting
  <1> QED BY <1>1, CheckedKeeps DEF Rest

LEMMA AttachKeeps ==
  ASSUME IInv, rec = Asleep, NEW w \in Workers, Attach(w), UNCHANGED team
  PROVE  IInv'
  <1>1. worker[w].pc = "attach" /\ ~Idle(w) /\ UNCHANGED <<now, scrims, rec, graces>>
    BY DEF Attach, Idle
  <1>2. PICK s \in Scrims, t \in Teams :
           /\ s = worker[w].scrim /\ t = worker[w].team /\ scrims[s].status # "none"
    BY <1>1, AtWork DEF WorkIsRight
  <1> DEFINE row == [state |-> "scheduled", owner |-> t,
                     ends |-> scrims[s].at + CreditTime, grace |-> FALSE]
  <1>3. servers' = [servers EXCEPT ![s] = row]
    BY <1>2 DEF Attach
  <1>4. row \in ServerRows
    <2>1. scrims[s].at \in Nat
      BY DEF IInv, Types, ScrimRows
    <2>2. CreditTime \in Nat
      BY ScrimServersAssumption
    <2> QED BY <2>1, <2>2 DEF ServerRows, States
  <1>5. row.state = "scheduled" /\ row.grace = FALSE
    OBVIOUS
  <1> HIDE DEF row
  <1>6. /\ servers' \in [Scrims -> ServerRows] /\ servers'[s] = row
        /\ \A r \in Scrims \ {s} : servers'[r] = servers[r]
    BY <1>3, <1>4 DEF IInv, Types
  <1>7. ASSUME NEW r \in Scrims PROVE Sound(r)'
    BY <1>1, <1>2, <1>5, <1>6 DEF IInv, Sound, IsLive, CalledOff
  <1>8. WorkIsRight(Resting)' /\ worker' = [worker EXCEPT ![w] = Resting]
    BY DEF WorkIsRight, Resting, Attach, Rest
  <1> QED BY <1>1, <1>6, <1>7, <1>8, RequestKeeps DEF IInv, Types

(* A scheduled server of a scrim that is over is cancelled. *)
LEMMA ReleaseKeeps ==
  ASSUME IInv, rec = Asleep, NEW w \in Workers,
         ReadServer(w) \/ CancelServer(w) \/ Refund(w), UNCHANGED team
  PROVE  IInv'
  <1>1. PICK x \in Errands : x = worker[w] /\ WorkIsRight(x) /\ ~Idle(w)
    <2>1. ~Idle(w) /\ worker[w].pc \in {"release", "cancel_server", "refund"}
      BY DEF ReadServer, CancelServer, Refund, Idle
    <2> QED BY <2>1, AtWork
  <1> DEFINE s == x.scrim
             cancelling == [x EXCEPT !.pc = "cancel_server"]
             refunding == [x EXCEPT !.pc = "refund"]
  <1>2. /\ s \in Scrims
        /\ cancelling \in Errands /\ cancelling.pc = "cancel_server" /\ cancelling.scrim = s
        /\ refunding \in Errands /\ refunding.pc = "refund" /\ refunding.scrim = s
    BY ErrandGoesOn DEF Errands
  <1> HIDE DEF cancelling, refunding
  <1>3. CASE ReadServer(w)
    <2>1. /\ CalledOff(s) /\ UNCHANGED <<now, scrims, servers, rec, graces>>
          /\ \/ Rest(w)
             \/ /\ servers[s].state = "scheduled"
                /\ worker' = [worker EXCEPT ![w] = cancelling]
      BY <1>1, <1>3 DEF ReadServer, WorkIsRight, Continue, serverVars, cancelling
    <2>2. CASE Rest(w)
      BY <1>1, <2>1, <2>2, RestKeeps
    <2>3. CASE /\ servers[s].state = "scheduled"
               /\ worker' = [worker EXCEPT ![w] = cancelling]
      <3>1. WorkIsRight(cancelling)
        BY <1>2, <2>1, <2>3 DEF WorkIsRight
      <3> QED BY <1>1, <1>2, <2>1, <2>3, <3>1, CheckedKeeps
    <2> QED BY <2>1, <2>2, <2>3
  <1>4. CASE CancelServer(w)
    <2>1. /\ CalledOff(s) /\ servers[s].state = "scheduled" /\ SetState(s, "cancelled")
          /\ worker' = [worker EXCEPT ![w] = refunding]
          /\ UNCHANGED <<now, scrims, rec>>
      BY <1>1, <1>4 DEF CancelServer, WorkIsRight, Continue, refunding
    <2> HIDE DEF s
    <2>2. /\ servers' \in [Scrims -> ServerRows] /\ graces' \in [Scrims -> Nat]
          /\ servers'[s].state = "cancelled" /\ servers'[s].grace = servers[s].grace
          /\ \A r \in Scrims \ {s} : servers'[r] = servers[r] /\ graces'[r] = graces[r]
          /\ graces'[s] >= graces[s]
      BY <1>2, <2>1, StateMoves DEF States
    <2>3. ASSUME NEW r \in Scrims PROVE Sound(r)'
      <3>1. Sound(r) /\ graces[r] \in Nat /\ graces'[r] \in Nat
        BY <2>2 DEF IInv, Types
      <3>2. CASE r = s
        BY <2>1, <2>2, <3>1, <3>2 DEF Sound, IsLive, CalledOff
      <3>3. CASE r # s
        BY <2>1, <2>2, <3>1, <3>3 DEF Sound, IsLive, CalledOff
      <3> QED BY <3>2, <3>3
    <2>4. WorkIsRight(refunding)'
      BY <1>2, <2>1, <2>2 DEF WorkIsRight, CalledOff
    <2> QED BY <1>1, <1>2, <2>1, <2>2, <2>3, <2>4, RequestKeeps DEF IInv, Types
  <1>5. CASE Refund(w)
    BY <1>1, <1>5, RestKeeps DEF Refund
  <1> QED BY <1>3, <1>4, <1>5


(* An extension finds its server as it was: on. *)
LEMMA ExtendKeeps ==
  ASSUME IInv, rec = Asleep, NEW w \in Workers,
         Spend(w) \/ ReadWindow(w) \/ WriteWindow(w) \/ Resume(w), UNCHANGED team
  PROVE  IInv'
  <1>1. PICK x \in Extensions : x = worker[w] /\ WorkIsRight(x) /\ ~Idle(w)
    <2>1. ~Idle(w) /\ worker[w].pc \in {"spend", "read_window", "write_window", "resume"}
      BY DEF Spend, ReadWindow, WriteWindow, Resume, Idle
    <2> QED BY <2>1, AtWork
  <1>2. PICK s \in Scrims : s = x.scrim /\ IsLive(s)
    BY <1>1 DEF Spend, ReadWindow, WriteWindow, Resume, WorkIsRight, Extensions
  <1> DEFINE reading == [x EXCEPT !.pc = "read_window"]
             resuming == [x EXCEPT !.pc = "resume"]
  <1>3. /\ reading \in Extensions /\ reading.pc = "read_window" /\ reading.scrim = s
        /\ resuming \in Extensions /\ resuming.pc = "resume" /\ resuming.scrim = s
    BY <1>2, ExtensionGoesOn
  <1> HIDE DEF reading, resuming
  <1>4. CASE Spend(w)
    <2>1. /\ UNCHANGED <<now, scrims, servers, rec, graces>>
          /\ Rest(w) \/ worker' = [worker EXCEPT ![w] = reading]
      BY <1>1, <1>4 DEF Spend, Continue, reading
    <2>2. WorkIsRight(reading)
      BY <1>2, <1>3 DEF WorkIsRight
    <2> QED BY <1>1, <1>3, <2>1, <2>2, RestKeeps, CheckedKeeps
  <1>5. CASE ReadWindow(w)
    <2>1. PICK ends \in Nat : ends = servers[s].ends
      BY DEF IInv, Types, ServerRows
    <2> DEFINE y == [x EXCEPT !.pc = "write_window", !.ends = ends]
    <2>2. y \in Extensions /\ y.pc = "write_window" /\ y.scrim = s
      BY <1>2 DEF Extensions
    <2>3. /\ worker' = [worker EXCEPT ![w] = y]
          /\ UNCHANGED <<now, scrims, servers, rec, graces>>
      BY <1>1, <1>2, <1>5, <2>1 DEF ReadWindow, serverVars
    <2> HIDE DEF y
    <2>4. WorkIsRight(y)
      BY <1>2, <2>2 DEF WorkIsRight
    <2> QED BY <1>1, <2>2, <2>3, <2>4, CheckedKeeps
  <1>6. CASE WriteWindow(w)
    <2>1. /\ servers' = [servers EXCEPT ![s].ends = x.ends + ExtensionTime]
          /\ UNCHANGED <<now, scrims, rec, graces>>
          /\ Rest(w) \/ worker' = [worker EXCEPT ![w] = resuming]
      BY <1>1, <1>2, <1>6 DEF WriteWindow, Continue, resuming
    <2>2. x.ends + ExtensionTime \in Nat
      BY ScrimServersAssumption DEF Extensions
    <2>3. /\ servers'[s] = [servers[s] EXCEPT !.ends = x.ends + ExtensionTime]
          /\ servers[s] \in ServerRows
          /\ \A r \in Scrims \ {s} : servers'[r] = servers[r]
      BY <2>1 DEF IInv, Types
    <2>4. /\ servers'[s] \in ServerRows /\ servers'[s].state = servers[s].state
          /\ servers'[s].grace = servers[s].grace
      BY <2>2, <2>3 DEF ServerRows
    <2>5. servers' \in [Scrims -> ServerRows]
      BY <2>1, <2>4 DEF IInv, Types
    <2>6. ASSUME NEW r \in Scrims PROVE Sound(r)'
      <3>1. Sound(r)
        BY DEF IInv
      <3>2. CASE r = s
        BY <1>2, <2>1, <2>4, <3>1, <3>2 DEF Sound, IsLive, CalledOff
      <3>3. CASE r # s
        BY <2>1, <2>3, <3>1, <3>3 DEF Sound, IsLive, CalledOff
      <3> QED BY <3>2, <3>3
    <2>7. WorkIsRight(resuming)' /\ WorkIsRight(Resting)'
      BY <1>2, <1>3, <2>4 DEF WorkIsRight, IsLive, Resting
    <2> QED
      BY <1>1, <1>3, <2>1, <2>5, <2>6, <2>7, RequestKeeps DEF IInv, Types, Rest
  <1>7. CASE Resume(w)
    <2>1. /\ SetState(s, "running") /\ UNCHANGED <<now, scrims, rec>>
          /\ worker' = [worker EXCEPT ![w] = Resting]
      BY <1>1, <1>2, <1>7 DEF Resume, Rest
    <2>2. /\ servers' \in [Scrims -> ServerRows] /\ graces' \in [Scrims -> Nat]
          /\ servers'[s].state = "running" /\ servers'[s].grace = servers[s].grace
          /\ \A r \in Scrims \ {s} : servers'[r] = servers[r] /\ graces'[r] = graces[r]
          /\ graces'[s] >= graces[s]
      BY <2>1, StateMoves DEF States
    <2>3. ASSUME NEW r \in Scrims PROVE Sound(r)'
      <3>1. Sound(r) /\ graces[r] \in Nat /\ graces'[r] \in Nat
        BY <2>2 DEF IInv, Types
      <3>2. CASE r = s
        BY <1>2, <2>1, <2>2, <3>1, <3>2 DEF Sound, IsLive, CalledOff
      <3>3. CASE r # s
        BY <2>1, <2>2, <3>1, <3>3 DEF Sound, IsLive, CalledOff
      <3> QED BY <3>2, <3>3
    <2>4. WorkIsRight(Resting)'
      BY DEF WorkIsRight, Resting
    <2> QED BY <1>1, <2>1, <2>2, <2>3, <2>4, RequestKeeps DEF IInv, Types
  <1> QED BY <1>4, <1>5, <1>6, <1>7

LEMMA PageRequestKeeps ==
  ASSUME IInv, rec = Asleep, PageRequest, UNCHANGED team
  PROVE  IInv'
  <1>1. PICK w \in Workers :
           \/ GoOn(w) /\ UNCHANGED serverVars
           \/ GoOnServers(w)
           \/ \E u \in Users : AskPage(w, u)
    BY DEF PageRequest
  <1>2. CASE GoOn(w) /\ UNCHANGED serverVars
    <2>1. CASE Crash(w)
      BY <1>2, <2>1, RestKeeps DEF Crash, serverVars
    <2> QED BY <1>2, <2>1, SetStatusKeeps, ClaimKeeps DEF GoOn
  <1>3. CASE GoOnServers(w)
    <2>1. CASE AttachFails(w)
      BY <2>1, RestKeeps DEF AttachFails, Idle, serverVars
    <2> QED BY <1>3, <2>1, AttachKeeps, ReleaseKeeps, ExtendKeeps DEF GoOnServers
  <1>4. ASSUME NEW u \in Users, AskPage(w, u)
        PROVE  IInv'
    <2>1. Account[u] \in Teams /\ team[u] \in Teams \cup {NoTeam}
      BY PagesAssumption DEF IInv, Types
    <2>2. CASE AtHome(u) /\ Ask(w, team[u]) /\ UNCHANGED serverVars
      BY <2>1, <2>2, AskKeeps DEF AtHome
    <2>3. ASSUME NEW s \in Scrims, NEW op \in Lifecycle \ {"claim"}, Linked(u),
                 Check(w, op, team[u], s), UNCHANGED serverVars
          PROVE  IInv'
      BY <2>1, <2>3, CheckKeeps DEF Linked
    <2>4. ASSUME NEW s \in Scrims, AtHome(u), CheckAttach(w, team[u], s)
          PROVE  IInv'
      BY <2>1, <2>4, CheckAttachKeeps DEF AtHome
    <2>5. ASSUME NEW s \in Scrims, CheckExtend(w, Account[u], s)
          PROVE  IInv'
      BY <2>1, <2>5, CheckExtendKeeps
    <2> QED BY <1>4, <2>2, <2>3, <2>4, <2>5 DEF AskPage
  <1> QED BY <1>1, <1>2, <1>3, <1>4

-----------------------------------------------------------------------------
(* The reconciler, the clock, and the league                               *)

(* Server s has been dealt with, and its grace given if it was marked. *)
LEMMA DoneKeeps ==
  ASSUME IInv, AllIdle, NEW s \in DOMAIN rec.rows, Done(s),
         rec.marked \subseteq {s},
         UNCHANGED <<scrimVars, team>>,
         servers' \in [Scrims -> ServerRows], graces' \in [Scrims -> Nat],
         Sound(s)',
         \A r \in Scrims \ {s} : servers'[r] = servers[r] /\ graces'[r] = graces[r]
  PROVE  IInv'
  <1>1. UNCHANGED <<now, scrims, worker>>
    BY DEF scrimVars
  <1>2. Types' /\ Serial'
    BY <1>1 DEF IInv, Types, Serial, AllIdle, Idle
  <1>3. rec'.marked = {} /\ RunIsRight'
    <2>1. CASE rec' = Asleep
      BY <1>1, <2>1 DEF IInv, Types, RunIsRight, Asleep
    <2>2. CASE rec' = [rec EXCEPT !.marked = {},
                         !.rows = [r \in DOMAIN rec.rows \ {s} |-> rec.rows[r]]]
      <3>1. /\ rec' = [now |-> rec.now, marked |-> {},
                       rows |-> [r \in DOMAIN rec.rows \ {s} |-> rec.rows[r]]]
        BY <2>2 DEF IInv, RunIsRight
      <3> QED BY <1>1, <3>1 DEF IInv, RunIsRight
    <2> QED BY <2>1, <2>2 DEF Done
  <1>4. ASSUME NEW r \in Scrims PROVE Sound(r)'
    BY <1>1, <1>3 DEF IInv, Sound, IsLive, CalledOff
  <1>5. \A w \in Workers : WorkIsRight(worker[w])'
    BY <1>1 DEF WorkIsRight, AllIdle, Idle
  <1> QED BY <1>2, <1>3, <1>4, <1>5 DEF IInv


(* What a run has read of a server, and when, is true of it still. *)
LEMMA RowsAreCurrent ==
  ASSUME IInv, NEW s \in DOMAIN rec.rows, rec.marked = {}
  PROVE  /\ rec.rows[s] = servers[s] /\ rec.now <= now /\ rec.now \in Nat
         /\ AllIdle /\ s \in Scrims
  <1>1. rec # Asleep
    BY DEF Asleep
  <1> QED BY <1>1 DEF IInv, RunIsRight, Serial

LEMMA AdvanceKeeps ==
  ASSUME IInv, NEW s \in Scrims, NEW state \in States, Advance(s, state),
         UNCHANGED team
  PROVE  IInv'
  <1>1. /\ rec.marked = {} /\ s \in DOMAIN rec.rows /\ UNCHANGED scrimVars
        /\ UNCHANGED <<now, scrims, worker>>
        /\ Due(rec.rows[s], scrims[s].at, rec.now, state)
    BY DEF Advance, scrimVars
  <1>2. /\ rec.rows[s] = servers[s] /\ rec.now <= now /\ rec.now \in Nat /\ AllIdle
        /\ Sound(s) /\ scrims[s].at \in Nat /\ now \in Nat /\ graces[s] \in Nat
    BY <1>1, RowsAreCurrent DEF IInv, Types, ScrimRows
  <1>3. /\ state = "running" => scrims[s].at <= now /\ servers[s].state # "none"
        /\ state = "stopped" => graces[s] > 0 /\ servers[s].state # "none"
        /\ state = "in_grace" => servers[s].state = "running"
        /\ state \in {"running", "stopped", "in_grace"}
    BY <1>1, <1>2 DEF Due, Sound, IsLive
  <1>4. CASE /\ state = "in_grace" /\ servers' = [servers EXCEPT ![s].grace = TRUE]
             /\ rec' = [rec EXCEPT !.marked = {s}] /\ UNCHANGED graces
    <2>1. /\ servers'[s] = [servers[s] EXCEPT !.grace = TRUE]
          /\ servers[s] \in ServerRows
          /\ \A r \in Scrims \ {s} : servers'[r] = servers[r]
      BY <1>4 DEF IInv, Types
    <2>2. servers'[s] \in ServerRows /\ servers'[s].state = servers[s].state
      BY <2>1 DEF ServerRows
    <2>3. /\ rec' = [now |-> rec.now, rows |-> rec.rows, marked |-> {s}]
          /\ rec \in [now : Nat, rows : {rec.rows}, marked : SUBSET Scrims]
      BY <1>4 DEF IInv, RunIsRight
    <2>4. Types' /\ Serial'
      BY <1>1, <1>2, <1>4, <2>2 DEF IInv, Types, Serial, AllIdle, Idle
    <2>5. RunIsRight'
      BY <1>1, <1>2, <1>3, <1>4, <2>1, <2>2, <2>3 DEF IInv, RunIsRight
    <2>6. ASSUME NEW r \in Scrims PROVE Sound(r)'
      <3>1. Sound(r)
        BY DEF IInv
      <3>2. CASE r = s
        BY <1>1, <1>3, <1>4, <2>2, <2>3, <3>1, <3>2 DEF Sound, IsLive, CalledOff
      <3>3. CASE r # s
        BY <1>1, <1>4, <2>1, <2>3, <3>1, <3>3 DEF Sound, IsLive, CalledOff
      <3> QED BY <3>2, <3>3
    <2>7. \A w \in Workers : WorkIsRight(worker[w])'
      BY <1>1, <1>2 DEF WorkIsRight, AllIdle, Idle
    <2> QED BY <2>4, <2>5, <2>6, <2>7 DEF IInv
  <1>5. CASE state # "in_grace" /\ SetState(s, state) /\ Done(s)
    <2>1. /\ servers' \in [Scrims -> ServerRows] /\ graces' \in [Scrims -> Nat]
          /\ servers'[s].state = state /\ servers'[s].grace = servers[s].grace
          /\ \A r \in Scrims \ {s} : servers'[r] = servers[r] /\ graces'[r] = graces[r]
          /\ graces'[s] >= graces[s]
      BY <1>5, StateMoves
    <2>2. graces'[s] \in Nat
      BY <2>1
    <2>3. Sound(s)'
      BY <1>1, <1>2, <1>3, <1>5, <2>1, <2>2 DEF Sound, IsLive, CalledOff
    <2> QED BY <1>1, <1>2, <1>5, <2>1, <2>3, DoneKeeps
  <1> QED BY <1>4, <1>5 DEF Advance

LEMMA EnterGraceKeeps ==
  ASSUME IInv, NEW s \in Scrims, EnterGrace(s), UNCHANGED team
  PROVE  IInv'
  <1>1. /\ s \in rec.marked /\ SetState(s, "in_grace") /\ Done(s)
        /\ UNCHANGED scrimVars /\ UNCHANGED <<now, scrims>>
    BY DEF EnterGrace, scrimVars
  <1>2. /\ s \in DOMAIN rec.rows /\ rec.marked = {s} /\ servers[s].state = "running"
        /\ AllIdle /\ Sound(s)
    BY <1>1 DEF IInv, RunIsRight, Serial, Asleep
  <1>3. /\ servers' \in [Scrims -> ServerRows] /\ graces' \in [Scrims -> Nat]
        /\ servers'[s].state = "in_grace"
        /\ \A r \in Scrims \ {s} : servers'[r] = servers[r] /\ graces'[r] = graces[r]
        /\ graces'[s] > 0
    BY <1>1, StateMoves DEF States
  <1>4. Sound(s)'
    BY <1>1, <1>2, <1>3 DEF Sound, IsLive, CalledOff
  <1> QED BY <1>1, <1>2, <1>3, <1>4, DoneKeeps

LEMMA StartKeeps ==
  ASSUME IInv, Start, UNCHANGED team
  PROVE  IInv'
  <1> DEFINE rows == [s \in {r \in Scrims : Overdue(r, now)} |-> servers[s]]
  <1>1. /\ AllIdle /\ UNCHANGED <<now, scrims, worker, servers, graces>>
        /\ rec' = [now |-> now, marked |-> {}, rows |-> rows]
        /\ rec = Asleep
    BY PagesAssumption DEF Start, scrimVars
  <1>2. Types' /\ Serial'
    BY <1>1 DEF IInv, Types, Serial, AllIdle, Idle
  <1>3. /\ DOMAIN rows \subseteq Scrims
        /\ \A s \in DOMAIN rows : rows[s] = servers[s]
    OBVIOUS
  <1> HIDE DEF rows
  <1>4. RunIsRight'
    BY <1>1, <1>3 DEF IInv, Types, RunIsRight
  <1>5. rec.marked = {} /\ rec'.marked = {}
    BY <1>1 DEF Asleep
  <1>6. \A s \in Scrims : Sound(s)'
    BY <1>1, <1>5 DEF IInv, Sound, IsLive, CalledOff
  <1>7. \A w \in Workers : WorkIsRight(worker[w])'
    BY <1>1 DEF WorkIsRight, AllIdle, Idle
  <1> QED BY <1>2, <1>4, <1>6, <1>7 DEF IInv

(* What is due stays due, and what has begun has begun. *)
LEMMA ClockKeeps ==
  ASSUME IInv, Clock, UNCHANGED team
  PROVE  IInv'
  <1>1. now' = now + 1 /\ UNCHANGED <<scrims, worker, servers, rec, graces>>
    BY DEF Clock, Tick, serverVars
  <1>2. now \in Nat /\ \A s \in Scrims : scrims[s].at \in Nat
    BY DEF IInv, Types, ScrimRows
  <1>3. Types' /\ Serial'
    BY <1>1, <1>2 DEF IInv, Types, Serial, AllIdle, Idle
  <1>4. RunIsRight'
    BY <1>1, <1>2 DEF IInv, RunIsRight
  <1>5. ASSUME NEW s \in Scrims PROVE Sound(s)'
    BY <1>1, <1>2 DEF IInv, Sound, IsLive, CalledOff
  <1>6. ASSUME NEW w \in Workers PROVE WorkIsRight(worker[w])'
    BY <1>1 DEF IInv, WorkIsRight, IsLive, CalledOff
  <1> QED BY <1>3, <1>4, <1>5, <1>6 DEF IInv

(* Nothing rests on which team a user is on. *)
LEMMA TeamsKeep ==
  ASSUME IInv, UNCHANGED allVars, team' \in [Users -> Teams \cup {NoTeam}]
  PROVE  IInv'
  <1>1. UNCHANGED <<now, scrims, worker, servers, rec, graces>>
    BY DEF allVars, scrimVars, serverVars
  <1>2. Types' /\ Serial' /\ RunIsRight'
    BY <1>1 DEF IInv, Types, Serial, AllIdle, Idle, RunIsRight
  <1>3. ASSUME NEW s \in Scrims PROVE Sound(s)'
    BY <1>1 DEF IInv, Sound, IsLive, CalledOff
  <1>4. ASSUME NEW w \in Workers PROVE WorkIsRight(worker[w])'
    BY <1>1 DEF IInv, WorkIsRight, IsLive, CalledOff
  <1> QED BY <1>2, <1>3, <1>4 DEF IInv

LEMMA StepKeeps == IInv /\ [NextPages]_pageVars => IInv'
  <1> SUFFICES ASSUME IInv, [NextPages]_pageVars PROVE IInv'
    OBVIOUS
  <1>1. CASE rec = Asleep /\ PageRequest /\ UNCHANGED team
    BY <1>1, PageRequestKeeps
  <1>2. CASE Start /\ UNCHANGED team
    BY <1>2, StartKeeps
  <1>3. CASE Move /\ UNCHANGED team
    BY <1>3, AdvanceKeeps, EnterGraceKeeps DEF Move
  <1>4. CASE Clock /\ UNCHANGED team
    BY <1>4, ClockKeeps
  <1>5. CASE \E u \in Users : Refresh(u)
    BY <1>5, TeamsKeep DEF Refresh, IInv, Types
  <1>6. CASE UNCHANGED pageVars
    BY <1>6, TeamsKeep DEF pageVars, IInv, Types
  <1> QED BY <1>1, <1>2, <1>3, <1>4, <1>5, <1>6 DEF NextPages, Reconcile


(* The strengthening holds throughout: what the routes, the reconciler and *)
(* RGL's answers leave behind, one after the other.                        *)
THEOREM Invariance == SpecPages => []IInv
  <1> QED BY InitIInv, StepKeeps, PTL DEF SpecPages

-----------------------------------------------------------------------------
(* The pages                                                               *)

(* Whoever may see a scrim with a server that is on plays in it: listings  *)
(* are shown to others only until they begin.                              *)
LEMMA LiveIsPlayed ==
  ASSUME IInv, NEW u \in Users, NEW s \in Scrims, Visible(u, s), IsLive(s)
  PROVE  CanAccess(u, s)
  <1>1. scrims[s].at <= now /\ servers[s] # NoServer
    BY DEF IInv, Sound, IsLive, NoServer
  <1>2. ~Future(s)
    BY <1>1 DEF IInv, Types, ScrimRows, Future
  <1> QED BY <1>1, <1>2 DEF Visible, CanAccess

(* A button that renders always succeeds (scrim_detail.html, scrims.html,  *)
(* dashboard.html, servers_list.html and server_detail.html, against the   *)
(* guards of app/scrims.py and app/servers_store.py).                      *)
THEOREM EveryButtonWorks == SpecPages => []ButtonsWork
  <1>1. ASSUME IInv, NEW u \in Users, NEW s \in Scrims, NEW op \in Operations
        PROVE  /\ OnDetail(u, op, s) => Accepted(u, op, s)
               /\ OnLists(u, op, s) => Accepted(u, op, s)
               /\ OnServer(u, op, s) => Accepted(u, op, s)
    <2>1. scrims[s].status = "open" => scrims[s].origin = "listing"
      BY <1>1 DEF IInv, Sound
    <2>2. /\ scrims[s].status # "none" => scrims[s].proposer # NoTeam
          /\ OnSide(u, s) => MayAttach(team[u], s) \/ servers[s] # NoServer
      BY <1>1 DEF IInv, Sound, OnSide, IsOwn, IsOpponent, IsMember, MayAttach
    <2>3. ASSUME OnDetail(u, op, s) PROVE Accepted(u, op, s)
      <3>1. CASE op = "extend"
        BY <1>1, <2>3, <3>1, LiveIsPlayed DEF OnDetail, Accepted, Lifecycle, Ending
      <3>2. CASE op = "attach"
        BY <2>2, <2>3, <3>2 DEF OnDetail, Accepted, Lifecycle, Ending
      <3>3. CASE op \in Lifecycle
        BY <2>1, <2>2, <2>3, <3>3
        DEF OnDetail, Accepted, Visible, OnSide, IsOwn, IsOpponent, IsMember, Linked,
            Future, May, MayAccept, MayDecline, MayWithdraw, MayCancel,
            MayCancelListing, MayClaim, Lifecycle, Ending
      <3>4. CASE op = "settings"
        BY <2>3, <3>4 DEF OnDetail
      <3> QED BY <3>1, <3>2, <3>3, <3>4 DEF Operations
    <2>4. ASSUME OnLists(u, op, s) PROVE Accepted(u, op, s)
      <3>1. CASE op = "attach"
        BY <2>2, <2>4, <3>1
        DEF OnLists, ScrimsWithoutServers, Accepted, Visible, Linked, NoScrim,
            Lifecycle, Ending
      <3>2. CASE op \in Lifecycle
        BY <2>1, <2>2, <2>4, <3>2
        DEF OnLists, Accepted, OnSide, IsOwn, IsOpponent, IsMember, Linked, Future,
            IncomingPending, OutgoingPending, UpcomingConfirmed, MyOpenListings,
            OpenListings, With, May, MayAccept, MayDecline, MayWithdraw, MayCancel,
            MayCancelListing, MayClaim, Lifecycle, Ending
      <3>3. CASE op \in {"extend", "settings"}
        BY <2>4, <3>3 DEF OnLists
      <3> QED BY <3>1, <3>2, <3>3 DEF Operations
    <2>5. ASSUME OnServer(u, op, s) PROVE Accepted(u, op, s)
      BY <2>5 DEF OnServer, Accepted
    <2> QED BY <2>3, <2>4, <2>5
  <1>2. IInv => ButtonsWork
    BY <1>1 DEF ButtonsWork
  <1> QED BY <1>2, Invariance, PTL

(* What the service would do for a user, a page the user can open offers   *)
(* (get_scrim_for_viewer and scrim_detail.html).                           *)
THEOREM EveryScrimIsActionable == SpecPages => []ActionableFromItsPage
  <1>1. ASSUME IInv, NEW u \in Users, NEW s \in Scrims,
               NEW op \in Operations \ {"attach"}, Accepted(u, op, s)
        PROVE  OnDetail(u, op, s) \/ OnServer(u, op, s)
    <2>1. CASE op \in {"extend", "settings"}
      BY <1>1, <2>1 DEF OnServer, Accepted, Lifecycle, Ending
    <2>2. CASE op \in Lifecycle
      <3>1. Linked(u) /\ May(op, team[u], scrims[s])
        BY <1>1, <2>2 DEF Accepted, Lifecycle, Ending
      <3>2. scrims[s] # NoScrim
        BY <3>1
        DEF NoScrim, May, MayAccept, MayDecline, MayWithdraw, MayCancel,
            MayCancelListing, MayClaim
      <3>3. scrims[s].status # "none" => scrims[s].proposer # NoTeam
        BY <1>1 DEF IInv, Sound
      <3>4. CASE op = "claim"
        BY <1>1, <3>1, <3>2, <3>4
        DEF Accepted, OnDetail, Visible, IsOwn, IsMember, Linked, Future, May, MayClaim,
            Lifecycle, Ending
      <3>5. CASE op # "claim"
        BY <2>2, <3>1, <3>2, <3>3, <3>5
        DEF OnDetail, Visible, OnSide, IsOwn, IsOpponent, IsMember, Linked,
            May, MayAccept, MayDecline, MayWithdraw, MayCancel, MayCancelListing,
            Lifecycle, Ending
      <3> QED BY <3>4, <3>5
    <2> QED BY <2>1, <2>2 DEF Operations
  <1>2. IInv => ActionableFromItsPage
    BY <1>1 DEF ActionableFromItsPage
  <1> QED BY <1>2, Invariance, PTL

(* A scrim that is still to be played and shows no server can be given one *)
(* (scrims_without_servers against the has_server subquery).               *)
THEOREM UnservedScrimsCanBeServed == SpecPages => []UnservedCanBeServed
  <1>1. ASSUME IInv, NEW u \in Users, NEW s \in Scrims,
               OnSide(u, s), Future(s), ~HasServer(s),
               scrims[s].status \in {"pending", "open", "confirmed"}
        PROVE  s \in ScrimsWithoutServers(u) /\ MayAttach(team[u], s)
    <2>1. servers[s] = NoServer
      BY <1>1 DEF HasServer, IInv, Sound, CalledOff
    <2> QED
      BY <1>1, <2>1
      DEF ScrimsWithoutServers, MayAttach, OnSide, IsOwn, IsOpponent, IsMember
  <1>2. IInv => UnservedCanBeServed
    BY <1>1 DEF UnservedCanBeServed
  <1> QED BY <1>2, Invariance, PTL

-----------------------------------------------------------------------------
(* Servers and scrims, step by step                                        *)

(* No server stops but after its grace (reconcile-servers, app/cli.py).    *)
THEOREM EveryStopHasItsGrace == SpecPages => []GraceBeforeStop
  <1>1. IInv => GraceBeforeStop
    BY DEF IInv, Sound, GraceBeforeStop
  <1> QED BY <1>1, Invariance, PTL

(* What a request or a run may write of servers and scrims, by the action. *)
LEMMA WhoWrites ==
  ASSUME NextPages \/ UNCHANGED pageVars
  PROVE  /\ \/ UNCHANGED servers
            \/ \E w \in Workers : \/ Attach(w) \/ CancelServer(w)
                                  \/ WriteWindow(w) \/ Resume(w)
            \/ \E s \in Scrims : \/ \E state \in States : Advance(s, state)
                                 \/ EnterGrace(s)
         /\ \/ UNCHANGED scrims
            \/ \E w \in Workers : \/ rec = Asleep /\ SetStatus(w)
                                  \/ Claim(w)
                                  \/ \E t \in Teams : Ask(w, t)
  <1>1. CASE UNCHANGED pageVars
    BY <1>1 DEF pageVars, allVars, scrimVars, serverVars
  <1>2. CASE \E u \in Users : Refresh(u)
    BY <1>2 DEF Refresh, allVars, scrimVars, serverVars
  <1>3. CASE Clock
    BY <1>3 DEF Clock, Tick, serverVars
  <1>4. CASE Reconcile
    BY <1>4 DEF Reconcile, Start, Move, Advance, EnterGrace, scrimVars
  <1>5. ASSUME rec = Asleep, NEW w \in Workers,
               \/ GoOn(w) /\ UNCHANGED serverVars
               \/ GoOnServers(w)
        PROVE  /\ \/ UNCHANGED servers
                  \/ Attach(w) \/ CancelServer(w) \/ WriteWindow(w) \/ Resume(w)
               /\ UNCHANGED scrims \/ SetStatus(w) \/ Claim(w)
    BY <1>5
    DEF GoOn, Crash, GoOnServers, Attach, AttachFails, ReadServer, CancelServer, Refund,
        Spend, ReadWindow, WriteWindow, Resume, serverVars
  <1>6. ASSUME NEW w \in Workers, NEW u \in Users, AskPage(w, u)
        PROVE  /\ UNCHANGED servers
               /\ UNCHANGED scrims \/ \E t \in Teams : Ask(w, t)
    BY <1>6, PagesAssumption
    DEF AskPage, AtHome, Check, CheckAttach, CheckExtend, serverVars
  <1> QED BY <1>1, <1>2, <1>3, <1>4, <1>5, <1>6 DEF NextPages, PageRequest

(* A server is not stopped before the time bought for it is over           *)
(* (servers_store.due_state and extend_window).                            *)
THEOREM NoStopBeforeTheEnd == SpecPages => NotCutShort
  <1>1. ASSUME IInv, NextPages \/ UNCHANGED pageVars, NEW s \in Scrims,
               servers[s].state # "stopped", servers'[s].state = "stopped"
        PROVE  now >= servers[s].ends
    <2>1. ASSUME NEW r \in Scrims, NEW state \in States,
                 servers' = [servers EXCEPT ![r].state = state]
          PROVE  r = s /\ state = "stopped"
      BY <1>1, <2>1 DEF IInv, Types, ServerRows
    <2>2. ASSUME NEW w \in Workers, CancelServer(w) \/ Resume(w)
          PROVE  FALSE
      <3>1. worker[w].scrim \in Scrims
        BY <1>1, <2>2, AtWork DEF CancelServer, Resume, Idle
      <3>2. \/ servers' = [servers EXCEPT ![worker[w].scrim].state = "cancelled"]
            \/ servers' = [servers EXCEPT ![worker[w].scrim].state = "running"]
        BY <2>2 DEF CancelServer, Resume, SetState
      <3> QED BY <2>1, <3>1, <3>2 DEF States
    <2>3. ASSUME NEW w \in Workers, Attach(w) \/ WriteWindow(w)
          PROVE  FALSE
      <3>1. PICK r \in Scrims : r = worker[w].scrim
        BY <1>1, <2>3, AtWork DEF Attach, WriteWindow, Idle
      <3>2. CASE Attach(w)
        <4> DEFINE row == [state |-> "scheduled", owner |-> worker[w].team,
                           ends |-> scrims[r].at + CreditTime, grace |-> FALSE]
        <4>1. servers' = [servers EXCEPT ![r] = row] /\ row.state = "scheduled"
          BY <3>1, <3>2 DEF Attach
        <4> HIDE DEF row
        <4> QED BY <1>1, <4>1 DEF IInv, Types
      <3>3. CASE WriteWindow(w)
        <4>1. PICK ends : servers' = [servers EXCEPT ![r].ends = ends]
          BY <3>1, <3>3 DEF WriteWindow
        <4> QED BY <1>1, <4>1 DEF IInv, Types, ServerRows
      <3> QED BY <2>3, <3>2, <3>3
    <2>4. ASSUME NEW r \in Scrims, EnterGrace(r)
          PROVE  FALSE
      BY <2>1, <2>4 DEF EnterGrace, SetState, States
    <2>5. ASSUME NEW r \in Scrims, NEW state \in States, Advance(r, state)
          PROVE  now >= servers[s].ends
      <3>1. /\ rec.marked = {} /\ r \in DOMAIN rec.rows
            /\ Due(rec.rows[r], scrims[r].at, rec.now, state)
            /\ \/ servers' = [servers EXCEPT ![r].grace = TRUE]
               \/ servers' = [servers EXCEPT ![r].state = state]
        BY <2>5 DEF Advance, SetState
      <3>2. r = s /\ state = "stopped"
        <4>1. CASE servers' = [servers EXCEPT ![r].grace = TRUE]
          BY <1>1, <4>1 DEF IInv, Types, ServerRows
        <4>2. CASE servers' = [servers EXCEPT ![r].state = state]
          BY <2>1, <4>2
        <4> QED BY <3>1, <4>1, <4>2
      <3>3. /\ rec.rows[r] = servers[r] /\ rec.now <= now /\ rec.now \in Nat /\ now \in Nat
            /\ servers[r].ends \in Nat /\ GraceTime \in Nat
        BY <1>1, <3>1, RowsAreCurrent, ScrimServersAssumption DEF IInv, Types, ServerRows
      <3> QED BY <3>1, <3>2, <3>3 DEF Due
    <2> QED BY <1>1, <2>2, <2>3, <2>4, <2>5, WhoWrites
  <1>2. IInv /\ [NextPages]_pageVars =>
           [\A s \in Scrims :
              servers[s].state # "stopped" /\ servers'[s].state = "stopped" =>
                  now >= servers[s].ends]_allVars
    BY <1>1 DEF pageVars
  <1> QED BY <1>2, Invariance, PTL DEF SpecPages, NotCutShort

(* A scrim's status takes only the steps scrims.py's header draws          *)
(* (_set_status is unconditional; the guards before it are what holds).    *)
THEOREM TheStateMachine == SpecPages => FollowsStateMachine
  <1>1. ASSUME IInv, NextPages \/ UNCHANGED pageVars, NEW s \in Scrims,
               scrims[s] # NoScrim, scrims'[s].status # scrims[s].status
        PROVE  <<scrims[s].status, scrims'[s].status>> \in StatusSteps
    <2>1. ASSUME NEW w \in Workers, SetStatus(w)
          PROVE  <<scrims[s].status, scrims'[s].status>> \in StatusSteps
      <3>1. PICK r \in Scrims, op \in Lifecycle \ {"claim"}, t \in Teams \cup {NoTeam} :
               r = worker[w].scrim /\ op = worker[w].op /\ May(op, t, scrims[r])
        BY <1>1, <2>1, AtWork DEF SetStatus, Idle, WorkIsRight
      <3>2. scrims' = [scrims EXCEPT ![r].status = NewStatus[op]]
        BY <2>1, <3>1 DEF SetStatus
      <3>3. r = s /\ scrims'[s].status = NewStatus[op]
        BY <1>1, <3>2 DEF IInv, Types, ScrimRows
      <3> QED
        BY <3>1, <3>3
        DEF StatusSteps, NewStatus, May, MayAccept, MayDecline, MayWithdraw, MayCancel,
            MayCancelListing, Lifecycle, Ending
    <2>2. ASSUME NEW w \in Workers, Claim(w)
          PROVE  <<scrims[s].status, scrims'[s].status>> \in StatusSteps
      <3>1. PICK r \in Scrims : r = worker[w].scrim
        BY <1>1, <2>2, AtWork DEF Claim, Idle
      <3>2. \/ UNCHANGED scrims
            \/ /\ scrims[r].status = "open"
               /\ \E t : scrims' = [scrims EXCEPT ![r].status = "confirmed",
                                                  ![r].opponent = t]
        BY <2>2, <3>1 DEF Claim
      <3>3. r = s /\ scrims[s].status = "open" /\ scrims'[s].status = "confirmed"
        BY <1>1, <3>2 DEF IInv, Types, ScrimRows
      <3> QED BY <3>3 DEF StatusSteps
    <2>3. ASSUME NEW w \in Workers, NEW t \in Teams, Ask(w, t)
          PROVE  FALSE
      <3>1. \/ UNCHANGED scrims
            \/ \E r \in Scrims : \E row :
                  scrims[r] = NoScrim /\ scrims' = [scrims EXCEPT ![r] = row]
        BY <2>3 DEF Ask, CreateProposal, CreateListing, Create, Check
      <3> QED BY <1>1, <3>1 DEF IInv, Types
    <2> QED BY <1>1, <2>1, <2>2, <2>3, WhoWrites
  <1>2. IInv /\ [NextPages]_pageVars =>
           [\A s \in Scrims :
              scrims[s] # NoScrim /\ scrims'[s].status # scrims[s].status =>
                  <<scrims[s].status, scrims'[s].status>> \in StatusSteps]_scrimVars
    BY <1>1 DEF pageVars
  <1> QED BY <1>2, Invariance, PTL DEF SpecPages, FollowsStateMachine

-----------------------------------------------------------------------------
(* The books, while no request dies between its statements                 *)

(* A request is about to give the credit for s back. *)
Owed(s) == \E w \in Workers : worker[w].pc = "refund" /\ worker[w].scrim = s

Booked(s) ==
    IF servers[s].state = "none"
    THEN \A t \in Teams : ledger[t][s]["reserve"] = ledger[t][s]["release"]
    ELSE LET owner == servers[s].owner
         IN  /\ owner \in Teams
             /\ IF servers[s].state = "cancelled" /\ ~Owed(s)
                THEN ledger[owner][s]["reserve"] = ledger[owner][s]["release"]
                ELSE ledger[owner][s]["reserve"] = ledger[owner][s]["release"] + 1

Books ==
    /\ ledger \in [Teams -> [Scrims -> [Kinds -> Nat]]]
    /\ \A s \in Scrims : Booked(s)

(* A step that books neither reservation nor refund, cancels nothing, and  *)
(* neither begins nor ends a refund.                                       *)
LEMMA QuietStepsKeepBooks ==
  ASSUME Books,
         ledger' \in [Teams -> [Scrims -> [Kinds -> Nat]]],
         \A t \in Teams, s \in Scrims :
            /\ ledger'[t][s]["reserve"] = ledger[t][s]["reserve"]
            /\ ledger'[t][s]["release"] = ledger[t][s]["release"],
         \A s \in Scrims :
            /\ servers'[s].owner = servers[s].owner
            /\ servers'[s].state = "none" <=> servers[s].state = "none"
            /\ servers'[s].state = "cancelled" <=> servers[s].state = "cancelled"
            /\ Owed(s)' <=> Owed(s)
  PROVE  Books'
  <1>1. ASSUME NEW s \in Scrims PROVE Booked(s)'
    <2>1. Booked(s) /\ servers'[s].owner = servers[s].owner
      BY DEF Books
    <2>2. CASE servers[s].state = "none"
      <3>1. \A t \in Teams : ledger'[t][s]["reserve"] = ledger'[t][s]["release"]
        BY <2>1, <2>2 DEF Booked
      <3> QED BY <2>2, <3>1 DEF Booked
    <2>3. CASE servers[s].state # "none"
      <3> DEFINE owner == servers[s].owner
                 settled == servers[s].state = "cancelled" /\ ~Owed(s)
      <3>1. /\ owner \in Teams /\ owner' = owner
            /\ settled' <=> settled
            /\ servers'[s].state # "none"
        BY <2>1, <2>3 DEF Booked
      <3>2. /\ ledger'[owner][s]["reserve"] = ledger[owner][s]["reserve"]
            /\ ledger'[owner][s]["release"] = ledger[owner][s]["release"]
        BY <3>1
      <3> QED BY <2>1, <2>3, <3>1, <3>2 DEF Booked
    <2> QED BY <2>2, <2>3
  <1> QED BY <1>1 DEF Books

(* Worker w moves alone, from and to anything but a refund. *)
Elsewhere(w) ==
    /\ \A v \in Workers \ {w} : worker'[v] = worker[v]
    /\ worker[w].pc # "refund" /\ worker'[w].pc # "refund"

LEMMA OwedStays ==
  ASSUME NEW w \in Workers, Elsewhere(w)
  PROVE  \A s \in Scrims : Owed(s)' <=> Owed(s)
  BY DEF Owed, Elsewhere

(* Requests that have nothing to do with servers. *)
LEMMA ScrimStepsKeepBooks ==
  ASSUME IInv, Books, ~Crashes, NEW w \in Workers,
         \/ GoOn(w)
         \/ \E t \in Teams : Ask(w, t)
         \/ \E op, t, s : Check(w, op, t, s),
         UNCHANGED serverVars
  PROVE  Books'
  <1>1. UNCHANGED worker \/ Elsewhere(w)
    <2>1. CASE GoOn(w)
      BY <2>1
      DEF GoOn, SetStatus, Claim, Crash, Call, Busy, Rest, Resting, IInv, Types, Elsewhere
    <2>2. ASSUME NEW t \in Teams, NEW s \in Scrims, NEW row, Create(w, t, s, row)
          PROVE  UNCHANGED worker \/ Elsewhere(w)
      BY <2>2 DEF Create, Busy, Free, Idle, IInv, Types, Elsewhere
    <2>3. ASSUME NEW op, NEW t, NEW s, Check(w, op, t, s)
          PROVE  Elsewhere(w)
      BY <2>3 DEF Check, Busy, Free, Idle, IInv, Types, Elsewhere
    <2> QED BY <2>1, <2>2, <2>3 DEF Ask, CreateProposal, CreateListing
  <1>2. \A s \in Scrims : Owed(s)' <=> Owed(s)
    BY <1>1, OwedStays DEF Owed
  <1> QED BY <1>2, QuietStepsKeepBooks DEF Books, serverVars

(* Requests that read, extend, or give up. *)
LEMMA OtherStepsKeepBooks ==
  ASSUME IInv, Books, NEW w \in Workers,
         \/ AttachFails(w) \/ ReadServer(w)
         \/ Spend(w) \/ ReadWindow(w) \/ WriteWindow(w) \/ Resume(w)
         \/ \E t \in Teams, s \in Scrims : CheckAttach(w, t, s) \/ CheckExtend(w, t, s)
  PROVE  Books'
  <1>1. /\ worker[w].pc # "refund"
        /\ ~Idle(w) => worker[w] \in Errands \cup Extensions
      BY AtWork
      DEF AttachFails, ReadServer, Spend, ReadWindow, WriteWindow, Resume, CheckAttach,
          CheckExtend, Free, Idle
  <1>2. Elsewhere(w)
    <2>1. CASE AttachFails(w)
      BY <1>1, <2>1 DEF AttachFails, Rest, Resting, IInv, Types, Elsewhere
    <2>2. CASE ReadServer(w)
      BY <1>1, <2>2
      DEF ReadServer, Continue, Rest, Resting, Idle, Errands, Extensions, IInv, Types,
          Elsewhere
    <2>3. CASE Spend(w)
      BY <1>1, <2>3
      DEF Spend, Continue, Rest, Resting, Idle, Errands, Extensions, IInv, Types,
          Elsewhere
    <2>4. CASE ReadWindow(w)
      <3>1. worker[w] \in Errands \cup Extensions
        BY <1>1, <2>4 DEF ReadWindow, Idle
      <3>2. [worker[w] EXCEPT !.pc = "write_window",
                 !.ends = servers[worker[w].scrim].ends].pc = "write_window"
        BY <3>1 DEF Errands, Extensions
      <3> QED BY <1>1, <2>4, <3>2 DEF ReadWindow, IInv, Types, Elsewhere
    <2>5. CASE WriteWindow(w)
      BY <1>1, <2>5
      DEF WriteWindow, Continue, Rest, Resting, Idle, Errands, Extensions, IInv, Types,
          Elsewhere
    <2>6. CASE Resume(w)
      BY <1>1, <2>6 DEF Resume, Rest, Resting, IInv, Types, Elsewhere
    <2>7. CASE \E t \in Teams, s \in Scrims : CheckAttach(w, t, s) \/ CheckExtend(w, t, s)
      BY <1>1, <2>7 DEF CheckAttach, CheckExtend, Busy, IInv, Types, Elsewhere
    <2> QED BY <2>1, <2>2, <2>3, <2>4, <2>5, <2>6, <2>7
  <1>3. \A s \in Scrims : Owed(s)' <=> Owed(s)
    BY <1>2, OwedStays
  <1>4. /\ ledger' \in [Teams -> [Scrims -> [Kinds -> Nat]]]
        /\ \A t \in Teams, s \in Scrims :
              /\ ledger'[t][s]["reserve"] = ledger[t][s]["reserve"]
              /\ ledger'[t][s]["release"] = ledger[t][s]["release"]
    <2>1. CASE UNCHANGED ledger
      BY <2>1 DEF Books
    <2>2. CASE Spend(w) /\ Entry(worker[w].team, worker[w].scrim, "extend")
      <3>1. PICK t \in Teams, s \in Scrims : t = worker[w].team /\ s = worker[w].scrim
        BY <2>2, AtWork DEF Spend, Idle, Extensions
      <3>2. Entry(t, s, "extend")
        BY <2>2, <3>1
      <3> QED BY <3>2, Entries DEF Books, Kinds
    <2> QED
      BY <2>1, <2>2
      DEF AttachFails, ReadServer, Spend, ReadWindow, WriteWindow, Resume, CheckAttach,
          CheckExtend, serverVars
  <1>5. \A s \in Scrims :
           /\ servers'[s].owner = servers[s].owner
           /\ servers'[s].state = "none" <=> servers[s].state = "none"
           /\ servers'[s].state = "cancelled" <=> servers[s].state = "cancelled"
    <2>1. CASE UNCHANGED servers
      BY <2>1
    <2>2. CASE WriteWindow(w) \/ Resume(w)
      <3>1. PICK r \in Scrims : r = worker[w].scrim /\ IsLive(r)
        BY <2>2, AtWork DEF WriteWindow, Resume, WorkIsRight, Idle
      <3>2. CASE WriteWindow(w)
        <4>1. PICK ends : servers' = [servers EXCEPT ![r].ends = ends]
          BY <3>1, <3>2 DEF WriteWindow
        <4> QED BY <4>1 DEF IInv, Types, ServerRows
      <3>3. CASE Resume(w)
        BY <3>1, <3>3, StateMoves DEF Resume, States, IsLive
      <3> QED BY <2>2, <3>2, <3>3
    <2> QED
      BY <2>1, <2>2
      DEF AttachFails, ReadServer, Spend, ReadWindow, CheckAttach, CheckExtend, serverVars
  <1> QED BY <1>3, <1>4, <1>5, QuietStepsKeepBooks


(* The reservation comes with the row, and is its owner's. *)
LEMMA AttachKeepsBooks ==
  ASSUME IInv, Books, NEW w \in Workers, Attach(w)
  PROVE  Books'
  <1>1. PICK s \in Scrims, t \in Teams : s = worker[w].scrim /\ t = worker[w].team
    BY AtWork DEF Attach, Idle, WorkIsRight
  <1> DEFINE row == [state |-> "scheduled", owner |-> t,
                     ends |-> scrims[s].at + CreditTime, grace |-> FALSE]
  <1>2. /\ servers[s].state = "none" /\ Entry(t, s, "reserve")
        /\ servers' = [servers EXCEPT ![s] = row]
    BY <1>1 DEF Attach, NoServer
  <1>3. row.state = "scheduled" /\ row.owner = t
    OBVIOUS
  <1> HIDE DEF row
  <1>4. servers'[s] = row /\ \A r \in Scrims \ {s} : servers'[r] = servers[r]
    BY <1>2 DEF IInv, Types
  <1>5. \A r \in Scrims : Owed(r)' <=> Owed(r)
    <2>1. Elsewhere(w)
      BY DEF Attach, Rest, Resting, IInv, Types, Elsewhere
    <2> QED BY <2>1, OwedStays
  <1>6. /\ ledger' \in [Teams -> [Scrims -> [Kinds -> Nat]]]
        /\ \A u \in Teams, r \in Scrims, k \in Kinds :
              ledger'[u][r][k] = IF u = t /\ r = s /\ k = "reserve"
                                 THEN ledger[u][r][k] + 1 ELSE ledger[u][r][k]
    BY <1>2, Entries DEF Books, Kinds
  <1>7. ASSUME NEW r \in Scrims PROVE Booked(r)'
    <2>1. Booked(r)
      BY DEF Books
    <2>2. CASE r = s
      <3>1. ledger'[t][s]["reserve"] = ledger'[t][s]["release"] + 1
        BY <1>2, <1>6, <2>1, <2>2 DEF Booked, Kinds
      <3> QED BY <1>3, <1>4, <2>2, <3>1 DEF Booked
    <2>3. CASE r # s
      <3>1. servers'[r] = servers[r]
        BY <1>4, <2>3
      <3>2. \A u \in Teams : /\ ledger'[u][r]["reserve"] = ledger[u][r]["reserve"]
                             /\ ledger'[u][r]["release"] = ledger[u][r]["release"]
        BY <1>6, <2>3 DEF Kinds
      <3> QED BY <1>5, <2>1, <3>1, <3>2 DEF Booked
    <2> QED BY <2>2, <2>3
  <1> QED BY <1>6, <1>7 DEF Books

(* Once a server is cancelled its credit is owed ... *)
LEMMA CancelKeepsBooks ==
  ASSUME IInv, Books, NEW w \in Workers, CancelServer(w)
  PROVE  Books'
  <1>1. PICK s \in Scrims, x \in Errands :
           /\ s = worker[w].scrim /\ x = worker[w] /\ x.pc = "cancel_server"
           /\ servers[s].state = "scheduled"
    BY AtWork DEF CancelServer, Idle, WorkIsRight
  <1>2. /\ SetState(s, "cancelled") /\ UNCHANGED ledger
        /\ worker' = [worker EXCEPT ![w].pc = "refund"]
    BY <1>1 DEF CancelServer, Continue
  <1>3. /\ servers'[s].state = "cancelled" /\ servers'[s].owner = servers[s].owner
        /\ \A r \in Scrims \ {s} : servers'[r] = servers[r]
    BY <1>2, StateMoves DEF States
  <1>4. /\ worker'[w].pc = "refund" /\ worker'[w].scrim = s
        /\ \A v \in Workers \ {w} : worker'[v] = worker[v]
    <2>1. worker'[w] = [x EXCEPT !.pc = "refund"]
      BY <1>1, <1>2 DEF IInv, Types
    <2> QED BY <1>1, <1>2, <2>1, ErrandGoesOn DEF IInv, Types
  <1>5. ASSUME NEW r \in Scrims PROVE Booked(r)'
    <2>1. Booked(r)
      BY DEF Books
    <2>2. CASE r = s
      <3>1. Owed(s)'
        BY <1>4 DEF Owed
      <3> QED BY <1>1, <1>2, <1>3, <2>1, <2>2, <3>1 DEF Booked
    <2>3. CASE r # s
      <3>1. servers'[r] = servers[r] /\ (Owed(r)' <=> Owed(r))
        BY <1>1, <1>3, <1>4, <2>3 DEF Owed
      <3> QED BY <1>2, <2>1, <3>1 DEF Booked
    <2> QED BY <2>2, <2>3
  <1> QED BY <1>2, <1>5 DEF Books

(* ... and then booked, to the owner, once. *)
LEMMA RefundKeepsBooks ==
  ASSUME IInv, Books, NEW w \in Workers, Refund(w)
  PROVE  Books'
  <1>1. PICK s \in Scrims, t \in Teams :
           /\ s = worker[w].scrim /\ t = servers[s].owner
           /\ servers[s].state = "cancelled" /\ Owed(s)
           /\ ledger[t][s]["reserve"] = ledger[t][s]["release"] + 1
    <2>1. PICK s \in Scrims : s = worker[w].scrim /\ servers[s].state = "cancelled"
      BY AtWork DEF Refund, Idle, WorkIsRight
    <2>2. Owed(s)
      BY <2>1 DEF Owed, Refund
    <2> QED BY <2>1, <2>2 DEF Books, Booked
  <1>2. Entry(t, s, "release") /\ UNCHANGED servers /\ worker' = [worker EXCEPT ![w] = Resting]
    BY <1>1 DEF Refund, Rest
  <1>3. /\ ledger' \in [Teams -> [Scrims -> [Kinds -> Nat]]]
        /\ \A u \in Teams, r \in Scrims, k \in Kinds :
              ledger'[u][r][k] = IF u = t /\ r = s /\ k = "release"
                                 THEN ledger[u][r][k] + 1 ELSE ledger[u][r][k]
    BY <1>2, Entries DEF Books, Kinds
  <1>4. \A r \in Scrims : ~Owed(r)' /\ (r # s => ~Owed(r))
    <2>1. \A v \in Workers : v # w => Idle(v) /\ worker'[v] = worker[v]
      BY <1>2, AloneWhileWorking DEF Refund, Idle, IInv, Types
    <2>2. worker'[w].pc # "refund"
      BY <1>2 DEF IInv, Types, Resting
    <2> QED BY <1>1, <2>1, <2>2 DEF Owed, Idle
  <1>5. ASSUME NEW r \in Scrims PROVE Booked(r)'
    <2>1. Booked(r)
      BY DEF Books
    <2>2. CASE r = s
      <3>1. ledger'[t][s]["reserve"] = ledger'[t][s]["release"]
        BY <1>1, <1>3 DEF Kinds
      <3> QED BY <1>1, <1>2, <1>4, <2>2, <3>1 DEF Booked
    <2>3. CASE r # s
      <3>1. \A u \in Teams : /\ ledger'[u][r]["reserve"] = ledger[u][r]["reserve"]
                             /\ ledger'[u][r]["release"] = ledger[u][r]["release"]
        BY <1>3, <2>3 DEF Kinds
      <3>2. servers'[r] = servers[r] /\ ~Owed(r)' /\ ~Owed(r)
        BY <1>2, <1>4, <2>3
      <3> QED BY <2>1, <3>1, <3>2 DEF Booked
    <2> QED BY <2>2, <2>3
  <1> QED BY <1>3, <1>5 DEF Books

(* The reconciler moves servers that are neither new nor cancelled. *)
LEMMA MovesKeepBooks ==
  ASSUME IInv, Books, NEW s \in Scrims,
         EnterGrace(s) \/ \E state \in States : Advance(s, state)
  PROVE  Books'
  <1>1. UNCHANGED ledger /\ UNCHANGED worker
    BY DEF EnterGrace, Advance, scrimVars
  <1>2. \A r \in Scrims : Owed(r)' <=> Owed(r)
    BY <1>1 DEF Owed
  <1>3. \A r \in Scrims :
           /\ servers'[r].owner = servers[r].owner
           /\ servers'[r].state = "none" <=> servers[r].state = "none"
           /\ servers'[r].state = "cancelled" <=> servers[r].state = "cancelled"
    <2>1. CASE EnterGrace(s)
      BY <2>1, StateMoves DEF EnterGrace, States, IInv, RunIsRight
    <2>2. ASSUME NEW state \in States, Advance(s, state)
          PROVE  \A r \in Scrims :
                    /\ servers'[r].owner = servers[r].owner
                    /\ servers'[r].state = "none" <=> servers[r].state = "none"
                    /\ servers'[r].state = "cancelled" <=> servers[r].state = "cancelled"
      <3>1. /\ rec.marked = {} /\ s \in DOMAIN rec.rows
            /\ Due(rec.rows[s], scrims[s].at, rec.now, state)
            /\ \/ servers' = [servers EXCEPT ![s].grace = TRUE]
               \/ SetState(s, state)
        BY <2>2 DEF Advance
      <3>2. /\ state \notin {"none", "cancelled"}
            /\ servers[s].state \notin {"none", "cancelled"}
        BY <3>1, RowsAreCurrent DEF Due
      <3>3. CASE servers' = [servers EXCEPT ![s].grace = TRUE]
        BY <3>3 DEF IInv, Types, ServerRows
      <3>4. CASE SetState(s, state)
        BY <3>2, <3>4, StateMoves
      <3> QED BY <3>1, <3>3, <3>4
    <2> QED BY <2>1, <2>2
  <1> QED BY <1>1, <1>2, <1>3, QuietStepsKeepBooks DEF Books

LEMMA StepKeepsBooks ==
  ASSUME IInv, Books, ~Crashes, [NextPages]_pageVars
  PROVE  Books'
  <1>1. CASE UNCHANGED <<worker, servers, ledger>>
    BY <1>1, QuietStepsKeepBooks DEF Books, Owed
  <1>2. ASSUME NEW w \in Workers, GoOnServers(w) PROVE Books'
    BY <1>2, OtherStepsKeepBooks, AttachKeepsBooks, CancelKeepsBooks, RefundKeepsBooks
    DEF GoOnServers
  <1>3. ASSUME NEW w \in Workers, GoOn(w), UNCHANGED serverVars PROVE Books'
    BY <1>3, ScrimStepsKeepBooks
  <1>4. ASSUME NEW w \in Workers, NEW u \in Users, AskPage(w, u) PROVE Books'
    <2>1. Account[u] \in Teams
      BY PagesAssumption
    <2>2. CASE AtHome(u) /\ Ask(w, team[u]) /\ UNCHANGED serverVars
      BY <2>1, <2>2, ScrimStepsKeepBooks DEF AtHome
    <2>3. ASSUME NEW s \in Scrims, NEW op \in Lifecycle, Check(w, op, team[u], s),
                 UNCHANGED serverVars
          PROVE  Books'
      BY <2>3, ScrimStepsKeepBooks
    <2>4. ASSUME NEW s \in Scrims,
                 \/ AtHome(u) /\ CheckAttach(w, team[u], s)
                 \/ CheckExtend(w, Account[u], s)
          PROVE  Books'
      BY <2>1, <2>4, OtherStepsKeepBooks DEF AtHome
    <2> QED BY <1>4, <2>2, <2>3, <2>4 DEF AskPage
  <1>5. CASE Move
    BY <1>5, MovesKeepBooks DEF Move
  <1>6. CASE Start \/ Clock \/ (\E u \in Users : Refresh(u)) \/ UNCHANGED pageVars
    BY <1>1, <1>6
    DEF Start, Clock, Tick, Refresh, pageVars, allVars, scrimVars, serverVars
  <1> QED BY <1>2, <1>3, <1>4, <1>5, <1>6 DEF NextPages, PageRequest, Reconcile

(* Once a server shows as cancelled and no request is at work, whoever     *)
(* paid for it has the credit back (release_if_unstarted), as long as no   *)
(* request dies between the two statements.                                *)
THEOREM CancelledIsRefunded == ~Crashes => (SpecPages => []CancelledWasRefunded)
  <1> SUFFICES ASSUME ~Crashes PROVE SpecPages => []CancelledWasRefunded
    OBVIOUS
  <1>1. InitServers /\ team = Account => Books
    BY DEF InitServers, Init, Books, Booked, NoServer, Kinds
  <1>2. IInv /\ Books /\ [NextPages]_pageVars => Books'
    BY StepKeepsBooks
  <1>3. IInv /\ Books => CancelledWasRefunded
    BY DEF Books, Booked, CancelledWasRefunded, AllIdle, Idle, Owed
  <1> QED BY <1>1, <1>2, <1>3, Invariance, PTL DEF SpecPages

-----------------------------------------------------------------------------
(* The pages drive ScrimServers                                            *)

(* Every user's request is one that ScrimServers knows, for the team the   *)
(* user is on or was first on.                                             *)
LEMMA AskedAsServers ==
  ASSUME IInv, NEW w \in Workers, NEW u \in Users, AskPage(w, u)
  PROVE  Request
  <1>1. Account[u] \in Teams /\ (Linked(u) => team[u] \in Teams)
    BY PagesAssumption DEF IInv, Types, Linked
  <1>2. CASE AtHome(u) /\ Ask(w, team[u]) /\ UNCHANGED serverVars
    BY <1>1, <1>2 DEF AtHome, Request, Handlers
  <1>3. ASSUME NEW s \in Scrims, NEW op \in Lifecycle \ {"claim"}, Linked(u),
               Check(w, op, team[u], s), UNCHANGED serverVars
        PROVE  Request
    <2>1. Ask(w, team[u])
      BY <1>3 DEF Ask, Lifecycle
    <2> QED BY <1>1, <1>3, <2>1 DEF Request, Handlers
  <1>4. ASSUME NEW s \in Scrims, AtHome(u) /\ CheckAttach(w, team[u], s)
        PROVE  Request
    BY <1>1, <1>4 DEF AtHome, Request
  <1>5. ASSUME NEW s \in Scrims, CheckExtend(w, Account[u], s)
        PROVE  Request
    BY <1>1, <1>5 DEF Request
  <1> QED BY <1>2, <1>3, <1>4, <1>5 DEF AskPage

LEMMA StepIsServerStep == IInv /\ [NextPages]_pageVars => [NextServers]_allVars
  <1> SUFFICES ASSUME IInv, NextPages \/ UNCHANGED pageVars
               PROVE  NextServers \/ UNCHANGED allVars
    OBVIOUS
  <1>1. CASE rec = Asleep /\ PageRequest
    <2>1. Request
      BY <1>1, AskedAsServers DEF PageRequest, Request, Handlers
    <2> QED BY <1>1, <2>1 DEF NextServers
  <1>2. CASE Reconcile \/ Clock
    BY <1>2 DEF NextServers
  <1>3. CASE (\E u \in Users : Refresh(u)) \/ UNCHANGED pageVars
    BY <1>3 DEF Refresh, pageVars
  <1> QED BY <1>1, <1>2, <1>3 DEF NextPages

(* Whatever is proved of ScrimServers holds for the users' requests too:   *)
(* whoever acts on the pages does so as a team, on what the routes check.  *)
THEOREM PagesAreServers == SpecPages => SpecServers
  <1> QED BY Invariance, StepIsServerStep, PTL DEF SpecPages, SpecServers

(* Users' requests, served one at a time, move credits and servers only as *)
(* the abstract ledger of app/credits.py allows.                           *)
THEOREM PagesKeepThePromise == SpecPages => UsesThePromise
  <1> QED BY PagesAreServers, PromiseIsUsed

-----------------------------------------------------------------------------
(* Links: who bought a server was on a side of its scrim                   *)

SideOf(s) == {scrims[s].proposer, scrims[s].opponent}

(* A listing nobody has claimed has one side; a server is one side's, and  *)
(* so is who is about to attach one.                                       *)
Sides ==
    /\ \A s \in Scrims :
          /\ scrims[s].status \in {"none", "open"} => scrims[s].opponent = NoTeam
          /\ Exists(s) => servers[s].owner \in SideOf(s)
    /\ \A w \in Workers : worker[w].pc = "attach" => worker[w].team \in SideOf(worker[w].scrim)

(* What a step does to the sides of scrim s: nothing, unless it creates    *)
(* the scrim, or is the claim of a listing.                                *)
KeepsSides(s) ==
    \/ /\ scrims'[s].proposer = scrims[s].proposer /\ scrims'[s].opponent = scrims[s].opponent
       /\ scrims'[s].status \in {"none", "open"} => scrims[s].status \in {"none", "open"}
    \/ /\ scrims[s] = NoScrim
       /\ scrims'[s].status \in {"none", "open"} => scrims'[s].opponent = NoTeam
    \/ /\ scrims[s].status = "open" /\ scrims'[s].status = "confirmed"
       /\ scrims'[s].proposer = scrims[s].proposer

(* A worker comes to attach for a side of the scrim as it is by then. *)
AttachesForSide(w) ==
    LET x == worker'[w]
        row == scrims'[x.scrim]
    IN  x.pc = "attach" => x = worker[w] \/ x.team \in {row.proposer, row.opponent}

LEMMA WorkerSides ==
  ASSUME Facts, NEW w \in Workers, NEW x, worker' = [worker EXCEPT ![w] = x],
         x.pc = "attach" =>
            x.team \in {scrims'[x.scrim].proposer, scrims'[x.scrim].opponent}
  PROVE  \A v \in Workers : AttachesForSide(v)
  <1>1. \A v \in Workers : worker'[v] = IF v = w THEN x ELSE worker[v]
    BY DEF Facts, Typed
  <1> QED BY <1>1 DEF AttachesForSide

LEMMA RestingSides ==
  ASSUME Facts, NEW w \in Workers, Rest(w)
  PROVE  \A v \in Workers : AttachesForSide(v)
  BY WorkerSides DEF Rest, Resting

LEMMA CreateSides ==
  ASSUME Facts, NEW w \in Workers, NEW t \in Teams, NEW s \in Scrims,
         NEW row \in ScrimRows, row.proposer = t,
         row.status = "pending" \/ row.opponent = NoTeam,
         Create(w, t, s, row)
  PROVE  /\ \A r \in Scrims : KeepsSides(r)
         /\ \A v \in Workers : AttachesForSide(v)
  <1> DEFINE x == [pc |-> "attach", op |-> "attach", team |-> t, scrim |-> s]
  <1>1. /\ scrims[s] = NoScrim /\ scrims' = [scrims EXCEPT ![s] = row]
        /\ worker' = [worker EXCEPT ![w] = x] \/ UNCHANGED worker
    BY DEF Create, Busy
  <1>2. scrims'[s] = row /\ \A r \in Scrims \ {s} : scrims'[r] = scrims[r]
    BY <1>1 DEF Facts, Typed
  <1>3. \A r \in Scrims : KeepsSides(r)
    BY <1>1, <1>2 DEF KeepsSides
  <1>4. x.team \in {scrims'[x.scrim].proposer, scrims'[x.scrim].opponent}
    BY <1>2
  <1> HIDE DEF x
  <1>5. CASE worker' = [worker EXCEPT ![w] = x]
    BY <1>3, <1>4, <1>5, WorkerSides
  <1>6. CASE UNCHANGED worker
    BY <1>3, <1>6 DEF AttachesForSide
  <1> QED BY <1>1, <1>3, <1>5, <1>6

LEMMA CheckSides ==
  ASSUME Facts, NEW w \in Workers, NEW op, NEW t, NEW s, Check(w, op, t, s)
  PROVE  /\ \A r \in Scrims : KeepsSides(r)
         /\ \A v \in Workers : AttachesForSide(v)
  <1> DEFINE pc == IF op = "claim" THEN "claim" ELSE "set_status"
             x == [pc |-> pc, op |-> op, team |-> t, scrim |-> s]
  <1>1. worker' = [worker EXCEPT ![w] = x] /\ x.pc # "attach"
    BY DEF Check, Busy
  <1>2. UNCHANGED scrims
    BY DEF Check
  <1> HIDE DEF x
  <1> QED BY <1>1, <1>2, WorkerSides DEF KeepsSides

LEMMA AskSides ==
  ASSUME Facts, NEW w \in Workers, NEW t \in Teams, Ask(w, t)
  PROVE  /\ \A r \in Scrims : KeepsSides(r)
         /\ \A v \in Workers : AttachesForSide(v)
  <1>1. ASSUME NEW s \in Scrims, NEW at \in StartTimes, NEW opponent \in Teams,
               CreateProposal(w, t, opponent, s, at)
        PROVE  /\ \A r \in Scrims : KeepsSides(r)
               /\ \A v \in Workers : AttachesForSide(v)
    <2> DEFINE row == [status |-> "pending", origin |-> "proposal", proposer |-> t,
                       opponent |-> opponent, at |-> at]
    <2>1. row \in ScrimRows /\ row.proposer = t /\ row.status = "pending"
      BY ScrimsAssumption DEF ScrimRows
    <2>2. Create(w, t, s, row)
      BY <1>1 DEF CreateProposal
    <2> HIDE DEF row
    <2> QED BY <2>1, <2>2, CreateSides
  <1>2. ASSUME NEW s \in Scrims, NEW at \in StartTimes, CreateListing(w, t, s, at)
        PROVE  /\ \A r \in Scrims : KeepsSides(r)
               /\ \A v \in Workers : AttachesForSide(v)
    <2> DEFINE row == [status |-> "open", origin |-> "listing", proposer |-> t,
                       opponent |-> NoTeam, at |-> at]
    <2>1. row \in ScrimRows /\ row.proposer = t /\ row.opponent = NoTeam
      BY ScrimsAssumption DEF ScrimRows
    <2>2. Create(w, t, s, row)
      BY <1>2 DEF CreateListing
    <2> HIDE DEF row
    <2> QED BY <2>1, <2>2, CreateSides
  <1> QED BY <1>1, <1>2, CheckSides DEF Ask

LEMMA GoOnSides ==
  ASSUME Facts, NEW w \in Workers, GoOn(w)
  PROVE  /\ \A r \in Scrims : KeepsSides(r)
         /\ \A v \in Workers : AttachesForSide(v)
  <1>1. CASE UNCHANGED scrims /\ Rest(w)
    BY <1>1, RestingSides DEF KeepsSides
  <1>2. CASE SetStatus(w)
    <2>1. worker[w].pc = "set_status" /\ ~Idle(w)
      BY <1>2 DEF SetStatus, Idle
    <2>2. PICK s \in Scrims, op \in Ending \cup {"accept"} :
             s = worker[w].scrim /\ op = worker[w].op
      BY <2>1, Working DEF Relies
    <2> DEFINE new == NewStatus[op]
               call == [pc |-> "release", op |-> "release", team |-> NoTeam, scrim |-> s]
    <2>3. /\ scrims' = [scrims EXCEPT ![s].status = new]
          /\ worker' = [worker EXCEPT ![w] = call] \/ Rest(w)
      BY <1>2, <2>2 DEF SetStatus, Call, Busy
    <2>4. new \in {"confirmed", "declined", "cancelled"}
      BY <2>2 DEF NewStatus, Ending
    <2>5. call.pc # "attach"
      OBVIOUS
    <2> HIDE DEF new, call
    <2>6. \A r \in Scrims : KeepsSides(r)
      <3>1. /\ scrims'[s] = [scrims[s] EXCEPT !.status = new] /\ scrims[s] \in ScrimRows
            /\ \A r \in Scrims \ {s} : scrims'[r] = scrims[r]
        BY <2>3 DEF Facts, Typed
      <3>2. /\ scrims'[s].proposer = scrims[s].proposer
            /\ scrims'[s].opponent = scrims[s].opponent /\ scrims'[s].status = new
        BY <3>1 DEF ScrimRows
      <3> QED BY <2>4, <3>1, <3>2 DEF KeepsSides
    <2> QED BY <2>3, <2>5, <2>6, WorkerSides, RestingSides
  <1>3. CASE Claim(w)
    <2>1. worker[w].pc = "claim" /\ ~Idle(w)
      BY <1>3 DEF Claim, Idle
    <2>2. PICK s \in Scrims, t \in Teams : s = worker[w].scrim /\ t = worker[w].team
      BY <2>1, Working DEF Relies
    <2> DEFINE call == [pc |-> "attach", op |-> "attach", team |-> t, scrim |-> s]
    <2>3. \/ UNCHANGED scrims /\ Rest(w)
          \/ /\ scrims[s].status = "open"
             /\ scrims' = [scrims EXCEPT ![s].status = "confirmed", ![s].opponent = t]
             /\ worker' = [worker EXCEPT ![w] = call] \/ Rest(w)
      BY <1>3, <2>2 DEF Claim, Call, Busy
    <2>4. CASE /\ scrims[s].status = "open"
               /\ scrims' = [scrims EXCEPT ![s].status = "confirmed", ![s].opponent = t]
               /\ worker' = [worker EXCEPT ![w] = call] \/ Rest(w)
      <3>1. /\ scrims'[s] = [scrims[s] EXCEPT !.status = "confirmed", !.opponent = t]
            /\ \A r \in Scrims \ {s} : scrims'[r] = scrims[r]
            /\ scrims[s] \in ScrimRows
        BY <2>4 DEF Facts, Typed
      <3>2. /\ scrims'[s].status = "confirmed" /\ scrims'[s].opponent = t
            /\ scrims'[s].proposer = scrims[s].proposer
        BY <3>1 DEF ScrimRows
      <3>3. call.team \in {scrims'[call.scrim].proposer, scrims'[call.scrim].opponent}
        BY <3>2
      <3>4. \A r \in Scrims : KeepsSides(r)
        BY <2>4, <3>1, <3>2 DEF KeepsSides
      <3> HIDE DEF call
      <3> QED BY <2>4, <3>3, <3>4, WorkerSides, RestingSides
    <2> QED BY <1>1, <2>3, <2>4
  <1> QED BY <1>1, <1>2, <1>3 DEF GoOn, Crash

LEMMA ServerStepsKeepSides ==
  ASSUME Facts, NEW w \in Workers,
         \/ GoOnServers(w)
         \/ \E t \in Teams, s \in Scrims : CheckAttach(w, t, s) \/ CheckExtend(w, t, s)
  PROVE  UNCHANGED scrims /\ \A v \in Workers : AttachesForSide(v)
  <1>1. CASE Attach(w) \/ AttachFails(w) \/ Refund(w) \/ Resume(w)
    BY <1>1, RestingSides DEF Attach, AttachFails, Refund, Resume
  <1>2. CASE ReadServer(w) \/ CancelServer(w) \/ Spend(w) \/ WriteWindow(w) \/ ReadWindow(w)
    <2>1. UNCHANGED scrims
      BY <1>2 DEF ReadServer, CancelServer, Spend, WriteWindow, ReadWindow
    <2>2. \A v \in Workers : worker'[v].pc = "attach" => worker'[v] = worker[v]
      <3>1. CASE ReadWindow(w)
        BY <3>1 DEF ReadWindow, Facts, Typed, Work, Errands, Extensions, Resting
      <3>2. ASSUME NEW pc \in {"cancel_server", "refund", "read_window", "resume"},
                   worker[w].pc # "idle", worker' = [worker EXCEPT ![w].pc = pc]
            PROVE  \A v \in Workers : worker'[v].pc = "attach" => worker'[v] = worker[v]
        <4>1. worker[w] \in Errands \cup Extensions
          BY <3>2 DEF Facts, Typed, Work, Resting
        <4>2. worker'[w].pc = pc /\ \A v \in Workers \ {w} : worker'[v] = worker[v]
          BY <3>2, <4>1 DEF Facts, Typed, Errands, Extensions
        <4> QED BY <4>2
      <3>3. CASE Rest(w)
        BY <3>3 DEF Rest, Resting, Facts, Typed
      <3> QED BY <1>2, <3>1, <3>2, <3>3
              DEF ReadServer, CancelServer, Spend, WriteWindow, Continue
    <2> QED BY <2>1, <2>2 DEF AttachesForSide
  <1>3. ASSUME NEW t \in Teams, NEW s \in Scrims, CheckAttach(w, t, s)
        PROVE  UNCHANGED scrims /\ \A v \in Workers : AttachesForSide(v)
    <2> DEFINE x == [pc |-> "attach", op |-> "attach", team |-> t, scrim |-> s]
    <2>1. /\ UNCHANGED scrims /\ worker' = [worker EXCEPT ![w] = x]
          /\ t \in SideOf(s)
      BY <1>3 DEF CheckAttach, MayAttach, Busy, SideOf
    <2>2. x.team \in {scrims'[x.scrim].proposer, scrims'[x.scrim].opponent}
      BY <2>1 DEF SideOf
    <2> HIDE DEF x
    <2> QED BY <2>1, <2>2, WorkerSides
  <1>4. ASSUME NEW t \in Teams, NEW s \in Scrims, CheckExtend(w, t, s)
        PROVE  UNCHANGED scrims /\ \A v \in Workers : AttachesForSide(v)
    <2> DEFINE x == [pc |-> "spend", op |-> "extend", team |-> t, scrim |-> s,
                     saw |-> servers[s].state, ends |-> 0]
    <2>1. UNCHANGED scrims /\ worker' = [worker EXCEPT ![w] = x] /\ x.pc # "attach"
      BY <1>4 DEF CheckExtend
    <2> HIDE DEF x
    <2> QED BY <2>1, WorkerSides
  <1> QED BY <1>1, <1>2, <1>3, <1>4 DEF GoOnServers

LEMMA StepKeepsSides ==
  ASSUME Facts, GraceInv, Sides, [NextServers]_allVars
  PROVE  Sides'
  <1>1. /\ \A r \in Scrims : KeepsSides(r)
        /\ \A v \in Workers : AttachesForSide(v)
    <2>1. CASE UNCHANGED <<scrims, worker>>
      BY <2>1 DEF KeepsSides, AttachesForSide
    <2>2. CASE Reconcile \/ RunDies \/ Clock \/ UNCHANGED allVars
      BY <2>1, <2>2
      DEF Reconcile, Start, Move, Advance, EnterGrace, RunDies, Clock, Tick, allVars, scrimVars
    <2>3. CASE Handlers
      BY <2>3, AskSides, GoOnSides DEF Handlers
    <2>4. CASE Request
      BY <2>3, <2>4, ServerStepsKeepSides DEF Request, KeepsSides
    <2> QED BY <2>2, <2>4 DEF NextServers
  <1>2. /\ Facts' /\ Stay
        /\ Quiet \/ \E w \in Workers : Transacts(w)
    BY StepIsQuietOrBooks
  <1>3. ASSUME NEW s \in Scrims
        PROVE  \/ servers'[s].owner = servers[s].owner /\ (Exists(s)' => Exists(s))
               \/ UNCHANGED scrims /\ servers'[s].owner \in SideOf(s)
    <2>1. CASE Quiet
      BY <2>1 DEF Quiet
    <2>2. ASSUME NEW w \in Workers, Attach(w)
          PROVE  \/ servers'[s].owner = servers[s].owner /\ (Exists(s)' => Exists(s))
                 \/ UNCHANGED scrims /\ servers'[s].owner \in SideOf(s)
      <3>1. PICK r \in Scrims, t \in Teams : r = worker[w].scrim /\ t = worker[w].team
        BY <2>2, Working DEF Attach, Idle, Relies
      <3> DEFINE row == [state |-> "scheduled", owner |-> t,
                         ends |-> scrims[r].at + CreditTime, grace |-> FALSE]
      <3>2. /\ servers' = [servers EXCEPT ![r] = row] /\ row.owner = t
            /\ UNCHANGED scrims /\ t \in SideOf(r)
        BY <2>2, <3>1 DEF Attach, Sides
      <3> HIDE DEF row
      <3> QED BY <3>2 DEF Facts, Typed, Exists
    <2>3. ASSUME NEW w \in Workers, Refund(w) \/ Spend(w) \/ ReadWindow(w)
          PROVE  UNCHANGED servers
      BY <2>3 DEF Refund, Spend, ReadWindow, serverVars
    <2>4. ASSUME NEW w \in Workers, WriteWindow(w)
          PROVE  servers'[s].owner = servers[s].owner /\ (Exists(s)' => Exists(s))
      <3>1. worker[w].scrim \in Scrims
        BY <2>4, Working DEF WriteWindow, Idle
      <3>2. PICK r \in Scrims : r = worker[w].scrim
        BY <3>1
      <3>3. \E ends : servers' = [servers EXCEPT ![r].ends = ends]
        BY <2>4, <3>2 DEF WriteWindow
      <3> QED BY <3>3 DEF Facts, Typed, ServerRows, Exists
    <2> QED BY <1>2, <2>1, <2>2, <2>3, <2>4 DEF Transacts, Exists
  <1>4. ASSUME NEW s \in Scrims
        PROVE  /\ (scrims[s].status \in {"none", "open"} => scrims[s].opponent = NoTeam)'
               /\ (Exists(s) => servers[s].owner \in SideOf(s))'
    <2>1. /\ KeepsSides(s)
          /\ scrims[s].status \in {"none", "open"} => scrims[s].opponent = NoTeam
          /\ Exists(s) => servers[s].owner \in SideOf(s)
      BY <1>1 DEF Sides
    <2>2. Exists(s) => servers[s].owner # NoTeam /\ scrims[s].status # "none"
      BY ScrimsAssumption DEF Facts, Standing, Known
    <2>3. (scrims[s].status \in {"none", "open"} => scrims[s].opponent = NoTeam)'
      BY <2>1 DEF KeepsSides
    <2>4. CASE UNCHANGED scrims /\ servers'[s].owner \in SideOf(s)
      BY <2>3, <2>4 DEF SideOf
    <2>5. CASE servers'[s].owner = servers[s].owner /\ (Exists(s)' => Exists(s))
      BY <2>1, <2>2, <2>3, <2>5 DEF KeepsSides, SideOf, NoScrim
    <2> QED BY <1>3, <2>3, <2>4, <2>5
  <1>5. ASSUME NEW w \in Workers
        PROVE  (worker[w].pc = "attach" => worker[w].team \in SideOf(worker[w].scrim))'
    <2>1. CASE worker'[w].pc = "attach" /\ worker'[w] = worker[w]
      <3>1. /\ worker[w].scrim \in Scrims /\ Relies(worker[w])
        BY <2>1, Working DEF Idle
      <3>2. PICK s \in Scrims, t \in Teams :
               /\ s = worker[w].scrim /\ t = worker[w].team /\ Known(s)
        BY <2>1, <3>1 DEF Relies
      <3>3. t \in SideOf(s) /\ t # NoTeam /\ KeepsSides(s)
        BY <1>1, <2>1, <3>2, ScrimsAssumption DEF Sides
      <3>4. scrims[s].status \in {"none", "open"} => scrims[s].opponent = NoTeam
        BY DEF Sides
      <3>5. t \in SideOf(s)'
        BY <3>2, <3>3, <3>4 DEF KeepsSides, SideOf, Known, NoScrim
      <3> QED BY <2>1, <3>2, <3>5
    <2> QED BY <1>1, <2>1 DEF AttachesForSide, SideOf
  <1> QED BY <1>4, <1>5 DEF Sides

(* Where a link leads to no page (the lists of app/scrims.py and           *)
(* servers_list.html, server_detail.html and scrim_detail.html, against    *)
(* get_scrim_for_viewer and can_access).  It rests on whoever bought a     *)
(* server having been on a side of its scrim, and on a claim giving away   *)
(* no side.                                                                *)
THEOREM NoOtherDeadLinks == SpecPages => []DeadLinksAreKnown
  <1>1. InitServers => Sides
    BY DEF InitServers, Init, Sides, NoScrim, NoServer, Exists, Resting
  <1>2. ASSUME IInv, Facts, Sides, NEW u \in Users, NEW s \in Scrims
        PROVE  /\ s \in ScrimLinks(u) => Visible(u, s) \/ (Owns(u, s) /\ ~OnSide(u, s))
               /\ s \in ServerLinks(u) =>
                     CanAccess(u, s) \/ (s \in OpenListings /\ ~OnSide(u, s))
               /\ CanAccess(u, s) =>
                     s \in ListedServers(u) \/ (Owns(u, s) /\ ~Linked(u))
    <2>1. /\ scrims[s].status = "open" => scrims[s].origin = "listing"
          /\ scrims[s].status # "none" => scrims[s] # NoScrim
      BY <1>2 DEF IInv, Sound, NoScrim
    <2>2. /\ servers[s] # NoServer => Exists(s)
          /\ Exists(s) => servers[s].owner \in SideOf(s) /\ scrims[s].status # "none"
      BY <1>2 DEF Facts, Standing, Sides, Known
    <2>3. Linked(u) => team[u] # NoTeam
      BY DEF Linked
    <2>4. ASSUME CanAccess(u, s), ~Visible(u, s) PROVE Owns(u, s) /\ ~OnSide(u, s)
      <3>1. OnSide(u, s) => Visible(u, s)
        BY <2>1, <2>2, <2>4
        DEF OnSide, IsOwn, IsOpponent, IsMember, Visible, Linked, CanAccess
      <3>2. IsMember(u, servers[s].owner) => OnSide(u, s)
        BY <2>2, <2>4 DEF CanAccess, OnSide, IsOwn, IsOpponent, IsMember, SideOf
      <3> QED BY <2>4, <3>1, <3>2 DEF CanAccess
    <2>5. s \in ScrimLinks(u) => CanAccess(u, s) \/ Visible(u, s)
      BY <2>1
      DEF ScrimLinks, UpcomingConfirmed, MyOpenListings, OpenListings,
          ScrimsWithoutServers, With, Visible, OnSide, Future
    <2>6. s \in AccessibleServers(u) <=> CanAccess(u, s)
      BY DEF AccessibleServers, CanAccess, OnSide, IsOwn, IsOpponent
    <2>7. s \in ServerLinks(u) =>
             CanAccess(u, s) \/ (s \in OpenListings /\ ~OnSide(u, s))
      BY <2>6
      DEF ServerLinks, ListedServers, Visible, CanAccess, OpenListings, With
    <2>8. CanAccess(u, s) => s \in ListedServers(u) \/ (Owns(u, s) /\ ~Linked(u))
      BY <2>6 DEF ListedServers, CanAccess, OnSide, IsOwn, IsOpponent, IsMember, Linked
    <2> QED BY <2>4, <2>5, <2>7, <2>8
  <1>3. IInv /\ Facts /\ Sides => DeadLinksAreKnown
    BY <1>2 DEF DeadLinksAreKnown
  <1>4. Facts /\ GraceInv /\ Sides /\ [NextServers]_allVars => Sides'
    BY StepKeepsSides
  <1>5. SpecServers => []Sides
    BY <1>1, <1>4, FactsHold, GraceInvariance, PTL DEF SpecServers
  <1> QED BY <1>3, <1>5, Invariance, FactsHold, PagesAreServers, PTL

-----------------------------------------------------------------------------
(* What a server's state says of its credit                                *)

(* What due_state, release_if_unstarted and an extension in grace write.   *)
ServerSteps ==
    {<<"none", "scheduled">>, <<"scheduled", "running">>, <<"scheduled", "cancelled">>,
     <<"running", "in_grace">>, <<"running", "stopped">>, <<"in_grace", "running">>,
     <<"in_grace", "stopped">>}

Moved(s) == servers'[s].state # servers[s].state

(* A server's state takes only those, and it has run once it was on.       *)
Orderly ==
    /\ \A s \in Scrims :
          /\ Moved(s) => <<servers[s].state, servers'[s].state>> \in ServerSteps
          /\ s \in ran' => s \in ran \/ servers'[s].state = "running"
    /\ ran \subseteq Scrims => ran' \subseteq Scrims

LEMMA StatesMove ==
  ASSUME IInv, [NextPages]_pageVars
  PROVE  Orderly
  <1>1. CASE UNCHANGED <<servers, ran>>
    BY <1>1 DEF Moved, Orderly
  <1>2. ASSUME NEW r \in Scrims, NEW state \in States, SetState(r, state),
               <<servers[r].state, state>> \in ServerSteps \/ servers[r].state = state
        PROVE  Orderly
    <2>1. /\ servers'[r].state = state
          /\ \A q \in Scrims \ {r} : servers'[q] = servers[q]
          /\ ran' = IF state = "running" THEN ran \cup {r} ELSE ran
      BY <1>2, StateMoves DEF SetState
    <2> QED BY <1>2, <2>1 DEF Moved, Orderly
  <1>3. ASSUME NEW w \in Workers, Attach(w) PROVE Orderly
    <2>1. PICK r \in Scrims : r = worker[w].scrim
      BY <1>3, AtWork DEF Attach, Idle
    <2> DEFINE row == [state |-> "scheduled", owner |-> worker[w].team,
                       ends |-> scrims[r].at + CreditTime, grace |-> FALSE]
    <2>2. /\ servers[r].state = "none" /\ servers' = [servers EXCEPT ![r] = row]
          /\ UNCHANGED ran
      BY <1>3, <2>1 DEF Attach, NoServer
    <2>3. row.state = "scheduled"
      OBVIOUS
    <2> HIDE DEF row
    <2> QED BY <2>2, <2>3 DEF Moved, Orderly, ServerSteps, IInv, Types
  <1>4. ASSUME NEW w \in Workers, CancelServer(w) PROVE Orderly
    <2>1. PICK r \in Scrims : r = worker[w].scrim /\ servers[r].state = "scheduled"
      BY <1>4, AtWork DEF CancelServer, Idle, WorkIsRight
    <2> QED BY <1>2, <1>4, <2>1 DEF CancelServer, States, ServerSteps
  <1>5. ASSUME NEW w \in Workers, Resume(w) PROVE Orderly
    <2>1. PICK r \in Scrims : r = worker[w].scrim /\ IsLive(r)
      BY <1>5, AtWork DEF Resume, Idle, WorkIsRight
    <2> QED BY <1>2, <1>5, <2>1 DEF Resume, States, ServerSteps, IsLive
  <1>6. ASSUME NEW w \in Workers, WriteWindow(w) PROVE Orderly
    <2>1. PICK r \in Scrims : r = worker[w].scrim
      BY <1>6, AtWork DEF WriteWindow, Idle
    <2>2. PICK ends : servers' = [servers EXCEPT ![r].ends = ends] /\ UNCHANGED ran
      BY <1>6, <2>1 DEF WriteWindow
    <2> QED BY <2>2 DEF Moved, Orderly, IInv, Types, ServerRows
  <1>7. ASSUME NEW r \in Scrims, EnterGrace(r) PROVE Orderly
    <2>1. servers[r].state = "running"
      BY <1>7 DEF EnterGrace, IInv, RunIsRight
    <2> QED BY <1>2, <1>7, <2>1 DEF EnterGrace, States, ServerSteps
  <1>8. ASSUME NEW r \in Scrims, NEW state \in States, Advance(r, state) PROVE Orderly
    <2>1. /\ Due(servers[r], scrims[r].at, rec.now, state)
          /\ \/ servers' = [servers EXCEPT ![r].grace = TRUE] /\ UNCHANGED ran
             \/ SetState(r, state)
      BY <1>8, RowsAreCurrent DEF Advance
    <2>2. CASE servers' = [servers EXCEPT ![r].grace = TRUE] /\ UNCHANGED ran
      BY <2>2 DEF Moved, Orderly, IInv, Types, ServerRows
    <2>3. CASE SetState(r, state)
      BY <1>2, <2>1, <2>3 DEF Due, ServerSteps
    <2> QED BY <2>1, <2>2, <2>3
  <1>9. \/ UNCHANGED <<servers, ran>>
        \/ \E w \in Workers : Attach(w) \/ CancelServer(w) \/ Resume(w) \/ WriteWindow(w)
        \/ \E r \in Scrims : EnterGrace(r) \/ \E state \in States : Advance(r, state)
    <2>1. [NextServers]_allVars
      BY StepIsServerStep
    <2> QED
      BY <2>1
      DEF NextServers, Request, Handlers, GoOnServers, Reconcile, Start, Move, RunDies,
          Clock, AttachFails, ReadServer, Refund, Spend, ReadWindow, CheckAttach,
          CheckExtend, serverVars, allVars
  <1> QED BY <1>1, <1>3, <1>4, <1>5, <1>6, <1>7, <1>8, <1>9

(* Stopped and cancelled are terminal (005 data-model; set_state itself    *)
(* would write anything over anything).                                    *)
THEOREM OverIsFinal == SpecPages => StoppedIsFinal
  <1>1. IInv /\ [NextPages]_pageVars =>
           [\A s \in Scrims : servers[s].state \in Over =>
              servers'[s].state = servers[s].state]_allVars
    BY StatesMove DEF Over, Orderly, Moved, ServerSteps
  <1> QED BY <1>1, Invariance, PTL DEF SpecPages, StoppedIsFinal

(* A credit comes back for a server that was cancelled, and by whoever     *)
(* cancelled it; one is reserved with the row.                             *)
LEMMA WhoBooks ==
  ASSUME IInv, Facts, GraceInv, [NextPages]_pageVars
  PROVE  \/ UNCHANGED ledger /\ \A s \in Scrims : Exists(s)' <=> Exists(s)
         \/ \E t \in Teams, s \in Scrims :
               /\ ~Exists(s) /\ Entry(t, s, "reserve")
               /\ \A r \in Scrims \ {s} : servers'[r] = servers[r]
         \/ \E t \in Teams, s \in Scrims :
               /\ servers[s].state = "cancelled" /\ Owed(s) /\ UNCHANGED servers
               /\ Entry(t, s, "release") /\ \A r \in Scrims : ~Owed(r)'
         \/ \E t \in Teams, s \in Scrims : Entry(t, s, "extend") /\ UNCHANGED servers
  <1>1. CASE Quiet
    BY <1>1 DEF Quiet
  <1>2. ASSUME NEW w \in Workers, Attach(w)
        PROVE  \E t \in Teams, s \in Scrims :
                  /\ ~Exists(s) /\ Entry(t, s, "reserve")
                  /\ \A r \in Scrims \ {s} : servers'[r] = servers[r]
    BY <1>2, Attaches
  <1>3. ASSUME NEW w \in Workers, Refund(w)
        PROVE  \E t \in Teams, s \in Scrims :
                  /\ servers[s].state = "cancelled" /\ Owed(s) /\ UNCHANGED servers
                  /\ Entry(t, s, "release") /\ \A r \in Scrims : ~Owed(r)'
    <2>1. PICK s \in Scrims : s = worker[w].scrim /\ servers[s].state = "cancelled"
      BY <1>3, AtWork DEF Refund, Idle, WorkIsRight
    <2>2. PICK t \in Teams : t = servers[s].owner
      BY <2>1 DEF Facts, Standing, Exists
    <2>3. /\ Entry(t, s, "release") /\ UNCHANGED servers
          /\ worker' = [worker EXCEPT ![w] = Resting]
      BY <1>3, <2>1, <2>2 DEF Refund, Rest
    <2>4. Owed(s)
      BY <1>3, <2>1 DEF Owed, Refund
    <2>5. ASSUME NEW v \in Workers PROVE worker'[v].pc # "refund"
      <3>1. v # w => worker[v].pc = "idle"
        BY <1>3, AloneWhileWorking DEF Refund, Idle
      <3> QED BY <2>3, <3>1 DEF IInv, Types, Resting
    <2> QED BY <2>1, <2>3, <2>4, <2>5 DEF Owed
  <1>4. ASSUME NEW w \in Workers, Spend(w), ~Quiet
        PROVE  \E t \in Teams, s \in Scrims : Entry(t, s, "extend") /\ UNCHANGED servers
    BY <1>4, Spends
  <1>5. ASSUME NEW w \in Workers, ReadWindow(w) \/ WriteWindow(w)
        PROVE  UNCHANGED ledger /\ \A s \in Scrims : Exists(s)' <=> Exists(s)
    BY <1>5, ReadsWindow, WritesWindow DEF Exists
  <1> QED
    BY <1>1, <1>2, <1>3, <1>4, <1>5, StepIsQuietOrBooks, StepIsServerStep DEF Transacts

(* Total(s, kind) after one entry. *)
LEMMA Tallies ==
  ASSUME Facts, NEW t \in Teams, NEW s \in Scrims, NEW kind \in Kinds, Entry(t, s, kind),
         NEW r \in Scrims, NEW k \in Kinds
  PROVE  /\ Total(r, k) \in Nat
         /\ Total(r, k)' = Total(r, k) + (IF r = s /\ k = kind THEN 1 ELSE 0)
  BY TotalMoves DEF Facts, Typed

LEMMA NothingReservedAtFirst ==
  ASSUME InitServers, NEW s \in Scrims, NEW k \in Kinds
  PROVE  Total(s, k) = 0
  <1> DEFINE f == [u \in Teams |-> ledger[u][s][k]]
  <1>1. Total(s, k) = SumFunctionOnSet(f, Teams)
    BY DEF Total, SumFunction
  <1>2. \A u \in Teams : f[u] = 0
    BY DEF InitServers
  <1> HIDE DEF f
  <1> QED BY <1>1, <1>2, SumOfZeros, ScrimsAssumption

Began == {"running", "in_grace", "stopped"}

Returned ==
    /\ ran \subseteq Scrims
    /\ \A s \in Scrims :
          /\ servers[s].state # "cancelled" => Total(s, "release") = 0
          /\ s \in ran => servers[s].state \in Began

LEMMA StepKeepsReturned ==
  ASSUME IInv, Facts, GraceInv, Returned, [NextPages]_pageVars
  PROVE  Returned'
  <1> SUFFICES ASSUME NEW s \in Scrims
               PROVE  /\ servers'[s].state # "cancelled" => Total(s, "release")' = 0
                      /\ s \in ran' => servers'[s].state \in Began
    BY StatesMove DEF Returned, Orderly
  <1>1. /\ Moved(s) => <<servers[s].state, servers'[s].state>> \in ServerSteps
        /\ s \in ran' => s \in ran \/ servers'[s].state = "running"
    BY StatesMove DEF Orderly
  <1>2. s \in ran' => servers'[s].state \in Began
    BY <1>1 DEF Returned, Began, Moved, ServerSteps
  <1>3. ASSUME servers'[s].state # "cancelled" PROVE Total(s, "release")' = 0
    <2>1. servers[s].state # "cancelled" /\ Total(s, "release") = 0
      BY <1>1, <1>3 DEF Returned, Moved, ServerSteps
    <2>2. CASE UNCHANGED ledger
      BY <2>1, <2>2 DEF Total
    <2>3. ASSUME NEW t \in Teams, NEW r \in Scrims, NEW kind \in Kinds, Entry(t, r, kind),
                 kind = "release" => r # s
          PROVE  Total(s, "release")' = 0
      <3>1. Total(s, "release")' = Total(s, "release")
                                     + (IF s = r /\ "release" = kind THEN 1 ELSE 0)
        BY <2>3, Tallies DEF Kinds
      <3> QED BY <2>1, <2>3, <3>1
    <2> QED BY <2>1, <2>2, <2>3, WhoBooks DEF Kinds
  <1> QED BY <1>2, <1>3

(* A credit comes back only for a server that never ran                    *)
(* (release_if_unstarted), whatever becomes of the requests.               *)
THEOREM RefundsNeverRan == SpecPages => []RefundedNeverRan
  <1>1. InitServers => Returned
    BY NothingReservedAtFirst DEF Returned, InitServers, Kinds
  <1>2. IInv /\ Facts /\ GraceInv /\ Returned /\ [NextPages]_pageVars => Returned'
    BY StepKeepsReturned
  <1>3. IInv /\ Facts /\ Returned => RefundedNeverRan
    BY DEF Returned, RefundedNeverRan, Began
  <1> QED BY <1>1, <1>2, <1>3, Invariance, PagesAreServers, FactsHold, GraceInvariance, PTL
          DEF SpecPages

-----------------------------------------------------------------------------
(* Who comes to refund, and who leaves a window                            *)

(* Worker w comes to do x. *)
Proceeds(w, x) ==
    /\ worker' = [worker EXCEPT ![w] = x]
    /\ x.pc = "refund" => CancelServer(w) /\ x.scrim = worker[w].scrim
    /\ worker[w].pc \in Window => ReadWindow(w) \/ WriteWindow(w) \/ Crashes

LEMMA WorkerMoves ==
  ASSUME Facts, [NextServers]_allVars
  PROVE  UNCHANGED worker \/ \E w \in Workers : \E x : Proceeds(w, x)
  <1>1. ASSUME NEW w \in Workers, Rest(w), worker[w].pc \in Window => Crashes
        PROVE  Proceeds(w, Resting)
    BY <1>1 DEF Proceeds, Rest, Resting
  <1>2. ASSUME NEW w \in Workers, NEW pc, pc # "refund", NEW op, NEW t, NEW s,
               Busy(w, pc, op, t, s), worker[w].pc \notin Window
        PROVE  \E x : Proceeds(w, x)
    <2> DEFINE x == [pc |-> pc, op |-> op, team |-> t, scrim |-> s]
    <2>1. x.pc # "refund" /\ worker' = [worker EXCEPT ![w] = x]
      BY <1>2 DEF Busy
    <2> HIDE DEF x
    <2> QED BY <1>2, <2>1 DEF Proceeds
  <1>3. CASE Handlers
    <2>1. ASSUME NEW w \in Workers, GoOn(w) PROVE \E x : Proceeds(w, x)
      BY <1>1, <1>2, <2>1 DEF GoOn, SetStatus, Claim, Crash, Call, Window
    <2>2. ASSUME NEW w \in Workers, NEW t \in Teams, Ask(w, t)
          PROVE  UNCHANGED worker \/ \E x : Proceeds(w, x)
      <3>1. ASSUME NEW s, NEW row, Create(w, t, s, row)
            PROVE  UNCHANGED worker \/ \E x : Proceeds(w, x)
        BY <1>2, <3>1 DEF Create, Free, Idle, Window
      <3>2. ASSUME NEW s, NEW op, Check(w, op, t, s)
            PROVE  \E x : Proceeds(w, x)
        <4> DEFINE pc == IF op = "claim" THEN "claim" ELSE "set_status"
        <4>1. pc # "refund" /\ Busy(w, pc, op, t, s) /\ worker[w].pc \notin Window
          BY <3>2 DEF Check, Free, Idle, Window
        <4> HIDE DEF pc
        <4> QED BY <1>2, <4>1
      <3> QED BY <2>2, <3>1, <3>2 DEF Ask, CreateProposal, CreateListing
    <2> QED BY <1>3, <2>1, <2>2 DEF Handlers
  <1>4. ASSUME NEW w \in Workers, GoOnServers(w) PROVE \E x : Proceeds(w, x)
    <2>1. CASE AttachFails(w) \/ Attach(w) \/ Refund(w) \/ Resume(w)
      BY <1>1, <2>1 DEF AttachFails, Attach, Refund, Resume, Window
    <2>2. CASE ReadServer(w) \/ CancelServer(w)
      <3>1. PICK y \in Errands : y = worker[w] /\ y.pc \notin Window
        BY <2>2, Working DEF ReadServer, CancelServer, Idle, Window
      <3>2. \/ Rest(w)
            \/ worker' = [worker EXCEPT ![w] = [y EXCEPT !.pc = "cancel_server"]]
            \/ /\ CancelServer(w)
               /\ worker' = [worker EXCEPT ![w] = [y EXCEPT !.pc = "refund"]]
        BY <2>2, <3>1 DEF ReadServer, CancelServer, Continue
      <3>3. ASSUME NEW pc \in {"cancel_server", "refund"}, pc = "refund" => CancelServer(w),
                   worker' = [worker EXCEPT ![w] = [y EXCEPT !.pc = pc]]
            PROVE  \E x : Proceeds(w, x)
        <4> DEFINE x == [y EXCEPT !.pc = pc]
        <4>1. x.pc = pc /\ x.scrim = y.scrim /\ worker' = [worker EXCEPT ![w] = x]
          BY <3>3, GoesOn
        <4> HIDE DEF x
        <4> QED BY <3>1, <3>3, <4>1 DEF Proceeds
      <3> QED BY <1>1, <3>1, <3>2, <3>3
    <2>3. CASE Spend(w) \/ WriteWindow(w)
      <3>1. PICK y \in Extensions : /\ y = worker[w]
                                    /\ y.pc \in Window => WriteWindow(w)
        BY <2>3, Working DEF Spend, WriteWindow, Idle, Window
      <3>2. \/ worker' = [worker EXCEPT ![w] = Resting]
            \/ worker' = [worker EXCEPT ![w] = [y EXCEPT !.pc = "read_window"]]
            \/ worker' = [worker EXCEPT ![w] = [y EXCEPT !.pc = "resume"]]
        BY <2>3, <3>1 DEF Spend, WriteWindow, Continue, Rest
      <3>3. ASSUME NEW pc \in {"read_window", "resume"},
                   worker' = [worker EXCEPT ![w] = [y EXCEPT !.pc = pc]]
            PROVE  \E x : Proceeds(w, x)
        <4> DEFINE x == [y EXCEPT !.pc = pc]
        <4>1. x.pc = pc /\ worker' = [worker EXCEPT ![w] = x]
          BY <3>3, GoesOn
        <4> HIDE DEF x
        <4> QED BY <3>1, <4>1 DEF Proceeds
      <3>4. Resting.pc # "refund"
        BY DEF Resting
      <3> QED BY <3>1, <3>2, <3>3, <3>4 DEF Proceeds
    <2>4. CASE ReadWindow(w)
      <3>1. PICK y \in Extensions : y = worker[w]
        BY <2>4, Working DEF ReadWindow, Idle
      <3> DEFINE x == [y EXCEPT !.pc = "write_window", !.ends = servers[y.scrim].ends]
      <3>2. x.pc = "write_window" /\ worker' = [worker EXCEPT ![w] = x]
        <4>1. worker' = [worker EXCEPT ![w].pc = "write_window",
                                       ![w].ends = servers[y.scrim].ends]
          BY <2>4, <3>1 DEF ReadWindow
        <4>2. worker = [v \in Workers |-> worker[v]] /\ x.pc = "write_window"
          BY <3>1 DEF Facts, Typed, Extensions
        <4> QED BY <3>1, <4>1, <4>2
      <3> HIDE DEF x
      <3> QED BY <2>4, <3>2 DEF Proceeds
    <2> QED BY <1>4, <2>1, <2>2, <2>3, <2>4 DEF GoOnServers
  <1>5. ASSUME NEW w \in Workers, NEW t \in Teams, NEW s \in Scrims,
               CheckAttach(w, t, s) \/ CheckExtend(w, t, s)
        PROVE  \E x : Proceeds(w, x)
    <2>1. worker[w].pc \notin Window
      BY <1>5 DEF CheckAttach, CheckExtend, Free, Idle, Window
    <2>2. CASE CheckAttach(w, t, s)
      BY <1>2, <2>1, <2>2 DEF CheckAttach
    <2>3. CASE CheckExtend(w, t, s)
      <3> DEFINE x == [pc |-> "spend", op |-> "extend", team |-> t, scrim |-> s,
                       saw |-> servers[s].state, ends |-> 0]
      <3>1. x.pc = "spend" /\ worker' = [worker EXCEPT ![w] = x]
        BY <2>3 DEF CheckExtend
      <3> HIDE DEF x
      <3> QED BY <2>1, <3>1 DEF Proceeds
    <2> QED BY <1>5, <2>2, <2>3
  <1>6. CASE Reconcile \/ RunDies \/ Clock \/ UNCHANGED allVars
    BY <1>6
    DEF Reconcile, Start, Move, Advance, EnterGrace, RunDies, Clock, Tick, allVars, scrimVars
  <1> QED BY <1>3, <1>4, <1>5, <1>6 DEF NextServers, Request

(* Only who cancels a server that is scheduled comes to owe its credit.    *)
LEMMA OwedArises ==
  ASSUME IInv, Facts, [NextPages]_pageVars, NEW s \in Scrims, Owed(s)'
  PROVE  Owed(s) \/ servers[s].state = "scheduled"
  <1>1. PICK v \in Workers : worker'[v].pc = "refund" /\ worker'[v].scrim = s
    BY DEF Owed
  <1>2. CASE worker'[v] = worker[v]
    BY <1>1, <1>2 DEF Owed
  <1>3. CASE worker'[v] # worker[v]
    <2>1. PICK w \in Workers, x \in {worker'[v]} : w = v /\ Proceeds(w, x)
      <3>1. PICK w \in Workers : \E x : Proceeds(w, x)
        BY <1>3, WorkerMoves, StepIsServerStep
      <3>2. PICK x : Proceeds(w, x)
        BY <3>1
      <3>3. w = v /\ worker'[v] = x
        BY <1>3, <3>2 DEF Proceeds, IInv, Types
      <3> QED BY <3>2, <3>3
    <2>2. CancelServer(v) /\ worker[v].scrim = s
      BY <1>1, <2>1 DEF Proceeds
    <2>3. servers[s].state = "scheduled"
      BY <2>2, AtWork DEF CancelServer, WorkIsRight, Idle
    <2> QED BY <2>3
  <1> QED BY <1>2, <1>3

-----------------------------------------------------------------------------
(* What was given back was reserved, also when requests die                *)

Reserved(s) == Exists(s) /\ (servers[s].state # "cancelled" \/ Owed(s))

Counted ==
    \A s \in Scrims :
        /\ Total(s, "release") <= Total(s, "reserve")
        /\ Reserved(s) => Total(s, "release") < Total(s, "reserve")

LEMMA StepKeepsCounted ==
  ASSUME IInv, Facts, GraceInv, Counted, [NextPages]_pageVars
  PROVE  Counted'
  <1> SUFFICES ASSUME NEW s \in Scrims
               PROVE  /\ Total(s, "release")' <= Total(s, "reserve")'
                      /\ Reserved(s)' => Total(s, "release")' < Total(s, "reserve")'
    BY DEF Counted
  <1>1. PICK given \in Nat, taken \in Nat :
           /\ given = Total(s, "release") /\ taken = Total(s, "reserve")
           /\ given <= taken /\ (Reserved(s) => given < taken)
    BY TotalIsNat DEF Counted, Kinds
  <1>2. Reserved(s)' /\ Exists(s) => Reserved(s)
    BY StatesMove, OwedArises DEF Reserved, Orderly, Moved, ServerSteps
  <1>3. ASSUME UNCHANGED ledger, Exists(s)' <=> Exists(s)
        PROVE  /\ Total(s, "release")' <= Total(s, "reserve")'
               /\ Reserved(s)' => Total(s, "release")' < Total(s, "reserve")'
    <2>1. Total(s, "release")' = given /\ Total(s, "reserve")' = taken
      BY <1>1, <1>3 DEF Total
    <2>2. Reserved(s)' => Reserved(s)
      BY <1>2, <1>3 DEF Reserved
    <2> QED BY <1>1, <2>1, <2>2
  <1>4. ASSUME NEW t \in Teams, NEW r \in Scrims, NEW kind \in Kinds, Entry(t, r, kind),
               kind = "reserve" => ~Exists(r) /\ \A q \in Scrims \ {r} : servers'[q] = servers[q],
               kind # "reserve" => UNCHANGED servers,
               kind = "release" => servers[r].state = "cancelled" /\ Owed(r) /\ ~Owed(r)'
        PROVE  /\ Total(s, "release")' <= Total(s, "reserve")'
               /\ Reserved(s)' => Total(s, "release")' < Total(s, "reserve")'
    <2>1. \A k \in Kinds : Total(s, k)' = Total(s, k) + (IF s = r /\ k = kind THEN 1 ELSE 0)
      BY <1>4, Tallies
    <2>2. CASE s = r /\ kind = "reserve"
      <3>1. Total(s, "release")' = given /\ Total(s, "reserve")' = taken + 1
        BY <1>1, <2>1, <2>2 DEF Kinds
      <3> QED BY <1>1, <3>1
    <2>3. CASE s = r /\ kind = "release"
      <3>1. Total(s, "release")' = given + 1 /\ Total(s, "reserve")' = taken
        BY <1>1, <2>1, <2>3 DEF Kinds
      <3>2. given < taken /\ ~Reserved(s)'
        BY <1>1, <1>4, <2>3 DEF Reserved, Exists
      <3> QED BY <3>1, <3>2
    <2>4. CASE s # r \/ kind = "extend"
      <3>1. Total(s, "release")' = given /\ Total(s, "reserve")' = taken
        BY <1>1, <2>1, <2>4 DEF Kinds
      <3>2. servers'[s] = servers[s]
        BY <1>4, <2>4
      <3>3. Reserved(s)' => Reserved(s)
        BY <1>2, <3>2 DEF Reserved, Exists
      <3> QED BY <1>1, <3>1, <3>3
    <2> QED BY <2>2, <2>3, <2>4 DEF Kinds
  <1>5. CASE UNCHANGED ledger /\ \A r \in Scrims : Exists(r)' <=> Exists(r)
    BY <1>3, <1>5
  <1>6. ASSUME NEW t \in Teams, NEW r \in Scrims, ~Exists(r), Entry(t, r, "reserve"),
               \A q \in Scrims \ {r} : servers'[q] = servers[q]
        PROVE  /\ Total(s, "release")' <= Total(s, "reserve")'
               /\ Reserved(s)' => Total(s, "release")' < Total(s, "reserve")'
    BY <1>4, <1>6 DEF Kinds
  <1>7. ASSUME NEW t \in Teams, NEW r \in Scrims,
               servers[r].state = "cancelled" /\ Owed(r) /\ UNCHANGED servers,
               Entry(t, r, "release"), ~Owed(r)'
        PROVE  /\ Total(s, "release")' <= Total(s, "reserve")'
               /\ Reserved(s)' => Total(s, "release")' < Total(s, "reserve")'
    BY <1>4, <1>7 DEF Kinds
  <1>8. ASSUME NEW t \in Teams, NEW r \in Scrims, Entry(t, r, "extend"), UNCHANGED servers
        PROVE  /\ Total(s, "release")' <= Total(s, "reserve")'
               /\ Reserved(s)' => Total(s, "release")' < Total(s, "reserve")'
    BY <1>4, <1>8 DEF Kinds
  <1> QED BY <1>5, <1>6, <1>7, <1>8, WhoBooks

(* A server's credit comes back at most once (release_if_unstarted, whose  *)
(* two requests at the same time give it back twice): one request at a     *)
(* time, it does not, even if requests die.                                *)
THEOREM RefundsOnce == SpecPages => []RefundedOnce
  <1>1. InitServers => Counted
    BY NothingReservedAtFirst
    DEF Counted, Reserved, Exists, InitServers, NoServer, Kinds
  <1>2. IInv /\ Facts /\ GraceInv /\ Counted /\ [NextPages]_pageVars => Counted'
    BY StepKeepsCounted
  <1>3. Counted => RefundedOnce
    BY DEF Counted, RefundedOnce
  <1> QED BY <1>1, <1>2, <1>3, Invariance, PagesAreServers, FactsHold, GraceInvariance, PTL
          DEF SpecPages

-----------------------------------------------------------------------------
(* Every credit moves the window, while no request dies                    *)

Settled ==
    /\ \A s \in Scrims :
          IF Exists(s)
          THEN servers[s].ends + ExtensionTime * Cardinality(Buying(s)) = Bought(s)
          ELSE Total(s, "extend") = 0
    /\ \A w \in Workers : worker[w].pc = "write_window" =>
          worker[w].ends = servers[worker[w].scrim].ends

(* Who is at a window goes on to read or write it, unless he dies. *)
NoneLeaves == \A v \in Workers : worker[v].pc \in Window => worker'[v] = worker[v]

LEMMA WindowsAreKept ==
  ASSUME Facts, ~Crashes, [NextServers]_allVars,
         ~ \E w \in Workers : ReadWindow(w) \/ WriteWindow(w)
  PROVE  NoneLeaves
  BY WorkerMoves DEF Proceeds, NoneLeaves, Facts, Typed

(* No window is moved, and no extension booked. *)
LEMMA SettledStays ==
  ASSUME Facts, Settled, Stay, NoneComes, NoneLeaves,
         \A s \in Scrims :
            /\ Total(s, "extend")' = Total(s, "extend")
            /\ Exists(s) => servers'[s].ends = servers[s].ends
            /\ ~Exists(s) /\ Exists(s)' => servers'[s].ends = scrims'[s].at + CreditTime,
         Facts'
  PROVE  Settled'
  <1>1. \A s \in Scrims : Buying(s)' = Buying(s)
    BY DEF Buying, NoneComes, NoneLeaves
  <1>2. ASSUME NEW s \in Scrims
        PROVE  IF Exists(s)'
               THEN servers'[s].ends + ExtensionTime * Cardinality(Buying(s)') = Bought(s)'
               ELSE Total(s, "extend")' = 0
    <2>1. CASE Exists(s)
      <3>1. /\ Known(s) /\ Exists(s)' /\ servers'[s].ends = servers[s].ends
            /\ scrims'[s].at = scrims[s].at
        BY <2>1, ServerIsKnown DEF Stay
      <3>2. Bought(s)' = Bought(s)
        BY <3>1 DEF Bought
      <3> QED BY <1>1, <2>1, <3>1, <3>2 DEF Settled
    <2>2. CASE ~Exists(s)
      <3>1. Total(s, "extend")' = 0
        BY <2>2 DEF Settled
      <3>2. Buying(s)' = {}
        BY <1>1, <2>2, AtAWindow DEF Buying
      <3>3. Cardinality(Buying(s)') = 0
        BY <3>2, FS_EmptySet
      <3>4. ASSUME Exists(s)'
            PROVE  servers'[s].ends + ExtensionTime * Cardinality(Buying(s)') = Bought(s)'
        <4>1. PICK at \in Nat : at = scrims'[s].at
          BY DEF Facts, Typed, ScrimRows
        <4>2. CreditTime \in Nat /\ ExtensionTime \in Nat /\ ExtensionTime * 0 = 0
          BY ScrimServersAssumption, Times
        <4>3. servers'[s].ends = at + CreditTime
          BY <2>2, <3>4, <4>1
        <4>4. Bought(s)' = at + CreditTime + ExtensionTime * 0
          BY <3>1, <4>1 DEF Bought
        <4> QED BY <3>3, <4>2, <4>3, <4>4
      <3> QED BY <3>1, <3>4
    <2> QED BY <2>1, <2>2
  <1>3. ASSUME NEW w \in Workers, worker'[w].pc = "write_window"
        PROVE  worker'[w].ends = servers'[worker'[w].scrim].ends
    <2>1. worker'[w] = worker[w] /\ worker[w].pc \in Window
      BY <1>3 DEF NoneComes, Window
    <2>2. worker[w].scrim \in Scrims /\ Exists(worker[w].scrim)
      BY <2>1, AtAWindow
    <2> QED BY <1>3, <2>1, <2>2 DEF Settled
  <1> QED BY <1>2, <1>3 DEF Settled

(* A credit is spent: as much is bought as is still to be moved. *)
LEMMA SpendingKeepsSettled ==
  ASSUME Facts, Facts', Settled, UNCHANGED <<scrims, servers>>,
         NEW w \in Workers, NEW t \in Teams, NEW s \in Scrims,
         Exists(s), Entry(t, s, "extend"),
         worker[w].pc \notin Window,
         worker'[w].pc = "read_window", worker'[w].scrim = s,
         \A v \in Workers \ {w} : worker'[v] = worker[v]
  PROVE  Settled'
  <1>1. ASSUME NEW r \in Scrims
        PROVE  /\ Total(r, "extend") \in Nat
               /\ Total(r, "extend")' = Total(r, "extend") + (IF r = s THEN 1 ELSE 0)
    BY Tallies DEF Kinds
  <1>2. ASSUME NEW r \in Scrims, r # s
        PROVE  IF Exists(r)'
               THEN servers'[r].ends + ExtensionTime * Cardinality(Buying(r)') = Bought(r)'
               ELSE Total(r, "extend")' = 0
    <2>1. Buying(r)' = Buying(r)
      BY <1>2 DEF Buying, Window
    <2>2. Total(r, "extend")' = Total(r, "extend") /\ (Exists(r)' <=> Exists(r))
      BY <1>1, <1>2 DEF Exists
    <2>3. Bought(r)' = Bought(r)
      BY <2>2 DEF Bought
    <2> QED BY <2>1, <2>2, <2>3 DEF Settled
  <1>3. servers'[s].ends + ExtensionTime * Cardinality(Buying(s)') = Bought(s)'
    <2>1. Buying(s)' = Buying(s) \cup {w} /\ w \notin Buying(s)
      BY DEF Buying, Window
    <2>2. Cardinality(Buying(s)') = Cardinality(Buying(s)) + 1
      BY <2>1, BuyingIsNat, FS_AddElement
    <2>3. PICK n \in Nat, total \in Nat, at \in Nat, ends \in Nat :
             /\ n = Cardinality(Buying(s)) /\ total = Total(s, "extend")
             /\ at = scrims[s].at /\ ends = servers[s].ends
      <3>1. scrims[s].at \in Nat /\ servers[s].ends \in Nat
        BY DEF Facts, Typed, ScrimRows, ServerRows
      <3> QED BY <1>1, <3>1, BuyingIsNat
    <2>4. /\ ExtensionTime \in Nat /\ CreditTime \in Nat
          /\ ExtensionTime * n \in Nat /\ ExtensionTime * total \in Nat
          /\ ExtensionTime * (n + 1) = ExtensionTime * n + ExtensionTime
          /\ ExtensionTime * (total + 1) = ExtensionTime * total + ExtensionTime
      BY ScrimServersAssumption, Times
    <2>5. ends + ExtensionTime * n = at + CreditTime + ExtensionTime * total
      BY <2>3 DEF Settled, Bought
    <2>6. ends + ExtensionTime * (n + 1) = at + CreditTime + ExtensionTime * (total + 1)
      BY <2>4, <2>5
    <2>7. Bought(s)' = at + CreditTime + ExtensionTime * (total + 1)
      BY <1>1, <2>3 DEF Bought
    <2> QED BY <2>2, <2>3, <2>6, <2>7
  <1>4. ASSUME NEW v \in Workers, worker'[v].pc = "write_window"
        PROVE  worker'[v].ends = servers'[worker'[v].scrim].ends
    BY <1>4 DEF Settled
  <1>5. Exists(s)'
    BY DEF Exists
  <1> QED BY <1>2, <1>3, <1>4, <1>5 DEF Settled

LEMMA ReadingKeepsSettled ==
  ASSUME Facts, Settled, NEW w \in Workers, ReadWindow(w)
  PROVE  Settled'
  <1>1. PICK s \in Scrims :
           /\ worker[w].pc = "read_window" /\ worker[w].scrim = s
           /\ worker'[w].pc = "write_window" /\ worker'[w].scrim = s
           /\ worker'[w].ends = servers[s].ends
           /\ \A v \in Workers \ {w} : worker'[v] = worker[v]
    BY ReadsWindow
  <1>2. UNCHANGED <<scrims, servers, ledger>>
    BY ReadsWindow
  <1>3. ASSUME NEW r \in Scrims
        PROVE  /\ Buying(r)' = Buying(r) /\ Bought(r)' = Bought(r)
               /\ Total(r, "extend")' = Total(r, "extend") /\ (Exists(r)' <=> Exists(r))
    BY <1>1, <1>2 DEF Buying, Window, Bought, Total, Exists
  <1>4. ASSUME NEW v \in Workers, worker'[v].pc = "write_window"
        PROVE  worker'[v].ends = servers'[worker'[v].scrim].ends
    BY <1>1, <1>2, <1>4 DEF Settled
  <1> QED BY <1>2, <1>3, <1>4 DEF Settled

(* The window is moved from where it is: nobody else is at work. *)
LEMMA WritingKeepsSettled ==
  ASSUME IInv, Facts, Settled, NEW w \in Workers, WriteWindow(w)
  PROVE  Settled'
  <1>1. PICK s \in Scrims :
           /\ Exists(s) /\ worker[w].pc = "write_window" /\ worker[w].scrim = s
           /\ servers'[s].ends = worker[w].ends + ExtensionTime
           /\ \A r \in Scrims \ {s} : servers'[r] = servers[r]
           /\ \A r \in Scrims : Exists(r)' <=> Exists(r)
           /\ worker'[w].pc \notin Window
           /\ \A v \in Workers \ {w} : worker'[v] = worker[v]
    BY WritesWindow
  <1>2. UNCHANGED <<scrims, ledger>>
    BY WritesWindow
  <1>3. /\ Buying(s)' = Buying(s) \ {w} /\ w \in Buying(s)
        /\ \A r \in Scrims \ {s} : Buying(r)' = Buying(r)
        /\ \A r \in Scrims : /\ Bought(r)' = Bought(r)
                             /\ Total(r, "extend")' = Total(r, "extend")
    BY <1>1, <1>2 DEF Buying, Window, Bought, Total
  <1>4. servers'[s].ends + ExtensionTime * Cardinality(Buying(s)') = Bought(s)'
    <2>1. Cardinality(Buying(s) \ {w}) = Cardinality(Buying(s)) - 1
      BY <1>3, BuyingIsNat, FS_RemoveElement
    <2>2. PICK n \in Nat : n = Cardinality(Buying(s)') /\ Cardinality(Buying(s)) = n + 1
      <3>1. Cardinality(Buying(s)') \in Nat /\ Cardinality(Buying(s)) \in Nat
        BY BuyingIsNat
      <3>2. Cardinality(Buying(s)') = Cardinality(Buying(s)) - 1
        BY <1>3, <2>1
      <3> QED BY <3>1, <3>2
    <2>3. PICK ends \in Nat : ends = servers[s].ends /\ ends = worker[w].ends
      BY <1>1, ServerIsKnown DEF Settled
    <2>4. ends + ExtensionTime * (n + 1) = Bought(s)
      BY <1>1, <2>2, <2>3 DEF Settled
    <2>5. /\ ExtensionTime \in Nat /\ ExtensionTime * n \in Nat
          /\ ExtensionTime * (n + 1) = ExtensionTime * n + ExtensionTime
      BY ScrimServersAssumption, Times
    <2>6. (ends + ExtensionTime) + ExtensionTime * n = Bought(s)
      BY <2>4, <2>5
    <2> QED BY <1>1, <1>3, <2>2, <2>3, <2>6
  <1>5. ASSUME NEW v \in Workers PROVE worker'[v].pc # "write_window"
    <2>1. ~Idle(w)
      BY <1>1 DEF Idle
    <2> QED BY <1>1, <2>1, AloneWhileWorking DEF Idle, Window
  <1>6. ASSUME NEW r \in Scrims, r # s
        PROVE  IF Exists(r)'
               THEN servers'[r].ends + ExtensionTime * Cardinality(Buying(r)') = Bought(r)'
               ELSE Total(r, "extend")' = 0
    BY <1>1, <1>3, <1>6 DEF Settled
  <1> QED BY <1>1, <1>4, <1>5, <1>6 DEF Settled

LEMMA StepKeepsSettled ==
  ASSUME IInv, Facts, GraceInv, ~Crashes, Settled, [NextPages]_pageVars
  PROVE  Settled'
  <1>0. [NextServers]_allVars /\ Facts' /\ Stay
    BY StepIsServerStep, StepIsQuietOrBooks
  <1>1. CASE \E w \in Workers : ReadWindow(w) \/ WriteWindow(w)
    BY <1>1, ReadingKeepsSettled, WritingKeepsSettled
  <1>2. CASE ~ \E w \in Workers : ReadWindow(w) \/ WriteWindow(w)
    <2>1. NoneLeaves
      BY <1>0, <1>2, WindowsAreKept
    <2>2. CASE Quiet
      <3>1. \A s \in Scrims :
              /\ Total(s, "extend")' = Total(s, "extend")
              /\ Exists(s) => servers'[s].ends = servers[s].ends
              /\ ~Exists(s) /\ Exists(s)' => servers'[s].ends = scrims'[s].at + CreditTime
        BY <2>2 DEF Quiet, Total
      <3>2. NoneComes
        BY <2>2 DEF Quiet, NoneComes
      <3> QED BY <1>0, <2>1, <3>1, <3>2, SettledStays
    <2>3. ASSUME NEW w \in Workers, Attach(w) PROVE Settled'
      <3>1. NoneComes /\ UNCHANGED scrims
        BY <2>3, Attaches
      <3>2. PICK t \in Teams, s \in Scrims :
               /\ ~Exists(s) /\ Entry(t, s, "reserve")
               /\ servers'[s].ends = scrims[s].at + CreditTime
               /\ \A r \in Scrims \ {s} : servers'[r] = servers[r]
        BY <2>3, Attaches
      <3>3. \A r \in Scrims : Total(r, "extend")' = Total(r, "extend")
        BY <3>2, TotalMoves DEF Facts, Typed, Kinds
      <3>4. \A r \in Scrims :
              /\ Exists(r) => servers'[r].ends = servers[r].ends
              /\ ~Exists(r) /\ Exists(r)' => servers'[r].ends = scrims'[r].at + CreditTime
        BY <3>1, <3>2 DEF Exists
      <3> QED BY <1>0, <2>1, <3>1, <3>3, <3>4, SettledStays
    <2>4. ASSUME NEW w \in Workers, Refund(w) PROVE Settled'
      <3>1. NoneComes /\ UNCHANGED <<scrims, servers>>
        BY <2>4, Refunds
      <3>2. PICK t \in Teams, s \in Scrims : Entry(t, s, "release")
        BY <2>4, Refunds
      <3>3. \A r \in Scrims : Total(r, "extend")' = Total(r, "extend")
        BY <3>2, TotalMoves DEF Facts, Typed, Kinds
      <3>4. \A r \in Scrims :
              /\ Exists(r) => servers'[r].ends = servers[r].ends
              /\ ~Exists(r) /\ Exists(r)' => servers'[r].ends = scrims'[r].at + CreditTime
        BY <3>1 DEF Exists
      <3> QED BY <1>0, <2>1, <3>1, <3>3, <3>4, SettledStays
    <2>5. ASSUME NEW w \in Workers, Spend(w), ~Quiet PROVE Settled'
      BY <1>0, <2>5, Spends, SpendingKeepsSettled
    <2> QED
      BY <1>0, <1>2, <2>2, <2>3, <2>4, <2>5, StepIsQuietOrBooks DEF Transacts
  <1> QED BY <1>1, <1>2

(* Every credit spent on an extension moves the end of the window (FR-063, *)
(* routes/servers.py extend), as long as no request dies between the       *)
(* spending and the writing.                                               *)
THEOREM ExtensionsAreGiven == ~Crashes => (SpecPages => []ExtensionsBuyTime)
  <1> SUFFICES ASSUME ~Crashes PROVE SpecPages => []ExtensionsBuyTime
    OBVIOUS
  <1>1. InitServers => Settled
    BY NothingReservedAtFirst
    DEF Settled, InitServers, Init, Exists, NoServer, Resting, Kinds
  <1>2. IInv /\ Facts /\ GraceInv /\ Settled /\ [NextPages]_pageVars => Settled'
    BY StepKeepsSettled
  <1>3. Facts /\ Settled => ExtensionsBuyTime
    <2> SUFFICES ASSUME Facts, Settled, AllIdle, NEW s \in Scrims, servers[s] # NoServer
                 PROVE  servers[s].ends = Bought(s)
      BY DEF ExtensionsBuyTime, Bought
    <2>1. Exists(s)
      BY DEF Facts, Standing
    <2>2. Buying(s) = {}
      BY DEF Buying, AllIdle, Idle, Window
    <2>3. Cardinality(Buying(s)) = 0
      BY <2>2, FS_EmptySet
    <2>4. PICK ends \in Nat : ends = servers[s].ends
      BY <2>1, ServerIsKnown
    <2>5. ExtensionTime * 0 = 0
      BY ScrimServersAssumption, Times
    <2>6. ends + ExtensionTime * 0 = Bought(s)
      BY <2>1, <2>3, <2>4 DEF Settled
    <2> QED BY <2>4, <2>5, <2>6
  <1> QED BY <1>1, <1>2, <1>3, Invariance, PagesAreServers, FactsHold, GraceInvariance, PTL
          DEF SpecPages

=============================================================================
