------------------------------- MODULE Scrims -------------------------------
(***************************************************************************)
(* The scrim state machine of app/scrims.py as its routes run it: every    *)
(* handler reads the row, checks its guards in Python, and writes the      *)
(* status in a later statement, so that handlers of different requests     *)
(* interleave between the check and the write.  Only a claim decides in    *)
(* its UPDATE.  A handler that ends a scrim then gives its server's credit *)
(* back, and one that creates or claims a scrim may attach a server; those *)
(* two calls are the steps "release" and "attach", which this module only  *)
(* passes through and ScrimServers models.                                 *)
(*                                                                         *)
(* A team stands for the signed-in members that act for it: the guards ask *)
(* only on which side of the scrim the actor is.  All teams play one       *)
(* format; time is a counter that stops at Horizon.                        *)
(***************************************************************************)
EXTENDS Integers, FiniteSets

CONSTANTS
    Workers,        \* gunicorn workers: requests served at the same time
    Teams,          \* teams with members on the platform
    Scrims,         \* rows of scrims that may come to exist
    StartTimes,     \* values a form's scheduled_at can take
    Horizon,        \* the clock's last value
    NoTeam,         \* the opponent of a listing nobody has claimed
    Concurrent,     \* FALSE: a request starts only when no other is running
    Crashes         \* whether a worker can die in the middle of a request

ASSUME ScrimsAssumption ==
    /\ IsFiniteSet(Workers) /\ IsFiniteSet(Teams) /\ IsFiniteSet(Scrims)
    /\ StartTimes \subseteq Nat
    /\ Horizon \in Nat
    /\ NoTeam \notin Teams
    /\ Concurrent \in BOOLEAN /\ Crashes \in BOOLEAN

VARIABLES
    now,            \* the clock
    scrims,         \* rows of scrims
    worker          \* what each worker is doing

scrimVars == <<now, scrims, worker>>

NoScrim ==
    [status |-> "none", origin |-> "none", proposer |-> NoTeam,
     opponent |-> NoTeam, at |-> 0]

Rows ==
    [status : {"pending", "open", "confirmed", "declined", "cancelled"},
     origin : {"proposal", "listing"},
     proposer : Teams, opponent : Teams \cup {NoTeam}, at : StartTimes]

Resting == [pc |-> "idle"]

Idle(w) == worker[w].pc = "idle"

(* A worker may take a request up. *)
Free(w) == Idle(w) /\ (Concurrent \/ \A v \in Workers : Idle(v))

(* Worker w goes on to statement pc of operation op of team t on scrim s. *)
Busy(w, pc, op, t, s) ==
    worker' = [worker EXCEPT ![w] = [pc |-> pc, op |-> op, team |-> t, scrim |-> s]]

(* ... or goes on to its next statement, calls the server side, or is done. *)
Continue(w, pc) == worker' = [worker EXCEPT ![w].pc = pc]
Call(w, pc, t) == Busy(w, pc, pc, t, worker[w].scrim)
Rest(w) == worker' = [worker EXCEPT ![w] = Resting]

Init ==
    /\ now = 0
    /\ scrims = [s \in Scrims |-> NoScrim]
    /\ worker = [w \in Workers |-> Resting]

-----------------------------------------------------------------------------
(* Creation: one INSERT, and the server the form may have asked for.       *)

Create(w, t, s, row) ==
    /\ Free(w)
    /\ scrims[s] = NoScrim
    /\ row.at > now                                     \* _require_future
    /\ scrims' = [scrims EXCEPT ![s] = row]
    /\ \/ Busy(w, "attach", "attach", t, s)             \* use_credits
       \/ UNCHANGED worker
    /\ UNCHANGED now

CreateProposal(w, t, opponent, s, at) ==
    /\ t # opponent
    /\ Create(w, t, s,
              [status |-> "pending", origin |-> "proposal", proposer |-> t,
               opponent |-> opponent, at |-> at])

CreateListing(w, t, s, at) ==
    Create(w, t, s,
           [status |-> "open", origin |-> "listing", proposer |-> t,
            opponent |-> NoTeam, at |-> at])

-----------------------------------------------------------------------------
(* The guards each handler checks against the row it has read.             *)

(* Mutant: the status is not looked at. *)
MayAcceptAny(t, row) == t = row.opponent

MayAccept(t, row) == row.status = "pending" /\ t = row.opponent

MayDecline(t, row) == row.status = "pending" /\ t = row.opponent

MayWithdraw(t, row) == row.status = "pending" /\ t = row.proposer

MayCancel(t, row) == row.status = "confirmed" /\ t \in {row.proposer, row.opponent}

MayCancelListing(t, row) ==
    row.origin = "listing" /\ row.status = "open" /\ t = row.proposer

(* The claim's status and time are left to its UPDATE. *)
MayClaim(t, row) == row.origin = "listing" /\ t # row.proposer

May(op, t, row) ==
    \/ op = "accept" /\ MayAccept(t, row)
    \/ op = "decline" /\ MayDecline(t, row)
    \/ op = "withdraw" /\ MayWithdraw(t, row)
    \/ op = "cancel" /\ MayCancel(t, row)
    \/ op = "cancel_listing" /\ MayCancelListing(t, row)
    \/ op = "claim" /\ MayClaim(t, row)

(* Mutant: an accepted scrim gives its server back too. *)
EndingOrAccepting == {"accept", "decline", "withdraw", "cancel", "cancel_listing"}

Ending == {"decline", "withdraw", "cancel", "cancel_listing"}

(* A handler reads the row; a guard that fails ends the request and        *)
(* changes nothing.                                                        *)
Check(w, op, t, s) ==
    /\ Free(w)
    /\ May(op, t, scrims[s])
    /\ Busy(w, IF op = "claim" THEN "claim" ELSE "set_status", op, t, s)
    /\ UNCHANGED <<now, scrims>>

NewStatus ==
    [accept |-> "confirmed", decline |-> "declined", withdraw |-> "cancelled",
     cancel |-> "cancelled", cancel_listing |-> "cancelled"]

(* _set_status: unconditional, on the strength of the guards already run.  *)
SetStatus(w) ==
    /\ worker[w].pc = "set_status"
    /\ scrims' = [scrims EXCEPT ![worker[w].scrim].status = NewStatus[worker[w].op]]
    /\ IF worker[w].op \in Ending THEN Call(w, "release", NoTeam) ELSE Rest(w)
    /\ UNCHANGED now

(* Mutant: the UPDATE trusts what the handler has read. *)
ClaimUnconditional(w) ==
    /\ worker[w].pc = "claim"
    /\ scrims' = [scrims EXCEPT ![worker[w].scrim].status = "confirmed",
                                ![worker[w].scrim].opponent = worker[w].team]
    /\ Call(w, "attach", worker[w].team) \/ Rest(w)
    /\ UNCHANGED now

(* claim: UPDATE ... WHERE status = 'open' AND scheduled_at > now.         *)
Claim(w) ==
    /\ worker[w].pc = "claim"
    /\ LET s == worker[w].scrim
           open == scrims[s].status = "open" /\ scrims[s].at > now
       IN  IF open
           THEN /\ scrims' = [scrims EXCEPT ![s].status = "confirmed",
                                            ![s].opponent = worker[w].team]
                /\ Call(w, "attach", worker[w].team) \/ Rest(w)   \* use_credits
           ELSE UNCHANGED scrims /\ Rest(w)
    /\ UNCHANGED now

(* The process dies: the transaction open at that moment is rolled back.   *)
Crash(w) ==
    /\ Crashes
    /\ ~Idle(w)
    /\ Rest(w)
    /\ UNCHANGED <<now, scrims>>

Tick ==
    /\ now < Horizon
    /\ now' = now + 1
    /\ UNCHANGED <<scrims, worker>>

(* A request for team t, and what a worker does for the one it serves. *)
Ask(w, t) ==
    \E s \in Scrims :
        \/ \E at \in StartTimes :
              \/ \E opponent \in Teams : CreateProposal(w, t, opponent, s, at)
              \/ CreateListing(w, t, s, at)
        \/ \E op \in Ending \cup {"accept", "claim"} : Check(w, op, t, s)

GoOn(w) == SetStatus(w) \/ Claim(w) \/ Crash(w)

Handlers == \E w \in Workers : GoOn(w) \/ \E t \in Teams : Ask(w, t)

(* What the servers and credits do of it is not this module's concern. *)
ServerSide(w) ==
    /\ worker[w].pc \in {"release", "attach"}
    /\ Rest(w)
    /\ UNCHANGED <<now, scrims>>

Next == Handlers \/ Tick \/ \E w \in Workers : ServerSide(w)

Spec == Init /\ [][Next]_scrimVars

-----------------------------------------------------------------------------
TypeOK ==
    /\ now \in 0 .. Horizon
    /\ scrims \in [Scrims -> Rows \cup {NoScrim}]
    /\ worker \in [Workers -> {Resting} \cup
          [pc : {"set_status", "claim", "release", "attach"},
           op : Ending \cup {"accept", "claim", "release", "attach"},
           team : Teams \cup {NoTeam}, scrim : Scrims]]

(* First claim wins (FR-011): whoever has a listing keeps it, however many *)
(* claims passed their checks before the first UPDATE; and a listing that  *)
(* was pulled stays pulled, whoever was about to claim it.                 *)
FirstClaimWins ==
    [][\A s \in Scrims :
          /\ scrims[s].opponent # NoTeam => scrims'[s].opponent = scrims[s].opponent
          /\ scrims[s].origin = "listing" /\ scrims[s].status = "cancelled" =>
                scrims'[s].status = "cancelled"]_scrimVars

StatusSteps ==
    {<<"pending", "confirmed">>, <<"pending", "declined">>, <<"pending", "cancelled">>,
     <<"open", "confirmed">>, <<"open", "cancelled">>, <<"confirmed", "cancelled">>}

(* No status change but those scrims.py's header draws: a declined or      *)
(* cancelled scrim is over, and a confirmed one can only be cancelled.     *)
FollowsStateMachine ==
    [][\A s \in Scrims : scrims[s] # NoScrim /\ scrims'[s].status # scrims[s].status =>
          <<scrims[s].status, scrims'[s].status>> \in StatusSteps]_scrimVars

=============================================================================
