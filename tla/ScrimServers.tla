---------------------------- MODULE ScrimServers ----------------------------
(***************************************************************************)
(* Scrims with the servers attached to them and the credits these cost:    *)
(* app/servers_store.py and its callers (routes/scrims.py,                 *)
(* routes/servers.py and the reconcile-servers command of app/cli.py),     *)
(* composed with the scrim state machine of Scrims.                        *)
(*                                                                         *)
(* One step is one committed statement, or the read that a later statement *)
(* relies on.  Attaching a server, spending a credit and giving one back   *)
(* are single steps: Credits shows that the transactions behind them are.  *)
(* The reconciler is a process of its own; it reads its clock and all its  *)
(* rows at the start of a run and acts on what it read.                    *)
(***************************************************************************)
EXTENDS Scrims, Functions

CONSTANTS
    CreditTime,     \* what the reserved credit buys (CREDIT_MINUTES)
    ExtensionTime,  \* what one more credit buys (EXTENSION_MINUTES)
    GraceTime,      \* unpaid time at the end (GRACE_MINUTES)
    Opening,        \* credits each team's account starts with
    Led             \* teams whose roster, and so whose leader, is cached

ASSUME ScrimServersAssumption ==
    /\ {CreditTime, ExtensionTime, GraceTime} \subseteq Nat \ {0}
    /\ Opening \in [Teams -> Nat]
    /\ Led \subseteq Teams

VARIABLES
    servers,        \* servers[s]: the row of servers for scrim s
    ledger,         \* ledger[t][s]: entries of account t about s, by kind
    rec,            \* the run of the reconciler under way
    graces,         \* history: how often the server of s entered its grace
    ran             \* history: scrims whose server has been running

serverVars == <<servers, ledger, rec, graces, ran>>
allVars == <<scrimVars, serverVars>>

Kinds == {"reserve", "release", "extend"}

NoServer == [state |-> "none", owner |-> NoTeam, ends |-> 0, grace |-> FALSE]

Asleep == [now |-> 0, rows |-> <<>>, marked |-> {}]

AllIdle == \A w \in Workers : Idle(w)

Total(s, kind) == SumFunction([t \in Teams |-> ledger[t][s][kind]])

(* available_credits: the sum of the account's entries. *)
Available(t) ==
    Opening[t] + SumFunction(
        [s \in Scrims |-> ledger[t][s]["release"] - ledger[t][s]["reserve"]
                              - ledger[t][s]["extend"]])

Entry(t, s, kind) == ledger' = [ledger EXCEPT ![t][s][kind] = @ + 1]

(* set_state writes whatever the row now holds. *)
SetState(s, state) ==
    /\ servers' = [servers EXCEPT ![s].state = state]
    /\ graces' = [graces EXCEPT ![s] = @ + (IF state = "in_grace" THEN 1 ELSE 0)]
    /\ ran' = IF state = "running" THEN ran \cup {s} ELSE ran

InitServers ==
    /\ Init
    /\ servers = [s \in Scrims |-> NoServer]
    /\ ledger = [t \in Teams |-> [s \in Scrims |-> [k \in Kinds |-> 0]]]
    /\ rec = Asleep
    /\ graces = [s \in Scrims |-> 0]
    /\ ran = {}

-----------------------------------------------------------------------------
(* Attaching a server: after a scrim was created or claimed, or by the     *)
(* route for a scrim that has none.                                        *)

(* routes/scrims.py attach_server, up to its call of attach_to_scrim.      *)
MayAttach(t, s) ==
    /\ t \in {scrims[s].proposer, scrims[s].opponent}   \* owning_team_for
    /\ servers[s] = NoServer

CheckAttach(w, t, s) ==
    /\ Free(w)
    /\ MayAttach(t, s)
    /\ Busy(w, "attach", "attach", t, s)
    /\ UNCHANGED <<now, scrims, serverVars>>

Attach(w) ==
    LET t == worker[w].team
        s == worker[w].scrim
    IN  /\ worker[w].pc = "attach"
        /\ servers[s] = NoServer                        \* idx_servers_scrim
        /\ Available(t) >= 1
        /\ servers' = [servers EXCEPT ![s] =
              [state |-> "scheduled", owner |-> t,
               ends |-> scrims[s].at + CreditTime, grace |-> FALSE]]
        /\ Entry(t, s, "reserve")
        /\ Rest(w)
        /\ UNCHANGED <<now, scrims, rec, graces, ran>>

(* No credit, a server already there, or the victim of a deadlock: the     *)
(* scrim stands without a server.                                          *)
AttachFails(w) ==
    /\ worker[w].pc = "attach"
    /\ Rest(w)
    /\ UNCHANGED <<now, scrims, serverVars>>

-----------------------------------------------------------------------------
(* release_if_unstarted, the last call of every handler that ends a scrim. *)

(* Mutant: whatever the server's state, it is cancelled and refunded. *)
ReadServerAny(w) ==
    /\ worker[w].pc = "release"
    /\ IF servers[worker[w].scrim] # NoServer
       THEN Continue(w, "cancel_server")
       ELSE Rest(w)
    /\ UNCHANGED <<now, scrims, serverVars>>

ReadServer(w) ==
    /\ worker[w].pc = "release"
    /\ IF servers[worker[w].scrim].state = "scheduled"
       THEN Continue(w, "cancel_server")
       ELSE Rest(w)
    /\ UNCHANGED <<now, scrims, serverVars>>

CancelServer(w) ==
    /\ worker[w].pc = "cancel_server"
    /\ SetState(worker[w].scrim, "cancelled")
    /\ Continue(w, "refund")
    /\ UNCHANGED <<now, scrims, ledger, rec>>

(* Mutant: the organising team is refunded, whoever paid. *)
RefundOrganiser(w) ==
    /\ worker[w].pc = "refund"
    /\ Entry(scrims[worker[w].scrim].proposer, worker[w].scrim, "release")
    /\ Rest(w)
    /\ UNCHANGED <<now, scrims, servers, rec, graces, ran>>

Refund(w) ==
    /\ worker[w].pc = "refund"
    /\ Entry(servers[worker[w].scrim].owner, worker[w].scrim, "release")
    /\ Rest(w)
    /\ UNCHANGED <<now, scrims, servers, rec, graces, ran>>

-----------------------------------------------------------------------------
(* routes/servers.py extend.                                               *)

(* can_manage: the leaders of the organising team, else the owner. *)
Manager(s) ==
    IF scrims[s].proposer \in Led THEN scrims[s].proposer ELSE servers[s].owner

MayExtend(t, s) == servers[s].state \in {"running", "in_grace"} /\ t = Manager(s)

CheckExtend(w, t, s) ==
    /\ Free(w)
    /\ MayExtend(t, s)
    /\ worker' = [worker EXCEPT ![w] =
          [pc |-> "spend", op |-> "extend", team |-> t, scrim |-> s,
           saw |-> servers[s].state, ends |-> 0]]
    /\ UNCHANGED <<now, scrims, serverVars>>

(* Mutant: the button was there, so the balance is not checked again. *)
SpendUnchecked(w) ==
    /\ worker[w].pc = "spend"
    /\ Entry(worker[w].team, worker[w].scrim, "extend")
    /\ Continue(w, "read_window")
    /\ UNCHANGED <<now, scrims, servers, rec, graces, ran>>

Spend(w) ==
    /\ worker[w].pc = "spend"
    /\ IF Available(worker[w].team) >= 1
       THEN /\ Entry(worker[w].team, worker[w].scrim, "extend")
            /\ Continue(w, "read_window")
       ELSE UNCHANGED ledger /\ Rest(w)
    /\ UNCHANGED <<now, scrims, servers, rec, graces, ran>>

(* extend_window reads the boundary ...                                    *)
ReadWindow(w) ==
    /\ worker[w].pc = "read_window"
    /\ worker' = [worker EXCEPT ![w].pc = "write_window",
                                ![w].ends = servers[worker[w].scrim].ends]
    /\ UNCHANGED <<now, scrims, serverVars>>

(* Mutant: time is added to the clock instead of the boundary. *)
WriteWindowFromNow(w) ==
    /\ worker[w].pc = "write_window"
    /\ servers' = [servers EXCEPT ![worker[w].scrim].ends = now + ExtensionTime]
    /\ IF worker[w].saw = "in_grace" THEN Continue(w, "resume") ELSE Rest(w)
    /\ UNCHANGED <<now, scrims, ledger, rec, graces, ran>>

(* Mutant: every extension brings a grace of its own. *)
WriteWindowTooLong(w) ==
    /\ worker[w].pc = "write_window"
    /\ servers' = [servers EXCEPT ![worker[w].scrim].ends =
                                      worker[w].ends + ExtensionTime + GraceTime]
    /\ IF worker[w].saw = "in_grace" THEN Continue(w, "resume") ELSE Rest(w)
    /\ UNCHANGED <<now, scrims, ledger, rec, graces, ran>>

(* ... and writes the one it computed from that.                           *)
WriteWindow(w) ==
    /\ worker[w].pc = "write_window"
    /\ servers' = [servers EXCEPT ![worker[w].scrim].ends =
                                      worker[w].ends + ExtensionTime]
    /\ IF worker[w].saw = "in_grace" THEN Continue(w, "resume") ELSE Rest(w)
    /\ UNCHANGED <<now, scrims, ledger, rec, graces, ran>>

Resume(w) ==
    /\ worker[w].pc = "resume"
    /\ SetState(worker[w].scrim, "running")
    /\ Rest(w)
    /\ UNCHANGED <<now, scrims, ledger, rec>>

-----------------------------------------------------------------------------
(* flask reconcile-servers, one run at a time (concurrencyPolicy: Forbid). *)

(* Mutant: once the grace is used, only the first credit's hour counts. *)
DueAfterFirstHour(row, starts, t, state) ==
    \/ row.state = "scheduled" /\ t >= starts /\ state = "running"
    \/ /\ row.state = "running" /\ t >= starts + CreditTime
       /\ row.grace /\ state = "stopped"
    \/ row.state = "running" /\ t >= row.ends /\ ~row.grace /\ state = "in_grace"
    \/ row.state = "in_grace" /\ t >= row.ends + GraceTime /\ state = "stopped"
    \/ row.state = "in_grace" /\ t < row.ends /\ state = "running"

(* Mutant: the end of the window stops the server at once. *)
DueWithoutGrace(row, starts, t, state) ==
    \/ row.state = "scheduled" /\ t >= starts /\ state = "running"
    \/ row.state = "running" /\ t >= row.ends /\ state = "stopped"

(* Mutant: the end of the grace is only noticed by a run at that moment. *)
DueOnTheDot(row, starts, t, state) ==
    \/ row.state = "scheduled" /\ t >= starts /\ state = "running"
    \/ row.state = "running" /\ t >= row.ends /\ row.grace /\ state = "stopped"
    \/ row.state = "running" /\ t >= row.ends /\ ~row.grace /\ state = "in_grace"
    \/ row.state = "in_grace" /\ t = row.ends + GraceTime /\ state = "stopped"
    \/ row.state = "in_grace" /\ t < row.ends /\ state = "running"

(* The state a row, read at time t, is to be moved to.                     *)
Due(row, starts, t, state) ==
    \/ row.state = "scheduled" /\ t >= starts /\ state = "running"
    \/ row.state = "running" /\ t >= row.ends /\ row.grace /\ state = "stopped"
    \/ row.state = "running" /\ t >= row.ends /\ ~row.grace /\ state = "in_grace"
    \/ row.state = "in_grace" /\ t >= row.ends + GraceTime /\ state = "stopped"
    \/ row.state = "in_grace" /\ t < row.ends /\ state = "running"

States == {"scheduled", "running", "in_grace", "stopped", "cancelled"}

Overdue(s, t) == \E state \in States : Due(servers[s], scrims[s].at, t, state)

(* servers_needing_reconcile, less the rows the run will leave alone.      *)
Start ==
    /\ rec = Asleep
    /\ Concurrent \/ AllIdle
    /\ \E s \in Scrims : Overdue(s, now)
    /\ rec' = [now |-> now, marked |-> {},
               rows |-> [s \in {r \in Scrims : Overdue(r, now)} |-> servers[s]]]
    /\ UNCHANGED <<scrimVars, servers, ledger, graces, ran>>

(* Row s is dealt with; with the last one the run ends.                    *)
Done(s) ==
    rec' = IF DOMAIN rec.rows = {s} THEN Asleep
           ELSE [rec EXCEPT !.marked = {},
                            !.rows = [r \in DOMAIN rec.rows \ {s} |-> rec.rows[r]]]

(* Mutant: the grace is given without being noted. *)
AdvanceUnmarked(s, state) ==
    /\ rec.marked = {}
    /\ s \in DOMAIN rec.rows
    /\ Due(rec.rows[s], scrims[s].at, rec.now, state)
    /\ SetState(s, state) /\ Done(s)
    /\ UNCHANGED <<scrimVars, ledger>>

Advance(s, state) ==
    /\ rec.marked = {}
    /\ s \in DOMAIN rec.rows
    /\ Due(rec.rows[s], scrims[s].at, rec.now, state)
    /\ IF state = "in_grace"
       THEN /\ servers' = [servers EXCEPT ![s].grace = TRUE]     \* mark_grace_used
            /\ rec' = [rec EXCEPT !.marked = {s}]
            /\ UNCHANGED <<graces, ran>>
       ELSE SetState(s, state) /\ Done(s)
    /\ UNCHANGED <<scrimVars, ledger>>

EnterGrace(s) ==
    /\ s \in rec.marked
    /\ SetState(s, "in_grace")
    /\ Done(s)
    /\ UNCHANGED <<scrimVars, ledger>>

Move ==
    \E s \in Scrims :
        \/ \E state \in States : Advance(s, state)
        \/ EnterGrace(s)

Reconcile == Start \/ Move

RunDies ==
    /\ Crashes
    /\ rec # Asleep
    /\ rec' = Asleep
    /\ UNCHANGED <<scrimVars, servers, ledger, graces, ran>>

-----------------------------------------------------------------------------
GoOnServers(w) ==
    \/ Attach(w) \/ AttachFails(w)
    \/ ReadServer(w) \/ CancelServer(w) \/ Refund(w)
    \/ Spend(w) \/ ReadWindow(w) \/ WriteWindow(w) \/ Resume(w)

Request ==
    \/ Handlers /\ UNCHANGED serverVars
    \/ \E w \in Workers :
          \/ GoOnServers(w)
          \/ \E t \in Teams, s \in Scrims : CheckAttach(w, t, s) \/ CheckExtend(w, t, s)

Clock == Tick /\ UNCHANGED serverVars

NextServers ==
    \/ (Concurrent \/ rec = Asleep) /\ Request
    \/ Reconcile
    \/ RunDies
    \/ Clock

SpecServers == InitServers /\ [][NextServers]_allVars

(* Time passes, the CronJob runs again and again, and however often it is  *)
(* killed it is not killed every time before it has moved a server.        *)
(* Nothing is asked of the requests: players need not come back.           *)
FairSpecServers ==
    SpecServers /\ WF_allVars(Clock) /\ WF_allVars(Start) /\ SF_allVars(Move)

-----------------------------------------------------------------------------
(* What holds however requests, runs of the reconciler and crashes fall.   *)

ServersTypeOK ==
    /\ servers \in [Scrims ->
          [state : States \cup {"none"}, owner : Teams \cup {NoTeam},
           ends : Nat, grace : BOOLEAN]]
    /\ ledger \in [Teams -> [Scrims -> [Kinds -> Nat]]]
    /\ DOMAIN rec.rows \subseteq Scrims /\ rec.marked \subseteq DOMAIN rec.rows
    /\ graces \in [Scrims -> Nat]
    /\ ran \subseteq Scrims

(* The unpaid grace is granted once per server, not once per window        *)
(* (FR-074): extending again and again earns no more of it.                *)
GraceOnce == \A s \in Scrims : graces[s] <= 1

(* Nobody plays on time nobody paid for: a window is never longer than the *)
(* credits booked for that server.                                         *)
NoFreeTime ==
    \A s \in Scrims : servers[s] # NoServer =>
        servers[s].ends <= scrims[s].at + CreditTime + ExtensionTime * Total(s, "extend")

(* All this module does to credits and servers are steps the ledger        *)
(* promises, the promise that Credits keeps statement by statement.        *)
Promise ==
    INSTANCE Entitlements WITH
        Accounts <- Teams, Payments <- {}, Payer <- <<>>, Worth <- <<>>,
        NoOne <- NoTeam, paid <- {},
        balance <- [t \in Teams |-> Available(t)],
        servers <- [s \in Scrims |-> servers[s].owner]

UsesThePromise == Promise!Spec

(* Every server is off, and stays off, in the end, extended or not.        *)
EveryServerEnds ==
    \A s \in Scrims : <>[](servers[s].state \in {"none", "stopped", "cancelled"})

-----------------------------------------------------------------------------
(* What holds when requests and runs come one after the other, and is lost *)
(* when they overlap or die half-way.                                      *)

Over == {"stopped", "cancelled"}

(* Stopped and cancelled are terminal (005 data-model).                    *)
StoppedIsFinal ==
    [][\A s \in Scrims : servers[s].state \in Over =>
          servers'[s].state = servers[s].state]_allVars

(* A server's credit comes back at most once (credits.py: each kind moves  *)
(* the balance exactly once).                                              *)
RefundedOnce == \A s \in Scrims : Total(s, "release") <= Total(s, "reserve")

(* Once a server shows as cancelled and no request is at work, whoever     *)
(* paid for it has the credit back ("the credits were returned").          *)
CancelledWasRefunded ==
    \A s \in Scrims : AllIdle /\ servers[s].state = "cancelled" =>
        ledger[servers[s].owner][s]["release"] = ledger[servers[s].owner][s]["reserve"]

(* A credit comes back only for a server that never ran (credits.py).      *)
RefundedNeverRan == \A s \in ran : Total(s, "release") = 0

(* A server is not stopped before the time bought for it is over, however  *)
(* late in the match it was bought (FR-077).                               *)
NotCutShort ==
    [][\A s \in Scrims :
          servers[s].state # "stopped" /\ servers'[s].state = "stopped" =>
              now >= servers[s].ends]_allVars

(* Every credit spent on an extension moves the end of the window          *)
(* (FR-063), once no request is at work.                                   *)
ExtensionsBuyTime ==
    AllIdle => \A s \in Scrims : servers[s] # NoServer =>
        servers[s].ends = scrims[s].at + CreditTime + ExtensionTime * Total(s, "extend")

(* No server stops but after its grace (FR-072).                           *)
GraceBeforeStop ==
    \A s \in Scrims : servers[s].state = "stopped" => graces[s] > 0

-----------------------------------------------------------------------------
(* What the specification asks and the code does not do even then.         *)

(* The credit of a listing that lapses unclaimed comes back (FR-056): its  *)
(* server does not start.                                                  *)
LapsedListingUnspent == \A s \in ran : scrims[s].status # "open"

(* A scrim that will not happen costs nobody a credit, unless its server   *)
(* had started.                                                            *)
CalledOffIsFree ==
    \A s \in Scrims \ ran :
        AllIdle /\ scrims[s].status \in {"declined", "cancelled"} =>
            Total(s, "release") = Total(s, "reserve")

=============================================================================
