----------------------------- MODULE Migrations -----------------------------
(***************************************************************************)
(* The start of an app copy: migrate() in app/db.py, which create_app      *)
(* calls in every pod, worker and CronJob.  Copies started at the same     *)
(* time, perhaps of different releases, bring one store to the current     *)
(* schema under a session-level advisory lock.                             *)
(*                                                                         *)
(* Versions are numbered in filename order.  Releases only append files,   *)
(* so that a copy ships the versions 1 .. Ships[c].                        *)
(***************************************************************************)
EXTENDS Integers

CONSTANTS
    Copies,         \* processes that call create_app
    Latest,         \* the number of migrations in the newest release
    Ships,          \* Ships[c]: how many of them copy c has
    Flaky,          \* copies a migration may fail in, or that may be killed
    Nobody          \* the holder of a free lock

ASSUME MigrationsAssumption ==
    /\ Latest \in Nat
    /\ Ships \in [Copies -> 0 .. Latest]
    /\ Flaky \subseteq Copies
    /\ Nobody \notin Copies

VARIABLES
    pc,             \* where each copy is in migrate()
    lock,           \* the holder of MIGRATION_LOCK_KEY
    done,           \* done[c]: the versions c found recorded
    next,           \* next[c]: the file c looks at
    recorded,       \* the rows of schema_migrations
    runs            \* history: how often each version's SQL was committed

vars == <<pc, lock, done, next, recorded, runs>>

Versions == 1 .. Latest

Init ==
    /\ pc = [c \in Copies |-> "down"]
    /\ lock = Nobody
    /\ done = [c \in Copies |-> {}]
    /\ next = [c \in Copies |-> 1]
    /\ recorded = {}
    /\ runs = [v \in Versions |-> 0]

Goto(c, there) == pc' = [pc EXCEPT ![c] = there]

(* Mutant: no advisory lock. *)
TakeLockAnyway(c) ==
    /\ pc[c] = "down"
    /\ lock' = c
    /\ Goto(c, "read")
    /\ UNCHANGED <<done, next, recorded, runs>>

(* pg_advisory_lock: waits until the lock is free. *)
TakeLock(c) ==
    /\ pc[c] = "down"
    /\ lock = Nobody
    /\ lock' = c
    /\ Goto(c, "read")
    /\ UNCHANGED <<done, next, recorded, runs>>

(* Mutant: what an earlier attempt read is kept. *)
ReadDoneOnce(c) ==
    /\ pc[c] = "read"
    /\ next' = [next EXCEPT ![c] = 1]
    /\ Goto(c, "files")
    /\ UNCHANGED <<lock, done, recorded, runs>>

(* CREATE TABLE IF NOT EXISTS changes nothing here; then the SELECT. *)
ReadDone(c) ==
    /\ pc[c] = "read"
    /\ done' = [done EXCEPT ![c] = recorded]
    /\ next' = [next EXCEPT ![c] = 1]
    /\ Goto(c, "files")
    /\ UNCHANGED <<lock, recorded, runs>>

File(c) == pc[c] = "files" /\ next[c] <= Ships[c]

Skip(c) ==
    /\ File(c)
    /\ next[c] \in done[c]
    /\ next' = [next EXCEPT ![c] = @ + 1]
    /\ UNCHANGED <<pc, lock, done, recorded, runs>>

(* Mutant: the SQL is committed, the row recording it is not. *)
ApplyUnrecorded(c) ==
    /\ File(c)
    /\ next[c] \notin done[c]
    /\ next[c] \notin recorded
    /\ runs' = [runs EXCEPT ![next[c]] = @ + 1]
    /\ next' = [next EXCEPT ![c] = @ + 1]
    /\ UNCHANGED <<pc, lock, done, recorded>>

(* Mutant: the files are taken as the directory lists them, unsorted. *)
ApplyUnsorted(c) ==
    /\ File(c)
    /\ \E v \in 1 .. Ships[c] \ (done[c] \cup recorded) :
          /\ recorded' = recorded \cup {v}
          /\ runs' = [runs EXCEPT ![v] = @ + 1]
    /\ next' = [next EXCEPT ![c] = @ + 1]
    /\ UNCHANGED <<pc, lock, done>>

(* The file's SQL and the row recording it, in one transaction. *)
Apply(c) ==
    /\ File(c)
    /\ next[c] \notin done[c]
    /\ next[c] \notin recorded
    /\ recorded' = recorded \cup {next[c]}
    /\ runs' = [runs EXCEPT ![next[c]] = @ + 1]
    /\ next' = [next EXCEPT ![c] = @ + 1]
    /\ UNCHANGED <<pc, lock, done>>

(* A version another copy has committed since: its tables exist. *)
Collides(c) == File(c) /\ next[c] \notin done[c] /\ next[c] \in recorded

(* Mutant: no finally; the pooled session lives on and keeps the lock. *)
FailHoldingLock(c) ==
    /\ Collides(c) \/ (File(c) /\ c \in Flaky)
    /\ Goto(c, "down")
    /\ UNCHANGED <<lock, done, next, recorded, runs>>

(* The transaction is rolled back, the lock released, the pod crashes. *)
Fail(c) ==
    /\ Collides(c) \/ (File(c) /\ c \in Flaky)
    /\ lock' = Nobody
    /\ Goto(c, "down")
    /\ UNCHANGED <<done, next, recorded, runs>>

(* A killed process loses its session, and with that the lock. *)
Die(c) ==
    /\ c \in Flaky
    /\ pc[c] # "down"
    /\ lock' = IF lock = c THEN Nobody ELSE lock
    /\ Goto(c, "down")
    /\ UNCHANGED <<done, next, recorded, runs>>

(* Mutant: the last file is left out. *)
UnlockEarly(c) ==
    /\ pc[c] = "files"
    /\ next[c] >= Ships[c]
    /\ lock' = Nobody
    /\ Goto(c, "up")
    /\ UNCHANGED <<done, next, recorded, runs>>

Unlock(c) ==
    /\ pc[c] = "files"
    /\ next[c] > Ships[c]
    /\ lock' = Nobody
    /\ Goto(c, "up")
    /\ UNCHANGED <<done, next, recorded, runs>>

Step(c) == ReadDone(c) \/ Skip(c) \/ Apply(c) \/ Fail(c) \/ Unlock(c)

Next == \E c \in Copies : TakeLock(c) \/ Step(c) \/ Die(c)

Spec == Init /\ [][Next]_vars

(* Migrations end, and PostgreSQL serves the waiters of a lock in turn. *)
FairSpec == Spec /\ \A c \in Copies : WF_vars(Step(c)) /\ SF_vars(TakeLock(c))

-----------------------------------------------------------------------------
TypeOK ==
    /\ pc \in [Copies -> {"down", "read", "files", "up"}]
    /\ lock \in Copies \cup {Nobody}
    /\ done \in [Copies -> SUBSET Versions]
    /\ next \in [Copies -> 1 .. Latest + 1]
    /\ recorded \in SUBSET Versions
    /\ runs \in [Versions -> Nat]

(* No two copies are between lock and unlock at the same time. *)
OneMigrator == \A c \in Copies : pc[c] \in {"read", "files"} => lock = c

(* Exactly one initialisation takes effect (FR-015): every version is run  *)
(* once in the life of the store, and is run exactly if it is recorded.    *)
RunsOnce == \A v \in Versions : runs[v] = IF v \in recorded THEN 1 ELSE 0

(* No copy fails to start because it lost the race (FR-015). *)
NobodyCollides == \A c \in Copies : ~Collides(c)

(* The schema is always that of some release, whole: no version is there   *)
(* without those before it.                                                *)
InOrder == \A v \in recorded : 1 .. v \subseteq recorded

(* A copy that serves requests finds all it needs in the store, even while *)
(* newer copies migrate it further.                                        *)
UpIsMigrated == \A c \in Copies : pc[c] = "up" => 1 .. Ships[c] \subseteq recorded

(* Copies that fail or are killed, over and over, keep no other from       *)
(* starting.                                                               *)
OthersStart == \A c \in Copies \ Flaky : <>(pc[c] = "up")

-----------------------------------------------------------------------------
(* What a copy at work knows: the store changes only through it. *)
AtWork(c) ==
    /\ done[c] \subseteq recorded
    /\ recorded = done[c] \cup (1 .. next[c] - 1)

Inv ==
    /\ TypeOK
    /\ OneMigrator /\ RunsOnce /\ InOrder /\ UpIsMigrated
    /\ \A c \in Copies : pc[c] = "files" => AtWork(c)

=============================================================================
