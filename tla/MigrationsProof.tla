--------------------------- MODULE MigrationsProof ---------------------------
(***************************************************************************)
(* Proofs about Migrations, for any number of copies, releases and         *)
(* versions.  The argument: the copy that holds the lock is the only one   *)
(* that changes the store, so what it read of schema_migrations, plus the  *)
(* files it has been through since, is all there is (AtWork).              *)
(***************************************************************************)
EXTENDS Migrations, TLAPS

(* The store is empty at first, and nobody is at work. *)
LEMMA InitInv == Init => Inv
  BY MigrationsAssumption
  DEF Init, Inv, TypeOK, OneMigrator, RunsOnce, InOrder, UpIsMigrated, Versions

(* The file a copy looks at is one of the versions. *)
LEMMA FileIsAVersion ==
  ASSUME TypeOK, NEW c \in Copies, File(c)
  PROVE  next[c] \in Versions /\ next[c] + 1 \in 1 .. Latest + 1
  <1>1. next[c] \in 1 .. Latest + 1
    BY DEF TypeOK
  <1>2. Ships[c] \in 0 .. Latest /\ Latest \in Nat
    BY MigrationsAssumption
  <1>3. next[c] <= Ships[c]
    BY DEF File
  <1> QED BY <1>1, <1>2, <1>3 DEF Versions

(* Taking the lock starts nothing while somebody else is at work. *)
LEMMA TakeLockInv ==
  ASSUME Inv, NEW c \in Copies, TakeLock(c)
  PROVE  Inv'
  <1>1. TypeOK'
    BY MigrationsAssumption DEF Inv, TypeOK, TakeLock, Goto
  <1>2. OneMigrator'
    BY MigrationsAssumption DEF Inv, TypeOK, OneMigrator, TakeLock, Goto
  <1>3. RunsOnce' /\ InOrder' /\ UpIsMigrated'
    BY DEF Inv, TypeOK, RunsOnce, InOrder, UpIsMigrated, TakeLock, Goto
  <1>4. (\A d \in Copies : pc[d] = "files" => AtWork(d))'
    BY DEF Inv, TypeOK, AtWork, TakeLock, Goto
  <1> QED BY <1>1, <1>2, <1>3, <1>4 DEF Inv

(* What the holder reads is what there is; no file is behind it yet. *)
LEMMA ReadDoneInv ==
  ASSUME Inv, NEW c \in Copies, ReadDone(c)
  PROVE  Inv'
  <1>1. TypeOK'
    BY MigrationsAssumption DEF Inv, TypeOK, ReadDone, Goto, Versions
  <1>2. OneMigrator'
    BY DEF Inv, TypeOK, OneMigrator, ReadDone, Goto
  <1>3. RunsOnce' /\ InOrder' /\ UpIsMigrated'
    BY DEF Inv, TypeOK, RunsOnce, InOrder, UpIsMigrated, ReadDone, Goto
  <1>4. (\A d \in Copies : pc[d] = "files" => AtWork(d))'
    <2>1. ASSUME NEW d \in Copies, (pc[d] = "files")' PROVE AtWork(d)'
      <3>1. CASE d = c
        BY <3>1 DEF Inv, TypeOK, AtWork, ReadDone, Goto
      <3>2. CASE d # c
        BY <2>1, <3>2 DEF Inv, TypeOK, AtWork, ReadDone, Goto
      <3> QED BY <3>1, <3>2
    <2> QED BY <2>1
  <1> QED BY <1>1, <1>2, <1>3, <1>4 DEF Inv

(* A file that is recorded already adds nothing. *)
LEMMA SkipInv ==
  ASSUME Inv, NEW c \in Copies, Skip(c)
  PROVE  Inv'
  <1>1. next[c] \in 1 .. Latest /\ next[c] + 1 \in 1 .. Latest + 1
    BY FileIsAVersion DEF Inv, Skip, Versions
  <1>2. TypeOK'
    BY <1>1 DEF Inv, TypeOK, Skip
  <1>3. OneMigrator' /\ RunsOnce' /\ InOrder' /\ UpIsMigrated'
    BY DEF Inv, TypeOK, OneMigrator, RunsOnce, InOrder, UpIsMigrated, Skip
  <1>4. (\A d \in Copies : pc[d] = "files" => AtWork(d))'
    <2>1. ASSUME NEW d \in Copies, (pc[d] = "files")' PROVE AtWork(d)'
      <3>1. CASE d = c
        <4>1. AtWork(c) /\ next'[c] = next[c] + 1
          BY DEF Inv, TypeOK, Skip, File
        <4>2. 1 .. next'[c] - 1 = (1 .. next[c] - 1) \cup {next[c]}
          BY <1>1, <4>1
        <4> QED BY <3>1, <4>1, <4>2 DEF AtWork, Skip
      <3>2. CASE d # c
        BY <2>1, <3>2 DEF Inv, TypeOK, AtWork, Skip
      <3> QED BY <3>1, <3>2
    <2> QED BY <2>1
  <1> QED BY <1>2, <1>3, <1>4 DEF Inv

(* The holder applies a version nobody has applied, after all before it. *)
LEMMA ApplyInv ==
  ASSUME Inv, NEW c \in Copies, Apply(c)
  PROVE  Inv'
  <1>1. next[c] \in Versions /\ next[c] + 1 \in 1 .. Latest + 1
    BY FileIsAVersion DEF Inv, Apply
  <1>2. TypeOK'
    <2>1. recorded' \in SUBSET Versions /\ next' \in [Copies -> 1 .. Latest + 1]
      BY <1>1 DEF Inv, TypeOK, Apply
    <2>2. runs' \in [Versions -> Nat]
      BY <1>1 DEF Inv, TypeOK, Apply
    <2> QED BY <2>1, <2>2 DEF Inv, TypeOK, Apply
  <1>3. AtWork(c) /\ lock = c
    BY DEF Inv, OneMigrator, Apply, File
  <1>4. OneMigrator' /\ UpIsMigrated'
    BY DEF Inv, TypeOK, OneMigrator, UpIsMigrated, Apply
  <1>5. RunsOnce'
    BY <1>1 DEF Inv, TypeOK, RunsOnce, Apply
  <1>6. InOrder'
    <2>1. 1 .. next[c] - 1 \subseteq recorded
      BY <1>3 DEF AtWork
    <2>2. 1 .. next[c] = (1 .. next[c] - 1) \cup {next[c]}
      BY <1>1 DEF Versions
    <2> QED BY <2>1, <2>2 DEF Inv, InOrder, Apply
  <1>7. (\A d \in Copies : pc[d] = "files" => AtWork(d))'
    <2>1. ASSUME NEW d \in Copies, (pc[d] = "files")' PROVE AtWork(d)'
      <3>1. d = c
        BY <1>3, <2>1 DEF Inv, TypeOK, OneMigrator, Apply
      <3>2. next'[c] = next[c] + 1 /\ recorded' = recorded \cup {next[c]} /\ done' = done
        BY DEF Inv, TypeOK, Apply
      <3>3. 1 .. next'[c] - 1 = (1 .. next[c] - 1) \cup {next[c]}
        BY <1>1, <3>2 DEF Versions
      <3> QED BY <1>3, <3>1, <3>2, <3>3 DEF AtWork
    <2> QED BY <2>1
  <1> QED BY <1>2, <1>4, <1>5, <1>6, <1>7 DEF Inv

(* Whoever gives the lock up leaves the store as it is. *)
LEMMA LeaveInv ==
  ASSUME Inv, NEW c \in Copies, Fail(c) \/ Die(c)
  PROVE  Inv'
  <1>1. TypeOK'
    BY DEF Inv, TypeOK, Fail, Die, Goto
  <1>2. OneMigrator'
    <2>1. CASE Fail(c)
      BY <2>1 DEF Inv, TypeOK, OneMigrator, Fail, Collides, File, Goto
    <2>2. CASE Die(c)
      BY <2>2 DEF Inv, TypeOK, OneMigrator, Die, Goto
    <2> QED BY <2>1, <2>2
  <1>3. RunsOnce' /\ InOrder' /\ UpIsMigrated'
    BY DEF Inv, TypeOK, RunsOnce, InOrder, UpIsMigrated, Fail, Die, Goto
  <1>4. (\A d \in Copies : pc[d] = "files" => AtWork(d))'
    BY DEF Inv, TypeOK, AtWork, Fail, Die, Goto
  <1> QED BY <1>1, <1>2, <1>3, <1>4 DEF Inv

(* A copy that has been through all its files finds them all recorded. *)
LEMMA UnlockInv ==
  ASSUME Inv, NEW c \in Copies, Unlock(c)
  PROVE  Inv'
  <1>1. TypeOK'
    BY DEF Inv, TypeOK, Unlock, Goto
  <1>2. OneMigrator'
    BY DEF Inv, TypeOK, OneMigrator, Unlock, Goto
  <1>3. RunsOnce' /\ InOrder'
    BY DEF Inv, TypeOK, RunsOnce, InOrder, Unlock
  <1>4. UpIsMigrated'
    <2>1. AtWork(c)
      BY DEF Inv, Unlock
    <2>2. 1 .. Ships[c] \subseteq 1 .. next[c] - 1
      BY MigrationsAssumption DEF Inv, TypeOK, Unlock
    <2>3. 1 .. Ships[c] \subseteq recorded
      BY <2>1, <2>2 DEF AtWork
    <2> QED BY <2>3 DEF Inv, TypeOK, UpIsMigrated, Unlock, Goto
  <1>5. (\A d \in Copies : pc[d] = "files" => AtWork(d))'
    BY DEF Inv, TypeOK, AtWork, Unlock, Goto
  <1> QED BY <1>1, <1>2, <1>3, <1>4, <1>5 DEF Inv

LEMMA NextInv == Inv /\ [Next]_vars => Inv'
  <1> SUFFICES ASSUME Inv, [Next]_vars PROVE Inv'
    OBVIOUS
  <1>1. CASE Next
    <2>1. PICK c \in Copies : TakeLock(c) \/ Step(c) \/ Die(c)
      BY <1>1 DEF Next
    <2> QED BY <2>1, TakeLockInv, ReadDoneInv, SkipInv, ApplyInv, LeaveInv, UnlockInv
            DEF Step
  <1>2. CASE UNCHANGED vars
    BY <1>2 DEF vars, Inv, TypeOK, OneMigrator, RunsOnce, InOrder, UpIsMigrated, AtWork
  <1> QED BY <1>1, <1>2

(* However many copies start, fail and start again, what the lock protects *)
(* holds: the inductive invariant of migrate().                            *)
THEOREM Invariance == Spec => []Inv
  BY InitInv, NextInv, PTL DEF Spec

(* Exactly one initialisation takes effect (FR-015): no version runs twice *)
(* or is recorded without having run, and only one copy migrates at once.  *)
THEOREM ExactlyOnce == Spec => [](OneMigrator /\ RunsOnce /\ InOrder)
  <1>1. Inv => OneMigrator /\ RunsOnce /\ InOrder
    BY DEF Inv
  <1> QED BY <1>1, Invariance, PTL

(* The schema is always that of some release, whole: no version is there   *)
(* without those before it, wherever a copy fails or is killed.            *)
THEOREM FileOrder == Spec => []InOrder
  <1>1. Inv => InOrder
    BY DEF Inv
  <1> QED BY <1>1, Invariance, PTL

(* No copy fails to start because it lost the race (FR-015): a version it  *)
(* has not seen recorded has not been applied by anyone else.              *)
THEOREM NobodyLosesTheRace == Spec => []NobodyCollides
  <1>1. Inv => NobodyCollides
    <2> SUFFICES ASSUME Inv, NEW c \in Copies, Collides(c) PROVE FALSE
      BY DEF NobodyCollides
    <2>1. AtWork(c) /\ next[c] \in 1 .. Latest + 1
      BY DEF Inv, TypeOK, Collides, File
    <2>2. next[c] \in recorded /\ next[c] \notin done[c]
      BY DEF Collides
    <2>3. next[c] \in 1 .. next[c] - 1
      BY <2>1, <2>2 DEF AtWork
    <2> QED BY <2>1, <2>3
  <1> QED BY <1>1, Invariance, PTL

(* A copy that serves requests has the whole schema of its release. *)
THEOREM ServesOnItsSchema == Spec => []UpIsMigrated
  <1>1. Inv => UpIsMigrated
    BY DEF Inv
  <1> QED BY <1>1, Invariance, PTL

=============================================================================
