---------------------------- MODULE ServersProof ----------------------------
(***************************************************************************)
(* Proofs about ScrimServers as it is deployed: requests overlap, with     *)
(* each other and with the reconciler, and any of them can die half-way.   *)
(*                                                                         *)
(* A server has one unpaid grace: only the reconciler marks the grace as   *)
(* used, and nothing takes the mark back, so that what its run has read of *)
(* the mark cannot have become too low (ReadUnused); and it gives the      *)
(* grace only to the server it has just marked, which had none before      *)
(* (Marked).                                                               *)
(*                                                                         *)
(* What a worker relies on stays: rows that exist keep existing, their     *)
(* owner and their start (Facts).  From that, nobody plays on time nobody  *)
(* paid for: what is booked for a server covers its window together with   *)
(* the extensions spent and not yet written, and the window a worker is    *)
(* about to write (Windows); and each step is one of the promise that      *)
(* Credits keeps, or none of its business.                                 *)
(*                                                                         *)
(* Both rest on what one ledger entry does to the sums the code takes of   *)
(* the ledger, and so on what a sum over a finite set is.                  *)
(***************************************************************************)
EXTENDS ScrimServers, FiniteSetTheorems, WellFoundedInduction, TLAPS

-----------------------------------------------------------------------------
(* Induction, and the equation a sum satisfies                             *)

(* Whatever holds at 0 and from n at n + 1 holds throughout. *)
LEMMA Induction ==
  ASSUME NEW Good \in SUBSET Nat, 0 \in Good, \A n \in Good : n + 1 \in Good
  PROVE  Good = Nat
  <1> DEFINE Bad == Nat \ Good
  <1>1. ASSUME Bad # {} PROVE FALSE
    <2>0. Bad \subseteq Nat
      OBVIOUS
    <2> HIDE DEF Bad
    <2>1. PICK n \in Bad : \A m \in Bad : ~ (<<m, n>> \in OpToRel(<, Nat))
      BY <1>1, <2>0, NatLessThanWellFounded, WFMin
    <2>2. \A m \in Bad : ~(m < n)
      <3>1. \A m, k \in Nat : m < k => <<m, k>> \in OpToRel(<, Nat)
        BY DEF OpToRel
      <3> QED BY <2>0, <2>1, <3>1, Zenon
    <2>3. n \in Nat /\ n # 0
      BY <2>0 DEF Bad
    <2>4. n - 1 \in Nat /\ n - 1 < n
      BY <2>3
    <2>5. n - 1 \in Good
      BY <2>2, <2>4 DEF Bad
    <2>6. (n - 1) + 1 \in Good
      BY <2>5
    <2> QED BY <2>3, <2>6 DEF Bad
  <1> QED BY <1>1

(* The term that is added last, and the equation of the partial sums. *)
Pick(s) == CHOOSE x \in s : TRUE

Step(f, g, s) == IF s = {} THEN 0 ELSE f[Pick(s)] + g[s \ {Pick(s)}]

LEMMA SumUnfolds ==
  ASSUME NEW f, NEW S
  PROVE  SumFunctionOnSet(f, S) = (CHOOSE g : g = [s \in SUBSET S |-> Step(f, g, s)])[S]
  BY DEF SumFunctionOnSet, FoldFunctionOnSet, MapThenFoldSet, Step, Pick

(* The equation has a solution: one for the subsets of at most n elements   *)
(* gives one for those of n + 1.                                           *)
LEMMA SumExists ==
  ASSUME NEW f, NEW S, IsFiniteSet(S)
  PROVE  \E g : g = [s \in SUBSET S |-> Step(f, g, s)]
  <1> DEFINE Upto(n) == {s \in SUBSET S : Cardinality(s) <= n}
             Good == {n \in Nat : \E g : \A s \in Upto(n) : g[s] = Step(f, g, s)}
  <1>1. \A s \in SUBSET S : /\ IsFiniteSet(s) /\ Cardinality(s) \in Nat
                            /\ Cardinality(s) = 0 <=> s = {}
    BY FS_Subset, FS_CardinalityType, FS_EmptySet
  <1>2. \A s \in SUBSET S : s # {} =>
           /\ Pick(s) \in s
           /\ Cardinality(s \ {Pick(s)}) = Cardinality(s) - 1
    BY <1>1, FS_RemoveElement DEF Pick
  <1>3. 0 \in Good
    <2> DEFINE g == [s \in SUBSET S |-> 0]
    <2>1. \A s \in Upto(0) : g[s] = Step(f, g, s)
      BY <1>1 DEF Step
    <2> QED BY <2>1
  <1>4. ASSUME NEW n \in Good PROVE n + 1 \in Good
    <2>1. PICK g : \A s \in Upto(n) : g[s] = Step(f, g, s)
      OBVIOUS
    <2> DEFINE h == [s \in SUBSET S |-> Step(f, g, s)]
    <2>2. ASSUME NEW s \in Upto(n + 1) PROVE h[s] = Step(f, h, s)
      <3>1. CASE s = {}
        BY <3>1 DEF Step
      <3>2. CASE s # {}
        <4> DEFINE r == s \ {Pick(s)}
        <4>1. r \in Upto(n)
          BY <1>1, <1>2, <3>2
        <4>2. g[r] = h[r]
          BY <2>1, <4>1
        <4> QED BY <3>2, <4>2 DEF Step
      <3> QED BY <3>1, <3>2
    <2> HIDE DEF h
    <2>3. n + 1 \in Nat
      OBVIOUS
    <2> QED BY <2>2, <2>3
  <1>5. Cardinality(S) \in Good
    <2> HIDE DEF Good
    <2>1. Good \in SUBSET Nat
      BY DEF Good
    <2>2. Good = Nat
      BY <1>3, <1>4, <2>1, Induction
    <2> QED BY <1>1, <2>2
  <1>6. PICK g : \A s \in Upto(Cardinality(S)) : g[s] = Step(f, g, s)
    BY <1>5
  <1>7. \A s \in SUBSET S : g[s] = Step(f, g, s)
    BY <1>6, FS_Subset
  <1> DEFINE h == [s \in SUBSET S |-> g[s]]
  <1>8. \A s \in SUBSET S : h[s] = Step(f, h, s)
    BY <1>2, <1>7 DEF Step
  <1>9. h = [s \in SUBSET S |-> Step(f, h, s)]
    BY <1>8
  <1> QED BY <1>9

(* The partial sums over the subsets of S. *)
Partial(f, S) == CHOOSE g : g = [s \in SUBSET S |-> Step(f, g, s)]

LEMMA FirstStep ==
  ASSUME NEW f, NEW g
  PROVE  Step(f, g, {}) = 0
  BY DEF Step

LEMMA NextStep ==
  ASSUME NEW f, NEW g, NEW s, s # {}, f[Pick(s)] \in Int, g[s \ {Pick(s)}] \in Int
  PROVE  Step(f, g, s) = f[Pick(s)] + g[s \ {Pick(s)}]
  BY DEF Step

LEMMA PickRemoves ==
  ASSUME NEW S, IsFiniteSet(S), NEW s \in SUBSET S, s # {}
  PROVE  /\ Pick(s) \in s /\ Pick(s) \in S /\ s \ {Pick(s)} \in SUBSET S
         /\ Cardinality(s \ {Pick(s)}) = Cardinality(s) - 1
  BY FS_Subset, FS_RemoveElement DEF Pick

LEMMA PartialSums ==
  ASSUME NEW f, NEW S, IsFiniteSet(S)
  PROVE  /\ SumFunctionOnSet(f, S) = Partial(f, S)[S]
         /\ \A s \in SUBSET S : Partial(f, S)[s] = Step(f, Partial(f, S), s)
  <1>1. Partial(f, S) = [s \in SUBSET S |-> Step(f, Partial(f, S), s)]
    BY SumExists DEF Partial
  <1>2. SumFunctionOnSet(f, S) = Partial(f, S)[S]
    BY SumUnfolds DEF Partial
  <1> QED BY <1>1, <1>2

(* What holds of the empty set, and of a set whenever of it less its Pick,  *)
(* holds of every subset of a finite set.                                  *)
LEMMA SubsetInduction ==
  ASSUME NEW S, IsFiniteSet(S), NEW Good \in SUBSET SUBSET S,
         {} \in Good,
         \A s \in SUBSET S : s # {} /\ s \ {Pick(s)} \in Good => s \in Good
  PROVE  S \in Good
  <1> DEFINE Sizes == {n \in Nat : \A s \in SUBSET S : Cardinality(s) = n => s \in Good}
  <1>1. \A s \in SUBSET S : /\ Cardinality(s) \in Nat
                            /\ Cardinality(s) = 0 <=> s = {}
    BY FS_Subset, FS_CardinalityType, FS_EmptySet
  <1>2. 0 \in Sizes
    BY <1>1
  <1>3. ASSUME NEW n \in Sizes PROVE n + 1 \in Sizes
    <2>1. ASSUME NEW s \in SUBSET S, Cardinality(s) = n + 1 PROVE s \in Good
      <3>1. s # {}
        BY <1>1, <2>1
      <3>2. Cardinality(s \ {Pick(s)}) = n /\ s \ {Pick(s)} \in SUBSET S
        BY <2>1, <3>1, PickRemoves
      <3>3. s \ {Pick(s)} \in Good
        BY <3>2
      <3> QED BY <3>1, <3>3
    <2> QED BY <2>1
  <1> HIDE DEF Sizes
  <1>4. Sizes = Nat
    <2>1. Sizes \in SUBSET Nat
      BY DEF Sizes
    <2> QED BY <1>2, <1>3, <2>1, Induction
  <1> QED BY <1>1, <1>4 DEF Sizes

-----------------------------------------------------------------------------
(* The facts about sums                                                    *)

(* One term moves by d, and so does the sum. *)
LEMMA SumMoves ==
  ASSUME NEW S, IsFiniteSet(S), NEW f, NEW h, NEW x, NEW d \in Int,
         \A y \in S : f[y] \in Int /\ h[y] = IF y = x THEN f[y] + d ELSE f[y]
  PROVE  /\ SumFunctionOnSet(f, S) \in Int
         /\ SumFunctionOnSet(h, S) =
               SumFunctionOnSet(f, S) + (IF x \in S THEN d ELSE 0)
  <1> DEFINE F == Partial(f, S)
             H == Partial(h, S)
             Good == {s \in SUBSET S :
                        F[s] \in Int /\ H[s] = F[s] + (IF x \in s THEN d ELSE 0)}
  <1>0. /\ SumFunctionOnSet(f, S) = F[S] /\ SumFunctionOnSet(h, S) = H[S]
        /\ \A s \in SUBSET S : F[s] = Step(f, F, s) /\ H[s] = Step(h, H, s)
    BY PartialSums
  <1> HIDE DEF F, H
  <1>1. {} \in Good
    BY <1>0, FirstStep
  <1>2. ASSUME NEW s \in SUBSET S, s # {}, s \ {Pick(s)} \in Good
        PROVE  s \in Good
    <2>0. Pick(s) \in s /\ Pick(s) \in S
      BY <1>2, PickRemoves
    <2>1. /\ f[Pick(s)] \in Int /\ h[Pick(s)] \in Int
          /\ F[s \ {Pick(s)}] \in Int /\ H[s \ {Pick(s)}] \in Int
      BY <1>2, <2>0
    <2>2. Step(f, F, s) = f[Pick(s)] + F[s \ {Pick(s)}]
      <3> HIDE DEF Good
      <3>1. s # {} /\ f[Pick(s)] \in Int /\ F[s \ {Pick(s)}] \in Int
        BY <1>2, <2>1
      <3> QED BY <3>1, NextStep
    <2>3. Step(h, H, s) = h[Pick(s)] + H[s \ {Pick(s)}]
      BY <1>2, <2>1, NextStep
    <2>4. F[s] = Step(f, F, s) /\ H[s] = Step(h, H, s)
      BY <1>0
    <2>5. CASE Pick(s) = x
      BY <1>2, <2>0, <2>1, <2>2, <2>3, <2>4, <2>5
    <2>6. CASE Pick(s) # x
      BY <1>2, <2>0, <2>1, <2>2, <2>3, <2>4, <2>6
    <2> QED BY <2>5, <2>6
  <1>3. S \in Good
    <2> HIDE DEF Good
    <2>1. Good \in SUBSET SUBSET S
      BY DEF Good
    <2> QED BY <1>1, <1>2, <2>1, SubsetInduction
  <1> QED BY <1>0, <1>3

(* A sum of zeros. *)
LEMMA SumOfZeros ==
  ASSUME NEW S, IsFiniteSet(S), NEW f, \A y \in S : f[y] = 0
  PROVE  SumFunctionOnSet(f, S) = 0
  <1> DEFINE F == Partial(f, S)
             Good == {s \in SUBSET S : F[s] = 0}
  <1>0. /\ SumFunctionOnSet(f, S) = F[S]
        /\ \A s \in SUBSET S : F[s] = Step(f, F, s)
    BY PartialSums
  <1> HIDE DEF F
  <1>1. {} \in Good
    BY <1>0, FirstStep
  <1>2. ASSUME NEW s \in SUBSET S, s # {}, s \ {Pick(s)} \in Good
        PROVE  s \in Good
    <2>0. Pick(s) \in S
      BY <1>2, PickRemoves
    <2>1. f[Pick(s)] \in Int /\ F[s \ {Pick(s)}] \in Int
      BY <1>2, <2>0
    <2>2. Step(f, F, s) = f[Pick(s)] + F[s \ {Pick(s)}]
      BY <1>2, <2>1, NextStep
    <2>3. F[s] = Step(f, F, s)
      BY <1>0
    <2> QED BY <1>2, <2>0, <2>1, <2>2, <2>3
  <1>3. S \in Good
    <2> HIDE DEF Good
    <2>1. Good \in SUBSET SUBSET S
      BY DEF Good
    <2> QED BY <1>1, <1>2, <2>1, SubsetInduction
  <1> QED BY <1>0, <1>3

(* A sum of naturals is a natural. *)
LEMMA SumOfNaturals ==
  ASSUME NEW S, IsFiniteSet(S), NEW f, \A y \in S : f[y] \in Nat
  PROVE  SumFunctionOnSet(f, S) \in Nat
  <1> DEFINE F == Partial(f, S)
             Good == {s \in SUBSET S : F[s] \in Nat}
  <1>0. /\ SumFunctionOnSet(f, S) = F[S]
        /\ \A s \in SUBSET S : F[s] = Step(f, F, s)
    BY PartialSums
  <1> HIDE DEF F
  <1>1. {} \in Good
    BY <1>0, FirstStep
  <1>2. ASSUME NEW s \in SUBSET S, s # {}, s \ {Pick(s)} \in Good
        PROVE  s \in Good
    <2>0. Pick(s) \in S
      BY <1>2, PickRemoves
    <2>1. f[Pick(s)] \in Int /\ F[s \ {Pick(s)}] \in Int
      BY <1>2, <2>0
    <2>2. Step(f, F, s) = f[Pick(s)] + F[s \ {Pick(s)}]
      BY <1>2, <2>1, NextStep
    <2>3. F[s] = Step(f, F, s)
      BY <1>0
    <2> QED BY <1>2, <2>0, <2>1, <2>2, <2>3
  <1>3. S \in Good
    <2> HIDE DEF Good
    <2>1. Good \in SUBSET SUBSET S
      BY DEF Good
    <2> QED BY <1>1, <1>2, <2>1, SubsetInduction
  <1> QED BY <1>0, <1>3

-----------------------------------------------------------------------------
(* One grace                                                               *)

(* A row's fields, whatever their values. *)
Row(s) ==
    [state |-> servers[s].state, owner |-> servers[s].owner, ends |-> servers[s].ends,
     grace |-> servers[s].grace]

Shaped ==
    /\ servers = [s \in Scrims |-> Row(s)]
    /\ \A s \in Scrims : servers[s].grace \in BOOLEAN
    /\ graces \in [Scrims -> {0, 1}]
    /\ rec = [now |-> rec.now, rows |-> rec.rows, marked |-> rec.marked]

Unmarked == \A s \in Scrims : ~servers[s].grace => graces[s] = 0

Marked ==
    \A s \in rec.marked :
        rec.marked = {s} /\ (s \in Scrims => servers[s].grace /\ graces[s] = 0)

ReadUnused ==
    \A s \in DOMAIN rec.rows \ rec.marked :
        s \in Scrims /\ ~rec.rows[s].grace => ~servers[s].grace

GraceInv == Shaped /\ Unmarked /\ Marked /\ ReadUnused

LEMMA InitGrace == InitServers => GraceInv
  <1> SUFFICES ASSUME InitServers PROVE GraceInv
    OBVIOUS
  <1>1. \A s \in Scrims : servers[s] = NoServer /\ servers[s] = Row(s)
    BY DEF InitServers, NoServer, Row
  <1>2. servers = [s \in Scrims |-> servers[s]]
    BY DEF InitServers
  <1>3. Shaped
    BY <1>1, <1>2 DEF InitServers, Shaped, NoServer, Asleep
  <1> QED
    BY <1>1, <1>3 DEF InitServers, GraceInv, Unmarked, Marked, ReadUnused, Asleep

(* A step that gives no grace, and leaves the marks of the servers that    *)
(* have one, and of the run, as they are.                                  *)
LEMMA PlainStepKeepsGrace ==
  ASSUME GraceInv, UNCHANGED <<rec, graces>>,
         servers' = [s \in Scrims |-> Row(s)'],
         \A s \in Scrims : \/ servers'[s].grace = servers[s].grace
                           \/ ~servers[s].grace /\ servers'[s].grace = FALSE
  PROVE  GraceInv'
  <1>1. Shaped'
    BY DEF GraceInv, Shaped
  <1> QED BY <1>1 DEF GraceInv, Shaped, Unmarked, Marked, ReadUnused

(* set_state, to anything but the grace. *)
LEMMA StateKeepsGrace ==
  ASSUME GraceInv, NEW s, NEW state, state # "in_grace", SetState(s, state)
  PROVE  /\ UNCHANGED graces
         /\ servers' = [r \in Scrims |-> Row(r)']
         /\ \A r \in Scrims : servers'[r].grace = servers[r].grace
  <1>1. /\ servers' = [servers EXCEPT ![s].state = state]
        /\ graces' = [graces EXCEPT ![s] = @ + 0]
    BY DEF SetState
  <1>2. UNCHANGED graces
    BY <1>1 DEF GraceInv, Shaped
  <1>3. \A r \in Scrims :
           servers[r] = [state |-> servers[r].state, owner |-> servers[r].owner,
                         ends |-> servers[r].ends, grace |-> servers[r].grace]
    BY DEF GraceInv, Shaped, Row
  <1>4. servers' = [r \in Scrims |-> servers'[r]]
    BY <1>1 DEF GraceInv, Shaped
  <1>5. \A r \in Scrims : servers'[r] = IF r = s THEN [servers[r] EXCEPT !.state = state]
                                        ELSE servers[r]
    BY <1>1 DEF GraceInv, Shaped
  <1>6. \A r \in Scrims : servers'[r] = Row(r)' /\ servers'[r].grace = servers[r].grace
    BY <1>3, <1>5 DEF Row
  <1> QED BY <1>2, <1>4, <1>6


(* Whatever a request does, whichever others are running. *)
LEMMA RequestKeepsGrace ==
  ASSUME GraceInv, Request
  PROVE  GraceInv'
  <1>1. CASE UNCHANGED serverVars
    BY <1>1 DEF serverVars, GraceInv, Shaped, Unmarked, Marked, ReadUnused, Row
  <1>2. CASE UNCHANGED <<servers, rec, graces>>
    BY <1>2 DEF GraceInv, Shaped, Unmarked, Marked, ReadUnused, Row
  <1>3. ASSUME NEW w \in Workers, Attach(w) PROVE GraceInv'
    <2> DEFINE s == worker[w].scrim
               row == [state |-> "scheduled", owner |-> worker[w].team,
                       ends |-> scrims[s].at + CreditTime, grace |-> FALSE]
    <2>1. /\ servers[s] = NoServer /\ servers' = [servers EXCEPT ![s] = row]
          /\ UNCHANGED <<rec, graces>>
      BY <1>3 DEF Attach
    <2>2. servers' = [r \in Scrims |-> IF r = s THEN row ELSE Row(r)]
      BY <2>1 DEF GraceInv, Shaped
    <2>3. \A r \in Scrims : servers'[r] = Row(r)'
      <3>1. row = [state |-> row.state, owner |-> row.owner, ends |-> row.ends,
                   grace |-> row.grace]
        OBVIOUS
      <3> HIDE DEF row, s
      <3> QED BY <2>2, <3>1 DEF Row
    <2>4. servers' = [r \in Scrims |-> Row(r)']
      BY <2>2, <2>3
    <2>5. \A r \in Scrims : \/ servers'[r].grace = servers[r].grace
                            \/ ~servers[r].grace /\ servers'[r].grace = FALSE
      <3>1. row.grace = FALSE /\ servers[s].grace = FALSE
        BY <2>1 DEF NoServer
      <3>2. \A r \in Scrims : Row(r).grace = servers[r].grace
        BY DEF Row
      <3> HIDE DEF row, s
      <3> QED BY <2>2, <3>1, <3>2
    <2> QED BY <2>1, <2>4, <2>5, PlainStepKeepsGrace
  <1>4. ASSUME NEW w \in Workers, WriteWindow(w) PROVE GraceInv'
    <2> DEFINE s == worker[w].scrim
               ends == worker[w].ends + ExtensionTime
    <2>1. /\ servers' = [servers EXCEPT ![s].ends = ends]
          /\ UNCHANGED <<rec, graces>>
      BY <1>4 DEF WriteWindow
    <2> HIDE DEF s, ends
    <2>2. \A r \in Scrims :
             servers[r] = [state |-> servers[r].state, owner |-> servers[r].owner,
                           ends |-> servers[r].ends, grace |-> servers[r].grace]
      BY DEF GraceInv, Shaped, Row
    <2>3. servers' = [r \in Scrims |-> servers'[r]]
      BY <2>1 DEF GraceInv, Shaped
    <2>4. \A r \in Scrims : servers'[r] = IF r = s THEN [servers[r] EXCEPT !.ends = ends]
                                          ELSE servers[r]
      BY <2>1 DEF GraceInv, Shaped
    <2>5. \A r \in Scrims : servers'[r] = Row(r)' /\ servers'[r].grace = servers[r].grace
      BY <2>2, <2>4 DEF Row
    <2>6. servers' = [r \in Scrims |-> Row(r)']
      BY <2>3, <2>5
    <2> QED BY <2>1, <2>5, <2>6, PlainStepKeepsGrace
  <1>5. ASSUME NEW w \in Workers, CancelServer(w) \/ Resume(w) PROVE GraceInv'
    <2>1. /\ UNCHANGED rec
          /\ \/ SetState(worker[w].scrim, "cancelled")
             \/ SetState(worker[w].scrim, "running")
      BY <1>5 DEF CancelServer, Resume
    <2>2. /\ UNCHANGED graces
          /\ servers' = [r \in Scrims |-> Row(r)']
          /\ \A r \in Scrims : servers'[r].grace = servers[r].grace
      BY <2>1, StateKeepsGrace
    <2> QED BY <2>1, <2>2, PlainStepKeepsGrace
  <1> QED
    BY <1>1, <1>2, <1>3, <1>4, <1>5
    DEF Request, GoOnServers, AttachFails, ReadServer, Refund, Spend, ReadWindow,
        CheckAttach, CheckExtend, serverVars

(* A server is done with: the run goes on with the others, unmarked. *)
LEMMA DoneLeaves ==
  ASSUME GraceInv, NEW s, Done(s)
  PROVE  /\ rec'.marked = {}
         /\ rec' = [now |-> rec'.now, rows |-> rec'.rows, marked |-> rec'.marked]
         /\ DOMAIN rec'.rows \subseteq DOMAIN rec.rows \ {s}
         /\ \A r \in DOMAIN rec'.rows : rec'.rows[r] = rec.rows[r]
  <1>1. CASE rec' = Asleep
    BY <1>1 DEF Asleep
  <1>2. CASE rec' = [rec EXCEPT !.marked = {},
                       !.rows = [r \in DOMAIN rec.rows \ {s} |-> rec.rows[r]]]
    <2>1. rec' = [now |-> rec.now, marked |-> {},
                  rows |-> [r \in DOMAIN rec.rows \ {s} |-> rec.rows[r]]]
      BY <1>2 DEF GraceInv, Shaped
    <2> QED BY <2>1
  <1> QED BY <1>1, <1>2 DEF Done

(* The run moves a server or marks it. *)
LEMMA AdvanceKeepsGrace ==
  ASSUME GraceInv, NEW s \in Scrims, NEW state, Advance(s, state)
  PROVE  GraceInv'
  <1>1. CASE /\ state = "in_grace" /\ servers' = [servers EXCEPT ![s].grace = TRUE]
             /\ rec' = [rec EXCEPT !.marked = {s}] /\ UNCHANGED graces
    <2>1. ~servers[s].grace
      BY <1>1 DEF Advance, Due, GraceInv, ReadUnused
    <2>2. graces[s] = 0
      BY <2>1 DEF GraceInv, Unmarked
    <2>3. \A r \in Scrims :
             servers[r] = [state |-> servers[r].state, owner |-> servers[r].owner,
                           ends |-> servers[r].ends, grace |-> servers[r].grace]
      BY DEF GraceInv, Shaped, Row
    <2>4. servers' = [r \in Scrims |-> servers'[r]]
      BY <1>1 DEF GraceInv, Shaped
    <2>5. \A r \in Scrims : servers'[r] = IF r = s THEN [servers[r] EXCEPT !.grace = TRUE]
                                          ELSE servers[r]
      BY <1>1 DEF GraceInv, Shaped
    <2>6. \A r \in Scrims : /\ servers'[r] = Row(r)'
                            /\ servers'[r].grace = (r = s \/ servers[r].grace)
      BY <2>3, <2>5 DEF Row, GraceInv, Shaped
    <2>7. rec' = [now |-> rec.now, rows |-> rec.rows, marked |-> {s}]
      BY <1>1 DEF GraceInv, Shaped
    <2>8. Shaped'
      BY <1>1, <2>4, <2>6, <2>7 DEF GraceInv, Shaped
    <2>9. rec.marked = {}
      BY DEF Advance
    <2>10. Unmarked'
      BY <1>1, <2>6 DEF GraceInv, Unmarked
    <2>11. Marked'
      <3>1. rec'.marked = {s}
        BY <2>7
      <3>2. servers'[s].grace /\ graces'[s] = 0
        BY <1>1, <2>2, <2>6
      <3> QED BY <3>1, <3>2 DEF Marked
    <2>12. ReadUnused'
      BY <2>6, <2>7, <2>9 DEF GraceInv, ReadUnused
    <2> QED BY <2>8, <2>10, <2>11, <2>12 DEF GraceInv
  <1>2. CASE state # "in_grace" /\ SetState(s, state) /\ Done(s)
    <2>1. /\ UNCHANGED graces
          /\ servers' = [r \in Scrims |-> Row(r)']
          /\ \A r \in Scrims : servers'[r].grace = servers[r].grace
      BY <1>2, StateKeepsGrace
    <2>2. /\ rec'.marked = {}
          /\ rec' = [now |-> rec'.now, rows |-> rec'.rows, marked |-> rec'.marked]
          /\ DOMAIN rec'.rows \subseteq DOMAIN rec.rows \ {s}
          /\ \A r \in DOMAIN rec'.rows : rec'.rows[r] = rec.rows[r]
      BY <1>2, DoneLeaves
    <2>3. Shaped'
      BY <2>1, <2>2 DEF GraceInv, Shaped
    <2> QED
      BY <2>1, <2>2, <2>3 DEF Advance, GraceInv, Unmarked, Marked, ReadUnused
  <1> QED BY <1>1, <1>2 DEF Advance

(* The server that is marked is given its grace, the first it has. *)
LEMMA EnterGraceKeepsGrace ==
  ASSUME GraceInv, NEW s \in Scrims, EnterGrace(s)
  PROVE  GraceInv'
  <1>1. /\ rec.marked = {s} /\ servers[s].grace /\ graces[s] = 0
        /\ servers' = [servers EXCEPT ![s].state = "in_grace"]
        /\ graces' = [graces EXCEPT ![s] = @ + 1]
        /\ Done(s)
    BY DEF EnterGrace, SetState, GraceInv, Marked
  <1>2. /\ graces' \in [Scrims -> {0, 1}]
        /\ \A r \in Scrims \ {s} : graces'[r] = graces[r]
    BY <1>1 DEF GraceInv, Shaped
  <1>3. \A r \in Scrims :
           servers[r] = [state |-> servers[r].state, owner |-> servers[r].owner,
                         ends |-> servers[r].ends, grace |-> servers[r].grace]
    BY DEF GraceInv, Shaped, Row
  <1>4. servers' = [r \in Scrims |-> servers'[r]]
    BY <1>1 DEF GraceInv, Shaped
  <1>5. \A r \in Scrims :
           servers'[r] = IF r = s THEN [servers[r] EXCEPT !.state = "in_grace"]
                         ELSE servers[r]
    BY <1>1 DEF GraceInv, Shaped
  <1>6. \A r \in Scrims : servers'[r] = Row(r)' /\ servers'[r].grace = servers[r].grace
    BY <1>3, <1>5 DEF Row
  <1>7. /\ rec'.marked = {}
        /\ rec' = [now |-> rec'.now, rows |-> rec'.rows, marked |-> rec'.marked]
        /\ DOMAIN rec'.rows \subseteq DOMAIN rec.rows \ {s}
        /\ \A r \in DOMAIN rec'.rows : rec'.rows[r] = rec.rows[r]
    BY <1>1, DoneLeaves
  <1>8. Shaped'
    BY <1>2, <1>4, <1>6, <1>7 DEF GraceInv, Shaped
  <1> QED
    BY <1>1, <1>2, <1>6, <1>7, <1>8 DEF GraceInv, Unmarked, Marked, ReadUnused

LEMMA StepKeepsGrace == GraceInv /\ [NextServers]_allVars => GraceInv'
  <1> SUFFICES ASSUME GraceInv, [NextServers]_allVars PROVE GraceInv'
    OBVIOUS
  <1>1. CASE Request
    BY <1>1, RequestKeepsGrace
  <1>2. CASE Start
    <2> DEFINE rows == [s \in {r \in Scrims : Overdue(r, now)} |-> servers[s]]
    <2>1. /\ UNCHANGED <<servers, graces>>
          /\ rec' = [now |-> now, marked |-> {}, rows |-> rows]
      BY <1>2 DEF Start
    <2>2. \A s \in DOMAIN rows : rows[s] = servers[s]
      OBVIOUS
    <2> HIDE DEF rows
    <2>3. Shaped'
      BY <2>1 DEF GraceInv, Shaped, Row
    <2> QED BY <2>1, <2>2, <2>3 DEF GraceInv, Unmarked, Marked, ReadUnused
  <1>3. CASE Move
    BY <1>3, AdvanceKeepsGrace, EnterGraceKeepsGrace DEF Move
  <1>4. CASE RunDies
    BY <1>4 DEF RunDies, Asleep, GraceInv, Shaped, Unmarked, Marked, ReadUnused, Row
  <1>5. CASE UNCHANGED <<servers, rec, graces>>
    BY <1>5 DEF GraceInv, Shaped, Unmarked, Marked, ReadUnused, Row
  <1> QED
    BY <1>1, <1>2, <1>3, <1>4, <1>5
    DEF NextServers, Reconcile, Clock, allVars, serverVars

(* The strengthening holds throughout, crashes and overlaps included.      *)
THEOREM GraceInvariance == SpecServers => []GraceInv
  <1> QED BY InitGrace, StepKeepsGrace, PTL DEF SpecServers

(* The unpaid grace is granted once per server (mark_grace_used before     *)
(* set_state in reconcile-servers, app/cli.py; FR-074).                    *)
THEOREM OneGrace == SpecServers => []GraceOnce
  <1>1. GraceInv => GraceOnce
    BY DEF GraceInv, Shaped, GraceOnce
  <1> QED BY <1>1, GraceInvariance, PTL

-----------------------------------------------------------------------------
(* What is in the rows, and what stays                                     *)

ScrimRows ==
    [status : {"none", "pending", "open", "confirmed", "declined", "cancelled"},
     origin : {"none", "proposal", "listing"}, proposer : Teams \cup {NoTeam},
     opponent : Teams \cup {NoTeam}, at : Nat]

ServerRows ==
    [state : States \cup {"none"}, owner : Teams \cup {NoTeam}, ends : Nat,
     grace : BOOLEAN]

(* What a worker at work is described by. *)
Errands ==
    [pc : {"set_status", "claim", "attach", "release", "cancel_server", "refund"},
     op : Ending \cup {"accept", "claim", "attach", "release"},
     team : Teams \cup {NoTeam}, scrim : Scrims]

Extensions ==
    [pc : {"spend", "read_window", "write_window", "resume"}, op : {"extend"},
     team : Teams, scrim : Scrims, saw : States, ends : Nat]

Work == {Resting} \cup Errands \cup Extensions

Typed ==
    /\ scrims \in [Scrims -> ScrimRows]
    /\ servers \in [Scrims -> ServerRows]
    /\ ledger \in [Teams -> [Scrims -> [Kinds -> Nat]]]
    /\ worker \in [Workers -> Work]

Exists(s) == servers[s].state # "none"

Known(s) == scrims[s].status # "none"

Standing(s) ==
    /\ ~Known(s) => scrims[s] = NoScrim
    /\ ~Exists(s) => servers[s] = NoServer
    /\ Exists(s) => servers[s].owner \in Teams /\ Known(s)

(* What the worker doing x relies on, and nothing takes away. *)
Relies(x) ==
    /\ x.pc = "set_status" => x.op \in Ending \cup {"accept"}
    /\ x.pc = "claim" => x.team \in Teams
    /\ x.pc = "attach" => x.team \in Teams /\ Known(x.scrim)
    /\ x.pc \in {"cancel_server", "refund", "spend", "read_window", "write_window",
                 "resume"} => Exists(x.scrim)

Facts ==
    /\ Typed
    /\ \A s \in Scrims : Standing(s)
    /\ \A w \in Workers : Relies(worker[w])
    /\ \A s \in Scrims : s \in DOMAIN rec.rows \cup rec.marked => Exists(s)

LEMMA InitFacts == InitServers => Facts
  <1> SUFFICES ASSUME InitServers PROVE Facts
    OBVIOUS
  <1>1. Typed
    BY DEF InitServers, Init, Typed, ScrimRows, ServerRows, NoScrim, NoServer, Work
  <1>2. \A s \in Scrims : Standing(s)
    BY DEF InitServers, Init, Standing, Known, Exists, NoScrim, NoServer
  <1>3. \A w \in Workers : Relies(worker[w])
    BY DEF InitServers, Init, Relies, Resting
  <1> QED BY <1>1, <1>2, <1>3 DEF InitServers, Facts, Asleep

(* A worker at work. *)
LEMMA Working ==
  ASSUME Facts, NEW w \in Workers, ~Idle(w)
  PROVE  /\ Relies(worker[w]) /\ worker[w].scrim \in Scrims
         /\ worker[w].team \in Teams \cup {NoTeam}
         /\ worker[w].pc \in {"set_status", "claim", "attach", "release",
                              "cancel_server", "refund"} => worker[w] \in Errands
         /\ worker[w].pc \in {"spend", "read_window", "write_window", "resume"} =>
               worker[w] \in Extensions
  BY DEF Facts, Typed, Work, Idle, Resting, Errands, Extensions

(* Rows that are there stay, with what the windows are reckoned from. *)
Stay ==
    \A s \in Scrims :
        /\ Standing(s)'
        /\ Exists(s) => /\ Exists(s)' /\ servers'[s].owner = servers[s].owner
        /\ Known(s) => Known(s)' /\ scrims'[s].at = scrims[s].at

(* A step that moves no window and books nothing. *)
Window == {"read_window", "write_window"}

Quiet ==
    /\ UNCHANGED ledger
    /\ \A s \in Scrims : /\ servers'[s].owner = servers[s].owner
                         /\ servers'[s].ends = servers[s].ends
                         /\ Exists(s)' <=> Exists(s)
    /\ \A v \in Workers : worker'[v].pc \in Window => worker'[v] = worker[v]

(* A request's step: worker w comes to do x. *)
LEMMA WorkerKeeps ==
  ASSUME Facts, NEW w \in Workers, NEW x \in Work, worker' = [worker EXCEPT ![w] = x],
         Relies(x)', UNCHANGED rec,
         scrims' \in [Scrims -> ScrimRows], servers' \in [Scrims -> ServerRows],
         ledger' \in [Teams -> [Scrims -> [Kinds -> Nat]]],
         Stay
  PROVE  /\ Facts'
         /\ \A v \in Workers : worker'[v] = IF v = w THEN x ELSE worker[v]
  <1>1. \A v \in Workers : worker'[v] = IF v = w THEN x ELSE worker[v]
    BY DEF Facts, Typed
  <1>2. Typed'
    BY DEF Facts, Typed
  <1>3. ASSUME NEW v \in Workers PROVE Relies(worker[v])'
    <2>1. CASE v = w
      BY <1>1, <2>1 DEF Relies, Known, Exists
    <2>2. CASE v # w /\ Idle(v)
      BY <1>1, <2>2 DEF Relies, Idle
    <2>3. CASE v # w /\ ~Idle(v)
      <3>1. Relies(worker[v]) /\ worker[v].scrim \in Scrims /\ worker'[v] = worker[v]
        BY <1>1, <2>3, Working
      <3> QED BY <3>1 DEF Relies, Stay, Known, Exists
    <2> QED BY <2>1, <2>2, <2>3
  <1> QED BY <1>1, <1>2, <1>3 DEF Facts, Stay, Exists

(* A step that has only read. *)
LEMMA ReadingKeeps ==
  ASSUME Facts, NEW w \in Workers, NEW x \in Work, worker' = [worker EXCEPT ![w] = x],
         Relies(x), UNCHANGED <<scrims, servers, ledger, rec>>
  PROVE  /\ Facts' /\ Stay
         /\ x.pc \notin Window => Quiet
  <1>1. Stay
    BY DEF Facts, Stay, Standing, Known, Exists
  <1>2. Relies(x)'
    BY DEF Relies, Known, Exists
  <1>3. Facts' /\ \A v \in Workers : worker'[v] = IF v = w THEN x ELSE worker[v]
    BY <1>1, <1>2, WorkerKeeps DEF Facts, Typed
  <1> QED BY <1>1, <1>3 DEF Quiet, Exists, Facts

-----------------------------------------------------------------------------
(* Steps of requests on scrims                                             *)

LEMMA CreateIsQuiet ==
  ASSUME Facts, NEW w \in Workers, NEW t \in Teams, NEW s \in Scrims,
         NEW row \in ScrimRows, row.status # "none",
         Create(w, t, s, row), UNCHANGED serverVars
  PROVE  Facts' /\ Stay /\ Quiet
  <1> DEFINE x == [pc |-> "attach", op |-> "attach", team |-> t, scrim |-> s]
  <1>1. /\ Idle(w) /\ scrims[s] = NoScrim
        /\ scrims' = [scrims EXCEPT ![s] = row]
        /\ UNCHANGED <<servers, ledger, rec>>
        /\ worker' = [worker EXCEPT ![w] = x] \/ UNCHANGED worker
    BY DEF Create, Busy, Free, serverVars
  <1>2. /\ scrims' \in [Scrims -> ScrimRows] /\ scrims'[s] = row
        /\ \A r \in Scrims \ {s} : scrims'[r] = scrims[r]
    BY <1>1 DEF Facts, Typed
  <1>3. Stay
    BY <1>1, <1>2 DEF Facts, Stay, Standing, Known, Exists, NoScrim
  <1>4. \E y \in Work : /\ worker' = [worker EXCEPT ![w] = y] /\ Relies(y)'
                        /\ y.pc \notin Window
    <2>1. CASE worker' = [worker EXCEPT ![w] = x]
      <3>1. x \in Work /\ Relies(x)' /\ x.pc \notin Window
        BY <1>2 DEF Work, Errands, Relies, Known, Window
      <3> QED BY <2>1, <3>1
    <2>2. CASE UNCHANGED worker
      <3>1. worker[w] \in Work /\ worker' = [worker EXCEPT ![w] = worker[w]]
        BY <2>2 DEF Facts, Typed
      <3>2. Relies(worker[w])' /\ worker[w].pc \notin Window
        BY <1>1, <2>2 DEF Relies, Idle, Window
      <3> QED BY <2>2, <3>1, <3>2 DEF Relies, Known, Exists
    <2> QED BY <1>1, <2>1, <2>2
  <1>5. PICK y \in Work : /\ worker' = [worker EXCEPT ![w] = y] /\ Relies(y)'
                          /\ y.pc \notin Window
    BY <1>4
  <1>6. Facts' /\ \A v \in Workers : worker'[v] = IF v = w THEN y ELSE worker[v]
    BY <1>1, <1>2, <1>3, <1>5, WorkerKeeps DEF Facts, Typed
  <1> QED BY <1>1, <1>3, <1>5, <1>6 DEF Quiet, Exists

LEMMA CheckIsQuiet ==
  ASSUME Facts, NEW w \in Workers, NEW t \in Teams \cup {NoTeam}, NEW s \in Scrims,
         NEW op \in Ending \cup {"accept", "claim"}, op = "claim" => t \in Teams,
         Check(w, op, t, s), UNCHANGED serverVars
  PROVE  Facts' /\ Stay /\ Quiet
  <1> DEFINE pc == IF op = "claim" THEN "claim" ELSE "set_status"
             x == [pc |-> pc, op |-> op, team |-> t, scrim |-> s]
  <1>1. /\ worker' = [worker EXCEPT ![w] = x]
        /\ UNCHANGED <<scrims, servers, ledger, rec>>
    BY DEF Check, Busy, serverVars
  <1>2. x \in Work /\ Relies(x) /\ x.pc \notin Window
    BY DEF Work, Errands, Relies, Ending, Window
  <1> HIDE DEF x
  <1> QED BY <1>1, <1>2, ReadingKeeps

LEMMA AskIsQuiet ==
  ASSUME Facts, NEW w \in Workers, NEW t \in Teams, Ask(w, t), UNCHANGED serverVars
  PROVE  Facts' /\ Stay /\ Quiet
  <1>1. ASSUME NEW s \in Scrims, NEW at \in StartTimes, NEW opponent \in Teams,
               CreateProposal(w, t, opponent, s, at)
        PROVE  Facts' /\ Stay /\ Quiet
    <2> DEFINE row == [status |-> "pending", origin |-> "proposal", proposer |-> t,
                       opponent |-> opponent, at |-> at]
    <2>1. row \in ScrimRows /\ row.status # "none"
      BY ScrimsAssumption DEF ScrimRows
    <2>2. Create(w, t, s, row)
      BY <1>1 DEF CreateProposal
    <2> HIDE DEF row
    <2> QED BY <2>1, <2>2, CreateIsQuiet
  <1>2. ASSUME NEW s \in Scrims, NEW at \in StartTimes, CreateListing(w, t, s, at)
        PROVE  Facts' /\ Stay /\ Quiet
    <2> DEFINE row == [status |-> "open", origin |-> "listing", proposer |-> t,
                       opponent |-> NoTeam, at |-> at]
    <2>1. row \in ScrimRows /\ row.status # "none"
      BY ScrimsAssumption DEF ScrimRows
    <2>2. Create(w, t, s, row)
      BY <1>2 DEF CreateListing
    <2> HIDE DEF row
    <2> QED BY <2>1, <2>2, CreateIsQuiet
  <1> QED BY <1>1, <1>2, CheckIsQuiet DEF Ask

(* _set_status, the claim's UPDATE, and a worker that dies. *)
LEMMA GoOnIsQuiet ==
  ASSUME Facts, NEW w \in Workers, GoOn(w), UNCHANGED serverVars
  PROVE  Facts' /\ Stay /\ Quiet
  <1>0. Resting \in Work /\ Relies(Resting) /\ Resting.pc \notin Window
    BY DEF Work, Relies, Resting, Window
  <1>1. UNCHANGED <<servers, ledger, rec>>
    BY DEF serverVars
  <1>2. CASE UNCHANGED scrims /\ Rest(w)
    BY <1>0, <1>1, <1>2, ReadingKeeps DEF Rest
  <1>3. ASSUME NEW s \in Scrims, NEW row \in ScrimRows, NEW x \in Work,
               Known(s) => row.at = scrims[s].at,
               row.status # "none", Relies(x)', x.pc \notin Window,
               scrims' = [scrims EXCEPT ![s] = row],
               worker' = [worker EXCEPT ![w] = x]
        PROVE  Facts' /\ Stay /\ Quiet
    <2>1. /\ scrims' \in [Scrims -> ScrimRows] /\ scrims'[s] = row
          /\ \A r \in Scrims \ {s} : scrims'[r] = scrims[r]
      BY <1>3 DEF Facts, Typed
    <2>2. Stay
      BY <1>1, <1>3, <2>1 DEF Facts, Stay, Standing, Known, Exists
    <2>3. Facts' /\ \A v \in Workers : worker'[v] = IF v = w THEN x ELSE worker[v]
      BY <1>1, <1>3, <2>1, <2>2, WorkerKeeps DEF Facts, Typed
    <2> QED BY <1>1, <1>3, <2>2, <2>3 DEF Quiet, Exists
  <1>4. CASE SetStatus(w)
    <2>1. worker[w].pc = "set_status" /\ ~Idle(w)
      BY <1>4 DEF SetStatus, Idle
    <2>2. PICK s \in Scrims, op \in Ending \cup {"accept"} :
             s = worker[w].scrim /\ op = worker[w].op
      BY <2>1, Working DEF Relies
    <2> DEFINE row == [scrims[s] EXCEPT !.status = NewStatus[op]]
               call == [pc |-> "release", op |-> "release", team |-> NoTeam, scrim |-> s]
               x == IF op \in Ending THEN call ELSE Resting
    <2>3. /\ scrims' = [scrims EXCEPT ![s] = row]
          /\ worker' = [worker EXCEPT ![w] = x]
      BY <1>4, <2>2 DEF SetStatus, Call, Busy, Rest
    <2>4. scrims[s] \in ScrimRows
      BY DEF Facts, Typed
    <2>5. row \in ScrimRows /\ row.at = scrims[s].at /\ row.status # "none"
      BY <2>2, <2>4 DEF ScrimRows, NewStatus, Ending
    <2>6. x \in Work /\ Relies(x)' /\ x.pc \notin Window
      <3>1. call \in Work /\ Relies(call)' /\ call.pc \notin Window
        BY DEF Work, Errands, Relies, Window
      <3>2. Relies(Resting)'
        BY DEF Relies, Resting
      <3> HIDE DEF call
      <3> QED BY <1>0, <3>1, <3>2 DEF Relies, Known, Exists
    <2> HIDE DEF row, x
    <2> QED BY <1>3, <2>3, <2>5, <2>6
  <1>5. CASE Claim(w)
    <2>1. worker[w].pc = "claim" /\ ~Idle(w)
      BY <1>5 DEF Claim, Idle
    <2>2. PICK s \in Scrims, t \in Teams : s = worker[w].scrim /\ t = worker[w].team
      BY <2>1, Working DEF Relies
    <2> DEFINE row == [scrims[s] EXCEPT !.status = "confirmed", !.opponent = t]
               call == [pc |-> "attach", op |-> "attach", team |-> t, scrim |-> s]
    <2>3. \/ UNCHANGED scrims /\ Rest(w)
          \/ /\ scrims' = [scrims EXCEPT ![s] = row]
             /\ \/ worker' = [worker EXCEPT ![w] = call]
                \/ worker' = [worker EXCEPT ![w] = Resting]
      BY <1>5, <2>2 DEF Claim, Call, Busy, Rest, Facts, Typed
    <2>4. scrims[s] \in ScrimRows
      BY DEF Facts, Typed
    <2>5. row \in ScrimRows /\ row.at = scrims[s].at /\ row.status # "none"
      BY <2>4 DEF ScrimRows
    <2>6. /\ call \in Work /\ call.pc \notin Window /\ Relies(Resting)'
          /\ scrims' = [scrims EXCEPT ![s] = row] => Relies(call)'
      <3>1. scrims' = [scrims EXCEPT ![s] = row] => scrims'[s].status # "none"
        BY <2>5 DEF Facts, Typed
      <3> QED BY <3>1 DEF Work, Errands, Relies, Known, Window, Resting
    <2>7. CASE UNCHANGED scrims /\ Rest(w)
      BY <1>2, <2>7
    <2>8. CASE /\ scrims' = [scrims EXCEPT ![s] = row]
               /\ \/ worker' = [worker EXCEPT ![w] = call]
                  \/ worker' = [worker EXCEPT ![w] = Resting]
      <3> HIDE DEF row, call
      <3> QED BY <1>0, <1>3, <2>5, <2>6, <2>8
    <2> QED BY <2>3, <2>7, <2>8
  <1>6. CASE Crash(w)
    BY <1>2, <1>6 DEF Crash
  <1> QED BY <1>4, <1>5, <1>6 DEF GoOn

-----------------------------------------------------------------------------
(* Steps on servers that move no window                                    *)

(* A server that is there is set to a state, or marked. *)
LEMMA ServerMoves ==
  ASSUME Facts, NEW s \in Scrims, Exists(s), UNCHANGED scrims,
         \/ \E state \in States : SetState(s, state)
         \/ servers' = [servers EXCEPT ![s].grace = TRUE]
  PROVE  /\ servers' \in [Scrims -> ServerRows]
         /\ Stay
         /\ \A r \in Scrims : /\ servers'[r].owner = servers[r].owner
                              /\ servers'[r].ends = servers[r].ends
                              /\ Exists(r)' <=> Exists(r)
  <1>1. \E state \in States, grace \in BOOLEAN :
           /\ servers'[s] = [state |-> state, owner |-> servers[s].owner,
                             ends |-> servers[s].ends, grace |-> grace]
           /\ \A r \in Scrims \ {s} : servers'[r] = servers[r]
           /\ servers' = [r \in Scrims |-> servers'[r]]
    <2>1. servers \in [Scrims -> ServerRows] /\ servers[s] \in ServerRows
      BY DEF Facts, Typed
    <2>2. /\ servers[s].state \in States /\ servers[s].grace \in BOOLEAN
          /\ servers[s] = [state |-> servers[s].state, owner |-> servers[s].owner,
                           ends |-> servers[s].ends, grace |-> servers[s].grace]
      BY <2>1 DEF ServerRows, Exists
    <2>3. ASSUME NEW state \in States, SetState(s, state)
          PROVE  /\ servers'[s] = [state |-> state, owner |-> servers[s].owner,
                                   ends |-> servers[s].ends, grace |-> servers[s].grace]
                 /\ \A r \in Scrims \ {s} : servers'[r] = servers[r]
                 /\ servers' = [r \in Scrims |-> servers'[r]]
      BY <2>1, <2>2, <2>3 DEF SetState
    <2>4. CASE servers' = [servers EXCEPT ![s].grace = TRUE]
      <3>1. /\ servers'[s] = [state |-> servers[s].state, owner |-> servers[s].owner,
                              ends |-> servers[s].ends, grace |-> TRUE]
            /\ \A r \in Scrims \ {s} : servers'[r] = servers[r]
            /\ servers' = [r \in Scrims |-> servers'[r]]
        BY <2>1, <2>2, <2>4
      <3> QED BY <2>2, <3>1
    <2> QED BY <2>2, <2>3, <2>4
  <1>2. /\ servers'[s].owner = servers[s].owner /\ servers'[s].ends = servers[s].ends
        /\ servers'[s].state \in States /\ servers'[s] \in ServerRows
    BY <1>1 DEF Facts, Typed, ServerRows
  <1>3. Exists(s)'
    BY <1>2 DEF Exists, States
  <1>4. servers' \in [Scrims -> ServerRows]
    BY <1>1, <1>2 DEF Facts, Typed
  <1>5. \A r \in Scrims : /\ servers'[r].owner = servers[r].owner
                          /\ servers'[r].ends = servers[r].ends
                          /\ Exists(r)' <=> Exists(r)
    BY <1>1, <1>2, <1>3 DEF Exists
  <1>6. Stay
    <2>1. ASSUME NEW r \in Scrims PROVE Standing(r)'
      <3>1. Standing(r)
        BY DEF Facts
      <3>2. CASE r = s
        BY <1>2, <1>3, <3>1, <3>2 DEF Standing, Known, Exists
      <3>3. CASE r # s
        BY <1>1, <3>1, <3>3 DEF Standing, Known, Exists
      <3> QED BY <3>2, <3>3
    <2> QED BY <1>5, <2>1 DEF Stay, Known
  <1> QED BY <1>4, <1>5, <1>6

(* A worker that goes on is at its next statement, with the same scrim. *)
LEMMA GoesOn ==
  ASSUME NEW x, NEW pc,
         \/ x \in Errands /\ pc \in {"cancel_server", "refund"}
         \/ x \in Extensions /\ pc \in {"read_window", "resume"}
  PROVE  LET y == [x EXCEPT !.pc = pc]
         IN  /\ y \in Work /\ y.pc = pc /\ y.scrim = x.scrim
             /\ x \in Extensions => y.ends = x.ends /\ y.team = x.team
  BY DEF Work, Errands, Extensions

(* Requests that check, read, give up, or set a state. *)
LEMMA ServerStepsAreQuiet ==
  ASSUME Facts, NEW w \in Workers,
         \/ AttachFails(w) \/ ReadServer(w) \/ CancelServer(w) \/ Resume(w)
         \/ \E t \in Teams, s \in Scrims : CheckAttach(w, t, s) \/ CheckExtend(w, t, s)
  PROVE  Facts' /\ Stay /\ Quiet
  <1>0. Resting \in Work /\ Relies(Resting) /\ Relies(Resting)' /\ Resting.pc \notin Window
    BY DEF Work, Relies, Resting, Window
  <1>1. CASE Rest(w) /\ UNCHANGED <<scrims, servers, ledger, rec>>
    BY <1>0, <1>1, ReadingKeeps DEF Rest
  <1>2. CASE ReadServer(w)
    <2>1. PICK s \in Scrims : s = worker[w].scrim /\ worker[w] \in Errands
      BY <1>2, Working DEF ReadServer, Idle
    <2> DEFINE x == [worker[w] EXCEPT !.pc = "cancel_server"]
    <2>2. /\ UNCHANGED <<scrims, servers, ledger, rec>>
          /\ Rest(w) \/ (Exists(s) /\ worker' = [worker EXCEPT ![w] = x])
      BY <1>2, <2>1 DEF ReadServer, Continue, serverVars, Exists
    <2>3. x \in Work /\ x.pc = "cancel_server" /\ x.scrim = s
      BY <2>1, GoesOn
    <2>4. x.pc \notin Window /\ (Exists(s) => Relies(x))
      BY <2>3 DEF Window, Relies
    <2> HIDE DEF x
    <2> QED BY <1>1, <2>2, <2>3, <2>4, ReadingKeeps
  <1>3. CASE CancelServer(w)
    <2>1. PICK s \in Scrims, y \in Errands :
             s = worker[w].scrim /\ y = worker[w] /\ Exists(s)
      BY <1>3, Working DEF CancelServer, Idle, Relies
    <2> DEFINE x == [y EXCEPT !.pc = "refund"]
    <2>2. /\ SetState(s, "cancelled") /\ worker' = [worker EXCEPT ![w] = x]
          /\ UNCHANGED <<scrims, ledger, rec>>
      BY <1>3, <2>1 DEF CancelServer, Continue
    <2>3. x \in Work /\ x.pc = "refund" /\ x.scrim = s
      BY <2>1, GoesOn
    <2>4. /\ servers' \in [Scrims -> ServerRows] /\ Stay
          /\ \A r \in Scrims : /\ servers'[r].owner = servers[r].owner
                               /\ servers'[r].ends = servers[r].ends
                               /\ Exists(r)' <=> Exists(r)
      BY <2>1, <2>2, ServerMoves DEF States
    <2>5. Relies(x)'
      BY <2>1, <2>3, <2>4 DEF Relies, Exists
    <2> HIDE DEF x
    <2>6. Facts' /\ \A v \in Workers : worker'[v] = IF v = w THEN x ELSE worker[v]
      BY <2>2, <2>3, <2>4, <2>5, WorkerKeeps DEF Facts, Typed
    <2> QED BY <2>2, <2>3, <2>4, <2>6 DEF Quiet, Window
  <1>4. CASE Resume(w)
    <2>1. PICK s \in Scrims : s = worker[w].scrim /\ Exists(s)
      BY <1>4, Working DEF Resume, Idle, Relies
    <2>2. /\ SetState(s, "running") /\ worker' = [worker EXCEPT ![w] = Resting]
          /\ UNCHANGED <<scrims, ledger, rec>>
      BY <1>4, <2>1 DEF Resume, Rest
    <2>3. /\ servers' \in [Scrims -> ServerRows] /\ Stay
          /\ \A r \in Scrims : /\ servers'[r].owner = servers[r].owner
                               /\ servers'[r].ends = servers[r].ends
                               /\ Exists(r)' <=> Exists(r)
      BY <2>1, <2>2, ServerMoves DEF States
    <2>4. Facts' /\ \A v \in Workers : worker'[v] = IF v = w THEN Resting ELSE worker[v]
      BY <1>0, <2>2, <2>3, WorkerKeeps DEF Facts, Typed
    <2> QED BY <1>0, <2>2, <2>3, <2>4 DEF Quiet
  <1>5. ASSUME NEW t \in Teams, NEW s \in Scrims, CheckAttach(w, t, s)
        PROVE  Facts' /\ Stay /\ Quiet
    <2> DEFINE x == [pc |-> "attach", op |-> "attach", team |-> t, scrim |-> s]
    <2>1. /\ worker' = [worker EXCEPT ![w] = x] /\ t \in {scrims[s].proposer, scrims[s].opponent}
          /\ UNCHANGED <<scrims, servers, ledger, rec>>
      BY <1>5 DEF CheckAttach, MayAttach, Busy, serverVars
    <2>2. Known(s)
      BY <2>1, ScrimsAssumption DEF Facts, Standing, NoScrim
    <2>3. x \in Work /\ Relies(x) /\ x.pc \notin Window
      BY <2>2 DEF Work, Errands, Relies, Window
    <2> HIDE DEF x
    <2> QED BY <2>1, <2>3, ReadingKeeps
  <1>6. ASSUME NEW t \in Teams, NEW s \in Scrims, CheckExtend(w, t, s)
        PROVE  Facts' /\ Stay /\ Quiet
    <2> DEFINE x == [pc |-> "spend", op |-> "extend", team |-> t, scrim |-> s,
                     saw |-> servers[s].state, ends |-> 0]
    <2>1. /\ worker' = [worker EXCEPT ![w] = x]
          /\ servers[s].state \in {"running", "in_grace"}
          /\ UNCHANGED <<scrims, servers, ledger, rec>>
      BY <1>6 DEF CheckExtend, MayExtend, serverVars
    <2>2. x \in Work /\ Relies(x) /\ x.pc \notin Window
      BY <2>1 DEF Work, Extensions, Relies, Window, Exists, States
    <2> HIDE DEF x
    <2> QED BY <2>1, <2>2, ReadingKeeps
  <1> QED
    BY <1>1, <1>2, <1>3, <1>4, <1>5, <1>6 DEF AttachFails, serverVars

-----------------------------------------------------------------------------
(* What one entry does to the ledger's sums                                *)

LEMMA Entries ==
  ASSUME ledger \in [Teams -> [Scrims -> [Kinds -> Nat]]],
         NEW t \in Teams, NEW s \in Scrims, NEW kind \in Kinds, Entry(t, s, kind)
  PROVE  /\ ledger' \in [Teams -> [Scrims -> [Kinds -> Nat]]]
         /\ \A u \in Teams, r \in Scrims, k \in Kinds :
               ledger'[u][r][k] = IF u = t /\ r = s /\ k = kind
                                  THEN ledger[u][r][k] + 1 ELSE ledger[u][r][k]
  <1> DEFINE entry == [ledger[t][s] EXCEPT ![kind] = @ + 1]
             account == [ledger[t] EXCEPT ![s] = entry]
  <1>1. ledger[t] \in [Scrims -> [Kinds -> Nat]] /\ ledger[t][s] \in [Kinds -> Nat]
    OBVIOUS
  <1>2. /\ entry \in [Kinds -> Nat]
        /\ \A k \in Kinds : entry[k] = IF k = kind THEN ledger[t][s][k] + 1
                                       ELSE ledger[t][s][k]
    BY <1>1
  <1>3. ledger' = [ledger EXCEPT ![t] = account]
    BY DEF Entry
  <1> HIDE DEF entry
  <1>4. /\ account \in [Scrims -> [Kinds -> Nat]] /\ account[s] = entry
        /\ \A r \in Scrims \ {s} : account[r] = ledger[t][r]
    BY <1>1, <1>2
  <1> HIDE DEF account
  <1>5. /\ ledger' \in [Teams -> [Scrims -> [Kinds -> Nat]]] /\ ledger'[t] = account
        /\ \A u \in Teams \ {t} : ledger'[u] = ledger[u]
    BY <1>3, <1>4
  <1> QED BY <1>2, <1>4, <1>5

LEMMA TotalMoves ==
  ASSUME ledger \in [Teams -> [Scrims -> [Kinds -> Nat]]],
         NEW t \in Teams, NEW s \in Scrims, NEW kind \in Kinds, Entry(t, s, kind),
         NEW r \in Scrims, NEW k \in Kinds
  PROVE  /\ Total(r, k) \in Nat
         /\ Total(r, k)' = Total(r, k) + (IF r = s /\ k = kind THEN 1 ELSE 0)
  <1> DEFINE f == [u \in Teams |-> ledger[u][r][k]]
             h == [u \in Teams |-> ledger'[u][r][k]]
             d == IF r = s /\ k = kind THEN 1 ELSE 0
  <1>1. /\ Total(r, k) = SumFunctionOnSet(f, Teams)
        /\ Total(r, k)' = SumFunctionOnSet(h, Teams)
    BY DEF Total, SumFunction
  <1>2. /\ IsFiniteSet(Teams) /\ d \in Int
        /\ \A u \in Teams : f[u] \in Nat
    BY ScrimsAssumption
  <1>3. \A u \in Teams : h[u] = IF u = t THEN f[u] + d ELSE f[u]
    BY Entries
  <1>4. d = IF r = s /\ k = kind THEN 1 ELSE 0
    OBVIOUS
  <1> HIDE DEF f, h, d
  <1>5. SumFunctionOnSet(f, Teams) \in Nat
    BY <1>2, SumOfNaturals
  <1>6. SumFunctionOnSet(h, Teams) = SumFunctionOnSet(f, Teams) + d
    <2>1. SumFunctionOnSet(h, Teams)
             = SumFunctionOnSet(f, Teams) + (IF t \in Teams THEN d ELSE 0)
      <3>1. \A u \in Teams : f[u] \in Int /\ h[u] = IF u = t THEN f[u] + d ELSE f[u]
        BY <1>2, <1>3
      <3> QED BY <1>2, <3>1, SumMoves
    <2> QED BY <2>1
  <1> QED BY <1>1, <1>4, <1>5, <1>6

LEMMA BalanceMoves ==
  ASSUME ledger \in [Teams -> [Scrims -> [Kinds -> Nat]]],
         NEW t \in Teams, NEW s \in Scrims, NEW kind \in Kinds, Entry(t, s, kind),
         NEW u \in Teams
  PROVE  /\ Available(u) \in Int
         /\ Available(u)' = Available(u) + (IF u = t THEN IF kind = "release" THEN 1 ELSE -1
                                            ELSE 0)
  <1> DEFINE f == [r \in Scrims |-> ledger[u][r]["release"] - ledger[u][r]["reserve"]
                                       - ledger[u][r]["extend"]]
             h == [r \in Scrims |-> ledger'[u][r]["release"] - ledger'[u][r]["reserve"]
                                       - ledger'[u][r]["extend"]]
             d == IF u = t THEN IF kind = "release" THEN 1 ELSE -1 ELSE 0
  <1>1. /\ Available(u) = Opening[u] + SumFunctionOnSet(f, Scrims)
        /\ Available(u)' = Opening[u] + SumFunctionOnSet(h, Scrims)
    BY DEF Available, SumFunction
  <1>2. IsFiniteSet(Scrims) /\ d \in Int /\ Opening[u] \in Nat
    BY ScrimsAssumption, ScrimServersAssumption
  <1>3. \A r \in Scrims : f[r] \in Int
    BY DEF Kinds
  <1>4. \A r \in Scrims : h[r] = IF r = s THEN f[r] + d ELSE f[r]
    <2>1. ASSUME NEW r \in Scrims
          PROVE  h[r] = IF r = s THEN f[r] + d ELSE f[r]
      <3>0. /\ f[r] = ledger[u][r]["release"] - ledger[u][r]["reserve"]
                         - ledger[u][r]["extend"]
            /\ h[r] = ledger'[u][r]["release"] - ledger'[u][r]["reserve"]
                         - ledger'[u][r]["extend"]
        OBVIOUS
      <3>1. PICK a \in Nat, b \in Nat, c \in Nat :
               /\ a = ledger[u][r]["release"] /\ b = ledger[u][r]["reserve"]
               /\ c = ledger[u][r]["extend"]
        BY DEF Kinds
      <3>2. \A k \in Kinds : ledger'[u][r][k] = IF u = t /\ r = s /\ k = kind
                                                THEN ledger[u][r][k] + 1 ELSE ledger[u][r][k]
        BY Entries
      <3>3. CASE u = t /\ r = s
        <4>1. CASE kind = "release"
          <5>1. f[r] = a - b - c /\ h[r] = (a + 1) - b - c
            BY <3>0, <3>1, <3>2, <3>3, <4>1 DEF Kinds
          <5>2. d = 1
            BY <3>3, <4>1
          <5> HIDE DEF f, h, d
          <5> QED BY <3>3, <5>1, <5>2
        <4>2. CASE kind = "reserve"
          <5>1. f[r] = a - b - c /\ h[r] = a - (b + 1) - c
            BY <3>0, <3>1, <3>2, <3>3, <4>2 DEF Kinds
          <5>2. d = -1
            BY <3>3, <4>2
          <5> HIDE DEF f, h, d
          <5> QED BY <3>3, <5>1, <5>2
        <4>3. CASE kind = "extend"
          <5>1. f[r] = a - b - c /\ h[r] = a - b - (c + 1)
            BY <3>0, <3>1, <3>2, <3>3, <4>3 DEF Kinds
          <5>2. d = -1
            BY <3>3, <4>3
          <5> HIDE DEF f, h, d
          <5> QED BY <3>3, <5>1, <5>2
        <4> QED BY <4>1, <4>2, <4>3 DEF Kinds
      <3>4. CASE ~(u = t /\ r = s)
        <4>1. h[r] = f[r]
          BY <3>2, <3>4 DEF Kinds
        <4>2. r = s => d = 0
          BY <3>4
        <4> HIDE DEF f, h, d
        <4> QED BY <1>3, <4>1, <4>2
      <3> QED BY <3>3, <3>4
    <2> QED BY <2>1
  <1>5. d = IF u = t THEN IF kind = "release" THEN 1 ELSE -1 ELSE 0
    OBVIOUS
  <1> HIDE DEF f, h, d
  <1>6. /\ SumFunctionOnSet(f, Scrims) \in Int
        /\ SumFunctionOnSet(h, Scrims) = SumFunctionOnSet(f, Scrims) + d
    <2>1. /\ SumFunctionOnSet(f, Scrims) \in Int
          /\ SumFunctionOnSet(h, Scrims)
                = SumFunctionOnSet(f, Scrims) + (IF s \in Scrims THEN d ELSE 0)
      <3>1. \A r \in Scrims : f[r] \in Int /\ h[r] = IF r = s THEN f[r] + d ELSE f[r]
        BY <1>3, <1>4
      <3> QED BY <1>2, <3>1, SumMoves
    <2> QED BY <2>1
  <1> QED BY <1>1, <1>2, <1>5, <1>6

-----------------------------------------------------------------------------
(* Steps that book a credit or move a window                               *)

(* No worker comes to be at a window that was not. *)
NoneComes == \A v \in Workers : worker'[v].pc \in Window => worker'[v] = worker[v]

LEMMA Attaches ==
  ASSUME Facts, NEW w \in Workers, Attach(w)
  PROVE  /\ Facts' /\ Stay /\ NoneComes /\ UNCHANGED scrims
         /\ \E t \in Teams, s \in Scrims :
               /\ ~Exists(s) /\ Available(t) >= 1 /\ Entry(t, s, "reserve")
               /\ servers'[s].owner = t /\ servers'[s].ends = scrims[s].at + CreditTime
               /\ \A r \in Scrims \ {s} : servers'[r] = servers[r]
  <1>1. PICK t \in Teams, s \in Scrims :
           t = worker[w].team /\ s = worker[w].scrim /\ Known(s)
    BY Working DEF Attach, Idle, Relies
  <1> DEFINE row == [state |-> "scheduled", owner |-> t,
                     ends |-> scrims[s].at + CreditTime, grace |-> FALSE]
  <1>2. /\ servers[s] = NoServer /\ Available(t) >= 1 /\ Entry(t, s, "reserve")
        /\ servers' = [servers EXCEPT ![s] = row]
        /\ worker' = [worker EXCEPT ![w] = Resting]
        /\ UNCHANGED <<scrims, rec>>
    BY <1>1 DEF Attach, Rest
  <1>3. /\ row \in ServerRows /\ row.state # "none" /\ row.owner = t
        /\ row.ends = scrims[s].at + CreditTime
    <2>1. scrims[s].at \in Nat /\ CreditTime \in Nat
      BY ScrimServersAssumption DEF Facts, Typed, ScrimRows
    <2> QED BY <2>1 DEF ServerRows, States
  <1> HIDE DEF row
  <1>4. /\ servers' \in [Scrims -> ServerRows] /\ servers'[s] = row
        /\ \A r \in Scrims \ {s} : servers'[r] = servers[r]
    BY <1>2, <1>3 DEF Facts, Typed
  <1>5. ledger' \in [Teams -> [Scrims -> [Kinds -> Nat]]]
    BY <1>2, Entries DEF Facts, Typed, Kinds
  <1>6. ~Exists(s)
    BY <1>2 DEF Exists, NoServer
  <1>7. Stay
    BY <1>1, <1>2, <1>3, <1>4, <1>6 DEF Facts, Stay, Standing, Known, Exists
  <1>8. Resting \in Work /\ Relies(Resting)' /\ Resting.pc \notin Window
    BY DEF Work, Relies, Resting, Window
  <1>9. Facts' /\ \A v \in Workers : worker'[v] = IF v = w THEN Resting ELSE worker[v]
    BY <1>2, <1>4, <1>5, <1>7, <1>8, WorkerKeeps DEF Facts, Typed
  <1> QED BY <1>2, <1>3, <1>4, <1>6, <1>7, <1>8, <1>9 DEF NoneComes

LEMMA Refunds ==
  ASSUME Facts, NEW w \in Workers, Refund(w)
  PROVE  /\ Facts' /\ Stay /\ NoneComes /\ UNCHANGED <<scrims, servers>>
         /\ \E t \in Teams, s \in Scrims :
               Exists(s) /\ servers[s].owner = t /\ Entry(t, s, "release")
  <1>1. PICK s \in Scrims : s = worker[w].scrim /\ Exists(s)
    BY Working DEF Refund, Idle, Relies
  <1>2. PICK t \in Teams : t = servers[s].owner
    BY <1>1 DEF Facts, Standing
  <1>3. /\ Entry(t, s, "release") /\ worker' = [worker EXCEPT ![w] = Resting]
        /\ UNCHANGED <<scrims, servers, rec>>
    BY <1>1, <1>2 DEF Refund, Rest
  <1>4. ledger' \in [Teams -> [Scrims -> [Kinds -> Nat]]]
    BY <1>3, Entries DEF Facts, Typed, Kinds
  <1>5. Stay
    BY <1>3 DEF Facts, Stay, Standing, Known, Exists
  <1>6. Resting \in Work /\ Relies(Resting)' /\ Resting.pc \notin Window
    BY DEF Work, Relies, Resting, Window
  <1>7. Facts' /\ \A v \in Workers : worker'[v] = IF v = w THEN Resting ELSE worker[v]
    BY <1>3, <1>4, <1>5, <1>6, WorkerKeeps DEF Facts, Typed
  <1> QED BY <1>1, <1>2, <1>3, <1>5, <1>6, <1>7 DEF NoneComes

LEMMA Spends ==
  ASSUME Facts, NEW w \in Workers, Spend(w)
  PROVE  /\ Facts' /\ Stay /\ UNCHANGED <<scrims, servers>>
         /\ \/ Quiet
            \/ \E t \in Teams, s \in Scrims :
                  /\ Exists(s) /\ Available(t) >= 1 /\ Entry(t, s, "extend")
                  /\ worker[w].pc \notin Window
                  /\ worker'[w].pc = "read_window" /\ worker'[w].scrim = s
                  /\ \A v \in Workers \ {w} : worker'[v] = worker[v]
  <1>1. PICK y \in Extensions, t \in Teams, s \in Scrims :
           y = worker[w] /\ t = y.team /\ s = y.scrim /\ Exists(s) /\ y.pc = "spend"
    BY Working DEF Spend, Idle, Relies, Extensions
  <1>2. CASE Available(t) >= 1
    <2> DEFINE x == [y EXCEPT !.pc = "read_window"]
    <2>1. /\ Entry(t, s, "extend") /\ worker' = [worker EXCEPT ![w] = x]
          /\ UNCHANGED <<scrims, servers, rec>>
      BY <1>1, <1>2 DEF Spend, Continue
    <2>2. x \in Work /\ x.pc = "read_window" /\ x.scrim = s
      BY <1>1, GoesOn
    <2> HIDE DEF x
    <2>3. ledger' \in [Teams -> [Scrims -> [Kinds -> Nat]]]
      BY <2>1, Entries DEF Facts, Typed, Kinds
    <2>4. Stay
      BY <2>1 DEF Facts, Stay, Standing, Known, Exists
    <2>5. Relies(x)'
      BY <1>1, <2>1, <2>2 DEF Relies, Exists
    <2>6. Facts' /\ \A v \in Workers : worker'[v] = IF v = w THEN x ELSE worker[v]
      BY <2>1, <2>2, <2>3, <2>4, <2>5, WorkerKeeps DEF Facts, Typed
    <2>7. worker[w].pc \notin Window
      BY <1>1 DEF Window
    <2> QED BY <1>1, <1>2, <2>1, <2>2, <2>4, <2>6, <2>7
  <1>3. CASE ~(Available(t) >= 1)
    <2>1. /\ worker' = [worker EXCEPT ![w] = Resting]
          /\ UNCHANGED <<scrims, servers, ledger, rec>>
      BY <1>1, <1>3 DEF Spend, Rest
    <2>2. Resting \in Work /\ Relies(Resting) /\ Resting.pc \notin Window
      BY DEF Work, Relies, Resting, Window
    <2> QED BY <2>1, <2>2, ReadingKeeps
  <1> QED BY <1>2, <1>3

LEMMA ReadsWindow ==
  ASSUME Facts, NEW w \in Workers, ReadWindow(w)
  PROVE  /\ Facts' /\ Stay /\ UNCHANGED <<scrims, servers, ledger>>
         /\ \E s \in Scrims :
               /\ Exists(s) /\ worker[w].pc = "read_window" /\ worker[w].scrim = s
               /\ worker'[w].pc = "write_window" /\ worker'[w].scrim = s
               /\ worker'[w].ends = servers[s].ends
               /\ \A v \in Workers \ {w} : worker'[v] = worker[v]
  <1>1. PICK y \in Extensions, s \in Scrims :
           y = worker[w] /\ s = y.scrim /\ Exists(s) /\ y.pc = "read_window"
    BY Working DEF ReadWindow, Idle, Relies, Extensions
  <1>2. PICK ends \in Nat : ends = servers[s].ends
    BY DEF Facts, Typed, ServerRows
  <1> DEFINE x == [y EXCEPT !.pc = "write_window", !.ends = ends]
  <1>3. /\ worker' = [worker EXCEPT ![w] = x]
        /\ UNCHANGED <<scrims, servers, ledger, rec>>
    <2>1. worker' = [worker EXCEPT ![w].pc = "write_window", ![w].ends = ends]
      BY <1>1, <1>2 DEF ReadWindow
    <2> QED BY <1>1, <2>1 DEF ReadWindow, serverVars, Facts, Typed
  <1>4. x \in Work /\ x.pc = "write_window" /\ x.scrim = s /\ x.ends = ends
    BY <1>1 DEF Extensions, Work
  <1> HIDE DEF x
  <1>5. Relies(x)
    BY <1>1, <1>4 DEF Relies
  <1>6. Facts' /\ Stay
    BY <1>3, <1>4, <1>5, ReadingKeeps
  <1>7. \A v \in Workers : worker'[v] = IF v = w THEN x ELSE worker[v]
    BY <1>3 DEF Facts, Typed
  <1> QED BY <1>1, <1>2, <1>3, <1>4, <1>6, <1>7

LEMMA WritesWindow ==
  ASSUME Facts, NEW w \in Workers, WriteWindow(w)
  PROVE  /\ Facts' /\ Stay /\ UNCHANGED <<scrims, ledger>>
         /\ \E s \in Scrims :
               /\ Exists(s) /\ worker[w].pc = "write_window" /\ worker[w].scrim = s
               /\ servers'[s].ends = worker[w].ends + ExtensionTime
               /\ \A r \in Scrims \ {s} : servers'[r] = servers[r]
               /\ \A r \in Scrims : /\ servers'[r].owner = servers[r].owner
                                    /\ Exists(r)' <=> Exists(r)
               /\ worker'[w].pc \notin Window
               /\ \A v \in Workers \ {w} : worker'[v] = worker[v]
  <1>1. PICK y \in Extensions, s \in Scrims :
           y = worker[w] /\ s = y.scrim /\ Exists(s) /\ y.pc = "write_window"
    BY Working DEF WriteWindow, Idle, Relies, Extensions
  <1> DEFINE ends == y.ends + ExtensionTime
             more == [y EXCEPT !.pc = "resume"]
  <1>2. /\ servers' = [servers EXCEPT ![s].ends = ends]
        /\ \/ worker' = [worker EXCEPT ![w] = more]
           \/ worker' = [worker EXCEPT ![w] = Resting]
        /\ UNCHANGED <<scrims, ledger, rec>>
    BY <1>1 DEF WriteWindow, Continue, Rest
  <1>3. ends \in Nat
    BY <1>1, ScrimServersAssumption DEF Extensions
  <1>4. more \in Work /\ more.pc = "resume" /\ more.scrim = s
    BY <1>1, GoesOn
  <1>5. PICK x \in {more, Resting} : worker' = [worker EXCEPT ![w] = x]
    BY <1>2
  <1> HIDE DEF ends, more
  <1>6. servers[s] \in ServerRows /\ servers'[s] = [servers[s] EXCEPT !.ends = ends]
    BY <1>2 DEF Facts, Typed
  <1>7. /\ servers'[s] \in ServerRows /\ servers'[s].ends = ends
        /\ servers'[s].owner = servers[s].owner /\ servers'[s].state = servers[s].state
    BY <1>3, <1>6 DEF ServerRows
  <1>8. /\ servers' \in [Scrims -> ServerRows]
        /\ \A r \in Scrims \ {s} : servers'[r] = servers[r]
    BY <1>2, <1>7 DEF Facts, Typed
  <1>9. \A r \in Scrims : /\ servers'[r].owner = servers[r].owner
                          /\ Exists(r)' <=> Exists(r)
    BY <1>7, <1>8 DEF Exists
  <1>10. Stay
    <2>1. ASSUME NEW r \in Scrims PROVE Standing(r)'
      <3>1. Standing(r)
        BY DEF Facts
      <3>2. CASE r = s
        BY <1>1, <1>2, <1>9, <3>1, <3>2 DEF Standing, Known
      <3>3. CASE r # s
        BY <1>2, <1>8, <3>1, <3>3 DEF Standing, Known, Exists
      <3> QED BY <3>2, <3>3
    <2> QED BY <1>2, <1>9, <2>1 DEF Stay, Known
  <1>11. x \in Work /\ x.pc \notin Window
    BY <1>4, <1>5 DEF Work, Resting, Window
  <1>12. Relies(x)'
    <2>1. Relies(Resting)'
      BY DEF Relies, Resting
    <2>2. Exists(s)'
      BY <1>1, <1>9
    <2>3. (x.pc = "resume" /\ x.scrim = s) \/ x = Resting
      BY <1>4, <1>5
    <2> QED BY <2>1, <2>2, <2>3 DEF Relies, Exists
  <1>13. Facts' /\ \A v \in Workers : worker'[v] = IF v = w THEN x ELSE worker[v]
    BY <1>2, <1>5, <1>8, <1>10, <1>11, <1>12, WorkerKeeps DEF Facts, Typed
  <1>14. ends = worker[w].ends + ExtensionTime
    BY <1>1 DEF ends
  <1> QED BY <1>1, <1>2, <1>7, <1>8, <1>9, <1>10, <1>11, <1>13, <1>14

-----------------------------------------------------------------------------
(* The reconciler and the clock                                            *)

(* A step of the run: it reads rows that are there. *)
LEMMA RunKeeps ==
  ASSUME Facts, UNCHANGED <<scrims, worker, ledger>>, servers' \in [Scrims -> ServerRows],
         Stay,
         \A s \in Scrims : s \in DOMAIN rec'.rows \cup rec'.marked => Exists(s)
  PROVE  Facts'
  <1>1. Typed'
    BY DEF Facts, Typed
  <1>2. ASSUME NEW w \in Workers PROVE Relies(worker[w])'
    <2>1. CASE Idle(w)
      BY <2>1 DEF Relies, Idle
    <2>2. CASE ~Idle(w)
      <3>1. Relies(worker[w]) /\ worker[w].scrim \in Scrims
        BY <2>2, Working
      <3> QED BY <3>1 DEF Relies, Stay, Known, Exists
    <2> QED BY <2>1, <2>2
  <1> QED BY <1>1, <1>2 DEF Facts, Stay, Exists

LEMMA RunIsQuiet ==
  ASSUME Facts, GraceInv,
         \/ Start \/ RunDies \/ Clock
         \/ \E s \in Scrims : EnterGrace(s) \/ \E state \in States : Advance(s, state)
  PROVE  Facts' /\ Stay /\ Quiet
  <1>1. ASSUME UNCHANGED <<scrims, worker, ledger, servers>>,
               \A s \in Scrims : s \in DOMAIN rec'.rows \cup rec'.marked => Exists(s)
        PROVE  Facts' /\ Stay /\ Quiet
    <2>1. Stay
      BY <1>1 DEF Facts, Stay, Standing, Known, Exists
    <2>2. servers' \in [Scrims -> ServerRows]
      BY <1>1 DEF Facts, Typed
    <2>3. Facts'
      BY <1>1, <2>1, <2>2, RunKeeps
    <2> QED BY <1>1, <2>1, <2>3 DEF Quiet, Exists
  <1>2. CASE Start
    <2>1. \A s \in Scrims : Overdue(s, now) => Exists(s)
      BY DEF Overdue, Due, Exists
    <2>2. /\ DOMAIN rec'.rows = {r \in Scrims : Overdue(r, now)} /\ rec'.marked = {}
          /\ UNCHANGED <<scrims, worker, ledger, servers>>
      BY <1>2 DEF Start, scrimVars
    <2> QED BY <1>1, <2>1, <2>2
  <1>3. CASE RunDies
    BY <1>1, <1>3 DEF RunDies, scrimVars, Asleep
  <1>4. CASE Clock
    BY <1>1, <1>4 DEF Clock, Tick, serverVars, Facts
  <1>5. ASSUME NEW s \in Scrims, Exists(s), Done(s), NEW state \in States, SetState(s, state),
               UNCHANGED <<scrimVars, ledger>>
        PROVE  Facts' /\ Stay /\ Quiet
    <2>1. UNCHANGED <<scrims, worker, ledger>>
      BY <1>5 DEF scrimVars
    <2>2. /\ servers' \in [Scrims -> ServerRows] /\ Stay
          /\ \A r \in Scrims : /\ servers'[r].owner = servers[r].owner
                               /\ servers'[r].ends = servers[r].ends
                               /\ Exists(r)' <=> Exists(r)
      BY <1>5, <2>1, ServerMoves
    <2>3. DOMAIN rec'.rows \subseteq DOMAIN rec.rows /\ rec'.marked = {}
      BY <1>5, DoneLeaves
    <2>4. Facts'
      BY <2>1, <2>2, <2>3, RunKeeps DEF Facts
    <2> QED BY <2>1, <2>2, <2>4 DEF Quiet
  <1>6. ASSUME NEW s \in Scrims, EnterGrace(s)
        PROVE  Facts' /\ Stay /\ Quiet
    <2>1. Exists(s)
      BY <1>6 DEF EnterGrace, Facts
    <2> QED BY <1>5, <1>6, <2>1 DEF EnterGrace, States
  <1>7. ASSUME NEW s \in Scrims, NEW state \in States, Advance(s, state)
        PROVE  Facts' /\ Stay /\ Quiet
    <2>1. Exists(s) /\ UNCHANGED <<scrims, worker, ledger>>
      BY <1>7 DEF Advance, Facts, scrimVars
    <2>2. CASE SetState(s, state) /\ Done(s)
      BY <1>5, <1>7, <2>1, <2>2 DEF Advance
    <2>3. CASE /\ servers' = [servers EXCEPT ![s].grace = TRUE]
               /\ rec' = [rec EXCEPT !.marked = {s}]
      <3>1. /\ servers' \in [Scrims -> ServerRows] /\ Stay
            /\ \A r \in Scrims : /\ servers'[r].owner = servers[r].owner
                                 /\ servers'[r].ends = servers[r].ends
                                 /\ Exists(r)' <=> Exists(r)
        BY <2>1, <2>3, ServerMoves
      <3>2. rec'.rows = rec.rows /\ rec'.marked = {s}
        BY <2>3 DEF GraceInv, Shaped
      <3>3. Facts'
        BY <2>1, <3>1, <3>2, RunKeeps DEF Facts
      <3> QED BY <2>1, <3>1, <3>3 DEF Quiet
    <2> QED BY <1>7, <2>2, <2>3 DEF Advance
  <1> QED BY <1>2, <1>3, <1>4, <1>6, <1>7

(* Every step is quiet or books, reads or writes. *)
Transacts(w) == Attach(w) \/ Refund(w) \/ Spend(w) \/ ReadWindow(w) \/ WriteWindow(w)

LEMMA StepIsQuietOrBooks ==
  ASSUME Facts, GraceInv, [NextServers]_allVars
  PROVE  /\ Facts' /\ Stay
         /\ Quiet \/ \E w \in Workers : Transacts(w)
  <1>1. ASSUME NEW w \in Workers, Transacts(w) PROVE Facts' /\ Stay
    BY <1>1, Attaches, Refunds, Spends, ReadsWindow, WritesWindow DEF Transacts
  <1>2. CASE UNCHANGED allVars
    BY <1>2
    DEF allVars, scrimVars, serverVars, Facts, Typed, Standing, Relies, Stay, Quiet, Known,
        Exists
  <1>3. ASSUME NEW w \in Workers, GoOnServers(w), ~Transacts(w) PROVE Facts' /\ Stay /\ Quiet
    BY <1>3, ServerStepsAreQuiet DEF GoOnServers, Transacts
  <1>4. CASE Handlers /\ UNCHANGED serverVars
    BY <1>4, GoOnIsQuiet, AskIsQuiet DEF Handlers
  <1>5. CASE Request
    BY <1>1, <1>3, <1>4, <1>5, ServerStepsAreQuiet DEF Request
  <1>6. CASE Reconcile \/ RunDies \/ Clock
    BY <1>6, RunIsQuiet DEF Reconcile, Move
  <1> QED BY <1>2, <1>5, <1>6 DEF NextServers

-----------------------------------------------------------------------------
(* Windows                                                                 *)

(* Those who have spent a credit on s and not yet moved its window. *)
Buying(s) == {w \in Workers : worker[w].pc \in Window /\ worker[w].scrim = s}

Bought(s) == scrims[s].at + CreditTime + ExtensionTime * Total(s, "extend")

(* An end that leaves room for what is being bought. *)
Paid(s, ends) == ends + ExtensionTime * Cardinality(Buying(s)) <= Bought(s)

Windows ==
    /\ \A s \in Scrims : Exists(s) => Paid(s, servers[s].ends)
    /\ \A w \in Workers : worker[w].pc = "write_window" =>
          Paid(worker[w].scrim, worker[w].ends)

LEMMA Times ==
  ASSUME NEW a \in Nat, NEW n \in Nat
  PROVE  /\ a * n \in Nat /\ a * 0 = 0 /\ a * (n + 1) = a * n + a
         /\ \A m \in Nat : m <= n => a * m <= a * n
  <1>1. a * n \in Nat /\ a * 0 = 0 /\ a * (n + 1) = a * n + a
    OBVIOUS
  <1>2. ASSUME NEW m \in Nat, m <= n PROVE a * m <= a * n
    <2>1. PICK k \in Nat : n = m + k
      <3>1. n - m \in Nat /\ n = m + (n - m)
        BY <1>2
      <3> QED BY <3>1
    <2>2. a * n = a * m + a * k /\ a * m \in Nat /\ a * k \in Nat
      BY <2>1
    <2> QED BY <2>2
  <1> QED BY <1>1, <1>2

LEMMA TotalIsNat ==
  ASSUME Facts, NEW s \in Scrims, NEW k \in Kinds
  PROVE  Total(s, k) \in Nat
  <1> DEFINE f == [u \in Teams |-> ledger[u][s][k]]
  <1>1. Total(s, k) = SumFunctionOnSet(f, Teams)
    BY DEF Total, SumFunction
  <1>2. \A u \in Teams : f[u] \in Nat
    BY DEF Facts, Typed
  <1> HIDE DEF f
  <1> QED BY <1>1, <1>2, SumOfNaturals, ScrimsAssumption

LEMMA BuyingIsNat ==
  ASSUME NEW s
  PROVE  /\ IsFiniteSet(Buying(s)) /\ Cardinality(Buying(s)) \in Nat
         /\ IsFiniteSet(Buying(s)') /\ Cardinality(Buying(s)') \in Nat
  <1>1. Buying(s) \in SUBSET Workers /\ Buying(s)' \in SUBSET Workers
    BY DEF Buying
  <1> QED BY <1>1, FS_Subset, FS_CardinalityType, ScrimsAssumption

LEMMA BoughtIsNat ==
  ASSUME Facts, NEW s \in Scrims
  PROVE  Bought(s) \in Nat
  <1>1. /\ scrims[s].at \in Nat /\ CreditTime \in Nat /\ ExtensionTime \in Nat
        /\ Total(s, "extend") \in Nat
    BY ScrimServersAssumption, TotalIsNat DEF Facts, Typed, ScrimRows, Kinds
  <1>2. ExtensionTime * Total(s, "extend") \in Nat
    BY <1>1, Times
  <1> QED BY <1>1, <1>2 DEF Bought

(* Room is not lost while nothing more is being bought, or is paid for. *)
LEMMA RoomStays ==
  ASSUME Facts, Facts', NEW s \in Scrims, NEW ends \in Nat, Paid(s, ends),
         Cardinality(Buying(s)') <= Cardinality(Buying(s)), Bought(s)' = Bought(s)
  PROVE  Paid(s, ends)'
  <1> DEFINE n == Cardinality(Buying(s))
             m == Cardinality(Buying(s)')
  <1>1. n \in Nat /\ m \in Nat /\ m <= n /\ ExtensionTime \in Nat
    BY BuyingIsNat, ScrimServersAssumption
  <1>2. ends + ExtensionTime * n <= Bought(s) /\ Bought(s) \in Nat
    BY BoughtIsNat DEF Paid
  <1> HIDE DEF n, m
  <1>3. /\ ExtensionTime * m <= ExtensionTime * n
        /\ ExtensionTime * m \in Nat /\ ExtensionTime * n \in Nat
    BY <1>1, Times
  <1>4. ends + ExtensionTime * m <= Bought(s)'
    BY <1>2, <1>3
  <1> QED BY <1>4 DEF Paid, m

(* Who is at a window has a server before him, and an end in mind. *)
LEMMA AtAWindow ==
  ASSUME Facts, NEW w \in Workers, worker[w].pc \in Window
  PROVE  /\ worker[w].scrim \in Scrims /\ Exists(worker[w].scrim)
         /\ worker[w].ends \in Nat
  <1>1. ~Idle(w)
    BY DEF Idle, Window
  <1>2. worker[w] \in Extensions /\ Relies(worker[w])
    BY <1>1, Working DEF Window
  <1> QED BY <1>2 DEF Relies, Extensions, Window

LEMMA ServerIsKnown ==
  ASSUME Facts, NEW s \in Scrims, Exists(s)
  PROVE  Known(s) /\ servers[s].ends \in Nat
  BY DEF Facts, Standing, Typed, ServerRows

(* No window is moved, and no extension booked. *)
LEMMA WindowsStay ==
  ASSUME Facts, Facts', Windows, Stay, NoneComes,
         \A s \in Scrims :
            /\ Total(s, "extend")' = Total(s, "extend")
            /\ Exists(s) => servers'[s].ends = servers[s].ends
            /\ ~Exists(s) /\ Exists(s)' => servers'[s].ends = scrims'[s].at + CreditTime
  PROVE  Windows'
  <1>1. ASSUME NEW s \in Scrims, Known(s)
        PROVE  Cardinality(Buying(s)') <= Cardinality(Buying(s)) /\ Bought(s)' = Bought(s)
    <2>1. Buying(s)' \in SUBSET Buying(s)
      BY DEF Buying, NoneComes
    <2>2. Bought(s)' = Bought(s)
      BY <1>1 DEF Bought, Stay
    <2> QED BY <2>1, <2>2, BuyingIsNat, FS_Subset
  <1>2. ASSUME NEW s \in Scrims, Exists(s)' PROVE Paid(s, servers[s].ends)'
    <2>1. CASE Exists(s)
      <3>1. PICK ends \in Nat : ends = servers[s].ends
        BY <2>1, ServerIsKnown
      <3>2. Paid(s, ends)'
        BY <1>1, <2>1, <3>1, RoomStays, ServerIsKnown DEF Windows
      <3>3. servers'[s].ends = ends
        BY <2>1, <3>1
      <3> QED BY <3>2, <3>3 DEF Paid
    <2>2. CASE ~Exists(s)
      <3>1. Buying(s)' = {}
        BY <2>2, AtAWindow DEF Buying, NoneComes
      <3>2. Cardinality(Buying(s)') = 0
        BY <3>1, FS_EmptySet
      <3>3. PICK total \in Nat, at \in Nat :
               total = Total(s, "extend")' /\ at = scrims'[s].at
        <4>1. Total(s, "extend") \in Nat
          BY TotalIsNat DEF Kinds
        <4> QED BY <4>1 DEF Facts, Typed, ScrimRows
      <3>4. /\ ExtensionTime * 0 = 0 /\ ExtensionTime * total \in Nat
            /\ CreditTime \in Nat
        BY ScrimServersAssumption, Times
      <3>5. servers'[s].ends = at + CreditTime
        BY <1>2, <2>2, <3>3
      <3>6. Bought(s)' = at + CreditTime + ExtensionTime * total
        BY <3>3 DEF Bought
      <3>7. (at + CreditTime) + ExtensionTime * 0 <= at + CreditTime + ExtensionTime * total
        BY <3>4
      <3> QED BY <3>2, <3>5, <3>6, <3>7 DEF Paid
    <2> QED BY <2>1, <2>2
  <1>3. ASSUME NEW w \in Workers, worker'[w].pc = "write_window"
        PROVE  Paid(worker[w].scrim, worker[w].ends)'
    <2>1. worker'[w] = worker[w] /\ worker[w].pc \in Window
      BY <1>3 DEF NoneComes, Window
    <2>2. PICK s \in Scrims, ends \in Nat :
             s = worker[w].scrim /\ ends = worker[w].ends /\ Exists(s)
      BY <2>1, AtAWindow
    <2>3. Paid(s, ends)'
      BY <1>1, <1>3, <2>1, <2>2, RoomStays, ServerIsKnown DEF Windows
    <2> QED BY <2>1, <2>2, <2>3 DEF Paid
  <1> QED BY <1>2, <1>3 DEF Windows

(* A credit is spent: as much is bought as is still to be moved. *)
LEMMA SpendingKeepsWindows ==
  ASSUME Facts, Facts', Windows, UNCHANGED <<scrims, servers>>,
         NEW w \in Workers, NEW t \in Teams, NEW s \in Scrims, Entry(t, s, "extend"),
         worker[w].pc \notin Window,
         worker'[w].pc = "read_window", worker'[w].scrim = s,
         \A v \in Workers \ {w} : worker'[v] = worker[v]
  PROVE  Windows'
  <1>1. ASSUME NEW r \in Scrims, NEW ends \in Nat, Paid(r, ends) PROVE Paid(r, ends)'
    <2>1. /\ Total(r, "extend") \in Nat
          /\ Total(r, "extend")' = Total(r, "extend") + (IF r = s THEN 1 ELSE 0)
      BY TotalMoves DEF Facts, Typed, Kinds
    <2>2. CASE r # s
      <3>1. Buying(r)' = Buying(r)
        BY <2>2 DEF Buying, Window
      <3>2. Bought(r)' = Bought(r)
        BY <2>1, <2>2 DEF Bought
      <3> QED BY <1>1, <3>1, <3>2, BuyingIsNat, RoomStays
    <2>3. CASE r = s
      <3>1. Buying(s)' = Buying(s) \cup {w} /\ w \notin Buying(s)
        BY DEF Buying, Window
      <3>2. Cardinality(Buying(s)') = Cardinality(Buying(s)) + 1
        BY <3>1, BuyingIsNat, FS_AddElement
      <3>3. PICK n \in Nat, total \in Nat, at \in Nat :
               n = Cardinality(Buying(s)) /\ total = Total(s, "extend") /\ at = scrims[s].at
        BY <2>1, <2>3, BuyingIsNat DEF Facts, Typed, ScrimRows
      <3>4. /\ ExtensionTime \in Nat /\ CreditTime \in Nat
            /\ ExtensionTime * n \in Nat /\ ExtensionTime * total \in Nat
            /\ ExtensionTime * (n + 1) = ExtensionTime * n + ExtensionTime
            /\ ExtensionTime * (total + 1) = ExtensionTime * total + ExtensionTime
        BY ScrimServersAssumption, Times
      <3>5. ends + ExtensionTime * n <= at + CreditTime + ExtensionTime * total
        BY <1>1, <2>3, <3>3 DEF Paid, Bought
      <3>6. ends + ExtensionTime * (n + 1) <= at + CreditTime + ExtensionTime * (total + 1)
        BY <3>4, <3>5
      <3>7. Bought(s)' = at + CreditTime + ExtensionTime * (total + 1)
        BY <2>1, <2>3, <3>3 DEF Bought
      <3> QED BY <2>3, <3>2, <3>3, <3>6, <3>7 DEF Paid
    <2> QED BY <2>2, <2>3
  <1>2. ASSUME NEW r \in Scrims, Exists(r)' PROVE Paid(r, servers[r].ends)'
    <2>1. PICK ends \in Nat : ends = servers[r].ends /\ Exists(r)
      BY <1>2, ServerIsKnown DEF Exists
    <2>2. Paid(r, ends)'
      BY <1>1, <2>1 DEF Windows
    <2> QED BY <2>1, <2>2 DEF Paid
  <1>3. ASSUME NEW v \in Workers, worker'[v].pc = "write_window"
        PROVE  Paid(worker[v].scrim, worker[v].ends)'
    <2>1. v # w /\ worker'[v] = worker[v]
      BY <1>3
    <2>2. PICK r \in Scrims, ends \in Nat : r = worker[v].scrim /\ ends = worker[v].ends
      BY <1>3, <2>1, AtAWindow DEF Window
    <2>3. Paid(r, ends)'
      BY <1>1, <1>3, <2>1, <2>2 DEF Windows
    <2> QED BY <2>1, <2>2, <2>3 DEF Paid
  <1> QED BY <1>2, <1>3 DEF Windows

LEMMA ReadingKeepsWindows ==
  ASSUME Facts, Facts', Windows, UNCHANGED <<scrims, servers, ledger>>,
         NEW w \in Workers, NEW s \in Scrims, Exists(s),
         worker[w].pc = "read_window", worker[w].scrim = s,
         worker'[w].pc = "write_window", worker'[w].scrim = s,
         worker'[w].ends = servers[s].ends,
         \A v \in Workers \ {w} : worker'[v] = worker[v]
  PROVE  Windows'
  <1>1. ASSUME NEW r \in Scrims, NEW ends \in Nat, Paid(r, ends) PROVE Paid(r, ends)'
    <2>1. Buying(r)' = Buying(r)
      BY DEF Buying, Window
    <2>2. Bought(r)' = Bought(r)
      BY DEF Bought, Total
    <2> QED BY <1>1, <2>1, <2>2, BuyingIsNat, RoomStays
  <1>2. ASSUME NEW r \in Scrims, Exists(r) PROVE Paid(r, servers[r].ends)'
    <2>1. PICK ends \in Nat : ends = servers[r].ends
      BY <1>2, ServerIsKnown
    <2>2. Paid(r, ends)'
      BY <1>1, <1>2, <2>1 DEF Windows
    <2> QED BY <2>1, <2>2 DEF Paid
  <1>3. ASSUME NEW v \in Workers, worker'[v].pc = "write_window"
        PROVE  Paid(worker[v].scrim, worker[v].ends)'
    <2>1. CASE v = w
      BY <1>2, <2>1 DEF Paid
    <2>2. CASE v # w
      <3>1. worker'[v] = worker[v]
        BY <2>2
      <3>2. PICK r \in Scrims, ends \in Nat : r = worker[v].scrim /\ ends = worker[v].ends
        BY <1>3, <3>1, AtAWindow DEF Window
      <3>3. Paid(r, ends)'
        BY <1>1, <1>3, <3>1, <3>2 DEF Windows
      <3> QED BY <3>1, <3>2, <3>3 DEF Paid
    <2> QED BY <2>1, <2>2
  <1> QED BY <1>2, <1>3 DEF Windows, Exists

(* The window is moved by what was still to be moved. *)
LEMMA WritingKeepsWindows ==
  ASSUME Facts, Facts', Windows, UNCHANGED <<scrims, ledger>>,
         NEW w \in Workers, NEW s \in Scrims, Exists(s),
         worker[w].pc = "write_window", worker[w].scrim = s,
         servers'[s].ends = worker[w].ends + ExtensionTime,
         \A r \in Scrims \ {s} : servers'[r] = servers[r],
         worker'[w].pc \notin Window,
         \A v \in Workers \ {w} : worker'[v] = worker[v]
  PROVE  Windows'
  <1>1. /\ Buying(s)' = Buying(s) \ {w} /\ w \in Buying(s)
        /\ \A r \in Scrims \ {s} : Buying(r)' = Buying(r)
        /\ \A r \in Scrims : Bought(r)' = Bought(r)
    BY DEF Buying, Window, Bought, Total
  <1>2. Cardinality(Buying(s)') = Cardinality(Buying(s)) - 1
    <2>1. IsFiniteSet(Buying(s)) /\ w \in Buying(s)
      BY <1>1, BuyingIsNat
    <2>2. Cardinality(Buying(s) \ {w}) = Cardinality(Buying(s)) - 1
      BY <2>1, FS_RemoveElement
    <2> QED BY <1>1, <2>2
  <1>3. ASSUME NEW r \in Scrims, NEW ends \in Nat, Paid(r, ends) PROVE Paid(r, ends)'
    <2>1. Cardinality(Buying(r)') <= Cardinality(Buying(r))
      BY <1>1, <1>2, BuyingIsNat
    <2> QED BY <1>1, <1>3, <2>1, RoomStays
  <1>4. Paid(s, servers[s].ends)'
    <2>1. PICK ends \in Nat : ends = worker[w].ends
      BY AtAWindow DEF Window
    <2>2. Paid(s, ends)
      BY <2>1 DEF Windows
    <2>3. PICK n \in Nat : Cardinality(Buying(s)) = n + 1
      <3>1. Cardinality(Buying(s)') \in Nat
        BY BuyingIsNat
      <3>2. Cardinality(Buying(s)) = Cardinality(Buying(s)') + 1
        BY <1>2, <3>1, BuyingIsNat
      <3> QED BY <3>1, <3>2
    <2>4. Cardinality(Buying(s)') = n
      BY <1>2, <2>3
    <2>5. PICK bought \in Nat : bought = Bought(s)
      BY BoughtIsNat
    <2>6. /\ ExtensionTime \in Nat /\ ExtensionTime * n \in Nat
          /\ ExtensionTime * (n + 1) = ExtensionTime * n + ExtensionTime
      BY ScrimServersAssumption, Times
    <2>7. ends + ExtensionTime * (n + 1) <= bought
      BY <2>2, <2>3, <2>5 DEF Paid
    <2>8. (ends + ExtensionTime) + ExtensionTime * n <= bought
      BY <2>6, <2>7
    <2>9. Bought(s)' = bought /\ servers'[s].ends = ends + ExtensionTime
      BY <1>1, <2>1, <2>5
    <2> QED BY <2>4, <2>8, <2>9 DEF Paid
  <1>5. ASSUME NEW r \in Scrims, Exists(r)' PROVE Paid(r, servers[r].ends)'
    <2>1. CASE r = s
      BY <1>4, <2>1
    <2>2. CASE r # s
      <3>1. Exists(r) /\ servers'[r] = servers[r]
        BY <1>5, <2>2 DEF Exists
      <3>2. PICK ends \in Nat : ends = servers[r].ends
        BY <3>1, ServerIsKnown
      <3>3. Paid(r, ends)'
        BY <1>3, <3>1, <3>2 DEF Windows
      <3> QED BY <3>1, <3>2, <3>3 DEF Paid
    <2> QED BY <2>1, <2>2
  <1>6. ASSUME NEW v \in Workers, worker'[v].pc = "write_window"
        PROVE  Paid(worker[v].scrim, worker[v].ends)'
    <2>1. worker'[v] = worker[v]
      BY <1>6 DEF Window
    <2>2. PICK r \in Scrims, ends \in Nat : r = worker[v].scrim /\ ends = worker[v].ends
      BY <1>6, <2>1, AtAWindow DEF Window
    <2>3. Paid(r, ends)'
      BY <1>3, <1>6, <2>1, <2>2 DEF Windows
    <2> QED BY <2>1, <2>2, <2>3 DEF Paid
  <1> QED BY <1>5, <1>6 DEF Windows

LEMMA InitWindows == InitServers => Windows
  BY DEF InitServers, Init, Windows, Exists, NoServer, Resting

LEMMA StepKeepsWindows ==
  ASSUME Facts, GraceInv, Windows, [NextServers]_allVars
  PROVE  Windows'
  <1>0. Facts' /\ Stay
    BY StepIsQuietOrBooks
  <1>1. CASE Quiet
    <2>1. \A s \in Scrims :
            /\ Total(s, "extend")' = Total(s, "extend")
            /\ Exists(s) => servers'[s].ends = servers[s].ends
            /\ ~Exists(s) /\ Exists(s)' => servers'[s].ends = scrims'[s].at + CreditTime
      BY <1>1 DEF Quiet, Total
    <2>2. NoneComes
      BY <1>1 DEF Quiet, NoneComes
    <2> QED BY <1>0, <2>1, <2>2, WindowsStay
  <1>2. ASSUME NEW w \in Workers, Attach(w) PROVE Windows'
    <2>1. NoneComes /\ UNCHANGED scrims
      BY <1>2, Attaches
    <2>2. PICK t \in Teams, s \in Scrims :
             /\ ~Exists(s) /\ Entry(t, s, "reserve")
             /\ servers'[s].ends = scrims[s].at + CreditTime
             /\ \A r \in Scrims \ {s} : servers'[r] = servers[r]
      BY <1>2, Attaches
    <2>3. \A r \in Scrims : Total(r, "extend")' = Total(r, "extend")
      BY <2>2, TotalMoves DEF Facts, Typed, Kinds
    <2>4. \A r \in Scrims :
            /\ Exists(r) => servers'[r].ends = servers[r].ends
            /\ ~Exists(r) /\ Exists(r)' => servers'[r].ends = scrims'[r].at + CreditTime
      BY <2>1, <2>2 DEF Exists
    <2> QED BY <1>0, <2>1, <2>3, <2>4, WindowsStay
  <1>3. ASSUME NEW w \in Workers, Refund(w) PROVE Windows'
    <2>1. NoneComes /\ UNCHANGED <<scrims, servers>>
      BY <1>3, Refunds
    <2>2. PICK t \in Teams, s \in Scrims : Entry(t, s, "release")
      BY <1>3, Refunds
    <2>3. \A r \in Scrims : Total(r, "extend")' = Total(r, "extend")
      BY <2>2, TotalMoves DEF Facts, Typed, Kinds
    <2>4. \A r \in Scrims :
            /\ Exists(r) => servers'[r].ends = servers[r].ends
            /\ ~Exists(r) /\ Exists(r)' => servers'[r].ends = scrims'[r].at + CreditTime
      BY <2>1 DEF Exists
    <2> QED BY <1>0, <2>1, <2>3, <2>4, WindowsStay
  <1>4. ASSUME NEW w \in Workers, Spend(w), ~Quiet PROVE Windows'
    BY <1>0, <1>4, Spends, SpendingKeepsWindows
  <1>5. ASSUME NEW w \in Workers, ReadWindow(w) PROVE Windows'
    BY <1>0, <1>5, ReadsWindow, ReadingKeepsWindows
  <1>6. ASSUME NEW w \in Workers, WriteWindow(w) PROVE Windows'
    BY <1>0, <1>6, WritesWindow, WritingKeepsWindows
  <1> QED BY <1>1, <1>2, <1>3, <1>4, <1>5, <1>6, StepIsQuietOrBooks DEF Transacts

(* What a request has found when it began is there when it writes, however *)
(* requests and runs overlap and die: rows of scrims and servers are never *)
(* deleted, and neither a server's owner nor a scrim's start is rewritten  *)
(* (app/scrims.py, app/servers_store.py).                                  *)
THEOREM FactsHold == SpecServers => []Facts
  <1>1. Facts /\ GraceInv /\ [NextServers]_allVars => Facts'
    BY StepIsQuietOrBooks
  <1> QED BY <1>1, InitFacts, GraceInvariance, PTL DEF SpecServers

(* Nobody plays on time nobody paid for: a window never ends later than    *)
(* the credits booked for its server reach (routes/servers.py extend:      *)
(* credits.spend_extension, then servers_store.extend_window), though two  *)
(* extensions may read the same end and write it, and a worker may die     *)
(* between the spending and the writing.                                   *)
THEOREM EveryWindowIsPaid == SpecServers => []NoFreeTime
  <1>1. Facts /\ GraceInv /\ Windows /\ [NextServers]_allVars => Windows'
    BY StepKeepsWindows
  <1>2. Facts /\ Windows => NoFreeTime
    <2> SUFFICES ASSUME Facts, Windows, NEW s \in Scrims, servers[s] # NoServer
                 PROVE  servers[s].ends <= Bought(s)
      BY DEF NoFreeTime, Bought
    <2>1. Exists(s)
      BY DEF Facts, Standing
    <2>2. PICK ends \in Nat : ends = servers[s].ends
      BY <2>1, ServerIsKnown
    <2>3. PICK n \in Nat : n = Cardinality(Buying(s))
      BY BuyingIsNat
    <2>4. ExtensionTime * n \in Nat /\ Bought(s) \in Nat
      BY <2>3, BoughtIsNat, Times, ScrimServersAssumption
    <2>5. ends + ExtensionTime * n <= Bought(s)
      BY <2>1, <2>2, <2>3 DEF Windows, Paid
    <2>6. ends <= Bought(s)
      BY <2>4, <2>5
    <2> QED BY <2>2, <2>6
  <1> QED BY <1>1, <1>2, InitWindows, FactsHold, GraceInvariance, PTL DEF SpecServers

-----------------------------------------------------------------------------
(* The promise                                                             *)

Owners == [s \in Scrims |-> servers[s].owner]
Balances == [t \in Teams |-> Available(t)]

LEMMA InitIsPromised == InitServers => Promise!Init
  <1> SUFFICES ASSUME InitServers PROVE Promise!Init
    OBVIOUS
  <1>1. ASSUME NEW t \in Teams PROVE Available(t) = Opening[t]
    <2> DEFINE f == [s \in Scrims |-> ledger[t][s]["release"] - ledger[t][s]["reserve"]
                                        - ledger[t][s]["extend"]]
    <2>1. Available(t) = Opening[t] + SumFunctionOnSet(f, Scrims)
      BY DEF Available, SumFunction
    <2>2. \A s \in Scrims : f[s] = 0
      BY DEF InitServers, Kinds
    <2> HIDE DEF f
    <2>3. SumFunctionOnSet(f, Scrims) = 0
      BY <2>2, SumOfZeros, ScrimsAssumption
    <2>4. Opening[t] \in Nat
      BY ScrimServersAssumption
    <2> QED BY <2>1, <2>3, <2>4
  <1>2. [t \in Teams |-> Available(t)] = Opening
    BY <1>1, ScrimServersAssumption
  <1>3. [s \in Scrims |-> servers[s].owner] = [s \in Scrims |-> NoTeam]
    BY DEF InitServers, NoServer
  <1> QED BY <1>2, <1>3 DEF Promise!Init

(* What an entry does to the balances, as the promise has it. *)
LEMMA BalancesMove ==
  ASSUME Facts, NEW t \in Teams, NEW s \in Scrims, NEW kind \in Kinds, Entry(t, s, kind)
  PROVE  /\ Balances[t] = Available(t)
         /\ kind = "release" => Balances' = [Balances EXCEPT ![t] = @ + 1]
         /\ kind # "release" => Balances' = [Balances EXCEPT ![t] = @ - 1]
  <1>1. ASSUME NEW u \in Teams
        PROVE  /\ Available(u) \in Int
               /\ Available(u)' = Available(u) + (IF u = t THEN IF kind = "release" THEN 1
                                                                ELSE -1
                                                  ELSE 0)
    BY BalanceMoves DEF Facts, Typed
  <1>2. Balances' = [u \in Teams |-> Available(u)']
    BY DEF Balances
  <1>3. Balances = [u \in Teams |-> Available(u)]
    BY DEF Balances
  <1>4. CASE kind = "release"
    <2>1. \A u \in Teams : Available(u)' = IF u = t THEN Available(u) + 1 ELSE Available(u)
      BY <1>1, <1>4
    <2> QED BY <1>2, <1>3, <1>4, <2>1
  <1>5. CASE kind # "release"
    <2>1. \A u \in Teams : Available(u)' = IF u = t THEN Available(u) - 1 ELSE Available(u)
      BY <1>1, <1>5
    <2> QED BY <1>2, <1>3, <1>5, <2>1
  <1> QED BY <1>3, <1>4, <1>5

LEMMA StepIsPromised ==
  ASSUME Facts, GraceInv, [NextServers]_allVars
  PROVE  [Promise!Next]_(Promise!vars)
  <1>0. Facts'
    BY StepIsQuietOrBooks
  <1>1. CASE UNCHANGED ledger /\ \A s \in Scrims : servers'[s].owner = servers[s].owner
    BY <1>1 DEF Promise!vars, Available
  <1>2. ASSUME NEW w \in Workers, Attach(w) PROVE Promise!Next
    <2>1. PICK t \in Teams, s \in Scrims :
             /\ ~Exists(s) /\ Available(t) >= 1 /\ Entry(t, s, "reserve")
             /\ servers'[s].owner = t
             /\ \A r \in Scrims \ {s} : servers'[r] = servers[r]
      BY <1>2, Attaches
    <2>2. servers[s].owner = NoTeam
      BY <2>1 DEF Facts, Standing, NoServer
    <2>3. Owners' = [Owners EXCEPT ![s] = t] /\ Owners[s] = NoTeam
      BY <2>1, <2>2 DEF Owners
    <2>4. Balances[t] >= 1 /\ Balances' = [Balances EXCEPT ![t] = @ - 1]
      BY <2>1, BalancesMove DEF Kinds
    <2>5. Promise!Reserve(t, s)
      BY <2>3, <2>4 DEF Promise!Reserve, Owners, Balances
    <2> QED BY <2>5 DEF Promise!Next
  <1>3. ASSUME NEW w \in Workers, Refund(w) PROVE Promise!Next
    <2>1. PICK t \in Teams, s \in Scrims : servers[s].owner = t /\ Entry(t, s, "release")
      BY <1>3, Refunds
    <2>2. UNCHANGED Owners /\ Owners[s] = t
      BY <1>3, <2>1, Refunds DEF Owners
    <2>3. Balances' = [Balances EXCEPT ![t] = @ + 1]
      BY <2>1, BalancesMove DEF Kinds
    <2>4. Promise!Release(t)
      BY <2>2, <2>3 DEF Promise!Release, Owners, Balances
    <2> QED BY <2>4 DEF Promise!Next
  <1>4. ASSUME NEW w \in Workers, Spend(w), ~Quiet PROVE Promise!Next
    <2>1. PICK t \in Teams, s \in Scrims :
             Exists(s) /\ Available(t) >= 1 /\ Entry(t, s, "extend")
      BY <1>4, Spends
    <2>2. UNCHANGED Owners /\ Owners[s] # NoTeam
      BY <1>4, <2>1, Spends, ScrimsAssumption DEF Owners, Facts, Standing
    <2>3. Balances[t] >= 1 /\ Balances' = [Balances EXCEPT ![t] = @ - 1]
      BY <2>1, BalancesMove DEF Kinds
    <2>4. Promise!Extend(t)
      BY <2>2, <2>3 DEF Promise!Extend, Owners, Balances
    <2> QED BY <2>4 DEF Promise!Next
  <1>5. ASSUME NEW w \in Workers, ReadWindow(w) \/ WriteWindow(w)
        PROVE  UNCHANGED ledger /\ \A s \in Scrims : servers'[s].owner = servers[s].owner
    BY <1>5, ReadsWindow, WritesWindow
  <1>6. CASE Quiet
    BY <1>1, <1>6 DEF Quiet
  <1> QED BY <1>1, <1>2, <1>3, <1>4, <1>5, <1>6, StepIsQuietOrBooks DEF Transacts

(* All that requests and runs do to credits and to who owns a server is    *)
(* what the abstract ledger allows, the one app/credits.py is shown to     *)
(* implement statement by statement: ScrimServers implements Entitlements. *)
THEOREM PromiseIsUsed == SpecServers => UsesThePromise
  <1>1. Facts /\ GraceInv /\ [NextServers]_allVars => [Promise!Next]_(Promise!vars)
    BY StepIsPromised
  <1> QED BY <1>1, InitIsPromised, FactsHold, GraceInvariance, PTL
          DEF SpecServers, UsesThePromise, Promise!Spec

=============================================================================
