--------------------------- MODULE DirectoryProof ---------------------------
(***************************************************************************)
(* A proof about Directory, for any number of visits and refreshes that    *)
(* overlap in any way: an entry is written by two statements only, and     *)
(* whatever their transactions read and when, neither makes a settled      *)
(* team pending.  SaveSeason may commit a list fetched long ago, yet looks *)
(* at the entry as it is when it writes; SaveTeams writes what it holds    *)
(* locked, and nothing but settled entries.                                *)
(***************************************************************************)
EXTENDS Directory, TLAPS

EntriesOK == entry \in [Teams -> Entries]

(* Steps of a request that leave the store as it is. *)
Silent(r) ==
    \/ Visit(r) \/ FetchSeason(r) \/ ReadFormat(r) \/ Select(r) \/ Unavailable(r)
    \/ Answer(r) \/ Write(r) \/ TeamUnnamed(r) \/ SaveLink(r) \/ Lose(r)
    \/ \E t \in Teams : Refresh(r, t)

LEMMA OtherStepsKeepEntries ==
  ASSUME NEW r \in Requests, Silent(r)
  PROVE  UNCHANGED entry
  BY DEF Silent, Visit, FetchSeason, ReadFormat, Select, Unavailable, Answer, Write,
         TeamFound, TeamGone, TeamUnnamed, SaveLink, Lose, Refresh, Cache

LEMMA StepKeeps ==
  ASSUME EntriesOK, [Next]_vars
  PROVE  /\ EntriesOK'
         /\ \A t \in Teams : entry[t] \in Settled => entry'[t] \in Settled
  <1>1. CASE UNCHANGED entry
    BY <1>1 DEF EntriesOK
  <1>2. ASSUME NEW r \in Requests, SaveSeason(r)
        PROVE  /\ EntriesOK'
               /\ \A t \in Teams : entry[t] \in Settled => entry'[t] \in Settled
    <2>1. entry' = [t \in Teams |->
                      IF t \in req[r].todo /\ entry[t] = "absent" THEN "pending"
                      ELSE entry[t]]
      BY <1>2 DEF SaveSeason
    <2> QED BY <2>1 DEF EntriesOK, Entries, Settled
  <1>3. ASSUME NEW r \in Requests, SaveTeams(r)
        PROVE  /\ EntriesOK'
               /\ \A t \in Teams : entry[t] \in Settled => entry'[t] \in Settled
    <2>1. entry' = [t \in Teams |->
                      IF t \in req[r].found THEN "listed"
                      ELSE IF t \in req[r].gone THEN "dead" ELSE entry[t]]
      BY <1>3 DEF SaveTeams
    <2> QED BY <2>1 DEF EntriesOK, Entries, Settled
  <1>4. \/ UNCHANGED entry
        \/ \E r \in Requests : SaveSeason(r) \/ SaveTeams(r)
    <2>1. CASE UNCHANGED vars
      BY <2>1 DEF vars
    <2>2. CASE Expire
      BY <2>2 DEF Expire
    <2>3. CASE \E r \in Requests : Silent(r)
      BY <2>3, OtherStepsKeepEntries
    <2> QED BY <2>1, <2>2, <2>3 DEF Next, Statement, Silent
  <1> QED BY <1>1, <1>2, <1>3, <1>4

(* What RGL has said of a team is never forgotten, however late a          *)
(* season's refresh commits the list it fetched.                           *)
THEOREM SettledForGood == Spec => NeverPendingAgain
  <1>1. Init => EntriesOK
    BY DEF Init, EntriesOK, Entries
  <1>2. EntriesOK /\ [Next]_vars => EntriesOK'
    BY StepKeeps
  <1>3. EntriesOK /\ [Next]_vars =>
           [\A t \in Teams : entry[t] \in Settled => entry'[t] \in Settled]_vars
    BY StepKeeps
  <1> QED BY <1>1, <1>2, <1>3, PTL DEF Spec, NeverPendingAgain

=============================================================================
