---------------------------- MODULE MCAttendance ----------------------------
(* Instances of Attendance for TLC: three teams, so that two can race to   *)
(* claim the third's listing; the players followed are all on that one, so *)
(* that one may mark for another.                                          *)
EXTENDS Attendance

CONSTANTS t1, p1, p2

MCHome == [p \in Players |-> t1]

=============================================================================
