------------------------- MODULE MCMembershipRecalc -------------------------
(* Instances of MembershipRecalc for TLC. *)
EXTENDS MembershipRecalc, TLC

CONSTANTS u1, u2, t1, t2, t3, p1, e1

byOne == p1 :> u1
worth == p1 :> 10
part == p1 :> 4
wishes == {[lvl |-> t2, st |-> Absent], [lvl |-> Absent, st |-> "stop"]}
prices == t1 :> {} @@ t2 :> {6} @@ t3 :> {6}
ladder == t1 :> 0 @@ t2 :> 8 @@ t3 :> Absent
mcEdits == [edit |-> 1, recalculation |-> 1]
=============================================================================
