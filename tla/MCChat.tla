------------------------------- MODULE MCChat -------------------------------
(* An instance of Chat for TLC. *)
EXTENDS Chat, TLC

CONSTANTS u1, u2, u3, s1, s2, s3, r1, r2

mcOwner == s1 :> u2 @@ s2 :> u2 @@ s3 :> u3

\* A room that waits; a room in which u1 and u2 have written in one moment and two
\* sockets of u2 are.
mcStart ==
    LET none == [r \in Room |-> NoRoom]
        never == [r \in Room |-> Absent]
        nobody == [r \in Room |-> {}]
    IN
    UNION {{[rows |-> [none EXCEPT ![r] = Row(u1, Absent)], last |-> never, messages |-> {},
             joined |-> nobody],
            [rows |-> [none EXCEPT ![r] = Row(u1, u2)], last |-> [never EXCEPT ![r] = 1],
             messages |-> {Message(r, 1, 1, u1), Message(r, 3, 1, u2)},
             joined |-> [nobody EXCEPT ![r] = {s1, s2}]]} : r \in Room}

chatSymmetry == Permutations(Room) \cup Permutations({s1, s2})
=============================================================================
