---------------------------- MODULE MCCourses ----------------------------
(* Courses for TLC: the first user owns every course, the second asks for them. *)
EXTENDS Courses, TLC

CONSTANTS c1, c2, c3, u1, u2, r1, r2, n1, n2, t1

OwnerOfAll == [c \in Courses |-> u1]

Symmetry == Permutations(Requests) \cup Permutations(Courses) \cup Permutations(Names)
=============================================================================
