------------------------ MODULE MCDocumentLifecycle ------------------------
EXTENDS DocumentLifecycle, TLC

CONSTANTS d1, d2, c1, c2, c3, u1, u2, r1, r2, r3

\* One user's document and courses, and a course of somebody else.
OwnerOneDoc == (d1 :> u1) @@ (c1 :> u1) @@ (c2 :> u1) @@ (c3 :> u2)

RequestSymmetry == Permutations(Requests)
=============================================================================
