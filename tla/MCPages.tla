------------------------------ MODULE MCPages ------------------------------
(* Pages.tla for TLC. *)
EXTENDS Pages, TLC

CONSTANTS a, b, d, e, n1, n2, k1, k2, k3

\* Which ids the first rows have makes no difference: this leaves to the symmetry only
\* the slots of the calls, whose permutations are few.
FirstInit == Init /\ courses[a] = n1 /\ docs[d] = a
FirstRows == FirstInit /\ [][Next]_vars

Symmetry == Permutations({k1, k2, k3})

\* No guard and no property but TypeOK reads the error messages on screen.
Apparent == <<server, at, going, [ui EXCEPT !.errors = {}], calls, clicks, doubt>>

=============================================================================
