---------------------------- MODULE MCSignIn ----------------------------
(* SignIn for TLC: two spellings of one address, and another address. *)
EXTENDS SignIn, TLC

CONSTANTS ann, Ann, bob, p1, p2, t1, t2, k1, k2, k3

SpelledTwice == (ann :> ann) @@ (Ann :> ann) @@ (bob :> bob)

Symmetry == Permutations(Tabs) \cup Permutations(Calls) \cup Permutations(Passwords)
=============================================================================
