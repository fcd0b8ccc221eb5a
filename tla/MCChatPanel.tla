---------------------------- MODULE MCChatPanel ----------------------------
(* ChatPanel for TLC. *)
EXTENDS ChatPanel, TLC

CONSTANTS s1, s2, s3, q1, q2, c1, c2, c3

Symmetry == Permutations(Sessions) \cup Permutations(Questions) \cup Permutations(Calls)
=============================================================================
