----------------------------- MODULE MCChatTurn -----------------------------
(* ChatTurn for TLC. *)
EXTENDS ChatTurn, TLC

CONSTANTS d1, d2, s1, s2, t1, t2, u1

\* Users meet nowhere: everything belongs to one of them.
OneOwner == [x \in Docs \cup Sessions |-> u1]
=============================================================================
