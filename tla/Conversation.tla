---------------------------- MODULE Conversation ----------------------------
(***************************************************************************)
(* What the chat endpoints promise a user, with transactions, locks and    *)
(* the language model left out: a question and its answer enter the        *)
(* conversation together, at most once, citing documents that exist; they  *)
(* leave it only together, with the conversation; a citation disappears    *)
(* only with the cited document.                                           *)
(***************************************************************************)
CONSTANTS Docs, Sessions, Turns, Owner

VARIABLES
    doc,        \* per document: "unborn", "live" or "deleted"
    session,    \* the same per conversation
    turn,       \* per question: "none", "lost", "gone", or its conversation
    cites       \* per question: the documents its answer cites

vars == <<doc, session, turn, cites>>

LiveDocs == {d \in Docs : doc[d] = "live"}

Init ==
    /\ doc = [d \in Docs |-> "unborn"]
    /\ session = [s \in Sessions |-> "unborn"]
    /\ turn = [t \in Turns |-> "none"]
    /\ cites = [t \in Turns |-> {}]

AddDocument(d) ==
    /\ doc[d] = "unborn"
    /\ doc' = [doc EXCEPT ![d] = "live"]
    /\ UNCHANGED <<session, turn, cites>>

Open(s) ==
    /\ session[s] = "unborn"
    /\ session' = [session EXCEPT ![s] = "live"]
    /\ UNCHANGED <<doc, turn, cites>>

Answer(t, s) ==
    /\ turn[t] = "none"
    /\ session[s] = "live"
    /\ turn' = [turn EXCEPT ![t] = s]
    /\ \E D \in SUBSET {d \in LiveDocs : Owner[d] = Owner[s]} :
          cites' = [cites EXCEPT ![t] = D]
    /\ UNCHANGED <<doc, session>>

\* Questions that get no answer, and leave no trace.
Lose(T) ==
    /\ \A t \in T : turn[t] = "none"
    /\ turn' = [t \in Turns |-> IF t \in T THEN "lost" ELSE turn[t]]
    /\ UNCHANGED <<doc, session, cites>>

\* The conversations in S and their turns disappear.
End(S) ==
    /\ session' = [s \in Sessions |-> IF s \in S THEN "deleted" ELSE session[s]]
    /\ turn' = [t \in Turns |-> IF turn[t] \in S THEN "gone" ELSE turn[t]]

Close(s) ==
    /\ session[s] = "live"
    /\ End({s})
    /\ cites' = [t \in Turns |-> IF turn[t] = s THEN {} ELSE cites[t]]
    /\ UNCHANGED doc

\* A document takes with it the citations of it, and the owner's conversations
\* that are about it.
RemoveDocument(d) ==
    /\ doc[d] = "live"
    /\ doc' = [doc EXCEPT ![d] = "deleted"]
    /\ \E S \in SUBSET {s \in Sessions : session[s] = "live" /\ Owner[s] = Owner[d]} :
          /\ End(S)
          /\ cites' = [t \in Turns |-> IF turn[t] \in S THEN {} ELSE cites[t] \ {d}]

Next ==
    \/ \E d \in Docs : AddDocument(d) \/ RemoveDocument(d)
    \/ \E s \in Sessions : Open(s) \/ Close(s)
    \/ \E t \in Turns, s \in Sessions : Answer(t, s)
    \/ \E T \in SUBSET Turns : Lose(T)

Spec == Init /\ [][Next]_vars
=============================================================================
