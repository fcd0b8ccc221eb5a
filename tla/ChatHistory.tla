---------------------------- MODULE ChatHistory ----------------------------
(***************************************************************************)
(* How much of a session's past the language model is shown: the bounded   *)
(* history of chat_service.py.  A message is its role, which text it is,   *)
(* its length without surrounding blanks, and the blanks before the place  *)
(* it would be cut at.                                                     *)
(***************************************************************************)
EXTENDS Lists, SequencesExt

CONSTANTS Roles,          \* who speaks
          MessageLimit,   \* messages read
          CharLimit,      \* characters of each
          TotalLimit,     \* characters of all
          Ellipsis        \* characters of the ellipsis

ASSUME LimitTypes ==
    /\ MessageLimit \in Nat /\ CharLimit \in Nat /\ TotalLimit \in Nat
    /\ Ellipsis \in 0..CharLimit

\* At most what is left before the ellipsis can be blank.
Message == [role : Roles, text : Nat, size : Nat, blanks : 0 .. (CharLimit - Ellipsis)]

ListRecent(messages) ==
    SubSeq(messages, Len(messages) - Min({MessageLimit, Len(messages)}) + 1, Len(messages))

\* A message that is too long is cut, stripped at its end, and gets the ellipsis.
Truncated(m) == IF m.size > CharLimit THEN CharLimit - m.blanks ELSE m.size

Total(turns) ==
    LET sum[i \in 0 .. Len(turns)] == IF i = 0 THEN 0 ELSE sum[i - 1] + turns[i].size
    IN sum[Len(turns)]

\* Mutation: the newest turns are dropped until the others fit.
DropNewest(turns) ==
    SubSeq(turns, 1, Max({i \in 0 .. Len(turns) : Total(SubSeq(turns, 1, i)) <= TotalLimit}))

\* The oldest turns are dropped until the rest fits.
DropOldest(turns) ==
    LET Rest(i) == SubSeq(turns, i, Len(turns))
    IN Rest(Min({i \in 1 .. (Len(turns) + 1) : Total(Rest(i)) <= TotalLimit}))

\* Blank messages are left out, the others cut and held to the limit of all.
Spoken(messages) ==
    LET recent == ListRecent(messages)
    IN Picked(recent, {i \in DOMAIN recent : recent[i].size > 0})

LoadHistory(messages) ==
    LET spoken == Spoken(messages)
    IN DropOldest([i \in DOMAIN spoken |-> [spoken[i] EXCEPT !.size = Truncated(spoken[i])]])
=============================================================================
