---------------------------- MODULE CourseBook ----------------------------
(***************************************************************************)
(* What the course endpoints promise about the table, whatever requests    *)
(* run at the same time: a course is opened once, under a name its owner   *)
(* does not use; a change never takes a name that is in use; a course that *)
(* is gone stays gone.                                                     *)
(***************************************************************************)
CONSTANTS Courses, Owner, Row, Absent

VARIABLES book, opened

vars == <<book, opened>>

Init ==
    /\ book = [c \in Courses |-> Absent]
    /\ opened = {}

NameFree(c, n) ==
    \A o \in Courses \ {c} :
        Owner[o] = Owner[c] /\ book[o] # Absent => book[o]["name"] # n

Open(c) ==
    /\ c \notin opened
    /\ opened' = opened \cup {c}
    /\ \E v \in Row : NameFree(c, v["name"]) /\ book' = [book EXCEPT ![c] = v]

Change(c) ==
    /\ book[c] # Absent
    /\ \E v \in Row : NameFree(c, v["name"]) /\ book' = [book EXCEPT ![c] = v]
    /\ UNCHANGED opened

Remove(c) ==
    /\ book[c] # Absent
    /\ book' = [book EXCEPT ![c] = Absent]
    /\ UNCHANGED opened

Next == \E c \in Courses : Open(c) \/ Change(c) \/ Remove(c)

Spec == Init /\ [][Next]_vars
=============================================================================
