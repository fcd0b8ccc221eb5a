--------------------------- MODULE DocumentStore ---------------------------
(***************************************************************************)
(* What the document endpoints promise a user, with the files, the         *)
(* sidecars, the vectors and the handlers' steps left out: an upload is    *)
(* accepted once, settles at most once as ready or failed, may be filed    *)
(* under one of its owner's courses while it exists, and once removed      *)
(* never comes back.                                                       *)
(***************************************************************************)
CONSTANTS Docs, Courses, Owner, NoCourse

VARIABLES phase, link, catalog

vars == <<phase, link, catalog>>

Live(d) == phase[d] \in {"pending", "ready", "failed"}

Init ==
    /\ phase = [d \in Docs |-> "unborn"]
    /\ link = [d \in Docs |-> NoCourse]
    /\ catalog = [c \in Courses |-> "unborn"]

Accept(d) ==
    /\ phase[d] = "unborn"
    /\ phase' = [phase EXCEPT ![d] = "pending"]
    /\ UNCHANGED <<link, catalog>>

Settle(d) ==
    /\ phase[d] = "pending"
    /\ \E p \in {"ready", "failed"} : phase' = [phase EXCEPT ![d] = p]
    /\ UNCHANGED <<link, catalog>>

Remove(d) ==
    /\ Live(d)
    /\ phase' = [phase EXCEPT ![d] = "deleted"]
    /\ link' = [link EXCEPT ![d] = NoCourse]
    /\ UNCHANGED catalog

File(d, c) ==
    /\ Live(d)
    /\ catalog[c] = "live" /\ Owner[c] = Owner[d]
    /\ link' = [link EXCEPT ![d] = c]
    /\ UNCHANGED <<phase, catalog>>

Unfile(d) ==
    /\ Live(d)
    /\ link' = [link EXCEPT ![d] = NoCourse]
    /\ UNCHANGED <<phase, catalog>>

Open(c) ==
    /\ catalog[c] = "unborn"
    /\ catalog' = [catalog EXCEPT ![c] = "live"]
    /\ UNCHANGED <<phase, link>>

\* Closing a course unfiles its documents.  It may also unfile documents of the
\* same owner that were moved out of it while it was being closed.
Close(c) ==
    /\ catalog[c] # "unborn"
    /\ catalog' = [catalog EXCEPT ![c] = "deleted"]
    /\ \E S \in SUBSET {d \in Docs : Owner[d] = Owner[c]} :
          link' = [d \in Docs |-> IF d \in S \/ link[d] = c THEN NoCourse ELSE link[d]]
    /\ UNCHANGED phase

Next ==
    \/ \E d \in Docs :
          Accept(d) \/ Settle(d) \/ Remove(d) \/ Unfile(d) \/ \E c \in Courses : File(d, c)
    \/ \E c \in Courses : Open(c) \/ Close(c)

Spec == Init /\ [][Next]_vars
=============================================================================
