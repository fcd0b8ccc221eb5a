------------------------------ MODULE Courses ------------------------------
(***************************************************************************)
(* The course endpoints: create, list, read, PATCH and delete, of several  *)
(* requests at a time (course_service.py, course_repository.py,            *)
(* schemas/course.py, endpoints/courses.py).                               *)
(*                                                                         *)
(* Authentication loads the user with their courses, and the session keeps *)
(* those instances: a later SELECT finds out whether the row is there, but *)
(* answers with the instance that is already loaded.  What a request will  *)
(* read of them is its snapshot.  A transaction writes in one statement,   *)
(* so its last statement and the commit are one action.                    *)
(***************************************************************************)
CONSTANTS Courses,   \* ids, never reused
          Users,
          Owner,     \* course -> user
          Requests,  \* slots for requests in flight
          Names,
          Texts,     \* values of the optional columns
          Optional,  \* the optional columns, "code" and "description"
          None,      \* NULL in a column, omitted or null in a payload
          Blank,     \* white space in a payload
          Absent     \* no row

ASSUME OwnerType == Owner \in [Courses -> Users]
ASSUME NoneIsNoValue == None \notin Names \cup Texts /\ Blank \notin Names \cup Texts
ASSUME AbsentIsNoRow == Absent \notin [{"name"} \cup Optional -> Names \cup Texts \cup {None}]
ASSUME NameIsRequired == "name" \notin Optional

VARIABLES
    rows,    \* the committed table: course -> row or Absent
    used,    \* ids given out
    req,     \* the requests in flight
    answer,  \* what the last step answered
    past     \* history: the versions each course had since a request began

vars == <<rows, used, req, answer, past>>

Columns == {"name"} \cup Optional

Row == {v \in [Columns -> Names \cup Texts \cup {None}] :
            v["name"] \in Names /\ \A k \in Optional : v[k] \in Texts \cup {None}}

MaybeRow == Row \cup {Absent}

\* A payload the schema accepts; anything else is refused before the handler runs.
CreatePayload == {p \in [Columns -> Names \cup Texts \cup {None, Blank}] :
            p["name"] \in Names /\ \A k \in Optional : p[k] \in Texts \cup {None, Blank}}

PatchPayload == {p \in [Columns -> Names \cup Texts \cup {None, Blank}] :
            p["name"] \in Names \cup {None} /\ \A k \in Optional : p[k] \in Texts \cup {None, Blank}}

\* The validators trim; an optional text that is blank is taken as not given.
Normalize(p) == [k \in Columns |-> IF p[k] = Blank THEN None ELSE p[k]]

Payload == {p \in [Columns -> Names \cup Texts \cup {None}] :
            p["name"] \in Names \cup {None} /\ \A k \in Optional : p[k] \in Texts \cup {None}}

NoPayload == [k \in Columns |-> None]
NoRows == [c \in Courses |-> Absent]

Idle == [at |-> "idle"]
Silence == [to |-> {}, status |-> 0, body |-> NoRows]

Status == {0, 200, 201, 204, 404, 409, 500}

Request ==
    {Idle} \cup
    [at : {"create", "insert"}, user : Users, payload : Row] \cup
    [at : {"get", "delete", "remove"}, user : Users, course : Courses, seen : [Courses -> MaybeRow]] \cup
    [at : {"list"}, user : Users, seen : [Courses -> MaybeRow]] \cup
    [at : {"patch", "check", "write"}, user : Users, course : Courses, payload : Payload,
     seen : [Courses -> MaybeRow]]

TypeOK ==
    /\ rows \in [Courses -> MaybeRow]
    /\ used \subseteq Courses
    /\ req \in [Requests -> Request]
    /\ answer \in [to : SUBSET Requests, status : Status, body : [Courses -> MaybeRow]]
    /\ past \in [Requests -> [Courses -> SUBSET Row]]

Init ==
    /\ rows = NoRows
    /\ used = {}
    /\ req = [r \in Requests |-> Idle]
    /\ answer = Silence
    /\ past = [r \in Requests |-> [c \in Courses |-> {}]]

Mine(u) == {c \in Courses : Owner[c] = u}

\* A course of the owner has the name: the SELECT of the check and the unique
\* constraint ask the same of the table.
Taken(u, n, except) ==
    \E o \in Mine(u) \ except : rows[o] # Absent /\ rows[o]["name"] = n

\* Mutation: without the constraint nothing stops the loser of a race.
ConstraintRefusesNothing(u, n, except) == FALSE

\* uq_courses_owner_name
ConstraintRefuses(u, n, except) == Taken(u, n, except)

Only(C) == [c \in Courses |-> IF c \in C THEN rows[c] ELSE Absent]

Begin(r, q) ==
    /\ req[r] = Idle
    /\ req' = [req EXCEPT ![r] = q]
    /\ answer' = Silence
    /\ UNCHANGED <<rows, used>>

GoTo(r, q) ==
    /\ req' = [req EXCEPT ![r] = q]
    /\ answer' = Silence
    /\ UNCHANGED <<rows, used>>

Answer(r, status, body) ==
    /\ req' = [req EXCEPT ![r] = Idle]
    /\ answer' = [to |-> {r}, status |-> status, body |-> body]

Refuse(r, status) == Answer(r, status, NoRows) /\ UNCHANGED <<rows, used>>

Give(r, c, v) ==
    /\ Answer(r, 200, [NoRows EXCEPT ![c] = v])
    /\ UNCHANGED <<rows, used>>

-----------------------------------------------------------------------------
(* Create *)

CreateBegin(r) == \E u \in Users, p \in CreatePayload :
    Begin(r, [at |-> "create", user |-> u, payload |-> Normalize(p)])

CreateCheck(r) ==
    /\ req[r].at = "create"
    /\ LET taken == Taken(req[r].user, req[r].payload["name"], {}) IN
       \/ taken /\ Refuse(r, 409)
       \/ ~taken /\ GoTo(r, [req[r] EXCEPT !.at = "insert"])

\* The IntegrityError of the constraint is not caught: 500.
CreateInsert(r) ==
    /\ req[r].at = "insert"
    /\ LET v == req[r].payload
           refused == ConstraintRefuses(req[r].user, v["name"], {})
       IN  \/ refused /\ Refuse(r, 500)
           \/ /\ ~refused
              /\ \E c \in Mine(req[r].user) \ used :
                    /\ rows' = [rows EXCEPT ![c] = v]
                    /\ used' = used \cup {c}
                    /\ Answer(r, 201, [NoRows EXCEPT ![c] = v])

-----------------------------------------------------------------------------
(* Read *)

\* The instance a SELECT by id and owner yields: the loaded one, else the row.
Instance(r, c) == IF req[r].seen[c] # Absent THEN req[r].seen[c] ELSE rows[c]

\* The row is there and belongs to the caller.
Find(r) == rows[req[r].course] # Absent /\ Owner[req[r].course] = req[r].user

ReadBegin(r) == \E u \in Users :
    \/ Begin(r, [at |-> "list", user |-> u, seen |-> Only(Mine(u))])
    \/ \E c \in Courses :
          Begin(r, [at |-> "get", user |-> u, course |-> c, seen |-> Only(Mine(u) \cap {c})])

List(r) ==
    /\ req[r].at = "list"
    /\ Answer(r, 200, [c \in Courses |->
           IF Owner[c] = req[r].user /\ rows[c] # Absent THEN Instance(r, c) ELSE Absent])
    /\ UNCHANGED <<rows, used>>

Get(r) ==
    /\ req[r].at = "get"
    /\ \/ ~Find(r) /\ Refuse(r, 404)
       \/ Find(r) /\ Give(r, req[r].course, Instance(r, req[r].course))

-----------------------------------------------------------------------------
(* PATCH *)

PatchBegin(r) == \E u \in Users, c \in Courses, p \in PatchPayload :
    Begin(r, [at |-> "patch", user |-> u, course |-> c, payload |-> Normalize(p),
              seen |-> Only(Mine(u) \cap {c})])

\* A name that differs from the instance's is checked first; a payload that
\* names nothing is answered with the instance.
PatchFind(r) ==
    /\ req[r].at = "patch"
    /\ \/ ~Find(r) /\ Refuse(r, 404)
       \/ /\ Find(r)
          /\ LET c == req[r].course
                 v == Instance(r, c)
                 p == req[r].payload
             IN  IF p = NoPayload
                 THEN Give(r, c, v)
                 ELSE GoTo(r, [req[r] EXCEPT
                          !.at = IF p["name"] \in {None, v["name"]} THEN "write" ELSE "check",
                          !.seen = [NoRows EXCEPT ![c] = v]])

PatchCheck(r) ==
    /\ req[r].at = "check"
    /\ LET taken == Taken(req[r].user, req[r].payload["name"], {req[r].course}) IN
       \/ taken /\ Refuse(r, 409)
       \/ ~taken /\ GoTo(r, [req[r] EXCEPT !.at = "write"])

\* Mutation: every column of the instance is written back.
WriteOver(r, v) == [k \in Columns |->
    IF req[r].payload[k] # None THEN req[r].payload[k] ELSE req[r].seen[req[r].course][k]]

\* The UPDATE names the columns whose value was given and differs from the
\* instance's; the others keep what the row has by now.
Write(r, v) == [k \in Columns |->
    IF req[r].payload[k] \notin {None, req[r].seen[req[r].course][k]}
    THEN req[r].payload[k] ELSE v[k]]

\* Mutation: the answer is the instance with the payload applied, not refreshed.
AnswerPatchStale(r, c, v) == [NoRows EXCEPT ![c] = WriteOver(r, v)]

\* After the flush the instance is refreshed, and answers.
AnswerPatch(r, c, v) == [NoRows EXCEPT ![c] = v]

\* Mutation: a merge, which inserts the row again when it has gone.
PatchWriteMerge(r) ==
    /\ req[r].at = "write"
    /\ LET c == req[r].course
           v == WriteOver(r, rows[c])
       IN  IF ConstraintRefuses(req[r].user, v["name"], {c})
           THEN Refuse(r, 500)
           ELSE /\ rows' = [rows EXCEPT ![c] = v]
                /\ Answer(r, 200, AnswerPatch(r, c, v))
                /\ UNCHANGED used

\* A row that has gone makes the UPDATE (StaleDataError) or the refresh fail, a
\* name taken since the check the constraint: 500 either way.
PatchWrite(r) ==
    /\ req[r].at = "write"
    /\ LET c == req[r].course
           v == Write(r, rows[c])
       IN  IF rows[c] = Absent \/ ConstraintRefuses(req[r].user, v["name"], {c})
           THEN Refuse(r, 500)
           ELSE /\ rows' = [rows EXCEPT ![c] = v]
                /\ Answer(r, 200, AnswerPatch(r, c, v))
                /\ UNCHANGED used

-----------------------------------------------------------------------------
(* Delete *)

DeleteBegin(r) == \E u \in Users, c \in Courses :
    Begin(r, [at |-> "delete", user |-> u, course |-> c, seen |-> NoRows])

DeleteFind(r) ==
    /\ req[r].at = "delete"
    /\ \/ ~Find(r) /\ Refuse(r, 404)
       \/ Find(r) /\ GoTo(r, [req[r] EXCEPT !.at = "remove"])

\* A DELETE that finds no row only warns.
DeleteRemove(r) ==
    /\ req[r].at = "remove"
    /\ rows' = [rows EXCEPT ![req[r].course] = Absent]
    /\ Answer(r, 204, NoRows)
    /\ UNCHANGED used

-----------------------------------------------------------------------------
Step(r) ==
    \/ CreateBegin(r) \/ CreateCheck(r) \/ CreateInsert(r)
    \/ ReadBegin(r) \/ List(r) \/ Get(r)
    \/ PatchBegin(r) \/ PatchFind(r) \/ PatchCheck(r) \/ PatchWrite(r)
    \/ DeleteBegin(r) \/ DeleteFind(r) \/ DeleteRemove(r)

Versions(t, c) == {t[c]} \ {Absent}

\* Only requests that may answer with a course need their history.
Remember ==
    past' = [r \in Requests |-> [c \in Courses |->
        IF req'[r].at \in {"idle", "create", "insert", "delete", "remove"} THEN {}
        ELSE past[r][c] \cup Versions(rows', c)]]

Next == (\E r \in Requests : Step(r)) /\ Remember

Spec == Init /\ [][Next]_vars

-----------------------------------------------------------------------------
(* An owner never has two courses of one name, although the check and the   *)
(* write of a request are two statements and others write in between.       *)
NamesUnique ==
    \A c, o \in Courses :
        c # o /\ Owner[c] = Owner[o] /\ rows[c] # Absent /\ rows[o] # Absent
        => rows[c]["name"] # rows[o]["name"]

(* No lost updates: a PATCH changes a column only to a value it was given   *)
(* for that column, so what another request wrote meanwhile into the other  *)
(* columns survives, although the PATCH holds an older copy of the row.     *)
OnlyAskedChanges ==
    [][\A c \in Courses, k \in Columns :
          rows[c] # Absent /\ rows'[c] # Absent /\ rows'[c][k] # rows[c][k]
          => \E r \in Requests :
                req[r].at = "write" /\ req[r].course = c /\ req[r].payload[k] = rows'[c][k]]_vars

(* Every course in an answer is the caller's, as it stood in the table at   *)
(* some moment of the request: snapshots may be old, never invented.        *)
AnswersWereTrue ==
    [][\A r \in answer'.to, c \in Courses :
          answer'.body[c] # Absent =>
            /\ Owner[c] = req[r].user
            /\ answer'.body[c] \in past[r][c] \cup Versions(rows', c)]_vars

Book == INSTANCE CourseBook WITH book <- rows, opened <- used

(* The table changes only as the course book allows.                        *)
ImplementsBook == Book!Spec

-----------------------------------------------------------------------------
(* What the repository's own words say, and the code does not keep: README,   *)
(* "Where the code and its words part".                                       *)

(* The documented refusal of a name in use: "Returns 409 when the owner     *)
(* already has a course with the requested name" (endpoints/courses.py:87). *)
CreateIsRefusedWith409 ==
    [][\A r \in answer'.to :
          req[r].at = "insert" => answer'.status # 500]_vars
=============================================================================
