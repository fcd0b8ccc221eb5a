--------------------------- MODULE CoursesProofs ---------------------------
(***************************************************************************)
(* Proofs about Courses, for any number of courses, users, names, columns  *)
(* and requests in flight.                                                 *)
(***************************************************************************)
EXTENDS Courses, TLAPS

\* Rows are told apart from their absence, and the empty table and payload have their types.
LEMMA RowsAreFunctions ==
    /\ Absent \notin Row
    /\ \A v \in Row : v["name"] \in Names
    /\ NoRows \in [Courses -> MaybeRow]
    /\ NoPayload \in Payload
BY AbsentIsNoRow, NameIsRequired DEF Row, Columns, NoRows, MaybeRow, NoPayload, Payload

\* The payload of a POST becomes a row when it is normalised.
LEMMA NormalCreate == ASSUME NEW p \in CreatePayload PROVE Normalize(p) \in Row
BY NoneIsNoValue, NameIsRequired DEF CreatePayload, Normalize, Row, Columns

\* The payload of a PATCH stays one when it is normalised.
LEMMA NormalPatch == ASSUME NEW p \in PatchPayload PROVE Normalize(p) \in Payload
BY NoneIsNoValue, NameIsRequired DEF PatchPayload, Normalize, Payload, Columns

\* A part of the table is a table.
LEMMA OnlyType == ASSUME TypeOK, NEW C PROVE Only(C) \in [Courses -> MaybeRow]
BY DEF Only, TypeOK, MaybeRow

\* A row that a PATCH has written over is a row.
LEMMA WriteType ==
    ASSUME NEW r, req[r].payload \in Payload, NEW v \in Row
    PROVE  Write(r, v) \in Row
BY NameIsRequired DEF Write, Payload, Row, Columns

\* A step begins, moves or answers one request.
LEMMA RequestTypes ==
    ASSUME TypeOK, NEW r \in Requests
    PROVE  /\ req[r].at \in {"create", "insert"} =>
                req[r] \in [at : {"create", "insert"}, user : Users, payload : Row]
           /\ req[r].at \in {"get", "delete", "remove"} =>
                req[r] \in [at : {"get", "delete", "remove"}, user : Users, course : Courses,
                            seen : [Courses -> MaybeRow]]
           /\ req[r].at = "list" =>
                req[r] \in [at : {"list"}, user : Users, seen : [Courses -> MaybeRow]]
           /\ req[r].at \in {"patch", "check", "write"} =>
                req[r] \in [at : {"patch", "check", "write"}, user : Users, course : Courses,
                            payload : Payload, seen : [Courses -> MaybeRow]]
<1>1. req[r] \in Request
  BY DEF TypeOK
<1>2. CASE req[r] = Idle
  BY <1>2 DEF Idle
<1>3. CASE req[r] # Idle
  BY <1>1, <1>3 DEF Request
<1> QED BY <1>2, <1>3

Most == /\ rows \in [Courses -> MaybeRow]
        /\ used \subseteq Courses
        /\ req \in [Requests -> Request]
        /\ answer \in [to : SUBSET Requests, status : Status, body : [Courses -> MaybeRow]]

\* A request that begins or moves on keeps the types.
LEMMA MoveType ==
    ASSUME TypeOK, NEW r \in Requests, NEW q \in Request,
           Begin(r, q) \/ GoTo(r, q)
    PROVE  Most'
BY RowsAreFunctions DEF TypeOK, Most, Begin, GoTo, Silence, Status

\* A refusal keeps the types.
LEMMA RefuseType ==
    ASSUME TypeOK, NEW r \in Requests, NEW s \in Status, Refuse(r, s)
    PROVE  Most'
BY RowsAreFunctions DEF TypeOK, Most, Refuse, Answer, Request

\* An answer with a course keeps the types.
LEMMA GiveType ==
    ASSUME TypeOK, NEW r \in Requests, NEW c \in Courses, NEW v \in MaybeRow, Give(r, c, v)
    PROVE  Most'
<1>1. [NoRows EXCEPT ![c] = v] \in [Courses -> MaybeRow]
  BY RowsAreFunctions
<1> QED BY <1>1 DEF TypeOK, Most, Give, Answer, Request, Status

\* Every stretch of a request keeps the types.
LEMMA StepType ==
    ASSUME TypeOK, NEW r \in Requests, Step(r)
    PROVE  Most'
<1>1. CASE CreateBegin(r)
  <2>1. PICK u \in Users, p \in CreatePayload :
           Begin(r, [at |-> "create", user |-> u, payload |-> Normalize(p)])
    BY <1>1 DEF CreateBegin
  <2>2. [at |-> "create", user |-> u, payload |-> Normalize(p)] \in Request
    BY NormalCreate DEF Request
  <2> QED BY <2>1, <2>2, MoveType
<1>2. CASE CreateCheck(r)
  <2>1. [req[r] EXCEPT !.at = "insert"] \in Request
    BY <1>2, RequestTypes DEF CreateCheck, Request
  <2> QED BY <1>2, <2>1, MoveType, RefuseType DEF CreateCheck, Status
<1>3. CASE CreateInsert(r)
  <2> DEFINE v == req[r].payload
  <2>1. v \in Row
    BY <1>3, RequestTypes DEF CreateInsert
  <2>2. CASE Refuse(r, 500)
    BY <2>2, RefuseType DEF Status
  <2>3. CASE \E c \in Mine(req[r].user) \ used :
                /\ rows' = [rows EXCEPT ![c] = v]
                /\ used' = used \cup {c}
                /\ Answer(r, 201, [NoRows EXCEPT ![c] = v])
    <3>1. PICK c \in Courses :
                /\ rows' = [rows EXCEPT ![c] = v]
                /\ used' = used \cup {c}
                /\ Answer(r, 201, [NoRows EXCEPT ![c] = v])
      BY <2>3 DEF Mine
    <3>2. [NoRows EXCEPT ![c] = v] \in [Courses -> MaybeRow]
      BY <2>1, RowsAreFunctions DEF MaybeRow
    <3> QED BY <2>1, <3>1, <3>2 DEF TypeOK, Most, Answer, Request, Status, MaybeRow
  <2> QED BY <1>3, <2>2, <2>3 DEF CreateInsert
<1>4. CASE ReadBegin(r)
  <2>1. CASE \E u \in Users :
                Begin(r, [at |-> "list", user |-> u, seen |-> Only(Mine(u))])
    <3>1. PICK u \in Users : Begin(r, [at |-> "list", user |-> u, seen |-> Only(Mine(u))])
      BY <2>1
    <3>2. [at |-> "list", user |-> u, seen |-> Only(Mine(u))] \in Request
      BY OnlyType DEF Request
    <3> QED BY <3>1, <3>2, MoveType
  <2>2. CASE \E u \in Users, c \in Courses :
                Begin(r, [at |-> "get", user |-> u, course |-> c, seen |-> Only(Mine(u) \cap {c})])
    <3>1. PICK u \in Users, c \in Courses :
                Begin(r, [at |-> "get", user |-> u, course |-> c, seen |-> Only(Mine(u) \cap {c})])
      BY <2>2
    <3>2. [at |-> "get", user |-> u, course |-> c, seen |-> Only(Mine(u) \cap {c})] \in Request
      BY OnlyType DEF Request
    <3> QED BY <3>1, <3>2, MoveType
  <2> QED BY <1>4, <2>1, <2>2 DEF ReadBegin
<1>5. CASE List(r)
  <2> DEFINE b == [c \in Courses |->
           IF Owner[c] = req[r].user /\ rows[c] # Absent THEN Instance(r, c) ELSE Absent]
  <2>1. b \in [Courses -> MaybeRow]
    BY <1>5, RequestTypes DEF List, Instance, TypeOK, MaybeRow
  <2>2. Answer(r, 200, b) /\ UNCHANGED <<rows, used>>
    BY <1>5 DEF List
  <2> QED BY <2>1, <2>2 DEF TypeOK, Most, Answer, Request, Status
<1>6. CASE Get(r)
  <2>1. req[r].course \in Courses /\ Instance(r, req[r].course) \in MaybeRow
    BY <1>6, RequestTypes DEF Get, Instance, TypeOK
  <2> QED BY <1>6, <2>1, RefuseType, GiveType DEF Get, Status
<1>7. CASE PatchBegin(r)
  <2>1. PICK u \in Users, c \in Courses, p \in PatchPayload :
           Begin(r, [at |-> "patch", user |-> u, course |-> c, payload |-> Normalize(p),
                     seen |-> Only(Mine(u) \cap {c})])
    BY <1>7 DEF PatchBegin
  <2>2. [at |-> "patch", user |-> u, course |-> c, payload |-> Normalize(p),
         seen |-> Only(Mine(u) \cap {c})] \in Request
    BY NormalPatch, OnlyType DEF Request
  <2> QED BY <2>1, <2>2, MoveType
<1>8. CASE PatchFind(r)
  <2> DEFINE c == req[r].course
             v == Instance(r, c)
             next == [req[r] EXCEPT
                 !.at = IF req[r].payload["name"] \in {None, v["name"]} THEN "write" ELSE "check",
                 !.seen = [NoRows EXCEPT ![c] = v]]
  <2>1. c \in Courses /\ v \in MaybeRow
    BY <1>8, RequestTypes DEF PatchFind, Instance, TypeOK
  <2>2. [NoRows EXCEPT ![c] = v] \in [Courses -> MaybeRow]
    BY <2>1, RowsAreFunctions
  <2>3. next \in Request
    BY <1>8, <2>2, RequestTypes DEF PatchFind, Request
  <2>4. Refuse(r, 404) \/ Give(r, c, v) \/ GoTo(r, next)
    BY <1>8 DEF PatchFind
  <2> HIDE DEF c, v, next
  <2> QED BY <2>1, <2>3, <2>4, RefuseType, GiveType, MoveType DEF Status
<1>9. CASE PatchCheck(r)
  <2>1. [req[r] EXCEPT !.at = "write"] \in Request
    BY <1>9, RequestTypes DEF PatchCheck, Request
  <2> QED BY <1>9, <2>1, MoveType, RefuseType DEF PatchCheck, Status
<1>10. CASE PatchWrite(r)
  <2> DEFINE c == req[r].course
             v == Write(r, rows[c])
  <2>1. c \in Courses /\ req[r].payload \in Payload
    BY <1>10, RequestTypes DEF PatchWrite
  <2>2. CASE Refuse(r, 500)
    BY <2>2, RefuseType DEF Status
  <2>3. CASE /\ rows[c] # Absent
             /\ rows' = [rows EXCEPT ![c] = v]
             /\ Answer(r, 200, AnswerPatch(r, c, v))
             /\ UNCHANGED used
    <3>1. v \in Row
      BY <2>1, <2>3, WriteType DEF TypeOK, MaybeRow
    <3>2. AnswerPatch(r, c, v) \in [Courses -> MaybeRow]
      BY <2>1, <3>1, RowsAreFunctions DEF AnswerPatch, MaybeRow
    <3> QED BY <2>1, <2>3, <3>1, <3>2 DEF TypeOK, Most, Answer, Request, Status, MaybeRow
  <2> QED BY <1>10, <2>2, <2>3 DEF PatchWrite
<1>11. CASE DeleteBegin(r)
  <2>1. PICK u \in Users, c \in Courses :
           Begin(r, [at |-> "delete", user |-> u, course |-> c, seen |-> NoRows])
    BY <1>11 DEF DeleteBegin
  <2>2. [at |-> "delete", user |-> u, course |-> c, seen |-> NoRows] \in Request
    BY RowsAreFunctions DEF Request
  <2> QED BY <2>1, <2>2, MoveType
<1>12. CASE DeleteFind(r)
  <2>1. [req[r] EXCEPT !.at = "remove"] \in Request
    BY <1>12, RequestTypes DEF DeleteFind, Request
  <2> QED BY <1>12, <2>1, MoveType, RefuseType DEF DeleteFind, Status
<1>13. CASE DeleteRemove(r)
  <2>1. Answer(r, 204, NoRows) /\ UNCHANGED used
    BY <1>13 DEF DeleteRemove
  <2>2. rows' \in [Courses -> MaybeRow]
    BY <1>13 DEF DeleteRemove, TypeOK, MaybeRow
  <2> QED BY <2>1, <2>2, RowsAreFunctions DEF Answer, TypeOK, Most, Request, Status
<1> QED
  BY <1>1, <1>2, <1>3, <1>4, <1>5, <1>6, <1>7, <1>8, <1>9, <1>10, <1>11, <1>12, <1>13 DEF Step

\* Every variable of Courses keeps its type: rows are whole, payloads normalised.
THEOREM TypeCorrect == Spec => []TypeOK
<1>1. Init => TypeOK
  BY RowsAreFunctions DEF Init, TypeOK, Request, Silence, Status, NoRows, MaybeRow
<1>2. TypeOK /\ [Next]_vars => TypeOK'
  <2> SUFFICES ASSUME TypeOK, [Next]_vars PROVE TypeOK'
    OBVIOUS
  <2>1. ASSUME Next PROVE TypeOK'
    <3>1. Most'
      BY <2>1, StepType DEF Next
    <3>2. past' \in [Requests -> [Courses -> SUBSET Row]]
      <4>1. \A r \in Requests, c \in Courses : past[r][c] \cup Versions(rows', c) \in SUBSET Row
        BY <3>1 DEF TypeOK, Most, Versions, MaybeRow
      <4> QED BY <2>1, <4>1 DEF Next, Remember
    <3> QED BY <3>1, <3>2 DEF TypeOK, Most
  <2>2. ASSUME UNCHANGED vars PROVE TypeOK'
    BY <2>2 DEF vars, TypeOK
  <2> QED BY <2>1, <2>2
<1> QED BY <1>1, <1>2, PTL DEF Spec
-----------------------------------------------------------------------------
(* Who owns what a suspended request is about, and where its copies come    *)
(* from: an UPDATE or DELETE is only ever aimed at a course of the caller,  *)
(* and an instance is a version the row had since the request began.        *)
OnTrack ==
    \A r \in Requests :
        /\ req[r].at \in {"check", "write", "remove"} => Owner[req[r].course] = req[r].user
        /\ req[r].at \in {"get", "list", "patch"} =>
              \A c \in Courses : req[r].seen[c] # Absent =>
                  Owner[c] = req[r].user /\ req[r].seen[c] \in past[r][c]

IdsAreUsed == \A c \in Courses : rows[c] # Absent => c \in used

IInv == TypeOK /\ NamesUnique /\ IdsAreUsed /\ OnTrack

\* What a step may do to the table, and to which course.
Opens(r) == \E c \in Courses \ used, v \in Row :
    /\ Owner[c] = req[r].user
    /\ ~Taken(Owner[c], v["name"], {})
    /\ rows' = [rows EXCEPT ![c] = v]
    /\ used' = used \cup {c}

Rewrites(r) ==
    /\ req[r].at = "write"
    /\ LET c == req[r].course IN
       /\ rows[c] # Absent
       /\ ~Taken(Owner[c], Write(r, rows[c])["name"], {c})
       /\ rows' = [rows EXCEPT ![c] = Write(r, rows[c])]
       /\ UNCHANGED used

Removes(r) ==
    /\ req[r].at = "remove"
    /\ rows' = [rows EXCEPT ![req[r].course] = Absent]
    /\ UNCHANGED used

\* A step leaves the table alone, or inserts, rewrites or removes one row.
LEMMA TableSteps ==
    ASSUME IInv, NEW r \in Requests, Step(r)
    PROVE  UNCHANGED <<rows, used>> \/ Opens(r) \/ Rewrites(r) \/ Removes(r)
<1>1. CASE CreateInsert(r)
  <2>1. req[r].payload \in Row
    BY <1>1, RequestTypes DEF CreateInsert, IInv
  <2> QED BY <1>1, <2>1 DEF CreateInsert, Refuse, Opens, ConstraintRefuses, Mine
<1>2. CASE PatchWrite(r)
  <2>1. Owner[req[r].course] = req[r].user
    BY <1>2 DEF PatchWrite, IInv, OnTrack
  <2> QED BY <1>2, <2>1 DEF PatchWrite, Refuse, Rewrites, ConstraintRefuses
<1>3. CASE DeleteRemove(r)
  BY <1>3 DEF DeleteRemove, Removes
<1>4. CASE CreateBegin(r) \/ CreateCheck(r) \/ ReadBegin(r) \/ List(r) \/ Get(r)
  BY <1>4 DEF CreateBegin, CreateCheck, ReadBegin, List, Get, Begin, GoTo, Refuse, Give
<1>5. CASE PatchBegin(r) \/ PatchFind(r) \/ PatchCheck(r) \/ DeleteBegin(r) \/ DeleteFind(r)
  BY <1>5 DEF PatchBegin, PatchFind, PatchCheck, DeleteBegin, DeleteFind, Begin, GoTo, Refuse, Give
<1> QED BY <1>1, <1>2, <1>3, <1>4, <1>5 DEF Step

\* Whatever was checked before, every step keeps names unique and ids spent.
LEMMA TableInvariant ==
    ASSUME IInv, NEW r \in Requests, Step(r)
    PROVE  NamesUnique' /\ IdsAreUsed'
<1>1. CASE UNCHANGED <<rows, used>>
  BY <1>1 DEF IInv, NamesUnique, IdsAreUsed
<1>2. CASE Opens(r)
  <2>1. PICK c \in Courses \ used, v \in Row :
            /\ ~Taken(Owner[c], v["name"], {})
            /\ rows' = [rows EXCEPT ![c] = v]
            /\ used' = used \cup {c}
    BY <1>2 DEF Opens
  <2>2. \A o \in Courses : Owner[o] = Owner[c] /\ rows[o] # Absent => rows[o]["name"] # v["name"]
    BY <2>1 DEF Taken, Mine
  <2> QED BY <2>1, <2>2 DEF IInv, TypeOK, NamesUnique, IdsAreUsed
<1>3. CASE Rewrites(r)
  <2> DEFINE c == req[r].course
             v == Write(r, rows[c])
  <2>1. c \in Courses
    BY <1>3, RequestTypes DEF Rewrites, IInv
  <2>2. \A o \in Courses \ {c} :
            Owner[o] = Owner[c] /\ rows[o] # Absent => rows[o]["name"] # v["name"]
    BY <1>3 DEF Rewrites, Taken, Mine
  <2>3. rows[c] # Absent /\ rows' = [rows EXCEPT ![c] = v] /\ UNCHANGED used
    BY <1>3 DEF Rewrites
  <2> HIDE DEF c, v
  <2> QED BY <2>1, <2>2, <2>3 DEF IInv, TypeOK, NamesUnique, IdsAreUsed
<1>4. CASE Removes(r)
  BY <1>4 DEF Removes, IInv, TypeOK, NamesUnique, IdsAreUsed
<1> QED BY <1>1, <1>2, <1>3, <1>4, TableSteps

\* The versions of a course during a reading request only grow, by what is stored now.
LEMMA PastGrows ==
    ASSUME TypeOK, Remember, NEW r \in Requests, NEW c \in Courses,
           req'[r].at \in {"get", "list", "patch"}
    PROVE  past[r][c] \cup Versions(rows', c) \subseteq past'[r][c]
BY DEF Remember, TypeOK

\* What a suspended request relies on survives the steps of all others.
LEMMA TrackInvariant ==
    ASSUME IInv, NEW r \in Requests, Step(r), Remember
    PROVE  OnTrack'
<1> SUFFICES ASSUME NEW s \in Requests
             PROVE  /\ req'[s].at \in {"check", "write", "remove"} =>
                          Owner[req'[s].course] = req'[s].user
                    /\ req'[s].at \in {"get", "list", "patch"} =>
                          \A c \in Courses : req'[s].seen[c] # Absent =>
                              Owner[c] = req'[s].user /\ req'[s].seen[c] \in past'[s][c]
  BY DEF OnTrack
<1> USE DEF IInv
<1>1. ASSUME req'[s] = req[s]
      PROVE  /\ req'[s].at \in {"check", "write", "remove"} =>
                   Owner[req'[s].course] = req'[s].user
             /\ req'[s].at \in {"get", "list", "patch"} =>
                   \A c \in Courses : req'[s].seen[c] # Absent =>
                       Owner[c] = req'[s].user /\ req'[s].seen[c] \in past'[s][c]
  BY <1>1, PastGrows DEF OnTrack
<1>2. \A q \in Requests \ {r} : req'[q] = req[q]
  BY DEF Step, CreateBegin, CreateCheck, CreateInsert, ReadBegin, List, Get, PatchBegin,
         PatchFind, PatchCheck, PatchWrite, DeleteBegin, DeleteFind, DeleteRemove,
         Begin, GoTo, Refuse, Give, Answer, TypeOK
<1>3. CASE req'[r].at \in {"idle", "create", "insert", "delete"}
  BY <1>1, <1>2, <1>3
<1>4. ASSUME NEW u \in Users, NEW C \in SUBSET Mine(u), rows' = rows,
             req'[r].at \in {"get", "list", "patch"},
             req'[r].user = u, req'[r].seen = Only(C)
      PROVE  \A c \in Courses : req'[r].seen[c] # Absent =>
                 Owner[c] = req'[r].user /\ req'[r].seen[c] \in past'[r][c]
  <2> SUFFICES ASSUME NEW c \in Courses, req'[r].seen[c] # Absent
               PROVE  Owner[c] = req'[r].user /\ req'[r].seen[c] \in past'[r][c]
    OBVIOUS
  <2>1. c \in C /\ req'[r].seen[c] = rows[c]
    BY <1>4 DEF Only
  <2>2. rows[c] \in Versions(rows', c)
    BY <1>4, <2>1 DEF Versions
  <2> QED BY <1>4, <2>1, <2>2, PastGrows DEF Mine
<1> DEFINE Goal == /\ req'[s].at \in {"check", "write", "remove"} =>
                        Owner[req'[s].course] = req'[s].user
                   /\ req'[s].at \in {"get", "list", "patch"} =>
                        \A c \in Courses : req'[s].seen[c] # Absent =>
                            Owner[c] = req'[s].user /\ req'[s].seen[c] \in past'[s][c]
<1>5. ASSUME s = r, ReadBegin(r) PROVE Goal
  <2>1. PICK u \in Users, C \in SUBSET Courses :
            C \subseteq Mine(u) /\ rows' = rows /\ req'[r].at \in {"get", "list"} /\ req'[r].user = u
            /\ req'[r].seen = Only(C)
    <3>1. PICK u \in Users :
              \/ Begin(r, [at |-> "list", user |-> u, seen |-> Only(Mine(u))])
              \/ \E c \in Courses : Begin(r, [at |-> "get", user |-> u, course |-> c,
                                              seen |-> Only(Mine(u) \cap {c})])
      BY <1>5 DEF ReadBegin
    <3>2. CASE Begin(r, [at |-> "list", user |-> u, seen |-> Only(Mine(u))])
      BY <3>2 DEF Begin, TypeOK, Mine
    <3>3. ASSUME NEW c \in Courses,
                 Begin(r, [at |-> "get", user |-> u, course |-> c, seen |-> Only(Mine(u) \cap {c})])
          PROVE  \E C \in SUBSET Courses :
                    C \subseteq Mine(u) /\ rows' = rows /\ req'[r].at \in {"get", "list"}
                    /\ req'[r].user = u /\ req'[r].seen = Only(C)
      <4> DEFINE C == Mine(u) \cap {c}
      <4>1. C \in SUBSET Courses /\ C \subseteq Mine(u)
        OBVIOUS
      <4>2. req'[r] = [at |-> "get", user |-> u, course |-> c, seen |-> Only(C)] /\ rows' = rows
        BY <3>3 DEF Begin, TypeOK
      <4> HIDE DEF C
      <4> QED BY <4>1, <4>2
    <3>4. CASE \E c \in Courses : Begin(r, [at |-> "get", user |-> u, course |-> c,
                                           seen |-> Only(Mine(u) \cap {c})])
      BY <3>3, <3>4
    <3> QED BY <3>1, <3>2, <3>4
  <2> QED BY <1>4, <1>5, <2>1
<1>6. ASSUME s = r, PatchBegin(r) PROVE Goal
  <2>1. PICK u \in Users, C \in SUBSET Courses :
            C \subseteq Mine(u) /\ rows' = rows /\ req'[r].at = "patch" /\ req'[r].user = u
            /\ req'[r].seen = Only(C)
    BY <1>6 DEF PatchBegin, Begin, TypeOK
  <2> QED BY <1>4, <1>6, <2>1
<1>7. ASSUME s = r, PatchFind(r) PROVE Goal
  <2>1. CASE Find(r)
    <3>1. req'[r] = Idle
          \/ (req'[r].at \in {"write", "check"} /\ req'[r].course = req[r].course
              /\ req'[r].user = req[r].user)
      <4> DEFINE v == Instance(r, req[r].course)
      <4>1. \/ req'[r] = Idle
            \/ req'[r] = [req[r] EXCEPT
                  !.at = IF req[r].payload["name"] \in {None, v["name"]} THEN "write" ELSE "check",
                  !.seen = [NoRows EXCEPT ![req[r].course] = v]]
        BY <1>7 DEF PatchFind, Give, Refuse, Answer, GoTo, TypeOK
      <4>2. req[r] \in [at : {"patch", "check", "write"}, user : Users, course : Courses,
                        payload : Payload, seen : [Courses -> MaybeRow]]
        BY <1>7, RequestTypes DEF PatchFind
      <4> QED BY <4>1, <4>2
    <3> QED BY <1>7, <2>1, <3>1 DEF Find, Idle
  <2>2. CASE ~Find(r)
    <3>1. req'[r] = Idle
      BY <1>7, <2>2 DEF PatchFind, Refuse, Answer, TypeOK
    <3> QED BY <1>7, <3>1 DEF Idle
  <2> QED BY <2>1, <2>2
<1>8. ASSUME s = r, PatchCheck(r) \/ DeleteFind(r) PROVE Goal
  <2>1. req'[r] = Idle
        \/ (req'[r].at \in {"write", "remove"} /\ Owner[req[r].course] = req[r].user
            /\ req'[r].course = req[r].course /\ req'[r].user = req[r].user)
    BY <1>8, RequestTypes
    DEF PatchCheck, DeleteFind, Find, Refuse, Answer, GoTo, TypeOK, OnTrack
  <2> QED BY <1>8, <2>1 DEF Idle
<1>9. ASSUME s = r, CreateBegin(r) \/ CreateCheck(r) \/ CreateInsert(r) \/ List(r) \/ Get(r)
                    \/ PatchWrite(r) \/ DeleteBegin(r) \/ DeleteRemove(r)
      PROVE Goal
  <2>1. req'[r].at \in {"idle", "create", "insert", "delete"}
    BY <1>9, RequestTypes
    DEF CreateBegin, CreateCheck, CreateInsert, List, Get, PatchWrite, DeleteBegin,
        DeleteRemove, Begin, Refuse, Give, Answer, GoTo, TypeOK, Idle
  <2> QED BY <1>9, <2>1
<1> QED BY <1>1, <1>2, <1>5, <1>6, <1>7, <1>8, <1>9 DEF Step

\* The inductive invariant: the table is sound, and what a suspended request
\* holds is what it may rely on.
THEOREM Invariance == Spec => []IInv
<1>1. Init => IInv
  BY RowsAreFunctions
  DEF Init, IInv, TypeOK, NamesUnique, IdsAreUsed, OnTrack, Request, Silence, Status,
      NoRows, MaybeRow, Idle
<1>2. TypeOK' /\ IInv /\ [Next]_vars => IInv'
  <2> SUFFICES ASSUME TypeOK', IInv, [Next]_vars PROVE IInv'
    OBVIOUS
  <2>1. ASSUME Next PROVE IInv'
    BY <2>1, TableInvariant, TrackInvariant DEF Next, IInv
  <2>2. ASSUME UNCHANGED vars PROVE IInv'
    BY <2>2 DEF vars, IInv, TypeOK, NamesUnique, IdsAreUsed, OnTrack
  <2> QED BY <2>1, <2>2
<1> QED BY <1>1, <1>2, TypeCorrect, PTL DEF Spec

\* No race of creates, renames and deletes gives an owner two courses of one name.
THEOREM NamesStayUnique == Spec => []NamesUnique
<1>1. IInv => NamesUnique
  BY DEF IInv
<1> QED BY <1>1, Invariance, PTL

\* A PATCH leaves alone the columns it was not given, whatever others wrote into
\* them since it loaded the row.
THEOREM NoLostUpdates == Spec => OnlyAskedChanges
<1>1. IInv /\ [Next]_vars =>
        [\A c \in Courses, k \in Columns :
          rows[c] # Absent /\ rows'[c] # Absent /\ rows'[c][k] # rows[c][k]
          => \E r \in Requests :
                req[r].at = "write" /\ req[r].course = c /\ req[r].payload[k] = rows'[c][k]]_vars
  <2> SUFFICES ASSUME IInv, Next, NEW c \in Courses, NEW k \in Columns,
                      rows[c] # Absent, rows'[c] # Absent, rows'[c][k] # rows[c][k]
               PROVE  \E r \in Requests :
                req[r].at = "write" /\ req[r].course = c /\ req[r].payload[k] = rows'[c][k]
    OBVIOUS
  <2>1. PICK r \in Requests : Step(r)
    BY DEF Next
  <2>2. CASE Rewrites(r)
    <3>1. req[r].course = c /\ rows'[c] = Write(r, rows[c])
      BY <2>2 DEF Rewrites, IInv, TypeOK
    <3>2. req[r].at = "write"
      BY <2>2 DEF Rewrites
    <3> QED BY <2>1, <3>1, <3>2 DEF Write
  <2>3. CASE Opens(r) \/ Removes(r) \/ UNCHANGED <<rows, used>>
    BY <2>3 DEF Opens, Removes, IInv, TypeOK, IdsAreUsed
  <2> QED BY <2>1, <2>2, <2>3, TableSteps
<1> QED BY <1>1, Invariance, PTL DEF Spec, OnlyAskedChanges

\* A course in an answer is the caller's, in a version of the time of its request.
LEMMA AnswerStep ==
    ASSUME IInv, NEW r \in Requests, Step(r), NEW s \in answer'.to, NEW c \in Courses,
           answer'.body[c] # Absent
    PROVE  s = r /\ Owner[c] = req[s].user
           /\ answer'.body[c] \in past[s][c] \cup Versions(rows', c)
<1> USE DEF IInv, Versions
<1>1. CASE \/ CreateBegin(r) \/ CreateCheck(r) \/ ReadBegin(r) \/ PatchBegin(r) \/ PatchCheck(r)
           \/ DeleteBegin(r) \/ DeleteFind(r) \/ DeleteRemove(r)
  <2>1. answer'.to = {} \/ answer'.body = NoRows
    <3>1. ASSUME NEW q, Begin(r, q) \/ GoTo(r, q) PROVE answer'.to = {}
      BY <3>1 DEF Begin, GoTo, Silence
    <3>2. ASSUME NEW n, Refuse(r, n) \/ Answer(r, n, NoRows) PROVE answer'.body = NoRows
      BY <3>2 DEF Refuse, Answer
    <3>3. CASE CreateBegin(r) \/ ReadBegin(r) \/ PatchBegin(r) \/ DeleteBegin(r)
      BY <3>1, <3>3 DEF CreateBegin, ReadBegin, PatchBegin, DeleteBegin
    <3>4. CASE CreateCheck(r) \/ PatchCheck(r) \/ DeleteFind(r) \/ DeleteRemove(r)
      BY <3>1, <3>2, <3>4 DEF CreateCheck, PatchCheck, DeleteFind, DeleteRemove
    <3> QED BY <1>1, <3>3, <3>4
  <2> QED BY <2>1 DEF NoRows
<1>2. CASE CreateInsert(r)
  BY <1>2, RequestTypes DEF CreateInsert, Refuse, Answer, NoRows, Mine, TypeOK
<1>3. CASE List(r)
  BY <1>3 DEF List, Answer, Instance, OnTrack
<1>4. ASSUME NEW o \in Courses, Find(r), o = req[r].course, req[r].at \in {"get", "patch"},
             Give(r, o, Instance(r, o))
      PROVE  s = r /\ Owner[c] = req[s].user
             /\ answer'.body[c] \in past[s][c] \cup Versions(rows', c)
  BY <1>4 DEF Give, Answer, Find, Instance, NoRows, OnTrack
<1>5. ASSUME Refuse(r, 404) \/ Refuse(r, 500) PROVE FALSE
  BY <1>5 DEF Refuse, Answer, NoRows
<1>6. CASE Get(r)
  BY <1>4, <1>5, <1>6, RequestTypes DEF Get
<1>7. CASE PatchFind(r)
  <2>1. ASSUME NEW q, GoTo(r, q) PROVE FALSE
    BY <2>1 DEF GoTo, Silence
  <2> QED BY <1>4, <1>5, <1>7, <2>1, RequestTypes DEF PatchFind
<1>8. CASE PatchWrite(r)
  <2> DEFINE o == req[r].course
             v == Write(r, rows[o])
  <2>1. o \in Courses /\ Owner[o] = req[r].user
    BY <1>8, RequestTypes DEF PatchWrite, OnTrack
  <2>2. rows' = [rows EXCEPT ![o] = v] /\ Answer(r, 200, AnswerPatch(r, o, v))
    BY <1>5, <1>8 DEF PatchWrite
  <2> HIDE DEF o, v
  <2> QED BY <2>1, <2>2 DEF Answer, AnswerPatch, NoRows, TypeOK
<1> QED BY <1>1, <1>2, <1>3, <1>6, <1>7, <1>8 DEF Step

\* No answer shows a course that is not the caller's or a version that never was.
THEOREM AnswersAreTrue == Spec => AnswersWereTrue
<1>1. IInv /\ [Next]_vars =>
        [\A r \in answer'.to, c \in Courses :
          answer'.body[c] # Absent =>
            /\ Owner[c] = req[r].user
            /\ answer'.body[c] \in past[r][c] \cup Versions(rows', c)]_vars
  <2> SUFFICES ASSUME IInv, Next, NEW r \in answer'.to, NEW c \in Courses, answer'.body[c] # Absent
               PROVE  /\ Owner[c] = req[r].user
                      /\ answer'.body[c] \in past[r][c] \cup Versions(rows', c)
    OBVIOUS
  <2> QED BY AnswerStep DEF Next
<1> QED BY <1>1, Invariance, PTL DEF Spec, AnswersWereTrue

\* Every step of the endpoints is a step of the course book, or none.
THEOREM Refinement == Spec => ImplementsBook
<1>1. Init => Book!Init
  BY DEF Init, NoRows, Book!Init
<1>2. IInv /\ IInv' /\ [Next]_vars => [Book!Next]_<<rows, used>>
  <2> SUFFICES ASSUME IInv, IInv', Next PROVE [Book!Next]_<<rows, used>>
    BY DEF vars
  <2>1. PICK r \in Requests : Step(r)
    BY DEF Next
  <2>2. CASE UNCHANGED <<rows, used>>
    BY <2>2
  <2>3. CASE Opens(r)
    <3>1. PICK c \in Courses \ used, v \in Row :
              /\ ~Taken(Owner[c], v["name"], {})
              /\ rows' = [rows EXCEPT ![c] = v]
              /\ used' = used \cup {c}
      BY <2>3 DEF Opens
    <3>2. Book!NameFree(c, v["name"])
      BY <3>1 DEF Book!NameFree, Taken, Mine
    <3>3. Book!Open(c)
      BY <3>1, <3>2 DEF Book!Open
    <3> QED BY <3>1, <3>3 DEF Book!Next
  <2>4. CASE Rewrites(r)
    <3> DEFINE c == req[r].course
               v == Write(r, rows[c])
    <3>1. c \in Courses /\ v \in Row
      BY <2>4, RequestTypes, WriteType DEF Rewrites, IInv, TypeOK, MaybeRow
    <3>2. rows[c] # Absent /\ rows' = [rows EXCEPT ![c] = v] /\ UNCHANGED used
          /\ ~Taken(Owner[c], v["name"], {c})
      BY <2>4 DEF Rewrites
    <3> HIDE DEF c, v
    <3>3. Book!NameFree(c, v["name"])
      BY <3>1, <3>2 DEF Book!NameFree, Taken, Mine
    <3>4. Book!Change(c)
      BY <3>1, <3>2, <3>3 DEF Book!Change
    <3> QED BY <3>1, <3>4 DEF Book!Next
  <2>5. CASE Removes(r)
    <3> DEFINE c == req[r].course
    <3>1. c \in Courses
      BY <2>5, RequestTypes DEF Removes, IInv
    <3>2. rows' = [rows EXCEPT ![c] = Absent] /\ UNCHANGED used
      BY <2>5 DEF Removes
    <3> HIDE DEF c
    <3>3. CASE rows[c] = Absent
      BY <3>1, <3>2, <3>3 DEF IInv, TypeOK
    <3>4. CASE rows[c] # Absent
      BY <3>1, <3>2, <3>4 DEF Book!Next, Book!Remove
    <3> QED BY <3>3, <3>4
  <2> QED BY <2>1, <2>2, <2>3, <2>4, <2>5, TableSteps
<1> QED BY <1>1, <1>2, Invariance, PTL DEF Spec, ImplementsBook, Book!Spec, Book!vars
=============================================================================
