---------------------- MODULE DocumentLifecycleProofs ----------------------
(***************************************************************************)
(* The safety of DocumentLifecycle for any number of documents, courses,   *)
(* users and concurrent requests, and any set of failures.                 *)
(*                                                                         *)
(* None of the properties is inductive: what makes a step of a handler     *)
(* safe is what its earlier steps did, and HandlersOnTrack says that this  *)
(* has survived the steps of the others.  The induction is therefore on    *)
(* the conjunction.                                                        *)
(***************************************************************************)
EXTENDS DocumentLifecycle, TLAPS

IInv ==
    /\ TypeOK
    /\ LinkIntegrity
    /\ ReadyIsProcessed
    /\ NoFileOutlivesRow
    /\ HandlersOnTrack

\* The snapshot taken at authentication has the type of field `seen'.
LEMMA SnapshotType ==
    ASSUME TypeOK, NEW u
    PROVE  AuthSnapshot(u) \in [Docs -> CourseLink \cup {Missing}]
  BY DEF TypeOK, AuthSnapshot

\* An idle request is a request.
LEMMA IdleRequestType == IdleRequest \in Request
  BY DEF IdleRequest, Request, ReqPC, CourseLink

\* Replacing one field of a request in flight keeps it a request.
LEMMA RequestField ==
    ASSUME TypeOK, NEW r \in Requests
    PROVE  /\ \A pc \in ReqPC : [req EXCEPT ![r].pc = pc] \in [Requests -> Request]
           /\ [req EXCEPT ![r] = IdleRequest] \in [Requests -> Request]
  BY IdleRequestType DEF TypeOK, Request

\* Type correctness is kept by every step.
LEMMA TypeStep == TypeOK /\ [Next]_vars => TypeOK'
  <1> SUFFICES ASSUME TypeOK, [Next]_vars PROVE TypeOK'
    OBVIOUS
  <1> USE DEF At, TaskAt, LoopFree, db, stores
  <1>1. ASSUME NEW r \in Requests, RequestStep(r) PROVE TypeOK'
    <2>1. CASE UploadInsertRow(r)
      BY <2>1, RequestField DEF UploadInsertRow, End, TypeOK, Status, LiveStatus, TaskPC
    <2>2. CASE DeleteFile(r)
      BY <2>2, RequestField DEF DeleteFile, Goto, ReqPC, TypeOK
    <2>3. CASE DeleteSidecar(r)
      BY <2>3, RequestField DEF DeleteSidecar, Goto, ReqPC, TypeOK
    <2>4. CASE DeleteRow(r)
      BY <2>4, RequestField DEF DeleteRow, End, TypeOK, Status, CourseLink
    <2>5. CASE PatchCheckCourse(r)
      BY <2>5, RequestField DEF PatchCheckCourse, Goto, End, ReqPC, TypeOK
    <2>6. CASE PatchUpdate(r)
      <3>1. req[r].course \in CourseLink
        BY DEF TypeOK, Request
      <3>2. link' \in [Docs -> CourseLink]
        BY <2>6, <3>1 DEF PatchUpdate, TypeOK
      <3>3. QED
        BY <2>6, <3>2, RequestField DEF PatchUpdate, End, TypeOK
    <2>7. CASE DropCourseLoadChildren(r)
      <3>1. ChildrenToNull(r) \in SUBSET Docs
        BY DEF ChildrenToNull, Rows
      <3>2. [req[r] EXCEPT !.pc = "drop_course", !.children = ChildrenToNull(r)] \in Request
        BY <3>1 DEF TypeOK, Request, ReqPC
      <3>. req' \in [Requests -> Request]
        BY <2>7, <3>2 DEF DropCourseLoadChildren, TypeOK
      <3>3. QED
        BY <2>7 DEF DropCourseLoadChildren, TypeOK
    <2>8. CASE DropCourse(r)
      <3>1. link' \in [Docs -> CourseLink]
        BY <2>8 DEF DropCourse, TypeOK, CourseLink
      <3>2. QED
        BY <2>8, <3>1, RequestField DEF DropCourse, End, TypeOK
    <2>9. QED
      BY <1>1, <2>1, <2>2, <2>3, <2>4, <2>5, <2>6, <2>7, <2>8 DEF RequestStep
  <1>2. ASSUME NEW r \in Requests, ClientCall(r) PROVE TypeOK'
    <2>1. ASSUME NEW d \in Docs, UploadSaveFile(r, d) PROVE TypeOK'
      BY <2>1, IdleRequestType DEF UploadSaveFile, TypeOK, Request, ReqPC
    <2>2. ASSUME NEW d \in Docs, DeleteBegin(r, d) PROVE TypeOK'
      BY <2>2, IdleRequestType DEF DeleteBegin, TypeOK, Request, ReqPC
    <2>3. ASSUME NEW d \in Docs, NEW c \in CourseLink, PatchBegin(r, d, c) PROVE TypeOK'
      <3>1. req' \in [Requests -> Request]
        BY <2>3, IdleRequestType, SnapshotType DEF PatchBegin, TypeOK, Request, ReqPC
      <3>2. QED
        BY <2>3, <3>1 DEF PatchBegin, TypeOK
    <2>4. ASSUME NEW c \in Courses, DropCourseBegin(r, c) PROVE TypeOK'
      <3>1. req' \in [Requests -> Request]
        BY <2>4, IdleRequestType, SnapshotType
           DEF DropCourseBegin, TypeOK, Request, ReqPC, CourseLink
      <3>2. QED
        BY <2>4, <3>1 DEF DropCourseBegin, TypeOK
    <2>5. QED
      BY <1>2, <2>1, <2>2, <2>3, <2>4 DEF ClientCall
  <1>3. ASSUME NEW c \in Courses, CreateCourse(c) PROVE TypeOK'
    BY <1>3 DEF CreateCourse, TypeOK
  <1>4. ASSUME NEW d \in Docs, TaskStep(d) PROVE TypeOK'
    <2> USE DEF TaskGoto, TaskEnd, TaskPC, TypeOK
    <2>1. CASE TaskLoad(d)
      BY <2>1 DEF TaskLoad
    <2>2. CASE TaskClaim(d)
      BY <2>2 DEF TaskClaim, Status, LiveStatus
    <2>3. CASE TaskDispatch(d)
      BY <2>3 DEF TaskDispatch
    <2>4. CASE TaskEmbed(d)
      BY <2>4 DEF TaskEmbed
    <2>5. CASE TaskUpsert(d)
      BY <2>5 DEF TaskUpsert
    <2>6. CASE TaskSaveSidecar(d)
      BY <2>6 DEF TaskSaveSidecar
    <2>7. CASE TaskFinish(d)
      BY <2>7 DEF TaskFinish, Status, LiveStatus
    <2>8. CASE TaskFail(d)
      BY <2>8 DEF TaskFail, Status, LiveStatus
    <2>9. QED
      BY <1>4, <2>1, <2>2, <2>3, <2>4, <2>5, <2>6, <2>7, <2>8 DEF TaskStep
  <1>5. ASSUME Fault PROVE TypeOK'
    <2>1. CASE Crash
      BY <2>1, IdleRequestType DEF Crash, TypeOK, TaskPC
    <2>2. ASSUME NEW r \in Requests, RequestDbFault(r) PROVE TypeOK'
      BY <2>2, RequestField DEF RequestDbFault, End, TypeOK
    <2>3. ASSUME NEW r \in Requests, DeleteFileFault(r) PROVE TypeOK'
      BY <2>3, RequestField DEF DeleteFileFault, End, TypeOK
    <2>4. ASSUME NEW d \in Docs, TaskDbFault(d) PROVE TypeOK'
      BY <2>4 DEF TaskDbFault, TaskEnd, TaskGoto, TypeOK, TaskPC
    <2>5. QED
      BY <1>5, <2>1, <2>2, <2>3, <2>4 DEF Fault
  <1>6. CASE UNCHANGED vars
    BY <1>6 DEF vars, TypeOK
  <1>7. QED
    BY <1>1, <1>2, <1>3, <1>4, <1>5, <1>6 DEF Next

-----------------------------------------------------------------------------

\* The steps that write to Postgres; every other step leaves the rows alone.
LEMMA DbWriters ==
    [Next]_vars =>
        \/ UNCHANGED db
        \/ \E r \in Requests : \/ UploadInsertRow(r) \/ DeleteRow(r)
                               \/ PatchUpdate(r) \/ DropCourse(r)
        \/ \E c \in Courses : CreateCourse(c)
        \/ \E d \in Docs : TaskClaim(d) \/ TaskFinish(d) \/ TaskFail(d)
  BY DEF Next, vars, db, ClientCall, RequestStep, TaskStep, Fault,
         UploadSaveFile, DeleteBegin, PatchBegin, DropCourseBegin, DeleteFile,
         DeleteSidecar, PatchCheckCourse, DropCourseLoadChildren, TaskLoad,
         TaskDispatch, TaskEmbed, TaskUpsert, TaskSaveSidecar,
         Crash, RequestDbFault, DeleteFileFault, TaskDbFault

\* A status write of the task keeps exactly the rows there are.
LEMMA TaskWritesKeepRows ==
    ASSUME TypeOK, NEW d \in Docs, TaskClaim(d) \/ TaskFinish(d) \/ TaskFail(d)
    PROVE  /\ \A e \in Docs : Live(e)' <=> Live(e)
           /\ UNCHANGED <<link, catalog>>
  BY DEF TypeOK, TaskClaim, TaskFinish, TaskFail, Live, LiveStatus

\* Every step keeps documents filed under existing courses of their owners.
LEMMA LinkStep ==
    TypeOK /\ LinkIntegrity /\ HandlersOnTrack /\ [Next]_vars => LinkIntegrity'
  <1> SUFFICES ASSUME TypeOK, LinkIntegrity, HandlersOnTrack, [Next]_vars
               PROVE  LinkIntegrity'
    OBVIOUS
  <1> USE DEF TypeOK, LinkIntegrity, ExistingCourses
  <1>1. CASE UNCHANGED db
    BY <1>1 DEF db, Live
  <1>2. ASSUME NEW r \in Requests, UploadInsertRow(r) PROVE LinkIntegrity'
    BY <1>2 DEF UploadInsertRow, Live, LiveStatus
  <1>3. ASSUME NEW r \in Requests, DeleteRow(r) PROVE LinkIntegrity'
    BY <1>3, NullAssumption DEF DeleteRow, Live, LiveStatus
  <1>4. ASSUME NEW r \in Requests, PatchUpdate(r) PROVE LinkIntegrity'
    <2> DEFINE d == req[r].doc
               c == req[r].course
    <2>1. c # NoCourse => Owner[c] = Owner[d]
      BY <1>4 DEF PatchUpdate, At, HandlersOnTrack
    <2>2. UNCHANGED <<status, catalog>>
      BY <1>4 DEF PatchUpdate
    <2>3. \A e \in Docs : link'[e] # link[e] =>
              e = d /\ link'[e] = c /\ Live(d) /\ c \in ExistingCourses \cup {NoCourse}
      BY <1>4 DEF PatchUpdate
    <2>4. QED
      BY <2>1, <2>2, <2>3 DEF Live
  <1>5. ASSUME NEW r \in Requests, DropCourse(r) PROVE LinkIntegrity'
    <2> DEFINE c == req[r].course
    <2>1. CASE UNCHANGED <<catalog, link>>
      BY <1>5, <2>1 DEF DropCourse, Live
    <2>2. CASE /\ catalog' = [catalog EXCEPT ![c] = "deleted"]
               /\ link' = [d \in Docs |-> IF d \in req[r].children \/ link[d] = c
                                          THEN NoCourse ELSE link[d]]
      <3>1. UNCHANGED status
        BY <1>5 DEF DropCourse
      <3>2. \A d \in Docs : link'[d] # NoCourse => link'[d] = link[d] /\ link[d] # c
        BY <2>2
      <3>3. \A x \in Courses : x # c => catalog'[x] = catalog[x]
        BY <2>2
      <3>4. QED
        BY <3>1, <3>2, <3>3 DEF Live
    <2>3. QED
      BY <1>5, <2>1, <2>2 DEF DropCourse
  <1>6. ASSUME NEW c \in Courses, CreateCourse(c) PROVE LinkIntegrity'
    BY <1>6 DEF CreateCourse, Live
  <1>7. ASSUME NEW d \in Docs, TaskClaim(d) \/ TaskFinish(d) \/ TaskFail(d)
        PROVE  LinkIntegrity'
    BY <1>7, TaskWritesKeepRows
  <1>8. QED
    BY <1>1, <1>2, <1>3, <1>4, <1>5, <1>6, <1>7, DbWriters

\* Every step keeps the bytes of deleted documents off the disk.
LEMMA FileStep ==
    TypeOK /\ NoFileOutlivesRow /\ HandlersOnTrack /\ [Next]_vars => NoFileOutlivesRow'
  <1> SUFFICES ASSUME TypeOK, NoFileOutlivesRow, HandlersOnTrack, [Next]_vars
               PROVE  NoFileOutlivesRow'
    OBVIOUS
  <1> USE DEF TypeOK, NoFileOutlivesRow
  <1>1. ASSUME NEW r \in Requests, NEW d \in Docs, UploadSaveFile(r, d)
        PROVE  NoFileOutlivesRow'
    BY <1>1 DEF UploadSaveFile, db
  <1>2. ASSUME NEW r \in Requests, DeleteRow(r) PROVE NoFileOutlivesRow'
    <2>1. req[r].doc \notin file
      BY <1>2 DEF DeleteRow, At, HandlersOnTrack
    <2>2. QED
      BY <1>2, <2>1 DEF DeleteRow, stores
  <1>3. \/ \E r \in Requests : DeleteRow(r) \/ \E d \in Docs : UploadSaveFile(r, d)
        \/ /\ file' \subseteq file
           /\ \A d \in Docs : status'[d] = "deleted" => status[d] = "deleted"
    BY DEF Next, vars, db, stores, ClientCall, RequestStep, TaskStep, Fault,
         UploadInsertRow, DeleteBegin, PatchBegin, DropCourseBegin, DeleteFile,
         DeleteSidecar, PatchCheckCourse, PatchUpdate, DropCourseLoadChildren,
         DropCourse, CreateCourse, TaskLoad, TaskClaim, TaskDispatch, TaskEmbed,
         TaskUpsert, TaskSaveSidecar, TaskFinish, TaskFail,
         Crash, RequestDbFault, DeleteFileFault, TaskDbFault
  <1>4. QED
    BY <1>1, <1>2, <1>3

\* Every step keeps READY for documents that were processed.
LEMMA ReadyStep ==
    TypeOK /\ ReadyIsProcessed /\ HandlersOnTrack /\ [Next]_vars => ReadyIsProcessed'
  <1> SUFFICES ASSUME TypeOK, ReadyIsProcessed, HandlersOnTrack, [Next]_vars
               PROVE  ReadyIsProcessed'
    OBVIOUS
  <1> USE DEF TypeOK, ReadyIsProcessed
  <1>1. ASSUME NEW r \in Requests, NEW d \in Docs, UploadSaveFile(r, d)
        PROVE  ReadyIsProcessed'
    BY <1>1 DEF UploadSaveFile, db
  <1>2. ASSUME NEW r \in Requests, DeleteSidecar(r) PROVE ReadyIsProcessed'
    <2>1. req[r].doc \notin file
      BY <1>2 DEF DeleteSidecar, HandlersOnTrack
    <2>2. QED
      BY <1>2, <2>1 DEF DeleteSidecar, db
  <1>3. ASSUME NEW d \in Docs, TaskFinish(d) PROVE ReadyIsProcessed'
    <2>1. /\ content[d] # "unreadable"
          /\ content[d] = "text" => d \in indexed
          /\ d \in file => d \in sidecar
      BY <1>3 DEF TaskFinish, TaskAt, HandlersOnTrack
    <2>2. QED
      BY <1>3, <2>1 DEF TaskFinish, stores
  <1>4. \/ \E r \in Requests : DeleteSidecar(r) \/ \E d \in Docs : UploadSaveFile(r, d)
        \/ \E d \in Docs : TaskFinish(d)
        \/ /\ \A d \in Docs : status'[d] = "ready" => status[d] = "ready"
           /\ UNCHANGED content
           /\ indexed \subseteq indexed'
           /\ file' \subseteq file
           /\ sidecar \subseteq sidecar'
    BY DEF Next, vars, db, stores, ClientCall, RequestStep, TaskStep, Fault,
         UploadInsertRow, DeleteBegin, PatchBegin, DropCourseBegin, DeleteFile,
         DeleteRow, PatchCheckCourse, PatchUpdate, DropCourseLoadChildren,
         DropCourse, CreateCourse, TaskLoad, TaskClaim, TaskDispatch, TaskEmbed,
         TaskUpsert, TaskSaveSidecar, TaskFail,
         Crash, RequestDbFault, DeleteFileFault, TaskDbFault
  <1>5. QED
    BY <1>1, <1>2, <1>3, <1>4

-----------------------------------------------------------------------------
(* HandlersOnTrack, in the two halves it consists of.                         *)

RequestOnTrack(r) ==
    /\ req[r].pc \in {"unlink_sidecar", "delete_row"} => req[r].doc \notin file
    /\ req[r].pc = "update" /\ req[r].course # NoCourse =>
           Owner[req[r].course] = Owner[req[r].doc]

TaskOnTrack(d) ==
    /\ task[d] # "none" => status[d] # "unborn"
    /\ task[d] \in {"embed", "upsert"} => content[d] = "text"
    /\ task[d] \in {"save", "finish"} => /\ content[d] # "unreadable"
                                         /\ content[d] = "text" => d \in indexed
    /\ task[d] = "finish" => (d \in file => d \in sidecar)

\* The steps of a request keep the requests on track: its own next resumption
\* point is guarded by what the step did, and the others' by nothing but an
\* upload, which writes no file that a delete is working on.
LEMMA RequestsStayOnTrack ==
    ASSUME TypeOK, \A q \in Requests : RequestOnTrack(q), [Next]_vars
    PROVE  \A q \in Requests : RequestOnTrack(q)'
  <1> USE DEF TypeOK, RequestOnTrack, At
  <1>1. ASSUME NEW r \in Requests, ClientCall(r)
        PROVE  \A q \in Requests : RequestOnTrack(q)'
    <2>1. ASSUME NEW d \in Docs, UploadSaveFile(r, d)
          PROVE  \A q \in Requests : RequestOnTrack(q)'
      BY <2>1 DEF UploadSaveFile, IdleRequest
    <2>2. ASSUME NEW d \in Docs, DeleteBegin(r, d)
          PROVE  \A q \in Requests : RequestOnTrack(q)'
      BY <2>2 DEF DeleteBegin, IdleRequest, stores
    <2>3. ASSUME NEW d \in Docs, NEW c \in CourseLink, PatchBegin(r, d, c)
          PROVE  \A q \in Requests : RequestOnTrack(q)'
      BY <2>3 DEF PatchBegin, IdleRequest, stores
    <2>4. ASSUME NEW c \in Courses, DropCourseBegin(r, c)
          PROVE  \A q \in Requests : RequestOnTrack(q)'
      BY <2>4 DEF DropCourseBegin, IdleRequest, stores
    <2>5. QED
      BY <1>1, <2>1, <2>2, <2>3, <2>4 DEF ClientCall
  <1>2. ASSUME NEW r \in Requests, RequestStep(r)
        PROVE  \A q \in Requests : RequestOnTrack(q)'
    <2> USE DEF Goto, End, IdleRequest, stores
    <2>1. CASE UploadInsertRow(r)
      BY <2>1 DEF UploadInsertRow
    <2>2. CASE DeleteFile(r)
      BY <2>2 DEF DeleteFile
    <2>3. CASE DeleteSidecar(r)
      BY <2>3 DEF DeleteSidecar
    <2>4. CASE DeleteRow(r)
      BY <2>4 DEF DeleteRow
    <2>5. CASE PatchCheckCourse(r)
      <3>1. CASE End(r)
        BY <2>5, <3>1 DEF PatchCheckCourse
      <3>2. CASE Goto(r, "update") /\ Owner[req[r].course] = Owner[req[r].doc]
        <4>1. file' = file /\ req' = [req EXCEPT ![r].pc = "update"]
          BY <2>5, <3>2 DEF PatchCheckCourse
        <4>2. req'[r].pc = "update" /\ req'[r].doc = req[r].doc
              /\ req'[r].course = req[r].course
          BY <4>1 DEF Request
        <4>3. \A q \in Requests \ {r} : req'[q] = req[q]
          BY <4>1
        <4>4. QED
          BY <3>2, <4>1, <4>2, <4>3
      <3>3. QED
        BY <2>5, <3>1, <3>2 DEF PatchCheckCourse
    <2>6. CASE PatchUpdate(r)
      BY <2>6 DEF PatchUpdate
    <2>7. CASE DropCourseLoadChildren(r)
      BY <2>7 DEF DropCourseLoadChildren, Request
    <2>8. CASE DropCourse(r)
      BY <2>8 DEF DropCourse
    <2>9. QED
      BY <1>2, <2>1, <2>2, <2>3, <2>4, <2>5, <2>6, <2>7, <2>8 DEF RequestStep
  <1>3. ASSUME Fault PROVE \A q \in Requests : RequestOnTrack(q)'
    BY <1>3 DEF Fault, Crash, RequestDbFault, DeleteFileFault, TaskDbFault, End,
         IdleRequest, stores
  <1>4. ASSUME UNCHANGED <<req, file>> PROVE \A q \in Requests : RequestOnTrack(q)'
    BY <1>4
  <1>5. \/ \E r \in Requests : ClientCall(r) \/ RequestStep(r)
        \/ Fault
        \/ UNCHANGED <<req, file>>
    BY DEF Next, vars, stores, CreateCourse, TaskStep, TaskLoad, TaskClaim,
         TaskDispatch, TaskEmbed, TaskUpsert, TaskSaveSidecar, TaskFinish, TaskFail
  <1>6. QED
    BY <1>1, <1>2, <1>3, <1>4, <1>5

\* What a background task relies on survives the steps of all others.
LEMMA TasksStayOnTrack ==
    ASSUME TypeOK, HandlersOnTrack, [Next]_vars
    PROVE  \A e \in Docs : TaskOnTrack(e)'
  <1> USE DEF TypeOK, TaskOnTrack, HandlersOnTrack
  <1>1. ASSUME NEW r \in Requests, NEW d \in Docs, UploadSaveFile(r, d)
        PROVE  \A e \in Docs : TaskOnTrack(e)'
    BY <1>1 DEF UploadSaveFile, db
  <1>2. ASSUME NEW r \in Requests, UploadInsertRow(r)
        PROVE  \A e \in Docs : TaskOnTrack(e)'
    BY <1>2 DEF UploadInsertRow, stores
  <1>3. ASSUME NEW r \in Requests, DeleteSidecar(r)
        PROVE  \A e \in Docs : TaskOnTrack(e)'
    <2>1. req[r].doc \notin file
      BY <1>3 DEF DeleteSidecar
    <2>2. QED
      BY <1>3, <2>1 DEF DeleteSidecar, db
  <1>4. ASSUME NEW d \in Docs, TaskStep(d)
        PROVE  \A e \in Docs : TaskOnTrack(e)'
    <2> USE DEF TaskAt, TaskGoto, TaskEnd, db, stores
    <2>1. CASE TaskLoad(d)
      BY <2>1 DEF TaskLoad
    <2>2. CASE TaskClaim(d)
      BY <2>2 DEF TaskClaim
    <2>3. CASE TaskDispatch(d)
      BY <2>3 DEF TaskDispatch
    <2>4. CASE TaskEmbed(d)
      BY <2>4 DEF TaskEmbed
    <2>5. CASE TaskUpsert(d)
      BY <2>5 DEF TaskUpsert
    <2>6. CASE TaskSaveSidecar(d)
      BY <2>6 DEF TaskSaveSidecar
    <2>7. CASE TaskFinish(d)
      BY <2>7 DEF TaskFinish
    <2>8. CASE TaskFail(d)
      BY <2>8 DEF TaskFail
    <2>9. QED
      BY <1>4, <2>1, <2>2, <2>3, <2>4, <2>5, <2>6, <2>7, <2>8 DEF TaskStep
  <1>5. ASSUME Fault PROVE \A e \in Docs : TaskOnTrack(e)'
    BY <1>5 DEF Fault, Crash, RequestDbFault, DeleteFileFault, TaskDbFault,
         TaskEnd, TaskGoto, db, stores
  <1>6. ASSUME NEW r \in Requests, DeleteRow(r) PROVE \A e \in Docs : TaskOnTrack(e)'
    BY <1>6 DEF DeleteRow, stores
  <1>7. ASSUME UNCHANGED <<task, status, content, indexed, sidecar>>, file' \subseteq file
        PROVE  \A e \in Docs : TaskOnTrack(e)'
    BY <1>7
  <1>8. \/ \E r \in Requests : \/ \E d \in Docs : UploadSaveFile(r, d)
                               \/ UploadInsertRow(r) \/ DeleteSidecar(r) \/ DeleteRow(r)
        \/ \E d \in Docs : TaskStep(d)
        \/ Fault
        \/ UNCHANGED <<task, status, content, indexed, sidecar>> /\ file' \subseteq file
    BY DEF Next, vars, db, stores, ClientCall, RequestStep, CreateCourse,
         DeleteBegin, PatchBegin, DropCourseBegin, DeleteFile, PatchCheckCourse,
         PatchUpdate, DropCourseLoadChildren, DropCourse
  <1>9. QED
    BY <1>1, <1>2, <1>3, <1>4, <1>5, <1>6, <1>7, <1>8

-----------------------------------------------------------------------------

\* The inductive invariant holds.
THEOREM Invariance == Spec => []IInv
  <1>1. Init => IInv
    <2> SUFFICES ASSUME Init PROVE IInv
      OBVIOUS
    <2>1. TypeOK
      BY IdleRequestType DEF Init, TypeOK, CourseLink, Status, TaskPC
    <2>2. LinkIntegrity /\ ReadyIsProcessed /\ NoFileOutlivesRow
      BY DEF Init, LinkIntegrity, ReadyIsProcessed, NoFileOutlivesRow
    <2>3. HandlersOnTrack
      BY DEF Init, HandlersOnTrack, IdleRequest
    <2>4. QED
      BY <2>1, <2>2, <2>3 DEF IInv
  <1>2. IInv /\ [Next]_vars => IInv'
    <2> SUFFICES ASSUME IInv, [Next]_vars PROVE IInv'
      OBVIOUS
    <2>1. TypeOK' /\ LinkIntegrity' /\ NoFileOutlivesRow' /\ ReadyIsProcessed'
      BY TypeStep, LinkStep, FileStep, ReadyStep DEF IInv
    <2>2. (\A r \in Requests : RequestOnTrack(r)')
      BY RequestsStayOnTrack DEF IInv, HandlersOnTrack, RequestOnTrack
    <2>3. (\A d \in Docs : TaskOnTrack(d)')
      BY TasksStayOnTrack DEF IInv
    <2>4. HandlersOnTrack'
      BY <2>2, <2>3 DEF HandlersOnTrack, RequestOnTrack, TaskOnTrack
    <2>5. QED
      BY <2>1, <2>4 DEF IInv
  <1>3. QED
    BY <1>1, <1>2, PTL DEF Spec

\* Every variable keeps its type.
THEOREM TypeCorrect == Spec => []TypeOK
  BY Invariance, PTL DEF IInv

\* A document is only ever filed under an existing course of its owner, however
\* PATCHes, uploads, deletes of documents and deletes of courses interleave.
THEOREM LinksAreSound == Spec => []LinkIntegrity
  BY Invariance, PTL DEF IInv

\* A document reported READY has been read, indexed and given its sidecar,
\* whatever fails and whoever else works on it.
THEOREM ReadyIsEarned == Spec => []ReadyIsProcessed
  BY Invariance, PTL DEF IInv

\* No file stays behind a deleted row.
THEOREM DeletedFilesAreGone == Spec => []NoFileOutlivesRow
  BY Invariance, PTL DEF IInv

\* Every handler finds, when it is resumed, what its earlier steps established.
THEOREM HandlersStayOnTrack == Spec => []HandlersOnTrack
  BY Invariance, PTL DEF IInv

-----------------------------------------------------------------------------
(* The handlers of DocumentLifecycle keep the promise of DocumentStore,    *)
(* and without failures files match rows and nobody is abandoned, for any  *)
(* number of documents, courses, users and concurrent requests.            *)
(*                                                                         *)
(* A request that is resumed acts on a row, a course or a list of children *)
(* that it read before it was suspended.  That its step still is a step of *)
(* the abstract store is what InFlight says of these earlier readings.     *)

\* What a request in flight is about: an upload has its file and its fresh id for
\* itself, a delete or a PATCH is about a document that had a row once, and the
\* delete of a course about a course that was opened and its owner's documents.
RequestInFlight(r) ==
    /\ req[r].pc = "insert" =>
           /\ req[r].doc \in file
           /\ status[req[r].doc] = "unborn"
           /\ \A q \in Requests \ {r} : req[q].doc # req[r].doc
    /\ req[r].pc \in {"unlink", "unlink_sidecar", "delete_row", "check_course", "update"} =>
           req[r].doc \in Docs /\ status[req[r].doc] # "unborn"
    /\ req[r].pc \in {"load_children", "drop_course"} =>
           req[r].course \in Courses /\ catalog[req[r].course] # "unborn"
    /\ \A d \in req[r].children : Owner[d] = Owner[req[r].course]

\* A task that has not claimed its document finds it unsettled or deleted, and one
\* that has finds it being processed or deleted: no second task works on it.
TaskInFlight(d) ==
    /\ task[d] \in {"queued", "loaded"} => status[d] \in {"uploading", "deleted"}
    /\ task[d] \notin {"none", "queued", "loaded"} => status[d] \in {"processing", "deleted"}

InFlight == (\A r \in Requests : RequestInFlight(r)) /\ (\A d \in Docs : TaskInFlight(d))

\* The document a request has at hand is one, where its next step needs it.
LEMMA InsertHasDoc ==
    ASSUME TypeOK, NEW r \in Requests, RequestInFlight(r), req[r].pc = "insert"
    PROVE  req[r].doc \in Docs
  BY DEF TypeOK, RequestInFlight

\* Rows and courses that were there once are never forgotten.
LEMMA NothingIsUnborn ==
    ASSUME TypeOK, HandlersOnTrack, InFlight, [Next]_vars
    PROVE  /\ \A d \in Docs : status[d] # "unborn" => status'[d] # "unborn"
           /\ \A c \in Courses : catalog[c] # "unborn" => catalog'[c] # "unborn"
  <1> USE DEF TypeOK
  <1>1. ASSUME UNCHANGED db
        PROVE  /\ \A d \in Docs : status[d] # "unborn" => status'[d] # "unborn"
               /\ \A c \in Courses : catalog[c] # "unborn" => catalog'[c] # "unborn"
    BY <1>1 DEF db
  <1>2. ASSUME NEW r \in Requests,
               UploadInsertRow(r) \/ DeleteRow(r) \/ PatchUpdate(r) \/ DropCourse(r)
        PROVE  /\ \A d \in Docs : status[d] # "unborn" => status'[d] # "unborn"
               /\ \A c \in Courses : catalog[c] # "unborn" => catalog'[c] # "unborn"
    BY <1>2 DEF UploadInsertRow, DeleteRow, PatchUpdate, DropCourse
  <1>3. ASSUME NEW c \in Courses, CreateCourse(c)
        PROVE  /\ \A d \in Docs : status[d] # "unborn" => status'[d] # "unborn"
               /\ \A x \in Courses : catalog[x] # "unborn" => catalog'[x] # "unborn"
    BY <1>3 DEF CreateCourse
  <1>4. ASSUME NEW e \in Docs, TaskClaim(e) \/ TaskFinish(e) \/ TaskFail(e)
        PROVE  /\ \A d \in Docs : status[d] # "unborn" => status'[d] # "unborn"
               /\ \A c \in Courses : catalog[c] # "unborn" => catalog'[c] # "unborn"
    BY <1>4 DEF TaskClaim, TaskFinish, TaskFail
  <1>5. QED
    BY <1>1, <1>2, <1>3, <1>4, DbWriters

\* The half of the requests.
LEMMA RequestsStayInFlight ==
    ASSUME TypeOK, LinkIntegrity, HandlersOnTrack, InFlight, [Next]_vars
    PROVE  \A q \in Requests : RequestInFlight(q)'
  <1>1. /\ \A d \in Docs : status[d] # "unborn" => status'[d] # "unborn"
        /\ \A c \in Courses : catalog[c] # "unborn" => catalog'[c] # "unborn"
    BY NothingIsUnborn
  <1>2. \A q \in Requests : RequestInFlight(q)
    BY DEF InFlight
  <1> USE DEF TypeOK, RequestInFlight, At
  <1>3. ASSUME NEW r \in Requests, ClientCall(r)
        PROVE  \A q \in Requests : RequestInFlight(q)'
    <2> USE DEF IdleRequest
    <2>1. ASSUME NEW d \in Docs, UploadSaveFile(r, d)
          PROVE  \A q \in Requests : RequestInFlight(q)'
      BY <2>1, <1>2, NullAssumption DEF UploadSaveFile, db
    <2>2. ASSUME NEW d \in Docs, DeleteBegin(r, d)
          PROVE  \A q \in Requests : RequestInFlight(q)'
      BY <2>2, <1>2 DEF DeleteBegin, db, stores, Live, LiveStatus
    <2>3. ASSUME NEW d \in Docs, NEW c \in CourseLink, PatchBegin(r, d, c)
          PROVE  \A q \in Requests : RequestInFlight(q)'
      BY <2>3, <1>2 DEF PatchBegin, db, stores, Live, LiveStatus
    <2>4. ASSUME NEW c \in Courses, DropCourseBegin(r, c)
          PROVE  \A q \in Requests : RequestInFlight(q)'
      BY <2>4, <1>2, NullAssumption DEF DropCourseBegin, db, stores, ExistingCourses
    <2>5. QED
      BY <1>3, <2>1, <2>2, <2>3, <2>4 DEF ClientCall
  <1>4. ASSUME NEW r \in Requests, RequestStep(r)
        PROVE  \A q \in Requests : RequestInFlight(q)'
    <2> USE DEF Goto, End, IdleRequest, db, stores
    <2>1. CASE UploadInsertRow(r)
      BY <2>1, <1>1, <1>2, NullAssumption DEF UploadInsertRow
    <2>2. CASE DeleteFile(r)
      BY <2>2, <1>2 DEF DeleteFile
    <2>3. CASE DeleteSidecar(r)
      BY <2>3, <1>2 DEF DeleteSidecar
    <2>4. CASE DeleteRow(r)
      BY <2>4, <1>1, <1>2, NullAssumption DEF DeleteRow
    <2>5. CASE PatchCheckCourse(r)
      <3>1. CASE End(r)
        BY <2>5, <1>2, <3>1, NullAssumption DEF PatchCheckCourse
      <3>2. CASE Goto(r, "update")
        BY <2>5, <1>2, <3>2 DEF PatchCheckCourse
      <3>3. QED
        BY <2>5, <3>1, <3>2 DEF PatchCheckCourse
    <2>6. CASE PatchUpdate(r)
      BY <2>6, <1>2, NullAssumption DEF PatchUpdate
    <2>7. CASE DropCourseLoadChildren(r)
      <3>1. \A d \in ChildrenToNull(r) : Owner[d] = Owner[req[r].course]
        BY <2>7, <1>2, NullAssumption
           DEF DropCourseLoadChildren, ChildrenToNull, Rows, LinkIntegrity
      <3>2. QED
        BY <2>7, <1>2, <3>1 DEF DropCourseLoadChildren
    <2>8. CASE DropCourse(r)
      BY <2>8, <1>1, <1>2, NullAssumption DEF DropCourse
    <2>9. QED
      BY <1>4, <2>1, <2>2, <2>3, <2>4, <2>5, <2>6, <2>7, <2>8 DEF RequestStep
  <1>5. ASSUME Fault PROVE \A q \in Requests : RequestInFlight(q)'
    BY <1>5, <1>2, NullAssumption DEF Fault, Crash, RequestDbFault, DeleteFileFault,
       TaskDbFault, End, IdleRequest, db, stores
  <1>6. ASSUME NEW c \in Courses, CreateCourse(c)
        PROVE  \A q \in Requests : RequestInFlight(q)'
    BY <1>6, <1>1, <1>2 DEF CreateCourse, stores
  <1>7. ASSUME NEW d \in Docs, TaskStep(d)
        PROVE  \A q \in Requests : RequestInFlight(q)'
    <2>1. \A e \in Docs : status[e] = "unborn" => status'[e] = "unborn"
      BY <1>7 DEF TaskStep, TaskLoad, TaskClaim, TaskDispatch, TaskEmbed, TaskUpsert,
         TaskSaveSidecar, TaskFinish, TaskFail, Live, LiveStatus, db
    <2>2. UNCHANGED <<req, file, catalog>>
      BY <1>7 DEF TaskStep, TaskLoad, TaskClaim, TaskDispatch, TaskEmbed, TaskUpsert,
         TaskSaveSidecar, TaskFinish, TaskFail, db, stores
    <2>3. QED
      BY <2>1, <2>2, <1>1, <1>2
  <1>8. CASE UNCHANGED vars
    BY <1>8, <1>2 DEF vars
  <1>9. QED
    BY <1>3, <1>4, <1>5, <1>6, <1>7, <1>8 DEF Next

\* The half of the tasks.
LEMMA TasksStayInFlight ==
    ASSUME TypeOK, InFlight, [Next]_vars
    PROVE  \A e \in Docs : TaskInFlight(e)'
  <1>1. \A e \in Docs : TaskInFlight(e)
    BY DEF InFlight
  <1>2. \A r \in Requests : RequestInFlight(r)
    BY DEF InFlight
  <1> USE DEF TypeOK, TaskInFlight
  <1>3. ASSUME NEW r \in Requests, UploadInsertRow(r)
        PROVE  \A e \in Docs : TaskInFlight(e)'
    BY <1>3, <1>1 DEF UploadInsertRow
  <1>4. ASSUME NEW r \in Requests, DeleteRow(r)
        PROVE  \A e \in Docs : TaskInFlight(e)'
    BY <1>4, <1>1 DEF DeleteRow
  <1>5. ASSUME NEW d \in Docs, TaskStep(d)
        PROVE  \A e \in Docs : TaskInFlight(e)'
    BY <1>5, <1>1 DEF TaskStep, TaskLoad, TaskClaim, TaskDispatch, TaskEmbed, TaskUpsert,
       TaskSaveSidecar, TaskFinish, TaskFail, TaskAt, TaskGoto, TaskEnd, Live, LiveStatus,
       db, TaskPC
  <1>6. ASSUME Fault PROVE \A e \in Docs : TaskInFlight(e)'
    BY <1>6, <1>1 DEF Fault, Crash, RequestDbFault, DeleteFileFault, TaskDbFault,
       TaskEnd, TaskGoto, db
  <1>7. ASSUME UNCHANGED <<task, status>> PROVE \A e \in Docs : TaskInFlight(e)'
    BY <1>7, <1>1
  <1>8. \/ \E r \in Requests : UploadInsertRow(r) \/ DeleteRow(r)
        \/ \E d \in Docs : TaskStep(d)
        \/ Fault
        \/ UNCHANGED <<task, status>>
    BY DEF Next, vars, db, ClientCall, RequestStep, CreateCourse, UploadSaveFile,
       DeleteBegin, PatchBegin, DropCourseBegin, DeleteFile, DeleteSidecar,
       PatchCheckCourse, PatchUpdate, DropCourseLoadChildren, DropCourse
  <1>9. QED
    BY <1>3, <1>4, <1>5, <1>6, <1>7, <1>8

\* Every handler in flight is about rows that were there, whoever ran meanwhile.
THEOREM HandlersStayInFlight == Spec => []InFlight
  <1>1. Init => InFlight
    BY DEF Init, InFlight, RequestInFlight, TaskInFlight, IdleRequest
  <1>2. IInv /\ InFlight /\ [Next]_vars => InFlight'
    <2> SUFFICES ASSUME IInv, InFlight, [Next]_vars PROVE InFlight'
      OBVIOUS
    <2>1. TypeOK /\ LinkIntegrity /\ HandlersOnTrack
      BY DEF IInv
    <2>2. (\A r \in Requests : RequestInFlight(r)')
      BY <2>1, RequestsStayInFlight
    <2>3. (\A d \in Docs : TaskInFlight(d)')
      BY <2>1, TasksStayInFlight
    <2>4. QED
      BY <2>2, <2>3 DEF InFlight
  <1>3. QED
    BY <1>1, <1>2, Invariance, PTL DEF Spec

-----------------------------------------------------------------------------
(* The refinement.                                                            *)

\* A row is live for the handlers exactly when its document is for the user.
LEMMA LivePhase ==
    ASSUME TypeOK, NEW d \in Docs
    PROVE  /\ Store!Live(d) <=> Live(d)
           /\ Phase(status[d]) = "unborn" <=> status[d] = "unborn"
           /\ Phase(status[d]) = "pending" <=> status[d] \in {"uploading", "processing"}
  BY DEF TypeOK, Store!Live, Live, Phase, Status, LiveStatus

\* The initial state is the abstract one.
LEMMA StoreInit == Init => Store!Init
  BY DEF Init, Store!Init, Phase

\* A PATCH of the course is a filing, an unfiling, or nothing the user sees.
LEMMA PatchIsFiling ==
    ASSUME TypeOK, HandlersOnTrack, InFlight, NEW r \in Requests, PatchUpdate(r)
    PROVE  Store!Next \/ UNCHANGED Store!vars
  <1> DEFINE d == req[r].doc
             c == req[r].course
  <1>1. req[r].pc = "update"
    BY DEF PatchUpdate, At
  <1>2. d \in Docs /\ (c # NoCourse => Owner[c] = Owner[d])
    BY <1>1 DEF InFlight, RequestInFlight, HandlersOnTrack
  <1>3. UNCHANGED <<status, catalog>>
    BY DEF PatchUpdate
  <1>4. CASE Live(d) /\ c # req[r].seen[d] /\ c \in ExistingCourses \cup {NoCourse}
    <2>1. link' = [link EXCEPT ![d] = c]
      BY <1>4 DEF PatchUpdate
    <2>2. Store!Live(d)
      BY <1>2, <1>4, LivePhase
    <2>3. CASE c = NoCourse
      <3>1. Store!Unfile(d)
        BY <2>1, <2>2, <2>3, <1>3 DEF Store!Unfile
      <3>2. QED
        BY <3>1, <1>2 DEF Store!Next
    <2>4. CASE c # NoCourse
      <3>1. c \in Courses /\ catalog[c] = "live"
        BY <1>4, <2>4 DEF ExistingCourses
      <3>2. Store!File(d, c)
        BY <2>1, <2>2, <2>4, <1>2, <1>3, <3>1 DEF Store!File
      <3>3. QED
        BY <3>1, <3>2, <1>2 DEF Store!Next
    <2>5. QED
      BY <2>3, <2>4
  <1>5. CASE ~(Live(d) /\ c # req[r].seen[d] /\ c \in ExistingCourses \cup {NoCourse})
    BY <1>3, <1>5 DEF PatchUpdate, Store!vars
  <1>6. QED
    BY <1>4, <1>5

\* Deleting a row removes its document; deleting it again changes nothing, since
\* a deleted document is filed nowhere.
LEMMA DeleteIsRemoval ==
    ASSUME TypeOK, LinkIntegrity, InFlight, NEW r \in Requests, DeleteRow(r)
    PROVE  Store!Next \/ UNCHANGED Store!vars
  <1> DEFINE d == req[r].doc
  <1>1. d \in Docs /\ status[d] # "unborn"
    BY DEF DeleteRow, At, InFlight, RequestInFlight
  <1>2. /\ status' = [status EXCEPT ![d] = "deleted"]
        /\ link' = [link EXCEPT ![d] = NoCourse]
        /\ UNCHANGED catalog
    BY DEF DeleteRow
  <1>3. CASE Live(d)
    <2>1. Store!Remove(d)
      BY <1>1, <1>2, <1>3, LivePhase DEF Store!Remove, Phase, TypeOK
    <2>2. QED
      BY <2>1, <1>1 DEF Store!Next
  <1>4. CASE ~Live(d)
    <2>1. status[d] = "deleted" /\ link[d] = NoCourse
      BY <1>1, <1>4 DEF TypeOK, Status, Live, LinkIntegrity
    <2>2. QED
      BY <1>1, <1>2, <2>1 DEF Store!vars, TypeOK
  <1>5. QED
    BY <1>3, <1>4

\* The delete of a course closes it, and unfiles documents of its owner only.
LEMMA DropIsClosing ==
    ASSUME TypeOK, InFlight, NEW r \in Requests, DropCourse(r)
    PROVE  Store!Next \/ UNCHANGED Store!vars
  <1> DEFINE c == req[r].course
             S == req[r].children
  <1>1. c \in Courses /\ catalog[c] # "unborn"
    BY DEF DropCourse, At, InFlight, RequestInFlight
  <1>2. S \in SUBSET {d \in Docs : Owner[d] = Owner[c]}
    BY DEF TypeOK, Request, InFlight, RequestInFlight
  <1>3. UNCHANGED status
    BY DEF DropCourse
  <1>4. CASE UNCHANGED <<catalog, link>>
    BY <1>3, <1>4 DEF Store!vars
  <1>5. CASE /\ catalog' = [catalog EXCEPT ![c] = "deleted"]
             /\ link' = [d \in Docs |-> IF d \in S \/ link[d] = c THEN NoCourse ELSE link[d]]
    <2>1. Store!Close(c)
      BY <1>1, <1>2, <1>3, <1>5 DEF Store!Close
    <2>2. QED
      BY <2>1, <1>1 DEF Store!Next
  <1>6. QED
    BY <1>4, <1>5 DEF DropCourse

\* The claim is invisible, and the last write of a task settles its document, at
\* most once, or finds it deleted and changes nothing.
LEMMA TaskSettles ==
    ASSUME TypeOK, InFlight, NEW d \in Docs, TaskClaim(d) \/ TaskFinish(d) \/ TaskFail(d)
    PROVE  Store!Next \/ UNCHANGED Store!vars
  <1>1. UNCHANGED <<link, catalog>>
    BY TaskWritesKeepRows
  <1>2. TaskInFlight(d)
    BY DEF InFlight
  <1>3. CASE status' = status
    BY <1>1, <1>3 DEF Store!vars
  <1>4. CASE TaskClaim(d) /\ Live(d) /\ status' = [status EXCEPT ![d] = "processing"]
    <2>1. status[d] = "uploading"
      BY <1>2, <1>4 DEF TaskClaim, TaskAt, TaskInFlight, Live, LiveStatus
    <2>2. \A e \in Docs : Phase(status'[e]) = Phase(status[e])
      BY <1>4, <2>1 DEF Phase, TypeOK
    <2>3. QED
      BY <1>1, <2>2 DEF Store!vars
  <1>5. ASSUME NEW p \in {"ready", "failed"}, task[d] \in {"finish", "fail"}, Live(d),
               status' = [status EXCEPT ![d] = p]
        PROVE  Store!Next
    <2>1. status[d] = "processing"
      BY <1>2, <1>5 DEF TaskInFlight, Live, LiveStatus
    <2>2. [e \in Docs |-> Phase(status'[e])]
              = [[e \in Docs |-> Phase(status[e])] EXCEPT ![d] = p]
      BY <1>5 DEF Phase, TypeOK
    <2>3. Store!Settle(d)
      BY <1>1, <2>1, <2>2 DEF Store!Settle, Phase
    <2>4. QED
      BY <2>3 DEF Store!Next
  <1>6. QED
    BY <1>3, <1>4, <1>5 DEF TaskClaim, TaskFinish, TaskFail, TaskAt

\* Every step of the handlers is a step of the abstract store, or invisible to it.
LEMMA StoreStep == IInv /\ InFlight /\ [Next]_vars => [Store!Next]_(Store!vars)
  <1> SUFFICES ASSUME IInv, InFlight, [Next]_vars
               PROVE  Store!Next \/ UNCHANGED Store!vars
    OBVIOUS
  <1>1. TypeOK /\ LinkIntegrity /\ HandlersOnTrack
    BY DEF IInv
  <1>2. CASE UNCHANGED db
    BY <1>2 DEF db, Store!vars
  <1>3. ASSUME NEW r \in Requests, UploadInsertRow(r) PROVE Store!Next
    <2> DEFINE d == req[r].doc
    <2>1. d \in Docs /\ status[d] = "unborn"
      BY <1>1, <1>3, InsertHasDoc DEF UploadInsertRow, At, InFlight, RequestInFlight
    <2>2. [e \in Docs |-> Phase(status'[e])]
              = [[e \in Docs |-> Phase(status[e])] EXCEPT ![d] = "pending"]
      BY <1>1, <1>3, <2>1 DEF UploadInsertRow, Phase, TypeOK
    <2>3. Store!Accept(d)
      BY <1>3, <2>1, <2>2 DEF UploadInsertRow, Store!Accept, Phase
    <2>4. QED
      BY <2>1, <2>3 DEF Store!Next
  <1>4. ASSUME NEW c \in Courses, CreateCourse(c) PROVE Store!Next
    <2>1. Store!Open(c)
      BY <1>4 DEF CreateCourse, Store!Open
    <2>2. QED
      BY <2>1 DEF Store!Next
  <1>5. QED
    BY <1>1, <1>2, <1>3, <1>4, DbWriters, DeleteIsRemoval, PatchIsFiling, DropIsClosing,
       TaskSettles

\* The handlers implement DocumentStore: documents are accepted once, settle at most
\* once, are filed under live courses of their owner and never come back, whatever
\* interleaves and whatever fails.
THEOREM HandlersImplementStore == Spec => ImplementsStore
  <1>1. QED
    BY StoreInit, StoreStep, Invariance, HandlersStayInFlight, PTL
       DEF Spec, ImplementsStore, Store!Spec

-----------------------------------------------------------------------------
(* Without failures.                                                          *)

\* A document whose file and row disagree is in the hands of a request.
InTransit(d, r) ==
    /\ req[r].doc = d
    /\ req[r].pc \in IF Live(d) THEN {"unlink_sidecar", "delete_row"} ELSE {"insert"}

\* A request step that is not about document d leaves d in the hands it was in.
LEMMA OthersKeepTransit ==
    ASSUME TypeOK, FilesMatchRows, NEW r \in Requests, NEW d \in Docs,
           \A q \in Requests \ {r} : req'[q] = req[q],
           req[r].doc = d => req[r].pc \notin {"unlink_sidecar", "delete_row", "insert"},
           Live(d)' <=> Live(d), d \in file' <=> d \in file
    PROVE  (Live(d) # (d \in file))' => \E q \in Requests : InTransit(d, q)'
  <1> SUFFICES ASSUME (Live(d) # (d \in file))' PROVE \E q \in Requests : InTransit(d, q)'
    OBVIOUS
  <1>1. Live(d) # (d \in file)
    BY DEF Live
  <1>2. PICK q \in Requests : InTransit(d, q)
    BY <1>1 DEF FilesMatchRows, InTransit
  <1>3. q # r
    BY <1>2 DEF InTransit, Live
  <1>4. InTransit(d, q)'
    BY <1>2, <1>3 DEF InTransit, Live
  <1>5. QED
    BY <1>4

\* Files match rows outside the requests that are changing both.
LEMMA FilesMatchStep ==
    ASSUME TypeOK, HandlersOnTrack, InFlight, FilesMatchRows, Faults = {}, [Next]_vars
    PROVE  FilesMatchRows'
  <1> DEFINE Good(d) == (Live(d) # (d \in file))' => \E q \in Requests : InTransit(d, q)'
  <1> SUFFICES ASSUME NEW d \in Docs PROVE Good(d)
    BY DEF FilesMatchRows, InTransit
  <1> USE DEF TypeOK, At, Live, LiveStatus
  <1>1. ASSUME NEW r \in Requests, ClientCall(r) PROVE Good(d)
    <2>1. /\ req[r].pc = "idle"
          /\ UNCHANGED status
          /\ \A q \in Requests \ {r} : req'[q] = req[q]
      BY <1>1 DEF ClientCall, UploadSaveFile, DeleteBegin, PatchBegin, DropCourseBegin, db
    <2>2. CASE d \in file' <=> d \in file
      BY <2>1, <2>2, OthersKeepTransit
    <2>3. CASE ~(d \in file' <=> d \in file)
      <3>1. UploadSaveFile(r, d)
        BY <1>1, <2>3 DEF ClientCall, UploadSaveFile, DeleteBegin, PatchBegin,
           DropCourseBegin, stores
      <3>2. status[d] = "unborn" /\ req'[r].doc = d /\ req'[r].pc = "insert"
        BY <3>1 DEF UploadSaveFile, IdleRequest
      <3>3. InTransit(d, r)'
        BY <2>1, <3>2 DEF InTransit
      <3>4. QED
        BY <3>3
    <2>4. QED
      BY <2>2, <2>3
  <1>2. ASSUME NEW r \in Requests, RequestStep(r) PROVE Good(d)
    <2>1. \A q \in Requests \ {r} : req'[q] = req[q]
      BY <1>2 DEF RequestStep, UploadInsertRow, DeleteFile, DeleteSidecar, DeleteRow,
         PatchCheckCourse, PatchUpdate, DropCourseLoadChildren, DropCourse, Goto, End
    <2>2. CASE UploadInsertRow(r)
      <3>1. CASE req[r].doc = d
        <4>1. d \in file' /\ Live(d)'
          BY <2>2, <3>1 DEF UploadInsertRow, InFlight, RequestInFlight, stores
        <4>2. QED
          BY <4>1
      <3>2. CASE req[r].doc # d
        <4>1. UNCHANGED file /\ status'[d] = status[d]
          BY <2>2, <3>2 DEF UploadInsertRow, stores
        <4>2. QED
          BY <2>1, <3>2, <4>1, OthersKeepTransit
      <3>3. QED
        BY <3>1, <3>2
    <2>3. CASE DeleteFile(r)
      <3>1. UNCHANGED status /\ file' = file \ {req[r].doc} /\ req[r].pc = "unlink"
        BY <2>3 DEF DeleteFile, db
      <3>2. CASE req[r].doc = d
        <4>1. req'[r].doc = d /\ req'[r].pc = "unlink_sidecar" /\ d \notin file'
          BY <2>3, <3>1, <3>2 DEF DeleteFile, Goto, Request
        <4>2. QED
          BY <3>1, <4>1 DEF InTransit
      <3>3. CASE req[r].doc # d
        BY <2>1, <3>1, <3>3, OthersKeepTransit
      <3>4. QED
        BY <3>2, <3>3
    <2>4. CASE DeleteSidecar(r)
      <3>1. UNCHANGED <<status, file>>
        BY <2>4 DEF DeleteSidecar, db
      <3>2. CASE req[r].doc = d
        <4>1. req'[r].doc = d /\ req'[r].pc = "delete_row" /\ d \notin file
          BY <2>4, <3>2 DEF DeleteSidecar, Goto, Request, HandlersOnTrack
        <4>2. QED
          BY <3>1, <4>1 DEF InTransit
      <3>3. CASE req[r].doc # d
        BY <2>1, <3>1, <3>3, OthersKeepTransit
      <3>4. QED
        BY <3>2, <3>3
    <2>5. CASE DeleteRow(r)
      <3>1. UNCHANGED file
        BY <2>5 DEF DeleteRow, stores
      <3>2. CASE req[r].doc = d
        <4>1. d \notin file' /\ ~Live(d)'
          BY <2>5, <3>1, <3>2 DEF DeleteRow, HandlersOnTrack
        <4>2. QED
          BY <4>1
      <3>3. CASE req[r].doc # d
        <4>1. status'[d] = status[d]
          BY <2>5, <3>3 DEF DeleteRow
        <4>2. QED
          BY <2>1, <3>1, <3>3, <4>1, OthersKeepTransit
      <3>4. QED
        BY <3>2, <3>3
    <2>6. CASE PatchCheckCourse(r) \/ PatchUpdate(r) \/ DropCourseLoadChildren(r)
               \/ DropCourse(r)
      <3>1. /\ UNCHANGED <<status, file>>
            /\ req[r].pc \notin {"unlink_sidecar", "delete_row", "insert"}
        BY <2>6 DEF PatchCheckCourse, PatchUpdate, DropCourseLoadChildren, DropCourse,
           db, stores
      <3>2. QED
        BY <2>1, <3>1, OthersKeepTransit
    <2>7. QED
      BY <1>2, <2>2, <2>3, <2>4, <2>5, <2>6 DEF RequestStep
  <1>3. ASSUME UNCHANGED <<req, file>>, Live(d)' <=> Live(d) PROVE Good(d)
    BY <1>3 DEF FilesMatchRows, InTransit
  <1>4. ASSUME NEW e \in Docs, TaskStep(e)
        PROVE  UNCHANGED <<req, file>> /\ (Live(d)' <=> Live(d))
    BY <1>4 DEF TaskStep, TaskLoad, TaskClaim, TaskDispatch, TaskEmbed, TaskUpsert,
       TaskSaveSidecar, TaskFinish, TaskFail, db, stores
  <1>5. ~Fault
    BY DEF Fault, Crash, RequestDbFault, DeleteFileFault, TaskDbFault
  <1>6. QED
    BY <1>1, <1>2, <1>3, <1>4, <1>5 DEF Next, vars, CreateCourse, stores

\* An unsettled document keeps its task.
LEMMA NobodyAbandonedStep ==
    ASSUME TypeOK, NobodyAbandoned, Faults = {}, [Next]_vars
    PROVE  NobodyAbandoned'
  <1> USE DEF TypeOK, NobodyAbandoned
  <1>1. ASSUME NEW r \in Requests, UploadInsertRow(r) \/ DeleteRow(r) PROVE NobodyAbandoned'
    BY <1>1 DEF UploadInsertRow, DeleteRow
  <1>2. ASSUME NEW d \in Docs, TaskStep(d) PROVE NobodyAbandoned'
    BY <1>2 DEF TaskStep, TaskLoad, TaskClaim, TaskDispatch, TaskEmbed, TaskUpsert,
       TaskSaveSidecar, TaskFinish, TaskFail, TaskGoto, TaskEnd, Live, LiveStatus, db, TaskPC
  <1>3. ~Fault
    BY DEF Fault, Crash, RequestDbFault, DeleteFileFault, TaskDbFault
  <1>4. \/ \E r \in Requests : UploadInsertRow(r) \/ DeleteRow(r)
        \/ \E d \in Docs : TaskStep(d)
        \/ UNCHANGED <<task, status>>
    BY <1>3 DEF Next, vars, db, ClientCall, RequestStep, CreateCourse, UploadSaveFile,
       DeleteBegin, PatchBegin, DropCourseBegin, DeleteFile, DeleteSidecar,
       PatchCheckCourse, PatchUpdate, DropCourseLoadChildren, DropCourse
  <1>5. QED
    BY <1>1, <1>2, <1>4

\* Where nothing fails, a row without its file or a file without its row is the
\* work of a request that is about to put it right.
THEOREM FilesMatch ==
    ASSUME Faults = {}
    PROVE  Spec => []FilesMatchRows
  <1>1. Init => FilesMatchRows
    BY DEF Init, FilesMatchRows, Live, LiveStatus
  <1>2. IInv /\ InFlight /\ FilesMatchRows /\ [Next]_vars => FilesMatchRows'
    BY FilesMatchStep DEF IInv
  <1>3. QED
    BY <1>1, <1>2, Invariance, HandlersStayInFlight, PTL DEF Spec

\* Where nothing fails, every unsettled document has a task that will settle it.
THEOREM EveryUploadHasATask ==
    ASSUME Faults = {}
    PROVE  Spec => []NobodyAbandoned
  <1>1. Init => NobodyAbandoned
    BY DEF Init, NobodyAbandoned
  <1>2. TypeOK /\ NobodyAbandoned /\ [Next]_vars => NobodyAbandoned'
    BY NobodyAbandonedStep
  <1>3. QED
    BY <1>1, <1>2, TypeCorrect, PTL DEF Spec
=============================================================================
