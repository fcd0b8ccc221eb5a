------------------------- MODULE DocumentLifecycle -------------------------
(***************************************************************************)
(* The life of an uploaded document in AcademicOS: the row in Postgres,    *)
(* the bytes and the processing sidecar on disk, the chunk vectors in      *)
(* Qdrant, and the requests and background tasks that move them            *)
(* (services/document_service.py, services/course_service.py and the       *)
(* endpoints that commit).  No transaction spans the three stores.         *)
(*                                                                         *)
(* One uvicorn process runs everything on one asyncio event loop: code     *)
(* between two real suspensions is not interleaved with other handlers,    *)
(* but the process can die inside it.  `loop' names the handler that is    *)
(* inside such a stretch, so a stretch with several effects is several     *)
(* actions that nothing but a crash can separate.                          *)
(***************************************************************************)
EXTENDS Naturals, FiniteSets

CONSTANTS
    Docs,         \* document ids (uuid4, never reused)
    Courses,      \* course ids (uuid4, never reused)
    Users,
    Requests,     \* slots for requests in flight
    Owner,        \* the user who uploads a document / creates a course
    NoDoc, NoCourse, Missing, Free,
    Faults        \* which failures may happen: "crash", "db", "fs"

ASSUME OwnerAssumption   == \A x \in Docs \cup Courses : Owner[x] \in Users
ASSUME NullAssumption    == /\ NoDoc \notin Docs
                            /\ NoCourse \notin Courses
                            /\ Missing \notin Courses \cup {NoCourse}
                            /\ Free \notin Docs \cup Requests
                            /\ Docs \cap Requests = {}
ASSUME FaultsAssumption  == Faults \subseteq {"crash", "db", "fs"}

VARIABLES
    \* Postgres
    status,       \* documents.upload_status, or why there is no row
    link,         \* documents.course_id
    catalog,      \* per course id, whether table courses holds it
    \* UPLOAD_DIR and Qdrant
    file,         \* documents whose bytes are on disk
    sidecar,      \* documents whose <file>.processing.json is on disk
    indexed,      \* documents with chunk vectors in the Qdrant collection
    \* the uploads' bytes: what extraction will find in them
    content,
    \* the server process
    req,          \* requests in flight
    task,         \* background run of process_document, one per document
    loop          \* the handler inside a stretch without suspension

db     == <<status, link, catalog>>
stores == <<file, sidecar, indexed, content>>
vars   == <<status, link, catalog, file, sidecar, indexed, content, req, task, loop>>

CourseLink == Courses \cup {NoCourse}
LiveStatus == {"uploading", "processing", "ready", "failed"}
Status     == LiveStatus \cup {"unborn", "deleted"}   \* the last two: no row
Content    == {"text", "blank", "unreadable"}
ReqPC      == {"idle", "insert", "unlink", "unlink_sidecar", "delete_row",
               "check_course", "update", "load_children", "drop_course"}
TaskPC     == {"none", "queued", "loaded", "dispatch", "embed", "upsert",
               "save", "finish", "fail"}

Live(d)  == status[d] \in LiveStatus
Rows     == {d \in Docs : Live(d)}
ExistingCourses == {c \in Courses : catalog[c] = "live"}
LoopFree == loop = Free

\* What the session of a request by `u' holds of the documents table from
\* authentication on: User.documents is loaded eagerly, and session.get answers
\* from these instances without looking at the database again.
AuthSnapshot(u) ==
    [d \in Docs |-> IF Live(d) /\ Owner[d] = u THEN link[d] ELSE Missing]

IdleRequest == [pc |-> "idle", doc |-> NoDoc, course |-> NoCourse,
                seen |-> [d \in Docs |-> Missing], children |-> {}]

Request == [pc : ReqPC, doc : Docs \cup {NoDoc}, course : CourseLink,
            seen : [Docs -> CourseLink \cup {Missing}], children : SUBSET Docs]

TypeOK ==
    /\ status \in [Docs -> Status]
    /\ link \in [Docs -> CourseLink]
    /\ catalog \in [Courses -> {"unborn", "live", "deleted"}]
    /\ file \subseteq Docs
    /\ sidecar \subseteq Docs
    /\ indexed \subseteq Docs
    /\ content \in [Docs -> Content]
    /\ req \in [Requests -> Request]
    /\ task \in [Docs -> TaskPC]
    /\ loop \in Requests \cup Docs \cup {Free}

Init ==
    /\ status = [d \in Docs |-> "unborn"]
    /\ link = [d \in Docs |-> NoCourse]
    /\ catalog = [c \in Courses |-> "unborn"]
    /\ file = {}
    /\ sidecar = {}
    /\ indexed = {}
    /\ content \in [Docs -> Content]
    /\ req = [r \in Requests |-> IdleRequest]
    /\ task = [d \in Docs |-> "none"]
    /\ loop = Free

-----------------------------------------------------------------------------
(* A request's bookkeeping.  At(r, pc): r has been resumed (nobody is inside  *)
(* a stretch without suspension) and is about to run what follows pc.         *)

At(r, pc)   == LoopFree /\ req[r].pc = pc
Goto(r, pc) == req' = [req EXCEPT ![r].pc = pc]
End(r)      == req' = [req EXCEPT ![r] = IdleRequest]

-----------------------------------------------------------------------------
(* POST /documents/upload                                                     *)

\* create_document up to the INSERT: the bytes go to disk (temp file, then
\* os.replace) under a fresh name before there is a row.
UploadSaveFile(r, d) ==
    /\ At(r, "idle")
    /\ status[d] = "unborn" /\ d \notin file
    /\ \A q \in Requests : req[q].doc # d
    /\ file' = file \cup {d}
    /\ req' = [req EXCEPT ![r] = [IdleRequest EXCEPT !.pc = "insert", !.doc = d]]
    /\ UNCHANGED <<db, sidecar, indexed, content, task, loop>>

\* INSERT, flush, refresh, then the endpoint's commit and add_task.
UploadInsertRow(r) ==
    LET d == req[r].doc IN
    /\ At(r, "insert")
    /\ status' = [status EXCEPT ![d] = "uploading"]
    /\ task' = [task EXCEPT ![d] = "queued"]
    /\ End(r)
    /\ UNCHANGED <<link, catalog, stores, loop>>

-----------------------------------------------------------------------------
(* DELETE /documents/{id}: file first, row second                             *)

\* Authentication and get_document_for_owner.  A document that is missing from
\* the snapshot is answered 404: its id is foreign, or was deleted before.
DeleteBegin(r, d) ==
    /\ At(r, "idle")
    /\ Live(d)
    /\ req' = [req EXCEPT ![r] = [IdleRequest EXCEPT !.pc = "unlink", !.doc = d]]
    /\ UNCHANGED <<db, stores, task, loop>>

\* Mutant: the path is not the one the file was saved under, and unlink is
\* permissive.
DeleteFileElsewhere(r) ==
    /\ At(r, "unlink")
    /\ Goto(r, "unlink_sidecar")
    /\ loop' = r
    /\ UNCHANGED <<db, stores, task>>

\* Mutant: a missing file is retried instead of tolerated.
DeleteFileStrict(r) ==
    /\ At(r, "unlink")
    /\ req[r].doc \in file
    /\ file' = file \ {req[r].doc}
    /\ Goto(r, "unlink_sidecar")
    /\ loop' = r
    /\ UNCHANGED <<db, sidecar, indexed, content, task>>

\* storage.delete(storage_path): permissive about a file that is gone.
DeleteFile(r) ==
    /\ At(r, "unlink")
    /\ file' = file \ {req[r].doc}
    /\ Goto(r, "unlink_sidecar")
    /\ loop' = r
    /\ UNCHANGED <<db, sidecar, indexed, content, task>>

\* exists, then delete, of the sidecar; an error there is logged and swallowed.
DeleteSidecar(r) ==
    /\ loop = r /\ req[r].pc = "unlink_sidecar"
    /\ \/ sidecar' = sidecar \ {req[r].doc}
       \/ "fs" \in Faults /\ sidecar' = sidecar
    /\ Goto(r, "delete_row")
    /\ loop' = Free
    /\ UNCHANGED <<db, file, indexed, content, task>>

\* repo.delete and commit.  Deleting a row that is already gone only warns.
DeleteRow(r) ==
    LET d == req[r].doc IN
    /\ At(r, "delete_row")
    /\ status' = [status EXCEPT ![d] = "deleted"]
    /\ link' = [link EXCEPT ![d] = NoCourse]
    /\ End(r)
    /\ UNCHANGED <<catalog, stores, task, loop>>

-----------------------------------------------------------------------------
(* PATCH /documents/{id} with a course_id                                     *)

PatchBegin(r, d, c) ==
    /\ At(r, "idle")
    /\ Live(d)
    /\ c \in Courses => catalog[c] # "unborn"     \* a uuid nobody has seen
    /\ req' = [req EXCEPT ![r] = [IdleRequest EXCEPT
                  !.pc = IF c = NoCourse THEN "update" ELSE "check_course",
                  !.doc = d, !.course = c, !.seen = AuthSnapshot(Owner[d])]]
    /\ UNCHANGED <<db, stores, task, loop>>

\* Mutant: the check asks for existence only.
PatchCheckCourseExists(r) ==
    /\ At(r, "check_course")
    /\ IF req[r].course \in ExistingCourses THEN Goto(r, "update") ELSE End(r)
    /\ UNCHANGED <<db, stores, task, loop>>

\* _assert_course_owned_by: a SELECT, so it sees the current courses.
PatchCheckCourse(r) ==
    LET c == req[r].course
        u == Owner[req[r].doc]
    IN
    /\ At(r, "check_course")
    /\ IF c \in ExistingCourses /\ Owner[c] = u THEN Goto(r, "update") ELSE End(r)
    /\ UNCHANGED <<db, stores, task, loop>>

\* repo.set_course and commit.  No UPDATE is emitted when the value equals the
\* snapshot's; an UPDATE fails when the row is gone (StaleDataError) or the
\* course is (foreign key).
PatchUpdate(r) ==
    LET d == req[r].doc
        c == req[r].course
    IN
    /\ At(r, "update")
    /\ link' = IF Live(d) /\ c # req[r].seen[d] /\ c \in ExistingCourses \cup {NoCourse}
               THEN [link EXCEPT ![d] = c] ELSE link
    /\ End(r)
    /\ UNCHANGED <<status, catalog, stores, task, loop>>

-----------------------------------------------------------------------------
(* POST /courses and DELETE /courses/{id}                                     *)

\* The INSERT that gets past create_course's checks, and its commit.
CreateCourse(c) ==
    /\ LoopFree
    /\ catalog[c] = "unborn"
    /\ catalog' = [catalog EXCEPT ![c] = "live"]
    /\ UNCHANGED <<status, link, stores, req, task, loop>>

\* Authentication and get_course_for_owner; 404 for a course that is gone.
DropCourseBegin(r, c) ==
    /\ At(r, "idle")
    /\ c \in ExistingCourses
    /\ req' = [req EXCEPT ![r] = [IdleRequest EXCEPT
                  !.pc = "load_children", !.course = c,
                  !.seen = AuthSnapshot(Owner[c])]]
    /\ UNCHANGED <<db, stores, task, loop>>

\* The flush of session.delete(course) first loads Course.documents, to null
\* their course_id.  A child whose snapshot already has no course gets no
\* UPDATE; the database's ON DELETE SET NULL takes care of it.
ChildrenToNull(r) ==
    {d \in Rows : link[d] = req[r].course /\ req[r].seen[d] # NoCourse}

DropCourseLoadChildren(r) ==
    /\ At(r, "load_children")
    /\ req' = [req EXCEPT ![r] =
                  [@ EXCEPT !.pc = "drop_course", !.children = ChildrenToNull(r)]]
    /\ UNCHANGED <<db, stores, task, loop>>

\* UPDATE documents SET course_id = NULL for the loaded children, by id, then
\* DELETE the course (ON DELETE SET NULL for the rest), then commit.  A single
\* child whose row is gone fails the flush; the driver reports no row count for
\* a batch, so with several children a missing one may go unnoticed.
DropCourse(r) ==
    LET c == req[r].course
        gone == req[r].children \ Rows
    IN
    /\ At(r, "drop_course")
    /\ \/ /\ gone # {} => Cardinality(req[r].children) > 1
          /\ catalog' = [catalog EXCEPT ![c] = "deleted"]
          /\ link' = [d \in Docs |-> IF d \in req[r].children \/ link[d] = c
                                     THEN NoCourse ELSE link[d]]
       \/ /\ gone # {}
          /\ UNCHANGED <<catalog, link>>
    /\ End(r)
    /\ UNCHANGED <<status, stores, task, loop>>

-----------------------------------------------------------------------------
(* The background task: process_document                                      *)

TaskAt(d, pc)   == LoopFree /\ task[d] = pc
TaskGoto(d, pc) == task' = [task EXCEPT ![d] = pc]
TaskEnd(d)      == TaskGoto(d, "none")

\* repo.get_by_id on the request's closed, hence empty, session: a SELECT.
TaskLoad(d) ==
    /\ TaskAt(d, "queued")
    /\ IF Live(d) THEN TaskGoto(d, "loaded") ELSE TaskEnd(d)
    /\ UNCHANGED <<db, stores, req, loop>>

\* set_status(PROCESSING) and commit, before the try block: the UPDATE of a row
\* that is gone raises out of the task.
TaskClaim(d) ==
    /\ TaskAt(d, "loaded")
    /\ \/ /\ Live(d)
          /\ status' = [status EXCEPT ![d] = "processing"]
          /\ TaskGoto(d, "dispatch")
       \/ /\ ~Live(d)
          /\ TaskEnd(d)
          /\ UNCHANGED status
    /\ UNCHANGED <<link, catalog, stores, req, loop>>

\* Mutant: dispatch runs before the try block, so its exception ends the task.
TaskDispatchOutsideTry(d) ==
    /\ TaskAt(d, "dispatch")
    /\ IF d \in file /\ content[d] = "text" THEN TaskGoto(d, "embed") ELSE TaskEnd(d)
    /\ UNCHANGED <<db, stores, req, loop>>

\* dispatcher.dispatch reads the file and cuts it into chunks without a
\* suspension.  A missing or unreadable file raises; a text without chunks
\* goes straight on to the sidecar.
TaskDispatch(d) ==
    /\ TaskAt(d, "dispatch")
    /\ \/ /\ d \notin file \/ content[d] = "unreadable"
          /\ TaskGoto(d, "fail")
          /\ UNCHANGED loop
       \/ /\ d \in file /\ content[d] = "blank"
          /\ TaskGoto(d, "save")
          /\ loop' = d
       \/ /\ d \in file /\ content[d] = "text"
          /\ TaskGoto(d, "embed")
          /\ UNCHANGED loop
    /\ UNCHANGED <<db, stores, req>>

\* Mutant: a failing embedding is treated as a document without chunks.
TaskEmbedSwallow(d) ==
    /\ TaskAt(d, "embed")
    /\ TaskGoto(d, "upsert") \/ TaskGoto(d, "save")
    /\ loop' = d
    /\ UNCHANGED <<db, stores, req>>

\* generate_embeddings runs the model in a worker thread.
TaskEmbed(d) ==
    /\ TaskAt(d, "embed")
    /\ \/ TaskGoto(d, "upsert") /\ loop' = d
       \/ TaskGoto(d, "fail") /\ UNCHANGED loop
    /\ UNCHANGED <<db, stores, req>>

\* create_collection and upsert_vectors, blocking calls.  A failing call may have
\* taken effect.
TaskUpsert(d) ==
    /\ loop = d /\ task[d] = "upsert"
    /\ \/ /\ indexed' = indexed \cup {d}
          /\ TaskGoto(d, "save")
          /\ UNCHANGED loop
       \/ /\ indexed' \in {indexed, indexed \cup {d}}
          /\ TaskGoto(d, "fail")
          /\ loop' = Free
    /\ UNCHANGED <<db, file, sidecar, content, req>>

TaskSaveSidecar(d) ==
    /\ loop = d /\ task[d] = "save"
    /\ \/ sidecar' = sidecar \cup {d} /\ TaskGoto(d, "finish")
       \/ "fs" \in Faults /\ sidecar' = sidecar /\ TaskGoto(d, "fail")
    /\ loop' = Free
    /\ UNCHANGED <<db, file, indexed, content, req>>

\* Mutant: the status is written with an upsert (session.merge).
TaskFinishMerge(d) ==
    /\ TaskAt(d, "finish")
    /\ status' = [status EXCEPT ![d] = "ready"]
    /\ TaskEnd(d)
    /\ UNCHANGED <<link, catalog, stores, req, loop>>

\* set_status(READY) and commit.  When the row is gone the flush fails, and so
\* does the handler's own status write on the broken session: the task dies.
TaskFinish(d) ==
    /\ TaskAt(d, "finish")
    /\ status' = IF Live(d) THEN [status EXCEPT ![d] = "ready"] ELSE status
    /\ TaskEnd(d)
    /\ UNCHANGED <<link, catalog, stores, req, loop>>

\* Mutant: the except branch only logs.
TaskFailLogOnly(d) ==
    /\ TaskAt(d, "fail")
    /\ TaskEnd(d)
    /\ UNCHANGED <<db, stores, req, loop>>

\* The except branch: set_status(FAILED) and commit.
TaskFail(d) ==
    /\ TaskAt(d, "fail")
    /\ status' = IF Live(d) THEN [status EXCEPT ![d] = "failed"] ELSE status
    /\ TaskEnd(d)
    /\ UNCHANGED <<link, catalog, stores, req, loop>>

-----------------------------------------------------------------------------
(* Failures                                                                   *)

\* The process dies: handlers, queued tasks and uncommitted work are gone, and
\* nothing resumes them at the next start.
Crash ==
    /\ "crash" \in Faults
    /\ req' = [r \in Requests |-> IdleRequest]
    /\ task' = [d \in Docs |-> "none"]
    /\ loop' = Free
    /\ UNCHANGED <<db, stores>>

\* A database call of a request fails (connection lost, deadlock victim): the
\* exception ends the request and closing its session rolls back.
RequestDbFault(r) ==
    /\ "db" \in Faults
    /\ LoopFree
    /\ req[r].pc \in {"insert", "delete_row", "check_course", "update",
                      "load_children", "drop_course"}
    /\ End(r)
    /\ UNCHANGED <<db, stores, task, loop>>

\* The same for the task.  Only the READY write is inside the try block: its
\* failure leads to the FAILED write, or kills the task if the session is unusable.
TaskDbFault(d) ==
    /\ "db" \in Faults
    /\ LoopFree
    /\ \/ task[d] \in {"queued", "loaded", "finish", "fail"} /\ TaskEnd(d)
       \/ task[d] = "finish" /\ TaskGoto(d, "fail")
    /\ UNCHANGED <<db, stores, req, loop>>

\* Mutant: the error is swallowed like the sidecar's.
DeleteFileFaultSwallow(r) ==
    /\ "fs" \in Faults
    /\ At(r, "unlink")
    /\ Goto(r, "unlink_sidecar")
    /\ loop' = r
    /\ UNCHANGED <<db, stores, task>>

\* storage.delete fails on the document's file: nothing has changed yet.
DeleteFileFault(r) ==
    /\ "fs" \in Faults
    /\ At(r, "unlink")
    /\ End(r)
    /\ UNCHANGED <<db, stores, task, loop>>

-----------------------------------------------------------------------------

RequestStep(r) ==
    \/ UploadInsertRow(r)
    \/ DeleteFile(r) \/ DeleteSidecar(r) \/ DeleteRow(r)
    \/ PatchCheckCourse(r) \/ PatchUpdate(r)
    \/ DropCourseLoadChildren(r) \/ DropCourse(r)

TaskStep(d) ==
    \/ TaskLoad(d) \/ TaskClaim(d) \/ TaskDispatch(d) \/ TaskEmbed(d)
    \/ TaskUpsert(d) \/ TaskSaveSidecar(d) \/ TaskFinish(d) \/ TaskFail(d)

ClientCall(r) ==
    \/ \E d \in Docs : UploadSaveFile(r, d) \/ DeleteBegin(r, d)
    \/ \E d \in Docs, c \in CourseLink : PatchBegin(r, d, c)
    \/ \E c \in Courses : DropCourseBegin(r, c)

Fault ==
    \/ Crash
    \/ \E r \in Requests : RequestDbFault(r) \/ DeleteFileFault(r)
    \/ \E d \in Docs : TaskDbFault(d)

Next ==
    \/ \E r \in Requests : ClientCall(r) \/ RequestStep(r)
    \/ \E c \in Courses : CreateCourse(c)
    \/ \E d \in Docs : TaskStep(d)
    \/ Fault

Spec == Init /\ [][Next]_vars

\* The event loop resumes every handler whose awaited call has completed, and
\* awaited calls complete.  Clients need not send anything.
FairSpec ==
    /\ Spec
    /\ \A r \in Requests : WF_vars(RequestStep(r))
    /\ \A d \in Docs : WF_vars(TaskStep(d))
-----------------------------------------------------------------------------
(* Safety                                                                     *)

\* A document filed under a course exists, and so does the course, which belongs
\* to the document's owner: the check before the UPDATE, the foreign key and
\* ON DELETE SET NULL together keep links sound while documents and courses are
\* removed between any two steps of a PATCH.
LinkIntegrity ==
    \A d \in Docs : link[d] # NoCourse =>
        /\ Live(d)
        /\ link[d] \in ExistingCourses
        /\ Owner[link[d]] = Owner[d]

\* READY means that the pipeline went all the way: the file could be read, its
\* chunks are in the collection if it has any, and the sidecar was written; the
\* sidecar is missing only if a delete has already taken the file.  Statuses and
\* stores are written in separate steps, any of which can fail or be the last.
ReadyIsProcessed ==
    \A d \in Docs : status[d] = "ready" =>
        /\ content[d] # "unreadable"
        /\ content[d] = "text" => d \in indexed
        /\ d \in file => d \in sidecar

\* A deleted row never leaves its file behind, whatever fails between the two
\* steps of delete_document (tests #12 and #13 of test_documents.py).
NoFileOutlivesRow == \A d \in Docs : status[d] = "deleted" => d \notin file

\* What a handler relies on when it is resumed, although others ran meanwhile: a
\* delete that reaches the sidecar or the row has the file behind it, a PATCH
\* about to write has had the course's owner checked, and a task that is past a
\* stage of the pipeline still has that stage's result.
HandlersOnTrack ==
    /\ \A r \in Requests :
        /\ req[r].pc \in {"unlink_sidecar", "delete_row"} => req[r].doc \notin file
        /\ req[r].pc = "update" /\ req[r].course # NoCourse =>
               Owner[req[r].course] = Owner[req[r].doc]
    /\ \A d \in Docs :
        /\ task[d] # "none" => status[d] # "unborn"
        /\ task[d] \in {"embed", "upsert"} => content[d] = "text"
        /\ task[d] \in {"save", "finish"} => /\ content[d] # "unreadable"
                                             /\ content[d] = "text" => d \in indexed
        /\ task[d] = "finish" => (d \in file => d \in sidecar)

\* Without failures, files and rows disagree only inside a request: an upload
\* about to insert its row, or a delete that has unlinked and not yet removed it.
FilesMatchRows ==
    \A d \in Docs : Live(d) # (d \in file) =>
        \E r \in Requests :
            /\ req[r].doc = d
            /\ req[r].pc \in IF Live(d) THEN {"unlink_sidecar", "delete_row"}
                                        ELSE {"insert"}

\* Without failures no document is left unsettled without a task that works on
\* it: the task is the only one that will ever move it out of UPLOADING or
\* PROCESSING.
NobodyAbandoned ==
    \A d \in Docs : status[d] \in {"uploading", "processing"} => task[d] # "none"

\* The handlers implement the promise of DocumentStore, READY, FAILED and the two
\* unsettled statuses being its phases.  In particular the task, which keeps an
\* ORM instance of a row that others change and delete, neither brings a deleted
\* row back nor writes back the course it read.
Phase(s) == IF s \in {"uploading", "processing"} THEN "pending" ELSE s

Store == INSTANCE DocumentStore WITH phase <- [d \in Docs |-> Phase(status[d])]

ImplementsStore == Store!Spec

\* Deleting a course unfiles its own documents only.
\* 0004_course_resource_links.py: "if a course is removed, its documents and chat
\* sessions simply revert to uncoursed".
CloseUnfilesOnlyItsDocuments ==
    [][\A c \in Courses : (catalog[c] = "live" /\ catalog'[c] = "deleted") =>
          \A d \in Docs : link'[d] # link[d] => link[d] = c]_vars

-----------------------------------------------------------------------------
(* Liveness, without failures                                                 *)

\* Every accepted upload is eventually READY, FAILED or deleted.
UploadSettles ==
    \A d \in Docs : status[d] = "uploading" ~> status[d] \in {"ready", "failed", "deleted"}

\* Every request is answered, whatever it meets on its way.
RequestsEnd == \A r \in Requests : req[r].pc # "idle" ~> req[r].pc = "idle"
=============================================================================
