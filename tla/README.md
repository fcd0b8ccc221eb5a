# A verification of AcademicOS

AcademicOS is a FastAPI backend (async SQLAlchemy on Postgres, Qdrant for
vectors, uploads on the local disk, a hosted language model) with a Next.js
frontend.  Users upload documents, which a background task extracts, chunks,
embeds and indexes; they file documents and chat sessions under courses; and
they ask questions that are answered from the indexed chunks.

The modules here are TLA+ specifications of the parts of it where correctness
depends on the order of things, and of the algorithms in between, checked with TLC
on small instances, and theorems about them for every value of the constants,
checked with TLAPS.

    tlc -config lifecycle_faults.cfg MCDocumentLifecycle.tla
    tlapm DocumentLifecycleProofs.tla

## The system

| Component | State | Operations |
| --- | --- | --- |
| Documents (`services/document_service.py`, `endpoints/documents.py`) | row in `documents` (status, course), file and sidecar on disk, vectors in Qdrant | upload, PATCH, delete, list, download, background `process_document` |
| Courses (`services/course_service.py`) | row in `courses`, name unique per owner | create, PATCH, delete, list |
| Chat (`services/chat_service.py`, `rag/service.py`) | `chat_sessions`, `chat_messages`, `chat_message_sources` | create (with an opening question), PATCH, delete, list, send a message |
| Retrieval (`services/retrieval_service.py`, `processing/embeddings/qdrant.py`) | the Qdrant collection | semantic and keyword search, fusion, rerank |
| Processing (`processing/`) | none | dispatch by file type, extract, clean, chunk and find the page of each chunk, embed, upsert |
| Storage (`storage/`) | files under `UPLOAD_DIR` | atomic save, permissive delete, type detection |
| Language model (`llm/`) | none | one HTTP call with a timeout |
| Accounts (`services/auth_service.py`, `core/security.py`) | row in `users`, bearer tokens | register, login, current user |
| Database layer (`db/`, `api/deps.py`) | one session per request | identity map, flush, commit, rollback on close |
| Chat page (`ChatPanel.tsx`) | React state | list, select, load, create, send |
| Course and document pages (`CoursesPanel`, `DocumentsPanel`, `CourseWorkspace`, `DocumentDetailPanel`) | React state of the page that is mounted | list, filter, create, upload, edit, delete, go elsewhere |
| Authentication context (`AuthContext.tsx`) | status and user per tab, the token in localStorage | boot, login, register, logout |

How they interact:

* One uvicorn process runs every handler and every background task on one event
  loop.  Handlers are interleaved where they really suspend: at database calls, in
  the embedding's worker thread, at the language model's HTTP call and when
  reading an upload.  File operations and the Qdrant client block the loop; between
  them only a crash can intervene.
* A request has one database session.  Authentication loads the user with their
  documents, courses and chat sessions (`lazy="selectin"`), and `session.get`
  answers from these instances for the rest of the request: later reads by primary
  key are a snapshot, SELECTs with conditions are not.  A flush emits an UPDATE
  only for a value that differs from the snapshot.
* Services flush, endpoints (for documents and courses) or the service itself (for
  chat) commit.  Closing the session rolls back.
* No transaction spans Postgres, the disk and Qdrant.
* Foreign keys cascade: courses set their documents' and sessions' `course_id` to
  NULL; documents delete their citations and the sessions about them; sessions
  delete their messages and citations.
* A page of the frontend awaits what it asks for and goes on with what arrives;
  only the buttons that are disabled, and in two places a token or a flag, order
  what a user does meanwhile.  Tabs share localStorage and nothing else.

What is hard: deletion while a task or a request is at work on the same row;
stores that are written one after the other; a transaction that is open for as
long as a language model takes; snapshots; row locks and deadlocks; a task that
exists only in memory; answers that arrive in another order than they were asked
for, or after the page has gone; two copies of one row, one of them old.
`PROJECT.json` lists each such place with its line.

## The modules

| Module | What it is |
| --- | --- |
| `DocumentStore` | what the document endpoints promise: phases of a document, its course |
| `DocumentLifecycle` | upload, delete, PATCH, course deletion and background task, step by step, with crashes and failures; implements `DocumentStore` |
| `DocumentLifecycleProofs` | its invariants proved, that it implements `DocumentStore`, and what it owes when nothing fails |
| `Conversation` | what the chat endpoints promise: turns enter and leave a conversation whole |
| `ChatTurn` | `send_message` and everything that can happen to its rows meanwhile; implements `Conversation` |
| `ChatTurnProofs` | its invariants proved, and that it implements `Conversation` |
| `CourseBook` | what the course endpoints promise about the table |
| `Courses` | the five course endpoints, several at a time, each with its snapshot; implements `CourseBook` |
| `CoursesProofs` | its invariants, its action properties and the refinement proved |
| `Accounts` | the accounts, and what the server answers to a registration, a login and a token |
| `SignIn` | the authentication context in several tabs on one storage; extends `Accounts` |
| `SignInProofs` | its properties proved |
| `ChatPanel` | the chat page: its handlers, resumed by responses in any order, while the user clicks on |
| `ChatPanelProofs` | its invariants proved |
| `PageCalls` | what the other pages share: the server's rows, calls in flight, loaders, the delete dialog |
| `CoursesPage`, `DocumentsPage`, `DetailPages` | the handlers of `/courses`, of `/documents`, of a course's and a document's own page |
| `Pages` | those pages, the dashboard and the way between them |
| `PagesProofs` | its invariants and its action properties proved |
| `Lists` | what the code does to lists with comprehensions, `sorted()` and slices |
| `FileTypes` | which uploads are accepted, as what, and who reads them |
| `Chunking` | joining, cleaning, splitting, and the page of a chunk |
| `Retrieval` | the two searches, fusion, normalisation, reranking, the fallback |
| `ChatHistory` | the part of a conversation the language model is shown |
| `DocumentTags`, `DocumentEdit` | tags as the schema takes them in; the edit dialog, its PATCH and the row |
| `Algorithms` | the last six at work on one input each, and what is wanted of them |
| `AlgorithmsProofs` | all of that proved, for every input |
| `ListLemmas` | what `Lists` and the splitter of `Chunking` return, proved: the lemmas behind `AlgorithmsProofs` |
| `MCDocumentLifecycle`, `MCChatTurn`, `MCCourses`, `MCSignIn`, `MCChatPanel`, `MCPages`, `MCAlgorithms` | owners, inputs and symmetry for TLC |

### DocumentLifecycle

`status`, `link` and `catalog` are the committed rows of `documents` and
`courses`; `file` and `sidecar` the files under `UPLOAD_DIR`; `indexed` the
documents with chunks in Qdrant; `content` what the extraction will find in an
upload, chosen once.  `req` holds the requests in flight, with what their session
loaded at authentication (`seen`) and, for a course being deleted, the children
its flush has loaded; `task` is where `process_document` stands for each document.
`loop` names a handler inside a stretch without suspension, whose effects only a
crash can separate: unlink of file and of sidecar; Qdrant upsert and sidecar.

A request's program counter names the code it runs when resumed.  An upload
saves the file, then inserts the row, commits and queues the task
(`UploadSaveFile`, `UploadInsertRow`); a delete unlinks file and sidecar, then
deletes the row (`DeleteBegin` to `DeleteRow`); a PATCH checks the course, then
updates (`PatchBegin` to `PatchUpdate`); the deletion of a course loads its
children, nulls them by id and deletes (`DropCourseBegin` to `DropCourse`).  The
task is `TaskLoad` (SELECT on the closed, hence empty session), `TaskClaim`
(PROCESSING), `TaskDispatch`, `TaskEmbed`, `TaskUpsert`, `TaskSaveSidecar`,
`TaskFinish` or `TaskFail`.  A transaction's last statement and its commit are one
action: other requests see nothing in between, and a failure there is
`RequestDbFault` or `TaskDbFault` before it.  Failures are chosen by the constant
`Faults`: `"crash"`, `"db"`, `"fs"`.  Failures of the pipeline itself (unreadable
file, embedding or Qdrant failing) are always possible.

### ChatTurn

`doc`, `session`, `scope` (`chat_sessions.document_id`), `latest` (the newest
`updated_at`), `opener`, `stored` (messages) and `cites` (sources) are committed
rows.  `turn` holds, per question, where `send_message` stands, what
authentication saw, what retrieval found and what has been inserted but not
committed.  `removing`, `closing` and `held` are DELETEs that hold locks and wait.

Of Postgres under READ COMMITTED the model has what matters across suspensions:
an INSERT takes a KEY SHARE lock on each row it refers to until the transaction
ends (`HoldsSession`, `HoldsDoc`), a DELETE needs the row exclusively and cascades;
who waits for whom is `WaitsFor`, and a cycle is broken by rolling back one of its
members (`Deadlocked`, `BreakDeadlock`).  Retrieval returns any set of the
owner's documents that ever existed, since nothing deletes vectors.

The scoped sessions a document's DELETE cascades into are locked at once, and the
documents a turn cites are too; the code takes these locks one by one.  Two
DELETEs of the same document or session are one.

### ChatPanel

`list`, `selected`, `messages`, `sending`, `creating`, `pending` and `composer` are
the React state of `ChatPanel.tsx`; `messages` also records whose messages they
are, which the code does not.  `newest` is the load whose token is
`loadTokenRef.current`.  `exists` and `log` are the server: its sessions and, per
session, the questions answered (a question stands for its turn).

`call` holds the requests in flight.  A request is sent, then answered or failed,
then used: what it carries is of the moment when the server handled it, and what
the handler does with it meets whatever state there is by then.  Each handler is
one action up to its `await` (`Select`, `Create`, `Submit`) and one for what
follows (`LoadDone`, `CreateDone`, `CreatedListed`, `SendDone`, and the `Failed`
ones for the `catch` and `finally` blocks).  The `void refreshSessions()` at the end
of a send, and the effect on mount, are requests of kind `"list"`.
With `Faults`, a request may fail before or after the server has handled it.
The history variable `calm` says that the user has clicked only while nothing was
loading, sent or created, and that nothing has failed; it separates what holds for
everyone from what holds only then.

A session is not deleted or answered from another tab (`ChatTurn` has that), nor is
a question that was stored although its response was lost recognised when it is sent
again: it is stored twice, and the code promises no more.  A
request that failed for the client is not handled later.  The error texts, the
document titles and scrolling are left out; the text of a question is trimmed.

### Courses and CourseBook

`rows` is the committed table, `used` the ids given out, `req` the requests in
flight.  A request begins with what authentication loaded (`seen`): a later SELECT
says whether the row is there, and answers with the loaded instance
(`db/repositories/base.py`).  `CreateCheck`/`CreateInsert`, `PatchFind`/`PatchCheck`/
`PatchWrite` and `DeleteFind`/`DeleteRemove` are the statements between which others
run; `ConstraintRefuses` is the unique constraint on owner and name, and a
refusal by it is a 500.  `Write` names the columns whose value was given and differs
from the instance's.  `answer` is what the last step answered and `past` the versions
a course has had since a request began, both for the properties.

`CourseBook` is the table by itself: a course is opened once, under a free name,
changes to rows with a free name, and does not come back once removed.

### Accounts and SignIn

`account` and `secret` are the rows of `users`; `Key` is the address a form's
spelling is trimmed and lowered to, in both schemas.  `store` is the token in
localStorage, `tab` the status and user of each tab's context, `call` the requests on
their way.  `Open`, `Submit` and `Logout` are the user's; `Serve`, `Lose`, `Expire` and
`Moderate` (an account switched off or on) are not; `BootDone`, `BootFailed`, `LoginDone`,
`MeDone`, `RegisterDone` and `FormFailed` are the handlers, resumed.  A form may be sent
in any status, and be left while it is submitted.  A tab is asking (`Asking`) while it
waits for the `/me` of its start or of a login.  `calm` and `synced` are history: tabs
that neither stored anything while they were asking nor showed someone when a `/me` of
theirs failed, and tabs behind whose back no other tab has changed the storage.  Hashing
and signatures are library code: a token is its subject and whether it is still live.

### Pages

`courses` and `docs` are the server's rows, `at` the mounted page, `ui` its React state,
`going` where a `router.push` is taking the browser, and `calls` the handlers that
await an answer.  A handler goes from one await to the next: `step` says whether it
waits for its change or for the list it asks for afterwards.  `Mount` drops the state of
the page before; its loads are forgotten, a change it has sent still arrives at the
server, and a handler that ends in `router.push` still pushes (`Abandon`, `Overdue`).

Of a course there is its name; of a document the course it belongs to, and whether the
background task has settled it (`Settle`): what lists can disagree about.  A list carries
what was settled when it was read, and no page asks again by itself, so a page may show a
document as being processed that no longer is; `AsRead` allows just that, and not a
document that is shown as settled before it is.  `doubt` is history: the parts of the page
that something is known to have gone past (an older list overtook a newer one, a list or
the answer to a change was lost).  What a page shows beyond that must be right.

### Algorithms

A job is an input of one of the algorithms, and a step does it.  Texts are sequences of
letters, blanks and newlines; scores are fractions over a common denominator, where
the code has floats; a message is its role, which text it is, its length and where it may
be cut; a question's words are a list, in which a word may be repeated, since the code
keeps and counts repeated terms; a file is what its name, its Content-Type and its first
bytes say.  `Reader` says what can open such a file: python-pptx for a zip archive, and
nothing for the OLE files of older PowerPoint.  A row of a document may have no type, as its
column may, and the option Untyped of the edit dialog is a value of its own, the empty
string, which is not a type and not null.

A loop of the code is a recursive function on `0..n`, whose value at i is what the loop's
variables are after i rounds (`Split`, `Assembled`, `Bisect`, `NormalizeTags`); a
comprehension or a sort is an operator of `Lists`.  `_split_text` calls itself with the
separators that are left: there are four, and each has its operator (`SplitText`,
`SplitLines`, `SplitWords`, `SplitChars`), which is given the chunks of the pieces that
the next one has to split.  What the algorithms promise is said without their loops: of
the letters, passages and places of a text, of sets and of what comes before what.

## The runs

| Run | Shows |
| --- | --- |
| `lifecycle_faults` | `LinkIntegrity`, `ReadyIsProcessed`, `NoFileOutlivesRow`; refinement of `DocumentStore`; every failure at every step |
| `lifecycle_live` | `FilesMatchRows`, `NobodyAbandoned`, `UploadSettles`, `RequestsEnd`, without failures and under fairness |
| `lifecycle_close` | violation of `CloseUnfilesOnlyItsDocuments` |
| `chat` | `TurnsComplete`, `RowsResolve` (citations, messages and scopes), refinement of `Conversation`, `QuestionsEnd`, `DeletionsEnd`; failures at every step, under fairness |
| `panel_faults` | `ScreenIsPersisted`, `ScreenShowsTheEnd`, `FlagsTellTheTruth`, `DraftsSurvive`; any clicks, any order of responses, any failures |
| `panel_live` | `QuestionsResurface`, `ButtonsComeBack`, `LoadingEnds`, failures included |
| `panel_stray` | violation of `AnswerShownWhereAsked` |
| `courses` | `NamesUnique`, `OnlyAskedChanges` (no lost update), `AnswersWereTrue`; refinement of `CourseBook` |
| `signin` | `ScreenMatchesToken`, `LoadingHasCause`, `OwnersGetIn` |
| `pages` | types; `FlagsTellTheTruth`, `LoadersEnd`, `QuietPagesAreCurrent`, `FilterLoadsAreCurrent`, `DialogClosesWhenGone` |
| `algorithms` | `AcceptedFilesHaveReaders`, `ChunksAreSound`, `PagesAreFound`, `RetrievalIsSound`, `NewestTurnsAreShown`, `TagsAreFirstSpellings`, `EditsAreSound`, over every small input |
| `jpeg` | violation of `JpegIsAccepted` |

The type invariants hold for all constants by the theorems `TypeCorrect`, and are not
run, but for that of `Pages`, which is the longest.

Bounds.  Ids are never reused, so the number of documents, courses, sessions and
questions bounds a behaviour, and a model may come to an end (no deadlock check there).

* `lifecycle_faults` has one document, since documents meet only in a course's
  deletion, and three courses, so that a PATCH can choose between two of its owner
  and a foreign one; two requests and the task are the three actors that every
  hazard listed needs.  The liveness run has one course, and no faults.
* `chat` has two questions about one document in one session, the least for a turn
  that cites a document while it is deleted, whose deletion cascades into the session
  another turn writes to, and for the cycles of waits that this makes.  Everything
  belongs to one user there; that citations and scopes stay with their owner for any
  number of users, documents and sessions is proved.
* `panel_faults` has two sessions, so that a response can be for the one that is not
  selected, three requests in flight, so that a send, a load or creation and an older
  list overlap, and two texts and two turns, so that a stored conversation can be
  longer than what is on the screen.
* `courses` has two ids, two names, one optional column with one value, and two
  requests: the races over a name, and between any two of the endpoints.
* `signin` has two tabs and two requests, an address in two spellings and another, and
  one password, so that it does not show whose password two racing registrations leave.
* `pages` has two courses and two documents, one of each there at first, and three
  handlers at a time (a page of two parts loads both).  The user starts `MaxClicks` = 3
  handlers or navigations, enough for a change, another behind it and leaving.  Which
  ids the first rows have makes no difference (`FirstRows` fixes them), and states that
  differ only in error messages, which no guard and no property but the types reads, are
  taken for one (the view `Apparent`).
* `algorithms` has texts of up to 8 characters in chunks of 5 with an overlap of 2, so
  that each separator, the split into characters and the carrying of an overlap occur; pages of up
  to 4 with or without notes, repeated and distinct letters; stores of 4 points and
  questions of up to three words, one of them typed twice; histories of 4 messages of which
  3 are read; 4 tags where 2 are allowed; and every edit of a document, with and without a
  type and in six states of its metadata, by a page that may show another.

Fairness.  The event loop resumes every handler whose awaited call has completed;
database calls complete; the language model is called with a timeout: weak
fairness of the steps of requests, tasks and turns.  A statement that waits for a
row lock is queued and served before later ones: strong fairness of the statements
that wait (`InsertSources`, `RemoveDocument`, `Close`).  Postgres looks for
deadlocks after a second of waiting: weak fairness of `BreakDeadlock`.  Nothing is
assumed of clients.  For the chat page: every request is answered or fails, and the
browser runs what awaits it (weak fairness of `Network` and `Resume`); `apiFetch` sets
no timeout, so this rests on the connection, and the server's own progress is what
`chat` shows.  The user owes nothing.  That documents settle is stated without failures:
after a crash nothing resumes a task, and the code promises no more.  `Courses`,
`SignIn` and `Pages` state no fairness; that a loader ends is there the invariant that
the request which ends it is under way (`LoadingHasCause`, `LoadersEnd`).

### What the violations say

* `lifecycle_close`: SQLAlchemy, told to delete a course, loads its documents and
  sets their `course_id` to NULL by primary key.  A document that a PATCH moves to
  another course in between ends without a course.  `passive_deletes=True` on the
  relationship would leave it to the database, which does the right thing.
* `panel_stray`: a question is sent in one session, another session is selected, the
  answer arrives and is put on the screen as that session's conversation.  The property
  is about the step that does it, `SendDone`, and no other: that a load may end in the
  wrong session is `LoadsAreCurrent` below.
* `jpeg`: the extensions jpg and jpeg are listed under both of the types jpg and jpeg
  (`storage/types.py:26-34`), so that neither is ever the only candidate, and
  `detect_file_type` returns None: no JPEG can be uploaded.

## Where the code and its words part

Each of these is a definition at the end of its module, violated when it is put into
the named configuration in place of its properties.

| Property | Configuration | What the words say, and what happens |
| --- | --- | --- |
| `AnsweringMovesSessionUp` | `chat.cfg`, with `Sessions = {s1, s2}` and `Spec` | "Bump session.updated_at so list ordering reflects activity" (`chat_service.py`); writing a title back is no UPDATE, and the session stays where it is |
| `ResponseListsStoredCitations` | `chat.cfg` | "A chat message plus its persisted citations" (`schemas/chat.py`); the vectors of a deleted document stay in Qdrant, and what is retrieved is shown with the answer, is not stored, and is gone on reload |
| `LoadsAreCurrent` | `panel_stray.cfg` | "a slow first request can't overwrite a fresh one" (`ChatPanel.tsx:71-73`); creating a session does not advance the token, and a load under way fills the new session's pane |
| `CreateIsRefusedWith409` | `courses.cfg` | "Returns 409 when the owner already has a course with the requested name" (`endpoints/courses.py:87-90`); of two requests with one name the loser gets 500 |
| `OnlyBadTokensAreDropped` | `signin.cfg` | "Token invalid/expired - drop it" (`AuthContext.tsx:58`); a network error or a 500 drops a good token, also one that another tab has just stored |
| `EditingMarksPatch` | `pages.cfg` | editingId "marks the in-flight PATCH" (`DocumentsPanel.tsx:247`); the list that ends an earlier edit clears it while a second PATCH is on its way |
| `AcceptedFilesCanBeRead` | `algorithms.cfg` | "`.ppt` and `.pptx` both naming the same Office family" (`storage/types.py:31`); an OLE `.ppt` is accepted as pptx, its extractor opens OOXML packages only, and its upload ends FAILED |
| `KeywordRanksByDistinctWords` | `algorithms.cfg` | "Descending by number of distinct query_terms" (`qdrant.py:154`); `_tokenize` keeps repeated terms and each is counted, so a chunk with one word typed twice comes before one with two different words |
| `ClearedTypeIsSaved` | `algorithms.cfg` | "Type: omit if unchanged, null if cleared" (`DocumentEditDialog.tsx:64`); it is sent as the empty string, which the schema refuses with 422, and what was typed beside it is not saved either |
| `SurplusTagsAreCut` | `algorithms.cfg` | "Truncate quietly rather than rejecting" (`schemas/document.py:109`); a field constraint refuses the 33rd tag with 422 before the validator cuts |
| `MetadataIsMerged` | `algorithms.cfg` | "Metadata: handle complex merge" (`DocumentEditDialog.tsx:69`); metadata is one column, and a later edit overwrites all of an earlier one's |

Further behaviour that the models have, and that is not what a reader of the code would
expect.  No property speaks of it.

* Chat page.  Lists are applied in the order in which they arrive: one that was read
  before a session was created, and arrives after it was selected, removes the session
  from the sidebar, and with it the conversation and the composer, until a list is asked
  for again.  In an empty conversation `MessageList` returns its empty state before it
  comes to the bubble, so a first question shows only as a disabled composer.
* Courses.  A PATCH of a value that equals the request's snapshot is not written, even
  if the row has another by then.  A code or a description can never be cleared: blank
  means "not given" (`CourseForm.tsx:63-76` says so).  A list may mix old and new rows.
* Documents.  The task may save a document's sidecar after a deletion has removed the row
  and the files: it stays.  `FilesMatchRows` is about the uploaded files alone.
* Signing in.  Three things take the match between who is shown and whose token is sent
  from a tab: another tab writes the storage; the tab itself does, by a logout or by the next
  form, before the `/me` of its last login is back; or that `/me` fails while the tab
  shows someone else.  `ScreenMatchesToken` says that nothing else does.  When a registration succeeds and the login behind it fails, the form
  shows an error, and sending it again says that the address is taken.  When `/me` fails
  after a login, the token stays stored in a tab that is signed out.  A tab does not
  notice another's login: it shows one user and asks as the other.
* Chunks.  The overlap makes a chunk longer than `chunk_size` (`chunking.py:133`), by up
  to itself and a separator.  It is carried from chunk to chunk: words of 7, 1, 1 and 9
  letters, in chunks of 10 with an overlap of 4, have the second word in three chunks, the
  middle one of which is no more than what it shares with the next.
  There is an offset more than there are page numbers; and the page found is not the
  right one after cleaning, behind notes, or where text is repeated or overlaps.  The
  hard split is never reached: the empty separator has left nothing to split.
* Retrieval.  The keyword search ranks only the first `5 * limit` matching points by id
  (`qdrant.py:211`).  A chunk that only has the words counts as similarity 0, which is
  better than a negative one.
* File types.  A text file is never accepted: no first bytes say txt.
* Editing.  `DocumentUpdate` accepts filename, file type and upload status, and ignores
  them.  A tag with a comma comes back as two.
* Pages.  A list that fails behind a successful change is reported as the failure of the
  change: tried again, it is a 409 or a second upload.  A creation or an update that
  ends closes whatever form is open by then, and an update's error is shown on it.
  The list behind a change has the filter of when it began, and may replace that of a
  newer one.  An overtaken refresh brings deleted rows back.  The delete dialog can be turned
  to another row while it deletes (nothing keeps the keyboard's focus inside it), and the
  end of the deletion closes it although it asks about that other row by then:
  `DialogClosesWhenGone` says only that it is not closed before, nor turned back.  A deletion pushes to
  `/documents` wherever the user has gone meanwhile.  The course chosen for an upload is
  dropped (`documents.ts:21-22`, `endpoints/documents.py:85-92`).  A document's page pushes
  to `/chat/<id>`, which is no page, and opens the content's URL without a token.

## The proofs

`DocumentLifecycleProofs` proves, for any number of documents, courses, users and
requests and any `Faults`, `Spec => []IInv` and from it type correctness,
`LinkIntegrity`, `ReadyIsProcessed`, `NoFileOutlivesRow` and `HandlersOnTrack`.
The state invariants are not inductive alone: that a link is sound after
`PatchUpdate` depends on what `PatchCheckCourse` established one suspension
before, and READY on what the earlier stages of the task left behind.
`HandlersOnTrack` says what every suspended handler may rely on; with it the
conjunction is inductive.  The owner of a course never changes and ids are never
reused, so what a check established about ownership stays true; its existence
does not, and is the foreign key's business.

The module also proves that every step, failures included, is a step of
`DocumentStore` or a stutter.  A request resumed acts on what it read before: that its step
is still one the store allows is `InFlight` - an upload under way owns its file and its
fresh id alone, a delete or a PATCH is about a document that had a row, the children a
course's deletion has read are of its owner, and a task finds its document in the phase it
left it in, or deleted.  `HandlersStayInFlight` is proved over `IInv`.  Under
`Faults = {}` it proves `FilesMatchRows` and `NobodyAbandoned`: with a crash
or a failing statement neither holds, and the code does not claim them then.  Their
invariant names what is in transit: a document whose file and row disagree is in the hands
of an upload or a deletion, and one that is not settled has its task.

`ChatTurnProofs` proves the same for conversations: `TurnsComplete`, `RowsResolve`
and `TurnsOnTrack`.  What has to survive the steps of others is what a row lock
protects: the session of a turn that has inserted its question, and the documents it
has cited.  The proof rests on three lemmas, one per kind of step: a step that moves
turns and changes no row (`TurnsMove`), one that adds rows (`RowsCome`), and one that
removes sessions and documents that nobody has locked (`RowsGo`).

It also proves that they implement `Conversation`.  A question is nothing to
the abstract conversation until its turn commits (`WhatIsSaid`), so most steps stutter.
Three facts carry the rest: both messages of a turn are there or none (`WholeTurns`, from
`TurnsComplete`), so that a cascade takes whole turns; a commit finds its session and its
citations alive, because of its locks; and a session that is being closed was opened
(`ClosingWasOpen`).

`CoursesProofs` proves every property of the run `courses`, the refinement included.
`NamesUnique` is inductive with the types and `IdsAreUsed` (a row has an id that was given
out): the check of a name promises nothing by the time of the write, and the constraint
alone keeps names apart.  `TableSteps` reduces every step of a request to one of four
things done to the table - nothing, `Opens`, `Rewrites`, `Removes` - and the invariant, the
refinement and `NoLostUpdates` follow from it.  `OnTrack` is what a suspended request may
rely on: it checked whose the course is, and its snapshot is among the versions that
`past` remembers; `AnswersAreTrue` follows.

`SignInProofs` proves the properties of the run `signin`, and that accounts never share an
address however it is spelled (`OneAccountPerAddress`).  `ScreenMatchesToken` looks at a tab
that is not asking; what makes it inductive is about the `/me` on its way: a calm tab has
one at most (`AsksOnce`), and whom it is about to show is whose token is stored
(`AsksForStored`).  Forms may be under way in any number meanwhile.  There is one lemma per
action, each over that invariant.

`ChatPanelProofs` proves `ScreenIsPersisted`, `ScreenShowsTheEnd`, `FlagsTellTheTruth`
and `DraftsSurvive`, for any number of sessions, texts and requests in flight.  That
what is on the screen is a piece of a stored conversation needs the same of every
response on its way (`LoadsArePieces`) and that conversations only grow (`LogStep`,
over `PieceKept` and `PieceLast`); that a failed send overwrites nothing needs that
the composer is empty while a question is on its way (`ComposerRests`).  That a calm page
at rest shows the end of the conversation, and nothing only when nothing is stored, needs that of
loading, sending and creating a calm page has one under way at a time, about the selected
session, and that what its response carries is still what the log says (`CalmInv`); and
that a session is empty until it exists (`NewAreEmpty`).

`PagesProofs` proves every property of the run `pages`, for any number of courses,
documents, names, calls and clicks.  Its invariant says what a handler may rely on when it
is resumed: its page is the mounted one and its item one the page has (`CallsFit`,
`ScreenFits`), what it reports deleted is deleted (`DeletedIsGone`), each loader has the
call that ends it (`LoadersWait`), each flag its one call (`FlagsExact`, which says by
quantifiers what `FlagsTellTheTruth` says by cardinalities), a load on `/documents` asks
for the filter that is set (`LoadsFilter`), and, the heart of it, what is on the screen is
what is stored, or was before the background task settled more of it, unless a handler
that has made its change still has to read it back (`Fresh`).  There is one lemma per kind of step: a click that changes only what is open,
one that sends a change, a deletion or a refresh; the server's answer to a read and to a
change; each way a handler resumes; a filter, a mount, a navigation.

`AlgorithmsProofs` proves every property of the run `algorithms`, for files, pages, tags,
messages, stores and edits of any number and size and any limits and weights.  A job is
done in one step, so its invariant says only that a result is what the algorithm returns
for the job, and the rest is about functions.  Induction over data is done with sets: a
set of numbers that is not empty has a least member (`Least`, from the well-foundedness of
the finite subsets), so one with 0 that is closed under the successor has them all
(`BoundedInduction`); and a loop is unfolded with the equation of its function
(`LoopExists`).  `ListLemmas` says once what the helpers return: that picking keeps order
and takes each position once (`PickedPositions`), that a sort puts before an element just
what scores more, or the same and came first (`RankedIs`), what a prefix has.

Of retrieval the heart is that fusion, normalisation and reranking are monotone: a
chunk that neither search puts behind another scores no less (`AgreedScore`), and of equals
the stable sort keeps the candidates' order (`RerankIs`).  Of the keyword search it is that
what is left out by the ranking has no more words than what is in it (`BestOfRanked`), and
that nothing is left out by the scroll when it fetches all; when more points match than are
fetched, better ones are lost, and nothing is claimed.  Of the history, that what
is kept is the longest end that fits (`DropOldestIs`).  Of an edit, that validating
tags again changes nothing (`StoredTags`) and that dropping blank pieces before the
validator is dropping them in it (`PiecesNormalize`).

The splitter is followed as a cut of the text (`IsCut`): the chunks are passages that
begin one after the other, no two reach over each other by more than the overlap, and no
character that is not blank is left out before the place where the next one begins.  The
pieces of a separator lie one behind the other in the text, with only blanks between
them (`SplitLays`, `LayoutIs`), so joining pieces i to j gives the passage from i to j
(`JoinPassage`); a chunk that is flushed and what is carried over keep the cut
(`FlushedIs`, `CollectedIs`), so do the chunks of a piece that is split further
(`CutGrows`), and stripping the chunks takes only blanks (`NonEmptyCut`).  What is a cut
has the properties the run checks (`SolidIsSound`).  For the page of a chunk, the
bisection keeps what is below its span below and what is above above (`IsSpan`), also on
offsets of which the last is out of order; and where no two chunks share a letter the
cursor, which adds up their lengths, is never past the next chunk (`CursorIs`), so that the
search finds that very passage (`ChunkIsFound`).

Two properties were changed by their proofs.  That only neighbouring chunks share text, as
`OverlapIsBounded` said for overlaps below half a chunk, is false for texts longer than the
run's (see Chunks above): it holds the overlap's bound against every pair now.  And the
order of the chunks was stated by the numbers that the run gives to its letters; it is
stated by places in the text now, whatever its letters are.

The assumptions on the constants are that ids of different kinds differ, that the null
values are no ids, that the words for a question without an answer are no session's id
(`IdAssumption`) and those for where a page is no course's or document's (`PlacesApart`),
and, of addresses, that normalising one twice is normalising it once.  The two theorems
that hold only without failures say so in their own hypotheses.  The inputs of
`Algorithms` have the types their schemas and columns give them (`DocumentsAreTyped` and
the like), the option Untyped is no type (`EditTypes`), and the tags of a stored row have
been through the validator that every write goes through (`StoredTagsAreNormal`).

Model-checked only: liveness (the prover has no reasoning for fairness here), and the
violations.  Every invariant, action property and refinement that a passing run checks is
also a theorem.

## Not modelled

Reading of PDF, PPTX and images, OCR, embeddings and the text of prompts (library code,
no state; what comes out of them is any text, or none, or a failure).  JWT and bcrypt
(library code).  Listing and downloading documents, the search endpoint (they only read:
`Retrieval` is what it calls).  The stateless `/chat` endpoint, which is `send_message`
without its rows.  The time stamps of messages, by which they are ordered: two turns of
one session can interleave on the screen (`chat_repository.py:128`).  The pool of database
connections.  Validation and serialisation beyond the fields a property speaks of; schema
migration; paging, texts and layout of the frontend.  Empty packages (`agents`, `parsers`,
`workers`, ...) hold no code.

## The plan

1. Documents: `DocumentStore`, `DocumentLifecycle`, proofs.  Done.
2. Conversations: `Conversation`, `ChatTurn`, proofs.  Done.
3. Courses and accounts: `CourseBook`, `Courses`, `Accounts`, proofs.  Done.
4. The chat page of the frontend: `ChatPanel`, proofs.  Done.
5. The authentication context (`SignIn`, proofs) and the pages (`Pages`).  Done.
6. The algorithms against what is wanted of them.  Done.
7. Proofs of the refinements of `DocumentStore` and `Conversation`, of `FilesMatchRows` and
   `NobodyAbandoned` under `Faults = {}`, of `ScreenShowsTheEnd` and of `Pages`.  Done.
8. Proofs about all of the algorithms: `AlgorithmsProofs`, `ListLemmas`.  Done.
9. Liveness of course requests and of signing in.
10. Order of messages by time stamp, and the connection pool.
