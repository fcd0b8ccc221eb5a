------------------------------ MODULE ChatTurn ------------------------------
(***************************************************************************)
(* Conversations: the endpoints under /chat/sessions                       *)
(* (services/chat_service.py, rag/service.py, db/models/chat.py) and the   *)
(* deletion of documents as far as it reaches into conversations.          *)
(*                                                                         *)
(* send_message is one long database transaction around the retrieval and  *)
(* the call of the language model.  Other requests run and commit in the   *)
(* meantime, so the transaction meets their row locks, their deletions and *)
(* the foreign keys; what the session holds from authentication on is      *)
(* stale by then.  The database is Postgres under READ COMMITTED; of its   *)
(* row locks the model keeps those that are held across a suspension:      *)
(* the KEY SHARE lock that an inserted row takes on the rows it refers to, *)
(* and the exclusive lock of a DELETE that waits for others.               *)
(***************************************************************************)

CONSTANTS
    Docs,         \* document ids
    Sessions,     \* chat session ids
    Turns,        \* questions sent, each by one POST .../messages
    Owner,        \* the user who owns a document / a chat session
    NoDoc, NoSession,
    Faults        \* which failures may happen: "crash", "db"

Procs == Turns \cup Docs \cup Sessions    \* a DELETE is named by what it deletes

ASSUME DisjointAssumption == /\ Turns \cap Docs = {}
                             /\ Turns \cap Sessions = {}
                             /\ Docs \cap Sessions = {}
ASSUME NullAssumption     == NoDoc \notin Docs /\ NoSession \notin Sessions
ASSUME FaultsAssumption   == Faults \subseteq {"crash", "db"}
\* A session's id, a uuid4, is none of the words for a question without an answer.
ASSUME IdAssumption       == Sessions \cap {"none", "lost", "gone", "torn"} = {}

VARIABLES
    \* committed rows
    doc,          \* documents
    session,      \* chat_sessions
    scope,        \* chat_sessions.document_id
    latest,       \* the session with the newest updated_at
    opener,       \* the message of a session created with an initial_query
    stored,       \* chat_messages: <<turn, role>>
    cites,        \* chat_message_sources, per turn
    \* requests in flight
    turn,         \* send_message
    removing,     \* documents whose DELETE holds their row and cascades
    closing,      \* sessions whose DELETE waits for the session's row
    held          \* per such session, the turns whose rows that DELETE has locked

rows    == <<doc, session, scope, latest, opener, stored, cites>>
deletes == <<removing, closing, held>>
vars    == <<doc, session, scope, latest, opener, stored, cites, turn, removing,
             closing, held>>

Life   == {"unborn", "live", "deleted"}
Role   == {"user", "assistant"}
TurnPC == {"new", "ask", "retrieve", "generate", "answer", "cite", "commit",
           "done", "lost"}

Live(d)  == doc[d] = "live"
LiveDocs == {d \in Docs : Live(d)}
Open(s)  == session[s] = "live"

NewTurn == [pc |-> "new", session |-> NoSession, filter |-> NoDoc, seen |-> {},
            found |-> {}, cited |-> {}, wrote |-> {}]

Turn == [pc : TurnPC, session : Sessions \cup {NoSession}, filter : Docs \cup {NoDoc},
         seen : SUBSET Docs, found : SUBSET Docs, cited : SUBSET Docs,
         wrote : SUBSET Role]

TypeOK ==
    /\ doc \in [Docs -> Life]
    /\ session \in [Sessions -> Life]
    /\ scope \in [Sessions -> Docs \cup {NoDoc}]
    /\ latest \in Sessions \cup {NoSession}
    /\ opener \in [Sessions -> {"none", "due", "stored"}]
    /\ stored \subseteq Turns \X Role
    /\ cites \in [Turns -> SUBSET Docs]
    /\ turn \in [Turns -> Turn]
    /\ removing \subseteq Docs
    /\ closing \subseteq Sessions
    /\ held \in [Sessions -> SUBSET Turns]

Init ==
    /\ doc = [d \in Docs |-> "unborn"]
    /\ session = [s \in Sessions |-> "unborn"]
    /\ scope = [s \in Sessions |-> NoDoc]
    /\ latest = NoSession
    /\ opener = [s \in Sessions |-> "none"]
    /\ stored = {}
    /\ cites = [t \in Turns |-> {}]
    /\ turn = [t \in Turns |-> NewTurn]
    /\ removing = {}
    /\ closing = {}
    /\ held = [s \in Sessions |-> {}]
-----------------------------------------------------------------------------
(* Locks                                                                      *)

\* From the insertion of its question to its commit, a turn keeps the session's
\* row from being deleted; with its citations inserted, the cited documents' rows.
HoldsSession(t) == turn[t].pc \in {"retrieve", "generate", "answer", "cite", "commit"}
HoldsDoc(t, d)  == turn[t].pc = "commit" /\ d \in turn[t].cited

\* p cannot go on before q has ended.
WaitsFor(p, q) ==
    \/ p \in Turns /\ q \in Docs
          /\ turn[p].pc = "cite" /\ q \in turn[p].cited \cap removing
    \/ p \in removing /\ q \in Turns
          /\ HoldsSession(q) /\ scope[turn[q].session] = p
    \/ p \in removing /\ q \in closing
          /\ \E t \in held[q] : scope[q] = p \/ p \in cites[t]
    \/ p \in closing /\ q \in Turns
          /\ HoldsSession(q) /\ turn[q].session = p

Blocked(p) == \E q \in Procs : WaitsFor(p, q)

\* C cannot go on without outside help, and p is needed in it: a cycle of waits.
Stuck(C)      == \A p \in C : \E q \in C : WaitsFor(p, q)
Deadlocked(p) ==
    \E C \in SUBSET {q \in Procs : Blocked(q)} :
        p \in C /\ Stuck(C) /\ \A B \in SUBSET C : Stuck(B) => B \in {{}, C}
-----------------------------------------------------------------------------
(* Documents, as far as conversations see them                                *)

\* An upload; its chunks are in the vector collection from some time on, for good.
AddDocument(d) ==
    /\ doc[d] = "unborn"
    /\ doc' = [doc EXCEPT ![d] = "live"]
    /\ UNCHANGED <<session, scope, latest, opener, stored, cites, turn, deletes>>

SessionsAbout(d) == {s \in Sessions : Open(s) /\ scope[s] = d}
TurnsIn(S)       == {t \in Turns : turn[t].session \in S}

\* chat_messages and chat_message_sources go with their sessions (ON DELETE
\* CASCADE).
DropSessions(S) ==
    /\ session' = [s \in Sessions |-> IF s \in S THEN "deleted" ELSE session[s]]
    /\ opener' = [s \in Sessions |-> IF s \in S /\ opener[s] = "stored" THEN "none"
                                    ELSE opener[s]]
    /\ stored' = {m \in stored : m[1] \notin TurnsIn(S)}

\* DELETE FROM documents: waits for turns that have cited the document.
LockDocument(d) ==
    /\ Live(d) /\ d \notin removing
    /\ \A t \in Turns : ~HoldsDoc(t, d)
    /\ removing' = removing \cup {d}
    /\ UNCHANGED <<rows, turn, closing, held>>

\* Mutant: the foreign key of chat_message_sources does not cascade.
RemoveDocumentKeepCitations(d) ==
    /\ d \in removing /\ ~Blocked(d)
    /\ doc' = [doc EXCEPT ![d] = "deleted"]
    /\ DropSessions(SessionsAbout(d))
    /\ cites' = [t \in Turns |-> IF t \in TurnsIn(SessionsAbout(d)) THEN {} ELSE cites[t]]
    /\ removing' = removing \ {d}
    /\ UNCHANGED <<scope, latest, turn, closing, held>>

\* Mutant: the transaction is not ended.
RemoveDocumentKeepLock(d) ==
    /\ d \in removing /\ ~Blocked(d)
    /\ doc' = [doc EXCEPT ![d] = "deleted"]
    /\ DropSessions(SessionsAbout(d))
    /\ cites' = [t \in Turns |-> IF t \in TurnsIn(SessionsAbout(d)) THEN {}
                                 ELSE cites[t] \ {d}]
    /\ UNCHANGED <<scope, latest, turn, deletes>>

\* The cascades, to the citations of the document and to the sessions about it,
\* once no lock is in the way, and the commit.
RemoveDocument(d) ==
    /\ d \in removing /\ ~Blocked(d)
    /\ doc' = [doc EXCEPT ![d] = "deleted"]
    /\ DropSessions(SessionsAbout(d))
    /\ cites' = [t \in Turns |-> IF t \in TurnsIn(SessionsAbout(d)) THEN {}
                                 ELSE cites[t] \ {d}]
    /\ removing' = removing \ {d}
    /\ UNCHANGED <<scope, latest, turn, closing, held>>
-----------------------------------------------------------------------------
(* POST, PATCH and DELETE of a session                                        *)

\* create_session up to its first commit.  The document is one of the owner's;
\* the INSERT waits for its DELETE, and fails when it is gone.
CreateSession(s, d, o) ==
    /\ session[s] = "unborn"
    /\ d # NoDoc => Live(d) /\ d \notin removing /\ Owner[d] = Owner[s]
    /\ session' = [session EXCEPT ![s] = "live"]
    /\ scope' = [scope EXCEPT ![s] = d]
    /\ opener' = [opener EXCEPT ![s] = o]
    /\ latest' = s
    /\ UNCHANGED <<doc, stored, cites, turn, deletes>>

\* Its second transaction, when there is an initial_query; by then the session may
\* have been deleted, and the foreign key refuses the message.
StoreOpener(s) ==
    /\ opener[s] = "due"
    /\ opener' = [opener EXCEPT ![s] = IF Open(s) THEN "stored" ELSE "none"]
    /\ UNCHANGED <<doc, session, scope, latest, stored, cites, turn, deletes>>

\* update_session with a changed title or course: an UPDATE, and its onupdate.
UpdateSession(s) ==
    /\ Open(s)
    /\ latest' = s
    /\ UNCHANGED <<doc, session, scope, opener, stored, cites, turn, deletes>>

\* delete_session: the DELETEs of the sources and messages it has loaded, then
\* that of the session, which waits for the turns under way.
BeginClose(s) ==
    /\ Open(s) /\ s \notin closing
    /\ closing' = closing \cup {s}
    /\ held' = [held EXCEPT ![s] = {t \in TurnsIn({s}) : turn[t].pc = "done"}]
    /\ UNCHANGED <<rows, turn, removing>>

Close(s) ==
    /\ s \in closing /\ ~Blocked(s)
    /\ DropSessions({s})
    /\ cites' = [t \in Turns |-> IF t \in TurnsIn({s}) THEN {} ELSE cites[t]]
    /\ closing' = closing \ {s}
    /\ held' = [held EXCEPT ![s] = {}]
    /\ UNCHANGED <<doc, scope, latest, turn, removing>>
-----------------------------------------------------------------------------
(* POST /chat/sessions/{id}/messages: send_message                            *)

TurnAt(t, pc)   == turn[t].pc = pc
TurnGoto(t, pc) == turn' = [turn EXCEPT ![t].pc = pc]
Lose(t)         == turn' = [turn EXCEPT ![t] = [NewTurn EXCEPT !.pc = "lost"]]   \* rollback

\* Authentication, which loads the user's documents and sessions, and the checks
\* against what it loaded; the history, a SELECT, is in the next stretch.  The
\* request's document goes before the session's.
BeginTurn(t, s, d) ==
    /\ TurnAt(t, "new")
    /\ Open(s)
    /\ d # NoDoc => Live(d) /\ Owner[d] = Owner[s]
    /\ turn' = [turn EXCEPT ![t] = [NewTurn EXCEPT
                  !.pc = "ask", !.session = s,
                  !.filter = IF d # NoDoc THEN d ELSE scope[s],
                  !.seen = {e \in LiveDocs : Owner[e] = Owner[s]}]]
    /\ UNCHANGED <<rows, deletes>>

\* message_repo.create of the question.  A session deleted meanwhile fails the
\* foreign key.
InsertQuestion(t) ==
    /\ TurnAt(t, "ask")
    /\ IF Open(turn[t].session)
       THEN turn' = [turn EXCEPT ![t] = [@ EXCEPT !.pc = "retrieve", !.wrote = {"user"}]]
       ELSE Lose(t)
    /\ UNCHANGED <<rows, deletes>>

\* The documents whose chunks the vector store may return.  Nothing removes the
\* vectors of a deleted document.
Hits(t) ==
    {d \in Docs : /\ doc[d] # "unborn"
                  /\ Owner[d] = Owner[turn[t].session]
                  /\ turn[t].filter \in {NoDoc, d}}

\* RetrievalService.retrieve.  Without hits the answer is a refusal; an error of
\* the vector store ends the request.
Retrieve(t) ==
    /\ TurnAt(t, "retrieve")
    /\ \/ turn' = [turn EXCEPT ![t].pc = "answer"]
       \/ \E F \in SUBSET Hits(t) \ {{}} :
             turn' = [turn EXCEPT ![t] = [@ EXCEPT !.pc = "generate", !.found = F]]
       \/ Lose(t)
    /\ UNCHANGED <<rows, deletes>>

\* Mutant: an LLMError is not rolled back, the question is kept.
GenerateKeepQuestion(t) ==
    /\ TurnAt(t, "generate")
    /\ \/ TurnGoto(t, "answer")
       \/ turn' = [turn EXCEPT ![t] = [@ EXCEPT !.pc = "commit", !.found = {}]]
    /\ UNCHANGED <<rows, deletes>>

\* GeminiLLMProvider.generate: the model answers, or a timeout, a refusal, an error of
\* its server or an empty answer is an LLMError, which rolls the question back.
Generate(t) ==
    /\ TurnAt(t, "generate")
    /\ TurnGoto(t, "answer") \/ Lose(t)
    /\ UNCHANGED <<rows, deletes>>

\* _user_owns_document, of the retrieved documents: those that authentication has
\* loaded, or that a SELECT finds now.
Owned(t) ==
    {d \in turn[t].found : /\ d \in turn[t].seen \cup LiveDocs
                           /\ Owner[d] = Owner[turn[t].session]}

\* The answer is inserted, and of the retrieved documents the owned ones are to be
\* cited.
InsertAnswer(t) ==
    /\ TurnAt(t, "answer")
    /\ turn' = [turn EXCEPT ![t] = [@ EXCEPT !.pc = "cite", !.wrote = Role, !.cited = Owned(t)]]
    /\ UNCHANGED <<rows, deletes>>

\* Mutant: the citations are inserted without the foreign key's check.
InsertSourcesUnchecked(t) ==
    /\ TurnAt(t, "cite") /\ ~Blocked(t)
    /\ TurnGoto(t, "commit")
    /\ UNCHANGED <<rows, deletes>>

\* Mutant: a citation of a missing document is retried.
InsertSourcesRetry(t) ==
    /\ TurnAt(t, "cite") /\ ~Blocked(t)
    /\ turn[t].cited \subseteq LiveDocs
    /\ TurnGoto(t, "commit")
    /\ UNCHANGED <<rows, deletes>>

\* source_repo.create_many: waits for the DELETE of a cited document under way;
\* a cited document that is gone fails the foreign key, and the turn with it.
InsertSources(t) ==
    /\ TurnAt(t, "cite") /\ ~Blocked(t)
    /\ IF turn[t].cited \subseteq LiveDocs THEN TurnGoto(t, "commit") ELSE Lose(t)
    /\ UNCHANGED <<rows, deletes>>

\* The session's title is set to what it is, which is no UPDATE and leaves
\* updated_at alone; then the commit.
CommitTurn(t) ==
    /\ TurnAt(t, "commit")
    /\ stored' = stored \cup ({t} \X turn[t].wrote)
    /\ cites' = [cites EXCEPT ![t] = turn[t].cited]
    /\ turn' = [turn EXCEPT ![t] = [NewTurn EXCEPT !.pc = "done",
                                                   !.session = turn[t].session]]
    /\ UNCHANGED <<doc, session, scope, latest, opener, deletes>>

\* The response, made after the commit: a citation per retrieved chunk, those that
\* were not stored included.
Response(t) == turn[t].found

\* send_message once it has begun.
TurnStep(t) ==
    \/ InsertQuestion(t) \/ Retrieve(t) \/ Generate(t) \/ InsertAnswer(t)
    \/ InsertSources(t) \/ CommitTurn(t)
-----------------------------------------------------------------------------
(* Failures                                                                   *)

Underway(p) ==
    \/ p \in Turns /\ turn[p].pc \notin {"new", "done", "lost"}
    \/ p \in removing \cup closing

\* p's transaction is rolled back and its request ends with an error.
Abort(p) ==
    /\ IF p \in Turns THEN Lose(p) ELSE UNCHANGED turn
    /\ removing' = removing \ {p}
    /\ closing' = closing \ {p}
    /\ held' = [s \in Sessions |-> IF s = p THEN {} ELSE held[s]]
    /\ UNCHANGED rows

\* Postgres finds a cycle of waits and picks one of its members.
BreakDeadlock(p) == Deadlocked(p) /\ Abort(p)

\* A database call fails, or the vector store or the language model in a way
\* that is not an LLMError.
Fail(p) == "db" \in Faults /\ Underway(p) /\ Abort(p)

\* The second transaction of create_session fails: the session stays.
FailOpener(s) ==
    /\ "db" \in Faults
    /\ opener[s] = "due"
    /\ opener' = [opener EXCEPT ![s] = "none"]
    /\ UNCHANGED <<doc, session, scope, latest, stored, cites, turn, deletes>>

\* The server process dies; the database rolls back what is under way.
Crash ==
    /\ "crash" \in Faults
    /\ turn' = [t \in Turns |-> IF Underway(t) THEN [NewTurn EXCEPT !.pc = "lost"]
                                ELSE turn[t]]
    /\ removing' = {}
    /\ closing' = {}
    /\ held' = [s \in Sessions |-> {}]
    /\ opener' = [s \in Sessions |-> IF opener[s] = "due" THEN "none" ELSE opener[s]]
    /\ UNCHANGED <<doc, session, scope, latest, stored, cites>>

Fault ==
    \/ \E p \in Procs : Fail(p)
    \/ \E s \in Sessions : FailOpener(s)
    \/ Crash
-----------------------------------------------------------------------------

\* The endpoints of a session; its two GETs change nothing.
SessionCall(s) ==
    \/ \E d \in Docs \cup {NoDoc}, o \in {"none", "due"} : CreateSession(s, d, o)
    \/ UpdateSession(s) \/ BeginClose(s)
    \/ \E t \in Turns, d \in Docs \cup {NoDoc} : BeginTurn(t, s, d)

DocumentCall(d) == AddDocument(d) \/ LockDocument(d)

Next ==
    \/ \E d \in Docs : DocumentCall(d) \/ RemoveDocument(d)
    \/ \E s \in Sessions : SessionCall(s) \/ StoreOpener(s) \/ Close(s)
    \/ \E t \in Turns : TurnStep(t)
    \/ \E p \in Procs : BreakDeadlock(p)
    \/ Fault

Spec == Init /\ [][Next]_vars

\* Handlers are resumed when their awaited calls complete: the database answers
\* once no lock is in the way and finds every deadlock in the end, and the
\* language model is called with a timeout.  A statement that waits for a row's
\* lock is served before one that comes after it, hence strong fairness.
FairSpec ==
    /\ Spec
    /\ \A t \in Turns : WF_vars(TurnStep(t)) /\ SF_vars(InsertSources(t))
    /\ \A d \in Docs : SF_vars(RemoveDocument(d))
    /\ \A s \in Sessions : SF_vars(Close(s)) /\ WF_vars(StoreOpener(s))
    /\ WF_vars(\E p \in Procs : BreakDeadlock(p))
-----------------------------------------------------------------------------
(* Safety                                                                     *)

\* No half-written turn: a question is stored exactly when its answer is
\* (send_message: "roll back the user message insert so the conversation stays
\* clean"), whatever fails or runs between the two inserts.
TurnsComplete ==
    \A t \in Turns : <<t, "user">> \in stored <=> <<t, "assistant">> \in stored

\* Every stored citation is of a stored answer and names an existing document of
\* the session's owner, although the retrieval returns deleted documents and the
\* ownership check asks a snapshot.
CitationsResolve ==
    \A t \in Turns : \A d \in cites[t] :
        /\ <<t, "assistant">> \in stored
        /\ Live(d)
        /\ Owner[d] = Owner[turn[t].session]

\* Messages belong to an existing session, and so does what a turn under way has
\* inserted: its lock on the session keeps DELETE waiting for the commit.
MessagesHaveSession ==
    /\ \A m \in stored : turn[m[1]].pc = "done" /\ Open(turn[m[1]].session)
    /\ \A t \in Turns : HoldsSession(t) => Open(turn[t].session)
    /\ \A s \in Sessions : opener[s] = "stored" => Open(s)

\* A session about a document ends with the document, also when it is created
\* while the document is being deleted.
ScopeResolves ==
    \A s \in Sessions : Open(s) /\ scope[s] # NoDoc =>
        Live(scope[s]) /\ Owner[scope[s]] = Owner[s]

\* What refers to rows finds them, whatever is deleted, created or rolled back in
\* between: citations their documents, messages their sessions, and sessions about
\* a document that document (the foreign keys, row locks and cascades of send_message,
\* create_session and the two deletions).
RowsResolve == CitationsResolve /\ MessagesHaveSession /\ ScopeResolves

\* What a turn relies on when it is resumed, although its documents and its
\* session may be gone: a cited document is locked against deletion until the
\* commit, and everything retrieved is the user's own.
TurnsOnTrack ==
    /\ removing \subseteq LiveDocs
    /\ \A t \in Turns :
        /\ turn[t].pc \notin {"new", "lost"} <=> turn[t].session \in Sessions
        /\ turn[t].pc \in {"cite", "commit"} => turn[t].wrote = Role
        /\ \A d \in turn[t].found \cup turn[t].cited :
              turn[t].session \in Sessions /\ Owner[d] = Owner[turn[t].session]
        /\ turn[t].pc = "commit" => turn[t].cited \subseteq LiveDocs \ removing

\* The handlers implement the promise of Conversation.
Said(t) ==
    CASE turn[t].pc = "lost" -> "lost"
      [] turn[t].pc = "done" ->
             IF ({t} \X Role) \subseteq stored THEN turn[t].session
             ELSE IF ({t} \X Role) \cap stored = {} THEN "gone" ELSE "torn"
      [] OTHER -> "none"

Promise == INSTANCE Conversation WITH turn <- [t \in Turns |-> Said(t)]

ImplementsConversation == Promise!Spec

-----------------------------------------------------------------------------
(* Liveness, without failures                                                 *)

\* Every question is answered or refused: nothing it can wait for, the deletion of
\* a document it cites that waits for its own session included, lasts forever.
QuestionsEnd == \A t \in Turns : turn[t].pc = "ask" ~> turn[t].pc \in {"done", "lost"}

\* Every deletion ends, once nobody asks new questions in its way (questions are
\* finitely many here).
DeletionsEnd ==
    /\ \A d \in Docs : d \in removing ~> d \notin removing
    /\ \A s \in Sessions : s \in closing ~> s \notin closing

-----------------------------------------------------------------------------
(* What the repository's own words say, and the code does not keep: README,   *)
(* "Where the code and its words part".                                       *)

\* The answer to a question moves its session to the top of the list.
\* chat_service.py: "Bump session.updated_at so list ordering reflects activity".
AnsweringMovesSessionUp ==
    [][\A t \in Turns : turn[t].pc = "commit" /\ turn'[t].pc = "done" =>
           latest' = turn[t].session]_vars

\* The response to a question lists the citations that were stored with it; it
\* lists what was retrieved.  schemas/chat.py: "A chat message plus its persisted
\* citations".
ResponseListsStoredCitations ==
    [][\A t \in Turns : turn[t].pc = "commit" /\ turn'[t].pc = "done" =>
           cites'[t] = Response(t)]_vars
=============================================================================
