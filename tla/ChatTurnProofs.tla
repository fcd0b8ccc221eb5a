--------------------------- MODULE ChatTurnProofs ---------------------------
(***************************************************************************)
(* The safety of ChatTurn for any number of documents, sessions and        *)
(* questions, and any set of failures.                                     *)
(*                                                                         *)
(* What has to survive the steps of other transactions is what a row lock  *)
(* protects: the session of a turn that has inserted its question, and the *)
(* documents it has cited.  TurnsOnTrack and the second conjunct of        *)
(* MessagesHaveSession say so, and make the conjunction inductive.         *)
(***************************************************************************)
EXTENDS ChatTurn, TLAPS

IInv ==
    /\ TypeOK
    /\ TurnsComplete
    /\ CitationsResolve
    /\ MessagesHaveSession
    /\ ScopeResolves
    /\ TurnsOnTrack

\* A turn that is new, or lost, is a turn; so is one with some fields replaced.
LEMMA NewTurnType ==
    /\ NewTurn \in Turn
    /\ \A pc \in TurnPC : [NewTurn EXCEPT !.pc = pc] \in Turn
    /\ \A pc \in TurnPC, s \in Sessions :
           [NewTurn EXCEPT !.pc = pc, !.session = s] \in Turn
  BY DEF NewTurn, Turn, TurnPC

\* Moving a turn on, with what it wrote, found or cites, keeps its type.
LEMMA TurnField ==
    ASSUME TypeOK, NEW t \in Turns, NEW pc \in TurnPC
    PROVE  /\ [turn EXCEPT ![t].pc = pc] \in [Turns -> Turn]
           /\ \A R \in SUBSET Role, D \in SUBSET Docs :
                 /\ [turn[t] EXCEPT !.pc = pc, !.wrote = R] \in Turn
                 /\ [turn[t] EXCEPT !.pc = pc, !.found = D] \in Turn
                 /\ [turn[t] EXCEPT !.pc = pc, !.wrote = R, !.cited = D] \in Turn
  BY DEF TypeOK, Turn

\* A rollback keeps the type of the turns.
LEMMA LoseType == ASSUME TypeOK, NEW t \in Turns, Lose(t) PROVE turn' \in [Turns -> Turn]
  BY NewTurnType DEF TypeOK, Lose, TurnPC

\* The steps of a turn keep the type of its record.
LEMMA TurnStepType ==
    ASSUME TypeOK, NEW t \in Turns, TurnStep(t)
    PROVE  turn' \in [Turns -> Turn]
  <1>0. /\ turn \in [Turns -> Turn] /\ turn[t] \in Turn
        /\ turn[t].session \in Sessions \cup {NoSession}
        /\ Hits(t) \subseteq Docs /\ Owned(t) \subseteq Docs
    BY DEF TypeOK, Turn, Hits, Owned
  <1>1. CASE InsertQuestion(t)
    <2>1. [turn[t] EXCEPT !.pc = "retrieve", !.wrote = {"user"}] \in Turn
      BY TurnField DEF TurnPC, Role
    <2>2. QED
      BY <1>0, <1>1, <2>1, LoseType DEF InsertQuestion
  <1>2. CASE Retrieve(t)
    <2>1. CASE turn' = [turn EXCEPT ![t].pc = "answer"]
      BY <2>1, TurnField DEF TurnPC
    <2>2. ASSUME NEW F \in SUBSET Hits(t),
                 turn' = [turn EXCEPT ![t] = [@ EXCEPT !.pc = "generate", !.found = F]]
          PROVE  turn' \in [Turns -> Turn]
      <3>1. [turn[t] EXCEPT !.pc = "generate", !.found = F] \in Turn
        BY <1>0, TurnField DEF TurnPC
      <3>2. QED
        BY <1>0, <2>2, <3>1
    <2>3. QED
      BY <1>2, <2>1, <2>2, LoseType DEF Retrieve
  <1>3. CASE Generate(t)
    BY <1>3, TurnField, LoseType DEF Generate, TurnGoto, TurnPC
  <1>4. CASE InsertAnswer(t)
    <2>1. [turn[t] EXCEPT !.pc = "cite", !.wrote = Role, !.cited = Owned(t)] \in Turn
      BY <1>0, TurnField DEF TurnPC
    <2>2. QED
      BY <1>0, <1>4, <2>1 DEF InsertAnswer
  <1>5. CASE InsertSources(t)
    BY <1>5, TurnField, LoseType DEF InsertSources, TurnGoto, TurnPC
  <1>6. CASE CommitTurn(t)
    <2>1. turn[t].session \in Sessions \cup {NoSession}
      BY DEF TypeOK, Turn
    <2>2. [NewTurn EXCEPT !.pc = "done", !.session = turn[t].session] \in Turn
      BY <2>1 DEF NewTurn, Turn, TurnPC
    <2>3. QED
      BY <1>6, <2>2 DEF CommitTurn, TypeOK
  <1>7. QED
    BY <1>1, <1>2, <1>3, <1>4, <1>5, <1>6 DEF TurnStep

-----------------------------------------------------------------------------
\* Type correctness is kept by every step.
LEMMA TypeStep == TypeOK /\ [Next]_vars => TypeOK'
  <1> SUFFICES ASSUME TypeOK, [Next]_vars PROVE TypeOK'
    OBVIOUS
  <1> USE DEF rows, deletes
  <1>1. ASSUME NEW d \in Docs, DocumentCall(d) \/ RemoveDocument(d) PROVE TypeOK'
    <2>1. CASE AddDocument(d)
      BY <2>1 DEF AddDocument, TypeOK, Life
    <2>2. CASE LockDocument(d)
      BY <2>2 DEF LockDocument, TypeOK
    <2>3. CASE RemoveDocument(d)
      BY <2>3 DEF RemoveDocument, DropSessions, TypeOK, Life
    <2>4. QED
      BY <1>1, <2>1, <2>2, <2>3 DEF DocumentCall
  <1>2. ASSUME NEW s \in Sessions, SessionCall(s) \/ StoreOpener(s) \/ Close(s)
        PROVE  TypeOK'
    <2>1. ASSUME NEW d \in Docs \cup {NoDoc}, NEW o \in {"none", "due"},
                 CreateSession(s, d, o)
          PROVE  TypeOK'
      BY <2>1 DEF CreateSession, TypeOK, Life
    <2>2. CASE UpdateSession(s)
      BY <2>2 DEF UpdateSession, TypeOK
    <2>3. CASE BeginClose(s)
      BY <2>3 DEF BeginClose, TurnsIn, TypeOK
    <2>4. ASSUME NEW t \in Turns, NEW d \in Docs \cup {NoDoc}, BeginTurn(t, s, d)
          PROVE  TypeOK'
      <3> DEFINE f == IF d # NoDoc THEN d ELSE scope[s]
                 S == {e \in LiveDocs : Owner[e] = Owner[s]}
      <3>1. f \in Docs \cup {NoDoc} /\ S \in SUBSET Docs
        BY DEF TypeOK, LiveDocs
      <3>2. turn' = [turn EXCEPT ![t] = [NewTurn EXCEPT
                        !.pc = "ask", !.session = s, !.filter = f, !.seen = S]]
        BY <2>4 DEF BeginTurn
      <3> HIDE DEF f, S
      <3>3. [NewTurn EXCEPT !.pc = "ask", !.session = s, !.filter = f, !.seen = S] \in Turn
        BY <3>1 DEF NewTurn, Turn, TurnPC
      <3>4. turn' \in [Turns -> Turn]
        BY <3>2, <3>3 DEF TypeOK
      <3>5. QED
        BY <2>4, <3>4 DEF BeginTurn, TypeOK
    <2>5. CASE StoreOpener(s)
      BY <2>5 DEF StoreOpener, TypeOK
    <2>6. CASE Close(s)
      BY <2>6 DEF Close, DropSessions, TypeOK, Life
    <2>7. QED
      BY <1>2, <2>1, <2>2, <2>3, <2>4, <2>5, <2>6 DEF SessionCall
  <1>3. ASSUME NEW t \in Turns, TurnStep(t) PROVE TypeOK'
    <2>1. turn' \in [Turns -> Turn]
      BY <1>3, TurnStepType
    <2>2. CASE CommitTurn(t)
      <3>1. turn[t].wrote \subseteq Role /\ turn[t].cited \subseteq Docs
        BY DEF TypeOK, Turn
      <3>2. QED
        BY <2>1, <2>2, <3>1 DEF CommitTurn, TypeOK
    <2>3. CASE UNCHANGED <<rows, deletes>>
      BY <2>1, <2>3 DEF TypeOK
    <2>4. QED
      BY <1>3, <2>2, <2>3 DEF TurnStep, InsertQuestion, Retrieve, Generate,
           InsertAnswer, InsertSources
  <1>4. ASSUME NEW p \in Procs, Abort(p) PROVE TypeOK'
    <2>1. turn' \in [Turns -> Turn]
      BY <1>4, LoseType DEF Abort, TypeOK
    <2>2. QED
      BY <1>4, <2>1 DEF Abort, TypeOK
  <1>5. ASSUME NEW s \in Sessions, FailOpener(s) PROVE TypeOK'
    BY <1>5 DEF FailOpener, TypeOK
  <1>6. CASE Crash
    BY <1>6, NewTurnType DEF Crash, TypeOK, TurnPC
  <1>7. CASE UNCHANGED vars
    BY <1>7 DEF vars, TypeOK
  <1>8. QED
    BY <1>1, <1>2, <1>3, <1>4, <1>5, <1>6, <1>7 DEF Next, Fault, BreakDeadlock, Fail

-----------------------------------------------------------------------------
(* TurnsOnTrack and the locks of MessagesHaveSession, per turn.               *)

OnTrack(t) ==
    /\ turn[t].pc \notin {"new", "lost"} <=> turn[t].session \in Sessions
    /\ turn[t].pc \in {"cite", "commit"} => turn[t].wrote = Role
    /\ \A d \in turn[t].found \cup turn[t].cited :
          turn[t].session \in Sessions /\ Owner[d] = Owner[turn[t].session]
    /\ turn[t].pc = "commit" => turn[t].cited \subseteq LiveDocs \ removing
    /\ HoldsSession(t) => Open(turn[t].session)

\* TurnsOnTrack, with the locks of MessagesHaveSession, holds turn by turn.
LEMMA TracksSplit ==
    /\ TurnsOnTrack /\ MessagesHaveSession => \A t \in Turns : OnTrack(t)
    /\ removing \subseteq LiveDocs /\ (\A t \in Turns : OnTrack(t)) => TurnsOnTrack
  BY DEF TurnsOnTrack, MessagesHaveSession, OnTrack

\* A turn that has just been lost is on track.
LEMMA LostOnTrack ==
    ASSUME NEW t \in Turns, turn'[t] = [NewTurn EXCEPT !.pc = "lost"]
    PROVE  OnTrack(t)' /\ turn'[t].pc = "lost"
  BY NullAssumption DEF OnTrack, NewTurn, HoldsSession

\* A step that changes no committed row but opening messages, takes no new lock on
\* a document for deletion, and moves turns that are not done and leaves them on
\* track, keeps the invariant.
LEMMA TurnsMove ==
    ASSUME IInv, TypeOK',
           UNCHANGED <<doc, session, scope, stored, cites>>, removing' \subseteq removing,
           \A s \in Sessions : opener'[s] = "stored" => opener[s] = "stored" \/ Open(s),
           \A t \in Turns : \/ turn'[t] = turn[t]
                            \/ turn[t].pc # "done" /\ turn'[t].pc # "done" /\ OnTrack(t)'
    PROVE  IInv'
  <1>1. \A t \in Turns : turn[t].pc = "done" => turn'[t] = turn[t]
    OBVIOUS
  <1>2. \A m \in stored : m[1] \in Turns /\ turn'[m[1]] = turn[m[1]]
    BY <1>1 DEF IInv, TypeOK, MessagesHaveSession
  <1>3. \A t \in Turns : OnTrack(t)'
    <2> SUFFICES ASSUME NEW t \in Turns PROVE OnTrack(t)'
      OBVIOUS
    <2>1. CASE turn'[t] = turn[t]
      <3>1. OnTrack(t)
        BY TracksSplit DEF IInv
      <3>2. LiveDocs' = LiveDocs
        BY DEF LiveDocs, Live
      <3>3. QED
        BY <2>1, <3>1, <3>2 DEF OnTrack, HoldsSession, Open
    <2>2. QED
      BY <2>1
  <1>4. TurnsComplete' /\ ScopeResolves'
    BY DEF IInv, TurnsComplete, ScopeResolves, Open, Live
  <1>5. CitationsResolve'
    <2> SUFFICES ASSUME NEW t \in Turns, NEW d \in cites[t]
                 PROVE  /\ <<t, "assistant">> \in stored
                        /\ Live(d)
                        /\ Owner[d] = Owner[turn'[t].session]
      BY DEF CitationsResolve, Live
    <2>1. /\ <<t, "assistant">> \in stored /\ Live(d)
          /\ Owner[d] = Owner[turn[t].session]
      BY DEF IInv, CitationsResolve
    <2>2. turn[t].pc = "done"
      BY <2>1 DEF IInv, MessagesHaveSession
    <2>3. QED
      BY <1>1, <2>1, <2>2
  <1>6. MessagesHaveSession'
    <2>1. \A t \in Turns : HoldsSession(t)' => Open(turn[t].session)'
      BY <1>3 DEF OnTrack
    <2>2. \A m \in stored : turn'[m[1]].pc = "done" /\ Open(turn'[m[1]].session)
      BY <1>2 DEF IInv, MessagesHaveSession
    <2>3. \A s \in Sessions : opener'[s] = "stored" => Open(s)
      BY DEF IInv, MessagesHaveSession
    <2>4. QED
      BY <2>1, <2>2, <2>3 DEF MessagesHaveSession, Open
  <1>7. TurnsOnTrack'
    <2>1. removing' \subseteq LiveDocs'
      BY DEF IInv, TurnsOnTrack, LiveDocs, Live
    <2>2. QED
      BY <1>3, <2>1 DEF TurnsOnTrack, OnTrack
  <1>8. QED
    BY <1>4, <1>5, <1>6, <1>7 DEF IInv

\* The invariant survives the removal of a set of sessions that no turn under way
\* has a lock on, with their messages and citations, and of documents on which no
\* turn has one, with the citations of them and the sessions about them.
LEMMA RowsGo ==
    ASSUME IInv, TypeOK', NEW S \in SUBSET Sessions, NEW D \in SUBSET Docs,
           \A t \in Turns : HoldsSession(t) => turn[t].session \notin S,
           \A t \in Turns, d \in D : ~HoldsDoc(t, d),
           \A d \in D : SessionsAbout(d) \subseteq S,
           DropSessions(S),
           doc' = [d \in Docs |-> IF d \in D THEN "deleted" ELSE doc[d]],
           cites' = [t \in Turns |-> IF t \in TurnsIn(S) THEN {} ELSE cites[t] \ D],
           removing' = removing \ D, UNCHANGED <<scope, turn>>
    PROVE  IInv'
  <1>1. \A s \in Sessions : Open(s)' <=> Open(s) /\ s \notin S
    BY DEF DropSessions, Open
  <1>2. \A d \in Docs : Live(d)' <=> Live(d) /\ d \notin D
    BY DEF Live
  <1>3. \A t \in Turns : OnTrack(t)'
    <2> SUFFICES ASSUME NEW t \in Turns PROVE OnTrack(t)'
      OBVIOUS
    <2>1. OnTrack(t)
      BY TracksSplit DEF IInv
    <2>2. turn[t].pc = "commit" => turn[t].cited \subseteq LiveDocs' \ removing'
      BY <1>2, <2>1 DEF OnTrack, LiveDocs, HoldsDoc
    <2>3. HoldsSession(t) => Open(turn[t].session)'
      BY <1>1, <2>1 DEF OnTrack, HoldsSession
    <2>4. QED
      BY <2>1, <2>2, <2>3 DEF OnTrack, HoldsSession
  <1>4. \A m \in stored : m[1] \in Turns /\ m = <<m[1], m[2]>>
    BY DEF IInv, TypeOK
  <1>5. \A t \in Turns : \A r \in Role :
           <<t, r>> \in stored' <=> <<t, r>> \in stored /\ t \notin TurnsIn(S)
    BY DEF DropSessions
  <1>6. TurnsComplete'
    BY <1>5 DEF IInv, TurnsComplete, Role
  <1>7. CitationsResolve'
    <2> SUFFICES ASSUME NEW t \in Turns, NEW d \in cites'[t]
                 PROVE  /\ <<t, "assistant">> \in stored'
                        /\ Live(d)'
                        /\ Owner[d] = Owner[turn[t].session]
      BY DEF CitationsResolve
    <2>1. t \notin TurnsIn(S) /\ d \in cites[t] \ D
      OBVIOUS
    <2>2. /\ <<t, "assistant">> \in stored /\ Live(d)
          /\ Owner[d] = Owner[turn[t].session]
      BY <2>1 DEF IInv, CitationsResolve
    <2>3. d \in Docs
      BY <2>1 DEF IInv, TypeOK
    <2>4. QED
      BY <1>2, <1>5, <2>1, <2>2, <2>3 DEF Role
  <1>8. MessagesHaveSession'
    <2>1. ASSUME NEW m \in stored'
          PROVE  turn'[m[1]].pc = "done" /\ Open(turn[m[1]].session)'
      <3>1. m \in stored /\ m[1] \in Turns /\ turn[m[1]].session \notin S
        BY <1>4, <2>1 DEF DropSessions, TurnsIn
      <3>2. turn[m[1]].pc = "done" /\ Open(turn[m[1]].session)
        BY <3>1 DEF IInv, MessagesHaveSession
      <3>3. turn[m[1]].session \in Sessions
        BY <3>1, <3>2, TracksSplit DEF IInv, OnTrack
      <3>4. QED
        BY <1>1, <3>1, <3>2, <3>3
    <2>2. ASSUME NEW s \in Sessions, opener'[s] = "stored" PROVE Open(s)'
      BY <1>1, <2>2 DEF IInv, MessagesHaveSession, DropSessions
    <2>3. \A t \in Turns : HoldsSession(t)' => Open(turn[t].session)'
      BY <1>3 DEF OnTrack
    <2>4. QED
      BY <2>1, <2>2, <2>3 DEF MessagesHaveSession
  <1>9. ScopeResolves'
    <2> SUFFICES ASSUME NEW s \in Sessions, Open(s)', scope[s] # NoDoc
                 PROVE  Live(scope[s])' /\ Owner[scope[s]] = Owner[s]
      BY DEF ScopeResolves
    <2>1. Open(s) /\ s \notin S /\ scope[s] \in Docs
      BY <1>1 DEF IInv, TypeOK
    <2>2. Live(scope[s]) /\ Owner[scope[s]] = Owner[s] /\ scope[s] \notin D
      BY <2>1 DEF IInv, ScopeResolves, SessionsAbout
    <2>3. QED
      BY <1>2, <2>1, <2>2
  <1>10. TurnsOnTrack'
    <2>1. removing' \subseteq LiveDocs'
      BY <1>2 DEF IInv, TurnsOnTrack, LiveDocs
    <2>2. QED
      BY <1>3, <2>1 DEF TurnsOnTrack, OnTrack
  <1>11. QED
    BY <1>6, <1>7, <1>8, <1>9, <1>10 DEF IInv

\* The invariant survives new documents and sessions, and the lock of a document
\* that no turn has a lock on.
LEMMA RowsCome ==
    ASSUME IInv, UNCHANGED <<stored, cites, turn>>,
           \A d \in Docs : Live(d) => Live(d)',
           \A s \in Sessions : Open(s) => Open(s)',
           \A s \in Sessions : opener'[s] = "stored" => opener[s] = "stored",
           \A d \in removing' : \/ d \in removing
                                \/ d \in LiveDocs /\ \A t \in Turns : ~HoldsDoc(t, d),
           TypeOK', ScopeResolves'
    PROVE  IInv'
  <1>1. LiveDocs \subseteq LiveDocs'
    BY DEF LiveDocs
  <1>2. \A t \in Turns : OnTrack(t) /\ HoldsSession(t)' = HoldsSession(t)
    BY TracksSplit DEF IInv, HoldsSession
  <1>3. TurnsComplete'
    BY DEF IInv, TurnsComplete
  <1>4. CitationsResolve'
    BY DEF IInv, TypeOK, CitationsResolve
  <1>5. MessagesHaveSession'
    <2>1. \A m \in stored : m[1] \in Turns
      BY DEF IInv, TypeOK
    <2>2. \A m \in stored : turn[m[1]].pc = "done" /\ Open(turn[m[1]].session)
      BY DEF IInv, MessagesHaveSession
    <2>3. \A m \in stored : Open(turn[m[1]].session)'
      BY <1>2, <2>1, <2>2 DEF OnTrack
    <2>4. \A t \in Turns : HoldsSession(t) => Open(turn[t].session)'
      BY <1>2 DEF OnTrack, HoldsSession
    <2>5. \A s \in Sessions : opener'[s] = "stored" => Open(s)'
      BY DEF IInv, MessagesHaveSession
    <2>6. QED
      BY <1>2, <2>2, <2>3, <2>4, <2>5 DEF MessagesHaveSession
  <1>6. TurnsOnTrack'
    <2>1. removing' \subseteq LiveDocs'
      BY <1>1 DEF IInv, TurnsOnTrack
    <2>2. ASSUME NEW t \in Turns, turn[t].pc = "commit"
          PROVE  turn[t].cited \subseteq LiveDocs' \ removing'
      BY <1>1, <1>2, <2>2 DEF OnTrack, HoldsDoc
    <2>3. QED
      BY <1>2, <2>1, <2>2 DEF TurnsOnTrack, OnTrack
  <1>7. QED
    BY <1>3, <1>4, <1>5, <1>6 DEF IInv

-----------------------------------------------------------------------------
\* The steps of a turn up to its commit.
LEMMA TurnProceeds ==
    ASSUME IInv, TypeOK', NEW t \in Turns, TurnStep(t), ~CommitTurn(t)
    PROVE  IInv'
  <1> USE DEF rows, deletes
  <1>1. /\ turn \in [Turns -> Turn] /\ turn[t] \in Turn
        /\ OnTrack(t)
    BY TracksSplit DEF IInv, TypeOK
  <1>2. /\ turn[t].pc \notin {"new", "done", "lost"}
        /\ UNCHANGED <<rows, deletes>>
        /\ \A u \in Turns \ {t} : turn'[u] = turn[u]
    BY <1>1 DEF TurnStep, InsertQuestion, Retrieve, Generate, InsertAnswer,
                InsertSources, TurnAt, TurnGoto, Lose
  <1>3. turn[t].session \in Sessions
    BY <1>1, <1>2 DEF OnTrack
  <1>4. LiveDocs' = LiveDocs /\ \A s \in Sessions : Open(s)' <=> Open(s)
    BY <1>2 DEF LiveDocs, Live, Open
  <1>5. Lose(t) => OnTrack(t)' /\ turn'[t].pc = "lost"
    BY <1>1, LostOnTrack DEF Lose
  <1>6. OnTrack(t)' /\ turn'[t].pc # "done"
    <2>1. CASE InsertQuestion(t)
      <3>1. CASE Open(turn[t].session)
        <4>1. turn'[t] = [turn[t] EXCEPT !.pc = "retrieve", !.wrote = {"user"}]
          BY <1>1, <2>1, <3>1 DEF InsertQuestion
        <4>2. /\ turn'[t].pc = "retrieve" /\ turn'[t].session = turn[t].session
              /\ turn'[t].found = turn[t].found /\ turn'[t].cited = turn[t].cited
          BY <1>1, <4>1 DEF Turn
        <4>3. QED
          BY <1>1, <1>3, <1>4, <3>1, <4>2 DEF OnTrack, HoldsSession
      <3>2. QED
        BY <1>5, <2>1, <3>1 DEF InsertQuestion
    <2>2. CASE Retrieve(t)
      <3>1. HoldsSession(t)
        BY <2>2 DEF Retrieve, TurnAt, HoldsSession
      <3>2. CASE turn' = [turn EXCEPT ![t].pc = "answer"]
        BY <1>1, <1>3, <1>4, <3>1, <3>2 DEF OnTrack, HoldsSession, Turn
      <3>3. ASSUME NEW F \in SUBSET Hits(t),
                   turn' = [turn EXCEPT ![t] = [@ EXCEPT !.pc = "generate", !.found = F]]
            PROVE  OnTrack(t)' /\ turn'[t].pc # "done"
        <4>1. \A d \in F : Owner[d] = Owner[turn[t].session]
          BY DEF Hits
        <4>2. QED
          BY <1>1, <1>3, <1>4, <3>1, <3>3, <4>1 DEF OnTrack, HoldsSession, Turn
      <3>4. QED
        BY <1>5, <2>2, <3>2, <3>3 DEF Retrieve
    <2>3. CASE Generate(t)
      <3>1. HoldsSession(t)
        BY <2>3 DEF Generate, TurnAt, HoldsSession
      <3>2. CASE TurnGoto(t, "answer")
        BY <1>1, <1>3, <1>4, <3>1, <3>2 DEF TurnGoto, OnTrack, HoldsSession, Turn
      <3>3. QED
        BY <1>5, <2>3, <3>2 DEF Generate
    <2>4. CASE InsertAnswer(t)
      <3>1. HoldsSession(t)
        BY <2>4 DEF InsertAnswer, TurnAt, HoldsSession
      <3>2. \A d \in Owned(t) : Owner[d] = Owner[turn[t].session]
        BY DEF Owned
      <3>3. QED
        BY <1>1, <1>3, <1>4, <2>4, <3>1, <3>2
           DEF InsertAnswer, OnTrack, HoldsSession, Turn
    <2>5. CASE InsertSources(t)
      <3>1. HoldsSession(t) /\ turn[t].pc = "cite" /\ ~Blocked(t)
        BY <2>5 DEF InsertSources, TurnAt, HoldsSession
      <3>2. turn[t].cited \cap removing = {}
        <4>1. turn[t].cited \subseteq Docs
          BY <1>1 DEF Turn
        <4>2. QED
          BY <3>1, <4>1 DEF Blocked, WaitsFor, Procs
      <3>3. CASE TurnGoto(t, "commit") /\ turn[t].cited \subseteq LiveDocs
        BY <1>1, <1>2, <1>3, <1>4, <3>1, <3>2, <3>3
           DEF TurnGoto, OnTrack, HoldsSession, Turn
      <3>4. QED
        BY <1>5, <2>5, <3>3 DEF InsertSources
    <2>6. QED
      BY <2>1, <2>2, <2>3, <2>4, <2>5 DEF TurnStep
  <1>7. QED
    BY <1>2, <1>6, TurnsMove

\* The commit stores a question, its answer and the citations, whose documents are
\* locked until then.
LEMMA TurnCommits ==
    ASSUME IInv, TypeOK', NEW t \in Turns, CommitTurn(t)
    PROVE  IInv'
  <1> DEFINE s == turn[t].session
             C == turn[t].cited
  <1>1. /\ turn[t].pc = "commit" /\ turn[t].wrote = Role
        /\ s \in Sessions /\ Open(s)
        /\ \A d \in C : Live(d) /\ Owner[d] = Owner[s]
    BY TracksSplit DEF IInv, CommitTurn, TurnAt, OnTrack, HoldsSession, LiveDocs
  <1>2. /\ stored' = stored \cup ({t} \X Role)
        /\ cites' = [cites EXCEPT ![t] = C]
        /\ turn' = [turn EXCEPT ![t] = [NewTurn EXCEPT !.pc = "done", !.session = s]]
        /\ UNCHANGED <<doc, session, scope, opener, removing>>
    BY <1>1 DEF CommitTurn, deletes
  <1>3. /\ turn'[t].pc = "done" /\ turn'[t].session = s
        /\ turn'[t].found = {} /\ turn'[t].cited = {}
        /\ \A u \in Turns \ {t} : turn'[u] = turn[u] /\ cites'[u] = cites[u]
        /\ cites'[t] = C
    BY <1>2 DEF IInv, TypeOK, NewTurn
  <1>4. \A u \in Turns, r \in Role :
           <<u, r>> \in stored' <=> u = t \/ <<u, r>> \in stored
    BY <1>2
  <1> HIDE DEF s, C
  <1>5. /\ LiveDocs' = LiveDocs /\ \A d : Live(d)' <=> Live(d)
        /\ \A e : Open(e)' <=> Open(e)
    BY <1>2 DEF LiveDocs, Live, Open
  <1>6. \A u \in Turns : OnTrack(u)'
    <2>1. \A u \in Turns \ {t} : OnTrack(u)'
      <3>1. \A u \in Turns : OnTrack(u)
        BY TracksSplit DEF IInv
      <3>2. QED
        BY <1>2, <1>3, <1>5, <3>1 DEF OnTrack, HoldsSession
    <2>2. OnTrack(t)'
      BY <1>1, <1>3 DEF OnTrack, HoldsSession
    <2>3. QED
      BY <2>1, <2>2
  <1>7. TurnsComplete'
    BY <1>4 DEF IInv, TurnsComplete, Role
  <1>8. CitationsResolve'
    <2> SUFFICES ASSUME NEW u \in Turns, NEW d \in cites'[u]
                 PROVE  /\ <<u, "assistant">> \in stored'
                        /\ Live(d)
                        /\ Owner[d] = Owner[turn'[u].session]
      BY <1>5 DEF CitationsResolve
    <2>1. CASE u = t
      BY <1>1, <1>3, <1>4, <2>1 DEF Role
    <2>2. CASE u # t
      BY <1>3, <1>4, <2>2 DEF IInv, CitationsResolve, Role
    <2>3. QED
      BY <2>1, <2>2
  <1>9. MessagesHaveSession'
    <2>1. ASSUME NEW m \in stored'
          PROVE  turn'[m[1]].pc = "done" /\ Open(turn'[m[1]].session)
      <3>1. CASE m[1] = t
        BY <1>1, <1>3, <3>1
      <3>2. CASE m[1] # t
        <4>1. m \in stored /\ m[1] \in Turns
          BY <1>2, <2>1, <3>2 DEF IInv, TypeOK
        <4>2. QED
          BY <1>3, <3>2, <4>1 DEF IInv, MessagesHaveSession
      <3>3. QED
        BY <3>1, <3>2
    <2>2. \A u \in Turns : HoldsSession(u)' => Open(turn[u].session)'
      BY <1>6 DEF OnTrack
    <2>3. \A e \in Sessions : opener'[e] = "stored" => Open(e)
      BY <1>2 DEF IInv, MessagesHaveSession
    <2>4. QED
      BY <1>5, <2>1, <2>2, <2>3 DEF MessagesHaveSession
  <1>10. ScopeResolves'
    BY <1>2, <1>5 DEF IInv, ScopeResolves
  <1>11. TurnsOnTrack'
    <2>1. removing' \subseteq LiveDocs'
      BY <1>2, <1>5 DEF IInv, TurnsOnTrack
    <2>2. QED
      BY <1>6, <2>1 DEF TurnsOnTrack, OnTrack
  <1>12. QED
    BY <1>7, <1>8, <1>9, <1>10, <1>11 DEF IInv

-----------------------------------------------------------------------------
(* Every other step, an operation or a failure at a time.                     *)

\* An upload and both halves of a deletion keep the invariant.
LEMMA DocumentStep ==
    ASSUME IInv, TypeOK', NEW d \in Docs, DocumentCall(d) \/ RemoveDocument(d)
    PROVE  IInv'
  <1> USE DEF rows, deletes
  <1>1. CASE AddDocument(d)
    <2>1. \A e \in Docs : Live(e) => Live(e)'
      BY <1>1 DEF AddDocument, IInv, TypeOK, Live
    <2>2. ScopeResolves'
      BY <1>1, <2>1 DEF AddDocument, IInv, TypeOK, ScopeResolves, Open
    <2>3. QED
      BY <1>1, <2>1, <2>2, RowsCome DEF AddDocument, Open
  <1>2. CASE LockDocument(d)
    <2>1. ScopeResolves'
      BY <1>2 DEF LockDocument, IInv, ScopeResolves, Open, Live
    <2>2. QED
      BY <1>2, <2>1, RowsCome DEF LockDocument, Open, Live, LiveDocs
  <1>3. CASE RemoveDocument(d)
    <2> DEFINE S == SessionsAbout(d)
    <2>1. ASSUME NEW t \in Turns, HoldsSession(t) PROVE turn[t].session \notin S
      <3>1. ~WaitsFor(d, t)
        BY <1>3 DEF RemoveDocument, Blocked, Procs
      <3>2. QED
        BY <1>3, <2>1, <3>1 DEF RemoveDocument, WaitsFor, SessionsAbout
    <2>2. \A t \in Turns : ~HoldsDoc(t, d)
      BY <1>3 DEF RemoveDocument, IInv, TurnsOnTrack, HoldsDoc
    <2>3. doc' = [e \in Docs |-> IF e \in {d} THEN "deleted" ELSE doc[e]]
      BY <1>3 DEF RemoveDocument, IInv, TypeOK
    <2>4. S \in SUBSET Sessions /\ {d} \in SUBSET Docs
      BY DEF SessionsAbout
    <2>5. cites' = [t \in Turns |-> IF t \in TurnsIn(S) THEN {} ELSE cites[t] \ {d}]
      BY <1>3 DEF RemoveDocument
    <2>6. DropSessions(S) /\ removing' = removing \ {d} /\ UNCHANGED <<scope, turn>>
      BY <1>3 DEF RemoveDocument
    <2>7. \A e \in {d} : SessionsAbout(e) \subseteq S
      OBVIOUS
    <2> HIDE DEF S
    <2>8. QED
      BY <2>1, <2>2, <2>3, <2>4, <2>5, <2>6, <2>7, RowsGo
  <1>4. QED
    BY <1>1, <1>2, <1>3 DEF DocumentCall

\* Calls on a session, the second transaction of its creation and the end of its
\* deletion keep the invariant.
LEMMA SessionStep ==
    ASSUME IInv, TypeOK', NEW s \in Sessions,
           SessionCall(s) \/ StoreOpener(s) \/ Close(s)
    PROVE  IInv'
  <1> USE DEF rows, deletes
  <1>1. ASSUME NEW d \in Docs \cup {NoDoc}, NEW o \in {"none", "due"},
               CreateSession(s, d, o)
        PROVE  IInv'
    <2>1. \A e \in Sessions : Open(e) => Open(e)'
      BY <1>1 DEF CreateSession, IInv, TypeOK, Open
    <2>2. \A e \in Sessions : opener'[e] = "stored" => opener[e] = "stored"
      BY <1>1 DEF CreateSession, IInv, TypeOK
    <2>3. ScopeResolves'
      <3>1. CASE d = NoDoc
        BY <1>1, <3>1 DEF CreateSession, IInv, TypeOK, ScopeResolves, Live, Open
      <3>2. CASE d # NoDoc
        BY <1>1, <3>2 DEF CreateSession, IInv, TypeOK, ScopeResolves, Live, Open
      <3>3. QED
        BY <3>1, <3>2
    <2>4. QED
      BY <1>1, <2>1, <2>2, <2>3, RowsCome DEF CreateSession, Live
  <1>2. CASE UpdateSession(s)
    BY <1>2, TurnsMove DEF UpdateSession
  <1>3. CASE BeginClose(s)
    BY <1>3, TurnsMove DEF BeginClose
  <1>4. ASSUME NEW t \in Turns, NEW d \in Docs \cup {NoDoc}, BeginTurn(t, s, d)
        PROVE  IInv'
    <2>1. /\ turn'[t].pc = "ask" /\ turn'[t].session = s
          /\ turn'[t].found = {} /\ turn'[t].cited = {}
      BY <1>4 DEF BeginTurn, IInv, TypeOK, NewTurn
    <2>2. OnTrack(t)'
      BY <2>1 DEF OnTrack, HoldsSession
    <2>3. \A u \in Turns \ {t} : turn'[u] = turn[u]
      BY <1>4 DEF BeginTurn, IInv, TypeOK
    <2>4. turn[t].pc = "new" /\ UNCHANGED <<rows, deletes>>
      BY <1>4 DEF BeginTurn, TurnAt
    <2>5. QED
      BY <2>1, <2>2, <2>3, <2>4, TurnsMove
  <1>5. CASE StoreOpener(s)
    <2>1. \A e \in Sessions : opener'[e] = "stored" => opener[e] = "stored" \/ Open(e)
      BY <1>5 DEF StoreOpener, IInv, TypeOK
    <2>2. QED
      BY <1>5, <2>1, TurnsMove DEF StoreOpener
  <1>6. CASE Close(s)
    <2>1. ASSUME NEW t \in Turns, HoldsSession(t) PROVE turn[t].session \notin {s}
      <3>1. ~WaitsFor(s, t)
        BY <1>6 DEF Close, Blocked, Procs
      <3>2. QED
        BY <1>6, <2>1, <3>1 DEF Close, WaitsFor
    <2> DEFINE S == {s}
               D == {d \in Docs : FALSE}
    <2>2. S \in SUBSET Sessions /\ D \in SUBSET Docs
      OBVIOUS
    <2>3. doc' = [e \in Docs |-> IF e \in D THEN "deleted" ELSE doc[e]]
      BY <1>6 DEF Close, IInv, TypeOK
    <2>4. cites' = [t \in Turns |-> IF t \in TurnsIn(S) THEN {} ELSE cites[t] \ D]
      BY <1>6 DEF Close, IInv, TypeOK
    <2>5. DropSessions(S) /\ removing' = removing \ D /\ UNCHANGED <<scope, turn>>
      BY <1>6 DEF Close
    <2>6. \A d \in D : SessionsAbout(d) \subseteq S /\ \A t \in Turns : ~HoldsDoc(t, d)
      OBVIOUS
    <2>7. \A t \in Turns : HoldsSession(t) => turn[t].session \notin S
      BY <2>1
    <2> HIDE DEF S, D
    <2>8. QED
      BY <2>2, <2>3, <2>4, <2>5, <2>6, <2>7, RowsGo
  <1>7. QED
    BY <1>1, <1>2, <1>3, <1>4, <1>5, <1>6 DEF SessionCall

\* Only what is under way is rolled back.
LEMMA AbortsUnderway ==
    ASSUME TypeOK, NEW p \in Procs, BreakDeadlock(p) \/ Fail(p)
    PROVE  Abort(p) /\ (p \in Turns => turn[p].pc \notin {"new", "done", "lost"})
  <1>1. CASE Fail(p)
    BY <1>1, DisjointAssumption DEF Fail, Underway, TypeOK
  <1>2. CASE BreakDeadlock(p)
    <2>1. PICK q \in Procs : WaitsFor(p, q)
      BY <1>2 DEF BreakDeadlock, Deadlocked, Blocked
    <2>2. QED
      BY <1>2, <2>1, DisjointAssumption DEF BreakDeadlock, WaitsFor, TypeOK
  <1>3. QED
    BY <1>1, <1>2

\* Broken deadlocks, failing calls and crashes keep the invariant.
LEMMA FailureStep ==
    ASSUME IInv, TypeOK', (\E p \in Procs : BreakDeadlock(p)) \/ Fault
    PROVE  IInv'
  <1>1. ASSUME NEW p \in Procs, BreakDeadlock(p) \/ Fail(p) PROVE IInv'
    <2>1. Abort(p) /\ (p \in Turns => turn[p].pc # "done")
      BY <1>1, AbortsUnderway DEF IInv
    <2>2. UNCHANGED rows /\ removing' \subseteq removing
      BY <2>1 DEF Abort
    <2>3. ASSUME NEW t \in Turns, turn'[t] # turn[t]
          PROVE  turn[t].pc # "done" /\ turn'[t].pc # "done" /\ OnTrack(t)'
      <3>1. t = p /\ turn'[t] = [NewTurn EXCEPT !.pc = "lost"]
        BY <2>1, <2>3 DEF Abort, Lose, IInv, TypeOK
      <3>2. QED
        BY <2>1, <3>1, LostOnTrack
    <2>4. QED
      BY <2>2, <2>3, TurnsMove DEF rows
  <1>2. ASSUME NEW s \in Sessions, FailOpener(s) PROVE IInv'
    <2>1. \A e \in Sessions : opener'[e] = "stored" => opener[e] = "stored"
      BY <1>2 DEF FailOpener, IInv, TypeOK
    <2>2. QED
      BY <1>2, <2>1, TurnsMove DEF FailOpener, deletes
  <1>3. CASE Crash
    <2>1. ASSUME NEW t \in Turns, turn'[t] # turn[t]
          PROVE  turn[t].pc # "done" /\ turn'[t].pc # "done" /\ OnTrack(t)'
      <3>1. Underway(t) /\ turn'[t] = [NewTurn EXCEPT !.pc = "lost"]
        BY <1>3, <2>1 DEF Crash
      <3>2. turn[t].pc # "done"
        BY <3>1, DisjointAssumption DEF Underway, IInv, TypeOK
      <3>3. QED
        BY <3>1, <3>2, LostOnTrack
    <2>2. \A e \in Sessions : opener'[e] = "stored" => opener[e] = "stored"
      BY <1>3 DEF Crash
    <2>3. UNCHANGED <<doc, session, scope, stored, cites>> /\ removing' \subseteq removing
      BY <1>3 DEF Crash
    <2>4. QED
      BY <2>1, <2>2, <2>3, TurnsMove
  <1>4. QED
    BY <1>1, <1>2, <1>3 DEF Fault

\* The invariant holds before the first request.
LEMMA InvInit == Init => IInv
  <1> SUFFICES ASSUME Init PROVE IInv
    OBVIOUS
  <1>1. TypeOK
    BY NewTurnType DEF Init, TypeOK, Life
  <1>2. \A t \in Turns : turn[t].pc = "new" /\ turn[t].session = NoSession
                         /\ turn[t].found = {} /\ turn[t].cited = {}
    BY DEF Init, NewTurn
  <1>3. QED
    BY <1>1, <1>2, NullAssumption DEF Init, IInv, TurnsComplete, CitationsResolve,
         MessagesHaveSession, ScopeResolves, TurnsOnTrack, HoldsSession, Open

\* Every step keeps the invariant.
LEMMA InvStep == IInv /\ [Next]_vars => IInv'
  <1> SUFFICES ASSUME IInv, [Next]_vars PROVE IInv'
    OBVIOUS
  <1>1. TypeOK'
    BY TypeStep DEF IInv
  <1>2. CASE UNCHANGED vars
    BY <1>1, <1>2, TurnsMove DEF vars
  <1>3. CASE Next
    <2>1. CASE \E d \in Docs : DocumentCall(d) \/ RemoveDocument(d)
      BY <1>1, <2>1, DocumentStep
    <2>2. CASE \E s \in Sessions : SessionCall(s) \/ StoreOpener(s) \/ Close(s)
      BY <1>1, <2>2, SessionStep
    <2>3. CASE \E t \in Turns : TurnStep(t)
      BY <1>1, <2>3, TurnProceeds, TurnCommits
    <2>4. CASE (\E p \in Procs : BreakDeadlock(p)) \/ Fault
      BY <1>1, <2>4, FailureStep
    <2>5. QED
      BY <1>3, <2>1, <2>2, <2>3, <2>4 DEF Next
  <1>4. QED
    BY <1>2, <1>3

-----------------------------------------------------------------------------
\* The inductive invariant: whatever the interleaving of questions, deletions and
\* failures.
THEOREM Invariance == Spec => []IInv
  BY InvInit, InvStep, PTL DEF Spec

\* Every variable keeps its type.
THEOREM TypeCorrect == Spec => []TypeOK
  <1>1. IInv => TypeOK
    BY DEF IInv
  <1>2. QED
    BY <1>1, Invariance, PTL

\* A question is stored exactly when its answer is (send_message rolls back the
\* question when the language model fails).
THEOREM NoHalfTurns == Spec => []TurnsComplete
  <1>1. IInv => TurnsComplete
    BY DEF IInv
  <1>2. QED
    BY <1>1, Invariance, PTL

\* For any number of questions, deletions and failures in any order, citations,
\* messages and scoped sessions refer to rows that exist and belong to the same user,
\* although the vector store returns deleted documents (_build_sources,
\* _user_owns_document, the locks of send_message and the cascades).
THEOREM RowsAreSound == Spec => []RowsResolve
  <1>1. IInv => RowsResolve
    BY DEF IInv, RowsResolve
  <1>2. QED
    BY <1>1, Invariance, PTL

\* What send_message relies on between its suspensions holds when it resumes.
THEOREM TurnsStayOnTrack == Spec => []TurnsOnTrack
  <1>1. IInv => TurnsOnTrack
    BY DEF IInv
  <1>2. QED
    BY <1>1, Invariance, PTL

-----------------------------------------------------------------------------
(* The handlers of ChatTurn keep the promise of Conversation, for any      *)
(* number of documents, sessions and questions and any set of failures.    *)
(*                                                                         *)
(* A question is nothing to the abstract conversation until the commit of  *)
(* its turn, so most steps are invisible; what remains is that the commit  *)
(* finds its session and the documents it cites alive, and that the        *)
(* cascades take whole turns.                                              *)

\* Both messages of a turn are stored, or none.
LEMMA WholeTurns ==
    ASSUME TurnsComplete, NEW t \in Turns
    PROVE  /\ ({t} \X Role) \subseteq stored <=> <<t, "user">> \in stored
           /\ ({t} \X Role) \cap stored = {} <=> <<t, "user">> \notin stored
  <1>1. {t} \X Role = {<<t, "user">>, <<t, "assistant">>}
    BY DEF Role
  <1>2. <<t, "user">> \in stored <=> <<t, "assistant">> \in stored
    BY DEF TurnsComplete
  <1>3. QED
    BY <1>1, <1>2

\* What a user sees of a question: nothing before its commit, and afterwards the
\* session it is stored in, or that it is gone with it.
LEMMA WhatIsSaid ==
    ASSUME TurnsComplete, NEW t \in Turns
    PROVE  /\ turn[t].pc = "lost" => Said(t) = "lost"
           /\ turn[t].pc \notin {"lost", "done"} => Said(t) = "none"
           /\ turn[t].pc = "done" =>
                  Said(t) = IF <<t, "user">> \in stored THEN turn[t].session ELSE "gone"
  BY WholeTurns DEF Said

\* The same in the next state.
LEMMA WhatIsSaidNext ==
    ASSUME TurnsComplete', NEW t \in Turns
    PROVE  /\ turn'[t].pc = "lost" => Said(t)' = "lost"
           /\ turn'[t].pc \notin {"lost", "done"} => Said(t)' = "none"
           /\ turn'[t].pc = "done" =>
                  Said(t)' = IF <<t, "user">> \in stored' THEN turn'[t].session ELSE "gone"
  <1>1. {t} \X Role = {<<t, "user">>, <<t, "assistant">>}
    BY DEF Role
  <1>2. <<t, "user">> \in stored' <=> <<t, "assistant">> \in stored'
    BY DEF TurnsComplete
  <1>3. /\ ({t} \X Role) \subseteq stored' <=> <<t, "user">> \in stored'
        /\ ({t} \X Role) \cap stored' = {} <=> <<t, "user">> \notin stored'
    BY <1>1, <1>2
  <1>4. QED
    BY <1>3 DEF Said

\* A question with a message or a citation has been answered, and is seen in the
\* session it was asked in.
LEMMA AnsweredIsSaid ==
    ASSUME IInv, NEW t \in Turns, <<t, "user">> \in stored \/ cites[t] # {}
    PROVE  /\ turn[t].pc = "done" /\ <<t, "user">> \in stored
           /\ Said(t) = turn[t].session /\ turn[t].session \in Sessions
           /\ Open(turn[t].session)
  <1>1. <<t, "user">> \in stored
    <2>1. ASSUME NEW d \in cites[t] PROVE <<t, "assistant">> \in stored
      BY <2>1 DEF IInv, CitationsResolve
    <2>2. QED
      BY <2>1 DEF IInv, TurnsComplete
  <1>2. turn[t].pc = "done" /\ Open(turn[t].session)
    BY <1>1 DEF IInv, MessagesHaveSession
  <1>3. turn[t].session \in Sessions
    BY <1>2 DEF IInv, TurnsOnTrack
  <1>4. QED
    BY <1>1, <1>2, <1>3, WhatIsSaid DEF IInv

\* An answer is seen only where it was asked, so what is seen in one of the sessions
\* of a set is a stored question of that session.
LEMMA SaidInSession ==
    ASSUME IInv, NEW t \in Turns, Said(t) \in Sessions
    PROVE  turn[t].pc = "done" /\ <<t, "user">> \in stored /\ Said(t) = turn[t].session
  <1>1. Said(t) \notin {"none", "lost", "gone"}
    BY IdAssumption
  <1>2. QED
    BY <1>1, WhatIsSaid DEF IInv

\* Steps that touch no row are invisible, but for the questions they lose.
LEMMA QuietStep ==
    ASSUME IInv, IInv', UNCHANGED <<doc, session, stored, cites>>,
           \A t \in Turns : \/ turn'[t] = turn[t]
                            \/ turn[t].pc \notin {"lost", "done"} /\ turn'[t].pc # "done"
    PROVE  Promise!Next
  <1> DEFINE T == {t \in Turns : turn[t].pc \notin {"lost", "done"} /\ turn'[t].pc = "lost"}
  <1>1. TurnsComplete /\ TurnsComplete'
    BY DEF IInv
  <1>2. \A t \in T : Said(t) = "none" /\ Said(t)' = "lost"
    BY <1>1, WhatIsSaid, WhatIsSaidNext
  <1>3. ASSUME NEW t \in Turns \ T PROVE Said(t)' = Said(t)
    <2>1. CASE turn'[t] = turn[t]
      BY <2>1 DEF Said
    <2>2. CASE turn[t].pc \notin {"lost", "done"} /\ turn'[t].pc \notin {"lost", "done"}
      <3>1. Said(t) = "none" /\ Said(t)' = "none"
        BY <1>1, <2>2, WhatIsSaid, WhatIsSaidNext
      <3>2. QED
        BY <3>1
    <2>3. QED
      BY <2>1, <2>2
  <1>4. [t \in Turns |-> Said(t)'] = [t \in Turns |-> IF t \in T THEN "lost" ELSE Said(t)]
    BY <1>2, <1>3
  <1>5. Promise!Lose(T)
    BY <1>2, <1>4 DEF Promise!Lose
  <1>6. T \in SUBSET Turns
    OBVIOUS
  <1> HIDE DEF T
  <1>7. QED
    BY <1>5, <1>6 DEF Promise!Next

\* When the sessions of S go, with whatever was said in them, the abstract ones end.
LEMMA SessionsEnd ==
    ASSUME IInv, IInv', NEW S \in SUBSET Sessions, DropSessions(S), UNCHANGED turn
    PROVE  Promise!End(S)
  <1>1. ASSUME NEW t \in Turns
        PROVE  Said(t)' = IF Said(t) \in S THEN "gone" ELSE Said(t)
    <2>1. <<t, "user">> \in stored' <=> <<t, "user">> \in stored /\ turn[t].session \notin S
      BY DEF DropSessions, TurnsIn
    <2>2. CASE turn[t].pc = "done"
      <3>1. CASE <<t, "user">> \in stored
        BY <2>1, <2>2, <3>1, AnsweredIsSaid, WhatIsSaidNext DEF IInv
      <3>2. CASE <<t, "user">> \notin stored
        <4>1. Said(t) = "gone" /\ Said(t)' = "gone"
          BY <2>1, <2>2, <3>2, WhatIsSaid, WhatIsSaidNext DEF IInv
        <4>2. QED
          BY <4>1
      <3>3. QED
        BY <3>1, <3>2
    <2>3. CASE turn[t].pc # "done"
      <3>1. Said(t)' = Said(t)
        BY <2>3 DEF Said
      <3>2. Said(t) \in {"none", "lost"}
        BY <2>3, WhatIsSaid DEF IInv
      <3>3. QED
        BY <3>1, <3>2, IdAssumption
    <2>4. QED
      BY <2>2, <2>3
  <1>2. [t \in Turns |-> Said(t)'] = [t \in Turns |-> IF Said(t) \in S THEN "gone" ELSE Said(t)]
    BY <1>1
  <1>3. QED
    BY <1>2 DEF Promise!End, DropSessions

\* The citations that go with the sessions of S are those of what was said in them.
LEMMA CitationsGo ==
    ASSUME IInv, NEW S \in SUBSET Sessions, NEW t \in Turns, NEW D
    PROVE  (IF t \in TurnsIn(S) THEN {} ELSE cites[t] \ D)
               = IF Said(t) \in S THEN {} ELSE cites[t] \ D
  <1>1. CASE cites[t] = {}
    BY <1>1
  <1>2. CASE cites[t] # {}
    BY <1>2, AnsweredIsSaid DEF TurnsIn
  <1>3. QED
    BY <1>1, <1>2

\* A session that is being closed was opened.
ClosingWasOpen == \A s \in closing : session[s] # "unborn"

\* A session whose deletion waits has been created, and stays so.
LEMMA ClosingStep == TypeOK /\ ClosingWasOpen /\ [Next]_vars => ClosingWasOpen'
  <1> SUFFICES ASSUME TypeOK, ClosingWasOpen, [Next]_vars PROVE ClosingWasOpen'
    OBVIOUS
  <1> USE DEF TypeOK, ClosingWasOpen, rows, deletes
  <1>1. ASSUME NEW d \in Docs, DocumentCall(d) \/ RemoveDocument(d) PROVE ClosingWasOpen'
    BY <1>1 DEF DocumentCall, AddDocument, LockDocument, RemoveDocument, DropSessions
  <1>2. ASSUME NEW s \in Sessions, SessionCall(s) \/ StoreOpener(s) \/ Close(s)
        PROVE  ClosingWasOpen'
    BY <1>2 DEF SessionCall, CreateSession, UpdateSession, BeginClose, BeginTurn,
       StoreOpener, Close, DropSessions, Open
  <1>3. ASSUME NEW t \in Turns, TurnStep(t) PROVE ClosingWasOpen'
    BY <1>3 DEF TurnStep, InsertQuestion, Retrieve, Generate, InsertAnswer,
       InsertSources, CommitTurn
  <1>4. ASSUME (\E p \in Procs : BreakDeadlock(p)) \/ Fault PROVE ClosingWasOpen'
    BY <1>4 DEF BreakDeadlock, Fault, Fail, Abort, FailOpener, Crash
  <1>5. CASE UNCHANGED vars
    BY <1>5 DEF vars
  <1>6. QED
    BY <1>1, <1>2, <1>3, <1>4, <1>5 DEF Next

\* The deletion of a session closes the conversation; when the document's deletion
\* has been faster, there is nothing left to close.
LEMMA SessionCloses ==
    ASSUME IInv, IInv', ClosingWasOpen, NEW s \in Sessions, Close(s)
    PROVE  Promise!Next \/ UNCHANGED Promise!vars
  <1>1. DropSessions({s}) /\ UNCHANGED <<doc, turn>> /\ session[s] # "unborn"
    BY DEF Close, ClosingWasOpen
  <1>2. Promise!End({s})
    BY <1>1, SessionsEnd
  <1>3. ASSUME NEW t \in Turns PROVE cites'[t] = IF Said(t) = s THEN {} ELSE cites[t]
    <2>1. cites'[t] = IF t \in TurnsIn({s}) THEN {} ELSE cites[t] \ {}
      BY DEF Close
    <2>2. QED
      BY <2>1, CitationsGo
  <1>4. cites' = [t \in Turns |-> IF Said(t) = s THEN {} ELSE cites[t]]
    BY <1>3 DEF Close
  <1>5. CASE Open(s)
    <2>1. Promise!Close(s)
      BY <1>1, <1>2, <1>4, <1>5 DEF Promise!Close, Open
    <2>2. QED
      BY <2>1 DEF Promise!Next
  <1>6. CASE ~Open(s)
    <2>1. \A t \in Turns : Said(t) # s
      BY <1>6, SaidInSession, AnsweredIsSaid
    <2>2. session[s] = "deleted"
      BY <1>1, <1>6 DEF Open, IInv, TypeOK, Life
    <2>3. session' = session
      BY <1>1, <2>2 DEF DropSessions, IInv, TypeOK
    <2>4. cites' = cites
      BY <1>4, <2>1 DEF IInv, TypeOK
    <2>5. [t \in Turns |-> Said(t)'] = [t \in Turns |-> Said(t)]
      BY <1>2, <2>1 DEF Promise!End
    <2>6. QED
      BY <1>1, <2>3, <2>4, <2>5 DEF Promise!vars
  <1>7. QED
    BY <1>5, <1>6

\* The deletion of a document takes its citations, and the sessions about it, which
\* are its owner's.
LEMMA DocumentGoes ==
    ASSUME IInv, IInv', NEW d \in Docs, RemoveDocument(d)
    PROVE  Promise!Next
  <1> DEFINE S == SessionsAbout(d)
  <1>1. DropSessions(S) /\ UNCHANGED turn
    BY DEF RemoveDocument
  <1>2. S \in SUBSET {s \in Sessions : session[s] = "live" /\ Owner[s] = Owner[d]}
    BY NullAssumption DEF SessionsAbout, IInv, ScopeResolves, Open
  <1>3. doc[d] = "live" /\ doc' = [doc EXCEPT ![d] = "deleted"]
    BY DEF RemoveDocument, IInv, TurnsOnTrack, LiveDocs, Live
  <1>4. Promise!End(S)
    BY <1>1, <1>2, SessionsEnd
  <1>5. ASSUME NEW t \in Turns
        PROVE  cites'[t] = IF Said(t) \in S THEN {} ELSE cites[t] \ {d}
    <2>1. cites'[t] = IF t \in TurnsIn(S) THEN {} ELSE cites[t] \ {d}
      BY DEF RemoveDocument
    <2>2. QED
      BY <1>2, <2>1, CitationsGo
  <1>6. cites' = [t \in Turns |-> IF Said(t) \in S THEN {} ELSE cites[t] \ {d}]
    BY <1>5 DEF RemoveDocument
  <1> HIDE DEF S
  <1>7. Promise!RemoveDocument(d)
    BY <1>2, <1>3, <1>4, <1>6 DEF Promise!RemoveDocument
  <1>8. QED
    BY <1>7 DEF Promise!Next

\* The commit of a turn is its answer: the session and the cited documents are
\* there, because their rows have been locked since they were referred to.
LEMMA CommitIsAnswer ==
    ASSUME IInv, IInv', NEW t \in Turns, CommitTurn(t)
    PROVE  Promise!Next
  <1> DEFINE s == turn[t].session
             D == turn[t].cited
  <1>1. /\ turn[t].pc = "commit" /\ turn[t].wrote = Role
        /\ s \in Sessions
        /\ D \in SUBSET {d \in LiveDocs : Owner[d] = Owner[s]}
    BY DEF CommitTurn, TurnAt, IInv, TurnsOnTrack
  <1>2. session[s] = "live"
    BY <1>1 DEF IInv, MessagesHaveSession, HoldsSession, Open
  <1>3. Said(t) = "none"
    BY <1>1, WhatIsSaid DEF IInv
  <1>4. turn'[t].pc = "done" /\ turn'[t].session = s /\ <<t, "user">> \in stored'
    BY <1>1 DEF CommitTurn, IInv, TypeOK, NewTurn, Role
  <1>5. Said(t)' = s
    BY <1>4, WhatIsSaidNext DEF IInv
  <1>6. ASSUME NEW u \in Turns \ {t} PROVE Said(u)' = Said(u)
    <2>1. turn'[u] = turn[u]
      BY DEF CommitTurn, IInv, TypeOK
    <2>2. \A x \in Role : <<u, x>> \in stored' <=> <<u, x>> \in stored
      BY DEF CommitTurn
    <2>3. {u} \X Role = {<<u, x>> : x \in Role}
      OBVIOUS
    <2>4. /\ ({u} \X Role) \subseteq stored' <=> ({u} \X Role) \subseteq stored
          /\ ({u} \X Role) \cap stored' = {} <=> ({u} \X Role) \cap stored = {}
      BY <2>2, <2>3
    <2>5. QED
      BY <2>1, <2>4 DEF Said
  <1>7. [u \in Turns |-> Said(u)'] = [[u \in Turns |-> Said(u)] EXCEPT ![t] = s]
    BY <1>5, <1>6
  <1>8. cites' = [cites EXCEPT ![t] = D] /\ UNCHANGED <<doc, session>>
    BY DEF CommitTurn
  <1>9. Promise!LiveDocs = LiveDocs
    BY DEF Promise!LiveDocs, LiveDocs, Live
  <1> HIDE DEF s, D
  <1>10. Promise!Answer(t, s)
    BY <1>1, <1>2, <1>3, <1>7, <1>8, <1>9 DEF Promise!Answer
  <1>11. QED
    BY <1>1, <1>10 DEF Promise!Next

\* New documents and sessions are new in the abstract conversation, too.
LEMMA RowsAreNew ==
    ASSUME UNCHANGED <<turn, stored, cites>>
    PROVE  /\ \A d \in Docs : AddDocument(d) => Promise!Next
           /\ \A s \in Sessions, d \in Docs \cup {NoDoc}, o \in {"none", "due"} :
                 CreateSession(s, d, o) => Promise!Next
  <1>1. [t \in Turns |-> Said(t)'] = [t \in Turns |-> Said(t)]
    BY DEF Said
  <1>2. ASSUME NEW d \in Docs, AddDocument(d) PROVE Promise!AddDocument(d)
    BY <1>1, <1>2 DEF AddDocument, Promise!AddDocument
  <1>3. ASSUME NEW s \in Sessions, NEW d \in Docs \cup {NoDoc}, NEW o \in {"none", "due"},
               CreateSession(s, d, o)
        PROVE  Promise!Open(s)
    BY <1>1, <1>3 DEF CreateSession, Promise!Open
  <1>4. QED
    BY <1>2, <1>3 DEF Promise!Next

\* Every step of the handlers is a step of the conversation, or invisible in it.
LEMMA PromiseStep ==
    IInv /\ IInv' /\ ClosingWasOpen /\ [Next]_vars => [Promise!Next]_(Promise!vars)
  <1> SUFFICES ASSUME IInv, IInv', ClosingWasOpen, [Next]_vars
               PROVE  Promise!Next \/ UNCHANGED Promise!vars
    OBVIOUS
  <1> USE DEF rows, deletes
  <1>1. ASSUME NEW d \in Docs, DocumentCall(d) \/ RemoveDocument(d) PROVE Promise!Next
    <2>1. CASE AddDocument(d)
      BY <2>1, RowsAreNew DEF AddDocument
    <2>2. CASE LockDocument(d)
      BY <2>2, QuietStep DEF LockDocument
    <2>3. CASE RemoveDocument(d)
      BY <2>3, DocumentGoes
    <2>4. QED
      BY <1>1, <2>1, <2>2, <2>3 DEF DocumentCall
  <1>2. ASSUME NEW s \in Sessions, SessionCall(s) \/ StoreOpener(s) \/ Close(s)
        PROVE  Promise!Next \/ UNCHANGED Promise!vars
    <2>1. ASSUME NEW d \in Docs \cup {NoDoc}, NEW o \in {"none", "due"}, CreateSession(s, d, o)
          PROVE  Promise!Next
      BY <2>1, RowsAreNew DEF CreateSession
    <2>2. CASE UpdateSession(s) \/ BeginClose(s) \/ StoreOpener(s)
      BY <2>2, QuietStep DEF UpdateSession, BeginClose, StoreOpener
    <2>3. ASSUME NEW t \in Turns, NEW d \in Docs \cup {NoDoc}, BeginTurn(t, s, d)
          PROVE  Promise!Next
      <3>1. /\ turn[t].pc = "new" /\ turn'[t].pc = "ask"
            /\ \A u \in Turns \ {t} : turn'[u] = turn[u]
        BY <2>3 DEF BeginTurn, TurnAt, NewTurn, IInv, TypeOK
      <3>2. QED
        BY <2>3, <3>1, QuietStep DEF BeginTurn
    <2>4. CASE Close(s)
      BY <2>4, SessionCloses
    <2>5. QED
      BY <1>2, <2>1, <2>2, <2>3, <2>4 DEF SessionCall
  <1>3. ASSUME NEW t \in Turns, TurnStep(t) PROVE Promise!Next
    <2>1. CASE CommitTurn(t)
      BY <2>1, CommitIsAnswer
    <2>2. CASE ~CommitTurn(t)
      <3>1. turn[t].pc \notin {"lost", "done"} /\ turn'[t].pc # "done"
        <4>0. turn[t] \in Turn /\ turn \in [Turns -> Turn]
          BY DEF IInv, TypeOK
        <4>lose. ASSUME Lose(t) PROVE turn'[t].pc = "lost"
          BY <4>0, <4>lose DEF Lose, NewTurn
        <4> USE DEF TurnAt, TurnGoto
        <4>1. CASE InsertQuestion(t)
          <5>1. turn[t].pc = "ask"
            BY <4>1 DEF InsertQuestion
          <5>2. CASE turn' = [turn EXCEPT ![t] = [@ EXCEPT !.pc = "retrieve", !.wrote = {"user"}]]
            BY <4>0, <5>1, <5>2 DEF Turn
          <5>3. QED
            BY <4>1, <4>lose, <5>1, <5>2 DEF InsertQuestion
        <4>2. CASE Retrieve(t)
          <5>1. turn[t].pc = "retrieve"
            BY <4>2 DEF Retrieve
          <5>2. CASE turn' = [turn EXCEPT ![t].pc = "answer"]
            BY <4>0, <5>1, <5>2 DEF Turn
          <5>3. ASSUME NEW F,
                       turn' = [turn EXCEPT ![t] = [@ EXCEPT !.pc = "generate", !.found = F]]
                PROVE  turn'[t].pc # "done"
            BY <4>0, <5>3 DEF Turn
          <5>4. QED
            BY <4>2, <4>lose, <5>1, <5>2, <5>3 DEF Retrieve
        <4> USE DEF Lose, NewTurn, IInv, TypeOK, Turn
        <4>3. CASE Generate(t)
          BY <4>3 DEF Generate
        <4>4. CASE InsertAnswer(t)
          BY <4>4 DEF InsertAnswer
        <4>5. CASE InsertSources(t)
          BY <4>5 DEF InsertSources
        <4>6. QED
          BY <1>3, <2>2, <4>1, <4>2, <4>3, <4>4, <4>5 DEF TurnStep
      <3>2. \A u \in Turns \ {t} : turn'[u] = turn[u]
        BY <1>3, <2>2 DEF TurnStep, InsertQuestion, Retrieve, Generate, InsertAnswer,
           InsertSources, TurnGoto, Lose, IInv, TypeOK
      <3>3. UNCHANGED rows
        BY <1>3, <2>2 DEF TurnStep, InsertQuestion, Retrieve, Generate, InsertAnswer,
           InsertSources
      <3>4. QED
        BY <3>1, <3>2, <3>3, QuietStep
    <2>3. QED
      BY <2>1, <2>2
  <1>4. ASSUME NEW p \in Procs, BreakDeadlock(p) \/ Fail(p) PROVE Promise!Next
    <2>1. Abort(p) /\ (p \in Turns => turn[p].pc \notin {"new", "done", "lost"})
      BY <1>4, AbortsUnderway DEF IInv
    <2>2. \A t \in Turns : \/ turn'[t] = turn[t]
                           \/ turn[t].pc \notin {"lost", "done"} /\ turn'[t].pc # "done"
      BY <2>1 DEF Abort, Lose, NewTurn, IInv, TypeOK
    <2>3. QED
      BY <2>1, <2>2, QuietStep DEF Abort
  <1>5. ASSUME NEW s \in Sessions, FailOpener(s) PROVE Promise!Next
    BY <1>5, QuietStep DEF FailOpener
  <1>6. CASE Crash
    <2>1. \A t \in Turns : \/ turn'[t] = turn[t]
                           \/ turn[t].pc \notin {"lost", "done"} /\ turn'[t].pc # "done"
      BY <1>6, DisjointAssumption DEF Crash, Underway, NewTurn, IInv, TypeOK
    <2>2. QED
      BY <1>6, <2>1, QuietStep DEF Crash
  <1>7. CASE UNCHANGED vars
    BY <1>7, QuietStep DEF vars
  <1>8. QED
    BY <1>1, <1>2, <1>3, <1>4, <1>5, <1>6, <1>7 DEF Next, Fault

\* The initial states are the abstract one.
LEMMA PromiseInit == Init => Promise!Init
  BY DEF Init, Promise!Init, Said, NewTurn

\* The handlers implement Conversation: a question and its answer appear together,
\* once, with citations of existing documents, and go together with the session,
\* whatever is asked, deleted, deadlocked or lost in between.
THEOREM HandlersImplementConversation == Spec => ImplementsConversation
  <1>1. Init => ClosingWasOpen
    BY DEF Init, ClosingWasOpen
  <1>2. QED
    BY <1>1, PromiseInit, PromiseStep, ClosingStep, Invariance, TypeCorrect, PTL
       DEF Spec, ImplementsConversation, Promise!Spec
=============================================================================
