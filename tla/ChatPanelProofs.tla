-------------------------- MODULE ChatPanelProofs --------------------------
(***************************************************************************)
(* The safety of ChatPanel for any number of sessions, texts and requests  *)
(* in flight, any user and any failures.                                   *)
(*                                                                         *)
(* What makes it inductive: a response on its way already is a piece of    *)
(* the log (LoadsArePieces), stored conversations only grow, and a         *)
(* question is on its way only while the composer is empty and disabled    *)
(* (ComposerRests).  That the latest answer is shown needs more, and only  *)
(* while nothing has failed and the user waited (CalmInv): at most one     *)
(* request is on its way, what it brings is the end of its conversation,   *)
(* and so is what stays on the screen; a session nobody has opened yet is  *)
(* empty (NewAreEmpty).                                                    *)
(***************************************************************************)
EXTENDS ChatPanel, TLAPS

LoadsArePieces ==
    \A c \in Calls :
        /\ Back(c, "load", "answered") => Piece(call[c].log, call[c].about)
        /\ Back(c, "send", "answered") => Piece(<<call[c].text>>, call[c].about)

ComposerRests == sending => composer = NoText

IInv == /\ TypeOK
        /\ FlagsTellTheTruth
        /\ ScreenIsPersisted
        /\ LoadsArePieces
        /\ ComposerRests

-----------------------------------------------------------------------------
(* Types                                                                      *)

\* The fields of a request are what it was made with.
LEMMA RequestFields ==
    ASSUME NEW k \in Kind, NEW s \in Sessions \cup {NoSession}, NEW q \in Text
    PROVE  /\ Request(k, s, q) \in Call
           /\ Request(k, s, q).kind = k /\ Request(k, s, q).stage = "sent"
           /\ Request(k, s, q).about = s /\ Request(k, s, q).text = q
  BY DEF Request, Call, Stage

\* The fields of the idle request that the proofs below look at.
LEMMA IdleFields == Idle.kind = "idle" /\ Idle.stage = "idle" /\ Idle.about = NoSession
  BY DEF Idle

\* A call whose kind is a request's is one.
LEMMA BusyIsCall ==
    ASSUME TypeOK, NEW c \in Calls, call[c].kind \in Kind
    PROVE  /\ call[c] \in Call
           /\ call[c].kind \in Kind /\ call[c].stage \in Stage
           /\ call[c].about \in Sessions \cup {NoSession} /\ call[c].text \in Text
           /\ call[c].sessions \subseteq Sessions /\ call[c].log \in Seq(Questions)
  BY IdleFields DEF TypeOK, Call, Kind

\* The same for a call at the stage of a request.
LEMMA StagedIsCall ==
    ASSUME TypeOK, NEW c \in Calls, call[c].stage \in Stage
    PROVE  call[c].kind \in Kind
  BY IdleFields DEF TypeOK, Call, Stage

\* Replacing one call by a sound one keeps the calls sound.
LEMMA CallTyped ==
    ASSUME TypeOK, NEW c \in Calls, NEW r \in Call \cup {Idle}, Addressed(r), Send(c, r)
    PROVE  call' \in [Calls -> Call \cup {Idle}] /\ \A d \in Calls : Addressed(call[d])'
  BY DEF TypeOK, Send, Addressed

\* The idle request is addressed to no session, as it should be.
LEMMA IdleAddressed == Addressed(Idle)
  BY IdleFields DEF Addressed

\* A response or an error leaves the request's kind, session and text alone, but for
\* the session that a creation reports.
LEMMA NetworkType ==
    ASSUME TypeOK, NEW c \in Calls, Network(c)
    PROVE  /\ call' \in [Calls -> Call \cup {Idle}] /\ \A d \in Calls : Addressed(call[d])'
           /\ exists' \subseteq Sessions /\ log' \in [Sessions -> Seq(Questions)]
  <1> USE DEF server
  <1>1. CASE AnswerList(c)
    <2> DEFINE r == [call[c] EXCEPT !.stage = "answered", !.sessions = exists]
    <2>1. call[c].kind \in {"list", "listCreated"} /\ call[c] \in Call
      BY <1>1, BusyIsCall DEF AnswerList, Asked, Kind
    <2>2. r \in Call /\ r.kind = call[c].kind /\ r.about = call[c].about
      BY <2>1 DEF Call, Stage, TypeOK
    <2>3. Addressed(r)
      BY <2>1, <2>2 DEF Addressed, TypeOK
    <2>4. Send(c, r) /\ UNCHANGED <<exists, log>>
      BY <1>1 DEF AnswerList
    <2>5. QED
      BY <2>2, <2>3, <2>4, CallTyped DEF TypeOK
  <1>2. CASE AnswerLoad(c)
    <2> DEFINE r == [call[c] EXCEPT !.stage = "answered", !.log = log[call[c].about]]
    <2>1. call[c].kind = "load" /\ call[c] \in Call /\ call[c].about \in Sessions
      BY <1>2, BusyIsCall DEF AnswerLoad, Asked, Kind, TypeOK, Addressed
    <2>2. r \in Call /\ r.kind = call[c].kind /\ r.about = call[c].about
      BY <2>1 DEF Call, Stage, TypeOK
    <2>3. Addressed(r)
      BY <2>1, <2>2 DEF Addressed
    <2>4. Send(c, r) /\ UNCHANGED <<exists, log>>
      BY <1>2 DEF AnswerLoad
    <2>5. QED
      BY <2>2, <2>3, <2>4, CallTyped DEF TypeOK
  <1>3. CASE AnswerCreate(c)
    <2>1. PICK s \in Sessions \ exists :
             /\ exists' = exists \cup {s}
             /\ Send(c, [call[c] EXCEPT !.stage = "answered", !.about = s])
      BY <1>3 DEF AnswerCreate
    <2> DEFINE r == [call[c] EXCEPT !.stage = "answered", !.about = s]
    <2>2. call[c].kind = "create" /\ call[c] \in Call
      BY <1>3, BusyIsCall DEF AnswerCreate, Asked, Kind
    <2>3. r \in Call /\ r.kind = "create" /\ r.about = s
      BY <2>2 DEF Call, Stage
    <2>4. Addressed(r)
      BY <2>3 DEF Addressed
    <2>5. Send(c, r) /\ log' = log
      BY <1>3, <2>1 DEF AnswerCreate
    <2>6. QED
      BY <2>1, <2>3, <2>4, <2>5, CallTyped DEF TypeOK
  <1>4. CASE AnswerSend(c)
    <2> DEFINE r == [call[c] EXCEPT !.stage = "answered"]
    <2>1. /\ call[c].kind = "send" /\ call[c] \in Call
          /\ call[c].about \in Sessions /\ call[c].text \in Questions
      BY <1>4, BusyIsCall DEF AnswerSend, Asked, Kind, TypeOK, Addressed
    <2>2. r \in Call /\ r.kind = "send" /\ r.about = call[c].about /\ r.text = call[c].text
      BY <2>1 DEF Call, Stage
    <2>3. Addressed(r)
      BY <2>1, <2>2 DEF Addressed
    <2>4. Send(c, r) /\ exists' = exists
      BY <1>4 DEF AnswerSend
    <2>5. log' \in [Sessions -> Seq(Questions)]
      BY <1>4, <2>1 DEF AnswerSend, TypeOK
    <2>6. QED
      BY <2>2, <2>3, <2>4, <2>5, CallTyped DEF TypeOK
  <1>5. CASE Fail(c)
    <2> DEFINE r == [call[c] EXCEPT !.stage = "failed"]
    <2>1. call[c] \in Call
      BY <1>5, StagedIsCall, BusyIsCall DEF Fail, Stage
    <2>2. /\ r \in Call /\ r.kind = call[c].kind /\ r.about = call[c].about
          /\ r.text = call[c].text /\ r.stage = "failed"
      BY <2>1 DEF Call, Stage
    <2>3. Addressed(r)
      BY <2>1, <2>2 DEF Addressed, TypeOK
    <2>4. Send(c, r) /\ UNCHANGED <<exists, log>>
      BY <1>5 DEF Fail
    <2>5. QED
      BY <2>2, <2>3, <2>4, CallTyped DEF TypeOK
  <1>6. QED
    BY <1>1, <1>2, <1>3, <1>4, <1>5 DEF Network

\* So is what the panel does when it resumes.
LEMMA ResumeType ==
    ASSUME TypeOK, NEW c \in Calls, Resume(c)
    PROVE  TypeOK'
  <1> USE DEF server, chat
  <1>0. /\ NoSession \in Sessions \cup {NoSession} /\ NoText \in Text
        /\ Request("list", NoSession, NoText) \in Call
        /\ Addressed(Request("list", NoSession, NoText))
    BY RequestFields DEF Text, Kind, Addressed
  <1>00. calm' \in BOOLEAN
    BY DEF Resume, TypeOK
  <1>1. ASSUME Hang(c) PROVE call' \in [Calls -> Call \cup {Idle}]
                             /\ \A d \in Calls : Addressed(call[d])'
    BY <1>1, CallTyped, IdleAddressed DEF Hang, Send
  <1>2. CASE ListDone(c)
    <2>1. call[c].sessions \subseteq Sessions
      BY <1>2, BusyIsCall DEF ListDone, Back, Kind
    <2>2. QED
      BY <1>00, <1>1, <1>2, <2>1 DEF ListDone, TypeOK
  <1>3. CASE ListFailed(c)
    BY <1>00, <1>1, <1>3 DEF ListFailed, TypeOK
  <1>4. CASE LoadDone(c)
    <2>1. call[c].log \in Seq(Questions) /\ call[c].about \in Sessions
      BY <1>4, BusyIsCall DEF LoadDone, Back, Kind, TypeOK, Addressed
    <2>2. QED
      BY <1>00, <1>1, <1>4, <2>1 DEF LoadDone, Ready, TypeOK
  <1>5. CASE LoadFailed(c)
    BY <1>00, <1>1, <1>5 DEF LoadFailed, Without, TypeOK
  <1>6. CASE CreateDone(c)
    <2> DEFINE r == Request("listCreated", call[c].about, NoText)
    <2>1. call[c].about \in Sessions
      BY <1>6 DEF CreateDone, Back, TypeOK, Addressed
    <2>2. r \in Call /\ Addressed(r)
      BY <2>1, <1>0, RequestFields DEF Kind, Addressed
    <2>3. Send(c, r)
      BY <1>6 DEF CreateDone
    <2>4. call' \in [Calls -> Call \cup {Idle}] /\ \A d \in Calls : Addressed(call[d])'
      BY <2>2, <2>3, CallTyped
    <2>5. QED
      BY <1>00, <1>6, <2>4 DEF CreateDone, TypeOK
  <1>7. CASE CreatedListed(c)
    <2>1. call[c].sessions \subseteq Sessions /\ call[c].about \in Sessions
      BY <1>7, BusyIsCall DEF CreatedListed, Back, Kind, TypeOK, Addressed
    <2>2. /\ list' = [status |-> "ready", sessions |-> call[c].sessions]
          /\ messages' = Ready(call[c].about, << >>) /\ << >> \in Seq(Questions)
      BY <1>7 DEF CreatedListed
    <2>3. /\ list' \in [status : {"loading", "ready", "error"}, sessions : SUBSET Sessions]
          /\ messages' \in [status : {"idle", "loading", "ready", "error"},
                           session : Sessions \cup {NoSession}, log : Seq(Questions)]
          /\ messages'.session \in Sessions
      BY <2>1, <2>2 DEF Ready
    <2>4. QED
      BY <1>00, <1>1, <1>7, <2>1, <2>3 DEF CreatedListed, TypeOK
  <1>8. CASE CreateFailed(c)
    BY <1>00, <1>1, <1>8 DEF CreateFailed, TypeOK
  <1>9. CASE SendDone(c)
    <2>1. call[c].text \in Questions /\ call[c].about \in Sessions
      BY <1>9 DEF SendDone, Back, TypeOK, Addressed
    <2>2. Send(c, Request("list", NoSession, NoText))
      BY <1>9 DEF SendDone
    <2>3. call' \in [Calls -> Call \cup {Idle}] /\ \A d \in Calls : Addressed(call[d])'
      BY <2>2, <1>0, CallTyped
    <2>4. messages' = Ready(call[c].about, <<call[c].text>>)
          /\ <<call[c].text>> \in Seq(Questions)
      BY <1>9, <2>1 DEF SendDone
    <2>5. /\ messages' \in [status : {"idle", "loading", "ready", "error"},
                           session : Sessions \cup {NoSession}, log : Seq(Questions)]
          /\ messages'.session \in Sessions
      BY <2>1, <2>4 DEF Ready
    <2>6. QED
      BY <1>00, <1>0, <1>9, <2>3, <2>5 DEF SendDone, TypeOK
  <1>10. CASE SendFailed(c)
    <2>1. call[c].text \in Text
      BY <1>10 DEF SendFailed, Back, TypeOK, Addressed, Text
    <2>2. QED
      BY <1>00, <1>0, <1>1, <1>10, <2>1 DEF SendFailed, TypeOK
  <1>11. QED
    BY <1>2, <1>3, <1>4, <1>5, <1>6, <1>7, <1>8, <1>9, <1>10 DEF Resume

\* Every handler and every answer keeps the types.
LEMMA TypeStep == TypeOK /\ [Next]_vars => TypeOK'
  <1> SUFFICES ASSUME TypeOK, [Next]_vars PROVE TypeOK'
    OBVIOUS
  <1> USE DEF server, chat
  <1>00. calm' \in BOOLEAN
    BY DEF Next, Click, Write, Network, Resume, vars, TypeOK
  <1>0. NoSession \in Sessions \cup {NoSession} /\ NoText \in Text
    BY DEF Text
  <1>1. CASE \E q \in Text : Type(q)
    BY <1>00, <1>1 DEF Type, TypeOK
  <1>2. ASSUME NEW c \in Calls, NEW s \in Sessions, Select(s, c)
        PROVE  TypeOK'
    <2> DEFINE r == Request("load", s, NoText)
    <2>1. r \in Call /\ Addressed(r)
      BY <1>0, RequestFields DEF Kind, Addressed
    <2>2. Send(c, r)
      BY <1>2 DEF Select
    <2>3. call' \in [Calls -> Call \cup {Idle}] /\ \A d \in Calls : Addressed(call[d])'
      BY <2>1, <2>2, CallTyped
    <2>4. QED
      BY <1>00, <1>0, <1>2, <2>3 DEF Select, Without, TypeOK
  <1>3. ASSUME NEW c \in Calls, Create(c)
        PROVE  TypeOK'
    <2> DEFINE r == Request("create", NoSession, NoText)
    <2>1. r \in Call /\ Addressed(r)
      BY <1>0, RequestFields DEF Kind, Addressed
    <2>2. Send(c, r)
      BY <1>3 DEF Create
    <2>3. call' \in [Calls -> Call \cup {Idle}] /\ \A d \in Calls : Addressed(call[d])'
      BY <2>1, <2>2, CallTyped
    <2>4. QED
      BY <1>00, <1>3, <2>3 DEF Create, TypeOK
  <1>4. ASSUME NEW c \in Calls, Submit(c)
        PROVE  TypeOK'
    <2> DEFINE r == Request("send", selected, composer)
    <2>1. selected \in Sessions /\ composer \in Questions
      BY <1>4 DEF Submit, ComposerEnabled, Visible, TypeOK, Text
    <2>2. r \in Call /\ Addressed(r)
      BY <2>1, RequestFields DEF Kind, Addressed, Text
    <2>3. Send(c, r)
      BY <1>4 DEF Submit
    <2>4. call' \in [Calls -> Call \cup {Idle}] /\ \A d \in Calls : Addressed(call[d])'
      BY <2>2, <2>3, CallTyped
    <2>5. QED
      BY <1>00, <1>0, <1>4, <2>4 DEF Submit, TypeOK
  <1>5. ASSUME NEW c \in Calls, Network(c)
        PROVE  TypeOK'
    BY <1>00, <1>5, NetworkType DEF Network, TypeOK
  <1>6. CASE UNCHANGED vars
    BY <1>6 DEF vars, TypeOK
  <1>7. QED
    BY <1>1, <1>2, <1>3, <1>4, <1>5, <1>6, ResumeType DEF Next, Click, Write

-----------------------------------------------------------------------------
(* Flags                                                                      *)

\* The server's side of a request leaves its kind, and its text, alone.
LEMMA NetworkKind ==
    ASSUME TypeOK, NEW c \in Calls, Network(c)
    PROVE  \A d \in Calls : call'[d].kind = call[d].kind
  <1>1. ASSUME NEW r, Send(c, r), r.kind = call[c].kind
        PROVE  \A d \in Calls : call'[d].kind = call[d].kind
    BY <1>1 DEF Send, TypeOK
  <1>2. call[c].kind \in Kind
    BY StagedIsCall DEF Network, AnswerList, AnswerLoad, AnswerCreate, AnswerSend, Asked,
                        Fail, Kind, Stage
  <1>3. call[c] \in Call
    BY <1>2, BusyIsCall
  <1>4. CASE AnswerList(c)
    BY <1>1, <1>3, <1>4 DEF AnswerList, Call
  <1>5. CASE AnswerLoad(c)
    BY <1>1, <1>3, <1>5 DEF AnswerLoad, Call
  <1>6. CASE AnswerCreate(c)
    BY <1>1, <1>3, <1>6 DEF AnswerCreate, Call
  <1>7. CASE AnswerSend(c)
    BY <1>1, <1>3, <1>7 DEF AnswerSend, Call
  <1>8. CASE Fail(c)
    BY <1>1, <1>3, <1>8 DEF Fail, Call
  <1>9. QED
    BY <1>4, <1>5, <1>6, <1>7, <1>8 DEF Network

\* A step that changes one call's kind, and what that means for the flags.
LEMMA FlagsStep == TypeOK /\ FlagsTellTheTruth /\ [Next]_vars => FlagsTellTheTruth'
  <1> SUFFICES ASSUME TypeOK, FlagsTellTheTruth, [Next]_vars PROVE FlagsTellTheTruth'
    OBVIOUS
  <1> USE DEF server, chat, FlagsTellTheTruth
  <1>1. ASSUME NEW c \in Calls, NEW r, Send(c, r)
        PROVE  call'[c] = r /\ \A d \in Calls \ {c} : call'[d] = call[d]
    BY <1>1 DEF Send, TypeOK
  <1>2. ASSUME NEW c \in Calls, Hang(c)
        PROVE  call'[c].kind = "idle" /\ \A d \in Calls \ {c} : call'[d] = call[d]
    BY <1>2, <1>1, IdleFields DEF Hang, Send
  <1>3. /\ Request("list", NoSession, NoText).kind = "list"
        /\ \A t \in Sessions : Request("load", t, NoText).kind = "load"
        /\ Request("create", NoSession, NoText).kind = "create"
        /\ \A t \in Sessions : Request("listCreated", t, NoText).kind = "listCreated"
        /\ \A t \in Sessions, q \in Text : Request("send", t, q).kind = "send"
    BY RequestFields DEF Kind, Text
  <1>4. CASE \E q \in Text : Type(q)
    BY <1>4 DEF Type
  <1>5. ASSUME NEW c \in Calls, NEW s \in Sessions, Select(s, c)
        PROVE  FlagsTellTheTruth'
    <2>1. call[c].kind = "idle" /\ call'[c].kind = "load"
          /\ \A d \in Calls \ {c} : call'[d] = call[d]
      BY <1>1, <1>3, <1>5, IdleFields DEF Select, Free
    <2>2. UNCHANGED <<sending, creating>>
      BY <1>5 DEF Select
    <2>3. QED
      BY <2>1, <2>2
  <1>6. ASSUME NEW c \in Calls, Create(c)
        PROVE  FlagsTellTheTruth'
    <2>1. call[c].kind = "idle" /\ call'[c].kind = "create"
          /\ \A d \in Calls \ {c} : call'[d] = call[d]
      BY <1>1, <1>3, <1>6, IdleFields DEF Create, Free
    <2>2. sending' = sending /\ ~creating /\ creating'
      BY <1>6 DEF Create
    <2>3. QED
      BY <2>1, <2>2
  <1>7. ASSUME NEW c \in Calls, Submit(c)
        PROVE  FlagsTellTheTruth'
    <2>1. selected \in Sessions /\ composer \in Text
      BY <1>7 DEF Submit, ComposerEnabled, Visible, TypeOK
    <2>2. call[c].kind = "idle" /\ call'[c].kind = "send"
          /\ \A d \in Calls \ {c} : call'[d] = call[d]
      BY <1>1, <1>3, <1>7, <2>1, IdleFields DEF Submit, Free
    <2>3. creating' = creating /\ ~sending /\ sending'
      BY <1>7 DEF Submit, ComposerEnabled
    <2>4. QED
      BY <2>2, <2>3
  <1>8. ASSUME NEW c \in Calls, Network(c)
        PROVE  FlagsTellTheTruth'
    BY <1>8, NetworkKind DEF Network
  <1>9. ASSUME NEW c \in Calls, Resume(c)
        PROVE  FlagsTellTheTruth'
    <2>1. CASE ListDone(c) \/ ListFailed(c) \/ LoadDone(c) \/ LoadFailed(c)
      <3>1. call[c].kind \in {"list", "load"} /\ call'[c].kind = "idle"
            /\ \A d \in Calls \ {c} : call'[d] = call[d]
        BY <1>2, <2>1 DEF ListDone, ListFailed, LoadDone, LoadFailed, Back
      <3>2. UNCHANGED <<sending, creating>>
        BY <2>1 DEF ListDone, ListFailed, LoadDone, LoadFailed
      <3>3. QED
        BY <3>1, <3>2
    <2>2. CASE CreateDone(c)
      <3>1. call[c].kind = "create" /\ call'[c].kind = "listCreated"
            /\ \A d \in Calls \ {c} : call'[d] = call[d]
        BY <1>1, <1>3, <2>2 DEF CreateDone, Back, TypeOK, Addressed
      <3>2. UNCHANGED <<sending, creating>>
        BY <2>2 DEF CreateDone
      <3>3. QED
        BY <3>1, <3>2
    <2>3. CASE CreatedListed(c) \/ CreateFailed(c)
      <3>1. call[c].kind \in {"create", "listCreated"} /\ call'[c].kind = "idle"
            /\ \A d \in Calls \ {c} : call'[d] = call[d]
        BY <1>2, <2>3 DEF CreatedListed, CreateFailed, Back
      <3>2. sending' = sending /\ ~creating'
        BY <2>3 DEF CreatedListed, CreateFailed
      <3>3. QED
        BY <3>1, <3>2
    <2>4. CASE SendDone(c) \/ SendFailed(c)
      <3>1. call[c].kind = "send" /\ call'[c].kind \in {"idle", "list"}
            /\ \A d \in Calls \ {c} : call'[d] = call[d]
        BY <1>1, <1>2, <1>3, <2>4 DEF SendDone, SendFailed, Back
      <3>2. creating' = creating /\ ~sending'
        BY <2>4 DEF SendDone, SendFailed
      <3>3. QED
        BY <3>1, <3>2
    <2>5. QED
      BY <1>9, <2>1, <2>2, <2>3, <2>4 DEF Resume
  <1>10. CASE UNCHANGED vars
    BY <1>10 DEF vars
  <1>11. QED
    BY <1>4, <1>5, <1>6, <1>7, <1>8, <1>9, <1>10 DEF Next, Click, Write

-----------------------------------------------------------------------------
(* Pieces of conversations                                                    *)

\* Nothing, the whole, and a last turn just added are pieces.
LEMMA PieceEmpty ==
    ASSUME TypeOK, NEW s \in Sessions PROVE Piece(<< >>, s)
  <1>1. log[s] \in Seq(Questions) /\ 0 \in 0 .. Len(log[s])
    BY DEF TypeOK
  <1>2. << >> = SubSeq(log[s], 0 + 1, 0)
    BY <1>1
  <1>3. QED
    BY <1>1, <1>2 DEF Piece

\* A whole stored conversation is a piece of itself.
LEMMA PieceWhole ==
    ASSUME TypeOK, NEW s \in Sessions PROVE Piece(log[s], s)
  <1>1. log[s] \in Seq(Questions) /\ 0 \in 0 .. Len(log[s]) /\ Len(log[s]) \in 0 .. Len(log[s])
    BY DEF TypeOK
  <1>2. log[s] = SubSeq(log[s], 0 + 1, Len(log[s]))
    BY <1>1
  <1>3. QED
    BY <1>1, <1>2 DEF Piece

\* What is a piece stays one when turns are added.
LEMMA PieceGrows ==
    ASSUME TypeOK, NEW s \in Sessions, NEW t \in Sessions, NEW q \in Questions,
           log' = [log EXCEPT ![s] = Append(@, q)], NEW l, Piece(l, t)
    PROVE  Piece(l, t)'
  <1>1. log[t] \in Seq(Questions) /\ log'[t] \in {log[t], Append(log[t], q)}
    BY DEF TypeOK
  <1>2. PICK i, j \in 0 .. Len(log[t]) : l = SubSeq(log[t], i + 1, j)
    BY DEF Piece
  <1>3. i \in 0 .. Len(log'[t]) /\ j \in 0 .. Len(log'[t])
    BY <1>1, <1>2
  <1>4. SubSeq(log'[t], i + 1, j) = SubSeq(log[t], i + 1, j)
    BY <1>1, <1>2
  <1>5. QED
    BY <1>2, <1>3, <1>4 DEF Piece

\* What has just been appended to a conversation is a piece of it.
LEMMA PieceLast ==
    ASSUME TypeOK, NEW s \in Sessions, NEW q \in Questions,
           log' = [log EXCEPT ![s] = Append(@, q)]
    PROVE  Piece(<<q>>, s)'
  <1> DEFINE n == Len(log[s])
  <1>1. log[s] \in Seq(Questions) /\ log'[s] = Append(log[s], q)
    BY DEF TypeOK
  <1>2. n \in 0 .. Len(log'[s]) /\ n + 1 \in 0 .. Len(log'[s])
    BY <1>1
  <1>3. <<q>> = SubSeq(log'[s], n + 1, n + 1)
    BY <1>1
  <1>4. QED
    BY <1>2, <1>3 DEF Piece

\* A piece stays one as long as the server stores nothing.
LEMMA PieceKept == ASSUME UNCHANGED log, NEW l, NEW s, Piece(l, s) PROVE Piece(l, s)'
  BY DEF Piece

\* Stored conversations change only when a question is answered.
LEMMA LogStep ==
    ASSUME TypeOK, [Next]_vars, NEW t \in Sessions, NEW l, Piece(l, t)
    PROVE  Piece(l, t)'
  <1> USE DEF server
  <1>1. ASSUME NEW c \in Calls, AnswerSend(c)
        PROVE  Piece(l, t)'
    <2>1. call[c].about \in Sessions /\ call[c].text \in Questions
      BY <1>1 DEF AnswerSend, Asked, TypeOK, Addressed
    <2>2. QED
      BY <1>1, <2>1, PieceGrows DEF AnswerSend
  <1>2. CASE UNCHANGED log
    BY <1>2, PieceKept
  <1>3. QED
    BY <1>1, <1>2 DEF Next, Click, Write, vars, Type, Select, Create, Submit, Network, AnswerList,
       AnswerLoad, AnswerCreate, Fail, Resume, ListDone, ListFailed, LoadDone, LoadFailed,
       CreateDone, CreatedListed, CreateFailed, SendDone, SendFailed

\* A response on its way was there before, or the server has just given it.
LEMMA AnsweredLately ==
    ASSUME TypeOK, [Next]_vars, NEW d \in Calls, call'[d].stage = "answered"
    PROVE  \/ call'[d] = call[d]
           \/ AnswerList(d) \/ AnswerLoad(d) \/ AnswerCreate(d) \/ AnswerSend(d)
  <1>1. ASSUME NEW c \in Calls, NEW r, Send(c, r)
        PROVE  IF d = c THEN call'[d] = r ELSE call'[d] = call[d]
    BY <1>1 DEF Send, TypeOK
  <1>2. \A k, t, q : Request(k, t, q).stage = "sent"
    BY DEF Request
  <1>3. ASSUME NEW c \in Calls, Hang(c)
        PROVE  d # c /\ call'[d] = call[d]
    BY <1>1, <1>3, IdleFields DEF Hang, Send
  <1>4. CASE \E q \in Text : Type(q)
    BY <1>4 DEF Type
  <1>5. ASSUME NEW c \in Calls, NEW s \in Sessions, Select(s, c)
        PROVE  call'[d] = call[d]
    BY <1>1, <1>2, <1>5 DEF Select
  <1>6. ASSUME NEW c \in Calls, Create(c)
        PROVE  call'[d] = call[d]
    BY <1>1, <1>2, <1>6 DEF Create
  <1>7. ASSUME NEW c \in Calls, Submit(c)
        PROVE  call'[d] = call[d]
    BY <1>1, <1>2, <1>7 DEF Submit
  <1>8. ASSUME NEW c \in Calls, Network(c)
        PROVE  \/ call'[d] = call[d]
               \/ AnswerList(d) \/ AnswerLoad(d) \/ AnswerCreate(d) \/ AnswerSend(d)
    <2>1. CASE Fail(c)
      <3>1. call[c] \in Call
        BY <2>1, StagedIsCall, BusyIsCall DEF Fail, Stage
      <3>2. [call[c] EXCEPT !.stage = "failed"].stage = "failed"
        BY <3>1 DEF Call
      <3>3. QED
        BY <1>1, <2>1, <3>2 DEF Fail
    <2>2. CASE d # c
      <3>1. \E r : Send(c, r)
        BY <1>8 DEF Network, AnswerList, AnswerLoad, AnswerCreate, AnswerSend, Fail
      <3>2. QED
        BY <1>1, <2>2, <3>1
    <2>3. QED
      BY <1>8, <2>1, <2>2 DEF Network
  <1>9. ASSUME NEW c \in Calls, Resume(c)
        PROVE  call'[d] = call[d]
    <2>1. CASE CreateDone(c) \/ SendDone(c)
      BY <1>1, <1>2, <2>1 DEF CreateDone, SendDone
    <2>2. CASE ~(CreateDone(c) \/ SendDone(c))
      <3>1. Hang(c)
        BY <1>9, <2>2 DEF Resume, ListDone, ListFailed, LoadDone, LoadFailed, CreatedListed,
                          CreateFailed, SendFailed
      <3>2. QED
        BY <1>3, <3>1
    <2>3. QED
      BY <2>1, <2>2
  <1>10. CASE UNCHANGED vars
    BY <1>10 DEF vars
  <1>11. QED
    BY <1>4, <1>5, <1>6, <1>7, <1>8, <1>9, <1>10 DEF Next, Click, Write

\* What is on its way to the panel stays a piece of the stored conversation.
LEMMA LoadsStep == IInv /\ [Next]_vars => LoadsArePieces'
  <1> SUFFICES ASSUME IInv, [Next]_vars, NEW d \in Calls
               PROVE  /\ Back(d, "load", "answered")' =>
                            Piece(call[d].log, call[d].about)'
                      /\ Back(d, "send", "answered")' =>
                            Piece(<<call[d].text>>, call[d].about)'
    BY DEF LoadsArePieces
  <1> USE DEF IInv
  <1>1. CASE call'[d] = call[d]
    <2>1. ASSUME Back(d, "load", "answered")'
          PROVE  Piece(call[d].log, call[d].about)'
      <3>1. call[d].about \in Sessions /\ Piece(call[d].log, call[d].about)
        BY <1>1, <2>1 DEF LoadsArePieces, Back, TypeOK, Addressed
      <3>2. ASSUME NEW l, NEW t \in Sessions, Piece(l, t)
            PROVE  \E i, j \in 0 .. Len(log'[t]) : l = SubSeq(log'[t], i + 1, j)
        <4>1. Piece(l, t)'
          BY <3>2, LogStep
        <4>2. QED
          BY <4>1 DEF Piece
      <3>3. \E i, j \in 0 .. Len(log'[call[d].about]) :
               call[d].log = SubSeq(log'[call[d].about], i + 1, j)
        BY <3>1, <3>2, Zenon
      <3>4. \E i, j \in 0 .. Len(log'[call'[d].about]) :
               call'[d].log = SubSeq(log'[call'[d].about], i + 1, j)
        BY <1>1, <3>3, Zenon
      <3>5. QED
        BY <3>4, Zenon DEF Piece
    <2>2. ASSUME Back(d, "send", "answered")'
          PROVE  Piece(<<call[d].text>>, call[d].about)'
      <3>1. call[d].about \in Sessions /\ Piece(<<call[d].text>>, call[d].about)
        BY <1>1, <2>2 DEF LoadsArePieces, Back, TypeOK, Addressed
      <3>2. ASSUME NEW l, NEW t \in Sessions, Piece(l, t)
            PROVE  \E i, j \in 0 .. Len(log'[t]) : l = SubSeq(log'[t], i + 1, j)
        <4>1. Piece(l, t)'
          BY <3>2, LogStep
        <4>2. QED
          BY <4>1 DEF Piece
      <3>3. \E i, j \in 0 .. Len(log'[call[d].about]) :
               <<call[d].text>> = SubSeq(log'[call[d].about], i + 1, j)
        BY <3>1, <3>2, Zenon
      <3>4. \E i, j \in 0 .. Len(log'[call'[d].about]) :
               <<call'[d].text>> = SubSeq(log'[call'[d].about], i + 1, j)
        BY <1>1, <3>3, Zenon
      <3>5. QED
        BY <3>4, Zenon DEF Piece
    <2>3. QED
      BY <2>1, <2>2
  <1>2. CASE AnswerList(d) \/ AnswerCreate(d)
    <2>1. ASSUME NEW r, Send(d, r) PROVE call'[d] = r
      BY <2>1 DEF Send, TypeOK
    <2>2. call[d] \in Call /\ call[d].kind \notin {"load", "send"}
      BY <1>2, BusyIsCall DEF AnswerList, AnswerCreate, Asked, Kind
    <2>3. call'[d].kind = call[d].kind
      BY <1>2, <2>1, <2>2 DEF AnswerList, AnswerCreate, Call
    <2>4. QED
      BY <2>2, <2>3 DEF Back
  <1>3. CASE AnswerLoad(d)
    <2>1. call[d] \in Call /\ call[d].kind = "load" /\ call[d].about \in Sessions
      BY <1>3, BusyIsCall DEF AnswerLoad, Asked, Kind, TypeOK, Addressed
    <2>2. call'[d] = [call[d] EXCEPT !.stage = "answered", !.log = log[call[d].about]]
      BY <1>3 DEF AnswerLoad, Send, TypeOK
    <2>3. /\ call'[d].kind = "load" /\ call'[d].about = call[d].about
          /\ call'[d].log = log[call[d].about]
      BY <2>1, <2>2 DEF Call
    <2>4. Piece(log[call[d].about], call[d].about) /\ log' = log
      BY <1>3, <2>1, PieceWhole DEF AnswerLoad, server
    <2>5. Piece(call[d].log, call[d].about)'
      BY <2>3, <2>4 DEF Piece
    <2>6. QED
      BY <2>3, <2>5 DEF Back
  <1>4. CASE AnswerSend(d)
    <2>1. /\ call[d] \in Call /\ call[d].kind = "send" /\ call[d].about \in Sessions
          /\ call[d].text \in Questions
      BY <1>4, BusyIsCall DEF AnswerSend, Asked, Kind, TypeOK, Addressed
    <2>2. call'[d] = [call[d] EXCEPT !.stage = "answered"]
      BY <1>4 DEF AnswerSend, Send, TypeOK
    <2>3. /\ call'[d].kind = "send" /\ call'[d].about = call[d].about
          /\ call'[d].text = call[d].text
      BY <2>1, <2>2 DEF Call
    <2>4. ASSUME NEW t \in Sessions, NEW q \in Questions,
                 log' = [log EXCEPT ![t] = Append(@, q)]
          PROVE  \E i, j \in 0 .. Len(log'[t]) : <<q>> = SubSeq(log'[t], i + 1, j)
      <3>1. Piece(<<q>>, t)'
        BY <2>4, PieceLast
      <3>2. QED
        BY <3>1 DEF Piece
    <2>5. Piece(<<call[d].text>>, call[d].about)'
      <3>1. log' = [log EXCEPT ![call[d].about] = Append(@, call[d].text)]
        BY <1>4 DEF AnswerSend
      <3>2. \E i, j \in 0 .. Len(log'[call[d].about]) :
               <<call[d].text>> = SubSeq(log'[call[d].about], i + 1, j)
        BY <2>1, <2>4, <3>1, Zenon
      <3>3. \E i, j \in 0 .. Len(log'[call'[d].about]) :
               <<call'[d].text>> = SubSeq(log'[call'[d].about], i + 1, j)
        BY <2>3, <3>2, Zenon
      <3>4. QED
        BY <3>3, Zenon DEF Piece
    <2>6. QED
      BY <2>3, <2>5 DEF Back
  <1>5. CASE call'[d].stage # "answered"
    BY <1>5 DEF Back
  <1>6. QED
    BY <1>1, <1>2, <1>3, <1>4, <1>5, AnsweredLately

-----------------------------------------------------------------------------
(* The screen and the composer                                                *)

\* The messages change to nothing, or to a response.
LEMMA ScreenStep == IInv /\ [Next]_vars => ScreenIsPersisted'
  <1> SUFFICES ASSUME IInv, [Next]_vars, messages'.status = "ready"
               PROVE  Piece(messages.log, messages.session)'
    BY DEF ScreenIsPersisted
  <1> USE DEF IInv
  <1>0. PICK l, s : l = messages'.log /\ s = messages'.session
    OBVIOUS
  <1>1. ASSUME UNCHANGED messages
        PROVE  s \in Sessions /\ Piece(l, s)
    <2>1. messages.session \in Sessions /\ Piece(messages.log, messages.session)
      BY <1>1 DEF ScreenIsPersisted, TypeOK
    <2>2. l = messages.log /\ s = messages.session
      BY <1>0, <1>1
    <2>3. QED
      BY <2>1, <2>2
  <1>2. ASSUME NEW c \in Calls, LoadDone(c), newest = c
        PROVE  s \in Sessions /\ Piece(l, s)
    <2>1. /\ call[c].about \in Sessions /\ Piece(call[c].log, call[c].about)
          /\ messages' = Ready(call[c].about, call[c].log)
      BY <1>2 DEF LoadDone, LoadsArePieces, Back, TypeOK, Addressed
    <2>2. l = call[c].log /\ s = call[c].about
      BY <1>0, <2>1 DEF Ready
    <2>3. QED
      BY <2>1, <2>2
  <1>3. ASSUME NEW c \in Calls, CreatedListed(c)
        PROVE  s \in Sessions /\ Piece(l, s)
    <2>1. call[c].about \in Sessions /\ messages' = Ready(call[c].about, << >>)
      BY <1>3 DEF CreatedListed, Back, TypeOK, Addressed
    <2>2. l = << >> /\ s = call[c].about
      BY <1>0, <2>1 DEF Ready
    <2>3. QED
      BY <2>1, <2>2, PieceEmpty
  <1>4. ASSUME NEW c \in Calls, SendDone(c)
        PROVE  s \in Sessions /\ Piece(l, s)
    <2>1. /\ call[c].about \in Sessions /\ Piece(<<call[c].text>>, call[c].about)
          /\ messages' = Ready(call[c].about, <<call[c].text>>)
      BY <1>4 DEF SendDone, LoadsArePieces, Back, TypeOK, Addressed
    <2>2. l = <<call[c].text>> /\ s = call[c].about
      BY <1>0, <2>1 DEF Ready
    <2>3. QED
      BY <2>1, <2>2
  <1>5. ASSUME messages' = Without("loading") \/ messages' = Without("error")
        PROVE  FALSE
    BY <1>5 DEF Without
  <1>6. s \in Sessions /\ Piece(l, s)
    <2>1. \/ UNCHANGED messages
          \/ messages' = Without("loading") \/ messages' = Without("error")
          \/ \E c \in Calls : \/ LoadDone(c) /\ newest = c
                             \/ CreatedListed(c) \/ SendDone(c)
      BY DEF Next, Click, Write, vars, chat, Type, Select, Create, Submit, Network, Resume, ListDone,
             ListFailed, LoadDone, LoadFailed, CreateDone, CreateFailed, SendFailed
    <2>2. ASSUME NEW c \in Calls, (LoadDone(c) /\ newest = c) \/ CreatedListed(c) \/ SendDone(c)
          PROVE  s \in Sessions /\ Piece(l, s)
      BY <1>2, <1>3, <1>4, <2>2
    <2>3. QED
      BY <1>1, <1>5, <2>1, <2>2
  <1>7. Piece(l, s)'
    BY <1>6, LogStep
  <1>8. \E i, j \in 0 .. Len(log'[s]) : l = SubSeq(log'[s], i + 1, j)
    BY <1>7 DEF Piece
  <1>9. \E i, j \in 0 .. Len(log'[messages'.session]) :
           messages'.log = SubSeq(log'[messages'.session], i + 1, j)
    BY <1>0, <1>8, Zenon
  <1>10. QED
    BY <1>9, Zenon DEF Piece

\* What can change a draft.
LEMMA DraftStep ==
    ASSUME IInv, [Next]_vars, composer # NoText, composer' # composer
    PROVE  (\E q \in Text : Type(q)) \/ (\E c \in Calls : Submit(c))
  <1>1. ASSUME NEW c \in Calls, SendFailed(c)
        PROVE  FALSE
    BY <1>1 DEF IInv, SendFailed, Back, FlagsTellTheTruth, ComposerRests
  <1>2. QED
    BY <1>1 DEF Next, Click, Write, vars, Select, Create, Network, Resume, ListDone, ListFailed, LoadDone,
       LoadFailed, CreateDone, CreatedListed, CreateFailed, SendDone

\* The composer stays empty while a question is on its way.
LEMMA RestsStep == IInv /\ [Next]_vars => ComposerRests'
  <1> SUFFICES ASSUME IInv, [Next]_vars, sending' PROVE composer' = NoText
    BY DEF ComposerRests
  <1>1. CASE \E c \in Calls : Submit(c)
    BY <1>1 DEF Submit
  <1>2. ASSUME NEW c \in Calls, SendDone(c) \/ SendFailed(c)
        PROVE  FALSE
    BY <1>2 DEF SendDone, SendFailed
  <1>3. CASE \E q \in Text : Type(q)
    BY <1>3 DEF Type, ComposerEnabled
  <1>4. QED
    BY <1>1, <1>2, <1>3 DEF IInv, ComposerRests, Next, Click, Write, vars, Select, Create, Network, Resume,
       ListDone, ListFailed, LoadDone, LoadFailed, CreateDone, CreatedListed, CreateFailed

-----------------------------------------------------------------------------
(* Theorems                                                                   *)

\* The invariant holds when the page is opened.
LEMMA InitInv == Init => IInv
  <1> SUFFICES ASSUME Init PROVE IInv
    OBVIOUS
  <1>1. PICK c \in Calls :
           call = [[d \in Calls |-> Idle] EXCEPT ![c] = Request("list", NoSession, NoText)]
    BY DEF Init
  <1> DEFINE r == Request("list", NoSession, NoText)
  <1>2. r \in Call /\ r.kind = "list" /\ r.stage = "sent" /\ Addressed(r)
    BY RequestFields DEF Kind, Text, Addressed
  <1>3. \A d \in Calls : call[d] \in {r, Idle}
    BY <1>1
  <1>4. \A d \in Calls : call[d].kind \in {"list", "idle"} /\ call[d].stage # "answered"
    BY <1>2, <1>3, IdleFields
  <1>5. call \in [Calls -> Call \cup {Idle}] /\ \A d \in Calls : Addressed(call[d])
    BY <1>1, <1>2, <1>3, IdleAddressed
  <1>6. TypeOK
    <2>1. << >> \in Seq(Questions) /\ \A q \in Questions : <<q>> \in Seq(Questions)
      OBVIOUS
    <2>2. messages \in [status : {"idle", "loading", "ready", "error"},
                        session : Sessions \cup {NoSession}, log : Seq(Questions)]
          /\ messages.status = "idle"
      BY <2>1 DEF Init, Without
    <2>3. log \in [Sessions -> Seq(Questions)]
      <3>1. {<< >>} \cup {<<q>> : q \in Questions} \subseteq Seq(Questions)
        BY <2>1, Zenon
      <3>2. QED
        BY <3>1 DEF Init
    <2>4. QED
      BY <1>5, <2>2, <2>3 DEF Init, TypeOK, Text
  <1>7. ScreenIsPersisted
    BY DEF Init, Without, ScreenIsPersisted
  <1>8. QED
    BY <1>4, <1>6, <1>7 DEF Init, IInv, FlagsTellTheTruth, LoadsArePieces, ComposerRests, Back

\* The inductive invariant: types, true flags, pieces on the screen and on their way,
\* and a composer at rest while a question is answered.
THEOREM Invariance == Spec => []IInv
  <1>1. IInv /\ [Next]_vars => IInv'
    BY TypeStep, FlagsStep, LoadsStep, ScreenStep, RestsStep DEF IInv
  <1>2. QED
    BY InitInv, <1>1, PTL DEF Spec

\* The panel's state, the stored conversations and the requests keep their types.
THEOREM TypeCorrect == Spec => []TypeOK
  BY Invariance, PTL DEF IInv

\* For any clicks, responses in any order and any failures, what is on the screen is
\* a piece of one stored conversation.
THEOREM ScreenIsSound == Spec => []ScreenIsPersisted
  BY Invariance, PTL DEF IInv

\* The flags that disable the buttons are up exactly while the one request they stand
\* for is under way.
THEOREM FlagsAreTrue == Spec => []FlagsTellTheTruth
  BY Invariance, PTL DEF IInv

\* No response ever changes what the user has typed.
THEOREM DraftsAreSafe == Spec => DraftsSurvive
  <1>1. IInv /\ [Next]_vars =>
           [composer # NoText /\ composer' # composer =>
              (\E q \in Text : Type(q)) \/ (\E c \in Calls : Submit(c))]_vars
    BY DraftStep
  <1>2. QED
    BY Invariance, <1>1, PTL DEF Spec, DraftsSurvive

-----------------------------------------------------------------------------
(* The end of the conversation, for a user who waits.                         *)

\* A session the server does not have yet has no turns, and none are being sent to it.
NewAreEmpty ==
    /\ \A s \in Sessions \ exists : log[s] = << >>
    /\ list.sessions \subseteq exists
    /\ \A c \in Calls : /\ call[c].sessions \subseteq exists
                        /\ call[c].kind = "send" => call[c].about \in exists

\* What the waiting is good for: of loading, sending and creating only one is under
\* way at a time, and it is about the selected session.
OneAtATime ==
    /\ ~(sending /\ creating)
    /\ messages.status = "loading" => ~sending /\ ~creating
    /\ \A c \in Calls :
          /\ call[c].stage # "failed"
          /\ call[c].kind = "load" => newest = c /\ messages.status = "loading"
          /\ call[c].kind \in {"load", "send"} => call[c].about = selected

\* A response on its way is what the log still says: the whole conversation, its
\* last turn, or that a new session has none.
Current(c) ==
    /\ Back(c, "load", "answered") => call[c].log = log[call[c].about]
    /\ Back(c, "send", "answered") =>
           /\ log[call[c].about] # << >>
           /\ call[c].text = log[call[c].about][Len(log[call[c].about])]
    /\ Back(c, "create", "answered") \/ call[c].kind = "listCreated" =>
           log[call[c].about] = << >>

CalmInv == calm => OneAtATime /\ \A c \in Calls : Current(c)

\* A step changes the call it is about, and no other.
LEMMA OneCall ==
    ASSUME TypeOK, NEW c \in Calls
    PROVE  /\ \A r : Send(c, r) => call'[c] = r
           /\ Hang(c) => call'[c] = Idle
           /\ (Hang(c) \/ \E r : Send(c, r)) => \A d \in Calls \ {c} : call'[d] = call[d]
  BY DEF TypeOK, Send, Hang

\* The sessions of a fresh request, and of none.
LEMMA NoSessionsYet ==
    /\ Idle.sessions = {} /\ Idle.kind = "idle" /\ Idle.stage = "idle"
    /\ \A k, s, q : /\ Request(k, s, q).sessions = {} /\ Request(k, s, q).kind = k
                    /\ Request(k, s, q).stage = "sent" /\ Request(k, s, q).about = s
  BY DEF Idle, Request

\* An answer or an error, field by field.
LEMMA NetworkFields ==
    ASSUME TypeOK, NEW c \in Calls, Network(c)
    PROVE  /\ call'[c].kind = call[c].kind /\ call'[c].text = call[c].text
           /\ call'[c].about = call[c].about \/ AnswerCreate(c)
           /\ call'[c].sessions = call[c].sessions \/ call'[c].sessions = exists
           /\ call'[c].stage \in {"answered", "failed"}
           /\ AnswerLoad(c) => call'[c].log = log[call[c].about]
           /\ AnswerCreate(c) => call'[c].about \in Sessions \ exists
           /\ \A d \in Calls \ {c} : call'[d] = call[d]
           /\ exists \subseteq exists'
  <1>1. call[c].kind \in Kind
    BY StagedIsCall DEF Network, AnswerList, AnswerLoad, AnswerCreate, AnswerSend, Asked,
                        Fail, Kind, Stage
  <1>2. call[c] \in Call
    BY <1>1, BusyIsCall
  <1>3. \E r : Send(c, r)
    BY DEF Network, AnswerList, AnswerLoad, AnswerCreate, AnswerSend, Fail
  <1>4. exists \subseteq exists'
    BY DEF Network, AnswerList, AnswerLoad, AnswerCreate, AnswerSend, Fail, server
  <1> USE <1>2, <1>3, <1>4, OneCall DEF Call
  <1>5. CASE AnswerList(c)
    BY <1>5 DEF AnswerList, Asked, AnswerLoad, AnswerCreate
  <1>6. CASE AnswerLoad(c)
    BY <1>6 DEF AnswerLoad, Asked, AnswerCreate
  <1>7. CASE AnswerCreate(c)
    BY <1>7 DEF AnswerCreate, Asked, AnswerLoad
  <1>8. CASE AnswerSend(c)
    BY <1>8 DEF AnswerSend, Asked, AnswerLoad, AnswerCreate
  <1>9. CASE Fail(c)
    <2>1. call'[c] = [call[c] EXCEPT !.stage = "failed"]
      BY <1>9 DEF Fail
    <2>2. ~AnswerLoad(c)
      <3>1. SUFFICES ASSUME AnswerLoad(c) PROVE FALSE
        OBVIOUS
      <3>2. call'[c].stage = "answered"
        BY <3>1 DEF AnswerLoad
      <3>3. QED
        BY <2>1, <3>2
    <2>3. ~AnswerCreate(c)
      <3>1. SUFFICES ASSUME AnswerCreate(c) PROVE FALSE
        OBVIOUS
      <3>2. call'[c].stage = "answered"
        BY <3>1 DEF AnswerCreate
      <3>3. QED
        BY <2>1, <3>2
    <2>4. QED
      BY <2>1, <2>2, <2>3
  <1>10. QED
    BY <1>5, <1>6, <1>7, <1>8, <1>9 DEF Network

\* Sessions without a row stay without turns.
LEMMA NewStep == TypeOK /\ NewAreEmpty /\ [Next]_vars => NewAreEmpty'
  <1> SUFFICES ASSUME TypeOK, NewAreEmpty, [Next]_vars PROVE NewAreEmpty'
    OBVIOUS
  <1> USE DEF server, chat, NewAreEmpty
  <1>1. ASSUME NEW q \in Text, Type(q) PROVE NewAreEmpty'
    BY <1>1 DEF Type
  <1>2. ASSUME NEW c \in Calls, Click(c) PROVE NewAreEmpty'
    <2>1. UNCHANGED <<exists, log, list>>
      BY <1>2 DEF Click, Select, Create, Submit
    <2>2. /\ call'[c].sessions = {}
          /\ call'[c].kind = "send" => call'[c].about \in exists
          /\ \A d \in Calls \ {c} : call'[d] = call[d]
      BY <1>2, OneCall, NoSessionsYet
         DEF Click, Select, Create, Submit, ComposerEnabled, Visible
    <2>3. QED
      BY <2>1, <2>2
  <1>3. ASSUME NEW c \in Calls, Network(c) PROVE NewAreEmpty'
    <2>1. list' = list
      BY <1>3 DEF Network
    <2>2. \A s \in Sessions \ exists' : log'[s] = << >>
      <3>1. CASE AnswerSend(c)
        BY <3>1 DEF AnswerSend, Asked, TypeOK
      <3>2. CASE ~AnswerSend(c)
        BY <1>3, <3>2 DEF Network, AnswerList, AnswerLoad, AnswerCreate, Fail
      <3>3. QED
        BY <3>1, <3>2
    <2>3. call'[c].kind = "send" => call'[c].about \in exists'
      BY <1>3, NetworkFields DEF AnswerCreate, Asked
    <2>4. QED
      BY <1>3, <2>1, <2>2, <2>3, NetworkFields
  <1>4. ASSUME NEW c \in Calls, Resume(c) PROVE NewAreEmpty'
    <2>1. UNCHANGED <<exists, log>> /\ list'.sessions \subseteq exists
      BY <1>4 DEF Resume, ListDone, ListFailed, LoadDone, LoadFailed, CreateDone,
         CreatedListed, CreateFailed, SendDone, SendFailed
    <2>2. /\ call'[c].sessions = {} /\ call'[c].kind # "send"
          /\ \A d \in Calls \ {c} : call'[d] = call[d]
      BY <1>4, OneCall, NoSessionsYet
         DEF Resume, ListDone, ListFailed, LoadDone, LoadFailed, CreateDone,
         CreatedListed, CreateFailed, SendDone, SendFailed
    <2>3. QED
      BY <2>1, <2>2
  <1>5. CASE UNCHANGED vars
    BY <1>5 DEF vars
  <1>6. QED
    BY <1>1, <1>2, <1>3, <1>4, <1>5 DEF Next, Write

\* While nothing is waited for, the only requests under way are for the list.
LEMMA NothingElse ==
    ASSUME TypeOK, FlagsTellTheTruth, OneAtATime, ~Waiting, NEW c \in Calls
    PROVE  call[c].kind \in {"idle", "list"}
  BY IdleFields DEF TypeOK, FlagsTellTheTruth, OneAtATime, Waiting, Call, Kind

\* A click of a user who has waited.
LEMMA CalmClick ==
    ASSUME TypeOK, FlagsTellTheTruth, CalmInv, NEW c \in Calls, Click(c), calm'
    PROVE  OneAtATime' /\ \A d \in Calls : Current(d)'
  <1>1. calm /\ ~Waiting /\ OneAtATime
    BY DEF Click, CalmInv
  <1>2. \A d \in Calls : call[d].kind \in {"idle", "list"} /\ call[d].stage # "failed"
    BY <1>1, NothingElse DEF OneAtATime
  <1>3. /\ \A d \in Calls \ {c} : call'[d] = call[d]
        /\ call'[c].stage = "sent" /\ call'[c].kind # "listCreated"
    BY OneCall, NoSessionsYet DEF Click, Select, Create, Submit
  <1>4. \A d \in Calls : /\ call'[d].stage # "failed"
                         /\ d # c => call'[d].kind \in {"idle", "list"}
    BY <1>2, <1>3
  <1>5. \A d \in Calls : Current(d)'
    BY <1>2, <1>3 DEF Current, Back
  <1>6. ASSUME NEW s \in Sessions, Select(s, c) PROVE OneAtATime'
    <2>1. /\ call'[c].kind = "load" /\ call'[c].about = s
          /\ newest' = c /\ messages'.status = "loading" /\ selected' = s
          /\ ~sending' /\ ~creating'
      BY <1>1, <1>6, OneCall, NoSessionsYet DEF Select, Without, Waiting
    <2>2. QED
      BY <1>4, <2>1 DEF OneAtATime
  <1>7. CASE Create(c)
    <2>1. call'[c].kind = "create" /\ ~sending' /\ messages'.status # "loading"
      BY <1>1, <1>7, OneCall, NoSessionsYet DEF Create, Waiting, chat
    <2>2. QED
      BY <1>4, <1>5, <2>1 DEF OneAtATime
  <1>8. CASE Submit(c)
    <2>1. /\ call'[c].kind = "send" /\ call'[c].about = selected /\ selected' = selected
          /\ ~creating' /\ messages'.status # "loading"
      BY <1>1, <1>8, OneCall, NoSessionsYet DEF Submit, Waiting
    <2>2. QED
      BY <1>4, <1>5, <2>1 DEF OneAtATime
  <1>9. QED
    BY <1>5, <1>6, <1>7, <1>8 DEF Click

\* An answer finds the log that no other request is changing.
LEMMA CalmNetwork ==
    ASSUME TypeOK, FlagsTellTheTruth, NewAreEmpty, CalmInv, NEW c \in Calls, Network(c), calm'
    PROVE  OneAtATime' /\ \A d \in Calls : Current(d)'
  <1>1. calm /\ call'[c].stage # "failed" /\ OneAtATime /\ \A d \in Calls : Current(d)
    BY DEF Network, CalmInv
  <1>2. UNCHANGED <<list, selected, messages, pending, newest, sending, creating>>
    BY DEF Network, chat
  <1>3. OneAtATime'
    <2>1. \A d \in Calls : /\ call'[d].stage # "failed" /\ call'[d].kind = call[d].kind
                           /\ call[d].kind \in {"load", "send"} => call'[d].about = call[d].about
      BY <1>1, NetworkFields DEF OneAtATime, AnswerCreate, Asked
    <2>2. QED
      BY <1>1, <1>2, <2>1 DEF OneAtATime
  <1>4. ~Fail(c)
    <2>1. SUFFICES ASSUME Fail(c) PROVE FALSE
      OBVIOUS
    <2>2. call[c] \in Call
      BY <2>1, StagedIsCall, BusyIsCall DEF Fail, Stage
    <2>3. QED
      BY <1>1, <2>1, <2>2, OneCall DEF Fail, Call
  <1>5. CASE AnswerSend(c)
    <2>1. /\ call[c].kind = "send" /\ call[c].about \in Sessions /\ call[c].text \in Questions
          /\ log[call[c].about] \in Seq(Questions)
          /\ log' = [log EXCEPT ![call[c].about] = Append(log[call[c].about], call[c].text)]
      BY <1>5 DEF AnswerSend, Asked, TypeOK, Addressed
    <2>2. sending /\ ~creating /\ messages.status # "loading"
      BY <1>1, <2>1 DEF FlagsTellTheTruth, OneAtATime
    <2>3. \A d \in Calls \ {c} : call[d].kind \notin {"load", "send", "create", "listCreated"}
      BY <1>1, <2>1, <2>2 DEF FlagsTellTheTruth, OneAtATime
    <2>4. \A d \in Calls \ {c} : Current(d)'
      BY <2>3, NetworkFields DEF Current, Back
    <2>5. /\ call'[c].kind = "send" /\ call'[c].about = call[c].about
          /\ call'[c].text = call[c].text
      BY <1>5, <2>1, NetworkFields DEF AnswerCreate, Asked
    <2>6. /\ log'[call[c].about] = Append(log[call[c].about], call[c].text)
      BY <2>1 DEF TypeOK
    <2>7. /\ log'[call[c].about] # << >>
          /\ log'[call[c].about][Len(log'[call[c].about])] = call[c].text
      BY <2>1, <2>6
    <2>8. Current(c)'
      BY <2>5, <2>7 DEF Current, Back
    <2>9. QED
      BY <1>3, <2>4, <2>8
  <1>6. CASE ~AnswerSend(c)
    <2>1. UNCHANGED log
      BY <1>4, <1>6 DEF Network, AnswerList, AnswerLoad, AnswerCreate, server
    <2>2. \A d \in Calls \ {c} : Current(d)'
      BY <1>1, <2>1, NetworkFields DEF Current, Back
    <2>3. Current(c)'
      <3>1. CASE AnswerList(c)
        <4>1. call[c].kind \in {"list", "listCreated"} /\ call'[c].kind = call[c].kind
              /\ call'[c].about = call[c].about
          BY <3>1, NetworkFields DEF AnswerList, AnswerCreate, Asked
        <4>2. QED
          BY <1>1, <2>1, <4>1 DEF Current, Back
      <3>2. CASE AnswerLoad(c)
        <4>1. call'[c].kind = "load" /\ call'[c].about = call[c].about
              /\ call'[c].log = log[call[c].about]
          BY <3>2, NetworkFields DEF AnswerLoad, AnswerCreate, Asked
        <4>2. QED
          BY <2>1, <4>1 DEF Current, Back
      <3>3. CASE AnswerCreate(c)
        <4>1. call'[c].kind = "create" /\ log[call'[c].about] = << >>
          BY <3>3, NetworkFields DEF AnswerCreate, Asked, NewAreEmpty
        <4>2. QED
          BY <2>1, <4>1 DEF Current, Back
      <3>4. QED
        BY <1>4, <1>6, <3>1, <3>2, <3>3 DEF Network
    <2>4. QED
      BY <1>3, <2>2, <2>3
  <1>7. QED
    BY <1>5, <1>6

\* What the panel does with a response of a user who has waited.
LEMMA CalmResume ==
    ASSUME TypeOK, FlagsTellTheTruth, CalmInv, NEW c \in Calls, Resume(c), calm'
    PROVE  OneAtATime' /\ \A d \in Calls : Current(d)'
  <1>1. calm /\ OneAtATime /\ \A d \in Calls : Current(d)
    BY DEF Resume, CalmInv
  <1>2. UNCHANGED log /\ \A d \in Calls \ {c} : call'[d] = call[d]
    BY OneCall DEF Resume, ListDone, ListFailed, LoadDone, LoadFailed, CreateDone,
         CreatedListed, CreateFailed, SendDone, SendFailed, server
  <1>3. ~ListFailed(c) /\ ~LoadFailed(c) /\ ~CreateFailed(c) /\ ~SendFailed(c)
    BY <1>1 DEF ListFailed, LoadFailed, CreateFailed, SendFailed, Back, OneAtATime
  <1>4. CASE ListDone(c)
    <2>1. call'[c] = Idle /\ UNCHANGED <<selected, messages, newest, sending, creating>>
      BY <1>4, OneCall DEF ListDone, chat
    <2>2. QED
      BY <1>1, <1>2, <2>1, NoSessionsYet DEF OneAtATime, Current, Back
  <1>5. CASE LoadDone(c)
    <2>1. /\ call'[c] = Idle /\ UNCHANGED <<selected, newest, sending, creating>>
          /\ newest = c /\ messages'.status = "ready"
      BY <1>1, <1>5, OneCall DEF LoadDone, Ready, OneAtATime, Back
    <2>2. \A d \in Calls \ {c} : call[d].kind # "load"
      BY <1>1, <2>1 DEF OneAtATime
    <2>3. QED
      BY <1>1, <1>2, <2>1, <2>2, NoSessionsYet DEF OneAtATime, Current, Back
  <1>6. CASE CreateDone(c)
    <2>1. /\ call'[c].kind = "listCreated" /\ call'[c].stage = "sent"
          /\ call'[c].about = call[c].about /\ log[call[c].about] = << >>
          /\ UNCHANGED <<selected, messages, newest, sending, creating>>
      BY <1>1, <1>6, OneCall, NoSessionsYet DEF CreateDone, chat, Current
    <2>2. QED
      BY <1>1, <1>2, <2>1 DEF OneAtATime, Current, Back
  <1>7. CASE CreatedListed(c)
    <2>1. /\ call'[c] = Idle /\ messages'.status = "ready" /\ ~creating'
          /\ call[c].kind = "listCreated"
      BY <1>7, OneCall DEF CreatedListed, Ready, Back
    <2>2. creating /\ ~sending /\ messages.status # "loading"
      BY <1>1, <2>1 DEF FlagsTellTheTruth, OneAtATime
    <2>3. \A d \in Calls \ {c} : call[d].kind \notin {"load", "send"}
      BY <1>1, <2>2 DEF FlagsTellTheTruth, OneAtATime
    <2>4. QED
      BY <1>1, <1>2, <2>1, <2>3, NoSessionsYet DEF OneAtATime, Current, Back
  <1>8. CASE SendDone(c)
    <2>1. /\ call'[c].kind = "list" /\ call'[c].stage = "sent" /\ ~sending'
          /\ messages'.status = "ready" /\ call[c].kind = "send" /\ selected' = selected
      BY <1>8, OneCall, NoSessionsYet DEF SendDone, Ready, Back
    <2>2. sending /\ ~creating /\ messages.status # "loading"
      BY <1>1, <2>1 DEF FlagsTellTheTruth, OneAtATime
    <2>3. \A d \in Calls \ {c} : call[d].kind # "load"
      BY <1>1, <2>2 DEF OneAtATime
    <2>4. QED
      BY <1>1, <1>2, <2>1, <2>3 DEF OneAtATime, Current, Back
  <1>9. QED
    BY <1>3, <1>4, <1>5, <1>6, <1>7, <1>8 DEF Resume

\* A user who waits has one request at a time, and its response is current.
LEMMA CalmStep ==
    TypeOK /\ FlagsTellTheTruth /\ NewAreEmpty /\ CalmInv /\ [Next]_vars => CalmInv'
  <1> SUFFICES ASSUME TypeOK, FlagsTellTheTruth, NewAreEmpty, CalmInv, [Next]_vars, calm'
               PROVE  OneAtATime' /\ \A d \in Calls : Current(d)'
    BY DEF CalmInv
  <1>1. ASSUME UNCHANGED <<log, selected, messages, newest, sending, creating, call, calm>>
        PROVE  OneAtATime' /\ \A d \in Calls : Current(d)'
    BY <1>1 DEF CalmInv, OneAtATime, Current, Back
  <1>2. (\E c \in Calls : Click(c) \/ Network(c) \/ Resume(c))
        \/ UNCHANGED <<log, selected, messages, newest, sending, creating, call, calm>>
    BY DEF Next, Write, Type, vars, server, chat
  <1>3. QED
    BY <1>1, <1>2, CalmClick, CalmNetwork, CalmResume

-----------------------------------------------------------------------------

\* Everything, nothing of nothing, and the last turn are ends.
LEMMA Ends ==
    ASSUME TypeOK, NEW s \in Sessions
    PROVE  /\ End(log[s], s)
           /\ log[s] = << >> => End(<< >>, s)
           /\ log[s] # << >> => End(<<log[s][Len(log[s])]>>, s)
  <1> DEFINE n == Len(log[s])
  <1>1. log[s] \in Seq(Questions) /\ n \in Nat
    BY DEF TypeOK
  <1>2. log[s] = SubSeq(log[s], 0 + 1, n) /\ 0 \in 0 .. n
    BY <1>1
  <1>3. ASSUME log[s] # << >> PROVE End(<<log[s][n]>>, s)
    <2>1. n - 1 \in 0 .. n
      BY <1>1, <1>3
    <2>2. <<log[s][n]>> = SubSeq(log[s], (n - 1) + 1, n)
      BY <1>1, <1>3
    <2>3. <<log[s][n]>> # << >>
      OBVIOUS
    <2>4. QED
      BY <2>1, <2>2, <2>3 DEF End
  <1>4. QED
    BY <1>2, <1>3 DEF End

\* What replaces the messages is the end of the conversation that it is about.
LEMMA EndStep ==
    ASSUME IInv, NewAreEmpty, CalmInv, ScreenShowsTheEnd, [Next]_vars
    PROVE  ScreenShowsTheEnd'
  <1> SUFFICES ASSUME calm', messages'.status = "ready", ~Waiting'
               PROVE  End(messages.log, selected)'
    BY DEF ScreenShowsTheEnd, End
  <1>0. TypeOK /\ FlagsTellTheTruth
    BY DEF IInv
  <1>1. ASSUME UNCHANGED <<log, selected, messages, sending, creating>>, calm
        PROVE  End(messages.log, selected)'
    BY <1>1 DEF ScreenShowsTheEnd, End, Waiting
  <1>2. ASSUME NEW c \in Calls, Click(c) PROVE FALSE
    BY <1>2 DEF Click, Select, Create, Submit, Waiting, Without
  <1>3. ASSUME NEW c \in Calls, Network(c) PROVE End(messages.log, selected)'
    <2>1. UNCHANGED <<selected, messages, sending, creating>> /\ calm
      BY <1>3 DEF Network, chat
    <2>2. ~AnswerSend(c)
      BY <1>0, <2>1 DEF AnswerSend, Asked, FlagsTellTheTruth, Waiting
    <2>3. UNCHANGED log
      BY <1>3, <2>2 DEF Network, AnswerList, AnswerLoad, AnswerCreate, Fail, server
    <2>4. QED
      BY <1>1, <2>1, <2>3
  <1>4. ASSUME NEW c \in Calls, Resume(c) PROVE End(messages.log, selected)'
    <2>1. calm /\ OneAtATime /\ (\A d \in Calls : Current(d)) /\ UNCHANGED log
      BY <1>4 DEF Resume, CalmInv, ListDone, ListFailed, LoadDone, LoadFailed, CreateDone,
         CreatedListed, CreateFailed, SendDone, SendFailed, server
    <2>2. CASE LoadDone(c)
      <3>1. /\ call[c].about \in Sessions /\ selected' = call[c].about
            /\ messages'.log = log[call[c].about]
        BY <1>0, <2>1, <2>2 DEF LoadDone, Back, OneAtATime, Current, Ready, TypeOK, Addressed
      <3>2. QED
        BY <1>0, <2>1, <3>1, Ends DEF End
    <2>3. CASE CreatedListed(c)
      <3>1. /\ call[c].about \in Sessions /\ selected' = call[c].about
            /\ messages'.log = << >> /\ log[call[c].about] = << >>
        BY <1>0, <2>1, <2>3 DEF CreatedListed, Back, Current, Ready, TypeOK, Addressed
      <3>2. QED
        BY <1>0, <2>1, <3>1, Ends DEF End
    <2>4. CASE SendDone(c)
      <3>1. /\ call[c].about \in Sessions /\ selected' = call[c].about
            /\ messages'.log = <<call[c].text>> /\ log[call[c].about] # << >>
            /\ call[c].text = log[call[c].about][Len(log[call[c].about])]
        BY <1>0, <2>1, <2>4
           DEF SendDone, Back, OneAtATime, Current, Ready, TypeOK, Addressed
      <3>2. QED
        BY <1>0, <2>1, <3>1, Ends DEF End
    <2>5. CASE ListDone(c) \/ CreateDone(c)
      BY <1>1, <2>1, <2>5 DEF ListDone, CreateDone, chat
    <2>6. ~ListFailed(c) /\ ~LoadFailed(c) /\ ~CreateFailed(c) /\ ~SendFailed(c)
      BY <2>1 DEF ListFailed, LoadFailed, CreateFailed, SendFailed, Back, OneAtATime
    <2>7. QED
      BY <1>4, <2>2, <2>3, <2>4, <2>5, <2>6 DEF Resume
  <1>5. CASE UNCHANGED vars \/ Write
    BY <1>1, <1>5 DEF vars, Write, Type, server, chat
  <1>6. QED
    BY <1>2, <1>3, <1>4, <1>5 DEF Next

\* At the beginning only the list is asked for.
LEMMA InitCalm == Init => NewAreEmpty /\ CalmInv /\ ScreenShowsTheEnd
  <1> SUFFICES ASSUME Init PROVE NewAreEmpty /\ CalmInv /\ ScreenShowsTheEnd
    OBVIOUS
  <1>1. \A c \in Calls : /\ call[c].kind \in {"idle", "list"} /\ call[c].sessions = {}
                         /\ call[c].stage # "failed"
    BY NoSessionsYet DEF Init
  <1>2. messages.status = "idle" /\ ~sending /\ ~creating
    BY DEF Init, Without
  <1>3. QED
    BY <1>1, <1>2 DEF Init, NewAreEmpty, CalmInv, OneAtATime, Current, Back, ScreenShowsTheEnd

\* For any number of sessions, texts and requests, a user who waits for what is on its
\* way, and meets no error, has the end of the selected conversation on the screen.
THEOREM LatestIsShown == Spec => []ScreenShowsTheEnd
  <1>1. IInv /\ NewAreEmpty /\ CalmInv /\ ScreenShowsTheEnd /\ [Next]_vars
            => NewAreEmpty' /\ CalmInv' /\ ScreenShowsTheEnd'
    BY NewStep, CalmStep, EndStep DEF IInv
  <1>2. QED
    BY InitCalm, <1>1, Invariance, PTL DEF Spec
=============================================================================
