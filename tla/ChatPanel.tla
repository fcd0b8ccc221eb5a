----------------------------- MODULE ChatPanel -----------------------------
(***************************************************************************)
(* The chat page: ChatPanel.tsx with its sidebar and its composer.         *)
(*                                                                         *)
(* Every handler awaits requests; whatever the user does and whatever else *)
(* arrives in between changes the same React state, and only the loading   *)
(* of messages has a token that tells a late response from a current one.  *)
(* A handler is here one action per stretch between two awaits.  The       *)
(* server is its sessions and their turns (question and answer); a request *)
(* is handled at one moment and its response used at a later one.          *)
(***************************************************************************)
EXTENDS Naturals, Sequences

CONSTANTS
    Sessions,     \* chat session ids
    Questions,    \* texts a user may type
    Calls,        \* requests in flight at a time
    NoSession, NoText, NoCall,
    MaxTurns,     \* turns in one session
    Faults        \* TRUE: requests may fail, before or after they took effect

ASSUME NullAssumption == /\ NoSession \notin Sessions
                         /\ NoText \notin Questions
                         /\ NoCall \notin Calls
ASSUME TurnsAssumption  == MaxTurns \in Nat
ASSUME FaultsAssumption == Faults \in BOOLEAN

VARIABLES
    \* the server
    exists,       \* sessions there are
    log,          \* the questions answered in each, in order
    \* the panel's state
    list,         \* sessionsState
    selected,     \* selectedSessionId
    messages,     \* messagesState, and whose messages these are
    newest,       \* the load whose token is loadTokenRef.current
    sending, creating,
    pending,      \* pendingUserMessage
    composer,     \* composerValue
    \* the network
    call,
    \* history: the user has waited for what was on its way, and nothing has failed
    calm

server == <<exists, log>>
chat   == <<selected, messages, pending>>
vars   == <<exists, log, list, selected, messages, newest, sending, creating,
            pending, composer, call, calm>>

Text  == Questions \cup {NoText}
Kind  == {"list", "load", "create", "listCreated", "send"}
Stage == {"sent", "answered", "failed"}

Request(k, s, q) == [kind |-> k, stage |-> "sent", about |-> s, text |-> q,
                     sessions |-> {}, log |-> << >>]
Idle == [kind |-> "idle", stage |-> "idle", about |-> NoSession, text |-> NoText,
         sessions |-> {}, log |-> << >>]

Ready(s, l)    == [status |-> "ready", session |-> s, log |-> l]
Without(state) == [status |-> state, session |-> NoSession, log |-> << >>]

Call ==
    [kind : Kind, stage : Stage, about : Sessions \cup {NoSession}, text : Text,
     sessions : SUBSET Sessions, log : Seq(Questions)]

\* A request is about a session where the panel takes one from it.
Addressed(r) ==
    /\ r.kind \in {"load", "listCreated", "send"} => r.about \in Sessions
    /\ r.kind = "create" /\ r.stage = "answered" => r.about \in Sessions
    /\ r.kind = "send" => r.text \in Questions

TypeOK ==
    /\ exists \subseteq Sessions
    /\ log \in [Sessions -> Seq(Questions)]
    /\ list \in [status : {"loading", "ready", "error"}, sessions : SUBSET Sessions]
    /\ selected \in Sessions \cup {NoSession}
    /\ messages \in [status : {"idle", "loading", "ready", "error"},
                     session : Sessions \cup {NoSession}, log : Seq(Questions)]
    /\ messages.status = "ready" => messages.session \in Sessions
    /\ newest \in Calls \cup {NoCall}
    /\ sending \in BOOLEAN /\ creating \in BOOLEAN
    /\ pending \in Text /\ composer \in Text
    /\ call \in [Calls -> Call \cup {Idle}]
    /\ \A c \in Calls : Addressed(call[c])
    /\ calm \in BOOLEAN

\* The panel is mounted, over whatever the server has, and asks for the sessions.
Init ==
    /\ exists \in SUBSET Sessions
    /\ log \in [Sessions -> {<< >>} \cup {<<q>> : q \in Questions}]
    /\ \A s \in Sessions \ exists : log[s] = << >>
    /\ list = [status |-> "loading", sessions |-> {}]
    /\ selected = NoSession
    /\ messages = Without("idle")
    /\ newest = NoCall
    /\ sending = FALSE /\ creating = FALSE
    /\ pending = NoText /\ composer = NoText
    /\ \E c \in Calls :
          call = [[d \in Calls |-> Idle] EXCEPT ![c] = Request("list", NoSession, NoText)]
    /\ calm = TRUE
-----------------------------------------------------------------------------
(* The user                                                                   *)

Free(c)     == call[c] = Idle
Send(c, r)  == call' = [call EXCEPT ![c] = r]
Hang(c)     == call' = [call EXCEPT ![c] = Idle]

\* The selected session is in the list: its conversation and the composer show.
Visible == list.status = "ready" /\ selected \in list.sessions

\* Mutation: only the button is disabled while a question is on its way.
ComposerAlways == Visible

ComposerEnabled == Visible /\ ~sending

Type(q) ==
    /\ ComposerEnabled
    /\ composer' = q
    /\ UNCHANGED <<server, list, chat, newest, sending, creating, call>>

Select(s, c) ==
    /\ list.status = "ready" /\ s \in list.sessions
    /\ s # selected
    /\ Free(c)
    /\ selected' = s
    /\ pending' = NoText
    /\ newest' = c
    /\ messages' = Without("loading")
    /\ Send(c, Request("load", s, NoText))
    /\ UNCHANGED <<server, list, sending, creating, composer>>

\* Mutation: "if (creatingSession) return" and the button's disabled are gone.
CreateTwice(c) ==
    /\ Free(c)
    /\ creating' = TRUE
    /\ Send(c, Request("create", NoSession, NoText))
    /\ UNCHANGED <<server, list, chat, newest, sending, composer>>

Create(c) ==
    /\ ~creating
    /\ Free(c)
    /\ creating' = TRUE
    /\ Send(c, Request("create", NoSession, NoText))
    /\ UNCHANGED <<server, list, chat, newest, sending, composer>>

Submit(c) ==
    /\ ComposerEnabled
    /\ composer # NoText
    /\ Free(c)
    /\ Len(log[selected]) < MaxTurns
    /\ sending' = TRUE
    /\ pending' = composer
    /\ composer' = NoText
    /\ Send(c, Request("send", selected, composer))
    /\ UNCHANGED <<server, list, selected, messages, newest, creating>>
-----------------------------------------------------------------------------
(* The server handles a request; a response or an error is on its way.        *)

Asked(c, kinds) == call[c].kind \in kinds /\ call[c].stage = "sent"

AnswerList(c) ==
    /\ Asked(c, {"list", "listCreated"})
    /\ Send(c, [call[c] EXCEPT !.stage = "answered", !.sessions = exists])
    /\ UNCHANGED server

AnswerLoad(c) ==
    /\ Asked(c, {"load"})
    /\ Send(c, [call[c] EXCEPT !.stage = "answered", !.log = log[call[c].about]])
    /\ UNCHANGED server

AnswerCreate(c) ==
    /\ Asked(c, {"create"})
    /\ \E s \in Sessions \ exists :
          /\ exists' = exists \cup {s}
          /\ Send(c, [call[c] EXCEPT !.stage = "answered", !.about = s])
    /\ UNCHANGED log

AnswerSend(c) ==
    /\ Asked(c, {"send"})
    /\ log' = [log EXCEPT ![call[c].about] = Append(@, call[c].text)]
    /\ Send(c, [call[c] EXCEPT !.stage = "answered"])
    /\ UNCHANGED exists

\* An error status, or a connection lost: before the request was handled or after.
\* The model also turns down a creation when it has run out of session ids.
Fail(c) ==
    /\ call[c].stage \in {"sent", "answered"}
    /\ Faults \/ (Asked(c, {"create"}) /\ exists = Sessions)
    /\ Send(c, [call[c] EXCEPT !.stage = "failed"])
    /\ UNCHANGED server

Network(c) ==
    /\ AnswerList(c) \/ AnswerLoad(c) \/ AnswerCreate(c) \/ AnswerSend(c) \/ Fail(c)
    /\ UNCHANGED <<list, chat, newest, sending, creating, composer>>
    /\ calm' = (calm /\ call'[c].stage # "failed")
-----------------------------------------------------------------------------
(* What the panel does when an await is over                                  *)

Back(c, kind, stage) == call[c].kind = kind /\ call[c].stage = stage

ListDone(c) ==
    /\ Back(c, "list", "answered")
    /\ list' = [status |-> "ready", sessions |-> call[c].sessions]
    /\ Hang(c)
    /\ UNCHANGED <<server, chat, newest, sending, creating, composer>>

ListFailed(c) ==
    /\ Back(c, "list", "failed")
    /\ list' = [status |-> "error", sessions |-> {}]
    /\ Hang(c)
    /\ UNCHANGED <<server, chat, newest, sending, creating, composer>>

\* Mutation: the token is read before it is incremented, so no load is current.
LoadDoneStale(c) ==
    /\ Back(c, "load", "answered")
    /\ messages' = IF newest # c THEN Ready(call[c].about, call[c].log) ELSE messages
    /\ Hang(c)
    /\ UNCHANGED <<server, list, selected, pending, newest, sending, creating, composer>>

LoadDone(c) ==
    /\ Back(c, "load", "answered")
    /\ messages' = IF newest = c THEN Ready(call[c].about, call[c].log) ELSE messages
    /\ Hang(c)
    /\ UNCHANGED <<server, list, selected, pending, newest, sending, creating, composer>>

LoadFailed(c) ==
    /\ Back(c, "load", "failed")
    /\ messages' = IF newest = c THEN Without("error") ELSE messages
    /\ Hang(c)
    /\ UNCHANGED <<server, list, selected, pending, newest, sending, creating, composer>>

\* The session is there; ask for the list before showing it.
CreateDone(c) ==
    /\ Back(c, "create", "answered")
    /\ Send(c, Request("listCreated", call[c].about, NoText))
    /\ UNCHANGED <<server, list, chat, newest, sending, creating, composer>>

CreatedListed(c) ==
    /\ Back(c, "listCreated", "answered")
    /\ list' = [status |-> "ready", sessions |-> call[c].sessions]
    /\ selected' = call[c].about
    /\ messages' = Ready(call[c].about, << >>)
    /\ creating' = FALSE
    /\ Hang(c)
    /\ UNCHANGED <<server, newest, sending, pending, composer>>

CreateFailed(c) ==
    /\ Back(c, "create", "failed") \/ Back(c, "listCreated", "failed")
    /\ creating' = FALSE
    /\ Hang(c)
    /\ UNCHANGED <<server, list, chat, newest, sending, composer>>

\* Mutation: the turn is added to whatever is on the screen.
SendDoneAppend(c) ==
    /\ Back(c, "send", "answered")
    /\ messages' = Ready(call[c].about, Append(messages.log, call[c].text))
    /\ pending' = NoText
    /\ sending' = FALSE
    /\ Send(c, Request("list", NoSession, NoText))
    /\ UNCHANGED <<server, list, selected, newest, creating, composer>>

\* Mutation: the response is not used, only the list is asked for.
SendDoneRefreshOnly(c) ==
    /\ Back(c, "send", "answered")
    /\ pending' = NoText
    /\ sending' = FALSE
    /\ Send(c, Request("list", NoSession, NoText))
    /\ UNCHANGED <<server, list, selected, messages, newest, creating, composer>>

\* The turn replaces the messages, and the list is asked for again.
SendDone(c) ==
    /\ Back(c, "send", "answered")
    /\ messages' = Ready(call[c].about, <<call[c].text>>)
    /\ pending' = NoText
    /\ sending' = FALSE
    /\ Send(c, Request("list", NoSession, NoText))
    /\ UNCHANGED <<server, list, selected, newest, creating, composer>>

\* Mutation: the draft is not restored.
SendFailedForget(c) ==
    /\ Back(c, "send", "failed")
    /\ pending' = NoText
    /\ sending' = FALSE
    /\ Hang(c)
    /\ UNCHANGED <<server, list, selected, messages, newest, creating, composer>>

\* Mutation: setSending(false) only after success, not in the finally block.
SendFailedKeepFlag(c) ==
    /\ Back(c, "send", "failed")
    /\ pending' = NoText
    /\ composer' = call[c].text
    /\ Hang(c)
    /\ UNCHANGED <<server, list, selected, messages, newest, sending, creating>>

SendFailed(c) ==
    /\ Back(c, "send", "failed")
    /\ pending' = NoText
    /\ composer' = call[c].text
    /\ sending' = FALSE
    /\ Hang(c)
    /\ UNCHANGED <<server, list, selected, messages, newest, creating>>

Resume(c) ==
    /\ \/ ListDone(c) \/ ListFailed(c) \/ LoadDone(c) \/ LoadFailed(c)
       \/ CreateDone(c) \/ CreatedListed(c) \/ CreateFailed(c)
       \/ SendDone(c) \/ SendFailed(c)
    /\ UNCHANGED calm

\* What a user may be waiting for.
Waiting == sending \/ creating \/ messages.status = "loading"

Click(c) ==
    /\ (\E s \in Sessions : Select(s, c)) \/ Create(c) \/ Submit(c)
    /\ calm' = (calm /\ ~Waiting)

Write == (\E q \in Text : Type(q)) /\ UNCHANGED calm

Next == Write \/ \E c \in Calls : Click(c) \/ Network(c) \/ Resume(c)

Spec == Init /\ [][Next]_vars

\* Requests are answered or fail, and the browser runs what waits for them.  The
\* user owes nothing.
Fairness == \A c \in Calls : WF_vars(Network(c)) /\ WF_vars(Resume(c))

FairSpec == Spec /\ Fairness
-----------------------------------------------------------------------------
(* Properties                                                                 *)

\* l is part of what is stored of s.
Piece(l, s) == \E i, j \in 0 .. Len(log[s]) : l = SubSeq(log[s], i + 1, j)

\* Whatever is clicked and whatever fails, the conversation on the screen is a piece
\* of one stored conversation: no turn of another session among them, none missing
\* between two, none that the server does not have (ChatPanel.tsx:220-226).
ScreenIsPersisted ==
    messages.status = "ready" => Piece(messages.log, messages.session)

\* l is the end of what is stored of s: its last turns, and at least the last one
\* unless nothing is stored.
End(l, s) ==
    /\ \E i \in 0 .. Len(log[s]) : l = SubSeq(log[s], i + 1, Len(log[s]))
    /\ l = << >> => log[s] = << >>

\* While the user has waited for what was on its way and nothing has failed, it is
\* the end of the selected conversation: the latest answer is on the screen, and in
\* the conversation it belongs to (ChatPanel.tsx:148-155, 183-192, 220-226).
ScreenShowsTheEnd ==
    calm /\ messages.status = "ready" /\ ~Waiting => End(messages.log, selected)

\* Only the user changes a draft: a failed send puts its text back
\* (ChatPanel.tsx:234-237) but never over something typed since.
DraftsSurvive ==
    [][composer # NoText /\ composer' # composer =>
          (\E q \in Text : Type(q)) \/ (\E c \in Calls : Submit(c))]_vars

\* At most one send and one creation are under way (ChatPanel.tsx:184, 209), and the
\* flags that disable the buttons say so.
FlagsTellTheTruth ==
    /\ sending  <=> \E c \in Calls : call[c].kind = "send"
    /\ creating <=> \E c \in Calls : call[c].kind \in {"create", "listCreated"}
    /\ \A c, d \in Calls :
          /\ call[c].kind = "send" /\ call[d].kind = "send" => c = d
          /\ {call[c].kind, call[d].kind} \subseteq {"create", "listCreated"} => c = d

\* A submitted question is stored in the end, or back in the composer.
QuestionsResurface ==
    \A c \in Calls, q \in Questions :
        (call[c].kind = "send" /\ call[c].text = q)
            ~> (composer = q \/ \E s \in Sessions, i \in 1 .. MaxTurns :
                                    i \in DOMAIN log[s] /\ log[s][i] = q)

\* The buttons come back after every send and every creation.
ButtonsComeBack == (sending ~> ~sending) /\ (creating ~> ~creating)

\* Neither pane says "loading" for ever: a load that is not overtaken by a newer one
\* is shown, or its error is (ChatPanel.tsx:125-138, 153-164).
LoadingEnds ==
    /\ list.status = "loading" ~> list.status # "loading"
    /\ \A c \in Calls : messages.status = "loading" /\ newest = c
                         ~> messages.status # "loading" \/ newest # c

-----------------------------------------------------------------------------
(* What the repository's own words say, and the code does not keep: README,   *)
(* "Where the code and its words part".                                       *)

\* MessageList.tsx:26: the messages are those of the currently selected session, so
\* the answer to a question is shown only there (ChatPanel.tsx:220-226).
AnswerShownWhereAsked ==
    [][\A c \in Calls : SendDone(c) => messages'.session = selected']_vars

\* ChatPanel.tsx:71-73: "a slow first request can't overwrite a fresh one".
LoadsAreCurrent ==
    [][\A c \in Calls : LoadDone(c) /\ newest = c => call[c].about = selected]_vars
=============================================================================
