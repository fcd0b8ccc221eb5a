----------------------------- MODULE PageCalls -----------------------------
(***************************************************************************)
(* What the pages of the frontend share: the courses and documents of the  *)
(* signed-in user on the server, the page that is mounted, its React       *)
(* state, and the calls its handlers are waiting for.  A handler runs from *)
(* one await to the next; between them the user may click on anything that *)
(* is not disabled, and answers arrive in any order.  A page that is left  *)
(* drops its state: its loads are forgotten, but a change it has sent still *)
(* reaches the server, and a handler that ends in router.push still pushes. *)
(***************************************************************************)
EXTENDS Naturals, FiniteSets

CONSTANTS Course, Doc,      \* ids
          Name,             \* of courses
          Call,             \* slots for handlers that await an answer
          NoCourse, None,
          Unborn, Gone,     \* an id not given out yet; one whose row was deleted
          MaxClicks         \* bound on what the user starts: calls and navigation

VARIABLES
    courses,   \* on the server: course -> its name
    docs,      \* on the server: document -> the course it belongs to
    settled,   \* on the server: the documents whose upload_status is READY or FAILED
    at,        \* the mounted page; a course or a document stands for its own page
    going,     \* where router.push is taking the browser
    ui,        \* state of the mounted page
    calls,     \* handlers that await an answer
    clicks,
    doubt      \* history: the parts of the page something is known to have gone past

server == <<courses, docs, settled>>
vars == <<courses, docs, settled, at, going, ui, calls, clicks, doubt>>

Present(row) == row \notin {Unborn, Gone}

\* A document as an answer has it, when the documents in `done` are settled.
Row(d, done) ==
    IF Present(docs[d]) THEN [course |-> docs[d], settled |-> d \in done] ELSE Gone

Matching(course, done) ==
    [d \in Doc |-> IF course \in {None, docs[d]} THEN Row(d, done) ELSE Gone]

Loading == [status |-> "loading", data |-> None, for |-> None]
Broken == [status |-> "error", data |-> None, for |-> None]
Ready(data, for) == [status |-> "ready", data |-> data, for |-> for]

\* `form`: the form or edit dialog on screen; `target`: what the delete dialog asks
\* about; `deleting`: deletingId or deletePending; `pending`, `errors`: the other flags.
Blank == [main |-> Loading, side |-> Loading, form |-> "closed", target |-> None,
          deleting |-> None, pending |-> {}, errors |-> {}, file |-> FALSE, filter |-> None]

\* `push`: where the handler goes on success.
Request(op, item, value, push) ==
    [op |-> op, item |-> item, value |-> value, params |-> ui.filter, part |-> "main",
     step |-> IF op \in {"load", "refresh"} THEN "read" ELSE "change",
     answer |-> "none", data |-> None, push |-> push, mine |-> TRUE]

Load(part, params) ==
    [Request("load", None, None, None) EXCEPT !.part = part, !.params = params]

Answered(k) == calls[k] # None /\ calls[k].mine /\ calls[k].answer # "none"
Succeeded(k) == calls[k].answer = "ok"

Mine(op) == {k \in Call : calls[k] # None /\ calls[k].mine /\ calls[k].op = op}

-----------------------------------------------------------------------------
(* The server, as far as the pages can tell *)

NameFree(name, c) == \A other \in Course \ {c} : courses[other] # name

\* What a GET of the mounted page returns when the documents in `done` are settled.
ReadingAt(c, done) ==
    IF c.part = "side" THEN Matching(at, done)
    ELSE CASE at = "courses" -> courses
           [] at \in Course -> courses[at]
           [] at \in Doc -> Row(at, done)
           [] OTHER -> Matching(c.params, done)

Reading(c) == ReadingAt(c, settled)

\* Data is what a GET would return, but that the background task may since have
\* settled documents that it shows as being processed: nothing tells the page.
AsRead(data, c) == \E done \in SUBSET settled : data = ReadingAt(c, done)

\* Mutation: a GET finds the rows that are gone.
ServeReadGone(k) ==
    /\ calls[k] # None /\ calls[k].step = "read" /\ calls[k].answer = "none"
    /\ calls' = [calls EXCEPT ![k].answer = "ok", ![k].data = Reading(calls[k])]
    /\ UNCHANGED <<server, at, going, ui, clicks, doubt>>

\* A read is answered, or fails: 404, 500, a timeout.
ServeRead(k) ==
    /\ calls[k] # None /\ calls[k].step = "read" /\ calls[k].answer = "none"
    /\ \/ /\ Reading(calls[k]) \notin {Unborn, Gone}
          /\ calls' = [calls EXCEPT ![k].answer = "ok", ![k].data = Reading(calls[k])]
       \/ calls' = [calls EXCEPT ![k].answer = "failed"]
    /\ UNCHANGED <<server, at, going, ui, clicks, doubt>>

\* The background task of an upload writes READY or FAILED.
Settle(d) ==
    /\ Present(docs[d]) /\ d \notin settled
    /\ settled' = settled \cup {d}
    /\ UNCHANGED <<courses, docs, at, going, ui, calls, clicks, doubt>>

\* What each change does to the rows.  A new document has no course, whatever the
\* form said: the upload endpoint has no such field.
Apply(c) ==
    CASE c.op = "create" ->
            \E new \in Course :
                /\ courses[new] = Unborn /\ NameFree(c.value, new)
                /\ courses' = [courses EXCEPT ![new] = c.value]
                /\ UNCHANGED docs
      [] c.op = "update" ->
            /\ Present(courses[c.item]) /\ NameFree(c.value, c.item)
            /\ courses' = [courses EXCEPT ![c.item] = c.value]
            /\ UNCHANGED docs
      [] c.op = "delete" /\ c.item \in Course ->
            /\ Present(courses[c.item])
            /\ courses' = [courses EXCEPT ![c.item] = Gone]
            /\ docs' = [d \in Doc |-> IF docs[d] = c.item THEN NoCourse ELSE docs[d]]
      [] c.op = "upload" ->
            \E new \in Doc :
                /\ docs[new] = Unborn
                /\ docs' = [docs EXCEPT ![new] = NoCourse]
                /\ UNCHANGED courses
      [] c.op = "edit" ->
            /\ Present(docs[c.item])
            /\ c.value \in Course => Present(courses[c.value])
            /\ docs' = [docs EXCEPT ![c.item] = c.value]
            /\ UNCHANGED courses
      [] c.op = "delete" /\ c.item \in Doc ->
            /\ Present(docs[c.item])
            /\ docs' = [docs EXCEPT ![c.item] = Gone]
            /\ UNCHANGED courses
      [] c.op = "chat" -> Present(docs[c.item]) /\ UNCHANGED <<courses, docs>>

\* PATCH /documents/{id} answers with the row.
Outcome(c) ==
    IF c.op = "edit" THEN [course |-> c.value, settled |-> c.item \in settled] ELSE None

\* A change is made and confirmed; made, and its answer lost; or refused.
ServeChange(k) ==
    LET c == calls[k] IN
    /\ c # None /\ c.step = "change" /\ c.answer = "none"
    /\ \/ /\ Apply(c)
          /\ calls' = [calls EXCEPT ![k].answer = "ok", ![k].data = Outcome(c)]
          /\ doubt' = IF c.mine THEN doubt ELSE {"main", "side"}
       \/ /\ Apply(c)
          /\ calls' = [calls EXCEPT ![k].answer = "failed"]
          /\ doubt' = {"main", "side"}
       \/ /\ UNCHANGED <<courses, docs>>
          /\ calls' = [calls EXCEPT ![k].answer = "failed"]
          /\ UNCHANGED doubt
    /\ UNCHANGED <<settled, at, going, ui, clicks>>

-----------------------------------------------------------------------------
(* Handlers *)

\* The user starts a handler.
Start(k, c) ==
    /\ calls[k] = None /\ clicks < MaxClicks
    /\ calls' = [calls EXCEPT ![k] = c]
    /\ clicks' = clicks + 1
    /\ UNCHANGED <<server, at, going, doubt>>

\* The user opens, closes or chooses something.
Look == UNCHANGED <<server, at, going, calls, clicks, doubt>>

\* A handler ends, or goes on to its GET.
End(k) == calls' = [calls EXCEPT ![k] = None]
ReadNext(k) == calls' = [calls EXCEPT ![k].step = "read", ![k].answer = "none", ![k].data = None]
Resume == UNCHANGED <<server, at, clicks>>

\* What arrives is current or already out of date.
Believe(c) == doubt' = IF AsRead(c.data, c) THEN doubt \ {c.part} ELSE doubt \cup {c.part}

\* A loader gets its answer.
LoadDone(k) ==
    LET c == calls[k]
        got == IF Succeeded(k) THEN Ready(c.data, c.params) ELSE Broken IN
    /\ Answered(k) /\ c.op \in {"load", "refresh"}
    /\ End(k)
    /\ ui' = IF c.part = "main" THEN [ui EXCEPT !.main = got] ELSE [ui EXCEPT !.side = got]
    /\ IF Succeeded(k) THEN Believe(c) ELSE UNCHANGED doubt
    /\ Resume /\ UNCHANGED going

\* The handler of a page that is gone gets its answer.
Overdue(k) ==
    LET c == calls[k] IN
    /\ c # None /\ ~c.mine /\ c.answer # "none"
    /\ End(k)
    /\ going' = IF Succeeded(k) /\ c.push # None THEN c.push ELSE going
    /\ Resume /\ UNCHANGED <<ui, doubt>>

\* The delete dialog of any page.
RequestDelete(i) ==
    /\ ui' = [ui EXCEPT !.target = i, !.errors = @ \ {"delete"}]
    /\ Look

\* Mutation: the dialog can be cancelled while it deletes.
CancelDeleteAnyTime ==
    /\ ui.target # None
    /\ ui' = [ui EXCEPT !.target = None, !.errors = @ \ {"delete"}]
    /\ Look

CancelDelete ==
    /\ ui.target # None /\ ui.deleting = None
    /\ ui' = [ui EXCEPT !.target = None, !.errors = @ \ {"delete"}]
    /\ Look

ConfirmDelete(k, push) ==
    /\ ui.target # None /\ ui.deleting = None
    /\ ui' = [ui EXCEPT !.deleting = ui.target, !.errors = @ \ {"delete"}]
    /\ Start(k, Request("delete", ui.target, None, push))

\* Mutation: the row is not taken out of the list on screen.
ListDeleteDoneOnly(k) ==
    LET c == calls[k] IN
    /\ Answered(k) /\ c.op = "delete" /\ c.push = None
    /\ ui' = IF Succeeded(k) THEN [ui EXCEPT !.target = None, !.deleting = None]
             ELSE [ui EXCEPT !.errors = @ \cup {"delete"}, !.deleting = None]
    /\ End(k) /\ UNCHANGED doubt
    /\ Resume /\ UNCHANGED going

\* The handler of the delete dialog of a list: remove, close the dialog, list.
ListDeleteDone(k) ==
    LET c == calls[k] IN
    /\ Answered(k) /\ c.op = "delete" /\ c.push = None
    /\ \/ /\ c.step = "change" /\ Succeeded(k)
          /\ ui' = [ui EXCEPT !.target = None]
          /\ ReadNext(k) /\ UNCHANGED doubt
       \/ /\ c.step = "change" /\ ~Succeeded(k)
          /\ ui' = [ui EXCEPT !.errors = @ \cup {"delete"}, !.deleting = None]
          /\ End(k) /\ UNCHANGED doubt
       \/ /\ c.step = "read" /\ Succeeded(k)
          /\ ui' = [ui EXCEPT !.main = Ready(c.data, c.params), !.deleting = None]
          /\ End(k) /\ Believe(c)
       \/ /\ c.step = "read" /\ ~Succeeded(k)
          /\ ui' = [ui EXCEPT !.errors = @ \cup {"delete"}, !.deleting = None]
          /\ End(k) /\ doubt' = doubt \cup {"main"}
    /\ Resume /\ UNCHANGED going
=============================================================================
