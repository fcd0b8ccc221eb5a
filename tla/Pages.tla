------------------------------- MODULE Pages -------------------------------
(***************************************************************************)
(* The signed-in pages and the way between them.  One page is mounted; a    *)
(* link or the end of a router.push unmounts it and mounts the next, which  *)
(* loads what it shows.  What was sent from the page before is still on its *)
(* way.                                                                     *)
(***************************************************************************)
EXTENDS CoursesPage, DocumentsPage, DetailPages

Tops == {"dashboard", "courses", "documents", "chat"}
Places == Tops \cup Course \cup Doc

\* The stand-ins are no ids, names or slots, and the pages of the rows no other page.
ASSUME NoneOfThem ==
    /\ {NoCourse, None, Unborn, Gone} \cap (Course \cup Doc \cup Name \cup Call) = {}
    /\ None \notin Tops /\ Unborn # Gone
ASSUME PlacesApart ==
    /\ Course \cap Doc = {}
    /\ (Tops \cup {"closed", "create"}) \cap (Course \cup Doc) = {}
ASSUME ClicksBound == MaxClicks \in Nat

\* The answer of an abandoned list is dropped; that of a change only matters to a
\* handler that goes on to push.
Abandon(c) ==
    IF c # None /\ c.step = "change" /\ (c.answer = "none" \/ c.push # None)
    THEN [c EXCEPT !.mine = FALSE] ELSE None

Mount(place, filter) ==
    LET kept == [k \in Call |-> Abandon(calls[k])]
        free == {k \in Call : kept[k] = None}
    IN
    /\ at' = place
    /\ ui' = [Blank EXCEPT !.filter = filter]
    /\ going' = None
    /\ doubt' = {}
    /\ CASE place = "chat" -> calls' = kept
         [] place \in Course ->
              \E k1, k2 \in free :
                  /\ k1 # k2
                  /\ calls' = [kept EXCEPT ![k1] = Load("main", filter),
                                          ![k2] = Load("side", filter)]
         [] OTHER -> \E k \in free : calls' = [kept EXCEPT ![k] = Load("main", filter)]
    /\ UNCHANGED server

\* The links of the side bar, and those of the rows on screen.
Linked(place) ==
    LET cards == IF at = "documents" THEN ui.main ELSE ui.side IN
    \/ place \in Tops
    \/ /\ at = "courses" /\ ui.main.status = "ready"
       /\ place \in {c \in Course : Present(ui.main.data[c])}
    \/ /\ at \in {"documents"} \cup Course /\ Onscreen /\ cards.status = "ready"
       /\ \E d \in Doc : /\ Present(cards.data[d])
                         /\ place = d \/ place \in Course \cap {cards.data[d].course}

Navigate(place) ==
    /\ place # at /\ Linked(place) /\ clicks < MaxClicks
    /\ clicks' = clicks + 1
    /\ \/ Mount(place, None)
       \/ place = "documents" /\ at \in Course /\ Onscreen /\ Mount(place, at)

\* A push to the page that is mounted only resets its filter.
Arrive ==
    /\ going # None /\ UNCHANGED clicks
    /\ \/ going # at /\ Mount(going, None)
       \/ going = at /\ ui.filter = None /\ going' = None
          /\ UNCHANGED <<server, at, ui, calls, doubt>>
       \/ going = at /\ ui.filter # None /\ going' = None
          /\ \E k \in Call : SetFilter(k, None)

\* A course, and a document in it that has been processed; the address of any page may
\* be opened directly.
Init ==
    /\ \E c \in Course, n \in Name, d \in Doc :
          /\ courses = [x \in Course |-> IF x = c THEN n ELSE Unborn]
          /\ docs = [x \in Doc |-> IF x = d THEN c ELSE Unborn]
          /\ settled = {d}
          /\ at \in {"dashboard", "courses", "documents", c, d}
    /\ ui = Blank /\ going = None
    /\ clicks = 0 /\ doubt = {}
    /\ \E k1, k2 \in Call :
          LET Opening(part) == [op |-> "load", item |-> None, value |-> None, params |-> None,
                                part |-> part, step |-> "read", answer |-> "none",
                                data |-> None, push |-> None, mine |-> TRUE] IN
          /\ k1 # k2
          /\ calls = [k \in Call |-> IF k = k1 THEN Opening("main")
                                    ELSE IF k = k2 /\ at \in Course THEN Opening("side")
                                    ELSE None]

DashboardNext == at = "dashboard" /\ \E k \in Call : LoadDone(k)

Next ==
    \/ \E k \in Call : ServeRead(k) \/ ServeChange(k) \/ Overdue(k)
    \/ \E d \in Doc : Settle(d)
    \/ DashboardNext \/ CoursesNext \/ DocumentsNext \/ WorkspaceNext \/ DetailNext
    \/ \E place \in Places : Navigate(place)
    \/ Arrive

Spec == Init /\ [][Next]_vars

-----------------------------------------------------------------------------
(* Properties *)

DocRows == [course : Course \cup {NoCourse}, settled : BOOLEAN]
Rows == [Course -> Name \cup {Unborn, Gone}] \cup [Doc -> DocRows \cup {Gone}] \cup Name \cup DocRows

View == [status : {"loading", "ready", "error"}, data : Rows \cup {None}, for : Course \cup {None}]

Ops == {"create", "update", "upload", "edit", "chat", "delete"}

Screen == [main : View, side : View, form : {"closed", "create"} \cup Course \cup Doc,
           target : Course \cup Doc \cup {None}, deleting : Course \cup Doc \cup {None},
           pending : SUBSET Ops, errors : SUBSET Ops, file : BOOLEAN, filter : Course \cup {None}]

Sent == [op : Ops \cup {"load", "refresh"}, item : Course \cup Doc \cup {None, "create"},
         value : Name \cup Course \cup {NoCourse, None}, params : Course \cup {None},
         part : {"main", "side"}, step : {"change", "read"}, answer : {"none", "ok", "failed"},
         data : Rows \cup {None}, push : Tops \cup {None}, mine : BOOLEAN]

ASSUME NoneIsNoCall == None \notin Sent

\* Every variable keeps its type: what PageCalls.tla says each of them is.
TypeOK ==
    /\ courses \in [Course -> Name \cup {Unborn, Gone}]
    /\ docs \in [Doc -> Course \cup {NoCourse, Unborn, Gone}]
    /\ settled \subseteq Doc
    /\ at \in Places /\ going \in Tops \cup {None}
    /\ ui \in Screen
    /\ calls \in [Call -> Sent \cup {None}]
    /\ clicks \in 0 .. MaxClicks
    /\ doubt \subseteq {"main", "side"}

\* A button that says Saving..., Creating..., Uploading... or Deleting... is disabled
\* exactly while one such handler of the page is waiting, and never two: no page sends
\* the same save or deletion twice.  (createPending, updatePending, uploading, isUpdating,
\* isCreatingChat, deletingId, deletePending; isConfirmingDelete stays set once the page
\* is leaving.  editingId does not: see EditingMarksPatch.)
FlagsTellTheTruth ==
    /\ \A op \in {"create", "update", "upload", "chat"} \cup (IF at \in Doc THEN {"edit"} ELSE {}) :
          Cardinality(Mine(op)) = IF op \in ui.pending THEN 1 ELSE 0
    /\ Cardinality(Mine("delete")) <= 1
    /\ \A k \in Mine("delete") : ui.deleting = calls[k].item
    /\ ui.deleting # None => Mine("delete") # {} \/ (at \in Doc /\ ~Present(docs[at]))

\* A page that shows a loader is waiting for an answer that will replace it
\* (CoursesPanel refresh, the effect of DocumentsPanel, loadCourse of CourseWorkspace).
LoadersEnd ==
    /\ ui.main.status = "loading" /\ at # "chat" =>
          \E k \in Call : /\ calls[k] # None /\ calls[k].mine /\ calls[k].step = "read"
                          /\ calls[k].part = "main"
    /\ ui.side.status = "loading" /\ at \in Course =>
          \E k \in Mine("load") \cup Mine("refresh") : calls[k].part = "side"

\* At rest a page shows what is on the server, whatever its handlers have changed and in
\* whatever order the answers came, unless it is known to be out of date: an older list
\* overtook a newer one, the answer to a change was lost, the list after a change failed,
\* or a change sent from the page before arrived later.  Of a document's status it shows
\* no more than that: it may be behind, since no page asks again by itself, but a
\* document is never shown as processed before it is.
QuietPagesAreCurrent ==
    LET quiet == going = None /\ \A k \in Call : calls[k] = None \/ ~calls[k].mine
        Current(part, view) ==
            view.status = "ready" /\ part \notin doubt
                => AsRead(view.data, [part |-> part, params |-> view.for])
    IN quiet => Current("main", ui.main) /\ (at \in Course => Current("side", ui.side))

\* The load that a filter starts never puts the documents of another filter on screen,
\* however late the loads of earlier filters are answered (DocumentsPanel 159-178).
FilterLoadsAreCurrent ==
    [][\A k \in Call :
          /\ at = "documents" /\ at' = at
          /\ k \in Mine("load") /\ calls'[k] = None /\ ui'.main.status = "ready"
          /\ ui'.main # ui.main
          => ui'.main.for = ui'.filter]_vars

\* While a row is being deleted the delete dialog cannot be cancelled: whatever row it
\* asks about by then, it closes only once the one being deleted has gone, and it is
\* never turned back to that one (CoursesPanel 137-163, DocumentsPanel 246-284).  It can
\* be turned to another row: the backdrop stops the mouse, but nothing keeps the focus
\* inside the dialog, so the buttons of the rows behind it can be reached with the
\* keyboard; the end of the deletion then closes the dialog about that other row.
DialogClosesWhenGone ==
    [][ui.target # None /\ ui.deleting # None /\ at' = at /\ ui'.target # ui.target
       => IF ui'.target = None THEN ~Present(IF ui.deleting \in Course THEN courses'[ui.deleting]
                                                     ELSE docs'[ui.deleting])
          ELSE ui'.target # ui.deleting]_vars

-----------------------------------------------------------------------------
(* What the repository's own words say, and the code does not keep: README,   *)
(* "Where the code and its words part".                                       *)

\* DocumentsPanel.tsx 247: editingId "marks the in-flight PATCH".
EditingMarksPatch ==
    at = "documents" =>
        \A k \in Mine("edit") : calls[k].step = "change" => "edit" \in ui.pending
=============================================================================
