---------------------------- MODULE PagesProofs ----------------------------
(***************************************************************************)
(* The safety of Pages for any number of courses, documents, names, calls  *)
(* in flight and clicks, any order of the answers and any failures.        *)
(*                                                                         *)
(* What makes it inductive: every call the mounted page waits for is one   *)
(* of that page's (CallsFit), dialogs are about its own rows (ScreenFits), *)
(* the row of a confirmed deletion is gone for good (DeletedIsGone), and a *)
(* part of the screen that nothing has gone past may differ from what is   *)
(* stored only while a handler of the page is ahead of it (Fresh): its     *)
(* change is made and the list that will show it has not come.             *)
(***************************************************************************)
EXTENDS Pages, TLAPS, FiniteSetTheorems

USE DEF server

\* What any call carries.
Fits(c) ==
    /\ c.op \in {"load", "refresh"} => c.step = "read" /\ c.mine
    /\ c.op \in Ops => c.part = "main"
    /\ c.op = "create" => c.value \in Name
    /\ c.op = "update" => c.item \in Course /\ c.value \in Name
    /\ c.op = "edit" => c.item \in Doc /\ c.value \in Course \cup {NoCourse}
    /\ c.op = "delete" => c.item \in Course \cup Doc
    /\ c.op = "chat" => c.item \in Doc

\* What a call of the mounted page may be.
OfPage(c) ==
    /\ at = "dashboard" => c.op = "load"
    /\ at = "courses" => c.op \in {"load", "refresh", "create", "update", "delete"} /\ c.push = None
    /\ at = "documents" => c.op \in {"load", "refresh", "upload", "edit", "delete"} /\ c.push = None
    /\ at \in Course => /\ c.op \in {"load", "refresh", "update", "delete"}
                        /\ c.op = "delete" => c.step = "change" /\ c.push # None /\ c.item = at
    /\ at \in Doc => /\ c.op \in {"load", "edit", "chat", "delete"}
                     /\ c.op # "load" => c.step = "change" /\ c.item = at
                     /\ c.op \in {"chat", "delete"} => c.push # None
    /\ at # "chat"

CallsFit ==
    \A k \in Call : calls[k] # None => Fits(calls[k]) /\ (calls[k].mine => OfPage(calls[k]))

\* The rows a page has dialogs for.
Own == {i \in Course : at \in {"courses", i}} \cup {i \in Doc : at \in {"documents", i}}

ScreenFits ==
    /\ ui.form \in Own \cup {"closed"} \/ (at = "courses" /\ ui.form = "create")
    /\ ui.target \in Own \cup {None} /\ ui.deleting \in Own \cup {None}

Erased(i) == IF i \in Course THEN courses[i] = Gone ELSE docs[i] = Gone

DeletedIsGone ==
    \A k \in Call :
        calls[k] # None /\ calls[k].op = "delete" /\ (calls[k].step = "read" \/ calls[k].answer = "ok")
            => Erased(calls[k].item)

\* A call whose answer ends the loader of the main part, and of the side part.
EndsMain(c) ==
    /\ c # None /\ c.mine /\ c.step = "read" /\ c.part = "main"
    /\ c.op \in {"load", "refresh"} \/ (at \in Course /\ c.op = "update")
EndsSide(c) == c # None /\ c.mine /\ c.op \in {"load", "refresh"} /\ c.part = "side"

LoadersWait ==
    /\ ui.main.status = "loading" /\ at # "chat" => \E k \in Call : EndsMain(calls[k])
    /\ ui.side.status = "loading" /\ at \in Course => \E k \in Call : EndsSide(calls[k])

\* The operations whose flag is exact, on this page.
Flagged == {"create", "update", "upload", "chat"} \cup (IF at \in Doc THEN {"edit"} ELSE {})
IsMine(c, op) == c # None /\ c.mine /\ c.op = op

FlagsExact ==
    /\ \A op \in Flagged : op \in ui.pending <=> \E k \in Call : IsMine(calls[k], op)
    /\ \A op \in Flagged \cup {"delete"} : \A j, k \in Call :
          IsMine(calls[j], op) /\ IsMine(calls[k], op) => j = k
    /\ \A k \in Call : IsMine(calls[k], "delete") => ui.deleting = calls[k].item
    /\ ui.deleting # None =>
          (\E k \in Call : IsMine(calls[k], "delete")) \/ (at \in Doc /\ docs[at] = Gone)

\* Only /documents has a filter, and what it loads is under the filter that is set.
LoadsFilter ==
    /\ ui.filter # None => at = "documents"
    /\ at = "documents" => \A k \in Call : IsMine(calls[k], "load") => calls[k].params = ui.filter

\* A handler whose change is made and not yet shown.
Ahead(c, ops) == c # None /\ c.mine /\ c.op \in ops /\ (c.step = "read" \/ c.answer = "ok")

Leaving == at \in Course \cup Doc /\ going # None

\* What `part` shows is what is stored, unless something is known to have gone past it.
Shows(part, view) ==
    view.status = "ready" /\ part \notin doubt
        => AsRead(view.data, [part |-> part, params |-> view.for])

Fresh ==
    ~Leaving =>
        /\ (\A k \in Call : ~Ahead(calls[k], Ops)) => Shows("main", ui.main)
        /\ at \in Course /\ (\A k \in Call : ~Ahead(calls[k], {"delete"})) => Shows("side", ui.side)

IInv == /\ TypeOK
        /\ CallsFit
        /\ ScreenFits
        /\ DeletedIsGone
        /\ LoadersWait
        /\ FlagsExact
        /\ LoadsFilter
        /\ Fresh

-----------------------------------------------------------------------------
(* Types                                                                      *)

\* A request is a call, and its fields are what it was made with.
LEMMA RequestFields ==
    ASSUME TypeOK, NEW op \in Ops \cup {"load", "refresh"}, NEW i \in Course \cup Doc \cup {None, "create"},
           NEW v \in Name \cup Course \cup {NoCourse, None}, NEW p \in Tops \cup {None}
    PROVE  /\ Request(op, i, v, p) \in Sent
           /\ Request(op, i, v, p).op = op /\ Request(op, i, v, p).item = i
           /\ Request(op, i, v, p).value = v /\ Request(op, i, v, p).push = p
           /\ Request(op, i, v, p).mine /\ Request(op, i, v, p).part = "main"
           /\ Request(op, i, v, p).answer = "none"
           /\ Request(op, i, v, p).step = IF op \in {"load", "refresh"} THEN "read" ELSE "change"
  BY DEF Request, Sent, TypeOK, Screen, Ops

\* A refresh is.
LEMMA RefreshFields ==
    ASSUME TypeOK
    PROVE  LET c == Request("refresh", None, None, None) IN
           c \in Sent /\ c.op = "refresh" /\ c.mine /\ c.answer = "none" /\ c.step = "read"
           /\ c.part = "main" /\ c.push = None
  BY DEF Request, Sent, TypeOK, Screen, Ops

\* So is the load of a page.
LEMMA LoadFields ==
    ASSUME TypeOK, NEW part \in {"main", "side"}, NEW f \in Course \cup {None}
    PROVE  /\ Load(part, f) \in Sent
           /\ Load(part, f).op = "load" /\ Load(part, f).part = part /\ Load(part, f).params = f
           /\ Load(part, f).mine /\ Load(part, f).step = "read" /\ Load(part, f).answer = "none"
           /\ Load(part, f).push = None
  BY DEF Load, Request, Sent, TypeOK, Screen, Ops

\* What a GET returns are rows, or one of them.
LEMMA ReadingType ==
    ASSUME TypeOK, NEW c \in Sent, Reading(c) \notin {Unborn, Gone}
    PROVE  Reading(c) \in Rows
  <1>1. \A d \in Doc : Row(d, settled) \in DocRows \cup {Gone}
    BY DEF Row, DocRows, TypeOK, Present
  <1>2. ASSUME NEW f PROVE Matching(f, settled) \in [Doc -> DocRows \cup {Gone}]
    BY <1>1 DEF Matching
  <1>3. CASE c.part = "side" BY <1>2, <1>3 DEF Reading, ReadingAt, Rows
  <1>4. CASE c.part # "side" /\ at = "courses"
    <2>1. Reading(c) = courses BY <1>4, PlacesApart DEF Reading, ReadingAt, Tops
    <2> QED BY <2>1 DEF Rows, TypeOK
  <1>5. CASE c.part # "side" /\ at \in Course
    BY <1>5, PlacesApart DEF Reading, ReadingAt, Rows, TypeOK, Tops
  <1>6. CASE c.part # "side" /\ at \in Doc
    BY <1>1, <1>6, PlacesApart DEF Reading, ReadingAt, Rows, Tops
  <1>7. CASE c.part # "side" /\ at # "courses" /\ at \notin Course /\ at \notin Doc
    BY <1>2, <1>7 DEF Reading, ReadingAt, Rows
  <1> QED BY <1>3, <1>4, <1>5, <1>6, <1>7

\* What a GET returns is read off the rows: it changes only when they do.
LEMMA RowsKept ==
    ASSUME UNCHANGED <<courses, docs, at>>, NEW c, NEW done
    PROVE  ReadingAt(c, done)' = ReadingAt(c, done)
  <1>1. \A f : Matching(f, done)' = Matching(f, done) BY DEF Matching, Row
  <1> QED BY <1>1 DEF ReadingAt, Row

\* So what is as a GET would return it stays so.
LEMMA AsReadKept ==
    ASSUME UNCHANGED <<courses, docs, settled, at>>, NEW data, NEW c
    PROVE  AsRead(data, c)' = AsRead(data, c)
  BY RowsKept DEF AsRead

\* The side part of a course's page does not read the courses.
LEMMA SideKept ==
    ASSUME UNCHANGED <<docs, settled, at>>, NEW data, NEW c, c.part = "side"
    PROVE  AsRead(data, c)' = AsRead(data, c)
  <1>1. \A f, done : Matching(f, done)' = Matching(f, done) BY DEF Matching, Row
  <1> QED BY <1>1 DEF AsRead, ReadingAt

\* The rows keep their type under a change.
LEMMA ApplyType ==
    ASSUME TypeOK, NEW c \in Sent, Fits(c), c.op \in Ops, Apply(c)
    PROVE  /\ courses' \in [Course -> Name \cup {Unborn, Gone}]
           /\ docs' \in [Doc -> Course \cup {NoCourse, Unborn, Gone}]
  <1>1. CASE c.op = "create" BY <1>1 DEF Apply, TypeOK, Fits
  <1>2. CASE c.op = "update" BY <1>2 DEF Apply, TypeOK, Fits
  <1>3. CASE c.op = "delete" /\ c.item \in Course BY <1>3, PlacesApart DEF Apply, TypeOK, Fits
  <1>4. CASE c.op = "delete" /\ c.item \in Doc BY <1>4, PlacesApart DEF Apply, TypeOK, Fits
  <1>5. CASE c.op = "upload" BY <1>5 DEF Apply, TypeOK, Fits
  <1>6. CASE c.op = "edit" BY <1>6 DEF Apply, TypeOK, Fits
  <1>7. CASE c.op = "chat" BY <1>7 DEF Apply, TypeOK, Fits, server
  <1> QED BY <1>1, <1>2, <1>3, <1>4, <1>5, <1>6, <1>7 DEF Ops, Fits

-----------------------------------------------------------------------------
(* Clicks that send nothing, and clicks that send a call                      *)

\* What is opened, closed or chosen disturbs nothing but the dialogs.
LEMMA LookKeeps ==
    ASSUME IInv, Look, ui' \in Screen, ScreenFits',
           ui'.main = ui.main, ui'.side = ui.side, ui'.deleting = ui.deleting,
           ui'.pending = ui.pending, ui'.filter = ui.filter
    PROVE  IInv'
  <1> USE DEF IInv, Look
  <1>1. TypeOK' BY DEF TypeOK
  <1>2. CallsFit' BY DEF CallsFit, OfPage, Fits
  <1>3. DeletedIsGone' BY DEF DeletedIsGone, Erased
  <1>4. LoadersWait' BY DEF LoadersWait, EndsMain, EndsSide
  <1>5. FlagsExact' BY DEF FlagsExact, IsMine, Flagged
  <1>6. LoadsFilter' BY DEF LoadsFilter, IsMine
  <1>7. Fresh' BY AsReadKept DEF Fresh, Shows, Ahead, Leaving
  <1> QED BY <1>1, <1>2, <1>3, <1>4, <1>5, <1>6, <1>7

\* A call that is sent fits the page, and the slots of the others are untouched.
LEMMA StartCalls ==
    ASSUME IInv, NEW k \in Call, NEW c \in Sent, Start(k, c), Fits(c), OfPage(c),
           c.mine, c.answer = "none", c.op # "load", c.op = "refresh" \/ c.step = "change",
           ui' \in Screen, ScreenFits', ui'.filter = ui.filter
    PROVE  /\ TypeOK' /\ CallsFit' /\ DeletedIsGone' /\ LoadsFilter'
           /\ calls'[k] = c /\ \A j \in Call \ {k} : calls'[j] = calls[j]
           /\ \A ops \in SUBSET Ops : \A j \in Call : Ahead(calls[j], ops) = Ahead(calls'[j], ops)
  <1> USE DEF IInv, Start
  <1>1. calls'[k] = c /\ \A j \in Call \ {k} : calls'[j] = calls[j] BY DEF TypeOK
  <1>2. TypeOK' BY ClicksBound DEF TypeOK
  <1>3. CallsFit' BY <1>1 DEF CallsFit, OfPage, Fits
  <1>4. DeletedIsGone' BY <1>1 DEF DeletedIsGone, Erased
  <1>5. LoadsFilter' BY <1>1 DEF LoadsFilter, IsMine
  <1>6. \A ops \in SUBSET Ops : \A j \in Call : Ahead(calls[j], ops) = Ahead(calls'[j], ops)
    BY <1>1 DEF Ahead, Ops
  <1> QED BY <1>1, <1>2, <1>3, <1>4, <1>5, <1>6

\* A save, an upload or a new chat is sent: its flag was off and goes on.
LEMMA ChangeKeeps ==
    ASSUME IInv, NEW k \in Call, NEW c \in Sent, Start(k, c), Fits(c), OfPage(c),
           c.mine, c.answer = "none", c.step = "change", c.op \in Ops \ {"delete"},
           c.op \notin ui.pending, ui' \in Screen, ScreenFits',
           ui'.main = ui.main, ui'.side = ui.side, ui'.deleting = ui.deleting,
           ui'.pending = ui.pending \cup {c.op}, ui'.filter = ui.filter
    PROVE  IInv'
  <1> USE DEF IInv
  <1>1. /\ TypeOK' /\ CallsFit' /\ DeletedIsGone' /\ LoadsFilter'
        /\ calls'[k] = c /\ \A j \in Call \ {k} : calls'[j] = calls[j]
        /\ \A ops \in SUBSET Ops : \A j \in Call : Ahead(calls[j], ops) = Ahead(calls'[j], ops)
    BY StartCalls DEF Ops
  <1>2. at' = at /\ going' = going /\ courses' = courses /\ docs' = docs /\ settled' = settled /\ doubt' = doubt
        /\ calls[k] = None /\ c # None
    BY NoneIsNoCall DEF Start
  <1>3. LoadersWait' BY <1>1, <1>2 DEF LoadersWait, EndsMain, EndsSide
  <1>4. FlagsExact' BY <1>1, <1>2 DEF FlagsExact, IsMine, Flagged, Ops
  <1>5. Fresh'
    <2>1. {"delete"} \in SUBSET Ops BY DEF Ops
    <2> QED BY <1>1, <1>2, <2>1, AsReadKept DEF Fresh, Shows, Leaving
  <1> QED BY <1>1, <1>3, <1>4, <1>5

\* A deletion is sent: none was, and the dialog is about the row it deletes.
LEMMA DeleteKeeps ==
    ASSUME IInv, NEW k \in Call, NEW p \in Tops \cup {None}, ConfirmDelete(k, p),
           at \in {"courses", "documents"} => p = None,
           at \in Course \cup Doc => p # None
    PROVE  IInv'
  <1> DEFINE c == Request("delete", ui.target, None, p)
  <1> USE DEF IInv
  <1>1. /\ Start(k, c) /\ ui.target # None /\ ui.deleting = None
        /\ ui' = [ui EXCEPT !.deleting = ui.target, !.errors = @ \ {"delete"}]
    BY DEF ConfirmDelete
  <1>2. ui.target \in Own /\ Own \subseteq Course \cup Doc
    BY <1>1 DEF ScreenFits, Own
  <1>3. /\ c \in Sent /\ c.op = "delete" /\ c.item = ui.target /\ c.push = p /\ c.mine
        /\ c.part = "main" /\ c.answer = "none" /\ c.step = "change"
    <2>1. /\ "delete" \in Ops \cup {"load", "refresh"} /\ ui.target \in Course \cup Doc \cup {None, "create"}
          /\ None \in Name \cup Course \cup {NoCourse, None}
      BY <1>2 DEF Ops
    <2> QED BY <2>1, RequestFields
  <1> HIDE DEF c
  <1>4. Fits(c) BY <1>2, <1>3 DEF Fits, Ops
  <1>5. OfPage(c)
    BY <1>2, <1>3, PlacesApart DEF OfPage, Own, TypeOK, Tops
  <1>6. /\ ui' \in Screen /\ ui'.main = ui.main /\ ui'.side = ui.side /\ ui'.form = ui.form
        /\ ui'.target = ui.target /\ ui'.deleting = ui.target
        /\ ui'.pending = ui.pending /\ ui'.filter = ui.filter
    BY <1>1 DEF TypeOK, Screen
  <1>7. at' = at /\ going' = going /\ courses' = courses /\ docs' = docs /\ settled' = settled /\ doubt' = doubt
        /\ calls[k] = None /\ c # None
    BY <1>1, <1>3, NoneIsNoCall DEF Start
  <1>8. ScreenFits' BY <1>6, <1>7 DEF ScreenFits, Own
  <1>9. /\ TypeOK' /\ CallsFit' /\ DeletedIsGone' /\ LoadsFilter'
        /\ calls'[k] = c /\ \A j \in Call \ {k} : calls'[j] = calls[j]
        /\ \A ops \in SUBSET Ops : \A j \in Call : Ahead(calls[j], ops) = Ahead(calls'[j], ops)
    BY <1>1, <1>3, <1>4, <1>5, <1>6, <1>8, StartCalls
  <1>10. LoadersWait' BY <1>6, <1>7, <1>9 DEF LoadersWait, EndsMain, EndsSide
  <1>11. FlagsExact'
    <2>1. \A j \in Call : ~IsMine(calls[j], "delete")
      BY <1>1, <1>2, NoneOfThem DEF FlagsExact, CallsFit, Fits, IsMine
    <2> QED BY <1>2, <1>3, <1>6, <1>7, <1>9, <2>1 DEF FlagsExact, IsMine, Flagged
  <1>12. Fresh'
    <2>1. {"delete"} \in SUBSET Ops BY DEF Ops
    <2> QED BY <1>6, <1>7, <1>9, <2>1, AsReadKept DEF Fresh, Shows, Leaving
  <1> QED BY <1>8, <1>9, <1>10, <1>11, <1>12

\* A refresh is sent: what shows the loader waits for it.
LEMMA RefreshKeeps ==
    ASSUME IInv, NEW k \in Call, NEW c \in Sent, Start(k, c), OfPage(c),
           c.op = "refresh", c.mine, c.answer = "none", c.step = "read",
           ui' = IF c.part = "main" THEN [ui EXCEPT !.main = Loading] ELSE [ui EXCEPT !.side = Loading]
    PROVE  IInv'
  <1> USE DEF IInv
  <1>1. /\ ui' \in Screen /\ ui'.form = ui.form /\ ui'.target = ui.target
        /\ ui'.deleting = ui.deleting /\ ui'.pending = ui.pending /\ ui'.filter = ui.filter
    BY DEF TypeOK, Screen, View, Loading
  <1>2. at' = at /\ going' = going /\ courses' = courses /\ docs' = docs /\ settled' = settled /\ doubt' = doubt
        /\ calls[k] = None /\ c # None
    BY NoneIsNoCall DEF Start
  <1>3. ScreenFits' BY <1>1, <1>2 DEF ScreenFits, Own
  <1>4. Fits(c) BY DEF Fits, Ops
  <1>5. /\ TypeOK' /\ CallsFit' /\ DeletedIsGone' /\ LoadsFilter'
        /\ calls'[k] = c /\ \A j \in Call \ {k} : calls'[j] = calls[j]
        /\ \A ops \in SUBSET Ops : \A j \in Call : Ahead(calls[j], ops) = Ahead(calls'[j], ops)
    BY <1>1, <1>3, <1>4, StartCalls
  <1>6. IF c.part = "main" THEN ui'.main = Loading /\ ui'.side = ui.side
        ELSE ui'.side = Loading /\ ui'.main = ui.main /\ c.part = "side"
    BY DEF TypeOK, Screen, Sent
  <1>7. LoadersWait' BY <1>2, <1>5, <1>6 DEF LoadersWait, EndsMain, EndsSide
  <1>8. FlagsExact' BY <1>1, <1>2, <1>5 DEF FlagsExact, IsMine, Flagged
  <1>9. Fresh'
    <2>1. {"delete"} \in SUBSET Ops BY DEF Ops
    <2> QED BY <1>2, <1>5, <1>6, <2>1, AsReadKept DEF Fresh, Shows, Leaving, Loading
  <1> QED BY <1>3, <1>5, <1>7, <1>8, <1>9

\* Everything the user opens, closes, chooses or cancels on a page.
Opens ==
    \/ at = "courses" /\ \/ OpenCreate \/ CloseForm \/ CancelDelete
                         \/ \E c \in Course : OpenEdit(c) \/ (CourseShown(c) /\ RequestDelete(c))
    \/ at = "documents" /\ \/ SelectFile \/ CancelUpload \/ CancelEdit \/ CancelDelete
                           \/ \E d \in Doc : OpenEditDialog(d) \/ (DocShown(d) /\ RequestDelete(d))
    \/ at \in Course /\ (ToggleEdit \/ (Onscreen /\ (RequestDelete(at) \/ CancelDelete)))
    \/ at \in Doc /\ \/ OpenDetailEdit \/ CancelDetailEdit \/ CancelDelete
                     \/ Onscreen /\ RequestDelete(at)

\* A click that only opens or closes something keeps the invariant.
LEMMA OpensKeep == ASSUME IInv, Opens PROVE IInv'
  <1> USE DEF IInv
  <1>1. ui \in Screen /\ at \in Places BY DEF TypeOK
  <1> DEFINE Kept == /\ ui' \in Screen
                     /\ ui'.main = ui.main /\ ui'.side = ui.side /\ ui'.deleting = ui.deleting
                     /\ ui'.pending = ui.pending /\ ui'.filter = ui.filter
             Dialogs == /\ ui'.form \in Own \cup {"closed"} \/ (at = "courses" /\ ui'.form = "create")
                        /\ ui'.target \in Own \cup {None}
  <1>2. Look /\ Kept /\ Dialogs
    <2>1. CASE at = "courses" /\ OpenCreate
      BY <2>1, <1>1 DEF OpenCreate, Screen, ScreenFits, Look
    <2>0. CASE CloseForm
      BY <2>0, <1>1 DEF CloseForm, Screen, ScreenFits, Look
    <2>2. CASE CancelDelete
      BY <2>2, <1>1 DEF CancelDelete, Screen, ScreenFits, Look
    <2>3. CASE \E c \in Own \cap (Course \cup Doc) : RequestDelete(c)
      BY <2>3, <1>1 DEF RequestDelete, Screen, ScreenFits, Look
    <2>4. CASE at = "courses" /\ \E c \in Course : OpenEdit(c)
      BY <2>4, <1>1 DEF OpenEdit, Screen, ScreenFits, Look, Own
    <2>5. CASE at = "documents" /\ \E d \in Doc : OpenEditDialog(d)
      BY <2>5, <1>1 DEF OpenEditDialog, Screen, ScreenFits, Look, Own
    <2>6. CASE SelectFile \/ CancelUpload
      BY <2>6, <1>1 DEF SelectFile, CancelUpload, Screen, ScreenFits, Look
    <2>7. CASE CancelEdit \/ CancelDetailEdit
      BY <2>7, <1>1 DEF CancelEdit, CancelDetailEdit, Screen, ScreenFits, Look
    <2>8. CASE at \in Course /\ ToggleEdit
      BY <2>8, <1>1 DEF ToggleEdit, Screen, ScreenFits, Look, Own
    <2>9. CASE at \in Doc /\ OpenDetailEdit
      BY <2>9, <1>1 DEF OpenDetailEdit, Screen, ScreenFits, Look, Own
    <2> QED BY <2>0, <2>1, <2>2, <2>3, <2>4, <2>5, <2>6, <2>7, <2>8, <2>9 DEF Opens, Own
  <1>3. ScreenFits' BY <1>2 DEF ScreenFits, Own, Look
  <1> QED BY <1>2, <1>3, LookKeeps

\* Everything a page sends.
Sends(k) ==
    \/ at = "courses" /\ \/ RefreshCourses(k) \/ ConfirmDelete(k, None)
                         \/ \E n \in Name : SubmitCourse(k, n)
    \/ at = "documents" /\ \/ RefreshDocs(k) \/ ConfirmUpload(k) \/ ConfirmDelete(k, None)
                           \/ \E v \in Course \cup {NoCourse} : SubmitEdit(k, v)
    \/ at \in Course /\ \/ RefreshSide(k) \/ (Onscreen /\ ConfirmDelete(k, "courses"))
                        \/ \E n \in Name : SubmitName(k, n)
    \/ at \in Doc /\ \/ StartChat(k) \/ ConfirmDelete(k, "documents")
                     \/ \E v \in Course \cup {NoCourse} : SubmitDetailEdit(k, v)

\* A click that sends a request keeps the invariant.
LEMMA SendsKeep == ASSUME IInv, NEW k \in Call, Sends(k) PROVE IInv'
  <1> USE DEF IInv
  <1>1. ui \in Screen /\ at \in Places BY DEF TypeOK
  <1>a. None \in Name \cup Course \cup {NoCourse, None} /\ None \in Course \cup Doc \cup {None, "create"}
        /\ None \in Tops \cup {None} /\ "chat" \in Tops \cup {None}
        /\ {"create", "update", "upload", "edit", "chat"} \subseteq Ops \ {"delete"}
    BY DEF Tops, Ops
  <1>2. CASE \/ at = "courses" /\ RefreshCourses(k)
             \/ at = "documents" /\ RefreshDocs(k)
    <2> DEFINE c == Request("refresh", None, None, None)
    <2>1. c \in Sent /\ c.op = "refresh" /\ c.mine /\ c.answer = "none" /\ c.step = "read"
          /\ c.part = "main" /\ c.push = None
      BY RefreshFields
    <2>2. Start(k, c) /\ ui' = [ui EXCEPT !.main = Loading]
      BY <1>2 DEF RefreshCourses, RefreshDocs
    <2> HIDE DEF c
    <2>3. OfPage(c) BY <1>2, <2>1, PlacesApart DEF OfPage, Tops
    <2> QED BY <2>1, <2>2, <2>3, RefreshKeeps
  <1>3. CASE at \in Course /\ RefreshSide(k)
    <2> DEFINE r == Request("refresh", None, None, None)
               c == [r EXCEPT !.part = "side"]
    <2>1. r \in Sent /\ r.op = "refresh" /\ r.mine /\ r.answer = "none" /\ r.step = "read"
      BY RefreshFields
    <2>2. Start(k, c) /\ ui' = [ui EXCEPT !.side = Loading]
      BY <1>3 DEF RefreshSide
    <2> HIDE DEF r
    <2>3. c \in Sent /\ c.op = "refresh" /\ c.mine /\ c.answer = "none" /\ c.step = "read"
          /\ c.part = "side"
      BY <2>1 DEF Sent
    <2> HIDE DEF c
    <2>4. OfPage(c) BY <1>3, <2>3, PlacesApart DEF OfPage, Tops
    <2> QED BY <2>2, <2>3, <2>4, RefreshKeeps
  <1>4. CASE at \in {"courses", "documents"} /\ ConfirmDelete(k, None)
    BY <1>4, DeleteKeeps, PlacesApart DEF Tops
  <1>5. CASE \/ at \in Course /\ ConfirmDelete(k, "courses")
             \/ at \in Doc /\ ConfirmDelete(k, "documents")
    BY <1>5, DeleteKeeps, PlacesApart, NoneOfThem DEF Tops
  <1>6. ASSUME NEW op \in Ops \ {"delete"}, NEW i \in Course \cup Doc \cup {None, "create"},
               NEW v \in Name \cup Course \cup {NoCourse, None}, NEW p \in Tops \cup {None},
               Start(k, Request(op, i, v, p)), op \notin ui.pending,
               ui' = [ui EXCEPT !.pending = @ \cup {op}, !.errors = @ \ {op}],
               op = "create" => v \in Name,
               op = "update" => i \in Course /\ v \in Name,
               op = "edit" => i \in Doc /\ v \in Course \cup {NoCourse},
               op = "chat" => i \in Doc,
               \/ at = "courses" /\ op \in {"create", "update"} /\ p = None
               \/ at = "documents" /\ op \in {"upload", "edit"} /\ p = None
               \/ at \in Course /\ op = "update"
               \/ at \in Doc /\ i = at /\ (op = "edit" \/ (op = "chat" /\ p # None))
        PROVE  IInv'
    <2> DEFINE c == Request(op, i, v, p)
    <2>1. /\ c \in Sent /\ c.op = op /\ c.item = i /\ c.value = v /\ c.push = p
          /\ c.mine /\ c.answer = "none" /\ c.part = "main"
          /\ c.step = IF op \in {"load", "refresh"} THEN "read" ELSE "change"
      BY <1>6, RequestFields
    <2>2. Start(k, c) BY <1>6
    <2> HIDE DEF c
    <2>3. Fits(c) /\ c.step = "change" BY <1>6, <2>1 DEF Fits, Ops
    <2>4. OfPage(c) BY <1>6, <2>1, <2>3, PlacesApart DEF OfPage, Tops
    <2>5. /\ ui' \in Screen /\ ui'.form = ui.form /\ ui'.target = ui.target
          /\ ui'.main = ui.main /\ ui'.side = ui.side /\ ui'.deleting = ui.deleting
          /\ ui'.pending = ui.pending \cup {op} /\ ui'.filter = ui.filter
      BY <1>1, <1>6 DEF Screen
    <2>6. ScreenFits' BY <2>2, <2>5 DEF ScreenFits, Own, Start
    <2> QED BY <2>1, <2>2, <2>3, <2>4, <2>5, <2>6, <1>6, ChangeKeeps
  <1>7. CASE at = "courses" /\ \E n \in Name : SubmitCourse(k, n)
    <2> PICK n \in Name : SubmitCourse(k, n) BY <1>7
    <2>1. ui.form # "closed" /\ (ui.form = "create" \/ ui.form \in Course)
      BY <1>7, PlacesApart DEF SubmitCourse, ScreenFits, Own, Tops
    <2>2. CASE ui.form = "create"
      BY <1>7, <2>1, <2>2, <1>6, <1>a DEF SubmitCourse, Ops
    <2>3. CASE ui.form # "create"
      BY <1>7, <2>1, <2>3, <1>6, <1>a DEF SubmitCourse, Ops
    <2> QED BY <2>2, <2>3
  <1>8. CASE at = "documents" /\ ConfirmUpload(k)
    BY <1>8, <1>6, <1>a DEF ConfirmUpload, Ops
  <1>9. CASE at = "documents" /\ \E v \in Course \cup {NoCourse} : SubmitEdit(k, v)
    <2>1. ui.form # "closed" => ui.form \in Doc
      BY <1>9, PlacesApart DEF ScreenFits, Own, Tops
    <2> QED BY <1>9, <2>1, <1>6, <1>a DEF SubmitEdit, Ops
  <1>10. CASE at \in Course /\ \E n \in Name : SubmitName(k, n)
    BY <1>10, <1>6, <1>a DEF SubmitName, Ops
  <1>11. CASE at \in Doc /\ StartChat(k)
    <2>1. at \in Course \cup Doc \cup {None, "create"} /\ "chat" # None
      BY <1>11, NoneOfThem DEF Tops
    <2>2. /\ Start(k, Request("chat", at, None, "chat")) /\ "chat" \notin ui.pending
          /\ ui' = [ui EXCEPT !.pending = @ \cup {"chat"}, !.errors = @ \ {"chat"}]
      BY <1>11 DEF StartChat
    <2> QED BY <1>11, <1>6, <1>a, <2>1, <2>2
  <1>12. CASE at \in Doc /\ \E v \in Course \cup {NoCourse} : SubmitDetailEdit(k, v)
    <2>1. at \in Course \cup Doc \cup {None, "create"}
      BY <1>12
    <2>2. PICK v \in Course \cup {NoCourse} : SubmitDetailEdit(k, v) BY <1>12
    <2>3. v \in Name \cup Course \cup {NoCourse, None} OBVIOUS
    <2>4. /\ Start(k, Request("edit", at, v, None)) /\ "edit" \notin ui.pending
          /\ ui' = [ui EXCEPT !.pending = @ \cup {"edit"}, !.errors = @ \ {"edit"}]
      BY <2>2 DEF SubmitDetailEdit
    <2>5. "edit" \in Ops \ {"delete"} /\ None \in Tops \cup {None} BY <1>a
    <2>6. "edit" # "create" /\ "edit" # "update" /\ "edit" # "chat" OBVIOUS
    <2> QED BY <1>12, <1>6, <2>1, <2>3, <2>4, <2>5, <2>6
  <1>13. CASE /\ at = "courses"
              /\ \/ RefreshCourses(k) \/ ConfirmDelete(k, None)
                 \/ \E n \in Name : SubmitCourse(k, n)
    BY <1>2, <1>4, <1>7, <1>13
  <1>14. CASE at = "documents" /\ \/ RefreshDocs(k) \/ ConfirmUpload(k) \/ ConfirmDelete(k, None)
                                  \/ \E v \in Course \cup {NoCourse} : SubmitEdit(k, v)
    BY <1>2, <1>4, <1>8, <1>9, <1>14
  <1>15. CASE /\ at \in Course
              /\ \/ RefreshSide(k) \/ (Onscreen /\ ConfirmDelete(k, "courses"))
                 \/ \E n \in Name : SubmitName(k, n)
    BY <1>3, <1>5, <1>10, <1>15
  <1>16. CASE at \in Doc /\ \/ StartChat(k) \/ ConfirmDelete(k, "documents")
                            \/ \E v \in Course \cup {NoCourse} : SubmitDetailEdit(k, v)
    BY <1>5, <1>11, <1>12, <1>16
  <1> QED BY <1>13, <1>14, <1>15, <1>16 DEF Sends

-----------------------------------------------------------------------------
(* The server                                                                 *)

\* A row that is gone stays gone, whatever change is made.
LEMMA ErasedStays ==
    ASSUME TypeOK, NEW c \in Sent, Fits(c), c.op \in Ops, Apply(c),
           NEW i \in Course \cup Doc, Erased(i)
    PROVE  Erased(i)'
  <1> USE NoneOfThem, PlacesApart DEF TypeOK, Fits, Erased, Present
  <1>1. CASE c.op = "create" BY <1>1 DEF Apply
  <1>2. CASE c.op = "update" BY <1>2 DEF Apply
  <1>3. CASE c.op = "delete" /\ c.item \in Course BY <1>3 DEF Apply
  <1>4. CASE c.op = "delete" /\ c.item \in Doc BY <1>4 DEF Apply
  <1>5. CASE c.op = "upload" BY <1>5 DEF Apply
  <1>6. CASE c.op = "edit" BY <1>6 DEF Apply
  <1>7. CASE c.op = "chat" BY <1>7 DEF Apply, server
  <1> QED BY <1>1, <1>2, <1>3, <1>4, <1>5, <1>6, <1>7 DEF Ops

\* The row of a deletion that is made is gone.
LEMMA DeleteErases ==
    ASSUME TypeOK, NEW c \in Sent, Fits(c), c.op = "delete", Apply(c)
    PROVE  Erased(c.item)'
  BY PlacesApart DEF TypeOK, Fits, Erased, Apply

\* Renaming a course touches no document.
LEMMA UpdateKeepsDocs == ASSUME NEW c, c.op = "update", Apply(c) PROVE docs' = docs
  BY DEF Apply

\* An answer changes nothing else of a call.
LEMMA AnswerCalls ==
    ASSUME IInv, NEW k \in Call, calls[k] # None,
           NEW a \in {"ok", "failed"}, NEW x \in Rows \cup {None},
           calls' = [calls EXCEPT ![k].answer = a, ![k].data = x]
    PROVE  /\ calls' \in [Call -> Sent \cup {None}]
           /\ \A j \in Call \ {k} : calls'[j] = calls[j]
           /\ calls[k] \in Sent /\ calls'[k] \in Sent /\ calls'[k] # None
           /\ calls'[k].op = calls[k].op /\ calls'[k].item = calls[k].item
           /\ calls'[k].value = calls[k].value /\ calls'[k].params = calls[k].params
           /\ calls'[k].part = calls[k].part /\ calls'[k].step = calls[k].step
           /\ calls'[k].push = calls[k].push /\ calls'[k].mine = calls[k].mine
           /\ calls'[k].answer = a
  <1>1. calls \in [Call -> Sent \cup {None}] /\ calls[k] \in Sent BY DEF IInv, TypeOK
  <1> DEFINE m == [calls EXCEPT ![k].answer = a]
             r == [calls[k] EXCEPT !.answer = a]
  <1>2. r \in Sent /\ m \in [Call -> Sent \cup {None}] /\ m[k] = r
        /\ \A j \in Call \ {k} : m[j] = calls[j]
    BY <1>1 DEF Sent
  <1>3. calls' = [m EXCEPT ![k].data = x] OBVIOUS
  <1>4. /\ r.op = calls[k].op /\ r.item = calls[k].item /\ r.value = calls[k].value
        /\ r.params = calls[k].params /\ r.part = calls[k].part /\ r.step = calls[k].step
        /\ r.push = calls[k].push /\ r.mine = calls[k].mine /\ r.answer = a
    BY <1>1 DEF Sent
  <1> HIDE DEF m, r
  <1>5. calls'[k] = [r EXCEPT !.data = x] /\ \A j \in Call \ {k} : calls'[j] = calls[j]
    BY <1>2, <1>3
  <1>6. calls'[k] \in Sent
    <2>1. r \in Sent BY <1>2
    <2>2. [r EXCEPT !.data = x] \in Sent BY <2>1 DEF Sent
    <2> QED BY <1>5, <2>2
  <1>7. calls' \in [Call -> Sent \cup {None}] BY <1>2, <1>3, <1>5, <1>6
  <1> QED BY <1>1, <1>2, <1>4, <1>5, <1>6, <1>7, NoneIsNoCall DEF Sent

\* What does not depend on answers.
LEMMA AnswerKeeps ==
    ASSUME IInv, NEW k \in Call, calls[k] # None,
           NEW a \in {"ok", "failed"}, NEW x \in Rows \cup {None},
           calls' = [calls EXCEPT ![k].answer = a, ![k].data = x],
           UNCHANGED <<at, going, ui, clicks>>,
           at \in Doc /\ docs[at] = Gone => docs'[at] = Gone
    PROVE  CallsFit' /\ ScreenFits' /\ LoadersWait' /\ FlagsExact' /\ LoadsFilter'
  <1>1. /\ \A j \in Call \ {k} : calls'[j] = calls[j]
        /\ calls'[k] # None
        /\ calls'[k].op = calls[k].op /\ calls'[k].item = calls[k].item
        /\ calls'[k].value = calls[k].value /\ calls'[k].params = calls[k].params
        /\ calls'[k].part = calls[k].part /\ calls'[k].step = calls[k].step
        /\ calls'[k].push = calls[k].push /\ calls'[k].mine = calls[k].mine
    BY AnswerCalls
  <1> USE DEF IInv
  <1>2. CallsFit'
    <2>1. Fits(calls[k]) /\ (calls[k].mine => OfPage(calls[k])) BY DEF CallsFit
    <2>2. Fits(calls[k])' BY <1>1, <2>1 DEF Fits
    <2>3. OfPage(calls[k]) => OfPage(calls[k])' BY <1>1 DEF OfPage
    <2>4. \A j \in Call \ {k} : Fits(calls[j])' = Fits(calls[j]) /\ OfPage(calls[j])' = OfPage(calls[j])
      BY <1>1 DEF Fits, OfPage
    <2> QED BY <1>1, <2>1, <2>2, <2>3, <2>4 DEF CallsFit
  <1>3. ScreenFits' BY DEF ScreenFits, Own
  <1>4. \A j \in Call : /\ EndsMain(calls[j]) => EndsMain(calls[j])'
                        /\ EndsSide(calls[j]) => EndsSide(calls[j])'
    BY <1>1 DEF EndsMain, EndsSide
  <1>5. LoadersWait' BY <1>4 DEF LoadersWait
  <1>6. \A j \in Call : \A op : IsMine(calls'[j], op) <=> IsMine(calls[j], op)
    BY <1>1 DEF IsMine
  <1>7. FlagsExact'
    <2>1. \A j \in Call : calls'[j].item = calls[j].item BY <1>1
    <2> QED BY <1>6, <2>1 DEF FlagsExact, Flagged
  <1>8. LoadsFilter' BY <1>1, <1>6 DEF LoadsFilter
  <1> QED BY <1>2, <1>3, <1>5, <1>7, <1>8

\* The server answering a read keeps the invariant.
LEMMA ServeReadKeeps == ASSUME IInv, NEW k \in Call, ServeRead(k) PROVE IInv'
  <1> USE DEF IInv
  <1>1. /\ calls[k] # None /\ calls[k].step = "read" /\ calls[k] \in Sent
        /\ UNCHANGED <<courses, docs, settled, at, going, ui, clicks, doubt>>
    BY DEF ServeRead, TypeOK
  <1>2. ASSUME NEW a \in {"ok", "failed"}, NEW x \in Rows \cup {None},
               calls' = [calls EXCEPT ![k].answer = a, ![k].data = x]
        PROVE  IInv'
    <2>1. /\ calls' \in [Call -> Sent \cup {None}]
          /\ \A j \in Call \ {k} : calls'[j] = calls[j]
          /\ calls'[k].op = calls[k].op /\ calls'[k].item = calls[k].item
          /\ calls'[k].step = calls[k].step /\ calls'[k].mine = calls[k].mine
          /\ calls'[k] # None
      BY <1>1, <1>2, AnswerCalls
    <2>2. TypeOK' BY <1>1, <2>1 DEF TypeOK
    <2>3. CallsFit' /\ ScreenFits' /\ LoadersWait' /\ FlagsExact' /\ LoadsFilter'
      BY <1>1, <1>2, AnswerKeeps
    <2>4. DeletedIsGone' BY <1>1, <2>1 DEF DeletedIsGone, Erased
    <2>5. \A ops \in SUBSET Ops : \A j \in Call : Ahead(calls'[j], ops) <=> Ahead(calls[j], ops)
      BY <1>1, <2>1 DEF Ahead
    <2>6. Ops \in SUBSET Ops /\ {"delete"} \in SUBSET Ops BY DEF Ops
    <2>7. Fresh' BY <1>1, <2>5, <2>6, AsReadKept DEF Fresh, Shows, Leaving
    <2> QED BY <2>2, <2>3, <2>4, <2>7
  <1>3. CASE /\ Reading(calls[k]) \notin {Unborn, Gone}
             /\ calls' = [calls EXCEPT ![k].answer = "ok", ![k].data = Reading(calls[k])]
    BY <1>1, <1>2, <1>3, ReadingType
  <1>4. CASE calls' = [calls EXCEPT ![k].answer = "failed"]
    <2>1. calls' = [calls EXCEPT ![k].answer = "failed", ![k].data = calls[k].data]
      BY <1>1, <1>4 DEF TypeOK, Sent
    <2>2. calls[k].data \in Rows \cup {None} BY <1>1 DEF Sent
    <2> QED BY <1>2, <2>1, <2>2
  <1> QED BY <1>3, <1>4 DEF ServeRead

\* The server making or refusing a change keeps the invariant.
LEMMA ServeChangeKeeps == ASSUME IInv, NEW k \in Call, ServeChange(k) PROVE IInv'
  <1> USE DEF IInv
  <1> DEFINE c == calls[k]
  <1>1. /\ c # None /\ c.step = "change" /\ c.answer = "none" /\ c \in Sent
        /\ UNCHANGED <<settled, at, going, ui, clicks>>
    BY DEF ServeChange, TypeOK
  <1>2. Fits(c) /\ c.op \in Ops BY <1>1 DEF CallsFit, Fits, Sent
  <1> DEFINE Rest == doubt' = {"main", "side"}
  <1>3. ASSUME NEW a \in {"ok", "failed"}, NEW x \in Rows \cup {None},
               calls' = [calls EXCEPT ![k].answer = a, ![k].data = x],
               \/ Apply(c) /\ doubt' = {"main", "side"}
               \/ Apply(c) /\ doubt' = doubt /\ c.mine /\ a = "ok"
               \/ UNCHANGED <<courses, docs>> /\ doubt' = doubt /\ a = "failed"
        PROVE  IInv'
    <2>1. /\ calls' \in [Call -> Sent \cup {None}]
          /\ \A j \in Call \ {k} : calls'[j] = calls[j]
          /\ calls'[k].op = c.op /\ calls'[k].item = c.item /\ calls'[k].answer = a
          /\ calls'[k].step = c.step /\ calls'[k].mine = c.mine
          /\ calls'[k] # None
      BY <1>1, <1>3, AnswerCalls
    <2>2. /\ courses' \in [Course -> Name \cup {Unborn, Gone}]
          /\ docs' \in [Doc -> Course \cup {NoCourse, Unborn, Gone}]
      BY <1>1, <1>2, <1>3, ApplyType DEF TypeOK, server
    <2>3. TypeOK' BY <1>1, <1>3, <2>1, <2>2 DEF TypeOK
    <2>4. \A i \in Course \cup Doc : Erased(i) => Erased(i)'
      BY <1>1, <1>2, <1>3, ErasedStays DEF server, Erased
    <2>5. at \in Doc /\ docs[at] = Gone => docs'[at] = Gone
      BY <1>1, <2>4, PlacesApart DEF Erased
    <2>6. CallsFit' /\ ScreenFits' /\ LoadersWait' /\ FlagsExact' /\ LoadsFilter'
      BY <1>1, <1>3, <2>5, AnswerKeeps
    <2>7. DeletedIsGone'
      <3> SUFFICES ASSUME NEW j \in Call, calls'[j] # None, calls'[j].op = "delete",
                          calls'[j].step = "read" \/ calls'[j].answer = "ok"
                   PROVE  Erased(calls[j].item)'
        BY DEF DeletedIsGone, Erased
      <3>1. CASE j = k BY <1>1, <1>2, <1>3, <2>1, <3>1, DeleteErases DEF Erased
      <3>2. CASE j # k
        <4>1. Erased(calls[j].item) /\ calls[j].item \in Course \cup Doc
          BY <2>1, <3>2 DEF DeletedIsGone, CallsFit, Fits
        <4> QED BY <2>1, <2>4, <3>2, <4>1 DEF Erased
      <3> QED BY <3>1, <3>2
    <2>8. Fresh'
      <3>1. CASE doubt' = {"main", "side"} BY <3>1 DEF Fresh, Shows
      <3>2. CASE Apply(c) /\ doubt' = doubt /\ c.mine /\ a = "ok"
        <4>1. Ahead(calls[k], Ops)' BY <1>2, <2>1, <3>2 DEF Ahead
        <4>2. c.op = "delete" => Ahead(calls[k], {"delete"})' BY <2>1, <3>2 DEF Ahead
        <4>3. at \in Course => c.op \in {"update", "delete"}
          BY <1>1, <1>2, <3>2 DEF CallsFit, OfPage, Ops
        <4>4. c.op = "update" => docs' = docs BY <3>2, UpdateKeepsDocs
        <4>5. \A j \in Call : Ahead(calls[j], {"delete"}) => Ahead(calls[j], {"delete"})'
          BY <1>1, <2>1 DEF Ahead
        <4>6. at \in Course /\ c.op = "update" => (Shows("side", ui.side) <=> Shows("side", ui.side)')
          BY <1>1, <3>2, <4>4, SideKept DEF Shows
        <4> QED BY <1>1, <4>1, <4>2, <4>3, <4>5, <4>6 DEF Fresh, Leaving
      <3>3. CASE UNCHANGED <<courses, docs>> /\ doubt' = doubt /\ a = "failed"
        <4>1. \A ops \in SUBSET Ops : \A j \in Call : Ahead(calls[j], ops) => Ahead(calls[j], ops)'
          BY <1>1, <2>1 DEF Ahead
        <4>2. Ops \in SUBSET Ops /\ {"delete"} \in SUBSET Ops BY DEF Ops
        <4> QED BY <1>1, <3>3, <4>1, <4>2, AsReadKept DEF Fresh, Shows, Leaving, server
      <3> QED BY <1>3, <3>1, <3>2, <3>3
    <2> QED BY <2>3, <2>6, <2>7, <2>8
  <1>4. Outcome(c) \in Rows \cup {None} /\ c.data \in Rows \cup {None}
    BY <1>1, <1>2 DEF Sent, Rows, DocRows, Outcome, Fits
  <1>5. calls' = [calls EXCEPT ![k].answer = "failed"]
            => calls' = [calls EXCEPT ![k].answer = "failed", ![k].data = c.data]
    BY <1>1 DEF TypeOK, Sent
  <1>6. CASE /\ Apply(c)
             /\ calls' = [calls EXCEPT ![k].answer = "ok", ![k].data = Outcome(c)]
             /\ doubt' = IF c.mine THEN doubt ELSE {"main", "side"}
    BY <1>3, <1>4, <1>6
  <1>7. CASE /\ Apply(c)
             /\ calls' = [calls EXCEPT ![k].answer = "failed"]
             /\ doubt' = {"main", "side"}
    BY <1>3, <1>4, <1>5, <1>7
  <1>8. CASE /\ UNCHANGED <<courses, docs>>
             /\ calls' = [calls EXCEPT ![k].answer = "failed"]
             /\ UNCHANGED doubt
    BY <1>3, <1>4, <1>5, <1>8
  <1> QED BY <1>6, <1>7, <1>8 DEF ServeChange

\* The background task settling a document only lets what is shown fall behind.
LEMMA SettleKeeps == ASSUME IInv, NEW d \in Doc, Settle(d) PROVE IInv'
  <1> USE DEF IInv
  <1>1. /\ settled' = settled \cup {d}
        /\ UNCHANGED <<courses, docs, at, going, ui, calls, clicks, doubt>>
    BY DEF Settle
  <1>2. TypeOK' BY <1>1 DEF TypeOK
  <1>3. CallsFit' BY <1>1 DEF CallsFit, OfPage, Fits
  <1>4. ScreenFits' BY <1>1 DEF ScreenFits, Own
  <1>5. DeletedIsGone' BY <1>1 DEF DeletedIsGone, Erased
  <1>6. LoadersWait' BY <1>1 DEF LoadersWait, EndsMain, EndsSide
  <1>7. FlagsExact' BY <1>1 DEF FlagsExact, IsMine, Flagged
  <1>8. LoadsFilter' BY <1>1 DEF LoadsFilter, IsMine
  <1>9. Fresh'
    <2>1. \A done \in SUBSET settled : done \in SUBSET settled' BY <1>1
    <2>2. \A part \in {"main", "side"} :
             LET view == IF part = "main" THEN ui.main ELSE ui.side IN
             Shows(part, view) => Shows(part, view)'
      BY <1>1, <2>1, RowsKept DEF Shows, AsRead
    <2> QED BY <1>1, <2>2 DEF Fresh, Leaving, Ahead
  <1> QED BY <1>2, <1>3, <1>4, <1>5, <1>6, <1>7, <1>8, <1>9

-----------------------------------------------------------------------------
(* Handlers that end or go on to their GET                                    *)

\* The slot of a handler that ends is free, and the others are what they were.
LEMMA EndCalls ==
    ASSUME IInv, NEW k \in Call, End(k), Resume, ui' \in Screen, ScreenFits',
           going' \in Tops \cup {None}, doubt' \subseteq {"main", "side"}, ui'.filter = ui.filter
    PROVE  /\ TypeOK' /\ CallsFit' /\ DeletedIsGone' /\ LoadsFilter'
           /\ calls'[k] = None /\ \A j \in Call \ {k} : calls'[j] = calls[j]
  <1> USE DEF IInv, End, Resume
  <1>1. calls'[k] = None /\ \A j \in Call \ {k} : calls'[j] = calls[j] BY DEF TypeOK
  <1>2. TypeOK' BY DEF TypeOK
  <1>3. CallsFit' BY <1>1 DEF CallsFit, OfPage, Fits
  <1>4. DeletedIsGone' BY <1>1 DEF DeletedIsGone, Erased
  <1>5. LoadsFilter' BY <1>1 DEF LoadsFilter, IsMine
  <1> QED BY <1>1, <1>2, <1>3, <1>4, <1>5

\* A loader is left alone while its call is, and is over when its call is answered.
LEMMA EndLoaders ==
    ASSUME LoadersWait, NEW k \in Call, at' = at, \A j \in Call \ {k} : calls'[j] = calls[j],
           \/ ui'.main.status # "loading"
           \/ ui'.main.status = ui.main.status /\ ~EndsMain(calls[k]),
           \/ ui'.side.status # "loading"
           \/ ui'.side.status = ui.side.status /\ ~EndsSide(calls[k])
    PROVE  LoadersWait'
  BY DEF LoadersWait, EndsMain, EndsSide

\* The flag of an operation goes off with its handler, the only one.
LEMMA EndFlags ==
    ASSUME FlagsExact, NEW k \in Call, at' = at, docs' = docs,
           calls'[k] = None, \A j \in Call \ {k} : calls'[j] = calls[j],
           calls[k] # None, calls[k].mine,
           \A op \in Flagged : op \in ui'.pending <=> op \in ui.pending /\ op # calls[k].op,
           IF calls[k].op = "delete" THEN ui'.deleting = None \/ (at \in Doc /\ docs[at] = Gone)
           ELSE ui'.deleting = ui.deleting
    PROVE  FlagsExact'
  <1>1. \A op : ~IsMine(calls'[k], op) BY DEF IsMine
  <1>2. \A j \in Call \ {k} : \A op : IsMine(calls'[j], op) <=> IsMine(calls[j], op)
    BY DEF IsMine
  <1>3. IsMine(calls[k], calls[k].op) /\ \A op : IsMine(calls[k], op) => op = calls[k].op
    BY DEF IsMine
  <1>4. Flagged' = Flagged /\ "delete" \notin Flagged BY DEF Flagged
  <1>5. \A op \in Flagged : op \in ui'.pending <=> \E j \in Call : IsMine(calls'[j], op)
    <2> SUFFICES ASSUME NEW op \in Flagged
                 PROVE  op \in ui'.pending <=> \E j \in Call : IsMine(calls'[j], op)
      OBVIOUS
    <2>1. op \in ui.pending <=> \E j \in Call : IsMine(calls[j], op) BY DEF FlagsExact
    <2>2. CASE op = calls[k].op
      <3>1. \A j \in Call : IsMine(calls[j], op) => j = k BY <1>3, <2>2 DEF FlagsExact
      <3> QED BY <1>1, <1>2, <2>2, <3>1
    <2>3. CASE op # calls[k].op
      BY <1>1, <1>2, <1>3, <2>1, <2>3
    <2> QED BY <2>2, <2>3
  <1>6. \A op \in Flagged \cup {"delete"} : \A i, j \in Call :
            IsMine(calls'[i], op) /\ IsMine(calls'[j], op) => i = j
    BY <1>1, <1>2 DEF FlagsExact
  <1>7. CASE calls[k].op = "delete"
    <2>1. \A j \in Call : ~IsMine(calls'[j], "delete")
      <3>1. \A j \in Call : IsMine(calls[j], "delete") => j = k
        BY <1>3, <1>7 DEF FlagsExact
      <3> QED BY <1>1, <1>2, <3>1
    <2> QED BY <1>4, <1>5, <1>6, <1>7, <2>1 DEF FlagsExact
  <1>8. CASE calls[k].op # "delete"
    <2>1. \A j \in Call : IsMine(calls'[j], "delete") <=> IsMine(calls[j], "delete")
      BY <1>1, <1>2, <1>3, <1>8
    <2>2. \A j \in Call : IsMine(calls'[j], "delete") => calls'[j].item = calls[j].item
      BY <1>1
    <2> QED BY <1>4, <1>5, <1>6, <1>8, <2>1, <2>2 DEF FlagsExact
  <1> QED BY <1>7, <1>8

\* What arrives and is believed is what is stored, or is known not to be.
LEMMA BelieveShows ==
    ASSUME NEW c \in Sent, Believe(c)
    PROVE  /\ c.part \notin doubt' => AsRead(c.data, [part |-> c.part, params |-> c.params])
           /\ \A part \in {"main", "side"} \ {c.part} : part \in doubt' <=> part \in doubt
  <1>1. AsRead(c.data, [part |-> c.part, params |-> c.params]) = AsRead(c.data, c)
    BY DEF AsRead, ReadingAt
  <1> QED BY <1>1 DEF Believe

\* A handler that ends without having changed anything leaves what is shown as true as it was.
LEMMA EndFresh ==
    ASSUME IInv, NEW k \in Call, UNCHANGED <<courses, docs, settled, at, doubt>>,
           going' = going \/ going' # None, going # None => going' # None,
           calls'[k] = None, \A j \in Call \ {k} : calls'[j] = calls[j],
           ui'.main = ui.main, ui'.side = ui.side, ~Ahead(calls[k], Ops)
    PROVE  Fresh'
  <1>1. \A ops \in SUBSET Ops : \A j \in Call : Ahead(calls[j], ops) => Ahead(calls[j], ops)'
    BY DEF Ahead
  <1>2. Ops \in SUBSET Ops /\ {"delete"} \in SUBSET Ops BY DEF Ops
  <1>3. Leaving => Leaving' BY DEF Leaving
  <1> QED BY <1>1, <1>2, <1>3, AsReadKept DEF IInv, Fresh, Shows

\* A loader gets its answer.
LEMMA LoadDoneKeeps == ASSUME IInv, NEW k \in Call, LoadDone(k) PROVE IInv'
  <1> DEFINE c == calls[k]
             got == IF Succeeded(k) THEN Ready(c.data, c.params) ELSE Broken
  <1>1. c \in Sent /\ c # None /\ c.mine /\ c.op \in {"load", "refresh"} /\ c.answer # "none"
    BY DEF LoadDone, Answered, IInv, TypeOK
  <1>2. got \in View /\ got.status # "loading"
    BY <1>1 DEF View, Ready, Broken, Sent
  <1>3. /\ End(k) /\ Resume /\ going' = going
        /\ ui' = IF c.part = "main" THEN [ui EXCEPT !.main = got] ELSE [ui EXCEPT !.side = got]
        /\ IF Succeeded(k) THEN Believe(c) ELSE UNCHANGED doubt
    BY DEF LoadDone
  <1> HIDE DEF got
  <1>4. /\ ui' \in Screen /\ ui'.form = ui.form /\ ui'.target = ui.target
        /\ ui'.deleting = ui.deleting /\ ui'.pending = ui.pending /\ ui'.filter = ui.filter
        /\ IF c.part = "main" THEN ui'.main = got /\ ui'.side = ui.side
           ELSE ui'.side = got /\ ui'.main = ui.main
    BY <1>2, <1>3 DEF IInv, TypeOK, Screen
  <1>5. doubt' \subseteq {"main", "side"} /\ going' \in Tops \cup {None}
    BY <1>1, <1>3 DEF Believe, IInv, TypeOK, Sent
  <1>6. ScreenFits' BY <1>3, <1>4 DEF IInv, ScreenFits, Own, Resume
  <1>7. /\ TypeOK' /\ CallsFit' /\ DeletedIsGone' /\ LoadsFilter'
        /\ calls'[k] = None /\ \A j \in Call \ {k} : calls'[j] = calls[j]
    BY <1>3, <1>4, <1>5, <1>6, EndCalls
  <1>8. c.part = "main" \/ (c.part = "side" /\ ~EndsMain(c))
    BY <1>1 DEF Sent, EndsMain
  <1>9. c.part = "main" => ~EndsSide(c) BY DEF EndsSide
  <1>10. LoadersWait'
    BY <1>2, <1>3, <1>4, <1>7, <1>8, <1>9, EndLoaders DEF IInv, Resume
  <1>11. FlagsExact'
    <2>1. \A op \in Flagged : op # c.op BY <1>1 DEF Flagged
    <2> QED BY <1>1, <1>3, <1>4, <1>7, <2>1, EndFlags DEF IInv, Resume
  <1>12. Fresh'
    <2>1. \A ops \in SUBSET Ops : \A j \in Call : Ahead(calls[j], ops) => Ahead(calls[j], ops)'
      BY <1>1, <1>7 DEF Ahead, Ops
    <2>2. Ops \in SUBSET Ops /\ {"delete"} \in SUBSET Ops BY DEF Ops
    <2>3. Leaving' = Leaving /\ UNCHANGED <<courses, docs, settled, at>> BY <1>3 DEF Leaving, Resume
    <2>4. CASE ~Succeeded(k)
      <3>1. got.status = "error" BY <2>4 DEF got, Broken
      <3> QED BY <1>3, <1>4, <1>8, <2>1, <2>2, <2>3, <2>4, <3>1, AsReadKept DEF IInv, Fresh, Shows
    <2>5. CASE Succeeded(k)
      <3>1. got = Ready(c.data, c.params) /\ Believe(c) BY <1>3, <2>5 DEF got
      <3>2. /\ c.part \notin doubt' => AsRead(c.data, [part |-> c.part, params |-> c.params])
            /\ \A part \in {"main", "side"} \ {c.part} : part \in doubt' <=> part \in doubt
        BY <1>1, <3>1, BelieveShows
      <3>a. got.data = c.data /\ got.for = c.params BY <3>1 DEF Ready
      <3>3. CASE c.part = "main"
        <4>1. Shows("main", ui.main)' BY <1>4, <2>3, <3>2, <3>a, <3>3, AsReadKept DEF Shows
        <4>2. Shows("side", ui.side) => Shows("side", ui.side)'
          BY <1>4, <2>3, <3>2, <3>3, AsReadKept DEF Shows
        <4> QED BY <2>1, <2>2, <2>3, <4>1, <4>2 DEF IInv, Fresh
      <3>4. CASE c.part = "side"
        <4>1. Shows("side", ui.side)' BY <1>4, <2>3, <3>2, <3>a, <3>4, AsReadKept DEF Shows
        <4>2. Shows("main", ui.main) => Shows("main", ui.main)'
          BY <1>4, <2>3, <3>2, <3>4, AsReadKept DEF Shows
        <4> QED BY <2>1, <2>2, <2>3, <4>1, <4>2 DEF IInv, Fresh
      <3> QED BY <1>8, <3>3, <3>4
    <2> QED BY <2>4, <2>5
  <1> QED BY <1>6, <1>7, <1>10, <1>11, <1>12 DEF IInv

\* The handler of a page that is gone gets its answer.
LEMMA OverdueKeeps == ASSUME IInv, NEW k \in Call, Overdue(k) PROVE IInv'
  <1> DEFINE c == calls[k]
  <1>1. c \in Sent /\ c # None /\ ~c.mine /\ c.answer # "none"
    BY DEF Overdue, IInv, TypeOK
  <1>2. /\ End(k) /\ Resume /\ ui' = ui /\ doubt' = doubt
        /\ going' = IF Succeeded(k) /\ c.push # None THEN c.push ELSE going
    BY DEF Overdue
  <1>3. going' \in Tops \cup {None} /\ doubt' \subseteq {"main", "side"} /\ ui' \in Screen
    BY <1>1, <1>2 DEF IInv, TypeOK, Sent
  <1>4. ScreenFits' BY <1>2 DEF IInv, ScreenFits, Own, Resume
  <1>5. /\ TypeOK' /\ CallsFit' /\ DeletedIsGone' /\ LoadsFilter'
        /\ calls'[k] = None /\ \A j \in Call \ {k} : calls'[j] = calls[j]
    BY <1>2, <1>3, <1>4, EndCalls
  <1>6. ~EndsMain(c) /\ ~EndsSide(c) /\ ~Ahead(c, Ops)
    BY <1>1 DEF EndsMain, EndsSide, Ahead
  <1>7. LoadersWait' BY <1>2, <1>5, <1>6, EndLoaders DEF IInv, Resume
  <1>8. FlagsExact'
    <2>1. \A j \in Call : \A op : IsMine(calls'[j], op) <=> IsMine(calls[j], op)
      BY <1>1, <1>5 DEF IsMine
    <2>2. \A j \in Call : IsMine(calls'[j], "delete") => calls'[j].item = calls[j].item
      BY <1>5 DEF IsMine
    <2> QED BY <1>2, <2>1, <2>2 DEF IInv, FlagsExact, Flagged, Resume
  <1>9. Fresh' BY <1>2, <1>5, <1>6, EndFresh DEF Resume
  <1> QED BY <1>4, <1>5, <1>7, <1>8, <1>9 DEF IInv

\* A handler of the page that has made its change, or failed to, ends.
LEMMA HandlerEnds ==
    ASSUME IInv, NEW k \in Call, Answered(k), calls[k].op \in Ops, End(k), Resume,
           ui' \in Screen, ScreenFits', going' \in Tops \cup {None}, doubt' \subseteq {"main", "side"},
           ui'.filter = ui.filter, ui'.side = ui.side,
           \A op \in Flagged : op \in ui'.pending <=> op \in ui.pending /\ op # calls[k].op,
           IF calls[k].op = "delete" THEN ui'.deleting = None \/ (at \in Doc /\ docs[at] = Gone)
           ELSE ui'.deleting = ui.deleting,
           ui'.main.status # "loading" \/ (ui'.main = ui.main /\ ~EndsMain(calls[k])),
           calls'[k] = None /\ (\A j \in Call \ {k} : calls'[j] = calls[j]) => Fresh'
    PROVE  IInv'
  <1>1. /\ TypeOK' /\ CallsFit' /\ DeletedIsGone' /\ LoadsFilter'
        /\ calls'[k] = None /\ \A j \in Call \ {k} : calls'[j] = calls[j]
    BY EndCalls
  <1>2. ~EndsSide(calls[k]) BY DEF EndsSide, Ops
  <1>3. LoadersWait' BY <1>1, <1>2, EndLoaders DEF IInv, Resume
  <1>4. FlagsExact' BY <1>1, EndFlags DEF IInv, Resume, Answered
  <1> QED BY <1>1, <1>3, <1>4 DEF IInv

\* A change was refused, or its answer lost: the handler shows the error and ends.
LEMMA RefusedKeeps ==
    ASSUME IInv, NEW k \in Call, Answered(k), calls[k].op \in Ops, ~Succeeded(k),
           calls[k].step = "change", End(k), Resume, UNCHANGED <<going, doubt>>,
           ui' \in Screen, ScreenFits', ui'.filter = ui.filter, ui'.side = ui.side, ui'.main = ui.main,
           \A op \in Flagged : op \in ui'.pending <=> op \in ui.pending /\ op # calls[k].op,
           ui'.deleting = IF calls[k].op = "delete" THEN None ELSE ui.deleting
    PROVE  IInv'
  <1>1. ~Ahead(calls[k], Ops) /\ ~EndsMain(calls[k])
    BY DEF Ahead, EndsMain, Succeeded
  <1>2. going' \in Tops \cup {None} /\ doubt' \subseteq {"main", "side"} BY DEF IInv, TypeOK
  <1>3. ASSUME calls'[k] = None, \A j \in Call \ {k} : calls'[j] = calls[j] PROVE Fresh'
    BY <1>1, <1>3, EndFresh DEF Resume
  <1> QED BY <1>1, <1>2, <1>3, HandlerEnds

\* A change was made: the handler goes on to its GET.
LEMMA ReadNextKeeps ==
    ASSUME IInv, NEW k \in Call, Answered(k), Succeeded(k), calls[k].step = "change",
           calls[k].op \in Ops, ReadNext(k), Resume, UNCHANGED <<going, doubt>>,
           at \in {"courses", "documents"} \/ (at \in Course /\ calls[k].op = "update"),
           ui' \in Screen, ScreenFits', ui'.filter = ui.filter, ui'.side = ui.side,
           ui'.deleting = ui.deleting,
           \A op \in Flagged : op \in ui'.pending <=> op \in ui.pending,
           ui'.main = ui.main \/ (at \in Course /\ ui'.main.status = "loading")
    PROVE  IInv'
  <1> DEFINE c == calls[k]
             d == [c EXCEPT !.step = "read", !.answer = "none", !.data = None]
  <1>1. c \in Sent /\ c # None /\ c.mine /\ calls \in [Call -> Sent \cup {None}]
    BY DEF IInv, TypeOK, Answered
  <1>2. d \in Sent /\ d.op = c.op /\ d.item = c.item /\ d.value = c.value /\ d.part = c.part
        /\ d.params = c.params /\ d.step = "read" /\ d.answer = "none" /\ d.push = c.push /\ d.mine
    BY <1>1 DEF Sent
  <1>3. d # None BY <1>2, NoneIsNoCall
  <1>4. calls'[k] = d /\ (\A j \in Call \ {k} : calls'[j] = calls[j])
        /\ calls' \in [Call -> Sent \cup {None}]
    <2> DEFINE m == [calls EXCEPT ![k].step = "read"]
               n == [m EXCEPT ![k].answer = "none"]
    <2>1. calls' = [n EXCEPT ![k].data = None] BY DEF ReadNext
    <2>2. m \in [Call -> Sent \cup {None}] /\ m[k] = [c EXCEPT !.step = "read"] /\ m[k] \in Sent
          /\ \A j \in Call \ {k} : m[j] = calls[j]
      BY <1>1 DEF Sent
    <2> HIDE DEF m
    <2>3. n \in [Call -> Sent \cup {None}] /\ n[k] = [m[k] EXCEPT !.answer = "none"] /\ n[k] \in Sent
          /\ \A j \in Call \ {k} : n[j] = m[j]
      BY <2>2 DEF Sent
    <2> HIDE DEF n
    <2>4. calls'[k] = [n[k] EXCEPT !.data = None] /\ \A j \in Call \ {k} : calls'[j] = n[j]
      BY <2>1, <2>3
    <2>5. calls'[k] = d BY <1>1, <2>2, <2>3, <2>4 DEF Sent
    <2>6. calls' \in [Call -> Sent \cup {None}] BY <1>2, <2>1, <2>3, <2>5
    <2> QED BY <2>2, <2>3, <2>4, <2>5, <2>6
  <1> HIDE DEF d
  <1>5. UNCHANGED <<courses, docs, settled, at, clicks>> BY DEF Resume
  <1>6. TypeOK' BY <1>4, <1>5 DEF IInv, TypeOK
  <1>7. CallsFit'
    <2>1. Fits(c) /\ OfPage(c) BY <1>1 DEF IInv, CallsFit
    <2>2. Fits(d) BY <1>2, <2>1 DEF Fits, Ops
    <2>3. OfPage(d) BY <1>2, <2>1, PlacesApart DEF OfPage, Tops
    <2>4. \A j \in Call \ {k} : Fits(calls[j])' = Fits(calls[j]) /\ OfPage(calls[j])' = OfPage(calls[j])
      BY <1>4, <1>5 DEF Fits, OfPage
    <2>5. Fits(calls[k])' /\ OfPage(calls[k])' BY <1>4, <1>5, <2>2, <2>3 DEF Fits, OfPage
    <2> QED BY <1>4, <2>4, <2>5 DEF IInv, CallsFit
  <1>8. DeletedIsGone'
    <2>1. c.op = "delete" => Erased(c.item)
      BY <1>1 DEF IInv, DeletedIsGone, Succeeded
    <2> QED BY <1>2, <1>4, <1>5, <2>1 DEF IInv, DeletedIsGone, Erased
  <1>9. \A j \in Call : \A op : IsMine(calls'[j], op) <=> IsMine(calls[j], op)
    BY <1>1, <1>2, <1>3, <1>4 DEF IsMine
  <1>10. \A j \in Call : calls'[j].item = calls[j].item /\ calls'[j].params = calls[j].params
    BY <1>2, <1>4
  <1>11. FlagsExact' BY <1>5, <1>9, <1>10 DEF IInv, FlagsExact, Flagged
  <1>12. LoadsFilter' BY <1>5, <1>9, <1>10 DEF IInv, LoadsFilter
  <1>13. LoadersWait'
    <2>1. \A j \in Call : EndsSide(calls[j]) => EndsSide(calls[j])'
      BY <1>4, <1>5 DEF EndsSide, Ops
    <2>2. \A j \in Call : EndsMain(calls[j]) => EndsMain(calls[j])'
      BY <1>4, <1>5 DEF EndsMain
    <2>3. c.part = "main" BY <1>1 DEF IInv, CallsFit, Fits
    <2>4. at \in Course /\ c.op = "update" => EndsMain(calls[k])'
      BY <1>2, <1>3, <1>4, <1>5, <2>3 DEF EndsMain
    <2>5. at \in Course => c.op = "update" BY PlacesApart DEF Tops
    <2> QED BY <1>5, <2>1, <2>2, <2>4, <2>5 DEF IInv, LoadersWait
  <1>14. Fresh'
    <2>1. Ahead(calls[k], Ops)' BY <1>2, <1>3, <1>4 DEF Ahead
    <2>2. \A j \in Call : Ahead(calls[j], {"delete"}) => Ahead(calls[j], {"delete"})'
      BY <1>2, <1>3, <1>4 DEF Ahead
    <2>3. Shows("side", ui.side) => Shows("side", ui.side)'
      BY <1>5, AsReadKept DEF Shows
    <2> QED BY <1>5, <2>1, <2>2, <2>3 DEF IInv, Fresh, Leaving
  <1> QED BY <1>6, <1>7, <1>8, <1>11, <1>12, <1>13, <1>14 DEF IInv

\* A list after a change is what is stored, or is known not to be; if it failed, the old
\* one is known to be out of date.
LEMMA ListFresh ==
    ASSUME IInv, NEW k \in Call, Answered(k), calls[k].op \in Ops,
           UNCHANGED <<courses, docs, settled, at>>, at \notin Course,
           \/ ui'.main = Ready(calls[k].data, calls[k].params) /\ Believe(calls[k])
           \/ "main" \in doubt'
    PROVE  Fresh'
  <1> DEFINE c == calls[k]
  <1>1. c \in Sent /\ c.part = "main"
    BY DEF IInv, TypeOK, Answered, CallsFit, Fits
  <1>2. CASE ui'.main = Ready(c.data, c.params) /\ Believe(c)
    <2>1. "main" \notin doubt' => AsRead(c.data, [part |-> "main", params |-> c.params])
      BY <1>1, <1>2, BelieveShows
    <2>2. ui'.main.data = c.data /\ ui'.main.for = c.params BY <1>2 DEF Ready
    <2>3. Shows("main", ui.main)' BY <2>1, <2>2, AsReadKept DEF Shows
    <2> QED BY <2>3 DEF Fresh
  <1>3. CASE "main" \in doubt' BY <1>3 DEF Fresh, Shows
  <1> QED BY <1>2, <1>3

\* The saves and deletions of the two lists.
ListEnds(k) ==
    \/ at = "courses" /\ (CourseSaved(k) \/ ListDeleteDone(k))
    \/ at = "documents" /\ (UploadDone(k) \/ EditDone(k) \/ ListDeleteDone(k))

\* The end of a handler of a page with a list keeps the invariant.
LEMMA ListEndsKeep == ASSUME IInv, NEW k \in Call, ListEnds(k) PROVE IInv'
  <1> DEFINE c == calls[k]
             o == {c.op}
  <1>0. /\ Answered(k) /\ Resume /\ going' = going
        /\ c.op \in {"create", "update", "upload", "edit", "delete"}
    BY DEF ListEnds, CourseSaved, ListDeleteDone, UploadDone, EditDone
  <1>1. /\ ui \in Screen /\ c \in Sent /\ c.op \in Ops /\ at \notin Course /\ at \notin Doc
        /\ at' = at /\ courses' = courses /\ docs' = docs /\ settled' = settled
        /\ going' \in Tops \cup {None} /\ at \in {"courses", "documents"}
    BY <1>0, PlacesApart DEF IInv, TypeOK, Answered, Ops, Tops, Resume, ListEnds
  <1>a. /\ {"create", "update", "upload", "edit", "delete"} \subseteq Ops
        /\ ui.errors \cup {c.op} \in SUBSET Ops /\ ui.pending \ {c.op} \in SUBSET Ops
    BY <1>1 DEF Ops, Screen
  <1>2. Ready(c.data, c.params) \in View BY <1>1 DEF Ready, View, Sent
  <1>3. Flagged = {"create", "update", "upload", "chat"} BY <1>1 DEF Flagged
  <1>4. /\ ui.form \in Own \cup {"closed"} \/ (at = "courses" /\ ui.form = "create")
        /\ ui.target \in Own \cup {None} /\ ui.deleting \in Own \cup {None}
    BY DEF IInv, ScreenFits
  <1> DEFINE Fields ==
               /\ ui' \in Screen
               /\ ui'.form \in {ui.form, "closed"} /\ ui'.target \in {ui.target, None}
               /\ ui'.side = ui.side /\ ui'.filter = ui.filter
               /\ ui'.deleting \in {ui.deleting, None}
             Off == /\ ui'.pending = ui.pending \ (IF c.op = "delete" THEN {} ELSE o)
                    /\ ui'.deleting = IF c.op = "delete" THEN None ELSE ui.deleting
             Stay == /\ \A op \in Flagged : op \in ui'.pending <=> op \in ui.pending
                     /\ ui'.deleting = ui.deleting
  <1>5. Fields => ScreenFits' BY <1>1, <1>4 DEF ScreenFits, Own
  <1>6. Off => /\ \A op \in Flagged : op \in ui'.pending <=> op \in ui.pending /\ op # c.op
               /\ IF c.op = "delete" THEN ui'.deleting = None ELSE ui'.deleting = ui.deleting
    BY <1>3
  <1>7. CASE c.step = "change" /\ Succeeded(k)
    <2>1. ReadNext(k) /\ doubt' = doubt /\ ui'.main = ui.main
      BY <1>1, <1>7 DEF ListEnds, CourseSaved, ListDeleteDone, UploadDone, EditDone, Screen
    <2>2. Fields
      BY <1>1, <1>7 DEF ListEnds, CourseSaved, ListDeleteDone, UploadDone, EditDone, Screen
    <2>3. Stay
      BY <1>1, <1>3, <1>7 DEF ListEnds, CourseSaved, ListDeleteDone, UploadDone, EditDone, Screen
    <2> QED BY <1>0, <1>1, <1>5, <1>7, <2>1, <2>2, <2>3, ReadNextKeeps
  <1>8. CASE c.step = "change" /\ ~Succeeded(k)
    <2>1. End(k) /\ doubt' = doubt /\ ui'.main = ui.main
      BY <1>1, <1>8 DEF ListEnds, CourseSaved, ListDeleteDone, UploadDone, EditDone, Screen
    <2>2. Fields
      <3>1. CASE CourseSaved(k) BY <1>1, <1>2, <1>a, <1>8, <3>1 DEF CourseSaved, Screen
      <3>2. CASE ListDeleteDone(k) BY <1>1, <1>2, <1>a, <1>8, <3>2 DEF ListDeleteDone, Screen
      <3>3. CASE UploadDone(k) BY <1>1, <1>2, <1>a, <1>8, <3>3 DEF UploadDone, Screen
      <3>4. CASE EditDone(k) BY <1>1, <1>2, <1>a, <1>8, <3>4 DEF EditDone, Screen
      <3> QED BY <3>1, <3>2, <3>3, <3>4 DEF ListEnds
    <2>3. Off
      BY <1>1, <1>8 DEF ListEnds, CourseSaved, ListDeleteDone, UploadDone, EditDone, Screen
    <2> QED BY <1>0, <1>1, <1>5, <1>6, <1>8, <2>1, <2>2, <2>3, RefusedKeeps
  <1>9. CASE c.step = "read"
    <2>1. Fields
      <3>1. CASE CourseSaved(k) BY <1>1, <1>2, <1>a, <1>9, <3>1 DEF CourseSaved, Screen
      <3>2. CASE ListDeleteDone(k) BY <1>1, <1>2, <1>a, <1>9, <3>2 DEF ListDeleteDone, Screen
      <3>3. CASE UploadDone(k) BY <1>1, <1>2, <1>a, <1>9, <3>3 DEF UploadDone, Screen
      <3>4. CASE EditDone(k) BY <1>1, <1>2, <1>a, <1>9, <3>4 DEF EditDone, Screen
      <3> QED BY <3>1, <3>2, <3>3, <3>4 DEF ListEnds
    <2>2. Off
      BY <1>1, <1>9 DEF ListEnds, CourseSaved, ListDeleteDone, UploadDone, EditDone, Screen
    <2>3. /\ End(k)
          /\ \/ ui'.main = Ready(c.data, c.params) /\ Believe(c)
             \/ ui'.main = ui.main /\ doubt' = doubt \cup {"main"}
      BY <1>1, <1>9 DEF ListEnds, CourseSaved, ListDeleteDone, UploadDone, EditDone, Screen
    <2>4. Fresh' BY <1>0, <1>1, <2>3, ListFresh
    <2>5. ~EndsMain(c) BY <1>1 DEF EndsMain, Ops
    <2>6. ui'.main.status # "loading" \/ ui'.main = ui.main BY <2>3 DEF Ready
    <2>7. doubt' \subseteq {"main", "side"} BY <1>1, <2>3 DEF Believe, IInv, TypeOK, Sent
    <2> QED BY <1>0, <1>1, <1>5, <1>6, <2>1, <2>2, <2>3, <2>4, <2>5, <2>6, <2>7, HandlerEnds
  <1> QED BY <1>1, <1>7, <1>8, <1>9 DEF Sent

\* The handlers of the page of one course or one document.
DetailEnds(k) ==
    \/ at \in Course /\ (NameSaved(k) \/ WorkspaceDeleted(k))
    \/ at \in Doc /\ (DetailSaved(k) \/ DetailDeleted(k) \/ ChatCreated(k))

\* The error of a change that was refused, or whose answer was lost.
LEMMA ChangeFailedKeeps ==
    ASSUME IInv, NEW k \in Call, Answered(k), ~Succeeded(k), calls[k].op \in Ops,
           calls[k].step = "change", Resume, ChangeFailed(k)
    PROVE  IInv'
  <1> DEFINE c == calls[k]
  <1>1. ui \in Screen /\ at' = at BY DEF IInv, TypeOK, Resume
  <1>2. /\ ui.errors \cup {c.op} \in SUBSET Ops /\ ui.pending \ {c.op} \in SUBSET Ops
    BY <1>1 DEF Screen
  <1>3. /\ ui' = [ui EXCEPT !.errors = ui.errors \cup {c.op}, !.pending = ui.pending \ {c.op},
                            !.deleting = IF c.op = "delete" THEN None ELSE ui.deleting]
        /\ End(k) /\ UNCHANGED <<going, doubt>>
    BY DEF ChangeFailed
  <1>4. /\ ui' \in Screen /\ ui'.main = ui.main /\ ui'.side = ui.side /\ ui'.filter = ui.filter
        /\ ui'.form = ui.form /\ ui'.target = ui.target /\ ui'.pending = ui.pending \ {c.op}
        /\ ui'.deleting = IF c.op = "delete" THEN None ELSE ui.deleting
    BY <1>1, <1>2, <1>3 DEF Screen
  <1>5. ScreenFits' BY <1>1, <1>4 DEF IInv, ScreenFits, Own
  <1>6. \A op \in Flagged : op \in ui'.pending <=> op \in ui.pending /\ op # c.op
    BY <1>4
  <1> QED BY <1>3, <1>4, <1>5, <1>6, RefusedKeeps

\* A page that pushes is on its way out.
LEMMA PushKeeps ==
    ASSUME IInv, NEW k \in Call, Answered(k), calls[k].op \in {"delete", "chat"}, End(k), Resume,
           calls[k].op = "chat" => at \in Doc, at \in Course \cup Doc,
           going' = calls[k].push, UNCHANGED doubt, ui' \in Screen, ScreenFits',
           ui'.filter = ui.filter, ui'.side = ui.side, ui'.main = ui.main,
           \A op \in Flagged : op \in ui'.pending <=> op \in ui.pending /\ op # calls[k].op,
           IF calls[k].op = "delete" THEN ui'.deleting = None \/ (at \in Doc /\ docs[at] = Gone)
           ELSE ui'.deleting = ui.deleting
    PROVE  IInv'
  <1> DEFINE c == calls[k]
  <1>1. c \in Sent /\ c.op \in Ops /\ doubt \subseteq {"main", "side"} /\ c # None /\ c.mine
    BY DEF IInv, TypeOK, Answered, Ops
  <1>2. c.push # None /\ c.push \in Tops
    BY <1>1 DEF IInv, CallsFit, OfPage, Sent
  <1>3. Fresh' BY <1>2 DEF Fresh, Leaving, Resume
  <1>4. ~EndsMain(c) BY DEF EndsMain
  <1> QED BY <1>1, <1>2, <1>3, <1>4, HandlerEnds

\* The end of a rename in a workspace keeps the invariant.
LEMMA NameSavedKeeps == ASSUME IInv, NEW k \in Call, at \in Course, NameSaved(k) PROVE IInv'
  <1> DEFINE c == calls[k]
  <1>0. Answered(k) /\ Resume /\ c.op = "update" BY DEF NameSaved
  <1>1. /\ ui \in Screen /\ c \in Sent /\ c.op \in Ops /\ at \notin Doc /\ doubt \subseteq {"main", "side"}
        /\ at' = at /\ courses' = courses /\ docs' = docs /\ settled' = settled /\ going \in Tops \cup {None}
        /\ at \notin Tops /\ c.part = "main"
    BY <1>0, PlacesApart DEF IInv, TypeOK, Answered, Ops, Tops, Resume, CallsFit, Fits
  <1>2. /\ Ready(c.data, c.params) \in View /\ Loading \in View /\ Broken \in View
        /\ ui.pending \ {"update"} \in SUBSET Ops
        /\ Loading.status = "loading" /\ Broken.status = "error"
        /\ Ready(c.data, c.params).status = "ready" /\ Ready(c.data, c.params).data = c.data
        /\ Ready(c.data, c.params).for = c.params
    BY <1>1 DEF Ready, Loading, Broken, View, Sent, Screen
  <1>3. ui.form \in Own \cup {"closed"} /\ ui.target \in Own \cup {None} /\ ui.deleting \in Own \cup {None}
    BY <1>1 DEF IInv, ScreenFits, Tops
  <1>4. CASE c.step = "change" /\ Succeeded(k)
    <2>1. ReadNext(k) /\ UNCHANGED <<going, doubt>> /\ ui' = [ui EXCEPT !.main = Loading]
      BY <1>4 DEF NameSaved
    <2>2. /\ ui' \in Screen /\ ui'.main = Loading /\ ui'.side = ui.side /\ ui'.filter = ui.filter
          /\ ui'.form = ui.form /\ ui'.target = ui.target /\ ui'.pending = ui.pending
          /\ ui'.deleting = ui.deleting
      BY <1>1, <1>2, <2>1 DEF Screen
    <2>3. ScreenFits' BY <1>1, <1>3, <2>2 DEF ScreenFits, Own
    <2> QED BY <1>0, <1>1, <1>2, <1>4, <2>1, <2>2, <2>3, ReadNextKeeps
  <1>5. CASE c.step = "change" /\ ~Succeeded(k)
    BY <1>0, <1>1, <1>5, ChangeFailedKeeps DEF NameSaved
  <1>6. CASE c.step = "read"
    <2> DEFINE new == IF Succeeded(k) THEN Ready(c.data, c.params) ELSE Broken
    <2>1. /\ ui' = [ui EXCEPT !.main = new, !.form = "closed", !.pending = ui.pending \ {"update"}]
          /\ End(k) /\ going' = going /\ IF Succeeded(k) THEN Believe(c) ELSE UNCHANGED doubt
      BY <1>6 DEF NameSaved
    <2>2. new \in View /\ new.status # "loading" BY <1>2
    <2> HIDE DEF new
    <2>3. /\ ui' \in Screen /\ ui'.main = new /\ ui'.side = ui.side /\ ui'.filter = ui.filter
          /\ ui'.form = "closed" /\ ui'.target = ui.target /\ ui'.pending = ui.pending \ {"update"}
          /\ ui'.deleting = ui.deleting
      BY <1>1, <1>2, <2>1, <2>2 DEF Screen
    <2>4. ScreenFits' BY <1>1, <1>3, <2>3 DEF ScreenFits, Own
    <2>5. doubt' \subseteq {"main", "side"} BY <1>1, <2>1 DEF Believe
    <2>6. ASSUME \A j \in Call \ {k} : calls'[j] = calls[j] PROVE Fresh'
      <3>1. Shows("main", ui.main)'
        <4>1. CASE Succeeded(k)
          <5>1. new = Ready(c.data, c.params) BY <4>1 DEF new
          <5>2. "main" \notin doubt' => AsRead(c.data, [part |-> "main", params |-> c.params])
            BY <1>1, <2>1, <4>1, BelieveShows
          <5> QED BY <1>1, <1>2, <2>3, <5>1, <5>2, AsReadKept DEF Shows
        <4>2. CASE ~Succeeded(k) BY <1>2, <2>3, <4>2 DEF Shows, new
        <4> QED BY <4>1, <4>2
      <3>2. "side" \in doubt' <=> "side" \in doubt BY <1>1, <2>1 DEF Believe
      <3>3. Shows("side", ui.side) => Shows("side", ui.side)'
        BY <1>1, <2>3, <3>2, AsReadKept DEF Shows
      <3>4. \A j \in Call : Ahead(calls[j], {"delete"}) => Ahead(calls[j], {"delete"})'
        BY <1>0, <2>6 DEF Ahead
      <3> QED BY <1>1, <2>1, <3>1, <3>3, <3>4 DEF IInv, Fresh, Leaving
    <2>7. \A op \in Flagged : op \in ui'.pending <=> op \in ui.pending /\ op # c.op
      BY <1>0, <2>3
    <2> QED BY <1>0, <1>1, <2>1, <2>2, <2>3, <2>4, <2>5, <2>6, <2>7, HandlerEnds
  <1> QED BY <1>1, <1>4, <1>5, <1>6 DEF Sent

\* The end of a handler of a document's page keeps the invariant.
LEMMA DetailEndsKeep == ASSUME IInv, NEW k \in Call, DetailEnds(k) PROVE IInv'
  <1> DEFINE c == calls[k]
  <1>1. CASE at \in Course /\ NameSaved(k) BY <1>1, NameSavedKeeps
  <1> SUFFICES ASSUME ~(at \in Course /\ NameSaved(k)) PROVE IInv'
    BY <1>1
  <1>2. /\ Answered(k) /\ Resume /\ c.op \in {"delete", "edit", "chat"} /\ at \in Course \cup Doc
        /\ at \in Course => WorkspaceDeleted(k)
        /\ at \in Doc => DetailSaved(k) \/ DetailDeleted(k) \/ ChatCreated(k)
        /\ c.op # "delete" => at \in Doc
    BY PlacesApart DEF DetailEnds, WorkspaceDeleted, DetailSaved, DetailDeleted, ChatCreated
  <1>3. /\ ui \in Screen /\ c \in Sent /\ c.op \in Ops /\ doubt \subseteq {"main", "side"}
        /\ at' = at /\ courses' = courses /\ docs' = docs /\ settled' = settled /\ going \in Tops \cup {None}
        /\ c # None /\ c.mine /\ c.part = "main" /\ c.step = "change"
        /\ c.op = "delete" => c.item = at
        /\ at \notin Tops
    BY <1>2, PlacesApart DEF IInv, TypeOK, Answered, Ops, Tops, Resume, CallsFit, Fits, OfPage
  <1>4. ui.form \in Own \cup {"closed"} /\ ui.target \in Own \cup {None} /\ ui.deleting \in Own \cup {None}
    BY <1>3 DEF IInv, ScreenFits, Tops
  <1>5. CASE ~Succeeded(k)
    <2>1. ChangeFailed(k)
      BY <1>2, <1>5 DEF WorkspaceDeleted, DetailSaved, DetailDeleted, ChatCreated
    <2> QED BY <1>2, <1>3, <1>5, <2>1, ChangeFailedKeeps
  <1> DEFINE Closed ==
               /\ ui' \in Screen /\ ui'.form = ui.form /\ ui'.filter = ui.filter
               /\ ui'.side = ui.side /\ ui'.main = ui.main /\ ui'.target \in {ui.target, None}
               /\ ui'.deleting \in {ui.deleting, None}
  <1>6. Closed => ScreenFits' BY <1>3, <1>4 DEF ScreenFits, Own
  <1>7. CASE Succeeded(k) /\ c.op = "delete" /\ at \in Course
    <2>1. /\ ui' = [ui EXCEPT !.deleting = None] /\ going' = c.push /\ End(k) /\ UNCHANGED doubt
      BY <1>2, <1>7 DEF WorkspaceDeleted
    <2>2. Closed /\ ui'.pending = ui.pending /\ ui'.deleting = None BY <1>3, <2>1 DEF Screen
    <2>3. \A op \in Flagged : op # "delete" BY DEF Flagged
    <2> QED BY <1>2, <1>3, <1>6, <1>7, <2>1, <2>2, <2>3, PushKeeps
  <1>8. CASE Succeeded(k) /\ c.op = "delete" /\ at \in Doc
    <2>1. /\ ui' = [ui EXCEPT !.target = None] /\ going' = c.push /\ End(k) /\ UNCHANGED doubt
      BY <1>2, <1>8 DEF DetailDeleted, DetailSaved, ChatCreated
    <2>2. Closed /\ ui'.pending = ui.pending BY <1>3, <2>1 DEF Screen
    <2>3. \A op \in Flagged : op # "delete" BY DEF Flagged
    <2>4. docs[at] = Gone
      BY <1>3, <1>8, PlacesApart DEF IInv, DeletedIsGone, Erased, Succeeded
    <2> QED BY <1>2, <1>3, <1>6, <1>8, <2>1, <2>2, <2>3, <2>4, PushKeeps
  <1>9. CASE Succeeded(k) /\ c.op = "chat"
    <2>1. /\ ui' = [ui EXCEPT !.pending = ui.pending \ {"chat"}]
          /\ going' = c.push /\ End(k) /\ UNCHANGED doubt
      BY <1>2, <1>9 DEF DetailDeleted, DetailSaved, ChatCreated
    <2>2. Closed /\ ui'.pending = ui.pending \ {"chat"} /\ ui'.deleting = ui.deleting
      BY <1>3, <2>1 DEF Screen
    <2> QED BY <1>2, <1>3, <1>6, <1>9, <2>1, <2>2, PushKeeps
  <1>10. CASE Succeeded(k) /\ c.op = "edit"
    <2>1. /\ ui' = [ui EXCEPT !.main = Ready(c.data, c.params), !.form = "closed",
                              !.pending = ui.pending \ {"edit"}]
          /\ End(k) /\ Believe(c) /\ UNCHANGED going
      BY <1>2, <1>10 DEF DetailDeleted, DetailSaved, ChatCreated
    <2>2. /\ Ready(c.data, c.params) \in View /\ Ready(c.data, c.params).status = "ready"
          /\ Ready(c.data, c.params).data = c.data /\ Ready(c.data, c.params).for = c.params
      BY <1>3 DEF Ready, View, Sent
    <2>3. /\ ui' \in Screen /\ ui'.main = Ready(c.data, c.params) /\ ui'.form = "closed"
          /\ ui'.filter = ui.filter /\ ui'.side = ui.side /\ ui'.target = ui.target
          /\ ui'.deleting = ui.deleting /\ ui'.pending = ui.pending \ {"edit"}
      BY <1>3, <2>1, <2>2 DEF Screen
    <2>4. ScreenFits' BY <1>3, <1>4, <2>3 DEF ScreenFits, Own
    <2>5. "main" \notin doubt' => AsRead(c.data, [part |-> "main", params |-> c.params])
      BY <1>3, <2>1, BelieveShows
    <2>6. Shows("main", ui.main)' BY <1>3, <2>2, <2>3, <2>5, AsReadKept DEF Shows
    <2>7. Fresh' BY <1>2, <1>3, <1>10, <2>6, PlacesApart DEF Fresh
    <2>8. doubt' \subseteq {"main", "side"} BY <1>3, <2>1 DEF Believe
    <2> QED BY <1>2, <1>3, <1>10, <2>1, <2>2, <2>3, <2>4, <2>7, <2>8, HandlerEnds
  <1> QED BY <1>2, <1>5, <1>7, <1>8, <1>9, <1>10

-----------------------------------------------------------------------------
(* Filters and the way between pages                                          *)

\* The loads of the other filters are cancelled, and the new one takes their place.
LEMMA FilterKeeps ==
    ASSUME IInv, NEW k \in Call, NEW f \in Course \cup {None}, at = "documents", SetFilter(k, f),
           going' = going \/ going' = None, clicks' \in 0 .. MaxClicks
    PROVE  IInv'
  <1> DEFINE new == Load("main", f)
  <1>1. new \in Sent /\ new.op = "load" /\ new.part = "main" /\ new.params = f /\ new.mine
        /\ new.step = "read" /\ new.answer = "none" /\ new.push = None
    BY LoadFields DEF IInv
  <1>2. /\ calls[k] = None \/ IsMine(calls[k], "load")
        /\ ui' = [ui EXCEPT !.filter = f]
        /\ calls' = [j \in Call |-> IF j = k THEN new
                                    ELSE IF IsMine(calls[j], "load") THEN None ELSE calls[j]]
        /\ UNCHANGED <<courses, docs, settled, at, doubt>>
    BY DEF SetFilter, Mine, IsMine
  <1> HIDE DEF new
  <1>3. new # None BY <1>1, NoneIsNoCall
  <1>4. at \notin Course /\ at \notin Doc BY PlacesApart DEF Tops
  <1>5. /\ ui' \in Screen /\ ui'.filter = f /\ ui'.main = ui.main /\ ui'.side = ui.side
        /\ ui'.form = ui.form /\ ui'.target = ui.target /\ ui'.deleting = ui.deleting
        /\ ui'.pending = ui.pending
    BY <1>2 DEF IInv, TypeOK, Screen
  <1>6. calls'[k] = new /\ \A j \in Call \ {k} :
           calls'[j] = IF IsMine(calls[j], "load") THEN None ELSE calls[j]
    BY <1>2
  <1>7. calls' \in [Call -> Sent \cup {None}] BY <1>1, <1>2 DEF IInv, TypeOK
  <1>8. TypeOK' BY <1>2, <1>5, <1>7 DEF IInv, TypeOK
  <1>9. CallsFit'
    <2>1. Fits(new) /\ OfPage(new) BY <1>1, <1>4 DEF Fits, OfPage, Ops
    <2>2. (Fits(calls[k]) /\ OfPage(calls[k]))' BY <1>2, <1>6, <2>1 DEF Fits, OfPage
    <2>3. \A j \in Call \ {k} : calls'[j] # None =>
             calls'[j] = calls[j] /\ Fits(calls[j])' = Fits(calls[j]) /\ OfPage(calls[j])' = OfPage(calls[j])
      BY <1>2, <1>6 DEF Fits, OfPage
    <2> QED BY <2>2, <2>3 DEF IInv, CallsFit
  <1>10. ScreenFits' BY <1>2, <1>5 DEF IInv, ScreenFits, Own
  <1>11. DeletedIsGone' BY <1>1, <1>2, <1>6 DEF IInv, DeletedIsGone, Erased
  <1>12. LoadersWait'
    <2>1. EndsMain(calls[k])' BY <1>1, <1>3, <1>6 DEF EndsMain
    <2> QED BY <1>2, <1>4, <2>1 DEF LoadersWait
  <1>13. \A j \in Call : \A op \in Ops : IsMine(calls'[j], op) <=> IsMine(calls[j], op)
    BY <1>1, <1>2, <1>6 DEF IsMine, Ops
  <1>14. FlagsExact'
    <2>1. Flagged \subseteq Ops /\ "delete" \in Ops /\ Flagged' = Flagged BY <1>2 DEF Flagged, Ops
    <2>2. \A j \in Call : IsMine(calls'[j], "delete") => calls'[j].item = calls[j].item
      BY <1>1, <1>6 DEF IsMine
    <2> QED BY <1>2, <1>5, <1>13, <2>1, <2>2 DEF IInv, FlagsExact
  <1>15. LoadsFilter' BY <1>1, <1>2, <1>5, <1>6 DEF LoadsFilter, IsMine
  <1>16. Fresh'
    <2>1. \A j \in Call : Ahead(calls[j], Ops) => Ahead(calls[j], Ops)'
      BY <1>2, <1>6 DEF Ahead, IsMine, Ops
    <2>2. Shows("main", ui.main) => Shows("main", ui.main)'
      BY <1>2, <1>5, AsReadKept DEF Shows
    <2> QED BY <1>2, <1>4, <2>1, <2>2 DEF IInv, Fresh, Leaving
  <1> QED BY <1>8, <1>9, <1>10, <1>11, <1>12, <1>14, <1>15, <1>16 DEF IInv

\* A page is left and another mounted: what it waits for is its own load, and what was
\* sent before is nobody's.
LEMMA MountKeeps ==
    ASSUME IInv, NEW place \in Places, NEW f \in Course \cup {None}, Mount(place, f),
           f # None => place = "documents", clicks' \in 0 .. MaxClicks
    PROVE  IInv'
  <1> DEFINE kept == [k \in Call |-> Abandon(calls[k])]
             main == Load("main", f)
             side == Load("side", f)
  <1>1. /\ main \in Sent /\ main.op = "load" /\ main.part = "main" /\ main.params = f /\ main.mine
        /\ main.step = "read" /\ main.answer = "none" /\ main.push = None
        /\ side \in Sent /\ side.op = "load" /\ side.part = "side" /\ side.params = f /\ side.mine
        /\ side.step = "read" /\ side.answer = "none" /\ side.push = None
    BY LoadFields DEF IInv
  <1>2. /\ at' = place /\ ui' = [Blank EXCEPT !.filter = f] /\ going' = None /\ doubt' = {}
        /\ courses' = courses /\ docs' = docs /\ settled' = settled
    BY DEF Mount, server
  <1>3. kept \in [Call -> Sent \cup {None}] /\ \A k \in Call :
           kept[k] # None => /\ calls[k] # None /\ calls[k] \in Sent /\ kept[k] \in Sent /\ ~kept[k].mine
                             /\ kept[k].op = calls[k].op /\ kept[k].item = calls[k].item
                             /\ kept[k].value = calls[k].value /\ kept[k].part = calls[k].part
                             /\ kept[k].step = calls[k].step /\ kept[k].answer = calls[k].answer
                             /\ calls[k].step = "change"
    <2> SUFFICES ASSUME NEW k \in Call
                 PROVE  /\ Abandon(calls[k]) \in Sent \cup {None}
                        /\ Abandon(calls[k]) # None =>
                             /\ calls[k] # None /\ calls[k] \in Sent /\ Abandon(calls[k]) \in Sent
                             /\ ~Abandon(calls[k]).mine
                             /\ Abandon(calls[k]).op = calls[k].op /\ Abandon(calls[k]).item = calls[k].item
                             /\ Abandon(calls[k]).value = calls[k].value
                             /\ Abandon(calls[k]).part = calls[k].part
                             /\ Abandon(calls[k]).step = calls[k].step
                             /\ Abandon(calls[k]).answer = calls[k].answer
                             /\ calls[k].step = "change"
      OBVIOUS
    <2>1. calls[k] \in Sent \cup {None} BY DEF IInv, TypeOK
    <2>2. CASE Abandon(calls[k]) = None BY <2>2
    <2>3. CASE Abandon(calls[k]) # None
      <3>1. calls[k] # None /\ calls[k].step = "change" /\ Abandon(calls[k]) = [calls[k] EXCEPT !.mine = FALSE]
        BY <2>3 DEF Abandon
      <3> QED BY <2>1, <3>1 DEF Sent
    <2> QED BY <2>2, <2>3
  <1>4. /\ calls' \in [Call -> Sent \cup {None}]
        /\ \A j \in Call : \/ calls'[j] = kept[j]
                           \/ calls'[j] = main /\ place # "chat"
                           \/ calls'[j] = side /\ place \in Course /\ place # "chat"
        /\ place # "chat" => \E j \in Call : calls'[j] = main
        /\ place \in Course => \E j \in Call : calls'[j] = side
    <2>0. "chat" \notin Course BY PlacesApart DEF Tops
    <2> HIDE DEF kept, main, side
    <2>1. CASE place = "chat"
      <3>1. calls' = kept BY <2>0, <2>1 DEF Mount, kept
      <3> QED BY <1>3, <2>0, <2>1, <3>1
    <2>2. CASE place \in Course
      <3>1. PICK k1, k2 \in Call : k1 # k2 /\ calls' = [kept EXCEPT ![k1] = main, ![k2] = side]
        BY <2>0, <2>2 DEF Mount, kept, main, side
      <3>2. /\ calls'[k1] = main /\ calls'[k2] = side
            /\ \A j \in Call \ {k1, k2} : calls'[j] = kept[j]
            /\ calls' \in [Call -> Sent \cup {None}]
        BY <1>1, <1>3, <3>1
      <3> QED BY <2>0, <2>2, <3>2
    <2>3. CASE place # "chat" /\ place \notin Course
      <3>1. PICK k1 \in Call : calls' = [kept EXCEPT ![k1] = main]
        BY <2>3 DEF Mount, kept, main
      <3> QED BY <1>1, <1>3, <2>3, <3>1
    <2> QED BY <2>1, <2>2, <2>3
  <1> HIDE DEF kept, main, side
  <1>5. main # None /\ side # None BY <1>1, NoneIsNoCall
  <1>6. Blank \in Screen /\ Blank.filter = None /\ Blank.main = Loading /\ Blank.side = Loading
        /\ Blank.form = "closed" /\ Blank.target = None /\ Blank.deleting = None /\ Blank.pending = {}
    BY DEF Blank, Screen, View, Loading
  <1>7. /\ ui' \in Screen /\ ui'.filter = f /\ ui'.main = Loading /\ ui'.side = Loading
        /\ ui'.form = "closed" /\ ui'.target = None /\ ui'.deleting = None /\ ui'.pending = {}
    BY <1>2, <1>6 DEF Screen
  <1>8. TypeOK' BY <1>2, <1>4, <1>7 DEF IInv, TypeOK
  <1>9. CallsFit'
    <2> SUFFICES ASSUME NEW j \in Call, calls'[j] # None
                 PROVE  (Fits(calls[j]) /\ (calls[j].mine => OfPage(calls[j])))'
      BY DEF CallsFit
    <2>1. CASE calls'[j] = kept[j]
      <3>1. Fits(calls[j]) /\ calls[j].op \in Ops
        BY <1>3, <2>1 DEF IInv, CallsFit, Fits, Sent
      <3> QED BY <1>3, <2>1, <3>1 DEF Fits, Ops
    <2>2. CASE calls'[j] \in {main, side} /\ place # "chat"
      BY <1>1, <1>2, <2>2, PlacesApart DEF Fits, OfPage, Ops, Tops
    <2> QED BY <1>4, <2>1, <2>2
  <1>10. ScreenFits' BY <1>7 DEF ScreenFits
  <1>11. DeletedIsGone'
    BY <1>1, <1>2, <1>3, <1>4 DEF IInv, DeletedIsGone, Erased
  <1>12. LoadersWait'
    BY <1>1, <1>2, <1>4, <1>5 DEF LoadersWait, EndsMain, EndsSide
  <1>13. \A j \in Call : IsMine(calls'[j], "load") \/ \A op : ~IsMine(calls'[j], op)
    BY <1>1, <1>3, <1>4 DEF IsMine
  <1>14. \A j \in Call : \A op : IsMine(calls'[j], op) => op = "load"
    BY <1>13 DEF IsMine
  <1>15. FlagsExact'
    <2>1. \A op \in Flagged' \cup {"delete"} : op # "load" BY DEF Flagged
    <2> QED BY <1>7, <1>14, <2>1 DEF FlagsExact
  <1>16. LoadsFilter' BY <1>1, <1>2, <1>3, <1>4, <1>7 DEF LoadsFilter, IsMine
  <1>17. Fresh' BY <1>7 DEF Fresh, Shows, Loading
  <1> QED BY <1>8, <1>9, <1>10, <1>11, <1>12, <1>15, <1>16, <1>17 DEF IInv

-----------------------------------------------------------------------------
(* The invariant, and what follows from it                                    *)

\* A click on a link keeps the invariant.
LEMMA NavigateKeeps == ASSUME IInv, NEW place \in Places, Navigate(place) PROVE IInv'
  <1>1. /\ clicks' = clicks + 1 /\ clicks < MaxClicks
        /\ \/ Mount(place, None)
           \/ at \in Course /\ place = "documents" /\ Mount(place, at)
    BY DEF Navigate
  <1>2. clicks' \in 0 .. MaxClicks BY <1>1, ClicksBound DEF IInv, TypeOK
  <1> QED BY <1>1, <1>2, MountKeeps

\* A push that arrives keeps the invariant.
LEMMA ArriveKeeps == ASSUME IInv, Arrive PROVE IInv'
  <1>1. going # None /\ going \in Tops /\ clicks' \in 0 .. MaxClicks
    BY DEF Arrive, IInv, TypeOK
  <1>2. CASE Mount(going, None)
    BY <1>1, <1>2, MountKeeps DEF Places
  <1>3. CASE going = at /\ going' = None /\ UNCHANGED <<courses, docs, settled, at, ui, calls, doubt, clicks>>
    <2> USE <1>3 DEF IInv
    <2>1. TypeOK' /\ CallsFit' /\ ScreenFits' /\ DeletedIsGone' /\ LoadersWait'
      BY DEF TypeOK, CallsFit, Fits, OfPage, ScreenFits, Own, DeletedIsGone, Erased,
             LoadersWait, EndsMain, EndsSide
    <2>2. FlagsExact' /\ LoadsFilter' BY DEF FlagsExact, Flagged, IsMine, LoadsFilter
    <2>3. at \notin Course \cup Doc BY <1>1, PlacesApart
    <2>4. Fresh' BY <2>3, AsReadKept DEF Fresh, Leaving, Shows, Ahead
    <2> QED BY <2>1, <2>2, <2>4
  <1>4. CASE going = at /\ ui.filter # None /\ going' = None /\ \E k \in Call : SetFilter(k, None)
    <2>1. at = "documents" BY <1>4 DEF IInv, LoadsFilter
    <2> QED BY <1>1, <1>4, <2>1, FilterKeeps
  <1> QED BY <1>2, <1>3, <1>4 DEF Arrive

\* The invariant holds when the first page is opened.
LEMMA InitInv == Init => IInv
  <1> SUFFICES ASSUME Init PROVE IInv
    OBVIOUS
  <1>1. PICK c \in Course, n \in Name, d \in Doc :
          /\ courses = [x \in Course |-> IF x = c THEN n ELSE Unborn]
          /\ docs = [x \in Doc |-> IF x = d THEN c ELSE Unborn]
          /\ settled = {d}
          /\ at \in {"dashboard", "courses", "documents", c, d}
    BY DEF Init
  <1>2. ui = Blank /\ going = None /\ clicks = 0 /\ doubt = {} BY DEF Init
  <1> DEFINE Opening(part) == [op |-> "load", item |-> None, value |-> None, params |-> None,
                               part |-> part, step |-> "read", answer |-> "none",
                               data |-> None, push |-> None, mine |-> TRUE]
  <1>3. \A part \in {"main", "side"} :
          /\ Opening(part) \in Sent /\ Opening(part).op = "load" /\ Opening(part).part = part
          /\ Opening(part).mine /\ Opening(part).step = "read" /\ Opening(part).answer = "none"
          /\ Opening(part).push = None /\ Opening(part).params = None
    BY DEF Sent, Ops
  <1>4. PICK k1, k2 \in Call :
          /\ k1 # k2
          /\ calls = [k \in Call |-> IF k = k1 THEN Opening("main")
                                    ELSE IF k = k2 /\ at \in Course THEN Opening("side") ELSE None]
    BY DEF Init
  <1> HIDE DEF Opening
  <1>5. /\ ui \in Screen /\ ui.filter = None /\ ui.main = Loading /\ ui.side = Loading
        /\ ui.form = "closed" /\ ui.target = None /\ ui.deleting = None /\ ui.pending = {}
    BY <1>2 DEF Blank, Screen, View, Loading
  <1>6. at \in Places /\ at # "chat" BY <1>1, PlacesApart DEF Places, Tops
  <1>7. /\ calls \in [Call -> Sent \cup {None}]
        /\ \A k \in Call : \/ calls[k] = None \/ calls[k] = Opening("main")
                           \/ calls[k] = Opening("side") /\ at \in Course
        /\ calls[k1] = Opening("main") /\ (at \in Course => calls[k2] = Opening("side"))
    BY <1>3, <1>4
  <1>8. Opening("main") # None /\ Opening("side") # None BY <1>3, NoneIsNoCall
  <1>9. TypeOK BY <1>1, <1>2, <1>5, <1>6, <1>7, ClicksBound DEF TypeOK
  <1>10. CallsFit
    <2> SUFFICES ASSUME NEW k \in Call, calls[k] # None PROVE Fits(calls[k]) /\ OfPage(calls[k])
      BY DEF CallsFit
    <2>1. calls[k] \in {Opening("main"), Opening("side")} BY <1>7
    <2> QED BY <1>3, <1>6, <2>1 DEF Fits, OfPage, Ops
  <1>11. ScreenFits BY <1>5 DEF ScreenFits
  <1>12. DeletedIsGone BY <1>3, <1>7 DEF DeletedIsGone
  <1>13. LoadersWait BY <1>3, <1>7, <1>8 DEF LoadersWait, EndsMain, EndsSide
  <1>14. FlagsExact
    <2>1. \A k \in Call : \A op : IsMine(calls[k], op) => op = "load"
      BY <1>3, <1>7 DEF IsMine
    <2>2. \A op \in Flagged \cup {"delete"} : op # "load" BY DEF Flagged
    <2> QED BY <1>5, <2>1, <2>2 DEF FlagsExact
  <1>15. LoadsFilter BY <1>3, <1>5, <1>7 DEF LoadsFilter, IsMine
  <1>16. Fresh BY <1>5 DEF Fresh, Shows, Loading
  <1> QED BY <1>9, <1>10, <1>11, <1>12, <1>13, <1>14, <1>15, <1>16 DEF IInv

\* What a step of the system is.
LEMMA Steps ==
    ASSUME Next
    PROVE  \/ Opens \/ Arrive \/ \E place \in Places : Navigate(place)
           \/ \E d \in Doc : Settle(d)
           \/ \E k \in Call :
                \/ ServeRead(k) \/ ServeChange(k) \/ Overdue(k) \/ LoadDone(k)
                \/ Sends(k) \/ ListEnds(k) \/ DetailEnds(k)
                \/ at = "documents" /\ \E f \in Course \cup {None} : ChangeFilter(k, f)
  <1>1. CASE CoursesNext BY <1>1 DEF CoursesNext, Opens, Sends, ListEnds
  <1>2. CASE DocumentsNext BY <1>2 DEF DocumentsNext, Opens, Sends, ListEnds
  <1>3. CASE WorkspaceNext BY <1>3 DEF WorkspaceNext, Opens, Sends, DetailEnds
  <1>4. CASE DetailNext BY <1>4 DEF DetailNext, Opens, Sends, DetailEnds
  <1>5. CASE DashboardNext BY <1>5 DEF DashboardNext
  <1> QED BY <1>1, <1>2, <1>3, <1>4, <1>5 DEF Next

\* Every step keeps the invariant.
LEMMA StepInv == IInv /\ [Next]_vars => IInv'
  <1> SUFFICES ASSUME IInv, [Next]_vars PROVE IInv'
    OBVIOUS
  <1>1. CASE UNCHANGED vars
    <2> USE <1>1 DEF IInv, vars
    <2>1. TypeOK' /\ CallsFit' /\ ScreenFits' /\ DeletedIsGone' /\ LoadersWait'
      BY DEF TypeOK, CallsFit, Fits, OfPage, ScreenFits, Own, DeletedIsGone, Erased,
             LoadersWait, EndsMain, EndsSide
    <2>2. FlagsExact' /\ LoadsFilter' BY DEF FlagsExact, Flagged, IsMine, LoadsFilter
    <2>3. Fresh' BY AsReadKept DEF Fresh, Leaving, Shows, Ahead
    <2> QED BY <2>1, <2>2, <2>3
  <1>2. ASSUME NEW k \in Call, NEW f \in Course \cup {None}, at = "documents", ChangeFilter(k, f)
        PROVE  IInv'
    <2>1. SetFilter(k, f) /\ going' = going /\ clicks' = clicks + 1 /\ clicks < MaxClicks
      BY <1>2 DEF ChangeFilter
    <2>2. clicks' \in 0 .. MaxClicks BY <2>1, ClicksBound DEF IInv, TypeOK
    <2> QED BY <1>2, <2>1, <2>2, FilterKeeps
  <1>3. CASE Next
    BY <1>2, <1>3, Steps, OpensKeep, ArriveKeeps, NavigateKeeps, ServeReadKeeps, ServeChangeKeeps,
       SettleKeeps, OverdueKeeps, LoadDoneKeeps, SendsKeep, ListEndsKeep, DetailEndsKeep
  <1> QED BY <1>1, <1>3

\* What the pages show and wait for fits, in every reachable state.
THEOREM Invariance == Spec => []IInv
  BY InitInv, StepInv, PTL DEF Spec

-----------------------------------------------------------------------------
(* The properties of Pages                                                    *)

\* Rows, screens and calls keep their types (PageCalls.tla).
THEOREM TypeCorrect == Spec => []TypeOK
  BY Invariance, PTL DEF IInv

\* No page shows a loader without waiting for an answer that will replace it.
THEOREM LoadersAreAwaited == Spec => []LoadersEnd
  <1>1. IInv => LoadersEnd
    BY DEF IInv, LoadersWait, LoadersEnd, EndsMain, EndsSide, Mine
  <1> QED BY <1>1, Invariance, PTL

\* A button is disabled exactly while its one handler is waiting, and no page deletes,
\* or sends the same save, twice.
THEOREM ButtonsTellTheTruth == Spec => []FlagsTellTheTruth
  <1>1. ASSUME IInv PROVE FlagsTellTheTruth
    <2>1. \A op : Mine(op) = {k \in Call : IsMine(calls[k], op)} BY DEF Mine, IsMine
    <2>2. \A op : (\A k \in Call : ~IsMine(calls[k], op)) => Cardinality(Mine(op)) = 0
      BY <2>1, FS_EmptySet
    <2>3. \A op \in Flagged \cup {"delete"} :
             (\E k \in Call : IsMine(calls[k], op)) => Cardinality(Mine(op)) = 1
      <3> SUFFICES ASSUME NEW op \in Flagged \cup {"delete"}, NEW k \in Call, IsMine(calls[k], op)
                   PROVE  Cardinality(Mine(op)) = 1
        OBVIOUS
      <3>1. Mine(op) = {k} BY <1>1, <2>1 DEF IInv, FlagsExact
      <3> QED BY <3>1, FS_Singleton
    <2>4. ASSUME NEW op \in Flagged
          PROVE  Cardinality(Mine(op)) = IF op \in ui.pending THEN 1 ELSE 0
      BY <1>1, <2>2, <2>3 DEF IInv, FlagsExact
    <2>5. Cardinality(Mine("delete")) <= 1
      <3>1. Cardinality(Mine("delete")) = 0 \/ Cardinality(Mine("delete")) = 1 BY <2>2, <2>3
      <3> QED BY <3>1
    <2>6. /\ \A k \in Mine("delete") : ui.deleting = calls[k].item
          /\ ui.deleting # None => Mine("delete") # {} \/ (at \in Doc /\ ~Present(docs[at]))
      BY <1>1, <2>1 DEF IInv, FlagsExact, Present
    <2> QED BY <2>4, <2>5, <2>6 DEF FlagsTellTheTruth, Flagged
  <1> QED BY <1>1, Invariance, PTL

\* A page at rest shows what is on the server, unless it is known to be out of date.
THEOREM PagesAreCurrent == Spec => []QuietPagesAreCurrent
  <1>1. ASSUME IInv, going = None, \A k \in Call : calls[k] = None \/ ~calls[k].mine
        PROVE  Shows("main", ui.main) /\ (at \in Course => Shows("side", ui.side))
    BY <1>1 DEF IInv, Fresh, Leaving, Ahead
  <1>2. IInv => QuietPagesAreCurrent
    BY <1>1 DEF QuietPagesAreCurrent, Shows
  <1> QED BY <1>2, Invariance, PTL

\* The load of a filter never shows the documents of another one.
THEOREM FiltersAreCurrent == Spec => FilterLoadsAreCurrent
  <1>1. ASSUME IInv, [Next]_vars, NEW k \in Call, at = "documents", at' = at,
               k \in Mine("load"), calls'[k] = None, ui'.main.status = "ready", ui'.main # ui.main
        PROVE  ui'.main.for = ui'.filter
    <2> USE <1>1 DEF IInv
    <2>1. /\ calls[k] # None /\ calls[k].op = "load" /\ calls[k].params = ui.filter
          /\ calls \in [Call -> Sent \cup {None}] /\ ui \in Screen
          /\ at \notin Course /\ at \notin Doc
      BY PlacesApart DEF Mine, LoadsFilter, IsMine, TypeOK, Tops
    <2>2. \A j \in Call : \A c : calls[j] = None => calls' # [calls EXCEPT ![j] = c]
      BY <2>1
    <2>3. ASSUME NEW j \in Call, LoadDone(j) PROVE ui'.main.for = ui'.filter
      <3>1. j = k BY <2>1, <2>3 DEF LoadDone, End
      <3> DEFINE c == calls[k]
                 got == IF Succeeded(k) THEN Ready(c.data, c.params) ELSE Broken
      <3>2. ui' = IF c.part = "main" THEN [ui EXCEPT !.main = got] ELSE [ui EXCEPT !.side = got]
        BY <2>3, <3>1 DEF LoadDone
      <3> HIDE DEF got
      <3>3. ui'.main = got /\ ui'.filter = ui.filter
        BY <2>1, <3>2 DEF Screen
      <3> QED BY <2>1, <3>3 DEF got, Ready, Broken
    <2>4. CASE Opens
      <3>1. calls' = calls
        BY <2>4 DEF Opens, OpenCreate, CloseForm, CancelDelete, OpenEdit, RequestDelete, SelectFile,
                    CancelUpload, CancelEdit, OpenEditDialog, ToggleEdit, OpenDetailEdit,
                    CancelDetailEdit, Look
      <3> QED BY <2>1, <3>1
    <2>5. ASSUME NEW j \in Call, Sends(j) PROVE FALSE
      BY <2>1, <2>2, <2>5 DEF Sends, RefreshDocs, ConfirmUpload, ConfirmDelete, SubmitEdit, Start
    <2>6. ASSUME NEW j \in Call, ServeRead(j) \/ ServeChange(j) \/ Overdue(j) PROVE FALSE
      BY <2>6 DEF ServeRead, ServeChange, Overdue
    <2>7. ASSUME NEW j \in Call, ListEnds(j) PROVE FALSE
      <3>1. j # k /\ (End(j) \/ ReadNext(j))
        BY <2>1, <2>7 DEF ListEnds, UploadDone, EditDone, ListDeleteDone
      <3> QED BY <2>1, <3>1 DEF End, ReadNext
    <2>8. ASSUME NEW j \in Call, NEW f, SetFilter(j, f) PROVE FALSE
      BY <2>1, <2>8 DEF SetFilter, Screen
    <2>9. ASSUME NEW place \in Places, Navigate(place) PROVE FALSE
      BY <2>9 DEF Navigate, Mount
    <2>10. CASE Arrive BY <2>8, <2>10 DEF Arrive, Mount
    <2>11. ASSUME NEW j \in Call, DetailEnds(j) PROVE FALSE
      BY <2>1, <2>11 DEF DetailEnds
    <2>12. CASE UNCHANGED vars BY <2>12 DEF vars
    <2>13. ASSUME NEW d \in Doc, Settle(d) PROVE FALSE BY <2>13 DEF Settle
    <2> QED BY <2>3, <2>4, <2>5, <2>6, <2>7, <2>8, <2>9, <2>10, <2>11, <2>12, <2>13, Steps
            DEF ChangeFilter
  <1>2. IInv /\ [Next]_vars =>
          [\A k \in Call :
             /\ at = "documents" /\ at' = at
             /\ k \in Mine("load") /\ calls'[k] = None /\ ui'.main.status = "ready"
             /\ ui'.main # ui.main
             => ui'.main.for = ui'.filter]_vars
    BY <1>1
  <1> QED BY <1>2, Invariance, PTL DEF Spec, FilterLoadsAreCurrent

\* The dialog of a deletion under way is not closed before the row has gone, nor turned
\* back to that row.
THEOREM DialogsCloseWhenGone == Spec => DialogClosesWhenGone
  <1>1. ASSUME IInv, [Next]_vars, ui.target # None, ui.deleting # None, at' = at,
               ui'.target # ui.target
        PROVE  IF ui'.target = None
               THEN ~Present(IF ui.deleting \in Course THEN courses'[ui.deleting] ELSE docs'[ui.deleting])
               ELSE ui'.target # ui.deleting
    <2> USE <1>1 DEF IInv
    <2>1. /\ ui \in Screen /\ ui.deleting \in Course \cup Doc /\ calls \in [Call -> Sent \cup {None}]
          /\ None \notin Course \cup Doc
      BY NoneOfThem DEF TypeOK, Screen
    <2> DEFINE Over == /\ Erased(ui.deleting) /\ UNCHANGED <<courses, docs>> /\ ui'.target = None
               Turned == ui'.target # None /\ ui'.target # ui.deleting
    <2>2. Over => ~Present(IF ui.deleting \in Course THEN courses'[ui.deleting] ELSE docs'[ui.deleting])
      BY DEF Erased, Present
    <2>3. \A j \in Call : IsMine(calls[j], "delete") => ui.deleting = calls[j].item
      BY DEF FlagsExact
    <2>4. CASE Opens
      <3>1. ASSUME NEW i \in Course \cup Doc, RequestDelete(i), i # ui.deleting PROVE Turned
        BY <2>1, <3>1 DEF RequestDelete, Screen
      <3>2. CASE CancelDelete BY <2>1, <3>2 DEF CancelDelete
      <3>3. CASE \/ OpenCreate \/ CloseForm \/ (\E c \in Course : OpenEdit(c)) \/ SelectFile
                 \/ CancelUpload \/ CancelEdit \/ (\E d \in Doc : OpenEditDialog(d))
                 \/ ToggleEdit \/ OpenDetailEdit \/ CancelDetailEdit
        BY <2>1, <3>3 DEF OpenCreate, CloseForm, OpenEdit, SelectFile, CancelUpload, CancelEdit,
                    OpenEditDialog, ToggleEdit, OpenDetailEdit, CancelDetailEdit, Screen
      <3>4. CASE at \in Course \cup Doc /\ RequestDelete(at)
        <4>1. ui.target = at BY <3>4, PlacesApart DEF ScreenFits, Own, Tops
        <4> QED BY <2>1, <3>4, <4>1 DEF RequestDelete, Screen
      <3> QED BY <2>4, <3>1, <3>2, <3>3, <3>4 DEF Opens, CourseShown, DocShown
    <2>5. ASSUME NEW j \in Call, Sends(j) PROVE FALSE
      BY <2>1, <2>5 DEF Sends, RefreshCourses, RefreshDocs, RefreshSide, ConfirmUpload, ConfirmDelete,
                        SubmitCourse, SubmitEdit, SubmitName, SubmitDetailEdit, StartChat, Screen
    <2>6. ASSUME NEW j \in Call, ServeRead(j) \/ ServeChange(j) \/ Overdue(j) PROVE FALSE
      BY <2>6 DEF ServeRead, ServeChange, Overdue
    <2>7. ASSUME NEW j \in Call, LoadDone(j) PROVE FALSE
      BY <2>1, <2>7 DEF LoadDone, Screen
    <2>8. ASSUME NEW j \in Call, ListEnds(j) PROVE Over
      <3>1. CASE CourseSaved(j) BY <2>1, <3>1 DEF CourseSaved, Screen
      <3>2. CASE UploadDone(j) BY <2>1, <3>2 DEF UploadDone, Screen
      <3>3. CASE EditDone(j) BY <2>1, <3>3 DEF EditDone, Screen
      <3>4. CASE ListDeleteDone(j)
        <4>1. /\ calls[j].step = "change" /\ Succeeded(j) /\ Resume /\ IsMine(calls[j], "delete")
              /\ ui'.target = None
          BY <2>1, <3>4 DEF ListDeleteDone, Screen, IsMine, Answered
        <4>2. Erased(calls[j].item) BY <4>1 DEF DeletedIsGone, IsMine, Succeeded
        <4> QED BY <2>3, <4>1, <4>2 DEF Resume
      <3> QED BY <2>8, <3>1, <3>2, <3>3, <3>4 DEF ListEnds
    <2>9. ASSUME NEW j \in Call, DetailEnds(j) PROVE Over
      <3>1. ~ChangeFailed(j) BY <2>1 DEF ChangeFailed, Screen
      <3>2. ~NameSaved(j) BY <2>1, <3>1 DEF NameSaved, Screen
      <3>3. ~WorkspaceDeleted(j) BY <2>1, <3>1 DEF WorkspaceDeleted, Screen
      <3>4. ~DetailSaved(j) BY <2>1, <3>1 DEF DetailSaved, Screen
      <3>5. ~ChatCreated(j) BY <2>1, <3>1 DEF ChatCreated, Screen
      <3>6. DetailDeleted(j) BY <2>9, <3>2, <3>3, <3>4, <3>5 DEF DetailEnds
      <3>7. Succeeded(j) /\ Resume /\ IsMine(calls[j], "delete") /\ ui'.target = None
        BY <2>1, <3>1, <3>6 DEF DetailDeleted, Answered, IsMine, Screen
      <3>8. Erased(calls[j].item) BY <3>7 DEF DeletedIsGone, IsMine, Succeeded
      <3> QED BY <2>3, <3>7, <3>8 DEF Resume
    <2>10. ASSUME NEW j \in Call, NEW f, SetFilter(j, f) PROVE FALSE
      BY <2>1, <2>10 DEF SetFilter, Screen
    <2>11. ASSUME NEW place \in Places, Navigate(place) PROVE FALSE
      BY <2>11 DEF Navigate, Mount
    <2>12. CASE Arrive BY <2>10, <2>12 DEF Arrive, Mount
    <2>13. ASSUME NEW d \in Doc, Settle(d) PROVE FALSE BY <2>13 DEF Settle
    <2>14. CASE UNCHANGED vars BY <2>14 DEF vars
    <2> QED BY <2>2, <2>4, <2>5, <2>6, <2>7, <2>8, <2>9, <2>10, <2>11, <2>12, <2>13, <2>14, Steps
            DEF ChangeFilter
  <1>2. IInv /\ [Next]_vars =>
          [ui.target # None /\ ui.deleting # None /\ at' = at /\ ui'.target # ui.target
           => IF ui'.target = None THEN ~Present(IF ui.deleting \in Course THEN courses'[ui.deleting]
                                                                 ELSE docs'[ui.deleting])
              ELSE ui'.target # ui.deleting]_vars
    BY <1>1
  <1> QED BY <1>2, Invariance, PTL DEF Spec, DialogClosesWhenGone
=============================================================================
