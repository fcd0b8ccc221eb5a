---------------------------- MODULE DetailPages ----------------------------
(***************************************************************************)
(* The page of one course (CourseWorkspace.tsx) and of one document         *)
(* (DocumentDetailPanel.tsx).  While its course loads, or could not be      *)
(* loaded, the workspace shows nothing else: no form, no dialog.            *)
(***************************************************************************)
EXTENDS PageCalls

Onscreen == ui.main.status = "ready"

\* The PATCH or DELETE of either page is refused, or its answer is lost.
ChangeFailed(k) ==
    LET op == calls[k].op IN
    /\ ui' = [ui EXCEPT !.errors = @ \cup {op}, !.pending = @ \ {op},
                        !.deleting = IF op = "delete" THEN None ELSE @]
    /\ End(k) /\ UNCHANGED <<going, doubt>>

-----------------------------------------------------------------------------
(* A course *)

RefreshSide(k) ==
    /\ Onscreen /\ ui.side.status # "loading"
    /\ ui' = [ui EXCEPT !.side = Loading]
    /\ Start(k, [Request("refresh", None, None, None) EXCEPT !.part = "side"])

ToggleEdit ==
    /\ Onscreen
    /\ ui' = [ui EXCEPT !.form = IF @ = "closed" THEN at ELSE "closed",
                        !.errors = @ \ {"update"}]
    /\ Look

SubmitName(k, name) ==
    /\ Onscreen /\ ui.form # "closed" /\ "update" \notin ui.pending
    /\ ui' = [ui EXCEPT !.pending = @ \cup {"update"}, !.errors = @ \ {"update"}]
    /\ Start(k, Request("update", at, name, None))

\* Mutation: loadCourse throws its failure to handleUpdate.
NameSavedThrowing(k) ==
    LET c == calls[k] IN
    /\ Answered(k) /\ c.op = "update"
    /\ \/ /\ c.step = "change" /\ Succeeded(k)
          /\ ui' = [ui EXCEPT !.main = Loading]
          /\ ReadNext(k) /\ UNCHANGED <<going, doubt>>
       \/ /\ ~Succeeded(k)
          /\ ChangeFailed(k)
       \/ /\ c.step = "read" /\ Succeeded(k)
          /\ ui' = [ui EXCEPT !.main = Ready(c.data, c.params), !.form = "closed",
                              !.pending = @ \ {"update"}]
          /\ End(k) /\ UNCHANGED going /\ Believe(c)
    /\ Resume

\* loadCourse shows the loader, and keeps its own failure to itself.
NameSaved(k) ==
    LET c == calls[k] IN
    /\ Answered(k) /\ c.op = "update"
    /\ \/ /\ c.step = "change" /\ Succeeded(k)
          /\ ui' = [ui EXCEPT !.main = Loading]
          /\ ReadNext(k) /\ UNCHANGED <<going, doubt>>
       \/ /\ c.step = "change" /\ ~Succeeded(k)
          /\ ChangeFailed(k)
       \/ /\ c.step = "read"
          /\ ui' = [ui EXCEPT !.main = IF Succeeded(k) THEN Ready(c.data, c.params) ELSE Broken,
                              !.form = "closed", !.pending = @ \ {"update"}]
          /\ End(k) /\ UNCHANGED going
          /\ IF Succeeded(k) THEN Believe(c) ELSE UNCHANGED doubt
    /\ Resume

\* The dialog stays until the page has gone.
WorkspaceDeleted(k) ==
    /\ Answered(k) /\ calls[k].op = "delete"
    /\ \/ /\ Succeeded(k)
          /\ ui' = [ui EXCEPT !.deleting = None]
          /\ going' = calls[k].push
          /\ End(k) /\ UNCHANGED doubt
       \/ ~Succeeded(k) /\ ChangeFailed(k)
    /\ Resume

WorkspaceNext ==
    /\ at \in Course
    /\ \/ ToggleEdit
       \/ Onscreen /\ (RequestDelete(at) \/ CancelDelete)
       \/ \E k \in Call : \/ RefreshSide(k) \/ LoadDone(k) \/ NameSaved(k) \/ WorkspaceDeleted(k)
                          \/ Onscreen /\ ConfirmDelete(k, "courses")
                          \/ \E name \in Name : SubmitName(k, name)

-----------------------------------------------------------------------------
(* A document *)

OpenDetailEdit ==
    /\ Onscreen /\ ui.form = "closed"
    /\ ui' = [ui EXCEPT !.form = at]
    /\ Look

CancelDetailEdit ==
    /\ ui.form # "closed" /\ "edit" \notin ui.pending
    /\ ui' = [ui EXCEPT !.form = "closed", !.errors = @ \ {"edit"}]
    /\ Look

SubmitDetailEdit(k, value) ==
    /\ ui.form # "closed" /\ "edit" \notin ui.pending
    /\ ui' = [ui EXCEPT !.pending = @ \cup {"edit"}, !.errors = @ \ {"edit"}]
    /\ Start(k, Request("edit", at, value, None))

\* The page shows the document that the PATCH returned.
DetailSaved(k) ==
    LET c == calls[k] IN
    /\ Answered(k) /\ c.op = "edit"
    /\ \/ /\ Succeeded(k)
          /\ ui' = [ui EXCEPT !.main = Ready(c.data, c.params), !.form = "closed",
                              !.pending = @ \ {"edit"}]
          /\ End(k) /\ Believe(c) /\ UNCHANGED going
       \/ ~Succeeded(k) /\ ChangeFailed(k)
    /\ Resume

\* isConfirmingDelete is not reset: the page is on its way out.
DetailDeleted(k) ==
    /\ Answered(k) /\ calls[k].op = "delete"
    /\ \/ /\ Succeeded(k)
          /\ ui' = [ui EXCEPT !.target = None]
          /\ going' = calls[k].push
          /\ End(k) /\ UNCHANGED doubt
       \/ ~Succeeded(k) /\ ChangeFailed(k)
    /\ Resume

StartChat(k) ==
    /\ Onscreen /\ "chat" \notin ui.pending
    /\ ui' = [ui EXCEPT !.pending = @ \cup {"chat"}, !.errors = @ \ {"chat"}]
    /\ Start(k, Request("chat", at, None, "chat"))

ChatCreated(k) ==
    /\ Answered(k) /\ calls[k].op = "chat"
    /\ \/ /\ Succeeded(k)
          /\ ui' = [ui EXCEPT !.pending = @ \ {"chat"}]
          /\ going' = calls[k].push
          /\ End(k) /\ UNCHANGED doubt
       \/ ~Succeeded(k) /\ ChangeFailed(k)
    /\ Resume

DetailNext ==
    /\ at \in Doc
    /\ \/ OpenDetailEdit \/ CancelDetailEdit \/ CancelDelete
       \/ Onscreen /\ RequestDelete(at)
       \/ \E k \in Call : \/ LoadDone(k) \/ DetailSaved(k) \/ DetailDeleted(k)
                          \/ StartChat(k) \/ ChatCreated(k)
                          \/ ConfirmDelete(k, "documents")
                          \/ \E v \in Course \cup {NoCourse} : SubmitDetailEdit(k, v)
=============================================================================
