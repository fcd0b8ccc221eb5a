--------------------------- MODULE DocumentsPage ---------------------------
(***************************************************************************)
(* /documents (DocumentsPanel.tsx): the list under the filter of the URL,   *)
(* the upload dialog, the edit dialog and the delete dialog.  Uploading,    *)
(* editing and deleting close their dialog first and list afterwards, with  *)
(* the filter that was set when they started.  The filter stands for both   *)
(* of the page's filters.                                                   *)
(***************************************************************************)
EXTENDS PageCalls

DocShown(d) == ui.main.status = "ready" /\ Present(ui.main.data[d]) /\ ui.deleting # d

RefreshDocs(k) ==
    /\ ui.main.status # "loading" /\ "upload" \notin ui.pending
    /\ ui' = [ui EXCEPT !.main = Loading]
    /\ Start(k, Request("refresh", None, None, None))

\* Mutation: the effect has no cleanup.
SetFilterOnly(k, f) ==
    /\ calls[k] = None
    /\ ui' = [ui EXCEPT !.filter = f]
    /\ calls' = [calls EXCEPT ![k] = Load("main", f)]
    /\ UNCHANGED <<server, at, doubt>>

\* The effect of the new filter loads its list; the cleanup of the old one cancels
\* the load it had started, and nothing else.
SetFilter(k, f) ==
    LET cancelled == Mine("load") IN
    /\ calls[k] = None \/ k \in cancelled
    /\ ui' = [ui EXCEPT !.filter = f]
    /\ calls' = [j \in Call |-> IF j = k THEN Load("main", f)
                                ELSE IF j \in cancelled THEN None ELSE calls[j]]
    /\ UNCHANGED <<server, at, doubt>>

ChangeFilter(k, f) ==
    /\ f # ui.filter /\ clicks < MaxClicks
    /\ clicks' = clicks + 1
    /\ SetFilter(k, f) /\ UNCHANGED going

\* The dialog covers the drop zone; it is gone while an upload lists.
SelectFile ==
    /\ ~ui.file
    /\ ui' = [ui EXCEPT !.file = TRUE, !.errors = @ \ {"upload"}]
    /\ Look

CancelUpload ==
    /\ ui.file /\ "upload" \notin ui.pending
    /\ ui' = [ui EXCEPT !.file = FALSE]
    /\ Look

ConfirmUpload(k) ==
    /\ ui.file /\ "upload" \notin ui.pending
    /\ ui' = [ui EXCEPT !.pending = @ \cup {"upload"}, !.errors = @ \ {"upload"}]
    /\ Start(k, Request("upload", None, None, None))

UploadDone(k) ==
    LET c == calls[k] IN
    /\ Answered(k) /\ c.op = "upload"
    /\ \/ /\ c.step = "change" /\ Succeeded(k)
          /\ ui' = [ui EXCEPT !.file = FALSE]
          /\ ReadNext(k) /\ UNCHANGED doubt
       \/ /\ c.step = "read" /\ Succeeded(k)
          /\ ui' = [ui EXCEPT !.main = Ready(c.data, c.params), !.pending = @ \ {"upload"}]
          /\ End(k) /\ Believe(c)
       \/ /\ ~Succeeded(k)
          /\ ui' = [ui EXCEPT !.errors = @ \cup {"upload"}, !.file = FALSE,
                              !.pending = @ \ {"upload"}]
          /\ End(k)
          /\ doubt' = IF c.step = "read" THEN doubt \cup {"main"} ELSE doubt
    /\ Resume /\ UNCHANGED going

OpenEditDialog(d) ==
    /\ DocShown(d)
    /\ ui' = [ui EXCEPT !.form = d, !.errors = @ \ {"edit"}]
    /\ Look

CancelEdit ==
    /\ ui.form # "closed" /\ "edit" \notin ui.pending
    /\ ui' = [ui EXCEPT !.form = "closed", !.errors = @ \ {"edit"}]
    /\ Look

SubmitEdit(k, value) ==
    /\ ui.form # "closed" /\ "edit" \notin ui.pending
    /\ ui' = [ui EXCEPT !.pending = @ \cup {"edit"}, !.errors = @ \ {"edit"}]
    /\ Start(k, Request("edit", ui.form, value, None))

\* Both the success of the PATCH and the end of the handler reset editingId.
EditDone(k) ==
    LET c == calls[k] IN
    /\ Answered(k) /\ c.op = "edit"
    /\ \/ /\ c.step = "change" /\ Succeeded(k)
          /\ ui' = [ui EXCEPT !.form = "closed", !.pending = @ \ {"edit"}]
          /\ ReadNext(k) /\ UNCHANGED doubt
       \/ /\ c.step = "read" /\ Succeeded(k)
          /\ ui' = [ui EXCEPT !.main = Ready(c.data, c.params), !.pending = @ \ {"edit"}]
          /\ End(k) /\ Believe(c)
       \/ /\ ~Succeeded(k)
          /\ ui' = [ui EXCEPT !.errors = @ \cup {"edit"}, !.pending = @ \ {"edit"}]
          /\ End(k)
          /\ doubt' = IF c.step = "read" THEN doubt \cup {"main"} ELSE doubt
    /\ Resume /\ UNCHANGED going

DocumentsNext ==
    /\ at = "documents"
    /\ \/ SelectFile \/ CancelUpload \/ CancelEdit \/ CancelDelete
       \/ \E d \in Doc : OpenEditDialog(d) \/ (DocShown(d) /\ RequestDelete(d))
       \/ \E k \in Call : \/ RefreshDocs(k) \/ ConfirmUpload(k) \/ ConfirmDelete(k, None)
                          \/ LoadDone(k) \/ UploadDone(k) \/ EditDone(k) \/ ListDeleteDone(k)
                          \/ \E f \in Course \cup {None} : ChangeFilter(k, f)
                          \/ \E v \in Course \cup {NoCourse} : SubmitEdit(k, v)
=============================================================================
