---------------------------- MODULE CoursesPage ----------------------------
(***************************************************************************)
(* /courses (CoursesPanel.tsx): the list, one form for creating or editing, *)
(* and the delete dialog.  Creating and updating list first and close the   *)
(* form afterwards; whatever form is open then is the one that closes.      *)
(***************************************************************************)
EXTENDS PageCalls

\* Rows have buttons while the list is on screen.
CourseShown(c) == ui.main.status = "ready" /\ Present(ui.main.data[c]) /\ ui.deleting # c

RefreshCourses(k) ==
    /\ ui.main.status # "loading"
    /\ ui' = [ui EXCEPT !.main = Loading]
    /\ Start(k, Request("refresh", None, None, None))

OpenCreate ==
    /\ ui.form # "create"
    /\ ui' = [ui EXCEPT !.form = "create", !.errors = @ \ {"create"}]
    /\ Look

OpenEdit(c) ==
    /\ CourseShown(c)
    /\ ui' = [ui EXCEPT !.form = c, !.errors = @ \ {"update"}]
    /\ Look

CloseForm ==
    /\ ui.form # "closed"
    /\ ui' = [ui EXCEPT !.form = "closed",
                        !.errors = @ \ {IF ui.form = "create" THEN "create" ELSE "update"}]
    /\ Look

\* Mutation: the button of the form stays enabled.
SubmitCourseAgain(k, name) ==
    LET op == IF ui.form = "create" THEN "create" ELSE "update" IN
    /\ ui.form # "closed"
    /\ ui' = [ui EXCEPT !.pending = @ \cup {op}, !.errors = @ \ {op}]
    /\ Start(k, Request(op, ui.form, name, None))

\* The form's button is disabled while a save of its kind is pending.
SubmitCourse(k, name) ==
    LET op == IF ui.form = "create" THEN "create" ELSE "update" IN
    /\ ui.form # "closed" /\ op \notin ui.pending
    /\ ui' = [ui EXCEPT !.pending = @ \cup {op}, !.errors = @ \ {op}]
    /\ Start(k, Request(op, ui.form, name, None))

CourseSaved(k) ==
    LET c == calls[k] IN
    /\ Answered(k) /\ c.op \in {"create", "update"}
    /\ \/ /\ c.step = "change" /\ Succeeded(k)
          /\ ReadNext(k) /\ UNCHANGED <<ui, doubt>>
       \/ /\ c.step = "read" /\ Succeeded(k)
          /\ ui' = [ui EXCEPT !.main = Ready(c.data, c.params), !.form = "closed",
                              !.pending = @ \ {c.op}]
          /\ End(k) /\ Believe(c)
       \/ /\ ~Succeeded(k)
          /\ ui' = [ui EXCEPT !.errors = @ \cup {c.op}, !.pending = @ \ {c.op}]
          /\ End(k)
          /\ doubt' = IF c.step = "read" THEN doubt \cup {"main"} ELSE doubt
    /\ Resume /\ UNCHANGED going

CoursesNext ==
    /\ at = "courses"
    /\ \/ OpenCreate \/ CloseForm \/ CancelDelete
       \/ \E c \in Course : OpenEdit(c) \/ (CourseShown(c) /\ RequestDelete(c))
       \/ \E k \in Call : \/ RefreshCourses(k) \/ ConfirmDelete(k, None)
                          \/ LoadDone(k) \/ CourseSaved(k) \/ ListDeleteDone(k)
                          \/ \E name \in Name : SubmitCourse(k, name)
=============================================================================
