--------------------------- MODULE DocumentEdit ---------------------------
(***************************************************************************)
(* Editing a document: the dialog turns what it shows and what was typed   *)
(* into the columns of a PATCH (DocumentEditDialog.tsx), the server writes *)
(* them to the row as it is by then (document_service.py).  A column that  *)
(* is not sent is left alone, None clears it, and the metadata is a column *)
(* like the others.  Of its four texts there is one; texts are trimmed, no *)
(* tag has a comma, and a field that is absent is None or <<>>.  A row     *)
(* that is older than the types has none.                                  *)
(***************************************************************************)
EXTENDS DocumentTags

CONSTANTS DocCourses, DocTypes, Authors, None,
          Untyped   \* the value of the option of that name: an empty string

\* A document's row, as far as the dialog goes, and a form as typed.
Metadata == [author : Authors \cup {None}, tags : Seq(RawTag)]
DocRow == [course : DocCourses \cup {None}, type : DocTypes \cup {None},
           metadata : Metadata \cup {None}]
Form == [course : DocCourses \cup {None}, type : DocTypes \cup {None, Untyped},
         author : Authors \cup {None}, tags : Seq(RawTag)]

ASSUME EditTypes ==
    /\ None \notin DocCourses \cup DocTypes \cup Authors \cup Metadata
    /\ Untyped \notin DocTypes \cup {None}

NoMetadata == [author |-> None, tags |-> <<>>]

\* What the dialog is opened with.
FormOf(row) ==
    LET metadata == IF row.metadata = None THEN NoMetadata ELSE row.metadata
    IN [course |-> row.course, type |-> row.type,
        author |-> metadata.author, tags |-> metadata.tags]

\* A type can be chosen, and Untyped; none is only what a row may be opened with.
Typable(base, form) == form.type = None => base.type = None

\* The pieces between the commas that are not blank.
Pieces(tags) == Picked(tags, {i \in DOMAIN tags : tags[i].key # BlankKey})

MetadataChanged(base, form) ==
    \/ form.author # FormOf(base).author
    \/ Pieces(form.tags) # FormOf(base).tags

Column == {"course", "type", "metadata"}

\* Mutation: the whole form is sent.
ChangedAll(base, form) == Column

\* The columns that are sent: those that differ from what the page shows.
Changed(base, form) ==
    {column \in Column :
        CASE column = "course" -> form.course # base.course
          [] column = "type" -> form.type # base.type
          [] column = "metadata" -> MetadataChanged(base, form)}

\* Their values: a cleared course is null, a blank field of the metadata too, but a
\* cleared type is the empty string of its option.
PayloadOf(base, form) ==
    [column \in Changed(base, form) |->
        CASE column = "course" -> form.course
          [] column = "type" -> form.type
          [] column = "metadata" -> [author |-> form.author, tags |-> Pieces(form.tags)]]

\* Mutation: an empty type passes for none.
AcceptUntyped(payload) == "metadata" \in DOMAIN payload => TagsAccepted(payload.metadata.tags)

\* The schema: the type is one there is, or null, and the tags are not too many.
Acceptable(payload) ==
    /\ "type" \in DOMAIN payload => payload.type \in DocTypes \cup {None}
    /\ "metadata" \in DOMAIN payload => TagsAccepted(payload.metadata.tags)

\* The validated payload as columns to write.
Updates(payload) ==
    [column \in DOMAIN payload |->
        IF column = "metadata"
        THEN [payload.metadata EXCEPT !.tags = NormalizeTags(@)] ELSE payload[column]]

\* A payload that is not valid is refused with 422 and writes nothing of it.
Edited(row, payload) ==
    IF Acceptable(payload)
    THEN [column \in Column |->
             IF column \in DOMAIN Updates(payload) THEN Updates(payload)[column] ELSE row[column]]
    ELSE row
=============================================================================
