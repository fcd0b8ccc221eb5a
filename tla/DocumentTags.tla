--------------------------- MODULE DocumentTags ---------------------------
(***************************************************************************)
(* The tags of a document's metadata, as the request schemas take them in  *)
(* (schemas/document.py).  A tag as typed has a key, what is left of it    *)
(* trimmed and in lower case, and a form, how it was spelled.              *)
(***************************************************************************)
EXTENDS Lists, SequencesExt

CONSTANTS TagKeys, TagForms, BlankKey, TagsMaxCount

ASSUME TagTypes == BlankKey \notin TagKeys /\ TagsMaxCount \in Nat \ {0}

RawTag == [key : TagKeys \cup {BlankKey}, form : TagForms]
KeysOf(tags) == {tags[i].key : i \in DOMAIN tags}

\* Mutation: a tag is known only if it was spelled the same.
TakeBySpelling(cleaned, tag) ==
    IF Len(cleaned) > TagsMaxCount \/ tag.key = BlankKey \/ Contains(cleaned, tag) THEN cleaned
    ELSE Append(cleaned, tag)

\* Blank tags and those already there are skipped, and the loop ends once there is
\* one more than the maximum.
Take(cleaned, tag) ==
    IF Len(cleaned) > TagsMaxCount \/ tag.key = BlankKey \/ tag.key \in KeysOf(cleaned) THEN cleaned
    ELSE Append(cleaned, tag)

NormalizeTags(raw) ==
    LET cleaned[i \in 0 .. Len(raw)] == IF i = 0 THEN <<>> ELSE Take(cleaned[i - 1], raw[i])
    IN cleaned[Len(raw)]

\* The field's own limit is checked on what the validator returns.
TagsAccepted(raw) == Len(NormalizeTags(raw)) <= TagsMaxCount
=============================================================================
