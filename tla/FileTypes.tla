----------------------------- MODULE FileTypes -----------------------------
(***************************************************************************)
(* Which uploads are accepted, and as what: storage/types.py, and the      *)
(* tables the accepted type is looked up in later (storage folders, the    *)
(* processor factory).  A file is what its name, its declared Content-Type *)
(* and its first bytes say.                                                *)
(***************************************************************************)
EXTENDS FiniteSets

NoType == "none"

SupportedFileTypes == {"pdf", "ppt", "pptx", "png", "jpg", "jpeg", "txt"}

AllowedExtensions ==
    [pdf |-> {"pdf"}, pptx |-> {"pptx", "ppt"}, png |-> {"png"},
     jpg |-> {"jpg", "jpeg"}, jpeg |-> {"jpg", "jpeg"}, txt |-> {"txt"}]

\* The Content-Types stand for the family they declare; "octets" is
\* application/octet-stream, "" none at all.
AllowedMimeTypes ==
    [pdf |-> {"pdf"}, pptx |-> {"office", "octets"}, png |-> {"png"},
     jpg |-> {"jpeg"}, jpeg |-> {"jpeg"}, txt |-> {"text"}]

FolderByFileType ==
    [pdf |-> "pdf", ppt |-> "ppt", pptx |-> "ppt", png |-> "images",
     jpg |-> "images", jpeg |-> "images", txt |-> "text"]

Extensions == {"pdf", "ppt", "pptx", "png", "jpg", "jpeg", "txt", "other", ""}
ContentTypes == {"pdf", "office", "octets", "png", "jpeg", "text", "other", ""}
Contents == {"pdf", "ole", "zip", "png", "jpeg", "other"}

File == [extension : Extensions, declared : ContentTypes, content : Contents]

ContentTypeMatches(canonical, declared) ==
    IF declared = "octets" THEN canonical = "pptx" ELSE declared \in AllowedMimeTypes[canonical]

\* The types whose first bytes these are.
CandidatesFromMagic(content) ==
    CASE content = "pdf" -> {"pdf"}
      [] content = "jpeg" -> {"jpg", "jpeg"}
      [] content = "png" -> {"png"}
      [] content \in {"ole", "zip"} -> {"pptx", "ppt"}
      [] OTHER -> {}

\* Mutation: the name alone decides.
DetectByName(file) ==
    IF file.extension \in SupportedFileTypes THEN file.extension ELSE NoType

\* The extension must name one type, which must be the declared one and among
\* those the first bytes may be.
DetectFileType(file) ==
    LET named == {type \in DOMAIN AllowedExtensions : file.extension \in AllowedExtensions[type]} IN
    IF \E type \in named :
          /\ named = {type}
          /\ ContentTypeMatches(type, file.declared)
          /\ type \in CandidatesFromMagic(file.content)
    THEN CHOOSE type \in named : TRUE
    ELSE NoType

\* The processor a stored type is dispatched to.
Processor(type) ==
    CASE type = "pdf" -> "PDFProcessor"
      [] type \in {"ppt", "pptx"} -> "PPTProcessor"
      [] type = "txt" -> "TextProcessor"
      [] type \in {"png", "jpg", "jpeg"} -> "ImageProcessor"
      [] OTHER -> NoType
=============================================================================
