---------------------------- MODULE Algorithms ----------------------------
(***************************************************************************)
(* The pure parts of the back end at work: a job is an input of one of     *)
(* them, and is done in one step.  What the algorithms promise is stated   *)
(* of every job that is done, against definitions that say what is wanted  *)
(* rather than how it is found.                                            *)
(***************************************************************************)
EXTENDS FileTypes, Chunking, Retrieval, ChatHistory, DocumentEdit

CONSTANTS Documents,   \* pages to cut into chunks
          Searches,    \* a store, a question, whether the keyword search works
          Histories,   \* messages of a session
          TagLists,    \* tags as typed
          DocRows,     \* a document's course, type and metadata
          Forms        \* the same as typed

ASSUME DocumentsAreTyped == Documents \subseteq Seq(PageRecord)
ASSUME SearchesAreTyped ==
    Searches \subseteq [store : Seq(Point), question : Query, keywordWorks : BOOLEAN]
ASSUME HistoriesAreTyped == Histories \subseteq Seq(Message)
ASSUME TagListsAreTyped == TagLists \subseteq Seq(RawTag)
ASSUME EditsAreTyped == DocRows \subseteq DocRow /\ Forms \subseteq Form
\* The tags of a row have been through the same validator (DocumentMetadataPayload).
ASSUME StoredTagsAreNormal ==
    \A row \in DocRows :
        row.metadata # None => NormalizeTags(row.metadata.tags) = row.metadata.tags

VARIABLES job, result

NotDone == [kind |-> "not done"]

Init ==
    /\ \/ job \in [kind : {"detect"}, file : File]
       \/ job \in [kind : {"chunk"}, pages : Documents]
       \/ job \in [kind : {"search"}, search : Searches]
       \/ job \in [kind : {"remember"}, messages : Histories]
       \/ job \in [kind : {"tag"}, tags : TagLists]
       \/ /\ job \in [kind : {"edit"}, base : DocRows, row : DocRows, form : Forms]
          /\ Typable(job.base, job.form)
    /\ result = NotDone

Done(kind, value) ==
    /\ job.kind = kind /\ result = NotDone
    /\ result' = [kind |-> kind, value |-> value]
    /\ UNCHANGED job

Detect == Done("detect", DetectFileType(job.file))
Chunk == Done("chunk", Process(job.pages))
Search == Done("search", Retrieve(job.search.store, job.search.question, job.search.keywordWorks))
Remember == Done("remember", LoadHistory(job.messages))
Tag == Done("tag", NormalizeTags(job.tags))

Edit == Done("edit", Edited(job.row, PayloadOf(job.base, job.form)))

Next == Detect \/ Chunk \/ Search \/ Remember \/ Tag \/ Edit

Spec == Init /\ [][Next]_<<job, result>>

Is(kind) == result.kind = kind

-----------------------------------------------------------------------------
(* What can open a file that begins with these bytes.  The extractor of    *)
(* PPTProcessor is python-pptx, which opens OOXML packages, zip archives,  *)
(* and no others: nothing reads the OLE files of older PowerPoint.         *)
Reader ==
    [pdf |-> "PDFProcessor", ole |-> NoType, zip |-> "PPTProcessor",
     png |-> "ImageProcessor", jpeg |-> "ImageProcessor", other |-> NoType]

(* What is accepted agrees with the tables it is looked up in later: the   *)
(* type has a processor, the one that can open the file, and shares its    *)
(* folder with what shares its processor.  The exception is accepted like  *)
(* the rest: an OLE file, which its processor cannot open, so that its     *)
(* upload ends FAILED (see AcceptedFilesCanBeRead).                        *)
AcceptedFilesHaveReaders ==
    Is("detect") /\ result.value # NoType =>
        /\ result.value \in SupportedFileTypes
        /\ Processor(result.value) # NoType
        /\ Processor(result.value) = Reader[job.file.content] \/ job.file.content = "ole"
        /\ \A type \in SupportedFileTypes :
              FolderByFileType[type] = FolderByFileType[result.value]
              <=> Processor(type) = Processor(result.value)

(* A supported type is accepted: a file whose name, declared type and      *)
(* first bytes are all those of JPEG.                                      *)
JpegIsAccepted ==
    Is("detect") /\ job.file = [extension |-> "jpg", declared |-> "jpeg", content |-> "jpeg"]
        => result.value \in SupportedFileTypes

-----------------------------------------------------------------------------
Cleaned == Clean(FullText(job.pages))
Letters(t) == {t[i] : i \in DOMAIN t} \ Blank
Chunks == result.value
Distinct == \A i, j \in DOMAIN Cleaned : Cleaned[i] = Cleaned[j] /\ Cleaned[i] > 0 => i = j

(* Every letter of the document is in a chunk, chunks are passages of the  *)
(* text, and they come in its order.                                       *)
NothingIsLost ==
    Is("chunk") =>
        /\ Letters(Cleaned) = UNION {Letters(Chunks[i].text) : i \in DOMAIN Chunks}
        /\ \A i \in DOMAIN Chunks :
              \E a \in DOMAIN Cleaned :
                  SubSeq(Cleaned, a, a + Len(Chunks[i].text) - 1) = Chunks[i].text
        /\ Distinct => \A i, j \in DOMAIN Chunks : i < j =>
              \A p, q \in DOMAIN Cleaned :
                 Cleaned[p] = Chunks[i].text[1] /\ Cleaned[q] \in Letters(Chunks[j].text)
                     => p <= q

(* Two chunks share no more than the overlap, which makes a chunk no longer *)
(* than by itself and a separator.                                         *)
OverlapIsBounded ==
    Is("chunk") =>
        /\ \A i \in DOMAIN Chunks : Len(Chunks[i].text) <= ChunkSize + Overlap + 2
        /\ Distinct => \A i, j \in DOMAIN Chunks :
              i < j => Cardinality(Letters(Chunks[i].text) \cap Letters(Chunks[j].text))
                          <= Overlap

(* The splitter keeps the document: nothing is lost, and nothing is there   *)
(* twice but the overlap (chunking.py, _split_text).                       *)
ChunksAreSound == NothingIsLost /\ OverlapIsBounded

(* Every chunk of a document with pages is given one of them.              *)
EveryChunkHasAPage ==
    Is("chunk") =>
        \A i \in DOMAIN Chunks :
            IF job.pages = <<>> THEN Chunks[i].page = NoPage ELSE Chunks[i].page \in DOMAIN job.pages

(* It is the page the chunk begins on, when cleaning changed nothing, there *)
(* are no notes, no chunks overlap and no letter is on two pages.          *)
PagesAreRight ==
    Is("chunk")
    /\ Distinct /\ Cleaned = FullText(job.pages) /\ (\A p \in ToSet(job.pages) : p.notes = <<>>)
    /\ (\A i, j \in DOMAIN Chunks : i # j => Letters(Chunks[i].text) \cap Letters(Chunks[j].text) = {})
    => \A i \in DOMAIN Chunks :
          \E p \in DOMAIN job.pages \cap {Chunks[i].page} : Chunks[i].text[1] \in Letters(job.pages[p].text)

(* The look-up of a chunk's page finds one, and where it can, the right one *)
(* (chunking.py, _resolve_page, with the cursor of chunk_text).            *)
PagesAreFound == EveryChunkHasAPage /\ PagesAreRight

-----------------------------------------------------------------------------
Store == job.search.store
Question == job.search.question
Hits == result.value
InOrder(s, i, j) == Contains(s, i) /\ Contains(s, j) /\ RankIn(s, i) < RankIn(s, j)

(* No one is shown a chunk of another user's, or of another document than  *)
(* the one asked about, and none twice.                                    *)
OnlyWhatWasAskedFor ==
    Is("search") =>
        /\ Len(Hits) <= Question.limit
        /\ Cardinality(ToSet(Hits)) = Len(Hits)
        /\ \A i \in ToSet(Hits) :
              /\ Store[i].owner = Question.owner
              /\ Question.document \in {AnyDocument, Store[i].document}

(* Without the keyword search a hybrid question is answered as a semantic  *)
(* one is.                                                                 *)
FallbackIsSemantic ==
    Is("search") /\ (~job.search.keywordWorks \/ Question.words = <<>>) =>
        Hits = RetrieveSemantic(Store, Question)

(* What both searches prefer is preferred: fusion and reranking never turn *)
(* round two chunks that both lists have in the same order.                *)
AgreedOrderIsKept ==
    Is("search") /\ Question.mode = "hybrid" /\ job.search.keywordWorks =>
        LET k == Question.limit * CandidateMultiplier
            dense == SearchVectors(Store, Question, k)
            keyword == KeywordSearchVectors(Store, Question, k)
        IN \A i, j \in ToSet(Hits) :
              InOrder(dense, i, j) /\ InOrder(keyword, i, j) => InOrder(Hits, i, j)

(* The keyword search finds the chunks with the most words of the question, *)
(* a word counting as often as it was typed, as long as no more chunks have *)
(* any than are fetched.  (When more have, the first by id are fetched and  *)
(* better ones are lost: nothing here says otherwise.)                     *)
KeywordFindsBest ==
    Is("search") =>
        LET k == Question.limit
            matching == {i \in DOMAIN Store :
                            /\ Matches(Store[i], Question)
                            /\ \E j \in DOMAIN Question.words : Question.words[j] \in Store[i].words}
            found == ToSet(KeywordSearchVectors(Store, Question, k))
        IN Cardinality(matching) <= k * OverFetch =>
              \A i \in found, j \in matching \ found :
                  MatchCount(Store[i], Question.words) >= MatchCount(Store[j], Question.words)

(* A question is answered with what was asked for, the dense search alone   *)
(* when the keyword search fails; what both searches prefer comes first,   *)
(* and the keyword search prefers what has the most of the words, among    *)
(* what it fetches (retrieval_service.py, qdrant.py).                      *)
RetrievalIsSound ==
    OnlyWhatWasAskedFor /\ FallbackIsSemantic /\ AgreedOrderIsKept /\ KeywordFindsBest

-----------------------------------------------------------------------------
\* The n newest of some turns, each cut to the limit of one.
Newest(spoken, n) ==
    [i \in 1 .. n |-> LET turn == spoken[Len(spoken) - n + i]
                      IN [turn EXCEPT !.size = Truncated(turn)]]

(* The model is shown the newest turns that fit, those and no others, whole *)
(* or cut to the limit of one: one more would exceed the limit of all, and *)
(* the last is always shown when a single turn fits (chat_service.py,      *)
(* _load_history).                                                         *)
NewestTurnsAreShown ==
    Is("remember") =>
        LET turns == result.value
            spoken == Spoken(job.messages)
            n == Len(turns)
        IN /\ n <= Len(spoken) /\ turns = Newest(spoken, n)
           /\ Total(turns) <= TotalLimit
           /\ n < Len(spoken) => Total(Newest(spoken, n + 1)) > TotalLimit
           /\ \A i \in DOMAIN turns : turns[i].size <= CharLimit
           /\ CharLimit <= TotalLimit /\ spoken # <<>> => n > 0

(* The tags are the first spellings of what was typed, in its order.       *)
TagsAreFirstSpellings ==
    Is("tag") =>
        LET raw == job.tags
            first == {i \in DOMAIN raw :
                        raw[i].key # BlankKey /\ \A j \in 1..(i - 1) : raw[j].key # raw[i].key}
            spellings == Picked(raw, first)
        IN /\ IsPrefix(result.value, spellings)
           /\ TagsAccepted(raw) => result.value = spellings

-----------------------------------------------------------------------------
Saved == result.value
Typed == [job.form EXCEPT !.tags = NormalizeTags(@)]
Valid == Acceptable(PayloadOf(job.base, job.form))

(* On a row nobody else has changed the dialog saves what was typed, a     *)
(* course or a field of the metadata that was emptied included, and shows  *)
(* it when it is opened again; sent off untouched then, it asks for        *)
(* nothing.  An emptied type is the exception: it is refused, and with it  *)
(* all that was typed beside it (see ClearedTypeIsSaved).                  *)
TypedIsSaved ==
    Is("edit") =>
        /\ job.row = job.base /\ Valid => FormOf(Saved) = Typed
        /\ job.form.type = Untyped => Saved = job.row
        /\ Changed(Saved, FormOf(Saved)) = {}

(* The page may show a document as it was some time ago: what its user has *)
(* not touched keeps the value another page or tab has given it since, the *)
(* metadata as a whole.                                                    *)
OthersEditsSurvive ==
    Is("edit") =>
        LET shown == FormOf(job.base)
        IN /\ job.form.course = shown.course => Saved.course = job.row.course
           /\ job.form.type = shown.type => Saved.type = job.row.type
           /\ job.form.author = shown.author /\ job.form.tags = shown.tags
                 => Saved.metadata = job.row.metadata

(* An edit does what its user did and nothing else, or nothing at all      *)
(* (DocumentEditDialog.tsx, update_document).                              *)
EditsAreSound == TypedIsSaved /\ OthersEditsSurvive

-----------------------------------------------------------------------------
(* What the repository's own words say, and the code does not keep:        *)
(* README, "Where the code and its words part".                            *)

(* "``.ppt`` and ``.pptx`` both naming the same Office family"            *)
(* (storage/types.py:31): what is accepted as such can be read as such.    *)
AcceptedFilesCanBeRead ==
    Is("detect") /\ result.value # NoType => Reader[job.file.content] # NoType

(* "Descending by number of distinct query_terms" (qdrant.py:154): a word  *)
(* counts once, however often it was typed.                                *)
KeywordRanksByDistinctWords ==
    Is("search") =>
        LET found == KeywordSearchVectors(Store, Question, Question.limit)
            Distinctly(i) == Cardinality(Store[i].words \cap ToSet(Question.words))
        IN \A r, s \in DOMAIN found : r < s => Distinctly(found[r]) >= Distinctly(found[s])

(* "Type: omit if unchanged, null if cleared" (DocumentEditDialog.tsx:64): *)
(* a type that is cleared is cleared on the row.                           *)
ClearedTypeIsSaved ==
    Is("edit") /\ job.row = job.base /\ job.form.type = Untyped => Saved.type = None

(* "Truncate quietly rather than rejecting" (schemas/document.py:109): too *)
(* many tags are cut, not refused.                                         *)
SurplusTagsAreCut == Is("tag") => TagsAccepted(job.tags)

(* "Metadata: handle complex merge" (DocumentEditDialog.tsx:69): a field   *)
(* of the metadata that was not touched keeps the value of another edit.   *)
MetadataIsMerged ==
    Is("edit") /\ job.form.author = FormOf(job.base).author =>
        FormOf(Saved).author = FormOf(job.row).author
=============================================================================
