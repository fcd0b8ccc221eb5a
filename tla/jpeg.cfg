\* Every kind of file.
CONSTANTS
    u1 = u1  u2 = u2  d1 = d1  d2 = d2  d3 = d3  w1 = w1  w2 = w2  w3 = w3
    k1 = k1  k2 = k2  k3 = k3  c1 = c1  t1 = t1  t2 = t2  a1 = a1  a2 = a2
    DocCourses = {c1}  DocTypes = {t1, t2}  Authors = {a1, a2}  None = None  Untyped = Untyped
    ChunkSize = 5  Overlap = 2  MaxPage = 4  MaxText = 8
    CandidateMultiplier = 1  RrfK = 1  Alpha = 7  Beta = 3  OverFetch = 2
    Users = {u1, u2}  DocIds = {d1, d2, d3}  Words = {w1, w2, w3}
    AnyDocument = AnyDocument  NoThreshold = NoThreshold
    Roles = {"user", "assistant"}  MessageLimit = 3  CharLimit = 4  TotalLimit = 7  Ellipsis = 2
    TagKeys = {k1, k2, k3}  TagForms = {1, 2}  BlankKey = BlankKey  TagsMaxCount = 2  MaxTags = 4
    Documents <- AllDocuments
    Searches <- AllSearches
    Histories <- AllHistories
    TagLists <- AllTags
    DocRows <- AllDocRows
    Forms <- AllForms
SPECIFICATION Spec
INVARIANT JpegIsAccepted
\* Every job is done in one step.
CHECK_DEADLOCK FALSE
