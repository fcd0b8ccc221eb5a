-------------------------- MODULE AlgorithmsProofs --------------------------
(***************************************************************************)
(* What the pure parts of the back end promise, for every input of theirs: *)
(* every file, pages of any text, tags, messages and searches of any       *)
(* number, every edit.                                                     *)
(*                                                                         *)
(* A job is done in one step, so the inductive invariant says only that a  *)
(* result is what the algorithm returns for the job; the rest is about the *)
(* algorithms, whose loops are followed with the lemmas of ListLemmas.     *)
(***************************************************************************)
EXTENDS Algorithms, ListLemmas

\* A result is what the algorithm of the job returns for it.
IInv ==
    \/ result = NotDone
       /\ \/ job \in [kind : {"detect"}, file : File]
          \/ job \in [kind : {"chunk"}, pages : Documents]
          \/ job \in [kind : {"search"}, search : Searches]
          \/ job \in [kind : {"remember"}, messages : Histories]
          \/ job \in [kind : {"tag"}, tags : TagLists]
          \/ job \in [kind : {"edit"}, base : DocRows, row : DocRows, form : Forms]
    \/ /\ job \in [kind : {"detect"}, file : File]
       /\ result = [kind |-> "detect", value |-> DetectFileType(job.file)]
    \/ /\ job \in [kind : {"chunk"}, pages : Documents]
       /\ result = [kind |-> "chunk", value |-> Process(job.pages)]
    \/ /\ job \in [kind : {"search"}, search : Searches]
       /\ result = [kind |-> "search",
                    value |-> Retrieve(job.search.store, job.search.question,
                                       job.search.keywordWorks)]
    \/ /\ job \in [kind : {"remember"}, messages : Histories]
       /\ result = [kind |-> "remember", value |-> LoadHistory(job.messages)]
    \/ /\ job \in [kind : {"tag"}, tags : TagLists]
       /\ result = [kind |-> "tag", value |-> NormalizeTags(job.tags)]
    \/ /\ job \in [kind : {"edit"}, base : DocRows, row : DocRows, form : Forms]
       /\ result = [kind |-> "edit", value |-> Edited(job.row, PayloadOf(job.base, job.form))]

\* Every step keeps the invariant.
LEMMA Invariance == Spec => []IInv
  <1>1. Init => IInv
    BY DEF Init, IInv
  <1>2. IInv /\ [Next]_<<job, result>> => IInv'
    <2> SUFFICES ASSUME IInv, [Next]_<<job, result>> PROVE IInv'
      OBVIOUS
    <2> USE DEF IInv, Done, NotDone
    <2>1. CASE Detect
      BY <2>1 DEF Detect
    <2>2. CASE Chunk
      BY <2>2 DEF Chunk
    <2>3. CASE Search
      BY <2>3 DEF Search
    <2>4. CASE Remember
      BY <2>4 DEF Remember
    <2>5. CASE Tag
      BY <2>5 DEF Tag
    <2>6. CASE Edit
      BY <2>6 DEF Edit
    <2>7. CASE UNCHANGED <<job, result>>
      BY <2>7, ZenonT(30)
    <2>8. QED
      BY <2>1, <2>2, <2>3, <2>4, <2>5, <2>6, <2>7 DEF Next
  <1>3. QED
    BY <1>1, <1>2, PTL DEF Spec

\* By its kind a result says what it is of.
LEMMA DoneIs ==
    ASSUME IInv
    PROVE  /\ Is("detect") => job.file \in File /\ result.value = DetectFileType(job.file)
           /\ Is("chunk") => job.pages \in Documents /\ result.value = Process(job.pages)
           /\ Is("search") =>
                  /\ job.search \in Searches
                  /\ result.value = Retrieve(job.search.store, job.search.question,
                                             job.search.keywordWorks)
           /\ Is("remember") =>
                  job.messages \in Histories /\ result.value = LoadHistory(job.messages)
           /\ Is("tag") => job.tags \in TagLists /\ result.value = NormalizeTags(job.tags)
           /\ Is("edit") =>
                  /\ job.base \in DocRows /\ job.row \in DocRows /\ job.form \in Forms
                  /\ result.value = Edited(job.row, PayloadOf(job.base, job.form))
  <1> USE DEF Is
  <1>1. CASE result = NotDone
    BY <1>1 DEF NotDone
  <1>2. CASE result # NotDone
    <2>1. ASSUME Is("detect") PROVE job.file \in File /\ result.value = DetectFileType(job.file)
      BY <1>2, <2>1 DEF IInv
    <2>2. ASSUME Is("search")
          PROVE /\ job.search \in Searches
                /\ result.value = Retrieve(job.search.store, job.search.question,
                                           job.search.keywordWorks)
      BY <1>2, <2>2 DEF IInv
    <2>3. ASSUME Is("remember")
          PROVE job.messages \in Histories /\ result.value = LoadHistory(job.messages)
      BY <1>2, <2>3 DEF IInv
    <2>4. ASSUME Is("tag")
          PROVE job.tags \in TagLists /\ result.value = NormalizeTags(job.tags)
      BY <1>2, <2>4 DEF IInv
    <2>5. ASSUME Is("edit")
          PROVE /\ job.base \in DocRows /\ job.row \in DocRows /\ job.form \in Forms
                /\ result.value = Edited(job.row, PayloadOf(job.base, job.form))
      BY <1>2, <2>5 DEF IInv
    <2>6. ASSUME Is("chunk") PROVE job.pages \in Documents /\ result.value = Process(job.pages)
      BY <1>2, <2>6 DEF IInv
    <2>7. QED BY <2>1, <2>2, <2>3, <2>4, <2>5, <2>6
  <1>3. QED BY <1>1, <1>2

-----------------------------------------------------------------------------
\* A type that is accepted is named by the extension alone, is the declared one,
\* and is one of those the first bytes may be.
LEMMA DetectedType ==
    ASSUME NEW file \in File, DetectFileType(file) # NoType
    PROVE  /\ DetectFileType(file) \in {"pdf", "pptx", "png", "jpg", "jpeg"}
           /\ DetectFileType(file) \in CandidatesFromMagic(file.content)
  <1> DEFINE named == {type \in DOMAIN AllowedExtensions : file.extension \in AllowedExtensions[type]}
  <1>1. PICK type \in named :
            /\ named = {type}
            /\ type \in CandidatesFromMagic(file.content)
    BY DEF DetectFileType
  <1>2. DetectFileType(file) = CHOOSE t \in named : TRUE
    BY DEF DetectFileType
  <1>3. DetectFileType(file) = type
    BY <1>1, <1>2
  <1>4. type \in {"pdf", "pptx", "png", "jpg", "jpeg", "txt"}
    BY DEF AllowedExtensions
  <1>5. type # "txt"
    BY <1>1 DEF CandidatesFromMagic
  <1>6. QED BY <1>1, <1>3, <1>4, <1>5

\* What is accepted agrees with the tables it is looked up in later, and but for the
\* OLE files it has a processor that can open it.
THEOREM AcceptanceIsConsistent == Spec => []AcceptedFilesHaveReaders
  <1>1. ASSUME IInv PROVE AcceptedFilesHaveReaders
    <2> SUFFICES ASSUME Is("detect"), result.value # NoType
                 PROVE  /\ result.value \in SupportedFileTypes
                        /\ Processor(result.value) # NoType
                        /\ Processor(result.value) = Reader[job.file.content] \/ job.file.content = "ole"
                        /\ \A type \in SupportedFileTypes :
                              FolderByFileType[type] = FolderByFileType[result.value]
                              <=> Processor(type) = Processor(result.value)
      BY DEF AcceptedFilesHaveReaders
    <2>1. job.file \in File /\ result.value = DetectFileType(job.file)
      BY <1>1, DoneIs
    <2> DEFINE found == result.value
               content == job.file.content
    <2>2. found \in {"pdf", "pptx", "png", "jpg", "jpeg"} /\ found \in CandidatesFromMagic(content)
      BY <2>1, DetectedType
    <2>3. content \in Contents
      BY <2>1 DEF File
    <2> HIDE DEF found, content
    <2>4. found \in SupportedFileTypes
      BY <2>2 DEF SupportedFileTypes
    <2>5. Processor(found) # NoType /\ (Processor(found) = Reader[content] \/ content = "ole")
      BY <2>2, <2>3 DEF Contents, CandidatesFromMagic, Processor, Reader, NoType
    <2>6. ASSUME NEW type \in SupportedFileTypes
          PROVE FolderByFileType[type] = FolderByFileType[found]
                <=> Processor(type) = Processor(found)
      BY <2>2 DEF SupportedFileTypes, FolderByFileType, Processor
    <2>7. QED BY <2>4, <2>5, <2>6 DEF found, content
  <1>2. QED BY <1>1, Invariance, PTL

-----------------------------------------------------------------------------
\* No letter is there twice.
NoLetterTwice(t) == \A i, j \in DOMAIN t : t[i] = t[j] /\ t[i] > 0 => i = j

\* Chunks that are passages and begin with a letter.
ArePassages(t, c, a, b) ==
    /\ Len(t) \in Nat /\ Len(c) \in Nat /\ DOMAIN c = 1..Len(c) /\ DOMAIN t = 1..Len(t)
    /\ \A i \in 1..Len(c) :
          /\ a[i] \in Nat /\ b[i] \in Nat /\ 1 <= a[i] /\ a[i] <= b[i] /\ b[i] <= Len(t)
          /\ b[i] - a[i] + 1 <= Limit /\ t[a[i]] \notin Blank
          /\ c[i] = SubSeq(t, a[i], b[i])
          /\ Len(c[i]) = b[i] - a[i] + 1
          /\ c[i][1] = t[a[i]]
          /\ Letters(c[i]) = {t[p] : p \in a[i]..b[i]} \ Blank
    /\ \A i, j \in 1..Len(c) : i < j => a[i] <= a[j] /\ b[i] - a[j] + 1 <= Overlap
    /\ \A p \in 1..Len(t) : t[p] \notin Blank => \E i \in 1..Len(c) : a[i] <= p /\ p <= b[i]

\* Those of a cut are.
LEMMA SolidIs ==
    ASSUME NEW t \in Seq(Plain), NEW c, NEW a \in [1..Len(c) -> Nat], NEW b \in [1..Len(c) -> Nat],
           c \in Seq(Seq(Char)), IsSolidCut(t, c, a, b)
    PROVE  ArePassages(t, c, a, b)
  <1>1. Len(t) \in Nat /\ Len(c) \in Nat /\ DOMAIN c = 1..Len(c) /\ DOMAIN t = 1..Len(t)
    OBVIOUS
  <1>2. /\ \A i \in 1..Len(c) :
              /\ a[i] >= 1 /\ a[i] <= b[i] + 1 /\ b[i] <= Len(t) /\ b[i] - a[i] + 1 <= Limit
              /\ c[i] = SubSeq(t, a[i], b[i])
        /\ \A i, j \in 1..Len(c) : i < j => a[i] <= a[j] /\ b[i] - a[j] + 1 <= Overlap
        /\ \A p \in 1..Len(t) :
              p < Len(t) + 1 /\ t[p] \notin Blank => \E i \in 1..Len(c) : a[i] <= p /\ p <= b[i]
        /\ \A i \in 1..Len(c) : a[i] <= b[i] /\ t[a[i]] \notin Blank
    BY DEF IsSolidCut, IsCut
  <1>3. \A p \in 1..Len(t) : p < Len(t) + 1
    BY <1>1
  <1>4. ASSUME NEW i \in 1..Len(c)
        PROVE  /\ a[i] \in Nat /\ b[i] \in Nat /\ 1 <= a[i]
               /\ Len(c[i]) = b[i] - a[i] + 1
               /\ c[i][1] = t[a[i]]
               /\ Letters(c[i]) = {t[p] : p \in a[i]..b[i]} \ Blank
    <2> DEFINE x == a[i]
               y == b[i]
               u == c[i]
    <2>1. x \in Nat /\ y \in Nat
      OBVIOUS
    <2>2. x >= 1 /\ x <= y /\ y <= Len(t) /\ u = SubSeq(t, x, y)
      BY <1>2
    <2>3. x \in Nat \ {0} /\ y \in Nat /\ x <= y /\ x <= y + 1 /\ y <= Len(t) /\ u = SubSeq(t, x, y)
      <3> HIDE DEF x, y, u
      <3>1. QED BY <2>1, <2>2
    <2> HIDE DEF x, y, u
    <2>4. u \in Seq(Plain) /\ Len(u) = y - x + 1 /\ \A q \in 1..(y - x + 1) : u[q] = t[x + q - 1]
      <3>1. /\ SubSeq(t, x, y) \in Seq(Plain) /\ Len(SubSeq(t, x, y)) = y - x + 1
            /\ \A q \in 1..(y - x + 1) : SubSeq(t, x, y)[q] = t[x + q - 1]
        <4>1. x \in Nat \ {0} /\ y \in Nat /\ x <= y + 1 /\ y <= Len(t)
          BY <2>3
        <4>2. QED BY <4>1, PassageIs
      <3>2. QED BY <2>3, <3>1
    <2>5. 1 \in 1..(y - x + 1) /\ x + 1 - 1 = x
      BY <2>3
    <2>6. u[1] = t[x]
      BY <2>4, <2>5
    <2>7. DOMAIN u = 1..(y - x + 1)
      BY <2>4
    <2>8. \A q \in 1..(y - x + 1) : x + q - 1 \in x..y
      BY <2>3
    <2>9. \A p \in x..y : p - x + 1 \in 1..(y - x + 1) /\ x + (p - x + 1) - 1 = p
      BY <2>3
    <2>10. {u[q] : q \in DOMAIN u} = {t[p] : p \in x..y}
      <3>1. ASSUME NEW q \in DOMAIN u PROVE \E p \in x..y : u[q] = t[p]
        BY <2>4, <2>7, <2>8
      <3>2. ASSUME NEW p \in x..y PROVE \E q \in DOMAIN u : u[q] = t[p]
        <4>1. p - x + 1 \in DOMAIN u /\ u[p - x + 1] = t[x + (p - x + 1) - 1]
          BY <2>4, <2>7, <2>9
        <4>2. QED BY <4>1, <2>9
      <3> DEFINE D == DOMAIN u
                 E == x..y
      <3> HIDE DEF D, E
      <3>3. ASSUME NEW v \in {u[q] : q \in D} PROVE v \in {t[p] : p \in E}
        BY <3>1, <3>3 DEF D, E
      <3>4. ASSUME NEW v \in {t[p] : p \in E} PROVE v \in {u[q] : q \in D}
        BY <3>2, <3>4 DEF D, E
      <3>5. {u[q] : q \in D} = {t[p] : p \in E}
        BY <3>3, <3>4
      <3>6. QED BY <3>5 DEF D, E
    <2>11. Letters(u) = {t[p] : p \in x..y} \ Blank
      BY <2>10 DEF Letters
    <2>12. x \in Nat /\ y \in Nat /\ 1 <= x
      BY <2>3
    <2>13. QED BY <2>4, <2>6, <2>11, <2>12 DEF x, y, u
  <1>5. QED BY <1>1, <1>2, <1>3, <1>4 DEF ArePassages

\* A letter of a plain text is a letter at one place.
LEMMA OnePlace ==
    ASSUME NEW t \in Seq(Plain), NoLetterTwice(t), NEW p \in 1..Len(t), NEW q \in 1..Len(t),
           t[p] = t[q], t[p] \notin Blank
    PROVE  p = q
  <1>1. t[p] \in Plain
    OBVIOUS
  <1>2. t[p] > 0
    BY <1>1 DEF Plain, Char, Blank, Space, Newline, Null
  <1>3. p \in DOMAIN t /\ q \in DOMAIN t
    OBVIOUS
  <1>4. QED BY <1>2, <1>3 DEF NoLetterTwice

\* So many places have no more letters.
LEMMA FewPlaces ==
    ASSUME NEW t, NEW x \in Nat, NEW y \in Nat, NEW n \in Nat, y - x + 1 <= n,
           NEW T, T \subseteq {t[p] : p \in x..y}
    PROVE  IsFiniteSet(T) /\ Cardinality(T) <= n
  <1> DEFINE S == x..y
             I == {t[p] : p \in S}
             f == [p \in S |-> t[p]]
  <1>1. IsFiniteSet(S) /\ Cardinality(S) = IF x > y THEN 0 ELSE y - x + 1
    BY FS_Interval
  <1> HIDE DEF S
  <1>2. f \in Surjection(S, I)
    <2>1. f \in [S -> I]
      OBVIOUS
    <2>2. \A v \in I : \E p \in S : f[p] = v
      OBVIOUS
    <2>3. QED BY <2>1, <2>2 DEF Surjection
  <1> HIDE DEF f, I
  <1>3. IsFiniteSet(I) /\ Cardinality(I) <= Cardinality(S)
    BY <1>1, <1>2, FS_Surjection
  <1>4. T \subseteq I
    BY DEF I, S
  <1>5. IsFiniteSet(T) /\ Cardinality(T) <= Cardinality(I)
    BY <1>3, <1>4, FS_Subset
  <1>6. Cardinality(T) \in Nat /\ Cardinality(I) \in Nat /\ Cardinality(S) \in Nat
    BY <1>1, <1>3, <1>5, FS_CardinalityType
  <1>7. Cardinality(S) <= n
    BY <1>1
  <1>8. QED BY <1>3, <1>5, <1>6, <1>7

\* What a list of chunks keeps of a text.
IsSound(t, c) ==
    /\ Letters(t) = UNION {Letters(c[i]) : i \in DOMAIN c}
    /\ \A i \in DOMAIN c : \E p \in DOMAIN t : SubSeq(t, p, p + Len(c[i]) - 1) = c[i]
    /\ \A i \in DOMAIN c : Len(c[i]) <= ChunkSize + Overlap + 2
    /\ NoLetterTwice(t) => \A i, j \in DOMAIN c : i < j =>
          /\ Cardinality(Letters(c[i]) \cap Letters(c[j])) <= Overlap
          /\ \A p, q \in DOMAIN t : t[p] = c[i][1] /\ t[q] \in Letters(c[j]) => p <= q

\* The passages keep it.
LEMMA SolidIsSound ==
    ASSUME NEW t \in Seq(Plain), NEW c, SolidCut(t, c)
    PROVE  IsSound(t, c)
  <1>1. c \in Seq(Seq(Char))
    BY DEF SolidCut
  <1>2. PICK a \in [1..Len(c) -> Nat], b \in [1..Len(c) -> Nat] : IsSolidCut(t, c, a, b)
    BY DEF SolidCut
  <1>3. /\ Len(t) \in Nat /\ Len(c) \in Nat /\ DOMAIN c = 1..Len(c) /\ DOMAIN t = 1..Len(t)
        /\ \A i \in 1..Len(c) :
              /\ a[i] \in Nat /\ b[i] \in Nat /\ 1 <= a[i] /\ a[i] <= b[i] /\ b[i] <= Len(t)
              /\ b[i] - a[i] + 1 <= Limit /\ t[a[i]] \notin Blank
              /\ c[i] = SubSeq(t, a[i], b[i])
              /\ Len(c[i]) = b[i] - a[i] + 1
              /\ c[i][1] = t[a[i]]
              /\ Letters(c[i]) = {t[p] : p \in a[i]..b[i]} \ Blank
        /\ \A i, j \in 1..Len(c) : i < j => a[i] <= a[j] /\ b[i] - a[j] + 1 <= Overlap
        /\ \A p \in 1..Len(t) : t[p] \notin Blank => \E i \in 1..Len(c) : a[i] <= p /\ p <= b[i]
    BY <1>1, <1>2, SolidIs DEF ArePassages
  <1> DEFINE m == Len(c)
             n == Len(t)
  <1> HIDE DEF m, n
  <1>4. m \in Nat /\ n \in Nat /\ Overlap \in Nat /\ DOMAIN c = 1..m /\ DOMAIN t = 1..n
    BY <1>3, SizeType DEF m, n
  <1>5. \A i \in 1..m : \A p \in a[i]..b[i] : p \in 1..n
    BY <1>3 DEF m, n
  <1>6. Letters(t) = UNION {Letters(c[i]) : i \in DOMAIN c}
    <2>1. ASSUME NEW v \in Letters(t) PROVE \E i \in 1..m : v \in Letters(c[i])
      <3>1. PICK p \in 1..n : v = t[p] /\ t[p] \notin Blank
        BY <1>4 DEF Letters
      <3>2. PICK i \in 1..m : a[i] <= p /\ p <= b[i]
        BY <3>1, <1>3 DEF m, n
      <3>3. p \in a[i]..b[i]
        BY <3>2, <1>3 DEF m
      <3>4. v \in {t[q] : q \in a[i]..b[i]} \ Blank
        BY <3>1, <3>3
      <3>5. QED BY <3>4, <1>3 DEF m
    <2>2. ASSUME NEW i \in 1..m, NEW v \in Letters(c[i]) PROVE v \in Letters(t)
      <3>1. v \in {t[q] : q \in a[i]..b[i]} \ Blank
        BY <1>3 DEF m
      <3>2. PICK q \in a[i]..b[i] : v = t[q] /\ v \notin Blank
        BY <3>1
      <3>3. QED BY <3>2, <1>4, <1>5 DEF Letters
    <2>3. QED BY <2>1, <2>2, <1>4
  <1>7. ASSUME NEW i \in 1..m PROVE \E p \in 1..n : SubSeq(t, p, p + Len(c[i]) - 1) = c[i]
    <2>1. /\ a[i] \in Nat /\ b[i] \in Nat /\ 1 <= a[i] /\ a[i] <= b[i] /\ b[i] <= n
          /\ c[i] = SubSeq(t, a[i], b[i]) /\ Len(c[i]) = b[i] - a[i] + 1
      BY <1>3 DEF m, n
    <2>2. a[i] \in 1..n /\ a[i] + Len(c[i]) - 1 = b[i]
      <3>1. ASSUME NEW x \in Nat, NEW y \in Nat, NEW w, 1 <= x, x <= y, y <= n, w = y - x + 1
            PROVE  x \in 1..n /\ x + w - 1 = y
        BY <3>1, <1>4
      <3>2. QED BY <2>1, <3>1
    <2>3. QED BY <2>1, <2>2
  <1>8. ASSUME NEW i \in 1..m PROVE Len(c[i]) <= ChunkSize + Overlap + 2
    BY <1>3 DEF m, Limit
  <1>9. ASSUME NoLetterTwice(t), NEW i \in 1..m, NEW j \in 1..m, i < j
        PROVE  Cardinality(Letters(c[i]) \cap Letters(c[j])) <= Overlap
    <2> DEFINE x == a[j]
               y == b[i]
               T == Letters(c[i]) \cap Letters(c[j])
    <2>1. x \in Nat /\ y \in Nat /\ y - x + 1 <= Overlap
      BY <1>3, <1>9 DEF m
    <2>2. ASSUME NEW v \in T PROVE \E p \in x..y : v = t[p]
      <3>1. PICK p \in a[i]..b[i] : v = t[p] /\ v \notin Blank
        BY <1>3 DEF m
      <3>2. PICK q \in a[j]..b[j] : v = t[q]
        BY <1>3 DEF m
      <3>3. p \in 1..Len(t) /\ q \in 1..Len(t)
        BY <1>5 DEF n
      <3>4. p = q
        BY <3>1, <3>2, <3>3, <1>9, OnePlace
      <3>5. p \in x..y
        BY <3>4, <2>1
      <3>6. QED BY <3>1, <3>5
    <2> HIDE DEF x, y, T
    <2>3. T \subseteq {t[p] : p \in x..y}
      BY <2>2
    <2>4. Cardinality(T) <= Overlap
      BY <1>4, <2>1, <2>3, FewPlaces
    <2>5. QED BY <2>4 DEF T
  <1>10. ASSUME NoLetterTwice(t), NEW i \in 1..m, NEW j \in 1..m, i < j, NEW p \in 1..n, NEW q \in 1..n,
                t[p] = c[i][1], t[q] \in Letters(c[j])
         PROVE  p <= q
    <2>1. /\ a[i] \in Nat /\ a[i] \in 1..n /\ t[a[i]] \notin Blank /\ c[i][1] = t[a[i]]
      <3>1. /\ a[i] \in Nat /\ b[i] \in Nat /\ 1 <= a[i] /\ a[i] <= b[i] /\ b[i] <= n
            /\ t[a[i]] \notin Blank /\ c[i][1] = t[a[i]]
        BY <1>3 DEF m, n
      <3>2. ASSUME NEW x \in Nat, NEW y \in Nat, 1 <= x, x <= y, y <= n PROVE x \in 1..n
        BY <3>2, <1>4
      <3>3. QED BY <3>1, <3>2
    <2>2. p = a[i]
      BY <1>10, <2>1, OnePlace DEF n
    <2>3. PICK r \in a[j]..b[j] : t[q] = t[r] /\ t[q] \notin Blank
      <3>1. t[q] \in {t[v] : v \in a[j]..b[j]} \ Blank
        BY <1>3, <1>10 DEF m
      <3>2. QED BY <3>1
    <2>4. r \in 1..n
      BY <1>5
    <2>5. q = r
      BY <1>10, <2>3, <2>4, OnePlace DEF n
    <2>6. a[i] <= a[j] /\ a[j] \in Nat /\ b[j] \in Nat
      BY <1>3, <1>10 DEF m
    <2>7. QED BY <2>1, <2>2, <2>5, <2>6
  <1>11. QED BY <1>4, <1>6, <1>7, <1>8, <1>9, <1>10 DEF IsSound


\* A place in a list of numbers: what is at it and before it is not greater, and what comes
\* next is.
IsPlace(offsets, x, p) ==
    /\ p \in 0..Len(offsets)
    /\ p = 0 \/ offsets[p] <= x
    /\ p = Len(offsets) \/ x < offsets[p+1]

\* The spans of the bisection.
Spans(offsets) == [lo : 0..Len(offsets), hi : 0..Len(offsets)]

\* What is below a span is not greater, what is above is, and the span gets smaller.
IsSpan(span, offsets, x, round) ==
    /\ span.lo <= span.hi
    /\ span.lo = 0 \/ offsets[span.lo] <= x
    /\ span.hi = Len(offsets) \/ x < offsets[span.hi + 1]
    /\ span.hi - span.lo <= Len(offsets) - round

\* Half of a span is one.
LEMMA HalfIs ==
    ASSUME NEW offsets \in Seq(Nat), NEW x \in Nat, NEW span \in Spans(offsets)
    PROVE  /\ Half(span, offsets, x) \in Spans(offsets)
           /\ \A r \in 1..Len(offsets) :
                 IsSpan(span, offsets, x, r - 1) => IsSpan(Half(span, offsets, x), offsets, x, r)
  <1> DEFINE n == Len(offsets)
             lo == span.lo
             hi == span.hi
             mid == (lo + hi) \div 2
             next == Half(span, offsets, x)
  <1>1. n \in Nat /\ lo \in 0..n /\ hi \in 0..n /\ \A i \in 1..n : offsets[i] \in Nat
    BY DEF Spans
  <1> HIDE DEF n, lo, hi
  <1>2. CASE lo >= hi
    <2>1. next = span
      BY <1>2 DEF Half, lo, hi
    <2>2. ASSUME NEW r \in 1..n, IsSpan(span, offsets, x, r - 1) PROVE IsSpan(span, offsets, x, r)
      <3>1. /\ lo <= hi /\ (lo = 0 \/ offsets[lo] <= x) /\ (hi = n \/ x < offsets[hi + 1])
            /\ hi - lo <= n - (r - 1)
        BY <2>2 DEF IsSpan, lo, hi, n
      <3>2. hi - lo <= n - r
        BY <1>1, <1>2, <3>1
      <3>3. QED BY <3>1, <3>2 DEF IsSpan, lo, hi, n
    <2> HIDE DEF next
    <2>3. QED BY <2>1, <2>2 DEF next, n
  <1>3. CASE lo < hi
    <2>1. mid \in 0..n /\ mid + 1 \in 1..n /\ lo <= mid /\ mid < hi /\ mid + 1 <= hi /\ lo < mid + 1
      BY <1>1, <1>3
    <2>2. next = IF x < offsets[mid + 1] THEN [span EXCEPT !.hi = mid] ELSE [span EXCEPT !.lo = mid + 1]
      <3>1. ~(lo >= hi)
        BY <1>1, <1>3
      <3>2. QED BY <3>1 DEF Half, lo, hi
    <2>3. span = [lo |-> lo, hi |-> hi]
      BY DEF Spans, lo, hi
    <2> HIDE DEF mid, next
    <2>4. CASE x < offsets[mid + 1]
      <3>1. next = [lo |-> lo, hi |-> mid]
        BY <2>2, <2>3, <2>4
      <3>2. next \in Spans(offsets) /\ next.lo = lo /\ next.hi = mid
        BY <3>1, <2>1, <1>1 DEF Spans, n
      <3>3. ASSUME NEW r \in 1..n, IsSpan(span, offsets, x, r - 1) PROVE IsSpan(next, offsets, x, r)
        <4>1. /\ (lo = 0 \/ offsets[lo] <= x) /\ hi - lo <= n - (r - 1)
          BY <3>3 DEF IsSpan, lo, hi, n
        <4>2. mid - lo <= n - r
          BY <1>1, <2>1, <4>1
        <4>3. QED BY <2>1, <2>4, <3>2, <4>1, <4>2 DEF IsSpan, n
      <3>4. QED BY <3>2, <3>3 DEF next, n
    <2>5. CASE ~(x < offsets[mid + 1])
      <3>1. next = [lo |-> mid + 1, hi |-> hi]
        BY <2>2, <2>3, <2>5
      <3>2. next \in Spans(offsets) /\ next.lo = mid + 1 /\ next.hi = hi
        <4>1. mid + 1 \in 0..n
          BY <2>1, <1>1
        <4>2. QED BY <4>1, <3>1, <1>1 DEF Spans, n
      <3>3. ASSUME NEW r \in 1..n, IsSpan(span, offsets, x, r - 1) PROVE IsSpan(next, offsets, x, r)
        <4>1. (hi = n \/ x < offsets[hi + 1]) /\ hi - lo <= n - (r - 1)
          BY <3>3 DEF IsSpan, lo, hi, n
        <4>2. hi - (mid + 1) <= n - r
          BY <1>1, <2>1, <4>1
        <4>3. offsets[mid + 1] <= x
          BY <1>1, <2>1, <2>5
        <4>4. QED BY <2>1, <3>2, <4>1, <4>2, <4>3 DEF IsSpan, n
      <3>4. QED BY <3>2, <3>3 DEF next, n
    <2>6. QED BY <2>4, <2>5
  <1>4. QED BY <1>1, <1>2, <1>3

\* The loop of Bisect.
Bisecting(offsets, x) ==
    LET span[i \in 0 .. Len(offsets)] ==
            IF i = 0 THEN [lo |-> 0, hi |-> Len(offsets)] ELSE Half(span[i - 1], offsets, x)
    IN span

\* It halves the span again and again.
LEMMA BisectingIs ==
    ASSUME NEW offsets \in Seq(Nat), NEW x \in Nat
    PROVE  /\ \A i \in 0..Len(offsets) : Bisecting(offsets, x)[i] \in Spans(offsets)
           /\ Bisecting(offsets, x)[0] = [lo |-> 0, hi |-> Len(offsets)]
           /\ \A i \in 1..Len(offsets) :
                 Bisecting(offsets, x)[i] = Half(Bisecting(offsets, x)[i-1], offsets, x)
  <1> DEFINE n == Len(offsets)
             V == Spans(offsets)
             a == [lo |-> 0, hi |-> n]
             f == [p \in V \X Nat |-> Half(p[1], offsets, x)]
             k == Bisecting(offsets, x)
  <1>1. a \in V /\ n \in Nat
    BY DEF Spans
  <1>2. ASSUME NEW s \in V PROVE Half(s, offsets, x) \in V
    BY HalfIs
  <1>3. f \in [V \X Nat -> V]
    <2> HIDE DEF V
    <2>1. QED BY <1>2
  <1>4. PICK g \in [0..n -> V] : IsLoop(g, a, f, n)
    <2> HIDE DEF f, n, V, a
    <2>1. QED BY <1>1, <1>3, LoopExists, Zenon
  <1>5. ASSUME NEW i \in 0..n PROVE g[i] = IF i = 0 THEN a ELSE Half(g[i-1], offsets, x)
    <2>1. CASE i = 0
      BY <2>1, <1>4 DEF IsLoop
    <2>2. CASE i # 0
      <3>1. i \in 1..n /\ i - 1 \in 0..n /\ i \in Nat
        BY <2>2
      <3>2. g[i] = f[<<g[i-1], i>>]
        <4> HIDE DEF f
        <4>1. QED BY <1>4, <3>1 DEF IsLoop
      <3> HIDE DEF V
      <3>3. f[<<g[i-1], i>>] = Half(g[i-1], offsets, x)
        BY <3>1
      <3>4. QED BY <2>2, <3>2, <3>3, Zenon
    <2>3. QED BY <2>1, <2>2
  <1>6. k = [i \in 0..n |-> IF i = 0 THEN a ELSE Half(k[i-1], offsets, x)]
    <2>1. g = [i \in 0..n |-> IF i = 0 THEN a ELSE Half(g[i-1], offsets, x)]
      <3> HIDE DEF V, a
      <3>1. QED BY <1>5
    <2>2. k = CHOOSE h : h = [i \in 0..n |-> IF i = 0 THEN a ELSE Half(h[i-1], offsets, x)]
      BY Zenon DEF Bisecting
    <2> HIDE DEF k, a, V
    <2>3. QED BY <2>1, <2>2
  <1> HIDE DEF k, a
  <1>7. 0 \in 0..n /\ \A i \in 1..n : i \in 0..n /\ i # 0
    BY <1>1
  <1>8. k[0] = a /\ \A i \in 1..n : k[i] = Half(k[i-1], offsets, x)
    <2> HIDE DEF n
    <2>1. QED BY <1>6, <1>7
  <1>9. \A i \in 0..n : k[i] \in V
    <2> DEFINE T == {i \in 0..n : k[i] \in V}
    <2>1. 0 \in T
      <3> HIDE DEF V, n
      <3>1. QED BY <1>1, <1>7, <1>8
    <2>2. ASSUME NEW i \in 1..n, i - 1 \in T PROVE i \in T
      <3> HIDE DEF V, n
      <3>1. QED BY <1>2, <1>7, <1>8, <2>2
    <2> HIDE DEF T, n
    <2>3. \A i \in 0..n : i \in T
      BY <1>1, <2>1, <2>2, BoundedInduction
    <2>4. QED BY <2>3 DEF T
  <1>10. QED BY <1>8, <1>9 DEF k, a

\* The bisection finds a place.
LEMMA BisectIs ==
    ASSUME NEW offsets \in Seq(Nat), NEW x \in Nat
    PROVE  IsPlace(offsets, x, Bisect(offsets, x))
  <1> DEFINE n == Len(offsets)
             k == Bisecting(offsets, x)
             T == {i \in 0..n : IsSpan(k[i], offsets, x, i)}
  <1>1. n \in Nat
    OBVIOUS
  <1>2. /\ \A i \in 0..n : k[i] \in Spans(offsets)
        /\ k[0] = [lo |-> 0, hi |-> n]
        /\ \A i \in 1..n : k[i] = Half(k[i-1], offsets, x)
    BY BisectingIs
  <1> HIDE DEF k
  <1>3. 0 \in T
    <2>1. k[0].lo = 0 /\ k[0].hi = n /\ 0 \in 0..n
      BY <1>1, <1>2
    <2>2. 0 <= n /\ n - 0 <= n - 0
      BY <1>1
    <2>3. QED BY <2>1, <2>2 DEF IsSpan
  <1>4. ASSUME NEW i \in 1..n, i - 1 \in T PROVE i \in T
    <2>1. i \in 0..n /\ i - 1 \in 0..n /\ IsSpan(k[i-1], offsets, x, i - 1)
      BY <1>1, <1>4
    <2>2. k[i-1] \in Spans(offsets)
      BY <1>2, <2>1
    <2>3. IsSpan(Half(k[i-1], offsets, x), offsets, x, i)
      BY <2>1, <2>2, HalfIs
    <2>4. QED BY <1>2, <2>1, <2>3
  <1>5. n \in T
    <2> HIDE DEF T
    <2>1. \A i \in 0..n : i \in T
      BY <1>1, <1>3, <1>4, BoundedInduction
    <2>2. QED BY <2>1, <1>1
  <1>6. IsSpan(k[n], offsets, x, n) /\ k[n] \in Spans(offsets)
    BY <1>1, <1>2, <1>5
  <1> DEFINE lo == k[n].lo
             hi == k[n].hi
  <1>7. /\ lo <= hi /\ (lo = 0 \/ offsets[lo] <= x) /\ (hi = n \/ x < offsets[hi + 1])
        /\ hi - lo <= n - n /\ lo \in 0..n /\ hi \in 0..n
    BY <1>6 DEF IsSpan, Spans
  <1>8. Bisect(offsets, x) = lo
    BY DEF Bisect, Bisecting, k
  <1> HIDE DEF lo, hi, n
  <1>9. lo = hi
    BY <1>1, <1>7
  <1>10. QED BY <1>7, <1>8, <1>9 DEF IsPlace, n


\* Where a chunk is found at all.
FoundAt(text, chunk, cursor) ==
    {i \in cursor..(Len(text) - Len(chunk)) : SubSeq(text, i + 1, i + Len(chunk)) = chunk}

\* It is found at the first of these places.
LEMMA FindIs ==
    ASSUME NEW text, NEW chunk, NEW cursor \in Nat
    PROVE  /\ FoundAt(text, chunk, cursor) = {} => Find(text, chunk, cursor) = cursor - 1
           /\ FoundAt(text, chunk, cursor) # {} =>
                 Find(text, chunk, cursor) \in FoundAt(text, chunk, cursor)
           /\ FoundAt(text, chunk, cursor) \subseteq Nat
  <1> DEFINE at == FoundAt(text, chunk, cursor)
  <1>1. Find(text, chunk, cursor) = IF at = {} THEN cursor - 1 ELSE Min(at)
    BY DEF Find, FoundAt
  <1>2. at \subseteq Nat
    <2>1. ASSUME NEW z, NEW i \in cursor..z PROVE i \in Nat
      BY <2>1
    <2>2. QED BY <2>1 DEF FoundAt
  <1> HIDE DEF at
  <1>3. ASSUME at # {} PROVE Min(at) \in at
    <2>1. \E i \in at : \A j \in at : i <= j
      BY <1>2, <1>3, Least
    <2>2. QED BY <2>1 DEF Min
  <1>4. QED BY <1>1, <1>2, <1>3 DEF at

\* How far the cursor gets.
Cursor(c) == Totals([i \in DOMAIN c |-> Len(c[i])])

\* It passes every chunk, and where no two chunks share a letter, none before it is there.
LEMMA CursorIs ==
    ASSUME NEW t \in Seq(Plain), NEW c, NEW a \in [1..Len(c) -> Nat], NEW b \in [1..Len(c) -> Nat],
           c \in Seq(Seq(Char)), IsSolidCut(t, c, a, b)
    PROVE  /\ \A i \in 0..Len(c) : Cursor(c)[i] \in Nat /\ (i = 0 => Cursor(c)[i] = 0)
           /\ \A i \in 1..Len(c) : Cursor(c)[i] >= 1
           /\ (\A i, j \in DOMAIN c : i # j => Letters(c[i]) \cap Letters(c[j]) = {}) =>
                 \A i \in 1..Len(c) : Cursor(c)[i-1] <= a[i] - 1
  <1> DEFINE n == Len(c)
             s == [i \in DOMAIN c |-> Len(c[i])]
             k == Cursor(c)
  <1>1. n \in Nat /\ DOMAIN c = 1..n /\ \A i \in 1..n : Len(c[i]) \in Nat
    OBVIOUS
  <1>2. s \in Seq(Nat) /\ Len(s) = n /\ \A i \in 1..n : s[i] = Len(c[i])
    <2>1. s \in [1..n -> Nat] /\ \A i \in 1..n : s[i] = Len(c[i])
      BY <1>1
    <2>2. ASSUME NEW m \in Nat, NEW e \in [1..m -> Nat] PROVE e \in Seq(Nat) /\ Len(e) = m
      OBVIOUS
    <2> HIDE DEF s, n
    <2>3. QED BY <1>1, <2>1, <2>2
  <1>3. /\ k \in [0..n -> Nat] /\ k[0] = 0
        /\ \A i \in 1..n : k[i] = k[i-1] + Len(c[i])
    <2>1. k = Totals(s)
      BY DEF Cursor
    <2> HIDE DEF s, k, n
    <2>2. /\ Totals(s) \in [0..Len(s) -> Nat] /\ Totals(s)[0] = 0
          /\ \A i \in 1..Len(s) : Totals(s)[i] = Totals(s)[i-1] + s[i]
      BY <1>2, TotalsIs
    <2>3. QED BY <1>2, <2>1, <2>2
  <1>4. /\ \A i \in 1..n :
              /\ a[i] \in Nat /\ b[i] \in Nat /\ 1 <= a[i] /\ a[i] <= b[i]
              /\ t[a[i]] \notin Blank /\ Len(c[i]) = b[i] - a[i] + 1
              /\ Letters(c[i]) = {t[p] : p \in a[i]..b[i]} \ Blank
        /\ \A i, j \in 1..n : i < j => a[i] <= a[j]
    <2>1. ArePassages(t, c, a, b)
      BY SolidIs
    <2>2. QED BY <2>1 DEF ArePassages
  <1> HIDE DEF k, n
  <1>5. ASSUME NEW i \in 1..n PROVE k[i] >= 1 /\ i - 1 \in 0..n /\ i \in 0..n /\ k[i-1] \in Nat /\ k[i] \in Nat
    <2>1. i - 1 \in 0..n /\ i \in 0..n
      BY <1>1
    <2>2. k[i-1] \in Nat /\ k[i] \in Nat /\ k[i] = k[i-1] + Len(c[i]) /\ Len(c[i]) \in Nat
      BY <1>1, <1>3, <2>1
    <2>3. Len(c[i]) >= 1
      <3>1. a[i] \in Nat /\ b[i] \in Nat /\ a[i] <= b[i] /\ Len(c[i]) = b[i] - a[i] + 1
        BY <1>4
      <3>2. QED BY <3>1, <2>2
    <2>4. QED BY <2>1, <2>2, <2>3
  <1>6. ASSUME \A i, j \in DOMAIN c : i # j => Letters(c[i]) \cap Letters(c[j]) = {}
        PROVE  \A i \in 1..n : k[i-1] <= a[i] - 1
    <2> DEFINE T == {i \in 0..n : i = 0 \/ (k[i-1] <= a[i] - 1 /\ k[i] <= b[i])}
    <2>1. 0 \in T
      BY <1>1
    <2>2. ASSUME NEW i \in 1..n, i - 1 \in T PROVE i \in T
      <3>1. /\ a[i] \in Nat /\ b[i] \in Nat /\ 1 <= a[i] /\ a[i] <= b[i]
            /\ Len(c[i]) = b[i] - a[i] + 1 /\ k[i] = k[i-1] + Len(c[i])
            /\ k[i-1] \in Nat /\ i \in 0..n /\ i \in Nat
        <4>1. i \in Nat /\ i \in 0..n /\ k[i-1] \in Nat
          BY <1>1, <1>5
        <4>2. k[i] = k[i-1] + Len(c[i])
          BY <1>3
        <4>3. QED BY <1>4, <4>1, <4>2
      <3>2. k[i-1] <= a[i] - 1
        <4>1. CASE i = 1
          BY <4>1, <3>1, <1>3
        <4>2. CASE i # 1
          <5> DEFINE j == i - 1
          <5>1. j \in 1..n /\ j < i /\ j # 0 /\ j # i
            BY <4>2, <3>1, <1>1
          <5>2. k[j] <= b[j]
            BY <2>2, <5>1
          <5>3. /\ a[j] \in Nat /\ b[j] \in Nat /\ a[j] <= a[i] /\ t[a[i]] \notin Blank
                /\ Letters(c[i]) = {t[p] : p \in a[i]..b[i]} \ Blank
                /\ Letters(c[j]) = {t[p] : p \in a[j]..b[j]} \ Blank
            <6> HIDE DEF j
            <6>1. QED BY <1>4, <5>1
          <5>4. ASSUME a[i] <= b[j] PROVE FALSE
            <6> HIDE DEF j
            <6>1. a[i] \in a[j]..b[j] /\ a[i] \in a[i]..b[i]
              BY <3>1, <5>3, <5>4
            <6>2. t[a[i]] \in Letters(c[i]) /\ t[a[i]] \in Letters(c[j])
              BY <5>3, <6>1
            <6>3. Letters(c[i]) \cap Letters(c[j]) = {}
              BY <1>1, <1>6, <5>1
            <6>4. QED BY <6>2, <6>3
          <5>5. k[j] <= a[i] - 1
            <6>1. k[j] \in Nat
              BY <3>1
            <6> HIDE DEF j
            <6>2. ASSUME NEW x \in Nat, NEW y \in Nat, NEW z \in Nat, x <= y, ~(z <= y) PROVE x <= z - 1
              BY <6>2
            <6>3. QED BY <3>1, <5>2, <5>3, <5>4, <6>1, <6>2
          <5>6. QED BY <5>5
        <4>3. QED BY <4>1, <4>2
      <3>3. k[i] <= b[i]
        <4>1. ASSUME NEW x \in Nat, NEW y \in Nat, NEW z \in Nat, x <= z - 1
              PROVE  x + (y - z + 1) <= y
          BY <4>1
        <4>2. k[i-1] + (b[i] - a[i] + 1) <= b[i]
          BY <3>1, <3>2, <4>1
        <4>3. QED BY <3>1, <4>2
      <3>4. QED BY <3>1, <3>2, <3>3
    <2>3. \A i \in 0..n : i \in T
      <3> HIDE DEF T
      <3>1. QED BY <1>1, <2>1, <2>2, BoundedInduction
    <2>4. ASSUME NEW i \in 1..n PROVE k[i-1] <= a[i] - 1
      <3>1. i \in 0..n /\ i # 0
        BY <1>1
      <3>2. QED BY <3>1, <2>3
    <2>5. QED BY <2>4
  <1>7. \A i \in 0..n : k[i] \in Nat /\ (i = 0 => k[i] = 0)
    BY <1>3
  <1>8. \A i \in 1..n : k[i] >= 1
    BY <1>5
  <1>9. QED BY <1>6, <1>7, <1>8 DEF k, n

\* A chunk is looked up from the cursor on at some place, and where no letter is there twice
\* and the cursor is not behind it, at the one where it is.
LEMMA ChunkIsFound ==
    ASSUME NEW t \in Seq(Plain), NEW c, NEW a \in [1..Len(c) -> Nat], NEW b \in [1..Len(c) -> Nat],
           c \in Seq(Seq(Char)), IsSolidCut(t, c, a, b), NEW i \in 1..Len(c)
    PROVE  /\ Find(t, c[i], Cursor(c)[i-1]) \in Nat
           /\ NoLetterTwice(t) /\ Cursor(c)[i-1] <= a[i] - 1 =>
                 Find(t, c[i], Cursor(c)[i-1]) = a[i] - 1
  <1> DEFINE k == Cursor(c)[i-1]
             at == FoundAt(t, c[i], k)
             x == Find(t, c[i], k)
             y == a[i]
             z == b[i]
             w == Len(c[i])
  <1>1. /\ Len(t) \in Nat /\ y \in Nat /\ z \in Nat /\ 1 <= y /\ y <= z /\ z <= Len(t)
        /\ t[y] \notin Blank /\ c[i] = SubSeq(t, y, z) /\ w = z - y + 1 /\ c[i][1] = t[y]
    <2>1. ArePassages(t, c, a, b)
      BY SolidIs
    <2>2. QED BY <2>1 DEF ArePassages
  <1>2. i \in Nat /\ i \in 1..Len(c) /\ i - 1 \in 0..Len(c) /\ (i - 1 # 0 => i - 1 \in 1..Len(c))
    <2>1. Len(c) \in Nat
      OBVIOUS
    <2>2. QED BY <2>1
  <1>3. k \in Nat /\ (i - 1 = 0 => k = 0) /\ (i - 1 # 0 => k >= 1)
    BY <1>2, CursorIs
  <1>4. /\ at = {} => x = k - 1
        /\ at # {} => x \in at
        /\ at \subseteq Nat
    <2> HIDE DEF k
    <2>1. QED BY <1>3, FindIs
  <1>5. \A q \in at : q \in Int /\ k <= q /\ q <= Len(t) - w /\ SubSeq(t, q + 1, q + w) = c[i]
    <2> HIDE DEF k, w
    <2>1. Len(t) - w \in Int
      BY <1>1
    <2>2. \A q \in at : q \in k..(Len(t) - w) /\ SubSeq(t, q + 1, q + w) = c[i]
      BY DEF FoundAt, w
    <2>3. \A q \in k..(Len(t) - w) : q \in Int /\ k <= q /\ q <= Len(t) - w
      BY <1>3, <2>1
    <2>4. QED BY <2>2, <2>3
  <1>6. k <= y - 1 => y - 1 \in at
    <2> HIDE DEF k, y, z, w
    <2>1. ASSUME k <= y - 1 PROVE y - 1 \in k..(Len(t) - w)
      <3>1. Len(t) - w \in Int /\ y - 1 \in Int /\ y - 1 <= Len(t) - w
        BY <1>1, SMTT(30)
      <3>2. QED BY <2>1, <3>1, <1>3
    <2>2. (y - 1) + 1 = y /\ (y - 1) + w = z
      BY <1>1
    <2>3. SubSeq(t, (y - 1) + 1, (y - 1) + w) = c[i]
      BY <2>2, <1>1
    <2>4. QED BY <2>1, <2>3 DEF FoundAt, w
  <1> HIDE DEF k, at, x, y, z, w
  <1>7. x \in Nat
    <2>1. CASE at # {}
      BY <2>1, <1>4
    <2>2. CASE at = {}
      <3>1. ~(k <= y - 1)
        BY <2>2, <1>6
      <3>2. k >= 1
        <4>1. k # 0
          BY <3>1, <1>1
        <4>2. QED BY <4>1, <1>3
      <3>3. QED BY <2>2, <3>2, <1>3, <1>4
    <2>3. QED BY <2>1, <2>2
  <1>8. ASSUME NoLetterTwice(t), k <= y - 1 PROVE x = y - 1
    <2>1. x \in at
      BY <1>4, <1>6, <1>8
    <2>2. k <= x /\ x <= Len(t) - w /\ SubSeq(t, x + 1, x + w) = c[i]
      BY <1>5, <2>1
    <2>3. w \in Nat /\ w >= 1
      BY <1>1
    <2> DEFINE p == x + 1
               r == x + w
    <2>4. p \in Nat \ {0} /\ r \in Nat /\ p <= r + 1 /\ r <= Len(t) /\ 1 \in 1..(r - p + 1) /\ p \in 1..Len(t)
          /\ p + 1 - 1 = p
      BY <1>1, <1>7, <2>2, <2>3, SMTT(30)
    <2>5. SubSeq(t, p, r) = c[i]
      BY <2>2
    <2> HIDE DEF p, r
    <2>6. c[i][1] = t[p]
      <3>1. \A q \in 1..(r - p + 1) : SubSeq(t, p, r)[q] = t[p + q - 1]
        BY <2>4, PassageIs
      <3>2. SubSeq(t, p, r)[1] = t[p + 1 - 1]
        BY <2>4, <3>1
      <3>3. QED BY <2>4, <2>5, <3>2
    <2>7. y \in 1..Len(t)
      BY <1>1
    <2>8. p = y
      BY <1>1, <1>8, <2>4, <2>6, <2>7, OnePlace
    <2>9. QED BY <2>8, <1>1, <1>7 DEF p
  <1>9. QED BY <1>7, <1>8 DEF x, k, y


\* Where the pages begin: one behind the line break after the page before, and the end of
\* the text as the last.
LEMMA OffsetsAre ==
    ASSUME NEW text \in Seq(Char), NEW pages \in Seq(PageRecord)
    PROVE  /\ PageOffsets(text, pages) \in Seq(Nat)
           /\ Len(PageOffsets(text, pages)) = Len(pages) + 2
           /\ PageOffsets(text, pages)[1] = 0
           /\ PageOffsets(text, pages)[Len(pages) + 2] = Len(text)
           /\ \A p \in 1..Len(pages) :
                 PageOffsets(text, pages)[p+1] = PageOffsets(text, pages)[p] + (Len(pages[p].text) + 1)
  <1> DEFINE n == Len(pages)
             s == [i \in DOMAIN pages |-> Len(pages[i].text) + 1]
             begin == Totals(s)
             o == [i \in 1..(n + 1) |-> begin[i - 1]]
             q == PageOffsets(text, pages)
  <1>1. n \in Nat /\ DOMAIN pages = 1..n /\ Len(text) \in Nat
    OBVIOUS
  <1>2. \A i \in 1..n : Len(pages[i].text) + 1 \in Nat
    <2>1. ASSUME NEW i \in 1..n PROVE Len(pages[i].text) + 1 \in Nat
      <3>1. pages[i] \in PageRecord
        OBVIOUS
      <3>2. pages[i].text \in Seq(Char)
        BY <3>1 DEF PageRecord
      <3>3. QED BY <3>2
    <2>2. QED BY <2>1
  <1>3. s \in Seq(Nat) /\ Len(s) = n /\ \A i \in 1..n : s[i] = Len(pages[i].text) + 1
    <2>1. s \in [1..n -> Nat] /\ \A i \in 1..n : s[i] = Len(pages[i].text) + 1
      BY <1>1, <1>2
    <2>2. ASSUME NEW m \in Nat, NEW e \in [1..m -> Nat] PROVE e \in Seq(Nat) /\ Len(e) = m
      OBVIOUS
    <2> HIDE DEF s, n
    <2>3. QED BY <1>1, <2>1, <2>2
  <1>4. q = Append(o, Len(text))
    BY DEF PageOffsets
  <1> HIDE DEF s, n, q
  <1>5. /\ begin \in [0..n -> Nat] /\ begin[0] = 0
        /\ \A i \in 1..n : begin[i] = begin[i-1] + s[i]
    <2>1. /\ Totals(s) \in [0..Len(s) -> Nat] /\ Totals(s)[0] = 0
          /\ \A i \in 1..Len(s) : Totals(s)[i] = Totals(s)[i-1] + s[i]
      BY <1>3, TotalsIs
    <2>2. QED BY <1>3, <2>1
  <1> HIDE DEF begin
  <1>6. /\ o \in [1..(n+1) -> Nat] /\ \A i \in 1..(n+1) : o[i] = begin[i-1]
    <2>1. \A i \in 1..(n+1) : i - 1 \in 0..n
      BY <1>1
    <2>2. QED BY <1>5, <2>1
  <1> HIDE DEF o
  <1>7. o \in Seq(Nat) /\ Len(o) = n + 1
    <2>1. ASSUME NEW m \in Nat, NEW e \in [1..m -> Nat] PROVE e \in Seq(Nat) /\ Len(e) = m
      OBVIOUS
    <2>2. n + 1 \in Nat
      BY <1>1
    <2>3. QED BY <1>6, <2>1, <2>2
  <1>8. /\ q \in Seq(Nat) /\ Len(q) = n + 2 /\ q[n+2] = Len(text)
        /\ \A i \in 1..(n+1) : q[i] = o[i]
    <2>1. ASSUME NEW e \in Seq(Nat), NEW x \in Nat, NEW m \in Nat, Len(e) = m + 1
          PROVE  /\ Append(e, x) \in Seq(Nat) /\ Len(Append(e, x)) = m + 2 /\ Append(e, x)[m + 2] = x
                 /\ \A i \in 1..(m+1) : Append(e, x)[i] = e[i]
      BY <2>1
    <2>2. QED BY <1>1, <1>4, <1>7, <2>1
  <1>9. q[1] = 0
    <2>1. 1 \in 1..(n+1) /\ 1 - 1 = 0
      BY <1>1
    <2>2. QED BY <2>1, <1>5, <1>6, <1>8
  <1>10. ASSUME NEW p \in 1..n PROVE q[p+1] = q[p] + (Len(pages[p].text) + 1)
    <2>1. p \in 1..(n+1) /\ p + 1 \in 1..(n+1) /\ (p + 1) - 1 = p
      BY <1>1
    <2>2. q[p+1] = begin[(p+1)-1] /\ q[p] = begin[p-1]
      BY <2>1, <1>6, <1>8
    <2>3. QED BY <2>1, <2>2, <1>3, <1>5
  <1>11. QED BY <1>8, <1>9, <1>10 DEF q, n

\* The page that is given to a place is one there is, and the one it lies on when it is
\* before the end.
LEMMA ResolvedIs ==
    ASSUME NEW text \in Seq(Char), NEW pages \in Seq(PageRecord), pages # <<>>, NEW x \in Nat,
           NEW o, o = PageOffsets(text, pages), NEW page,
           page = ResolvePage(x, o, PageNumbers(pages))
    PROVE  /\ page \in 1..Len(pages)
           /\ x < o[Len(pages) + 1] /\ x < Len(text) => o[page] <= x /\ x < o[page + 1]
  <1> DEFINE n == Len(pages)
             place == Bisect(o, x)
             numbers == PageNumbers(pages)
  <1>1. n \in Nat /\ n >= 1 /\ Len(text) \in Nat
    OBVIOUS
  <1>2. o \in Seq(Nat) /\ Len(o) = n + 2 /\ o[1] = 0 /\ o[n + 2] = Len(text)
    BY OffsetsAre
  <1>3. IsPlace(o, x, place)
    BY <1>2, BisectIs
  <1>4. numbers = [i \in 1..(n + 1) |-> IF i <= n THEN i ELSE n]
    BY DEF PageNumbers
  <1>5. page = IF place = 0 THEN NoPage
               ELSE numbers[IF place < Len(numbers) THEN place ELSE Len(numbers)]
    BY DEF ResolvePage
  <1> HIDE DEF n, place, numbers
  <1>6. Len(numbers) = n + 1 /\ \A i \in 1..(n+1) : numbers[i] = IF i <= n THEN i ELSE n
    <2>1. ASSUME NEW m \in Nat PROVE Len([i \in 1..m |-> IF i <= n THEN i ELSE n]) = m
      OBVIOUS
    <2>2. n + 1 \in Nat
      BY <1>1
    <2>3. QED BY <1>4, <2>1, <2>2
  <1>7. place \in 0..(n + 2) /\ (place = 0 \/ o[place] <= x) /\ (place = n + 2 \/ x < o[place + 1])
    BY <1>2, <1>3 DEF IsPlace
  <1>8. place \in Nat /\ place # 0 /\ place <= n + 2
    <2>1. ASSUME place = 0 PROVE FALSE
      <3>1. x < o[0 + 1] /\ 0 + 1 = 1
        BY <2>1, <1>1, <1>7
      <3>2. QED BY <3>1, <1>2
    <2>2. QED BY <2>1, <1>1, <1>7
  <1>9. page = IF place <= n THEN place ELSE n
    <2>1. CASE place <= n
      <3>1. place \in 1..(n+1) /\ place < Len(numbers)
        BY <2>1, <1>1, <1>6, <1>8
      <3>2. QED BY <3>1, <2>1, <1>5, <1>6, <1>8
    <2>2. CASE ~(place <= n)
      <3>1. ~(place < Len(numbers)) /\ n + 1 \in 1..(n+1) /\ ~(n + 1 <= n)
        BY <2>2, <1>1, <1>6, <1>8
      <3>2. QED BY <3>1, <2>2, <1>5, <1>6, <1>8
    <2>3. QED BY <2>1, <2>2
  <1>10. page \in 1..n
    BY <1>1, <1>8, <1>9
  <1>11. ASSUME x < o[n + 1], x < Len(text) PROVE o[page] <= x /\ x < o[page + 1]
    <2>1. place # n + 1 /\ place # n + 2
      <3>1. o[n+1] \in Nat
        <4>1. n + 1 \in 1..Len(o)
          BY <1>1, <1>2
        <4>2. QED BY <4>1, <1>2
      <3>2. ASSUME place = n + 1 PROVE FALSE
        <4>1. o[n+1] <= x
          BY <3>2, <1>8, <1>7
        <4>2. QED BY <4>1, <3>1, <1>11
      <3>3. ASSUME place = n + 2 PROVE FALSE
        <4>1. o[n+2] <= x
          BY <3>3, <1>8, <1>7
        <4>2. QED BY <4>1, <1>1, <1>2, <1>11
      <3>4. QED BY <3>2, <3>3
    <2>2. page = place
      BY <2>1, <1>1, <1>8, <1>9
    <2>3. QED BY <2>1, <2>2, <1>8, <1>7
  <1>12. QED BY <1>10, <1>11 DEF n

\* Pages without notes lie in the text where their offsets say.
LEMMA LetterOnPage ==
    ASSUME NEW pages \in Seq(PageRecord), pages # <<>>, \A p \in 1..Len(pages) : pages[p].notes = <<>>,
           NEW t, t = FullText(pages), NEW o, o = PageOffsets(t, pages)
    PROVE  /\ o[Len(pages) + 1] = Len(t) + 1
           /\ \A p \in 1..Len(pages), i \in 1..Len(t) :
                 t[i] \notin Blank /\ o[p] <= i - 1 /\ i - 1 < o[p+1] => t[i] \in Letters(pages[p].text)
  <1> DEFINE n == Len(pages)
             sep == <<Newline>>
             pieces == [i \in DOMAIN pages |-> WithNotes(pages[i])]
  <1>1. n \in Nat /\ n >= 1 /\ DOMAIN pages = 1..n /\ sep \in Seq(Char) /\ sep \in Seq(Blank) /\ Len(sep) = 1
    BY DEF Char, Blank
  <1>2. t = Join(pieces, sep)
    BY DEF FullText
  <1>3. pieces \in Seq(Seq(Char)) /\ t \in Seq(Char)
    BY FullTextType
  <1>4. \A p \in 1..n : pieces[p] = pages[p].text
    BY <1>1 DEF WithNotes
  <1>5. Len(pieces) = n
    BY <1>1
  <1> HIDE DEF n, pieces, sep
  <1>6. PICK from : Layout(t, pieces, sep, from)
    <2>1. pieces # <<>>
      BY <1>1, <1>5
    <2>2. PICK f \in [1..(Len(pieces) + 1) -> Nat] : IsLaid(t, pieces, sep, f)
      BY <2>1, <1>1, <1>2, <1>3, JoinLays
    <2>3. Len(sep) <= 2
      BY <1>1
    <2>4. QED BY <2>2, <2>3, <1>1, <1>3 DEF Layout
  <1>7. /\ from[1] = 1 /\ from[n + 1] = Len(t) + Len(sep) + 1
        /\ \A k \in 1..(n + 1) : from[k] \in Nat \ {0}
        /\ \A k \in 1..n :
              /\ pieces[k] \in Seq(Char) /\ Len(pieces[k]) \in Nat
              /\ from[k] + Len(pieces[k]) = from[k+1] - Len(sep)
              /\ from[k+1] - Len(sep) - 1 \in Nat /\ from[k+1] - Len(sep) - 1 <= Len(t)
              /\ pieces[k] = SubSeq(t, from[k], from[k+1] - Len(sep) - 1)
              /\ \A p \in 1..Len(t) :
                    from[k+1] - Len(sep) <= p /\ p < from[k+1] => t[p] \in Blank
    <2> DEFINE m == Len(pieces)
    <2>1. from[1] = 1 /\ from[m + 1] = Len(t) + Len(sep) + 1
      BY <1>6 DEF Layout, IsLaid
    <2>2. \A k \in 1..(m + 1) : from[k] \in Nat \ {0}
      BY <1>6, LayoutIs, Zenon
    <2>3. ASSUME NEW k \in 1..m
          PROVE  /\ pieces[k] \in Seq(Char) /\ Len(pieces[k]) \in Nat
                 /\ from[k] + Len(pieces[k]) = from[k+1] - Len(sep)
                 /\ from[k+1] - Len(sep) - 1 \in Nat /\ from[k+1] - Len(sep) - 1 <= Len(t)
                 /\ pieces[k] = SubSeq(t, from[k], from[k+1] - Len(sep) - 1)
      BY <1>6, LayoutIs
    <2>4. ASSUME NEW k \in 1..m, NEW p \in 1..Len(t), from[k+1] - Len(sep) <= p, p < from[k+1]
          PROVE  t[p] \in Blank
      BY <1>6, <2>4, LayoutIs
    <2>5. m = n
      BY <1>5
    <2> HIDE DEF m
    <2>6. QED BY <2>1, <2>2, <2>3, <2>4, <2>5
  <1>8. /\ o \in Seq(Nat) /\ Len(o) = n + 2 /\ o[1] = 0
        /\ \A p \in 1..n : o[p+1] = o[p] + (Len(pages[p].text) + 1)
    BY <1>3, OffsetsAre DEF n
  <1>9. \A p \in 1..(n+1) : from[p] = o[p] + 1
    <2> DEFINE T == {p \in 0..n : from[p+1] = o[p+1] + 1}
    <2>1. 0 \in T
      BY <1>1, <1>7, <1>8
    <2>2. ASSUME NEW p \in 1..n, p - 1 \in T PROVE p \in T
      <3>1. from[p] = o[p] + 1 /\ p \in 0..n
        BY <2>2, <1>1
      <3>2. from[p] + Len(pieces[p]) = from[p+1] - 1 /\ Len(pieces[p]) \in Nat
        BY <1>1, <1>7
      <3>3. o[p+1] = o[p] + (Len(pieces[p]) + 1)
        BY <1>4, <1>8
      <3>4. o[p] \in Nat /\ o[p+1] \in Nat /\ from[p+1] \in Nat
        <4>1. p \in 1..Len(o) /\ p + 1 \in 1..Len(o) /\ p + 1 \in 1..(n+1)
          BY <1>1, <1>8
        <4>2. QED BY <4>1, <1>7, <1>8
      <3>5. from[p+1] = o[p+1] + 1
        <4>1. ASSUME NEW A \in Nat, NEW B \in Nat, NEW W \in Nat, NEW C \in Nat,
                     (A + 1) + W = B - 1, C = A + (W + 1)
              PROVE  B = C + 1
          BY <4>1
        <4>2. QED BY <3>1, <3>2, <3>3, <3>4, <4>1, SMTT(30)
      <3>6. QED BY <3>1, <3>5
    <2>3. \A p \in 0..n : p \in T
      <3> HIDE DEF T
      <3>1. QED BY <1>1, <2>1, <2>2, BoundedInduction
    <2>4. ASSUME NEW p \in 1..(n+1) PROVE from[p] = o[p] + 1
      <3>1. p - 1 \in 0..n /\ (p - 1) + 1 = p
        BY <1>1
      <3>2. from[(p-1)+1] = o[(p-1)+1] + 1
        BY <3>1, <2>3
      <3>3. QED BY <3>1, <3>2
    <2>5. QED BY <2>4
  <1>10. o[n + 1] = Len(t) + 1
    <2>1. n + 1 \in 1..(n+1) /\ n + 1 \in 1..Len(o)
      BY <1>1, <1>8
    <2>2. from[n+1] = o[n+1] + 1 /\ from[n+1] = Len(t) + Len(sep) + 1 /\ o[n+1] \in Nat
      BY <2>1, <1>7, <1>8, <1>9
    <2>3. Len(t) \in Nat
      BY <1>3
    <2>4. QED BY <2>2, <2>3, <1>1
  <1>11. ASSUME NEW p \in 1..n, NEW i \in 1..Len(t), t[i] \notin Blank, o[p] <= i - 1, i - 1 < o[p+1]
         PROVE  t[i] \in Letters(pages[p].text)
    <2>1. p \in 1..(n+1) /\ p + 1 \in 1..(n+1)
      BY <1>1
    <2> DEFINE x == from[p]
               z == from[p+1]
               y == z - Len(sep) - 1
               u == pages[p].text
    <2>2. x = o[p] + 1 /\ z = o[p+1] + 1 /\ x \in Nat \ {0} /\ z \in Nat
      BY <2>1, <1>7, <1>9
    <2>3. o[p] \in Nat /\ o[p+1] \in Nat
      <3>1. p \in 1..Len(o) /\ p + 1 \in 1..Len(o)
        BY <1>1, <1>8
      <3>2. QED BY <3>1, <1>8
    <2>4. y \in Nat /\ y <= Len(t) /\ u = SubSeq(t, x, y) /\ Len(pieces[p]) \in Nat
          /\ x + Len(pieces[p]) = z - Len(sep)
      BY <1>4, <1>7
    <2>5. \A q \in 1..Len(t) : z - Len(sep) <= q /\ q < z => t[q] \in Blank
      BY <1>7
    <2> HIDE DEF x, z, u
    <2>6. i \in Nat /\ Len(t) \in Nat /\ Len(sep) = 1
      BY <1>1, <1>3
    <2>7. x <= i /\ i < z
      BY <2>6, <2>2, <2>3, <1>11
    <2>8. ~(z - Len(sep) <= i)
      BY <2>5, <2>7, <1>11
    <2>9. i <= y /\ x <= y + 1
      <3>1. ASSUME NEW A \in Nat, NEW L \in Nat, NEW Z \in Nat, NEW I \in Nat, NEW W \in Nat,
                   ~(Z - L <= I), A + W = Z - L
            PROVE  I <= Z - L - 1 /\ A <= (Z - L - 1) + 1
        BY <3>1
      <3>2. x \in Nat /\ Len(sep) \in Nat
        BY <2>6, <2>2
      <3>3. QED BY <2>6, <2>2, <2>4, <2>8, <3>1, <3>2
    <2> HIDE DEF y
    <2>10. u \in Seq(Char) /\ Len(u) = y - x + 1 /\ \A q \in 1..(y - x + 1) : u[q] = t[x + q - 1]
      <3>1. x \in Nat \ {0} /\ y \in Nat /\ x <= y + 1 /\ y <= Len(t)
        BY <2>2, <2>4, <2>9
      <3>2. /\ SubSeq(t, x, y) \in Seq(Char) /\ Len(SubSeq(t, x, y)) = y - x + 1
            /\ \A q \in 1..(y - x + 1) : SubSeq(t, x, y)[q] = t[x + q - 1]
        BY <3>1, <1>3, PassageIs
      <3>3. QED BY <2>4, <3>2
    <2>11. i - x + 1 \in 1..(y - x + 1) /\ x + (i - x + 1) - 1 = i
      BY <2>6, <2>2, <2>4, <2>7, <2>9, SMTT(30)
    <2>12. u[i - x + 1] = t[i] /\ i - x + 1 \in DOMAIN u
      <3>1. DOMAIN u = 1..(y - x + 1)
        BY <2>10
      <3>2. QED BY <3>1, <2>10, <2>11
    <2>13. t[i] \in Letters(u)
      BY <2>12, <1>11 DEF Letters
    <2>14. QED BY <2>13 DEF u
  <1>12. QED BY <1>10, <1>11 DEF n


\* The chunks of a document: what the splitter makes of the cleaned text, each with the page
\* that is looked up for it.
PageOf(pages, t, c, i) ==
    ResolvePage(Find(t, c[i], Cursor(c)[i-1]), PageOffsets(t, pages), PageNumbers(pages))

IsProcessed(pages, t, c, r) ==
    /\ t \in Seq(Plain) /\ SolidCut(t, c)
    /\ DOMAIN r = 1..Len(c) /\ DOMAIN c = 1..Len(c)
    /\ \A i \in 1..Len(c) :
          /\ r[i].text = c[i]
          /\ r[i].page = IF pages = <<>> THEN NoPage ELSE PageOf(pages, t, c, i)

\* A document is processed so.
LEMMA ProcessIs ==
    ASSUME NEW pages \in Seq(PageRecord), NEW t, t = Clean(FullText(pages))
    PROVE  \E c : IsProcessed(pages, t, c, Process(pages))
  <1>1. /\ t \in Seq(Plain)
        /\ t # <<>> => t[1] \notin Blank
    BY FullTextType, CleanIs
  <1>2. t \in Seq(Char)
    <2>1. Plain \subseteq Char
      BY DEF Plain
    <2>2. QED BY <1>1, <2>1
  <1> DEFINE r == Process(pages)
  <1>3. r = ChunkText(t, pages)
    BY DEF Process
  <1>4. CASE t = <<>>
    <2>1. r = <<>>
      BY <1>3, <1>4 DEF ChunkText
    <2> DEFINE c == SubSeq(<<t>>, 1, 0)
    <2>2. c \in Seq(Seq(Char)) /\ c = <<>>
      BY <1>2
    <2> HIDE DEF c
    <2>3. Len(c) = 0 /\ 1..Len(c) = {} /\ DOMAIN c = {} /\ DOMAIN r = {}
      BY <2>1, <2>2
    <2>4. Cut(t, c, 1)
      BY <1>2, <2>2, CutNothing
    <2>5. PICK a \in [1..Len(c) -> Nat], b \in [1..Len(c) -> Nat] : IsCut(t, c, 1, a, b)
      BY <2>4 DEF Cut
    <2>6. Len(t) + 1 = 1
      BY <1>4
    <2>7. IsSolidCut(t, c, a, b)
      BY <2>3, <2>5, <2>6 DEF IsSolidCut
    <2>8. SolidCut(t, c)
      BY <2>2, <2>7 DEF SolidCut
    <2> HIDE DEF r
    <2>9. IsProcessed(pages, t, c, r)
      BY <1>1, <2>3, <2>8 DEF IsProcessed
    <2>10. QED BY <2>9 DEF r
  <1>5. CASE t # <<>>
    <2> DEFINE c == SplitText(t)
    <2>1. SolidCut(t, c)
      BY <1>1, <1>2, <1>5, TextIsCut
    <2>2. c \in Seq(Seq(Char))
      BY <2>1 DEF SolidCut
    <2>3. r = [i \in DOMAIN c |->
                  [text |-> c[i],
                   page |-> IF pages = <<>> THEN NoPage ELSE PageOf(pages, t, c, i)]]
      BY <1>3, <1>5 DEF ChunkText, PageOf, Cursor
    <2> HIDE DEF c, r
    <2>4. DOMAIN c = 1..Len(c)
      BY <2>2
    <2>5. IsProcessed(pages, t, c, r)
      BY <1>1, <2>1, <2>3, <2>4 DEF IsProcessed
    <2>6. QED BY <2>5 DEF r
  <1>6. QED BY <1>4, <1>5

\* Where there are pages, a chunk is given one.
LEMMA ChunkHasPage ==
    ASSUME NEW pages \in Seq(PageRecord), pages # <<>>, NEW t \in Seq(Plain), NEW c, SolidCut(t, c),
           NEW i \in 1..Len(c)
    PROVE  PageOf(pages, t, c, i) \in DOMAIN pages
  <1>1. t \in Seq(Char)
    <2>1. Plain \subseteq Char
      BY DEF Plain
    <2>2. QED BY <2>1
  <1>2. c \in Seq(Seq(Char))
    BY DEF SolidCut
  <1>3. PICK a \in [1..Len(c) -> Nat], b \in [1..Len(c) -> Nat] : IsSolidCut(t, c, a, b)
    BY DEF SolidCut
  <1>4. Find(t, c[i], Cursor(c)[i-1]) \in Nat
    BY <1>2, <1>3, ChunkIsFound
  <1>5. PageOf(pages, t, c, i) \in 1..Len(pages)
    BY <1>1, <1>4, ResolvedIs DEF PageOf
  <1>6. QED BY <1>5

\* It is the one the chunk begins on, where the pages are the whole text and no letter is
\* twice in it or in two chunks.
LEMMA ChunkOnPage ==
    ASSUME NEW pages \in Seq(PageRecord), \A p \in 1..Len(pages) : pages[p].notes = <<>>,
           NEW t \in Seq(Plain), t = FullText(pages), NoLetterTwice(t), NEW c, SolidCut(t, c),
           \A i, j \in DOMAIN c : i # j => Letters(c[i]) \cap Letters(c[j]) = {},
           NEW i \in 1..Len(c)
    PROVE  /\ pages # <<>>
           /\ PageOf(pages, t, c, i) \in DOMAIN pages
           /\ c[i][1] \in Letters(pages[PageOf(pages, t, c, i)].text)
  <1>1. t \in Seq(Char)
    <2>1. Plain \subseteq Char
      BY DEF Plain
    <2>2. QED BY <2>1
  <1>2. c \in Seq(Seq(Char))
    BY DEF SolidCut
  <1>3. PICK a \in [1..Len(c) -> Nat], b \in [1..Len(c) -> Nat] : IsSolidCut(t, c, a, b)
    BY DEF SolidCut
  <1>4. /\ Len(t) \in Nat /\ a[i] \in Nat /\ 1 <= a[i] /\ a[i] <= Len(t)
        /\ t[a[i]] \notin Blank /\ c[i][1] = t[a[i]]
    <2>1. ArePassages(t, c, a, b)
      BY <1>2, <1>3, SolidIs
    <2>2. /\ Len(t) \in Nat /\ a[i] \in Nat /\ b[i] \in Nat /\ 1 <= a[i] /\ a[i] <= b[i] /\ b[i] <= Len(t)
          /\ t[a[i]] \notin Blank /\ c[i][1] = t[a[i]]
      BY <2>1 DEF ArePassages
    <2>3. QED BY <2>2
  <1>5. pages # <<>>
    <2>1. ASSUME pages = <<>> PROVE FALSE
      <3> DEFINE pieces == [p \in DOMAIN pages |-> WithNotes(pages[p])]
      <3>1. t = Join(pieces, <<Newline>>)
        BY DEF FullText
      <3>2. pieces \in Seq(Seq(Char)) /\ pieces = <<>>
        <4>1. pieces \in Seq(Seq(Char))
          BY FullTextType
        <4>2. DOMAIN pieces = {}
          BY <2>1
        <4> HIDE DEF pieces
        <4>3. QED BY <4>1, <4>2
      <3>3. <<Newline>> \in Seq(Char)
        BY DEF Char
      <3> HIDE DEF pieces
      <3>4. t = <<>>
        BY <3>1, <3>2, <3>3, JoinAppend
      <3>5. QED BY <3>4, <1>4
    <2>2. QED BY <2>1
  <1> DEFINE x == Find(t, c[i], Cursor(c)[i-1])
             o == PageOffsets(t, pages)
             page == PageOf(pages, t, c, i)
             n == Len(pages)
  <1>6. Cursor(c)[i-1] <= a[i] - 1
    BY <1>2, <1>3, CursorIs
  <1>7. x = a[i] - 1
    BY <1>2, <1>3, <1>6, ChunkIsFound
  <1>8. /\ o[n + 1] = Len(t) + 1
        /\ \A p \in 1..n, k \in 1..Len(t) :
              t[k] \notin Blank /\ o[p] <= k - 1 /\ k - 1 < o[p+1] => t[k] \in Letters(pages[p].text)
    BY <1>5, LetterOnPage
  <1>9. x \in Nat /\ x < Len(t) /\ x < o[n + 1]
    <2> HIDE DEF x, o, n
    <2>1. QED BY <1>4, <1>7, <1>8
  <1>10. page \in 1..n /\ (x < o[n + 1] /\ x < Len(t) => o[page] <= x /\ x < o[page + 1])
    <2>1. page = ResolvePage(x, o, PageNumbers(pages))
      BY DEF PageOf
    <2> HIDE DEF x, o, page
    <2>2. QED BY <1>1, <1>5, <1>9, <2>1, ResolvedIs DEF o
  <1> HIDE DEF x, o, page, n
  <1>11. a[i] \in 1..Len(t)
    BY <1>4
  <1>12. t[a[i]] \in Letters(pages[page].text)
    BY <1>4, <1>7, <1>8, <1>9, <1>10, <1>11
  <1>13. page \in DOMAIN pages
    BY <1>10 DEF n
  <1>14. QED BY <1>4, <1>5, <1>12, <1>13 DEF page

\* A job whose pages are in chunks: the splitter's chunks of the cleaned text.
LEMMA ChunkedIs ==
    ASSUME IInv, Is("chunk")
    PROVE  /\ job.pages \in Seq(PageRecord)
           /\ \E c : IsProcessed(job.pages, Cleaned, c, Chunks)
  <1>1. job.pages \in Seq(PageRecord) /\ Chunks = Process(job.pages)
    BY DoneIs, DocumentsAreTyped DEF Chunks
  <1>2. QED BY <1>1, ProcessIs DEF Cleaned

\* The splitter keeps the document: every letter is in a chunk, the chunks are passages of
\* the text in its order, and two of them share no more than the overlap.
THEOREM ChunksKeepTheText == Spec => []ChunksAreSound
  <1>1. IInv => ChunksAreSound
    <2> SUFFICES ASSUME IInv, Is("chunk") PROVE ChunksAreSound
      BY DEF ChunksAreSound, NothingIsLost, OverlapIsBounded
    <2> DEFINE t == Cleaned
               r == Chunks
    <2>1. PICK c : IsProcessed(job.pages, t, c, r)
      BY ChunkedIs
    <2> HIDE DEF t, r
    <2>2. /\ t \in Seq(Plain) /\ SolidCut(t, c)
          /\ DOMAIN r = DOMAIN c /\ \A i \in DOMAIN c : r[i].text = c[i]
      BY <2>1 DEF IsProcessed
    <2>3. IsSound(t, c)
      BY <2>2, SolidIsSound
    <2>4. Letters(t) = UNION {Letters(r[i].text) : i \in DOMAIN r}
      <3>1. Letters(t) = UNION {Letters(c[i]) : i \in DOMAIN c}
        BY <2>3 DEF IsSound
      <3>2. \A i \in DOMAIN c : Letters(c[i]) = Letters(r[i].text)
        BY <2>2
      <3>3. QED BY <2>2, <3>1, <3>2
    <2>5. ASSUME NEW i \in DOMAIN r
          PROVE  /\ \E p \in DOMAIN t : SubSeq(t, p, p + Len(r[i].text) - 1) = r[i].text
                 /\ Len(r[i].text) <= ChunkSize + Overlap + 2
      BY <2>2, <2>3 DEF IsSound
    <2>6. ASSUME Distinct, NEW i \in DOMAIN r, NEW j \in DOMAIN r, i < j
          PROVE  /\ Cardinality(Letters(r[i].text) \cap Letters(r[j].text)) <= Overlap
                 /\ \A p, q \in DOMAIN t :
                       t[p] = r[i].text[1] /\ t[q] \in Letters(r[j].text) => p <= q
      <3>1. NoLetterTwice(t)
        BY <2>6 DEF NoLetterTwice, Distinct, t
      <3>2. r[i].text = c[i] /\ r[j].text = c[j] /\ i \in DOMAIN c /\ j \in DOMAIN c
        BY <2>2
      <3>3. QED BY <2>3, <2>6, <3>1, <3>2 DEF IsSound
    <2>7. NothingIsLost
      BY <2>4, <2>5, <2>6 DEF NothingIsLost, t, r
    <2>8. OverlapIsBounded
      BY <2>5, <2>6 DEF OverlapIsBounded, r
    <2>9. QED BY <2>7, <2>8 DEF ChunksAreSound
  <1>2. QED BY <1>1, Invariance, PTL

\* The look-up of a chunk's page finds one, and where no letter is there twice and cleaning
\* changed nothing, the one the chunk begins on.
THEOREM PagesAreLookedUp == Spec => []PagesAreFound
  <1>1. IInv => PagesAreFound
    <2> SUFFICES ASSUME IInv, Is("chunk") PROVE PagesAreFound
      BY DEF PagesAreFound, EveryChunkHasAPage, PagesAreRight
    <2> DEFINE t == Cleaned
               r == Chunks
               pages == job.pages
    <2>1. pages \in Seq(PageRecord)
      BY ChunkedIs
    <2>2. PICK c : IsProcessed(pages, t, c, r)
      BY ChunkedIs
    <2> HIDE DEF t, r, pages
    <2>3. /\ t \in Seq(Plain) /\ SolidCut(t, c) /\ DOMAIN r = 1..Len(c) /\ DOMAIN c = 1..Len(c)
          /\ \A i \in 1..Len(c) :
                /\ r[i].text = c[i]
                /\ r[i].page = IF pages = <<>> THEN NoPage ELSE PageOf(pages, t, c, i)
      BY <2>2 DEF IsProcessed
    <2>4. ASSUME NEW i \in DOMAIN r
          PROVE  IF pages = <<>> THEN r[i].page = NoPage ELSE r[i].page \in DOMAIN pages
      BY <2>1, <2>3, ChunkHasPage
    <2>5. ASSUME Distinct, t = FullText(pages), \A p \in ToSet(pages) : p.notes = <<>>,
                 \A i, j \in DOMAIN r : i # j => Letters(r[i].text) \cap Letters(r[j].text) = {},
                 NEW i \in DOMAIN r
          PROVE  r[i].page \in DOMAIN pages /\ r[i].text[1] \in Letters(pages[r[i].page].text)
      <3>1. NoLetterTwice(t)
        BY <2>5 DEF NoLetterTwice, Distinct, t
      <3>2. \A p \in 1..Len(pages) : pages[p].notes = <<>>
        BY <2>1, <2>5 DEF ToSet
      <3>3. \A k, j \in DOMAIN c : k # j => Letters(c[k]) \cap Letters(c[j]) = {}
        BY <2>3, <2>5
      <3>4. /\ pages # <<>>
            /\ PageOf(pages, t, c, i) \in DOMAIN pages
            /\ c[i][1] \in Letters(pages[PageOf(pages, t, c, i)].text)
        BY <2>1, <2>3, <2>5, <3>1, <3>2, <3>3, ChunkOnPage
      <3>5. r[i].page = PageOf(pages, t, c, i) /\ r[i].text = c[i]
        BY <2>3, <3>4
      <3>6. QED BY <3>4, <3>5
    <2>6. EveryChunkHasAPage
      BY <2>4 DEF EveryChunkHasAPage, r, pages
    <2>7. PagesAreRight
      <3> SUFFICES
            ASSUME Distinct, t = FullText(pages), \A p \in ToSet(pages) : p.notes = <<>>,
                   \A i, j \in DOMAIN r : i # j => Letters(r[i].text) \cap Letters(r[j].text) = {},
                   NEW i \in DOMAIN r
            PROVE  \E p \in DOMAIN pages \cap {r[i].page} : r[i].text[1] \in Letters(pages[p].text)
        BY DEF PagesAreRight, t, r, pages
      <3>1. r[i].page \in DOMAIN pages /\ r[i].text[1] \in Letters(pages[r[i].page].text)
        BY <2>5
      <3>2. QED BY <3>1
    <2>8. QED BY <2>6, <2>7 DEF PagesAreFound
  <1>2. QED BY <1>1, Invariance, PTL

-----------------------------------------------------------------------------
\* The loop of NormalizeTags.
Cleaning(raw) ==
    LET cleaned[i \in 0 .. Len(raw)] == IF i = 0 THEN <<>> ELSE Take(cleaned[i - 1], raw[i])
    IN cleaned

\* A tag that is taken is a tag more at the end.
LEMMA TakeType ==
    ASSUME NEW tags \in Seq(RawTag), NEW tag \in RawTag
    PROVE  Take(tags, tag) \in Seq(RawTag)
  BY DEF Take

\* It takes the tags one by one.
LEMMA CleaningIs ==
    ASSUME NEW raw \in Seq(RawTag)
    PROVE  /\ Cleaning(raw) \in [0..Len(raw) -> Seq(RawTag)]
           /\ Cleaning(raw)[0] = <<>>
           /\ \A i \in 1..Len(raw) : Cleaning(raw)[i] = Take(Cleaning(raw)[i-1], raw[i])
  <1> DEFINE n == Len(raw)
             V == Seq(RawTag)
             a == <<>>
             f == [p \in V \X Nat |-> IF p[2] \in 1..n THEN Take(p[1], raw[p[2]]) ELSE p[1]]
             c == Cleaning(raw)
  <1>1. n \in Nat /\ a \in V /\ \A i \in 1..n : raw[i] \in RawTag
    OBVIOUS
  <1>2. f \in [V \X Nat -> V]
    BY <1>1, TakeType
  <1>3. PICK g \in [0..n -> V] : IsLoop(g, a, f, n)
    <2> HIDE DEF V, a, f, n
    <2>1. QED BY <1>1, <1>2, LoopExists, Zenon
  <1>4. ASSUME NEW i \in 1..n PROVE g[i] = Take(g[i-1], raw[i])
    <2>1. i - 1 \in 0..n /\ i \in Nat
      BY <1>1
    <2>2. g[i] = f[<<g[i-1], i>>]
      <3> HIDE DEF f, V
      <3>1. QED BY <1>3 DEF IsLoop
    <2> HIDE DEF V
    <2>3. g[i-1] \in V
      BY <2>1
    <2>4. QED BY <2>1, <2>2, <2>3
  <1>5. g = [i \in 0..n |-> IF i = 0 THEN <<>> ELSE Take(g[i-1], raw[i])]
    <2>1. ASSUME NEW i \in 0..n PROVE g[i] = IF i = 0 THEN <<>> ELSE Take(g[i-1], raw[i])
      <3>1. CASE i = 0
        BY <3>1, <1>3 DEF IsLoop
      <3>2. CASE i \in 1..n
        <4>1. i # 0
          BY <3>2
        <4>2. QED BY <3>2, <4>1, <1>4, Zenon
      <3>3. QED BY <3>1, <3>2, <1>1
    <2>2. QED BY <2>1
  <1>6. c = [i \in 0..n |-> IF i = 0 THEN <<>> ELSE Take(c[i-1], raw[i])]
    BY <1>5 DEF Cleaning
  <1> HIDE DEF c
  <1>7. c[0] = <<>>
    BY <1>1, <1>6
  <1>8. ASSUME NEW i \in 1..n PROVE c[i] = Take(c[i-1], raw[i])
    <2>1. i \in 0..n /\ i # 0
      OBVIOUS
    <2>2. QED BY <2>1, <1>6
  <1>9. c \in [0..n -> V]
    <2> DEFINE T == {i \in 0..n : c[i] \in V}
    <2>1. 0 \in T
      <3>1. 0 \in 0..n
        BY <1>1
      <3>2. QED BY <3>1, <1>1, <1>7, Zenon
    <2>2. ASSUME NEW i \in 1..n, i - 1 \in T PROVE i \in T
      <3>1. c[i] \in V
        BY <2>2, <1>1, <1>8, TakeType
      <3>2. QED BY <3>1
    <2> HIDE DEF T
    <2>3. \A i \in 0..n : i \in T
      BY <1>1, <2>1, <2>2, BoundedInduction
    <2>4. \A i \in 0..n : c[i] \in V
      BY <2>3 DEF T
    <2>5. QED BY <1>6, <2>4
  <1>10. QED BY <1>7, <1>8, <1>9 DEF c

\* The loop's last value is what NormalizeTags returns: a list of tags.
LEMMA NormalizeTagsType ==
    ASSUME NEW raw \in Seq(RawTag)
    PROVE  /\ NormalizeTags(raw) = Cleaning(raw)[Len(raw)]
           /\ NormalizeTags(raw) \in Seq(RawTag)
  <1>1. NormalizeTags(raw) = Cleaning(raw)[Len(raw)]
    BY DEF NormalizeTags, Cleaning
  <1>2. Len(raw) \in 0..Len(raw)
    OBVIOUS
  <1>3. QED BY <1>1, <1>2, CleaningIs

\* Of an Append's keys the last is that of what is appended.
LEMMA KeysOfAppend ==
    ASSUME NEW tags \in Seq(RawTag), NEW tag \in RawTag
    PROVE  KeysOf(Append(tags, tag)) = KeysOf(tags) \cup {tag.key}
  <1> DEFINE t == Append(tags, tag)
             n == Len(tags)
  <1>1. DOMAIN tags = 1..n /\ DOMAIN t = 1..(n+1) /\ n \in Nat
    OBVIOUS
  <1>2. t[n+1] = tag /\ \A i \in 1..n : t[i] = tags[i]
    OBVIOUS
  <1> HIDE DEF t, n
  <1>3. KeysOf(t) = {t[i].key : i \in 1..(n+1)} /\ KeysOf(tags) = {tags[i].key : i \in 1..n}
    BY <1>1 DEF KeysOf
  <1>4. 1..(n+1) = (1..n) \cup {n+1}
    BY <1>1
  <1>5. {t[i].key : i \in 1..(n+1)} = {t[i].key : i \in 1..n} \cup {t[n+1].key}
    BY <1>4
  <1>6. {t[i].key : i \in 1..n} = {tags[i].key : i \in 1..n}
    BY <1>2
  <1>7. QED BY <1>2, <1>3, <1>5, <1>6 DEF t

\* The places where a key is typed for the first time.
First(raw) == {i \in DOMAIN raw :
                  raw[i].key # BlankKey /\ \A j \in 1..(i - 1) : raw[j].key # raw[i].key}

\* As long as there are not too many, the tags taken are the first spellings so far;
\* then no more are.
LEMMA TagsSoFar ==
    ASSUME NEW raw \in Seq(RawTag)
    PROVE  \A i \in 0..Len(raw) :
               /\ Len(Cleaning(raw)[i]) <= Len(Kept(raw, First(raw))[i])
               /\ \A j \in 1..Len(Cleaning(raw)[i]) :
                     Cleaning(raw)[i][j] = Kept(raw, First(raw))[i][j]
               /\ Len(Cleaning(raw)[i]) <= TagsMaxCount =>
                     Cleaning(raw)[i] = Kept(raw, First(raw))[i]
  <1> DEFINE L == Len(raw)
             N == Cleaning(raw)
             F == First(raw)
             K == Kept(raw, F)
             Keys(i) == {raw[j].key : j \in 1..i} \ {BlankKey}
             Good(i) == /\ Len(N[i]) <= Len(K[i])
                        /\ \A j \in 1..Len(N[i]) : N[i][j] = K[i][j]
                        /\ Len(N[i]) <= TagsMaxCount => N[i] = K[i]
             T == {i \in 0..L : Good(i) /\ KeysOf(K[i]) = Keys(i)}
  <1>1. L \in Nat /\ DOMAIN raw = 1..L /\ \A i \in 1..L : raw[i] \in RawTag
    OBVIOUS
  <1>2. /\ N \in [0..L -> Seq(RawTag)] /\ N[0] = <<>>
        /\ \A i \in 1..L : N[i] = Take(N[i-1], raw[i])
    BY CleaningIs
  <1>3. /\ K \in [0..L -> Seq(RawTag)] /\ K[0] = <<>>
        /\ \A i \in 1..L : K[i] = IF i \in F THEN Append(K[i-1], raw[i]) ELSE K[i-1]
    BY KeptIs
  <1>4. \A i \in 1..L : i \in F <=> raw[i].key # BlankKey /\ raw[i].key \notin Keys(i-1)
    BY <1>1 DEF First
  <1>5. TagsMaxCount \in Nat
    BY TagTypes
  <1> HIDE DEF L, N, F, K
  <1>6. 0 \in T
    <2>1. KeysOf(<<>>) = {}
      BY DEF KeysOf
    <2>2. Keys(0) = {}
      OBVIOUS
    <2>3. Good(0)
      BY <1>2, <1>3
    <2>4. QED BY <1>1, <1>3, <2>1, <2>2, <2>3
  <1>7. ASSUME NEW i \in 1..L, i - 1 \in T PROVE i \in T
    <2> DEFINE n == N[i-1]
               k == K[i-1]
               t == raw[i]
    <2>1. n \in Seq(RawTag) /\ k \in Seq(RawTag) /\ t \in RawTag /\ i \in 0..L
      BY <1>1, <1>2, <1>3, <1>7
    <2>2. Good(i-1) /\ KeysOf(k) = Keys(i-1)
      BY <1>7
    <2>3. Keys(i) = IF t.key = BlankKey THEN Keys(i-1) ELSE Keys(i-1) \cup {t.key}
      <3>1. 1..i = (1..(i-1)) \cup {i}
        OBVIOUS
      <3>2. {raw[j].key : j \in 1..i} = {raw[j].key : j \in 1..(i-1)} \cup {t.key}
        BY <3>1
      <3>3. QED BY <3>2
    <2>4. N[i] = Take(n, t) /\ K[i] = IF i \in F THEN Append(k, t) ELSE k
      BY <1>2, <1>3
    <2>5. Len(n) \in Nat /\ Len(k) \in Nat
      BY <2>1
    <2>6. Len(n) <= Len(k) /\ (\A j \in 1..Len(n) : n[j] = k[j]) /\ (Len(n) <= TagsMaxCount => n = k)
      BY <2>2
    <2>7. CASE i \in F
      <3>1. t.key # BlankKey /\ t.key \notin KeysOf(k)
        BY <1>4, <2>2, <2>7
      <3>2. KeysOf(K[i]) = Keys(i)
        BY <2>1, <2>2, <2>3, <2>4, <2>7, <3>1, KeysOfAppend
      <3>3. CASE Len(n) > TagsMaxCount
        <4>1. N[i] = n /\ K[i] = Append(k, t)
          BY <2>4, <2>7, <3>3 DEF Take
        <4>2. Len(Append(k, t)) = Len(k) + 1 /\ \A j \in 1..Len(k) : Append(k, t)[j] = k[j]
          BY <2>1
        <4>3. ~(Len(n) <= TagsMaxCount)
          BY <2>5, <3>3, <1>5
        <4> HIDE DEF n, k, t
        <4>4. Good(i)
          BY <4>1, <4>2, <4>3, <2>5, <2>6
        <4>5. QED BY <4>4, <3>2, <2>1
      <3>4. CASE ~(Len(n) > TagsMaxCount)
        <4>1. n = k
          BY <2>5, <2>6, <3>4, <1>5
        <4>2. N[i] = Append(n, t) /\ K[i] = Append(n, t)
          BY <2>4, <2>7, <3>1, <3>4, <4>1 DEF Take
        <4>3. Len(N[i]) \in Nat
          BY <1>2, <2>1
        <4>4. Good(i)
          BY <4>2, <4>3
        <4>5. QED BY <4>4, <3>2, <2>1
      <3>5. QED BY <3>3, <3>4
    <2>8. CASE i \notin F
      <3>1. t.key = BlankKey \/ t.key \in KeysOf(k)
        BY <1>4, <2>2, <2>8
      <3>2. KeysOf(K[i]) = Keys(i)
        BY <2>2, <2>3, <2>4, <2>8, <3>1
      <3>3. N[i] = n
        <4>1. CASE Len(n) > TagsMaxCount
          BY <2>4, <4>1 DEF Take
        <4>2. CASE ~(Len(n) > TagsMaxCount)
          <5>1. n = k
            BY <2>5, <2>6, <4>2, <1>5
          <5>2. QED BY <2>4, <3>1, <5>1 DEF Take
        <4>3. QED BY <4>1, <4>2
      <3>4. K[i] = k
        BY <2>4, <2>8
      <3>5. Good(i)
        BY <3>3, <3>4, <2>6
      <3>6. QED BY <3>5, <3>2, <2>1
    <2>9. QED BY <2>7, <2>8
  <1>8. \A i \in 0..L : i \in T
    <2> HIDE DEF T
    <2>1. QED BY <1>1, <1>6, <1>7, BoundedInduction
  <1>9. \A i \in 0..L : Good(i)
    BY <1>8
  <1>10. QED BY <1>9 DEF L, N, K, F

\* The tags are the first spellings of what was typed, in its order.
THEOREM TagsAreKept == Spec => []TagsAreFirstSpellings
  <1>1. ASSUME IInv PROVE TagsAreFirstSpellings
    <2> SUFFICES ASSUME Is("tag")
                 PROVE  /\ IsPrefix(result.value, Picked(job.tags, First(job.tags)))
                        /\ TagsAccepted(job.tags) =>
                              result.value = Picked(job.tags, First(job.tags))
      BY DEF TagsAreFirstSpellings, First
    <2> DEFINE raw == job.tags
               n == NormalizeTags(raw)
               k == Picked(raw, First(raw))
    <2>1. raw \in Seq(RawTag) /\ result.value = n
      BY <1>1, DoneIs, TagListsAreTyped
    <2>2. n = Cleaning(raw)[Len(raw)] /\ n \in Seq(RawTag)
      BY <2>1, NormalizeTagsType
    <2>3. k = Kept(raw, First(raw))[Len(raw)] /\ k \in Seq(RawTag)
      BY <2>1, KeptIs, PickedType
    <2>4. Len(raw) \in 0..Len(raw)
      BY <2>1
    <2>5. /\ Len(n) <= Len(k)
          /\ \A j \in 1..Len(n) : n[j] = k[j]
          /\ Len(n) <= TagsMaxCount => n = k
      <3> SUFFICES ASSUME NEW list \in Seq(RawTag), list = raw
                   PROVE  LET c == Cleaning(list)[Len(list)]
                              d == Kept(list, First(list))[Len(list)]
                          IN /\ Len(c) <= Len(d)
                             /\ \A j \in 1..Len(c) : c[j] = d[j]
                             /\ Len(c) <= TagsMaxCount => c = d
        BY <2>1, <2>2, <2>3
      <3>1. Len(list) \in 0..Len(list)
        OBVIOUS
      <3>2. QED BY <3>1, TagsSoFar
    <2>6. TagsAccepted(raw) <=> Len(n) <= TagsMaxCount
      BY DEF TagsAccepted
    <2> HIDE DEF n, k
    <2>7. SubSeq(n, 1, Len(n)) = SubSeq(k, 1, Len(n))
      BY <2>2, <2>3, <2>5
    <2>8. IsPrefix(n, k)
      BY <2>5, <2>7 DEF IsPrefix
    <2>9. QED BY <2>1, <2>5, <2>6, <2>8 DEF n, k
  <1>2. QED BY <1>1, Invariance, PTL

-----------------------------------------------------------------------------
\* One tag more is taken or not.
LEMMA NormalizeTagsAppend ==
    ASSUME NEW raw \in Seq(RawTag), NEW tag \in RawTag
    PROVE  NormalizeTags(Append(raw, tag)) = Take(NormalizeTags(raw), tag)
  <1> DEFINE n == Len(raw)
             more == Append(raw, tag)
             c == Cleaning(raw)
             d == Cleaning(more)
             T == {i \in 0..n : c[i] = d[i]}
  <1>1. n \in Nat /\ more \in Seq(RawTag) /\ Len(more) = n + 1 /\ more[n+1] = tag
    OBVIOUS
  <1>2. \A i \in 1..n : more[i] = raw[i]
    OBVIOUS
  <1>3. c[0] = <<>> /\ (\A i \in 1..n : c[i] = Take(c[i-1], raw[i])) /\ NormalizeTags(raw) = c[n]
    BY CleaningIs, NormalizeTagsType
  <1>4. /\ d[0] = <<>> /\ (\A i \in 1..Len(more) : d[i] = Take(d[i-1], more[i]))
        /\ NormalizeTags(more) = d[Len(more)]
    <2> HIDE DEF more
    <2>1. QED BY <1>1, CleaningIs, NormalizeTagsType
  <1> HIDE DEF c, d, more, n
  <1>5. 0 \in T
    BY <1>1, <1>3, <1>4
  <1>6. ASSUME NEW i \in 1..n, i - 1 \in T PROVE i \in T
    <2>1. i \in 1..Len(more) /\ c[i-1] = d[i-1] /\ more[i] = raw[i]
      BY <1>1, <1>2, <1>6
    <2>2. c[i] = d[i]
      BY <2>1, <1>3, <1>4
    <2>3. QED BY <2>2, <1>1
  <1>7. n \in T
    <2> HIDE DEF T
    <2>1. \A i \in 0..n : i \in T
      BY <1>1, <1>5, <1>6, BoundedInduction
    <2>2. QED BY <2>1, <1>1
  <1>8. d[n+1] = Take(d[n], tag)
    <2>1. n + 1 \in 1..Len(more) /\ (n + 1) - 1 = n
      BY <1>1
    <2>2. QED BY <2>1, <1>1, <1>4
  <1>9. QED BY <1>1, <1>3, <1>4, <1>7, <1>8 DEF more

\* No tags are normal.
LEMMA NormalizeTagsEmpty == NormalizeTags(<<>>) = <<>>
  <1>1. ASSUME NEW raw \in Seq(RawTag), raw = <<>> PROVE NormalizeTags(raw) = <<>>
    <2>1. Len(raw) = 0 /\ Cleaning(raw)[0] = <<>>
      BY <1>1, CleaningIs
    <2>2. NormalizeTags(raw) = Cleaning(raw)[Len(raw)]
      BY NormalizeTagsType
    <2>3. QED BY <2>1, <2>2
  <1>2. <<>> \in Seq(RawTag)
    OBVIOUS
  <1>3. QED BY <1>1, <1>2

\* The pieces are those that are not blank.
LEMMA PiecesAppend ==
    ASSUME NEW tags \in Seq(RawTag), NEW tag \in RawTag
    PROVE  Pieces(Append(tags, tag)) =
               IF tag.key = BlankKey THEN Pieces(tags) ELSE Append(Pieces(tags), tag)
  <1> DEFINE n == Len(tags)
             more == Append(tags, tag)
             P == {i \in DOMAIN tags : tags[i].key # BlankKey}
             Q == {i \in DOMAIN more : more[i].key # BlankKey}
  <1>1. n \in Nat /\ DOMAIN tags = 1..n /\ DOMAIN more = 1..(n+1) /\ more[n+1] = tag
    OBVIOUS
  <1>2. \A i \in 1..n : more[i] = tags[i]
    OBVIOUS
  <1>3. \A i \in 1..n : i \in P <=> i \in Q
    <2> HIDE DEF more, n
    <2>1. \A i \in 1..n : i \in 1..(n+1)
      BY <1>1
    <2>2. QED BY <1>1, <1>2, <2>1
  <1>4. n + 1 \in Q <=> tag.key # BlankKey
    <2> HIDE DEF more, n
    <2>1. QED BY <1>1
  <1>5. Pieces(tags) = Picked(tags, P) /\ Pieces(more) = Picked(more, Q)
    BY DEF Pieces
  <1> HIDE DEF P, Q
  <1>6. Picked(Append(tags, tag), Q) =
            IF Len(tags) + 1 \in Q THEN Append(Picked(tags, P), tag) ELSE Picked(tags, P)
    BY <1>3, PickedAppend
  <1>7. QED BY <1>4, <1>5, <1>6

\* Of no tags there are no pieces, and pieces are tags.
LEMMA PiecesType ==
    /\ Pieces(<<>>) = <<>>
    /\ \A tags \in Seq(RawTag) : Pieces(tags) \in Seq(RawTag)
  BY PickedEmpty, PickedType DEF Pieces

\* The validator drops the blank pieces that the dialog drops before it.
LEMMA PiecesNormalize ==
    ASSUME NEW tags \in Seq(RawTag)
    PROVE  NormalizeTags(Pieces(tags)) = NormalizeTags(tags)
  <1> DEFINE T == {s \in Seq(RawTag) : NormalizeTags(Pieces(s)) = NormalizeTags(s)}
  <1>1. <<>> \in T
    BY PiecesType
  <1>2. ASSUME NEW s \in Seq(RawTag), NEW x \in RawTag, s \in T PROVE Append(s, x) \in T
    <2>1. CASE x.key = BlankKey
      <3>1. NormalizeTags(Append(s, x)) = NormalizeTags(s)
        BY <2>1, NormalizeTagsAppend DEF Take
      <3>2. Pieces(Append(s, x)) = Pieces(s)
        BY <2>1, PiecesAppend
      <3>3. QED BY <3>1, <3>2, <1>2
    <2>2. CASE x.key # BlankKey
      <3>1. Pieces(Append(s, x)) = Append(Pieces(s), x)
        BY <2>2, PiecesAppend
      <3>2. Pieces(s) \in Seq(RawTag)
        BY PiecesType
      <3>3. NormalizeTags(Append(Pieces(s), x)) = Take(NormalizeTags(Pieces(s)), x)
        BY <3>2, NormalizeTagsAppend
      <3>4. NormalizeTags(Append(s, x)) = Take(NormalizeTags(s), x)
        BY NormalizeTagsAppend
      <3>5. NormalizeTags(Pieces(s)) = NormalizeTags(s)
        BY <1>2
      <3>6. NormalizeTags(Pieces(Append(s, x))) = NormalizeTags(Append(s, x))
        BY <3>1, <3>3, <3>4, <3>5
      <3>7. QED BY <3>6
    <2>3. QED BY <2>1, <2>2
  <1> HIDE DEF T
  <1>3. \A s \in Seq(RawTag) : s \in T
    BY <1>1, <1>2, ListInduction
  <1>4. QED BY <1>3 DEF T

\* There is no blank among the tags.
NoBlanks(tags) == \A i \in 1..Len(tags) : tags[i].key # BlankKey

\* Without blanks the pieces are the tags themselves.
LEMMA PiecesOfNoBlanks ==
    ASSUME NEW tags \in Seq(RawTag), NoBlanks(tags)
    PROVE  Pieces(tags) = tags
  <1> DEFINE T == {s \in Seq(RawTag) : NoBlanks(s) => Pieces(s) = s}
  <1>1. <<>> \in T
    BY PiecesType
  <1>2. ASSUME NEW s \in Seq(RawTag), NEW x \in RawTag, s \in T PROVE Append(s, x) \in T
    <2>1. ASSUME NoBlanks(Append(s, x)) PROVE Pieces(Append(s, x)) = Append(s, x)
      <3>1. Len(Append(s, x)) = Len(s) + 1 /\ Len(s) \in Nat /\ Append(s, x)[Len(s) + 1] = x
            /\ \A i \in 1..Len(s) : Append(s, x)[i] = s[i]
        OBVIOUS
      <3>2. x.key # BlankKey /\ NoBlanks(s)
        BY <2>1, <3>1 DEF NoBlanks
      <3>3. QED BY <3>2, <1>2, PiecesAppend
    <2>2. QED BY <2>1
  <1> HIDE DEF T
  <1>3. \A s \in Seq(RawTag) : s \in T
    BY <1>1, <1>2, ListInduction
  <1>4. QED BY <1>3 DEF T

\* The validator leaves no blank.
LEMMA NormalHasNoBlanks ==
    ASSUME NEW tags \in Seq(RawTag)
    PROVE  NoBlanks(NormalizeTags(tags))
  <1> DEFINE T == {s \in Seq(RawTag) : NoBlanks(NormalizeTags(s))}
  <1>1. <<>> \in T
    BY NormalizeTagsEmpty DEF NoBlanks
  <1>2. ASSUME NEW s \in Seq(RawTag), NEW x \in RawTag, s \in T PROVE Append(s, x) \in T
    <2> DEFINE n == NormalizeTags(s)
    <2>1. n \in Seq(RawTag) /\ NoBlanks(n)
      BY <1>2, NormalizeTagsType
    <2>2. NormalizeTags(Append(s, x)) = Take(n, x)
      BY NormalizeTagsAppend
    <2> HIDE DEF n
    <2>3. NoBlanks(Take(n, x))
      <3>1. CASE x.key = BlankKey
        BY <2>1, <3>1 DEF Take
      <3>2. CASE x.key # BlankKey
        <4>1. NoBlanks(Append(n, x))
          BY <2>1, <3>2 DEF NoBlanks
        <4>2. QED BY <2>1, <4>1 DEF Take
      <3>3. QED BY <3>1, <3>2
    <2>4. QED BY <2>2, <2>3
  <1> HIDE DEF T
  <1>3. \A s \in Seq(RawTag) : s \in T
    BY <1>1, <1>2, ListInduction
  <1>4. QED BY <1>3 DEF T

\* The metadata an edit writes when it writes one.
WrittenMetadata(form) == [author |-> form.author, tags |-> NormalizeTags(Pieces(form.tags))]

\* A valid edit writes the columns that differ from what the page shows, and keeps
\* the others as the row has them by then.
LEMMA EditedIs ==
    ASSUME NEW base \in DocRow, NEW row \in DocRow, NEW form \in Form
    PROVE  LET payload == PayloadOf(base, form)
               saved == Edited(row, payload)
           IN /\ ~Acceptable(payload) => saved = row
              /\ Acceptable(payload) =>
                    /\ saved = [column \in Column |-> saved[column]]
                    /\ saved.course = IF form.course # base.course THEN form.course ELSE row.course
                    /\ saved.type = IF form.type # base.type THEN form.type ELSE row.type
                    /\ saved.metadata = IF MetadataChanged(base, form) THEN WrittenMetadata(form)
                                        ELSE row.metadata
  <1> DEFINE payload == PayloadOf(base, form)
             saved == Edited(row, payload)
             changed == Changed(base, form)
             updates == Updates(payload)
  <1>1. ~Acceptable(payload) => saved = row
    BY DEF Edited
  <1>2. /\ "course" \in changed <=> form.course # base.course
        /\ "type" \in changed <=> form.type # base.type
        /\ "metadata" \in changed <=> MetadataChanged(base, form)
    BY DEF Changed, Column
  <1>3. DOMAIN payload = changed /\ DOMAIN updates = changed
    BY DEF PayloadOf, Updates
  <1>4. ASSUME "course" \in changed PROVE updates["course"] = form.course
    BY <1>4 DEF PayloadOf, Updates
  <1>5. ASSUME "type" \in changed PROVE updates["type"] = form.type
    BY <1>5 DEF PayloadOf, Updates
  <1>6. ASSUME "metadata" \in changed PROVE updates["metadata"] = WrittenMetadata(form)
    <2>1. payload["metadata"] = [author |-> form.author, tags |-> Pieces(form.tags)]
      BY <1>6 DEF PayloadOf
    <2>2. updates["metadata"] = [payload.metadata EXCEPT !.tags = NormalizeTags(@)]
      BY <1>3, <1>6 DEF Updates
    <2> HIDE DEF payload, updates
    <2>3. updates["metadata"] = [author |-> form.author, tags |-> NormalizeTags(Pieces(form.tags))]
      BY <2>1, <2>2
    <2>4. QED BY <2>3 DEF WrittenMetadata
  <1>7. ASSUME Acceptable(payload)
        PROVE saved = [column \in Column |->
                          IF column \in changed THEN updates[column] ELSE row[column]]
    BY <1>3, <1>7 DEF Edited
  <1> HIDE DEF payload, saved, changed, updates
  <1>8. ASSUME Acceptable(payload)
        PROVE /\ saved = [column \in Column |-> saved[column]]
              /\ saved["course"] = IF form.course # base.course THEN form.course ELSE row.course
              /\ saved["type"] = IF form.type # base.type THEN form.type ELSE row.type
              /\ saved["metadata"] = IF MetadataChanged(base, form) THEN WrittenMetadata(form)
                                     ELSE row.metadata
    <2>1. DOMAIN saved = Column /\ {"course", "type", "metadata"} = Column
      BY <1>7, <1>8 DEF Column
    <2>2. saved = [column \in Column |-> saved[column]]
      BY <1>7, <1>8
    <2>3. saved["course"] = IF "course" \in changed THEN updates["course"] ELSE row["course"]
      BY <1>7, <1>8, <2>1
    <2>4. saved["type"] = IF "type" \in changed THEN updates["type"] ELSE row["type"]
      BY <1>7, <1>8, <2>1
    <2>5. saved["metadata"] = IF "metadata" \in changed THEN updates["metadata"] ELSE row["metadata"]
      BY <1>7, <1>8, <2>1
    <2>6. QED BY <2>2, <2>3, <2>4, <2>5, <1>2, <1>4, <1>5, <1>6
  <1>9. QED BY <1>1, <1>8 DEF payload, saved

\* What the dialog shows of tags that the validator left, it leaves too.
LEMMA StoredTags ==
    ASSUME NEW row \in DocRows
    PROVE  /\ row \in DocRow
           /\ FormOf(row).tags \in Seq(RawTag)
           /\ NormalizeTags(FormOf(row).tags) = FormOf(row).tags
           /\ Pieces(FormOf(row).tags) = FormOf(row).tags
  <1>1. row \in DocRow
    BY EditsAreTyped
  <1>2. CASE row.metadata = None
    <2>1. FormOf(row).tags = <<>>
      BY <1>2 DEF FormOf, NoMetadata
    <2>2. <<>> \in Seq(RawTag)
      OBVIOUS
    <2>3. QED BY <1>1, <2>1, <2>2, NormalizeTagsEmpty, PiecesType
  <1>3. CASE row.metadata # None
    <2> DEFINE tags == row.metadata.tags
    <2>1. FormOf(row).tags = tags
      BY <1>3 DEF FormOf
    <2>2. tags \in Seq(RawTag)
      BY <1>1, <1>3 DEF DocRow, Metadata
    <2>3. NormalizeTags(tags) = tags
      BY <1>3, StoredTagsAreNormal
    <2> HIDE DEF tags
    <2>4. Pieces(tags) = tags
      BY <2>2, <2>3, NormalHasNoBlanks, PiecesOfNoBlanks
    <2>5. QED BY <1>1, <2>1, <2>2, <2>3, <2>4
  <1>4. QED BY <1>2, <1>3

\* What is saved of an edit, shown by the dialog again.
LEMMA ShownAgain ==
    ASSUME NEW base \in DocRow, NEW row \in DocRow, NEW form \in Form,
           Acceptable(PayloadOf(base, form))
    PROVE  LET shown == FormOf(Edited(row, PayloadOf(base, form)))
           IN /\ shown.course = IF form.course # base.course THEN form.course ELSE row.course
              /\ shown.type = IF form.type # base.type THEN form.type ELSE row.type
              /\ shown.author = IF MetadataChanged(base, form) THEN form.author ELSE FormOf(row).author
              /\ shown.tags = IF MetadataChanged(base, form) THEN NormalizeTags(Pieces(form.tags))
                              ELSE FormOf(row).tags
  <1> DEFINE saved == Edited(row, PayloadOf(base, form))
             written == WrittenMetadata(form)
  <1>1. /\ saved.course = IF form.course # base.course THEN form.course ELSE row.course
        /\ saved.type = IF form.type # base.type THEN form.type ELSE row.type
        /\ saved.metadata = IF MetadataChanged(base, form) THEN written ELSE row.metadata
    BY EditedIs
  <1>2. form.tags \in Seq(RawTag) /\ form.author \in Authors \cup {None}
    BY DEF Form
  <1>3. written \in Metadata
    <2>1. NormalizeTags(Pieces(form.tags)) \in Seq(RawTag)
      BY <1>2, PiecesType, NormalizeTagsType
    <2>2. QED BY <1>2, <2>1 DEF WrittenMetadata, Metadata
  <1>4. written # None
    BY <1>3, EditTypes
  <1>5. written.author = form.author /\ written.tags = NormalizeTags(Pieces(form.tags))
    BY DEF WrittenMetadata
  <1> HIDE DEF saved, written
  <1>6. CASE MetadataChanged(base, form)
    <2>1. saved.metadata = written
      BY <1>1, <1>6
    <2>2. FormOf(saved).author = form.author
          /\ FormOf(saved).tags = NormalizeTags(Pieces(form.tags))
      BY <2>1, <1>4, <1>5 DEF FormOf
    <2>3. FormOf(saved).course = saved.course /\ FormOf(saved).type = saved.type
      BY DEF FormOf
    <2>4. QED BY <1>1, <1>6, <2>2, <2>3 DEF saved
  <1>7. CASE ~MetadataChanged(base, form)
    <2>1. saved.metadata = row.metadata
      BY <1>1, <1>7
    <2>2. FormOf(saved).author = FormOf(row).author /\ FormOf(saved).tags = FormOf(row).tags
      BY <2>1 DEF FormOf
    <2>3. FormOf(saved).course = saved.course /\ FormOf(saved).type = saved.type
      BY DEF FormOf
    <2>4. QED BY <1>1, <1>7, <2>2, <2>3 DEF saved
  <1>8. QED BY <1>6, <1>7

\* On a row nobody else has changed the dialog saves what was typed.
LEMMA WhatIsTyped ==
    ASSUME NEW base \in DocRows, NEW form \in Forms, Acceptable(PayloadOf(base, form))
    PROVE  FormOf(Edited(base, PayloadOf(base, form))) = [form EXCEPT !.tags = NormalizeTags(@)]
  <1> DEFINE shown == FormOf(Edited(base, PayloadOf(base, form)))
             typed == [form EXCEPT !.tags = NormalizeTags(@)]
  <1>1. base \in DocRow /\ form \in Form
    BY EditsAreTyped
  <1>2. form.tags \in Seq(RawTag)
    BY <1>1 DEF Form
  <1>3. NormalizeTags(Pieces(form.tags)) = NormalizeTags(form.tags)
    BY <1>2, PiecesNormalize
  <1>4. /\ shown.course = IF form.course # base.course THEN form.course ELSE base.course
        /\ shown.type = IF form.type # base.type THEN form.type ELSE base.type
        /\ shown.author = IF MetadataChanged(base, form) THEN form.author ELSE FormOf(base).author
        /\ shown.tags = IF MetadataChanged(base, form) THEN NormalizeTags(Pieces(form.tags))
                        ELSE FormOf(base).tags
    BY <1>1, ShownAgain
  <1>5. shown.course = form.course /\ shown.type = form.type
    BY <1>4
  <1>6. shown.author = form.author /\ shown.tags = NormalizeTags(form.tags)
    <2>1. CASE MetadataChanged(base, form)
      BY <2>1, <1>3, <1>4
    <2>2. CASE ~MetadataChanged(base, form)
      <3>1. form.author = FormOf(base).author /\ Pieces(form.tags) = FormOf(base).tags
        BY <2>2 DEF MetadataChanged
      <3>2. NormalizeTags(form.tags) = FormOf(base).tags
        BY <3>1, <1>3, StoredTags
      <3>3. shown.author = FormOf(base).author /\ shown.tags = FormOf(base).tags
        BY <1>4, <2>2
      <3>4. QED BY <3>1, <3>2, <3>3
    <2>3. QED BY <2>1, <2>2
  <1>7. shown = [course |-> shown.course, type |-> shown.type,
                 author |-> shown.author, tags |-> shown.tags]
    BY DEF FormOf
  <1>8. typed = [course |-> form.course, type |-> form.type,
                 author |-> form.author, tags |-> NormalizeTags(form.tags)]
    BY <1>1 DEF Form
  <1>9. QED BY <1>5, <1>6, <1>7, <1>8

\* A type that is cleared is refused, and nothing beside it saved.
LEMMA ClearedTypeIsRefused ==
    ASSUME NEW base \in DocRow, NEW row \in DocRow, NEW form \in Form, form.type = Untyped
    PROVE  Edited(row, PayloadOf(base, form)) = row
  <1> DEFINE payload == PayloadOf(base, form)
  <1>1. "type" \in Changed(base, form)
    BY EditTypes DEF Changed, Column, DocRow
  <1>2. DOMAIN payload = Changed(base, form) /\ payload.type = Untyped
    BY <1>1 DEF PayloadOf
  <1> HIDE DEF payload
  <1>3. ~Acceptable(payload)
    BY <1>1, <1>2, EditTypes DEF Acceptable
  <1>4. QED BY <1>3, EditedIs DEF payload

\* Sent off untouched, what was saved asks for nothing.
LEMMA NothingIsAskedFor ==
    ASSUME NEW base \in DocRows, NEW row \in DocRows, NEW form \in Forms
    PROVE  LET saved == Edited(row, PayloadOf(base, form)) IN Changed(saved, FormOf(saved)) = {}
  <1> DEFINE saved == Edited(row, PayloadOf(base, form))
  <1>1. base \in DocRow /\ row \in DocRow /\ form \in Form
    BY EditsAreTyped
  <1>2. Pieces(FormOf(saved).tags) = FormOf(saved).tags
    <2>1. CASE ~Acceptable(PayloadOf(base, form))
      <3>1. saved = row
        BY <1>1, <2>1, EditedIs
      <3>2. QED BY <3>1, StoredTags
    <2>2. CASE Acceptable(PayloadOf(base, form)) /\ MetadataChanged(base, form)
      <3> DEFINE pieces == Pieces(form.tags)
      <3>1. FormOf(saved).tags = NormalizeTags(pieces)
        BY <1>1, <2>2, ShownAgain
      <3>2. pieces \in Seq(RawTag)
        BY <1>1, PiecesType DEF Form
      <3> HIDE DEF pieces
      <3>3. NormalizeTags(pieces) \in Seq(RawTag) /\ NoBlanks(NormalizeTags(pieces))
        BY <3>2, NormalizeTagsType, NormalHasNoBlanks
      <3>4. QED BY <3>1, <3>3, PiecesOfNoBlanks
    <2>3. CASE Acceptable(PayloadOf(base, form)) /\ ~MetadataChanged(base, form)
      <3>1. FormOf(saved).tags = FormOf(row).tags
        BY <1>1, <2>3, ShownAgain
      <3>2. QED BY <3>1, StoredTags
    <2>4. QED BY <2>1, <2>2, <2>3
  <1> HIDE DEF saved
  <1>3. FormOf(saved).course = saved.course /\ FormOf(saved).type = saved.type
    BY DEF FormOf
  <1>4. ~MetadataChanged(saved, FormOf(saved))
    BY <1>2 DEF MetadataChanged
  <1>5. Changed(saved, FormOf(saved)) = {}
    BY <1>3, <1>4 DEF Changed, Column
  <1>6. QED BY <1>5 DEF saved

\* What the user of a page has not touched is left as it is by then.
LEMMA UntouchedIsKept ==
    ASSUME NEW base \in DocRows, NEW row \in DocRows, NEW form \in Forms
    PROVE  LET shown == FormOf(base)
               saved == Edited(row, PayloadOf(base, form))
           IN /\ form.course = shown.course => saved.course = row.course
              /\ form.type = shown.type => saved.type = row.type
              /\ form.author = shown.author /\ form.tags = shown.tags
                    => saved.metadata = row.metadata
  <1> DEFINE shown == FormOf(base)
             payload == PayloadOf(base, form)
             saved == Edited(row, payload)
  <1>1. base \in DocRow /\ row \in DocRow /\ form \in Form
    BY EditsAreTyped
  <1>2. CASE ~Acceptable(payload)
    <2>1. saved = row
      BY <1>1, <1>2, EditedIs
    <2>2. QED BY <2>1
  <1>3. CASE Acceptable(payload)
    <2>1. /\ saved.course = IF form.course # base.course THEN form.course ELSE row.course
          /\ saved.type = IF form.type # base.type THEN form.type ELSE row.type
          /\ saved.metadata = IF MetadataChanged(base, form) THEN WrittenMetadata(form)
                              ELSE row.metadata
      BY <1>1, <1>3, EditedIs
    <2>2. shown.course = base.course /\ shown.type = base.type
      BY DEF FormOf
    <2>3. form.author = shown.author /\ form.tags = shown.tags => ~MetadataChanged(base, form)
      BY StoredTags DEF MetadataChanged
    <2> HIDE DEF saved
    <2>4. QED BY <2>1, <2>2, <2>3 DEF saved
  <1>4. QED BY <1>2, <1>3

\* An edit does what its user did and nothing else, or nothing at all.
THEOREM EditsDoWhatWasDone == Spec => []EditsAreSound
  <1>1. ASSUME IInv PROVE EditsAreSound
    <2> SUFFICES ASSUME Is("edit") PROVE EditsAreSound
      BY DEF EditsAreSound, TypedIsSaved, OthersEditsSurvive
    <2>1. /\ job.base \in DocRows /\ job.row \in DocRows /\ job.form \in Forms
          /\ Saved = Edited(job.row, PayloadOf(job.base, job.form))
      BY <1>1, DoneIs DEF Saved
    <2>2. TypedIsSaved
      BY <2>1, WhatIsTyped, NothingIsAskedFor, ClearedTypeIsRefused, EditsAreTyped
         DEF TypedIsSaved, Valid, Typed
    <2>3. OthersEditsSurvive
      BY <2>1, UntouchedIsKept DEF OthersEditsSurvive
    <2>4. QED BY <2>2, <2>3 DEF EditsAreSound
  <1>2. QED BY <1>1, Invariance, PTL

-----------------------------------------------------------------------------
\* The loop of Total.
Summing(turns) ==
    LET sum[i \in 0 .. Len(turns)] == IF i = 0 THEN 0 ELSE sum[i - 1] + turns[i].size
    IN sum

\* No turns have no characters, and one turn has its own.
LEMMA TotalOfFew ==
    ASSUME NEW S, NEW turns \in Seq(S)
    PROVE  /\ Len(turns) = 0 => Total(turns) = 0
           /\ Len(turns) = 1 /\ turns[1].size \in Nat => Total(turns) = turns[1].size
  <1> DEFINE sum == Summing(turns)
             n == Len(turns)
  <1>1. ASSUME NEW g, g = [i \in 0..n |-> IF i = 0 THEN 0 ELSE g[i-1] + turns[i].size]
        PROVE sum = [i \in 0..n |-> IF i = 0 THEN 0 ELSE sum[i-1] + turns[i].size]
    BY <1>1 DEF Summing
  <1>2. Total(turns) = sum[n]
    BY DEF Total, Summing
  <1>3. CASE n = 0
    <2> DEFINE g == [i \in 0..0 |-> 0]
    <2>1. g = [i \in 0..n |-> IF i = 0 THEN 0 ELSE g[i-1] + turns[i].size]
      BY <1>3
    <2> HIDE DEF g, sum
    <2>2. sum[0] = 0
      BY <1>1, <1>3, <2>1
    <2>3. QED BY <1>2, <1>3, <2>2 DEF n
  <1>4. CASE n = 1 /\ turns[1].size \in Nat
    <2> DEFINE g == [i \in 0..1 |-> IF i = 0 THEN 0 ELSE turns[1].size]
    <2>1. g = [i \in 0..n |-> IF i = 0 THEN 0 ELSE g[i-1] + turns[i].size]
      <3>1. ASSUME NEW i \in 0..1
            PROVE g[i] = IF i = 0 THEN 0 ELSE g[i-1] + turns[i].size
        <4>1. i = 0 \/ i = 1
          OBVIOUS
        <4>2. g[0] = 0 /\ g[1] = turns[1].size /\ 1 - 1 = 0
          OBVIOUS
        <4> HIDE DEF g
        <4>3. QED BY <4>1, <4>2, <1>4
      <3>2. g = [i \in 0..1 |-> g[i]]
        OBVIOUS
      <3> HIDE DEF g
      <3>3. QED BY <3>1, <3>2, <1>4
    <2> HIDE DEF g, sum
    <2>2. sum = [i \in 0..1 |-> IF i = 0 THEN 0 ELSE sum[i-1] + turns[i].size]
      BY <1>1, <1>4, <2>1
    <2>3. sum[0] = 0
      BY <2>2
    <2>4. sum[1] = sum[1-1] + turns[1].size
      BY <2>2
    <2>5. sum[1] = turns[1].size
      BY <2>3, <2>4, <1>4
    <2>6. QED BY <1>2, <1>4, <2>5 DEF n
  <1>5. QED BY <1>3, <1>4 DEF n

\* Characters are counted.
LEMMA TotalType ==
    ASSUME NEW n \in Nat, NEW turns, DOMAIN turns = 1..n, Len(turns) = n,
           \A i \in 1..n : turns[i].size \in Nat
    PROVE  Total(turns) \in Nat
  <1> DEFINE f == [p \in Nat \X Nat |-> p[1] + (IF p[2] \in 1..n THEN turns[p[2]].size ELSE 0)]
             c == Summing(turns)
  <1>1. f \in [Nat \X Nat -> Nat]
    <2>1. \A a, b \in Nat : a + (IF b \in 1..n THEN turns[b].size ELSE 0) \in Nat
      OBVIOUS
    <2>2. QED BY <2>1
  <1>2. PICK g \in [0..n -> Nat] : IsLoop(g, 0, f, n)
    <2>1. 0 \in Nat
      OBVIOUS
    <2> HIDE DEF f
    <2>2. QED BY <1>1, <2>1, LoopExists, Zenon
  <1>3. g = [i \in 0..n |-> IF i = 0 THEN 0 ELSE g[i-1] + turns[i].size]
    <2>1. ASSUME NEW i \in 0..n PROVE g[i] = IF i = 0 THEN 0 ELSE g[i-1] + turns[i].size
      <3>1. CASE i = 0
        BY <3>1, <1>2 DEF IsLoop
      <3>2. CASE i # 0
        <4>1. i \in 1..n /\ i - 1 \in 0..n /\ i \in Nat
          BY <3>2
        <4>2. g[i] = f[<<g[i-1], i>>]
          <5> HIDE DEF f
          <5>1. QED BY <1>2, <4>1 DEF IsLoop
        <4>3. f[<<g[i-1], i>>] = g[i-1] + turns[i].size
          BY <4>1
        <4>4. QED BY <3>2, <4>2, <4>3, Zenon
      <3>3. QED BY <3>1, <3>2
    <2>2. QED BY <2>1
  <1>4. c = [i \in 0..n |-> IF i = 0 THEN 0 ELSE c[i-1] + turns[i].size]
    BY <1>3 DEF Summing
  <1>5. Total(turns) = c[n]
    BY DEF Total, Summing
  <1> HIDE DEF c, f
  <1> DEFINE T == {i \in 0..n : c[i] \in Nat}
  <1>6. 0 \in T
    BY <1>4
  <1>7. ASSUME NEW i \in 1..n, i - 1 \in T PROVE i \in T
    <2>1. c[i] = c[i-1] + turns[i].size
      BY <1>4
    <2>2. QED BY <1>7, <2>1
  <1> HIDE DEF T
  <1>8. \A i \in 0..n : i \in T
    BY <1>6, <1>7, BoundedInduction
  <1>9. QED BY <1>5, <1>8 DEF T

\* What is spoken of a session's last messages are messages.
LEMMA SpokenType ==
    ASSUME NEW messages \in Seq(Message)
    PROVE  Spoken(messages) \in Seq(Message)
  <1> DEFINE n == Len(messages)
             limit == Min({MessageLimit, n})
             recent == ListRecent(messages)
  <1>1. n \in Nat /\ MessageLimit \in Nat
    BY LimitTypes
  <1>2. limit \in 0..n
    <2>1. \E x \in {MessageLimit, n} : \A y \in {MessageLimit, n} : x <= y
      BY <1>1
    <2>2. limit \in {MessageLimit, n} /\ \A y \in {MessageLimit, n} : limit <= y
      BY <2>1 DEF Min
    <2> HIDE DEF limit
    <2>3. QED BY <1>1, <2>2
  <1>3. recent \in Seq(Message)
    <2>1. recent = SubSeq(messages, n - limit + 1, n)
      BY DEF ListRecent
    <2> HIDE DEF limit, recent
    <2>2. n - limit + 1 \in 1..(n+1)
      BY <1>1, <1>2
    <2>3. QED BY <1>1, <2>1, <2>2
  <1>4. QED
    <2> HIDE DEF recent
    <2>1. Spoken(messages) = Picked(recent, {i \in DOMAIN recent : recent[i].size > 0})
      BY DEF Spoken, recent
    <2>2. QED BY <1>3, <2>1, PickedType

\* Turns that are cut are no longer than the limit of one.
LEMMA TurnsAreCut ==
    ASSUME NEW m \in Message
    PROVE  [m EXCEPT !.size = Truncated(m)]
             \in [role : Roles, text : Nat, size : 0..CharLimit, blanks : 0 .. (CharLimit - Ellipsis)]
  <1>1. m.size \in Nat /\ m.blanks \in 0 .. (CharLimit - Ellipsis)
    BY DEF Message
  <1>2. Truncated(m) \in 0..CharLimit
    BY <1>1, LimitTypes DEF Truncated
  <1>3. QED BY <1>2 DEF Message

\* What is left of a list without its beginning.
LEMMA RestIs ==
    ASSUME NEW S, NEW s \in Seq(S), NEW m \in 1 .. (Len(s) + 1)
    PROVE  /\ SubSeq(s, m, Len(s)) \in Seq(S)
           /\ Len(SubSeq(s, m, Len(s))) = Len(s) - m + 1
           /\ DOMAIN SubSeq(s, m, Len(s)) = 1 .. (Len(s) - m + 1)
           /\ \A i \in 1 .. (Len(s) - m + 1) :
                 SubSeq(s, m, Len(s))[i] = s[m - 1 + i] /\ m - 1 + i \in 1..Len(s)
  <1>1. /\ SubSeq(s, m, Len(s)) \in Seq(S)
        /\ Len(SubSeq(s, m, Len(s))) = Len(s) - m + 1
        /\ DOMAIN SubSeq(s, m, Len(s)) = 1 .. (Len(s) - m + 1)
    OBVIOUS
  <1>2. ASSUME NEW i \in 1 .. (Len(s) - m + 1)
        PROVE  SubSeq(s, m, Len(s))[i] = s[m - 1 + i] /\ m - 1 + i \in 1..Len(s)
    <2>1. m - 1 + i = m + i - 1 /\ m - 1 + i \in 1..Len(s)
      OBVIOUS
    <2>2. QED BY <2>1
  <1>3. QED BY <1>1, <1>2

\* The rest that fits is the longest, and it always has the last turn if one fits at all.
LEMMA DropOldestIs ==
    ASSUME NEW T, NEW turns \in Seq(T),
           \A i \in 1..Len(turns) : turns[i].size \in 0..CharLimit
    PROVE  /\ Total(DropOldest(turns)) <= TotalLimit
           /\ \E m \in 1 .. (Len(turns) + 1) :
                 /\ DropOldest(turns) = SubSeq(turns, m, Len(turns))
                 /\ m > 1 => Total(SubSeq(turns, m - 1, Len(turns))) > TotalLimit
                 /\ CharLimit <= TotalLimit /\ Len(turns) > 0 => m <= Len(turns)
  <1> DEFINE n == Len(turns)
             Rest(i) == SubSeq(turns, i, n)
             fits == {i \in 1 .. (n + 1) : Total(Rest(i)) <= TotalLimit}
             m == Min(fits)
  <1>1. n \in Nat /\ TotalLimit \in Nat /\ CharLimit \in Nat
    BY LimitTypes
  <1>2. n + 1 \in fits
    <2>1. Rest(n+1) \in Seq(T) /\ Len(Rest(n+1)) = 0
      BY <1>1
    <2>2. Total(Rest(n+1)) = 0
      <3> HIDE DEF Rest
      <3>1. QED BY <2>1, TotalOfFew
    <2>3. QED BY <1>1, <2>2
  <1>3. m \in fits /\ \A i \in fits : m <= i
    <2>1. fits \subseteq Nat
      BY <1>1
    <2> HIDE DEF fits
    <2>2. \E i \in fits : \A j \in fits : i <= j
      BY <1>2, <2>1, Least
    <2>3. QED BY <2>2 DEF Min
  <1>4. DropOldest(turns) = Rest(m)
    BY DEF DropOldest
  <1>5. ASSUME CharLimit <= TotalLimit, n > 0 PROVE m <= n
    <2>1. Rest(n) \in Seq(T) /\ Len(Rest(n)) = 1 /\ Rest(n)[1] = turns[n]
      BY <1>1, <1>5
    <2>2. turns[n].size \in Nat /\ turns[n].size <= CharLimit
      BY <1>1, <1>5
    <2>3. Total(Rest(n)) = turns[n].size
      <3> HIDE DEF Rest
      <3>1. QED BY <2>1, <2>2, TotalOfFew
    <2>4. n \in fits
      <3>1. Total(Rest(n)) <= TotalLimit
        BY <2>2, <2>3, <1>1, <1>5
      <3>2. n \in 1..(n+1)
        BY <1>1, <1>5
      <3>3. QED BY <3>1, <3>2
    <2>5. QED BY <1>3, <2>4
  <1> HIDE DEF m
  <1>6. m \in 1..(n+1) /\ Total(Rest(m)) <= TotalLimit
    BY <1>3
  <1>7. ASSUME m > 1 PROVE Total(Rest(m - 1)) > TotalLimit
    <2> DEFINE l == n - m + 2
               rest == Rest(m - 1)
    <2>1. m - 1 \in 1..(n+1) /\ m - 1 < m /\ l \in Nat
      BY <1>1, <1>6, <1>7
    <2>2. ~(Total(rest) <= TotalLimit)
      <3>1. m - 1 \notin fits
        <4> HIDE DEF fits
        <4>1. QED BY <1>3, <1>6, <2>1
      <3>2. QED BY <2>1, <3>1
    <2>3. Total(rest) \in Nat
      <3>1. n - (m - 1) + 1 = l
        BY <1>1, <1>6
      <3>2. \A i \in 1..n : turns[i].size \in Nat
        BY <1>1
      <3> HIDE DEF l
      <3>3. DOMAIN rest = 1..l /\ Len(rest) = l
            /\ \A i \in 1..l : rest[i] = turns[(m - 1) - 1 + i] /\ (m - 1) - 1 + i \in 1..n
        <4> HIDE DEF m
        <4>1. QED BY <2>1, <3>1, RestIs
      <3>4. \A i \in 1..l : rest[i].size \in Nat
        <4> HIDE DEF rest, n
        <4>1. QED BY <3>2, <3>3
      <3> HIDE DEF rest, l
      <3>5. QED BY <2>1, <3>3, <3>4, TotalType
    <2> HIDE DEF rest
    <2>4. Total(rest) > TotalLimit
      BY <1>1, <2>2, <2>3
    <2>5. QED BY <2>4 DEF rest
  <1>8. QED BY <1>4, <1>5, <1>6, <1>7

\* The model is shown the newest turns that fit, those and no others, whole or cut, and
\* the last of them always when a single one fits.
THEOREM NewestAreShown == Spec => []NewestTurnsAreShown
  <1>1. ASSUME IInv PROVE NewestTurnsAreShown
    <2> DEFINE spoken == Spoken(job.messages)
               turns == [i \in DOMAIN spoken |-> [spoken[i] EXCEPT !.size = Truncated(spoken[i])]]
               shown == DropOldest(turns)
               Shown == [role : Roles, text : Nat, size : 0..CharLimit,
                         blanks : 0 .. (CharLimit - Ellipsis)]
               n == Len(spoken)
    <2> SUFFICES ASSUME Is("remember")
                 PROVE  /\ Len(shown) <= n /\ shown = Newest(spoken, Len(shown))
                        /\ Total(shown) <= TotalLimit
                        /\ Len(shown) < n => Total(Newest(spoken, Len(shown) + 1)) > TotalLimit
                        /\ \A i \in DOMAIN shown : shown[i].size <= CharLimit
                        /\ CharLimit <= TotalLimit /\ spoken # <<>> => Len(shown) > 0
      BY <1>1, DoneIs DEF NewestTurnsAreShown, LoadHistory
    <2>1. spoken \in Seq(Message)
      BY <1>1, DoneIs, HistoriesAreTyped, SpokenType
    <2> HIDE DEF spoken
    <2>2. n \in Nat /\ DOMAIN spoken = 1..n /\ \A i \in 1..n : spoken[i] \in Message
      BY <2>1
    <2>3. \A i \in 1..n : turns[i] \in Shown
      BY <2>2, TurnsAreCut
    <2>4. turns \in Seq(Shown) /\ Len(turns) = n
      BY <2>2, <2>3
    <2>5. ASSUME NEW k \in 0..n PROVE Newest(spoken, k) = SubSeq(turns, n - k + 1, n)
      <3> DEFINE rest == SubSeq(turns, n - k + 1, n)
      <3>1. rest \in Seq(Shown) /\ Len(rest) = k /\ DOMAIN rest = 1..k
            /\ \A i \in 1..k : rest[i] = turns[n - k + i]
        <4> DEFINE m == n - k + 1
        <4> HIDE DEF turns, n
        <4>1. m \in 1..(n + 1) /\ n - m + 1 = k /\ k \in Nat
          BY <2>2
        <4>2. \A i \in 1..k : m - 1 + i = n - k + i
          BY <2>2
        <4> HIDE DEF m
        <4>3. /\ SubSeq(turns, m, n) \in Seq(Shown) /\ Len(SubSeq(turns, m, n)) = k
              /\ DOMAIN SubSeq(turns, m, n) = 1..k
              /\ \A i \in 1..k : SubSeq(turns, m, n)[i] = turns[m - 1 + i]
          <5> HIDE DEF Shown
          <5>1. QED BY <2>4, <4>1, RestIs
        <4>4. QED BY <4>2, <4>3 DEF m
      <3>2. \A i \in 1..k : n - k + i \in DOMAIN spoken
        BY <2>2
      <3>3. \A i \in 1..k : rest[i] = [spoken[n - k + i] EXCEPT !.size = Truncated(spoken[n - k + i])]
        BY <3>1, <3>2
      <3> HIDE DEF rest, turns
      <3>4. rest = [i \in 1..k |-> rest[i]]
        BY <3>1
      <3>5. Newest(spoken, k)
            = [i \in 1..k |-> [spoken[n - k + i] EXCEPT !.size = Truncated(spoken[n - k + i])]]
        BY DEF Newest, n
      <3>6. QED BY <3>3, <3>4, <3>5 DEF rest
    <2>6. \A i \in 1..n : turns[i].size \in 0..CharLimit
      <3> HIDE DEF turns
      <3>1. QED BY <2>3
    <2> HIDE DEF turns, n
    <2>7. Total(shown) <= TotalLimit
      BY <2>4, <2>6, DropOldestIs
    <2>8. PICK m \in 1 .. (n + 1) :
                /\ shown = SubSeq(turns, m, n)
                /\ m > 1 => Total(SubSeq(turns, m - 1, n)) > TotalLimit
                /\ CharLimit <= TotalLimit /\ n > 0 => m <= n
      BY <2>4, <2>6, DropOldestIs
    <2> HIDE DEF shown
    <2> DEFINE k == n - m + 1
    <2>9. k \in 0..n /\ n - k + 1 = m
      BY <2>2
    <2>10. Len(shown) = k /\ DOMAIN shown = 1..k
           /\ \A i \in 1..k : shown[i] = turns[m - 1 + i] /\ m - 1 + i \in 1..n
      <3> HIDE DEF Shown
      <3>1. QED BY <2>4, <2>8, RestIs
    <2> HIDE DEF k
    <2>11. shown = Newest(spoken, k)
      BY <2>5, <2>8, <2>9
    <2>12. ASSUME k < n PROVE Total(Newest(spoken, k + 1)) > TotalLimit
      <3>1. k + 1 \in 0..n /\ n - (k + 1) + 1 = m - 1 /\ m > 1
        BY <2>2, <2>9, <2>12
      <3>2. Newest(spoken, k + 1) = SubSeq(turns, m - 1, n)
        BY <2>5, <3>1
      <3>3. QED BY <2>8, <3>1, <3>2
    <2>13. \A i \in DOMAIN shown : shown[i].size <= CharLimit
      BY <2>6, <2>10, LimitTypes
    <2>14. ASSUME CharLimit <= TotalLimit, spoken # <<>> PROVE k > 0
      <3>1. n > 0
        BY <2>1, <2>2, <2>14 DEF n
      <3>2. QED BY <2>2, <2>8, <2>14, <3>1 DEF k
    <2>15. k <= n
      BY <2>2, <2>9
    <2>16. QED BY <2>7, <2>10, <2>11, <2>12, <2>13, <2>14, <2>15
  <1>2. QED BY <1>1, Invariance, PTL

-----------------------------------------------------------------------------
\* A list of chunks of the store, each once, that match the question.
IsListing(s, store, question) ==
    /\ s \in Seq(1..Len(store))
    /\ NoRepeats(s)
    /\ \A i \in ToSet(s) : Matches(store[i], question)

\* The chunks that are close enough.
Near(store, question) ==
    {i \in DOMAIN store :
        /\ Matches(store[i], question)
        /\ question.threshold # NoThreshold => store[i].near >= question.threshold}

\* The positions of a store are finitely many numbers.
LEMMA StorePositions ==
    ASSUME NEW store \in Seq(Point), NEW S \in SUBSET (1..Len(store))
    PROVE  DOMAIN store = 1..Len(store) /\ S \in SUBSET Nat /\ IsFiniteSet(S)
  <1>1. Len(store) \in Nat /\ DOMAIN store = 1..Len(store)
    OBVIOUS
  <1>2. IsFiniteSet(1..Len(store))
    BY <1>1, FS_Interval
  <1>3. S \in SUBSET Nat
    BY <1>1
  <1>4. IsFiniteSet(S)
    BY <1>2, FS_Subset
  <1>5. QED BY <1>1, <1>3, <1>4

\* The semantic search returns chunks that match, the closest first, and the fewer
\* that are wanted the fewer of the same.
LEMMA SearchVectorsIs ==
    ASSUME NEW store \in Seq(Point), NEW question \in Query, NEW n \in Nat
    PROVE  /\ IsListing(SearchVectors(store, question, n), store, question)
           /\ Len(SearchVectors(store, question, n)) <= n
           /\ \A i, j \in 1..Len(SearchVectors(store, question, n)) :
                 i < j => store[SearchVectors(store, question, n)[i]].near
                          >= store[SearchVectors(store, question, n)[j]].near
           /\ \A m \in Nat : m >= n => Top(SearchVectors(store, question, m), n)
                                       = SearchVectors(store, question, n)
  <1> DEFINE near == Near(store, question)
             score == [i \in near |-> store[i].near]
             t == SearchVectors(store, question, n)
  <1>1. DOMAIN store = 1..Len(store) /\ near \in SUBSET Nat /\ IsFiniteSet(near)
        /\ near \in SUBSET (1..Len(store))
    <2>1. DOMAIN store = 1..Len(store)
      OBVIOUS
    <2>2. near \in SUBSET (1..Len(store))
      BY <2>1 DEF Near
    <2> HIDE DEF near
    <2>3. QED BY <2>1, <2>2, StorePositions
  <1>2. score \in [near -> Int]
    <2>1. \A i \in near : store[i].near \in Int
      <3> HIDE DEF near
      <3>1. \A i \in near : store[i] \in Point
        BY <1>1
      <3>2. QED BY <3>1 DEF Point
    <2> HIDE DEF near
    <2>2. QED BY <2>1
  <1>3. \A m : SearchVectors(store, question, m) = Top(Ranked(near, score), m)
    BY DEF SearchVectors, Near
  <1>4. \A i \in near : score[i] = store[i].near /\ Matches(store[i], question)
    BY DEF Near
  <1> HIDE DEF near, score
  <1>5. /\ t \in Seq(near) /\ NoRepeats(t) /\ Len(t) <= n
        /\ \A i, j \in 1..Len(t) : i < j => score[t[i]] >= score[t[j]]
    BY <1>1, <1>2, <1>3, BestOfRanked
  <1>6. \A m \in Nat : m >= n => Top(SearchVectors(store, question, m), n) = t
    <2>1. ASSUME NEW m \in Nat, m >= n PROVE Top(Top(Ranked(near, score), m), n) = Top(Ranked(near, score), n)
      <3>1. Ranked(near, score) \in Seq(near)
        <4>1. /\ Cardinality(near) \in Nat
              /\ Ranked(near, score) \in [1..Cardinality(near) -> near]
          BY <1>1, <1>2, RankedIs
        <4>2. QED BY <4>1
      <3>2. QED BY <2>1, <3>1, TopOfTop
    <2>2. QED BY <1>3, <2>1
  <1> HIDE DEF t
  <1>7. \A i \in 1..Len(t) : t[i] \in near
    BY <1>5
  <1>8. IsListing(t, store, question)
    <2>1. t \in Seq(1..Len(store))
      BY <1>1, <1>5
    <2>2. \A i \in ToSet(t) : Matches(store[i], question)
      BY <1>4, <1>5, <1>7 DEF ToSet
    <2>3. QED BY <1>5, <2>1, <2>2 DEF IsListing
  <1>9. \A i, j \in 1..Len(t) : i < j => store[t[i]].near >= store[t[j]].near
    BY <1>4, <1>5, <1>7
  <1>10. QED BY <1>5, <1>6, <1>8, <1>9 DEF t

\* The chunks with any of the words.
Matching(store, question) ==
    {i \in DOMAIN store : Matches(store[i], question)
                          /\ MatchCount(store[i], question.words) > 0}

\* A question has finitely many words, so those a point has can be counted.
LEMMA MatchCountIs ==
    ASSUME NEW point \in Point, NEW question \in Query
    PROVE  /\ MatchCount(point, question.words) \in Nat
           /\ MatchCount(point, question.words) > 0
              <=> \E j \in DOMAIN question.words : question.words[j] \in point.words
  <1> DEFINE words == question.words
             had == {j \in DOMAIN words : words[j] \in point.words}
  <1>1. Len(words) \in Nat /\ DOMAIN words = 1..Len(words)
    <2>1. words \in Seq(Words)
      BY DEF Query
    <2> HIDE DEF words
    <2>2. QED BY <2>1
  <1>2. had \in SUBSET (1..Len(words))
    BY <1>1
  <1> HIDE DEF words, had
  <1>3. IsFiniteSet(had)
    <2>1. IsFiniteSet(1..Len(words))
      BY <1>1, FS_Interval
    <2>2. QED BY <1>2, <2>1, FS_Subset
  <1>4. Cardinality(had) \in Nat /\ (Cardinality(had) = 0 <=> had = {})
    BY <1>3, FS_CardinalityType, FS_EmptySet
  <1>5. Cardinality(had) > 0 <=> had # {}
    BY <1>4
  <1>6. MatchCount(point, words) = Cardinality(had)
    BY DEF MatchCount, had
  <1>7. had # {} <=> \E j \in DOMAIN words : words[j] \in point.words
    BY DEF had
  <1>8. QED BY <1>4, <1>5, <1>6, <1>7 DEF words

\* The scroll goes through exactly the chunks with any of the words, each once.
LEMMA WithWordsIs ==
    ASSUME NEW store \in Seq(Point), NEW question \in Query
    PROVE  /\ WithWords(store, question) \in Seq(1..Len(store))
           /\ NoRepeats(WithWords(store, question))
           /\ ToSet(WithWords(store, question)) = Matching(store, question)
  <1> DEFINE n == Len(store)
             ids == [i \in 1..n |-> i]
             P == Matching(store, question)
             w == WithWords(store, question)
  <1>1. n \in Nat /\ DOMAIN store = 1..n
    OBVIOUS
  <1>2. ids \in Seq(1..n) /\ Len(ids) = n /\ \A i \in 1..n : ids[i] = i
    BY <1>1
  <1>3. w = Picked(ids, P)
    BY <1>1 DEF WithWords, Matching
  <1>4. \A i \in P : i \in 1..n
    BY <1>1 DEF Matching
  <1> HIDE DEF ids, P, w, n
  <1>5. NoRepeats(ids)
    BY <1>2 DEF NoRepeats
  <1>6. w \in Seq(1..n)
    BY <1>2, <1>3, PickedType
  <1>7. NoRepeats(w) /\ \A x : x \in ToSet(w) <=> \E i \in 1..n : i \in P /\ ids[i] = x
    BY <1>2, <1>3, <1>5, PickedMembers
  <1>8. ToSet(w) = P
    <2>1. ASSUME NEW x \in P PROVE x \in ToSet(w)
      <3>1. x \in 1..n /\ ids[x] = x
        BY <1>2, <1>4
      <3>2. QED BY <3>1, <1>7
    <2>2. ASSUME NEW x \in ToSet(w) PROVE x \in P
      <3>1. PICK i \in 1..n : i \in P /\ ids[i] = x
        BY <1>7
      <3>2. QED BY <3>1, <1>2
    <2>3. QED BY <2>1, <2>2
  <1>9. QED BY <1>6, <1>7, <1>8 DEF w, P, n

\* The keyword search returns chunks that match and have a word; and, unless there are
\* more with words than are fetched, none with fewer than one that is left out.
LEMMA KeywordSearchIs ==
    ASSUME NEW store \in Seq(Point), NEW question \in Query, NEW n \in Nat
    PROVE  /\ IsListing(KeywordSearchVectors(store, question, n), store, question)
           /\ ToSet(KeywordSearchVectors(store, question, n)) \subseteq Matching(store, question)
           /\ Cardinality(Matching(store, question)) <= n * OverFetch =>
                 \A i \in ToSet(KeywordSearchVectors(store, question, n)),
                    j \in Matching(store, question)
                          \ ToSet(KeywordSearchVectors(store, question, n)) :
                    MatchCount(store[i], question.words) >= MatchCount(store[j], question.words)
  <1> DEFINE D == 1..Len(store)
             w == WithWords(store, question)
             few == n * OverFetch
             s == Scroll(store, question, n)
             scrolled == ToSet(s)
             score == [i \in scrolled |-> MatchCount(store[i], question.words)]
             t == KeywordSearchVectors(store, question, n)
             P == Matching(store, question)
  <1>1. w \in Seq(D) /\ NoRepeats(w) /\ ToSet(w) = P
    BY WithWordsIs
  <1>2. few \in Nat
    BY WeightTypes
  <1>3. s = Top(w, few)
    BY DEF Scroll
  <1>4. t = Top(Ranked(scrolled, score), n)
    BY DEF KeywordSearchVectors
  <1>5. P \in SUBSET D /\ \A i \in P : Matches(store[i], question)
    BY DEF Matching
  <1>6. \A i \in P : MatchCount(store[i], question.words) \in Int
    <2>1. \A i \in D : store[i] \in Point
      OBVIOUS
    <2>2. QED BY <1>5, <2>1, MatchCountIs
  <1> HIDE DEF w, few, s, t, P
  <1>7. s \in Seq(D) /\ Len(s) = (IF few < Len(w) THEN few ELSE Len(w)) /\ \A i \in 1..Len(s) : s[i] = w[i]
    BY <1>1, <1>2, <1>3, TopIs
  <1>8. Len(w) \in Nat /\ DOMAIN w = 1..Len(w) /\ DOMAIN s = 1..Len(s)
    BY <1>1, <1>7
  <1>9. scrolled \subseteq P
    BY <1>1, <1>2, <1>7, <1>8 DEF ToSet
  <1>10. score \in [scrolled -> Int]
    BY <1>6, <1>9
  <1>11. \A i \in scrolled : score[i] = MatchCount(store[i], question.words)
    OBVIOUS
  <1>12. scrolled \in SUBSET Nat /\ IsFiniteSet(scrolled)
    <2>1. scrolled \in SUBSET (1..Len(store))
      BY <1>5, <1>9
    <2> HIDE DEF scrolled
    <2>2. QED BY <2>1, StorePositions
  <1>13. ASSUME Cardinality(P) <= few PROVE scrolled = P
    <2>1. Cardinality(P) = Len(w)
      BY <1>1, MembersCounted
    <2>2. Len(s) = Len(w)
      <3>1. ~(few < Len(w))
        BY <1>2, <1>8, <1>13, <2>1
      <3>2. QED BY <3>1, <1>7
    <2>3. ToSet(s) = ToSet(w)
      BY <1>7, <1>8, <2>2 DEF ToSet
    <2>4. QED BY <1>1, <2>3
  <1> HIDE DEF scrolled, score
  <1>14. /\ t \in Seq(scrolled)
         /\ NoRepeats(t)
         /\ \A i \in ToSet(t), j \in scrolled \ ToSet(t) : score[i] >= score[j]
    BY <1>4, <1>10, <1>12, BestOfRanked
  <1>15. ToSet(t) \subseteq scrolled
    BY <1>14 DEF ToSet
  <1>16. t \in Seq(D)
    <2>1. scrolled \subseteq D
      BY <1>5, <1>9
    <2> HIDE DEF D
    <2>2. QED BY <2>1, <1>14, SeqMonotonic
  <1>17. IsListing(t, store, question)
    BY <1>5, <1>9, <1>14, <1>15, <1>16 DEF IsListing
  <1>18. ASSUME Cardinality(P) <= few, NEW i \in ToSet(t), NEW j \in P \ ToSet(t)
         PROVE MatchCount(store[i], question.words) >= MatchCount(store[j], question.words)
    <2>1. i \in scrolled /\ j \in scrolled \ ToSet(t)
      BY <1>13, <1>15, <1>18
    <2>2. score[i] >= score[j]
      BY <1>14, <2>1
    <2>3. QED BY <1>11, <2>1, <2>2
  <1>19. ToSet(t) \subseteq P
    BY <1>9, <1>15
  <1>20. QED BY <1>17, <1>18, <1>19 DEF t, P, few

-----------------------------------------------------------------------------
\* The keyword results that are not among the dense ones follow them.
LEMMA DeduplicateIs ==
    ASSUME NEW store \in Seq(Point), NEW question \in Query, NEW dense, NEW keyword,
           IsListing(dense, store, question), IsListing(keyword, store, question)
    PROVE  /\ IsListing(Deduplicate(dense, keyword), store, question)
           /\ Len(dense) <= Len(Deduplicate(dense, keyword))
           /\ \A i \in 1..Len(dense) : Deduplicate(dense, keyword)[i] = dense[i]
  <1> DEFINE D == 1..Len(store)
             P == {r \in DOMAIN keyword : ~Contains(dense, keyword[r])}
             new == Picked(keyword, P)
             c == Deduplicate(dense, keyword)
             n == Len(dense)
             m == Len(new)
  <1>1. /\ dense \in Seq(D) /\ NoRepeats(dense) /\ \A i \in ToSet(dense) : Matches(store[i], question)
        /\ keyword \in Seq(D) /\ NoRepeats(keyword) /\ \A i \in ToSet(keyword) : Matches(store[i], question)
    BY DEF IsListing
  <1>2. c = dense \o new
    BY DEF Deduplicate
  <1>3. \A r \in P : r \in 1..Len(keyword) /\ ~Contains(dense, keyword[r])
    BY <1>1
  <1> HIDE DEF P, D
  <1>4. new \in Seq(D)
    BY <1>1, PickedType
  <1>5. /\ \A x : x \in ToSet(new) <=> \E i \in 1..Len(keyword) : i \in P /\ keyword[i] = x
        /\ NoRepeats(new)
    BY <1>1, PickedMembers
  <1> HIDE DEF new, c
  <1>6. n \in Nat /\ m \in Nat /\ DOMAIN dense = 1..n /\ DOMAIN new = 1..m
        /\ DOMAIN keyword = 1..Len(keyword)
    BY <1>1, <1>4
  <1>7. /\ c \in Seq(D) /\ Len(c) = n + m /\ DOMAIN c = 1..(n+m)
        /\ \A i \in 1..n : c[i] = dense[i]
        /\ \A i \in (n+1)..(n+m) : c[i] = new[i - n] /\ i - n \in 1..m
    BY <1>1, <1>2, <1>4
  <1> HIDE DEF n, m
  <1>8. ASSUME NEW i \in 1..n, NEW j \in 1..m PROVE dense[i] # new[j]
    <2>1. new[j] \in ToSet(new)
      BY <1>6 DEF ToSet
    <2>2. PICK k \in 1..Len(keyword) : k \in P /\ keyword[k] = new[j]
      BY <1>5, <2>1
    <2>3. ~Contains(dense, new[j])
      BY <1>3, <2>2
    <2>4. QED BY <2>3 DEF Contains, n
  <1>9. \A i \in 1..(n+m) : i \in 1..n \/ i \in (n+1)..(n+m)
    BY <1>6
  <1>10. NoRepeats(c)
    <2>1. ASSUME NEW i \in 1..(n+m), NEW j \in 1..(n+m), c[i] = c[j] PROVE i = j
      <3>1. CASE i \in 1..n /\ j \in 1..n
        BY <1>1, <1>7, <2>1, <3>1 DEF NoRepeats, n
      <3>2. CASE i \in (n+1)..(n+m) /\ j \in (n+1)..(n+m)
        <4>1. new[i-n] = new[j-n] /\ i - n \in 1..m /\ j - n \in 1..m
          BY <1>7, <2>1, <3>2
        <4>2. i - n = j - n
          BY <4>1, <1>5 DEF NoRepeats, m
        <4>3. QED BY <4>2, <1>6
      <3>3. CASE i \in 1..n /\ j \in (n+1)..(n+m)
        BY <1>7, <1>8, <2>1, <3>3
      <3>4. CASE i \in (n+1)..(n+m) /\ j \in 1..n
        BY <1>7, <1>8, <2>1, <3>4
      <3>5. QED BY <1>9, <3>1, <3>2, <3>3, <3>4
    <2>2. QED BY <2>1, <1>7 DEF NoRepeats
  <1>11. \A i \in ToSet(c) : Matches(store[i], question)
    <2>1. ASSUME NEW k \in 1..(n+m) PROVE Matches(store[c[k]], question)
      <3>1. CASE k \in 1..n
        <4>1. c[k] \in ToSet(dense)
          BY <1>6, <1>7, <3>1 DEF ToSet
        <4>2. QED BY <4>1, <1>1
      <3>2. CASE k \in (n+1)..(n+m)
        <4>1. c[k] \in ToSet(new)
          BY <1>6, <1>7, <3>2 DEF ToSet
        <4>2. c[k] \in ToSet(keyword)
          BY <4>1, <1>5, <1>6 DEF ToSet
        <4>3. QED BY <4>2, <1>1
      <3>3. QED BY <1>9, <3>1, <3>2
    <2>2. QED BY <2>1, <1>7 DEF ToSet
  <1>12. IsListing(c, store, question)
    BY <1>7, <1>10, <1>11 DEF IsListing, D
  <1>13. n <= Len(c)
    BY <1>6, <1>7
  <1>14. QED BY <1>7, <1>12, <1>13 DEF c, n

\* In a list without repetitions the rank of an element is its place.
LEMMA RankInIs ==
    ASSUME NEW S, NEW s \in Seq(S), NoRepeats(s), NEW r \in 1..Len(s)
    PROVE  RankIn(s, s[r]) = r /\ Contains(s, s[r])
  <1>1. DOMAIN s = 1..Len(s)
    OBVIOUS
  <1>2. \A q \in DOMAIN s : s[q] = s[r] => q = r
    BY <1>1 DEF NoRepeats
  <1>3. RankIn(s, s[r]) = r
    BY <1>1, <1>2 DEF RankIn
  <1>4. QED BY <1>3 DEF Contains

\* The loop of RrfScale.
Scaling(n) ==
    LET product[r \in 0 .. n] == IF r = 0 THEN 1 ELSE product[r - 1] * (RrfK + r)
    IN product

\* The product of the denominators is a natural number.
LEMMA RrfScaleType ==
    ASSUME NEW n \in Nat
    PROVE  RrfScale(n) \in Nat
  <1> DEFINE f == [p \in Nat \X Nat |-> p[1] * (RrfK + p[2])]
             c == Scaling(n)
  <1>1. f \in [Nat \X Nat -> Nat]
    <2>1. \A a, b \in Nat : a * (RrfK + b) \in Nat
      BY WeightTypes
    <2>2. QED BY <2>1
  <1>2. PICK g \in [0..n -> Nat] : IsLoop(g, 1, f, n)
    <2>1. 1 \in Nat
      OBVIOUS
    <2> HIDE DEF f
    <2>2. QED BY <1>1, <2>1, LoopExists, Zenon
  <1>3. g = [r \in 0..n |-> IF r = 0 THEN 1 ELSE g[r-1] * (RrfK + r)]
    <2>1. ASSUME NEW r \in 0..n PROVE g[r] = IF r = 0 THEN 1 ELSE g[r-1] * (RrfK + r)
      <3>1. CASE r = 0
        BY <3>1, <1>2 DEF IsLoop
      <3>2. CASE r # 0
        <4>1. r \in 1..n /\ r - 1 \in 0..n /\ r \in Nat
          BY <3>2
        <4>2. g[r] = f[<<g[r-1], r>>]
          <5> HIDE DEF f
          <5>1. QED BY <1>2, <4>1 DEF IsLoop
        <4>3. f[<<g[r-1], r>>] = g[r-1] * (RrfK + r)
          BY <4>1
        <4>4. QED BY <3>2, <4>2, <4>3, Zenon
      <3>3. QED BY <3>1, <3>2
    <2>2. QED BY <2>1
  <1>4. c = [r \in 0..n |-> IF r = 0 THEN 1 ELSE c[r-1] * (RrfK + r)]
    BY <1>3 DEF Scaling
  <1>5. RrfScale(n) = c[n]
    BY DEF RrfScale, Scaling
  <1> HIDE DEF c
  <1>6. c[n] \in Nat
    <2> DEFINE T == {r \in 0..n : c[r] \in Nat}
    <2>1. 0 \in T
      BY <1>4
    <2>2. ASSUME NEW r \in 1..n, r - 1 \in T PROVE r \in T
      <3>1. c[r] = c[r-1] * (RrfK + r)
        BY <1>4
      <3>2. c[r-1] \in Nat /\ RrfK + r \in Nat
        BY <2>2, WeightTypes
      <3>3. c[r] \in Nat
        BY <3>1, <3>2
      <3>4. QED BY <3>3
    <2> HIDE DEF T
    <2>3. \A r \in 0..n : r \in T
      BY <2>1, <2>2, BoundedInduction
    <2>4. QED BY <2>3 DEF T
  <1>7. QED BY <1>5, <1>6

\* What one list gives to the fused score of a chunk, in parts of scale.
Part(scale, s, i) == IF Contains(s, i) THEN scale \div (RrfK + RankIn(s, i)) ELSE 0

\* It is a natural number.
LEMMA PartType ==
    ASSUME NEW scale \in Nat, NEW S, NEW s \in Seq(S), NEW i
    PROVE  Part(scale, s, i) \in Nat
  <1>1. ASSUME Contains(s, i) PROVE RankIn(s, i) \in Nat \ {0}
    <2>1. \E r \in DOMAIN s : s[r] = i
      BY <1>1 DEF Contains
    <2>2. RankIn(s, i) \in DOMAIN s
      BY <2>1 DEF RankIn
    <2>3. QED BY <2>2
  <1>2. ASSUME Contains(s, i) PROVE scale \div (RrfK + RankIn(s, i)) \in Nat
    <2>1. RrfK + RankIn(s, i) \in Nat \ {0}
      BY <1>1, <1>2, WeightTypes
    <2>2. QED BY <2>1, QuotientShrinks
  <1>3. QED BY <1>2 DEF Part

\* A list gives no less to what comes before.
LEMMA PartShrinks ==
    ASSUME NEW scale \in Nat, NEW S, NEW s \in Seq(S), NoRepeats(s),
           NEW p \in 1..Len(s), NEW q \in 1..Len(s), p < q
    PROVE  Part(scale, s, s[p]) >= Part(scale, s, s[q])
  <1>1. Part(scale, s, s[p]) = scale \div (RrfK + p) /\ Part(scale, s, s[q]) = scale \div (RrfK + q)
    BY RankInIs DEF Part
  <1>2. RrfK + p \in Nat \ {0} /\ RrfK + q \in Nat \ {0} /\ RrfK + p <= RrfK + q
    BY WeightTypes
  <1>3. QED BY <1>1, <1>2, QuotientShrinks

\* So does the fusion of both.
LEMMA FusionIs ==
    ASSUME NEW S, NEW dense \in Seq(S), NEW keyword \in Seq(S), NEW i
    PROVE  \E scale \in Nat : \A j : RrfFusion(dense, keyword, j)
                                     = Part(scale, dense, j) + Part(scale, keyword, j)
  <1> DEFINE n == Max({Len(dense), Len(keyword)})
  <1>1. n \in Nat
    <2>1. Len(dense) \in Nat /\ Len(keyword) \in Nat
      OBVIOUS
    <2>2. \E x \in {Len(dense), Len(keyword)} : \A y \in {Len(dense), Len(keyword)} : x >= y
      BY <2>1
    <2>3. n \in {Len(dense), Len(keyword)}
      BY <2>2 DEF Max
    <2>4. QED BY <2>1, <2>3
  <1>2. \A j : RrfFusion(dense, keyword, j)
               = Part(RrfScale(n), dense, j) + Part(RrfScale(n), keyword, j)
    BY DEF RrfFusion, Part
  <1> HIDE DEF n
  <1>3. QED BY <1>1, <1>2, RrfScaleType

\* A signal of the candidates is nowhere below its lowest, and its span is not negative.
LEMMA SignalIs ==
    ASSUME NEW S, NEW candidates \in Seq(S), candidates # <<>>,
           NEW signal \in [ToSet(candidates) -> Int]
    PROVE  Lowest(signal) \in Int /\ Whole(signal) \in Nat
  <1> DEFINE n == Len(candidates)
             f == [k \in 1..n |-> signal[candidates[k]]]
             values == Range(signal)
  <1>1. n \in Nat \ {0} /\ DOMAIN candidates = 1..n
    BY EmptySeq
  <1>2. f \in [1..n -> Int]
    BY <1>1 DEF ToSet
  <1>3. values = {f[k] : k \in 1..n}
    <2>1. values = {signal[x] : x \in ToSet(candidates)}
      BY DEF Range
    <2>2. ToSet(candidates) = {candidates[k] : k \in 1..n}
      BY <1>1 DEF ToSet
    <2> HIDE DEF values, n
    <2>3. QED BY <2>1, <2>2
  <1> HIDE DEF f, values, n
  <1>4. /\ \E i \in 1..n : \A j \in 1..n : f[i] <= f[j]
        /\ \E i \in 1..n : \A j \in 1..n : f[i] >= f[j]
    BY <1>1, <1>2, Extremes
  <1>5. \E x \in values : \A y \in values : x <= y
    <2>1. PICK i \in 1..n : \A j \in 1..n : f[i] <= f[j]
      BY <1>4
    <2>2. f[i] \in values /\ \A y \in values : f[i] <= y
      BY <1>3, <2>1
    <2>3. QED BY <2>2
  <1>6. \E x \in values : \A y \in values : x >= y
    <2>1. PICK i \in 1..n : \A j \in 1..n : f[i] >= f[j]
      BY <1>4
    <2>2. f[i] \in values /\ \A y \in values : f[i] >= y
      BY <1>3, <2>1
    <2>3. QED BY <2>2
  <1>7. Min(values) \in values /\ \A y \in values : Min(values) <= y
    BY <1>5 DEF Min
  <1>8. Max(values) \in values
    BY <1>6 DEF Max
  <1>9. values \subseteq Int
    BY <1>2, <1>3
  <1>10. Min(values) \in Int /\ Max(values) \in Int /\ Min(values) <= Max(values)
    BY <1>7, <1>8, <1>9
  <1>11. QED BY <1>10 DEF Lowest, Whole, Span, values

\* The weighted sum of two signals is no less where neither of them is.
LEMMA WeightedSum ==
    ASSUME NEW a \in Int, NEW b \in Int, NEW c \in Int, NEW d \in Int,
           NEW v \in Nat, NEW w \in Nat, a >= b, c >= d
    PROVE  /\ Alpha * (a * v) + Beta * (c * w) \in Int
           /\ Alpha * (a * v) + Beta * (c * w) >= Alpha * (b * v) + Beta * (d * w)
  <1>1. a * v \in Int /\ b * v \in Int /\ a * v >= b * v
    BY ProductGrows
  <1>2. c * w \in Int /\ d * w \in Int /\ c * w >= d * w
    BY ProductGrows
  <1> DEFINE av == a * v
             bv == b * v
             cw == c * w
             dw == d * w
  <1>3. av \in Int /\ bv \in Int /\ cw \in Int /\ dw \in Int /\ av >= bv /\ cw >= dw
    BY <1>1, <1>2
  <1> HIDE DEF av, bv, cw, dw
  <1>4. av * Alpha \in Int /\ bv * Alpha \in Int /\ av * Alpha >= bv * Alpha
    BY <1>3, WeightTypes, ProductGrows
  <1>5. cw * Beta \in Int /\ dw * Beta \in Int /\ cw * Beta >= dw * Beta
    BY <1>3, WeightTypes, ProductGrows
  <1>6. /\ Alpha * av = av * Alpha /\ Alpha * bv = bv * Alpha
        /\ Beta * cw = cw * Beta /\ Beta * dw = dw * Beta
    BY <1>3, WeightTypes
  <1>7. Alpha * av + Beta * cw \in Int /\ Alpha * av + Beta * cw >= Alpha * bv + Beta * dw
    BY <1>4, <1>5, <1>6
  <1>8. QED BY <1>7 DEF av, bv, cw, dw

\* A candidate scores no less than one that is no closer and has no more fusion score.
LEMMA FinalScoreIs ==
    ASSUME NEW store \in Seq(Point), NEW dense \in Seq(1..Len(store)),
           NEW keyword \in Seq(1..Len(store)),
           NEW candidates \in Seq(1..Len(store)), candidates # <<>>
    PROVE  /\ FinalScore(store, dense, keyword, candidates) \in [ToSet(candidates) -> Int]
           /\ \A i, j \in ToSet(candidates) :
                 /\ Contains(dense, i) /\ Contains(dense, j)
                 /\ store[i].near >= store[j].near
                 /\ RrfFusion(dense, keyword, i) >= RrfFusion(dense, keyword, j)
                 => FinalScore(store, dense, keyword, candidates)[i]
                    >= FinalScore(store, dense, keyword, candidates)[j]
  <1> DEFINE C == ToSet(candidates)
             near == [i \in C |-> IF Contains(dense, i) THEN store[i].near ELSE 0]
             fused == [i \in C |-> RrfFusion(dense, keyword, i)]
             score == FinalScore(store, dense, keyword, candidates)
  <1>1. near \in [C -> Int]
    <2>1. \A i \in C : i \in 1..Len(store)
      BY DEF ToSet
    <2>2. \A i \in C : store[i].near \in Int
      <3> HIDE DEF C
      <3>1. \A i \in C : store[i] \in Point
        BY <2>1
      <3>2. QED BY <3>1 DEF Point
    <2> HIDE DEF C
    <2>3. QED BY <2>2
  <1>2. fused \in [C -> Int]
    <2>1. PICK scale \in Nat : \A j : RrfFusion(dense, keyword, j)
                                      = Part(scale, dense, j) + Part(scale, keyword, j)
      BY FusionIs
    <2>2. ASSUME NEW j PROVE RrfFusion(dense, keyword, j) \in Int
      <3>1. Part(scale, dense, j) \in Nat /\ Part(scale, keyword, j) \in Nat
        BY PartType
      <3>2. QED BY <2>1, <3>1
    <2>3. QED BY <2>2
  <1>3. score = [i \in C |-> Alpha * ((near[i] - Lowest(near)) * Whole(fused))
                             + Beta * ((fused[i] - Lowest(fused)) * Whole(near))]
    BY DEF FinalScore
  <1>4. \A i \in C : Contains(dense, i) => near[i] = store[i].near
    OBVIOUS
  <1>5. \A i \in C : fused[i] = RrfFusion(dense, keyword, i)
    OBVIOUS
  <1>6. Lowest(near) \in Int /\ Whole(near) \in Nat /\ Lowest(fused) \in Int /\ Whole(fused) \in Nat
    <2> HIDE DEF near, fused
    <2>1. QED BY <1>1, <1>2, SignalIs
  <1> HIDE DEF near, fused, score, C
  <1> DEFINE a(i) == near[i] - Lowest(near)
             b(i) == fused[i] - Lowest(fused)
             e(i) == Alpha * (a(i) * Whole(fused)) + Beta * (b(i) * Whole(near))
  <1>7. \A i \in C : a(i) \in Int /\ b(i) \in Int
    BY <1>1, <1>2, <1>6
  <1>8. ASSUME NEW i \in C, NEW j \in C, near[i] >= near[j], fused[i] >= fused[j]
        PROVE e(i) \in Int /\ e(i) >= e(j)
    <2>1. a(i) >= a(j) /\ b(i) >= b(j)
      BY <1>1, <1>2, <1>6, <1>8
    <2> HIDE DEF a, b
    <2>2. QED BY <1>6, <1>7, <2>1, WeightedSum
  <1>9. \A i \in C : e(i) \in Int
    <2>1. ASSUME NEW i \in C PROVE e(i) \in Int
      <3>1. near[i] >= near[i] /\ fused[i] >= fused[i]
        BY <1>1, <1>2
      <3> HIDE DEF e
      <3>2. QED BY <1>8, <3>1
    <2> HIDE DEF e
    <2>2. QED BY <2>1
  <1>10. score = [i \in C |-> e(i)]
    BY <1>3
  <1> HIDE DEF e
  <1>11. score \in [C -> Int]
    BY <1>9, <1>10
  <1>12. ASSUME NEW i \in C, NEW j \in C, Contains(dense, i), Contains(dense, j),
                store[i].near >= store[j].near,
                RrfFusion(dense, keyword, i) >= RrfFusion(dense, keyword, j)
         PROVE score[i] >= score[j]
    <2>1. near[i] >= near[j] /\ fused[i] >= fused[j]
      BY <1>4, <1>5, <1>12
    <2>2. QED BY <1>8, <1>10, <2>1
  <1>13. QED BY <1>11, <1>12 DEF score, C

\* Reranking puts the candidates into another order: two of them change places only
\* if the later one scores more.
LEMMA RerankIs ==
    ASSUME NEW store \in Seq(Point), NEW question \in Query, NEW dense, NEW keyword,
           NEW candidates,
           IsListing(dense, store, question), IsListing(keyword, store, question),
           IsListing(candidates, store, question), candidates # <<>>
    PROVE  /\ IsListing(Rerank(store, dense, keyword, candidates), store, question)
           /\ Len(Rerank(store, dense, keyword, candidates)) = Len(candidates)
           /\ \A a, b, p, q \in 1..Len(candidates) :
                 /\ Rerank(store, dense, keyword, candidates)[a] = candidates[p]
                 /\ Rerank(store, dense, keyword, candidates)[b] = candidates[q]
                 /\ p < q
                 /\ FinalScore(store, dense, keyword, candidates)[candidates[p]]
                    >= FinalScore(store, dense, keyword, candidates)[candidates[q]]
                 => a < b
           /\ (\A p, q \in 1..Len(candidates) : p < q =>
                  FinalScore(store, dense, keyword, candidates)[candidates[p]]
                  >= FinalScore(store, dense, keyword, candidates)[candidates[q]])
              => Rerank(store, dense, keyword, candidates) = candidates
  <1> DEFINE D == 1..Len(store)
             c == candidates
             n == Len(c)
             score == FinalScore(store, dense, keyword, c)
             sc == [r \in DOMAIN c |-> score[c[r]]]
             by == Ranked(DOMAIN c, sc)
             rr == Rerank(store, dense, keyword, c)
  <1>1. /\ c \in Seq(D) /\ NoRepeats(c) /\ \A i \in ToSet(c) : Matches(store[i], question)
        /\ dense \in Seq(D) /\ keyword \in Seq(D)
    BY DEF IsListing
  <1>2. n \in Nat /\ DOMAIN c = 1..n /\ Len(c) = n
    BY <1>1
  <1>3. score \in [ToSet(c) -> Int]
    BY <1>1, FinalScoreIs
  <1>4. rr = [r \in 1..n |-> c[by[r]]]
    BY <1>2 DEF Rerank
  <1> HIDE DEF score, rr, n
  <1>5. \A r \in 1..n : sc[r] = score[c[r]]
    BY <1>2
  <1>6. sc \in [1..n -> Int]
    BY <1>2, <1>3 DEF ToSet
  <1>7. 1..n \in SUBSET Nat /\ IsFiniteSet(1..n) /\ Cardinality(1..n) = n
    BY <1>2, FS_Interval
  <1>8. by = Ranked(1..n, sc)
    BY <1>2
  <1> HIDE DEF sc, by
  <1>9. /\ by \in [1..n -> 1..n]
        /\ \A i \in 1..n : \E r \in 1..n : by[r] = i
        /\ \A r, q \in 1..n : r < q => by[r] \in Better(1..n, sc, by[q])
    <2> DEFINE B == 1..n
    <2>1. B \in SUBSET Nat /\ IsFiniteSet(B) /\ Cardinality(B) = n /\ sc \in [B -> Int]
          /\ by = Ranked(B, sc)
      BY <1>6, <1>7, <1>8
    <2> HIDE DEF B
    <2>2. /\ by \in [1..Cardinality(B) -> B]
          /\ \A i \in B : \E r \in 1..Cardinality(B) : by[r] = i
          /\ \A r, q \in 1..Cardinality(B) : r < q => by[r] \in Better(B, sc, by[q])
      BY <2>1, RankedIs
    <2>3. /\ by \in [1..n -> B]
          /\ \A i \in B : \E r \in 1..n : by[r] = i
          /\ \A r, q \in 1..n : r < q => by[r] \in Better(B, sc, by[q])
      BY <2>1, <2>2
    <2>4. QED BY <2>3 DEF B
  <1>10. \A r \in 1..n : rr[r] = c[by[r]] /\ by[r] \in 1..n
    BY <1>4, <1>9
  <1>11. ASSUME NEW p \in 1..n, NEW q \in 1..n, p < q, sc[p] >= sc[q]
         PROVE q \notin Better(1..n, sc, p)
    BY <1>6, <1>11 DEF Better
  <1>12. rr \in Seq(D) /\ Len(rr) = n /\ DOMAIN rr = 1..n
    <2>1. ASSUME NEW r \in 1..n PROVE c[by[r]] \in D
      <3>1. by[r] \in 1..Len(c)
        BY <1>2, <1>10
      <3> HIDE DEF D
      <3>2. QED BY <3>1, <1>1, ElementOfSeq
    <2>2. rr \in [1..n -> D]
      BY <1>4, <2>1
    <2>3. QED BY <1>2, <2>2
  <1>13. NoRepeats(rr)
    <2>1. ASSUME NEW a \in 1..n, NEW b \in 1..n, rr[a] = rr[b] PROVE a = b
      <3>1. by[a] = by[b]
        <4>1. c[by[a]] = c[by[b]] /\ by[a] \in 1..Len(c) /\ by[b] \in 1..Len(c)
          BY <1>2, <1>10, <2>1
        <4>2. QED BY <4>1, <1>1 DEF NoRepeats
      <3>2. ASSUME NEW i \in 1..n PROVE i \notin Better(1..n, sc, i)
        BY <1>6, <3>2 DEF Better
      <3>3. ~(a < b) /\ ~(b < a)
        BY <1>9, <3>1, <3>2
      <3>4. QED BY <3>3, <1>2
    <2>2. QED BY <2>1, <1>12 DEF NoRepeats
  <1>14. \A i \in ToSet(rr) : Matches(store[i], question)
    <2>1. \A r \in 1..n : rr[r] \in ToSet(c)
      BY <1>2, <1>10 DEF ToSet
    <2>2. QED BY <1>1, <1>12, <2>1 DEF ToSet
  <1>15. IsListing(rr, store, question)
    BY <1>12, <1>13, <1>14 DEF IsListing
  <1>16. ASSUME NEW a \in 1..n, NEW b \in 1..n, NEW p \in 1..n, NEW q \in 1..n,
                rr[a] = c[p], rr[b] = c[q], p < q, score[c[p]] >= score[c[q]]
         PROVE a < b
    <2>1. by[a] = p /\ by[b] = q
      <3>1. /\ c[by[a]] = c[p] /\ by[a] \in 1..Len(c) /\ p \in 1..Len(c)
            /\ c[by[b]] = c[q] /\ by[b] \in 1..Len(c) /\ q \in 1..Len(c)
        BY <1>2, <1>10, <1>16
      <3>2. QED BY <3>1, <1>1 DEF NoRepeats
    <2>2. q \notin Better(1..n, sc, p)
      BY <1>5, <1>11, <1>16
    <2>3. ~(b < a) /\ a # b
      BY <1>9, <1>16, <2>1, <2>2
    <2>4. QED BY <2>3, <1>2
  <1>17. ASSUME \A p, q \in 1..n : p < q => score[c[p]] >= score[c[q]]
         PROVE rr = c
    <2>1. ASSUME NEW i \in 1..n PROVE Better(1..n, sc, i) = 1..(i-1)
      <3>1. ASSUME NEW j \in 1..n PROVE j \in Better(1..n, sc, i) <=> j < i
        <4>1. CASE j < i
          <5>1. sc[j] >= sc[i] /\ sc[j] \in Int /\ sc[i] \in Int
            BY <1>5, <1>6, <1>17, <4>1
          <5>2. QED BY <4>1, <5>1 DEF Better
        <4>2. CASE i < j
          BY <1>5, <1>11, <1>17, <4>2
        <4>3. CASE i = j
          BY <1>6, <4>3 DEF Better
        <4>4. QED BY <4>1, <4>2, <4>3
      <3>2. Better(1..n, sc, i) \subseteq 1..n
        BY DEF Better
      <3>3. \A j : j \in 1..(i-1) <=> j \in 1..n /\ j < i
        BY <1>2
      <3>4. QED BY <3>1, <3>2, <3>3
    <2>2. ASSUME NEW i \in 1..n PROVE Cardinality(1..(i-1)) = i - 1
      BY FS_Interval
    <2>3. \A r \in 1..n : by[r] = CHOOSE i \in 1..n : Cardinality(Better(1..n, sc, i)) = r - 1
      BY <1>7, <1>8 DEF Ranked, Better
    <2>4. ASSUME NEW r \in 1..n PROVE by[r] = r
      <3>1. \A i \in 1..n : Cardinality(Better(1..n, sc, i)) = r - 1 <=> i = r
        BY <2>1, <2>2
      <3>2. QED BY <2>3, <3>1
    <2>5. \A r \in 1..n : rr[r] = c[r]
      BY <1>10, <2>4
    <2>6. QED BY <1>1, <1>2, <1>12, <2>5, SeqEqual DEF n
  <1>18. QED BY <1>12, <1>15, <1>16, <1>17 DEF rr, score, n

-----------------------------------------------------------------------------
\* The first few of a listing are one.
LEMMA TopOfListing ==
    ASSUME NEW store, NEW question, NEW s, IsListing(s, store, question), NEW n \in Nat
    PROVE  IsListing(Top(s, n), store, question) /\ Len(Top(s, n)) <= n
  <1> DEFINE D == 1..Len(store)
             t == Top(s, n)
  <1>1. s \in Seq(D) /\ NoRepeats(s) /\ \A i \in ToSet(s) : Matches(store[i], question)
    BY DEF IsListing
  <1> HIDE DEF D
  <1>2. t \in Seq(D) /\ Len(t) = (IF n < Len(s) THEN n ELSE Len(s)) /\ \A i \in 1..Len(t) : t[i] = s[i]
    BY <1>1, TopIs
  <1> HIDE DEF t
  <1>3. Len(s) \in Nat /\ DOMAIN s = 1..Len(s) /\ DOMAIN t = 1..Len(t)
    BY <1>1, <1>2
  <1>4. \A i \in 1..Len(t) : i \in 1..Len(s)
    BY <1>2, <1>3
  <1>5. NoRepeats(t)
    BY <1>1, <1>2, <1>4 DEF NoRepeats
  <1>6. ToSet(t) \subseteq ToSet(s)
    BY <1>2, <1>3, <1>4 DEF ToSet
  <1>7. Len(t) <= n
    BY <1>2, <1>3
  <1>8. QED BY <1>1, <1>2, <1>5, <1>6, <1>7 DEF IsListing, D, t

\* The two searches behind a hybrid question.
Wanted(question) == question.limit * CandidateMultiplier
Dense(store, question) == SearchVectors(store, question, Wanted(question))
Keyword(store, question, works) ==
    IF question.words # <<>> /\ works THEN KeywordSearchVectors(store, question, Wanted(question))
    ELSE <<>>
Candidates(store, question, works) ==
    Deduplicate(Dense(store, question), Keyword(store, question, works))
Reranked(store, question, works) ==
    Rerank(store, Dense(store, question), Keyword(store, question, works),
           Candidates(store, question, works))

\* What they return are chunks that match, as many as may be wanted.
LEMMA SearchesAreListings ==
    ASSUME NEW store \in Seq(Point), NEW question \in Query, NEW works
    PROVE  /\ question.limit \in Nat /\ Wanted(question) \in Nat
           /\ question.limit <= Wanted(question)
           /\ IsListing(Dense(store, question), store, question)
           /\ IsListing(Keyword(store, question, works), store, question)
           /\ IsListing(Candidates(store, question, works), store, question)
  <1>1. question.limit \in Nat
    BY DEF Query
  <1>2. Wanted(question) \in Nat /\ question.limit <= Wanted(question)
    <2>1. CandidateMultiplier \in Nat /\ 1 \in Nat /\ CandidateMultiplier >= 1
      BY WeightTypes
    <2>2. CandidateMultiplier * question.limit >= 1 * question.limit
      BY <1>1, <2>1, ProductGrows
    <2>3. CandidateMultiplier * question.limit = question.limit * CandidateMultiplier
          /\ 1 * question.limit = question.limit
          /\ question.limit * CandidateMultiplier \in Nat
      BY <1>1, <2>1
    <2>4. QED BY <2>2, <2>3 DEF Wanted
  <1>3. IsListing(Dense(store, question), store, question)
    BY <1>2, SearchVectorsIs DEF Dense
  <1>4. IsListing(<<>>, store, question)
    <2>1. <<>> \in Seq(1..Len(store)) /\ Len(<<>>) = 0 /\ DOMAIN <<>> = {}
      OBVIOUS
    <2>2. NoRepeats(<<>>) /\ ToSet(<<>>) = {}
      BY DEF NoRepeats, ToSet
    <2>3. QED BY <2>1, <2>2 DEF IsListing
  <1>5. IsListing(Keyword(store, question, works), store, question)
    <2>1. IsListing(KeywordSearchVectors(store, question, Wanted(question)), store, question)
      BY <1>2, KeywordSearchIs
    <2>2. QED BY <1>4, <2>1 DEF Keyword
  <1>6. IsListing(Candidates(store, question, works), store, question)
    BY <1>3, <1>5, DeduplicateIs DEF Candidates
  <1>7. QED BY <1>1, <1>2, <1>3, <1>5, <1>6

\* What a question is answered with.
LEMMA RetrieveIs ==
    ASSUME NEW store, NEW question, NEW works
    PROVE  Retrieve(store, question, works) =
               IF question.mode # "hybrid" THEN SearchVectors(store, question, question.limit)
               ELSE IF Candidates(store, question, works) = <<>> THEN <<>>
               ELSE Top(Reranked(store, question, works), question.limit)
  BY DEF Retrieve, RetrieveSemantic, RetrieveHybrid, Candidates, Reranked, Dense, Keyword, Wanted

\* An answer is a list of chunks that match, no longer than wanted.
LEMMA AnswersMatch ==
    ASSUME NEW store \in Seq(Point), NEW question \in Query, NEW works
    PROVE  /\ IsListing(Retrieve(store, question, works), store, question)
           /\ Len(Retrieve(store, question, works)) <= question.limit
  <1> DEFINE c == Candidates(store, question, works)
             rr == Reranked(store, question, works)
             hits == Retrieve(store, question, works)
  <1>1. /\ question.limit \in Nat
        /\ IsListing(Dense(store, question), store, question)
        /\ IsListing(Keyword(store, question, works), store, question)
        /\ IsListing(c, store, question)
    BY SearchesAreListings
  <1>2. CASE question.mode # "hybrid"
    BY <1>1, <1>2, RetrieveIs, SearchVectorsIs
  <1>3. CASE question.mode = "hybrid" /\ c = <<>>
    <2>1. hits = c
      BY <1>3, RetrieveIs
    <2>2. Len(c) = 0
      BY <1>3
    <2> HIDE DEF c, hits
    <2>3. QED BY <1>1, <2>1, <2>2 DEF hits
  <1>4. CASE question.mode = "hybrid" /\ c # <<>>
    <2>1. hits = Top(rr, question.limit)
      BY <1>4, RetrieveIs
    <2>2. IsListing(rr, store, question)
      BY <1>1, <1>4, RerankIs DEF Reranked
    <2> HIDE DEF rr, hits, c
    <2>3. QED BY <1>1, <2>1, <2>2, TopOfListing DEF hits
  <1>5. QED BY <1>2, <1>3, <1>4

\* Where the dense search has one chunk before another, and the keyword search too or
\* nothing at all, the first scores no less.
LEMMA AgreedScore ==
    ASSUME NEW store \in Seq(Point), NEW question \in Query, NEW works,
           NEW p \in 1..Len(Dense(store, question)), NEW q \in 1..Len(Dense(store, question)),
           p < q,
           LET i == Dense(store, question)[p]
               j == Dense(store, question)[q]
               keyword == Keyword(store, question, works)
           IN keyword = <<>> \/ InOrder(keyword, i, j)
    PROVE  FinalScore(store, Dense(store, question), Keyword(store, question, works),
                      Candidates(store, question, works))[Dense(store, question)[p]]
           >= FinalScore(store, Dense(store, question), Keyword(store, question, works),
                         Candidates(store, question, works))[Dense(store, question)[q]]
  <1> DEFINE D == 1..Len(store)
             dense == Dense(store, question)
             keyword == Keyword(store, question, works)
             c == Candidates(store, question, works)
             i == dense[p]
             j == dense[q]
  <1>1. /\ IsListing(dense, store, question) /\ IsListing(keyword, store, question)
        /\ IsListing(c, store, question) /\ Wanted(question) \in Nat
    BY SearchesAreListings
  <1>2. /\ dense \in Seq(D) /\ NoRepeats(dense)
        /\ keyword \in Seq(D) /\ NoRepeats(keyword)
        /\ c \in Seq(D)
    BY <1>1 DEF IsListing
  <1>3. Len(dense) <= Len(c) /\ \A r \in 1..Len(dense) : c[r] = dense[r]
    BY <1>1, DeduplicateIs DEF Candidates
  <1>4. store[i].near >= store[j].near
    BY <1>1, SearchVectorsIs DEF Dense
  <1>5. keyword = <<>> \/ InOrder(keyword, i, j)
    OBVIOUS
  <1> HIDE DEF dense, keyword, c
  <1>6. Contains(dense, i) /\ Contains(dense, j)
    BY DEF Contains, dense
  <1>7. i \in ToSet(c) /\ j \in ToSet(c) /\ c # <<>>
    <2>1. p \in 1..Len(c) /\ q \in 1..Len(c) /\ DOMAIN c = 1..Len(c) /\ Len(c) # 0
      BY <1>2, <1>3 DEF dense
    <2>2. c[p] = i /\ c[q] = j
      BY <1>3 DEF dense
    <2>3. QED BY <2>1, <2>2 DEF ToSet
  <1>8. PICK scale \in Nat : \A k : RrfFusion(dense, keyword, k)
                                    = Part(scale, dense, k) + Part(scale, keyword, k)
    BY <1>2, FusionIs
  <1>9. \A k : Part(scale, dense, k) \in Nat /\ Part(scale, keyword, k) \in Nat
    BY <1>2, PartType
  <1>10. Part(scale, dense, i) >= Part(scale, dense, j)
    BY <1>2, PartShrinks DEF dense
  <1>11. Part(scale, keyword, i) >= Part(scale, keyword, j)
    <2>1. CASE keyword = <<>>
      <3>1. ~Contains(keyword, i) /\ ~Contains(keyword, j)
        BY <2>1 DEF Contains
      <3>2. QED BY <3>1 DEF Part
    <2>2. CASE InOrder(keyword, i, j)
      <3>1. PICK a \in 1..Len(keyword) : keyword[a] = i
        BY <2>2 DEF InOrder, Contains
      <3>2. PICK b \in 1..Len(keyword) : keyword[b] = j
        BY <2>2 DEF InOrder, Contains
      <3> HIDE DEF i, j
      <3>3. RankIn(keyword, i) = a /\ RankIn(keyword, j) = b
        BY <1>2, <3>1, <3>2, RankInIs
      <3>4. a < b
        BY <2>2, <3>3 DEF InOrder
      <3>5. QED BY <1>2, <3>1, <3>2, <3>4, PartShrinks
    <2>3. QED BY <1>5, <2>1, <2>2
  <1>12. RrfFusion(dense, keyword, i) >= RrfFusion(dense, keyword, j)
    BY <1>8, <1>9, <1>10, <1>11
  <1>13. FinalScore(store, dense, keyword, c)[i] >= FinalScore(store, dense, keyword, c)[j]
    <2> HIDE DEF i, j
    <2>1. QED BY <1>2, <1>4, <1>6, <1>7, <1>12, FinalScoreIs
  <1>14. QED BY <1>13 DEF dense, keyword, c

\* Without the keyword search a hybrid question is answered as a semantic one is.
LEMMA FallsBack ==
    ASSUME NEW store \in Seq(Point), NEW question \in Query, NEW works,
           ~works \/ question.words = <<>>
    PROVE  Retrieve(store, question, works) = RetrieveSemantic(store, question)
  <1> DEFINE dense == Dense(store, question)
             c == Candidates(store, question, works)
             rr == Reranked(store, question, works)
             n == question.limit
             semantic == SearchVectors(store, question, n)
  <1>1. RetrieveSemantic(store, question) = semantic
    BY DEF RetrieveSemantic
  <1>2. Keyword(store, question, works) = <<>>
    BY DEF Keyword
  <1>3. /\ n \in Nat /\ Wanted(question) \in Nat /\ n <= Wanted(question)
        /\ IsListing(dense, store, question)
        /\ IsListing(Keyword(store, question, works), store, question)
        /\ IsListing(c, store, question)
    BY SearchesAreListings
  <1>4. Top(dense, n) = semantic
    BY <1>3, SearchVectorsIs DEF Dense
  <1>5. c = dense
    <2>1. c = dense \o Picked(<<>>, {r \in DOMAIN <<>> : ~Contains(dense, <<>>[r])})
      BY <1>2 DEF Candidates, Deduplicate
    <2>2. c = dense \o <<>>
      BY <2>1, PickedEmpty
    <2>3. dense \in Seq(1..Len(store))
      BY <1>3 DEF IsListing
    <2> HIDE DEF dense, c
    <2>4. QED BY <2>2, <2>3
  <1>6. CASE question.mode # "hybrid"
    BY <1>1, <1>6, RetrieveIs
  <1>7. CASE question.mode = "hybrid" /\ c = <<>>
    <2>1. Top(dense, n) = <<>>
      <3>1. dense = <<>> /\ <<>> \in Seq({})
        BY <1>5, <1>7
      <3>2. Len(dense) = 0 /\ dense \in Seq({})
        BY <3>1
      <3> HIDE DEF dense
      <3>3. Len(Top(dense, n)) = 0 /\ Top(dense, n) \in Seq({})
        BY <1>3, <3>2, TopIs
      <3>4. QED BY <3>3, EmptySeq
    <2>2. Retrieve(store, question, works) = <<>>
      BY <1>7, RetrieveIs
    <2>3. QED BY <1>1, <1>4, <2>1, <2>2
  <1>8. CASE question.mode = "hybrid" /\ c # <<>>
    <2>1. \A p, q \in 1..Len(dense) : p < q =>
              FinalScore(store, dense, Keyword(store, question, works), c)[dense[p]]
              >= FinalScore(store, dense, Keyword(store, question, works), c)[dense[q]]
      BY <1>2, AgreedScore
    <2>2. rr = c
      <3>1. \A p, q \in 1..Len(c) : p < q =>
                FinalScore(store, dense, Keyword(store, question, works), c)[c[p]]
                >= FinalScore(store, dense, Keyword(store, question, works), c)[c[q]]
        BY <1>5, <2>1
      <3> HIDE DEF c, dense
      <3>2. Rerank(store, dense, Keyword(store, question, works), c) = c
        BY <1>3, <1>8, <3>1, RerankIs
      <3>3. QED BY <3>2 DEF Reranked, c, dense
    <2>3. Retrieve(store, question, works) = Top(rr, n)
      BY <1>8, RetrieveIs
    <2>4. QED BY <1>1, <1>4, <1>5, <2>2, <2>3
  <1>9. QED BY <1>6, <1>7, <1>8

\* What both searches prefer is preferred.
LEMMA AgreementIsKept ==
    ASSUME NEW store \in Seq(Point), NEW question \in Query, question.mode = "hybrid",
           NEW i \in ToSet(Retrieve(store, question, TRUE)),
           NEW j \in ToSet(Retrieve(store, question, TRUE)),
           InOrder(Dense(store, question), i, j),
           InOrder(KeywordSearchVectors(store, question, Wanted(question)), i, j)
    PROVE  InOrder(Retrieve(store, question, TRUE), i, j)
  <1> DEFINE D == 1..Len(store)
             dense == Dense(store, question)
             found == KeywordSearchVectors(store, question, Wanted(question))
             keyword == Keyword(store, question, TRUE)
             c == Candidates(store, question, TRUE)
             rr == Reranked(store, question, TRUE)
             hits == Retrieve(store, question, TRUE)
             n == question.limit
  <1>1. /\ IsListing(dense, store, question) /\ IsListing(keyword, store, question)
        /\ IsListing(c, store, question) /\ Wanted(question) \in Nat /\ n \in Nat
    BY SearchesAreListings
  <1>2. /\ dense \in Seq(D) /\ NoRepeats(dense) /\ c \in Seq(D) /\ NoRepeats(c)
    BY <1>1 DEF IsListing
  <1>3. found = keyword
    <2>1. ASSUME question.words = <<>> PROVE FALSE
      <3>1. ASSUME NEW k \in DOMAIN store PROVE ~(MatchCount(store[k], question.words) > 0)
        <4>1. store[k] \in Point
          OBVIOUS
        <4>2. ~ \E l \in DOMAIN question.words : question.words[l] \in store[k].words
          BY <2>1
        <4> HIDE DEF dense, found, keyword, c, rr, hits, n, D
        <4>3. QED BY <4>1, <4>2, MatchCountIs
      <3>2. Matching(store, question) = {}
        BY <3>1 DEF Matching
      <3>3. ToSet(found) = {}
        BY <1>1, <3>2, KeywordSearchIs
      <3>4. found \in Seq(D)
        BY <1>1, KeywordSearchIs DEF IsListing
      <3>5. Contains(found, i)
        BY DEF InOrder
      <3> HIDE DEF found
      <3>6. QED BY <3>3, <3>4, <3>5 DEF Contains, ToSet
    <2>2. QED BY <2>1 DEF Keyword
  <1>4. PICK p \in 1..Len(dense) : dense[p] = i
    BY DEF InOrder, Contains
  <1>5. PICK q \in 1..Len(dense) : dense[q] = j
    BY DEF InOrder, Contains
  <1>6. p < q
    <2>1. RankIn(dense, i) = p /\ RankIn(dense, j) = q
      <3> HIDE DEF dense
      <3>1. QED BY <1>2, <1>4, <1>5, RankInIs
    <2>2. QED BY <2>1 DEF InOrder
  <1>7. FinalScore(store, dense, keyword, c)[i] >= FinalScore(store, dense, keyword, c)[j]
    BY <1>3, <1>4, <1>5, <1>6, AgreedScore
  <1>8. Len(dense) <= Len(c) /\ \A r \in 1..Len(dense) : c[r] = dense[r]
    <2>1. c = Deduplicate(dense, keyword)
      BY DEF Candidates
    <2> HIDE DEF dense, found, keyword, c, rr, hits, n, D
    <2>2. QED BY <1>1, <2>1, DeduplicateIs
  <1> HIDE DEF dense, found, keyword, c
  <1>9. /\ p \in 1..Len(c) /\ q \in 1..Len(c) /\ c[p] = i /\ c[q] = j /\ c # <<>>
    <2>1. Len(dense) \in Nat /\ Len(c) \in Nat
      BY <1>2
    <2>2. p \in 1..Len(c) /\ q \in 1..Len(c) /\ c[p] = i /\ c[q] = j /\ Len(c) # 0
      BY <1>4, <1>5, <1>8, <2>1
    <2>3. QED BY <2>2
  <1>10. hits = Top(rr, n)
    BY <1>9, RetrieveIs DEF c
  <1>11. rr = Rerank(store, dense, keyword, c)
    BY DEF Reranked, dense, keyword, c
  <1>12. /\ IsListing(rr, store, question) /\ Len(rr) = Len(c)
         /\ \A a, b, r, s \in 1..Len(c) :
               /\ rr[a] = c[r] /\ rr[b] = c[s] /\ r < s
               /\ FinalScore(store, dense, keyword, c)[c[r]]
                  >= FinalScore(store, dense, keyword, c)[c[s]]
               => a < b
    <2> DEFINE by == Rerank(store, dense, keyword, c)
    <2>1. rr = by
      BY <1>11
    <2>2. /\ IsListing(by, store, question) /\ Len(by) = Len(c)
          /\ \A a, b, r, s \in 1..Len(c) :
                /\ by[a] = c[r] /\ by[b] = c[s] /\ r < s
                /\ FinalScore(store, dense, keyword, c)[c[r]]
                   >= FinalScore(store, dense, keyword, c)[c[s]]
                => a < b
      <3> HIDE DEF rr, hits, n, D
      <3>1. QED BY <1>1, <1>9, RerankIs
    <2> HIDE DEF rr, by
    <2>3. QED BY <2>1, <2>2
  <1>13. rr \in Seq(D)
    BY <1>12 DEF IsListing
  <1> HIDE DEF rr, D, n
  <1>14. /\ hits \in Seq(D) /\ Len(hits) = (IF n < Len(rr) THEN n ELSE Len(rr))
         /\ \A a \in 1..Len(hits) : hits[a] = rr[a]
    <2> HIDE DEF hits
    <2>1. QED BY <1>1, <1>10, <1>13, TopIs
  <1>15. NoRepeats(hits)
    BY AnswersMatch DEF IsListing
  <1>16. i \in ToSet(hits) /\ j \in ToSet(hits)
    OBVIOUS
  <1> HIDE DEF hits
  <1>17. DOMAIN hits = 1..Len(hits) /\ \A a \in 1..Len(hits) : a \in 1..Len(rr)
    BY <1>1, <1>13, <1>14
  <1>18. PICK a \in 1..Len(hits) : hits[a] = i
    BY <1>16, <1>17 DEF ToSet
  <1>19. PICK b \in 1..Len(hits) : hits[b] = j
    BY <1>16, <1>17 DEF ToSet
  <1>20. a \in 1..Len(c) /\ b \in 1..Len(c) /\ rr[a] = c[p] /\ rr[b] = c[q]
    BY <1>9, <1>12, <1>14, <1>17, <1>18, <1>19
  <1>21. a < b
    BY <1>6, <1>7, <1>9, <1>12, <1>20
  <1>22. RankIn(hits, i) = a /\ RankIn(hits, j) = b /\ Contains(hits, i) /\ Contains(hits, j)
    BY <1>14, <1>15, <1>18, <1>19, RankInIs
  <1>23. QED BY <1>21, <1>22 DEF InOrder, hits

\* A question is answered with what was asked for, also when the keyword search fails;
\* what both searches prefer comes first, and of what is fetched the keyword search
\* prefers what has the most words, one that is typed twice counted twice.
THEOREM AnswersAreSound == Spec => []RetrievalIsSound
  <1>1. ASSUME IInv PROVE RetrievalIsSound
    <2> SUFFICES ASSUME Is("search") PROVE RetrievalIsSound
      BY DEF RetrievalIsSound, OnlyWhatWasAskedFor, FallbackIsSemantic, AgreedOrderIsKept,
             KeywordFindsBest
    <2> DEFINE works == job.search.keywordWorks
    <2>1. /\ Store \in Seq(Point) /\ Question \in Query /\ works \in BOOLEAN
          /\ Hits = Retrieve(Store, Question, works)
      BY <1>1, DoneIs, SearchesAreTyped DEF Store, Question, Hits
    <2> HIDE DEF works
    <2>2. OnlyWhatWasAskedFor
      <3>1. IsListing(Hits, Store, Question) /\ Len(Hits) <= Question.limit
        BY <2>1, AnswersMatch
      <3>2. Hits \in Seq(1..Len(Store)) /\ NoRepeats(Hits)
            /\ \A i \in ToSet(Hits) : Matches(Store[i], Question)
        BY <3>1 DEF IsListing
      <3>3. Cardinality(ToSet(Hits)) = Len(Hits)
        BY <3>2, MembersCounted
      <3>4. QED BY <3>1, <3>2, <3>3 DEF OnlyWhatWasAskedFor, Matches
    <2>3. FallbackIsSemantic
      BY <2>1, FallsBack DEF FallbackIsSemantic, works
    <2>4. AgreedOrderIsKept
      <3> SUFFICES ASSUME Question.mode = "hybrid", works,
                          NEW i \in ToSet(Hits), NEW j \in ToSet(Hits),
                          InOrder(Dense(Store, Question), i, j),
                          InOrder(KeywordSearchVectors(Store, Question, Wanted(Question)), i, j)
                   PROVE  InOrder(Hits, i, j)
        BY DEF AgreedOrderIsKept, works, Dense, Wanted
      <3>1. Hits = Retrieve(Store, Question, TRUE)
        BY <2>1
      <3>2. QED BY <2>1, <3>1, AgreementIsKept
    <2>5. KeywordFindsBest
      <3> DEFINE k == Question.limit
                 matching == {i \in DOMAIN Store :
                                 /\ Matches(Store[i], Question)
                                 /\ \E j \in DOMAIN Question.words :
                                       Question.words[j] \in Store[i].words}
      <3>1. matching = Matching(Store, Question)
        <4>1. ASSUME NEW i \in DOMAIN Store
              PROVE MatchCount(Store[i], Question.words) > 0
                    <=> \E j \in DOMAIN Question.words : Question.words[j] \in Store[i].words
          <5>1. Store[i] \in Point
            BY <2>1
          <5>2. QED BY <2>1, <5>1, MatchCountIs
        <4>2. QED BY <4>1 DEF Matching
      <3>2. k \in Nat
        BY <2>1 DEF Query
      <3> HIDE DEF matching, k
      <3>3. Cardinality(matching) <= k * OverFetch =>
                \A i \in ToSet(KeywordSearchVectors(Store, Question, k)),
                   j \in matching \ ToSet(KeywordSearchVectors(Store, Question, k)) :
                   MatchCount(Store[i], Question.words) >= MatchCount(Store[j], Question.words)
        BY <2>1, <3>1, <3>2, KeywordSearchIs
      <3>4. QED BY <3>3 DEF KeywordFindsBest, matching, k
    <2>6. QED BY <2>2, <2>3, <2>4, <2>5 DEF RetrievalIsSound
  <1>2. QED BY <1>1, Invariance, PTL
=============================================================================
