----------------------------- MODULE Retrieval -----------------------------
(***************************************************************************)
(* Finding chunks for a question: the two searches of the vector store     *)
(* (qdrant.py), and the semantic and hybrid retrieval built on them        *)
(* (retrieval_service.py).  The store is a sequence of points in the order *)
(* of their ids, as a scroll returns them.  A point has an owner, a        *)
(* document, words, and its similarity to the question, a number.          *)
(*                                                                         *)
(* The floating-point scores of the code are exact fractions here, brought *)
(* to a common denominator.                                                *)
(***************************************************************************)
EXTENDS Lists, SequencesExt

CONSTANTS Users, DocIds, Words,
          CandidateMultiplier, RrfK, Alpha, Beta, OverFetch,
          AnyDocument, NoThreshold

ASSUME WeightTypes ==
    /\ CandidateMultiplier \in Nat \ {0} /\ OverFetch \in Nat \ {0}
    /\ RrfK \in Nat /\ Alpha \in Nat /\ Beta \in Nat

Point == [owner : Users, document : DocIds, words : SUBSET Words, near : Int]

\* A question: who asks it, the words that are left of it when stopwords and short
\* tokens are gone, each as often as it was typed, the document it is restricted to, the least similarity, how many
\* chunks are wanted and how they are to be found.
Query == [owner : Users, document : DocIds \cup {AnyDocument}, words : Seq(Words),
          threshold : Int \cup {NoThreshold}, limit : Nat, mode : {"semantic", "hybrid"}]

Matches(point, question) ==
    /\ point.owner = question.owner
    /\ question.document # AnyDocument => point.document = question.document

\* search_vectors: the closest points, as their positions in the store.
SearchVectors(store, question, limit) ==
    LET near == {i \in DOMAIN store :
                    /\ Matches(store[i], question)
                    /\ question.threshold # NoThreshold => store[i].near >= question.threshold}
    IN Top(Ranked(near, [i \in near |-> store[i].near]), limit)

\* How many words of the question a point has: one that is typed twice counts twice.
MatchCount(point, words) == Cardinality({i \in DOMAIN words : words[i] \in point.words})

\* The points with any of the words.
WithWords(store, question) ==
    Picked([i \in DOMAIN store |-> i],
           {i \in DOMAIN store :
               Matches(store[i], question) /\ MatchCount(store[i], question.words) > 0})

\* Mutation: no more points are fetched than are wanted.
ScrollExactly(store, question, limit) == Top(WithWords(store, question), limit)

\* The first few of them by id.
Scroll(store, question, limit) == Top(WithWords(store, question), limit * OverFetch)

\* keyword_search_vectors: of those, the ones with the most words.
KeywordSearchVectors(store, question, limit) ==
    LET scrolled == ToSet(Scroll(store, question, limit))
    IN Top(Ranked(scrolled, [i \in scrolled |-> MatchCount(store[i], question.words)]), limit)

-----------------------------------------------------------------------------
RankIn(s, i) == CHOOSE r \in DOMAIN s : s[r] = i

\* The product of the denominators of all ranks makes the fractions whole.
RrfScale(n) ==
    LET product[r \in 0 .. n] == IF r = 0 THEN 1 ELSE product[r - 1] * (RrfK + r)
    IN product[n]

\* The sum over the lists the chunk is in of 1 / (k + rank).
RrfFusion(dense, keyword, i) ==
    LET scale == RrfScale(Max({Len(dense), Len(keyword)}))
        Part(s) == IF Contains(s, i) THEN scale \div (RrfK + RankIn(s, i)) ELSE 0
    IN Part(dense) + Part(keyword)

\* _deduplicate: the dense results, then the keyword results that are not among them.
Deduplicate(dense, keyword) ==
    dense \o Picked(keyword, {r \in DOMAIN keyword : ~Contains(dense, keyword[r])})

\* A signal's place between its least and its greatest value, as a fraction over
\* Span; all zero when there is no difference.
Lowest(signal) == Min(Range(signal))
Span(signal) == Max(Range(signal)) - Lowest(signal)
Whole(signal) == IF Span(signal) = 0 THEN 1 ELSE Span(signal)

\* Alpha times the normalised similarity (0 for a chunk that only has the words)
\* plus Beta times the normalised fusion score, over the product of the spans.
FinalScore(store, dense, keyword, candidates) ==
    LET near == [i \in ToSet(candidates) |-> IF Contains(dense, i) THEN store[i].near ELSE 0]
        fused == [i \in ToSet(candidates) |-> RrfFusion(dense, keyword, i)]
    IN [i \in ToSet(candidates) |->
           Alpha * ((near[i] - Lowest(near)) * Whole(fused))
           + Beta * ((fused[i] - Lowest(fused)) * Whole(near))]

\* Candidates keep their order where they score the same.
Rerank(store, dense, keyword, candidates) ==
    LET score == FinalScore(store, dense, keyword, candidates)
        by == Ranked(DOMAIN candidates, [r \in DOMAIN candidates |-> score[candidates[r]]])
    IN [r \in DOMAIN candidates |-> candidates[by[r]]]

RetrieveSemantic(store, question) == SearchVectors(store, question, question.limit)

\* The keyword search may fail; the dense one then stands alone.
RetrieveHybrid(store, question, keywordWorks) ==
    LET k == question.limit * CandidateMultiplier
        dense == SearchVectors(store, question, k)
        keyword == IF question.words # <<>> /\ keywordWorks
                   THEN KeywordSearchVectors(store, question, k) ELSE <<>>
        candidates == Deduplicate(dense, keyword)
    IN IF candidates = <<>> THEN <<>>
       ELSE Top(Rerank(store, dense, keyword, candidates), question.limit)

Retrieve(store, question, keywordWorks) ==
    IF question.mode = "hybrid" THEN RetrieveHybrid(store, question, keywordWorks)
    ELSE RetrieveSemantic(store, question)
=============================================================================
