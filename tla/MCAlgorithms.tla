--------------------------- MODULE MCAlgorithms ---------------------------
(* Algorithms for TLC: the inputs. *)
EXTENDS Algorithms

CONSTANTS u1, u2, d1, d2, d3, w1, w2, w3, k1, k2, k3, c1, t1, t2, a1, a2, MaxPage, MaxText, MaxTags

Letter == 1
Shapes == {Letter, Space, Newline}

\* The letter at a place: its own, or the same everywhere.
Labelled(shape, base) == [i \in DOMAIN shape |-> IF shape[i] = Letter THEN base + i ELSE shape[i]]

PageOf(text, notes) == [text |-> text, notes |-> notes]

OnePage == {<<PageOf(Labelled(t, 0), <<>>)>> : t \in SeqOf(Shapes, MaxText)}
TwoPages ==
    {<<PageOf(Labelled(s, 0), <<>>), PageOf(Labelled(t, 10), <<>>)>> :
        s, t \in SeqOf(Shapes, MaxPage)}
Slides ==
    {<<PageOf(Labelled(s, 0), n), PageOf(Labelled(t, 10), <<>>)>> :
        s, t \in SeqOf({Letter, Space}, 3), n \in {<<>>, <<8, 9>>}}
Repeating == {<<PageOf(t, <<>>)>> : t \in SeqOf(Shapes, MaxText - 1)}
WithNulls == {<<PageOf(t, <<>>), PageOf(<<Letter>>, <<>>)>> : t \in SeqOf({Letter, Null, Newline}, 4)}
AllDocuments == OnePage \cup TwoPages \cup Slides \cup Repeating \cup WithNulls \cup {<<>>}

Owner(d) == IF d = d3 THEN u2 ELSE u1
PointOf(d, words, near) == [owner |-> Owner(d), document |-> d, words |-> words, near |-> near]
Mixed == {PointOf(d, w, n) : d \in {d1, d3}, w \in {{}, {w1}, {w1, w2}}, n \in {-1, 1, 2}}
Plain == {PointOf(d1, w, n) : w \in {{w1}, {w1, w2}}, n \in {1, 2}}
Stores == SeqOf(Mixed, 2) \cup TupleOf(Plain \cup {PointOf(d2, {w2, w3}, 2)}, 4)

Asked(document, threshold, limit, mode, words) ==
    [owner |-> u1, document |-> document, threshold |-> threshold, limit |-> limit,
     mode |-> mode, words |-> words]
Questions ==
    {Asked(d, NoThreshold, n, m, <<w1, w2>>) :
        d \in {AnyDocument, d1, d3}, n \in {1, 2}, m \in {"semantic", "hybrid"}}
    \cup {Asked(AnyDocument, t, 2, "hybrid", w) : t \in {NoThreshold, 0}, w \in {<<>>, <<w2>>, <<w1, w1, w2, w3>>}}
AllSearches == [store : Stores, question : Questions, keywordWorks : BOOLEAN]

\* Every message has a text of its own: its place.
Placed(messages) == [i \in DOMAIN messages |-> [messages[i] EXCEPT !.text = i]]
AllHistories ==
    {Placed(messages) :
        messages \in SeqOf([role : {"user", "assistant"}, text : {0}, size : {0, 2, 5}, blanks : {0, 1}], 4)}

AllTags == SeqOf([key : TagKeys \cup {BlankKey}, form : TagForms], MaxTags)

Typed1(key) == [key |-> key, form |-> 1]
Typed2(key) == [key |-> key, form |-> 2]
AllForms ==
    [course : {c1, None}, type : {t1, t2, None, Untyped}, author : {a1, a2, None},
     tags : {<<>>, <<Typed1(k1)>>, <<Typed2(k1), Typed1(k1)>>, <<Typed1(k2), Typed1(k1)>>,
             <<Typed1(k1), Typed1(BlankKey), Typed1(k2)>>,
             <<Typed1(k1), Typed1(k2), Typed1(k3)>>}]
AllDocRows ==
    [course : {c1, None}, type : {t1, t2, None},
     metadata : {None, NoMetadata} \cup [author : {a1}, tags : {<<>>, <<Typed1(k1)>>}]
                \cup [author : {None, a2}, tags : {<<Typed1(k2), Typed1(k1)>>}]]
=============================================================================
