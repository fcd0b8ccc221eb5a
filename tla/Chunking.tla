----------------------------- MODULE Chunking -----------------------------
(***************************************************************************)
(* From the text of the pages to chunks that know their page: joining and  *)
(* cleaning (extractors, cleaners.py), the recursive splitter and the page *)
(* look-up (chunking.py).  A text is a sequence of characters; a letter is *)
(* a positive number.                                                      *)
(***************************************************************************)
EXTENDS Lists, SequencesExt

CONSTANTS ChunkSize, Overlap

ASSUME SizeType == ChunkSize \in Nat \ {0} /\ Overlap \in 0..(ChunkSize - 1)

Space == 0
Newline == -1
Null == -2   \* what cleaning drops: null bytes

Char == {Space, Newline, Null} \cup (Nat \ {0})
Blank == {Space, Newline}

\* What is extracted from a page.
PageRecord == [text : Seq(Char), notes : Seq(Char)]

Join(pieces, sep) ==
    LET joined[i \in 0 .. Len(pieces)] ==
            IF i = 0 THEN <<>>
            ELSE IF i = 1 THEN pieces[1] ELSE joined[i - 1] \o sep \o pieces[i]
    IN joined[Len(pieces)]

Strip(t) ==
    LET solid == {i \in DOMAIN t : t[i] \notin Blank} IN
    IF solid = {} THEN <<>> ELSE SubSeq(t, Min(solid), Max(solid))

-----------------------------------------------------------------------------
\* The pages of a document are joined by a newline; the notes of a slide follow it
\* in the text, but are no part of the page's text.
WithNotes(page) ==
    IF page.notes = <<>> THEN page.text ELSE page.text \o <<Newline>> \o page.notes
FullText(pages) == Join([i \in DOMAIN pages |-> WithNotes(pages[i])], <<Newline>>)

\* Null bytes go, of three newlines or more two stay, and the ends are stripped.
Clean(text) ==
    LET t == Picked(text, {i \in DOMAIN text : text[i] # Null})
        Surplus(i) == i > 2 /\ \A j \in (i - 2)..i : t[j] = Newline
    IN Strip(Picked(t, {i \in DOMAIN t : ~Surplus(i)}))

-----------------------------------------------------------------------------
\* str.split: a piece ends where the separator has been read, all of it since the last
\* piece.  The empty separator stands for list.
Split(t, sep) ==
    LET read[i \in 0 .. Len(t)] ==
            IF i = 0 THEN [pieces |-> <<>>, from |-> 1]
            ELSE LET before == read[i - 1]
                     end == i - Len(sep)
                 IN IF end + 1 >= before.from /\ SubSeq(t, end + 1, i) = sep
                    THEN [pieces |-> Append(before.pieces, SubSeq(t, before.from, end)),
                          from |-> i + 1]
                    ELSE before
        last == read[Len(t)]
    IN IF sep = <<>> THEN [i \in DOMAIN t |-> <<t[i]>>]
       ELSE Append(last.pieces, SubSeq(t, last.from, Len(t)))

LastOf(pieces, n) == SubSeq(pieces, Len(pieces) - n + 1, Len(pieces))

\* Mutation: the carried pieces are not held to the overlap.
CarryAll(current, sep) == current

\* The last pieces that fit into the overlap are carried into the next chunk.
Carried(current, sep) ==
    LastOf(current, Max({n \in 0..Len(current) : Len(Join(LastOf(current, n), sep)) <= Overlap}))

NonEmpty(chunks) ==
    LET stripped == [i \in DOMAIN chunks |-> Strip(chunks[i])]
    IN Picked(stripped, {i \in DOMAIN stripped : stripped[i] # <<>>})

Flushed(done, current, sep) == IF current = <<>> THEN done ELSE Append(done, Join(current, sep))

\* A piece more.  One that fits no chunk is split further; one that does not fit into
\* the current chunk begins the next, behind what is carried over, whose length is not
\* checked again.
Collected(chunks, piece, sep, deeper) ==
    IF Len(piece) > ChunkSize
    THEN [done |-> Flushed(chunks.done, chunks.current, sep) \o deeper[piece], current |-> <<>>]
    ELSE IF Len(Join(Append(chunks.current, piece), sep)) <= ChunkSize
    THEN [chunks EXCEPT !.current = Append(@, piece)]
    ELSE [done |-> Flushed(chunks.done, chunks.current, sep),
          current |-> Append(Carried(chunks.current, sep), piece)]

\* The pieces of a text, collected into chunks; deeper has the chunks of the pieces that
\* fit none.
Assembled(pieces, sep, deeper) ==
    LET chunks[i \in 0 .. Len(pieces)] ==
            IF i = 0 THEN [done |-> <<>>, current |-> <<>>]
            ELSE Collected(chunks[i - 1], pieces[i], sep, deeper)
        end == chunks[Len(pieces)]
    IN NonEmpty(Flushed(end.done, end.current, sep))

SplitAt(text, sep, deeper) ==
    IF Len(text) <= ChunkSize THEN <<text>> ELSE Assembled(Split(text, sep), sep, deeper)

LongPieces(text, sep) == {piece \in ToSet(Split(text, sep)) : Len(piece) > ChunkSize}

\* The separators in their order.  With ChunkSize at least 1 the empty one leaves
\* nothing to split further.
SplitChars(text) == SplitAt(text, <<>>, <<>>)
SplitWords(text) ==
    SplitAt(text, <<Space>>, [piece \in LongPieces(text, <<Space>>) |-> SplitChars(piece)])
SplitLines(text) ==
    SplitAt(text, <<Newline>>, [piece \in LongPieces(text, <<Newline>>) |-> SplitWords(piece)])
SplitText(text) ==
    LET sep == <<Newline, Newline>>
    IN SplitAt(text, sep, [piece \in LongPieces(text, sep) |-> SplitLines(piece)])

-----------------------------------------------------------------------------
\* Where each page begins by the lengths of the pages' own texts, the end of the
\* text after them: one offset more than there are numbers.
PageOffsets(text, pages) ==
    LET begin == Totals([i \in DOMAIN pages |-> Len(pages[i].text) + 1])
    IN Append([i \in 1..(Len(pages) + 1) |-> begin[i - 1]], Len(text))

PageNumbers(pages) == [i \in 1..(Len(pages) + 1) |-> IF i <= Len(pages) THEN i ELSE Len(pages)]

\* Mutation: bisect_left.
HalfLeft(span, offsets, x) ==
    LET mid == (span.lo + span.hi) \div 2 IN
    IF span.lo >= span.hi THEN span
    ELSE IF x <= offsets[mid + 1] THEN [span EXCEPT !.hi = mid] ELSE [span EXCEPT !.lo = mid + 1]

\* The half of a span in which bisect_right looks on.
Half(span, offsets, x) ==
    LET mid == (span.lo + span.hi) \div 2 IN
    IF span.lo >= span.hi THEN span
    ELSE IF x < offsets[mid + 1] THEN [span EXCEPT !.hi = mid] ELSE [span EXCEPT !.lo = mid + 1]

\* bisect_right, on offsets whose last may be out of order; each round leaves less.
Bisect(offsets, x) ==
    LET span[i \in 0 .. Len(offsets)] ==
            IF i = 0 THEN [lo |-> 0, hi |-> Len(offsets)] ELSE Half(span[i - 1], offsets, x)
    IN span[Len(offsets)].lo

NoPage == 0

ResolvePage(offset, offsets, numbers) ==
    LET after == Bisect(offsets, offset) IN
    IF after = 0 THEN NoPage
    ELSE numbers[IF after < Len(numbers) THEN after ELSE Len(numbers)]

\* str.find from the cursor on: one before the cursor when there is nothing to find.
Find(text, chunk, cursor) ==
    LET at == {i \in cursor..(Len(text) - Len(chunk)) : SubSeq(text, i + 1, i + Len(chunk)) = chunk}
    IN IF at = {} THEN cursor - 1 ELSE Min(at)

\* The cursor advances by the chunks' lengths only.
ChunkText(text, pages) ==
    LET chunks == SplitText(text)
        cursor == Totals([i \in DOMAIN chunks |-> Len(chunks[i])])
        Page(i) == IF pages = <<>> THEN NoPage ELSE
                   ResolvePage(Find(text, chunks[i], cursor[i - 1]),
                               PageOffsets(text, pages), PageNumbers(pages))
    IN IF text = <<>> THEN <<>>
       ELSE [i \in DOMAIN chunks |-> [text |-> chunks[i], page |-> Page(i)]]

\* A processor's way from the pages to the chunks.
Process(pages) == ChunkText(Clean(FullText(pages)), pages)
=============================================================================
