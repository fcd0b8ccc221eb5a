----------------------------- MODULE ListLemmas -----------------------------
(***************************************************************************)
(* What the comprehensions, sorts and slices of Lists return, for lists of *)
(* any length, and what the splitter of Chunking makes of a text, which is *)
(* a list of characters.                                                   *)
(*                                                                         *)
(* Induction is over sets of numbers instead of over a formula: a set of   *)
(* natural numbers that is not empty has a least member, so one that has 0 *)
(* and, with a number, the next one, has them all.  A loop over a list is  *)
(* a recursive function on 0..n: LoopExists gives a function that obeys    *)
(* its equation.                                                           *)
(***************************************************************************)
EXTENDS Chunking, FiniteSetTheorems, WellFoundedInduction, SequenceTheorems, TLAPS

\* A set of natural numbers that is not empty has a least member.
LEMMA Least ==
    ASSUME NEW T, T \subseteq Nat, T # {}
    PROVE  \E n \in T : \A m \in T : n <= m
  <1> DEFINE U == {1..n : n \in T}
  <1>1. U \subseteq FiniteSubsetsOf(Nat) /\ U # {}
    <2>1. ASSUME NEW n \in T PROVE 1..n \in FiniteSubsetsOf(Nat)
      BY FS_Interval DEF FiniteSubsetsOf
    <2>2. QED BY <2>1
  <1>2. PICK x \in U : \A y \in U : <<y, x>> \notin StrictSubsetOrdering(Nat)
    <2> HIDE DEF U
    <2>1. QED BY <1>1, FS_StrictSubsetOrderingWellFounded, WFMin
  <1>3. PICK n \in T : x = 1..n
    OBVIOUS
  <1>4. ASSUME NEW m \in T, m < n PROVE FALSE
    <2>1. 1..m \in U OBVIOUS
    <2>2. 1..m \subseteq 1..n /\ n \in 1..n /\ n \notin 1..m
      BY <1>4
    <2>3. 1..m \in SUBSET Nat /\ 1..n \in SUBSET Nat
      OBVIOUS
    <2>4. <<1..m, 1..n>> \in StrictSubsetOrdering(Nat)
      BY <2>2, <2>3 DEF StrictSubsetOrdering
    <2>5. QED BY <1>2, <1>3, <2>1, <2>4
  <1>5. QED BY <1>4

\* A set of natural numbers with 0 that is closed under the successor is all of them.
LEMMA SetInduction ==
    ASSUME NEW T, 0 \in T, \A n \in Nat : n \in T => n + 1 \in T
    PROVE  \A n \in Nat : n \in T
  <1> DEFINE B == {n \in Nat : n \notin T}
  <1>1. CASE B = {}
    BY <1>1
  <1>2. CASE B # {}
    <2>1. PICK n \in B : \A m \in B : n <= m
      BY <1>2, Least
    <2>2. n # 0 /\ n - 1 \in Nat
      BY <2>1
    <2>3. n - 1 \in T
      BY <2>1, <2>2
    <2>4. QED BY <2>1, <2>2, <2>3
  <1>3. QED BY <1>1, <1>2

\* The same up to a bound.
LEMMA BoundedInduction ==
    ASSUME NEW n \in Nat, NEW T, 0 \in T, \A i \in 1..n : i - 1 \in T => i \in T
    PROVE  \A i \in 0..n : i \in T
  <1> DEFINE U == {i \in Nat : i <= n => i \in T}
  <1>1. 0 \in U
    OBVIOUS
  <1>2. ASSUME NEW i \in Nat, i \in U PROVE i + 1 \in U
    <2>1. CASE i + 1 <= n
      <3>1. i + 1 \in 1..n /\ (i + 1) - 1 = i
        BY <2>1
      <3>2. QED BY <3>1, <1>2, <2>1
    <2>2. CASE ~(i + 1 <= n)
      BY <2>2
    <2>3. QED BY <2>1, <2>2
  <1>3. \A i \in Nat : i \in U
    <2> HIDE DEF U
    <2>1. QED BY <1>1, <1>2, SetInduction
  <1>4. QED BY <1>3

\* A number below which a set of natural numbers stays: the set has a greatest member.
LEMMA Greatest ==
    ASSUME NEW n \in Nat, NEW T, T \subseteq 0..n, T # {}
    PROVE  \E m \in T : \A k \in T : k <= m
  <1> DEFINE U == {n - m : m \in T}
  <1>1. PICK u \in U : \A v \in U : u <= v
    <2>1. U \subseteq Nat /\ U # {}
      <3>1. ASSUME NEW m \in T PROVE n - m \in Nat
        OBVIOUS
      <3>2. QED BY <3>1
    <2> HIDE DEF U
    <2>2. QED BY <2>1, Least
  <1>2. PICK m \in T : u = n - m
    OBVIOUS
  <1>3. ASSUME NEW k \in T PROVE k <= m
    <2>1. n - k \in U OBVIOUS
    <2>2. QED BY <1>1, <1>2, <2>1
  <1>4. QED BY <1>3

-----------------------------------------------------------------------------
\* The values of a loop of n rounds: it starts with a, and every round makes the next
\* value of the last with f.
IsLoop(g, a, f, n) == g[0] = a /\ \A i \in 1..n : g[i] = f[<<g[i-1], i>>]

\* A loop has a result.
LEMMA LoopExists ==
    ASSUME NEW S, NEW a \in S, NEW f \in [S \X Nat -> S], NEW n \in Nat
    PROVE  \E g \in [0..n -> S] : IsLoop(g, a, f, n)
  <1> USE DEF IsLoop
  <1> DEFINE Ok(m, g) == g[0] = a /\ \A i \in 1..m : g[i] = f[<<g[i-1], i>>]
             T == {m \in Nat : \E g \in [0..m -> S] : Ok(m, g)}
  <1>1. 0 \in T
    <2>1. [i \in 0..0 |-> a] \in [0..0 -> S] /\ Ok(0, [i \in 0..0 |-> a])
      OBVIOUS
    <2>2. QED BY <2>1
  <1>2. ASSUME NEW m \in Nat, m \in T PROVE m + 1 \in T
    <2>1. PICK g \in [0..m -> S] : Ok(m, g)
      BY <1>2
    <2> DEFINE h == [i \in 0..m+1 |-> IF i <= m THEN g[i] ELSE f[<<g[m], m+1>>]]
    <2>2. h \in [0..m+1 -> S]
      OBVIOUS
    <2>3. Ok(m+1, h)
      <3>1. ASSUME NEW i \in 1..m+1 PROVE h[i] = f[<<h[i-1], i>>]
        <4>1. CASE i <= m
          BY <4>1, <2>1
        <4>2. CASE i = m+1
          BY <4>2
        <4>3. QED BY <4>1, <4>2
      <3>2. h[0] = a
        BY <2>1
      <3>3. QED BY <3>1, <3>2
    <2>4. QED
      <3> HIDE DEF h
      <3> SUFFICES \E k \in [0..m+1 -> S] : Ok(m+1, k)
        OBVIOUS
      <3>1. QED BY <2>2, <2>3
  <1>3. n \in T
    <2> HIDE DEF T
    <2>1. QED BY <1>1, <1>2, SetInduction
  <1>4. QED BY <1>3

\* What holds of the empty list and, with a list, of every list longer by one, holds of
\* all of them.
LEMMA ListInduction ==
    ASSUME NEW S, NEW T, <<>> \in T,
           \A s \in Seq(S), x \in S : s \in T => Append(s, x) \in T
    PROVE  \A s \in Seq(S) : s \in T
  <1> DEFINE U == {n \in Nat : \A s \in Seq(S) : Len(s) = n => s \in T}
  <1>1. 0 \in U
    <2>1. ASSUME NEW s \in Seq(S), Len(s) = 0 PROVE s \in T
      <3>1. s = <<>>
        BY <2>1, EmptySeq
      <3>2. QED BY <3>1
    <2>2. QED BY <2>1
  <1>2. ASSUME NEW n \in Nat, n \in U PROVE n + 1 \in U
    <2>1. ASSUME NEW s \in Seq(S), Len(s) = n + 1 PROVE s \in T
      <3> DEFINE t == SubSeq(s, 1, n)
      <3>1. t \in Seq(S) /\ Len(t) = n
        BY <2>1
      <3>2. s[n + 1] \in S
        BY <2>1
      <3>3. s = Append(t, s[n + 1])
        BY <2>1
      <3> HIDE DEF t
      <3>4. t \in T
        BY <1>2, <3>1
      <3>5. QED BY <3>1, <3>2, <3>3, <3>4
    <2>2. QED BY <2>1
  <1>3. \A n \in Nat : n \in U
    <2> HIDE DEF U
    <2>1. QED BY <1>1, <1>2, SetInduction
  <1>4. ASSUME NEW s \in Seq(S) PROVE s \in T
    <2>1. Len(s) \in Nat
      OBVIOUS
    <2>2. QED BY <2>1, <1>3
  <1>5. QED BY <1>4

-----------------------------------------------------------------------------
\* The loop of Picked.
Kept(s, positions) ==
    LET kept[i \in 0 .. Len(s)] ==
            IF i = 0 THEN <<>>
            ELSE IF i \in positions THEN Append(kept[i - 1], s[i]) ELSE kept[i - 1]
    IN kept

\* It goes through the list and keeps what it is to keep.
LEMMA KeptIs ==
    ASSUME NEW S, NEW s \in Seq(S), NEW P
    PROVE  /\ Kept(s, P) \in [0..Len(s) -> Seq(S)]
           /\ Kept(s, P)[0] = <<>>
           /\ \A i \in 1..Len(s) :
                 Kept(s, P)[i] =
                    IF i \in P THEN Append(Kept(s, P)[i-1], s[i]) ELSE Kept(s, P)[i-1]
           /\ Picked(s, P) = Kept(s, P)[Len(s)]
  <1> DEFINE f == [p \in Seq(S) \X Nat |->
                      IF p[2] \in 1..Len(s) /\ p[2] \in P THEN Append(p[1], s[p[2]]) ELSE p[1]]
  <1>1. f \in [Seq(S) \X Nat -> Seq(S)]
    OBVIOUS
  <1>2. <<>> \in Seq(S) /\ Len(s) \in Nat
    OBVIOUS
  <1>3. PICK g \in [0..Len(s) -> Seq(S)] :
            g[0] = <<>> /\ \A i \in 1..Len(s) : g[i] = f[<<g[i-1], i>>]
    <2> DEFINE V == Seq(S)
               n == Len(s)
               a == <<>>
    <2>1. f \in [V \X Nat -> V] /\ a \in V /\ n \in Nat
      BY <1>1, <1>2
    <2> HIDE DEF f, V, n, a
    <2>2. \E g \in [0..n -> V] : IsLoop(g, a, f, n)
      BY <2>1, LoopExists, Zenon
    <2>3. QED BY <2>2 DEF V, n, a, IsLoop
  <1>4. ASSUME NEW i \in 1..Len(s)
        PROVE g[i] = IF i \in P THEN Append(g[i-1], s[i]) ELSE g[i-1]
    <2>1. g[i-1] \in Seq(S) /\ i \in Nat
      OBVIOUS
    <2>2. f[<<g[i-1], i>>] = IF i \in P THEN Append(g[i-1], s[i]) ELSE g[i-1]
      BY <2>1
    <2>3. QED BY <2>2, <1>3
  <1>5. g = [i \in 0..Len(s) |->
                IF i = 0 THEN <<>> ELSE IF i \in P THEN Append(g[i-1], s[i]) ELSE g[i-1]]
    <2>1. ASSUME NEW i \in 0..Len(s)
          PROVE g[i] = IF i = 0 THEN <<>>
                       ELSE IF i \in P THEN Append(g[i-1], s[i]) ELSE g[i-1]
      <3>1. CASE i = 0
        BY <3>1, <1>3
      <3>2. CASE i \in 1..Len(s)
        <4>1. i # 0
          BY <3>2, SMTT(30)
        <4>2. QED BY <3>2, <4>1, <1>4, Zenon
      <3>3. QED BY <3>1, <3>2, <1>2
    <2>2. QED BY <2>1
  <1> DEFINE k == Kept(s, P)
  <1>6. k = [i \in 0..Len(s) |->
                IF i = 0 THEN <<>> ELSE IF i \in P THEN Append(k[i-1], s[i]) ELSE k[i-1]]
    BY <1>5 DEF Kept
  <1>7. Picked(s, P) = k[Len(s)]
    BY DEF Picked, Kept
  <1> HIDE DEF k
  <1>8. k[0] = <<>>
    BY <1>6
  <1>9. ASSUME NEW i \in 1..Len(s)
        PROVE k[i] = IF i \in P THEN Append(k[i-1], s[i]) ELSE k[i-1]
    <2>1. i \in 0..Len(s) /\ i # 0
      OBVIOUS
    <2>2. QED BY <2>1, <1>6
  <1>10. k \in [0..Len(s) -> Seq(S)]
    <2> DEFINE T == {i \in 0..Len(s) : k[i] \in Seq(S)}
    <2>1. 0 \in T
      <3>1. 0 \in 0..Len(s)
        BY <1>2
      <3>2. QED BY <3>1, <1>2, <1>8, Zenon
    <2>2. ASSUME NEW i \in 1..Len(s), i - 1 \in T PROVE i \in T
      <3>1. k[i-1] \in Seq(S) /\ s[i] \in S
        BY <2>2
      <3>2. k[i] = Append(k[i-1], s[i]) \/ k[i] = k[i-1]
        BY <1>9, Zenon
      <3>3. Append(k[i-1], s[i]) \in Seq(S)
        BY <3>1
      <3>4. k[i] \in Seq(S)
        BY <3>1, <3>2, <3>3, Zenon
      <3>5. QED BY <3>4
    <2> HIDE DEF T
    <2>3. \A i \in 0..Len(s) : i \in T
      BY <1>2, <2>1, <2>2, BoundedInduction
    <2>4. \A i \in 0..Len(s) : k[i] \in Seq(S)
      BY <2>3 DEF T
    <2>5. QED BY <1>6, <2>4
  <1>11. QED BY <1>7, <1>8, <1>9, <1>10 DEF k

\* [x for x in s if ...] is a list of elements of s.
LEMMA PickedType ==
    ASSUME NEW S, NEW s \in Seq(S), NEW P
    PROVE  Picked(s, P) \in Seq(S)
  <1>1. Len(s) \in 0..Len(s)
    OBVIOUS
  <1>2. Kept(s, P) \in [0..Len(s) -> Seq(S)] /\ Picked(s, P) = Kept(s, P)[Len(s)]
    BY KeptIs
  <1>3. QED BY <1>1, <1>2

\* Nothing is picked from nothing.
LEMMA PickedEmpty ==
    ASSUME NEW P
    PROVE  Picked(<<>>, P) = <<>>
  <1>1. ASSUME NEW S, NEW s \in Seq(S), s = <<>> PROVE Picked(s, P) = <<>>
    <2>1. Kept(s, P)[0] = <<>>
      BY KeptIs
    <2>2. Picked(s, P) = Kept(s, P)[Len(s)]
      BY DEF Picked, Kept
    <2>3. Len(s) = 0
      BY <1>1
    <2>4. QED BY <2>1, <2>2, <2>3
  <1>2. <<>> \in Seq({})
    OBVIOUS
  <1>3. QED BY <1>1, <1>2

\* An element more at the end is one more of what is picked, if it is to be picked.
LEMMA PickedAppend ==
    ASSUME NEW S, NEW s \in Seq(S), NEW x \in S, NEW P, NEW Q,
           \A i \in 1..Len(s) : i \in P <=> i \in Q
    PROVE  Picked(Append(s, x), Q) =
               IF Len(s) + 1 \in Q THEN Append(Picked(s, P), x) ELSE Picked(s, P)
  <1> DEFINE n == Len(s)
             t == Append(s, x)
             k == Kept(s, P)
             l == Kept(t, Q)
             T == {i \in 0..n : k[i] = l[i]}
  <1>1. n \in Nat /\ t \in Seq(S) /\ Len(t) = n + 1 /\ t[n+1] = x
    OBVIOUS
  <1>2. \A i \in 1..n : t[i] = s[i]
    OBVIOUS
  <1>3. k[0] = <<>> /\ Picked(s, P) = k[n]
    BY KeptIs
  <1>4. \A i \in 1..n : k[i] = IF i \in P THEN Append(k[i-1], s[i]) ELSE k[i-1]
    BY KeptIs
  <1>5. l[0] = <<>> /\ Picked(t, Q) = l[Len(t)]
    <2> HIDE DEF t
    <2>1. QED BY <1>1, KeptIs
  <1>6. \A i \in 1..Len(t) : l[i] = IF i \in Q THEN Append(l[i-1], t[i]) ELSE l[i-1]
    <2> HIDE DEF t
    <2>1. QED BY <1>1, KeptIs
  <1> HIDE DEF k, l, t, n
  <1>7. 0 \in T
    BY <1>1, <1>3, <1>5
  <1>8. ASSUME NEW i \in 1..n, i - 1 \in T PROVE i \in T
    <2>1. i \in 1..Len(t) /\ k[i-1] = l[i-1] /\ t[i] = s[i] /\ (i \in P <=> i \in Q)
      BY <1>1, <1>2, <1>8 DEF n
    <2>2. k[i] = l[i]
      BY <2>1, <1>4, <1>6
    <2>3. QED BY <2>2, <1>1
  <1>9. n \in T
    <2> HIDE DEF T
    <2>1. \A i \in 0..n : i \in T
      BY <1>1, <1>7, <1>8, BoundedInduction
    <2>2. QED BY <2>1, <1>1
  <1>10. l[n+1] = IF n + 1 \in Q THEN Append(l[n], x) ELSE l[n]
    <2>1. n + 1 \in 1..Len(t) /\ (n + 1) - 1 = n
      BY <1>1
    <2>2. QED BY <2>1, <1>1, <1>6
  <1>11. l[n] = k[n]
    BY <1>9
  <1>12. QED BY <1>1, <1>3, <1>5, <1>10, <1>11 DEF t, n

\* A list of n elements are those of s at the positions p, which are all those of P
\* in their order.
IsPickOf(t, n, p, s, P) ==
    /\ \A j, k \in 1..n : j < k => p[j] < p[k]
    /\ \A x \in 1..Len(s) : x \in P <=> \E k \in 1..n : p[k] = x
    /\ t = [k \in 1..n |-> s[p[k]]]

\* What is picked are the elements at the positions picked, in their order: each
\* position once.
LEMMA PickedPositions ==
    ASSUME NEW S, NEW s \in Seq(S), NEW P
    PROVE  \E n \in 0..Len(s) : \E p \in [1..n -> 1..Len(s)] :
               IsPickOf(Picked(s, P), n, p, s, P)
  <1> DEFINE L == Len(s)
             Good(i, n, p) ==
                 /\ \A j, k \in 1..n : j < k => p[j] < p[k]
                 /\ \A x \in 1..i : x \in P <=> \E k \in 1..n : p[k] = x
                 /\ Kept(s, P)[i] = [k \in 1..n |-> s[p[k]]]
             T == {i \in 0..L : \E n \in 0..i : \E p \in [1..n -> 1..i] : Good(i, n, p)}
  <1>1. L \in Nat
    OBVIOUS
  <1>2. 0 \in T
    <2>1. <<>> \in [1..0 -> 1..0] /\ Good(0, 0, <<>>)
      BY KeptIs
    <2>2. 0 \in 0..0
      OBVIOUS
    <2> HIDE DEF Good
    <2>3. \E n \in 0..0 : \E p \in [1..n -> 1..0] : Good(0, n, p)
      BY <2>1, <2>2
    <2>4. 0 \in 0..L
      BY <1>1
    <2>5. QED BY <2>4, <2>3, Zenon
  <1>3. ASSUME NEW i \in 1..L, i - 1 \in T PROVE i \in T
    <2>1. PICK n \in 0..(i-1) : \E p \in [1..n -> 1..(i-1)] : Good(i - 1, n, p)
      <3> HIDE DEF Good
      <3>1. QED BY <1>3
    <2>2. PICK p \in [1..n -> 1..(i-1)] : Good(i - 1, n, p)
      BY <2>1
    <2>3. CASE i \in P
      <3> DEFINE q == [k \in 1..(n+1) |-> IF k <= n THEN p[k] ELSE i]
      <3>1. q \in [1..(n+1) -> 1..i] /\ n + 1 \in 0..i
        OBVIOUS
      <3>2. \A k \in 1..n : q[k] = p[k] /\ p[k] \in 1..(i-1)
        OBVIOUS
      <3>3. q[n+1] = i
        OBVIOUS
      <3> HIDE DEF q
      <3>4. \A j, k \in 1..(n+1) : j < k => q[j] < q[k]
        <4>1. ASSUME NEW j \in 1..(n+1), NEW k \in 1..(n+1), j < k PROVE q[j] < q[k]
          <5>1. CASE k \in 1..n
            BY <5>1, <4>1, <3>2, <2>2
          <5>2. CASE k = n + 1
            BY <5>2, <4>1, <3>2, <3>3
          <5>3. QED BY <5>1, <5>2
        <4>2. QED BY <4>1
      <3>5. ASSUME NEW x \in 1..i PROVE x \in P <=> \E k \in 1..(n+1) : q[k] = x
        <4>1. CASE x = i
          BY <4>1, <2>3, <3>3
        <4>2. CASE x \in 1..(i-1)
          <5>1. x \in P <=> \E k \in 1..n : p[k] = x
            BY <4>2, <2>2
          <5>2. (\E k \in 1..(n+1) : q[k] = x) <=> \E k \in 1..n : p[k] = x
            <6>1. \A k \in 1..(n+1) : k \in 1..n \/ k = n + 1
              OBVIOUS
            <6>2. \A k \in 1..n : k \in 1..(n+1)
              OBVIOUS
            <6>3. x # i
              BY <4>2
            <6>4. QED BY <6>1, <6>2, <6>3, <3>2, <3>3
          <5>3. QED BY <5>1, <5>2
        <4>3. QED BY <4>1, <4>2
      <3>6. Kept(s, P)[i] = [k \in 1..(n+1) |-> s[q[k]]]
        <4>1. Kept(s, P)[i] = Append([k \in 1..n |-> s[p[k]]], s[i])
          BY <2>2, <2>3, KeptIs, ZenonT(30)
        <4>2. [k \in 1..n |-> s[p[k]]] \in Seq(S)
          OBVIOUS
        <4>3. Append([k \in 1..n |-> s[p[k]]], s[i]) = [k \in 1..(n+1) |-> s[q[k]]]
          BY <4>2, <3>1, <3>2, <3>3
        <4>4. QED BY <4>1, <4>3
      <3>7. Good(i, n + 1, q)
        BY <3>4, <3>5, <3>6
      <3> HIDE DEF Good
      <3>8. QED BY <3>1, <3>7
    <2>4. CASE i \notin P
      <3>1. p \in [1..n -> 1..i] /\ n \in 0..i
        OBVIOUS
      <3>2. Good(i, n, p)
        <4>1. ASSUME NEW x \in 1..i PROVE x \in P <=> \E k \in 1..n : p[k] = x
          <5>1. CASE x = i
            BY <5>1, <2>4
          <5>2. CASE x \in 1..(i-1)
            BY <5>2, <2>2
          <5>3. QED BY <5>1, <5>2
        <4>2. Kept(s, P)[i] = Kept(s, P)[i-1]
          BY <2>4, KeptIs
        <4>3. QED BY <2>2, <4>1, <4>2
      <3> HIDE DEF Good
      <3>3. QED BY <3>1, <3>2
    <2>5. QED
      <3> HIDE DEF Good
      <3>1. QED BY <2>3, <2>4, Zenon
  <1>4. L \in T
    <2> HIDE DEF T
    <2>1. \A i \in 0..L : i \in T
      <3> HIDE DEF L
      <3>1. QED BY <1>1, <1>2, <1>3, BoundedInduction
    <2>2. QED BY <2>1, <1>1
  <1>5. Picked(s, P) = Kept(s, P)[L]
    BY KeptIs
  <1>6. \E n \in 0..L : \E p \in [1..n -> 1..L] : Good(L, n, p)
    <2> HIDE DEF Good
    <2>1. QED BY <1>4
  <1>7. PICK n \in 0..L : \E p \in [1..n -> 1..L] : Good(L, n, p)
    <2> HIDE DEF Good
    <2>1. QED BY <1>6
  <1>8. PICK p \in [1..n -> 1..L] : Good(L, n, p)
    BY <1>7
  <1>9. /\ \A j, k \in 1..n : j < k => p[j] < p[k]
        /\ \A x \in 1..L : x \in P <=> \E k \in 1..n : p[k] = x
        /\ Picked(s, P) = [k \in 1..n |-> s[p[k]]]
    BY <1>5, <1>8
  <1>10. IsPickOf(Picked(s, P), n, p, s, P)
    BY <1>9 DEF IsPickOf
  <1>11. QED BY <1>10, Zenon

-----------------------------------------------------------------------------
\* A list without repetitions has as many members as places.
NoRepeats(s) == \A i, j \in 1..Len(s) : s[i] = s[j] => i = j

\* The members of such a list.
LEMMA MembersCounted ==
    ASSUME NEW S, NEW s \in Seq(S), NoRepeats(s)
    PROVE  IsFiniteSet(ToSet(s)) /\ Cardinality(ToSet(s)) = Len(s)
  <1> DEFINE n == Len(s)
  <1>1. n \in Nat /\ DOMAIN s = 1..n
    OBVIOUS
  <1>2. IsFiniteSet(1..n) /\ Cardinality(1..n) = n
    BY <1>1, FS_Interval
  <1>3. s \in Bijection(1..n, ToSet(s))
    <2>1. s \in [1..n -> ToSet(s)]
      BY <1>1 DEF ToSet
    <2>2. s \in Injection(1..n, ToSet(s))
      BY <2>1 DEF Injection, IsInjective, NoRepeats
    <2>3. s \in Surjection(1..n, ToSet(s))
      BY <2>1, <1>1 DEF Surjection, ToSet
    <2>4. QED BY <2>2, <2>3 DEF Bijection
  <1>4. ExistsBijection(1..n, ToSet(s))
    BY <1>3 DEF ExistsBijection
  <1>5. QED BY <1>2, <1>4, FS_Bijection

\* s[:n] is what s begins with, no longer than n.
LEMMA TopIs ==
    ASSUME NEW S, NEW s \in Seq(S), NEW n \in Nat
    PROVE  /\ Top(s, n) \in Seq(S)
           /\ Len(Top(s, n)) = IF n < Len(s) THEN n ELSE Len(s)
           /\ \A i \in 1..Len(Top(s, n)) : Top(s, n)[i] = s[i]
  BY DEF Top

\* What is left of a comprehension over a list without repetitions has none either,
\* and has what was at the positions picked.
LEMMA PickedMembers ==
    ASSUME NEW S, NEW s \in Seq(S), NEW P
    PROVE  /\ \A x : x \in ToSet(Picked(s, P)) <=> \E i \in 1..Len(s) : i \in P /\ s[i] = x
           /\ NoRepeats(s) => NoRepeats(Picked(s, P))
  <1> DEFINE n == Len(s)
             t == Picked(s, P)
  <1>1. PICK m \in 0..n : \E p \in [1..m -> 1..n] : IsPickOf(t, m, p, s, P)
    BY PickedPositions, Zenon
  <1>2. PICK p \in [1..m -> 1..n] :
               /\ \A j, k \in 1..m : j < k => p[j] < p[k]
               /\ \A x \in 1..n : x \in P <=> \E k \in 1..m : p[k] = x
               /\ t = [k \in 1..m |-> s[p[k]]]
    BY <1>1 DEF IsPickOf
  <1>3. DOMAIN t = 1..m /\ Len(t) = m /\ \A k \in 1..m : t[k] = s[p[k]]
    BY <1>2
  <1> HIDE DEF t, n
  <1>4. ToSet(t) = {s[p[k]] : k \in 1..m}
    BY <1>3 DEF ToSet
  <1>5. ASSUME NEW x PROVE x \in ToSet(t) <=> \E i \in 1..n : i \in P /\ s[i] = x
    BY <1>4, <1>2
  <1>6. ASSUME NoRepeats(s), NEW j \in 1..m, NEW k \in 1..m, t[j] = t[k] PROVE j = k
    <2>1. s[p[j]] = s[p[k]] /\ p[j] \in 1..n /\ p[k] \in 1..n
      BY <1>3, <1>6
    <2>2. p[j] = p[k]
      BY <2>1, <1>6 DEF NoRepeats, n
    <2>3. ~(j < k) /\ ~(k < j)
      BY <2>1, <2>2, <1>2 DEF n
    <2>4. QED BY <2>3
  <1>7. NoRepeats(s) => NoRepeats(t)
    BY <1>3, <1>6 DEF NoRepeats
  <1>8. QED BY <1>5, <1>7 DEF t, n

-----------------------------------------------------------------------------
\* What goes before i in a ranking.
Better(S, score, i) == {j \in S : score[j] > score[i] \/ (score[j] = score[i] /\ j < i)}

\* A ranking has every member of the set once, and before another only what scores
\* more than that, or the same and comes first.
LEMMA RankedIs ==
    ASSUME NEW S \in SUBSET Nat, IsFiniteSet(S), NEW score \in [S -> Int]
    PROVE  /\ Cardinality(S) \in Nat
           /\ Ranked(S, score) \in [1..Cardinality(S) -> S]
           /\ \A i \in S : \E r \in 1..Cardinality(S) : Ranked(S, score)[r] = i
           /\ \A r, q \in 1..Cardinality(S) :
                 r < q => Ranked(S, score)[r] \in Better(S, score, Ranked(S, score)[q])
  <1> DEFINE N == Cardinality(S)
             B(i) == Better(S, score, i)
             b == [i \in S |-> Cardinality(B(i))]
             R == Ranked(S, score)
  <1>1. N \in Nat
    BY FS_CardinalityType
  <1>2. ASSUME NEW i \in S PROVE IsFiniteSet(B(i)) /\ b[i] \in 0..(N-1)
    <2>1. B(i) \in SUBSET S /\ i \notin B(i)
      BY DEF Better
    <2>2. IsFiniteSet(B(i)) /\ Cardinality(B(i)) <= N /\ (N = Cardinality(B(i)) => S = B(i))
      <3> HIDE DEF B
      <3>1. QED BY <2>1, FS_Subset
    <2>3. Cardinality(B(i)) \in Nat
      BY <2>2, FS_CardinalityType
    <2>4. Cardinality(B(i)) # N
      BY <2>1, <2>2
    <2>5. QED BY <1>1, <2>2, <2>3, <2>4
  <1>3. ASSUME NEW i \in S, NEW j \in S, i \in B(j) PROVE b[i] < b[j]
    <2>1. B(i) \in SUBSET B(j) /\ i \notin B(i)
      <3>1. ASSUME NEW k \in B(i) PROVE k \in B(j)
        <4>1. k \in S /\ score[k] \in Int /\ score[i] \in Int /\ score[j] \in Int
              /\ k \in Nat /\ i \in Nat /\ j \in Nat
          BY DEF Better
        <4>2. QED BY <4>1, <1>3 DEF Better
      <3>2. i \notin B(i)
        BY DEF Better
      <3>3. QED BY <3>1, <3>2
    <2>2. IsFiniteSet(B(j)) /\ B(i) # B(j)
      BY <1>2, <1>3, <2>1
    <2>3. Cardinality(B(i)) <= Cardinality(B(j))
          /\ (Cardinality(B(j)) = Cardinality(B(i)) => B(j) = B(i))
      <3> HIDE DEF B
      <3>1. QED BY <2>1, <2>2, FS_Subset
    <2>4. b[i] \in Int /\ b[j] \in Int
      BY <1>2, <1>1
    <2>5. QED BY <2>2, <2>3, <2>4
  <1>4. ASSUME NEW i \in S, NEW j \in S PROVE i = j \/ i \in B(j) \/ j \in B(i)
    BY DEF Better
  <1>5. b \in Injection(S, 0..(N-1))
    <2>1. b \in [S -> 0..(N-1)]
      BY <1>2
    <2>2. ASSUME NEW i \in S, NEW j \in S, b[i] = b[j] PROVE i = j
      <3>1. b[i] \in Int /\ b[j] \in Int
        BY <1>1, <1>2
      <3> HIDE DEF b, B
      <3>2. QED BY <2>2, <3>1, <1>3, <1>4
    <2> HIDE DEF b
    <2>3. QED BY <2>1, <2>2 DEF Injection, IsInjective
  <1>6. b \in Surjection(S, 0..(N-1))
    <2>1. IsFiniteSet(0..(N-1)) /\ Cardinality(0..(N-1)) = N
      BY <1>1, FS_Interval, SMTT(30)
    <2> HIDE DEF b
    <2>2. QED BY <1>5, <2>1, FS_Injection
  <1>7. ASSUME NEW r \in 1..N PROVE R[r] \in S /\ b[R[r]] = r - 1
    <2>1. \E i \in S : b[i] = r - 1
      <3>1. r - 1 \in 0..(N-1)
        BY <1>1
      <3> HIDE DEF b
      <3>2. QED BY <3>1, <1>6 DEF Surjection
    <2>2. R[r] = CHOOSE i \in S : Cardinality(B(i)) = r - 1
      BY DEF Ranked, Better
    <2>3. R[r] = CHOOSE i \in S : b[i] = r - 1
      BY <2>2
    <2> HIDE DEF b, R
    <2>4. QED BY <2>1, <2>3
  <1>8. ASSUME NEW i \in S PROVE \E r \in 1..N : R[r] = i
    <2> DEFINE r == b[i] + 1
    <2>1. r \in 1..N /\ r - 1 = b[i]
      BY <1>1, <1>2
    <2> HIDE DEF r
    <2>2. R[r] \in S /\ b[R[r]] = b[i]
      BY <2>1, <1>7
    <2> HIDE DEF b, R
    <2>3. R[r] = i
      BY <2>2, <1>5 DEF Injection, IsInjective
    <2>4. QED BY <2>1, <2>3
  <1>9. ASSUME NEW r \in 1..N, NEW q \in 1..N, r < q PROVE R[r] \in B(R[q])
    <2>1. R[r] \in S /\ R[q] \in S /\ b[R[r]] = r - 1 /\ b[R[q]] = q - 1
      BY <1>7
    <2> HIDE DEF b, R, B
    <2>2. R[r] # R[q] /\ ~(b[R[q]] < b[R[r]])
      BY <2>1, <1>9
    <2>3. QED BY <2>1, <2>2, <1>3, <1>4
  <1>10. R \in [1..N -> S]
    <2>1. R = [r \in 1..N |-> CHOOSE i \in S : Cardinality(B(i)) = r - 1]
      BY DEF Ranked, Better
    <2>2. DOMAIN R = 1..N /\ R = [r \in DOMAIN R |-> R[r]]
      BY <2>1
    <2> HIDE DEF R
    <2>3. QED BY <2>2, <1>7
  <1>11. QED BY <1>1, <1>8, <1>9, <1>10

\* The first n of a ranking are the best: none that is left out scores more, and they
\* come best first.
LEMMA BestOfRanked ==
    ASSUME NEW S \in SUBSET Nat, IsFiniteSet(S), NEW score \in [S -> Int], NEW n \in Nat
    PROVE  /\ Top(Ranked(S, score), n) \in Seq(S)
           /\ NoRepeats(Top(Ranked(S, score), n))
           /\ Len(Top(Ranked(S, score), n)) <= n
           /\ \A i, j \in 1..Len(Top(Ranked(S, score), n)) :
                 i < j => score[Top(Ranked(S, score), n)[i]] >= score[Top(Ranked(S, score), n)[j]]
           /\ \A i \in ToSet(Top(Ranked(S, score), n)),
                 j \in S \ ToSet(Top(Ranked(S, score), n)) : score[i] >= score[j]
  <1> DEFINE R == Ranked(S, score)
             N == Cardinality(S)
             t == Top(R, n)
             m == Len(t)
  <1>1. /\ N \in Nat
        /\ R \in [1..N -> S]
        /\ \A i \in S : \E r \in 1..N : R[r] = i
        /\ \A r, q \in 1..N : r < q => R[r] \in Better(S, score, R[q])
    BY RankedIs
  <1> HIDE DEF N, R
  <1>2. R \in Seq(S) /\ Len(R) = N
    BY <1>1
  <1>3. t \in Seq(S) /\ m = (IF n < N THEN n ELSE N) /\ \A i \in 1..m : t[i] = R[i]
    BY <1>2, TopIs
  <1> HIDE DEF t
  <1>4. m \in Nat /\ m <= n /\ m <= N /\ DOMAIN t = 1..m
    BY <1>1, <1>3
  <1>5. ASSUME NEW i \in S, NEW j \in S, i \in Better(S, score, j)
        PROVE i # j /\ score[i] >= score[j]
    BY <1>5 DEF Better
  <1>6. ASSUME NEW i \in 1..N, NEW j \in 1..N, i < j
        PROVE R[i] # R[j] /\ score[R[i]] >= score[R[j]]
    <2>1. R[i] \in S /\ R[j] \in S /\ R[i] \in Better(S, score, R[j])
      BY <1>1, <1>6
    <2>2. QED BY <2>1, <1>5
  <1>7. \A i \in 1..m : i \in 1..N
    BY <1>1, <1>4
  <1>8. NoRepeats(t)
    <2>1. ASSUME NEW i \in 1..m, NEW j \in 1..m, i # j PROVE t[i] # t[j]
      <3>1. i < j \/ j < i
        BY <2>1, <1>4
      <3>2. QED BY <3>1, <1>3, <1>6, <1>7
    <2>2. QED BY <2>1 DEF NoRepeats
  <1>9. \A i, j \in 1..m : i < j => score[t[i]] >= score[t[j]]
    BY <1>3, <1>6, <1>7
  <1>10. ASSUME NEW i \in ToSet(t), NEW j \in S \ ToSet(t) PROVE score[i] >= score[j]
    <2>1. PICK a \in 1..m : i = t[a]
      BY <1>4 DEF ToSet
    <2>2. PICK b \in 1..N : R[b] = j
      BY <1>1
    <2>3. b \notin 1..m
      BY <1>3, <1>4, <2>2 DEF ToSet
    <2>4. a < b /\ a \in 1..N
      BY <1>4, <1>7, <2>3
    <2>5. QED BY <1>3, <1>6, <2>1, <2>2, <2>4
  <1>11. QED BY <1>3, <1>4, <1>8, <1>9, <1>10 DEF t, R

\* The first few of the first more are the first few.
LEMMA TopOfTop ==
    ASSUME NEW S, NEW s \in Seq(S), NEW n \in Nat, NEW m \in Nat, n <= m
    PROVE  Top(Top(s, m), n) = Top(s, n)
  <1> DEFINE t == Top(s, m)
  <1>1. t \in Seq(S) /\ Len(t) = (IF m < Len(s) THEN m ELSE Len(s)) /\ \A i \in 1..Len(t) : t[i] = s[i]
    BY TopIs
  <1> HIDE DEF t
  <1>2. /\ Top(t, n) \in Seq(S) /\ Len(Top(t, n)) = (IF n < Len(t) THEN n ELSE Len(t))
        /\ \A i \in 1..Len(Top(t, n)) : Top(t, n)[i] = t[i]
    BY <1>1, TopIs
  <1>3. /\ Top(s, n) \in Seq(S) /\ Len(Top(s, n)) = (IF n < Len(s) THEN n ELSE Len(s))
        /\ \A i \in 1..Len(Top(s, n)) : Top(s, n)[i] = s[i]
    BY TopIs
  <1> DEFINE a == Top(t, n)
             b == Top(s, n)
  <1>4. a \in Seq(S) /\ b \in Seq(S)
    BY <1>2, <1>3
  <1>5. Len(s) \in Nat /\ Len(t) \in Nat
    BY <1>1
  <1> HIDE DEF a, b
  <1>6. Len(a) = Len(b)
    BY <1>1, <1>2, <1>3, <1>5 DEF a, b
  <1>7. ASSUME NEW i \in 1..Len(a) PROVE a[i] = b[i]
    <2>1. i \in 1..Len(t) /\ i \in 1..Len(b)
      BY <1>2, <1>5, <1>6 DEF a
    <2>2. QED BY <1>1, <1>2, <1>3, <2>1 DEF a, b
  <1>8. a = b
    BY <1>4, <1>6, <1>7, SeqEqual
  <1>9. QED BY <1>8 DEF a, b, t

-----------------------------------------------------------------------------
\* A product grows with its factors.
LEMMA ProductGrows ==
    ASSUME NEW a \in Int, NEW b \in Int, NEW c \in Nat, a >= b
    PROVE  a * c \in Int /\ b * c \in Int /\ a * c >= b * c
  <1>1. (a - b) * c >= 0
    OBVIOUS
  <1>2. (a - b) * c = a * c - b * c
    OBVIOUS
  <1>3. a * c \in Int /\ b * c \in Int
    OBVIOUS
  <1>4. QED BY <1>1, <1>2, <1>3

\* A fraction gets no greater with its denominator.
LEMMA QuotientShrinks ==
    ASSUME NEW a \in Nat, NEW b \in Nat \ {0}, NEW c \in Nat \ {0}, b <= c
    PROVE  a \div b \in Nat /\ a \div c \in Nat /\ a \div b >= a \div c
  <1> DEFINE p == a \div b
             q == a \div c
  <1>1. p \in Nat /\ q \in Nat
    OBVIOUS
  <1>2. a < (p + 1) * b /\ q * c <= a
    OBVIOUS
  <1> HIDE DEF p, q
  <1>3. ASSUME p < q PROVE FALSE
    <2>1. (p + 1) * b <= q * b
      BY <1>1, <1>3, ProductGrows
    <2>2. q * b <= q * c
      <3>1. c * q >= b * q
        BY <1>1, ProductGrows
      <3>2. c * q = q * c /\ b * q = q * b
        BY <1>1
      <3>3. QED BY <3>1, <3>2
    <2>3. (p + 1) * b \in Int /\ q * b \in Int /\ q * c \in Int
      BY <1>1
    <2>4. QED BY <1>2, <2>1, <2>2, <2>3
  <1>4. QED BY <1>1, <1>3 DEF p, q

\* Of the values of a list of numbers one is the least and one the greatest.
LEMMA Extremes ==
    ASSUME NEW n \in Nat \ {0}, NEW f \in [1..n -> Int]
    PROVE  /\ \E i \in 1..n : \A j \in 1..n : f[i] <= f[j]
           /\ \E i \in 1..n : \A j \in 1..n : f[i] >= f[j]
  <1> DEFINE Low(k) == \E i \in 1..k : \A j \in 1..k : f[i] <= f[j]
             High(k) == \E i \in 1..k : \A j \in 1..k : f[i] >= f[j]
             T == {k \in 0..n : k = 0 \/ (Low(k) /\ High(k))}
  <1>1. 0 \in T
    <2>1. 0 \in 0..n
      OBVIOUS
    <2> HIDE DEF Low, High
    <2>2. QED BY <2>1
  <1>2. ASSUME NEW k \in 1..n, k - 1 \in T PROVE k \in T
    <2>1. CASE k = 1
      <3>1. 1..k = {1} /\ f[1] \in Int
        BY <2>1
      <3>2. 1 \in 1..k /\ \A j \in 1..k : f[1] <= f[j] /\ f[1] >= f[j]
        BY <3>1
      <3>3. Low(k)
        BY <3>2
      <3>4. High(k)
        BY <3>2
      <3> HIDE DEF Low, High
      <3>5. QED BY <3>3, <3>4
    <2>2. CASE k # 1
      <3>1. PICK a \in 1..(k-1) : \A j \in 1..(k-1) : f[a] <= f[j]
        BY <1>2, <2>2
      <3>2. PICK b \in 1..(k-1) : \A j \in 1..(k-1) : f[b] >= f[j]
        BY <1>2, <2>2
      <3>3. \A j \in 1..k : j \in 1..(k-1) \/ j = k
        OBVIOUS
      <3>4. \A j \in 1..k : f[j] \in Int
        OBVIOUS
      <3>5. a \in 1..k /\ b \in 1..k /\ k \in 1..k
        OBVIOUS
      <3>6. Low(k)
        <4>1. CASE f[a] <= f[k]
          BY <3>1, <3>3, <3>5, <4>1
        <4>2. CASE ~(f[a] <= f[k])
          <5>1. \A j \in 1..k : f[k] <= f[j]
            BY <3>1, <3>3, <3>4, <3>5, <4>2
          <5>2. QED BY <5>1, <3>5
        <4>3. QED BY <4>1, <4>2
      <3>7. High(k)
        <4>1. CASE f[b] >= f[k]
          BY <3>2, <3>3, <3>5, <4>1
        <4>2. CASE ~(f[b] >= f[k])
          <5>1. \A j \in 1..k : f[k] >= f[j]
            BY <3>2, <3>3, <3>4, <3>5, <4>2
          <5>2. QED BY <5>1, <3>5
        <4>3. QED BY <4>1, <4>2
      <3> HIDE DEF Low, High
      <3>8. QED BY <3>6, <3>7
    <2>3. QED BY <2>1, <2>2
  <1>3. n \in T
    <2> HIDE DEF T
    <2>1. \A k \in 0..n : k \in T
      BY <1>1, <1>2, BoundedInduction
    <2>2. QED BY <2>1
  <1>4. QED BY <1>3

-----------------------------------------------------------------------------
\* The running total of a list of numbers grows by each of them.
LEMMA TotalsIs ==
    ASSUME NEW s \in Seq(Nat)
    PROVE  /\ Totals(s) \in [0..Len(s) -> Nat]
           /\ Totals(s)[0] = 0
           /\ \A i \in 1..Len(s) : Totals(s)[i] = Totals(s)[i-1] + s[i]
  <1> DEFINE n == Len(s)
             f == [p \in Nat \X Nat |-> p[1] + (IF p[2] \in 1..n THEN s[p[2]] ELSE 0)]
             k == Totals(s)
  <1>1. f \in [Nat \X Nat -> Nat] /\ n \in Nat /\ 0 \in Nat
    OBVIOUS
  <1>2. PICK g \in [0..n -> Nat] : IsLoop(g, 0, f, n)
    <2> HIDE DEF f, n
    <2>1. QED BY <1>1, LoopExists, Zenon
  <1>3. ASSUME NEW i \in 0..n PROVE g[i] = IF i = 0 THEN 0 ELSE g[i-1] + s[i]
    <2>1. CASE i = 0
      BY <2>1, <1>2 DEF IsLoop
    <2>2. CASE i # 0
      <3>1. i \in 1..n /\ i - 1 \in 0..n /\ i \in Nat
        BY <2>2
      <3>2. g[i] = f[<<g[i-1], i>>]
        <4> HIDE DEF f
        <4>1. QED BY <1>2, <3>1 DEF IsLoop
      <3>3. f[<<g[i-1], i>>] = g[i-1] + s[i]
        BY <3>1
      <3>4. QED BY <2>2, <3>2, <3>3, Zenon
    <2>3. QED BY <2>1, <2>2
  <1>4. k = [i \in 0..n |-> IF i = 0 THEN 0 ELSE k[i-1] + s[i]]
    <2>1. g = [i \in 0..n |-> IF i = 0 THEN 0 ELSE g[i-1] + s[i]]
      BY <1>3
    <2>2. QED BY <2>1 DEF Totals
  <1> HIDE DEF k
  <1>5. k[0] = 0 /\ \A i \in 1..n : k[i] = k[i-1] + s[i]
    BY <1>4, SMTT(30)
  <1>6. \A i \in 0..n : k[i] \in Nat
    <2> DEFINE T == {i \in 0..n : k[i] \in Nat}
    <2>1. 0 \in T
      BY <1>5
    <2>2. ASSUME NEW i \in 1..n, i - 1 \in T PROVE i \in T
      <3>1. k[i-1] \in Nat /\ s[i] \in Nat /\ i \in 0..n
        BY <2>2
      <3>2. k[i] = k[i-1] + s[i]
        BY <1>5
      <3>3. QED BY <3>1, <3>2
    <2> HIDE DEF T, n
    <2>3. \A i \in 0..n : i \in T
      BY <1>1, <2>1, <2>2, BoundedInduction
    <2>4. QED BY <2>3 DEF T
  <1>7. QED BY <1>4, <1>5, <1>6 DEF k

\* The loop of Join.
Joining(pieces, sep) ==
    LET joined[i \in 0 .. Len(pieces)] ==
            IF i = 0 THEN <<>>
            ELSE IF i = 1 THEN pieces[1] ELSE joined[i - 1] \o sep \o pieces[i]
    IN joined

\* It puts the separator before every piece but the first.
LEMMA JoiningIs ==
    ASSUME NEW S, NEW pieces \in Seq(Seq(S)), NEW sep \in Seq(S)
    PROVE  /\ Joining(pieces, sep) \in [0..Len(pieces) -> Seq(S)]
           /\ Joining(pieces, sep)[0] = <<>>
           /\ \A i \in 1..Len(pieces) :
                 Joining(pieces, sep)[i] =
                    IF i = 1 THEN pieces[1]
                    ELSE Joining(pieces, sep)[i-1] \o sep \o pieces[i]
           /\ Join(pieces, sep) = Joining(pieces, sep)[Len(pieces)]
  <1> DEFINE n == Len(pieces)
             V == Seq(S)
             body(x, i) == IF i = 1 THEN pieces[1] ELSE x \o sep \o pieces[i]
             f == [p \in V \X Nat |-> IF p[2] \in 1..n THEN body(p[1], p[2]) ELSE p[1]]
             k == Joining(pieces, sep)
  <1>1. \A i \in 1..n : pieces[i] \in V
    OBVIOUS
  <1>2. \A x \in V, i \in 1..n : body(x, i) \in V
    <2>1. ASSUME NEW x \in V, NEW i \in 1..n PROVE body(x, i) \in V
      <3>1. pieces[i] \in V /\ 1 \in 1..n
        BY <1>1
      <3>2. pieces[1] \in V
        BY <1>1, <3>1
      <3>3. QED BY <3>1, <3>2
    <2>2. QED BY <2>1
  <1>3. f \in [V \X Nat -> V] /\ n \in Nat /\ <<>> \in V
    <2>1. n \in Nat /\ <<>> \in V
      OBVIOUS
    <2> HIDE DEF V, n, body
    <2>2. QED BY <1>2, <2>1
  <1>4. PICK g \in [0..n -> V] : IsLoop(g, <<>>, f, n)
    <2> DEFINE a == <<>>
    <2>1. a \in V
      BY <1>3
    <2> HIDE DEF f, n, V, a
    <2>2. \E g \in [0..n -> V] : IsLoop(g, a, f, n)
      BY <1>3, <2>1, LoopExists, Zenon
    <2>3. QED BY <2>2 DEF a
  <1>5. ASSUME NEW i \in 0..n PROVE g[i] = IF i = 0 THEN <<>> ELSE body(g[i-1], i)
    <2>1. CASE i = 0
      BY <2>1, <1>4 DEF IsLoop
    <2>2. CASE i # 0
      <3>1. i \in 1..n /\ i - 1 \in 0..n /\ i \in Nat
        BY <2>2
      <3>2. g[i] = f[<<g[i-1], i>>]
        <4> HIDE DEF f
        <4>1. QED BY <1>4, <3>1 DEF IsLoop
      <3> HIDE DEF body, V
      <3>3. f[<<g[i-1], i>>] = body(g[i-1], i)
        BY <3>1
      <3>4. QED BY <2>2, <3>2, <3>3, Zenon
    <2>3. QED BY <2>1, <2>2
  <1>6. k = [i \in 0..n |-> IF i = 0 THEN <<>> ELSE body(k[i-1], i)]
    <2>1. g = [i \in 0..n |-> IF i = 0 THEN <<>> ELSE body(g[i-1], i)]
      <3> HIDE DEF body, V
      <3>1. QED BY <1>5
    <2>2. QED BY <2>1 DEF Joining
  <1> HIDE DEF k
  <1>7. k[0] = <<>> /\ \A i \in 1..n : k[i] = body(k[i-1], i)
    <2>1. 0 \in 0..n /\ \A i \in 1..n : i \in 0..n /\ i # 0
      BY <1>3
    <2> HIDE DEF body, n
    <2>2. k[0] = <<>>
      BY <1>6, <2>1
    <2>3. ASSUME NEW i \in 1..n PROVE k[i] = body(k[i-1], i)
      BY <1>6, <2>1
    <2>4. QED BY <2>2, <2>3
  <1>8. \A i \in 0..n : k[i] \in V
    <2> DEFINE T == {i \in 0..n : k[i] \in V}
    <2>1. 0 \in T
      <3>1. 0 \in 0..n
        BY <1>3
      <3> HIDE DEF body, V
      <3>2. QED BY <1>3, <1>7, <3>1
    <2>2. ASSUME NEW i \in 1..n, i - 1 \in T PROVE i \in T
      <3> HIDE DEF body, V
      <3>1. QED BY <1>2, <1>7, <2>2
    <2> HIDE DEF T
    <2>3. \A i \in 0..n : i \in T
      BY <1>3, <2>1, <2>2, BoundedInduction
    <2>4. QED BY <2>3 DEF T
  <1>9. k \in [0..n -> V]
    <2> HIDE DEF body, V
    <2>1. QED BY <1>6, <1>8
  <1>10. Join(pieces, sep) = k[n]
    BY DEF Join, Joining, k
  <1>11. QED BY <1>7, <1>9, <1>10 DEF k


\* A piece more is put behind another separator.
LEMMA JoinAppend ==
    ASSUME NEW S, NEW pieces \in Seq(Seq(S)), NEW sep \in Seq(S), NEW x \in Seq(S)
    PROVE  /\ Join(pieces, sep) \in Seq(S)
           /\ pieces = <<>> => Join(pieces, sep) = <<>>
           /\ Join(Append(pieces, x), sep) =
                  IF pieces = <<>> THEN x ELSE Join(pieces, sep) \o sep \o x
  <1> DEFINE n == Len(pieces)
             t == Append(pieces, x)
             k == Joining(pieces, sep)
             l == Joining(t, sep)
             T == {i \in 0..n : k[i] = l[i]}
  <1>1. n \in Nat /\ t \in Seq(Seq(S)) /\ Len(t) = n + 1 /\ t[n+1] = x
    OBVIOUS
  <1>2. (\A i \in 1..n : t[i] = pieces[i]) /\ (n = 0 <=> pieces = <<>>)
    OBVIOUS
  <1>3. k[0] = <<>> /\ Join(pieces, sep) = k[n] /\ k \in [0..n -> Seq(S)]
    BY JoiningIs
  <1>4. \A i \in 1..n : k[i] = IF i = 1 THEN pieces[1] ELSE k[i-1] \o sep \o pieces[i]
    BY JoiningIs
  <1>5. l[0] = <<>> /\ Join(t, sep) = l[Len(t)]
    <2> HIDE DEF t
    <2>1. QED BY <1>1, JoiningIs
  <1>6. \A i \in 1..Len(t) : l[i] = IF i = 1 THEN t[1] ELSE l[i-1] \o sep \o t[i]
    <2> HIDE DEF t
    <2>1. QED BY <1>1, JoiningIs
  <1> HIDE DEF k, l, t, n
  <1>7. 0 \in T
    BY <1>1, <1>3, <1>5
  <1>8. ASSUME NEW i \in 1..n, i - 1 \in T PROVE i \in T
    <2>1. i \in 1..Len(t) /\ k[i-1] = l[i-1] /\ t[i] = pieces[i] /\ i \in 0..n
      BY <1>1, <1>2, <1>8
    <2>2. 1 \in 1..n
      BY <1>1
    <2>3. t[1] = pieces[1]
      BY <1>2, <2>2
    <2>4. k[i] = l[i]
      BY <2>1, <2>3, <1>4, <1>6
    <2>5. QED BY <2>1, <2>4
  <1>9. l[n] = k[n]
    <2> HIDE DEF T
    <2>1. \A i \in 0..n : i \in T
      BY <1>1, <1>7, <1>8, BoundedInduction
    <2>2. n \in T
      BY <2>1, <1>1
    <2>3. QED BY <2>2 DEF T
  <1>10. l[n+1] = IF n + 1 = 1 THEN t[1] ELSE l[n] \o sep \o t[n+1]
    <2>1. n + 1 \in 1..Len(t) /\ (n + 1) - 1 = n
      BY <1>1
    <2>2. QED BY <2>1, <1>6
  <1>11. Join(t, sep) = IF n = 0 THEN x ELSE k[n] \o sep \o x
    <2>1. n + 1 = 1 <=> n = 0
      BY <1>1
    <2>2. CASE n = 0
      BY <1>1, <1>5, <1>10, <2>2
    <2>3. CASE n # 0
      BY <1>1, <1>5, <1>9, <1>10, <2>1, <2>3
    <2>4. QED BY <2>2, <2>3
  <1>12. n \in 0..n
    BY <1>1
  <1>13. k[n] \in Seq(S) /\ (n = 0 => k[n] = <<>>)
    BY <1>3, <1>12
  <1>14. QED BY <1>2, <1>3, <1>11, <1>13 DEF t

\* Another piece puts another separator before it.
IsJoinedMore(pieces, sep, x) == Join(Append(pieces, x), sep) = Join(pieces, sep) \o sep \o x

\* Where there are pieces.
LEMMA JoinMore ==
    ASSUME NEW S, NEW pieces \in Seq(Seq(S)), NEW sep \in Seq(S), NEW x \in Seq(S), pieces # <<>>
    PROVE  IsJoinedMore(pieces, sep, x)
  BY JoinAppend DEF IsJoinedMore

\* The first piece stands without one.
LEMMA JoinFirst ==
    ASSUME NEW S, NEW pieces \in Seq(Seq(S)), NEW sep \in Seq(S), NEW x \in Seq(S), pieces = <<>>
    PROVE  Join(Append(pieces, x), sep) = x
  BY JoinAppend, ZenonT(30)

\* How the pieces lie in a text: where each begins, one behind the separator after the
\* last, and what is there.
IsLaid(t, pieces, sep, from) ==
    /\ from[1] = 1
    /\ from[Len(pieces) + 1] = Len(t) + Len(sep) + 1
    /\ \A i \in 1..Len(pieces) :
          /\ from[i+1] = from[i] + Len(pieces[i]) + Len(sep)
          /\ pieces[i] = SubSeq(t, from[i], from[i] + Len(pieces[i]) - 1)
    /\ \A i \in 1..(Len(pieces) - 1) : SubSeq(t, from[i+1] - Len(sep), from[i+1] - 1) = sep
    /\ \A i, j \in 1..(Len(pieces) + 1) : i <= j => from[i] <= from[j]

\* A passage of a text is one of what the text begins with, or of what it ends with.
LEMMA PassageOfConcat ==
    ASSUME NEW S, NEW s \in Seq(S), NEW t \in Seq(S), NEW a \in Nat \ {0}, NEW b \in Int
    PROVE  /\ b <= Len(s) => SubSeq(s \o t, a, b) = SubSeq(s, a, b)
           /\ b <= Len(t) => SubSeq(s \o t, Len(s) + a, Len(s) + b) = SubSeq(t, a, b)
  <1> DEFINE u == s \o t
             m == Len(s)
             n == Len(t)
  <1>1. /\ u \in Seq(S) /\ Len(u) = m + n /\ m \in Nat /\ n \in Nat
        /\ (\A i \in 1..m : u[i] = s[i]) /\ (\A i \in 1..n : u[m + i] = t[i])
    OBVIOUS
  <1>2. (\A i \in 1..m : s[i] \in S) /\ (\A i \in 1..n : t[i] \in S)
    OBVIOUS
  <1>3. ASSUME b <= m PROVE SubSeq(u, a, b) = SubSeq(s, a, b)
    <2> HIDE DEF u, m
    <2>1. \A i \in a..b : u[i] \in S /\ s[i] \in S /\ u[i] = s[i]
      BY <1>1, <1>2, <1>3
    <2>2. /\ SubSeq(u, a, b) \in Seq(S) /\ Len(SubSeq(u, a, b)) = IF a <= b THEN b-a+1 ELSE 0
          /\ \A i \in 1..(b-a+1) : SubSeq(u, a, b)[i] = u[a+i-1]
      BY <2>1, SubSeqProperties
    <2>3. /\ SubSeq(s, a, b) \in Seq(S) /\ Len(SubSeq(s, a, b)) = IF a <= b THEN b-a+1 ELSE 0
          /\ \A i \in 1..(b-a+1) : SubSeq(s, a, b)[i] = s[a+i-1]
      BY <2>1, SubSeqProperties
    <2>4. ASSUME NEW i \in 1..Len(SubSeq(u, a, b)) PROVE SubSeq(u, a, b)[i] = SubSeq(s, a, b)[i]
      <3>1. i \in 1..(b-a+1) /\ a+i-1 \in a..b
        BY <2>2
      <3>2. QED BY <3>1, <2>1, <2>2, <2>3
    <2>5. QED BY <2>2, <2>3, <2>4, SeqEqual
  <1>4. ASSUME b <= n PROVE SubSeq(u, m + a, m + b) = SubSeq(t, a, b)
    <2> HIDE DEF u, m, n
    <2>1. \A i \in a..b : u[m+i] \in S /\ t[i] \in S /\ u[m+i] = t[i]
      BY <1>1, <1>2, <1>4
    <2>2. \A i \in (m+a)..(m+b) : u[i] \in S
      <3>1. ASSUME NEW i \in (m+a)..(m+b) PROVE u[i] \in S
        <4>1. i - m \in a..b /\ m + (i - m) = i
          BY <1>1
        <4>2. u[m + (i-m)] \in S
          BY <4>1, <2>1
        <4>3. QED BY <4>1, <4>2
      <3>2. QED BY <3>1
    <2>3. /\ SubSeq(u, m+a, m+b) \in Seq(S)
          /\ Len(SubSeq(u, m+a, m+b)) = IF m+a <= m+b THEN (m+b)-(m+a)+1 ELSE 0
          /\ \A i \in 1..((m+b)-(m+a)+1) : SubSeq(u, m+a, m+b)[i] = u[(m+a)+i-1]
      <3>1. m + a \in Int /\ m + b \in Int
        BY <1>1
      <3>2. QED BY <3>1, <2>2, SubSeqProperties
    <2>4. /\ SubSeq(t, a, b) \in Seq(S) /\ Len(SubSeq(t, a, b)) = IF a <= b THEN b-a+1 ELSE 0
          /\ \A i \in 1..(b-a+1) : SubSeq(t, a, b)[i] = t[a+i-1]
      BY <2>1, SubSeqProperties
    <2>5. (m+b)-(m+a)+1 = b-a+1 /\ (m+a <= m+b <=> a <= b)
      BY <1>1
    <2>6. ASSUME NEW i \in 1..Len(SubSeq(t, a, b))
          PROVE SubSeq(u, m+a, m+b)[i] = SubSeq(t, a, b)[i]
      <3>1. i \in 1..(b-a+1) /\ a+i-1 \in a..b /\ (m+a)+i-1 = m+(a+i-1)
        BY <1>1, <2>4
      <3>2. u[m+(a+i-1)] = t[a+i-1]
        BY <3>1, <2>1
      <3>3. QED BY <3>1, <3>2, <2>3, <2>4, <2>5
    <2>7. QED BY <2>3, <2>4, <2>5, <2>6, SeqEqual
  <1>5. QED BY <1>3, <1>4

\* Pieces that are joined are laid out one behind the other.
LEMMA JoinLays ==
    ASSUME NEW S, NEW pieces \in Seq(Seq(S)), NEW sep \in Seq(S), pieces # <<>>
    PROVE  \E from \in [1..(Len(pieces) + 1) -> Nat] :
               IsLaid(Join(pieces, sep), pieces, sep, from)
  <1> DEFINE Laid(p) == \E from \in [1..(Len(p) + 1) -> Nat] : IsLaid(Join(p, sep), p, sep, from)
             V == Seq(S)
             T == {p \in Seq(V) : p = <<>> \/ Laid(p)}
  <1>1. <<>> \in T
    <2> HIDE DEF Laid, V
    <2>1. QED OBVIOUS
  <1>2. ASSUME NEW p \in Seq(V), NEW x \in V, p \in T PROVE Append(p, x) \in T
    <2> DEFINE q == Append(p, x)
               n == Len(p)
               t == Join(p, sep)
               u == Join(q, sep)
    <2>1. /\ q \in Seq(V) /\ Len(q) = n + 1 /\ q[n+1] = x /\ n \in Nat
          /\ \A i \in 1..n : q[i] = p[i]
      <3> HIDE DEF V
      <3>1. QED OBVIOUS
    <2>2. t \in Seq(S) /\ u = IF p = <<>> THEN x ELSE t \o sep \o x
      <3> HIDE DEF t
      <3>1. t \in Seq(S) /\ Join(Append(p, x), sep) = IF p = <<>> THEN x ELSE t \o sep \o x
        BY JoinAppend, SMTT(30) DEF t
      <3>2. QED BY <3>1
    <2>3. Laid(q)
      <3>1. CASE p = <<>>
        <4> DEFINE from == [i \in 1..2 |-> IF i = 1 THEN 1 ELSE Len(x) + Len(sep) + 1]
        <4>1. from \in [1..2 -> Nat] /\ from[1] = 1 /\ from[2] = Len(x) + Len(sep) + 1
          OBVIOUS
        <4>2. u = x /\ Len(q) = 1 /\ q[1] = x
          BY <2>1, <2>2, <3>1
        <4>3. x = SubSeq(x, 1, 1 + Len(x) - 1)
          OBVIOUS
        <4> HIDE DEF from, u, q
        <4>4. \A i \in 1..Len(q) : i = 1
          BY <4>2
        <4>5. 1..(Len(q) - 1) = {} /\ 1 + 1 = 2 /\ Len(q) + 1 = 2
          BY <4>2
        <4>6. IsLaid(u, q, sep, from)
          <5>1. Len(x) \in Nat /\ Len(sep) \in Nat
            OBVIOUS
          <5>2. QED BY <4>1, <4>2, <4>3, <4>4, <4>5, <5>1 DEF IsLaid
        <4>7. QED BY <4>1, <4>5, <4>6 DEF u
      <3>2. CASE p # <<>>
        <4>1. n # 0 /\ Laid(p)
          <5>1. n # 0
            BY <3>2
          <5> HIDE DEF Laid
          <5>2. QED BY <3>2, <1>2, <5>1
        <4>2. PICK from \in [1..(n + 1) -> Nat] : IsLaid(t, p, sep, from)
          BY <4>1
        <4> DEFINE e == Len(t) + Len(sep) + Len(x) + Len(sep) + 1
                   to == [i \in 1..(n + 2) |-> IF i <= n + 1 THEN from[i] ELSE e]
        <4>3. u = t \o sep \o x /\ Len(u) = Len(t) + Len(sep) + Len(x) /\ u \in Seq(S)
          BY <2>2, <3>2
        <4>4. to \in [1..(n + 2) -> Nat]
          BY <2>1, <2>2
        <4>5. (\A i \in 1..(n + 1) : to[i] = from[i]) /\ to[n + 2] = e
          BY <2>1
        <4>6. /\ from[1] = 1 /\ from[n + 1] = Len(t) + Len(sep) + 1
              /\ \A i \in 1..n :
                    /\ from[i+1] = from[i] + Len(p[i]) + Len(sep)
                    /\ p[i] = SubSeq(t, from[i], from[i] + Len(p[i]) - 1)
              /\ \A i \in 1..(n - 1) : SubSeq(t, from[i+1] - Len(sep), from[i+1] - 1) = sep
              /\ \A i, j \in 1..(n + 1) : i <= j => from[i] <= from[j]
          BY <4>2 DEF IsLaid
        <4> HIDE DEF to, t, u, q, Laid
        <4>7. /\ t \in Seq(S) /\ x \in Seq(S) /\ Len(t) \in Nat /\ Len(x) \in Nat
              /\ Len(sep) \in Nat /\ sep \in Seq(S) /\ \A i \in 1..n : Len(p[i]) \in Nat
          BY <2>2
        <4>8. u = t \o (sep \o x)
          <5>1. t \in Seq(S) /\ sep \in Seq(S) /\ x \in Seq(S)
            BY <4>7
          <5>2. (t \o sep) \o x = t \o (sep \o x)
            BY <5>1, ConcatAssociative, SMTT(30)
          <5>3. QED BY <4>3, <5>2
        <4>9. ASSUME NEW i \in 1..n
              PROVE /\ to[i+1] = to[i] + Len(q[i]) + Len(sep)
                    /\ q[i] = SubSeq(u, to[i], to[i] + Len(q[i]) - 1)
          <5>1. i \in 1..(n+1) /\ i + 1 \in 1..(n+1) /\ n + 1 \in 1..(n+1) /\ 1 \in 1..(n+1)
            BY <2>1
          <5>2. to[i] = from[i] /\ to[i+1] = from[i+1] /\ q[i] = p[i]
            BY <2>1, <4>5, <5>1
          <5>3. from[i] \in Nat /\ from[i+1] \in Nat /\ from[i] >= 1 /\ from[i+1] <= from[n+1]
            <6>1. 1 <= i /\ i + 1 <= n + 1
              BY <2>1
            <6>2. QED BY <4>6, <5>1, <6>1
          <5>4. from[i] + Len(p[i]) - 1 <= Len(t) /\ from[i] + Len(p[i]) - 1 \in Int
            <6>1. from[i+1] = from[i] + Len(p[i]) + Len(sep) /\ from[n+1] = Len(t) + Len(sep) + 1
                  /\ Len(p[i]) \in Nat /\ Len(t) \in Nat /\ Len(sep) \in Nat
              BY <4>6, <4>7
            <6>2. QED BY <5>3, <6>1, SMTT(30)
          <5>5. SubSeq(t \o (sep \o x), from[i], from[i] + Len(p[i]) - 1)
                    = SubSeq(t, from[i], from[i] + Len(p[i]) - 1)
            <6> DEFINE a == from[i]
                       b == from[i] + Len(p[i]) - 1
                       y == sep \o x
            <6>1. /\ a \in Nat \ {0} /\ b \in Int /\ b <= Len(t)
                  /\ y \in Seq(S) /\ t \in Seq(S)
              BY <4>7, <5>3, <5>4
            <6> HIDE DEF a, b, y
            <6>2. SubSeq(t \o y, a, b) = SubSeq(t, a, b)
              BY <6>1, PassageOfConcat
            <6>3. QED BY <6>2 DEF a, b, y
          <5>6. QED BY <4>6, <4>8, <5>2, <5>5
        <4>10. to[n+2] = to[n+1] + Len(q[n+1]) + Len(sep)
              /\ q[n+1] = SubSeq(u, to[n+1], to[n+1] + Len(q[n+1]) - 1)
          <5>1. n + 1 \in 1..(n+1)
            BY <2>1
          <5>2. to[n+1] = Len(t) + Len(sep) + 1 /\ q[n+1] = x
            BY <2>1, <4>5, <4>6, <5>1
          <5>3. Len(t \o sep) = Len(t) + Len(sep) /\ t \o sep \in Seq(S)
            BY <4>7
          <5>4. SubSeq((t \o sep) \o x, Len(t \o sep) + 1, Len(t \o sep) + Len(x)) = SubSeq(x, 1, Len(x))
            BY <4>7, <5>3, PassageOfConcat
          <5>5. SubSeq(x, 1, Len(x)) = x
            BY <4>7
          <5>6. to[n+1] + Len(q[n+1]) - 1 = Len(t \o sep) + Len(x) /\ to[n+1] = Len(t \o sep) + 1
            BY <4>7, <5>2, <5>3
          <5>7. q[n+1] = SubSeq(u, to[n+1], to[n+1] + Len(q[n+1]) - 1)
            BY <4>3, <5>2, <5>4, <5>5, <5>6
          <5>8. QED BY <4>5, <4>7, <5>2, <5>7
        <4>11. ASSUME NEW i \in 1..n
              PROVE SubSeq(u, to[i+1] - Len(sep), to[i+1] - 1) = sep
          <5>1. i + 1 \in 1..(n+1)
            BY <2>1
          <5>2. to[i+1] = from[i+1] /\ from[i+1] \in Nat
            BY <5>1, <4>5
          <5>3. CASE i = n
            <6>1. to[i+1] - Len(sep) = Len(t) + 1 /\ to[i+1] - 1 = Len(t) + Len(sep)
              BY <5>2, <5>3, <4>6, <4>7
            <6>2. SubSeq(t \o (sep \o x), Len(t) + 1, Len(t) + Len(sep)) = SubSeq(sep \o x, 1, Len(sep))
              <7>1. sep \o x \in Seq(S) /\ Len(sep) <= Len(sep \o x)
                BY <4>7
              <7>2. QED BY <4>7, <7>1, PassageOfConcat
            <6>3. SubSeq(sep \o x, 1, Len(sep)) = SubSeq(sep, 1, Len(sep))
              BY <4>7, PassageOfConcat
            <6>4. SubSeq(sep, 1, Len(sep)) = sep
              OBVIOUS
            <6>5. QED BY <6>1, <6>2, <6>3, <6>4, <4>8
          <5>4. CASE i # n
            <6>1. i \in 1..(n-1) /\ i \in 1..n
              BY <5>4, <2>1
            <6>2. from[i] \in Nat /\ from[i] >= 1 /\ from[i+1] <= from[n+1]
              <7>1. i \in 1..(n+1) /\ 1 \in 1..(n+1) /\ n + 1 \in 1..(n+1) /\ 1 <= i /\ i + 1 <= n + 1
                BY <2>1
              <7>2. from[1] <= from[i] /\ from[i+1] <= from[n+1]
                BY <4>6, <7>1, <5>1
              <7>3. QED BY <4>6, <7>1, <7>2
            <6>3. from[i+1] - Len(sep) \in Nat \ {0}
              <7>1. from[i+1] = from[i] + Len(p[i]) + Len(sep) /\ Len(p[i]) \in Nat /\ Len(sep) \in Nat
                BY <4>6, <4>7, <6>1
              <7>2. QED BY <7>1, <6>2, <5>2, SMTT(30)
            <6>4. CASE Len(sep) = 0
              <7>1. sep = <<>>
                BY <6>4
              <7>2. from[i+1] - 1 < from[i+1] - Len(sep)
                BY <5>2, <6>4
              <7>3. SubSeq(u, from[i+1] - Len(sep), from[i+1] - 1) = <<>>
                <8>1. from[i+1] - Len(sep) \in Int /\ from[i+1] - 1 \in Int
                  BY <5>2, <4>7
                <8>2. QED BY <8>1, <7>2, SubSeqEmpty
              <7>4. QED BY <5>2, <7>1, <7>3
            <6>5. CASE Len(sep) # 0
              <7>1. ASSUME from[i+1] - 1 > Len(t) PROVE FALSE
                <8>1. i + 1 \in 1..n /\ (i + 1) + 1 = i + 2 /\ i + 2 \in 1..(n+1)
                      /\ n + 1 \in 1..(n+1) /\ i + 2 <= n + 1
                  BY <6>1, <2>1, SMTT(30)
                <8>2. from[i+2] = from[i+1] + Len(p[i+1]) + Len(sep) /\ from[i+2] \in Nat
                      /\ Len(p[i+1]) \in Nat
                  BY <8>1, <4>6, <4>7
                <8>3. from[i+2] <= from[n+1]
                  BY <8>1, <4>6
                <8>4. from[n+1] = Len(t) + Len(sep) + 1 /\ Len(t) \in Nat /\ Len(sep) \in Nat
                  BY <4>6, <4>7
                <8>5. ASSUME NEW a \in Nat, NEW b \in Nat, NEW l \in Nat, NEW m \in Nat,
                             NEW k \in Nat, b = a + l + m, b <= k + m + 1, a - 1 > k
                      PROVE  FALSE
                  BY <8>5
                <8>6. QED BY <8>2, <8>3, <8>4, <8>5, <7>1, <5>2
              <7>2. from[i+1] - 1 <= Len(t) /\ from[i+1] - 1 \in Int
                BY <7>1, <4>7, <5>2
              <7>3. SubSeq(t \o (sep \o x), from[i+1] - Len(sep), from[i+1] - 1)
                       = SubSeq(t, from[i+1] - Len(sep), from[i+1] - 1)
                <8>1. sep \o x \in Seq(S)
                  BY <4>7
                <8>2. QED BY <4>7, <6>3, <7>2, <8>1, PassageOfConcat, ZenonT(30)
              <7>4. QED BY <4>6, <6>1, <5>2, <7>3, <4>8
            <6>6. QED BY <6>4, <6>5
          <5>5. QED BY <5>3, <5>4
        <4>12. ASSUME NEW i \in 1..(n+2), NEW j \in 1..(n+2), i <= j PROVE to[i] <= to[j]
          <5>1. to[n+1] <= to[n+2]
            <6>1. n + 1 \in 1..(n+1)
              BY <2>1
            <6>2. to[n+1] = Len(t) + Len(sep) + 1
              BY <6>1, <4>5, <4>6
            <6>3. QED BY <6>2, <4>5, <4>7
          <5>2. CASE j \in 1..(n+1)
            <6>1. i \in 1..(n+1)
              BY <5>2, <4>12, <2>1
            <6>2. QED BY <6>1, <5>2, <4>12, <4>5, <4>6
          <5>3. CASE j = n + 2 /\ i = n + 2
            <6>1. n + 2 \in 1..(n+2)
              BY <2>1
            <6>2. to[n+2] \in Nat
              BY <6>1, <4>4
            <6>3. QED BY <6>2, <5>3
          <5>4. CASE j = n + 2 /\ i \in 1..(n+1)
            <6>1. n + 1 \in 1..(n+1) /\ i <= n + 1 /\ n + 1 \in 1..(n+2) /\ n + 2 \in 1..(n+2)
              BY <5>4, <2>1
            <6>2. to[i] <= to[n+1]
              BY <6>1, <5>4, <4>5, <4>6
            <6>3. to[i] \in Nat /\ to[n+1] \in Nat /\ to[n+2] \in Nat
              BY <6>1, <4>4
            <6>4. QED BY <6>2, <6>3, <5>1, <5>4
          <5>5. QED BY <5>2, <5>3, <5>4, <2>1
        <4>13. IsLaid(u, q, sep, to)
          <5>1. Len(q) + 1 = n + 2 /\ Len(q) - 1 = n /\ 1 \in 1..(n+1) /\ (n + 1) + 1 = n + 2
            BY <2>1
          <5>2. to[1] = 1
            BY <5>1, <4>5, <4>6
          <5>3. to[Len(q) + 1] = Len(u) + Len(sep) + 1
            BY <5>1, <4>3, <4>5, <4>7
          <5>4. \A i \in 1..Len(q) : i \in 1..n \/ i = n + 1
            BY <2>1
          <5>5. \A i \in 1..Len(q) :
                    /\ to[i+1] = to[i] + Len(q[i]) + Len(sep)
                    /\ q[i] = SubSeq(u, to[i], to[i] + Len(q[i]) - 1)
            BY <5>1, <5>4, <4>9, <4>10
          <5>6. QED BY <5>1, <5>2, <5>3, <5>5, <4>11, <4>12 DEF IsLaid
        <4>14. to \in [1..(Len(q) + 1) -> Nat]
          <5>1. Len(q) + 1 = n + 2
            BY <2>1
          <5>2. QED BY <5>1, <4>4
        <4>15. QED BY <4>13, <4>14 DEF Laid, u
      <3>3. QED BY <3>1, <3>2
    <2>4. QED
      <3> HIDE DEF Laid, V, q
      <3>1. QED BY <2>1, <2>3 DEF q
  <1>3. \A p \in Seq(V) : p \in T
    <2> HIDE DEF T, V
    <2>1. QED BY <1>1, <1>2, ListInduction
  <1>4. pieces \in T
    BY <1>3
  <1>5. QED BY <1>4


\* Pieces from one to another, joined again, are the passage of the text they lie in.
IsJoined(t, pieces, sep, from, i, j) ==
    Join(SubSeq(pieces, i, j), sep) = SubSeq(t, from[i], from[j+1] - Len(sep) - 1)

\* This is so wherever they lie.
LEMMA JoinPassage ==
    ASSUME NEW S, NEW t \in Seq(S), NEW pieces \in Seq(Seq(S)), NEW sep \in Seq(S),
           NEW from \in [1..(Len(pieces) + 1) -> Nat], IsLaid(t, pieces, sep, from),
           NEW i \in 1..Len(pieces), NEW j \in i..Len(pieces)
    PROVE  IsJoined(t, pieces, sep, from, i, j)
  <1>1. ASSUME NEW q \in Seq(Seq(S)), q # <<>>, NEW x \in Seq(S)
        PROVE  Join(Append(q, x), sep) = Join(q, sep) \o sep \o x
    <2>1. IsJoinedMore(q, sep, x)
      BY <1>1, JoinMore, Zenon
    <2>2. QED BY <2>1 DEF IsJoinedMore
  <1> DEFINE n == Len(pieces)
             l == Len(sep)
             run(d) == SubSeq(pieces, i, i + d)
             part(d) == SubSeq(t, from[i], from[i+d+1] - l - 1)
             T == {d \in 0..(n - i) : Join(run(d), sep) = part(d)}
  <1>2. /\ n \in Nat /\ l \in Nat /\ Len(t) \in Nat /\ n - i \in Nat
        /\ \A k \in 1..n : pieces[k] \in Seq(S) /\ Len(pieces[k]) \in Nat
    OBVIOUS
  <1>3. /\ from[1] = 1 /\ from[n+1] = Len(t) + l + 1
        /\ \A k \in 1..n : /\ from[k+1] = from[k] + Len(pieces[k]) + l
                           /\ pieces[k] = SubSeq(t, from[k], from[k] + Len(pieces[k]) - 1)
        /\ \A k \in 1..(n-1) : SubSeq(t, from[k+1] - l, from[k+1] - 1) = sep
        /\ \A p, q \in 1..(n+1) : p <= q => from[p] <= from[q]
    BY DEF IsLaid
  <1>4. \A d \in 0..(n-i) : run(d) \in Seq(Seq(S)) /\ Len(run(d)) = d + 1
    OBVIOUS
  <1> HIDE DEF n, l
  <1>5. 0 \in T
    <2>1. i \in 1..n /\ i \in Nat /\ i + 0 = i /\ i + 0 + 1 = i + 1 /\ i \in 1..(n+1) /\ i + 1 \in 1..(n+1) /\ 0 \in 0..(n-i)
      <3>1. i \in 1..n
        BY DEF n
      <3>2. QED BY <3>1, <1>2
    <2>2. SubSeq(pieces, i, i) = Append(<<>>, pieces[i]) /\ pieces[i] \in Seq(S)
      <3>1. SubSeq(pieces, i, i) = << pieces[i] >>
        <4> DEFINE q == SubSeq(pieces, i, i)
        <4>1. i \in 1..Len(pieces) /\ i \in Nat
          BY <2>1 DEF n
        <4>2. Len(q) = 1 /\ q \in Seq(Seq(S))
          BY <4>1
        <4>3. q[1] = pieces[i]
          BY <4>1
        <4> HIDE DEF q
        <4>4. q = <<q[1]>>
          BY <4>2
        <4>5. QED BY <4>3, <4>4 DEF q
      <3>2. QED BY <3>1, <2>1, <1>2
    <2>3. Join(run(0), sep) = pieces[i]
      <3>1. ASSUME NEW e \in Seq(Seq(S)), e = <<>> PROVE Join(Append(e, pieces[i]), sep) = pieces[i]
        <4> HIDE DEF run, part, T
        <4>1. QED BY <2>2, <3>1, JoinFirst
      <3>2. <<>> \in Seq(Seq(S))
        OBVIOUS
      <3>3. Join(Append(<<>>, pieces[i]), sep) = pieces[i]
        BY <3>1, <3>2
      <3>4. run(0) = Append(<<>>, pieces[i])
        BY <2>1, <2>2
      <3>5. QED BY <3>3, <3>4
    <2>4. from[i] + Len(pieces[i]) - 1 = from[i+0+1] - l - 1
      <3>1. from[i] \in Nat /\ Len(pieces[i]) \in Nat
        BY <2>1, <1>2 DEF n
      <3>2. from[i+1] = from[i] + Len(pieces[i]) + l
        BY <1>3, <2>1
      <3>3. from[i+0+1] = from[i+1]
        BY <2>1
      <3>4. QED BY <1>2, <3>1, <3>2, <3>3
    <2>5. pieces[i] = part(0)
      <3>1. pieces[i] = SubSeq(t, from[i], from[i] + Len(pieces[i]) - 1)
        BY <1>3, <2>1
      <3>2. QED BY <3>1, <2>4
    <2>6. QED BY <2>1, <2>3, <2>5
  <1>6. ASSUME NEW d \in 1..(n-i), d - 1 \in T PROVE d \in T
    <2>1. i \in 1..n /\ i \in Nat /\ d \in Nat
      <3>1. i \in 1..n
        BY DEF n
      <3>2. QED BY <3>1, <1>2
    <2>2. PICK k \in 1..n :
             /\ k = i + d /\ k - 1 \in 1..(n-1) /\ (k - 1) + 1 = k /\ i + (d-1) + 1 = k
             /\ i + d + 1 = k + 1 /\ i + (d - 1) = k - 1 /\ i <= k - 1
      <3>1. i + d \in 1..n
        BY <2>1, <1>2
      <3>2. QED BY <3>1, <2>1, <1>2
    <2>3. d - 1 \in 0..(n-i) /\ d \in 0..(n-i)
      BY <1>2, <2>1
    <2>4. /\ i \in 1..(n+1) /\ k \in 1..(n+1) /\ k + 1 \in 1..(n+1) /\ k - 1 \in 1..(n+1)
          /\ k - 1 \in 1..n /\ 1 \in 1..(n+1) /\ n + 1 \in 1..(n+1) /\ 1 <= i /\ k + 1 <= n + 1
      BY <1>2, <2>1, <2>2
    <2>5. run(d) = Append(run(d-1), pieces[k])
      <3>1. SubSeq(pieces, i, k) = Append(SubSeq(pieces, i, k-1), pieces[k])
        <4>1. k \in 1..Len(pieces) /\ i \in 1..Len(pieces) /\ i <= k /\ k \in Nat /\ i \in Nat
          BY <2>1, <2>2 DEF n
        <4>2. QED BY <4>1
      <3>2. QED BY <3>1, <2>2
    <2>6. run(d-1) \in Seq(Seq(S)) /\ run(d-1) # <<>> /\ pieces[k] \in Seq(S)
      <3>1. Len(run(d-1)) = (d - 1) + 1 /\ run(d-1) \in Seq(Seq(S))
        BY <2>3, <1>4
      <3> HIDE DEF run
      <3>2. QED BY <3>1, <1>2, <2>1, <2>2
    <2>7. Join(run(d), sep) = Join(run(d-1), sep) \o sep \o pieces[k]
      <3> HIDE DEF run
      <3>1. Join(Append(run(d-1), pieces[k]), sep) = Join(run(d-1), sep) \o sep \o pieces[k]
        <4>1. QED BY <2>6, <1>1
      <3>2. QED BY <2>5, <2>6, <3>1
    <2> DEFINE a == from[i]
               b == from[k]
               c == from[k+1]
    <2>8. a \in Nat /\ b \in Nat /\ c \in Nat /\ from[k-1] \in Nat
      BY <2>4 DEF n
    <2>9. Join(run(d-1), sep) = SubSeq(t, a, b - l - 1)
      <3>1. Join(run(d-1), sep) = part(d-1)
        BY <1>6
      <3>2. QED BY <3>1, <2>2
    <2>10. sep = SubSeq(t, b - l, b - 1)
      <3>1. SubSeq(t, from[(k-1)+1] - l, from[(k-1)+1] - 1) = sep
        BY <1>3, <2>2
      <3>2. QED BY <3>1, <2>2
    <2>11. c = b + Len(pieces[k]) + l /\ pieces[k] = SubSeq(t, b, c - l - 1)
      <3>1. c = b + Len(pieces[k]) + l /\ pieces[k] = SubSeq(t, b, b + Len(pieces[k]) - 1)
        BY <1>3, <2>2
      <3>2. Len(pieces[k]) \in Nat
        BY <1>2, <2>2
      <3> HIDE DEF a, b, c
      <3>3. b + Len(pieces[k]) - 1 = c - l - 1
        BY <3>1, <3>2, <2>8, <1>2
      <3>4. QED BY <3>1, <3>3
    <2>12. 1 <= a /\ a <= b - l /\ c <= Len(t) + l + 1 /\ b <= c - l
      <3>1. from[1] <= a /\ c <= from[n+1]
        BY <1>3, <2>4
      <3>2. from[(k-1)+1] = from[k-1] + Len(pieces[k-1]) + l
        BY <1>3, <2>4
      <3>3. b = from[k-1] + Len(pieces[k-1]) + l
        BY <3>2, <2>2
      <3>4. a <= from[k-1]
        BY <1>3, <2>4, <2>2
      <3>5. Len(pieces[k-1]) \in Nat /\ Len(pieces[k]) \in Nat
        BY <1>2, <2>2, <2>4
      <3> HIDE DEF a, b, c
      <3>6. from[1] = 1 /\ from[n+1] = Len(t) + l + 1
        BY <1>3
      <3>7. 1 <= a /\ c <= Len(t) + l + 1
        BY <3>1, <3>6
      <3>8. a <= b - l
        <4>1. ASSUME NEW v \in Nat, NEW h \in Nat, b = v + h + l, a <= v PROVE a <= b - l
          BY <4>1, <2>8, <1>2
        <4>2. QED BY <4>1, <2>8, <3>3, <3>4, <3>5
      <3>9. b <= c - l
        BY <2>8, <2>11, <3>5, <1>2
      <3>10. QED BY <3>7, <3>8, <3>9
    <2>13. part(d) = SubSeq(t, a, c - l - 1)
      BY <2>2
    <2>14. SubSeq(t, a, b - l - 1) \o sep = SubSeq(t, a, b - 1)
      <3> HIDE DEF a, b, c
      <3>1. /\ a \in 1..(Len(t) + 1) /\ b - l - 1 \in (a - 1)..Len(t) /\ b - 1 \in (b - l - 1)..Len(t)
            /\ (b - l - 1) + 1 = b - l
        BY <2>12, <2>8, <1>2
      <3>2. SubSeq(t, a, b - l - 1) \o SubSeq(t, (b - l - 1) + 1, b - 1) = SubSeq(t, a, b - 1)
        BY <3>1, ConcatAdjacentSubSeq
      <3>3. QED BY <2>10, <3>1, <3>2
    <2>15. SubSeq(t, a, b - 1) \o pieces[k] = SubSeq(t, a, c - l - 1)
      <3> HIDE DEF a, b, c
      <3>1. /\ a \in 1..(Len(t) + 1) /\ b - 1 \in (a - 1)..Len(t) /\ c - l - 1 \in (b - 1)..Len(t)
            /\ (b - 1) + 1 = b
        BY <2>12, <2>8, <1>2
      <3>2. SubSeq(t, a, b - 1) \o SubSeq(t, (b - 1) + 1, c - l - 1) = SubSeq(t, a, c - l - 1)
        BY <3>1, ConcatAdjacentSubSeq
      <3>3. QED BY <2>11, <3>1, <3>2
    <2>16. Join(run(d), sep) = part(d)
      <3> HIDE DEF a, b, c, run, part
      <3>1. QED BY <2>7, <2>9, <2>13, <2>14, <2>15
    <2> HIDE DEF run, part
    <2>17. QED BY <2>16, <2>3
  <1>7. j - i \in T /\ i + (j - i) = j
    <2>1. i \in 1..n /\ j \in i..n /\ i \in Nat /\ j \in Nat
      BY <1>2 DEF n
    <2> HIDE DEF T
    <2>2. \A d \in 0..(n-i) : d \in T
      BY <1>2, <1>5, <1>6, BoundedInduction
    <2>3. j - i \in 0..(n-i)
      BY <1>2, <2>1
    <2>4. QED BY <2>1, <2>2, <2>3
  <1>8. Join(run(j-i), sep) = part(j-i)
    BY <1>7
  <1>9. QED BY <1>7, <1>8 DEF l, IsJoined

\* The loop of Split.
Reading(t, sep) ==
    LET read[i \in 0 .. Len(t)] ==
            IF i = 0 THEN [pieces |-> <<>>, from |-> 1]
            ELSE LET before == read[i - 1]
                     end == i - Len(sep)
                 IN IF end + 1 >= before.from /\ SubSeq(t, end + 1, i) = sep
                    THEN [pieces |-> Append(before.pieces, SubSeq(t, before.from, end)),
                          from |-> i + 1]
                    ELSE before
    IN read

\* What it does at a place of the text.
ReadOn(t, sep, before, i) ==
    LET end == i - Len(sep)
    IN IF end + 1 >= before.from /\ SubSeq(t, end + 1, i) = sep
       THEN [pieces |-> Append(before.pieces, SubSeq(t, before.from, end)), from |-> i + 1]
       ELSE before

\* It goes through the text.
LEMMA ReadingIs ==
    ASSUME NEW S, NEW t \in Seq(S), NEW sep \in Seq(S)
    PROVE  /\ Reading(t, sep)[0] = [pieces |-> <<>>, from |-> 1]
           /\ \A i \in 1..Len(t) : Reading(t, sep)[i] = ReadOn(t, sep, Reading(t, sep)[i-1], i)
  <1> DEFINE n == Len(t)
             V == [pieces : Seq(Seq(S)), from : Nat \ {0}]
             a == [pieces |-> <<>>, from |-> 1]
             f == [p \in V \X Nat |-> IF p[2] \in 1..n THEN ReadOn(t, sep, p[1], p[2]) ELSE p[1]]
             k == Reading(t, sep)
  <1>1. a \in V /\ n \in Nat
    OBVIOUS
  <1>2. ASSUME NEW x \in V, NEW i \in 1..n PROVE ReadOn(t, sep, x, i) \in V
    <2>1. CASE i - Len(sep) + 1 >= x.from /\ SubSeq(t, i - Len(sep) + 1, i) = sep
      <3>1. ReadOn(t, sep, x, i) = [pieces |-> Append(x.pieces, SubSeq(t, x.from, i - Len(sep))), from |-> i + 1]
        BY <2>1 DEF ReadOn
      <3>2. SubSeq(t, x.from, i - Len(sep)) \in Seq(S)
        <4>1. x.from \in Nat \ {0} /\ i - Len(sep) \in Int /\ i - Len(sep) <= n
          OBVIOUS
        <4>2. \A m \in x.from..(i - Len(sep)) : t[m] \in S
          BY <4>1
        <4>3. QED BY <4>1, <4>2, SubSeqProperties
      <3>3. x.pieces \in Seq(Seq(S)) /\ i + 1 \in Nat \ {0}
        OBVIOUS
      <3>4. Append(x.pieces, SubSeq(t, x.from, i - Len(sep))) \in Seq(Seq(S))
        BY <3>2, <3>3
      <3>5. QED BY <3>1, <3>3, <3>4
    <2>2. CASE ~(i - Len(sep) + 1 >= x.from /\ SubSeq(t, i - Len(sep) + 1, i) = sep)
      BY <2>2 DEF ReadOn
    <2>3. QED BY <2>1, <2>2
  <1>3. f \in [V \X Nat -> V]
    <2> HIDE DEF V, n
    <2>1. QED BY <1>2
  <1>4. PICK g \in [0..n -> V] : IsLoop(g, a, f, n)
    <2> HIDE DEF f, n, V, a
    <2>1. QED BY <1>1, <1>3, LoopExists, Zenon
  <1>5. ASSUME NEW i \in 0..n PROVE g[i] = IF i = 0 THEN a ELSE ReadOn(t, sep, g[i-1], i)
    <2>1. CASE i = 0
      BY <2>1, <1>4 DEF IsLoop
    <2>2. CASE i # 0
      <3>1. i \in 1..n /\ i - 1 \in 0..n /\ i \in Nat
        BY <2>2
      <3>2. g[i] = f[<<g[i-1], i>>]
        <4> HIDE DEF f
        <4>1. QED BY <1>4, <3>1 DEF IsLoop
      <3> HIDE DEF V
      <3>3. f[<<g[i-1], i>>] = ReadOn(t, sep, g[i-1], i)
        BY <3>1
      <3>4. QED BY <2>2, <3>2, <3>3, Zenon
    <2>3. QED BY <2>1, <2>2
  <1>6. k = [i \in 0..n |-> IF i = 0 THEN a ELSE ReadOn(t, sep, k[i-1], i)]
    <2>1. g = [i \in 0..n |-> IF i = 0 THEN a ELSE ReadOn(t, sep, g[i-1], i)]
      <3> HIDE DEF V, a
      <3>1. QED BY <1>5
    <2>2. k = CHOOSE h : h = [i \in 0..n |-> IF i = 0 THEN a ELSE ReadOn(t, sep, h[i-1], i)]
      BY Zenon DEF Reading, ReadOn
    <2> HIDE DEF k, a, V
    <2>3. QED BY <2>1, <2>2
  <1> HIDE DEF k, a
  <1>7. 0 \in 0..n /\ \A i \in 1..n : i \in 0..n /\ i # 0
    BY <1>1
  <1>8. k[0] = a /\ \A i \in 1..n : k[i] = ReadOn(t, sep, k[i-1], i)
    <2> HIDE DEF n
    <2>1. QED BY <1>6, <1>7
  <1>9. QED BY <1>8 DEF k, a


\* A list is longer by one with one more.
LEMMA AppendMore ==
    ASSUME NEW S, NEW s \in Seq(S), NEW x \in S
    PROVE  Append(s, x) \in Seq(S) /\ Append(s, x) # <<>> /\ Len(Append(s, x)) = Len(s) + 1
  BY SMTT(30)

\* What has been read up to a place of the text: the pieces, joined and with a separator
\* after them, are the text before the place where the next piece begins.
IsRead(t, sep, pieces, from) ==
    /\ from \in 1..(Len(t) + 1)
    /\ pieces = <<>> => from = 1
    /\ pieces # <<>> => Join(pieces, sep) \o sep = SubSeq(t, 1, from - 1)

\* The text read, with the piece up to another place, is the text up to there.
LEMMA ReadPiece ==
    ASSUME NEW S, NEW t \in Seq(S), NEW sep \in Seq(S), NEW pieces \in Seq(Seq(S)), NEW from,
           IsRead(t, sep, pieces, from), NEW end \in (from - 1)..Len(t)
    PROVE  /\ SubSeq(t, from, end) \in Seq(S)
           /\ Join(Append(pieces, SubSeq(t, from, end)), sep) = SubSeq(t, 1, end)
  <1> DEFINE w == SubSeq(t, from, end)
  <1>1. from \in 1..(Len(t) + 1) /\ from \in Nat /\ end \in Int /\ from - 1 <= end /\ end <= Len(t)
    BY DEF IsRead
  <1>2. w \in Seq(S)
    <2>1. \A m \in from..end : t[m] \in S
      BY <1>1
    <2>2. QED BY <1>1, <2>1, SubSeqProperties
  <1>3. 1 \in 1..(Len(t) + 1) /\ from - 1 \in (1 - 1)..Len(t) /\ end \in (from - 1)..Len(t)
        /\ (from - 1) + 1 = from
    BY <1>1
  <1>4. SubSeq(t, 1, from - 1) \o w = SubSeq(t, 1, end)
    BY <1>3, ConcatAdjacentSubSeq
  <1> HIDE DEF w
  <1>5. CASE pieces = <<>>
    <2>1. Join(Append(pieces, w), sep) = w
      BY <1>2, <1>5, JoinFirst
    <2>2. from = 1
      BY <1>5 DEF IsRead
    <2>3. QED BY <1>2, <2>1, <2>2 DEF w
  <1>6. CASE pieces # <<>>
    <2>1. IsJoinedMore(pieces, sep, w)
      BY <1>2, <1>6, JoinMore, Zenon
    <2>2. Join(pieces, sep) \o sep = SubSeq(t, 1, from - 1)
      BY <1>6 DEF IsRead
    <2>3. Join(Append(pieces, w), sep) = Join(pieces, sep) \o sep \o w
      BY <2>1 DEF IsJoinedMore
    <2>4. QED BY <1>2, <1>4, <2>2, <2>3 DEF w
  <1>7. QED BY <1>5, <1>6

\* The loop has read the text up to where it is.
LEMMA ReadingSoFar ==
    ASSUME NEW S, NEW t \in Seq(S), NEW sep \in Seq(S), sep # <<>>
    PROVE  \A i \in 0..Len(t) :
              /\ Reading(t, sep)[i].pieces \in Seq(Seq(S))
              /\ IsRead(t, sep, Reading(t, sep)[i].pieces, Reading(t, sep)[i].from)
              /\ Reading(t, sep)[i].from <= i + 1
  <1> DEFINE n == Len(t)
             k == Reading(t, sep)
             Good(i) == /\ k[i].pieces \in Seq(Seq(S))
                        /\ IsRead(t, sep, k[i].pieces, k[i].from)
                        /\ k[i].from <= i + 1
             T == {i \in 0..n : Good(i)}
  <1>1. n \in Nat /\ Len(sep) \in Nat \ {0}
    OBVIOUS
  <1>2. k[0] = [pieces |-> <<>>, from |-> 1] /\ \A i \in 1..n : k[i] = ReadOn(t, sep, k[i-1], i)
    BY ReadingIs
  <1> HIDE DEF k
  <1>3. 0 \in T
    <2>1. k[0].pieces = <<>> /\ k[0].from = 1 /\ 1 \in 1..(n + 1) /\ 0 \in 0..n
      BY <1>1, <1>2
    <2>2. IsRead(t, sep, k[0].pieces, k[0].from)
      BY <2>1 DEF IsRead
    <2>3. <<>> \in Seq(Seq(S))
      OBVIOUS
    <2>4. k[0].pieces \in Seq(Seq(S))
      BY <2>1, <2>3, Zenon
    <2>5. k[0].from <= 0 + 1
      BY <2>1
    <2>6. QED BY <2>1, <2>2, <2>4, <2>5
  <1>4. ASSUME NEW i \in 1..n, i - 1 \in T PROVE i \in T
    <2> DEFINE x == k[i-1]
               end == i - Len(sep)
               w == SubSeq(t, x.from, end)
    <2>1. /\ x.pieces \in Seq(Seq(S)) /\ IsRead(t, sep, x.pieces, x.from) /\ x.from <= (i - 1) + 1
      BY <1>4
    <2>2. x.from \in 1..(n + 1)
      BY <2>1 DEF IsRead
    <2>3. k[i] = ReadOn(t, sep, x, i) /\ i \in 0..n /\ i \in Nat /\ i <= n
      BY <1>1, <1>2
    <2> HIDE DEF x, n
    <2>4. CASE end + 1 >= x.from /\ SubSeq(t, end + 1, i) = sep
      <3>1. k[i] = [pieces |-> Append(x.pieces, w), from |-> i + 1]
        BY <2>3, <2>4 DEF ReadOn
      <3>2. end \in (x.from - 1)..Len(t) /\ end \in Int /\ end <= i
        BY <1>1, <2>2, <2>3, <2>4 DEF n
      <3> HIDE DEF end
      <3>3. w \in Seq(S) /\ Join(Append(x.pieces, w), sep) = SubSeq(t, 1, end)
        BY <2>1, <3>2, ReadPiece
      <3> HIDE DEF w
      <3>4. SubSeq(t, 1, end) \o sep = SubSeq(t, 1, (i + 1) - 1)
        <4>1. 1 \in 1..(Len(t) + 1) /\ end \in (1 - 1)..Len(t) /\ i \in end..Len(t) /\ (i + 1) - 1 = i
          BY <3>2, <2>2, <2>3, <1>1 DEF n
        <4>2. SubSeq(t, 1, end) \o SubSeq(t, end + 1, i) = SubSeq(t, 1, i)
          BY <4>1, ConcatAdjacentSubSeq
        <4>3. QED BY <2>4, <4>1, <4>2
      <3>5. Append(x.pieces, w) \in Seq(Seq(S)) /\ Append(x.pieces, w) # <<>>
        BY <2>1, <3>3, AppendMore, Zenon
      <3>6. i + 1 \in 1..(Len(t) + 1)
        BY <2>3, <1>1 DEF n
      <3>7. IsRead(t, sep, Append(x.pieces, w), i + 1)
        BY <3>3, <3>4, <3>5, <3>6 DEF IsRead
      <3>8. k[i].pieces = Append(x.pieces, w) /\ k[i].from = i + 1
        BY <3>1
      <3>9. k[i].pieces \in Seq(Seq(S))
        BY <3>5, <3>8, Zenon
      <3>10. IsRead(t, sep, k[i].pieces, k[i].from)
        BY <3>7, <3>8, Zenon
      <3>11. k[i].from <= i + 1
        BY <3>8, <2>3
      <3>12. QED BY <3>9, <3>10, <3>11, <2>3
    <2>5. CASE ~(end + 1 >= x.from /\ SubSeq(t, end + 1, i) = sep)
      <3>1. k[i] = x
        BY <2>3, <2>5 DEF ReadOn
      <3>2. x.from <= i + 1
        BY <2>1, <2>2, <2>3, <1>1
      <3>3. QED BY <3>1, <3>2, <2>1, <2>3
    <2>6. QED BY <2>4, <2>5
  <1>5. \A i \in 0..n : i \in T
    <2> HIDE DEF T, n
    <2>1. QED BY <1>1, <1>3, <1>4, BoundedInduction
  <1>6. QED BY <1>5 DEF k

\* Splitting returns pieces that, joined, are the text again: they lie in it one behind
\* the other; by the empty separator they are characters.
LEMMA SplitLays ==
    ASSUME NEW S, NEW t \in Seq(S), t # <<>>, NEW sep \in Seq(S)
    PROVE  /\ Split(t, sep) \in Seq(Seq(S))
           /\ sep = <<>> => \A i \in 1..Len(Split(t, sep)) : Len(Split(t, sep)[i]) = 1
           /\ \E from \in [1..(Len(Split(t, sep)) + 1) -> Nat] :
                 IsLaid(t, Split(t, sep), sep, from)
  <1>1. CASE sep = <<>>
    <2> DEFINE p == [i \in DOMAIN t |-> <<t[i]>>]
               n == Len(t)
               from == [i \in 1..(n + 1) |-> i]
    <2>1. Split(t, sep) = p
      BY <1>1 DEF Split
    <2>2. p \in Seq(Seq(S)) /\ Len(p) = n /\ n \in Nat /\ \A i \in 1..n : p[i] = <<t[i]>> /\ t[i] \in S
      <3>1. \A i \in 1..Len(t) : t[i] \in S
        OBVIOUS
      <3>2. DOMAIN t = 1..n /\ n \in Nat
        OBVIOUS
      <3>3. \A i \in 1..n : <<t[i]>> \in Seq(S)
        BY <3>1
      <3>4. QED BY <3>1, <3>2, <3>3
    <2> HIDE DEF p
    <2>3. \A i \in 1..n : Len(p[i]) = 1
      <3>1. ASSUME NEW i \in 1..n PROVE Len(p[i]) = 1
        <4>1. p[i] = <<t[i]>>
          BY <2>2
        <4>2. QED BY <4>1
      <3>2. QED BY <3>1
    <2>4. IsLaid(t, p, sep, from)
      <3>1. Len(sep) = 0
        BY <1>1
      <3>2. ASSUME NEW i \in 1..n
            PROVE  /\ from[i+1] = from[i] + Len(p[i]) + Len(sep)
                   /\ p[i] = SubSeq(t, from[i], from[i] + Len(p[i]) - 1)
        <4>1. i \in 1..(n+1) /\ i + 1 \in 1..(n+1) /\ i \in Nat /\ i + 1 - 1 = i
          BY <2>2
        <4>2. from[i] = i /\ from[i+1] = i + 1
          BY <4>1
        <4>3. SubSeq(t, i, i) = <<t[i]>>
          <5> DEFINE q == SubSeq(t, i, i)
          <5>1. Len(q) = 1 /\ q \in Seq(S) /\ q[1] = t[i]
            BY <4>1
          <5> HIDE DEF q
          <5>2. q = <<q[1]>>
            BY <5>1
          <5>3. QED BY <5>1, <5>2 DEF q
        <4>4. Len(p[i]) = 1 /\ p[i] = <<t[i]>>
          BY <2>2, <2>3
        <4> HIDE DEF from, n
        <4>5. from[i] + Len(p[i]) - 1 = i
          BY <4>1, <4>2, <4>4
        <4>6. p[i] = SubSeq(t, from[i], from[i] + Len(p[i]) - 1)
          BY <4>2, <4>3, <4>4, <4>5
        <4>7. from[i+1] = from[i] + Len(p[i]) + Len(sep)
          BY <3>1, <4>1, <4>2, <4>4
        <4>8. QED BY <4>6, <4>7
      <3>3. ASSUME NEW i \in 1..(n-1) PROVE SubSeq(t, from[i+1] - Len(sep), from[i+1] - 1) = sep
        <4>1. i + 1 \in 1..(n+1) /\ i \in Nat
          BY <2>2
        <4>2. from[i+1] = i + 1
          BY <4>1
        <4>3. from[i+1] - Len(sep) = i + 1 /\ from[i+1] - 1 = i
          BY <3>1, <4>1, <4>2
        <4>4. SubSeq(t, i + 1, i) = <<>>
          BY <4>1, SubSeqEmpty
        <4>5. QED BY <4>3, <4>4, <1>1
      <3>4. from[1] = 1 /\ from[n+1] = Len(t) + Len(sep) + 1
        BY <2>2, <3>1
      <3>5. \A i, j \in 1..(n+1) : i <= j => from[i] <= from[j]
        OBVIOUS
      <3> HIDE DEF from, n
      <3>6. QED BY <2>2, <3>2, <3>3, <3>4, <3>5 DEF IsLaid
    <2>5. from \in [1..(Len(p) + 1) -> Nat]
      BY <2>2
    <2> HIDE DEF from
    <2>6. QED BY <2>1, <2>2, <2>3, <2>4, <2>5
  <1>2. CASE sep # <<>>
    <2> DEFINE k == Reading(t, sep)
               n == Len(t)
               last == k[n]
               w == SubSeq(t, last.from, n)
               p == Append(last.pieces, w)
    <2>1. Split(t, sep) = p
      BY <1>2 DEF Split, Reading
    <2>2. last.pieces \in Seq(Seq(S)) /\ IsRead(t, sep, last.pieces, last.from)
      <3>1. n \in 0..n
        OBVIOUS
      <3>2. QED BY <1>2, <3>1, ReadingSoFar
    <2>3. n \in (last.from - 1)..Len(t)
      <3>1. last.from \in 1..(Len(t) + 1) /\ n \in Nat
        BY <2>2 DEF IsRead
      <3> HIDE DEF last
      <3>2. QED BY <3>1
    <2> HIDE DEF last, k
    <2>4. w \in Seq(S) /\ Join(Append(last.pieces, w), sep) = SubSeq(t, 1, n)
      <3> HIDE DEF n
      <3>1. QED BY <2>2, <2>3, ReadPiece
    <2>5. SubSeq(t, 1, n) = t
      OBVIOUS
    <2> HIDE DEF w, n
    <2>6. p \in Seq(Seq(S)) /\ p # <<>>
      BY <2>2, <2>4, AppendMore, Zenon
    <2>7. p \in Seq(Seq(S)) /\ p # <<>> /\ Join(p, sep) = t
      BY <2>6, <2>4, <2>5
    <2> HIDE DEF p
    <2>8. \E from \in [1..(Len(p) + 1) -> Nat] : IsLaid(Join(p, sep), p, sep, from)
      BY <2>7, JoinLays, Zenon
    <2>9. QED BY <1>2, <2>1, <2>7, <2>8, SMTT(30)
  <1>3. QED BY <1>1, <1>2


\* A passage of a text.
LEMMA PassageIs ==
    ASSUME NEW S, NEW t \in Seq(S), NEW x \in Nat \ {0}, NEW y \in Nat, x <= y + 1, y <= Len(t)
    PROVE  /\ SubSeq(t, x, y) \in Seq(S)
           /\ Len(SubSeq(t, x, y)) = y - x + 1
           /\ \A i \in 1..(y - x + 1) : SubSeq(t, x, y)[i] = t[x + i - 1]
  <1>1. \A i \in x..y : t[i] \in S
    OBVIOUS
  <1>2. /\ SubSeq(t, x, y) \in Seq(S)
        /\ Len(SubSeq(t, x, y)) = IF x <= y THEN y - x + 1 ELSE 0
        /\ \A i \in 1..(y - x + 1) : SubSeq(t, x, y)[i] = t[x + i - 1]
    BY <1>1, SubSeqProperties
  <1>3. (IF x <= y THEN y - x + 1 ELSE 0) = y - x + 1
    OBVIOUS
  <1>4. QED BY <1>2, <1>3

\* The same as one statement.
IsPassage(u, S, t, x, y) ==
    u \in Seq(S) /\ Len(u) = y - x + 1 /\ \A i \in 1..(y - x + 1) : u[i] = t[x + i - 1]

\* A passage is one in this sense.
LEMMA PassageIsSo ==
    ASSUME NEW S, NEW t \in Seq(S), NEW x \in Nat \ {0}, NEW y \in Nat, x <= y + 1, y <= Len(t)
    PROVE  IsPassage(SubSeq(t, x, y), S, t, x, y)
  BY PassageIs DEF IsPassage

\* A passage of a passage is a passage.
LEMMA PassageOfPassage ==
    ASSUME NEW S, NEW t \in Seq(S), NEW x \in Nat \ {0}, NEW y \in Nat, x <= y + 1, y <= Len(t),
           NEW a \in Nat \ {0}, NEW b \in Nat, a <= b + 1, b <= y - x + 1
    PROVE  SubSeq(SubSeq(t, x, y), a, b) = SubSeq(t, x + a - 1, x + b - 1)
  <1> DEFINE u == SubSeq(t, x, y)
             v == SubSeq(u, a, b)
             w == SubSeq(t, x + a - 1, x + b - 1)
  <1>1. u \in Seq(S) /\ Len(u) = y - x + 1 /\ \A i \in 1..(y - x + 1) : u[i] = t[x + i - 1]
    BY PassageIs
  <1>2. v \in Seq(S) /\ Len(v) = b - a + 1 /\ \A i \in 1..(b - a + 1) : v[i] = u[a + i - 1]
    <2> HIDE DEF u
    <2>1. b <= Len(u)
      BY <1>1
    <2>2. QED BY <1>1, <2>1, PassageIs
  <1>3. w \in Seq(S) /\ Len(w) = b - a + 1 /\ \A i \in 1..(b - a + 1) : w[i] = t[x + a - 1 + i - 1]
    <2> DEFINE c == x + a - 1
               d == x + b - 1
    <2>1. c \in Nat \ {0} /\ d \in Nat /\ c <= d + 1 /\ d <= Len(t) /\ d - c + 1 = b - a + 1
      OBVIOUS
    <2> HIDE DEF c, d, u, v
    <2>2. IsPassage(SubSeq(t, c, d), S, t, c, d)
      BY <2>1, PassageIsSo
    <2>3. /\ SubSeq(t, c, d) \in Seq(S) /\ Len(SubSeq(t, c, d)) = d - c + 1
          /\ \A i \in 1..(d - c + 1) : SubSeq(t, c, d)[i] = t[c + i - 1]
      BY <2>2 DEF IsPassage
    <2>4. QED BY <2>1, <2>3 DEF c, d
  <1> HIDE DEF u, v, w
  <1>4. ASSUME NEW i \in 1..Len(v) PROVE v[i] = w[i]
    <2>1. i \in 1..(b - a + 1) /\ a + i - 1 \in 1..(y - x + 1) /\ x + (a + i - 1) - 1 = x + a - 1 + i - 1
      BY <1>2
    <2>2. v[i] = u[a + i - 1] /\ u[a + i - 1] = t[x + (a + i - 1) - 1]
      BY <1>1, <1>2, <2>1
    <2>3. w[i] = t[x + a - 1 + i - 1]
      BY <1>3, <2>1
    <2>4. QED BY <2>1, <2>2, <2>3
  <1>5. v = w
    BY <1>2, <1>3, <1>4, SeqEqual
  <1>6. QED BY <1>5 DEF u, v, w

\* A passage without the blanks at its ends: from its first character that is not blank to
\* its last.
IsStripped(u, t, x, y) ==
    \/ u = <<>> /\ \A p \in x..y : t[p] \in Blank
    \/ \E c, d \in x..y :
          /\ c <= d /\ t[c] \notin Blank /\ t[d] \notin Blank
          /\ \A p \in x..y : t[p] \notin Blank => c <= p /\ p <= d
          /\ u = SubSeq(t, c, d)

\* This is what Strip returns.
LEMMA StripIs ==
    ASSUME NEW S, NEW t \in Seq(S), NEW x \in Nat \ {0}, NEW y \in Nat, x <= y + 1, y <= Len(t)
    PROVE  IsStripped(Strip(SubSeq(t, x, y)), t, x, y)
  <1> DEFINE u == SubSeq(t, x, y)
             solid == {i \in DOMAIN u : u[i] \notin Blank}
  <1>1. u \in Seq(S) /\ Len(u) = y - x + 1 /\ \A i \in 1..(y - x + 1) : u[i] = t[x + i - 1]
    BY PassageIs
  <1>2. DOMAIN u = 1..(y - x + 1)
    BY <1>1
  <1>3. Strip(u) = IF solid = {} THEN <<>> ELSE SubSeq(u, Min(solid), Max(solid))
    BY DEF Strip
  <1> HIDE DEF u
  <1>4. \A i \in 1..(y - x + 1) : i \in solid <=> t[x + i - 1] \notin Blank
    BY <1>1, <1>2
  <1>5. \A p \in x..y : p - x + 1 \in 1..(y - x + 1) /\ x + (p - x + 1) - 1 = p
    OBVIOUS
  <1>6. CASE solid = {}
    <2>1. ASSUME NEW p \in x..y PROVE t[p] \in Blank
      <3>1. p - x + 1 \notin solid
        BY <1>6
      <3>2. t[x + (p - x + 1) - 1] \in Blank
        BY <3>1, <1>4, <1>5
      <3>3. QED BY <3>2, <1>5
    <2>2. QED BY <1>3, <1>6, <2>1 DEF IsStripped, u
  <1>7. CASE solid # {}
    <2>1. solid \subseteq 0..(y - x + 1) /\ solid \subseteq Nat /\ y - x + 1 \in Nat
      BY <1>2
    <2>2. \E i \in solid : \A j \in solid : i <= j
      <3> HIDE DEF solid
      <3>1. QED BY <1>7, <2>1, Least
    <2>3. \E i \in solid : \A j \in solid : j <= i
      <3> HIDE DEF solid
      <3>1. QED BY <1>7, <2>1, Greatest
    <2> DEFINE a == Min(solid)
               b == Max(solid)
    <2>4. a \in solid /\ \A j \in solid : a <= j
      <3> HIDE DEF solid
      <3>1. QED BY <2>2 DEF Min
    <2>5. b \in solid /\ \A j \in solid : j <= b
      <3>1. \E i \in solid : \A j \in solid : i >= j
        <4> HIDE DEF solid
        <4>1. PICK i \in solid : \A j \in solid : j <= i
          BY <2>3
        <4>2. \A j \in solid : i >= j
          BY <4>1, <2>1
        <4>3. QED BY <4>2
      <3> HIDE DEF solid
      <3>2. b \in solid /\ \A j \in solid : b >= j
        BY <3>1 DEF Max
      <3>3. QED BY <3>2, <2>1
    <2> HIDE DEF a, b
    <2>6. a \in 1..(y - x + 1) /\ b \in 1..(y - x + 1) /\ a <= b
      <3>1. a \in 1..(y - x + 1) /\ b \in 1..(y - x + 1)
        BY <1>2, <2>4, <2>5
      <3>2. a <= b
        BY <2>4, <2>5
      <3>3. QED BY <3>1, <3>2
    <2> DEFINE c == x + a - 1
               d == x + b - 1
    <2>7. c \in x..y /\ d \in x..y /\ c <= d
      BY <2>6
    <2>8. t[c] \notin Blank /\ t[d] \notin Blank
      BY <1>4, <2>4, <2>5, <2>6
    <2>9. ASSUME NEW p \in x..y, t[p] \notin Blank PROVE c <= p /\ p <= d
      <3>1. p - x + 1 \in solid
        BY <1>4, <1>5, <2>9
      <3>2. a <= p - x + 1 /\ p - x + 1 <= b
        BY <3>1, <2>4, <2>5
      <3>3. QED BY <3>2, <2>6
    <2>10. Strip(u) = SubSeq(u, a, b)
      BY <1>3, <1>7 DEF a, b
    <2>11. SubSeq(u, a, b) = SubSeq(t, c, d)
      <3>1. a \in Nat \ {0} /\ b \in Nat /\ a <= b + 1 /\ b <= y - x + 1
        BY <2>6
      <3>2. SubSeq(SubSeq(t, x, y), a, b) = SubSeq(t, x + a - 1, x + b - 1)
        BY <3>1, PassageOfPassage
      <3>3. QED BY <3>2 DEF u
    <2> HIDE DEF c, d
    <2>12. QED BY <2>7, <2>8, <2>9, <2>10, <2>11 DEF IsStripped, u
  <1>8. QED BY <1>6, <1>7


\* The longest a chunk can be.
Limit == ChunkSize + Overlap + 2

\* The chunks are passages of the text: the i-th is from a[i] to b[i].  They begin one after
\* the other, two share no more than the overlap, and before the place f, where the next
\* begins, no character is left out that is not blank.
IsCut(t, c, f, a, b) ==
    /\ \A i \in 1..Len(c) :
          /\ a[i] >= 1 /\ a[i] <= b[i] + 1 /\ b[i] <= Len(t) /\ b[i] - a[i] + 1 <= Limit
          /\ c[i] = SubSeq(t, a[i], b[i])
    /\ \A i, j \in 1..Len(c) : i < j => a[i] <= a[j] /\ b[i] - a[j] + 1 <= Overlap
    /\ \A i \in 1..Len(c) : a[i] <= f /\ b[i] - f + 1 <= Overlap
    /\ \A p \in 1..Len(t) :
          p < f /\ t[p] \notin Blank => \E i \in 1..Len(c) : a[i] <= p /\ p <= b[i]

Cut(t, c, f) ==
    /\ c \in Seq(Seq(Char))
    /\ \E a, b \in [1..Len(c) -> Nat] : IsCut(t, c, f, a, b)

\* No chunks are a cut up to where the text begins.
LEMMA CutNothing ==
    ASSUME NEW t \in Seq(Char), NEW c \in Seq(Seq(Char)), c = <<>>
    PROVE  Cut(t, c, 1)
  <1> DEFINE a == [i \in 1..0 |-> 0]
  <1>1. Len(c) = 0 /\ a \in [1..Len(c) -> Nat]
    OBVIOUS
  <1> HIDE DEF a
  <1>2. 1..Len(c) = {} /\ \A p \in 1..Len(t) : ~(p < 1)
    BY <1>1
  <1>3. IsCut(t, c, 1, a, a)
    BY <1>2 DEF IsCut
  <1>4. QED BY <1>1, <1>3 DEF Cut

\* Blanks may be passed over.
LEMMA CutMoves ==
    ASSUME NEW t \in Seq(Char), NEW c, NEW f \in Nat, NEW g \in Nat, Cut(t, c, f), f <= g,
           \A p \in 1..Len(t) : f <= p /\ p < g => t[p] \in Blank
    PROVE  Cut(t, c, g)
  <1>1. c \in Seq(Seq(Char)) /\ Len(c) \in Nat /\ Len(t) \in Nat
    BY DEF Cut
  <1>2. PICK a \in [1..Len(c) -> Nat], b \in [1..Len(c) -> Nat] : IsCut(t, c, f, a, b)
    BY DEF Cut
  <1>3. /\ \A i \in 1..Len(c) :
              /\ a[i] >= 1 /\ a[i] <= b[i] + 1 /\ b[i] <= Len(t) /\ b[i] - a[i] + 1 <= Limit
              /\ c[i] = SubSeq(t, a[i], b[i])
        /\ \A i, j \in 1..Len(c) : i < j => a[i] <= a[j] /\ b[i] - a[j] + 1 <= Overlap
        /\ \A i \in 1..Len(c) : a[i] <= f /\ b[i] - f + 1 <= Overlap
        /\ \A p \in 1..Len(t) :
              p < f /\ t[p] \notin Blank => \E i \in 1..Len(c) : a[i] <= p /\ p <= b[i]
    BY <1>2 DEF IsCut
  <1>4. ASSUME NEW i \in 1..Len(c) PROVE a[i] <= g /\ b[i] - g + 1 <= Overlap
    <2>1. a[i] \in Nat /\ b[i] \in Nat /\ a[i] <= f /\ b[i] - f + 1 <= Overlap /\ Overlap \in Nat
      BY <1>2, <1>3, SizeType
    <2>2. QED BY <2>1
  <1>5. ASSUME NEW p \in 1..Len(t), p < g, t[p] \notin Blank
        PROVE  \E i \in 1..Len(c) : a[i] <= p /\ p <= b[i]
    <2>1. ~(f <= p)
      BY <1>5
    <2>2. p < f
      BY <2>1
    <2>3. QED BY <2>2, <1>3, <1>5
  <1>6. IsCut(t, c, g, a, b)
    BY <1>3, <1>4, <1>5 DEF IsCut
  <1>7. QED BY <1>1, <1>2, <1>6 DEF Cut

\* A chunk more, from where it begins, and the place where the next one begins.
LEMMA CutAppend ==
    ASSUME NEW t \in Seq(Char), NEW c, NEW f \in Nat \ {0}, Cut(t, c, f),
           NEW y \in Nat, f <= y + 1, y <= Len(t), y - f + 1 <= Limit,
           NEW g \in Nat, f <= g, y - g + 1 <= Overlap,
           \A p \in 1..Len(t) : y < p /\ p < g => t[p] \in Blank
    PROVE  Cut(t, Append(c, SubSeq(t, f, y)), g)
  <1> DEFINE w == SubSeq(t, f, y)
             d == Append(c, w)
             m == Len(c)
  <1>1. c \in Seq(Seq(Char)) /\ m \in Nat /\ Len(t) \in Nat /\ Overlap \in Nat
    BY SizeType DEF Cut
  <1>2. PICK a \in [1..m -> Nat], b \in [1..m -> Nat] : IsCut(t, c, f, a, b)
    BY DEF Cut
  <1>3. /\ \A i \in 1..m :
              /\ a[i] >= 1 /\ a[i] <= b[i] + 1 /\ b[i] <= Len(t) /\ b[i] - a[i] + 1 <= Limit
              /\ c[i] = SubSeq(t, a[i], b[i])
        /\ \A i, j \in 1..m : i < j => a[i] <= a[j] /\ b[i] - a[j] + 1 <= Overlap
        /\ \A i \in 1..m : a[i] <= f /\ b[i] - f + 1 <= Overlap
        /\ \A p \in 1..Len(t) :
              p < f /\ t[p] \notin Blank => \E i \in 1..m : a[i] <= p /\ p <= b[i]
    BY <1>2 DEF IsCut
  <1>4. w \in Seq(Char)
    BY PassageIs
  <1> HIDE DEF w
  <1>5. d \in Seq(Seq(Char)) /\ Len(d) = m + 1 /\ d[m+1] = w /\ \A i \in 1..m : d[i] = c[i]
    <2>1. d \in Seq(Seq(Char)) /\ Len(d) = m + 1
      BY <1>1, <1>4, AppendMore, Zenon
    <2>2. d[m+1] = w /\ \A i \in 1..m : d[i] = c[i]
      BY <1>1, <1>4
    <2>3. QED BY <2>1, <2>2
  <1> DEFINE aa == [i \in 1..(m+1) |-> IF i <= m THEN a[i] ELSE f]
             bb == [i \in 1..(m+1) |-> IF i <= m THEN b[i] ELSE y]
  <1>6. aa \in [1..(m+1) -> Nat] /\ bb \in [1..(m+1) -> Nat]
    BY <1>1
  <1>7. aa[m+1] = f /\ bb[m+1] = y /\ \A i \in 1..m : aa[i] = a[i] /\ bb[i] = b[i]
    BY <1>1
  <1>8. \A i \in 1..(m+1) : i \in 1..m \/ i = m + 1
    BY <1>1
  <1> HIDE DEF aa, bb, d, m
  <1>9. ASSUME NEW i \in 1..(m+1)
        PROVE  /\ aa[i] >= 1 /\ aa[i] <= bb[i] + 1 /\ bb[i] <= Len(t) /\ bb[i] - aa[i] + 1 <= Limit
               /\ d[i] = SubSeq(t, aa[i], bb[i])
    <2>1. CASE i \in 1..m
      BY <2>1, <1>3, <1>5, <1>7
    <2>2. CASE i = m + 1
      <3>1. aa[i] = f /\ bb[i] = y /\ d[i] = w
        BY <2>2, <1>5, <1>7
      <3>2. QED BY <3>1 DEF w
    <2>3. QED BY <2>1, <2>2, <1>8
  <1>10. ASSUME NEW i \in 1..(m+1), NEW j \in 1..(m+1), i < j
         PROVE  aa[i] <= aa[j] /\ bb[i] - aa[j] + 1 <= Overlap
    <2>1. i \in 1..m
      BY <1>10, <1>1
    <2>2. CASE j \in 1..m
      BY <2>1, <2>2, <1>3, <1>7, <1>10
    <2>3. CASE j = m + 1
      <3>1. aa[j] = f /\ aa[i] = a[i] /\ bb[i] = b[i]
        BY <2>1, <2>3, <1>7
      <3>2. QED BY <3>1, <2>1, <1>3
    <2>4. QED BY <2>2, <2>3, <1>8
  <1>11. ASSUME NEW i \in 1..(m+1) PROVE aa[i] <= g /\ bb[i] - g + 1 <= Overlap
    <2>1. CASE i \in 1..m
      <3>1. aa[i] = a[i] /\ bb[i] = b[i] /\ a[i] \in Nat /\ b[i] \in Nat
        BY <2>1, <1>2, <1>7
      <3>2. a[i] <= f /\ b[i] - f + 1 <= Overlap
        BY <2>1, <1>3
      <3>3. QED BY <3>1, <3>2, <1>1, SMTT(30)
    <2>2. CASE i = m + 1
      BY <2>2, <1>7
    <2>3. QED BY <2>1, <2>2, <1>8
  <1>12. ASSUME NEW p \in 1..Len(t), p < g, t[p] \notin Blank
         PROVE  \E i \in 1..(m+1) : aa[i] <= p /\ p <= bb[i]
    <2>1. CASE p < f
      <3>1. PICK i \in 1..m : a[i] <= p /\ p <= b[i]
        BY <2>1, <1>3, <1>12
      <3>2. i \in 1..(m+1) /\ aa[i] = a[i] /\ bb[i] = b[i]
        BY <1>1, <1>7
      <3>3. QED BY <3>1, <3>2
    <2>2. CASE ~(p < f)
      <3>1. ~(y < p)
        BY <1>12
      <3>2. f <= p /\ p <= y
        BY <2>2, <3>1
      <3>3. m + 1 \in 1..(m+1)
        BY <1>1
      <3>4. QED BY <3>2, <3>3, <1>7
    <2>3. QED BY <2>1, <2>2
  <1>13. IsCut(t, d, g, aa, bb)
    BY <1>5, <1>9, <1>10, <1>11, <1>12 DEF IsCut
  <1>14. Cut(t, d, g)
    BY <1>5, <1>6, <1>13 DEF Cut
  <1>15. QED BY <1>14 DEF d, w

\* The chunks of a passage.
CutWithin(t, x, y, c) == Cut(SubSeq(t, x, y), c, y - x + 2)

\* Those of the passage that comes next.
LEMMA CutGrows ==
    ASSUME NEW t \in Seq(Char), NEW c, NEW f \in Nat \ {0}, Cut(t, c, f),
           NEW y \in Nat, f <= y + 1, y <= Len(t),
           NEW e, CutWithin(t, f, y, e)
    PROVE  Cut(t, c \o e, y + 1)
  <1> DEFINE u == SubSeq(t, f, y)
             d == c \o e
             m == Len(c)
             n == Len(e)
  <1>1. /\ c \in Seq(Seq(Char)) /\ e \in Seq(Seq(Char)) /\ m \in Nat /\ n \in Nat
        /\ Len(t) \in Nat /\ Overlap \in Nat
    BY SizeType DEF Cut, CutWithin
  <1>2. m \in Nat /\ n \in Nat /\ Len(t) \in Nat /\ Overlap \in Nat
    BY <1>1
  <1>3. PICK a \in [1..m -> Nat], b \in [1..m -> Nat] : IsCut(t, c, f, a, b)
    BY DEF Cut
  <1>4. /\ \A i \in 1..m :
              /\ a[i] >= 1 /\ a[i] <= b[i] + 1 /\ b[i] <= Len(t) /\ b[i] - a[i] + 1 <= Limit
              /\ c[i] = SubSeq(t, a[i], b[i])
        /\ \A i, j \in 1..m : i < j => a[i] <= a[j] /\ b[i] - a[j] + 1 <= Overlap
        /\ \A i \in 1..m : a[i] <= f /\ b[i] - f + 1 <= Overlap
        /\ \A p \in 1..Len(t) :
              p < f /\ t[p] \notin Blank => \E i \in 1..m : a[i] <= p /\ p <= b[i]
    BY <1>3 DEF IsCut
  <1>5. u \in Seq(Char) /\ Len(u) = y - f + 1 /\ \A q \in 1..(y - f + 1) : u[q] = t[f + q - 1]
    BY PassageIs
  <1>6. PICK k \in [1..n -> Nat], l \in [1..n -> Nat] : IsCut(u, e, y - f + 2, k, l)
    BY DEF Cut, CutWithin
  <1> HIDE DEF u
  <1>7. /\ \A i \in 1..n :
              /\ k[i] >= 1 /\ k[i] <= l[i] + 1 /\ l[i] <= y - f + 1 /\ l[i] - k[i] + 1 <= Limit
              /\ e[i] = SubSeq(u, k[i], l[i])
        /\ \A i, j \in 1..n : i < j => k[i] <= k[j] /\ l[i] - k[j] + 1 <= Overlap
        /\ \A q \in 1..(y - f + 1) :
              q < y - f + 2 /\ u[q] \notin Blank => \E i \in 1..n : k[i] <= q /\ q <= l[i]
    BY <1>5, <1>6 DEF IsCut
  <1>8. /\ d \in Seq(Seq(Char)) /\ Len(d) = m + n
        /\ (\A i \in 1..m : d[i] = c[i]) /\ (\A i \in 1..n : d[m + i] = e[i])
    BY <1>1, SMTT(30)
  <1> DEFINE aa == [i \in 1..(m+n) |-> IF i <= m THEN a[i] ELSE k[i-m] + f - 1]
             bb == [i \in 1..(m+n) |-> IF i <= m THEN b[i] ELSE l[i-m] + f - 1]
  <1>9. aa \in [1..(m+n) -> Nat] /\ bb \in [1..(m+n) -> Nat]
    <2>1. ASSUME NEW i \in 1..(m+n), ~(i <= m) PROVE k[i-m] + f - 1 \in Nat /\ l[i-m] + f - 1 \in Nat
      <3>1. i - m \in 1..n
        BY <2>1, <1>1
      <3>2. k[i-m] \in Nat /\ l[i-m] \in Nat
        BY <3>1
      <3>3. QED BY <3>2, SMTT(30)
    <2>2. ASSUME NEW i \in 1..(m+n), i <= m PROVE a[i] \in Nat /\ b[i] \in Nat
      <3>1. i \in 1..m
        BY <2>2, <1>1
      <3>2. QED BY <3>1
    <2>3. QED BY <2>1, <2>2
  <1>10. /\ \A i \in 1..m : aa[i] = a[i] /\ bb[i] = b[i] /\ a[i] \in Nat /\ b[i] \in Nat
        /\ \A i \in 1..n : /\ aa[m+i] = k[i] + f - 1 /\ bb[m+i] = l[i] + f - 1
                           /\ k[i] \in Nat /\ l[i] \in Nat
    <2>1. \A i \in 1..m : i \in 1..(m+n) /\ i <= m
      BY <1>1
    <2>2. \A i \in 1..n : m + i \in 1..(m+n) /\ ~(m + i <= m) /\ (m + i) - m = i
      BY <1>1
    <2> HIDE DEF m, n
    <2>3. QED BY <2>1, <2>2
  <1>11. \A i \in 1..(m+n) : i \in 1..m \/ \E j \in 1..n : i = m + j
    <2>1. ASSUME NEW i \in 1..(m+n), i \notin 1..m PROVE \E j \in 1..n : i = m + j
      <3>1. i - m \in 1..n /\ i = m + (i - m)
        BY <2>1, <1>1
      <3>2. QED BY <3>1
    <2>2. QED BY <2>1
  <1> HIDE DEF aa, bb, d, m, n
  <1>12. ASSUME NEW i \in 1..(m+n)
         PROVE  /\ aa[i] >= 1 /\ aa[i] <= bb[i] + 1 /\ bb[i] <= Len(t) /\ bb[i] - aa[i] + 1 <= Limit
                /\ d[i] = SubSeq(t, aa[i], bb[i])
    <2>1. CASE i \in 1..m
      BY <2>1, <1>4, <1>8, <1>10
    <2>2. ASSUME NEW j \in 1..n, i = m + j
          PROVE /\ aa[i] >= 1 /\ aa[i] <= bb[i] + 1 /\ bb[i] <= Len(t) /\ bb[i] - aa[i] + 1 <= Limit
                /\ d[i] = SubSeq(t, aa[i], bb[i])
      <3>1. aa[i] = k[j] + f - 1 /\ bb[i] = l[j] + f - 1 /\ d[i] = e[j] /\ k[j] \in Nat /\ l[j] \in Nat
        BY <2>2, <1>8, <1>10
      <3>2. /\ k[j] >= 1 /\ k[j] <= l[j] + 1 /\ l[j] <= y - f + 1 /\ l[j] - k[j] + 1 <= Limit
            /\ e[j] = SubSeq(u, k[j], l[j])
        BY <1>7
      <3>3. SubSeq(u, k[j], l[j]) = SubSeq(t, f + k[j] - 1, f + l[j] - 1)
        <4>1. k[j] \in Nat \ {0}
          BY <3>1, <3>2
        <4>2. SubSeq(SubSeq(t, f, y), k[j], l[j]) = SubSeq(t, f + k[j] - 1, f + l[j] - 1)
          <5>1. ASSUME NEW g \in Nat \ {0}, NEW h \in Nat, g <= h + 1, h <= y - f + 1
                PROVE  SubSeq(SubSeq(t, f, y), g, h) = SubSeq(t, f + g - 1, f + h - 1)
            BY <5>1, PassageOfPassage
          <5>2. QED BY <3>1, <3>2, <4>1, <5>1
        <4>3. QED BY <4>2 DEF u
      <3>4. f + k[j] - 1 = aa[i] /\ f + l[j] - 1 = bb[i]
        BY <3>1
      <3>5. d[i] = SubSeq(t, aa[i], bb[i])
        BY <3>1, <3>2, <3>3, <3>4
      <3>6. aa[i] >= 1 /\ aa[i] <= bb[i] + 1 /\ bb[i] <= Len(t)
        <4>1. k[j] + f - 1 >= 1 /\ k[j] + f - 1 <= l[j] + f - 1 + 1 /\ l[j] + f - 1 <= Len(t)
          BY <3>1, <3>2, <1>2, SMTT(30)
        <4>2. QED BY <3>1, <4>1
      <3>7. bb[i] - aa[i] = l[j] - k[j]
        BY <3>1
      <3>8. QED BY <3>2, <3>5, <3>6, <3>7
    <2>3. QED BY <2>1, <2>2, <1>11
  <1>13. ASSUME NEW i \in 1..(m+n), NEW j \in 1..(m+n), i < j
         PROVE  aa[i] <= aa[j] /\ bb[i] - aa[j] + 1 <= Overlap
    <2>1. CASE j \in 1..m
      <3>1. i \in 1..m
        BY <2>1, <1>1, <1>13
      <3>2. a[i] <= a[j] /\ b[i] - a[j] + 1 <= Overlap
        BY <2>1, <3>1, <1>4, <1>13
      <3>3. QED BY <2>1, <3>1, <3>2, <1>10
    <2>2. ASSUME NEW q \in 1..n, j = m + q PROVE aa[i] <= aa[j] /\ bb[i] - aa[j] + 1 <= Overlap
      <3>1. aa[j] = k[q] + f - 1 /\ k[q] \in Nat /\ k[q] >= 1
        BY <2>2, <1>7, <1>10
      <3>2. CASE i \in 1..m
        <4>1. a[i] <= f /\ b[i] - f + 1 <= Overlap /\ aa[i] = a[i] /\ bb[i] = b[i] /\ a[i] \in Nat /\ b[i] \in Nat
          BY <3>2, <1>4, <1>10
        <4>2. a[i] <= k[q] + f - 1 /\ b[i] - (k[q] + f - 1) + 1 <= Overlap
          <5>1. ASSUME NEW A \in Nat, NEW B \in Nat, NEW K \in Nat, NEW O \in Nat,
                       A <= f, B - f + 1 <= O, K >= 1
                PROVE  A <= K + f - 1 /\ B - (K + f - 1) + 1 <= O
            BY <5>1
          <5>2. QED BY <3>1, <4>1, <1>2, <5>1
        <4>3. QED BY <3>1, <4>1, <4>2
      <3>3. ASSUME NEW h \in 1..n, i = m + h PROVE aa[i] <= aa[j] /\ bb[i] - aa[j] + 1 <= Overlap
        <4>1. h < q
          BY <1>1, <1>13, <2>2, <3>3
        <4>2. k[h] <= k[q] /\ l[h] - k[q] + 1 <= Overlap
          BY <4>1, <1>7
        <4>3. aa[i] = k[h] + f - 1 /\ bb[i] = l[h] + f - 1 /\ k[h] \in Nat /\ l[h] \in Nat
          BY <3>3, <1>10
        <4>4. k[h] + f - 1 <= k[q] + f - 1 /\ (l[h] + f - 1) - (k[q] + f - 1) + 1 <= Overlap
          <5>1. ASSUME NEW H \in Nat, NEW L \in Nat, NEW K \in Nat, NEW O \in Nat,
                       H <= K, L - K + 1 <= O
                PROVE  H + f - 1 <= K + f - 1 /\ (L + f - 1) - (K + f - 1) + 1 <= O
            BY <5>1
          <5>2. QED BY <3>1, <4>2, <4>3, <1>2, <5>1
        <4>5. QED BY <3>1, <4>3, <4>4
      <3>4. QED BY <3>2, <3>3, <1>11
    <2>3. QED BY <2>1, <2>2, <1>11
  <1>14. ASSUME NEW i \in 1..(m+n) PROVE aa[i] <= y + 1 /\ bb[i] - (y + 1) + 1 <= Overlap
    <2>1. CASE i \in 1..m
      <3>1. a[i] <= f /\ b[i] - f + 1 <= Overlap /\ aa[i] = a[i] /\ bb[i] = b[i] /\ a[i] \in Nat /\ b[i] \in Nat
        BY <2>1, <1>4, <1>10
      <3>2. a[i] <= y + 1 /\ b[i] - (y + 1) + 1 <= Overlap
        BY <3>1, <1>2, SMTT(30)
      <3>3. QED BY <3>1, <3>2
    <2>2. ASSUME NEW j \in 1..n, i = m + j PROVE aa[i] <= y + 1 /\ bb[i] - (y + 1) + 1 <= Overlap
      <3>1. aa[i] = k[j] + f - 1 /\ bb[i] = l[j] + f - 1 /\ k[j] \in Nat /\ l[j] \in Nat
        BY <2>2, <1>10
      <3>2. k[j] <= l[j] + 1 /\ l[j] <= y - f + 1
        BY <1>7
      <3>3. k[j] + f - 1 <= y + 1 /\ l[j] + f - 1 - (y + 1) + 1 <= Overlap
        <4>1. ASSUME NEW K \in Nat, NEW L \in Nat, NEW O \in Nat, K <= L + 1, L <= y - f + 1
              PROVE  K + f - 1 <= y + 1 /\ L + f - 1 - (y + 1) + 1 <= O
          BY <4>1
        <4>2. QED BY <3>1, <3>2, <1>2, <4>1
      <3>4. QED BY <3>1, <3>3
    <2>3. QED BY <2>1, <2>2, <1>11
  <1>15. ASSUME NEW p \in 1..Len(t), p < y + 1, t[p] \notin Blank
         PROVE  \E i \in 1..(m+n) : aa[i] <= p /\ p <= bb[i]
    <2>1. CASE p < f
      <3>1. PICK i \in 1..m : a[i] <= p /\ p <= b[i]
        BY <2>1, <1>4, <1>15
      <3>2. i \in 1..(m+n) /\ aa[i] = a[i] /\ bb[i] = b[i]
        BY <1>1, <1>10
      <3>3. QED BY <3>1, <3>2
    <2>2. CASE ~(p < f)
      <3>1. p - f + 1 \in 1..(y - f + 1) /\ p - f + 1 < y - f + 2 /\ f + (p - f + 1) - 1 = p
        BY <2>2, <1>15
      <3>2. u[p - f + 1] \notin Blank
        BY <3>1, <1>5, <1>15
      <3>3. PICK i \in 1..n : k[i] <= p - f + 1 /\ p - f + 1 <= l[i]
        BY <3>1, <3>2, <1>7
      <3>4. m + i \in 1..(m+n) /\ aa[m+i] = k[i] + f - 1 /\ bb[m+i] = l[i] + f - 1 /\ k[i] \in Nat /\ l[i] \in Nat
        BY <1>1, <1>10
      <3>5. aa[m+i] <= p /\ p <= bb[m+i]
        BY <3>3, <3>4
      <3>6. QED BY <3>4, <3>5
    <2>3. QED BY <2>1, <2>2
  <1>16. IsCut(t, d, y + 1, aa, bb)
    BY <1>8, <1>12, <1>13, <1>14, <1>15 DEF IsCut
  <1>17. Cut(t, d, y + 1)
    BY <1>8, <1>9, <1>16 DEF Cut
  <1>18. QED BY <1>17 DEF d


\* The chunks of a whole text, each of which begins with a character that is not blank.
IsSolidCut(t, c, a, b) ==
    /\ IsCut(t, c, Len(t) + 1, a, b)
    /\ \A i \in 1..Len(c) : a[i] <= b[i] /\ t[a[i]] \notin Blank

SolidCut(t, c) ==
    /\ c \in Seq(Seq(Char))
    /\ \E a, b \in [1..Len(c) -> Nat] : IsSolidCut(t, c, a, b)

\* It is a cut.
LEMMA SolidIsCut ==
    ASSUME NEW t \in Seq(Char), NEW c, SolidCut(t, c)
    PROVE  Cut(t, c, Len(t) + 1)
  BY DEF SolidCut, Cut, IsSolidCut

\* What is left of a passage whose ends are stripped.
IsCore(u, t, x, y, e, f) ==
    /\ e \in x..y /\ f \in x..y /\ e <= f /\ t[e] \notin Blank /\ t[f] \notin Blank
    /\ \A p \in x..y : t[p] \notin Blank => e <= p /\ p <= f
    /\ u = SubSeq(t, e, f)

\* A passage is blank, or something is left of it.
LEMMA CoreOrNothing ==
    ASSUME NEW t \in Seq(Char), NEW x \in Nat \ {0}, NEW y \in Nat, x <= y + 1, y <= Len(t), NEW u,
           u = Strip(SubSeq(t, x, y))
    PROVE  /\ u \in Seq(Char)
           /\ u = <<>> => \A p \in x..y : t[p] \in Blank
           /\ u # <<>> => \E e, f \in Nat : IsCore(u, t, x, y, e, f)
  <1>1. IsStripped(u, t, x, y)
    BY StripIs
  <1>2. CASE u = <<>> /\ \A p \in x..y : t[p] \in Blank
    BY <1>2
  <1>3. ASSUME NEW e \in x..y, NEW f \in x..y, e <= f, t[e] \notin Blank, t[f] \notin Blank,
               \A p \in x..y : t[p] \notin Blank => e <= p /\ p <= f, u = SubSeq(t, e, f)
        PROVE  u \in Seq(Char) /\ u # <<>> /\ \E g, h \in Nat : IsCore(u, t, x, y, g, h)
    <2>1. e \in Nat \ {0} /\ f \in Nat /\ e <= f + 1 /\ f <= Len(t)
      BY <1>3
    <2>2. SubSeq(t, e, f) \in Seq(Char) /\ Len(SubSeq(t, e, f)) = f - e + 1
      BY <2>1, PassageIs
    <2>3. Len(u) # 0 /\ u \in Seq(Char)
      BY <1>3, <2>1, <2>2
    <2>4. IsCore(u, t, x, y, e, f)
      BY <1>3 DEF IsCore
    <2>5. QED BY <2>1, <2>3, <2>4
  <1>4. QED
    <2>1. \/ u = <<>> /\ \A p \in x..y : t[p] \in Blank
          \/ \E e, f \in x..y :
                /\ e <= f /\ t[e] \notin Blank /\ t[f] \notin Blank
                /\ \A p \in x..y : t[p] \notin Blank => e <= p /\ p <= f
                /\ u = SubSeq(t, e, f)
      BY <1>1 DEF IsStripped
    <2>2. QED BY <1>2, <1>3, <2>1

\* The chunks of a text without the blanks at their ends, and without those that had
\* nothing else.
LEMMA NonEmptyCut ==
    ASSUME NEW t \in Seq(Char), NEW c, NEW g \in Nat, g > Len(t), Cut(t, c, g)
    PROVE  SolidCut(t, NonEmpty(c))
  <1> DEFINE m == Len(c)
             s == [i \in DOMAIN c |-> Strip(c[i])]
             P == {i \in DOMAIN s : s[i] # <<>>}
             d == Picked(s, P)
  <1>1. c \in Seq(Seq(Char)) /\ m \in Nat /\ Len(t) \in Nat /\ Overlap \in Nat
    BY SizeType DEF Cut
  <1>2. PICK a \in [1..m -> Nat], b \in [1..m -> Nat] : IsCut(t, c, g, a, b)
    BY DEF Cut
  <1>3. /\ \A i \in 1..m :
              /\ a[i] >= 1 /\ a[i] <= b[i] + 1 /\ b[i] <= Len(t) /\ b[i] - a[i] + 1 <= Limit
              /\ c[i] = SubSeq(t, a[i], b[i])
        /\ \A i, j \in 1..m : i < j => a[i] <= a[j] /\ b[i] - a[j] + 1 <= Overlap
        /\ \A p \in 1..Len(t) :
              t[p] \notin Blank => \E i \in 1..m : a[i] <= p /\ p <= b[i]
    <2>1. \A p \in 1..Len(t) : p < g
      BY <1>1
    <2>2. QED BY <1>2, <2>1 DEF IsCut
  <1>4. NonEmpty(c) = d
    BY DEF NonEmpty
  <1>5. DOMAIN s = 1..m /\ \A i \in 1..m : s[i] = Strip(c[i])
    BY <1>1
  <1> HIDE DEF s
  <1>6. ASSUME NEW i \in 1..m
        PROVE  /\ s[i] \in Seq(Char)
               /\ s[i] = <<>> => \A p \in a[i]..b[i] : t[p] \in Blank
               /\ s[i] # <<>> => \E e, f \in Nat : IsCore(s[i], t, a[i], b[i], e, f)
    <2>1. a[i] \in Nat \ {0} /\ b[i] \in Nat /\ a[i] <= b[i] + 1 /\ b[i] <= Len(t)
      BY <1>3
    <2>2. s[i] = Strip(SubSeq(t, a[i], b[i]))
      BY <1>3, <1>5
    <2>3. QED BY <2>1, <2>2, CoreOrNothing
  <1>7. s \in Seq(Seq(Char)) /\ Len(s) = m
    <2>1. s = [i \in 1..m |-> s[i]]
      BY <1>5 DEF s
    <2>2. s \in [1..m -> Seq(Char)]
      BY <2>1, <1>6
    <2>3. m \in Nat
      BY <1>1
    <2>4. ASSUME NEW V, s \in [1..m -> V] PROVE s \in Seq(V) /\ Len(s) = m
      <3> HIDE DEF m
      <3>1. QED BY <2>4, <2>3
    <2>5. QED BY <2>2, <2>4
  <1>8. PICK n \in 0..Len(s) : \E p \in [1..n -> 1..Len(s)] : IsPickOf(d, n, p, s, P)
    <2> HIDE DEF P
    <2>1. QED BY <1>7, PickedPositions, Zenon
  <1>9. PICK p \in [1..n -> 1..m] : IsPickOf(d, n, p, s, P)
    BY <1>7, <1>8
  <1>10. n \in Nat /\ d \in Seq(Seq(Char))
    <2> HIDE DEF P
    <2>1. QED BY <1>7, <1>8, PickedType
  <1>11. /\ \A j, k \in 1..n : j < k => p[j] < p[k]
         /\ \A i \in 1..m : s[i] # <<>> => \E k \in 1..n : p[k] = i
         /\ \A k \in 1..n : p[k] \in 1..m /\ s[p[k]] # <<>>
         /\ d = [k \in 1..n |-> s[p[k]]]
    <2>1. /\ \A j, k \in 1..n : j < k => p[j] < p[k]
          /\ \A i \in 1..m : i \in P <=> \E k \in 1..n : p[k] = i
          /\ d = [k \in 1..n |-> s[p[k]]]
      <3> HIDE DEF P, d
      <3>1. QED BY <1>7, <1>9 DEF IsPickOf
    <2>2. \A i \in 1..m : i \in P <=> s[i] # <<>>
      BY <1>5
    <2>3. \A k \in 1..n : p[k] \in 1..m
      BY <1>9
    <2> HIDE DEF P, d
    <2>4. \A k \in 1..n : s[p[k]] # <<>>
      BY <2>1, <2>2, <2>3
    <2>5. QED BY <2>1, <2>2, <2>3, <2>4
  <1> HIDE DEF d
  <1>12. Len(d) = n /\ \A k \in 1..n : d[k] = s[p[k]]
    BY <1>10, <1>11
  <1> DEFINE Core(k, e, f) == IsCore(s[p[k]], t, a[p[k]], b[p[k]], e, f)
             first(k) == CHOOSE e \in Nat : \E f \in Nat : Core(k, e, f)
             lo == [k \in 1..n |-> first(k)]
             last(k) == CHOOSE f \in Nat : Core(k, lo[k], f)
             hi == [k \in 1..n |-> last(k)]
  <1>13. ASSUME NEW k \in 1..n PROVE lo[k] \in Nat /\ hi[k] \in Nat /\ Core(k, lo[k], hi[k])
    <2>1. \E e \in Nat : \E f \in Nat : Core(k, e, f)
      <3>1. p[k] \in 1..m /\ s[p[k]] # <<>>
        BY <1>11
      <3>2. QED BY <3>1, <1>6
    <2> HIDE DEF Core
    <2>2. lo[k] \in Nat /\ \E f \in Nat : Core(k, lo[k], f)
      BY <2>1
    <2> HIDE DEF lo
    <2>3. hi[k] \in Nat /\ Core(k, lo[k], hi[k])
      BY <2>2
    <2>4. QED BY <2>2, <2>3
  <1>14. lo \in [1..n -> Nat] /\ hi \in [1..n -> Nat]
    <2>1. \A k \in 1..n : lo[k] = first(k)
      <3> HIDE DEF first
      <3>1. QED OBVIOUS
    <2>2. \A k \in 1..n : hi[k] = last(k)
      <3> HIDE DEF last
      <3>1. QED OBVIOUS
    <2>3. \A k \in 1..n : lo[k] \in Nat /\ hi[k] \in Nat
      BY <1>13
    <2> HIDE DEF first, last, Core
    <2>4. QED BY <2>1, <2>2, <2>3
  <1> HIDE DEF lo, hi
  <1>15. ASSUME NEW k \in 1..n
         PROVE  /\ p[k] \in 1..m /\ lo[k] \in Nat /\ hi[k] \in Nat
                /\ a[p[k]] \in Nat /\ b[p[k]] \in Nat
                /\ a[p[k]] <= lo[k] /\ lo[k] <= hi[k] /\ hi[k] <= b[p[k]]
                /\ t[lo[k]] \notin Blank /\ t[hi[k]] \notin Blank
                /\ \A q \in Nat : a[p[k]] <= q /\ q <= b[p[k]] /\ t[q] \notin Blank => lo[k] <= q /\ q <= hi[k]
                /\ d[k] = SubSeq(t, lo[k], hi[k])
    <2>1. p[k] \in 1..m /\ d[k] = s[p[k]]
      BY <1>11, <1>12
    <2>2. a[p[k]] \in Nat /\ b[p[k]] \in Nat
      BY <2>1
    <2>3. /\ lo[k] \in a[p[k]]..b[p[k]] /\ hi[k] \in a[p[k]]..b[p[k]] /\ lo[k] <= hi[k]
          /\ t[lo[k]] \notin Blank /\ t[hi[k]] \notin Blank
          /\ \A q \in a[p[k]]..b[p[k]] : t[q] \notin Blank => lo[k] <= q /\ q <= hi[k]
          /\ s[p[k]] = SubSeq(t, lo[k], hi[k])
      BY <1>13 DEF IsCore
    <2>4. \A q \in Nat : a[p[k]] <= q /\ q <= b[p[k]] => q \in a[p[k]]..b[p[k]]
      BY <2>2
    <2>5. a[p[k]] <= lo[k] /\ hi[k] <= b[p[k]]
      BY <2>2, <2>3
    <2>6. QED BY <2>1, <2>2, <2>3, <2>4, <2>5, <1>13
  <1> HIDE DEF Core
  <1>16. ASSUME NEW k \in 1..n
         PROVE  /\ lo[k] >= 1 /\ lo[k] <= hi[k] + 1 /\ hi[k] <= Len(t) /\ hi[k] - lo[k] + 1 <= Limit
                /\ d[k] = SubSeq(t, lo[k], hi[k])
    <2> DEFINE x == a[p[k]]
               y == b[p[k]]
    <2>1. x \in Nat /\ y \in Nat /\ x >= 1 /\ y <= Len(t) /\ y - x + 1 <= Limit
      BY <1>3, <1>15
    <2>2. lo[k] \in Nat /\ hi[k] \in Nat /\ x <= lo[k] /\ lo[k] <= hi[k] /\ hi[k] <= y
      BY <1>15
    <2> HIDE DEF x, y
    <2>3. Limit \in Int
      BY SizeType DEF Limit
    <2>4. ASSUME NEW v \in Nat, NEW h \in Nat, NEW l \in Int, NEW z \in Nat,
                 x <= v, v <= h, h <= y, y - x + 1 <= l, y <= z
          PROVE  v >= 1 /\ v <= h + 1 /\ h <= z /\ h - v + 1 <= l
      BY <2>1, <2>4
    <2>5. QED BY <1>1, <1>15, <2>1, <2>2, <2>3, <2>4
  <1>17. ASSUME NEW i \in 1..n, NEW j \in 1..n, i < j
         PROVE  lo[i] <= lo[j] /\ hi[i] - lo[j] + 1 <= Overlap
    <2>1. p[i] < p[j] /\ p[i] \in 1..m /\ p[j] \in 1..m
      BY <1>11, <1>17
    <2>2. a[p[i]] <= a[p[j]] /\ b[p[i]] - a[p[j]] + 1 <= Overlap
      BY <2>1, <1>3
    <2>3. /\ a[p[i]] \in Nat /\ b[p[i]] \in Nat /\ lo[i] \in Nat /\ hi[i] \in Nat
          /\ lo[i] <= hi[i] /\ hi[i] <= b[p[i]]
      BY <1>15
    <2>4. a[p[j]] \in Nat /\ lo[j] \in Nat /\ a[p[j]] <= lo[j] /\ t[lo[j]] \notin Blank
      BY <1>15
    <2>5. CASE lo[j] <= b[p[i]]
      <3>1. ASSUME NEW x \in Nat, NEW y \in Nat, NEW z \in Nat, x <= y, y <= z PROVE x <= z
        BY <3>1
      <3>2. a[p[i]] <= lo[j]
        BY <2>2, <2>3, <2>4, <3>1
      <3>3. lo[i] <= lo[j]
        BY <2>4, <2>5, <3>2, <1>15
      <3>4. ASSUME NEW h \in Nat, NEW y \in Nat, NEW x \in Nat, NEW l \in Nat,
                   h <= y, y - x + 1 <= Overlap, x <= l
            PROVE  h - l + 1 <= Overlap
        BY <3>4, <1>1
      <3>5. QED BY <3>3, <3>4, <2>2, <2>3, <2>4
    <2>6. CASE ~(lo[j] <= b[p[i]])
      <3>1. ASSUME NEW v \in Nat, NEW h \in Nat, NEW y \in Nat, NEW l \in Nat, NEW o \in Nat,
                   v <= h, h <= y, ~(l <= y)
            PROVE  v <= l /\ h - l + 1 <= o
        BY <3>1
      <3>2. QED BY <3>1, <2>3, <2>4, <2>6, <1>1, ZenonT(30)
    <2>7. QED BY <2>5, <2>6
  <1>18. ASSUME NEW i \in 1..n PROVE lo[i] <= Len(t) + 1 /\ hi[i] - (Len(t) + 1) + 1 <= Overlap
    <2>1. lo[i] \in Nat /\ hi[i] \in Nat /\ lo[i] <= hi[i] /\ hi[i] <= Len(t)
      BY <1>15, <1>16
    <2>2. ASSUME NEW v \in Nat, NEW h \in Nat, NEW z \in Nat, NEW o \in Nat, v <= h, h <= z
          PROVE  v <= z + 1 /\ h - (z + 1) + 1 <= o
      BY <2>2
    <2>3. QED BY <1>1, <2>1, <2>2
  <1>19. ASSUME NEW q \in 1..Len(t), q < Len(t) + 1, t[q] \notin Blank
         PROVE  \E k \in 1..n : lo[k] <= q /\ q <= hi[k]
    <2>1. PICK i \in 1..m : a[i] <= q /\ q <= b[i]
      BY <1>3, <1>19
    <2>2. q \in a[i]..b[i] /\ q \in Nat
      <3>1. a[i] \in Nat /\ b[i] \in Nat
        OBVIOUS
      <3>2. QED BY <2>1, <3>1
    <2>3. s[i] # <<>>
      BY <2>2, <1>6, <1>19
    <2>4. PICK k \in 1..n : p[k] = i
      BY <2>3, <1>11
    <2>5. lo[k] <= q /\ q <= hi[k]
      BY <2>1, <2>2, <2>4, <1>15, <1>19
    <2>6. QED BY <2>5
  <1>20. IsCut(t, d, Len(t) + 1, lo, hi)
    BY <1>12, <1>16, <1>17, <1>18, <1>19 DEF IsCut
  <1>21. \A k \in 1..n : lo[k] <= hi[k] /\ t[lo[k]] \notin Blank
    BY <1>15
  <1>22. IsSolidCut(t, d, lo, hi)
    BY <1>12, <1>20, <1>21 DEF IsSolidCut
  <1>23. SolidCut(t, d)
    BY <1>10, <1>12, <1>14, <1>22 DEF SolidCut
  <1>24. QED BY <1>4, <1>23


\* A text, its pieces and where they begin.
Layout(t, pieces, sep, from) ==
    /\ t \in Seq(Char) /\ pieces \in Seq(Seq(Char)) /\ sep \in Seq(Blank) /\ Len(sep) <= 2
    /\ from \in [1..(Len(pieces) + 1) -> Nat]
    /\ IsLaid(t, pieces, sep, from)

\* Where the pieces begin and end, and that only the separator is between them.
LEMMA LayoutIs ==
    ASSUME NEW t, NEW pieces, NEW sep, NEW from, Layout(t, pieces, sep, from)
    PROVE  /\ Len(t) \in Nat /\ Len(pieces) \in Nat /\ Len(sep) \in Nat
           /\ from[1] = 1 /\ from[Len(pieces) + 1] = Len(t) + Len(sep) + 1
           /\ \A k \in 1..(Len(pieces) + 1) : from[k] \in Nat \ {0}
           /\ \A i, j \in 1..(Len(pieces) + 1) : i <= j => from[i] <= from[j]
           /\ \A k \in 1..Len(pieces) :
                 /\ pieces[k] \in Seq(Char) /\ Len(pieces[k]) \in Nat
                 /\ from[k] + Len(pieces[k]) = from[k+1] - Len(sep)
                 /\ from[k+1] - Len(sep) - 1 \in Nat /\ from[k+1] - Len(sep) - 1 <= Len(t)
                 /\ pieces[k] = SubSeq(t, from[k], from[k+1] - Len(sep) - 1)
                 /\ \A p \in 1..Len(t) :
                       from[k+1] - Len(sep) <= p /\ p < from[k+1] => t[p] \in Blank
  <1> DEFINE n == Len(pieces)
             l == Len(sep)
             z == Len(t)
  <1>1. /\ t \in Seq(Char) /\ pieces \in Seq(Seq(Char)) /\ sep \in Seq(Blank)
        /\ from \in [1..(n + 1) -> Nat]
    BY DEF Layout
  <1>2. /\ from[1] = 1 /\ from[n + 1] = z + l + 1
        /\ \A k \in 1..n : /\ from[k+1] = from[k] + Len(pieces[k]) + l
                           /\ pieces[k] = SubSeq(t, from[k], from[k] + Len(pieces[k]) - 1)
        /\ \A k \in 1..(n - 1) : SubSeq(t, from[k+1] - l, from[k+1] - 1) = sep
        /\ \A i, j \in 1..(n + 1) : i <= j => from[i] <= from[j]
    BY DEF Layout, IsLaid
  <1>3. z \in Nat /\ n \in Nat /\ l \in Nat
    BY <1>1
  <1>4. \A k \in 1..n : pieces[k] \in Seq(Char) /\ Len(pieces[k]) \in Nat
    BY <1>1
  <1>5. \A i \in 1..l : sep[i] \in Blank
    BY <1>1
  <1> HIDE DEF n, l, z
  <1>6. ASSUME NEW k \in 1..(n + 1) PROVE from[k] \in Nat \ {0}
    <2>1. 1 \in 1..(n + 1) /\ 1 <= k /\ from[k] \in Nat
      BY <1>1, <1>3 DEF n
    <2>2. from[1] <= from[k]
      BY <1>2, <2>1
    <2>3. QED BY <1>2, <2>1, <2>2
  <1>7. ASSUME NEW k \in 1..n
        PROVE  /\ from[k] + Len(pieces[k]) = from[k+1] - l
               /\ from[k+1] - l - 1 \in Nat /\ from[k+1] - l - 1 <= z
               /\ pieces[k] = SubSeq(t, from[k], from[k+1] - l - 1)
    <2>1. k \in 1..(n+1) /\ k + 1 \in 1..(n+1) /\ n + 1 \in 1..(n+1) /\ k + 1 <= n + 1
      BY <1>3
    <2>2. from[k] \in Nat \ {0} /\ from[k+1] \in Nat \ {0} /\ from[k+1] <= from[n+1]
      BY <1>2, <1>6, <2>1
    <2>3. from[k+1] = from[k] + Len(pieces[k]) + l /\ Len(pieces[k]) \in Nat
      BY <1>2, <1>4
    <2>4. pieces[k] = SubSeq(t, from[k], from[k] + Len(pieces[k]) - 1)
      BY <1>2
    <2>5. ASSUME NEW a \in Nat \ {0}, NEW b \in Nat, NEW w \in Nat, b = a + w + l, b <= z + l + 1
          PROVE  a + w = b - l /\ b - l - 1 \in Nat /\ b - l - 1 <= z /\ a + w - 1 = b - l - 1
      BY <2>5, <1>3
    <2>6. from[n + 1] = z + l + 1
      BY <1>2
    <2>7. /\ from[k] + Len(pieces[k]) = from[k+1] - l /\ from[k+1] - l - 1 \in Nat
          /\ from[k+1] - l - 1 <= z /\ from[k] + Len(pieces[k]) - 1 = from[k+1] - l - 1
      BY <2>2, <2>3, <2>5, <2>6
    <2>8. QED BY <2>4, <2>7
  <1>8. ASSUME NEW k \in 1..n, NEW p \in 1..z, from[k+1] - l <= p, p < from[k+1]
        PROVE  t[p] \in Blank
    <2> DEFINE a == from[k+1]
    <2>1. k + 1 \in 1..(n+1)
      BY <1>3
    <2>2. a \in Nat \ {0} /\ a - l - 1 \in Nat
      BY <1>6, <1>7, <2>1
    <2>3. CASE k = n
      <3>1. a = z + l + 1
        BY <1>2, <2>3
      <3>2. QED BY <3>1, <1>3, <1>8
    <2>4. CASE k # n
      <3>1. k \in 1..(n-1) /\ k + 1 \in 1..n /\ (k + 1) + 1 \in 1..(n+1)
        BY <2>4, <1>3
      <3>2. SubSeq(t, a - l, a - 1) = sep
        BY <1>2, <3>1
      <3>3. a - 1 <= z
        <4>1. from[k+1] + Len(pieces[k+1]) = from[(k+1)+1] - l /\ from[(k+1)+1] - l - 1 <= z
          BY <1>7, <3>1
        <4>2. Len(pieces[k+1]) \in Nat /\ from[(k+1)+1] \in Nat
          BY <1>4, <1>6, <3>1
        <4>3. ASSUME NEW w \in Nat, NEW b \in Nat, a + w = b - l, b - l - 1 <= z PROVE a - 1 <= z
          <5> HIDE DEF a
          <5>1. QED BY <4>3, <1>3, <2>2
        <4>4. QED BY <4>1, <4>2, <4>3
      <3> HIDE DEF a
      <3>4. a - l \in Nat \ {0} /\ a - 1 \in Nat /\ a - l <= (a - 1) + 1
        BY <2>2, <1>3
      <3>5. \A i \in 1..((a - 1) - (a - l) + 1) : SubSeq(t, a - l, a - 1)[i] = t[(a - l) + i - 1]
        BY <1>1, <3>3, <3>4, PassageIs DEF z
      <3>6. PICK i \in 1..l : (a - l) + i - 1 = p
        <4>1. a - l <= p /\ p < a
          BY <1>8 DEF a
        <4>2. p - (a - l) + 1 \in 1..l /\ (a - l) + (p - (a - l) + 1) - 1 = p
          BY <4>1, <2>2, <1>3
        <4>3. QED BY <4>2
      <3>7. (a - 1) - (a - l) + 1 = l
        BY <2>2, <1>3
      <3>8. sep[i] = t[p]
        BY <3>2, <3>5, <3>6, <3>7
      <3>9. QED BY <3>8, <1>5
    <2>5. QED BY <2>3, <2>4
  <1>9. QED BY <1>2, <1>3, <1>4, <1>6, <1>7, <1>8 DEF n, l, z

\* What is carried over are the last pieces, and no more than the overlap.
IsCarried(w, current, sep) ==
    \E h \in 1..(Len(current) + 1) :
        w = SubSeq(current, h, Len(current)) /\ Len(Join(w, sep)) <= Overlap

\* Carried returns them.
LEMMA CarriedIs ==
    ASSUME NEW current \in Seq(Seq(Char)), NEW sep \in Seq(Char)
    PROVE  IsCarried(Carried(current, sep), current, sep)
  <1> DEFINE n == Len(current)
             fits == {i \in 0..n : Len(Join(LastOf(current, i), sep)) <= Overlap}
             m == Max(fits)
  <1>1. n \in Nat /\ Overlap \in Nat
    BY SizeType
  <1>2. 0 \in fits
    <2>1. LastOf(current, 0) = <<>>
      <3>1. n - 0 + 1 \in Int /\ n \in Int /\ n < n - 0 + 1
        BY <1>1
      <3>2. SubSeq(current, n - 0 + 1, n) = <<>>
        BY <3>1, SubSeqEmpty
      <3>3. QED BY <3>2 DEF LastOf
    <2>2. ASSUME NEW e \in Seq(Seq(Char)), e = <<>> PROVE Join(e, sep) = <<>>
      BY <2>2, JoinAppend
    <2>3. Len(Join(LastOf(current, 0), sep)) = 0
      <3>1. <<>> \in Seq(Seq(Char))
        OBVIOUS
      <3>2. Join(<<>>, sep) = <<>>
        BY <2>2, <3>1
      <3>3. QED BY <2>1, <3>2
    <2>4. QED BY <1>1, <2>3
  <1>3. m \in fits
    <2>1. fits \subseteq 0..n
      OBVIOUS
    <2> HIDE DEF fits
    <2>2. PICK i \in fits : \A j \in fits : j <= i
      BY <1>1, <1>2, <2>1, Greatest
    <2>3. \A j \in fits : i >= j
      BY <2>1, <2>2, <1>1
    <2>4. \E k \in fits : \A j \in fits : k >= j
      BY <2>3
    <2>5. QED BY <2>4 DEF Max
  <1>4. Carried(current, sep) = LastOf(current, m)
    BY DEF Carried
  <1> HIDE DEF m
  <1>5. m \in 0..n /\ Len(Join(LastOf(current, m), sep)) <= Overlap
    BY <1>3
  <1>6. n - m + 1 \in 1..(n + 1) /\ LastOf(current, m) = SubSeq(current, n - m + 1, n)
    BY <1>1, <1>5 DEF LastOf
  <1>7. QED BY <1>4, <1>5, <1>6 DEF IsCarried

\* The loop of Assembled.
Collecting(pieces, sep, deeper) ==
    LET chunks[i \in 0 .. Len(pieces)] ==
            IF i = 0 THEN [done |-> <<>>, current |-> <<>>]
            ELSE Collected(chunks[i - 1], pieces[i], sep, deeper)
    IN chunks

\* It goes through the pieces.
LEMMA CollectingIs ==
    ASSUME NEW pieces \in Seq(Seq(Char)), NEW sep \in Seq(Char), NEW deeper,
           \A i \in 1..Len(pieces) :
               Len(pieces[i]) > ChunkSize => deeper[pieces[i]] \in Seq(Seq(Char))
    PROVE  /\ \A i \in 0..Len(pieces) :
                 Collecting(pieces, sep, deeper)[i] \in [done : Seq(Seq(Char)), current : Seq(Seq(Char))]
           /\ Collecting(pieces, sep, deeper)[0] = [done |-> <<>>, current |-> <<>>]
           /\ \A i \in 1..Len(pieces) :
                 Collecting(pieces, sep, deeper)[i] =
                     Collected(Collecting(pieces, sep, deeper)[i-1], pieces[i], sep, deeper)
  <1> DEFINE n == Len(pieces)
             L == Seq(Seq(Char))
             V == [done : L, current : L]
             a == [done |-> <<>>, current |-> <<>>]
             f == [p \in V \X Nat |-> IF p[2] \in 1..n THEN Collected(p[1], pieces[p[2]], sep, deeper) ELSE p[1]]
             k == Collecting(pieces, sep, deeper)
  <1>1. a \in V /\ n \in Nat
    OBVIOUS
  <1>2. ASSUME NEW x \in V, NEW i \in 1..n PROVE Collected(x, pieces[i], sep, deeper) \in V
    <2> DEFINE y == Flushed(x.done, x.current, sep)
               piece == pieces[i]
               w == Carried(x.current, sep)
    <2>1. piece \in Seq(Char) /\ x.done \in L /\ x.current \in L
      OBVIOUS
    <2>2. y \in L
      <3>1. Join(x.current, sep) \in Seq(Char)
        BY <2>1, JoinAppend
      <3>2. Append(x.done, Join(x.current, sep)) \in L
        BY <2>1, <3>1, AppendMore, Zenon
      <3>3. QED BY <2>1, <3>2 DEF Flushed
    <2>3. Len(piece) > ChunkSize => y \o deeper[piece] \in L
      <3>1. ASSUME NEW e \in L PROVE y \o e \in L
        <4> HIDE DEF y
        <4>1. QED BY <2>2, <3>1
      <3>2. QED BY <3>1
    <2>4. w \in L
      <3>1. IsCarried(w, x.current, sep)
        BY <2>1, CarriedIs
      <3>2. PICK h \in 1..(Len(x.current) + 1) : w = SubSeq(x.current, h, Len(x.current))
        BY <3>1 DEF IsCarried
      <3>3. ASSUME NEW e \in L, NEW g \in 1..(Len(e) + 1) PROVE SubSeq(e, g, Len(e)) \in L
        <4>1. g \in Nat \ {0} /\ Len(e) \in Nat /\ g <= Len(e) + 1
          OBVIOUS
        <4>2. QED BY <4>1, PassageIs
      <3>4. QED BY <2>1, <3>2, <3>3
    <2>5. Append(x.current, piece) \in L /\ Append(w, piece) \in L
      BY <2>1, <2>4, AppendMore, Zenon
    <2> HIDE DEF y, w, piece, L
    <2>6. [x EXCEPT !.current = Append(@, piece)] \in V
      <3>1. ASSUME NEW e \in L PROVE [x EXCEPT !.current = e] \in V
        OBVIOUS
      <3>2. [x EXCEPT !.current = Append(x.current, piece)] \in V
        BY <2>5, <3>1
      <3>3. QED BY <3>2
    <2>7. <<>> \in L
      BY DEF L
    <2>8. Collected(x, piece, sep, deeper) \in V
      <3>1. CASE Len(piece) > ChunkSize
        <4>1. Collected(x, piece, sep, deeper) = [done |-> y \o deeper[piece], current |-> <<>>]
          BY <3>1 DEF Collected, y
        <4>2. QED BY <4>1, <3>1, <2>3, <2>7
      <3>2. CASE ~(Len(piece) > ChunkSize) /\ Len(Join(Append(x.current, piece), sep)) <= ChunkSize
        <4>1. Collected(x, piece, sep, deeper) = [x EXCEPT !.current = Append(@, piece)]
          BY <3>2 DEF Collected
        <4>2. QED BY <4>1, <2>6
      <3>3. CASE ~(Len(piece) > ChunkSize) /\ ~(Len(Join(Append(x.current, piece), sep)) <= ChunkSize)
        <4>1. Collected(x, piece, sep, deeper) = [done |-> y, current |-> Append(w, piece)]
          BY <3>3 DEF Collected, y, w
        <4>2. QED BY <4>1, <2>2, <2>5
      <3>4. QED BY <3>1, <3>2, <3>3
    <2>9. QED BY <2>8 DEF piece
  <1>3. f \in [V \X Nat -> V]
    <2> HIDE DEF V, n
    <2>1. QED BY <1>2
  <1>4. PICK g \in [0..n -> V] : IsLoop(g, a, f, n)
    <2> HIDE DEF f, n, V, a
    <2>1. QED BY <1>1, <1>3, LoopExists, Zenon
  <1>5. ASSUME NEW i \in 0..n PROVE g[i] = IF i = 0 THEN a ELSE Collected(g[i-1], pieces[i], sep, deeper)
    <2>1. CASE i = 0
      BY <2>1, <1>4 DEF IsLoop
    <2>2. CASE i # 0
      <3>1. i \in 1..n /\ i - 1 \in 0..n /\ i \in Nat
        BY <2>2
      <3>2. g[i] = f[<<g[i-1], i>>]
        <4> HIDE DEF f
        <4>1. QED BY <1>4, <3>1 DEF IsLoop
      <3> HIDE DEF V
      <3>3. f[<<g[i-1], i>>] = Collected(g[i-1], pieces[i], sep, deeper)
        BY <3>1
      <3>4. QED BY <2>2, <3>2, <3>3, Zenon
    <2>3. QED BY <2>1, <2>2
  <1>6. k = [i \in 0..n |-> IF i = 0 THEN a ELSE Collected(k[i-1], pieces[i], sep, deeper)]
    <2>1. g = [i \in 0..n |-> IF i = 0 THEN a ELSE Collected(g[i-1], pieces[i], sep, deeper)]
      <3> HIDE DEF V, a
      <3>1. QED BY <1>5
    <2>2. k = CHOOSE h : h = [i \in 0..n |-> IF i = 0 THEN a ELSE Collected(h[i-1], pieces[i], sep, deeper)]
      BY Zenon DEF Collecting
    <2> HIDE DEF k, a, V
    <2>3. k = [i \in 0..n |-> IF i = 0 THEN a ELSE Collected(k[i-1], pieces[i], sep, deeper)]
      BY <2>1, <2>2
    <2>4. QED BY <2>3
  <1> HIDE DEF k, a
  <1>7. 0 \in 0..n /\ \A i \in 1..n : i \in 0..n /\ i # 0
    BY <1>1
  <1>8. k[0] = a /\ \A i \in 1..n : k[i] = Collected(k[i-1], pieces[i], sep, deeper)
    <2> HIDE DEF n
    <2>1. QED BY <1>6, <1>7
  <1>9. \A i \in 0..n : k[i] \in V
    <2> DEFINE T == {i \in 0..n : k[i] \in V}
    <2>1. 0 \in T
      <3> HIDE DEF V, n
      <3>1. QED BY <1>1, <1>7, <1>8 DEF a
    <2>2. ASSUME NEW i \in 1..n, i - 1 \in T PROVE i \in T
      <3> HIDE DEF V, n
      <3>1. QED BY <1>2, <1>7, <1>8, <2>2
    <2> HIDE DEF T, n
    <2>3. \A i \in 0..n : i \in T
      BY <1>1, <2>1, <2>2, BoundedInduction
    <2>4. QED BY <2>3 DEF T
  <1>10. QED BY <1>8, <1>9 DEF k, a


\* Pieces from one to another, joined: the passage they lie in, and how long it is.
IsRun(t, pieces, sep, from, i, j) ==
    /\ Join(SubSeq(pieces, i, j), sep) = SubSeq(t, from[i], from[j+1] - Len(sep) - 1)
    /\ Len(Join(SubSeq(pieces, i, j), sep)) = from[j+1] - Len(sep) - from[i]
    /\ from[i] <= from[j+1] - Len(sep)

\* This is so wherever they lie in a text.
LEMMA RunIs ==
    ASSUME NEW t, NEW pieces, NEW sep, NEW from, Layout(t, pieces, sep, from),
           NEW i \in Nat, NEW j \in Nat, 1 <= i, i <= j, j <= Len(pieces)
    PROVE  IsRun(t, pieces, sep, from, i, j)
  <1>1. /\ t \in Seq(Char) /\ pieces \in Seq(Seq(Char)) /\ sep \in Seq(Char)
        /\ from \in [1..(Len(pieces) + 1) -> Nat] /\ IsLaid(t, pieces, sep, from)
    BY DEF Layout, Blank, Char
  <1>2. Len(pieces) \in Nat /\ Len(sep) \in Nat /\ Len(t) \in Nat
    BY LayoutIs
  <1>3. i \in 1..Len(pieces) /\ j \in i..Len(pieces) /\ j \in 1..Len(pieces)
        /\ i \in 1..(Len(pieces) + 1) /\ j \in 1..(Len(pieces) + 1) /\ j + 1 \in 1..(Len(pieces) + 1)
    BY <1>2
  <1>4. Join(SubSeq(pieces, i, j), sep) = SubSeq(t, from[i], from[j+1] - Len(sep) - 1)
    <2>1. i \in 1..Len(pieces) /\ j \in i..Len(pieces)
      BY <1>3
    <2>2. IsJoined(t, pieces, sep, from, i, j)
      BY <1>1, <2>1, JoinPassage, Zenon
    <2>3. QED BY <2>2 DEF IsJoined
  <1>5. from[i] \in Nat \ {0} /\ from[j] \in Nat /\ from[j+1] \in Nat /\ from[i] <= from[j]
    BY <1>3, LayoutIs
  <1>6. /\ from[j] + Len(pieces[j]) = from[j+1] - Len(sep) /\ Len(pieces[j]) \in Nat
        /\ from[j+1] - Len(sep) - 1 \in Nat /\ from[j+1] - Len(sep) - 1 <= Len(t)
    BY <1>3, LayoutIs
  <1>7. from[i] <= from[j+1] - Len(sep)
    <2>1. ASSUME NEW a \in Nat, NEW b \in Nat, NEW w \in Nat, NEW c \in Nat, NEW l \in Nat,
                 a <= b, b + w = c - l
          PROVE  a <= c - l
      BY <2>1
    <2>2. QED BY <1>2, <1>5, <1>6, <2>1
  <1> DEFINE x == from[i]
             y == from[j+1] - Len(sep) - 1
  <1>8. x \in Nat \ {0} /\ y \in Nat /\ x <= y + 1 /\ y <= Len(t) /\ y - x + 1 = from[j+1] - Len(sep) - from[i]
    <2>1. ASSUME NEW a \in Nat, NEW b \in Int, NEW l \in Nat, a <= b - l
          PROVE  a <= (b - l - 1) + 1 /\ (b - l - 1) - a + 1 = b - l - a
      BY <2>1
    <2>2. /\ from[i] <= (from[j+1] - Len(sep) - 1) + 1
          /\ (from[j+1] - Len(sep) - 1) - from[i] + 1 = from[j+1] - Len(sep) - from[i]
      BY <1>2, <1>5, <1>7, <2>1
    <2>3. QED BY <1>5, <1>6, <2>2
  <1>9. Len(SubSeq(t, x, y)) = y - x + 1
    <2> HIDE DEF x, y
    <2>1. QED BY <1>1, <1>8, PassageIs
  <1>10. QED BY <1>4, <1>7, <1>8, <1>9 DEF IsRun

\* A run one piece longer.
LEMMA RunAppend ==
    ASSUME NEW S, NEW pieces \in Seq(S), NEW i \in Nat, NEW k \in Nat,
           1 <= i, i <= k, k <= Len(pieces)
    PROVE  Append(SubSeq(pieces, i, k - 1), pieces[k]) = SubSeq(pieces, i, k)
  <1>1. CASE i = k
    <2>1. SubSeq(pieces, i, k - 1) = <<>>
      BY <1>1, SubSeqEmpty
    <2>2. SubSeq(pieces, i, k) = << pieces[k] >>
      <3> DEFINE q == SubSeq(pieces, i, k)
      <3>1. q \in Seq(S) /\ Len(q) = k - i + 1 /\ \A p \in 1..(k - i + 1) : q[p] = pieces[i + p - 1]
        BY PassageIs
      <3> HIDE DEF q
      <3>2. Len(q) = 1 /\ 1 \in 1..(k - i + 1) /\ i + 1 - 1 = k
        BY <1>1, <3>1
      <3>3. q[1] = pieces[k]
        BY <3>1, <3>2
      <3>4. q = << q[1] >>
        BY <3>1, <3>2
      <3>5. QED BY <3>3, <3>4 DEF q
    <2>3. Append(<<>>, pieces[k]) = << pieces[k] >>
      OBVIOUS
    <2>4. QED BY <2>1, <2>2, <2>3
  <1>2. CASE i # k
    <2>1. k \in 1..Len(pieces) /\ i \in 1..Len(pieces) /\ i <= k
      OBVIOUS
    <2>2. QED BY <2>1
  <1>3. QED BY <1>1, <1>2

\* Of the first k pieces some are chunks, and the rest is collected.
IsAssembled(t, pieces, sep, from, x, k) ==
    \E first \in 1..(k+1) :
        /\ x.current = SubSeq(pieces, first, k)
        /\ Cut(t, x.done, from[first])
        /\ from[k+1] - Len(sep) - from[first] <= Limit

\* What is collected becomes a chunk, and the next one begins at most the overlap before.
LEMMA FlushedIs ==
    ASSUME NEW t, NEW pieces, NEW sep, NEW from, Layout(t, pieces, sep, from),
           NEW k \in Nat, k <= Len(pieces), NEW first \in 1..(k+1), NEW done,
           Cut(t, done, from[first]), from[k+1] - Len(sep) - from[first] <= Limit,
           NEW next \in first..(k+1), from[k+1] - Len(sep) - from[next] <= Overlap
    PROVE  Cut(t, Flushed(done, SubSeq(pieces, first, k), sep), from[next])
  <1> DEFINE n == Len(pieces)
             l == Len(sep)
             z == Len(t)
             current == SubSeq(pieces, first, k)
  <1>1. t \in Seq(Char) /\ pieces \in Seq(Seq(Char))
    BY DEF Layout
  <1>2. n \in Nat /\ l \in Nat /\ z \in Nat /\ Overlap \in Nat /\ Limit \in Nat
    BY LayoutIs, SizeType DEF Limit
  <1>3. first \in Nat /\ next \in Nat /\ 1 <= first /\ first <= next /\ next <= k + 1 /\ k + 1 <= n + 1
    BY <1>2
  <1>4. CASE first = k + 1
    <2>1. current = <<>>
      BY <1>3, <1>4, SubSeqEmpty
    <2>2. next = first
      BY <1>3, <1>4
    <2>3. QED BY <2>1, <2>2 DEF Flushed
  <1>5. CASE first # k + 1
    <2>1. first <= k /\ 1 <= k
      BY <1>3, <1>5
    <2>2. IsRun(t, pieces, sep, from, first, k)
      BY <1>3, <2>1, RunIs
    <2> DEFINE f == from[first]
               g == from[next]
               b == from[k+1]
               y == b - l - 1
    <2>3. Join(current, sep) = SubSeq(t, f, y) /\ f <= b - l
      BY <2>2 DEF IsRun
    <2>4. current # <<>>
      <3>1. Len(current) = k - first + 1
        BY <1>1, <1>3, <2>1, PassageIs
      <3>2. Len(current) # 0
        BY <1>3, <2>1, <3>1
      <3> HIDE DEF current
      <3>3. QED BY <3>2
    <2>5. Flushed(done, current, sep) = Append(done, SubSeq(t, f, y))
      BY <2>3, <2>4 DEF Flushed
    <2>6. first \in 1..(n+1) /\ next \in 1..(n+1) /\ k + 1 \in 1..(n+1) /\ k \in 1..n
      BY <1>2, <1>3, <2>1
    <2>7. f \in Nat \ {0} /\ g \in Nat \ {0} /\ b \in Nat /\ f <= g /\ g <= b
      BY <1>3, <2>6, LayoutIs
    <2>8. y \in Nat /\ y <= z
      BY <2>6, LayoutIs
    <2>9. ASSUME NEW p \in 1..z, y < p, p < g PROVE t[p] \in Blank
      <3>1. b - l <= p /\ p < b
        <4> HIDE DEF f, g, b, z, l
        <4>1. QED BY <1>2, <2>7, <2>9
      <3>2. QED BY <2>6, <3>1, LayoutIs
    <2>10. f <= y + 1 /\ y - f + 1 <= Limit /\ y - g + 1 <= Overlap
      <3>1. ASSUME NEW F \in Nat, NEW G \in Nat, NEW B \in Nat, NEW L \in Nat, NEW M \in Nat, NEW O \in Nat,
                   F <= B - L, B - L - F <= M, B - L - G <= O
            PROVE  F <= (B - L - 1) + 1 /\ (B - L - 1) - F + 1 <= M /\ (B - L - 1) - G + 1 <= O
        BY <3>1
      <3>2. b - l - f <= Limit /\ b - l - g <= Overlap
        OBVIOUS
      <3> HIDE DEF f, g, b, l
      <3>3. QED BY <1>2, <2>3, <2>7, <3>1, <3>2
    <2>11. Cut(t, done, f)
      OBVIOUS
    <2> HIDE DEF f, g, b, y, l, current
    <2>12. Cut(t, Append(done, SubSeq(t, f, y)), g)
      BY <1>1, <2>7, <2>8, <2>9, <2>10, <2>11, CutAppend
    <2>13. QED BY <2>5, <2>12 DEF current, g
  <1>6. QED BY <1>4, <1>5


\* A piece more of those that are collected.
LEMMA CollectedIs ==
    ASSUME NEW t, NEW pieces, NEW sep, NEW from, Layout(t, pieces, sep, from),
           NEW deeper, NEW x, NEW k \in 1..Len(pieces),
           x \in [done : Seq(Seq(Char)), current : Seq(Seq(Char))],
           IsAssembled(t, pieces, sep, from, x, k - 1),
           Len(pieces[k]) > ChunkSize => SolidCut(pieces[k], deeper[pieces[k]])
    PROVE  IsAssembled(t, pieces, sep, from, Collected(x, pieces[k], sep, deeper), k)
  <1> DEFINE n == Len(pieces)
             l == Len(sep)
             z == Len(t)
             piece == pieces[k]
             y == Collected(x, piece, sep, deeper)
  <1>1. t \in Seq(Char) /\ pieces \in Seq(Seq(Char)) /\ sep \in Seq(Char)
    BY DEF Layout, Blank, Char
  <1>2. n \in Nat /\ l \in Nat /\ z \in Nat /\ l <= 2
    BY LayoutIs DEF Layout
  <1>3. Overlap \in Nat /\ Limit \in Nat /\ ChunkSize \in Nat /\ Limit = ChunkSize + Overlap + 2
    BY SizeType DEF Limit
  <1>4. k \in Nat /\ 1 <= k /\ k <= n /\ k - 1 \in Nat /\ (k - 1) + 1 = k /\ k - 1 <= n
    BY <1>2
  <1>5. k \in 1..(n+1) /\ k + 1 \in 1..(n+1) /\ k \in 1..n
    BY <1>2, <1>4
  <1>6. PICK first \in 1..k :
            /\ x.current = SubSeq(pieces, first, k - 1)
            /\ Cut(t, x.done, from[first])
            /\ from[k] - l - from[first] <= Limit
    BY <1>4 DEF IsAssembled
  <1>7. first \in Nat /\ 1 <= first /\ first <= k /\ first \in 1..(n+1)
    BY <1>2, <1>4
  <1> DEFINE a == from[k]
             b == from[k+1]
             f == from[first]
             w == Len(piece)
  <1>8. /\ a \in Nat \ {0} /\ b \in Nat \ {0} /\ f \in Nat \ {0} /\ f <= a
        /\ piece \in Seq(Char) /\ w \in Nat /\ a + w = b - l /\ b - l - 1 \in Nat /\ b - l - 1 <= z
        /\ piece = SubSeq(t, a, b - l - 1)
    BY <1>4, <1>5, <1>7, LayoutIs
  <1>9. \A p \in 1..z : b - l <= p /\ p < b => t[p] \in Blank
    BY <1>5, LayoutIs
  <1>10. Cut(t, x.done, f) /\ a - l - f <= Limit
    BY <1>6
  <1>11. ASSUME NEW next \in first..k, a - l - from[next] <= Overlap
         PROVE  Cut(t, Flushed(x.done, x.current, sep), from[next])
    <2>1. Cut(t, Flushed(x.done, SubSeq(pieces, first, k - 1), sep), from[next])
      <3>1. first \in 1..((k-1)+1) /\ next \in first..((k-1)+1) /\ from[(k-1)+1] = a
        BY <1>4, <1>11
      <3>2. Cut(t, x.done, from[first]) /\ from[(k-1)+1] - Len(sep) - from[first] <= Limit
            /\ from[(k-1)+1] - Len(sep) - from[next] <= Overlap
        BY <1>10, <1>11, <3>1
      <3> HIDE DEF a, b, f, w, piece, y, n, l, z
      <3>3. QED BY <1>4, <3>1, <3>2, FlushedIs DEF n
    <2>2. QED BY <2>1, <1>6
  <1>12. ASSUME NEW start \in first..(k+1), y.current = SubSeq(pieces, start, k),
                Cut(t, y.done, from[start]), b - l - from[start] <= Limit
         PROVE  IsAssembled(t, pieces, sep, from, y, k)
    <2>1. start \in 1..(k+1)
      BY <1>7, <1>12
    <2> HIDE DEF y
    <2>2. QED BY <1>12, <2>1 DEF IsAssembled
  <1> HIDE DEF a, b, f, w, n, l, z
  <1>13. /\ a \in Nat \ {0} /\ b \in Nat \ {0} /\ f \in Nat \ {0} /\ f <= a /\ w \in Nat
        /\ a + w = b - l /\ b - l - 1 \in Nat /\ b - l - 1 <= z
    BY <1>8
  <1>14. from[k] = a /\ from[k+1] = b /\ from[first] = f /\ w = Len(piece)
    BY DEF a, b, f, w
  <1>15. SUFFICES IsAssembled(t, pieces, sep, from, y, k)
    OBVIOUS
  <1>16. CASE w > ChunkSize
    <2> DEFINE e == deeper[piece]
               done == Flushed(x.done, x.current, sep)
    <2>1. y = [done |-> done \o e, current |-> <<>>]
      BY <1>16, <1>14 DEF Collected
    <2>2. SolidCut(piece, e)
      BY <1>16, <1>14
    <2>3. Cut(t, done, a)
      <3>1. k \in first..k
        BY <1>4, <1>7
      <3>2. a - l - from[k] <= Overlap
        <4>1. a - l - a <= Overlap
          BY <1>2, <1>3, <1>13
        <4>2. QED BY <4>1, <1>14
      <3>3. Cut(t, Flushed(x.done, x.current, sep), from[k])
        BY <3>1, <3>2, <1>11
      <3>4. QED BY <3>3, <1>14
    <2>4. CutWithin(t, a, b - l - 1, e)
      <3>1. Cut(piece, e, w + 1)
        BY <2>2, <1>8, <1>14, SolidIsCut
      <3>2. w + 1 = (b - l - 1) - a + 2
        BY <1>2, <1>13
      <3> HIDE DEF e, piece
      <3>3. QED BY <3>1, <3>2, <1>8 DEF CutWithin
    <2>5. Cut(t, done \o e, b - l)
      <3> DEFINE v == b - l - 1
      <3>1. v \in Nat /\ a <= v + 1 /\ v <= z /\ a \in Nat \ {0} /\ v + 1 = b - l
        BY <1>2, <1>13
      <3>2. CutWithin(t, a, v, e)
        BY <2>4
      <3> HIDE DEF v, done, e
      <3>3. Cut(t, done \o e, v + 1)
        BY <1>1, <2>3, <3>1, <3>2, CutGrows DEF z
      <3>4. QED BY <3>1, <3>3
    <2>6. Cut(t, done \o e, b)
      <3> DEFINE v == b - l
                 c == done \o e
      <3>1. v \in Nat /\ b \in Nat /\ v <= b
        BY <1>2, <1>13
      <3>2. Cut(t, c, v)
        BY <2>5
      <3> HIDE DEF v, done, e, c
      <3>3. Cut(t, c, b)
        BY <1>1, <1>9, <3>1, <3>2, CutMoves DEF z, v
      <3>4. QED BY <3>3 DEF c
    <2>7. y.current = SubSeq(pieces, k + 1, k) /\ y.done = done \o e
      <3>1. SubSeq(pieces, k + 1, k) = <<>>
        BY <1>4, SubSeqEmpty
      <3> HIDE DEF y, e, done
      <3>2. QED BY <2>1, <3>1
    <2>8. b - l - b <= Limit /\ k + 1 \in first..(k+1)
      BY <1>2, <1>3, <1>4, <1>7, <1>13
    <2> DEFINE c == done \o e
               start == k + 1
    <2>9. /\ start \in first..(k+1) /\ y.current = SubSeq(pieces, start, k)
          /\ Cut(t, y.done, from[start]) /\ b - l - from[start] <= Limit
      <3>1. y.done = c /\ Cut(t, c, b) /\ from[start] = b
        BY <2>6, <2>7, <1>14
      <3> HIDE DEF y, c
      <3>2. QED BY <2>7, <2>8, <3>1
    <2> HIDE DEF y, e, done, start
    <2>10. QED BY <2>9, <1>12
  <1>17. CASE ~(w > ChunkSize) /\ Len(Join(Append(x.current, piece), sep)) <= ChunkSize
    <2>1. y = [x EXCEPT !.current = Append(@, piece)]
      BY <1>17, <1>14 DEF Collected
    <2>2. y.done = x.done /\ y.current = Append(x.current, piece)
      <3> HIDE DEF y, piece
      <3>1. QED BY <2>1
    <2>3. Append(x.current, piece) = SubSeq(pieces, first, k)
      BY <1>1, <1>4, <1>6, <1>7, RunAppend DEF n
    <2>4. b - l - f <= ChunkSize
      <3>1. IsRun(t, pieces, sep, from, first, k)
        BY <1>4, <1>7, RunIs DEF n
      <3>2. Len(Join(SubSeq(pieces, first, k), sep)) = b - l - f
        BY <3>1 DEF IsRun, b, l, f
      <3>3. QED BY <3>2, <2>3, <1>17
    <2>5. b - l - f <= Limit /\ first \in first..(k+1)
      BY <2>4, <1>2, <1>3, <1>4, <1>7, <1>13
    <2>6. /\ first \in first..(k+1) /\ y.current = SubSeq(pieces, first, k)
          /\ Cut(t, y.done, from[first]) /\ b - l - from[first] <= Limit
      <3> HIDE DEF y
      <3>1. QED BY <2>2, <2>3, <2>5, <1>10, <1>14
    <2> HIDE DEF y
    <2>7. QED BY <2>6, <1>12
  <1>18. CASE ~(w > ChunkSize) /\ ~(Len(Join(Append(x.current, piece), sep)) <= ChunkSize)
    <2> DEFINE done == Flushed(x.done, x.current, sep)
               kept == Carried(x.current, sep)
    <2>1. y = [done |-> done, current |-> Append(kept, piece)]
      BY <1>18, <1>14 DEF Collected
    <2>2. PICK h \in 1..(Len(x.current) + 1) :
              kept = SubSeq(x.current, h, Len(x.current)) /\ Len(Join(kept, sep)) <= Overlap
      <3>1. IsCarried(kept, x.current, sep)
        BY <1>1, CarriedIs
      <3>2. QED BY <3>1 DEF IsCarried
    <2>3. Len(x.current) = k - first
      <3>1. first \in Nat \ {0} /\ k - 1 \in Nat /\ first <= (k - 1) + 1 /\ k - 1 <= n
        BY <1>4, <1>7
      <3>2. Len(SubSeq(pieces, first, k - 1)) = (k - 1) - first + 1
        BY <1>1, <3>1, PassageIs DEF n
      <3>3. QED BY <3>2, <1>4, <1>6, <1>7
    <2> DEFINE start == first + h - 1
    <2>4. start \in Nat /\ first <= start /\ start <= k /\ h \in Nat \ {0} /\ h <= k - first + 1
      <3>1. h \in 1..(k - first + 1)
        BY <2>3
      <3>2. QED BY <3>1, <1>4, <1>7
    <2>5. kept = SubSeq(pieces, start, k - 1)
      <3> DEFINE u == k - 1
                 v == k - first
      <3>1. /\ first \in Nat \ {0} /\ u \in Nat /\ first <= u + 1 /\ u <= n /\ v \in Nat
            /\ h <= v + 1 /\ v <= u - first + 1 /\ first + v - 1 = u
        BY <1>4, <1>7, <2>4
      <3>2. kept = SubSeq(SubSeq(pieces, first, u), h, v)
        BY <2>2, <2>3, <1>6
      <3> HIDE DEF u, v, kept
      <3>3. SubSeq(SubSeq(pieces, first, u), h, v) = SubSeq(pieces, first + h - 1, first + v - 1)
        BY <1>1, <2>4, <3>1, PassageOfPassage DEF n
      <3>4. QED BY <3>1, <3>2, <3>3 DEF u
    <2>6. Append(kept, piece) = SubSeq(pieces, start, k)
      <3>1. start \in Nat /\ 1 <= start /\ start <= k
        BY <2>4, <1>7
      <3> HIDE DEF start, kept
      <3>2. QED BY <1>1, <1>4, <2>5, <3>1, RunAppend DEF n
    <2>7. start \in first..k /\ start \in 1..(n+1)
      BY <2>4, <1>4, <1>7, <1>2
    <2> DEFINE g == from[start]
    <2>8. g \in Nat /\ g <= a
      <3> HIDE DEF start
      <3>1. QED BY <2>4, <2>7, <1>5, LayoutIs DEF n, a
    <2>9. a - l - g <= Overlap
      <3>1. CASE start = k
        <4>1. a - l - a <= Overlap
          BY <1>2, <1>3, <1>13
        <4> HIDE DEF start
        <4>2. QED BY <4>1, <3>1, <1>14
      <3>2. CASE start # k
        <4> HIDE DEF start
        <4>1. start <= k - 1 /\ 1 <= start
          BY <2>4, <3>2, <1>4, <1>7
        <4>2. IsRun(t, pieces, sep, from, start, k - 1)
          BY <4>1, <2>4, <1>4, RunIs DEF n
        <4>3. Len(Join(SubSeq(pieces, start, k - 1), sep)) = from[(k-1)+1] - l - g
          BY <4>2 DEF IsRun, l
        <4>4. QED BY <4>3, <2>2, <2>5, <1>4, <1>14
      <3>3. QED BY <3>1, <3>2
    <2>10. Cut(t, done, g)
      <3> HIDE DEF start, done
      <3>1. QED BY <2>7, <2>9, <1>11 DEF done
    <2>11. b - l - g <= Limit
      <3>1. ASSUME NEW A \in Nat, NEW G \in Nat, NEW W \in Nat, NEW B \in Nat, NEW L \in Nat, NEW O \in Nat,
                   NEW C \in Nat, A + W = B - L, A - L - G <= O, ~(W > C), L <= 2
            PROVE  B - L - G <= C + O + 2
        BY <3>1
      <3> HIDE DEF g
      <3>2. b - l - g <= ChunkSize + Overlap + 2
        BY <3>1, <1>2, <1>3, <1>13, <1>18, <2>8, <2>9
      <3>3. QED BY <3>2, <1>3
    <2>12. y.done = done /\ y.current = Append(kept, piece)
      <3> HIDE DEF y, done, kept
      <3>1. QED BY <2>1
    <2>13. start \in first..(k+1)
      BY <2>4, <1>4, <1>7
    <2>14. /\ start \in first..(k+1) /\ y.current = SubSeq(pieces, start, k)
           /\ Cut(t, y.done, from[start]) /\ b - l - from[start] <= Limit
      <3> HIDE DEF y, start, done, kept
      <3>1. QED BY <2>6, <2>10, <2>11, <2>12, <2>13
    <2> HIDE DEF y, start
    <2>15. QED BY <2>14, <1>12
  <1>19. QED BY <1>16, <1>17, <1>18


\* All pieces have been collected.
LEMMA AssembledIs ==
    ASSUME NEW t, NEW pieces, NEW sep, NEW from, Layout(t, pieces, sep, from), NEW deeper,
           \A k \in 1..Len(pieces) :
               Len(pieces[k]) > ChunkSize => SolidCut(pieces[k], deeper[pieces[k]])
    PROVE  SolidCut(t, Assembled(pieces, sep, deeper))
  <1> DEFINE n == Len(pieces)
             c == Collecting(pieces, sep, deeper)
             T == {i \in 0..n : IsAssembled(t, pieces, sep, from, c[i], i)}
  <1>1. t \in Seq(Char) /\ pieces \in Seq(Seq(Char)) /\ sep \in Seq(Char)
    BY DEF Layout, Blank, Char
  <1>2. n \in Nat /\ Len(sep) \in Nat /\ Len(t) \in Nat
    BY LayoutIs
  <1>3. Limit \in Nat /\ Overlap \in Nat
    BY SizeType DEF Limit
  <1>4. /\ \A i \in 0..n : c[i] \in [done : Seq(Seq(Char)), current : Seq(Seq(Char))]
        /\ c[0] = [done |-> <<>>, current |-> <<>>]
        /\ \A i \in 1..n : c[i] = Collected(c[i-1], pieces[i], sep, deeper)
    <2>1. \A i \in 1..n : Len(pieces[i]) > ChunkSize => deeper[pieces[i]] \in Seq(Seq(Char))
      BY DEF SolidCut
    <2>2. QED BY <1>1, <2>1, CollectingIs
  <1>5. from[1] = 1 /\ from[n+1] = Len(t) + Len(sep) + 1
    BY LayoutIs
  <1> HIDE DEF n, c
  <1>6. 0 \in T
    <2>1. c[0].current = <<>> /\ c[0].done = <<>>
      BY <1>4
    <2>2. SubSeq(pieces, 1, 0) = <<>>
      BY SubSeqEmpty
    <2>3. Cut(t, <<>>, 1)
      <3>1. <<>> \in Seq(Seq(Char))
        OBVIOUS
      <3>2. ASSUME NEW e \in Seq(Seq(Char)), e = <<>> PROVE Cut(t, e, 1)
        BY <1>1, <3>2, CutNothing
      <3>3. QED BY <3>1, <3>2
    <2>4. from[1] - Len(sep) - from[1] <= Limit
      BY <1>2, <1>3, <1>5
    <2>5. 1 \in 1..(0+1) /\ 0 + 1 = 1 /\ 0 \in 0..n
      BY <1>2
    <2>6. IsAssembled(t, pieces, sep, from, c[0], 0)
      BY <1>5, <2>1, <2>2, <2>3, <2>4, <2>5 DEF IsAssembled
    <2>7. QED BY <2>5, <2>6
  <1>7. ASSUME NEW i \in 1..n, i - 1 \in T PROVE i \in T
    <2>1. i \in 0..n /\ i - 1 \in 0..n /\ i \in 1..Len(pieces)
      BY <1>2 DEF n
    <2>2. IsAssembled(t, pieces, sep, from, c[i-1], i - 1)
      BY <1>7
    <2>3. c[i-1] \in [done : Seq(Seq(Char)), current : Seq(Seq(Char))]
      BY <1>4, <2>1
    <2>4. Len(pieces[i]) > ChunkSize => SolidCut(pieces[i], deeper[pieces[i]])
      BY <2>1
    <2>5. IsAssembled(t, pieces, sep, from, Collected(c[i-1], pieces[i], sep, deeper), i)
      BY <2>1, <2>2, <2>3, <2>4, CollectedIs, Zenon
    <2>6. c[i] = Collected(c[i-1], pieces[i], sep, deeper)
      BY <1>4
    <2>7. QED BY <2>1, <2>5, <2>6
  <1>8. IsAssembled(t, pieces, sep, from, c[n], n)
    <2> HIDE DEF T
    <2>1. \A i \in 0..n : i \in T
      BY <1>2, <1>6, <1>7, BoundedInduction
    <2>2. n \in T
      BY <2>1, <1>2
    <2>3. QED BY <2>2 DEF T
  <1>9. PICK first \in 1..(n+1) :
            /\ c[n].current = SubSeq(pieces, first, n)
            /\ Cut(t, c[n].done, from[first])
            /\ from[n+1] - Len(sep) - from[first] <= Limit
    BY <1>8 DEF IsAssembled
  <1> DEFINE d == Flushed(c[n].done, c[n].current, sep)
             g == from[n+1]
  <1>10. Cut(t, d, g)
    <2>1. n + 1 \in first..(n+1) /\ g - Len(sep) - g <= Overlap
      <3>1. first \in Nat /\ first <= n + 1
        BY <1>2
      <3>2. g \in Nat
        BY <1>2, <1>5
      <3>3. QED BY <1>2, <1>3, <3>1, <3>2
    <2>2. n \in Nat /\ n <= Len(pieces)
      BY <1>2 DEF n
    <2>3. Cut(t, Flushed(c[n].done, SubSeq(pieces, first, n), sep), from[n+1])
      BY <1>9, <2>1, <2>2, FlushedIs
    <2>4. QED BY <2>3, <1>9
  <1>11. g \in Nat /\ g > Len(t)
    BY <1>2, <1>5
  <1>12. Assembled(pieces, sep, deeper) = NonEmpty(d)
    BY DEF Assembled, Collecting, c, n
  <1> HIDE DEF d, g
  <1>13. SolidCut(t, NonEmpty(d))
    BY <1>1, <1>10, <1>11, NonEmptyCut
  <1>14. QED BY <1>12, <1>13

\* A text that fits no chunk is cut, if its long pieces are.
LEMMA SplitAtIs ==
    ASSUME NEW t \in Seq(Char), Len(t) > ChunkSize, NEW sep \in Seq(Blank), Len(sep) <= 2,
           NEW deeper, \A piece \in LongPieces(t, sep) : SolidCut(piece, deeper[piece])
    PROVE  SolidCut(t, SplitAt(t, sep, deeper))
  <1> DEFINE pieces == Split(t, sep)
  <1>1. t # <<>> /\ ~(Len(t) <= ChunkSize) /\ sep \in Seq(Char)
    BY SizeType DEF Blank, Char
  <1>2. pieces \in Seq(Seq(Char)) /\ \E from \in [1..(Len(pieces) + 1) -> Nat] : IsLaid(t, pieces, sep, from)
    BY <1>1, SplitLays
  <1> HIDE DEF pieces
  <1>3. PICK from : Layout(t, pieces, sep, from)
    BY <1>2 DEF Layout
  <1>4. ASSUME NEW k \in 1..Len(pieces), Len(pieces[k]) > ChunkSize
        PROVE  SolidCut(pieces[k], deeper[pieces[k]])
    <2>1. pieces[k] \in ToSet(pieces)
      BY <1>2 DEF ToSet
    <2>2. pieces[k] \in LongPieces(t, sep)
      BY <2>1, <1>4 DEF LongPieces, pieces
    <2>3. QED BY <2>2
  <1>5. SolidCut(t, Assembled(pieces, sep, deeper))
    BY <1>3, <1>4, AssembledIs
  <1>6. SplitAt(t, sep, deeper) = Assembled(pieces, sep, deeper)
    BY <1>1 DEF SplitAt, pieces
  <1>7. QED BY <1>5, <1>6

\* The pieces of a text are texts, and single characters where no separator is.
LEMMA LongPieceIs ==
    ASSUME NEW t \in Seq(Char), Len(t) > ChunkSize, NEW sep \in Seq(Blank),
           NEW piece \in LongPieces(t, sep)
    PROVE  piece \in Seq(Char) /\ Len(piece) > ChunkSize /\ sep # <<>>
  <1> DEFINE pieces == Split(t, sep)
  <1>1. t # <<>> /\ sep \in Seq(Char) /\ ChunkSize \in Nat /\ ChunkSize >= 1
    BY SizeType DEF Blank, Char
  <1>2. pieces \in Seq(Seq(Char)) /\ (sep = <<>> => \A i \in 1..Len(pieces) : Len(pieces[i]) = 1)
    BY <1>1, SplitLays
  <1>3. piece \in ToSet(pieces) /\ Len(piece) > ChunkSize
    BY DEF LongPieces
  <1> HIDE DEF pieces
  <1>4. PICK i \in 1..Len(pieces) : piece = pieces[i]
    BY <1>2, <1>3 DEF ToSet
  <1>5. piece \in Seq(Char)
    BY <1>2, <1>4
  <1>6. sep # <<>>
    <2>1. ASSUME sep = <<>> PROVE FALSE
      <3>1. Len(piece) = 1
        BY <1>2, <1>4, <2>1
      <3>2. ~(1 > ChunkSize)
        BY <1>1
      <3>3. QED BY <1>3, <3>1, <3>2
    <2>2. QED BY <2>1
  <1>7. QED BY <1>3, <1>5, <1>6

\* So it is at every separator, from the last to the first.
LEMMA SplitCharsIs ==
    ASSUME NEW t \in Seq(Char), Len(t) > ChunkSize
    PROVE  SolidCut(t, SplitChars(t))
  <1>1. ASSUME NEW sep \in Seq(Blank), sep = <<>> PROVE SolidCut(t, SplitAt(t, sep, sep))
    <2>1. \A piece \in LongPieces(t, sep) : SolidCut(piece, sep[piece])
      BY <1>1, LongPieceIs
    <2>2. Len(sep) <= 2
      BY <1>1
    <2>3. QED BY <2>1, <2>2, SplitAtIs
  <1>2. <<>> \in Seq(Blank)
    OBVIOUS
  <1>3. QED BY <1>1, <1>2 DEF SplitChars

\* At spaces.
LEMMA SplitWordsIs ==
    ASSUME NEW t \in Seq(Char), Len(t) > ChunkSize
    PROVE  SolidCut(t, SplitWords(t))
  <1> DEFINE sep == <<Space>>
             deeper == [piece \in LongPieces(t, sep) |-> SplitChars(piece)]
  <1>1. sep \in Seq(Blank) /\ Len(sep) <= 2
    BY DEF Blank
  <1>2. SplitWords(t) = SplitAt(t, sep, deeper)
    BY DEF SplitWords
  <1> HIDE DEF sep
  <1>3. \A piece \in LongPieces(t, sep) : SolidCut(piece, deeper[piece])
    BY <1>1, LongPieceIs, SplitCharsIs
  <1> HIDE DEF deeper
  <1>4. QED BY <1>1, <1>2, <1>3, SplitAtIs

\* At line breaks.
LEMMA SplitLinesIs ==
    ASSUME NEW t \in Seq(Char), Len(t) > ChunkSize
    PROVE  SolidCut(t, SplitLines(t))
  <1> DEFINE sep == <<Newline>>
             deeper == [piece \in LongPieces(t, sep) |-> SplitWords(piece)]
  <1>1. sep \in Seq(Blank) /\ Len(sep) <= 2
    BY DEF Blank
  <1>2. SplitLines(t) = SplitAt(t, sep, deeper)
    BY DEF SplitLines
  <1> HIDE DEF sep
  <1>3. \A piece \in LongPieces(t, sep) : SolidCut(piece, deeper[piece])
    BY <1>1, LongPieceIs, SplitWordsIs
  <1> HIDE DEF deeper
  <1>4. QED BY <1>1, <1>2, <1>3, SplitAtIs

\* At empty lines.
LEMMA SplitTextIs ==
    ASSUME NEW t \in Seq(Char), Len(t) > ChunkSize
    PROVE  SolidCut(t, SplitText(t))
  <1> DEFINE sep == <<Newline, Newline>>
             deeper == [piece \in LongPieces(t, sep) |-> SplitLines(piece)]
  <1>1. sep \in Seq(Blank) /\ Len(sep) <= 2
    BY DEF Blank
  <1>2. SplitText(t) = SplitAt(t, sep, deeper)
    BY DEF SplitText
  <1> HIDE DEF sep
  <1>3. \A piece \in LongPieces(t, sep) : SolidCut(piece, deeper[piece])
    BY <1>1, LongPieceIs, SplitLinesIs
  <1> HIDE DEF deeper
  <1>4. QED BY <1>1, <1>2, <1>3, SplitAtIs


\* Null bytes are no part of a text that has been cleaned.
Plain == Char \ {Null}

\* A cleaned text is empty, or it begins and ends with a character that is not blank.
LEMMA CleanIs ==
    ASSUME NEW text \in Seq(Char)
    PROVE  /\ Clean(text) \in Seq(Plain)
           /\ Clean(text) # <<>> =>
                 Clean(text)[1] \notin Blank /\ Clean(text)[Len(Clean(text))] \notin Blank
  <1> DEFINE t == Picked(text, {i \in DOMAIN text : text[i] # Null})
             P == {i \in DOMAIN t : ~(i > 2 /\ \A j \in (i - 2)..i : t[j] = Newline)}
             u == Picked(t, P)
             w == Clean(text)
  <1>1. w = Strip(u)
    BY DEF Clean
  <1>2. t \in Seq(Plain)
    <2> DEFINE Q == {i \in DOMAIN text : text[i] # Null}
               v == Picked(text, Q)
    <2>1. \A i \in 1..Len(text) : i \in Q => text[i] \in Plain
      BY DEF Plain
    <2> HIDE DEF Q
    <2>2. v \in Seq(Char)
      BY PickedType
    <2>3. \A x \in ToSet(v) : \E i \in 1..Len(text) : i \in Q /\ text[i] = x
      BY PickedMembers, Zenon
    <2> HIDE DEF v
    <2>4. ASSUME NEW i \in 1..Len(v) PROVE v[i] \in Plain
      <3>1. v[i] \in ToSet(v)
        BY <2>2 DEF ToSet
      <3>2. QED BY <3>1, <2>1, <2>3
    <2>5. v \in Seq(Plain)
      BY <2>2, <2>4
    <2>6. QED BY <2>5 DEF v, Q
  <1> HIDE DEF t, P
  <1>3. u \in Seq(Plain)
    BY <1>2, PickedType
  <1> HIDE DEF u, w
  <1>4. Len(u) \in Nat /\ u = SubSeq(u, 1, Len(u))
    BY <1>3
  <1>5. IsStripped(Strip(SubSeq(u, 1, Len(u))), u, 1, Len(u))
    BY <1>3, <1>4, StripIs
  <1>6. IsStripped(w, u, 1, Len(u))
    BY <1>1, <1>4, <1>5
  <1>7. w = <<>> => w \in Seq(Plain)
    OBVIOUS
  <1>8. ASSUME NEW c \in 1..Len(u), NEW d \in 1..Len(u), c <= d, u[c] \notin Blank, u[d] \notin Blank,
               w = SubSeq(u, c, d)
        PROVE  w \in Seq(Plain) /\ w[1] \notin Blank /\ w[Len(w)] \notin Blank
    <2>1. c \in Nat \ {0} /\ d \in Nat /\ c <= d + 1 /\ d <= Len(u)
      BY <1>4, <1>8
    <2>2. w \in Seq(Plain) /\ Len(w) = d - c + 1 /\ \A i \in 1..(d - c + 1) : w[i] = u[c + i - 1]
      BY <1>3, <1>8, <2>1, PassageIs
    <2>3. 1 \in 1..(d - c + 1) /\ d - c + 1 \in 1..(d - c + 1) /\ c + 1 - 1 = c /\ c + (d - c + 1) - 1 = d
      BY <2>1, <1>8
    <2>4. w[1] = u[c] /\ w[d - c + 1] = u[d]
      BY <2>2, <2>3
    <2>5. QED BY <2>2, <2>4, <1>8
  <1>9. QED
    <2>1. \/ w = <<>>
          \/ \E c, d \in 1..Len(u) :
                c <= d /\ u[c] \notin Blank /\ u[d] \notin Blank /\ w = SubSeq(u, c, d)
      BY <1>6 DEF IsStripped
    <2>2. w \in Seq(Plain) /\ (w # <<>> => w[1] \notin Blank /\ w[Len(w)] \notin Blank)
      <3>1. CASE w = <<>>
        BY <3>1, <1>7
      <3>2. CASE w # <<>>
        BY <3>2, <1>8, <2>1
      <3>3. QED BY <3>1, <3>2
    <2>3. QED BY <2>2 DEF w

\* The text of the pages.
LEMMA FullTextType ==
    ASSUME NEW pages \in Seq(PageRecord)
    PROVE  /\ FullText(pages) \in Seq(Char)
           /\ [i \in DOMAIN pages |-> WithNotes(pages[i])] \in Seq(Seq(Char))
           /\ \A i \in 1..Len(pages) : WithNotes(pages[i]) \in Seq(Char)
  <1> DEFINE pieces == [i \in DOMAIN pages |-> WithNotes(pages[i])]
             sep == <<Newline>>
  <1>1. sep \in Seq(Char)
    BY DEF Char
  <1>2. ASSUME NEW i \in 1..Len(pages) PROVE WithNotes(pages[i]) \in Seq(Char)
    <2>1. pages[i].text \in Seq(Char) /\ pages[i].notes \in Seq(Char)
      <3>1. pages[i] \in PageRecord
        OBVIOUS
      <3>2. QED BY <3>1 DEF PageRecord
    <2> HIDE DEF sep
    <2>2. pages[i].text \o sep \o pages[i].notes \in Seq(Char)
      BY <1>1, <2>1
    <2>3. QED BY <2>1, <2>2 DEF WithNotes, sep
  <1>3. pieces \in Seq(Seq(Char))
    <2>1. Len(pages) \in Nat /\ DOMAIN pages = 1..Len(pages)
      OBVIOUS
    <2>2. pieces \in [1..Len(pages) -> Seq(Char)]
      BY <1>2, <2>1
    <2>3. ASSUME NEW V, NEW n \in Nat, NEW s \in [1..n -> V] PROVE s \in Seq(V)
      OBVIOUS
    <2> HIDE DEF pieces
    <2>4. QED BY <2>1, <2>2, <2>3
  <1> HIDE DEF pieces, sep
  <1>4. Join(pieces, sep) \in Seq(Char)
    <2>1. \E x : x \in Seq(Char)
      BY <1>1
    <2>2. QED BY <1>1, <1>3, JoinAppend
  <1>5. QED BY <1>2, <1>3, <1>4 DEF FullText, pieces, sep

\* A text is cut into chunks, and nothing into none.
LEMMA TextIsCut ==
    ASSUME NEW t \in Seq(Char), t # <<>>, t[1] \notin Blank
    PROVE  SolidCut(t, SplitText(t))
  <1>1. Len(t) \in Nat /\ Len(t) >= 1
    BY DEF Char
  <1>2. ChunkSize \in Nat /\ Overlap \in Nat /\ Limit = ChunkSize + Overlap + 2
    BY SizeType DEF Limit
  <1>3. CASE Len(t) > ChunkSize
    BY <1>3, SplitTextIs
  <1>4. CASE ~(Len(t) > ChunkSize)
    <2> DEFINE c == SplitText(t)
               z == Len(t)
               a == [i \in 1..1 |-> 1]
               b == [i \in 1..1 |-> z]
    <2>1. c = <<t>>
      BY <1>1, <1>4, <1>2 DEF SplitText, SplitAt
    <2>2. c \in Seq(Seq(Char)) /\ Len(c) = 1 /\ c[1] = t
      <3> HIDE DEF c
      <3>1. QED BY <2>1
    <2>3. a \in [1..1 -> Nat] /\ b \in [1..1 -> Nat] /\ a[1] = 1 /\ b[1] = z
      BY <1>1
    <2>4. t = SubSeq(t, 1, z)
      OBVIOUS
    <2>5. 1 <= z + 1 /\ z - 1 + 1 <= Limit /\ 1 <= z + 1 /\ z - (z + 1) + 1 <= Overlap
      <3> HIDE DEF z
      <3>1. QED BY <1>1, <1>4, <1>2 DEF z
    <2> HIDE DEF a, b, c, z
    <2>6. \A i \in 1..1 : i = 1
      OBVIOUS
    <2>7. z \in Nat /\ z = Len(t) /\ z >= 1
      BY <1>1 DEF z
    <2>8. IsCut(t, c, z + 1, a, b)
      <3>1. \A i \in 1..1 : /\ a[i] >= 1 /\ a[i] <= b[i] + 1 /\ b[i] <= Len(t) /\ b[i] - a[i] + 1 <= Limit
                            /\ c[i] = SubSeq(t, a[i], b[i])
        BY <2>2, <2>3, <2>4, <2>5, <2>6, <2>7
      <3>2. \A i, j \in 1..1 : ~(i < j)
        OBVIOUS
      <3>3. \A p \in 1..Len(t) : a[1] <= p /\ p <= b[1]
        BY <2>3, <2>7
      <3>4. 1 \in 1..1
        OBVIOUS
      <3>5. QED BY <2>2, <2>3, <2>5, <2>6, <3>1, <3>2, <3>3, <3>4 DEF IsCut
    <2>9. IsSolidCut(t, c, a, b)
      BY <2>2, <2>3, <2>6, <2>7, <2>8 DEF IsSolidCut
    <2>10. SolidCut(t, c)
      BY <2>2, <2>3, <2>9 DEF SolidCut
    <2>11. QED BY <2>10 DEF c
  <1>5. QED BY <1>3, <1>4
=============================================================================
