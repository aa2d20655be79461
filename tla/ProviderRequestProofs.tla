------------------------ MODULE ProviderRequestProofs ------------------------
(***************************************************************************)
(* Theorems of ProviderRequest for every set of texts, of any length, cut  *)
(* into any pieces, every set of configurations and any number of calls.   *)
(*                                                                         *)
(*   - recursive functions whose argument comes nearer to an end exist, so *)
(*     that Visible and the stripper's loop are what their equations say;  *)
(*   - the loop over a window of a text: what it gives out and what is     *)
(*     visible behind what it holds back make up what is visible from the  *)
(*     beginning of the window;                                            *)
(*   - the stream, as such windows one after the other: ShownStaysVisible, *)
(*     AnswerIsVisible;                                                    *)
(*   - the configuration, by the results of its fold over the sources: the *)
(*     settings of a profile are what the last source to list it means, and*)
(*     a cached client is one of its key: EndpointsAsConfigured.           *)
(*   - what a call has left to ask and to read is less after each of its   *)
(*     steps: RetriesComeToAnEnd.                                          *)
(***************************************************************************)
EXTENDS ProviderRequest, SequenceTheorems, WellFoundedInduction, TLAPS

\* A non-empty set of naturals has a least element.
LEMMA LeastNatural ==
  ASSUME NEW S \in SUBSET Nat, S # {}
  PROVE  \E m \in S : \A n \in S : m <= n
<1> DEFINE R == {p \in Nat \X Nat : p[1] < p[2]}
<1>1. IsWellFoundedOn(R, Nat)
  BY NatLessThanWellFounded DEF OpToRel
<1> HIDE DEF R
<1>2. PICK m \in S : \A n \in S : <<n, m>> \notin R
  BY <1>1, WFMin
<1>3. \A n \in S : ~(n < m)
  BY <1>2 DEF R
<1> QED
  BY <1>3

\* What holds of 0 and of every number behind one it holds of, holds up to n.
LEMMA CountUp ==
  ASSUME NEW n \in Nat, NEW S, 0 \in S, \A k \in 1..n : k - 1 \in S => k \in S
  PROVE  0..n \subseteq S
<1> DEFINE B == {k \in 0..n : k \notin S}
<1>1. SUFFICES ASSUME B # {} PROVE FALSE
  OBVIOUS
<1>2. B \in SUBSET Nat
  OBVIOUS
<1>3. PICK m \in B : \A k \in B : m <= k
  <2> HIDE DEF B
  <2> QED
    BY <1>1, <1>2, LeastNatural
<1>4. m \in 1..n /\ m - 1 \in 0..n
  BY <1>3
<1>5. m - 1 \notin B
  BY <1>3, <1>4
<1> QED
  BY <1>3, <1>4, <1>5

\* g is defined on D by its values where next stops and by its value at next[x] elsewhere.
Recursive(g, D, stops, base, f, next) ==
  \A x \in D : g[x] = IF x \in stops THEN base[x] ELSE f[<<x, g[next[x]]>>]

\* next comes nearer to an end, by a rank up to n.
Descends(D, stops, next, rank, n) ==
  /\ stops \in SUBSET D
  /\ next \in [D -> D]
  /\ rank \in [D -> 0..n]
  /\ \A x \in D \ stops : rank[next[x]] < rank[x]

LEMMA RecursionExists ==
  ASSUME NEW D, NEW R, NEW n \in Nat, NEW stops, NEW next, NEW rank,
         Descends(D, stops, next, rank, n),
         NEW base \in [D -> R], NEW f \in [D \X R -> R]
  PROVE  \E g \in [D -> R] : Recursive(g, D, stops, base, f, next)
<1> DEFINE Value(g, x) == IF x \in stops THEN base[x] ELSE f[<<x, g[next[x]]>>]
           Good(g, k) == \A x \in D : rank[x] < k => g[x] = Value(g, x)
           S == {k \in 0..(n + 1) : \E g \in [D -> R] : Good(g, k)}
<1> USE DEF Descends
<1>1. 0 \in S
  <2>1. Good(base, 0) /\ 0 \in 0..(n + 1)
    OBVIOUS
  <2> HIDE DEF Good
  <2> QED
    BY <2>1
<1>2. ASSUME NEW k \in 1..(n + 1), k - 1 \in S PROVE k \in S
  <2>1. PICK g \in [D -> R] : Good(g, k - 1)
    BY <1>2
  <2> DEFINE h == [x \in D |-> Value(g, x)]
  <2>2. ASSUME NEW x \in D PROVE Value(g, x) \in R
    <3>1. next[x] \in D /\ g[next[x]] \in R
      OBVIOUS
    <3> QED
      BY <3>1
  <2>3. h \in [D -> R]
    <3> HIDE DEF Value
    <3> QED
      BY <2>2
  <2>4. ASSUME NEW x \in D, rank[x] < k PROVE h[x] = Value(h, x)
    <3>1. CASE x \in stops
      BY <3>1
    <3>2. CASE x \notin stops
      <4>1. next[x] \in D /\ rank[next[x]] \in 0..n /\ rank[x] \in 0..n /\ rank[next[x]] < rank[x]
        BY <3>2
      <4>2. rank[next[x]] < k - 1
        BY <2>4, <4>1
      <4>3. g[next[x]] = Value(g, next[x])
        BY <2>1, <4>1, <4>2
      <4>4. g[next[x]] = h[next[x]]
        <5> HIDE DEF Value
        <5> QED
          BY <4>1, <4>3
      <4>5. h[x] = f[<<x, g[next[x]]>>]
        BY <3>2
      <4>6. Value(h, x) = f[<<x, h[next[x]]>>]
        <5> HIDE DEF h
        <5> QED
          BY <3>2
      <4> HIDE DEF Value, h
      <4> QED
        BY <4>4, <4>5, <4>6
    <3> QED
      BY <3>1, <3>2
  <2>5. Good(h, k)
    <3> HIDE DEF Value, h
    <3> QED
      BY <2>4
  <2> HIDE DEF Good, h
  <2> QED
    BY <2>3, <2>5
<1>3. 0..(n + 1) \subseteq S
  <2>1. n + 1 \in Nat
    OBVIOUS
  <2> HIDE DEF S
  <2> QED
    BY <1>1, <1>2, <2>1, CountUp
<1>4. PICK g \in [D -> R] : Good(g, n + 1)
  <2>1. n + 1 \in 0..(n + 1)
    OBVIOUS
  <2> HIDE DEF Good
  <2> QED
    BY <1>3, <2>1
<1>5. ASSUME NEW x \in D PROVE g[x] = Value(g, x)
  <2>1. rank[x] \in 0..n
    OBVIOUS
  <2>2. rank[x] < n + 1
    BY <2>1
  <2> HIDE DEF Value
  <2> QED
    BY <1>4, <2>2
<1> QED
  BY <1>5 DEF Recursive
-----------------------------------------------------------------------------
(* Texts *)

\* The prover does not see that the characters of the tags are strings.
Char == STRING \cup {"<", "/", "t", ">"}

Text == Seq(Char)

Tags == {OpenTag, CloseTag}

LEMMA TagFacts ==
  /\ OpenTag \in Text /\ Len(OpenTag) = 3
  /\ CloseTag \in Text /\ Len(CloseTag) = 4
BY DEF OpenTag, CloseTag, Text, Char

LEMMA JoinedTexts ==
  ASSUME NEW s \in Text, NEW t \in Text, NEW u \in Text
  PROVE  s \o t \in Text /\ (s \o t) \o u = s \o (t \o u)
BY ConcatProperties, ConcatAssociative DEF Text

LEMMA SliceFacts ==
  ASSUME NEW m \in Text, NEW a \in 0..Len(m), NEW b \in a..Len(m)
  PROVE  LET w == SubSeq(m, a + 1, b)
         IN  /\ w \in Text /\ Len(w) = b - a
             /\ \A i \in 1..(b - a) : w[i] = m[a + i]
<1>1. Len(m) \in Nat /\ \A i \in (a + 1)..b : m[i] \in Char
  <2>1. Len(m) \in Nat
    BY LenProperties DEF Text
  <2> QED
    BY <2>1, ElementOfSeq DEF Text
<1>2. a \in Nat /\ b \in Nat /\ a <= b /\ a + 1 \in Int /\ b \in Int
  BY <1>1
<1> HIDE DEF Text, Char
<1>3. /\ SubSeq(m, a + 1, b) \in Seq(Char)
      /\ Len(SubSeq(m, a + 1, b)) = IF a + 1 <= b THEN b - (a + 1) + 1 ELSE 0
      /\ \A i \in 1..(b - (a + 1) + 1) : SubSeq(m, a + 1, b)[i] = m[a + 1 + i - 1]
  BY <1>1, <1>2, SubSeqProperties
<1>4. b - (a + 1) + 1 = b - a /\ \A i \in 1..(b - a) : a + 1 + i - 1 = a + i
  BY <1>2
<1>5. Len(SubSeq(m, a + 1, b)) = b - a
  BY <1>2, <1>3
<1> QED
  BY <1>3, <1>4, <1>5 DEF Text

\* A slice is made of two that meet, and a slice of a slice is one of the whole.
LEMMA SlicesMeet ==
  ASSUME NEW m \in Text, NEW a \in 0..Len(m), NEW b \in a..Len(m), NEW c \in b..Len(m)
  PROVE  SubSeq(m, a + 1, b) \o SubSeq(m, b + 1, c) = SubSeq(m, a + 1, c)
<1>1. Len(m) \in Nat /\ m \in Seq(Char)
  BY LenProperties DEF Text
<1>2. a + 1 \in 1..(Len(m) + 1) /\ b \in (a + 1 - 1)..Len(m) /\ c \in b..Len(m)
  BY <1>1
<1> QED
  BY <1>1, <1>2, ConcatAdjacentSubSeq

LEMMA SliceOfSlice ==
  ASSUME NEW m \in Text, NEW a \in 0..Len(m), NEW b \in a..Len(m),
         NEW c \in 0..(b - a), NEW d \in c..(b - a)
  PROVE  SubSeq(SubSeq(m, a + 1, b), c + 1, d) = SubSeq(m, a + c + 1, a + d)
<1> DEFINE w == SubSeq(m, a + 1, b)
           u == SubSeq(w, c + 1, d)
           v == SubSeq(m, a + c + 1, a + d)
<1>1. Len(m) \in Nat
  BY LenProperties DEF Text
<1>2. w \in Text /\ Len(w) = b - a /\ \A i \in 1..(b - a) : w[i] = m[a + i]
  BY SliceFacts
<1>3. c \in 0..Len(w) /\ d \in c..Len(w)
  BY <1>1, <1>2
<1> HIDE DEF w
<1>4. u \in Text /\ Len(u) = d - c /\ \A i \in 1..(d - c) : u[i] = w[c + i]
  BY <1>2, <1>3, SliceFacts
<1>5. a + c \in 0..Len(m) /\ a + d \in (a + c)..Len(m) /\ (a + d) - (a + c) = d - c
  BY <1>1
<1>6. v \in Text /\ Len(v) = d - c /\ \A i \in 1..(d - c) : v[i] = m[a + c + i]
  BY <1>5, SliceFacts
<1>7. ASSUME NEW i \in 1..(d - c) PROVE u[i] = v[i]
  <2>1. c + i \in 1..(b - a) /\ a + (c + i) = a + c + i
    BY <1>1
  <2> QED
    BY <1>2, <1>4, <1>6, <2>1
<1> HIDE DEF u, v
<1>8. u = v
  BY <1>4, <1>6, <1>7, SeqEqual DEF Text
<1> QED
  BY <1>8 DEF u, v, w

\* A tag stands in a slice where it stands in the whole, if it ends there.
LEMMA StartsInSlice ==
  ASSUME NEW m \in Text, NEW a \in 0..Len(m), NEW b \in a..Len(m), NEW n \in 0..(b - a),
         NEW tag \in Tags
  PROVE  StartsAt(SubSeq(m, a + 1, b), n, tag)
         <=> a + n + Len(tag) <= b /\ StartsAt(m, a + n, tag)
<1> DEFINE w == SubSeq(m, a + 1, b)
           k == Len(tag)
<1>1. Len(m) \in Nat /\ k \in Nat
  BY LenProperties, TagFacts DEF Text, Tags
<1>2. Len(w) = b - a
  BY SliceFacts
<1> HIDE DEF w, k
<1>3. n + k <= Len(w) <=> a + n + k <= b
  BY <1>1, <1>2
<1>4. a + n + k <= b => a + n + k <= Len(m)
  BY <1>1
<1>5. ASSUME a + n + k <= b
      PROVE  SubSeq(w, n + 1, n + k) = SubSeq(m, a + n + 1, a + n + k)
  <2>1. n + k \in n..(b - a) /\ a + (n + k) = a + n + k
    BY <1>1, <1>5
  <2> QED
    BY <2>1, SliceOfSlice DEF w
<1>6. StartsAt(w, n, tag) <=> n + k <= Len(w) /\ SubSeq(w, n + 1, n + k) = tag
  BY DEF StartsAt, k
<1>7. StartsAt(m, a + n, tag) <=> a + n + k <= Len(m) /\ SubSeq(m, a + n + 1, a + n + k) = tag
  BY DEF StartsAt, k
<1>8. StartsAt(w, n, tag) <=> a + n + k <= b /\ StartsAt(m, a + n, tag)
  BY <1>3, <1>4, <1>5, <1>6, <1>7
<1> QED
  BY <1>8 DEF w, k

LEMMA LeastPlace ==
  ASSUME NEW text \in Text, NEW n \in Nat, NEW tag, Places(text, n, tag) # {}
  PROVE  LET at == Min(Places(text, n, tag))
         IN  /\ at \in n..Len(text) /\ StartsAt(text, at, tag)
             /\ \A x \in n..(at - 1) : ~StartsAt(text, x, tag)
<1> DEFINE P == Places(text, n, tag)
           at == Min(P)
<1>1. Len(text) \in Nat
  BY LenProperties DEF Text
<1>2. P \in SUBSET Nat /\ P # {}
  BY <1>1 DEF Places
<1>3. at \in P /\ \A x \in P : at <= x
  <2> HIDE DEF P
  <2>1. \E x \in P : \A y \in P : x <= y
    BY <1>2, LeastNatural
  <2> QED
    BY <2>1 DEF Min
<1>4. at \in n..Len(text) /\ StartsAt(text, at, tag)
  <2> HIDE DEF at
  <2> QED
    BY <1>3 DEF Places
<1>5. ASSUME NEW x \in n..(at - 1) PROVE ~StartsAt(text, x, tag)
  <2>1. x \in n..Len(text) /\ ~(at <= x)
    <3> HIDE DEF at
    <3> QED
      BY <1>1, <1>4
  <2>2. x \notin P
    BY <1>3, <2>1
  <2> QED
    BY <2>1, <2>2 DEF Places
<1> HIDE DEF at, P
<1>6. /\ at \in n..Len(text) /\ StartsAt(text, at, tag)
      /\ \A x \in n..(at - 1) : ~StartsAt(text, x, tag)
  BY <1>4, <1>5
<1> QED
  BY <1>6 DEF at, P
-----------------------------------------------------------------------------
(* What is visible *)

\* What is visible behind each place of a text.
IsVisible(m, g) ==
  /\ g \in [0..Len(m) -> Text]
  /\ \A n \in 0..Len(m) :
       g[n] = IF n = Len(m) THEN <<>>
              ELSE IF ~StartsAt(m, n, OpenTag) THEN <<m[n + 1]>> \o g[n + 1]
              ELSE IF Places(m, n + Len(OpenTag), CloseTag) = {} THEN <<>>
              ELSE g[Min(Places(m, n + Len(OpenTag), CloseTag)) + Len(CloseTag)]

\* A tag that stands in a text ends in it.
LEMMA TagEnds ==
  ASSUME NEW text \in Text, NEW n \in Nat, NEW tag \in Tags, StartsAt(text, n, tag)
  PROVE  n + Len(tag) \in n..Len(text) /\ n + Len(tag) > n
<1>1. Len(tag) \in Nat /\ Len(tag) > 0
  BY TagFacts DEF Tags
<1>2. Len(text) \in Nat
  BY LenProperties DEF Text
<1> QED
  BY <1>1, <1>2 DEF StartsAt

LEMMA VisibleUnfolds ==
  ASSUME NEW m \in Text
  PROVE  \E g : IsVisible(m, g) /\ Visible(m) = g[0]
<1> DEFINE L == Len(m)
           D == 0..L
           Closing(n) == Places(m, n + Len(OpenTag), CloseTag)
           open == {n \in D : StartsAt(m, n, OpenTag)}
           stops == {L} \cup {n \in open : Closing(n) = {}}
           base == [n \in D |-> <<>>]
           f == [p \in D \X Text |-> IF p[1] \in open \/ p[1] \notin 0..(L - 1) THEN p[2]
                                     ELSE <<m[p[1] + 1]>> \o p[2]]
           next == [n \in D |-> IF n \in stops THEN n
                                ELSE IF n \in open THEN Min(Closing(n)) + Len(CloseTag)
                                ELSE n + 1]
           rank == [n \in D |-> L - n]
           from == CHOOSE g : g = [n \in D |->
                     IF n = L THEN <<>>
                     ELSE IF ~StartsAt(m, n, OpenTag) THEN <<m[n + 1]>> \o g[n + 1]
                     ELSE IF Closing(n) = {} THEN <<>>
                     ELSE g[Min(Closing(n)) + Len(CloseTag)]]
<1>1. L \in Nat /\ Len(OpenTag) \in Nat /\ Len(CloseTag) \in Nat /\ <<>> \in Text
  BY LenProperties, TagFacts, EmptySeq DEF Text
<1> HIDE DEF L
<1>2. base \in [D -> Text] /\ stops \in SUBSET D /\ rank \in [D -> 0..L]
  <2>1. \A n \in D : L - n \in 0..L
    BY <1>1
  <2> HIDE DEF Closing
  <2> QED
    BY <1>1, <2>1
<1>3. ASSUME NEW n \in D, NEW r \in Text PROVE f[<<n, r>>] \in Text
  <2>1. CASE n \in open \/ n \notin 0..(L - 1)
    BY <2>1
  <2>2. CASE n \notin open /\ n \in 0..(L - 1)
    <3>1. n + 1 \in 1..Len(m)
      BY <1>1, <2>2 DEF L
    <3>2. m[n + 1] \in Char
      BY <3>1, ElementOfSeq DEF Text
    <3>3. <<m[n + 1]>> \in Seq(Char)
      BY <3>2
    <3>4. <<m[n + 1]>> \o r \in Text
      BY <3>3, ConcatProperties DEF Text
    <3>5. f[<<n, r>>] = <<m[n + 1]>> \o r
      <4> HIDE DEF open
      <4> QED
        BY <2>2
    <3> QED
      BY <3>4, <3>5
  <2> QED
    BY <2>1, <2>2
<1>4. f \in [D \X Text -> Text]
  <2>1. \A p \in D \X Text : p = <<p[1], p[2]>> /\ p[1] \in D /\ p[2] \in Text
    OBVIOUS
  <2>2. \A p \in D \X Text : f[p] \in Text
    <3> HIDE DEF f, D
    <3> QED
      BY <1>3, <2>1
  <2>3. \E e \in {f} : f = [p \in D \X Text |-> e[p]]
    <3> HIDE DEF open
    <3> QED
      OBVIOUS
  <2> HIDE DEF f
  <2> QED
    BY <2>2, <2>3
<1>5. ASSUME NEW n \in D, n \notin stops
      PROVE  /\ n \in 0..(L - 1)
             /\ n \notin open => n + 1 \in D
             /\ n \in open => /\ Closing(n) # {}
                              /\ Min(Closing(n)) + Len(CloseTag) \in D
                              /\ Min(Closing(n)) + Len(CloseTag) > n
  <2>1. n \in 0..(L - 1)
    BY <1>1, <1>5
  <2>2. CASE n \in open
    <3>1. Closing(n) # {} /\ n + Len(OpenTag) \in Nat /\ n + Len(OpenTag) >= n
      BY <1>1, <1>5, <2>2
    <3> DEFINE at == Min(Closing(n))
    <3>2. at \in (n + Len(OpenTag))..L /\ StartsAt(m, at, CloseTag)
      BY <3>1, LeastPlace DEF L
    <3> HIDE DEF at
    <3>3. at + Len(CloseTag) \in at..L /\ at + Len(CloseTag) > at
      <4>1. at \in Nat /\ CloseTag \in Tags
        BY <1>1, <3>2 DEF Tags
      <4> QED
        BY <3>2, <4>1, TagEnds DEF L
    <3>4. at + Len(CloseTag) \in D /\ at + Len(CloseTag) > n
      BY <1>1, <3>1, <3>2, <3>3
    <3> QED
      BY <2>1, <2>2, <3>1, <3>4 DEF at
  <2>3. CASE n \notin open
    BY <1>1, <2>1, <2>3
  <2> QED
    BY <2>2, <2>3
<1>6. ASSUME NEW n \in D PROVE next[n] \in D /\ (n \notin stops => L - next[n] < L - n)
  <2>1. CASE n \in stops
    <3> HIDE DEF stops
    <3> QED
      BY <2>1
  <2>2. CASE n \notin stops /\ n \in open
    <3>1. next[n] = Min(Closing(n)) + Len(CloseTag)
      <4> HIDE DEF stops, open, Closing
      <4> QED
        BY <2>2
    <3> HIDE DEF next, Closing, open, stops
    <3> QED
      BY <1>1, <1>5, <2>2, <3>1
  <2>3. CASE n \notin stops /\ n \notin open
    <3>1. next[n] = n + 1
      <4> HIDE DEF stops, open, Closing
      <4> QED
        BY <2>3
    <3> HIDE DEF next, Closing, open, stops
    <3> QED
      BY <1>1, <1>5, <2>3, <3>1
  <2> QED
    BY <2>1, <2>2, <2>3
<1>7. next \in [D -> D] /\ \A n \in D \ stops : rank[next[n]] < rank[n]
  <2>1. \E e \in {next} : next = [n \in D |-> e[n]]
    <3> HIDE DEF stops, open, Closing
    <3> QED
      OBVIOUS
  <2>2. next \in [D -> D]
    <3> HIDE DEF next, stops
    <3> QED
      BY <1>6, <2>1
  <2> HIDE DEF next, stops
  <2> QED
    BY <1>6, <2>2
<1>8. PICK g \in [D -> Text] : \A n \in D :
        g[n] = IF n \in stops THEN base[n] ELSE f[<<n, g[next[n]]>>]
  <2> HIDE DEF stops, base, f, next, rank, D
  <2>1. Descends(D, stops, next, rank, L)
    BY <1>2, <1>7 DEF Descends
  <2>2. \E g \in [D -> Text] : Recursive(g, D, stops, base, f, next)
    BY <1>1, <1>2, <1>4, <2>1, RecursionExists
  <2> QED
    BY <2>2 DEF Recursive
<1>9. ASSUME NEW n \in D
      PROVE  g[n] = IF n = L THEN <<>>
                    ELSE IF ~StartsAt(m, n, OpenTag) THEN <<m[n + 1]>> \o g[n + 1]
                    ELSE IF Closing(n) = {} THEN <<>>
                    ELSE g[Min(Closing(n)) + Len(CloseTag)]
  <2>1. CASE n \in stops
    <3>1. g[n] = <<>>
      <4> HIDE DEF stops, f, next
      <4> QED
        BY <1>8, <2>1
    <3>2. n = L \/ (StartsAt(m, n, OpenTag) /\ Closing(n) = {})
      <4> HIDE DEF Closing
      <4> QED
        BY <2>1
    <3> HIDE DEF Closing
    <3> QED
      BY <3>1, <3>2
  <2>2. CASE n \notin stops /\ n \in open
    <3>1. g[n] = f[<<n, g[next[n]]>>] /\ g[next[n]] \in Text
      <4> HIDE DEF f, next, stops
      <4> QED
        BY <1>6, <1>8, <2>2
    <3>2. f[<<n, g[next[n]]>>] = g[next[n]]
      <4> HIDE DEF next, open
      <4> QED
        BY <2>2, <3>1
    <3>3. next[n] = Min(Closing(n)) + Len(CloseTag)
      <4> HIDE DEF stops, open, Closing
      <4> QED
        BY <2>2
    <3>4. n # L /\ StartsAt(m, n, OpenTag) /\ Closing(n) # {}
      <4> HIDE DEF Closing
      <4> QED
        BY <2>2
    <3> HIDE DEF f, next, Closing, stops, open
    <3> QED
      BY <3>1, <3>2, <3>3, <3>4
  <2>3. CASE n \notin stops /\ n \notin open
    <3>1. g[n] = f[<<n, g[next[n]]>>] /\ g[next[n]] \in Text
      <4> HIDE DEF f, next, stops
      <4> QED
        BY <1>6, <1>8, <2>3
    <3>2. n \in 0..(L - 1)
      BY <1>5, <2>3
    <3>3. f[<<n, g[next[n]]>>] = <<m[n + 1]>> \o g[next[n]]
      <4> HIDE DEF next, open
      <4> QED
        BY <2>3, <3>1, <3>2
    <3>4. next[n] = n + 1
      <4> HIDE DEF stops, open, Closing
      <4> QED
        BY <2>3
    <3>5. n # L /\ ~StartsAt(m, n, OpenTag)
      <4> HIDE DEF Closing
      <4> QED
        BY <2>3
    <3> HIDE DEF f, next, Closing, stops, open
    <3> QED
      BY <3>1, <3>3, <3>4, <3>5
  <2> QED
    BY <2>1, <2>2, <2>3
<1>10. g = [n \in D |->
              IF n = L THEN <<>>
              ELSE IF ~StartsAt(m, n, OpenTag) THEN <<m[n + 1]>> \o g[n + 1]
              ELSE IF Closing(n) = {} THEN <<>>
              ELSE g[Min(Closing(n)) + Len(CloseTag)]]
  <2> HIDE DEF Closing
  <2> QED
    BY <1>8, <1>9
<1>11. from = [n \in D |->
              IF n = L THEN <<>>
              ELSE IF ~StartsAt(m, n, OpenTag) THEN <<m[n + 1]>> \o from[n + 1]
              ELSE IF Closing(n) = {} THEN <<>>
              ELSE from[Min(Closing(n)) + Len(CloseTag)]]
  <2> HIDE DEF Closing, D
  <2> QED
    BY <1>10, Zenon
<1>12. Visible(m) = from[0]
  BY Zenon DEF Visible, L
<1> DEFINE Same(n) == from[n] = g[n]
           S == {k \in 0..L : \A n \in D : L - n <= k => Same(n)}
<1>13. ASSUME NEW n \in D
       PROVE  from[n] = IF n = L THEN <<>>
                        ELSE IF ~StartsAt(m, n, OpenTag) THEN <<m[n + 1]>> \o from[n + 1]
                        ELSE IF Closing(n) = {} THEN <<>>
                        ELSE from[Min(Closing(n)) + Len(CloseTag)]
  <2> HIDE DEF from, Closing, D
  <2> QED
    BY <1>11
<1> HIDE DEF from
<1>14. ASSUME NEW n \in D, n \notin stops => Same(next[n])
       PROVE  Same(n)
  <2>1. CASE n \in stops
    <3>1. n = L \/ (StartsAt(m, n, OpenTag) /\ Closing(n) = {})
      <4> HIDE DEF Closing
      <4> QED
        BY <2>1
    <3> HIDE DEF Closing, stops, D
    <3> QED
      BY <1>9, <1>13, <3>1
  <2>2. CASE n \notin stops /\ n \in open
    <3>1. next[n] = Min(Closing(n)) + Len(CloseTag)
      <4> HIDE DEF stops, open, Closing
      <4> QED
        BY <2>2
    <3>2. n # L /\ StartsAt(m, n, OpenTag) /\ Closing(n) # {}
      <4> HIDE DEF Closing
      <4> QED
        BY <2>2
    <3> HIDE DEF next, Closing, stops, open, D
    <3> QED
      BY <1>9, <1>13, <1>14, <2>2, <3>1, <3>2
  <2>3. CASE n \notin stops /\ n \notin open
    <3>1. next[n] = n + 1
      <4> HIDE DEF stops, open, Closing
      <4> QED
        BY <2>3
    <3>2. n # L /\ ~StartsAt(m, n, OpenTag)
      <4> HIDE DEF Closing
      <4> QED
        BY <2>3
    <3> HIDE DEF next, Closing, stops, open, D
    <3> QED
      BY <1>9, <1>13, <1>14, <2>3, <3>1, <3>2
  <2> QED
    BY <2>1, <2>2, <2>3
<1>15. 0 \in S
  <2>1. ASSUME NEW n \in D, L - n <= 0 PROVE Same(n)
    <3>1. n = L
      BY <1>1, <2>1
    <3> HIDE DEF Same, open, next
    <3> QED
      BY <1>14, <3>1
  <2> HIDE DEF Same
  <2> QED
    BY <1>1, <2>1
<1>16. ASSUME NEW k \in 1..L, k - 1 \in S PROVE k \in S
  <2>1. ASSUME NEW n \in D, L - n <= k PROVE Same(n)
    <3>1. ASSUME n \notin stops PROVE Same(next[n])
      <4>1. next[n] \in D /\ L - next[n] < L - n
        <5> HIDE DEF next, stops
        <5> QED
          BY <1>6, <3>1
      <4>2. L - next[n] <= k - 1
        <5> HIDE DEF next
        <5> QED
          BY <1>1, <2>1, <4>1
      <4> HIDE DEF Same, next
      <4> QED
        BY <1>16, <4>1, <4>2
    <3> HIDE DEF Same, next, stops
    <3> QED
      BY <1>14, <3>1
  <2> HIDE DEF Same
  <2> QED
    BY <1>1, <2>1
<1>17. L \in S
  <2> HIDE DEF S
  <2>1. 0..L \subseteq S
    BY <1>1, <1>15, <1>16, CountUp
  <2> QED
    BY <1>1, <2>1
<1>18. from[0] = g[0]
  <2>1. 0 \in D /\ L - 0 <= L
    BY <1>1
  <2> QED
    BY <1>17, <2>1
<1>19. IsVisible(m, g)
  <2> HIDE DEF Closing
  <2> QED
    BY <1>8, <1>9 DEF IsVisible, L, Closing
<1> QED
  BY <1>12, <1>18, <1>19

\* Up to the next tag that opens a thought everything is visible.
LEMMA VisibleRun ==
  ASSUME NEW m \in Text, NEW g, IsVisible(m, g),
         NEW p \in 0..Len(m), NEW q \in p..Len(m),
         \A x \in p..(q - 1) : ~StartsAt(m, x, OpenTag)
  PROVE  g[p] = SubSeq(m, p + 1, q) \o g[q]
<1> DEFINE Good(x) == g[x] = SubSeq(m, x + 1, q) \o g[q]
           S == {k \in 0..(q - p) : Good(q - k)}
<1>1. Len(m) \in Nat /\ q - p \in Nat /\ q \in 0..Len(m)
  BY LenProperties DEF Text
<1>2. \A x \in 0..Len(m) : g[x] \in Text
  BY DEF IsVisible
<1>3. 0 \in S
  <2>1. SubSeq(m, q + 1, q) = <<>>
    BY <1>1, SubSeqEmpty
  <2>2. <<>> \o g[q] = g[q]
    BY <1>1, <1>2, ConcatEmptySeq DEF Text
  <2>3. q - 0 = q /\ 0 \in 0..(q - p)
    BY <1>1
  <2>4. Good(q)
    BY <2>1, <2>2
  <2> HIDE DEF Good
  <2> QED
    BY <2>3, <2>4
<1>4. ASSUME NEW k \in 1..(q - p), k - 1 \in S PROVE k \in S
  <2> DEFINE x == q - k
  <2>1. x \in p..(q - 1) /\ x + 1 = q - (k - 1) /\ x \in 0..Len(m) /\ x # Len(m)
        /\ x + 1 \in x..q /\ x + 1 \in 0..Len(m) /\ q \in (x + 1)..Len(m) /\ x + 1 \in 1..Len(m)
    BY <1>1
  <2>2. Good(x + 1)
    BY <1>4, <2>1
  <2>3. ~StartsAt(m, x, OpenTag)
    BY <2>1
  <2> HIDE DEF x
  <2>4. g[x] = <<m[x + 1]>> \o g[x + 1]
    BY <2>1, <2>3 DEF IsVisible
  <2>5. SubSeq(m, x + 1, x + 1) = <<m[x + 1]>>
    <3>1. SubSeq(m, x + 1, x + 1) \in Text /\ Len(SubSeq(m, x + 1, x + 1)) = (x + 1) - x
          /\ \A i \in 1..((x + 1) - x) : SubSeq(m, x + 1, x + 1)[i] = m[x + i]
      <4>1. x + 1 \in x..Len(m)
        BY <1>1, <2>1
      <4> QED
        BY <2>1, <4>1, SliceFacts
    <3>2. (x + 1) - x = 1 /\ 1 \in 1..((x + 1) - x)
      BY <2>1
    <3>3. m[x + 1] \in Char
      BY <2>1, ElementOfSeq DEF Text
    <3>4. <<m[x + 1]>> \in Text /\ Len(<<m[x + 1]>>) = 1 /\ <<m[x + 1]>>[1] = m[x + 1]
      BY <3>3 DEF Text
    <3>5. SubSeq(m, x + 1, x + 1)[1] = m[x + 1]
      BY <3>1, <3>2
    <3> HIDE DEF Text
    <3>6. \A i \in 1..1 : i = 1
      OBVIOUS
    <3> QED
      BY <3>1, <3>2, <3>4, <3>5, <3>6, SeqEqual DEF Text
  <2>6. SubSeq(m, x + 1, x + 1) \o SubSeq(m, x + 1 + 1, q) = SubSeq(m, x + 1, q)
    <3>1. x \in 0..Len(m) /\ x + 1 \in x..Len(m) /\ q \in (x + 1)..Len(m)
      BY <1>1, <2>1
    <3> QED
      BY <3>1, SlicesMeet
  <2>7. SubSeq(m, x + 1, x + 1) \in Text /\ SubSeq(m, x + 1 + 1, q) \in Text
    <3>1. x \in 0..Len(m) /\ x + 1 \in x..Len(m) /\ q \in (x + 1)..Len(m)
      BY <1>1, <2>1
    <3> QED
      BY <2>1, <3>1, SliceFacts
  <2>8. (SubSeq(m, x + 1, x + 1) \o SubSeq(m, x + 1 + 1, q)) \o g[q]
        = SubSeq(m, x + 1, x + 1) \o (SubSeq(m, x + 1 + 1, q) \o g[q])
    <3>1. g[q] \in Text
      BY <1>1, <1>2
    <3>2. \A c, d, e \in Text : (c \o d) \o e = c \o (d \o e)
      BY JoinedTexts
    <3> QED
      BY <2>7, <3>1, <3>2
  <2>9. Good(x)
    BY <2>2, <2>4, <2>5, <2>6, <2>8
  <2> HIDE DEF Good
  <2> QED
    BY <1>4, <2>9 DEF x
<1>5. q - p \in S
  <2> HIDE DEF S
  <2>1. 0..(q - p) \subseteq S
    BY <1>1, <1>3, <1>4, CountUp
  <2> QED
    BY <1>1, <2>1
<1>6. q - (q - p) = p
  BY <1>1
<1> QED
  BY <1>5, <1>6

\* What is visible behind place p, within a thought or outside.
Rest(m, g, inThink, p) ==
  IF ~inThink THEN g[p]
  ELSE IF Places(m, p, CloseTag) = {} THEN <<>>
  ELSE g[Min(Places(m, p, CloseTag)) + Len(CloseTag)]

LEMMA ThoughtClosesIn ==
  ASSUME NEW m \in Text, NEW p \in 0..Len(m), Places(m, p, CloseTag) # {}
  PROVE  Min(Places(m, p, CloseTag)) + Len(CloseTag) \in 0..Len(m)
<1> DEFINE at == Min(Places(m, p, CloseTag))
<1>1. Len(m) \in Nat /\ p \in Nat /\ CloseTag \in Tags
  BY LenProperties DEF Text, Tags
<1>2. at \in p..Len(m) /\ StartsAt(m, at, CloseTag)
  BY <1>1, LeastPlace
<1> HIDE DEF at
<1>3. at \in Nat
  BY <1>1, <1>2
<1>4. at + Len(CloseTag) \in at..Len(m)
  BY <1>1, <1>2, <1>3, TagEnds
<1>5. at + Len(CloseTag) \in 0..Len(m)
  BY <1>1, <1>3, <1>4
<1> QED
  BY <1>5 DEF at

LEMMA RestTyped ==
  ASSUME NEW m \in Text, NEW g, IsVisible(m, g), NEW inThink \in BOOLEAN, NEW p \in 0..Len(m)
  PROVE  Rest(m, g, inThink, p) \in Text
<1>1. \A n \in 0..Len(m) : g[n] \in Text
  BY DEF IsVisible
<1>2. <<>> \in Text
  BY EmptySeq DEF Text
<1> QED
  BY <1>1, <1>2, ThoughtClosesIn DEF Rest

\* At the end of the text nothing is left, whatever is open.
LEMMA RestAtEnd ==
  ASSUME NEW m \in Text, NEW g, IsVisible(m, g), NEW inThink \in BOOLEAN
  PROVE  Rest(m, g, inThink, Len(m)) = <<>>
<1>1. Len(m) \in Nat /\ CloseTag \in Tags
  BY LenProperties DEF Text, Tags
<1>2. g[Len(m)] = <<>>
  <2>1. Len(m) \in 0..Len(m)
    BY <1>1
  <2> QED
    BY <2>1 DEF IsVisible
<1>3. Places(m, Len(m), CloseTag) = {}
  <2>1. SUFFICES ASSUME NEW n \in Places(m, Len(m), CloseTag) PROVE FALSE
    OBVIOUS
  <2>2. n \in Len(m)..Len(m) /\ StartsAt(m, n, CloseTag)
    BY <2>1 DEF Places
  <2>3. n \in Nat /\ n = Len(m)
    BY <1>1, <2>2
  <2>4. n + Len(CloseTag) \in n..Len(m) /\ n + Len(CloseTag) > n
    BY <1>1, <2>2, <2>3, TagEnds
  <2> QED
    BY <1>1, <2>3, <2>4
<1> QED
  BY <1>2, <1>3 DEF Rest

\* Where no tag that ends a thought stands, the thought goes on.
LEMMA ThoughtGoesOn ==
  ASSUME NEW m \in Text, NEW g, NEW p \in 0..Len(m), NEW q \in p..Len(m),
         \A x \in p..(q - 1) : ~StartsAt(m, x, CloseTag)
  PROVE  Rest(m, g, TRUE, p) = Rest(m, g, TRUE, q)
<1>1. Len(m) \in Nat
  BY LenProperties DEF Text
<1>2. \A x \in p..Len(m) : StartsAt(m, x, CloseTag) => x \in q..Len(m)
  BY <1>1
<1>3. q..Len(m) \subseteq p..Len(m)
  BY <1>1
<1>4. Places(m, p, CloseTag) = Places(m, q, CloseTag)
  BY <1>2, <1>3 DEF Places
<1> QED
  BY <1>4 DEF Rest

\* A thought ends with the first tag that closes it.
LEMMA ThoughtCloses ==
  ASSUME NEW m \in Text, NEW g, NEW p \in 0..Len(m), NEW at \in p..Len(m),
         StartsAt(m, at, CloseTag), \A x \in p..(at - 1) : ~StartsAt(m, x, CloseTag)
  PROVE  Rest(m, g, TRUE, p) = Rest(m, g, FALSE, at + Len(CloseTag))
<1>1. Len(m) \in Nat /\ p \in Nat
  BY LenProperties DEF Text
<1>2. at \in Places(m, p, CloseTag)
  BY DEF Places
<1> DEFINE least == Min(Places(m, p, CloseTag))
<1>3. /\ least \in p..Len(m) /\ StartsAt(m, least, CloseTag)
      /\ \A x \in p..(least - 1) : ~StartsAt(m, x, CloseTag)
  BY <1>1, <1>2, LeastPlace
<1> HIDE DEF least
<1>4. ~(at < least) /\ ~(least < at)
  BY <1>1, <1>3
<1>5. least = at
  BY <1>1, <1>3, <1>4
<1> QED
  BY <1>2, <1>5 DEF Rest, least

\* Behind a tag that opens a thought the thought is.
LEMMA ThoughtOpens ==
  ASSUME NEW m \in Text, NEW g, IsVisible(m, g),
         NEW at \in 0..Len(m), StartsAt(m, at, OpenTag)
  PROVE  g[at] = Rest(m, g, TRUE, at + Len(OpenTag))
<1>1. Len(m) \in Nat /\ at \in Nat /\ OpenTag \in Tags
  BY LenProperties DEF Text, Tags
<1>2. at + Len(OpenTag) \in at..Len(m) /\ at + Len(OpenTag) > at
  BY <1>1, TagEnds
<1>3. at # Len(m)
  BY <1>1, <1>2
<1> QED
  BY <1>3 DEF IsVisible, Rest
-----------------------------------------------------------------------------
(* The loop of the stripper *)

\* Where the loop is in its window, and what it leaves.
Positions(text) == [behind : 0..Len(text), inThink : BOOLEAN]

Result == [inThink : BOOLEAN, pending : Text, output : Text]

\* The tag the loop looks for.
Sought(inThink) == IF inThink THEN CloseTag ELSE OpenTag

\* How far the text is looked through when the tag sought is not in it.
End(text, s, final) ==
  Len(text) - IF final THEN 0 ELSE HeldBack(Len(text) - s.behind, Sought(s.inThink))

\* What is given out of the text between a position and n.
Seen(text, s, n) == IF s.inThink THEN <<>> ELSE SubSeq(text, s.behind + 1, n)

\* Where that tag begins next, and the position behind it.
Found(text, s) == Min(Places(text, s.behind, Sought(s.inThink)))

Behind(text, s) ==
  [behind |-> Found(text, s) + Len(Sought(s.inThink)), inThink |-> ~s.inThink]

\* The tag is not in the rest of the window: the loop stops there.
Nowhere(text, s) == Places(text, s.behind, Sought(s.inThink)) = {}

Stopped(text, s, final) ==
  [inThink |-> s.inThink, pending |-> After(text, End(text, s, final)),
   output |-> Seen(text, s, End(text, s, final))]

IsLoop(text, final, h) ==
  \A s \in Positions(text) :
    h[s] = IF Nowhere(text, s) THEN Stopped(text, s, final)
           ELSE [h[Behind(text, s)] EXCEPT !.output = Seen(text, s, Found(text, s)) \o @]

LEMMA SoughtTag ==
  ASSUME NEW inThink \in BOOLEAN
  PROVE  Sought(inThink) \in Tags /\ Len(Sought(inThink)) \in {3, 4}
BY TagFacts DEF Sought, Tags

LEMMA EndFacts ==
  ASSUME NEW text \in Text, NEW s \in Positions(text), NEW final \in BOOLEAN
  PROVE  /\ End(text, s, final) \in s.behind..Len(text)
         /\ final => End(text, s, final) = Len(text)
         /\ ~final => \/ End(text, s, final) = s.behind
                      \/ End(text, s, final) = Len(text) - (Len(Sought(s.inThink)) - 1)
<1>1. Len(text) \in Nat /\ s.behind \in 0..Len(text) /\ s.inThink \in BOOLEAN
  BY LenProperties DEF Text, Positions
<1>2. Len(Sought(s.inThink)) \in {3, 4}
  BY <1>1, SoughtTag
<1> DEFINE l == Len(text)
           b == s.behind
           k == Len(Sought(s.inThink))
<1>3. l \in Nat /\ b \in 0..l /\ k \in {3, 4}
  BY <1>1, <1>2
<1>4. End(text, s, final) = l - IF final THEN 0 ELSE IF l - b < k - 1 THEN l - b ELSE k - 1
  BY DEF End, HeldBack, Least
<1> HIDE DEF l, b, k
<1>5. CASE final
  <2>1. End(text, s, final) = l /\ l \in b..l
    BY <1>3, <1>4, <1>5
  <2> QED
    BY <1>5, <2>1 DEF l, b
<1>6. CASE ~final /\ l - b < k - 1
  <2>1. End(text, s, final) = l - (l - b)
    BY <1>4, <1>6
  <2>2. l - (l - b) = b /\ b \in b..l
    BY <1>3
  <2> QED
    BY <1>6, <2>1, <2>2 DEF l, b
<1>7. CASE ~final /\ ~(l - b < k - 1)
  <2>1. End(text, s, final) = l - (k - 1)
    BY <1>4, <1>7
  <2>2. l - (k - 1) \in b..l
    BY <1>3, <1>7
  <2> QED
    BY <1>7, <2>1, <2>2 DEF l, b, k
<1> QED
  BY <1>5, <1>6, <1>7

LEMMA FoundFacts ==
  ASSUME NEW text \in Text, NEW s \in Positions(text), ~Nowhere(text, s)
  PROVE  /\ Found(text, s) \in s.behind..Len(text)
         /\ StartsAt(text, Found(text, s), Sought(s.inThink))
         /\ \A x \in s.behind..(Found(text, s) - 1) : ~StartsAt(text, x, Sought(s.inThink))
         /\ Behind(text, s) \in Positions(text)
         /\ Behind(text, s).behind = Found(text, s) + Len(Sought(s.inThink))
         /\ Behind(text, s).behind > s.behind
         /\ Behind(text, s).inThink = ~s.inThink
<1> DEFINE at == Found(text, s)
           tag == Sought(s.inThink)
<1>1. Len(text) \in Nat /\ s.behind \in 0..Len(text) /\ s.inThink \in BOOLEAN
  BY LenProperties DEF Text, Positions
<1>2. tag \in Tags
  BY <1>1, SoughtTag
<1>3. s.behind \in Nat /\ Places(text, s.behind, tag) # {}
  BY <1>1 DEF Nowhere
<1>4. /\ at \in s.behind..Len(text) /\ StartsAt(text, at, tag)
      /\ \A x \in s.behind..(at - 1) : ~StartsAt(text, x, tag)
  <2> HIDE DEF tag
  <2> QED
    BY <1>3, LeastPlace DEF Found, tag
<1>5. Behind(text, s) = [behind |-> at + Len(tag), inThink |-> ~s.inThink]
  BY DEF Behind
<1> HIDE DEF at, tag
<1>6. at \in Nat
  BY <1>1, <1>4
<1>7. at + Len(tag) \in at..Len(text) /\ at + Len(tag) > at
  BY <1>2, <1>4, <1>6, TagEnds
<1>8. at + Len(tag) \in 0..Len(text) /\ at + Len(tag) > s.behind
  BY <1>1, <1>4, <1>6, <1>7
<1>9. Behind(text, s) \in Positions(text)
  BY <1>1, <1>5, <1>8 DEF Positions
<1> QED
  BY <1>4, <1>5, <1>8, <1>9 DEF at, tag

\* What of the text is given out is text.
LEMMA SeenTyped ==
  ASSUME NEW text \in Text, NEW s \in Positions(text), NEW n \in s.behind..Len(text)
  PROVE  Seen(text, s, n) \in Text /\ After(text, n) \in Text
<1>1. Len(text) \in Nat /\ s.behind \in 0..Len(text) /\ <<>> \in Text
  BY LenProperties, EmptySeq DEF Text, Positions
<1>2. n \in 0..Len(text) /\ Len(text) \in n..Len(text)
  BY <1>1
<1>3. SubSeq(text, s.behind + 1, n) \in Text /\ SubSeq(text, n + 1, Len(text)) \in Text
  BY <1>1, <1>2, SliceFacts
<1> QED
  BY <1>1, <1>3 DEF Seen, After

LEMMA OutputPrefixed ==
  ASSUME NEW r \in Result, NEW text \in Text
  PROVE  [r EXCEPT !.output = text \o @]
         = [inThink |-> r.inThink, pending |-> r.pending, output |-> text \o r.output]
<1> DEFINE t == text \o r.output
           q == [r EXCEPT !.output = t]
<1>1. t \in Text
  BY JoinedTexts DEF Result
<1> HIDE DEF t
<1>2. q \in Result /\ q.output = t /\ q.inThink = r.inThink /\ q.pending = r.pending
  BY <1>1 DEF Result
<1> HIDE DEF q
<1>3. q = [inThink |-> r.inThink, pending |-> r.pending, output |-> t]
  BY <1>2 DEF Result
<1> QED
  BY <1>3 DEF q, t

LEMMA LoopExists ==
  ASSUME NEW text \in Text, NEW final \in BOOLEAN
  PROVE  \E h \in [Positions(text) -> Result] : IsLoop(text, final, h)
<1> DEFINE D == Positions(text)
           stops == {s \in D : Nowhere(text, s)}
           next == [s \in D |-> IF s \in stops THEN s ELSE Behind(text, s)]
           rank == [s \in D |-> Len(text) - s.behind]
           base == [s \in D |-> IF Nowhere(text, s) THEN Stopped(text, s, final)
                                ELSE [inThink |-> FALSE, pending |-> <<>>, output |-> <<>>]]
           f == [p \in D \X Result |->
                   IF Nowhere(text, p[1]) THEN p[2]
                   ELSE [p[2] EXCEPT !.output = Seen(text, p[1], Found(text, p[1])) \o @]]
<1>1. Len(text) \in Nat /\ \A s \in D : s.behind \in 0..Len(text) /\ s.inThink \in BOOLEAN
  BY LenProperties DEF Text, Positions
<1>2. Descends(D, stops, next, rank, Len(text))
  <2>1. stops \in SUBSET D
    OBVIOUS
  <2>2. ASSUME NEW s \in D
        PROVE  next[s] \in D /\ (s \notin stops => next[s] = Behind(text, s))
    <3>1. CASE s \in stops
      <4> HIDE DEF stops
      <4> QED
        BY <3>1
    <3>2. CASE s \notin stops
      <4>1. Behind(text, s) \in D
        BY <3>2, FoundFacts
      <4> HIDE DEF stops
      <4> QED
        BY <3>2, <4>1
    <3> QED
      BY <3>1, <3>2
  <2>3. \A s \in D : Len(text) - s.behind \in 0..Len(text) /\ rank[s] = Len(text) - s.behind
    BY <1>1
  <2>4. \E e \in {next} : next = [s \in D |-> e[s]]
    <3> HIDE DEF stops
    <3> QED
      OBVIOUS
  <2>5. \E e \in {rank} : rank = [s \in D |-> e[s]]
    OBVIOUS
  <2>6. ASSUME NEW s \in D \ stops PROVE rank[next[s]] < rank[s]
    <3>1. Behind(text, s) \in D /\ Behind(text, s).behind > s.behind
      BY FoundFacts
    <3>2. next[s] = Behind(text, s)
      BY <2>2
    <3> HIDE DEF next, rank, stops, D
    <3> QED
      BY <1>1, <2>3, <3>1, <3>2
  <2> HIDE DEF next, rank, stops, D
  <2> QED
    BY <2>1, <2>2, <2>3, <2>4, <2>5, <2>6 DEF Descends
<1>3. base \in [D -> Result]
  <2>1. <<>> \in Text
    BY EmptySeq DEF Text
  <2>2. ASSUME NEW s \in D PROVE Stopped(text, s, final) \in Result
    <3>1. End(text, s, final) \in s.behind..Len(text)
      BY EndFacts
    <3>2. Seen(text, s, End(text, s, final)) \in Text /\ After(text, End(text, s, final)) \in Text
      BY <3>1, SeenTyped
    <3> QED
      BY <1>1, <3>2 DEF Stopped, Result
  <2>3. [inThink |-> FALSE, pending |-> <<>>, output |-> <<>>] \in Result
    BY <2>1 DEF Result
  <2> QED
    BY <2>2, <2>3
<1>4. f \in [D \X Result -> Result]
  <2>1. ASSUME NEW s \in D, NEW r \in Result, ~Nowhere(text, s)
        PROVE  [r EXCEPT !.output = Seen(text, s, Found(text, s)) \o @] \in Result
    <3>1. Found(text, s) \in s.behind..Len(text)
      BY <2>1, FoundFacts
    <3>2. Seen(text, s, Found(text, s)) \in Text /\ r.output \in Text
      BY <3>1, SeenTyped DEF Result
    <3>3. Seen(text, s, Found(text, s)) \o r.output \in Text
      BY <3>2, JoinedTexts
    <3> QED
      BY <3>3 DEF Result
  <2>2. \A p \in D \X Result : p = <<p[1], p[2]>> /\ p[1] \in D /\ p[2] \in Result
    OBVIOUS
  <2>3. ASSUME NEW p \in D \X Result PROVE f[p] \in Result
    <3>1. p[1] \in D /\ p[2] \in Result
      BY <2>2
    <3> HIDE DEF D, Result
    <3> QED
      BY <2>1, <3>1
  <2>4. \E e \in {f} : f = [p \in D \X Result |-> e[p]]
    OBVIOUS
  <2> HIDE DEF f, D
  <2> QED
    BY <2>3, <2>4
<1>5. PICK h \in [D -> Result] : Recursive(h, D, stops, base, f, next)
  <2> HIDE DEF D, stops, base, f, next, rank
  <2> QED
    BY <1>1, <1>2, <1>3, <1>4, RecursionExists
<1>6. ASSUME NEW s \in D
      PROVE  h[s] = IF Nowhere(text, s) THEN Stopped(text, s, final)
                    ELSE [h[Behind(text, s)] EXCEPT !.output = Seen(text, s, Found(text, s)) \o @]
  <2>1. h[s] = IF s \in stops THEN base[s] ELSE f[<<s, h[next[s]]>>]
    <3> HIDE DEF D, stops, base, f, next
    <3> QED
      BY <1>5 DEF Recursive
  <2>2. CASE Nowhere(text, s)
    <3>1. s \in stops /\ base[s] = Stopped(text, s, final)
      BY <2>2
    <3> HIDE DEF stops, base, f, next, D
    <3> QED
      BY <2>1, <2>2, <3>1
  <2>3. CASE ~Nowhere(text, s)
    <3>1. Behind(text, s) \in D
      BY <2>3, FoundFacts
    <3>2. s \notin stops /\ next[s] = Behind(text, s)
      BY <2>3
    <3>3. h[Behind(text, s)] \in Result
      <4> HIDE DEF D
      <4> QED
        BY <1>5, <3>1
    <3>4. ASSUME NEW r \in Result
          PROVE  f[<<s, r>>] = [r EXCEPT !.output = Seen(text, s, Found(text, s)) \o @]
      <4> HIDE DEF D
      <4> QED
        BY <2>3
    <3> HIDE DEF stops, base, f, next, D
    <3> QED
      BY <2>1, <2>3, <3>2, <3>3, <3>4
  <2> QED
    BY <2>2, <2>3
<1> HIDE DEF Result
<1> QED
  BY <1>5, <1>6 DEF IsLoop

LEMMA ConsumeUnfolds ==
  ASSUME NEW text \in Text, NEW final \in BOOLEAN
  PROVE  \E h : /\ IsLoop(text, final, h)
                /\ \A inThink : Consume(text, inThink, final) = h[[behind |-> 0, inThink |-> inThink]]
<1> DEFINE Unfolded(loop, s) ==
        LET tag == IF s.inThink THEN CloseTag ELSE OpenTag
            places == Places(text, s.behind, tag)
            at == Min(places)
            end == Len(text) - IF final THEN 0 ELSE HeldBack(Len(text) - s.behind, tag)
            seen(n) == IF s.inThink THEN <<>> ELSE SubSeq(text, s.behind + 1, n)
            next == loop[[behind |-> at + Len(tag), inThink |-> ~s.inThink]]
        IN  IF places = {}
            THEN [inThink |-> s.inThink, pending |-> After(text, end), output |-> seen(end)]
            ELSE [next EXCEPT !.output = seen(at) \o @]
           D == [behind : 0 .. Len(text), inThink : BOOLEAN]
           loop == CHOOSE loop : loop = [s \in D |-> Unfolded(loop, s)]
<1>1. \A inThink : Consume(text, inThink, final) = loop[[behind |-> 0, inThink |-> inThink]]
  BY Zenon DEF Consume
<1>2. PICK h \in [Positions(text) -> Result] : IsLoop(text, final, h)
  BY LoopExists
<1>3. \A g, s : Unfolded(g, s) =
        IF Nowhere(text, s) THEN Stopped(text, s, final)
        ELSE [g[Behind(text, s)] EXCEPT !.output = Seen(text, s, Found(text, s)) \o @]
  BY Zenon DEF Nowhere, Stopped, Seen, Found, Behind, End, Sought
<1> HIDE DEF Unfolded
<1>4. h = [s \in D |-> Unfolded(h, s)]
  <2>1. \A s \in D : h[s] = Unfolded(h, s)
    BY <1>2, <1>3 DEF IsLoop, Positions
  <2> HIDE DEF Result
  <2> QED
    BY <1>2, <2>1 DEF Positions
<1>5. loop = [s \in D |-> Unfolded(loop, s)]
  BY <1>4, Zenon
<1> HIDE DEF loop
<1>6. \A s \in D : loop[s] = Unfolded(loop, s)
  BY <1>5
<1>7. IsLoop(text, final, loop)
  BY <1>3, <1>6 DEF IsLoop, Positions
<1> QED
  BY <1>1, <1>7

\* From a position of a window of m on: what the loop gives out, and then what is visible
\* behind the place e up to which it came, is what was visible behind the position.
Splits(m, g, a, b, final, s, r) ==
  /\ r \in Result
  /\ \E e \in (a + s.behind)..b :
       /\ r.pending = SubSeq(m, e + 1, b)
       /\ Rest(m, g, s.inThink, a + s.behind) = r.output \o Rest(m, g, r.inThink, e)
       /\ final => e = b

\* The window without the tag sought is given out as far as no tag can begin there.
LEMMA LoopStops ==
  ASSUME NEW m \in Text, NEW g, IsVisible(m, g), NEW a \in 0..Len(m), NEW b \in a..Len(m),
         NEW final \in BOOLEAN, final => b = Len(m),
         NEW s \in Positions(SubSeq(m, a + 1, b)), Nowhere(SubSeq(m, a + 1, b), s)
  PROVE  Splits(m, g, a, b, final, s, Stopped(SubSeq(m, a + 1, b), s, final))
<1> DEFINE w == SubSeq(m, a + 1, b)
           tag == Sought(s.inThink)
           p == a + s.behind
           q == a + End(w, s, final)
           r == Stopped(w, s, final)
<1>1. Len(m) \in Nat /\ w \in Text /\ Len(w) = b - a
  BY LenProperties, SliceFacts DEF Text
<1>2. s.behind \in 0..(b - a) /\ s.inThink \in BOOLEAN
  <2> HIDE DEF w
  <2> QED
    BY <1>1 DEF Positions, w
<1>3. tag \in Tags /\ Len(tag) \in {3, 4}
  BY <1>2, SoughtTag
<1>4. /\ End(w, s, final) \in s.behind..(b - a)
      /\ final => End(w, s, final) = b - a
      /\ ~final => \/ End(w, s, final) = s.behind
                   \/ End(w, s, final) = (b - a) - (Len(tag) - 1)
  <2>1. s \in Positions(w)
    OBVIOUS
  <2> HIDE DEF w
  <2> QED
    BY <1>1, <2>1, EndFacts
<1>5. p \in 0..Len(m) /\ q \in p..b /\ q \in p..Len(m) /\ b \in q..Len(m) /\ (final => q = b)
      /\ p \in Nat /\ q \in Nat
  <2> DEFINE e == End(w, s, final)
             n == s.behind
  <2>1. e \in n..(b - a) /\ n \in 0..(b - a) /\ (final => e = b - a)
    BY <1>2, <1>4
  <2> HIDE DEF e, n
  <2>2. /\ a + n \in 0..Len(m) /\ a + e \in (a + n)..b /\ a + e \in (a + n)..Len(m)
        /\ b \in (a + e)..Len(m) /\ (final => a + e = b) /\ a + n \in Nat /\ a + e \in Nat
    BY <1>1, <2>1
  <2> QED
    BY <2>2 DEF e, n
<1>6. ASSUME NEW x \in p..(q - 1) PROVE ~StartsAt(m, x, tag)
  <2>1. SUFFICES ASSUME StartsAt(m, x, tag) PROVE FALSE
    OBVIOUS
  <2> DEFINE n == x - a
             k == Len(tag)
             e == End(w, s, final)
             c == s.behind
  <2>2. /\ c \in 0..(b - a) /\ k \in {3, 4} /\ e \in c..(b - a) /\ (final => e = b - a)
        /\ (~final => (e = c \/ e = (b - a) - (k - 1))) /\ x \in (a + c)..((a + e) - 1)
    BY <1>2, <1>3, <1>4
  <2>3. x + k <= Len(m)
    BY <2>1 DEF StartsAt
  <2> HIDE DEF k, e, c
  <2>4. n \in c..(b - a) /\ n \in 0..(b - a) /\ a + n = x /\ x + k <= b
    BY <1>1, <2>2, <2>3
  <2> HIDE DEF n
  <2>5. StartsAt(w, n, tag)
    <3>1. a + n + Len(tag) <= b /\ StartsAt(m, a + n, tag)
      BY <2>1, <2>4 DEF k
    <3> QED
      BY <1>3, <2>4, <3>1, StartsInSlice
  <2>6. n \in Places(w, s.behind, tag)
    BY <1>1, <2>4, <2>5 DEF Places, c
  <2> QED
    BY <2>6 DEF Nowhere
<1>7. r = [inThink |-> s.inThink, pending |-> After(w, End(w, s, final)),
           output |-> Seen(w, s, End(w, s, final))]
  BY DEF Stopped
<1>8. After(w, End(w, s, final)) = SubSeq(m, q + 1, b)
  <2> DEFINE e == End(w, s, final)
  <2>1. e \in 0..(b - a) /\ b - a \in e..(b - a) /\ a + (b - a) = b
    <3>1. e \in s.behind..(b - a)
      BY <1>4
    <3> HIDE DEF e
    <3> QED
      BY <1>1, <1>2, <3>1
  <2> HIDE DEF e
  <2>2. SubSeq(w, e + 1, b - a) = SubSeq(m, a + e + 1, a + (b - a))
    BY <2>1, SliceOfSlice
  <2> HIDE DEF w
  <2> QED
    BY <1>1, <2>1, <2>2 DEF After, e
<1>9. Rest(m, g, s.inThink, p) = r.output \o Rest(m, g, s.inThink, q)
  <2>1. Rest(m, g, s.inThink, q) \in Text
    <3>1. q \in 0..Len(m)
      <4> HIDE DEF p, q
      <4> QED
        BY <1>1, <1>5
    <3> HIDE DEF q
    <3> QED
      BY <1>2, <3>1, RestTyped
  <2>2. CASE s.inThink
    <3>1. r.output = <<>>
      <4> HIDE DEF w, r
      <4> QED
        BY <1>7, <2>2 DEF Seen
    <3>2. tag = CloseTag
      BY <2>2 DEF Sought
    <3>3. Rest(m, g, TRUE, p) = Rest(m, g, TRUE, q)
      <4> HIDE DEF p, q, tag
      <4> QED
        BY <1>5, <1>6, <3>2, ThoughtGoesOn
    <3>4. <<>> \o Rest(m, g, s.inThink, q) = Rest(m, g, s.inThink, q)
      <4> HIDE DEF q
      <4> QED
        BY <2>1, ConcatEmptySeq DEF Text
    <3>5. s.inThink = TRUE
      BY <1>2, <2>2
    <3> HIDE DEF p, q, r
    <3> QED
      BY <3>1, <3>3, <3>4, <3>5
  <2>3. CASE ~s.inThink
    <3>1. r.output = SubSeq(m, p + 1, q)
      <4> DEFINE e == End(w, s, final)
      <4>1. r.output = SubSeq(w, s.behind + 1, e)
        <5> HIDE DEF w, r
        <5> QED
          BY <1>7, <2>3 DEF Seen
      <4>2. SubSeq(w, s.behind + 1, e) = SubSeq(m, a + s.behind + 1, a + e)
        <5>1. e \in s.behind..(b - a)
          BY <1>4
        <5> HIDE DEF e
        <5> QED
          BY <1>2, <5>1, SliceOfSlice
      <4> HIDE DEF w, r, e
      <4> QED
        BY <4>1, <4>2 DEF e
    <3>2. tag = OpenTag
      BY <2>3 DEF Sought
    <3>3. g[p] = SubSeq(m, p + 1, q) \o g[q]
      <4> HIDE DEF p, q, tag
      <4> QED
        BY <1>5, <1>6, <3>2, VisibleRun
    <3>4. s.inThink = FALSE
      BY <1>2, <2>3
    <3> HIDE DEF p, q, r
    <3> QED
      BY <3>1, <3>3, <3>4 DEF Rest
  <2> QED
    BY <2>2, <2>3
<1>10. r \in Result /\ r.inThink = s.inThink /\ r.pending = SubSeq(m, q + 1, b)
  <2>1. End(w, s, final) \in s.behind..Len(w) /\ s \in Positions(w)
    BY <1>1, <1>4
  <2>2. Seen(w, s, End(w, s, final)) \in Text /\ After(w, End(w, s, final)) \in Text
    <3> HIDE DEF w
    <3> QED
      BY <1>1, <2>1, SeenTyped
  <2> HIDE DEF r, q, w
  <2> QED
    BY <1>2, <1>7, <1>8, <2>2 DEF Result
<1> HIDE DEF p, q, r, w
<1>11. Splits(m, g, a, b, final, s, r)
  BY <1>5, <1>9, <1>10 DEF Splits, p
<1> QED
  BY <1>11 DEF r, w

\* Behind a tag the loop goes on within a thought, or outside.
LEMMA LoopGoesOn ==
  ASSUME NEW m \in Text, NEW g, IsVisible(m, g), NEW a \in 0..Len(m), NEW b \in a..Len(m),
         NEW final \in BOOLEAN,
         NEW s \in Positions(SubSeq(m, a + 1, b)), ~Nowhere(SubSeq(m, a + 1, b), s),
         NEW next, Splits(m, g, a, b, final, Behind(SubSeq(m, a + 1, b), s), next)
  PROVE  LET w == SubSeq(m, a + 1, b)
         IN  Splits(m, g, a, b, final, s, [next EXCEPT !.output = Seen(w, s, Found(w, s)) \o @])
<1> DEFINE w == SubSeq(m, a + 1, b)
           tag == Sought(s.inThink)
           at == Found(w, s)
           p == a + s.behind
           q == a + at
           o == q + Len(tag)
           r == [next EXCEPT !.output = Seen(w, s, at) \o @]
<1>1. Len(m) \in Nat /\ w \in Text /\ Len(w) = b - a
  BY LenProperties, SliceFacts DEF Text
<1>2. s.behind \in 0..(b - a) /\ s.inThink \in BOOLEAN
  <2> HIDE DEF w
  <2> QED
    BY <1>1 DEF Positions, w
<1>3. tag \in Tags /\ Len(tag) \in {3, 4}
  BY <1>2, SoughtTag
<1>4. /\ at \in s.behind..(b - a)
      /\ StartsAt(w, at, tag)
      /\ \A x \in s.behind..(at - 1) : ~StartsAt(w, x, tag)
      /\ Behind(w, s).behind = at + Len(tag)
      /\ Behind(w, s).inThink = ~s.inThink
  <2>1. s \in Positions(w) /\ ~Nowhere(w, s)
    OBVIOUS
  <2> HIDE DEF w
  <2> QED
    BY <1>1, <2>1, FoundFacts
<1>5. /\ at \in 0..(b - a) /\ p \in 0..Len(m) /\ p \in Nat /\ q \in Nat /\ q \in p..Len(m)
      /\ a + (at + Len(tag)) = o
  <2> DEFINE n == s.behind
             k == Len(tag)
  <2>1. at \in n..(b - a) /\ n \in 0..(b - a) /\ k \in {3, 4}
    BY <1>2, <1>3, <1>4
  <2> HIDE DEF at, n, k
  <2>2. /\ at \in 0..(b - a) /\ a + n \in 0..Len(m) /\ a + n \in Nat /\ a + at \in Nat
        /\ a + at \in (a + n)..Len(m) /\ a + (at + k) = (a + at) + k
    BY <1>1, <2>1
  <2> QED
    BY <2>2 DEF n, k
<1>6. StartsAt(m, q, tag) /\ o <= b
  <2> HIDE DEF at, tag
  <2> QED
    BY <1>3, <1>4, <1>5, StartsInSlice
<1>7. ASSUME NEW x \in p..(q - 1) PROVE ~StartsAt(m, x, tag)
  <2>1. SUFFICES ASSUME StartsAt(m, x, tag) PROVE FALSE
    OBVIOUS
  <2> DEFINE n == x - a
             k == Len(tag)
             c == s.behind
  <2>2. /\ c \in 0..(b - a) /\ k \in {3, 4} /\ at \in c..(b - a) /\ x \in (a + c)..((a + at) - 1)
        /\ (a + at) + k <= b
    BY <1>2, <1>3, <1>4, <1>6
  <2> HIDE DEF k, c, at
  <2>3. n \in c..(at - 1) /\ n \in 0..(b - a) /\ a + n = x /\ x + k <= b
    BY <1>1, <2>2
  <2> HIDE DEF n
  <2>4. StartsAt(w, n, tag)
    <3>1. a + n + Len(tag) <= b /\ StartsAt(m, a + n, tag)
      BY <2>1, <2>3 DEF k
    <3> QED
      BY <1>3, <2>3, <3>1, StartsInSlice
  <2> QED
    BY <1>4, <2>3, <2>4 DEF c
<1>8. next \in Result
  BY DEF Splits
<1>9. PICK e \in o..b :
        /\ next.pending = SubSeq(m, e + 1, b)
        /\ Rest(m, g, ~s.inThink, o) = next.output \o Rest(m, g, next.inThink, e)
        /\ final => e = b
  <2> HIDE DEF w, at, tag, o
  <2> QED
    BY <1>4, <1>5 DEF Splits, w
<1>10. Seen(w, s, at) \in Text
  <2>1. s \in Positions(w) /\ at \in s.behind..Len(w)
    BY <1>1, <1>4
  <2> HIDE DEF w, at
  <2> QED
    BY <1>1, <2>1, SeenTyped
<1>11. r = [inThink |-> next.inThink, pending |-> next.pending,
            output |-> Seen(w, s, at) \o next.output]
  <2> HIDE DEF w, at
  <2> QED
    BY <1>8, <1>10, OutputPrefixed
<1>12. o \in 0..Len(m) /\ e \in 0..Len(m) /\ e \in p..b
  <2> HIDE DEF p, q, at
  <2>1. q >= p /\ Len(tag) \in Nat
    BY <1>3, <1>5
  <2>2. o \in Nat /\ o >= p
    <3> HIDE DEF tag
    <3> QED
      BY <1>5, <2>1
  <2> HIDE DEF o
  <2> QED
    BY <1>1, <1>5, <1>6, <1>9, <2>2
<1>13. Rest(m, g, s.inThink, p) = Seen(w, s, at) \o Rest(m, g, ~s.inThink, o)
  <2>1. Rest(m, g, ~s.inThink, o) \in Text
    <3> HIDE DEF o
    <3> QED
      BY <1>2, <1>12, RestTyped
  <2>2. CASE s.inThink
    <3>1. Seen(w, s, at) = <<>> /\ tag = CloseTag
      BY <2>2 DEF Seen, Sought
    <3>2. Rest(m, g, TRUE, p) = Rest(m, g, FALSE, q + Len(CloseTag))
      <4> HIDE DEF p, q, tag
      <4> QED
        BY <1>5, <1>6, <1>7, <3>1, ThoughtCloses
    <3>3. <<>> \o Rest(m, g, ~s.inThink, o) = Rest(m, g, ~s.inThink, o)
      <4> HIDE DEF o
      <4> QED
        BY <2>1, ConcatEmptySeq DEF Text
    <3>4. s.inThink = TRUE /\ (~s.inThink) = FALSE /\ o = q + Len(CloseTag)
      <4> HIDE DEF q, tag
      <4> QED
        BY <1>2, <2>2, <3>1
    <3> HIDE DEF p, q, o, w, at
    <3> QED
      BY <3>1, <3>2, <3>3, <3>4
  <2>3. CASE ~s.inThink
    <3>1. Seen(w, s, at) = SubSeq(m, p + 1, q) /\ tag = OpenTag
      <4>1. Seen(w, s, at) = SubSeq(w, s.behind + 1, at)
        <5> HIDE DEF w, at
        <5> QED
          BY <2>3 DEF Seen
      <4>2. SubSeq(w, s.behind + 1, at) = SubSeq(m, a + s.behind + 1, a + at)
        <5> HIDE DEF at
        <5> QED
          BY <1>2, <1>4, SliceOfSlice
      <4>3. tag = OpenTag
        BY <2>3 DEF Sought
      <4> HIDE DEF w, at, tag
      <4> QED
        BY <4>1, <4>2, <4>3
    <3>2. g[p] = SubSeq(m, p + 1, q) \o g[q]
      <4> HIDE DEF p, q, tag
      <4> QED
        BY <1>5, <1>6, <1>7, <3>1, VisibleRun
    <3>3. g[q] = Rest(m, g, TRUE, q + Len(OpenTag))
      <4>1. q \in 0..Len(m)
        <5> HIDE DEF p, q
        <5> QED
          BY <1>1, <1>5
      <4> HIDE DEF q, tag
      <4> QED
        BY <1>6, <3>1, <4>1, ThoughtOpens
    <3>4. s.inThink = FALSE /\ (~s.inThink) = TRUE /\ o = q + Len(OpenTag)
      <4> HIDE DEF q, tag
      <4> QED
        BY <1>2, <2>3, <3>1
    <3>5. Rest(m, g, FALSE, p) = g[p]
      BY DEF Rest
    <3> HIDE DEF p, q, o, w, at
    <3> QED
      BY <3>1, <3>2, <3>3, <3>4, <3>5
  <2> QED
    BY <2>2, <2>3
<1>14. (Seen(w, s, at) \o next.output) \o Rest(m, g, next.inThink, e)
       = Seen(w, s, at) \o (next.output \o Rest(m, g, next.inThink, e))
  <2>1. next.output \in Text /\ next.inThink \in BOOLEAN
    BY <1>8 DEF Result
  <2>2. Rest(m, g, next.inThink, e) \in Text
    BY <1>12, <2>1, RestTyped
  <2>3. \A c, d, f \in Text : (c \o d) \o f = c \o (d \o f)
    BY JoinedTexts
  <2> HIDE DEF w, at
  <2> QED
    BY <1>10, <2>1, <2>2, <2>3
<1>15. r \in Result
  <2>1. Seen(w, s, at) \o next.output \in Text
    <3> HIDE DEF w, at
    <3> QED
      BY <1>8, <1>10, JoinedTexts DEF Result
  <2> HIDE DEF r, w, at
  <2> QED
    BY <1>8, <1>11, <2>1 DEF Result
<1>16. /\ r.pending = SubSeq(m, e + 1, b) /\ r.inThink = next.inThink
       /\ Rest(m, g, s.inThink, p) = r.output \o Rest(m, g, r.inThink, e)
  <2> HIDE DEF w, at, p, o, r
  <2> QED
    BY <1>9, <1>11, <1>13, <1>14
<1>17. Splits(m, g, a, b, final, s, r)
  <2> HIDE DEF r, w, at, o
  <2> QED
    BY <1>9, <1>12, <1>15, <1>16 DEF Splits
<1> QED
  BY <1>17

\* The loop over a window of a text, from every position.
LEMMA LoopSplits ==
  ASSUME NEW m \in Text, NEW g, IsVisible(m, g), NEW a \in 0..Len(m), NEW b \in a..Len(m),
         NEW final \in BOOLEAN, final => b = Len(m),
         NEW h, IsLoop(SubSeq(m, a + 1, b), final, h)
  PROVE  \A s \in Positions(SubSeq(m, a + 1, b)) : Splits(m, g, a, b, final, s, h[s])
<1> DEFINE w == SubSeq(m, a + 1, b)
           n == b - a
           Good(s) == Splits(m, g, a, b, final, s, h[s])
           S == {k \in 0..n : \A s \in Positions(w) : n - s.behind <= k => Good(s)}
<1>1. Len(m) \in Nat /\ w \in Text /\ Len(w) = n /\ n \in Nat
  BY LenProperties, SliceFacts DEF Text
<1>2. ASSUME NEW s \in Positions(w) PROVE s.behind \in 0..n
  <2> HIDE DEF w, n
  <2> QED
    BY <1>1 DEF Positions
<1>3. ASSUME NEW s \in Positions(w), ~Nowhere(w, s) => Good(Behind(w, s)) PROVE Good(s)
  <2>1. h[s] = IF Nowhere(w, s) THEN Stopped(w, s, final)
               ELSE [h[Behind(w, s)] EXCEPT !.output = Seen(w, s, Found(w, s)) \o @]
    BY DEF IsLoop
  <2>2. CASE Nowhere(w, s)
    <3>1. Splits(m, g, a, b, final, s, Stopped(w, s, final))
      BY <2>2, LoopStops
    <3> HIDE DEF w
    <3> QED
      BY <2>1, <2>2, <3>1
  <2>3. CASE ~Nowhere(w, s)
    <3>1. Splits(m, g, a, b, final, Behind(w, s), h[Behind(w, s)])
      BY <1>3, <2>3
    <3>2. Splits(m, g, a, b, final, s,
                 [h[Behind(w, s)] EXCEPT !.output = Seen(w, s, Found(w, s)) \o @])
      BY <2>3, <3>1, LoopGoesOn
    <3> HIDE DEF w
    <3> QED
      BY <2>1, <2>3, <3>2
  <2> QED
    BY <2>2, <2>3
<1> HIDE DEF Good
<1>4. ASSUME NEW s \in Positions(w), ~Nowhere(w, s)
      PROVE  Behind(w, s) \in Positions(w) /\ n - Behind(w, s).behind < n - s.behind
  <2>1. Behind(w, s) \in Positions(w) /\ Behind(w, s).behind > s.behind
    <3> HIDE DEF w
    <3> QED
      BY <1>1, <1>4, FoundFacts
  <2>2. Behind(w, s).behind \in 0..n /\ s.behind \in 0..n
    BY <1>2, <2>1
  <2> HIDE DEF w, n
  <2> QED
    BY <1>1, <2>1, <2>2
<1>5. 0 \in S
  <2>1. ASSUME NEW s \in Positions(w), n - s.behind <= 0 PROVE Good(s)
    <3>1. Nowhere(w, s)
      <4>1. SUFFICES ASSUME ~Nowhere(w, s) PROVE FALSE
        OBVIOUS
      <4>2. Behind(w, s) \in Positions(w) /\ n - Behind(w, s).behind < n - s.behind
        BY <1>4, <4>1
      <4>3. Behind(w, s).behind \in 0..n /\ s.behind \in 0..n
        BY <1>2, <4>2
      <4> HIDE DEF w, n
      <4> QED
        BY <1>1, <2>1, <4>2, <4>3
    <3> QED
      BY <1>3, <3>1
  <2> HIDE DEF w, n
  <2> QED
    BY <1>1, <2>1
<1>6. ASSUME NEW k \in 1..n, k - 1 \in S PROVE k \in S
  <2>1. ASSUME NEW s \in Positions(w), n - s.behind <= k PROVE Good(s)
    <3>1. ASSUME ~Nowhere(w, s) PROVE Good(Behind(w, s))
      <4>1. Behind(w, s) \in Positions(w) /\ n - Behind(w, s).behind < n - s.behind
        BY <1>4, <3>1
      <4>2. Behind(w, s).behind \in 0..n /\ s.behind \in 0..n
        BY <1>2, <4>1
      <4>3. n - Behind(w, s).behind <= k - 1
        <5> HIDE DEF w, n
        <5> QED
          BY <1>1, <2>1, <4>1, <4>2
      <4> HIDE DEF w, n
      <4> QED
        BY <1>6, <4>1, <4>3
    <3> QED
      BY <1>3, <3>1
  <2> HIDE DEF w, n
  <2> QED
    BY <1>1, <2>1
<1>7. 0..n \subseteq S
  <2> HIDE DEF S, n
  <2> QED
    BY <1>1, <1>5, <1>6, CountUp
<1>8. ASSUME NEW s \in Positions(w) PROVE Good(s)
  <2>1. n - s.behind \in 0..n
    <3>1. s.behind \in 0..n
      BY <1>2
    <3> HIDE DEF n
    <3> QED
      BY <1>1, <3>1
  <2> HIDE DEF w, n
  <2> QED
    BY <1>1, <1>7, <2>1
<1> QED
  BY <1>8 DEF Good

\* What one call on the characters a + 1 to b of a text returns.
Consumed(m, g, a, b, inThink, final, r) ==
  /\ r \in Result
  /\ \E e \in a..b :
       /\ r.pending = SubSeq(m, e + 1, b)
       /\ Rest(m, g, inThink, a) = r.output \o Rest(m, g, r.inThink, e)
       /\ final => e = b

LEMMA WindowConsumed ==
  ASSUME NEW m \in Text, NEW g, IsVisible(m, g), NEW a \in 0..Len(m), NEW b \in a..Len(m),
         NEW inThink \in BOOLEAN, NEW final \in BOOLEAN, final => b = Len(m)
  PROVE  Consumed(m, g, a, b, inThink, final, Consume(SubSeq(m, a + 1, b), inThink, final))
<1> DEFINE w == SubSeq(m, a + 1, b)
           s == [behind |-> 0, inThink |-> inThink]
           r == Consume(w, inThink, final)
<1>1. w \in Text /\ Len(w) \in Nat
  <2>1. w \in Text
    BY SliceFacts
  <2> HIDE DEF w
  <2> QED
    BY <2>1, LenProperties DEF Text
<1>2. PICK h : IsLoop(w, final, h) /\ r = h[s]
  <2> HIDE DEF w
  <2> QED
    BY <1>1, ConsumeUnfolds
<1>3. s \in Positions(w) /\ s.behind = 0 /\ s.inThink = inThink
  <2> HIDE DEF w
  <2> QED
    BY <1>1 DEF Positions
<1> HIDE DEF s, r
<1>4. Splits(m, g, a, b, final, s, r)
  <2>1. \A u \in Positions(w) : Splits(m, g, a, b, final, u, h[u])
    BY <1>2, LoopSplits
  <2> HIDE DEF w
  <2> QED
    BY <1>2, <1>3, <2>1
<1>5. a + s.behind = a
  BY <1>3
<1>6. /\ r \in Result
      /\ \E e \in a..b :
           /\ r.pending = SubSeq(m, e + 1, b)
           /\ Rest(m, g, inThink, a) = r.output \o Rest(m, g, r.inThink, e)
           /\ final => e = b
  BY <1>3, <1>4, <1>5 DEF Splits
<1> QED
  BY <1>6 DEF r, Consumed

\* A whole text, cut at once, is what is visible of it.
LEMMA StripIsVisible ==
  ASSUME NEW m \in Text
  PROVE  Strip(m) = Visible(m)
<1>1. PICK g : IsVisible(m, g) /\ Visible(m) = g[0]
  BY VisibleUnfolds
<1>2. Len(m) \in Nat /\ SubSeq(m, 0 + 1, Len(m)) = m
  BY LenProperties, SubSeqFull DEF Text
<1>3. g[Len(m)] = <<>> /\ 0 \in 0..Len(m) /\ Len(m) \in 0..Len(m)
  <2>1. 0 \in 0..Len(m) /\ Len(m) \in 0..Len(m)
    BY <1>2
  <2> QED
    BY <1>1, <2>1 DEF IsVisible
<1>4. CASE Places(m, 0, OpenTag) = {}
  <2>1. \A x \in 0..(Len(m) - 1) : ~StartsAt(m, x, OpenTag)
    BY <1>2, <1>4 DEF Places
  <2>2. g[0] = SubSeq(m, 0 + 1, Len(m)) \o g[Len(m)]
    BY <1>1, <1>3, <2>1, VisibleRun
  <2>3. m \o <<>> = m
    BY ConcatEmptySeq DEF Text
  <2> QED
    BY <1>1, <1>2, <1>3, <1>4, <2>2, <2>3 DEF Strip
<1>5. CASE Places(m, 0, OpenTag) # {}
  <2> DEFINE s == Push(Fresh, m)
             t == Finish(s)
  <2>1. s = Consume(SubSeq(m, 0 + 1, Len(m)), FALSE, FALSE)
    <3>1. <<>> \o m = m
      BY ConcatEmptySeq DEF Text
    <3>2. Fresh.pending = <<>> /\ Fresh.inThink = FALSE
      BY DEF Fresh
    <3> QED
      BY <1>2, <3>1, <3>2 DEF Push
  <2>2. /\ s \in Result
        /\ \E e \in 0..Len(m) :
             /\ s.pending = SubSeq(m, e + 1, Len(m))
             /\ Rest(m, g, FALSE, 0) = s.output \o Rest(m, g, s.inThink, e)
    <3>1. Len(m) \in 0..Len(m) /\ TRUE \in BOOLEAN /\ FALSE \in BOOLEAN
      BY <1>2
    <3>2. Consumed(m, g, 0, Len(m), FALSE, FALSE, Consume(SubSeq(m, 0 + 1, Len(m)), FALSE, FALSE))
      BY <1>1, <1>3, <3>1, WindowConsumed
    <3> HIDE DEF s
    <3> QED
      BY <2>1, <3>2 DEF Consumed
  <2> HIDE DEF s
  <2>3. PICK e \in 0..Len(m) :
          /\ s.pending = SubSeq(m, e + 1, Len(m))
          /\ Rest(m, g, FALSE, 0) = s.output \o Rest(m, g, s.inThink, e)
    BY <2>2
  <2>4. s.inThink \in BOOLEAN /\ s.output \in Text
    BY <2>2 DEF Result
  <2>5. t = Consume(SubSeq(m, e + 1, Len(m)), s.inThink, TRUE)
    BY <2>3 DEF Finish
  <2>6. t \in Result /\ Rest(m, g, s.inThink, e) = t.output \o Rest(m, g, t.inThink, Len(m))
    <3>1. Len(m) \in e..Len(m)
      BY <1>2
    <3>2. Consumed(m, g, e, Len(m), s.inThink, TRUE, Consume(SubSeq(m, e + 1, Len(m)), s.inThink, TRUE))
      BY <1>1, <2>4, <3>1, WindowConsumed
    <3> HIDE DEF t
    <3> QED
      BY <2>5, <3>2 DEF Consumed
  <2> HIDE DEF t
  <2>7. t.inThink \in BOOLEAN /\ t.output \in Text
    BY <2>6 DEF Result
  <2>8. Rest(m, g, t.inThink, Len(m)) = <<>>
    BY <1>1, <2>7, RestAtEnd
  <2>9. t.output \o <<>> = t.output
    BY <2>7, ConcatEmptySeq DEF Text
  <2>10. g[0] = s.output \o t.output
    BY <2>3, <2>6, <2>8, <2>9 DEF Rest
  <2>11. Strip(m) = s.output \o t.output
    BY <1>5 DEF Strip, s, t
  <2> QED
    BY <1>1, <2>10, <2>11
<1> QED
  BY <1>4, <1>5
-----------------------------------------------------------------------------
(* The stream *)

\* What the stream has shown, and then what is visible behind the characters it holds back,
\* is what is visible of the whole text.
Streamed(a) ==
  /\ stripper.inThink \in BOOLEAN
  /\ stripper.pending = SubSeq(message, a + 1, sent)
  /\ \E g : /\ IsVisible(message, g)
            /\ Visible(message) = g[0]
            /\ Visible(message) = shown \o Rest(message, g, stripper.inThink, a)

\* What was streamed so far, and what is to come, make up what is visible of the message.
StreamInv ==
  mode = "stream" =>
    /\ sent \in 0..Len(message)
    /\ \E a \in 0..sent : Streamed(a)

\* What was shown is what the parts say, and nothing was shown of a plain request.
ShownInv ==
  /\ message \in Text
  /\ parts \in Text
  /\ mode \in {"stream", "fallback"} => shown = parts
  /\ mode = "plain" => shown = <<>>

\* An answer is given at the end, and is what was shown.
AnswerInv ==
  /\ mode # "returned" => answer = NoAnswer
  /\ mode = "returned" => ShownIsAnswer

TextInv == StreamInv /\ ShownInv /\ AnswerInv

LEMMA MessagesAreTexts == Messages \subseteq Text /\ <<>> \in Text
<1>1. ASSUME NEW m \in Messages PROVE m \in Text
  <2>1. m \in Seq(STRING) /\ STRING \subseteq Char
    BY RequestsAssumption DEF Char
  <2> QED
    BY <2>1, SeqMonotonic DEF Text
<1>2. <<>> \in Text
  BY EmptySeq DEF Text
<1> QED
  BY <1>1, <1>2

\* A stream begins with everything before it.
LEMMA StreamBegins ==
  ASSUME NEW m \in Text
  PROVE  \E g : /\ IsVisible(m, g)
                /\ Visible(m) = g[0]
                /\ Visible(m) = <<>> \o Rest(m, g, FALSE, 0)
<1>1. PICK g : IsVisible(m, g) /\ Visible(m) = g[0]
  BY VisibleUnfolds
<1>2. Len(m) \in Nat
  BY LenProperties DEF Text
<1>3. g[0] \in Text
  BY <1>1, <1>2 DEF IsVisible
<1>4. <<>> \o g[0] = g[0]
  BY <1>3, ConcatEmptySeq DEF Text
<1> QED
  BY <1>1, <1>4 DEF Rest

\* A request that is made begins a stream, or waits for its reply with nothing shown.
LEMMA InvokeShown ==
  ASSUME NEW p, NEW withTools, NEW e, NEW v, Invoke(p, withTools, e, v), answer' = NoAnswer
  PROVE  TextInv'
<1>1. mode' \in {"stream", "plain"} /\ message' \in Writing(mode') /\ sent' = 0
      /\ stripper' = Fresh /\ parts' = <<>> /\ shown' = <<>>
  BY DEF Invoke, FirstMode
<1>2. message' \in Text
  BY <1>1, MessagesAreTexts DEF Writing
<1>3. StreamInv'
  <2>1. SubSeq(message', 0 + 1, 0) = <<>>
    BY SubSeqEmpty
  <2>2. Streamed(0)'
    BY <1>1, <1>2, <2>1, StreamBegins DEF Streamed, Fresh
  <2>3. Len(message') \in Nat
    BY <1>2, LenProperties DEF Text
  <2>4. 0 \in 0..Len(message') /\ 0 \in 0..0
    BY <2>3
  <2> QED
    BY <1>1, <2>2, <2>4 DEF StreamInv
<1>4. ShownInv'
  BY <1>1, <1>2, MessagesAreTexts DEF ShownInv
<1>5. AnswerInv'
  BY <1>1 DEF AnswerInv
<1> QED
  BY <1>3, <1>4, <1>5 DEF TextInv

\* Whatever a stream holds back when it breaks, what is given out of it is text.
LEMMA FinishTyped ==
  ASSUME TextInv, mode = "stream"
  PROVE  Finish(stripper).output \in Text
<1> DEFINE m == stripper.pending
<1>1. message \in Text /\ Len(message) \in Nat /\ sent \in 0..Len(message)
  BY LenProperties DEF TextInv, ShownInv, StreamInv, Text
<1>2. PICK a \in 0..sent : Streamed(a)
  BY DEF TextInv, StreamInv
<1>3. m = SubSeq(message, a + 1, sent) /\ stripper.inThink \in BOOLEAN
  BY <1>2 DEF Streamed
<1>4. m \in Text
  <2>1. a \in 0..Len(message) /\ sent \in a..Len(message)
    BY <1>1
  <2> HIDE DEF m
  <2> QED
    BY <1>1, <1>3, <2>1, SliceFacts
<1> HIDE DEF m
<1>5. PICK g : IsVisible(m, g)
  BY <1>4, VisibleUnfolds
<1>6. Len(m) \in Nat /\ SubSeq(m, 0 + 1, Len(m)) = m
  BY <1>4, LenProperties, SubSeqFull DEF Text
<1>7. Consumed(m, g, 0, Len(m), stripper.inThink, TRUE,
               Consume(SubSeq(m, 0 + 1, Len(m)), stripper.inThink, TRUE))
  <2>1. 0 \in 0..Len(m) /\ Len(m) \in 0..Len(m)
    BY <1>6
  <2> QED
    BY <1>3, <1>4, <1>5, <2>1, WindowConsumed
<1>8. Finish(stripper) = Consume(SubSeq(m, 0 + 1, Len(m)), stripper.inThink, TRUE)
  BY <1>6 DEF Finish, m
<1> QED
  BY <1>7, <1>8 DEF Consumed, Result

LEMMA FinishIsRest ==
  ASSUME TextInv, mode = "stream", sent = Len(message)
  PROVE  /\ Finish(stripper).output \in Text
         /\ Visible(message) = shown \o Finish(stripper).output
<1> DEFINE t == Finish(stripper)
<1>1. message \in Text /\ parts \in Text /\ shown = parts /\ Len(message) \in Nat
  BY LenProperties DEF TextInv, ShownInv, Text
<1>2. PICK a \in 0..Len(message) : Streamed(a)
  BY DEF TextInv, StreamInv
<1>3. PICK g : /\ IsVisible(message, g)
               /\ Visible(message) = shown \o Rest(message, g, stripper.inThink, a)
  BY <1>2 DEF Streamed
<1>4. t = Consume(SubSeq(message, a + 1, Len(message)), stripper.inThink, TRUE)
      /\ stripper.inThink \in BOOLEAN
  BY <1>2 DEF Streamed, Finish
<1>5. Consumed(message, g, a, Len(message), stripper.inThink, TRUE,
               Consume(SubSeq(message, a + 1, Len(message)), stripper.inThink, TRUE))
  <2>1. Len(message) \in a..Len(message)
    BY <1>1
  <2> HIDE DEF t
  <2> QED
    BY <1>1, <1>3, <1>4, <2>1, WindowConsumed
<1> HIDE DEF t
<1>6. /\ t \in Result
      /\ Rest(message, g, stripper.inThink, a) = t.output \o Rest(message, g, t.inThink, Len(message))
  BY <1>4, <1>5 DEF Consumed
<1>7. t.inThink \in BOOLEAN /\ t.output \in Text
  BY <1>6 DEF Result
<1>8. Rest(message, g, t.inThink, Len(message)) = <<>>
  BY <1>1, <1>3, <1>7, RestAtEnd
<1>9. t.output \o <<>> = t.output
  BY <1>7, ConcatEmptySeq DEF Text
<1> QED
  BY <1>3, <1>6, <1>7, <1>8, <1>9 DEF t

LEMMA PieceShown ==
  ASSUME TextInv, Piece
  PROVE  TextInv'
<1>1. /\ mode = "stream" /\ mode' = "stream" /\ message' = message /\ answer' = answer
      /\ parts' = parts \o stripper'.output /\ shown' = shown \o stripper'.output
  BY DEF Piece, Forward
<1>2. PICK n \in (sent + 1)..Len(message) :
        sent' = n /\ stripper' = Push(stripper, SubSeq(message, sent + 1, n))
  BY DEF Piece
<1>3. /\ message \in Text /\ parts \in Text /\ shown = parts /\ Len(message) \in Nat
      /\ sent \in 0..Len(message)
  BY <1>1, LenProperties DEF TextInv, ShownInv, StreamInv, Text
<1>4. PICK a \in 0..sent : Streamed(a)
  BY <1>1 DEF TextInv, StreamInv
<1>5. PICK g : /\ IsVisible(message, g)
               /\ Visible(message) = g[0]
               /\ Visible(message) = shown \o Rest(message, g, stripper.inThink, a)
  BY <1>4 DEF Streamed
<1>6. /\ a \in 0..Len(message) /\ sent \in a..Len(message) /\ n \in sent..Len(message)
      /\ n \in a..Len(message) /\ n \in 0..Len(message)
  BY <1>3
<1>7. SubSeq(message, a + 1, sent) \o SubSeq(message, sent + 1, n) = SubSeq(message, a + 1, n)
  BY <1>3, <1>6, SlicesMeet
<1>8. stripper' = Consume(SubSeq(message, a + 1, n), stripper.inThink, FALSE)
      /\ stripper.inThink \in BOOLEAN
  BY <1>2, <1>4, <1>7 DEF Push, Streamed
<1>9. Consumed(message, g, a, n, stripper.inThink, FALSE,
               Consume(SubSeq(message, a + 1, n), stripper.inThink, FALSE))
  BY <1>3, <1>5, <1>6, <1>8, WindowConsumed
<1>10. PICK e \in a..n :
         /\ stripper'.pending = SubSeq(message, e + 1, n)
         /\ Rest(message, g, stripper.inThink, a)
            = stripper'.output \o Rest(message, g, stripper'.inThink, e)
  BY <1>8, <1>9 DEF Consumed
<1>11. stripper'.inThink \in BOOLEAN /\ stripper'.output \in Text
  BY <1>8, <1>9 DEF Consumed, Result
<1>12. Rest(message, g, stripper'.inThink, e) \in Text
  <2>1. e \in 0..Len(message)
    BY <1>6
  <2> QED
    BY <1>3, <1>5, <1>11, <2>1, RestTyped
<1>13. Visible(message) = (shown \o stripper'.output) \o Rest(message, g, stripper'.inThink, e)
  <2>1. \A c, d, f \in Text : (c \o d) \o f = c \o (d \o f)
    BY JoinedTexts
  <2> QED
    <3>1. (shown \o stripper'.output) \o Rest(message, g, stripper'.inThink, e)
          = shown \o (stripper'.output \o Rest(message, g, stripper'.inThink, e))
      BY <1>3, <1>11, <1>12, <2>1
    <3> QED
      BY <1>5, <1>10, <3>1
<1>14. Streamed(e)'
  BY <1>1, <1>2, <1>5, <1>10, <1>11, <1>13 DEF Streamed
<1>15. StreamInv'
  <2>1. e \in 0..sent'
    BY <1>2, <1>6
  <2> QED
    BY <1>1, <1>2, <1>6, <1>14, <2>1 DEF StreamInv
<1>16. ShownInv'
  <2>1. parts \o stripper'.output \in Text
    BY <1>3, <1>11, JoinedTexts
  <2> QED
    BY <1>1, <1>3, <2>1 DEF ShownInv
<1>17. AnswerInv'
  BY <1>1 DEF TextInv, AnswerInv
<1> QED
  BY <1>15, <1>16, <1>17 DEF TextInv

LEMMA StreamEndsShown ==
  ASSUME TextInv, StreamEnds
  PROVE  TextInv'
<1> DEFINE rest == Finish(stripper).output
           text == IF Client = "openai" THEN parts \o rest ELSE Strip(message)
<1>1. /\ mode = "stream" /\ sent = Len(message) /\ shown' = shown \o rest /\ message' = message
      /\ answer' = [kind |-> "text", of |-> mode, text |-> text] /\ mode' = "returned"
      /\ parts' = parts
  BY DEF StreamEnds, Arrived, Answer
<1>2. message \in Text /\ parts \in Text /\ shown = parts
  BY <1>1 DEF TextInv, ShownInv
<1>3. Visible(message) = shown \o rest
  BY <1>1, FinishIsRest
<1>4. text = Visible(message)
  BY <1>2, <1>3, StripIsVisible
<1> HIDE DEF text, rest
<1>5. ShownIsAnswer'
  BY <1>1, <1>3, <1>4 DEF ShownIsAnswer
<1> QED
  BY <1>1, <1>2, <1>5 DEF TextInv, StreamInv, ShownInv, AnswerInv

LEMMA StreamBreaksShown ==
  ASSUME TextInv, StreamBreaks
  PROVE  TextInv'
<1>1. /\ mode = "stream" /\ mode' = "fallback" /\ message' = <<>> /\ answer' = answer
  BY DEF StreamBreaks, AskAgain
<1>2. message \in Text /\ parts \in Text /\ shown = parts
  BY <1>1 DEF TextInv, ShownInv
<1>3. parts' \in Text /\ shown' = parts'
  <2>1. CASE UNCHANGED <<parts, shown>>
    BY <1>2, <2>1
  <2>2. CASE Forward(Finish(stripper).output) /\ Finish(stripper).output \in Text
    <3>1. parts \o Finish(stripper).output \in Text
      BY <1>2, <2>2, JoinedTexts
    <3> QED
      BY <1>2, <2>2, <3>1 DEF Forward
  <2>3. Finish(stripper).output \in Text
    BY <1>1, FinishTyped
  <2> QED
    BY <2>1, <2>2, <2>3 DEF StreamBreaks
<1>4. message' \in Text
  BY <1>1, MessagesAreTexts
<1> QED
  BY <1>1, <1>3, <1>4 DEF TextInv, StreamInv, ShownInv, AnswerInv

LEMMA RepliesShown ==
  ASSUME TextInv, Replies
  PROVE  TextInv'
<1>1. /\ mode \in {"plain", "fallback"} /\ message' \in Messages
      /\ shown' = IF mode = "fallback" /\ parts = <<>> THEN Strip(message') ELSE shown
      /\ answer' = [kind |-> "text", of |-> mode, text |-> Strip(message')]
      /\ mode' = "returned" /\ parts' = parts
  BY DEF Replies, Answer
<1>2. message' \in Text
  BY <1>1, MessagesAreTexts
<1>3. Strip(message') = Visible(message')
  BY <1>2, StripIsVisible
<1>4. parts \in Text /\ (mode = "fallback" => shown = parts) /\ (mode = "plain" => shown = <<>>)
  BY DEF TextInv, ShownInv
<1>5. ShownIsAnswer'
  BY <1>1, <1>3, <1>4 DEF ShownIsAnswer
<1> QED
  BY <1>1, <1>2, <1>4, <1>5 DEF TextInv, StreamInv, ShownInv, AnswerInv

\* The next endpoint is asked, or the call fails.
LEMMA NextEndpointShown ==
  ASSUME TextInv, NextEndpoint, mode # "returned"
  PROVE  TextInv'
<1>1. answer = NoAnswer
  BY DEF TextInv, AnswerInv
<1>2. CASE endpoint + 1 \in Candidates
  BY <1>1, <1>2, InvokeShown DEF NextEndpoint
<1>3. CASE endpoint + 1 \notin Candidates
  <2>1. /\ answer' = [kind |-> "failed"] /\ mode' = "returned"
        /\ UNCHANGED <<message, parts, shown>>
    BY <1>3 DEF NextEndpoint
  <2> QED
    BY <2>1 DEF TextInv, StreamInv, ShownInv, AnswerInv, ShownIsAnswer
<1> QED
  BY <1>2, <1>3

LEMMA NextShown ==
  ASSUME TextInv, [Next]_vars
  PROVE  TextInv'
<1>1. ASSUME NEW p \in Profiles, NEW withTools \in BOOLEAN, Call(p, withTools) PROVE TextInv'
  <2>1. answer' = NoAnswer
    BY <1>1 DEF TextInv, AnswerInv, Call
  <2> QED
    BY <1>1, <2>1, InvokeShown DEF Call
<1>2. CASE Return
  BY <1>2, MessagesAreTexts DEF Return, TextInv, StreamInv, ShownInv, AnswerInv
<1>3. CASE RequestFails
  BY <1>3, NextEndpointShown DEF RequestFails
<1>4. CASE ReplyMalformed
  <2>1. answer = NoAnswer /\ mode # "returned"
    BY <1>4 DEF ReplyMalformed, TextInv, AnswerInv
  <2>2. CASE variant < 5
    BY <1>4, <2>1, <2>2, InvokeShown DEF ReplyMalformed
  <2>3. CASE ~(variant < 5)
    BY <1>4, <2>1, <2>3, NextEndpointShown DEF ReplyMalformed
  <2> QED
    BY <2>2, <2>3
<1>5. CASE UNCHANGED vars
  BY <1>5 DEF vars, TextInv, StreamInv, Streamed, ShownInv, AnswerInv, ShownIsAnswer
<1>6. CASE Idle
  BY <1>5, <1>6 DEF Idle
<1> QED
  BY <1>1, <1>2, <1>3, <1>4, <1>5, <1>6, PieceShown, StreamEndsShown, StreamBreaksShown,
     RepliesShown DEF Next

LEMMA InitShown == Init => TextInv
BY MessagesAreTexts DEF Init, TextInv, StreamInv, ShownInv, AnswerInv

LEMMA ShownBegins ==
  ASSUME TextInv
  PROVE  ShownIsVisible
<1>1. SUFFICES ASSUME mode = "stream" PROVE IsPrefix(shown, Visible(message))
  BY DEF ShownIsVisible
<1>2. /\ message \in Text /\ shown \in Text /\ Len(message) \in Nat
      /\ sent \in 0..Len(message)
  BY <1>1, LenProperties DEF TextInv, ShownInv, StreamInv, Text
<1>3. PICK a \in 0..sent : Streamed(a)
  BY <1>1 DEF TextInv, StreamInv
<1>4. PICK g : /\ IsVisible(message, g)
               /\ Visible(message) = shown \o Rest(message, g, stripper.inThink, a)
  BY <1>3 DEF Streamed
<1> DEFINE r == Rest(message, g, stripper.inThink, a)
           v == shown \o r
<1>5. r \in Text
  <2>1. a \in 0..Len(message) /\ stripper.inThink \in BOOLEAN
    BY <1>2, <1>3 DEF Streamed
  <2> QED
    BY <1>2, <1>4, <2>1, RestTyped
<1> HIDE DEF r
<1>6. /\ v \in Text /\ Len(v) = Len(shown) + Len(r) /\ Len(shown) \in Nat /\ Len(r) \in Nat
      /\ \A i \in 1..(Len(shown) + Len(r)) : v[i] = IF i <= Len(shown) THEN shown[i]
                                                    ELSE r[i - Len(shown)]
  BY <1>2, <1>5, ConcatProperties, LenProperties DEF Text
<1> HIDE DEF v
<1>7. SubSeq(v, 1, Len(shown)) = SubSeq(shown, 1, Len(shown))
  <2> DEFINE l == Len(shown)
             c == SubSeq(v, 0 + 1, l)
             d == SubSeq(shown, 0 + 1, l)
  <2>1. l \in Nat /\ 0 \in 0..Len(v) /\ l \in 0..Len(v) /\ 0 \in 0..Len(shown) /\ l \in 0..Len(shown)
        /\ l - 0 = l
    BY <1>6
  <2>2. c \in Text /\ Len(c) = l - 0 /\ \A i \in 1..(l - 0) : c[i] = v[0 + i]
    <3> HIDE DEF l
    <3> QED
      BY <1>6, <2>1, SliceFacts
  <2>3. d \in Text /\ Len(d) = l - 0 /\ \A i \in 1..(l - 0) : d[i] = shown[0 + i]
    <3> HIDE DEF l
    <3> QED
      BY <1>2, <2>1, SliceFacts
  <2>4. \A i \in 1..l : v[0 + i] = shown[0 + i]
    BY <1>6
  <2> HIDE DEF c, d, l
  <2>5. Len(c) = Len(d) /\ \A i \in 1..Len(c) : c[i] = d[i]
    BY <2>1, <2>2, <2>3, <2>4
  <2>6. c = d
    BY <2>2, <2>3, <2>5, SeqEqual DEF Text
  <2> QED
    BY <2>6 DEF c, d, l
<1>8. IsPrefix(shown, v)
  BY <1>6, <1>7 DEF IsPrefix
<1> QED
  BY <1>4, <1>8 DEF v, r

\* However the pieces of a stream fall, within a tag or within a thought, what it has shown
\* is the beginning of what is visible of the text: nothing must be taken back
\* (native.py 436-477).
THEOREM ShownStaysVisible == Spec => []ShownIsVisible
<1>1. Spec => []TextInv
  BY InitShown, NextShown, PTL DEF Spec
<1>2. TextInv => ShownIsVisible
  BY ShownBegins
<1> QED
  BY <1>1, <1>2, PTL

\* For every text and every way it arrives, fails and is asked for again, an answer is the
\* text without its thoughts, and what was shown is the answer, character by character,
\* unless a stream broke after it had shown some or nothing was streamed (native.py 206-267,
\* 371-428).
THEOREM AnswerIsVisible == Spec => []ShownIsAnswer
<1>1. Spec => []TextInv
  BY InitShown, NextShown, PTL DEF Spec
<1>2. TextInv => ShownIsAnswer
  BY DEF TextInv, AnswerInv, ShownIsAnswer, NoAnswer
<1> QED
  BY <1>1, <1>2, PTL
-----------------------------------------------------------------------------
(* The configuration *)

LEMMA MaxOfRange ==
  ASSUME NEW n \in Nat, NEW s \in SUBSET (1..n), s # {}
  PROVE  Max(s) \in s /\ \A y \in s : y <= Max(s)
<1> DEFINE D == {d \in 0..n : n - d \in s}
<1>1. D \in SUBSET Nat /\ D # {}
  <2>1. PICK y \in s : TRUE
    OBVIOUS
  <2>2. n - y \in 0..n /\ n - (n - y) = y
    BY <2>1
  <2>3. n - y \in D
    BY <2>1, <2>2
  <2>4. D \in SUBSET Nat
    OBVIOUS
  <2> QED
    BY <2>3, <2>4
<1>2. PICK d \in D : \A e \in D : d <= e
  <2> HIDE DEF D
  <2> QED
    BY <1>1, LeastNatural
<1>3. n - d \in s /\ \A y \in s : n - d >= y
  <2>1. ASSUME NEW y \in s PROVE n - d >= y
    <3>1. n - y \in 0..n /\ n - (n - y) = y
      OBVIOUS
    <3>2. n - y \in D
      BY <3>1
    <3> QED
      BY <1>2, <3>1, <3>2
  <2> QED
    BY <2>1
<1>4. \A y \in s : y \in Int
  OBVIOUS
<1>5. Max(s) \in s /\ \A y \in s : Max(s) >= y
  BY <1>3 DEF Max
<1> QED
  BY <1>4, <1>5

LEMMA MaxOfPrefix ==
  ASSUME NEW k \in Nat \ {0}
  PROVE  Max(1..k) = k /\ (1..k) \ {k} = 1..(k - 1)
<1>1. 1..k \in SUBSET (1..k) /\ 1..k # {}
  OBVIOUS
<1>2. Max(1..k) \in 1..k /\ \A y \in 1..k : y <= Max(1..k)
  BY <1>1, MaxOfRange
<1> QED
  BY <1>2

\* g is the fold of n items from base, where item k takes a result d to f[<<d, k>>].
IsFold(g, n, base, f) ==
  \A s \in SUBSET (1..n) :
    g[s] = IF s = {} THEN base ELSE f[<<g[s \ {Max(s)}], Max(s)>>]

LEMMA FoldExists ==
  ASSUME NEW n \in Nat, NEW R, NEW base \in R, NEW f \in [R \X (1..n) -> R]
  PROVE  \E g \in [SUBSET (1..n) -> R] : IsFold(g, n, base, f)
<1> DEFINE D == SUBSET (1..n)
           stops == {{}}
           next == [s \in D |-> IF s = {} THEN s ELSE s \ {Max(s)}]
           rank == [s \in D |-> IF s = {} THEN 0 ELSE Max(s)]
           bases == [s \in D |-> base]
           step == [p \in D \X R |-> IF p[1] = {} THEN p[2] ELSE f[<<p[2], Max(p[1])>>]]
<1>1. ASSUME NEW s \in D, s # {}
      PROVE  Max(s) \in s /\ Max(s) \in 1..n /\ \A y \in s : y <= Max(s)
  BY <1>1, MaxOfRange
<1>2. Descends(D, stops, next, rank, n)
  <2>1. stops \in SUBSET D /\ next \in [D -> D]
    OBVIOUS
  <2>2. rank \in [D -> 0..n]
    <3>1. ASSUME NEW s \in D PROVE (IF s = {} THEN 0 ELSE Max(s)) \in 0..n
      BY <1>1
    <3> QED
      BY <3>1
  <2>3. ASSUME NEW s \in D \ stops PROVE rank[next[s]] < rank[s]
    <3>1. s # {} /\ Max(s) \in s /\ Max(s) \in 1..n /\ \A y \in s : y <= Max(s)
      BY <1>1
    <3> DEFINE t == s \ {Max(s)}
    <3>2. next[s] = t /\ rank[s] = Max(s) /\ t \in D
      BY <3>1
    <3>3. CASE t = {}
      <4>1. rank[t] = 0
        BY <3>2, <3>3
      <4> QED
        BY <3>1, <3>2, <4>1
    <3>4. CASE t # {}
      <4>1. Max(t) \in t /\ Max(t) \in 1..n
        BY <1>1, <3>2, <3>4
      <4>2. Max(t) \in s /\ Max(t) # Max(s)
        BY <4>1
      <4>3. rank[t] = Max(t)
        BY <3>2, <3>4
      <4> HIDE DEF t, rank, next
      <4> QED
        BY <3>1, <3>2, <4>1, <4>2, <4>3
    <3> QED
      BY <3>3, <3>4
  <2> HIDE DEF rank, next, stops, D
  <2> QED
    BY <2>1, <2>2, <2>3 DEF Descends
<1>3. bases \in [D -> R]
  OBVIOUS
<1>4. step \in [D \X R -> R]
  <2>1. ASSUME NEW p \in D \X R
        PROVE  (IF p[1] = {} THEN p[2] ELSE f[<<p[2], Max(p[1])>>]) \in R
    <3>1. p[1] \in D /\ p[2] \in R
      OBVIOUS
    <3>2. p[1] # {} => Max(p[1]) \in 1..n
      BY <1>1, <3>1
    <3> QED
      BY <3>1, <3>2
  <2> QED
    BY <2>1
<1>5. PICK g \in [D -> R] : Recursive(g, D, stops, bases, step, next)
  <2> HIDE DEF D, stops, bases, step, next, rank
  <2> QED
    BY <1>2, <1>3, <1>4, RecursionExists
<1>6. ASSUME NEW s \in D
      PROVE  g[s] = IF s = {} THEN base ELSE f[<<g[s \ {Max(s)}], Max(s)>>]
  <2>1. g[s] = IF s \in stops THEN bases[s] ELSE step[<<s, g[next[s]]>>]
    BY <1>5 DEF Recursive
  <2>2. CASE s = {}
    BY <2>1, <2>2
  <2>3. CASE s # {}
    <3>1. next[s] = s \ {Max(s)} /\ s \ {Max(s)} \in D
      BY <2>3
    <3>2. g[s \ {Max(s)}] \in R
      BY <3>1
    <3>3. step[<<s, g[s \ {Max(s)}]>>] = f[<<g[s \ {Max(s)}], Max(s)>>]
      BY <2>3, <3>2
    <3> HIDE DEF step, next, D
    <3> QED
      BY <2>1, <2>3, <3>1, <3>3
  <2> QED
    BY <2>2, <2>3
<1> QED
  BY <1>5, <1>6 DEF IsFold

\* Profile names, and what they are bound to.
Names == STRING \cup {"agent", "summary"}

BindingType == {b \in [endpoints : Seq(Endpoint), attempts : Nat] : b.endpoints # <<>>}

Bindings == UNION {[S -> BindingType] : S \in SUBSET Names}

\* What a source lists for a profile.
EntryType(source) ==
  [name : STRING, list : IF ByName(source) THEN Seq(STRING) ELSE Seq(Endpoint), attempts : Nat]

\* What an entry of a source does to the bindings made so far.
Bind(source, bindings, entry) ==
  IF entry.list = <<>> THEN bindings
  ELSE Assigned(bindings, Resolved(entry.name), Binding(config, source, entry))

\* The configuration is one a process starts with.
Sound == WellFormed(config) /\ Loads(config)

LEMMA SourceFacts ==
  /\ DOMAIN Sources = 1..5 /\ Len(Sources) = 5
  /\ \A k \in 1..5 : Sources[k] \in {"shortcut", "legacy", "json", "file", "runtime"}
BY DEF Sources

LEMMA ProfilesTyped ==
  ASSUME Sound, NEW k \in 1..5
  PROVE  LET q == config[Sources[k]].profiles
         IN  q \in Seq(EntryType(Sources[k])) /\ Len(q) \in Nat /\ DOMAIN q = 1..Len(q)
<1>1. config[Sources[k]].profiles \in Seq(EntryType(Sources[k]))
  BY SourceFacts DEF Sound, WellFormed, EntryType
<1> QED
  BY <1>1, LenProperties

LEMMA ModelsTyped ==
  ASSUME Sound, NEW source, NEW id \in DOMAIN ModelsFor(config, source)
  PROVE  ModelsFor(config, source)[id] \in Endpoint
BY DEF Sound, WellFormed, ModelsFor, Updated

\* What a source that is not refused binds has endpoints.
LEMMA BindingTyped ==
  ASSUME Sound, NEW k \in 1..5, NEW j \in DOMAIN config[Sources[k]].profiles,
         config[Sources[k]].profiles[j].list # <<>>
  PROVE  /\ Resolved(config[Sources[k]].profiles[j].name) \in Names
         /\ Binding(config, Sources[k], config[Sources[k]].profiles[j]) \in BindingType
<1> DEFINE source == Sources[k]
           e == config[source].profiles[j]
           b == Binding(config, source, e)
<1>1. e \in EntryType(source)
  BY ProfilesTyped, ElementOfSeq
<1> HIDE DEF source
<1>2. e.name \in STRING /\ e.attempts \in Nat
  <2> HIDE DEF e
  <2> QED
    BY <1>1 DEF EntryType
<1>3. Resolved(e.name) \in Names
  BY <1>2 DEF Resolved, Names
<1>4. CASE ~ByName(source)
  <2>1. e.list \in Seq(Endpoint) /\ e.list # <<>>
    <3>1. e.list \in Seq(Endpoint)
      <4> HIDE DEF e
      <4> QED
        BY <1>1, <1>4 DEF EntryType
    <3> QED
      BY <3>1 DEF source
  <2>2. b = [endpoints |-> e.list, attempts |-> IF e.attempts < 1 THEN 1 ELSE e.attempts]
    BY <1>4 DEF Binding
  <2>3. b \in [endpoints : Seq(Endpoint), attempts : Nat] /\ b.endpoints = e.list
    <3> HIDE DEF e, b
    <3> QED
      BY <1>2, <2>1, <2>2
  <2>4. b \in BindingType
    <3> HIDE DEF e, b
    <3> QED
      BY <2>1, <2>3 DEF BindingType
  <2> QED
    BY <1>3, <2>4 DEF source
<1>5. CASE ByName(source)
  <2> DEFINE l == e.list
             m == ModelsFor(config, source)
             t == [i \in DOMAIN l |-> m[l[i]]]
  <2>1. l \in Seq(STRING) /\ l # <<>>
    <3>1. l \in Seq(STRING)
      <4> HIDE DEF e
      <4> QED
        BY <1>1, <1>5 DEF EntryType
    <3> QED
      BY <3>1 DEF source
  <2>2. Range(l) \subseteq DOMAIN m
    BY <1>5, SourceFacts DEF Sound, Loads, Refused, source
  <2> HIDE DEF l, m
  <2>3. Len(l) \in Nat /\ DOMAIN l = 1..Len(l) /\ Len(l) # 0
    BY <2>1, LenProperties, EmptySeq
  <2>4. \A i \in 1..Len(l) : m[l[i]] \in Endpoint
    <3>1. \A i \in 1..Len(l) : l[i] \in Range(l)
      BY <2>3 DEF Range
    <3> QED
      BY <2>2, <3>1, ModelsTyped DEF m
  <2>5. t \in Seq(Endpoint) /\ Len(t) = Len(l)
    <3>1. t = [i \in 1..Len(l) |-> m[l[i]]]
      BY <2>3
    <3> HIDE DEF t
    <3> QED
      BY <2>3, <2>4, <3>1
  <2>6. t # <<>>
    BY <2>3, <2>5, EmptySeq
  <2>7. b = [endpoints |-> t, attempts |-> IF e.attempts < 1 THEN 1 ELSE e.attempts]
    BY <1>5 DEF Binding, l, m
  <2> HIDE DEF t
  <2>8. b \in [endpoints : Seq(Endpoint), attempts : Nat] /\ b.endpoints = t
    <3> HIDE DEF e, b
    <3> QED
      BY <1>2, <2>5, <2>7
  <2>9. b \in BindingType
    <3> HIDE DEF e, b
    <3> QED
      BY <2>6, <2>8 DEF BindingType
  <2> QED
    BY <1>3, <2>9 DEF source
<1> QED
  BY <1>4, <1>5

LEMMA BindTyped ==
  ASSUME Sound, NEW k \in 1..5, NEW j \in DOMAIN config[Sources[k]].profiles,
         NEW bindings \in Bindings
  PROVE  Bind(Sources[k], bindings, config[Sources[k]].profiles[j]) \in Bindings
<1> DEFINE e == config[Sources[k]].profiles[j]
           name == Resolved(e.name)
           b == Binding(config, Sources[k], e)
<1>1. CASE e.list = <<>>
  BY <1>1 DEF Bind
<1>2. CASE e.list # <<>>
  <2>1. name \in Names /\ b \in BindingType
    BY <1>2, BindingTyped
  <2>2. PICK S \in SUBSET Names : bindings \in [S -> BindingType]
    BY DEF Bindings
  <2> HIDE DEF name, b
  <2>3. S \cup {name} \in SUBSET Names /\ Assigned(bindings, name, b) \in [S \cup {name} -> BindingType]
    BY <2>1, <2>2 DEF Assigned
  <2>4. Assigned(bindings, name, b) \in Bindings
    <3> HIDE DEF BindingType, Names
    <3> QED
      BY <2>3 DEF Bindings
  <2> QED
    BY <1>2, <2>4 DEF Bind, name, b
<1> QED
  BY <1>1, <1>2

\* The bindings after the first j entries of a source.
LEMMA BoundFold ==
  ASSUME Sound, NEW i \in 1..5, NEW bindings \in Bindings
  PROVE  \E r : /\ r[0] = bindings
                /\ r[Len(config[Sources[i]].profiles)] = Bound(config, bindings, Sources[i])
                /\ \A k \in 1..Len(config[Sources[i]].profiles) : r[k] = Bind(Sources[i], r[k - 1], config[Sources[i]].profiles[k])
<1> DEFINE q == config[Sources[i]].profiles
           n == Len(q)
           b == bindings
           Step(acc, item) == Bind(Sources[i], acc, item)
           f == [p \in Bindings \X (1..n) |-> Step(p[1], q[p[2]])]
           h == CHOOSE h : h = [s \in SUBSET DOMAIN q |->
                  IF s = {} THEN b ELSE Step(h[s \ {Max(s)}], q[Max(s)])]
<1>1. /\ n \in Nat /\ DOMAIN q = 1..n /\ b \in Bindings
      /\ \A acc \in Bindings, k \in 1..n : Step(acc, q[k]) \in Bindings
  <2>1. n \in Nat /\ DOMAIN q = 1..n
    BY ProfilesTyped
  <2> QED
    BY <2>1, BindTyped
<1>2. Bound(config, bindings, Sources[i]) = h[DOMAIN q]
  BY Zenon DEF Bound, Bind, FoldLeft, MapThenFoldSet
<1> HIDE DEF q, n, b, Step
<1>3. f \in [Bindings \X (1..n) -> Bindings]
  <2>1. ASSUME NEW p \in Bindings \X (1..n) PROVE Step(p[1], q[p[2]]) \in Bindings
    <3>1. p[1] \in Bindings /\ p[2] \in 1..n
      OBVIOUS
    <3> QED
      BY <1>1, <3>1
  <2> QED
    BY <2>1
<1>4. PICK g \in [SUBSET (1..n) -> Bindings] : IsFold(g, n, b, f)
  <2> HIDE DEF f
  <2> QED
    BY <1>1, <1>3, FoldExists
<1>5. ASSUME NEW s \in SUBSET DOMAIN q
      PROVE  g[s] = IF s = {} THEN b ELSE Step(g[s \ {Max(s)}], q[Max(s)])
  <2>1. s # {} => Max(s) \in 1..n /\ g[s \ {Max(s)}] \in Bindings
    BY <1>1, <1>4, MaxOfRange
  <2>2. s # {} => f[<<g[s \ {Max(s)}], Max(s)>>] = Step(g[s \ {Max(s)}], q[Max(s)])
    BY <2>1
  <2> HIDE DEF f
  <2> QED
    BY <1>1, <1>4, <2>2 DEF IsFold
<1>6. g = [s \in SUBSET DOMAIN q |-> IF s = {} THEN b ELSE Step(g[s \ {Max(s)}], q[Max(s)])]
  BY <1>1, <1>4, <1>5
<1>7. h = [s \in SUBSET DOMAIN q |-> IF s = {} THEN b ELSE Step(h[s \ {Max(s)}], q[Max(s)])]
  BY <1>6, Zenon
<1> HIDE DEF h
<1> DEFINE r == [k \in 0..n |-> h[1..k]]
<1>8. r[0] = b /\ r[n] = Bound(config, bindings, Sources[i])
  <2>1. 1..0 = {} /\ {} \in SUBSET DOMAIN q
    OBVIOUS
  <2>2. h[{}] = b
    BY <1>7, <2>1
  <2>3. 0 \in 0..n /\ n \in 0..n
    BY <1>1
  <2>4. r[0] = h[1..0] /\ r[n] = h[1..n]
    BY <2>3
  <2> HIDE DEF r
  <2> QED
    BY <1>1, <1>2, <2>1, <2>2, <2>4
<1>9. ASSUME NEW k \in 1..n PROVE r[k] = Step(r[k - 1], q[k])
  <2>1. 1..k \in SUBSET DOMAIN q /\ 1..k # {}
    <3>1. k \in Nat /\ 1 <= k /\ k <= n
      BY <1>1
    <3>2. 1..k \subseteq 1..n /\ 1 \in 1..k
      BY <1>1, <3>1
    <3> QED
      BY <1>1, <3>2
  <2>2. h[1..k] = Step(h[(1..k) \ {Max(1..k)}], q[Max(1..k)])
    BY <1>7, <2>1
  <2>3. Max(1..k) = k /\ (1..k) \ {k} = 1..(k - 1)
    BY <1>1, MaxOfPrefix
  <2>4. k \in 0..n /\ k - 1 \in 0..n
    BY <1>1
  <2>5. r[k] = h[1..k] /\ r[k - 1] = h[1..(k - 1)]
    BY <2>4
  <2> HIDE DEF r
  <2> QED
    BY <2>2, <2>3, <2>5
<1> HIDE DEF r
<1> QED
  BY <1>8, <1>9 DEF q, n, b, Step

\* What a source makes of p, given what was bound before it.
Makes(p, source, before, after) ==
  IF Binds(p, source) # {}
  THEN after[p] = Binding(config, source, config[source].profiles[Max(Binds(p, source))])
  ELSE p \in DOMAIN before /\ after[p] = before[p]

LEMMA BoundMeans ==
  ASSUME Sound, NEW i \in 1..5, NEW bindings \in Bindings
  PROVE  LET after == Bound(config, bindings, Sources[i])
         IN  after \in Bindings /\ \A p \in DOMAIN after : Makes(p, Sources[i], bindings, after)
<1> DEFINE source == Sources[i]
           q == config[source].profiles
           n == Len(q)
           B(p, k) == Binds(p, source) \cap (1..k)
           Good(k, d) ==
             /\ d \in Bindings
             /\ \A p \in DOMAIN d :
                  IF B(p, k) # {} THEN d[p] = Binding(config, source, q[Max(B(p, k))])
                  ELSE p \in DOMAIN bindings /\ d[p] = bindings[p]
<1>1. PICK r : /\ r[0] = bindings
               /\ r[Len(config[Sources[i]].profiles)] = Bound(config, bindings, Sources[i])
               /\ \A k \in 1..Len(config[Sources[i]].profiles) :
                    r[k] = Bind(Sources[i], r[k - 1], config[Sources[i]].profiles[k])
  BY BoundFold
<1>2. n \in Nat /\ DOMAIN q = 1..n
  BY ProfilesTyped
<1>3. \A p : Binds(p, source) = {k \in 1..n : Resolved(q[k].name) = p /\ q[k].list # <<>>}
  BY <1>2 DEF Binds
<1> DEFINE S == {k \in 0..n : Good(k, r[k])}
<1>4. 0 \in S
  <2>1. \A p : B(p, 0) = {}
    BY <1>3
  <2>2. Good(0, r[0])
    <3> HIDE DEF B
    <3> QED
      BY <1>1, <2>1
  <2> HIDE DEF Good
  <2> QED
    BY <1>2, <2>2
<1>5. ASSUME NEW k \in 1..n, k - 1 \in S PROVE k \in S
  <2> DEFINE e == q[k]
             old == r[k - 1]
             name == Resolved(e.name)
  <2>1. Good(k - 1, old)
    BY <1>5
  <2>2. r[k] = Bind(source, old, e)
    BY <1>1
  <2>3. r[k] \in Bindings
    <3>1. k \in DOMAIN q /\ old \in Bindings
      BY <1>2, <2>1
    <3> HIDE DEF old
    <3> QED
      BY <2>2, <3>1, BindTyped
  <2>4. ASSUME NEW p \in DOMAIN r[k]
        PROVE  IF B(p, k) # {} THEN r[k][p] = Binding(config, source, q[Max(B(p, k))])
               ELSE p \in DOMAIN bindings /\ r[k][p] = bindings[p]
    <3>1. CASE e.list # <<>> /\ p = name
      <4>1. k \in B(p, k) /\ B(p, k) \in SUBSET (1..k) /\ k \in Nat
        BY <1>2, <1>3, <3>1
      <4>2. Max(B(p, k)) = k
        <5>1. B(p, k) # {}
          BY <4>1
        <5> HIDE DEF B
        <5>2. Max(B(p, k)) \in B(p, k) /\ \A y \in B(p, k) : y <= Max(B(p, k))
          BY <4>1, <5>1, MaxOfRange
        <5>3. Max(B(p, k)) \in 1..k /\ k <= Max(B(p, k))
          BY <4>1, <5>2
        <5> HIDE DEF n
        <5> QED
          BY <4>1, <5>3
      <4>3. r[k][p] = Binding(config, source, e)
        <5>1. r[k] = Assigned(old, name, Binding(config, source, e))
          BY <2>2, <3>1 DEF Bind
        <5> HIDE DEF old, e, source, name
        <5> QED
          BY <3>1, <5>1 DEF Assigned
      <4> HIDE DEF B
      <4> QED
        BY <4>1, <4>2, <4>3
    <3>2. CASE e.list = <<>> \/ p # name
      <4>1. B(p, k) = B(p, k - 1)
        <5>1. k \notin Binds(p, source)
          BY <1>3, <3>2
        <5>2. \A x \in 1..k : x = k \/ x \in 1..(k - 1)
          BY <1>2
        <5>3. 1..(k - 1) \subseteq 1..k
          BY <1>2
        <5> HIDE DEF source
        <5> QED
          BY <5>1, <5>2, <5>3
      <4>2. p \in DOMAIN old /\ r[k][p] = old[p]
        <5>1. CASE e.list = <<>>
          BY <2>2, <2>4, <5>1 DEF Bind
        <5>2. CASE e.list # <<>> /\ p # name
          <6>1. r[k] = Assigned(old, name, Binding(config, source, e))
            BY <2>2, <5>2 DEF Bind
          <6> HIDE DEF old, e, source, name
          <6> QED
            BY <2>4, <5>2, <6>1 DEF Assigned
        <5> QED
          BY <3>2, <5>1, <5>2
      <4> HIDE DEF B, old
      <4> QED
        BY <2>1, <4>1, <4>2
    <3> QED
      BY <3>1, <3>2
  <2>5. Good(k, r[k])
    <3> HIDE DEF B, q
    <3> QED
      BY <2>3, <2>4
  <2> HIDE DEF Good
  <2> QED
    BY <1>2, <2>5
<1>6. n \in S
  <2> HIDE DEF S, n
  <2>1. 0..n \subseteq S
    BY <1>2, <1>4, <1>5, CountUp
  <2> QED
    BY <1>2, <2>1
<1> DEFINE after == Bound(config, bindings, source)
<1>7. Good(n, after)
  <2> HIDE DEF Good
  <2> QED
    BY <1>1, <1>6
<1>8. \A p : B(p, n) = Binds(p, source)
  BY <1>3
<1> HIDE DEF B, after
<1>9. after \in Bindings /\ \A p \in DOMAIN after : Makes(p, source, bindings, after)
  BY <1>7, <1>8 DEF Makes
<1> QED
  BY <1>9 DEF after

\* The bindings after the first j sources.
LEMMA SettingsFold ==
  ASSUME Sound
  PROVE  \E r : /\ r[0] = [p \in {} |-> p]
                /\ r[Len(Sources)] = Settings(config)
                /\ \A k \in 1..Len(Sources) : r[k] = Bound(config, r[k - 1], Sources[k])
<1> DEFINE q == Sources
           n == Len(q)
           b == [p \in {} |-> p]
           Step(acc, item) == Bound(config, acc, item)
           f == [p \in Bindings \X (1..n) |-> Step(p[1], q[p[2]])]
           h == CHOOSE h : h = [s \in SUBSET DOMAIN q |->
                  IF s = {} THEN b ELSE Step(h[s \ {Max(s)}], q[Max(s)])]
<1>1. /\ n \in Nat /\ DOMAIN q = 1..n /\ b \in Bindings
      /\ \A acc \in Bindings, k \in 1..n : Step(acc, q[k]) \in Bindings
  <2>1. n = 5 /\ DOMAIN q = 1..5
    BY SourceFacts
  <2>2. b \in [{} -> BindingType] /\ {} \in SUBSET Names
    OBVIOUS
  <2>3. b \in Bindings
    BY <2>2 DEF Bindings
  <2>4. \A acc \in Bindings, k \in 1..5 : Bound(config, acc, Sources[k]) \in Bindings
    BY BoundMeans
  <2> HIDE DEF b
  <2> QED
    BY <2>1, <2>3, <2>4
<1>2. Settings(config) = h[DOMAIN q]
  BY Zenon DEF Settings, FoldLeft, MapThenFoldSet
<1> HIDE DEF q, n, b, Step
<1>3. f \in [Bindings \X (1..n) -> Bindings]
  <2>1. ASSUME NEW p \in Bindings \X (1..n) PROVE Step(p[1], q[p[2]]) \in Bindings
    <3>1. p[1] \in Bindings /\ p[2] \in 1..n
      OBVIOUS
    <3> QED
      BY <1>1, <3>1
  <2> QED
    BY <2>1
<1>4. PICK g \in [SUBSET (1..n) -> Bindings] : IsFold(g, n, b, f)
  <2> HIDE DEF f
  <2> QED
    BY <1>1, <1>3, FoldExists
<1>5. ASSUME NEW s \in SUBSET DOMAIN q
      PROVE  g[s] = IF s = {} THEN b ELSE Step(g[s \ {Max(s)}], q[Max(s)])
  <2>1. s # {} => Max(s) \in 1..n /\ g[s \ {Max(s)}] \in Bindings
    BY <1>1, <1>4, MaxOfRange
  <2>2. s # {} => f[<<g[s \ {Max(s)}], Max(s)>>] = Step(g[s \ {Max(s)}], q[Max(s)])
    BY <2>1
  <2> HIDE DEF f
  <2> QED
    BY <1>1, <1>4, <2>2 DEF IsFold
<1>6. g = [s \in SUBSET DOMAIN q |-> IF s = {} THEN b ELSE Step(g[s \ {Max(s)}], q[Max(s)])]
  BY <1>1, <1>4, <1>5
<1>7. h = [s \in SUBSET DOMAIN q |-> IF s = {} THEN b ELSE Step(h[s \ {Max(s)}], q[Max(s)])]
  BY <1>6, Zenon
<1> HIDE DEF h
<1> DEFINE r == [k \in 0..n |-> h[1..k]]
<1>8. r[0] = b /\ r[n] = Settings(config)
  <2>1. 1..0 = {} /\ {} \in SUBSET DOMAIN q
    OBVIOUS
  <2>2. h[{}] = b
    BY <1>7, <2>1
  <2>3. 0 \in 0..n /\ n \in 0..n
    BY <1>1
  <2>4. r[0] = h[1..0] /\ r[n] = h[1..n]
    BY <2>3
  <2> HIDE DEF r
  <2> QED
    BY <1>1, <1>2, <2>1, <2>2, <2>4
<1>9. ASSUME NEW k \in 1..n PROVE r[k] = Step(r[k - 1], q[k])
  <2>1. 1..k \in SUBSET DOMAIN q /\ 1..k # {}
    <3>1. k \in Nat /\ 1 <= k /\ k <= n
      BY <1>1
    <3>2. 1..k \subseteq 1..n /\ 1 \in 1..k
      BY <1>1, <3>1
    <3> QED
      BY <1>1, <3>2
  <2>2. h[1..k] = Step(h[(1..k) \ {Max(1..k)}], q[Max(1..k)])
    BY <1>7, <2>1
  <2>3. Max(1..k) = k /\ (1..k) \ {k} = 1..(k - 1)
    BY <1>1, MaxOfPrefix
  <2>4. k \in 0..n /\ k - 1 \in 0..n
    BY <1>1
  <2>5. r[k] = h[1..k] /\ r[k - 1] = h[1..(k - 1)]
    BY <2>4
  <2> HIDE DEF r
  <2> QED
    BY <2>2, <2>3, <2>5
<1> HIDE DEF r
<1> QED
  BY <1>8, <1>9 DEF q, n, b, Step

\* A profile is bound as the last source that binds it says in its last entry.
LEMMA SettingsMean ==
  ASSUME Sound, NEW p \in DOMAIN Settings(config)
  PROVE  /\ Settings(config)[p] = Binding(config, Source(p), EntryFor(p))
         /\ Settings(config)[p] \in BindingType
<1> DEFINE B(x, k) == {j \in 1..k : Binds(x, Sources[j]) # {}}
           Meant(x, j) == Binding(config, Sources[j], config[Sources[j]].profiles[Max(Binds(x, Sources[j]))])
           Good(k, d) ==
             /\ d \in Bindings
             /\ \A x \in DOMAIN d : B(x, k) # {} /\ d[x] = Meant(x, Max(B(x, k)))
<1>1. PICK r : /\ r[0] = [x \in {} |-> x]
               /\ r[5] = Settings(config)
               /\ \A k \in 1..5 : r[k] = Bound(config, r[k - 1], Sources[k])
  BY SettingsFold, SourceFacts
<1> DEFINE S == {k \in 0..5 : Good(k, r[k])}
<1>2. 0 \in S
  <2>1. r[0] \in [{} -> BindingType] /\ {} \in SUBSET Names /\ DOMAIN r[0] = {}
    BY <1>1
  <2>2. r[0] \in Bindings
    BY <2>1 DEF Bindings
  <2>3. Good(0, r[0])
    BY <2>1, <2>2
  <2> HIDE DEF Good
  <2> QED
    BY <2>3
<1>3. ASSUME NEW k \in 1..5, k - 1 \in S PROVE k \in S
  <2> DEFINE old == r[k - 1]
  <2>1. Good(k - 1, old)
    BY <1>3
  <2>2. r[k] = Bound(config, old, Sources[k])
    BY <1>1
  <2>3. r[k] \in Bindings /\ \A x \in DOMAIN r[k] : Makes(x, Sources[k], old, r[k])
    <3> HIDE DEF old
    <3> QED
      BY <2>1, <2>2, BoundMeans
  <2>4. ASSUME NEW x \in DOMAIN r[k] PROVE B(x, k) # {} /\ r[k][x] = Meant(x, Max(B(x, k)))
    <3>1. CASE Binds(x, Sources[k]) # {}
      <4>1. k \in B(x, k) /\ B(x, k) \in SUBSET (1..k) /\ k \in Nat
        BY <3>1
      <4>2. Max(B(x, k)) = k
        <5>1. B(x, k) # {}
          BY <4>1
        <5> HIDE DEF B
        <5>2. Max(B(x, k)) \in B(x, k) /\ \A y \in B(x, k) : y <= Max(B(x, k))
          BY <4>1, <5>1, MaxOfRange
        <5>3. Max(B(x, k)) \in 1..k /\ k <= Max(B(x, k))
          BY <4>1, <5>2
        <5> QED
          BY <4>1, <5>3
      <4>3. r[k][x] = Meant(x, k)
        BY <2>3, <3>1 DEF Makes
      <4> HIDE DEF B, Meant
      <4> QED
        BY <4>1, <4>2, <4>3
    <3>2. CASE Binds(x, Sources[k]) = {}
      <4>1. x \in DOMAIN old /\ r[k][x] = old[x]
        BY <2>3, <3>2 DEF Makes
      <4>2. B(x, k) = B(x, k - 1)
        <5>1. \A y \in 1..k : y = k \/ y \in 1..(k - 1)
          OBVIOUS
        <5>2. 1..(k - 1) \subseteq 1..k
          OBVIOUS
        <5> QED
          BY <3>2, <5>1, <5>2
      <4> HIDE DEF B, Meant, old
      <4> QED
        BY <2>1, <4>1, <4>2
    <3> QED
      BY <3>1, <3>2
  <2>5. Good(k, r[k])
    <3> HIDE DEF B, Meant
    <3> QED
      BY <2>3, <2>4
  <2> HIDE DEF Good
  <2> QED
    BY <2>5
<1>4. 5 \in S
  <2> HIDE DEF S
  <2>1. 0..5 \subseteq S
    BY <1>2, <1>3, CountUp
  <2> QED
    BY <2>1
<1>5. Good(5, Settings(config))
  <2> HIDE DEF Good
  <2> QED
    BY <1>1, <1>4
<1>6. Settings(config)[p] = Meant(p, Max(B(p, 5))) /\ Settings(config) \in Bindings
  <2> HIDE DEF B, Meant
  <2> QED
    BY <1>5
<1>7. B(p, 5) = {j \in DOMAIN Sources : Binds(p, Sources[j]) # {}}
  BY SourceFacts
<1>8. Meant(p, Max(B(p, 5))) = Binding(config, Source(p), EntryFor(p))
  BY <1>7 DEF Source, EntryFor
<1>9. Settings(config)[p] \in BindingType
  <2> HIDE DEF Meant, B
  <2> QED
    BY <1>6 DEF Bindings
<1> QED
  BY <1>6, <1>8, <1>9
-----------------------------------------------------------------------------
(* The clients *)

\* The settings in force are those of the configuration.
ConfigInv ==
  /\ config \in Configs
  /\ Loads(config)
  /\ settings = Settings(config)

\* The e-th endpoint of a bound profile, and the key of its client.
Bindable(p, e) == p \in DOMAIN settings /\ e \in 1..Len(settings[p].endpoints)

KeyOf(p, e) == EndpointKey(settings[p].endpoints[e])

\* A cached client is one for its key, and the request in flight has one.
ClientInv ==
  /\ \A key \in DOMAIN clients : clients[key] \in Endpoint /\ EndpointKey(clients[key]) = key
  /\ mode \in Modes => Bindable(profile, endpoint) /\ KeyOf(profile, endpoint) \in DOMAIN clients

RequestInv == ConfigInv /\ ClientInv

LEMMA SoundConfig ==
  ASSUME ConfigInv
  PROVE  Sound
BY RequestsAssumption DEF ConfigInv, Sound

\* The endpoint bound is the one that was meant.
LEMMA EndpointMeant ==
  ASSUME ConfigInv, NEW p, NEW e, Bindable(p, e)
  PROVE  LET listed == EntryFor(p).list[e]
             meant == IF ByName(Source(p)) THEN ModelsFor(config, Source(p))[listed] ELSE listed
         IN  settings[p].endpoints[e] = meant /\ meant \in Endpoint
<1> DEFINE s == Source(p)
           l == EntryFor(p).list
           b == settings[p]
           meant == IF ByName(s) THEN ModelsFor(config, s)[l[e]] ELSE l[e]
<1>1. b = Binding(config, s, EntryFor(p)) /\ b \in BindingType
  BY SoundConfig, SettingsMean DEF ConfigInv, Bindable
<1>2. b.endpoints \in Seq(Endpoint)
  <2> HIDE DEF b
  <2> QED
    BY <1>1 DEF BindingType
<1>3. e \in 1..Len(b.endpoints) /\ DOMAIN b.endpoints = 1..Len(b.endpoints)
  BY <1>2, LenProperties DEF Bindable
<1>4. b.endpoints[e] \in Endpoint
  BY <1>2, <1>3, ElementOfSeq
<1>5. b.endpoints = IF ByName(s) THEN [x \in DOMAIN l |-> ModelsFor(config, s)[l[x]]] ELSE l
  <2> HIDE DEF b
  <2> QED
    BY <1>1 DEF Binding
<1> HIDE DEF b, s, l
<1>6. b.endpoints[e] = meant
  BY <1>3, <1>5
<1> QED
  BY <1>4, <1>6 DEF b, s, l

\* A request made at an endpoint of a bound profile has a client of that endpoint's key.
LEMMA InvokeClients ==
  ASSUME RequestInv, NEW p, NEW withTools, NEW e, NEW v, Bindable(p, e), Invoke(p, withTools, e, v),
         profile' = p, UNCHANGED <<config, settings>>
  PROVE  RequestInv'
<1> DEFINE point == settings[p].endpoints[e]
           key == EndpointKey(point)
<1>1. point \in Endpoint
  BY EndpointMeant DEF RequestInv
<1>2. clients' = WithClient(clients, settings[p].endpoints[e]) /\ endpoint' = e
  BY DEF Invoke
<1>7. clients' = IF key \in DOMAIN clients THEN clients ELSE Assigned(clients, key, point)
  <2>1. clients' = WithClient(clients, point)
    BY <1>2
  <2> HIDE DEF point
  <2> QED
    BY <2>1 DEF WithClient
<1> HIDE DEF point
<1>3. /\ \A k \in DOMAIN clients' : clients'[k] \in Endpoint /\ EndpointKey(clients'[k]) = k
      /\ key \in DOMAIN clients'
  <2>1. CASE key \in DOMAIN clients
    BY <1>7, <2>1 DEF RequestInv, ClientInv
  <2>2. CASE key \notin DOMAIN clients
    <3>1. clients' = Assigned(clients, key, point)
      <4> HIDE DEF key
      <4> QED
        BY <1>7, <2>2
    <3>2. EndpointKey(point) = key
      OBVIOUS
    <3> HIDE DEF key
    <3>3. /\ DOMAIN clients' = DOMAIN clients \cup {key}
          /\ clients'[key] = point
          /\ \A k \in DOMAIN clients : k # key => clients'[k] = clients[k]
      BY <3>1 DEF Assigned
    <3>4. \A k \in DOMAIN clients : clients[k] \in Endpoint /\ EndpointKey(clients[k]) = k
      BY DEF RequestInv, ClientInv
    <3> QED
      BY <1>1, <3>2, <3>3, <3>4
  <2> QED
    BY <2>1, <2>2
<1>4. Bindable(profile, endpoint)' /\ KeyOf(profile, endpoint)' = key
  <2>1. profile' = p /\ endpoint' = e /\ settings' = settings
    BY <1>2
  <2>2. Bindable(profile, endpoint)'
    BY <2>1 DEF Bindable
  <2>3. KeyOf(profile, endpoint)' = EndpointKey(settings[p].endpoints[e])
    BY <2>1 DEF KeyOf
  <2> QED
    BY <2>2, <2>3 DEF point
<1>5. ClientInv'
  BY <1>3, <1>4 DEF ClientInv
<1>6. ConfigInv'
  BY DEF RequestInv, ConfigInv
<1> QED
  BY <1>5, <1>6 DEF RequestInv

LEMMA CandidateBindable ==
  ASSUME RequestInv, profile \in DOMAIN settings, NEW e \in Candidates
  PROVE  Bindable(profile, e)
<1> DEFINE b == settings[profile]
<1>1. b \in BindingType
  BY SoundConfig, SettingsMean DEF RequestInv, ConfigInv
<1> HIDE DEF b
<1>2. b.endpoints \in Seq(Endpoint) /\ b.attempts \in Nat
  BY <1>1 DEF BindingType
<1>3. Len(b.endpoints) \in Nat
  BY <1>2, LenProperties
<1>4. e \in 1..Least(Len(b.endpoints), b.attempts)
  BY DEF Candidates, Attempts, b
<1>5. e \in 1..Len(b.endpoints)
  BY <1>2, <1>3, <1>4 DEF Least
<1> QED
  BY <1>5 DEF Bindable, b

LEMMA FirstBindable ==
  ASSUME RequestInv, NEW p \in DOMAIN settings
  PROVE  Bindable(p, 1)
<1> DEFINE b == settings[p]
<1>1. b \in BindingType
  BY SoundConfig, SettingsMean DEF RequestInv, ConfigInv
<1> HIDE DEF b
<1>2. b.endpoints \in Seq(Endpoint) /\ b.endpoints # <<>>
  BY <1>1 DEF BindingType
<1>3. Len(b.endpoints) \in Nat /\ Len(b.endpoints) # 0
  BY <1>2, EmptySeq
<1> QED
  BY <1>3 DEF Bindable, b

LEMMA NextEndpointClients ==
  ASSUME RequestInv, mode \in Modes, NextEndpoint
  PROVE  RequestInv'
<1>1. profile \in DOMAIN settings
  BY DEF RequestInv, ClientInv, Bindable
<1>2. CASE endpoint + 1 \in Candidates
  <2>1. Bindable(profile, endpoint + 1)
    BY <1>1, <1>2, CandidateBindable
  <2> QED
    BY <1>2, <2>1, InvokeClients DEF NextEndpoint, managerVars
<1>3. CASE endpoint + 1 \notin Candidates
  <2>1. mode' = "returned" /\ UNCHANGED <<config, settings, clients>>
    BY <1>3 DEF NextEndpoint, managerVars
  <2>2. mode' \notin Modes
    BY <2>1 DEF Modes
  <2> QED
    BY <2>1, <2>2 DEF RequestInv, ConfigInv, ClientInv
<1> QED
  BY <1>2, <1>3

LEMMA NextClients ==
  ASSUME RequestInv, [Next]_vars
  PROVE  RequestInv'
<1>1. ASSUME NEW p \in Profiles, NEW withTools \in BOOLEAN, Call(p, withTools) PROVE RequestInv'
  <2>1. p \in DOMAIN settings /\ profile' = p /\ UNCHANGED <<config, settings>>
        /\ Invoke(p, withTools, 1, 1)
    BY <1>1 DEF Call
  <2>2. Bindable(p, 1)
    BY <2>1, FirstBindable
  <2> QED
    BY <2>1, <2>2, InvokeClients
<1>2. ASSUME UNCHANGED <<config, settings, clients>>, mode' \notin Modes PROVE RequestInv'
  BY <1>2 DEF RequestInv, ConfigInv, ClientInv
<1>3. ASSUME UNCHANGED <<config, settings, clients, profile, endpoint>>, mode \in Modes
      PROVE  RequestInv'
  BY <1>3 DEF RequestInv, ConfigInv, ClientInv, Bindable, KeyOf
<1>4. CASE Return
  BY <1>2, <1>4 DEF Return, Modes
<1>5. CASE Piece
  BY <1>3, <1>5 DEF Piece, managerVars, Modes
<1>6. CASE StreamEnds
  BY <1>2, <1>6 DEF StreamEnds, Answer, managerVars, Modes
<1>7. CASE StreamBreaks
  BY <1>3, <1>7 DEF StreamBreaks, AskAgain, managerVars, Modes
<1>8. CASE Replies
  BY <1>2, <1>8 DEF Replies, Answer, managerVars, Modes
<1>9. CASE RequestFails
  <2>1. mode \in Modes /\ NextEndpoint
    BY <1>9 DEF RequestFails, Modes
  <2> QED
    BY <2>1, NextEndpointClients
<1>10. CASE ReplyMalformed
  <2>1. mode \in Modes
    BY <1>10 DEF ReplyMalformed, Modes
  <2>2. CASE variant < 5
    <3>1. Bindable(profile, endpoint)
      BY <2>1 DEF RequestInv, ClientInv
    <3> QED
      BY <1>10, <2>2, <3>1, InvokeClients DEF ReplyMalformed, managerVars
  <2>3. CASE ~(variant < 5)
    BY <1>10, <2>1, <2>3, NextEndpointClients DEF ReplyMalformed
  <2> QED
    BY <2>2, <2>3
<1>11. CASE UNCHANGED vars
  BY <1>11 DEF vars, managerVars, RequestInv, ConfigInv, ClientInv, Bindable, KeyOf
<1>12. CASE Idle
  BY <1>11, <1>12 DEF Idle
<1> QED
  BY <1>1, <1>4, <1>5, <1>6, <1>7, <1>8, <1>9, <1>10, <1>11, <1>12 DEF Next

LEMMA InitClients == Init => RequestInv
<1>1. SUFFICES ASSUME Init PROVE RequestInv
  OBVIOUS
<1>2. DOMAIN clients = {} /\ mode \notin Modes
  BY <1>1 DEF Init, Modes
<1> QED
  BY <1>1, <1>2 DEF Init, RequestInv, ConfigInv, ClientInv

LEMMA SameButForTheKey ==
  ASSUME NEW a \in Endpoint, NEW b \in Endpoint, EndpointKey(a) = EndpointKey(b)
  PROVE  [a EXCEPT !.apiKey = b.apiKey] = b
<1>1. a.provider = b.provider /\ a.model = b.model /\ a.effort = b.effort
  BY DEF EndpointKey
<1> DEFINE c == [a EXCEPT !.apiKey = b.apiKey]
<1>2. /\ c \in Endpoint /\ c.apiKey = b.apiKey
      /\ c.provider = a.provider /\ c.model = a.model /\ c.effort = a.effort
  BY DEF Endpoint
<1> HIDE DEF c
<1>3. c = [provider |-> c.provider, model |-> c.model, effort |-> c.effort, apiKey |-> c.apiKey]
  BY <1>2 DEF Endpoint
<1>4. b = [provider |-> b.provider, model |-> b.model, effort |-> b.effort, apiKey |-> b.apiKey]
  BY DEF Endpoint
<1>5. c = b
  BY <1>1, <1>2, <1>3, <1>4
<1> QED
  BY <1>5 DEF c

LEMMA ClientsAsMeant ==
  ASSUME RequestInv
  PROVE  RequestsAsConfigured
<1>1. SUFFICES ASSUME mode \in Modes PROVE RequestsAsConfigured
  BY DEF RequestsAsConfigured
<1> DEFINE s == Source(profile)
           listed == EntryFor(profile).list[endpoint]
           meant == IF ByName(s) THEN ModelsFor(config, s)[listed] ELSE listed
           used == Used(clients, profile, endpoint)
<1>2. Bindable(profile, endpoint) /\ KeyOf(profile, endpoint) \in DOMAIN clients
  BY <1>1 DEF RequestInv, ClientInv
<1>3. settings[profile].endpoints[endpoint] = meant /\ meant \in Endpoint
  BY <1>2, EndpointMeant DEF RequestInv
<1>4. used = clients[EndpointKey(meant)] /\ EndpointKey(meant) \in DOMAIN clients
  <2> HIDE DEF meant
  <2> QED
    BY <1>2, <1>3 DEF Used, KeyOf
<1> HIDE DEF used
<1>5. used \in Endpoint /\ EndpointKey(used) = EndpointKey(meant)
  <2> HIDE DEF meant
  <2> QED
    BY <1>4 DEF RequestInv, ClientInv
<1>6. [used EXCEPT !.apiKey = meant.apiKey] = meant
  <2> HIDE DEF meant
  <2> QED
    BY <1>3, <1>5, SameButForTheKey
<1> QED
  BY <1>6 DEF RequestsAsConfigured, used

\* Whatever was called before and whatever the sources say of each other's profiles, a request
\* goes to the endpoint that the last source to bind its profile lists there, but for the API
\* key (config.py 42-76, base.py 20).
THEOREM EndpointsAsConfigured == Spec => []RequestsAsConfigured
<1>1. Spec => []RequestInv
  BY InitClients, NextClients, PTL DEF Spec
<1>2. RequestInv => RequestsAsConfigured
  BY ClientsAsMeant
<1> QED
  BY <1>1, <1>2, PTL
-----------------------------------------------------------------------------
(* Towards the end of a call *)

\* Something is left by the first of four parts in which it is less.
LEMMA LessAtFirst ==
  ASSUME NEW a1, NEW a2, NEW a3, NEW a4, NEW b1, NEW b2, NEW b3, NEW b4,
         \/ a1 \in 0 .. b1 - 1
         \/ a1 = b1 /\ a2 \in 0 .. b2 - 1
         \/ a1 = b1 /\ a2 = b2 /\ a3 \in 0 .. b3 - 1
         \/ a1 = b1 /\ a2 = b2 /\ a3 = b3 /\ a4 \in 0 .. b4 - 1
  PROVE  Below(<<a1, a2, a3, a4>>, <<b1, b2, b3, b4>>)
<1> DEFINE a == <<a1, a2, a3, a4>>
           b == <<b1, b2, b3, b4>>
           Lower(k) == a[k] \in 0 .. b[k] - 1 /\ \A j \in 1 .. k - 1 : a[j] = b[j]
<1>1. a[1] = a1 /\ a[2] = a2 /\ a[3] = a3 /\ a[4] = a4
  OBVIOUS
<1>2. b[1] = b1 /\ b[2] = b2 /\ b[3] = b3 /\ b[4] = b4 /\ DOMAIN b = 1 .. 4
  OBVIOUS
<1>3. 1 .. 1 - 1 = {} /\ 1 .. 2 - 1 = {1} /\ 1 .. 3 - 1 = {1, 2} /\ 1 .. 4 - 1 = {1, 2, 3}
  OBVIOUS
<1> HIDE DEF a, b
<1>4. \E k \in {1, 2, 3, 4} : Lower(k)
  <2>1. CASE a1 \in 0 .. b1 - 1
    <3>1. Lower(1)
      BY <1>1, <1>2, <1>3, <2>1
    <3> QED
      BY <3>1
  <2>2. CASE a1 = b1 /\ a2 \in 0 .. b2 - 1
    <3>1. Lower(2)
      BY <1>1, <1>2, <1>3, <2>2
    <3> QED
      BY <3>1
  <2>3. CASE a1 = b1 /\ a2 = b2 /\ a3 \in 0 .. b3 - 1
    <3>1. Lower(3)
      BY <1>1, <1>2, <1>3, <2>3
    <3> QED
      BY <3>1
  <2>4. CASE a1 = b1 /\ a2 = b2 /\ a3 = b3 /\ a4 \in 0 .. b4 - 1
    <3>1. Lower(4)
      BY <1>1, <1>2, <1>3, <2>4
    <3> QED
      BY <3>1
  <2> QED
    BY <2>1, <2>2, <2>3, <2>4
<1>5. {1, 2, 3, 4} = DOMAIN b
  BY <1>2
<1>6. Below(a, b)
  BY <1>4, <1>5 DEF Below
<1> QED
  BY <1>6 DEF a, b

\* The entry of invoke_variants being tried is one of the five.
VariantInv == mode \in Modes => variant \in 1 .. 5

CallInv == RequestInv /\ TextInv /\ VariantInv

LEMMA InvokeVariants ==
  ASSUME NEW p, NEW withTools, NEW e, NEW v \in 1 .. 5, Invoke(p, withTools, e, v)
  PROVE  VariantInv' /\ mode' \in Modes
BY DEF Invoke, FirstMode, Modes, VariantInv

LEMMA NextVariants ==
  ASSUME VariantInv, [Next]_vars
  PROVE  VariantInv'
<1>1. ASSUME NEW p \in Profiles, NEW withTools \in BOOLEAN, Call(p, withTools) PROVE VariantInv'
  BY <1>1, InvokeVariants DEF Call
<1>2. ASSUME mode' \notin Modes PROVE VariantInv'
  BY <1>2 DEF VariantInv
<1>3. ASSUME mode \in Modes, variant' = variant PROVE VariantInv'
  BY <1>3 DEF VariantInv
<1>4. ASSUME mode \in Modes, NextEndpoint PROVE VariantInv'
  BY <1>2, <1>4, InvokeVariants DEF NextEndpoint, Modes
<1>5. CASE Return
  BY <1>2, <1>5 DEF Return, Modes
<1>6. CASE Piece
  BY <1>3, <1>6 DEF Piece, Modes
<1>7. CASE StreamEnds
  BY <1>2, <1>7 DEF StreamEnds, Answer, Modes
<1>8. CASE StreamBreaks
  BY <1>3, <1>8 DEF StreamBreaks, AskAgain, Modes
<1>9. CASE Replies
  BY <1>2, <1>9 DEF Replies, Answer, Modes
<1>10. CASE RequestFails
  BY <1>4, <1>10 DEF RequestFails, Modes
<1>11. CASE ReplyMalformed
  <2>1. mode \in Modes
    BY <1>11 DEF ReplyMalformed, Modes
  <2>2. CASE variant < 5
    <3>1. Invoke(profile, tools, endpoint, variant + 1)
      BY <1>11, <2>2 DEF ReplyMalformed
    <3>2. variant + 1 \in 1 .. 5
      BY <2>1, <2>2 DEF VariantInv
    <3> QED
      BY <3>1, <3>2, InvokeVariants
  <2>3. CASE ~(variant < 5)
    BY <1>4, <1>11, <2>1, <2>3 DEF ReplyMalformed
  <2> QED
    BY <2>2, <2>3
<1>12. CASE UNCHANGED vars
  BY <1>12 DEF vars, VariantInv
<1>13. CASE Idle
  BY <1>12, <1>13 DEF Idle
<1> QED
  BY <1>1, <1>5, <1>6, <1>7, <1>8, <1>9, <1>10, <1>11, <1>12, <1>13 DEF Next

\* A request for the same call has less left when it is of a later endpoint or variant.
LEMMA InvokeLowers ==
  ASSUME CallInv, mode \in Modes, NEW e, NEW v \in 1 .. 5, Invoke(profile, tools, e, v),
         UNCHANGED managerVars, Bindable(profile, e),
         e = endpoint + 1 \/ (e = endpoint /\ v = variant + 1)
  PROVE  GoesOnOrEnds
<1>1. mode' \in Modes
  BY InvokeVariants
<1> DEFINE n == Len(settings[profile].endpoints)
<1>2. Bindable(profile, endpoint) /\ variant \in 1 .. 5
  BY DEF CallInv, RequestInv, ClientInv, VariantInv
<1>3. n \in Nat
  <2>1. settings[profile] \in BindingType
    BY <1>2, SoundConfig, SettingsMean DEF CallInv, RequestInv, ConfigInv, Bindable
  <2>2. settings[profile].endpoints \in Seq(Endpoint)
    BY <2>1 DEF BindingType
  <2> QED
    BY <2>2, LenProperties
<1>4. endpoint \in 1 .. n /\ e \in 1 .. n
  BY <1>2 DEF Bindable
<1>5. endpoint' = e /\ variant' = v /\ settings' = settings /\ profile' = profile
  BY DEF Invoke, managerVars
<1> DEFINE a3 == (IF mode = "stream" THEN 1 ELSE 0)'
           a4 == (Len(message) - sent)'
           b3 == IF mode = "stream" THEN 1 ELSE 0
           b4 == Len(message) - sent
<1>6. Left = <<n - endpoint, 5 - variant, b3, b4>>
  BY DEF Left
<1>7. Left' = <<n - e, 5 - v, a3, a4>>
  BY <1>5 DEF Left
<1> HIDE DEF n, a3, a4, b3, b4
<1>8. \/ n - e \in 0 .. (n - endpoint) - 1
      \/ n - e = n - endpoint /\ 5 - v \in 0 .. (5 - variant) - 1
  <2>1. CASE e = endpoint + 1
    BY <1>3, <1>4, <2>1
  <2>2. CASE e = endpoint /\ v = variant + 1
    BY <1>2, <2>2
  <2> QED
    BY <2>1, <2>2
<1>9. Below(Left', Left)
  BY <1>6, <1>7, <1>8, LessAtFirst
<1> QED
  BY <1>1, <1>9 DEF GoesOnOrEnds

LEMMA NextEndpointLowers ==
  ASSUME CallInv, mode \in Modes, NextEndpoint
  PROVE  GoesOnOrEnds
<1>1. CASE endpoint + 1 \in Candidates
  <2>1. Invoke(profile, tools, endpoint + 1, 1) /\ UNCHANGED managerVars
    BY <1>1 DEF NextEndpoint
  <2>2. RequestInv /\ profile \in DOMAIN settings
    BY DEF CallInv, RequestInv, ClientInv, Bindable
  <2>3. Bindable(profile, endpoint + 1)
    BY <1>1, <2>2, CandidateBindable
  <2> QED
    BY <2>1, <2>3, InvokeLowers
<1>2. CASE endpoint + 1 \notin Candidates
  BY <1>2 DEF NextEndpoint, GoesOnOrEnds
<1> QED
  BY <1>1, <1>2

\* What a request in flight has left of its message.
LEMMA StreamLeft ==
  ASSUME CallInv, mode = "stream"
  PROVE  Len(message) \in Nat /\ sent \in 0 .. Len(message)
BY LenProperties DEF CallInv, TextInv, StreamInv, ShownInv, Text

LEMMA StepLowers ==
  ASSUME CallInv, Next
  PROVE  GoesOnOrEnds
<1>1. ASSUME mode' = "returned", answer'.kind = "text" PROVE GoesOnOrEnds
  BY <1>1 DEF GoesOnOrEnds
<1>2. ASSUME mode \notin Modes PROVE GoesOnOrEnds
  BY <1>2 DEF GoesOnOrEnds
<1>3. ASSUME NEW p \in Profiles, NEW withTools \in BOOLEAN, Call(p, withTools)
      PROVE  GoesOnOrEnds
  BY <1>2, <1>3 DEF Call, Modes
<1>4. CASE Return
  BY <1>2, <1>4 DEF Return, Modes
<1>5. CASE Piece
  <2>1. /\ mode = "stream" /\ mode' = mode /\ message' = message /\ endpoint' = endpoint
        /\ variant' = variant /\ settings' = settings /\ profile' = profile
    BY <1>5 DEF Piece, managerVars
  <2>2. sent' \in sent + 1 .. Len(message)
    BY <1>5 DEF Piece
  <2>3. Len(message) \in Nat /\ sent \in 0 .. Len(message)
    BY <2>1, StreamLeft
  <2>4. Len(message) - sent' \in 0 .. (Len(message) - sent) - 1
    BY <2>2, <2>3
  <2> DEFINE b1 == Len(settings[profile].endpoints) - endpoint
             b2 == 5 - variant
  <2>5. Left = <<b1, b2, 1, Len(message) - sent>>
    BY <2>1 DEF Left
  <2>6. Left' = <<b1, b2, 1, Len(message) - sent'>>
    BY <2>1 DEF Left
  <2> HIDE DEF b1, b2
  <2>7. Below(Left', Left)
    BY <2>4, <2>5, <2>6, LessAtFirst
  <2> QED
    BY <2>1, <2>7 DEF GoesOnOrEnds, Modes
<1>6. CASE StreamEnds
  BY <1>1, <1>6 DEF StreamEnds, Answer
<1>7. CASE StreamBreaks
  <2>1. /\ mode = "stream" /\ mode' = "fallback" /\ endpoint' = endpoint
        /\ variant' = variant /\ settings' = settings /\ profile' = profile
    BY <1>7 DEF StreamBreaks, AskAgain, managerVars
  <2> DEFINE b1 == Len(settings[profile].endpoints) - endpoint
             b2 == 5 - variant
             a4 == (Len(message) - sent)'
             b4 == Len(message) - sent
  <2>2. Left = <<b1, b2, 1, b4>>
    BY <2>1 DEF Left
  <2>3. Left' = <<b1, b2, 0, a4>>
    BY <2>1 DEF Left
  <2> HIDE DEF b1, b2, a4, b4
  <2>4. 0 \in 0 .. 1 - 1
    OBVIOUS
  <2>5. Below(Left', Left)
    BY <2>2, <2>3, <2>4, LessAtFirst
  <2> QED
    BY <2>1, <2>5 DEF GoesOnOrEnds, Modes
<1>8. CASE Replies
  BY <1>1, <1>8 DEF Replies, Answer
<1>9. CASE RequestFails
  <2>1. mode \in Modes /\ NextEndpoint
    BY <1>9 DEF RequestFails, Modes
  <2> QED
    BY <2>1, NextEndpointLowers
<1>10. CASE ReplyMalformed
  <2>1. mode \in Modes
    BY <1>10 DEF ReplyMalformed, Modes
  <2>2. CASE variant < 5
    <3>1. Invoke(profile, tools, endpoint, variant + 1) /\ UNCHANGED managerVars
      BY <1>10, <2>2 DEF ReplyMalformed
    <3>2. variant + 1 \in 1 .. 5
      BY <2>1, <2>2 DEF CallInv, VariantInv
    <3>3. Bindable(profile, endpoint)
      BY <2>1 DEF CallInv, RequestInv, ClientInv
    <3> QED
      BY <2>1, <3>1, <3>2, <3>3, InvokeLowers
  <2>3. CASE ~(variant < 5)
    BY <1>10, <2>1, <2>3, NextEndpointLowers DEF ReplyMalformed
  <2> QED
    BY <2>2, <2>3
<1>11. CASE Idle
  BY <1>2, <1>11 DEF Idle, Modes
<1> QED
  BY <1>3, <1>4, <1>5, <1>6, <1>7, <1>8, <1>9, <1>10, <1>11 DEF Next

\* However its requests end, and though a malformed reply has one made again, a call comes to
\* an end, and it has asked every endpoint it may when it fails (manager.py 386-388, 461-466,
\* 516-520).
THEOREM RetriesComeToAnEnd == Spec => RetriesRunOut
<1>1. Init => CallInv
  BY InitClients, InitShown DEF Init, CallInv, VariantInv, Modes
<1>2. CallInv /\ [Next]_vars => CallInv'
  BY NextClients, NextShown, NextVariants DEF CallInv
<1>3. CallInv /\ [Next]_vars => [GoesOnOrEnds]_vars
  BY StepLowers
<1> QED
  BY <1>1, <1>2, <1>3, PTL DEF Spec, RetriesRunOut
=============================================================================
