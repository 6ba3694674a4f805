-------------------------- MODULE ThinkFilterProofs --------------------------
(***************************************************************************)
(* Proofs about ThinkFilter: wherever the stream is cut into chunks, what  *)
(* the client is shown is the visible text of what has come in.            *)
(***************************************************************************)
EXTENDS ThinkFilter, SequenceTheorems, WellFoundedInduction, TLAPS

Text == Seq(STRING)

-----------------------------------------------------------------------------
(* Numbers and texts.                                                      *)

\* The least-number principle.
LEMMA LeastNatural ==
    ASSUME NEW T \in SUBSET Nat, T # {}
    PROVE  \E n \in T : \A m \in T : n <= m
<1> DEFINE R == {x \in Nat \X Nat : x[1] < x[2]}
<1>1. IsWellFoundedOn(R, Nat)
  BY NatLessThanWellFounded DEF OpToRel
<1> HIDE DEF R
<1>2. PICK n \in T : \A m \in T : ~(<<m, n>> \in R)
  BY <1>1, WFMin
<1>3. ASSUME NEW m \in T PROVE n <= m
  <2>1. m \in Nat /\ n \in Nat /\ <<m, n>> \in Nat \X Nat
    BY <1>2
  <2>2. ~(<<m, n>>[1] < <<m, n>>[2])
    BY <1>2, <2>1 DEF R
  <2>3. ~(m < n)
    BY <2>2
  <2>4. QED
    BY <2>1, <2>3
<1>4. QED
  BY <1>2, <1>3

LEMMA MinProperties ==
    ASSUME NEW T \in SUBSET Nat, T # {}
    PROVE  Min(T) \in T /\ Min(T) \in Nat /\ \A m \in T : Min(T) <= m
<1>1. PICK n \in T : \A m \in T : n <= m
  BY LeastNatural
<1>2. QED
  BY <1>1 DEF Min

LEMMA MinIs ==
    ASSUME NEW T \in SUBSET Nat, NEW n \in T, \A m \in T : n <= m
    PROVE  Min(T) = n
<1>1. Min(T) \in T /\ Min(T) \in Nat /\ \A m \in T : Min(T) <= m
  BY MinProperties
<1>2. Min(T) <= n /\ n <= Min(T) /\ n \in Nat
  BY <1>1
<1>3. QED
  BY <1>1, <1>2

\* The part of a text from i on, up to j.
LEMMA SliceProperties ==
    ASSUME NEW t \in Text, NEW i \in Nat, NEW j \in Nat, i <= j, j <= Len(t)
    PROVE  /\ Slice(t, i, j) \in Text
           /\ Len(Slice(t, i, j)) = j - i
           /\ \A k \in 1..(j - i) : Slice(t, i, j)[k] = t[i + k]
<1>1. \A k \in (i + 1)..j : t[k] \in STRING
  BY DEF Text
<1>2. /\ SubSeq(t, i + 1, j) \in Seq(STRING)
      /\ Len(SubSeq(t, i + 1, j)) = IF i + 1 <= j THEN j - (i + 1) + 1 ELSE 0
      /\ \A k \in 1..(j - (i + 1) + 1) : SubSeq(t, i + 1, j)[k] = t[i + 1 + k - 1]
  BY <1>1, SubSeqProperties
<1> DEFINE s == SubSeq(t, i + 1, j)
<1>3. \A k \in 1..(j - i) : s[k] = t[i + k]
  <2> HIDE DEF s
  <2>1. ASSUME NEW k \in 1..(j - i) PROVE i + 1 + k - 1 = i + k /\ k \in 1..(j - (i + 1) + 1)
    OBVIOUS
  <2>2. QED
    BY <1>2, <2>1 DEF s
<1>4. QED
  BY <1>2, <1>3 DEF Slice, Text

LEMMA FromProperties ==
    ASSUME NEW t \in Text, NEW i \in Nat, i <= Len(t)
    PROVE  /\ From(t, i) \in Text
           /\ Len(From(t, i)) = Len(t) - i
           /\ \A k \in 1..(Len(t) - i) : From(t, i)[k] = t[i + k]
<1>1. Len(t) \in Nat /\ Len(t) <= Len(t)
  BY DEF Text
<1>2. QED
  BY <1>1, SliceProperties, Zenon DEF From

LEMMA Joined ==
    ASSUME NEW s \in Text, NEW t \in Text
    PROVE  /\ s \o t \in Text
           /\ Len(s) \in Nat /\ Len(t) \in Nat
           /\ Len(s \o t) = Len(s) + Len(t)
           /\ \A i \in 1..(Len(s) + Len(t)) :
                 (s \o t)[i] = IF i <= Len(s) THEN s[i] ELSE t[i - Len(s)]
BY ConcatProperties, LenProperties DEF Text

LEMMA Associative ==
    ASSUME NEW s \in Text, NEW t \in Text, NEW u \in Text
    PROVE  (s \o t) \o u = s \o (t \o u)
BY ConcatAssociative DEF Text

\* A text is what comes before a place in it and what comes from there on.
LEMMA Cut ==
    ASSUME NEW t \in Text, NEW i \in Nat, i <= Len(t)
    PROVE  Slice(t, 0, i) \o From(t, i) = t
<1>1. Len(t) \in Nat
  BY DEF Text
<1>2. /\ 1 \in 1..(Len(t) + 1) /\ i \in (1 - 1)..Len(t) /\ Len(t) \in i..Len(t)
  BY <1>1
<1>3. SubSeq(t, 1, i) \o SubSeq(t, i + 1, Len(t)) = SubSeq(t, 1, Len(t))
  BY <1>2, ConcatAdjacentSubSeq DEF Text
<1>4. SubSeq(t, 1, Len(t)) = t
  BY SubSeqFull DEF Text
<1>5. Slice(t, 0, i) = SubSeq(t, 1, i) /\ From(t, i) = SubSeq(t, i + 1, Len(t))
  BY DEF Slice, From
<1>6. QED
  BY <1>3, <1>4, <1>5

\* What is added to a text is added to every end of it.
LEMMA FromJoined ==
    ASSUME NEW b \in Text, NEW z \in Text, NEW i \in Nat, i <= Len(b)
    PROVE  From(b \o z, i) = From(b, i) \o z
<1> DEFINE s == From(b \o z, i)
           t == From(b, i) \o z
<1>1. /\ b \o z \in Text /\ Len(b \o z) = Len(b) + Len(z) /\ Len(b) \in Nat /\ Len(z) \in Nat
      /\ \A k \in 1..(Len(b) + Len(z)) :
            (b \o z)[k] = IF k <= Len(b) THEN b[k] ELSE z[k - Len(b)]
  BY Joined
<1>2. i <= Len(b \o z)
  BY <1>1
<1>3. /\ s \in Text /\ Len(s) = Len(b) + Len(z) - i
      /\ \A k \in 1..(Len(b) + Len(z) - i) : s[k] = (b \o z)[i + k]
  <2>1. /\ s \in Text /\ Len(s) = Len(b \o z) - i
        /\ \A k \in 1..(Len(b \o z) - i) : s[k] = (b \o z)[i + k]
    BY <1>1, <1>2, FromProperties, Zenon
  <2> HIDE DEF s
  <2>2. QED
    BY <1>1, <2>1
<1>4. /\ From(b, i) \in Text /\ Len(From(b, i)) = Len(b) - i
      /\ \A k \in 1..(Len(b) - i) : From(b, i)[k] = b[i + k]
  BY FromProperties
<1>5. /\ t \in Text /\ Len(t) = Len(b) - i + Len(z)
      /\ \A k \in 1..(Len(b) - i + Len(z)) :
            t[k] = IF k <= Len(b) - i THEN From(b, i)[k] ELSE z[k - (Len(b) - i)]
  <2>1. /\ t \in Text /\ Len(t) = Len(From(b, i)) + Len(z)
        /\ \A k \in 1..(Len(From(b, i)) + Len(z)) :
              t[k] = IF k <= Len(From(b, i)) THEN From(b, i)[k] ELSE z[k - Len(From(b, i))]
    BY <1>4, Joined, Zenon
  <2>2. QED
    BY <1>4, <2>1, Zenon
<1> HIDE DEF s, t
<1>6. ASSUME NEW k \in 1..Len(s) PROVE s[k] = t[k]
  <2>1. k \in 1..(Len(b) + Len(z) - i) /\ k \in 1..(Len(b) - i + Len(z))
        /\ i + k \in 1..(Len(b) + Len(z))
    BY <1>1, <1>3
  <2>2. s[k] = IF i + k <= Len(b) THEN b[i + k] ELSE z[i + k - Len(b)]
    BY <1>1, <1>3, <2>1
  <2>3. CASE i + k <= Len(b)
    <3>1. k <= Len(b) - i /\ k \in 1..(Len(b) - i)
      BY <1>1, <2>1, <2>3
    <3>2. QED
      BY <1>4, <1>5, <2>1, <2>2, <2>3, <3>1
  <2>4. CASE ~(i + k <= Len(b))
    <3>1. ~(k <= Len(b) - i) /\ k - (Len(b) - i) = i + k - Len(b)
      BY <1>1, <2>1, <2>4
    <3>2. QED
      BY <1>5, <2>1, <2>2, <2>4, <3>1
  <2>5. QED
    BY <2>3, <2>4
<1>7. Len(s) = Len(t)
  BY <1>1, <1>3, <1>5
<1>8. s = t
  BY <1>3, <1>5, <1>6, <1>7, SeqEqual DEF Text
<1>9. QED
  BY <1>8 DEF s, t

LEMMA SliceJoined ==
    ASSUME NEW b \in Text, NEW z \in Text, NEW i \in Nat, i <= Len(b)
    PROVE  Slice(b \o z, 0, i) = Slice(b, 0, i)
<1> DEFINE s == Slice(b \o z, 0, i)
           t == Slice(b, 0, i)
<1>1. /\ b \o z \in Text /\ Len(b \o z) = Len(b) + Len(z) /\ Len(b) \in Nat /\ Len(z) \in Nat
      /\ \A k \in 1..(Len(b) + Len(z)) :
            (b \o z)[k] = IF k <= Len(b) THEN b[k] ELSE z[k - Len(b)]
  BY Joined
<1>2. 0 \in Nat /\ 0 <= i /\ i <= Len(b \o z)
  BY <1>1
<1>3. /\ s \in Text /\ Len(s) = i - 0 /\ \A k \in 1..(i - 0) : s[k] = (b \o z)[0 + k]
  BY <1>1, <1>2, SliceProperties, Zenon
<1>4. /\ t \in Text /\ Len(t) = i - 0 /\ \A k \in 1..(i - 0) : t[k] = b[0 + k]
  BY <1>2, SliceProperties, Zenon
<1> HIDE DEF s, t
<1>5. ASSUME NEW k \in 1..Len(s) PROVE s[k] = t[k]
  <2>1. k \in 1..(i - 0) /\ 0 + k = k /\ k \in 1..(Len(b) + Len(z)) /\ k <= Len(b)
    BY <1>1, <1>3
  <2>2. QED
    BY <1>1, <1>3, <1>4, <2>1
<1>6. s = t
  BY <1>3, <1>4, <1>5, SeqEqual DEF Text
<1>7. QED
  BY <1>6 DEF s, t

LEMMA FromFrom ==
    ASSUME NEW t \in Text, NEW i \in Nat, NEW j \in Nat, i + j <= Len(t)
    PROVE  From(From(t, i), j) = From(t, i + j)
<1> DEFINE r == From(t, i)
           s == From(r, j)
           u == From(t, i + j)
<1>1. Len(t) \in Nat /\ i <= Len(t) /\ i + j \in Nat
  BY DEF Text
<1>2. /\ r \in Text /\ Len(r) = Len(t) - i /\ \A k \in 1..(Len(t) - i) : r[k] = t[i + k]
  BY <1>1, FromProperties
<1>3. /\ u \in Text /\ Len(u) = Len(t) - (i + j)
      /\ \A k \in 1..(Len(t) - (i + j)) : u[k] = t[i + j + k]
  BY <1>1, FromProperties
<1>4. j <= Len(r)
  BY <1>1, <1>2
<1> HIDE DEF r
<1>5. /\ s \in Text /\ Len(s) = Len(r) - j /\ \A k \in 1..(Len(r) - j) : s[k] = r[j + k]
  BY <1>2, <1>4, FromProperties
<1> HIDE DEF s, u
<1>6. ASSUME NEW k \in 1..Len(s) PROVE s[k] = u[k]
  <2>1. /\ k \in 1..(Len(r) - j) /\ j + k \in 1..(Len(t) - i) /\ i + (j + k) = i + j + k
        /\ k \in 1..(Len(t) - (i + j))
    BY <1>1, <1>2, <1>5
  <2>2. QED
    BY <1>2, <1>3, <1>5, <2>1
<1>7. Len(s) = Len(u)
  BY <1>1, <1>2, <1>3, <1>5
<1>8. s = u
  BY <1>3, <1>5, <1>6, <1>7, SeqEqual DEF Text
<1>9. QED
  BY <1>8 DEF r, s, u

LEMMA SliceSlice ==
    ASSUME NEW t \in Text, NEW i \in Nat, NEW j \in Nat, i + j <= Len(t)
    PROVE  Slice(t, 0, i + j) = Slice(t, 0, i) \o Slice(From(t, i), 0, j)
<1>1. PICK u : u = Slice(t, 0, i + j)
  OBVIOUS
<1>2. /\ Len(t) \in Nat /\ 0 \in Nat /\ 0 <= i + j /\ i + j \in Nat /\ i + j - 0 = i + j
      /\ i <= Len(t)
  BY LenProperties DEF Text
<1>3. PICK n : n = i + j
  OBVIOUS
<1>4. n \in Nat /\ 0 <= n /\ n <= Len(t) /\ n - 0 = n
  BY <1>2, <1>3
<1>5. u \in Text /\ Len(u) = n /\ i <= Len(u)
  <2>1. u \in Text /\ Len(u) = n
    BY <1>1, <1>2, <1>3, <1>4, SliceProperties
  <2>2. QED
    BY <1>3, <2>1
<1>6. PICK w : w = From(t, n)
  OBVIOUS
<1>7. w \in Text /\ u \o w = t
  BY <1>1, <1>3, <1>4, <1>6, Cut, FromProperties
<1>8. Slice(t, 0, i) = Slice(u, 0, i)
  <2>1. Slice(u \o w, 0, i) = Slice(u, 0, i)
    BY <1>5, <1>7, SliceJoined
  <2>2. QED
    BY <1>7, <2>1
<1>9. From(u, i) = Slice(From(t, i), 0, j)
  <2>1. PICK r : r = From(u, i)
    OBVIOUS
  <2>2. r \in Text /\ Len(r) = j
    BY <1>3, <1>5, <2>1, FromProperties
  <2>3. From(u \o w, i) = r \o w
    BY <1>5, <1>7, <2>1, FromJoined
  <2>4. Slice(r \o w, 0, j) = Slice(r, 0, j)
    BY <1>7, <2>2, SliceJoined
  <2>5. Slice(r, 0, j) = r
    BY <2>2, SubSeqFull DEF Slice, Text
  <2>6. QED
    BY <1>7, <2>1, <2>3, <2>4, <2>5
<1>10. Slice(u, 0, i) \o From(u, i) = u
  BY <1>5, Cut
<1>11. QED
  BY <1>1, <1>8, <1>9, <1>10

-----------------------------------------------------------------------------
(* Where a tag is.                                                         *)

\* The provers do not take a string literal for an element of STRING, so the characters
\* of the tags are named.
Tag == Seq(STRING \cup {"<", "/", "t", "h", "i", "n", "k", ">"})

LEMMA Tags ==
    /\ OpenTag \in Tag /\ Len(OpenTag) = 7
    /\ CloseTag \in Tag /\ Len(CloseTag) = 8
<1>1. OpenTag \in Tag
  BY DEF OpenTag, Tag
<1>2. CloseTag \in Tag
  BY DEF CloseTag, Tag
<1>3. Len(OpenTag) = 7 /\ Len(CloseTag) = 8
  BY DEF OpenTag, CloseTag
<1>4. QED
  BY <1>1, <1>2, <1>3

\* A tag is at i when each of its characters is at its place.
IsAt(tag, t, i) ==
    /\ i \in Nat /\ i + Len(tag) <= Len(t)
    /\ \A k \in 1..Len(tag) : t[i + k] = tag[k]

LEMMA Occurs ==
    ASSUME NEW tag \in Tag, NEW t \in Text, NEW i
    PROVE  i \in Found(tag, t) <=> IsAt(tag, t, i)
<1>1. Len(tag) \in Nat /\ Len(t) \in Nat
  BY LenProperties DEF Text, Tag
<1>2. i \in 0..(Len(t) - Len(tag)) <=> i \in Nat /\ i + Len(tag) <= Len(t)
  BY <1>1
<1>3. ASSUME i \in Nat, i + Len(tag) <= Len(t)
      PROVE  SubSeq(t, i + 1, i + Len(tag)) = tag
                <=> \A k \in 1..Len(tag) : t[i + k] = tag[k]
  <2>1. PICK j : j = i + Len(tag)
    OBVIOUS
  <2> DEFINE s == Slice(t, i, j)
  <2>2. i \in Nat /\ j \in Nat /\ i <= j /\ j <= Len(t) /\ j - i = Len(tag)
    BY <1>1, <1>3, <2>1
  <2>3. /\ s \in Text /\ Len(s) = j - i
        /\ \A k \in 1..(j - i) : s[k] = t[i + k]
    BY <2>2, SliceProperties, Zenon
  <2>4. s = SubSeq(t, i + 1, i + Len(tag))
    BY <2>1 DEF Slice
  <2> HIDE DEF s
  <2>5. ASSUME s = tag PROVE \A k \in 1..Len(tag) : t[i + k] = tag[k]
    BY <2>2, <2>3, <2>5
  <2>6. ASSUME \A k \in 1..Len(tag) : t[i + k] = tag[k] PROVE s = tag
    <3>1. Len(s) = Len(tag) /\ \A k \in 1..Len(s) : s[k] = tag[k]
      BY <2>2, <2>3, <2>6
    <3>2. s \in Tag
      BY <2>3, SeqMonotonic DEF Tag, Text
    <3>3. QED
      BY <2>3, <3>1, <3>2, SeqEqual DEF Tag
  <2>7. QED
    BY <2>4, <2>5, <2>6
<1>4. QED
  BY <1>2, <1>3 DEF Found, IsAt

LEMMA FoundNatural ==
    ASSUME NEW tag \in Tag, NEW t \in Text
    PROVE  Found(tag, t) \in SUBSET Nat
BY Occurs DEF IsAt

\* The first place of a tag that is there.
LEMMA FirstPlace ==
    ASSUME NEW tag \in Tag, NEW t \in Text, Found(tag, t) # {}
    PROVE  /\ Min(Found(tag, t)) \in Found(tag, t)
           /\ Min(Found(tag, t)) \in Nat
           /\ Min(Found(tag, t)) + Len(tag) <= Len(t)
           /\ Min(Found(tag, t)) <= Len(t)
           /\ \A m \in Found(tag, t) : Min(Found(tag, t)) <= m
<1>1. /\ Min(Found(tag, t)) \in Found(tag, t) /\ Min(Found(tag, t)) \in Nat
      /\ \A m \in Found(tag, t) : Min(Found(tag, t)) <= m
  BY FoundNatural, MinProperties
<1>2. Min(Found(tag, t)) + Len(tag) <= Len(t) /\ Len(tag) \in Nat /\ Len(t) \in Nat
  BY <1>1, Occurs, LenProperties DEF IsAt, Text, Tag
<1>3. QED
  BY <1>1, <1>2

\* A tag that is in the front of a text is where it is in the whole of it.
LEMMA FoundInFront ==
    ASSUME NEW tag \in Tag, NEW b \in Text, NEW z \in Text, NEW i \in Nat,
           i + Len(tag) <= Len(b)
    PROVE  i \in Found(tag, b \o z) <=> i \in Found(tag, b)
<1>1. /\ b \o z \in Text /\ Len(b \o z) = Len(b) + Len(z) /\ Len(b) \in Nat /\ Len(z) \in Nat
      /\ \A k \in 1..(Len(b) + Len(z)) :
            (b \o z)[k] = IF k <= Len(b) THEN b[k] ELSE z[k - Len(b)]
  BY Joined
<1>2. Len(tag) \in Nat
  BY LenProperties DEF Text, Tag
<1>3. \A k \in 1..Len(tag) : (b \o z)[i + k] = b[i + k]
  <2>1. ASSUME NEW k \in 1..Len(tag)
        PROVE  i + k \in 1..(Len(b) + Len(z)) /\ i + k <= Len(b)
    BY <1>1, <1>2
  <2>2. QED
    BY <1>1, <2>1
<1>4. i + Len(tag) <= Len(b \o z)
  BY <1>1, <1>2
<1>5. i \in Found(tag, b \o z) <=> IsAt(tag, b \o z, i)
  BY <1>1, Occurs
<1>6. i \in Found(tag, b) <=> IsAt(tag, b, i)
  BY Occurs
<1>7. QED
  BY <1>3, <1>4, <1>5, <1>6 DEF IsAt

\* A tag is in the end of a text where it is in the whole of it.
LEMMA FoundInRest ==
    ASSUME NEW tag \in Tag, NEW t \in Text, NEW k \in Nat, k <= Len(t), NEW i \in Nat
    PROVE  i \in Found(tag, From(t, k)) <=> k + i \in Found(tag, t)
<1> DEFINE r == From(t, k)
<1>1. Len(tag) \in Nat /\ Len(t) \in Nat /\ k + i \in Nat
  BY LenProperties DEF Text, Tag
<1>2. /\ r \in Text /\ Len(r) = Len(t) - k /\ \A j \in 1..(Len(t) - k) : r[j] = t[k + j]
  BY FromProperties
<1> HIDE DEF r
<1>3. i + Len(tag) <= Len(r) <=> k + i + Len(tag) <= Len(t)
  BY <1>1, <1>2
<1>4. ASSUME i + Len(tag) <= Len(r)
      PROVE  \A j \in 1..Len(tag) : r[i + j] = t[k + i + j]
  <2>1. ASSUME NEW j \in 1..Len(tag)
        PROVE  i + j \in 1..(Len(t) - k) /\ k + (i + j) = k + i + j
    BY <1>1, <1>2, <1>4
  <2>2. QED
    BY <1>2, <2>1
<1>5. i \in Found(tag, r) <=> IsAt(tag, r, i)
  BY <1>2, Occurs
<1>6. k + i \in Found(tag, t) <=> IsAt(tag, t, k + i)
  BY Occurs
<1>7. IsAt(tag, r, i) <=> IsAt(tag, t, k + i)
  BY <1>1, <1>3, <1>4 DEF IsAt
<1>8. QED
  BY <1>5, <1>6, <1>7 DEF r

-----------------------------------------------------------------------------
(* The definition of Visible unfolds.                                      *)

Hides(v, r) ==
    IF Found(CloseTag, r) = {} THEN <<>>
    ELSE v[From(r, Min(Found(CloseTag, r)) + Len(CloseTag))]

Shows(v, t) ==
    IF Found(OpenTag, t) = {} THEN t
    ELSE Slice(t, 0, Min(Found(OpenTag, t)))
            \o Hides(v, From(t, Min(Found(OpenTag, t)) + Len(OpenTag)))

\* What follows a tag is shorter than the text the tag is in.
LEMMA AfterTag ==
    ASSUME NEW tag \in Tag, NEW t \in Text, Found(tag, t) # {}
    PROVE  /\ From(t, Min(Found(tag, t)) + Len(tag)) \in Text
           /\ Len(From(t, Min(Found(tag, t)) + Len(tag)))
                 = Len(t) - (Min(Found(tag, t)) + Len(tag))
           /\ Min(Found(tag, t)) + Len(tag) \in Nat
           /\ Min(Found(tag, t)) + Len(tag) <= Len(t)
           /\ Slice(t, 0, Min(Found(tag, t))) \in Text
<1>1. /\ Min(Found(tag, t)) \in Nat /\ Min(Found(tag, t)) + Len(tag) <= Len(t)
      /\ Min(Found(tag, t)) <= Len(t)
  BY FirstPlace
<1>2. PICK n : n = Min(Found(tag, t)) + Len(tag)
  OBVIOUS
<1>3. Len(tag) \in Nat
  BY LenProperties DEF Tag
<1>4. n \in Nat /\ n <= Len(t)
  BY <1>1, <1>2, <1>3
<1>5. From(t, n) \in Text /\ Len(From(t, n)) = Len(t) - n
  BY <1>4, FromProperties
<1>6. PICK m : m = Min(Found(tag, t))
  OBVIOUS
<1>7. 0 \in Nat /\ m \in Nat /\ 0 <= m /\ m <= Len(t)
  BY <1>1, <1>6
<1>8. Slice(t, 0, m) \in Text
  BY <1>7, SliceProperties
<1>9. QED
  BY <1>2, <1>4, <1>5, <1>6, <1>8

\* What is shown of a text depends on what is shown of shorter ones.
LEMMA ShowsOfShorter ==
    ASSUME NEW f, NEW g, NEW t \in Text,
           \A u \in Text : Len(u) < Len(t) => f[u] = g[u]
    PROVE  Shows(f, t) = Shows(g, t)
<1>1. CASE Found(OpenTag, t) = {}
  BY <1>1 DEF Shows
<1>2. CASE Found(OpenTag, t) # {}
  <2>1. PICK r : r = From(t, Min(Found(OpenTag, t)) + Len(OpenTag))
    OBVIOUS
  <2>2. r \in Text /\ Len(r) \in Nat /\ Len(t) \in Nat /\ Len(r) < Len(t)
    <3>1. /\ r \in Text /\ Len(r) = Len(t) - (Min(Found(OpenTag, t)) + Len(OpenTag))
          /\ Min(Found(OpenTag, t)) \in Nat
      BY <1>2, <2>1, Tags, AfterTag, FirstPlace
    <3>2. Len(r) \in Nat /\ Len(t) \in Nat
      BY <3>1, LenProperties DEF Text
    <3>3. QED
      BY <3>1, <3>2, Tags
  <2>3. Hides(f, r) = Hides(g, r)
    <3>1. CASE Found(CloseTag, r) = {}
      BY <3>1 DEF Hides
    <3>2. CASE Found(CloseTag, r) # {}
      <4>1. PICK u : u = From(r, Min(Found(CloseTag, r)) + Len(CloseTag))
        OBVIOUS
      <4>2. /\ u \in Text /\ Len(u) = Len(r) - (Min(Found(CloseTag, r)) + Len(CloseTag))
            /\ Min(Found(CloseTag, r)) \in Nat
        BY <2>2, <3>2, <4>1, Tags, AfterTag, FirstPlace
      <4>3. Len(u) < Len(t)
        BY <2>2, <4>2, Tags
      <4>4. f[u] = g[u]
        BY <4>2, <4>3
      <4>5. QED
        BY <3>2, <4>1, <4>4 DEF Hides
    <3>3. QED
      BY <3>1, <3>2
  <2>4. QED
    BY <1>2, <2>1, <2>3 DEF Shows
<1>3. QED
  BY <1>1, <1>2

\* g shows the texts of at most n characters.
UpTo(n) == {t \in Text : Len(t) <= n}
Solves(g, n) == g = [t \in UpTo(n) |-> Shows(g, t)]

LEMMA SolvesAt ==
    ASSUME NEW g, NEW n, Solves(g, n), NEW t \in UpTo(n)
    PROVE  g[t] = Shows(g, t)
<1>1. PICK h : h = g
  OBVIOUS
<1>2. g = [u \in UpTo(n) |-> Shows(h, u)]
  BY <1>1 DEF Solves
<1>3. QED
  BY <1>1, <1>2

LEMMA SolvesAgree ==
    ASSUME NEW f, NEW g, NEW m \in Nat, NEW n \in Nat, Solves(f, m), Solves(g, n), m <= n
    PROVE  \A t \in UpTo(m) : f[t] = g[t]
<1> DEFINE T == {k \in Nat : \E t \in UpTo(m) : Len(t) = k /\ f[t] # g[t]}
<1>1. SUFFICES ASSUME T # {} PROVE FALSE
  <2>1. ASSUME NEW t \in UpTo(m), f[t] # g[t] PROVE Len(t) \in T
    BY <2>1, LenProperties DEF UpTo, Text
  <2>2. QED
    BY <1>1, <2>1
<1>2. PICK k \in T : \A j \in T : k <= j
  BY <1>1, LeastNatural
<1>3. PICK t \in UpTo(m) : Len(t) = k /\ f[t] # g[t]
  BY <1>2
<1>4. t \in Text /\ t \in UpTo(n) /\ k \in Nat
  BY <1>2, <1>3 DEF UpTo
<1>5. ASSUME NEW u \in Text, Len(u) < Len(t) PROVE f[u] = g[u]
  <2>1. Len(u) \in Nat /\ Len(u) \notin T /\ u \in UpTo(m)
    <3>1. Len(u) \in Nat /\ Len(t) <= m
      BY <1>3, LenProperties DEF UpTo, Text
    <3>2. ~(k <= Len(u)) /\ Len(u) <= m
      BY <1>3, <1>4, <1>5, <3>1
    <3>3. QED
      BY <1>2, <3>1, <3>2 DEF UpTo
  <2>2. QED
    BY <2>1
<1>6. Shows(f, t) = Shows(g, t)
  BY <1>4, <1>5, ShowsOfShorter
<1>7. f[t] = Shows(f, t) /\ g[t] = Shows(g, t)
  BY <1>3, <1>4, SolvesAt
<1>8. QED
  BY <1>3, <1>6, <1>7

LEMMA SolvesExists ==
    ASSUME NEW n \in Nat
    PROVE  \E g : Solves(g, n)
<1> DEFINE T == {k \in Nat : ~ \E g : Solves(g, k)}
<1>1. SUFFICES ASSUME T # {} PROVE FALSE
  BY <1>1
<1>2. PICK m \in T : \A k \in T : m <= k
  BY <1>1, LeastNatural
<1>3. m \in Nat /\ ~ \E g : Solves(g, m)
  BY <1>2
<1>4. PICK f : m > 0 => Solves(f, m - 1)
  <2>1. CASE m = 0
    BY <2>1
  <2>2. CASE m # 0
    <3>1. m - 1 \in Nat /\ ~(m <= m - 1)
      BY <1>3, <2>2
    <3>2. m - 1 \notin T
      BY <1>2, <3>1
    <3>3. QED
      BY <3>1, <3>2
  <2>3. QED
    BY <2>1, <2>2
<1>5. PICK g : g = [t \in UpTo(m) |-> Shows(f, t)]
  OBVIOUS
<1>6. ASSUME NEW t \in UpTo(m) PROVE Shows(f, t) = Shows(g, t)
  <2>1. t \in Text /\ Len(t) <= m /\ Len(t) \in Nat
    BY LenProperties DEF UpTo, Text
  <2>2. ASSUME NEW u \in Text, Len(u) < Len(t) PROVE f[u] = g[u]
    <3>1. Len(u) \in Nat
      BY LenProperties DEF Text
    <3>2. m > 0 /\ Len(u) <= m - 1 /\ Len(u) <= m
      BY <1>3, <2>1, <2>2, <3>1
    <3>3. u \in UpTo(m) /\ u \in UpTo(m - 1)
      BY <3>2 DEF UpTo
    <3>4. g[u] = Shows(f, u)
      BY <1>5, <3>3
    <3>5. f[u] = Shows(f, u)
      BY <1>4, <3>2, <3>3, SolvesAt
    <3>6. QED
      BY <3>4, <3>5
  <2>3. QED
    BY <2>1, <2>2, ShowsOfShorter
<1>7. [t \in UpTo(m) |-> Shows(f, t)] = [t \in UpTo(m) |-> Shows(g, t)]
  BY <1>6
<1>8. Solves(g, m)
  BY <1>5, <1>7 DEF Solves
<1>9. QED
  BY <1>3, <1>8

\* The whole of them taken together solve the definition.
LEMMA VisibleSolves == Visible = [t \in Text |-> Shows(Visible, t)]
<1> DEFINE Piece(n) == CHOOSE g : Solves(g, n)
<1>1. PICK f : f = [t \in Text |-> Piece(Len(t))[t]]
  OBVIOUS
<1>2. ASSUME NEW n \in Nat PROVE Solves(Piece(n), n)
  BY SolvesExists
<1> HIDE DEF Piece
<1>3. ASSUME NEW t \in Text PROVE f[t] = Shows(f, t)
  <2>1. PICK n : n = Len(t)
    OBVIOUS
  <2>2. n \in Nat /\ t \in UpTo(n)
    BY <2>1, LenProperties DEF Text, UpTo
  <2>3. PICK g : g = Piece(n)
    OBVIOUS
  <2>4. Solves(g, n)
    BY <1>2, <2>2, <2>3
  <2>5. f[t] = g[t]
    BY <1>1, <2>1, <2>3
  <2>6. g[t] = Shows(g, t)
    BY <2>2, <2>4, SolvesAt
  <2>7. ASSUME NEW u \in Text, Len(u) < Len(t) PROVE g[u] = f[u]
    <3>1. PICK k : k = Len(u)
      OBVIOUS
    <3>2. k \in Nat /\ k <= n /\ u \in UpTo(k)
      BY <2>1, <2>2, <2>7, <3>1, LenProperties DEF Text, UpTo
    <3>3. Solves(Piece(k), k)
      BY <1>2, <3>2
    <3>4. Piece(k)[u] = g[u]
      BY <2>2, <2>4, <3>2, <3>3, SolvesAgree
    <3>5. f[u] = Piece(k)[u]
      BY <1>1, <3>1
    <3>6. QED
      BY <3>4, <3>5
  <2>8. Shows(g, t) = Shows(f, t)
    BY <2>7, ShowsOfShorter
  <2>9. QED
    BY <2>5, <2>6, <2>8
<1>4. f = [t \in Text |-> Shows(f, t)]
  <2>1. PICK h : h = f
    OBVIOUS
  <2>2. f = [t \in Text |-> f[t]]
    BY <1>1
  <2>3. [t \in Text |-> f[t]] = [t \in Text |-> Shows(h, t)]
    BY <1>3, <2>1
  <2>4. QED
    BY <2>1, <2>2, <2>3
<1>5. \E v : v = [t \in Text |-> Shows(v, t)]
  BY <1>4
<1>6. Visible = CHOOSE v : v = [t \in Text |-> Shows(v, t)]
  BY DEF Visible, Shows, Hides, Text
<1>7. QED
  BY <1>5, <1>6

Hidden(r) == Hides(Visible, r)

LEMMA VisibleAt ==
    ASSUME NEW t \in Text
    PROVE  Visible[t] = IF Found(OpenTag, t) = {} THEN t
                        ELSE Slice(t, 0, Min(Found(OpenTag, t)))
                                \o Hidden(From(t, Min(Found(OpenTag, t)) + Len(OpenTag)))
<1>1. PICK v : v = Visible
  OBVIOUS
<1>2. Visible = [u \in Text |-> Shows(v, u)]
  BY <1>1, VisibleSolves
<1>3. Visible[t] = Shows(v, t)
  BY <1>2
<1>4. QED
  BY <1>1, <1>3 DEF Shows, Hidden

LEMMA HiddenAt ==
    ASSUME NEW r
    PROVE  Hidden(r) = IF Found(CloseTag, r) = {} THEN <<>>
                       ELSE Visible[From(r, Min(Found(CloseTag, r)) + Len(CloseTag))]
BY DEF Hidden, Hides

LEMMA VisibleText ==
    ASSUME NEW t \in Text
    PROVE  Visible[t] \in Text
<1> DEFINE T == {k \in Nat : \E u \in Text : Len(u) = k /\ Visible[u] \notin Text}
<1>1. SUFFICES ASSUME T # {} PROVE FALSE
  <2>1. ASSUME NEW u \in Text, Visible[u] \notin Text PROVE Len(u) \in T
    BY <2>1, LenProperties DEF Text
  <2>2. QED
    BY <1>1, <2>1
<1>2. PICK k \in T : \A j \in T : k <= j
  BY <1>1, LeastNatural
<1>3. PICK u \in Text : Len(u) = k /\ Visible[u] \notin Text
  BY <1>2
<1>4. ASSUME NEW w \in Text, Len(w) < Len(u) PROVE Visible[w] \in Text
  <2>1. Len(w) \in Nat /\ k \in Nat
    BY <1>2, LenProperties DEF Text
  <2>2. ~(k <= Len(w))
    BY <1>3, <1>4, <2>1
  <2>3. QED
    BY <1>2, <2>1, <2>2
<1>5. CASE Found(OpenTag, u) = {}
  BY <1>3, <1>5, VisibleAt
<1>6. CASE Found(OpenTag, u) # {}
  <2>1. PICK r : r = From(u, Min(Found(OpenTag, u)) + Len(OpenTag))
    OBVIOUS
  <2>2. PICK s : s = Slice(u, 0, Min(Found(OpenTag, u)))
    OBVIOUS
  <2>3. /\ r \in Text /\ Len(r) = Len(u) - (Min(Found(OpenTag, u)) + Len(OpenTag))
        /\ Min(Found(OpenTag, u)) \in Nat /\ s \in Text
    BY <1>6, <2>1, <2>2, Tags, AfterTag, FirstPlace
  <2>4. Len(r) \in Nat /\ Len(u) \in Nat /\ Len(r) < Len(u)
    BY <2>3, Tags, LenProperties DEF Text
  <2>5. Hidden(r) \in Text
    <3>1. CASE Found(CloseTag, r) = {}
      BY <3>1, HiddenAt, EmptySeq DEF Text
    <3>2. CASE Found(CloseTag, r) # {}
      <4>1. PICK w : w = From(r, Min(Found(CloseTag, r)) + Len(CloseTag))
        OBVIOUS
      <4>2. /\ w \in Text /\ Len(w) = Len(r) - (Min(Found(CloseTag, r)) + Len(CloseTag))
            /\ Min(Found(CloseTag, r)) \in Nat
        BY <2>3, <3>2, <4>1, Tags, AfterTag, FirstPlace
      <4>3. Len(w) < Len(u)
        BY <2>4, <4>2, Tags
      <4>4. QED
        BY <1>4, <3>2, <4>1, <4>2, <4>3, HiddenAt
    <3>3. QED
      BY <3>1, <3>2
  <2>6. s \o Hidden(r) \in Text
    BY <2>3, <2>5, Joined
  <2>7. Visible[u] = s \o Hidden(r)
    BY <1>6, <2>1, <2>2, VisibleAt
  <2>8. QED
    BY <1>3, <2>6, <2>7
<1>7. QED
  BY <1>5, <1>6

LEMMA HiddenText ==
    ASSUME NEW r \in Text
    PROVE  Hidden(r) \in Text
<1>1. CASE Found(CloseTag, r) = {}
  BY <1>1, HiddenAt, EmptySeq DEF Text
<1>2. CASE Found(CloseTag, r) # {}
  <2>1. From(r, Min(Found(CloseTag, r)) + Len(CloseTag)) \in Text
    BY <1>2, Tags, AfterTag
  <2>2. QED
    BY <1>2, <2>1, HiddenAt, VisibleText
<1>3. QED
  BY <1>1, <1>2

-----------------------------------------------------------------------------
(* What the filter does to its buffer b, whatever text z is still to come. *)

\* The first tag of b is the first of b and what follows.
LEMMA FirstInFront ==
    ASSUME NEW tag \in Tag, NEW b \in Text, NEW z \in Text, Found(tag, b) # {}
    PROVE  Found(tag, b \o z) # {} /\ Min(Found(tag, b \o z)) = Min(Found(tag, b))
<1>1. PICK n : n = Min(Found(tag, b))
  OBVIOUS
<1>2. /\ n \in Found(tag, b) /\ n \in Nat /\ n + Len(tag) <= Len(b)
      /\ \A m \in Found(tag, b) : n <= m
  BY <1>1, FirstPlace
<1>3. n \in Found(tag, b \o z)
  BY <1>2, FoundInFront
<1>4. Found(tag, b \o z) \in SUBSET Nat
  BY Joined, FoundNatural
<1>5. ASSUME NEW m \in Found(tag, b \o z) PROVE n <= m
  <2>1. m \in Nat /\ Len(tag) \in Nat /\ Len(b) \in Nat
    BY <1>4, LenProperties DEF Tag, Text
  <2>2. CASE m + Len(tag) <= Len(b)
    <3>1. m \in Found(tag, b)
      BY <2>1, <2>2, <1>5, FoundInFront
    <3>2. QED
      BY <1>2, <3>1
  <2>3. CASE ~(m + Len(tag) <= Len(b))
    BY <1>2, <2>1, <2>3
  <2>4. QED
    BY <2>2, <2>3
<1>6. Min(Found(tag, b \o z)) = n
  BY <1>3, <1>4, <1>5, MinIs
<1>7. QED
  BY <1>1, <1>3, <1>6

LEMMA ClosingTag ==
    ASSUME NEW b \in Text, NEW z \in Text, Found(CloseTag, b) # {}
    PROVE  Hidden(b \o z) = Visible[From(b, Min(Found(CloseTag, b)) + Len(CloseTag)) \o z]
<1>1. /\ Found(CloseTag, b \o z) # {}
      /\ Min(Found(CloseTag, b \o z)) = Min(Found(CloseTag, b))
  BY Tags, FirstInFront
<1>2. PICK n : n = Min(Found(CloseTag, b)) + Len(CloseTag)
  OBVIOUS
<1>3. n \in Nat /\ n <= Len(b)
  BY <1>2, Tags, AfterTag
<1>4. From(b \o z, n) = From(b, n) \o z
  BY <1>3, FromJoined
<1>5. Hidden(b \o z) = Visible[From(b \o z, n)]
  BY <1>1, <1>2, HiddenAt
<1>6. QED
  BY <1>2, <1>4, <1>5

LEMMA OpeningTag ==
    ASSUME NEW b \in Text, NEW z \in Text, Found(OpenTag, b) # {}
    PROVE  Visible[b \o z] =
              Slice(b, 0, Min(Found(OpenTag, b)))
                 \o Hidden(From(b, Min(Found(OpenTag, b)) + Len(OpenTag)) \o z)
<1>1. /\ Found(OpenTag, b \o z) # {}
      /\ Min(Found(OpenTag, b \o z)) = Min(Found(OpenTag, b))
  BY Tags, FirstInFront
<1>2. PICK at : at = Min(Found(OpenTag, b))
  OBVIOUS
<1>3. PICK n : n = at + Len(OpenTag)
  OBVIOUS
<1>4. n \in Nat /\ n <= Len(b) /\ at \in Nat /\ at <= Len(b)
  BY <1>2, <1>3, Tags, AfterTag, FirstPlace
<1>5. From(b \o z, n) = From(b, n) \o z /\ Slice(b \o z, 0, at) = Slice(b, 0, at)
  BY <1>4, FromJoined, SliceJoined
<1>6. b \o z \in Text
  BY Joined
<1>7. Visible[b \o z] = Slice(b \o z, 0, at) \o Hidden(From(b \o z, n))
  BY <1>1, <1>2, <1>3, <1>6, VisibleAt
<1>8. QED
  BY <1>2, <1>3, <1>5, <1>7

\* When no tag begins before k, those of the text are those of what comes from k on.
LEMMA FirstInRest ==
    ASSUME NEW tag \in Tag, NEW t \in Text, NEW k \in Nat, k <= Len(t),
           \A i \in Found(tag, t) : k <= i
    PROVE  /\ Found(tag, t) = {} <=> Found(tag, From(t, k)) = {}
           /\ Found(tag, t) # {} =>
                 Min(Found(tag, t)) = k + Min(Found(tag, From(t, k)))
<1>1. PICK r : r = From(t, k)
  OBVIOUS
<1>2. r \in Text
  BY <1>1, FromProperties
<1>3. Found(tag, t) \in SUBSET Nat /\ Found(tag, r) \in SUBSET Nat
  BY <1>2, FoundNatural
<1>4. ASSUME NEW i \in Found(tag, t) PROVE i - k \in Found(tag, r)
  <2>1. i \in Nat /\ k <= i /\ i - k \in Nat /\ k + (i - k) = i
    BY <1>3
  <2>2. QED
    BY <1>1, <2>1, FoundInRest
<1>5. ASSUME NEW i \in Found(tag, r) PROVE k + i \in Found(tag, t)
  BY <1>1, <1>3, FoundInRest
<1>6. ASSUME Found(tag, t) # {} PROVE Min(Found(tag, t)) = k + Min(Found(tag, r))
  <2>1. PICK m : m = Min(Found(tag, r))
    OBVIOUS
  <2>2. m \in Found(tag, r) /\ m \in Nat /\ \A i \in Found(tag, r) : m <= i
    BY <1>3, <1>4, <1>6, <2>1, MinProperties
  <2>3. ASSUME NEW i \in Found(tag, t) PROVE k + m <= i
    <3>1. i - k \in Found(tag, r) /\ i \in Nat
      BY <1>3, <1>4
    <3>2. m <= i - k
      BY <2>2, <3>1
    <3>3. QED
      BY <2>2, <3>1, <3>2
  <2>4. k + m \in Found(tag, t)
    BY <1>5, <2>2
  <2>5. QED
    BY <1>3, <2>1, <2>3, <2>4, MinIs
<1>7. QED
  BY <1>1, <1>4, <1>5, <1>6

\* In the reasoning, what no closing tag begins in can be dropped.
LEMMA HiddenDrop ==
    ASSUME NEW t \in Text, NEW k \in Nat, k <= Len(t),
           \A i \in Found(CloseTag, t) : k <= i
    PROVE  Hidden(t) = Hidden(From(t, k))
<1>1. PICK r : r = From(t, k)
  OBVIOUS
<1>2. r \in Text /\ Len(r) = Len(t) - k /\ Len(t) \in Nat
  BY <1>1, FromProperties, LenProperties DEF Text
<1>3. /\ Found(CloseTag, t) = {} <=> Found(CloseTag, r) = {}
      /\ Found(CloseTag, t) # {} =>
            Min(Found(CloseTag, t)) = k + Min(Found(CloseTag, r))
  BY <1>1, Tags, FirstInRest
<1>4. CASE Found(CloseTag, t) = {}
  BY <1>1, <1>3, <1>4, HiddenAt
<1>5. CASE Found(CloseTag, t) # {}
  <2>1. PICK m : m = Min(Found(CloseTag, r))
    OBVIOUS
  <2>2. m \in Nat /\ m + 8 <= Len(r) /\ Min(Found(CloseTag, t)) = k + m
    BY <1>2, <1>3, <1>5, <2>1, Tags, FirstPlace
  <2>3. m + 8 \in Nat /\ k + (m + 8) <= Len(t) /\ k + m + 8 = k + (m + 8)
    BY <1>2, <2>2
  <2>4. From(r, m + 8) = From(t, k + (m + 8))
    BY <1>1, <2>3, FromFrom
  <2>5. Hidden(t) = Visible[From(t, k + m + 8)]
    BY <1>5, <2>2, Tags, HiddenAt
  <2>6. Hidden(r) = Visible[From(r, m + 8)]
    BY <1>3, <1>5, <2>1, Tags, HiddenAt
  <2>7. QED
    BY <1>1, <2>3, <2>4, <2>5, <2>6
<1>6. QED
  BY <1>4, <1>5

\* In the answer, what no opening tag begins in can be shown.
LEMMA VisibleDrop ==
    ASSUME NEW t \in Text, NEW k \in Nat, k <= Len(t),
           \A i \in Found(OpenTag, t) : k <= i
    PROVE  Visible[t] = Slice(t, 0, k) \o Visible[From(t, k)]
<1>1. PICK r : r = From(t, k)
  OBVIOUS
<1>2. r \in Text /\ Len(r) = Len(t) - k /\ Len(t) \in Nat
  BY <1>1, FromProperties, LenProperties DEF Text
<1>3. /\ Found(OpenTag, t) = {} <=> Found(OpenTag, r) = {}
      /\ Found(OpenTag, t) # {} =>
            Min(Found(OpenTag, t)) = k + Min(Found(OpenTag, r))
  BY <1>1, Tags, FirstInRest
<1>4. Slice(t, 0, k) \o r = t
  BY <1>1, Cut
<1>5. CASE Found(OpenTag, t) = {}
  BY <1>1, <1>2, <1>3, <1>4, <1>5, VisibleAt
<1>6. CASE Found(OpenTag, t) # {}
  <2>1. PICK m : m = Min(Found(OpenTag, r))
    OBVIOUS
  <2>2. m \in Nat /\ m + 7 <= Len(r) /\ m <= Len(r) /\ Min(Found(OpenTag, t)) = k + m
    BY <1>2, <1>3, <1>6, <2>1, Tags, FirstPlace
  <2>3. /\ m + 7 \in Nat /\ k + (m + 7) <= Len(t) /\ k + m + 7 = k + (m + 7)
        /\ k + m \in Nat /\ k + m <= Len(t)
    BY <1>2, <2>2
  <2>4. From(r, m + 7) = From(t, k + (m + 7))
    BY <1>1, <2>3, FromFrom
  <2>5. PICK h : h = Hidden(From(r, m + 7))
    OBVIOUS
  <2>6. Visible[t] = Slice(t, 0, k + m) \o h
    BY <1>6, <2>2, <2>3, <2>4, <2>5, Tags, VisibleAt
  <2>7. Visible[r] = Slice(r, 0, m) \o h
    BY <1>2, <1>3, <1>6, <2>1, <2>5, Tags, VisibleAt
  <2>8. Slice(t, 0, k + m) = Slice(t, 0, k) \o Slice(r, 0, m)
    BY <1>1, <2>2, <2>3, SliceSlice
  <2>9. h \in Text /\ Slice(t, 0, k) \in Text /\ Slice(r, 0, m) \in Text
    <3>1. From(r, m + 7) \in Text
      BY <1>2, <2>2, <2>3, FromProperties
    <3>2. h \in Text
      BY <2>5, <3>1, HiddenText
    <3>3. 0 \in Nat /\ 0 <= k /\ 0 <= m
      BY <2>2
    <3>4. Slice(t, 0, k) \in Text /\ Slice(r, 0, m) \in Text
      BY <1>2, <2>2, <3>3, SliceProperties
    <3>5. QED
      BY <3>2, <3>4
  <2>10. (Slice(t, 0, k) \o Slice(r, 0, m)) \o h = Slice(t, 0, k) \o (Slice(r, 0, m) \o h)
    <3>1. PICK p, q : p = Slice(t, 0, k) /\ q = Slice(r, 0, m)
      OBVIOUS
    <3>2. (p \o q) \o h = p \o (q \o h)
      BY <2>9, <3>1, Associative
    <3>3. QED
      BY <3>1, <3>2
  <2>11. QED
    BY <1>1, <2>6, <2>7, <2>8, <2>10
<1>7. QED
  BY <1>5, <1>6

LEMMA FromStart ==
    ASSUME NEW t \in Text
    PROVE  From(t, 0) = t
BY SubSeqFull DEF From, Slice, Text

LEMMA NoText == <<>> \in Text /\ Len(<<>>) = 0
BY EmptySeq DEF Text

LEMMA EmptyText ==
    ASSUME NEW t \in Text
    PROVE  /\ <<>> \in Text /\ Len(<<>>) = 0
           /\ <<>> \o t = t /\ t \o <<>> = t
BY EmptySeq, ConcatEmptySeq DEF Text

\* The last n characters of a text.
LEMMA LastOfProperties ==
    ASSUME NEW b \in Text, NEW n \in Nat
    PROVE  \E k \in Nat :
              /\ k <= Len(b) /\ LastOf(b, n) = From(b, k)
              /\ k = IF Len(b) > n THEN Len(b) - n ELSE 0
              /\ LastOf(b, n) \in Text /\ Len(LastOf(b, n)) <= n
<1>1. Len(b) \in Nat
  BY LenProperties DEF Text
<1>2. PICK k : k = IF Len(b) > n THEN Len(b) - n ELSE 0
  OBVIOUS
<1>3. k \in Nat /\ k <= Len(b) /\ Len(b) - k <= n
  BY <1>1, <1>2
<1>4. LastOf(b, n) = From(b, k)
  BY <1>2 DEF LastOf, From
<1>5. From(b, k) \in Text /\ Len(From(b, k)) = Len(b) - k
  BY <1>3, FromProperties
<1>6. QED
  BY <1>2, <1>3, <1>4, <1>5

\* A tag that is not in b begins, at the earliest, where b ends before the tag does.
LEMMA LateTag ==
    ASSUME NEW tag \in Tag, NEW b \in Text, NEW z \in Text, Found(tag, b) = {},
           NEW k \in Nat, k <= Len(b), k = 0 \/ k + Len(tag) = Len(b) + 1
    PROVE  \A i \in Found(tag, b \o z) : k <= i
<1>1. ASSUME NEW i \in Found(tag, b \o z) PROVE k <= i
  <2>1. i \in Nat /\ Len(tag) \in Nat /\ Len(b) \in Nat
    BY Joined, FoundNatural, LenProperties DEF Tag, Text
  <2>2. ~(i + Len(tag) <= Len(b))
    BY <2>1, <1>1, FoundInFront
  <2>3. QED
    BY <2>1, <2>2
<1>2. QED
  BY <1>1

LEMMA StillHidden ==
    ASSUME NEW b \in Text, NEW z \in Text, Found(CloseTag, b) = {}
    PROVE  Hidden(b \o z) = Hidden(LastOf(b, 7) \o z)
<1>1. PICK k \in Nat : /\ k <= Len(b) /\ LastOf(b, 7) = From(b, k)
                       /\ k = IF Len(b) > 7 THEN Len(b) - 7 ELSE 0
  BY LastOfProperties
<1>2. Len(b) \in Nat
  BY LenProperties DEF Text
<1>3. k = 0 \/ k + Len(CloseTag) = Len(b) + 1
  BY <1>1, <1>2, Tags
<1>4. \A i \in Found(CloseTag, b \o z) : k <= i
  BY <1>1, <1>3, Tags, LateTag
<1>5. PICK t : t = b \o z
  OBVIOUS
<1>6. t \in Text /\ k <= Len(t)
  <2>1. t \in Text /\ Len(t) = Len(b) + Len(z) /\ Len(z) \in Nat
    BY <1>5, Joined
  <2>2. QED
    BY <1>1, <1>2, <2>1
<1>7. Hidden(t) = Hidden(From(t, k))
  BY <1>4, <1>5, <1>6, HiddenDrop
<1>8. From(t, k) = From(b, k) \o z
  BY <1>1, <1>5, FromJoined
<1>9. QED
  BY <1>1, <1>5, <1>7, <1>8

LEMMA StillVisible ==
    ASSUME NEW b \in Text, NEW z \in Text, Found(OpenTag, b) = {}
    PROVE  /\ Len(b) > 6 =>
                 Visible[b \o z] = Slice(b, 0, Len(b) - 6) \o Visible[LastOf(b, 6) \o z]
           /\ ~(Len(b) > 6) => LastOf(b, 6) = b
<1>1. PICK k \in Nat : /\ k <= Len(b) /\ LastOf(b, 6) = From(b, k)
                       /\ k = IF Len(b) > 6 THEN Len(b) - 6 ELSE 0
  BY LastOfProperties
<1>2. Len(b) \in Nat
  BY LenProperties DEF Text
<1>3. ASSUME Len(b) > 6
      PROVE  Visible[b \o z] = Slice(b, 0, Len(b) - 6) \o Visible[LastOf(b, 6) \o z]
  <2>1. k + Len(OpenTag) = Len(b) + 1 /\ k = Len(b) - 6
    BY <1>1, <1>2, <1>3, Tags
  <2>2. \A i \in Found(OpenTag, b \o z) : k <= i
    BY <1>1, <2>1, Tags, LateTag
  <2>3. PICK t : t = b \o z
    OBVIOUS
  <2>4. t \in Text /\ k <= Len(t)
    <3>1. t \in Text /\ Len(t) = Len(b) + Len(z) /\ Len(z) \in Nat
      BY <2>3, Joined
    <3>2. QED
      BY <1>1, <1>2, <3>1
  <2>5. Visible[t] = Slice(t, 0, k) \o Visible[From(t, k)]
    BY <2>2, <2>3, <2>4, VisibleDrop
  <2>6. From(t, k) = From(b, k) \o z /\ Slice(t, 0, k) = Slice(b, 0, k)
    BY <1>1, <2>3, FromJoined, SliceJoined
  <2>7. QED
    BY <1>1, <2>1, <2>3, <2>5, <2>6
<1>4. ASSUME ~(Len(b) > 6) PROVE LastOf(b, 6) = b
  BY <1>1, <1>4, FromStart
<1>5. QED
  BY <1>3, <1>4

\* A text shorter than a tag does not have it.
LEMMA TooShort ==
    ASSUME NEW tag \in Tag, NEW t \in Text, Len(t) < Len(tag)
    PROVE  Found(tag, t) = {}
<1>1. ASSUME NEW i \in Found(tag, t) PROVE FALSE
  <2>1. i \in Nat /\ i + Len(tag) <= Len(t) /\ Len(tag) \in Nat /\ Len(t) \in Nat
    BY <1>1, Occurs, LenProperties DEF IsAt, Tag, Text
  <2>2. QED
    BY <2>1
<1>2. QED
  BY <1>1

LEMMA PrefixOfJoined ==
    ASSUME NEW s \in Text, NEW t \in Text
    PROVE  IsPrefix(s, s \o t)
<1>1. Len(s) \in Nat /\ Len(t) \in Nat /\ Len(s \o t) = Len(s) + Len(t)
  BY Joined
<1>2. PICK n : n = Len(s)
  OBVIOUS
<1>3. n \in Nat /\ n <= Len(s)
  BY <1>1, <1>2
<1>4. Slice(s \o t, 0, n) = Slice(s, 0, n)
  BY <1>3, SliceJoined
<1>5. SubSeq(s \o t, 1, n) = SubSeq(s, 1, n)
  <2>1. PICK one : one = 0 + 1
    OBVIOUS
  <2>2. SubSeq(s \o t, one, n) = SubSeq(s, one, n)
    BY <1>4, <2>1, Zenon DEF Slice
  <2>3. one = 1
    BY <2>1
  <2>4. QED
    BY <2>2, <2>3, Zenon
<1>6. QED
  BY <1>1, <1>2, <1>5 DEF IsPrefix

-----------------------------------------------------------------------------
(* The fragments that are still to be shown.                               *)

\* out[i] is what has been shown when the first i of the fragments fs have followed f.
Showing(out, fs, f) ==
    /\ out \in [0..Len(fs) -> Text]
    /\ out[0] = f
    /\ \A i \in 1..Len(fs) : out[i] = out[i - 1] \o fs[i]
    /\ \A i \in 0..Len(fs) : \E u \in Text : out[Len(fs)] = out[i] \o u

\* After f the fragments fs make it last.
Adds(f, fs, last) == \E out : Showing(out, fs, f) /\ out[Len(fs)] = last

LEMMA AddsText ==
    ASSUME NEW f, NEW fs \in Seq(Text), NEW last, Adds(f, fs, last)
    PROVE  f \in Text /\ last \in Text
<1>1. PICK out : Showing(out, fs, f) /\ out[Len(fs)] = last
  BY DEF Adds
<1>2. 0 \in 0..Len(fs) /\ Len(fs) \in 0..Len(fs)
  BY LenProperties
<1>3. QED
  BY <1>1, <1>2 DEF Showing

\* t is s with something after it.
Extends(s, t) == \E u \in Text : t = s \o u

LEMMA AddsMore ==
    ASSUME NEW f, NEW fs \in Seq(Text), NEW last, Adds(f, fs, last)
    PROVE  Extends(f, last)
<1>1. PICK out : Showing(out, fs, f) /\ out[Len(fs)] = last
  BY DEF Adds
<1>2. 0 \in 0..Len(fs)
  BY LenProperties
<1>3. \E u \in Text : out[Len(fs)] = out[0] \o u
  BY <1>1, <1>2 DEF Showing
<1>4. out[0] = f
  BY <1>1 DEF Showing
<1>5. QED
  BY <1>1, <1>3, <1>4 DEF Extends

LEMMA AddsNone ==
    ASSUME NEW f \in Text
    PROVE  /\ Adds(f, <<>>, f)
           /\ \A last : Adds(f, <<>>, last) => last = f
<1>1. Len(<<>>) = 0
  OBVIOUS
<1>2. PICK out : out = [i \in 0..0 |-> f]
  OBVIOUS
<1>3. f = f \o <<>> /\ <<>> \in Text
  BY EmptyText
<1>4. Showing(out, <<>>, f) /\ out[0] = f
  <2>1. out \in [0..0 -> Text] /\ out[0] = f
    BY <1>2
  <2>2. \A i \in 0..0 : out[i] = f
    BY <1>2
  <2>3. \A i \in 0..0 : \E u \in Text : out[0] = out[i] \o u
    BY <1>3, <2>1, <2>2
  <2>4. QED
    BY <1>1, <2>1, <2>3 DEF Showing
<1>5. Adds(f, <<>>, f)
  BY <1>1, <1>4 DEF Adds
<1>6. ASSUME NEW last, Adds(f, <<>>, last) PROVE last = f
  BY <1>1, <1>6 DEF Adds, Showing
<1>7. QED
  BY <1>5, <1>6

LEMMA AddsOne ==
    ASSUME NEW f, NEW fs \in Seq(Text), NEW last, Adds(f, fs, last), NEW s \in Text
    PROVE  Adds(f, Append(fs, s), last \o s)
<1>1. PICK out : Showing(out, fs, f) /\ out[Len(fs)] = last
  BY DEF Adds
<1>2. PICK n : n = Len(fs)
  OBVIOUS
<1>3. n \in Nat
  BY <1>2, LenProperties
<1>4. /\ out \in [0..n -> Text] /\ out[0] = f /\ out[n] = last
      /\ \A i \in 1..n : out[i] = out[i - 1] \o fs[i]
      /\ \A i \in 0..n : \E u \in Text : last = out[i] \o u
  BY <1>1, <1>2 DEF Showing
<1>5. PICK gs : gs = Append(fs, s)
  OBVIOUS
<1>6. /\ Len(gs) = n + 1 /\ gs[n + 1] = s
      /\ \A i \in 1..n : gs[i] = fs[i]
  BY <1>2, <1>5, AppendProperties
<1>7. PICK g : g = [i \in 0..(n + 1) |-> IF i = n + 1 THEN last \o s ELSE out[i]]
  OBVIOUS
<1>8. last \in Text /\ last \o s \in Text
  BY <1>3, <1>4, Joined
<1>9. /\ g[n + 1] = last \o s
      /\ \A i \in 0..n : g[i] = out[i]
  BY <1>3, <1>7
<1>10. g \in [0..(n + 1) -> Text]
  <2>1. ASSUME NEW i \in 0..(n + 1) PROVE (IF i = n + 1 THEN last \o s ELSE out[i]) \in Text
    <3>1. i # n + 1 => i \in 0..n
      BY <1>3
    <3>2. QED
      BY <1>4, <1>8, <3>1
  <2>2. QED
    BY <1>7, <2>1
<1>11. g[0] = f
  BY <1>3, <1>4, <1>9
<1>12. ASSUME NEW i \in 1..(n + 1) PROVE g[i] = g[i - 1] \o gs[i]
  <2>1. i - 1 \in 0..n
    BY <1>3
  <2>2. CASE i = n + 1
    <3>1. i - 1 = n
      BY <1>3, <2>2
    <3>2. QED
      BY <1>4, <1>6, <1>9, <2>1, <2>2, <3>1
  <2>3. CASE i # n + 1
    <3>1. i \in 1..n /\ i \in 0..n
      BY <1>3, <2>3
    <3>2. QED
      BY <1>4, <1>6, <1>9, <2>1, <3>1
  <2>4. QED
    BY <2>2, <2>3
<1>13. ASSUME NEW i \in 0..(n + 1) PROVE \E u \in Text : g[n + 1] = g[i] \o u
  <2>1. CASE i = n + 1
    BY <1>8, <1>9, <2>1, EmptyText
  <2>2. CASE i # n + 1
    <3>1. i \in 0..n
      BY <1>3, <2>2
    <3>2. PICK u \in Text : last = out[i] \o u
      BY <1>4, <3>1
    <3>3. out[i] \in Text
      BY <1>4, <3>1
    <3>4. PICK w : w = out[i]
      OBVIOUS
    <3>5. (w \o u) \o s = w \o (u \o s)
      <4>1. w \in Text /\ u \in Text
        BY <3>2, <3>3, <3>4
      <4>2. QED
        BY <4>1, Associative
    <3>6. u \o s \in Text
      BY Joined
    <3>7. QED
      BY <1>9, <3>1, <3>2, <3>4, <3>5, <3>6
  <2>3. QED
    BY <2>1, <2>2
<1>14. Showing(g, gs, f) /\ g[Len(gs)] = last \o s
  BY <1>6, <1>9, <1>10, <1>11, <1>12, <1>13 DEF Showing
<1>15. QED
  BY <1>5, <1>14 DEF Adds

LEMMA AddsFirst ==
    ASSUME NEW f, NEW fs \in Seq(Text), NEW last, Adds(f, fs, last), fs # <<>>
    PROVE  Adds(f \o Head(fs), Tail(fs), last)
<1>1. PICK out : Showing(out, fs, f) /\ out[Len(fs)] = last
  BY DEF Adds
<1>2. PICK n : n = Len(fs) - 1
  OBVIOUS
<1>3. n \in Nat /\ Len(fs) = n + 1
  BY <1>2, EmptySeq, LenProperties
<1>4. /\ out \in [0..(n + 1) -> Text] /\ out[0] = f /\ out[n + 1] = last
      /\ \A i \in 1..(n + 1) : out[i] = out[i - 1] \o fs[i]
      /\ \A i \in 0..(n + 1) : \E u \in Text : last = out[i] \o u
  BY <1>1, <1>3 DEF Showing
<1>5. PICK gs : gs = Tail(fs)
  OBVIOUS
<1>6. Len(gs) = n /\ \A i \in 1..n : gs[i] = fs[i + 1]
  BY <1>2, <1>5, HeadTailProperties
<1>7. PICK g : g = [i \in 0..n |-> out[i + 1]]
  OBVIOUS
<1>8. ASSUME NEW i \in 0..n PROVE i + 1 \in 0..(n + 1) /\ g[i] = out[i + 1]
  BY <1>3, <1>7
<1>9. g \in [0..n -> Text]
  BY <1>4, <1>7, <1>8
<1>10. g[0] = f \o Head(fs)
  <2>1. 1 \in 1..(n + 1) /\ 0 \in 0..n /\ 0 + 1 = 1 /\ 1 - 1 = 0
    BY <1>3
  <2>2. out[1] = f \o fs[1]
    BY <1>4, <2>1
  <2>3. Head(fs) = fs[1]
    OBVIOUS
  <2>4. QED
    BY <1>8, <2>1, <2>2, <2>3
<1>11. ASSUME NEW i \in 1..n PROVE g[i] = g[i - 1] \o gs[i]
  <2>1. /\ i \in 0..n /\ i - 1 \in 0..n /\ i + 1 \in 1..(n + 1)
        /\ i - 1 + 1 = i /\ i + 1 - 1 = i
    BY <1>3
  <2>2. out[i + 1] = out[i] \o fs[i + 1]
    <3>1. PICK j : j = i + 1
      OBVIOUS
    <3>2. j \in 1..(n + 1) /\ j - 1 = i
      BY <2>1, <3>1
    <3>3. out[j] = out[j - 1] \o fs[j]
      BY <1>4, <3>2
    <3>4. QED
      BY <3>1, <3>2, <3>3
  <2>3. g[i] = out[i + 1] /\ g[i - 1] = out[i]
    BY <1>8, <2>1
  <2>4. QED
    BY <1>6, <2>2, <2>3
<1>12. n \in 0..n /\ g[n] = last
  BY <1>3, <1>4, <1>8
<1>13. ASSUME NEW i \in 0..n PROVE \E u \in Text : g[n] = g[i] \o u
  BY <1>4, <1>8, <1>12
<1>14. Showing(g, gs, f \o Head(fs)) /\ g[Len(gs)] = last
  BY <1>6, <1>9, <1>10, <1>11, <1>12, <1>13 DEF Showing
<1>15. QED
  BY <1>5, <1>14 DEF Adds

-----------------------------------------------------------------------------
(* The inductive invariant.                                                *)

\* What will be visible of the rest of the stream: the buffer comes first.
Rest(t) == IF inside THEN Hidden(t) ELSE Visible[t]

\* Whatever text still comes in, what is visible of the whole stream is what has been
\* shown, with the fragments, and what is visible of the buffer with that text after it.
Continues(last) ==
    /\ Adds(full, fragments, last)
    /\ \A z \in Text : Visible[received \o z] = last \o Rest(buffer \o z)

Streaming == pc \in {"wait", "scan", "show"} => \E last : Continues(last)

\* Between two chunks the buffer is too short for the tag that is looked for.
Short == pc \in {"wait", "show"} => Len(buffer) <= IF inside THEN 7 ELSE 6

Quiet ==
    /\ received \in Text
    /\ pc = "wait" => fragments = <<>>
    /\ pc # "done" => cached = None

IInv == TypeOK /\ Quiet /\ Short /\ Streaming /\ ShownIsVisible /\ CachedIsWhole

LEMMA Types ==
    ASSUME TypeOK, Quiet
    PROVE  /\ received \in Text /\ buffer \in Text /\ full \in Text
           /\ fragments \in Seq(Text)
BY DEF TypeOK, Quiet, Text

\* What has been shown is a prefix of what is visible, whatever follows.
LEMMA ContinuesPrefix ==
    ASSUME TypeOK, Quiet, NEW last, Continues(last), NEW z \in Text
    PROVE  /\ last \in Text
           /\ IsPrefix(full, last)
           /\ IsPrefix(full, Visible[received \o z])
<1>1. /\ received \in Text /\ buffer \in Text /\ full \in Text
      /\ fragments \in Seq(Text)
  BY Types
<1>2. /\ Adds(full, fragments, last)
      /\ Visible[received \o z] = last \o Rest(buffer \o z)
  BY DEF Continues
<1>3. PICK f : f = full
  OBVIOUS
<1>4. f \in Text /\ last \in Text /\ Extends(f, last)
  <2>1. PICK fs : fs = fragments
    OBVIOUS
  <2>2. fs \in Seq(Text) /\ Adds(f, fs, last)
    BY <1>1, <1>2, <1>3, <2>1
  <2>3. f \in Text /\ last \in Text
    BY <2>2, AddsText
  <2>4. Extends(f, last)
    BY <2>2, AddsMore
  <2>5. QED
    BY <2>3, <2>4
<1>5. PICK u \in Text : last = f \o u
  BY <1>4 DEF Extends
<1>6. PICK v : v = Rest(buffer \o z)
  OBVIOUS
<1>7. v \in Text
  <2>1. buffer \o z \in Text
    BY <1>1, Joined
  <2>2. QED
    BY <1>6, <2>1, HiddenText, VisibleText DEF Rest
<1>8. (f \o u) \o v = f \o (u \o v) /\ u \o v \in Text
  <2>1. u \in Text /\ f \in Text /\ v \in Text
    BY <1>4, <1>5, <1>7
  <2>2. (f \o u) \o v = f \o (u \o v)
    BY <2>1, Associative
  <2>3. u \o v \in Text
    BY <2>1, Joined
  <2>4. QED
    BY <2>2, <2>3
<1>9. IsPrefix(f, f \o u) /\ IsPrefix(f, f \o (u \o v))
  BY <1>4, <1>5, <1>8, PrefixOfJoined
<1>10. Visible[received \o z] = f \o (u \o v)
  BY <1>2, <1>5, <1>6, <1>8
<1>11. QED
  BY <1>3, <1>4, <1>5, <1>9, <1>10

LEMMA InitIInv == Init => IInv
<1> SUFFICES ASSUME Init PROVE IInv
  OBVIOUS
<1>1. /\ received = <<>> /\ pc = "wait" /\ inside = FALSE /\ buffer = <<>>
      /\ fragments = <<>> /\ full = <<>> /\ cached = None
  BY DEF Init
<1>2. <<>> \in Text /\ Len(<<>>) = 0 /\ <<>> \in Seq(Seq(STRING))
  BY NoText, EmptySeq
<1>3. TypeOK
  <2>1. pc \in {"wait", "scan", "show", "store", "done", "failed"} /\ inside \in BOOLEAN
    BY <1>1
  <2>2. buffer \in Seq(STRING) /\ Len(buffer) <= 7 /\ full \in Seq(STRING)
    BY <1>1, <1>2 DEF Text
  <2>3. fragments \in Seq(Seq(STRING)) /\ cached \in Seq(STRING) \cup {None}
    BY <1>1, <1>2
  <2>4. QED
    BY <2>1, <2>2, <2>3 DEF TypeOK
<1>4. Quiet
  BY <1>1, <1>2 DEF Quiet
<1>5. Continues(<<>>)
  <2>1. Adds(<<>>, <<>>, <<>>)
    BY <1>2, AddsNone
  <2>2. ASSUME NEW z \in Text PROVE Visible[<<>> \o z] = <<>> \o Visible[<<>> \o z]
    <3>1. <<>> \o z = z /\ Visible[z] \in Text
      BY EmptyText, VisibleText
    <3>2. <<>> \o Visible[z] = Visible[z]
      BY <3>1, EmptyText
    <3>3. QED
      BY <3>1, <3>2
  <2>3. QED
    BY <1>1, <2>1, <2>2 DEF Continues, Rest
<1>6. ShownIsVisible
  <2>1. IsPrefix(full, Visible[received \o <<>>])
    BY <1>2, <1>3, <1>4, <1>5, ContinuesPrefix
  <2>2. received \o <<>> = received
    BY <1>1, <1>2, EmptyText
  <2>3. QED
    BY <1>1, <2>1, <2>2 DEF ShownIsVisible
<1>7. QED
  BY <1>1, <1>2, <1>3, <1>4, <1>5, <1>6 DEF IInv, Short, Streaming, CachedIsWhole

\* A chunk is the first part of what was still to come.
LEMMA ReceiveIInv ==
    ASSUME IInv, NEW chunk \in Chunks, Receive(chunk)
    PROVE  IInv'
<1>1. /\ TypeOK /\ Quiet /\ Streaming /\ ShownIsVisible
  BY DEF IInv
<1>2. /\ pc = "wait" /\ pc' = "scan"
      /\ received' = received \o chunk /\ buffer' = buffer \o chunk
      /\ inside' = inside /\ fragments' = fragments /\ full' = full /\ cached' = cached
  BY DEF Receive
<1>3. /\ received \in Text /\ buffer \in Text /\ chunk \in Text
  BY <1>1, Types, ChunksAssumption DEF Text
<1>4. received' \in Text /\ buffer' \in Text
  BY <1>2, <1>3, Joined
<1>5. TypeOK'
  BY <1>1, <1>2, <1>4 DEF TypeOK, Text
<1>6. Quiet'
  BY <1>1, <1>2, <1>4 DEF Quiet
<1>7. PICK last : Continues(last)
  BY <1>1, <1>2 DEF Streaming
<1>8. Continues(last)'
  <2>1. ASSUME NEW z \in Text
        PROVE  Visible[received' \o z] = last \o Rest(buffer \o z)'
    <3>1. chunk \o z \in Text
      BY <1>3, Joined
    <3>2. /\ (received \o chunk) \o z = received \o (chunk \o z)
          /\ (buffer \o chunk) \o z = buffer \o (chunk \o z)
      <4>1. (received \o chunk) \o z = received \o (chunk \o z)
        BY <1>3, Associative, Zenon
      <4>2. (buffer \o chunk) \o z = buffer \o (chunk \o z)
        BY <1>3, Associative, Zenon
      <4>3. QED
        BY <4>1, <4>2
    <3>3. Visible[received \o (chunk \o z)] = last \o Rest(buffer \o (chunk \o z))
      BY <1>7, <3>1 DEF Continues
    <3>4. Rest(buffer \o z)' = Rest(buffer \o (chunk \o z))
      BY <1>2, <3>2 DEF Rest
    <3>5. QED
      BY <1>2, <3>2, <3>3, <3>4
  <2>2. Adds(full', fragments', last)
    BY <1>2, <1>7 DEF Continues
  <2>3. QED
    BY <2>1, <2>2 DEF Continues
<1>9. ShownIsVisible'
  <2>1. IsPrefix(full, Visible[received \o chunk])
    BY <1>1, <1>3, <1>7, ContinuesPrefix
  <2>2. QED
    BY <1>2, <2>1 DEF ShownIsVisible
<1>10. QED
  BY <1>1, <1>2, <1>5, <1>6, <1>8, <1>9 DEF IInv, Quiet, Short, Streaming, CachedIsWhole

\* A step of the scan: what it shows, the buffer it leaves and what is visible agree.
ScanStep(shown) ==
    /\ \A z \in Text : Rest(buffer \o z) = shown \o Rest(buffer \o z)'
    /\ (fragments' = fragments /\ shown = <<>>) \/ fragments' = Append(fragments, shown)

LEMMA ScanIInv ==
    ASSUME IInv, pc = "scan", pc' \in {"scan", "show"}, NEW shown \in Text, ScanStep(shown),
           buffer' \in Text, inside' \in BOOLEAN, Short',
           UNCHANGED <<received, full, cached>>
    PROVE  IInv'
<1>1. TypeOK /\ Quiet /\ Streaming /\ ShownIsVisible
  BY DEF IInv
<1>2. /\ received \in Text /\ buffer \in Text /\ full \in Text
      /\ fragments \in Seq(Text)
  BY <1>1, Types
<1>3. PICK last : Continues(last)
  BY <1>1 DEF Streaming
<1>4. Adds(full, fragments, last) /\ last \in Text
  BY <1>2, <1>3, AddsText DEF Continues
<1>5. /\ \A z \in Text : Rest(buffer \o z) = shown \o Rest(buffer \o z)'
      /\ (fragments' = fragments /\ shown = <<>>) \/ fragments' = Append(fragments, shown)
  BY DEF ScanStep
<1>6. Adds(full', fragments', last \o shown)
  <2>1. CASE fragments' = fragments /\ shown = <<>>
    BY <1>4, <2>1, EmptyText
  <2>2. CASE fragments' = Append(fragments, shown)
    BY <1>2, <1>4, <2>2, AddsOne
  <2>3. QED
    BY <1>5, <2>1, <2>2
<1>7. Continues(last \o shown)'
  <2>1. ASSUME NEW z \in Text
        PROVE  Visible[received' \o z] = (last \o shown) \o Rest(buffer \o z)'
    <3>1. Visible[received \o z] = last \o (shown \o Rest(buffer \o z)')
      BY <1>3, <1>5 DEF Continues
    <3>2. PICK v : v = Rest(buffer \o z)'
      OBVIOUS
    <3>3. PICK b : b = buffer' \o z
      OBVIOUS
    <3>4. b \in Text
      BY <3>3, Joined
    <3>5. v = IF inside' THEN Hidden(b) ELSE Visible[b]
      BY <3>2, <3>3 DEF Rest
    <3>6. v \in Text
      BY <3>4, <3>5, HiddenText, VisibleText
    <3>7. (last \o shown) \o v = last \o (shown \o v)
      BY <1>4, <3>6, Associative
    <3>8. QED
      BY <3>1, <3>2, <3>7
  <2>2. QED
    BY <1>6, <2>1 DEF Continues
<1>8. fragments' \in Seq(Text)
  <2>1. Append(fragments, shown) \in Seq(Text)
    BY <1>2, AppendProperties
  <2>2. QED
    BY <1>2, <1>5, <2>1
<1>9. TypeOK'
  BY <1>1, <1>8 DEF TypeOK, Text
<1>10. Quiet'
  BY <1>1 DEF Quiet
<1>11. ShownIsVisible'
  BY <1>1 DEF ShownIsVisible
<1>12. Streaming'
  BY <1>7 DEF Streaming
<1>13. CachedIsWhole'
  BY <1>1 DEF Quiet, CachedIsWhole
<1>14. QED
  BY <1>9, <1>10, <1>11, <1>12, <1>13 DEF IInv

LEMMA WithinIInv == ASSUME IInv, Within PROVE IInv'
<1>1. /\ pc = "scan" /\ inside /\ Found(CloseTag, buffer) = {}
      /\ buffer' = LastOf(buffer, 7) /\ pc' = "show"
      /\ UNCHANGED <<received, inside, fragments, full, cached>>
  BY DEF Within, Scanning
<1>2. buffer \in Text
  BY Types DEF IInv
<1>3. buffer' \in Text /\ Len(buffer') <= 7
  BY <1>1, <1>2, LastOfProperties
<1>4. ScanStep(<<>>)
  <2>1. ASSUME NEW z \in Text PROVE Rest(buffer \o z) = <<>> \o Rest(buffer \o z)'
    <3>1. PICK b : b = buffer' \o z
      OBVIOUS
    <3>2. b \in Text /\ Hidden(b) \in Text
      BY <1>3, <3>1, Joined, HiddenText
    <3>3. Rest(buffer \o z) = Hidden(b)
      BY <1>1, <1>2, <3>1, StillHidden DEF Rest
    <3>4. Rest(buffer \o z)' = Hidden(b)
      BY <1>1, <3>1 DEF Rest
    <3>5. QED
      BY <3>2, <3>3, <3>4, EmptyText
  <2>2. QED
    BY <1>1, <2>1 DEF ScanStep
<1>5. Short' /\ inside' \in BOOLEAN
  BY <1>1, <1>3 DEF Short
<1>6. <<>> \in Text
  BY NoText
<1>7. QED
  BY <1>1, <1>3, <1>4, <1>5, <1>6, ScanIInv

LEMMA CloseIInv == ASSUME IInv, Close PROVE IInv'
<1>1. /\ pc = "scan" /\ inside /\ Found(CloseTag, buffer) # {}
      /\ buffer' = From(buffer, Min(Found(CloseTag, buffer)) + Len(CloseTag))
      /\ inside' = FALSE /\ pc' = "scan"
      /\ UNCHANGED <<received, fragments, full, cached>>
  BY DEF Close, Scanning
<1>2. buffer \in Text
  BY Types DEF IInv
<1>3. buffer' \in Text
  BY <1>1, <1>2, Tags, AfterTag
<1>4. ScanStep(<<>>)
  <2>1. ASSUME NEW z \in Text PROVE Rest(buffer \o z) = <<>> \o Rest(buffer \o z)'
    <3>1. PICK b : b = buffer' \o z
      OBVIOUS
    <3>2. b \in Text /\ Visible[b] \in Text
      BY <1>3, <3>1, Joined, VisibleText
    <3>3. Rest(buffer \o z) = Visible[b]
      BY <1>1, <1>2, <3>1, ClosingTag DEF Rest
    <3>4. Rest(buffer \o z)' = Visible[b]
      BY <1>1, <3>1 DEF Rest
    <3>5. QED
      BY <3>2, <3>3, <3>4, EmptyText
  <2>2. QED
    BY <1>1, <2>1 DEF ScanStep
<1>5. Short' /\ inside' \in BOOLEAN
  BY <1>1 DEF Short
<1>6. <<>> \in Text
  BY NoText
<1>7. QED
  BY <1>1, <1>3, <1>4, <1>5, <1>6, ScanIInv

LEMMA OpenIInv == ASSUME IInv, Open PROVE IInv'
<1>1. PICK at : at = Min(Found(OpenTag, buffer))
  OBVIOUS
<1>2. /\ pc = "scan" /\ ~inside /\ Found(OpenTag, buffer) # {}
      /\ fragments' = IF at = 0 THEN fragments ELSE Append(fragments, Slice(buffer, 0, at))
      /\ buffer' = From(buffer, at + Len(OpenTag))
      /\ inside' = TRUE /\ pc' = "scan"
      /\ UNCHANGED <<received, full, cached>>
  BY <1>1 DEF Open, Scanning
<1>3. buffer \in Text
  BY Types DEF IInv
<1>4. PICK shown : shown = Slice(buffer, 0, at)
  OBVIOUS
<1>5. buffer' \in Text /\ shown \in Text
  BY <1>1, <1>2, <1>3, <1>4, Tags, AfterTag
<1>6. at = 0 => shown = <<>>
  <2>1. ASSUME at = 0 PROVE shown = <<>>
    <3>1. shown = SubSeq(buffer, 1, 0)
      BY <1>4, <2>1 DEF Slice
    <3>2. QED
      BY <3>1, SubSeqEmpty
  <2>2. QED
    BY <2>1
<1>7. ScanStep(shown)
  <2>1. ASSUME NEW z \in Text PROVE Rest(buffer \o z) = shown \o Rest(buffer \o z)'
    <3>1. Rest(buffer \o z) = shown \o Hidden(buffer' \o z)
      BY <1>1, <1>2, <1>3, <1>4, OpeningTag DEF Rest
    <3>2. Rest(buffer \o z)' = Hidden(buffer' \o z)
      BY <1>2 DEF Rest
    <3>3. QED
      BY <3>1, <3>2
  <2>2. (fragments' = fragments /\ shown = <<>>) \/ fragments' = Append(fragments, shown)
    BY <1>2, <1>4, <1>6
  <2>3. QED
    BY <2>1, <2>2 DEF ScanStep
<1>8. Short' /\ inside' \in BOOLEAN
  BY <1>2 DEF Short
<1>9. QED
  BY <1>2, <1>5, <1>7, <1>8, ScanIInv

LEMMA OutsideIInv == ASSUME IInv, Outside PROVE IInv'
<1>1. /\ pc = "scan" /\ ~inside /\ Found(OpenTag, buffer) = {}
      /\ fragments' = IF Len(buffer) > 6
                      THEN Append(fragments, Slice(buffer, 0, Len(buffer) - 6)) ELSE fragments
      /\ buffer' = LastOf(buffer, 6) /\ pc' = "show"
      /\ UNCHANGED <<received, inside, full, cached>>
  BY DEF Outside, Scanning
<1>2. buffer \in Text /\ Len(buffer) \in Nat
  BY Types, LenProperties DEF IInv, Text
<1>3. buffer' \in Text /\ Len(buffer') <= 6
  BY <1>1, <1>2, LastOfProperties
<1>4. PICK shown : shown = IF Len(buffer) > 6 THEN Slice(buffer, 0, Len(buffer) - 6) ELSE <<>>
  OBVIOUS
<1>5. shown \in Text
  <2>1. CASE Len(buffer) > 6
    <3>1. PICK n : n = Len(buffer) - 6
      OBVIOUS
    <3>2. 0 \in Nat /\ n \in Nat /\ 0 <= n /\ n <= Len(buffer)
      BY <1>2, <2>1, <3>1
    <3>3. Slice(buffer, 0, n) \in Text
      BY <1>2, <3>2, SliceProperties
    <3>4. QED
      BY <1>4, <2>1, <3>1, <3>3
  <2>2. CASE ~(Len(buffer) > 6)
    BY <1>4, <2>2, NoText
  <2>3. QED
    BY <2>1, <2>2
<1>6. ScanStep(shown)
  <2>1. ASSUME NEW z \in Text PROVE Rest(buffer \o z) = shown \o Rest(buffer \o z)'
    <3>1. PICK b : b = buffer' \o z
      OBVIOUS
    <3>2. b \in Text /\ Visible[b] \in Text
      BY <1>3, <3>1, Joined, VisibleText
    <3>3. Rest(buffer \o z)' = Visible[b] /\ Rest(buffer \o z) = Visible[buffer \o z]
      BY <1>1, <3>1 DEF Rest
    <3>4. CASE Len(buffer) > 6
      <4>1. Visible[buffer \o z] = Slice(buffer, 0, Len(buffer) - 6) \o Visible[b]
        BY <1>1, <1>2, <3>1, <3>4, StillVisible
      <4>2. QED
        BY <1>4, <3>3, <3>4, <4>1
    <3>5. CASE ~(Len(buffer) > 6)
      <4>1. buffer' = buffer
        BY <1>1, <1>2, <3>5, StillVisible, EmptyText
      <4>2. Visible[buffer \o z] = Visible[b]
        BY <3>1, <4>1
      <4>3. <<>> \o Visible[b] = Visible[b]
        BY <3>2, EmptyText
      <4>4. QED
        BY <1>4, <3>3, <3>5, <4>2, <4>3
    <3>6. QED
      BY <3>4, <3>5
  <2>2. (fragments' = fragments /\ shown = <<>>) \/ fragments' = Append(fragments, shown)
    BY <1>1, <1>4
  <2>3. QED
    BY <2>1, <2>2 DEF ScanStep
<1>7. Short' /\ inside' \in BOOLEAN
  BY <1>1, <1>3 DEF Short, IInv, TypeOK
<1>8. QED
  BY <1>1, <1>3, <1>5, <1>6, <1>7, ScanIInv

LEMMA ScannedIInv == ASSUME IInv, Scanned PROVE IInv'
<1>1. /\ pc = "scan" /\ buffer = <<>> /\ pc' = "show"
      /\ UNCHANGED <<received, inside, buffer, fragments, full, cached>>
  BY DEF Scanned
<1>2. Len(buffer) = 0 /\ inside \in BOOLEAN
  BY <1>1, EmptyText DEF IInv, TypeOK
<1>3. Short'
  BY <1>1, <1>2 DEF Short
<1>4. ScanStep(<<>>)
  <2>1. ASSUME NEW z \in Text PROVE Rest(buffer \o z) = <<>> \o Rest(buffer \o z)'
    <3>1. PICK v : v = Rest(buffer \o z)
      OBVIOUS
    <3>2. Rest(buffer \o z)' = v
      BY <1>1, <3>1 DEF Rest
    <3>3. buffer \o z \in Text
      BY <1>1, EmptyText
    <3>4. v \in Text
      BY <3>1, <3>3, HiddenText, VisibleText DEF Rest
    <3>5. QED
      BY <3>1, <3>2, <3>4, EmptyText
  <2>2. QED
    BY <1>1, <2>1 DEF ScanStep
<1>5. <<>> \in Text /\ buffer' \in Text
  BY <1>1, NoText
<1>6. QED
  BY <1>1, <1>2, <1>3, <1>4, <1>5, ScanIInv

LEMMA ShowIInv == ASSUME IInv, Show PROVE IInv'
<1>1. /\ pc = "show" /\ fragments # <<>> /\ full' = full \o Head(fragments)
      /\ fragments' = Tail(fragments)
      /\ UNCHANGED <<received, pc, inside, buffer, cached>>
  BY DEF Show
<1>2. TypeOK /\ Quiet /\ Streaming /\ ShownIsVisible /\ Short
  BY DEF IInv
<1>3. /\ received \in Text /\ buffer \in Text /\ full \in Text
      /\ fragments \in Seq(Text)
  BY <1>2, Types
<1>4. Head(fragments) \in Text /\ Tail(fragments) \in Seq(Text)
  BY <1>1, <1>3, HeadTailProperties
<1>5. full' \in Text
  BY <1>1, <1>3, <1>4, Joined
<1>6. PICK last : Continues(last)
  BY <1>1, <1>2 DEF Streaming
<1>7. Adds(full', fragments', last)
  BY <1>1, <1>3, <1>6, AddsFirst DEF Continues
<1>8. Continues(last)'
  <2>1. ASSUME NEW z \in Text PROVE Rest(buffer \o z)' = Rest(buffer \o z)
    BY <1>1 DEF Rest
  <2>2. ASSUME NEW z \in Text PROVE Visible[received' \o z] = last \o Rest(buffer \o z)'
    BY <1>1, <1>6, <2>1 DEF Continues
  <2>3. QED
    BY <1>7, <2>2 DEF Continues
<1>9. TypeOK'
  BY <1>1, <1>2, <1>4, <1>5 DEF TypeOK, Text
<1>10. Quiet' /\ Short'
  BY <1>1, <1>2 DEF Quiet, Short
<1>11. IsPrefix(full', Visible[received])
  <2>1. PICK f : f = full'
    OBVIOUS
  <2>2. PICK u \in Text : last = f \o u
    <3>1. PICK fs : fs = fragments'
      OBVIOUS
    <3>2. fs \in Seq(Text) /\ Adds(f, fs, last)
      BY <1>1, <1>4, <1>7, <2>1, <3>1
    <3>3. Extends(f, last)
      BY <3>2, AddsMore
    <3>4. QED
      BY <3>3 DEF Extends
  <2>3. PICK v : v = Rest(buffer \o <<>>)
    OBVIOUS
  <2>4. <<>> \in Text /\ buffer \o <<>> = buffer /\ received \o <<>> = received
    BY <1>3, EmptyText
  <2>5. v \in Text
    BY <1>3, <2>3, <2>4, HiddenText, VisibleText DEF Rest
  <2>6. Visible[received] = (f \o u) \o v
    BY <1>6, <2>2, <2>3, <2>4 DEF Continues
  <2>7. (f \o u) \o v = f \o (u \o v) /\ u \o v \in Text
    BY <1>5, <2>1, <2>2, <2>5, Associative, Joined
  <2>8. QED
    BY <1>5, <2>1, <2>6, <2>7, PrefixOfJoined
<1>12. ShownIsVisible'
  BY <1>1, <1>11 DEF ShownIsVisible
<1>13. Streaming' /\ CachedIsWhole'
  BY <1>1, <1>2, <1>8 DEF Streaming, Quiet, CachedIsWhole
<1>14. QED
  BY <1>9, <1>10, <1>12, <1>13 DEF IInv

LEMMA ShownIInv == ASSUME IInv, Shown PROVE IInv'
<1>1. /\ pc = "show" /\ fragments = <<>> /\ pc' = "wait"
      /\ UNCHANGED <<received, inside, buffer, fragments, full, cached>>
  BY DEF Shown
<1>2. TypeOK /\ Quiet /\ Streaming /\ ShownIsVisible /\ Short
  BY DEF IInv
<1>3. Len(buffer) \in Nat
  BY <1>2, LenProperties DEF TypeOK
<1>4. TypeOK'
  BY <1>1, <1>2, <1>3 DEF TypeOK, Short
<1>5. Quiet' /\ Short'
  BY <1>1, <1>2 DEF Quiet, Short
<1>6. PICK last : Continues(last)
  BY <1>1, <1>2 DEF Streaming
<1>7. Continues(last)'
  BY <1>1, <1>6 DEF Continues, Rest
<1>8. Streaming'
  BY <1>7 DEF Streaming
<1>9. ShownIsVisible' /\ CachedIsWhole'
  BY <1>1, <1>2 DEF ShownIsVisible, Quiet, CachedIsWhole
<1>10. QED
  BY <1>4, <1>5, <1>8, <1>9 DEF IInv

\* Between two chunks only the buffer, where it is not reasoning, is still to be shown.
LEMMA Waiting ==
    ASSUME IInv, pc = "wait"
    PROVE  Visible[received] = IF inside THEN full ELSE full \o buffer
<1>1. TypeOK /\ Quiet /\ Streaming /\ Short
  BY DEF IInv
<1>2. /\ received \in Text /\ buffer \in Text /\ full \in Text
      /\ fragments = <<>>
  BY <1>1, Types DEF Quiet
<1>3. PICK last : Continues(last)
  BY <1>1 DEF Streaming
<1>4. last = full
  BY <1>2, <1>3, AddsNone DEF Continues
<1>5. /\ received \o <<>> = received /\ buffer \o <<>> = buffer /\ full \o <<>> = full
      /\ <<>> \in Text
  BY <1>2, EmptyText
<1>6. Visible[received] = full \o Rest(buffer)
  BY <1>3, <1>4, <1>5 DEF Continues
<1>7. Len(buffer) \in Nat /\ Len(buffer) <= IF inside THEN 7 ELSE 6
  BY <1>1, <1>2, LenProperties DEF Short, Text
<1>8. CASE inside
  <2>1. Found(CloseTag, buffer) = {}
    <3>1. Len(buffer) < Len(CloseTag)
      BY <1>7, <1>8, Tags
    <3>2. QED
      BY <1>2, <3>1, Tags, TooShort
  <2>2. Rest(buffer) = <<>>
    BY <1>8, <2>1, HiddenAt DEF Rest
  <2>3. QED
    BY <1>5, <1>6, <1>8, <2>2
<1>9. CASE ~inside
  <2>1. Found(OpenTag, buffer) = {}
    <3>1. Len(buffer) < Len(OpenTag)
      BY <1>7, <1>9, Tags
    <3>2. QED
      BY <1>2, <3>1, Tags, TooShort
  <2>2. Rest(buffer) = buffer
    BY <1>2, <1>9, <2>1, VisibleAt DEF Rest
  <2>3. QED
    BY <1>6, <1>9, <2>2
<1>10. QED
  BY <1>8, <1>9

LEMMA PrefixOfItself == ASSUME NEW t \in Text PROVE IsPrefix(t, t)
<1>1. Len(t) \in Nat
  BY LenProperties DEF Text
<1>2. QED
  BY <1>1 DEF IsPrefix

LEMMA FlushIInv == ASSUME IInv, Flush PROVE IInv'
<1>1. /\ pc = "wait" /\ full' = (IF inside THEN full ELSE full \o buffer)
      /\ buffer' = <<>> /\ pc' = "store"
      /\ UNCHANGED <<received, inside, fragments, cached>>
  BY DEF Flush
<1>2. TypeOK /\ Quiet
  BY DEF IInv
<1>3. full' = Visible[received]
  BY <1>1, Waiting
<1>4. received \in Text /\ full' \in Text
  BY <1>2, <1>3, Types, VisibleText
<1>5. TypeOK'
  BY <1>1, <1>2, <1>4, NoText DEF TypeOK, Text
<1>6. Quiet' /\ Short' /\ Streaming'
  BY <1>1, <1>2 DEF Quiet, Short, Streaming
<1>7. ShownIsVisible'
  <2>1. IsPrefix(full', Visible[received])
    <3>1. PICK f : f = full'
      OBVIOUS
    <3>2. QED
      BY <1>3, <1>4, <3>1, PrefixOfItself
  <2>2. QED
    BY <1>1, <1>3, <2>1 DEF ShownIsVisible
<1>8. CachedIsWhole'
  BY <1>1, <1>2 DEF Quiet, CachedIsWhole
<1>9. QED
  BY <1>5, <1>6, <1>7, <1>8 DEF IInv

LEMMA StoreIInv == ASSUME IInv, Store PROVE IInv'
<1>1. /\ pc = "store" /\ cached' = (IF full = <<>> THEN None ELSE full) /\ pc' = "done"
      /\ UNCHANGED <<received, inside, buffer, fragments, full>>
  BY DEF Store
<1>2. TypeOK /\ Quiet /\ ShownIsVisible
  BY DEF IInv
<1>3. TypeOK'
  BY <1>1, <1>2 DEF TypeOK
<1>4. Quiet' /\ Short' /\ Streaming'
  BY <1>1, <1>2 DEF Quiet, Short, Streaming
<1>5. ShownIsVisible' /\ CachedIsWhole'
  BY <1>1, <1>2 DEF ShownIsVisible, CachedIsWhole
<1>6. QED
  BY <1>3, <1>4, <1>5 DEF IInv

LEMMA FailIInv == ASSUME IInv, Fail PROVE IInv'
<1>1. /\ pc \in {"wait", "show", "store"} /\ pc' = "failed"
      /\ UNCHANGED <<received, inside, buffer, fragments, full, cached>>
  BY DEF Fail
<1>2. TypeOK /\ Quiet /\ ShownIsVisible
  BY DEF IInv
<1>3. TypeOK'
  BY <1>1, <1>2 DEF TypeOK
<1>4. Quiet' /\ Short' /\ Streaming'
  BY <1>1, <1>2 DEF Quiet, Short, Streaming
<1>5. ShownIsVisible' /\ CachedIsWhole'
  BY <1>1, <1>2 DEF ShownIsVisible, Quiet, CachedIsWhole
<1>6. QED
  BY <1>3, <1>4, <1>5 DEF IInv

LEMMA StutterIInv == ASSUME IInv, UNCHANGED vars PROVE IInv'
<1>1. UNCHANGED <<received, pc, inside, buffer, fragments, full, cached>>
  BY DEF vars
<1>2. TypeOK' /\ Quiet' /\ Short'
  BY <1>1 DEF IInv, TypeOK, Quiet, Short
<1>3. ShownIsVisible' /\ CachedIsWhole'
  BY <1>1 DEF IInv, ShownIsVisible, CachedIsWhole
<1>4. Streaming'
  <2>1. ASSUME NEW last, Continues(last) PROVE Continues(last)'
    BY <1>1, <2>1 DEF Continues, Rest
  <2>2. QED
    BY <1>1, <2>1 DEF IInv, Streaming
<1>5. QED
  BY <1>2, <1>3, <1>4 DEF IInv

-----------------------------------------------------------------------------
(* The theorems.                                                           *)

\* The invariant holds in every reachable state, however the stream is cut and wherever
\* it ends.
THEOREM Invariance == Spec => []IInv
<1>1. ASSUME IInv, [Next]_vars PROVE IInv'
  <2>1. ASSUME NEW chunk \in Chunks, Receive(chunk) PROVE IInv'
    BY <1>1, <2>1, ReceiveIInv
  <2>2. CASE Within
    BY <1>1, <2>2, WithinIInv
  <2>3. CASE Close
    BY <1>1, <2>3, CloseIInv
  <2>4. CASE Open
    BY <1>1, <2>4, OpenIInv
  <2>5. CASE Outside
    BY <1>1, <2>5, OutsideIInv
  <2>6. CASE Scanned
    BY <1>1, <2>6, ScannedIInv
  <2>7. CASE Show
    BY <1>1, <2>7, ShowIInv
  <2>8. CASE Shown
    BY <1>1, <2>8, ShownIInv
  <2>9. CASE Flush
    BY <1>1, <2>9, FlushIInv
  <2>10. CASE Store
    BY <1>1, <2>10, StoreIInv
  <2>11. CASE Fail
    BY <1>1, <2>11, FailIInv
  <2>12. CASE UNCHANGED vars
    BY <1>1, <2>12, StutterIInv
  <2>13. QED
    BY <1>1, <2>1, <2>2, <2>3, <2>4, <2>5, <2>6, <2>7, <2>8, <2>9, <2>10, <2>11, <2>12
       DEF Next
<1>2. QED
  BY <1>1, InitIInv, PTL DEF Spec

\* The filter keeps at most seven characters between two chunks of any length.
THEOREM TypeCorrect == Spec => []TypeOK
<1>1. IInv => TypeOK
  BY DEF IInv
<1>2. QED
  BY <1>1, Invariance, PTL

\* However a stream of any length is cut into chunks of any content, the client is shown
\* a prefix of its visible text, and all of it when the stream is over.
THEOREM VisibleIsShown == Spec => []ShownIsVisible
<1>1. IInv => ShownIsVisible
  BY DEF IInv
<1>2. QED
  BY <1>1, Invariance, PTL

\* Between two chunks at most six visible characters have not been shown.
THEOREM ShownPromptly == Spec => []PromptlyShown
<1>1. IInv => PromptlyShown
  <2>1. ASSUME IInv, pc = "wait" PROVE Len(Visible[received]) - Len(full) <= 6
    <3>1. Visible[received] = IF inside THEN full ELSE full \o buffer
      BY <2>1, Waiting
    <3>2. full \in Text /\ buffer \in Text
      BY <2>1, Types DEF IInv
    <3>3. /\ Len(full) \in Nat /\ Len(buffer) \in Nat
          /\ Len(full \o buffer) = Len(full) + Len(buffer)
      BY <3>2, Joined
    <3>4. ~inside => Len(buffer) <= 6
      BY <2>1 DEF IInv, Short
    <3>5. CASE inside
      BY <3>1, <3>3, <3>5
    <3>6. CASE ~inside
      BY <3>1, <3>3, <3>4, <3>6
    <3>7. QED
      BY <3>5, <3>6
  <2>2. QED
    BY <2>1 DEF PromptlyShown
<1>2. QED
  BY <1>1, Invariance, PTL

\* Only the whole visible text of a stream that ended is ever cached.
THEOREM WholeIsCached == Spec => []CachedIsWhole
<1>1. IInv => CachedIsWhole
  BY DEF IInv
<1>2. QED
  BY <1>1, Invariance, PTL
=============================================================================
