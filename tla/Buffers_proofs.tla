--------------------------- MODULE Buffers_proofs ---------------------------
(***************************************************************************)
(* Both buffers are queues: filling the ring, or appending to the chunks,  *)
(* puts bytes behind those they hold, peeking takes them from the front,   *)
(* for any size of the array or of a chunk and wherever the bytes lie.     *)
(***************************************************************************)
EXTENDS Buffers, SequenceTheorems, WellFoundedInduction, TLAPS

Rings(size) == [data : Seq(Nat), start : 0..size - 1, end : 0..size]
IsRing(r, size) == r \in Rings(size) /\ Len(r.data) = size

\* Where the k-th byte of a ring lies.
Cell(r, size, k) == IF r.start + k <= size THEN r.start + k ELSE r.start + k - size

-----------------------------------------------------------------------------
\* A set of numbers that is not empty has a least one.  It takes the place of induction.
LEMMA LeastNumber ==
  ASSUME NEW S, S \subseteq Nat, S # {}
  PROVE  \E m \in S : \A k \in S : m <= k
<1>1. PICK m \in S : \A k \in S : ~(<<k, m>> \in OpToRel(<, Nat))
  BY NatLessThanWellFounded, WFMin
<1>2. \A k \in S : ~(k < m)
  BY <1>1 DEF OpToRel
<1> QED BY <1>2

-----------------------------------------------------------------------------
(* Sequences by their elements.                                            *)

LEMMA SameSeq ==
  ASSUME NEW s \in Seq(Nat), NEW t \in Seq(Nat), Len(s) = Len(t),
         \A k \in 1..Len(s) : s[k] = t[k]
  PROVE  s = t
BY SeqEqual

\* The elements of a sequence behind its first i ones, up to the j-th.
LEMMA PartOf ==
  ASSUME NEW a \in Seq(Nat), NEW i \in 0..Len(a), NEW j \in i..Len(a)
  PROVE  /\ SubSeq(a, i + 1, j) \in Seq(Nat)
         /\ Len(SubSeq(a, i + 1, j)) = j - i
         /\ \A k \in 1..j - i : SubSeq(a, i + 1, j)[k] = a[i + k]
<1>1. \A k \in i + 1..j : a[k] \in Nat
  BY ElementOfSeq
<1>2. /\ SubSeq(a, i + 1, j) \in Seq(Nat)
      /\ Len(SubSeq(a, i + 1, j)) = IF i + 1 <= j THEN j - (i + 1) + 1 ELSE 0
      /\ \A k \in 1..j - (i + 1) + 1 : SubSeq(a, i + 1, j)[k] = a[i + 1 + k - 1]
  <2>1. i + 1 \in Int /\ j \in Int
    OBVIOUS
  <2> QED BY <1>1, <2>1, SubSeqProperties
<1>3. \A k \in 1..j - i : i + 1 + k - 1 = i + k
  OBVIOUS
<1>4. j - (i + 1) + 1 = j - i
  OBVIOUS
<1> QED BY <1>2, <1>3, <1>4

LEMMA FrontOf ==
  ASSUME NEW a \in Seq(Nat), NEW j \in 0..Len(a)
  PROVE  /\ SubSeq(a, 1, j) \in Seq(Nat)
         /\ Len(SubSeq(a, 1, j)) = j
         /\ \A k \in 1..j : SubSeq(a, 1, j)[k] = a[k]
<1>1. 0 \in 0..Len(a) /\ j \in 0..Len(a) /\ 0 + 1 = 1 /\ j - 0 = j /\ \A k \in 1..j : 0 + k = k
  OBVIOUS
<1> QED BY <1>1, PartOf

LEMMA ConcatOf ==
  ASSUME NEW s \in Seq(Nat), NEW t \in Seq(Nat)
  PROVE  /\ s \o t \in Seq(Nat)
         /\ Len(s \o t) = Len(s) + Len(t)
         /\ \A k \in 1..Len(s) + Len(t) : (s \o t)[k] = IF k <= Len(s) THEN s[k] ELSE t[k - Len(s)]
BY ConcatProperties

LEMMA SmallerOf ==
  ASSUME NEW a \in Int, NEW b \in Int
  PROVE  Smaller(a, b) \in {a, b} /\ Smaller(a, b) <= a /\ Smaller(a, b) <= b
BY DEF Smaller

-----------------------------------------------------------------------------
(* What a ring holds.                                                      *)

LEMMA RingIs ==
  ASSUME NEW size \in Nat \ {0}, NEW r, IsRing(r, size)
  PROVE  /\ r.data \in Seq(Nat) /\ Len(r.data) = size
         /\ r.start \in 0..size - 1 /\ r.end \in 0..size
         /\ r = [data |-> r.data, start |-> r.start, end |-> r.end]
         /\ DataSize(r, size) \in 0..size
BY DEF IsRing, Rings, DataSize

LEMMA ContentsOf ==
  ASSUME NEW size \in Nat \ {0}, NEW r, IsRing(r, size)
  PROVE  /\ RingContents(r, size) \in Seq(Nat)
         /\ Len(RingContents(r, size)) = DataSize(r, size)
         /\ \A k \in 1..DataSize(r, size) : RingContents(r, size)[k] = r.data[Cell(r, size, k)]
<1>1. /\ r.data \in Seq(Nat) /\ Len(r.data) = size
      /\ r.start \in 0..size - 1 /\ r.end \in 0..size
  BY RingIs
<1>2. CASE r.start <= r.end
  <2>1. RingContents(r, size) = SubSeq(r.data, r.start + 1, r.end)
    BY <1>2 DEF RingContents
  <2>2. DataSize(r, size) = r.end - r.start
    BY <1>2 DEF DataSize
  <2>3. \A k \in 1..r.end - r.start : Cell(r, size, k) = r.start + k
    BY <1>1, <1>2 DEF Cell
  <2>4. r.start \in 0..Len(r.data) /\ r.end \in r.start..Len(r.data)
    BY <1>1, <1>2
  <2>5. /\ SubSeq(r.data, r.start + 1, r.end) \in Seq(Nat)
        /\ Len(SubSeq(r.data, r.start + 1, r.end)) = r.end - r.start
        /\ \A k \in 1..r.end - r.start : SubSeq(r.data, r.start + 1, r.end)[k] = r.data[r.start + k]
    BY <1>1, <2>4, PartOf
  <2> QED BY <2>1, <2>2, <2>3, <2>5
<1>3. CASE r.start > r.end
  <2> DEFINE s == SubSeq(r.data, r.start + 1, size)
             t == SubSeq(r.data, 1, r.end)
             c == RingContents(r, size)
  <2>1. c = s \o t
    <3>1. ~(r.start <= r.end)
      BY <1>1, <1>3
    <3> QED BY <3>1 DEF RingContents
  <2>2. DataSize(r, size) = (size - r.start) + r.end
    BY <1>1, <1>3 DEF DataSize
  <2>3. /\ s \in Seq(Nat) /\ Len(s) = size - r.start
        /\ \A k \in 1..size - r.start : s[k] = r.data[r.start + k]
    <3>1. r.start \in 0..Len(r.data) /\ size \in r.start..Len(r.data)
      BY <1>1
    <3> QED BY <1>1, <3>1, PartOf
  <2>4. /\ t \in Seq(Nat) /\ Len(t) = r.end
        /\ \A k \in 1..r.end : t[k] = r.data[k]
    BY <1>1, FrontOf
  <2> HIDE DEF s, t, c
  <2>5. /\ c \in Seq(Nat) /\ Len(c) = (size - r.start) + r.end
        /\ \A k \in 1..(size - r.start) + r.end :
             c[k] = IF k <= size - r.start THEN s[k] ELSE t[k - (size - r.start)]
    <3>1. /\ s \o t \in Seq(Nat) /\ Len(s \o t) = Len(s) + Len(t)
          /\ \A k \in 1..Len(s) + Len(t) : (s \o t)[k] = IF k <= Len(s) THEN s[k] ELSE t[k - Len(s)]
      BY <2>3, <2>4, ConcatOf
    <3> QED BY <2>1, <2>3, <2>4, <3>1
  <2>6. ASSUME NEW k \in 1..(size - r.start) + r.end
        PROVE  c[k] = r.data[Cell(r, size, k)]
    <3>1. CASE k <= size - r.start
      <4>1. c[k] = s[k] /\ k \in 1..size - r.start
        BY <1>1, <3>1, <2>5
      <4>2. Cell(r, size, k) = r.start + k
        BY <1>1, <3>1 DEF Cell
      <4> QED BY <4>1, <4>2, <2>3
    <3>2. CASE k > size - r.start
      <4>1. ~(k <= size - r.start) /\ k - (size - r.start) \in 1..r.end
        BY <1>1, <3>2
      <4>2. c[k] = t[k - (size - r.start)]
        BY <4>1, <2>5
      <4>3. Cell(r, size, k) = k - (size - r.start)
        BY <1>1, <3>2 DEF Cell
      <4> QED BY <4>1, <4>3, <4>2, <2>4
    <3> QED BY <1>1, <3>1, <3>2
  <2> QED BY <2>2, <2>5, <2>6 DEF c
<1> QED BY <1>1, <1>2, <1>3

-----------------------------------------------------------------------------
(* One ::recv into the first run of free cells.                            *)

LEMMA FreeIs ==
  ASSUME NEW size \in Nat \ {0}, NEW r, IsRing(r, size)
  PROVE  /\ FirstFree(r, size).at \in 0..size /\ FirstFree(r, size).len \in 0..size
         /\ FirstFree(r, size).at + FirstFree(r, size).len <= size
         /\ FreeSize(r, size) \in 0..size - DataSize(r, size)
         /\ FirstFree(r, size).len <= FreeSize(r, size)
<1>1. r.start \in 0..size - 1 /\ r.end \in 0..size
  BY RingIs
<1>2. CASE r.start > r.end
  BY <1>1, <1>2 DEF FirstFree, FreeSize, DataSize
<1>3. CASE r.start <= r.end /\ r.end = size
  BY <1>1, <1>3 DEF FirstFree, FreeSize, BeforeStart, DataSize
<1>4. CASE r.start <= r.end /\ r.end < size
  BY <1>1, <1>4 DEF FirstFree, FreeSize, BeforeStart, DataSize
<1> QED BY <1>1, <1>2, <1>3, <1>4

\* c is the array a, but for the cells behind its first i ones, which hold d.
IsOverwritten(c, a, d, i) ==
  /\ c \in Seq(Nat) /\ Len(c) = Len(a)
  /\ \A k \in 1..Len(a) : k <= i \/ k > i + Len(d) => c[k] = a[k]
  /\ \A k \in 1..Len(d) : c[i + k] = d[k]

LEMMA Overwritten ==
  ASSUME NEW a \in Seq(Nat), NEW d \in Seq(Nat), NEW i \in 0..Len(a), i + Len(d) <= Len(a),
         NEW c, c = SubSeq(a, 1, i) \o d \o SubSeq(a, i + Len(d) + 1, Len(a))
  PROVE  IsOverwritten(c, a, d, i)
<1> DEFINE s == SubSeq(a, 1, i)
           t == SubSeq(a, i + Len(d) + 1, Len(a))
           sd == s \o d
           b == sd \o t
<1>1. Len(a) \in Nat /\ Len(d) \in Nat
  BY LenProperties
<1>2. /\ s \in Seq(Nat) /\ Len(s) = i
      /\ \A k \in 1..i : s[k] = a[k]
  BY FrontOf
<1>3. /\ t \in Seq(Nat) /\ Len(t) = Len(a) - (i + Len(d))
      /\ \A k \in 1..Len(a) - (i + Len(d)) : t[k] = a[i + Len(d) + k]
  <2>1. i + Len(d) \in 0..Len(a) /\ Len(a) \in i + Len(d)..Len(a)
    BY <1>1
  <2> QED BY <2>1, PartOf
<1> HIDE DEF s, t
<1>4. /\ sd \in Seq(Nat) /\ Len(sd) = i + Len(d)
      /\ \A k \in 1..i + Len(d) : sd[k] = IF k <= i THEN s[k] ELSE d[k - i]
  BY <1>2, ConcatOf
<1> HIDE DEF sd
<1>5. /\ b \in Seq(Nat) /\ Len(b) = i + Len(d) + (Len(a) - (i + Len(d)))
      /\ \A k \in 1..i + Len(d) + (Len(a) - (i + Len(d))) :
           b[k] = IF k <= i + Len(d) THEN sd[k] ELSE t[k - (i + Len(d))]
  <2>1. /\ sd \o t \in Seq(Nat) /\ Len(sd \o t) = Len(sd) + Len(t)
        /\ \A k \in 1..Len(sd) + Len(t) : (sd \o t)[k] = IF k <= Len(sd) THEN sd[k] ELSE t[k - Len(sd)]
    BY <1>3, <1>4, ConcatOf
  <2> QED BY <2>1, <1>3, <1>4
<1>6. i + Len(d) + (Len(a) - (i + Len(d))) = Len(a)
  BY <1>1
<1> HIDE DEF b
<1>7. ASSUME NEW k \in 1..Len(a), k <= i \/ k > i + Len(d)
      PROVE  b[k] = a[k]
  <2>1. CASE k <= i
    <3>1. k \in 1..i /\ k \in 1..i + Len(d) /\ k <= i + Len(d)
      BY <1>1, <2>1
    <3> QED BY <2>1, <3>1, <1>2, <1>4, <1>5, <1>6
  <2>2. CASE k > i + Len(d)
    <3>1. /\ k - (i + Len(d)) \in 1..Len(a) - (i + Len(d)) /\ ~(k <= i + Len(d))
          /\ i + Len(d) + (k - (i + Len(d))) = k
      BY <1>1, <2>2
    <3>2. b[k] = t[k - (i + Len(d))]
      BY <3>1, <1>5, <1>6
    <3> QED BY <3>1, <3>2, <1>3
  <2> QED BY <1>7, <2>1, <2>2
<1>8. ASSUME NEW k \in 1..Len(d)
      PROVE  b[i + k] = d[k]
  <2>1. /\ i + k \in 1..Len(a) /\ i + k \in 1..i + Len(d) /\ i + k <= i + Len(d)
        /\ ~(i + k <= i) /\ (i + k) - i = k
    BY <1>1
  <2> QED BY <2>1, <1>4, <1>5, <1>6
<1>9. c = b
  BY DEF s, t, sd, b
<1> QED BY <1>5, <1>6, <1>7, <1>8, <1>9 DEF IsOverwritten

\* q is the ring r with n bytes of d in its first free cells.
IsTaken(q, r, size, d, n) ==
  /\ n \in 0..Len(d) /\ n <= FirstFree(r, size).len
  /\ IsRing(q, size) /\ q.start = r.start /\ q.end = Confirmed(r, size, n)
  /\ \A k \in 1..size :
       k <= FirstFree(r, size).at \/ k > FirstFree(r, size).at + n => q.data[k] = r.data[k]
  /\ \A k \in 1..n : q.data[FirstFree(r, size).at + k] = d[k]

LEMMA FillOnceIs ==
  ASSUME NEW size \in Nat \ {0}, NEW r, IsRing(r, size), NEW d \in Seq(Nat),
         NEW n, n = Smaller(Len(d), FirstFree(r, size).len)
  PROVE  IsTaken(FillOnce(r, size, d), r, size, d, n)
<1> DEFINE i == FirstFree(r, size).at
           e == SubSeq(d, 1, n)
           b == SubSeq(r.data, 1, i) \o e \o SubSeq(r.data, i + n + 1, size)
<1>1. /\ r.data \in Seq(Nat) /\ Len(r.data) = size
      /\ r.start \in 0..size - 1 /\ r.end \in 0..size
  BY RingIs
<1>2. /\ i \in 0..size /\ FirstFree(r, size).len \in 0..size
      /\ i + FirstFree(r, size).len <= size
  BY FreeIs
<1>3. Len(d) \in Nat
  BY LenProperties
<1>4. n \in 0..Len(d) /\ n <= FirstFree(r, size).len
  BY <1>2, <1>3, SmallerOf
<1>5. e \in Seq(Nat) /\ Len(e) = n /\ \A k \in 1..n : e[k] = d[k]
  BY <1>3, <1>4, FrontOf
<1>6. FillOnce(r, size, d) = [data |-> b, start |-> r.start, end |-> Confirmed(r, size, n)]
  BY DEF FillOnce
<1> HIDE DEF e
<1>7. i + n <= size
  BY <1>2, <1>4
<1>8. /\ b \in Seq(Nat) /\ Len(b) = size
      /\ \A k \in 1..size : k <= i \/ k > i + n => b[k] = r.data[k]
      /\ \A k \in 1..n : b[i + k] = e[k]
  <2>1. PICK a : a = r.data
    OBVIOUS
  <2>2. a \in Seq(Nat) /\ e \in Seq(Nat) /\ i \in 0..Len(a) /\ i + Len(e) <= Len(a)
    BY <1>1, <1>2, <1>5, <1>7, <2>1
  <2>3. b = SubSeq(a, 1, i) \o e \o SubSeq(a, i + Len(e) + 1, Len(a))
    BY <1>1, <1>5, <2>1
  <2> HIDE DEF i, b
  <2>4. IsOverwritten(b, a, e, i)
    BY <2>2, <2>3, Overwritten
  <2> QED BY <1>1, <1>5, <2>1, <2>4 DEF IsOverwritten
<1>9. Confirmed(r, size, n) \in 0..size
  <2>1. CASE r.start > r.end
    BY <1>1, <1>4, <2>1 DEF Confirmed, FirstFree
  <2>2. CASE r.start <= r.end /\ r.end = size
    BY <1>1, <1>4, <2>2 DEF Confirmed, FirstFree, BeforeStart
  <2>3. CASE r.start <= r.end /\ r.end < size
    BY <1>1, <1>4, <2>3 DEF Confirmed, FirstFree
  <2> QED BY <1>1, <2>1, <2>2, <2>3
<1> HIDE DEF b, i
<1>10. IsRing(FillOnce(r, size, d), size)
  BY <1>1, <1>6, <1>8, <1>9 DEF IsRing, Rings
<1>11. FillOnce(r, size, d).data = b
  BY <1>6
<1> QED BY <1>4, <1>5, <1>6, <1>8, <1>10, <1>11 DEF i, IsTaken

\* The cells that hold bytes stay what they are, and the next ones are the first free cells.
LEMMA CellsOf ==
  ASSUME NEW size \in Nat \ {0}, NEW r, IsRing(r, size),
         NEW n \in 0..FirstFree(r, size).len,
         NEW q, IsRing(q, size), q.start = r.start, q.end = Confirmed(r, size, n)
  PROVE  /\ DataSize(q, size) = DataSize(r, size) + n
         /\ \A k \in 1..DataSize(r, size) :
              /\ Cell(q, size, k) = Cell(r, size, k)
              /\ Cell(r, size, k) \in 1..size
              /\ Cell(r, size, k) <= FirstFree(r, size).at \/ Cell(r, size, k) > FirstFree(r, size).at + n
         /\ \A k \in 1..n : Cell(q, size, DataSize(r, size) + k) = FirstFree(r, size).at + k
<1>1. r.start \in 0..size - 1 /\ r.end \in 0..size /\ q.end \in 0..size
  BY RingIs
<1>2. \A k \in Nat : Cell(q, size, k) = Cell(r, size, k)
  BY DEF Cell
<1>3. CASE r.start > r.end
  <2>1. /\ FirstFree(r, size).at = r.end /\ n \in 0..r.start - r.end - 1
        /\ DataSize(r, size) = size - r.start + r.end
    BY <1>1, <1>3 DEF FirstFree, DataSize
  <2>2. q.end = r.end + n /\ DataSize(q, size) = size - r.start + r.end + n
    BY <1>1, <1>3, <2>1 DEF Confirmed, DataSize
  <2>3. \A k \in 1..size - r.start + r.end :
          /\ Cell(r, size, k) \in 1..size
          /\ Cell(r, size, k) <= r.end \/ Cell(r, size, k) > r.end + n
    BY <1>1, <1>3, <2>1 DEF Cell
  <2>4. \A k \in 1..n : Cell(q, size, size - r.start + r.end + k) = r.end + k
    BY <1>1, <1>3, <2>1 DEF Cell
  <2> QED BY <1>1, <1>2, <2>1, <2>2, <2>3, <2>4
<1>4. CASE r.start <= r.end /\ r.end = size
  <2>1. /\ FirstFree(r, size).at = 0 /\ n \in 0..BeforeStart(r)
        /\ DataSize(r, size) = size - r.start
    BY <1>1, <1>4 DEF FirstFree, DataSize
  <2>2. n = 0 \/ n < r.start
    BY <1>1, <2>1 DEF BeforeStart
  <2>3. DataSize(q, size) = size - r.start + n
    <3>1. CASE n = 0
      BY <1>1, <1>4, <3>1 DEF Confirmed, DataSize
    <3>2. CASE n > 0 /\ n < r.start
      BY <1>1, <1>4, <2>1, <3>2 DEF Confirmed, DataSize
    <3> QED BY <2>1, <2>2, <3>1, <3>2
  <2>4. \A k \in 1..size - r.start : Cell(r, size, k) \in 1..size /\ Cell(r, size, k) > n
    BY <1>1, <2>1, <2>2 DEF Cell
  <2>5. \A k \in 1..n : Cell(q, size, size - r.start + k) = k
    BY <1>1, <2>1, <2>2 DEF Cell
  <2> QED BY <1>1, <1>2, <2>1, <2>3, <2>4, <2>5
<1>5. CASE r.start <= r.end /\ r.end < size
  <2>1. /\ FirstFree(r, size).at = r.end /\ n \in 0..size - r.end
        /\ DataSize(r, size) = r.end - r.start
    BY <1>1, <1>5 DEF FirstFree, DataSize
  <2>2. q.end = r.end + n /\ DataSize(q, size) = r.end - r.start + n
    BY <1>1, <1>5, <2>1 DEF Confirmed, DataSize
  <2>3. \A k \in 1..r.end - r.start : Cell(r, size, k) \in 1..size /\ Cell(r, size, k) <= r.end
    BY <1>1, <1>5 DEF Cell
  <2>4. \A k \in 1..n : Cell(q, size, r.end - r.start + k) = r.end + k
    BY <1>1, <1>5, <2>1 DEF Cell
  <2> QED BY <1>1, <1>2, <2>1, <2>2, <2>3, <2>4
<1> QED BY <1>1, <1>3, <1>4, <1>5

\* q holds what r holds, and e behind it.
IsAppended(q, r, size, e) ==
  /\ IsRing(q, size)
  /\ DataSize(q, size) = DataSize(r, size) + Len(e)
  /\ RingContents(q, size) = RingContents(r, size) \o e

\* The bytes that one ::recv takes are behind those the ring holds.
LEMMA FillOnceAppends ==
  ASSUME NEW size \in Nat \ {0}, NEW r, IsRing(r, size), NEW d \in Seq(Nat)
  PROVE  IsAppended(FillOnce(r, size, d), r, size,
                    SubSeq(d, 1, Smaller(Len(d), FirstFree(r, size).len)))
<1> DEFINE n == Smaller(Len(d), FirstFree(r, size).len)
           q == FillOnce(r, size, d)
           at == FirstFree(r, size).at
           m == DataSize(r, size)
           e == SubSeq(d, 1, n)
           new == RingContents(q, size)
           old == RingContents(r, size)
<1>1. Len(d) \in Nat
  BY LenProperties
<1>2. /\ n \in 0..Len(d) /\ n <= FirstFree(r, size).len
      /\ IsRing(q, size) /\ q.start = r.start /\ q.end = Confirmed(r, size, n)
      /\ \A k \in 1..size : k <= at \/ k > at + n => q.data[k] = r.data[k]
      /\ \A k \in 1..n : q.data[at + k] = d[k]
  BY FillOnceIs DEF IsTaken
<1>3. /\ DataSize(q, size) = m + n
      /\ \A k \in 1..m : /\ Cell(q, size, k) = Cell(r, size, k) /\ Cell(r, size, k) \in 1..size
                         /\ Cell(r, size, k) <= at \/ Cell(r, size, k) > at + n
      /\ \A k \in 1..n : Cell(q, size, m + k) = at + k
  <2>1. n \in 0..FirstFree(r, size).len
    BY <1>2, FreeIs
  <2> QED BY <1>2, <2>1, CellsOf
<1>4. /\ e \in Seq(Nat) /\ Len(e) = n /\ \A k \in 1..n : e[k] = d[k]
  BY <1>2, FrontOf, LenProperties
<1>5. /\ old \in Seq(Nat) /\ Len(old) = m /\ m \in Nat
      /\ \A k \in 1..m : old[k] = r.data[Cell(r, size, k)]
  BY RingIs, ContentsOf
<1>6. /\ new \in Seq(Nat) /\ Len(new) = m + n
      /\ \A k \in 1..m + n : new[k] = q.data[Cell(q, size, k)]
  BY <1>2, <1>3, ContentsOf
<1> HIDE DEF n, q, at, m, e, new, old
<1>7. /\ old \o e \in Seq(Nat) /\ Len(old \o e) = m + n
      /\ \A k \in 1..m + n : (old \o e)[k] = IF k <= m THEN old[k] ELSE e[k - m]
  <2>1. /\ old \o e \in Seq(Nat) /\ Len(old \o e) = Len(old) + Len(e)
        /\ \A k \in 1..Len(old) + Len(e) : (old \o e)[k] = IF k <= Len(old) THEN old[k] ELSE e[k - Len(old)]
    BY <1>4, <1>5, ConcatOf
  <2> QED BY <2>1, <1>4, <1>5
<1>8. ASSUME NEW k \in 1..m + n
      PROVE  new[k] = (old \o e)[k]
  <2>1. CASE k <= m
    <3>1. k \in 1..m
      BY <1>1, <1>2, <1>5, <2>1
    <3>2. new[k] = r.data[Cell(r, size, k)]
      BY <3>1, <1>2, <1>3, <1>6
    <3> QED BY <2>1, <3>1, <3>2, <1>5, <1>7
  <2>2. CASE k > m
    <3>1. k - m \in 1..n /\ m + (k - m) = k /\ ~(k <= m)
      BY <1>1, <1>2, <1>5, <2>2
    <3>2. new[k] = d[k - m]
      BY <3>1, <1>2, <1>3, <1>6
    <3> QED BY <3>1, <3>2, <1>4, <1>7
  <2>3. k <= m \/ k > m
    BY <1>1, <1>2, <1>5
  <2> QED BY <2>1, <2>2, <2>3
<1>9. new = old \o e
  BY <1>6, <1>7, <1>8, SameSeq
<1> QED BY <1>2, <1>3, <1>4, <1>9 DEF n, q, m, e, new, old, IsAppended

-----------------------------------------------------------------------------
(* rcv_all's loop, and peek.                                               *)

LEMMA ConcatTwice ==
  ASSUME NEW s \in Seq(Nat), NEW t \in Seq(Nat), NEW u \in Seq(Nat)
  PROVE  (s \o t) \o u = s \o (t \o u)
BY ConcatAssociative

LEMMA ConcatParts ==
  ASSUME NEW d \in Seq(Nat), NEW n \in 0..Len(d)
  PROVE  /\ SubSeq(d, 1, n) \in Seq(Nat) /\ SubSeq(d, n + 1, Len(d)) \in Seq(Nat)
         /\ Len(SubSeq(d, n + 1, Len(d))) = Len(d) - n
         /\ SubSeq(d, 1, n) \o SubSeq(d, n + 1, Len(d)) = d
<1> DEFINE s == SubSeq(d, 1, n)
           t == SubSeq(d, n + 1, Len(d))
<1>1. Len(d) \in Nat
  BY LenProperties
<1>2. /\ s \in Seq(Nat) /\ Len(s) = n
      /\ \A k \in 1..n : s[k] = d[k]
  BY <1>1, FrontOf
<1>3. /\ t \in Seq(Nat) /\ Len(t) = Len(d) - n
      /\ \A k \in 1..Len(d) - n : t[k] = d[n + k]
  <2>1. Len(d) \in n..Len(d)
    BY <1>1
  <2> QED BY <2>1, PartOf
<1> HIDE DEF s, t
<1>4. /\ s \o t \in Seq(Nat) /\ Len(s \o t) = Len(d)
      /\ \A k \in 1..Len(d) : (s \o t)[k] = IF k <= n THEN s[k] ELSE t[k - n]
  <2>1. /\ s \o t \in Seq(Nat) /\ Len(s \o t) = Len(s) + Len(t)
        /\ \A k \in 1..Len(s) + Len(t) : (s \o t)[k] = IF k <= Len(s) THEN s[k] ELSE t[k - Len(s)]
    BY <1>2, <1>3, ConcatOf
  <2>2. Len(s) + Len(t) = Len(d)
    BY <1>1, <1>2, <1>3
  <2> QED BY <2>1, <2>2, <1>2
<1>5. ASSUME NEW k \in 1..Len(d)
      PROVE  (s \o t)[k] = d[k]
  <2>1. CASE k <= n
    <3>1. k \in 1..n
      BY <1>1, <2>1
    <3> QED BY <2>1, <3>1, <1>2, <1>4
  <2>2. CASE k > n
    <3>1. k - n \in 1..Len(d) - n /\ n + (k - n) = k /\ ~(k <= n)
      BY <1>1, <2>2
    <3> QED BY <3>1, <1>3, <1>4
  <2>3. k <= n \/ k > n
    BY <1>1
  <2> QED BY <2>1, <2>2, <2>3
<1>6. s \o t = d
  BY <1>4, <1>5, SameSeq
<1> QED BY <1>2, <1>3, <1>6 DEF s, t

\* rcv_all puts the bytes it takes behind those the ring holds, if they are no more than
\* get_free_size says; in particular the ring never becomes so full that it looks empty.
THEOREM FillAppends ==
  ASSUME NEW size \in Nat \ {0}, NEW r, IsRing(r, size), NEW d \in Seq(Nat),
         Len(d) <= FreeSize(r, size)
  PROVE  IsAppended(Fill(r, size, d), r, size, d)
<1> DEFINE n == Smaller(Len(d), FirstFree(r, size).len)
           once == FillOnce(r, size, d)
           e == SubSeq(d, 1, n)
           rest == SubSeq(d, n + 1, Len(d))
           twice == FillOnce(once, size, rest)
           m == Smaller(Len(rest), FirstFree(once, size).len)
           old == RingContents(r, size)
<1>1. /\ Len(d) \in Nat /\ FirstFree(r, size).len \in Nat /\ FreeSize(r, size) \in Nat
      /\ r.start \in 0..size - 1 /\ r.end \in 0..size
      /\ DataSize(r, size) \in Nat
  BY FreeIs, RingIs, LenProperties
<1>2. IsAppended(once, r, size, e)
  BY FillOnceAppends
<1>3. n \in 0..Len(d) /\ n <= FirstFree(r, size).len
  BY <1>1, SmallerOf
<1>4. /\ e \in Seq(Nat) /\ rest \in Seq(Nat) /\ Len(e) = n /\ Len(rest) = Len(d) - n
      /\ e \o rest = d
  BY <1>3, ConcatParts, FrontOf
<1>5. once.start = r.start /\ once.end = Confirmed(r, size, n)
  BY DEF FillOnce
<1>6. Fill(r, size, d) = IF n = Len(d) THEN once ELSE twice
  BY DEF Fill
<1>7. n = Smaller(Len(d), FirstFree(r, size).len)
  OBVIOUS
<1>8. m = Smaller(Len(rest), FirstFree(once, size).len)
  OBVIOUS
<1>9. IsRing(once, size) => IsAppended(twice, once, size, SubSeq(rest, 1, m))
  BY <1>4, FillOnceAppends
<1>10. old \in Seq(Nat)
  BY ContentsOf
<1> HIDE DEF n, once, e, rest, twice, m
<1>11. CASE n = Len(d)
  <2>1. \A k \in 1..Len(e) : e[k] = d[k]
    BY <1>11, <1>3, FrontOf DEF e
  <2>2. e = d
    BY <1>4, <1>11, <2>1, SameSeq
  <2> QED BY <1>2, <1>6, <1>11, <2>2
<1>12. CASE n # Len(d)
  <2>1. n = FirstFree(r, size).len /\ n < Len(d)
    BY <1>1, <1>3, <1>7, <1>12 DEF Smaller
  <2>2. r.start <= r.end
    BY <1>1, <2>1 DEF FirstFree, FreeSize
  <2>3. r.end < size
    <3>1. r.end # size
      BY <1>1, <2>1, <2>2 DEF FirstFree, FreeSize
    <3> QED BY <1>1, <3>1
  <2>4. n = size - r.end /\ FreeSize(r, size) = size - r.end + BeforeStart(r)
    BY <1>1, <2>1, <2>2, <2>3 DEF FirstFree, FreeSize
  <2>5. once.end = size
    BY <1>1, <1>5, <2>2, <2>3, <2>4 DEF Confirmed
  <2>6. FirstFree(once, size).len = BeforeStart(r)
    BY <1>1, <1>5, <2>5 DEF FirstFree, BeforeStart
  <2>7. BeforeStart(r) \in Nat
    BY <1>1 DEF BeforeStart
  <2>8. Len(rest) \in Nat /\ Len(rest) <= BeforeStart(r)
    BY <1>1, <1>3, <1>4, <2>4, <2>7
  <2>9. m = Len(rest)
    BY <1>8, <2>6, <2>7, <2>8 DEF Smaller
  <2>10. SubSeq(rest, 1, m) = rest
    BY <1>4, <2>9, SubSeqFull
  <2>11. /\ IsRing(twice, size)
         /\ DataSize(twice, size) = DataSize(r, size) + n + Len(rest)
         /\ RingContents(twice, size) = (old \o e) \o rest
    BY <1>2, <1>4, <1>9, <2>10 DEF IsAppended
  <2> HIDE DEF old
  <2>12. (old \o e) \o rest = old \o d
    <3>1. (old \o e) \o rest = old \o (e \o rest)
      <4>1. e \in Seq(Nat) /\ rest \in Seq(Nat)
        BY <1>4
      <4> QED BY <4>1, <1>10, ConcatTwice
    <3> QED BY <1>4, <3>1
  <2>13. DataSize(r, size) + n + Len(rest) = DataSize(r, size) + Len(d)
    BY <1>1, <1>3, <1>4
  <2> QED BY <1>6, <1>12, <2>11, <2>12, <2>13 DEF IsAppended, old
<1> QED BY <1>11, <1>12

LEMMA BlankIs ==
  ASSUME NEW n \in Nat
  PROVE  Blank(n) \in Seq(Nat) /\ Len(Blank(n)) = n
BY DEF Blank, Unused

\* c is made of three parts.
IsRow(c, x, y, z) ==
  /\ c \in Seq(Nat) /\ Len(c) = Len(x) + Len(y) + Len(z)
  /\ \A k \in 1..Len(x) : c[k] = x[k]
  /\ \A k \in 1..Len(y) : c[Len(x) + k] = y[k]
  /\ \A k \in 1..Len(z) : c[Len(x) + Len(y) + k] = z[k]

LEMMA RowOf ==
  ASSUME NEW x \in Seq(Nat), NEW y \in Seq(Nat), NEW z \in Seq(Nat)
  PROVE  IsRow(x \o y \o z, x, y, z)
BY DEF IsRow

\* c has the bytes of the ring r from start on where they were.
IsKept(c, r, size, start) ==
  /\ c \in Seq(Nat) /\ Len(c) = size
  /\ start <= r.end => \A k \in start + 1..r.end : c[k] = r.data[k]
  /\ ~(start <= r.end) => /\ \A k \in 1..r.end : c[k] = r.data[k]
                          /\ \A k \in start + 1..size : c[k] = r.data[k]

LEMMA KeptIs ==
  ASSUME NEW size \in Nat \ {0}, NEW r, IsRing(r, size), NEW start \in 0..size - 1
  PROVE  IsKept(Kept(r, size, start), r, size, start)
<1> DEFINE c == Kept(r, size, start)
<1>1. r.data \in Seq(Nat) /\ Len(r.data) = size /\ r.end \in 0..size
  BY RingIs
<1>2. CASE start <= r.end
  <2> DEFINE x == Blank(start)
             y == SubSeq(r.data, start + 1, r.end)
             z == Blank(size - r.end)
  <2>1. c = x \o y \o z
    BY <1>2 DEF Kept
  <2>2. x \in Seq(Nat) /\ Len(x) = start
    BY BlankIs
  <2>3. z \in Seq(Nat) /\ Len(z) = size - r.end
    <3>1. size - r.end \in Nat
      BY <1>1
    <3> QED BY <3>1, BlankIs
  <2>4. /\ y \in Seq(Nat) /\ Len(y) = r.end - start
        /\ \A k \in 1..r.end - start : y[k] = r.data[start + k]
    <3>1. start \in 0..Len(r.data) /\ r.end \in start..Len(r.data)
      BY <1>1, <1>2
    <3> QED BY <1>1, <3>1, PartOf
  <2> HIDE DEF x, y, z, c
  <2>5. IsRow(c, x, y, z)
    BY <2>1, <2>2, <2>3, <2>4, RowOf
  <2>6. /\ c \in Seq(Nat) /\ Len(c) = start + (r.end - start) + (size - r.end)
        /\ \A k \in 1..r.end - start : c[start + k] = r.data[start + k]
    BY <2>2, <2>3, <2>4, <2>5 DEF IsRow
  <2>7. ASSUME NEW k \in start + 1..r.end
        PROVE  c[k] = r.data[k]
    <3>1. k - start \in 1..r.end - start /\ start + (k - start) = k
      BY <1>1
    <3> QED BY <2>6, <3>1
  <2>8. start + (r.end - start) + (size - r.end) = size
    BY <1>1
  <2> QED BY <1>2, <2>6, <2>7, <2>8 DEF IsKept, c
<1>3. CASE ~(start <= r.end)
  <2> DEFINE x == SubSeq(r.data, 1, r.end)
             y == Blank(start - r.end)
             z == SubSeq(r.data, start + 1, size)
  <2>1. c = x \o y \o z
    BY <1>3 DEF Kept
  <2>2. y \in Seq(Nat) /\ Len(y) = start - r.end
    <3>1. start - r.end \in Nat
      BY <1>1, <1>3
    <3> QED BY <3>1, BlankIs
  <2>3. /\ x \in Seq(Nat) /\ Len(x) = r.end
        /\ \A k \in 1..r.end : x[k] = r.data[k]
    BY <1>1, FrontOf
  <2>4. /\ z \in Seq(Nat) /\ Len(z) = size - start
        /\ \A k \in 1..size - start : z[k] = r.data[start + k]
    <3>1. start \in 0..Len(r.data) /\ size \in start..Len(r.data)
      BY <1>1
    <3> QED BY <1>1, <3>1, PartOf
  <2> HIDE DEF x, y, z, c
  <2>5. IsRow(c, x, y, z)
    BY <2>1, <2>2, <2>3, <2>4, RowOf
  <2>6. c \in Seq(Nat) /\ Len(c) = r.end + (start - r.end) + (size - start)
    BY <2>2, <2>3, <2>4, <2>5 DEF IsRow
  <2>7. \A k \in 1..r.end : c[k] = r.data[k]
    BY <2>3, <2>5 DEF IsRow
  <2>8. \A k \in 1..size - start : c[r.end + (start - r.end) + k] = r.data[start + k]
    BY <2>2, <2>3, <2>4, <2>5 DEF IsRow
  <2>9. ASSUME NEW k \in start + 1..size
        PROVE  c[k] = r.data[k]
    <3>1. /\ k - start \in 1..size - start /\ start + (k - start) = k
          /\ r.end + (start - r.end) + (k - start) = k
      BY <1>1
    <3> QED BY <2>8, <3>1
  <2>10. r.end + (start - r.end) + (size - start) = size
    BY <1>1
  <2> QED BY <1>3, <2>6, <2>7, <2>9, <2>10 DEF IsKept, c
<1> QED BY <1>2, <1>3

\* The cells of the bytes that stay.
LEMMA PeekCells ==
  ASSUME NEW size \in Nat \ {0}, NEW r, IsRing(r, size), NEW out \in 0..DataSize(r, size),
         NEW q, q.start = Onward(r, size, out), q.end = r.end,
         ~(r.start <= r.end /\ q.start = r.end)
  PROVE  /\ q.start \in 0..size - 1
         /\ DataSize(q, size) = DataSize(r, size) - out
         /\ \A k \in 1..DataSize(r, size) - out :
              /\ Cell(q, size, k) = Cell(r, size, out + k)
              /\ Cell(q, size, k) \in 1..size
              /\ IF q.start <= r.end THEN Cell(q, size, k) \in q.start + 1..r.end
                 ELSE Cell(q, size, k) \in 1..r.end \/ Cell(q, size, k) \in q.start + 1..size
<1>1. r.start \in 0..size - 1 /\ r.end \in 0..size
  BY RingIs
<1>2. CASE r.start <= r.end
  <2>1. DataSize(r, size) = r.end - r.start /\ q.start = r.start + out
    BY <1>1, <1>2 DEF DataSize, Onward
  <2>2. q.start < r.end
    BY <1>1, <1>2, <2>1
  <2>3. DataSize(q, size) = r.end - r.start - out
    BY <1>1, <2>1, <2>2 DEF DataSize
  <2>4. \A k \in 1..r.end - r.start - out :
          Cell(q, size, k) = q.start + k /\ Cell(r, size, out + k) = q.start + k
    BY <1>1, <1>2, <2>1 DEF Cell
  <2> QED BY <1>1, <1>2, <2>1, <2>2, <2>3, <2>4
<1>3. CASE r.start > r.end /\ r.start + out < size
  <2>1. DataSize(r, size) = size - r.start + r.end /\ q.start = r.start + out
    BY <1>1, <1>3 DEF DataSize, Onward
  <2>2. q.start > r.end
    BY <1>1, <1>3, <2>1
  <2>3. DataSize(q, size) = size - r.start + r.end - out
    BY <1>1, <2>1, <2>2 DEF DataSize
  <2>4. \A k \in 1..size - r.start + r.end - out :
          /\ Cell(q, size, k) = Cell(r, size, out + k)
          /\ Cell(q, size, k) \in 1..r.end \/ Cell(q, size, k) \in q.start + 1..size
    BY <1>1, <1>3, <2>1 DEF Cell
  <2> QED BY <1>1, <1>3, <2>1, <2>2, <2>3, <2>4
<1>4. CASE r.start > r.end /\ r.start + out >= size
  <2>1. DataSize(r, size) = size - r.start + r.end /\ q.start = r.start + out - size
    BY <1>1, <1>4 DEF DataSize, Onward
  <2>2. q.start \in 0..r.end
    BY <1>1, <1>4, <2>1
  <2>3. DataSize(q, size) = size - r.start + r.end - out
    BY <1>1, <2>1, <2>2 DEF DataSize
  <2>4. \A k \in 1..size - r.start + r.end - out :
          Cell(q, size, k) = q.start + k /\ Cell(r, size, out + k) = q.start + k
    BY <1>1, <1>4, <2>1 DEF Cell
  <2> QED BY <1>1, <1>4, <2>1, <2>2, <2>3, <2>4
<1> QED BY <1>1, <1>2, <1>3, <1>4

\* q holds what r holds but its first n bytes.
IsTakenFrom(q, r, size, n) ==
  /\ IsRing(q, size)
  /\ DataSize(q, size) = DataSize(r, size) - n
  /\ RingContents(q, size) = SubSeq(RingContents(r, size), n + 1, DataSize(r, size))

\* peek takes the bytes that came first, as many as it is asked for or all; an emptied block
\* starts anew at the beginning of the array.
THEOREM PeekTakesFirst ==
  ASSUME NEW size \in Nat \ {0}, NEW r, IsRing(r, size), NEW n \in Nat
  PROVE  IsTakenFrom(Peeked(r, size, n), r, size, Smaller(n, DataSize(r, size)))
<1> DEFINE out == Smaller(n, DataSize(r, size))
           start == Onward(r, size, out)
           data == Kept(r, size, start)
           ring == [data |-> data, start |-> start, end |-> r.end]
           q == Peeked(r, size, n)
           m == DataSize(r, size)
           all == RingContents(r, size)
<1>1. /\ r.data \in Seq(Nat) /\ Len(r.data) = size
      /\ r.start \in 0..size - 1 /\ r.end \in 0..size /\ m \in 0..size
  BY RingIs
<1>2. out \in 0..m
  BY <1>1, SmallerOf
<1>3. q = IF r.start <= r.end /\ start = r.end THEN EmptyRing(size) ELSE ring
  BY DEF Peeked
<1>4. /\ all \in Seq(Nat) /\ Len(all) = m
      /\ \A k \in 1..m : all[k] = r.data[Cell(r, size, k)]
  BY ContentsOf
<1>5. /\ SubSeq(all, out + 1, m) \in Seq(Nat) /\ Len(SubSeq(all, out + 1, m)) = m - out
      /\ \A k \in 1..m - out : SubSeq(all, out + 1, m)[k] = all[out + k]
  <2>1. out \in 0..Len(all) /\ m \in out..Len(all)
    BY <1>1, <1>2, <1>4
  <2> HIDE DEF out, m, all
  <2> QED BY <1>4, <2>1, PartOf
<1>6. CASE r.start <= r.end /\ start = r.end
  <2>1. q = EmptyRing(size)
    BY <1>3, <1>6
  <2>2. out = m
    BY <1>1, <1>2, <1>6 DEF DataSize, Onward
  <2>3. IsRing(EmptyRing(size), size)
    BY BlankIs DEF EmptyRing, IsRing, Rings
  <2>4. DataSize(EmptyRing(size), size) = 0
    BY DEF EmptyRing, DataSize
  <2>5. RingContents(EmptyRing(size), size) = <<>>
    BY <2>3, <2>4, ContentsOf
  <2> HIDE DEF out, m, all, q
  <2>6. SubSeq(all, out + 1, m) = <<>>
    BY <1>1, <1>5, <2>2
  <2>7. DataSize(EmptyRing(size), size) = m - out
    BY <1>1, <2>2, <2>4
  <2> QED BY <2>1, <2>3, <2>5, <2>6, <2>7 DEF IsTakenFrom, out, m, all, q
<1>7. CASE ~(r.start <= r.end /\ start = r.end)
  <2>1. q = ring /\ ring.start = start /\ ring.end = r.end /\ ring.data = data
    BY <1>3, <1>7
  <2>2. /\ start \in 0..size - 1
        /\ DataSize(ring, size) = m - out
        /\ \A k \in 1..m - out :
             /\ Cell(ring, size, k) = Cell(r, size, out + k)
             /\ Cell(ring, size, k) \in 1..size
             /\ IF start <= r.end THEN Cell(ring, size, k) \in start + 1..r.end
                ELSE Cell(ring, size, k) \in 1..r.end \/ Cell(ring, size, k) \in start + 1..size
    <3> HIDE DEF out, start, ring
    <3>1. ~(r.start <= r.end /\ ring.start = r.end) /\ ring.start = Onward(r, size, out)
      BY <1>7, <2>1 DEF start
    <3> QED BY <1>2, <2>1, <3>1, PeekCells
  <2>3. /\ data \in Seq(Nat) /\ Len(data) = size
        /\ start <= r.end => \A k \in start + 1..r.end : data[k] = r.data[k]
        /\ ~(start <= r.end) => /\ \A k \in 1..r.end : data[k] = r.data[k]
                                /\ \A k \in start + 1..size : data[k] = r.data[k]
    <3>1. start \in 0..size - 1
      BY <2>2
    <3> HIDE DEF start, data
    <3>2. IsKept(Kept(r, size, start), r, size, start)
      BY <3>1, KeptIs
    <3> QED BY <3>2 DEF IsKept, data
  <2>4. IsRing(ring, size)
    BY <1>1, <2>2, <2>3 DEF IsRing, Rings
  <2>5. /\ RingContents(ring, size) \in Seq(Nat) /\ Len(RingContents(ring, size)) = m - out
        /\ \A k \in 1..m - out : RingContents(ring, size)[k] = data[Cell(ring, size, k)]
    <3> HIDE DEF ring, data, m, out
    <3> QED BY <2>1, <2>2, <2>4, ContentsOf
  <2> HIDE DEF ring, data, m, out, all, start, q
  <2>6. ASSUME NEW k \in 1..m - out
        PROVE  RingContents(ring, size)[k] = SubSeq(all, out + 1, m)[k]
    <3>1. RingContents(ring, size)[k] = data[Cell(ring, size, k)]
      BY <2>5
    <3>2. data[Cell(ring, size, k)] = r.data[Cell(ring, size, k)]
      BY <2>2, <2>3
    <3>3. out + k \in 1..m
      BY <1>1, <1>2
    <3>4. SubSeq(all, out + 1, m)[k] = r.data[Cell(r, size, out + k)]
      BY <1>4, <1>5, <3>3
    <3> QED BY <2>2, <3>1, <3>2, <3>4
  <2>7. RingContents(ring, size) = SubSeq(all, out + 1, m)
    BY <1>5, <2>5, <2>6, SameSeq
  <2> QED BY <2>1, <2>2, <2>4, <2>7 DEF IsTakenFrom, out, m, all, q
<1> QED BY <1>6, <1>7

-----------------------------------------------------------------------------
(* The chunk buffer.                                                       *)

\* All chunks are full but the last, which has room; what has been skipped is in the first.
IsChunks(b, size) ==
  /\ b \in [chunks : Seq(Seq(Nat)), skip : Nat]
  /\ \A i \in 1..Len(b.chunks) - 1 : Len(b.chunks[i]) = size
  /\ b.chunks # <<>> => Len(b.chunks[Len(b.chunks)]) < size /\ b.skip < size
  /\ b.skip < ChunkBytes(b, size) \/ (b.skip = 0 /\ ChunkBytes(b, size) = 0)

\* The byte at place i, from 0.
ByteAt(b, size, i) == b.chunks[(i \div size) + 1][(i % size) + 1]

LEMMA Division ==
  ASSUME NEW size \in Nat \ {0}, NEW i \in Nat
  PROVE  i \div size \in Nat /\ i % size \in 0..size - 1 /\ i = size * (i \div size) + (i % size)
OBVIOUS

LEMMA DivisionIs ==
  ASSUME NEW size \in Nat \ {0}, NEW q \in Nat, NEW r \in 0..size - 1
  PROVE  (size * q + r) \div size = q /\ (size * q + r) % size = r
OBVIOUS

LEMMA Product ==
  ASSUME NEW a \in Nat, NEW k \in Nat
  PROVE  a * k \in Nat /\ k * a = a * k /\ (a > 0 => a * k >= k) /\ a * (k + 1) = a * k + a
OBVIOUS

LEMMA DivisionLess ==
  ASSUME NEW size \in Nat \ {0}, NEW i \in Nat, NEW k \in Nat
  PROVE  i < size * k <=> i \div size < k
OBVIOUS

LEMMA DivisionPlus ==
  ASSUME NEW size \in Nat \ {0}, NEW i \in Nat, NEW k \in Nat
  PROVE  (i + size * k) \div size = (i \div size) + k /\ (i + size * k) % size = i % size
<1> DEFINE q == i \div size
           r == i % size
<1>1. q \in Nat /\ r \in 0..size - 1 /\ i = size * q + r
  BY Division
<1> HIDE DEF q, r
<1>2. i + size * k = size * (q + k) + r /\ q + k \in Nat
  BY <1>1
<1>3. (size * (q + k) + r) \div size = q + k /\ (size * (q + k) + r) % size = r
  BY <1>1, <1>2, DivisionIs
<1> QED BY <1>2, <1>3 DEF q, r

LEMMA ChunksAre ==
  ASSUME NEW size \in Nat \ {0}, NEW b, IsChunks(b, size)
  PROVE  /\ b.chunks \in Seq(Seq(Nat)) /\ b.skip \in Nat /\ b = [chunks |-> b.chunks, skip |-> b.skip]
         /\ Len(b.chunks) \in Nat /\ \A i \in 1..Len(b.chunks) : b.chunks[i] \in Seq(Nat)
         /\ ChunkBytes(b, size) \in Nat /\ b.skip <= ChunkBytes(b, size) /\ ChunkData(b, size) \in Nat
         /\ \A i \in 0..ChunkBytes(b, size) - 1 :
              /\ (i \div size) + 1 \in 1..Len(b.chunks)
              /\ (i % size) + 1 \in 1..Len(b.chunks[(i \div size) + 1])
              /\ ByteAt(b, size, i) \in Nat
<1> DEFINE m == Len(b.chunks)
<1>1. /\ b.chunks \in Seq(Seq(Nat)) /\ b.skip \in Nat /\ b = [chunks |-> b.chunks, skip |-> b.skip]
      /\ m \in Nat /\ \A i \in 1..m : b.chunks[i] \in Seq(Nat)
  BY DEF IsChunks
<1>2. CASE b.chunks = <<>>
  <2>1. ChunkBytes(b, size) = 0
    BY <1>2 DEF ChunkBytes
  <2> QED BY <2>1, <1>1 DEF ChunkData, IsChunks
<1>3. CASE b.chunks # <<>>
  <2>1. m >= 1 /\ b.chunks[m] \in Seq(Nat) /\ Len(b.chunks[m]) \in 0..size - 1
    BY <1>1, <1>3 DEF IsChunks
  <2>5. size * (m - 1) \in Nat /\ (m - 1) * size = size * (m - 1) /\ size * m = size * (m - 1) + size
    <3>1. m - 1 \in Nat /\ size \in Nat /\ (m - 1) + 1 = m
      BY <2>1, <1>1
    <3> HIDE DEF m
    <3> QED BY <3>1, Product
  <2> DEFINE base == size * (m - 1)
             last == Len(b.chunks[m])
  <2>2. ChunkBytes(b, size) = base + last
    BY <2>5, <1>3 DEF ChunkBytes
  <2>6. base \in Nat /\ last \in 0..size - 1 /\ size * m = base + size
    BY <2>1, <2>5
  <2> HIDE DEF base, last
  <2>3. ASSUME NEW i \in 0..ChunkBytes(b, size) - 1
        PROVE  /\ (i \div size) + 1 \in 1..m /\ (i % size) + 1 \in 1..Len(b.chunks[(i \div size) + 1])
               /\ ByteAt(b, size, i) \in Nat
    <3> DEFINE q == i \div size
               r == i % size
    <3>1. i \in Nat /\ i < base + last
      BY <2>6, <2>2
    <3>2. q \in Nat /\ r \in 0..size - 1 /\ i = size * q + r
      BY <3>1, Division
    <3>3. q < m
      <4>1. i < size * m
        BY <3>1, <2>6
      <4> QED BY <4>1, <3>1, <1>1, DivisionLess
    <3> HIDE DEF q, r
    <3>4. CASE q = m - 1
      <4>1. r < Len(b.chunks[m])
        <5>1. i = base + r
          BY <3>2, <3>4 DEF base
        <5> QED BY <5>1, <3>1, <3>2, <2>6 DEF last
      <4>2. q + 1 = m
        BY <3>4, <1>1
      <4>3. q + 1 \in 1..m /\ r + 1 \in 1..Len(b.chunks[q + 1])
        BY <4>1, <4>2, <3>2, <2>1
      <4>4. b.chunks[q + 1][r + 1] \in Nat
        BY <4>3, <1>1, ElementOfSeq
      <4> QED BY <4>3, <4>4 DEF q, r, ByteAt
    <3>5. CASE q < m - 1
      <4>1. Len(b.chunks[q + 1]) = size /\ q + 1 \in 1..m
        BY <3>5, <3>2, <1>1 DEF IsChunks
      <4>2. r + 1 \in 1..Len(b.chunks[q + 1])
        BY <4>1, <3>2
      <4>3. b.chunks[q + 1][r + 1] \in Nat
        BY <4>1, <4>2, <1>1, ElementOfSeq
      <4> QED BY <4>1, <4>2, <4>3 DEF q, r, ByteAt
    <3> QED BY <3>2, <3>3, <3>4, <3>5, <1>1
  <2>4. b.skip <= ChunkBytes(b, size)
    BY <2>2, <2>6, <1>1 DEF IsChunks
  <2> QED BY <1>1, <2>6, <2>2, <2>3, <2>4 DEF ChunkData
<1> QED BY <1>2, <1>3

LEMMA ChunkContentsAre ==
  ASSUME NEW size \in Nat \ {0}, NEW b, IsChunks(b, size)
  PROVE  /\ ChunkContents(b, size) \in Seq(Nat) /\ Len(ChunkContents(b, size)) = ChunkData(b, size)
         /\ \A k \in 1..ChunkData(b, size) : ChunkContents(b, size)[k] = ByteAt(b, size, b.skip + k - 1)
<1> DEFINE n == ChunkData(b, size)
           f(k) == ByteAt(b, size, b.skip + k - 1)
<1>1. n \in Nat /\ b.skip \in Nat /\ n = ChunkBytes(b, size) - b.skip /\ ChunkBytes(b, size) \in Nat
  BY ChunksAre DEF ChunkData
<1>2. \A k \in 1..n : f(k) \in Nat
  <2> TAKE k \in 1..n
  <2>1. b.skip + k - 1 \in 0..ChunkBytes(b, size) - 1
    BY <1>1
  <2> HIDE DEF n
  <2> QED BY <2>1, ChunksAre
<1>3. ChunkContents(b, size) = [k \in 1..n |-> f(k)]
  BY DEF ChunkContents, ByteAt
<1> HIDE DEF n, f
<1>4. [k \in 1..n |-> f(k)] \in Seq(Nat) /\ Len([k \in 1..n |-> f(k)]) = n
  BY <1>1, <1>2
<1>5. \A k \in 1..n : ChunkContents(b, size)[k] = f(k)
  BY <1>3
<1> QED BY <1>3, <1>4, <1>5 DEF n, f

\* A buffer is empty when it holds nothing.
LEMMA EmptyChunks ==
  ASSUME NEW size \in Nat \ {0}, NEW b, IsChunks(b, size)
  PROVE  IsEmpty(b) <=> ChunkData(b, size) = 0
<1>1. /\ b.chunks \in Seq(Seq(Nat)) /\ b.skip \in Nat /\ Len(b.chunks) \in Nat
      /\ ChunkBytes(b, size) \in Nat /\ \A i \in 1..Len(b.chunks) : b.chunks[i] \in Seq(Nat)
  BY ChunksAre
<1>2. CASE b.chunks = <<>>
  BY <1>1, <1>2 DEF IsEmpty, ChunkData, ChunkBytes, IsChunks
<1>3. CASE b.chunks # <<>>
  <2> DEFINE m == Len(b.chunks)
  <2>1. m >= 1 /\ b.chunks[m] \in Seq(Nat) /\ Len(b.chunks[m]) \in Nat
    BY <1>1, <1>3
  <2>5. size * (m - 1) >= m - 1 /\ (m - 1) * size = size * (m - 1) /\ size * (m - 1) \in Nat
    <3>1. m - 1 \in Nat /\ size \in Nat /\ size > 0
      BY <2>1, <1>1
    <3> HIDE DEF m
    <3> QED BY <3>1, Product
  <2>2. ChunkBytes(b, size) = size * (m - 1) + Len(b.chunks[m]) /\ size * (m - 1) >= m - 1
    BY <2>5, <1>3 DEF ChunkBytes
  <2>3. ASSUME ChunkData(b, size) = 0 PROVE b.chunks = <<<<>>>>
    <3>1. ChunkBytes(b, size) = 0
      BY <2>3, <1>1 DEF ChunkData, IsChunks
    <3>2. m = 1 /\ Len(b.chunks[1]) = 0
      <4>1. m - 1 = 0 /\ Len(b.chunks[m]) = 0
        <5> DEFINE base == size * (m - 1)
                   last == Len(b.chunks[m])
        <5>1. base >= m - 1 /\ base \in Nat /\ base + last = 0
          BY <3>1, <2>2, <2>5
        <5>2. m >= 1 /\ m \in Nat /\ last \in Nat
          BY <2>1, <1>1
        <5> HIDE DEF base, last, m
        <5>3. m - 1 = 0 /\ last = 0
          BY <5>1, <5>2
        <5> QED BY <5>3 DEF last
      <4> QED BY <4>1, <1>1
    <3>3. b.chunks[1] = <<>>
      BY <3>2, <1>1, EmptySeq
    <3> QED BY <3>2, <3>3, <1>1
  <2>4. ASSUME b.chunks = <<<<>>>> PROVE ChunkData(b, size) = 0
    BY <2>4, <1>1 DEF ChunkData, ChunkBytes, IsChunks
  <2> QED BY <2>3, <2>4, <1>3 DEF IsEmpty
<1> QED BY <1>2, <1>3

\* The buffer's last chunk and the full ones in front of it.
LEMMA ChunksSplit ==
  ASSUME NEW size \in Nat \ {0}, NEW b, IsChunks(b, size), b.chunks # <<>>
  PROVE  /\ Len(b.chunks) - 1 \in Nat /\ b.chunks[Len(b.chunks)] \in Seq(Nat)
         /\ Len(b.chunks[Len(b.chunks)]) \in 0..size - 1
         /\ size * (Len(b.chunks) - 1) \in Nat
         /\ ChunkBytes(b, size) = size * (Len(b.chunks) - 1) + Len(b.chunks[Len(b.chunks)])
<1> DEFINE m == Len(b.chunks)
<1>1. m - 1 \in Nat /\ b.chunks[m] \in Seq(Nat)
  BY ChunksAre
<1>2. Len(b.chunks[m]) \in 0..size - 1
  BY <1>1 DEF IsChunks
<1>3. size * (m - 1) \in Nat /\ (m - 1) * size = size * (m - 1)
  <2> HIDE DEF m
  <2> QED BY <1>1, Product
<1> QED BY <1>1, <1>2, <1>3 DEF ChunkBytes

\* A sequence cut into chunks: all full but the last, which has room.
Cut(tail, size) ==
  [k \in 1..(Len(tail) \div size) + 1 |->
     SubSeq(tail, (k - 1) * size + 1, Smaller(k * size, Len(tail)))]

LEMMA CutIs ==
  ASSUME NEW size \in Nat \ {0}, NEW tail \in Seq(Nat)
  PROVE  LET n == (Len(tail) \div size) + 1
         IN  /\ Cut(tail, size) \in Seq(Seq(Nat)) /\ Len(Cut(tail, size)) = n /\ n \in Nat \ {0}
             /\ \A k \in 1..n - 1 : Len(Cut(tail, size)[k]) = size
             /\ Len(Cut(tail, size)[n]) = Len(tail) % size
             /\ \A i \in 0..Len(tail) - 1 :
                  /\ (i \div size) + 1 \in 1..n
                  /\ Cut(tail, size)[(i \div size) + 1][(i % size) + 1] = tail[i + 1]
<1> DEFINE t == Len(tail)
           q == t \div size
           n == q + 1
           c(k) == SubSeq(tail, (k - 1) * size + 1, Smaller(k * size, t))
<1>1. t \in Nat /\ q \in Nat /\ t % size \in 0..size - 1 /\ t = size * q + (t % size)
  <2>1. t \in Nat
    OBVIOUS
  <2> HIDE DEF t
  <2> QED BY <2>1, Division
<1>2. ASSUME NEW k \in 1..n
      PROVE  /\ c(k) \in Seq(Nat)
             /\ Len(c(k)) = IF k < n THEN size ELSE t % size
             /\ \A r \in 0..Len(c(k)) - 1 : c(k)[r + 1] = tail[size * (k - 1) + r + 1]
  <2> DEFINE low == size * (k - 1)
             up == Smaller(k * size, t)
  <2>1. low \in Nat /\ (k - 1) * size = low /\ k * size = low + size
    <3>1. k - 1 \in Nat /\ (k - 1) + 1 = k
      BY <1>1
    <3>2. size * (k - 1) \in Nat /\ (k - 1) * size = size * (k - 1) /\ size * ((k - 1) + 1) = size * (k - 1) + size
      BY <3>1, Product
    <3> QED BY <3>1, <3>2
  <2>2. k < n => low + size <= t
    <3>1. SUFFICES ASSUME k < n PROVE ~(t < size * k)
      BY <2>1, <1>1
    <3>2. k \in Nat /\ ~(q < k)
      BY <3>1, <1>1
    <3> QED BY <3>2, <1>1, DivisionLess
  <2>3. k = n => low + (t % size) = t
    BY <1>1
  <2> HIDE DEF low
  <2>4. /\ low \in 0..t /\ up \in low..t
        /\ up - low = IF k < n THEN size ELSE t % size
    <3> DEFINE rest == t % size
    <3>1. rest \in 0..size - 1 /\ t \in Nat /\ k \in 1..n /\ n \in Nat /\ (k = n => low + rest = t)
      BY <2>3, <1>1
    <3>2. up = IF low + size < t THEN low + size ELSE t
      BY <2>1 DEF Smaller
    <3> HIDE DEF rest, up, n, t
    <3>3. low \in 0..t /\ up \in low..t /\ up - low = IF k < n THEN size ELSE rest
      BY <3>1, <3>2, <2>1, <2>2
    <3> QED BY <3>3 DEF rest
  <2>5. c(k) = SubSeq(tail, low + 1, up)
    BY <2>1
  <2> HIDE DEF up, c
  <2>6. c(k) \in Seq(Nat) /\ Len(c(k)) = up - low /\ \A j \in 1..up - low : c(k)[j] = tail[low + j]
    BY <2>4, <2>5, PartOf
  <2>7. ASSUME NEW r \in 0..Len(c(k)) - 1 PROVE c(k)[r + 1] = tail[low + r + 1]
    <3>1. r + 1 \in 1..up - low /\ low + (r + 1) = low + r + 1
      BY <2>4, <2>6, <1>1
    <3> QED BY <3>1, <2>6
  <2> QED BY <2>4, <2>6, <2>7 DEF low
<1>3. Cut(tail, size) = [k \in 1..n |-> c(k)]
  BY DEF Cut
<1> HIDE DEF c, n
<1>4. n \in Nat \ {0} /\ n = q + 1
  BY <1>1 DEF n
<1>5. /\ Cut(tail, size) \in Seq(Seq(Nat)) /\ Len(Cut(tail, size)) = n
      /\ \A k \in 1..n : Cut(tail, size)[k] = c(k)
  <2>1. \A k \in 1..n : c(k) \in Seq(Nat)
    BY <1>2
  <2>2. [k \in 1..n |-> c(k)] \in Seq(Seq(Nat)) /\ Len([k \in 1..n |-> c(k)]) = n
    BY <2>1, <1>4
  <2> QED BY <2>2, <1>3
<1>6. ASSUME NEW i \in 0..t - 1
      PROVE  /\ (i \div size) + 1 \in 1..n
             /\ Cut(tail, size)[(i \div size) + 1][(i % size) + 1] = tail[i + 1]
  <2> DEFINE p == i \div size
             r == i % size
  <2>1. i \in Nat /\ p \in Nat /\ r \in 0..size - 1 /\ i = size * p + r
    <3>1. i \in Nat
      BY <1>1
    <3> QED BY <3>1, Division
  <2>2. p < n
    <3>1. size * n = size * q + size /\ size * q \in Nat
      BY <1>1, <1>4, Product
    <3> DEFINE a == size * q
               u == size * n
    <3>2. t = a + (t % size) /\ u = a + size /\ a \in Nat
      BY <3>1, <1>1
    <3> HIDE DEF a, u
    <3>3. i < u
      BY <3>2, <1>1
    <3> QED BY <3>3, <2>1, <1>4, DivisionLess DEF u
  <2> HIDE DEF p, r
  <2>3. p + 1 \in 1..n /\ (p + 1) - 1 = p
    BY <2>1, <2>2, <1>4
  <2>4. r < Len(c(p + 1))
    <3>1. Len(c(p + 1)) = IF p + 1 < n THEN size ELSE t % size
      BY <2>3, <1>2
    <3>2. CASE p + 1 = n
      <4>1. p = q
        BY <3>2, <1>4, <2>1, <1>1
      <4> DEFINE a == size * q
      <4>2. i = a + r /\ t = a + (t % size) /\ a \in Nat
        BY <4>1, <2>1, <1>1, Product
      <4> HIDE DEF a
      <4>3. r < t % size
        BY <4>2, <2>1, <1>1
      <4> QED BY <4>3, <3>1, <3>2, <1>4
    <3> QED BY <3>1, <3>2, <2>1, <2>3, <1>4
  <2>5. r \in 0..Len(c(p + 1)) - 1
    <3>1. Len(c(p + 1)) \in Nat
      BY <2>3, <1>2
    <3> QED BY <3>1, <2>1, <2>4
  <2>6. c(p + 1)[r + 1] = tail[size * ((p + 1) - 1) + r + 1]
    BY <2>3, <2>5, <1>2
  <2>7. c(p + 1)[r + 1] = tail[i + 1]
    BY <2>6, <2>3, <2>1
  <2> QED BY <2>3, <2>7, <1>5 DEF p, r
<1> HIDE DEF q, t
<1>7. ASSUME NEW k \in 1..n - 1 PROVE Len(Cut(tail, size)[k]) = size
  <2>1. k \in 1..n /\ k < n
    BY <1>4
  <2>2. Len(c(k)) = size
    BY <2>1, <1>2
  <2> QED BY <2>1, <2>2, <1>5
<1>8. Len(Cut(tail, size)[n]) = t % size
  BY <1>2, <1>4, <1>5
<1> QED BY <1>4, <1>5, <1>6, <1>7, <1>8 DEF n, q, t

\* What append makes of the places: those that were taken stay, the bytes come behind them.
\* Here front are the full chunks, last is the chunk with room, more what it becomes with d.
ChunksMeet(size, base, k, front, more, last, d, tail, chunks) ==
  /\ base \in Nat /\ k \in Nat /\ last \in Seq(Nat) /\ d \in Seq(Nat) /\ tail \in Seq(Nat)
  /\ Len(last) < size /\ Len(tail) = Len(last) + Len(d)
  /\ \A j \in 1..Len(tail) : tail[j] = IF j <= Len(last) THEN last[j] ELSE d[j - Len(last)]
  /\ \A i \in 0..Len(tail) - 1 : (i \div size) + 1 \in 1..k + 1
                               /\ more[(i \div size) + 1][(i % size) + 1] = tail[i + 1]
  /\ \A j \in 1..base + k + 1 : chunks[j] = IF j <= base THEN front[j] ELSE more[j - base]

InPlace(size, base, front, last, d, chunks) ==
  \A i \in 0..size * base + Len(last) + Len(d) - 1 :
    chunks[(i \div size) + 1][(i % size) + 1] =
      IF i < size * base THEN front[(i \div size) + 1][(i % size) + 1]
      ELSE IF i < size * base + Len(last) THEN last[(i % size) + 1]
      ELSE d[i - (size * base + Len(last)) + 1]

LEMMA ChunksMeetPlaces ==
  ASSUME NEW size \in Nat \ {0}, NEW base, NEW k, NEW front, NEW more, NEW last, NEW d, NEW tail, NEW chunks,
         ChunksMeet(size, base, k, front, more, last, d, tail, chunks)
  PROVE  InPlace(size, base, front, last, d, chunks)
<1> SUFFICES \A i \in 0..size * base + Len(last) + Len(d) - 1 :
               chunks[(i \div size) + 1][(i % size) + 1] =
                 IF i < size * base THEN front[(i \div size) + 1][(i % size) + 1]
                 ELSE IF i < size * base + Len(last) THEN last[(i % size) + 1]
                 ELSE d[i - (size * base + Len(last)) + 1]
  BY DEF InPlace
<1> TAKE i \in 0..size * base + Len(last) + Len(d) - 1
<1> DEFINE q == i \div size
           r == i % size
           u == size * base
           z == Len(last)
           e == Len(d)
<1>0. /\ base \in Nat /\ k \in Nat /\ last \in Seq(Nat) /\ d \in Seq(Nat) /\ tail \in Seq(Nat)
      /\ z < size /\ Len(tail) = z + e
  BY DEF ChunksMeet
<1>1. u \in Nat /\ z \in 0..size - 1 /\ e \in Nat /\ Len(tail) = z + e
  <2>1. u \in Nat
    BY <1>0, Product
  <2>2. z \in 0..size - 1 /\ e \in Nat
    <3>1. z \in Nat /\ e \in Nat /\ size \in Nat /\ z < size
      BY <1>0
    <3> HIDE DEF z, e, u
    <3> QED BY <3>1
  <2> QED BY <2>1, <2>2, <1>0
<1>2. i \in Nat /\ i <= u + z + e - 1
  <2> HIDE DEF u, z, e
  <2> QED BY <1>1 DEF u, z, e
<1>3. q \in Nat /\ r \in 0..size - 1 /\ i = size * q + r
  BY <1>2, Division
<1>4. i < u <=> q < base
  BY <1>0, <1>2, DivisionLess
<1>5. CASE i < u
  <2>1. q + 1 \in 1..base + k + 1 /\ q + 1 <= base
    <3> HIDE DEF q, u
    <3> QED BY <1>0, <1>3, <1>4, <1>5
  <2>2. chunks[q + 1] = front[q + 1]
    <3> HIDE DEF q
    <3>1. \A x \in 1..base + k + 1 : x <= base => chunks[x] = front[x]
      BY DEF ChunksMeet
    <3> QED BY <3>1, <2>1
  <2> QED BY <2>2, <1>5
<1>6. CASE ~(i < u)
  <2>1. PICK j \in Nat : i = j + u
    <3> HIDE DEF u
    <3>1. i - u \in Nat /\ i = (i - u) + u
      BY <1>1, <1>2, <1>6
    <3> QED BY <3>1
  <2>2. q = (j \div size) + base /\ r = j % size
    BY <1>0, <2>1, DivisionPlus
  <2>3. j \in 0..Len(tail) - 1
    <3> HIDE DEF u, z, e
    <3> QED BY <2>1, <1>1, <1>2
  <2>4. (j \div size) + 1 \in 1..k + 1 /\ more[(j \div size) + 1][(j % size) + 1] = tail[j + 1]
    BY <2>3 DEF ChunksMeet
  <2> DEFINE p == j \div size
  <2>5. p \in Nat
    BY Division
  <2> HIDE DEF p
  <2>6. q + 1 \in 1..base + k + 1 /\ ~(q + 1 <= base) /\ (q + 1) - base = p + 1
    <3>1. q = p + base /\ p + 1 \in 1..k + 1
      BY <2>2, <2>4 DEF p
    <3> HIDE DEF q
    <3> QED BY <3>1, <2>5, <1>0
  <2>7. chunks[q + 1][r + 1] = tail[j + 1]
    <3>1. chunks[q + 1] = more[p + 1]
      <4> HIDE DEF q
      <4>1. \A x \in 1..base + k + 1 : ~(x <= base) => chunks[x] = more[x - base]
        BY DEF ChunksMeet
      <4> QED BY ONLY <4>1, <2>6
    <3> QED BY <3>1, <2>2, <2>4 DEF p
  <2>8. tail[j + 1] = IF j + 1 <= z THEN last[j + 1] ELSE d[(j + 1) - z]
    <3> DEFINE x == j + 1
    <3>1. x \in 1..Len(tail)
      BY <2>3, <1>0, <1>1
    <3>2. \A y \in 1..Len(tail) : tail[y] = IF y <= z THEN last[y] ELSE d[y - z]
      BY DEF ChunksMeet
    <3> HIDE DEF x, z
    <3>3. tail[x] = IF x <= z THEN last[x] ELSE d[x - z]
      BY <3>1, <3>2
    <3> QED BY <3>3 DEF x
  <2>9. CASE i < u + z
    <3>1. j < z /\ j \in 0..size - 1
      <4> HIDE DEF u, z
      <4> QED BY <2>1, <2>9, <1>1
    <3>2. j % size = j
      <4>1. size * 0 + j = j
        BY <3>1
      <4>2. (size * 0 + j) % size = j
        BY <3>1, DivisionIs
      <4> QED BY <4>1, <4>2
    <3>3. tail[j + 1] = last[j + 1]
      <4> HIDE DEF z
      <4>1. j + 1 <= z
        BY <3>1, <1>1
      <4> QED BY <4>1, <2>8
    <3> QED BY <3>2, <3>3, <2>2, <2>7, <2>9, <1>6
  <2>10. CASE ~(i < u + z)
    <3>1. ~(j + 1 <= z) /\ (j + 1) - z = i - (u + z) + 1
      <4> HIDE DEF u, z
      <4> QED BY <2>1, <2>10, <1>1
    <3>2. tail[j + 1] = d[i - (u + z) + 1]
      <4> HIDE DEF u, z
      <4> QED BY <3>1, <2>8
    <3> QED BY <3>2, <2>7, <2>10, <1>6
  <2> QED BY <2>9, <2>10
<1> QED BY <1>5, <1>6

LEMMA FrontChunks ==
  ASSUME NEW c \in Seq(Seq(Nat)), NEW j \in 0..Len(c)
  PROVE  /\ SubSeq(c, 1, j) \in Seq(Seq(Nat)) /\ Len(SubSeq(c, 1, j)) = j
         /\ \A k \in 1..j : SubSeq(c, 1, j)[k] = c[k]
<1> DEFINE T == Seq(Nat)
<1> HIDE DEF T
<1>1. c \in Seq(T) /\ \A k \in 1..Len(c) : c[k] \in T
  BY ElementOfSeq DEF T
<1>2. 1 \in Int /\ j \in Int /\ \A k \in 1..j : c[k] \in T
  BY <1>1
<1>3. /\ SubSeq(c, 1, j) \in Seq(T) /\ Len(SubSeq(c, 1, j)) = IF 1 <= j THEN j - 1 + 1 ELSE 0
      /\ \A k \in 1..j - 1 + 1 : SubSeq(c, 1, j)[k] = c[1 + k - 1]
  BY <1>1, <1>2, SubSeqProperties
<1> QED BY <1>3 DEF T

LEMMA AppendedPlaces ==
  ASSUME NEW size \in Nat \ {0}, NEW b, IsChunks(b, size), NEW d \in Seq(Nat)
  PROVE  LET a == Appended(b, size, d)
             n == ChunkBytes(b, size)
         IN  /\ IsChunks(a, size) /\ a.skip = b.skip
             /\ ChunkBytes(a, size) = n + Len(d)
             /\ \A i \in 0..n + Len(d) - 1 :
                  ByteAt(a, size, i) = IF i < n THEN ByteAt(b, size, i) ELSE d[i - n + 1]
<1> DEFINE m == Len(b.chunks)
           base == IF m = 0 THEN 0 ELSE m - 1
           last == IF m = 0 THEN <<>> ELSE b.chunks[m]
           tail == last \o d
           more == Cut(tail, size)
           k == Len(tail) \div size
           front == SubSeq(b.chunks, 1, m - 1)
           a == Appended(b, size, d)
           n == ChunkBytes(b, size)
<1>1. /\ b.chunks \in Seq(Seq(Nat)) /\ b.skip \in Nat /\ b = [chunks |-> b.chunks, skip |-> b.skip]
      /\ m \in Nat /\ n \in Nat
  BY ChunksAre
<1>2. /\ base \in Nat /\ size * base \in Nat /\ last \in Seq(Nat) /\ Len(last) \in 0..size - 1
      /\ n = size * base + Len(last)
      /\ m = 0 => base = 0 /\ last = <<>>
      /\ m # 0 => base = m - 1 /\ last = b.chunks[m]
  <2>1. CASE m = 0
    <3>1. b.chunks = <<>> /\ size * 0 = 0
      BY <2>1, <1>1, EmptySeq
    <3>2. n = 0 /\ Len(<<>>) = 0
      BY <3>1 DEF ChunkBytes
    <3> HIDE DEF n
    <3> QED BY <3>1, <3>2, <2>1
  <2>2. CASE m # 0
    <3>1. b.chunks # <<>>
      BY <2>2
    <3>2. /\ m - 1 \in Nat /\ b.chunks[m] \in Seq(Nat) /\ Len(b.chunks[m]) \in 0..size - 1
          /\ size * (m - 1) \in Nat /\ n = size * (m - 1) + Len(b.chunks[m])
      BY <3>1, ChunksSplit
    <3> HIDE DEF n, m
    <3> QED BY <3>2, <2>2
  <2> QED BY <2>1, <2>2
<1>3. front = SubSeq(b.chunks, 1, base) /\ base \in 0..Len(b.chunks)
  <2>1. CASE m = 0
    <3>1. b.chunks = <<>>
      BY <2>1, <1>1, EmptySeq
    <3> QED BY <2>1, <3>1
  <2>2. CASE m # 0
    BY <2>2, <1>1
  <2> QED BY <2>1, <2>2
<1>4. a = [chunks |-> front \o more, skip |-> b.skip]
  <2>1. a = [b EXCEPT !.chunks = front \o more]
    BY <1>1 DEF Appended, Cut
  <2> HIDE DEF front, more, a
  <2> QED BY <2>1, <1>1
<1>5. /\ front \in Seq(Seq(Nat)) /\ Len(front) = base /\ \A j \in 1..base : front[j] = b.chunks[j]
  <2> HIDE DEF base, front
  <2> QED BY <1>1, <1>3, FrontChunks
<1> HIDE DEF base, last, front, a, n
<1>6. /\ tail \in Seq(Nat) /\ Len(tail) = Len(last) + Len(d)
      /\ \A j \in 1..Len(tail) : tail[j] = IF j <= Len(last) THEN last[j] ELSE d[j - Len(last)]
  <2>1. last \in Seq(Nat)
    BY <1>2
  <2> QED BY <2>1, ConcatOf
<1> HIDE DEF tail
<1>7. /\ more \in Seq(Seq(Nat)) /\ Len(more) = k + 1 /\ k + 1 \in Nat \ {0}
      /\ \A i \in 1..(k + 1) - 1 : Len(more[i]) = size
      /\ Len(more[k + 1]) = Len(tail) % size
      /\ \A i \in 0..Len(tail) - 1 : (i \div size) + 1 \in 1..k + 1
                                   /\ more[(i \div size) + 1][(i % size) + 1] = tail[i + 1]
  BY <1>6, CutIs
<1>8. k \in Nat /\ Len(tail) = size * k + (Len(tail) % size) /\ Len(tail) % size \in 0..size - 1
  <2>1. Len(tail) \in Nat
    BY <1>6
  <2> QED BY <2>1, Division
<1> HIDE DEF k, more, m
<1>9. (k + 1) - 1 = k
  BY <1>8
<1>10. /\ a.chunks \in Seq(Seq(Nat)) /\ Len(a.chunks) = base + k + 1 /\ a.skip = b.skip
       /\ \A j \in 1..base + k + 1 : a.chunks[j] = IF j <= base THEN b.chunks[j] ELSE more[j - base]
  <2>1. a.chunks = front \o more /\ a.skip = b.skip
    BY <1>4
  <2>2. /\ front \o more \in Seq(Seq(Nat)) /\ Len(front \o more) = Len(front) + Len(more)
        /\ \A j \in 1..Len(front) + Len(more) :
             (front \o more)[j] = IF j <= Len(front) THEN front[j] ELSE more[j - Len(front)]
    <3> DEFINE T == Seq(Nat)
    <3> HIDE DEF T
    <3>1. front \in Seq(T) /\ more \in Seq(T)
      BY <1>5, <1>7 DEF T
    <3> QED BY <3>1, ConcatProperties DEF T
  <2>3. Len(front) = base /\ Len(front) + Len(more) = base + k + 1
    BY <1>2, <1>5, <1>7, <1>8
  <2>4. \A j \in 1..base + k + 1 : (front \o more)[j] = IF j <= base THEN front[j] ELSE more[j - base]
    BY <2>2, <2>3
  <2>5. \A j \in 1..base + k + 1 : j <= base => front[j] = b.chunks[j]
    BY <1>2, <1>5, <1>8
  <2> QED BY <2>1, <2>2, <2>3, <2>4, <2>5
<1>11. a.chunks # <<>> /\ a.chunks[Len(a.chunks)] = more[k + 1]
  <2>1. base + k + 1 \in 1..base + k + 1 /\ ~(base + k + 1 <= base) /\ (base + k + 1) - base = k + 1
    BY <1>2, <1>8
  <2>2. a.chunks # <<>>
    BY <2>1, <1>10
  <2> QED BY <2>1, <2>2, <1>10
<1> DEFINE u == size * base
           v == size * k
           w == Len(tail) % size
<1>12. u \in Nat /\ v \in Nat /\ w \in 0..size - 1 /\ Len(tail) = v + w /\ n = u + Len(last)
  BY <1>2, <1>8, Product
<1>13. ChunkBytes(a, size) = n + Len(d)
  <2>1. ChunkBytes(a, size) = (base + k) * size + w
    <3>1. ChunkBytes(a, size) = (Len(a.chunks) - 1) * size + Len(a.chunks[Len(a.chunks)])
      BY <1>11 DEF ChunkBytes
    <3>2. Len(a.chunks) - 1 = base + k
      BY <1>10, <1>2, <1>8
    <3> QED BY <3>1, <3>2, <1>11, <1>7
  <2>2. (base + k) * size = u + v
    BY <1>2, <1>8
  <2>3. Len(last) \in Nat /\ Len(d) \in Nat /\ Len(tail) = Len(last) + Len(d)
    BY <1>2, <1>6
  <2> HIDE DEF u, v, w
  <2> QED BY <2>1, <2>2, <2>3, <1>12
<1>14. IsChunks(a, size)
  <2>1. a \in [chunks : Seq(Seq(Nat)), skip : Nat]
    BY <1>4, <1>10, <1>1
  <2>2. ASSUME NEW i \in 1..Len(a.chunks) - 1 PROVE Len(a.chunks[i]) = size
    <3>1. i \in 1..base + k /\ i \in 1..base + k + 1
      BY <1>10, <1>2, <1>8
    <3>2. CASE i <= base
      <4>1. i \in 1..Len(b.chunks) - 1
        BY <3>1, <3>2, <1>1, <1>2 DEF m
      <4>2. Len(b.chunks[i]) = size
        BY <4>1 DEF IsChunks
      <4> QED BY <4>2, <3>1, <3>2, <1>10
    <3>3. CASE i > base
      <4>1. i - base \in 1..k /\ ~(i <= base)
        BY <3>1, <3>3, <1>2, <1>8
      <4>2. Len(more[i - base]) = size
        BY <4>1, <1>7, <1>9
      <4> QED BY <4>1, <4>2, <3>1, <1>10
    <3> QED BY <3>1, <3>2, <3>3, <1>2
  <2>3. Len(a.chunks[Len(a.chunks)]) < size
    BY <1>11, <1>12, <1>7
  <2>4. b.skip < size
    <3>1. CASE b.chunks = <<>>
      BY <3>1, <1>1 DEF IsChunks, ChunkBytes
    <3>2. CASE b.chunks # <<>>
      BY <3>2 DEF IsChunks
    <3> QED BY <3>1, <3>2
  <2>5. b.skip < n + Len(d) \/ (b.skip = 0 /\ n + Len(d) = 0)
    <3>1. b.skip < n \/ (b.skip = 0 /\ n = 0)
      BY DEF IsChunks, n
    <3> QED BY <3>1, <1>1
  <2> QED BY <2>1, <2>2, <2>3, <2>4, <2>5, <1>10, <1>13 DEF IsChunks
<1>15. ASSUME NEW i \in 0..n + Len(d) - 1
       PROVE  ByteAt(a, size, i) = IF i < n THEN ByteAt(b, size, i) ELSE d[i - n + 1]
  <2> DEFINE q == i \div size
             r == i % size
  <2>1. i \in Nat /\ q \in Nat /\ r \in 0..size - 1 /\ i = size * q + r
    <3>1. i \in Nat
      BY <1>1
    <3> QED BY <3>1, Division
  <2>2. a.chunks[q + 1][r + 1] =
          IF i < u THEN b.chunks[q + 1][r + 1]
          ELSE IF i < u + Len(last) THEN last[r + 1] ELSE d[i - (u + Len(last)) + 1]
    <3> DEFINE old == b.chunks
               all == a.chunks
    <3>1. i \in 0..size * base + Len(last) + Len(d) - 1
      BY <1>12
    <3>2. Len(last) < size
      BY <1>2
    <3>3. \A j \in 1..base + k + 1 : all[j] = IF j <= base THEN old[j] ELSE more[j - base]
      BY <1>10
    <3> HIDE DEF old, all
    <3>5. ChunksMeet(size, base, k, old, more, last, d, tail, all)
      BY <3>2, <3>3, <1>2, <1>6, <1>7, <1>8 DEF ChunksMeet
    <3>4. all[q + 1][r + 1] =
            IF i < u THEN old[q + 1][r + 1]
            ELSE IF i < u + Len(last) THEN last[r + 1] ELSE d[i - (u + Len(last)) + 1]
      <4>1. InPlace(size, base, old, last, d, all)
        BY <3>5, ChunksMeetPlaces
      <4> QED BY <3>1, <4>1 DEF InPlace
    <3> QED BY <3>4 DEF old, all
  <2>3. ~(i < u) /\ i < n => last[r + 1] = b.chunks[q + 1][r + 1]
    <3> SUFFICES ASSUME ~(i < u), i < n PROVE last = b.chunks[q + 1]
      OBVIOUS
    <3>1. m # 0
      <4> HIDE DEF u
      <4>1. Len(last) # 0
        BY <1>12, <1>2, <2>1
      <4> QED BY <4>1, <1>2
    <3>2. ~(q < base)
      BY <2>1, <1>2, DivisionLess
    <3>3. q < base + 1
      <4>1. size * (base + 1) = u + size
        BY <1>2, Product
      <4>2. i < size * (base + 1)
        <5> DEFINE x == size * (base + 1)
        <5>1. x = u + size /\ i < n /\ n = u + Len(last) /\ Len(last) \in 0..size - 1 /\ u \in Nat
          BY <4>1, <1>12, <1>2
        <5> HIDE DEF u, x
        <5>2. i < x
          BY <5>1, <2>1
        <5> QED BY <5>2 DEF x
      <4> QED BY <4>2, <2>1, <1>2, DivisionLess
    <3>4. q + 1 = m
      <4>1. q \in Nat /\ base \in Nat /\ base = m - 1 /\ m \in Nat
        BY <3>1, <2>1, <1>1, <1>2 DEF m
      <4> HIDE DEF q
      <4> QED BY <3>2, <3>3, <4>1
    <3> QED BY <3>1, <3>4, <1>2
  <2>4. ByteAt(a, size, i) = a.chunks[q + 1][r + 1] /\ ByteAt(b, size, i) = b.chunks[q + 1][r + 1]
    BY DEF ByteAt
  <2>5. i < u => i < n
    <3> HIDE DEF u
    <3> QED BY <1>12, <1>2, <2>1
  <2>6. n = u + Len(last)
    BY <1>12
  <2> HIDE DEF u, q, r
  <2> QED BY <2>2, <2>3, <2>4, <2>5, <2>6
<1> QED BY <1>10, <1>13, <1>14, <1>15 DEF a, n

\* append puts the bytes behind those the buffer holds, over as many chunks as it takes.
THEOREM ChunkAppends ==
  ASSUME NEW size \in Nat \ {0}, NEW b, IsChunks(b, size), NEW d \in Seq(Nat)
  PROVE  LET a == Appended(b, size, d)
         IN  /\ IsChunks(a, size) /\ ChunkData(a, size) = ChunkData(b, size) + Len(d)
             /\ ChunkContents(a, size) = ChunkContents(b, size) \o d
<1> DEFINE a == Appended(b, size, d)
           n == ChunkBytes(b, size)
           old == ChunkContents(b, size)
           new == ChunkContents(a, size)
<1>1. /\ IsChunks(a, size) /\ a.skip = b.skip /\ ChunkBytes(a, size) = n + Len(d)
      /\ \A i \in 0..n + Len(d) - 1 : ByteAt(a, size, i) = IF i < n THEN ByteAt(b, size, i) ELSE d[i - n + 1]
  BY AppendedPlaces
<1>2. n \in Nat /\ b.skip \in Nat /\ b.skip <= n /\ Len(d) \in Nat
  BY ChunksAre
<1>3. /\ old \in Seq(Nat) /\ Len(old) = n - b.skip
      /\ \A k \in 1..n - b.skip : old[k] = ByteAt(b, size, b.skip + k - 1)
  BY ChunkContentsAre DEF ChunkData
<1> HIDE DEF a
<1>4. /\ new \in Seq(Nat) /\ Len(new) = (n + Len(d)) - b.skip
      /\ \A k \in 1..(n + Len(d)) - b.skip : new[k] = ByteAt(a, size, b.skip + k - 1)
  <2>1. /\ new \in Seq(Nat) /\ Len(new) = ChunkData(a, size)
        /\ \A k \in 1..ChunkData(a, size) : new[k] = ByteAt(a, size, a.skip + k - 1)
    BY <1>1, ChunkContentsAre
  <2>2. ChunkData(a, size) = (n + Len(d)) - b.skip
    <3>1. ChunkBytes(a, size) = n + Len(d) /\ a.skip = b.skip
      BY <1>1
    <3>2. ChunkData(a, size) = ChunkBytes(a, size) - a.skip
      BY DEF ChunkData
    <3> QED BY <3>1, <3>2
  <2> HIDE DEF n, new
  <2> QED BY <2>1, <2>2, <1>1
<1> HIDE DEF n, old, new
<1>5. /\ old \o d \in Seq(Nat) /\ Len(old \o d) = Len(old) + Len(d)
      /\ \A k \in 1..Len(old) + Len(d) : (old \o d)[k] = IF k <= Len(old) THEN old[k] ELSE d[k - Len(old)]
  BY <1>3, ConcatOf
<1>6. ASSUME NEW k \in 1..(n + Len(d)) - b.skip PROVE new[k] = (old \o d)[k]
  <2>1. b.skip + k - 1 \in 0..n + Len(d) - 1 /\ k \in 1..Len(old) + Len(d)
    BY <1>2, <1>3
  <2>2. new[k] = IF b.skip + k - 1 < n THEN ByteAt(b, size, b.skip + k - 1) ELSE d[((b.skip + k - 1) - n) + 1]
    <3> DEFINE i == b.skip + k - 1
    <3>1. new[k] = ByteAt(a, size, i)
      BY <1>4
    <3>2. i \in 0..n + Len(d) - 1
      BY <2>1
    <3> HIDE DEF i
    <3>3. ByteAt(a, size, i) = IF i < n THEN ByteAt(b, size, i) ELSE d[i - n + 1]
      <4>1. \A x \in 0..n + Len(d) - 1 : ByteAt(a, size, x) = IF x < n THEN ByteAt(b, size, x) ELSE d[x - n + 1]
        BY <1>1
      <4> QED BY ONLY <3>2, <4>1
    <3>4. new[k] = IF i < n THEN ByteAt(b, size, i) ELSE d[i - n + 1]
      BY <3>1, <3>3
    <3> QED BY <3>4 DEF i
  <2>3. CASE b.skip + k - 1 < n
    <3>1. k \in 1..n - b.skip /\ k <= Len(old)
      BY <2>3, <1>2, <1>3
    <3> QED BY <3>1, <2>1, <2>2, <2>3, <1>3, <1>5
  <2>4. CASE ~(b.skip + k - 1 < n)
    <3>1. ~(k <= Len(old)) /\ k - Len(old) = ((b.skip + k - 1) - n) + 1
      BY <2>4, <1>2, <1>3
    <3> QED BY <3>1, <2>1, <2>2, <2>4, <1>5
  <2> QED BY <2>3, <2>4
<1>7. Len(new) = Len(old \o d) /\ Len(new) = (n + Len(d)) - b.skip
  BY <1>2, <1>3, <1>4, <1>5
<1>8. new = old \o d
  BY <1>4, <1>5, <1>6, <1>7, SameSeq
<1>9. ChunkData(a, size) = ChunkData(b, size) + Len(d)
  BY <1>1, <1>2 DEF ChunkData, n
<1> QED BY <1>1, <1>8, <1>9 DEF a, old, new

LEMMA NoChunksIs ==
  ASSUME NEW size \in Nat \ {0}
  PROVE  IsChunks(NoChunks, size) /\ ChunkData(NoChunks, size) = 0 /\ ChunkContents(NoChunks, size) = <<>>
<1>1. ChunkBytes(NoChunks, size) = 0 /\ ChunkData(NoChunks, size) = 0
  BY DEF NoChunks, ChunkBytes, ChunkData
<1>2. IsChunks(NoChunks, size)
  BY <1>1 DEF IsChunks, NoChunks
<1>3. ChunkContents(NoChunks, size) \in Seq(Nat) /\ Len(ChunkContents(NoChunks, size)) = 0
  BY <1>1, <1>2, ChunkContentsAre
<1> QED BY <1>1, <1>2, <1>3, EmptySeq

\* The rest of a sequence of chunks.
LEMMA RestChunks ==
  ASSUME NEW c \in Seq(Seq(Nat)), NEW j \in 0..Len(c)
  PROVE  /\ SubSeq(c, j + 1, Len(c)) \in Seq(Seq(Nat)) /\ Len(SubSeq(c, j + 1, Len(c))) = Len(c) - j
         /\ \A k \in 1..Len(c) - j : SubSeq(c, j + 1, Len(c))[k] = c[j + k]
<1> DEFINE T == Seq(Nat)
           n == Len(c)
<1> HIDE DEF T
<1>1. c \in Seq(T) /\ n \in Nat /\ \A k \in 1..n : c[k] \in T
  BY ElementOfSeq DEF T
<1>2. j + 1 \in Int /\ n \in Int /\ \A k \in j + 1..n : c[k] \in T
  BY <1>1
<1> HIDE DEF n
<1>3. /\ SubSeq(c, j + 1, n) \in Seq(T)
      /\ Len(SubSeq(c, j + 1, n)) = IF j + 1 <= n THEN n - (j + 1) + 1 ELSE 0
      /\ \A k \in 1..n - (j + 1) + 1 : SubSeq(c, j + 1, n)[k] = c[(j + 1) + k - 1]
  BY <1>1, <1>2, SubSeqProperties
<1>4. j \in 0..n
  BY DEF n
<1>5. Len(SubSeq(c, j + 1, n)) = n - j /\ n - (j + 1) + 1 = n - j
  BY <1>1, <1>3, <1>4
<1>6. \A k \in 1..n - j : (j + 1) + k - 1 = j + k
  BY <1>1, <1>4
<1> QED BY <1>3, <1>5, <1>6 DEF T, n

\* What skip leaves: with the whole chunks in front dropped, every place moves down by theirs.
LEMMA SkippedPlaces ==
  ASSUME NEW size \in Nat \ {0}, NEW b, IsChunks(b, size), NEW out \in Nat,
         b.skip + out < ChunkBytes(b, size)
  PROVE  LET a == Skipped(b, size, out)
             gone == b.skip + out
             g == gone \div size
         IN  /\ IsChunks(a, size) /\ a.skip = gone % size
             /\ ChunkBytes(a, size) = ChunkBytes(b, size) - size * g
             /\ \A i \in 0..ChunkBytes(a, size) - 1 : ByteAt(a, size, i) = ByteAt(b, size, i + size * g)
<1> DEFINE a == Skipped(b, size, out)
           gone == b.skip + out
           g == gone \div size
           m == Len(b.chunks)
           n == ChunkBytes(b, size)
           v == size * g
           last == Len(b.chunks[m])
<1>1. /\ b.chunks \in Seq(Seq(Nat)) /\ b.skip \in Nat /\ m \in Nat /\ n \in Nat
      /\ gone \in Nat /\ gone \in 0..n - 1
  <2>1. b.chunks \in Seq(Seq(Nat)) /\ b.skip \in Nat /\ m \in Nat /\ n \in Nat
    BY ChunksAre
  <2> HIDE DEF n, m
  <2>2. gone < n
    BY DEF n
  <2> QED BY <2>1, <2>2
<1>2. a = [chunks |-> SubSeq(b.chunks, g + 1, m), skip |-> gone % size]
  <2>1. ~(gone >= ChunkBytes(b, size))
    BY <1>1
  <2> QED BY <2>1 DEF Skipped
<1> HIDE DEF a, n
<1>3. g \in Nat /\ gone % size \in 0..size - 1 /\ gone = v + (gone % size)
  <2> HIDE DEF gone
  <2> QED BY <1>1, Division
<1>4. g + 1 \in 1..m
  <2> HIDE DEF gone, m
  <2> QED BY <1>1, ChunksAre DEF m, n
<1> HIDE DEF gone, m, g
<1>5. v \in Nat /\ m - 1 - g \in Nat
  <2>1. v \in Nat
    BY <1>3, Product
  <2>2. m - 1 - g \in Nat
    BY <1>1, <1>3, <1>4
  <2> QED BY <2>1, <2>2
<1>6. /\ a.chunks \in Seq(Seq(Nat)) /\ Len(a.chunks) = m - g /\ a.skip = gone % size
      /\ \A j \in 1..m - g : a.chunks[j] = b.chunks[g + j]
  <2>1. a.chunks = SubSeq(b.chunks, g + 1, m) /\ a.skip = gone % size
    BY <1>2
  <2>2. g \in 0..Len(b.chunks)
    BY <1>1, <1>3, <1>4 DEF m
  <2> QED BY <2>1, <2>2, <1>1, RestChunks DEF m
<1>7. a.chunks # <<>> /\ a.chunks[Len(a.chunks)] = b.chunks[m] /\ b.chunks # <<>>
  <2>1. m - g \in 1..m - g /\ g + (m - g) = m /\ m >= 1
    BY <1>1, <1>3, <1>4
  <2>2. a.chunks # <<>> /\ b.chunks # <<>>
    BY <2>1, <1>1, <1>6 DEF m
  <2> QED BY <2>1, <2>2, <1>6
<1>8. last \in 0..size - 1 /\ n = size * (m - 1) + last
  BY <1>7, ChunksSplit DEF m, n
<1> HIDE DEF last
<1>9. ChunkBytes(a, size) = n - v
  <2> DEFINE x == size * (m - 1 - g)
             y == size * (m - 1)
  <2>1. ChunkBytes(a, size) = (m - g - 1) * size + last
    BY <1>6, <1>7 DEF ChunkBytes, last
  <2>2. (m - g - 1) * size = x /\ y = x + v
    BY <1>1, <1>3, <1>5
  <2>3. x \in Nat
    BY <1>5, Product
  <2> HIDE DEF x, v
  <2> QED BY <2>1, <2>2, <2>3, <1>8, <1>5
<1>10. IsChunks(a, size)
  <2>1. a \in [chunks : Seq(Seq(Nat)), skip : Nat]
    BY <1>2, <1>6, <1>3
  <2>2. ASSUME NEW j \in 1..Len(a.chunks) - 1 PROVE Len(a.chunks[j]) = size
    <3>1. j \in 1..m - g /\ g + j \in 1..m - 1
      <4>1. j \in 1..(m - g) - 1
        BY <1>6
      <4> QED BY <4>1, <1>1, <1>3, <1>4
    <3>2. Len(b.chunks[g + j]) = size
      BY <3>1 DEF IsChunks, m
    <3> QED BY <3>1, <3>2, <1>6
  <2>3. Len(a.chunks[Len(a.chunks)]) < size /\ a.skip < size
    <3>1. Len(b.chunks[m]) < size
      BY <1>8 DEF last
    <3>2. gone % size < size
      BY <1>3
    <3> QED BY <3>1, <3>2, <1>6, <1>7
  <2>4. a.skip < ChunkBytes(a, size)
    <3> HIDE DEF v
    <3> QED BY <1>9, <1>6, <1>3, <1>1, <1>5
  <2> QED BY <2>1, <2>2, <2>3, <2>4 DEF IsChunks
<1>11. ASSUME NEW i \in 0..ChunkBytes(a, size) - 1 PROVE ByteAt(a, size, i) = ByteAt(b, size, i + v)
  <2> DEFINE q == i \div size
             r == i % size
  <2>1. i \in Nat /\ i + v \in 0..n - 1
    <3> HIDE DEF v
    <3> QED BY <1>9, <1>1, <1>5
  <2>2. q \in Nat
    BY <2>1, Division
  <2>3. (i + v) \div size = q + g /\ (i + v) % size = r
    BY <2>1, <1>3, DivisionPlus
  <2>4. ((i + v) \div size) + 1 \in 1..m
    <3> HIDE DEF v
    <3> QED BY <2>1, ChunksAre DEF m, n
  <2>5. ByteAt(b, size, i + v) = b.chunks[(q + g) + 1][r + 1] /\ ByteAt(a, size, i) = a.chunks[q + 1][r + 1]
    BY <2>3 DEF ByteAt
  <2>6. q + 1 \in 1..m - g /\ g + (q + 1) = (q + g) + 1
    <3>1. (q + g) + 1 \in 1..m
      BY <2>3, <2>4
    <3> HIDE DEF q
    <3> QED BY <3>1, <2>2, <1>3, <1>1
  <2> HIDE DEF q, r, v
  <2> QED BY <2>5, <2>6, <1>6
<1> QED BY <1>6, <1>9, <1>10, <1>11 DEF a, n, g, gone

\* peek takes the first bytes, as many as are asked for or all, and leaves the others in order.
THEOREM ChunkPeekTakes ==
  ASSUME NEW size \in Nat \ {0}, NEW b, IsChunks(b, size), NEW k \in Nat
  PROVE  LET a == ChunkPeeked(b, size, k)
             out == Smaller(k, ChunkData(b, size))
         IN  /\ IsChunks(a, size) /\ ChunkData(a, size) = ChunkData(b, size) - out
             /\ ChunkContents(a, size) = SubSeq(ChunkContents(b, size), out + 1, ChunkData(b, size))
<1> DEFINE a == ChunkPeeked(b, size, k)
           data == ChunkData(b, size)
           n == ChunkBytes(b, size)
           out == Smaller(k, data)
           gone == b.skip + out
           g == gone \div size
           v == size * g
           old == ChunkContents(b, size)
           new == ChunkContents(a, size)
<1>1. n \in Nat /\ b.skip \in Nat /\ data \in Nat /\ data = n - b.skip
  BY ChunksAre DEF ChunkData
<1>2. old \in Seq(Nat) /\ Len(old) = data /\ \A j \in 1..data : old[j] = ByteAt(b, size, b.skip + j - 1)
  BY ChunkContentsAre
<1> HIDE DEF data, n, old, new
<1>3. out \in 0..data
  BY <1>1 DEF Smaller
<1>4. a = Skipped(b, size, out)
  BY DEF ChunkPeeked, data
<1> HIDE DEF out, a
<1>5. /\ SubSeq(old, out + 1, data) \in Seq(Nat) /\ Len(SubSeq(old, out + 1, data)) = data - out
      /\ \A j \in 1..data - out : SubSeq(old, out + 1, data)[j] = old[out + j]
  <2>1. out \in 0..Len(old) /\ data \in out..Len(old)
    BY <1>1, <1>2, <1>3
  <2> QED BY <1>2, <2>1, PartOf
<1>6. CASE gone >= n
  <2>1. a = NoChunks
    BY <1>4, <1>6 DEF Skipped, n
  <2>2. data - out = 0
    BY <1>1, <1>3, <1>6
  <2>3. IsChunks(a, size) /\ ChunkData(a, size) = 0 /\ new = <<>>
    BY <2>1, NoChunksIs DEF new
  <2>4. SubSeq(old, out + 1, data) = <<>>
    BY <1>5, <2>2, EmptySeq
  <2> QED BY <2>2, <2>3, <2>4 DEF a, old, new, out, data
<1>7. CASE ~(gone >= n)
  <2>1. out \in Nat /\ gone < n /\ gone \in Nat
    BY <1>1, <1>3, <1>7
  <2>2. /\ IsChunks(a, size) /\ a.skip = gone % size /\ ChunkBytes(a, size) = n - v
        /\ \A i \in 0..ChunkBytes(a, size) - 1 : ByteAt(a, size, i) = ByteAt(b, size, i + v)
    BY <2>1, <1>4, SkippedPlaces DEF n
  <2>3. gone % size \in 0..size - 1 /\ gone = v + (gone % size) /\ g \in Nat
    <3> HIDE DEF gone
    <3> QED BY <2>1, Division
  <2>4. v \in Nat
    BY <2>3, Product
  <2> HIDE DEF v, g
  <2>5. ChunkData(a, size) = data - out
    <3> DEFINE s == gone % size
    <3>1. ChunkData(a, size) = (n - v) - s /\ b.skip + out = v + s /\ s \in Nat
      BY <2>2, <2>3 DEF ChunkData
    <3> HIDE DEF s
    <3> DEFINE e == b.skip
    <3>3. n \in Nat /\ e \in Nat /\ data = n - e /\ e + out = v + s /\ v \in Nat
      BY <3>1, <2>4, <1>1
    <3>4. out \in Nat /\ data \in Nat
      BY <1>1, <1>3
    <3> HIDE DEF e
    <3>2. (n - v) - s = data - out
      BY ONLY <3>1, <3>3, <3>4
    <3> QED BY <3>1, <3>2
  <2>6. /\ new \in Seq(Nat) /\ Len(new) = data - out
        /\ \A j \in 1..data - out : new[j] = ByteAt(a, size, a.skip + j - 1)
    BY <2>2, <2>5, ChunkContentsAre DEF new
  <2>7. ASSUME NEW j \in 1..data - out PROVE new[j] = SubSeq(old, out + 1, data)[j]
    <3> DEFINE s == gone % size
               i == s + j - 1
    <3>1. s \in Nat /\ b.skip + out = v + s
      BY <2>3
    <3>2. new[j] = ByteAt(a, size, i)
      BY <2>2, <2>6
    <3> HIDE DEF s
    <3>3. i \in 0..(n - v) - 1 /\ i + v = b.skip + (out + j) - 1 /\ out + j \in 1..data
      BY <3>1, <2>4, <1>1, <1>3
    <3> HIDE DEF i
    <3>4. ByteAt(a, size, i) = ByteAt(b, size, i + v)
      BY <3>3, <2>2
    <3>5. old[out + j] = ByteAt(b, size, b.skip + (out + j) - 1)
      BY <3>3, <1>2
    <3> QED BY <3>2, <3>3, <3>4, <3>5, <1>5
  <2>8. new = SubSeq(old, out + 1, data)
    BY <2>6, <2>7, <1>5, SameSeq
  <2> QED BY <2>2, <2>5, <2>8 DEF a, old, new, out, data
<1> QED BY <1>6, <1>7
=============================================================================
