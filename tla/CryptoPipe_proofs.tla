-------------------------- MODULE CryptoPipe_proofs --------------------------
(***************************************************************************)
(* The proofs about CryptoPipe, for every value of its constants.          *)
(***************************************************************************)
EXTENDS CryptoPipe, Buffers_proofs

-----------------------------------------------------------------------------
(* Numbers and sequences.                                                  *)

LEMMA PartIn ==
  ASSUME NEW T, NEW a \in Seq(T), NEW i \in 0..Len(a), NEW j \in i..Len(a)
  PROVE  /\ SubSeq(a, i + 1, j) \in Seq(T)
         /\ Len(SubSeq(a, i + 1, j)) = j - i
         /\ \A k \in 1..j - i : SubSeq(a, i + 1, j)[k] = a[i + k]
<1>1. \A k \in i + 1..j : a[k] \in T
  BY ElementOfSeq
<1>2. /\ SubSeq(a, i + 1, j) \in Seq(T)
      /\ Len(SubSeq(a, i + 1, j)) = IF i + 1 <= j THEN j - (i + 1) + 1 ELSE 0
      /\ \A k \in 1..j - (i + 1) + 1 : SubSeq(a, i + 1, j)[k] = a[i + 1 + k - 1]
  <2>1. i + 1 \in Int /\ j \in Int
    OBVIOUS
  <2> QED BY <1>1, <2>1, SubSeqProperties
<1>3. \A k \in 1..j - i : i + 1 + k - 1 = i + k
  OBVIOUS
<1>4. j - (i + 1) + 1 = j - i
  OBVIOUS
<1> QED BY <1>2, <1>3, <1>4

LEMMA ConcatIn ==
  ASSUME NEW T, NEW s \in Seq(T), NEW t \in Seq(T)
  PROVE  /\ s \o t \in Seq(T)
         /\ Len(s \o t) = Len(s) + Len(t)
         /\ \A k \in 1..Len(s) + Len(t) : (s \o t)[k] = IF k <= Len(s) THEN s[k] ELSE t[k - Len(s)]
BY ConcatProperties

LEMMA SameIn ==
  ASSUME NEW T, NEW s \in Seq(T), NEW t \in Seq(T), Len(s) = Len(t),
         \A k \in 1..Len(s) : s[k] = t[k]
  PROVE  s = t
BY SeqEqual

SameJoined(s, t, u) == (s \o t) \o u = s \o (t \o u)

LEMMA ConcatThree ==
  ASSUME NEW s \in Seq(AllUnits), NEW t \in Seq(AllUnits), NEW u \in Seq(AllUnits)
  PROVE  SameJoined(s, t, u)
BY ConcatAssociative DEF SameJoined

\* A sequence cut at a place.
LEMMA CutAt ==
  ASSUME NEW T, NEW s \in Seq(T), NEW t \in Seq(T)
  PROVE  SubSeq(s \o t, 1, Len(s)) = s /\ SubSeq(s \o t, Len(s) + 1, Len(s) + Len(t)) = t
<1> DEFINE a == s \o t
           m == Len(s)
           n == Len(s) + Len(t)
<1>1. a \in Seq(T) /\ Len(a) = n /\ \A k \in 1..n : a[k] = IF k <= m THEN s[k] ELSE t[k - m]
  BY ConcatIn
<1>2. m \in Nat /\ n - m \in Nat /\ n - m = Len(t) /\ 0 + 1 = 1 /\ m - 0 = m
  OBVIOUS
<1> HIDE DEF a, m, n
<1>3. /\ SubSeq(a, 1, m) \in Seq(T) /\ Len(SubSeq(a, 1, m)) = m
      /\ \A k \in 1..m : SubSeq(a, 1, m)[k] = a[0 + k]
  <2>1. 0 \in 0..Len(a) /\ m \in 0..Len(a)
    BY <1>1, <1>2 DEF n
  <2> QED BY <1>1, <1>2, <2>1, PartIn
<1>4. /\ SubSeq(a, m + 1, n) \in Seq(T) /\ Len(SubSeq(a, m + 1, n)) = n - m
      /\ \A k \in 1..n - m : SubSeq(a, m + 1, n)[k] = a[m + k]
  <2>1. m \in 0..Len(a) /\ n \in m..Len(a)
    BY <1>1, <1>2
  <2> QED BY <1>1, <2>1, PartIn
<1>5. SubSeq(a, 1, m) = s
  <2>1. \A k \in 1..m : SubSeq(a, 1, m)[k] = s[k]
    BY <1>1, <1>2, <1>3
  <2> QED BY <2>1, <1>3, SameIn DEF m
<1>6. SubSeq(a, m + 1, n) = t
  <2>1. \A k \in 1..n - m : SubSeq(a, m + 1, n)[k] = t[k]
    <3> TAKE k \in 1..n - m
    <3>1. m + k \in 1..n /\ ~(m + k <= m) /\ (m + k) - m = k
      BY <1>2 DEF n, m
    <3> QED BY <3>1, <1>1, <1>4
  <2> QED BY <2>1, <1>2, <1>4, SameIn
<1> QED BY <1>5, <1>6 DEF a, m, n

-----------------------------------------------------------------------------
(* The bytes in units.                                                     *)

\* The function that BytesIn is written with: what the first i units hold.
IsUpTo(f, us) ==
  f = [i \in 0..Len(us) |->
         IF i = 0 THEN <<>>
         ELSE IF HasByte(us[i]) THEN Append(f[i - 1], us[i].block.first + us[i].at - 1)
         ELSE f[i - 1]]

\* It does what it says, one unit after the other.
Counts(f, us, n) ==
  /\ f[0] = <<>>
  /\ \A i \in 1..n :
       f[i] = IF HasByte(us[i]) THEN Append(f[i - 1], us[i].block.first + us[i].at - 1) ELSE f[i - 1]

LEMMA UnitByte ==
  ASSUME NEW u \in AllUnits
  PROVE  u.block.first + u.at - 1 \in Nat
BY DEF AllUnits

LEMMA CountsExists ==
  ASSUME NEW us \in Seq(AllUnits), NEW n \in 0..Len(us)
  PROVE  \E f \in [0..n -> Seq(Nat)] : Counts(f, us, n)
<1> DEFINE S == {k \in 0..Len(us) : ~\E f \in [0..k -> Seq(Nat)] : Counts(f, us, k)}
<1> SUFFICES ASSUME S # {} PROVE FALSE
  OBVIOUS
<1>1. S \subseteq Nat
  OBVIOUS
<1> HIDE DEF S
<1>2. PICK m \in S : \A k \in S : m <= k
  BY <1>1, LeastNumber
<1>3. m \in 0..Len(us) /\ ~\E f \in [0..m -> Seq(Nat)] : Counts(f, us, m)
  BY <1>2 DEF S
<1>4. m # 0
  <2> SUFFICES ASSUME m = 0 PROVE FALSE
    OBVIOUS
  <2> DEFINE h == [i \in 0..0 |-> <<>>]
  <2>1. h \in [0..0 -> Seq(Nat)] /\ Counts(h, us, 0)
    BY DEF Counts
  <2> HIDE DEF h
  <2> QED BY <2>1, <1>3
<1>5. m - 1 \in 0..Len(us) /\ m - 1 \in Nat /\ m \in 1..Len(us) /\ ~(m <= m - 1)
  BY <1>3, <1>4
<1>6. m - 1 \notin S
  BY <1>2, <1>5
<1>7. PICK f \in [0..m - 1 -> Seq(Nat)] : Counts(f, us, m - 1)
  BY <1>5, <1>6 DEF S
<1>8. us[m] \in AllUnits
  BY <1>5, ElementOfSeq
<1> DEFINE byte == us[m].block.first + us[m].at - 1
           step == IF HasByte(us[m]) THEN Append(f[m - 1], byte) ELSE f[m - 1]
           g == [i \in 0..m |-> IF i < m THEN f[i] ELSE step]
<1>9. step \in Seq(Nat)
  <2>1. byte \in Nat
    BY <1>8, UnitByte
  <2>2. f[m - 1] \in Seq(Nat)
    BY <1>7, <1>5
  <2> HIDE DEF byte
  <2> QED BY <2>1, <2>2
<1>10. g \in [0..m -> Seq(Nat)] /\ Counts(g, us, m)
  <2>1. ASSUME NEW i \in 0..m PROVE g[i] \in Seq(Nat)
    BY <1>3, <1>5, <1>7, <1>9
  <2>2. g[0] = <<>>
    BY <1>4, <1>5, <1>7 DEF Counts
  <2>3. ASSUME NEW i \in 1..m
        PROVE  g[i] = IF HasByte(us[i]) THEN Append(g[i - 1], us[i].block.first + us[i].at - 1) ELSE g[i - 1]
    <3>1. i - 1 \in 0..m /\ i - 1 < m /\ i \in 0..m
      BY <1>3
    <3>2. g[i - 1] = f[i - 1]
      BY <3>1
    <3>3. CASE i = m
      BY <3>2, <3>3
    <3>4. CASE i < m
      <4>1. g[i] = f[i] /\ i \in 1..m - 1
        BY <3>1, <3>4, <1>5
      <4>2. f[i] = IF HasByte(us[i]) THEN Append(f[i - 1], us[i].block.first + us[i].at - 1) ELSE f[i - 1]
        BY <4>1, <1>7 DEF Counts
      <4> HIDE DEF g
      <4> QED BY <4>1, <4>2, <3>2
    <3> QED BY <3>3, <3>4, <1>3
  <2> HIDE DEF step
  <2>4. g \in [0..m -> Seq(Nat)]
    BY <2>1
  <2> HIDE DEF g
  <2> QED BY <2>2, <2>3, <2>4 DEF Counts
<1> QED BY <1>3, <1>10

LEMMA CountsUnique ==
  ASSUME NEW us, NEW n \in Nat, NEW f, NEW g, Counts(f, us, n), Counts(g, us, n)
  PROVE  \A i \in 0..n : f[i] = g[i]
<1> DEFINE S == {k \in 0..n : f[k] # g[k]}
<1> SUFFICES ASSUME S # {} PROVE FALSE
  OBVIOUS
<1>1. S \subseteq Nat
  OBVIOUS
<1> HIDE DEF S
<1>2. PICK m \in S : \A k \in S : m <= k
  BY <1>1, LeastNumber
<1>3. m \in 0..n /\ f[m] # g[m]
  BY <1>2 DEF S
<1>4. m # 0
  BY <1>3 DEF Counts
<1>5. m \in 1..n /\ m - 1 \in 0..n /\ ~(m <= m - 1)
  BY <1>3, <1>4
<1>6. f[m - 1] = g[m - 1]
  BY <1>2, <1>5 DEF S
<1>7. f[m] = g[m]
  BY <1>5, <1>6 DEF Counts
<1> QED BY <1>3, <1>7

\* Whatever counts the bytes of the units gives what BytesIn gives.
LEMMA BytesCounted ==
  ASSUME NEW us \in Seq(AllUnits), NEW f, f = [i \in 0..Len(us) |-> f[i]], Counts(f, us, Len(us))
  PROVE  BytesIn(us) = f[Len(us)]
<1> DEFINE h == CHOOSE g : IsUpTo(g, us)
           n == Len(us)
<1>1. n \in Nat
  OBVIOUS
<1>2. BytesIn(us) = h[n]
  BY DEF BytesIn, IsUpTo
<1>3. IsUpTo(f, us)
  <2>1. \A i \in 0..n : f[i] = IF i = 0 THEN <<>>
           ELSE IF HasByte(us[i]) THEN Append(f[i - 1], us[i].block.first + us[i].at - 1)
           ELSE f[i - 1]
    <3> TAKE i \in 0..n
    <3>1. CASE i = 0
      BY <3>1 DEF Counts
    <3>2. CASE i # 0
      <4>1. i \in 1..n
        BY <3>2
      <4> QED BY <4>1, <3>2 DEF Counts
    <3> QED BY <3>1, <3>2
  <2> QED BY <2>1, <1>1 DEF IsUpTo
<1>4. IsUpTo(h, us)
  BY <1>3
<1> HIDE DEF h
<1>5. Counts(h, us, n)
  <2>1. \A i \in 0..n : h[i] = IF i = 0 THEN <<>>
           ELSE IF HasByte(us[i]) THEN Append(h[i - 1], us[i].block.first + us[i].at - 1)
           ELSE h[i - 1]
    BY <1>4, <1>1 DEF IsUpTo
  <2> QED BY <2>1, <1>1 DEF Counts
<1>6. h[n] = f[n]
  <2>1. n \in 0..n
    BY <1>1
  <2> QED BY <2>1, <1>1, <1>5, CountsUnique
<1> QED BY <1>2, <1>6

LEMMA BytesInSeq ==
  ASSUME NEW us \in Seq(AllUnits)
  PROVE  BytesIn(us) \in Seq(Nat)
<1>1. Len(us) \in 0..Len(us)
  OBVIOUS
<1>2. PICK f \in [0..Len(us) -> Seq(Nat)] : Counts(f, us, Len(us))
  BY <1>1, CountsExists
<1>3. BytesIn(us) = f[Len(us)]
  BY <1>2, BytesCounted
<1> QED BY <1>1, <1>3

\* Units without bytes.
LEMMA NoBytesIn ==
  ASSUME NEW us \in Seq(AllUnits), \A i \in 1..Len(us) : ~HasByte(us[i])
  PROVE  BytesIn(us) = <<>>
<1> DEFINE f == [i \in 0..Len(us) |-> <<>>]
<1>1. Counts(f, us, Len(us))
  BY DEF Counts
<1>2. f = [i \in 0..Len(us) |-> f[i]] /\ f[Len(us)] = <<>>
  OBVIOUS
<1> HIDE DEF f
<1> QED BY <1>1, <1>2, BytesCounted

LEMMA ConcatAppend ==
  ASSUME NEW s \in Seq(Nat), NEW t \in Seq(Nat), NEW x \in Nat
  PROVE  s \o Append(t, x) = Append(s \o t, x)
<1>1. Append(t, x) = t \o <<x>>
  BY AppendIsConcat
<1>2. s \o t \in Seq(Nat) /\ <<x>> \in Seq(Nat)
  OBVIOUS
<1>3. Append(s \o t, x) = (s \o t) \o <<x>>
  BY <1>2, AppendIsConcat
<1> QED BY <1>1, <1>2, <1>3, ConcatAssociative

\* The bytes of units behind others come behind theirs.
LEMMA BytesInBoth ==
  ASSUME NEW s \in Seq(AllUnits), NEW t \in Seq(AllUnits)
  PROVE  BytesIn(s \o t) = BytesIn(s) \o BytesIn(t)
<1> DEFINE a == s \o t
           m == Len(s)
           n == Len(t)
<1>1. a \in Seq(AllUnits) /\ Len(a) = m + n /\ \A k \in 1..m + n : a[k] = IF k <= m THEN s[k] ELSE t[k - m]
  BY ConcatIn
<1>2. m \in Nat /\ n \in Nat /\ m \in 0..m /\ n \in 0..n
  OBVIOUS
<1>3. PICK f \in [0..m -> Seq(Nat)] : Counts(f, s, m)
  BY <1>2, CountsExists
<1>4. PICK g \in [0..n -> Seq(Nat)] : Counts(g, t, n)
  BY <1>2, CountsExists
<1>5. BytesIn(s) = f[m] /\ BytesIn(t) = g[n]
  BY <1>3, <1>4, BytesCounted
<1> HIDE DEF a, m, n
<1> DEFINE h == [i \in 0..m + n |-> IF i <= m THEN f[i] ELSE f[m] \o g[i - m]]
<1>6. Counts(h, a, m + n)
  <2>1. h[0] = <<>>
    BY <1>2, <1>3 DEF Counts
  <2>2. ASSUME NEW i \in 1..m + n
        PROVE  h[i] = IF HasByte(a[i]) THEN Append(h[i - 1], a[i].block.first + a[i].at - 1) ELSE h[i - 1]
    <3>1. i \in 0..m + n /\ i - 1 \in 0..m + n
      BY <1>2
    <3>2. CASE i <= m
      <4>1. i \in 1..m /\ a[i] = s[i] /\ h[i] = f[i] /\ h[i - 1] = f[i - 1]
        BY <3>1, <3>2, <1>1, <1>2
      <4>2. f[i] = IF HasByte(s[i]) THEN Append(f[i - 1], s[i].block.first + s[i].at - 1) ELSE f[i - 1]
        BY <4>1, <1>3 DEF Counts
      <4> HIDE DEF h
      <4> QED BY <4>1, <4>2
    <3>3. CASE ~(i <= m)
      <4> DEFINE j == i - m
                 byte == t[j].block.first + t[j].at - 1
      <4>1. j \in 1..n /\ j - 1 \in 0..n /\ a[i] = t[j] /\ h[i] = f[m] \o g[j]
        BY <3>1, <3>3, <1>1, <1>2
      <4>2. h[i - 1] = f[m] \o g[j - 1]
        <5>1. CASE i - 1 = m
          <6>1. g[j - 1] = <<>> /\ h[i - 1] = f[m] /\ f[m] \in Seq(Nat)
            BY <5>1, <3>1, <1>2, <1>3, <1>4 DEF Counts
          <6> QED BY <6>1, ConcatEmptySeq
        <5>2. CASE i - 1 # m
          <6>1. ~(i - 1 <= m) /\ (i - 1) - m = j - 1
            BY <5>2, <3>3, <3>1, <1>2
          <6> QED BY <6>1, <3>1
        <5> QED BY <5>1, <5>2
      <4>3. g[j] = IF HasByte(t[j]) THEN Append(g[j - 1], byte) ELSE g[j - 1]
        BY <4>1, <1>4 DEF Counts
      <4>4. f[m] \in Seq(Nat) /\ g[j - 1] \in Seq(Nat) /\ byte \in Nat
        <5>1. t[j] \in AllUnits
          BY <4>1, ElementOfSeq DEF n
        <5> QED BY <5>1, <4>1, <1>2, UnitByte
      <4> HIDE DEF h, j, byte
      <4>5. f[m] \o Append(g[j - 1], byte) = Append(f[m] \o g[j - 1], byte)
        BY <4>4, ConcatAppend
      <4>6. h[i] = IF HasByte(t[j]) THEN Append(h[i - 1], byte) ELSE h[i - 1]
        BY <4>1, <4>2, <4>3, <4>5
      <4> QED BY <4>1, <4>6 DEF byte
    <3> QED BY <3>2, <3>3
  <2> HIDE DEF h
  <2> QED BY <2>1, <2>2 DEF Counts
<1>7. h = [i \in 0..m + n |-> h[i]] /\ h[m + n] = f[m] \o g[n]
  <2>1. CASE n = 0
    <3>1. g[n] = <<>> /\ f[m] \in Seq(Nat) /\ h[m + n] = f[m]
      BY <2>1, <1>2, <1>3, <1>4 DEF Counts
    <3> QED BY <3>1, ConcatEmptySeq
  <2>2. CASE n # 0
    <3>1. ~(m + n <= m) /\ (m + n) - m = n /\ m + n \in 0..m + n
      BY <2>2, <1>2
    <3> QED BY <3>1
  <2> QED BY <2>1, <2>2
<1> HIDE DEF h
<1>8. BytesIn(a) = h[m + n]
  <2>1. Counts(h, a, Len(a)) /\ h = [i \in 0..Len(a) |-> h[i]]
    BY <1>1, <1>6, <1>7
  <2>2. BytesIn(a) = h[Len(a)]
    BY <2>1, <1>1, BytesCounted
  <2> QED BY <2>2, <1>1
<1> QED BY <1>5, <1>7, <1>8 DEF a

\* The numbers behind p up to q, which is what plain bytes are.
Run(p, q) == [i \in 1..q - p |-> p + i]

LEMMA RunIs ==
  ASSUME NEW p \in Nat, NEW q \in Nat, p <= q
  PROVE  Run(p, q) \in Seq(Nat) /\ Len(Run(p, q)) = q - p /\ \A i \in 1..q - p : Run(p, q)[i] = p + i
<1>1. q - p \in Nat
  OBVIOUS
<1>2. \A i \in 1..q - p : p + i \in Nat
  OBVIOUS
<1> QED BY <1>1, <1>2 DEF Run

LEMMA RunsJoin ==
  ASSUME NEW p \in Nat, NEW q \in Nat, NEW r \in Nat, p <= q, q <= r
  PROVE  Run(p, q) \o Run(q, r) = Run(p, r)
<1>1. p <= r
  OBVIOUS
<1>2. /\ Run(p, q) \in Seq(Nat) /\ Len(Run(p, q)) = q - p /\ \A i \in 1..q - p : Run(p, q)[i] = p + i
      /\ Run(q, r) \in Seq(Nat) /\ Len(Run(q, r)) = r - q /\ \A i \in 1..r - q : Run(q, r)[i] = q + i
      /\ Run(p, r) \in Seq(Nat) /\ Len(Run(p, r)) = r - p /\ \A i \in 1..r - p : Run(p, r)[i] = p + i
  BY <1>1, RunIs
<1> DEFINE s == Run(p, q)
           t == Run(q, r)
           a == s \o t
<1> HIDE DEF s, t
<1>3. /\ a \in Seq(Nat) /\ Len(a) = (q - p) + (r - q)
      /\ \A k \in 1..(q - p) + (r - q) : a[k] = IF k <= q - p THEN s[k] ELSE t[k - (q - p)]
  <2>1. s \in Seq(Nat) /\ t \in Seq(Nat) /\ Len(s) = q - p /\ Len(t) = r - q
    BY <1>2 DEF s, t
  <2>2. /\ a \in Seq(Nat) /\ Len(a) = Len(s) + Len(t)
        /\ \A k \in 1..Len(s) + Len(t) : a[k] = IF k <= Len(s) THEN s[k] ELSE t[k - Len(s)]
    BY <2>1, ConcatOf
  <2> HIDE DEF a
  <2> QED BY <2>1, <2>2
<1> HIDE DEF a
<1>4. ASSUME NEW k \in 1..r - p PROVE a[k] = Run(p, r)[k]
  <2>1. k \in 1..(q - p) + (r - q)
    OBVIOUS
  <2>2. CASE k <= q - p
    BY <2>1, <2>2, <1>2, <1>3 DEF s
  <2>3. CASE ~(k <= q - p)
    <3>1. k - (q - p) \in 1..r - q /\ q + (k - (q - p)) = p + k
      BY <2>3
    <3> QED BY <3>1, <2>1, <2>3, <1>2, <1>3 DEF t
  <2> QED BY <2>2, <2>3
<1>5. (q - p) + (r - q) = r - p
  OBVIOUS
<1> DEFINE c == Run(p, r)
<1>6. c \in Seq(Nat) /\ Len(c) = r - p /\ \A k \in 1..r - p : a[k] = c[k]
  BY <1>2, <1>4
<1> HIDE DEF c
<1>7. a \in Seq(Nat) /\ Len(a) = Len(c) /\ \A k \in 1..Len(a) : a[k] = c[k]
  BY <1>3, <1>5, <1>6
<1>8. a = c
  BY ONLY <1>6, <1>7, SameIn
<1> QED BY <1>8 DEF a, c, s, t

-----------------------------------------------------------------------------
(* The units of a record: a size and its payload.                          *)

SizeUnits(z, len) == Units(Block(z, "size", len, 0))
PayloadUnits(z, len, p) == Units(Block(z + 1, "payload", len, p + 1))

LEMMA Sizes ==
  /\ Salt \in Nat \ {0} /\ SizeLen \in Nat \ {0} /\ Tag \in Nat \ {0}
  /\ ChunkMax \in Nat \ {0} /\ ChunkSize \in Nat \ {0} /\ Header \in Seq(Nat \ {0})
  /\ MaxSent \in Nat /\ MaxSend \in Nat /\ MaxFlushes \in Nat /\ MayEnd \in BOOLEAN
BY SizesAssumption, BoundsAssumption

LEMMA UnitsAre ==
  ASSUME NEW b \in [nonce : Nat, kind : {"salt", "size", "payload"}, len : Nat, first : Nat], NEW w \in Nat,
         Width(b) = w
  PROVE  /\ Units(b) \in Seq(AllUnits) /\ Len(Units(b)) = w
         /\ \A i \in 1..w : Units(b)[i] = [block |-> b, at |-> i]
<1>1. Units(b) = [i \in 1..w |-> [block |-> b, at |-> i]]
  BY DEF Units
<1>2. \A i \in 1..w : [block |-> b, at |-> i] \in AllUnits
  BY DEF AllUnits
<1> DEFINE e(i) == [block |-> b, at |-> i]
<1> HIDE DEF e
<1>3. [i \in 1..w |-> e(i)] \in Seq(AllUnits) /\ Len([i \in 1..w |-> e(i)]) = w
  <2>1. \A i \in 1..w : e(i) \in AllUnits
    BY <1>2 DEF e
  <2> QED BY <2>1
<1> QED BY <1>1, <1>3 DEF e

LEMMA SaltUnitsAre ==
  /\ SaltUnits \in Seq(AllUnits) /\ Len(SaltUnits) = Salt /\ BytesIn(SaltUnits) = <<>>
  /\ \A i \in 1..Salt : SaltUnits[i].block.kind = "salt"
<1> DEFINE b == Block(0, "salt", 0, 0)
<1>1. b \in [nonce : Nat, kind : {"salt", "size", "payload"}, len : Nat, first : Nat] /\ b.kind = "salt"
  BY DEF Block
<1>2. Width(b) = Salt /\ Salt \in Nat
  BY <1>1, Sizes DEF Width
<1> HIDE DEF b
<1>3. /\ SaltUnits \in Seq(AllUnits) /\ Len(SaltUnits) = Salt
      /\ \A i \in 1..Salt : SaltUnits[i] = [block |-> b, at |-> i]
  BY <1>1, <1>2, UnitsAre DEF SaltUnits, b
<1>4. \A i \in 1..Salt : SaltUnits[i].block.kind = "salt"
  BY <1>1, <1>3
<1>5. BytesIn(SaltUnits) = <<>>
  BY <1>3, <1>4, NoBytesIn DEF HasByte
<1> QED BY <1>3, <1>4, <1>5

LEMMA SizeUnitsAre ==
  ASSUME NEW z \in Nat, NEW len \in Nat
  PROVE  /\ SizeUnits(z, len) \in Seq(AllUnits) /\ Len(SizeUnits(z, len)) = SizeLen + Tag
         /\ \A i \in 1..SizeLen + Tag :
              SizeUnits(z, len)[i] = [block |-> Block(z, "size", len, 0), at |-> i]
         /\ BytesIn(SizeUnits(z, len)) = <<>>
<1> DEFINE b == Block(z, "size", len, 0)
           s == SizeUnits(z, len)
<1>1. b \in [nonce : Nat, kind : {"salt", "size", "payload"}, len : Nat, first : Nat] /\ b.kind = "size"
  BY DEF Block
<1>2. Width(b) = SizeLen + Tag /\ SizeLen + Tag \in Nat
  BY <1>1, Sizes DEF Width
<1> HIDE DEF b
<1>3. /\ s \in Seq(AllUnits) /\ Len(s) = SizeLen + Tag
      /\ \A i \in 1..SizeLen + Tag : s[i] = [block |-> b, at |-> i]
  BY <1>1, <1>2, UnitsAre DEF SizeUnits, b
<1> HIDE DEF s
<1>4. \A i \in 1..Len(s) : ~HasByte(s[i])
  BY <1>1, <1>3 DEF HasByte
<1>5. BytesIn(s) = <<>>
  BY <1>3, <1>4, NoBytesIn
<1> QED BY <1>3, <1>5 DEF s, b

LEMMA PayloadUnitsAre ==
  ASSUME NEW z \in Nat, NEW len \in Nat, NEW p \in Nat
  PROVE  /\ PayloadUnits(z, len, p) \in Seq(AllUnits) /\ Len(PayloadUnits(z, len, p)) = len + Tag
         /\ \A i \in 1..len + Tag :
              PayloadUnits(z, len, p)[i] = [block |-> Block(z + 1, "payload", len, p + 1), at |-> i]
         /\ BytesIn(PayloadUnits(z, len, p)) = Run(p, p + len)
<1> DEFINE b == Block(z + 1, "payload", len, p + 1)
           s == PayloadUnits(z, len, p)
           w == len + Tag
<1>1. /\ b \in [nonce : Nat, kind : {"salt", "size", "payload"}, len : Nat, first : Nat]
      /\ b.kind = "payload" /\ b.len = len /\ b.first = p + 1
  BY DEF Block
<1>2. Width(b) = w /\ w \in Nat /\ len <= w
  BY <1>1, Sizes DEF Width
<1> HIDE DEF b
<1>3. /\ s \in Seq(AllUnits) /\ Len(s) = w
      /\ \A i \in 1..w : s[i] = [block |-> b, at |-> i]
  BY <1>1, <1>2, UnitsAre DEF PayloadUnits, b
<1> HIDE DEF s, w
<1> DEFINE f == [i \in 0..w |-> IF i <= len THEN Run(p, p + i) ELSE Run(p, p + len)]
<1>4. Counts(f, s, w)
  <2>1. f[0] = <<>>
    <3>1. f[0] = Run(p, p + 0) /\ p + 0 \in Nat /\ p <= p + 0 /\ (p + 0) - p = 0
      BY <1>2
    <3> HIDE DEF f
    <3>2. f[0] \in Seq(Nat) /\ Len(f[0]) = 0
      BY <3>1, RunIs
    <3> QED BY <3>2, EmptySeq
  <2>2. ASSUME NEW i \in 1..w
        PROVE  f[i] = IF HasByte(s[i]) THEN Append(f[i - 1], s[i].block.first + s[i].at - 1) ELSE f[i - 1]
    <3>1. i \in 0..w /\ i - 1 \in 0..w
      BY <1>2
    <3>2. s[i].block = b /\ s[i].at = i
      BY <1>3
    <3>3. CASE i <= len
      <4>1. HasByte(s[i]) /\ s[i].block.first + s[i].at - 1 = p + i
        BY <3>2, <3>3, <1>1 DEF HasByte
      <4>2. f[i] = Run(p, p + i) /\ f[i - 1] = Run(p, p + (i - 1))
        BY <3>1, <3>3
      <4>3. Run(p, p + i) = Append(Run(p, p + (i - 1)), p + i)
        <5> DEFINE x == p + (i - 1)
        <5>1. x \in Nat /\ p + i = x + 1 /\ p <= x /\ x + 1 - x = 1
          OBVIOUS
        <5> HIDE DEF x
        <5>2. Run(x, x + 1) = <<x + 1>>
          BY <5>1 DEF Run
        <5>3. Run(p, x) \in Seq(Nat) /\ x + 1 \in Nat /\ x <= x + 1
          BY <5>1, RunIs
        <5>4. Run(p, x) \o Run(x, x + 1) = Run(p, x + 1)
          BY <5>1, <5>3, RunsJoin
        <5>5. Append(Run(p, x), x + 1) = Run(p, x) \o <<x + 1>>
          BY <5>3, AppendIsConcat
        <5> QED BY <5>1, <5>2, <5>4, <5>5 DEF x
      <4> HIDE DEF f
      <4> QED BY <4>1, <4>2, <4>3
    <3>4. CASE ~(i <= len)
      <4>1. ~HasByte(s[i])
        BY <3>2, <3>4, <1>1 DEF HasByte
      <4>2. f[i] = Run(p, p + len) /\ f[i - 1] = Run(p, p + len)
        <5>1. i - 1 <= len => i - 1 = len
          BY <3>4
        <5> QED BY <5>1, <3>1, <3>4
      <4> HIDE DEF f
      <4> QED BY <4>1, <4>2
    <3> QED BY <3>3, <3>4
  <2> HIDE DEF f
  <2> QED BY <2>1, <2>2 DEF Counts
<1>5. f = [i \in 0..w |-> f[i]] /\ f[w] = Run(p, p + len)
  <2>1. w <= len => w = len
    BY <1>2
  <2> QED BY <2>1, <1>2
<1> HIDE DEF f
<1>6. BytesIn(s) = Run(p, p + len)
  BY <1>3, <1>4, <1>5, BytesCounted
<1> QED BY <1>3, <1>6 DEF s, w, b

-----------------------------------------------------------------------------
(* Streams of records.                                                     *)

Over(len) == (SizeLen + Tag) + (len + Tag)

\* Behind the j-th unit of S the record with nonce z begins that has len bytes from p on.
RecordAt(S, j, z, p, len) ==
  /\ \A i \in 1..SizeLen + Tag : S[j + i] = [block |-> Block(z, "size", len, 0), at |-> i]
  /\ \A i \in 1..len + Tag :
       S[(j + (SizeLen + Tag)) + i] = [block |-> Block(z + 1, "payload", len, p + 1), at |-> i]

\* S is m records: the r-th ends at unit L[r] and with byte B[r].
Layout(S, m, L, B, z, e, p, q, low) ==
  /\ L[0] = 0 /\ L[m] = Len(S) /\ B[0] = p /\ B[m] = q /\ e = z + 2 * m
  /\ \A r \in 1..m :
       /\ B[r] - B[r - 1] \in low..ChunkMax
       /\ L[r] = L[r - 1] + Over(B[r] - B[r - 1])
       /\ RecordAt(S, L[r - 1], z + 2 * (r - 1), B[r - 1], B[r] - B[r - 1])
  /\ \A i, j \in 0..m : i <= j => L[i] <= L[j] /\ B[i] <= B[j]

\* A stream of records with nonces from z up to e, that holds the bytes behind p up to q.
Records(S, z, e, p, q, low) ==
  /\ S \in Seq(AllUnits) /\ z \in Nat /\ e \in Nat /\ p \in Nat /\ q \in Nat /\ p <= q /\ low \in {0, 1}
  /\ BytesIn(S) = Run(p, q)
  /\ \E m \in Nat : \E L \in [0..m -> Nat], B \in [0..m -> Nat] : Layout(S, m, L, B, z, e, p, q, low)

LEMMA NoRecords ==
  ASSUME NEW z \in Nat, NEW p \in Nat, NEW low \in {0, 1}
  PROVE  Records(<<>>, z, z, p, p, low)
<1> DEFINE L == [i \in 0..0 |-> 0]
           B == [i \in 0..0 |-> p]
<1>1. L \in [0..0 -> Nat] /\ B \in [0..0 -> Nat] /\ L[0] = 0 /\ B[0] = p
  OBVIOUS
<1> HIDE DEF L, B
<1>2. Layout(<<>>, 0, L, B, z, z, p, p, low)
  BY <1>1 DEF Layout
<1>3. BytesIn(<<>>) = <<>> /\ <<>> \in Seq(AllUnits)
  <2> DEFINE E == <<>>
  <2>1. E \in Seq(AllUnits) /\ Len(E) = 0
    OBVIOUS
  <2>2. \A i \in 1..Len(E) : ~HasByte(E[i])
    BY <2>1
  <2> HIDE DEF E
  <2>3. BytesIn(E) = <<>>
    BY <2>1, <2>2, NoBytesIn
  <2> QED BY <2>1, <2>3 DEF E
<1>4. Run(p, p) = <<>>
  <2>1. Run(p, p) \in Seq(Nat) /\ Len(Run(p, p)) = 0
    BY RunIs
  <2> QED BY <2>1, EmptySeq
<1> QED BY <1>1, <1>2, <1>3, <1>4 DEF Records

LEMMA OverIs ==
  ASSUME NEW len \in Nat
  PROVE  /\ Over(len) \in Nat /\ Over(len) >= 2 /\ Over(len) = (SizeLen + Tag) + (len + Tag)
         /\ SizeLen + Tag \in Nat \ {0} /\ len + Tag \in Nat \ {0}
BY Sizes DEF Over

LEMMA RecordsLow ==
  ASSUME NEW S, NEW z, NEW e, NEW p, NEW q, NEW low, Records(S, z, e, p, q, low)
  PROVE  Records(S, z, e, p, q, 0)
<1>0. PICK m \in Nat : \E L \in [0..m -> Nat], B \in [0..m -> Nat] : Layout(S, m, L, B, z, e, p, q, low)
  BY DEF Records
<1>1. PICK L \in [0..m -> Nat], B \in [0..m -> Nat] : Layout(S, m, L, B, z, e, p, q, low)
  BY <1>0
<1>2. Layout(S, m, L, B, z, e, p, q, 0)
  <2>1. ASSUME NEW r \in 1..m PROVE B[r] - B[r - 1] \in 0..ChunkMax
    <3>1. B[r] - B[r - 1] \in low..ChunkMax /\ low \in {0, 1}
      BY <1>1 DEF Layout, Records
    <3> QED BY <3>1, Sizes
  <2> QED BY <2>1, <1>1 DEF Layout
<1> QED BY <1>1, <1>2 DEF Records

\* What enciphering adds to a stream.
LEMMA RecordsLonger ==
  ASSUME NEW S, NEW z, NEW e, NEW p, NEW q, NEW low, Records(S, z, e, p, q, low),
         NEW len \in Nat, len \in low..ChunkMax
  PROVE  Records((S \o SizeUnits(e, len)) \o PayloadUnits(e, len, q), z, e + 2, p, q + len, low)
<1> DEFINE a == SizeUnits(e, len)
           b == PayloadUnits(e, len, q)
           sl == SizeLen + Tag
           pl == len + Tag
           n == Len(S)
           T == (S \o a) \o b
<1>1. S \in Seq(AllUnits) /\ z \in Nat /\ e \in Nat /\ p \in Nat /\ q \in Nat /\ p <= q /\ low \in {0, 1} /\ BytesIn(S) = Run(p, q)
  BY DEF Records
<1>2. /\ a \in Seq(AllUnits) /\ Len(a) = sl /\ BytesIn(a) = <<>>
      /\ \A i \in 1..sl : a[i] = [block |-> Block(e, "size", len, 0), at |-> i]
      /\ b \in Seq(AllUnits) /\ Len(b) = pl /\ BytesIn(b) = Run(q, q + len)
      /\ \A i \in 1..pl : b[i] = [block |-> Block(e + 1, "payload", len, q + 1), at |-> i]
  <2>1. /\ a \in Seq(AllUnits) /\ Len(a) = sl /\ BytesIn(a) = <<>>
        /\ \A i \in 1..sl : a[i] = [block |-> Block(e, "size", len, 0), at |-> i]
    BY <1>1, SizeUnitsAre
  <2>2. /\ b \in Seq(AllUnits) /\ Len(b) = pl /\ BytesIn(b) = Run(q, q + len)
        /\ \A i \in 1..pl : b[i] = [block |-> Block(e + 1, "payload", len, q + 1), at |-> i]
    <3>1. e \in Nat /\ q \in Nat /\ len \in Nat
      BY <1>1
    <3> QED BY ONLY <3>1, PayloadUnitsAre
  <2> HIDE DEF a, b, sl, pl
  <2> QED BY <2>1, <2>2
<1>3. sl \in Nat /\ pl \in Nat /\ Over(len) = sl + pl /\ n \in Nat
  BY <1>1, OverIs
<1> HIDE DEF a, b, sl, pl, n
<1>4. S \o a \in Seq(AllUnits) /\ Len(S \o a) = n + sl
      /\ \A k \in 1..n + sl : (S \o a)[k] = IF k <= n THEN S[k] ELSE a[k - n]
  BY <1>1, <1>2, ConcatIn DEF n
<1>5. T \in Seq(AllUnits) /\ Len(T) = (n + sl) + pl
      /\ \A k \in 1..(n + sl) + pl : T[k] = IF k <= n + sl THEN (S \o a)[k] ELSE b[k - (n + sl)]
  <2> DEFINE c == S \o a
  <2>1. c \in Seq(AllUnits) /\ Len(c) = n + sl
    BY <1>4
  <2> HIDE DEF c
  <2>2. /\ c \o b \in Seq(AllUnits) /\ Len(c \o b) = Len(c) + Len(b)
        /\ \A k \in 1..Len(c) + Len(b) : (c \o b)[k] = IF k <= Len(c) THEN c[k] ELSE b[k - Len(c)]
    BY <2>1, <1>2, ConcatIn
  <2>3. /\ c \o b \in Seq(AllUnits) /\ Len(c \o b) = (n + sl) + pl
        /\ \A k \in 1..(n + sl) + pl : (c \o b)[k] = IF k <= n + sl THEN c[k] ELSE b[k - (n + sl)]
    BY <2>1, <2>2, <1>2
  <2> QED BY <2>3 DEF c
<1> HIDE DEF T
<1>6. BytesIn(T) = Run(p, q + len)
  <2>1. BytesIn(T) = (Run(p, q) \o <<>>) \o Run(q, q + len)
    <3>1. BytesIn(S \o a) = BytesIn(S) \o BytesIn(a)
      BY <1>1, <1>2, BytesInBoth
    <3>2. BytesIn(T) = BytesIn(S \o a) \o BytesIn(b)
      <4>1. S \o a \in Seq(AllUnits) /\ b \in Seq(AllUnits)
        BY <1>2, <1>4
      <4> QED BY <4>1, BytesInBoth DEF T
    <3> QED BY <3>1, <3>2, <1>1, <1>2
  <2>2. Run(p, q) \o <<>> = Run(p, q)
    <3>1. Run(p, q) \in Seq(Nat)
      BY <1>1, RunIs
    <3> QED BY <3>1, ConcatEmptySeq
  <2>3. Run(p, q) \o Run(q, q + len) = Run(p, q + len)
    <3>1. q + len \in Nat /\ q <= q + len
      BY <1>1
    <3> QED BY <3>1, <1>1, RunsJoin
  <2> QED BY <2>1, <2>2, <2>3
<1>0. PICK m \in Nat : \E L \in [0..m -> Nat], B \in [0..m -> Nat] : Layout(S, m, L, B, z, e, p, q, low)
  BY DEF Records
<1>7. PICK L \in [0..m -> Nat], B \in [0..m -> Nat] : Layout(S, m, L, B, z, e, p, q, low)
  BY <1>0
<1>8. L[m] = n /\ B[m] = q /\ e = z + 2 * m
  BY <1>7 DEF Layout, n
<1> DEFINE M == [i \in 0..m + 1 |-> IF i <= m THEN L[i] ELSE n + (sl + pl)]
           C == [i \in 0..m + 1 |-> IF i <= m THEN B[i] ELSE q + len]
<1>9. \A i \in 0..m : M[i] = L[i] /\ C[i] = B[i]
  OBVIOUS
<1>10. M[m + 1] = n + (sl + pl) /\ C[m + 1] = q + len
  OBVIOUS
<1>11. M \in [0..m + 1 -> Nat] /\ C \in [0..m + 1 -> Nat]
  BY <1>1, <1>3
<1> HIDE DEF M, C
<1>12. ASSUME NEW r \in 1..m
       PROVE  /\ C[r] - C[r - 1] \in low..ChunkMax
              /\ M[r] = M[r - 1] + Over(C[r] - C[r - 1])
              /\ RecordAt(T, M[r - 1], z + 2 * (r - 1), C[r - 1], C[r] - C[r - 1])
  <2>1. r \in 0..m /\ r - 1 \in 0..m /\ m \in 0..m /\ r <= m
    OBVIOUS
  <2> DEFINE l == B[r] - B[r - 1]
             j == L[r - 1]
             y == z + 2 * (r - 1)
             x == B[r - 1]
  <2>2. /\ l \in low..ChunkMax /\ L[r] = j + Over(l) /\ RecordAt(S, j, y, x, l) /\ L[r] <= L[m]
    BY <2>1, <1>7 DEF Layout
  <2>3. l \in Nat /\ j \in Nat
    <3>1. j \in Nat
      BY <2>1
    <3>2. l \in low..ChunkMax /\ low \in {0, 1}
      BY <2>2, <1>1
    <3> HIDE DEF l, j
    <3> QED BY <3>1, <3>2, Sizes
  <2> HIDE DEF l, j, y, x
  <2>4. \A k \in 1..n : T[k] = S[k]
    <3> TAKE k \in 1..n
    <3>1. k \in 1..n + sl /\ k \in 1..(n + sl) + pl /\ k <= n + sl /\ k <= n
      BY <1>3
    <3>2. T[k] = (S \o a)[k]
      BY <3>1, <1>5
    <3>3. (S \o a)[k] = S[k]
      BY <3>1, <1>4
    <3> QED BY <3>2, <3>3
  <2>5. RecordAt(T, j, y, x, l)
    <3>1. j + ((SizeLen + Tag) + (l + Tag)) <= n /\ SizeLen + Tag \in Nat /\ l + Tag \in Nat
      BY <2>2, <2>3, <1>8, OverIs
    <3>2. ASSUME NEW i \in 1..SizeLen + Tag PROVE T[j + i] = S[j + i]
      <4>1. j + i \in 1..n
        BY <3>1, <2>3, <1>3
      <4> QED BY <4>1, <2>4
    <3>3. ASSUME NEW i \in 1..l + Tag PROVE T[(j + (SizeLen + Tag)) + i] = S[(j + (SizeLen + Tag)) + i]
      <4>1. (j + (SizeLen + Tag)) + i \in 1..n
        BY <3>1, <2>3, <1>3
      <4> QED BY <4>1, <2>4
    <3> QED BY <3>2, <3>3, <2>2 DEF RecordAt
  <2>6. M[r] = L[r] /\ M[r - 1] = j /\ C[r] - C[r - 1] = l /\ C[r - 1] = x
    BY <2>1, <1>9 DEF l, j, x
  <2> QED BY <2>2, <2>5, <2>6 DEF y
<1>13. /\ C[m + 1] - C[(m + 1) - 1] \in low..ChunkMax
       /\ M[m + 1] = M[(m + 1) - 1] + Over(C[m + 1] - C[(m + 1) - 1])
       /\ RecordAt(T, M[(m + 1) - 1], z + 2 * ((m + 1) - 1), C[(m + 1) - 1], C[m + 1] - C[(m + 1) - 1])
  <2>1. (m + 1) - 1 = m /\ m \in 0..m
    OBVIOUS
  <2>2. M[m] = n /\ C[m] = q /\ C[m + 1] - C[m] = len
    BY <2>1, <1>1, <1>8, <1>9, <1>10
  <2>3. RecordAt(T, n, e, q, len)
    <3>1. ASSUME NEW i \in 1..sl PROVE T[n + i] = a[i]
      <4>1. n + i \in 1..n + sl /\ n + i \in 1..(n + sl) + pl /\ ~(n + i <= n) /\ (n + i) - n = i /\ n + i <= n + sl
        BY <1>3
      <4> QED BY <4>1, <1>4, <1>5
    <3>2. ASSUME NEW i \in 1..pl PROVE T[(n + sl) + i] = b[i]
      <4>1. (n + sl) + i \in 1..(n + sl) + pl /\ ~((n + sl) + i <= n + sl) /\ ((n + sl) + i) - (n + sl) = i
        BY <1>3
      <4> QED BY <4>1, <1>5
    <3> QED BY <3>1, <3>2, <1>2 DEF RecordAt, sl, pl
  <2> QED BY <2>1, <2>2, <2>3, <1>3, <1>8, <1>10
<1>14. ASSUME NEW i \in 0..m + 1, NEW j \in 0..m + 1, i <= j PROVE M[i] <= M[j] /\ C[i] <= C[j]
  <2>1. CASE j <= m
    <3>1. i \in 0..m /\ j \in 0..m
      BY <2>1, <1>14
    <3> QED BY <3>1, <1>7, <1>9, <1>14 DEF Layout
  <2>2. CASE ~(j <= m) /\ i <= m
    <3>1. j = m + 1 /\ i \in 0..m /\ m \in 0..m
      BY <2>2
    <3>2. L[i] <= L[m] /\ B[i] <= B[m] /\ L[i] \in Nat /\ B[i] \in Nat
      BY <3>1, <1>7 DEF Layout
    <3>3. M[i] = L[i] /\ C[i] = B[i]
      BY <3>1, <1>9
    <3>4. M[j] = n + (sl + pl) /\ C[j] = q + len
      BY <3>1, <1>10
    <3>5. L[i] <= n /\ B[i] <= q
      BY <3>2, <1>8
    <3> DEFINE Li == L[i]
               Bi == B[i]
    <3>6. Li \in Nat /\ Bi \in Nat /\ Li <= n /\ Bi <= q /\ q \in Nat
      BY <3>2, <3>5, <1>1
    <3> HIDE DEF Li, Bi
    <3>7. Li <= n + (sl + pl) /\ Bi <= q + len
      BY <3>6, <1>3
    <3> QED BY <3>7, <3>3, <3>4 DEF Li, Bi
  <2>3. CASE ~(i <= m)
    <3>1. i = j
      BY <2>3, <1>14
    <3>2. M[j] \in Nat /\ C[j] \in Nat
      BY <1>11
    <3> QED BY <3>1, <3>2
  <2> QED BY <2>1, <2>2, <2>3
<1>15. Layout(T, m + 1, M, C, z, e + 2, p, q + len, low)
  <2>1. M[0] = 0 /\ C[0] = p /\ M[m + 1] = Len(T) /\ C[m + 1] = q + len
    <3>1. M[0] = L[0] /\ C[0] = B[0] /\ L[0] = 0 /\ B[0] = p
      <4>1. 0 \in 0..m
        OBVIOUS
      <4>2. L[0] = 0 /\ B[0] = p
        BY <1>7 DEF Layout
      <4> QED BY <4>1, <4>2, <1>9
    <3> QED BY <3>1, <1>3, <1>5, <1>10
  <2>2. e + 2 = z + 2 * (m + 1)
    BY <1>1, <1>8
  <2>3. \A r \in 1..m + 1 :
          /\ C[r] - C[r - 1] \in low..ChunkMax
          /\ M[r] = M[r - 1] + Over(C[r] - C[r - 1])
          /\ RecordAt(T, M[r - 1], z + 2 * (r - 1), C[r - 1], C[r] - C[r - 1])
    <3> TAKE r \in 1..m + 1
    <3>1. r \in 1..m \/ r = m + 1
      OBVIOUS
    <3> QED BY <3>1, <1>12, <1>13
  <2>4. \A i, j \in 0..m + 1 : i <= j => M[i] <= M[j] /\ C[i] <= C[j]
    BY <1>14
  <2> QED BY <2>1, <2>2, <2>3, <2>4 DEF Layout
<1>16. e + 2 \in Nat /\ q + len \in Nat /\ p <= q + len /\ m + 1 \in Nat
  BY <1>1
<1> QED BY <1>1, <1>5, <1>6, <1>11, <1>15, <1>16 DEF Records, T, a, b

LEMMA LenIs ==
  ASSUME NEW low \in {0, 1}, NEW len \in low..ChunkMax
  PROVE  len \in Nat
BY Sizes

\* With no unit left both ends have the same nonce, and no byte is under way.
LEMMA NothingLeft ==
  ASSUME NEW S, NEW z, NEW e, NEW p, NEW q, NEW low, Records(S, z, e, p, q, low), Len(S) = 0
  PROVE  z = e /\ p = q
<1>0. PICK m \in Nat : \E L \in [0..m -> Nat], B \in [0..m -> Nat] : Layout(S, m, L, B, z, e, p, q, low)
  BY DEF Records
<1>7. PICK L \in [0..m -> Nat], B \in [0..m -> Nat] : Layout(S, m, L, B, z, e, p, q, low)
  BY <1>0
<1>1. m = 0
  <2> SUFFICES ASSUME m # 0 PROVE FALSE
    OBVIOUS
  <2>1. 1 \in 1..m /\ 1 \in 0..m /\ m \in 0..m /\ 0 \in 0..m /\ 1 - 1 = 0 /\ 1 <= m
    OBVIOUS
  <2> DEFINE l == B[1] - B[0]
  <2>2. l \in low..ChunkMax /\ L[1] = L[0] + Over(l) /\ L[0] = 0 /\ L[m] = 0 /\ L[1] <= L[m] /\ low \in {0, 1}
    BY <2>1, <1>7 DEF Layout, Records
  <2> HIDE DEF l
  <2>3. l \in Nat
    BY <2>2, LenIs
  <2>4. Over(l) \in Nat /\ Over(l) >= 2
    BY <2>3, OverIs
  <2> QED BY <2>2, <2>4
<1>2. z \in Nat
  BY DEF Records
<1> QED BY <1>1, <1>2, <1>7 DEF Layout

\* What decipher takes away: the first record.
LEMMA RecordsFirst ==
  ASSUME NEW S, NEW z, NEW e, NEW p, NEW q, NEW low, Records(S, z, e, p, q, low), Len(S) # 0
  PROVE  LET len == S[1].block.len
         IN  /\ len \in Nat /\ len \in low..ChunkMax /\ Over(len) <= Len(S)
             /\ RecordAt(S, 0, z, p, len)
             /\ Records(SubSeq(S, Over(len) + 1, Len(S)), z + 2, e, p + len, q, low)
<1> DEFINE len == S[1].block.len
           n == Len(S)
           w == Over(len)
           T == SubSeq(S, w + 1, n)
<1>1. S \in Seq(AllUnits) /\ z \in Nat /\ e \in Nat /\ p \in Nat /\ q \in Nat /\ p <= q /\ low \in {0, 1} /\ BytesIn(S) = Run(p, q)
  BY DEF Records
<1>0. PICK m \in Nat : \E L \in [0..m -> Nat], B \in [0..m -> Nat] : Layout(S, m, L, B, z, e, p, q, low)
  BY DEF Records
<1>7. PICK L \in [0..m -> Nat], B \in [0..m -> Nat] : Layout(S, m, L, B, z, e, p, q, low)
  BY <1>0
<1>2. m # 0
  BY <1>1, <1>7 DEF Layout
<1>3. 1 \in 1..m /\ 1 \in 0..m /\ m \in 0..m /\ 0 \in 0..m /\ 1 - 1 = 0 /\ 1 <= m /\ m - 1 \in Nat
  BY <1>2
<1>4. L[0] = 0 /\ B[0] = p /\ L[m] = n /\ B[m] = q /\ e = z + 2 * m
  BY <1>7 DEF Layout
<1>5. len = B[1] - p /\ len \in Nat /\ len \in low..ChunkMax /\ L[1] = w /\ w <= n /\ RecordAt(S, 0, z, p, len) /\ p + len <= q
  <2> DEFINE l == B[1] - p
  <2>1. /\ l \in low..ChunkMax /\ L[1] = 0 + Over(l) /\ RecordAt(S, 0, z + 2 * (1 - 1), p, l)
        /\ L[1] <= L[m] /\ B[1] <= B[m]
    <3>1. /\ B[1] - B[1 - 1] \in low..ChunkMax /\ L[1] = L[1 - 1] + Over(B[1] - B[1 - 1])
          /\ RecordAt(S, L[1 - 1], z + 2 * (1 - 1), B[1 - 1], B[1] - B[1 - 1])
          /\ L[1] <= L[m] /\ B[1] <= B[m]
      BY <1>3, <1>7 DEF Layout
    <3> QED BY <3>1, <1>3, <1>4
  <2>2. l \in Nat /\ p + l = B[1]
    <3>1. B[1] \in Nat
      BY <1>3
    <3>2. p + l = B[1]
      BY <3>1, <1>1
    <3>3. l \in low..ChunkMax /\ low \in {0, 1}
      BY <2>1, <1>1
    <3> HIDE DEF l
    <3> QED BY <3>2, <3>3, LenIs
  <2> HIDE DEF l, n
  <2>3. z + 2 * (1 - 1) = z /\ 0 + Over(l) = Over(l)
    <3>1. z \in Nat /\ l \in Nat
      BY <1>1, <2>2
    <3>2. Over(l) \in Nat
      BY <3>1, OverIs
    <3> QED BY ONLY <3>1, <3>2
  <2>4. len = l
    <3>1. S[0 + 1] = [block |-> Block(z, "size", l, 0), at |-> 1]
      <4>1. 1 \in 1..SizeLen + Tag
        BY Sizes
      <4> QED BY <4>1, <2>1, <2>3 DEF RecordAt
    <3>2. S[1].block.len = l
      BY <3>1 DEF Block
    <3> QED BY <3>2
  <2> HIDE DEF len
  <2> QED BY <2>1, <2>2, <2>3, <2>4, <1>4 DEF l
<1>6. w \in Nat /\ w = (SizeLen + Tag) + (len + Tag) /\ SizeLen + Tag \in Nat \ {0} /\ len + Tag \in Nat \ {0} /\ n \in Nat
  <2>1. len \in Nat /\ n \in Nat
    BY <1>1, <1>5
  <2> HIDE DEF len, n
  <2> QED BY <2>1, OverIs
<1> HIDE DEF len, w, n
<1>8. T \in Seq(AllUnits) /\ Len(T) = n - w /\ \A k \in 1..n - w : T[k] = S[w + k]
  <2>1. w \in 0..Len(S) /\ n \in w..Len(S)
    BY <1>5, <1>6 DEF n
  <2> QED BY <2>1, <1>1, PartIn
<1> HIDE DEF T
<1> DEFINE a == SizeUnits(z, len)
           b == PayloadUnits(z, len, p)
<1>9. /\ a \in Seq(AllUnits) /\ Len(a) = SizeLen + Tag /\ BytesIn(a) = <<>>
      /\ \A i \in 1..SizeLen + Tag : a[i] = [block |-> Block(z, "size", len, 0), at |-> i]
  BY <1>1, <1>5, SizeUnitsAre
<1>10. /\ b \in Seq(AllUnits) /\ Len(b) = len + Tag /\ BytesIn(b) = Run(p, p + len)
       /\ \A i \in 1..len + Tag : b[i] = [block |-> Block(z + 1, "payload", len, p + 1), at |-> i]
  <2>1. z \in Nat /\ len \in Nat /\ p \in Nat
    BY <1>1, <1>5
  <2> QED BY ONLY <2>1, PayloadUnitsAre
<1> DEFINE sl == SizeLen + Tag
           pl == len + Tag
<1>11. sl \in Nat /\ pl \in Nat /\ w = sl + pl
  BY <1>6
<1> HIDE DEF a, b
<1>12. (a \o b) \o T = S
  <2> DEFINE c == a \o b
             s == SizeLen + Tag
             l == len + Tag
  <2>0. s \in Nat /\ l \in Nat /\ w = s + l
    BY <1>6
  <2>1. c \in Seq(AllUnits) /\ Len(c) = w /\ \A k \in 1..w : c[k] = IF k <= s THEN a[k] ELSE b[k - s]
    <3>1. c \in Seq(AllUnits) /\ Len(c) = s + l /\ \A k \in 1..s + l : c[k] = IF k <= s THEN a[k] ELSE b[k - s]
      <4>1. a \in Seq(AllUnits) /\ b \in Seq(AllUnits) /\ Len(a) = s /\ Len(b) = l
        BY <1>9, <1>10
      <4>2. /\ c \in Seq(AllUnits) /\ Len(c) = Len(a) + Len(b)
            /\ \A k \in 1..Len(a) + Len(b) : c[k] = IF k <= Len(a) THEN a[k] ELSE b[k - Len(a)]
        BY <4>1, ConcatIn
      <4> HIDE DEF c, s, l
      <4> QED BY <4>1, <4>2
    <3> HIDE DEF c, s, l
    <3> QED BY <3>1, <2>0
  <2>2. \A k \in 1..w : c[k] = S[k]
    <3> TAKE k \in 1..w
    <3>1. CASE k <= s
      <4>1. k \in 1..s /\ 0 + k = k
        BY <2>0, <3>1
      <4>2. S[0 + k] = a[k]
        BY <4>1, <1>5, <1>9 DEF RecordAt
      <4> HIDE DEF c, s
      <4> QED BY <4>1, <4>2, <3>1, <2>1
    <3>2. CASE ~(k <= s)
      <4>1. k - s \in 1..l /\ (0 + s) + (k - s) = k
        BY <2>0, <3>2
      <4>2. S[(0 + s) + (k - s)] = b[k - s]
        BY <4>1, <1>5, <1>10 DEF RecordAt
      <4> HIDE DEF c, s
      <4> QED BY <4>1, <4>2, <3>2, <2>1
    <3> QED BY <3>1, <3>2
  <2> HIDE DEF c, s, l
  <2>3. /\ c \o T \in Seq(AllUnits) /\ Len(c \o T) = n
        /\ \A k \in 1..n : (c \o T)[k] = IF k <= w THEN c[k] ELSE T[k - w]
    <3>1. /\ c \o T \in Seq(AllUnits) /\ Len(c \o T) = Len(c) + Len(T)
          /\ \A k \in 1..Len(c) + Len(T) : (c \o T)[k] = IF k <= Len(c) THEN c[k] ELSE T[k - Len(c)]
      BY <2>1, <1>8, ConcatIn
    <3>2. Len(c) = w /\ Len(c) + Len(T) = n
      BY <2>1, <1>6, <1>8
    <3> QED BY <3>1, <3>2
  <2>4. ASSUME NEW k \in 1..n PROVE (c \o T)[k] = S[k]
    <3>1. CASE k <= w
      <4>1. k \in 1..w
        BY <3>1, <1>6
      <4> QED BY <4>1, <3>1, <2>2, <2>3
    <3>2. CASE ~(k <= w)
      <4>1. k - w \in 1..n - w /\ w + (k - w) = k
        <5>1. w \in Nat /\ n \in Nat /\ k \in 1..n
          BY <1>6
        <5> QED BY ONLY <5>1, <3>2
      <4> QED BY <4>1, <3>2, <2>3, <1>8
    <3> QED BY <3>1, <3>2
  <2>5. c \o T = S
    <3>1. Len(c \o T) = Len(S) /\ \A k \in 1..Len(c \o T) : (c \o T)[k] = S[k]
      BY <2>3, <2>4 DEF n
    <3> QED BY <3>1, <2>3, <1>1, SameIn
  <2> QED BY <2>5 DEF c
<1>13. BytesIn(T) = Run(p + len, q)
  <2>1. p + len \in Nat /\ p <= p + len
    BY <1>1, <1>5
  <2>2. a \o b \in Seq(AllUnits)
    BY <1>9, <1>10, ConcatIn
  <2>3. Run(p, q) = (<<>> \o Run(p, p + len)) \o BytesIn(T)
    <3>1. BytesIn(a \o b) = BytesIn(a) \o BytesIn(b)
      BY <1>9, <1>10, BytesInBoth
    <3>2. BytesIn((a \o b) \o T) = BytesIn(a \o b) \o BytesIn(T)
      BY <2>2, <1>8, BytesInBoth
    <3> QED BY <3>1, <3>2, <1>1, <1>9, <1>10, <1>12
  <2> DEFINE x == Run(p, p + len)
             y == Run(p + len, q)
  <2>4. x \in Seq(Nat) /\ y \in Seq(Nat) /\ Len(x) = (p + len) - p
    BY <2>1, <1>1, <1>5, RunIs
  <2>5. <<>> \o x = x
    BY <2>4, ConcatEmptySeq
  <2>6. x \o y = Run(p, q)
    BY <2>1, <1>1, <1>5, RunsJoin
  <2>7. BytesIn(T) \in Seq(Nat)
    BY <1>8, BytesInSeq
  <2>8. x \o BytesIn(T) = x \o y
    BY <2>3, <2>5, <2>6
  <2> HIDE DEF x, y
  <2>9. BytesIn(T) = y
    BY <2>4, <2>7, <2>8, ConcatSimplifications
  <2> QED BY <2>9 DEF y
<1> DEFINE M == [i \in 0..m - 1 |-> L[i + 1] - w]
           C == [i \in 0..m - 1 |-> B[i + 1]]
<1>14. \A i \in 0..m - 1 : /\ i + 1 \in 1..m /\ i + 1 \in 0..m
                           /\ M[i] = L[i + 1] - w /\ C[i] = B[i + 1] /\ L[i + 1] \in Nat /\ B[i + 1] \in Nat
                           /\ w <= L[i + 1]
  <2> TAKE i \in 0..m - 1
  <2>1. i + 1 \in 1..m /\ i + 1 \in 0..m /\ 1 <= i + 1
    OBVIOUS
  <2>2. L[1] <= L[i + 1]
    BY <2>1, <1>3, <1>7 DEF Layout
  <2> QED BY <2>1, <2>2, <1>5
<1>15. M \in [0..m - 1 -> Nat] /\ C \in [0..m - 1 -> Nat]
  <2>1. \A i \in 0..m - 1 : L[i + 1] - w \in Nat /\ B[i + 1] \in Nat
    BY <1>14, <1>6
  <2> QED BY <2>1
<1> HIDE DEF M, C
<1>16. ASSUME NEW r \in 1..m - 1
       PROVE  /\ C[r] - C[r - 1] \in low..ChunkMax
              /\ M[r] = M[r - 1] + Over(C[r] - C[r - 1])
              /\ RecordAt(T, M[r - 1], (z + 2) + 2 * (r - 1), C[r - 1], C[r] - C[r - 1])
  <2>1. r \in 0..m - 1 /\ r - 1 \in 0..m - 1 /\ (r - 1) + 1 = r /\ r + 1 \in 1..m /\ (r + 1) - 1 = r
        /\ r \in 0..m /\ r + 1 \in 0..m /\ m \in 0..m /\ r + 1 <= m
    OBVIOUS
  <2> DEFINE l == B[r + 1] - B[r]
             j == L[r]
             y == z + 2 * r
             x == B[r]
  <2>2. l \in low..ChunkMax /\ L[r + 1] = j + Over(l) /\ RecordAt(S, j, y, x, l) /\ L[r + 1] <= L[m]
    <3>1. /\ B[r + 1] - B[(r + 1) - 1] \in low..ChunkMax
          /\ L[r + 1] = L[(r + 1) - 1] + Over(B[r + 1] - B[(r + 1) - 1])
          /\ RecordAt(S, L[(r + 1) - 1], z + 2 * ((r + 1) - 1), B[(r + 1) - 1], B[r + 1] - B[(r + 1) - 1])
          /\ L[r + 1] <= L[m]
      BY <2>1, <1>7 DEF Layout
    <3> QED BY <3>1, <2>1
  <2>3. /\ M[r] = L[r + 1] - w /\ M[r - 1] = j - w /\ C[r] - C[r - 1] = l /\ C[r - 1] = x
        /\ w <= j /\ j \in Nat
    <3>1. M[r - 1] = L[(r - 1) + 1] - w /\ C[r - 1] = B[(r - 1) + 1] /\ w <= L[(r - 1) + 1] /\ L[(r - 1) + 1] \in Nat
      BY <2>1, <1>14
    <3>2. M[r] = L[r + 1] - w /\ C[r] = B[r + 1]
      BY <2>1, <1>14
    <3> QED BY <3>1, <3>2, <2>1
  <2>4. y = (z + 2) + 2 * (r - 1)
    BY <1>1
  <2>5. l \in Nat
    <3> HIDE DEF l
    <3>1. low \in {0, 1}
      BY <1>1
    <3> QED BY <3>1, <2>2, LenIs
  <2> HIDE DEF l, j, x, y
  <2>6. M[r] = (j - w) + Over(l)
    <3>1. Over(l) \in Nat /\ w \in Nat /\ j \in Nat
      BY <2>3, <2>5, <1>6, OverIs
    <3>2. M[r] = (j + Over(l)) - w
      BY <2>2, <2>3
    <3> QED BY ONLY <3>1, <3>2
  <2> DEFINE k == j - w
  <2>7. k \in Nat /\ w + k = j /\ k + ((SizeLen + Tag) + (l + Tag)) <= n - w /\ SizeLen + Tag \in Nat /\ l + Tag \in Nat
    <3> DEFINE o == Over(l)
    <3>1. /\ o \in Nat /\ o = (SizeLen + Tag) + (l + Tag) /\ SizeLen + Tag \in Nat /\ l + Tag \in Nat
          /\ j + o <= n
      <4>1. L[r + 1] = j + o /\ L[r + 1] <= n
        BY <2>2, <1>4
      <4> QED BY <4>1, <2>5, OverIs
    <3>2. w \in Nat /\ n \in Nat /\ j \in Nat /\ w <= j
      BY <1>6, <2>3
    <3> HIDE DEF o
    <3>3. k \in Nat /\ w + k = j /\ k + o <= n - w
      BY ONLY <3>1, <3>2 DEF k
    <3> QED BY <3>1, <3>3
  <2> HIDE DEF k
  <2>8. RecordAt(T, k, y, x, l)
    <3>1. ASSUME NEW i \in 1..SizeLen + Tag PROVE T[k + i] = S[j + i]
      <4> DEFINE v == SizeLen + Tag
                 u == l + Tag
      <4>0. v \in Nat /\ u \in Nat /\ k + (v + u) <= n - w /\ i \in 1..v /\ w + k = j
        BY <2>7
      <4>2. k \in Nat /\ w \in Nat /\ n \in Nat
        BY <2>7, <1>6
      <4> HIDE DEF v, u
      <4>1. k + i \in 1..n - w /\ w + (k + i) = j + i
        BY ONLY <4>0, <4>2
      <4> QED BY <4>1, <1>8
    <3>2. ASSUME NEW i \in 1..l + Tag PROVE T[(k + (SizeLen + Tag)) + i] = S[(j + (SizeLen + Tag)) + i]
      <4> DEFINE v == SizeLen + Tag
                 u == l + Tag
      <4>0. v \in Nat /\ u \in Nat /\ k + (v + u) <= n - w /\ i \in 1..u /\ w + k = j
        BY <2>7
      <4>3. k \in Nat /\ w \in Nat /\ n \in Nat
        BY <2>7, <1>6
      <4> HIDE DEF v, u
      <4>1. (k + v) + i \in 1..n - w /\ w + ((k + v) + i) = (j + v) + i
        BY ONLY <4>0, <4>3
      <4>2. T[(k + v) + i] = S[(j + v) + i]
        BY <4>1, <1>8
      <4> QED BY <4>2 DEF v
    <3> QED BY <3>1, <3>2, <2>2 DEF RecordAt
  <2> QED BY <2>2, <2>3, <2>4, <2>6, <2>8 DEF k
<1>17. ASSUME NEW i \in 0..m - 1, NEW j \in 0..m - 1, i <= j PROVE M[i] <= M[j] /\ C[i] <= C[j]
  <2>1. i + 1 \in 0..m /\ j + 1 \in 0..m /\ i + 1 <= j + 1
    BY <1>17
  <2>2. L[i + 1] <= L[j + 1] /\ B[i + 1] <= B[j + 1]
    BY <2>1, <1>7 DEF Layout
  <2> QED BY <2>2, <1>6, <1>14
<1>18. Layout(T, m - 1, M, C, z + 2, e, p + len, q, low)
  <2>1. M[0] = 0 /\ M[m - 1] = Len(T) /\ C[0] = p + len /\ C[m - 1] = q
    <3>1. 0 \in 0..m - 1 /\ m - 1 \in 0..m - 1 /\ 0 + 1 = 1 /\ (m - 1) + 1 = m
      BY <1>3
    <3>2. M[0] = L[0 + 1] - w /\ C[0] = B[0 + 1] /\ M[m - 1] = L[(m - 1) + 1] - w /\ C[m - 1] = B[(m - 1) + 1]
      BY <3>1, <1>14
    <3>3. B[1] = p + len
      <4>1. B[1] \in Nat
        BY <1>3
      <4> QED BY <4>1, <1>1, <1>5
    <3>4. L[1] = w /\ L[m] = n /\ B[m] = q /\ Len(T) = n - w /\ w - w = 0
      BY <1>4, <1>5, <1>6, <1>8
    <3> QED BY <3>1, <3>2, <3>3, <3>4
  <2>2. e = (z + 2) + 2 * (m - 1)
    BY <1>1, <1>4
  <2> QED BY <2>1, <2>2, <1>16, <1>17 DEF Layout
<1>19. Records(T, z + 2, e, p + len, q, low)
  <2>1. z + 2 \in Nat /\ p + len \in Nat
    BY <1>1, <1>5
  <2> QED BY <2>1, <1>1, <1>3, <1>5, <1>8, <1>13, <1>15, <1>18 DEF Records
<1> QED BY <1>5, <1>19 DEF len, w, n, T
-----------------------------------------------------------------------------
(* What is not deciphered, from a place on: unprocessed, wire, encrypted.  *)

Line(u, w, c, k) == (SubSeq(u, k + 1, Len(u)) \o w) \o c

LEMMA LineIs ==
  ASSUME NEW u \in Seq(AllUnits), NEW w \in Seq(AllUnits), NEW c \in Seq(AllUnits), NEW k \in 0..Len(u)
  PROVE  /\ Line(u, w, c, k) \in Seq(AllUnits)
         /\ Len(Line(u, w, c, k)) = ((Len(u) - k) + Len(w)) + Len(c)
         /\ \A i \in 1..Len(u) - k : Line(u, w, c, k)[i] = u[k + i]
<1> DEFINE v == SubSeq(u, k + 1, Len(u))
           m == Len(u) - k
<1>1. v \in Seq(AllUnits) /\ Len(v) = m /\ \A i \in 1..m : v[i] = u[k + i]
  <2>1. Len(u) \in k..Len(u)
    OBVIOUS
  <2> QED BY <2>1, PartIn
<1>2. m \in Nat /\ Len(w) \in Nat /\ Len(c) \in Nat
  OBVIOUS
<1> HIDE DEF v, m
<1>3. /\ v \o w \in Seq(AllUnits) /\ Len(v \o w) = m + Len(w)
      /\ \A i \in 1..m + Len(w) : (v \o w)[i] = IF i <= m THEN v[i] ELSE w[i - m]
  BY <1>1, ConcatIn
<1>4. /\ (v \o w) \o c \in Seq(AllUnits) /\ Len((v \o w) \o c) = (m + Len(w)) + Len(c)
      /\ \A i \in 1..(m + Len(w)) + Len(c) :
           ((v \o w) \o c)[i] = IF i <= m + Len(w) THEN (v \o w)[i] ELSE c[i - (m + Len(w))]
  BY <1>3, ConcatIn
<1>5. \A i \in 1..m : ((v \o w) \o c)[i] = u[k + i]
  <2> TAKE i \in 1..m
  <2>1. i \in 1..m + Len(w) /\ i \in 1..(m + Len(w)) + Len(c) /\ i <= m /\ i <= m + Len(w)
    BY <1>2
  <2> QED BY <2>1, <1>1, <1>3, <1>4
<1>6. Line(u, w, c, k) = (v \o w) \o c
  BY DEF Line, v
<1> QED BY <1>4, <1>5, <1>6 DEF m

\* From the beginning.
LEMMA LineAll ==
  ASSUME NEW u \in Seq(AllUnits), NEW w \in Seq(AllUnits), NEW c \in Seq(AllUnits)
  PROVE  Line(u, w, c, 0) = (u \o w) \o c
<1>1. SubSeq(u, 0 + 1, Len(u)) = u
  <2>1. 0 \in 0..Len(u) /\ Len(u) \in 0..Len(u) /\ Len(u) - 0 = Len(u)
    OBVIOUS
  <2>2. /\ SubSeq(u, 0 + 1, Len(u)) \in Seq(AllUnits) /\ Len(SubSeq(u, 0 + 1, Len(u))) = Len(u)
        /\ \A i \in 1..Len(u) : SubSeq(u, 0 + 1, Len(u))[i] = u[0 + i]
    BY <2>1, PartIn
  <2>3. \A i \in 1..Len(u) : SubSeq(u, 0 + 1, Len(u))[i] = u[i]
    <3> TAKE i \in 1..Len(u)
    <3>1. 0 + i = i
      OBVIOUS
    <3> QED BY <3>1, <2>2
  <2> QED BY <2>2, <2>3, SameIn
<1> QED BY <1>1 DEF Line

\* From a later place.
LEMMA LineRest ==
  ASSUME NEW u \in Seq(AllUnits), NEW w \in Seq(AllUnits), NEW c \in Seq(AllUnits),
         NEW k \in 0..Len(u), NEW j \in 0..Len(u) - k
  PROVE  SubSeq(Line(u, w, c, k), j + 1, Len(Line(u, w, c, k))) = Line(u, w, c, k + j)
<1> DEFINE v == SubSeq(u, k + 1, Len(u))
           x == SubSeq(u, (k + j) + 1, Len(u))
           m == Len(u) - k
           a == (v \o w) \o c
           b == (x \o w) \o c
           n == (m + Len(w)) + Len(c)
<1>1. v \in Seq(AllUnits) /\ Len(v) = m /\ \A i \in 1..m : v[i] = u[k + i]
  <2>1. Len(u) \in k..Len(u)
    OBVIOUS
  <2> QED BY <2>1, PartIn
<1>2. x \in Seq(AllUnits) /\ Len(x) = m - j /\ \A i \in 1..m - j : x[i] = u[(k + j) + i]
  <2> DEFINE h == k + j
  <2>1. Len(u) \in h..Len(u) /\ h \in 0..Len(u) /\ Len(u) - h = m - j
    OBVIOUS
  <2> HIDE DEF h, m
  <2>2. /\ SubSeq(u, h + 1, Len(u)) \in Seq(AllUnits) /\ Len(SubSeq(u, h + 1, Len(u))) = m - j
        /\ \A i \in 1..m - j : SubSeq(u, h + 1, Len(u))[i] = u[h + i]
    BY <2>1, PartIn
  <2> QED BY <2>2 DEF h
<1>3. m \in Nat /\ Len(w) \in Nat /\ Len(c) \in Nat /\ j \in 0..m /\ j \in Nat /\ k \in Nat
  OBVIOUS
<1> HIDE DEF v, x, m
<1>4. /\ v \o w \in Seq(AllUnits) /\ Len(v \o w) = m + Len(w)
      /\ \A i \in 1..m + Len(w) : (v \o w)[i] = IF i <= m THEN v[i] ELSE w[i - m]
  BY <1>1, ConcatIn
<1>5. /\ a \in Seq(AllUnits) /\ Len(a) = n
      /\ \A i \in 1..n : a[i] = IF i <= m + Len(w) THEN (v \o w)[i] ELSE c[i - (m + Len(w))]
  BY <1>4, ConcatIn
<1>6. /\ x \o w \in Seq(AllUnits) /\ Len(x \o w) = (m - j) + Len(w)
      /\ \A i \in 1..(m - j) + Len(w) : (x \o w)[i] = IF i <= m - j THEN x[i] ELSE w[i - (m - j)]
  BY <1>2, ConcatIn
<1>7. /\ b \in Seq(AllUnits) /\ Len(b) = n - j
      /\ \A i \in 1..n - j :
           b[i] = IF i <= (m - j) + Len(w) THEN (x \o w)[i] ELSE c[i - ((m - j) + Len(w))]
  <2>1. ((m - j) + Len(w)) + Len(c) = n - j
    BY <1>3
  <2> QED BY <2>1, <1>6, ConcatIn
<1> DEFINE s == SubSeq(a, j + 1, n)
<1>8. s \in Seq(AllUnits) /\ Len(s) = n - j /\ \A i \in 1..n - j : s[i] = a[j + i]
  <2>1. j \in 0..Len(a) /\ n \in j..Len(a)
    BY <1>3, <1>5
  <2> HIDE DEF a, n
  <2> QED BY <1>5, <2>1, PartIn
<1>9. \A i \in 1..n - j : s[i] = b[i]
  <2> TAKE i \in 1..n - j
  <2>1. j + i \in 1..n /\ s[i] = a[j + i]
    <3>1. n \in Nat
      BY <1>3
    <3> HIDE DEF n, s, a
    <3> QED BY <3>1, <1>3, <1>8
  <2>2. CASE i <= m - j
    <3>1. /\ j + i <= m /\ j + i <= m + Len(w) /\ j + i \in 1..m /\ j + i \in 1..m + Len(w)
          /\ i <= (m - j) + Len(w) /\ i \in 1..m - j /\ i \in 1..(m - j) + Len(w)
          /\ k + (j + i) = (k + j) + i
      BY <1>3, <2>2
    <3>2. a[j + i] = u[k + (j + i)]
      BY <3>1, <2>1, <1>5, <1>4, <1>1
    <3>3. b[i] = u[(k + j) + i]
      BY <3>1, <1>7, <1>6, <1>2
    <3> QED BY <3>1, <3>2, <3>3, <2>1
  <2>3. CASE ~(i <= m - j) /\ i <= (m - j) + Len(w)
    <3>1. /\ ~(j + i <= m) /\ j + i <= m + Len(w) /\ j + i \in 1..m + Len(w)
          /\ i \in 1..(m - j) + Len(w) /\ (j + i) - m = i - (m - j)
      BY <1>3, <2>3
    <3>2. a[j + i] = w[(j + i) - m]
      BY <3>1, <2>1, <1>5, <1>4
    <3>3. b[i] = w[i - (m - j)]
      BY <3>1, <2>3, <1>7, <1>6
    <3> QED BY <3>1, <3>2, <3>3, <2>1
  <2>4. CASE ~(i <= (m - j) + Len(w))
    <3>1. ~(j + i <= m + Len(w)) /\ (j + i) - (m + Len(w)) = i - ((m - j) + Len(w))
      BY <1>3, <2>4
    <3>2. a[j + i] = c[(j + i) - (m + Len(w))]
      BY <3>1, <2>1, <1>5
    <3>3. b[i] = c[i - ((m - j) + Len(w))]
      BY <2>4, <1>7
    <3> QED BY <3>1, <3>2, <3>3, <2>1
  <2>5. i <= m - j \/ ~(i <= m - j)
    OBVIOUS
  <2> QED BY <2>2, <2>3, <2>4, <2>5
<1>10. s = b
  <2> HIDE DEF s, b, n
  <2> QED BY <1>7, <1>8, <1>9, SameIn
<1>11. Line(u, w, c, k) = a /\ Line(u, w, c, k + j) = b
  BY DEF Line, v, x
<1> QED BY <1>5, <1>10, <1>11

\* What is cut off in front is not in the rest.
LEMMA LineErased ==
  ASSUME NEW u \in Seq(AllUnits), NEW w \in Seq(AllUnits), NEW c \in Seq(AllUnits), NEW k \in 0..Len(u)
  PROVE  Line(SubSeq(u, k + 1, Len(u)), w, c, 0) = Line(u, w, c, k)
<1>1. SubSeq(u, k + 1, Len(u)) \in Seq(AllUnits)
  <2>1. Len(u) \in k..Len(u)
    OBVIOUS
  <2> QED BY <2>1, PartIn
<1> QED BY <1>1, LineAll DEF Line

\* What comes out of the wire.
LEMMA LineMoved ==
  ASSUME NEW u \in Seq(AllUnits), NEW w \in Seq(AllUnits), NEW c \in Seq(AllUnits), NEW n \in 0..Len(w)
  PROVE  /\ u \o SubSeq(w, 1, n) \in Seq(AllUnits) /\ SubSeq(w, n + 1, Len(w)) \in Seq(AllUnits)
         /\ Len(u \o SubSeq(w, 1, n)) = Len(u) + n
         /\ \A i \in 1..Len(u) : (u \o SubSeq(w, 1, n))[i] = u[i]
         /\ Line(u \o SubSeq(w, 1, n), SubSeq(w, n + 1, Len(w)), c, 0) = Line(u, w, c, 0)
<1> DEFINE x == SubSeq(w, 1, n)
           y == SubSeq(w, n + 1, Len(w))
<1>1. x \in Seq(AllUnits) /\ Len(x) = n /\ \A i \in 1..n : x[i] = w[i]
  <2>1. 0 \in 0..Len(w) /\ n \in 0..Len(w) /\ n - 0 = n /\ 0 + 1 = 1 /\ \A i \in 1..n : 0 + i = i
    OBVIOUS
  <2> QED BY <2>1, PartIn
<1>2. y \in Seq(AllUnits) /\ Len(y) = Len(w) - n /\ \A i \in 1..Len(w) - n : y[i] = w[n + i]
  <2>1. Len(w) \in n..Len(w)
    OBVIOUS
  <2> QED BY <2>1, PartIn
<1>3. n \in Nat /\ Len(w) - n \in Nat /\ n + (Len(w) - n) = Len(w) /\ Len(u) \in Nat
  OBVIOUS
<1> HIDE DEF x, y
<1>4. x \o y = w
  <2>1. /\ x \o y \in Seq(AllUnits) /\ Len(x \o y) = n + (Len(w) - n)
        /\ \A i \in 1..n + (Len(w) - n) : (x \o y)[i] = IF i <= n THEN x[i] ELSE y[i - n]
    BY <1>1, <1>2, ConcatIn
  <2>2. \A i \in 1..Len(w) : (x \o y)[i] = w[i]
    <3> TAKE i \in 1..Len(w)
    <3>1. i \in 1..n + (Len(w) - n) /\ (i <= n => i \in 1..n)
          /\ (~(i <= n) => i - n \in 1..Len(w) - n /\ n + (i - n) = i)
      BY <1>3
    <3> QED BY <3>1, <2>1, <1>1, <1>2
  <2> QED BY <2>1, <2>2, <1>3, SameIn
<1>5. /\ u \o x \in Seq(AllUnits) /\ Len(u \o x) = Len(u) + n
      /\ \A i \in 1..Len(u) + n : (u \o x)[i] = IF i <= Len(u) THEN u[i] ELSE x[i - Len(u)]
  BY <1>1, ConcatIn
<1>6. \A i \in 1..Len(u) : (u \o x)[i] = u[i]
  <2> TAKE i \in 1..Len(u)
  <2>1. i \in 1..Len(u) + n /\ i <= Len(u)
    BY <1>3
  <2> QED BY <2>1, <1>5
<1>7. (u \o x) \o y = u \o w
  <2>1. SameJoined(u, x, y)
    BY <1>1, <1>2, ConcatThree
  <2> QED BY <2>1, <1>4 DEF SameJoined
<1>8. Line(u \o x, y, c, 0) = ((u \o x) \o y) \o c
  BY <1>2, <1>5, LineAll
<1>9. Line(u, w, c, 0) = (u \o w) \o c
  BY LineAll
<1> QED BY <1>2, <1>5, <1>6, <1>7, <1>8, <1>9 DEF x, y

\* What is enciphered, wherever it lies.
LongerLine(u, w, c, k, s, t) ==
  /\ Line(u, w, (c \o s) \o t, k) = (Line(u, w, c, k) \o s) \o t
  /\ Line(u, w \o ((c \o s) \o t), <<>>, k) = (Line(u, w, c, k) \o s) \o t

LEMMA LineLonger ==
  ASSUME NEW u \in Seq(AllUnits), NEW w \in Seq(AllUnits), NEW c \in Seq(AllUnits), NEW k \in 0..Len(u),
         NEW s \in Seq(AllUnits), NEW t \in Seq(AllUnits)
  PROVE  LongerLine(u, w, c, k, s, t)
<1> DEFINE v == SubSeq(u, k + 1, Len(u))
           x == v \o w
           y == c \o s
           o == y \o t
<1>1. v \in Seq(AllUnits)
  <2>1. Len(u) \in k..Len(u)
    OBVIOUS
  <2> QED BY <2>1, PartIn
<1> HIDE DEF v
<1>2. x \in Seq(AllUnits) /\ y \in Seq(AllUnits) /\ o \in Seq(AllUnits) /\ x \o c \in Seq(AllUnits)
  BY <1>1, ConcatIn
<1>4. (v \o w) \o o = v \o (w \o o)
  <2>1. SameJoined(v, w, o)
    <3> HIDE DEF o
    <3> QED BY <1>1, <1>2, ConcatThree
  <2> QED BY <2>1 DEF SameJoined
<1>3. x \o o = ((x \o c) \o s) \o t
  <2>1. SameJoined(x, c, s)
    <3> HIDE DEF x
    <3> QED BY <1>2, ConcatThree
  <2>2. SameJoined(x, y, t)
    <3> HIDE DEF x, y
    <3> QED BY <1>2, ConcatThree
  <2> QED BY <2>1, <2>2 DEF SameJoined
<1>5. (v \o (w \o o)) \o <<>> = v \o (w \o o)
  <2>1. v \o (w \o o) \in Seq(AllUnits)
    BY <1>1, <1>2, ConcatIn
  <2> QED BY <2>1, ConcatEmptySeq
<1> QED BY <1>3, <1>4, <1>5 DEF LongerLine, Line, v
-----------------------------------------------------------------------------
(* What is taken from the front.                                           *)

LEMMA RunRest ==
  ASSUME NEW p \in Nat, NEW q \in Nat, p <= q, NEW out \in 0..q - p
  PROVE  SubSeq(Run(p, q), out + 1, q - p) = Run(p + out, q)
<1>1. /\ Run(p, q) \in Seq(Nat) /\ Len(Run(p, q)) = q - p
      /\ \A i \in 1..q - p : Run(p, q)[i] = p + i
  BY RunIs
<1>2. /\ Run(p + out, q) \in Seq(Nat) /\ Len(Run(p + out, q)) = (q - p) - out
      /\ \A i \in 1..(q - p) - out : Run(p + out, q)[i] = (p + out) + i
  <2>1. p + out \in Nat /\ p + out <= q /\ q - (p + out) = (q - p) - out
    OBVIOUS
  <2> QED BY <2>1, RunIs
<1> DEFINE n == q - p
           s == SubSeq(Run(p, q), out + 1, n)
<1>3. n \in Nat /\ out \in 0..n /\ n \in out..n /\ \A i \in 1..n - out : out + i \in 1..n /\ p + (out + i) = (p + out) + i
  OBVIOUS
<1> HIDE DEF n
<1>4. s \in Seq(Nat) /\ Len(s) = n - out /\ \A i \in 1..n - out : s[i] = Run(p, q)[out + i]
  <2>1. Run(p, q) \in Seq(Nat) /\ out \in 0..Len(Run(p, q)) /\ n \in out..Len(Run(p, q))
    BY <1>1, <1>3 DEF n
  <2> QED BY <2>1, PartIn
<1>5. \A i \in 1..n - out : s[i] = Run(p + out, q)[i]
  <2> TAKE i \in 1..n - out
  <2>1. s[i] = p + (out + i)
    BY <1>1, <1>3, <1>4 DEF n
  <2>2. Run(p + out, q)[i] = (p + out) + i
    BY <1>2 DEF n
  <2> QED BY <2>1, <2>2, <1>3
<1> HIDE DEF s
<1>6. s = Run(p + out, q)
  BY <1>2, <1>4, <1>5, SameIn DEF n
<1> QED BY <1>6 DEF s, n

\* The salt that has come whole is cut off.
LEMMA SaltCut ==
  ASSUME NEW w \in Seq(AllUnits), NEW c \in Seq(AllUnits), NEW s \in Seq(AllUnits),
         w \o c = SaltUnits \o s, Len(w) >= Salt
  PROVE  /\ SubSeq(w, 1, Salt) = SaltUnits /\ SubSeq(w, Salt + 1, Len(w)) \in Seq(AllUnits)
         /\ SubSeq(w, Salt + 1, Len(w)) \o c = s
<1>1. SaltUnits \in Seq(AllUnits) /\ Len(SaltUnits) = Salt /\ Salt \in Nat
  BY SaltUnitsAre, Sizes
<1>2. /\ w \o c \in Seq(AllUnits) /\ Len(w \o c) = Len(w) + Len(c)
      /\ \A k \in 1..Len(w) + Len(c) : (w \o c)[k] = IF k <= Len(w) THEN w[k] ELSE c[k - Len(w)]
  BY ConcatIn
<1>3. /\ Len(SaltUnits \o s) = Salt + Len(s)
      /\ \A k \in 1..Salt + Len(s) : (SaltUnits \o s)[k] = IF k <= Salt THEN SaltUnits[k] ELSE s[k - Salt]
  BY <1>1, ConcatIn
<1>4. Len(w) \in Nat /\ Len(c) \in Nat /\ Len(s) \in Nat /\ Len(w) + Len(c) = Salt + Len(s)
  BY <1>2, <1>3
<1>5. SubSeq(w, 1, Salt) = SaltUnits
  <2>1. /\ SubSeq(w, 1, Salt) \in Seq(AllUnits) /\ Len(SubSeq(w, 1, Salt)) = Salt
        /\ \A i \in 1..Salt : SubSeq(w, 1, Salt)[i] = w[i]
    <3>1. 0 \in 0..Len(w) /\ Salt \in 0..Len(w) /\ Salt - 0 = Salt /\ 0 + 1 = 1 /\ \A i \in 1..Salt : 0 + i = i
      BY <1>1, <1>4
    <3> QED BY <3>1, PartIn
  <2>2. \A i \in 1..Salt : SubSeq(w, 1, Salt)[i] = SaltUnits[i]
    <3> TAKE i \in 1..Salt
    <3>1. i <= Len(w) /\ i \in 1..Len(w) + Len(c) /\ i \in 1..Salt + Len(s) /\ i <= Salt
      BY <1>1, <1>4
    <3> QED BY <3>1, <2>1, <1>2, <1>3
  <2> QED BY <2>1, <2>2, <1>1, SameIn
<1>6. SubSeq(w, Salt + 1, Len(w)) \o c = s
  <2> DEFINE x == SubSeq(w, Salt + 1, Len(w))
             m == Len(w) - Salt
  <2>1. x \in Seq(AllUnits) /\ Len(x) = m /\ \A i \in 1..m : x[i] = w[Salt + i]
    <3>1. Salt \in 0..Len(w) /\ Len(w) \in Salt..Len(w)
      BY <1>1, <1>4
    <3> QED BY <3>1, PartIn
  <2>2. m \in Nat /\ m + Len(c) = Len(s) /\ Len(w) = Salt + m
    BY <1>1, <1>4
  <2> HIDE DEF x, m
  <2>3. /\ x \o c \in Seq(AllUnits) /\ Len(x \o c) = m + Len(c)
        /\ \A i \in 1..m + Len(c) : (x \o c)[i] = IF i <= m THEN x[i] ELSE c[i - m]
    BY <2>1, ConcatIn
  <2>4. \A i \in 1..Len(s) : (x \o c)[i] = s[i]
    <3> TAKE i \in 1..Len(s)
    <3>1. /\ Salt + i \in 1..Salt + Len(s) /\ ~(Salt + i <= Salt) /\ (Salt + i) - Salt = i
          /\ Salt + i \in 1..Len(w) + Len(c) /\ i \in 1..m + Len(c)
          /\ (i <= m <=> Salt + i <= Len(w)) /\ (Salt + i) - Len(w) = i - m /\ (i <= m => i \in 1..m)
      BY <1>1, <1>4, <2>2
    <3>2. (SaltUnits \o s)[Salt + i] = s[i]
      BY <3>1, <1>3
    <3>3. (w \o c)[Salt + i] = IF i <= m THEN w[Salt + i] ELSE c[i - m]
      BY <3>1, <1>2
    <3>4. (x \o c)[i] = IF i <= m THEN w[Salt + i] ELSE c[i - m]
      BY <3>1, <2>1, <2>3
    <3> QED BY <3>2, <3>3, <3>4
  <2>5. x \o c = s
    BY <2>2, <2>3, <2>4, SameIn
  <2> QED BY <2>5 DEF x
<1>7. SubSeq(w, Salt + 1, Len(w)) \in Seq(AllUnits)
  <2>1. Salt \in 0..Len(w) /\ Len(w) \in Salt..Len(w)
    BY <1>1, <1>4
  <2> QED BY <2>1, PartIn
<1> QED BY <1>5, <1>6, <1>7

\* Before the salt is read it lies in front of the records.
Carried(x, lead, z, e, p, q, low) ==
  \E s \in Seq(AllUnits) : /\ x = lead \o s
                           /\ Records(s, z, e, p, q, low)

LEMMA CarriedIs ==
  ASSUME NEW x, NEW z, NEW e, NEW p, NEW q, NEW low
  PROVE  Carried(x, <<>>, z, e, p, q, low) <=> Records(x, z, e, p, q, low)
<1>1. \A s \in Seq(AllUnits) : <<>> \o s = s
  BY ConcatEmptySeq
<1>2. Records(x, z, e, p, q, low) => x \in Seq(AllUnits)
  BY DEF Records
<1>3. Carried(x, <<>>, z, e, p, q, low) => Records(x, z, e, p, q, low)
  <2> HAVE Carried(x, <<>>, z, e, p, q, low)
  <2>1. PICK s \in Seq(AllUnits) : x = <<>> \o s /\ Records(s, z, e, p, q, low)
    BY DEF Carried
  <2>2. x = s
    BY <2>1, <1>1
  <2> QED BY <2>1, <2>2
<1>4. Records(x, z, e, p, q, low) => Carried(x, <<>>, z, e, p, q, low)
  BY <1>1, <1>2 DEF Carried
<1> QED BY <1>3, <1>4

LEMMA CarriedLow ==
  ASSUME NEW x, NEW lead, NEW z, NEW e, NEW p, NEW q, NEW low, Carried(x, lead, z, e, p, q, low)
  PROVE  Carried(x, lead, z, e, p, q, 0)
<1>1. PICK s \in Seq(AllUnits) : /\ x = lead \o s
                                 /\ Records(s, z, e, p, q, low)
  BY DEF Carried
<1>2. Records(s, z, e, p, q, 0)
  BY <1>1, RecordsLow
<1> QED BY <1>1, <1>2 DEF Carried

LEMMA CarriedLonger ==
  ASSUME NEW x, NEW lead, NEW z, NEW e, NEW p, NEW q, NEW low, Carried(x, lead, z, e, p, q, low),
         lead \in Seq(AllUnits), NEW len \in Nat, len \in low..ChunkMax
  PROVE  Carried((x \o SizeUnits(e, len)) \o PayloadUnits(e, len, q), lead, z, e + 2, p, q + len, low)
<1> DEFINE f == SizeUnits(e, len)
           g == PayloadUnits(e, len, q)
<1>1. PICK s \in Seq(AllUnits) : x = lead \o s /\ Records(s, z, e, p, q, low)
  BY DEF Carried
<1>3. e \in Nat /\ q \in Nat
  BY <1>1 DEF Records
<1>4. f \in Seq(AllUnits) /\ g \in Seq(AllUnits)
  BY <1>3, SizeUnitsAre, PayloadUnitsAre
<1>5. Records((s \o f) \o g, z, e + 2, p, q + len, low)
  BY <1>1, RecordsLonger
<1>6. s \o f \in Seq(AllUnits) /\ (s \o f) \o g \in Seq(AllUnits)
  BY <1>4, ConcatIn
<1> HIDE DEF f, g
<1>7. (x \o f) \o g = lead \o ((s \o f) \o g)
  <2>1. SameJoined(lead, s, f)
    BY <1>4, ConcatThree
  <2> DEFINE y == s \o f
  <2> HIDE DEF y
  <2>2. SameJoined(lead, y, g)
    BY <1>4, <1>6, ConcatThree DEF y
  <2> QED BY <2>1, <2>2, <1>1 DEF SameJoined, y
<1>8. Carried((x \o f) \o g, lead, z, e + 2, p, q + len, low)
  BY <1>5, <1>6, <1>7 DEF Carried
<1> QED BY <1>8 DEF f, g
-----------------------------------------------------------------------------
(* The inductive invariant.                                                *)

\* What is not deciphered from a place of unprocessed on is a stream of records, the first with
\* nonce z, that holds the plain bytes behind those deciphered.
Taken == given + ChunkData(decrypted, ChunkSize)
Lead == IF at = "salt" THEN SaltUnits ELSE <<>>
Low == IF flushes = 0 THEN 1 ELSE 0
InStream(k, z) ==
  Carried(Line(unprocessed, wire, encrypted, k), Lead, z, enc, Taken, sent - plain, Low)

\* Has the decryptor used the nonce of the size that stands at from?
Inside == IF payload > 0 \/ at = "payload" THEN 1 ELSE 0

\* From where decipher is the stream is whole, and the decryptor has its nonce; if there is
\* nothing to erase it is whole from the beginning too.
StreamInv ==
  Alive => /\ \E z \in Nat : InStream(from, z) /\ (flushes = 0 => dec = z + Inside)
           /\ ~decr => \E z \in Nat : InStream(0, z)

\* The size that is kept is the one at from; and from is 0 wherever something is deciphered that
\* has not been erased since.
PlaceInv ==
  /\ at = "salt" => unprocessed = <<>>
  /\ at \notin {"salt", "closed"} => key = SaltUnits
  /\ payload > 0 \/ at = "payload" =>
       from + (SizeLen + Tag) <= Len(unprocessed) /\ payload = unprocessed[from + 1].block.len
  /\ at = "payload" => cur = from + (SizeLen + Tag)
  /\ Alive /\ at \notin {"decrypt", "payload", "erase"} => from = 0
  /\ payload > 0 /\ at = "decrypt" => from = 0
  /\ ~decr /\ at \in {"decrypt", "payload"} => from = 0
  /\ ~decr /\ at = "erase" /\ payload > 0 => from = 0
  /\ ~decr /\ flushes = 0 => from = 0

SenderInv ==
  /\ sending /\ flushes = 0 => plain > 0
  /\ ~sending => plain = 0
  /\ plain <= sent

FailInv == flushes = 0 => at # "failed"

\* What is deciphered and not handed over are the bytes behind those that are.
DataInv ==
  /\ IsChunks(decrypted, ChunkSize)
  /\ Alive => ChunkContents(decrypted, ChunkSize) = Run(given, Taken)

\* A ready bit of the inner pipe stands for bytes or for the end.
ReadyInv ==
  /\ "system" \in ready => wire # <<>> \/ fin
  /\ at = "inner" => "pipe" \notin ready
  /\ header # <<>> \/ at \in {"salt", "header"} => ready = {}
  /\ at \in {"wait", "read", "give"} => header = <<>>

IInv == TypeOK /\ StreamInv /\ PlaceInv /\ SenderInv /\ FailInv /\ DataInv /\ ReadyInv

LEMMA TypesAre ==
  ASSUME TypeOK, DataInv
  PROVE  /\ encrypted \in Seq(AllUnits) /\ wire \in Seq(AllUnits) /\ key \in Seq(AllUnits)
         /\ unprocessed \in Seq(AllUnits) /\ Len(unprocessed) \in Nat /\ Len(wire) \in Nat
         /\ sent \in Nat /\ plain \in Nat /\ enc \in Nat /\ dec \in Nat /\ flushes \in Nat
         /\ payload \in Nat /\ from \in 0..Len(unprocessed) /\ from \in Nat
         /\ cur \in 0..Len(unprocessed) /\ cur \in Nat /\ given \in Nat
         /\ ChunkData(decrypted, ChunkSize) \in Nat /\ Taken \in Nat /\ Low \in {0, 1}
         /\ SizeLen + Tag \in Nat \ {0} /\ Tag \in Nat \ {0} /\ Salt \in Nat \ {0}
<1>1. ChunkSize \in Nat \ {0} /\ SizeLen \in Nat \ {0} /\ Tag \in Nat \ {0} /\ Salt \in Nat \ {0}
      /\ MaxSent \in Nat /\ MaxSend \in Nat /\ MaxFlushes \in Nat /\ ChunkMax \in Nat
  BY Sizes
<1>2. ChunkData(decrypted, ChunkSize) \in Nat
  BY <1>1, ChunksAre DEF DataInv
<1>3. /\ encrypted \in Seq(AllUnits) /\ wire \in Seq(AllUnits) /\ key \in Seq(AllUnits)
      /\ unprocessed \in Seq(AllUnits) /\ Len(unprocessed) \in Nat /\ Len(wire) \in Nat
  BY DEF TypeOK
<1>4. /\ sent \in Nat /\ plain \in Nat /\ enc \in Nat /\ dec \in Nat /\ flushes \in Nat
      /\ payload \in Nat /\ from \in 0..Len(unprocessed) /\ from \in Nat
      /\ cur \in 0..Len(unprocessed) /\ cur \in Nat /\ given \in Nat
  BY <1>1, <1>3 DEF TypeOK
<1>5. Taken \in Nat /\ Low \in {0, 1} /\ SizeLen + Tag \in Nat \ {0}
  BY <1>1, <1>2, <1>4 DEF Taken, Low
<1> QED BY <1>1, <1>2, <1>3, <1>4, <1>5

\* What stands where decipher is: a record, of which a part has come.
LEMMA AtFront ==
  ASSUME TypeOK, DataInv, NEW z \in Nat, InStream(from, z), at # "salt", from < Len(unprocessed)
  PROVE  LET len == unprocessed[from + 1].block.len
             u == SizeLen + Tag
         IN  /\ len \in Nat /\ len \in Low..ChunkMax
             /\ \A i \in 1..u : i <= Len(unprocessed) - from =>
                  unprocessed[from + i] = [block |-> Block(z, "size", len, 0), at |-> i]
             /\ \A i \in 1..len + Tag : u + i <= Len(unprocessed) - from =>
                  unprocessed[(from + u) + i] = [block |-> Block(z + 1, "payload", len, Taken + 1), at |-> i]
             /\ Over(len) <= Len(unprocessed) - from =>
                  /\ Carried(Line(unprocessed, wire, encrypted, from + Over(len)), <<>>,
                             z + 2, enc, Taken + len, sent - plain, Low)
<1> DEFINE x == Line(unprocessed, wire, encrypted, from)
           m == Len(unprocessed) - from
           u == SizeLen + Tag
           len == x[1].block.len
<1>1. /\ unprocessed \in Seq(AllUnits) /\ wire \in Seq(AllUnits) /\ encrypted \in Seq(AllUnits)
      /\ from \in 0..Len(unprocessed) /\ Low \in {0, 1} /\ u \in Nat \ {0} /\ Taken \in Nat /\ Tag \in Nat \ {0}
      /\ from \in Nat /\ Len(unprocessed) \in Nat
  BY TypesAre
<1>2. /\ x \in Seq(AllUnits) /\ Len(x) = (m + Len(wire)) + Len(encrypted)
      /\ \A i \in 1..m : x[i] = unprocessed[from + i]
  <2>1. /\ unprocessed \in Seq(AllUnits) /\ wire \in Seq(AllUnits) /\ encrypted \in Seq(AllUnits)
        /\ from \in 0..Len(unprocessed)
    BY <1>1
  <2> HIDE DEF x, m
  <2>2. /\ Line(unprocessed, wire, encrypted, from) \in Seq(AllUnits)
        /\ Len(Line(unprocessed, wire, encrypted, from))
             = ((Len(unprocessed) - from) + Len(wire)) + Len(encrypted)
        /\ \A i \in 1..Len(unprocessed) - from :
             Line(unprocessed, wire, encrypted, from)[i] = unprocessed[from + i]
    BY ONLY <2>1, LineIs
  <2> QED BY ONLY <2>2 DEF x, m
<1>3. m \in Nat /\ m > 0 /\ Len(wire) \in Nat /\ Len(encrypted) \in Nat
  BY <1>1
<1>4. Records(x, z, enc, Taken, sent - plain, Low)
  <2>1. Carried(x, <<>>, z, enc, Taken, sent - plain, Low)
    BY DEF InStream, Lead
  <2> HIDE DEF x
  <2> QED BY <2>1, CarriedIs
<1> HIDE DEF x, m
<1>5. Len(x) # 0 /\ Len(x) >= m
  BY <1>2, <1>3
<1>6. /\ len \in Nat /\ len \in Low..ChunkMax /\ Over(len) <= Len(x)
      /\ RecordAt(x, 0, z, Taken, len)
      /\ Records(SubSeq(x, Over(len) + 1, Len(x)), z + 2, enc, Taken + len, sent - plain, Low)
  BY <1>4, <1>5, RecordsFirst
<1>7. len = unprocessed[from + 1].block.len
  <2>1. 1 \in 1..m
    BY <1>3
  <2>2. x[1] = unprocessed[from + 1]
    BY <1>2, <2>1
  <2> QED BY <2>2
<1> HIDE DEF len
<1>8. ASSUME NEW i \in 1..u, i <= m
      PROVE  unprocessed[from + i] = [block |-> Block(z, "size", len, 0), at |-> i]
  <2>1. i \in 1..m /\ 0 + i = i
    BY <1>1, <1>3, <1>8
  <2>2. x[0 + i] = [block |-> Block(z, "size", len, 0), at |-> i]
    BY <1>6, <1>8 DEF RecordAt
  <2> QED BY <2>1, <2>2, <1>2
<1>9. ASSUME NEW i \in 1..len + Tag, u + i <= m
      PROVE  unprocessed[(from + u) + i] = [block |-> Block(z + 1, "payload", len, Taken + 1), at |-> i]
  <2>1. u + i \in 1..m /\ (0 + u) + i = u + i /\ (from + u) + i = from + (u + i)
    <3>1. len + Tag \in Nat /\ i \in Nat /\ i >= 1
      BY <1>1, <1>6
    <3> HIDE DEF u
    <3> QED BY <3>1, <1>1, <1>3, <1>9
  <2>2. x[(0 + u) + i] = [block |-> Block(z + 1, "payload", len, Taken + 1), at |-> i]
    BY <1>6, <1>9 DEF RecordAt
  <2> QED BY <2>1, <2>2, <1>2
<1>10. ASSUME Over(len) <= m
       PROVE  Carried(Line(unprocessed, wire, encrypted, from + Over(len)), <<>>,
                      z + 2, enc, Taken + len, sent - plain, Low)
  <2> DEFINE o == Over(len)
  <2>1. o \in 0..Len(unprocessed) - from
    BY <1>6, <1>10, OverIs DEF m
  <2> HIDE DEF o
  <2>2. SubSeq(x, o + 1, Len(x)) = Line(unprocessed, wire, encrypted, from + o)
    BY <2>1, <1>1, LineRest DEF x
  <2>3. Records(Line(unprocessed, wire, encrypted, from + o), z + 2, enc, Taken + len, sent - plain, Low)
    BY <2>2, <1>6 DEF o
  <2>4. Carried(Line(unprocessed, wire, encrypted, from + o), <<>>, z + 2, enc, Taken + len, sent - plain, Low)
    BY <2>3, CarriedIs
  <2> QED BY <2>4 DEF o
<1> QED BY <1>6, <1>7, <1>8, <1>9, <1>10 DEF m
\* A block that has come whole deciphers, as long as the nonces agree.
LEMMA SizeDeciphers ==
  ASSUME TypeOK, DataInv, StreamInv, PlaceInv, flushes = 0,
         at = "decrypt", payload = 0, Rest(from) >= SizeLen + Tag
  PROVE  Authentic(from, SizeLen + Tag)
<1> DEFINE u == SizeLen + Tag
           len == unprocessed[from + 1].block.len
           b == Block(dec, "size", len, 0)
<1>1. /\ unprocessed \in Seq(AllUnits) /\ from \in 0..Len(unprocessed) /\ u \in Nat \ {0} /\ from \in Nat
      /\ Len(unprocessed) \in Nat
  BY TypesAre
<1>2. from + u <= Len(unprocessed) /\ from < Len(unprocessed) /\ from + u \in from..Len(unprocessed)
  BY <1>1 DEF Rest
<1>3. InStream(from, dec) /\ dec \in Nat
  <2>1. PICK z \in Nat : InStream(from, z) /\ dec = z + Inside
    BY DEF StreamInv, Alive
  <2>2. Inside = 0
    BY DEF Inside
  <2> QED BY <2>1, <2>2
<1>4. /\ len \in Nat
      /\ \A i \in 1..u : i <= Len(unprocessed) - from => unprocessed[from + i] = [block |-> b, at |-> i]
  BY <1>2, <1>3, AtFront
<1>5. \A i \in 1..u : unprocessed[from + i] = [block |-> b, at |-> i]
  <2> TAKE i \in 1..u
  <2>1. i <= Len(unprocessed) - from
    <3> HIDE DEF u
    <3> QED BY <1>1, <1>2
  <2> QED BY <2>1, <1>4
<1> HIDE DEF len
<1>6. Units(b) \in Seq(AllUnits) /\ Len(Units(b)) = u /\ \A i \in 1..u : Units(b)[i] = [block |-> b, at |-> i]
  BY <1>3, <1>4, SizeUnitsAre DEF SizeUnits
<1> HIDE DEF b, u
<1> DEFINE x == SubSeq(unprocessed, from + 1, from + u)
<1>7. x \in Seq(AllUnits) /\ Len(x) = u /\ \A i \in 1..u : x[i] = unprocessed[from + i]
  <2>1. (from + u) - from = u
    BY <1>1
  <2> QED BY <1>1, <1>2, <2>1, PartIn
<1> HIDE DEF x
<1>8. x = Units(b)
  <2>1. \A i \in 1..u : x[i] = Units(b)[i]
    BY <1>5, <1>6, <1>7
  <2> QED BY <2>1, <1>6, <1>7, SameIn
<1>9. unprocessed[from + 1].block = b
  <2>1. 1 \in 1..u
    BY <1>1
  <2>2. unprocessed[from + 1] = [block |-> b, at |-> 1]
    BY <2>1, <1>5
  <2> QED BY <2>2
<1>10. b.kind = "size" /\ b.nonce = dec
  BY DEF b, Block
<1>11. key = SaltUnits
  BY DEF PlaceInv
<1>12. x = Units(unprocessed[from + 1].block) /\ unprocessed[from + 1].block.kind # "salt"
       /\ unprocessed[from + 1].block.nonce = dec
  BY <1>8, <1>9, <1>10
<1> QED BY <1>11, <1>12 DEF Authentic, x, u

\* The block behind the size that has been deciphered.
LEMMA PayloadThere ==
  ASSUME TypeOK, DataInv, StreamInv, PlaceInv, at = "payload", Rest(cur) >= payload + Tag
  PROVE  \E z \in Nat :
           LET b == Block(z + 1, "payload", payload, Taken + 1)
           IN  /\ InStream(from, z) /\ (flushes = 0 => dec = z + 1)
               /\ payload \in Low..ChunkMax /\ Over(payload) <= Len(unprocessed) - from
               /\ unprocessed[cur + 1].block = b
               /\ SubSeq(unprocessed, cur + 1, cur + (payload + Tag)) = Units(b)
               /\ Carried(Line(unprocessed, wire, encrypted, from + Over(payload)), <<>>,
                          z + 2, enc, Taken + payload, sent - plain, Low)
<1> DEFINE u == SizeLen + Tag
           len == unprocessed[from + 1].block.len
           w == payload + Tag
<1>1. /\ unprocessed \in Seq(AllUnits) /\ from \in 0..Len(unprocessed) /\ u \in Nat \ {0} /\ from \in Nat
      /\ Len(unprocessed) \in Nat /\ payload \in Nat /\ Tag \in Nat \ {0} /\ cur \in Nat
      /\ cur \in 0..Len(unprocessed) /\ Taken \in Nat
  BY TypesAre
<1>2. cur = from + u /\ payload = len /\ from + u <= Len(unprocessed)
  BY DEF PlaceInv
<1>3. w \in Nat /\ w >= 1 /\ cur + w <= Len(unprocessed)
  BY <1>1 DEF Rest
<1>4. from < Len(unprocessed) /\ Over(payload) <= Len(unprocessed) - from /\ Over(payload) = u + w
  <2>1. Over(payload) = u + w
    BY DEF Over
  <2> HIDE DEF u, w
  <2> QED BY <2>1, <1>1, <1>2, <1>3
<1>5. PICK z \in Nat : InStream(from, z) /\ (flushes = 0 => dec = z + Inside)
  BY DEF StreamInv, Alive
<1>6. Inside = 1
  BY DEF Inside
<1> DEFINE b == Block(z + 1, "payload", payload, Taken + 1)
<1>7. /\ payload \in Low..ChunkMax
      /\ \A i \in 1..payload + Tag : u + i <= Len(unprocessed) - from =>
           unprocessed[(from + u) + i] = [block |-> b, at |-> i]
      /\ Over(payload) <= Len(unprocessed) - from =>
           Carried(Line(unprocessed, wire, encrypted, from + Over(payload)), <<>>,
                   z + 2, enc, Taken + payload, sent - plain, Low)
  <2>1. at # "salt"
    OBVIOUS
  <2>2. /\ len \in Low..ChunkMax
        /\ \A i \in 1..len + Tag : u + i <= Len(unprocessed) - from =>
             unprocessed[(from + u) + i] = [block |-> Block(z + 1, "payload", len, Taken + 1), at |-> i]
        /\ Over(len) <= Len(unprocessed) - from =>
             Carried(Line(unprocessed, wire, encrypted, from + Over(len)), <<>>,
                     z + 2, enc, Taken + len, sent - plain, Low)
    BY <2>1, <1>4, <1>5, AtFront
  <2> HIDE DEF len
  <2> QED BY <2>2, <1>2
<1> HIDE DEF b
<1>8. \A i \in 1..w : unprocessed[cur + i] = [block |-> b, at |-> i]
  <2> TAKE i \in 1..w
  <2>1. u + i <= Len(unprocessed) - from /\ (from + u) + i = cur + i
    <3> HIDE DEF u, w
    <3> QED BY <1>1, <1>2, <1>3
  <2> QED BY <2>1, <1>7
<1>9. Units(b) \in Seq(AllUnits) /\ Len(Units(b)) = w /\ \A i \in 1..w : Units(b)[i] = [block |-> b, at |-> i]
  <2>1. PayloadUnits(z, payload, Taken) = Units(b)
    BY DEF PayloadUnits, b
  <2>2. z \in Nat /\ payload \in Nat /\ Taken \in Nat
    BY <1>1, <1>5
  <2>3. /\ PayloadUnits(z, payload, Taken) \in Seq(AllUnits)
        /\ Len(PayloadUnits(z, payload, Taken)) = payload + Tag
        /\ \A i \in 1..payload + Tag :
             PayloadUnits(z, payload, Taken)[i] = [block |-> Block(z + 1, "payload", payload, Taken + 1), at |-> i]
    BY ONLY <2>2, PayloadUnitsAre
  <2> QED BY <2>1, <2>3 DEF b
<1> HIDE DEF w
<1> DEFINE x == SubSeq(unprocessed, cur + 1, cur + w)
<1>10. x \in Seq(AllUnits) /\ Len(x) = w /\ \A i \in 1..w : x[i] = unprocessed[cur + i]
  <2>1. (cur + w) - cur = w /\ cur + w \in cur..Len(unprocessed)
    BY <1>1, <1>3
  <2> DEFINE all == unprocessed
             end == cur + w
             part == SubSeq(all, cur + 1, end)
  <2>2. all \in Seq(AllUnits) /\ cur \in 0..Len(all) /\ end \in cur..Len(all) /\ end - cur = w
    BY <1>1, <2>1
  <2> HIDE DEF all, end
  <2>3. part \in Seq(AllUnits) /\ Len(part) = end - cur /\ \A i \in 1..end - cur : part[i] = all[cur + i]
    BY ONLY <2>2, PartIn
  <2>4. part = x
    BY DEF all, end
  <2> HIDE DEF part, x
  <2>5. part \in Seq(AllUnits) /\ Len(part) = w /\ \A i \in 1..w : part[i] = all[cur + i]
    BY ONLY <2>2, <2>3
  <2> QED BY <2>4, <2>5 DEF all
<1> HIDE DEF x
<1>11. x = Units(b)
  <2>1. \A i \in 1..w : x[i] = Units(b)[i]
    BY <1>8, <1>9, <1>10
  <2> QED BY <2>1, <1>9, <1>10, SameIn
<1>12. unprocessed[cur + 1].block = b
  <2>1. 1 \in 1..w
    BY <1>3
  <2>2. unprocessed[cur + 1] = [block |-> b, at |-> 1]
    BY <2>1, <1>8
  <2> QED BY <2>2
<1> QED BY <1>4, <1>5, <1>6, <1>7, <1>11, <1>12 DEF x, b, w

LEMMA PayloadDeciphers ==
  ASSUME TypeOK, DataInv, StreamInv, PlaceInv, flushes = 0, at = "payload", Rest(cur) >= payload + Tag
  PROVE  Authentic(cur, payload + Tag)
<1> DEFINE w == payload + Tag
<1>1. PICK z \in Nat :
        LET b == Block(z + 1, "payload", payload, Taken + 1)
        IN  /\ dec = z + 1 /\ unprocessed[cur + 1].block = b
            /\ SubSeq(unprocessed, cur + 1, cur + w) = Units(b)
  BY PayloadThere
<1> HIDE DEF w
<1> DEFINE b == unprocessed[cur + 1].block
<1>2. b.kind = "payload" /\ b.nonce = dec
  BY <1>1 DEF Block
<1>3. SubSeq(unprocessed, cur + 1, cur + w) = Units(b)
  BY <1>1
<1>4. key = SaltUnits
  BY DEF PlaceInv
<1> HIDE DEF b
<1>5. b.kind # "salt"
  BY <1>2
<1> QED BY <1>2, <1>3, <1>4, <1>5 DEF Authentic, b, w
-----------------------------------------------------------------------------
(* The types, step by step.                                                *)

LEMMA UnitsEnciphered ==
  ASSUME TypeOK, DataInv, SenderInv
  PROVE  LET len == Smaller(plain, ChunkMax)
         IN  /\ len \in Nat /\ len <= plain /\ len <= ChunkMax /\ plain - len \in Nat
             /\ (len < plain => len = ChunkMax) /\ sent - plain \in Nat
             /\ SizeUnits(enc, len) \in Seq(AllUnits)
             /\ PayloadUnits(enc, len, sent - plain) \in Seq(AllUnits)
<1> DEFINE len == Smaller(plain, ChunkMax)
<1>1. plain \in Nat /\ ChunkMax \in Nat /\ sent \in Nat /\ enc \in Nat /\ plain <= sent
  BY TypesAre, Sizes DEF SenderInv
<1>2. /\ len \in Nat /\ len <= plain /\ len <= ChunkMax /\ plain - len \in Nat
      /\ (len < plain => len = ChunkMax) /\ sent - plain \in Nat
  BY <1>1 DEF Smaller
<1> HIDE DEF len
<1>3. SizeUnits(enc, len) \in Seq(AllUnits) /\ PayloadUnits(enc, len, sent - plain) \in Seq(AllUnits)
  BY <1>1, <1>2, SizeUnitsAre, PayloadUnitsAre
<1> QED BY <1>2, <1>3 DEF len

\* encipher, in the words of these proofs.
LEMMA EncipherIs ==
  ASSUME TypeOK, DataInv, SenderInv, Encipher
  PROVE  LET len == Smaller(plain, ChunkMax)
             out == (encrypted \o SizeUnits(enc, len)) \o PayloadUnits(enc, len, sent - plain)
         IN  /\ enc' = enc + 2 /\ plain' = plain - len /\ out \in Seq(AllUnits)
             /\ \/ len < plain /\ encrypted' = out /\ UNCHANGED <<sending, wire>>
                \/ len = plain /\ wire' = wire \o out /\ encrypted' = <<>> /\ sending' = FALSE
<1> DEFINE len == Smaller(plain, ChunkMax)
           out == (encrypted \o SizeUnits(enc, len)) \o PayloadUnits(enc, len, sent - plain)
<1>1. len \in Nat /\ len <= plain /\ plain \in Nat /\ encrypted \in Seq(AllUnits)
  BY UnitsEnciphered, TypesAre
<1>2. SizeUnits(enc, len) \in Seq(AllUnits) /\ PayloadUnits(enc, len, sent - plain) \in Seq(AllUnits)
  BY UnitsEnciphered
<1>3. out \in Seq(AllUnits)
  BY <1>1, <1>2, ConcatIn
<1>4. /\ enc' = enc + 2 /\ plain' = plain - len
      /\ IF len < plain
         THEN encrypted' = out /\ UNCHANGED <<sending, wire>>
         ELSE wire' = wire \o out /\ encrypted' = <<>> /\ sending' = FALSE
  BY Zenon DEF Encipher, SizeUnits, PayloadUnits
<1> HIDE DEF out
<1>5. len < plain \/ len = plain
  BY <1>1
<1>6. len = plain => ~(len < plain)
  BY <1>1
<1> HIDE DEF len
<1> QED BY <1>3, <1>4, <1>5, <1>6 DEF out, len

\* A part of the wire.
LEMMA WireCut ==
  ASSUME TypeOK, NEW n \in 0..Len(wire)
  PROVE  SubSeq(wire, 1, n) \in Seq(AllUnits) /\ SubSeq(wire, n + 1, Len(wire)) \in Seq(AllUnits)
<1>1. wire \in Seq(AllUnits)
  BY DEF TypeOK
<1>2. 0 \in 0..Len(wire) /\ n \in 0..Len(wire) /\ Len(wire) \in n..Len(wire) /\ 0 + 1 = 1
  BY <1>1
<1>3. SubSeq(wire, 0 + 1, n) \in Seq(AllUnits) /\ SubSeq(wire, n + 1, Len(wire)) \in Seq(AllUnits)
  BY <1>1, <1>2, PartIn
<1> QED BY <1>2, <1>3

LEMMA HeaderFirst ==
  ASSUME NEW h \in Seq(Nat), h # <<>>
  PROVE  h[1] \in Nat /\ Tail(h) \in Seq(Nat)
OBVIOUS

LEMMA TypesKept ==
  ASSUME IInv, Next
  PROVE  TypeOK'
<1> USE DEF IInv
<1> DEFINE u == SizeLen + Tag
           m == Len(unprocessed)
<1>a. /\ unprocessed \in Seq(AllUnits) /\ wire \in Seq(AllUnits) /\ encrypted \in Seq(AllUnits)
      /\ m \in Nat /\ from \in 0..m /\ from \in Nat /\ cur \in 0..m /\ cur \in Nat /\ payload \in Nat
      /\ dec \in Nat /\ given \in Nat /\ ChunkData(decrypted, ChunkSize) \in Nat
      /\ Tag \in Nat \ {0} /\ u \in Nat \ {0}
  BY TypesAre
<1>b. \A n \in Nat : n + SizeLen + Tag = n + u
  BY Sizes
<1> HIDE DEF u, m
<1>1. ASSUME NEW n \in 0..MaxSend, SendStarts(n)
      PROVE  TypeOK'
  BY <1>1, Sizes DEF TypeOK, SendStarts, decryptor
<1>2. CASE Encipher
  <2> DEFINE len == Smaller(plain, ChunkMax)
             out == (encrypted \o SizeUnits(enc, len)) \o PayloadUnits(enc, len, sent - plain)
  <2>1. /\ enc' = enc + 2 /\ plain' = plain - len /\ out \in Seq(AllUnits)
        /\ \/ len < plain /\ encrypted' = out /\ UNCHANGED <<sending, wire>>
           \/ len = plain /\ wire' = wire \o out /\ encrypted' = <<>> /\ sending' = FALSE
    BY <1>2, EncipherIs
  <2>2. len \in Nat /\ len <= plain /\ plain \in Nat /\ enc \in Nat /\ wire \in Seq(AllUnits)
        /\ encrypted \in Seq(AllUnits) /\ MaxSend \in Nat /\ plain \in 0..MaxSend
    BY UnitsEnciphered, TypesAre, Sizes DEF TypeOK
  <2> HIDE DEF out, len
  <2>3. wire \o out \in Seq(AllUnits) /\ <<>> \in Seq(AllUnits)
    BY <2>1, <2>2, ConcatIn, EmptySeq
  <2>4. encrypted' \in Seq(AllUnits) /\ wire' \in Seq(AllUnits) /\ sending' \in BOOLEAN
    BY <2>1, <2>2, <2>3 DEF TypeOK
  <2>5. plain' \in 0..MaxSend /\ enc' \in Nat
    BY <2>1, <2>2
  <2> QED BY <2>4, <2>5, <1>2 DEF TypeOK, Encipher, decryptor
<1>3. CASE SenderEnds
  BY <1>3 DEF TypeOK, SenderEnds, sender, decryptor
<1>4. CASE RecvSalt
  <2>1. key' \in Seq(AllUnits) /\ wire' \in Seq(AllUnits)
    <3>1. Salt \in 0..Len(wire)
      BY <1>4, TypesAre DEF RecvSalt
    <3> QED BY <1>4, <3>1, WireCut DEF RecvSalt
  <2> QED BY <1>4, <2>1 DEF TypeOK, RecvSalt, sender, Places
<1>5. CASE SaltFails
  BY <1>5 DEF TypeOK, SaltFails, Closes, sender, decryptor, Places
<1>6. CASE HeaderRead
  <2>0. header[1] \in Nat /\ Tail(header) \in Seq(Nat)
    <3>1. header \in Seq(Nat) /\ header # <<>>
      BY <1>6 DEF HeaderRead, TypeOK
    <3> QED BY <3>1, HeaderFirst
  <2>1. given' \in Nat
    <3>1. given' = given + header[1]
      BY <1>6 DEF HeaderRead
    <3> DEFINE g == header[1]
    <3>2. g \in Nat /\ given' = given + g /\ given \in Nat
      BY <3>1, <2>0, <1>a
    <3> HIDE DEF g
    <3> QED BY ONLY <3>2
  <2>2. header' \in Seq(Nat)
    BY <1>6, <2>0 DEF HeaderRead
  <2> QED BY <1>6, <2>1, <2>2 DEF TypeOK, HeaderRead, sender, decryptor
<1>7. CASE HeaderAsks
  BY <1>7 DEF TypeOK, HeaderAsks, sender, decryptor, Places
<1>8. CASE Bridged
  BY <1>8 DEF TypeOK, Bridged, sender, decryptor, Places
<1>9. CASE Wait
  BY <1>9 DEF TypeOK, Wait, Registered, sender, decryptor, Places
<1>10. CASE RecvStarts
  BY <1>10 DEF TypeOK, RecvStarts, sender, decryptor, Places
<1>11. CASE InnerRecv
  <2>1. PICK n \in 1..Len(wire) : /\ unprocessed' = unprocessed \o SubSeq(wire, 1, n)
                                  /\ wire' = SubSeq(wire, n + 1, Len(wire))
    BY <1>11 DEF InnerRecv
  <2>2. n \in 0..Len(wire) /\ n \in Nat
    BY <1>a
  <2>3. unprocessed' \in Seq(AllUnits) /\ wire' \in Seq(AllUnits) /\ Len(unprocessed') = m + n
    BY <2>1, <2>2, <1>a, LineMoved DEF m
  <2>a. from' = from /\ cur' = cur /\ payload' = payload /\ (payload > 0 => from + u <= m)
    BY <1>11, <1>a, <1>b DEF InnerRecv, TypeOK, m
  <2>4. from' \in 0..Len(unprocessed') /\ cur' \in 0..Len(unprocessed') /\ (payload' > 0 => from' + SizeLen + Tag <= Len(unprocessed'))
    <3>1. from' \in 0..m + n
      BY <1>a, <2>a, <2>2
    <3>2. cur' \in 0..m + n
      BY <1>a, <2>a, <2>2
    <3>3. payload' > 0 => from' + SizeLen + Tag <= m + n
      BY <1>a, <1>b, <2>a, <2>2
    <3> QED BY <3>1, <3>2, <3>3, <2>3
  <2> QED BY <1>11, <2>3, <2>4 DEF TypeOK, InnerRecv, sender, Places
<1>12. CASE InnerFails
  BY <1>12 DEF TypeOK, InnerFails, Closes, sender, decryptor, Places
<1>13. CASE Gives
  <2>1. PICK max \in {1, MaxSent} : given' = given + Smaller(max, ChunkData(decrypted, ChunkSize))
    BY <1>13 DEF Gives
  <2>2. max \in Nat
    BY Sizes
  <2>3. given' \in Nat
    BY <2>1, <2>2, <1>a DEF Smaller
  <2> QED BY <1>13, <2>3 DEF TypeOK, Gives, sender, decryptor, Places
<1>14. CASE LoopEnds
  BY <1>14 DEF TypeOK, LoopEnds, sender, decryptor, Places
<1>15. CASE DecryptSize
  <2> DEFINE len == unprocessed[from + 1].block.len
  <2>0. m - from >= u
    BY <1>15 DEF DecryptSize, Rest, m, u
  <2>1. u >= 1 /\ from + u <= m /\ from < m
    BY <1>a, <2>0
  <2>2. len \in Nat /\ len \in 0..ChunkMax
    <3>1. PICK z \in Nat : InStream(from, z)
      BY <1>15 DEF StreamInv, DecryptSize, Alive
    <3>2. from < Len(unprocessed) /\ at # "salt"
      BY <1>15, <2>1 DEF DecryptSize, m
    <3>3. len \in Nat /\ len \in Low..ChunkMax
      BY <3>1, <3>2, AtFront
    <3> QED BY <3>3, Sizes DEF Low
  <2>3. payload' = len /\ cur' = from + u /\ dec' = dec + 1
    BY <1>15, <1>a, <1>b DEF DecryptSize
  <2> HIDE DEF len
  <2>4. /\ payload' \in 0..ChunkMax /\ dec' \in Nat
        /\ cur' \in 0..Len(unprocessed) /\ from + SizeLen + Tag <= Len(unprocessed)
    BY <2>1, <2>2, <2>3, <1>a, <1>b DEF m
  <2> QED BY <1>15, <2>3, <2>4 DEF TypeOK, DecryptSize, sender, Places
<1>16. CASE SizeKnown
  <2>1. cur' = u /\ from = 0 /\ from + u <= m
    BY <1>16 DEF SizeKnown, PlaceInv, u, m
  <2>2. cur' \in 0..Len(unprocessed)
    BY <2>1, <1>a DEF m
  <2> QED BY <1>16, <2>2 DEF TypeOK, SizeKnown, sender, Places
<1>17. CASE PayloadWaits
  BY <1>17 DEF TypeOK, PayloadWaits, sender, decryptor, Places
<1>18. CASE DecryptPayload
  <2>1. m - cur >= payload + Tag /\ from' = cur + payload + Tag /\ dec' = dec + 1
    BY <1>18 DEF DecryptPayload, Rest, m
  <2>2. from' \in 0..Len(unprocessed) /\ dec' \in Nat
    BY <2>1, <1>a DEF m
  <2>3. payload' = 0 /\ 0 \in 0..ChunkMax /\ decr' \in BOOLEAN /\ at' \in Places /\ ~(payload' > 0)
    BY <1>18, Sizes DEF DecryptPayload, Places
  <2> QED BY <1>18, <2>2, <2>3 DEF TypeOK, DecryptPayload, sender
<1>19. CASE DecryptFails
  BY <1>19 DEF TypeOK, DecryptFails, sender, decryptor, Places
<1>20. CASE Erase
  <2> DEFINE rest == SubSeq(unprocessed, from + 1, Len(unprocessed))
  <2>2. rest \in Seq(AllUnits) /\ Len(rest) = m - from
    <3>1. m \in from..m /\ from \in 0..m
      BY <1>a
    <3> QED BY <1>a, <3>1, PartIn DEF m
  <2> HIDE DEF rest
  <2>3. unprocessed' = IF decr THEN rest ELSE unprocessed
    BY <1>20 DEF Erase, rest
  <2>4. unprocessed' \in Seq(AllUnits) /\ Len(unprocessed') \in Nat /\ from' = 0 /\ cur' = 0 /\ payload' = payload
    BY <1>20, <1>a, <2>2, <2>3 DEF Erase
  <2>5. payload > 0 => from + u <= m /\ (~decr => from = 0)
    BY <1>20 DEF Erase, PlaceInv, u, m
  <2>6. payload' > 0 => from' + SizeLen + Tag <= Len(unprocessed')
    <3>1. CASE decr
      BY <3>1, <1>a, <1>b, <2>2, <2>3, <2>4, <2>5
    <3>2. CASE ~decr
      BY <3>2, <1>a, <1>b, <2>3, <2>4, <2>5 DEF m
    <3> QED BY <3>1, <3>2
  <2>7. from' \in 0..Len(unprocessed') /\ cur' \in 0..Len(unprocessed') /\ at' \in Places /\ decr' \in BOOLEAN
    <3>1. from' \in 0..Len(unprocessed') /\ cur' \in 0..Len(unprocessed')
      BY <2>4
    <3>2. at' \in {"header", "give"} /\ decr' = FALSE
      BY <1>20 DEF Erase
    <3> QED BY <3>1, <3>2 DEF Places
  <2> QED BY <1>20, <2>4, <2>6, <2>7 DEF TypeOK, Erase, sender
<1> QED
  BY <1>1, <1>2, <1>3, <1>4, <1>5, <1>6, <1>7, <1>8, <1>9, <1>10, <1>11, <1>12, <1>13, <1>14,
     <1>15, <1>16, <1>17, <1>18, <1>19, <1>20 DEF Next, Sender, Receiver, Decipher
-----------------------------------------------------------------------------
(* The other parts of the invariant, step by step.                         *)

LEMMA SenderKept ==
  ASSUME IInv, Next
  PROVE  SenderInv'
<1> USE DEF IInv, SenderInv
<1>a. plain \in Nat /\ sent \in Nat /\ flushes \in Nat
  BY TypesAre
<1>1. ASSUME NEW n \in 0..MaxSend, SendStarts(n)
      PROVE  SenderInv'
  <2>1. n \in Nat /\ plain' = n /\ sent' = sent + n /\ sending' = TRUE
    BY <1>1 DEF SendStarts
  <2>2. flushes' = IF n = 0 THEN flushes + 1 ELSE flushes
    BY <1>1 DEF SendStarts
  <2> QED BY <1>a, <2>1, <2>2
<1>2. CASE Encipher
  <2> DEFINE len == Smaller(plain, ChunkMax)
  <2>1. len \in Nat /\ len <= plain
    BY UnitsEnciphered
  <2>2. /\ plain' = plain - len
        /\ \/ len < plain /\ sending' = sending
           \/ len = plain /\ sending' = FALSE
    BY <1>2, EncipherIs, Zenon
  <2>3. sent' = sent /\ flushes' = flushes /\ sending = TRUE
    BY <1>2 DEF Encipher, TypeOK
  <2> HIDE DEF len
  <2>4. plain' <= sent'
    BY <1>a, <2>1, <2>2, <2>3
  <2>5. CASE len < plain /\ sending' = sending
    <3>1. plain' > 0
      BY <1>a, <2>1, <2>2, <2>5
    <3> QED BY <3>1, <2>3, <2>4, <2>5
  <2>6. CASE len = plain /\ sending' = FALSE
    <3>1. plain' = 0
      BY <1>a, <2>1, <2>2, <2>6
    <3> QED BY <3>1, <2>4, <2>6
  <2> QED BY <2>2, <2>5, <2>6
<1>3. CASE SenderEnds
  BY <1>3 DEF SenderEnds, sender
<1>4. CASE Receiver
  <2>1. UNCHANGED sender
    BY <1>4 DEF Receiver, Decipher, RecvSalt, SaltFails, HeaderRead, HeaderAsks, Bridged, Wait, RecvStarts,
                InnerRecv, InnerFails, Gives, LoopEnds, DecryptSize, SizeKnown, PayloadWaits, DecryptPayload,
                DecryptFails, Erase
  <2> QED BY <2>1 DEF sender
<1> QED BY <1>1, <1>2, <1>3, <1>4 DEF Next, Sender

LEMMA FailKept ==
  ASSUME IInv, Next
  PROVE  FailInv'
<1> USE DEF IInv, FailInv
<1>a. flushes \in Nat
  BY TypesAre
<1>1. ASSUME NEW n \in 0..MaxSend, SendStarts(n)
      PROVE  FailInv'
  BY <1>1, <1>a DEF SendStarts
<1>2. CASE Encipher
  BY <1>2 DEF Encipher
<1>3. CASE SenderEnds
  BY <1>3 DEF SenderEnds, sender
<1>4. CASE DecryptFails
  <2>1. CASE flushes = 0
    <3>1. ~(at = "decrypt" /\ payload = 0 /\ Rest(from) >= SizeLen + Tag /\ ~Authentic(from, SizeLen + Tag))
      BY <2>1, SizeDeciphers
    <3>2. ~(at = "payload" /\ Rest(cur) >= payload + Tag /\ ~Authentic(cur, payload + Tag))
      BY <2>1, PayloadDeciphers
    <3> QED BY <1>4, <3>1, <3>2 DEF DecryptFails
  <2>2. CASE flushes # 0
    BY <1>4, <2>2 DEF DecryptFails, sender
  <2> QED BY <2>1, <2>2
<1>5. CASE Receiver /\ ~DecryptFails
  <2>1. UNCHANGED sender /\ (at' = at \/ at' # "failed")
    BY <1>5 DEF Receiver, Decipher, RecvSalt, SaltFails, HeaderRead, HeaderAsks, Bridged, Wait, RecvStarts,
                InnerRecv, InnerFails, Gives, LoopEnds, DecryptSize, SizeKnown, PayloadWaits, DecryptPayload,
                Erase, Closes
  <2> QED BY <2>1 DEF sender
<1> QED BY <1>1, <1>2, <1>3, <1>4, <1>5 DEF Next, Sender

LEMMA ReadyKept ==
  ASSUME IInv, Next
  PROVE  ReadyInv'
<1> USE DEF IInv, ReadyInv
<1>1. ASSUME NEW n \in 0..MaxSend, SendStarts(n)
      PROVE  ReadyInv'
  BY <1>1 DEF SendStarts
<1>2. CASE Encipher
  <2> DEFINE len == Smaller(plain, ChunkMax)
             f == SizeUnits(enc, len)
             out == (encrypted \o f) \o PayloadUnits(enc, len, sent - plain)
  <2>1. out \in Seq(AllUnits) /\ (wire' = wire \/ wire' = wire \o out)
    BY <1>2, EncipherIs
  <2>2. wire \in Seq(AllUnits) /\ UNCHANGED <<fin, at, header, ready>>
    BY <1>2, TypesAre DEF Encipher
  <2> HIDE DEF out
  <2>3. wire # <<>> => wire' # <<>>
    <3>1. wire # <<>> => Len(wire) >= 1 /\ Len(wire) \in Nat
      BY <2>2, EmptySeq
    <3>2. Len(wire \o out) = Len(wire) + Len(out) /\ Len(out) \in Nat
      BY <2>1, <2>2, ConcatIn
    <3>3. Len(<<>>) = 0
      OBVIOUS
    <3>4. CASE wire' = wire
      BY <3>4
    <3>5. CASE wire' = wire \o out
      <4>1. wire # <<>> => Len(wire') >= 1
        BY <3>1, <3>2, <3>5
      <4> QED BY <4>1, <3>3
    <3> QED BY <3>4, <3>5, <2>1
  <2> QED BY <2>2, <2>3
<1>3. CASE SenderEnds
  BY <1>3 DEF SenderEnds, sender
<1>4. CASE RecvSalt
  BY <1>4 DEF RecvSalt
<1>5. CASE SaltFails
  BY <1>5 DEF SaltFails, Closes
<1>6. CASE HeaderRead
  <2>1. ready = {} /\ ready' = {} /\ at' = "header"
    BY <1>6 DEF HeaderRead
  <2> QED BY <2>1
<1>7. CASE HeaderAsks
  BY <1>7 DEF HeaderAsks
<1>8. CASE Bridged
  BY <1>8 DEF Bridged
<1>9. CASE Wait
  <2>0. header = <<>> /\ header' = <<>> /\ at' = "read" /\ UNCHANGED <<wire, fin>>
    BY <1>9 DEF Wait
  <2>1. "system" \in ready' => wire # <<>> \/ fin
    BY <1>9 DEF Wait, Registered
  <2> QED BY <2>0, <2>1
<1>10. CASE RecvStarts
  BY <1>10 DEF RecvStarts
<1>11. CASE InnerRecv
  BY <1>11 DEF InnerRecv
<1>12. CASE InnerFails
  BY <1>12 DEF InnerFails, Closes
<1>13. CASE Gives
  BY <1>13 DEF Gives
<1>14. CASE Decipher
  <2>1. UNCHANGED <<wire, fin, header, ready>> /\ at' # "inner" /\ at' # "salt" 
        /\ (at' = "header" => header # <<>>) /\ (at' \in {"wait", "read", "give"} => header = <<>>)
    BY <1>14 DEF Decipher, LoopEnds, DecryptSize, SizeKnown, PayloadWaits, DecryptPayload, DecryptFails, Erase
  <2> QED BY <2>1
<1> QED
  BY <1>1, <1>2, <1>3, <1>4, <1>5, <1>6, <1>7, <1>8, <1>9, <1>10, <1>11, <1>12, <1>13, <1>14
  DEF Next, Sender, Receiver
LEMMA PlaceKept ==
  ASSUME IInv, Next
  PROVE  PlaceInv'
<1> USE DEF IInv
<1> DEFINE u == SizeLen + Tag
           m == Len(unprocessed)
<1>a. /\ unprocessed \in Seq(AllUnits) /\ wire \in Seq(AllUnits) /\ encrypted \in Seq(AllUnits)
      /\ m \in Nat /\ from \in 0..m /\ from \in Nat /\ cur \in 0..m /\ cur \in Nat /\ payload \in Nat
      /\ flushes \in Nat /\ u \in Nat \ {0}
  BY TypesAre
<1>b. \A n \in Nat : n + SizeLen + Tag = n + u
  BY Sizes
<1> HIDE DEF u, m
<1>1. ASSUME NEW n \in 0..MaxSend, SendStarts(n)
      PROVE  PlaceInv'
  <2>1. UNCHANGED <<at, decryptor, decrypted>> /\ (flushes' = 0 => flushes = 0)
    <3>1. flushes' = flushes \/ flushes' = flushes + 1
      BY <1>1 DEF SendStarts
    <3>2. flushes' = 0 => flushes = 0
      BY <3>1, <1>a
    <3> QED BY <1>1, <3>2 DEF SendStarts
  <2> QED BY <2>1 DEF PlaceInv, decryptor, Alive
<1>2. CASE Encipher \/ SenderEnds
  <2>1. UNCHANGED <<at, decryptor, decrypted, flushes>>
    BY <1>2 DEF Encipher, SenderEnds, sender
  <2> QED BY <2>1 DEF PlaceInv, decryptor, Alive
<1>4. CASE RecvSalt
  <2>1. key' = SaltUnits /\ Salt \in Nat
    <3>1. at = "salt" /\ unprocessed = <<>> /\ from = 0 /\ Len(wire) >= Salt
      BY <1>4 DEF RecvSalt, PlaceInv, Alive
    <3>2. PICK z \in Nat : InStream(from, z)
      BY <3>1 DEF StreamInv, Alive
    <3>3. PICK s \in Seq(AllUnits) : Line(unprocessed, wire, encrypted, 0) = SaltUnits \o s
      BY <3>1, <3>2 DEF InStream, Carried, Lead
    <3>4. Line(unprocessed, wire, encrypted, 0) = wire \o encrypted
      <4>1. Line(unprocessed, wire, encrypted, 0) = (unprocessed \o wire) \o encrypted
        BY <1>a, LineAll
      <4>2. <<>> \o wire = wire
        BY <1>a, ConcatEmptySeq
      <4> QED BY <3>1, <4>1, <4>2
    <3>5. SubSeq(wire, 1, Salt) = SaltUnits
      BY <3>1, <3>3, <3>4, <1>a, SaltCut
    <3> QED BY <1>4, <3>5, Sizes DEF RecvSalt
  <2>2. UNCHANGED <<sender, unprocessed, payload, from, decr, cur>> /\ at = "salt" /\ at' = "header"
    BY <1>4 DEF RecvSalt
  <2> QED BY <2>1, <2>2 DEF PlaceInv, sender, Alive
<1>5. CASE SaltFails \/ InnerFails \/ DecryptFails
  <2>1. UNCHANGED <<sender, decryptor>> /\ at' \in {"closed", "failed"}
    BY <1>5 DEF SaltFails, InnerFails, DecryptFails, Closes
  <2>2. CASE at' = "closed"
    BY <2>1, <2>2 DEF PlaceInv, sender, decryptor, Alive
  <2>3. CASE at' = "failed"
    <3>1. at \notin {"salt", "closed"}
      BY <1>5, <2>3 DEF SaltFails, InnerFails, DecryptFails, Closes
    <3> QED BY <2>1, <2>3, <3>1 DEF PlaceInv, sender, decryptor, Alive
  <2> QED BY <2>1, <2>2, <2>3
<1>6. CASE HeaderRead
  BY <1>6 DEF HeaderRead, PlaceInv, sender, decryptor, Alive
<1>7. CASE HeaderAsks \/ Bridged \/ Wait \/ RecvStarts \/ Gives
  <2>1. UNCHANGED <<sender, decryptor>> /\ at \in {"header", "wait", "read", "give"}
        /\ at' \in {"wait", "read", "inner", "give"}
    BY <1>7 DEF HeaderAsks, Bridged, Wait, RecvStarts, Gives
  <2> QED BY <2>1 DEF PlaceInv, sender, decryptor, Alive
<1>11. CASE InnerRecv
  <2>1. PICK n \in 1..Len(wire) : /\ unprocessed' = unprocessed \o SubSeq(wire, 1, n)
                                  /\ wire' = SubSeq(wire, n + 1, Len(wire))
    BY <1>11 DEF InnerRecv
  <2>2. n \in 0..Len(wire) /\ n \in Nat
    BY <1>a
  <2>3. Len(unprocessed') = m + n /\ \A i \in 1..m : unprocessed'[i] = unprocessed[i]
    BY <2>1, <2>2, <1>a, LineMoved DEF m
  <2>4. UNCHANGED <<sender, key, payload, from, decr, cur>> /\ at = "inner" /\ at' = "decrypt"
    BY <1>11 DEF InnerRecv
  <2>5. from = 0 /\ (payload > 0 => 0 + u <= m /\ payload = unprocessed[0 + 1].block.len)
    BY <2>4 DEF PlaceInv, Alive, u, m
  <2>6. payload > 0 => 0 + u <= Len(unprocessed') /\ payload = unprocessed'[0 + 1].block.len
    <3>1. payload > 0 => 0 + 1 \in 1..m /\ 0 + u <= m + n
      BY <1>a, <2>2, <2>5
    <3>2. payload > 0 => unprocessed'[0 + 1] = unprocessed[0 + 1]
      BY <2>3, <3>1
    <3> QED BY <2>3, <2>5, <3>1, <3>2
  <2> QED BY <2>4, <2>5, <2>6 DEF PlaceInv, sender, Alive, u
<1>14. CASE LoopEnds
  <2>1. UNCHANGED <<sender, decryptor>> /\ at = "decrypt" /\ at' = "erase"
    BY <1>14 DEF LoopEnds
  <2> QED BY <2>1 DEF PlaceInv, sender, decryptor, Alive
<1>15. CASE DecryptSize
  <2>1. /\ UNCHANGED <<sender, key, unprocessed, from, decr>> /\ at = "decrypt" /\ at' = "payload"
        /\ payload' = unprocessed[from + 1].block.len /\ cur' = from + u /\ from + u <= m
    <3>1. m - from >= u
      BY <1>15 DEF DecryptSize, Rest, m, u
    <3>2. from + u <= m
      BY <3>1, <1>a
    <3> QED BY <1>15, <3>2, <1>a, <1>b DEF DecryptSize
  <2> QED BY <2>1 DEF PlaceInv, sender, Alive, u, m
<1>16. CASE SizeKnown
  <2>1. UNCHANGED <<sender, key, dec, unprocessed, payload, from, decr>> /\ at = "decrypt" /\ at' = "payload"
        /\ cur' = u /\ from = 0 /\ cur' = 0 + u
    <3>1. 0 + u = u
      BY <1>a
    <3> QED BY <1>16, <3>1 DEF SizeKnown, u, PlaceInv
  <2> QED BY <2>1, <1>16 DEF PlaceInv, sender, Alive, SizeKnown, u
<1>17. CASE PayloadWaits
  <2>1. UNCHANGED <<sender, decryptor>> /\ at = "payload" /\ at' = "erase"
    BY <1>17 DEF PayloadWaits
  <2> QED BY <2>1 DEF PlaceInv, sender, decryptor, Alive
<1>18. CASE DecryptPayload
  <2>1. UNCHANGED <<sender, key, unprocessed>> /\ at = "payload" /\ payload' = 0 /\ ~(payload' > 0)
    BY <1>18 DEF DecryptPayload
  <2>2. CASE payload = 0
    <3>1. at' = "erase"
      BY <1>18, <2>2 DEF DecryptPayload
    <3>2. flushes # 0
      <4>1. payload \in Low..ChunkMax
        BY <1>18, PayloadThere DEF DecryptPayload
      <4>2. flushes = 0 => payload \in 1..ChunkMax
        BY <4>1 DEF Low
      <4> QED BY <4>2, <2>2, Sizes
    <3> QED BY <2>1, <3>1, <3>2 DEF PlaceInv, sender, Alive
  <2>3. CASE payload # 0
    <3>1. at' = "decrypt" /\ decr'
      <4>1. payload > 0
        BY <1>a, <2>3
      <4>2. decr' = (decr \/ payload > 0)
        BY <1>18 DEF DecryptPayload
      <4>3. decr'
        BY <4>1, <4>2, Zenon
      <4> QED BY <4>3, <1>18, <2>3 DEF DecryptPayload
    <3> QED BY <2>1, <3>1 DEF PlaceInv, sender, Alive
  <2> QED BY <2>2, <2>3
<1>20. CASE Erase
  <2> DEFINE rest == SubSeq(unprocessed, from + 1, Len(unprocessed))
  <2>2. rest \in Seq(AllUnits) /\ Len(rest) = m - from /\ \A i \in 1..m - from : rest[i] = unprocessed[from + i]
    <3>1. m \in from..m /\ from \in 0..m
      BY <1>a
    <3> QED BY <1>a, <3>1, PartIn DEF m
  <2> HIDE DEF rest
  <2>3. unprocessed' = IF decr THEN rest ELSE unprocessed
    BY <1>20 DEF Erase, rest
  <2>4. /\ UNCHANGED <<sender, key, payload>> /\ from' = 0 /\ at = "erase" /\ at' \in {"header", "give"}
    BY <1>20 DEF Erase
  <2>5. payload > 0 => from + u <= m /\ payload = unprocessed[from + 1].block.len /\ (~decr => from = 0)
    BY <2>4 DEF PlaceInv, u, m
  <2>6. payload > 0 => 0 + u <= Len(unprocessed') /\ payload = unprocessed'[0 + 1].block.len
    <3>1. CASE decr
      <4>1. payload > 0 => 1 \in 1..m - from /\ 0 + u <= m - from /\ 0 + 1 = 1
        BY <1>a, <2>5
      <4>2. payload > 0 => unprocessed'[0 + 1] = unprocessed[from + 1]
        BY <4>1, <2>2, <2>3, <3>1
      <4> QED BY <4>1, <4>2, <2>2, <2>3, <2>5, <3>1
    <3>2. CASE ~decr
      BY <3>2, <2>3, <2>5 DEF m
    <3> QED BY <3>1, <3>2
  <2> QED BY <2>4, <2>6 DEF PlaceInv, sender, Alive, u
<1> QED
  BY <1>1, <1>2, <1>4, <1>5, <1>6, <1>7, <1>11, <1>14, <1>15, <1>16, <1>17, <1>18, <1>20
  DEF Next, Sender, Receiver, Decipher
\* Bytes that are handed over leave from the front.
LEMMA Handed ==
  ASSUME TypeOK, DataInv, NEW k \in Nat, Alive,
         decrypted' = ChunkPeeked(decrypted, ChunkSize, k),
         given' = given + Smaller(k, ChunkData(decrypted, ChunkSize))
  PROVE  /\ IsChunks(decrypted', ChunkSize) /\ Taken' = Taken
         /\ ChunkContents(decrypted', ChunkSize) = Run(given', Taken')
         /\ LET out == Smaller(k, ChunkData(decrypted, ChunkSize))
            IN  /\ out \in 0..ChunkData(decrypted, ChunkSize) /\ given' = given + out
                /\ ChunkData(decrypted, ChunkSize) = Taken - given
<1> DEFINE data == ChunkData(decrypted, ChunkSize)
           out == Smaller(k, data)
<1>1. /\ data \in Nat /\ given \in Nat /\ Taken \in Nat /\ ChunkSize \in Nat \ {0}
      /\ IsChunks(decrypted, ChunkSize) /\ Taken = given + data
  BY TypesAre, Sizes DEF DataInv, Taken
<1>2. out \in 0..data /\ out \in Nat
  BY <1>1 DEF Smaller
<1>3. /\ IsChunks(decrypted', ChunkSize) /\ ChunkData(decrypted', ChunkSize) = data - out
      /\ ChunkContents(decrypted', ChunkSize) = SubSeq(ChunkContents(decrypted, ChunkSize), out + 1, data)
  BY <1>1, ChunkPeekTakes
<1>4. ChunkContents(decrypted, ChunkSize) = Run(given, Taken)
  BY DEF DataInv
<1>a. given' = given + out
  OBVIOUS
<1> HIDE DEF data, out
<1>5. Taken' = given' + (data - out)
  BY <1>3 DEF Taken
<1>6. Taken' = Taken /\ given' = given + out /\ Taken - given = data
  BY <1>1, <1>2, <1>5, <1>a
<1>7. SubSeq(Run(given, Taken), out + 1, Taken - given) = Run(given + out, Taken)
  <2>1. given <= Taken /\ out \in 0..Taken - given
    BY <1>1, <1>2, <1>6
  <2> QED BY <1>1, <2>1, RunRest
<1>8. ChunkContents(decrypted', ChunkSize) = Run(given', Taken')
  BY <1>3, <1>4, <1>6, <1>7
<1> QED BY <1>2, <1>3, <1>6, <1>8 DEF data, out

LEMMA HeaderHanded ==
  ASSUME IInv, HeaderRead
  PROVE  /\ header[1] \in Nat /\ decrypted' = ChunkPeeked(decrypted, ChunkSize, header[1])
         /\ given' = given + Smaller(header[1], ChunkData(decrypted, ChunkSize))
<1>1. header \in Seq(Nat) /\ header # <<>> /\ TypeOK /\ DataInv
  BY DEF HeaderRead, IInv, TypeOK
<1>2. header[1] \in Nat
  BY <1>1, HeaderFirst
<1>3. ChunkData(decrypted, ChunkSize) \in Nat
  BY <1>1, TypesAre
<1>4. ChunkData(decrypted, ChunkSize) >= header[1] /\ given' = given + header[1]
      /\ decrypted' = ChunkPeeked(decrypted, ChunkSize, header[1])
  BY DEF HeaderRead, Enough
<1>5. Smaller(header[1], ChunkData(decrypted, ChunkSize)) = header[1]
  <2> DEFINE h == header[1]
             d == ChunkData(decrypted, ChunkSize)
  <2>1. h \in Nat /\ d \in Nat /\ d >= h
    BY <1>2, <1>3, <1>4
  <2> HIDE DEF h, d
  <2>2. Smaller(h, d) = h
    BY <2>1 DEF Smaller
  <2> QED BY <2>2 DEF h, d
<1> QED BY <1>2, <1>4, <1>5

\* What a payload adds: its bytes behind those deciphered before.
LEMMA PayloadAdds ==
  ASSUME IInv, DecryptPayload
  PROVE  /\ IsChunks(decrypted', ChunkSize) /\ Taken' = Taken + payload
         /\ ChunkContents(decrypted', ChunkSize) = Run(given', Taken')
<1> USE DEF IInv
<1>1. /\ given \in Nat /\ Taken \in Nat /\ payload \in Nat /\ ChunkSize \in Nat \ {0}
      /\ IsChunks(decrypted, ChunkSize) /\ ChunkData(decrypted, ChunkSize) \in Nat
      /\ Taken = given + ChunkData(decrypted, ChunkSize)
  BY TypesAre, Sizes DEF DataInv, Taken
<1>2. ChunkContents(decrypted, ChunkSize) = Run(given, Taken) /\ given' = given
  BY DEF DataInv, DecryptPayload, Alive
<1>3. PICK z \in Nat : unprocessed[cur + 1].block = Block(z + 1, "payload", payload, Taken + 1)
  BY PayloadThere DEF DecryptPayload
<1> DEFINE d == PlainOf(unprocessed[cur + 1].block)
           data == ChunkData(decrypted, ChunkSize)
<1>4. d = Run(Taken, Taken + payload)
  <2>1. d = [i \in 1..payload |-> Taken + 1 + i - 1]
    BY <1>3 DEF PlainOf, Block
  <2>2. (Taken + payload) - Taken = payload /\ \A i \in 1..payload : Taken + 1 + i - 1 = Taken + i
    BY <1>1
  <2> QED BY <2>1, <2>2 DEF Run
<1> HIDE DEF d
<1>5. d \in Seq(Nat) /\ Len(d) = payload
  <2>1. Taken + payload \in Nat /\ Taken <= Taken + payload /\ (Taken + payload) - Taken = payload
    BY <1>1
  <2> QED BY <1>1, <1>4, <2>1, RunIs
<1>6. CASE payload = 0
  <2>1. decrypted' = decrypted
    BY <1>6 DEF DecryptPayload
  <2>2. Taken' = Taken
    BY <2>1, <1>2 DEF Taken
  <2>3. Taken + payload = Taken
    BY <1>1, <1>6
  <2> QED BY <2>1, <2>2, <2>3, <1>1, <1>2
<1>7. CASE payload # 0
  <2>1. decrypted' = Appended(decrypted, ChunkSize, d)
    BY <1>7 DEF DecryptPayload, d
  <2>2. /\ IsChunks(decrypted', ChunkSize) /\ ChunkData(decrypted', ChunkSize) = data + payload
        /\ ChunkContents(decrypted', ChunkSize) = ChunkContents(decrypted, ChunkSize) \o d
    BY <2>1, <1>1, <1>5, ChunkAppends
  <2> HIDE DEF data
  <2>3. Taken' = given + (data + payload)
    BY <2>2, <1>2 DEF Taken
  <2>4. Taken' = Taken + payload /\ given <= Taken /\ Taken <= Taken + payload /\ Taken + payload \in Nat
    BY <2>3, <1>1 DEF data
  <2>5. Run(given, Taken) \o Run(Taken, Taken + payload) = Run(given, Taken + payload)
    BY <2>4, <1>1, RunsJoin
  <2> QED BY <2>2, <2>4, <2>5, <1>2, <1>4
<1> QED BY <1>6, <1>7

LEMMA DataKept ==
  ASSUME IInv, Next
  PROVE  DataInv'
<1> USE DEF IInv
<1>1. CASE HeaderRead
  <2>1. header[1] \in Nat /\ decrypted' = ChunkPeeked(decrypted, ChunkSize, header[1])
        /\ given' = given + Smaller(header[1], ChunkData(decrypted, ChunkSize))
    BY <1>1, HeaderHanded
  <2>2. Alive
    BY <1>1 DEF HeaderRead, Alive
  <2> QED BY <2>1, <2>2, Handed DEF DataInv
<1>2. CASE Gives
  <2>1. PICK max \in {1, MaxSent} :
          /\ decrypted' = ChunkPeeked(decrypted, ChunkSize, max)
          /\ given' = given + Smaller(max, ChunkData(decrypted, ChunkSize))
    BY <1>2 DEF Gives
  <2>2. max \in Nat /\ Alive
    BY <1>2, Sizes DEF Gives, Alive
  <2> QED BY <2>1, <2>2, Handed DEF DataInv
<1>3. CASE DecryptPayload
  BY <1>3, PayloadAdds DEF DataInv
<1>4. CASE SaltFails \/ InnerFails \/ DecryptFails
  <2>1. decrypted' = NoChunks /\ ~Alive'
    BY <1>4 DEF SaltFails, InnerFails, DecryptFails, Closes, Alive
  <2>2. IsChunks(NoChunks, ChunkSize)
    BY Sizes, NoChunksIs
  <2> QED BY <2>1, <2>2 DEF DataInv
<1>5. ASSUME UNCHANGED <<decrypted, given>>, Alive' => Alive
      PROVE  DataInv'
  BY <1>5 DEF DataInv, Taken
<1>6. CASE \E n \in 0..MaxSend : SendStarts(n)
  <2>1. UNCHANGED <<decrypted, given, at>>
    BY <1>6 DEF SendStarts
  <2> QED BY <2>1, <1>5 DEF Alive
<1>7. CASE Encipher \/ SenderEnds
  <2>1. UNCHANGED <<decrypted, given, at>>
    BY <1>7 DEF Encipher, SenderEnds
  <2> QED BY <2>1, <1>5 DEF Alive
<1>8. CASE RecvSalt \/ HeaderAsks \/ Bridged \/ Wait \/ RecvStarts \/ InnerRecv
  <2>1. UNCHANGED <<decrypted, given>> /\ Alive
    BY <1>8 DEF RecvSalt, HeaderAsks, Bridged, Wait, RecvStarts, InnerRecv, Alive
  <2> QED BY <2>1, <1>5
<1>9. CASE LoopEnds \/ DecryptSize \/ SizeKnown \/ PayloadWaits \/ Erase
  <2>1. UNCHANGED <<decrypted, given>> /\ Alive
    BY <1>9 DEF LoopEnds, DecryptSize, SizeKnown, PayloadWaits, Erase, Alive
  <2> QED BY <2>1, <1>5
<1> QED
  BY <1>1, <1>2, <1>3, <1>4, <1>6, <1>7, <1>8, <1>9 DEF Next, Sender, Receiver, Decipher
LEMMA LeadIs == Lead \in Seq(AllUnits)
BY SaltUnitsAre, EmptySeq DEF Lead

\* A send without bytes allows records without bytes.
LEMMA SendKeepsStream ==
  ASSUME IInv, NEW n \in 0..MaxSend, SendStarts(n)
  PROVE  StreamInv'
<1> USE DEF IInv
<1>1. /\ sent \in Nat /\ plain = 0 /\ n \in Nat /\ flushes \in Nat /\ plain' = n /\ sent' = sent + n
      /\ flushes' = IF n = 0 THEN flushes + 1 ELSE flushes
      /\ UNCHANGED <<enc, encrypted, wire, at, decryptor, decrypted, given>>
  BY TypesAre DEF SendStarts, SenderInv
<1>2. sent' - plain' = sent - plain
  BY <1>1
<1>3. Taken' = Taken /\ Lead' = Lead /\ Inside' = Inside /\ (Alive' <=> Alive)
  BY <1>1 DEF Taken, Lead, Inside, Alive, decryptor
<1>4. Low' = Low \/ Low' = 0
  <2>1. CASE flushes' = 0
    BY <1>1, <2>1 DEF Low
  <2>2. CASE flushes' # 0
    BY <2>2 DEF Low
  <2> QED BY <2>1, <2>2
<1>5. ASSUME NEW k, NEW z, InStream(k, z)
      PROVE  InStream(k, z)'
  <2> DEFINE x == Line(unprocessed, wire, encrypted, k)
  <2>1. Carried(x, Lead, z, enc, Taken, sent - plain, Low)
    BY <1>5 DEF InStream
  <2> HIDE DEF x
  <2>2. Carried(x, Lead, z, enc, Taken, sent - plain, 0)
    BY <2>1, CarriedLow
  <2>3. Carried(x, Lead, z, enc, Taken, sent - plain, Low')
    BY <2>1, <2>2, <1>4
  <2>4. x = Line(unprocessed', wire', encrypted', k)
    BY <1>1 DEF x, decryptor
  <2> QED BY <2>3, <2>4, <1>1, <1>2, <1>3 DEF InStream
<1>6. flushes' = 0 => flushes = 0
  BY <1>1
<1>7. UNCHANGED <<from, decr, dec>>
  BY <1>1 DEF decryptor
<1> QED BY <1>3, <1>5, <1>6, <1>7 DEF StreamInv

\* What encipher adds comes behind what is under way, in encrypted_data or in the wire.
LEMMA EncipherKeepsStream ==
  ASSUME IInv, Encipher
  PROVE  StreamInv'
<1> USE DEF IInv
<1> DEFINE len == Smaller(plain, ChunkMax)
           f == SizeUnits(enc, len)
           g == PayloadUnits(enc, len, sent - plain)
           out == (encrypted \o f) \o g
<1>1. /\ enc' = enc + 2 /\ plain' = plain - len /\ out \in Seq(AllUnits)
      /\ \/ wire' = wire /\ encrypted' = out
         \/ wire' = wire \o out /\ encrypted' = <<>>
  BY EncipherIs
<1>2. /\ len \in Nat /\ len <= plain /\ len <= ChunkMax /\ sent - plain \in Nat
      /\ (len < plain => len = ChunkMax) /\ f \in Seq(AllUnits) /\ g \in Seq(AllUnits)
  BY UnitsEnciphered
<1>3. UNCHANGED <<sent, flushes, at, decryptor, decrypted, given>> /\ sending
  BY DEF Encipher
<1>4. Taken' = Taken /\ Lead' = Lead /\ Inside' = Inside /\ (Alive' <=> Alive) /\ Low' = Low
  BY <1>3 DEF Taken, Lead, Inside, Alive, decryptor, Low
<1>5. /\ unprocessed \in Seq(AllUnits) /\ wire \in Seq(AllUnits) /\ encrypted \in Seq(AllUnits)
      /\ from \in 0..Len(unprocessed) /\ 0 \in 0..Len(unprocessed)
      /\ sent \in Nat /\ plain \in Nat /\ ChunkMax \in Nat \ {0}
  BY TypesAre, Sizes
<1>6. len \in Low..ChunkMax
  <2>1. CASE flushes = 0
    <3>1. plain > 0
      BY <2>1, <1>3 DEF SenderInv
    <3>2. len >= 1
      BY <3>1, <1>5 DEF Smaller
    <3> HIDE DEF len
    <3> QED BY <2>1, <3>2, <1>2, <1>5 DEF Low
  <2>2. CASE flushes # 0
    <3> HIDE DEF len
    <3> QED BY <2>2, <1>2, <1>5 DEF Low
  <2> QED BY <2>1, <2>2
<1>7. sent' - plain' = (sent - plain) + len
  <2> HIDE DEF len
  <2> QED BY <1>1, <1>2, <1>3, <1>5
<1> HIDE DEF len
<1>8. ASSUME NEW k \in 0..Len(unprocessed), NEW z, InStream(k, z)
      PROVE  InStream(k, z)'
  <2> DEFINE x == Line(unprocessed, wire, encrypted, k)
  <2>1. Carried(x, Lead, z, enc, Taken, sent - plain, Low)
    BY <1>8 DEF InStream
  <2> HIDE DEF x
  <2>2. Carried((x \o f) \o g, Lead, z, enc + 2, Taken, (sent - plain) + len, Low)
    BY <2>1, <1>2, <1>6, LeadIs, CarriedLonger
  <2> HIDE DEF f, g
  <2>3. /\ Line(unprocessed, wire, (encrypted \o f) \o g, k) = (x \o f) \o g
        /\ Line(unprocessed, wire \o ((encrypted \o f) \o g), <<>>, k) = (x \o f) \o g
    <3>1. LongerLine(unprocessed, wire, encrypted, k, f, g)
      BY <1>2, <1>5, LineLonger
    <3> QED BY <3>1 DEF LongerLine, x
  <2>4. Line(unprocessed', wire', encrypted', k) = (x \o f) \o g
    BY <2>3, <1>1, <1>3 DEF decryptor
  <2> QED BY <2>2, <2>4, <1>1, <1>4, <1>7 DEF InStream
<1>9. UNCHANGED <<from, decr, dec, flushes>>
  BY <1>3 DEF decryptor
<1> QED BY <1>4, <1>5, <1>8, <1>9 DEF StreamInv

\* The salt leaves the stream.
LEMMA SaltKeepsStream ==
  ASSUME IInv, RecvSalt
  PROVE  StreamInv'
<1> USE DEF IInv
<1>1. at = "salt" /\ unprocessed = <<>> /\ from = 0 /\ Len(wire) >= Salt /\ Alive
  BY DEF RecvSalt, PlaceInv, Alive
<1>2. UNCHANGED <<sender, dec, unprocessed, payload, from, decr, decrypted, given>>
      /\ wire' = SubSeq(wire, Salt + 1, Len(wire)) /\ at' = "header"
  BY DEF RecvSalt
<1>3. unprocessed \in Seq(AllUnits) /\ wire \in Seq(AllUnits) /\ encrypted \in Seq(AllUnits)
  BY TypesAre
<1>4. ASSUME NEW z, InStream(0, z)
      PROVE  InStream(0, z)'
  <2>1. PICK s \in Seq(AllUnits) : /\ Line(unprocessed, wire, encrypted, 0) = SaltUnits \o s
                                   /\ Records(s, z, enc, Taken, sent - plain, Low)
    BY <1>1, <1>4 DEF InStream, Carried, Lead
  <2>2. Line(unprocessed, wire, encrypted, 0) = wire \o encrypted
    <3>1. Line(unprocessed, wire, encrypted, 0) = (unprocessed \o wire) \o encrypted
      BY <1>3, LineAll
    <3>2. <<>> \o wire = wire
      BY <1>3, ConcatEmptySeq
    <3> QED BY <1>1, <3>1, <3>2
  <2>3. wire' \in Seq(AllUnits) /\ wire' \o encrypted = s
    <3>1. wire \o encrypted = SaltUnits \o s
      BY <2>1, <2>2
    <3>2. /\ SubSeq(wire, Salt + 1, Len(wire)) \in Seq(AllUnits)
          /\ SubSeq(wire, Salt + 1, Len(wire)) \o encrypted = s
      BY ONLY <1>1, <1>3, <3>1, s \in Seq(AllUnits), SaltCut
    <3> QED BY <3>2, <1>2
  <2>4. Line(unprocessed', wire', encrypted', 0) = s
    <3> DEFINE w == wire'
    <3>0. w \in Seq(AllUnits)
      BY <2>3
    <3> HIDE DEF w
    <3>1. Line(unprocessed, w, encrypted, 0) = (unprocessed \o w) \o encrypted
      BY <1>3, <3>0, LineAll
    <3>2. <<>> \o w = w
      BY <3>0, ConcatEmptySeq
    <3> QED BY <1>1, <1>2, <2>3, <3>1, <3>2 DEF sender, w
  <2>5. Lead' = <<>> /\ Taken' = Taken /\ Low' = Low /\ enc' = enc /\ sent' - plain' = sent - plain
    BY <1>2 DEF Lead, Taken, Low, sender
  <2>6. Carried(s, <<>>, z, enc, Taken, sent - plain, Low)
    BY <2>1, CarriedIs
  <2> QED BY <2>4, <2>5, <2>6 DEF InStream
<1>5. Inside' = Inside
  BY <1>1, <1>2 DEF Inside
<1>6. UNCHANGED <<from, dec, decr, flushes>>
  BY <1>2 DEF sender
<1> QED BY <1>1, <1>4, <1>5, <1>6 DEF StreamInv

\* Units move from the wire to unprocessed.
LEMMA InnerKeepsStream ==
  ASSUME IInv, InnerRecv
  PROVE  StreamInv'
<1> USE DEF IInv
<1>1. at = "inner" /\ at' = "decrypt" /\ from = 0 /\ Alive
      /\ UNCHANGED <<sender, dec, payload, from, decr, decrypted, given>>
  BY DEF InnerRecv, PlaceInv, Alive
<1>2. PICK n \in 1..Len(wire) : /\ unprocessed' = unprocessed \o SubSeq(wire, 1, n)
                                /\ wire' = SubSeq(wire, n + 1, Len(wire))
  BY DEF InnerRecv
<1>3. /\ unprocessed \in Seq(AllUnits) /\ wire \in Seq(AllUnits) /\ encrypted \in Seq(AllUnits)
      /\ n \in 0..Len(wire)
  BY TypesAre
<1>4. encrypted' = encrypted
  BY <1>1 DEF sender
<1>5. Line(unprocessed', wire', encrypted', 0) = Line(unprocessed, wire, encrypted, 0)
  BY <1>2, <1>3, <1>4, LineMoved
<1>6. Lead' = Lead /\ Taken' = Taken /\ Low' = Low /\ enc' = enc /\ sent' - plain' = sent - plain /\ Inside' = Inside
  BY <1>1 DEF Lead, Taken, Low, sender, Inside
<1>7. \A z : InStream(0, z) => InStream(0, z)'
  BY <1>5, <1>6 DEF InStream
<1>8. UNCHANGED <<from, dec, decr, flushes>>
  BY <1>1 DEF sender
<1> QED BY <1>1, <1>6, <1>7, <1>8 DEF StreamInv

\* A record leaves the stream.
LEMMA PayloadKeepsStream ==
  ASSUME IInv, DecryptPayload
  PROVE  StreamInv'
<1> USE DEF IInv
<1>1. /\ at = "payload" /\ at' \in {"erase", "decrypt"} /\ payload' = 0 /\ dec' = dec + 1 /\ Alive
      /\ from' = cur + payload + Tag /\ decr' = (decr \/ payload > 0) /\ Rest(cur) >= payload + Tag
      /\ UNCHANGED <<sender, wire, unprocessed>>
  BY DEF DecryptPayload, Alive
<1>2. PICK z \in Nat :
        /\ flushes = 0 => dec = z + 1
        /\ Carried(Line(unprocessed, wire, encrypted, from + Over(payload)), <<>>,
                   z + 2, enc, Taken + payload, sent - plain, Low)
  BY <1>1, PayloadThere
<1>3. Taken' = Taken + payload
  BY PayloadAdds
<1>4. cur = from + (SizeLen + Tag)
  BY <1>1 DEF PlaceInv
<1>5. from' = from + Over(payload)
  <2>1. from \in Nat /\ payload \in Nat /\ Tag \in Nat /\ SizeLen + Tag \in Nat
    BY TypesAre
  <2> DEFINE u == SizeLen + Tag
  <2>2. from' = cur + payload + Tag /\ cur = from + u /\ Over(payload) = u + (payload + Tag) /\ u \in Nat
    BY <1>1, <1>4, <2>1 DEF Over
  <2> HIDE DEF u
  <2>3. cur + payload + Tag = from + (u + (payload + Tag))
    BY <2>1, <2>2
  <2> QED BY <2>2, <2>3
<1>6. Lead' = <<>> /\ Low' = Low /\ enc' = enc /\ sent' - plain' = sent - plain /\ Inside' = 0
  BY <1>1 DEF Lead, Low, sender, Inside
<1>7. z + 2 \in Nat /\ InStream(from, z + 2)'
  <2>1. z + 2 \in Nat
    OBVIOUS
  <2>2. Line(unprocessed', wire', encrypted', from') = Line(unprocessed, wire, encrypted, from + Over(payload))
    BY <1>1, <1>5 DEF sender
  <2> QED BY <2>1, <2>2, <1>2, <1>3, <1>6 DEF InStream
<1>8. flushes' = 0 => dec' = (z + 2) + Inside'
  <2>1. flushes' = flushes
    BY <1>1 DEF sender
  <2> QED BY <2>1, <1>1, <1>2, <1>6
<1>9. ~decr' => \E y \in Nat : InStream(0, y)'
  <2>1. ~decr' => ~decr /\ ~(payload > 0)
    BY <1>1
  <2>2. ~(payload > 0) => Taken' = Taken
    <3>1. payload \in Nat /\ Taken \in Nat
      BY TypesAre
    <3>2. ~(payload > 0) => payload = 0
      BY <3>1
    <3>3. Taken + 0 = Taken
      BY <3>1
    <3> QED BY <3>2, <3>3, <1>3
  <2>3. Lead = <<>>
    BY <1>1 DEF Lead
  <2>4. Taken' = Taken => \A y : InStream(0, y) => InStream(0, y)'
    BY <1>1, <1>6, <2>3 DEF InStream, sender
  <2>5. ~decr => \E y \in Nat : InStream(0, y)
    BY <1>1 DEF StreamInv
  <2> QED BY <2>1, <2>2, <2>4, <2>5
<1> QED BY <1>7, <1>8, <1>9 DEF StreamInv

\* What is erased is what has been deciphered; else all of it is seen again.
LEMMA EraseKeepsStream ==
  ASSUME IInv, Erase
  PROVE  StreamInv'
<1> USE DEF IInv
<1>1. /\ at = "erase" /\ at' \in {"header", "give"} /\ from' = 0 /\ decr' = FALSE /\ Alive
      /\ unprocessed' = (IF decr THEN SubSeq(unprocessed, from + 1, Len(unprocessed)) ELSE unprocessed)
      /\ UNCHANGED <<sender, wire, dec, payload, decrypted, given>>
  BY DEF Erase, Alive
<1>2. /\ unprocessed \in Seq(AllUnits) /\ wire \in Seq(AllUnits) /\ encrypted \in Seq(AllUnits)
      /\ from \in 0..Len(unprocessed)
  BY TypesAre
<1>3. Lead' = Lead /\ Taken' = Taken /\ Low' = Low /\ enc' = enc /\ sent' - plain' = sent - plain
      /\ Inside' = Inside /\ encrypted' = encrypted /\ UNCHANGED <<dec, wire, flushes>>
  BY <1>1 DEF Lead, Taken, Low, sender, Inside
<1>4. CASE decr
  <2>1. Line(unprocessed', wire', encrypted', 0) = Line(unprocessed, wire, encrypted, from)
    BY <1>1, <1>2, <1>3, <1>4, LineErased
  <2>2. \A z : InStream(from, z) => InStream(0, z)'
    BY <2>1, <1>3 DEF InStream
  <2> QED BY <2>2, <1>1, <1>3 DEF StreamInv
<1>5. CASE ~decr
  <2>1. Line(unprocessed', wire', encrypted', 0) = Line(unprocessed, wire, encrypted, 0)
    BY <1>1, <1>3, <1>5
  <2>2. \A z : InStream(0, z) => InStream(0, z)'
    BY <2>1, <1>3 DEF InStream
  <2>3. flushes = 0 => from = 0
    BY <1>5 DEF PlaceInv
  <2> QED BY <2>2, <2>3, <1>1, <1>3, <1>5 DEF StreamInv
<1> QED BY <1>4, <1>5
LEMMA StreamKept ==
  ASSUME IInv, Next
  PROVE  StreamInv'
<1> USE DEF IInv
<1>1. CASE \E n \in 0..MaxSend : SendStarts(n)
  BY <1>1, SendKeepsStream
<1>2. CASE Encipher
  BY <1>2, EncipherKeepsStream
<1>3. CASE RecvSalt
  BY <1>3, SaltKeepsStream
<1>4. CASE InnerRecv
  BY <1>4, InnerKeepsStream
<1>5. CASE DecryptPayload
  BY <1>5, PayloadKeepsStream
<1>6. CASE Erase
  BY <1>6, EraseKeepsStream
<1>7. CASE SaltFails \/ InnerFails \/ DecryptFails
  <2>1. ~Alive'
    BY <1>7 DEF SaltFails, InnerFails, DecryptFails, Closes, Alive
  <2> QED BY <2>1 DEF StreamInv
<1>8. ASSUME UNCHANGED <<sender, wire, unprocessed, from, decr>>, Taken' = Taken, Lead' = Lead,
             Alive' => Alive, flushes = 0 /\ Alive' => dec' - Inside' = dec - Inside,
             dec \in Nat, dec' \in Nat
      PROVE  StreamInv'
  <2>1. \A k, z : InStream(k, z) => InStream(k, z)'
    BY <1>8 DEF InStream, Low, sender
  <2>2. Inside \in {0, 1} /\ Inside' \in {0, 1}
    BY DEF Inside
  <2>3. CASE Alive'
    <3>1. PICK z \in Nat : InStream(from, z) /\ (flushes = 0 => dec = z + Inside)
      BY <1>8, <2>3 DEF StreamInv
    <3>2. InStream(from, z)' /\ flushes' = flushes
      BY <3>1, <2>1, <1>8 DEF sender
    <3>3. flushes = 0 => dec' = z + Inside'
      <4> DEFINE i == Inside
                 j == Inside'
      <4>1. flushes = 0 => dec' - j = dec - i /\ dec = z + i
        BY <3>1, <2>3, <1>8
      <4>2. i \in {0, 1} /\ j \in {0, 1} /\ dec \in Nat /\ dec' \in Nat
        BY <2>2, <1>8
      <4> HIDE DEF i, j
      <4> HIDE <3>1
      <4>3. \A a, b \in Nat : \A c, d \in {0, 1} : b - d = a - c /\ a = z + c => b = z + d
        BY z \in Nat
      <4>4. flushes = 0 => dec' = z + j
        BY ONLY <4>1, <4>2, <4>3
      <4> QED BY <4>4 DEF j
    <3>4. ~decr' => \E y \in Nat : InStream(0, y)'
      BY <1>8, <2>1, <2>3 DEF StreamInv
    <3> QED BY <3>2, <3>3, <3>4 DEF StreamInv
  <2> QED BY <2>3 DEF StreamInv
<1>a. dec \in Nat /\ payload \in Nat
  BY TypesAre
<1>9. CASE SenderEnds
  <2>1. UNCHANGED <<sender, wire, decryptor, at, decrypted, given>>
    BY <1>9 DEF SenderEnds
  <2> QED BY <2>1, <1>8, <1>a DEF decryptor, Taken, Lead, Inside, Alive
<1>10. CASE HeaderRead \/ Gives
  <2>1. /\ UNCHANGED <<sender, wire, decryptor>> /\ at \in {"header", "give"} /\ at' \in {"header", "wait"}
    BY <1>10 DEF HeaderRead, Gives
  <2>2. Taken' = Taken
    <3>1. PICK k \in Nat : /\ decrypted' = ChunkPeeked(decrypted, ChunkSize, k)
                           /\ given' = given + Smaller(k, ChunkData(decrypted, ChunkSize))
      <4>1. CASE HeaderRead
        BY <4>1, HeaderHanded
      <4>2. CASE Gives
        <5>1. \A max \in {1, MaxSent} : max \in Nat
          BY Sizes
        <5> QED BY <4>2, <5>1 DEF Gives
      <4> QED BY <1>10, <4>1, <4>2
    <3>2. Alive
      BY <2>1 DEF Alive
    <3> QED BY <3>1, <3>2, Handed
  <2>3. Lead' = Lead /\ Inside' = Inside /\ Alive
    BY <2>1 DEF Lead, Inside, decryptor, Alive
  <2> QED BY <2>1, <2>2, <2>3, <1>8, <1>a DEF decryptor
<1>11. CASE HeaderAsks \/ Bridged \/ Wait \/ RecvStarts \/ LoopEnds
  <2>1. /\ UNCHANGED <<sender, wire, decryptor, decrypted, given>> /\ at \notin {"salt", "payload"}
        /\ at' \notin {"salt", "payload"} /\ Alive
    BY <1>11 DEF HeaderAsks, Bridged, Wait, RecvStarts, LoopEnds, Alive
  <2> QED BY <2>1, <1>8, <1>a DEF decryptor, Taken, Lead, Inside
<1>12. CASE DecryptSize
  <2>1. /\ UNCHANGED <<sender, wire, unprocessed, from, decr, decrypted, given>>
        /\ at = "decrypt" /\ at' = "payload" /\ payload = 0 /\ dec' = dec + 1 /\ Alive
    BY <1>12 DEF DecryptSize, Alive
  <2>2. Inside = 0 /\ Inside' = 1
    BY <2>1 DEF Inside
  <2>3. dec' \in Nat /\ dec' - Inside' = dec - Inside
    BY <2>1, <2>2, <1>a
  <2> QED BY <2>1, <2>3, <1>8, <1>a DEF Taken, Lead
<1>13. CASE SizeKnown
  <2>1. /\ UNCHANGED <<sender, wire, unprocessed, from, decr, decrypted, given, dec, payload>>
        /\ at = "decrypt" /\ at' = "payload" /\ payload > 0 /\ Alive
    BY <1>13 DEF SizeKnown, Alive
  <2>2. Inside = 1 /\ Inside' = 1
    BY <2>1 DEF Inside
  <2> QED BY <2>1, <2>2, <1>8, <1>a DEF Taken, Lead
<1>14. CASE PayloadWaits
  <2>1. /\ UNCHANGED <<sender, wire, decryptor, decrypted, given>>
        /\ at = "payload" /\ at' = "erase" /\ Alive
    BY <1>14 DEF PayloadWaits, Alive
  <2>2. flushes = 0 => payload > 0
    <3>1. flushes \in Nat /\ PlaceInv /\ from < Len(unprocessed) /\ payload = unprocessed[from + 1].block.len
      <4>1. from + (SizeLen + Tag) <= Len(unprocessed) /\ payload = unprocessed[from + 1].block.len
        BY <2>1 DEF PlaceInv
      <4>2. from \in Nat /\ Len(unprocessed) \in Nat /\ SizeLen + Tag \in Nat \ {0} /\ flushes \in Nat
        BY TypesAre
      <4> DEFINE u == SizeLen + Tag
      <4>3. from + u <= Len(unprocessed) /\ u \in Nat \ {0}
        BY <4>1, <4>2
      <4> HIDE DEF u
      <4>4. from < Len(unprocessed)
        BY <4>2, <4>3
      <4> QED BY <4>1, <4>2, <4>4
    <3>2. PICK z \in Nat : InStream(from, z)
      BY <2>1 DEF StreamInv
    <3>3. payload \in Low..ChunkMax
      BY <3>1, <3>2, <2>1, AtFront
    <3> QED BY <3>3, <1>a, Sizes DEF Low
  <2>3. flushes = 0 => Inside = 1 /\ Inside' = 1
    BY <2>1, <2>2 DEF Inside, decryptor
  <2> QED BY <2>1, <2>3, <1>8, <1>a DEF decryptor, Taken, Lead
<1> QED
  BY <1>1, <1>2, <1>3, <1>4, <1>5, <1>6, <1>7, <1>9, <1>10, <1>11, <1>12, <1>13, <1>14
  DEF Next, Sender, Receiver, Decipher

-----------------------------------------------------------------------------
(* The invariant holds.                                                    *)

LEMMA IInvStarts == Init => IInv
<1> SUFFICES ASSUME Init PROVE IInv
  OBVIOUS
<1>1. /\ sent = 0 /\ flushes = 0 /\ sending = FALSE /\ plain = 0 /\ enc = 0 /\ encrypted = SaltUnits
      /\ wire = <<>> /\ fin = FALSE /\ at = "salt" /\ key = <<>> /\ dec = 0
      /\ unprocessed = <<>> /\ payload = 0 /\ from = 0 /\ decr = FALSE /\ cur = 0
      /\ decrypted = NoChunks /\ given = 0 /\ header = Header /\ ready = {}
  BY DEF Init
<1>2. SaltUnits \in Seq(AllUnits) /\ <<>> \in Seq(AllUnits) /\ Len(<<>>) = 0
  BY SaltUnitsAre, EmptySeq
<1>3. IsChunks(NoChunks, ChunkSize) /\ ChunkData(NoChunks, ChunkSize) = 0
      /\ ChunkContents(NoChunks, ChunkSize) = <<>>
  BY Sizes, NoChunksIs
<1>4. TypeOK
  <2>1. header \in Seq(Nat)
    BY <1>1, Sizes
  <2>2. encrypted \in Seq(AllUnits) /\ wire \in Seq(AllUnits) /\ key \in Seq(AllUnits) /\ unprocessed \in Seq(AllUnits)
    BY <1>1, <1>2
  <2>3. from \in 0..Len(unprocessed) /\ cur \in 0..Len(unprocessed) /\ ~(payload > 0)
    BY <1>1, <1>2
  <2>4. /\ sent \in 0..MaxSent /\ flushes \in 0..MaxFlushes /\ plain \in 0..MaxSend
        /\ payload \in 0..ChunkMax
    BY <1>1, Sizes
  <2>5. /\ sending \in BOOLEAN /\ fin \in BOOLEAN /\ decr \in BOOLEAN /\ at \in Places
        /\ enc \in Nat /\ dec \in Nat /\ given \in Nat /\ ready \subseteq {"system", "pipe"}
    BY <1>1 DEF Places
  <2> QED BY <2>1, <2>2, <2>3, <2>4, <2>5 DEF TypeOK
<1>5. Taken = 0 /\ Lead = SaltUnits /\ Low = 1 /\ Inside = 0 /\ sent - plain = 0
  BY <1>1, <1>3 DEF Taken, Lead, Low, Inside
<1>6. StreamInv
  <2>1. Line(<<>>, <<>>, SaltUnits, 0) = SaltUnits \o <<>>
    <3>1. Line(<<>>, <<>>, SaltUnits, 0) = (<<>> \o <<>>) \o SaltUnits
      BY <1>2, LineAll
    <3>2. <<>> \o <<>> = <<>> /\ <<>> \o SaltUnits = SaltUnits /\ SaltUnits \o <<>> = SaltUnits
      BY <1>2, ConcatEmptySeq
    <3> QED BY <3>1, <3>2
  <2>2. Records(<<>>, 0, 0, 0, 0, 1)
    BY NoRecords
  <2>3. Carried(Line(<<>>, <<>>, SaltUnits, 0), SaltUnits, 0, 0, 0, 0, 1)
    BY <2>1, <2>2, <1>2 DEF Carried
  <2>4. InStream(0, 0)
    BY <2>3, <1>1, <1>5 DEF InStream
  <2>5. 0 \in Nat /\ 0 = 0 + Inside
    BY <1>5
  <2> QED BY <2>4, <2>5, <1>1 DEF StreamInv
<1>7. PlaceInv
  BY <1>1 DEF PlaceInv
<1>8. SenderInv /\ FailInv /\ ReadyInv
  BY <1>1 DEF SenderInv, FailInv, ReadyInv
<1>9. DataInv
  <2>1. Run(0, 0) = <<>>
    <3>1. Run(0, 0) \in Seq(Nat) /\ Len(Run(0, 0)) = 0 - 0
      BY RunIs
    <3> QED BY <3>1, EmptySeq
  <2> QED BY <2>1, <1>1, <1>3, <1>5 DEF DataInv
<1> QED BY <1>4, <1>6, <1>7, <1>8, <1>9 DEF IInv

LEMMA IInvKept == IInv /\ [Next]_vars => IInv'
<1> SUFFICES ASSUME IInv, [Next]_vars PROVE IInv'
  OBVIOUS
<1>1. CASE Next
  BY <1>1, TypesKept, StreamKept, PlaceKept, SenderKept, FailKept, DataKept, ReadyKept DEF IInv
<1>2. CASE UNCHANGED vars
  <2>1. UNCHANGED <<sender, wire, fin, at, decryptor, decrypted, given, header, ready>>
    BY <1>2 DEF vars
  <2>2. TypeOK'
    BY <2>1 DEF IInv, TypeOK, sender, decryptor
  <2>3. StreamInv' /\ DataInv'
    <3>1. Taken' = Taken /\ Lead' = Lead /\ Low' = Low /\ Inside' = Inside /\ (Alive' <=> Alive)
      BY <2>1 DEF Taken, Lead, Low, Inside, Alive, sender, decryptor
    <3>2. \A k, z : InStream(k, z) => InStream(k, z)'
      BY <2>1, <3>1 DEF InStream, sender, decryptor
    <3> QED BY <2>1, <3>1, <3>2 DEF IInv, StreamInv, DataInv, sender, decryptor
  <2>4. PlaceInv'
    BY <2>1 DEF IInv, PlaceInv, Alive, sender, decryptor
  <2>5. SenderInv' /\ FailInv' /\ ReadyInv'
    BY <2>1 DEF IInv, SenderInv, FailInv, ReadyInv, sender
  <2> QED BY <2>2, <2>3, <2>4, <2>5 DEF IInv
<1> QED BY <1>1, <1>2

\* The inductive invariant: wherever the stream is cut, what the decryptor has not come to is a
\* stream of whole records that begins with its nonce, and the deciphered bytes are the plain ones
\* in front of them.
THEOREM Invariant == Spec => []IInv
BY IInvStarts, IInvKept, PTL DEF Spec

\* TypeOK: the indices of decipher stay inside unprocessed, and a size that is kept has its block
\* at the front of what is left.
THEOREM TypeCorrect == Spec => []TypeOK
<1>1. IInv => TypeOK
  BY DEF IInv
<1> QED BY Invariant, <1>1, PTL

\* is_ready without bytes never lets rcv_all call ::recv, which would stop the thread.
THEOREM NeverBlocks == Spec => []NoBlockingRecv
<1>1. IInv => NoBlockingRecv
  BY DEF IInv, ReadyInv, TypeOK, NoBlockingRecv
<1> QED BY Invariant, <1>1, PTL

\* NoncesAgree: wherever the stream is cut, the next unit starts the block whose nonce the
\* decryptor has; no block fails to decipher, as long as the sender never sends without bytes.
THEOREM NoncesAlwaysAgree == Spec => []NoncesAgree
<1>1. IInv => NoncesAgree
  <2> SUFFICES ASSUME IInv, flushes = 0
               PROVE  /\ at # "failed"
                      /\ at \notin {"salt", "closed"} =>
                           IF Ahead = <<>> THEN dec = enc
                           ELSE Ahead[1].at = 1 /\ Ahead[1].block.nonce = dec
    BY DEF NoncesAgree
  <2> USE DEF IInv
  <2>1. at # "failed"
    BY DEF FailInv
  <2>2. ASSUME at \notin {"salt", "closed"}
        PROVE  IF Ahead = <<>> THEN dec = enc
               ELSE Ahead[1].at = 1 /\ Ahead[1].block.nonce = dec
    <3> DEFINE u == SizeLen + Tag
               m == Len(unprocessed)
               x == Line(unprocessed, wire, encrypted, from)
    <3>1. /\ unprocessed \in Seq(AllUnits) /\ wire \in Seq(AllUnits) /\ encrypted \in Seq(AllUnits)
          /\ m \in Nat /\ from \in 0..m /\ from \in Nat /\ u \in Nat \ {0} /\ dec \in Nat /\ Tag \in Nat \ {0}
      BY TypesAre
    <3>2. PICK z \in Nat : InStream(from, z) /\ dec = z + Inside
      BY <2>1, <2>2 DEF StreamInv, Alive
    <3>3. Records(x, z, enc, Taken, sent - plain, Low)
      <4>1. Carried(x, <<>>, z, enc, Taken, sent - plain, Low)
        BY <3>2, <2>2 DEF InStream, Lead
      <4> HIDE DEF x
      <4> QED BY <4>1, CarriedIs
    <3>4. x \in Seq(AllUnits) /\ Len(x) \in Nat /\ Len(x) >= m - from
      <4>1. x \in Seq(AllUnits) /\ Len(x) = ((m - from) + Len(wire)) + Len(encrypted)
        BY <3>1, LineIs
      <4>2. Len(wire) \in Nat /\ Len(encrypted) \in Nat
        BY <3>1
      <4> HIDE DEF x, m
      <4> QED BY <4>1, <4>2, <3>1
    <3>5. from + SizeLen + Tag = from + u
      BY <3>1, Sizes
    <3> HIDE DEF u, m
    <3>6. CASE Inside = 0
      <4>0. ~(payload > 0) /\ at # "payload"
        BY <3>6 DEF Inside
      <4>1. Ahead = x
        BY <4>0 DEF Ahead, Line
      <4> HIDE DEF x
      <4>2. CASE Len(x) = 0
        <5>1. z = enc
          BY <4>2, <3>3, NothingLeft
        <5>2. x = <<>>
          BY <4>2, <3>4, EmptySeq
        <5> QED BY <4>1, <5>1, <5>2, <3>2, <3>6
      <4>3. CASE Len(x) # 0
        <5>1. RecordAt(x, 0, z, Taken, x[1].block.len)
          BY <4>3, <3>3, RecordsFirst
        <5>2. 1 \in 1..SizeLen + Tag /\ 0 + 1 = 1
          BY <3>1 DEF u
        <5>3. x[0 + 1] = [block |-> Block(z, "size", x[1].block.len, 0), at |-> 1]
          BY <5>1, <5>2 DEF RecordAt
        <5>4. x[1].at = 1 /\ x[1].block.nonce = z
          BY <5>2, <5>3 DEF Block
        <5>5. x # <<>>
          BY <4>3
        <5> QED BY <4>1, <5>4, <5>5, <3>2, <3>6
      <4> QED BY <4>2, <4>3
    <3>7. CASE Inside = 1
      <4>1. payload > 0 \/ at = "payload"
        BY <3>7 DEF Inside
      <4>2. from + u <= m
        BY <4>1 DEF PlaceInv, u, m
      <4>3. u \in 0..m - from /\ from + u \in 0..m /\ from + u \in Nat
        BY <3>1, <4>2
      <4> DEFINE y == Line(unprocessed, wire, encrypted, from + u)
      <4>4. Ahead = y
        <5>1. at = "payload" => cur = from + u
          BY DEF PlaceInv, u
        <5>2. Ahead = SubSeq(unprocessed, (from + u) + 1, Len(unprocessed)) \o wire \o encrypted
          BY <4>1, <5>1, <3>5 DEF Ahead
        <5> QED BY <5>2 DEF Line
      <4>5. y = SubSeq(x, u + 1, Len(x))
        BY <3>1, <4>3, LineRest DEF m
      <4> HIDE DEF x, y
      <4>6. Len(x) # 0 /\ u \in 0..Len(x)
        BY <3>1, <3>4, <4>3
      <4> DEFINE len == x[1].block.len
      <4>7. len \in Nat /\ Over(len) <= Len(x) /\ RecordAt(x, 0, z, Taken, len)
        BY <4>6, <3>3, RecordsFirst
      <4>8. /\ y \in Seq(AllUnits) /\ Len(y) = Len(x) - u
            /\ \A i \in 1..Len(x) - u : y[i] = x[u + i]
        <5>1. Len(x) \in u..Len(x)
          BY <4>6, <3>4
        <5> QED BY <4>5, <4>6, <5>1, <3>4, PartIn
      <4> HIDE DEF len
      <4>9. 1 \in 1..Len(x) - u /\ 1 \in 1..len + Tag /\ (0 + (SizeLen + Tag)) + 1 = u + 1
        <5>1. Over(len) = u + (len + Tag)
          BY DEF Over, u
        <5>2. u + (len + Tag) <= Len(x) /\ len \in Nat /\ 0 + u = u
          BY <4>7, <5>1, <3>1
        <5>3. 1 \in 1..Len(x) - u /\ 1 \in 1..len + Tag
          BY <5>2, <3>1, <3>4
        <5> QED BY <5>2, <5>3 DEF u
      <4>10. x[u + 1] = [block |-> Block(z + 1, "payload", len, Taken + 1), at |-> 1]
        BY <4>7, <4>9 DEF RecordAt
      <4>11. y[1].at = 1 /\ y[1].block.nonce = z + 1
        <5>1. y[1] = [block |-> Block(z + 1, "payload", len, Taken + 1), at |-> 1]
          BY <4>8, <4>9, <4>10
        <5> QED BY <5>1 DEF Block
      <4>12. y # <<>>
        <5>1. Len(y) # 0
          BY <4>8, <4>9, <3>1, <3>4
        <5> QED BY <5>1
      <4> QED BY <4>4, <4>11, <4>12, <3>2, <3>7
    <3>8. Inside = 0 \/ Inside = 1
      BY DEF Inside
    <3> QED BY <3>6, <3>7, <3>8
  <2> QED BY <2>1, <2>2
<1> QED BY Invariant, <1>1, PTL
-----------------------------------------------------------------------------
(* The stream that Channel promises.                                       *)

\* All that is under way are the bytes behind those handed over.
Shape ==
  /\ given \in Nat /\ sent \in Nat /\ Taken \in Nat /\ given <= Taken
  /\ Alive => UnderWay = Run(given, sent) /\ Taken <= sent

LEMMA NoLeadBytes == BytesIn(Lead) = <<>>
<1>1. CASE at = "salt"
  BY <1>1, SaltUnitsAre DEF Lead
<1>2. CASE at # "salt"
  <2> DEFINE none == <<>>
  <2>1. none \in Seq(AllUnits) /\ Len(none) = 0
    OBVIOUS
  <2>2. \A i \in 1..Len(none) : ~HasByte(none[i])
    BY <2>1
  <2>3. Lead = none
    BY <1>2 DEF Lead
  <2> HIDE DEF none
  <2>4. BytesIn(Lead) = <<>>
    BY <2>1, <2>2, <2>3, NoBytesIn
  <2> QED BY <2>4
<1> QED BY <1>1, <1>2

LEMMA ShapeIs == IInv => Shape
<1> SUFFICES ASSUME IInv PROVE Shape
  OBVIOUS
<1> USE DEF IInv
<1>1. /\ encrypted \in Seq(AllUnits) /\ wire \in Seq(AllUnits) /\ unprocessed \in Seq(AllUnits)
      /\ from \in 0..Len(unprocessed) /\ given \in Nat /\ sent \in Nat /\ plain \in Nat
      /\ ChunkData(decrypted, ChunkSize) \in Nat /\ Taken \in Nat
  BY TypesAre
<1>2. given <= Taken
  BY <1>1 DEF Taken
<1>3. ASSUME Alive
      PROVE  UnderWay = Run(given, sent) /\ Taken <= sent
  <2> DEFINE x == Line(unprocessed, wire, encrypted, from)
             q == sent - plain
  <2>1. PICK z \in Nat : InStream(from, z)
    BY <1>3 DEF StreamInv
  <2>2. PICK s \in Seq(AllUnits) : x = Lead \o s /\ Records(s, z, enc, Taken, q, Low)
    BY <2>1 DEF InStream, Carried
  <2>3. BytesIn(s) = Run(Taken, q) /\ Taken <= q /\ q \in Nat
    BY <2>2 DEF Records
  <2>4. BytesIn(x) = Run(Taken, q)
    <3>1. BytesIn(Lead \o s) = BytesIn(Lead) \o BytesIn(s)
      BY LeadIs, BytesInBoth
    <3>2. <<>> \o BytesIn(s) = BytesIn(s)
      BY BytesInSeq, ConcatEmptySeq
    <3> HIDE DEF x, q
    <3> QED BY <3>1, <3>2, <2>2, <2>3, NoLeadBytes
  <2>5. [i \in 1..plain |-> sent - plain + i] = Run(q, sent)
    <3>1. sent - q = plain
      BY <1>1
    <3> QED BY <3>1 DEF Run
  <2>6. ChunkContents(decrypted, ChunkSize) = Run(given, Taken)
    BY <1>3 DEF DataInv
  <2>7. UnderWay = (Run(given, Taken) \o Run(Taken, q)) \o Run(q, sent)
    <3>1. UnderWay = (ChunkContents(decrypted, ChunkSize) \o BytesIn(x)) \o [i \in 1..plain |-> sent - plain + i]
      BY <1>3 DEF UnderWay, Line
    <3> HIDE DEF x, q
    <3> QED BY <3>1, <2>4, <2>5, <2>6
  <2>8. q <= sent
    BY <1>1
  <2> HIDE DEF q
  <2>9. Run(given, Taken) \o Run(Taken, q) = Run(given, q)
    BY <1>1, <1>2, <2>3, RunsJoin
  <2>10. given <= q /\ Taken <= sent
    BY <1>1, <1>2, <2>3, <2>8
  <2>11. Run(given, q) \o Run(q, sent) = Run(given, sent)
    BY <1>1, <2>3, <2>8, <2>10, RunsJoin
  <2> QED BY <2>7, <2>9, <2>10, <2>11
<1> QED BY <1>1, <1>2, <1>3 DEF Shape

\* Steps that neither take bytes nor hand bytes over, and do not break the stream.
LEMMA SameStream ==
  ASSUME Shape, Shape', UNCHANGED <<sent, given>>, (Alive') <=> Alive
  PROVE  UNCHANGED Stream!vars
<1>1. UnderWay' = UnderWay
  <2>1. CASE Alive
    BY <2>1 DEF Shape, Run
  <2>2. CASE ~Alive
    <3>1. UnderWay = <<>>
      BY <2>2 DEF UnderWay
    <3>2. UnderWay' = <<>>
      BY <2>2 DEF UnderWay
    <3> QED BY <3>1, <3>2
  <2> QED BY <2>1, <2>2
<1>2. Alive' = Alive
  <2>1. Alive \in BOOLEAN /\ Alive' \in BOOLEAN
    BY DEF Alive
  <2> QED BY <2>1
<1> QED BY <1>1, <1>2 DEF Stream!vars

\* What a send is given, before and after the stream has broken.
LEMMA SendWrites ==
  ASSUME IInv, Shape, Shape', NEW n \in 0..MaxSend, SendStarts(n)
  PROVE  [Stream!Next]_(Stream!vars)
<1>1. /\ sent' = sent + n /\ UNCHANGED <<at, given>>
  BY DEF SendStarts
<1>2. ((Alive') <=> Alive) /\ n \in Nat /\ sent \in Nat /\ given \in Nat /\ sent' \in Nat
  BY <1>1, Sizes DEF Alive, Shape
<1>3. CASE n = 0
  BY <1>1, <1>2, <1>3, SameStream
<1>4. CASE n # 0
  <2> DEFINE count == [s \in {"sender"} |-> sent]
             queue == [s \in {"sender"} |-> UnderWay]
  <2>1. Stream!More(count, "sender")
    <3>1. sent' > sent
      BY <1>1, <1>2, <1>4
    <3> QED BY <3>1, <1>2 DEF Stream!More
  <2>2. CASE Alive
    <3>1. UnderWay = Run(given, sent) /\ UnderWay' = Run(given, sent') /\ given <= sent /\ sent <= sent'
      <4>1. Taken \in Nat /\ given <= Taken /\ Taken <= sent
        BY <2>2, TypesAre DEF Shape, IInv
      <4> QED BY <1>1, <1>2, <2>2, <4>1 DEF Shape
    <3>2. Run(given, sent) \o Run(sent, sent') = Run(given, sent')
      BY <1>2, <3>1, RunsJoin
    <3>3. Run(sent, sent') = [i \in 1..sent' - sent |-> sent + i]
      BY DEF Run
    <3>4. UnderWay' = UnderWay \o [i \in 1..sent' - sent |-> sent + i]
      BY <3>1, <3>2, <3>3
    <3>5. queue' = [queue EXCEPT !["sender"] =
                      @ \o [i \in 1..count'["sender"] - count["sender"] |-> count["sender"] + i]]
      BY <3>4
    <3>6. Stream!Write("sender")
      BY <1>1, <1>2, <2>1, <2>2, <3>5 DEF Stream!Write
    <3> QED BY <3>6 DEF Stream!Next
  <2>3. CASE ~Alive
    <3>1. UnderWay = <<>> /\ UnderWay' = <<>>
      BY <1>2, <2>3 DEF UnderWay
    <3>2. Alive' = Alive /\ UNCHANGED <<[s \in {"sender"} |-> given], queue>>
      BY <1>1, <3>1 DEF Alive
    <3>3. Stream!WriteLost("sender")
      BY <2>1, <2>3, <3>2 DEF Stream!WriteLost
    <3> QED BY <3>3 DEF Stream!Next
  <2> QED BY <2>2, <2>3
<1> QED BY <1>3, <1>4

\* What recv hands over.
LEMMA HandingReads ==
  ASSUME IInv, Shape, Shape', HeaderRead \/ Gives
  PROVE  [Stream!Next]_(Stream!vars)
<1>1. sent' = sent /\ Alive /\ Alive'
  BY DEF HeaderRead, Gives, sender, Alive
<1>2. PICK k \in Nat : /\ decrypted' = ChunkPeeked(decrypted, ChunkSize, k)
                       /\ given' = given + Smaller(k, ChunkData(decrypted, ChunkSize))
  <2>1. CASE HeaderRead
    BY <2>1, HeaderHanded
  <2>2. CASE Gives
    <3>1. \A max \in {1, MaxSent} : max \in Nat
      BY Sizes
    <3> QED BY <2>2, <3>1 DEF Gives
  <2> QED BY <2>1, <2>2
<1> DEFINE data == ChunkData(decrypted, ChunkSize)
           out == Smaller(k, data)
<1>3. out \in 0..data /\ given' = given + out /\ data = Taken - given
  BY <1>1, <1>2, Handed DEF IInv
<1>4. /\ given \in Nat /\ sent \in Nat /\ Taken \in Nat /\ given <= Taken /\ Taken <= sent
      /\ UnderWay = Run(given, sent) /\ UnderWay' = Run(given', sent)
  BY <1>1, TypesAre DEF Shape, IInv
<1> HIDE DEF data, out
<1>5. out \in Nat /\ out \in 0..sent - given /\ given <= sent /\ given' - given = out /\ given' \in Nat
  BY <1>3, <1>4
<1>6. CASE out = 0
  <2>1. given' = given
    BY <1>3, <1>4, <1>6
  <2> QED BY <2>1, <1>1, SameStream
<1>7. CASE out # 0
  <2> DEFINE count == [s \in {"sender"} |-> given]
             queue == [s \in {"sender"} |-> UnderWay]
  <2>1. Stream!More(count, "sender")
    <3>1. given' > given
      BY <1>3, <1>4, <1>5, <1>7
    <3> QED BY <3>1, <1>5 DEF Stream!More
  <2>2. /\ UnderWay \in Seq(Nat) /\ Len(UnderWay) = sent - given
        /\ \A i \in 1..sent - given : UnderWay[i] = given + i
    BY <1>4, <1>5, RunIs
  <2>3. UnderWay' = SubSeq(UnderWay, out + 1, Len(UnderWay))
    <3>1. SubSeq(Run(given, sent), out + 1, sent - given) = Run(given + out, sent)
      BY <1>4, <1>5, RunRest
    <3> QED BY <3>1, <2>2, <1>3, <1>4
  <2>4. UnderWay[1] = given + 1 /\ out <= Len(UnderWay)
    <3>1. 1 \in 1..sent - given
      BY <1>4, <1>5, <1>7
    <3> QED BY <3>1, <2>2, <1>5
  <2>5. queue' = [queue EXCEPT !["sender"] = SubSeq(@, count'["sender"] - count["sender"] + 1, Len(@))]
    BY <2>3, <1>5
  <2>6. Stream!Read("sender")
    BY <1>1, <1>5, <2>1, <2>4, <2>5 DEF Stream!Read
  <2> QED BY <2>6 DEF Stream!Next
<1> QED BY <1>6, <1>7

\* The receiver's failures cut all that is under way.
LEMMA FailBreaks ==
  ASSUME Shape, SaltFails \/ InnerFails \/ DecryptFails
  PROVE  Stream!Break
<1>1. Alive /\ ~Alive' /\ UNCHANGED <<sent, given>>
  BY DEF SaltFails, InnerFails, DecryptFails, Closes, Alive, sender
<1>2. UnderWay' = <<>>
  BY <1>1 DEF UnderWay
<1>3. UnderWay \in Seq(Nat) /\ Len(UnderWay) \in Nat
  <2>1. given \in Nat /\ sent \in Nat /\ UnderWay = Run(given, sent)
    BY <1>1 DEF Shape
  <2>2. given <= sent
    BY <1>1 DEF Shape
  <2> QED BY <2>1, <2>2, RunIs
<1> DEFINE queue == [s \in {"sender"} |-> UnderWay]
           cut == [s \in {"sender"} |-> 0]
<1>4. SubSeq(UnderWay, 1, 0) = <<>>
  BY <1>3
<1>5. queue' = [s \in {"sender"} |-> SubSeq(queue[s], 1, cut[s])]
  BY <1>2, <1>4
<1>6. cut \in [{"sender"} -> UNION {0..Len(queue[s]) : s \in {"sender"}}]
  <2>1. 0 \in 0..Len(UnderWay)
    BY <1>3
  <2> QED BY <2>1
<1>7. \A s \in {"sender"} : cut[s] <= Len(queue[s])
  BY <1>3
<1>8. Alive' = FALSE
  <2>1. Alive' \in BOOLEAN
    BY DEF Alive
  <2> QED BY <2>1, <1>1
<1>9. UNCHANGED <<[s \in {"sender"} |-> sent], [s \in {"sender"} |-> given]>>
  BY <1>1
<1> HIDE DEF cut
<1> QED BY <1>1, <1>5, <1>6, <1>7, <1>8, <1>9, Zenon DEF Stream!Break

LEMMA StepRefines ==
  ASSUME IInv, Shape, Shape', [Next]_vars
  PROVE  [Stream!Next]_(Stream!vars)
<1>1. CASE \E n \in 0..MaxSend : SendStarts(n)
  BY <1>1, SendWrites
<1>2. CASE HeaderRead \/ Gives
  BY <1>2, HandingReads
<1>3. CASE SaltFails \/ InnerFails \/ DecryptFails
  BY <1>3, FailBreaks DEF Stream!Next
<1>4. CASE Encipher \/ SenderEnds \/ UNCHANGED vars
  <2>1. UNCHANGED <<sent, given, at>>
    BY <1>4 DEF Encipher, SenderEnds, vars, sender
  <2> QED BY <2>1, SameStream DEF Alive
<1>5. CASE \/ RecvSalt \/ HeaderAsks \/ Bridged \/ Wait \/ RecvStarts \/ InnerRecv \/ LoopEnds
           \/ DecryptSize \/ SizeKnown \/ PayloadWaits \/ DecryptPayload \/ Erase
  <2>1. UNCHANGED <<sent, given>> /\ Alive /\ Alive'
    BY <1>5 DEF RecvSalt, HeaderAsks, Bridged, Wait, RecvStarts, InnerRecv, LoopEnds, DecryptSize,
                SizeKnown, PayloadWaits, DecryptPayload, Erase, sender, Alive
  <2> QED BY <2>1, SameStream
<1> QED BY <1>1, <1>2, <1>3, <1>4, <1>5 DEF Next, Sender, Receiver, Decipher

LEMMA InitRefines == Init => Stream!Init
<1> SUFFICES ASSUME Init PROVE Stream!Init
  OBVIOUS
<1>1. sent = 0 /\ given = 0 /\ Alive
  BY DEF Init, Alive
<1>2. UnderWay = [i \in 1..sent |-> i]
  <2>1. Shape
    BY IInvStarts, ShapeIs
  <2>2. UnderWay = [i \in 1..0 - 0 |-> 0 + i]
    BY <2>1, <1>1 DEF Shape, Run
  <2>3. [i \in 1..0 - 0 |-> 0 + i] = [i \in 1..0 |-> i]
    OBVIOUS
  <2> QED BY <2>2, <2>3, <1>1
<1> QED BY <1>1, <1>2 DEF Stream!Init

\* ImplementsChannel: what the receiver hands over is the plain stream, in order, nothing lost and
\* nothing twice, however it is cut into sends, blocks, pieces of TCP and chunks of the buffer.
THEOREM Refines == Spec => ImplementsChannel
<1>1. IInv => Shape
  BY ShapeIs
<1>2. IInv /\ Shape /\ Shape' /\ [Next]_vars => [Stream!Next]_(Stream!vars)
  BY StepRefines
<1> QED BY <1>1, <1>2, Invariant, InitRefines, PTL DEF Spec, ImplementsChannel, Stream!Spec
=============================================================================
