---------------------------- MODULE Bridge_proofs ----------------------------
(***************************************************************************)
(* Proofs about Bridge, for any number of workers, addresses and slots,    *)
(* and for both builds.  Safe is the inductive invariant: the types, what  *)
(* each place says of the locals (PlaceInv), what the slot arrays hold     *)
(* (NodesAre: no pair in two slots of any node, and none behind numslots)  *)
(* and that a worker which has not placed its pair is in no slot           *)
(* (FreshInv).  Every operation on an array is a rearrangement of it       *)
(* (Good).  OwnInv adds, until a worker has unlinked the node of another,  *)
(* that the node a worker runs is live, open and of its own making.        *)
(***************************************************************************)
EXTENDS Bridge, FiniteSetTheorems, SequenceTheorems, TLAPS

(* One slot array.                                                         *)

IsSlots(s) == s \in [SlotIds -> [pair : Pairs, mask : Masks]]

\* No pair twice, and none behind the n slots in use.
Distinct(s) == \A i, j \in SlotIds : s[i].pair = s[j].pair /\ s[i].pair # None => i = j
Ends(s, n) == \A i \in SlotIds : i >= n => s[i].pair = None

\* The pairs of t are pairs of s.
OnlyOf(t, s) == \A i \in SlotIds : t[i].pair # None => \E k \in SlotIds : t[i].pair = s[k].pair

\* What an operation on the array s, of which n slots are in use, makes of it.
Good(t, m, s) == IsSlots(t) /\ Distinct(t) /\ Ends(t, m) /\ OnlyOf(t, s)

\* A rearrangement: every pair of t comes from a place of its own in s.
LEMMA Rearranged ==
  ASSUME NEW s, NEW t, NEW m \in Int, NEW o, IsSlots(s), IsSlots(t), Distinct(s),
         \A i \in SlotIds : i >= m => t[i].pair = None,
         \A i \in SlotIds : t[i].pair # None => o[i] \in SlotIds /\ t[i].pair = s[o[i]].pair,
         \A i, j \in SlotIds : t[i].pair # None /\ t[j].pair # None /\ o[i] = o[j] => i = j
  PROVE  Good(t, m, s)
BY DEF Good, Distinct, Ends, OnlyOf

LEMMA Below == \A n \in Int : IsFiniteSet(0..n - 1) /\ Cardinality(0..n - 1) = IF n > 0 THEN n ELSE 0
<1> SUFFICES ASSUME NEW n \in Int
             PROVE  IsFiniteSet(0..n - 1) /\ Cardinality(0..n - 1) = IF n > 0 THEN n ELSE 0
  OBVIOUS
<1>1. n - 1 \in Int /\ 0 \in Int
  OBVIOUS
<1>2. IsFiniteSet(0..n - 1) /\ Cardinality(0..n - 1) = IF 0 > n - 1 THEN 0 ELSE (n - 1) - 0 + 1
  BY <1>1, FS_Interval
<1> QED BY <1>2

\* A set of slots, and a smaller one.
LEMMA SizeOf ==
  ASSUME NEW n \in Int, NEW S \in SUBSET (0..n - 1), NEW T \in SUBSET S
  PROVE  /\ Cardinality(S) \in Nat /\ Cardinality(T) \in Nat
         /\ Cardinality(T) <= Cardinality(S)
         /\ n >= 0 => Cardinality(S) <= n
         /\ n < 0 => Cardinality(S) = 0
         /\ \A x \in S \ T : Cardinality(T) < Cardinality(S)
<1>1. IsFiniteSet(S) /\ Cardinality(S) <= Cardinality(0..n - 1)
  BY Below, FS_Subset
<1>2. IsFiniteSet(T) /\ Cardinality(T) <= Cardinality(S) /\ (Cardinality(S) = Cardinality(T) => S = T)
  BY <1>1, FS_Subset
<1>3. Cardinality(S) \in Nat /\ Cardinality(T) \in Nat
  BY <1>1, <1>2, FS_CardinalityType
<1>4. Cardinality(0..n - 1) = IF n > 0 THEN n ELSE 0
  BY Below
<1>5. \A x \in S \ T : Cardinality(T) < Cardinality(S)
  <2> SUFFICES ASSUME NEW x \in S \ T PROVE Cardinality(T) < Cardinality(S)
    OBVIOUS
  <2>1. S # T
    OBVIOUS
  <2> QED BY <2>1, <1>2, <1>3
<1>6. Cardinality(S) <= Cardinality(0..n - 1) /\ Cardinality(T) <= Cardinality(S)
  BY <1>1, <1>2
<1> QED BY <1>3, <1>4, <1>5, <1>6

-----------------------------------------------------------------------------
(* The operations on a slot array.                                         *)

LEMMA RegisterIs ==
  ASSUME NEW n \in -1..MaxSlots, NEW s, IsSlots(s), Distinct(s), Ends(s, n)
  PROVE  /\ Register(s, n).n \in -1..MaxSlots /\ Register(s, n).reg \in Masks
         /\ Register(s, n).moved \in SUBSET SlotIds
         /\ Good(Register(s, n).slots, Register(s, n).n, s)
<1> DEFINE bad(k) == {i \in 0..n - 1 : i < k /\ s[i].pair \in broken}
           last(k) == n - 1 - Cardinality(bad(k))
           seen == {k \in 0..n - 1 : k <= last(k)}
           gone == bad(n) \cap seen
           kept == seen \ gone
           left == n - Cardinality(gone)
           upto(i) == {k \in kept : k <= i}
           t == [i \in SlotIds |->
             IF left <= i /\ i < n THEN [s[i] EXCEPT !.pair = None]
             ELSE IF i \in gone THEN s[last(i)]
             ELSE IF i \in kept THEN [s[i] EXCEPT !.mask = Cardinality(upto(i))]
             ELSE s[i]]
           o == [i \in SlotIds |-> IF i \in gone THEN last(i) ELSE i]
<1>1. MaxSlots \in Nat /\ n \in Int
  BY SlotsAssumption
<1>2. Register(s, n) = [n |-> left, reg |-> Cardinality(kept), moved |-> gone \cap 0..left - 1, slots |-> t]
  BY DEF Register
<1>3. \A k \in Int : Cardinality(bad(k)) \in Nat
  BY <1>1, SizeOf
<1>4. /\ Cardinality(gone) \in Nat /\ Cardinality(kept) \in Nat
      /\ n >= 0 => Cardinality(gone) <= n /\ Cardinality(kept) <= n
      /\ n < 0 => Cardinality(gone) = 0 /\ Cardinality(kept) = 0
  <2> HIDE DEF bad, last
  <2>1. gone \in SUBSET (0..n - 1) /\ kept \in SUBSET (0..n - 1)
    OBVIOUS
  <2> QED BY <2>1, <1>1, SizeOf
<1>5. left \in -1..MaxSlots /\ left <= n /\ Cardinality(kept) \in Masks
  BY <1>1, <1>4 DEF Masks
\* A slot that was replaced comes from behind the slots that are left ...
<1>6. \A i \in gone : Cardinality(bad(i)) < Cardinality(gone)
  <2> SUFFICES ASSUME NEW i \in gone PROVE Cardinality(bad(i)) < Cardinality(gone)
    OBVIOUS
  <2>1. i \in 0..n - 1 /\ i \in seen /\ i <= last(i) /\ Cardinality(bad(i)) \in Nat
    BY <1>3
  <2>2. ASSUME NEW k \in bad(i) PROVE k \in gone
    <3>1. k \in 0..n - 1 /\ k < i /\ k \in bad(n)
      BY <2>1, <2>2, <1>1
    <3>2. bad(k) \in SUBSET bad(i) /\ bad(i) \in SUBSET (0..n - 1)
      BY <2>1, <3>1
    <3>3. Cardinality(bad(k)) <= Cardinality(bad(i)) /\ Cardinality(bad(k)) \in Nat
      <4> HIDE DEF bad
      <4> QED BY <3>2, <1>1, SizeOf
    <3>4. k <= last(k)
      <4> HIDE DEF bad
      <4> QED BY <2>1, <3>1, <3>3, <1>1
    <3> QED BY <3>1, <3>4
  <2>3. bad(i) \in SUBSET gone /\ i \in gone \ bad(i) /\ gone \in SUBSET (0..n - 1)
    BY <2>1, <2>2
  <2> HIDE DEF bad, gone
  <2> QED BY <2>3, <1>1, SizeOf
<1>7. \A i \in gone : last(i) \in SlotIds /\ left <= last(i)
  <2> SUFFICES ASSUME NEW i \in gone PROVE last(i) \in SlotIds /\ left <= last(i)
    OBVIOUS
  <2>1. i \in 0..n - 1 /\ i <= last(i) /\ Cardinality(bad(i)) \in Nat
    BY <1>3
  <2>2. Cardinality(bad(i)) < Cardinality(gone)
    BY <1>6
  <2> HIDE DEF bad, gone
  <2> QED BY <2>1, <2>2, <1>1, <1>4 DEF SlotIds
\* ... and from a place of its own.
<1>8. \A i, j \in gone : i < j => last(i) # last(j)
  <2> SUFFICES ASSUME NEW i \in gone, NEW j \in gone, i < j PROVE last(i) # last(j)
    OBVIOUS
  <2>1. bad(i) \in SUBSET bad(j) /\ bad(j) \in SUBSET (0..n - 1) /\ i \in bad(j) \ bad(i)
    BY <1>1
  <2>2. Cardinality(bad(i)) < Cardinality(bad(j)) /\ Cardinality(bad(i)) \in Nat /\ Cardinality(bad(j)) \in Nat
    <3> HIDE DEF bad
    <3> QED BY <2>1, <1>1, SizeOf
  <2> HIDE DEF bad
  <2> QED BY <2>2, <1>1
<1>9. \A i \in SlotIds : Cardinality(upto(i)) \in Masks
  <2> SUFFICES ASSUME NEW i \in SlotIds PROVE Cardinality(upto(i)) \in Masks
    OBVIOUS
  <2>1. kept \in SUBSET (0..n - 1) /\ upto(i) \in SUBSET kept
    OBVIOUS
  <2> HIDE DEF kept
  <2> QED BY <2>1, <1>1, <1>4, SizeOf DEF Masks
<1>a. gone \subseteq 0..n - 1 /\ kept \subseteq 0..n - 1
  OBVIOUS
<1> HIDE DEF bad, last, seen, gone, kept, left, upto
<1>10. IsSlots(t)
  BY <1>7, <1>9 DEF IsSlots, Pairs
<1>11. \A i \in SlotIds : i >= left => t[i].pair = None
  BY <1>1, <1>5, <1>a DEF IsSlots, Ends, SlotIds
<1>12. \A i \in SlotIds : t[i].pair # None => i < left /\ o[i] \in SlotIds /\ t[i].pair = s[o[i]].pair
  <2> SUFFICES ASSUME NEW i \in SlotIds, t[i].pair # None
               PROVE  i < left /\ o[i] \in SlotIds /\ t[i].pair = s[o[i]].pair
    OBVIOUS
  <2>1. i < left
    BY <1>1, <1>5, <1>11 DEF SlotIds
  <2> QED BY <2>1, <1>7, <1>5, <1>1 DEF IsSlots, SlotIds
<1>13. \A i, j \in SlotIds : t[i].pair # None /\ t[j].pair # None /\ o[i] = o[j] => i = j
  <2> SUFFICES ASSUME NEW i \in SlotIds, NEW j \in SlotIds, i < left, j < left, o[i] = o[j]
               PROVE  i = j
    BY <1>12
  <2>1. i \in Int /\ j \in Int
    BY DEF SlotIds
  <2> QED BY <2>1, <1>7, <1>8, <1>5, <1>1 DEF SlotIds
<1>14. Good(t, left, s)
  <2> HIDE DEF t, o
  <2> QED BY <1>5, <1>10, <1>11, <1>12, <1>13, Rearranged
<1>15. gone \cap 0..left - 1 \in SUBSET SlotIds
  BY <1>1, <1>a DEF SlotIds
<1> QED BY <1>2, <1>5, <1>14, <1>15

\* The same of the compaction.
LEMMA ClosedIs ==
  ASSUME NEW n \in -1..MaxSlots, NEW d \in SlotIds, NEW s, IsSlots(s), Distinct(s), Ends(s, n)
  PROVE  /\ Closed(s, n, d).n \in 0..MaxSlots
         /\ Closed(s, n, d).index \in [0..NoRv -> 0..NoRv]
         /\ Good(Closed(s, n, d).slots, Closed(s, n, d).n, s)
<1> DEFINE kept == {i \in d + 1..n - 1 : s[i].pair # None}
           front(i) == {k \in kept : k < i}
           newIndex(i) == d + Cardinality(front(i))
           from == [j \in {newIndex(i) : i \in kept} |-> CHOOSE i \in kept : newIndex(i) = j]
           m == d + Cardinality(kept)
           t == [j \in SlotIds |-> IF j \in DOMAIN from THEN s[from[j]]
                                   ELSE IF j >= d THEN [s[j] EXCEPT !.pair = None]
                                   ELSE s[j]]
           index == [i \in 0..NoRv |-> IF i \in kept THEN newIndex(i) ELSE i]
           o == [j \in SlotIds |-> IF j \in DOMAIN from THEN from[j] ELSE j]
<1>1. MaxSlots \in Nat /\ n \in Int /\ d \in Nat /\ d < MaxSlots
  BY SlotsAssumption DEF SlotIds
<1>2. Closed(s, n, d) = [n |-> m, slots |-> t, index |-> index]
  BY DEF Closed
<1>3. kept \in SUBSET (0..n - 1) /\ kept \subseteq SlotIds /\ \A i \in kept : i > d
  BY <1>1 DEF SlotIds
<1>4. Cardinality(kept) \in Nat /\ d + Cardinality(kept) <= MaxSlots
  <2>1. CASE n > d
    <3>1. d + 1 \in Int /\ n - 1 \in Int /\ n - d \in Nat
      BY <2>1, <1>1
    <3>0. /\ IsFiniteSet(d + 1..n - 1)
          /\ Cardinality(d + 1..n - 1) = IF d + 1 > n - 1 THEN 0 ELSE (n - 1) - (d + 1) + 1
      BY <3>1, FS_Interval
    <3>2. IsFiniteSet(d + 1..n - 1) /\ Cardinality(d + 1..n - 1) <= n - d
      BY <3>0, <3>1, <1>1
    <3>3. Cardinality(d + 1..n - 1) \in Nat
      BY <3>2, FS_CardinalityType
    <3>4. kept \in SUBSET (d + 1..n - 1)
      OBVIOUS
    <3>5. IsFiniteSet(kept) /\ Cardinality(kept) <= Cardinality(d + 1..n - 1)
      BY <3>2, <3>4, FS_Subset
    <3>6. Cardinality(kept) \in Nat
      BY <3>5, FS_CardinalityType
    <3> HIDE DEF kept
    <3> QED BY <3>1, <3>2, <3>3, <3>5, <3>6, <1>1
  <2>2. CASE ~(n > d)
    <3>1. kept = {}
      BY <2>2, <1>1
    <3> QED BY <3>1, FS_EmptySet, <1>1
  <2> QED BY <2>1, <2>2
<1>5. \A i \in kept : newIndex(i) \in d..m - 1
  <2> SUFFICES ASSUME NEW i \in kept PROVE newIndex(i) \in d..m - 1
    OBVIOUS
  <2>1. front(i) \in SUBSET kept /\ i \in kept \ front(i)
    BY <1>3
  <2> HIDE DEF kept, front
  <2>2. Cardinality(front(i)) < Cardinality(kept) /\ Cardinality(front(i)) \in Nat
    BY <2>1, <1>3, <1>1, SizeOf
  <2> QED BY <2>2, <1>4, <1>1
<1>6. \A j \in DOMAIN from : j \in d..m - 1 /\ from[j] \in kept /\ newIndex(from[j]) = j
  <2> SUFFICES ASSUME NEW j \in DOMAIN from
               PROVE  j \in d..m - 1 /\ from[j] \in kept /\ newIndex(from[j]) = j
    OBVIOUS
  <2>1. PICK i \in kept : newIndex(i) = j
    OBVIOUS
  <2>2. from[j] = CHOOSE k \in kept : newIndex(k) = j
    OBVIOUS
  <2>3. from[j] \in kept /\ newIndex(from[j]) = j
    <3> HIDE DEF kept, newIndex, from
    <3> QED BY <2>1, <2>2
  <2>4. newIndex(i) \in d..m - 1
    BY <1>5
  <2> HIDE DEF newIndex, from, kept, m
  <2> QED BY <2>1, <2>3, <2>4
<1>7. m \in 0..MaxSlots
  BY <1>1, <1>4
<1> HIDE DEF kept, newIndex, from, m
<1>8. index \in [0..NoRv -> 0..NoRv]
  BY <1>5, <1>7, <1>1 DEF NoRv
<1>9. IsSlots(t)
  BY <1>6, <1>3 DEF IsSlots, Pairs
<1>10. \A j \in SlotIds : j >= m => t[j].pair = None
  <2> SUFFICES ASSUME NEW j \in SlotIds, j >= m PROVE t[j].pair = None
    OBVIOUS
  <2>1. j \notin DOMAIN from
    BY <1>6, <1>7, <1>1 DEF SlotIds
  <2>2. j >= d
    BY <1>4, <1>1 DEF m, SlotIds
  <2> QED BY <2>1, <2>2 DEF IsSlots
<1>11. \A j \in SlotIds : t[j].pair # None =>
         /\ j \in DOMAIN from \/ j < d
         /\ o[j] \in SlotIds /\ t[j].pair = s[o[j]].pair
  BY <1>6, <1>3, <1>1 DEF IsSlots, SlotIds
<1>12. \A i, j \in SlotIds : t[i].pair # None /\ t[j].pair # None /\ o[i] = o[j] => i = j
  <2> SUFFICES ASSUME NEW i \in SlotIds, NEW j \in SlotIds, i \in DOMAIN from \/ i < d,
                      j \in DOMAIN from \/ j < d, o[i] = o[j]
               PROVE  i = j
    BY <1>11
  <2> QED BY <1>6, <1>3, <1>1 DEF SlotIds
<1>13. Good(t, m, s)
  <2> HIDE DEF t, o
  <2> QED BY <1>7, <1>9, <1>10, <1>11, <1>12, Rearranged
<1> HIDE DEF t, index, o
<1> QED BY <1>2, <1>7, <1>8, <1>13

\* moveslot of the slot "to", which the last slot replaces: its pair is gone.
LEMMA MoveSlotIs ==
  ASSUME NEW s, NEW to \in SlotIds, NEW left \in SlotIds,
         IsSlots(s), Distinct(s), Ends(s, left + 1)
  PROVE  /\ Good(MoveSlot(s, to, left), left, s)
         /\ \A i \in SlotIds : LET p == MoveSlot(s, to, left)[i].pair IN p # None => p # s[to].pair
<1> DEFINE moved == IF to < left THEN [s EXCEPT ![to] = s[left]] ELSE s
           t == [moved EXCEPT ![left].pair = None]
           o == [i \in SlotIds |-> IF i = to THEN left ELSE i]
<1>1. MoveSlot(s, to, left) = t /\ left \in Int /\ to \in Int
  BY DEF MoveSlot, SlotIds
<1>2. IsSlots(moved) /\ IsSlots(t)
  BY DEF IsSlots, Pairs
<1>3. \A i \in SlotIds : t[i].pair = IF i = left THEN None ELSE IF i = to /\ to < left THEN s[left].pair ELSE s[i].pair
  BY DEF IsSlots
<1> HIDE DEF t, moved
<1>4. \A i \in SlotIds : t[i].pair # None => i < left /\ o[i] \in SlotIds /\ t[i].pair = s[o[i]].pair
  BY <1>1, <1>3 DEF Ends, SlotIds
<1>5. \A i \in SlotIds : i >= left => t[i].pair = None
  BY <1>1, <1>4 DEF SlotIds
<1>6. \A i, j \in SlotIds : t[i].pair # None /\ t[j].pair # None /\ o[i] = o[j] => i = j
  BY <1>1, <1>4
<1>7. Good(t, left, s)
  <2> HIDE DEF o
  <2> QED BY <1>1, <1>2, <1>4, <1>5, <1>6, Rearranged
<1>8. \A i \in SlotIds : t[i].pair # None => t[i].pair # s[to].pair
  BY <1>3, <1>1 DEF Distinct, Ends, SlotIds
<1> QED BY <1>1, <1>7, <1>8

\* A slot whose pair has died, and a node that close() has emptied.
LEMMA ClearedIs ==
  ASSUME NEW s, NEW n \in Int, NEW k \in SlotIds, IsSlots(s), Distinct(s), Ends(s, n)
  PROVE  Good([s EXCEPT ![k] = EmptySlot], n, s)
<1> DEFINE t == [s EXCEPT ![k] = EmptySlot]
<1>1. IsSlots(t)
  BY SlotsAssumption DEF IsSlots, EmptySlot, Pairs, Masks
<1>2. \A i \in SlotIds : t[i].pair = IF i = k THEN None ELSE s[i].pair
  BY DEF IsSlots, EmptySlot
<1> HIDE DEF t
<1>3. Good(t, n, s)
  BY <1>1, <1>2 DEF Good, Distinct, Ends, OnlyOf
<1> QED BY <1>3 DEF t

LEMMA EmptiedIs ==
  ASSUME NEW s, NEW n \in Int, IsSlots(s), Ends(s, n)
  PROVE  Good([i \in SlotIds |-> IF i < n THEN [s[i] EXCEPT !.pair = None] ELSE s[i]], 0, s)
<1> DEFINE t == [i \in SlotIds |-> IF i < n THEN [s[i] EXCEPT !.pair = None] ELSE s[i]]
<1>1. IsSlots(t)
  BY DEF IsSlots, Pairs
<1>2. \A i \in SlotIds : t[i].pair = None
  BY DEF IsSlots, Ends, SlotIds
<1> HIDE DEF t
<1>3. Good(t, 0, s)
  BY <1>1, <1>2 DEF Good, Distinct, Ends, OnlyOf
<1> QED BY <1>3 DEF t

-----------------------------------------------------------------------------
(* The arrays of all nodes, sl with ns of their slots in use.              *)

NodesAre(sl, ns) ==
  /\ sl \in [Addrs -> [SlotIds -> [pair : Pairs, mask : Masks]]]
  /\ ns \in [Addrs -> -1..MaxSlots]
  /\ \A a \in Addrs : Distinct(sl[a]) /\ Ends(sl[a], ns[a])
  /\ \A a, b \in Addrs : \A i, j \in SlotIds :
       sl[a][i].pair = sl[b][j].pair /\ sl[a][i].pair # None => a = b

Absent(sl, p) == \A a \in Addrs : \A i \in SlotIds : sl[a][i].pair # p

\* An operation on one array.
LEMMA NodeChanges ==
  ASSUME NEW sl, NEW ns, NodesAre(sl, ns),
         NEW a \in Addrs, NEW t, NEW m \in -1..MaxSlots, Good(t, m, sl[a])
  PROVE  /\ NodesAre([sl EXCEPT ![a] = t], [ns EXCEPT ![a] = m])
         /\ \A p \in Workers : Absent(sl, p) => Absent([sl EXCEPT ![a] = t], p)
<1> DEFINE sl2 == [sl EXCEPT ![a] = t]
           ns2 == [ns EXCEPT ![a] = m]
<1>1. /\ sl2 \in [Addrs -> [SlotIds -> [pair : Pairs, mask : Masks]]]
      /\ ns2 \in [Addrs -> -1..MaxSlots]
  BY DEF NodesAre, Good, IsSlots
<1>2. \A b \in Addrs : sl2[b] = (IF b = a THEN t ELSE sl[b]) /\ ns2[b] = (IF b = a THEN m ELSE ns[b])
  BY DEF NodesAre
<1> HIDE DEF sl2, ns2
<1>3. \A b \in Addrs : Distinct(sl2[b]) /\ Ends(sl2[b], ns2[b])
  BY <1>2 DEF NodesAre, Good
<1>4. \A b \in Addrs : OnlyOf(sl2[b], sl[b])
  BY <1>2 DEF Good, OnlyOf
<1>5. \A b, c \in Addrs : \A i, j \in SlotIds :
        sl2[b][i].pair = sl2[c][j].pair /\ sl2[b][i].pair # None => b = c
  <2> SUFFICES ASSUME NEW b \in Addrs, NEW c \in Addrs, NEW i \in SlotIds, NEW j \in SlotIds,
                      sl2[b][i].pair = sl2[c][j].pair, sl2[b][i].pair # None
               PROVE  b = c
    OBVIOUS
  <2>1. PICK k \in SlotIds : sl2[b][i].pair = sl[b][k].pair
    BY <1>4 DEF OnlyOf
  <2>2. PICK l \in SlotIds : sl2[c][j].pair = sl[c][l].pair
    BY <1>4 DEF OnlyOf
  <2>3. \A x, y \in Addrs : \A g, h \in SlotIds :
          sl[x][g].pair = sl[y][h].pair /\ sl[x][g].pair # None => x = y
    BY DEF NodesAre
  <2>4. sl[b][k].pair = sl[c][l].pair /\ sl[b][k].pair # None
    BY <2>1, <2>2
  <2> QED BY <2>3, <2>4
<1>6. \A p \in Workers : Absent(sl, p) => Absent(sl2, p)
  BY <1>4, NamesAssumption DEF Absent, OnlyOf
<1> QED BY <1>1, <1>3, <1>5, <1>6 DEF NodesAre, sl2, ns2

\* A pair that is nowhere, or none, takes the next slot of a node.
LEMMA NodeGrows ==
  ASSUME NEW sl, NEW ns, NodesAre(sl, ns), NEW a \in Addrs, ns[a] \in SlotIds,
         NEW p \in Pairs, p # None => Absent(sl, p)
  PROVE  /\ NodesAre([sl EXCEPT ![a][ns[a]] = [pair |-> p, mask |-> 0]], [ns EXCEPT ![a] = @ + 1])
         /\ \A q \in Workers : Absent(sl, q) /\ q # p
              => Absent([sl EXCEPT ![a][ns[a]] = [pair |-> p, mask |-> 0]], q)
<1> DEFINE new == [pair |-> p, mask |-> 0]
           sl2 == [sl EXCEPT ![a][ns[a]] = new]
           ns2 == [ns EXCEPT ![a] = @ + 1]
<1>0. MaxSlots \in Nat /\ new \in [pair : Pairs, mask : Masks]
  BY SlotsAssumption DEF Masks
<1>1. /\ sl2 \in [Addrs -> [SlotIds -> [pair : Pairs, mask : Masks]]]
      /\ ns2 \in [Addrs -> -1..MaxSlots]
  BY <1>0 DEF NodesAre, SlotIds
<1>2. \A b \in Addrs : /\ ns2[b] = IF b = a THEN ns[a] + 1 ELSE ns[b]
                       /\ \A i \in SlotIds : sl2[b][i].pair = IF b = a /\ i = ns[a] THEN p ELSE sl[b][i].pair
  BY DEF NodesAre
<1> HIDE DEF sl2, ns2, new
<1>3. \A b \in Addrs : Distinct(sl2[b])
  BY <1>2 DEF NodesAre, Distinct, Absent
<1>4. \A b \in Addrs : Ends(sl2[b], ns2[b])
  <2> SUFFICES ASSUME NEW b \in Addrs, NEW i \in SlotIds, i >= ns2[b] PROVE sl2[b][i].pair = None
    BY DEF Ends
  <2>1. i \in Int /\ ns[b] \in Int /\ ns[a] \in Int
    BY DEF SlotIds, NodesAre
  <2> QED BY <1>2, <2>1 DEF NodesAre, Ends
<1>5. \A b, c \in Addrs : \A i, j \in SlotIds :
        sl2[b][i].pair = sl2[c][j].pair /\ sl2[b][i].pair # None => b = c
  BY <1>2 DEF NodesAre, Absent
<1>6. \A q \in Workers : Absent(sl, q) /\ q # p => Absent(sl2, q)
  BY <1>2 DEF Absent
<1> QED BY <1>1, <1>3, <1>4, <1>5, <1>6 DEF NodesAre, sl2, ns2, new

-----------------------------------------------------------------------------
(* The list.                                                               *)

NoDuplicates(s) == \A i, j \in DOMAIN s : s[i] = s[j] => i = j

LEMMA RemovedIs ==
  ASSUME NEW A, NEW s \in Seq(A), NEW i \in 1..Len(s)
  PROVE  /\ RemoveAt(s, i) \in Seq(A)
         /\ \A x \in ToSet(s) : x # s[i] => x \in ToSet(RemoveAt(s, i))
         /\ ToSet(RemoveAt(s, i)) \subseteq ToSet(s)
         /\ NoDuplicates(s) => NoDuplicates(RemoveAt(s, i)) /\ s[i] \notin ToSet(RemoveAt(s, i))
<1> DEFINE n == Len(s)
           r == RemoveAt(s, i)
           f == SubSeq(s, 1, i - 1)
           b == SubSeq(s, i + 1, n)
<1>1. n \in Nat /\ DOMAIN s = 1..n /\ i \in Nat /\ \A k \in 1..n : s[k] \in A
  OBVIOUS
<1>2. f \in Seq(A) /\ Len(f) = i - 1 /\ \A k \in 1..i - 1 : f[k] = s[k]
  OBVIOUS
<1>3. b \in Seq(A) /\ Len(b) = n - i /\ \A k \in 1..n - i : b[k] = s[k + i]
  OBVIOUS
<1> HIDE DEF f, b
<1>4. r = f \o b
  BY DEF RemoveAt, f, b
<1>5. r \in Seq(A) /\ Len(r) = n - 1 /\ DOMAIN r = 1..n - 1
  <2>1. f \o b \in Seq(A) /\ Len(f \o b) = Len(f) + Len(b)
    BY <1>2, <1>3, ConcatProperties
  <2>2. r \in Seq(A) /\ Len(r) = n - 1
    <3>1. r \in Seq(A) /\ Len(r) = Len(f) + Len(b)
      BY <2>1, <1>4, Zenon
    <3>2. Len(f) = i - 1 /\ Len(b) = n - i /\ (i - 1) + (n - i) = n - 1
      BY <1>1, <1>2, <1>3
    <3> QED BY <3>1, <3>2
  <2>3. DOMAIN r = 1..Len(r)
    BY <2>2
  <2> QED BY <2>2, <2>3
<1>6. \A k \in 1..n - 1 : r[k] = s[IF k < i THEN k ELSE k + 1]
  <2> SUFFICES ASSUME NEW k \in 1..n - 1 PROVE r[k] = s[IF k < i THEN k ELSE k + 1]
    OBVIOUS
  <2>1. r[k] = IF k <= Len(f) THEN f[k] ELSE b[k - Len(f)]
    <3>1. k \in 1..Len(f) + Len(b)
      BY <1>1, <1>2, <1>3
    <3> HIDE DEF r, n
    <3> QED BY <3>1, <1>2, <1>3, <1>4, ConcatProperties
  <2>2. CASE k < i
    <3>1. k <= Len(f) /\ k \in 1..i - 1
      BY <2>2, <1>1, <1>2
    <3> HIDE DEF r, n
    <3> QED BY <2>1, <2>2, <3>1, <1>2
  <2>3. CASE ~(k < i)
    <3>1. ~(k <= Len(f)) /\ k - Len(f) \in 1..n - i /\ k - Len(f) + i = k + 1
      BY <2>3, <1>1, <1>2
    <3>2. b[k - Len(f)] = s[k - Len(f) + i]
      BY <3>1, <1>3
    <3> HIDE DEF r, n
    <3> QED BY <2>1, <2>3, <3>1, <3>2
  <2> QED BY <2>2, <2>3
<1> HIDE DEF r, n
<1>7. ASSUME NEW k \in 1..n, k # i PROVE s[k] \in ToSet(r)
  <2>1. CASE k < i
    BY <2>1, <1>1, <1>5, <1>6 DEF ToSet
  <2>2. CASE k > i
    <3>1. k - 1 \in 1..n - 1 /\ r[k - 1] = s[k]
      BY <2>2, <1>1, <1>6
    <3> QED BY <3>1, <1>5 DEF ToSet
  <2> QED BY <2>1, <2>2, <1>7, <1>1
<1>8. \A x \in ToSet(s) : x # s[i] => x \in ToSet(r)
  BY <1>1, <1>7 DEF ToSet
<1> DEFINE g(k) == IF k < i THEN k ELSE k + 1
<1>b. \A k \in 1..n - 1 : g(k) \in 1..n /\ r[k] = s[g(k)]
  BY <1>1, <1>6
<1>c. \A k, l \in 1..n - 1 : g(k) = g(l) => k = l
  BY <1>1
<1>d. \A k \in 1..n - 1 : g(k) # i
  BY <1>1
<1> HIDE DEF g
<1>9. ToSet(r) \subseteq ToSet(s)
  BY <1>1, <1>5, <1>b DEF ToSet
<1>10. NoDuplicates(s) => NoDuplicates(r)
  BY <1>1, <1>5, <1>b, <1>c DEF NoDuplicates
<1>11. NoDuplicates(s) => s[i] \notin ToSet(r)
  <2>1. NoDuplicates(s) => \A k \in 1..n - 1 : r[k] # s[i]
    BY <1>1, <1>b, <1>d DEF NoDuplicates
  <2> QED BY <2>1, <1>5 DEF ToSet
<1> QED BY <1>5, <1>8, <1>9, <1>10, <1>11 DEF r

LEMMA AppendedIs ==
  ASSUME NEW A, NEW s \in Seq(A), NEW a \in A
  PROVE  /\ Append(s, a) \in Seq(A)
         /\ ToSet(Append(s, a)) = ToSet(s) \cup {a}
         /\ NoDuplicates(s) /\ a \notin ToSet(s) => NoDuplicates(Append(s, a))
<1> DEFINE n == Len(s)
           r == Append(s, a)
<1>1. n \in Nat /\ DOMAIN s = 1..n
  OBVIOUS
<1>2. r \in Seq(A) /\ DOMAIN r = 1..n + 1 /\ r[n + 1] = a /\ \A k \in 1..n : r[k] = s[k]
  OBVIOUS
<1> HIDE DEF n, r
<1>3. \A k \in 1..n + 1 : k \in 1..n \/ k = n + 1
  BY <1>1
<1>4. ToSet(r) = ToSet(s) \cup {a}
  <2>1. \A x \in ToSet(r) : x \in ToSet(s) \cup {a}
    BY <1>1, <1>2, <1>3 DEF ToSet
  <2>2. \A x \in ToSet(s) : x \in ToSet(r)
    BY <1>1, <1>2 DEF ToSet
  <2>3. a \in ToSet(r)
    BY <1>1, <1>2 DEF ToSet
  <2> QED BY <2>1, <2>2, <2>3
<1>5. NoDuplicates(s) /\ a \notin ToSet(s) => NoDuplicates(r)
  BY <1>1, <1>2, <1>3 DEF NoDuplicates, ToSet
<1> QED BY <1>2, <1>4, <1>5 DEF r

\* The place of a live node, and the one behind it.
LEMMA IndexIs ==
  ASSUME list \in Seq(Addrs), NoDuplicates(list), NEW a \in Addrs, Live(a)
  PROVE  /\ IndexIn(a) \in 1..Len(list) /\ list[IndexIn(a)] = a
         /\ \A w \in Workers : node[w] = a /\ NextNode(w) # None => NextNode(w) \in Addrs \ {a}
<1>1. \E p \in DOMAIN list : list[p] = a
  BY DEF Live, ToSet
<1>2. IndexIn(a) \in DOMAIN list /\ list[IndexIn(a)] = a
  BY <1>1 DEF IndexIn
<1> QED BY <1>2 DEF NextNode, NoDuplicates

-----------------------------------------------------------------------------
(* The invariant: types, one place for every pair, nothing behind the      *)
(* slots in use, and no slot for a pair that has not been placed yet.      *)

WorkerPlaces == {"start", "walk", "add", "loop", "prepare", "wait", "count",
                 "process", "ret", "forward", "unlink", "done"}
Events == UNION {[S -> Kinds] : S \in SUBSET Masks}
Ticks == [reg : Masks, moved : SUBSET SlotIds, evs : Events, more : BOOLEAN, cur : -1..MaxSlots,
          i : 0..MaxSlots, rv : 0..NoRv, wasDel : -1..MaxSlots - 1]

Types ==
  /\ stLock \in Workers \cup {None, Stopper}
  /\ list \in Seq(Addrs) /\ NoDuplicates(list)
  /\ needStop \in BOOLEAN /\ exit \in BOOLEAN /\ crashed \in BOOLEAN /\ faults \subseteq Faults
  /\ creator \in [Addrs -> Workers \cup {None}]
  /\ pc \in [Workers -> WorkerPlaces]
  /\ walk \in [Workers -> [pos : Nat, checkOnly : BOOLEAN]]
  /\ node \in [Workers -> Addrs \cup {None}]
  /\ tick \in [Workers -> Ticks]
  /\ hold \subseteq Workers /\ ended \subseteq Workers /\ broken \subseteq Workers
  /\ stopPc \in [at : {"idle", "closing", "waiting", "stopped"}, pos : Nat]

PlaceInv ==
  /\ stopPc.at = "closing" => stopPc.pos > 0
  /\ \A w \in Workers : /\ pc[w] \notin {"start", "walk", "done"} => node[w] # None
                        /\ pc[w] = "walk" => walk[w].pos > 0
                        /\ pc[w] = "forward" /\ ~crashed => tick[w].rv \in SlotIds

\* The worker still has to find a place for its pair.
Fresh(w) == pc[w] \in {"start", "add"} \/ (pc[w] = "walk" /\ ~walk[w].checkOnly)
FreshInv == \A w \in Workers : Fresh(w) => Absent(slots, w)

Safe == Types /\ PlaceInv /\ NodesAre(slots, numslots) /\ FreshInv

LEMMA NoTickIs == NoTick \in Ticks /\ MaxSlots \in Nat
<1>1. MaxSlots \in Nat \ {0}
  BY SlotsAssumption
<1>2. [m \in {} |-> "data"] \in [{} -> Kinds] /\ {} \in SUBSET Masks
  OBVIOUS
<1>3. [m \in {} |-> "data"] \in Events
  BY <1>2 DEF Events
<1> QED BY <1>1, <1>3 DEF NoTick, Ticks, Masks, NoRv

\* The locals of a tick, one at a time, and those of one worker.
LEMMA TickFields ==
  ASSUME NEW t \in Ticks
  PROVE  /\ t.reg \in Masks /\ t.moved \subseteq SlotIds /\ t.evs \in Events
         /\ t.cur \in -1..MaxSlots /\ t.i \in 0..MaxSlots
         /\ t.rv \in 0..NoRv /\ t.wasDel \in -1..MaxSlots - 1 /\ t.more \in BOOLEAN
         /\ \A x \in Masks : [t EXCEPT !.reg = x] \in Ticks
         /\ \A x \in SUBSET SlotIds : [t EXCEPT !.moved = x] \in Ticks
         /\ \A x \in Events : [t EXCEPT !.evs = x] \in Ticks
         /\ \A x \in BOOLEAN : [t EXCEPT !.more = x] \in Ticks
         /\ \A x \in -1..MaxSlots : [t EXCEPT !.cur = x] \in Ticks
         /\ \A x \in 0..MaxSlots : [t EXCEPT !.i = x] \in Ticks
         /\ \A x \in 0..NoRv : [t EXCEPT !.rv = x] \in Ticks
         /\ \A x \in -1..MaxSlots - 1 : [t EXCEPT !.wasDel = x] \in Ticks
BY DEF Ticks

LEMMA TickChanges ==
  ASSUME Types, NEW w \in Workers, NEW t \in Ticks, tick' = [tick EXCEPT ![w] = t]
  PROVE  /\ tick' \in [Workers -> Ticks] /\ tick'[w] = t
         /\ \A v \in Workers : v # w => tick'[v] = tick[v]
BY DEF Types

\* Some of the events are consumed.
LEMMA ConsumedIs ==
  ASSUME Types, NEW w \in Workers
  PROVE  Consumed(w) \in Events
<1>1. tick[w].evs \in Events
  BY DEF Types, Ticks
<1>2. PICK S \in SUBSET Masks : tick[w].evs \in [S -> Kinds]
  BY <1>1 DEF Events
<1>3. Consumed(w) \in [S \ {Slot(w).mask} -> Kinds] /\ S \ {Slot(w).mask} \in SUBSET Masks
  BY <1>2 DEF Consumed
<1> QED BY <1>3 DEF Events

LEMMA InitSafe == Init => Safe
<1> SUFFICES ASSUME Init PROVE Safe
  OBVIOUS
<1> USE DEF Init
<1>1. Types
  <2>1. list \in Seq(Addrs) /\ NoDuplicates(list)
    BY DEF NoDuplicates
  <2>2. tick \in [Workers -> Ticks]
    BY NoTickIs
  <2>3. pc \in [Workers -> WorkerPlaces] /\ walk \in [Workers -> [pos : Nat, checkOnly : BOOLEAN]]
    BY DEF WorkerPlaces
  <2>4. creator \in [Addrs -> Workers \cup {None}] /\ node \in [Workers -> Addrs \cup {None}]
    OBVIOUS
  <2>5. /\ stLock \in Workers \cup {None, Stopper}
        /\ needStop \in BOOLEAN /\ exit \in BOOLEAN /\ crashed \in BOOLEAN /\ faults \subseteq Faults
    OBVIOUS
  <2>6. hold \subseteq Workers /\ ended \subseteq Workers /\ broken \subseteq Workers
    OBVIOUS
  <2>7. stopPc \in [at : {"idle", "closing", "waiting", "stopped"}, pos : Nat]
    OBVIOUS
  <2> QED BY <2>1, <2>2, <2>3, <2>4, <2>5, <2>6, <2>7 DEF Types
<1>2. PlaceInv
  BY DEF PlaceInv
<1>3. NodesAre(slots, numslots)
  BY NoTickIs DEF NodesAre, Distinct, Ends, EmptySlot, Pairs, Masks
<1>4. FreshInv
  BY NamesAssumption DEF FreshInv, Absent, EmptySlot
<1> QED BY <1>1, <1>2, <1>3, <1>4 DEF Safe

\* A step that leaves the slots alone and makes no worker fresh.
LEMMA SlotsAlone ==
  ASSUME Safe, Types', PlaceInv', UNCHANGED nodeVars, \A w \in Workers : Fresh(w)' => Fresh(w)
  PROVE  Safe'
BY DEF Safe, FreshInv, nodeVars, NodesAre, Absent

\* A worker's step that leaves the slots alone.
LEMMA QuietSafe ==
  ASSUME Safe, NEW w \in Workers,
         \/ BridgeLock(w) \/ WalkDelete(w) \/ BridgeTaken(w) \/ LoopCheck(w) \/ Wait(w) \/ Count(w)
         \/ ProcessSkip(w) \/ ProcessData(w) \/ Return(w) \/ Unlink(w)
         \/ PrepareNull(w) \/ ProcessNull(w) \/ ProcessAsserted(w) \/ UseFreed(w)
  PROVE  Safe'
<1> USE NoTickIs DEF Safe, At, Goto
<1>1. CASE BridgeLock(w)
  <2>1. Types' /\ PlaceInv'
    BY <1>1 DEF BridgeLock, Types, PlaceInv, WorkerPlaces, stopVars, nodeVars, pairVars, fate
  <2>2. \A v \in Workers : Fresh(v)' => Fresh(v)
    BY <1>1 DEF BridgeLock, Fresh, Types
  <2> QED BY <1>1, <2>1, <2>2, SlotsAlone DEF BridgeLock
<1>2. CASE WalkDelete(w)
  <2>1. walk[w].pos \in 1..Len(list)
    BY <1>2 DEF WalkDelete, Types, PlaceInv
  <2>2. list' \in Seq(Addrs) /\ NoDuplicates(list')
    BY <1>2, <2>1, RemovedIs DEF WalkDelete, Types
  <2>5. walk' \in [Workers -> [pos : Nat, checkOnly : BOOLEAN]] /\ walk'[w].pos > 0
        /\ \A v \in Workers : v # w => walk'[v] = walk[v]
    <3>1. walk[w].pos + 1 \in Nat /\ walk[w].pos + 1 > 0 /\ walk[w].checkOnly \in BOOLEAN
      BY <2>1 DEF Types
    <3>2. [walk[w] EXCEPT !.pos = walk[w].pos + 1] = [pos |-> walk[w].pos + 1, checkOnly |-> walk[w].checkOnly]
      BY DEF Types
    <3>3. walk' = [walk EXCEPT ![w] = [pos |-> walk[w].pos + 1, checkOnly |-> walk[w].checkOnly]]
      BY <1>2, <3>2 DEF WalkDelete
    <3> QED BY <3>1, <3>3 DEF Types
  <2>6. Types'
    BY <1>2, <2>2, <2>5 DEF WalkDelete, Types, stopVars, pairVars, fate
  <2>3. PlaceInv'
    BY <1>2, <2>5 DEF WalkDelete, PlaceInv, stopVars
  <2>4. \A v \in Workers : Fresh(v)' => Fresh(v)
    BY <1>2 DEF WalkDelete, Fresh, Types
  <2> QED BY <1>2, <2>3, <2>4, <2>6, SlotsAlone DEF WalkDelete
<1>3. CASE BridgeTaken(w)
  <2>4. /\ pc' \in [Workers -> WorkerPlaces] /\ walk' \in [Workers -> [pos : Nat, checkOnly : BOOLEAN]]
        /\ hold' \subseteq Workers
    BY <1>3 DEF BridgeTaken, Types, WorkerPlaces
  <2>5. /\ stLock' = None
        /\ UNCHANGED <<list, needStop, exit, fate, creator, node, tick, ended, broken, stopPc>>
    BY <1>3 DEF BridgeTaken, stopVars
  <2>1. Types'
    BY <2>4, <2>5 DEF Types, fate
  <2>3. PlaceInv'
    BY <1>3 DEF BridgeTaken, WalkOver, Types, PlaceInv, stopVars, nodeVars
  <2>2. \A v \in Workers : Fresh(v)' => Fresh(v)
    BY <1>3 DEF BridgeTaken, WalkOver, Fresh, Types
  <2> QED BY <1>3, <2>1, <2>2, <2>3, SlotsAlone DEF BridgeTaken
<1>4. CASE LoopCheck(w)
  <2>1. Types' /\ PlaceInv'
    BY <1>4 DEF LoopCheck, Types, PlaceInv, WorkerPlaces, stopVars, listVars, bridgeVars, pairVars, fate
  <2>2. \A v \in Workers : Fresh(v)' => Fresh(v)
    BY <1>4 DEF LoopCheck, Fresh, Types, bridgeVars
  <2> QED BY <1>4, <2>1, <2>2, SlotsAlone DEF LoopCheck
<1>5. CASE Wait(w)
  <2>0. /\ \E hit \in SUBSET (1..tick[w].reg) : \E kind \in [hit -> EventKinds] :
             tick' = [tick EXCEPT ![w] = Woken(w, kind)]
        /\ pc[w] = "wait" /\ pc' \in {[pc EXCEPT ![w] = "ret"], [pc EXCEPT ![w] = "count"]}
        /\ UNCHANGED <<stopVars, nodeVars, pairVars, listVars, bridgeVars, fate>>
    <3>1. pc[w] = "wait" /\ UNCHANGED <<stopVars, nodeVars, pairVars, listVars, bridgeVars, fate>>
      BY <1>5 DEF Wait
    <3>2. PICK hit \in SUBSET (1..tick[w].reg) :
            /\ \E kind \in [hit -> EventKinds] : tick' = [tick EXCEPT ![w] = Woken(w, kind)]
            /\ pc' = [pc EXCEPT ![w] = IF hit = {} THEN "ret" ELSE "count"]
      BY <1>5 DEF Wait
    <3>3. pc' \in {[pc EXCEPT ![w] = "ret"], [pc EXCEPT ![w] = "count"]}
      BY <3>2
    <3> QED BY <3>1, <3>2, <3>3
  <2>1. tick' \in [Workers -> Ticks] /\ \A v \in Workers : v # w => tick'[v] = tick[v]
    <3>1. PICK hit \in SUBSET (1..tick[w].reg) :
            \E kind \in [hit -> EventKinds] : tick' = [tick EXCEPT ![w] = Woken(w, kind)]
      BY <2>0
    <3>2. PICK kind \in [hit -> EventKinds] : tick' = [tick EXCEPT ![w] = Woken(w, kind)]
      BY <3>1
    <3>3. tick[w].reg \in Masks
      BY TickFields DEF Types
    <3>4. hit \in SUBSET Masks /\ kind \in [hit -> Kinds]
      BY <3>3, KindsAssumption DEF Masks
    <3>5. kind \in Events
      BY <3>4 DEF Events
    <3>6. Woken(w, kind) \in Ticks
      <4> DEFINE t == [NoTick EXCEPT !.evs = kind]
                 u == [t EXCEPT !.moved = tick[w].moved]
      <4>1. [NoTick EXCEPT !.rv = 0] \in Ticks
        BY TickFields DEF NoRv
      <4>2. t \in Ticks /\ tick[w].moved \in SUBSET SlotIds
        BY <3>5, TickFields DEF Types
      <4>3. u \in Ticks
        <5> HIDE DEF t
        <5> QED BY <4>2, TickFields
      <4> QED BY <4>1, <4>3 DEF Woken
    <3> QED BY <3>2, <3>6, TickChanges
  <2>2. Types' /\ PlaceInv'
    <3>1. Types'
      BY <2>0, <2>1 DEF Types, WorkerPlaces, stopVars, listVars, bridgeVars, pairVars, fate
    <3>2. pc'[w] \in {"ret", "count"} /\ \A v \in Workers : v # w => pc'[v] = pc[v]
      BY <2>0 DEF Types
    <3>3. PlaceInv'
      BY <2>0, <2>1, <3>2 DEF PlaceInv, stopVars, bridgeVars, fate
    <3> QED BY <3>1, <3>3
  <2>3. \A v \in Workers : Fresh(v)' => Fresh(v)
    BY <2>0 DEF Fresh, Types, bridgeVars
  <2> QED BY <2>0, <2>2, <2>3, SlotsAlone
<1>6. CASE Count(w)
  <2>1. node[w] \in Addrs /\ numslots[node[w]] \in -1..MaxSlots
    BY <1>6 DEF Count, Types, PlaceInv, NodesAre
  <2>2. tick' \in [Workers -> Ticks] /\ tick'[w].rv = tick[w].rv
    BY <1>6, <2>1 DEF Count, Types, Ticks
  <2>3. Types' /\ PlaceInv'
    BY <1>6, <2>2 DEF Count, Types, PlaceInv, WorkerPlaces, stopVars, listVars, bridgeVars, pairVars, fate
  <2>4. \A v \in Workers : Fresh(v)' => Fresh(v)
    BY <1>6 DEF Count, Fresh, Types, bridgeVars
  <2> QED BY <1>6, <2>3, <2>4, SlotsAlone DEF Count
<1>7. CASE ProcessSkip(w)
  <2> DEFINE t == [tick[w] EXCEPT !.i = @ + 1]
             u == [t EXCEPT !.rv = IF @ > MaxSlots THEN tick[w].i ELSE @]
  <2>4. tick[w] \in Ticks /\ tick[w].i + 1 \in 0..MaxSlots /\ tick[w].i \in 0..NoRv
    BY <1>7, TickFields DEF ProcessSkip, More, Types, NoRv
  <2>5. t \in Ticks /\ t.rv \in 0..NoRv
    BY <2>4, TickFields
  <2>6. u \in Ticks
    <3> HIDE DEF t
    <3> QED BY <2>4, <2>5, TickFields
  <2>7. tick' = [tick EXCEPT ![w] = u]
    BY <1>7 DEF ProcessSkip, Types
  <2>1. tick' \in [Workers -> Ticks]
    <3> HIDE DEF u
    <3> QED BY <2>6, <2>7, TickChanges
  <2>2. Types' /\ PlaceInv'
    BY <1>7, <2>1 DEF ProcessSkip, More, Types, PlaceInv, stopVars, listVars, bridgeVars, pairVars, fate
  <2>3. \A v \in Workers : Fresh(v)' => Fresh(v)
    BY <1>7 DEF ProcessSkip, Fresh, Types, bridgeVars
  <2> QED BY <1>7, <2>2, <2>3, SlotsAlone DEF ProcessSkip
<1>8. CASE ProcessData(w)
  <2> DEFINE t == [tick[w] EXCEPT !.i = @ + 1]
             u == [t EXCEPT !.evs = Consumed(w)]
  <2>1. tick[w] \in Ticks /\ tick[w].i + 1 \in 0..MaxSlots
    BY <1>8, TickFields DEF ProcessData, More, Types
  <2>2. t \in Ticks
    BY <2>1, TickFields
  <2>3. u \in Ticks
    <3> HIDE DEF t
    <3> QED BY <2>2, ConsumedIs, TickFields
  <2>9. tick' = [tick EXCEPT ![w] = u]
    BY <1>8 DEF ProcessData, Types
  <2>4. tick' \in [Workers -> Ticks]
    <3> HIDE DEF u
    <3> QED BY <2>3, <2>9, TickChanges
  <2>5. Types' /\ PlaceInv'
    BY <1>8, <2>4 DEF ProcessData, More, Types, PlaceInv, stopVars, listVars, bridgeVars, pairVars, fate
  <2>6. \A v \in Workers : Fresh(v)' => Fresh(v)
    BY <1>8 DEF ProcessData, Fresh, Types, bridgeVars
  <2> QED BY <1>8, <2>5, <2>6, SlotsAlone DEF ProcessData
<1>9. CASE PrepareNull(w) \/ ProcessNull(w) \/ ProcessAsserted(w) \/ UseFreed(w)
  <2>0. crashed' = TRUE /\ UNCHANGED <<stopVars, nodeVars, pairVars, listVars, bridgeVars, pc, tick, faults>>
    BY <1>9 DEF PrepareNull, ProcessNull, ProcessAsserted, UseFreed
  <2>1. Types' /\ PlaceInv'
    BY <2>0 DEF Types, PlaceInv, stopVars, listVars, bridgeVars, pairVars, fate
  <2>2. \A v \in Workers : Fresh(v)' => Fresh(v)
    BY <2>0 DEF Fresh, Types, bridgeVars
  <2> QED BY <2>0, <2>1, <2>2, SlotsAlone
<1>10. CASE Return(w)
  <2>1. Types'
    BY <1>10 DEF Return, Types, WorkerPlaces, stopVars, listVars, bridgeVars, pairVars, fate
  <2>4. /\ \A v \in Workers : v # w => tick'[v] = tick[v] /\ pc'[v] = pc[v]
        /\ pc'[w] = "forward" => tick'[w] = tick[w] /\ tick[w].rv < MaxSlots
        /\ pc'[w] \in {"unlink", "forward", "loop"}
    BY <1>10 DEF Return, Types
  <2>5. tick[w].rv \in Nat
    BY TickFields DEF Types, NoRv
  <2>2. PlaceInv'
    BY <1>10, <2>4, <2>5 DEF Return, SlotIds, PlaceInv, stopVars, bridgeVars
  <2>3. \A v \in Workers : Fresh(v)' => Fresh(v)
    BY <1>10 DEF Return, Fresh, Types, bridgeVars
  <2> QED BY <1>10, <2>1, <2>2, <2>3, SlotsAlone DEF Return
<1>11. CASE Unlink(w)
  <2>1. node[w] \in Addrs
    BY <1>11 DEF Unlink, Types, PlaceInv
  <2>2. list' \in Seq(Addrs) /\ NoDuplicates(list')
    BY <1>11, <2>1, IndexIs, RemovedIs DEF Unlink, Types
  <2>3. tick' \in [Workers -> Ticks]
    BY <1>11 DEF Unlink, Types
  <2>4. Types' /\ PlaceInv'
    BY <1>11, <2>2, <2>3 DEF Unlink, Types, Faults, PlaceInv, WorkerPlaces, stopVars, nodeVars, bridgeVars
  <2>5. \A v \in Workers : Fresh(v)' => Fresh(v)
    BY <1>11 DEF Unlink, Fresh, Types, bridgeVars
  <2> QED BY <1>11, <2>4, <2>5, SlotsAlone DEF Unlink
<1> QED BY <1>1, <1>2, <1>3, <1>4, <1>5, <1>6, <1>7, <1>8, <1>9, <1>10, <1>11

-----------------------------------------------------------------------------
(* The steps that change the slots.                                        *)

LEMMA SlotsChange ==
  ASSUME Safe, Types', PlaceInv', NodesAre(slots', numslots'),
         \A v \in Workers : Fresh(v)' => Absent(slots', v)
  PROVE  Safe'
BY DEF Safe, FreshInv, NodesAre, Distinct, Ends, Absent

\* A thread that has no pair left gives up.
LEMMA GivenUpIs ==
  ASSUME NEW t, NEW s, NEW m \in Int, m <= 0, Good(t, m, s)
  PROVE  Good(t, -1, s)
BY DEF Good, Ends, SlotIds

\* try_add_bridge of a pair that is nowhere yet, or that is not tried at all.
LEMMA PlacingIs ==
  ASSUME Safe, NEW a \in Addrs, NEW p \in Workers, NEW add \in BOOLEAN, add => CanAdd(a) /\ Absent(slots, p),
         slots' = IF add THEN AddTo(slots, a, p) ELSE slots,
         numslots' = IF add THEN [numslots EXCEPT ![a] = @ + 1] ELSE numslots
  PROVE  NodesAre(slots', numslots') /\ \A v \in Workers : v # p /\ Absent(slots, v) => Absent(slots', v)
<1>1. CASE add
  <2>1. NodesAre(slots, numslots) /\ numslots[a] \in SlotIds /\ p \in Pairs /\ Absent(slots, p)
    BY <1>1 DEF Safe, CanAdd, Pairs
  <2>2. slots' = [slots EXCEPT ![a][numslots[a]] = [pair |-> p, mask |-> 0]] /\ numslots' = [numslots EXCEPT ![a] = @ + 1]
    BY <1>1 DEF AddTo
  <2>3. /\ NodesAre([slots EXCEPT ![a][numslots[a]] = [pair |-> p, mask |-> 0]], [numslots EXCEPT ![a] = @ + 1])
        /\ \A q \in Workers : Absent(slots, q) /\ q # p
             => Absent([slots EXCEPT ![a][numslots[a]] = [pair |-> p, mask |-> 0]], q)
    BY <2>1, NodeGrows, Zenon
  <2> QED BY <2>2, <2>3, Zenon
<1>2. CASE ~add
  BY <1>2 DEF Safe
<1> QED BY <1>1, <1>2

LEMMA WalkTrySafe == ASSUME Safe, NEW w \in Workers, WalkTry(w) PROVE Safe'
<1> DEFINE a == list[walk[w].pos]
           add == ~walk[w].checkOnly /\ CanAdd(a)
           step == [pos |-> walk[w].pos + 1, checkOnly |-> walk[w].checkOnly \/ add]
<1>1. Types /\ PlaceInv /\ NodesAre(slots, numslots) /\ FreshInv
  BY DEF Safe
<1>2. walk[w].pos \in 1..Len(list) /\ pc[w] = "walk" /\ ~crashed
  BY <1>1 DEF WalkTry, At, Types, PlaceInv
<1>3. a \in Addrs /\ add \in BOOLEAN
  BY <1>1, <1>2 DEF Types, CanAdd
<1>4. add => CanAdd(a) /\ Absent(slots, w)
  BY <1>1, <1>2 DEF FreshInv, Fresh
<1>5. /\ slots' = IF add THEN AddTo(slots, a, w) ELSE slots
      /\ numslots' = IF add THEN [numslots EXCEPT ![a] = @ + 1] ELSE numslots
      /\ walk' = [walk EXCEPT ![w] = step]
      /\ UNCHANGED <<stopVars, pairVars, listVars, pc, node, tick, fate>>
  BY DEF WalkTry
<1>6. step \in [pos : Nat, checkOnly : BOOLEAN] /\ step.pos > 0 /\ (step.checkOnly <=> walk[w].checkOnly \/ add)
  <2>1. walk[w].pos + 1 \in Nat /\ walk[w].pos + 1 > 0 /\ walk[w].checkOnly \in BOOLEAN
    BY <1>1, <1>2 DEF Types
  <2> HIDE DEF add
  <2> QED BY <2>1, <1>3
<1> HIDE DEF a, add, step
<1>7. NodesAre(slots', numslots') /\ \A v \in Workers : v # w /\ Absent(slots, v) => Absent(slots', v)
  BY <1>3, <1>4, <1>5, PlacingIs
<1>8. walk' \in [Workers -> [pos : Nat, checkOnly : BOOLEAN]] /\ walk'[w] = step
      /\ \A v \in Workers : v # w => walk'[v] = walk[v]
  BY <1>1, <1>5, <1>6 DEF Types
<1>9. Types'
  BY <1>1, <1>5, <1>8 DEF Types, stopVars, pairVars, listVars, fate
<1>10. PlaceInv'
  BY <1>1, <1>5, <1>6, <1>8 DEF PlaceInv, stopVars, fate
<1>11. ASSUME NEW v \in Workers, Fresh(v)' PROVE Absent(slots', v)
  <2>1. CASE v = w
    <3>1. ~add
      BY <2>1, <1>11, <1>2, <1>5, <1>6, <1>8 DEF Fresh
    <3>2. ~walk[w].checkOnly
      BY <2>1, <1>11, <1>2, <1>5, <1>6, <1>8 DEF Fresh
    <3> QED BY <2>1, <3>1, <3>2, <1>1, <1>2, <1>5 DEF FreshInv, Fresh
  <2>2. CASE v # w
    BY <2>2, <1>11, <1>1, <1>5, <1>7, <1>8 DEF FreshInv, Fresh
  <2> QED BY <2>1, <2>2
<1> QED BY <1>7, <1>9, <1>10, <1>11, SlotsChange

LEMMA BridgeAddOwnSafe == ASSUME Safe, NEW w \in Workers, BridgeAddOwn(w) PROVE Safe'
<1> DEFINE a == node[w]
           add == CanAdd(a)
<1>1. Types /\ PlaceInv /\ NodesAre(slots, numslots) /\ FreshInv
  BY DEF Safe
<1>2. pc[w] = "add" /\ ~crashed /\ a \in Addrs
  BY <1>1 DEF BridgeAddOwn, At, Types, PlaceInv
<1>9. add \in BOOLEAN
  BY DEF CanAdd
<1>3. add => CanAdd(a) /\ Absent(slots, w)
  BY <1>1, <1>2 DEF FreshInv, Fresh
<1>4. /\ slots' = IF add THEN AddTo(slots, a, w) ELSE slots
      /\ numslots' = IF add THEN [numslots EXCEPT ![a] = @ + 1] ELSE numslots
      /\ pc' = [pc EXCEPT ![w] = "loop"]
      /\ UNCHANGED <<stopVars, pairVars, listVars, bridgeVars, tick, fate>>
  BY DEF BridgeAddOwn, Goto
<1> HIDE DEF a, add
<1>5. NodesAre(slots', numslots') /\ \A v \in Workers : v # w /\ Absent(slots, v) => Absent(slots', v)
  BY <1>2, <1>3, <1>4, <1>9, PlacingIs
<1>6. Types' /\ pc'[w] = "loop" /\ \A v \in Workers : v # w => pc'[v] = pc[v]
  BY <1>1, <1>4 DEF Types, WorkerPlaces, stopVars, pairVars, listVars, bridgeVars, fate
<1>7. PlaceInv'
  BY <1>1, <1>2, <1>4, <1>6 DEF PlaceInv, stopVars, bridgeVars, a
<1>8. \A v \in Workers : Fresh(v)' => Absent(slots', v)
  BY <1>1, <1>4, <1>5, <1>6 DEF FreshInv, Fresh, bridgeVars
<1> QED BY <1>5, <1>6, <1>7, <1>8, SlotsChange

LEMMA BridgeNewSafe == ASSUME Safe, NEW w \in Workers, BridgeNew(w) PROVE Safe'
<1> DEFINE t == [i \in SlotIds |-> EmptySlot]
           over == [pos |-> 0, checkOnly |-> FALSE]
<1>1. Types /\ PlaceInv /\ NodesAre(slots, numslots) /\ FreshInv
  BY DEF Safe
<1>2. pc[w] = "walk" /\ ~walk[w].checkOnly /\ ~crashed
  BY DEF BridgeNew, WalkOver, At
<1>3. PICK a \in Addrs :
        /\ ~Live(a) /\ list' = Append(list, a)
        /\ numslots' = [numslots EXCEPT ![a] = 0] /\ slots' = [slots EXCEPT ![a] = t]
        /\ creator' = [creator EXCEPT ![a] = w] /\ node' = [node EXCEPT ![w] = a]
  BY DEF BridgeNew
<1>4. /\ stLock' = None /\ walk' = [walk EXCEPT ![w] = over] /\ pc' = [pc EXCEPT ![w] = "add"]
      /\ UNCHANGED <<stopVars, pairVars, tick, fate>>
  BY DEF BridgeNew, Goto
<1>5. Good(t, 0, slots[a]) /\ 0 \in -1..MaxSlots
  BY SlotsAssumption DEF Good, IsSlots, Distinct, Ends, OnlyOf, EmptySlot, Pairs, Masks
<1>6. over \in [pos : Nat, checkOnly : BOOLEAN]
  OBVIOUS
<1> HIDE DEF t, over
<1>7. NodesAre(slots', numslots') /\ \A v \in Workers : Absent(slots, v) => Absent(slots', v)
  BY <1>1, <1>3, <1>5, NodeChanges
<1>8. list' \in Seq(Addrs) /\ NoDuplicates(list')
  BY <1>1, <1>3, AppendedIs DEF Types, Live
<1>9. /\ walk' \in [Workers -> [pos : Nat, checkOnly : BOOLEAN]] /\ pc' \in [Workers -> WorkerPlaces]
      /\ creator' \in [Addrs -> Workers \cup {None}] /\ node' \in [Workers -> Addrs \cup {None}]
      /\ pc'[w] = "add" /\ node'[w] = a
      /\ \A v \in Workers : v # w => pc'[v] = pc[v] /\ walk'[v] = walk[v] /\ node'[v] = node[v]
  BY <1>1, <1>3, <1>4, <1>6 DEF Types, WorkerPlaces
<1>10. Types'
  BY <1>1, <1>4, <1>8, <1>9 DEF Types, stopVars, pairVars, fate
<1>11. PlaceInv'
  BY <1>1, <1>4, <1>9, NamesAssumption DEF PlaceInv, stopVars, fate
<1>12. \A v \in Workers : Fresh(v)' => Absent(slots', v)
  BY <1>1, <1>2, <1>7, <1>9 DEF FreshInv, Fresh
<1> QED BY <1>7, <1>10, <1>11, <1>12, SlotsChange

LEMMA PrepareSafe == ASSUME Safe, NEW w \in Workers, Prepare(w) PROVE Safe'
<1> DEFINE a == node[w]
           n == numslots[a]
           r == Register(slots[a], n)
           m == IF r.n <= 0 THEN -1 ELSE r.n
           lost == {slots[a][i].pair : i \in 0..n - 1} \ {r.slots[i].pair : i \in 0..r.n - 1}
           t == [tick[w] EXCEPT !.reg = r.reg]
           u == [t EXCEPT !.moved = r.moved]
<1>1. Types /\ PlaceInv /\ NodesAre(slots, numslots) /\ FreshInv
  BY DEF Safe
<1>2. pc[w] = "prepare" /\ ~crashed /\ a \in Addrs
  BY <1>1 DEF Prepare, At, Types, PlaceInv
<1>3. /\ \A i \in 0..n - 1 : slots[a][i].pair # None
      /\ slots' = [slots EXCEPT ![a] = r.slots] /\ numslots' = [numslots EXCEPT ![a] = m]
      /\ tick' = [tick EXCEPT ![w].reg = r.reg, ![w].moved = r.moved] /\ ended' = ended \cup lost
      /\ pc' = [pc EXCEPT ![w] = IF r.n <= 0 THEN "unlink" ELSE "wait"]
      /\ UNCHANGED <<stopVars, listVars, bridgeVars, hold, broken, fate>>
  BY DEF Prepare, HasNull, Mine, Goto
<1>4. n \in -1..MaxSlots /\ IsSlots(slots[a]) /\ Distinct(slots[a]) /\ Ends(slots[a], n) /\ MaxSlots \in Nat
  BY <1>1, <1>2, SlotsAssumption DEF NodesAre, IsSlots
<1>5. lost \subseteq Workers
  <2>1. \A i \in 0..n - 1 : slots[a][i].pair \in Workers
    BY <1>3, <1>4 DEF IsSlots, SlotIds, Pairs
  <2> QED BY <2>1
<1> HIDE DEF a, n, r
<1>6. r.n \in -1..MaxSlots /\ r.reg \in Masks /\ r.moved \in SUBSET SlotIds /\ Good(r.slots, r.n, slots[a])
  BY <1>4, RegisterIs DEF r
<1>7. m \in -1..MaxSlots /\ Good(r.slots, m, slots[a])
  BY <1>4, <1>6, GivenUpIs
<1>8. u \in Ticks /\ tick' = [tick EXCEPT ![w] = u]
  <2>1. t \in Ticks
    BY <1>1, <1>6, TickFields DEF Types
  <2>2. tick' = [tick EXCEPT ![w] = u]
    BY <1>1, <1>3 DEF Types
  <2> HIDE DEF t
  <2> QED BY <2>1, <2>2, <1>6, TickFields
<1> HIDE DEF m, lost, t, u
<1>9. NodesAre(slots', numslots') /\ \A v \in Workers : Absent(slots, v) => Absent(slots', v)
  BY <1>1, <1>2, <1>3, <1>7, NodeChanges
<1>10. tick' \in [Workers -> Ticks] /\ \A v \in Workers : v # w => tick'[v] = tick[v]
  BY <1>1, <1>8, TickChanges
<1>11. /\ pc' \in [Workers -> WorkerPlaces] /\ pc'[w] \in {"unlink", "wait"}
       /\ \A v \in Workers : v # w => pc'[v] = pc[v]
  BY <1>1, <1>3 DEF Types, WorkerPlaces
<1>12. Types'
  BY <1>1, <1>3, <1>5, <1>10, <1>11 DEF Types, stopVars, listVars, bridgeVars, fate
<1>13. PlaceInv'
  BY <1>1, <1>2, <1>3, <1>10, <1>11 DEF PlaceInv, stopVars, bridgeVars
<1>14. \A v \in Workers : Fresh(v)' => Absent(slots', v)
  BY <1>1, <1>3, <1>9, <1>11 DEF FreshInv, Fresh, bridgeVars
<1> QED BY <1>9, <1>12, <1>13, <1>14, SlotsChange

LEMMA ProcessDeadSafe == ASSUME Safe, NEW w \in Workers, ProcessDead(w) PROVE Safe'
<1> DEFINE a == node[w]
           k == tick[w].i
           gone == {slots[a][k].pair} \ {None}
           t == [tick[w] EXCEPT !.evs = Consumed(w)]
           u == [t EXCEPT !.more = tick[w].more \/ Event(w) \in {"hupmore", "eofmore"}]
           x == [u EXCEPT !.wasDel = IF tick[w].wasDel < 0 THEN k ELSE tick[w].wasDel]
<1>1. Types /\ PlaceInv /\ NodesAre(slots, numslots) /\ FreshInv
  BY DEF Safe
<1>2. pc[w] = "process" /\ ~crashed /\ a \in Addrs /\ k < tick[w].cur /\ tick[w] \in Ticks
  BY <1>1 DEF ProcessDead, More, At, Types, PlaceInv
<1>3. /\ slots' = [slots EXCEPT ![a][k] = EmptySlot] /\ ended' = ended \cup gone
      /\ UNCHANGED <<stopVars, listVars, bridgeVars, numslots, pc, hold, broken, fate>>
  BY DEF ProcessDead, Slot, Mine
<1>4. tick' = [tick EXCEPT ![w] = x]
  BY <1>1 DEF ProcessDead, Types
<1>5. MaxSlots \in Nat /\ k \in SlotIds /\ k \in -1..MaxSlots - 1
  BY <1>2, TickFields, SlotsAssumption DEF SlotIds
<1>6. gone \subseteq Workers
  BY <1>1, <1>2, <1>5 DEF NodesAre, Pairs
<1>7. x \in Ticks
  <2>1. t \in Ticks
    BY <1>1, <1>2, ConsumedIs, TickFields
  <2>2. (tick[w].more \/ Event(w) \in {"hupmore", "eofmore"}) \in BOOLEAN
    OBVIOUS
  <2> HIDE DEF t
  <2>3. u \in Ticks
    BY <2>1, <2>2, TickFields
  <2>4. (IF tick[w].wasDel < 0 THEN k ELSE tick[w].wasDel) \in -1..MaxSlots - 1
    BY <1>2, <1>5, TickFields
  <2> HIDE DEF u
  <2> QED BY <2>3, <2>4, TickFields
<1>8. Good([slots[a] EXCEPT ![k] = EmptySlot], numslots[a], slots[a]) /\ numslots[a] \in -1..MaxSlots
  <2>1. /\ numslots[a] \in -1..MaxSlots /\ IsSlots(slots[a]) /\ Distinct(slots[a]) /\ Ends(slots[a], numslots[a])
    BY <1>1, <1>2 DEF NodesAre, IsSlots
  <2> HIDE DEF a, k
  <2>2. numslots[a] \in Int
    BY <2>1, <1>5
  <2>3. Good([slots[a] EXCEPT ![k] = EmptySlot], numslots[a], slots[a])
    BY <2>1, <2>2, <1>5, ClearedIs, Zenon
  <2> QED BY <2>1, <2>3
<1>9. /\ slots' = [slots EXCEPT ![a] = [slots[a] EXCEPT ![k] = EmptySlot]]
      /\ numslots' = [numslots EXCEPT ![a] = numslots[a]]
  BY <1>1, <1>3 DEF NodesAre
<1> HIDE DEF a, k, gone, x
<1>10. NodesAre(slots', numslots') /\ \A v \in Workers : Absent(slots, v) => Absent(slots', v)
  BY <1>1, <1>2, <1>8, <1>9, NodeChanges
<1>11. tick' \in [Workers -> Ticks] /\ \A v \in Workers : v # w => tick'[v] = tick[v]
  BY <1>1, <1>4, <1>7, TickChanges
<1>12. Types'
  BY <1>1, <1>3, <1>6, <1>11 DEF Types, stopVars, listVars, bridgeVars, fate
<1>13. PlaceInv'
  BY <1>1, <1>2, <1>3, <1>11 DEF PlaceInv, stopVars, bridgeVars
<1>14. \A v \in Workers : Fresh(v)' => Absent(slots', v)
  BY <1>1, <1>3, <1>10 DEF FreshInv, Fresh, bridgeVars
<1> QED BY <1>10, <1>12, <1>13, <1>14, SlotsChange

LEMMA CompactSafe == ASSUME Safe, NEW w \in Workers, Compact(w) PROVE Safe'
<1> DEFINE a == node[w]
           d == tick[w].wasDel
           c == IF d < 0
                THEN [n |-> numslots[a], slots |-> slots[a], index |-> [i \in 0..NoRv |-> i]]
                ELSE Closed(slots[a], numslots[a], d)
           m == IF c.n > 0 THEN c.n ELSE -1
           x == c.index[tick[w].rv]
           t == IF c.n > 0 THEN [NoTick EXCEPT !.rv = x] ELSE NoTick
<1>1. Types /\ PlaceInv /\ NodesAre(slots, numslots) /\ FreshInv
  BY DEF Safe
<1>2. pc[w] = "process" /\ ~crashed /\ a \in Addrs /\ tick[w] \in Ticks
  BY <1>1 DEF Compact, At, Types, PlaceInv
<1>3. /\ slots' = [slots EXCEPT ![a] = c.slots] /\ numslots' = [numslots EXCEPT ![a] = m]
      /\ tick' = [tick EXCEPT ![w] = t] /\ pc' = [pc EXCEPT ![w] = IF c.n > 0 THEN "ret" ELSE "unlink"]
      /\ UNCHANGED <<stopVars, pairVars, listVars, bridgeVars, fate>>
  BY DEF Compact, Goto
<1>4. /\ numslots[a] \in -1..MaxSlots /\ IsSlots(slots[a]) /\ Distinct(slots[a]) /\ Ends(slots[a], numslots[a])
      /\ MaxSlots \in Nat
  BY <1>1, <1>2, SlotsAssumption DEF NodesAre, IsSlots
<1>5. d \in -1..MaxSlots - 1 /\ tick[w].rv \in 0..NoRv
  BY <1>2, TickFields
<1>6. c.n \in -1..MaxSlots /\ x \in 0..NoRv /\ Good(c.slots, c.n, slots[a])
  <2>1. CASE d < 0
    <3>1. c = [n |-> numslots[a], slots |-> slots[a], index |-> [i \in 0..NoRv |-> i]]
      BY <2>1
    <3> HIDE DEF a, c, d
    <3>2. x = tick[w].rv /\ c.n = numslots[a] /\ c.slots = slots[a]
      BY <3>1, <1>5
    <3>3. Good(slots[a], numslots[a], slots[a])
      BY <1>4 DEF Good, OnlyOf, Ends
    <3> HIDE DEF x
    <3> QED BY <3>2, <3>3, <1>4, <1>5
  <2>2. CASE ~(d < 0)
    <3>1. d \in SlotIds /\ c = Closed(slots[a], numslots[a], d)
      BY <2>2, <1>5, <1>4 DEF SlotIds
    <3> HIDE DEF a, d
    <3>2. c.n \in 0..MaxSlots /\ c.index \in [0..NoRv -> 0..NoRv] /\ Good(c.slots, c.n, slots[a])
      BY <3>1, <1>4, ClosedIs
    <3> HIDE DEF c
    <3>3. x \in 0..NoRv
      BY <3>2, <1>5
    <3>4. c.n \in -1..MaxSlots
      BY <3>2, <1>4
    <3> QED BY <3>2, <3>3, <3>4
  <2> QED BY <2>1, <2>2
<1> HIDE DEF a, d, c, x
<1>7. m \in -1..MaxSlots /\ Good(c.slots, m, slots[a])
  BY <1>4, <1>6, GivenUpIs
<1>8. t \in Ticks
  BY <1>6, NoTickIs, TickFields
<1> HIDE DEF m, t
<1>9. NodesAre(slots', numslots') /\ \A v \in Workers : Absent(slots, v) => Absent(slots', v)
  BY <1>1, <1>2, <1>3, <1>7, NodeChanges
<1>10. tick' \in [Workers -> Ticks] /\ \A v \in Workers : v # w => tick'[v] = tick[v]
  BY <1>1, <1>3, <1>8, TickChanges
<1>11. /\ pc' \in [Workers -> WorkerPlaces] /\ pc'[w] \in {"unlink", "ret"}
       /\ \A v \in Workers : v # w => pc'[v] = pc[v]
  BY <1>1, <1>3 DEF Types, WorkerPlaces
<1>12. Types'
  BY <1>1, <1>3, <1>10, <1>11 DEF Types, stopVars, pairVars, listVars, bridgeVars, fate
<1>13. PlaceInv'
  BY <1>1, <1>2, <1>3, <1>10, <1>11 DEF PlaceInv, stopVars, bridgeVars, a
<1>14. \A v \in Workers : Fresh(v)' => Absent(slots', v)
  BY <1>1, <1>3, <1>9, <1>11 DEF FreshInv, Fresh, bridgeVars
<1> QED BY <1>9, <1>12, <1>13, <1>14, SlotsChange

\* The pair at the idle index of node a goes to node b, in whatever slot the index is.
LEMMA HandedOn ==
  ASSUME NodesAre(slots, numslots), NEW a \in Addrs, NEW b \in Addrs \ {a}, NEW k \in SlotIds,
         numslots[a] > 0, CanAdd(b), NEW m, m = IF numslots[a] - 1 = 0 THEN -1 ELSE numslots[a] - 1,
         slots' = [AddTo(slots, b, slots[a][k].pair) EXCEPT ![a] = MoveSlot(@, k, numslots[a] - 1)],
         numslots' = [numslots EXCEPT ![b] = @ + 1, ![a] = m]
  PROVE  NodesAre(slots', numslots') /\ \A v \in Workers : Absent(slots, v) => Absent(slots', v)
<1> DEFINE s == slots[a]
           p == s[k].pair
           left == numslots[a] - 1
           t == MoveSlot(s, k, left)
           sl == [slots EXCEPT ![a] = t]
           ns == [numslots EXCEPT ![a] = m]
<1>1. /\ IsSlots(s) /\ Distinct(s) /\ Ends(s, left + 1) /\ p \in Pairs
      /\ left \in SlotIds /\ m \in -1..MaxSlots /\ numslots[b] \in SlotIds /\ MaxSlots \in Nat
  <2>1. MaxSlots \in Nat /\ numslots[a] \in -1..MaxSlots /\ numslots[a] > 0
    BY SlotsAssumption DEF NodesAre
  <2>2. left \in SlotIds /\ m \in -1..MaxSlots /\ left + 1 = numslots[a]
    BY <2>1 DEF SlotIds
  <2>3. IsSlots(s) /\ Distinct(s) /\ Ends(s, numslots[a])
    BY DEF NodesAre, IsSlots
  <2>4. numslots[b] \in SlotIds
    BY DEF CanAdd
  <2>5. p \in Pairs
    BY <2>3 DEF IsSlots
  <2> QED BY <2>1, <2>2, <2>3, <2>4, <2>5
<1>2. Good(t, left, s) /\ \A i \in SlotIds : t[i].pair # None => t[i].pair # p
  <2> HIDE DEF s, left
  <2> QED BY <1>1, MoveSlotIs
<1>3. Good(t, m, s)
  <2>1. CASE left = 0
    BY <2>1, <1>2, GivenUpIs
  <2>2. CASE left # 0
    BY <2>2, <1>2
  <2> QED BY <2>1, <2>2
<1>4. /\ slots' = [sl EXCEPT ![b][ns[b]] = [pair |-> p, mask |-> 0]] /\ numslots' = [ns EXCEPT ![b] = @ + 1]
      /\ ns[b] = numslots[b] /\ \A c \in Addrs : sl[c] = IF c = a THEN t ELSE slots[c]
  <2> HIDE DEF t
  <2>1. ns[b] = numslots[b] /\ \A c \in Addrs : sl[c] = IF c = a THEN t ELSE slots[c]
    BY DEF NodesAre
  <2>2. numslots' = [ns EXCEPT ![b] = @ + 1]
    BY DEF NodesAre
  <2> DEFINE new == [pair |-> p, mask |-> 0]
             grown == [slots EXCEPT ![b][numslots[b]] = new]
  <2>3. AddTo(slots, b, p) = grown
    BY DEF AddTo
  <2>4. grown[a] = s /\ grown \in [Addrs -> [SlotIds -> [pair : Pairs, mask : Masks]]]
    BY <1>1 DEF NodesAre, Masks
  <2>5. slots' = [grown EXCEPT ![a] = t]
    BY <2>3, <2>4 DEF t
  <2> HIDE DEF new, p, s
  <2>6. slots' = [sl EXCEPT ![b][numslots[b]] = new]
    BY <2>5 DEF NodesAre
  <2> QED BY <2>1, <2>2, <2>6 DEF new
<1> HIDE DEF t
<1>5. NodesAre(sl, ns) /\ \A v \in Workers : Absent(slots, v) => Absent(sl, v)
  <2> HIDE DEF s
  <2>1. Good(t, m, slots[a])
    BY <1>3 DEF s
  <2> QED BY <2>1, <1>1, NodeChanges
<1>6. p # None => Absent(sl, p)
  <2> SUFFICES ASSUME p # None, NEW c \in Addrs, NEW i \in SlotIds PROVE sl[c][i].pair # p
    BY DEF Absent
  <2>1. \A x, y \in Addrs : \A g, h \in SlotIds :
          slots[x][g].pair = slots[y][h].pair /\ slots[x][g].pair # None => x = y
    BY DEF NodesAre
  <2>2. CASE c = a
    BY <2>2, <1>2, <1>4
  <2>3. CASE c # a
    BY <2>1, <2>3, <1>4
  <2> QED BY <2>2, <2>3
<1>7. \A v \in Workers : Absent(slots, v) => v # p
  BY DEF Absent
<1> HIDE DEF sl, ns, p
<1>8. /\ NodesAre([sl EXCEPT ![b][ns[b]] = [pair |-> p, mask |-> 0]], [ns EXCEPT ![b] = @ + 1])
      /\ \A q \in Workers : Absent(sl, q) /\ q # p
           => Absent([sl EXCEPT ![b][ns[b]] = [pair |-> p, mask |-> 0]], q)
  <2>1. ns[b] \in SlotIds
    BY <1>1, <1>4
  <2> QED BY <2>1, <1>1, <1>5, <1>6, NodeGrows, Zenon
<1> QED BY <1>4, <1>5, <1>7, <1>8, Zenon

LEMMA ForwardSafe == ASSUME Safe, NEW w \in Workers, Forward(w) PROVE Safe'
<1> DEFINE a == node[w]
           b == NextNode(w)
           k == tick[w].rv
           left == numslots[a] - 1
           m == IF left = 0 THEN -1 ELSE left
<1>1. Types /\ PlaceInv /\ NodesAre(slots, numslots) /\ FreshInv
  BY DEF Safe
<1>2. pc[w] = "forward" /\ ~crashed /\ a \in Addrs /\ k \in SlotIds
  BY <1>1 DEF Forward, At, Types, PlaceInv
<1>3. /\ tick' = [tick EXCEPT ![w] = NoTick] /\ UNCHANGED <<stopVars, pairVars, listVars, bridgeVars>>
      /\ faults' \in {faults, faults \cup {"forwarded"}}
  BY DEF Forward
<1>4. tick' \in [Workers -> Ticks] /\ \A v \in Workers : v # w => tick'[v] = tick[v]
  BY <1>1, <1>3, NoTickIs, TickChanges
<1>5. ASSUME pc' \in {[pc EXCEPT ![w] = "loop"], [pc EXCEPT ![w] = "unlink"]}, UNCHANGED crashed
      PROVE  Types' /\ PlaceInv' /\ \A v \in Workers : Fresh(v)' => Fresh(v)
  <2>1. /\ pc' \in [Workers -> WorkerPlaces] /\ pc'[w] \in {"unlink", "loop"}
        /\ \A v \in Workers : v # w => pc'[v] = pc[v]
    BY <1>1, <1>5 DEF Types, WorkerPlaces
  <2>2. Types'
    BY <1>1, <1>3, <1>4, <1>5, <2>1 DEF Types, Faults, stopVars, pairVars, listVars, bridgeVars
  <2>3. PlaceInv'
    BY <1>1, <1>2, <1>3, <1>4, <1>5, <2>1 DEF PlaceInv, stopVars, bridgeVars
  <2>4. \A v \in Workers : Fresh(v)' => Fresh(v)
    BY <1>3, <2>1 DEF Fresh, bridgeVars
  <2> QED BY <2>2, <2>3, <2>4
<1>6. CASE Goto(w, "loop") /\ UNCHANGED <<nodeVars, crashed>>
  BY <1>5, <1>6, SlotsAlone DEF Goto
<1>7. CASE crashed' = TRUE /\ UNCHANGED <<nodeVars, pc>>
  <2>1. Types'
    BY <1>1, <1>3, <1>4, <1>7 DEF Types, Faults, stopVars, pairVars, listVars, bridgeVars
  <2>2. PlaceInv'
    BY <1>1, <1>3, <1>7 DEF PlaceInv, stopVars, bridgeVars
  <2>3. \A v \in Workers : Fresh(v)' => Fresh(v)
    BY <1>3, <1>7 DEF Fresh, bridgeVars
  <2> QED BY <2>1, <2>2, <2>3, <1>7, SlotsAlone
<1>8. CASE /\ CanForward(w) /\ left >= 0
           /\ slots' = [AddTo(slots, b, slots[a][k].pair) EXCEPT ![a] = MoveSlot(@, k, left)]
           /\ numslots' = [numslots EXCEPT ![b] = @ + 1, ![a] = m]
           /\ Goto(w, IF left = 0 THEN "unlink" ELSE "loop") /\ UNCHANGED crashed
  <2>1. b \in Addrs \ {a} /\ CanAdd(b)
    <3>1. list \in Seq(Addrs) /\ NoDuplicates(list)
      BY <1>1 DEF Types
    <3>2. b # None /\ CanAdd(b) /\ Live(a)
      BY <1>8 DEF CanForward, NextNode
    <3> HIDE DEF b
    <3> QED BY <3>1, <3>2, <1>2, IndexIs DEF b
  <2>2. numslots[a] > 0
    BY <1>1, <1>2, <1>8 DEF NodesAre
  <2> HIDE DEF a, b, k
  <2>3. NodesAre(slots', numslots') /\ \A v \in Workers : Absent(slots, v) => Absent(slots', v)
    BY <2>1, <2>2, <1>1, <1>2, <1>8, HandedOn
  <2>4. Types' /\ PlaceInv' /\ \A v \in Workers : Fresh(v)' => Fresh(v)
    BY <1>5, <1>8 DEF Goto
  <2>5. \A v \in Workers : Fresh(v)' => Absent(slots', v)
    BY <2>3, <2>4, <1>1 DEF FreshInv
  <2> QED BY <2>3, <2>4, <2>5, SlotsChange
<1> QED BY <1>6, <1>7, <1>8 DEF Forward

LEMMA CloseNodeSafe == ASSUME Safe, CloseNode PROVE Safe'
<1> DEFINE a == list[stopPc.pos]
           t == [i \in SlotIds |-> IF i < numslots[a] THEN [slots[a][i] EXCEPT !.pair = None] ELSE slots[a][i]]
<1>1. Types /\ PlaceInv /\ NodesAre(slots, numslots) /\ FreshInv
  BY DEF Safe
<1>2. a \in Addrs
  BY <1>1 DEF CloseNode, StopAt, Types, PlaceInv
<1>3. /\ slots' = [slots EXCEPT ![a] = t] /\ numslots' = [numslots EXCEPT ![a] = 0]
      /\ stopPc' = [stopPc EXCEPT !.pos = @ + 1] /\ stopPc.at = "closing"
      /\ UNCHANGED <<pairVars, listVars, bridgeVars, needStop, exit, pc, tick, faults>>
      /\ crashed' \in BOOLEAN
  BY <1>1, <1>2 DEF CloseNode, StopAt, NodesAre
<1>4. Good(t, 0, slots[a]) /\ 0 \in -1..MaxSlots
  <2>1. numslots[a] \in Int /\ IsSlots(slots[a]) /\ Ends(slots[a], numslots[a])
    BY <1>1, <1>2 DEF NodesAre, IsSlots
  <2> HIDE DEF a
  <2> QED BY <2>1, EmptiedIs, SlotsAssumption
<1> HIDE DEF a, t
<1>5. NodesAre(slots', numslots') /\ \A v \in Workers : Absent(slots, v) => Absent(slots', v)
  BY <1>1, <1>2, <1>3, <1>4, NodeChanges
<1>9. /\ stopPc' \in [at : {"idle", "closing", "waiting", "stopped"}, pos : Nat]
      /\ stopPc'.at = "closing" /\ stopPc'.pos > 0
  <2>1. stopPc \in [at : {"idle", "closing", "waiting", "stopped"}, pos : Nat]
    BY <1>1 DEF Types
  <2>2. stopPc' = [at |-> "closing", pos |-> stopPc.pos + 1]
    BY <2>1, <1>3
  <2> QED BY <2>1, <2>2
<1>6. Types'
  BY <1>1, <1>3, <1>9 DEF Types, pairVars, listVars, bridgeVars
<1>7. PlaceInv'
  BY <1>1, <1>2, <1>3, <1>9 DEF PlaceInv, CloseNode, StopAt, bridgeVars
<1>8. \A v \in Workers : Fresh(v)' => Absent(slots', v)
  BY <1>1, <1>3, <1>5 DEF FreshInv, Fresh, bridgeVars
<1> QED BY <1>5, <1>6, <1>7, <1>8, SlotsChange

\* The other steps of the engine and of stop(), and the end.
LEMMA StopSafe ==
  ASSUME Safe, EngineExit \/ StopBegin \/ StopUnlock \/ StopReturn \/ UNCHANGED vars
  PROVE  Safe'
<1> USE DEF Safe
<1>1. CASE EngineExit
  <2>1. Types' /\ PlaceInv' /\ \A v \in Workers : Fresh(v)' => Fresh(v)
    BY <1>1 DEF EngineExit, Types, PlaceInv, Fresh, pairVars, listVars, bridgeVars, fate
  <2> QED BY <1>1, <2>1, SlotsAlone DEF EngineExit
<1>2. CASE StopBegin
  <2>1. Types' /\ PlaceInv' /\ \A v \in Workers : Fresh(v)' => Fresh(v)
    BY <1>2 DEF StopBegin, Types, PlaceInv, Fresh, pairVars, bridgeVars, fate
  <2> QED BY <1>2, <2>1, SlotsAlone DEF StopBegin
<1>3. CASE StopUnlock
  <2>1. Types' /\ PlaceInv' /\ \A v \in Workers : Fresh(v)' => Fresh(v)
    BY <1>3 DEF StopUnlock, Types, PlaceInv, Fresh, pairVars, bridgeVars, fate
  <2> QED BY <1>3, <2>1, SlotsAlone DEF StopUnlock
<1>4. CASE StopReturn
  <2>1. Types' /\ PlaceInv' /\ \A v \in Workers : Fresh(v)' => Fresh(v)
    BY <1>4 DEF StopReturn, Types, PlaceInv, Fresh, pairVars, listVars, bridgeVars, fate
  <2> QED BY <1>4, <2>1, SlotsAlone DEF StopReturn
<1>5. CASE UNCHANGED vars
  <2>1. Types' /\ PlaceInv' /\ UNCHANGED nodeVars /\ \A v \in Workers : Fresh(v)' => Fresh(v)
    BY <1>5 DEF vars, Types, PlaceInv, Fresh, nodeVars
  <2> QED BY <2>1, SlotsAlone
<1> QED BY <1>1, <1>2, <1>3, <1>4, <1>5

LEMMA NextSafe == Safe /\ [Next]_vars => Safe'
<1> SUFFICES ASSUME Safe, [Next]_vars PROVE Safe'
  OBVIOUS
<1>1. ASSUME NEW w \in Workers, BridgeStep(w) PROVE Safe'
  BY <1>1, QuietSafe, WalkTrySafe, BridgeNewSafe, BridgeAddOwnSafe DEF BridgeStep, WalkStep
<1>2. ASSUME NEW w \in Workers, TickStep(w) PROVE Safe'
  BY <1>2, QuietSafe, PrepareSafe, ProcessDeadSafe, CompactSafe, ForwardSafe DEF TickStep
<1>3. CASE StopStep
  BY <1>3, CloseNodeSafe, StopSafe DEF StopStep
<1>4. CASE EngineExit \/ UNCHANGED vars
  BY <1>4, StopSafe
<1>5. CASE Finished
  BY <1>5, StopSafe DEF Finished
<1> QED BY <1>1, <1>2, <1>3, <1>4, <1>5 DEF Next

LEMMA AlwaysSafe == Spec => []Safe
BY InitSafe, NextSafe, PTL DEF Spec

-----------------------------------------------------------------------------
(* The theorems.                                                           *)

\* Every variable keeps its type: numslots stays between -1 and MAXIMUM_SLOTS and the indices
\* of a tick inside the array, with any number of workers, nodes and slots, in any order.
THEOREM TypeCorrect == Spec => []TypeOK
<1>1. Safe => TypeOK
  <2> SUFFICES ASSUME Safe PROVE TypeOK
    OBVIOUS
  <2>1. \A w \in Workers : tick[w] \in Ticks
    BY DEF Safe, Types
  <2>2. \A w \in Workers : /\ tick[w].reg \in Masks /\ tick[w].moved \subseteq SlotIds
                           /\ tick[w].cur \in -1..MaxSlots
                           /\ tick[w].i \in 0..MaxSlots /\ tick[w].rv \in 0..NoRv
                           /\ tick[w].wasDel \in -1..MaxSlots - 1
    BY <2>1, TickFields
  <2>3. /\ slots \in [Addrs -> [SlotIds -> [pair : Pairs, mask : Masks]]]
        /\ numslots \in [Addrs -> -1..MaxSlots]
    BY DEF Safe, NodesAre
  <2> QED BY <2>2, <2>3 DEF Safe, Types, TypeOK, WorkerPlaces
<1> QED BY <1>1, AlwaysSafe, PTL

\* No pair is relayed by two threads, nor twice by one: a pair that bridge() puts into a slot,
\* registration and compaction move and forward() hands on is in one slot of one node.
THEOREM ServedOnceHolds == Spec => []ServedOnce
<1>1. Safe => ServedOnce
  <2> SUFFICES ASSUME Safe, NEW a \in ToSet(list), NEW b \in ToSet(list), NEW i \in Used(a), NEW j \in Used(b),
                      slots[a][i].pair = slots[b][j].pair, slots[a][i].pair # None
               PROVE  a = b /\ i = j
    BY DEF ServedOnce
  <2>1. a \in Addrs /\ b \in Addrs /\ i \in SlotIds /\ j \in SlotIds
    BY DEF Safe, Types, ToSet, Used
  <2>2. a = b
    <3>1. \A x, y \in Addrs : \A g, h \in SlotIds :
            slots[x][g].pair = slots[y][h].pair /\ slots[x][g].pair # None => x = y
      BY DEF Safe, NodesAre
    <3> QED BY <2>1, <3>1
  <2>3. i = j
    BY <2>1, <2>2 DEF Safe, NodesAre, Distinct
  <2> QED BY <2>2, <2>3
<1> QED BY <1>1, AlwaysSafe, PTL

-----------------------------------------------------------------------------
(* Which node a worker runs, until one has unlinked the node of another.   *)

\* What can go wrong stays noted.
LEMMA FaultsStay == [Next]_vars => faults \subseteq faults'
<1> SUFFICES ASSUME [Next]_vars PROVE faults \subseteq faults'
  OBVIOUS
<1> USE DEF fate
<1>1. ASSUME NEW w \in Workers, BridgeStep(w) PROVE UNCHANGED faults
  BY <1>1 DEF BridgeStep, WalkStep, BridgeLock, WalkDelete, WalkTry, BridgeTaken, BridgeNew, BridgeAddOwn
<1>2. ASSUME NEW w \in Workers, TickStep(w) PROVE faults \subseteq faults'
  <2>1. CASE Forward(w) \/ Unlink(w)
    <3>1. faults' \in {faults, faults \cup {"forwarded"}, faults \cup {"unlinked"}}
      BY <2>1 DEF Forward, Unlink
    <3> QED BY <3>1
  <2>2. CASE LoopCheck(w) \/ PrepareNull(w) \/ Prepare(w) \/ Wait(w) \/ Count(w) \/ ProcessSkip(w)
    BY <2>2 DEF LoopCheck, PrepareNull, Prepare, Wait, Count, ProcessSkip
  <2>3. CASE \/ ProcessData(w) \/ ProcessDead(w) \/ ProcessNull(w) \/ ProcessAsserted(w)
             \/ Compact(w) \/ Return(w) \/ UseFreed(w)
    BY <2>3 DEF ProcessData, ProcessDead, ProcessNull, ProcessAsserted, Compact, Return, UseFreed
  <2> QED BY <1>2, <2>1, <2>2, <2>3 DEF TickStep
<1>3. CASE EngineExit \/ StopStep \/ UNCHANGED vars
  BY <1>3 DEF EngineExit, StopStep, StopBegin, CloseNode, StopUnlock, StopReturn, vars
<1> QED BY <1>1, <1>2, <1>3 DEF Next, Finished

\* The node that a running worker knows is the one it made last, on the list, and open.
OwnRuns == \A w \in Workers : pc[w] \in Running =>
             Live(node[w]) /\ creator[node[w]] = w /\ numslots[node[w]] >= 0

OwnInv == "unlinked" \notin faults => OwnRuns

LEMMA OwnApart ==
  ASSUME Safe, OwnRuns, NEW w \in Workers, pc[w] \in Running, NEW v \in Workers, pc[v] \in Running, v # w
  PROVE  node[v] # node[w] /\ node[v] \in Addrs
<1>1. pc[v] \notin {"start", "walk", "done"}
  BY DEF Running, InTick
<1>2. node[v] # None
  BY <1>1 DEF Safe, PlaceInv
<1> QED BY <1>2 DEF OwnRuns, Safe, Types

LEMMA OwnKept ==
  ASSUME OwnRuns, UNCHANGED <<node, creator>>,
         \A v \in Workers : pc'[v] \in Running => pc[v] \in Running /\ Live(node[v])' /\ numslots'[node[v]] >= 0
  PROVE  OwnRuns'
BY DEF OwnRuns, Live

LEMMA OwnQuiet ==
  ASSUME OwnRuns, UNCHANGED <<node, creator, list, numslots>>,
         \A v \in Workers : pc'[v] \in Running => pc[v] \in Running
  PROVE  OwnRuns'
BY DEF OwnRuns, Live

LEMMA TickOwn ==
  ASSUME Safe, Safe', OwnRuns, NEW w \in Workers, TickStep(w), "unlinked" \notin faults'
  PROVE  OwnRuns'
<1> USE DEF At, Goto
<1>1. Types /\ PlaceInv /\ NodesAre(slots, numslots) /\ NodesAre(slots', numslots')
  BY DEF Safe, NodesAre, Distinct, Ends
<1>2. CASE LoopCheck(w) \/ Wait(w) \/ Count(w) \/ ProcessSkip(w) \/ ProcessData(w) \/ ProcessDead(w)
             \/ PrepareNull(w) \/ ProcessNull(w) \/ ProcessAsserted(w) \/ Return(w) \/ UseFreed(w)
  <2>1. pc[w] \in Running /\ \A v \in Workers : v # w => pc'[v] = pc[v]
    BY <1>1, <1>2 DEF LoopCheck, Wait, Count, ProcessSkip, ProcessData, ProcessDead, ProcessNull,
                      PrepareNull, ProcessAsserted, Return, UseFreed,
                      More, Running, InTick, Types
  <2>2. UNCHANGED <<node, creator, list, numslots>>
    BY <1>2 DEF LoopCheck, Wait, Count, ProcessSkip, ProcessData, ProcessDead, ProcessNull,
                PrepareNull, ProcessAsserted, Return, UseFreed,
                nodeVars, listVars, bridgeVars
  <2> QED BY <2>1, <2>2, OwnQuiet
\* A node that was found empty gives up and is left, every other one stays as it was.
<1>3. CASE Prepare(w) \/ Compact(w)
  <2>1. PICK m : /\ numslots' = [numslots EXCEPT ![node[w]] = m] /\ UNCHANGED <<node, creator, list>>
                 /\ pc[w] \in Running /\ \A v \in Workers : v # w => pc'[v] = pc[v]
                 /\ pc'[w] \in Running => m > 0
    <3>1. CASE Prepare(w)
      <4> DEFINE r == Register(Mine(w), numslots[node[w]])
                 m == IF r.n <= 0 THEN -1 ELSE r.n
      <4>1. /\ numslots' = [numslots EXCEPT ![node[w]] = m] /\ UNCHANGED <<node, creator, list>>
            /\ pc[w] = "prepare" /\ pc' = [pc EXCEPT ![w] = IF r.n <= 0 THEN "unlink" ELSE "wait"]
        BY <3>1 DEF Prepare, listVars, bridgeVars
      <4>2. node[w] \in Addrs
        BY <1>1, <4>1 DEF Types, PlaceInv
      <4> HIDE DEF r
      <4>3. m \in Int
        BY <1>1, <4>1, <4>2 DEF NodesAre
      <4>4. r.n <= 0 => pc'[w] = "unlink"
        BY <1>1, <4>1 DEF Types
      <4>5. ~(r.n <= 0) => m > 0
        BY <4>3
      <4> QED BY <1>1, <4>1, <4>4, <4>5 DEF Types, Running, InTick
    <3>2. CASE Compact(w)
      <4> DEFINE d == tick[w].wasDel
                 c == IF d < 0
                      THEN [n |-> numslots[node[w]], slots |-> slots[node[w]], index |-> [i \in 0..NoRv |-> i]]
                      ELSE Closed(slots[node[w]], numslots[node[w]], d)
                 m == IF c.n > 0 THEN c.n ELSE -1
      <4>1. /\ numslots' = [numslots EXCEPT ![node[w]] = m] /\ UNCHANGED <<node, creator, list>>
            /\ pc[w] = "process" /\ pc' = [pc EXCEPT ![w] = IF c.n > 0 THEN "ret" ELSE "unlink"]
        BY <3>2 DEF Compact, listVars, bridgeVars
      <4> HIDE DEF c
      <4>2. ~(c.n > 0) => pc'[w] = "unlink"
        BY <1>1, <4>1 DEF Types
      <4> QED BY <1>1, <4>1, <4>2 DEF Types, Running, InTick
    <3> QED BY <1>3, <3>1, <3>2
  <2>2. node[w] \in Addrs
    BY <2>1, <1>1 DEF Types, PlaceInv, Running, InTick
  <2>3. ASSUME NEW v \in Workers, pc'[v] \in Running
        PROVE  pc[v] \in Running /\ Live(node[v])' /\ numslots'[node[v]] >= 0
    <3>1. pc[v] \in Running /\ Live(node[v])'
      BY <2>1, <2>3 DEF OwnRuns, Live
    <3>2. CASE v = w
      <4>1. m > 0 /\ numslots'[node[w]] = m /\ m \in Int
        BY <2>1, <2>2, <2>3, <3>2, <1>1 DEF NodesAre
      <4> QED BY <3>1, <3>2, <4>1
    <3>3. CASE v # w
      <4>1. node[v] # node[w] /\ node[v] \in Addrs
        BY <3>1, <3>3, <2>1, OwnApart
      <4> QED BY <3>1, <4>1, <2>1, <1>1 DEF OwnRuns, NodesAre
    <3> QED BY <3>2, <3>3
  <2> QED BY <2>1, <2>3, OwnKept
<1>4. CASE Forward(w)
  <2>1. /\ pc[w] = "forward" /\ \A v \in Workers : v # w => pc'[v] = pc[v]
        /\ UNCHANGED <<node, creator, list>>
    BY <1>1, <1>4 DEF Forward, Types, listVars, bridgeVars
  <2>2. node[w] \in Addrs /\ pc[w] \in Running
    BY <2>1, <1>1 DEF Types, PlaceInv, Running, InTick
  <2>3. CASE UNCHANGED numslots
    BY <2>1, <2>2, <2>3, OwnQuiet
  <2>4. CASE /\ CanForward(w) /\ numslots[node[w]] - 1 >= 0
             /\ numslots' = [numslots EXCEPT ![NextNode(w)] = @ + 1,
                               ![node[w]] = IF numslots[node[w]] - 1 = 0 THEN -1 ELSE numslots[node[w]] - 1]
             /\ Goto(w, IF numslots[node[w]] - 1 = 0 THEN "unlink" ELSE "loop")
    <3> DEFINE left == numslots[node[w]] - 1
               b == NextNode(w)
    <3>1. left \in Int /\ numslots[b] >= 0 /\ left >= 0
      BY <2>2, <2>4, <1>1 DEF CanForward, CanAdd, NodesAre, SlotIds
    <3>2. \A a \in Addrs : numslots[a] >= 0 /\ a # node[w] => numslots'[a] >= 0
      <4> SUFFICES ASSUME NEW a \in Addrs, numslots[a] >= 0, a # node[w] PROVE numslots'[a] >= 0
        OBVIOUS
      <4> HIDE DEF b
      <4>1. numslots'[a] = IF a = b THEN numslots[a] + 1 ELSE numslots[a]
        <5> DEFINE m == IF left = 0 THEN -1 ELSE left
                   grown == [numslots EXCEPT ![b] = @ + 1]
        <5>1. numslots' = [grown EXCEPT ![node[w]] = m] /\ grown[a] = IF a = b THEN numslots[a] + 1 ELSE numslots[a]
          BY <2>4, <1>1 DEF NodesAre, b
        <5>2. DOMAIN grown = Addrs
          BY <1>1 DEF NodesAre
        <5> HIDE DEF grown, m
        <5> QED BY <5>1, <5>2
      <4>2. numslots[a] \in Int
        BY <1>1 DEF NodesAre
      <4> QED BY <4>1, <4>2
    <3>3. left # 0 => numslots'[node[w]] >= 0
      <4> HIDE DEF b
      <4>1. numslots'[node[w]] = IF left = 0 THEN -1 ELSE left
        BY <2>4, <2>2, <1>1 DEF NodesAre
      <4> QED BY <4>1, <3>1
    <3>4. left = 0 => pc'[w] = "unlink"
      BY <2>4, <1>1 DEF Types
    <3> HIDE DEF left, b
    <3>5. ASSUME NEW v \in Workers, pc'[v] \in Running
          PROVE  pc[v] \in Running /\ Live(node[v])' /\ numslots'[node[v]] >= 0
      <4>1. pc[v] \in Running /\ Live(node[v])'
        BY <2>1, <2>2, <3>5 DEF OwnRuns, Live
      <4>2. CASE v = w
        BY <4>1, <4>2, <3>3, <3>4, <3>5 DEF Running, InTick
      <4>3. CASE v # w
        <5>1. node[v] # node[w] /\ node[v] \in Addrs
          BY <4>1, <4>3, <2>2, OwnApart, NamesAssumption
        <5> QED BY <4>1, <5>1, <3>2 DEF OwnRuns
      <4> QED BY <4>2, <4>3
    <3> QED BY <2>1, <3>5, OwnKept
  <2> QED BY <1>4, <2>3, <2>4 DEF Forward, nodeVars
<1>5. CASE Unlink(w)
  <2>1. /\ pc[w] = "unlink" /\ pc'[w] = "done" /\ \A v \in Workers : v # w => pc'[v] = pc[v]
        /\ list' = IF Live(node[w]) THEN RemoveAt(list, IndexIn(node[w])) ELSE list
        /\ UNCHANGED <<node, creator, numslots>>
    BY <1>1, <1>5 DEF Unlink, Types, nodeVars, bridgeVars
  <2>2. node[w] \in Addrs
    BY <2>1, <1>1 DEF Types, PlaceInv
  <2>3. \A a \in Addrs : Live(a) /\ a # node[w] => a \in ToSet(list')
    <3>1. CASE Live(node[w])
      <4>1. IndexIn(node[w]) \in 1..Len(list) /\ list[IndexIn(node[w])] = node[w]
        BY <3>1, <2>2, <1>1, IndexIs DEF Types
      <4>2. \A x \in ToSet(list) : x # node[w] => x \in ToSet(RemoveAt(list, IndexIn(node[w])))
        BY <4>1, <1>1, RemovedIs DEF Types
      <4> QED BY <4>2, <2>1, <3>1 DEF Live
    <3>2. CASE ~Live(node[w])
      BY <3>2, <2>1 DEF Live
    <3> QED BY <3>1, <3>2
  <2>4. ASSUME NEW v \in Workers, pc'[v] \in Running
        PROVE  pc[v] \in Running /\ Live(node[v])' /\ numslots'[node[v]] >= 0
    <3>1. v # w /\ pc[v] \in Running
      BY <2>1, <2>4 DEF Running, InTick
    <3>2. Live(node[v]) /\ numslots[node[v]] >= 0
      BY <3>1 DEF OwnRuns
    <3>3. node[v] # node[w] /\ node[v] \in Addrs
      <4>1. node[v] # node[w]
        BY <1>5, <3>1, <3>2 DEF Unlink, RunByOther
      <4> QED BY <4>1, <3>2, <1>1 DEF Live, ToSet, Types
    <3>4. node[v] \in ToSet(list')
      BY <3>2, <3>3, <2>3
    <3> QED BY <3>1, <3>2, <3>4, <2>1 DEF Live
  <2> QED BY <2>1, <2>4, OwnKept
<1> QED BY <1>2, <1>3, <1>4, <1>5 DEF TickStep

\* The walk along the list deletes only nodes that have given up, and makes only new ones.
LEMMA BridgeOwn ==
  ASSUME Safe, OwnRuns, NEW w \in Workers, BridgeStep(w)
  PROVE  OwnRuns'
<1> USE DEF At, Goto
<1>1. Types /\ PlaceInv /\ NodesAre(slots, numslots)
  BY DEF Safe
<1>2. CASE BridgeLock(w) \/ BridgeTaken(w)
  <2>1. /\ pc'[w] \in {"walk", "done"} /\ \A v \in Workers : v # w => pc'[v] = pc[v]
        /\ UNCHANGED <<node, creator, list, numslots>>
    BY <1>1, <1>2 DEF BridgeLock, BridgeTaken, Types, nodeVars
  <2> QED BY <2>1, OwnQuiet DEF Running, InTick
<1>3. CASE WalkDelete(w)
  <2>1. /\ walk[w].pos \in 1..Len(list) /\ numslots[list[walk[w].pos]] < 0
        /\ list' = RemoveAt(list, walk[w].pos) /\ UNCHANGED <<node, creator, numslots, pc>>
    BY <1>1, <1>3 DEF WalkDelete, Types, PlaceInv, nodeVars
  <2>2. \A x \in ToSet(list) : x # list[walk[w].pos] => x \in ToSet(list')
    BY <2>1, <1>1, RemovedIs DEF Types
  <2>3. ASSUME NEW v \in Workers, pc'[v] \in Running
        PROVE  pc[v] \in Running /\ Live(node[v])' /\ numslots'[node[v]] >= 0
    <3>1. pc[v] \in Running /\ Live(node[v]) /\ numslots[node[v]] >= 0
      BY <2>1, <2>3 DEF OwnRuns
    <3>2. node[v] \in Addrs
      BY <3>1, <1>1 DEF Live, ToSet, Types
    <3>3. node[v] # list[walk[w].pos]
      BY <3>1, <3>2, <2>1, <1>1 DEF NodesAre
    <3> QED BY <3>1, <3>3, <2>1, <2>2 DEF Live
  <2> QED BY <2>1, <2>3, OwnKept
<1>4. CASE WalkTry(w) \/ BridgeAddOwn(w)
  <2>1. /\ \E a : numslots' \in {numslots, [numslots EXCEPT ![a] = @ + 1]}
        /\ pc' = pc \/ (pc' = [pc EXCEPT ![w] = "loop"] /\ pc[w] = "add")
        /\ UNCHANGED <<node, creator, list>>
    <3>1. CASE WalkTry(w)
      <4>1. numslots' \in {numslots, [numslots EXCEPT ![list[walk[w].pos]] = @ + 1]}
        BY <3>1 DEF WalkTry
      <4>2. pc' = pc /\ UNCHANGED <<node, creator, list>>
        BY <3>1 DEF WalkTry, listVars
      <4> QED BY <4>1, <4>2
    <3>2. CASE BridgeAddOwn(w)
      <4>1. numslots' \in {numslots, [numslots EXCEPT ![node[w]] = @ + 1]}
        BY <3>2 DEF BridgeAddOwn
      <4>2. pc' = [pc EXCEPT ![w] = "loop"] /\ pc[w] = "add" /\ UNCHANGED <<node, creator, list>>
        BY <3>2 DEF BridgeAddOwn, listVars, bridgeVars
      <4> QED BY <4>1, <4>2
    <3> QED BY <1>4, <3>1, <3>2
  <2>2. \A v \in Workers : pc'[v] \in Running => pc[v] \in Running
    BY <2>1, <1>1 DEF Types, Running
  <2>3. \A b \in Addrs : numslots[b] >= 0 => numslots'[b] >= 0
    BY <2>1, <1>1 DEF NodesAre
  <2>4. ASSUME NEW v \in Workers, pc'[v] \in Running
        PROVE  pc[v] \in Running /\ Live(node[v])' /\ numslots'[node[v]] >= 0
    <3>1. pc[v] \in Running /\ Live(node[v]) /\ numslots[node[v]] >= 0
      BY <2>2, <2>4 DEF OwnRuns
    <3>2. node[v] \in Addrs
      BY <3>1, <1>1 DEF Live, ToSet, Types
    <3> QED BY <3>1, <3>2, <2>1, <2>3 DEF Live
  <2> QED BY <2>1, <2>4, OwnKept
<1>5. CASE BridgeNew(w)
  <2>1. PICK a \in Addrs :
          /\ ~Live(a) /\ list' = Append(list, a)
          /\ numslots' = [numslots EXCEPT ![a] = 0]
          /\ creator' = [creator EXCEPT ![a] = w] /\ node' = [node EXCEPT ![w] = a]
    BY <1>5 DEF BridgeNew
  <2>2. /\ node'[w] = a /\ creator'[a] = w /\ numslots'[a] = 0
        /\ \A v \in Workers : v # w => node'[v] = node[v] /\ pc'[v] = pc[v]
        /\ \A b \in Addrs : b # a => creator'[b] = creator[b] /\ numslots'[b] = numslots[b]
    BY <2>1, <1>5, <1>1 DEF BridgeNew, Types, NodesAre
  <2>3. ToSet(list') = ToSet(list) \cup {a}
    BY <2>1, <1>1, AppendedIs DEF Types
  <2>4. ASSUME NEW v \in Workers, pc'[v] \in Running
        PROVE  Live(node[v])' /\ creator'[node'[v]] = v /\ numslots'[node'[v]] >= 0
    <3>1. CASE v = w
      BY <3>1, <2>2, <2>3 DEF Live
    <3>2. CASE v # w
      <4>1. Live(node[v]) /\ creator[node[v]] = v /\ numslots[node[v]] >= 0 /\ node'[v] = node[v]
        BY <3>2, <2>2, <2>4 DEF OwnRuns
      <4>2. node[v] \in Addrs /\ node[v] # a
        BY <4>1, <2>1, <1>1 DEF Live, ToSet, Types
      <4> QED BY <4>1, <4>2, <2>2, <2>3 DEF Live
    <3> QED BY <3>1, <3>2
  <2> QED BY <2>4 DEF OwnRuns
<1> QED BY <1>2, <1>3, <1>4, <1>5 DEF BridgeStep, WalkStep

LEMMA NextOwn == Safe /\ OwnInv /\ [Next]_vars => OwnInv'
<1> SUFFICES ASSUME Safe, OwnInv, [Next]_vars, "unlinked" \notin faults' PROVE OwnRuns'
  BY Zenon DEF OwnInv
<1>0. OwnRuns
  BY FaultsStay DEF OwnInv
<1>1. ASSUME NEW w \in Workers, BridgeStep(w) PROVE OwnRuns'
  BY <1>0, <1>1, BridgeOwn
<1>2. ASSUME NEW w \in Workers, TickStep(w) PROVE OwnRuns'
  BY <1>0, <1>2, TickOwn, NextSafe
<1>3. CASE CloseNode
  <2>1. /\ numslots' = [numslots EXCEPT ![list[stopPc.pos]] = 0]
        /\ UNCHANGED <<node, creator, list, pc>>
    BY <1>3 DEF CloseNode, listVars, bridgeVars
  <2>2. \A a \in Addrs : numslots[a] >= 0 => numslots'[a] >= 0
    BY <2>1 DEF Safe, NodesAre
  <2>3. ASSUME NEW v \in Workers, pc'[v] \in Running
        PROVE  pc[v] \in Running /\ Live(node[v])' /\ numslots'[node[v]] >= 0
    <3>1. pc[v] \in Running /\ Live(node[v]) /\ numslots[node[v]] >= 0
      BY <2>1, <2>3, <1>0 DEF OwnRuns
    <3>2. node[v] \in Addrs
      BY <3>1 DEF Live, ToSet, Safe, Types
    <3> QED BY <3>1, <3>2, <2>1, <2>2 DEF Live
  <2> QED BY <2>1, <2>3, <1>0, OwnKept
<1>4. CASE EngineExit \/ StopBegin \/ StopUnlock \/ StopReturn \/ UNCHANGED vars
  <2>1. UNCHANGED <<node, creator, list, numslots, pc>>
    BY <1>4 DEF EngineExit, StopBegin, StopUnlock, StopReturn, vars, nodeVars, listVars, bridgeVars
  <2> QED BY <2>1, <1>0, OwnQuiet
<1> QED BY <1>1, <1>2, <1>3, <1>4 DEF Next, StopStep, Finished

\* The processing_thread that a worker runs is alive and its own, for as long as no worker has
\* unlinked a node that another one runs: the walk deletes only nodes that have given up, and
\* an address comes back only when nobody runs the node that had it.  That one fault, which the
\* run bridge_addr_reuse reaches, is the only way to lose it (handlers.cpp:107).
THEOREM OwnNodeAliveHolds == Spec => []("unlinked" \notin faults => OwnNodeAlive)
<1>1. Init => OwnInv
  BY DEF Init, OwnInv, OwnRuns, Running, InTick
<1>2. Safe /\ OwnInv /\ [Next]_vars => OwnInv'
  BY NextOwn, Zenon
<1>3. OwnInv => ("unlinked" \notin faults => OwnNodeAlive)
  BY DEF OwnInv, OwnRuns, OwnNodeAlive
<1> QED BY <1>1, <1>2, <1>3, AlwaysSafe, PTL DEF Spec

-----------------------------------------------------------------------------
(* stop().                                                                 *)

StopInv == /\ stopPc.at # "idle" => needStop
           /\ StopQuiesces

\* When stop() returns the list is empty, so no thread runs a node unless it lost its own to
\* another's unlinking; one that comes later sees need_stop before its first tick.
THEOREM StopQuiescesHolds == Spec => []StopQuiesces
<1>1. Init => OwnInv /\ StopInv
  BY DEF Init, OwnInv, OwnRuns, Running, InTick, StopInv, StopQuiesces
<1>2. Safe /\ OwnInv /\ [Next]_vars => OwnInv'
  BY NextOwn, Zenon
<1>3. Safe /\ OwnInv /\ StopInv /\ [Next]_vars => StopInv'
  <2> SUFFICES ASSUME Safe, OwnInv, StopInv, [Next]_vars PROVE StopInv'
    OBVIOUS
  <2>0. faults \subseteq faults'
    BY FaultsStay
  <2>1. ASSUME NEW w \in Workers, BridgeStep(w) \/ TickStep(w) PROVE StopInv'
    <3>1. /\ UNCHANGED stopVars /\ \A v \in Workers : v # w => pc'[v] = pc[v]
          /\ pc'[w] \in InTick \cup {"prepare"} => pc[w] \in InTick \cup {"prepare"} \/ ~needStop
      <4>1. CASE BridgeStep(w)
        BY <4>1 DEF BridgeStep, WalkStep, BridgeLock, WalkDelete, WalkTry, BridgeTaken, BridgeNew, BridgeAddOwn,
                    WalkOver, At, Goto, InTick, Safe, Types
      <4>2. CASE LoopCheck(w) \/ Prepare(w) \/ Wait(w) \/ Count(w) \/ ProcessSkip(w) \/ ProcessData(w)
        BY <4>2 DEF LoopCheck, Prepare, Wait, Count, ProcessSkip, ProcessData, More, At, Goto, InTick, Safe, Types
      <4>3. CASE ProcessDead(w) \/ ProcessNull(w) \/ ProcessAsserted(w) \/ Compact(w) \/ Return(w)
                 \/ Forward(w) \/ Unlink(w) \/ PrepareNull(w) \/ UseFreed(w)
        BY <4>3 DEF PrepareNull, UseFreed, ProcessDead, ProcessNull, ProcessAsserted, Compact,
                        Return, Forward, Unlink, More, At, Goto, InTick, Safe, Types
      <4> QED BY <2>1, <4>1, <4>2, <4>3 DEF TickStep
    <3> QED BY <2>0, <3>1 DEF StopInv, StopQuiesces, stopVars
  <2>2. CASE StopReturn
    <3>1. "unlinked" \notin faults => \A v \in Workers : pc[v] \notin Running
      BY <2>2 DEF StopReturn, OwnInv, OwnRuns, Live, ToSet
    <3>2. stopPc.at # "idle" /\ UNCHANGED <<pc, needStop, faults>>
      BY <2>2 DEF StopReturn, StopAt, fate
    <3> QED BY <3>1, <3>2 DEF StopInv, StopQuiesces, Running
  <2>3. CASE StopBegin \/ CloseNode \/ StopUnlock
    <3>1. stopPc'.at \in {"closing", "waiting"}
      <4>1. CASE StopBegin \/ StopUnlock
        BY <4>1 DEF StopBegin, StopUnlock
      <4>2. CASE CloseNode
        <5>1. stopPc' = [stopPc EXCEPT !.pos = @ + 1] /\ stopPc.at = "closing"
          BY <4>2 DEF CloseNode, StopAt
        <5> QED BY <5>1 DEF Safe, Types
      <4> QED BY <2>3, <4>1, <4>2
    <3>2. needStop'
      BY <2>3 DEF StopBegin, CloseNode, StopUnlock, StopAt, StopInv
    <3> QED BY <3>1, <3>2 DEF StopInv, StopQuiesces
  <2>4. CASE EngineExit \/ UNCHANGED vars
    BY <2>4 DEF EngineExit, vars, fate, StopInv, StopQuiesces
  <2> QED BY <2>1, <2>2, <2>3, <2>4 DEF Next, StopStep, Finished
<1>4. StopInv => StopQuiesces
  BY DEF StopInv
<1> QED BY <1>1, <1>2, <1>3, <1>4, AlwaysSafe, PTL DEF Spec

=============================================================================
