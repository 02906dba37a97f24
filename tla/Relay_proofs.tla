---------------------------- MODULE Relay_proofs ----------------------------
(***************************************************************************)
(* Proofs about Relay, for any sizes of the buffers and of the kernel's    *)
(* queues, any choice of the sockets that block and of the peers that end  *)
(* or reset their connections: the safety invariants, and that a bridged   *)
(* pair is two ordered streams (Channel).                                  *)
(***************************************************************************)
EXTENDS Relay, Buffers_proofs

\* rcvbuf is a ring per pipe; process's buffer holds bytes exactly while ::send blocks.
RingInv == rcvbuf \in [Pipes -> Rings(RcvCap)] /\ \A p \in Pipes : IsRing(rcvbuf[p], RcvCap)
HoldInv ==
  IF at = "send" THEN hold.data # <<>> /\ hold.to \in Blocking /\ outbuf[hold.to] = <<>>
  ELSE hold = NoHold

Types == TypeOK /\ RingInv

\* The inductive invariant of the buffers and the waitables.
Safe == Types /\ HoldInv /\ FullMeansUnsent /\ ReadyHasData

\* The bytes under way continue those that have arrived; while the pair is open they are all
\* that was sent.
StreamInv ==
  \A p \in Pipes :
    /\ \A k \in 1..Len(UnderWay(p)) : UnderWay(p)[k] = arrived[Other(p)] + k
    /\ at # "dead" => arrived[Other(p)] + Len(UnderWay(p)) = sent[p]

-----------------------------------------------------------------------------
(* recv.                                                                   *)

LEMMA OtherIs == \A p \in Pipes : Other(p) \in Pipes /\ Other(Other(p)) = p /\ Other(p) # p
BY DEF Pipes, Other

LEMMA TypesOf ==
  ASSUME Types, NEW p \in Pipes
  PROVE  /\ kin[p] \in Seq(Nat) /\ kout[p] \in Seq(Nat) /\ outbuf[p] \in Seq(Nat)
         /\ IsRing(rcvbuf[p], RcvCap) /\ RcvCap \in Nat \ {0}
         /\ Held(p) \in Seq(Nat) /\ Handed(p) \in Nat
         /\ sent[p] \in Nat /\ arrived[p] \in Nat
         /\ hold.to \in Pipes /\ hold.data \in Seq(Nat)
<1>1. RcvCap \in Nat \ {0}
  BY CapsAssumption
<1>2. IsRing(rcvbuf[p], RcvCap)
  BY DEF Types, RingInv
<1>3. Held(p) \in Seq(Nat)
  BY <1>1, <1>2, ContentsOf DEF Held
<1>4. Handed(p) \in Nat
  BY <1>1 DEF Handed
<1> QED BY <1>1, <1>2, <1>3, <1>4 DEF Types, TypeOK

LEMMA TakenIs ==
  ASSUME Types, NEW p \in Pipes
  PROVE  /\ Taken(p) \in 0..Len(kin[p])
         /\ Taken(p) <= FreeSize(rcvbuf[p], RcvCap)
<1>1. Room(p) \in Nat
  BY TypesOf, FreeIs DEF Room
<1>2. Len(kin[p]) \in Nat
  BY TypesOf
<1>3. Smaller(Len(kin[p]), Room(p)) \in 0..Len(kin[p]) /\ Smaller(Len(kin[p]), Room(p)) <= Room(p)
  BY <1>1, <1>2 DEF Smaller
<1> QED BY <1>1, <1>2, <1>3 DEF Taken, Room

\* A pipe's next rcvbuf, and what stays in it.
Left(p) == Peeked(Filled(p), RcvCap, Handed(p))

\* recv loses nothing: what it hands over, what it leaves in rcvbuf and what it leaves to the
\* kernel are what rcvbuf and the kernel held.
LEMMA RecvKeeps ==
  ASSUME Types, NEW p \in Pipes
  PROVE  /\ IsRing(Left(p), RcvCap)
         /\ Received(p, Filled(p)) \in Seq(Nat)
         /\ RingContents(Left(p), RcvCap) \in Seq(Nat)
         /\ SubSeq(kin[p], Taken(p) + 1, Len(kin[p])) \in Seq(Nat)
         /\ Len(SubSeq(kin[p], Taken(p) + 1, Len(kin[p]))) = Len(kin[p]) - Taken(p)
         /\ Received(p, Filled(p)) \o (RingContents(Left(p), RcvCap)
              \o SubSeq(kin[p], Taken(p) + 1, Len(kin[p]))) = Held(p) \o kin[p]
<1> DEFINE k == kin[p]
           n == Taken(p)
           d == SubSeq(k, 1, n)
           rest == SubSeq(k, n + 1, Len(k))
           ring == Filled(p)
           all == RingContents(ring, RcvCap)
           m == DataSize(ring, RcvCap)
           out == Smaller(Handed(p), m)
           got == Received(p, ring)
           stay == RingContents(Left(p), RcvCap)
           old == Held(p)
<1>1. IsRing(rcvbuf[p], RcvCap) /\ RcvCap \in Nat \ {0} /\ Handed(p) \in Nat
  BY TypesOf
<1>2. k \in Seq(Nat) /\ Len(k) \in Nat /\ old \in Seq(Nat)
  BY TypesOf
<1>3. n \in 0..Len(k) /\ n <= FreeSize(rcvbuf[p], RcvCap)
  BY TakenIs
<1>4. /\ d \in Seq(Nat) /\ rest \in Seq(Nat) /\ Len(d) = n /\ Len(rest) = Len(k) - n
      /\ d \o rest = k
  <2> HIDE DEF n, k
  <2>1. n \in 0..Len(k)
    BY <1>3
  <2> QED BY <1>2, <2>1, ConcatParts, FrontOf
<1>5. IsAppended(ring, rcvbuf[p], RcvCap, d)
  <2>1. Len(d) <= FreeSize(rcvbuf[p], RcvCap)
    BY <1>3, <1>4
  <2>2. ring = Fill(rcvbuf[p], RcvCap, d)
    BY DEF Filled
  <2> HIDE DEF d, ring
  <2> QED BY <1>1, <1>4, <2>1, <2>2, FillAppends
<1>6. IsRing(ring, RcvCap) /\ all = old \o d
  BY <1>5 DEF IsAppended, Held
<1>7. /\ all \in Seq(Nat) /\ Len(all) = m /\ m \in Nat
  <2> HIDE DEF ring
  <2>1. m \in 0..RcvCap
    BY <1>1, <1>6, RingIs
  <2>2. all \in Seq(Nat) /\ Len(all) = m
    BY <1>1, <1>6, ContentsOf
  <2> HIDE DEF m
  <2> QED BY <1>1, <2>1, <2>2
<1>8. out \in 0..m
  <2> HIDE DEF ring, m
  <2> QED BY <1>1, <1>7 DEF Smaller
<1>9. IsTakenFrom(Left(p), ring, RcvCap, out)
  <2>1. Left(p) = Peeked(ring, RcvCap, Handed(p))
    BY DEF Left
  <2> HIDE DEF ring
  <2> QED BY <1>1, <1>6, <2>1, PeekTakesFirst
<1>10. IsRing(Left(p), RcvCap) /\ stay = SubSeq(all, out + 1, m)
  BY <1>9 DEF IsTakenFrom
<1>11. got = SubSeq(all, 1, out)
  BY DEF Received
<1> HIDE DEF n, d, rest, ring, all, m, out, got, stay, old, k
<1>12. /\ got \in Seq(Nat) /\ stay \in Seq(Nat) /\ got \o stay = all
  BY <1>7, <1>8, <1>10, <1>11, ConcatParts
<1>13. got \o (stay \o rest) = old \o k
  <2>1. got \o (stay \o rest) = (got \o stay) \o rest
    BY <1>4, <1>12, ConcatTwice
  <2>2. (old \o d) \o rest = old \o (d \o rest)
    BY <1>2, <1>4, ConcatTwice
  <2> QED BY <1>4, <1>6, <1>12, <2>1, <2>2
<1> QED BY <1>4, <1>10, <1>12, <1>13 DEF n, d, rest, ring, all, m, out, got, stay, old, k

-----------------------------------------------------------------------------
(* send.                                                                   *)

LEMMA AcceptedIs ==
  ASSUME Types, NEW p \in Pipes, NEW len \in Nat, NEW n \in Accepted(p, len)
  PROVE  n \in 0..len /\ Len(kout[p]) + n <= KoutCap
<1>1. KoutCap \in Nat /\ Len(kout[p]) \in Nat /\ Len(kout[p]) <= KoutCap
  BY TypesOf, CapsAssumption DEF Types, TypeOK
<1> QED BY <1>1 DEF Accepted, Space, Smaller

\* send neither loses nor reorders: what the kernel has taken and what is unsent are what they
\* were with the new bytes behind, and bufferfull tells whether bytes are unsent.
LEMMA SentKeeps ==
  ASSUME Types, NEW p \in Pipes, NEW data \in Seq(Nat),
         NEW n \in Accepted(p, Len(Offered(p, data))), Sent(p, data, n)
  PROVE  /\ kout' \in [Pipes -> Seq(Nat)] /\ outbuf' \in [Pipes -> Seq(Nat)]
         /\ Len(kout'[p]) <= KoutCap
         /\ kout'[p] \o outbuf'[p] = kout[p] \o (outbuf[p] \o data)
         /\ \A q \in Pipes \ {p} : kout'[q] = kout[q] /\ outbuf'[q] = outbuf[q]
         /\ full' \subseteq full \cup {p}
         /\ full = {q \in Pipes : outbuf[q] # <<>>} => full' = {q \in Pipes : outbuf'[q] # <<>>}
         /\ Len(Offered(p, data)) = 0 => outbuf'[p] = <<>>
<1> DEFINE all == Offered(p, data)
           front == SubSeq(all, 1, n)
           rest == SubSeq(all, n + 1, Len(all))
<1>1. /\ kout \in [Pipes -> Seq(Nat)] /\ outbuf \in [Pipes -> Seq(Nat)]
      /\ kout[p] \in Seq(Nat) /\ outbuf[p] \in Seq(Nat)
  BY DEF Types, TypeOK
<1>2. all = outbuf[p] \o data /\ all \in Seq(Nat) /\ Len(all) \in Nat
  BY <1>1 DEF Offered
<1>3. n \in 0..Len(all) /\ Len(kout[p]) + n <= KoutCap
  BY <1>2, AcceptedIs
<1>4. /\ kout' = [kout EXCEPT ![p] = @ \o front]
      /\ outbuf' = [outbuf EXCEPT ![p] = rest]
      /\ full' = CASE outbuf[p] # <<>> /\ rest = <<>> -> full \ {p}
                   [] outbuf[p] = <<>> /\ rest # <<>> -> full \cup {p}
                   [] OTHER -> full
  BY DEF Sent
<1> HIDE DEF all
<1>5. front \in Seq(Nat) /\ rest \in Seq(Nat) /\ Len(front) = n /\ Len(rest) = Len(all) - n /\ front \o rest = all
  BY <1>2, <1>3, ConcatParts, FrontOf
<1> HIDE DEF front, rest
<1>6. kout'[p] = kout[p] \o front /\ outbuf'[p] = rest
  BY <1>1, <1>4
<1>7. kout[p] \o front \in Seq(Nat) /\ Len(kout[p] \o front) = Len(kout[p]) + n
  <2>1. kout[p] \o front \in Seq(Nat) /\ Len(kout[p] \o front) = Len(kout[p]) + Len(front)
    <3>1. kout[p] \in Seq(Nat) /\ front \in Seq(Nat)
      BY <1>1, <1>5
    <3> QED BY <3>1, ConcatOf
  <2> QED BY <1>5, <2>1
<1>8. kout'[p] \o outbuf'[p] = kout[p] \o (outbuf[p] \o data)
  <2>1. (kout[p] \o front) \o rest = kout[p] \o (front \o rest)
    <3>1. kout[p] \in Seq(Nat) /\ front \in Seq(Nat) /\ rest \in Seq(Nat)
      BY <1>1, <1>5
    <3> QED BY <3>1, ConcatTwice
  <2> QED BY <1>2, <1>5, <1>6, <2>1
<1>9. kout' \in [Pipes -> Seq(Nat)] /\ outbuf' \in [Pipes -> Seq(Nat)] /\ Len(kout'[p]) <= KoutCap
  BY <1>1, <1>3, <1>4, <1>5, <1>6, <1>7
<1>10. \A q \in Pipes \ {p} : kout'[q] = kout[q] /\ outbuf'[q] = outbuf[q]
  BY <1>1, <1>4
<1>11. full' \subseteq full \cup {p}
  BY <1>4
<1>12. full = {q \in Pipes : outbuf[q] # <<>>} => full' = {q \in Pipes : outbuf'[q] # <<>>}
  BY <1>4, <1>6, <1>10
<1>13. Len(all) = 0 => rest = <<>>
  BY <1>2, <1>3, <1>5
<1> QED BY <1>6, <1>8, <1>9, <1>10, <1>11, <1>12, <1>13 DEF all

-----------------------------------------------------------------------------
(* The bytes under way lie in five places, the oldest in the first.        *)

\* Concatenation, without what it does to the elements.
Joined(s, t) == s \o t

LEMMA JoinedIs ==
  ASSUME NEW s \in Seq(Nat), NEW t \in Seq(Nat)
  PROVE  Joined(s, t) \in Seq(Nat)
BY ConcatOf DEF Joined

LEMMA JoinedEmpty ==
  /\ <<>> \in Seq(Nat)
  /\ \A s \in Seq(Nat) : Joined(s, <<>>) = s /\ Joined(<<>>, s) = s
BY DEF Joined

LEMMA JoinedTwice ==
  ASSUME NEW s \in Seq(Nat), NEW t \in Seq(Nat), NEW u \in Seq(Nat)
  PROVE  Joined(Joined(s, t), u) = Joined(s, Joined(t, u))
BY ConcatTwice DEF Joined

Chain(a, b, c, d, e) == Joined(Joined(Joined(Joined(a, b), c), d), e)
Behind(b, c, d, e) == Joined(b, Joined(c, Joined(d, e)))

LEMMA ChainSplits ==
  ASSUME NEW a \in Seq(Nat), NEW b \in Seq(Nat), NEW c \in Seq(Nat),
         NEW d \in Seq(Nat), NEW e \in Seq(Nat)
  PROVE  /\ Behind(b, c, d, e) \in Seq(Nat)
         /\ Chain(a, b, c, d, e) = Joined(a, Behind(b, c, d, e))
         /\ Chain(a, b, c, d, e) \in Seq(Nat)
<1>1. /\ Joined(a, b) \in Seq(Nat) /\ Joined(d, e) \in Seq(Nat)
      /\ Joined(Joined(a, b), c) \in Seq(Nat) /\ Joined(c, Joined(d, e)) \in Seq(Nat)
      /\ Behind(b, c, d, e) \in Seq(Nat)
  BY JoinedIs DEF Behind
<1>2. Joined(Joined(Joined(Joined(a, b), c), d), e) = Joined(Joined(Joined(a, b), c), Joined(d, e))
  BY <1>1, JoinedTwice
<1>3. Joined(Joined(Joined(a, b), c), Joined(d, e)) = Joined(Joined(a, b), Joined(c, Joined(d, e)))
  BY <1>1, JoinedTwice
<1>4. Joined(Joined(a, b), Joined(c, Joined(d, e))) = Joined(a, Behind(b, c, d, e))
  BY <1>1, JoinedTwice DEF Behind
<1> QED BY <1>1, <1>2, <1>3, <1>4, JoinedIs DEF Chain

\* An empty place drops out of the chain.
IsNone(z) == z = <<>>

LEMMA ChainSkips ==
  ASSUME NEW a \in Seq(Nat), NEW c \in Seq(Nat), NEW d \in Seq(Nat), NEW e \in Seq(Nat),
         NEW z, IsNone(z)
  PROVE  /\ Chain(a, z, c, d, e) = Joined(a, Joined(c, Joined(d, e)))
         /\ Chain(a, c, z, d, e) = Joined(a, Joined(c, Joined(d, e)))
<1>1. z \in Seq(Nat) /\ \A s \in Seq(Nat) : Joined(s, z) = s /\ Joined(z, s) = s
  BY JoinedEmpty DEF IsNone
<1>2. Joined(d, e) \in Seq(Nat) /\ Joined(c, Joined(d, e)) \in Seq(Nat)
  BY JoinedIs
<1>3. Behind(z, c, d, e) = Joined(c, Joined(d, e)) /\ Behind(c, z, d, e) = Joined(c, Joined(d, e))
  BY <1>1, <1>2 DEF Behind
<1> QED BY <1>1, <1>3, ChainSplits

\* got is taken from the places d and e, and goes behind a and c.
IsDrawn(got, d, e, d2, e2) ==
  /\ {got, d, e, d2, e2} \subseteq Seq(Nat)
  /\ Joined(got, Joined(d2, e2)) = Joined(d, e)
IsPassed(got, a, c, a2, c2) ==
  /\ {got, a, c, a2, c2} \subseteq Seq(Nat)
  /\ Joined(a2, c2) = Joined(a, Joined(c, got))

\* recv and send move bytes along the chain.
LEMMA ChainSends ==
  ASSUME NEW got, NEW a, NEW c, NEW d, NEW e, NEW a2, NEW c2, NEW d2, NEW e2, NEW z, IsNone(z),
         IsDrawn(got, d, e, d2, e2), IsPassed(got, a, c, a2, c2)
  PROVE  Chain(a2, z, c2, d2, e2) = Chain(a, z, c, d, e)
<1> DEFINE u == Joined(d2, e2)
<1>1. /\ got \in Seq(Nat) /\ a \in Seq(Nat) /\ c \in Seq(Nat) /\ d \in Seq(Nat) /\ e \in Seq(Nat)
      /\ a2 \in Seq(Nat) /\ c2 \in Seq(Nat) /\ d2 \in Seq(Nat) /\ e2 \in Seq(Nat)
      /\ Joined(a2, c2) = Joined(a, Joined(c, got)) /\ Joined(got, u) = Joined(d, e)
  BY DEF IsDrawn, IsPassed
<1>2. u \in Seq(Nat) /\ Joined(c, got) \in Seq(Nat)
  BY <1>1, JoinedIs
<1>3. Chain(a2, z, c2, d2, e2) = Joined(a2, Joined(c2, u))
  BY <1>1, ChainSkips
<1>4. Chain(a, z, c, d, e) = Joined(a, Joined(c, Joined(got, u)))
  BY <1>1, ChainSkips
<1> HIDE DEF u
<1>5. Joined(Joined(a, Joined(c, got)), u) = Joined(a, Joined(Joined(c, got), u))
  BY <1>1, <1>2, JoinedTwice
<1>6. Joined(Joined(c, got), u) = Joined(c, Joined(got, u))
  BY <1>1, <1>2, JoinedTwice
<1>7. Joined(Joined(a2, c2), u) = Joined(a2, Joined(c2, u))
  BY <1>1, <1>2, JoinedTwice
<1> QED BY <1>1, <1>3, <1>4, <1>5, <1>6, <1>7

\* What recv takes waits in process's buffer, nothing being in front of it.
LEMMA ChainBlocks ==
  ASSUME NEW got, NEW a \in Seq(Nat), NEW d, NEW e, NEW d2, NEW e2, NEW z, IsNone(z),
         IsDrawn(got, d, e, d2, e2)
  PROVE  Chain(a, got, z, d2, e2) = Chain(a, z, z, d, e)
<1>1. /\ got \in Seq(Nat) /\ d \in Seq(Nat) /\ e \in Seq(Nat) /\ d2 \in Seq(Nat) /\ e2 \in Seq(Nat)
      /\ Joined(got, Joined(d2, e2)) = Joined(d, e)
  BY DEF IsDrawn
<1>2. z \in Seq(Nat) /\ Joined(d, e) \in Seq(Nat) /\ \A s \in Seq(Nat) : Joined(z, s) = s
  BY <1>1, JoinedIs, JoinedEmpty DEF IsNone
<1>3. Chain(a, got, z, d2, e2) = Joined(a, Joined(got, Joined(d2, e2)))
  BY <1>1, ChainSkips
<1>4. Chain(a, z, z, d, e) = Joined(a, Joined(z, Joined(d, e)))
  BY <1>1, <1>2, ChainSkips
<1> QED BY <1>1, <1>2, <1>3, <1>4

\* A peer's read takes the oldest byte.
LEMMA JoinedReads ==
  ASSUME NEW a \in Seq(Nat), NEW r \in Seq(Nat), a # <<>>
  PROVE  /\ Joined(a, r) # <<>>
         /\ Joined(Tail(a), r) = SubSeq(Joined(a, r), 2, Len(Joined(a, r)))
<1> DEFINE t == Tail(a)
           x == a \o r
           y == SubSeq(x, 2, Len(x))
<1>1. /\ t \in Seq(Nat) /\ Len(a) \in Nat \ {0} /\ Len(t) = Len(a) - 1
      /\ \A k \in 1..Len(a) - 1 : t[k] = a[k + 1]
  OBVIOUS
<1> HIDE DEF t
<1>2. /\ x \in Seq(Nat) /\ Len(x) = Len(a) + Len(r) /\ Len(r) \in Nat
      /\ \A k \in 1..Len(a) + Len(r) : x[k] = IF k <= Len(a) THEN a[k] ELSE r[k - Len(a)]
  BY ConcatOf
<1>3. /\ t \o r \in Seq(Nat) /\ Len(t \o r) = Len(t) + Len(r)
      /\ \A k \in 1..Len(t) + Len(r) : (t \o r)[k] = IF k <= Len(t) THEN t[k] ELSE r[k - Len(t)]
  BY <1>1, ConcatOf
<1> HIDE DEF x
<1>4. y \in Seq(Nat) /\ Len(y) = Len(x) - 1 /\ \A k \in 1..Len(x) - 1 : y[k] = x[1 + k]
  <2>1. 1 \in 0..Len(x) /\ Len(x) \in 1..Len(x)
    BY <1>1, <1>2
  <2>2. /\ SubSeq(x, 1 + 1, Len(x)) \in Seq(Nat) /\ Len(SubSeq(x, 1 + 1, Len(x))) = Len(x) - 1
        /\ \A k \in 1..Len(x) - 1 : SubSeq(x, 1 + 1, Len(x))[k] = x[1 + k]
    BY <1>2, <2>1, PartOf
  <2>3. y = SubSeq(x, 1 + 1, Len(x))
    OBVIOUS
  <2> QED BY <2>2, <2>3
<1> HIDE DEF y
<1>5. ASSUME NEW k \in 1..Len(t) + Len(r)
      PROVE  (t \o r)[k] = y[k]
  <2>1. k \in 1..Len(x) - 1 /\ 1 + k \in 1..Len(a) + Len(r)
    BY <1>1, <1>2
  <2>2. y[k] = x[1 + k]
    BY <1>4, <2>1
  <2>3. (t \o r)[k] = IF k <= Len(t) THEN t[k] ELSE r[k - Len(t)]
    BY <1>3
  <2> HIDE DEF x
  <2>4. x[1 + k] = IF 1 + k <= Len(a) THEN a[1 + k] ELSE r[1 + k - Len(a)]
    <3>1. PICK j \in 1..Len(a) + Len(r) : j = 1 + k
      BY <2>1
    <3>2. x[j] = IF j <= Len(a) THEN a[j] ELSE r[j - Len(a)]
      BY <1>2
    <3> QED BY <3>1, <3>2
  <2>5. CASE k <= Len(t)
    <3>1. k \in 1..Len(a) - 1 /\ 1 + k <= Len(a) /\ k + 1 = 1 + k
      BY <1>1, <2>5
    <3> QED BY <1>1, <2>2, <2>3, <2>5, <2>4, <3>1
  <2>6. CASE ~(k <= Len(t))
    <3>1. ~(1 + k <= Len(a)) /\ 1 + k - Len(a) = k - Len(t)
      BY <1>1, <2>6
    <3> QED BY <2>2, <2>3, <2>6, <2>4, <3>1
  <2> QED BY <2>5, <2>6
<1>6. Len(t \o r) = Len(y)
  BY <1>1, <1>2, <1>3, <1>4
<1>7. t \o r = y
  BY <1>3, <1>4, <1>5, <1>6, SameSeq
<1>8. x # <<>>
  BY <1>1, <1>2
<1> QED BY <1>7, <1>8 DEF t, x, y, Joined

\* When the slot dies the peers can still read what the kernel has taken.
LEMMA JoinedCut ==
  ASSUME NEW a \in Seq(Nat), NEW r \in Seq(Nat)
  PROVE  Len(a) \in 0..Len(Joined(a, r)) /\ a = SubSeq(Joined(a, r), 1, Len(a))
<1> DEFINE x == a \o r
           y == SubSeq(x, 1, Len(a))
<1>1. /\ x \in Seq(Nat) /\ Len(x) = Len(a) + Len(r) /\ Len(r) \in Nat /\ Len(a) \in Nat
      /\ \A k \in 1..Len(a) + Len(r) : x[k] = IF k <= Len(a) THEN a[k] ELSE r[k - Len(a)]
  BY ConcatOf
<1> HIDE DEF x
<1>2. Len(a) \in 0..Len(x)
  BY <1>1
<1>3. y \in Seq(Nat) /\ Len(y) = Len(a) /\ \A k \in 1..Len(a) : y[k] = x[k]
  BY <1>1, <1>2, FrontOf
<1>4. \A k \in 1..Len(a) : a[k] = x[k]
  BY <1>1
<1> HIDE DEF y
<1>5. y = a
  BY <1>3, <1>4, SameSeq
<1> QED BY <1>2, <1>5 DEF x, y, Joined

-----------------------------------------------------------------------------
(* The safety invariants, one action at a time.                            *)

LEMMA NewRingIs == IsRing(NewRing, RcvCap) /\ RingContents(NewRing, RcvCap) = <<>>
<1>1. RcvCap \in Nat \ {0}
  BY CapsAssumption
<1>2. IsRing(NewRing, RcvCap) /\ DataSize(NewRing, RcvCap) = 0
  BY <1>1, BlankIs DEF NewRing, EmptyRing, IsRing, Rings, DataSize
<1> QED BY <1>1, <1>2, ContentsOf

LEMMA RingBounds == RingInv' => \A p \in Pipes : {rcvbuf'[p].start, rcvbuf'[p].end} \subseteq 0..RcvCap
<1> SUFFICES ASSUME RingInv', NEW p \in Pipes
             PROVE  {rcvbuf'[p].start, rcvbuf'[p].end} \subseteq 0..RcvCap
  OBVIOUS
<1>1. IsRing(rcvbuf'[p], RcvCap) /\ RcvCap \in Nat \ {0}
  BY CapsAssumption DEF RingInv
<1> QED BY <1>1, RingIs

\* What recv does to the queue of the kernel, to rcvbuf and to the ready bit.
LEMMA RecvSafe ==
  ASSUME Safe, NEW p \in Pipes, Recv(p, Filled(p)), UNCHANGED <<fin, reset>>
  PROVE  /\ kin' \in [Pipes -> Seq(Nat)] /\ \A q \in Pipes : Len(kin'[q]) <= KinCap
         /\ RingInv'
         /\ ready' \subseteq ready
         /\ ReadyHasData'
<1> DEFINE rest == SubSeq(kin[p], Taken(p) + 1, Len(kin[p]))
<1>1. /\ kin \in [Pipes -> Seq(Nat)] /\ rcvbuf \in [Pipes -> Rings(RcvCap)]
      /\ \A q \in Pipes : Len(kin[q]) <= KinCap /\ IsRing(rcvbuf[q], RcvCap)
      /\ KinCap \in Nat /\ ready \subseteq Pipes
  BY CapsAssumption DEF Safe, Types, TypeOK, RingInv
<1>2. /\ rest \in Seq(Nat) /\ Len(rest) = Len(kin[p]) - Taken(p) /\ Taken(p) \in 0..Len(kin[p])
      /\ IsRing(Left(p), RcvCap)
  BY RecvKeeps, TakenIs DEF Safe
<1>3. /\ kin' = [kin EXCEPT ![p] = rest] /\ rcvbuf' = [rcvbuf EXCEPT ![p] = Left(p)]
      /\ ready' = IF Taken(p) > 0 THEN ready \ {p} ELSE ready
  BY DEF Recv, ClearReady, Left
<1>4. Taken(p) = 0 => rest = kin[p]
  <2>1. kin[p] \in Seq(Nat)
    BY <1>1
  <2> QED BY <2>1, SubSeqFull
<1> HIDE DEF rest
<1>5. kin' \in [Pipes -> Seq(Nat)] /\ kin'[p] = rest /\ \A q \in Pipes \ {p} : kin'[q] = kin[q]
  BY <1>1, <1>2, <1>3
<1>6. Len(rest) <= KinCap
  <2>1. Len(kin[p]) \in Nat /\ Len(kin[p]) <= KinCap
    BY <1>1
  <2> QED BY <1>1, <1>2, <2>1
<1>7. \A q \in Pipes : Len(kin'[q]) <= KinCap
  BY <1>1, <1>5, <1>6
<1>8. RingInv'
  <2>1. Left(p) \in Rings(RcvCap)
    BY <1>2 DEF IsRing
  <2>2. rcvbuf' \in [Pipes -> Rings(RcvCap)]
    BY <1>1, <1>3, <2>1
  <2>3. \A q \in Pipes : IsRing(rcvbuf'[q], RcvCap)
    <3>1. rcvbuf'[p] = Left(p) /\ \A q \in Pipes \ {p} : rcvbuf'[q] = rcvbuf[q]
      BY <1>1, <1>3
    <3> QED BY <1>1, <1>2, <3>1
  <2> QED BY <2>2, <2>3 DEF RingInv
<1>9. ready' \subseteq ready
  BY <1>3
<1>10. ReadyHasData'
  <2> SUFFICES ASSUME NEW q \in ready'
               PROVE  kin'[q] # <<>> \/ q \in fin \cup reset
    BY DEF ReadyHasData, Readable
  <2>1. q \in ready /\ q \in Pipes
    BY <1>1, <1>9
  <2>2. kin[q] # <<>> \/ q \in fin \cup reset
    BY <2>1 DEF Safe, ReadyHasData, Readable
  <2>3. CASE q = p
    <3>1. Taken(p) = 0
      BY <1>2, <1>3, <2>3
    <3> QED BY <1>4, <1>5, <2>2, <2>3, <3>1
  <2>4. CASE q # p
    BY <1>5, <2>1, <2>2, <2>4
  <2> QED BY <2>3, <2>4
<1> QED BY <1>5, <1>7, <1>8, <1>9, <1>10

\* DirSends with its bytes named.
LEMMA DirSendsIs ==
  ASSUME NEW p \in Pipes, DirSends(p)
  PROVE  /\ at = "process" /\ Other(p) \notin Blocking
         /\ Recv(p, Filled(p)) /\ UNCHANGED <<peers, at, hold>>
         /\ \E n \in Accepted(Other(p), Len(Offered(Other(p), Received(p, Filled(p))))) :
              /\ Sent(Other(p), Received(p, Filled(p)), n)
              /\ mask' = WriteRemoved(Other(p), ReadTaken(p), n, Len(Offered(Other(p), Received(p, Filled(p)))))
BY DEF DirSends, Reads

LEMMA DirBlocksIs ==
  ASSUME NEW p \in Pipes, DirBlocks(p)
  PROVE  /\ at = "process" /\ Other(p) \in Blocking \ reset
         /\ Received(p, Filled(p)) # <<>>
         /\ Recv(p, Filled(p))
         /\ hold' = [to |-> Other(p), data |-> Received(p, Filled(p))]
         /\ at' = "send" /\ mask' = ReadTaken(p)
         /\ UNCHANGED <<peers, kout, outbuf, full>>
BY DEF DirBlocks, Reads

LEMMA MasksAre ==
  ASSUME mask \in [read : SUBSET Pipes, write : SUBSET Pipes, close : SUBSET Pipes],
         NEW p \in Pipes, NEW q \in Pipes, NEW n, NEW len
  PROVE  /\ ReadTaken(p) \in [read : SUBSET Pipes, write : SUBSET Pipes, close : SUBSET Pipes]
         /\ WriteRemoved(q, ReadTaken(p), n, len)
              \in [read : SUBSET Pipes, write : SUBSET Pipes, close : SUBSET Pipes]
         /\ [mask EXCEPT !.write = @ \ {p}]
              \in [read : SUBSET Pipes, write : SUBSET Pipes, close : SUBSET Pipes]
BY DEF ReadTaken, WriteRemoved

LEMMA DirSendsSafe ==
  ASSUME Safe, NEW p \in Pipes, DirSends(p)
  PROVE  Safe'
<1> DEFINE q == Other(p)
           got == Received(p, Filled(p))
           len == Len(Offered(q, got))
<1>1. PICK n \in Accepted(q, len) : Sent(q, got, n) /\ mask' = WriteRemoved(q, ReadTaken(p), n, len)
  BY DirSendsIs
<1>2. /\ at = "process" /\ q \notin Blocking /\ q \in Pipes
      /\ Recv(p, Filled(p)) /\ UNCHANGED <<sent, arrived, fin, reset, at, hold>>
  BY DirSendsIs, OtherIs DEF peers
<1>3. Types
  BY DEF Safe
<1>4. got \in Seq(Nat)
  BY <1>3, RecvKeeps
<1>5. /\ kin' \in [Pipes -> Seq(Nat)] /\ \A r \in Pipes : Len(kin'[r]) <= KinCap
      /\ RingInv' /\ ready' \subseteq ready /\ ReadyHasData'
  BY <1>2, RecvSafe
<1> HIDE DEF got, len, q
<1>6. /\ kout' \in [Pipes -> Seq(Nat)] /\ outbuf' \in [Pipes -> Seq(Nat)]
      /\ Len(kout'[q]) <= KoutCap
      /\ \A r \in Pipes \ {q} : kout'[r] = kout[r] /\ outbuf'[r] = outbuf[r]
      /\ full' \subseteq full \cup {q}
      /\ full = {r \in Pipes : outbuf[r] # <<>>} => full' = {r \in Pipes : outbuf'[r] # <<>>}
  BY <1>1, <1>2, <1>3, <1>4, SentKeeps DEF len
<1>7. mask' \in [read : SUBSET Pipes, write : SUBSET Pipes, close : SUBSET Pipes]
  BY <1>1, <1>2, <1>3, MasksAre DEF Types, TypeOK
<1>8. HoldInv'
  BY <1>2 DEF Safe, HoldInv
<1>9. FullMeansUnsent'
  BY <1>2, <1>6 DEF Safe, FullMeansUnsent
<1>10. TypeOK'
  <2>1. \A r \in Pipes : Len(kout'[r]) <= KoutCap
    BY <1>3, <1>6 DEF Types, TypeOK
  <2>2. ready' \in SUBSET Pipes /\ full' \in SUBSET Pipes
    <3>1. ready \subseteq Pipes /\ full \subseteq Pipes
      BY <1>3 DEF Types, TypeOK
    <3> QED BY <1>2, <1>5, <1>6, <3>1
  <2>3. \A r \in Pipes : {rcvbuf'[r].start, rcvbuf'[r].end} \subseteq 0..RcvCap
    BY <1>5, RingBounds
  <2> QED BY <1>2, <1>3, <1>5, <1>6, <1>7, <2>1, <2>2, <2>3 DEF Types, TypeOK
<1> QED BY <1>5, <1>8, <1>9, <1>10 DEF Safe, Types

LEMMA DirBlocksSafe ==
  ASSUME Safe, NEW p \in Pipes, DirBlocks(p)
  PROVE  Safe'
<1> DEFINE q == Other(p)
           got == Received(p, Filled(p))
<1>1. /\ at = "process" /\ q \in Blocking \ reset /\ q \in Pipes /\ got # <<>>
      /\ Recv(p, Filled(p)) /\ UNCHANGED <<sent, arrived, fin, reset, kout, outbuf, full>>
      /\ hold' = [to |-> q, data |-> got] /\ at' = "send" /\ mask' = ReadTaken(p)
  BY DirBlocksIs, OtherIs DEF peers
<1>2. Types
  BY DEF Safe
<1>3. got \in Seq(Nat)
  BY <1>2, RecvKeeps
<1>4. /\ kin' \in [Pipes -> Seq(Nat)] /\ \A r \in Pipes : Len(kin'[r]) <= KinCap
      /\ RingInv' /\ ready' \subseteq ready /\ ReadyHasData'
  BY <1>1, RecvSafe
<1> HIDE DEF got, q
<1>5. mask' \in [read : SUBSET Pipes, write : SUBSET Pipes, close : SUBSET Pipes]
  BY <1>1, <1>2, MasksAre DEF Types, TypeOK
<1>6. HoldInv'
  <2>1. outbuf[q] = <<>>
    BY <1>1 DEF Safe, FullMeansUnsent
  <2> QED BY <1>1, <2>1 DEF HoldInv
<1>7. FullMeansUnsent'
  BY <1>1 DEF Safe, FullMeansUnsent
<1>8. TypeOK'
  <2>1. hold' \in [to : Pipes, data : Seq(Nat)]
    BY <1>1, <1>3
  <2>2. ready' \in SUBSET Pipes
    BY <1>2, <1>4 DEF Types, TypeOK
  <2>3. \A r \in Pipes : {rcvbuf'[r].start, rcvbuf'[r].end} \subseteq 0..RcvCap
    BY <1>4, RingBounds
  <2> QED BY <1>1, <1>2, <1>4, <1>5, <2>1, <2>2, <2>3 DEF Types, TypeOK
<1> QED BY <1>4, <1>6, <1>7, <1>8 DEF Safe, Types

LEMMA SendContinuesSafe ==
  ASSUME Safe, SendContinues
  PROVE  Safe'
<1> DEFINE q == hold.to
           n == Smaller(Space(q), Len(hold.data))
           front == SubSeq(hold.data, 1, n)
           rest == SubSeq(hold.data, n + 1, Len(hold.data))
<1>1. /\ kout \in [Pipes -> Seq(Nat)] /\ hold \in [to : Pipes, data : Seq(Nat)]
      /\ KoutCap \in Nat /\ \A r \in Pipes : Len(kout[r]) <= KoutCap
  BY CapsAssumption DEF Safe, Types, TypeOK
<1>2. /\ q \in Pipes /\ hold.data \in Seq(Nat) /\ Len(hold.data) \in Nat
      /\ kout[q] \in Seq(Nat) /\ Len(kout[q]) \in Nat /\ Len(kout[q]) <= KoutCap
  BY <1>1
<1>3. n \in 0..Len(hold.data) /\ Len(kout[q]) + n <= KoutCap
  BY <1>1, <1>2 DEF Smaller, Space
<1>4. front \in Seq(Nat) /\ Len(front) = n /\ rest \in Seq(Nat)
  BY <1>2, <1>3, ConcatParts, FrontOf
<1>5. /\ at = "send" /\ kout' = [kout EXCEPT ![q] = @ \o front]
      /\ IF rest # <<>>
         THEN hold' = [hold EXCEPT !.data = rest] /\ UNCHANGED <<at, mask>>
         ELSE hold' = NoHold /\ at' = "process" /\ mask' = [mask EXCEPT !.write = @ \ {q}]
      /\ UNCHANGED <<sent, arrived, fin, reset, kin, rcvbuf, outbuf, ready, full>>
  BY DEF SendContinues, peers, buffers, waitables
<1>6. hold.to \in Blocking /\ outbuf[hold.to] = <<>>
  BY <1>5 DEF Safe, HoldInv
<1> HIDE DEF n, front, rest
<1>7. kout[q] \o front \in Seq(Nat) /\ Len(kout[q] \o front) = Len(kout[q]) + n
  <2>1. kout[q] \o front \in Seq(Nat) /\ Len(kout[q] \o front) = Len(kout[q]) + Len(front)
    BY <1>2, <1>4, ConcatOf
  <2> QED BY <1>4, <2>1
<1>8. kout' \in [Pipes -> Seq(Nat)] /\ \A r \in Pipes : Len(kout'[r]) <= KoutCap
  BY <1>1, <1>2, <1>3, <1>5, <1>7
<1>9. hold' \in [to : Pipes, data : Seq(Nat)] /\ at' \in {"send", "process"}
  BY <1>1, <1>2, <1>4, <1>5, JoinedEmpty DEF NoHold, Pipes
<1>10. mask' \in [read : SUBSET Pipes, write : SUBSET Pipes, close : SUBSET Pipes]
  BY <1>2, <1>5, MasksAre DEF Safe, Types, TypeOK
<1>11. RingInv'
  BY <1>5 DEF Safe, Types, RingInv
<1>12. TypeOK'
  <2>1. at' \in {"wait", "process", "send", "dead"}
    BY <1>9
  <2>2. \A r \in Pipes : {rcvbuf'[r].start, rcvbuf'[r].end} \subseteq 0..RcvCap
    BY <1>11, RingBounds
  <2>3. UNCHANGED <<sent, arrived, fin, reset, kin, outbuf, ready, full>>
    BY <1>5
  <2> QED BY <1>8, <1>9, <1>10, <2>1, <2>2, <2>3 DEF Safe, Types, TypeOK
<1>13. HoldInv'
  <2>1. CASE rest # <<>>
    <3>1. at' = "send" /\ hold'.data = rest /\ hold'.to = hold.to /\ outbuf' = outbuf
      BY <1>1, <1>5, <2>1
    <3> QED BY <1>6, <2>1, <3>1 DEF HoldInv
  <2>2. CASE rest = <<>>
    BY <1>5, <2>2 DEF HoldInv
  <2> QED BY <2>1, <2>2
<1>14. FullMeansUnsent' /\ ReadyHasData'
  BY <1>5 DEF Safe, FullMeansUnsent, ReadyHasData, Readable
<1> QED BY <1>11, <1>13, <1>14, <1>12 DEF Safe, Types

LEMMA SendFallsShortSafe ==
  ASSUME Safe, SendFallsShort
  PROVE  Safe'
<1>1. /\ hold \in [to : Pipes, data : Seq(Nat)] /\ outbuf \in [Pipes -> Seq(Nat)]
      /\ hold.to \in Pipes /\ hold.data \in Seq(Nat) /\ full \subseteq Pipes
  BY DEF Safe, Types, TypeOK
<1>2. /\ at = "send" /\ hold.to \in reset
      /\ outbuf' = [outbuf EXCEPT ![hold.to] = hold.data]
      /\ full' = full \cup {hold.to}
      /\ hold' = NoHold /\ at' = "process"
      /\ UNCHANGED <<sent, arrived, fin, reset, kin, kout, rcvbuf, ready, mask>>
  BY DEF SendFallsShort, peers, kernel
<1>3. hold.data # <<>>
  BY <1>2 DEF Safe, HoldInv
<1>4. /\ outbuf' \in [Pipes -> Seq(Nat)] /\ outbuf'[hold.to] # <<>>
      /\ \A r \in Pipes \ {hold.to} : outbuf'[r] = outbuf[r]
  BY <1>1, <1>2, <1>3
<1>5. hold' \in [to : Pipes, data : Seq(Nat)] /\ full' \in SUBSET Pipes
  BY <1>1, <1>2, JoinedEmpty DEF NoHold, Pipes
<1>6. RingInv'
  BY <1>2 DEF Safe, Types, RingInv
<1>7. TypeOK'
  <2>1. \A r \in Pipes : {rcvbuf'[r].start, rcvbuf'[r].end} \subseteq 0..RcvCap
    BY <1>6, RingBounds
  <2>2. UNCHANGED <<sent, arrived, fin, reset, kin, kout, ready, mask>> /\ at' = "process"
    BY <1>2
  <2> QED BY <1>4, <1>5, <2>1, <2>2 DEF Safe, Types, TypeOK
<1>8. HoldInv'
  BY <1>2 DEF HoldInv
<1>9. FullMeansUnsent' /\ ReadyHasData'
  <2>1. full' = {r \in Pipes : outbuf'[r] # <<>>}
    BY <1>1, <1>2, <1>4 DEF Safe, FullMeansUnsent
  <2>2. full' \cap Blocking \subseteq reset'
    BY <1>2 DEF Safe, FullMeansUnsent
  <2>3. ReadyHasData'
    BY <1>2 DEF Safe, ReadyHasData, Readable
  <2> QED BY <2>1, <2>2, <2>3 DEF FullMeansUnsent
<1> QED BY <1>7, <1>8, <1>9, <1>6 DEF Safe, Types

LEMMA FlushSafe ==
  ASSUME Safe, NEW p \in Pipes, Flush(p)
  PROVE  Safe'
<1> DEFINE z == <<>>
           len == Len(Offered(p, z))
<1>1. Types /\ outbuf[p] \in Seq(Nat)
  BY DEF Safe, Types, TypeOK
<1>2. z \in Seq(Nat) /\ Len(Offered(p, z)) = Len(outbuf[p])
  BY <1>1, JoinedEmpty DEF Offered, Joined
<1>3. PICK n \in Accepted(p, len) : Sent(p, z, n)
  BY <1>2 DEF Flush
<1>4. /\ at = "process" /\ p \notin reset /\ mask' = [mask EXCEPT !.write = @ \ {p}]
      /\ UNCHANGED <<sent, arrived, fin, reset, kin, rcvbuf, ready, at, hold>>
  BY DEF Flush, Flushes, peers
<1> HIDE DEF z
<1>5. /\ kout' \in [Pipes -> Seq(Nat)] /\ outbuf' \in [Pipes -> Seq(Nat)]
      /\ Len(kout'[p]) <= KoutCap
      /\ \A r \in Pipes \ {p} : kout'[r] = kout[r] /\ outbuf'[r] = outbuf[r]
      /\ full' \subseteq full \cup {p}
      /\ full = {r \in Pipes : outbuf[r] # <<>>} => full' = {r \in Pipes : outbuf'[r] # <<>>}
      /\ Len(outbuf[p]) = 0 => outbuf'[p] = <<>>
  BY <1>1, <1>2, <1>3, SentKeeps
<1>6. mask' \in [read : SUBSET Pipes, write : SUBSET Pipes, close : SUBSET Pipes]
  BY <1>1, <1>4, MasksAre DEF Types, TypeOK
<1>7. TypeOK' /\ RingInv'
  <2>1. \A r \in Pipes : Len(kout'[r]) <= KoutCap
    BY <1>1, <1>5 DEF Types, TypeOK
  <2>2. full' \in SUBSET Pipes
    BY <1>1, <1>5 DEF Types, TypeOK
  <2> QED BY <1>1, <1>4, <1>5, <1>6, <2>1, <2>2 DEF Types, TypeOK, RingInv
<1>8. HoldInv'
  BY <1>4 DEF Safe, HoldInv
<1>9. FullMeansUnsent' /\ ReadyHasData'
  <2>1. full' = {r \in Pipes : outbuf'[r] # <<>>}
    BY <1>5 DEF Safe, FullMeansUnsent
  <2>2. full' \cap Blocking \subseteq reset'
    <3>1. p \in Blocking => outbuf[p] = <<>>
      BY <1>4 DEF Safe, FullMeansUnsent
    <3>2. p \in Blocking => p \notin full'
      BY <1>2, <1>5, <2>1, <3>1
    <3> QED BY <1>4, <1>5, <3>2 DEF Safe, FullMeansUnsent
  <2>3. ReadyHasData'
    BY <1>4 DEF Safe, ReadyHasData, Readable
  <2> QED BY <2>1, <2>2, <2>3 DEF FullMeansUnsent
<1> QED BY <1>7, <1>8, <1>9 DEF Safe, Types

LEMMA DieSafe ==
  ASSUME Safe, Die
  PROVE  Safe'
<1>1. /\ at' = "dead"
      /\ rcvbuf' = [p \in Pipes |-> NewRing] /\ outbuf' = [p \in Pipes |-> <<>>]
      /\ ready' = {} /\ full' = {} /\ mask' = NoMask /\ hold' = NoHold
      /\ kin' = [p \in Pipes |-> <<>>]
      /\ UNCHANGED <<sent, arrived, fin, reset, kout>>
  BY DEF Die, peers
<1>2. RingInv'
  <2>1. NewRing \in Rings(RcvCap)
    BY NewRingIs DEF IsRing
  <2> QED BY <1>1, <2>1, NewRingIs DEF RingInv
<1>3. TypeOK'
  <2>1. \A p \in Pipes : {rcvbuf'[p].start, rcvbuf'[p].end} \subseteq 0..RcvCap
    BY <1>2, RingBounds
  <2>2. /\ kin' \in [Pipes -> Seq(Nat)] /\ outbuf' \in [Pipes -> Seq(Nat)]
        /\ \A p \in Pipes : Len(kin'[p]) <= KinCap
    BY <1>1, CapsAssumption
  <2>3. hold' \in [to : Pipes, data : Seq(Nat)]
    BY <1>1 DEF NoHold, Pipes
  <2>4. mask' \in [read : SUBSET Pipes, write : SUBSET Pipes, close : SUBSET Pipes]
    BY <1>1 DEF NoMask
  <2> QED BY <1>1, <2>1, <2>2, <2>3, <2>4 DEF Safe, Types, TypeOK
<1>4. HoldInv'
  BY <1>1 DEF HoldInv
<1>5. FullMeansUnsent' /\ ReadyHasData'
  BY <1>1 DEF FullMeansUnsent, ReadyHasData
<1> QED BY <1>2, <1>3, <1>4, <1>5 DEF Safe, Types

LEMMA WaitReturnsSafe ==
  ASSUME Safe, at = "wait", NEW read \in SUBSET Pipes, NEW write \in SUBSET Pipes,
         NEW close \in SUBSET Pipes, NEW found \in SUBSET Pipes,
         \A p \in found : Readable(p), WaitReturns(read, write, close, found)
  PROVE  Safe'
<1>1. /\ mask' = [read |-> read, write |-> write, close |-> close]
      /\ ready' = ready \cup found /\ at' = "process"
      /\ UNCHANGED <<sent, arrived, fin, reset, kin, kout, rcvbuf, outbuf, full, hold>>
  BY DEF WaitReturns, peers, kernel, buffers
<1>2. RingInv'
  BY <1>1 DEF Safe, Types, RingInv
<1>3. TypeOK'
  <2>1. \A p \in Pipes : {rcvbuf'[p].start, rcvbuf'[p].end} \subseteq 0..RcvCap
    BY <1>2, RingBounds
  <2>2. ready' \in SUBSET Pipes
    BY <1>1 DEF Safe, Types, TypeOK
  <2>3. mask' \in [read : SUBSET Pipes, write : SUBSET Pipes, close : SUBSET Pipes]
    BY <1>1
  <2> QED BY <1>1, <2>1, <2>2, <2>3 DEF Safe, Types, TypeOK
<1>4. HoldInv'
  BY <1>1 DEF Safe, HoldInv
<1>5. FullMeansUnsent' /\ ReadyHasData'
  BY <1>1 DEF Safe, FullMeansUnsent, ReadyHasData, Readable
<1> QED BY <1>2, <1>3, <1>4, <1>5 DEF Safe, Types

LEMMA AgainSafe ==
  ASSUME Safe, Again
  PROVE  Safe'
<1>1. /\ at = "process" /\ at' = "wait"
      /\ UNCHANGED <<sent, arrived, fin, reset, kin, kout, rcvbuf, outbuf, ready, full, mask, hold>>
  BY DEF Again, peers, kernel, buffers, waitables
<1>2. Types'
  BY <1>1 DEF Safe, Types, TypeOK, RingInv
<1> QED BY <1>1, <1>2 DEF Safe, HoldInv, FullMeansUnsent, ReadyHasData, Readable

LEMMA WorkerSafe ==
  ASSUME Safe, Worker
  PROVE  Safe'
<1>1. ready \subseteq Pipes /\ full \subseteq Pipes /\ reset \subseteq Pipes
  BY DEF Safe, Types, TypeOK
<1>2. CASE CheckAll
  <2> DEFINE found == {p \in Pipes : kin[p] # <<>>}
  <2>1. PICK write \in SUBSET full : WaitReturns(ready \cup found, write, {}, found)
    BY <1>2 DEF CheckAll
  <2>2. at = "wait" /\ \A p \in found : Readable(p)
    BY <1>2 DEF CheckAll, Readable
  <2> HIDE DEF found
  <2>3. found \in SUBSET Pipes
    BY DEF found
  <2>4. ready \cup found \in SUBSET Pipes /\ write \in SUBSET Pipes /\ {} \in SUBSET Pipes
    BY <1>1, <2>3
  <2> QED BY <2>1, <2>2, <2>3, <2>4, WaitReturnsSafe
<1>3. CASE Poll
  <2> DEFINE found == {p \in Pipes : Readable(p)}
             writable == {p \in full : Space(p) > 0}
  <2>1. at = "wait" /\ WaitReturns(found, writable, reset, found)
    BY <1>3 DEF Poll
  <2>2. found \in SUBSET Pipes /\ \A p \in found : Readable(p)
    OBVIOUS
  <2>3. writable \in SUBSET Pipes
    BY <1>1
  <2> HIDE DEF found, writable
  <2> QED BY <1>1, <2>1, <2>2, <2>3, WaitReturnsSafe
<1>4. CASE Closed
  BY <1>4, DieSafe DEF Closed
<1>5. ASSUME NEW p \in Pipes, Process(p)
      PROVE  Safe'
  <2>1. CASE DirFails(p)
    BY <2>1, DieSafe DEF DirFails
  <2>2. CASE DirSendFails(p)
    BY <2>2, DieSafe DEF DirSendFails
  <2>3. CASE DirSends(p)
    BY <2>3, DirSendsSafe
  <2>4. CASE DirBlocks(p)
    BY <2>4, DirBlocksSafe
  <2>5. CASE FlushFails(p)
    BY <2>5, DieSafe DEF FlushFails
  <2>6. CASE Flush(p)
    BY <2>6, FlushSafe
  <2> QED BY <1>5, <2>1, <2>2, <2>3, <2>4, <2>5, <2>6 DEF Process
<1>6. CASE SendContinues
  BY <1>6, SendContinuesSafe
<1>7. CASE SendBreaks
  BY <1>7, DieSafe DEF SendBreaks
<1>8. CASE SendFallsShort
  BY <1>8, SendFallsShortSafe
<1>9. CASE Again
  BY <1>9, AgainSafe
<1> QED BY <1>2, <1>3, <1>4, <1>5, <1>6, <1>7, <1>8, <1>9 DEF Worker

LEMMA PeerSafe ==
  ASSUME Safe, NEW p \in Pipes, Peer(p)
  PROVE  Safe'
<1>1. /\ sent \in [Pipes -> Nat] /\ arrived \in [Pipes -> Nat] /\ \A q \in Pipes : sent[q] <= MaxSent[q]
      /\ kin \in [Pipes -> Seq(Nat)] /\ kout \in [Pipes -> Seq(Nat)]
      /\ fin \subseteq Pipes /\ reset \subseteq Pipes
      /\ \A q \in Pipes : Len(kin[q]) <= KinCap /\ Len(kout[q]) <= KoutCap
      /\ KinCap \in Nat /\ MaxSent \in [Pipes -> Nat]
  BY CapsAssumption DEF Safe, Types, TypeOK
<1>2. CASE PeerSends(p)
  <2>1. /\ sent[p] < MaxSent[p] /\ Len(kin[p]) < KinCap
        /\ sent' = [sent EXCEPT ![p] = @ + 1] /\ kin' = [kin EXCEPT ![p] = Append(@, sent[p] + 1)]
        /\ UNCHANGED <<kout, arrived, fin, reset, rcvbuf, outbuf, ready, full, at, mask, hold>>
    BY <1>2 DEF PeerSends, buffers, waitables
  <2>2. /\ Append(kin[p], sent[p] + 1) \in Seq(Nat)
        /\ Append(kin[p], sent[p] + 1) # <<>>
        /\ Len(Append(kin[p], sent[p] + 1)) = Len(kin[p]) + 1
    <3>1. kin[p] \in Seq(Nat) /\ sent[p] + 1 \in Nat
      BY <1>1
    <3> QED BY <3>1
  <2>3. /\ sent' \in [Pipes -> Nat] /\ \A q \in Pipes : sent'[q] <= MaxSent[q]
    BY <1>1, <2>1
  <2>4. kin' \in [Pipes -> Seq(Nat)] /\ \A q \in Pipes : Len(kin'[q]) <= KinCap
    <3>1. kin'[p] = Append(kin[p], sent[p] + 1) /\ \A q \in Pipes \ {p} : kin'[q] = kin[q]
      BY <1>1, <2>1
    <3>2. Len(kin[p]) \in Nat
      BY <1>1
    <3>3. kin' \in [Pipes -> Seq(Nat)]
      BY <1>1, <2>1, <2>2
    <3> QED BY <1>1, <2>1, <2>2, <3>1, <3>2, <3>3
  <2>5. RingInv' /\ HoldInv' /\ FullMeansUnsent'
    BY <2>1 DEF Safe, Types, RingInv, HoldInv, FullMeansUnsent
  <2>6. ReadyHasData'
    BY <1>1, <2>1, <2>2 DEF Safe, ReadyHasData, Readable
  <2>7. TypeOK'
    BY <2>1, <2>3, <2>4 DEF Safe, Types, TypeOK
  <2> QED BY <2>5, <2>6, <2>7 DEF Safe, Types
<1>3. CASE PeerReads(p)
  <2>1. /\ kout[p] # <<>>
        /\ kout' = [kout EXCEPT ![p] = Tail(@)] /\ arrived' = [arrived EXCEPT ![p] = @ + 1]
        /\ UNCHANGED <<sent, fin, reset, kin, rcvbuf, outbuf, ready, full, at, mask, hold>>
    BY <1>3 DEF PeerReads, buffers, waitables
  <2>2. Tail(kout[p]) \in Seq(Nat) /\ Len(Tail(kout[p])) <= Len(kout[p]) /\ Len(Tail(kout[p])) \in Nat
    <3>1. kout[p] \in Seq(Nat)
      BY <1>1
    <3> QED BY <2>1, <3>1
  <2>3. kout' \in [Pipes -> Seq(Nat)] /\ \A q \in Pipes : Len(kout'[q]) <= KoutCap
    <3>1. kout'[p] = Tail(kout[p]) /\ \A q \in Pipes \ {p} : kout'[q] = kout[q]
      BY <1>1, <2>1
    <3>2. Len(kout[p]) \in Nat /\ KoutCap \in Nat
      BY <1>1, CapsAssumption
    <3>3. kout' \in [Pipes -> Seq(Nat)]
      BY <1>1, <2>1, <2>2
    <3>4. Len(kout[p]) <= KoutCap
      BY <1>1
    <3>5. Len(kout'[p]) <= KoutCap
      BY <2>2, <3>1, <3>2, <3>4
    <3> QED BY <1>1, <3>1, <3>3, <3>5
  <2>4. arrived' \in [Pipes -> Nat]
    BY <1>1, <2>1
  <2>5. RingInv' /\ HoldInv' /\ FullMeansUnsent' /\ ReadyHasData'
    BY <2>1 DEF Safe, Types, RingInv, HoldInv, FullMeansUnsent, ReadyHasData, Readable
  <2>6. TypeOK'
    BY <2>1, <2>3, <2>4 DEF Safe, Types, TypeOK
  <2> QED BY <2>5, <2>6 DEF Safe, Types
<1>4. CASE PeerEnds(p)
  <2>1. /\ fin' = fin \cup {p}
        /\ UNCHANGED <<sent, arrived, reset, kin, kout, rcvbuf, outbuf, ready, full, at, mask, hold>>
    BY <1>4 DEF PeerEnds, kernel, buffers, waitables
  <2>2. Types'
    BY <2>1 DEF Safe, Types, TypeOK, RingInv
  <2> QED BY <2>1, <2>2 DEF Safe, HoldInv, FullMeansUnsent, ReadyHasData, Readable
<1>5. CASE PeerResets(p)
  <2>1. /\ reset' = reset \cup {p}
        /\ UNCHANGED <<sent, arrived, fin, kin, kout, rcvbuf, outbuf, ready, full, at, mask, hold>>
    BY <1>5 DEF PeerResets, kernel, buffers, waitables
  <2>2. Types'
    BY <2>1 DEF Safe, Types, TypeOK, RingInv
  <2> QED BY <2>1, <2>2 DEF Safe, HoldInv, FullMeansUnsent, ReadyHasData, Readable
<1> QED BY <1>2, <1>3, <1>4, <1>5 DEF Peer

-----------------------------------------------------------------------------
(* Initially rcvbuf holds what was drawn with the handshake.               *)

LEMMA BytesIs ==
  ASSUME NEW n \in Nat
  PROVE  Bytes(n) \in Seq(Nat) /\ Len(Bytes(n)) = n /\ \A k \in 1..n : Bytes(n)[k] = k
BY DEF Bytes

LEMMA DrawnIs ==
  ASSUME NEW n \in Nat, n < RcvCap,
         NEW r, r = Peeked(Fill(NewRing, RcvCap, <<Unused>> \o Bytes(n)), RcvCap, 1)
  PROVE  IsRing(r, RcvCap) /\ RingContents(r, RcvCap) = Bytes(n)
<1> DEFINE u == <<Unused>>
           d == u \o Bytes(n)
           full0 == Fill(NewRing, RcvCap, d)
           b == Bytes(n)
<1>1. RcvCap \in Nat \ {0} /\ b \in Seq(Nat) /\ Len(b) = n /\ u \in Seq(Nat) /\ Len(u) = 1
  BY CapsAssumption, BytesIs DEF Unused
<1> HIDE DEF u, b
<1>2. /\ u \o b \in Seq(Nat) /\ Len(u \o b) = Len(u) + Len(b)
      /\ \A k \in 1..Len(u) + Len(b) : (u \o b)[k] = IF k <= Len(u) THEN u[k] ELSE b[k - Len(u)]
  BY <1>1, ConcatOf
<1>3. d \in Seq(Nat) /\ Len(d) = n + 1 /\ \A k \in 1..n : d[1 + k] = b[k]
  <2>1. d = u \o b
    BY DEF b
  <2> HIDE DEF d
  <2>2. Len(d) = n + 1
    BY <1>1, <1>2, <2>1
  <2>3. ASSUME NEW k \in 1..n
        PROVE  d[1 + k] = b[k]
    <3>1. PICK j \in 1..Len(u) + Len(b) : j = 1 + k
      BY <1>1
    <3>2. d[j] = IF j <= Len(u) THEN u[j] ELSE b[j - Len(u)]
      BY <1>2, <2>1
    <3>3. ~(j <= Len(u)) /\ j - Len(u) = k
      BY <1>1, <3>1
    <3> QED BY <3>1, <3>2, <3>3
  <2> QED BY <1>2, <2>1, <2>2, <2>3
<1> HIDE DEF d
<1>4. /\ IsRing(NewRing, RcvCap) /\ DataSize(NewRing, RcvCap) = 0
      /\ FreeSize(NewRing, RcvCap) = RcvCap /\ RingContents(NewRing, RcvCap) = <<>>
  BY <1>1, NewRingIs DEF NewRing, EmptyRing, DataSize, FreeSize, BeforeStart
<1>5. IsAppended(full0, NewRing, RcvCap, d)
  <2>1. Len(d) <= FreeSize(NewRing, RcvCap)
    BY <1>1, <1>3, <1>4
  <2> QED BY <1>1, <1>3, <1>4, <2>1, FillAppends
<1>6. IsRing(full0, RcvCap) /\ DataSize(full0, RcvCap) = n + 1 /\ RingContents(full0, RcvCap) = d
  <2>1. /\ IsRing(full0, RcvCap) /\ DataSize(full0, RcvCap) = 0 + Len(d)
        /\ RingContents(full0, RcvCap) = RingContents(NewRing, RcvCap) \o d
    BY <1>4, <1>5 DEF IsAppended
  <2>2. RingContents(NewRing, RcvCap) \o d = d
    BY <1>3, <1>4, JoinedEmpty DEF Joined
  <2> QED BY <1>3, <2>1, <2>2
<1> HIDE DEF full0
<1>7. IsTakenFrom(r, full0, RcvCap, 1)
  <2>1. Smaller(1, DataSize(full0, RcvCap)) = 1
    BY <1>6 DEF Smaller
  <2>2. r = Peeked(full0, RcvCap, 1)
    BY DEF full0, d, u
  <2>3. IsTakenFrom(Peeked(full0, RcvCap, 1), full0, RcvCap, Smaller(1, DataSize(full0, RcvCap)))
    BY <1>1, <1>6, PeekTakesFirst
  <2> QED BY <2>1, <2>2, <2>3
<1>8. IsRing(r, RcvCap) /\ RingContents(r, RcvCap) = SubSeq(d, 1 + 1, n + 1)
  BY <1>6, <1>7 DEF IsTakenFrom
<1>9. /\ SubSeq(d, 1 + 1, n + 1) \in Seq(Nat) /\ Len(SubSeq(d, 1 + 1, n + 1)) = n + 1 - 1
      /\ \A k \in 1..n + 1 - 1 : SubSeq(d, 1 + 1, n + 1)[k] = d[1 + k]
  <2>1. 1 \in 0..Len(d) /\ n + 1 \in 1..Len(d)
    BY <1>3
  <2> QED BY <1>3, <2>1, PartOf
<1>10. n + 1 - 1 = n
  OBVIOUS
<1>11. SubSeq(d, 1 + 1, n + 1) = b
  BY <1>1, <1>3, <1>9, <1>10, SameSeq
<1> QED BY <1>8, <1>11 DEF b

LEMMA InitSafe ==
  ASSUME Init
  PROVE  Safe
<1>1. /\ sent \in [Pipes -> 0..Prefetch] /\ Prefetch \in 0..RcvCap - 1 /\ RcvCap \in Nat \ {0}
      /\ sent[2] = 0 /\ Prefetch <= MaxSent[1] /\ MaxSent \in [Pipes -> Nat]
  BY CapsAssumption DEF Init
<1>2. \A p \in Pipes : IsRing(rcvbuf[p], RcvCap)
  <2> SUFFICES ASSUME NEW p \in Pipes
               PROVE  IsRing(rcvbuf[p], RcvCap)
    OBVIOUS
  <2>1. sent[p] \in Nat /\ sent[p] < RcvCap
    BY <1>1
  <2>2. rcvbuf[p] = Peeked(Fill(NewRing, RcvCap, <<Unused>> \o Bytes(sent[p])), RcvCap, 1)
    BY DEF Init
  <2> QED BY <2>1, <2>2, DrawnIs
<1>3. RingInv
  <2>1. DOMAIN rcvbuf = Pipes /\ rcvbuf = [p \in Pipes |-> rcvbuf[p]]
    BY DEF Init
  <2> HIDE DEF Init
  <2>2. \A p \in Pipes : rcvbuf[p] \in Rings(RcvCap)
    BY <1>2 DEF IsRing
  <2> QED BY <1>2, <2>1, <2>2 DEF RingInv
<1>4. TypeOK
  <2>1. \A p \in Pipes : {rcvbuf[p].start, rcvbuf[p].end} \subseteq 0..RcvCap
    <3> SUFFICES ASSUME NEW p \in Pipes
                 PROVE  {rcvbuf[p].start, rcvbuf[p].end} \subseteq 0..RcvCap
      OBVIOUS
    <3>1. IsRing(rcvbuf[p], RcvCap)
      BY <1>2
    <3> QED BY <1>1, <3>1, RingIs
  <2>2. sent \in [Pipes -> Nat] /\ \A p \in Pipes : sent[p] <= MaxSent[p]
    BY <1>1 DEF Pipes
  <2>3. /\ kin = [p \in Pipes |-> <<>>] /\ kout = [p \in Pipes |-> <<>>]
        /\ outbuf = [p \in Pipes |-> <<>>]
        /\ arrived = [p \in Pipes |-> 0] /\ fin = {} /\ reset = {} /\ ready = {} /\ full = {}
        /\ at = "wait" /\ mask = NoMask /\ hold = NoHold
    BY DEF Init
  <2>4. /\ {kin, kout, outbuf} \subseteq [Pipes -> Seq(Nat)]
        /\ \A p \in Pipes : Len(kin[p]) <= KinCap /\ Len(kout[p]) <= KoutCap
    BY <2>3, CapsAssumption
  <2>5. /\ mask \in [read : SUBSET Pipes, write : SUBSET Pipes, close : SUBSET Pipes]
        /\ hold \in [to : Pipes, data : Seq(Nat)]
    BY <2>3 DEF NoMask, NoHold, Pipes
  <2> QED BY <2>1, <2>2, <2>3, <2>4, <2>5 DEF TypeOK
<1>5. HoldInv /\ FullMeansUnsent /\ ReadyHasData
  BY DEF Init, HoldInv, FullMeansUnsent, ReadyHasData
<1> QED BY <1>3, <1>4, <1>5 DEF Safe, Types

LEMMA StepSafe ==
  ASSUME Safe, [Next]_vars
  PROVE  Safe'
<1>1. CASE Next
  BY <1>1, WorkerSafe, PeerSafe DEF Next
<1>2. CASE UNCHANGED vars
  <2>1. UNCHANGED <<sent, arrived, fin, reset, kin, kout, rcvbuf, outbuf, ready, full, at, mask, hold>>
    BY <1>2 DEF vars, peers, kernel, buffers, waitables
  <2>2. Types'
    BY <2>1 DEF Safe, Types, TypeOK, RingInv
  <2> QED BY <2>1, <2>2 DEF Safe, HoldInv, FullMeansUnsent, ReadyHasData, Readable
<1> QED BY <1>1, <1>2

LEMMA SafeHolds == Spec => []Safe
<1>1. Init => Safe
  BY InitSafe
<1>2. Safe /\ [Next]_vars => Safe'
  BY StepSafe
<1> QED BY <1>1, <1>2, PTL DEF Spec

-----------------------------------------------------------------------------
(* The bytes under way, one action at a time.                              *)

Waiting(q) == IF hold.to = q THEN hold.data ELSE <<>>

LEMMA UnderWayIs ==
  ASSUME NEW p \in Pipes
  PROVE  UnderWay(p) = Chain(kout[Other(p)], Waiting(Other(p)), outbuf[Other(p)], Held(p), kin[p])
BY DEF UnderWay, Waiting, Chain, Joined

LEMMA UnderWayWillBe ==
  ASSUME NEW p \in Pipes
  PROVE  UnderWay(p)' = Chain(kout'[Other(p)], Waiting(Other(p))', outbuf'[Other(p)], Held(p)', kin'[p])
BY DEF UnderWay, Waiting, Chain, Joined

\* Nothing waits in process's buffer unless ::send blocks.
LEMMA WaitingIs ==
  ASSUME Safe, NEW q \in Pipes
  PROVE  Waiting(q) \in Seq(Nat) /\ (at # "send" => IsNone(Waiting(q)))
<1>1. hold \in [to : Pipes, data : Seq(Nat)]
  BY DEF Safe, Types, TypeOK
<1>2. Waiting(q) \in Seq(Nat)
  BY <1>1, JoinedEmpty DEF Waiting
<1>3. ASSUME at # "send"
      PROVE  IsNone(Waiting(q))
  BY <1>3 DEF Safe, HoldInv, NoHold, Waiting, IsNone
<1> QED BY <1>2, <1>3

\* The five places of a chain, now and next.
LEMMA PlacesAre ==
  ASSUME Safe, NEW p \in Pipes
  PROVE  /\ kout[p] \in Seq(Nat) /\ outbuf[p] \in Seq(Nat) /\ kin[p] \in Seq(Nat)
         /\ Held(p) \in Seq(Nat) /\ Waiting(p) \in Seq(Nat)
BY TypesOf, WaitingIs DEF Safe

\* What is behind the queue of the kernel.
Rest(p) == Behind(Waiting(Other(p)), outbuf[Other(p)], Held(p), kin[p])

LEMMA RestIs ==
  ASSUME Safe, NEW p \in Pipes, NEW a \in Seq(Nat)
  PROVE  /\ Rest(p) \in Seq(Nat)
         /\ Chain(a, Waiting(Other(p)), outbuf[Other(p)], Held(p), kin[p]) = Joined(a, Rest(p))
<1>1. Other(p) \in Pipes
  BY OtherIs
<1>2. PICK b \in Seq(Nat) : b = Waiting(Other(p))
  BY <1>1, PlacesAre
<1>3. PICK c \in Seq(Nat) : c = outbuf[Other(p)]
  BY <1>1, PlacesAre
<1>4. PICK d \in Seq(Nat) : d = Held(p)
  BY PlacesAre
<1>5. PICK e \in Seq(Nat) : e = kin[p]
  BY PlacesAre
<1>6. Behind(b, c, d, e) \in Seq(Nat) /\ Chain(a, b, c, d, e) = Joined(a, Behind(b, c, d, e))
  BY ChainSplits
<1> QED BY <1>2, <1>3, <1>4, <1>5, <1>6 DEF Rest

LEMMA UnderWaySplits ==
  ASSUME Safe, NEW p \in Pipes
  PROVE  /\ kout[Other(p)] \in Seq(Nat) /\ Rest(p) \in Seq(Nat)
         /\ UnderWay(p) = Joined(kout[Other(p)], Rest(p))
<1>1. PICK a \in Seq(Nat) : a = kout[Other(p)]
  BY OtherIs, PlacesAre
<1>2. Rest(p) \in Seq(Nat) /\ UnderWay(p) = Joined(a, Rest(p))
  BY <1>1, RestIs, UnderWayIs
<1> QED BY <1>1, <1>2

\* What recv does in terms of the chain.
LEMMA RecvJoins ==
  ASSUME Safe, NEW p \in Pipes, Recv(p, Filled(p))
  PROVE  /\ Received(p, Filled(p)) \in Seq(Nat) /\ Held(p)' \in Seq(Nat) /\ kin'[p] \in Seq(Nat)
         /\ Joined(Received(p, Filled(p)), Joined(Held(p)', kin'[p])) = Joined(Held(p), kin[p])
         /\ Held(Other(p))' = Held(Other(p)) /\ kin'[Other(p)] = kin[Other(p)]
<1>1. kin \in [Pipes -> Seq(Nat)] /\ rcvbuf \in [Pipes -> Rings(RcvCap)]
  BY DEF Safe, Types, TypeOK, RingInv
<1>2. /\ kin' = [kin EXCEPT ![p] = SubSeq(kin[p], Taken(p) + 1, Len(kin[p]))]
      /\ rcvbuf' = [rcvbuf EXCEPT ![p] = Left(p)]
  BY DEF Recv, Left
<1>3. /\ kin'[p] = SubSeq(kin[p], Taken(p) + 1, Len(kin[p])) /\ rcvbuf'[p] = Left(p)
      /\ kin'[Other(p)] = kin[Other(p)] /\ rcvbuf'[Other(p)] = rcvbuf[Other(p)]
  BY <1>1, <1>2, OtherIs
<1>4. Held(p)' = RingContents(Left(p), RcvCap) /\ Held(Other(p))' = Held(Other(p))
  BY <1>3 DEF Held
<1>5. Types
  BY DEF Safe
<1> QED BY <1>3, <1>4, <1>5, RecvKeeps DEF Joined

SameStreams == \A p \in Pipes : UnderWay(p)' = UnderWay(p)

LEMMA DirSendsStreams ==
  ASSUME Safe, Safe', NEW p \in Pipes, DirSends(p)
  PROVE  SameStreams
<1> DEFINE q == Other(p)
           got == Received(p, Filled(p))
           len == Len(Offered(q, got))
<1>1. PICK n \in Accepted(q, len) : Sent(q, got, n)
  BY DirSendsIs
<1>2. /\ at = "process" /\ at' = "process" /\ q \in Pipes /\ Other(q) = p /\ q # p
      /\ Recv(p, Filled(p)) /\ hold' = hold
  BY DirSendsIs, OtherIs
<1>3. /\ got \in Seq(Nat) /\ Held(p)' \in Seq(Nat) /\ kin'[p] \in Seq(Nat)
      /\ Joined(got, Joined(Held(p)', kin'[p])) = Joined(Held(p), kin[p])
      /\ Held(q)' = Held(q) /\ kin'[q] = kin[q]
  BY <1>2, RecvJoins
<1>4. /\ kout[q] \in Seq(Nat) /\ outbuf[q] \in Seq(Nat) /\ Held(p) \in Seq(Nat) /\ kin[p] \in Seq(Nat)
  BY <1>2, PlacesAre
<1> HIDE DEF got, len, q
<1>5. /\ kout'[q] \in Seq(Nat) /\ outbuf'[q] \in Seq(Nat)
      /\ Joined(kout'[q], outbuf'[q]) = Joined(kout[q], Joined(outbuf[q], got))
      /\ kout'[p] = kout[p] /\ outbuf'[p] = outbuf[p]
  <2>1. /\ kout' \in [Pipes -> Seq(Nat)] /\ outbuf' \in [Pipes -> Seq(Nat)]
        /\ kout'[q] \o outbuf'[q] = kout[q] \o (outbuf[q] \o got)
        /\ \A r \in Pipes \ {q} : kout'[r] = kout[r] /\ outbuf'[r] = outbuf[r]
    BY <1>1, <1>2, <1>3, SentKeeps DEF len, Safe
  <2> QED BY <1>2, <2>1 DEF Joined
<1>6. IsNone(Waiting(q)) /\ Waiting(q)' = Waiting(q) /\ Waiting(p)' = Waiting(p)
  <2>1. IsNone(Waiting(q))
    BY <1>2, WaitingIs
  <2> QED BY <1>2, <2>1 DEF Waiting
<1>7. Chain(kout'[q], Waiting(q), outbuf'[q], Held(p)', kin'[p])
        = Chain(kout[q], Waiting(q), outbuf[q], Held(p), kin[p])
  <2>1. IsDrawn(got, Held(p), kin[p], Held(p)', kin'[p])
    BY <1>3, <1>4 DEF IsDrawn
  <2>2. IsPassed(got, kout[q], outbuf[q], kout'[q], outbuf'[q])
    BY <1>3, <1>4, <1>5 DEF IsPassed
  <2> QED BY <1>6, <2>1, <2>2, ChainSends
<1>8. UnderWay(p)' = UnderWay(p)
  BY <1>6, <1>7, UnderWayIs, UnderWayWillBe DEF q
<1>9. UnderWay(q)' = UnderWay(q)
  BY <1>2, <1>3, <1>5, <1>6, UnderWayIs, UnderWayWillBe
<1>10. \A r \in Pipes : r = p \/ r = q
  BY DEF Pipes, Other, q
<1> QED BY <1>8, <1>9, <1>10 DEF SameStreams

LEMMA DirBlocksStreams ==
  ASSUME Safe, Safe', NEW p \in Pipes, DirBlocks(p)
  PROVE  SameStreams
<1> DEFINE q == Other(p)
           got == Received(p, Filled(p))
<1>1. /\ at = "process" /\ q \in Pipes /\ Other(q) = p /\ q # p
      /\ q \in Blocking \ reset
      /\ Recv(p, Filled(p)) /\ hold' = [to |-> q, data |-> got]
      /\ kout' = kout /\ outbuf' = outbuf
  BY DirBlocksIs, OtherIs
<1>2. /\ got \in Seq(Nat) /\ Held(p)' \in Seq(Nat) /\ kin'[p] \in Seq(Nat)
      /\ Joined(got, Joined(Held(p)', kin'[p])) = Joined(Held(p), kin[p])
      /\ Held(q)' = Held(q) /\ kin'[q] = kin[q]
  BY <1>1, RecvJoins
<1>3. /\ kout[q] \in Seq(Nat) /\ outbuf[q] \in Seq(Nat) /\ Held(p) \in Seq(Nat) /\ kin[p] \in Seq(Nat)
  BY <1>1, PlacesAre
<1> HIDE DEF got, q
<1>4. IsNone(outbuf[q])
  BY <1>1 DEF Safe, FullMeansUnsent, IsNone
<1>5. IsNone(Waiting(q)) /\ IsNone(Waiting(p))
  BY <1>1, WaitingIs
<1>6. Waiting(q)' = got /\ Waiting(p)' = Waiting(p) /\ Waiting(q) = outbuf[q]
  <2>1. Waiting(q)' = got /\ Waiting(p)' = <<>>
    BY <1>1 DEF Waiting
  <2> QED BY <1>4, <1>5, <2>1 DEF IsNone
<1>7. Chain(kout[q], got, outbuf[q], Held(p)', kin'[p])
        = Chain(kout[q], outbuf[q], outbuf[q], Held(p), kin[p])
  <2>1. IsDrawn(got, Held(p), kin[p], Held(p)', kin'[p])
    BY <1>2, <1>3 DEF IsDrawn
  <2> QED BY <1>3, <1>4, <2>1, ChainBlocks
<1>8. UnderWay(p)' = UnderWay(p)
  BY <1>1, <1>6, <1>7, UnderWayIs, UnderWayWillBe DEF q
<1>9. UnderWay(q)' = UnderWay(q)
  BY <1>1, <1>2, <1>6, UnderWayIs, UnderWayWillBe
<1>10. \A r \in Pipes : r = p \/ r = q
  BY DEF Pipes, Other, q
<1> QED BY <1>8, <1>9, <1>10 DEF SameStreams

LEMMA FlushStreams ==
  ASSUME Safe, Safe', NEW q \in Pipes, Flush(q)
  PROVE  SameStreams
<1> DEFINE p == Other(q)
           z == <<>>
           len == Len(Offered(q, z))
<1>1. outbuf[q] \in Seq(Nat) /\ z \in Seq(Nat) /\ Types
  BY PlacesAre, JoinedEmpty DEF Safe
<1>2. Len(Offered(q, z)) = Len(outbuf[q]) /\ Joined(outbuf[q], z) = outbuf[q]
  BY <1>1, JoinedEmpty DEF Offered, Joined
<1>3. PICK n \in Accepted(q, len) : Sent(q, z, n)
  BY <1>2 DEF Flush
<1>4. UNCHANGED <<kin, rcvbuf, hold>> /\ p \in Pipes /\ Other(p) = q /\ p # q
  BY OtherIs DEF Flush
<1> HIDE DEF z, p
<1>5. /\ kout' \in [Pipes -> Seq(Nat)] /\ outbuf' \in [Pipes -> Seq(Nat)]
      /\ kout'[q] \o outbuf'[q] = kout[q] \o (outbuf[q] \o z)
      /\ \A r \in Pipes \ {q} : kout'[r] = kout[r] /\ outbuf'[r] = outbuf[r]
  BY <1>1, <1>3, SentKeeps
<1>6. /\ kout'[q] \in Seq(Nat) /\ outbuf'[q] \in Seq(Nat)
      /\ Joined(kout'[q], outbuf'[q]) = Joined(kout[q], Joined(outbuf[q], z))
      /\ kout'[p] = kout[p] /\ outbuf'[p] = outbuf[p]
  BY <1>4, <1>5 DEF Joined
<1>7. /\ Held(p)' = Held(p) /\ Held(q)' = Held(q)
      /\ Waiting(q)' = Waiting(q) /\ Waiting(p)' = Waiting(p) /\ IsNone(Waiting(q))
  <2>1. at # "send"
    BY DEF Flush, Flushes
  <2> QED BY <1>4, <2>1, WaitingIs DEF Held, Waiting
<1>8. /\ kout[q] \in Seq(Nat) /\ Held(p) \in Seq(Nat) /\ kin[p] \in Seq(Nat)
      /\ Joined(Held(p), kin[p]) \in Seq(Nat)
  BY <1>4, PlacesAre, JoinedIs
<1>9. Joined(z, Joined(Held(p), kin[p])) = Joined(Held(p), kin[p])
  BY <1>8, JoinedEmpty DEF z
<1>10. Chain(kout'[q], Waiting(q), outbuf'[q], Held(p), kin[p])
        = Chain(kout[q], Waiting(q), outbuf[q], Held(p), kin[p])
  <2>1. IsDrawn(z, Held(p), kin[p], Held(p), kin[p])
    BY <1>1, <1>8, <1>9 DEF IsDrawn
  <2>2. IsPassed(z, kout[q], outbuf[q], kout'[q], outbuf'[q])
    BY <1>1, <1>6, <1>8 DEF IsPassed
  <2> QED BY <1>7, <2>1, <2>2, ChainSends
<1>11. UnderWay(p)' = UnderWay(p)
  BY <1>4, <1>7, <1>10, UnderWayIs, UnderWayWillBe
<1>12. UnderWay(q)' = UnderWay(q)
  BY <1>4, <1>6, <1>7, UnderWayIs, UnderWayWillBe DEF p
<1>13. \A r \in Pipes : r = p \/ r = q
  BY DEF Pipes, Other, p
<1> QED BY <1>11, <1>12, <1>13 DEF SameStreams

LEMMA SendContinuesStreams ==
  ASSUME Safe, SendContinues, NEW q \in Pipes, q = hold.to
  PROVE  SameStreams
<1> DEFINE p == Other(q)
           n == Smaller(Space(q), Len(hold.data))
           front == SubSeq(hold.data, 1, n)
           rest == SubSeq(hold.data, n + 1, Len(hold.data))
<1>1. /\ kout \in [Pipes -> Seq(Nat)] /\ hold \in [to : Pipes, data : Seq(Nat)]
      /\ KoutCap \in Nat /\ \A r \in Pipes : Len(kout[r]) <= KoutCap
  BY CapsAssumption DEF Safe, Types, TypeOK
<1>2. /\ hold.data \in Seq(Nat) /\ Len(hold.data) \in Nat
      /\ kout[q] \in Seq(Nat) /\ Len(kout[q]) \in Nat /\ Len(kout[q]) <= KoutCap
      /\ p \in Pipes /\ p # q /\ Other(p) = q
  BY <1>1, OtherIs
<1>3. n \in 0..Len(hold.data)
  BY <1>1, <1>2 DEF Smaller, Space
<1>4. front \in Seq(Nat) /\ rest \in Seq(Nat) /\ front \o rest = hold.data
  BY <1>2, <1>3, ConcatParts, FrontOf
<1>5. /\ kout' = [kout EXCEPT ![q] = @ \o front]
      /\ IF rest # <<>> THEN hold' = [hold EXCEPT !.data = rest] ELSE hold' = NoHold
      /\ UNCHANGED <<kin, rcvbuf, outbuf>>
  BY DEF SendContinues, buffers
<1> HIDE DEF n, front, rest, p
<1>6. kout'[q] = Joined(kout[q], front) /\ kout'[p] = kout[p]
  BY <1>1, <1>2, <1>5 DEF Joined
<1>7. Waiting(q) = Joined(front, rest) /\ Waiting(q)' = rest /\ Waiting(p) = <<>> /\ Waiting(p)' = <<>>
  <2>1. CASE rest # <<>>
    BY <1>1, <1>2, <1>4, <1>5, <2>1 DEF Waiting, Joined
  <2>2. CASE rest = <<>>
    BY <1>1, <1>2, <1>4, <1>5, <2>2 DEF Waiting, Joined, NoHold
  <2> QED BY <2>1, <2>2
<1>8. Joined(kout'[q], rest) = Joined(kout[q], Joined(front, rest))
  BY <1>2, <1>4, <1>6, JoinedTwice
<1>9. Held(p)' = Held(p) /\ Held(q)' = Held(q)
  BY <1>5 DEF Held
<1>10. UnderWay(p)' = UnderWay(p)
  <2>1. Chain(kout'[q], rest, outbuf[q], Held(p), kin[p])
          = Chain(kout[q], Joined(front, rest), outbuf[q], Held(p), kin[p])
    BY <1>8 DEF Chain
  <2> QED BY <1>2, <1>5, <1>7, <1>9, <2>1, UnderWayIs, UnderWayWillBe
<1>11. UnderWay(q)' = UnderWay(q)
  <2>1. Other(q) = p
    BY DEF p
  <2> QED BY <1>2, <1>5, <1>6, <1>7, <1>9, <2>1, UnderWayIs, UnderWayWillBe
<1>12. \A r \in Pipes : r = p \/ r = q
  BY DEF Pipes, Other, p
<1> QED BY <1>10, <1>11, <1>12 DEF SameStreams

LEMMA SendFallsShortStreams ==
  ASSUME Safe, SendFallsShort, NEW q \in Pipes, q = hold.to
  PROVE  SameStreams
<1> DEFINE p == Other(q)
           z == <<>>
<1>1. /\ hold \in [to : Pipes, data : Seq(Nat)] /\ outbuf \in [Pipes -> Seq(Nat)]
      /\ hold.data \in Seq(Nat)
      /\ p \in Pipes /\ p # q /\ Other(p) = q
  BY OtherIs DEF Safe, Types, TypeOK
<1>2. /\ at = "send" /\ outbuf' = [outbuf EXCEPT ![q] = hold.data]
      /\ hold' = NoHold /\ UNCHANGED <<kin, kout, rcvbuf>>
  BY DEF SendFallsShort, kernel
<1>3. outbuf[q] = z
  BY <1>2 DEF Safe, HoldInv
<1>4. outbuf'[q] = hold.data /\ outbuf'[p] = outbuf[p]
  BY <1>1, <1>2
<1>5. Waiting(q) = hold.data /\ Waiting(p) = z /\ Waiting(q)' = z /\ Waiting(p)' = z
  BY <1>1, <1>2 DEF Waiting, NoHold
<1>6. Held(p)' = Held(p) /\ Held(q)' = Held(q)
  BY <1>2 DEF Held
<1>7. kout[q] \in Seq(Nat) /\ Held(p) \in Seq(Nat) /\ kin[p] \in Seq(Nat)
  BY <1>1, PlacesAre
<1>8. IsNone(z)
  BY DEF IsNone
<1>9. Other(q) = p
  OBVIOUS
<1>10. PICK data \in Seq(Nat) : data = hold.data
  BY <1>1
<1> HIDE DEF p, z
<1>11. UnderWay(p)' = UnderWay(p)
  <2>1. Chain(kout[q], z, data, Held(p), kin[p]) = Chain(kout[q], data, z, Held(p), kin[p])
    <3>1. PICK a \in Seq(Nat), d \in Seq(Nat), e \in Seq(Nat) : a = kout[q] /\ d = Held(p) /\ e = kin[p]
      BY <1>7
    <3>2. Chain(a, z, data, d, e) = Chain(a, data, z, d, e)
      BY <1>8, <1>10, ChainSkips
    <3> QED BY <3>1, <3>2
  <2> QED BY <1>1, <1>2, <1>3, <1>4, <1>5, <1>6, <1>10, <2>1, UnderWayIs, UnderWayWillBe
<1>12. UnderWay(q)' = UnderWay(q)
  BY <1>1, <1>2, <1>4, <1>5, <1>6, <1>9, UnderWayIs, UnderWayWillBe
<1>13. \A r \in Pipes : r = p \/ r = q
  BY <1>1, <1>9 DEF Pipes, Other
<1> QED BY <1>11, <1>12, <1>13 DEF SameStreams

LEMMA UnchangedStreams ==
  ASSUME UNCHANGED <<kin, kout, rcvbuf, outbuf, hold>>
  PROVE  SameStreams
BY DEF SameStreams, UnderWay, Held, Other

\* What is left of every stream when the slot dies.
CutStreams == \A p \in Pipes :
  /\ Len(kout[Other(p)]) \in 0..Len(UnderWay(p))
  /\ UnderWay(p)' = SubSeq(UnderWay(p), 1, Len(kout[Other(p)]))

LEMMA DieStreams ==
  ASSUME Safe, Die
  PROVE  CutStreams
<1> SUFFICES ASSUME NEW p \in Pipes
             PROVE  /\ Len(kout[Other(p)]) \in 0..Len(UnderWay(p))
                    /\ UnderWay(p)' = SubSeq(UnderWay(p), 1, Len(kout[Other(p)]))
  BY DEF CutStreams
<1> DEFINE q == Other(p)
           z == <<>>
<1>1. q \in Pipes
  BY OtherIs
<1>2. /\ rcvbuf' = [t \in Pipes |-> NewRing] /\ outbuf' = [t \in Pipes |-> <<>>]
      /\ hold' = NoHold /\ kin' = [t \in Pipes |-> <<>>] /\ kout' = kout
  BY DEF Die
<1>3. Waiting(q)' = z /\ outbuf'[q] = z /\ Held(p)' = z /\ kin'[p] = z /\ kout'[q] = kout[q]
  BY <1>1, <1>2, NewRingIs DEF Waiting, NoHold, Held
<1>4. /\ kout[q] \in Seq(Nat) /\ Rest(p) \in Seq(Nat)
      /\ UnderWay(p) = Joined(kout[q], Rest(p))
  BY UnderWaySplits
<1>5. IsNone(z) /\ z \in Seq(Nat) /\ \A s \in Seq(Nat) : Joined(s, z) = s /\ Joined(z, s) = s
  BY JoinedEmpty DEF IsNone
<1>6. UnderWay(p)' = Chain(kout[q], z, z, z, z)
  BY <1>3, UnderWayWillBe
<1> HIDE DEF q, z
<1>7. Chain(kout[q], z, z, z, z) = kout[q]
  <2>1. Chain(kout[q], z, z, z, z) = Joined(kout[q], Joined(z, Joined(z, z)))
    BY <1>4, <1>5, ChainSkips
  <2> QED BY <1>4, <1>5, <2>1
<1> QED BY <1>4, <1>6, <1>7, JoinedCut DEF q

LEMMA PeerSendsStreams ==
  ASSUME Safe, NEW p \in Pipes, PeerSends(p)
  PROVE  /\ UnderWay(p)' = UnderWay(p) \o <<sent[p] + 1>>
         /\ \A r \in Pipes \ {p} : UnderWay(r)' = UnderWay(r)
<1> DEFINE q == Other(p)
           x == <<sent[p] + 1>>
<1>1. /\ q \in Pipes /\ kin \in [Pipes -> Seq(Nat)] /\ sent[p] \in Nat
      /\ kout[q] \in Seq(Nat) /\ outbuf[q] \in Seq(Nat) /\ Waiting(q) \in Seq(Nat)
      /\ Held(p) \in Seq(Nat) /\ kin[p] \in Seq(Nat)
  BY OtherIs, PlacesAre DEF Safe, Types, TypeOK
<1>2. /\ kin' = [kin EXCEPT ![p] = Append(@, sent[p] + 1)]
      /\ UNCHANGED <<kout, rcvbuf, outbuf, hold>>
  BY DEF PeerSends, buffers
<1>3. x \in Seq(Nat) /\ Append(kin[p], sent[p] + 1) = Joined(kin[p], x)
  <2>1. PICK y \in Nat : y = sent[p] + 1
    BY <1>1
  <2>2. <<y>> \in Seq(Nat) /\ Append(kin[p], y) = kin[p] \o <<y>>
    BY <1>1
  <2> QED BY <2>1, <2>2 DEF Joined
<1> HIDE DEF x, q
<1>4. kin'[p] = Joined(kin[p], x) /\ \A r \in Pipes \ {p} : kin'[r] = kin[r]
  BY <1>1, <1>2, <1>3
<1>5. Chain(kout[q], Waiting(q), outbuf[q], Held(p), Joined(kin[p], x))
        = Joined(Chain(kout[q], Waiting(q), outbuf[q], Held(p), kin[p]), x)
  <2> DEFINE l == Joined(Joined(Joined(kout[q], Waiting(q)), outbuf[q]), Held(p))
  <2>1. Joined(kout[q], Waiting(q)) \in Seq(Nat)
    BY <1>1, JoinedIs
  <2>2. Joined(Joined(kout[q], Waiting(q)), outbuf[q]) \in Seq(Nat)
    BY <1>1, <2>1, JoinedIs
  <2>3. l \in Seq(Nat)
    BY <1>1, <2>2, JoinedIs
  <2>4. /\ Chain(kout[q], Waiting(q), outbuf[q], Held(p), kin[p]) = Joined(l, kin[p])
        /\ Chain(kout[q], Waiting(q), outbuf[q], Held(p), Joined(kin[p], x)) = Joined(l, Joined(kin[p], x))
    BY DEF Chain
  <2> HIDE DEF l
  <2> QED BY <1>1, <1>3, <2>3, <2>4, JoinedTwice
<1>6. \A r \in Pipes : Held(r)' = Held(r) /\ Waiting(r)' = Waiting(r)
  BY <1>2 DEF Held, Waiting
<1>7. UnderWay(p)' = Joined(UnderWay(p), x)
  BY <1>1, <1>2, <1>4, <1>5, <1>6, UnderWayIs, UnderWayWillBe DEF q
<1>8. ASSUME NEW r \in Pipes \ {p}
      PROVE  UnderWay(r)' = UnderWay(r)
  BY <1>2, <1>4, <1>6, OtherIs, UnderWayIs, UnderWayWillBe
<1> QED BY <1>7, <1>8 DEF Joined, x

LEMMA PeerReadsStreams ==
  ASSUME Safe, NEW q \in Pipes, PeerReads(q), NEW p \in Pipes, p = Other(q)
  PROVE  /\ UnderWay(p) # <<>>
         /\ UnderWay(p)' = SubSeq(UnderWay(p), 2, Len(UnderWay(p)))
         /\ \A r \in Pipes \ {p} : UnderWay(r)' = UnderWay(r)
<1>1. /\ p \in Pipes /\ Other(p) = q /\ p # q
      /\ kout \in [Pipes -> Seq(Nat)]
      /\ kout[q] \in Seq(Nat) /\ outbuf[q] \in Seq(Nat) /\ Waiting(q) \in Seq(Nat)
      /\ Held(p) \in Seq(Nat) /\ kin[p] \in Seq(Nat)
  BY OtherIs, PlacesAre DEF Safe, Types, TypeOK
<1>2. /\ kout[q] # <<>> /\ kout' = [kout EXCEPT ![q] = Tail(@)]
      /\ UNCHANGED <<kin, rcvbuf, outbuf, hold>>
  BY DEF PeerReads, buffers
<1>3. kout'[q] = Tail(kout[q]) /\ \A s \in Pipes \ {q} : kout'[s] = kout[s]
  BY <1>1, <1>2
<1>4. Tail(kout[q]) \in Seq(Nat)
  BY <1>1, <1>2
<1>5. /\ UnderWay(p) = Joined(kout[q], Rest(p)) /\ Rest(p) \in Seq(Nat)
  BY <1>1, UnderWaySplits
<1>6. \A s \in Pipes : Held(s)' = Held(s) /\ Waiting(s)' = Waiting(s)
  BY <1>2 DEF Held, Waiting
<1>7. UnderWay(p)' = Joined(Tail(kout[q]), Rest(p))
  <2>1. UnderWay(p)' = Chain(Tail(kout[q]), Waiting(q), outbuf[q], Held(p), kin[p])
    BY <1>1, <1>2, <1>3, <1>6, UnderWayWillBe
  <2> QED BY <1>1, <1>4, <2>1, RestIs
<1>8. /\ Joined(kout[q], Rest(p)) # <<>>
      /\ Joined(Tail(kout[q]), Rest(p)) = SubSeq(Joined(kout[q], Rest(p)), 2, Len(Joined(kout[q], Rest(p))))
  BY <1>1, <1>2, <1>5, JoinedReads
<1>9. ASSUME NEW s \in Pipes \ {p}
      PROVE  UnderWay(s)' = UnderWay(s)
  <2>1. Other(s) \in Pipes \ {q}
    BY <1>1, OtherIs
  <2> QED BY <1>2, <1>3, <1>6, <2>1, UnderWayIs, UnderWayWillBe
<1> QED BY <1>5, <1>7, <1>8, <1>9

-----------------------------------------------------------------------------
(* Every step is a step of Channel or none.                                *)

LEMMA UnderWaySeq ==
  ASSUME Safe, NEW p \in Pipes
  PROVE  UnderWay(p) \in Seq(Nat)
BY UnderWaySplits, JoinedIs

\* What the worker does leaves the streams alone, unless the slot dies.
LEMMA WorkerStreams ==
  ASSUME Safe, Safe', Worker
  PROVE  \/ SameStreams /\ UNCHANGED <<sent, arrived>> /\ at # "dead" /\ at' # "dead"
         \/ Die /\ at # "dead"
<1>1. CASE CheckAll \/ Poll
  <2>1. /\ at = "wait" /\ at' = "process"
        /\ UNCHANGED <<sent, arrived, kin, kout, rcvbuf, outbuf, hold>>
    BY <1>1 DEF CheckAll, Poll, WaitReturns, peers, kernel, buffers
  <2> QED BY <2>1, UnchangedStreams
<1>2. CASE Again
  <2>1. /\ at = "process" /\ at' = "wait"
        /\ UNCHANGED <<sent, arrived, kin, kout, rcvbuf, outbuf, hold>>
    BY <1>2 DEF Again, peers, kernel, buffers
  <2> QED BY <2>1, UnchangedStreams
<1>3. CASE Closed
  BY <1>3 DEF Closed
<1>4. ASSUME NEW p \in Pipes, Process(p)
      PROVE  \/ SameStreams /\ UNCHANGED <<sent, arrived>> /\ at # "dead" /\ at' # "dead"
             \/ Die /\ at # "dead"
  <2>1. CASE DirFails(p) \/ DirSendFails(p)
    BY <2>1 DEF DirFails, DirSendFails, Reads
  <2>2. CASE DirSends(p)
    <3>1. SameStreams
      BY <2>2, DirSendsStreams
    <3> QED BY <2>2, <3>1, DirSendsIs DEF peers
  <2>3. CASE DirBlocks(p)
    <3>1. SameStreams
      BY <2>3, DirBlocksStreams
    <3> QED BY <2>3, <3>1, DirBlocksIs DEF peers
  <2>4. CASE FlushFails(p)
    BY <2>4 DEF FlushFails, Flushes
  <2>5. CASE Flush(p)
    <3>1. SameStreams
      BY <2>5, FlushStreams
    <3> QED BY <2>5, <3>1 DEF Flush, Flushes, peers
  <2> QED BY <1>4, <2>1, <2>2, <2>3, <2>4, <2>5 DEF Process
<1>5. CASE SendContinues
  <2>1. PICK q \in Pipes : q = hold.to
    BY DEF Safe, Types, TypeOK
  <2>2. SameStreams
    BY <1>5, <2>1, SendContinuesStreams
  <2>3. at = "send" /\ at' \in {"send", "process"} /\ UNCHANGED <<sent, arrived>>
    BY <1>5 DEF SendContinues, peers
  <2> QED BY <2>2, <2>3
<1>6. CASE SendBreaks
  BY <1>6 DEF SendBreaks
<1>7. CASE SendFallsShort
  <2>1. PICK q \in Pipes : q = hold.to
    BY DEF Safe, Types, TypeOK
  <2>2. SameStreams
    BY <1>7, <2>1, SendFallsShortStreams
  <2> QED BY <1>7, <2>2 DEF SendFallsShort, peers
<1> QED BY <1>1, <1>2, <1>3, <1>4, <1>5, <1>6, <1>7 DEF Worker

\* q continues a stream of which n bytes have been read.
Continues(q, n) == \A k \in 1..Len(q) : q[k] = n + k

LEMMA ContinuesWritten ==
  ASSUME NEW q \in Seq(Nat), NEW n \in Nat, NEW m \in Nat, Continues(q, n), n + Len(q) = m
  PROVE  Continues(q \o <<m + 1>>, n) /\ n + Len(q \o <<m + 1>>) = m + 1
<1> DEFINE x == <<m + 1>>
<1>1. x \in Seq(Nat) /\ Len(x) = 1 /\ x[1] = m + 1 /\ Len(q) \in Nat
  OBVIOUS
<1> HIDE DEF x
<1>2. /\ Len(q \o x) = Len(q) + Len(x)
      /\ \A k \in 1..Len(q) + Len(x) : (q \o x)[k] = IF k <= Len(q) THEN q[k] ELSE x[k - Len(q)]
  BY <1>1, ConcatOf
<1>3. ASSUME NEW k \in 1..Len(q) + Len(x)
      PROVE  (q \o x)[k] = n + k
  <2>1. CASE k <= Len(q)
    <3>1. k \in 1..Len(q)
      BY <1>1, <2>1
    <3> QED BY <1>2, <2>1, <3>1 DEF Continues
  <2>2. CASE ~(k <= Len(q))
    <3>1. k - Len(q) = 1 /\ n + k = m + 1
      BY <1>1, <2>2
    <3> QED BY <1>1, <1>2, <2>2, <3>1
  <2> QED BY <2>1, <2>2
<1>4. Len(q \o x) = Len(q) + 1
  BY <1>1, <1>2
<1>5. n + (Len(q) + 1) = m + 1
  BY <1>1
<1> QED BY <1>1, <1>2, <1>3, <1>4, <1>5 DEF x, Continues

LEMMA ContinuesRead ==
  ASSUME NEW q \in Seq(Nat), NEW n \in Nat, Continues(q, n), q # <<>>
  PROVE  /\ Continues(SubSeq(q, 2, Len(q)), n + 1)
         /\ n + 1 + Len(SubSeq(q, 2, Len(q))) = n + Len(q)
         /\ q[1] = n + 1
<1>1. 1 \in 0..Len(q) /\ Len(q) \in 1..Len(q) /\ 1 \in 1..Len(q) /\ Len(q) \in Nat
  OBVIOUS
<1>2. /\ Len(SubSeq(q, 1 + 1, Len(q))) = Len(q) - 1
      /\ \A k \in 1..Len(q) - 1 : SubSeq(q, 1 + 1, Len(q))[k] = q[1 + k]
  BY <1>1, PartOf
<1>3. \A k \in 1..Len(q) - 1 : q[1 + k] = n + 1 + k
  BY <1>1 DEF Continues
<1>4. q[1] = n + 1
  BY <1>1 DEF Continues
<1>5. 1 + 1 = 2
  OBVIOUS
<1>6. n + 1 + (Len(q) - 1) = n + Len(q)
  BY <1>1
<1> QED BY <1>2, <1>3, <1>4, <1>5, <1>6 DEF Continues

LEMMA ContinuesCut ==
  ASSUME NEW q \in Seq(Nat), NEW n \in Nat, Continues(q, n), NEW c \in 0..Len(q)
  PROVE  Continues(SubSeq(q, 1, c), n)
<1>1. Len(SubSeq(q, 1, c)) = c /\ \A k \in 1..c : SubSeq(q, 1, c)[k] = q[k]
  BY FrontOf
<1>2. \A k \in 1..c : k \in 1..Len(q)
  OBVIOUS
<1> QED BY <1>1, <1>2 DEF Continues

LEMMA StreamInvIs ==
  StreamInv <=> \A p \in Pipes : /\ Continues(UnderWay(p), arrived[Other(p)])
                                 /\ at # "dead" => arrived[Other(p)] + Len(UnderWay(p)) = sent[p]
BY DEF StreamInv, Continues

\* The steps of Channel that a step stands for.
LEMMA SameRefines ==
  ASSUME SameStreams, UNCHANGED <<sent, arrived>>, (at' # "dead") = (at # "dead")
  PROVE  UNCHANGED Abstract!vars /\ (StreamInv => StreamInv')
<1>1. \A p \in Pipes : UnderWay(p)' = UnderWay(p)
  BY DEF SameStreams
<1>2. UNCHANGED Abstract!vars
  BY <1>1 DEF Abstract!vars
<1>3. StreamInv => StreamInv'
  BY <1>1 DEF StreamInv
<1> QED BY <1>2, <1>3

LEMMA DieRefines ==
  ASSUME Safe, StreamInv, Die, at # "dead"
  PROVE  Abstract!Break /\ StreamInv'
<1>1. CutStreams /\ at' = "dead" /\ UNCHANGED <<sent, arrived>>
  BY DieStreams DEF Die, peers
<1> DEFINE queue == [p \in Pipes |-> UnderWay(p)]
           cut == [p \in Pipes |-> Len(kout[Other(p)])]
<1>2. \A p \in Pipes : /\ cut[p] \in 0..Len(queue[p])
                       /\ UnderWay(p)' = SubSeq(queue[p], 1, cut[p])
  BY <1>1 DEF CutStreams
<1>3. cut \in [Pipes -> UNION {0..Len(queue[p]) : p \in Pipes}]
  BY <1>2
<1>4. \A p \in Pipes : cut[p] <= Len(queue[p])
  <2> SUFFICES ASSUME NEW p \in Pipes
               PROVE  cut[p] <= Len(queue[p])
    OBVIOUS
  <2>1. Len(queue[p]) \in Nat
    BY UnderWaySeq
  <2>2. cut[p] \in 0..Len(queue[p])
    BY <1>2
  <2> HIDE DEF cut, queue
  <2> QED BY <2>1, <2>2
<1>5. [p \in Pipes |-> UnderWay(p)]' = [p \in Pipes |-> SubSeq(queue[p], 1, cut[p])]
  BY <1>2
<1>6. Abstract!Break
  BY <1>1, <1>3, <1>4, <1>5 DEF Abstract!Break
<1>7. ASSUME NEW p \in Pipes
      PROVE  Continues(UnderWay(p)', arrived[Other(p)])
  <2>1. Continues(UnderWay(p), arrived[Other(p)])
    BY StreamInvIs
  <2>2. UnderWay(p) \in Seq(Nat) /\ arrived[Other(p)] \in Nat
    BY UnderWaySeq, OtherIs DEF Safe, Types, TypeOK
  <2>3. PICK q \in Seq(Nat) : q = UnderWay(p)
    BY <2>2
  <2>4. PICK c \in 0..Len(q) : UnderWay(p)' = SubSeq(q, 1, c)
    BY <1>1, <2>3 DEF CutStreams
  <2>5. PICK n \in Nat : n = arrived[Other(p)]
    BY <2>2
  <2> QED BY <2>1, <2>4, <2>5, <2>3, ContinuesCut
<1>8. StreamInv'
  BY <1>1, <1>7 DEF StreamInv, Continues
<1> QED BY <1>6, <1>8

LEMMA OneWritten ==
  ASSUME NEW n \in Nat
  PROVE  [i \in 1..(n + 1) - n |-> n + i] = <<n + 1>>
<1> DEFINE s == [i \in 1..(n + 1) - n |-> n + i]
<1>1. 1..(n + 1) - n = 1..1
  OBVIOUS
<1>2. s \in Seq(Nat) /\ Len(s) = 1 /\ s[1] = n + 1
  BY <1>1
<1> HIDE DEF s
<1>3. <<n + 1>> \in Seq(Nat) /\ Len(<<n + 1>>) = 1 /\ <<n + 1>>[1] = n + 1
  OBVIOUS
<1>4. \A k \in 1..1 : k = 1
  OBVIOUS
<1>5. s = <<n + 1>>
  BY <1>2, <1>3, <1>4, SameSeq
<1> QED BY <1>5 DEF s

LEMMA PeerSendsRefines ==
  ASSUME Safe, StreamInv, NEW p \in Pipes, PeerSends(p)
  PROVE  Abstract!Write(p) /\ StreamInv'
<1> DEFINE queue == [r \in Pipes |-> UnderWay(r)]
<1>1. /\ sent \in [Pipes -> Nat] /\ arrived \in [Pipes -> Nat] /\ sent[p] \in Nat
      /\ arrived[Other(p)] \in Nat /\ UnderWay(p) \in Seq(Nat)
  BY OtherIs, UnderWaySeq DEF Safe, Types, TypeOK
<1>2. /\ at # "dead" /\ at' = at /\ sent' = [sent EXCEPT ![p] = @ + 1] /\ arrived' = arrived
  BY DEF PeerSends
<1>3. /\ sent' \in [Pipes -> Nat] /\ sent'[p] = sent[p] + 1
      /\ \A r \in Pipes \ {p} : sent'[r] = sent[r]
  BY <1>1, <1>2
<1>4. /\ UnderWay(p)' = UnderWay(p) \o <<sent[p] + 1>>
      /\ \A r \in Pipes \ {p} : UnderWay(r)' = UnderWay(r)
  BY PeerSendsStreams
<1>5. [i \in 1..sent'[p] - sent[p] |-> sent[p] + i] = <<sent[p] + 1>>
  BY <1>1, <1>3, OneWritten
<1>6. queue' = [queue EXCEPT ![p] = @ \o [i \in 1..sent'[p] - sent[p] |-> sent[p] + i]]
  BY <1>4, <1>5
<1>7. Abstract!More(sent, p)
  BY <1>1, <1>3 DEF Abstract!More
<1>8. Abstract!Write(p)
  BY <1>2, <1>6, <1>7 DEF Abstract!Write
<1>9. /\ Continues(UnderWay(p)', arrived[Other(p)])
      /\ arrived[Other(p)] + Len(UnderWay(p)') = sent'[p]
  <2>1. Continues(UnderWay(p), arrived[Other(p)]) /\ arrived[Other(p)] + Len(UnderWay(p)) = sent[p]
    BY <1>2, StreamInvIs
  <2>2. PICK q \in Seq(Nat), n \in Nat, m \in Nat :
          q = UnderWay(p) /\ n = arrived[Other(p)] /\ m = sent[p]
    BY <1>1
  <2>3. Continues(q \o <<m + 1>>, n) /\ n + Len(q \o <<m + 1>>) = m + 1
    BY <2>1, <2>2, ContinuesWritten
  <2> QED BY <1>3, <1>4, <2>2, <2>3
<1>10. StreamInv'
  BY <1>2, <1>3, <1>4, <1>9 DEF StreamInv, Continues
<1> QED BY <1>8, <1>10

LEMMA PeerReadsRefines ==
  ASSUME Safe, StreamInv, NEW q \in Pipes, PeerReads(q), NEW p \in Pipes, p = Other(q)
  PROVE  Abstract!Read(p) /\ StreamInv'
<1> DEFINE queue == [r \in Pipes |-> UnderWay(r)]
           received == [r \in Pipes |-> arrived[Other(r)]]
<1>1. Other(p) = q /\ \A r \in Pipes \ {p} : Other(r) \in Pipes \ {q}
  BY OtherIs DEF Pipes, Other
<1>2. /\ arrived \in [Pipes -> Nat] /\ arrived[q] \in Nat /\ UnderWay(p) \in Seq(Nat)
  BY UnderWaySeq DEF Safe, Types, TypeOK
<1>3. /\ at' = at /\ sent' = sent /\ arrived' = [arrived EXCEPT ![q] = @ + 1]
  BY DEF PeerReads
<1>4. /\ arrived' \in [Pipes -> Nat] /\ arrived'[q] = arrived[q] + 1
      /\ \A r \in Pipes \ {q} : arrived'[r] = arrived[r]
  BY <1>2, <1>3
<1>5. /\ UnderWay(p) # <<>>
      /\ UnderWay(p)' = SubSeq(UnderWay(p), 2, Len(UnderWay(p)))
      /\ \A r \in Pipes \ {p} : UnderWay(r)' = UnderWay(r)
  BY PeerReadsStreams
<1>6. /\ Continues(UnderWay(p)', arrived[q] + 1)
      /\ arrived[q] + 1 + Len(UnderWay(p)') = arrived[q] + Len(UnderWay(p))
      /\ UnderWay(p)[1] = arrived[q] + 1
  <2>1. Continues(UnderWay(p), arrived[q])
    BY <1>1, StreamInvIs
  <2>2. PICK s \in Seq(Nat), n \in Nat : s = UnderWay(p) /\ n = arrived[q]
    BY <1>2
  <2>3. /\ Continues(SubSeq(s, 2, Len(s)), n + 1) /\ s[1] = n + 1
        /\ n + 1 + Len(SubSeq(s, 2, Len(s))) = n + Len(s)
    BY <1>5, <2>1, <2>2, ContinuesRead
  <2>4. UnderWay(p)' = SubSeq(s, 2, Len(s))
    BY <1>5, <2>2
  <2> QED BY <2>2, <2>3, <2>4
<1>7. StreamInv'
  <2> SUFFICES ASSUME NEW r \in Pipes
               PROVE  /\ Continues(UnderWay(r)', arrived'[Other(r)])
                      /\ at' # "dead" => arrived'[Other(r)] + Len(UnderWay(r)') = sent'[r]
    BY DEF StreamInv, Continues
  <2>1. /\ Continues(UnderWay(r), arrived[Other(r)])
        /\ at # "dead" => arrived[Other(r)] + Len(UnderWay(r)) = sent[r]
    BY StreamInvIs
  <2>2. CASE r = p
    BY <1>1, <1>3, <1>4, <1>6, <2>1, <2>2
  <2>3. CASE r # p
    <3>1. UnderWay(r)' = UnderWay(r) /\ arrived'[Other(r)] = arrived[Other(r)]
      BY <1>1, <1>4, <1>5, <2>3
    <3> QED BY <1>3, <2>1, <3>1
  <2> QED BY <2>2, <2>3
<1>8. received'[p] = received[p] + 1 /\ received[p] \in Nat
  BY <1>1, <1>2, <1>4
<1>9. Abstract!More(received, p)
  <2>1. received' \in [Pipes -> Nat]
    BY <1>4, OtherIs
  <2>2. \A r \in Pipes \ {p} : received'[r] = received[r]
    BY <1>1, <1>4
  <2>3. received'[p] > received[p]
    BY <1>8
  <2> HIDE DEF received
  <2> QED BY <2>1, <2>2, <2>3 DEF Abstract!More
<1>10. received'[p] - received[p] = 1
  BY <1>8
<1>11. queue[p][1] = received[p] + 1
  BY <1>1, <1>6
<1>12. queue' = [queue EXCEPT ![p] = SubSeq(@, received'[p] - received[p] + 1, Len(@))]
  <2>1. received'[p] - received[p] + 1 = 2
    BY <1>10
  <2> QED BY <1>5, <2>1
<1>13. received'[p] - received[p] <= Len(queue[p])
  <2>1. Len(UnderWay(p)) \in Nat \ {0}
    BY <1>2, <1>5
  <2> QED BY <1>10, <2>1
<1>14. UNCHANGED <<at # "dead", sent>>
  BY <1>3
<1>15. Abstract!Read(p)
  BY <1>9, <1>11, <1>12, <1>13, <1>14 DEF Abstract!Read, Abstract!More
<1> QED BY <1>7, <1>15

LEMMA StepRefines ==
  ASSUME Safe, Safe', StreamInv, [Next]_vars
  PROVE  [Abstract!Next]_(Abstract!vars) /\ StreamInv'
<1>1. CASE Worker
  <2>1. CASE SameStreams /\ UNCHANGED <<sent, arrived>> /\ at # "dead" /\ at' # "dead"
    BY <2>1, SameRefines
  <2>2. CASE Die /\ at # "dead"
    BY <2>2, DieRefines DEF Abstract!Next
  <2> QED BY <1>1, <2>1, <2>2, WorkerStreams
<1>2. ASSUME NEW q \in Pipes, Peer(q)
      PROVE  [Abstract!Next]_(Abstract!vars) /\ StreamInv'
  <2>1. CASE PeerSends(q)
    BY <2>1, PeerSendsRefines DEF Abstract!Next
  <2>2. CASE PeerReads(q)
    <3>1. PICK p \in Pipes : p = Other(q)
      BY OtherIs
    <3> QED BY <2>2, <3>1, PeerReadsRefines DEF Abstract!Next
  <2>3. CASE PeerEnds(q) \/ PeerResets(q)
    <3>1. UNCHANGED <<sent, arrived, at, kin, kout, rcvbuf, outbuf, hold>>
      BY <2>3 DEF PeerEnds, PeerResets, kernel, buffers
    <3>2. SameStreams
      BY <3>1, UnchangedStreams
    <3> QED BY <3>1, <3>2, SameRefines
  <2> QED BY <1>2, <2>1, <2>2, <2>3 DEF Peer
<1>3. CASE UNCHANGED vars
  <2>1. UNCHANGED <<sent, arrived, at, kin, kout, rcvbuf, outbuf, hold>>
    BY <1>3 DEF vars, peers, kernel, buffers
  <2>2. SameStreams
    BY <2>1, UnchangedStreams
  <2> QED BY <2>1, <2>2, SameRefines
<1> QED BY <1>1, <1>2, <1>3 DEF Next

LEMMA InitRefines ==
  ASSUME Init
  PROVE  Abstract!Init /\ StreamInv
<1>1. /\ sent \in [Pipes -> 0..Prefetch] /\ Prefetch \in 0..RcvCap - 1 /\ RcvCap \in Nat \ {0}
  BY CapsAssumption DEF Init
<1>2. ASSUME NEW p \in Pipes
      PROVE  UnderWay(p) = Bytes(sent[p]) /\ sent[p] \in Nat
  <2>1. sent[p] \in Nat /\ sent[p] < RcvCap
    BY <1>1
  <2>2. rcvbuf[p] = Peeked(Fill(NewRing, RcvCap, <<Unused>> \o Bytes(sent[p])), RcvCap, 1)
    BY DEF Init
  <2>3. Held(p) = Bytes(sent[p])
    BY <2>1, <2>2, DrawnIs DEF Held
  <2>4. /\ kout[Other(p)] = <<>> /\ Waiting(Other(p)) = <<>> /\ outbuf[Other(p)] = <<>> /\ kin[p] = <<>>
    BY OtherIs DEF Init, Waiting, NoHold
  <2>5. UnderWay(p) = Chain(<<>>, <<>>, <<>>, Bytes(sent[p]), <<>>)
    BY <2>3, <2>4, UnderWayIs
  <2>6. Chain(<<>>, <<>>, <<>>, Bytes(sent[p]), <<>>) = Bytes(sent[p])
    <3>1. PICK b \in Seq(Nat) : b = Bytes(sent[p])
      BY <2>1, BytesIs
    <3>2. PICK z \in Seq(Nat) : z = <<>>
      BY JoinedEmpty
    <3>3. \A s \in Seq(Nat) : Joined(s, z) = s /\ Joined(z, s) = s
      BY <3>2, JoinedEmpty
    <3>4. Chain(z, z, z, b, z) = b
      BY <3>3 DEF Chain
    <3> QED BY <3>1, <3>2, <3>4
  <2> QED BY <2>1, <2>5, <2>6
<1>3. at = "wait" /\ \A p \in Pipes : arrived[Other(p)] = 0
  BY OtherIs DEF Init
<1>4. sent \in [Pipes -> Nat]
  BY <1>1
<1>5. [p \in Pipes |-> arrived[Other(p)]] = [p \in Pipes |-> 0]
  BY <1>3
<1>6. [p \in Pipes |-> UnderWay(p)] = [p \in Pipes |-> [i \in 1..sent[p] |-> i]]
  BY <1>2 DEF Bytes
<1>7. Abstract!Init
  BY <1>3, <1>4, <1>5, <1>6 DEF Abstract!Init
<1>8. StreamInv
  <2> SUFFICES ASSUME NEW p \in Pipes
               PROVE  /\ \A k \in 1..Len(UnderWay(p)) : UnderWay(p)[k] = arrived[Other(p)] + k
                      /\ arrived[Other(p)] + Len(UnderWay(p)) = sent[p]
    BY DEF StreamInv
  <2>1. PICK n \in Nat : n = sent[p] /\ UnderWay(p) = Bytes(n)
    BY <1>2
  <2>2. Len(Bytes(n)) = n /\ \A k \in 1..n : Bytes(n)[k] = k
    BY BytesIs
  <2> QED BY <1>3, <2>1, <2>2
<1> QED BY <1>7, <1>8

-----------------------------------------------------------------------------
(* The theorems.                                                           *)

\* TypeOK, for any capacities and any peers.
THEOREM TypeCorrect == Spec => []TypeOK
<1>1. Safe => TypeOK
  BY DEF Safe, Types
<1> QED BY <1>1, SafeHolds, PTL

\* The ready bit never outlives the bytes, or the end, it stands for: ::recv on the accepted
\* socket, which blocks, is only called when it returns at once.
THEOREM ReadyHasDataHolds == Spec => []ReadyHasData
<1>1. Safe => ReadyHasData
  BY DEF Safe
<1> QED BY <1>1, SafeHolds, PTL

\* bufferfull is set exactly while outbuf holds bytes.
THEOREM FullMeansUnsentHolds == Spec => []FullMeansUnsent
<1>1. Safe => FullMeansUnsent
  BY DEF Safe
<1> QED BY <1>1, SafeHolds, PTL

\* A bridged pair is two byte streams, each in order and complete until the pair ends, whatever
\* the capacities, the answers of the kernel and the moments at which peers end or reset.
THEOREM Refines == Spec => ImplementsChannel
<1>1. Init => Abstract!Init /\ StreamInv
  BY InitRefines
<1>2. Safe /\ Safe' /\ StreamInv /\ [Next]_vars => [Abstract!Next]_(Abstract!vars) /\ StreamInv'
  BY StepRefines
<1> QED BY <1>1, <1>2, SafeHolds, PTL DEF Spec, ImplementsChannel, Abstract!Spec
=============================================================================
