---------------------------- MODULE Socks_proofs -----------------------------
(***************************************************************************)
(* The proofs about Socks, for every value of its constants.               *)
(***************************************************************************)
EXTENDS Socks, Buffers_proofs

-----------------------------------------------------------------------------
(* The inductive invariant: what is in both streams at every place.        *)

Rest(n, next) ==
  \/ /\ step = next /\ Len(cin) = n + cdata /\ \A k \in 1..cdata : cin[n + k] = DataByte(k)
     /\ next # "data" => cdata = 0
  \/ step = "silent" /\ cfin /\ Len(cin) < n /\ cdata = 0

\* A request of SOCKS 4: the user id comes after off bytes.
Four(off, uid) ==
  /\ Rest(off + Len(uid) + 1, "data") /\ (proved <=> uid = <<Right>>)
  /\ \A i \in 1..Len(cin) : /\ i > off /\ i <= off + Len(uid) => cin[i] = uid[i - off]
                            /\ i = off + Len(uid) + 1 => cin[i] = 0

\* The login, off bytes of which have been read.
LoginSent(off, pass) ==
  /\ Rest(5 - off, "status") /\ (proved <=> pass = Right)
  /\ \A i \in 1..Len(cin) : /\ off + i \in {1, 2, 4} => cin[i] = 1
                            /\ off + i = 3 => cin[i] = Right
                            /\ off + i = 5 => cin[i] = pass

Nothing(s) == step \in s /\ cin = <<>> /\ cdata = 0

Beyond(atyp) == CASE atyp = 1 -> 3 [] atyp = 3 -> 2 [] atyp = 4 -> 15 [] atyp = 9 -> 0

Reaching == {"connect", "prepare", "grant", "bridged"} \union UpPlaces

ClientInv ==
  /\ at \in {"version", "request4"} => name = <<>>
  /\ at = "version" =>
       \/ Nothing({"greet"})
       \/ \E uid \in Uids : Four(8, uid) /\ (cin # <<>> => cin[1] = 4)
       \/ \E n \in Nat : Rest(2 + n, "method") /\ (cin # <<>> => cin[1] = 5) /\ (Len(cin) >= 2 => cin[2] = n)
  /\ at = "request4" => \E uid \in Uids : Four(7, uid)
  /\ at = "uid" => \E uid \in Uids : /\ Four(0 - Len(name), uid) /\ Len(name) <= Len(uid)
                                     /\ \A i \in 1..Len(name) : name[i] = uid[i]
  /\ at = "nauth" => \E n \in Nat : Rest(1 + n, "method") /\ (cin # <<>> => cin[1] = n)
  /\ at = "methods" => Rest(need, "method")
  /\ at = "auth" => Nothing({"method"}) \/ \E pass \in Nat : LoginSent(0, pass)
  /\ at = "login" => need = 2 /\ \E pass \in Nat : LoginSent(2, pass)
  /\ at = "pass" => need = 1 /\ name = <<Right>> /\ \E pass \in Nat : LoginSent(4, pass)
  /\ at = "request5" =>
       \/ Nothing({"method", "status"})
       \/ \E atyp \in {1, 3, 4, 9} :
            /\ Rest(5 + Beyond(atyp) + 2, "data")
            /\ Len(cin) >= 4 => cin[4] = atyp
            /\ Len(cin) >= 5 => cin[5] = IF atyp = 3 THEN 2 ELSE 0
  /\ at = "ip4" => Rest(5, "data")
  /\ at = "ip6" => Rest(17, "data")
  /\ at = "domain" => need = 2 /\ Rest(4, "data")
  /\ at = "port" => Rest(2, "data")
  /\ at \in Reaching => Rest(0, "data")

ToldAt ==
  /\ at \in {"version", "request4", "uid", "nauth", "methods"} => told = <<>>
  /\ at \in {"auth", "login", "pass"} => told = <<"login">>
  /\ at \in {"request5", "ip4", "ip6", "domain", "port"} => told \in {<<"anonymous">>, <<"login", "welcome">>}

NoFinal == \A i \in 1..Len(told) : told[i] \notin Final
EndInv ==
  /\ at \notin {"bridged", "gone"} => NoFinal
  /\ released => at = "gone"

Before(h) == {i \in Answering : i < h}
UpRest(n) ==
  \/ Len(uin) = n + udata /\ \A k \in 1..udata : uin[n + k] = DataByte(k)
  \/ ufin /\ Len(uin) < n /\ udata = 0

Pending(request) == asked = request /\ uin = <<>> /\ udata = 0 /\ granted = Before(hop) /\ conn = "proxy"
Yes == /\ asked = "none" /\ granted = Before(hop + 1)
       /\ conn = IF hop = Len(chain) THEN "target" ELSE "proxy"
No == asked = "none" /\ granted = Before(hop) /\ conn = "proxy" /\ udata = 0

\* What comes after the two bytes that announce it: the address that the proxy has bound.
TailLen(kind) == CASE kind = 1 -> 6 [] kind = 3 -> 4 [] kind = 4 -> 18

UpInv ==
  /\ udata > 0 => conn = "target"
  /\ at \in ClientPlaces \union {"connect"} =>
       conn = "none" /\ uin = <<>> /\ udata = 0 /\ granted = {} /\ asked = "none" /\ hop = 0
  /\ at \in UpPlaces \union {"prepare"} => hop \in 1..Len(chain)
  /\ at \in UpPlaces => chain[hop] # "ss"
  /\ at = "prepare" => Pending("none")
  /\ at = "answer4" =>
       \/ Pending("connect4")
       \/ UpRest(8) /\ \/ Yes /\ (Len(uin) >= 2 => uin[1] = 0 /\ uin[2] = 90)
                       \/ No /\ (Len(uin) >= 2 => uin[2] # 90)
  /\ at \in {"method", "status", "reply"} => chain[hop] \in {"socks5", "socks5auth"}
  /\ at = "method" => Pending("greet") \/ (No /\ UpRest(2) /\ (Len(uin) >= 2 => uin[1] = 5))
  /\ at = "status" => Pending("login") \/ (No /\ UpRest(2))
  /\ at = "reply" =>
       /\ pkt = <<5, 1>>
       /\ \/ Pending("connect5") \/ Pending("part")
          \/ No /\ UpRest(10) /\ (Len(uin) >= 2 => uin[2] # 0)
          \/ \E kind \in {1, 3, 4} :
               /\ Yes /\ UpRest(4 + TailLen(kind)) /\ (kind = 3 => odd)
               /\ Len(uin) >= 2 => uin[1] = 5 /\ uin[2] = 0
               /\ Len(uin) >= 4 => uin[4] = kind
               /\ kind = 3 /\ Len(uin) >= 5 => uin[5] = 1
  /\ at = "bound" =>
       /\ pkt = <<5, 0>>
       /\ \E kind \in {1, 3, 4} :
            /\ Yes /\ UpRest(2 + TailLen(kind)) /\ (kind = 3 => odd)
            /\ Len(uin) >= 2 => uin[2] = kind
            /\ kind = 3 /\ Len(uin) >= 3 => uin[3] = 1
  /\ at = "bound4" => Yes /\ UpRest(6)
  /\ at = "bound6" => Yes /\ UpRest(18)
  /\ at = "blen" => Yes /\ UpRest(4) /\ odd /\ (uin # <<>> => uin[1] = 1)
  /\ at = "bdomain" => Yes /\ UpRest(3) /\ odd /\ need = 3
  /\ at \in {"grant", "bridged"} => granted = Answering /\ UpRest(0) /\ asked \in {"none", "part"}
  /\ at \in {"gone", "spin"} => asked = "none" \/ ufin

IInv ==
  TypeOK /\ ClientInv /\ ToldAt /\ EndInv /\ UpInv /\ AuthRespected /\ AnsweredOnce /\ GrantUsed

-----------------------------------------------------------------------------
(* What is sent and what is consumed.                                      *)

LEMMA Limits == Chains \subseteq Seq(Hops) /\ UidMax \in Nat \ {0} /\ MaxData \in Nat
BY ChainsAssumption, LimitsAssumption

\* The rest of a sequence behind its first n elements.
LEMMA DropIs ==
  ASSUME NEW s \in Seq(Nat), NEW n \in 0..Len(s)
  PROVE  /\ Drop(s, n) \in Seq(Nat) /\ Len(Drop(s, n)) = Len(s) - n
         /\ \A i \in 1..Len(s) - n : Drop(s, n)[i] = s[n + i]
<1>1. Len(s) \in n..Len(s)
  OBVIOUS
<1> QED BY <1>1, PartOf DEF Drop

LEMMA EmptyIs ==
  /\ <<>> \in Seq(Nat) /\ Len(<<>>) = 0
  /\ \A s \in Seq(Nat) : <<>> \o s = s /\ (Len(s) = 0 => s = <<>>)
BY ConcatEmptySeq, EmptySeq

\* Reading n bytes of those that are still to come.
LEMMA Consumed ==
  ASSUME cin \in Seq(Nat), cdata \in Nat, NEW n \in Nat, NEW m \in Nat, n <= m, NEW next, Rest(m, next),
         Len(cin) >= n, cin' = Drop(cin, n), UNCHANGED <<cfin, step, cdata>>
  PROVE  /\ Rest(m - n, next)' /\ cin' \in Seq(Nat) /\ Len(cin') = Len(cin) - n
         /\ \A i \in 1..Len(cin) - n : cin'[i] = cin[n + i]
<1>1. n \in 0..Len(cin) /\ Len(cin) \in Nat
  OBVIOUS
<1>2. /\ cin' \in Seq(Nat) /\ Len(cin') = Len(cin) - n
      /\ \A i \in 1..Len(cin) - n : cin'[i] = cin[n + i]
  BY <1>1, DropIs
<1>3. ASSUME step = "silent", cfin, Len(cin) < m, cdata = 0
      PROVE  Rest(m - n, next)'
  BY <1>1, <1>2, <1>3 DEF Rest
<1>4. CASE /\ step = next /\ Len(cin) = m + cdata /\ (\A k \in 1..cdata : cin[m + k] = DataByte(k))
           /\ next # "data" => cdata = 0
  <2>1. Len(cin') = (m - n) + cdata
    BY <1>2, <1>4
  <2>2. ASSUME NEW k \in 1..cdata PROVE cin'[(m - n) + k] = DataByte(k)
    <3>1. (m - n) + k \in 1..Len(cin) - n /\ n + ((m - n) + k) = m + k
      BY <1>4
    <3> QED BY <3>1, <1>2, <1>4
  <2>3. Rest(m - n, next)'
    BY <2>1, <2>2, <1>4 DEF Rest
  <2> QED BY <2>3, <1>2
<1>5. Rest(m - n, next)'
  <2>1. CASE step = "silent" /\ cfin /\ Len(cin) < m /\ cdata = 0
    BY <2>1, <1>3
  <2> QED BY <2>1, <1>4 DEF Rest
<1> QED BY <1>2, <1>5

\* A message of the client, whole or cut off.
LEMMA Written ==
  ASSUME cin = <<>>, cdata = 0, NEW m \in Seq(Nat), NEW next, ClientWrites(m, next), UNCHANGED cdata
  PROVE  /\ Rest(Len(m), next)' /\ cin' \in Seq(Nat) /\ Len(cin') <= Len(m)
         /\ \A i \in 1..Len(cin') : cin'[i] = m[i]
         /\ step' \in {next, "silent"} /\ cfin' \in BOOLEAN
<1>1. PICK k \in 0..Len(m) :
        /\ cin' = cin \o SubSeq(m, 1, k)
        /\ cfin' = (k < Len(m)) /\ step' = IF k < Len(m) THEN "silent" ELSE next
  BY DEF ClientWrites
<1>2. /\ SubSeq(m, 1, k) \in Seq(Nat) /\ Len(SubSeq(m, 1, k)) = k
      /\ \A i \in 1..k : SubSeq(m, 1, k)[i] = m[i]
  BY FrontOf
<1>3. cin' = SubSeq(m, 1, k)
  BY <1>1, <1>2, EmptyIs
<1>4. Len(m) \in Nat /\ Len(cin') = k
  BY <1>2, <1>3
<1>5. Rest(Len(m), next)'
  <2>1. CASE k < Len(m)
    <3>1. step' = "silent" /\ cfin' /\ Len(cin') < Len(m) /\ cdata' = 0
      BY <1>1, <1>4, <2>1
    <3> QED BY <3>1 DEF Rest
  <2>2. CASE k = Len(m)
    <3>1. step' = next /\ Len(cin') = Len(m) + cdata' /\ cdata' = 0
      BY <1>1, <1>4, <2>2
    <3> QED BY <3>1 DEF Rest
  <2> QED BY <2>1, <2>2
<1> QED BY <1>1, <1>2, <1>3, <1>4, <1>5

\* The same for the bytes that come from upstream.
LEMMA UpConsumed ==
  ASSUME uin \in Seq(Nat), udata \in Nat, NEW n \in Nat, NEW m \in Nat, n <= m, UpRest(m), Len(uin) >= n,
         uin' = Drop(uin, n), UNCHANGED <<ufin, udata>>
  PROVE  /\ UpRest(m - n)' /\ uin' \in Seq(Nat) /\ Len(uin') = Len(uin) - n
         /\ \A i \in 1..Len(uin) - n : uin'[i] = uin[n + i]
<1>1. n \in 0..Len(uin) /\ Len(uin) \in Nat
  OBVIOUS
<1>2. /\ uin' \in Seq(Nat) /\ Len(uin') = Len(uin) - n
      /\ \A i \in 1..Len(uin) - n : uin'[i] = uin[n + i]
  BY <1>1, DropIs
<1>3. CASE ufin /\ Len(uin) < m /\ udata = 0
  BY <1>1, <1>2, <1>3 DEF UpRest
<1>4. CASE Len(uin) = m + udata /\ \A k \in 1..udata : uin[m + k] = DataByte(k)
  <2>1. Len(uin') = (m - n) + udata
    BY <1>2, <1>4
  <2>2. ASSUME NEW k \in 1..udata PROVE uin'[(m - n) + k] = DataByte(k)
    <3>1. (m - n) + k \in 1..Len(uin) - n /\ n + ((m - n) + k) = m + k
      BY <1>4
    <3> QED BY <3>1, <1>2, <1>4
  <2>3. UpRest(m - n)'
    BY <2>1, <2>2, <1>4 DEF UpRest
  <2> QED BY <2>3, <1>2
<1> QED BY <1>2, <1>3, <1>4 DEF UpRest

LEMMA UpWritten ==
  ASSUME uin = <<>>, udata = 0, NEW m \in Seq(Nat), UpWrites(m), UNCHANGED udata
  PROVE  /\ UpRest(Len(m))' /\ uin' \in Seq(Nat) /\ Len(uin') <= Len(m)
         /\ \A i \in 1..Len(uin') : uin'[i] = m[i]
         /\ asked' = "none" /\ ufin' \in BOOLEAN
<1>1. PICK k \in 0..Len(m) :
        uin' = uin \o SubSeq(m, 1, k) /\ ufin' = (k < Len(m)) /\ asked' = "none"
  BY DEF UpWrites
<1>2. /\ SubSeq(m, 1, k) \in Seq(Nat) /\ Len(SubSeq(m, 1, k)) = k
      /\ \A i \in 1..k : SubSeq(m, 1, k)[i] = m[i]
  BY FrontOf
<1>3. uin' = SubSeq(m, 1, k)
  BY <1>1, <1>2, EmptyIs
<1>4. Len(m) \in Nat /\ Len(uin') = k
  BY <1>2, <1>3
<1>5. UpRest(Len(m))'
  <2>1. CASE k < Len(m)
    <3>1. ufin' /\ Len(uin') < Len(m) /\ udata' = 0
      BY <1>1, <1>4, <2>1
    <3> QED BY <3>1 DEF UpRest
  <2>2. CASE k = Len(m)
    <3>1. Len(uin') = Len(m) + udata' /\ udata' = 0
      BY <1>1, <1>4, <2>2
    <3> QED BY <3>1 DEF UpRest
  <2> QED BY <2>1, <2>2
<1> QED BY <1>1, <1>2, <1>3, <1>4, <1>5

-----------------------------------------------------------------------------
(* The messages.                                                           *)

\* A message of two or three parts.
LEMMA TwoParts ==
  ASSUME NEW a \in Seq(Nat), NEW b \in Seq(Nat)
  PROVE  /\ a \o b \in Seq(Nat) /\ Len(a \o b) = Len(a) + Len(b)
         /\ \A i \in 1..Len(a) : (a \o b)[i] = a[i]
         /\ \A i \in 1..Len(b) : (a \o b)[Len(a) + i] = b[i]
<1> DEFINE d == a \o b
<1>1. /\ d \in Seq(Nat) /\ Len(d) = Len(a) + Len(b)
      /\ \A k \in 1..Len(a) + Len(b) : d[k] = IF k <= Len(a) THEN a[k] ELSE b[k - Len(a)]
  BY ConcatOf
<1>2. Len(a) \in Nat /\ Len(b) \in Nat
  OBVIOUS
<1> DEFINE m == Len(a)
           n == Len(b)
<1>3. m \in Nat /\ n \in Nat /\ \A k \in 1..m + n : d[k] = IF k <= m THEN a[k] ELSE b[k - m]
  BY ONLY <1>1, <1>2
<1> HIDE DEF d, m, n
<1>4. ASSUME NEW i \in 1..m PROVE d[i] = a[i]
  <2>1. i \in 1..m + n /\ i <= m
    BY <1>3
  <2> QED BY ONLY <2>1, <1>3
<1>5. ASSUME NEW i \in 1..n PROVE d[m + i] = b[i]
  <2>1. m + i \in 1..m + n /\ ~(m + i <= m) /\ (m + i) - m = i
    BY <1>3
  <2> QED BY ONLY <2>1, <1>3
<1> QED BY <1>1, <1>4, <1>5 DEF d, m, n

Parts(m, a, b, c) ==
  /\ m \in Seq(Nat) /\ Len(m) = Len(a) + Len(b) + Len(c)
  /\ \A i \in 1..Len(a) : m[i] = a[i]
  /\ \A i \in 1..Len(b) : m[Len(a) + i] = b[i]
  /\ \A i \in 1..Len(c) : m[(Len(a) + Len(b)) + i] = c[i]

LEMMA ThreeParts ==
  ASSUME NEW a \in Seq(Nat), NEW b \in Seq(Nat), NEW c \in Seq(Nat)
  PROVE  Parts((a \o b) \o c, a, b, c)
<1> DEFINE d == a \o b
<1>1. /\ d \in Seq(Nat) /\ Len(d) = Len(a) + Len(b)
      /\ \A i \in 1..Len(a) : d[i] = a[i]
      /\ \A i \in 1..Len(b) : d[Len(a) + i] = b[i]
  BY TwoParts
<1> HIDE DEF d
<1>2. /\ d \o c \in Seq(Nat) /\ Len(d \o c) = Len(d) + Len(c)
      /\ \A i \in 1..Len(d) : (d \o c)[i] = d[i]
      /\ \A i \in 1..Len(c) : (d \o c)[Len(d) + i] = c[i]
  BY <1>1, TwoParts
<1>3. Len(a) \in Nat /\ Len(b) \in Nat /\ Len(c) \in Nat
  OBVIOUS
<1>4. \A i \in 1..Len(a) : i \in 1..Len(d) /\ (d \o c)[i] = a[i]
  BY <1>1, <1>2, <1>3
<1>5. ASSUME NEW i \in 1..Len(b) PROVE (d \o c)[Len(a) + i] = b[i]
  <2>1. Len(a) + i \in 1..Len(d)
    BY <1>1, <1>3
  <2> QED BY <2>1, <1>1, <1>2
<1>6. ASSUME NEW i \in 1..Len(c) PROVE (d \o c)[(Len(a) + Len(b)) + i] = c[i]
  BY <1>1, <1>2
<1>7. Len(d \o c) = Len(a) + Len(b) + Len(c)
  BY <1>1, <1>2
<1>8. Parts(d \o c, a, b, c)
  BY <1>2, <1>4, <1>5, <1>6, <1>7 DEF Parts
<1> QED BY <1>8 DEF d

LEMMA ZerosAre ==
  ASSUME NEW n \in Nat
  PROVE  Zeros(n) \in Seq(Nat) /\ Len(Zeros(n)) = n /\ \A i \in 1..n : Zeros(n)[i] = 0
<1>1. Zeros(n) = [i \in 1..n |-> 0]
  BY DEF Zeros
<1> QED BY <1>1

LEMMA UidsAre ==
  ASSUME NEW uid \in Uids
  PROVE  uid \in Seq(Nat) /\ \A i \in 1..Len(uid) : uid[i] # 0
<1>1. \A n \in Nat \ {0} : <<n>> \in Seq(Nat) /\ \A i \in 1..Len(<<n>>) : <<n>>[i] # 0
  OBVIOUS
<1>a. Right \in Nat \ {0} /\ Wrong \in Nat \ {0}
  BY DEF Right, Wrong
<1>2. CASE uid = [i \in 1..UidMax + 2 |-> Wrong]
  BY <1>2, Limits DEF Wrong
<1>3. CASE uid = <<Right>> \/ uid = <<Wrong>>
  BY <1>1, <1>a, <1>3
<1> QED BY <1>2, <1>3 DEF Uids

LEMMA Request4Is ==
  ASSUME NEW cmd \in {1, 2}, NEW uid \in Uids
  PROVE  LET m == Request4(cmd, uid)
         IN  /\ m \in Seq(Nat) /\ Len(m) = 8 + Len(uid) + 1 /\ m[1] = 4
             /\ \A i \in 1..Len(m) : /\ i > 8 /\ i <= 8 + Len(uid) => m[i] = uid[i - 8]
                                     /\ i = 8 + Len(uid) + 1 => m[i] = 0
<1> DEFINE a == <<4, cmd, 0, 80, 1, 1, 1, 1>>
           c == <<0>>
           m == (a \o uid) \o c
<1>1. a \in Seq(Nat) /\ Len(a) = 8 /\ a[1] = 4 /\ c \in Seq(Nat) /\ Len(c) = 1 /\ c[1] = 0
  OBVIOUS
<1>2. uid \in Seq(Nat) /\ Len(uid) \in Nat
  BY UidsAre
<1>3. Request4(cmd, uid) = m
  BY DEF Request4
<1> HIDE DEF a, c
<1>4. Parts(m, a, uid, c)
  BY <1>1, <1>2, ThreeParts
<1> HIDE DEF m
<1>5. /\ m \in Seq(Nat) /\ Len(m) = 8 + Len(uid) + 1
      /\ \A i \in 1..8 : m[i] = a[i]
      /\ \A i \in 1..Len(uid) : m[8 + i] = uid[i]
      /\ \A i \in 1..1 : m[(8 + Len(uid)) + i] = c[i]
  BY <1>1, <1>4 DEF Parts
<1>6. m[1] = 4
  BY <1>1, <1>5
<1>7. ASSUME NEW i \in 1..Len(m)
      PROVE  /\ i > 8 /\ i <= 8 + Len(uid) => m[i] = uid[i - 8]
             /\ i = 8 + Len(uid) + 1 => m[i] = 0
  <2>1. ASSUME i > 8, i <= 8 + Len(uid) PROVE m[i] = uid[i - 8]
    <3>1. i - 8 \in 1..Len(uid) /\ 8 + (i - 8) = i
      BY <2>1, <1>2, <1>5
    <3> QED BY <3>1, <1>5
  <2>2. m[8 + Len(uid) + 1] = 0
    BY <1>1, <1>2, <1>5
  <2> QED BY <2>1, <2>2
<1> QED BY <1>3, <1>5, <1>6, <1>7

LEMMA GreetingIs ==
  ASSUME NEW ms \in {<<>>, << 0 >>, << 2 >>, <<2, 0>>}
  PROVE  LET m == <<5, Len(ms)>> \o ms
         IN  m \in Seq(Nat) /\ Len(m) = 2 + Len(ms) /\ m[1] = 5 /\ m[2] = Len(ms) /\ Len(ms) \in Nat
<1>1. ms \in Seq(Nat) /\ Len(ms) \in Nat
  <2>1. <<>> \in Seq(Nat) /\ <<0>> \in Seq(Nat) /\ <<2>> \in Seq(Nat) /\ <<2, 0>> \in Seq(Nat)
    OBVIOUS
  <2>2. ms \in Seq(Nat)
    BY <2>1
  <2> QED BY <2>2
<1> DEFINE a == <<5, Len(ms)>>
<1>2. a \in Seq(Nat) /\ Len(a) = 2 /\ a[1] = 5 /\ a[2] = Len(ms)
  BY <1>1
<1> HIDE DEF a
<1>3. /\ a \o ms \in Seq(Nat) /\ Len(a \o ms) = Len(a) + Len(ms)
      /\ \A i \in 1..Len(a) : (a \o ms)[i] = a[i]
  BY <1>1, <1>2, TwoParts
<1>4. (a \o ms)[1] = a[1] /\ (a \o ms)[2] = a[2]
  BY <1>2, <1>3
<1> QED BY <1>1, <1>2, <1>3, <1>4 DEF a

LEMMA Request5Is ==
  ASSUME NEW cmd \in {1, 2}, NEW atyp \in {1, 3, 4, 9}
  PROVE  LET m == Request5(cmd, atyp)
         IN  /\ m \in Seq(Nat) /\ Len(m) = 5 + Beyond(atyp) + 2
             /\ m[4] = atyp /\ m[5] = IF atyp = 3 THEN 2 ELSE 0
<1> DEFINE a == <<5, cmd, 0, atyp>>
           b == CASE atyp = 1 -> Zeros(4) [] atyp = 3 -> <<2, 3, 3>> [] atyp = 4 -> Zeros(16)
                  [] OTHER -> Zeros(1)
           c == <<0, 80>>
           m == (a \o b) \o c
<1>1. a \in Seq(Nat) /\ Len(a) = 4 /\ a[4] = atyp /\ c \in Seq(Nat) /\ Len(c) = 2
  OBVIOUS
<1>2. b \in Seq(Nat) /\ Len(b) = 1 + Beyond(atyp) /\ b[1] = IF atyp = 3 THEN 2 ELSE 0
  <2>0. \A n \in {1, 4, 16} : Zeros(n) \in Seq(Nat) /\ Len(Zeros(n)) = n /\ Zeros(n)[1] = 0
    <3> TAKE n \in {1, 4, 16}
    <3>1. n \in Nat /\ 1 \in 1..n
      OBVIOUS
    <3> QED BY <3>1, ZerosAre
  <2>1. CASE atyp = 1
    <3>1. b = Zeros(4) /\ Beyond(atyp) = 3
      BY <2>1 DEF Beyond
    <3> HIDE DEF b
    <3> QED BY <3>1, <2>0, <2>1
  <2>2. CASE atyp = 3
    <3>1. b = <<2, 3, 3>> /\ Beyond(atyp) = 2
      BY <2>2 DEF Beyond
    <3> HIDE DEF b
    <3> QED BY <3>1, <2>2
  <2>3. CASE atyp = 4
    <3>1. b = Zeros(16) /\ Beyond(atyp) = 15
      BY <2>3 DEF Beyond
    <3> HIDE DEF b
    <3> QED BY <3>1, <2>0, <2>3
  <2>4. CASE atyp = 9
    <3>1. b = Zeros(1) /\ Beyond(atyp) = 0
      BY <2>4 DEF Beyond
    <3> HIDE DEF b
    <3> QED BY <3>1, <2>0, <2>4
  <2> QED BY <2>1, <2>2, <2>3, <2>4
<1>3. Request5(cmd, atyp) = m
  BY DEF Request5
<1> HIDE DEF a, b, c
<1>4. /\ m \in Seq(Nat) /\ Len(m) = 4 + Len(b) + 2
      /\ \A i \in 1..4 : m[i] = a[i]
      /\ \A i \in 1..Len(b) : m[4 + i] = b[i]
  <2>1. Parts(m, a, b, c)
    BY <1>1, <1>2, ThreeParts
  <2> HIDE DEF m
  <2> QED BY <2>1, <1>1 DEF Parts
<1> HIDE DEF m
<1>5. Beyond(atyp) \in Nat
  BY DEF Beyond
<1>6. 1 \in 1..Len(b) /\ 4 + Len(b) + 2 = 5 + Beyond(atyp) + 2
  BY <1>2, <1>5
<1>7. m[4] = a[4] /\ m[5] = b[1]
  BY <1>4, <1>6
<1> QED BY <1>1, <1>2, <1>3, <1>4, <1>6, <1>7

\* What a SOCKS 5 proxy says when it has connected.
LEMMA GrantIs ==
  ASSUME NEW m \in {<<5, 0>> \o t : t \in Tail5}
  PROVE  \E kind \in {1, 3, 4} : /\ m \in Seq(Nat) /\ Len(m) = 4 + TailLen(kind)
                                 /\ m[1] = 5 /\ m[2] = 0 /\ m[4] = kind /\ (kind = 3 => m[5] = 1)
<1>1. PICK b \in Bounds : m = <<5, 0>> \o ((<<0>> \o b) \o <<0, 80>>)
  BY DEF Tail5
<1>2. PICK kind \in {1, 3, 4} : /\ b \in Seq(Nat) /\ Len(b) + 1 = TailLen(kind) /\ TailLen(kind) \in Nat
                                /\ b[1] = kind /\ (kind = 3 => b[2] = 1) /\ Len(b) >= 3
  <2>1. CASE b = <<1>> \o Zeros(4)
    <3> DEFINE u == <<1>>
               v == Zeros(4)
    <3>1. u \in Seq(Nat) /\ Len(u) = 1 /\ u[1] = 1
      OBVIOUS
    <3>2. v \in Seq(Nat) /\ Len(v) = 4
      BY ZerosAre
    <3>3. b = u \o v
      BY <2>1
    <3> HIDE DEF u, v
    <3>4. /\ b \in Seq(Nat) /\ Len(b) = Len(u) + Len(v)
          /\ \A i \in 1..Len(u) : b[i] = u[i]
      BY <3>1, <3>2, <3>3, TwoParts
    <3>5. b \in Seq(Nat) /\ Len(b) = 5 /\ b[1] = 1
      BY <3>1, <3>2, <3>4
    <3>6. TailLen(1) = 6
      BY DEF TailLen
    <3> QED BY <3>5, <3>6
  <2>2. CASE b = <<3, 1, 0>>
    BY <2>2 DEF TailLen
  <2>3. CASE b = <<4>> \o Zeros(16)
    <3> DEFINE u == <<4>>
               v == Zeros(16)
    <3>1. u \in Seq(Nat) /\ Len(u) = 1 /\ u[1] = 4
      OBVIOUS
    <3>2. v \in Seq(Nat) /\ Len(v) = 16
      BY ZerosAre
    <3>3. b = u \o v
      BY <2>3
    <3> HIDE DEF u, v
    <3>4. /\ b \in Seq(Nat) /\ Len(b) = Len(u) + Len(v)
          /\ \A i \in 1..Len(u) : b[i] = u[i]
      BY <3>1, <3>2, <3>3, TwoParts
    <3>5. b \in Seq(Nat) /\ Len(b) = 17 /\ b[1] = 4
      BY <3>1, <3>2, <3>4
    <3>6. TailLen(4) = 18
      BY DEF TailLen
    <3> QED BY <3>5, <3>6
  <2> QED BY <2>1, <2>2, <2>3 DEF Bounds
<1> DEFINE z == <<0>>
           p == <<0, 80>>
           a == <<5, 0>>
           t == (z \o b) \o p
<1>3. /\ z \in Seq(Nat) /\ Len(z) = 1 /\ p \in Seq(Nat) /\ Len(p) = 2
      /\ a \in Seq(Nat) /\ Len(a) = 2 /\ a[1] = 5 /\ a[2] = 0
  OBVIOUS
<1>4. m = a \o t
  BY <1>1
<1> HIDE DEF z, p, a
<1>p. Parts(t, z, b, p)
  BY <1>2, <1>3, ThreeParts
<1> HIDE DEF t
<1>5. /\ t \in Seq(Nat) /\ Len(t) = Len(z) + Len(b) + Len(p)
      /\ \A i \in 1..Len(b) : t[Len(z) + i] = b[i]
  BY <1>p DEF Parts
<1>6. /\ m \in Seq(Nat) /\ Len(m) = Len(a) + Len(t)
      /\ \A i \in 1..Len(a) : m[i] = a[i]
      /\ \A i \in 1..Len(t) : m[Len(a) + i] = t[i]
  BY <1>3, <1>4, <1>5, TwoParts
<1>7. Len(b) \in Nat /\ Len(b) >= 3
  <2>1. b \in Seq(Nat)
    BY <1>2
  <2>2. Len(b) \in Nat
    BY <2>1
  <2> QED BY <2>2, <1>2
<1>8. Len(t) = 3 + Len(b) /\ t[2] = b[1] /\ t[3] = b[2]
  <2>1. 1 \in 1..Len(b) /\ 2 \in 1..Len(b)
    BY ONLY <1>7
  <2>2. t[Len(z) + 1] = b[1] /\ t[Len(z) + 2] = b[2]
    BY <2>1, <1>5
  <2> QED BY <2>2, <1>3, <1>5, <1>7
<1>9. m[1] = 5 /\ m[2] = 0 /\ m[4] = b[1] /\ m[5] = b[2] /\ Len(m) = 4 + (Len(b) + 1)
  <2>1. 2 \in 1..Len(t) /\ 3 \in 1..Len(t) /\ 1 \in 1..Len(a) /\ 2 \in 1..Len(a)
    BY <1>2, <1>3, <1>7, <1>8
  <2>2. m[Len(a) + 2] = t[2] /\ m[Len(a) + 3] = t[3] /\ m[1] = a[1] /\ m[2] = a[2]
    BY <2>1, <1>6
  <2> QED BY <2>2, <1>3, <1>6, <1>7, <1>8
<1> QED BY <1>2, <1>6, <1>9

-----------------------------------------------------------------------------
(* What the steps of each kind leave as it is.                             *)

Answers == {"anonymous", "login", "unacceptable", "welcome", "unknown", "refused", "granted"}

\* One more answer.
LEMMA OneMore ==
  ASSUME NEW a \in Answers, told \in Seq(Answers), told' = Append(told, a)
  PROVE  /\ told' \in Seq(Answers) /\ Len(told') = Len(told) + 1 /\ told'[Len(told')] = a
         /\ Len(told) \in Nat /\ told' # <<>>
         /\ \A i \in 1..Len(told) : told'[i] = told[i]
<1>1. /\ told' \in Seq(Answers) /\ Len(told') = Len(told) + 1 /\ told'[Len(told) + 1] = a
      /\ \A i \in 1..Len(told) : told'[i] = told[i]
  BY AppendProperties
<1>2. Len(told) \in Nat
  OBVIOUS
<1>3. told' # <<>>
  BY <1>1, <1>2
<1> QED BY <1>1, <1>2, <1>3

LEMMA NoFinalKept ==
  ASSUME NEW a \in Answers, told \in Seq(Answers), NoFinal, told' = told \/ told' = Append(told, a)
  PROVE  /\ told' \in Seq(Answers)
         /\ \A i \in 1..Len(told') : told'[i] \in Final => i = Len(told')
         /\ a \notin Final => NoFinal'
<1>1. CASE told' = told
  BY <1>1 DEF NoFinal
<1>2. CASE told' = Append(told, a)
  <2>1. /\ told' \in Seq(Answers) /\ Len(told') = Len(told) + 1 /\ told'[Len(told')] = a
        /\ Len(told) \in Nat /\ \A i \in 1..Len(told) : told'[i] = told[i]
    BY <1>2, OneMore
  <2>2. ASSUME NEW i \in 1..Len(told'), i # Len(told')
        PROVE  told'[i] \notin Final
    <3>1. i \in 1..Len(told)
      BY <2>1, <2>2
    <3> QED BY <3>1, <2>1 DEF NoFinal
  <2>3. ASSUME a \notin Final
        PROVE  NoFinal'
    <3>1. \A i \in 1..Len(told') : told'[i] \notin Final
      BY <2>1, <2>2, <2>3
    <3> QED BY <3>1 DEF NoFinal
  <2> QED BY <2>1, <2>2, <2>3
<1> QED BY <1>1, <1>2

\* The handshake.
LEMMA HandshakeKeeps ==
  ASSUME IInv, at \in ClientPlaces, at' \in ClientPlaces \union {"connect", "gone"}, UNCHANGED ToClient,
         cin' \in Seq(Nat), need' \in Nat, name' \in Seq(Nat), Len(name') <= UidMax + 1,
         dest' \in {"none", "ip4", "ip6", "domain"},
         NEW a \in Answers, told' = told \/ told' = Append(told, a),
         told' # told /\ a \in Final => at' = "gone",
         ClientInv', ToldAt', AuthRespected'
  PROVE  IInv'
<1>1. TypeOK /\ UpInv /\ EndInv
  BY DEF IInv
<1>2. /\ UNCHANGED <<allow, login, anon, chain, cfin, step, proved, cdata, conn, uin, ufin, asked>>
      /\ UNCHANGED <<granted, odd, udata, hop, pkt, released>>
  BY DEF ToClient, config, upstream
<1>3. told \in Seq(Answers) /\ NoFinal /\ ~released
  BY <1>1 DEF TypeOK, Answers, EndInv, ClientPlaces
<1>4. /\ told' \in Seq(Answers)
      /\ \A i \in 1..Len(told') : told'[i] \in Final => i = Len(told')
      /\ a \notin Final => NoFinal'
  BY <1>3, NoFinalKept
<1>5. TypeOK'
  BY <1>1, <1>2, <1>4 DEF TypeOK, Answers, Answering
<1>6. ~released' /\ at' # "bridged"
  BY <1>2, <1>3 DEF ClientPlaces
<1>7. EndInv'
  <2>1. at' # "gone" => NoFinal'
    BY <1>3, <1>4 DEF NoFinal
  <2> QED BY <1>6, <2>1 DEF EndInv
<1>8. AnsweredOnce' /\ GrantUsed'
  BY <1>4, <1>6 DEF AnsweredOnce, GrantUsed
<1>9. UpInv'
  <2>1. conn = "none" /\ uin = <<>> /\ udata = 0 /\ granted = {} /\ asked = "none" /\ hop = 0
    BY <1>1 DEF UpInv
  <2>2. conn' = "none" /\ uin' = <<>> /\ udata' = 0 /\ granted' = {} /\ asked' = "none" /\ hop' = 0
    BY <1>2, <2>1
  <2> QED BY <2>2 DEF UpInv, ClientPlaces, UpPlaces
<1> QED BY <1>5, <1>7, <1>8, <1>9 DEF IInv

\* The client's own steps.
LEMMA ClientKeeps ==
  ASSUME IInv, UNCHANGED <<config, told, conn, upstream, at, worker>>,
         cin' \in Seq(Nat), cfin' \in BOOLEAN, step' \in {"greet", "method", "status", "data", "silent"},
         proved' \in BOOLEAN, cdata' \in 0..MaxData, ClientInv', AuthRespected'
  PROVE  IInv'
<1>1. /\ UNCHANGED <<allow, login, anon, chain, told, conn, uin, ufin, asked, at>>
      /\ UNCHANGED <<granted, odd, udata, need, name, dest, hop, pkt, released>>
  BY DEF config, upstream, worker
<1>2. TypeOK'
  BY <1>1 DEF TypeOK, IInv, Answering
<1>3. ToldAt' /\ EndInv' /\ AnsweredOnce' /\ GrantUsed'
  BY <1>1 DEF IInv, ToldAt, EndInv, NoFinal, AnsweredOnce, GrantUsed, Answering
<1>4. UpInv'
  <2>1. UpInv
    BY DEF IInv
  <2>2. \A n : UpRest(n)' <=> UpRest(n)
    BY <1>1 DEF UpRest
  <2>3. \A r : Pending(r)' <=> Pending(r)
    BY <1>1 DEF Pending, Before, Answering
  <2>4. (Yes' <=> Yes) /\ (No' <=> No)
    BY <1>1 DEF Yes, No, Before, Answering
  <2> QED BY <2>1, <2>2, <2>3, <2>4, <1>1 DEF UpInv, Answering
<1> QED BY <1>2, <1>3, <1>4 DEF IInv

\* The way out.
LEMMA ChainKeeps ==
  ASSUME IInv, at \in Reaching \ {"bridged"}, UNCHANGED <<config, client, name, dest>>,
         \/ UNCHANGED <<told, released>> /\ at' \in (Reaching \ {"bridged"}) \union {"spin"}
         \/ told' = Append(told, "refused") /\ released' = TRUE /\ at' = "gone"
         \/ told' = Append(told, "granted") /\ UNCHANGED released /\ at' = "bridged",
         conn' \in {"none", "proxy", "target"}, uin' \in Seq(Nat), ufin' \in BOOLEAN, udata' \in 0..MaxData,
         asked' \in {"none", "part", "connect4", "greet", "login", "connect5"}, granted' \subseteq Answering,
         odd' \in BOOLEAN, need' \in Nat, hop' \in 0..Len(chain), pkt' \in Nat \X Nat,
         UpInv', GrantUsed'
  PROVE  IInv'
<1>1. TypeOK /\ EndInv /\ ClientInv /\ AuthRespected
  BY DEF IInv
<1>2. UNCHANGED <<allow, login, anon, chain, cin, cfin, step, proved, cdata, name, dest>>
  BY DEF config, client
<1>3. told \in Seq(Answers) /\ NoFinal /\ ~released
  BY <1>1 DEF TypeOK, Answers, EndInv, Reaching, UpPlaces
<1>4. /\ told' \in Seq(Answers)
      /\ \A i \in 1..Len(told') : told'[i] \in Final => i = Len(told')
  <2>1. "refused" \in Answers /\ "granted" \in Answers
    BY DEF Answers
  <2> QED BY <1>3, <2>1, NoFinalKept
<1>5. at' \in Reaching \union {"gone", "spin"} /\ released' \in BOOLEAN
  <2>1. released \in BOOLEAN /\ "bridged" \in Reaching
    BY <1>1 DEF TypeOK, Reaching
  <2> QED BY <2>1
<1>6. TypeOK'
  <2>1. at' \in ClientPlaces \union UpPlaces \union {"connect", "prepare", "grant", "bridged", "gone", "spin"}
    BY <1>5 DEF Reaching
  <2>2. granted' \subseteq Answering'
    BY <1>2 DEF Answering
  <2> QED BY <1>1, <1>2, <1>4, <1>5, <2>1, <2>2 DEF TypeOK, Answers
<1>7. ClientInv'
  <2>1. Rest(0, "data")
    BY <1>1 DEF ClientInv
  <2>2. Rest(0, "data")'
    BY <2>1, <1>2 DEF Rest
  <2> QED BY <2>2, <1>5 DEF ClientInv, Reaching, UpPlaces
<1>8. ToldAt'
  BY <1>5 DEF ToldAt, Reaching, UpPlaces
<1>9. AuthRespected'
  <2>1. proved \/ (anon /\ told # <<>> /\ told[1] = "anonymous")
    BY <1>1 DEF AuthRespected, Reaching
  <2>2. told # <<>> => told' # <<>> /\ told'[1] = told[1]
    <3>1. CASE told' = told
      BY <3>1
    <3>2. ASSUME NEW a \in Answers, told' = Append(told, a), told # <<>>
          PROVE  told' # <<>> /\ told'[1] = told[1]
      <4>1. 1 \in 1..Len(told)
        BY <1>3, <3>2
      <4> QED BY <4>1, <3>2, <1>3, OneMore
    <3>3. "refused" \in Answers /\ "granted" \in Answers
      BY DEF Answers
    <3> QED BY <3>1, <3>2, <3>3
  <2> QED BY <2>1, <2>2, <1>2 DEF AuthRespected
<1>10. AnsweredOnce' /\ EndInv'
  <2>1. CASE UNCHANGED <<told, released>> /\ at' \in (Reaching \ {"bridged"}) \union {"spin"}
    <3>1. NoFinal' /\ ~released' /\ at' # "bridged"
      BY <2>1, <1>3 DEF NoFinal, Reaching, UpPlaces
    <3> QED BY <3>1, <1>4 DEF AnsweredOnce, EndInv
  <2>2. CASE told' = Append(told, "refused") /\ released' = TRUE /\ at' = "gone"
    <3>1. told'[Len(told')] = "refused" /\ told' # <<>>
      BY <2>2, <1>3, OneMore DEF Answers
    <3> QED BY <3>1, <2>2, <1>4 DEF AnsweredOnce, EndInv
  <2>3. CASE told' = Append(told, "granted") /\ UNCHANGED released /\ at' = "bridged"
    <3>1. told'[Len(told')] = "granted" /\ told' # <<>>
      BY <2>3, <1>3, OneMore DEF Answers
    <3> QED BY <3>1, <2>3, <1>3, <1>4 DEF AnsweredOnce, EndInv
  <2> QED BY <2>1, <2>2, <2>3
<1> QED BY <1>6, <1>7, <1>8, <1>9, <1>10 DEF IInv

\* The proxies and the target.
LEMMA UpstreamKeeps ==
  ASSUME IInv, UNCHANGED <<config, client, told, at, worker>>,
         conn' \in {"none", "proxy", "target"}, uin' \in Seq(Nat), ufin' \in BOOLEAN, udata' \in 0..MaxData,
         asked' \in {"none", "part", "connect4", "greet", "login", "connect5"}, granted' \subseteq Answering,
         odd' \in BOOLEAN, UpInv', GrantUsed'
  PROVE  IInv'
<1>1. /\ UNCHANGED <<allow, login, anon, chain, cin, cfin, step, proved, cdata, told, at>>
      /\ UNCHANGED <<need, name, dest, hop, pkt, released>>
  BY DEF config, client, worker
<1>2. TypeOK'
  BY <1>1 DEF TypeOK, IInv, Answering
<1>3. ToldAt' /\ EndInv' /\ AnsweredOnce' /\ AuthRespected'
  BY <1>1 DEF IInv, ToldAt, EndInv, NoFinal, AnsweredOnce, AuthRespected
<1>4. ClientInv'
  BY <1>1 DEF IInv, ClientInv, Rest, Four, LoginSent, Nothing
<1> QED BY <1>2, <1>3, <1>4 DEF IInv

-----------------------------------------------------------------------------
(* The client, step by step.                                               *)

Steps == {"greet", "method", "status", "data", "silent"}

LEMMA WritesTypes ==
  ASSUME cin \in Seq(Nat), NEW m \in Seq(Nat), NEW next \in Steps, ClientWrites(m, next)
  PROVE  cin' \in Seq(Nat) /\ cfin' \in BOOLEAN /\ step' \in Steps
<1>1. PICK k \in 0..Len(m) :
        /\ cin' = cin \o SubSeq(m, 1, k)
        /\ cfin' = (k < Len(m)) /\ step' = IF k < Len(m) THEN "silent" ELSE next
  BY DEF ClientWrites
<1>2. SubSeq(m, 1, k) \in Seq(Nat)
  BY FrontOf
<1>3. cin' \in Seq(Nat)
  BY <1>1, <1>2, ConcatOf
<1> QED BY <1>1, <1>3 DEF Steps

\* Where the worker can be when the client has sent nothing yet.
LEMMA GreetAt ==
  ASSUME IInv, step = "greet"
  PROVE  at \in {"version", "gone", "spin"} /\ (at = "version" => Nothing({"greet"}))
<1>1. TypeOK /\ ClientInv
  BY DEF IInv
<1>2. \A n, next : Rest(n, next) => next = "greet"
  BY DEF Rest
<1>3. \A off, uid : ~Four(off, uid)
  BY <1>2 DEF Four
<1>4. \A off, pass : ~LoginSent(off, pass)
  BY <1>2 DEF LoginSent
<1>5. at = "version" => Nothing({"greet"})
  BY <1>1, <1>2, <1>3 DEF ClientInv
<1>6. ~Nothing({"method"}) /\ ~Nothing({"method", "status"})
  BY DEF Nothing
<1>7. at \notin (ClientPlaces \ {"version"}) \union Reaching
  BY <1>1, <1>2, <1>3, <1>4, <1>6 DEF ClientInv, ClientPlaces
<1>8. at \in {"version", "gone", "spin"}
  BY <1>1, <1>7 DEF TypeOK, Reaching
<1> QED BY <1>5, <1>8

\* Where the worker is told the client to log in, or to go on.
LEMMA LoginAt ==
  ASSUME IInv, step = "method", Len(told) = 1, told[1] = "login"
  PROVE  at \in {"auth", "gone", "spin"} /\ (at = "auth" => Nothing({"method"}))
<1>1. TypeOK /\ ClientInv /\ ToldAt
  BY DEF IInv
<1>2. \A n, next : Rest(n, next) => next = "method"
  BY DEF Rest
<1>3. \A off, pass : ~LoginSent(off, pass)
  BY <1>2 DEF LoginSent
<1>4. told # <<>> /\ told # <<"anonymous">> /\ told # <<"login", "welcome">>
  <2>1. Len(<<>>) = 0 /\ <<"anonymous">>[1] = "anonymous" /\ Len(<<"login", "welcome">>) = 2
    OBVIOUS
  <2> QED BY <2>1
<1>5. at \notin Reaching
  BY <1>1, <1>2 DEF ClientInv
<1>6. at \notin {"login", "pass"} /\ (at = "auth" => Nothing({"method"}))
  BY <1>1, <1>3 DEF ClientInv
<1>7. at \notin ClientPlaces \ {"auth"}
  BY <1>1, <1>4, <1>6 DEF ToldAt, ClientPlaces
<1>8. at \in {"auth", "gone", "spin"}
  BY <1>1, <1>5, <1>7 DEF TypeOK, Reaching
<1> QED BY <1>6, <1>8

LEMMA RequestAt ==
  ASSUME IInv, \/ step = "method" /\ Len(told) = 1 /\ told[1] = "anonymous"
               \/ step = "status" /\ Len(told) = 2 /\ told[2] = "welcome"
  PROVE  at \in {"request5", "gone", "spin"} /\ (at = "request5" => Nothing({"method", "status"}))
<1>1. TypeOK /\ ClientInv /\ ToldAt
  BY DEF IInv
<1>2. \A n, next : Rest(n, next) => next # "data"
  BY DEF Rest
<1>4. told # <<>> /\ told # <<"login">>
  <2>1. Len(<<>>) = 0 /\ <<"login">>[1] = "login" /\ Len(<<"login">>) = 1
    OBVIOUS
  <2> QED BY <2>1
<1>5. at \notin Reaching \union {"ip4", "ip6", "domain", "port"}
  BY <1>1, <1>2 DEF ClientInv
<1>6. at = "request5" => Nothing({"method", "status"})
  BY <1>1, <1>2 DEF ClientInv
<1>7. at \notin ClientPlaces \ {"request5"}
  BY <1>1, <1>4, <1>5 DEF ToldAt, ClientPlaces
<1>8. at \in {"request5", "gone", "spin"}
  BY <1>1, <1>5, <1>7 DEF TypeOK, Reaching
<1> QED BY <1>6, <1>8

LEMMA ClientGreetsKeeps ==
  ASSUME IInv, ClientGreets
  PROVE  IInv'
<1>1. TypeOK /\ ClientInv
  BY DEF IInv
<1>2. step = "greet" /\ UNCHANGED <<config, told, cdata, conn, upstream, at, worker>>
  BY DEF ClientGreets
<1>3. at \in {"version", "gone", "spin"} /\ (at = "version" => Nothing({"greet"}))
  BY <1>2, GreetAt
<1>4. at' = at /\ cdata' = cdata /\ name' = name /\ cin \in Seq(Nat) /\ cdata \in 0..MaxData
  BY <1>1, <1>2 DEF worker, TypeOK
<1>5. AuthRespected'
  BY <1>3, <1>4 DEF AuthRespected, UpPlaces
<1>6. /\ cin' \in Seq(Nat) /\ cfin' \in BOOLEAN /\ step' \in Steps /\ proved' \in BOOLEAN
      /\ at = "version" =>
           \/ \E uid \in Uids : Four(8, uid)' /\ (cin' # <<>> => cin'[1] = 4)
           \/ \E n \in Nat : Rest(2 + n, "method")' /\ (cin' # <<>> => cin'[1] = 5) /\ (Len(cin') >= 2 => cin'[2] = n)
  <2>1. ASSUME NEW cmd \in {1, 2}, NEW uid \in Uids,
               ClientWrites(Request4(cmd, uid), "data"), proved' = (uid = <<Right>>)
        PROVE  /\ cin' \in Seq(Nat) /\ cfin' \in BOOLEAN /\ step' \in Steps /\ proved' \in BOOLEAN
               /\ at = "version" => Four(8, uid)' /\ (cin' # <<>> => cin'[1] = 4)
    <3> DEFINE m == Request4(cmd, uid)
    <3>1. /\ m \in Seq(Nat) /\ Len(m) = 8 + Len(uid) + 1 /\ m[1] = 4
          /\ \A i \in 1..Len(m) : /\ i > 8 /\ i <= 8 + Len(uid) => m[i] = uid[i - 8]
                                  /\ i = 8 + Len(uid) + 1 => m[i] = 0
      BY Request4Is
    <3> HIDE DEF m
    <3>2. ClientWrites(m, "data") /\ "data" \in Steps
      BY <2>1 DEF m, Steps
    <3>3. cin' \in Seq(Nat) /\ cfin' \in BOOLEAN /\ step' \in Steps
      BY <3>1, <3>2, <1>4, WritesTypes
    <3>4. proved' \in BOOLEAN
      BY <2>1
    <3>5. ASSUME at = "version"
          PROVE  Four(8, uid)' /\ (cin' # <<>> => cin'[1] = 4)
      <4>1. cin = <<>> /\ cdata = 0
        BY <1>3, <3>5 DEF Nothing
      <4>2. /\ Rest(Len(m), "data")' /\ cin' \in Seq(Nat) /\ Len(cin') <= Len(m)
            /\ \A i \in 1..Len(cin') : cin'[i] = m[i]
        BY <4>1, <3>1, <3>2, <1>4, Written
      <4>3. Len(cin') \in Nat /\ Len(uid) \in Nat
        BY <4>2, UidsAre
      <4>4. \A i \in 1..Len(cin') : /\ i > 8 /\ i <= 8 + Len(uid) => cin'[i] = uid[i - 8]
                                    /\ i = 8 + Len(uid) + 1 => cin'[i] = 0
        BY <4>2, <4>3, <3>1
      <4>5. Rest(8 + Len(uid) + 1, "data")'
        BY <4>2, <3>1
      <4>6. proved' <=> uid = <<Right>>
        BY <2>1
      <4>7. Four(8, uid)'
        BY <4>4, <4>5, <4>6 DEF Four
      <4>8. cin' # <<>> => 1 \in 1..Len(cin')
        BY <4>2, <4>3, EmptyIs
      <4> QED BY <4>2, <4>7, <4>8, <3>1
    <3> QED BY <3>3, <3>4, <3>5
  <2>2. ASSUME NEW ms \in {<<>>, << 0 >>, << 2 >>, <<2, 0>>},
               ClientWrites(<<5, Len(ms)>> \o ms, "method"), proved' = FALSE
        PROVE  /\ cin' \in Seq(Nat) /\ cfin' \in BOOLEAN /\ step' \in Steps /\ proved' \in BOOLEAN
               /\ at = "version" => \E n \in Nat : /\ Rest(2 + n, "method")' /\ (cin' # <<>> => cin'[1] = 5)
                                                   /\ Len(cin') >= 2 => cin'[2] = n
    <3> DEFINE m == <<5, Len(ms)>> \o ms
    <3>1. m \in Seq(Nat) /\ Len(m) = 2 + Len(ms) /\ m[1] = 5 /\ m[2] = Len(ms) /\ Len(ms) \in Nat
      BY GreetingIs
    <3> HIDE DEF m
    <3>2. ClientWrites(m, "method") /\ "method" \in Steps
      BY <2>2 DEF m, Steps
    <3>3. cin' \in Seq(Nat) /\ cfin' \in BOOLEAN /\ step' \in Steps
      BY <3>1, <3>2, <1>4, WritesTypes
    <3>4. proved' \in BOOLEAN
      BY <2>2
    <3>5. ASSUME at = "version"
          PROVE  /\ Rest(2 + Len(ms), "method")' /\ (cin' # <<>> => cin'[1] = 5)
                 /\ Len(cin') >= 2 => cin'[2] = Len(ms)
      <4>1. cin = <<>> /\ cdata = 0
        BY <1>3, <3>5 DEF Nothing
      <4>2. /\ Rest(Len(m), "method")' /\ cin' \in Seq(Nat) /\ Len(cin') <= Len(m)
            /\ \A i \in 1..Len(cin') : cin'[i] = m[i]
        BY <4>1, <3>1, <3>2, <1>4, Written
      <4>3. Len(cin') \in Nat
        BY <4>2
      <4>4. cin' # <<>> => 1 \in 1..Len(cin')
        BY <4>2, <4>3, EmptyIs
      <4>5. Len(cin') >= 2 => 2 \in 1..Len(cin')
        BY <4>3
      <4> QED BY <4>2, <4>4, <4>5, <3>1
    <3> QED BY <3>1, <3>3, <3>4, <3>5
  <2> QED BY <2>1, <2>2 DEF ClientGreets
<1>7. ClientInv'
  <2>1. at = "version" => name' = <<>>
    BY <1>1, <1>4 DEF ClientInv
  <2> QED BY <1>3, <1>4, <1>6, <2>1 DEF ClientInv, Reaching, UpPlaces
<1> QED BY <1>2, <1>4, <1>5, <1>6, <1>7, ClientKeeps DEF Steps

LEMMA LoginIs ==
  ASSUME NEW pass \in Nat
  PROVE  LET m == <<1, 1, Right, 1, pass>>
         IN  m \in Seq(Nat) /\ Len(m) = 5 /\ m[1] = 1 /\ m[2] = 1 /\ m[3] = Right /\ m[4] = 1 /\ m[5] = pass
<1>1. Right \in Nat
  BY DEF Right
<1> QED BY <1>1

LEMMA LogsInKeeps ==
  ASSUME IInv, step = "method", Len(told) = 1, told[1] = "login", LogsIn,
         UNCHANGED <<config, told, cdata, conn, upstream, at, worker>>
  PROVE  IInv'
<1>1. TypeOK
  BY DEF IInv
<1>2. at \in {"auth", "gone", "spin"} /\ (at = "auth" => Nothing({"method"}))
  BY LoginAt
<1>3. at' = at /\ cdata' = cdata /\ cin \in Seq(Nat) /\ cdata \in 0..MaxData
  BY <1>1 DEF TypeOK
<1>4. AuthRespected'
  BY <1>2, <1>3 DEF AuthRespected, UpPlaces
<1>5. PICK pass \in {Right, Wrong} : /\ ClientWrites(<<1, 1, Right, 1, pass>>, "status")
                                     /\ proved' = (pass = Right)
  BY DEF LogsIn
<1> DEFINE m == <<1, 1, Right, 1, pass>>
<1>6. pass \in Nat /\ "status" \in Steps
  BY DEF Right, Wrong, Steps
<1>7. m \in Seq(Nat) /\ Len(m) = 5 /\ m[1] = 1 /\ m[2] = 1 /\ m[3] = Right /\ m[4] = 1 /\ m[5] = pass
  BY <1>6, LoginIs
<1>8. ClientWrites(m, "status")
  BY <1>5
<1> HIDE DEF m
<1>9. cin' \in Seq(Nat) /\ cfin' \in BOOLEAN /\ step' \in Steps
  BY <1>3, <1>6, <1>7, <1>8, WritesTypes
<1>10. proved' \in BOOLEAN
  BY <1>5
<1>11. ASSUME at = "auth" PROVE LoginSent(0, pass)'
  <2>1. cin = <<>> /\ cdata = 0
    BY <1>2, <1>11 DEF Nothing
  <2>2. /\ Rest(Len(m), "status")' /\ cin' \in Seq(Nat) /\ Len(cin') <= Len(m)
        /\ \A i \in 1..Len(cin') : cin'[i] = m[i]
    BY <2>1, <1>3, <1>7, <1>8, Written
  <2>3. Len(cin') \in Nat
    BY <2>2
  <2>4. ASSUME NEW i \in 1..Len(cin')
        PROVE  /\ 0 + i \in {1, 2, 4} => cin'[i] = 1
               /\ 0 + i = 3 => cin'[i] = Right
               /\ 0 + i = 5 => cin'[i] = pass
    <3>1. cin'[i] = m[i] /\ 0 + i = i
      BY <2>2
    <3> QED BY <3>1, <1>7
  <2>5. Rest(5 - 0, "status")'
    BY <2>2, <1>7
  <2>6. proved' <=> pass = Right
    BY <1>5
  <2> QED BY <2>4, <2>5, <2>6 DEF LoginSent
<1>12. ClientInv'
  BY <1>2, <1>3, <1>6, <1>11 DEF ClientInv, Reaching, UpPlaces
<1> QED BY <1>3, <1>4, <1>9, <1>10, <1>12, ClientKeeps DEF Steps

LEMMA RequestsKeeps ==
  ASSUME IInv, \/ step = "method" /\ Len(told) = 1 /\ told[1] = "anonymous"
               \/ step = "status" /\ Len(told) = 2 /\ told[2] = "welcome",
         Requests, UNCHANGED <<config, told, cdata, conn, upstream, at, worker>>
  PROVE  IInv'
<1>1. TypeOK
  BY DEF IInv
<1>2. at \in {"request5", "gone", "spin"} /\ (at = "request5" => Nothing({"method", "status"}))
  BY RequestAt
<1>3. at' = at /\ cdata' = cdata /\ cin \in Seq(Nat) /\ cdata \in 0..MaxData /\ proved' = proved /\ proved \in BOOLEAN
  BY <1>1 DEF TypeOK, Requests
<1>4. AuthRespected'
  <2>1. UNCHANGED <<anon, told, at, proved>>
    BY <1>3 DEF config
  <2> QED BY <2>1 DEF IInv, AuthRespected
<1>5. PICK cmd \in {1, 2}, atyp \in {1, 3, 4, 9} : ClientWrites(Request5(cmd, atyp), "data")
  BY DEF Requests
<1> DEFINE m == Request5(cmd, atyp)
<1>6. /\ m \in Seq(Nat) /\ Len(m) = 5 + Beyond(atyp) + 2 /\ "data" \in Steps
      /\ m[4] = atyp /\ m[5] = IF atyp = 3 THEN 2 ELSE 0
  BY Request5Is DEF Steps
<1> HIDE DEF m
<1>7. ClientWrites(m, "data")
  BY <1>5 DEF m
<1>8. cin' \in Seq(Nat) /\ cfin' \in BOOLEAN /\ step' \in Steps
  BY <1>3, <1>6, <1>7, WritesTypes
<1>9. ASSUME at = "request5"
      PROVE  /\ Rest(5 + Beyond(atyp) + 2, "data")'
             /\ Len(cin') >= 4 => cin'[4] = atyp
             /\ Len(cin') >= 5 => cin'[5] = IF atyp = 3 THEN 2 ELSE 0
  <2>1. cin = <<>> /\ cdata = 0
    BY <1>2, <1>9 DEF Nothing
  <2>2. /\ Rest(Len(m), "data")' /\ cin' \in Seq(Nat) /\ Len(cin') <= Len(m)
        /\ \A i \in 1..Len(cin') : cin'[i] = m[i]
    BY <2>1, <1>3, <1>6, <1>7, Written
  <2>3. Len(cin') \in Nat
    BY <2>2
  <2>4. (Len(cin') >= 4 => 4 \in 1..Len(cin')) /\ (Len(cin') >= 5 => 5 \in 1..Len(cin'))
    BY <2>3
  <2>5. Len(cin') >= 4 => cin'[4] = atyp
    BY <2>2, <2>4, <1>6
  <2>6. Len(cin') >= 5 => cin'[5] = IF atyp = 3 THEN 2 ELSE 0
    BY <2>2, <2>4, <1>6
  <2> QED BY <2>2, <2>5, <2>6, <1>6
<1>10. ClientInv'
  BY <1>2, <1>3, <1>9 DEF ClientInv, Reaching, UpPlaces
<1> QED BY <1>3, <1>4, <1>8, <1>10, ClientKeeps DEF Steps

LEMMA ClientContinuesKeeps ==
  ASSUME IInv, ClientContinues
  PROVE  IInv'
BY LogsInKeeps, RequestsKeeps DEF ClientContinues

\* One more byte of data stays behind everything else.
LEMMA DataSent ==
  ASSUME TypeOK, ClientSends
  PROVE  /\ cin' \in Seq(Nat) /\ cdata' \in 0..MaxData /\ Len(cin) \in Nat /\ Len(cin') = Len(cin) + 1
         /\ \A i \in 1..Len(cin) : cin'[i] = cin[i]
         /\ \A n \in Nat : \A next : Rest(n, next) => next = "data" /\ n <= Len(cin) /\ Rest(n, "data")'
<1> DEFINE d == DataByte(cdata + 1)
<1>1. /\ step = "data" /\ step' = step /\ cdata < MaxData /\ cin' = Append(cin, d) /\ cdata' = cdata + 1
      /\ cin \in Seq(Nat) /\ cdata \in 0..MaxData
  BY DEF ClientSends, TypeOK
<1>2. d \in Nat /\ d = DataByte(cdata') /\ MaxData \in Nat
  BY <1>1, Limits DEF DataByte
<1> HIDE DEF d
<1>3. /\ cin' \in Seq(Nat) /\ Len(cin') = Len(cin) + 1 /\ cin'[Len(cin) + 1] = d /\ Len(cin) \in Nat
      /\ \A i \in 1..Len(cin) : cin'[i] = cin[i]
  BY <1>1, <1>2, AppendProperties
<1>4. cdata' \in 0..MaxData /\ cdata \in Nat
  BY <1>1, <1>2
<1>5. ASSUME NEW n \in Nat, NEW next, Rest(n, next)
      PROVE  next = "data" /\ n <= Len(cin) /\ Rest(n, "data")'
  <2>1. /\ step = next /\ Len(cin) = n + cdata /\ \A k \in 1..cdata : cin[n + k] = DataByte(k)
    BY <1>1, <1>5 DEF Rest
  <2>2. ASSUME NEW k \in 1..cdata' PROVE cin'[n + k] = DataByte(k)
    <3>1. CASE k = cdata'
      <4>1. n + k = Len(cin) + 1
        BY <1>1, <1>4, <2>1, <3>1
      <4> QED BY <4>1, <1>2, <1>3, <3>1
    <3>2. CASE k # cdata'
      <4>1. k \in 1..cdata /\ n + k \in 1..Len(cin)
        BY <1>1, <1>4, <2>1, <3>2
      <4> QED BY <4>1, <1>3, <2>1
    <3> QED BY <3>1, <3>2
  <2>3. Len(cin') = n + cdata' /\ n <= Len(cin)
    BY <1>1, <1>3, <1>4, <2>1
  <2>4. Rest(n, "data")'
    BY <1>1, <2>1, <2>2, <2>3 DEF Rest
  <2> QED BY <1>1, <2>1, <2>3, <2>4
<1> QED BY <1>3, <1>4, <1>5

LEMMA FourKept ==
  ASSUME TypeOK, ClientSends, NEW off \in Int, NEW uid \in Uids, off + Len(uid) + 1 \in Nat, Four(off, uid)
  PROVE  Four(off, uid)' /\ off + Len(uid) + 1 <= Len(cin)
<1> DEFINE n == off + Len(uid) + 1
<1>1. /\ cin' \in Seq(Nat) /\ Len(cin) \in Nat /\ Len(cin') = Len(cin) + 1
      /\ \A i \in 1..Len(cin) : cin'[i] = cin[i]
      /\ Rest(n, "data") => n <= Len(cin) /\ Rest(n, "data")'
  BY DataSent
<1>2. Rest(n, "data") /\ Len(uid) \in Nat
  BY UidsAre DEF Four
<1>3. proved' = proved
  BY DEF ClientSends
<1>4. ASSUME NEW i \in 1..Len(cin')
      PROVE  /\ i > off /\ i <= off + Len(uid) => cin'[i] = uid[i - off]
             /\ i = off + Len(uid) + 1 => cin'[i] = 0
  <2>1. CASE i \in 1..Len(cin)
    BY <2>1, <1>1 DEF Four
  <2>2. CASE i = Len(cin) + 1
    BY <2>2, <1>1, <1>2
  <2> QED BY <2>1, <2>2, <1>1
<1> QED BY <1>1, <1>2, <1>3, <1>4 DEF Four

LEMMA ClientSendsKeeps ==
  ASSUME IInv, ClientSends
  PROVE  IInv'
<1>1. TypeOK /\ ClientInv
  BY DEF IInv
<1>2. /\ step = "data" /\ UNCHANGED <<config, cfin, step, proved, told, conn, upstream, at, worker>>
      /\ UNCHANGED <<at, need, name>>
  BY DEF ClientSends, worker
<1>3. /\ cin' \in Seq(Nat) /\ cdata' \in 0..MaxData /\ Len(cin) \in Nat /\ Len(cin') = Len(cin) + 1
      /\ \A i \in 1..Len(cin) : cin'[i] = cin[i]
      /\ \A n \in Nat : \A next : Rest(n, next) => next = "data" /\ n <= Len(cin) /\ Rest(n, "data")'
  BY <1>1, DataSent
<1>4. \A off, pass : ~LoginSent(off, pass)
  BY <1>2 DEF LoginSent, Rest
<1>5. ~Nothing({"greet"}) /\ ~Nothing({"method"}) /\ ~Nothing({"method", "status"})
  BY <1>2 DEF Nothing
<1>6. \A n : ~Rest(n, "method")
  BY <1>2 DEF Rest
<1>7. at \notin {"nauth", "methods", "auth", "login", "pass"}
  BY <1>1, <1>4, <1>5, <1>6 DEF ClientInv
<1>8. ASSUME at = "version"
      PROVE  \E uid \in Uids : Four(8, uid)' /\ (cin' # <<>> => cin'[1] = 4)
  <2>1. PICK uid \in Uids : Four(8, uid) /\ (cin # <<>> => cin[1] = 4)
    BY <1>1, <1>5, <1>6, <1>8 DEF ClientInv
  <2>2. Len(uid) \in Nat /\ 8 + Len(uid) + 1 \in Nat /\ 8 \in Int
    BY UidsAre
  <2>3. Four(8, uid)' /\ 8 + Len(uid) + 1 <= Len(cin)
    BY <2>1, <2>2, <1>1, FourKept
  <2>4. cin'[1] = 4
    <3>1. 1 \in 1..Len(cin) /\ cin # <<>>
      BY <2>2, <2>3, <1>3
    <3> QED BY <3>1, <2>1, <1>3
  <2> QED BY <2>3, <2>4
<1>9. ASSUME at = "request4"
      PROVE  \E uid \in Uids : Four(7, uid)'
  <2>1. PICK uid \in Uids : Four(7, uid)
    BY <1>1, <1>9 DEF ClientInv
  <2>2. 7 + Len(uid) + 1 \in Nat /\ 7 \in Int
    BY UidsAre
  <2> QED BY <2>1, <2>2, <1>1, FourKept
<1>10. ASSUME at = "uid"
       PROVE  \E uid \in Uids : /\ Four(0 - Len(name), uid)' /\ Len(name') <= Len(uid)
                                /\ \A i \in 1..Len(name') : name'[i] = uid[i]
  <2>1. PICK uid \in Uids : /\ Four(0 - Len(name), uid) /\ Len(name) <= Len(uid)
                            /\ \A i \in 1..Len(name) : name[i] = uid[i]
    BY <1>1, <1>10 DEF ClientInv
  <2>2. Len(name) \in Nat /\ Len(uid) \in Nat
    BY <1>1, UidsAre DEF TypeOK
  <2>3. 0 - Len(name) + Len(uid) + 1 \in Nat /\ 0 - Len(name) \in Int
    BY <2>1, <2>2
  <2>4. Four(0 - Len(name), uid)'
    <3> DEFINE off == 0 - Len(name)
    <3>1. off \in Int /\ off + Len(uid) + 1 \in Nat /\ Four(off, uid)
      BY <2>1, <2>3
    <3>2. off' = off
      BY <1>2
    <3> HIDE DEF off
    <3>3. Four(off, uid)'
      BY <3>1, <1>1, FourKept, <3>2
    <3> QED BY <3>3 DEF off
  <2> QED BY <2>1, <2>4, <1>2
<1>11. ASSUME at = "request5"
       PROVE  \E atyp \in {1, 3, 4, 9} :
                /\ Rest(5 + Beyond(atyp) + 2, "data")'
                /\ Len(cin') >= 4 => cin'[4] = atyp
                /\ Len(cin') >= 5 => cin'[5] = IF atyp = 3 THEN 2 ELSE 0
  <2>1. PICK atyp \in {1, 3, 4, 9} :
          /\ Rest(5 + Beyond(atyp) + 2, "data")
          /\ Len(cin) >= 4 => cin[4] = atyp
          /\ Len(cin) >= 5 => cin[5] = IF atyp = 3 THEN 2 ELSE 0
    BY <1>1, <1>5, <1>11 DEF ClientInv
  <2>2. Beyond(atyp) \in Nat
    BY DEF Beyond
  <2>3. 5 + Beyond(atyp) + 2 \in Nat
    BY <2>2
  <2>4. Rest(5 + Beyond(atyp) + 2, "data")' /\ 5 + Beyond(atyp) + 2 <= Len(cin)
    BY <2>1, <2>3, <1>3
  <2>5. 4 \in 1..Len(cin) /\ 5 \in 1..Len(cin) /\ Len(cin) >= 4 /\ Len(cin) >= 5
    BY <2>2, <2>4, <1>3
  <2>6. cin'[4] = cin[4] /\ cin'[5] = cin[5]
    BY <2>5, <1>3
  <2> QED BY <2>1, <2>4, <2>5, <2>6
<1>12. /\ at = "ip4" => Rest(5, "data")'
       /\ at = "ip6" => Rest(17, "data")'
       /\ at = "domain" => need = 2 /\ Rest(4, "data")'
       /\ at = "port" => Rest(2, "data")'
       /\ at \in Reaching => Rest(0, "data")'
  <2>1. \A n \in {0, 2, 4, 5, 17} : n \in Nat
    OBVIOUS
  <2>2. \A n \in {0, 2, 4, 5, 17} : Rest(n, "data") => Rest(n, "data")'
    BY <2>1, <1>3
  <2> QED BY <2>2, <1>1 DEF ClientInv
<1>13. ClientInv'
  <2>1. at \in {"version", "request4"} => name = <<>>
    BY <1>1 DEF ClientInv
  <2> QED BY <1>2, <1>7, <1>8, <1>9, <1>10, <1>11, <1>12, <2>1 DEF ClientInv, Reaching, UpPlaces
<1>14. AuthRespected'
  <2>1. UNCHANGED <<anon, told, at, proved>>
    BY <1>2 DEF config
  <2> QED BY <2>1 DEF IInv, AuthRespected
<1>15. cfin' \in BOOLEAN /\ step' \in Steps /\ proved' \in BOOLEAN
  BY <1>1, <1>2 DEF TypeOK, Steps
<1> QED BY <1>2, <1>3, <1>13, <1>14, <1>15, ClientKeeps DEF Steps

LEMMA ClientClosesKeeps ==
  ASSUME IInv, ClientCloses
  PROVE  IInv'
<1>1. TypeOK /\ ClientInv /\ AuthRespected
  BY DEF IInv
<1>2. /\ cfin' = TRUE /\ UNCHANGED <<config, cin, step, proved, cdata, told, conn, upstream, at, worker>>
      /\ UNCHANGED <<anon, at, need, name>>
  BY DEF ClientCloses, worker, config
<1>3. \A n, next : Rest(n, next) => Rest(n, next)'
  BY <1>2 DEF Rest
<1>4. \A off, uid : Four(off, uid) => Four(off, uid)'
  BY <1>2, <1>3 DEF Four
<1>5. \A off, pass : LoginSent(off, pass) => LoginSent(off, pass)'
  BY <1>2, <1>3 DEF LoginSent
<1>6. \A s : Nothing(s) => Nothing(s)'
  BY <1>2 DEF Nothing
<1>7. ClientInv'
  <2>1. /\ at \in {"version", "request4"} => name' = <<>>
        /\ at = "version" =>
             \/ Nothing({"greet"})'
             \/ \E uid \in Uids : Four(8, uid)' /\ (cin' # <<>> => cin'[1] = 4)
             \/ \E n \in Nat : Rest(2 + n, "method")' /\ (cin' # <<>> => cin'[1] = 5) /\ (Len(cin') >= 2 => cin'[2] = n)
        /\ at = "request4" => \E uid \in Uids : Four(7, uid)'
    BY <1>1, <1>2, <1>3, <1>4, <1>6 DEF ClientInv
  <2>2. ASSUME at = "uid"
        PROVE  \E uid \in Uids : /\ Four(0 - Len(name), uid)' /\ Len(name') <= Len(uid)
                                 /\ \A i \in 1..Len(name') : name'[i] = uid[i]
    <3>1. PICK uid \in Uids : /\ Four(0 - Len(name), uid) /\ Len(name) <= Len(uid)
                              /\ \A i \in 1..Len(name) : name[i] = uid[i]
      BY <1>1, <2>2 DEF ClientInv
    <3>2. Four(0 - Len(name), uid)'
      BY <3>1, <1>2, <1>3 DEF Four
    <3> QED BY <3>1, <3>2, <1>2
  <2>3. /\ at = "nauth" => \E n \in Nat : Rest(1 + n, "method")' /\ (cin' # <<>> => cin'[1] = n)
        /\ at = "auth" => Nothing({"method"})' \/ \E pass \in Nat : LoginSent(0, pass)'
        /\ at = "login" => need' = 2 /\ \E pass \in Nat : LoginSent(2, pass)'
        /\ at = "pass" => need' = 1 /\ name' = <<Right>> /\ \E pass \in Nat : LoginSent(4, pass)'
    BY <1>1, <1>2, <1>3, <1>5, <1>6 DEF ClientInv
  <2>4. at = "methods" => Rest(need, "method")'
    BY <1>1, <1>2 DEF ClientInv, Rest
  <2>5. at = "request5" =>
          \/ Nothing({"method", "status"})'
          \/ \E atyp \in {1, 3, 4, 9} :
               /\ Rest(5 + Beyond(atyp) + 2, "data")'
               /\ Len(cin') >= 4 => cin'[4] = atyp
               /\ Len(cin') >= 5 => cin'[5] = IF atyp = 3 THEN 2 ELSE 0
    BY <1>1, <1>2, <1>3, <1>6 DEF ClientInv
  <2>6. /\ at = "ip4" => Rest(5, "data")'
        /\ at = "ip6" => Rest(17, "data")'
        /\ at = "domain" => need' = 2 /\ Rest(4, "data")'
        /\ at = "port" => Rest(2, "data")'
        /\ at \in Reaching => Rest(0, "data")'
    BY <1>1, <1>2, <1>3 DEF ClientInv
  <2> QED BY <2>1, <2>2, <2>3, <2>4, <2>5, <2>6, <1>2 DEF ClientInv
<1>8. AuthRespected'
  BY <1>1, <1>2 DEF AuthRespected
<1>9. /\ cin' \in Seq(Nat) /\ cfin' \in BOOLEAN /\ step' \in Steps /\ proved' \in BOOLEAN /\ cdata' \in 0..MaxData
  BY <1>1, <1>2 DEF TypeOK, Steps
<1> QED BY <1>2, <1>7, <1>8, <1>9, ClientKeeps DEF Steps

-----------------------------------------------------------------------------
(* The handshake, step by step.                                            *)

LEMMA QuietHandshakeKeeps ==
  ASSUME IInv, at \in ClientPlaces, at' \in ClientPlaces \union {"connect", "gone"}, UNCHANGED <<ToClient, told>>,
         cin' \in Seq(Nat), need' \in Nat, name' \in Seq(Nat), Len(name') <= UidMax + 1,
         dest' \in {"none", "ip4", "ip6", "domain"}, ClientInv', ToldAt', AuthRespected'
  PROVE  IInv'
<1>1. "refused" \in Answers /\ told' = told /\ UNCHANGED ToClient
  BY DEF Answers
<1> QED BY <1>1, HandshakeKeeps

\* What a recv of n bytes leaves.
LEMMA Took ==
  ASSUME TypeOK, NEW n \in Nat, Len(cin) >= n, cin' = Drop(cin, n), UNCHANGED ToClient
  PROVE  /\ cin' \in Seq(Nat) /\ Len(cin) \in Nat /\ Len(cin') = Len(cin) - n
         /\ \A i \in 1..Len(cin) - n : cin'[i] = cin[n + i]
         /\ \A m, r \in Nat : \A next : m = n + r /\ Rest(m, next) => Rest(r, next)'
<1>1. cin \in Seq(Nat) /\ cdata \in Nat /\ UNCHANGED <<cfin, step, cdata>>
  BY Limits DEF TypeOK, ToClient
<1>2. n \in 0..Len(cin) /\ Len(cin) \in Nat
  BY <1>1
<1>3. /\ cin' \in Seq(Nat) /\ Len(cin') = Len(cin) - n
      /\ \A i \in 1..Len(cin) - n : cin'[i] = cin[n + i]
  BY <1>1, <1>2, DropIs
<1>4. ASSUME NEW m \in Nat, NEW r \in Nat, NEW next, m = n + r, Rest(m, next)
      PROVE  Rest(r, next)'
  <2>1. n <= m /\ m - n = r
    BY <1>4
  <2>2. Rest(m - n, next)'
    BY <1>1, <1>4, <2>1, Consumed
  <2> QED BY <2>1, <2>2
<1> QED BY <1>2, <1>3, <1>4

LEMMA FourTook ==
  ASSUME TypeOK, NEW n \in Nat, Len(cin) >= n, cin' = Drop(cin, n), UNCHANGED ToClient,
         NEW off \in Int, NEW rest \in Int, rest = off - n, NEW uid \in Uids, n <= off + Len(uid) + 1, Four(off, uid)
  PROVE  Four(rest, uid)'
<1>1. /\ cin' \in Seq(Nat) /\ Len(cin) \in Nat /\ Len(cin') = Len(cin) - n
      /\ \A i \in 1..Len(cin) - n : cin'[i] = cin[n + i]
      /\ \A m, r \in Nat : \A next : m = n + r /\ Rest(m, next) => Rest(r, next)'
  BY Took
<1>2. Len(uid) \in Nat /\ proved' = proved
  BY UidsAre DEF ToClient
<1>3. Rest(rest + Len(uid) + 1, "data")'
  <2> DEFINE m == off + Len(uid) + 1
             r == rest + Len(uid) + 1
  <2>1. m \in Nat /\ r \in Nat /\ m = n + r
    BY <1>2
  <2>2. Rest(m, "data")
    BY DEF Four
  <2> HIDE DEF m, r
  <2>3. Rest(r, "data")'
    BY <2>1, <2>2, <1>1
  <2>4. r' = r
    BY DEF r
  <2> QED BY <2>3 DEF r
<1>4. ASSUME NEW i \in 1..Len(cin')
      PROVE  /\ i > rest /\ i <= rest + Len(uid) => cin'[i] = uid[i - rest]
             /\ i = rest + Len(uid) + 1 => cin'[i] = 0
  <2>0. i \in 1..Len(cin) - n
    BY <1>1
  <2>1. n + i \in 1..Len(cin) /\ cin'[i] = cin[n + i]
    BY ONLY <2>0, <1>1, n \in Nat
  <2>2. /\ n + i > off /\ n + i <= off + Len(uid) => cin[n + i] = uid[n + i - off]
        /\ n + i = off + Len(uid) + 1 => cin[n + i] = 0
    BY <2>1 DEF Four
  <2>3. /\ i > rest <=> n + i > off
        /\ i <= rest + Len(uid) <=> n + i <= off + Len(uid)
        /\ i = rest + Len(uid) + 1 <=> n + i = off + Len(uid) + 1
        /\ n + i - off = i - rest
    BY <1>2
  <2> QED BY <2>1, <2>2, <2>3
<1> QED BY <1>2, <1>3, <1>4 DEF Four

LEMMA LoginTook ==
  ASSUME TypeOK, NEW n \in Nat, Len(cin) >= n, cin' = Drop(cin, n), UNCHANGED ToClient,
         NEW off \in Nat, NEW more \in Nat, more = off + n, more <= 5, NEW pass \in Nat, LoginSent(off, pass)
  PROVE  LoginSent(more, pass)'
<1>1. /\ cin' \in Seq(Nat) /\ Len(cin) \in Nat /\ Len(cin') = Len(cin) - n
      /\ \A i \in 1..Len(cin) - n : cin'[i] = cin[n + i]
      /\ \A m, r \in Nat : \A next : m = n + r /\ Rest(m, next) => Rest(r, next)'
  BY Took
<1>2. proved' = proved
  BY DEF ToClient
<1>3. Rest(5 - more, "status")'
  <2> DEFINE m == 5 - off
             r == 5 - more
  <2>1. m \in Nat /\ r \in Nat /\ m = n + r
    OBVIOUS
  <2>2. Rest(m, "status")
    BY DEF LoginSent
  <2> HIDE DEF m, r
  <2>3. Rest(r, "status")'
    BY <2>1, <2>2, <1>1
  <2> QED BY <2>3 DEF r
<1>4. ASSUME NEW i \in 1..Len(cin')
      PROVE  /\ more + i \in {1, 2, 4} => cin'[i] = 1
             /\ more + i = 3 => cin'[i] = Right
             /\ more + i = 5 => cin'[i] = pass
  <2>1. n + i \in 1..Len(cin) /\ cin'[i] = cin[n + i] /\ off + (n + i) = more + i
    BY <1>1
  <2>2. /\ off + (n + i) \in {1, 2, 4} => cin[n + i] = 1
        /\ off + (n + i) = 3 => cin[n + i] = Right
        /\ off + (n + i) = 5 => cin[n + i] = pass
    BY <2>1 DEF LoginSent
  <2> QED BY <2>1, <2>2
<1> QED BY <1>2, <1>3, <1>4 DEF LoginSent

LEMMA VersionKeeps ==
  ASSUME IInv, Version
  PROVE  IInv'
<1>1. TypeOK /\ ClientInv /\ ToldAt
  BY DEF IInv
<1>2. /\ at = "version" /\ Len(cin) >= 1 /\ cin' = Drop(cin, 1) /\ UNCHANGED <<ToClient, told, need, name, dest>>
      /\ at' = IF cin[1] = 4 /\ 4 \in allow THEN "request4"
               ELSE IF cin[1] = 5 /\ 5 \in allow THEN "nauth" ELSE "gone"
  BY DEF Version, Reads, Consume, Need
<1>3. /\ cin' \in Seq(Nat) /\ Len(cin) \in Nat /\ Len(cin') = Len(cin) - 1
      /\ \A i \in 1..Len(cin) - 1 : cin'[i] = cin[1 + i]
      /\ \A m, r \in Nat : \A next : m = 1 + r /\ Rest(m, next) => Rest(r, next)'
  BY <1>1, <1>2, Took
<1>4. cin # <<>> /\ name = <<>> /\ told = <<>>
  BY <1>1, <1>2, EmptyIs DEF ClientInv, ToldAt
<1>5. \/ at' = "gone"
      \/ at' = "request4" /\ \E uid \in Uids : Four(7, uid)'
      \/ at' = "nauth" /\ \E n \in Nat : Rest(1 + n, "method")' /\ (cin' # <<>> => cin'[1] = n)
  <2>1. ASSUME NEW uid \in Uids, Four(8, uid), cin[1] = 4
        PROVE  at' = "gone" \/ (at' = "request4" /\ Four(7, uid)')
    <3>1. 8 \in Int /\ 7 \in Int /\ 7 = 8 - 1 /\ 1 <= 8 + Len(uid) + 1
      BY UidsAre
    <3>2. Four(7, uid)'
      BY <1>1, <1>2, <2>1, <3>1, FourTook
    <3> QED BY <3>2, <2>1, <1>2
  <2>2. ASSUME NEW n \in Nat, Rest(2 + n, "method"), cin[1] = 5, Len(cin) >= 2 => cin[2] = n
        PROVE  at' = "gone" \/ (at' = "nauth" /\ Rest(1 + n, "method")' /\ (cin' # <<>> => cin'[1] = n))
    <3>1. 2 + n = 1 + (1 + n) /\ 2 + n \in Nat /\ 1 + n \in Nat
      OBVIOUS
    <3>2. Rest(1 + n, "method")'
      BY <1>3, <2>2, <3>1
    <3>3. ASSUME cin' # <<>> PROVE cin'[1] = n
      <4>1. Len(cin') # 0
        BY <3>3, <1>3, EmptyIs
      <4>2. 1 \in 1..Len(cin) - 1 /\ Len(cin) >= 2 /\ 1 + 1 = 2
        BY <4>1, <1>2, <1>3
      <4> QED BY <4>2, <1>3, <2>2
    <3> QED BY <3>2, <3>3, <2>2, <1>2
  <2>3. ~Nothing({"greet"})
    BY <1>4 DEF Nothing
  <2> QED BY <2>1, <2>2, <2>3, <1>1, <1>2, <1>4 DEF ClientInv
<1>6. ClientInv'
  <2>1. name' = <<>>
    BY <1>2, <1>4
  <2>2. at' \in {"gone", "request4", "nauth"}
    BY <1>5
  <2> QED BY <1>5, <2>1, <2>2 DEF ClientInv, Reaching, UpPlaces
<1>7. ToldAt' /\ AuthRespected'
  <2>1. told' = <<>> /\ at' \in {"gone", "request4", "nauth"}
    BY <1>2, <1>4
  <2> QED BY <2>1 DEF ToldAt, AuthRespected, UpPlaces
<1>8. /\ at \in ClientPlaces /\ at' \in ClientPlaces \union {"connect", "gone"} /\ need' \in Nat
      /\ name' \in Seq(Nat) /\ Len(name') <= UidMax + 1 /\ dest' \in {"none", "ip4", "ip6", "domain"}
  BY <1>1, <1>2 DEF ClientPlaces, TypeOK
<1> QED BY <1>2, <1>3, <1>6, <1>7, <1>8, QuietHandshakeKeeps

LEMMA ConnectCommand4Keeps ==
  ASSUME IInv, ConnectCommand4
  PROVE  IInv'
<1>1. TypeOK /\ ClientInv /\ ToldAt
  BY DEF IInv
<1>2. /\ at = "request4" /\ Len(cin) >= 7 /\ cin' = Drop(cin, 7) /\ UNCHANGED <<ToClient, told, need, name>>
      /\ at' \in {"uid", "gone"} /\ dest' = "ip4"
  BY DEF ConnectCommand4, Reads, Consume, Need
<1>3. cin' \in Seq(Nat)
  BY <1>1, <1>2, Took
<1>4. name' = <<>> /\ told' = <<>>
  BY <1>1, <1>2 DEF ClientInv, ToldAt
<1>5. PICK uid \in Uids : Four(7, uid)
  BY <1>1, <1>2 DEF ClientInv
<1>6. Four(0, uid)' /\ Len(uid) \in Nat
  <2>1. 7 \in Int /\ 0 \in Int /\ 0 = 7 - 7 /\ 7 <= 7 + Len(uid) + 1 /\ Len(uid) \in Nat
    BY UidsAre
  <2> QED BY <1>1, <1>2, <1>5, <2>1, FourTook
<1>7. Four(0 - Len(name), uid)' /\ Len(name') <= Len(uid) /\ \A i \in 1..Len(name') : name'[i] = uid[i]
  <2>0. Len(name') = 0
    BY ONLY <1>4, EmptyIs
  <2>1. Len(name') = 0 /\ 0 - Len(name') = 0
    BY ONLY <2>0
  <2>2. Four(0 - Len(name), uid)'
    BY <2>1, <1>6 DEF Four
  <2> QED BY <2>1, <2>2, <1>6
<1>8. ClientInv'
  BY <1>2, <1>7 DEF ClientInv, Reaching, UpPlaces
<1>9. ToldAt' /\ AuthRespected'
  BY <1>2, <1>4 DEF ToldAt, AuthRespected, UpPlaces
<1>10. /\ at \in ClientPlaces /\ at' \in ClientPlaces \union {"connect", "gone"} /\ need' \in Nat
       /\ name' \in Seq(Nat) /\ Len(name') <= UidMax + 1 /\ dest' \in {"none", "ip4", "ip6", "domain"}
  BY <1>1, <1>2 DEF ClientPlaces, TypeOK
<1> QED BY <1>2, <1>3, <1>8, <1>9, <1>10, QuietHandshakeKeeps

LEMMA UserIdKeeps ==
  ASSUME IInv, UserId
  PROVE  IInv'
<1>1. TypeOK /\ ClientInv /\ ToldAt
  BY DEF IInv
<1>2. /\ at = "uid" /\ Len(cin) >= 1 /\ cin' = Drop(cin, 1) /\ UNCHANGED <<ToClient, need, dest>>
      /\ IF cin[1] # 0 /\ Len(name) <= UidMax
         THEN name' = Append(name, cin[1]) /\ UNCHANGED <<at, told>>
         ELSE /\ UNCHANGED name
              /\ IF name = <<Right>> THEN at' = "connect" /\ UNCHANGED told
                                     ELSE at' = "gone" /\ told' = Append(told, "refused")
  BY DEF UserId, Reads, Consume, Need, Tell
<1>3. /\ cin' \in Seq(Nat) /\ Len(cin) \in Nat /\ Len(cin') = Len(cin) - 1
      /\ \A i \in 1..Len(cin) - 1 : cin'[i] = cin[1 + i]
      /\ \A m, r \in Nat : \A next : m = 1 + r /\ Rest(m, next) => Rest(r, next)'
  BY <1>1, <1>2, Took
<1>4. PICK uid \in Uids : /\ Four(0 - Len(name), uid) /\ Len(name) <= Len(uid)
                          /\ \A i \in 1..Len(name) : name[i] = uid[i]
  BY <1>1, <1>2 DEF ClientInv
<1>5. /\ name \in Seq(Nat) /\ Len(name) \in Nat /\ Len(uid) \in Nat /\ uid \in Seq(Nat)
      /\ (\A i \in 1..Len(uid) : uid[i] # 0) /\ UidMax \in Nat \ {0} /\ told = <<>> /\ cin \in Seq(Nat)
  BY <1>1, <1>2, UidsAre, Limits DEF TypeOK, ToldAt
<1>6. /\ Len(name) < Len(uid) => cin[1] = uid[Len(name) + 1]
      /\ Len(name) = Len(uid) => cin[1] = 0
  <2>1. 1 \in 1..Len(cin)
    BY <1>2, <1>3
  <2>2. /\ 1 > 0 - Len(name) /\ 1 <= 0 - Len(name) + Len(uid) => cin[1] = uid[1 - (0 - Len(name))]
        /\ 1 = 0 - Len(name) + Len(uid) + 1 => cin[1] = 0
    BY <1>4, <2>1 DEF Four
  <2>3. /\ 1 > 0 - Len(name) /\ 1 - (0 - Len(name)) = Len(name) + 1
        /\ Len(name) < Len(uid) => 1 <= 0 - Len(name) + Len(uid)
        /\ Len(name) = Len(uid) => 1 = 0 - Len(name) + Len(uid) + 1
    BY <1>5
  <2> QED BY <2>2, <2>3
<1>7. /\ at \in ClientPlaces /\ at' \in ClientPlaces \union {"connect", "gone"} /\ need' \in Nat
      /\ dest' \in {"none", "ip4", "ip6", "domain"} /\ "refused" \in Answers /\ "refused" \in Final
  BY <1>1, <1>2 DEF ClientPlaces, TypeOK, Answers, Final
<1>8. CASE cin[1] # 0 /\ Len(name) <= UidMax
  <2>1. name' = Append(name, cin[1]) /\ at' = "uid" /\ told' = <<>> /\ told' = told
    BY <1>2, <1>5, <1>8
  <2>2. 1 \in 1..Len(cin)
    BY <1>2, <1>3
  <2>3. cin[1] \in Nat
    BY <1>5, <2>2, ElementOfSeq
  <2>4. /\ name' \in Seq(Nat) /\ Len(name') = Len(name) + 1 /\ name'[Len(name) + 1] = cin[1]
        /\ \A i \in 1..Len(name) : name'[i] = name[i]
    BY <2>1, <2>3, <1>5, AppendProperties
  <2>5. Len(name) < Len(uid) /\ cin[1] = uid[Len(name) + 1]
    BY <1>4, <1>5, <1>6, <1>8
  <2>6. Len(name') <= UidMax + 1 /\ Len(name') <= Len(uid)
    BY <1>5, <1>8, <2>4, <2>5
  <2>7. ASSUME NEW i \in 1..Len(name') PROVE name'[i] = uid[i]
    <3>1. i \in 1..Len(name) \/ i = Len(name) + 1
      BY <2>4, <1>5
    <3> QED BY <3>1, <2>4, <2>5, <1>4
  <2>8. Four(0 - Len(name), uid)'
    <3>1. PICK l \in Nat : l = Len(name)
      BY <1>5
    <3>2. PICK off \in Int, rest \in Int : off = 0 - l /\ rest = 0 - (l + 1)
      BY <3>1
    <3>3. rest = off - 1 /\ 1 <= off + Len(uid) + 1
      BY <1>5, <2>5, <3>1, <3>2
    <3>4. Four(off, uid)
      BY <1>4, <3>1, <3>2
    <3>5. Four(rest, uid)'
      BY <1>1, <1>2, <3>3, <3>4, FourTook
    <3>6. 0 - Len(name') = rest
      BY <2>4, <3>1, <3>2
    <3> QED BY <3>5, <3>6 DEF Four
  <2>9. ClientInv'
    BY <2>1, <2>6, <2>7, <2>8 DEF ClientInv, Reaching, UpPlaces
  <2>10. ToldAt' /\ AuthRespected'
    BY <2>1 DEF ToldAt, AuthRespected, UpPlaces
  <2> QED BY <1>2, <1>3, <1>7, <2>1, <2>4, <2>6, <2>9, <2>10, QuietHandshakeKeeps
<1>9. CASE ~(cin[1] # 0 /\ Len(name) <= UidMax) /\ name = <<Right>>
  <2>1. name' = name /\ at' = "connect" /\ told' = told
    BY <1>2, <1>9
  <2>2. Len(name) = 1 /\ name[1] = Right
    BY <1>9
  <2>3. cin[1] = 0
    BY <1>5, <1>9, <2>2
  <2>4. Len(name) = Len(uid)
    <3>1. CASE Len(name) < Len(uid)
      <4>1. Len(name) + 1 \in 1..Len(uid)
        BY <3>1, <1>5
      <4> QED BY <4>1, <3>1, <1>5, <1>6, <2>3
    <3> QED BY <3>1, <1>4, <1>5
  <2>5. uid = <<Right>>
    <3>0. 1 \in 1..Len(name)
      BY <2>2
    <3>1. uid[1] = Right /\ Len(uid) = 1
      BY <3>0, <1>4, <2>2, <2>4
    <3>2. <<Right>> \in Seq(Nat) /\ Len(<<Right>>) = 1 /\ <<Right>>[1] = Right
      BY DEF Right
    <3>3. \A k \in 1..Len(uid) : uid[k] = <<Right>>[k]
      BY <3>1
    <3> QED BY <3>1, <3>2, <3>3, <1>5, SeqEqual
  <2>6. proved' = TRUE
    <3>1. proved <=> uid = <<Right>>
      BY <1>4 DEF Four
    <3>2. proved \in BOOLEAN /\ proved' = proved
      BY <1>1, <1>2 DEF TypeOK, ToClient
    <3> QED BY <3>1, <3>2, <2>5
  <2>7. Rest(0, "data")'
    <3> DEFINE m == 0 - Len(name) + Len(uid) + 1
    <3>1. Rest(m, "data")
      BY <1>4 DEF Four
    <3>2. m = 1 + 0 /\ m \in Nat /\ 0 \in Nat
      BY <2>4, <1>5
    <3> HIDE DEF m
    <3> QED BY <3>1, <3>2, <1>3
  <2>8. ClientInv' /\ ToldAt' /\ AuthRespected'
    BY <2>1, <2>6, <2>7 DEF ClientInv, Reaching, ToldAt, AuthRespected
  <2>9. Len(name') <= UidMax + 1 /\ name' \in Seq(Nat)
    BY <2>1, <1>1 DEF TypeOK
  <2> QED BY <1>2, <1>3, <1>7, <2>1, <2>8, <2>9, QuietHandshakeKeeps
<1>10. CASE ~(cin[1] # 0 /\ Len(name) <= UidMax) /\ name # <<Right>>
  <2>1. name' = name /\ at' = "gone" /\ told' = Append(told, "refused")
    BY <1>2, <1>10
  <2>2. ClientInv' /\ ToldAt' /\ AuthRespected'
    BY <2>1 DEF ClientInv, Reaching, UpPlaces, ToldAt, AuthRespected
  <2>3. Len(name') <= UidMax + 1 /\ name' \in Seq(Nat)
    BY <2>1, <1>1 DEF TypeOK
  <2> QED BY <1>2, <1>3, <1>7, <2>1, <2>2, <2>3, HandshakeKeeps
<1> QED BY <1>8, <1>9, <1>10

LEMMA NumAuthKeeps ==
  ASSUME IInv, NumAuth
  PROVE  IInv'
<1>1. TypeOK /\ ClientInv /\ ToldAt
  BY DEF IInv
<1>2. /\ at = "nauth" /\ Len(cin) >= 1 /\ cin' = Drop(cin, 1) /\ UNCHANGED <<ToClient, told, name, dest>>
      /\ need' = cin[1] /\ at' = "methods"
  BY DEF NumAuth, Reads, Consume, Need
<1>3. /\ cin' \in Seq(Nat) /\ Len(cin) \in Nat
      /\ \A m, r \in Nat : \A next : m = 1 + r /\ Rest(m, next) => Rest(r, next)'
  BY <1>1, <1>2, Took
<1>4. PICK n \in Nat : Rest(1 + n, "method") /\ (cin # <<>> => cin[1] = n)
  BY <1>1, <1>2 DEF ClientInv
<1>5. Rest(n, "method")'
  BY <1>3, <1>4
<1>6. need' = n
  BY <1>2, <1>4, EmptyIs
<1>7. Rest(need, "method")'
  BY <1>5, <1>6 DEF Rest
<1>8. told' = <<>>
  BY <1>1, <1>2 DEF ToldAt
<1>9. ClientInv' /\ ToldAt' /\ AuthRespected'
  BY <1>2, <1>7, <1>8 DEF ClientInv, Reaching, UpPlaces, ToldAt, AuthRespected
<1>10. /\ at \in ClientPlaces /\ at' \in ClientPlaces \union {"connect", "gone"} /\ need' \in Nat
       /\ name' \in Seq(Nat) /\ Len(name') <= UidMax + 1 /\ dest' \in {"none", "ip4", "ip6", "domain"}
  BY <1>1, <1>2, <1>6 DEF ClientPlaces, TypeOK
<1> QED BY <1>2, <1>3, <1>9, <1>10, QuietHandshakeKeeps

\* Reading all that the client has sent: it waits for the answer.
LEMMA TookAll ==
  ASSUME TypeOK, NEW n \in Nat, Len(cin) >= n, cin' = Drop(cin, n), UNCHANGED ToClient,
         NEW next \in {"method", "status"}, Rest(n, next)
  PROVE  cin' \in Seq(Nat) /\ \A s : next \in s => Nothing(s)'
<1>1. /\ cin' \in Seq(Nat) /\ Len(cin) \in Nat /\ Len(cin') = Len(cin) - n
  BY Took
<1>2. step = next /\ Len(cin) = n + cdata /\ cdata = 0
  BY <1>1 DEF Rest
<1>3. cin' = <<>>
  BY <1>1, <1>2, EmptyIs
<1>4. step' = next /\ cdata' = 0
  BY <1>2 DEF ToClient
<1> QED BY <1>1, <1>3, <1>4 DEF Nothing

LEMMA MethodsKeeps ==
  ASSUME IInv, Methods
  PROVE  IInv'
<1> DEFINE m == Method({cin[i] : i \in 1..need})
<1>1. TypeOK /\ ClientInv /\ ToldAt
  BY DEF IInv
<1>2. /\ at = "methods" /\ Len(cin) >= need /\ cin' = Drop(cin, need) /\ UNCHANGED <<ToClient, need, name, dest>>
      /\ told' = Append(told, m)
      /\ at' = CASE m = "anonymous" -> "request5" [] m = "login" -> "auth" [] OTHER -> "gone"
  BY DEF Methods, Reads, Consume, Need, Tell
<1>3. need \in Nat /\ Rest(need, "method") /\ told = <<>>
  BY <1>1, <1>2 DEF TypeOK, ClientInv, ToldAt
<1>4. cin' \in Seq(Nat) /\ Nothing({"method"})' /\ Nothing({"method", "status"})'
  <2>1. cin' \in Seq(Nat) /\ \A s : "method" \in s => Nothing(s)'
    BY <1>1, <1>2, <1>3, TookAll
  <2> QED BY <2>1
<1>5. m \in {"anonymous", "login", "unacceptable"} /\ (m = "anonymous" => anon)
  BY DEF Method
<1> HIDE DEF m
<1>6. told' = <<m>>
  BY <1>2, <1>3
<1>7. \/ m = "anonymous" /\ anon /\ at' = "request5"
      \/ m = "login" /\ at' = "auth"
      \/ m = "unacceptable" /\ at' = "gone"
  BY <1>2, <1>5
<1>8. ClientInv'
  BY <1>4, <1>7 DEF ClientInv, Reaching, UpPlaces
<1>9. ToldAt'
  BY <1>6, <1>7 DEF ToldAt
<1>10. AuthRespected'
  <2>1. CASE at' # "request5"
    BY <2>1, <1>7 DEF AuthRespected, UpPlaces
  <2>2. CASE at' = "request5"
    <3>1. anon' /\ told' = <<"anonymous">>
      BY <1>2, <1>6, <1>7, <2>2 DEF ToClient, config
    <3>2. told' # <<>> /\ told'[1] = "anonymous"
      BY <3>1
    <3> QED BY <3>1, <3>2 DEF AuthRespected
  <2> QED BY <2>1, <2>2
<1>11. /\ at \in ClientPlaces /\ at' \in ClientPlaces \union {"connect", "gone"} /\ need' \in Nat
       /\ name' \in Seq(Nat) /\ Len(name') <= UidMax + 1 /\ dest' \in {"none", "ip4", "ip6", "domain"}
       /\ m \in Answers /\ m \notin Final
  BY <1>1, <1>2, <1>7 DEF ClientPlaces, TypeOK, Answers, Final
<1> QED BY <1>2, <1>4, <1>8, <1>9, <1>10, <1>11, HandshakeKeeps

LEMMA AuthHeaderKeeps ==
  ASSUME IInv, AuthHeader
  PROVE  IInv'
<1>1. TypeOK /\ ClientInv /\ ToldAt
  BY DEF IInv
<1>2. /\ at = "auth" /\ Len(cin) >= 2 /\ cin' = Drop(cin, 2) /\ UNCHANGED <<ToClient, told, name, dest>>
      /\ need' = 1 + cin[2] /\ at' = IF cin[1] = 1 THEN "login" ELSE "gone"
  BY DEF AuthHeader, Reads, Consume, Need
<1>3. cin' \in Seq(Nat) /\ Len(cin) \in Nat
  BY <1>1, <1>2, Took
<1>4. PICK pass \in Nat : LoginSent(0, pass)
  <2>1. ~Nothing({"method"})
    BY <1>2, EmptyIs DEF Nothing
  <2> QED BY <2>1, <1>1, <1>2 DEF ClientInv
<1>5. LoginSent(2, pass)'
  <2>1. 2 \in Nat /\ 0 \in Nat /\ 2 = 0 + 2 /\ 2 <= 5
    OBVIOUS
  <2> QED BY <1>1, <1>2, <1>4, <2>1, LoginTook
<1>6. cin[1] = 1 /\ cin[2] = 1
  <2>1. 1 \in 1..Len(cin) /\ 2 \in 1..Len(cin) /\ 0 + 1 \in {1, 2, 4} /\ 0 + 2 \in {1, 2, 4}
    BY <1>2, <1>3
  <2> QED BY <2>1, <1>4 DEF LoginSent
<1>7. need' = 2 /\ at' = "login" /\ told' = <<"login">>
  BY <1>1, <1>2, <1>6 DEF ToldAt
<1>8. ClientInv' /\ ToldAt' /\ AuthRespected'
  BY <1>5, <1>7 DEF ClientInv, Reaching, UpPlaces, ToldAt, AuthRespected
<1>9. /\ at \in ClientPlaces /\ at' \in ClientPlaces \union {"connect", "gone"} /\ need' \in Nat
      /\ name' \in Seq(Nat) /\ Len(name') <= UidMax + 1 /\ dest' \in {"none", "ip4", "ip6", "domain"}
  BY <1>1, <1>2, <1>7 DEF ClientPlaces, TypeOK
<1> QED BY <1>2, <1>3, <1>8, <1>9, QuietHandshakeKeeps

LEMMA FirstOf ==
  ASSUME NEW s \in Seq(Nat), Len(s) >= 1
  PROVE  SubSeq(s, 1, 1) = <<s[1]>> /\ SubSeq(s, 1, 1) \in Seq(Nat) /\ s[1] \in Nat
<1>1. Len(s) \in Nat /\ 1 \in 1..Len(s) /\ 1 \in 0..Len(s)
  OBVIOUS
<1>2. /\ SubSeq(s, 1, 1) \in Seq(Nat) /\ Len(SubSeq(s, 1, 1)) = 1
      /\ \A i \in 1..1 : SubSeq(s, 1, 1)[i] = s[i]
  BY <1>1, FrontOf
<1>3. s[1] \in Nat
  BY <1>1, ElementOfSeq
<1> DEFINE t == <<s[1]>>
<1>4. t \in Seq(Nat) /\ Len(t) = 1 /\ t[1] = s[1]
  BY <1>3
<1> HIDE DEF t
<1>5. SubSeq(s, 1, 1) = t
  BY <1>2, <1>4, SeqEqual
<1> QED BY <1>2, <1>3, <1>5 DEF t

LEMMA LoginKeeps ==
  ASSUME IInv, Login
  PROVE  IInv'
<1>1. TypeOK /\ ClientInv /\ ToldAt
  BY DEF IInv
<1>2. at = "login" /\ need = 2
  BY <1>1 DEF Login, Reads, ClientInv
<1>3. /\ Len(cin) >= 2 /\ cin' = Drop(cin, 2) /\ UNCHANGED <<ToClient, told, dest>>
      /\ name' = SubSeq(cin, 1, 2 - 1) /\ need' = cin[2] /\ at' = "pass"
  BY <1>2 DEF Login, Reads, Consume, Need
<1>4. cin' \in Seq(Nat) /\ Len(cin) \in Nat /\ cin \in Seq(Nat)
  BY <1>1, <1>3, Took DEF TypeOK
<1>5. PICK pass \in Nat : LoginSent(2, pass)
  BY <1>1, <1>2 DEF ClientInv
<1>6. LoginSent(4, pass)'
  <2>1. 2 \in Nat /\ 4 \in Nat /\ 4 = 2 + 2 /\ 4 <= 5
    OBVIOUS
  <2> QED BY <1>1, <1>3, <1>5, <2>1, LoginTook
<1>7. cin[1] = Right /\ cin[2] = 1
  <2>1. 1 \in 1..Len(cin) /\ 2 \in 1..Len(cin) /\ 2 + 1 = 3 /\ 2 + 2 \in {1, 2, 4}
    BY <1>3, <1>4
  <2> QED BY <2>1, <1>5 DEF LoginSent
<1>8. name' = <<Right>> /\ name' \in Seq(Nat) /\ need' = 1
  <2>1. 2 - 1 = 1 /\ Len(cin) >= 1
    BY <1>3, <1>4
  <2>2. SubSeq(cin, 1, 1) = <<cin[1]>> /\ SubSeq(cin, 1, 1) \in Seq(Nat)
    BY <2>1, <1>4, FirstOf
  <2> QED BY <2>1, <2>2, <1>3, <1>7
<1>9. Len(name') <= UidMax + 1
  <2>1. Len(name') = 1
    BY <1>8
  <2> QED BY <2>1, Limits
<1>10. told' = <<"login">>
  BY <1>1, <1>2, <1>3 DEF ToldAt
<1>11. ClientInv' /\ ToldAt' /\ AuthRespected'
  BY <1>3, <1>6, <1>8, <1>10 DEF ClientInv, Reaching, UpPlaces, ToldAt, AuthRespected
<1>12. /\ at \in ClientPlaces /\ at' \in ClientPlaces \union {"connect", "gone"} /\ need' \in Nat
       /\ dest' \in {"none", "ip4", "ip6", "domain"}
  BY <1>1, <1>2, <1>3, <1>8 DEF ClientPlaces, TypeOK
<1> QED BY <1>3, <1>4, <1>8, <1>9, <1>11, <1>12, QuietHandshakeKeeps

LEMMA PasswordKeeps ==
  ASSUME IInv, Password
  PROVE  IInv'
<1>1. TypeOK /\ ClientInv /\ ToldAt
  BY DEF IInv
<1>2. at = "pass" /\ need = 1 /\ name = <<Right>> /\ told = <<"login">>
  BY <1>1 DEF Password, Reads, ClientInv, ToldAt
<1>3. /\ Len(cin) >= 1 /\ cin' = Drop(cin, 1) /\ UNCHANGED <<ToClient, need, name, dest>>
      /\ IF SubSeq(cin, 1, 1) = <<Right>>
         THEN told' = Append(told, "welcome") /\ at' = "request5"
         ELSE told' = Append(told, "unknown") /\ at' = "gone"
  BY <1>2 DEF Password, Reads, Consume, Need, Tell
<1>4. PICK pass \in Nat : LoginSent(4, pass)
  BY <1>1, <1>2 DEF ClientInv
<1>5. cin' \in Seq(Nat) /\ Nothing({"method", "status"})'
  <2>1. 5 - 4 = 1 /\ Rest(5 - 4, "status")
    BY <1>4 DEF LoginSent
  <2>2. Rest(1, "status")
    BY <2>1
  <2>3. cin' \in Seq(Nat) /\ \A s : "status" \in s => Nothing(s)'
    BY <1>1, <1>3, <2>2, TookAll
  <2> QED BY <2>3
<1>6. cin[1] = pass /\ SubSeq(cin, 1, 1) = <<cin[1]>>
  <2>1. cin \in Seq(Nat)
    BY <1>1 DEF TypeOK
  <2>2. 1 \in 1..Len(cin) /\ 4 + 1 = 5
    BY <2>1, <1>3
  <2> QED BY <2>1, <2>2, <1>3, <1>4, FirstOf DEF LoginSent
<1>7. at' = "request5" => proved'
  <2>1. <<pass>> = <<Right>> => pass = Right
    OBVIOUS
  <2>2. proved <=> pass = Right
    BY <1>4 DEF LoginSent
  <2>3. proved' = proved
    BY <1>3 DEF ToClient
  <2> QED BY <2>1, <2>2, <2>3, <1>3, <1>6
<1>8. \/ told' = <<"login", "welcome">> /\ at' = "request5" /\ told' = Append(told, "welcome")
      \/ told' = Append(told, "unknown") /\ at' = "gone"
  BY <1>2, <1>3
<1>9. ClientInv' /\ ToldAt' /\ AuthRespected'
  BY <1>5, <1>7, <1>8 DEF ClientInv, Reaching, UpPlaces, ToldAt, AuthRespected
<1>10. /\ at \in ClientPlaces /\ at' \in ClientPlaces \union {"connect", "gone"} /\ need' \in Nat
       /\ name' \in Seq(Nat) /\ Len(name') <= UidMax + 1 /\ dest' \in {"none", "ip4", "ip6", "domain"}
       /\ "welcome" \in Answers /\ "unknown" \in Answers /\ "welcome" \notin Final /\ "unknown" \notin Final
  BY <1>1, <1>2, <1>3 DEF ClientPlaces, TypeOK, Answers, Final
<1>11. CASE told' = Append(told, "welcome")
  BY <1>3, <1>5, <1>9, <1>10, <1>11, HandshakeKeeps
<1>12. CASE told' = Append(told, "unknown")
  BY <1>3, <1>5, <1>9, <1>10, <1>12, HandshakeKeeps
<1> QED BY <1>8, <1>11, <1>12

LEMMA ConnectCommand5Keeps ==
  ASSUME IInv, ConnectCommand5
  PROVE  IInv'
<1>1. TypeOK /\ ClientInv /\ ToldAt /\ AuthRespected
  BY DEF IInv
<1>2. /\ at = "request5" /\ Len(cin) >= 5 /\ cin' = Drop(cin, 5) /\ UNCHANGED <<ToClient, name>>
      /\ need' = cin[5]
      /\ IF cin[1] # 5 \/ cin[2] # 1
         THEN told' = Append(told, "refused") /\ at' = "gone" /\ UNCHANGED dest
         ELSE /\ UNCHANGED told
              /\ dest' = CASE cin[4] = 1 -> "ip4" [] cin[4] = 3 -> "domain" [] cin[4] = 4 -> "ip6"
                           [] OTHER -> "none"
              /\ at' = IF dest' = "none" THEN "port" ELSE dest'
  BY DEF ConnectCommand5, Reads, Consume, Need, Tell
<1>3. /\ cin' \in Seq(Nat) /\ Len(cin) \in Nat
      /\ \A m, r \in Nat : \A next : m = 5 + r /\ Rest(m, next) => Rest(r, next)'
  BY <1>1, <1>2, Took
<1>4. PICK atyp \in {1, 3, 4, 9} : /\ Rest(5 + Beyond(atyp) + 2, "data") /\ cin[4] = atyp
                                   /\ cin[5] = IF atyp = 3 THEN 2 ELSE 0
  <2>1. ~Nothing({"method", "status"}) /\ Len(cin) >= 4
    BY <1>2, <1>3, EmptyIs DEF Nothing
  <2> QED BY <2>1, <1>1, <1>2 DEF ClientInv
<1>5. Rest(Beyond(atyp) + 2, "data")'
  <2> DEFINE m == 5 + Beyond(atyp) + 2
             r == Beyond(atyp) + 2
  <2>1. m \in Nat /\ r \in Nat /\ m = 5 + r
    BY DEF Beyond
  <2>2. Rest(m, "data")
    BY <1>4
  <2> HIDE DEF m, r
  <2>3. Rest(r, "data")'
    BY <2>1, <2>2, <1>3
  <2> QED BY <2>3 DEF r
<1>6. /\ atyp = 1 => Rest(5, "data")'
      /\ atyp = 3 => Rest(4, "data")'
      /\ atyp = 4 => Rest(17, "data")'
      /\ atyp = 9 => Rest(2, "data")'
  <2>1. /\ atyp = 1 => Beyond(atyp) + 2 = 5
        /\ atyp = 3 => Beyond(atyp) + 2 = 4
        /\ atyp = 4 => Beyond(atyp) + 2 = 17
        /\ atyp = 9 => Beyond(atyp) + 2 = 2
    BY DEF Beyond
  <2> QED BY <2>1, <1>5
<1>7. \/ at' = "gone" /\ told' = Append(told, "refused") /\ dest' = dest
      \/ told' = told /\ \/ at' = "ip4" /\ dest' = "ip4" /\ Rest(5, "data")'
                         \/ at' = "domain" /\ dest' = "domain" /\ need' = 2 /\ Rest(4, "data")'
                         \/ at' = "ip6" /\ dest' = "ip6" /\ Rest(17, "data")'
                         \/ at' = "port" /\ dest' = "none" /\ Rest(2, "data")'
  BY <1>2, <1>4, <1>6
<1>8. ClientInv'
  BY <1>7 DEF ClientInv, Reaching, UpPlaces
<1>9. ToldAt'
  BY <1>1, <1>2, <1>7 DEF ToldAt
<1>10. AuthRespected'
  <2>1. CASE at' = "gone"
    BY <2>1 DEF AuthRespected, UpPlaces
  <2>2. CASE told' = told
    <3>1. proved \/ (anon /\ told # <<>> /\ told[1] = "anonymous")
      BY <1>1, <1>2 DEF AuthRespected
    <3>2. proved' = proved /\ anon' = anon
      BY <1>2 DEF ToClient, config
    <3> QED BY <2>2, <3>1, <3>2 DEF AuthRespected
  <2> QED BY <2>1, <2>2, <1>7
<1>11. need' \in Nat
  <2>1. cin \in Seq(Nat) /\ 5 \in 1..Len(cin)
    BY <1>1, <1>2, <1>3 DEF TypeOK
  <2> QED BY <2>1, <1>2, ElementOfSeq
<1>12. /\ at \in ClientPlaces /\ at' \in ClientPlaces \union {"connect", "gone"}
       /\ name' \in Seq(Nat) /\ Len(name') <= UidMax + 1 /\ dest' \in {"none", "ip4", "ip6", "domain"}
       /\ "refused" \in Answers
  BY <1>1, <1>2, <1>7 DEF ClientPlaces, TypeOK, Answers
<1>13. CASE at' = "gone" /\ told' = Append(told, "refused")
  BY <1>2, <1>3, <1>8, <1>9, <1>10, <1>11, <1>12, <1>13, HandshakeKeeps
<1>14. CASE told' = told
  BY <1>2, <1>3, <1>8, <1>9, <1>10, <1>11, <1>12, <1>14, QuietHandshakeKeeps
<1> QED BY <1>7, <1>13, <1>14

LEMMA AddressKeeps ==
  ASSUME IInv, Address \/ Port
  PROVE  IInv'
<1>1. TypeOK /\ ClientInv /\ ToldAt /\ AuthRespected
  BY DEF IInv
<1>2. /\ at \in {"ip4", "ip6", "domain", "port"} /\ Len(cin) >= Need /\ cin' = Drop(cin, Need)
      /\ UNCHANGED <<ToClient, told, need, name, dest>>
      /\ at' = IF at = "port" THEN "connect" ELSE "port"
  BY DEF Address, Port, Reads, Consume
<1>3. /\ Need \in Nat
      /\ Rest(Need + (IF at = "port" THEN 0 ELSE 2), "data")
  <2>1. CASE at = "ip4"
    <3>1. Need = 3 /\ Rest(5, "data")
      BY <2>1, <1>1 DEF Need, ClientInv
    <3>2. Need + 2 = 5
      BY <3>1
    <3> QED BY <3>1, <3>2, <2>1
  <2>2. CASE at = "ip6"
    <3>1. Need = 15 /\ Rest(17, "data")
      BY <2>2, <1>1 DEF Need, ClientInv
    <3>2. Need + 2 = 17
      BY <3>1
    <3> QED BY <3>1, <3>2, <2>2
  <2>3. CASE at = "domain"
    <3>1. Need = 2 /\ Rest(4, "data")
      BY <2>3, <1>1 DEF Need, ClientInv
    <3>2. Need + 2 = 4
      BY <3>1
    <3> QED BY <3>1, <3>2, <2>3
  <2>4. CASE at = "port"
    <3>1. Need = 2 /\ Rest(2, "data")
      BY <2>4, <1>1 DEF Need, ClientInv
    <3>2. Need + 0 = 2
      BY <3>1
    <3> QED BY <3>1, <3>2, <2>4
  <2> QED BY <2>1, <2>2, <2>3, <2>4, <1>2
<1>4. PICK n \in Nat, r \in Nat : n = Need /\ r = IF at = "port" THEN 0 ELSE 2
  BY <1>3
<1>5. Len(cin) >= n /\ cin' = Drop(cin, n) /\ UNCHANGED ToClient /\ Rest(n + r, "data")
  BY <1>2, <1>3, <1>4
<1>6. cin' \in Seq(Nat) /\ Rest(r, "data")'
  <2>1. /\ cin' \in Seq(Nat)
        /\ \A m, k \in Nat : \A next : m = n + k /\ Rest(m, next) => Rest(k, next)'
    BY <1>1, <1>5, Took
  <2> QED BY <2>1, <1>5
<1>7. \/ at = "port" /\ at' = "connect" /\ Rest(0, "data")'
      \/ at # "port" /\ at' = "port" /\ Rest(2, "data")'
  BY <1>2, <1>4, <1>6
<1>8. ClientInv'
  BY <1>7 DEF ClientInv, Reaching, UpPlaces
<1>9. ToldAt'
  BY <1>1, <1>2, <1>7 DEF ToldAt
<1>10. AuthRespected'
  <2>1. proved \/ (anon /\ told # <<>> /\ told[1] = "anonymous")
    BY <1>1, <1>2 DEF AuthRespected
  <2>2. proved' = proved /\ anon' = anon /\ told' = told
    BY <1>2 DEF ToClient, config
  <2> QED BY <2>1, <2>2 DEF AuthRespected
<1>11. /\ at \in ClientPlaces /\ at' \in ClientPlaces \union {"connect", "gone"} /\ need' \in Nat
       /\ name' \in Seq(Nat) /\ Len(name') <= UidMax + 1 /\ dest' \in {"none", "ip4", "ip6", "domain"}
  BY <1>1, <1>2, <1>7 DEF ClientPlaces, TypeOK
<1> QED BY <1>2, <1>6, <1>8, <1>9, <1>10, <1>11, QuietHandshakeKeeps

LEMMA ClientCutKeeps ==
  ASSUME IInv, ClientCut
  PROVE  IInv'
<1>1. TypeOK
  BY DEF IInv
<1>2. /\ at \in ClientPlaces /\ at' = "gone" /\ UNCHANGED <<config, client, conn, upstream, worker>>
      /\ told' = told \/ told' = Append(told, "refused")
  BY DEF ClientCut, Tell
<1>3. UNCHANGED ToClient /\ UNCHANGED <<cin, need, name, dest>>
  BY <1>2 DEF ToClient, client, worker
<1>4. ClientInv' /\ ToldAt' /\ AuthRespected'
  BY <1>2 DEF ClientInv, Reaching, UpPlaces, ToldAt, AuthRespected
<1>5. /\ cin' \in Seq(Nat) /\ at' \in ClientPlaces \union {"connect", "gone"} /\ need' \in Nat
      /\ name' \in Seq(Nat) /\ Len(name') <= UidMax + 1 /\ dest' \in {"none", "ip4", "ip6", "domain"}
      /\ "refused" \in Answers
  BY <1>1, <1>2, <1>3 DEF TypeOK, Answers
<1> QED BY <1>2, <1>3, <1>4, <1>5, HandshakeKeeps

LEMMA HandshakeHolds ==
  ASSUME IInv, Handshake
  PROVE  IInv'
BY VersionKeeps, ConnectCommand4Keeps, UserIdKeeps, NumAuthKeeps, MethodsKeeps, AuthHeaderKeeps, LoginKeeps,
   PasswordKeeps, ConnectCommand5Keeps, AddressKeeps, ClientCutKeeps DEF Handshake

-----------------------------------------------------------------------------
(* The way out, step by step.                                              *)

\* The hops that have answered when a hop is reached, and when it is passed.
LEMMA BeforeIs ==
  ASSUME TypeOK
  PROVE  /\ Len(chain) \in Nat /\ Before(1) = {} /\ Before(Len(chain) + 1) = Answering
         /\ \A h \in 1..Len(chain) : /\ chain[h] = "ss" => Before(h + 1) = Before(h)
                                     /\ chain[h] # "ss" => /\ Before(h + 1) = Before(h) \union {h}
                                                           /\ h \in Answering /\ Before(h) # Answering
<1>1. Len(chain) \in Nat
  BY Limits DEF TypeOK
<1>2. Before(1) = {} /\ Before(Len(chain) + 1) = Answering
  BY <1>1 DEF Before, Answering
<1>3. ASSUME NEW h \in 1..Len(chain), chain[h] = "ss"
      PROVE  Before(h + 1) = Before(h)
  <2>1. ASSUME NEW i \in Answering PROVE i < h + 1 <=> i < h
    <3>1. i \in 1..Len(chain) /\ i # h
      BY <1>3 DEF Answering
    <3> QED BY <3>1, <1>1, <1>3
  <2> QED BY <2>1 DEF Before
<1>4. ASSUME NEW h \in 1..Len(chain), chain[h] # "ss"
      PROVE  /\ Before(h + 1) = Before(h) \union {h}
             /\ h \in Answering /\ Before(h) # Answering
  <2>1. h \in Answering /\ h \notin Before(h)
    BY <1>1, <1>4 DEF Answering, Before
  <2>2. ASSUME NEW i \in Answering PROVE i < h + 1 <=> (i < h \/ i = h)
    <3>1. i \in 1..Len(chain)
      BY DEF Answering
    <3> QED BY <3>1, <1>1, <1>4
  <2>3. Before(h + 1) = Before(h) \union {h}
    BY <2>1, <2>2 DEF Before
  <2> QED BY <2>1, <2>3
<1> QED BY <1>1, <1>2, <1>3, <1>4

\* What a recv of n bytes leaves.
LEMMA UpTook ==
  ASSUME TypeOK, NEW n \in Nat, Len(uin) >= n, uin' = Drop(uin, n), UNCHANGED <<ufin, udata>>
  PROVE  /\ uin' \in Seq(Nat) /\ Len(uin) \in Nat /\ Len(uin') = Len(uin) - n
         /\ \A i \in 1..Len(uin) - n : uin'[i] = uin[n + i]
         /\ \A m, r \in Nat : m = n + r /\ UpRest(m) => UpRest(r)'
<1>1. uin \in Seq(Nat) /\ udata \in Nat
  BY Limits DEF TypeOK
<1>2. n \in 0..Len(uin) /\ Len(uin) \in Nat
  BY <1>1
<1>3. /\ uin' \in Seq(Nat) /\ Len(uin') = Len(uin) - n
      /\ \A i \in 1..Len(uin) - n : uin'[i] = uin[n + i]
  BY <1>1, <1>2, DropIs
<1>4. ASSUME NEW m \in Nat, NEW r \in Nat, m = n + r, UpRest(m)
      PROVE  UpRest(r)'
  <2>1. n <= m /\ m - n = r
    BY <1>4
  <2>2. UpRest(m - n)'
    BY <1>1, <1>4, <2>1, UpConsumed
  <2> QED BY <2>1, <2>2
<1> QED BY <1>2, <1>3, <1>4

\* A step after which the worker goes on.
LEMMA QuietChainKeeps ==
  ASSUME IInv, at \in Reaching \ {"bridged"}, at' \in (Reaching \ {"bridged"}) \union {"spin"},
         UNCHANGED <<config, client, told, ufin, granted, odd, udata, name, dest, released>>,
         conn' \in {"none", "proxy", "target"}, uin' \in Seq(Nat),
         asked' \in {"none", "part", "connect4", "greet", "login", "connect5"},
         need' \in Nat, hop' \in 0..Len(chain), pkt' \in Nat \X Nat, UpInv'
  PROVE  IInv'
<1>1. TypeOK
  BY DEF IInv
<1>2. ufin' \in BOOLEAN /\ udata' \in 0..MaxData /\ granted' \subseteq Answering /\ odd' \in BOOLEAN
  BY <1>1 DEF TypeOK
<1>3. GrantUsed'
  BY DEF GrantUsed, Reaching, UpPlaces
<1>4. UNCHANGED <<config, client, name, dest>> /\ UNCHANGED <<told, released>>
  OBVIOUS
<1> QED BY <1>2, <1>3, <1>4, ChainKeeps

\* A step after which the client has been refused.
LEMMA RefusedKeeps ==
  ASSUME IInv, at \in Reaching \ {"bridged"}, Refuse,
         UNCHANGED <<config, client, conn, ufin, granted, odd, udata, asked, name, dest, hop>>,
         uin' \in Seq(Nat), need' \in Nat, pkt' \in Nat \X Nat,
         asked = "none" \/ ufin, conn # "target" \/ granted # Answering \/ ufin \/ odd
  PROVE  IInv'
<1>1. TypeOK /\ UpInv
  BY DEF IInv
<1>2. told' = Append(told, "refused") /\ released' = TRUE /\ at' = "gone"
  BY DEF Refuse, Tell
<1>3. /\ conn' \in {"none", "proxy", "target"} /\ ufin' \in BOOLEAN /\ udata' \in 0..MaxData
      /\ asked' \in {"none", "part", "connect4", "greet", "login", "connect5"}
      /\ granted' \subseteq Answering /\ odd' \in BOOLEAN /\ hop' \in 0..Len(chain)
  BY <1>1 DEF TypeOK
<1>4. GrantUsed'
  <2>1. chain' = chain
    BY DEF config
  <2>2. Answering' = Answering
    BY <2>1 DEF Answering
  <2> QED BY <2>2 DEF GrantUsed
<1>5. UpInv'
  <2>1. (udata > 0 => conn = "target")'
    BY <1>1 DEF UpInv
  <2> QED BY <1>2, <2>1 DEF UpInv, ClientPlaces, UpPlaces
<1>6. UNCHANGED <<config, client, name, dest>>
  OBVIOUS
<1> QED BY <1>2, <1>3, <1>4, <1>5, <1>6, ChainKeeps

\* A step after which a hop is through.
LEMMA ThroughKeeps ==
  ASSUME IInv, at \in UpPlaces, Yes, NextHop, UpRest(0)', uin' \in Seq(Nat), pkt' \in Nat \X Nat,
         UNCHANGED <<config, client, told, ufin, granted, odd, udata, conn, name, dest, asked, released>>,
         need' \in Nat
  PROVE  IInv'
<1>1. TypeOK /\ UpInv
  BY DEF IInv
<1>2. hop \in 1..Len(chain) /\ Len(chain) \in Nat /\ Before(Len(chain) + 1) = Answering
  BY <1>1, BeforeIs DEF UpInv
<1>3. asked = "none" /\ granted = Before(hop + 1) /\ conn = IF hop = Len(chain) THEN "target" ELSE "proxy"
  BY DEF Yes
<1>4. chain' = chain /\ (\A h : Before(h)' = Before(h)) /\ Answering' = Answering
  BY DEF config, Before, Answering
<1>5. udata \in Nat /\ (udata > 0 => conn = "target")
  BY <1>1, Limits DEF TypeOK, UpInv
<1>6. CASE hop < Len(chain)
  <2>1. at' = "prepare" /\ hop' = hop + 1 /\ hop' \in 1..Len(chain)
    BY <1>2, <1>6 DEF NextHop
  <2>2. conn = "proxy" /\ udata = 0
    BY <1>2, <1>3, <1>5, <1>6
  <2>3. uin' = <<>>
    <3>1. Len(uin') = 0
      BY <2>2 DEF UpRest
    <3> QED BY <3>1, EmptyIs
  <2>4. granted' = Before(hop)'
    <3>1. granted' = {i \in Answering : i < hop + 1}
      BY <1>3 DEF Before
    <3> QED BY <3>1, <1>4, <2>1 DEF Before
  <2>5. Pending("none")'
    BY <2>2, <2>3, <2>4, <1>3 DEF Pending
  <2>6. UpInv'
    BY <2>1, <2>2, <2>5, <1>4 DEF UpInv, ClientPlaces, UpPlaces
  <2>7. /\ at \in Reaching \ {"bridged"} /\ at' \in (Reaching \ {"bridged"}) \union {"spin"}
        /\ conn' \in {"none", "proxy", "target"} /\ hop' \in 0..Len(chain)
        /\ asked' \in {"none", "part", "connect4", "greet", "login", "connect5"}
    BY <2>1, <2>2, <1>2, <1>3 DEF Reaching, UpPlaces
  <2> QED BY <2>6, <2>7, QuietChainKeeps
<1>7. CASE ~(hop < Len(chain))
  <2>1. at' = "grant" /\ hop' = hop /\ hop = Len(chain)
    BY <1>2, <1>7 DEF NextHop
  <2>2. granted' = Answering' /\ asked' = "none"
    BY <1>2, <1>3, <1>4, <2>1
  <2>3. (udata > 0 => conn = "target")'
    BY <1>5
  <2>4. UpInv'
    BY <2>1, <2>2, <2>3 DEF UpInv, ClientPlaces, UpPlaces
  <2>5. /\ at \in Reaching \ {"bridged"} /\ at' \in (Reaching \ {"bridged"}) \union {"spin"}
        /\ conn' \in {"none", "proxy", "target"} /\ hop' \in 0..Len(chain)
        /\ asked' \in {"none", "part", "connect4", "greet", "login", "connect5"}
    BY <2>1, <2>2, <1>1, <1>2 DEF Reaching, UpPlaces, TypeOK
  <2> QED BY <2>4, <2>5, QuietChainKeeps
<1> QED BY <1>6, <1>7

LEMMA ConnectKeeps ==
  ASSUME IInv, Connect
  PROVE  IInv'
<1>1. TypeOK /\ UpInv
  BY DEF IInv
<1>2. /\ at = "connect"
      /\ IF chain = <<>> THEN conn' = "target" /\ at' = "grant" /\ UNCHANGED hop
                         ELSE conn' = "proxy" /\ at' = "prepare" /\ hop' = 1
      /\ UNCHANGED <<config, client, told, ufin, granted, odd, udata, need, name, dest, released, uin, asked, pkt>>
  BY DEF Connect, ToUpstream
<1>3. conn = "none" /\ uin = <<>> /\ udata = 0 /\ granted = {} /\ asked = "none" /\ hop = 0
  BY <1>1, <1>2 DEF UpInv
<1>4. chain' = chain /\ Answering' = Answering
  BY <1>2 DEF config, Answering
<1>5. Len(chain) \in Nat /\ Before(1) = {} /\ (chain = <<>> => Len(chain) = 0) /\ (Len(chain) = 0 => chain = <<>>)
  <2>1. chain \in Seq(Hops)
    BY <1>1, Limits DEF TypeOK
  <2> QED BY <2>1, <1>1, BeforeIs, EmptySeq
<1>6. UpInv' /\ hop' \in 0..Len(chain) /\ at' \in {"prepare", "grant"} /\ conn' \in {"none", "proxy", "target"}
  <2>1. CASE chain = <<>>
    <3>1. conn' = "target" /\ at' = "grant" /\ hop' = 0
      BY <2>1, <1>2, <1>3
    <3>2. Answering = {}
      BY <2>1, <1>5 DEF Answering
    <3>3. UpRest(0)'
      <4>1. Len(uin') = 0 + udata' /\ \A k \in 1..udata' : uin'[0 + k] = DataByte(k)
        BY <1>2, <1>3, EmptyIs
      <4> QED BY <4>1 DEF UpRest
    <3>4. granted' = Answering' /\ asked' = "none"
      BY <3>2, <1>2, <1>3, <1>4
    <3>5. UpInv'
      BY <3>1, <3>3, <3>4 DEF UpInv, ClientPlaces, UpPlaces
    <3> QED BY <3>1, <3>5, <1>5
  <2>2. CASE chain # <<>>
    <3>1. conn' = "proxy" /\ at' = "prepare" /\ hop' = 1
      BY <2>2, <1>2
    <3>2. hop' \in 1..Len(chain) /\ hop' \in 0..Len(chain)
      BY <3>1, <2>2, <1>5
    <3>3. granted' = Before(hop)'
      BY <3>1, <1>2, <1>3, <1>4, <1>5 DEF Before
    <3>4. Pending("none")'
      BY <3>1, <3>3, <1>2, <1>3 DEF Pending
    <3>5. (udata > 0 => conn = "target")'
      BY <1>2, <1>3
    <3>6. UpInv'
      BY <3>1, <3>2, <3>4, <3>5, <1>4 DEF UpInv, ClientPlaces, UpPlaces
    <3> QED BY <3>1, <3>2, <3>6
  <2> QED BY <2>1, <2>2
<1>7. /\ at \in Reaching \ {"bridged"} /\ at' \in (Reaching \ {"bridged"}) \union {"spin"}
      /\ UNCHANGED <<config, client, told, ufin, granted, odd, udata, name, dest, released>>
      /\ uin' \in Seq(Nat) /\ asked' \in {"none", "part", "connect4", "greet", "login", "connect5"}
      /\ need' \in Nat /\ pkt' \in Nat \X Nat
  BY <1>1, <1>2, <1>6 DEF Reaching, UpPlaces, TypeOK
<1> QED BY <1>6, <1>7, QuietChainKeeps

LEMMA FailsKeeps ==
  ASSUME IInv, ConnectFails \/ PrepareFails
  PROVE  IInv'
<1>1. TypeOK /\ UpInv
  BY DEF IInv
<1>2. at \in {"connect", "prepare"} /\ Refuse /\ UNCHANGED <<config, client, conn, upstream, need, name, dest, hop, pkt>>
  BY DEF ConnectFails, PrepareFails, Refused
<1>3. asked = "none" /\ conn # "target"
  BY <1>1, <1>2 DEF UpInv, Pending
<1>4. /\ UNCHANGED <<config, client, conn, ufin, granted, odd, udata, asked, name, dest, hop>>
      /\ uin' \in Seq(Nat) /\ need' \in Nat /\ pkt' \in Nat \X Nat /\ at \in Reaching \ {"bridged"}
  BY <1>1, <1>2 DEF upstream, TypeOK, Reaching
<1> QED BY <1>2, <1>3, <1>4, RefusedKeeps

LEMMA PrepareKeeps ==
  ASSUME IInv, Prepare4 \/ Prepare5
  PROVE  IInv'
<1>1. TypeOK /\ UpInv
  BY DEF IInv
<1>2. /\ at = "prepare" /\ UNCHANGED <<config, client, told, ufin, granted, odd, udata, need, name, dest, released>>
      /\ UNCHANGED <<conn, uin, hop>>
      /\ \/ chain[hop] = "socks4" /\ asked' = "connect4" /\ at' = "answer4" /\ pkt' = pkt
         \/ chain[hop] \in {"socks5", "socks5auth"} /\ asked' = "greet" /\ pkt' = <<5, 1>> /\ at' = "method"
  BY DEF Prepare4, Prepare5, ToUpstream
<1>3. Pending("none") /\ hop \in 1..Len(chain) /\ (udata > 0 => conn = "target")
  BY <1>1, <1>2 DEF UpInv
<1>4. chain' = chain /\ (\A h : Before(h)' = Before(h))
  BY <1>2 DEF config, Before, Answering
<1>5. granted' = Before(hop)'
  BY <1>2, <1>3, <1>4 DEF Pending, Before
<1>6. uin' = <<>> /\ udata' = 0 /\ conn' = "proxy"
  BY <1>2, <1>3 DEF Pending
<1>7. UpInv'
  <2>1. CASE chain[hop] = "socks4" /\ asked' = "connect4" /\ at' = "answer4"
    <3>1. Pending("connect4")'
      BY <2>1, <1>5, <1>6 DEF Pending
    <3> QED BY <2>1, <3>1, <1>2, <1>3, <1>4, <1>6 DEF UpInv, ClientPlaces, UpPlaces
  <2>2. CASE chain[hop] \in {"socks5", "socks5auth"} /\ asked' = "greet" /\ at' = "method"
    <3>1. Pending("greet")'
      BY <2>2, <1>5, <1>6 DEF Pending
    <3>2. chain'[hop'] \in {"socks5", "socks5auth"} /\ chain'[hop'] # "ss"
      BY <2>2, <1>2, <1>4
    <3> QED BY <2>2, <3>1, <3>2, <1>2, <1>3, <1>4, <1>6 DEF UpInv, ClientPlaces, UpPlaces
  <2> QED BY <1>2, <2>1, <2>2
<1>8. /\ at \in Reaching \ {"bridged"} /\ at' \in (Reaching \ {"bridged"}) \union {"spin"}
      /\ conn' \in {"none", "proxy", "target"} /\ hop' \in 0..Len(chain) /\ uin' \in Seq(Nat)
      /\ asked' \in {"none", "part", "connect4", "greet", "login", "connect5"}
      /\ need' \in Nat /\ pkt' \in Nat \X Nat
  BY <1>1, <1>2 DEF Reaching, UpPlaces, TypeOK
<1> QED BY <1>2, <1>7, <1>8, QuietChainKeeps

LEMMA PrepareSsKeeps ==
  ASSUME IInv, PrepareSs
  PROVE  IInv'
<1>1. TypeOK /\ UpInv
  BY DEF IInv
<1>2. /\ at = "prepare" /\ UNCHANGED <<config, client, told, ufin, granted, odd, udata, need, name, dest, released>>
      /\ UNCHANGED <<uin, pkt>> /\ chain[hop] = "ss" /\ asked' = Whole("none") /\ conn' = Reached /\ NextHop
  BY DEF PrepareSs, ToUpstream
<1>3. /\ asked = "none" /\ uin = <<>> /\ udata = 0 /\ granted = Before(hop) /\ conn = "proxy"
      /\ hop \in 1..Len(chain) /\ Len(chain) \in Nat
  BY <1>1, <1>2, BeforeIs DEF UpInv, Pending
<1>4. chain' = chain /\ Answering' = Answering
  BY <1>2 DEF config, Answering
<1>5. granted = Before(hop + 1) /\ Before(Len(chain) + 1) = Answering
  BY <1>1, <1>2, <1>3, BeforeIs
<1>6. asked' \in {"none", "part"} /\ conn' \in {"proxy", "target"}
  BY <1>2, <1>3 DEF Whole, Reached
<1>7. UpInv' /\ at' \in {"prepare", "grant"} /\ hop' \in 1..Len(chain)
  <2>1. CASE hop < Len(chain)
    <3>1. at' = "prepare" /\ hop' = hop + 1 /\ hop' \in 1..Len(chain)
      BY <2>1, <1>2, <1>3 DEF NextHop
    <3>2. Aim = "ip4"
      BY <2>1, <1>3 DEF Aim
    <3>3. asked' = "none" /\ conn' = "proxy"
      BY <2>1, <3>2, <1>2, <1>3 DEF Whole, Reached
    <3>4. granted' = Before(hop)'
      BY <3>1, <1>2, <1>4, <1>5 DEF Before
    <3>5. Pending("none")'
      BY <3>3, <3>4, <1>2, <1>3 DEF Pending
    <3>6. (udata > 0 => conn = "target")'
      BY <1>2, <1>3
    <3> QED BY <3>1, <3>5, <3>6, <1>4 DEF UpInv, ClientPlaces, UpPlaces
  <2>2. CASE ~(hop < Len(chain))
    <3>1. at' = "grant" /\ hop' = hop /\ hop = Len(chain)
      BY <2>2, <1>2, <1>3 DEF NextHop
    <3>2. UpRest(0)'
      <4>1. Len(uin') = 0 + udata' /\ \A k \in 1..udata' : uin'[0 + k] = DataByte(k)
        BY <1>2, <1>3, EmptyIs
      <4> QED BY <4>1 DEF UpRest
    <3>3. granted' = Answering'
      BY <3>1, <1>2, <1>4, <1>5
    <3>4. (udata > 0 => conn = "target")'
      BY <1>2, <1>3
    <3> QED BY <3>1, <3>2, <3>3, <3>4, <1>3, <1>6 DEF UpInv, ClientPlaces, UpPlaces
  <2> QED BY <2>1, <2>2
<1>8. /\ at \in Reaching \ {"bridged"} /\ at' \in (Reaching \ {"bridged"}) \union {"spin"}
      /\ conn' \in {"none", "proxy", "target"} /\ hop' \in 0..Len(chain) /\ uin' \in Seq(Nat)
      /\ asked' \in {"none", "part", "connect4", "greet", "login", "connect5"}
      /\ need' \in Nat /\ pkt' \in Nat \X Nat
  BY <1>1, <1>2, <1>3, <1>6, <1>7 DEF Reaching, UpPlaces, TypeOK
<1> QED BY <1>2, <1>7, <1>8, QuietChainKeeps

LEMMA Answer4Keeps ==
  ASSUME IInv, Answer4
  PROVE  IInv'
<1>1. TypeOK /\ UpInv
  BY DEF IInv
<1> DEFINE good == uin[1] = 0 /\ uin[2] = 90
<1>2. /\ at = "answer4" /\ Len(uin) >= 8 /\ uin' = Drop(uin, 8)
      /\ \/ good /\ NextHop /\ UNCHANGED asked /\ UNCHANGED <<told, released>>
         \/ ~good /\ Refuse /\ UNCHANGED <<asked, hop>>
      /\ UNCHANGED <<config, client, ufin, granted, odd, udata, conn, name, dest, need, pkt>>
  BY DEF Answer4, UpReads, UpConsume, UpNeed, Judge, FromUpstream
<1>3. /\ uin' \in Seq(Nat) /\ \A m, r \in Nat : m = 8 + r /\ UpRest(m) => UpRest(r)'
  BY <1>1, <1>2, UpTook
<1>4. uin # <<>> /\ Len(uin) >= 2
  BY <1>1, <1>2, EmptyIs DEF TypeOK
<1>5. \/ UpRest(8) /\ Yes /\ good
      \/ UpRest(8) /\ No /\ ~good
  BY <1>1, <1>2, <1>4 DEF UpInv, Pending
<1>6. at \in UpPlaces /\ at \in Reaching \ {"bridged"} /\ need' \in Nat /\ pkt' \in Nat \X Nat
  BY <1>1, <1>2 DEF TypeOK, UpPlaces, Reaching
<1>7. CASE good
  <2>1. Yes /\ UpRest(0)' /\ NextHop
    BY <1>2, <1>3, <1>5, <1>7
  <2> QED BY <2>1, <1>2, <1>3, <1>6, <1>7, ThroughKeeps
<1>8. CASE ~good
  <2>1. asked = "none" /\ conn # "target" /\ Refuse
    BY <1>2, <1>5, <1>8 DEF No
  <2> QED BY <2>1, <1>2, <1>3, <1>6, <1>8, RefusedKeeps
<1> QED BY <1>7, <1>8

\* A step to the next request to the same proxy.
LEMMA AsksKeeps ==
  ASSUME IInv, at \in {"method", "status"}, No, uin' = <<>>, pkt' = <<5, 1>>, UNCHANGED hop,
         UNCHANGED <<config, client, told, ufin, granted, odd, udata, conn, name, dest, released, need>>,
         \/ Connect5
         \/ asked' = "login" /\ at' = "status"
  PROVE  IInv'
<1>1. TypeOK /\ UpInv
  BY DEF IInv
<1>2. hop \in 1..Len(chain) /\ chain[hop] \in {"socks5", "socks5auth"} /\ chain' = chain
  BY <1>1 DEF UpInv, config, UpPlaces
<1>3. granted' = Before(hop)' /\ udata' = 0 /\ conn' = "proxy"
  BY <1>2 DEF No, Before, Answering
<1>4. \/ at' = "reply" /\ asked' \in {"connect5", "part"}
      \/ at' = "status" /\ asked' = "login"
  BY DEF Connect5, Whole
<1>5. Pending(asked)'
  BY <1>3 DEF Pending
<1>6. UpInv'
  <2>1. CASE at' = "reply" /\ asked' \in {"connect5", "part"}
    <3>1. Pending("connect5")' \/ Pending("part")'
      BY <2>1, <1>3 DEF Pending
    <3> QED BY <2>1, <3>1, <1>2, <1>3 DEF UpInv, ClientPlaces, UpPlaces
  <2>2. CASE at' = "status" /\ asked' = "login"
    <3>1. Pending("login")'
      BY <2>2, <1>3 DEF Pending
    <3> QED BY <2>2, <3>1, <1>2, <1>3 DEF UpInv, ClientPlaces, UpPlaces
  <2> QED BY <1>4, <2>1, <2>2
<1>7. /\ at \in Reaching \ {"bridged"} /\ at' \in (Reaching \ {"bridged"}) \union {"spin"}
      /\ conn' \in {"none", "proxy", "target"} /\ hop' \in 0..Len(chain) /\ uin' \in Seq(Nat)
      /\ asked' \in {"none", "part", "connect4", "greet", "login", "connect5"}
      /\ need' \in Nat /\ pkt' \in Nat \X Nat
  BY <1>1, <1>3, <1>4, EmptyIs DEF Reaching, UpPlaces, TypeOK
<1> QED BY <1>6, <1>7, QuietChainKeeps

LEMMA MethodAnswerKeeps ==
  ASSUME IInv, MethodAnswer \/ LoginAnswer
  PROVE  IInv'
<1>1. TypeOK /\ UpInv
  BY DEF IInv
<1>2. /\ at \in {"method", "status"} /\ Len(uin) >= 2 /\ uin' = Drop(uin, 2) /\ pkt' = <<5, 1>>
      /\ UNCHANGED <<config, client, ufin, granted, odd, udata, conn, name, dest, need>>
      /\ \/ /\ UNCHANGED <<told, released, hop>>
            /\ Connect5 \/ (asked' = "login" /\ at' = "status")
         \/ Refuse /\ UNCHANGED <<asked, hop>>
  BY DEF MethodAnswer, LoginAnswer, UpReads, UpConsume, UpNeed, Judge, FromUpstream, Connect5
<1>3. /\ uin' \in Seq(Nat) /\ \A m, r \in Nat : m = 2 + r /\ UpRest(m) => UpRest(r)'
  BY <1>1, <1>2, UpTook
<1>4. uin # <<>>
  BY <1>1, <1>2, EmptyIs DEF TypeOK
<1>5. No /\ UpRest(2)
  BY <1>1, <1>2, <1>4 DEF UpInv, Pending
<1>6. uin' = <<>>
  <2>1. UpRest(0)' /\ udata' = 0
    BY <1>2, <1>3, <1>5 DEF No
  <2>2. Len(uin') = 0
    BY <2>1, <1>3 DEF UpRest
  <2> QED BY <2>2, <1>3, EmptyIs
<1>7. CASE Refuse
  <2>1. asked = "none" /\ conn # "target" /\ at \in Reaching \ {"bridged"}
    BY <1>2, <1>5 DEF No, Reaching, UpPlaces
  <2>2. need' \in Nat /\ pkt' \in Nat \X Nat
    BY <1>1, <1>2 DEF TypeOK
  <2>3. UNCHANGED <<asked, hop>>
    BY <1>2, <1>7 DEF Refuse, Connect5
  <2> QED BY <2>1, <2>2, <2>3, <1>2, <1>3, <1>7, RefusedKeeps
<1>8. CASE /\ UNCHANGED <<told, released, hop>>
           /\ Connect5 \/ (asked' = "login" /\ at' = "status")
  BY <1>2, <1>5, <1>6, <1>8, AsksKeeps
<1> QED BY <1>2, <1>7, <1>8

\* The first two bytes of what is there.
LEMMA PairIs ==
  ASSUME NEW s \in Seq(Nat), Len(s) >= 2
  PROVE  SubSeq(s, 1, 2) = <<s[1], s[2]>> /\ s[1] \in Nat /\ s[2] \in Nat
<1>1. Len(s) \in Nat /\ 1 \in 1..Len(s) /\ 2 \in 1..Len(s)
  OBVIOUS
<1>2. /\ SubSeq(s, 1, 2) \in Seq(Nat) /\ Len(SubSeq(s, 1, 2)) = 2
      /\ \A i \in 1..2 : SubSeq(s, 1, 2)[i] = s[i]
  BY <1>1, FrontOf
<1>3. s[1] \in Nat /\ s[2] \in Nat
  BY <1>1
<1> DEFINE a == SubSeq(s, 1, 2)
           b == <<s[1], s[2]>>
<1>4. b \in Seq(Nat) /\ Len(b) = 2 /\ b[1] = s[1] /\ b[2] = s[2]
  BY <1>3
<1>5. a \in Seq(Nat) /\ Len(a) = 2 /\ a[1] = s[1] /\ a[2] = s[2]
  BY <1>2
<1> HIDE DEF a, b
<1>6. \A i \in 1..Len(a) : a[i] = b[i]
  BY <1>4, <1>5
<1>7. a = b
  BY <1>4, <1>5, <1>6, SeqEqual
<1> QED BY <1>3, <1>7 DEF a, b

\* A recv of a part of the answer, from which m bytes are still to come.
LEMMA PartTook ==
  ASSUME TypeOK, UpNeed = 2, Part, UNCHANGED <<ufin, udata>>
  PROVE  /\ uin' \in Seq(Nat) /\ pkt' \in Nat \X Nat
         /\ \/ /\ pkt' = <<uin[1], uin[2]>> /\ Len(uin) >= 2 /\ Len(uin') = Len(uin) - 2
               /\ \A i \in 1..Len(uin) - 2 : uin'[i] = uin[2 + i]
               /\ \A m, r \in Nat : m = 2 + r /\ UpRest(m) => UpRest(r)'
            \/ ufin /\ pkt' = pkt
<1>1. uin \in Seq(Nat) /\ pkt \in Nat \X Nat
  BY DEF TypeOK
<1>2. CASE Len(uin) >= 2 /\ uin' = Drop(uin, 2) /\ pkt' = SubSeq(uin, 1, 2)
  BY <1>1, <1>2, PairIs, UpTook
<1>3. CASE ufin /\ UNCHANGED <<uin, pkt>>
  BY <1>1, <1>3
<1> QED BY <1>2, <1>3 DEF Part, UpConsume

LEMMA ReplyKeeps ==
  ASSUME IInv, Reply
  PROVE  IInv'
<1>1. TypeOK /\ UpInv
  BY DEF IInv
<1>2. /\ at = "reply" /\ Part
      /\ \/ pkt' = <<5, 0>> /\ at' = "bound" /\ UNCHANGED <<asked, hop>> /\ UNCHANGED <<told, released>>
         \/ pkt' # <<5, 0>> /\ Refuse /\ UNCHANGED <<asked, hop>>
      /\ UNCHANGED <<config, client, ufin, granted, odd, udata, conn, name, dest, need>>
  BY DEF Reply, Judge, FromUpstream
<1>3. UpNeed = 2
  BY <1>2 DEF UpNeed
<1>4. /\ uin' \in Seq(Nat) /\ pkt' \in Nat \X Nat
      /\ \/ /\ pkt' = <<uin[1], uin[2]>> /\ Len(uin) >= 2 /\ Len(uin') = Len(uin) - 2
            /\ \A i \in 1..Len(uin) - 2 : uin'[i] = uin[2 + i]
            /\ \A m, r \in Nat : m = 2 + r /\ UpRest(m) => UpRest(r)'
         \/ ufin /\ pkt' = pkt
  BY <1>1, <1>2, <1>3, PartTook
<1>5. /\ pkt = <<5, 1>> /\ hop \in 1..Len(chain) /\ chain[hop] # "ss" /\ Len(chain) \in Nat
      /\ \/ uin = <<>>
         \/ No /\ (Len(uin) >= 2 => uin[2] # 0)
         \/ \E kind \in {1, 3, 4} :
              /\ Yes /\ UpRest(4 + TailLen(kind)) /\ (kind = 3 => odd)
              /\ Len(uin) >= 2 => uin[1] = 5 /\ uin[2] = 0
              /\ Len(uin) >= 4 => uin[4] = kind
              /\ kind = 3 /\ Len(uin) >= 5 => uin[5] = 1
  BY <1>1, <1>2, BeforeIs DEF UpInv, Pending, UpPlaces
<1>6. at \in Reaching \ {"bridged"} /\ need' \in Nat
  BY <1>1, <1>2 DEF Reaching, UpPlaces, TypeOK
<1>7. CASE pkt' # <<5, 0>> /\ Refuse
  <2>1. ufin \/ conn # "target"
    <3>1. ASSUME ~ufin PROVE conn # "target"
      <4>1. pkt' = <<uin[1], uin[2]>> /\ Len(uin) >= 2
        BY <3>1, <1>4
      <4>2. uin # <<>> /\ ~(uin[1] = 5 /\ uin[2] = 0)
        BY <4>1, <1>7, EmptyIs
      <4> QED BY <4>1, <4>2, <1>5 DEF No
    <3> QED BY <3>1
  <2>2. asked = "none" \/ ufin
    <3>1. ASSUME ~ufin PROVE asked = "none"
      <4>1. Len(uin) >= 2 /\ uin # <<>>
        BY <3>1, <1>4, EmptyIs
      <4> QED BY <4>1, <1>5 DEF No, Yes
    <3> QED BY <3>1
  <2> QED BY <2>1, <2>2, <1>2, <1>4, <1>6, <1>7, RefusedKeeps
<1>8. CASE pkt' = <<5, 0>> /\ at' = "bound" /\ UNCHANGED <<asked, hop, told, released>>
  <2>1. /\ pkt' = <<uin[1], uin[2]>> /\ Len(uin) >= 2 /\ Len(uin') = Len(uin) - 2
        /\ \A i \in 1..Len(uin) - 2 : uin'[i] = uin[2 + i]
        /\ \A m, r \in Nat : m = 2 + r /\ UpRest(m) => UpRest(r)'
    BY <1>4, <1>5, <1>8
  <2>2. uin # <<>> /\ uin[2] = 0 /\ Len(uin) \in Nat
    BY <2>1, <1>1, <1>8, EmptyIs DEF TypeOK
  <2>3. PICK kind \in {1, 3, 4} :
          /\ Yes /\ UpRest(4 + TailLen(kind)) /\ (kind = 3 => odd)
          /\ Len(uin) >= 4 => uin[4] = kind
          /\ kind = 3 /\ Len(uin) >= 5 => uin[5] = 1
    BY <2>1, <2>2, <1>5
  <2>4. PICK r \in Nat : r = 2 + TailLen(kind) /\ 2 + r = 4 + TailLen(kind)
    BY DEF TailLen
  <2>5. UpRest(r)'
    BY <2>1, <2>3, <2>4
  <2>6. Yes'
    BY <2>3, <1>2, <1>8 DEF Yes, Before, Answering, config
  <2>7. (Len(uin') >= 2 => uin'[2] = kind) /\ (kind = 3 /\ Len(uin') >= 3 => uin'[3] = 1)
    BY <2>1, <2>2, <2>3
  <2>8. UpRest(2 + TailLen(kind))'
    <3>1. (2 + TailLen(kind))' = r
      BY <2>4 DEF TailLen
    <3> QED BY <3>1, <2>4, <2>5
  <2>9. hop' \in 1..Len(chain') /\ chain'[hop'] # "ss" /\ (udata > 0 => conn = "target")' /\ odd' = odd
    BY <1>1, <1>2, <1>5, <1>8 DEF UpInv, config
  <2>10. UpInv'
    BY <2>3, <2>6, <2>7, <2>8, <2>9, <1>8 DEF UpInv, ClientPlaces, UpPlaces
  <2>11. /\ at' \in (Reaching \ {"bridged"}) \union {"spin"} /\ conn' \in {"none", "proxy", "target"}
         /\ asked' \in {"none", "part", "connect4", "greet", "login", "connect5"} /\ hop' \in 0..Len(chain)
    BY <1>1, <1>2, <1>8 DEF Reaching, UpPlaces, TypeOK
  <2> QED BY <2>10, <2>11, <1>2, <1>4, <1>6, <1>8, QuietChainKeeps
<1> QED BY <1>2, <1>7, <1>8

LEMMA BoundKeeps ==
  ASSUME IInv, Bound
  PROVE  IInv'
<1>1. TypeOK /\ UpInv
  BY DEF IInv
<1>2. /\ at = "bound" /\ Part
      /\ \/ /\ pkt'[2] \in {1, 3, 4}
            /\ at' = CASE pkt'[2] = 1 -> "bound4" [] pkt'[2] = 3 -> "blen" [] pkt'[2] = 4 -> "bound6"
            /\ UNCHANGED <<asked, hop, told, released>>
         \/ pkt'[2] \notin {1, 3, 4} /\ Refuse /\ UNCHANGED <<asked, hop>>
      /\ UNCHANGED <<config, client, ufin, granted, odd, udata, conn, name, dest, need>>
  BY DEF Bound, Judge, FromUpstream
<1>3. UpNeed = 2
  BY <1>2 DEF UpNeed
<1>4. /\ uin' \in Seq(Nat) /\ pkt' \in Nat \X Nat
      /\ \/ /\ pkt' = <<uin[1], uin[2]>> /\ Len(uin) >= 2 /\ Len(uin') = Len(uin) - 2
            /\ \A i \in 1..Len(uin) - 2 : uin'[i] = uin[2 + i]
            /\ \A m, r \in Nat : m = 2 + r /\ UpRest(m) => UpRest(r)'
         \/ ufin /\ pkt' = pkt
  BY <1>1, <1>2, <1>3, PartTook
<1>5. PICK kind \in {1, 3, 4} :
        /\ Yes /\ UpRest(2 + TailLen(kind)) /\ (kind = 3 => odd)
        /\ Len(uin) >= 2 => uin[2] = kind
        /\ kind = 3 /\ Len(uin) >= 3 => uin[3] = 1
  BY <1>1, <1>2 DEF UpInv
<1>6. pkt = <<5, 0>> /\ hop \in 1..Len(chain) /\ chain[hop] # "ss" /\ Len(chain) \in Nat
  BY <1>1, <1>2, BeforeIs DEF UpInv, UpPlaces
<1>7. at \in Reaching \ {"bridged"} /\ need' \in Nat
  BY <1>1, <1>2 DEF Reaching, UpPlaces, TypeOK
<1>8. CASE pkt'[2] \notin {1, 3, 4}
  <2>1. Refuse /\ UNCHANGED <<asked, hop>>
    BY <1>2, <1>8
  <2>2. asked = "none" /\ ufin
    <3>1. pkt' = <<uin[1], uin[2]>> /\ Len(uin) >= 2 => pkt'[2] = kind
      BY <1>5
    <3> QED BY <3>1, <1>4, <1>5, <1>8 DEF Yes
  <2> QED BY <2>1, <2>2, <1>2, <1>4, <1>7, RefusedKeeps
<1>9. CASE pkt'[2] \in {1, 3, 4}
  <2>1. /\ pkt' = <<uin[1], uin[2]>> /\ Len(uin) >= 2 /\ Len(uin') = Len(uin) - 2
        /\ \A i \in 1..Len(uin) - 2 : uin'[i] = uin[2 + i]
        /\ \A m, r \in Nat : m = 2 + r /\ UpRest(m) => UpRest(r)'
    BY <1>4, <1>6, <1>9
  <2>2. pkt'[2] = kind
    BY <2>1, <1>5
  <2>3. /\ at' = CASE kind = 1 -> "bound4" [] kind = 3 -> "blen" [] kind = 4 -> "bound6"
        /\ UNCHANGED <<asked, hop, told, released>>
    BY <2>2, <1>2, <1>9 DEF Refuse
  <2>4. PICK r \in Nat : r = TailLen(kind)
    BY DEF TailLen
  <2>5. UpRest(r)'
    BY <2>1, <2>4, <1>5
  <2>6. Yes'
    BY <2>3, <1>2, <1>5 DEF Yes, Before, Answering, config
  <2>7. hop' \in 1..Len(chain') /\ chain'[hop'] # "ss" /\ (udata > 0 => conn = "target")' /\ odd' = odd
    BY <2>3, <1>1, <1>2, <1>6 DEF UpInv, config
  <2>8. UpInv'
    <3>1. CASE kind = 1
      <4>1. at' = "bound4" /\ UpRest(6)'
        BY <3>1, <2>3, <2>4, <2>5 DEF TailLen
      <4> QED BY <4>1, <2>6, <2>7 DEF UpInv, ClientPlaces, UpPlaces
    <3>2. CASE kind = 3
      <4>1. at' = "blen" /\ UpRest(4)' /\ odd'
        BY <3>2, <2>3, <2>4, <2>5, <2>7, <1>5 DEF TailLen
      <4>2. uin' # <<>> => uin'[1] = 1
        <5>1. ASSUME uin' # <<>> PROVE uin'[1] = 1
          <6>1. Len(uin') # 0 /\ Len(uin') \in Nat
            BY <5>1, <1>4, EmptyIs
          <6>2. 1 \in 1..Len(uin) - 2 /\ Len(uin) >= 3
            BY <6>1, <2>1, <1>1 DEF TypeOK
          <6> QED BY <6>2, <2>1, <3>2, <1>5
        <5> QED BY <5>1
      <4> QED BY <4>1, <4>2, <2>6, <2>7 DEF UpInv, ClientPlaces, UpPlaces
    <3>3. CASE kind = 4
      <4>1. at' = "bound6" /\ UpRest(18)'
        BY <3>3, <2>3, <2>4, <2>5 DEF TailLen
      <4> QED BY <4>1, <2>6, <2>7 DEF UpInv, ClientPlaces, UpPlaces
    <3> QED BY <3>1, <3>2, <3>3
  <2>9. /\ at' \in (Reaching \ {"bridged"}) \union {"spin"} /\ conn' \in {"none", "proxy", "target"}
        /\ asked' \in {"none", "part", "connect4", "greet", "login", "connect5"} /\ hop' \in 0..Len(chain)
    BY <2>3, <1>1, <1>2 DEF Reaching, UpPlaces, TypeOK
  <2> QED BY <2>3, <2>8, <2>9, <1>2, <1>4, <1>7, QuietChainKeeps
<1> QED BY <1>8, <1>9

LEMMA BoundAddressKeeps ==
  ASSUME IInv, BoundAddress
  PROVE  IInv'
<1>1. TypeOK /\ UpInv
  BY DEF IInv
<1>2. /\ at \in {"bound4", "bound6"} /\ Len(uin) >= UpNeed /\ uin' = Drop(uin, UpNeed) /\ NextHop
      /\ UNCHANGED <<config, client, ufin, granted, odd, udata, conn, name, dest, told, asked, need, pkt, released>>
  BY DEF BoundAddress, UpReads, UpConsume, FromUpstream
<1>3. UpNeed \in Nat /\ UpRest(UpNeed) /\ Yes
  BY <1>1, <1>2 DEF UpNeed, UpInv
<1>4. PICK n \in Nat : n = UpNeed
  BY <1>3
<1>5. UpRest(n) /\ Len(uin) >= n /\ uin' = Drop(uin, n) /\ n = n + 0
  BY <1>2, <1>3, <1>4
<1>6. uin' \in Seq(Nat) /\ UpRest(0)'
  <2>1. uin' \in Seq(Nat) /\ \A m, r \in Nat : m = n + r /\ UpRest(m) => UpRest(r)'
    BY <1>1, <1>2, <1>5, UpTook
  <2> QED BY <2>1, <1>5
<1>7. at \in UpPlaces /\ need' \in Nat /\ pkt' \in Nat \X Nat
  BY <1>1, <1>2 DEF TypeOK, UpPlaces
<1> QED BY <1>2, <1>3, <1>6, <1>7, ThroughKeeps

LEMMA BoundLengthKeeps ==
  ASSUME IInv, BoundLength
  PROVE  IInv'
<1>1. TypeOK /\ UpInv
  BY DEF IInv
<1>2. /\ at = "blen" /\ Len(uin) >= 1 /\ uin' = Drop(uin, 1) /\ need' = uin[1] + 2 /\ at' = "bdomain"
      /\ UNCHANGED <<config, client, ufin, granted, odd, udata, conn, name, dest, told, asked, hop, pkt, released>>
  BY DEF BoundLength, UpReads, UpConsume, UpNeed, FromUpstream
<1>3. /\ Yes /\ UpRest(4) /\ odd /\ (uin # <<>> => uin[1] = 1)
      /\ hop \in 1..Len(chain) /\ chain[hop] # "ss" /\ (udata > 0 => conn = "target")
  BY <1>1, <1>2 DEF UpInv, UpPlaces
<1>4. need' = 3
  BY <1>1, <1>2, <1>3, EmptyIs DEF TypeOK
<1>5. uin' \in Seq(Nat) /\ UpRest(3)'
  <2>1. uin' \in Seq(Nat) /\ \A m, r \in Nat : m = 1 + r /\ UpRest(m) => UpRest(r)'
    BY <1>1, <1>2, UpTook
  <2>2. 4 = 1 + 3
    OBVIOUS
  <2> QED BY <2>1, <2>2, <1>3
<1>6. Yes'
  BY <1>2, <1>3 DEF Yes, Before, Answering, config
<1>7. hop' \in 1..Len(chain') /\ chain'[hop'] # "ss" /\ (udata > 0 => conn = "target")' /\ odd'
  BY <1>2, <1>3 DEF config
<1>8. UpInv'
  BY <1>2, <1>4, <1>5, <1>6, <1>7 DEF UpInv, ClientPlaces, UpPlaces
<1>9. /\ at \in Reaching \ {"bridged"} /\ at' \in (Reaching \ {"bridged"}) \union {"spin"}
      /\ conn' \in {"none", "proxy", "target"} /\ need' \in Nat /\ hop' \in 0..Len(chain) /\ pkt' \in Nat \X Nat
      /\ asked' \in {"none", "part", "connect4", "greet", "login", "connect5"}
  BY <1>1, <1>2, <1>4 DEF Reaching, UpPlaces, TypeOK
<1> QED BY <1>2, <1>5, <1>8, <1>9, QuietChainKeeps

LEMMA BoundDomainKeeps ==
  ASSUME IInv, BoundDomain
  PROVE  IInv'
<1>1. TypeOK /\ UpInv
  BY DEF IInv
<1>2. PICK k \in 0..Smaller(need, Len(uin)) :
        uin' = Drop(uin, k) /\ Judge(k = need, NextHop /\ UNCHANGED asked)
  BY DEF BoundDomain
<1>3. at = "bdomain" /\ UNCHANGED <<config, client, ufin, granted, odd, udata, conn, name, dest, need, pkt>>
  BY DEF BoundDomain, FromUpstream
<1>4. Yes /\ UpRest(3) /\ odd /\ need = 3
  BY <1>1, <1>3 DEF UpInv
<1>5. k \in Nat /\ k <= Len(uin)
  <2>1. Len(uin) \in Nat
    BY <1>1 DEF TypeOK
  <2> QED BY <2>1, <1>2, <1>4 DEF Smaller
<1>6. uin' \in Seq(Nat) /\ \A m, r \in Nat : m = k + r /\ UpRest(m) => UpRest(r)'
  BY <1>1, <1>2, <1>3, <1>5, UpTook
<1>7. at \in UpPlaces /\ at \in Reaching \ {"bridged"} /\ need' \in Nat /\ pkt' \in Nat \X Nat
  BY <1>1, <1>3 DEF TypeOK, UpPlaces, Reaching
<1>8. CASE k = need
  <2>1. NextHop /\ UNCHANGED <<asked, told, released>>
    BY <1>2, <1>8 DEF Judge
  <2>2. 3 = k + 0
    BY <1>4, <1>8
  <2>3. UpRest(0)'
    BY <2>2, <1>4, <1>6
  <2> QED BY <2>1, <2>3, <1>3, <1>4, <1>6, <1>7, ThroughKeeps
<1>9. CASE k # need
  <2>1. Refuse /\ UNCHANGED <<asked, hop>>
    BY <1>2, <1>9 DEF Judge
  <2>2. asked = "none"
    BY <1>4 DEF Yes
  <2> QED BY <2>1, <2>2, <1>3, <1>4, <1>6, <1>7, RefusedKeeps
<1> QED BY <1>8, <1>9

LEMMA UpCutKeeps ==
  ASSUME IInv, UpCut
  PROVE  IInv'
<1>1. TypeOK
  BY DEF IInv
<1>2. at \in UpPlaces /\ ufin /\ Refuse /\ UNCHANGED <<config, client, conn, upstream, need, name, dest, hop, pkt>>
  BY DEF UpCut, Refused
<1>3. /\ UNCHANGED <<config, client, conn, ufin, granted, odd, udata, asked, name, dest, hop>>
      /\ uin' \in Seq(Nat) /\ need' \in Nat /\ pkt' \in Nat \X Nat /\ at \in Reaching \ {"bridged"}
  BY <1>1, <1>2 DEF upstream, TypeOK, Reaching, UpPlaces
<1> QED BY <1>2, <1>3, RefusedKeeps

LEMMA UpSpinsKeeps ==
  ASSUME IInv, UpSpins
  PROVE  IInv'
<1>1. TypeOK /\ UpInv
  BY DEF IInv
<1>2. at \in UpPlaces /\ ufin /\ at' = "spin" /\ UNCHANGED <<config, client, told, conn, upstream, worker>>
  BY DEF UpSpins
<1>3. UNCHANGED <<uin, ufin, asked, granted, odd, udata, need, name, dest, hop, pkt, released>>
  BY <1>2 DEF upstream, worker
<1>4. (udata > 0 => conn = "target")' /\ ufin'
  BY <1>1, <1>2, <1>3 DEF UpInv
<1>5. UpInv'
  BY <1>2, <1>4 DEF UpInv, ClientPlaces, UpPlaces
<1>6. /\ at \in Reaching \ {"bridged"} /\ at' \in (Reaching \ {"bridged"}) \union {"spin"}
      /\ conn' \in {"none", "proxy", "target"} /\ uin' \in Seq(Nat) /\ need' \in Nat
      /\ hop' \in 0..Len(chain) /\ pkt' \in Nat \X Nat
      /\ asked' \in {"none", "part", "connect4", "greet", "login", "connect5"}
  BY <1>1, <1>2, <1>3 DEF Reaching, UpPlaces, TypeOK
<1> QED BY <1>2, <1>3, <1>5, <1>6, QuietChainKeeps

LEMMA GrantKeeps ==
  ASSUME IInv, Grant
  PROVE  IInv'
<1>1. TypeOK /\ UpInv
  BY DEF IInv
<1>2. /\ at = "grant" /\ told' = Append(told, "granted") /\ at' = "bridged"
      /\ UNCHANGED <<config, client, conn, upstream, worker>>
  BY DEF Grant, Tell
<1>3. /\ UNCHANGED <<uin, ufin, asked, granted, odd, udata, need, name, dest, hop, pkt, released>>
      /\ chain' = chain
  BY <1>2 DEF upstream, worker, config
<1>4. granted = Answering /\ UpRest(0) /\ asked \in {"none", "part"} /\ (udata > 0 => conn = "target")
  BY <1>1, <1>2 DEF UpInv
<1>5. (granted = Answering)' /\ UpRest(0)' /\ (asked \in {"none", "part"})' /\ (udata > 0 => conn = "target")'
  BY <1>2, <1>3, <1>4 DEF Answering, UpRest
<1>6. UpInv' /\ GrantUsed'
  BY <1>2, <1>5 DEF UpInv, ClientPlaces, UpPlaces, GrantUsed
<1>7. /\ at \in Reaching \ {"bridged"} /\ UNCHANGED <<config, client, name, dest>>
      /\ conn' \in {"none", "proxy", "target"} /\ uin' \in Seq(Nat) /\ ufin' \in BOOLEAN /\ udata' \in 0..MaxData
      /\ asked' \in {"none", "part", "connect4", "greet", "login", "connect5"} /\ granted' \subseteq Answering
      /\ odd' \in BOOLEAN /\ need' \in Nat /\ hop' \in 0..Len(chain) /\ pkt' \in Nat \X Nat
  BY <1>1, <1>2, <1>3 DEF Reaching, TypeOK
<1> QED BY <1>2, <1>3, <1>6, <1>7, ChainKeeps

LEMMA ChainHolds ==
  ASSUME IInv, Chain
  PROVE  IInv'
BY ConnectKeeps, FailsKeeps, PrepareKeeps, PrepareSsKeeps, Answer4Keeps, MethodAnswerKeeps, ReplyKeeps,
   BoundKeeps, BoundAddressKeeps, BoundLengthKeeps, BoundDomainKeeps, UpCutKeeps, UpSpinsKeeps, GrantKeeps
   DEF Chain

-----------------------------------------------------------------------------
(* The proxies and the target, step by step.                               *)

\* A request is answered while the worker waits for its answer.
LEMMA AskedAt ==
  ASSUME TypeOK, UpInv, ~ufin, asked \in {"greet", "login", "connect4", "connect5"}
  PROVE  /\ uin = <<>> /\ udata = 0 /\ granted = Before(hop) /\ conn = "proxy"
         /\ hop \in 1..Len(chain) /\ chain[hop] # "ss"
         /\ \/ asked = "greet" /\ at = "method"
            \/ asked = "login" /\ at = "status"
            \/ asked = "connect4" /\ at = "answer4"
            \/ asked = "connect5" /\ at = "reply"
         /\ at \in {"method", "status", "reply"} => chain[hop] \in {"socks5", "socks5auth"}
<1>1. at \in {"answer4", "method", "status", "reply"}
  BY DEF TypeOK, UpInv, Pending, Yes, No, ClientPlaces, UpPlaces
<1>2. at \in UpPlaces
  BY <1>1 DEF UpPlaces
<1>3. hop \in 1..Len(chain) /\ chain[hop] # "ss"
  BY <1>2 DEF UpInv
<1>4. at \in {"method", "status", "reply"} => chain[hop] \in {"socks5", "socks5auth"}
  BY DEF UpInv
<1>5. CASE at = "answer4"
  <2>1. Pending("connect4")
    BY <1>5 DEF UpInv, Yes, No
  <2> QED BY <2>1, <1>3, <1>4, <1>5 DEF Pending
<1>6. CASE at = "method"
  <2>1. Pending("greet")
    BY <1>6 DEF UpInv, Yes, No
  <2> QED BY <2>1, <1>3, <1>4, <1>6 DEF Pending
<1>7. CASE at = "status"
  <2>1. Pending("login")
    BY <1>7 DEF UpInv, Yes, No
  <2> QED BY <2>1, <1>3, <1>4, <1>7 DEF Pending
<1>8. CASE at = "reply"
  <2>1. Pending("connect5")
    BY <1>8 DEF UpInv, Yes, No, Pending
  <2> QED BY <2>1, <1>3, <1>4, <1>8 DEF Pending
<1> QED BY <1>1, <1>5, <1>6, <1>7, <1>8

\* The messages of a proxy of eight or ten bytes.
LEMMA AnswersAre ==
  /\ \A m \in {<<0, 90>> \o Zeros(6)} : m \in Seq(Nat) /\ Len(m) = 8 /\ m[1] = 0 /\ m[2] = 90
  /\ \A m \in {<<0, 91>> \o Zeros(6)} : m \in Seq(Nat) /\ Len(m) = 8 /\ m[2] = 91
  /\ \A m \in {<<5, 1, 0, 1>> \o Zeros(6)} : m \in Seq(Nat) /\ Len(m) = 10 /\ m[2] = 1
<1> DEFINE z == Zeros(6)
<1>1. z \in Seq(Nat) /\ Len(z) = 6
  BY ZerosAre
<1> HIDE DEF z
<1>2. ASSUME NEW n \in Nat
      PROVE  /\ <<0, n>> \o z \in Seq(Nat) /\ Len(<<0, n>> \o z) = 8
             /\ (<<0, n>> \o z)[1] = 0 /\ (<<0, n>> \o z)[2] = n
  <2> DEFINE a == <<0, n>>
  <2>1. a \in Seq(Nat) /\ Len(a) = 2 /\ a[1] = 0 /\ a[2] = n
    OBVIOUS
  <2> HIDE DEF a
  <2>2. /\ a \o z \in Seq(Nat) /\ Len(a \o z) = Len(a) + Len(z)
        /\ \A i \in 1..Len(a) : (a \o z)[i] = a[i]
    BY <1>1, <2>1, TwoParts
  <2>3. a \o z \in Seq(Nat) /\ Len(a \o z) = 8 /\ (a \o z)[1] = 0 /\ (a \o z)[2] = n
    BY <1>1, <2>1, <2>2
  <2> QED BY <2>3 DEF a
<1>3. <<5, 1, 0, 1>> \o z \in Seq(Nat) /\ Len(<<5, 1, 0, 1>> \o z) = 10 /\ (<<5, 1, 0, 1>> \o z)[2] = 1
  <2> DEFINE a == <<5, 1, 0, 1>>
  <2>1. a \in Seq(Nat) /\ Len(a) = 4 /\ a[2] = 1
    OBVIOUS
  <2> HIDE DEF a
  <2>2. /\ a \o z \in Seq(Nat) /\ Len(a \o z) = Len(a) + Len(z)
        /\ \A i \in 1..Len(a) : (a \o z)[i] = a[i]
    BY <1>1, <2>1, TwoParts
  <2>3. 2 \in 1..Len(a)
    BY <2>1
  <2>4. a \o z \in Seq(Nat) /\ Len(a \o z) = 4 + 6 /\ (a \o z)[2] = 1
    BY <1>1, <2>1, <2>2, <2>3
  <2>5. 4 + 6 = 10
    OBVIOUS
  <2> QED BY <2>4, <2>5 DEF a
<1> QED BY <1>2, <1>3 DEF z

\* An answer that is no grant.
LEMMA NoGrant ==
  ASSUME IInv, ~ufin, asked \in {"greet", "login", "connect4", "connect5"},
         UNCHANGED <<config, client, told, udata, at, worker, conn, granted, odd>>,
         NEW m \in Seq(Nat), UpWrites(m),
         asked \in {"greet", "login"} => Len(m) = 2,
         asked = "greet" => m[1] = 5,
         asked = "connect4" => Len(m) = 8 /\ m[2] # 90,
         asked = "connect5" => Len(m) = 10 /\ m[2] # 0
  PROVE  IInv'
<1>1. TypeOK /\ UpInv
  BY DEF IInv
<1>2. /\ uin = <<>> /\ udata = 0 /\ granted = Before(hop) /\ conn = "proxy"
      /\ hop \in 1..Len(chain) /\ chain[hop] # "ss"
      /\ \/ asked = "greet" /\ at = "method"
         \/ asked = "login" /\ at = "status"
         \/ asked = "connect4" /\ at = "answer4"
         \/ asked = "connect5" /\ at = "reply"
      /\ at \in {"method", "status", "reply"} => chain[hop] \in {"socks5", "socks5auth"}
  BY <1>1, AskedAt
<1>3. /\ UpRest(Len(m))' /\ uin' \in Seq(Nat) /\ Len(uin') \in Nat
      /\ \A i \in 1..Len(uin') : uin'[i] = m[i]
      /\ asked' = "none" /\ ufin' \in BOOLEAN
  BY <1>2, UpWritten
<1>4. UNCHANGED <<chain, hop, pkt, at>> /\ udata' = 0 /\ conn' = "proxy"
  BY <1>2 DEF config, worker
<1>5. No'
  BY <1>2, <1>3, <1>4 DEF No, Before, Answering
<1>6. hop' \in 1..Len(chain') /\ chain'[hop'] # "ss"
      /\ (at \in {"method", "status", "reply"} => chain'[hop'] \in {"socks5", "socks5auth"})
  BY <1>2, <1>4
<1>7. UpInv'
  <2>1. CASE asked = "greet" /\ at = "method"
    <3>1. UpRest(2)'
      BY <2>1, <1>3
    <3>2. Len(uin') >= 2 => uin'[1] = 5
      BY <2>1, <1>3
    <3> QED BY <2>1, <3>1, <3>2, <1>4, <1>5, <1>6 DEF UpInv, ClientPlaces, UpPlaces
  <2>2. CASE asked = "login" /\ at = "status"
    <3>1. UpRest(2)'
      BY <2>2, <1>3
    <3> QED BY <2>2, <3>1, <1>4, <1>5, <1>6 DEF UpInv, ClientPlaces, UpPlaces
  <2>3. CASE asked = "connect4" /\ at = "answer4"
    <3>1. UpRest(8)'
      BY <2>3, <1>3
    <3>2. Len(uin') >= 2 => uin'[2] # 90
      BY <2>3, <1>3
    <3> QED BY <2>3, <3>1, <3>2, <1>4, <1>5, <1>6 DEF UpInv, ClientPlaces, UpPlaces
  <2>4. CASE asked = "connect5" /\ at = "reply"
    <3>1. UpRest(10)'
      BY <2>4, <1>3
    <3>2. Len(uin') >= 2 => uin'[2] # 0
      BY <2>4, <1>3
    <3>3. pkt' = <<5, 1>>
      BY <2>4, <1>1, <1>4 DEF UpInv
    <3> QED BY <2>4, <3>1, <3>2, <3>3, <1>4, <1>5, <1>6 DEF UpInv, ClientPlaces, UpPlaces
  <2> QED BY <1>2, <2>1, <2>2, <2>3, <2>4
<1>8. GrantUsed'
  BY <1>2, <1>4 DEF GrantUsed
<1>9. /\ conn' \in {"none", "proxy", "target"} /\ udata' \in 0..MaxData /\ granted' \subseteq Answering
      /\ asked' \in {"none", "part", "connect4", "greet", "login", "connect5"} /\ odd' \in BOOLEAN
  BY <1>1, <1>3 DEF TypeOK
<1> QED BY <1>3, <1>7, <1>8, <1>9, UpstreamKeeps

\* A grant.
LEMMA GrantSent ==
  ASSUME IInv, ~ufin, asked \in {"connect4", "connect5"},
         UNCHANGED <<config, client, told, udata, at, worker>>, granted' = granted \union {hop},
         conn' = IF hop = Len(chain) THEN "target" ELSE conn,
         NEW m \in Grants, UpWrites(m), odd' = (odd \/ m[4] = 3)
  PROVE  IInv'
<1>1. TypeOK /\ UpInv
  BY DEF IInv
<1>2. /\ uin = <<>> /\ udata = 0 /\ granted = Before(hop) /\ conn = "proxy"
      /\ hop \in 1..Len(chain) /\ chain[hop] # "ss"
      /\ \/ asked = "connect4" /\ at = "answer4"
         \/ asked = "connect5" /\ at = "reply"
      /\ at \in {"method", "status", "reply"} => chain[hop] \in {"socks5", "socks5auth"}
  BY <1>1, AskedAt
<1>3. UNCHANGED <<chain, hop, pkt, at>> /\ udata' = 0
  BY <1>2 DEF config, worker
<1>4. granted' = Before(hop + 1) /\ granted' \subseteq Answering
  BY <1>1, <1>2, BeforeIs DEF Before
<1>5. hop' \in 1..Len(chain') /\ chain'[hop'] # "ss"
      /\ (at \in {"method", "status", "reply"} => chain'[hop'] \in {"socks5", "socks5auth"})
  BY <1>2, <1>3
<1>6. conn' = (IF hop' = Len(chain') THEN "target" ELSE "proxy") /\ granted' = Before(hop + 1)'
  BY <1>2, <1>3, <1>4 DEF Before, Answering
<1>7. m \in Seq(Nat) =>
        /\ UpRest(Len(m))' /\ uin' \in Seq(Nat) /\ Len(uin') \in Nat
        /\ \A i \in 1..Len(uin') : uin'[i] = m[i]
        /\ asked' = "none" /\ ufin' \in BOOLEAN
  BY <1>2, UpWritten
<1>8. asked' = "none" => Yes'
  BY <1>6 DEF Yes
<1>9. uin' \in Seq(Nat) /\ asked' = "none" /\ ufin' \in BOOLEAN /\ UpInv'
  <2>1. CASE asked = "connect4" /\ at = "answer4"
    <3>1. m \in Seq(Nat) /\ Len(m) = 8 /\ m[1] = 0 /\ m[2] = 90
      BY <2>1, AnswersAre DEF Grants
    <3>2. UpRest(8)' /\ Yes'
      BY <3>1, <1>7, <1>8
    <3>3. Len(uin') >= 2 => uin'[1] = 0 /\ uin'[2] = 90
      BY <3>1, <1>7
    <3>4. UpInv'
      BY <2>1, <3>2, <3>3, <1>3, <1>5 DEF UpInv, ClientPlaces, UpPlaces
    <3> QED BY <3>1, <3>4, <1>7
  <2>2. CASE asked = "connect5" /\ at = "reply"
    <3>1. m \in {<<5, 0>> \o t : t \in Tail5}
      BY <2>2 DEF Grants
    <3>2. PICK kind \in {1, 3, 4} : /\ m \in Seq(Nat) /\ Len(m) = 4 + TailLen(kind)
                                    /\ m[1] = 5 /\ m[2] = 0 /\ m[4] = kind /\ (kind = 3 => m[5] = 1)
      BY <3>1, GrantIs
    <3>3. UpRest(Len(m))' /\ Yes' /\ Len(uin') \in Nat /\ \A i \in 1..Len(uin') : uin'[i] = m[i]
      BY <3>2, <1>7, <1>8
    <3>4. UpRest(4 + TailLen(kind))'
      <4>1. PICK l \in Nat : l = Len(m)
        BY <3>2
      <4>2. UpRest(l)' /\ (4 + TailLen(kind))' = l
        BY <3>2, <3>3, <4>1 DEF TailLen
      <4> QED BY <4>2
    <3>5. kind = 3 => odd'
      BY <3>2
    <3>6. /\ Len(uin') >= 2 => uin'[1] = 5 /\ uin'[2] = 0
          /\ Len(uin') >= 4 => uin'[4] = kind
          /\ kind = 3 /\ Len(uin') >= 5 => uin'[5] = 1
      BY <3>2, <3>3
    <3>7. pkt' = <<5, 1>>
      BY <2>2, <1>1, <1>3 DEF UpInv
    <3>8. UpInv'
      BY <2>2, <3>3, <3>4, <3>5, <3>6, <3>7, <1>3, <1>5 DEF UpInv, ClientPlaces, UpPlaces
    <3> QED BY <3>2, <3>8, <1>7
  <2> QED BY <1>2, <2>1, <2>2
<1>10. GrantUsed'
  BY <1>2, <1>3 DEF GrantUsed
<1>11. /\ conn' \in {"none", "proxy", "target"} /\ udata' \in 0..MaxData /\ odd' \in BOOLEAN
       /\ asked' \in {"none", "part", "connect4", "greet", "login", "connect5"}
  BY <1>1, <1>2, <1>9 DEF TypeOK
<1> QED BY <1>4, <1>9, <1>10, <1>11, UpstreamKeeps

LEMMA UpAnswersKeeps ==
  ASSUME IInv, UpAnswers
  PROVE  IInv'
<1>1. ~ufin /\ UNCHANGED <<config, client, told, udata, at, worker>>
  BY DEF UpAnswers
<1>2. ASSUME asked = "greet", UNCHANGED <<conn, granted, odd>>, NEW b \in {Wanted, 255}, UpWrites(<<5, b>>)
      PROVE  IInv'
  <2>1. b \in Nat
    BY DEF Wanted
  <2>2. <<5, b>> \in Seq(Nat) /\ Len(<<5, b>>) = 2 /\ <<5, b>>[1] = 5
    BY <2>1
  <2> QED BY <2>2, <1>1, <1>2, NoGrant
<1>3. ASSUME asked = "login", UNCHANGED <<conn, granted, odd>>, NEW b \in {0, 1}, UpWrites(<<1, b>>)
      PROVE  IInv'
  <2>1. <<1, b>> \in Seq(Nat) /\ Len(<<1, b>>) = 2
    OBVIOUS
  <2> QED BY <2>1, <1>1, <1>3, NoGrant
<1>4. ASSUME asked \in {"connect4", "connect5"}, UNCHANGED <<conn, granted, odd>>, NEW m \in Refusals, UpWrites(m)
      PROVE  IInv'
  <2>1. /\ m \in Seq(Nat) /\ (asked = "connect4" => Len(m) = 8 /\ m[2] # 90)
        /\ asked = "connect5" => Len(m) = 10 /\ m[2] # 0
    <3>1. CASE asked = "connect4"
      <4>1. m \in Seq(Nat) /\ Len(m) = 8 /\ m[2] = 91
        BY <3>1, <1>4, AnswersAre DEF Refusals
      <4> QED BY <3>1, <4>1
    <3>2. CASE asked = "connect5"
      <4>1. m \in Seq(Nat) /\ Len(m) = 10 /\ m[2] = 1
        BY <3>2, <1>4, AnswersAre DEF Refusals
      <4> QED BY <3>2, <4>1
    <3> QED BY <3>1, <3>2, <1>4
  <2> QED BY <2>1, <1>1, <1>4, NoGrant
<1>5. ASSUME asked \in {"connect4", "connect5"}, granted' = granted \union {hop},
             conn' = IF hop = Len(chain) THEN "target" ELSE conn,
             NEW m \in Grants, UpWrites(m), odd' = (odd \/ m[4] = 3)
      PROVE  IInv'
  BY <1>1, <1>5, GrantSent
<1> QED BY <1>2, <1>3, <1>4, <1>5 DEF UpAnswers

LEMMA TargetSendsKeeps ==
  ASSUME IInv, TargetSends
  PROVE  IInv'
<1>1. TypeOK /\ UpInv
  BY DEF IInv
<1> DEFINE d == DataByte(udata + 1)
<1>2. /\ conn = "target" /\ ~ufin /\ udata < MaxData /\ uin' = Append(uin, d) /\ udata' = udata + 1
      /\ UNCHANGED <<config, client, told, conn, ufin, asked, granted, odd, at, worker>>
      /\ uin \in Seq(Nat) /\ udata \in 0..MaxData
  BY <1>1 DEF TargetSends, TypeOK
<1>3. d \in Nat /\ d = DataByte(udata') /\ MaxData \in Nat
  BY <1>2, Limits DEF DataByte
<1> HIDE DEF d
<1>4. /\ uin' \in Seq(Nat) /\ Len(uin') = Len(uin) + 1 /\ uin'[Len(uin) + 1] = d /\ Len(uin) \in Nat
      /\ \A i \in 1..Len(uin) : uin'[i] = uin[i]
  BY <1>2, <1>3, AppendProperties
<1>5. udata' \in 0..MaxData /\ udata \in Nat
  BY <1>2, <1>3
<1>6. ASSUME NEW n \in Nat, UpRest(n)
      PROVE  n <= Len(uin) /\ UpRest(n)'
  <2>1. Len(uin) = n + udata /\ \A k \in 1..udata : uin[n + k] = DataByte(k)
    BY <1>2, <1>6 DEF UpRest
  <2>2. ASSUME NEW k \in 1..udata' PROVE uin'[n + k] = DataByte(k)
    <3>1. CASE k = udata'
      <4>1. n + k = Len(uin) + 1
        BY <1>2, <1>5, <2>1, <3>1
      <4> QED BY <4>1, <1>3, <1>4, <3>1
    <3>2. CASE k # udata'
      <4>1. k \in 1..udata /\ n + k \in 1..Len(uin)
        BY <1>2, <1>5, <2>1, <3>2
      <4> QED BY <4>1, <1>4, <2>1
    <3> QED BY <3>1, <3>2
  <2>3. Len(uin') = n + udata' /\ n <= Len(uin)
    BY <1>2, <1>4, <1>5, <2>1
  <2> QED BY <2>2, <2>3 DEF UpRest
<1>7. UNCHANGED <<chain, hop, pkt, need, at, asked, granted, odd, conn, released>>
  BY <1>2 DEF config, worker
<1>8. Yes => Yes'
  BY <1>7 DEF Yes, Before, Answering
<1>9. conn' = "target" /\ Answering' = Answering
  BY <1>2, <1>7 DEF Answering
<1>10. \A r : ~Pending(r) /\ ~No
  BY <1>2 DEF Pending, No
<1>11. at \in UpPlaces => hop' \in 1..Len(chain') /\ chain'[hop'] # "ss"
                          /\ (at \in {"method", "status", "reply"} => chain'[hop'] \in {"socks5", "socks5auth"})
  BY <1>1, <1>7 DEF UpInv
<1>12. UpInv'
  <2>1. CASE at \in ClientPlaces \union {"connect", "prepare", "method", "status"}
    <3>1. FALSE
      BY <2>1, <1>1, <1>2, <1>10 DEF UpInv
    <3> QED BY <3>1
  <2>2. CASE at = "answer4"
    <3>1. UpRest(8) /\ Yes /\ (Len(uin) >= 2 => uin[1] = 0 /\ uin[2] = 90)
      BY <2>2, <1>1, <1>10 DEF UpInv
    <3>2. Len(uin) >= 8 /\ UpRest(8)'
      BY <3>1, <1>6
    <3>3. uin'[1] = 0 /\ uin'[2] = 90
      BY <3>1, <3>2, <1>4
    <3> QED BY <2>2, <3>1, <3>2, <3>3, <1>7, <1>8, <1>9, <1>11 DEF UpInv, ClientPlaces, UpPlaces
  <2>3. CASE at = "reply"
    <3>1. PICK kind \in {1, 3, 4} :
            /\ Yes /\ UpRest(4 + TailLen(kind)) /\ (kind = 3 => odd)
            /\ Len(uin) >= 2 => uin[1] = 5 /\ uin[2] = 0
            /\ Len(uin) >= 4 => uin[4] = kind
            /\ kind = 3 /\ Len(uin) >= 5 => uin[5] = 1
      BY <2>3, <1>1, <1>10 DEF UpInv
    <3>2. PICK n \in Nat : n = 4 + TailLen(kind) /\ n >= 5
      BY DEF TailLen
    <3>3. Len(uin) >= 5 /\ UpRest(n)'
      BY <3>1, <3>2, <1>4, <1>6
    <3>4. UpRest(4 + TailLen(kind))'
      <4>1. (4 + TailLen(kind))' = n
        BY <3>2 DEF TailLen
      <4> QED BY <4>1, <3>3
    <3>5. uin'[1] = 5 /\ uin'[2] = 0 /\ uin'[4] = kind /\ (kind = 3 => uin'[5] = 1)
      <4>1. uin[1] = 5 /\ uin[2] = 0 /\ uin[4] = kind /\ (kind = 3 => uin[5] = 1)
        BY <3>1, <3>3, <1>4
      <4>2. 1 \in 1..Len(uin) /\ 2 \in 1..Len(uin) /\ 4 \in 1..Len(uin) /\ 5 \in 1..Len(uin)
        BY <3>3, <1>4
      <4> QED BY <4>1, <4>2, <1>4
    <3>6. pkt' = <<5, 1>> /\ (kind = 3 => odd')
      BY <2>3, <3>1, <1>1, <1>7 DEF UpInv
    <3> QED BY <2>3, <3>1, <3>4, <3>5, <3>6, <1>7, <1>8, <1>9, <1>11 DEF UpInv, ClientPlaces, UpPlaces
  <2>4. CASE at = "bound"
    <3>1. PICK kind \in {1, 3, 4} :
            /\ Yes /\ UpRest(2 + TailLen(kind)) /\ (kind = 3 => odd)
            /\ Len(uin) >= 2 => uin[2] = kind
            /\ kind = 3 /\ Len(uin) >= 3 => uin[3] = 1
      BY <2>4, <1>1 DEF UpInv
    <3>2. PICK n \in Nat : n = 2 + TailLen(kind) /\ n >= 3
      BY DEF TailLen
    <3>3. Len(uin) >= 3 /\ UpRest(n)'
      BY <3>1, <3>2, <1>4, <1>6
    <3>4. UpRest(2 + TailLen(kind))'
      <4>1. (2 + TailLen(kind))' = n
        BY <3>2 DEF TailLen
      <4> QED BY <4>1, <3>3
    <3>5. uin'[2] = kind /\ (kind = 3 => uin'[3] = 1)
      <4>1. uin[2] = kind /\ (kind = 3 => uin[3] = 1)
        BY <3>1, <3>3, <1>4
      <4>2. 2 \in 1..Len(uin) /\ 3 \in 1..Len(uin)
        BY <3>3, <1>4
      <4> QED BY <4>1, <4>2, <1>4
    <3>6. pkt' = <<5, 0>> /\ (kind = 3 => odd')
      BY <2>4, <3>1, <1>1, <1>7 DEF UpInv
    <3> QED BY <2>4, <3>1, <3>4, <3>5, <3>6, <1>7, <1>8, <1>9, <1>11 DEF UpInv, ClientPlaces, UpPlaces
  <2>5. CASE at \in {"bound4", "bound6", "bdomain"}
    <3>1. /\ Yes' /\ (at = "bound4" => UpRest(6)') /\ (at = "bound6" => UpRest(18)')
          /\ at = "bdomain" => UpRest(3)' /\ odd' /\ need' = 3
      BY <2>5, <1>1, <1>6, <1>7, <1>8 DEF UpInv
    <3> QED BY <2>5, <3>1, <1>7, <1>9, <1>11 DEF UpInv, ClientPlaces, UpPlaces
  <2>6. CASE at = "blen"
    <3>1. Yes /\ UpRest(4) /\ odd /\ (uin # <<>> => uin[1] = 1)
      BY <2>6, <1>1 DEF UpInv
    <3>2. Len(uin) >= 4 /\ UpRest(4)'
      BY <3>1, <1>6
    <3>3. uin'[1] = 1 /\ odd'
      <4>1. uin # <<>> /\ 1 \in 1..Len(uin)
        BY <3>2, <1>4, EmptyIs
      <4> QED BY <4>1, <3>1, <1>4, <1>7
    <3> QED BY <2>6, <3>1, <3>2, <3>3, <1>7, <1>8, <1>9, <1>11 DEF UpInv, ClientPlaces, UpPlaces
  <2>7. CASE at \in {"grant", "bridged", "gone", "spin"}
    <3>1. at \in {"grant", "bridged"} => granted' = Answering' /\ UpRest(0)' /\ asked' \in {"none", "part"}
      BY <1>1, <1>6, <1>7, <1>9 DEF UpInv
    <3>2. at \in {"gone", "spin"} => asked' = "none"
      BY <1>1, <1>2, <1>7 DEF UpInv
    <3> QED BY <2>7, <3>1, <3>2, <1>7, <1>9 DEF UpInv, ClientPlaces, UpPlaces
  <2> QED BY <2>1, <2>2, <2>3, <2>4, <2>5, <2>6, <2>7, <1>1 DEF TypeOK, UpPlaces
<1>13. GrantUsed'
  <2>1. GrantUsed /\ ufin' = ufin
    BY <1>2 DEF IInv
  <2> QED BY <2>1, <1>7, <1>9 DEF GrantUsed
<1>14. /\ conn' \in {"none", "proxy", "target"} /\ ufin' \in BOOLEAN
       /\ asked' \in {"none", "part", "connect4", "greet", "login", "connect5"} /\ granted' \subseteq Answering
       /\ odd' \in BOOLEAN
  BY <1>1, <1>2 DEF TypeOK
<1> QED BY <1>2, <1>4, <1>5, <1>12, <1>13, <1>14, UpstreamKeeps

LEMMA UpClosesKeeps ==
  ASSUME IInv, UpCloses
  PROVE  IInv'
<1>1. TypeOK /\ UpInv
  BY DEF IInv
<1>2. ufin' = TRUE /\ UNCHANGED <<config, client, told, conn, uin, asked, granted, odd, udata, at, worker>>
  BY DEF UpCloses
<1>3. UNCHANGED <<chain, hop, pkt, need, at, asked, granted, odd, conn, released, uin, udata>>
  BY <1>2 DEF config, worker
<1>4. \A n : UpRest(n) => UpRest(n)'
  BY <1>2, <1>3 DEF UpRest
<1>5. \A r : Pending(r)' <=> Pending(r)
  BY <1>3 DEF Pending, Before, Answering
<1>6. (Yes' <=> Yes) /\ (No' <=> No) /\ Answering' = Answering
  BY <1>3 DEF Yes, No, Before, Answering
<1>7. UpInv'
  BY <1>1, <1>2, <1>3, <1>4, <1>5, <1>6 DEF UpInv
<1>8. GrantUsed'
  BY <1>2 DEF GrantUsed
<1>9. /\ conn' \in {"none", "proxy", "target"} /\ ufin' \in BOOLEAN /\ uin' \in Seq(Nat) /\ udata' \in 0..MaxData
      /\ asked' \in {"none", "part", "connect4", "greet", "login", "connect5"} /\ granted' \subseteq Answering
      /\ odd' \in BOOLEAN
  BY <1>1, <1>2 DEF TypeOK
<1> QED BY <1>2, <1>7, <1>8, <1>9, UpstreamKeeps

LEMMA UpstreamHolds ==
  ASSUME IInv, Upstream
  PROVE  IInv'
BY UpAnswersKeeps, TargetSendsKeeps, UpClosesKeeps DEF Upstream

-----------------------------------------------------------------------------
(* The theorems.                                                           *)

LEMMA IInvStarts ==
  ASSUME Init
  PROVE  IInv
<1>1. /\ allow \in {{4, 5}, {4}, {5}} /\ login \in BOOLEAN /\ anon \in BOOLEAN /\ chain \in Chains
      /\ cin = <<>> /\ cfin = FALSE /\ told = <<>> /\ step = "greet" /\ proved = FALSE /\ cdata = 0
      /\ conn = "none" /\ uin = <<>> /\ ufin = FALSE /\ asked = "none"
      /\ granted = {} /\ odd = FALSE /\ udata = 0
      /\ at = "version" /\ need = 0 /\ name = <<>> /\ dest = "none" /\ hop = 0
      /\ pkt = <<0, 0>> /\ released = FALSE
  BY DEF Init
<1>2. TypeOK
  <2>1. Len(chain) \in Nat
    BY <1>1, Limits
  <2>2. hop \in 0..Len(chain) /\ cdata \in 0..MaxData /\ udata \in 0..MaxData
    BY <1>1, <2>1, Limits
  <2>3. cin \in Seq(Nat) /\ uin \in Seq(Nat) /\ name \in Seq(Nat) /\ told \in Seq(Answers)
    BY <1>1, EmptySeq
  <2>4. Len(name) <= UidMax + 1
    BY <1>1, EmptyIs, Limits
  <2>5. at \in ClientPlaces /\ pkt \in Nat \X Nat
    BY <1>1 DEF ClientPlaces
  <2> QED BY <1>1, <2>2, <2>3, <2>4, <2>5 DEF TypeOK, Answers
<1>3. ClientInv
  <2>1. Nothing({"greet"})
    BY <1>1 DEF Nothing
  <2> QED BY <1>1, <2>1 DEF ClientInv, Reaching, UpPlaces
<1>4. ToldAt /\ EndInv /\ AnsweredOnce /\ GrantUsed /\ AuthRespected
  <2>1. Len(told) = 0
    BY <1>1, EmptyIs
  <2>2. \A i \in 1..Len(told) : FALSE
    BY <2>1
  <2> QED BY <1>1, <2>2 DEF ToldAt, EndInv, NoFinal, AnsweredOnce, GrantUsed, AuthRespected, UpPlaces
<1>5. UpInv
  BY <1>1 DEF UpInv, ClientPlaces, UpPlaces
<1> QED BY <1>2, <1>3, <1>4, <1>5 DEF IInv

LEMMA IInvKept ==
  ASSUME IInv, [Next]_vars
  PROVE  IInv'
<1>1. CASE UNCHANGED vars
  <2>1. UNCHANGED <<config, client, told, at, worker>> /\ UNCHANGED <<conn, uin, ufin, udata, asked, granted, odd>>
        /\ UNCHANGED <<chain, hop, pkt, need, released>>
    BY <1>1 DEF vars, upstream, config, worker
  <2>2. \A n : UpRest(n)' <=> UpRest(n)
    BY <2>1 DEF UpRest
  <2>3. \A r : Pending(r)' <=> Pending(r)
    BY <2>1 DEF Pending, Before, Answering
  <2>4. (Yes' <=> Yes) /\ (No' <=> No) /\ Answering' = Answering
    BY <2>1 DEF Yes, No, Before, Answering
  <2>5. UpInv' /\ GrantUsed'
    BY <2>1, <2>2, <2>3, <2>4 DEF IInv, UpInv, GrantUsed
  <2>6. /\ conn' \in {"none", "proxy", "target"} /\ ufin' \in BOOLEAN /\ uin' \in Seq(Nat)
        /\ udata' \in 0..MaxData /\ granted' \subseteq Answering /\ odd' \in BOOLEAN
        /\ asked' \in {"none", "part", "connect4", "greet", "login", "connect5"}
    BY <2>1 DEF IInv, TypeOK
  <2> QED BY <2>1, <2>5, <2>6, UpstreamKeeps
<1>2. CASE Client
  BY <1>2, ClientGreetsKeeps, ClientContinuesKeeps, ClientSendsKeeps, ClientClosesKeeps DEF Client
<1>3. CASE Upstream
  BY <1>3, UpstreamHolds
<1>4. CASE Worker
  BY <1>4, HandshakeHolds, ChainHolds DEF Worker
<1> QED BY <1>1, <1>2, <1>3, <1>4 DEF Next

\* The inductive invariant: at every place of the handshake and of the way out, what is still in
\* the stream is the rest of the message that this place reads, then the data, or a piece of that
\* rest and the end of the stream.
THEOREM Invariant == Spec => []IInv
BY IInvStarts, IInvKept, PTL DEF Spec

\* TypeOK: what the handshake collects has its bounds, and the worker never waits for a length
\* that no byte gave it.
THEOREM TypeCorrect == Spec => []TypeOK
<1>1. IInv => TypeOK
  BY DEF IInv
<1> QED BY Invariant, <1>1, PTL

\* AuthRespected: no request is read, or carried out, without the login or the user id that the
\* handler asks for.
THEOREM AuthRespectedHolds == Spec => []AuthRespected
<1>1. IInv => AuthRespected
  BY DEF IInv
<1> QED BY Invariant, <1>1, PTL

\* AnsweredOnce: one final answer for a request that has been taken up, the right one, and last.
THEOREM AnsweredOnceHolds == Spec => []AnsweredOnce
<1>1. IInv => AnsweredOnce
  BY DEF IInv
<1> QED BY Invariant, <1>1, PTL

\* GrantedMeansReached: the bridge is reached only when every SOCKS proxy of the chain has said
\* that it connected, in whatever pieces the answers come and wherever they are cut off.
THEOREM GrantedMeansReachedHolds == Spec => []GrantedMeansReached
<1>1. IInv => GrantedMeansReached
  BY DEF IInv, UpInv, GrantedMeansReached
<1> QED BY Invariant, <1>1, PTL

\* GrantUsed: a way that stands is given up only for the domain in an answer.
THEOREM GrantUsedHolds == Spec => []GrantUsed
<1>1. IInv => GrantUsed
  BY DEF IInv
<1> QED BY Invariant, <1>1, PTL

\* DataIntact: both handshakes are consumed to their last byte, and no further.
THEOREM DataIntactHolds == Spec => []DataIntact
<1>1. IInv => DataIntact
  <2> SUFFICES ASSUME IInv, at = "bridged"
               PROVE  cin = [k \in 1..cdata |-> DataByte(k)] /\ uin = [k \in 1..udata |-> DataByte(k)]
    BY DEF DataIntact
  <2>1. TypeOK /\ Rest(0, "data") /\ UpRest(0)
    BY DEF IInv, ClientInv, UpInv, Reaching
  <2>2. cin \in Seq(Nat) /\ uin \in Seq(Nat) /\ cdata \in Nat /\ udata \in Nat
    BY <2>1, Limits DEF TypeOK
  <2>3. ASSUME NEW s \in Seq(Nat), NEW n \in Nat, Len(s) = n, \A k \in 1..n : s[0 + k] = DataByte(k)
        PROVE  s = [k \in 1..n |-> DataByte(k)]
    <3>1. \A k \in 1..n : s[k] = DataByte(k)
      <4>1. \A k \in 1..n : 0 + k = k
        OBVIOUS
      <4> QED BY <4>1, <2>3
    <3>2. s = [k \in 1..Len(s) |-> s[k]]
      BY <2>3
    <3> QED BY <3>1, <3>2, <2>3
  <2>4. Len(cin) = cdata /\ \A k \in 1..cdata : cin[0 + k] = DataByte(k)
    BY <2>1, <2>2 DEF Rest
  <2>5. Len(uin) = udata /\ \A k \in 1..udata : uin[0 + k] = DataByte(k)
    BY <2>1, <2>2 DEF UpRest
  <2> QED BY <2>2, <2>3, <2>4, <2>5
<1> QED BY Invariant, <1>1, PTL
=============================================================================
