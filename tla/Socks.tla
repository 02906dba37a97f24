-------------------------------- MODULE Socks --------------------------------
(***************************************************************************)
(* One connection of a SOCKS handler up to the bridge: the handshake with  *)
(* the client (handlers.cpp), connecting along the chain of upstream       *)
(* proxies (handler::connect, proxy.cpp, proxy_ss.cpp), and the answer.    *)
(*                                                                         *)
(* The worker is sequential; what it meets is not: messages come whole, in *)
(* pieces or cut off, followed at once by the data they announce, and      *)
(* proxies grant, refuse or close at every point.  An exact recv is        *)
(* enabled when its bytes are there, or fails when they cannot come any    *)
(* more.  Lengths and framing are those of the protocols; an address or a  *)
(* name is filler, but for a byte that is right or wrong where the code    *)
(* compares.  Ports are not zero and sends do not fail.                    *)
(***************************************************************************)
EXTENDS Integers, Sequences, Buffers

CONSTANTS
  Chains,    \* sequences of upstream proxies: "socks4", "socks5", "socks5auth", "ss"
  UidMax,    \* longest user id that handshake4 collects before it stops (255)
  MaxData    \* bound: bytes of data each end sends

Hops == {"socks4", "socks5", "socks5auth", "ss"}
ASSUME ChainsAssumption == Chains \subseteq Seq(Hops)
ASSUME LimitsAssumption == UidMax \in Nat \ {0} /\ MaxData \in Nat

VARIABLES
  allow,      \* versions of the protocol the handler speaks
  login,      \* the handler has a login configured
  anon,       \* socks5_allow_anon
  chain,      \* proxychain
  cin,        \* bytes from the client that the worker has not consumed
  cfin,       \* the client has closed
  told,       \* answers the client has been sent
  step,       \* what the client does next
  proved,     \* the client has sent the right user id, or the right login
  cdata,      \* bytes of data it has sent
  conn,       \* how far the way out reaches: "none", "proxy" or "target"
  uin, ufin,  \* bytes from upstream that the worker has not consumed; upstream has closed
  asked,      \* the request that upstream has to answer; "part" of one is never answered
  granted,    \* hops whose proxy has answered that it connected
  odd,        \* some hop has named the address it bound by a domain
  udata,      \* bytes of data the target has sent
  at,         \* where the worker is
  need,       \* length of its next recv where a byte before gave it
  name,       \* user id or login received so far
  dest,       \* the kind of address the client asks for
  hop,        \* proxy that is being prepared
  pkt,        \* packet[0..1] of prepare
  released    \* the client's pipe has been released

config == <<allow, login, anon, chain>>
client == <<cin, cfin, step, proved, cdata>>
upstream == <<uin, ufin, asked, granted, odd, udata>>
worker == <<need, name, dest, hop, pkt, released>>
vars == <<config, client, told, conn, upstream, at, worker>>

Right == 7   \* the byte of the configured user id, login and password
Wrong == 8
Zeros(n) == [i \in 1..n |-> 0]
DataByte(k) == 1000 + k
Drop(s, n) == SubSeq(s, n + 1, Len(s))

Init ==
  /\ allow \in {{4, 5}, {4}, {5}} /\ login \in BOOLEAN
  /\ anon \in (IF login THEN BOOLEAN ELSE {TRUE})
  /\ chain \in Chains
  /\ cin = <<>> /\ cfin = FALSE /\ told = <<>> /\ step = "greet" /\ proved = FALSE /\ cdata = 0
  /\ conn = "none" /\ uin = <<>> /\ ufin = FALSE /\ asked = "none"
  /\ granted = {} /\ odd = FALSE /\ udata = 0
  /\ at = "version" /\ need = 0 /\ name = <<>> /\ dest = "none" /\ hop = 0
  /\ pkt = <<0, 0>> /\ released = FALSE

-----------------------------------------------------------------------------
(* The client.  A message goes out whole, or the client closes inside it.   *)

ClientWrites(m, next) ==
  \E k \in 0..Len(m) :
    /\ cin' = cin \o SubSeq(m, 1, k)
    /\ cfin' = (k < Len(m)) /\ step' = IF k < Len(m) THEN "silent" ELSE next

Uids == {<<Right>>, <<Wrong>>, [i \in 1..UidMax + 2 |-> Wrong]}
Request4(cmd, uid) == <<4, cmd, 0, 80, 1, 1, 1, 1>> \o uid \o <<0>>
Request5(cmd, atyp) ==
  <<5, cmd, 0, atyp>> \o (CASE atyp = 1 -> Zeros(4) [] atyp = 3 -> <<2, 3, 3>> [] atyp = 4 -> Zeros(16)
                            [] OTHER -> Zeros(1)) \o <<0, 80>>

ClientGreets ==
  /\ step = "greet" /\ ~cfin
  /\ \/ \E cmd \in {1, 2}, uid \in Uids :
          ClientWrites(Request4(cmd, uid), "data") /\ proved' = (uid = <<Right>>)
     \/ \E ms \in {<<>>, <<0>>, <<2>>, <<2, 0>>} :
          ClientWrites(<<5, Len(ms)>> \o ms, "method") /\ proved' = FALSE
  /\ UNCHANGED <<config, told, cdata, conn, upstream, at, worker>>

\* What the client does when it has been told to log in, or to go on.
LogsIn ==
  \E pass \in {Right, Wrong} :
    /\ ClientWrites(<<1, 1, Right, 1, pass>>, "status") /\ proved' = (pass = Right)
Requests ==
  \E cmd \in {1, 2}, atyp \in {1, 3, 4, 9} : ClientWrites(Request5(cmd, atyp), "data") /\ UNCHANGED proved

ClientContinues ==
  /\ ~cfin
  /\ \/ step = "method" /\ Len(told) = 1 /\ told[1] = "login" /\ LogsIn
     \/ step = "method" /\ Len(told) = 1 /\ told[1] = "anonymous" /\ Requests
     \/ step = "status" /\ Len(told) = 2 /\ told[2] = "welcome" /\ Requests
  /\ UNCHANGED <<config, told, cdata, conn, upstream, at, worker>>

\* Data may follow the request at once.
ClientSends ==
  /\ step = "data" /\ ~cfin /\ cdata < MaxData
  /\ cin' = Append(cin, DataByte(cdata + 1)) /\ cdata' = cdata + 1
  /\ UNCHANGED <<config, cfin, step, proved, told, conn, upstream, at, worker>>

ClientCloses ==
  /\ ~cfin /\ cfin' = TRUE
  /\ UNCHANGED <<config, cin, step, proved, cdata, told, conn, upstream, at, worker>>

-----------------------------------------------------------------------------
(* The handshake with the client: handshake, handshake4, handshake5.        *)

\* How many bytes the recv of each place asks for.
Need ==
  CASE at \in {"version", "uid", "nauth"} -> 1
    [] at = "request4" -> 7
    [] at \in {"auth", "port"} -> 2
    [] at = "request5" -> 5
    [] at = "ip4" -> 3
    [] at = "ip6" -> 15
    [] at \in {"methods", "login", "pass", "domain"} -> need
ClientPlaces == {"version", "uid", "nauth", "request4", "auth", "port", "request5", "ip4", "ip6",
                 "methods", "login", "pass", "domain"}

Reads(place) == at = place /\ Len(cin) >= Need
Consume == cin' = Drop(cin, Need)
Tell(answer) == told' = Append(told, answer)
ToClient == <<config, cfin, step, proved, cdata, conn, upstream, hop, pkt, released>>

Version ==
  /\ Reads("version") /\ Consume
  /\ at' = IF cin[1] = 4 /\ 4 \in allow THEN "request4"
           ELSE IF cin[1] = 5 /\ 5 \in allow THEN "nauth" ELSE "gone"
  /\ UNCHANGED <<ToClient, told, need, name, dest>>

ConnectCommand4 ==
  /\ Reads("request4") /\ Consume
  /\ at' = IF cin[1] = 1 THEN "uid" ELSE "gone"
  /\ dest' = "ip4"
  /\ UNCHANGED <<ToClient, told, need, name>>

\* A mutant: only a zero ends the user id.
UserIdUnbounded ==
  /\ Reads("uid") /\ Consume
  /\ IF cin[1] # 0
     THEN name' = Append(name, cin[1]) /\ UNCHANGED <<at, told>>
     ELSE UNCHANGED name /\ at' = "gone" /\ Tell("refused")
  /\ UNCHANGED <<ToClient, need, dest>>

\* One byte of the user id; a zero ends it, and so does its length.
UserId ==
  /\ Reads("uid") /\ Consume
  /\ IF cin[1] # 0 /\ Len(name) <= UidMax
     THEN name' = Append(name, cin[1]) /\ UNCHANGED <<at, told>>
     ELSE /\ UNCHANGED name
          /\ IF name = <<Right>> THEN at' = "connect" /\ UNCHANGED told
                                 ELSE at' = "gone" /\ Tell("refused")
  /\ UNCHANGED <<ToClient, need, dest>>

NumAuth ==
  /\ Reads("nauth") /\ Consume
  /\ need' = cin[1] /\ at' = "methods"
  /\ UNCHANGED <<ToClient, told, name, dest>>

\* rauth: anonymous access if it is offered and allowed, else the login if there is one.
Method(offered) ==
  IF 0 \in offered /\ anon THEN "anonymous" ELSE IF 2 \in offered /\ login THEN "login" ELSE "unacceptable"

Methods ==
  LET m == Method({cin[i] : i \in 1..need})
  IN  /\ Reads("methods") /\ Consume
      /\ Tell(m)
      /\ at' = CASE m = "anonymous" -> "request5" [] m = "login" -> "auth" [] OTHER -> "gone"
      /\ UNCHANGED <<ToClient, need, name, dest>>

AuthHeader ==
  /\ Reads("auth") /\ Consume
  /\ need' = 1 + cin[2] /\ at' = IF cin[1] = 1 THEN "login" ELSE "gone"
  /\ UNCHANGED <<ToClient, told, name, dest>>

Login ==
  /\ Reads("login") /\ Consume
  /\ name' = SubSeq(cin, 1, need - 1) /\ need' = cin[need]
  /\ at' = "pass"
  /\ UNCHANGED <<ToClient, told, dest>>

\* A mutant: the password is read and not compared.
PasswordRead ==
  /\ Reads("pass") /\ Consume
  /\ Tell("welcome") /\ at' = "request5"
  /\ UNCHANGED <<ToClient, need, name, dest>>

Password ==
  /\ Reads("pass") /\ Consume
  /\ IF name = <<Right>> /\ SubSeq(cin, 1, need) = <<Right>>
     THEN Tell("welcome") /\ at' = "request5"
     ELSE Tell("unknown") /\ at' = "gone"
  /\ UNCHANGED <<ToClient, need, name, dest>>

\* The first byte of the address comes with the request; for a domain it is its length.
ConnectCommand5 ==
  /\ Reads("request5") /\ Consume
  /\ need' = cin[5]
  /\ IF cin[1] # 5 \/ cin[2] # 1
     THEN Tell("refused") /\ at' = "gone" /\ UNCHANGED dest
     ELSE /\ UNCHANGED told
          /\ dest' = CASE cin[4] = 1 -> "ip4" [] cin[4] = 3 -> "domain" [] cin[4] = 4 -> "ip6"
                       [] OTHER -> "none"
          /\ at' = IF dest' = "none" THEN "port" ELSE dest'
  /\ UNCHANGED <<ToClient, name>>

Address ==
  /\ at \in {"ip4", "ip6", "domain"} /\ Reads(at) /\ Consume
  /\ at' = "port"
  /\ UNCHANGED <<ToClient, told, need, name, dest>>

Port ==
  /\ Reads("port") /\ Consume
  /\ at' = "connect"
  /\ UNCHANGED <<ToClient, told, need, name, dest>>

\* A mutant: the end of the stream shows only when there is nothing before it.
ClientCutUnseen ==
  /\ at \in ClientPlaces /\ cin = <<>> /\ Need > 0 /\ cfin
  /\ at' = "gone"
  /\ IF at = "request5" THEN Tell("refused") ELSE UNCHANGED told
  /\ UNCHANGED <<config, client, conn, upstream, worker>>

\* recv fails: the handshake returns, and only a SOCKS 5 request that is cut off is answered.
ClientCut ==
  /\ at \in ClientPlaces /\ Len(cin) < Need /\ cfin
  /\ at' = "gone"
  /\ IF at = "request5" THEN Tell("refused") ELSE UNCHANGED told
  /\ UNCHANGED <<config, client, conn, upstream, worker>>

-----------------------------------------------------------------------------
(* worker and handler::connect: the connection to the target or to the first *)
(* proxy, and prepare of one proxy after another.                           *)

ToUpstream == <<config, client, told, ufin, granted, odd, udata, need, name, dest, released>>

\* A mutant: the client is not told.
RefuseSilently == at' = "gone" /\ UNCHANGED told /\ released' = TRUE

Refuse == at' = "gone" /\ Tell("refused") /\ released' = TRUE
Refused == Refuse /\ UNCHANGED <<config, client, conn, upstream, need, name, dest, hop, pkt>>

\* What the proxy of this hop is to reach: the next one, which has an IPv4 address, or the target.
Aim == IF hop = Len(chain) THEN dest ELSE "ip4"
Answering == {i \in 1..Len(chain) : chain[i] # "ss"}

Connect ==
  /\ at = "connect"
  /\ chain = <<>> => dest \notin {"none", "ip6"}
  /\ IF chain = <<>> THEN conn' = "target" /\ at' = "grant" /\ UNCHANGED hop
                     ELSE conn' = "proxy" /\ at' = "prepare" /\ hop' = 1
  /\ UNCHANGED <<ToUpstream, uin, asked, pkt>>

\* The name does not resolve, or nothing answers at the address; an IPv6 address is always out of
\* reach, tcp_pipe::connect makes an AF_INET socket (netkit.cpp:256).
ConnectFails == at = "connect" /\ Refused

\* A hop is through: the next one, or the bridge.
NextHop == IF hop < Len(chain) THEN at' = "prepare" /\ hop' = hop + 1 ELSE at' = "grant" /\ UNCHANGED hop

\* Every prepare refuses what is no address; SOCKS 4 also what does not resolve.
PrepareFails ==
  /\ at = "prepare"
  /\ Aim = "none" \/ (chain[hop] = "socks4" /\ Aim = "domain")
  /\ Refused

Prepare4 ==
  /\ at = "prepare" /\ chain[hop] = "socks4" /\ Aim # "none"
  /\ asked' = "connect4" /\ at' = "answer4"
  /\ UNCHANGED <<ToUpstream, conn, uin, hop, pkt>>

Prepare5 ==
  /\ at = "prepare" /\ chain[hop] \in {"socks5", "socks5auth"} /\ Aim # "none"
  /\ asked' = "greet" /\ pkt' = <<5, 1>> /\ at' = "method"
  /\ UNCHANGED <<ToUpstream, conn, uin, hop>>

\* packet is sized for IPv4: of an IPv6 address only the first bytes are sent.
Whole(request) == IF Aim = "ip6" THEN "part" ELSE request
Reached == IF Aim # "ip6" /\ hop = Len(chain) THEN "target" ELSE conn

\* Shadowsocks waits for no answer.
PrepareSs ==
  /\ at = "prepare" /\ chain[hop] = "ss" /\ Aim # "none"
  /\ asked' = Whole("none") /\ conn' = Reached
  /\ NextHop
  /\ UNCHANGED <<ToUpstream, uin, pkt>>

-----------------------------------------------------------------------------
(* The answers of a SOCKS proxy, as prepare reads them.                     *)

UpNeed ==
  CASE at = "answer4" -> 8
    [] at \in {"method", "status", "reply", "bound"} -> 2
    [] at = "bound4" -> 6
    [] at = "bound6" -> 18
    [] at = "blen" -> 1
    [] at = "bdomain" -> need
UpPlaces == {"answer4", "method", "status", "reply", "bound", "bound4", "bound6", "blen", "bdomain"}

UpReads(place) == at = place /\ Len(uin) >= UpNeed
UpConsume == uin' = Drop(uin, UpNeed)
FromUpstream == <<config, client, ufin, granted, odd, udata, conn, name, dest>>
\* After a recv of this answer the proxy goes on, or refuses.
Judge(good, Go) ==
  \/ good /\ Go /\ UNCHANGED <<told, released>>
  \/ ~good /\ Refuse /\ UNCHANGED <<asked, hop>>

Answer4 ==
  /\ UpReads("answer4") /\ UpConsume
  /\ Judge(uin[1] = 0 /\ uin[2] = 90, NextHop /\ UNCHANGED asked)
  /\ UNCHANGED <<FromUpstream, need, pkt>>

\* connect5 is written over the packet: its first bytes are the version and the command.
Connect5 == asked' = Whole("connect5") /\ at' = "reply" /\ UNCHANGED hop

Wanted == IF chain[hop] = "socks5auth" THEN 2 ELSE 0

MethodAnswer ==
  /\ UpReads("method") /\ UpConsume
  /\ Judge(uin[1] = 5 /\ uin[2] = Wanted,
           IF Wanted = 0 THEN Connect5 ELSE asked' = "login" /\ at' = "status" /\ UNCHANGED hop)
  /\ pkt' = <<5, 1>>
  /\ UNCHANGED <<FromUpstream, need>>

LoginAnswer ==
  /\ UpReads("status") /\ UpConsume
  /\ Judge(uin[2] = 0, Connect5)
  /\ pkt' = <<5, 1>>
  /\ UNCHANGED <<FromUpstream, need>>

\* A recv of the answer's parts that fails leaves packet as it was: the code tests rb, the
\* result of the first recv.
Part ==
  \/ Len(uin) >= UpNeed /\ UpConsume /\ pkt' = SubSeq(uin, 1, 2)
  \/ Len(uin) < UpNeed /\ ufin /\ UNCHANGED <<uin, pkt>>

\* Mutants: the answer is judged by its version only; its tail is left in the
\* stream; an IPv6 address in it is not expected.
ReplyAnyCode ==
  /\ at = "reply" /\ Part
  /\ Judge(pkt'[1] = 5, at' = "bound" /\ UNCHANGED <<asked, hop>>)
  /\ UNCHANGED <<FromUpstream, need>>
BoundNotRead ==
  /\ at = "bound" /\ Part
  /\ Judge(pkt'[2] \in {1, 3, 4}, NextHop /\ UNCHANGED asked)
  /\ UNCHANGED <<FromUpstream, need>>

Reply ==
  /\ at = "reply" /\ Part
  /\ Judge(pkt' = <<5, 0>>, at' = "bound" /\ UNCHANGED <<asked, hop>>)
  /\ UNCHANGED <<FromUpstream, need>>

BoundIp4Only ==
  /\ at = "bound" /\ Part
  /\ Judge(pkt'[2] \in {1, 3},
           at' = (IF pkt'[2] = 1 THEN "bound4" ELSE "blen") /\ UNCHANGED <<asked, hop>>)
  /\ UNCHANGED <<FromUpstream, need>>

Bound ==
  /\ at = "bound" /\ Part
  /\ Judge(pkt'[2] \in {1, 3, 4},
           /\ at' = CASE pkt'[2] = 1 -> "bound4" [] pkt'[2] = 3 -> "blen" [] pkt'[2] = 4 -> "bound6"
           /\ UNCHANGED <<asked, hop>>)
  /\ UNCHANGED <<FromUpstream, need>>

BoundAddress ==
  /\ at \in {"bound4", "bound6"} /\ UpReads(at) /\ UpConsume
  /\ NextHop
  /\ UNCHANGED <<FromUpstream, told, asked, need, pkt, released>>

BoundLength ==
  /\ UpReads("blen") /\ UpConsume
  /\ need' = uin[1] + 2 /\ at' = "bdomain"
  /\ UNCHANGED <<FromUpstream, told, asked, hop, pkt, released>>

\* recv of a positive size takes what has come, which may be less.
BoundDomain ==
  /\ at = "bdomain"
  /\ \E k \in 0..Smaller(need, Len(uin)) :
       uin' = Drop(uin, k) /\ Judge(k = need, NextHop /\ UNCHANGED asked)
  /\ UNCHANGED <<FromUpstream, need, pkt>>

Behind == IF hop > 1 THEN chain[hop - 1] ELSE "none"

\* The other recvs fail when upstream has closed.  Through a cipher an exact recv asks the
\* inner pipe again and again, which may not notice the end: the thread spins.
UpCut ==
  /\ at \in UpPlaces \ {"bdomain", "reply", "bound"} /\ Len(uin) < UpNeed /\ ufin
  /\ Refused
UpSpins ==
  /\ at \in UpPlaces \ {"bdomain"} /\ Len(uin) < UpNeed /\ ufin /\ Behind = "ss"
  /\ at' = "spin"
  /\ UNCHANGED <<config, client, told, conn, upstream, worker>>

\* The client is answered, and the two pipes go to the bridge.
Grant ==
  /\ at = "grant"
  /\ Tell("granted") /\ at' = "bridged"
  /\ UNCHANGED <<config, client, conn, upstream, worker>>

-----------------------------------------------------------------------------
(* The proxies and the target.  An answer comes whole, or upstream closes   *)
(* inside it.                                                               *)

Bounds == {<<1>> \o Zeros(4), <<3, 1, 0>>, <<4>> \o Zeros(16)}
Tail5 == {<<0>> \o b \o <<0, 80>> : b \in Bounds}
Grants == IF asked = "connect4" THEN {<<0, 90>> \o Zeros(6)} ELSE {<<5, 0>> \o t : t \in Tail5}
Refusals == IF asked = "connect4" THEN {<<0, 91>> \o Zeros(6)} ELSE {<<5, 1, 0, 1>> \o Zeros(6)}

UpWrites(m) ==
  \E k \in 0..Len(m) :
    uin' = uin \o SubSeq(m, 1, k) /\ ufin' = (k < Len(m)) /\ asked' = "none"

UpAnswers ==
  /\ ~ufin
  /\ \/ /\ asked = "greet" /\ UNCHANGED <<conn, granted, odd>>
        /\ \E m \in {Wanted, 255} : UpWrites(<<5, m>>)
     \/ /\ asked = "login" /\ UNCHANGED <<conn, granted, odd>>
        /\ \E m \in {0, 1} : UpWrites(<<1, m>>)
     \/ /\ asked \in {"connect4", "connect5"} /\ UNCHANGED <<conn, granted, odd>>
        /\ \E m \in Refusals : UpWrites(m)
     \/ /\ asked \in {"connect4", "connect5"}
        /\ granted' = granted \union {hop}
        /\ conn' = IF hop = Len(chain) THEN "target" ELSE conn
        /\ \E m \in Grants : UpWrites(m) /\ odd' = (odd \/ m[4] = 3)
  /\ UNCHANGED <<config, client, told, udata, at, worker>>

TargetSends ==
  /\ conn = "target" /\ ~ufin /\ udata < MaxData
  /\ uin' = Append(uin, DataByte(udata + 1)) /\ udata' = udata + 1
  /\ UNCHANGED <<config, client, told, conn, ufin, asked, granted, odd, at, worker>>

UpCloses ==
  /\ conn # "none" /\ ~ufin /\ ufin' = TRUE
  /\ UNCHANGED <<config, client, told, conn, uin, asked, granted, odd, udata, at, worker>>

-----------------------------------------------------------------------------
Client == ClientGreets \/ ClientContinues \/ ClientSends \/ ClientCloses
Upstream == UpAnswers \/ TargetSends \/ UpCloses

Handshake ==
  \/ Version \/ ConnectCommand4 \/ UserId \/ NumAuth \/ Methods \/ AuthHeader \/ Login \/ Password
  \/ ConnectCommand5 \/ Address \/ Port \/ ClientCut
Chain ==
  \/ Connect \/ ConnectFails \/ PrepareFails \/ Prepare4 \/ Prepare5 \/ PrepareSs
  \/ Answer4 \/ MethodAnswer \/ LoginAnswer \/ Reply \/ Bound \/ BoundAddress \/ BoundLength \/ BoundDomain
  \/ UpCut \/ UpSpins \/ Grant
Worker == Handshake \/ Chain

Next == Client \/ Upstream \/ Worker

Spec == Init /\ [][Next]_vars

\* The thread runs, and whoever it waits for closes in the end if it does nothing else: recv of
\* an exact length has no limit of its own.
Fairness == WF_vars(Worker) /\ WF_vars(ClientCloses) /\ WF_vars(UpCloses)
FairSpec == Spec /\ Fairness

-----------------------------------------------------------------------------
(* Properties.                                                              *)

\* Types of the variables.
TypeOK ==
  /\ allow \subseteq {4, 5} /\ login \in BOOLEAN /\ anon \in BOOLEAN /\ chain \in Chains
  /\ cin \in Seq(Nat) /\ cfin \in BOOLEAN /\ proved \in BOOLEAN /\ cdata \in 0..MaxData
  /\ step \in {"greet", "method", "status", "data", "silent"}
  /\ told \in Seq({"anonymous", "login", "unacceptable", "welcome", "unknown", "refused", "granted"})
  /\ conn \in {"none", "proxy", "target"}
  /\ uin \in Seq(Nat) /\ ufin \in BOOLEAN /\ udata \in 0..MaxData
  /\ asked \in {"none", "part", "connect4", "greet", "login", "connect5"}
  /\ granted \subseteq Answering /\ odd \in BOOLEAN
  /\ at \in ClientPlaces \union UpPlaces \union {"connect", "prepare", "grant", "bridged", "gone", "spin"}
  /\ need \in Nat /\ name \in Seq(Nat) /\ Len(name) <= UidMax + 1
  /\ dest \in {"none", "ip4", "ip6", "domain"} /\ hop \in 0..Len(chain)
  /\ pkt \in Nat \X Nat /\ released \in BOOLEAN

\* The client is told that it is through only when every SOCKS proxy of the chain has said so
\* of its hop.  prepare tests the results of the recvs of the answer by the variable of an
\* earlier one (rb for rb2), so a recv that fails leaves it to the old bytes of packet to refuse.
GrantedMeansReached == at = "bridged" => granted = Answering

\* What reaches the bridge is the data and nothing else: every byte of both handshakes has been
\* consumed, and no byte of data that came in the same segment.
DataIntact ==
  at = "bridged" => cin = [k \in 1..cdata |-> DataByte(k)] /\ uin = [k \in 1..udata |-> DataByte(k)]

\* Nobody's request is read, or carried out, without the login or the user id that the handler
\* asks for: only an anonymous SOCKS 5 client where those are allowed.
AuthRespected ==
  at \in {"request5", "ip4", "ip6", "domain", "port", "connect", "prepare", "grant", "bridged"} \union UpPlaces
    => proved \/ (anon /\ told # <<>> /\ told[1] = "anonymous")

\* A client whose request has been taken up gets one final answer, the one that fits what
\* becomes of its connection, and nothing after it.
Final == {"granted", "refused"}
AnsweredOnce ==
  /\ \A i \in 1..Len(told) : told[i] \in Final => i = Len(told)
  /\ at = "bridged" => told # <<>> /\ told[Len(told)] = "granted"
  /\ at = "gone" /\ released => told # <<>> /\ told[Len(told)] = "refused"

\* A way that stands is used: when every proxy has granted and nobody has closed, the worker
\* refuses only for the domain in an answer, which it reads with a recv that may fall short.
GrantUsed == at = "gone" /\ released /\ granted = Answering /\ conn = "target" /\ ~ufin => odd

\* The handshake ends, unless it hangs on a proxy behind a Shadowsocks hop: no recv misses the
\* end of the stream it waits for.
HandshakeEnds == <>(at \in {"gone", "bridged", "spin"})

=============================================================================
