-------------------------------- MODULE Relay --------------------------------
(***************************************************************************)
(* The data path of one bridged pair in the Linux build: the thread's      *)
(* pipe_waiter, bridged::process, and tcp_pipe's send and recv with their  *)
(* buffers (netkit.cpp, handlers.cpp).  Pipe 1 was accepted by a listener  *)
(* and its socket blocks; pipe 2 was made by connect, which sets           *)
(* O_NONBLOCK.  A byte is the number of its place in its stream, so that   *)
(* loss, duplication and reordering all show.                              *)
(*                                                                         *)
(* The kernel's two queues per socket and the peers behind them are the    *)
(* environment: a peer sends, reads, ends its stream (FIN) or resets.      *)
(* recv and send between two kernel events are one step; a ::send that     *)
(* blocks is a place of its own.  What a slot's end means for the other    *)
(* slots of the thread is Bridge's subject.                                *)
(***************************************************************************)
EXTENDS Integers, Sequences, Buffers

CONSTANTS
  MaxSent,    \* bound: bytes each peer sends
  KinCap,     \* capacity of the kernel's receive queue
  KoutCap,    \* capacity of the kernel's send queue (send_buffer_size)
  RcvCap,     \* size of rcvbuf's ring; below BRIDGE_BUFFER_SIZE, as 16384*3 < 65536
  Margin,     \* room in rcvbuf that rcv_all does not ask the kernel for (1300 bytes)
  Blocking,   \* pipes whose socket blocks
  Prefetch,   \* bound: bytes of pipe 1 that the handshake's recv drew into rcvbuf
  MayEnd,     \* pipes whose peer may end its stream
  MayReset    \* pipes whose peer may reset the connection

Pipes == {1, 2}
Other(p) == 3 - p

ASSUME CapsAssumption ==
  /\ MaxSent \in [Pipes -> Nat]
  /\ {KinCap, KoutCap, RcvCap} \subseteq Nat \ {0}
  /\ Margin \in 0..RcvCap - 1
  /\ Prefetch \in 0..RcvCap - 1 /\ Prefetch <= MaxSent[1]
ASSUME PipesAssumption == Blocking \subseteq Pipes /\ MayEnd \subseteq Pipes /\ MayReset \subseteq Pipes

VARIABLES
  sent,    \* per pipe: bytes its peer has sent
  kin,     \* per pipe: the kernel's receive queue
  kout,    \* per pipe: the kernel's send queue, up to the peer's read
  arrived, \* per pipe: bytes its peer has read
  fin,     \* pipes whose peer has ended its stream
  reset,   \* pipes whose peer has reset the connection
  rcvbuf,  \* per pipe: tcp_pipe::rcvbuf
  outbuf,  \* per pipe: tcp_pipe::outbuf
  ready,   \* pipes whose waitable has READY_SYSTEM
  full,    \* pipes whose waitable has bufferfull
  at,      \* the worker: "wait", "process", "send" (a ::send that blocks) or "dead"
  mask,    \* the mask that wait returned, less the bits process has consumed
  hold     \* the bytes in process's buffer during a ::send that blocks, and their pipe

peers == <<sent, arrived, fin, reset>>
kernel == <<kin, kout>>
buffers == <<rcvbuf, outbuf>>
waitables == <<ready, full>>
vars == <<peers, kernel, buffers, waitables, at, mask, hold>>

NoMask == [read |-> {}, write |-> {}, close |-> {}]
NoHold == [to |-> 1, data |-> <<>>]
Bytes(n) == [i \in 1..n |-> i]

Held(p) == RingContents(rcvbuf[p], RcvCap)
Room(p) == FreeSize(rcvbuf[p], RcvCap)
NewRing == EmptyRing(RcvCap)

\* Bytes drawn with the handshake lie behind it in rcvbuf.
Init ==
  /\ sent \in {s \in [Pipes -> 0..Prefetch] : s[2] = 0}
  /\ rcvbuf = [p \in Pipes |-> Peeked(Fill(NewRing, RcvCap, <<Unused>> \o Bytes(sent[p])), RcvCap, 1)]
  /\ kin = [p \in Pipes |-> <<>>] /\ kout = [p \in Pipes |-> <<>>]
  /\ outbuf = [p \in Pipes |-> <<>>]
  /\ arrived = [p \in Pipes |-> 0] /\ fin = {} /\ reset = {} /\ ready = {} /\ full = {}
  /\ at = "wait" /\ mask = NoMask /\ hold = NoHold

Space(p) == KoutCap - Len(kout[p])
Readable(p) == kin[p] # <<>> \/ p \in fin \cup reset

-----------------------------------------------------------------------------
(* The peers.                                                               *)

PeerSends(p) ==
  /\ at # "dead" /\ p \notin fin \cup reset
  /\ sent[p] < MaxSent[p] /\ Len(kin[p]) < KinCap
  /\ sent' = [sent EXCEPT ![p] = @ + 1]
  /\ kin' = [kin EXCEPT ![p] = Append(@, sent[p] + 1)]
  /\ UNCHANGED <<kout, arrived, fin, reset, buffers, waitables, at, mask, hold>>

PeerReads(p) ==
  /\ p \notin reset /\ kout[p] # <<>>
  /\ kout' = [kout EXCEPT ![p] = Tail(@)]
  /\ arrived' = [arrived EXCEPT ![p] = @ + 1]
  /\ UNCHANGED <<sent, fin, reset, kin, buffers, waitables, at, mask, hold>>

PeerEnds(p) ==
  /\ p \in MayEnd \ (fin \cup reset) /\ at # "dead"
  /\ fin' = fin \cup {p}
  /\ UNCHANGED <<sent, arrived, reset, kernel, buffers, waitables, at, mask, hold>>

PeerResets(p) ==
  /\ p \in MayReset \ reset /\ at # "dead"
  /\ reset' = reset \cup {p}
  /\ UNCHANGED <<sent, arrived, fin, kernel, buffers, waitables, at, mask, hold>>

-----------------------------------------------------------------------------
(* pipe_waiter: registration and wait.  A timeout or a signal changes nothing here. *)

\* wait has its answer: the pipes found readable become ready.
WaitReturns(read, write, close, found) ==
  /\ mask' = [read |-> read, write |-> write, close |-> close]
  /\ ready' = ready \cup found
  /\ at' = "process"
  /\ UNCHANGED <<peers, kernel, buffers, full, hold>>

\* A ready pipe was registered: wait does not sleep.  checkall asks for the bytes only, it does
\* not see the end of a stream, and it takes a full pipe for writable whatever the queue holds:
\* send_buffer_size-rb is unsigned, zero only if both are equal.
CheckAll ==
  /\ at = "wait" /\ ready # {}
  /\ \E write \in SUBSET full :
       LET found == {p \in Pipes : kin[p] # <<>>}
       IN  WaitReturns(ready \cup found, write, {}, found)

\* A mutant: only POLLIN is asked for.
PollReadsOnly ==
  /\ at = "wait" /\ ready = {}
  /\ LET found == {p \in Pipes : Readable(p)}
     IN  found # {} /\ WaitReturns(found, {}, reset, found)

\* A mutant: poll reports readable pipes without making them ready.
PollNotReady ==
  /\ at = "wait" /\ ready = {}
  /\ LET found == {p \in Pipes : Readable(p)}
         writable == {p \in full : Space(p) > 0}
     IN  /\ found \cup writable # {}
         /\ WaitReturns(found, writable, {}, {})

\* poll: POLLOUT is asked for only where bufferfull is set.
Poll ==
  /\ at = "wait" /\ ready = {}
  /\ LET found == {p \in Pipes : Readable(p)}
         writable == {p \in full : Space(p) > 0}
     IN  /\ found \cup writable # {}
         /\ WaitReturns(found, writable, reset, found)

-----------------------------------------------------------------------------
(* tcp_pipe::recv and rcv_all, for the two read sizes process asks for.     *)

\* send(nullptr, 0): one byte while the other side has unsent data.
OneByte(p) == outbuf[Other(p)] # <<>>

\* recv looks at the socket when rcvbuf holds less than it was asked for.
AsksKernel(p) == OneByte(p) => Held(p) = <<>>

\* What rcv_all takes, unless rcvbuf is nearly full: all the kernel has, as far as there is room.
Taken(p) == IF AsksKernel(p) /\ Room(p) > Margin THEN Smaller(Len(kin[p]), Room(p)) ELSE 0

\* rcv_all meets the end of the stream: a ready pipe without bytes, with room for them.
RecvFails(p) ==
  AsksKernel(p) /\ p \in ready /\ kin[p] = <<>> /\ Room(p) > Margin /\ p \in fin \cup reset

\* rcvbuf after rcv_all, and what recv hands over of it.
Filled(p) == Fill(rcvbuf[p], RcvCap, SubSeq(kin[p], 1, Taken(p)))
Handed(p) == IF OneByte(p) THEN 1 ELSE RcvCap
Received(p, ring) == SubSeq(RingContents(ring, RcvCap), 1, Smaller(Handed(p), DataSize(ring, RcvCap)))

\* A mutant: clear_ready forgotten after ::recv.
ClearReadyNot(p) == ready' = ready

\* READY_SYSTEM goes with every successful ::recv.
ClearReady(p) == ready' = IF Taken(p) > 0 THEN ready \ {p} ELSE ready

\* The state after recv, apart from what send does with the bytes.
Recv(p, ring) ==
  /\ kin' = [kin EXCEPT ![p] = SubSeq(@, Taken(p) + 1, Len(@))]
  /\ rcvbuf' = [rcvbuf EXCEPT ![p] = Peeked(ring, RcvCap, Handed(p))]
  /\ ClearReady(p)

-----------------------------------------------------------------------------
(* tcp_pipe::send on a socket that does not block.                          *)

\* A mutant: what ::send returns is not looked at.
AcceptedAll(p, n) == {n}

\* How many of n bytes the kernel takes: none when its queue is full, else at least one.
\* (With unsent data only the first chunk of outbuf is offered.)
Accepted(p, n) == IF Space(p) <= 0 \/ n = 0 THEN {0} ELSE 1..Smaller(Space(p), n)

\* Unsent data goes first: the new bytes are queued behind it.
Offered(p, data) == outbuf[p] \o data

\* A mutant: bufferfull is not set for what is left.
SentUnmarked(p, data, n) ==
  LET all == Offered(p, data)
      rest == SubSeq(all, n + 1, Len(all))
  IN  /\ kout' = [kout EXCEPT ![p] = @ \o SubSeq(all, 1, n)]
      /\ outbuf' = [outbuf EXCEPT ![p] = rest]
      /\ full' = IF rest = <<>> THEN full \ {p} ELSE full

\* The kernel takes n bytes, outbuf keeps the rest.  bufferfull changes only where outbuf
\* becomes empty or ceases to be.
Sent(p, data, n) ==
  LET all == Offered(p, data)
      rest == SubSeq(all, n + 1, Len(all))
  IN  /\ kout' = [kout EXCEPT ![p] = @ \o SubSeq(all, 1, n)]
      /\ outbuf' = [outbuf EXCEPT ![p] = rest]
      /\ full' = CASE outbuf[p] # <<>> /\ rest = <<>> -> full \ {p}
                   [] outbuf[p] = <<>> /\ rest # <<>> -> full \cup {p}
                   [] OTHER -> full

\* The mask after have_read, and after send: SEND_OK takes the write bit of that pipe.
ReadTaken(p) == [mask EXCEPT !.read = @ \ {p}]
WriteRemoved(p, m, n, len) == IF n = len THEN [m EXCEPT !.write = @ \ {p}] ELSE m

-----------------------------------------------------------------------------
(* bridged::process.                                                        *)

\* SLOT_DEAD: the slot is cleared, both pipes are closed and their buffers gone.
Die ==
  /\ at' = "dead"
  /\ rcvbuf' = [p \in Pipes |-> NewRing] /\ outbuf' = [p \in Pipes |-> <<>>]
  /\ ready' = {} /\ full' = {} /\ mask' = NoMask /\ hold' = NoHold
  /\ kin' = [p \in Pipes |-> <<>>]
  /\ UNCHANGED <<peers, kout>>

Closed == at = "process" /\ mask.close # {} /\ Die

\* The direction whose turn it is: pipe 1 before pipe 2.  Its pipe has bytes in rcvbuf or is ready,
\* so that by ReadyHasData recv never returns 0 here.
Reads(p) == at = "process" /\ mask.close = {} /\ p \in mask.read /\ (p = 2 => 1 \notin mask.read)

DirFails(p) == Reads(p) /\ RecvFails(p) /\ Die

\* A ::send to a reset connection fails.  (When the stream had ended before, the error is EPIPE
\* and SIGPIPE, which the program leaves at its default, ends all pairs and not only this one.)
DirSendFails(p) ==
  /\ Reads(p) /\ ~RecvFails(p) /\ Other(p) \in reset
  /\ Received(p, Filled(p)) # <<>>
  /\ Die

DirSends(p) ==
  LET q == Other(p)
  IN  /\ Reads(p) /\ ~RecvFails(p) /\ q \notin reset \cup Blocking
      /\ \E ring \in {Filled(p)} : \E got \in {Received(p, ring)} :
           LET len == Len(Offered(q, got))
           IN  /\ got # <<>> /\ Recv(p, ring)
               /\ \E n \in Accepted(q, len) :
                    Sent(q, got, n) /\ mask' = WriteRemoved(q, ReadTaken(p), n, len)
      /\ UNCHANGED <<peers, at, hold>>

\* A socket that blocks: the thread stays in ::send until the kernel has taken every byte.
DirBlocks(p) ==
  LET q == Other(p)
  IN  /\ Reads(p) /\ ~RecvFails(p) /\ q \in Blocking \ reset
      /\ \E ring \in {Filled(p)} :
           /\ Received(p, ring) # <<>> /\ Recv(p, ring)
           /\ hold' = [to |-> q, data |-> Received(p, ring)]
      /\ at' = "send" /\ mask' = ReadTaken(p)
      /\ UNCHANGED <<peers, kout, outbuf, full>>

SendContinues ==
  LET q == hold.to
      n == Smaller(Space(q), Len(hold.data))
      rest == SubSeq(hold.data, n + 1, Len(hold.data))
  IN  /\ at = "send" /\ q \notin reset /\ n > 0
      /\ kout' = [kout EXCEPT ![q] = @ \o SubSeq(hold.data, 1, n)]
      /\ IF rest # <<>>
         THEN hold' = [hold EXCEPT !.data = rest] /\ UNCHANGED <<at, mask>>
         ELSE hold' = NoHold /\ at' = "process" /\ mask' = [mask EXCEPT !.write = @ \ {q}]
      /\ UNCHANGED <<peers, kin, buffers, waitables>>

\* A reset wakes the ::send: it fails, or reports what it had taken before.
SendBreaks == at = "send" /\ hold.to \in reset /\ Die

SendFallsShort ==
  /\ at = "send" /\ hold.to \in reset
  /\ outbuf' = [outbuf EXCEPT ![hold.to] = hold.data]
  /\ full' = full \cup {hold.to}
  /\ hold' = NoHold /\ at' = "process"
  /\ UNCHANGED <<peers, kernel, rcvbuf, ready, mask>>

\* send(data, 0) for a write bit, after both directions.
Flushes(p) ==
  at = "process" /\ mask.close = {} /\ mask.read = {} /\ p \in mask.write /\ (p = 2 => 1 \notin mask.write)

FlushFails(p) == Flushes(p) /\ p \in reset /\ Die

Flush(p) ==
  /\ Flushes(p) /\ p \notin reset
  /\ \E n \in Accepted(p, Len(outbuf[p])) : Sent(p, <<>>, n)
  /\ mask' = [mask EXCEPT !.write = @ \ {p}]
  /\ UNCHANGED <<peers, kin, rcvbuf, ready, at, hold>>

\* process has consumed the pair's bits; the thread registers its slots again.
Again ==
  /\ at = "process" /\ mask = NoMask
  /\ at' = "wait"
  /\ UNCHANGED <<peers, kernel, buffers, waitables, mask, hold>>

-----------------------------------------------------------------------------
Peer(p) == PeerSends(p) \/ PeerReads(p) \/ PeerEnds(p) \/ PeerResets(p)

Process(p) ==
  \/ DirFails(p) \/ DirSendFails(p) \/ DirSends(p) \/ DirBlocks(p)
  \/ FlushFails(p) \/ Flush(p)

Worker ==
  \/ CheckAll \/ Poll
  \/ Closed \/ \E p \in Pipes : Process(p)
  \/ SendContinues \/ SendBreaks \/ SendFallsShort
  \/ Again

Next == Worker \/ \E p \in Pipes : Peer(p)

Spec == Init /\ [][Next]_vars

\* The thread runs, and both peers read what has come for them.
Fairness == WF_vars(Worker) /\ \A p \in Pipes : WF_vars(PeerReads(p))
FairSpec == Spec /\ Fairness

-----------------------------------------------------------------------------
(* Properties.                                                              *)

\* Every buffer holds bytes of one peer, rcvbuf and the kernel's queues stay within their
\* capacity, and process's bits belong to its pipes.
TypeOK ==
  /\ {sent, arrived} \subseteq [Pipes -> Nat] /\ \A p \in Pipes : sent[p] <= MaxSent[p]
  /\ {fin, reset, ready, full} \subseteq SUBSET Pipes
  /\ {kin, kout, outbuf} \subseteq [Pipes -> Seq(Nat)]
  /\ \A p \in Pipes : /\ Len(kin[p]) <= KinCap /\ Len(kout[p]) <= KoutCap
                      /\ {rcvbuf[p].start, rcvbuf[p].end} \subseteq 0..RcvCap
  /\ at \in {"wait", "process", "send", "dead"}
  /\ mask \in [read : SUBSET Pipes, write : SUBSET Pipes, close : SUBSET Pipes]
  /\ hold \in [to : Pipes, data : Seq(Nat)]

\* A ready pipe has bytes or its end in the kernel.  rcv_all takes the ready bit for a byte
\* (netkit.cpp:447): with a stale one ::recv on the accepted socket, which blocks, would stop
\* the thread with all its pairs.
ReadyHasData == \A p \in ready : Readable(p)

\* POLLOUT is asked for exactly while bytes are unsent; a socket that blocks has unsent bytes
\* only when its connection is reset, so a flush never blocks.
FullMeansUnsent ==
  /\ full = {p \in Pipes : outbuf[p] # <<>>}
  /\ full \cap Blocking \subseteq reset

\* The bytes of p's stream that have not arrived at the other end, the oldest first.
UnderWay(p) ==
  LET q == Other(p)
  IN  kout[q] \o (IF hold.to = q THEN hold.data ELSE <<>>) \o outbuf[q] \o Held(p) \o kin[p]

\* Through both kernel queues, rcvbuf, the buffer of process, outbuf and the flushes each
\* direction is one stream in order, nothing lost and nothing twice.
Abstract == INSTANCE Channel WITH
  Sides <- Pipes, open <- at # "dead", sent <- sent,
  received <- [p \in Pipes |-> arrived[Other(p)]], queue <- [p \in Pipes |-> UnderWay(p)]
ImplementsChannel == Abstract!Spec

\* What send could not get rid of goes out later, whatever the other direction does: POLLOUT,
\* checkall and the sends of later bytes between them never leave outbuf behind.
OutbufFlushed == \A p \in Pipes : outbuf[p] # <<>> ~> outbuf[p] = <<>>

\* The end of a stream or a reset ends the pair, also when bytes are still unread or the other
\* side is full.
EndNoticed == \A p \in Pipes : p \in fin \cup reset ~> at = "dead"

\* handlers.h:160, "sends all from pipe to out connection": with readers at both ends and
\* nobody closing, what was sent arrives.
AllRelayed == \A p \in Pipes : UnderWay(p) # <<>> ~> UnderWay(p) = <<>>
=============================================================================
