# A verification project for imconee

imconee is an intermediate connection engine: a TCP server that accepts
clients, learns where each wants to go (fixed target, SOCKS 4/5, Shadowsocks),
connects there, perhaps through a chain of upstream proxies, and relays bytes
both ways. This directory holds TLA+ models of its core, the TLC configurations
that check them on small instances, and theorems that the TLA+ proof system
checks for every value of the constants.

Own code is in `src/source/imconee` (about 10 000 lines); `src/source/botan` is
third-party cryptography kept in the repository. The repository has no tests.
File and line numbers below are relative to `src/source/imconee`.

## 1. The system

| Part | Files | State it keeps | Operations |
|---|---|---|---|
| read/write spin lock | `spinlock.h` | one 64-bit word: writer's thread id, nested writes, readers | lock/unlock, try forms, `syncvar` guards |
| engine and listeners | `engine.*`, `listener.*`, `main.cpp` | exit flag, number of live listeners; per listener its stage, `need_stop`, socket | construct, `working` once a second, `open`, `stop`, acceptor thread, signal |
| bridge pool of a handler | `handlers.h`, `handlers.cpp` 63-118, 184-281, 351-408 | linked list of `processing_thread`s under the state lock; per node up to 30 slots under a lock of their own | `bridge`, `tick`, `forward`, `close`, `try_add_bridge`, `stop` |
| relay data path | `handlers.cpp` 120-182, `netkit.cpp` 323-485, 751-996 | per pipe `rcvbuf`, `outbuf`, ready and full flags; mask of one wait | `process`, `send`, `recv`, `pipe_waiter::wait` |
| ring and chunk buffers | `tools.h` 969-1293 | indices into a ring; a list of chunks | append, peek, skip, confirm |
| Shadowsocks stream | `cipher_ss.*`, `handler_ss.cpp`, `proxy_ss.cpp` | nonces, partial chunk, decrypted bytes, busy counter | encipher, decipher, `crypto_pipe` send/recv/close |
| SOCKS server | `handlers.cpp` 410-737 | none between connections | the handshakes, answers |
| upstream proxies, connecting | `proxy.cpp`, `connect.cpp`, `handlers.cpp` 283-349 | none | `prepare` per proxy, `connect` along the chain |
| arena allocator | `mem.cpp` 125-254 | three free lists, each behind a lock bit | alloc, free, fallback |
| reference counts | `tools.h` 622-760 | atomic count | `shared_ptr` |
| addresses, DNS, configuration, logging, files | `netkit.cpp`, `loader.*`, `sts.*`, `logger.*`, `fsys.*` | none that others decide on | conversions |
| lock-free queue and list | `queue.h`, `list.h` | - | included nowhere |

How they meet. `main` builds the engine, which opens every listener; a listener
has an acceptor thread and owns one handler. For each accepted pipe the handler
starts a detached worker thread, which runs the handshake, connects, and calls
`bridge` with the two pipes. From there on the pair is shared state: it lives in
a slot of some `processing_thread`, whose owner is another worker perhaps.
`stop` runs on the main thread, through listener and handler, while all these
threads run. Everything shared is guarded by the spin lock of the first row,
through `syncvar`.

What is hard here:

* the lock itself, a compare-and-swap word with nesting and pending writers;
* `bridge` unlocks between publishing a node and filling it, and finds the node
  again by its address; `tick` waits and relays outside both locks with a slot
  count read before; slots move between threads and inside the array meanwhile;
* shutdown meets every one of those steps, in `accept`, in a wait, in a walk;
* the data path keeps bytes in two kernel queues and three buffers of its own,
  with two flags that tell the waiter what to look for, on one blocking and one
  non-blocking socket;
* a cipher with counted nonces over a stream that is cut anywhere, whose
  deciphered bytes the waiter cannot see;
* handshakes of many exact reads, whose lengths the peers name, through a chain
  of proxies, with data right behind the last message.

What makes each part correct: *lock*: exclusion, nothing lost in an unlock, a
pending writer is not overtaken. *Listeners*: after `stop` nobody uses the
listener, the program ends when told or when it has nothing to do. *Pool*: a
connected pair is served by exactly one live thread until it fails or the
program ends, and after `stop` by none. *Data path*: two byte streams, in order
and whole while the pair is open; nothing is left waiting; the thread never
blocks where others depend on it. *Buffers*: queues of bytes. *Shadowsocks*:
both ends count the same nonces however the stream is cut, and the plain stream
comes out. *Handshakes*: what follows the request is the client's data, all of
it; who is let through has proved what was asked; a refusal upstream is a
refusal downstream. *Arena*: an element is free or in one owner's hands.

## 2. Modules

| Module | Models | Role |
|---|---|---|
| `RWLock` | - | abstract read/write lock: who holds it, in which mode, how often |
| `SpinLock` | `spinlock.h` 203-340 | the lock word, one step per access to it; implements `RWLock` |
| `SpinLock_proofs` | | theorems about `SpinLock` |
| `Bridge` | the pool of one handler | list, slots, ticks, forwards, deletions, stop |
| `Bridge_proofs` | | theorems about `Bridge` that need only its own locked sections |
| `BridgeSlots_proofs` | | theorems about `Bridge` that need what `tick` knows between them |
| `Listener` | engine, listeners, acceptors | both builds, from construction to destruction |
| `Listener_proofs` | | theorems about `Listener` |
| `Channel` | - | abstract byte streams between the ends of a chain of pipes |
| `Buffers` | `circular_buffer`, `chunk_buffer` | both buffers as values |
| `Buffers_proofs` | | theorems about both |
| `Relay` | data path of one pair, Linux build | pipes, buffers, waiter, kernel, peers; implements `Channel` |
| `Relay_proofs` | | theorems about `Relay` |
| `CryptoPipe` | one direction of a Shadowsocks stream | sender, TCP, receiver; implements `Channel` |
| `CryptoPipe_proofs` | | theorems about `CryptoPipe` |
| `Socks` | one connection up to the bridge | client, worker, chain of proxies |
| `Socks_proofs` | | theorems about `Socks` |
| `MC_*` | | instances for TLC |

How they fit together. Every part uses the lock as `SpinLock` shows it to
behave: a locked section that does not wait inside is one step; where the code
keeps a lock across something that waits (`handler::stop`, the Linux
`tcp_listener::stop`, the acceptor's claim) the model has claim, drain and
release as steps. `Listener`'s `StopHandler` is one step because `Bridge`'s
`StopReturns` says it returns. `Bridge` takes what `process` makes of a pair
(relayed, failed, left bits in the mask) as a choice, whose inside is `Relay`.
`Socks` ends where `Bridge` begins (`at = "bridged"`); the bytes it leaves in
`rcvbuf` are `Prefetch` in `Relay`. A Shadowsocks pair is a `CryptoPipe` over a
chain that is one `Channel`, as `Relay` is. `Relay`'s
ring and `CryptoPipe`'s deciphered bytes are `Buffers`; an `outbuf` is a sequence.

### SpinLock

`word` is the lock word as a record `owner`, `writes`, `reads`. Every load and
every interlocked operation is an action of its own (`LockWriteLoad`,
`LockWriteCas`, `LockWriteDrain`, ...), `tmp` is the local copy, `pc` the place
between two accesses. `wdepth` and `rdepth` count what a thread has been
granted: that is the abstract state. `NestReads` and `Upgrade` say whether the
users nest read locks or ask for the write lock while reading, which the comment
at `spinlock.h:205` forbids; the proofs cover every use, liveness is checked
without both.

### Bridge

One action per locked section or per node of a walk (the header of the module
gives the rule); `WalkDelete`, `WalkTry` for the walk in `bridge`, `Prepare` ..
`Compact` for `tick` with its locals in `tick[w]`, `Forward`, `Unlink`, and
`StopBegin`, `CloseNode`, `StopUnlock`, `StopReturn` for the handler's stop. Two
loops are given by what they come to: `Register` (the registration loop with its
replacement by the last slot) and `Closed` (compaction). A pair has the name of
its worker, a node that of its address, and a new node may have any address that is
not on the list: `bridge` frees a node at `handlers.cpp:77` and allocates one at 93.
A worker keeps the address of a node that another one has deleted, so that `Unlink`
may hit a node made later at this address, and the worker of that one goes on in
freed memory (`UseFreed`, or what it still finds there). `crashed` is the end of the
process: a null pipe (`PrepareNull`, `ProcessNull`, `Forward` with an index of -1), freed
memory, pipes that `close` frees while a wait has raw pointers to them (`Dangling`), and,
with `Asserts`, an `ASSERT` that the debug build stops at (`handlers.cpp:355` in
`Forward`, `handlers.cpp:233` in `ProcessAsserted`).

The code has two faults from which nothing in the pool recovers, and the history
variable `faults` records them when they happen: `"unlinked"`, a worker has deleted the
node of another; `"forwarded"`, `forward` was given the index of a slot that is not in
use. Each has a violated run of its own. The other properties are checked in the same
model, with both faults possible, and say what holds up to the first of those that
matter to them; `ServedOnce`, `TypeOK`, `GivenUpIsUnlinked` and `StopReturns` hold
regardless. `tick[w].moved` are the slots that registration has filled from the
end and did not look at again.

### Listener

`main` is the main thread (place and listener), `acc` the acceptors. `build`
is chosen in `Init`: the two builds differ in `stop` only (Windows closes the
socket, Linux makes a fake connection). `claim` and `held` are the listener's
lock. `CtorFails` stands for every configuration that ends the constructor.

### Buffers

A ring is its cells with `start` and `end`, a chunk buffer the list of its
chunks and the offset into the first. The operations (`Fill`, which is
`rcv_all`'s two reads round the end; `Peeked`, `Appended`, `ChunkPeeked`, ...) take
a buffer and give the next one; `RingContents` and `ChunkContents` say what it
holds. A cell that is not in use has no byte, so an operation that reads one
too many shows.

### Relay

Two pipes, 1 accepted (its socket blocks on Linux), 2 connected. A byte is its
number in its stream. `Poll` and `CheckAll` are the two branches of
`pipe_waiter::wait`; their result is `mask`, whose bits `process` consumes in
the order of the code: closed, the direction from pipe 1, the direction from
pipe 2, flush of 1, flush of 2. A direction is `recv` (with `rcv_all`, which
fills the ring `rcvbuf` while the ready bit lasts) and `send`; on the blocking
socket the `::send` is a place of its own. The `Peer...` actions are the kernel
and the other ends. A wait that times out changes nothing and is a stuttering
step.

### CryptoPipe

One direction: `SendStarts` and `Encipher` are `crypto_pipe::send`, the wire
carries the units of enciphered blocks, and the receiver takes any number of
them at a time. A block has the nonce it was enciphered under; units decipher
when they are one whole block whose nonce the decryptor has, which is all that
is used of an AEAD cipher. The receiver reads the salt and the header with exact
reads (`HeaderRead`, `HeaderAsks`) and is then one pipe of a pair: `Wait` with
`Registered`, which is `get_waitable`'s READY_PIPE bit, `RecvStarts`,
`InnerRecv`, and the loop of `decipher` with `decrypt`, one action per branch.

### Socks

One client, one worker, one chain. The client sends whole messages or stops
inside one, with data right behind its request if it likes; every `recv` of
`handshake`, `handshake4`, `handshake5` and of the three `prepare` functions is a place
of the worker with the length it asks for (`Need`, `UpNeed`), enabled when the
bytes are there, failing when they cannot come any more. Bytes are kept where
the code compares them (versions, commands, lengths, results, login), the rest
is filler. `pkt` is the start of the buffer that `prepare` uses again and again,
because some of its tests look at what an earlier answer left there. A request
with an IPv6 address is never answered: the packet is sized for IPv4
(`proxy.cpp:196`, `proxy_ss.cpp:95`); behind a Shadowsocks hop the worker then
stays in the place `spin`.

### Channel

Streams between named ends, each with a count of bytes written and read and the
queue between them. While `open` nothing is lost; `Break` cuts each queue off
anywhere, after which a writer that has not heard loses its bytes (`WriteLost`)
and the reader still gets the beginning of what was on its way.

## 3. Runs

| Run | Question | Instance |
|---|---|---|
| `spinlock` | exclusion, blind unlock, the word counts its holders, a claimed write lock is granted and not overtaken, the word implements `RWLock` | 2 threads, depth 2, as the users of the lock behave |
| `bridge_safety` | is every pair served at one place and kept, what can bring the process down, does nobody relay after `stop`; all but for the two faults | 3 workers, 3 addresses used again, 2 slots, 2 events per wait, pairs broken before registration, dead pairs that leave bits, exit and `stop` at any moment; debug build; symmetric |
| `bridge_liveness` | a placed pair is polled, dead nodes leave the list, `stop` returns | 2 workers, 2 addresses, 1 slot (so that everything is forwarded), dead pairs that leave bits |
| `bridge_forward_index` | *violated*: the idle index is in use when `forward` gets it (`handlers.cpp:355`) | 3 workers, 2 slots, every kind of event, release build |
| `bridge_addr_reuse` | *violated*: the node that a worker runs is its own and alive (`handlers.h:134`) | 2 workers, 2 addresses, 2 slots, no stop |
| `listener_stop` | stopped means left, the program ends | 2 listeners, both builds, backlog 1 |
| `listener_stop_nix` | *violated*: a signal ends the Linux build | 1 listener |
| `relay_pass` | ordered whole streams, flushes, ends noticed, no blocking `recv` | 6 and 1 bytes, kernel queues 4 and 1, ring of 3 cells, one prefetched byte, ends and resets |
| `relay_stall` | *violated*: what is sent arrives (`handlers.h:160`) | 4 bytes one way, no ends |
| `crypto_stream` | nonces agree under any cut, the plain stream comes out, nothing deciphered is left waiting, no blocking `recv` | 6 bytes in sends of up to 3, payloads of 2, header of 1 + 2 bytes, 1 flush, the sender may close |
| `crypto_flush` | *violated*: a payload is not empty (`cipher_ss.cpp:448`) | the same, without an end |
| `socks` | who is let through, what the bridge gets, one fitting answer, the handshake ends | versions 4, 5 and both, every login setting, chains none, `socks4`, `socks5`, `socks5auth`, `ss`-`socks5`, `socks4`-`ss` |

What the violated runs show (details in the findings of `PROJECT.json`):

1. `bridge_forward_index`: a cleared slot is processed again and becomes the
   idle slot; compaction then leaves its index beyond the end, and `forward`
   sends null pipes on and clears a live pair. The other bit may be one of the
   dead pair (2 slots) or of another pair (3 slots, data on the first and plain closes of the others).
   The debug build stops at the `ASSERT`; in the release build slots are not dense
   and a pair is lost from there on, the fault `"forwarded"`.
2. `bridge_addr_reuse`: a worker's walk deletes the node of another one that has given
   up but not yet unlinked it, and makes a node of its own, at the same address. The
   first worker finds its node again by `t == npt` (`handlers.cpp:107`) and deletes the
   node that the second one is running, the fault `"unlinked"`. The pairs of that node
   are then in no list, and `stop` does not wait for its worker.
3. `listener_stop_nix`: the read lock `st` lives until the end of `stop`, which
   asks for the same lock in write mode.
4. `relay_stall`: the one-byte read made while the other side is full moves
   everything from the kernel to `rcvbuf` and clears the ready bit; the waiter
   looks at neither, so the rest waits for the client's next byte.
5. `crypto_flush`: `process` flushes with `send(data, 0)`, which enciphers an
   empty payload; the receiver takes its size, zero, for data that is not
   complete and keeps blocks whose nonces are spent, so that nothing after them
   deciphers.

What the models show without a run of their own. `BridgeAddOwn` ignores the
result of `try_add_bridge` as the code does: when other workers have filled the new
node meanwhile, the pair is in no slot and nobody serves it, though
`handlers.h:134` says that `bridge` does the job or forwards it; no property
forbids it. `bridge_safety` reaches three ways in which `close` brings the process down
under a running thread: the assertion at `handlers.cpp:233` (`ProcessAsserted`),
`forward` with `numslots` 0 (`handlers.cpp:358`), and the raw pointers of a wait
(`netkit.cpp:754`); `CrashOnlyInStop` says that none of these, and no other crash,
happens before `stop`. In `Socks` every return of a handshake before `worker` ends
with `released = FALSE`: the accepted pipe is left to nobody (`handlers.cpp:492`),
though `handlers.h:146` makes the handler its owner.

Bounds and why they suffice. *Lock*: two threads at depth 2 meet every pair of
places of the algorithm, with a pending writer and nested holders; that a third
thread between two others, nested reads and upgrades change nothing for safety
is what the proofs say. *Pool*: two slots and three workers give full, partly
used and compacted arrays, a walk over more than one node and a forward to a
third party; one slot makes every second pair a forwarded one. Of the kinds of
events `bridge_safety` takes three: `"eof"` does to a pair what `"hup"` does and to an
empty slot what `"data"` does; `bridge_liveness` and `bridge_forward_index` have it. One thing needs more:
a slot moved into the place of one that cannot be registered keeps its old mask, and
with three such pairs among five slots (`[X1, X2, A, C, X3]`, the `X` broken) two
registrations leave `A` and `C` with mask 1, so that both read the same bits
(`Register`, evaluated by itself; fewer than five slots do not do it). `MaskExclusive`
exempts the slots filled that way (`tick[w].moved`), in the run and in the theorem. A pair that cannot be registered has a
`crypto_pipe` closed before (`cipher_ss.cpp:330`), which nothing does to a pair in a
slot today. *Listeners*: two
have an order of opening and stopping. *Data path*: the receive queue is larger
than the ring, which is larger than a byte, one cell of room (`Margin`, 1300 bytes) is too
little for `rcv_all` to ask, and the send queue is smaller than
both, so that full buffers, partial sends and left-overs all occur; a read of
`BRIDGE_BUFFER_SIZE` (65536) is larger than `rcvbuf` (49152) and therefore
empties it. Six bytes let a left-over meet new bytes, so that `checkall` runs,
and let the ring go round its end. *Cipher*: payloads of two bytes make a send
of three two chunks; units smaller than blocks put cuts inside the salt, a size,
a payload and a tag; chunks of two bytes make records share chunks. *Handshakes*:
the user id limit 1 makes a name that is too long a short one; one byte of data
behind a message is enough to be taken for part of it. Widths that are only
sizes (30 slots, 16-bit reader count) are constants; the counter widths of the
lock word are `ReadLimit` and `WriteLimit`, and `IInv` says they are not
exceeded.

Fairness. Liveness assumes weak fairness of the threads' steps, which is what a
preemptive scheduler gives. In `SpinLock` the unlocks are strongly fair: a
thread that holds the lock comes to its unlock (critical sections are short and
do not wait, except for the cases modelled as such). In `Bridge` waits end after
ten seconds at most, so a tick is fair, while arriving clients and stop requests
are not. In `Listener` nothing is assumed of clients or of the user. In `Relay`
the peers are assumed to read what has arrived (`PeerReads`); without it a
blocking `::send` stops the thread, a hazard of its own. In `CryptoPipe` a send
that has begun goes on, and nobody has to send or to close. In `Socks` both ends
are assumed to close at last, since the code's wait for a silent peer has no
useful limit (`netkit.cpp:736`); the model's worker does all the rest.

Deadlock checking is off where the system may come to rest: `Listener`, because
the Linux build hangs (run 3); `Relay` and `CryptoPipe`, because a pair may
be idle or dead; `Socks`, because a connection that is bridged or gone is the end
of the model, and because of `spin`.

`NoncesAgree` and `Arrives` exempt streams in which a flush was sent, by run
5 above; `GrantUsed` exempts answers with a domain, which the code reads with a `recv`
that may fall short (`proxy.cpp:278`) and then refuses.

## 4. Proofs

For any finite set of threads and any limits that fit (`SpinLock_proofs`):

* `InvariantHolds`: `IInv` is invariant. It joins the types, what the word
  counts (`WordCountsHolders`), what each place implies (`PlaceAgrees`), the
  blind unlock and exclusion. Exclusion alone is not inductive: a thread about to
  exchange must know that the word it saw described who held the lock. Readers
  are counted as the cardinality of a set of tickets, so that one reader more or
  less is a fact about `FiniteSetTheorems`.
* `MutualExclusionHolds`, `UnlockNeverMissesHolds`: conjuncts of it.
* `ClaimBlocksNewcomersHolds`: the action property, from the same invariant.
* `Refinement`: every step of the word is a step of `RWLock` or a stutter; the
  grants need that a writer that has drained finds nobody and a reader that
  exchanged found no writer (`WriterFindsNobody`, `ReaderFindsNoWriter`).

For any number of workers, addresses and slots (`Bridge_proofs`):

* `TypeCorrect`, `ServedOnceHolds`: from `Safe`, which says of the slot arrays
  what `ServedOnce` cannot carry alone (`NodesAre`, `FreshInv`): no pair is in two
  slots of any node, live or not, since a deleted node may still be ticked; the
  cells behind `numslots` hold no pair, or the next pair added would meet one;
  and a worker that has not placed its pair is in no slot, or it would add it
  twice. An operation on one array (`Register`, `Closed`, `MoveSlot`, clearing)
  is proved once to be a rearrangement (`Good`: every pair comes from a place of
  its own), and `NodeChanges`, `NodeGrows` lift that to all nodes. `forward` is
  the two in a row (`HandedOn`); it is safe for an index that is not in use
  too, since what it sends then is no pair.
* `OwnNodeAliveHolds`: until a worker has unlinked the node of another, `OwnNodeAlive`
  holds. `OwnInv` adds that a node is open (`numslots >= 0`) while its worker runs it,
  because the walk's deletion looks at nothing else, and that a worker's node is the
  one it created, which keeps the nodes of two running workers apart although
  addresses come back. So the comparison of addresses in `Unlink` is the only step
  that can take a node from its worker, and what holds of `OwnRuns` after it is
  nothing: the condition is needed, see the run `bridge_addr_reuse`.
* `StopQuiescesHolds`: at the moment `stop` returns the list is empty, so by `OwnInv`
  no worker runs a node; later ones see `need_stop`.

What `tick` relies on between its locked sections (`BridgeSlots_proofs`, for both
builds and with no assumption on the allocator). The proofs turn on what another worker
can do to the node meanwhile: fill its next slot (`Grown`) and no more, since deletion
takes only nodes that have given up. What is left are the owner's steps and `stop`.

* `LiveBridgeKeptHolds`: the action property. `SlotInv` says that until `stop`, and
  while no node was deleted under its worker, the count that `tick` read is within
  `numslots` and the slot `was_del` is one of the counted and empty; compaction and the replacement by the last slot move a
  pair inside the node, `forward` gives it to a node of the list, and a node leaves the
  list only when it holds no pair. A node on the list belongs to a worker that has
  not left yet (`LiveOwned`).
* `SlotsDenseHolds`: `Dense`, a slot in use is empty only between the owner's clearing
  it in `process` and the compaction, and none before `was_del`.
* `CrashOnlyInStopHolds`: from the same two. A null pipe among the slots in use is one
  that the owner has cleared in this tick and whose bits are consumed (`Dense` keeps its
  mask at 0), the count only grows before `stop`, and a freed node is a fault.
* `MaskExclusiveHolds`: `MaskInv`, between registration and compaction a pair has the
  mask that this registration gave to its slot, or, added since, 0, which no wait
  reports, or it was moved. The registration loop looks at the slots `0..m-1` for some
  `m`; those it does not reach are the last ones, which have moved to the front or
  are out of use when it ends. Masks given out are therefore all different.

For any number of listeners and both builds (`Listener_proofs`):

* `InvariantHolds`: places, the count of listeners as a cardinality, who has
  claimed which lock, when a stage is `IDLE`, and what the main thread knows
  after it has seen it. The last part is what `stop` relies on; it is inductive
  only together with the others.
* `TypeCorrect`, `StopQuiescesHolds`, `QuitMeansIdleHolds` follow.

For any size of the ring and of a chunk (`Buffers_proofs`): `FillAppends`, what
`rcv_all` puts into the ring is appended to what it holds, whole and in order,
however it goes round the end; `PeekTakesFirst`, what is taken are the first bytes
and the others stay. Together they say that the ring is a queue. `ChunkAppends` and
`ChunkPeekTakes` say the same of the chunk buffer, whose loops over chunks are
reasoned about by the first chunk at which they would go wrong.

For any sizes of buffers and kernel queues, any sockets that block and any peers
that end or reset (`Relay_proofs`):

* `Safe` joins the types with the ring's (`RingInv`), `HoldInv` (bytes are
  between `recv` and `send` only while a send blocks, to a pipe without unsent
  bytes), `FullMeansUnsent` and `ReadyHasData`. The last two are not inductive
  without `HoldInv`: a blocked send comes back with a rest that it appends.
  `TypeCorrect`, `ReadyHasDataHolds`, `FullMeansUnsentHolds` follow.
* `Refines`: the pair implements `Channel`. `StreamInv` says that what is under
  way continues what has arrived and, while the pair is open, is all that was
  sent. The five places a byte passes (kernel, ring, process, `outbuf`, kernel) are
  a `Chain`, and moving bytes from one to the next leaves their concatenation as it
  was; only the peers' steps and the death of the pair are steps of `Channel`.

For any sizes of sends, payloads, tags, chunks and headers, and any cuts of the
stream (`CryptoPipe_proofs`):

* `Invariant`: `IInv`. `NoncesAgree` speaks of the next block only, so it does not
  survive the block's being deciphered. `StreamInv` says it of all that is still to
  come: what `unprocessed` holds from `from` on, the wire and `encrypted` are, one
  behind the other, a stream of whole records (a size block and its payload)
  whose nonces count up from the decryptor's and whose payloads are the plain
  bytes behind those deciphered (`Records`, `InStream`). A cut moves units between the
  three and leaves their concatenation as it was; `Encipher` adds records behind it,
  and `decrypt` takes half a record in front (`Inside`). `PlaceInv` says what
  `decipher`'s locals mean while it loops (a kept size is the one at `from`), `DataInv`
  that `decrypted_data` holds the bytes deciphered and not handed over, by
  `ChunkAppends` and `ChunkPeekTakes`, `ReadyInv` what a ready bit stands for.
* `TypeCorrect`, `NoncesAlwaysAgree`, `NeverBlocks` follow.
* `Refines`: a direction implements `Channel`. All that is under way is the run of
  numbers behind those handed over (`Shape`), by `StreamInv` and `DataInv`; only a
  send, the handing over and a failure are steps of `Channel`.

For any chains of proxies of any length, any limit of a user id and any amount of
data (`Socks_proofs`):

* `Invariant`: `IInv`. What reaches the bridge is decided by where the first message
  was cut, so nothing smaller than the whole dialogue is inductive. `ClientInv` and
  `UpInv` say for every place what is still in each stream: the rest of the message
  that this place reads and the data behind it, or, when its sender closed inside
  it, a shorter piece with nothing to come (`Rest`, `UpRest`), with those bytes of it
  that the code will compare. A `recv` of `n` bytes takes `n` from that number (`Took`,
  `UpTook`); each message of a peer establishes it (`Written`, `UpWritten`). `UpInv` also
  says who has answered (`Before`, `Yes`, `No`), that `pkt` still is `<<5, 1>>` or
  `<<5, 0>>` where a failed `recv` leaves it to be judged, which is why those failures
  refuse, and that a request nobody answers leaves the stream empty.
* `GrantedMeansReachedHolds` and `DataIntactHolds` are what it says of the last place;
  `TypeCorrect`, `AuthRespectedHolds`, `AnsweredOnceHolds` and `GrantUsedHolds` are
  parts of it. `AuthRespected` needs that a user id collected so far is the beginning of
  the one sent, and that a login is read from the message that decided `proved`.

`BytesIn`, a recursive function, is reasoned about without an induction theorem:
where a claim about the first `n` elements failed for some `n` it would fail for a
least one (`LeastNumber`, from the well-foundedness of the naturals), and the step
to that one is an ordinary proof.

Assumptions are the named ones of the modules: finite thread sets, distinct
names, positive limits. Thread ids are assumed distinct, although
`spinlock.h:196` keeps only 32 bits of them.

Only model-checked: all liveness (the prover has no `ENABLED`), and the violated runs,
which are counterexamples. Every safety property of the passing runs is a theorem,
under the assumptions named here.

## 5. Not modelled, and why

* `src/source/botan`, two thirds of the lines of the repository: third-party
  cryptography, not this program's logic. What the program relies on (a block
  deciphers only whole, with its key and its nonce) is in `CryptoPipe`. Because
  of it the models stand for a small part of the repository's lines, though for
  most of the code that decides anything.
* The arena allocator (`mem.cpp` 125-254). Every model takes memory as given out
  once. `alloc` tests for room before it takes the lock bit and not again
  (`mem.cpp:155`), which is listed as a hazard; what comes of it depends on the
  layout behind the arena.
* Reference counts: `Bridge` uses their effect, a pipe lives while a slot or a
  worker holds it.
* The Windows branch of `netkit.cpp`: event objects instead of polls. `Relay` is
  the Linux branch; `Listener` has both.
* The `none` cipher with `chunk_buffer::assign`, key derivation, and
  `crypto_pipe::close` racing a cipher at work.
* Addresses, name resolution (the endpoint that workers share, `connect.cpp:55`,
  is a hazard), configuration, logs, files, services: conversions and operating
  system calls. `queue.h` and `list.h` are included by nothing.
* Memory: a deleted `processing_thread` is an address no longer on the list, whose
  worker crashes or finds what is there (`UseFreed`); a destroyed
  handler is not represented. So the detached worker that enters `bridge` after
  the handler is gone shows in `StopQuiesces` only as one that does not relay.
* Time: waits end or do not end; their length is not modelled. The factor
  between `LOOP_PERIOD` and `poll` (`netkit.cpp:736`) is listed as a hazard.
* The effect of `SIGPIPE` on other pairs (`netkit.cpp:337`).

## 6. Plan

Done, in the order it was planned: the lock and its refinement, the pool, the
listeners, the data path and its refinement with the buffers under it, the
Shadowsocks stream, the handshakes; proofs for the lock, the listeners, both
buffers, the data path, the pool, the Shadowsocks stream and the handshakes.

Left, in this order:

1. `Arena`: free list behind the lock bit, fallbacks, blocks that cross arenas
   when freed. Invariant: free list and owners partition the elements.
2. The Windows branch of the waiter as a second refinement of what `Relay` asks
   of `wait`.
