----------------------------- MODULE CryptoPipe -----------------------------
(***************************************************************************)
(* One direction of a Shadowsocks stream: crypto_pipe::send at one end,    *)
(* TCP, which cuts the stream anywhere, and crypto_pipe::recv at the other *)
(* (cipher_ss.cpp, handler_ss.cpp).  The receiver reads a header in exact  *)
(* pieces and is then one pipe of a bridged pair.                          *)
(*                                                                         *)
(* A plain byte is its number.  What is enciphered is a block: a size or a *)
(* payload, with the nonce it was enciphered under.  The wire carries the  *)
(* units of blocks; units decipher if they are one whole block and the     *)
(* receiver has its nonce and its key, which is all an AEAD cipher gives.  *)
(***************************************************************************)
EXTENDS Integers, Sequences, Buffers

LOCAL INSTANCE SequencesExt

CONSTANTS
  MaxSent,    \* bound: plain bytes
  MaxSend,    \* bound: bytes of one send
  MaxFlushes, \* bound: sends without bytes, which bridged::process makes for a write bit
  MayEnd,     \* may the sender close?
  Salt,       \* units of the salt (KeySize)
  SizeLen,    \* units of a size (2)
  Tag,        \* units that enciphering adds (AEAD_TAG_SIZE)
  ChunkMax,   \* longest payload (AEAD_CHUNK_SIZE_MASK)
  Header,     \* lengths of the exact reads that come first
  ChunkSize   \* SIZE of the receiver's chunk_buffer

ASSUME BoundsAssumption ==
  {MaxSent, MaxSend, MaxFlushes} \subseteq Nat /\ MayEnd \in BOOLEAN
ASSUME SizesAssumption ==
  /\ {Salt, SizeLen, Tag, ChunkMax, ChunkSize} \subseteq Nat \ {0}
  /\ Header \in Seq(Nat \ {0})

VARIABLES
  sent,         \* plain bytes given to send so far
  flushes,      \* sends without bytes so far
  sending,      \* a send is under way
  plain,        \* how many of its bytes encipher has not come to, the last ones of sent
  enc,          \* nonce of the encryptor
  encrypted,    \* encrypted_data
  wire,         \* between both ends: TCP, and the inner pipe's buffers
  fin,          \* the sender has closed
  at,           \* where the receiver is
  key,          \* what the receiver has read for the salt
  dec,          \* nonce of the decryptor
  unprocessed,  \* aead_cryptor::unprocessed
  payload,      \* last_block_payload_size
  from,         \* decipher: units it is through with
  decr,         \* decipher: it has deciphered bytes
  cur,          \* decrypt: from_current
  decrypted,    \* decrypted_data
  given,        \* bytes that recv has handed over
  header,       \* exact reads that are still to be made
  ready         \* ready bits of the inner pipe's waitable: "system", "pipe"

sender == <<sent, flushes, sending, plain, enc, encrypted>>
decryptor == <<key, dec, unprocessed, payload, from, decr, cur>>
vars == <<sender, wire, fin, at, decryptor, decrypted, given, header, ready>>

HeaderLen == FoldSeq(LAMBDA a, b : a + b, 0, Header)

Block(nonce, kind, len, first) == [nonce |-> nonce, kind |-> kind, len |-> len, first |-> first]
Width(b) == CASE b.kind = "salt" -> Salt
              [] b.kind = "size" -> SizeLen + Tag
              [] b.kind = "payload" -> b.len + Tag
Units(b) == [i \in 1..Width(b) |-> [block |-> b, at |-> i]]

SaltUnits == Units(Block(0, "salt", 0, 0))

Init ==
  /\ sent = 0 /\ flushes = 0 /\ sending = FALSE /\ plain = 0
  /\ enc = 0 /\ encrypted = SaltUnits
  /\ wire = <<>> /\ fin = FALSE
  /\ at = "salt" /\ key = <<>> /\ dec = 0
  /\ unprocessed = <<>> /\ payload = 0 /\ from = 0 /\ decr = FALSE /\ cur = 0
  /\ decrypted = NoChunks /\ given = 0 /\ header = Header /\ ready = {}

-----------------------------------------------------------------------------
(* The sender.                                                              *)

\* proxy_shadowsocks::prepare sends the header in one piece; later sends carry what process has
\* received.  process flushes, sending no byte, only while the inner pipe has unsent ones.
\* The direction without a header, whose salt recv reads inside process, is not covered.
SendStarts(n) ==
  /\ ~sending /\ ~fin /\ sent + n <= MaxSent
  /\ sent = 0 => n = HeaderLen
  /\ n = 0 => flushes < MaxFlushes /\ wire # <<>>
  /\ sending' = TRUE /\ plain' = n /\ sent' = sent + n
  /\ flushes' = IF n = 0 THEN flushes + 1 ELSE flushes
  /\ UNCHANGED <<enc, encrypted, wire, fin, at, decryptor, decrypted, given, header, ready>>

\* encipher: a size and a payload of at most ChunkMax; the rest is its recursive call.  After
\* the last one the inner pipe gets all, with the salt in front of the first.
Encipher ==
  LET len == Smaller(plain, ChunkMax)
      out == encrypted \o Units(Block(enc, "size", len, 0))
                       \o Units(Block(enc + 1, "payload", len, sent - plain + 1))
  IN  /\ sending
      /\ enc' = enc + 2 /\ plain' = plain - len
      /\ IF len < plain
         THEN encrypted' = out /\ UNCHANGED <<sending, wire>>
         ELSE wire' = wire \o out /\ encrypted' = <<>> /\ sending' = FALSE
      /\ UNCHANGED <<sent, flushes, fin, at, decryptor, decrypted, given, header, ready>>

SenderEnds ==
  /\ MayEnd /\ ~sending /\ ~fin /\ fin' = TRUE
  /\ UNCHANGED <<sender, wire, at, decryptor, decrypted, given, header, ready>>

-----------------------------------------------------------------------------
(* The receiver: the salt and the exact reads of the header.                *)

Closes == at' = "closed" /\ decrypted' = NoChunks

\* The first recv reads the salt with the exact read of the inner pipe, which waits for it.
RecvSalt ==
  /\ at = "salt" /\ Len(wire) >= Salt
  /\ key' = SubSeq(wire, 1, Salt)
  /\ wire' = SubSeq(wire, Salt + 1, Len(wire))
  /\ at' = "header"
  /\ UNCHANGED <<sender, fin, dec, unprocessed, payload, from, decr, cur, decrypted, given, header, ready>>

SaltFails ==
  /\ at = "salt" /\ Len(wire) < Salt /\ fin
  /\ Closes
  /\ UNCHANGED <<sender, wire, fin, decryptor, given, header, ready>>

\* recv(data, -n) with n bytes deciphered.
HeaderRead ==
  /\ at = "header" /\ header # <<>> /\ Enough(decrypted, ChunkSize, header[1])
  /\ decrypted' = ChunkPeeked(decrypted, ChunkSize, header[1])
  /\ header' = Tail(header) /\ given' = given + header[1]
  /\ UNCHANGED <<sender, wire, fin, at, decryptor, ready>>

\* recv(data, -n) with less: the inner pipe is asked again and again, and nobody waits in
\* between.  When the sender closes here, no ready bit tells the inner pipe, and the loop
\* never ends.
HeaderAsks ==
  /\ at = "header" /\ header # <<>> /\ ~Enough(decrypted, ChunkSize, header[1])
  /\ wire # <<>>
  /\ at' = "inner"
  /\ UNCHANGED <<sender, wire, fin, decryptor, decrypted, given, header, ready>>

\* The header is there: the pair is bridged.
Bridged ==
  /\ at = "header" /\ header = <<>>
  /\ at' = "wait"
  /\ UNCHANGED <<sender, wire, fin, decryptor, decrypted, given, header, ready>>

-----------------------------------------------------------------------------
(* The receiver in a bridged pair.                                          *)

\* A mutant: get_waitable forgets that deciphered bytes are there.
RegisteredNot == ready

\* get_waitable: the ready bit of the outer pipe stands for its deciphered bytes.
Registered == IF IsEmpty(decrypted) THEN ready \ {"pipe"} ELSE ready \cup {"pipe"}

\* pipe_waiter::wait.  With a ready pipe it only looks for bytes (checkall), else it polls,
\* which also sees the end.
Wait ==
  /\ at = "wait"
  /\ \/ /\ Registered # {}
        /\ ready' \in {Registered} \cup (IF wire # <<>> THEN {Registered \cup {"system"}} ELSE {})
     \/ /\ Registered = {} /\ (wire # <<>> \/ fin)
        /\ ready' = {"system"}
  /\ at' = "read"
  /\ UNCHANGED <<sender, wire, fin, decryptor, decrypted, given, header>>

\* A mutant: the inner pipe is asked whatever is left.
RecvStartsAsks ==
  /\ at = "read" /\ at' = "inner"
  /\ UNCHANGED <<sender, wire, fin, decryptor, decrypted, given, header, ready>>

\* recv: the inner pipe is asked only when no deciphered byte is left.
RecvStarts ==
  /\ at = "read"
  /\ IF IsEmpty(decrypted)
     THEN at' = "inner" /\ ready' = ready \ {"pipe"}
     ELSE at' = "give" /\ ready' = ready
  /\ UNCHANGED <<sender, wire, fin, decryptor, decrypted, given, header>>

\* The inner recv gives what has come; what is in wire but has not come is not taken.
InnerRecv ==
  /\ at = "inner"
  /\ \E n \in 1..Len(wire) :
       /\ unprocessed' = unprocessed \o SubSeq(wire, 1, n)
       /\ wire' = SubSeq(wire, n + 1, Len(wire))
  /\ ready' = ready \ {"system"}
  /\ at' = "decrypt"
  /\ UNCHANGED <<sender, fin, key, dec, payload, from, decr, cur, decrypted, given, header>>

\* A mutant: the inner pipe's failure is taken for no data.
InnerFailsSilently ==
  /\ at = "inner" /\ wire = <<>> /\ fin
  /\ at' = "give"
  /\ UNCHANGED <<sender, wire, fin, decryptor, decrypted, given, header, ready>>

\* A ready bit without bytes: the end of the stream.
InnerFails ==
  /\ at = "inner" /\ wire = <<>> /\ fin
  /\ Closes
  /\ UNCHANGED <<sender, wire, fin, decryptor, given, header, ready>>

\* process asks for one byte while the other side is full, else for more than there is.
Gives ==
  /\ at = "give"
  /\ \E max \in {1, MaxSent} :
       /\ decrypted' = ChunkPeeked(decrypted, ChunkSize, max)
       /\ given' = given + Smaller(max, ChunkData(decrypted, ChunkSize))
  /\ at' = "wait"
  /\ UNCHANGED <<sender, wire, fin, decryptor, header, ready>>

-----------------------------------------------------------------------------
(* decipher and decrypt: the loop over the blocks in unprocessed.           *)

\* The units skip+1..skip+width are one block, enciphered with this key and this nonce.
Authentic(skip, width) ==
  LET b == unprocessed[skip + 1].block
  IN  /\ key = SaltUnits /\ b.kind # "salt" /\ b.nonce = dec
      /\ SubSeq(unprocessed, skip + 1, skip + width) = Units(b)

\* What is left of unprocessed from a place on.
Rest(place) == Len(unprocessed) - place

\* The loop ends: all seen, or no whole size block.
LoopEnds ==
  /\ at = "decrypt"
  /\ Rest(from) = 0 \/ (payload = 0 /\ Rest(from) < SizeLen + Tag)
  /\ at' = "erase"
  /\ UNCHANGED <<sender, wire, fin, decryptor, decrypted, given, header, ready>>

\* A size block.
DecryptSize ==
  /\ at = "decrypt" /\ payload = 0 /\ Rest(from) >= SizeLen + Tag
  /\ Authentic(from, SizeLen + Tag)
  /\ payload' = unprocessed[from + 1].block.len
  /\ dec' = dec + 1
  /\ cur' = from + SizeLen + Tag
  /\ at' = "payload"
  /\ UNCHANGED <<sender, wire, fin, key, unprocessed, from, decr, decrypted, given, header, ready>>

\* The size is known from an earlier call: it is taken to be the first block.
SizeKnown ==
  /\ at = "decrypt" /\ payload > 0 /\ Rest(from) > 0
  /\ cur' = SizeLen + Tag
  /\ at' = "payload"
  /\ UNCHANGED <<sender, wire, fin, key, dec, unprocessed, payload, from, decr, decrypted, given, header, ready>>

\* A mutant: the size is forgotten when the payload is not complete.
PayloadForgetsSize ==
  /\ at = "payload" /\ Rest(cur) < payload + Tag
  /\ at' = "erase" /\ payload' = 0
  /\ UNCHANGED <<sender, wire, fin, key, dec, unprocessed, from, decr, cur, decrypted, given, header, ready>>

\* The payload is not complete: its size is kept, because its nonce is spent.
PayloadWaits ==
  /\ at = "payload" /\ Rest(cur) < payload + Tag
  /\ at' = "erase"
  /\ UNCHANGED <<sender, wire, fin, decryptor, decrypted, given, header, ready>>

\* The plain bytes of a payload block.
PlainOf(b) == [i \in 1..b.len |-> b.first + i - 1]

\* A mutant: the bytes take the place of those not yet read.
DecryptPayloadReplaces ==
  LET b == unprocessed[cur + 1].block
  IN  /\ at = "payload" /\ Rest(cur) >= payload + Tag /\ Authentic(cur, payload + Tag)
      /\ decrypted' = Appended(NoChunks, ChunkSize, PlainOf(b))
      /\ dec' = dec + 1 /\ from' = cur + payload + Tag
      /\ at' = IF payload = 0 THEN "erase" ELSE "decrypt"
      /\ payload' = 0 /\ decr' = (decr \/ payload > 0)
      /\ UNCHANGED <<sender, wire, fin, key, unprocessed, cur, given, header, ready>>

\* A payload; one without bytes counts as nothing deciphered and ends the loop.
DecryptPayload ==
  LET b == unprocessed[cur + 1].block
  IN  /\ at = "payload" /\ Rest(cur) >= payload + Tag /\ Authentic(cur, payload + Tag)
      /\ decrypted' = IF payload = 0 THEN decrypted ELSE Appended(decrypted, ChunkSize, PlainOf(b))
      /\ dec' = dec + 1 /\ from' = cur + payload + Tag
      /\ at' = IF payload = 0 THEN "erase" ELSE "decrypt"
      /\ payload' = 0 /\ decr' = (decr \/ payload > 0)
      /\ UNCHANGED <<sender, wire, fin, key, unprocessed, cur, given, header, ready>>

\* Units that do not decipher: -1 for a size block; for a payload an exception that nobody
\* catches (cipher_ss.cpp:454): it ends the process, and with it this direction.
DecryptFails ==
  /\ \/ /\ at = "decrypt" /\ payload = 0 /\ Rest(from) >= SizeLen + Tag
        /\ ~Authentic(from, SizeLen + Tag)
     \/ /\ at = "payload" /\ Rest(cur) >= payload + Tag
        /\ ~Authentic(cur, payload + Tag)
  /\ at' = "failed" /\ decrypted' = NoChunks
  /\ UNCHANGED <<sender, wire, fin, decryptor, given, header, ready>>

\* A mutant: the block whose payload has not come is erased too.
EraseAll ==
  /\ at = "erase"
  /\ unprocessed' = IF decr THEN <<>> ELSE unprocessed
  /\ from' = 0 /\ decr' = FALSE /\ cur' = 0
  /\ at' = IF header # <<>> THEN "header" ELSE "give"
  /\ UNCHANGED <<sender, wire, fin, key, dec, payload, decrypted, given, header, ready>>

\* The end of decipher: what it is through with goes, if it has deciphered a byte.
Erase ==
  /\ at = "erase"
  /\ unprocessed' = IF decr THEN SubSeq(unprocessed, from + 1, Len(unprocessed)) ELSE unprocessed
  /\ from' = 0 /\ decr' = FALSE /\ cur' = 0
  /\ at' = IF header # <<>> THEN "header" ELSE "give"
  /\ UNCHANGED <<sender, wire, fin, key, dec, payload, decrypted, given, header, ready>>

-----------------------------------------------------------------------------
Sender == Encipher \/ SenderEnds \/ \E n \in 0..MaxSend : SendStarts(n)

Decipher ==
  \/ LoopEnds \/ DecryptSize \/ SizeKnown \/ PayloadWaits \/ DecryptPayload
  \/ DecryptFails \/ Erase

Receiver ==
  \/ RecvSalt \/ SaltFails \/ HeaderRead \/ HeaderAsks \/ Bridged
  \/ Wait \/ RecvStarts \/ InnerRecv \/ InnerFails \/ Gives
  \/ Decipher

Next == Sender \/ Receiver

Spec == Init /\ [][Next]_vars

\* Both threads run; nobody has to send or to close.
Fairness == WF_vars(Encipher) /\ WF_vars(Receiver)
FairSpec == Spec /\ Fairness

-----------------------------------------------------------------------------
(* Properties.                                                              *)

Places == {"salt", "header", "wait", "read", "inner", "give", "decrypt", "payload", "erase",
           "closed", "failed"}
AllUnits ==
  [block : [nonce : Nat, kind : {"salt", "size", "payload"}, len : Nat, first : Nat], at : Nat \ {0}]

\* The indices of decipher stay inside unprocessed, and a size that is kept has its block at the
\* front: decrypt subtracts unsigned sizes and relies on both.
TypeOK ==
  /\ sent \in 0..MaxSent /\ flushes \in 0..MaxFlushes /\ sending \in BOOLEAN
  /\ plain \in 0..MaxSend /\ enc \in Nat /\ dec \in Nat /\ fin \in BOOLEAN /\ decr \in BOOLEAN
  /\ {encrypted, wire, key, unprocessed} \subseteq Seq(AllUnits)
  /\ at \in Places /\ payload \in 0..ChunkMax
  /\ from \in 0..Len(unprocessed) /\ cur \in 0..Len(unprocessed)
  /\ payload > 0 => from + SizeLen + Tag <= Len(unprocessed)
  /\ given \in Nat /\ header \in Seq(Nat) /\ ready \subseteq {"system", "pipe"}

Alive == at \notin {"closed", "failed"}

\* The blocks that the decryptor has not come to, up to the encryptor.
Ahead ==
  LET place == IF payload > 0 THEN from + SizeLen + Tag ELSE IF at = "payload" THEN cur ELSE from
  IN  SubSeq(unprocessed, place + 1, Len(unprocessed)) \o wire \o encrypted

\* Wherever the stream is cut, the next unit starts the block whose nonce the decryptor has; with
\* none left the two nonces are equal.  A sender that never sends without bytes is understood.
NoncesAgree ==
  flushes = 0 =>
    /\ at # "failed"
    /\ at \notin {"salt", "closed"} =>
         IF Ahead = <<>> THEN dec = enc
         ELSE Ahead[1].at = 1 /\ Ahead[1].block.nonce = dec

\* is_ready without bytes lets rcv_all call ::recv, which on an accepted socket stops the thread:
\* the outer pipe's bit must be gone when the inner pipe is asked.
NoBlockingRecv == at = "inner" /\ ready # {} => wire # <<>> \/ fin

\* The plain bytes that have been given to send and not been handed over.
HasByte(u) == u.block.kind = "payload" /\ u.at <= u.block.len
BytesIn(us) ==
  LET upTo[i \in 0..Len(us)] ==
        IF i = 0 THEN <<>>
        ELSE IF HasByte(us[i]) THEN Append(upTo[i - 1], us[i].block.first + us[i].at - 1)
        ELSE upTo[i - 1]
  IN  upTo[Len(us)]
UnderWay ==
  IF ~Alive THEN <<>>
  ELSE ChunkContents(decrypted, ChunkSize)
       \o BytesIn(SubSeq(unprocessed, from + 1, Len(unprocessed)) \o wire \o encrypted)
       \o [i \in 1..plain |-> sent - plain + i]

\* What the receiver hands over is the plain stream, in order, nothing lost and nothing twice.
Stream == INSTANCE Channel WITH
  Sides <- {"sender"}, open <- Alive, sent <- [s \in {"sender"} |-> sent],
  received <- [s \in {"sender"} |-> given],
  queue <- [s \in {"sender"} |-> UnderWay]
ImplementsChannel == Stream!Spec

\* Once the header is complete every byte is handed over, with reads of one byte between reads
\* of all: deciphered bytes never wait for the next block to come.
Arrives == header = <<>> /\ UnderWay # <<>> ~> UnderWay = <<>> \/ flushes > 0

\* The end of the sender ends a bridged pair, after its bytes.
EndNoticed == at = "wait" /\ fin ~> ~Alive

\* cipher_ss.cpp:448, ASSERT(payloadsize > 0)
PayloadNotEmpty == at = "payload" => payload > 0
=============================================================================
