------------------------------- MODULE Buffers -------------------------------
(***************************************************************************)
(* The two byte buffers of tools.h as values: circular_buffer<size>, which *)
(* is the rcvbuf of a tcp_pipe, and chunk_buffer<size>, which is its       *)
(* outbuf and the decrypted_data of a crypto_pipe.  An operation takes a   *)
(* buffer and gives the next one; what a buffer holds is Contents.         *)
(***************************************************************************)
EXTENDS Integers, Sequences

Smaller(a, b) == IF a < b THEN a ELSE b

-----------------------------------------------------------------------------
(* circular_buffer: the bytes lie from start up to end, round the end of    *)
(* the array.  A cell that holds nothing is Unused.                         *)

Unused == 0
Blank(n) == [i \in 1..n |-> Unused]

EmptyRing(size) == [data |-> Blank(size), start |-> 0, end |-> 0]

DataSize(r, size) == IF r.start <= r.end THEN r.end - r.start ELSE size - r.start + r.end

RingContents(r, size) ==
  IF r.start <= r.end THEN SubSeq(r.data, r.start + 1, r.end)
                      ELSE SubSeq(r.data, r.start + 1, size) \o SubSeq(r.data, 1, r.end)

\* Free cells before start: one of them stays free, as start = end is the empty ring.
BeforeStart(r) == IF r.start = 0 THEN 0 ELSE r.start - 1

FreeSize(r, size) ==
  IF r.start <= r.end THEN size - r.end + BeforeStart(r) ELSE r.start - r.end - 1

\* get_1st_free: where the first run of free cells begins and how long it is.
FirstFree(r, size) ==
  IF r.start > r.end THEN [at |-> r.end, len |-> r.start - r.end - 1]
  ELSE IF r.end = size THEN [at |-> 0, len |-> BeforeStart(r)]
  ELSE [at |-> r.end, len |-> size - r.end]

\* confirm(n)
Confirmed(r, size, n) ==
  IF r.start <= r.end /\ n > size - r.end THEN n - (size - r.end) ELSE r.end + n

\* recv into the first run of free cells: as many of the bytes d as it has room for.
FillOnce(r, size, d) ==
  LET free == FirstFree(r, size)
      n == Smaller(Len(d), free.len)
  IN  [data |-> SubSeq(r.data, 1, free.at) \o SubSeq(d, 1, n) \o SubSeq(r.data, free.at + n + 1, size),
       start |-> r.start,
       end |-> Confirmed(r, size, n)]

\* rcv_all's loop: a free run, and the one it leaves at the start of the array.
Fill(r, size, d) ==
  LET n == Smaller(Len(d), FirstFree(r, size).len)
      once == FillOnce(r, size, d)
  IN  IF n = Len(d) THEN once ELSE FillOnce(once, size, SubSeq(d, n + 1, Len(d)))

\* A mutant: of two runs only the first can go out.
PeekedRun(r, size, n) ==
  LET out == Smaller(n, DataSize(r, size))
  IN  IF r.start <= r.end THEN [r EXCEPT !.start = @ + out] ELSE [r EXCEPT !.start = 0]

\* Where the bytes start when the first ones, out in number, have left.
Onward(r, size, out) ==
  IF r.start > r.end /\ r.start + out >= size THEN r.start + out - size ELSE r.start + out

\* The array with the bytes from start on.
Kept(r, size, start) ==
  IF start <= r.end
  THEN Blank(start) \o SubSeq(r.data, start + 1, r.end) \o Blank(size - r.end)
  ELSE SubSeq(r.data, 1, r.end) \o Blank(start - r.end) \o SubSeq(r.data, start + 1, size)

\* peek(out, n): the first n bytes leave, or all.  A continuous block that is emptied starts anew.
Peeked(r, size, n) ==
  LET start == Onward(r, size, Smaller(n, DataSize(r, size)))
  IN  IF r.start <= r.end /\ start = r.end THEN EmptyRing(size)
      ELSE [data |-> Kept(r, size, start), start |-> start, end |-> r.end]

-----------------------------------------------------------------------------
(* chunk_buffer: a list of chunks, all of them full but the last, of which  *)
(* skip bytes at the front are gone.                                        *)

NoChunks == [chunks |-> <<>>, skip |-> 0]

ChunkBytes(b, size) ==
  IF b.chunks = <<>> THEN 0 ELSE (Len(b.chunks) - 1) * size + Len(b.chunks[Len(b.chunks)])

ChunkData(b, size) == ChunkBytes(b, size) - b.skip

ChunkContents(b, size) ==
  [k \in 1..ChunkData(b, size) |->
     LET i == b.skip + k - 1 IN b.chunks[(i \div size) + 1][(i % size) + 1]]

\* is_empty, enough
IsEmpty(b) == b.chunks = <<>> \/ b.chunks = <<<<>>>>
Enough(b, size, n) == ChunkData(b, size) >= n

\* append: the last chunk is filled up; one that has become full gets an empty successor.
Appended(b, size, d) ==
  LET m == Len(b.chunks)
      tail == (IF m = 0 THEN <<>> ELSE b.chunks[m]) \o d
      more == [k \in 1..(Len(tail) \div size) + 1 |->
                 SubSeq(tail, (k - 1) * size + 1, Smaller(k * size, Len(tail)))]
  IN  [b EXCEPT !.chunks = SubSeq(@, 1, m - 1) \o more]

\* skip(n): whole chunks are dropped, the last one with its last byte.
Skipped(b, size, n) ==
  LET gone == b.skip + n
  IN  IF gone >= ChunkBytes(b, size) THEN NoChunks
      ELSE [chunks |-> SubSeq(b.chunks, (gone \div size) + 1, Len(b.chunks)), skip |-> gone % size]

\* peek(out, n), and peek(out) with n all there is.
ChunkPeeked(b, size, n) == Skipped(b, size, Smaller(n, ChunkData(b, size)))
=============================================================================
