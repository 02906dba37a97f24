------------------------------ MODULE SpinLock ------------------------------
(***************************************************************************)
(* The re-enterable read/write spin lock of spinlock.h: one 64-bit word    *)
(* with a count of readers (16 bits), a count of write locks (8 bits) and  *)
(* the identity of the writing thread (40 bits).  Every load, atomic add   *)
(* and compare-and-swap of the word is a step of its own, so the threads   *)
(* interleave between the load and the compare-and-swap that relies on it. *)
(*                                                                         *)
(* wdepth and rdepth say what the thread's own program knows: the locks it *)
(* has been granted and has not released.                                  *)
(***************************************************************************)
EXTENDS Naturals, FiniteSets

CONSTANTS
  Threads,      \* threads that share one lock; distinct tid_self() values
  NoThread,     \* the zero thread field of a word nobody writes under
  ReadLimit,    \* largest value of the 16-bit reader field (65535)
  WriteLimit,   \* largest value of the 8-bit write field (255)
  MaxDepth,     \* bound: how deep one thread nests each kind of lock
  NestReads,    \* may a reader that does not write take a second read lock?
  Upgrade       \* may a reader that does not write ask for the write lock?

ASSUME ThreadsAssumption == IsFiniteSet(Threads) /\ NoThread \notin Threads
ASSUME DepthAssumption ==
  /\ ReadLimit \in Nat /\ WriteLimit \in Nat /\ MaxDepth \in Nat
  /\ MaxDepth <= WriteLimit
  /\ Cardinality(Threads) * MaxDepth <= ReadLimit
ASSUME DisciplineAssumption == NestReads \in BOOLEAN /\ Upgrade \in BOOLEAN

VARIABLES
  word,     \* the lock word
  tmp,      \* per thread: the word it loaded last (val, tmp)
  pc,       \* per thread: where it is inside the lock's functions
  wdepth,   \* per thread: write locks granted and not released
  rdepth    \* per thread: read locks granted and not released

vars == <<word, tmp, pc, wdepth, rdepth>>

Words == [reads : 0..ReadLimit, writes : 0..WriteLimit,
          owner : Threads \cup {NoThread}]

Places == {"out", "write_add", "write_cas", "write_drain", "trywrite_cas",
           "read_add", "read_cas", "tryread_cas", "unlock_cas"}

FreeWord == [reads |-> 0, writes |-> 0, owner |-> NoThread]

\* val & LOCK_READ_MASK: the readers of w, no writer.
OnlyReads(w) == [w EXCEPT !.writes = 0, !.owner = NoThread]

\* SLxInterlockedAdd64(&lock, LOCK_WRITE_VAL): a full write field carries into
\* the reader field above it.
AddWrite(w) ==
  IF w.writes < WriteLimit
  THEN [w EXCEPT !.writes = @ + 1]
  ELSE [w EXCEPT !.writes = 0, !.reads = (@ + 1) % (ReadLimit + 1)]

\* SLxInterlockedAdd64(&lock, LOCK_READ_VAL): the carry out of the top field is lost.
AddRead(w) == [w EXCEPT !.reads = (@ + 1) % (ReadLimit + 1)]

\* The word unlock_write stores: one write lock less, and no thread after the last.
DropWrite(w) ==
  IF w.writes = 1 THEN OnlyReads(w) ELSE [w EXCEPT !.writes = @ - 1]

-----------------------------------------------------------------------------
Init ==
  /\ word = FreeWord
  /\ tmp = [t \in Threads |-> FreeWord]
  /\ pc = [t \in Threads |-> "out"]
  /\ wdepth = [t \in Threads |-> 0]
  /\ rdepth = [t \in Threads |-> 0]

Goto(t, p) == pc' = [pc EXCEPT ![t] = p]

Load(t) == tmp' = [tmp EXCEPT ![t] = word]

GrantWrite(t) == wdepth' = [wdepth EXCEPT ![t] = @ + 1]

GrantRead(t) == rdepth' = [rdepth EXCEPT ![t] = @ + 1]

\* The users' discipline: a thread that only reads neither asks for the write lock
\* nor reads again, unless the instance lets it.
MayWrite(t) == wdepth[t] < MaxDepth /\ (rdepth[t] > 0 /\ wdepth[t] = 0 => Upgrade)

MayRead(t) == rdepth[t] < MaxDepth /\ (rdepth[t] > 0 /\ wdepth[t] = 0 => NestReads)

\* lock_write: load the word; the writing thread itself goes for a nested lock.
LockWriteLoad(t) ==
  /\ pc[t] = "out" /\ MayWrite(t)
  /\ Load(t)
  /\ Goto(t, IF word.owner = t THEN "write_add" ELSE "write_cas")
  /\ UNCHANGED <<word, wdepth, rdepth>>

\* lock_write, try_lock_write: the nested write lock.
LockWriteAdd(t) ==
  /\ pc[t] = "write_add"
  /\ word' = AddWrite(word)
  /\ GrantWrite(t) /\ Goto(t, "out")
  /\ UNCHANGED <<tmp, rdepth>>

\* lock_write: claim the word if nobody writes, leaving the readers in it; a failed
\* exchange retries with the word it found.
LockWriteCas(t) ==
  /\ pc[t] = "write_cas"
  /\ \/ /\ word = OnlyReads(tmp[t])
        /\ word' = [word EXCEPT !.owner = t, !.writes = 1]
        /\ Goto(t, "write_drain")
        /\ UNCHANGED tmp
     \/ /\ word # OnlyReads(tmp[t])
        /\ Load(t)
        /\ UNCHANGED <<word, pc>>
  /\ UNCHANGED <<wdepth, rdepth>>

\* Mutant: the writer does not wait for the readers to leave.
DrainSkipped(t) ==
  /\ pc[t] = "write_drain"
  /\ GrantWrite(t) /\ Goto(t, "out")
  /\ UNCHANGED <<word, tmp, rdepth>>

\* Mutant: the writer waits until the whole word is zero, its own claim included.
DrainNeedsFreeWord(t) ==
  /\ pc[t] = "write_drain"
  /\ word = FreeWord
  /\ GrantWrite(t) /\ Goto(t, "out")
  /\ UNCHANGED <<word, tmp, rdepth>>

\* lock_write: wait for the readers that were there before the claim.
LockWriteDrain(t) ==
  /\ pc[t] = "write_drain"
  /\ word.reads = 0
  /\ GrantWrite(t) /\ Goto(t, "out")
  /\ UNCHANGED <<word, tmp, rdepth>>

\* lock_read: load the word; the writing thread itself just adds a reader.
LockReadLoad(t) ==
  /\ pc[t] = "out" /\ MayRead(t)
  /\ Load(t)
  /\ Goto(t, IF word.owner = t THEN "read_add" ELSE "read_cas")
  /\ UNCHANGED <<word, wdepth, rdepth>>

\* lock_read, try_lock_read: a reader under the thread's own write lock.
LockReadAdd(t) ==
  /\ pc[t] = "read_add"
  /\ word' = AddRead(word)
  /\ GrantRead(t) /\ Goto(t, "out")
  /\ UNCHANGED <<tmp, wdepth>>

\* Mutant: the exchange compares the reader field only.
ReadIgnoresWriter(t) ==
  /\ pc[t] = "read_cas"
  /\ \/ /\ word.reads = tmp[t].reads
        /\ word' = AddRead(word)
        /\ GrantRead(t) /\ Goto(t, "out")
        /\ UNCHANGED tmp
     \/ /\ word.reads # tmp[t].reads
        /\ Load(t)
        /\ UNCHANGED <<word, pc, rdepth>>
  /\ UNCHANGED wdepth

\* lock_read: join the readers if nobody writes or waits to write, else retry.
LockReadCas(t) ==
  /\ pc[t] = "read_cas"
  /\ \/ /\ word = OnlyReads(tmp[t])
        /\ word' = AddRead(word)
        /\ GrantRead(t) /\ Goto(t, "out")
        /\ UNCHANGED tmp
     \/ /\ word # OnlyReads(tmp[t])
        /\ Load(t)
        /\ UNCHANGED <<word, pc, rdepth>>
  /\ UNCHANGED wdepth

\* try_lock_read: one exchange, whose failure is the answer.
TryLockReadLoad(t) ==
  /\ pc[t] = "out" /\ rdepth[t] < MaxDepth
  /\ Load(t)
  /\ Goto(t, IF word.owner = t THEN "read_add" ELSE "tryread_cas")
  /\ UNCHANGED <<word, wdepth, rdepth>>

TryLockReadCas(t) ==
  /\ pc[t] = "tryread_cas"
  /\ Goto(t, "out")
  /\ \/ word = OnlyReads(tmp[t]) /\ word' = AddRead(word) /\ GrantRead(t)
     \/ word # OnlyReads(tmp[t]) /\ UNCHANGED <<word, rdepth>>
  /\ UNCHANGED <<tmp, wdepth>>

\* try_lock_write: claims only a word with neither readers nor a writer.
TryLockWriteLoad(t) ==
  /\ pc[t] = "out" /\ wdepth[t] < MaxDepth
  /\ Load(t)
  /\ Goto(t, IF word.owner = t THEN "write_add" ELSE "trywrite_cas")
  /\ UNCHANGED <<word, wdepth, rdepth>>

\* Mutant: the readers are not looked at.
TryWriteIgnoresReaders(t) ==
  /\ pc[t] = "trywrite_cas"
  /\ Goto(t, "out")
  /\ \/ /\ word.owner = NoThread
        /\ word' = [word EXCEPT !.owner = t, !.writes = 1]
        /\ GrantWrite(t)
     \/ word.owner # NoThread /\ UNCHANGED <<word, wdepth>>
  /\ UNCHANGED <<tmp, rdepth>>

TryLockWriteCas(t) ==
  /\ pc[t] = "trywrite_cas"
  /\ Goto(t, "out")
  /\ \/ /\ word = FreeWord
        /\ word' = [word EXCEPT !.owner = t, !.writes = 1]
        /\ GrantWrite(t)
     \/ word # FreeWord /\ UNCHANGED <<word, wdepth>>
  /\ UNCHANGED <<tmp, rdepth>>

\* unlock_write: load, then ONE exchange whose result is ignored.
UnlockWriteLoad(t) ==
  /\ pc[t] = "out" /\ wdepth[t] > 0
  /\ Load(t) /\ Goto(t, "unlock_cas")
  /\ UNCHANGED <<word, wdepth, rdepth>>

UnlockWriteCas(t) ==
  /\ pc[t] = "unlock_cas"
  /\ word' = IF word = tmp[t] THEN DropWrite(tmp[t]) ELSE word
  /\ wdepth' = [wdepth EXCEPT ![t] = @ - 1]
  /\ Goto(t, "out")
  /\ UNCHANGED <<tmp, rdepth>>

\* Mutant: a subtraction that borrows past the reader field.
UnlockReadTwice(t) ==
  /\ pc[t] = "out" /\ rdepth[t] > 0
  /\ word' = [word EXCEPT !.reads = @ + ReadLimit]
  /\ rdepth' = [rdepth EXCEPT ![t] = @ - 1]
  /\ UNCHANGED <<tmp, pc, wdepth>>

\* unlock_read: one atomic subtraction from the reader field.
UnlockRead(t) ==
  /\ pc[t] = "out" /\ rdepth[t] > 0
  /\ word' = [word EXCEPT !.reads = (@ + ReadLimit) % (ReadLimit + 1)]
  /\ rdepth' = [rdepth EXCEPT ![t] = @ - 1]
  /\ UNCHANGED <<tmp, pc, wdepth>>

ThreadStep(t) ==
  \/ LockWriteLoad(t) \/ LockWriteAdd(t) \/ LockWriteCas(t) \/ LockWriteDrain(t)
  \/ LockReadLoad(t) \/ LockReadAdd(t) \/ LockReadCas(t)
  \/ TryLockReadLoad(t) \/ TryLockReadCas(t)
  \/ TryLockWriteLoad(t) \/ TryLockWriteCas(t)
  \/ UnlockWriteLoad(t) \/ UnlockWriteCas(t) \/ UnlockRead(t)

Next == \E t \in Threads : ThreadStep(t)

Spec == Init /\ [][Next]_vars

\* A thread inside a lock function keeps running, and critical sections end: a thread
\* that holds a lock releases it in the end, whatever else it tries in between.
InsideLock(t) ==
  \/ LockWriteAdd(t) \/ LockWriteCas(t) \/ LockWriteDrain(t)
  \/ LockReadAdd(t) \/ LockReadCas(t)
  \/ TryLockReadCas(t) \/ TryLockWriteCas(t) \/ UnlockWriteCas(t)

Fairness == \A t \in Threads : /\ WF_vars(InsideLock(t))
                               /\ SF_vars(UnlockWriteLoad(t))
                               /\ SF_vars(UnlockRead(t))

FairSpec == Spec /\ Fairness

-----------------------------------------------------------------------------
TypeOK ==
  /\ word \in Words
  /\ tmp \in [Threads -> Words]
  /\ pc \in [Threads -> Places]
  /\ wdepth \in [Threads -> 0..MaxDepth]
  /\ rdepth \in [Threads -> 0..MaxDepth]

\* t has been granted the write lock.
Writing(t) == wdepth[t] > 0

\* The promise behind every use of the lock: while one thread writes, no other thread
\* has been granted the lock in either mode (lock_write, lock_read and their try forms).
MutualExclusion ==
  \A t, u \in Threads : t # u /\ Writing(t) => wdepth[u] = 0 /\ rdepth[u] = 0

\* unlock_write does not look at the result of its only compare-and-swap: it is right
\* only if nobody can change the word between its load and its exchange.
UnlockNeverMisses ==
  \A t \in Threads : pc[t] = "unlock_cas" => word = tmp[t]

\* The locks a thread holds or is draining for, as the word must show them: the word
\* names the writer, counts its nested locks and counts every reader once.
ReadTickets(rd) == {tk \in Threads \X (1..MaxDepth) : tk[2] <= rd[tk[1]]}

WordCountsHolders ==
  /\ word.reads = Cardinality(ReadTickets(rdepth))
  /\ \A t \in Threads :
       /\ Writing(t) => word.owner = t /\ word.writes = wdepth[t]
       /\ pc[t] = "write_drain" => word.owner = t /\ word.writes = 1
  /\ word.owner = NoThread <=> word.writes = 0

\* The inductive invariant behind the theorems of SpinLock_proofs: beside the above,
\* what a thread's place in the code says about the locks it holds.
PlaceAgrees(t) ==
  /\ pc[t] \in {"write_add", "write_cas", "write_drain", "trywrite_cas"} => wdepth[t] < MaxDepth
  /\ pc[t] \in {"write_cas", "write_drain", "trywrite_cas"} => wdepth[t] = 0
  /\ pc[t] \in {"read_add", "read_cas", "tryread_cas"} => rdepth[t] < MaxDepth
  /\ pc[t] \in {"read_add", "write_add", "unlock_cas"} => Writing(t)
  /\ word.owner = t => Writing(t) \/ pc[t] = "write_drain"

IInv ==
  /\ TypeOK
  /\ WordCountsHolders
  /\ UnlockNeverMisses
  /\ \A t \in Threads : PlaceAgrees(t)
  /\ MutualExclusion

\* "many readers, writer wait and block new readers": once a writer has claimed the
\* word, nobody else is granted anything until that writer is through.
ClaimBlocksNewcomers ==
  [][\A t, u \in Threads : t # u /\ pc[t] = "write_drain" =>
        rdepth'[u] <= rdepth[u] /\ wdepth'[u] <= wdepth[u]]_vars

\* A writer that has claimed the word gets the lock, because the claim stops new readers
\* and the old ones leave.
DrainEnds == \A t \in Threads : pc[t] = "write_drain" ~> Writing(t)

\* The lock word implements the abstract lock, with the granted locks as its state.
RW == INSTANCE RWLock
ImplementsRWLock == RW!RWSpec
=============================================================================
