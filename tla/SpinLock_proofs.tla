--------------------------- MODULE SpinLock_proofs --------------------------
(***************************************************************************)
(* Proofs about SpinLock, for any finite set of threads and any nesting    *)
(* depth that the fields of the lock word can count.                       *)
(***************************************************************************)
EXTENDS SpinLock, FiniteSetTheorems, TLAPS

-----------------------------------------------------------------------------
(* The reader field counts read tickets.                                   *)

\* The tickets of any nesting depths are finitely many and fit the reader field.
LEMMA TicketsFit ==
  ASSUME NEW rd \in [Threads -> 0..MaxDepth]
  PROVE  /\ IsFiniteSet(ReadTickets(rd))
         /\ Cardinality(ReadTickets(rd)) \in Nat
         /\ Cardinality(ReadTickets(rd)) <= ReadLimit
<1> DEFINE All == Threads \X (1..MaxDepth)
<1>1. IsFiniteSet(1..MaxDepth) /\ Cardinality(1..MaxDepth) = MaxDepth
  BY FS_Interval, DepthAssumption
<1>2. IsFiniteSet(All) /\ Cardinality(All) = Cardinality(Threads) * MaxDepth
  BY <1>1, FS_Product, ThreadsAssumption
<1>3. ReadTickets(rd) \in SUBSET All
  BY DEF ReadTickets
<1>4. IsFiniteSet(ReadTickets(rd)) /\ Cardinality(ReadTickets(rd)) <= Cardinality(All)
  <2> HIDE DEF All
  <2> QED BY <1>2, <1>3, FS_Subset
<1>5. Cardinality(ReadTickets(rd)) \in Nat
  BY <1>4, FS_CardinalityType
<1>6. Cardinality(Threads) \in Nat
  BY ThreadsAssumption, FS_CardinalityType
<1>7. Cardinality(All) <= ReadLimit
  <2> HIDE DEF All
  <2> QED BY <1>2, DepthAssumption
<1>8. Cardinality(All) \in Nat
  <2> HIDE DEF All
  <2> QED BY <1>2, FS_CardinalityType
<1> HIDE DEF All
<1> QED BY <1>4, <1>5, <1>7, <1>8, DepthAssumption

\* Granting a read lock adds exactly one ticket.
LEMMA TicketAdded ==
  ASSUME NEW rd \in [Threads -> 0..MaxDepth], NEW t \in Threads, rd[t] < MaxDepth,
         NEW rd2, rd2 = [rd EXCEPT ![t] = @ + 1]
  PROVE  /\ rd2 \in [Threads -> 0..MaxDepth]
         /\ Cardinality(ReadTickets(rd2)) = Cardinality(ReadTickets(rd)) + 1
         /\ Cardinality(ReadTickets(rd)) < ReadLimit
<1> DEFINE new == <<t, rd[t] + 1>>
<1>1. rd[t] \in Nat /\ rd[t] + 1 \in 1..MaxDepth
  BY DepthAssumption
<1>2. rd2 \in [Threads -> 0..MaxDepth]
  BY <1>1, DepthAssumption
<1>3. new \notin ReadTickets(rd)
  BY <1>1 DEF ReadTickets
<1>4. ReadTickets(rd2) = ReadTickets(rd) \cup {new}
  <2>1. ASSUME NEW u \in Threads, NEW k \in 1..MaxDepth
        PROVE  k <= rd2[u] <=> (k <= rd[u] \/ (u = t /\ k = rd[t] + 1))
    BY <1>1, DepthAssumption
  <2>2. new \in ReadTickets(rd2)
    BY <1>1 DEF ReadTickets
  <2>3. ASSUME NEW tk \in ReadTickets(rd2) PROVE tk \in ReadTickets(rd) \cup {new}
    BY <2>1 DEF ReadTickets
  <2>4. ASSUME NEW tk \in ReadTickets(rd) PROVE tk \in ReadTickets(rd2)
    BY <2>1 DEF ReadTickets
  <2> QED BY <2>2, <2>3, <2>4
<1>5. /\ IsFiniteSet(ReadTickets(rd)) /\ Cardinality(ReadTickets(rd)) \in Nat
      /\ Cardinality(ReadTickets(rd2)) <= ReadLimit
  BY <1>2, TicketsFit
<1>6. Cardinality(ReadTickets(rd) \cup {new}) = Cardinality(ReadTickets(rd)) + 1
  <2> HIDE DEF new
  <2> QED BY <1>3, <1>5, FS_AddElement
<1> HIDE DEF new
<1>7. Cardinality(ReadTickets(rd2)) = Cardinality(ReadTickets(rd)) + 1
  BY <1>4, <1>6
<1> QED BY <1>2, <1>5, <1>7, DepthAssumption

\* Releasing a read lock removes exactly one ticket.
LEMMA TicketRemoved ==
  ASSUME NEW rd \in [Threads -> 0..MaxDepth], NEW t \in Threads, rd[t] > 0,
         NEW rd2, rd2 = [rd EXCEPT ![t] = @ - 1]
  PROVE  /\ rd2 \in [Threads -> 0..MaxDepth]
         /\ Cardinality(ReadTickets(rd2)) = Cardinality(ReadTickets(rd)) - 1
         /\ Cardinality(ReadTickets(rd)) \in 1..ReadLimit
<1>1. rd2 \in [Threads -> 0..MaxDepth] /\ rd2[t] < MaxDepth
  BY DepthAssumption
<1>2. rd2[t] + 1 = rd[t] /\ \A u \in Threads \ {t} : rd2[u] = rd[u]
  BY DepthAssumption
<1>3. rd = [rd2 EXCEPT ![t] = @ + 1]
  BY <1>1, <1>2
<1>4. /\ Cardinality(ReadTickets(rd)) = Cardinality(ReadTickets(rd2)) + 1
      /\ Cardinality(ReadTickets(rd2)) < ReadLimit
  BY <1>1, <1>3, TicketAdded
<1>5. Cardinality(ReadTickets(rd2)) \in Nat
  BY <1>1, TicketsFit
<1> QED BY <1>1, <1>4, <1>5, DepthAssumption

\* A reader field of zero means that nobody reads.
LEMMA NoTicketsNoReaders ==
  ASSUME NEW rd \in [Threads -> 0..MaxDepth], Cardinality(ReadTickets(rd)) = 0
  PROVE  \A t \in Threads : rd[t] = 0
<1>1. ReadTickets(rd) = {}
  BY TicketsFit, FS_EmptySet
<1> SUFFICES ASSUME NEW t \in Threads, rd[t] # 0 PROVE FALSE
  OBVIOUS
<1>2. 1 \in 1..MaxDepth /\ 1 <= rd[t]
  BY DepthAssumption
<1>3. <<t, 1>> \in ReadTickets(rd)
  BY <1>2 DEF ReadTickets
<1> QED BY <1>1, <1>3

-----------------------------------------------------------------------------
(* The inductive invariant.                                                *)

\* A granted or draining writer owns the word, so no other thread is one.
LEMMA OneOwner ==
  ASSUME IInv, NEW t \in Threads, NEW u \in Threads, t # u,
         Writing(t) \/ pc[t] = "write_drain"
  PROVE  wdepth[u] = 0 /\ pc[u] # "write_drain" /\ word.owner = t /\ word.writes > 0
<1>1. word.owner = t /\ word.writes > 0
  BY DEF IInv, WordCountsHolders, Writing, TypeOK
<1>2. ~Writing(u) /\ pc[u] # "write_drain"
  BY <1>1 DEF IInv, WordCountsHolders
<1> QED BY <1>1, <1>2 DEF Writing, IInv, TypeOK

LEMMA InitInv == Init => IInv
<1> SUFFICES ASSUME Init PROVE IInv
  OBVIOUS
<1>1. TypeOK
  BY DepthAssumption DEF Init, TypeOK, Words, FreeWord, Places
<1>2. ReadTickets(rdepth) = {}
  <2> SUFFICES ASSUME NEW tk \in ReadTickets(rdepth) PROVE FALSE
    OBVIOUS
  <2> QED BY DepthAssumption DEF ReadTickets, Init
<1>3. Cardinality(ReadTickets(rdepth)) = 0
  BY <1>2, FS_EmptySet
<1>4. WordCountsHolders
  BY <1>3, ThreadsAssumption DEF WordCountsHolders, Writing, Init, FreeWord
<1> QED
  BY <1>1, <1>4, ThreadsAssumption
  DEF IInv, UnlockNeverMisses, PlaceAgrees, MutualExclusion, Writing, Init, FreeWord

\* Steps that only load the word leave every holder as it was.
LEMMA LoadStep ==
  ASSUME IInv, NEW t \in Threads,
         LockWriteLoad(t) \/ LockReadLoad(t) \/ TryLockReadLoad(t)
           \/ TryLockWriteLoad(t) \/ UnlockWriteLoad(t)
  PROVE  IInv'
<1>0. /\ UNCHANGED <<word, wdepth, rdepth>> /\ Load(t) /\ pc[t] = "out"
      /\ \E p \in Places \ {"out", "write_drain"} : Goto(t, p)
  BY DEF LockWriteLoad, LockReadLoad, TryLockReadLoad, TryLockWriteLoad,
         UnlockWriteLoad, Places
<1>1. TypeOK'
  BY <1>0 DEF IInv, TypeOK, Load, Goto
<1>2. WordCountsHolders'
  BY <1>0 DEF IInv, TypeOK, WordCountsHolders, Writing, Goto
<1>3. UnlockNeverMisses'
  BY <1>0 DEF IInv, TypeOK, UnlockNeverMisses, Goto, Load
<1>4. \A u \in Threads : PlaceAgrees(u)'
  BY DepthAssumption
  DEF IInv, TypeOK, WordCountsHolders, PlaceAgrees, Writing, Load, Goto, MayWrite, MayRead,
      LockWriteLoad, LockReadLoad, TryLockReadLoad, TryLockWriteLoad, UnlockWriteLoad
<1>5. MutualExclusion'
  BY <1>0 DEF IInv, MutualExclusion, Writing
<1> QED BY <1>1, <1>2, <1>3, <1>4, <1>5 DEF IInv

\* A failed exchange of lock_write or lock_read only reloads the word.
LEMMA RetryStep ==
  ASSUME IInv, NEW t \in Threads, pc[t] \in {"write_cas", "read_cas"},
         Load(t), UNCHANGED <<word, pc, wdepth, rdepth>>
  PROVE  IInv'
<1>1. TypeOK'
  BY DEF IInv, TypeOK, Load
<1>2. WordCountsHolders' /\ MutualExclusion'
  BY DEF IInv, WordCountsHolders, MutualExclusion, Writing
<1>3. UnlockNeverMisses' /\ \A u \in Threads : PlaceAgrees(u)'
  BY DEF IInv, TypeOK, UnlockNeverMisses, PlaceAgrees, Writing, Load
<1> QED BY <1>1, <1>2, <1>3 DEF IInv

\* A nested write lock, counted in the word its owner already holds.
LEMMA WriteAddStep ==
  ASSUME IInv, NEW t \in Threads, LockWriteAdd(t)
  PROVE  IInv'
<1>0. /\ Writing(t) /\ wdepth[t] < MaxDepth /\ word.owner = t /\ word.writes = wdepth[t]
      /\ word' = [word EXCEPT !.writes = wdepth[t] + 1]
      /\ wdepth' = [wdepth EXCEPT ![t] = @ + 1]
      /\ pc' = [pc EXCEPT ![t] = "out"] /\ UNCHANGED <<tmp, rdepth>>
  BY DepthAssumption
  DEF IInv, TypeOK, PlaceAgrees, WordCountsHolders, LockWriteAdd, AddWrite, GrantWrite, Goto
<1>1. TypeOK'
  BY <1>0, DepthAssumption DEF IInv, TypeOK, Words, Places
<1>2. \A u \in Threads \ {t} : wdepth[u] = 0 /\ pc[u] # "write_drain" /\ pc[u] # "unlock_cas"
  BY <1>0, OneOwner DEF IInv, PlaceAgrees, Writing, TypeOK
<1>3. WordCountsHolders'
  BY <1>0, <1>2, ThreadsAssumption DEF IInv, TypeOK, Words, WordCountsHolders, Writing
<1>4. UnlockNeverMisses' /\ MutualExclusion'
  BY <1>0, <1>2 DEF IInv, TypeOK, UnlockNeverMisses, MutualExclusion, Writing
<1>5. \A u \in Threads : PlaceAgrees(u)'
  BY <1>0, <1>2 DEF IInv, TypeOK, Words, PlaceAgrees, Writing
<1> QED BY <1>1, <1>3, <1>4, <1>5 DEF IInv

\* lock_write claims a word nobody writes under: the readers stay, the lock is not yet held.
LEMMA ClaimStep ==
  ASSUME IInv, NEW t \in Threads, pc[t] = "write_cas", word = OnlyReads(tmp[t]),
         word' = [word EXCEPT !.owner = t, !.writes = 1],
         Goto(t, "write_drain"), UNCHANGED <<tmp, wdepth, rdepth>>
  PROVE  IInv'
<1>0. /\ word.owner = NoThread /\ word.writes = 0
      /\ wdepth[t] = 0 /\ 0 < MaxDepth
  BY DEF IInv, TypeOK, Words, OnlyReads, PlaceAgrees
<1>1. TypeOK'
  <2>1. word' \in Words
    <3>1. 1 \in 0..WriteLimit
      BY <1>0, DepthAssumption
    <3> QED BY <3>1 DEF IInv, TypeOK, Words
  <2> QED BY <2>1 DEF IInv, TypeOK, Places, Goto
<1>2. \A u \in Threads : wdepth[u] = 0 /\ pc[u] # "write_drain" /\ pc[u] # "unlock_cas"
  BY <1>0, ThreadsAssumption DEF IInv, TypeOK, WordCountsHolders, PlaceAgrees, Writing
<1>3. WordCountsHolders'
  BY <1>0, <1>2, ThreadsAssumption DEF IInv, TypeOK, Words, WordCountsHolders, Writing, Goto
<1>4. UnlockNeverMisses' /\ MutualExclusion'
  BY <1>0, <1>2 DEF IInv, TypeOK, UnlockNeverMisses, MutualExclusion, Writing, Goto
<1>5. \A u \in Threads : PlaceAgrees(u)'
  BY <1>0, <1>2 DEF IInv, TypeOK, Words, PlaceAgrees, Writing, Goto
<1> QED BY <1>1, <1>3, <1>4, <1>5 DEF IInv

\* The last reader has left a claimed word: the claim becomes the write lock.
LEMMA DrainStep ==
  ASSUME IInv, NEW t \in Threads, LockWriteDrain(t)
  PROVE  IInv'
<1>0. /\ pc[t] = "write_drain" /\ word.owner = t /\ word.writes = 1 /\ word.reads = 0
      /\ wdepth[t] = 0 /\ 0 < MaxDepth
      /\ wdepth' = [wdepth EXCEPT ![t] = 1]
      /\ pc' = [pc EXCEPT ![t] = "out"] /\ UNCHANGED <<word, tmp, rdepth>>
  <2>1. pc[t] = "write_drain" /\ word.reads = 0 /\ wdepth' = [wdepth EXCEPT ![t] = @ + 1]
        /\ pc' = [pc EXCEPT ![t] = "out"] /\ UNCHANGED <<word, tmp, rdepth>>
    BY DEF LockWriteDrain, GrantWrite, Goto
  <2>2. word.owner = t /\ word.writes = 1 /\ wdepth[t] = 0 /\ 0 < MaxDepth
    BY <2>1 DEF IInv, WordCountsHolders, PlaceAgrees
  <2>3. wdepth' = [wdepth EXCEPT ![t] = 1]
    BY <2>1, <2>2
  <2> QED BY <2>1, <2>2, <2>3
<1>1. TypeOK'
  BY <1>0, DepthAssumption DEF IInv, TypeOK, Places
<1>2. \A u \in Threads \ {t} : wdepth[u] = 0 /\ pc[u] # "write_drain" /\ pc[u] # "unlock_cas"
  BY <1>0, OneOwner DEF IInv, PlaceAgrees, Writing, TypeOK
<1>3. \A u \in Threads : rdepth[u] = 0
  BY <1>0, NoTicketsNoReaders DEF IInv, TypeOK, WordCountsHolders
<1>4. WordCountsHolders'
  BY <1>0, <1>2, ThreadsAssumption DEF IInv, TypeOK, WordCountsHolders, Writing
<1>5. UnlockNeverMisses' /\ MutualExclusion'
  BY <1>0, <1>2, <1>3 DEF IInv, TypeOK, UnlockNeverMisses, MutualExclusion, Writing
<1>6. \A u \in Threads : PlaceAgrees(u)'
  BY <1>0, <1>2 DEF IInv, TypeOK, PlaceAgrees, Writing
<1> QED BY <1>1, <1>4, <1>5, <1>6 DEF IInv

\* A read lock is granted: under the thread's own write lock, or while nobody writes.
LEMMA GrantReadStep ==
  ASSUME IInv, NEW t \in Threads, pc[t] \in {"read_add", "read_cas", "tryread_cas"},
         pc[t] # "read_add" => word = OnlyReads(tmp[t]),
         word' = AddRead(word), GrantRead(t), Goto(t, "out"), UNCHANGED <<tmp, wdepth>>
  PROVE  IInv'
<1>0. rdepth[t] < MaxDepth /\ rdepth' = [rdepth EXCEPT ![t] = @ + 1]
  BY DEF IInv, PlaceAgrees, GrantRead
<1>1. /\ rdepth' \in [Threads -> 0..MaxDepth]
      /\ Cardinality(ReadTickets(rdepth')) = word.reads + 1
      /\ word.reads < ReadLimit
  <2>1. rdepth \in [Threads -> 0..MaxDepth] /\ word.reads = Cardinality(ReadTickets(rdepth))
    BY DEF IInv, TypeOK, WordCountsHolders
  <2> QED BY <1>0, <2>1, TicketAdded
<1>2. word' = [word EXCEPT !.reads = @ + 1] /\ word' \in Words
  <2>1. word.reads \in Nat /\ word \in Words
    BY DepthAssumption DEF IInv, TypeOK, Words
  <2>2. (word.reads + 1) % (ReadLimit + 1) = word.reads + 1 /\ word.reads + 1 \in 0..ReadLimit
    BY <1>1, <2>1, DepthAssumption
  <2>3. word' = [word EXCEPT !.reads = @ + 1]
    BY <2>2 DEF AddRead
  <2> QED BY <2>1, <2>2, <2>3 DEF Words
<1>3. TypeOK'
  BY <1>1, <1>2 DEF IInv, TypeOK, Places, Goto
<1>4. pc[t] = "read_add" => \A u \in Threads \ {t} : wdepth[u] = 0 /\ pc[u] # "write_drain"
                                                        /\ pc[u] # "unlock_cas"
  BY OneOwner DEF IInv, PlaceAgrees, Writing, TypeOK
<1>5. pc[t] # "read_add" => \A u \in Threads : wdepth[u] = 0 /\ pc[u] # "write_drain"
                                               /\ pc[u] # "unlock_cas"
  <2>1. pc[t] # "read_add" => word.owner = NoThread
    BY DEF IInv, TypeOK, Words, OnlyReads
  <2> QED BY <2>1, ThreadsAssumption DEF IInv, TypeOK, WordCountsHolders, PlaceAgrees, Writing
<1>6. \A u \in Threads \ {t} : wdepth[u] = 0 /\ pc[u] # "write_drain" /\ pc[u] # "unlock_cas"
  BY <1>4, <1>5
<1>7. WordCountsHolders'
  BY <1>1, <1>2, <1>6 DEF IInv, TypeOK, Words, WordCountsHolders, Writing, Goto
<1>8. UnlockNeverMisses' /\ MutualExclusion'
  BY <1>1, <1>0, <1>6 DEF IInv, TypeOK, UnlockNeverMisses, MutualExclusion, Writing, Goto
<1>9. \A u \in Threads : PlaceAgrees(u)'
  BY <1>0, <1>2, <1>6 DEF IInv, TypeOK, Words, PlaceAgrees, Writing, Goto
<1> QED BY <1>3, <1>7, <1>8, <1>9 DEF IInv

\* try_lock_write claims a word with no readers and no writer: the lock is held at once.
LEMMA TryWriteStep ==
  ASSUME IInv, NEW t \in Threads, pc[t] = "trywrite_cas", word = FreeWord,
         word' = [word EXCEPT !.owner = t, !.writes = 1],
         GrantWrite(t), Goto(t, "out"), UNCHANGED <<tmp, rdepth>>
  PROVE  IInv'
<1>0. /\ word.owner = NoThread /\ word.writes = 0 /\ word.reads = 0
      /\ wdepth[t] = 0 /\ 0 < MaxDepth /\ wdepth' = [wdepth EXCEPT ![t] = 1]
  <2>1. word.owner = NoThread /\ word.writes = 0 /\ word.reads = 0
    BY DEF FreeWord
  <2>2. wdepth[t] = 0 /\ 0 < MaxDepth
    BY DEF IInv, PlaceAgrees
  <2> QED BY <2>1, <2>2 DEF GrantWrite
<1>1. TypeOK'
  <2>1. word' \in Words
    <3>1. 1 \in 0..WriteLimit
      BY <1>0, DepthAssumption
    <3> QED BY <3>1 DEF IInv, TypeOK, Words
  <2>2. wdepth' \in [Threads -> 0..MaxDepth]
    BY <1>0, DepthAssumption DEF IInv, TypeOK
  <2> QED BY <2>1, <2>2 DEF IInv, TypeOK, Places, Goto
<1>2. \A u \in Threads : wdepth[u] = 0 /\ pc[u] # "write_drain" /\ pc[u] # "unlock_cas"
  BY <1>0, ThreadsAssumption DEF IInv, TypeOK, WordCountsHolders, PlaceAgrees, Writing
<1>3. \A u \in Threads : rdepth[u] = 0
  BY <1>0, NoTicketsNoReaders DEF IInv, TypeOK, WordCountsHolders
<1>4. WordCountsHolders'
  BY <1>0, <1>2, ThreadsAssumption DEF IInv, TypeOK, Words, WordCountsHolders, Writing, Goto
<1>5. UnlockNeverMisses' /\ MutualExclusion'
  BY <1>0, <1>2, <1>3 DEF IInv, TypeOK, UnlockNeverMisses, MutualExclusion, Writing, Goto
<1>6. \A u \in Threads : PlaceAgrees(u)'
  BY <1>0, <1>2 DEF IInv, TypeOK, Words, PlaceAgrees, Writing, Goto
<1> QED BY <1>1, <1>4, <1>5, <1>6 DEF IInv

\* A try form that fails changes nothing but the thread's place.
LEMMA TryFailsStep ==
  ASSUME IInv, NEW t \in Threads, pc[t] \in {"tryread_cas", "trywrite_cas"},
         Goto(t, "out"), UNCHANGED <<word, tmp, wdepth, rdepth>>
  PROVE  IInv'
<1>1. TypeOK'
  BY DEF IInv, TypeOK, Goto, Places
<1>2. WordCountsHolders' /\ MutualExclusion'
  BY DEF IInv, TypeOK, WordCountsHolders, MutualExclusion, Writing, Goto
<1>3. UnlockNeverMisses' /\ \A u \in Threads : PlaceAgrees(u)'
  BY DEF IInv, TypeOK, UnlockNeverMisses, PlaceAgrees, Writing, Goto
<1> QED BY <1>1, <1>2, <1>3 DEF IInv

\* unlock_write: the exchange succeeds, and the last one gives the word up.
LEMMA UnlockWriteStep ==
  ASSUME IInv, NEW t \in Threads, UnlockWriteCas(t)
  PROVE  IInv'
<1>0. /\ Writing(t) /\ word.owner = t /\ word.writes = wdepth[t]
      /\ word' = DropWrite(word) /\ wdepth' = [wdepth EXCEPT ![t] = @ - 1]
      /\ pc' = [pc EXCEPT ![t] = "out"] /\ UNCHANGED <<tmp, rdepth>>
  BY DEF IInv, PlaceAgrees, WordCountsHolders, UnlockNeverMisses, UnlockWriteCas, Goto
<1>1. wdepth[t] \in 1..MaxDepth
  BY <1>0 DEF IInv, TypeOK, Writing
<1>2. /\ word' \in Words /\ word'.reads = word.reads /\ word'.writes = wdepth[t] - 1
      /\ word'.owner = IF wdepth[t] = 1 THEN NoThread ELSE t
  <2>1. word \in Words /\ wdepth[t] - 1 \in 0..WriteLimit
    BY <1>1, DepthAssumption DEF IInv, TypeOK
  <2>2. CASE wdepth[t] = 1
    <3>1. word' = [word EXCEPT !.writes = 0, !.owner = NoThread]
      BY <1>0, <2>2 DEF DropWrite, OnlyReads
    <3>2. 0 \in 0..WriteLimit
      BY DepthAssumption
    <3>3. word' \in Words /\ word'.reads = word.reads /\ word'.writes = 0 /\ word'.owner = NoThread
      BY <2>1, <3>1, <3>2 DEF Words
    <3> QED BY <2>2, <3>3
  <2>3. CASE wdepth[t] # 1
    <3>1. word' = [word EXCEPT !.writes = wdepth[t] - 1]
      BY <1>0, <2>3 DEF DropWrite
    <3>2. word' \in Words /\ word'.reads = word.reads /\ word'.writes = wdepth[t] - 1
          /\ word'.owner = word.owner
      BY <2>1, <3>1 DEF Words
    <3> QED BY <1>0, <2>3, <3>2
  <2> QED BY <2>2, <2>3
<1>3. TypeOK'
  BY <1>0, <1>1, <1>2, DepthAssumption DEF IInv, TypeOK, Places
<1>4. \A u \in Threads \ {t} : wdepth[u] = 0 /\ pc[u] # "write_drain" /\ pc[u] # "unlock_cas"
  BY <1>0, OneOwner DEF IInv, PlaceAgrees, Writing, TypeOK
<1>5. WordCountsHolders'
  BY <1>0, <1>1, <1>2, <1>4, ThreadsAssumption DEF IInv, TypeOK, WordCountsHolders, Writing
<1>6. UnlockNeverMisses' /\ MutualExclusion'
  BY <1>0, <1>1, <1>4 DEF IInv, TypeOK, UnlockNeverMisses, MutualExclusion, Writing
<1>7. \A u \in Threads : PlaceAgrees(u)'
  BY <1>0, <1>1, <1>2, <1>4, ThreadsAssumption DEF IInv, TypeOK, PlaceAgrees, Writing
<1> QED BY <1>3, <1>5, <1>6, <1>7 DEF IInv

\* unlock_read: one reader less, under the thread's own write lock or under nobody's.
LEMMA UnlockReadStep ==
  ASSUME IInv, NEW t \in Threads, UnlockRead(t)
  PROVE  IInv'
<1>0. /\ rdepth[t] > 0 /\ rdepth' = [rdepth EXCEPT ![t] = @ - 1]
      /\ pc[t] = "out" /\ UNCHANGED <<tmp, pc, wdepth>>
  BY DEF UnlockRead
<1>1. /\ rdepth' \in [Threads -> 0..MaxDepth]
      /\ Cardinality(ReadTickets(rdepth')) = word.reads - 1
      /\ word.reads \in 1..ReadLimit
  <2>1. rdepth \in [Threads -> 0..MaxDepth] /\ word.reads = Cardinality(ReadTickets(rdepth))
    BY DEF IInv, TypeOK, WordCountsHolders
  <2> QED BY <1>0, <2>1, TicketRemoved
<1>2. (word.reads + ReadLimit) % (ReadLimit + 1) = word.reads - 1
  BY <1>1, DepthAssumption
<1>3. word' = [word EXCEPT !.reads = @ - 1] /\ word' \in Words
  BY <1>1, <1>2, DepthAssumption DEF IInv, TypeOK, Words, UnlockRead
<1>4. TypeOK'
  BY <1>0, <1>1, <1>3 DEF IInv, TypeOK
<1>5. WordCountsHolders'
  BY <1>0, <1>1, <1>3 DEF IInv, TypeOK, Words, WordCountsHolders, Writing
<1>6. \A u \in Threads : pc[u] # "unlock_cas" \/ u = t
  BY <1>0 DEF IInv, TypeOK, PlaceAgrees, MutualExclusion
<1>7. UnlockNeverMisses' /\ MutualExclusion'
  BY <1>0, <1>6 DEF IInv, TypeOK, UnlockNeverMisses, MutualExclusion, Writing
<1>8. \A u \in Threads : PlaceAgrees(u)'
  BY <1>0, <1>3 DEF IInv, TypeOK, Words, PlaceAgrees, Writing
<1> QED BY <1>4, <1>5, <1>7, <1>8 DEF IInv

LEMMA NextInv == IInv /\ [Next]_vars => IInv'
<1> SUFFICES ASSUME IInv, [Next]_vars PROVE IInv'
  OBVIOUS
<1>1. ASSUME UNCHANGED vars PROVE IInv'
  BY <1>1 DEF vars, IInv, TypeOK, WordCountsHolders, UnlockNeverMisses, PlaceAgrees,
              MutualExclusion, Writing
<1>2. ASSUME NEW t \in Threads, ThreadStep(t) PROVE IInv'
  <2>1. CASE LockWriteLoad(t) \/ LockReadLoad(t) \/ TryLockReadLoad(t)
               \/ TryLockWriteLoad(t) \/ UnlockWriteLoad(t)
    BY <2>1, LoadStep
  <2>2. CASE LockWriteAdd(t)
    BY <2>2, WriteAddStep
  <2>3. CASE LockWriteCas(t)
    BY <2>3, ClaimStep, RetryStep DEF LockWriteCas
  <2>4. CASE LockWriteDrain(t)
    BY <2>4, DrainStep
  <2>5. CASE LockReadAdd(t)
    BY <2>5, GrantReadStep DEF LockReadAdd
  <2>6. CASE LockReadCas(t)
    BY <2>6, GrantReadStep, RetryStep DEF LockReadCas
  <2>7. CASE TryLockReadCas(t)
    BY <2>7, GrantReadStep, TryFailsStep DEF TryLockReadCas
  <2>8. CASE TryLockWriteCas(t)
    BY <2>8, TryWriteStep, TryFailsStep DEF TryLockWriteCas
  <2>9. CASE UnlockWriteCas(t)
    BY <2>9, UnlockWriteStep
  <2>10. CASE UnlockRead(t)
    BY <2>10, UnlockReadStep
  <2> QED BY <1>2, <2>1, <2>2, <2>3, <2>4, <2>5, <2>6, <2>7, <2>8, <2>9, <2>10 DEF ThreadStep
<1> QED BY <1>1, <1>2 DEF Next

-----------------------------------------------------------------------------
\* The lock word always agrees with the locks the threads were granted: for any finite set
\* of threads and any nesting depth its fields can count.
THEOREM InvariantHolds == Spec => []IInv
<1> QED BY InitInv, NextInv, PTL DEF Spec

\* lock_write, lock_read and their try forms never let a writer meet anybody else.
THEOREM MutualExclusionHolds == Spec => []MutualExclusion
<1>1. IInv => MutualExclusion
  BY DEF IInv
<1> QED BY <1>1, InvariantHolds, PTL

\* The exchange in unlock_write, whose result the code ignores, always succeeds.
THEOREM UnlockNeverMissesHolds == Spec => []UnlockNeverMisses
<1>1. IInv => UnlockNeverMisses
  BY DEF IInv
<1> QED BY <1>1, InvariantHolds, PTL

-----------------------------------------------------------------------------
(* The lock word implements the abstract lock.                             *)

\* Granting the first write lock finds nobody else inside: the claim is exclusive and an
\* empty reader field means no readers.
LEMMA WriterFindsNobody ==
  ASSUME IInv, NEW t \in Threads,
         \/ pc[t] = "write_add"
         \/ pc[t] = "write_drain" /\ word.reads = 0
         \/ pc[t] = "trywrite_cas" /\ word = FreeWord
  PROVE  RW!OthersOut(t)
<1>1. CASE pc[t] = "write_add"
  BY <1>1 DEF IInv, PlaceAgrees, MutualExclusion, RW!OthersOut
<1>2. CASE pc[t] # "write_add"
  <2>1. word.reads = 0
    BY <1>2 DEF FreeWord
  <2>2. \A u \in Threads : rdepth[u] = 0
    BY <2>1, NoTicketsNoReaders DEF IInv, TypeOK, WordCountsHolders
  <2>3. CASE pc[t] = "write_drain"
    BY <2>2, <2>3, OneOwner DEF RW!OthersOut
  <2>4. CASE word = FreeWord
    BY <2>2, <2>4, ThreadsAssumption
    DEF IInv, TypeOK, WordCountsHolders, Writing, FreeWord, RW!OthersOut
  <2> QED BY <1>2, <2>3, <2>4
<1> QED BY <1>1, <1>2

\* Granting a read lock finds no other writer.
LEMMA ReaderFindsNoWriter ==
  ASSUME IInv, NEW t \in Threads,
         \/ pc[t] = "read_add"
         \/ word = OnlyReads(tmp[t])
  PROVE  \A u \in Threads \ {t} : wdepth[u] = 0
<1>1. CASE pc[t] = "read_add"
  BY <1>1 DEF IInv, PlaceAgrees, MutualExclusion
<1>2. CASE word = OnlyReads(tmp[t])
  <2>1. word.owner = NoThread
    BY <1>2 DEF IInv, TypeOK, Words, OnlyReads
  <2> QED BY <2>1, ThreadsAssumption DEF IInv, TypeOK, WordCountsHolders, Writing
<1> QED BY <1>1, <1>2

\* Every behaviour of the lock word is a behaviour of the abstract read/write lock, with the
\* granted locks as its state: spinlock.h keeps the promise of RWLock.
THEOREM Refinement == Spec => RW!RWSpec
<1>1. Init => RW!RWInit
  BY DEF Init, RW!RWInit
<1>2. IInv /\ [Next]_vars => [RW!RWNext]_(RW!rwvars)
  <2> SUFFICES ASSUME IInv, [Next]_vars PROVE [RW!RWNext]_(RW!rwvars)
    OBVIOUS
  <2>1. CASE UNCHANGED vars
    BY <2>1 DEF vars, RW!rwvars
  <2>2. ASSUME NEW t \in Threads, ThreadStep(t) PROVE [RW!RWNext]_(RW!rwvars)
    <3> USE DEF RW!RWNext, RW!rwvars
    <3>1. CASE LockWriteAdd(t)
      BY <3>1, WriterFindsNobody DEF LockWriteAdd, GrantWrite, RW!AcquireWrite
    <3>2. CASE LockWriteDrain(t)
      BY <3>2, WriterFindsNobody DEF LockWriteDrain, GrantWrite, RW!AcquireWrite
    <3>3. CASE TryLockWriteCas(t)
      BY <3>3, WriterFindsNobody DEF TryLockWriteCas, GrantWrite, RW!AcquireWrite
    <3>4. CASE LockReadAdd(t)
      BY <3>4, ReaderFindsNoWriter DEF LockReadAdd, GrantRead, RW!AcquireRead
    <3>5. CASE LockReadCas(t)
      BY <3>5, ReaderFindsNoWriter DEF LockReadCas, GrantRead, RW!AcquireRead
    <3>6. CASE TryLockReadCas(t)
      BY <3>6, ReaderFindsNoWriter DEF TryLockReadCas, GrantRead, RW!AcquireRead
    <3>7. CASE UnlockWriteCas(t)
      BY <3>7 DEF UnlockWriteCas, RW!ReleaseWrite, IInv, PlaceAgrees, Writing
    <3>8. CASE UnlockRead(t)
      BY <3>8 DEF UnlockRead, RW!ReleaseRead
    <3>9. CASE LockWriteLoad(t) \/ LockReadLoad(t) \/ TryLockReadLoad(t) \/ TryLockWriteLoad(t)
                 \/ UnlockWriteLoad(t) \/ LockWriteCas(t)
      BY <3>9 DEF LockWriteLoad, LockReadLoad, TryLockReadLoad, TryLockWriteLoad,
                  UnlockWriteLoad, LockWriteCas
    <3> QED BY <2>2, <3>1, <3>2, <3>3, <3>4, <3>5, <3>6, <3>7, <3>8, <3>9 DEF ThreadStep
  <2> QED BY <2>1, <2>2 DEF Next
<1> QED BY <1>1, <1>2, InvariantHolds, PTL DEF Spec, RW!RWSpec

\* "many readers, writer wait and block new readers": a claim lets nobody else in.
THEOREM ClaimBlocksNewcomersHolds == Spec => ClaimBlocksNewcomers
<1>1. IInv /\ [Next]_vars =>
        [\A t, u \in Threads : t # u /\ pc[t] = "write_drain" =>
           rdepth'[u] <= rdepth[u] /\ wdepth'[u] <= wdepth[u]]_vars
  <2> SUFFICES ASSUME IInv, Next, NEW t \in Threads, NEW u \in Threads,
                      t # u, pc[t] = "write_drain"
               PROVE  rdepth'[u] <= rdepth[u] /\ wdepth'[u] <= wdepth[u]
    OBVIOUS
  <2>1. wdepth[u] = 0 /\ pc[u] # "write_drain" /\ word.owner = t /\ word.writes > 0
    BY OneOwner
  <2>2. rdepth[u] \in Nat /\ wdepth[u] \in Nat
    BY DEF IInv, TypeOK
  <2>3. PICK s \in Threads : ThreadStep(s)
    BY DEF Next
  <2>4. CASE s # u
    BY <2>2, <2>3, <2>4
    DEF IInv, TypeOK, ThreadStep, LockWriteLoad, LockReadLoad, TryLockReadLoad,
        TryLockWriteLoad, UnlockWriteLoad, LockWriteAdd, LockWriteCas, LockWriteDrain,
        LockReadAdd, LockReadCas, TryLockReadCas, TryLockWriteCas, UnlockWriteCas, UnlockRead,
        GrantRead, GrantWrite
  <2>5. CASE s = u
    <3>1. pc[u] \notin {"write_add", "read_add", "unlock_cas"}
      BY <2>1 DEF IInv, PlaceAgrees, Writing
    <3>2. word # OnlyReads(tmp[u]) /\ word # FreeWord
      <4>1. OnlyReads(tmp[u]).owner = NoThread /\ FreeWord.owner = NoThread
        BY DEF OnlyReads, FreeWord, IInv, TypeOK, Words
      <4> HIDE DEF OnlyReads, FreeWord
      <4> QED BY <2>1, <4>1, ThreadsAssumption
    <3> QED
      BY <2>1, <2>2, <2>3, <2>5, <3>1, <3>2
      DEF IInv, TypeOK, ThreadStep, LockWriteLoad, LockReadLoad, TryLockReadLoad,
          TryLockWriteLoad, UnlockWriteLoad, LockWriteAdd, LockWriteCas, LockWriteDrain,
          LockReadAdd, LockReadCas, TryLockReadCas, TryLockWriteCas, UnlockWriteCas, UnlockRead
  <2> QED BY <2>4, <2>5
<1> QED BY <1>1, InvariantHolds, PTL DEF Spec, ClaimBlocksNewcomers
=============================================================================
