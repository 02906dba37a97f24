------------------------------- MODULE RWLock -------------------------------
(***************************************************************************)
(* What the read/write lock of spinlock.h promises its users, without the  *)
(* lock word: a thread may nest the locks it holds, one thread may write,  *)
(* and while it does nobody else reads or writes.  wdepth[t] and rdepth[t] *)
(* count the write and the read locks thread t holds.                      *)
(***************************************************************************)
EXTENDS Naturals

CONSTANT Threads   \* the threads that share the lock

VARIABLES wdepth, rdepth

rwvars == <<wdepth, rdepth>>

RWInit == /\ wdepth = [t \in Threads |-> 0]
          /\ rdepth = [t \in Threads |-> 0]

\* Nobody but t holds the lock in any mode.
OthersOut(t) == \A u \in Threads \ {t} : wdepth[u] = 0 /\ rdepth[u] = 0

\* A write lock excludes everybody else, whether it is the first or a nested one.
AcquireWrite(t) ==
  /\ OthersOut(t)
  /\ wdepth' = [wdepth EXCEPT ![t] = @ + 1]
  /\ UNCHANGED rdepth

\* A read lock excludes the write locks of the others.
AcquireRead(t) ==
  /\ \A u \in Threads \ {t} : wdepth[u] = 0
  /\ rdepth' = [rdepth EXCEPT ![t] = @ + 1]
  /\ UNCHANGED wdepth

ReleaseWrite(t) ==
  /\ wdepth[t] > 0
  /\ wdepth' = [wdepth EXCEPT ![t] = @ - 1]
  /\ UNCHANGED rdepth

ReleaseRead(t) ==
  /\ rdepth[t] > 0
  /\ rdepth' = [rdepth EXCEPT ![t] = @ - 1]
  /\ UNCHANGED wdepth

RWNext == \E t \in Threads : \/ AcquireWrite(t) \/ AcquireRead(t)
                             \/ ReleaseWrite(t) \/ ReleaseRead(t)

RWSpec == RWInit /\ [][RWNext]_rwvars
=============================================================================
