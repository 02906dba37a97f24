--------------------------- MODULE Listener_proofs --------------------------
(***************************************************************************)
(* Proofs about Listener, for any number of listeners and both builds.     *)
(***************************************************************************)
EXTENDS Listener, FiniteSetTheorems, TLAPS

\* The listeners that engine::numlisteners counts.
Counted == {l \in Listeners : acc[l] \notin {"off", "unlock", "done"}}

\* An acceptor has claimed the lock of its listener exactly in these places.
Claiming == {"drainStart", "drainLeave", "decrement", "unlock"}

Places ==
  /\ build \in Builds /\ exit \in BOOLEAN
  /\ main \in [at : MainPlaces, l : Listeners]
  /\ acc \in [Listeners -> AccPlaces]
  /\ stage \in [Listeners -> {"IDLE", "ACCEPTOR_START", "ACCEPTOR_WORKS"}]
  /\ needStop \in [Listeners -> BOOLEAN]
  /\ claim \in [Listeners -> Listeners \cup {Main, None}] /\ held \subseteq Listeners
  /\ sock \in [Listeners -> {"none", "open", "listening"}]
  /\ backlog \in [Listeners -> Nat]

CountInv == numlisteners = Cardinality(Counted)

\* Who has claimed a lock can be told from the places of the two threads.
LockInv ==
  \A l \in Listeners :
    /\ claim[l] \in {l, Main, None}
    /\ claim[l] = l <=> acc[l] \in Claiming
    /\ claim[l] = Main <=> main.l = l /\ main.at \in {"drainStop", "drainReset"}

\* The stage is IDLE before the thread exists and from its last locked section on.
StageInv ==
  \A l \in Listeners : stage[l] = "IDLE" <=> acc[l] \in {"off", "decrement", "unlock", "done"}

\* The listeners are opened in their order, all of them unless the configuration is unusable.
OpenInv ==
  /\ main.at = "open" => \A l \in Listeners : l < main.l <=> acc[l] # "off"
  /\ main.at # "open" /\ ~exit => \A l \in Listeners : acc[l] # "off"
  /\ main.at \in {"working", "quit"} => main.l = 1

\* What the main thread knows once it has seen IDLE or counted no listeners.
AfterInv ==
  /\ main.at \in {"claimReset", "drainReset"} => acc[main.l] \in {"off", "done"}
  /\ main.at = "quit" => \A l \in Listeners : acc[l] \in {"unlock", "done"}
  /\ \A l \in Listeners : Stopped(l) => acc[l] \in {"off", "done"}

IInv == Places /\ CountInv /\ LockInv /\ StageInv /\ OpenInv /\ AfterInv

-----------------------------------------------------------------------------
(* The count.                                                              *)

LEMMA CountedFinite ==
  IsFiniteSet(Counted) /\ Cardinality(Counted) \in 0..N
<1>1. IsFiniteSet(Listeners) /\ Cardinality(Listeners) = N
  BY FS_Interval, ListenersAssumption DEF Listeners
<1>2. Counted \in SUBSET Listeners
  BY DEF Counted
<1>3. IsFiniteSet(Counted) /\ Cardinality(Counted) <= N
  BY <1>1, <1>2, FS_Subset
<1> QED BY <1>3, FS_CardinalityType, ListenersAssumption

\* Without counted listeners no acceptor is between its start and its last unlock.
LEMMA CountZero ==
  ASSUME CountInv, numlisteners <= 0
  PROVE  \A l \in Listeners : acc[l] \in {"off", "unlock", "done"}
<1>1. Cardinality(Counted) = 0
  BY CountedFinite DEF CountInv
<1>2. Counted = {}
  BY <1>1, CountedFinite, FS_EmptySet
<1> QED BY <1>2 DEF Counted

\* open() and the acceptor's last section change the count, nothing else does.
LEMMA CountStep ==
  ASSUME Places, CountInv, OpenInv, [Next]_vars
  PROVE  CountInv'
<1> USE DEF Places
<1>1. CASE Open
  <2>1. Counted' = Counted \cup {main.l} /\ main.l \notin Counted
    BY <1>1 DEF Open, Counted, OpenInv, MainAt, AccGoto, Listeners
  <2>2. Cardinality(Counted') = Cardinality(Counted) + 1
    BY <2>1, CountedFinite, FS_AddElement
  <2> QED BY <1>1, <2>2 DEF Open, CountInv
<1>2. ASSUME NEW l \in Listeners, AccDecrement(l) PROVE CountInv'
  <2>1. Counted' = Counted \ {l} /\ l \in Counted
    BY <1>2 DEF AccDecrement, Counted, AccAt, AccGoto
  <2>2. Cardinality(Counted') = Cardinality(Counted) - 1
    BY <2>1, CountedFinite, FS_RemoveElement
  <2> QED BY <1>2, <2>2 DEF AccDecrement, CountInv
<1>3. ASSUME UNCHANGED numlisteners, Counted' = Counted PROVE CountInv'
  BY <1>3 DEF CountInv
<1>4. ASSUME NEW l \in Listeners, AccStep(l), ~AccDecrement(l)
      PROVE  UNCHANGED numlisteners /\ Counted' = Counted
  BY <1>4 DEF AccStep, AccClaim, AccWorks, AccBind, AccSocket, AccListen, AccLoop, AccCheck,
     AccAccept, AccReturn, AccTaken, AccServe, AccIdle, AccUnlock, AccAt, AccGoto, Counted
<1>5. ASSUME MainStep \/ CtorFails \/ Signal \/ (\E l \in Listeners : Client(l)) \/ Over
               \/ UNCHANGED vars, ~Open
      PROVE  UNCHANGED <<numlisteners, acc>>
  BY <1>5 DEF MainStep, WorkingStop, WorkingQuit, StopStep, StopCheck, StopClaim, StopRaise,
     StopHandler, StopRead, StopConnect, StopClose, StopPoll, StopReset, CtorFails, Signal,
     Client, Over, vars
<1>6. ASSUME UNCHANGED <<numlisteners, acc>> PROVE CountInv'
  BY <1>6, <1>3 DEF Counted
<1> QED BY <1>1, <1>2, <1>3, <1>4, <1>5, <1>6 DEF Next, MainStep

-----------------------------------------------------------------------------
(* The other parts of the invariant.                                       *)

LEMMA InitInv == Init => IInv
<1> SUFFICES ASSUME Init PROVE IInv
  OBVIOUS
<1> USE ListenersAssumption, ThreadsAssumption DEF Init, Listeners
<1>1. Places
  <2>1. build \in Builds /\ exit \in BOOLEAN
    BY Zenon
  <2>5. main \in [at : MainPlaces, l : Listeners]
    BY DEF MainPlaces
  <2>2. acc \in [Listeners -> AccPlaces]
    BY DEF AccPlaces
  <2>3. /\ stage \in [Listeners -> {"IDLE", "ACCEPTOR_START", "ACCEPTOR_WORKS"}]
        /\ needStop \in [Listeners -> BOOLEAN]
    OBVIOUS
  <2>4. /\ claim \in [Listeners -> Listeners \cup {Main, None}] /\ held \subseteq Listeners
        /\ sock \in [Listeners -> {"none", "open", "listening"}]
        /\ backlog \in [Listeners -> Nat]
    OBVIOUS
  <2> QED BY <2>1, <2>2, <2>3, <2>4, <2>5 DEF Places
<1>2. CountInv
  <2>1. Counted = {}
    BY DEF Counted
  <2> QED BY <2>1, FS_EmptySet DEF CountInv
<1>3. LockInv
  BY DEF LockInv, Claiming
<1>4. StageInv
  BY DEF StageInv
<1>5. OpenInv
  BY DEF OpenInv
<1>6. AfterInv
  BY DEF AfterInv, Stopped, MainAt
<1> QED BY <1>1, <1>2, <1>3, <1>4, <1>5, <1>6 DEF IInv

\* Every variable keeps its type.
LEMMA PlacesStep ==
  ASSUME Places, [Next]_vars
  PROVE  Places'
<1>1. build' \in Builds /\ exit' \in BOOLEAN
  <2>1. build' = build /\ (exit' = exit \/ exit' = TRUE)
    BY DEF Next, MainStep, StopStep, AccStep, vars, Open, WorkingStop, WorkingQuit, StopCheck,
       StopClaim, StopRaise, StopHandler, StopRead, StopConnect, StopClose, StopPoll, StopReset,
       AccClaim, AccWorks, AccBind, AccSocket, AccListen, AccLoop, AccCheck, AccAccept, AccReturn,
       AccTaken, AccServe, AccIdle, AccDecrement, AccUnlock, CtorFails, Signal, Client, Over
  <2>2. build' \in Builds
    BY <2>1 DEF Places
  <2>3. exit' \in BOOLEAN
    BY <2>1, Zenon DEF Places
  <2> QED BY <2>2, <2>3
<1>2. main' \in [at : MainPlaces, l : Listeners]
  <2> USE ListenersAssumption DEF Places, MainPlaces, MainAt, MainGoto, Listeners, AfterStop
  <2>1. CASE Open \/ WorkingStop \/ WorkingQuit \/ CtorFails
    BY <2>1 DEF Open, WorkingStop, WorkingQuit, CtorFails
  <2>2. CASE StopCheck \/ StopClaim \/ StopRaise \/ StopHandler
    BY <2>2 DEF StopCheck, StopClaim, StopRaise, StopHandler
  <2>3. CASE StopRead \/ StopConnect \/ StopClose \/ StopPoll \/ StopReset
    BY <2>3 DEF StopRead, StopConnect, StopClose, StopPoll, StopReset
  <2>4. CASE UNCHANGED main
    BY <2>4
  <2>5. ASSUME NEW l \in Listeners, AccStep(l) PROVE UNCHANGED main
    BY <2>5 DEF AccStep, AccClaim, AccWorks, AccBind, AccSocket, AccListen, AccLoop, AccCheck,
       AccAccept, AccReturn, AccTaken, AccServe, AccIdle, AccDecrement, AccUnlock
  <2> QED BY <2>1, <2>2, <2>3, <2>4, <2>5 DEF Next, MainStep, StopStep, Client, Signal, Over, vars
<1>3. acc' \in [Listeners -> AccPlaces]
  <2> USE DEF Places, AccPlaces, AccAt, AccGoto
  <2>1. ASSUME NEW l \in Listeners, AccStep(l) PROVE acc' \in [Listeners -> AccPlaces]
    BY <2>1 DEF AccStep, AccClaim, AccWorks, AccBind, AccSocket, AccListen, AccLoop, AccCheck,
       AccAccept, AccReturn, AccTaken, AccServe, AccIdle, AccDecrement, AccUnlock
  <2>2. CASE MainStep
    BY <2>2 DEF MainStep, StopStep, Open, WorkingStop, WorkingQuit, StopCheck, StopClaim, StopRaise,
       StopHandler, StopRead, StopConnect, StopClose, StopPoll, StopReset
  <2> QED BY <2>1, <2>2 DEF Next, CtorFails, Client, Signal, Over, vars
<1>4. /\ stage' \in [Listeners -> {"IDLE", "ACCEPTOR_START", "ACCEPTOR_WORKS"}]
      /\ needStop' \in [Listeners -> BOOLEAN]
  <2> USE DEF Places, guarded
  <2>1. ASSUME NEW l \in Listeners, AccStep(l) PROVE <1>4!:
    BY <2>1 DEF AccStep, AccClaim, AccWorks, AccBind, AccSocket, AccListen, AccLoop, AccCheck,
       AccAccept, AccReturn, AccTaken, AccServe, AccIdle, AccDecrement, AccUnlock
  <2>2. CASE MainStep
    BY <2>2 DEF MainStep, StopStep, Open, WorkingStop, WorkingQuit, StopCheck, StopClaim, StopRaise,
       StopHandler, StopRead, StopConnect, StopClose, StopPoll, StopReset
  <2> QED BY <2>1, <2>2 DEF Next, CtorFails, Client, Signal, Over, vars
<1>5. claim' \in [Listeners -> Listeners \cup {Main, None}] /\ held' \subseteq Listeners
  <2> USE DEF Places, locks, MainAt, AccAt
  <2>1. ASSUME NEW l \in Listeners, AccStep(l) PROVE <1>5!:
    BY <2>1 DEF AccStep, AccClaim, AccWorks, AccBind, AccSocket, AccListen, AccLoop, AccCheck,
       AccAccept, AccReturn, AccTaken, AccServe, AccIdle, AccDecrement, AccUnlock
  <2>2. CASE MainStep
    BY <2>2 DEF MainStep, StopStep, Open, WorkingStop, WorkingQuit, StopCheck, StopClaim, StopRaise,
       StopHandler, StopRead, StopConnect, StopClose, StopPoll, StopReset
  <2> QED BY <2>1, <2>2 DEF Next, CtorFails, Client, Signal, Over, vars
<1>6. sock' \in [Listeners -> {"none", "open", "listening"}] /\ backlog' \in [Listeners -> Nat]
  <2> USE DEF Places, network
  <2>1. ASSUME NEW l \in Listeners, AccStep(l) PROVE <1>6!:
    BY <2>1 DEF AccStep, AccClaim, AccWorks, AccBind, AccSocket, AccListen, AccLoop, AccCheck,
       AccAccept, AccReturn, AccTaken, AccServe, AccIdle, AccDecrement, AccUnlock
  <2>2. CASE MainStep
    BY <2>2 DEF MainStep, StopStep, Open, WorkingStop, WorkingQuit, StopCheck, StopClaim, StopRaise,
       StopHandler, StopRead, StopConnect, StopClose, StopPoll, StopReset
  <2> QED BY <2>1, <2>2 DEF Next, CtorFails, Client, Signal, Over, vars
<1> QED BY <1>1, <1>2, <1>3, <1>4, <1>5, <1>6 DEF Places

\* A claim is taken and given back at the places LockInv names.
LEMMA LockStep ==
  ASSUME Places, LockInv, OpenInv, [Next]_vars
  PROVE  LockInv'
<1> USE ListenersAssumption, ThreadsAssumption DEF Places, LockInv, Listeners, LockFree
<1>1. ASSUME NEW l \in Listeners, AccStep(l) PROVE LockInv'
  <2> USE DEF AccAt, AccGoto, Claiming, locks
  <2>1. CASE AccClaim(l)
    <3>1. claim[l] = None /\ claim' = [claim EXCEPT ![l] = l] /\ UNCHANGED main
      BY <2>1 DEF AccClaim
    <3>2. acc'[l] \in Claiming /\ \A k \in Listeners \ {l} : acc'[k] = acc[k]
      BY <2>1 DEF AccClaim
    <3>3. l # Main /\ l # None /\ ~(main.l = l /\ main.at \in {"drainStop", "drainReset"})
      BY <3>1
    <3> QED BY <3>1, <3>2, <3>3
  <2>2. CASE AccWorks(l)
    <3>1. claim[l] = l /\ claim' = [claim EXCEPT ![l] = None] /\ UNCHANGED main
      BY <2>2 DEF AccWorks
    <3>2. acc'[l] \notin Claiming /\ \A k \in Listeners \ {l} : acc'[k] = acc[k]
      BY <2>2 DEF AccWorks
    <3>3. l # Main /\ l # None /\ ~(main.l = l /\ main.at \in {"drainStop", "drainReset"})
      BY <3>1
    <3> QED BY <3>1, <3>2, <3>3
  <2>3. ASSUME UNCHANGED <<main, claim>>, \A k \in Listeners : acc[k] \in Claiming <=> acc'[k] \in Claiming
        PROVE  LockInv'
    BY <2>3
  <2>4. CASE AccBind(l) \/ AccSocket(l) \/ AccListen(l) \/ AccLoop(l)
    <3>1. UNCHANGED <<main, claim>>
      BY <2>4 DEF AccBind, AccSocket, AccListen, AccLoop
    <3>2. \A k \in Listeners : acc[k] \in Claiming <=> acc'[k] \in Claiming
      BY <2>4 DEF AccBind, AccSocket, AccListen, AccLoop
    <3> QED BY <2>3, <3>1, <3>2
  <2>5. CASE AccCheck(l) \/ AccAccept(l) \/ AccReturn(l)
    <3>1. UNCHANGED <<main, claim>>
      BY <2>5 DEF AccCheck, AccAccept, AccReturn
    <3>2. \A k \in Listeners : acc[k] \in Claiming <=> acc'[k] \in Claiming
      BY <2>5 DEF AccCheck, AccAccept, AccReturn
    <3> QED BY <2>3, <3>1, <3>2
  <2>6. CASE AccTaken(l) \/ AccServe(l) \/ AccIdle(l) \/ AccDecrement(l)
    BY <2>3, <2>6 DEF AccTaken, AccServe, AccIdle, AccDecrement
  <2>7. CASE AccUnlock(l)
    <3>1. claim[l] = l /\ claim' = [claim EXCEPT ![l] = None] /\ acc' = [acc EXCEPT ![l] = "done"]
      BY <2>7 DEF AccUnlock
    <3>2. UNCHANGED main /\ l # None /\ l # Main
      BY <2>7 DEF AccUnlock
    <3> QED BY <3>1, <3>2
  <2> QED BY <1>1, <2>1, <2>2, <2>4, <2>5, <2>6, <2>7 DEF AccStep
<1>2. CASE MainStep
  <2> USE DEF MainAt, MainGoto, locks
  <2>1. CASE Open
    <3>1. UNCHANGED claim /\ main.at = "open" /\ main'.at \in {"open", "working"}
      BY <2>1 DEF Open
    <3>2. \A l \in Listeners : acc[l] \in Claiming <=> acc'[l] \in Claiming
      BY <2>1 DEF Open, OpenInv, AccGoto, Claiming
    <3> QED BY <3>1, <3>2
  <2>2. CASE StopClaim
    BY <2>2 DEF StopClaim
  <2>3. CASE StopRaise \/ StopReset
    BY <2>3 DEF StopRaise, StopReset, AfterStop
  <2>4. CASE WorkingStop \/ WorkingQuit \/ StopCheck
    BY <2>4 DEF WorkingStop, WorkingQuit, StopCheck, AfterStop
  <2>5. CASE StopHandler \/ StopRead \/ StopConnect \/ StopClose \/ StopPoll
    BY <2>5 DEF StopHandler, StopRead, StopConnect, StopClose, StopPoll
  <2> QED BY <1>2, <2>1, <2>2, <2>3, <2>4, <2>5 DEF MainStep, StopStep
<1>3. CASE CtorFails
  BY <1>3 DEF CtorFails, MainAt, MainGoto, locks
<1>4. CASE UNCHANGED <<main, acc, claim>>
  BY <1>4
<1> QED BY <1>1, <1>2, <1>3, <1>4 DEF Next, Client, Signal, Over, vars, locks

LEMMA StageStep ==
  ASSUME Places, StageInv, OpenInv, [Next]_vars
  PROVE  StageInv'
<1> USE DEF Places, StageInv
<1>1. ASSUME NEW l \in Listeners, AccStep(l) PROVE StageInv'
  <2> USE DEF AccAt, AccGoto, guarded
  <2>1. CASE AccClaim(l) \/ AccWorks(l) \/ AccBind(l) \/ AccSocket(l) \/ AccListen(l)
    BY <2>1 DEF AccClaim, AccWorks, AccBind, AccSocket, AccListen
  <2>2. CASE AccLoop(l) \/ AccCheck(l) \/ AccAccept(l) \/ AccReturn(l)
    BY <2>2 DEF AccLoop, AccCheck, AccAccept, AccReturn
  <2>3. CASE AccTaken(l) \/ AccServe(l) \/ AccIdle(l) \/ AccDecrement(l) \/ AccUnlock(l)
    BY <2>3 DEF AccTaken, AccServe, AccIdle, AccDecrement, AccUnlock
  <2> QED BY <1>1, <2>1, <2>2, <2>3 DEF AccStep
<1>2. CASE Open
  BY <1>2 DEF Open, AccGoto
<1>3. CASE UNCHANGED <<stage, acc>>
  BY <1>3
<1> QED
  BY <1>1, <1>2, <1>3 DEF Next, MainStep, StopStep, WorkingStop, WorkingQuit, StopCheck, StopClaim,
     StopRaise, StopHandler, StopRead, StopConnect, StopClose, StopPoll, StopReset, CtorFails,
     Client, Signal, Over, vars, guarded

LEMMA OpenStep ==
  ASSUME Places, OpenInv, [Next]_vars
  PROVE  OpenInv'
<1> USE ListenersAssumption DEF Places, OpenInv, Listeners
<1>1. ASSUME NEW l \in Listeners, AccStep(l) PROVE OpenInv'
  <2>1. UNCHANGED <<main, exit>> /\ acc[l] # "off" /\ \E p : p # "off" /\ acc' = [acc EXCEPT ![l] = p]
    BY <1>1 DEF AccStep, AccClaim, AccWorks, AccBind, AccSocket, AccListen, AccLoop, AccCheck,
       AccAccept, AccReturn, AccTaken, AccServe, AccIdle, AccDecrement, AccUnlock, AccAt, AccGoto
  <2> QED BY <2>1
<1>2. CASE Open
  BY <1>2 DEF Open, AccGoto, MainAt
<1>3. CASE WorkingStop \/ WorkingQuit \/ CtorFails
  BY <1>3 DEF WorkingStop, WorkingQuit, CtorFails, MainAt, MainGoto
<1>4. CASE StopStep
  <2>1. UNCHANGED <<acc, exit>> /\ main.at \notin {"open", "working", "quit"}
    BY <1>4 DEF StopStep, StopCheck, StopClaim, StopRaise, StopHandler, StopRead, StopConnect,
       StopClose, StopPoll, StopReset, MainAt
  <2>2. main'.at \notin {"open", "working", "quit"}
    BY <1>4 DEF StopStep, StopCheck, StopClaim, StopRaise, StopHandler, StopRead, StopConnect,
       StopClose, StopPoll, StopReset, MainAt, MainGoto, AfterStop
  <2> QED BY <2>1, <2>2
<1>5. CASE UNCHANGED <<main, acc>> /\ (exit => exit')
  BY <1>5
<1> QED BY <1>1, <1>2, <1>3, <1>4, <1>5 DEF Next, MainStep, Client, Signal, Over, vars

LEMMA AfterStep ==
  ASSUME IInv, [Next]_vars
  PROVE  AfterInv'
<1> USE ListenersAssumption DEF IInv, Places, AfterInv, Stopped, Listeners, MainAt
<1>1. ASSUME NEW l \in Listeners, AccStep(l) PROVE AfterInv'
  <2>1. UNCHANGED main /\ acc[l] \notin {"off", "done"} /\ \E p : acc' = [acc EXCEPT ![l] = p]
    BY <1>1 DEF AccStep, AccClaim, AccWorks, AccBind, AccSocket, AccListen, AccLoop, AccCheck,
       AccAccept, AccReturn, AccTaken, AccServe, AccIdle, AccDecrement, AccUnlock, AccAt, AccGoto
  <2>2. acc[l] = "unlock" => acc'[l] = "done"
    BY <1>1 DEF AccStep, AccClaim, AccWorks, AccBind, AccSocket, AccListen, AccLoop, AccCheck,
       AccAccept, AccReturn, AccTaken, AccServe, AccIdle, AccDecrement, AccUnlock, AccAt, AccGoto
  <2> QED BY <2>1, <2>2
<1>2. CASE Open \/ WorkingStop \/ CtorFails
  BY <1>2 DEF Open, WorkingStop, CtorFails, MainGoto, AccGoto
<1>3. CASE WorkingQuit
  <2>1. \A l \in Listeners : acc[l] \in {"off", "unlock", "done"}
    BY <1>3, CountZero DEF WorkingQuit
  <2>2. \A l \in Listeners : acc[l] \in {"unlock", "done"}
    BY <1>3, <2>1 DEF WorkingQuit, OpenInv
  <2> QED BY <1>3, <2>2 DEF WorkingQuit, MainGoto, OpenInv
<1>4. CASE StopCheck
  <2>1. stage[main.l] = "IDLE" => acc[main.l] \in {"off", "done"}
    BY <1>4, ThreadsAssumption DEF StopCheck, StageInv, LockInv, Claiming, LockFree
  <2> QED BY <1>4, <2>1 DEF StopCheck, AfterStop
<1>5. CASE StopPoll
  <2>1. acc[main.l] \in {"off", "done"}
    BY <1>5, ThreadsAssumption DEF StopPoll, StageInv, LockInv, Claiming, LockFree
  <2> QED BY <1>5, <2>1 DEF StopPoll, MainGoto
<1>6. CASE StopReset
  <2>1. acc[main.l] \in {"off", "done"} /\ UNCHANGED acc /\ main.at = "drainReset"
    BY <1>6 DEF StopReset
  <2>2. \A l \in 1..N : l < main.l => acc[l] \in {"off", "done"}
    BY <2>1
  <2>3. CASE main.l < N
    <3>1. main' = [at |-> "stop", l |-> main.l + 1]
      BY <1>6, <2>3 DEF StopReset, AfterStop
    <3> QED BY <2>1, <2>2, <3>1
  <2>4. CASE ~(main.l < N)
    <3>1. main' = [at |-> "gone", l |-> main.l]
      BY <1>6, <2>4 DEF StopReset, AfterStop
    <3>2. \A l \in 1..N : l < main.l \/ l = main.l
      BY <2>4
    <3> QED BY <2>1, <2>2, <3>1, <3>2
  <2> QED BY <2>3, <2>4
<1>7. CASE StopClaim
  <2>1. \/ main.at = "claimStop" /\ main'.at = "drainStop"
        \/ main.at = "claimReset" /\ main'.at = "drainReset"
    <3>1. CASE main.at = "claimStop"
      BY <1>7, <3>1 DEF StopClaim, MainGoto
    <3>2. CASE main.at = "claimReset"
      BY <1>7, <3>2 DEF StopClaim, MainGoto
    <3> QED BY <1>7, <3>1, <3>2 DEF StopClaim
  <2>2. UNCHANGED acc /\ main'.l = main.l
    BY <1>7 DEF StopClaim, MainGoto
  <2> QED BY <2>1, <2>2
<1>8. CASE StopRaise \/ StopHandler \/ StopRead \/ StopConnect \/ StopClose
  <2>1. main.at \in {"drainStop", "handler", "read", "connect", "close"}
    BY <1>8 DEF StopRaise, StopHandler, StopRead, StopConnect, StopClose
  <2>2. main'.at \in {"handler", "read", "connect", "close", "poll"}
    BY <1>8 DEF StopRaise, StopHandler, StopRead, StopConnect, StopClose, MainGoto
  <2>3. UNCHANGED acc /\ main'.l = main.l
    BY <1>8 DEF StopRaise, StopHandler, StopRead, StopConnect, StopClose, MainGoto
  <2> QED BY <2>1, <2>2, <2>3
<1>9. CASE UNCHANGED <<main, acc>>
  BY <1>9
<1> QED
  BY <1>1, <1>2, <1>3, <1>4, <1>5, <1>6, <1>7, <1>8, <1>9
  DEF Next, MainStep, StopStep, Client, Signal, Over, vars

LEMMA NextInv == IInv /\ [Next]_vars => IInv'
  BY PlacesStep, CountStep, LockStep, StageStep, OpenStep, AfterStep DEF IInv

\* The invariant holds in every state the program reaches.
THEOREM InvariantHolds == Spec => []IInv
  BY InitInv, NextInv, PTL DEF Spec

\* Type correctness; the count stays between 0 and the number of listeners.
THEOREM TypeCorrect == Spec => []TypeOK
<1>1. IInv => TypeOK
  BY CountedFinite DEF IInv, Places, CountInv, TypeOK
<1> QED BY <1>1, InvariantHolds, PTL

\* tcp_listener::stop returns only after the acceptor thread has left the listener for good,
\* in any order of the threads, however many listeners there are: the engine may be destroyed.
THEOREM StopQuiescesHolds == Spec => []StopQuiesces
<1>1. IInv => StopQuiesces
  <2> SUFFICES ASSUME IInv, NEW l \in Listeners, Stopped(l)
               PROVE  acc[l] \in {"off", "done"} /\ LockFree(l)
    BY DEF StopQuiesces
  <2>1. acc[l] \in {"off", "done"}
    BY DEF IInv, AfterInv
  <2>2. claim[l] \in {l, Main, None} /\ claim[l] # l
    BY <2>1 DEF IInv, LockInv, Claiming
  <2>3. claim[l] # Main
    <3>1. main.at = "gone" \/ main.l # l
      BY ListenersAssumption DEF IInv, Places, Stopped, MainAt, Listeners
    <3> QED BY <3>1 DEF IInv, LockInv
  <2> QED BY <2>1, <2>2, <2>3 DEF LockFree
<1> QED BY <1>1, InvariantHolds, PTL

\* working() gives up only when every acceptor has come to its end.
THEOREM QuitMeansIdleHolds == Spec => []QuitMeansIdle
<1>1. IInv => QuitMeansIdle
  BY DEF IInv, AfterInv, StageInv, QuitMeansIdle, MainAt
<1> QED BY <1>1, InvariantHolds, PTL
=============================================================================
