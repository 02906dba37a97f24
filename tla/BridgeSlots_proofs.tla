-------------------------- MODULE BridgeSlots_proofs --------------------------
(***************************************************************************)
(* More proofs about Bridge: the slots in use are dense outside process(), *)
(* the pairs of a node read different bits of the mask, a pair is not      *)
(* lost, and nothing but stop() brings the process down, for as long as    *)
(* neither of the two Faults has happened.  They rest on Safe and OwnInv   *)
(* of Bridge_proofs: a step of one worker can do no more to the node that  *)
(* another runs than fill its next slot.  SlotInv says what tick() knows   *)
(* between its locked sections, Dense where a cleared slot may be, MaskInv *)
(* what the masks are after a registration.                                *)
(***************************************************************************)
EXTENDS Bridge_proofs

(* What a step does to a node.                                             *)

Same(a) == slots'[a] = slots[a] /\ numslots'[a] = numslots[a]

\* try_add_bridge has put p into the next slot.
Added(a, p) ==
  /\ CanAdd(a) /\ numslots'[a] = numslots[a] + 1
  /\ slots'[a] = [slots[a] EXCEPT ![numslots[a]] = [pair |-> p, mask |-> 0]]

Grown(a) == Same(a) \/ \E p \in Pairs : Added(a, p)

LEMMA AddToIs ==
  ASSUME NodesAre(slots, numslots), NEW a \in Addrs, NEW p \in Pairs, CanAdd(a),
         slots' = AddTo(slots, a, p), numslots' = [numslots EXCEPT ![a] = @ + 1]
  PROVE  Added(a, p) /\ \A c \in Addrs : c # a => Same(c)
BY DEF Added, Same, AddTo, NodesAre

LEMMA GrownKeeps ==
  ASSUME NodesAre(slots, numslots), NEW a \in Addrs, Grown(a)
  PROVE  /\ numslots[a] \in Int /\ numslots'[a] \in Int /\ numslots'[a] >= numslots[a]
         /\ numslots[a] < 0 => numslots'[a] < 0
         /\ \A i \in SlotIds : slots'[a][i] = slots[a][i] \/ (i = numslots[a] /\ slots'[a][i].mask = 0)
<1>1. numslots[a] \in Int /\ slots[a] \in [SlotIds -> [pair : Pairs, mask : Masks]]
  BY SlotsAssumption DEF NodesAre
<1>2. CASE Same(a)
  BY <1>1, <1>2 DEF Same
<1>3. CASE \E p \in Pairs : Added(a, p)
  <2>1. PICK p \in Pairs : Added(a, p)
    BY <1>3
  <2>2. numslots[a] >= 0 /\ numslots'[a] = numslots[a] + 1
    BY <2>1, <1>1, SlotsAssumption DEF Added, CanAdd, SlotIds
  <2>3. \A i \in SlotIds : slots'[a][i] = IF i = numslots[a] THEN [pair |-> p, mask |-> 0] ELSE slots[a][i]
    BY <2>1, <1>1 DEF Added
  <2> QED BY <1>1, <2>2, <2>3
<1> QED BY <1>2, <1>3 DEF Grown

\* The steps that end the process and change nothing else.
Dying(w) == PrepareNull(w) \/ ProcessNull(w) \/ ProcessAsserted(w) \/ UseFreed(w)

LEMMA DyingIs ==
  ASSUME NEW w \in Workers, Dying(w)
  PROVE  UNCHANGED <<stopVars, nodeVars, pairVars, listVars, bridgeVars, pc, tick, faults>>
BY DEF Dying, PrepareNull, ProcessNull, ProcessAsserted, UseFreed

\* A step of a worker does not change the locals of another.
LEMMA OthersWait ==
  ASSUME Safe, NEW w \in Workers, BridgeStep(w) \/ TickStep(w), NEW v \in Workers, v # w
  PROVE  pc'[v] = pc[v] /\ node'[v] = node[v] /\ tick'[v] = tick[v]
<1> USE DEF Safe, Types, At, Goto, bridgeVars
<1>1. CASE BridgeStep(w)
  BY <1>1 DEF BridgeStep, WalkStep, BridgeLock, WalkDelete, WalkTry, BridgeTaken, BridgeNew, BridgeAddOwn,
              WalkOver
<1>2. CASE LoopCheck(w) \/ Prepare(w) \/ Wait(w) \/ Count(w)
  BY <1>2 DEF LoopCheck, Prepare, Wait, Count
<1>3. CASE ProcessSkip(w) \/ ProcessData(w) \/ ProcessDead(w)
  BY <1>3 DEF ProcessSkip, ProcessData, ProcessDead, More
<1>5. CASE Dying(w)
  BY <1>5, DyingIs
<1>4. CASE Compact(w) \/ Return(w) \/ Forward(w) \/ Unlink(w)
  BY <1>4 DEF Compact, Return, Forward, Unlink
<1> QED BY <1>1, <1>2, <1>3, <1>4, <1>5 DEF TickStep, Dying

\* Only stop() touches the flags, and nobody mends a pair.
LEMMA FlagsKept ==
  ASSUME NEW w \in Workers, BridgeStep(w) \/ TickStep(w)
  PROVE  UNCHANGED <<needStop, exit, stopPc, broken>>
<1> USE DEF stopVars, pairVars
<1>1. CASE BridgeStep(w)
  BY <1>1 DEF BridgeStep, WalkStep, BridgeLock, WalkDelete, WalkTry, BridgeTaken, BridgeNew, BridgeAddOwn
<1>2. CASE TickStep(w)
  BY <1>2 DEF TickStep, LoopCheck, Prepare, Wait, Count, ProcessSkip, ProcessData, ProcessDead, PrepareNull, ProcessNull,
              ProcessAsserted, UseFreed, Compact, Return, Forward, Unlink
<1> QED BY <1>1, <1>2

\* The steps that leave all slots alone.
Idle(w) ==
  \/ BridgeLock(w) \/ WalkDelete(w) \/ BridgeTaken(w) \/ LoopCheck(w) \/ Wait(w) \/ Count(w)
  \/ ProcessSkip(w) \/ ProcessData(w) \/ Dying(w) \/ Return(w) \/ Unlink(w)

LEMMA IdleIs == ASSUME NEW w \in Workers, Idle(w) PROVE UNCHANGED nodeVars /\ UNCHANGED creator
BY DyingIs DEF Idle, BridgeLock, WalkDelete, BridgeTaken, LoopCheck, Wait, Count, ProcessSkip, ProcessData,
               Return, Unlink, listVars

\* bridge() places a pair of its own: in a node of the list, or in the new one.
LEMMA PlacingStep ==
  ASSUME Safe, NEW w \in Workers, WalkTry(w) \/ BridgeAddOwn(w)
  PROVE  \A a \in Addrs : Same(a) \/ Added(a, w)
<1> DEFINE a == IF pc[w] = "walk" THEN list[walk[w].pos] ELSE node[w]
<1>1. a \in Addrs
  <2>1. CASE WalkTry(w)
    <3>1. walk[w].pos \in 1..Len(list) /\ pc[w] = "walk"
      BY <2>1 DEF WalkTry, At, Safe, Types, PlaceInv
    <3> QED BY <3>1 DEF Safe, Types
  <2>2. CASE BridgeAddOwn(w)
    BY <2>2 DEF BridgeAddOwn, At, Safe, Types, PlaceInv
  <2> QED BY <2>1, <2>2
<1>2. \/ UNCHANGED nodeVars
      \/ CanAdd(a) /\ slots' = AddTo(slots, a, w) /\ numslots' = [numslots EXCEPT ![a] = @ + 1]
  BY DEF WalkTry, BridgeAddOwn, At, nodeVars
<1> HIDE DEF a
<1> QED BY <1>1, <1>2, AddToIs DEF Safe, Same, nodeVars, Pairs

\* forward(): the next node gets the pair, this one is left with one slot less.
LEMMA ForwardIs ==
  ASSUME Safe, NEW w \in Workers, Forward(w)
  PROVE  LET a == node[w]
             b == NextNode(w)
             k == tick[w].rv
             left == numslots[a] - 1
         IN  /\ a \in Addrs /\ k \in SlotIds /\ pc[w] = "forward" /\ UNCHANGED <<list, node, creator, ended>>
             /\ \/ UNCHANGED nodeVars /\ (UNCHANGED pc \/ pc' = [pc EXCEPT ![w] = "loop"])
                \/ /\ b \in Addrs \ {a} /\ Live(b) /\ Added(b, slots[a][k].pair)
                   /\ left \in SlotIds /\ ("forwarded" \notin faults' => k <= left)
                   /\ slots'[a] = MoveSlot(slots[a], k, left)
                   /\ numslots'[a] = IF left = 0 THEN -1 ELSE left
                   /\ \A c \in Addrs : c # a /\ c # b => Same(c)
                   /\ pc' = [pc EXCEPT ![w] = IF left = 0 THEN "unlink" ELSE "loop"]
<1> DEFINE a == node[w]
           b == NextNode(w)
           k == tick[w].rv
           left == numslots[a] - 1
           m == IF left = 0 THEN -1 ELSE left
           p == slots[a][k].pair
<1>1. Types /\ PlaceInv /\ NodesAre(slots, numslots)
  BY DEF Safe
<1>2. pc[w] = "forward" /\ ~crashed /\ a \in Addrs /\ k \in SlotIds
  BY <1>1 DEF Forward, At, Types, PlaceInv
<1>3. UNCHANGED <<list, node, creator, ended>>
  BY DEF Forward, listVars, bridgeVars, pairVars
<1>4. CASE Goto(w, "loop") /\ UNCHANGED <<nodeVars, crashed>>
  BY <1>2, <1>3, <1>4 DEF Goto
<1>5. CASE crashed' = TRUE /\ UNCHANGED <<nodeVars, pc>>
  BY <1>2, <1>3, <1>5
<1>6. CASE /\ CanForward(w) /\ left >= 0
           /\ slots' = [AddTo(slots, b, p) EXCEPT ![a] = MoveSlot(@, k, left)]
           /\ numslots' = [numslots EXCEPT ![b] = @ + 1, ![a] = m]
           /\ Goto(w, IF left = 0 THEN "unlink" ELSE "loop")
  <2>0. b # None /\ Live(a) /\ ("forwarded" \notin faults' => k < numslots[a])
    <3>1. b # None /\ faults' = IF b # None /\ ~(k < numslots[a]) THEN faults \cup {"forwarded"} ELSE faults
      BY <1>6 DEF CanForward, Forward
    <3> QED BY <3>1 DEF NextNode
  <2>1. b \in Addrs \ {a} /\ CanAdd(b) /\ b # None
    <3>1. list \in Seq(Addrs) /\ NoDuplicates(list)
      BY <1>1 DEF Types
    <3>2. b # None /\ CanAdd(b)
      BY <1>6 DEF CanForward
    <3> HIDE DEF b
    <3> QED BY <3>1, <3>2, <2>0, <1>2, IndexIs DEF b
  <2>2. Live(b)
    <3>1. b = list[IndexIn(a) + 1] /\ IndexIn(a) < Len(list)
      BY <2>1 DEF NextNode
    <3>2. IndexIn(a) \in 1..Len(list)
      BY <1>1, <1>2, <2>0, IndexIs DEF Types
    <3>3. IndexIn(a) + 1 \in DOMAIN list
      BY <3>1, <3>2, <1>1 DEF Types
    <3> HIDE DEF a, b
    <3> QED BY <3>1, <3>3 DEF Live, ToSet
  <2>3. /\ left \in SlotIds /\ ("forwarded" \notin faults' => k <= left) /\ numslots[a] \in Int /\ MaxSlots \in Nat
        /\ IsSlots(slots[a]) /\ numslots[b] \in SlotIds /\ IsSlots(slots[b])
    <3>1. numslots[a] \in -1..MaxSlots /\ MaxSlots \in Nat /\ IsSlots(slots[a]) /\ IsSlots(slots[b])
      BY <1>1, <1>2, <2>1, SlotsAssumption DEF NodesAre, IsSlots
    <3>2. numslots[b] \in SlotIds
      BY <2>1 DEF CanAdd
    <3>3. left \in SlotIds /\ ("forwarded" \notin faults' => k <= left) /\ numslots[a] \in Int
      BY <3>1, <1>6, <1>2, <2>0 DEF SlotIds
    <3> QED BY <3>1, <3>2, <3>3
  <2> HIDE DEF a, b, k, left
  <2> DEFINE grown == AddTo(slots, b, p)
  <2>4. /\ grown[b] = [slots[b] EXCEPT ![numslots[b]] = [pair |-> p, mask |-> 0]]
        /\ \A c \in Addrs : c # b => grown[c] = slots[c]
        /\ DOMAIN grown = Addrs
    BY <2>1, <1>1 DEF AddTo, NodesAre
  <2> HIDE DEF grown
  <2>5. /\ slots'[a] = MoveSlot(slots[a], k, left) /\ \A c \in Addrs : c # a => slots'[c] = grown[c]
    BY <2>4, <2>1, <1>2, <1>6 DEF grown
  <2>6. /\ numslots'[a] = m /\ numslots'[b] = numslots[b] + 1
        /\ \A c \in Addrs : c # a /\ c # b => numslots'[c] = numslots[c]
    <3> DEFINE ns == [numslots EXCEPT ![b] = @ + 1]
    <3>1. DOMAIN ns = Addrs /\ ns[b] = numslots[b] + 1 /\ \A c \in Addrs : c # b => ns[c] = numslots[c]
      BY <2>1, <1>1 DEF NodesAre
    <3>2. numslots' = [ns EXCEPT ![a] = m]
      BY <1>6
    <3> HIDE DEF ns, m
    <3> QED BY <3>1, <3>2, <2>1, <1>2
  <2>7. Added(b, p) /\ \A c \in Addrs : c # a /\ c # b => Same(c)
    BY <2>1, <2>4, <2>5, <2>6 DEF Added, Same
  <2>8. pc' = [pc EXCEPT ![w] = IF left = 0 THEN "unlink" ELSE "loop"]
    BY <1>6 DEF Goto
  <2> QED BY <1>2, <1>3, <2>1, <2>2, <2>3, <2>5, <2>6, <2>7, <2>8 DEF a, b, k, left
<1> QED BY <1>4, <1>5, <1>6 DEF Forward

\* The steps of tick() that rearrange the slots of the node.
OwnSlots(w) == Prepare(w) \/ ProcessDead(w) \/ Compact(w)

LEMMA OwnSlotsIs ==
  ASSUME Safe, NEW w \in Workers, OwnSlots(w)
  PROVE  /\ node[w] \in Addrs /\ pc[w] \in Running /\ UNCHANGED <<node, creator, list>>
         /\ \A a \in Addrs : a # node[w] => Same(a)
<1>1. Types /\ PlaceInv /\ NodesAre(slots, numslots)
  BY DEF Safe
<1>2. pc[w] \in {"prepare", "process"} /\ UNCHANGED <<node, creator, list>>
  BY DEF OwnSlots, Prepare, ProcessDead, Compact, More, At, listVars, bridgeVars
<1>3. node[w] \in Addrs
  BY <1>1, <1>2 DEF Types, PlaceInv
<1>4. \E t, m : slots' = [slots EXCEPT ![node[w]] = t] /\ numslots' = [numslots EXCEPT ![node[w]] = m]
  <2>1. CASE Prepare(w)
    BY <2>1 DEF Prepare
  <2>2. CASE ProcessDead(w)
    <3>1. slots' = [slots EXCEPT ![node[w]][tick[w].i] = EmptySlot] /\ numslots' = numslots
      BY <2>2 DEF ProcessDead
    <3>2. slots' = [slots EXCEPT ![node[w]] = [slots[node[w]] EXCEPT ![tick[w].i] = EmptySlot]]
      BY <3>1
    <3>3. numslots' = [numslots EXCEPT ![node[w]] = numslots[node[w]]]
      BY <3>1, <1>1 DEF NodesAre
    <3> QED BY <3>2, <3>3
  <2>3. CASE Compact(w)
    BY <2>3 DEF Compact
  <2> QED BY <2>1, <2>2, <2>3 DEF OwnSlots
<1> QED BY <1>1, <1>2, <1>3, <1>4 DEF Same, NodesAre, Running, InTick

LEMMA NewNodeIs ==
  ASSUME Safe, NEW w \in Workers, BridgeNew(w)
  PROVE  /\ node'[w] \in Addrs /\ creator' = [creator EXCEPT ![node'[w]] = w] /\ ~Live(node'[w])
         /\ numslots'[node'[w]] = 0 /\ slots'[node'[w]] = [i \in SlotIds |-> EmptySlot]
         /\ ToSet(list') = ToSet(list) \cup {node'[w]} /\ pc'[w] = "add"
         /\ \A a \in Addrs : a # node'[w] => Same(a)
<1>1. Types /\ NodesAre(slots, numslots)
  BY DEF Safe
<1>2. PICK a \in Addrs :
        /\ ~Live(a) /\ creator' = [creator EXCEPT ![a] = w] /\ list' = Append(list, a)
        /\ numslots' = [numslots EXCEPT ![a] = 0] /\ slots' = [slots EXCEPT ![a] = [i \in SlotIds |-> EmptySlot]]
        /\ node' = [node EXCEPT ![w] = a] /\ pc' = [pc EXCEPT ![w] = "add"]
  BY DEF BridgeNew, Goto
<1>3. node'[w] = a /\ pc'[w] = "add" /\ numslots'[a] = 0 /\ slots'[a] = [i \in SlotIds |-> EmptySlot]
  BY <1>1, <1>2 DEF Types, NodesAre
<1>4. \A c \in Addrs : c # a => Same(c)
  BY <1>1, <1>2 DEF Same, NodesAre
<1>5. ToSet(list') = ToSet(list) \cup {a}
  BY <1>1, <1>2, AppendedIs DEF Types
<1> QED BY <1>2, <1>3, <1>4, <1>5

\* A worker fills at most the next slot of a node that it does not run ...
LEMMA GrownIs ==
  ASSUME Safe, NEW w \in Workers, BridgeStep(w) \/ TickStep(w)
  PROVE  \A a \in Addrs : Grown(a) \/ (a = node'[w] /\ (pc[w] \in Running \/ BridgeNew(w)))
<1>1. CASE Idle(w)
  BY <1>1, IdleIs DEF Grown, Same, nodeVars
<1>2. CASE WalkTry(w) \/ BridgeAddOwn(w)
  BY <1>2, PlacingStep DEF Grown, Pairs
<1>3. CASE BridgeNew(w)
  BY <1>3, NewNodeIs DEF Grown
<1>4. CASE OwnSlots(w)
  BY <1>4, OwnSlotsIs DEF Grown
<1>5. CASE Forward(w)
  <2> DEFINE a == node[w]
             p == slots[a][tick[w].rv].pair
  <2>1. a \in Addrs /\ tick[w].rv \in SlotIds /\ node'[w] = a /\ pc[w] \in Running
        /\ \A c \in Addrs : c # a => Same(c) \/ Added(c, p)
    BY <1>5, ForwardIs DEF Same, nodeVars, Running, InTick
  <2>2. p \in Pairs
    BY <2>1 DEF Safe, NodesAre
  <2> QED BY <2>1, <2>2 DEF Grown
<1> QED BY <1>1, <1>2, <1>3, <1>4, <1>5 DEF BridgeStep, WalkStep, TickStep, Idle, OwnSlots, Dying

LEMMA NodesStay ==
  ASSUME NEW w \in Workers, BridgeStep(w) \/ TickStep(w), ~BridgeNew(w)
  PROVE  node' = node /\ creator' = creator
<1>1. CASE Dying(w)
  BY <1>1, DyingIs DEF bridgeVars, listVars
<1>2. CASE TickStep(w) /\ ~Dying(w)
  BY <1>2 DEF TickStep, Dying, LoopCheck, Prepare, Wait, Count, ProcessSkip, ProcessData, ProcessDead,
              Compact, Return, Forward, Unlink, bridgeVars, listVars
<1>3. CASE BridgeStep(w)
  BY <1>3 DEF BridgeStep, WalkStep, BridgeLock, WalkDelete, WalkTry, BridgeTaken, BridgeAddOwn, bridgeVars, listVars
<1> QED BY <1>1, <1>2, <1>3

\* ... and so of the node that another worker runs, or that is still the one it has made.
LEMMA OthersNode ==
  ASSUME Safe, OwnRuns, NEW w \in Workers, BridgeStep(w) \/ TickStep(w),
         NEW v \in Workers, v # w, node[v] # None, pc[v] \in Running \/ creator'[node[v]] = v
  PROVE  node[v] \in Addrs /\ Grown(node[v])
<1>1. node[v] \in Addrs
  BY DEF Safe, Types
<1>2. CASE BridgeNew(w)
  <2>1. node'[w] # node[v]
    <3>1. CASE pc[v] \in Running
      BY <3>1, <1>2, NewNodeIs DEF OwnRuns
    <3>2. CASE creator'[node[v]] = v
      BY <3>2, <1>1, <1>2, NewNodeIs DEF Safe, Types
    <3> QED BY <3>1, <3>2
  <2> QED BY <1>1, <2>1, GrownIs
<1>3. CASE ~BridgeNew(w)
  <2>1. creator[node[v]] = v /\ node'[w] = node[w]
    BY <1>3, NodesStay DEF OwnRuns
  <2>2. pc[w] \in Running => node[w] # node[v]
    BY <2>1 DEF OwnRuns
  <2> QED BY <1>1, <1>3, <2>1, <2>2, GrownIs
<1> QED BY <1>2, <1>3

-----------------------------------------------------------------------------
(* What tick() knows between its locked sections.                          *)

\* A worker leaves its node when it has given up or the program ends, unless the address has a
\* new owner; no pair is woken without bits; the slots that were counted stay, and the first one
\* that was cleared stays empty.
TickKnows(v) ==
  /\ pc[v] = "unlink" => exit \/ creator[node[v]] # v \/ numslots[node[v]] < 0
  /\ pc[v] = "count" => tick[v].wasDel = -1 /\ tick[v].i = 0
  /\ pc[v] \in {"count", "process"} => 0 \notin DOMAIN tick[v].evs
  /\ pc[v] = "process" =>
       /\ tick[v].wasDel <= tick[v].i
       /\ ~needStop =>
            /\ tick[v].cur <= numslots[node[v]]
            /\ tick[v].wasDel >= 0 => /\ tick[v].wasDel < tick[v].cur
                                      /\ slots[node[v]][tick[v].wasDel].pair = None

Knows == \A v \in Workers : TickKnows(v)

\* A node stays on the list until the worker that made it has gone.
LiveOwned ==
  \A a \in ToSet(list) : /\ creator[a] \in Workers /\ node[creator[a]] = a
                        /\ pc[creator[a]] \in Running \cup {"unlink"}

SlotInv ==
  /\ stopPc.at # "idle" => needStop
  /\ needStop => exit
  /\ LiveOwned
  /\ "unlinked" \notin faults => Knows

LEMMA OtherKnows ==
  ASSUME Safe, OwnRuns, NEW w \in Workers, BridgeStep(w) \/ TickStep(w),
         NEW v \in Workers, v # w, TickKnows(v)
  PROVE  TickKnows(v)'
<1>1. pc'[v] = pc[v] /\ node'[v] = node[v] /\ tick'[v] = tick[v] /\ UNCHANGED <<needStop, exit>>
  BY OthersWait, FlagsKept
<1>2. CASE pc[v] = "process"
  <2>1. node[v] # None /\ pc[v] \in Running
    BY <1>2 DEF Safe, PlaceInv, Running, InTick
  <2>2. node[v] \in Addrs /\ Grown(node[v])
    BY <2>1, OthersNode
  <2>3. /\ numslots[node[v]] \in -1..MaxSlots /\ MaxSlots \in Nat /\ tick[v] \in Ticks
        /\ slots[node[v]] \in [SlotIds -> [pair : Pairs, mask : Masks]]
    BY <2>2, SlotsAssumption DEF Safe, NodesAre, Types
  <2>4. tick[v].cur \in Int /\ tick[v].wasDel \in Int
    BY <2>3, TickFields
  <2> DEFINE a == node[v]
             d == tick[v].wasDel
  <2>5. numslots'[a] >= numslots[a] /\ numslots'[a] \in Int
    BY <2>2, GrownKeeps DEF Safe
  <2>6. d >= 0 /\ d < numslots[a] => slots'[a][d] = slots[a][d]
    <3> HIDE DEF a
    <3> SUFFICES ASSUME d >= 0, d < numslots[a] PROVE slots'[a][d] = slots[a][d]
      OBVIOUS
    <3>1. d \in SlotIds /\ numslots[a] \in Int
      BY <2>3, <2>4 DEF SlotIds, a
    <3>2. NodesAre(slots, numslots) /\ a \in Addrs /\ Grown(a)
      BY <2>2 DEF Safe, a
    <3> HIDE DEF d
    <3> QED BY <3>1, <3>2, GrownKeeps
  <2> HIDE DEF a, d
  <2>7. TickKnows(v)
    OBVIOUS
  <2> QED BY <1>1, <1>2, <2>3, <2>4, <2>5, <2>6, <2>7 DEF TickKnows, a, d
<1>3. CASE pc[v] = "unlink"
  <2> SUFFICES ASSUME ~exit, creator'[node[v]] = v PROVE numslots'[node[v]] < 0
    BY <1>1, <1>3 DEF TickKnows
  <2>1. node[v] # None
    BY <1>3 DEF Safe, PlaceInv
  <2>2. node[v] \in Addrs /\ Grown(node[v])
    BY <2>1, OthersNode
  <2>3. creator[node[v]] = v
    <3>1. CASE BridgeNew(w)
      BY <2>2, <3>1, NewNodeIs DEF Safe, Types
    <3>2. CASE ~BridgeNew(w)
      BY <3>2, NodesStay
    <3> QED BY <3>1, <3>2
  <2>4. numslots[node[v]] < 0
    BY <2>3, <1>3 DEF TickKnows
  <2> QED BY <2>2, <2>4, GrownKeeps DEF Safe
<1>4. CASE pc[v] \notin {"unlink", "process"}
  BY <1>1, <1>4 DEF TickKnows
<1> QED BY <1>2, <1>3, <1>4

LEMMA OwnKnows ==
  ASSUME Safe, OwnRuns, SlotInv, Knows, NEW w \in Workers, BridgeStep(w) \/ TickStep(w)
  PROVE  TickKnows(w)'
<1> USE DEF At, Goto
<1>1. Types /\ PlaceInv /\ NodesAre(slots, numslots) /\ TickKnows(w) /\ MaxSlots \in Nat
  BY SlotsAssumption DEF Safe, Knows
<1>2. CASE BridgeStep(w)
  BY <1>1, <1>2 DEF BridgeStep, WalkStep, BridgeLock, WalkDelete, WalkTry, BridgeTaken, BridgeNew, BridgeAddOwn,
                    WalkOver, Types, TickKnows
<1>3. CASE LoopCheck(w) \/ Return(w) \/ Unlink(w)
  BY <1>1, <1>3 DEF LoopCheck, Return, Unlink, Types, TickKnows, SlotInv, stopVars
<1>4. CASE Wait(w)
  <2>1. PICK hit \in SUBSET (1..tick[w].reg) :
          /\ \E kind \in [hit -> EventKinds] : tick' = [tick EXCEPT ![w] = Woken(w, kind)]
          /\ pc' = [pc EXCEPT ![w] = IF hit = {} THEN "ret" ELSE "count"]
    BY <1>4 DEF Wait
  <2>2. tick'[w].wasDel = -1 /\ tick'[w].i = 0
    BY <2>1, <1>1 DEF Woken, NoTick, Types
  <2>3. pc'[w] \in {"ret", "count"}
    BY <2>1, <1>1 DEF Types
  <2>4. 0 \notin DOMAIN tick'[w].evs
    <3>1. PICK kind \in [hit -> EventKinds] : tick' = [tick EXCEPT ![w] = Woken(w, kind)]
      BY <2>1
    <3>2. tick'[w].evs = kind
      BY <3>1, <1>1 DEF Woken, NoTick, Types
    <3> QED BY <3>1, <3>2
  <2> QED BY <2>2, <2>3, <2>4 DEF TickKnows
<1>5. CASE Count(w)
  <2>1. /\ pc[w] = "count" /\ pc'[w] = "process" /\ tick'[w] = [tick[w] EXCEPT !.cur = numslots[node[w]]]
        /\ UNCHANGED <<numslots, node>>
    BY <1>1, <1>5 DEF Count, Types, nodeVars, bridgeVars
  <2>2. node[w] \in Addrs /\ tick[w] \in Ticks
    BY <2>1, <1>1 DEF Types, PlaceInv
  <2>3. /\ tick'[w].cur = numslots[node[w]] /\ tick'[w].wasDel = -1 /\ tick'[w].i = 0
        /\ 0 \notin DOMAIN tick'[w].evs /\ numslots[node[w]] \in Int
    BY <2>1, <2>2, <1>1 DEF TickKnows, NodesAre, Ticks
  <2> QED BY <2>1, <2>3 DEF TickKnows
<1>10. CASE Dying(w)
  BY <1>1, <1>10, DyingIs DEF stopVars, nodeVars, listVars, bridgeVars, TickKnows
<1>6. CASE ProcessSkip(w) \/ ProcessData(w)
  <2>1. /\ pc[w] = "process" /\ pc'[w] = "process" /\ UNCHANGED <<slots, numslots, node, needStop>>
        /\ tick'[w].wasDel = tick[w].wasDel /\ tick'[w].cur = tick[w].cur
        /\ tick'[w].i = tick[w].i + 1 /\ tick'[w].evs \in {tick[w].evs, Consumed(w)}
    <3>1. CASE ProcessSkip(w)
      BY <1>1, <3>1 DEF ProcessSkip, More, nodeVars, bridgeVars, stopVars, Types, Ticks
    <3>2. CASE ProcessData(w)
      BY <1>1, <3>2 DEF ProcessData, More, nodeVars, bridgeVars, stopVars, Types, Ticks
    <3> QED BY <1>6, <3>1, <3>2
  <2>2. tick[w].i \in Int /\ tick[w].wasDel \in Int
    <3>1. tick[w] \in Ticks
      BY <1>1 DEF Types
    <3> QED BY <3>1, <1>1, TickFields
  <2>3. 0 \notin DOMAIN tick'[w].evs
    BY <1>1, <2>1 DEF TickKnows, Consumed
  <2> QED BY <1>1, <2>1, <2>2, <2>3 DEF TickKnows
<1>7. CASE ProcessDead(w)
  <2> DEFINE a == node[w]
             k == tick[w].i
  <2>1. /\ pc[w] = "process" /\ pc'[w] = "process" /\ UNCHANGED <<numslots, node, needStop>> /\ k < tick[w].cur
        /\ tick'[w].cur = tick[w].cur /\ tick'[w].i = k
        /\ tick'[w].wasDel = IF tick[w].wasDel < 0 THEN k ELSE tick[w].wasDel
        /\ slots' = [slots EXCEPT ![a][k] = EmptySlot] /\ tick'[w].evs = Consumed(w)
    BY <1>1, <1>7 DEF ProcessDead, More, bridgeVars, stopVars, Types, Ticks
  <2>2. a \in Addrs /\ k \in SlotIds /\ tick[w].wasDel \in -1..MaxSlots - 1 /\ tick[w].cur \in Int
    <3>1. tick[w] \in Ticks /\ a \in Addrs
      BY <2>1, <1>1 DEF Types, PlaceInv
    <3> QED BY <3>1, <1>1, <2>1, TickFields DEF SlotIds
  <2>3. \A i \in SlotIds : slots'[a][i].pair = IF i = k THEN None ELSE slots[a][i].pair
    BY <2>1, <2>2, <1>1 DEF NodesAre, EmptySlot
  <2> HIDE DEF a, k
  <2>4. tick'[w].wasDel \in SlotIds /\ tick'[w].wasDel <= k
    BY <1>1, <2>1, <2>2 DEF TickKnows, SlotIds, k
  <2>5. ~needStop => tick[w].cur <= numslots[a] /\ (tick[w].wasDel >= 0 => /\ tick[w].wasDel < tick[w].cur
                                                                         /\ slots[a][tick[w].wasDel].pair = None)
    BY <1>1, <2>1 DEF TickKnows, a
  <2>6. ~needStop => tick'[w].wasDel < tick'[w].cur /\ slots'[a][tick'[w].wasDel].pair = None
    <3>1. CASE tick[w].wasDel < 0
      BY <3>1, <2>1, <2>2, <2>3
    <3>2. CASE ~(tick[w].wasDel < 0)
      BY <3>2, <2>1, <2>2, <2>3, <2>4, <2>5
    <3> QED BY <3>1, <3>2
  <2>7. 0 \notin DOMAIN tick'[w].evs
    BY <1>1, <2>1 DEF TickKnows, Consumed
  <2> QED BY <2>1, <2>4, <2>5, <2>6, <2>7 DEF TickKnows, a
<1>8. CASE Prepare(w) \/ Compact(w)
  <2>1. node[w] \in Addrs
    BY <1>8, OwnSlotsIs DEF OwnSlots
  <2>2. pc'[w] \in {"wait", "ret"} \/ (pc'[w] = "unlink" /\ numslots'[node'[w]] = -1)
    <3>1. CASE Prepare(w)
      <4> DEFINE r == Register(Mine(w), numslots[node[w]])
      <4>1. /\ numslots' = [numslots EXCEPT ![node[w]] = IF r.n <= 0 THEN -1 ELSE r.n] /\ node' = node
            /\ pc' = [pc EXCEPT ![w] = IF r.n <= 0 THEN "unlink" ELSE "wait"]
        BY <3>1 DEF Prepare, bridgeVars
      <4> HIDE DEF r
      <4> QED BY <4>1, <2>1, <1>1 DEF Types, NodesAre
    <3>2. CASE Compact(w)
      <4> DEFINE d == tick[w].wasDel
                 c == IF d < 0
                      THEN [n |-> numslots[node[w]], slots |-> slots[node[w]], index |-> [i \in 0..NoRv |-> i]]
                      ELSE Closed(slots[node[w]], numslots[node[w]], d)
      <4>1. /\ numslots' = [numslots EXCEPT ![node[w]] = IF c.n > 0 THEN c.n ELSE -1] /\ node' = node
            /\ pc' = [pc EXCEPT ![w] = IF c.n > 0 THEN "ret" ELSE "unlink"]
        BY <3>2 DEF Compact, bridgeVars
      <4> HIDE DEF c
      <4> QED BY <4>1, <2>1, <1>1 DEF Types, NodesAre
    <3> QED BY <1>8, <3>1, <3>2
  <2> QED BY <2>2 DEF TickKnows
<1>9. CASE Forward(w)
  <2>1. /\ pc'[w] \in {"loop", "forward"} \/ (pc'[w] = "unlink" /\ numslots'[node[w]] = -1)
        /\ node' = node
    <3>1. pc[w] = "forward"
      BY <1>9 DEF Forward
    <3> DEFINE left == numslots[node[w]] - 1
    <3>2. /\ node' = node
          /\ \/ UNCHANGED pc \/ pc' = [pc EXCEPT ![w] = "loop"]
             \/ /\ numslots'[node[w]] = IF left = 0 THEN -1 ELSE left
                /\ pc' = [pc EXCEPT ![w] = IF left = 0 THEN "unlink" ELSE "loop"]
      BY <1>9, ForwardIs
    <3> HIDE DEF left
    <3> QED BY <3>1, <3>2, <1>1 DEF Types
  <2> QED BY <2>1 DEF TickKnows
<1> QED BY <1>2, <1>3, <1>4, <1>5, <1>6, <1>7, <1>8, <1>9, <1>10 DEF TickStep, Dying

LEMMA LiveOwnedKept == ASSUME Safe, LiveOwned, [Next]_vars PROVE LiveOwned'
<1> USE DEF At, Goto
<1>1. Types /\ PlaceInv
  BY DEF Safe
<1>2. ASSUME NEW w \in Workers, BridgeStep(w) \/ TickStep(w), UNCHANGED <<node, creator>>,
             ToSet(list') \subseteq ToSet(list),
             pc[w] \in Running \cup {"unlink"} => pc'[w] \in Running \cup {"unlink"}
      PROVE  LiveOwned'
  BY <1>2, OthersWait DEF LiveOwned
<1>3. ASSUME NEW w \in Workers, BridgeNew(w) PROVE LiveOwned'
  <2> SUFFICES ASSUME NEW a \in ToSet(list')
               PROVE  /\ creator'[a] \in Workers /\ node'[creator'[a]] = a
                      /\ pc'[creator'[a]] \in Running \cup {"unlink"}
    BY DEF LiveOwned
  <2>0. a \in Addrs
    <3>1. ToSet(list) \subseteq Addrs
      BY <1>1 DEF Types, ToSet
    <3>2. node'[w] \in Addrs /\ ToSet(list') = ToSet(list) \cup {node'[w]}
      BY <1>3, NewNodeIs
    <3> QED BY <3>1, <3>2
  <2>1. CASE a = node'[w]
    BY <2>1, <2>0, <1>1, <1>3, NewNodeIs DEF Types, Running
  <2>2. CASE a # node'[w]
    <3>1. a \in ToSet(list) /\ creator'[a] = creator[a]
      BY <2>0, <2>2, <1>1, <1>3, NewNodeIs DEF Types
    <3>2. pc[w] = "walk"
      BY <1>3 DEF BridgeNew, WalkOver
    <3>3. creator[a] \in Workers \ {w} /\ node[creator[a]] = a /\ pc[creator[a]] \in Running \cup {"unlink"}
      BY <3>1, <3>2 DEF LiveOwned, Running, InTick
    <3>4. BridgeStep(w)
      BY <1>3 DEF BridgeStep, WalkStep
    <3> QED BY <3>1, <3>3, <3>4, OthersWait
  <2> QED BY <2>1, <2>2
<1>4. ASSUME NEW w \in Workers, Unlink(w) PROVE LiveOwned'
  <2>1. /\ node[w] \in Addrs /\ UNCHANGED <<node, creator>> /\ TickStep(w)
        /\ list' = IF Live(node[w]) THEN RemoveAt(list, IndexIn(node[w])) ELSE list
    BY <1>1, <1>4 DEF Unlink, TickStep, bridgeVars, Types, PlaceInv
  <2>2. ToSet(list') \subseteq ToSet(list) /\ node[w] \notin ToSet(list')
    <3>1. CASE Live(node[w])
      <4>1. IndexIn(node[w]) \in 1..Len(list) /\ list[IndexIn(node[w])] = node[w]
        BY <1>1, <2>1, <3>1, IndexIs DEF Types
      <4> QED BY <4>1, <2>1, <3>1, <1>1, RemovedIs DEF Types
    <3>2. CASE ~Live(node[w])
      BY <2>1, <3>2 DEF Live
    <3> QED BY <3>1, <3>2
  <2> QED BY <2>1, <2>2, OthersWait DEF LiveOwned
<1>5. ASSUME NEW w \in Workers, BridgeStep(w), ~BridgeNew(w) PROVE LiveOwned'
  <2>1. UNCHANGED <<node, creator>>
    BY <1>5, NodesStay
  <2>2. ToSet(list') \subseteq ToSet(list)
    <3>1. CASE WalkDelete(w)
      <4>1. walk[w].pos \in 1..Len(list) /\ list' = RemoveAt(list, walk[w].pos)
        BY <1>1, <3>1 DEF WalkDelete, Types, PlaceInv
      <4> QED BY <4>1, <1>1, RemovedIs DEF Types
    <3>2. CASE ~WalkDelete(w)
      BY <1>5, <3>2 DEF BridgeStep, WalkStep, BridgeLock, WalkTry, BridgeTaken, BridgeAddOwn, listVars
    <3> QED BY <3>1, <3>2
  <2>3. pc[w] \in Running \cup {"unlink"} => pc'[w] \in Running \cup {"unlink"}
    BY <1>1, <1>5 DEF BridgeStep, WalkStep, BridgeLock, WalkDelete, WalkTry, BridgeTaken, BridgeAddOwn, WalkOver,
                      Running, InTick, Types
  <2> QED BY <1>2, <1>5, <2>1, <2>2, <2>3
<1>6. ASSUME NEW w \in Workers, TickStep(w), ~Unlink(w) PROVE LiveOwned'
  <2>1. UNCHANGED <<node, creator, list>> /\ pc'[w] \in Running \cup {"unlink"}
    <3>1. CASE Dying(w)
      BY <1>1, <3>1, DyingIs DEF Dying, PrepareNull, ProcessNull, ProcessAsserted, UseFreed, More, Running, InTick,
                                 bridgeVars, listVars
    <3>2. CASE LoopCheck(w) \/ Prepare(w) \/ Wait(w) \/ Count(w) \/ ProcessSkip(w) \/ ProcessData(w)
      BY <1>1, <3>2 DEF LoopCheck, Prepare, Wait, Count, ProcessSkip, ProcessData, More, Running, InTick,
                        Types, bridgeVars, listVars
    <3>3. CASE ProcessDead(w) \/ Compact(w) \/ Return(w) \/ Forward(w)
      BY <1>1, <3>3 DEF ProcessDead, Compact, Return, Forward, More, Running, InTick, Types, bridgeVars, listVars
    <3> QED BY <1>6, <3>1, <3>2, <3>3 DEF TickStep, Dying
  <2> QED BY <1>2, <1>6, <2>1
<1>7. CASE EngineExit \/ StopStep \/ UNCHANGED vars
  BY <1>7 DEF EngineExit, StopStep, StopBegin, CloseNode, StopUnlock, StopReturn, vars, listVars, bridgeVars, LiveOwned
<1> QED BY <1>3, <1>4, <1>5, <1>6, <1>7 DEF Next, Finished

LEMMA SlotInvKept == Safe /\ OwnInv /\ SlotInv /\ [Next]_vars => SlotInv'
<1> SUFFICES ASSUME Safe, OwnInv, SlotInv, [Next]_vars PROVE SlotInv'
  OBVIOUS
<1>0. LiveOwned' /\ faults \subseteq faults' /\ ("unlinked" \notin faults' => OwnRuns /\ Knows)
  BY LiveOwnedKept, FaultsStay DEF SlotInv, OwnInv
<1>1. ASSUME NEW w \in Workers, BridgeStep(w) \/ TickStep(w) PROVE SlotInv'
  <2>1. "unlinked" \notin faults' => Knows'
    <3> SUFFICES ASSUME OwnRuns, Knows, NEW v \in Workers PROVE TickKnows(v)'
      BY <1>0 DEF Knows
    <3>1. CASE v = w
      BY <1>1, <3>1, OwnKnows
    <3>2. CASE v # w
      <4>1. TickKnows(v)
        BY DEF Knows
      <4> QED BY <4>1, <1>1, <3>2, OtherKnows
    <3> QED BY <3>1, <3>2
  <2> QED BY <1>0, <1>1, <2>1, FlagsKept DEF SlotInv
<1>2. CASE EngineExit \/ StopBegin \/ StopUnlock \/ StopReturn \/ UNCHANGED vars
  BY <1>0, <1>2 DEF EngineExit, StopBegin, StopUnlock, StopReturn, StopAt, vars, nodeVars, listVars, bridgeVars,
                    SlotInv, Knows, TickKnows
<1>3. CASE CloseNode
  <2>1. needStop /\ exit
    BY <1>3 DEF CloseNode, StopAt, SlotInv
  <2>2. UNCHANGED <<needStop, exit, pc, tick>> /\ stopPc'.at = "closing"
    BY <1>3 DEF CloseNode, StopAt, Safe, Types
  <2>3. Knows => Knows'
    BY <2>1, <2>2 DEF Knows, TickKnows
  <2> QED BY <1>0, <2>1, <2>2, <2>3 DEF SlotInv
<1> QED BY <1>1, <1>2, <1>3 DEF Next, StopStep, Finished

LEMMA AlwaysSlotInv == Spec => [](Safe /\ OwnInv /\ SlotInv)
<1>1. Init => OwnInv /\ SlotInv
  BY DEF Init, OwnInv, OwnRuns, Running, InTick, SlotInv, LiveOwned, ToSet, Knows, TickKnows
<1>2. Safe /\ OwnInv /\ [Next]_vars => OwnInv'
  BY NextOwn, Zenon
<1>3. Safe /\ OwnInv /\ SlotInv /\ [Next]_vars => SlotInv'
  BY SlotInvKept, Zenon
<1> QED BY <1>1, <1>2, <1>3, AlwaysSafe, PTL DEF Spec

-----------------------------------------------------------------------------
(* No pair is lost.                                                        *)

\* The pairs of the slots in use.
PairIn(s, n, p) == \E i \in SlotIds : i < n /\ s[i].pair = p

\* The compaction keeps the pair of every slot but the first cleared one, and closes all gaps.
LEMMA ClosedKeeps ==
  ASSUME NEW n \in -1..MaxSlots, NEW d \in SlotIds, NEW s, IsSlots(s), d < n, s[d].pair = None
  PROVE  /\ \A p \in Workers : PairIn(s, n, p) => PairIn(Closed(s, n, d).slots, Closed(s, n, d).n, p)
         /\ (\A i \in SlotIds : i < d => s[i].pair # None)
              => \A j \in SlotIds : j < Closed(s, n, d).n => Closed(s, n, d).slots[j].pair # None
<1> DEFINE kept == {i \in d + 1..n - 1 : s[i].pair # None}
           front(i) == {k \in kept : k < i}
           newIndex(i) == d + Cardinality(front(i))
           from == [j \in {newIndex(i) : i \in kept} |-> CHOOSE i \in kept : newIndex(i) = j]
           m == d + Cardinality(kept)
           t == [j \in SlotIds |-> IF j \in DOMAIN from THEN s[from[j]]
                                   ELSE IF j >= d THEN [s[j] EXCEPT !.pair = None]
                                   ELSE s[j]]
           index == [i \in 0..NoRv |-> IF i \in kept THEN newIndex(i) ELSE i]
<1>1. MaxSlots \in Nat /\ n \in Int /\ d \in Nat /\ d < MaxSlots
  BY SlotsAssumption DEF SlotIds
<1>2. Closed(s, n, d) = [n |-> m, slots |-> t, index |-> index]
  BY DEF Closed
<1>3. kept \in SUBSET (0..n - 1) /\ kept \subseteq SlotIds /\ \A i \in kept : i \in Int /\ i > d /\ i < n
  BY <1>1 DEF SlotIds
<1>4. IsFiniteSet(kept) /\ Cardinality(kept) \in Nat
  BY <1>1, <1>3, Below, FS_Subset, FS_CardinalityType
\* newIndex numbers the pairs that are kept from d on, each with a number of its own.
<1>5. \A i, k \in kept : i < k => newIndex(i) < newIndex(k)
  <2> SUFFICES ASSUME NEW i \in kept, NEW k \in kept, i < k PROVE newIndex(i) < newIndex(k)
    OBVIOUS
  <2>1. front(i) \in SUBSET front(k) /\ i \in front(k) \ front(i) /\ front(k) \in SUBSET (0..n - 1)
    BY <1>3
  <2> HIDE DEF kept, front
  <2>2. Cardinality(front(i)) < Cardinality(front(k)) /\ Cardinality(front(i)) \in Nat /\ Cardinality(front(k)) \in Nat
    BY <2>1, <1>1, SizeOf
  <2> QED BY <2>2, <1>1
<1>6. \A i \in kept : newIndex(i) \in d..m - 1
  <2> SUFFICES ASSUME NEW i \in kept PROVE newIndex(i) \in d..m - 1
    OBVIOUS
  <2>1. front(i) \in SUBSET kept /\ i \in kept \ front(i)
    BY <1>3
  <2> HIDE DEF kept, front
  <2>2. Cardinality(front(i)) < Cardinality(kept) /\ Cardinality(front(i)) \in Nat
    BY <2>1, <1>3, <1>1, SizeOf
  <2> QED BY <2>2, <1>4, <1>1
<1>7. \A i, k \in kept : newIndex(i) = newIndex(k) => i = k
  <2> SUFFICES ASSUME NEW i \in kept, NEW k \in kept, newIndex(i) = newIndex(k), i # k PROVE FALSE
    OBVIOUS
  <2>0. newIndex(i) \in d..m - 1 /\ i \in Int /\ k \in Int /\ m \in Int
    <3>1. m \in Int
      BY <1>4, <1>1
    <3> HIDE DEF newIndex, kept, m
    <3> QED BY <3>1, <1>6, <1>3
  <2>1. newIndex(i) \in Int /\ i \in Int /\ k \in Int
    <3> HIDE DEF newIndex, kept, m
    <3> QED BY <2>0, <1>1
  <2>2. i < k \/ k < i
    BY <2>1
  <2> HIDE DEF newIndex, kept
  <2> QED BY <2>1, <2>2, <1>5
<1>8. \A i \in kept : newIndex(i) \in DOMAIN from /\ from[newIndex(i)] = i
  <2> SUFFICES ASSUME NEW i \in kept PROVE newIndex(i) \in DOMAIN from /\ from[newIndex(i)] = i
    OBVIOUS
  <2>1. newIndex(i) \in DOMAIN from /\ from[newIndex(i)] = CHOOSE k \in kept : newIndex(k) = newIndex(i)
    OBVIOUS
  <2> DEFINE k == CHOOSE h \in kept : newIndex(h) = newIndex(i)
  <2>2. k \in kept /\ newIndex(k) = newIndex(i)
    OBVIOUS
  <2> HIDE DEF k, newIndex, from, kept
  <2>3. k = i
    BY <2>2, <1>7
  <2> QED BY <2>1, <2>3 DEF k
<1>9. \A j \in DOMAIN from : \E i \in kept : newIndex(i) = j
  OBVIOUS
<1>10. m <= n /\ m \in Nat
  <2>1. d + 1 \in Int /\ n - 1 \in Int
    BY <1>1
  <2>2. /\ IsFiniteSet(d + 1..n - 1)
        /\ Cardinality(d + 1..n - 1) = IF d + 1 > n - 1 THEN 0 ELSE (n - 1) - (d + 1) + 1
    BY <2>1, FS_Interval
  <2>3. Cardinality(d + 1..n - 1) = n - 1 - d
    BY <2>2, <1>1
  <2>4. kept \in SUBSET (d + 1..n - 1)
    OBVIOUS
  <2> HIDE DEF kept
  <2>5. Cardinality(kept) <= Cardinality(d + 1..n - 1)
    BY <2>2, <2>4, FS_Subset
  <2> QED BY <2>3, <2>5, <1>4, <1>1
\* Every number below m is given to somebody.
<1>11. \A j \in d..m - 1 : j \in DOMAIN from
  <2> DEFINE N == {newIndex(i) : i \in kept}
  <2>1. N \subseteq d..m - 1 /\ N = DOMAIN from
    BY <1>6
  <2>2. /\ IsFiniteSet(d..m - 1)
        /\ Cardinality(d..m - 1) = IF d > m - 1 THEN 0 ELSE (m - 1) - d + 1
    <3>1. d \in Int /\ m - 1 \in Int
      <4> HIDE DEF m
      <4> QED BY <1>1, <1>10
    <3> HIDE DEF m
    <3> QED BY <3>1, FS_Interval
  <2>3. Cardinality(d..m - 1) = Cardinality(kept)
    BY <2>2, <1>1, <1>4
  <2>4. IsFiniteSet(N) /\ Cardinality(N) = Cardinality(kept)
    <3> DEFINE f == [i \in kept |-> newIndex(i)]
    <3>1. f \in Bijection(kept, N)
      <4>1. f \in [kept -> N] /\ \A j \in N : \E i \in kept : f[i] = j
        OBVIOUS
      <4>2. \A i, k \in kept : f[i] = f[k] => i = k
        BY <1>7
      <4> HIDE DEF f, N, kept
      <4> QED BY <4>1, <4>2 DEF Bijection, Injection, Surjection, IsInjective
    <3> HIDE DEF f, N, kept
    <3>2. ExistsBijection(kept, N)
      BY <3>1 DEF ExistsBijection
    <3> QED BY <3>2, <1>4, FS_Bijection
  <2> HIDE DEF N, kept, m
  <2>5. N = d..m - 1
    BY <2>1, <2>2, <2>3, <2>4, FS_Subset
  <2> QED BY <2>1, <2>5
<1> HIDE DEF kept, newIndex, from, m
<1>12. ASSUME NEW p \in Workers, PairIn(s, n, p) PROVE PairIn(t, m, p)
  <2>1. PICK i \in SlotIds : i < n /\ s[i].pair = p
    BY <1>12 DEF PairIn
  <2>2. CASE i < d
    <3>1. i \notin DOMAIN from
      <4> SUFFICES ASSUME i \in DOMAIN from PROVE FALSE
        OBVIOUS
      <4>1. PICK k \in kept : newIndex(k) = i
        BY <1>9
      <4>2. i \in d..m - 1
        BY <4>1, <1>6
      <4> QED BY <4>2, <2>2, <1>1, <1>10
    <3>2. t[i] = s[i] /\ i < m
      BY <3>1, <2>2, <1>1, <1>4 DEF SlotIds, m
    <3> HIDE DEF t
    <3> QED BY <2>1, <3>2 DEF PairIn
  <2>3. CASE ~(i < d)
    <3>1. i > d
      BY <2>1, <2>3, <1>1, NamesAssumption DEF SlotIds
    <3>2. i \in kept
      BY <2>1, <3>1, <1>1, NamesAssumption DEF kept, SlotIds
    <3>3. newIndex(i) \in DOMAIN from /\ from[newIndex(i)] = i /\ newIndex(i) \in d..m - 1
      BY <3>2, <1>6, <1>8
    <3>4. newIndex(i) \in SlotIds /\ newIndex(i) < m
      BY <3>3, <1>10, <1>1 DEF SlotIds
    <3>5. t[newIndex(i)] = s[i]
      BY <3>3, <3>4
    <3> HIDE DEF t
    <3> QED BY <2>1, <3>4, <3>5 DEF PairIn
  <2> QED BY <2>2, <2>3
<1>13. ASSUME \A i \in SlotIds : i < d => s[i].pair # None, NEW j \in SlotIds, j < m
       PROVE  t[j].pair # None
  <2>1. CASE j \in DOMAIN from
    <3>1. PICK i \in kept : newIndex(i) = j
      BY <2>1, <1>9
    <3>2. t[j] = s[i]
      BY <3>1, <2>1, <1>8
    <3>3. s[i].pair # None
      BY DEF kept
    <3> QED BY <3>2, <3>3
  <2>2. CASE j \notin DOMAIN from
    <3>1. j < d
      BY <2>2, <1>11, <1>13, <1>1, <1>10 DEF SlotIds
    <3>2. t[j] = s[j]
      BY <2>2, <3>1, <1>1 DEF SlotIds
    <3> QED BY <3>1, <3>2, <1>13
  <2> QED BY <2>1, <2>2
<1> HIDE DEF t, index
<1> QED BY <1>2, <1>12, <1>13

LEMMA ServedIs ==
  ASSUME NEW a \in ToSet(list), NEW p, PairIn(slots[a], numslots[a], p)
  PROVE  Served(p)
BY DEF PairIn, Served, InSlot, Used

LEMMA GrownServes ==
  ASSUME Safe, NEW a \in Addrs, Grown(a), NEW p, PairIn(slots[a], numslots[a], p)
  PROVE  PairIn(slots'[a], numslots'[a], p)
<1>1. PICK i \in SlotIds : i < numslots[a] /\ slots[a][i].pair = p
  BY DEF PairIn
<1>2. numslots[a] \in Int /\ numslots'[a] \in Int /\ numslots'[a] >= numslots[a] /\ i \in Int
  BY GrownKeeps DEF Safe, SlotIds
<1>3. slots'[a][i] = slots[a][i]
  BY <1>1, <1>2, GrownKeeps DEF Safe
<1> QED BY <1>1, <1>2, <1>3 DEF PairIn

\* moveslot of slot k loses no pair but that of slot k.
LEMMA MoveSlotKeeps ==
  ASSUME NEW s, IsSlots(s), NEW k \in SlotIds, NEW left \in SlotIds, k <= left
  PROVE  /\ \A i \in SlotIds : i < left => MoveSlot(s, k, left)[i].pair = IF i = k THEN s[left].pair ELSE s[i].pair
         /\ \A p \in Workers : PairIn(s, left + 1, p) /\ s[k].pair # p => PairIn(MoveSlot(s, k, left), left, p)
<1> DEFINE t == MoveSlot(s, k, left)
<1>1. k \in Int /\ left \in Int
  BY DEF SlotIds
<1>2. \A i \in SlotIds : i < left => t[i].pair = IF i = k THEN s[left].pair ELSE s[i].pair
  <2> DEFINE moved == IF k < left THEN [s EXCEPT ![k] = s[left]] ELSE s
  <2>1. t = [moved EXCEPT ![left].pair = None]
    BY DEF MoveSlot
  <2>2. moved \in [SlotIds -> [pair : Pairs, mask : Masks]]
    BY DEF IsSlots
  <2>3. \A i \in SlotIds : i < left => moved[i] = IF i = k THEN s[left] ELSE s[i]
    BY <1>1 DEF IsSlots, SlotIds
  <2> HIDE DEF moved, t
  <2>4. \A i \in SlotIds : i # left => t[i] = moved[i]
    BY <2>1, <2>2
  <2>5. \A i \in SlotIds : i < left => i # left
    BY <1>1 DEF SlotIds
  <2> QED BY <2>3, <2>4, <2>5
<1> HIDE DEF t
<1>3. ASSUME NEW p \in Workers, PairIn(s, left + 1, p), s[k].pair # p PROVE PairIn(t, left, p)
  <2>1. PICK i \in SlotIds : i < left + 1 /\ s[i].pair = p
    BY <1>3 DEF PairIn
  <2>2. i \in Int /\ i # k
    BY <2>1, <1>3 DEF SlotIds
  <2>3. CASE i = left
    <3>1. k < left /\ t[k].pair = p
      BY <2>1, <2>2, <2>3, <1>1, <1>2
    <3> QED BY <3>1 DEF PairIn
  <2>4. CASE i # left
    BY <2>1, <2>2, <2>4, <1>1, <1>2 DEF PairIn
  <2> QED BY <2>3, <2>4
<1> QED BY <1>2, <1>3 DEF t

\* tick() gives up no pair but those it has found dead.
LEMMA OwnSlotsKeep ==
  ASSUME Safe, SlotInv, Knows, NEW w \in Workers, OwnSlots(w), ~exit, NEW p \in Workers,
         PairIn(slots[node[w]], numslots[node[w]], p)
  PROVE  p \in ended' \/ PairIn(slots'[node[w]], numslots'[node[w]], p)
<1> DEFINE a == node[w]
           n == numslots[a]
<1>1. a \in Addrs /\ n \in -1..MaxSlots /\ IsSlots(slots[a]) /\ Distinct(slots[a]) /\ Ends(slots[a], n)
      /\ MaxSlots \in Nat /\ n \in Int /\ DOMAIN slots = Addrs /\ DOMAIN numslots = Addrs
  BY OwnSlotsIs, SlotsAssumption DEF Safe, NodesAre, IsSlots
<1>2. PICK i \in SlotIds : i < n /\ slots[a][i].pair = p
  BY DEF PairIn
<1>3. i \in Int /\ 0 <= i /\ i < MaxSlots
  BY <1>1 DEF SlotIds
<1>4. CASE Prepare(w)
  <2> DEFINE r == Register(slots[a], n)
             m == IF r.n <= 0 THEN -1 ELSE r.n
             old == {slots[a][k].pair : k \in 0..n - 1}
             new == {r.slots[k].pair : k \in 0..r.n - 1}
  <2>1. /\ slots' = [slots EXCEPT ![a] = r.slots] /\ numslots' = [numslots EXCEPT ![a] = m]
        /\ ended' = ended \cup (old \ new)
    BY <1>4 DEF Prepare, Mine
  <2>2. r.n \in -1..MaxSlots
    BY <1>1, RegisterIs
  <2>3. p \in old
    BY <1>1, <1>2, <1>3
  <2> HIDE DEF r
  <2>4. CASE p \in new
    <3>1. PICK k \in 0..r.n - 1 : r.slots[k].pair = p
      BY <2>4
    <3>2. k \in SlotIds /\ k < m /\ m = r.n
      BY <2>2, <1>1 DEF SlotIds
    <3>3. slots'[a] = r.slots /\ numslots'[a] = m
      BY <2>1, <1>1
    <3> QED BY <3>1, <3>2, <3>3 DEF PairIn
  <2>5. CASE p \notin new
    BY <2>1, <2>3, <2>5
  <2> QED BY <2>4, <2>5
<1>5. CASE ProcessDead(w)
  <2>1. /\ slots' = [slots EXCEPT ![a][tick[w].i] = EmptySlot] /\ UNCHANGED numslots
        /\ ended' = ended \cup ({slots[a][tick[w].i].pair} \ {None})
    BY <1>5 DEF ProcessDead, Slot, Mine
  <2>2. CASE tick[w].i = i
    BY <2>1, <2>2, <1>2, NamesAssumption
  <2>3. CASE tick[w].i # i
    <3>1. slots'[a][i] = slots[a][i]
      BY <2>1, <2>3, <1>1 DEF IsSlots
    <3> QED BY <3>1, <2>1, <1>2 DEF PairIn
  <2> QED BY <2>2, <2>3
<1>6. CASE Compact(w)
  <2> DEFINE d == tick[w].wasDel
             c == IF d < 0
                  THEN [n |-> n, slots |-> slots[a], index |-> [k \in 0..NoRv |-> k]]
                  ELSE Closed(slots[a], n, d)
             m == IF c.n > 0 THEN c.n ELSE -1
  <2>1. /\ slots' = [slots EXCEPT ![a] = c.slots] /\ numslots' = [numslots EXCEPT ![a] = m]
        /\ pc[w] = "process"
    BY <1>6 DEF Compact, At
  <2>2. d \in -1..MaxSlots - 1 /\ tick[w].cur \in -1..MaxSlots
    BY TickFields DEF Safe, Types
  <2>3. tick[w].cur <= n /\ (d >= 0 => d < tick[w].cur /\ slots[a][d].pair = None)
    BY <2>1 DEF SlotInv, Knows, TickKnows
  <2>4. PairIn(c.slots, c.n, p) /\ c.n \in Int
    <3>1. CASE d < 0
      <4>1. c.n = n /\ c.slots = slots[a]
        BY <3>1
      <4> HIDE DEF c
      <4> QED BY <4>1, <1>1, <1>2 DEF PairIn
    <3>2. CASE ~(d < 0)
      <4>1. d \in SlotIds /\ d < n /\ slots[a][d].pair = None
        BY <3>2, <2>2, <2>3, <1>1 DEF SlotIds
      <4>2. c = Closed(slots[a], n, d)
        BY <3>2
      <4> HIDE DEF c, d, n, a
      <4>3. PairIn(slots[a], n, p)
        BY <1>2 DEF PairIn
      <4>4. PairIn(Closed(slots[a], n, d).slots, Closed(slots[a], n, d).n, p)
        BY <4>1, <4>3, <1>1, ClosedKeeps
      <4>5. Closed(slots[a], n, d).n \in 0..MaxSlots
        BY <4>1, <1>1, ClosedIs
      <4> QED BY <4>2, <4>4, <4>5
    <3> QED BY <3>1, <3>2
  <2> HIDE DEF c, a
  <2>5. slots'[a] = c.slots /\ numslots'[a] = m
    BY <2>1, <1>1
  <2>6. m = c.n
    BY <2>4 DEF PairIn, SlotIds
  <2> HIDE DEF m
  <2>7. PairIn(slots'[a], numslots'[a], p)
    BY <2>4, <2>5, <2>6
  <2> QED BY <2>7 DEF a
<1> QED BY <1>4, <1>5, <1>6 DEF OwnSlots

\* A step of a worker that is no fault loses a pair only when the pair has died.
LEMMA WorkerKeeps ==
  ASSUME Safe, OwnRuns, SlotInv, Knows, NEW w \in Workers, BridgeStep(w) \/ TickStep(w), faults' = {},
         NEW p \in Workers, Served(p), ~exit
  PROVE  p \in ended' \/ Served(p)'
<1>1. PICK a \in ToSet(list) : PairIn(slots[a], numslots[a], p)
  BY DEF Served, InSlot, Used, PairIn
<1>2. a \in Addrs /\ numslots[a] \in Int /\ numslots[a] > 0
  BY <1>1 DEF Safe, Types, ToSet, NodesAre, PairIn, SlotIds
<1>3. ASSUME NEW b \in ToSet(list'), PairIn(slots'[b], numslots'[b], p) PROVE Served(p)'
  BY <1>3 DEF Served, InSlot, Used, PairIn
<1>4. CASE BridgeNew(w)
  <2>1. a # node'[w] /\ a \in ToSet(list')
    BY <1>1, <1>4, NewNodeIs DEF Live
  <2>2. Grown(a)
    BY <1>2, <2>1, GrownIs
  <2> QED BY <2>1, <2>2, <1>1, <1>2, <1>3, GrownServes
<1>5. CASE Idle(w)
  <2>1. a \in ToSet(list')
    <3>1. CASE WalkDelete(w)
      <4>1. /\ walk[w].pos \in 1..Len(list) /\ numslots[list[walk[w].pos]] < 0
            /\ list' = RemoveAt(list, walk[w].pos)
        BY <3>1 DEF WalkDelete, At, Safe, Types, PlaceInv
      <4>2. a # list[walk[w].pos]
        BY <4>1, <1>2
      <4>3. \A x \in ToSet(list) : x # list[walk[w].pos] => x \in ToSet(RemoveAt(list, walk[w].pos))
        BY <4>1, RemovedIs DEF Safe, Types
      <4> QED BY <4>1, <4>2, <4>3
    <3>2. CASE Unlink(w)
      <4>1. pc[w] = "unlink" /\ list' = IF Live(node[w]) THEN RemoveAt(list, IndexIn(node[w])) ELSE list
        BY <3>2 DEF Unlink, At
      <4>2. a # node[w] /\ node[w] \in Addrs
        <5>1. node[w] \in Addrs
          BY <4>1 DEF Safe, PlaceInv, Types
        <5>2. ASSUME a = node[w] PROVE FALSE
          <6> DEFINE u == creator[a]
          <6>1. u \in Workers /\ node[u] = a /\ pc[u] \in Running \cup {"unlink"}
            BY DEF SlotInv, LiveOwned
          <6>2. u # w
            BY <4>1, <5>2, <1>2 DEF Knows, TickKnows
          <6>3. ~RunByOther(w)
            BY <3>2, <5>2 DEF Unlink, Live
          <6>4. pc[u] = "unlink"
            BY <6>1, <6>2, <6>3, <5>2 DEF RunByOther
          <6>5. exit \/ creator[a] # u \/ numslots[a] < 0
            BY <6>1, <6>4 DEF Knows, TickKnows
          <6> QED BY <6>5, <1>2
        <5> QED BY <5>1, <5>2
      <4>3. CASE Live(node[w])
        <5>1. IndexIn(node[w]) \in 1..Len(list) /\ list[IndexIn(node[w])] = node[w]
          BY <4>2, <4>3, IndexIs DEF Safe, Types
        <5>2. \A x \in ToSet(list) : x # node[w] => x \in ToSet(RemoveAt(list, IndexIn(node[w])))
          BY <5>1, RemovedIs DEF Safe, Types
        <5> QED BY <4>1, <4>2, <4>3, <5>2
      <4>4. CASE ~Live(node[w])
        BY <4>1, <4>4
      <4> QED BY <4>3, <4>4
    <3>3. CASE ~WalkDelete(w) /\ ~Unlink(w)
      <4>1. list' = list
        BY <3>3, <1>5 DEF Idle, BridgeLock, BridgeTaken, LoopCheck, Wait, Count, ProcessSkip, ProcessData,
                          Dying, PrepareNull, ProcessNull, ProcessAsserted, UseFreed, Return, listVars
      <4> QED BY <4>1
    <3> QED BY <3>1, <3>2, <3>3
  <2> QED BY <2>1, <1>1, <1>3, <1>5, IdleIs DEF nodeVars
<1>6. CASE WalkTry(w) \/ BridgeAddOwn(w)
  <2>1. Grown(a) /\ list' = list
    BY <1>2, <1>6, PlacingStep DEF Grown, Pairs, WalkTry, BridgeAddOwn, listVars
  <2> QED BY <2>1, <1>1, <1>2, <1>3, GrownServes
<1>7. CASE OwnSlots(w)
  <2>1. list' = list /\ (a # node[w] => Same(a))
    BY <1>2, <1>7, OwnSlotsIs
  <2>2. CASE a # node[w]
    BY <2>1, <2>2, <1>1, <1>3 DEF Same
  <2>3. CASE a = node[w]
    BY <2>1, <2>3, <1>1, <1>3, <1>7, OwnSlotsKeep
  <2> QED BY <2>2, <2>3
<1>8. CASE Forward(w)
  <2> DEFINE h == node[w]
             b == NextNode(w)
             k == tick[w].rv
             left == numslots[h] - 1
             q == slots[h][k].pair
  <2>1. h \in Addrs /\ k \in SlotIds /\ Live(h) /\ list' = list
    BY <1>8, ForwardIs DEF OwnRuns, Running, InTick
  <2>2. CASE UNCHANGED nodeVars
    BY <2>1, <2>2, <1>1, <1>3 DEF nodeVars
  <2>3. CASE /\ b \in Addrs \ {h} /\ Live(b) /\ Added(b, q) /\ left \in SlotIds /\ ("forwarded" \notin faults' => k <= left)
             /\ slots'[h] = MoveSlot(slots[h], k, left) /\ numslots'[h] = IF left = 0 THEN -1 ELSE left
             /\ \A c \in Addrs : c # h /\ c # b => Same(c)
    <3>1. CASE a # h
      <4>1. q \in Pairs
        BY <2>1 DEF Safe, NodesAre
      <4>2. Grown(a)
        BY <1>2, <2>3, <3>1, <4>1 DEF Grown
      <4> QED BY <4>2, <2>1, <1>1, <1>2, <1>3, GrownServes
    <3>2. CASE a = h /\ q = p
      <4>1. numslots[b] \in SlotIds /\ numslots'[b] = numslots[b] + 1 /\ IsSlots(slots[b])
        BY <2>3 DEF Added, CanAdd, Safe, NodesAre, IsSlots
      <4>2. slots'[b][numslots[b]].pair = p
        BY <2>3, <3>2, <4>1 DEF Added, IsSlots
      <4>3. PairIn(slots'[b], numslots'[b], p)
        BY <4>1, <4>2 DEF PairIn, SlotIds
      <4> QED BY <4>3, <2>1, <2>3, <1>3 DEF Live
    <3>3. CASE a = h /\ q # p
      <4>1. IsSlots(slots[h]) /\ PairIn(slots[h], left + 1, p) /\ k <= left /\ left \in SlotIds /\ numslots[h] \in Int
        <5>1. numslots[h] = left + 1
          BY <3>3, <1>2
        <5> QED BY <5>1, <3>3, <2>1, <2>3, <1>1, <1>2 DEF Safe, NodesAre, IsSlots
      <4> HIDE DEF h, k, left
      <4>2. PairIn(MoveSlot(slots[h], k, left), left, p)
        BY <4>1, <2>1, <3>3, MoveSlotKeeps DEF q
      <4>3. left > 0
        BY <4>2, <4>1 DEF PairIn, SlotIds
      <4>4. PairIn(slots'[h], numslots'[h], p)
        BY <4>2, <4>3, <2>3
      <4> QED BY <4>4, <2>1, <1>3 DEF Live
    <3> QED BY <3>1, <3>2, <3>3
  <2> QED BY <1>8, <2>2, <2>3, ForwardIs
<1> QED BY <1>4, <1>5, <1>6, <1>7, <1>8 DEF BridgeStep, WalkStep, TickStep, Idle, OwnSlots, Dying

\* A pair that a thread serves stays in a slot of a node of the list until it has died or the
\* program is told to exit: forward(), the compaction, a walk that deletes nodes and a thread
\* that gives up lose none, with any number of workers and slots, in both builds and however
\* the allocator gives out addresses.  What does lose pairs are the two faults: Unlink of the
\* node of another, and forward() of a slot that is not in use.
THEOREM LiveBridgeKeptHolds == Spec => LiveBridgeKept
<1>1. Safe /\ OwnInv /\ SlotInv /\ [Next]_vars
        => [\A p \in Workers : Served(p) /\ ~Served(p)' => p \in ended' \/ exit \/ faults' # {}]_vars
  <2> SUFFICES ASSUME Safe, OwnInv, SlotInv, Next, NEW p \in Workers, Served(p), ~exit, faults' = {}
               PROVE  p \in ended' \/ Served(p)'
    OBVIOUS
  <2>0. OwnRuns /\ Knows
    BY FaultsStay DEF OwnInv, SlotInv
  <2>1. ASSUME NEW w \in Workers, BridgeStep(w) \/ TickStep(w) PROVE p \in ended' \/ Served(p)'
    BY <2>0, <2>1, WorkerKeeps
  <2>2. ~CloseNode
    BY DEF CloseNode, StopAt, SlotInv
  <2>3. CASE EngineExit \/ StopBegin \/ StopUnlock \/ StopReturn \/ Finished
    <3>1. UNCHANGED <<list, slots, numslots>>
      BY <2>3 DEF EngineExit, StopBegin, StopUnlock, StopReturn, Finished, vars, nodeVars, listVars
    <3> QED BY <3>1 DEF Served, InSlot, Used
  <2> QED BY <2>1, <2>2, <2>3 DEF Next, StopStep
<1> QED BY <1>1, AlwaysSlotInv, PTL DEF Spec, LiveBridgeKept

-----------------------------------------------------------------------------
(* No gaps.                                                                *)

\* Among the slots in use only those that the owner has cleared and not yet closed are empty.
Cleared(a, i) ==
  \E w \in Workers : node[w] = a /\ pc[w] = "process" /\ 0 <= tick[w].wasDel /\ tick[w].wasDel <= i

Dense ==
  ~needStop /\ faults = {} => \A a \in Addrs : \A i \in SlotIds :
    i < numslots[a] /\ slots[a][i].pair = None => Cleared(a, i) /\ slots[a][i].mask = 0

\* Outside process(), and in it before the first cleared slot, the slots in use are full.
LEMMA FullIs ==
  ASSUME Safe, OwnRuns, Dense, ~needStop, faults = {}, NEW w \in Workers, pc[w] \in Running, node[w] \in Addrs,
         NEW i \in SlotIds, i < numslots[node[w]], pc[w] = "process" => tick[w].wasDel < 0 \/ i < tick[w].wasDel
  PROVE  slots[node[w]][i].pair # None
<1> SUFFICES ASSUME Cleared(node[w], i) PROVE FALSE
  BY DEF Dense
<1>1. PICK v \in Workers : node[v] = node[w] /\ pc[v] = "process" /\ 0 <= tick[v].wasDel /\ tick[v].wasDel <= i
  BY DEF Cleared
<1>2. v = w
  BY <1>1, OwnApart DEF Running, InTick
<1>3. tick[w].wasDel \in Int /\ i \in Int
  BY TickFields, SlotsAssumption DEF Safe, Types, SlotIds
<1> QED BY <1>1, <1>2, <1>3

\* The registration leaves no gap.
LEMMA RegisterFull ==
  ASSUME NEW n \in -1..MaxSlots, NEW s, IsSlots(s), \A i \in SlotIds : i < n => s[i].pair # None
  PROVE  \A i \in SlotIds : i < Register(s, n).n => Register(s, n).slots[i].pair # None
<1> DEFINE bad(k) == {i \in 0..n - 1 : i < k /\ s[i].pair \in broken}
           last(k) == n - 1 - Cardinality(bad(k))
           seen == {k \in 0..n - 1 : k <= last(k)}
           gone == bad(n) \cap seen
           kept == seen \ gone
           left == n - Cardinality(gone)
           t == [i \in SlotIds |->
             IF left <= i /\ i < n THEN [s[i] EXCEPT !.pair = None]
             ELSE IF i \in gone THEN s[last(i)]
             ELSE IF i \in kept THEN [s[i] EXCEPT !.mask = Cardinality({k \in kept : k <= i})]
             ELSE s[i]]
<1>1. MaxSlots \in Nat /\ n \in Int /\ n <= MaxSlots
  BY SlotsAssumption
<1>2. Register(s, n).n = left /\ Register(s, n).slots = t
  BY DEF Register
<1>3. \A k \in Int : Cardinality(bad(k)) \in Nat
  BY <1>1, SizeOf
<1>4. left \in Int /\ left <= n
  <2>1. gone \in SUBSET (0..n - 1)
    OBVIOUS
  <2> HIDE DEF gone
  <2>2. Cardinality(gone) \in Nat
    BY <2>1, <1>1, SizeOf
  <2> QED BY <2>2, <1>1
<1>5. \A i \in gone : last(i) \in SlotIds /\ last(i) < n
  <2> SUFFICES ASSUME NEW i \in gone PROVE last(i) \in SlotIds /\ last(i) < n
    OBVIOUS
  <2>1. i \in 0..n - 1 /\ i <= last(i) /\ Cardinality(bad(i)) \in Nat
    BY <1>3
  <2> HIDE DEF bad, gone
  <2> QED BY <2>1, <1>1 DEF SlotIds
<1> HIDE DEF last, gone, kept, left
<1>6. ASSUME NEW i \in SlotIds, i < left PROVE t[i].pair # None
  <2>1. i \in Int /\ i < n /\ ~(left <= i)
    BY <1>1, <1>4, <1>6 DEF SlotIds
  <2>2. CASE i \in gone
    <3>1. t[i] = s[last(i)]
      BY <2>1, <2>2
    <3> QED BY <3>1, <2>2, <1>5
  <2>3. CASE i \notin gone
    <3>1. t[i].pair = s[i].pair
      BY <2>1, <2>3 DEF IsSlots
    <3> QED BY <3>1, <2>1
  <2> QED BY <2>2, <2>3
<1> QED BY <1>2, <1>6

\* What a step leaves of the gaps of a node: none that was not there before.
NoNewGap(a) == \A i \in SlotIds : i < numslots'[a] /\ slots'[a][i].pair = None
                                  => i < numslots[a] /\ slots[a][i] = slots'[a][i]

\* A gap that was there before still has its owner in process().
LEMMA GapsStay ==
  ASSUME Dense, ~needStop, faults = {}, NEW a \in Addrs, NoNewGap(a),
         \A v \in Workers : node[v] = a /\ pc[v] = "process" /\ tick[v].wasDel >= 0
           => node'[v] = a /\ pc'[v] = "process" /\ tick'[v].wasDel = tick[v].wasDel,
         NEW i \in SlotIds, i < numslots'[a], slots'[a][i].pair = None
  PROVE  Cleared(a, i)' /\ slots'[a][i].mask = 0
<1>1. Cleared(a, i) /\ slots'[a][i].mask = 0
  BY DEF NoNewGap, Dense
<1>2. PICK v \in Workers : node[v] = a /\ pc[v] = "process" /\ 0 <= tick[v].wasDel /\ tick[v].wasDel <= i
  BY <1>1 DEF Cleared
<1>3. tick[v].wasDel >= 0
  BY <1>2
<1> QED BY <1>1, <1>2, <1>3 DEF Cleared

LEMMA AddedGap ==
  ASSUME Safe, NEW a \in Addrs, Same(a) \/ \E p \in Workers : Added(a, p)
  PROVE  NoNewGap(a)
<1>1. CASE Same(a)
  BY <1>1 DEF Same, NoNewGap
<1>2. CASE \E p \in Workers : Added(a, p)
  <2>1. PICK p \in Workers : Added(a, p)
    BY <1>2
  <2>2. \A i \in SlotIds : slots'[a][i] = IF i = numslots[a] THEN [pair |-> p, mask |-> 0] ELSE slots[a][i]
    BY <2>1 DEF Added, Safe, NodesAre
  <2>3. numslots[a] \in Int /\ numslots'[a] = numslots[a] + 1
    BY <2>1, SlotsAssumption DEF Added, Safe, NodesAre
  <2>4. ASSUME NEW i \in SlotIds, i < numslots'[a], slots'[a][i].pair = None
        PROVE  i < numslots[a] /\ slots[a][i] = slots'[a][i]
    <3>1. i # numslots[a]
      BY <2>2, <2>4, NamesAssumption
    <3>2. slots'[a][i] = slots[a][i] /\ i \in Int
      BY <2>2, <3>1 DEF SlotIds
    <3> QED BY <3>1, <3>2, <2>3, <2>4
  <2> QED BY <2>4 DEF NoNewGap
<1> QED BY <1>1, <1>2

\* The node of a step that rearranges the slots: only clearing makes a gap.
LEMMA OwnSlotsFull ==
  ASSUME Safe, OwnRuns, Knows, Dense, ~needStop, faults = {}, NEW w \in Workers, Prepare(w) \/ Compact(w)
  PROVE  \A i \in SlotIds : i < numslots'[node[w]] => slots'[node[w]][i].pair # None
<1> DEFINE a == node[w]
           n == numslots[a]
           s == slots[a]
<1>1. a \in Addrs /\ n \in -1..MaxSlots /\ IsSlots(s) /\ Distinct(s) /\ Ends(s, n)
      /\ MaxSlots \in Nat /\ n \in Int /\ DOMAIN slots = Addrs /\ DOMAIN numslots = Addrs
  BY OwnSlotsIs, SlotsAssumption DEF Safe, NodesAre, IsSlots, OwnSlots
<1>2. \A i \in SlotIds : i \in Int /\ i >= 0
  BY <1>1 DEF SlotIds
<1>3. CASE Prepare(w)
  <2> DEFINE r == Register(s, n)
             m == IF r.n <= 0 THEN -1 ELSE r.n
  <2>1. slots' = [slots EXCEPT ![a] = r.slots] /\ numslots' = [numslots EXCEPT ![a] = m] /\ pc[w] = "prepare"
    BY <1>3 DEF Prepare, Mine, At
  <2>2. \A i \in SlotIds : i < n => s[i].pair # None
    BY <2>1, <1>1, FullIs DEF Running
  <2> HIDE DEF a, n, s
  <2>3. \A i \in SlotIds : i < r.n => r.slots[i].pair # None
    BY <2>2, <1>1, RegisterFull
  <2>4. r.n \in -1..MaxSlots
    BY <1>1, RegisterIs
  <2> HIDE DEF r
  <2>5. slots'[a] = r.slots /\ numslots'[a] = m
    BY <2>1, <1>1
  <2>6. \A i \in SlotIds : i < m => i < r.n
    BY <2>4, <1>1, <1>2
  <2> QED BY <2>3, <2>5, <2>6 DEF a
<1>4. CASE Compact(w)
  <2> DEFINE d == tick[w].wasDel
             c == IF d < 0
                  THEN [n |-> n, slots |-> s, index |-> [k \in 0..NoRv |-> k]]
                  ELSE Closed(s, n, d)
             m == IF c.n > 0 THEN c.n ELSE -1
  <2>1. slots' = [slots EXCEPT ![a] = c.slots] /\ numslots' = [numslots EXCEPT ![a] = m] /\ pc[w] = "process"
    BY <1>4 DEF Compact, At
  <2>2. d \in -1..MaxSlots - 1 /\ tick[w].cur \in -1..MaxSlots
    BY TickFields DEF Safe, Types
  <2>3. tick[w].cur <= n /\ (d >= 0 => d < tick[w].cur /\ slots[a][d].pair = None)
    BY <2>1 DEF Knows, TickKnows
  <2>4. \A i \in SlotIds : i < n /\ (d < 0 \/ i < d) => s[i].pair # None
    BY <2>1, <1>1, FullIs DEF Running, InTick
  <2>5. c.n \in Int /\ \A i \in SlotIds : i < c.n => c.slots[i].pair # None
    <3>1. CASE d < 0
      <4>1. c.n = n /\ c.slots = s
        BY <3>1
      <4> HIDE DEF c
      <4> QED BY <4>1, <3>1, <1>1, <2>4
    <3>2. CASE ~(d < 0)
      <4>1. d \in SlotIds /\ d < n /\ s[d].pair = None
        BY <3>2, <2>2, <2>3, <1>1 DEF SlotIds
      <4>2. c = Closed(s, n, d)
        BY <3>2
      <4>3. \A i \in SlotIds : i < d => s[i].pair # None
        BY <4>1, <2>4, <1>1, <1>2
      <4> HIDE DEF c, d, n, s, a
      <4>4. \A j \in SlotIds : j < Closed(s, n, d).n => Closed(s, n, d).slots[j].pair # None
        BY <4>1, <4>3, <1>1, ClosedKeeps
      <4>5. Closed(s, n, d).n \in 0..MaxSlots
        BY <4>1, <1>1, ClosedIs
      <4> QED BY <4>2, <4>4, <4>5
    <3> QED BY <3>1, <3>2
  <2> HIDE DEF c, a
  <2>6. slots'[a] = c.slots /\ numslots'[a] = m
    BY <2>1, <1>1
  <2>7. \A i \in SlotIds : i < m => i < c.n
    BY <2>5, <1>2
  <2> HIDE DEF m
  <2> QED BY <2>5, <2>6, <2>7 DEF a
<1> QED BY <1>3, <1>4

LEMMA WorkerDense ==
  ASSUME Safe, OwnRuns, Knows, Dense, faults = {}, NEW w \in Workers, BridgeStep(w) \/ TickStep(w), faults' = {}
  PROVE  Dense'
<1> SUFFICES ASSUME ~needStop, NEW a \in Addrs, NEW i \in SlotIds, i < numslots'[a], slots'[a][i].pair = None
             PROVE  Cleared(a, i)' /\ slots'[a][i].mask = 0
  BY FlagsKept DEF Dense, Cleared
<1> USE DEF At
<1>1. Types /\ PlaceInv /\ NodesAre(slots, numslots) /\ MaxSlots \in Nat
  BY SlotsAssumption DEF Safe
<1>2. \A v \in Workers : v # w => pc'[v] = pc[v] /\ node'[v] = node[v] /\ tick'[v] = tick[v]
  BY OthersWait
<1>3. ASSUME NoNewGap(a),
             node[w] = a /\ pc[w] = "process" /\ tick[w].wasDel >= 0
               => node'[w] = a /\ pc'[w] = "process" /\ tick'[w].wasDel = tick[w].wasDel
      PROVE  Cleared(a, i)' /\ slots'[a][i].mask = 0
  BY <1>2, <1>3, GapsStay
<1>4. CASE ProcessSkip(w) \/ ProcessData(w) \/ Dying(w)
  <2>1. NoNewGap(a)
    BY <1>4, IdleIs DEF Idle, nodeVars, NoNewGap
  <2>2. node' = node /\ pc' = pc /\ tick'[w].wasDel = tick[w].wasDel
    <3>1. CASE ProcessSkip(w) \/ ProcessData(w)
      BY <1>1, <3>1 DEF ProcessSkip, ProcessData, bridgeVars, Types, Ticks
    <3>2. CASE Dying(w)
      BY <3>2, DyingIs DEF bridgeVars
    <3> QED BY <1>4, <3>1, <3>2
  <2> QED BY <2>1, <2>2, <1>3
<1>5. CASE Idle(w) /\ ~(ProcessSkip(w) \/ ProcessData(w) \/ Dying(w))
  <2>1. NoNewGap(a)
    BY <1>5, IdleIs DEF nodeVars, NoNewGap
  <2>2. pc[w] # "process"
    BY <1>5 DEF Idle, BridgeLock, WalkDelete, BridgeTaken, WalkOver, LoopCheck, Wait, Count, Return, Unlink
  <2> QED BY <2>1, <2>2, <1>3
<1>6. CASE WalkTry(w) \/ BridgeAddOwn(w)
  <2>1. NoNewGap(a)
    BY <1>6, PlacingStep, AddedGap
  <2>2. pc[w] # "process"
    BY <1>6 DEF WalkTry, BridgeAddOwn
  <2> QED BY <2>1, <2>2, <1>3
<1>7. CASE BridgeNew(w)
  <2>1. a # node'[w]
    <3>1. numslots'[node'[w]] = 0
      BY <1>7, NewNodeIs
    <3>2. ~(i < 0)
      BY <1>1 DEF SlotIds
    <3> QED BY <3>1, <3>2
  <2>2. NoNewGap(a)
    BY <1>7, <2>1, NewNodeIs, AddedGap
  <2>3. pc[w] # "process"
    BY <1>7 DEF BridgeNew, WalkOver
  <2> QED BY <2>2, <2>3, <1>3
<1>8. CASE Prepare(w) \/ Compact(w)
  <2>1. a # node[w]
    BY <1>8, OwnSlotsFull
  <2>2. NoNewGap(a)
    BY <1>8, <2>1, OwnSlotsIs, AddedGap DEF OwnSlots
  <2> QED BY <2>1, <2>2, <1>3
<1>9. CASE ProcessDead(w)
  <2> DEFINE k == tick[w].i
             h == node[w]
  <2>1. /\ slots' = [slots EXCEPT ![h][k] = EmptySlot] /\ numslots' = numslots
        /\ pc[w] = "process" /\ pc'[w] = "process" /\ node' = node
        /\ tick'[w].wasDel = IF tick[w].wasDel < 0 THEN k ELSE tick[w].wasDel
    BY <1>1, <1>9 DEF ProcessDead, More, bridgeVars, Types, Ticks
  <2>2. h \in Addrs /\ k \in Int /\ k >= 0 /\ tick[w].wasDel \in Int
    <3>1. tick[w] \in Ticks /\ h \in Addrs
      BY <2>1, <1>1 DEF Types, PlaceInv
    <3> QED BY <3>1, <1>1, TickFields
  <2>3. CASE a = h /\ i = k
    <3>1. tick[w].wasDel <= k
      BY <2>1 DEF Knows, TickKnows
    <3>2. 0 <= tick'[w].wasDel /\ tick'[w].wasDel <= i
      BY <3>1, <2>1, <2>2, <2>3
    <3>3. slots'[a][i] = EmptySlot
      BY <2>1, <2>2, <2>3, <1>1 DEF NodesAre
    <3> QED BY <3>2, <3>3, <2>1, <2>3 DEF Cleared, EmptySlot
  <2>4. CASE ~(a = h /\ i = k)
    <3>1. slots'[a][i] = slots[a][i]
      BY <2>1, <2>4, <1>1 DEF NodesAre
    <3>2. Cleared(a, i) /\ slots'[a][i].mask = 0
      BY <3>1, <2>1 DEF Dense
    <3>3. PICK v \in Workers : node[v] = a /\ pc[v] = "process" /\ 0 <= tick[v].wasDel /\ tick[v].wasDel <= i
      BY <3>2 DEF Cleared
    <3>4. tick'[v].wasDel = tick[v].wasDel /\ pc'[v] = "process" /\ node'[v] = a
      BY <3>3, <2>1, <2>2, <1>2
    <3> QED BY <3>2, <3>3, <3>4 DEF Cleared
  <2> QED BY <2>3, <2>4
<1>10. CASE Forward(w)
  <2> DEFINE h == node[w]
             b == NextNode(w)
             k == tick[w].rv
             left == numslots[h] - 1
             q == slots[h][k].pair
  <2>1. h \in Addrs /\ k \in SlotIds /\ pc[w] = "forward"
    BY <1>10, ForwardIs DEF Forward
  <2>2. CASE UNCHANGED nodeVars
    BY <2>1, <2>2, <1>3 DEF nodeVars, NoNewGap
  <2>3. CASE /\ b \in Addrs \ {h} /\ Added(b, q) /\ left \in SlotIds /\ ("forwarded" \notin faults' => k <= left)
             /\ slots'[h] = MoveSlot(slots[h], k, left) /\ numslots'[h] = IF left = 0 THEN -1 ELSE left
             /\ \A c \in Addrs : c # h /\ c # b => Same(c)
    <3>1. numslots[h] \in Int /\ left \in Int /\ left >= 0 /\ k \in Int /\ IsSlots(slots[h]) /\ i \in Int
      BY <2>1, <2>3, <1>1 DEF NodesAre, SlotIds, IsSlots
    <3>2. \A j \in SlotIds : j < numslots[h] => slots[h][j].pair # None
      BY <2>1, FullIs DEF Running, InTick
    <3>3. a # h
      <4> SUFFICES ASSUME a = h PROVE FALSE
        OBVIOUS
      <4>1. i < left /\ left < numslots[h] /\ i < numslots[h]
        BY <2>3, <3>1
      <4> HIDE DEF h, k, left
      <4>2. slots'[h][i].pair = IF i = k THEN slots[h][left].pair ELSE slots[h][i].pair
        BY <4>1, <2>1, <2>3, <3>1, MoveSlotKeeps
      <4>3. slots[h][left].pair # None /\ slots[h][i].pair # None
        BY <4>1, <2>3, <3>2
      <4> QED BY <4>2, <4>3
    <3>4. q \in Workers
      <4>1. k < numslots[h]
        BY <2>3, <3>1
      <4> QED BY <4>1, <2>1, <3>1, <3>2 DEF IsSlots, Pairs
    <3>5. NoNewGap(a)
      BY <2>3, <3>3, <3>4, AddedGap
    <3> QED BY <3>5, <2>1, <1>3
  <2> QED BY <1>10, <2>2, <2>3, ForwardIs
<1> QED BY <1>4, <1>5, <1>6, <1>7, <1>8, <1>9, <1>10 DEF BridgeStep, WalkStep, TickStep, Idle, Dying

LEMMA DenseKept == ASSUME Safe, OwnInv, SlotInv, Dense, [Next]_vars PROVE Dense'
<1> SUFFICES ASSUME faults' = {} PROVE Dense'
  BY DEF Dense
<1>0. faults = {} /\ OwnRuns /\ Knows
  BY FaultsStay DEF OwnInv, SlotInv
<1>1. ASSUME NEW w \in Workers, BridgeStep(w) \/ TickStep(w) PROVE Dense'
  BY <1>0, <1>1, WorkerDense
<1>2. CASE EngineExit \/ StopUnlock \/ StopReturn \/ UNCHANGED vars
  BY <1>0, <1>2 DEF EngineExit, StopUnlock, StopReturn, vars, nodeVars, listVars, bridgeVars, Dense, Cleared
<1>3. CASE StopBegin \/ CloseNode
  <2>1. needStop'
    BY <1>3 DEF StopBegin, CloseNode, StopAt, SlotInv
  <2> QED BY <2>1 DEF Dense
<1> QED BY <1>1, <1>2, <1>3 DEF Next, StopStep, Finished

\* The slots in use are full and all others empty, except for those that the owner has just
\* cleared in process(): try_add_bridge never fills a slot that holds a pair, and the next
\* registration meets no null pair, until one of the two faults has happened or stop() runs.
THEOREM SlotsDenseHolds == Spec => []SlotsDense
<1>1. Init => Dense
  BY SlotsAssumption DEF Init, Dense, SlotIds
<1>2. Safe /\ OwnInv /\ SlotInv /\ Dense /\ [Next]_vars => Dense'
  BY DenseKept
<1>3. Safe /\ Dense => SlotsDense
  <2> SUFFICES ASSUME Safe, Dense, ~needStop, faults = {}, NEW a \in ToSet(list), NEW i \in SlotIds
               PROVE  /\ i >= numslots[a] => slots[a][i].pair = None
                      /\ i < numslots[a] /\ slots[a][i].pair = None => Cleared(a, i)
    BY DEF SlotsDense, Cleared
  <2>1. a \in Addrs
    BY DEF Safe, Types, ToSet
  <2> QED BY <2>1 DEF Dense, Safe, NodesAre, Ends
<1> QED BY <1>1, <1>2, <1>3, AlwaysSlotInv, PTL DEF Spec

-----------------------------------------------------------------------------
(* What brings the process down.                                           *)

\* With a node of its own and no gaps before the first cleared slot, no step of a worker does.
LEMMA NotDying ==
  ASSUME Safe, OwnRuns, Knows, Dense, ~needStop, faults = {}, NEW w \in Workers
  PROVE  ~Dying(w)
<1> USE DEF At
<1> SUFFICES ASSUME Dying(w) PROVE FALSE
  OBVIOUS
<1>1. /\ pc[w] \in Running /\ node[w] \in Addrs /\ MaxSlots \in Nat
      /\ numslots[node[w]] \in -1..MaxSlots /\ tick[w] \in Ticks
  <2>1. pc[w] \in Running
    BY DEF Dying, PrepareNull, ProcessNull, ProcessAsserted, UseFreed, More, Running, InTick
  <2>2. node[w] # None
    BY <2>1 DEF Safe, PlaceInv, Running, InTick
  <2> QED BY <2>1, <2>2, SlotsAssumption DEF Safe, Types, NodesAre
<1>2. tick[w].i \in 0..MaxSlots /\ tick[w].cur \in -1..MaxSlots
  BY <1>1, TickFields
<1>3. CASE PrepareNull(w)
  <2>1. pc[w] = "prepare" /\ \E i \in 0..numslots[node[w]] - 1 : slots[node[w]][i].pair = None
    BY <1>3 DEF PrepareNull, HasNull, Mine
  <2>2. PICK i \in 0..numslots[node[w]] - 1 : slots[node[w]][i].pair = None
    BY <2>1
  <2>3. i \in SlotIds /\ i < numslots[node[w]]
    BY <1>1 DEF SlotIds
  <2> QED BY <2>1, <2>2, <2>3, <1>1, FullIs
<1>4. CASE ProcessNull(w)
  <2> DEFINE k == tick[w].i
  <2>1. /\ pc[w] = "process" /\ k < tick[w].cur /\ slots[node[w]][k].pair = None
        /\ Event(w) \in {"data", "eof", "eofmore"}
    BY <1>4 DEF ProcessNull, More, Slot, Mine
  <2>2. tick[w].cur <= numslots[node[w]] /\ 0 \notin DOMAIN tick[w].evs
    BY <2>1 DEF Knows, TickKnows
  <2>3. k \in SlotIds /\ k < numslots[node[w]]
    BY <2>1, <2>2, <1>1, <1>2 DEF SlotIds
  <2>4. slots[node[w]][k].mask = 0
    BY <2>1, <2>3, <1>1 DEF Dense
  <2>5. Event(w) = "none"
    BY <2>2, <2>4 DEF Event, Slot, Mine
  <2> QED BY <2>1, <2>5
<1>5. CASE ProcessAsserted(w)
  BY <1>5 DEF ProcessAsserted, Counted, Knows, TickKnows
<1>6. CASE UseFreed(w)
  BY <1>6, <1>1 DEF UseFreed, OwnRuns
<1> QED BY <1>3, <1>4, <1>5, <1>6 DEF Dying

\* Until stop() has begun, and but for the two faults, no thread meets a null pipe, an index out
\* of use, a failing assertion or freed memory, with any number of workers and slots.
THEOREM CrashOnlyInStopHolds == Spec => []CrashOnlyInStop
<1>1. Init => Dense /\ CrashOnlyInStop
  BY SlotsAssumption DEF Init, Dense, SlotIds, CrashOnlyInStop
<1>2. Safe /\ OwnInv /\ SlotInv /\ Dense /\ [Next]_vars => Dense'
  BY DenseKept
<1>3. Safe /\ OwnInv /\ SlotInv /\ Dense /\ CrashOnlyInStop /\ [Next]_vars => CrashOnlyInStop'
  <2> SUFFICES ASSUME Safe, OwnInv, SlotInv, Dense, CrashOnlyInStop, [Next]_vars, faults' = {}, ~needStop'
               PROVE  ~crashed'
    BY DEF CrashOnlyInStop
  <2>0. faults = {} /\ OwnRuns /\ Knows
    BY FaultsStay DEF OwnInv, SlotInv
  <2> USE DEF fate
  <2>1. ASSUME NEW w \in Workers, BridgeStep(w) \/ TickStep(w) PROVE ~crashed'
    <3>1. ~needStop /\ ~crashed
      BY <2>0, <2>1, FlagsKept DEF CrashOnlyInStop
    <3>2. CASE Dying(w)
      BY <3>1, <3>2, <2>0, NotDying
    <3>3. CASE BridgeStep(w)
      BY <3>1, <3>3 DEF BridgeStep, WalkStep, BridgeLock, WalkDelete, WalkTry, BridgeTaken, BridgeNew, BridgeAddOwn
    <3>4. CASE Forward(w)
      <4>1. pc[w] = "forward"
        BY <3>4 DEF Forward, At
      <4>2. numslots[node[w]] >= 0 /\ node[w] \in Addrs
        BY <4>1, <2>0 DEF OwnRuns, Running, InTick, Safe, PlaceInv, Types
      <4>3. numslots[node[w]] \in Int /\ tick[w].rv \in 0..NoRv /\ MaxSlots \in Nat
        BY <4>2, SlotsAssumption, TickFields DEF Safe, Types, NodesAre
      <4>4. NextNode(w) # None => tick[w].rv < numslots[node[w]]
        BY <3>4 DEF Forward
      <4>5. NextNode(w) # None => ~(numslots[node[w]] - 1 < 0)
        BY <4>3, <4>4
      <4>6. \/ UNCHANGED crashed
            \/ NextNode(w) # None /\ (~(tick[w].rv < numslots[node[w]]) \/ numslots[node[w]] - 1 < 0)
        BY <3>4 DEF Forward
      <4> QED BY <3>1, <4>4, <4>5, <4>6
    <3>5. CASE TickStep(w) /\ ~Dying(w) /\ ~Forward(w)
      BY <3>1, <3>5 DEF TickStep, Dying, LoopCheck, Prepare, Wait, Count, ProcessSkip, ProcessData, ProcessDead,
                        Compact, Return, Unlink
    <3> QED BY <2>1, <3>2, <3>3, <3>4, <3>5
  <2>2. ~CloseNode
    <3> SUFFICES ASSUME CloseNode PROVE FALSE
      OBVIOUS
    <3>1. stopPc.at = "closing" /\ needStop' = needStop
      BY DEF CloseNode, StopAt
    <3> QED BY <3>1 DEF SlotInv
  <2>3. CASE EngineExit \/ StopBegin \/ StopUnlock \/ StopReturn \/ UNCHANGED vars
    <3>1. UNCHANGED crashed /\ ~needStop
      BY <2>3 DEF EngineExit, StopBegin, StopUnlock, StopReturn, vars
    <3> QED BY <3>1, <2>0 DEF CrashOnlyInStop
  <2> QED BY <2>1, <2>2, <2>3 DEF Next, StopStep, Finished
<1> QED BY <1>1, <1>2, <1>3, AlwaysSlotInv, PTL DEF Spec

-----------------------------------------------------------------------------
(* The mask bits.                                                          *)

\* Between registration and compaction no two pairs have the same bits, but for those that the
\* registration has moved into the place of a broken one; a pair that has come since has none.
MaskKnown(v) ==
  pc[v] \in {"wait", "count", "process"} =>
    \A i, j \in SlotIds \ tick[v].moved :
      i # j /\ slots[node[v]][i].pair # None /\ slots[node[v]][j].pair # None =>
        slots[node[v]][i].mask = 0 \/ slots[node[v]][i].mask # slots[node[v]][j].mask

MaskInv == "unlinked" \notin faults => \A v \in Workers : MaskKnown(v)

\* What leaves that as it is: pairs come without bits, or go.
LEMMA MasksKept ==
  ASSUME NEW v \in Workers, MaskKnown(v), pc'[v] \in {"wait", "count", "process"},
         pc[v] \in {"wait", "count", "process"}, node'[v] = node[v], tick'[v].moved = tick[v].moved,
         \A i \in SlotIds : \/ slots'[node[v]][i] = slots[node[v]][i]
                            \/ slots'[node[v]][i].pair = None \/ slots'[node[v]][i].mask = 0
  PROVE  MaskKnown(v)'
<1> SUFFICES ASSUME NEW i \in SlotIds \ tick[v].moved, NEW j \in SlotIds \ tick[v].moved, i # j,
                    slots'[node[v]][i].pair # None, slots'[node[v]][j].pair # None, slots'[node[v]][i].mask # 0
             PROVE  slots'[node[v]][i].mask # slots'[node[v]][j].mask
  BY DEF MaskKnown
<1>1. slots'[node[v]][i] = slots[node[v]][i]
  OBVIOUS
<1>2. CASE slots'[node[v]][j] = slots[node[v]][j]
  BY <1>1, <1>2 DEF MaskKnown
<1>3. CASE slots'[node[v]][j].mask = 0
  BY <1>3
<1> QED BY <1>2, <1>3

LEMMA OtherMask ==
  ASSUME Safe, OwnRuns, NEW w \in Workers, BridgeStep(w) \/ TickStep(w),
         NEW v \in Workers, v # w, MaskKnown(v)
  PROVE  MaskKnown(v)'
<1>1. pc'[v] = pc[v] /\ node'[v] = node[v] /\ tick'[v] = tick[v]
  BY OthersWait
<1>2. CASE pc[v] \in {"wait", "count", "process"}
  <2>1. node[v] # None /\ pc[v] \in Running
    BY <1>2 DEF Safe, PlaceInv, Running, InTick
  <2>2. node[v] \in Addrs /\ Grown(node[v])
    BY <2>1, OthersNode
  <2>3. \A i \in SlotIds : slots'[node[v]][i] = slots[node[v]][i] \/ slots'[node[v]][i].mask = 0
    BY <2>2, GrownKeeps DEF Safe
  <2> QED BY <1>1, <1>2, <2>3, MasksKept
<1>3. CASE pc[v] \notin {"wait", "count", "process"}
  BY <1>1, <1>3 DEF MaskKnown
<1> QED BY <1>2, <1>3

\* After a registration every slot in use is either one that another pair was moved into, or has
\* a place of its own in the mask.
LEMMA RegisterMasks ==
  ASSUME NEW n \in -1..MaxSlots, NEW s, IsSlots(s), Ends(s, n),
         NEW i \in SlotIds \ Register(s, n).moved, NEW j \in SlotIds \ Register(s, n).moved, i # j,
         Register(s, n).slots[i].pair # None, Register(s, n).slots[j].pair # None
  PROVE  Register(s, n).slots[i].mask # Register(s, n).slots[j].mask
<1> DEFINE bad(k) == {h \in 0..n - 1 : h < k /\ s[h].pair \in broken}
           last(k) == n - 1 - Cardinality(bad(k))
           seen == {k \in 0..n - 1 : k <= last(k)}
           gone == bad(n) \cap seen
           kept == seen \ gone
           left == n - Cardinality(gone)
           upto(k) == {h \in kept : h <= k}
           moved == gone \cap 0..left - 1
           t == [k \in SlotIds |->
             IF left <= k /\ k < n THEN [s[k] EXCEPT !.pair = None]
             ELSE IF k \in gone THEN s[last(k)]
             ELSE IF k \in kept THEN [s[k] EXCEPT !.mask = Cardinality(upto(k))]
             ELSE s[k]]
<1>1. MaxSlots \in Nat /\ n \in Int /\ n <= MaxSlots
  BY SlotsAssumption
<1>2. Register(s, n).slots = t /\ Register(s, n).moved = moved
  BY DEF Register
<1>3. seen \in SUBSET (0..n - 1) /\ gone \in SUBSET (0..n - 1) /\ kept \in SUBSET (0..n - 1) /\ gone \in SUBSET seen
  OBVIOUS
<1>4. \A k, h \in 0..n - 1 : h < k => Cardinality(bad(h)) <= Cardinality(bad(k))
  <2> SUFFICES ASSUME NEW k \in 0..n - 1, NEW h \in 0..n - 1, h < k
               PROVE  Cardinality(bad(h)) <= Cardinality(bad(k))
    OBVIOUS
  <2>1. bad(h) \in SUBSET bad(k) /\ bad(k) \in SUBSET (0..n - 1)
    BY <1>1
  <2> HIDE DEF bad
  <2> QED BY <2>1, <1>1, SizeOf
<1>5. \A k \in 0..n - 1 : Cardinality(bad(k)) \in Nat
  <2> SUFFICES ASSUME NEW k \in 0..n - 1 PROVE Cardinality(bad(k)) \in Nat
    OBVIOUS
  <2>1. bad(k) \in SUBSET (0..n - 1)
    OBVIOUS
  <2> HIDE DEF bad
  <2> QED BY <2>1, <1>1, SizeOf
<1> DEFINE m == Cardinality(seen)
<1>6. m \in Nat /\ Cardinality(gone) \in Nat /\ (n >= 0 => Cardinality(gone) <= n) /\ (n < 0 => Cardinality(gone) = 0)
  <2> HIDE DEF seen, gone
  <2> QED BY <1>1, <1>3, SizeOf
\* The loop looks at slots one after another, and stops for good.
<1>7. \A k \in seen, h \in 0..n - 1 : h < k => h \in seen
  <2> SUFFICES ASSUME NEW k \in seen, NEW h \in 0..n - 1, h < k PROVE h <= last(h)
    OBVIOUS
  <2>1. k \in 0..n - 1 /\ k <= n - 1 - Cardinality(bad(k))
    OBVIOUS
  <2>2. Cardinality(bad(h)) <= Cardinality(bad(k)) /\ Cardinality(bad(h)) \in Nat /\ Cardinality(bad(k)) \in Nat
    BY <2>1, <1>4, <1>5
  <2> HIDE DEF bad, seen
  <2> QED BY <2>1, <2>2, <1>1
<1>8. seen = 0..m - 1
  <2>1. ASSUME NEW k \in seen PROVE k \in 0..m - 1
    <3>1. k \in 0..n - 1
      BY <1>3
    <3>2. 0..(k + 1) - 1 \in SUBSET seen
      <4>1. ASSUME NEW h \in 0..(k + 1) - 1 PROVE h \in seen
        <5>1. h \in 0..n - 1 /\ (h = k \/ h < k)
          BY <3>1, <1>1
        <5> HIDE DEF seen
        <5> QED BY <5>1, <2>1, <1>7
      <4> HIDE DEF seen
      <4> QED BY <4>1
    <3> HIDE DEF seen
    <3>3. Cardinality(0..(k + 1) - 1) <= Cardinality(seen)
      BY <3>2, <1>1, <1>3, SizeOf
    <3>4. Cardinality(0..(k + 1) - 1) = k + 1
      BY <3>1, Below
    <3> QED BY <3>1, <3>3, <3>4, <1>6
  <2> HIDE DEF seen
  <2>2. IsFiniteSet(0..m - 1) /\ Cardinality(0..m - 1) = m
    <3> HIDE DEF m
    <3>1. m \in Int /\ m >= 0
      BY <1>6
    <3>2. IsFiniteSet(0..m - 1) /\ Cardinality(0..m - 1) = IF m > 0 THEN m ELSE 0
      BY <3>1, Below
    <3> QED BY <3>1, <3>2
  <2>3. seen \subseteq 0..m - 1
    BY <2>1
  <2> QED BY <2>2, <2>3, FS_Subset
\* Those that it does not come to are behind the slots that are left.
<1>9. ASSUME NEW k \in 0..n - 1, k \notin seen PROVE left <= k
  <2>1. m \in 0..n - 1 /\ m <= k /\ m \notin seen
    <3> HIDE DEF seen, m
    <3> QED BY <1>1, <1>6, <1>8, <1>9
  <2>2. ~(m <= n - 1 - Cardinality(bad(m)))
    BY <2>1
  <2>3. bad(m) \in SUBSET gone
    <3> SUFFICES ASSUME NEW h \in bad(m) PROVE h \in gone
      OBVIOUS
    <3>1. h \in 0..n - 1 /\ h < m /\ h \in bad(n)
      BY <1>1
    <3>2. h \in seen
      <4> HIDE DEF seen, m
      <4> QED BY <3>1, <1>1, <1>6, <1>8
    <3> QED BY <3>1, <3>2
  <2> HIDE DEF bad, gone, seen, m
  <2>4. Cardinality(bad(m)) <= Cardinality(gone) /\ Cardinality(bad(m)) \in Nat
    BY <2>3, <1>1, <1>3, SizeOf
  <2> QED BY <2>1, <2>2, <2>4, <1>1, <1>6
<1>10. \A k, h \in kept : k < h => Cardinality(upto(k)) < Cardinality(upto(h))
  <2> SUFFICES ASSUME NEW k \in kept, NEW h \in kept, k < h PROVE Cardinality(upto(k)) < Cardinality(upto(h))
    OBVIOUS
  <2>1. k \in Int /\ h \in Int /\ \A g \in kept : g \in Int
    BY <1>3
  <2>2. upto(k) \in SUBSET upto(h) /\ h \in upto(h) \ upto(k) /\ upto(h) \in SUBSET (0..n - 1)
    <3>1. upto(h) \in SUBSET (0..n - 1)
      BY <1>3
    <3> HIDE DEF kept
    <3>2. \A g \in kept : g <= k => g <= h
      BY <2>1
    <3>3. h <= h /\ ~(h <= k)
      BY <2>1
    <3>4. h \in upto(h) \ upto(k)
      BY <3>3
    <3>5. upto(k) \in SUBSET upto(h)
      BY <3>2
    <3> QED BY <3>1, <3>4, <3>5
  <2> HIDE DEF upto, kept
  <2> QED BY <2>2, <1>1, SizeOf
<1>11. \A k \in kept : Cardinality(upto(k)) \in Nat
  <2> SUFFICES ASSUME NEW k \in kept PROVE Cardinality(upto(k)) \in Nat
    OBVIOUS
  <2>1. upto(k) \in SUBSET (0..n - 1)
    BY <1>3
  <2> HIDE DEF upto, kept
  <2> QED BY <2>1, <1>1, SizeOf
<1> HIDE DEF bad, last, seen, gone, kept, left, upto, m
<1>12. ASSUME NEW k \in SlotIds, k \notin moved, t[k].pair # None
       PROVE  k \in kept /\ t[k].mask = Cardinality(upto(k))
  <2>1. k \in Int /\ k >= 0 /\ left \in Int
    BY <1>1, <1>6 DEF SlotIds, left
  <2>2. ~(left <= k /\ k < n)
    BY <1>12 DEF IsSlots
  <2>3. k < n
    <3> SUFFICES ASSUME ~(k < n) PROVE FALSE
      OBVIOUS
    <3>1. k \notin gone /\ k \notin kept
      BY <1>1, <1>3, <2>1
    <3>2. t[k] = s[k]
      BY <2>2, <3>1
    <3> QED BY <3>2, <2>1, <1>1, <1>12 DEF Ends
  <2>4. k < left /\ k \in 0..n - 1
    BY <2>1, <2>2, <2>3, <1>1
  <2>5. k \in seen
    BY <2>1, <2>4, <1>9
  <2>6. k \notin gone
    BY <2>1, <2>4, <1>12 DEF moved
  <2>7. k \in kept
    BY <2>5, <2>6 DEF kept
  <2> QED BY <2>2, <2>6, <2>7 DEF IsSlots
<1>13. i \in kept /\ j \in kept /\ t[i].mask = Cardinality(upto(i)) /\ t[j].mask = Cardinality(upto(j))
  BY <1>2, <1>12
<1>14. i < j \/ j < i
  BY <1>1 DEF SlotIds
<1> HIDE DEF t, moved
<1> QED BY <1>2, <1>10, <1>11, <1>13, <1>14

LEMMA OwnMask ==
  ASSUME Safe, OwnRuns, NEW w \in Workers, MaskKnown(w), BridgeStep(w) \/ TickStep(w)
  PROVE  MaskKnown(w)'
<1> USE DEF At, Goto
<1>1. Types /\ PlaceInv /\ NodesAre(slots, numslots) /\ MaskKnown(w) /\ MaxSlots \in Nat /\ tick[w] \in Ticks
  BY SlotsAssumption DEF Safe, Types
<1>2. CASE BridgeStep(w)
  BY <1>1, <1>2 DEF BridgeStep, WalkStep, BridgeLock, WalkDelete, WalkTry, BridgeTaken, BridgeNew, BridgeAddOwn,
                    WalkOver, Types, MaskKnown
<1>3. CASE LoopCheck(w) \/ Return(w) \/ Unlink(w)
  BY <1>1, <1>3 DEF LoopCheck, Return, Unlink, Types, MaskKnown
<1>4. CASE Prepare(w)
  <2> DEFINE a == node[w]
             r == Register(slots[a], numslots[a])
  <2>1. /\ slots' = [slots EXCEPT ![a] = r.slots] /\ node' = node
        /\ pc' = [pc EXCEPT ![w] = IF r.n <= 0 THEN "unlink" ELSE "wait"]
        /\ tick' = [tick EXCEPT ![w].reg = r.reg, ![w].moved = r.moved]
    BY <1>4 DEF Prepare, Mine, bridgeVars
  <2>2. a \in Addrs /\ numslots[a] \in -1..MaxSlots /\ IsSlots(slots[a]) /\ Ends(slots[a], numslots[a])
    BY <1>1, <1>4, OwnSlotsIs DEF OwnSlots, NodesAre, IsSlots
  <2> HIDE DEF a
  <2>3. \A i, j \in SlotIds \ r.moved : i # j /\ r.slots[i].pair # None /\ r.slots[j].pair # None
                                        => r.slots[i].mask # r.slots[j].mask
    BY <2>2, RegisterMasks
  <2> HIDE DEF r
  <2>4. slots'[a] = r.slots /\ node'[w] = a /\ tick'[w].moved = r.moved
    BY <2>1, <2>2, <1>1 DEF NodesAre, Types, Ticks, a
  <2> QED BY <2>3, <2>4 DEF MaskKnown
<1>5. CASE Wait(w)
  <2>1. PICK hit \in SUBSET (1..tick[w].reg) :
          /\ \E kind \in [hit -> EventKinds] : tick' = [tick EXCEPT ![w] = Woken(w, kind)]
          /\ pc' = [pc EXCEPT ![w] = IF hit = {} THEN "ret" ELSE "count"]
    BY <1>5 DEF Wait
  <2>2. PICK kind \in [hit -> EventKinds] : tick' = [tick EXCEPT ![w] = Woken(w, kind)]
    BY <2>1
  <2>3. pc[w] = "wait" /\ UNCHANGED <<slots, node>>
    BY <1>5 DEF Wait, nodeVars, bridgeVars
  <2>4. CASE hit = {}
    <3>1. pc'[w] = "ret"
      BY <2>1, <2>4, <1>1 DEF Types
    <3> QED BY <3>1 DEF MaskKnown
  <2>5. CASE hit # {}
    <3>1. pc'[w] = "count"
      BY <2>1, <2>5, <1>1 DEF Types
    <3>2. tick'[w].moved = tick[w].moved
      BY <2>2, <2>5, <1>1 DEF Woken, NoTick, Types
    <3> QED BY <3>1, <3>2, <2>3, <1>1, MasksKept
  <2> QED BY <2>4, <2>5
<1>6. CASE Count(w) \/ ProcessSkip(w) \/ ProcessData(w)
  <2>1. /\ pc[w] \in {"count", "process"} /\ pc'[w] = "process" /\ UNCHANGED <<slots, node>>
        /\ tick'[w].moved = tick[w].moved
    BY <1>1, <1>6 DEF Count, ProcessSkip, ProcessData, More, nodeVars, bridgeVars, Types, Ticks
  <2> QED BY <1>1, <2>1, MasksKept
<1>7. CASE Dying(w)
  BY <1>1, <1>7, DyingIs DEF nodeVars, bridgeVars, MaskKnown
<1>8. CASE ProcessDead(w)
  <2>1. /\ pc[w] = "process" /\ pc'[w] = "process" /\ node' = node /\ tick'[w].moved = tick[w].moved
        /\ slots' = [slots EXCEPT ![node[w]][tick[w].i] = EmptySlot]
    BY <1>1, <1>8 DEF ProcessDead, More, bridgeVars, Types, Ticks
  <2>2. node[w] \in Addrs
    BY <2>1, <1>1 DEF Types, PlaceInv
  <2>3. \A i \in SlotIds : slots'[node[w]][i] = IF i = tick[w].i THEN EmptySlot ELSE slots[node[w]][i]
    BY <2>1, <2>2, <1>1 DEF NodesAre
  <2>4. \A i \in SlotIds : slots'[node[w]][i] = slots[node[w]][i] \/ slots'[node[w]][i].pair = None
    BY <2>3 DEF EmptySlot
  <2> QED BY <1>1, <2>1, <2>4, MasksKept
<1>9. CASE Compact(w)
  <2>1. \E c : pc' = [pc EXCEPT ![w] = IF c > 0 THEN "ret" ELSE "unlink"]
    BY <1>9 DEF Compact
  <2>2. pc'[w] \in {"ret", "unlink"}
    BY <2>1, <1>1 DEF Types
  <2> QED BY <2>2 DEF MaskKnown
<1>10. CASE Forward(w)
  <2>1. pc'[w] \in {"loop", "forward", "unlink"}
    BY <1>10, <1>1 DEF Forward, Types
  <2> QED BY <2>1 DEF MaskKnown
<1> QED BY <1>2, <1>3, <1>4, <1>5, <1>6, <1>7, <1>8, <1>9, <1>10 DEF TickStep, Dying

LEMMA MaskKept == ASSUME Safe, OwnInv, MaskInv, [Next]_vars PROVE MaskInv'
<1> SUFFICES ASSUME "unlinked" \notin faults', NEW v \in Workers PROVE MaskKnown(v)'
  BY DEF MaskInv
<1>0. OwnRuns /\ \A u \in Workers : MaskKnown(u)
  BY FaultsStay DEF OwnInv, MaskInv
<1>1. ASSUME NEW w \in Workers, BridgeStep(w) \/ TickStep(w) PROVE MaskKnown(v)'
  <2>1. MaskKnown(v)
    BY <1>0
  <2>2. CASE v = w
    BY <2>1, <2>2, <1>0, <1>1, OwnMask
  <2>3. CASE v # w
    BY <2>1, <2>3, <1>0, <1>1, OtherMask
  <2> QED BY <2>2, <2>3
<1>2. CASE EngineExit \/ StopBegin \/ StopUnlock \/ StopReturn \/ UNCHANGED vars
  BY <1>0, <1>2 DEF EngineExit, StopBegin, StopUnlock, StopReturn, vars, nodeVars, listVars, bridgeVars, MaskKnown
<1>3. CASE CloseNode
  <2> DEFINE a == list[stopPc.pos]
             t == [i \in SlotIds |-> IF i < numslots[a] THEN [slots[a][i] EXCEPT !.pair = None] ELSE slots[a][i]]
  <2>1. UNCHANGED <<pc, node, tick>> /\ stopPc.at = "closing" /\ stopPc.pos <= Len(list)
    BY <1>3 DEF CloseNode, StopAt, bridgeVars
  <2>2. a \in Addrs
    BY <2>1 DEF Safe, PlaceInv, Types
  <2>3. slots' = [slots EXCEPT ![a] = t]
    BY <1>3, <2>2 DEF CloseNode, Safe, NodesAre
  <2>4. \A i \in SlotIds : t[i].pair # None => t[i] = slots[a][i]
    BY <2>2 DEF Safe, NodesAre
  <2> HIDE DEF a, t
  <2>5. \A c \in Addrs : \A i \in SlotIds : slots'[c][i] = slots[c][i] \/ slots'[c][i].pair = None
    BY <2>2, <2>3, <2>4 DEF Safe, NodesAre
  <2>6. CASE pc[v] \in {"wait", "count", "process"}
    <3>1. node[v] \in Addrs
      BY <2>6 DEF Safe, PlaceInv, Types
    <3> QED BY <3>1, <2>1, <2>5, <2>6, <1>0, MasksKept
  <2>7. CASE pc[v] \notin {"wait", "count", "process"}
    BY <2>1, <2>7 DEF MaskKnown
  <2> QED BY <2>6, <2>7
<1> QED BY <1>1, <1>2, <1>3 DEF Next, StopStep, Finished

\* Two pairs of a node never read the same bits of what the wait has found, whatever was moved,
\* handed on or added since the registration, and however many pairs could not be registered:
\* all but the pair that took the place of such a one, see Register.
THEOREM MaskExclusiveHolds == Spec => []MaskExclusive
<1>1. Init => MaskInv
  BY DEF Init, MaskInv, MaskKnown
<1>2. Safe /\ OwnInv /\ MaskInv /\ [Next]_vars => MaskInv'
  BY MaskKept
<1>3. Safe /\ OwnInv /\ SlotInv /\ MaskInv => MaskExclusive
  <2> SUFFICES ASSUME Safe, SlotInv, MaskInv, "unlinked" \notin faults, NEW w \in Workers, pc[w] = "process",
                      NEW i \in 0..tick[w].cur - 1, NEW j \in 0..tick[w].cur - 1,
                      i # j, {i, j} \cap tick[w].moved = {}, Mine(w)[i].pair # None, Mine(w)[j].pair # None,
                      Mine(w)[i].mask \in DOMAIN tick[w].evs
               PROVE  Mine(w)[i].mask # Mine(w)[j].mask
    BY DEF MaskExclusive
  <2>1. tick[w].cur \in -1..MaxSlots /\ MaxSlots \in Nat
    BY TickFields, SlotsAssumption DEF Safe, Types
  <2>2. i \in SlotIds \ tick[w].moved /\ j \in SlotIds \ tick[w].moved
    BY <2>1 DEF SlotIds
  <2>3. MaskKnown(w) /\ 0 \notin DOMAIN tick[w].evs
    BY DEF SlotInv, Knows, TickKnows, MaskInv
  <2> QED BY <2>2, <2>3 DEF MaskKnown, Mine
<1> QED BY <1>1, <1>2, <1>3, AlwaysSlotInv, PTL DEF Spec
===============================================================================
