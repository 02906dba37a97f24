------------------------------- MODULE Bridge -------------------------------
(***************************************************************************)
(* The bridge pool of a handler (handlers.h, handlers.cpp).  Every client  *)
(* connection has a worker thread; once its outgoing pipe is connected the *)
(* worker calls bridge(): it puts its pair of pipes into a free slot of    *)
(* some processing_thread of the handler's list, or appends a              *)
(* processing_thread of its own and relays data for every pair that is put *)
(* there, until no slot is left.  An idle pair is handed on to the next    *)
(* processing_thread of the list.  stop() closes everything.               *)
(*                                                                         *)
(* The list is guarded by the handler's state lock, the slots and their    *)
(* number by each processing_thread's numslots lock, but the middle part   *)
(* of tick(), wait and process, runs outside both.  Each locked section is *)
(* one step; the walk of bridge() and close() take one lock per node and   *)
(* so one step per node.  A pair is named by the worker that made it, a    *)
(* processing_thread by its address, which the allocator may use again.    *)
(***************************************************************************)
EXTENDS Integers, FiniteSets, SequencesExt

CONSTANTS
  Workers,      \* the connections, each with its worker thread and its pair of pipes
  Addrs,        \* addresses the allocator hands out for processing_thread objects
  None,         \* no worker, no address, no pair (nullptr)
  Stopper,      \* the thread that runs handler::stop
  MaxSlots,     \* MAXIMUM_SLOTS (30)
  MaxEvents,    \* bound: pairs one wait reports events for
  EventKinds,   \* what a wait may find on a pair, see Kinds
  Asserts,      \* the debug build, where an ASSERT that fails ends the process
  MayBreak,     \* may a pair arrive with a pipe that has no waitable any more?
  WithStop      \* may the program be told to exit?

ASSUME SlotsAssumption == MaxSlots \in Nat \ {0} /\ MaxEvents \in Nat
ASSUME NamesAssumption == /\ None \notin Workers \cup Addrs
                          /\ Stopper \notin Workers \cup {None}

\* What process() makes of a pair's events: "data" is relayed; "hup" is a closed bit and
\* nothing else; "eof" a readable pipe whose recv or send fails; the forms with "more"
\* leave another bit of the dead pair in the mask.
Kinds == {"data", "hup", "hupmore", "eof", "eofmore"}
ASSUME KindsAssumption == EventKinds \subseteq Kinds

VARIABLES
  stLock,    \* holder of the handler's state lock in write mode
  list,      \* the processing_thread list from state.pth, as addresses
  needStop,  \* state.need_stop
  exit,      \* engine::exit
  numslots,  \* per address: numslots, -1 once the thread has given up
  slots,     \* per address: the slot array, [pair, mask]
  creator,   \* per address: the worker that allocated it last
  pc,        \* per worker: its place in bridge() and tick()
  walk,      \* per worker: position and check_only of the walk in bridge()
  node,      \* per worker: npt
  tick,      \* per worker: the locals of tick()
  hold,      \* workers whose own references to their pipes are not yet dropped
  ended,     \* pairs that failed: closed, broken or refused by their peer
  broken,    \* pairs with a pipe that has no waitable
  faults,    \* history: what has gone wrong in the list or the slots, see Faults
  stopPc,    \* where stop() is, and the next node for close()
  crashed    \* a null pipe or freed memory was used, an ASSERT failed

vars == <<stLock, list, needStop, exit, numslots, slots, creator, pc, walk, node, tick,
          hold, ended, broken, faults, stopPc, crashed>>

stopVars == <<needStop, exit, stopPc>>
nodeVars == <<numslots, slots>>
pairVars == <<hold, ended, broken>>
listVars == <<stLock, list, creator>>
bridgeVars == <<walk, node>>
fate == <<faults, crashed>>

SlotIds == 0..MaxSlots - 1
Pairs == Workers \cup {None}
Masks == 0..MaxSlots               \* position in the waiter, 0 before registration
EmptySlot == [pair |-> None, mask |-> 0]
NoRv == MaxSlots + 1               \* "do nothing": no idle slot found
NoTick == [reg |-> 0, moved |-> {}, evs |-> [m \in {} |-> "data"], more |-> FALSE, cur |-> 0,
           i |-> 0, rv |-> NoRv, wasDel |-> -1]

\* "unlinked": a worker has unlinked and deleted a node that another one runs.
\* "forwarded": forward() has been given the index of a slot that is not in use.
Faults == {"unlinked", "forwarded"}

Live(a) == a \in ToSet(list)
IndexIn(a) == CHOOSE p \in DOMAIN list : list[p] = a
Mine(w) == slots[node[w]]

\* A dead process takes no step.
At(w, p) == ~crashed /\ pc[w] = p
StopAt(p) == ~crashed /\ stopPc.at = p

Goto(w, p) == pc' = [pc EXCEPT ![w] = p]

\* The worker is between allocating its node and unlinking it.
InTick == {"wait", "count", "process", "ret", "forward"}
Running == {"add", "loop", "prepare"} \cup InTick

-----------------------------------------------------------------------------
Init ==
  /\ stLock = None /\ list = <<>> /\ needStop = FALSE /\ exit = FALSE
  /\ numslots = [a \in Addrs |-> -1]
  /\ slots = [a \in Addrs |-> [i \in SlotIds |-> EmptySlot]]
  /\ creator = [a \in Addrs |-> None]
  /\ pc = [w \in Workers |-> "start"]
  /\ walk = [w \in Workers |-> [pos |-> 0, checkOnly |-> FALSE]]
  /\ node = [w \in Workers |-> None]
  /\ tick = [w \in Workers |-> NoTick]
  /\ hold = Workers /\ ended = {}
  /\ broken \in IF MayBreak THEN SUBSET Workers ELSE {{}}
  /\ stopPc = [at |-> "idle", pos |-> 0]
  /\ faults = {} /\ crashed = FALSE

\* Mutant of CanAdd: the number of slots is not compared with MAXIMUM_SLOTS.
CanAddFull(a) == numslots[a] >= 0

\* try_add_bridge on node a: refused by a thread that has given up or is full.
CanAdd(a) == numslots[a] \in SlotIds

AddTo(sl, a, p) == [sl EXCEPT ![a][numslots[a]] = [pair |-> p, mask |-> 0]]

\* Mutant of MoveSlot: the last slot is emptied without being moved.
MoveSlotNot(s, to, from) == [s EXCEPT ![to].pair = None, ![from].pair = None]

\* moveslot: the last slot takes the place of slot "to", its own pipes become null.
MoveSlot(s, to, from) ==
  LET moved == IF to < from THEN [s EXCEPT ![to] = s[from]] ELSE s
  IN  [moved EXCEPT ![from].pair = None]

-----------------------------------------------------------------------------
(* bridge(): the walk along the list under the state lock.                  *)

BridgeLock(w) ==
  /\ At(w, "start") /\ stLock = None
  /\ stLock' = w
  /\ walk' = [walk EXCEPT ![w] = [pos |-> 1, checkOnly |-> FALSE]]
  /\ Goto(w, "walk")
  /\ UNCHANGED <<stopVars, nodeVars, pairVars, list, creator, node, tick, fate>>

\* A node that has given up is deleted, and the walk goes on BEHIND its successor.
WalkDelete(w) ==
  /\ At(w, "walk") /\ walk[w].pos <= Len(list)
  /\ numslots[list[walk[w].pos]] < 0
  /\ list' = RemoveAt(list, walk[w].pos)
  /\ walk' = [walk EXCEPT ![w].pos = @ + 1]
  /\ UNCHANGED <<stopVars, nodeVars, pairVars, stLock, creator, pc, node, tick, fate>>

\* Mutant of WalkTry: check_only is never set.
WalkTryAgain(w) ==
  /\ At(w, "walk") /\ walk[w].pos <= Len(list)
  /\ LET a == list[walk[w].pos]
     IN  /\ numslots[a] >= 0
         /\ slots' = IF CanAdd(a) THEN AddTo(slots, a, w) ELSE slots
         /\ numslots' = IF CanAdd(a) THEN [numslots EXCEPT ![a] = @ + 1] ELSE numslots
         /\ walk' = [walk EXCEPT ![w].pos = @ + 1]
  /\ UNCHANGED <<stopVars, pairVars, listVars, pc, node, tick, fate>>

\* try_add_bridge while the pair has no place, check() once it has.
WalkTry(w) ==
  /\ At(w, "walk") /\ walk[w].pos <= Len(list)
  /\ LET a == list[walk[w].pos]
         add == ~walk[w].checkOnly /\ CanAdd(a)
     IN  /\ numslots[a] >= 0
         /\ slots' = IF add THEN AddTo(slots, a, w) ELSE slots
         /\ numslots' = IF add THEN [numslots EXCEPT ![a] = @ + 1] ELSE numslots
         /\ walk' = [walk EXCEPT ![w] = [pos |-> @.pos + 1, checkOnly |-> @.checkOnly \/ add]]
  /\ UNCHANGED <<stopVars, pairVars, listVars, pc, node, tick, fate>>

WalkOver(w) == At(w, "walk") /\ walk[w].pos > Len(list)

\* Another thread serves the pair: the worker returns and drops its references.
BridgeTaken(w) ==
  /\ WalkOver(w) /\ walk[w].checkOnly
  /\ stLock' = None
  /\ hold' = hold \ {w}
  /\ walk' = [walk EXCEPT ![w] = [pos |-> 0, checkOnly |-> FALSE]]
  /\ Goto(w, "done")
  /\ UNCHANGED <<stopVars, nodeVars, list, creator, node, tick, ended, broken, fate>>

\* Nobody has taken it: a new processing_thread, visible to the others at once.  Its address may
\* be that of a node deleted before, which the worker that made that node still knows.
BridgeNew(w) ==
  /\ WalkOver(w) /\ ~walk[w].checkOnly
  /\ \E a \in Addrs :
       /\ ~Live(a)
       /\ list' = Append(list, a)
       /\ numslots' = [numslots EXCEPT ![a] = 0]
       /\ slots' = [slots EXCEPT ![a] = [i \in SlotIds |-> EmptySlot]]
       /\ creator' = [creator EXCEPT ![a] = w]
       /\ node' = [node EXCEPT ![w] = a]
  /\ stLock' = None
  /\ walk' = [walk EXCEPT ![w] = [pos |-> 0, checkOnly |-> FALSE]]
  /\ Goto(w, "add")
  /\ UNCHANGED <<stopVars, pairVars, tick, fate>>

\* The result of adding its own pair is not looked at: others may have been faster.
BridgeAddOwn(w) ==
  /\ At(w, "add")
  /\ LET a == node[w]
     IN  /\ slots' = IF CanAdd(a) THEN AddTo(slots, a, w) ELSE slots
         /\ numslots' = IF CanAdd(a) THEN [numslots EXCEPT ![a] = @ + 1] ELSE numslots
  /\ Goto(w, "loop")
  /\ UNCHANGED <<stopVars, pairVars, listVars, bridgeVars, tick, fate>>

-----------------------------------------------------------------------------
(* bridge(npt) and tick().                                                  *)

\* Mutant of LoopCheck: need_stop is not looked at.
LoopForever(w) ==
  /\ At(w, "loop") /\ stLock = None
  /\ Goto(w, "prepare")
  /\ UNCHANGED <<stopVars, nodeVars, pairVars, listVars, bridgeVars, tick, fate>>

LoopCheck(w) ==
  /\ At(w, "loop") /\ stLock = None
  /\ Goto(w, IF needStop THEN "unlink" ELSE "prepare")
  /\ UNCHANGED <<stopVars, nodeVars, pairVars, listVars, bridgeVars, tick, fate>>

\* Mutant of Register: a slot that was registered before keeps its place in the mask.
RegisterOnce(s, n) ==
  [slots |-> [i \in SlotIds |-> IF i < n /\ s[i].mask = 0 THEN [s[i] EXCEPT !.mask = i + 1] ELSE s[i]],
   n |-> n, reg |-> n, moved |-> {}]

\* The registration loop of tick(): a slot that cannot be registered is replaced by the
\* last one, which this loop then does not look at.  The pair moved there keeps the mask of
\* an earlier registration, 0 for a new one.  Of [X1, X2, A, C, X3] with broken Xs two
\* registrations leave A and C with the same mask.
Register(s, n) ==
  LET bad(k) == {i \in 0..n - 1 : i < k /\ s[i].pair \in broken}
      last(k) == n - 1 - Cardinality(bad(k))             \* the last slot when the loop comes to k
      seen == {k \in 0..n - 1 : k <= last(k)}
      gone == bad(n) \cap seen
      kept == seen \ gone
      left == n - Cardinality(gone)
  IN  [n |-> left, reg |-> Cardinality(kept), moved |-> gone \cap 0..left - 1,
       slots |-> [i \in SlotIds |->
         IF left <= i /\ i < n THEN [s[i] EXCEPT !.pair = None]
         ELSE IF i \in gone THEN s[last(i)]
         ELSE IF i \in kept THEN [s[i] EXCEPT !.mask = Cardinality({k \in kept : k <= i})]
         ELSE s[i]]]

\* A null pair is among the slots in use.
HasNull(w) == \E i \in 0..numslots[node[w]] - 1 : Mine(w)[i].pair = None

\* The registration would dereference it.
PrepareNull(w) ==
  /\ At(w, "prepare") /\ HasNull(w)
  /\ crashed' = TRUE
  /\ UNCHANGED <<stopVars, nodeVars, pairVars, listVars, bridgeVars, pc, tick, faults>>

\* tick(), first locked section.
Prepare(w) ==
  /\ At(w, "prepare") /\ ~HasNull(w)
  /\ LET r == Register(Mine(w), numslots[node[w]])
         lost == {Mine(w)[i].pair : i \in 0..numslots[node[w]] - 1}
                   \ {r.slots[i].pair : i \in 0..r.n - 1}
     IN  /\ slots' = [slots EXCEPT ![node[w]] = r.slots]
         /\ numslots' = [numslots EXCEPT ![node[w]] = IF r.n <= 0 THEN -1 ELSE r.n]
         /\ tick' = [tick EXCEPT ![w].reg = r.reg, ![w].moved = r.moved]
         /\ ended' = ended \cup lost
         /\ Goto(w, IF r.n <= 0 THEN "unlink" ELSE "wait")
  /\ UNCHANGED <<stopVars, listVars, bridgeVars, hold, broken, fate>>

\* The locals of tick() behind its wait; an empty mask makes it return 0.
Woken(w, kind) == IF DOMAIN kind = {} THEN [NoTick EXCEPT !.rv = 0]
                  ELSE [NoTick EXCEPT !.evs = kind, !.moved = tick[w].moved]

\* waiter.wait: events of some registered pairs, or none (timeout, signal, nothing registered).
Wait(w) ==
  /\ At(w, "wait")
  /\ \E hit \in SUBSET (1..tick[w].reg) :
       /\ Cardinality(hit) <= MaxEvents
       /\ \E kind \in [hit -> EventKinds] : tick' = [tick EXCEPT ![w] = Woken(w, kind)]
       /\ Goto(w, IF hit = {} THEN "ret" ELSE "count")
  /\ UNCHANGED <<stopVars, nodeVars, pairVars, listVars, bridgeVars, fate>>

\* tick() reads cur_numslots under the read lock, after the wait.
Count(w) ==
  /\ At(w, "count")
  /\ tick' = [tick EXCEPT ![w].cur = numslots[node[w]]]
  /\ Goto(w, "process")
  /\ UNCHANGED <<stopVars, nodeVars, pairVars, listVars, bridgeVars, fate>>

MaskEmpty(w) == DOMAIN tick[w].evs = {} /\ ~tick[w].more

More(w) == At(w, "process") /\ tick[w].i < tick[w].cur /\ ~MaskEmpty(w)

Slot(w) == Mine(w)[tick[w].i]

Event(w) == IF Slot(w).mask \in DOMAIN tick[w].evs THEN tick[w].evs[Slot(w).mask] ELSE "none"

Consumed(w) == [m \in DOMAIN tick[w].evs \ {Slot(w).mask} |-> tick[w].evs[m]]

\* SLOT_SKIPPED: nothing happened on this slot; the first such slot is the idle one.
ProcessSkip(w) ==
  /\ More(w) /\ Event(w) = "none"
  /\ tick' = [tick EXCEPT ![w].i = @ + 1,
                          ![w].rv = IF @ > MaxSlots THEN tick[w].i ELSE @]
  /\ UNCHANGED <<stopVars, nodeVars, pairVars, listVars, bridgeVars, pc, fate>>

\* SLOT_PROCESSES: the data is relayed.
ProcessData(w) ==
  /\ More(w) /\ Event(w) = "data" /\ Slot(w).pair # None
  /\ tick' = [tick EXCEPT ![w].i = @ + 1, ![w].evs = Consumed(w)]
  /\ UNCHANGED <<stopVars, nodeVars, pairVars, listVars, bridgeVars, pc, fate>>

\* Mutant of ProcessDead: the last cleared slot is remembered and not the first.
ProcessDeadLast(w) ==
  /\ More(w) /\ Event(w) \in {"hup", "hupmore", "eof", "eofmore"}
  /\ Slot(w).pair # None \/ Event(w) \in {"hup", "hupmore"}
  /\ slots' = [slots EXCEPT ![node[w]][tick[w].i] = EmptySlot]
  /\ ended' = ended \cup ({Slot(w).pair} \ {None})
  /\ tick' = [tick EXCEPT ![w].evs = Consumed(w),
                          ![w].more = @ \/ Event(w) \in {"hupmore", "eofmore"},
                          ![w].wasDel = tick[w].i]
  /\ UNCHANGED <<stopVars, listVars, bridgeVars, numslots, pc, hold, broken, fate>>

\* SLOT_DEAD: the slot is cleared and the loop comes back to it.
ProcessDead(w) ==
  /\ More(w) /\ Event(w) \in {"hup", "hupmore", "eof", "eofmore"}
  /\ Slot(w).pair # None \/ Event(w) \in {"hup", "hupmore"}
  /\ slots' = [slots EXCEPT ![node[w]][tick[w].i] = EmptySlot]
  /\ ended' = ended \cup ({Slot(w).pair} \ {None})
  /\ tick' = [tick EXCEPT ![w].evs = Consumed(w),
                          ![w].more = @ \/ Event(w) \in {"hupmore", "eofmore"},
                          ![w].wasDel = IF @ < 0 THEN tick[w].i ELSE @]
  /\ UNCHANGED <<stopVars, listVars, bridgeVars, numslots, pc, hold, broken, fate>>

\* close() has taken the pipes of the slot that is being processed.
ProcessNull(w) ==
  /\ More(w) /\ Slot(w).pair = None /\ Event(w) \in {"data", "eof", "eofmore"}
  /\ crashed' = TRUE
  /\ UNCHANGED <<stopVars, nodeVars, pairVars, listVars, bridgeVars, pc, tick, faults>>

\* Mutant of Closed: the pairs are copied and not moved.
ClosedCopies(s, n, d) ==
  LET kept == {i \in d + 1..n - 1 : s[i].pair # None}
      newIndex(i) == d + Cardinality({k \in kept : k < i})
      from == [j \in {newIndex(i) : i \in kept} |-> CHOOSE i \in kept : newIndex(i) = j]
  IN  [n |-> d + Cardinality(kept),
       slots |-> [j \in SlotIds |-> IF j \in DOMAIN from THEN s[from[j]] ELSE s[j]],
       index |-> [i \in 0..NoRv |-> IF i \in kept THEN newIndex(i) ELSE i]]

\* The pairs behind the first cleared slot close ranks; the idle index follows its slot.
Closed(s, n, d) ==
  LET kept == {i \in d + 1..n - 1 : s[i].pair # None}
      newIndex(i) == d + Cardinality({k \in kept : k < i})
      from == [j \in {newIndex(i) : i \in kept} |-> CHOOSE i \in kept : newIndex(i) = j]
  IN  [n |-> d + Cardinality(kept),
       slots |-> [j \in SlotIds |-> IF j \in DOMAIN from THEN s[from[j]]
                                    ELSE IF j >= d THEN [s[j] EXCEPT !.pair = None]
                                    ELSE s[j]],
       index |-> [i \in 0..NoRv |-> IF i \in kept THEN newIndex(i) ELSE i]]

\* The last locked section asserts that nobody has taken slots away since they were counted.
Counted(w) == Asserts => tick[w].cur <= numslots[node[w]]

\* close() has: the debug build ends here.
ProcessAsserted(w) ==
  /\ At(w, "process") /\ ~More(w) /\ ~Counted(w)
  /\ crashed' = TRUE
  /\ UNCHANGED <<stopVars, nodeVars, pairVars, listVars, bridgeVars, pc, tick, faults>>

\* Mutant of Compact: numslots stays 0 when the last pair is gone.
CompactOpen(w) ==
  /\ At(w, "process") /\ ~More(w) /\ Counted(w)
  /\ LET a == node[w]
         d == tick[w].wasDel
         c == IF d < 0
              THEN [n |-> numslots[a], slots |-> slots[a], index |-> [i \in 0..NoRv |-> i]]
              ELSE Closed(slots[a], numslots[a], d)
     IN  /\ slots' = [slots EXCEPT ![a] = c.slots]
         /\ numslots' = [numslots EXCEPT ![a] = c.n]
         /\ tick' = [tick EXCEPT ![w] =
                       IF c.n > 0 THEN [NoTick EXCEPT !.rv = c.index[tick[w].rv]] ELSE NoTick]
         /\ Goto(w, IF c.n > 0 THEN "ret" ELSE "unlink")
  /\ UNCHANGED <<stopVars, pairVars, listVars, bridgeVars, fate>>

\* tick(), last locked section, and its result.
Compact(w) ==
  /\ At(w, "process") /\ ~More(w) /\ Counted(w)
  /\ LET a == node[w]
         d == tick[w].wasDel
         c == IF d < 0
              THEN [n |-> numslots[a], slots |-> slots[a], index |-> [i \in 0..NoRv |-> i]]
              ELSE Closed(slots[a], numslots[a], d)
     IN  /\ slots' = [slots EXCEPT ![a] = c.slots]
         /\ numslots' = [numslots EXCEPT ![a] = IF c.n > 0 THEN c.n ELSE -1]
         /\ tick' = [tick EXCEPT ![w] =
                       IF c.n > 0 THEN [NoTick EXCEPT !.rv = c.index[tick[w].rv]] ELSE NoTick]
         /\ Goto(w, IF c.n > 0 THEN "ret" ELSE "unlink")
  /\ UNCHANGED <<stopVars, pairVars, listVars, bridgeVars, fate>>

\* bridge(npt) after a tick that found slots to serve.
Return(w) ==
  /\ At(w, "ret")
  /\ Goto(w, IF exit THEN "unlink" ELSE IF tick[w].rv < MaxSlots THEN "forward" ELSE "loop")
  /\ tick' = IF ~exit /\ tick[w].rv < MaxSlots THEN tick ELSE [tick EXCEPT ![w] = NoTick]
  /\ UNCHANGED <<stopVars, nodeVars, pairVars, listVars, bridgeVars, fate>>

\* next of a node that has been deleted is null: it was released before.
NextNode(w) == IF Live(node[w]) /\ IndexIn(node[w]) < Len(list)
               THEN list[IndexIn(node[w]) + 1] ELSE None

CanForward(w) == LET n == NextNode(w) IN n # None /\ CanAdd(n)

\* forward() under the state lock: the pair at the idle index goes to the next node.  With asserts
\* the index must be below numslots; without, one that is not sends a null pair and takes the last
\* live one away.
Forward(w) ==
  /\ At(w, "forward") /\ stLock = None
  /\ LET a == node[w]
         k == tick[w].rv
         left == numslots[a] - 1
         inUse == k < numslots[a]
         asserted == Asserts => inUse
     IN  /\ \/ /\ ~CanForward(w) /\ (NextNode(w) # None => asserted)
               /\ Goto(w, "loop")
               /\ UNCHANGED <<nodeVars, crashed>>
            \/ /\ CanForward(w) /\ asserted /\ left >= 0
               /\ slots' = [AddTo(slots, NextNode(w), slots[a][k].pair)
                              EXCEPT ![a] = MoveSlot(@, k, left)]
               /\ numslots' = [numslots EXCEPT ![NextNode(w)] = @ + 1,
                                               ![a] = IF left = 0 THEN -1 ELSE left]
               /\ Goto(w, IF left = 0 THEN "unlink" ELSE "loop")
               /\ UNCHANGED crashed
            \/ /\ NextNode(w) # None
               /\ ~asserted \/ (CanForward(w) /\ left < 0)
               /\ crashed' = TRUE
               /\ UNCHANGED <<nodeVars, pc>>
         /\ faults' = IF NextNode(w) # None /\ ~inUse THEN faults \cup {"forwarded"} ELSE faults
  /\ tick' = [tick EXCEPT ![w] = NoTick]
  /\ UNCHANGED <<stopVars, pairVars, listVars, bridgeVars>>

\* A worker whose node was deleted under it goes on in freed memory: it finds there what was left,
\* or what the next node at this address has made of it, or the process dies.
UseFreed(w) ==
  /\ ~crashed /\ pc[w] \in Running \ {"loop", "ret"} /\ ~Live(node[w])
  /\ crashed' = TRUE
  /\ UNCHANGED <<stopVars, nodeVars, pairVars, listVars, bridgeVars, pc, tick, faults>>

\* Mutant of Unlink: only the head of the list is looked at.
UnlinkHead(w) ==
  /\ At(w, "unlink") /\ stLock = None
  /\ hold' = hold \ {w}
  /\ list' = IF list # <<>> /\ Head(list) = node[w] THEN Tail(list) ELSE list
  /\ tick' = [tick EXCEPT ![w] = NoTick]
  /\ Goto(w, "done")
  /\ UNCHANGED <<stopVars, nodeVars, bridgeVars, stLock, creator, ended, broken, fate>>

\* Mutant of Unlink: only a node that has given up is unlinked.
UnlinkGivenUp(w) ==
  /\ At(w, "unlink") /\ stLock = None
  /\ hold' = hold \ {w}
  /\ list' = IF Live(node[w]) /\ numslots[node[w]] < 0 THEN RemoveAt(list, IndexIn(node[w])) ELSE list
  /\ tick' = [tick EXCEPT ![w] = NoTick]
  /\ Goto(w, "done")
  /\ UNCHANGED <<stopVars, nodeVars, bridgeVars, stLock, creator, ended, broken, fate>>

\* Another worker runs the node at the address that w knows.
RunByOther(w) == \E v \in Workers \ {w} : node[v] = node[w] /\ pc[v] \in Running

\* bridge() after the loop: references dropped, then the node with this ADDRESS is unlinked and
\* deleted, which need not be the node that the worker made.
Unlink(w) ==
  /\ At(w, "unlink") /\ stLock = None
  /\ hold' = hold \ {w}
  /\ list' = IF Live(node[w]) THEN RemoveAt(list, IndexIn(node[w])) ELSE list
  /\ faults' = IF Live(node[w]) /\ RunByOther(w) THEN faults \cup {"unlinked"} ELSE faults
  /\ tick' = [tick EXCEPT ![w] = NoTick]
  /\ Goto(w, "done")
  /\ UNCHANGED <<stopVars, nodeVars, bridgeVars, stLock, creator, ended, broken, crashed>>

-----------------------------------------------------------------------------
(* The engine's exit flag and handler::stop.                                *)

EngineExit ==
  /\ WithStop /\ ~exit /\ ~crashed
  /\ exit' = TRUE
  /\ UNCHANGED <<nodeVars, pairVars, listVars, bridgeVars, needStop, pc, tick, stopPc, fate>>

\* The listener calls stop() once the exit flag is up.
StopBegin ==
  /\ exit /\ StopAt("idle") /\ stLock = None
  /\ stLock' = Stopper /\ needStop' = TRUE
  /\ stopPc' = [at |-> "closing", pos |-> 1]
  /\ UNCHANGED <<nodeVars, pairVars, bridgeVars, list, exit, creator, pc, tick, fate>>

\* A wait has registered pipes of node a that nobody but its slots refers to.
Dangling(a) ==
  \E w \in Workers : node[w] = a /\ pc[w] = "wait" /\ \E i \in SlotIds :
    i < numslots[a] /\ slots[a][i].mask \in 1..tick[w].reg /\ slots[a][i].pair \notin hold \cup {None}

\* close() of one node: the pipes are moved out and their references dropped, the masks stay, and
\* numslots becomes 0 even in a node that had given up.  A wait that has registered them keeps raw
\* pointers (netkit.cpp:754), which it may come to use.
CloseNode ==
  /\ StopAt("closing") /\ stopPc.pos <= Len(list)
  /\ LET a == list[stopPc.pos]
     IN  /\ slots' = [slots EXCEPT ![a] = [i \in SlotIds |->
                        IF i < numslots[a] THEN [@[i] EXCEPT !.pair = None] ELSE @[i]]]
         /\ numslots' = [numslots EXCEPT ![a] = 0]
         /\ crashed' \in IF Dangling(a) THEN BOOLEAN ELSE {FALSE}
  /\ stopPc' = [stopPc EXCEPT !.pos = @ + 1]
  /\ UNCHANGED <<pairVars, listVars, bridgeVars, needStop, exit, pc, tick, faults>>

StopUnlock ==
  /\ StopAt("closing") /\ stopPc.pos > Len(list)
  /\ stLock' = None
  /\ stopPc' = [at |-> "waiting", pos |-> 0]
  /\ UNCHANGED <<nodeVars, pairVars, bridgeVars, list, needStop, exit, creator, pc, tick, fate>>

\* stop() polls until the list is empty.
StopReturn ==
  /\ StopAt("waiting") /\ stLock = None /\ list = <<>>
  /\ stopPc' = [at |-> "stopped", pos |-> 0]
  /\ UNCHANGED <<nodeVars, pairVars, listVars, bridgeVars, needStop, exit, pc, tick, fate>>

\* Every connection is over, and so is a stop that was asked for, or it polls; or the process is
\* dead.
Finished ==
  /\ \/ crashed
     \/ (\A w \in Workers : pc[w] = "done") /\ (WithStop => stopPc.at \in {"waiting", "stopped"})
  /\ UNCHANGED vars

WalkStep(w) == WalkDelete(w) \/ WalkTry(w) \/ BridgeTaken(w) \/ BridgeNew(w) \/ BridgeAddOwn(w)

BridgeStep(w) == BridgeLock(w) \/ WalkStep(w)

TickStep(w) ==
  \/ LoopCheck(w) \/ PrepareNull(w) \/ Prepare(w) \/ Wait(w) \/ Count(w)
  \/ ProcessSkip(w) \/ ProcessData(w) \/ ProcessDead(w) \/ ProcessNull(w)
  \/ ProcessAsserted(w) \/ Compact(w) \/ Return(w) \/ Forward(w) \/ UseFreed(w) \/ Unlink(w)

StopStep == StopBegin \/ CloseNode \/ StopUnlock \/ StopReturn

Next == \/ \E w \in Workers : BridgeStep(w) \/ TickStep(w)
        \/ EngineExit \/ StopStep
        \/ Finished

Spec == Init /\ [][Next]_vars

\* Threads are scheduled and every wait ends (tick() gives it ten seconds); nothing obliges a
\* client to arrive, so the first step of bridge() is not fair.
Fairness == /\ \A w \in Workers : WF_vars(TickStep(w) \/ WalkStep(w))
            /\ WF_vars(StopStep)

FairSpec == Spec /\ Fairness

-----------------------------------------------------------------------------
TypeOK ==
  /\ stLock \in Workers \cup {None, Stopper}
  /\ list \in Seq(Addrs)
  /\ needStop \in BOOLEAN /\ exit \in BOOLEAN /\ crashed \in BOOLEAN /\ faults \subseteq Faults
  /\ numslots \in [Addrs -> -1..MaxSlots]
  /\ slots \in [Addrs -> [SlotIds -> [pair : Pairs, mask : Masks]]]
  /\ creator \in [Addrs -> Workers \cup {None}]
  /\ pc \in [Workers -> {"start", "walk", "add", "loop", "prepare", "wait", "count",
                         "process", "ret", "forward", "unlink", "done"}]
  /\ walk \in [Workers -> [pos : Nat, checkOnly : BOOLEAN]]
  /\ node \in [Workers -> Addrs \cup {None}]
  /\ \A w \in Workers : /\ tick[w].reg \in Masks /\ tick[w].moved \subseteq SlotIds
                        /\ tick[w].cur \in -1..MaxSlots
                        /\ tick[w].i \in 0..MaxSlots /\ tick[w].rv \in 0..NoRv
                        /\ tick[w].wasDel \in -1..MaxSlots - 1
  /\ hold \subseteq Workers /\ ended \subseteq Workers /\ broken \subseteq Workers
  /\ stopPc.at \in {"idle", "closing", "waiting", "stopped"}

\* The slots of node a that are in use.
Used(a) == {i \in SlotIds : i < numslots[a]}

InSlot(p, a) == \E i \in Used(a) : slots[a][i].pair = p

Served(p) == \E a \in ToSet(list) : InSlot(p, a)

\* try_add_bridge asserts that the slot it fills is empty, and tick() that no null pair is
\* left among the slots in use: above numslots every slot is empty, and below it none is,
\* except for the ones the owner cleared and has not compacted yet.  close() in stop() takes
\* the pairs from under the threads and keeps no such order, and neither does a thread that
\* runs a deleted node or forward() with an index that is not in use.
SlotsDense ==
  ~needStop /\ faults = {} => \A a \in ToSet(list) : \A i \in SlotIds :
    /\ i >= numslots[a] => slots[a][i].pair = None
    /\ i < numslots[a] /\ slots[a][i].pair = None =>
         \E w \in Workers : node[w] = a /\ pc[w] = "process" /\ 0 <= tick[w].wasDel
                            /\ tick[w].wasDel <= i

\* A pair is served at one place only: two threads relaying the same pair would reorder it.
ServedOnce ==
  \A a, b \in ToSet(list) : \A i \in Used(a), j \in Used(b) :
    slots[a][i].pair = slots[b][j].pair /\ slots[a][i].pair # None => a = b /\ i = j

\* The processing_thread a worker runs is its own and has not been deleted: bridge() is to do
\* the job in the current thread (handlers.h:134).  It fails when a worker unlinks its node by
\* an address that the allocator has used again.
OwnNodeAlive ==
  \A w \in Workers : pc[w] \in Running => Live(node[w]) /\ creator[node[w]] = w

\* No two pairs of a node read the same bits of the wait mask, stale masks included, except for
\* a pair that was moved into the place of one that could not be registered: that one is not
\* registered itself and reads what the mask of an earlier tick says (see Register).
MaskExclusive ==
  "unlinked" \notin faults => \A w \in Workers : pc[w] = "process" =>
    \A i, j \in 0..tick[w].cur - 1 :
      i # j /\ {i, j} \cap tick[w].moved = {} /\ Mine(w)[i].pair # None /\ Mine(w)[j].pair # None
        /\ Mine(w)[i].mask \in DOMAIN tick[w].evs
      => Mine(w)[i].mask # Mine(w)[j].mask

\* A pair that is served stays served through forwarding, compaction and the deletion of
\* nodes, until it fails itself or the program is told to exit: but for the two faults, no
\* step loses a pair.
LiveBridgeKept ==
  [][\A p \in Workers : Served(p) /\ ~Served(p)' => p \in ended' \/ exit \/ faults' # {}]_vars

\* Until stop() has closed the nodes no thread meets a null pipe or freed memory, and no
\* assertion fails (handlers.cpp:233, 355): but for the two faults, what brings the process
\* down is close() under a running thread.
CrashOnlyInStop == crashed => needStop \/ faults # {}

\* A pair that was put into a slot is registered with the waiter of a thread in the end, or
\* fails: it is never left with a thread that has stopped serving, nor handed on for ever.
\* When the program is told to exit every pair is given up.
Placed(p, registered) ==
  \E a \in ToSet(list) : \E i \in Used(a) :
    slots[a][i].pair = p /\ (slots[a][i].mask # 0 <=> registered)

NewBridgePolled ==
  \A p \in Workers : Placed(p, FALSE) ~> \/ Placed(p, TRUE) \/ p \in ended
                                             \/ exit \/ crashed \/ "unlinked" \in faults

\* A node that has given up leaves the list.
GivenUpIsUnlinked ==
  \A a \in Addrs : Live(a) /\ numslots[a] < 0 ~> ~Live(a) \/ crashed

\* stop() returns: every processing_thread leaves the list (unless the process died).
StopReturns == stopPc.at = "closing" ~> stopPc.at = "stopped" \/ crashed

\* Once stop() has returned the handler is destroyed: no thread is inside tick() then, unless its
\* node was unlinked by another.  A worker that comes late makes a node of its own and leaves
\* again without relaying.
StopQuiesces ==
  stopPc.at = "stopped" /\ "unlinked" \notin faults => \A w \in Workers : pc[w] \notin InTick \cup {"prepare"}

\* handlers.cpp:355, ASSERT(slot < ns()): the idle index forward() gets is a slot in use.
ForwardIndexValid ==
  \A w \in Workers :
    pc[w] = "forward" /\ stLock = None /\ NextNode(w) # None => tick[w].rv < numslots[node[w]]

=============================================================================
