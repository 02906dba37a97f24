------------------------------- MODULE Channel -------------------------------
(***************************************************************************)
(* What a chain of pipes promises: byte streams, each in order, without    *)
(* loss or duplication as long as the chain is open.  When it breaks, what *)
(* is under way may be cut off at any place, but what still arrives is the *)
(* beginning of it.                                                        *)
(***************************************************************************)
EXTENDS Naturals, Sequences

CONSTANT Sides      \* the ends that write; a stream is named for the end it starts from

VARIABLES
  open,      \* the chain is whole
  sent,      \* per stream: bytes written so far; the n-th byte is named n
  received,  \* per stream: bytes read so far at the other end
  queue      \* per stream: bytes written and not yet read

vars == <<open, sent, received, queue>>

Init ==
  /\ open = TRUE
  /\ sent \in [Sides -> Nat]
  /\ received = [s \in Sides |-> 0]
  /\ queue = [s \in Sides |-> [i \in 1..sent[s] |-> i]]

\* Any number of bytes at once, as send and recv do.
More(count, s) ==
  /\ count' \in [Sides -> Nat] /\ count'[s] > count[s]
  /\ \A t \in Sides \ {s} : count'[t] = count[t]

Write(s) ==
  /\ open /\ More(sent, s)
  /\ queue' = [queue EXCEPT ![s] = @ \o [i \in 1..sent'[s] - sent[s] |-> sent[s] + i]]
  /\ UNCHANGED <<open, received>>

Read(s) ==
  /\ More(received, s)
  /\ queue[s][1] = received[s] + 1
  /\ queue' = [queue EXCEPT ![s] = SubSeq(@, received'[s] - received[s] + 1, Len(@))]
  /\ received'[s] - received[s] <= Len(queue[s])
  /\ UNCHANGED <<open, sent>>

\* A writer that has not heard of the break: its bytes are lost.
WriteLost(s) ==
  /\ ~open /\ More(sent, s)
  /\ UNCHANGED <<open, received, queue>>

Break ==
  /\ open /\ open' = FALSE
  /\ \E cut \in [Sides -> UNION {0..Len(queue[s]) : s \in Sides}] :
       /\ \A s \in Sides : cut[s] <= Len(queue[s])
       /\ queue' = [s \in Sides |-> SubSeq(queue[s], 1, cut[s])]
  /\ UNCHANGED <<sent, received>>

Next == Break \/ \E s \in Sides : Write(s) \/ WriteLost(s) \/ Read(s)

Spec == Init /\ [][Next]_vars
=============================================================================
