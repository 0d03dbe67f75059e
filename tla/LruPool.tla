------------------------------- MODULE LruPool ------------------------------
(***************************************************************************)
(* What the pins and the replacement queue of the buffer pool promise,     *)
(* without links, flags, shared counts or a lock: unpinned buffers wait in *)
(* the order in which their last pin was given up, and a buffer is         *)
(* replaced only when it is the oldest of them.                            *)
(***************************************************************************)
EXTENDS Naturals, SequencesExt

CONSTANTS Buffers, Backends, NoBuffer

VARIABLES
  queue,    \* the unpinned buffers, oldest first
  pins,     \* how many pins each backend has on each buffer
  hand      \* a buffer taken for replacement, until it is pinned

vars == <<queue, pins, hand>>

Init ==
  /\ queue \in SetToSeqs(Buffers)
  /\ pins = [p \in Backends |-> [b \in Buffers |-> 0]]
  /\ hand = NoBuffer

\* Nobody has b pinned.
Unpinned(count, b) == \A p \in Backends : count[p][b] = 0

\* p pins b, which leaves the queue if it was in it.
Pin(p, b) ==
  /\ hand # b
  /\ pins' = [pins EXCEPT ![p][b] = @ + 1]
  /\ \/ b \notin Range(queue) /\ UNCHANGED queue
     \/ \E i \in DOMAIN queue : queue[i] = b /\ queue' = RemoveAt(queue, i)
  /\ UNCHANGED hand

\* p gives up a pin on b; after the last one b is the newest of the queue.
Unpin(p, b) ==
  /\ pins[p][b] > 0
  /\ pins' = [pins EXCEPT ![p][b] = @ - 1]
  /\ queue' = IF Unpinned(pins', b) THEN Append(queue, b) ELSE queue
  /\ UNCHANGED hand

\* The oldest unpinned buffer is taken.
Take ==
  /\ hand = NoBuffer
  /\ queue # <<>>
  /\ hand' = Head(queue)
  /\ queue' = Tail(queue)
  /\ UNCHANGED pins

\* p pins the buffer that was taken.
Adopt(p) ==
  /\ hand # NoBuffer
  /\ pins' = [pins EXCEPT ![p][hand] = 1]
  /\ hand' = NoBuffer
  /\ UNCHANGED queue

Next ==
  \/ Take
  \/ \E p \in Backends : \/ Adopt(p)
                         \/ \E b \in Buffers : Pin(p, b) \/ Unpin(p, b)

Spec == Init /\ [][Next]_vars
=============================================================================
