------------------------------ MODULE ShmQueue ------------------------------
(***************************************************************************)
(* The queues of shared memory structures of storage/ipc/shmqueue.c.  A    *)
(* queue is a ring through its header; an element is outside when both its *)
(* links are INVALID_OFFSET.  The header is an element as any other to     *)
(* insert_before.  Callers insert elements that are outside and delete     *)
(* ones that are in a queue.                                               *)
(***************************************************************************)
EXTENDS Ring, SequencesExt

CONSTANTS Heads, QElems, INVALID_OFFSET

ASSUME QueueAssumption ==
  Heads \cap QElems = {} /\ INVALID_OFFSET \notin Heads \cup QElems /\ IsFiniteSet(QElems)

VARIABLES qnext, qprev

queueVars == <<qnext, qprev>>

Outside(e) == qnext[e] = INVALID_OFFSET

\* shm_queue_init for the headers, shm_queue_elem_init for the elements.
QueueInit ==
  /\ qnext = [x \in Heads \cup QElems |-> IF x \in Heads THEN x ELSE INVALID_OFFSET]
  /\ qprev = qnext

\* shm_queue_init on a header whose elements have all been deleted.
shm_queue_init(h) ==
  /\ qprev[h] = h
  /\ qnext' = [qnext EXCEPT ![h] = h] /\ qprev' = [qprev EXCEPT ![h] = h]

\* Mutant: the element keeps its links.
shm_queue_delete_keep(e) ==
  /\ ~Outside(e)
  /\ qnext' = [qnext EXCEPT ![qprev[e]] = qnext[e]]
  /\ qprev' = [qprev EXCEPT ![qnext[e]] = qprev[e]]

shm_queue_delete(e) ==
  /\ ~Outside(e)
  /\ qnext' = [qnext EXCEPT ![qprev[e]] = qnext[e], ![e] = INVALID_OFFSET]
  /\ qprev' = [qprev EXCEPT ![qnext[e]] = qprev[e], ![e] = INVALID_OFFSET]

\* e goes in front of x, an element or a header.  Mutant: it is linked to
\* the element that follows the header.
shm_queue_insert_before_next(x, e) ==
  /\ Outside(e) /\ (x \in Heads \/ ~Outside(x))
  /\ qnext' = [qnext EXCEPT ![e] = qnext[x], ![qprev[x]] = e]
  /\ qprev' = [qprev EXCEPT ![e] = qprev[x], ![x] = e]

shm_queue_insert_before(x, e) ==
  /\ Outside(e) /\ (x \in Heads \/ ~Outside(x))
  /\ qnext' = [qnext EXCEPT ![e] = qnext[qprev[x]], ![qprev[x]] = e]
  /\ qprev' = [qprev EXCEPT ![e] = qprev[x], ![x] = e]

QueueNext ==
  \/ \E h \in Heads : shm_queue_init(h)
  \/ \E e \in QElems : \/ shm_queue_delete(e)
                       \/ \E x \in Heads \cup QElems : shm_queue_insert_before(x, e)

\* What a loop with shm_queue_next gives, from the header until it returns
\* NULL, and the backward walk of dumpq.
shm_queue_next(h) == Follow(qnext[h], qnext, h, Cardinality(QElems))
dumpq(h) == Follow(qprev[h], qprev, h, Cardinality(QElems))

\* The header is its own predecessor.
shm_queue_empty(h) == qprev[h] = h

-----------------------------------------------------------------------------
(* Properties.                                                             *)

\* Iterating from a header ends and meets every element that is in a queue in
\* exactly one queue, in the opposite order of the backward walk; the
\* emptiness test, which looks at one link, agrees with the iteration, and so
\* does the assertion in it.
QueueWellLinked ==
  /\ \A h \in Heads :
       /\ dumpq(h) = Reverse(shm_queue_next(h))
       /\ shm_queue_empty(h) <=> shm_queue_next(h) = <<>>
       /\ shm_queue_empty(h) => qnext[h] = h
  /\ \A e \in QElems : Outside(e) <=> \A h \in Heads : e \notin Range(shm_queue_next(h))
  /\ \A g, h \in Heads : g # h => Range(shm_queue_next(g)) \cap Range(shm_queue_next(h)) = {}

QueueSeqs == INSTANCE SeqLists WITH Lists <- Heads, Elems <- QElems,
                                    q <- [h \in Heads |-> shm_queue_next(h)]

\* Every routine of shmqueue.c puts one element in or takes one out of one
\* queue and leaves the order of all the others.
QueueImplements ==
  QueueSeqs!Init /\ [][UNCHANGED [h \in Heads |-> shm_queue_next(h)] \/ QueueSeqs!Next]_queueVars
=============================================================================
