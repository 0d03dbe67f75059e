----------------------------- MODULE BufFreeList ----------------------------
(***************************************************************************)
(* Pins and the replacement queue of the shared buffer pool: freelist.c,   *)
(* the part of buf_init.c that builds the queue and the macro              *)
(* INCR_BUFFER_REF_COUNT of bufmgr.h, used by several backends.            *)
(*                                                                         *)
(* The descriptors are 0..NBuffers; the last one is Free_List_Descriptor,  *)
(* the header of the queue.  refcount is shared and counts backends, each  *)
(* backend has a PrivateRefCount of its own, and the two only agree        *)
(* because every backend changes refcount at its own first and last pin.   *)
(*                                                                         *)
(* Every routine of freelist.c runs under BufMgrLock; a backend may call   *)
(* several of them before it gives the lock back.  What a caller does with *)
(* a buffer that get_free_buffer returned is not in this code base         *)
(* (AdoptBuffer, external): pin_buffer would fail its assertion on it, so  *)
(* the caller has to count the pin itself.                                 *)
(***************************************************************************)
EXTENDS Ring

CONSTANTS
  NBuffers,     \* number of shared buffers
  Backends,     \* the processes attached to shared memory
  NoBackend,    \* the holder of a lock that is free
  MaxPins       \* bound on the pins a backend has on one buffer

ASSUME BufAssumption ==
  /\ NBuffers \in Nat \ {0}
  /\ IsFiniteSet(Backends)
  /\ NoBackend \notin Backends
  /\ MaxPins \in Nat

VARIABLES
  free_next, free_prev,
  BM_FREE,            \* the buffers whose flags have BM_FREE
  refcount,
  PrivateRefCount,    \* one array per backend
  BufMgrLock,         \* the backend that holds the spinlock
  hand                \* what get_free_buffer returned, until it is adopted

linkVars == <<free_next, free_prev>>
pinVars == <<refcount, PrivateRefCount>>
vars == <<linkVars, BM_FREE, pinVars, BufMgrLock, hand>>

Buffers == 0..(NBuffers - 1)
Free_List_Descriptor == NBuffers
Descriptors == 0..NBuffers

INVALID_DESCRIPTOR == -3

\* hand when there is nothing in it.
NoBuffer == -1

\* init_buffer_pool links the buffers into a circle, init_freelist inserts
\* the header behind buffer 0.
CircleNext == [b \in Descriptors |-> IF b = NBuffers - 1 THEN 0 ELSE b + 1]
CirclePrev == [b \in Descriptors |-> IF b = 0 THEN NBuffers - 1 ELSE b - 1]

Init ==
  /\ free_next = [CircleNext EXCEPT ![Free_List_Descriptor] = CircleNext[0],
                                    ![0] = Free_List_Descriptor]
  /\ free_prev = [CirclePrev EXCEPT ![Free_List_Descriptor] = 0,
                                    ![CircleNext[0]] = Free_List_Descriptor]
  /\ BM_FREE = Buffers
  /\ refcount = [b \in Buffers |-> 0]
  /\ PrivateRefCount = [p \in Backends |-> [b \in Buffers |-> 0]]
  /\ BufMgrLock = NoBackend
  /\ hand = NoBuffer

-----------------------------------------------------------------------------

\* Take b out of the queue and clear its links and its BM_FREE.
RemoveFromFreelist(b) ==
  /\ free_next' = [NextUnlinked(free_next, free_prev, b)
                     EXCEPT ![b] = INVALID_DESCRIPTOR]
  /\ free_prev' = [PrevUnlinked(free_next, free_prev, b)
                     EXCEPT ![b] = INVALID_DESCRIPTOR]
  /\ BM_FREE' = BM_FREE \ {b}

\* Put b at the end of the queue; the caller sets BM_FREE.
add_buffer_to_freelist(b) ==
  /\ free_next' = NextAppended(free_next, free_prev, Free_List_Descriptor, b)
  /\ free_prev' = PrevAppended(free_next, free_prev, Free_List_Descriptor, b)

spin_acquire(p) ==
  /\ BufMgrLock = NoBackend
  /\ BufMgrLock' = p
  /\ UNCHANGED <<linkVars, BM_FREE, pinVars, hand>>

\* The lock is not given up with a buffer in hand: that is the caller's to keep,
\* which is not in this code base, and assumed.
spin_release(p) ==
  /\ BufMgrLock = p
  /\ hand = NoBuffer
  /\ BufMgrLock' = NoBackend
  /\ UNCHANGED <<linkVars, BM_FREE, pinVars, hand>>

\* Mutant of pin_buffer: every pin is counted in the shared descriptor.
pin_buffer_counts_all(p, b) ==
  /\ BufMgrLock = p
  /\ hand # b
  /\ PrivateRefCount[p][b] < MaxPins
  /\ IF refcount[b] = 0 THEN RemoveFromFreelist(b) ELSE UNCHANGED <<linkVars, BM_FREE>>
  /\ refcount' = [refcount EXCEPT ![b] = @ + 1]
  /\ PrivateRefCount' = [PrivateRefCount EXCEPT ![p][b] = @ + 1]
  /\ UNCHANGED <<BufMgrLock, hand>>

\* A backend pins a buffer it knows.
pin_buffer(p, b) ==
  /\ BufMgrLock = p
  /\ hand # b
  /\ PrivateRefCount[p][b] < MaxPins
  /\ IF refcount[b] = 0 THEN RemoveFromFreelist(b) ELSE UNCHANGED <<linkVars, BM_FREE>>
  /\ refcount' = IF PrivateRefCount[p][b] = 0
                 THEN [refcount EXCEPT ![b] = @ + 1] ELSE refcount
  /\ PrivateRefCount' = [PrivateRefCount EXCEPT ![p][b] = @ + 1]
  /\ UNCHANGED <<BufMgrLock, hand>>

\* Mutant of unpin_buffer: the backend's own last pin, not the last pin of
\* all, sends the buffer to the queue.
unpin_buffer_own(p, b) ==
  /\ BufMgrLock = p
  /\ PrivateRefCount[p][b] > 0
  /\ PrivateRefCount' = [PrivateRefCount EXCEPT ![p][b] = @ - 1]
  /\ refcount' = IF PrivateRefCount[p][b] = 1
                 THEN [refcount EXCEPT ![b] = @ - 1] ELSE refcount
  /\ IF PrivateRefCount[p][b] = 1
     THEN add_buffer_to_freelist(b) /\ BM_FREE' = BM_FREE \cup {b}
     ELSE UNCHANGED <<linkVars, BM_FREE>>
  /\ UNCHANGED <<BufMgrLock, hand>>

\* A backend gives up one pin; the last pin of the last backend makes the
\* buffer the newest one of the queue.
unpin_buffer(p, b) ==
  /\ BufMgrLock = p
  /\ PrivateRefCount[p][b] > 0
  /\ PrivateRefCount' = [PrivateRefCount EXCEPT ![p][b] = @ - 1]
  /\ refcount' = IF PrivateRefCount[p][b] = 1
                 THEN [refcount EXCEPT ![b] = @ - 1] ELSE refcount
  /\ IF refcount'[b] = 0
     THEN add_buffer_to_freelist(b) /\ BM_FREE' = BM_FREE \cup {b}
     ELSE UNCHANGED <<linkVars, BM_FREE>>
  /\ UNCHANGED <<BufMgrLock, hand>>

\* Mutant of get_free_buffer: the newest buffer is taken.
get_free_buffer_newest(p) ==
  /\ BufMgrLock = p
  /\ hand = NoBuffer
  /\ free_next[Free_List_Descriptor] # Free_List_Descriptor
  /\ RemoveFromFreelist(free_prev[Free_List_Descriptor])
  /\ hand' = free_prev[Free_List_Descriptor]
  /\ UNCHANGED <<pinVars, BufMgrLock>>

\* The oldest buffer of the queue leaves it; nothing changes when the queue
\* is empty and NULL is returned.
get_free_buffer(p) ==
  /\ BufMgrLock = p
  /\ hand = NoBuffer
  /\ free_next[Free_List_Descriptor] # Free_List_Descriptor
  /\ RemoveFromFreelist(free_next[Free_List_Descriptor])
  /\ hand' = free_next[Free_List_Descriptor]
  /\ UNCHANGED <<pinVars, BufMgrLock>>

\* External: the caller of get_free_buffer makes the buffer its own.
AdoptBuffer(p) ==
  /\ BufMgrLock = p
  /\ hand # NoBuffer
  /\ refcount' = [refcount EXCEPT ![hand] = 1]
  /\ PrivateRefCount' = [PrivateRefCount EXCEPT ![p][hand] = 1]
  /\ hand' = NoBuffer
  /\ UNCHANGED <<linkVars, BM_FREE, BufMgrLock>>

\* Another pin on a buffer the backend has pinned already: private, and done
\* without the lock.
INCR_BUFFER_REF_COUNT(p, b) ==
  /\ PrivateRefCount[p][b] > 0
  /\ PrivateRefCount[p][b] < MaxPins
  /\ PrivateRefCount' = [PrivateRefCount EXCEPT ![p][b] = @ + 1]
  /\ UNCHANGED <<linkVars, BM_FREE, refcount, BufMgrLock, hand>>

Next ==
  \E p \in Backends :
    \/ spin_acquire(p) \/ spin_release(p)
    \/ get_free_buffer(p) \/ AdoptBuffer(p)
    \/ \E b \in Buffers : \/ pin_buffer(p, b) \/ unpin_buffer(p, b)
                          \/ INCR_BUFFER_REF_COUNT(p, b)

Spec == Init /\ [][Next]_vars

-----------------------------------------------------------------------------
(* Properties.                                                             *)

\* The types of the variables; no count goes below zero.
TypeOK ==
  /\ free_next \in [Descriptors -> Descriptors \cup {INVALID_DESCRIPTOR}]
  /\ free_prev \in [Descriptors -> Descriptors \cup {INVALID_DESCRIPTOR}]
  /\ BM_FREE \in SUBSET Buffers
  /\ refcount \in [Buffers -> Nat]
  /\ PrivateRefCount \in [Backends -> [Buffers -> Nat]]
  /\ BufMgrLock \in Backends \cup {NoBackend}
  /\ hand \in Buffers \cup {NoBuffer}

\* The backends that have b pinned.
Pinners(b) == {p \in Backends : PrivateRefCount[p][b] > 0}

\* The shared count of pin_buffer and unpin_buffer is the number of backends
\* that have the buffer pinned, however often each of them has.
RefcountCountsBackends == \A b \in Buffers : refcount[b] = Cardinality(Pinners(b))

\* The replacement queue holds exactly the buffers that no backend has
\* pinned (less the one in a caller's hand), each once: none is lost to
\* replacement and none can be replaced under a backend that uses it.
QueueHoldsUnpinned ==
  IsRing(Free_List_Descriptor, {b \in Buffers \ {hand} : refcount[b] = 0},
         free_next, free_prev)

\* IsInQueue and NotInQueue, which pin_buffer and add_buffer_to_freelist
\* assert, agree with refcount whichever backend asks.
QueueAssertions ==
  \A b \in Buffers :
    IF refcount[b] = 0 /\ b # hand
    THEN /\ free_next[b] # INVALID_DESCRIPTOR /\ free_prev[b] # INVALID_DESCRIPTOR
         /\ b \in BM_FREE
    ELSE /\ free_next[b] = INVALID_DESCRIPTOR /\ free_prev[b] = INVALID_DESCRIPTOR
         /\ b \notin BM_FREE

\* get_free_buffer never takes a buffer that some backend has pinned, also
\* not one whose pins were only ever counted privately.  (That the buffer then
\* stays with its taker until it is pinned rests on the lock: spin_release.)
TakenIsUnpinned ==
  [][hand' # hand /\ hand' # NoBuffer => Pinners(hand') = {}]_vars

-----------------------------------------------------------------------------
(* The mapping under which freelist.c implements LruPool: the abstract     *)
(* queue is what a walk along free_next meets, the abstract pins are the   *)
(* private counts.                                                         *)

\* The buffers in the order in which free_next visits them from the header.
FreeQueue ==
  LET walk[i \in 0..NBuffers] ==
        IF i = 0 THEN Free_List_Descriptor ELSE free_next[walk[i - 1]]
  IN  [i \in 1..Cardinality(BM_FREE) |-> walk[i]]

Pool == INSTANCE LruPool WITH queue <- FreeQueue, pins <- PrivateRefCount

\* freelist.c implements the least-recently-unpinned pool of LruPool: shared
\* count, links, flags and lock together behave as one queue.
ImplementsLruPool == Pool!Spec
=============================================================================
