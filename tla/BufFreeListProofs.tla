-------------------------- MODULE BufFreeListProofs -------------------------
(***************************************************************************)
(* The pins of any number of backends and the replacement queue of any     *)
(* number of buffers stay consistent, and together they behave as the      *)
(* queue of LruPool.                                                       *)
(***************************************************************************)
EXTENDS BufFreeList, RingProofs, SequenceTheorems

\* The buffers that are, or should be, in the queue.
Queued == {b \in Buffers \ {hand} : refcount[b] = 0}

\* The inductive invariant.  The count of backends is what makes a refcount
\* of zero mean that nobody has the buffer pinned; the assertions tie the
\* links to the count, and a buffer in somebody's hand has no pin yet.
BufInv ==
  /\ TypeOK
  /\ RefcountCountsBackends
  /\ QueueHoldsUnpinned
  /\ QueueAssertions
  /\ hand # NoBuffer => refcount[hand] = 0

\* Facts about the constants in the form the proofs use them.
LEMMA Constants ==
  /\ NBuffers \in Nat \ {0}
  /\ Buffers \subseteq Descriptors /\ Free_List_Descriptor \in Descriptors
  /\ Free_List_Descriptor \notin Buffers
  /\ INVALID_DESCRIPTOR \notin Descriptors /\ NoBuffer \notin Buffers
  /\ \A S \in SUBSET Buffers : IsFiniteSet(S)
<1>1. NBuffers \in Nat \ {0} /\ NBuffers - 1 \in Int /\ 0 \in Int
  BY BufAssumption
<1>2. /\ Buffers \subseteq Descriptors /\ Free_List_Descriptor \in Descriptors
      /\ Free_List_Descriptor \notin Buffers
      /\ INVALID_DESCRIPTOR \notin Descriptors /\ NoBuffer \notin Buffers
  BY <1>1 DEF Buffers, Descriptors, Free_List_Descriptor, INVALID_DESCRIPTOR, NoBuffer
<1>3. IsFiniteSet(0..(NBuffers - 1))
  BY <1>1, FS_Interval
<1> QED BY <1>1, <1>2, <1>3, FS_Subset DEF Buffers

\* The queue is a finite set of buffers.
LEMMA QueuedFinite ==
  /\ Queued \subseteq Buffers /\ Queued \subseteq Descriptors /\ IsFiniteSet(Queued)
  /\ Free_List_Descriptor \notin Queued
BY Constants DEF Queued

\* The backends that have a buffer pinned are finitely many.
LEMMA PinnersFinite ==
  ASSUME NEW b \in Buffers
  PROVE  /\ IsFiniteSet(Pinners(b)) /\ Cardinality(Pinners(b)) \in Nat
         /\ (Cardinality(Pinners(b)) = 0 <=> Pinners(b) = {})
<1>1. Pinners(b) \subseteq Backends
  BY DEF Pinners
<1>2. IsFiniteSet(Pinners(b))
  BY <1>1, BufAssumption, FS_Subset
<1> QED BY <1>2, FS_CardinalityType, FS_EmptySet

\* Removing a queued buffer from the queue.
LEMMA RemoveStep ==
  ASSUME BufInv, NEW b \in Queued, RemoveFromFreelist(b)
  PROVE  /\ IsRing(Free_List_Descriptor, Queued \ {b}, free_next', free_prev')
         /\ free_next' \in [Descriptors -> Descriptors \cup {INVALID_DESCRIPTOR}]
         /\ free_prev' \in [Descriptors -> Descriptors \cup {INVALID_DESCRIPTOR}]
         /\ free_next'[b] = INVALID_DESCRIPTOR /\ free_prev'[b] = INVALID_DESCRIPTOR
         /\ \A c \in Buffers \ {b} :
              /\ free_next'[c] = INVALID_DESCRIPTOR <=> free_next[c] = INVALID_DESCRIPTOR
              /\ free_prev'[c] = INVALID_DESCRIPTOR <=> free_prev[c] = INVALID_DESCRIPTOR
<1> DEFINE R == Descriptors \cup {INVALID_DESCRIPTOR}
           nx == NextUnlinked(free_next, free_prev, b)
           pv == PrevUnlinked(free_next, free_prev, b)
<1>1. free_next \in [Descriptors -> R] /\ free_prev \in [Descriptors -> R]
  BY DEF BufInv, TypeOK
<1>2. IsRing(Free_List_Descriptor, Queued, free_next, free_prev)
  BY DEF BufInv, QueueHoldsUnpinned, Queued
<1>3. /\ free_next[b] \in Queued \cup {Free_List_Descriptor}
      /\ free_prev[b] \in Queued \cup {Free_List_Descriptor}
  BY <1>2, QueuedFinite, RingNeighbours
<1>4. /\ b \in Descriptors /\ b # Free_List_Descriptor /\ b \in Buffers
      /\ free_next[b] \in Descriptors /\ free_prev[b] \in Descriptors
      /\ INVALID_DESCRIPTOR \notin Descriptors
  BY <1>3, QueuedFinite, Constants
<1>5. IsRing(Free_List_Descriptor, Queued \ {b}, nx, pv)
  BY <1>1, <1>2, QueuedFinite, Constants, RingUnlink
<1>6. nx \in [Descriptors -> R] /\ pv \in [Descriptors -> R]
  BY <1>1, <1>4 DEF NextUnlinked, PrevUnlinked
<1>7. /\ free_next' = [nx EXCEPT ![b] = INVALID_DESCRIPTOR]
      /\ free_prev' = [pv EXCEPT ![b] = INVALID_DESCRIPTOR]
  BY DEF RemoveFromFreelist
<1>8. \A c \in Buffers \ {b} :
        /\ nx[c] = INVALID_DESCRIPTOR <=> free_next[c] = INVALID_DESCRIPTOR
        /\ pv[c] = INVALID_DESCRIPTOR <=> free_prev[c] = INVALID_DESCRIPTOR
  <2> SUFFICES ASSUME NEW c \in Buffers \ {b}
               PROVE  /\ nx[c] = INVALID_DESCRIPTOR <=> free_next[c] = INVALID_DESCRIPTOR
                      /\ pv[c] = INVALID_DESCRIPTOR <=> free_prev[c] = INVALID_DESCRIPTOR
    OBVIOUS
  <2>1. c \in Descriptors
    BY Constants
  <2>2. c \in Queued => /\ free_next[c] # INVALID_DESCRIPTOR
                        /\ free_prev[c] # INVALID_DESCRIPTOR
    BY DEF Queued, BufInv, QueueAssertions
  <2>3. c \in {free_next[b], free_prev[b]} => c \in Queued
    BY <1>3, Constants
  <2>4. nx[c] = (IF c = free_prev[b] THEN free_next[b] ELSE free_next[c])
    BY <1>1, <2>1 DEF NextUnlinked
  <2>5. pv[c] = (IF c = free_next[b] THEN free_prev[b] ELSE free_prev[c])
    BY <1>1, <2>1 DEF PrevUnlinked
  <2> QED BY <1>4, <2>2, <2>3, <2>4, <2>5
<1> HIDE DEF nx, pv
<1>9. \A x \in (Queued \ {b}) \cup {Free_List_Descriptor} :
        free_next'[x] = nx[x] /\ free_prev'[x] = pv[x]
  BY <1>4, <1>6, <1>7, QueuedFinite, Constants
<1>10. IsRing(Free_List_Descriptor, Queued \ {b}, free_next', free_prev')
  <2>1. IsFiniteSet(Queued \ {b})
    BY QueuedFinite, FS_Subset
  <2> QED BY <2>1, <1>5, <1>9, RingFrame
<1>11. \A c \in Buffers \ {b} : free_next'[c] = nx[c] /\ free_prev'[c] = pv[c]
  BY <1>6, <1>7, Constants
<1> QED BY <1>4, <1>6, <1>7, <1>8, <1>10, <1>11

\* Appending a buffer that is not queued.
LEMMA AppendStep ==
  ASSUME BufInv, NEW b \in Buffers, b \notin Queued, add_buffer_to_freelist(b)
  PROVE  /\ IsRing(Free_List_Descriptor, Queued \cup {b}, free_next', free_prev')
         /\ free_next' \in [Descriptors -> Descriptors \cup {INVALID_DESCRIPTOR}]
         /\ free_prev' \in [Descriptors -> Descriptors \cup {INVALID_DESCRIPTOR}]
         /\ free_next'[b] # INVALID_DESCRIPTOR /\ free_prev'[b] # INVALID_DESCRIPTOR
         /\ \A c \in Buffers \ {b} :
              /\ free_next'[c] = INVALID_DESCRIPTOR <=> free_next[c] = INVALID_DESCRIPTOR
              /\ free_prev'[c] = INVALID_DESCRIPTOR <=> free_prev[c] = INVALID_DESCRIPTOR
<1> DEFINE R == Descriptors \cup {INVALID_DESCRIPTOR}
           h == Free_List_Descriptor
<1>1. free_next \in [Descriptors -> R] /\ free_prev \in [Descriptors -> R]
  BY DEF BufInv, TypeOK
<1>2. IsRing(h, Queued, free_next, free_prev)
  BY DEF BufInv, QueueHoldsUnpinned, Queued
<1>3. free_prev[h] \in Queued \cup {h}
  BY <1>2, QueuedFinite, RingFirst
<1>4. /\ b \in Descriptors /\ b # h /\ h \in Descriptors
      /\ free_prev[h] \in Descriptors /\ free_prev[h] # b
      /\ INVALID_DESCRIPTOR \notin Descriptors
  BY <1>3, QueuedFinite, Constants
<1>5. IsRing(h, Queued \cup {b}, free_next', free_prev')
  BY <1>1, <1>2, <1>4, QueuedFinite, RingAppend DEF add_buffer_to_freelist
<1> HIDE DEF h
<1>6. /\ free_next' = [free_next EXCEPT ![b] = h, ![free_prev[h]] = b]
      /\ free_prev' = [free_prev EXCEPT ![b] = free_prev[h], ![h] = b]
  BY DEF add_buffer_to_freelist, NextAppended, PrevAppended, h
<1>7. free_next' \in [Descriptors -> R] /\ free_prev' \in [Descriptors -> R]
  BY <1>1, <1>4, <1>6
<1>8. free_next'[b] = h /\ free_prev'[b] = free_prev[h]
  BY <1>1, <1>4, <1>6
<1>9. ASSUME NEW c \in Buffers \ {b}
      PROVE  /\ free_next'[c] = INVALID_DESCRIPTOR <=> free_next[c] = INVALID_DESCRIPTOR
             /\ free_prev'[c] = INVALID_DESCRIPTOR <=> free_prev[c] = INVALID_DESCRIPTOR
  <2>1. c \in Descriptors /\ c # h
    BY Constants DEF h
  <2>2. c = free_prev[h] => c \in Queued
    BY <1>3, <2>1
  <2>3. c \in Queued => free_next[c] # INVALID_DESCRIPTOR
    BY DEF Queued, BufInv, QueueAssertions
  <2>4. free_next'[c] = (IF c = free_prev[h] THEN b ELSE free_next[c])
    BY <1>1, <1>4, <1>6, <2>1
  <2>5. free_prev'[c] = free_prev[c]
    BY <1>1, <1>4, <1>6, <2>1
  <2> QED BY <1>4, <2>2, <2>3, <2>4, <2>5
<1> QED BY <1>4, <1>5, <1>7, <1>8, <1>9 DEF h

\* One private count changes: who has which buffer pinned afterwards.
LEMMA CountStep ==
  ASSUME TypeOK, NEW p \in Backends, NEW b \in Buffers, NEW n \in Nat,
         PrivateRefCount' = [PrivateRefCount EXCEPT ![p][b] = n]
  PROVE  /\ PrivateRefCount' \in [Backends -> [Buffers -> Nat]]
         /\ \A c \in Buffers \ {b} : Pinners(c)' = Pinners(c)
         /\ Pinners(b)' = IF n > 0 THEN Pinners(b) \cup {p} ELSE Pinners(b) \ {p}
<1>1. PrivateRefCount \in [Backends -> [Buffers -> Nat]]
  BY DEF TypeOK
<1>2. \A q \in Backends, c \in Buffers :
        PrivateRefCount'[q][c] = IF q = p /\ c = b THEN n ELSE PrivateRefCount[q][c]
  BY <1>1
<1> QED BY <1>1, <1>2 DEF Pinners

\* The count of a buffer follows the set of its pinners.
LEMMA RefcountStep ==
  ASSUME BufInv, NEW p \in Backends, NEW b \in Buffers
  PROVE  /\ refcount[b] \in Nat /\ refcount[b] = Cardinality(Pinners(b))
         /\ (refcount[b] = 0 <=> Pinners(b) = {})
         /\ p \notin Pinners(b) => Cardinality(Pinners(b) \cup {p}) = refcount[b] + 1
         /\ p \in Pinners(b) => /\ Cardinality(Pinners(b) \ {p}) = refcount[b] - 1
                                /\ refcount[b] - 1 \in Nat
                                /\ Pinners(b) \cup {p} = Pinners(b)
         /\ p \in Pinners(b) <=> PrivateRefCount[p][b] > 0
<1>1. refcount[b] = Cardinality(Pinners(b)) /\ refcount[b] \in Nat
  BY DEF BufInv, RefcountCountsBackends, TypeOK
<1>2. p \notin Pinners(b) => Cardinality(Pinners(b) \cup {p}) = refcount[b] + 1
  BY <1>1, PinnersFinite, FS_AddElement
<1>3. p \in Pinners(b) => Cardinality(Pinners(b) \ {p}) = refcount[b] - 1
  BY <1>1, PinnersFinite, FS_RemoveElement
<1>4. p \in Pinners(b) => refcount[b] # 0
  BY <1>1, PinnersFinite
<1>5. p \in Pinners(b) <=> PrivateRefCount[p][b] > 0
  BY DEF Pinners
<1> QED BY <1>1, <1>2, <1>3, <1>4, <1>5, PinnersFinite

\* Counts that stay as they are for all buffers but one.
LEMMA CountsElsewhere ==
  ASSUME BufInv, NEW b \in Buffers, NEW n \in Nat,
         refcount' = [refcount EXCEPT ![b] = n],
         \A c \in Buffers \ {b} : Pinners(c)' = Pinners(c),
         n = Cardinality(Pinners(b)')
  PROVE  /\ RefcountCountsBackends' /\ refcount' \in [Buffers -> Nat]
         /\ refcount'[b] = n /\ \A c \in Buffers \ {b} : refcount'[c] = refcount[c]
<1>1. refcount \in [Buffers -> Nat]
  BY DEF BufInv, TypeOK
<1>2. refcount'[b] = n /\ \A c \in Buffers \ {b} : refcount'[c] = refcount[c]
  BY <1>1
<1>3. ASSUME NEW c \in Buffers PROVE refcount'[c] = Cardinality(Pinners(c)')
  <2>1. CASE c = b BY <2>1, <1>2
  <2>2. CASE c # b BY <2>2, <1>2 DEF BufInv, RefcountCountsBackends
  <2> QED BY <2>1, <2>2
<1> QED BY <1>1, <1>2, <1>3 DEF RefcountCountsBackends

\* A step that leaves queue, counts and hand alone.
LEMMA QuietStep ==
  ASSUME BufInv, UNCHANGED <<linkVars, BM_FREE, refcount, hand>>,
         PrivateRefCount' \in [Backends -> [Buffers -> Nat]],
         \A c \in Buffers : Pinners(c)' = Pinners(c),
         BufMgrLock' \in Backends \cup {NoBackend}
  PROVE  BufInv'
<1>1. TypeOK'
  BY DEF BufInv, TypeOK, linkVars
<1>2. RefcountCountsBackends'
  BY DEF BufInv, RefcountCountsBackends
<1>3. QueueHoldsUnpinned' /\ QueueAssertions' /\ (hand' # NoBuffer => refcount'[hand'] = 0)
  BY DEF BufInv, QueueHoldsUnpinned, QueueAssertions, linkVars
<1> QED BY <1>1, <1>2, <1>3 DEF BufInv

\* pin_buffer keeps the invariant.
LEMMA PinStep ==
  ASSUME BufInv, NEW p \in Backends, NEW b \in Buffers, pin_buffer(p, b)
  PROVE  BufInv'
<1> DEFINE n == PrivateRefCount[p][b] + 1
           k == IF PrivateRefCount[p][b] = 0 THEN refcount[b] + 1 ELSE refcount[b]
<1>1. /\ TypeOK /\ PrivateRefCount[p][b] \in Nat /\ n \in Nat /\ n > 0
      /\ refcount \in [Buffers -> Nat] /\ refcount[b] \in Nat
  BY DEF BufInv, TypeOK
<1>2. /\ PrivateRefCount' = [PrivateRefCount EXCEPT ![p][b] = n]
      /\ refcount' = [refcount EXCEPT ![b] = k]
      /\ hand' = hand /\ hand # b /\ BufMgrLock' = BufMgrLock
  BY <1>1 DEF pin_buffer
<1> HIDE DEF n
<1>3. /\ PrivateRefCount' \in [Backends -> [Buffers -> Nat]]
      /\ \A c \in Buffers \ {b} : Pinners(c)' = Pinners(c)
      /\ Pinners(b)' = Pinners(b) \cup {p}
  BY <1>1, <1>2, CountStep
<1>4. k \in Nat /\ k > 0 /\ k = Cardinality(Pinners(b)')
  <2>1. CASE PrivateRefCount[p][b] = 0
    <3>0. k = refcount[b] + 1
      BY <2>1
    <3>1. p \notin Pinners(b)
      BY <2>1 DEF Pinners
    <3>2. Cardinality(Pinners(b) \cup {p}) = refcount[b] + 1
      BY <3>1, RefcountStep
    <3>3. k \in Nat /\ k > 0
      BY <1>1, <3>0
    <3> HIDE DEF k
    <3> QED BY <1>3, <3>0, <3>2, <3>3
  <2>2. CASE PrivateRefCount[p][b] > 0
    <3>1. p \in Pinners(b) /\ Pinners(b) \cup {p} = Pinners(b) /\ refcount[b] # 0
          /\ refcount[b] = Cardinality(Pinners(b))
      BY <1>1, <2>2, RefcountStep
    <3>2. k = refcount[b]
      BY <1>1, <2>2
    <3>3. k \in Nat /\ k > 0
      BY <1>1, <3>1, <3>2
    <3> HIDE DEF k
    <3> QED BY <1>3, <3>1, <3>2, <3>3
  <2> QED BY <1>1, <2>1, <2>2
<1> HIDE DEF k
<1>5. /\ RefcountCountsBackends' /\ refcount' \in [Buffers -> Nat]
      /\ refcount'[b] = k /\ \A c \in Buffers \ {b} : refcount'[c] = refcount[c]
  BY <1>2, <1>3, <1>4, CountsElsewhere
<1>6. Queued' = Queued \ {b}
  BY <1>2, <1>4, <1>5 DEF Queued
<1>7. hand' # NoBuffer => refcount'[hand'] = 0
  BY <1>2, <1>5 DEF BufInv, TypeOK
<1>8. CASE refcount[b] = 0
  <2>1. b \in Queued /\ RemoveFromFreelist(b)
    BY <1>2, <1>8 DEF Queued, pin_buffer
  <2>2. QueueHoldsUnpinned'
    BY <1>6, <2>1, RemoveStep DEF QueueHoldsUnpinned, Queued
  <2>3. TypeOK'
    BY <1>2, <1>3, <1>5, <2>1, RemoveStep DEF BufInv, TypeOK, RemoveFromFreelist
  <2>4. QueueAssertions'
    <3> SUFFICES ASSUME NEW c \in Buffers
                 PROVE  IF refcount'[c] = 0 /\ c # hand'
                        THEN /\ free_next'[c] # INVALID_DESCRIPTOR
                             /\ free_prev'[c] # INVALID_DESCRIPTOR /\ c \in BM_FREE'
                        ELSE /\ free_next'[c] = INVALID_DESCRIPTOR
                             /\ free_prev'[c] = INVALID_DESCRIPTOR /\ c \notin BM_FREE'
      BY DEF QueueAssertions
    <3>1. /\ BM_FREE' = BM_FREE \ {b}
          /\ free_next'[b] = INVALID_DESCRIPTOR /\ free_prev'[b] = INVALID_DESCRIPTOR
          /\ c # b => /\ free_next'[c] = INVALID_DESCRIPTOR <=> free_next[c] = INVALID_DESCRIPTOR
                      /\ free_prev'[c] = INVALID_DESCRIPTOR <=> free_prev[c] = INVALID_DESCRIPTOR
      BY <2>1, RemoveStep DEF RemoveFromFreelist
    <3>2. CASE c = b
      BY <3>1, <3>2, <1>4, <1>5
    <3>3. CASE c # b
      BY <3>1, <3>3, <1>2, <1>5 DEF BufInv, QueueAssertions
    <3> QED BY <3>2, <3>3
  <2> QED BY <1>5, <1>7, <2>2, <2>3, <2>4 DEF BufInv
<1>9. CASE refcount[b] # 0
  <2>1. UNCHANGED <<linkVars, BM_FREE>>
    BY <1>9 DEF pin_buffer
  <2>2. Queued' = Queued
    BY <1>6, <1>9 DEF Queued
  <2>3. QueueHoldsUnpinned'
    BY <2>1, <2>2 DEF BufInv, QueueHoldsUnpinned, Queued, linkVars
  <2>4. TypeOK'
    BY <1>2, <1>3, <1>5, <2>1 DEF BufInv, TypeOK, linkVars
  <2>5. QueueAssertions'
    BY <1>2, <1>4, <1>5, <1>9, <2>1 DEF BufInv, QueueAssertions, linkVars
  <2> QED BY <1>5, <1>7, <2>3, <2>4, <2>5 DEF BufInv
<1> QED BY <1>8, <1>9

\* unpin_buffer keeps the invariant.
LEMMA UnpinStep ==
  ASSUME BufInv, NEW p \in Backends, NEW b \in Buffers, unpin_buffer(p, b)
  PROVE  BufInv'
<1> DEFINE n == PrivateRefCount[p][b] - 1
           k == IF PrivateRefCount[p][b] = 1 THEN refcount[b] - 1 ELSE refcount[b]
<1>1. /\ TypeOK /\ PrivateRefCount[p][b] \in Nat /\ n \in Nat
      /\ PrivateRefCount[p][b] > 0
      /\ refcount \in [Buffers -> Nat] /\ refcount[b] \in Nat
      /\ (n > 0) = (PrivateRefCount[p][b] # 1)
  BY DEF BufInv, TypeOK, unpin_buffer
<1>2. /\ PrivateRefCount' = [PrivateRefCount EXCEPT ![p][b] = n]
      /\ refcount' = [refcount EXCEPT ![b] = k]
      /\ hand' = hand /\ BufMgrLock' = BufMgrLock
  BY <1>1 DEF unpin_buffer
<1>3. p \in Pinners(b) /\ refcount[b] # 0 /\ hand # b
  <2>1. p \in Pinners(b) /\ refcount[b] # 0
    BY <1>1, RefcountStep
  <2> QED BY <2>1, Constants DEF BufInv
<1> HIDE DEF n
<1>4. /\ PrivateRefCount' \in [Backends -> [Buffers -> Nat]]
      /\ \A c \in Buffers \ {b} : Pinners(c)' = Pinners(c)
      /\ Pinners(b)' = IF n > 0 THEN Pinners(b) \cup {p} ELSE Pinners(b) \ {p}
  BY <1>1, <1>2, CountStep
<1>5. k \in Nat /\ k = Cardinality(Pinners(b)')
  BY <1>1, <1>3, <1>4, RefcountStep
<1> HIDE DEF k
<1>6. /\ RefcountCountsBackends' /\ refcount' \in [Buffers -> Nat]
      /\ refcount'[b] = k /\ \A c \in Buffers \ {b} : refcount'[c] = refcount[c]
  BY <1>2, <1>4, <1>5, CountsElsewhere
<1>7. b \notin Queued
  BY <1>3 DEF Queued
<1>8. hand' # NoBuffer => refcount'[hand'] = 0
  BY <1>2, <1>3, <1>6 DEF BufInv, TypeOK
<1>9. CASE refcount'[b] = 0
  <2>1. add_buffer_to_freelist(b) /\ BM_FREE' = BM_FREE \cup {b}
    BY <1>9 DEF unpin_buffer
  <2>2. Queued' = Queued \cup {b}
    BY <1>2, <1>3, <1>6, <1>9 DEF Queued
  <2>3. QueueHoldsUnpinned'
    BY <1>7, <2>1, <2>2, AppendStep DEF QueueHoldsUnpinned, Queued
  <2>4. TypeOK'
    BY <1>2, <1>4, <1>6, <1>7, <2>1, AppendStep DEF BufInv, TypeOK
  <2>5. QueueAssertions'
    <3> SUFFICES ASSUME NEW c \in Buffers
                 PROVE  IF refcount'[c] = 0 /\ c # hand'
                        THEN /\ free_next'[c] # INVALID_DESCRIPTOR
                             /\ free_prev'[c] # INVALID_DESCRIPTOR /\ c \in BM_FREE'
                        ELSE /\ free_next'[c] = INVALID_DESCRIPTOR
                             /\ free_prev'[c] = INVALID_DESCRIPTOR /\ c \notin BM_FREE'
      BY DEF QueueAssertions
    <3>1. /\ free_next'[b] # INVALID_DESCRIPTOR /\ free_prev'[b] # INVALID_DESCRIPTOR
          /\ c # b => /\ free_next'[c] = INVALID_DESCRIPTOR <=> free_next[c] = INVALID_DESCRIPTOR
                      /\ free_prev'[c] = INVALID_DESCRIPTOR <=> free_prev[c] = INVALID_DESCRIPTOR
      BY <1>7, <2>1, AppendStep
    <3>2. CASE c = b
      BY <3>1, <3>2, <1>2, <1>3, <1>9, <2>1
    <3>3. CASE c # b
      BY <3>1, <3>3, <1>2, <1>6, <2>1 DEF BufInv, QueueAssertions
    <3> QED BY <3>2, <3>3
  <2> QED BY <1>6, <1>8, <2>3, <2>4, <2>5 DEF BufInv
<1>10. CASE refcount'[b] # 0
  <2>1. UNCHANGED <<linkVars, BM_FREE>>
    BY <1>10 DEF unpin_buffer
  <2>2. Queued' = Queued
    BY <1>2, <1>3, <1>6, <1>10 DEF Queued
  <2>3. QueueHoldsUnpinned'
    BY <2>1, <2>2 DEF BufInv, QueueHoldsUnpinned, Queued, linkVars
  <2>4. TypeOK'
    BY <1>2, <1>4, <1>6, <2>1 DEF BufInv, TypeOK, linkVars
  <2>5. QueueAssertions'
    BY <1>2, <1>3, <1>6, <1>10, <2>1 DEF BufInv, QueueAssertions, linkVars
  <2> QED BY <1>6, <1>8, <2>3, <2>4, <2>5 DEF BufInv
<1> QED BY <1>9, <1>10

\* get_free_buffer takes a queued buffer, which nobody has pinned.
LEMMA TakeStep ==
  ASSUME BufInv, NEW p \in Backends, get_free_buffer(p)
  PROVE  BufInv' /\ hand' \in Queued
<1> DEFINE b == free_next[Free_List_Descriptor]
<1>1. b \in Queued
  <2>1. IsRing(Free_List_Descriptor, Queued, free_next, free_prev)
    BY DEF BufInv, QueueHoldsUnpinned, Queued
  <2>2. free_next[Free_List_Descriptor] # Free_List_Descriptor
    BY DEF get_free_buffer
  <2> QED BY <2>1, <2>2, QueuedFinite, RingFirst
<1>2. /\ RemoveFromFreelist(b) /\ hand' = b /\ hand = NoBuffer
      /\ UNCHANGED <<refcount, PrivateRefCount, BufMgrLock>>
  BY DEF get_free_buffer, pinVars
<1> HIDE DEF b
<1>3. b \in Buffers /\ refcount[b] = 0
  BY <1>1 DEF Queued
<1>4. Queued' = Queued \ {b}
  BY <1>2, Constants DEF Queued
<1>5. QueueHoldsUnpinned'
  BY <1>1, <1>2, <1>4, RemoveStep DEF QueueHoldsUnpinned, Queued
<1>6. TypeOK'
  BY <1>1, <1>2, <1>3, RemoveStep DEF BufInv, TypeOK, RemoveFromFreelist
<1>7. RefcountCountsBackends'
  BY <1>2 DEF BufInv, RefcountCountsBackends, Pinners
<1>8. QueueAssertions'
  <2> SUFFICES ASSUME NEW c \in Buffers
               PROVE  IF refcount'[c] = 0 /\ c # hand'
                      THEN /\ free_next'[c] # INVALID_DESCRIPTOR
                           /\ free_prev'[c] # INVALID_DESCRIPTOR /\ c \in BM_FREE'
                      ELSE /\ free_next'[c] = INVALID_DESCRIPTOR
                           /\ free_prev'[c] = INVALID_DESCRIPTOR /\ c \notin BM_FREE'
    BY DEF QueueAssertions
  <2>1. BM_FREE' = BM_FREE \ {b}
    BY <1>2 DEF RemoveFromFreelist
  <2>2. CASE c = b
    BY <2>1, <2>2, <1>1, <1>2, RemoveStep
  <2>3. CASE c # b
    <3>1. c # hand
      BY <1>2, Constants
    <3> QED BY <3>1, <2>1, <2>3, <1>1, <1>2, RemoveStep DEF BufInv, QueueAssertions
  <2> QED BY <2>2, <2>3
<1> QED BY <1>1, <1>2, <1>3, <1>5, <1>6, <1>7, <1>8 DEF BufInv

\* Adopting the buffer in hand makes one backend its only pinner.
LEMMA AdoptStep ==
  ASSUME BufInv, NEW p \in Backends, AdoptBuffer(p)
  PROVE  BufInv'
<1>1. hand \in Buffers /\ refcount[hand] = 0 /\ TypeOK
  BY DEF BufInv, TypeOK, AdoptBuffer
<1>2. PICK b \in Buffers : b = hand
  BY <1>1
<1>3. /\ PrivateRefCount' = [PrivateRefCount EXCEPT ![p][b] = 1]
      /\ refcount' = [refcount EXCEPT ![b] = 1]
      /\ hand' = NoBuffer /\ UNCHANGED <<linkVars, BM_FREE, BufMgrLock>>
  BY <1>2 DEF AdoptBuffer
<1>4. /\ PrivateRefCount' \in [Backends -> [Buffers -> Nat]]
      /\ \A c \in Buffers \ {b} : Pinners(c)' = Pinners(c)
      /\ Pinners(b)' = Pinners(b) \cup {p}
  <2>1. 1 \in Nat /\ 1 > 0
    OBVIOUS
  <2> QED BY <1>1, <1>3, <2>1, CountStep
<1>5. 1 = Cardinality(Pinners(b)')
  <2>1. Pinners(b) = {}
    BY <1>1, <1>2, RefcountStep
  <2>2. Cardinality(Pinners(b) \cup {p}) = refcount[b] + 1
    BY <2>1, RefcountStep
  <2> QED BY <1>1, <1>2, <1>4, <2>2
<1>6. /\ RefcountCountsBackends' /\ refcount' \in [Buffers -> Nat]
      /\ refcount'[b] = 1 /\ \A c \in Buffers \ {b} : refcount'[c] = refcount[c]
  BY <1>3, <1>4, <1>5, CountsElsewhere
<1>7. Queued' = Queued
  BY <1>2, <1>3, <1>6, Constants DEF Queued
<1>8. QueueHoldsUnpinned'
  BY <1>3, <1>7 DEF BufInv, QueueHoldsUnpinned, Queued, linkVars
<1>9. TypeOK'
  BY <1>3, <1>4, <1>6 DEF BufInv, TypeOK, linkVars
<1>10. QueueAssertions'
  BY <1>2, <1>3, <1>6, Constants DEF BufInv, QueueAssertions, linkVars
<1> QED BY <1>3, <1>6, <1>8, <1>9, <1>10 DEF BufInv

\* init_buffer_pool and init_freelist leave every buffer in the queue, from
\* buffer 1 on, with buffer 0 last.
LEMMA InitInv == Init => BufInv
<1> SUFFICES ASSUME Init PROVE BufInv
  OBVIOUS
<1> DEFINE N == NBuffers
           s == [i \in 1..N |-> IF i = N THEN 0 ELSE i]
<1>1. N \in Nat /\ N >= 1
  BY Constants
<1>2. /\ \A d \in 0..N : free_next[d] = IF d = 0 THEN N
                                        ELSE IF d = N THEN IF N = 1 THEN 0 ELSE 1
                                        ELSE IF d = N - 1 THEN 0 ELSE d + 1
      /\ \A d \in 0..N : free_prev[d] = IF d = N THEN 0
                                        ELSE IF d = (IF N = 1 THEN 0 ELSE 1) THEN N
                                        ELSE IF d = 0 THEN N - 1 ELSE d - 1
  <2>1. /\ CircleNext \in [0..N -> Int] /\ CirclePrev \in [0..N -> Int]
        /\ CircleNext[0] = (IF N = 1 THEN 0 ELSE 1) /\ CircleNext[0] \in 0..N
        /\ \A d \in 0..N : /\ CircleNext[d] = IF d = N - 1 THEN 0 ELSE d + 1
                           /\ CirclePrev[d] = IF d = 0 THEN N - 1 ELSE d - 1
    BY <1>1 DEF CircleNext, CirclePrev, Descriptors
  <2>2. /\ free_next = [CircleNext EXCEPT ![N] = CircleNext[0], ![0] = N]
        /\ free_prev = [CirclePrev EXCEPT ![N] = 0, ![CircleNext[0]] = N]
    BY DEF Init, Free_List_Descriptor
  <2>3. \A d \in 0..N : free_next[d] = IF d = 0 THEN N
                                       ELSE IF d = N THEN CircleNext[0]
                                       ELSE CircleNext[d]
    BY <1>1, <2>1, <2>2
  <2>4. \A d \in 0..N : free_prev[d] = IF d = CircleNext[0] THEN N
                                       ELSE IF d = N THEN 0 ELSE CirclePrev[d]
    BY <1>1, <2>1, <2>2
  <2> QED BY <1>1, <2>1, <2>3, <2>4
<1>3. /\ free_next \in [Descriptors -> Descriptors]
      /\ free_prev \in [Descriptors -> Descriptors]
  <2>1. CircleNext[0] \in Descriptors /\ 0 \in Descriptors
    BY <1>1 DEF CircleNext, Descriptors
  <2>2. /\ DOMAIN free_next = Descriptors
        /\ DOMAIN free_prev = Descriptors
        /\ free_next = [d \in Descriptors |-> free_next[d]]
        /\ free_prev = [d \in Descriptors |-> free_prev[d]]
    BY <2>1 DEF Init, CircleNext, CirclePrev
  <2>3. \A d \in 0..N : free_next[d] \in 0..N /\ free_prev[d] \in 0..N
    BY <1>1, <1>2
  <2> QED BY <2>2, <2>3 DEF Descriptors
<1>4. TypeOK
  BY <1>3 DEF Init, TypeOK
<1>5. RefcountCountsBackends
  <2>1. \A b \in Buffers : Pinners(b) = {} /\ refcount[b] = 0
    BY DEF Init, Pinners
  <2> QED BY <2>1, FS_EmptySet DEF RefcountCountsBackends
<1>6. {b \in Buffers \ {hand} : refcount[b] = 0} = Buffers
  BY Constants DEF Init
<1>7. Cardinality(Buffers) = N
  BY <1>1, FS_Interval DEF Buffers
<1>8. s \in [1..N -> Buffers] /\ Enumerates(s, N, Buffers)
  <2>1. s \in [1..N -> Buffers]
    BY <1>1 DEF Buffers
  <2>2. ASSUME NEW x \in Buffers PROVE \E i \in 1..N : s[i] = x
    <3>1. CASE x = 0
      <4>1. N \in 1..N /\ s[N] = x BY <1>1, <3>1
      <4> QED BY <4>1
    <3>2. CASE x # 0
      <4>1. x \in 1..N /\ x # N BY <1>1, <3>2 DEF Buffers
      <4>2. s[x] = x BY <4>1
      <4> QED BY <4>1, <4>2
    <3> QED BY <3>1, <3>2
  <2>3. \A i, j \in 1..N : s[i] = s[j] => i = j
    BY <1>1
  <2> QED BY <2>1, <2>2, <2>3 DEF Enumerates
<1>9. Linked(Free_List_Descriptor, s, N, free_next, free_prev)
  <2> SUFFICES ASSUME NEW i \in 0..N
               PROVE  /\ free_next[At(N, s, N, i)] = At(N, s, N, i + 1)
                      /\ free_prev[At(N, s, N, i + 1)] = At(N, s, N, i)
    BY DEF Linked, Free_List_Descriptor
  <2>1. /\ At(N, s, N, i) = IF i = 0 THEN N ELSE IF i = N THEN 0 ELSE i
        /\ At(N, s, N, i + 1) = IF i = N THEN N ELSE IF i + 1 = N THEN 0 ELSE i + 1
    BY <1>1 DEF At
  <2>2. /\ At(N, s, N, i) \in 0..N /\ At(N, s, N, i + 1) \in 0..N
    BY <1>1, <2>1
  <2> HIDE DEF s
  <2>3. CASE i = 0
    BY <1>1, <1>2, <2>1, <2>2, <2>3
  <2>4. CASE i = N
    BY <1>1, <1>2, <2>1, <2>2, <2>4
  <2>5. CASE i # 0 /\ i # N
    BY <1>1, <1>2, <2>1, <2>2, <2>5
  <2> QED BY <2>3, <2>4, <2>5
<1>10. QueueHoldsUnpinned
  BY <1>6, <1>7, <1>8, <1>9 DEF QueueHoldsUnpinned, IsRing
<1>11. QueueAssertions
  BY <1>3, Constants DEF Init, QueueAssertions
<1> QED BY <1>4, <1>5, <1>10, <1>11 DEF BufInv, Init

\* Every step keeps the invariant.
LEMMA NextInv == BufInv /\ [Next]_vars => BufInv'
<1> SUFFICES ASSUME BufInv, [Next]_vars PROVE BufInv'
  OBVIOUS
<1>1. ASSUME NEW p \in Backends, spin_acquire(p) \/ spin_release(p) PROVE BufInv'
  <2>1. /\ UNCHANGED <<linkVars, BM_FREE, refcount, hand, PrivateRefCount>>
        /\ BufMgrLock' \in Backends \cup {NoBackend}
    BY <1>1 DEF spin_acquire, spin_release, pinVars
  <2> QED BY <2>1, QuietStep DEF BufInv, TypeOK, Pinners
<1>2. ASSUME NEW p \in Backends, NEW b \in Buffers, INCR_BUFFER_REF_COUNT(p, b)
      PROVE  BufInv'
  <2> DEFINE n == PrivateRefCount[p][b] + 1
  <2>1. TypeOK /\ n \in Nat /\ n > 0 /\ p \in Pinners(b)
    BY <1>2 DEF BufInv, TypeOK, Pinners, INCR_BUFFER_REF_COUNT
  <2>2. PrivateRefCount' = [PrivateRefCount EXCEPT ![p][b] = n]
    BY <1>2 DEF INCR_BUFFER_REF_COUNT, BufInv, TypeOK
  <2> HIDE DEF n
  <2>3. /\ PrivateRefCount' \in [Backends -> [Buffers -> Nat]]
        /\ \A c \in Buffers : Pinners(c)' = Pinners(c)
    <3>1. Pinners(b) \cup {p} = Pinners(b)
      BY <2>1
    <3>2. /\ PrivateRefCount' \in [Backends -> [Buffers -> Nat]]
          /\ \A c \in Buffers \ {b} : Pinners(c)' = Pinners(c)
          /\ Pinners(b)' = Pinners(b) \cup {p}
      BY <2>1, <2>2, CountStep
    <3> QED BY <3>1, <3>2
  <2> QED BY <1>2, <2>3, QuietStep DEF INCR_BUFFER_REF_COUNT, BufInv, TypeOK
<1>3. CASE UNCHANGED vars
  BY <1>3, QuietStep DEF vars, pinVars, BufInv, TypeOK, Pinners
<1> QED
  BY <1>1, <1>2, <1>3, PinStep, UnpinStep, TakeStep, AdoptStep DEF Next

\* The inductive invariant holds of every reachable state of the pool.
THEOREM BufInvariant == Spec => []BufInv
BY InitInv, NextInv, PTL DEF Spec

\* Type correctness: refcount and the private counts never go below zero.
THEOREM BufTypes == Spec => []TypeOK
<1>1. BufInv => TypeOK
  BY DEF BufInv
<1> QED BY <1>1, BufInvariant, PTL

\* refcount is the number of backends that have the buffer pinned.
THEOREM RefcountIsExact == Spec => []RefcountCountsBackends
<1>1. BufInv => RefcountCountsBackends
  BY DEF BufInv
<1> QED BY <1>1, BufInvariant, PTL

\* The replacement queue holds the unpinned buffers, each once.
THEOREM QueueIsUnpinned == Spec => []QueueHoldsUnpinned
<1>1. BufInv => QueueHoldsUnpinned
  BY DEF BufInv
<1> QED BY <1>1, BufInvariant, PTL

\* The assertions IsInQueue and NotInQueue of freelist.c never fail.
THEOREM AssertionsHold == Spec => []QueueAssertions
<1>1. BufInv => QueueAssertions
  BY DEF BufInv
<1> QED BY <1>1, BufInvariant, PTL

\* get_free_buffer never takes a buffer from under a backend.
THEOREM TakenOnlyUnpinned == Spec => TakenIsUnpinned
<1>1. BufInv /\ [Next]_vars =>
        [hand' # hand /\ hand' # NoBuffer => Pinners(hand') = {}]_vars
  <2> SUFFICES ASSUME BufInv, Next, hand' # hand, hand' # NoBuffer
               PROVE  Pinners(hand') = {}
    OBVIOUS
  <2>1. PICK p \in Backends : get_free_buffer(p)
    BY DEF Next, spin_acquire, spin_release, AdoptBuffer, pin_buffer, unpin_buffer,
           INCR_BUFFER_REF_COUNT
  <2>2. hand' \in Queued
    BY <2>1, TakeStep
  <2> QED BY <2>2, RefcountStep, <2>1 DEF Queued
<1> QED BY <1>1, BufInvariant, PTL DEF Spec, TakenIsUnpinned

-----------------------------------------------------------------------------
(* Refinement: the walk along free_next is a queue (LruPool).              *)

\* The links follow s from the header h and back to it.
Path(h, s, n, next) ==
  \A i \in 0..n : next[At(h, s, n, i)] = At(h, s, n, i + 1)

\* The first n steps along the links.
IsWalk(w, n, h, next) ==
  w = [i \in 0..n |-> IF i = 0 THEN h ELSE next[w[i - 1]]]

\* The walk of FreeQueue is defined for any links.
LEMMA WalkDefined ==
  ASSUME NEW N \in Nat, NEW h, NEW next
  PROVE  \E w : IsWalk(w, N, h, next)
<1> DEFINE Walk(w, n) == IsWalk(w, n, h, next)
           Bad == {n \in Nat : ~\E w : Walk(w, n)}
<1>1. Bad = {}
  <2> SUFFICES ASSUME Bad # {} PROVE FALSE
    OBVIOUS
  <2>1. PICK n \in Bad : \A y \in Bad : n <= y
    <3>1. Bad \subseteq Nat
      OBVIOUS
    <3> HIDE DEF Bad
    <3> QED BY <3>1, Smallest
  <2>2. n # 0
    <3> DEFINE w == [i \in 0..0 |-> h]
    <3>1. \A i \in 0..0 : i = 0
      OBVIOUS
    <3>2. Walk(w, 0)
      BY <3>1 DEF IsWalk
    <3> QED BY <3>2, <2>1
  <2>3. n - 1 \in Nat /\ n \in Nat /\ ~(n <= n - 1)
    BY <2>2
  <2>4. PICK v : Walk(v, n - 1)
    BY <2>1, <2>3
  <2> DEFINE w == [i \in 0..n |-> IF i = n THEN next[v[n - 1]] ELSE v[i]]
  <2>5. \A i \in 0..n : i = n \/ i \in 0..(n - 1)
    BY <2>3
  <2>6. ASSUME NEW i \in 0..n
        PROVE  w[i] = IF i = 0 THEN h ELSE next[w[i - 1]]
    <3>1. i # 0 => i - 1 \in 0..n /\ i - 1 # n /\ i - 1 \in 0..(n - 1)
      BY <2>3
    <3>2. CASE i = n
      BY <2>2, <3>1, <3>2
    <3>3. CASE i \in 0..(n - 1) /\ i # n
      <4>1. w[i] = v[i] /\ v[i] = IF i = 0 THEN h ELSE next[v[i - 1]]
        BY <2>4, <3>3 DEF IsWalk
      <4> QED BY <3>1, <4>1
    <3> QED BY <2>5, <3>2, <3>3
  <2>7. Walk(w, n)
    <3>1. w = [i \in 0..n |-> w[i]]
      OBVIOUS
    <3> HIDE DEF w
    <3> QED BY <2>6, <3>1 DEF IsWalk
  <2> QED BY <2>1, <2>7
<1>2. N \notin Bad
  BY <1>1
<1> QED BY <1>2

\* It meets the members of the list in order.
LEMMA WalkMeets ==
  ASSUME NEW N \in Nat, NEW n \in 0..N, NEW h, NEW s, NEW next, Path(h, s, n, next),
         NEW w, IsWalk(w, N, h, next)
  PROVE  \A i \in 1..n : w[i] = s[i]
<1> DEFINE Bad == {i \in 0..n : w[i] # At(h, s, n, i)}
<1>1. Bad = {}
  <2> SUFFICES ASSUME Bad # {} PROVE FALSE
    OBVIOUS
  <2>1. PICK i \in Bad : \A y \in Bad : i <= y
    <3>1. Bad \subseteq Nat
      OBVIOUS
    <3> HIDE DEF Bad
    <3> QED BY <3>1, Smallest
  <2>2. i # 0
    <3>1. 0 \in 0..N /\ w[0] = h /\ At(h, s, n, 0) = h
      BY DEF At, IsWalk
    <3> QED BY <2>1, <3>1
  <2>3. i - 1 \in 0..n /\ i \in 0..N /\ (i - 1) + 1 = i /\ ~(i <= i - 1)
    BY <2>1, <2>2
  <2>4. w[i - 1] = At(h, s, n, i - 1)
    BY <2>1, <2>3
  <2>5. w[i] = next[At(h, s, n, i - 1)]
    BY <2>2, <2>3, <2>4 DEF IsWalk
  <2>6. w[i] = At(h, s, n, i)
    BY <2>3, <2>5 DEF Path
  <2> QED BY <2>1, <2>6
<1>2. \A i \in 1..n : i \in 0..n /\ At(h, s, n, i) = s[i]
  BY DEF At
<1> QED BY <1>1, <1>2

\* s without its member at position k, and with e behind its end.
Without(s, n, k) == [i \in 1..(n - 1) |-> IF i < k THEN s[i] ELSE s[i + 1]]
With(s, n, e) == [i \in 1..(n + 1) |-> IF i = n + 1 THEN e ELSE s[i]]

\* nx is next around e, which is taken out.
Bypassed(nx, next, prev, D, e) ==
  \A x \in D : x # e => nx[x] = IF x = prev[e] THEN next[e] ELSE next[x]

\* Taking out the member at position k, whatever becomes of its own link.
LEMMA PathWithout ==
  ASSUME NEW n \in Nat, NEW S, NEW h, h \notin S, NEW s \in [1..n -> S],
         Enumerates(s, n, S), NEW next, NEW prev, Linked(h, s, n, next, prev),
         NEW k \in 1..n, NEW nx,
         Bypassed(nx, next, prev, S \cup {h}, s[k])
  PROVE  Path(h, Without(s, n, k), n - 1, nx)
<1> DEFINE t == Without(s, n, k)
<1>0. \A x \in S \cup {h} :
        x # s[k] => nx[x] = IF x = prev[s[k]] THEN next[s[k]] ELSE next[x]
  BY DEF Bypassed
<1>1. n - 1 \in Nat /\ k \in Nat /\ k >= 1 /\ k <= n
  OBVIOUS
<1>2. /\ \A i \in 0..n : At(h, s, n, i) \in S \cup {h}
      /\ \A i, j \in 0..n : At(h, s, n, i) = At(h, s, n, j) => i = j
      /\ At(h, s, n, k) = s[k]
  BY DEF At, Enumerates
<1>3. /\ \A i \in 0..(k - 1) : At(h, t, n - 1, i) = At(h, s, n, i)
      /\ \A i \in k..n : At(h, t, n - 1, i) = At(h, s, n, i + 1)
  BY <1>1 DEF At, Without
<1> HIDE DEF t
<1>4. prev[s[k]] = At(h, s, n, k - 1) /\ next[s[k]] = At(h, s, n, k + 1)
  <2>1. k \in 0..n /\ k - 1 \in 0..n /\ (k - 1) + 1 = k
    BY <1>1
  <2> QED BY <2>1, <1>2 DEF Linked
<1>5. ASSUME NEW i \in 0..(n - 1)
      PROVE  nx[At(h, t, n - 1, i)] = At(h, t, n - 1, i + 1)
  <2>1. CASE i < k - 1
    <3>1. i \in 0..n /\ i \in 0..(k - 1) /\ i + 1 \in 0..(k - 1) /\ k - 1 \in 0..n /\ k \in 0..n
          /\ i # k - 1 /\ i # k
      BY <1>1, <2>1
    <3>2. At(h, s, n, i) # prev[s[k]] /\ At(h, s, n, i) # s[k]
      BY <1>2, <1>4, <3>1
    <3>3. nx[At(h, s, n, i)] = next[At(h, s, n, i)]
      BY <1>0, <1>2, <3>1, <3>2
    <3> QED BY <1>3, <3>1, <3>3 DEF Linked
  <2>2. CASE i = k - 1
    <3>1. i \in 0..n /\ i \in 0..(k - 1) /\ i + 1 = k /\ k \in k..n /\ k \in 0..n /\ i # k
      BY <1>1, <2>2
    <3>2. At(h, s, n, i) = prev[s[k]] /\ At(h, s, n, i) # s[k]
      BY <1>2, <1>4, <2>2, <3>1
    <3>3. nx[At(h, s, n, i)] = next[s[k]]
      BY <1>0, <1>2, <3>1, <3>2
    <3> QED BY <1>3, <1>4, <3>1, <3>3
  <2>3. CASE i > k - 1
    <3>1. i \in k..n /\ i + 1 \in k..n /\ i + 1 \in 0..n /\ i + 1 # k - 1 /\ i + 1 # k
          /\ k - 1 \in 0..n /\ k \in 0..n
      BY <1>1, <2>3
    <3>2. At(h, s, n, i + 1) # prev[s[k]] /\ At(h, s, n, i + 1) # s[k]
      BY <1>2, <1>4, <3>1
    <3>3. nx[At(h, s, n, i + 1)] = next[At(h, s, n, i + 1)]
      BY <1>0, <1>2, <3>1, <3>2
    <3> QED BY <1>3, <3>1, <3>3 DEF Linked
  <2> QED BY <1>1, <2>1, <2>2, <2>3
<1> QED BY <1>5 DEF Path, t

\* Putting a new member at the end.
LEMMA PathWith ==
  ASSUME NEW n \in Nat, NEW S, NEW h, h \notin S, NEW s \in [1..n -> S],
         Enumerates(s, n, S), NEW next, NEW prev, Linked(h, s, n, next, prev),
         NEW e, e \notin S, e # h, NEW nx,
         nx[e] = h, nx[prev[h]] = e,
         \A x \in S \cup {h} : x # prev[h] => nx[x] = next[x]
  PROVE  Path(h, With(s, n, e), n + 1, nx)
<1> DEFINE t == With(s, n, e)
<1>1. /\ \A i \in 0..n : At(h, s, n, i) \in S \cup {h} /\ At(h, t, n + 1, i) = At(h, s, n, i)
      /\ \A i, j \in 0..n : At(h, s, n, i) = At(h, s, n, j) => i = j
      /\ At(h, t, n + 1, n + 1) = e /\ At(h, t, n + 1, n + 2) = h
      /\ n \in 0..n /\ At(h, s, n, n + 1) = h
  BY DEF At, Enumerates, With
<1> HIDE DEF t
<1>2. prev[h] = At(h, s, n, n)
  BY <1>1 DEF Linked
<1>3. ASSUME NEW i \in 0..(n + 1)
      PROVE  nx[At(h, t, n + 1, i)] = At(h, t, n + 1, i + 1)
  <2>1. CASE i = n + 1
    <3>1. i + 1 = n + 2
      BY <2>1
    <3> QED BY <1>1, <2>1, <3>1
  <2>2. CASE i = n
    BY <1>1, <1>2, <2>2
  <2>3. CASE i < n
    <3>1. i \in 0..n /\ i + 1 \in 0..n /\ i # n
      BY <2>3
    <3>2. nx[At(h, s, n, i)] = next[At(h, s, n, i)]
      BY <1>1, <1>2, <3>1
    <3> QED BY <1>1, <3>1, <3>2 DEF Linked
  <2> QED BY <2>1, <2>2, <2>3
<1> QED BY <1>3 DEF Path, t

\* What RemoveAt (of SequencesExt) leaves of a sequence.
LEMMA RemoveAtIs ==
  ASSUME NEW S, NEW s \in Seq(S), NEW k \in 1..Len(s)
  PROVE  SubSeq(s, 1, k - 1) \o SubSeq(s, k + 1, Len(s))
         = Without(s, Len(s), k)
<1> DEFINE u == SubSeq(s, 1, k - 1)
           v == SubSeq(s, k + 1, Len(s))
           t == [i \in 1..(Len(s) - 1) |-> IF i < k THEN s[i] ELSE s[i + 1]]
<1>1. Len(s) \in Nat /\ k \in Nat /\ k >= 1 /\ k <= Len(s)
  BY LenProperties
<1>2. u \in Seq(S) /\ Len(u) = k - 1 /\ \A i \in 1..(k - 1) : u[i] = s[i]
  <2>1. 1 \in Int /\ k - 1 \in Int /\ \A i \in 1..(k - 1) : s[i] \in S
    BY <1>1, ElementOfSeq
  <2>2. Len(u) = (IF 1 <= k - 1 THEN (k - 1) - 1 + 1 ELSE 0) /\ u \in Seq(S)
    BY <2>1, SubSeqProperties
  <2>3. Len(u) = k - 1
    BY <1>1, <2>2
  <2>4. \A i \in 1..((k - 1) - 1 + 1) : u[i] = s[1 + i - 1]
    BY <2>1, SubSeqProperties
  <2>5. \A i \in 1..(k - 1) : i \in 1..((k - 1) - 1 + 1) /\ 1 + i - 1 = i
    BY <1>1
  <2> HIDE DEF u
  <2> QED BY <2>2, <2>3, <2>4, <2>5
<1>3. v \in Seq(S) /\ Len(v) = Len(s) - k /\ \A i \in 1..(Len(s) - k) : v[i] = s[k + i]
  <2>1. k + 1 \in Int /\ Len(s) \in Int /\ \A i \in (k + 1)..Len(s) : s[i] \in S
    BY <1>1, ElementOfSeq
  <2>2. Len(v) = (IF k + 1 <= Len(s) THEN Len(s) - (k + 1) + 1 ELSE 0) /\ v \in Seq(S)
    BY <2>1, SubSeqProperties
  <2>3. Len(v) = Len(s) - k
    BY <1>1, <2>2
  <2>4. \A i \in 1..(Len(s) - (k + 1) + 1) : v[i] = s[(k + 1) + i - 1]
    BY <2>1, SubSeqProperties
  <2>5. \A i \in 1..(Len(s) - k) : i \in 1..(Len(s) - (k + 1) + 1) /\ (k + 1) + i - 1 = k + i
    BY <1>1
  <2> HIDE DEF v
  <2> QED BY <2>2, <2>3, <2>4, <2>5
<1> HIDE DEF u, v
<1>4. /\ u \o v \in Seq(S) /\ Len(u \o v) = Len(s) - 1
      /\ \A i \in 1..(Len(s) - 1) :
           (u \o v)[i] = IF i <= k - 1 THEN u[i] ELSE v[i - (k - 1)]
  <2>1. Len(u) + Len(v) = Len(s) - 1
    BY <1>1, <1>2, <1>3
  <2>2. /\ u \o v \in Seq(S) /\ Len(u \o v) = Len(u) + Len(v)
        /\ \A i \in 1..(Len(u) + Len(v)) :
             (u \o v)[i] = IF i <= Len(u) THEN u[i] ELSE v[i - Len(u)]
    BY <1>2, <1>3, ConcatProperties
  <2>3. Len(u) = k - 1
    BY <1>2
  <2> QED BY <2>1, <2>2, <2>3
<1>5. ASSUME NEW i \in 1..(Len(s) - 1) PROVE (u \o v)[i] = t[i]
  <2>1. CASE i < k
    <3>1. i <= k - 1 /\ i \in 1..(k - 1)
      BY <1>1, <2>1
    <3> QED BY <1>2, <1>4, <2>1, <3>1
  <2>2. CASE ~(i < k)
    <3>1. ~(i <= k - 1) /\ i - (k - 1) \in 1..(Len(s) - k) /\ k + (i - (k - 1)) = i + 1
      BY <1>1, <2>2
    <3> QED BY <1>3, <1>4, <2>2, <3>1
  <2> QED BY <2>1, <2>2
<1>6. t \in [1..(Len(s) - 1) -> S]
  <2> SUFFICES ASSUME NEW i \in 1..(Len(s) - 1) PROVE t[i] \in S
    OBVIOUS
  <2>1. i \in 1..Len(s) /\ i + 1 \in 1..Len(s)
    BY <1>1
  <2> QED BY <2>1, ElementOfSeq
<1>7. u \o v \in [1..(Len(s) - 1) -> S]
  BY <1>4, LenProperties
<1> HIDE DEF t
<1>8. u \o v = t
  BY <1>5, <1>6, <1>7, SMTT(120)
<1> QED BY <1>8 DEF u, v, t, Without

\* A function on 1..n is a sequence of length n.
LEMMA FunctionIsSeq ==
  ASSUME NEW S, NEW n \in Nat, NEW s \in [1..n -> S]
  PROVE  s \in Seq(S) /\ Len(s) = n /\ DOMAIN s = 1..n
OBVIOUS

\* FreeQueue is any sequence that the links follow.
LEMMA FreeQueueIs ==
  ASSUME NEW n \in 0..NBuffers, Cardinality(BM_FREE) = n, NEW s \in [1..n -> Buffers],
         Path(Free_List_Descriptor, s, n, free_next)
  PROVE  FreeQueue = s
<1> DEFINE w == CHOOSE v : v = [j \in 0..NBuffers |->
                                 IF j = 0 THEN Free_List_Descriptor ELSE free_next[v[j - 1]]]
<1>1. NBuffers \in Nat
  BY BufAssumption
<1>2. FreeQueue = [i \in 1..n |-> w[i]]
  BY DEF FreeQueue
<1>3. PICK v : IsWalk(v, NBuffers, Free_List_Descriptor, free_next)
  BY <1>1, WalkDefined
<1>4. IsWalk(w, NBuffers, Free_List_Descriptor, free_next)
  BY <1>3 DEF IsWalk
<1> HIDE DEF w
<1>5. \A i \in 1..n : w[i] = s[i]
  BY <1>1, <1>4, WalkMeets
<1>6. [i \in 1..n |-> w[i]] = s
  BY <1>5
<1> QED BY <1>2, <1>6

\* The same after a step.
LEMMA FreeQueueBecomes ==
  ASSUME NEW n \in 0..NBuffers, Cardinality(BM_FREE') = n, NEW s \in [1..n -> Buffers],
         Path(Free_List_Descriptor, s, n, free_next')
  PROVE  FreeQueue' = s
<1> DEFINE w == CHOOSE v : v = [j \in 0..NBuffers |->
                                 IF j = 0 THEN Free_List_Descriptor ELSE free_next'[v[j - 1]]]
<1>1. NBuffers \in Nat
  BY BufAssumption
<1>2. FreeQueue' = [i \in 1..n |-> w[i]]
  BY DEF FreeQueue
<1>3. PICK v : IsWalk(v, NBuffers, Free_List_Descriptor, free_next')
  BY <1>1, WalkDefined
<1>4. IsWalk(w, NBuffers, Free_List_Descriptor, free_next')
  BY <1>3 DEF IsWalk
<1> HIDE DEF w
<1>5. \A i \in 1..n : w[i] = s[i]
  BY <1>1, <1>4, WalkMeets
<1>6. [i \in 1..n |-> w[i]] = s
  BY <1>5
<1> QED BY <1>2, <1>6

\* There are NBuffers buffers.
LEMMA BuffersCount == IsFiniteSet(Buffers) /\ Cardinality(Buffers) = NBuffers
<1>1. NBuffers \in Nat \ {0} /\ 0 \in Int /\ NBuffers - 1 \in Int
  BY BufAssumption
<1>2. IsFiniteSet(0..(NBuffers - 1))
      /\ Cardinality(0..(NBuffers - 1)) = IF 0 > NBuffers - 1 THEN 0 ELSE (NBuffers - 1) - 0 + 1
  BY <1>1, FS_Interval
<1> QED BY <1>1, <1>2 DEF Buffers

\* The queue of a pool that is in order.
LEMMA QueueFacts ==
  ASSUME BufInv
  PROVE  /\ BM_FREE = Queued
         /\ \E n \in 0..NBuffers : \E s \in [1..n -> Queued] :
              /\ n = Cardinality(Queued) /\ Enumerates(s, n, Queued)
              /\ Linked(Free_List_Descriptor, s, n, free_next, free_prev)
              /\ FreeQueue = s
<1>1. BM_FREE = Queued
  BY DEF BufInv, TypeOK, QueueAssertions, Queued
<1>2. Cardinality(Queued) \in 0..NBuffers
  <2>1. NBuffers \in Nat \ {0}
    BY BufAssumption
  <2>2. IsFiniteSet(Buffers) /\ Cardinality(Buffers) = NBuffers
    BY BuffersCount
  <2>3. Cardinality(Queued) <= NBuffers /\ Cardinality(Queued) \in Nat
    BY <2>2, QueuedFinite, FS_Subset, FS_CardinalityType
  <2> QED BY <2>1, <2>3
<1>3. PICK n \in 0..NBuffers : n = Cardinality(Queued)
  BY <1>2
<1>4. PICK s \in [1..n -> Queued] :
        Enumerates(s, n, Queued) /\ Linked(Free_List_Descriptor, s, n, free_next, free_prev)
  BY <1>3 DEF BufInv, QueueHoldsUnpinned, Queued, IsRing
<1>5. Path(Free_List_Descriptor, s, n, free_next)
  BY <1>4 DEF Linked, Path
<1>6. s \in [1..n -> Buffers]
  BY <1>4, QueuedFinite
<1>7. FreeQueue = s
  BY <1>1, <1>3, <1>5, <1>6, FreeQueueIs
<1> QED BY <1>1, <1>3, <1>4, <1>7

\* What RemoveFromFreelist does to the queue: its member b leaves, and that
\* is the first one when the header's link led to it.
LEMMA QueueRemoves ==
  ASSUME BufInv, NEW b \in Queued, RemoveFromFreelist(b)
  PROVE  /\ FreeQueue \in Seq(Buffers)
         /\ \E k \in 1..Len(FreeQueue) :
              /\ FreeQueue[k] = b
              /\ b = free_next[Free_List_Descriptor] => k = 1
              /\ FreeQueue' = Without(FreeQueue, Len(FreeQueue), k)
<1> DEFINE h == Free_List_Descriptor
<1>1. /\ BM_FREE = Queued
      /\ \E n \in 0..NBuffers : \E s \in [1..n -> Queued] :
              /\ n = Cardinality(Queued) /\ Enumerates(s, n, Queued)
              /\ Linked(h, s, n, free_next, free_prev)
              /\ FreeQueue = s
  BY QueueFacts
<1>2. PICK n \in 0..NBuffers : \E s \in [1..n -> Queued] :
              /\ n = Cardinality(Queued) /\ Enumerates(s, n, Queued)
              /\ Linked(h, s, n, free_next, free_prev)
              /\ FreeQueue = s
  BY <1>1
<1>3. PICK s \in [1..n -> Queued] :
              /\ n = Cardinality(Queued) /\ Enumerates(s, n, Queued)
              /\ Linked(h, s, n, free_next, free_prev)
              /\ FreeQueue = s
  BY <1>2
<1>4. n \in Nat /\ NBuffers \in Nat /\ n <= NBuffers
  BY Constants
<1>5. s \in Seq(Buffers) /\ Len(s) = n
  <2>1. s \in [1..n -> Buffers]
    BY QueuedFinite
  <2> QED BY <1>4, <2>1, FunctionIsSeq
<1>6. PICK k \in 1..n : s[k] = b
  BY <1>3 DEF Enumerates
<1>7. n - 1 \in 0..NBuffers /\ Cardinality(BM_FREE') = n - 1
  <2>1. n - 1 \in 0..NBuffers
    BY <1>4, <1>6
  <2>2. BM_FREE' = Queued \ {b}
    BY <1>1 DEF RemoveFromFreelist
  <2>3. Cardinality(Queued \ {b}) = Cardinality(Queued) - 1
    BY QueuedFinite, FS_RemoveElement
  <2> QED BY <1>3, <2>1, <2>2, <2>3
<1>8. Bypassed(free_next', free_next, free_prev, Queued \cup {h}, s[k])
  <2>1. free_next' = [NextUnlinked(free_next, free_prev, b) EXCEPT ![b] = INVALID_DESCRIPTOR]
    BY DEF RemoveFromFreelist
  <2>2. Queued \cup {h} \subseteq Descriptors
    BY QueuedFinite, Constants
  <2>3. free_next \in [Descriptors -> Descriptors \cup {INVALID_DESCRIPTOR}]
    BY DEF BufInv, TypeOK
  <2> HIDE DEF h
  <2> QED BY <1>6, <2>1, <2>2, <2>3 DEF NextUnlinked, Bypassed
<1>9. h \notin Queued
  BY QueuedFinite
<1>10. Path(h, Without(s, n, k), n - 1, free_next')
  <2> HIDE DEF h
  <2> QED BY <1>3, <1>4, <1>8, <1>9, PathWithout
<1>11. Without(s, n, k) \in [1..(n - 1) -> Buffers]
  <2> SUFFICES ASSUME NEW i \in 1..(n - 1)
               PROVE  (IF i < k THEN s[i] ELSE s[i + 1]) \in Buffers
    BY DEF Without
  <2>1. i \in 1..n /\ i + 1 \in 1..n
    BY <1>4
  <2> QED BY <2>1, QueuedFinite
<1>12. FreeQueue' = Without(s, n, k)
  BY <1>7, <1>10, <1>11, FreeQueueBecomes
<1>13. b = free_next[h] => k = 1
  <2> SUFFICES ASSUME b = free_next[h] PROVE k = 1
    OBVIOUS
  <2>1. 0 \in 0..n /\ 1 \in 1..n /\ 0 + 1 = 1
    BY <1>4, <1>6
  <2>2. free_next[At(h, s, n, 0)] = At(h, s, n, 1)
    BY <1>3, <2>1 DEF Linked
  <2>3. At(h, s, n, 0) = h /\ At(h, s, n, 1) = s[1]
    BY <2>1 DEF At
  <2> QED BY <1>3, <1>6, <2>1, <2>2, <2>3 DEF Enumerates
<1> QED BY <1>3, <1>5, <1>6, <1>12, <1>13

\* What add_buffer_to_freelist does to the queue: b is its newest member.
LEMMA QueueAppends ==
  ASSUME BufInv, NEW b \in Buffers, b \notin Queued, add_buffer_to_freelist(b),
         BM_FREE' = BM_FREE \cup {b}
  PROVE  FreeQueue' = Append(FreeQueue, b)
<1> DEFINE h == Free_List_Descriptor
<1>1. /\ BM_FREE = Queued
      /\ \E n \in 0..NBuffers : \E s \in [1..n -> Queued] :
              /\ n = Cardinality(Queued) /\ Enumerates(s, n, Queued)
              /\ Linked(h, s, n, free_next, free_prev)
              /\ FreeQueue = s
  BY QueueFacts
<1>2. PICK n \in 0..NBuffers : \E s \in [1..n -> Queued] :
              /\ n = Cardinality(Queued) /\ Enumerates(s, n, Queued)
              /\ Linked(h, s, n, free_next, free_prev)
              /\ FreeQueue = s
  BY <1>1
<1>3. PICK s \in [1..n -> Queued] :
              /\ n = Cardinality(Queued) /\ Enumerates(s, n, Queued)
              /\ Linked(h, s, n, free_next, free_prev)
              /\ FreeQueue = s
  BY <1>2
<1>4. n \in Nat /\ NBuffers \in Nat /\ n <= NBuffers
  BY Constants
<1>5. s \in Seq(Buffers) /\ Len(s) = n /\ s \in [1..n -> Buffers]
  <2>1. s \in [1..n -> Buffers]
    BY QueuedFinite
  <2> QED BY <1>4, <2>1, FunctionIsSeq
<1>6. n + 1 \in 0..NBuffers /\ Cardinality(BM_FREE') = n + 1
  <2>1. BM_FREE' = Queued \cup {b}
    BY <1>1
  <2>2. Cardinality(Queued \cup {b}) = Cardinality(Queued) + 1
    BY QueuedFinite, FS_AddElement
  <2>3. Queued \cup {b} \subseteq Buffers
    BY QueuedFinite
  <2>4. IsFiniteSet(Buffers) /\ Cardinality(Buffers) = NBuffers
    BY BuffersCount
  <2>5. Cardinality(Queued \cup {b}) <= NBuffers
    BY <2>3, <2>4, FS_Subset
  <2>6. n = Cardinality(Queued)
    BY <1>3
  <2>7. Cardinality(Queued \cup {b}) = n + 1 /\ n + 1 <= NBuffers
    BY <2>2, <2>5, <2>6
  <2>8. n + 1 \in 0..NBuffers
    <3>1. n + 1 <= NBuffers
      BY <2>7
    <3> QED BY <1>4, <3>1
  <2>9. Cardinality(BM_FREE') = n + 1
    BY <2>1, <2>7, Zenon
  <2> QED BY <2>8, <2>9
<1>7. free_prev[h] \in Queued \cup {h}
  <2>1. n \in 0..n
    BY <1>4
  <2>2. free_prev[At(h, s, n, n + 1)] = At(h, s, n, n)
    BY <1>3, <2>1 DEF Linked
  <2>3. At(h, s, n, n + 1) = h /\ At(h, s, n, n) \in Queued \cup {h}
    BY <1>4 DEF At
  <2> QED BY <2>2, <2>3
<1>8. b # h /\ h \notin Queued
  BY QueuedFinite, Constants
<1>9. /\ free_next'[b] = h /\ free_next'[free_prev[h]] = b
      /\ \A x \in Queued \cup {h} : x # free_prev[h] => free_next'[x] = free_next[x]
  <2>1. free_next' = [free_next EXCEPT ![b] = h, ![free_prev[h]] = b]
    BY DEF add_buffer_to_freelist, NextAppended
  <2>2. Queued \cup {h} \subseteq Descriptors /\ b \in Descriptors
    BY QueuedFinite, Constants
  <2>3. free_next \in [Descriptors -> Descriptors \cup {INVALID_DESCRIPTOR}]
    BY DEF BufInv, TypeOK
  <2>4. b # free_prev[h] /\ free_prev[h] \in Descriptors
    BY <1>7, <1>8, <2>2
  <2> HIDE DEF h
  <2> QED BY <1>7, <1>8, <2>1, <2>2, <2>3, <2>4
<1>10. Path(h, With(s, n, b), n + 1, free_next')
  <2> HIDE DEF h
  <2> QED BY <1>3, <1>4, <1>8, <1>9, PathWith, SMTT(60)
<1>11. With(s, n, b) \in [1..(n + 1) -> Buffers]
  <2> SUFFICES ASSUME NEW i \in 1..(n + 1)
               PROVE  (IF i = n + 1 THEN b ELSE s[i]) \in Buffers
    BY DEF With
  <2>1. i # n + 1 => i \in 1..n
    BY <1>4
  <2> QED BY <2>1, <1>5
<1>12. FreeQueue' = With(s, n, b)
  BY <1>6, <1>10, <1>11, FreeQueueBecomes
<1>13. Append(s, b) = With(s, n, b)
  <2>1. /\ Append(s, b) \in Seq(Buffers) /\ Len(Append(s, b)) = n + 1
        /\ \A i \in 1..n : Append(s, b)[i] = s[i]
        /\ Append(s, b)[n + 1] = b
    BY <1>5, AppendProperties
  <2>2. Append(s, b) \in [1..(n + 1) -> Buffers]
    BY <2>1, LenProperties
  <2>3. \A i \in 1..(n + 1) : With(s, n, b)[i] = IF i = n + 1 THEN b ELSE s[i]
    BY DEF With
  <2>4. \A i \in 1..(n + 1) : i # n + 1 => i \in 1..n
    BY <1>4
  <2> QED BY <1>11, <2>1, <2>2, <2>3, <2>4
<1> QED BY <1>3, <1>12, <1>13

-----------------------------------------------------------------------------
(* The queue of LruPool is what a walk along the links meets.              *)

\* Nobody has a buffer pinned exactly when its shared count is zero.
LEMMA UnpinnedIs ==
  ASSUME BufInv, NEW b \in Buffers
  PROVE  Pool!Unpinned(PrivateRefCount, b) <=> refcount[b] = 0
<1>1. refcount[b] = Cardinality(Pinners(b))
  BY DEF BufInv, RefcountCountsBackends
<1>2. refcount[b] = 0 <=> Pinners(b) = {}
  BY <1>1, PinnersFinite
<1>3. \A p \in Backends : PrivateRefCount[p][b] \in Nat
  BY DEF BufInv, TypeOK
<1> QED BY <1>2, <1>3 DEF Pool!Unpinned, Pinners

\* The same after a step.
LEMMA UnpinnedBecomes ==
  ASSUME BufInv', NEW b \in Buffers
  PROVE  Pool!Unpinned(PrivateRefCount', b) <=> refcount'[b] = 0
<1>1. refcount'[b] = Cardinality(Pinners(b)')
  BY DEF BufInv, RefcountCountsBackends
<1>2. Pinners(b)' \subseteq Backends
  BY DEF Pinners
<1>3. IsFiniteSet(Pinners(b)')
  BY <1>2, BufAssumption, FS_Subset
<1>4. refcount'[b] = 0 <=> Pinners(b)' = {}
  BY <1>1, <1>3, FS_EmptySet
<1>5. \A p \in Backends : PrivateRefCount'[p][b] \in Nat
  BY DEF BufInv, TypeOK
<1> QED BY <1>4, <1>5 DEF Pool!Unpinned, Pinners

\* A buffer is a member of the queue exactly when it is queued.
LEMMA QueueMembers ==
  ASSUME BufInv
  PROVE  /\ FreeQueue \in Seq(Buffers)
         /\ Pool!Range(FreeQueue) = Queued
         /\ Queued # {} => FreeQueue # <<>>
<1>1. \E n \in 0..NBuffers : \E s \in [1..n -> Queued] :
              /\ n = Cardinality(Queued) /\ Enumerates(s, n, Queued)
              /\ FreeQueue = s
  BY QueueFacts
<1>2. PICK n \in 0..NBuffers : \E s \in [1..n -> Queued] :
              n = Cardinality(Queued) /\ Enumerates(s, n, Queued) /\ FreeQueue = s
  BY <1>1
<1>3. PICK s \in [1..n -> Queued] :
              n = Cardinality(Queued) /\ Enumerates(s, n, Queued) /\ FreeQueue = s
  BY <1>2
<1>4. n \in Nat
  BY Constants
<1>5. s \in [1..n -> Buffers]
  BY QueuedFinite
<1>6. s \in Seq(Buffers) /\ DOMAIN s = 1..n /\ Len(s) = n
  BY <1>4, <1>5, FunctionIsSeq
<1>7. \A x \in Queued : \E i \in 1..n : s[i] = x
  BY <1>3 DEF Enumerates
<1>8. Pool!Range(s) = Queued
  BY <1>6, <1>7 DEF Pool!Range
<1>9. Queued # {} => s # <<>>
  BY <1>6, <1>7
<1> QED BY <1>3, <1>6, <1>8, <1>9

\* The queue starts with all the buffers in it.
LEMMA InitRefines == Init => Pool!Init
<1> SUFFICES ASSUME Init PROVE Pool!Init
  OBVIOUS
<1>1. BufInv
  BY InitInv
<1>2. Queued = Buffers
  BY Constants DEF Init, Queued
<1>3. FreeQueue \in Pool!SetToSeqs(Buffers)
  <2>1. \E n \in 0..NBuffers : \E s \in [1..n -> Queued] :
              /\ n = Cardinality(Queued) /\ Enumerates(s, n, Queued)
              /\ FreeQueue = s
    BY <1>1, QueueFacts
  <2>2. PICK n \in 0..NBuffers : \E s \in [1..n -> Buffers] :
              n = Cardinality(Buffers) /\ Enumerates(s, n, Buffers) /\ FreeQueue = s
    BY <1>2, <2>1
  <2>3. PICK s \in [1..n -> Buffers] :
              n = Cardinality(Buffers) /\ Enumerates(s, n, Buffers) /\ FreeQueue = s
    BY <2>2
  <2>4. \A i, j \in 1..n : s[i] = s[j] => i = j
    BY <2>3 DEF Enumerates
  <2>5. /\ s \in [1..Cardinality(Buffers) -> Buffers]
        /\ \A i, j \in 1..Cardinality(Buffers) : i # j => s[i] # s[j]
    BY <2>3, <2>4, Zenon
  <2>6. Pool!Cardinality(Buffers) = Cardinality(Buffers)
    BY DEF Pool!Cardinality, Cardinality
  <2>7. s \in Pool!SetToSeqs(Buffers)
    BY <2>5, <2>6, Zenon DEF Pool!SetToSeqs
  <2> QED BY <2>3, <2>7
<1> QED BY <1>3 DEF Init, Pool!Init

\* pin_buffer pins, and the buffer leaves the queue if it was in it.
LEMMA PinRefines ==
  ASSUME BufInv, NEW p \in Backends, NEW b \in Buffers, pin_buffer(p, b)
  PROVE  Pool!Pin(p, b)
<1>1. /\ hand # b /\ UNCHANGED hand
      /\ PrivateRefCount' = [PrivateRefCount EXCEPT ![p][b] = @ + 1]
  BY DEF pin_buffer
<1>2. CASE refcount[b] = 0
  <2>1. b \in Queued
    BY <1>1, <1>2 DEF Queued
  <2>2. RemoveFromFreelist(b)
    BY <1>2 DEF pin_buffer
  <2>3. /\ FreeQueue \in Seq(Buffers)
        /\ \E k \in 1..Len(FreeQueue) :
              /\ FreeQueue[k] = b
              /\ FreeQueue' = Without(FreeQueue, Len(FreeQueue), k)
    BY <2>1, <2>2, QueueRemoves
  <2>4. PICK k \in 1..Len(FreeQueue) :
              /\ FreeQueue[k] = b
              /\ FreeQueue' = Without(FreeQueue, Len(FreeQueue), k)
    BY <2>3
  <2>5. FreeQueue' = Pool!RemoveAt(FreeQueue, k)
    BY <2>3, <2>4, RemoveAtIs DEF Pool!RemoveAt
  <2>6. k \in DOMAIN FreeQueue
    BY <2>3, LenProperties
  <2> QED BY <1>1, <2>4, <2>5, <2>6 DEF Pool!Pin
<1>3. CASE refcount[b] # 0
  <2>1. UNCHANGED <<linkVars, BM_FREE>>
    BY <1>3 DEF pin_buffer
  <2>2. FreeQueue' = FreeQueue
    BY <2>1 DEF FreeQueue, linkVars
  <2>3. b \notin Pool!Range(FreeQueue)
    BY <1>3, QueueMembers DEF Queued
  <2> QED BY <1>1, <2>2, <2>3 DEF Pool!Pin
<1> QED BY <1>2, <1>3

\* So does INCR_BUFFER_REF_COUNT, on a buffer that is not in the queue.
LEMMA IncrRefines ==
  ASSUME BufInv, NEW p \in Backends, NEW b \in Buffers, INCR_BUFFER_REF_COUNT(p, b)
  PROVE  Pool!Pin(p, b)
<1>1. /\ UNCHANGED <<linkVars, BM_FREE, hand>> /\ PrivateRefCount[p][b] > 0
      /\ PrivateRefCount' = [PrivateRefCount EXCEPT ![p][b] = @ + 1]
  BY DEF INCR_BUFFER_REF_COUNT
<1>2. refcount[b] # 0
  BY <1>1, RefcountStep
<1>3. hand # b
  BY <1>2, Constants DEF BufInv
<1>4. FreeQueue' = FreeQueue
  BY <1>1 DEF FreeQueue, linkVars
<1>5. b \notin Pool!Range(FreeQueue)
  BY <1>2, QueueMembers DEF Queued
<1> QED BY <1>1, <1>3, <1>4, <1>5 DEF Pool!Pin

\* unpin_buffer gives up a pin, and the last one makes the buffer the newest.
LEMMA UnpinRefines ==
  ASSUME BufInv, BufInv', NEW p \in Backends, NEW b \in Buffers, unpin_buffer(p, b)
  PROVE  Pool!Unpin(p, b)
<1>1. /\ UNCHANGED hand /\ PrivateRefCount[p][b] > 0
      /\ PrivateRefCount' = [PrivateRefCount EXCEPT ![p][b] = @ - 1]
  BY DEF unpin_buffer
<1>2. refcount[b] # 0
  BY <1>1, RefcountStep
<1>3. b \notin Queued
  BY <1>2 DEF Queued
<1>4. FreeQueue' = IF Pool!Unpinned(PrivateRefCount', b) THEN Append(FreeQueue, b)
                                                         ELSE FreeQueue
  <2>1. CASE refcount'[b] = 0
    <3>1. add_buffer_to_freelist(b) /\ BM_FREE' = BM_FREE \cup {b}
      BY <2>1 DEF unpin_buffer
    <3>2. FreeQueue' = Append(FreeQueue, b)
      BY <1>3, <3>1, QueueAppends
    <3> QED BY <2>1, <3>2, UnpinnedBecomes
  <2>2. CASE refcount'[b] # 0
    <3>1. UNCHANGED <<linkVars, BM_FREE>>
      BY <2>2 DEF unpin_buffer
    <3>2. FreeQueue' = FreeQueue
      BY <3>1 DEF FreeQueue, linkVars
    <3> QED BY <2>2, <3>2, UnpinnedBecomes
  <2> QED BY <2>1, <2>2
<1> QED BY <1>1, <1>4 DEF Pool!Unpin

\* get_free_buffer takes the head of the queue.
LEMMA TakeRefines ==
  ASSUME BufInv, NEW p \in Backends, get_free_buffer(p)
  PROVE  Pool!Take
<1>1. /\ hand = NoBuffer /\ hand' = free_next[Free_List_Descriptor]
      /\ RemoveFromFreelist(free_next[Free_List_Descriptor])
      /\ PrivateRefCount' = PrivateRefCount
  BY DEF get_free_buffer, pinVars
<1>2. PICK b \in Queued : b = hand'
  BY TakeStep
<1>3. b = free_next[Free_List_Descriptor] /\ RemoveFromFreelist(b)
  BY <1>1, <1>2
<1>4. /\ FreeQueue \in Seq(Buffers)
      /\ \E k \in 1..Len(FreeQueue) :
            /\ FreeQueue[k] = b /\ k = 1
            /\ FreeQueue' = Without(FreeQueue, Len(FreeQueue), k)
  BY <1>3, QueueRemoves
<1>5. /\ FreeQueue[1] = b /\ 1 \in 1..Len(FreeQueue)
      /\ FreeQueue' = Without(FreeQueue, Len(FreeQueue), 1)
  BY <1>4
<1>6. FreeQueue # <<>>
  BY <1>2, QueueMembers
<1> DEFINE n == Len(FreeQueue)
<1>7. /\ Head(FreeQueue) = FreeQueue[1]
      /\ Tail(FreeQueue) \in Seq(Buffers) /\ Len(Tail(FreeQueue)) = n - 1
      /\ \A i \in 1..(n - 1) : Tail(FreeQueue)[i] = FreeQueue[i + 1]
  BY <1>4, <1>6, HeadTailProperties
<1>8. Tail(FreeQueue) = Without(FreeQueue, n, 1)
  <2>1. n \in Nat
    BY <1>4, LenProperties
  <2>2. DOMAIN Tail(FreeQueue) = 1..(n - 1) /\ Tail(FreeQueue) \in [1..(n - 1) -> Buffers]
    BY <1>7, LenProperties
  <2>3. \A i \in 1..(n - 1) : Without(FreeQueue, n, 1)[i] = FreeQueue[i + 1]
    BY <2>1 DEF Without
  <2>4. Without(FreeQueue, n, 1) \in [1..(n - 1) -> Buffers]
    <3> SUFFICES ASSUME NEW i \in 1..(n - 1)
                 PROVE  (IF i < 1 THEN FreeQueue[i] ELSE FreeQueue[i + 1]) \in Buffers
      BY DEF Without
    <3>1. ~(i < 1) /\ i + 1 \in 1..n
      BY <2>1
    <3> QED BY <1>4, <3>1, ElementOfSeq
  <2> QED BY <1>7, <2>2, <2>3, <2>4
<1> QED BY <1>1, <1>2, <1>5, <1>6, <1>7, <1>8 DEF Pool!Take

\* Every step of freelist.c is a step of the pool or invisible to it.
LEMMA NextRefines == BufInv /\ BufInv' /\ [Next]_vars => [Pool!Next]_(Pool!vars)
<1> SUFFICES ASSUME BufInv, BufInv', [Next]_vars PROVE [Pool!Next]_(Pool!vars)
  OBVIOUS
<1>1. ASSUME NEW p \in Backends, spin_acquire(p) \/ spin_release(p)
      PROVE  UNCHANGED Pool!vars
  <2>1. UNCHANGED <<linkVars, BM_FREE, pinVars, hand>>
    BY <1>1 DEF spin_acquire, spin_release
  <2>2. FreeQueue' = FreeQueue
    BY <2>1 DEF FreeQueue, linkVars
  <2> QED BY <2>1, <2>2 DEF Pool!vars, pinVars
<1>2. ASSUME NEW p \in Backends, get_free_buffer(p) PROVE Pool!Next
  BY <1>2, TakeRefines DEF Pool!Next
<1>3. ASSUME NEW p \in Backends, AdoptBuffer(p) PROVE Pool!Next
  <2>1. FreeQueue' = FreeQueue
    BY <1>3 DEF AdoptBuffer, FreeQueue, linkVars
  <2>2. Pool!Adopt(p)
    BY <1>3, <2>1 DEF AdoptBuffer, Pool!Adopt
  <2> QED BY <2>2 DEF Pool!Next
<1>4. ASSUME NEW p \in Backends, NEW b \in Buffers, pin_buffer(p, b) PROVE Pool!Next
  <2>1. Pool!Pin(p, b)
    BY <1>4, PinRefines
  <2> QED BY <2>1 DEF Pool!Next
<1>5. ASSUME NEW p \in Backends, NEW b \in Buffers, unpin_buffer(p, b) PROVE Pool!Next
  <2>1. Pool!Unpin(p, b)
    BY <1>5, UnpinRefines
  <2> QED BY <2>1 DEF Pool!Next
<1>6. ASSUME NEW p \in Backends, NEW b \in Buffers, INCR_BUFFER_REF_COUNT(p, b)
      PROVE  Pool!Next
  <2>1. Pool!Pin(p, b)
    BY <1>6, IncrRefines
  <2> QED BY <2>1 DEF Pool!Next
<1>7. CASE UNCHANGED vars
  BY <1>7 DEF vars, Pool!vars, FreeQueue, linkVars, pinVars
<1>8. CASE Next
  BY <1>8, <1>1, <1>2, <1>3, <1>4, <1>5, <1>6 DEF Next
<1> QED BY <1>7, <1>8

\* freelist.c implements the least-recently-unpinned pool, for any number of
\* buffers and backends: the links, the flags, the shared and the private
\* counts together behave as one queue.
THEOREM PoolIsImplemented == Spec => ImplementsLruPool
BY BufInvariant, InitRefines, NextRefines, PTL DEF Spec, ImplementsLruPool, Pool!Spec
=============================================================================
