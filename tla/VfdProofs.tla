------------------------------ MODULE VfdProofs -----------------------------
(***************************************************************************)
(* The VFD cache of fd.c keeps its ring, its free list and its count of    *)
(* descriptors consistent, for every size of the array and every limit on  *)
(* descriptors, whatever fails and in whatever order.                      *)
(***************************************************************************)
EXTENDS Vfd, RingProofs

\* Which entries the sets may hold and what cur stands for in each call.
Shape ==
  /\ named \subseteq 1..(size - 1)
  /\ open \subseteq named
  /\ pc \in OpenCalls => cur \in 1..(size - 1) /\ cur \notin named
  /\ pc \in ReopenCalls => cur \in named
  /\ pc \in {"closeall", "eoxact"} => cur >= 1

\* The inductive invariant: a victim of release_lru_file is in the ring only
\* because the ring holds open files, an entry taken from the free list is
\* outside the ring only because the free list holds unused ones, and the
\* count is positive exactly when the ring is not empty.
VfdInv ==
  /\ TypeOK
  /\ Shape
  /\ RingHoldsOpenFiles
  /\ NFileCounts
  /\ FreeListHoldsUnused

\* Every set of entries is finite.
LEMMA FilesFinite == ASSUME NEW S \in SUBSET File PROVE IsFiniteSet(S)
<1>1. IsFiniteSet(0..MaxVfd)
  BY VfdAssumption, FS_Interval
<1> QED BY <1>1, FS_Subset DEF File

\* What the proofs use of the type of open.
LEMMA OpenFinite ==
  ASSUME TypeOK
  PROVE  0 \in File /\ open \subseteq File /\ IsFiniteSet(open)
<1>1. open \in SUBSET File
  BY DEF TypeOK
<1>2. 0 \in File
  BY VfdAssumption DEF File
<1> QED BY <1>1, <1>2, FilesFinite

-----------------------------------------------------------------------------
(* The ring under the three things that are done to it.                    *)

\* insert makes a closed entry the newest member of the ring.
LEMMA InsertRing ==
  ASSUME TypeOK, RingHoldsOpenFiles, 0 \notin open,
         NEW f \in File, f # 0, f \notin open, insert(f), open' = open \cup {f}
  PROVE  RingHoldsOpenFiles' /\ more' \in [File -> File] /\ less' \in [File -> File]
<1>1. 0 \in File /\ open \subseteq File /\ IsFiniteSet(open)
  BY OpenFinite
<1>2. more \in [File -> File] /\ less \in [File -> File]
  BY DEF TypeOK
<1>3. IsRing(0, open \cup {f}, NextAppended(more, less, 0, f),
                               PrevAppended(more, less, 0, f))
  BY <1>1, <1>2, RingAppend DEF RingHoldsOpenFiles
<1> QED
  BY <1>1, <1>2, <1>3 DEF RingHoldsOpenFiles, insert, NextAppended, PrevAppended

\* delete takes an open entry, and only that one, out of the ring.
LEMMA DeleteRing ==
  ASSUME TypeOK, RingHoldsOpenFiles, 0 \notin open,
         NEW f \in open, delete(f), open' = open \ {f}
  PROVE  RingHoldsOpenFiles' /\ more' \in [File -> File] /\ less' \in [File -> File]
<1>1. 0 \in File /\ open \subseteq File /\ IsFiniteSet(open)
  BY OpenFinite
<1>2. more \in [File -> File] /\ less \in [File -> File]
  BY DEF TypeOK
<1>3. IsRing(0, open \ {f}, NextUnlinked(more, less, f),
                            PrevUnlinked(more, less, f))
  BY <1>1, <1>2, RingUnlink DEF RingHoldsOpenFiles
<1> QED
  BY <1>1, <1>2, <1>3 DEF RingHoldsOpenFiles, delete, NextUnlinked, PrevUnlinked

\* Moving an open entry to the front changes the order and nothing else.
LEMMA MoveRing ==
  ASSUME TypeOK, RingHoldsOpenFiles, 0 \notin open,
         NEW f \in open, MoveToFront(f), open' = open
  PROVE  RingHoldsOpenFiles' /\ more' \in [File -> File] /\ less' \in [File -> File]
<1>1. /\ 0 \in File /\ open \subseteq File /\ IsFiniteSet(open)
      /\ IsFiniteSet(open \ {f})
  BY OpenFinite, FS_Subset
<1>2. more \in [File -> File] /\ less \in [File -> File]
  BY DEF TypeOK
<1>3. CASE less[0] = f
  BY <1>2, <1>3 DEF MoveToFront, RingHoldsOpenFiles, lruVars
<1>4. CASE less[0] # f
  <2> DEFINE m == NextUnlinked(more, less, f)
             l == PrevUnlinked(more, less, f)
  <2>1. IsRing(0, open \ {f}, m, l)
    BY <1>1, <1>2, RingUnlink DEF RingHoldsOpenFiles
  <2>2. m \in [File -> File] /\ l \in [File -> File]
    BY <1>1, <1>2 DEF NextUnlinked, PrevUnlinked
  <2>3. more' = NextAppended(m, l, 0, f) /\ less' = PrevAppended(m, l, 0, f)
    BY <1>4 DEF MoveToFront
  <2> HIDE DEF m, l
  <2>4. IsRing(0, (open \ {f}) \cup {f}, NextAppended(m, l, 0, f),
                                         PrevAppended(m, l, 0, f))
    <3>1. f \in File /\ f # 0 /\ f \notin open \ {f} /\ open \ {f} \subseteq File
          /\ 0 \notin open \ {f}
      BY <1>1
    <3> QED BY <1>1, <2>1, <2>2, <3>1, RingAppend
  <2>5. (open \ {f}) \cup {f} = open
    OBVIOUS
  <2>6. more' \in [File -> File] /\ less' \in [File -> File]
    BY <1>1, <2>2, <2>3 DEF NextAppended, PrevAppended
  <2>7. IsRing(0, open, more', less')
    BY <2>3, <2>4, <2>5
  <2> QED BY <2>6, <2>7 DEF RingHoldsOpenFiles
<1> QED BY <1>3, <1>4

\* The number of open entries when one is added and when one is taken away.
LEMMA CountOpen ==
  ASSUME TypeOK, NFileCounts, NEW f \in File
  PROVE  /\ f \notin open => Cardinality(open \cup {f}) = NFile + 1
         /\ f \in open => Cardinality(open \ {f}) = NFile - 1 /\ NFile > 0
<1>1. IsFiniteSet(open)
  BY OpenFinite
<1>2. Cardinality(open) \in Nat /\ (Cardinality(open) = 0 <=> open = {})
  BY <1>1, FS_CardinalityType, FS_EmptySet
<1>3. f \notin open => Cardinality(open \cup {f}) = Cardinality(open) + 1
  BY <1>1, FS_AddElement
<1>4. f \in open => Cardinality(open \ {f}) = Cardinality(open) - 1
  BY <1>1, FS_RemoveElement
<1> QED BY <1>2, <1>3, <1>4 DEF NFileCounts

\* The assertion of release_lru_file: while NFile is positive there is a
\* least recently used file, and it is an open one.
LEMMA VictimIsOpen ==
  ASSUME VfdInv, NFile > 0
  PROVE  more[0] \in open
<1>1. IsFiniteSet(open) /\ 0 \notin open
  BY OpenFinite DEF VfdInv, Shape
<1>2. open # {}
  BY FS_EmptySet DEF VfdInv, NFileCounts
<1> QED BY <1>1, <1>2, RingFirst DEF VfdInv, RingHoldsOpenFiles

-----------------------------------------------------------------------------
(* The free list.                                                          *)

\* The free list is untouched by steps that leave its links, the names and
\* the entry just taken alone.
LEMMA ChainUnchanged ==
  ASSUME VfdInv, pc # "aborted", UNCHANGED <<size, named, next_free>>,
         \/ pc \notin OpenCalls /\ pc' \notin OpenCalls
         \/ pc' = pc /\ cur' = cur
         \/ pc' = "aborted"
  PROVE  FreeListHoldsUnused'
<1>1. CASE pc' = "aborted"
  BY <1>1 DEF FreeListHoldsUnused
<1>2. CASE pc' # "aborted"
  <2>1. Unused' = Unused
    BY <1>2 DEF Unused, OpenCalls
  <2>2. IsChain(0, Unused, next_free)
    BY DEF VfdInv, FreeListHoldsUnused
  <2> QED BY <2>1, <2>2 DEF FreeListHoldsUnused
<1> QED BY <1>1, <1>2

\* The unused entries are finitely many and the header is not among them.
LEMMA UnusedFinite ==
  ASSUME VfdInv
  PROVE  Unused \subseteq File /\ IsFiniteSet(Unused) /\ 0 \notin Unused
<1>1. Unused \subseteq 0..MaxVfd /\ 0 \notin Unused
  BY VfdAssumption DEF Unused, VfdInv, TypeOK
<1>2. Unused \in SUBSET File
  BY <1>1 DEF File
<1> QED BY <1>1, <1>2, FilesFinite

\* free_vfd gives one entry back, whether it had a name (file_close) or was
\* still being opened (a failed open).
LEMMA FreeChain ==
  ASSUME VfdInv, pc # "aborted", NEW f \in 1..(size - 1), free_vfd(f),
         UNCHANGED size,
         \/ f \in named /\ pc \notin OpenCalls
         \/ pc \in OpenCalls /\ f = cur,
         pc' \notin OpenCalls
  PROVE  FreeListHoldsUnused' /\ next_free' \in [File -> File]
<1>1. f \in File /\ 0 \in File /\ f # 0 /\ f \notin Unused
  <2>1. size \in 0..(MaxVfd + 1) /\ MaxVfd \in Nat
    BY VfdAssumption DEF VfdInv, TypeOK
  <2>2. f \notin Unused
    BY DEF Unused
  <2> QED BY <2>1, <2>2 DEF File
<1>2. next_free \in [File -> File]
  BY DEF VfdInv, TypeOK
<1>3. IsChain(0, Unused, next_free)
  BY DEF VfdInv, FreeListHoldsUnused
<1>4. IsChain(0, Unused \cup {f}, [next_free EXCEPT ![f] = next_free[0], ![0] = f])
  BY <1>1, <1>2, <1>3, UnusedFinite, ChainPush
<1>5. Unused' = Unused \cup {f}
  BY <1>1 DEF Unused, free_vfd, VfdInv, Shape
<1> QED BY <1>1, <1>2, <1>4, <1>5 DEF FreeListHoldsUnused, free_vfd

\* allocate_vfd hands out an entry that is in no list and not in use, and
\* keeps the rest of the free list, also when the array had to grow.
LEMMA AllocateChain ==
  ASSUME VfdInv, pc = "idle", allocate_vfd, pc' \in OpenCalls, UNCHANGED named
  PROVE  /\ FreeListHoldsUnused' /\ next_free' \in [File -> File]
         /\ cur' \in 1..(size' - 1) /\ cur' \notin named
         /\ size' \in 0..(MaxVfd + 1) /\ size <= size'
<1> DEFINE old == IF size = 0 THEN 1 ELSE size
           new == IF 2 * old < VfdChunk THEN VfdChunk ELSE 2 * old
<1>1. /\ next_free \in [File -> File] /\ size \in 0..(MaxVfd + 1)
      /\ 0 \in File /\ MaxVfd \in Nat /\ named \subseteq 1..(size - 1)
  <2>1. MaxVfd \in Nat /\ 0 \in File
    BY VfdAssumption DEF File
  <2> QED BY <2>1 DEF VfdInv, TypeOK, Shape
<1>2. IsChain(0, Unused, next_free)
  BY DEF VfdInv, FreeListHoldsUnused
<1>3. Unused = {f \in 1..(size - 1) : f \notin named}
  BY DEF Unused, OpenCalls
<1>4. CASE /\ next_free[0] # 0
           /\ cur' = next_free[0]
           /\ next_free' = [next_free EXCEPT ![0] = next_free[next_free[0]]]
           /\ UNCHANGED size
  <2>1. Unused # {}
    BY <1>4, <1>2, UnusedFinite, ChainFirst
  <2>2. /\ next_free[0] \in Unused
        /\ IsChain(0, Unused \ {next_free[0]},
                      [next_free EXCEPT ![0] = next_free[next_free[0]]])
    BY <2>1, <1>1, <1>2, UnusedFinite, ChainPop
  <2>3. Unused' = Unused \ {cur'}
    BY <1>3, <1>4 DEF Unused
  <2>4. cur' \in File
    BY <1>4, <2>2, UnusedFinite
  <2> QED BY <1>1, <1>3, <1>4, <2>2, <2>3, <2>4 DEF FreeListHoldsUnused
<1>5. CASE /\ next_free[0] = 0
           /\ new <= MaxVfd + 1
           /\ size' = new
           /\ cur' = old
           /\ next_free' = [Grown(old, new) EXCEPT ![0] = Grown(old, new)[old]]
  <2> DEFINE g == Grown(old, new)
  <2>1. /\ old \in Nat \ {0} /\ new \in Nat /\ old <= new - 1 /\ size <= old
        /\ new - 1 \in Nat
    BY <1>1, VfdAssumption
  <2>2. Unused = {}
    BY <1>5, <1>2, UnusedFinite, ChainFirst
  <2>3. /\ g \in [File -> File] /\ g[0] = old /\ g[new - 1] = 0
        /\ \A i \in old..((new - 1) - 1) : g[i] = i + 1
    <3>1. ASSUME NEW f \in File PROVE g[f] \in File
      <4>1. old \in File
        BY <1>1, <1>5, <2>1 DEF File
      <4>2. CASE f \in old..(new - 1) /\ f # new - 1 /\ f # 0
        <5>1. f + 1 \in File
          BY <1>1, <1>5, <2>1, <4>2 DEF File
        <5> QED BY <4>2, <5>1 DEF Grown
      <4>3. next_free[f] \in File
        BY <1>1
      <4> QED BY <1>1, <4>1, <4>2, <4>3 DEF Grown
    <3>2. g[0] = old /\ g[new - 1] = 0
      <4>1. new - 1 \in File /\ new - 1 # 0 /\ new - 1 \in old..(new - 1)
        BY <1>1, <1>5, <2>1 DEF File
      <4> QED BY <1>1, <4>1 DEF Grown
    <3>3. \A i \in old..((new - 1) - 1) : i \in File /\ i # 0 /\ i # new - 1
                                           /\ i \in old..(new - 1)
      BY <1>1, <1>5, <2>1, SMTT(60) DEF File
    <3>4. \A i \in old..((new - 1) - 1) : g[i] = i + 1
      BY <3>3 DEF Grown
    <3> QED BY <3>1, <3>2, <3>4 DEF Grown
  <2>4. IsChain(0, old..(new - 1), g)
    BY <2>1, <2>3, ChainInterval
  <2>5. /\ old..(new - 1) \subseteq File /\ IsFiniteSet(old..(new - 1))
        /\ 0 \notin old..(new - 1) /\ old..(new - 1) # {}
    <3>1. old..(new - 1) \subseteq File /\ 0 \notin old..(new - 1)
          /\ old \in old..(new - 1)
      BY <1>1, <1>5, <2>1 DEF File
    <3>2. IsFiniteSet(old..(new - 1))
      <4>1. old \in Int /\ new - 1 \in Int BY <2>1
      <4> QED BY <4>1, FS_Interval
    <3> QED BY <3>1, <3>2
  <2> HIDE DEF g
  <2>6. IsChain(0, (old..(new - 1)) \ {g[0]}, [g EXCEPT ![0] = g[g[0]]])
    BY <1>1, <2>3, <2>4, <2>5, ChainPop
  <2>7. Unused' = (old..(new - 1)) \ {old}
    <3>1. \A f \in 1..(size - 1) : f \in named
      BY <1>3, <2>2
    <3>2. 1..(new - 1) = (1..(size - 1)) \cup (old..(new - 1))
      BY <1>1, <2>1
    <3>3. Unused' = {f \in 1..(new - 1) : f \notin named /\ f # old}
      BY <1>5 DEF Unused
    <3>4. \A f \in old..(new - 1) : f \notin named
      BY <1>1, <2>1
    <3> QED BY <3>1, <3>2, <3>3, <3>4
  <2>8. next_free' = [g EXCEPT ![0] = g[g[0]]]
    BY <1>5, <2>3 DEF g
  <2>9. IsChain(0, Unused', next_free')
    BY <2>3, <2>6, <2>7, <2>8
  <2>10. next_free' \in [File -> File]
    BY <1>1, <2>3, <2>8
  <2>11. cur' \in 1..(size' - 1) /\ cur' \notin named
    BY <1>1, <1>5, <2>1
  <2> QED BY <1>1, <1>5, <2>1, <2>9, <2>10, <2>11 DEF FreeListHoldsUnused
<1> QED BY <1>4, <1>5 DEF allocate_vfd

-----------------------------------------------------------------------------
(* One lemma per kind of step.                                             *)

\* Steps that touch neither the ring nor the array leave both invariants
\* on them as they are.
LEMMA QuietStep ==
  ASSUME VfdInv, TypeOK', pc # "aborted", pc \notin OpenCalls,
         pc' \notin OpenCalls,
         UNCHANGED <<lruVars, size, named, next_free, open, NFile>>,
         pc' \in ReopenCalls => cur' \in named,
         pc' \in {"closeall", "eoxact"} => cur' >= 1
  PROVE  VfdInv'
<1>1. Shape'
  BY DEF VfdInv, Shape
<1>2. RingHoldsOpenFiles' /\ NFileCounts'
  BY DEF VfdInv, RingHoldsOpenFiles, NFileCounts, lruVars
<1>3. FreeListHoldsUnused'
  BY ChainUnchanged
<1> QED BY <1>1, <1>2, <1>3 DEF VfdInv

\* The process stops at an assertion: nothing but pc changes.
LEMMA AbortStep ==
  ASSUME VfdInv, pc' = "aborted",
         UNCHANGED <<lruVars, slotVars, posVars, syncVars, countVars, open,
                     NFile, cur>>
  PROVE  VfdInv'
<1>1. TypeOK'
  BY DEF VfdInv, TypeOK, Calls, lruVars, slotVars, posVars, syncVars, countVars
<1>2. Shape'
  BY DEF VfdInv, Shape, OpenCalls, ReopenCalls, slotVars
<1>3. RingHoldsOpenFiles' /\ NFileCounts' /\ FreeListHoldsUnused'
  BY DEF VfdInv, RingHoldsOpenFiles, NFileCounts, FreeListHoldsUnused, lruVars
<1> QED BY <1>1, <1>2, <1>3 DEF VfdInv

\* lru_delete closes one open descriptor; the call goes on.
LEMMA EvictStep ==
  ASSUME VfdInv, pc # "aborted", NEW f \in open, lru_delete(f),
         UNCHANGED <<slotVars, countVars>>,
         \/ UNCHANGED <<pc, cur>>
         \/ pc = "closeall" /\ pc' = pc /\ cur < size /\ cur' = cur + 1
  PROVE  VfdInv'
<1>1. 0 \notin open /\ f \in File
  BY OpenFinite DEF VfdInv, Shape
<1>2. RingHoldsOpenFiles' /\ more' \in [File -> File] /\ less' \in [File -> File]
  BY <1>1, DeleteRing DEF VfdInv, lru_delete
<1>3. NFileCounts' /\ NFile' \in Nat
  <2>1. Cardinality(open \ {f}) = NFile - 1 /\ NFile > 0 /\ NFile \in Nat
    BY <1>1, CountOpen DEF VfdInv, TypeOK
  <2> QED BY <2>1 DEF NFileCounts, lru_delete
<1>4. seek_pos' \in [File -> Int] /\ koff' \in [File -> Nat] /\ pos' \in [File -> Int]
  BY <1>1 DEF VfdInv, TypeOK, lru_delete
<1>5. dirty' \in SUBSET File /\ owed' \in SUBSET File
  BY DEF VfdInv, TypeOK, lru_delete, pg_fsync, syncVars
<1>6. cur' \in 0..(MaxVfd + 1) /\ pc' \in Calls
  BY VfdAssumption, OpenFinite DEF VfdInv, TypeOK
<1>7. open' \in SUBSET File
  BY OpenFinite DEF VfdInv, lru_delete
<1>8. TypeOK'
  BY <1>2, <1>3, <1>4, <1>5, <1>6, <1>7 DEF VfdInv, TypeOK, slotVars, countVars
<1>9. Shape'
  BY VfdAssumption DEF VfdInv, TypeOK, Shape, lru_delete, slotVars, OpenCalls, ReopenCalls
<1>10. FreeListHoldsUnused'
  <2>1. UNCHANGED <<size, named, next_free>>
    BY DEF slotVars
  <2>2. \/ pc \notin OpenCalls /\ pc' \notin OpenCalls
        \/ pc' = pc /\ cur' = cur
    BY DEF OpenCalls
  <2> QED BY <2>1, <2>2, ChainUnchanged
<1> QED BY <1>2, <1>3, <1>8, <1>9, <1>10 DEF VfdInv

\* file_close gives the descriptor and the entry of a file back.
LEMMA CloseStep ==
  ASSUME VfdInv, NEW f \in named, CloseVfd(f), UNCHANGED countVars,
         \/ pc = "idle" /\ pc' = "idle" /\ cur' = 0
         \/ pc = "eoxact" /\ pc' = pc /\ cur < size /\ cur' = cur + 1
  PROVE  VfdInv'
<1>1. 0 \notin open /\ f \in File /\ 0 \in File /\ f \in 1..(size - 1)
  BY OpenFinite DEF VfdInv, Shape, TypeOK
<1>2. free_vfd(f) /\ UNCHANGED size
  BY DEF CloseVfd
<1>3. pc # "aborted" /\ pc \notin OpenCalls /\ pc' \notin OpenCalls
  BY DEF OpenCalls
<1>4. FreeListHoldsUnused' /\ next_free' \in [File -> File]
  BY <1>1, <1>2, <1>3, FreeChain
<1>5. /\ RingHoldsOpenFiles' /\ NFileCounts' /\ NFile' \in Nat
      /\ more' \in [File -> File] /\ less' \in [File -> File]
      /\ open' = open \ {f}
  <2>1. CASE f \in open
    <3>1. Cardinality(open \ {f}) = NFile - 1 /\ NFile > 0 /\ NFile \in Nat
      BY <1>1, <2>1, CountOpen DEF VfdInv, TypeOK
    <3>2. delete(f) /\ open' = open \ {f} /\ NFile' = NFile - 1
      BY <2>1 DEF CloseVfd
    <3>3. RingHoldsOpenFiles' /\ more' \in [File -> File] /\ less' \in [File -> File]
      BY <1>1, <2>1, <3>2, DeleteRing DEF VfdInv
    <3> QED BY <3>1, <3>2, <3>3 DEF NFileCounts
  <2>2. CASE f \notin open
    BY <2>2 DEF CloseVfd, VfdInv, TypeOK, RingHoldsOpenFiles, NFileCounts, lruVars
  <2> QED BY <2>1, <2>2
<1>6. koff' \in [File -> Nat] /\ pos' \in [File -> Int] /\ seek_pos' \in [File -> Int]
  BY <1>1 DEF VfdInv, TypeOK, CloseVfd
<1>7. dirty' \in SUBSET File /\ owed' \in SUBSET File
  BY DEF VfdInv, TypeOK, CloseVfd, pg_fsync, syncVars
<1>8. /\ named' \in SUBSET File /\ temp' \in SUBSET File /\ open' \in SUBSET File
      /\ tempno' \in [File -> Nat]
  BY <1>1, <1>2, <1>5 DEF VfdInv, TypeOK, free_vfd
<1>9. cur' \in 0..(MaxVfd + 1) /\ pc' \in Calls
  BY <1>1, VfdAssumption DEF VfdInv, TypeOK, Calls
<1>10. TypeOK'
  BY <1>2, <1>4, <1>5, <1>6, <1>7, <1>8, <1>9 DEF VfdInv, TypeOK, countVars
<1>11. Shape'
  <2>1. named' = named \ {f} /\ size' = size
    BY <1>2 DEF free_vfd
  <2> QED BY <2>1, <1>3, <1>5, VfdAssumption
          DEF VfdInv, TypeOK, Shape, OpenCalls, ReopenCalls
<1> QED BY <1>4, <1>5, <1>10, <1>11 DEF VfdInv

\* A larger array has the entries of a smaller one, and no entry is beyond
\* the bound.
LEMMA Indexes ==
  ASSUME NEW a \in Int, NEW b \in 0..(MaxVfd + 1), a <= b
  PROVE  1..(a - 1) \subseteq 1..(b - 1) /\ 1..(b - 1) \subseteq 0..(MaxVfd + 1)
BY VfdAssumption

\* A call takes an entry for a file it is about to open.
LEMMA BeginOpenStep ==
  ASSUME VfdInv, NEW kind \in OpenCalls, file_name_open_file(kind)
  PROVE  VfdInv'
<1>1. /\ pc = "idle" /\ pc' \in OpenCalls /\ pc' # "idle" /\ allocate_vfd
      /\ UNCHANGED <<named, open, NFile, more, less>>
  BY DEF file_name_open_file, lruVars, OpenCalls
<1>2. /\ FreeListHoldsUnused' /\ next_free' \in [File -> File]
      /\ cur' \in 1..(size' - 1) /\ cur' \notin named
      /\ size' \in 0..(MaxVfd + 1) /\ size <= size'
  BY <1>1, AllocateChain
<1>3. cur' \in 0..(MaxVfd + 1) /\ pc' \in Calls
      /\ TempFileCounter' \in Nat
  <2>1. cur' \in 0..(MaxVfd + 1)
    <3>1. size \in Int
      BY DEF VfdInv, TypeOK
    <3> QED BY <1>2, <3>1, Indexes
  <2>2. pc' \in Calls /\ TempFileCounter' \in Nat
    BY <1>1 DEF file_name_open_file, VfdInv, TypeOK, Calls
  <2> QED BY <2>1, <2>2
<1>4. TypeOK'
  BY <1>1, <1>2, <1>3
     DEF VfdInv, TypeOK, file_name_open_file, posVars, syncVars
<1>5. Shape'
  <2>1. named \subseteq 1..(size - 1) /\ open \subseteq named /\ size \in Int
    BY DEF VfdInv, TypeOK, Shape
  <2>2. named' \subseteq 1..(size' - 1) /\ open' \subseteq named'
    <3>1. 1..(size - 1) \subseteq 1..(size' - 1)
      BY <1>2, <2>1, Indexes
    <3> QED BY <1>1, <2>1, <3>1
  <2>3. pc' \notin ReopenCalls /\ pc' \notin {"closeall", "eoxact"}
    BY <1>1 DEF OpenCalls, ReopenCalls
  <2> QED BY <1>1, <1>2, <2>2, <2>3 DEF Shape
<1>6. RingHoldsOpenFiles' /\ NFileCounts'
  BY <1>1 DEF VfdInv, RingHoldsOpenFiles, NFileCounts
<1> QED BY <1>2, <1>4, <1>5, <1>6 DEF VfdInv

\* open(2) succeeds for a new VFD.
LEMMA OpenSucceedsStep ==
  ASSUME VfdInv, OpenSucceeds
  PROVE  VfdInv'
<1>1. /\ pc \in OpenCalls /\ cur \in 1..(size - 1) /\ cur \notin named
      /\ cur \notin open /\ 0 \notin open /\ cur # 0
      /\ size \in 0..(MaxVfd + 1)
  BY DEF OpenSucceeds, VfdInv, TypeOK, Shape
<1>2. cur \in File /\ 0 \in File
  BY <1>1, VfdAssumption DEF File
<1>3. RingHoldsOpenFiles' /\ more' \in [File -> File] /\ less' \in [File -> File]
  BY <1>1, <1>2, InsertRing DEF VfdInv, OpenSucceeds
<1>4. NFileCounts' /\ NFile' \in Nat
  BY <1>1, <1>2, CountOpen DEF VfdInv, TypeOK, NFileCounts, OpenSucceeds
<1>5. FreeListHoldsUnused'
  <2>1. Unused' = Unused
    BY <1>1 DEF Unused, OpenSucceeds, Return, OpenCalls
  <2>2. IsChain(0, Unused, next_free)
    BY <1>1 DEF VfdInv, FreeListHoldsUnused, OpenCalls
  <2> QED BY <2>1, <2>2 DEF FreeListHoldsUnused, OpenSucceeds
<1>6. /\ seek_pos' \in [File -> Int] /\ koff' \in [File -> Nat]
      /\ pos' \in [File -> Int] /\ tempno' \in [File -> Nat]
  BY <1>2 DEF VfdInv, TypeOK, OpenSucceeds
<1>7. /\ open' \in SUBSET File /\ named' \in SUBSET File /\ dirty' \in SUBSET File
      /\ temp' \in SUBSET File /\ owed' \in SUBSET File
  BY <1>2 DEF VfdInv, TypeOK, OpenSucceeds
<1>8. TypeOK'
  BY <1>2, <1>3, <1>4, <1>6, <1>7, VfdAssumption
     DEF VfdInv, TypeOK, OpenSucceeds, Return, Calls, countVars
<1>9. Shape'
  BY <1>1 DEF VfdInv, Shape, OpenSucceeds, Return, OpenCalls, ReopenCalls
<1> QED BY <1>3, <1>4, <1>5, <1>8, <1>9 DEF VfdInv

\* open(2) fails for a new VFD.
LEMMA OpenFailsStep ==
  ASSUME VfdInv, OpenFails
  PROVE  VfdInv'
<1>1. /\ pc \in OpenCalls /\ cur \in 1..(size - 1) /\ cur \notin named
      /\ pc # "aborted" /\ size \in 0..(MaxVfd + 1)
  BY DEF OpenFails, VfdInv, TypeOK, Shape, OpenCalls
<1>2. cur \in File /\ 0 \in File
  BY <1>1, VfdAssumption DEF File
<1>3. /\ pc' \in {"idle", "undefined"} /\ cur' = 0
      /\ pc' \notin OpenCalls
  BY DEF OpenFails, Enter, Return, OpenCalls
<1>4. FreeListHoldsUnused' /\ next_free' \in [File -> File]
  BY <1>1, <1>3, FreeChain DEF OpenFails
<1>5. RingHoldsOpenFiles' /\ NFileCounts'
  BY DEF VfdInv, RingHoldsOpenFiles, NFileCounts, OpenFails, lruVars
<1>6. /\ named' \in SUBSET File /\ temp' \in SUBSET File /\ dirty' \in SUBSET File
      /\ tempno' \in [File -> Nat]
  BY <1>2 DEF VfdInv, TypeOK, OpenFails, free_vfd
<1>7. TypeOK'
  BY <1>2, <1>3, <1>4, <1>6, VfdAssumption
     DEF VfdInv, TypeOK, OpenFails, Calls, countVars, lruVars, posVars
<1>8. Shape'
  BY <1>1, <1>3 DEF VfdInv, Shape, OpenFails, free_vfd, OpenCalls, ReopenCalls
<1> QED BY <1>4, <1>5, <1>7, <1>8 DEF VfdInv

\* lru_insert gives a descriptor back to a VFD that had lost it.
LEMMA ReopenStep ==
  ASSUME VfdInv, ReopenSucceeds
  PROVE  VfdInv'
<1>1. /\ pc \in ReopenCalls /\ cur \in named /\ cur \notin open
      /\ 0 \notin open /\ cur # 0 /\ cur \in File
  BY DEF ReopenSucceeds, VfdInv, TypeOK, Shape
<1>2. RingHoldsOpenFiles' /\ more' \in [File -> File] /\ less' \in [File -> File]
  BY <1>1, InsertRing DEF VfdInv, ReopenSucceeds
<1>3. NFileCounts' /\ NFile' \in Nat
  BY <1>1, CountOpen DEF VfdInv, TypeOK, NFileCounts, ReopenSucceeds
<1>4. FreeListHoldsUnused'
  <2>1. UNCHANGED <<size, named, next_free>> /\ pc' = pc /\ cur' = cur
        /\ pc # "aborted"
    BY <1>1 DEF ReopenSucceeds, slotVars, ReopenCalls
  <2> QED BY <2>1, ChainUnchanged
<1>5. koff' \in [File -> Nat] /\ open' \in SUBSET File
  BY <1>1 DEF VfdInv, TypeOK, ReopenSucceeds
<1>6. TypeOK'
  BY <1>2, <1>3, <1>5
     DEF VfdInv, TypeOK, ReopenSucceeds, slotVars, syncVars, countVars
<1>7. Shape'
  BY <1>1 DEF VfdInv, Shape, ReopenSucceeds, slotVars
<1> QED BY <1>2, <1>3, <1>4, <1>6, <1>7 DEF VfdInv

\* file_access on an open or a closed file, and the end of file_truncate.
LEMMA AccessStep ==
  ASSUME VfdInv, NEW f \in named, pc # "aborted", pc \notin OpenCalls,
         pc' \in ReopenCalls \cup {"idle"}, cur' \in {0, f},
         pc' \in ReopenCalls => cur' = f,
         IF f \in open THEN MoveToFront(f) ELSE UNCHANGED lruVars,
         UNCHANGED <<slotVars, posVars, syncVars, countVars, open, NFile>>
  PROVE  VfdInv'
<1>1. 0 \notin open /\ f \in File /\ 0 \in File
  BY OpenFinite DEF VfdInv, Shape, TypeOK
<1>2. RingHoldsOpenFiles' /\ more' \in [File -> File] /\ less' \in [File -> File]
  <2>1. CASE f \in open
    BY <2>1, <1>1, MoveRing DEF VfdInv
  <2>2. CASE f \notin open
    BY <2>2 DEF VfdInv, TypeOK, RingHoldsOpenFiles, lruVars
  <2> QED BY <2>1, <2>2
<1>3. cur' \in 0..(MaxVfd + 1) /\ pc' \in Calls
  <2>1. f \in 0..MaxVfd
    BY <1>1 DEF File
  <2> QED BY <2>1, <1>1, VfdAssumption DEF VfdInv, TypeOK, Calls
<1>4. TypeOK'
  BY <1>2, <1>3 DEF VfdInv, TypeOK, slotVars, posVars, syncVars, countVars
<1>5. Shape'
  BY DEF VfdInv, Shape, slotVars, OpenCalls, ReopenCalls
<1>6. FreeListHoldsUnused'
  <2>1. UNCHANGED <<size, named, next_free>> /\ pc' \notin OpenCalls
    BY DEF slotVars, OpenCalls, ReopenCalls
  <2> QED BY <2>1, ChainUnchanged
<1> QED BY <1>2, <1>4, <1>5, <1>6 DEF VfdInv, NFileCounts

-----------------------------------------------------------------------------
(* The theorems.                                                           *)

\* The initial state has an empty ring and an empty free list.
LEMMA InitInv == Init => VfdInv
<1> SUFFICES ASSUME Init PROVE VfdInv
  OBVIOUS
<1>1. 0 \in File /\ MaxVfd \in Nat
  BY VfdAssumption DEF File
<1>2. TypeOK
  BY <1>1 DEF Init, TypeOK, Calls
<1>3. Shape
  BY DEF Init, Shape, OpenCalls, ReopenCalls
<1>4. more[0] = 0 /\ less[0] = 0 /\ next_free[0] = 0
  BY <1>1 DEF Init
<1>5. RingHoldsOpenFiles
  BY <1>4, RingEmpty DEF Init, RingHoldsOpenFiles
<1>6. NFileCounts
  BY FS_EmptySet DEF Init, NFileCounts
<1>7. Unused = {}
  BY DEF Init, Unused
<1>8. IsChain(0, {}, next_free)
  BY <1>4, ChainEmpty
<1> QED BY <1>2, <1>3, <1>5, <1>6, <1>7, <1>8 DEF VfdInv, FreeListHoldsUnused

\* A new backend starts from the initial state.
LEMMA RestartStep == VfdInv /\ Restart => VfdInv'
<1> SUFFICES ASSUME VfdInv, Restart PROVE VfdInv'
  OBVIOUS
<1>1. 0 \in File /\ MaxVfd \in Nat
  BY VfdAssumption DEF File
<1>2. TypeOK'
  BY <1>1 DEF Restart, Return, VfdInv, TypeOK, Calls
<1>3. Shape'
  BY DEF Restart, Return, Shape, OpenCalls, ReopenCalls
<1>4. more'[0] = 0 /\ less'[0] = 0 /\ next_free'[0] = 0
  BY <1>1 DEF Restart
<1>5. RingHoldsOpenFiles'
  BY <1>4, RingEmpty DEF Restart, RingHoldsOpenFiles
<1>6. NFileCounts'
  BY FS_EmptySet DEF Restart, NFileCounts
<1>7. Unused' = {}
  BY DEF Restart, Unused
<1>8. IsChain(0, {}, next_free')
  BY <1>4, ChainEmpty
<1> QED BY <1>2, <1>3, <1>5, <1>6, <1>7, <1>8 DEF VfdInv, FreeListHoldsUnused

\* Calls on one file that leave the ring and the array alone.
LEMMA FileStep ==
  ASSUME VfdInv, NEW f \in File,
         \/ \E o \in SeekOffsets : file_seek_set(f, o) \/ file_seek_cur(f, o)
         \/ file_seek_end(f)
         \/ file_sync(f, "sync") \/ file_sync(f, "truncsync")
         \/ file_mark_dirty(f)
  PROVE  VfdInv'
<1>1. 0 \in File /\ f \in 0..(MaxVfd + 1)
  BY VfdAssumption DEF File
<1>2. ASSUME NEW o \in SeekOffsets, file_seek_set(f, o) \/ file_seek_cur(f, o)
      PROVE  VfdInv'
  <2>1. o \in Int
    BY VfdAssumption
  <2>2. seek_pos' \in [File -> Int] /\ koff' \in [File -> Nat] /\ pos' \in [File -> Int]
    BY <1>2, <2>1 DEF file_seek_set, file_seek_cur, Lseek, VfdInv, TypeOK
  <2>0. /\ UNCHANGED <<lruVars, slotVars, syncVars, countVars, open, NFile>>
        /\ cur' \in 0..(MaxVfd + 1) /\ pc' \in Calls
    BY <1>1, <1>2, VfdAssumption DEF file_seek_set, file_seek_cur, Return, Calls
  <2>3. TypeOK'
    BY <2>0, <2>2 DEF VfdInv, TypeOK, lruVars, slotVars, syncVars, countVars
  <2>4. /\ pc = "idle" /\ pc' = "idle"
        /\ UNCHANGED <<lruVars, size, named, next_free, open, NFile>>
    BY <1>2 DEF file_seek_set, file_seek_cur, Return, slotVars
  <2> QED BY <2>3, <2>4, QuietStep DEF OpenCalls, ReopenCalls
<1>3. CASE file_seek_end(f)
  <2>1. TypeOK'
    BY <1>1, <1>3 DEF file_seek_end, Enter, VfdInv, TypeOK, Calls, ReopenCalls,
                      lruVars, slotVars, posVars, syncVars, countVars
  <2>2. /\ pc = "idle" /\ pc' = "seekend" /\ cur' \in named
        /\ UNCHANGED <<lruVars, size, named, next_free, open, NFile>>
    BY <1>3 DEF file_seek_end, Enter, slotVars
  <2> QED BY <2>1, <2>2, QuietStep DEF OpenCalls, ReopenCalls
<1>4. ASSUME NEW call \in {"sync", "truncsync"}, file_sync(f, call)
      PROVE  VfdInv'
  <2>1. dirty' \in SUBSET File /\ owed' \in SUBSET File
    BY <1>4 DEF file_sync, pg_fsync, syncVars, VfdInv, TypeOK
  <2>2. /\ pc = "idle" /\ f \in named
        /\ \/ pc' = "idle" /\ cur' = 0
           \/ pc' \in {"sync", "truncsync", "trunc"} /\ cur' = f
        /\ UNCHANGED <<lruVars, slotVars, posVars, countVars, open, NFile>>
    BY <1>4 DEF file_sync, Enter, Return
  <2>3. TypeOK'
    BY <1>1, <2>1, <2>2, VfdAssumption
       DEF VfdInv, TypeOK, Calls, ReopenCalls, lruVars, slotVars, posVars, countVars
  <2>4. /\ UNCHANGED <<lruVars, size, named, next_free, open, NFile>>
        /\ pc # "aborted" /\ pc \notin OpenCalls /\ pc' \notin OpenCalls
        /\ pc' \in ReopenCalls => cur' \in named
        /\ pc' \notin {"closeall", "eoxact"}
    BY <2>2 DEF slotVars, OpenCalls, ReopenCalls
  <2> QED BY <2>3, <2>4, QuietStep
<1>5. CASE file_mark_dirty(f)
  <2>0. cur' \in 0..(MaxVfd + 1) /\ pc' \in Calls
    BY <1>1, <1>5, VfdAssumption DEF file_mark_dirty, Return, Calls
  <2>1. TypeOK'
    BY <2>0, <1>5
       DEF file_mark_dirty, VfdInv, TypeOK, lruVars, slotVars, posVars, countVars
  <2>2. /\ pc = "idle" /\ pc' = "idle"
        /\ UNCHANGED <<lruVars, size, named, next_free, open, NFile>>
    BY <1>5 DEF file_mark_dirty, Return, slotVars
  <2> QED BY <2>1, <2>2, QuietStep DEF OpenCalls, ReopenCalls
<1> QED BY <1>2, <1>3, <1>4, <1>5

\* The second half of a call: the transfer, the seek or the sync.
LEMMA TransferStep ==
  ASSUME VfdInv, TransferSome \/ TransferNone \/ SeekEnd \/ SyncReopened \/ ReopenFails
  PROVE  VfdInv'
<1>1. /\ pc \in ReopenCalls /\ cur \in named /\ cur \in File /\ 0 \in File
      /\ cur \in 0..(MaxVfd + 1)
  <2>1. pc \in ReopenCalls
    BY DEF TransferSome, TransferNone, SeekEnd, SyncReopened, ReopenFails, ReopenCalls
  <2>2. cur \in named
    BY <2>1 DEF VfdInv, Shape
  <2> QED BY <2>1, <2>2, OpenFinite DEF VfdInv, TypeOK
<1>2. /\ \/ pc' = "idle" /\ cur' = 0
         \/ pc' = "trunc" /\ cur' = cur
      /\ UNCHANGED <<lruVars, slotVars, countVars, open, NFile>>
  BY DEF TransferSome, TransferNone, SeekEnd, SyncReopened, ReopenFails, Enter, Return
<1>3. seek_pos' \in [File -> Int] /\ koff' \in [File -> Nat] /\ pos' \in [File -> Int]
  <2>1. seek_pos \in [File -> Int] /\ koff \in [File -> Nat] /\ pos \in [File -> Int]
    BY DEF VfdInv, TypeOK
  <2>2. CASE TransferSome
    BY <1>1, <2>1, <2>2 DEF TransferSome
  <2>3. CASE TransferNone \/ ReopenFails
    BY <1>1, <2>1, <2>3 DEF TransferNone, ReopenFails, FILE_UNKNOWN_POS
  <2>4. CASE SeekEnd
    <3>1. PICK p \in 0..MaxPos : Lseek(cur, p) /\ pos' = [pos EXCEPT ![cur] = p]
      BY <2>4 DEF SeekEnd
    <3>2. p \in Nat /\ p >= 0
      BY VfdAssumption
    <3> QED BY <1>1, <2>1, <3>1, <3>2 DEF Lseek
  <2>5. CASE SyncReopened
    BY <2>1, <2>5 DEF SyncReopened, posVars
  <2> QED BY <2>2, <2>3, <2>4, <2>5
<1>4. dirty' \in SUBSET File /\ owed' \in SUBSET File
  BY <1>1 DEF VfdInv, TypeOK, TransferSome, TransferNone, SeekEnd, SyncReopened,
              ReopenFails, pg_fsync, syncVars
<1>5. cur' \in 0..(MaxVfd + 1) /\ pc' \in Calls
  BY <1>1, <1>2, VfdAssumption DEF Calls, ReopenCalls
<1>6. TypeOK'
  BY <1>2, <1>3, <1>4, <1>5 DEF VfdInv, TypeOK, lruVars, slotVars, countVars
<1>7. /\ pc # "aborted" /\ pc \notin OpenCalls /\ pc' \notin OpenCalls
      /\ pc' \in ReopenCalls => cur' \in named
      /\ pc' \notin {"closeall", "eoxact"}
      /\ UNCHANGED <<lruVars, size, named, next_free, open, NFile>>
  BY <1>1, <1>2 DEF OpenCalls, ReopenCalls, slotVars
<1> QED BY <1>6, <1>7, QuietStep

\* The calls on stdio files touch no VFD.
LEMMA StdioStep ==
  ASSUME VfdInv, allocate_file \/ FopenSucceeds \/ FopenFails \/ free_file
  PROVE  VfdInv'
<1>1. /\ pc \in {"idle", "fopen"} /\ pc' \in {"idle", "fopen", "undefined"}
      /\ cur' = 0
      /\ UNCHANGED <<lruVars, slotVars, posVars, syncVars, TempFileCounter,
                     EnableFsync, open, NFile>>
  BY DEF allocate_file, FopenSucceeds, FopenFails, free_file, Enter, Return, countVars
<1>2. NumAllocatedFiles' \in Nat
  BY DEF allocate_file, FopenSucceeds, FopenFails, free_file, VfdInv, TypeOK, countVars
<1>3. cur' \in 0..(MaxVfd + 1) /\ pc' \in Calls
  BY <1>1, VfdAssumption, OpenFinite DEF VfdInv, Calls
<1>4. TypeOK'
  BY <1>1, <1>2, <1>3 DEF VfdInv, TypeOK, lruVars, slotVars, posVars, syncVars
<1> QED BY <1>1, <1>4, QuietStep DEF OpenCalls, ReopenCalls, slotVars

\* The two walks over the array.
LEMMA SweepStep ==
  ASSUME VfdInv,
         \/ BeginSweep("closeall") \/ BeginSweep("eoxact")
         \/ close_all_vfds \/ at_eo_xact_files
  PROVE  VfdInv'
<1>1. /\ MaxVfd \in Nat /\ size \in 0..(MaxVfd + 1) /\ cur \in 0..(MaxVfd + 1)
      /\ 0 \in File
  BY VfdAssumption, OpenFinite DEF VfdInv, TypeOK
<1>2. CASE BeginSweep("closeall") \/ BeginSweep("eoxact")
  <2>1. /\ pc = "idle" /\ pc' \in {"closeall", "eoxact"} /\ cur' = 1
        /\ UNCHANGED <<lruVars, slotVars, posVars, syncVars, countVars, open, NFile>>
    BY <1>2 DEF BeginSweep, Enter
  <2>2. cur' \in 0..(MaxVfd + 1) /\ pc' \in Calls
    BY <1>1, <2>1 DEF Calls
  <2>3. TypeOK'
    BY <2>1, <2>2 DEF VfdInv, TypeOK, lruVars, slotVars, posVars, syncVars, countVars
  <2> QED BY <2>1, <2>3, QuietStep DEF OpenCalls, ReopenCalls, slotVars
<1>3. CASE close_all_vfds
  <2>1. CASE cur < size /\ cur \in open
    <3>1. /\ lru_delete(cur) /\ pc = "closeall" /\ pc' = pc /\ cur' = cur + 1
          /\ UNCHANGED <<slotVars, countVars>>
      BY <1>1, <1>3, <2>1 DEF close_all_vfds, Enter
    <3> QED BY <2>1, <3>1, EvictStep
  <2>2. CASE ~(cur < size /\ cur \in open)
    <3>1. /\ pc = "closeall"
          /\ \/ pc' = "closeall" /\ cur < size /\ cur' = cur + 1
             \/ pc' = "idle" /\ cur' = 0
          /\ UNCHANGED <<lruVars, slotVars, posVars, syncVars, countVars, open, NFile>>
      BY <1>1, <1>3, <2>2 DEF close_all_vfds, Enter, Return
    <3>2. cur' \in 0..(MaxVfd + 1) /\ pc' \in Calls
          /\ (pc' \in {"closeall", "eoxact"} => cur' >= 1)
      BY <1>1, <3>1 DEF Calls
    <3>3. TypeOK'
      BY <3>1, <3>2 DEF VfdInv, TypeOK, lruVars, slotVars, posVars, syncVars, countVars
    <3> QED BY <3>1, <3>2, <3>3, QuietStep DEF OpenCalls, ReopenCalls, slotVars
  <2> QED BY <2>1, <2>2
<1>4. CASE at_eo_xact_files
  <2>1. CASE cur < size /\ cur \in temp /\ cur \in named
    <3>1. CloseVfd(cur) /\ Enter(pc, cur + 1) /\ UNCHANGED countVars /\ pc = "eoxact"
      BY <1>1, <1>4, <2>1 DEF at_eo_xact_files
    <3> QED BY <2>1, <3>1, CloseStep DEF Enter
  <2>2. CASE ~(cur < size /\ cur \in temp /\ cur \in named)
    <3>1. /\ pc = "eoxact"
          /\ \/ pc' = "eoxact" /\ cur < size /\ cur' = cur + 1
             \/ pc' = "idle" /\ cur' = 0
          /\ UNCHANGED <<lruVars, slotVars, posVars, EnableFsync, open, NFile>>
      BY <1>1, <1>4, <2>2 DEF at_eo_xact_files, Enter, Return, countVars
    <3>2. cur' \in 0..(MaxVfd + 1) /\ pc' \in Calls
          /\ (pc' \in {"closeall", "eoxact"} => cur' >= 1)
      BY <1>1, <3>1 DEF Calls
    <3>3. /\ dirty' \in SUBSET File /\ owed' \in SUBSET File
          /\ NumAllocatedFiles' \in Nat /\ TempFileCounter' \in Nat
      BY <1>4, <2>2 DEF at_eo_xact_files, VfdInv, TypeOK, syncVars, countVars
    <3>4. TypeOK'
      BY <3>1, <3>2, <3>3 DEF VfdInv, TypeOK, lruVars, slotVars, posVars
    <3> QED BY <3>1, <3>2, <3>4, QuietStep DEF OpenCalls, ReopenCalls, slotVars
  <2> QED BY <2>1, <2>2
<1> QED BY <1>2, <1>3, <1>4

\* Every step keeps the invariant.
LEMMA NextInv == VfdInv /\ [Next]_vars => VfdInv'
<1> SUFFICES ASSUME VfdInv, [Next]_vars PROVE VfdInv'
  OBVIOUS
<1>1. CASE \E kind \in OpenCalls : file_name_open_file(kind)
  BY <1>1, BeginOpenStep
<1>2. CASE OpenSucceeds \/ OpenFails \/ ReopenSucceeds \/ Restart
  BY <1>2, OpenSucceedsStep, OpenFailsStep, ReopenStep, RestartStep
<1>3. CASE release_lru_file
  <2>1. more[0] \in open /\ pc # "aborted"
    BY <1>3, VictimIsOpen DEF release_lru_file, OpenCalls, ReopenCalls
  <2> QED BY <1>3, <2>1, EvictStep DEF release_lru_file
<1>4. CASE \/ release_lru_file_aborts \/ ReopenAborts \/ sweep_aborts
           \/ \E f \in File : file_close_aborts(f)
  BY <1>4, AbortStep DEF release_lru_file_aborts, ReopenAborts, sweep_aborts,
                         file_close_aborts, CloseAborts
<1>5. CASE \E f \in File : file_read(f) \/ file_write(f)
  <2>1. PICK f \in File : file_read(f) \/ file_write(f)
    BY <1>5
  <2>2. f \in named /\ pc = "idle" /\ pc' \in {"read", "write"} /\ cur' = f
        /\ (IF f \in open THEN MoveToFront(f) ELSE UNCHANGED lruVars)
        /\ UNCHANGED <<slotVars, posVars, syncVars, countVars, open, NFile>>
    BY <2>1 DEF file_read, file_write, BeginAccess, Enter
  <2> QED BY <2>2, AccessStep DEF OpenCalls, ReopenCalls
<1>6. CASE Truncate
  <2>1. cur \in named
    BY <1>6 DEF Truncate, VfdInv, Shape
  <2> QED BY <1>6, <2>1, AccessStep DEF Truncate, Return, OpenCalls, ReopenCalls
<1>7. CASE \E f \in File :
             \/ \E o \in SeekOffsets : file_seek_set(f, o) \/ file_seek_cur(f, o)
             \/ file_seek_end(f)
             \/ file_sync(f, "sync") \/ file_sync(f, "truncsync")
             \/ file_mark_dirty(f)
  BY <1>7, FileStep
<1>8. CASE \E f \in File : file_close(f)
  BY <1>8, CloseStep DEF file_close, Return
<1>9. CASE TransferSome \/ TransferNone \/ SeekEnd \/ SyncReopened \/ ReopenFails
  BY <1>9, TransferStep
<1>10. CASE allocate_file \/ FopenSucceeds \/ FopenFails \/ free_file
  BY <1>10, StdioStep
<1>11. CASE \/ BeginSweep("closeall") \/ BeginSweep("eoxact")
            \/ close_all_vfds \/ at_eo_xact_files
  BY <1>11, SweepStep
<1>12. CASE UNCHANGED vars
  <2>1. UNCHANGED <<lruVars, slotVars, posVars, syncVars, countVars, open, NFile, pc,
                    cur>>
    BY <1>12 DEF vars
  <2>2. TypeOK'
    BY <2>1 DEF VfdInv, TypeOK, lruVars, slotVars, posVars, syncVars, countVars
  <2>3. Shape' /\ RingHoldsOpenFiles' /\ NFileCounts' /\ FreeListHoldsUnused'
    BY <2>1 DEF VfdInv, Shape, RingHoldsOpenFiles, NFileCounts,
                FreeListHoldsUnused, Unused, lruVars, slotVars
  <2> QED BY <2>2, <2>3 DEF VfdInv
<1> QED
  BY <1>1, <1>2, <1>3, <1>4, <1>5, <1>6, <1>7, <1>8, <1>9, <1>10, <1>11, <1>12
     DEF Next

\* The inductive invariant holds of every reachable state of the cache.
THEOREM VfdInvariant == Spec => []VfdInv
BY InitInv, NextInv, PTL DEF Spec

\* Type correctness: no index leaves the array and no counter of fd.c, NFile
\* and NumAllocatedFiles among them, goes below zero.
THEOREM VfdTypes == Spec => []TypeOK
<1>1. VfdInv => TypeOK
  BY DEF VfdInv
<1> QED BY <1>1, VfdInvariant, PTL

\* The LRU ring of fd.c holds the open files, each once, for every sequence
\* of calls, evictions and failures.
THEOREM RingIsOpenFiles == Spec => []RingHoldsOpenFiles
<1>1. VfdInv => RingHoldsOpenFiles
  BY DEF VfdInv
<1> QED BY <1>1, VfdInvariant, PTL

\* NFile is the number of descriptors the VFDs hold.
THEOREM NFileIsExact == Spec => []NFileCounts
<1>1. VfdInv => NFileCounts
  BY DEF VfdInv
<1> QED BY <1>1, VfdInvariant, PTL

\* The free list of fd.c leaks no entry and hands none out twice.
THEOREM FreeListIsUnused == Spec => []FreeListHoldsUnused
<1>1. VfdInv => FreeListHoldsUnused
  BY DEF VfdInv
<1> QED BY <1>1, VfdInvariant, PTL

\* No VFD gets a kernel descriptor beyond the limit of pg_nofile except as the
\* only one: the count the limit is compared with is the number of descriptors
\* (NFileCounts, by induction over all the actions), and only lru_insert and
\* file_name_open_file_aux add one, behind their loop.
THEOREM BudgetKept == Spec => DescriptorBudget
<1>1. VfdInv /\ VfdInv' /\ [Next]_vars =>
        [Cardinality(open') > Cardinality(open) =>
           \/ Cardinality(open') = 1
           \/ Cardinality(open') + NumAllocatedFiles' <= MaxFilePerProcess]_vars
  <2> SUFFICES ASSUME VfdInv, VfdInv', Next, Cardinality(open') > Cardinality(open)
               PROVE  \/ Cardinality(open') = 1
                      \/ Cardinality(open') + NumAllocatedFiles' <= MaxFilePerProcess
    OBVIOUS
  <2>1. NFile \in Nat /\ NumAllocatedFiles \in Nat /\ MaxFilePerProcess \in Nat
    BY VfdAssumption DEF VfdInv, TypeOK
  <2>2. NFile = Cardinality(open) /\ NFile' = Cardinality(open')
    BY DEF VfdInv, NFileCounts
  <2>3. OpenSucceeds \/ ReopenSucceeds
    <3>1. ~(NFile' = NFile) /\ ~(NFile' = NFile - 1) /\ ~(NFile' = 0)
      BY <2>1, <2>2
    <3> QED
      BY <3>1 DEF Next, file_name_open_file, OpenFails, release_lru_file,
           release_lru_file_aborts, CloseAborts, ReopenAborts, ReopenFails, file_read,
           file_write, BeginAccess, file_seek_set, file_seek_cur, file_seek_end,
           file_sync, file_mark_dirty, file_close, file_close_aborts, CloseVfd,
           lru_delete, TransferSome, TransferNone, SeekEnd, SyncReopened, Truncate,
           BeginSweep, close_all_vfds, at_eo_xact_files, sweep_aborts, allocate_file,
           FopenSucceeds, FopenFails, free_file, Restart
  <2>4. ~NeedRoom /\ NFile' = NFile + 1 /\ NumAllocatedFiles' = NumAllocatedFiles
    BY <2>3 DEF OpenSucceeds, ReopenSucceeds, countVars
  <2> QED BY <2>1, <2>2, <2>4 DEF NeedRoom
<1> QED BY <1>1, VfdInvariant, PTL DEF Spec, DescriptorBudget

-----------------------------------------------------------------------------
(* The names of temporary files and the file positions.                    *)

\* What makes the names of temporary files differ: a live one has a number
\* the counter has reached, and one the counter has passed while another is
\* being opened; the end of transaction leaves none behind its walk, so none
\* is left when it resets the counter.
TempInv ==
  /\ TempNamesDiffer
  /\ \A f \in temp \cap named :
       /\ tempno[f] <= TempFileCounter
       /\ pc = "temp" => tempno[f] < TempFileCounter
       /\ pc = "eoxact" => f >= cur

\* A call that opens or reopens a file works on an entry of the array.
LEMMA CurIsEntry ==
  ASSUME VfdInv, pc \in OpenCalls \cup ReopenCalls
  PROVE  cur \in File
<1>1. size \in 0..(MaxVfd + 1) /\ named \subseteq File /\ MaxVfd \in Nat
  BY VfdAssumption DEF VfdInv, TypeOK
<1>2. CASE pc \in OpenCalls
  <2>1. cur \in 1..(size - 1)
    BY <1>2 DEF VfdInv, Shape
  <2> QED BY <1>1, <2>1 DEF File
<1>3. CASE pc \in ReopenCalls
  BY <1>1, <1>3 DEF VfdInv, Shape
<1> QED BY <1>2, <1>3

\* Every step keeps it.
LEMMA TempStep == VfdInv /\ TempInv /\ [Next]_vars => TempInv'
<1> SUFFICES ASSUME VfdInv, TempInv, [Next]_vars PROVE TempInv'
  OBVIOUS
<1>0. /\ temp \subseteq File /\ named \subseteq File /\ tempno \in [File -> Nat]
      /\ TempFileCounter \in Nat /\ cur \in Int /\ File \subseteq Int
  <2>1. File \subseteq Int
    BY VfdAssumption DEF File
  <2> QED BY <2>1 DEF VfdInv, TypeOK
<1>1. CASE OpenSucceeds
  <2>1. pc' = "idle" /\ TempFileCounter' = TempFileCounter /\ cur \in File
    BY <1>1, CurIsEntry DEF OpenSucceeds, Return, countVars
  <2>2. CASE pc = "temp"
    <3>1. /\ tempno' = [tempno EXCEPT ![cur] = TempFileCounter]
          /\ temp' = temp \cup {cur} /\ named' = named \cup {cur}
      BY <1>1, <2>2 DEF OpenSucceeds
    <3>2. \A f \in temp \cap named : tempno[f] < TempFileCounter
      BY <2>2 DEF TempInv
    <3>3. ASSUME NEW f \in temp' \cap named'
          PROVE  \/ f = cur /\ tempno'[f] = TempFileCounter
                 \/ /\ f \in temp \cap named
                    /\ tempno'[f] = tempno[f]
                    /\ tempno[f] \in Nat /\ tempno[f] < TempFileCounter
      <4>1. CASE f = cur
        BY <1>0, <2>1, <3>1, <4>1
      <4>2. CASE f # cur
        <5>1. f \in temp \cap named /\ f \in File
          BY <1>0, <3>1, <4>2
        <5> QED BY <1>0, <2>1, <3>1, <3>2, <4>2, <5>1
      <4> QED BY <4>1, <4>2
    <3>4. ASSUME NEW f \in temp' \cap named' PROVE tempno'[f] <= TempFileCounter
      BY <1>0, <3>3
    <3>5. ASSUME NEW f \in temp' \cap named', NEW g \in temp' \cap named',
                 tempno'[f] = tempno'[g]
          PROVE  f = g
      <4>0. \A n \in Nat : n < TempFileCounter => n # TempFileCounter
        BY <1>0
      <4>1. CASE f = cur /\ g # cur
        <5>1. tempno'[g] = tempno[g] /\ tempno[g] # TempFileCounter
          BY <3>3, <4>0, <4>1
        <5>2. tempno'[f] = TempFileCounter
          BY <1>0, <2>1, <3>1, <4>1
        <5> QED BY <3>5, <5>1, <5>2
      <4>2. CASE f # cur /\ g = cur
        <5>1. tempno'[f] = tempno[f] /\ tempno[f] # TempFileCounter
          BY <3>3, <4>0, <4>2
        <5>2. tempno'[g] = TempFileCounter
          BY <1>0, <2>1, <3>1, <4>2
        <5> QED BY <3>5, <5>1, <5>2
      <4>3. CASE f # cur /\ g # cur
        BY <3>3, <3>5, <4>3 DEF TempInv, TempNamesDiffer
      <4> QED BY <4>1, <4>2, <4>3
    <3>6. TempNamesDiffer'
      BY <3>5 DEF TempNamesDiffer
    <3> QED BY <2>1, <3>4, <3>6 DEF TempInv
  <2>3. CASE pc # "temp"
    <3>1. temp' \cap named' \subseteq temp \cap named
      BY <1>1, <2>3 DEF OpenSucceeds
    <3>2. \A f \in temp' \cap named' : tempno'[f] = tempno[f]
      BY <1>0, <1>1, <2>1, <2>3 DEF OpenSucceeds
    <3> QED BY <2>1, <3>1, <3>2 DEF TempInv, TempNamesDiffer
  <2> QED BY <2>2, <2>3
<1>2. CASE OpenFails \/ \E f \in File : file_close(f)
  <2>1. PICK f \in File : free_vfd(f)
    BY <1>2, CurIsEntry DEF OpenFails, file_close, CloseVfd
  <2>2. pc' \notin {"temp", "eoxact"} /\ TempFileCounter' = TempFileCounter
    BY <1>2 DEF OpenFails, file_close, Return, Enter, countVars
  <2>3. /\ temp' \cap named' \subseteq temp \cap named
        /\ \A g \in temp' \cap named' : tempno'[g] = tempno[g]
    BY <1>0, <2>1 DEF free_vfd
  <2> QED BY <2>2, <2>3 DEF TempInv, TempNamesDiffer
<1>3. CASE at_eo_xact_files
  <2>0. pc = "eoxact"
    BY <1>3 DEF at_eo_xact_files
  <2>1. CASE cur < size /\ cur \in temp /\ cur \in named
    <3>1. free_vfd(cur) /\ pc' = "eoxact" /\ cur' = cur + 1
          /\ TempFileCounter' = TempFileCounter
      BY <1>3, <2>0, <2>1, <1>0 DEF at_eo_xact_files, CloseVfd, Enter, countVars, VfdInv,
                                    TypeOK
    <3>2. /\ temp' \cap named' \subseteq (temp \cap named) \ {cur}
          /\ \A g \in temp' \cap named' : tempno'[g] = tempno[g]
      BY <1>0, <3>1 DEF free_vfd
    <3>3. \A g \in temp' \cap named' : g >= cur'
      <4> SUFFICES ASSUME NEW g \in temp' \cap named' PROVE g >= cur'
        OBVIOUS
      <4>1. g >= cur /\ g # cur /\ g \in Int
        BY <1>0, <2>0, <3>2 DEF TempInv
      <4> QED BY <1>0, <3>1, <4>1
    <3> QED BY <3>1, <3>2, <3>3 DEF TempInv, TempNamesDiffer
  <2>2. CASE cur < size /\ ~(cur \in temp /\ cur \in named)
    <3>1. /\ pc' = "eoxact" /\ cur' = cur + 1
          /\ UNCHANGED <<temp, named, tempno, TempFileCounter>>
      BY <1>3, <2>0, <2>2, <1>0 DEF at_eo_xact_files, Enter, slotVars, countVars, VfdInv,
                                    TypeOK
    <3>2. \A g \in temp \cap named : g >= cur'
      <4> SUFFICES ASSUME NEW g \in temp \cap named PROVE g >= cur'
        OBVIOUS
      <4>1. g >= cur /\ g # cur /\ g \in Int
        BY <1>0, <2>0, <2>2 DEF TempInv
      <4> QED BY <1>0, <3>1, <4>1
    <3> QED BY <3>1, <3>2 DEF TempInv, TempNamesDiffer
  <2>3. CASE cur >= size
    <3>1. UNCHANGED <<temp, named>>
      BY <1>3, <2>3, <1>0 DEF at_eo_xact_files, slotVars, VfdInv, TypeOK
    <3>2. temp \cap named = {}
      <4> SUFFICES ASSUME NEW g \in temp \cap named PROVE FALSE
        OBVIOUS
      <4>1. g >= cur /\ g \in 1..(size - 1) /\ size \in Int
        BY <2>0 DEF TempInv, VfdInv, Shape, TypeOK
      <4> QED BY <1>0, <2>3, <4>1
    <3> QED BY <3>1, <3>2 DEF TempInv, TempNamesDiffer
  <2> QED BY <1>0, <2>1, <2>2, <2>3 DEF VfdInv, TypeOK
<1>4. CASE \E kind \in OpenCalls : file_name_open_file(kind)
  <2>1. /\ UNCHANGED <<temp, named, tempno>> /\ pc' # "eoxact"
        /\ \/ pc' = "temp" /\ TempFileCounter' = TempFileCounter + 1
           \/ pc' # "temp" /\ TempFileCounter' = TempFileCounter
    BY <1>4 DEF file_name_open_file, OpenCalls
  <2>2. \A f \in temp \cap named :
          tempno[f] \in Nat /\ tempno[f] <= TempFileCounter
    BY <1>0 DEF TempInv
  <2>3. \A f \in temp \cap named :
          /\ tempno[f] <= TempFileCounter'
          /\ pc' = "temp" => tempno[f] < TempFileCounter'
    BY <1>0, <2>1, <2>2
  <2> QED BY <2>1, <2>3 DEF TempInv, TempNamesDiffer
<1>5. CASE Restart
  BY <1>5 DEF Restart, TempInv, TempNamesDiffer
<1>6. CASE BeginSweep("closeall") \/ BeginSweep("eoxact")
  <2>1. UNCHANGED <<temp, named, tempno, TempFileCounter>> /\ cur' = 1 /\ pc' # "temp"
    BY <1>6 DEF BeginSweep, Enter, slotVars, countVars
  <2>2. \A f \in named : f >= 1
    BY DEF VfdInv, Shape
  <2> QED BY <2>1, <2>2 DEF TempInv, TempNamesDiffer
<1>7. CASE /\ UNCHANGED <<temp, named, tempno, TempFileCounter>>
           /\ UNCHANGED <<pc, cur>> \/ pc' \notin {"temp", "eoxact"}
  BY <1>7 DEF TempInv, TempNamesDiffer
<1>8. CASE \/ release_lru_file \/ release_lru_file_aborts
           \/ ReopenSucceeds \/ ReopenAborts \/ ReopenFails
           \/ TransferSome \/ TransferNone \/ SeekEnd \/ SyncReopened \/ Truncate
           \/ close_all_vfds \/ sweep_aborts
           \/ allocate_file \/ FopenSucceeds \/ FopenFails \/ free_file
           \/ \E f \in File : \/ file_read(f) \/ file_write(f) \/ file_seek_end(f)
                              \/ \E o \in SeekOffsets : \/ file_seek_set(f, o)
                                                       \/ file_seek_cur(f, o)
                              \/ file_sync(f, "sync") \/ file_sync(f, "truncsync")
                              \/ file_mark_dirty(f) \/ file_close_aborts(f)
           \/ UNCHANGED vars
  <2>1. /\ UNCHANGED <<temp, named, tempno, TempFileCounter>>
        /\ UNCHANGED <<pc, cur>> \/ pc' \notin {"temp", "eoxact"}
    BY <1>8 DEF release_lru_file, release_lru_file_aborts, ReopenSucceeds,
         ReopenAborts, ReopenFails, TransferSome, TransferNone, SeekEnd, SyncReopened,
         Truncate, close_all_vfds, sweep_aborts, allocate_file, FopenSucceeds,
         FopenFails, free_file, file_read, file_write, BeginAccess, file_seek_end,
         file_seek_set, file_seek_cur, file_sync, file_mark_dirty, file_close_aborts,
         CloseAborts, Enter, Return, vars, slotVars, countVars
  <2> QED BY <1>7, <2>1
<1> QED BY <1>1, <1>2, <1>3, <1>4, <1>5, <1>6, <1>8 DEF Next

\* No two live temporary files of a backend share a name, although
\* at_eo_xact_files restarts the counter the names are made from.
THEOREM TempNamesAreUnique == Spec => []TempNamesDiffer
<1>1. Init => TempInv
  BY DEF Init, TempInv, TempNamesDiffer
<1>2. TempInv => TempNamesDiffer
  BY DEF TempInv
<1> QED BY <1>1, <1>2, TempStep, VfdInvariant, PTL DEF Spec

\* What keeps the positions: the caller's idea of a position is an offset or
\* unknown, and a transfer starts only where the position is known, which
\* release_lru_file does not change under it.
PosInv ==
  /\ PositionKept
  /\ \A f \in named : pos[f] >= FILE_UNKNOWN_POS
  /\ pc \in {"read", "write"} => seek_pos[cur] # FILE_UNKNOWN_POS

\* lru_delete asks the kernel for the offset it then loses.
LEMMA EvictPositions ==
  ASSUME VfdInv, PosInv, NEW f \in open, lru_delete(f), UNCHANGED named,
         pc' \in {"read", "write"} => pc' = pc /\ cur' = cur /\ f # cur
  PROVE  PosInv'
<1>1. /\ named \subseteq File /\ open \subseteq named
      /\ seek_pos \in [File -> Int] /\ koff \in [File -> Nat] /\ pos \in [File -> Int]
  BY DEF VfdInv, TypeOK, Shape
<1>2. /\ seek_pos' = [seek_pos EXCEPT ![f] = koff[f]]
      /\ koff' = [koff EXCEPT ![f] = 0] /\ pos' = pos /\ open' = open \ {f}
  BY DEF lru_delete
<1>3. koff[f] = pos[f]
  BY <1>1 DEF PosInv, PositionKept
<1>4. \A g \in named : /\ g # f => seek_pos'[g] = seek_pos[g] /\ koff'[g] = koff[g]
                      /\ g = f => seek_pos'[g] = pos[g]
  BY <1>1, <1>2, <1>3
<1>5. PositionKept'
  BY <1>1, <1>2, <1>4 DEF PosInv, PositionKept
<1>6. pc' \in {"read", "write"} => seek_pos'[cur'] # FILE_UNKNOWN_POS
  <2> SUFFICES ASSUME pc' \in {"read", "write"}
               PROVE  seek_pos'[cur'] # FILE_UNKNOWN_POS
    OBVIOUS
  <2>1. pc \in {"read", "write"} /\ cur' = cur /\ f # cur
    OBVIOUS
  <2>2. cur \in named
    BY <2>1 DEF VfdInv, Shape, ReopenCalls
  <2>3. seek_pos'[cur] = seek_pos[cur]
    BY <1>1, <1>2, <2>1, <2>2
  <2>4. seek_pos[cur] # FILE_UNKNOWN_POS
    BY <2>1 DEF PosInv
  <2> QED BY <2>1, <2>3, <2>4
<1> QED BY <1>2, <1>5, <1>6 DEF PosInv

\* Every step keeps the positions, provided callers seek to offsets of the
\* file and seek before a transfer after a short one.
LEMMA PosStep ==
  ASSUME SeekFirst = TRUE, SeekOffsets \subseteq Nat
  PROVE  VfdInv /\ PosInv /\ [Next]_vars => PosInv'
<1> SUFFICES ASSUME VfdInv, PosInv, [Next]_vars PROVE PosInv'
  OBVIOUS
<1>0. /\ named \subseteq File /\ open \subseteq named
      /\ seek_pos \in [File -> Int] /\ koff \in [File -> Nat] /\ pos \in [File -> Int]
  BY DEF VfdInv, TypeOK, Shape
<1>1. CASE OpenSucceeds
  <2>1. cur \in File /\ pc' = "idle"
    BY <1>1, CurIsEntry DEF OpenSucceeds, Return
  <2>2. /\ seek_pos' = [seek_pos EXCEPT ![cur] = 0]
        /\ koff' = [koff EXCEPT ![cur] = 0] /\ pos' = [pos EXCEPT ![cur] = 0]
        /\ named' = named \cup {cur} /\ open' = open \cup {cur}
    BY <1>0, <1>1, <2>1 DEF OpenSucceeds
  <2>3. \A g \in named' :
          /\ g # cur => /\ g \in named /\ (g \in open' <=> g \in open)
                        /\ seek_pos'[g] = seek_pos[g]
                        /\ koff'[g] = koff[g] /\ pos'[g] = pos[g]
          /\ g = cur => g \in open' /\ seek_pos'[g] = 0 /\ koff'[g] = 0 /\ pos'[g] = 0
    BY <1>0, <2>1, <2>2
  <2>4. 0 >= FILE_UNKNOWN_POS
    BY DEF FILE_UNKNOWN_POS
  <2> QED BY <2>1, <2>3, <2>4 DEF PosInv, PositionKept
<1>2. CASE OpenFails
  <2>1. named' \subseteq named /\ UNCHANGED <<seek_pos, koff, pos, open>>
        /\ pc' \notin {"read", "write"}
    BY <1>2 DEF OpenFails, free_vfd, posVars, Enter, Return
  <2> QED BY <2>1 DEF PosInv, PositionKept
<1>3. CASE release_lru_file
  <2>1. more[0] \in open
    BY <1>3, VictimIsOpen DEF release_lru_file, OpenCalls, ReopenCalls
  <2>2. lru_delete(more[0]) /\ UNCHANGED <<named, pc, cur>>
        /\ (pc \in {"read", "write"} => cur \notin open)
    BY <1>3 DEF release_lru_file, slotVars, OpenCalls
  <2> QED BY <2>1, <2>2, EvictPositions
<1>4. CASE close_all_vfds
  <2>1. CASE cur \in open /\ lru_delete(cur)
    <3>1. UNCHANGED named /\ pc' \notin {"read", "write"}
      BY <1>4 DEF close_all_vfds, slotVars, Enter, Return
    <3> QED BY <2>1, <3>1, EvictPositions
  <2>2. CASE ~(cur \in open /\ lru_delete(cur))
    <3>1. UNCHANGED <<named, open, seek_pos, koff, pos>> /\ pc' \notin {"read", "write"}
      BY <1>4, <2>2 DEF close_all_vfds, slotVars, posVars, Enter, Return
    <3> QED BY <3>1 DEF PosInv, PositionKept
  <2> QED BY <2>1, <2>2
<1>5. CASE at_eo_xact_files \/ \E f \in File : file_close(f)
  <2>0. pc' \notin {"read", "write"}
    BY <1>5 DEF at_eo_xact_files, file_close, Enter, Return
  <2>1. CASE \E f \in named : CloseVfd(f)
    <3>1. PICK f \in named : CloseVfd(f)
      BY <2>1
    <3>2. named' \subseteq named \ {f} /\ open' \ {f} = open \ {f} /\ seek_pos' = seek_pos
          /\ koff' = [koff EXCEPT ![f] = 0] /\ pos' = [pos EXCEPT ![f] = 0]
      BY <3>1 DEF CloseVfd, free_vfd
    <3>3. \A g \in named' : /\ g \in named /\ (g \in open' <=> g \in open)
                            /\ koff'[g] = koff[g] /\ pos'[g] = pos[g]
      BY <1>0, <3>2
    <3> QED BY <2>0, <3>2, <3>3 DEF PosInv, PositionKept
  <2>2. CASE ~\E f \in named : CloseVfd(f)
    <3>1. UNCHANGED <<named, open, seek_pos, koff, pos>>
      BY <1>5, <2>2 DEF at_eo_xact_files, file_close, slotVars, posVars
    <3> QED BY <2>0, <3>1 DEF PosInv, PositionKept
  <2> QED BY <2>1, <2>2
<1>6. CASE ReopenSucceeds
  <2>1. cur \in named /\ cur \notin open /\ seek_pos[cur] = pos[cur]
        /\ seek_pos[cur] >= 0
    BY <1>6 DEF ReopenSucceeds, VfdInv, Shape, PosInv, PositionKept
  <2>2. /\ open' = open \cup {cur} /\ koff' = [koff EXCEPT ![cur] = seek_pos[cur]]
        /\ UNCHANGED <<named, seek_pos, pos, pc, cur>>
    BY <1>6 DEF ReopenSucceeds, slotVars
  <2>3. \A g \in named : /\ g # cur => koff'[g] = koff[g]
                        /\ g = cur => koff'[g] = seek_pos[g]
    BY <1>0, <2>1, <2>2
  <2> QED BY <2>1, <2>2, <2>3 DEF PosInv, PositionKept
<1>7. CASE ReopenFails
  <2>1. cur \in named /\ cur \in File /\ cur \notin open
    BY <1>0, <1>7 DEF ReopenFails, VfdInv, Shape
  <2>2. UNCHANGED <<named, open, koff>> /\ pc' \notin {"read", "write"}
    BY <1>7 DEF ReopenFails, slotVars, Enter, Return
  <2>3. CASE pc \in {"read", "write", "seekend"}
    <3>1. /\ seek_pos' = [seek_pos EXCEPT ![cur] = FILE_UNKNOWN_POS]
          /\ pos' = [pos EXCEPT ![cur] = FILE_UNKNOWN_POS]
      BY <1>7, <2>3 DEF ReopenFails
    <3>2. \A g \in named :
            /\ g # cur => seek_pos'[g] = seek_pos[g] /\ pos'[g] = pos[g]
            /\ g = cur => seek_pos'[g] = FILE_UNKNOWN_POS /\ pos'[g] = FILE_UNKNOWN_POS
      BY <1>0, <3>1
    <3>3. FILE_UNKNOWN_POS >= FILE_UNKNOWN_POS
      BY DEF FILE_UNKNOWN_POS
    <3> QED BY <2>1, <2>2, <3>2, <3>3 DEF PosInv, PositionKept
  <2>4. CASE pc \notin {"read", "write", "seekend"}
    <3>1. UNCHANGED <<seek_pos, pos>>
      BY <1>7, <2>4 DEF ReopenFails
    <3> QED BY <2>2, <3>1 DEF PosInv, PositionKept
  <2> QED BY <2>3, <2>4
<1>8. CASE TransferSome \/ TransferNone
  <2>1. /\ cur \in open /\ cur \in File /\ pc' = "idle" /\ UNCHANGED <<named, open>>
        /\ koff[cur] = pos[cur] /\ seek_pos[cur] = pos[cur] /\ koff[cur] \in Nat
    BY <1>0, <1>8 DEF TransferSome, TransferNone, Return, slotVars, PosInv, PositionKept
  <2>2. CASE TransferSome
    <3>1. /\ koff' = [koff EXCEPT ![cur] = koff[cur] + 1]
          /\ seek_pos' = [seek_pos EXCEPT ![cur] = seek_pos[cur] + 1]
          /\ pos' = [pos EXCEPT ![cur] = pos[cur] + 1]
      BY <2>2 DEF TransferSome
    <3>2. /\ koff'[cur] = pos[cur] + 1 /\ seek_pos'[cur] = pos[cur] + 1
          /\ pos'[cur] = pos[cur] + 1 /\ pos[cur] + 1 >= FILE_UNKNOWN_POS
      BY <1>0, <2>1, <3>1 DEF FILE_UNKNOWN_POS
    <3>3. \A g \in named : g # cur => /\ seek_pos'[g] = seek_pos[g]
                                     /\ koff'[g] = koff[g] /\ pos'[g] = pos[g]
      BY <1>0, <2>1, <3>1
    <3> QED BY <1>0, <2>1, <3>2, <3>3 DEF PosInv, PositionKept
  <2>3. CASE TransferNone
    <3>1. /\ seek_pos' = [seek_pos EXCEPT ![cur] = FILE_UNKNOWN_POS]
          /\ UNCHANGED <<koff, pos>>
      BY <2>3 DEF TransferNone
    <3>2. \A g \in named : /\ g # cur => seek_pos'[g] = seek_pos[g]
                          /\ g = cur => seek_pos'[g] = FILE_UNKNOWN_POS
      BY <1>0, <3>1
    <3> QED BY <2>1, <3>1, <3>2 DEF PosInv, PositionKept
  <2> QED BY <1>8, <2>2, <2>3
<1>9. CASE SeekEnd
  <2>1. /\ cur \in open /\ cur \in File /\ pc' = "idle" /\ UNCHANGED <<named, open>>
    BY <1>0, <1>9 DEF SeekEnd, Return, slotVars
  <2>2. PICK p \in 0..MaxPos : Lseek(cur, p) /\ pos' = [pos EXCEPT ![cur] = p]
    BY <1>9 DEF SeekEnd
  <2>3. p >= 0 /\ p >= FILE_UNKNOWN_POS
    BY VfdAssumption DEF FILE_UNKNOWN_POS
  <2>4. \A g \in named :
          /\ g # cur => /\ seek_pos'[g] = seek_pos[g]
                        /\ koff'[g] = koff[g] /\ pos'[g] = pos[g]
          /\ g = cur => seek_pos'[g] = p /\ koff'[g] = p /\ pos'[g] = p
    BY <1>0, <2>2, <2>3 DEF Lseek
  <2> QED BY <2>1, <2>3, <2>4 DEF PosInv, PositionKept
<1>10. CASE \E f \in File, o \in SeekOffsets : file_seek_set(f, o)
  <2>1. PICK f \in File, o \in SeekOffsets : file_seek_set(f, o)
    BY <1>10
  <2>2. f \in named /\ pc' = "idle" /\ UNCHANGED <<named, open>>
        /\ o \in Nat /\ o >= 0 /\ o >= FILE_UNKNOWN_POS /\ o # FILE_UNKNOWN_POS
    BY <2>1 DEF file_seek_set, Return, slotVars, FILE_UNKNOWN_POS
  <2>3. pos' = [pos EXCEPT ![f] = o]
    BY <2>1, <2>2 DEF file_seek_set
  <2>4. /\ seek_pos' = [seek_pos EXCEPT ![f] = o] \/ seek_pos' = seek_pos
        /\ koff' = [koff EXCEPT ![f] = o] \/ koff' = koff
    BY <2>1, <2>2 DEF file_seek_set, Lseek
  <2>5. seek_pos'[f] = o /\ (f \in open => koff'[f] = o)
    <3>1. CASE f \notin open
      BY <1>0, <2>1, <3>1 DEF file_seek_set
    <3>2. CASE f \in open /\ seek_pos[f] # o
      BY <1>0, <2>1, <2>2, <3>2 DEF file_seek_set, Lseek
    <3>3. CASE f \in open /\ seek_pos[f] = o
      BY <2>1, <2>2, <3>3 DEF file_seek_set, PosInv, PositionKept
    <3> QED BY <3>1, <3>2, <3>3
  <2>6. \A g \in named :
          /\ g # f => /\ seek_pos'[g] = seek_pos[g]
                      /\ koff'[g] = koff[g] /\ pos'[g] = pos[g]
          /\ g = f => pos'[g] = o
    BY <1>0, <2>2, <2>3, <2>4
  <2> QED BY <2>2, <2>5, <2>6 DEF PosInv, PositionKept
<1>11. CASE \E f \in File, o \in SeekOffsets : file_seek_cur(f, o)
  <2>1. PICK f \in File, o \in SeekOffsets : file_seek_cur(f, o)
    BY <1>11
  <2>2. f \in named /\ pc' = "idle" /\ UNCHANGED <<named, open>> /\ o \in Nat
        /\ (seek_pos[f] # FILE_UNKNOWN_POS \/ f \in open)
    BY <2>1 DEF file_seek_cur, Return, slotVars
  <2>3. /\ pos[f] \in Int /\ pos[f] >= 0 /\ pos[f] + o >= 0
        /\ pos[f] + o >= FILE_UNKNOWN_POS
    <3>1. pos[f] # FILE_UNKNOWN_POS
      <4>1. CASE f \in open
        <5>1. koff[f] = pos[f] /\ koff[f] \in Nat
          BY <1>0, <2>2, <4>1 DEF PosInv, PositionKept
        <5> QED BY <5>1 DEF FILE_UNKNOWN_POS
      <4>2. CASE f \notin open
        BY <2>2, <4>2 DEF PosInv, PositionKept
      <4> QED BY <4>1, <4>2
    <3>2. pos[f] \in Int /\ pos[f] >= FILE_UNKNOWN_POS
      BY <1>0, <2>2 DEF PosInv
    <3> QED BY <2>2, <3>1, <3>2 DEF FILE_UNKNOWN_POS
  <2>4. pos' = [pos EXCEPT ![f] = pos[f] + o]
    BY <2>1, <2>3 DEF file_seek_cur
  <2>5. CASE f \notin open
    <3>1. seek_pos[f] = pos[f]
      BY <2>2, <2>5 DEF PosInv, PositionKept
    <3>2. seek_pos' = [seek_pos EXCEPT ![f] = pos[f] + o] /\ koff' = koff
      BY <2>1, <2>5, <3>1 DEF file_seek_cur
    <3>3. \A g \in named :
            /\ g # f => seek_pos'[g] = seek_pos[g] /\ pos'[g] = pos[g]
            /\ g = f => seek_pos'[g] = pos[f] + o /\ pos'[g] = pos[f] + o
      BY <1>0, <2>4, <3>2
    <3> QED BY <2>2, <2>3, <2>5, <3>2, <3>3 DEF PosInv, PositionKept
  <2>6. CASE f \in open /\ (o # 0 \/ seek_pos[f] = FILE_UNKNOWN_POS)
    <3>1. koff[f] = pos[f]
      BY <2>2, <2>6 DEF PosInv, PositionKept
    <3>2. /\ seek_pos' = [seek_pos EXCEPT ![f] = pos[f] + o]
          /\ koff' = [koff EXCEPT ![f] = pos[f] + o]
      BY <2>1, <2>3, <2>6, <3>1 DEF file_seek_cur, Lseek
    <3>3. \A g \in named :
            /\ g # f => /\ seek_pos'[g] = seek_pos[g] /\ koff'[g] = koff[g]
                        /\ pos'[g] = pos[g]
            /\ g = f => /\ seek_pos'[g] = pos[f] + o /\ koff'[g] = pos[f] + o
                        /\ pos'[g] = pos[f] + o
      BY <1>0, <2>4, <3>2
    <3> QED BY <2>2, <2>3, <2>6, <3>3 DEF PosInv, PositionKept
  <2>7. CASE f \in open /\ o = 0 /\ seek_pos[f] # FILE_UNKNOWN_POS
    <3>1. UNCHANGED <<seek_pos, koff>>
      BY <2>1, <2>7 DEF file_seek_cur
    <3>2. pos[f] + o = pos[f]
      BY <2>3, <2>7
    <3>3. pos' = pos
      BY <1>0, <2>4, <3>2
    <3> QED BY <2>2, <3>1, <3>3 DEF PosInv, PositionKept
  <2> QED BY <2>5, <2>6, <2>7
<1>12. CASE \E f \in File : file_read(f) \/ file_write(f)
  <2>1. PICK f \in File : file_read(f) \/ file_write(f)
    BY <1>12
  <2>2. seek_pos[f] # FILE_UNKNOWN_POS /\ cur' = f
        /\ UNCHANGED <<named, open, seek_pos, koff, pos>>
    BY <2>1 DEF file_read, file_write, BeginAccess, Enter, slotVars, posVars
  <2> QED BY <2>2 DEF PosInv, PositionKept
<1>13. CASE Restart
  BY <1>13 DEF Restart, Return, PosInv, PositionKept
<1>14. CASE \/ \E kind \in OpenCalls : file_name_open_file(kind)
            \/ release_lru_file_aborts \/ ReopenAborts \/ SyncReopened \/ Truncate
            \/ BeginSweep("closeall") \/ BeginSweep("eoxact") \/ sweep_aborts
            \/ allocate_file \/ FopenSucceeds \/ FopenFails \/ free_file
            \/ \E f \in File : \/ file_seek_end(f)
                               \/ file_sync(f, "sync") \/ file_sync(f, "truncsync")
                               \/ file_mark_dirty(f) \/ file_close_aborts(f)
  <2>1. UNCHANGED <<named, open, seek_pos, koff, pos>> /\ pc' \notin {"read", "write"}
    BY <1>14 DEF file_name_open_file, release_lru_file_aborts, ReopenAborts,
         SyncReopened, Truncate, BeginSweep, sweep_aborts, allocate_file,
         FopenSucceeds, FopenFails, free_file, file_seek_end, file_sync,
         file_mark_dirty, file_close_aborts, CloseAborts, Enter, Return, OpenCalls,
         slotVars, posVars
  <2> QED BY <2>1 DEF PosInv, PositionKept
<1>15. CASE UNCHANGED vars
  BY <1>15 DEF vars, slotVars, posVars, PosInv, PositionKept
<1> QED
  BY <1>1, <1>2, <1>3, <1>4, <1>5, <1>6, <1>7, <1>8, <1>9, <1>10, <1>11, <1>12, <1>13,
     <1>14, <1>15 DEF Next

\* Closing and reopening descriptors behind a caller's back moves no file, for
\* callers that seek to offsets of the file and seek again after a short
\* transfer, as those in md.c do.  (Either condition is needed: file_seek on a
\* closed file stores a negative offset it would refuse on an open one.)
THEOREM PositionsAreKept ==
  ASSUME SeekFirst = TRUE, SeekOffsets \subseteq Nat
  PROVE  Spec => []PositionKept
<1>1. Init => PosInv
  BY DEF Init, PosInv, PositionKept, FILE_UNKNOWN_POS
<1>2. PosInv => PositionKept
  BY DEF PosInv
<1> QED BY <1>1, <1>2, PosStep, VfdInvariant, PTL DEF Spec
=============================================================================
