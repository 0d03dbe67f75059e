----------------------------- MODULE RingProofs -----------------------------
(***************************************************************************)
(* What the link assignments of Ring do to a list, for lists of any        *)
(* length: appending adds one member, unlinking removes one, and the       *)
(* header's links are the two ends.                                        *)
(*                                                                         *)
(* Then the same for lists whose order matters: a list is a sequence, and  *)
(* the next and prev fields hold it when they lead through its elements.   *)
(* Any code that changes fields the way a linked list is changed holds     *)
(* the changed sequence afterwards, whichever field comes first and        *)
(* whether the ends are a header, a null pointer or a dummy element, and   *)
(* following the links (Follow) reads off the sequence that they hold.     *)
(*                                                                         *)
(* Last, loops that double a number until it is large enough: the models   *)
(* write them as recursive functions, and the lemmas show that there is    *)
(* one and what it returns, by a smallest counterexample, since the        *)
(* distance to the bound shrinks.                                          *)
(***************************************************************************)
EXTENDS Ring, SequencesExt, SequenceTheorems, FiniteSetTheorems,
        NaturalsInduction, WellFoundedInduction, TLAPS

\* The strict order of the natural numbers, as a relation.
LessThan == {ss \in Nat \X Nat : ss[1] < ss[2]}

\* Among some natural numbers there is a smallest one: what stands in for an
\* induction in the proofs about walks, loops and minima.
LEMMA Smallest ==
  ASSUME NEW S, S \subseteq Nat, S # {}
  PROVE  \E x \in S : \A y \in S : x <= y
<1>1. LessThan = OpToRel(<, Nat)
  BY Zenon DEF OpToRel, LessThan
<1>2. IsWellFoundedOn(LessThan, Nat)
  BY <1>1, NatLessThanWellFounded, Zenon
<1>3. \E x \in S : \A y \in S : ~(<<y, x>> \in LessThan)
  BY <1>2, WFMin
<1>4. \A x, y \in Nat : ~(<<y, x>> \in LessThan) => x <= y
  BY DEF LessThan
<1> QED BY <1>3, <1>4

\* Putting a new element in front of the header keeps the list a ring and
\* adds that element to its members (insert of fd.c, add_buffer_to_freelist
\* of freelist.c, shm_queue_insert_before of shmqueue.c).
THEOREM RingAppend ==
  ASSUME NEW D, NEW R, NEW S, NEW h \in D, NEW e \in D, S \subseteq D,
         IsFiniteSet(S), h \notin S, e \notin S, e # h,
         NEW next \in [D -> R], NEW prev \in [D -> R],
         IsRing(h, S, next, prev)
  PROVE  IsRing(h, S \cup {e}, NextAppended(next, prev, h, e),
                               PrevAppended(next, prev, h, e))
<1> DEFINE n == Cardinality(S)
           nx == NextAppended(next, prev, h, e)
           pv == PrevAppended(next, prev, h, e)
<1>1. n \in Nat /\ Cardinality(S \cup {e}) = n + 1
  BY FS_AddElement, FS_CardinalityType
<1>2. PICK s \in [1..n -> S] : Enumerates(s, n, S) /\ Linked(h, s, n, next, prev)
  BY DEF IsRing
<1> DEFINE t == [i \in 1..(n + 1) |-> IF i = n + 1 THEN e ELSE s[i]]
<1> HIDE DEF n
<1>3. t \in [1..(n + 1) -> S \cup {e}]
  BY <1>1, <1>2
<1>4. Enumerates(t, n + 1, S \cup {e})
  BY <1>1, <1>2 DEF Enumerates
<1>5. /\ prev[h] = At(h, s, n, n)
      /\ \A i \in 0..n : At(h, t, n + 1, i) = At(h, s, n, i)
      /\ At(h, t, n + 1, n + 1) = e
      /\ At(h, t, n + 1, n + 2) = h
      /\ \A i \in 0..n : At(h, s, n, i) \in D /\ At(h, s, n, i) # e
      /\ At(h, s, n, n + 1) = h
  BY <1>1, <1>2 DEF At, Linked
<1>6. \A i, j \in 0..n : At(h, s, n, i) = At(h, s, n, j) => i = j
  BY <1>1, <1>2 DEF At, Enumerates
<1>7. ASSUME NEW i \in 0..(n + 1)
      PROVE  /\ nx[At(h, t, n + 1, i)] = At(h, t, n + 1, i + 1)
             /\ pv[At(h, t, n + 1, i + 1)] = At(h, t, n + 1, i)
  <2>1. CASE i = n + 1
    BY <2>1, <1>1, <1>5 DEF NextAppended, PrevAppended
  <2>2. CASE i = n
    BY <2>2, <1>1, <1>5 DEF NextAppended, PrevAppended
  <2>3. CASE i \in 0..(n - 1)
    <3>1. i \in 0..n /\ i + 1 \in 0..n /\ i # n /\ i + 1 # 0
      BY <2>3, <1>1
    <3>2. At(h, s, n, i) # At(h, s, n, n)
      BY <3>1, <1>1, <1>6
    <3>3. nx[At(h, s, n, i)] = next[At(h, s, n, i)]
      BY <3>1, <3>2, <1>5 DEF NextAppended
    <3>4. At(h, s, n, i + 1) # h
      BY <3>1, <1>1, <1>2 DEF At
    <3>5. pv[At(h, s, n, i + 1)] = prev[At(h, s, n, i + 1)]
      BY <3>1, <3>4, <1>5 DEF PrevAppended
    <3> QED
      BY <3>1, <3>3, <3>5, <1>2, <1>5 DEF Linked
  <2> QED BY <2>1, <2>2, <2>3, <1>1
<1>8. Linked(h, t, n + 1, nx, pv)
  BY <1>7 DEF Linked
<1> QED BY <1>1, <1>3, <1>4, <1>8 DEF IsRing, n

\* Closing the links around an element keeps the list a ring and removes that
\* element, and no other, from its members (delete of fd.c, pin_buffer and
\* get_free_buffer of freelist.c, shm_queue_delete of shmqueue.c).
THEOREM RingUnlink ==
  ASSUME NEW D, NEW R, NEW S, NEW h \in D, NEW e \in S, S \subseteq D,
         IsFiniteSet(S), h \notin S,
         NEW next \in [D -> R], NEW prev \in [D -> R],
         IsRing(h, S, next, prev)
  PROVE  IsRing(h, S \ {e}, NextUnlinked(next, prev, e),
                            PrevUnlinked(next, prev, e))
<1> DEFINE n == Cardinality(S)
           nx == NextUnlinked(next, prev, e)
           pv == PrevUnlinked(next, prev, e)
<1>1. n \in Nat /\ Cardinality(S \ {e}) = n - 1
  BY FS_RemoveElement, FS_CardinalityType
<1>2. PICK s \in [1..n -> S] : Enumerates(s, n, S) /\ Linked(h, s, n, next, prev)
  BY DEF IsRing
<1> HIDE DEF n
<1>3. PICK k \in 1..n : s[k] = e
  BY <1>2 DEF Enumerates
<1> DEFINE m == n - 1
           t == [i \in 1..m |-> IF i < k THEN s[i] ELSE s[i + 1]]
<1>4. m \in Nat /\ n = m + 1 /\ k \in 1..(m + 1) /\ k \in Nat
  BY <1>1, <1>3
<1>5. \A i \in 1..n : s[i] = e => i = k
  BY <1>2, <1>3 DEF Enumerates
<1>6. t \in [1..m -> S \ {e}]
  <2> SUFFICES ASSUME NEW i \in 1..m PROVE t[i] \in S \ {e}
    OBVIOUS
  <2>1. CASE i < k BY <2>1, <1>2, <1>4, <1>5
  <2>2. CASE ~(i < k)
    <3>1. i + 1 \in 1..n /\ i + 1 # k BY <2>2, <1>4
    <3> QED BY <3>1, <2>2, <1>2, <1>4, <1>5
  <2> QED BY <2>1, <2>2
<1>7. Enumerates(t, m, S \ {e})
  <2>1. ASSUME NEW x \in S \ {e} PROVE \E i \in 1..m : t[i] = x
    <3>1. PICK j \in 1..n : s[j] = x
      BY <1>2 DEF Enumerates
    <3>2. CASE j < k BY <3>1, <3>2, <1>4
    <3>3. CASE j > k
      <4>1. j - 1 \in 1..m /\ ~(j - 1 < k) /\ (j - 1) + 1 = j
        BY <3>3, <1>4
      <4>2. t[j - 1] = s[j] BY <4>1
      <4> QED BY <4>1, <4>2, <3>1
    <3> QED BY <3>1, <3>2, <3>3, <1>3, <1>4
  <2>2. ASSUME NEW i \in 1..m, NEW j \in 1..m, t[i] = t[j] PROVE i = j
    <3>1. \A a, b \in 1..n : s[a] = s[b] => a = b
      BY <1>2 DEF Enumerates
    <3> DEFINE p(a) == IF a < k THEN a ELSE a + 1
    <3>2. p(i) \in 1..n /\ p(j) \in 1..n /\ t[i] = s[p(i)] /\ t[j] = s[p(j)]
      BY <1>4
    <3>3. p(i) = p(j) BY <3>1, <3>2, <2>2
    <3> QED BY <3>3, <1>4
  <2> QED BY <2>1, <2>2 DEF Enumerates
<1>8. /\ prev[e] = At(h, s, n, k - 1)
      /\ next[e] = At(h, s, n, k + 1)
  <2>1. k \in 0..n /\ k - 1 \in 0..n /\ (k - 1) + 1 = k /\ At(h, s, n, k) = e
    BY <1>3, <1>4 DEF At
  <2> QED BY <2>1, <1>2 DEF Linked
<1>9. /\ \A i \in 0..(k - 1) : At(h, t, m, i) = At(h, s, n, i)
      /\ \A i \in k..(m + 1) : At(h, t, m, i) = At(h, s, n, i + 1)
  BY <1>3, <1>4 DEF At
<1>10. /\ \A i \in 0..n : At(h, s, n, i) \in D
       /\ \A i, j \in 0..n : At(h, s, n, i) = At(h, s, n, j) => i = j
       /\ \A i, j \in 1..(n + 1) : At(h, s, n, i) = At(h, s, n, j) => i = j
       /\ At(h, s, n, n + 1) = h
  BY <1>1, <1>2 DEF At, Enumerates
<1>11. ASSUME NEW i \in 0..m
       PROVE  /\ nx[At(h, t, m, i)] = At(h, t, m, i + 1)
              /\ pv[At(h, t, m, i + 1)] = At(h, t, m, i)
  <2>1. CASE i < k - 1
    <3>1. /\ i \in 0..n /\ i + 1 \in 1..(n + 1) /\ i + 1 \in 0..(k - 1)
          /\ i \in 0..(k - 1) /\ k - 1 \in 0..n /\ k + 1 \in 1..(n + 1)
          /\ i # k - 1 /\ i + 1 # k + 1 /\ i + 1 \in 0..n
      BY <2>1, <1>4
    <3>2. At(h, s, n, i) # prev[e] /\ At(h, s, n, i + 1) # next[e]
      BY <3>1, <1>8, <1>10
    <3>3. /\ nx[At(h, s, n, i)] = next[At(h, s, n, i)]
          /\ pv[At(h, s, n, i + 1)] = prev[At(h, s, n, i + 1)]
      BY <3>1, <3>2, <1>10 DEF NextUnlinked, PrevUnlinked
    <3> QED BY <3>1, <3>3, <1>2, <1>9 DEF Linked
  <2>2. CASE i = k - 1
    <3>1. /\ i \in 0..(k - 1) /\ i + 1 \in k..(m + 1) /\ (i + 1) + 1 = k + 1
          /\ k - 1 \in 0..n
      BY <2>2, <1>4
    <3>2. At(h, t, m, i) = prev[e] /\ At(h, t, m, i + 1) = next[e]
      BY <3>1, <2>2, <1>8, <1>9
    <3>3. prev[e] \in D /\ next[e] \in D /\ e \in D
      BY <1>2, <1>4, <1>8 DEF At
    <3> QED BY <3>2, <3>3 DEF NextUnlinked, PrevUnlinked
  <2>3. CASE i > k - 1
    <3>1. /\ i \in k..(m + 1) /\ i + 1 \in k..(m + 1)
          /\ i + 1 \in 0..n /\ (i + 1) + 1 \in 1..(n + 1)
          /\ i + 1 # k - 1 /\ (i + 1) + 1 # k + 1
          /\ k - 1 \in 0..n /\ k + 1 \in 1..(n + 1)
      BY <2>3, <1>4
    <3>2. At(h, s, n, i + 1) # prev[e] /\ At(h, s, n, (i + 1) + 1) # next[e]
      BY <3>1, <1>8, <1>10
    <3>3. At(h, s, n, i + 1) \in D /\ At(h, s, n, (i + 1) + 1) \in D
      BY <3>1, <1>2, <1>10 DEF At
    <3>4. /\ nx[At(h, s, n, i + 1)] = next[At(h, s, n, i + 1)]
          /\ pv[At(h, s, n, (i + 1) + 1)] = prev[At(h, s, n, (i + 1) + 1)]
      BY <3>2, <3>3 DEF NextUnlinked, PrevUnlinked
    <3> QED BY <3>1, <3>4, <1>2, <1>9 DEF Linked
  <2> QED BY <2>1, <2>2, <2>3, <1>4
<1>12. Linked(h, t, m, nx, pv)
  BY <1>11 DEF Linked
<1> QED BY <1>1, <1>6, <1>7, <1>12 DEF IsRing, n

\* The header's next link is a member of a list that is not empty and the
\* header itself when it is: the test get_free_buffer makes, and the
\* assertion of release_lru_file.
LEMMA RingFirst ==
  ASSUME NEW S, NEW h, IsFiniteSet(S), h \notin S,
         NEW next, NEW prev, IsRing(h, S, next, prev)
  PROVE  /\ S = {} => next[h] = h /\ prev[h] = h
         /\ S # {} => next[h] \in S /\ prev[h] \in S
<1> DEFINE n == Cardinality(S)
<1>1. n \in Nat /\ (n = 0 <=> S = {})
  BY FS_EmptySet, FS_CardinalityType
<1>2. PICK s \in [1..n -> S] : Enumerates(s, n, S) /\ Linked(h, s, n, next, prev)
  BY DEF IsRing
<1> HIDE DEF n
<1>3. next[At(h, s, n, 0)] = At(h, s, n, 1) /\ prev[At(h, s, n, n + 1)] = At(h, s, n, n)
  BY <1>1, <1>2 DEF Linked
<1> QED BY <1>1, <1>2, <1>3 DEF At

\* A list without members is a ring exactly when its header points to itself.
LEMMA RingEmpty ==
  ASSUME NEW h, NEW next, NEW prev, next[h] = h, prev[h] = h
  PROVE  IsRing(h, {}, next, prev)
<1>1. Cardinality({}) = 0
  BY FS_EmptySet
<1> DEFINE s == [i \in 1..0 |-> h]
<1>2. s \in [1..0 -> {}]
  OBVIOUS
<1>3. Enumerates(s, 0, {}) /\ Linked(h, s, 0, next, prev)
  BY DEF Enumerates, Linked, At
<1> QED BY <1>1, <1>2, <1>3 DEF IsRing

\* Only the links of the header and of the members matter, so that those of
\* other elements may be overwritten (with INVALID_DESCRIPTOR, say).
LEMMA RingFrame ==
  ASSUME NEW S, NEW h, NEW next, NEW prev, NEW nx, NEW pv, IsFiniteSet(S),
         IsRing(h, S, next, prev),
         \A x \in S \cup {h} : nx[x] = next[x] /\ pv[x] = prev[x]
  PROVE  IsRing(h, S, nx, pv)
<1> DEFINE n == Cardinality(S)
<1>1. PICK s \in [1..n -> S] : Enumerates(s, n, S) /\ Linked(h, s, n, next, prev)
  BY DEF IsRing
<1>2. \A i : At(h, s, n, i) \in S \cup {h}
  BY DEF At
<1>3. Linked(h, s, n, nx, pv)
  BY <1>1, <1>2 DEF Linked
<1> QED BY <1>1, <1>3 DEF IsRing

\* The neighbours of a member are members or the header.
LEMMA RingNeighbours ==
  ASSUME NEW S, NEW h, IsFiniteSet(S), NEW next, NEW prev,
         IsRing(h, S, next, prev), NEW e \in S
  PROVE  next[e] \in S \cup {h} /\ prev[e] \in S \cup {h}
<1> DEFINE n == Cardinality(S)
<1>1. n \in Nat
  BY FS_CardinalityType
<1>2. PICK s \in [1..n -> S] : Enumerates(s, n, S) /\ Linked(h, s, n, next, prev)
  BY DEF IsRing
<1> HIDE DEF n
<1>3. PICK k \in 1..n : s[k] = e
  BY <1>2 DEF Enumerates
<1>4. k \in 0..n /\ k - 1 \in 0..n /\ (k - 1) + 1 = k /\ At(h, s, n, k) = e
  BY <1>1, <1>3 DEF At
<1>5. next[e] = At(h, s, n, k + 1) /\ prev[e] = At(h, s, n, k - 1)
  BY <1>2, <1>4 DEF Linked
<1>6. \A i : At(h, s, n, i) \in S \cup {h}
  BY DEF At
<1> QED BY <1>5, <1>6

-----------------------------------------------------------------------------
(* The same for the singly linked free list of fd.c.                       *)

\* The header's link is a member of a free list that is not empty and the
\* header itself when it is: the test allocate_vfd makes.
LEMMA ChainFirst ==
  ASSUME NEW S, NEW h, IsFiniteSet(S), h \notin S, NEW next, IsChain(h, S, next)
  PROVE  /\ S = {} => next[h] = h
         /\ S # {} => next[h] \in S
<1> DEFINE n == Cardinality(S)
<1>1. n \in Nat /\ (n = 0 <=> S = {})
  BY FS_EmptySet, FS_CardinalityType
<1>2. PICK s \in [1..n -> S] :
        \A i \in 0..n : next[At(h, s, n, i)] = At(h, s, n, i + 1)
  BY DEF IsChain
<1> HIDE DEF n
<1>3. next[At(h, s, n, 0)] = At(h, s, n, 1)
  BY <1>1, <1>2
<1> QED BY <1>1, <1>2, <1>3 DEF At

\* A free list without members is one whose header points to itself.
LEMMA ChainEmpty ==
  ASSUME NEW h, NEW next, next[h] = h
  PROVE  IsChain(h, {}, next)
<1>1. Cardinality({}) = 0
  BY FS_EmptySet
<1> DEFINE s == [i \in 1..0 |-> h]
<1>2. s \in [1..0 -> {}]
  OBVIOUS
<1>3. Enumerates(s, 0, {}) /\ \A i \in 0..0 : next[At(h, s, 0, i)] = At(h, s, 0, i + 1)
  BY DEF Enumerates, At
<1> QED BY <1>1, <1>2, <1>3 DEF IsChain

\* Only the links of the header and of the members matter.
LEMMA ChainFrame ==
  ASSUME NEW S, NEW h, NEW next, NEW g, IsFiniteSet(S), IsChain(h, S, next),
         g[h] = next[h], \A x \in S : g[x] = next[x]
  PROVE  IsChain(h, S, g)
<1> DEFINE n == Cardinality(S)
<1>1. PICK s \in [1..n -> S] :
        /\ Enumerates(s, n, S)
        /\ \A i \in 0..n : next[At(h, s, n, i)] = At(h, s, n, i + 1)
  BY DEF IsChain
<1>2. \A i \in 0..n : At(h, s, n, i) \in S \cup {h}
  BY DEF At
<1>3. \A i \in 0..n : g[At(h, s, n, i)] = At(h, s, n, i + 1)
  BY <1>1, <1>2
<1> QED BY <1>1, <1>3 DEF IsChain

\* No two links of the list lead to the same place.
LEMMA ChainInjective ==
  ASSUME NEW S, NEW h, IsFiniteSet(S), h \notin S, NEW next, IsChain(h, S, next),
         NEW x \in S \cup {h}, NEW y \in S \cup {h}, next[x] = next[y]
  PROVE  x = y
<1> DEFINE n == Cardinality(S)
<1>1. n \in Nat
  BY FS_CardinalityType
<1>2. PICK s \in [1..n -> S] :
        /\ Enumerates(s, n, S)
        /\ \A i \in 0..n : next[At(h, s, n, i)] = At(h, s, n, i + 1)
  BY DEF IsChain
<1> HIDE DEF n
<1>3. \A z \in S \cup {h} : \E i \in 0..n : At(h, s, n, i) = z
  BY <1>1, <1>2 DEF At, Enumerates
<1>4. PICK i \in 0..n : At(h, s, n, i) = x
  BY <1>3
<1>5. PICK j \in 0..n : At(h, s, n, j) = y
  BY <1>3
<1>6. At(h, s, n, i + 1) = At(h, s, n, j + 1)
  BY <1>2, <1>4, <1>5
<1>7. i + 1 = j + 1
  BY <1>1, <1>2, <1>6 DEF At, Enumerates
<1> QED BY <1>1, <1>4, <1>5, <1>7

\* Taking the first entry off the free list (allocate_vfd, fdvec_alloc).
LEMMA ChainPop ==
  ASSUME NEW D, NEW R, NEW S, NEW h \in D, S \subseteq D, IsFiniteSet(S),
         h \notin S, S # {}, NEW next \in [D -> R], IsChain(h, S, next)
  PROVE  /\ next[h] \in S
         /\ IsChain(h, S \ {next[h]}, [next EXCEPT ![h] = next[next[h]]])
<1> DEFINE n == Cardinality(S)
           e == next[h]
           g == [next EXCEPT ![h] = next[next[h]]]
<1>1. e \in S
  BY ChainFirst
<1>2. n \in Nat /\ Cardinality(S \ {e}) = n - 1
  BY <1>1, FS_RemoveElement, FS_CardinalityType
<1>3. PICK s \in [1..n -> S] :
        /\ Enumerates(s, n, S)
        /\ \A i \in 0..n : next[At(h, s, n, i)] = At(h, s, n, i + 1)
  BY DEF IsChain
<1> HIDE DEF n
<1> DEFINE m == n - 1
           t == [i \in 1..m |-> s[i + 1]]
<1>4. m \in Nat /\ n = m + 1 /\ 1 \in 1..n /\ e = s[1]
  <2>1. PICK i \in 1..n : s[i] = e BY <1>1, <1>3 DEF Enumerates
  <2>2. next[At(h, s, n, 0)] = At(h, s, n, 1) BY <1>2, <1>3
  <2> QED BY <2>1, <2>2, <1>2 DEF At
<1>5. t \in [1..m -> S \ {e}]
  BY <1>3, <1>4 DEF Enumerates
<1>6. Enumerates(t, m, S \ {e})
  <2>1. ASSUME NEW x \in S \ {e} PROVE \E i \in 1..m : t[i] = x
    <3>1. PICK j \in 1..n : s[j] = x BY <1>3 DEF Enumerates
    <3>2. j # 1 BY <3>1, <1>4
    <3>3. j - 1 \in 1..m /\ (j - 1) + 1 = j BY <3>2, <1>4
    <3> QED BY <3>1, <3>3
  <2>2. \A i, j \in 1..m : t[i] = t[j] => i = j
    BY <1>3, <1>4 DEF Enumerates
  <2> QED BY <2>1, <2>2 DEF Enumerates
<1>7. ASSUME NEW i \in 0..m
      PROVE  g[At(h, t, m, i)] = At(h, t, m, i + 1)
  <2>1. next[At(h, s, n, i + 1)] = At(h, s, n, (i + 1) + 1)
    BY <1>3, <1>4
  <2>2. At(h, t, m, i + 1) = At(h, s, n, (i + 1) + 1)
    BY <1>4 DEF At
  <2>3. CASE i = 0
    <3>1. At(h, t, m, i) = h /\ At(h, s, n, i + 1) = e
      BY <2>3, <1>4 DEF At
    <3> QED BY <3>1, <2>1, <2>2
  <2>4. CASE i # 0
    <3>0. i \in 1..m /\ i + 1 \in 1..n
      BY <2>4, <1>4
    <3>1. At(h, t, m, i) = At(h, s, n, i + 1) /\ At(h, t, m, i) \in S
      <4>1. t[i] = s[i + 1] /\ s[i + 1] \in S
        BY <3>0, <1>3
      <4> QED BY <3>0, <4>1 DEF At
    <3>2. g[At(h, t, m, i)] = next[At(h, t, m, i)]
      BY <3>1
    <3> QED BY <3>1, <3>2, <2>1, <2>2
  <2> QED BY <2>3, <2>4
<1> QED BY <1>1, <1>2, <1>5, <1>6, <1>7 DEF IsChain, n

\* Putting an entry at the head of the free list (free_vfd, fdvec_free).
LEMMA ChainPush ==
  ASSUME NEW D, NEW R, NEW S, NEW h \in D, NEW e \in D, S \subseteq D,
         IsFiniteSet(S), h \notin S, e \notin S, e # h, NEW next \in [D -> R],
         IsChain(h, S, next)
  PROVE  IsChain(h, S \cup {e}, [next EXCEPT ![e] = next[h], ![h] = e])
<1> DEFINE n == Cardinality(S)
           g == [next EXCEPT ![e] = next[h], ![h] = e]
<1>1. n \in Nat /\ Cardinality(S \cup {e}) = n + 1
  BY FS_AddElement, FS_CardinalityType
<1>2. PICK s \in [1..n -> S] :
        /\ Enumerates(s, n, S)
        /\ \A i \in 0..n : next[At(h, s, n, i)] = At(h, s, n, i + 1)
  BY DEF IsChain
<1> HIDE DEF n
<1> DEFINE t == [i \in 1..(n + 1) |-> IF i = 1 THEN e ELSE s[i - 1]]
<1>3. t \in [1..(n + 1) -> S \cup {e}]
  BY <1>1, <1>2
<1>4. Enumerates(t, n + 1, S \cup {e})
  <2>1. ASSUME NEW x \in S \cup {e} PROVE \E i \in 1..(n + 1) : t[i] = x
    <3>1. CASE x = e BY <3>1, <1>1
    <3>2. CASE x \in S
      <4>1. PICK j \in 1..n : s[j] = x BY <3>2, <1>2 DEF Enumerates
      <4>2. j + 1 \in 1..(n + 1) /\ j + 1 # 1 /\ (j + 1) - 1 = j BY <1>1
      <4> QED BY <4>1, <4>2
    <3> QED BY <3>1, <3>2
  <2>2. \A i, j \in 1..(n + 1) : t[i] = t[j] => i = j
    BY <1>1, <1>2 DEF Enumerates
  <2> QED BY <2>1, <2>2 DEF Enumerates
<1>5. ASSUME NEW i \in 0..(n + 1)
      PROVE  g[At(h, t, n + 1, i)] = At(h, t, n + 1, i + 1)
  <2>1. CASE i = 0
    BY <2>1, <1>1 DEF At
  <2>2. CASE i # 0
    <3>1. i - 1 \in 0..n /\ (i - 1) + 1 = i BY <2>2, <1>1
    <3>2. next[At(h, s, n, i - 1)] = At(h, s, n, i) BY <3>1, <1>2
    <3>3. At(h, t, n + 1, i + 1) = At(h, s, n, i) BY <2>2, <1>1 DEF At
    <3>4. CASE i = 1
      <4>1. At(h, t, n + 1, i) = e /\ At(h, s, n, i - 1) = h
        BY <3>4, <1>1 DEF At
      <4> QED BY <4>1, <3>2, <3>3
    <3>5. CASE i # 1
      <4>1. /\ At(h, t, n + 1, i) = At(h, s, n, i - 1)
            /\ At(h, s, n, i - 1) \in S
        BY <2>2, <3>5, <1>1, <1>2 DEF At
      <4>2. g[At(h, s, n, i - 1)] = next[At(h, s, n, i - 1)]
        BY <4>1
      <4> QED BY <4>1, <4>2, <3>2, <3>3
    <3> QED BY <3>4, <3>5
  <2> QED BY <2>1, <2>2
<1> QED BY <1>1, <1>3, <1>4, <1>5, ZenonT(60) DEF IsChain, n

\* Linking a block of array entries in index order behind an empty header
\* (the growth of VfdCache in allocate_vfd).
LEMMA ChainInterval ==
  ASSUME NEW a \in Nat \ {0}, NEW b \in Nat, a <= b, NEW next,
         next[0] = a, next[b] = 0, \A i \in a..(b - 1) : next[i] = i + 1
  PROVE  IsChain(0, a..b, next)
<1> DEFINE n == b - a + 1
           s == [i \in 1..n |-> a + i - 1]
<1>1. Cardinality(a..b) = n /\ n \in Nat
  BY FS_Interval
<1>2. s \in [1..n -> a..b]
  OBVIOUS
<1>3. Enumerates(s, n, a..b)
  <2>1. ASSUME NEW x \in a..b PROVE \E i \in 1..n : s[i] = x
    <3>1. x - a + 1 \in 1..n /\ s[x - a + 1] = x OBVIOUS
    <3> QED BY <3>1
  <2>2. \A i, j \in 1..n : s[i] = s[j] => i = j OBVIOUS
  <2> QED BY <2>1, <2>2 DEF Enumerates
<1>4. ASSUME NEW i \in 0..n PROVE next[At(0, s, n, i)] = At(0, s, n, i + 1)
  <2>1. CASE i = 0 BY <2>1 DEF At
  <2>2. CASE i = n /\ i # 0 BY <2>2 DEF At
  <2>3. CASE i # n /\ i # 0
    <3>1. a + i - 1 \in a..(b - 1) BY <2>3
    <3> QED BY <3>1, <2>3 DEF At
  <2> QED BY <2>1, <2>2, <2>3
<1> QED BY <1>1, <1>2, <1>3, <1>4 DEF IsChain

-----------------------------------------------------------------------------
(* Sequences, element by element.                                          *)

\* Inserting moves the elements behind one place on.
LEMMA InsertedAt ==
  ASSUME NEW E, NEW s \in Seq(E), NEW k \in 1..(Len(s) + 1), NEW e \in E
  PROVE  /\ InsertAt(s, k, e) \in Seq(E) /\ Len(InsertAt(s, k, e)) = Len(s) + 1
         /\ \A i \in 1..(Len(s) + 1) :
              InsertAt(s, k, e)[i] = IF i < k THEN s[i] ELSE IF i = k THEN e ELSE s[i - 1]
<1>1. PICK n \in Nat : n = Len(s) /\ \A i \in 1..n : s[i] \in E
  BY LenProperties, ElementOfSeq
<1>2. k \in 1..(n + 1) /\ k \in Nat /\ k >= 1
  BY <1>1
<1>3. PICK u : u = SubSeq(s, 1, k - 1)
  OBVIOUS
<1>4. PICK w : w = SubSeq(s, k, n)
  OBVIOUS
<1>5. u \in Seq(E) /\ Len(u) = k - 1 /\ \A i \in 1..(k - 1) : u[i] = s[i]
  <2>1. \A i \in 1..(k - 1) : s[i] \in E
    BY <1>1, <1>2
  <2>2. /\ u \in Seq(E) /\ Len(u) = IF 1 <= k - 1 THEN (k - 1) - 1 + 1 ELSE 0
        /\ \A i \in 1..((k - 1) - 1 + 1) : u[i] = s[1 + i - 1]
    BY <1>2, <1>3, <2>1, SubSeqProperties
  <2> QED BY <1>2, <2>2
<1>6. w \in Seq(E) /\ Len(w) = n - k + 1 /\ \A i \in 1..(n - k + 1) : w[i] = s[k + i - 1]
  <2>1. \A i \in k..n : s[i] \in E
    BY <1>1, <1>2
  <2>2. /\ w \in Seq(E) /\ Len(w) = IF k <= n THEN n - k + 1 ELSE 0
        /\ \A i \in 1..(n - k + 1) : w[i] = s[k + i - 1]
    BY <1>1, <1>2, <1>4, <2>1, SubSeqProperties
  <2> QED BY <1>1, <1>2, <2>2
<1>7. <<e>> \in Seq(E) /\ Len(<<e>>) = 1 /\ <<e>>[1] = e
  OBVIOUS
<1>8. PICK v : v = u \o <<e>>
  OBVIOUS
<1>9. v \in Seq(E) /\ Len(v) = k /\ \A i \in 1..k : v[i] = IF i <= k - 1 THEN u[i] ELSE <<e>>[i - (k - 1)]
  <2>1. /\ v \in Seq(E) /\ Len(v) = (k - 1) + 1
        /\ \A i \in 1..((k - 1) + 1) : v[i] = IF i <= k - 1 THEN u[i] ELSE <<e>>[i - (k - 1)]
    BY <1>5, <1>7, <1>8, ConcatProperties
  <2> QED BY <1>2, <2>1
<1>10. InsertAt(s, k, e) = v \o w
  BY <1>1, <1>3, <1>4, <1>8 DEF InsertAt
<1>11. /\ v \o w \in Seq(E) /\ Len(v \o w) = k + (n - k + 1)
       /\ \A i \in 1..(k + (n - k + 1)) : (v \o w)[i] = IF i <= k THEN v[i] ELSE w[i - k]
  <2>1. v \in Seq(E) /\ w \in Seq(E)
    BY <1>6, <1>9
  <2>2. /\ v \o w \in Seq(E) /\ Len(v \o w) = Len(v) + Len(w)
        /\ \A i \in 1..(Len(v) + Len(w)) : (v \o w)[i] = IF i <= Len(v) THEN v[i] ELSE w[i - Len(v)]
    BY <2>1, ConcatProperties
  <2>3. Len(v) = k /\ Len(w) = n - k + 1
    BY <1>6, <1>9
  <2> QED BY <2>2, <2>3
<1>12. ASSUME NEW i \in 1..(n + 1)
       PROVE  (v \o w)[i] = IF i < k THEN s[i] ELSE IF i = k THEN e ELSE s[i - 1]
  <2>1. i \in 1..(k + (n - k + 1)) /\ i \in Nat
    BY <1>1, <1>2
  <2>2. CASE i < k
    <3>1. i <= k /\ i \in 1..k /\ i <= k - 1 /\ i \in 1..(k - 1)
      BY <1>2, <2>1, <2>2
    <3> QED BY <1>5, <1>9, <1>11, <2>1, <2>2, <3>1
  <2>3. CASE i = k
    <3>1. i <= k /\ i \in 1..k /\ ~(i <= k - 1) /\ i - (k - 1) = 1 /\ ~(i < k)
      BY <1>2, <2>1, <2>3
    <3> QED BY <1>7, <1>9, <1>11, <2>1, <2>3, <3>1
  <2>4. CASE i > k
    <3>1. ~(i <= k) /\ i - k \in 1..(n - k + 1) /\ k + (i - k) - 1 = i - 1 /\ ~(i < k) /\ i # k
      BY <1>1, <1>2, <2>1, <2>4
    <3> QED BY <1>6, <1>11, <2>1, <3>1
  <2>5. i < k \/ i = k \/ i > k
    BY <1>2, <2>1
  <2> QED BY <2>2, <2>3, <2>4, <2>5
<1> QED BY <1>1, <1>2, <1>10, <1>11, <1>12

\* Removing moves them back.
LEMMA RemovedAt ==
  ASSUME NEW E, NEW s \in Seq(E), NEW k \in 1..Len(s)
  PROVE  /\ RemoveAt(s, k) \in Seq(E) /\ Len(RemoveAt(s, k)) = Len(s) - 1
         /\ \A i \in 1..(Len(s) - 1) : RemoveAt(s, k)[i] = IF i < k THEN s[i] ELSE s[i + 1]
<1>1. PICK n \in Nat : n = Len(s) /\ \A i \in 1..n : s[i] \in E
  BY LenProperties, ElementOfSeq
<1>2. k \in 1..n /\ k \in Nat /\ k >= 1 /\ k <= n
  BY <1>1
<1>3. PICK u : u = SubSeq(s, 1, k - 1)
  OBVIOUS
<1>4. PICK w : w = SubSeq(s, k + 1, n)
  OBVIOUS
<1>5. u \in Seq(E) /\ Len(u) = k - 1 /\ \A i \in 1..(k - 1) : u[i] = s[i]
  <2>1. \A i \in 1..(k - 1) : s[i] \in E
    BY <1>1, <1>2
  <2>2. /\ u \in Seq(E) /\ Len(u) = IF 1 <= k - 1 THEN (k - 1) - 1 + 1 ELSE 0
        /\ \A i \in 1..((k - 1) - 1 + 1) : u[i] = s[1 + i - 1]
    BY <1>2, <1>3, <2>1, SubSeqProperties
  <2> QED BY <1>2, <2>2
<1>6. w \in Seq(E) /\ Len(w) = n - k /\ \A i \in 1..(n - k) : w[i] = s[k + i]
  <2>1. \A i \in (k + 1)..n : s[i] \in E
    BY <1>1, <1>2
  <2>2. /\ w \in Seq(E) /\ Len(w) = IF k + 1 <= n THEN n - (k + 1) + 1 ELSE 0
        /\ \A i \in 1..(n - (k + 1) + 1) : w[i] = s[(k + 1) + i - 1]
    BY <1>1, <1>2, <1>4, <2>1, SubSeqProperties
  <2> QED BY <1>1, <1>2, <2>2
<1>7. RemoveAt(s, k) = u \o w
  BY <1>1, <1>3, <1>4 DEF RemoveAt
<1>8. /\ u \o w \in Seq(E) /\ Len(u \o w) = (k - 1) + (n - k)
      /\ \A i \in 1..((k - 1) + (n - k)) : (u \o w)[i] = IF i <= k - 1 THEN u[i] ELSE w[i - (k - 1)]
  <2>1. u \in Seq(E) /\ w \in Seq(E)
    BY <1>5, <1>6
  <2>2. /\ u \o w \in Seq(E) /\ Len(u \o w) = Len(u) + Len(w)
        /\ \A i \in 1..(Len(u) + Len(w)) : (u \o w)[i] = IF i <= Len(u) THEN u[i] ELSE w[i - Len(u)]
    BY <2>1, ConcatProperties
  <2>3. Len(u) = k - 1 /\ Len(w) = n - k
    BY <1>5, <1>6
  <2> QED BY <2>2, <2>3
<1>9. ASSUME NEW i \in 1..(n - 1)
      PROVE  (u \o w)[i] = IF i < k THEN s[i] ELSE s[i + 1]
  <2>1. i \in 1..((k - 1) + (n - k)) /\ i \in Nat
    BY <1>1, <1>2
  <2>2. CASE i < k
    <3>1. i <= k - 1 /\ i \in 1..(k - 1)
      BY <1>2, <2>1, <2>2
    <3> QED BY <1>5, <1>8, <2>1, <2>2, <3>1
  <2>3. CASE ~(i < k)
    <3>1. ~(i <= k - 1) /\ i - (k - 1) \in 1..(n - k) /\ k + (i - (k - 1)) = i + 1
      BY <1>1, <1>2, <2>1, <2>3
    <3> QED BY <1>6, <1>8, <2>1, <2>3, <3>1
  <2> QED BY <2>2, <2>3
<1>10. (k - 1) + (n - k) = n - 1
  BY <1>1, <1>2
<1>11. u \o w \in Seq(E) /\ Len(u \o w) = n - 1
  BY <1>8, <1>10
<1> QED BY <1>1, <1>7, <1>9, <1>11

\* A sequence without repetitions is no longer than the set of its elements.
LEMMA NoLonger ==
  ASSUME NEW E, IsFiniteSet(E), NEW s \in Seq(E),
         \A i, j \in 1..Len(s) : s[i] = s[j] => i = j
  PROVE  Len(s) <= Cardinality(E) /\ Cardinality(E) \in Nat
<1>1. s \in [1..Len(s) -> E] /\ Len(s) \in Nat
  BY LenProperties
<1>2. s \in Injection(1..Len(s), E)
  BY <1>1 DEF Injection, IsInjective
<1>3. Cardinality(1..Len(s)) <= Cardinality(E)
  BY <1>2, FS_Injection
<1>4. Cardinality(1..Len(s)) = Len(s)
  <2>1. Cardinality(1..Len(s)) = IF 1 > Len(s) THEN 0 ELSE Len(s) - 1 + 1
    BY <1>1, FS_Interval, SMTT(60)
  <2> QED BY <1>1, <2>1
<1> QED BY <1>3, <1>4, FS_CardinalityType

\* Read from its end, a sequence is a sequence.
LEMMA Reversed ==
  ASSUME NEW E, NEW s \in Seq(E)
  PROVE  /\ Reverse(s) \in Seq(E) /\ Len(Reverse(s)) = Len(s)
         /\ \A i \in 1..Len(s) : Reverse(s)[i] = s[(Len(s) - i) + 1]
<1>1. PICK n \in Nat : n = Len(s) /\ \A i \in 1..n : s[i] \in E
  BY LenProperties, ElementOfSeq
<1>2. Reverse(s) = [i \in 1..n |-> s[(n - i) + 1]]
  BY <1>1 DEF Reverse
<1>3. ASSUME NEW i \in 1..n PROVE s[(n - i) + 1] \in E
  <2>1. (n - i) + 1 \in 1..n
    BY <1>1
  <2> QED BY <1>1, <2>1
<1>4. Reverse(s) \in [1..n -> E]
  BY <1>2, <1>3
<1>5. Reverse(s) \in Seq(E) /\ Len(Reverse(s)) = n
  BY <1>1, <1>4
<1> QED BY <1>1, <1>2, <1>5


-----------------------------------------------------------------------------
(* Links.  A list is held by a chain of next fields when they lead from a  *)
(* header f through the elements of a sequence to a value v that marks the *)
(* end, and by a chain of prev fields likewise from the other end.         *)

Left(s, f, i) == IF i = 0 THEN f ELSE s[i]
Right(s, v, i) == IF i = Len(s) + 1 THEN v ELSE s[i]

Down(s, N, f, v) == \A i \in 0..Len(s) : N[Left(s, f, i)] = Right(s, v, i + 1)
Up(s, P, b, v) == \A i \in 0..Len(s) : P[Right(s, b, i + 1)] = Left(s, v, i)

\* The neighbours of the places of a sequence after an insertion.
LEMMA InsertedEnds ==
  ASSUME NEW E, NEW s \in Seq(E), NEW k \in 1..(Len(s) + 1), NEW e \in E, NEW f, NEW v
  PROVE  LET t == InsertAt(s, k, e) IN
         /\ \A i \in 0..(Len(s) + 1) :
              Left(t, f, i) = IF i < k THEN Left(s, f, i) ELSE IF i = k THEN e ELSE Left(s, f, i - 1)
         /\ \A i \in 1..(Len(s) + 2) :
              Right(t, v, i) = IF i < k THEN Right(s, v, i) ELSE IF i = k THEN e ELSE Right(s, v, i - 1)
<1>1. PICK n \in Nat : n = Len(s)
  BY LenProperties
<1>2. PICK t : t = InsertAt(s, k, e)
  OBVIOUS
<1>3. /\ Len(t) = n + 1 /\ k \in 1..(n + 1) /\ k \in Nat /\ k >= 1 /\ k <= n + 1
      /\ \A i \in 1..(n + 1) : t[i] = IF i < k THEN s[i] ELSE IF i = k THEN e ELSE s[i - 1]
  <2>1. /\ Len(t) = Len(s) + 1
        /\ \A i \in 1..(Len(s) + 1) : t[i] = IF i < k THEN s[i] ELSE IF i = k THEN e ELSE s[i - 1]
    BY <1>2, InsertedAt
  <2>2. k \in 1..(n + 1)
    BY <1>1
  <2>3. k \in Nat /\ k >= 1 /\ k <= n + 1
    BY <1>1, <2>2
  <2> QED BY <1>1, <2>1, <2>2, <2>3
<1>4. ASSUME NEW i \in 0..(n + 1)
      PROVE  Left(t, f, i) = IF i < k THEN Left(s, f, i) ELSE IF i = k THEN e ELSE Left(s, f, i - 1)
  <2>1. CASE i = 0
    BY <1>3, <2>1 DEF Left
  <2>2. CASE i # 0
    <3>1. i \in 1..(n + 1) /\ i \in Nat /\ (i > k => i - 1 # 0)
      BY <1>1, <1>3, <2>2
    <3>2. Left(t, f, i) = t[i] /\ Left(s, f, i) = s[i] /\ (i > k => Left(s, f, i - 1) = s[i - 1])
      BY <2>2, <3>1 DEF Left
    <3> QED BY <1>3, <3>1, <3>2
  <2> QED BY <2>1, <2>2
<1>5. ASSUME NEW i \in 1..(n + 2)
      PROVE  Right(t, v, i) = IF i < k THEN Right(s, v, i) ELSE IF i = k THEN e ELSE Right(s, v, i - 1)
  <2>1. i \in Nat /\ i >= 1 /\ i <= n + 2
    BY <1>1
  <2>2. CASE i = n + 2
    <3>1. i = Len(t) + 1 /\ ~(i < k) /\ i # k /\ i - 1 = Len(s) + 1
      BY <1>1, <1>3, <2>2
    <3> QED BY <3>1 DEF Right
  <2>3. CASE i # n + 2
    <3>1. i \in 1..(n + 1) /\ i # Len(t) + 1 /\ (i < k => i # Len(s) + 1) /\ (i > k => i - 1 # Len(s) + 1)
      BY <1>1, <1>3, <2>1, <2>3
    <3>2. /\ Right(t, v, i) = t[i]
          /\ i < k => Right(s, v, i) = s[i]
          /\ i > k => Right(s, v, i - 1) = s[i - 1]
      BY <3>1 DEF Right
    <3> QED BY <1>3, <2>1, <3>1, <3>2
  <2> QED BY <2>2, <2>3
<1> QED BY <1>1, <1>2, <1>4, <1>5

\* The neighbours after a removal.
LEMMA RemovedEnds ==
  ASSUME NEW E, NEW s \in Seq(E), NEW k \in 1..Len(s), NEW f, NEW v
  PROVE  LET t == RemoveAt(s, k) IN
         /\ \A i \in 0..(Len(s) - 1) :
              Left(t, f, i) = IF i < k THEN Left(s, f, i) ELSE Left(s, f, i + 1)
         /\ \A i \in 1..Len(s) :
              Right(t, v, i) = IF i < k THEN Right(s, v, i) ELSE Right(s, v, i + 1)
<1>1. PICK n \in Nat : n = Len(s)
  BY LenProperties
<1>2. PICK t : t = RemoveAt(s, k)
  OBVIOUS
<1>3. /\ Len(t) = n - 1 /\ k \in 1..n /\ k \in Nat /\ k >= 1 /\ k <= n
      /\ \A i \in 1..(n - 1) : t[i] = IF i < k THEN s[i] ELSE s[i + 1]
  BY <1>1, <1>2, RemovedAt
<1>4. ASSUME NEW i \in 0..(n - 1)
      PROVE  Left(t, f, i) = IF i < k THEN Left(s, f, i) ELSE Left(s, f, i + 1)
  <2>1. CASE i = 0
    BY <1>3, <2>1 DEF Left
  <2>2. CASE i # 0
    <3>1. i \in 1..(n - 1) /\ i \in Nat /\ i + 1 # 0
      BY <1>1, <1>3, <2>2
    <3>2. Left(t, f, i) = t[i] /\ Left(s, f, i) = s[i] /\ Left(s, f, i + 1) = s[i + 1]
      BY <2>2, <3>1 DEF Left
    <3> QED BY <1>3, <3>1, <3>2
  <2> QED BY <2>1, <2>2
<1>5. ASSUME NEW i \in 1..n
      PROVE  Right(t, v, i) = IF i < k THEN Right(s, v, i) ELSE Right(s, v, i + 1)
  <2>1. i \in Nat /\ i >= 1 /\ i <= n
    BY <1>1
  <2>2. CASE i = n
    <3>1. i = Len(t) + 1 /\ ~(i < k) /\ i + 1 = Len(s) + 1
      BY <1>1, <1>3, <2>2
    <3> QED BY <3>1 DEF Right
  <2>3. CASE i # n
    <3>1. i \in 1..(n - 1) /\ i # Len(t) + 1 /\ i # Len(s) + 1 /\ i + 1 # Len(s) + 1
      BY <1>1, <1>3, <2>1, <2>3
    <3>2. Right(t, v, i) = t[i] /\ Right(s, v, i) = s[i] /\ Right(s, v, i + 1) = s[i + 1]
      BY <3>1 DEF Right
    <3> QED BY <1>3, <2>1, <3>1, <3>2
  <2> QED BY <2>2, <2>3
<1> QED BY <1>1, <1>2, <1>4, <1>5

\* Two stores link a new element into a chain of next fields.
LEMMA DownInsert ==
  ASSUME NEW E, NEW s \in Seq(E), NEW k \in 1..(Len(s) + 1), NEW e \in E,
         NEW N, NEW N2, NEW f, NEW v, Down(s, N, f, v),
         N2[Left(s, f, k - 1)] = e, N2[e] = Right(s, v, k),
         \A i \in 0..Len(s) : i # k - 1 => N2[Left(s, f, i)] = N[Left(s, f, i)]
  PROVE  Down(InsertAt(s, k, e), N2, f, v)
<1>1. PICK n \in Nat : n = Len(s)
  BY LenProperties
<1>2. PICK t : t = InsertAt(s, k, e)
  OBVIOUS
<1>3. Len(t) = n + 1 /\ k \in 1..(n + 1) /\ k \in Nat /\ k >= 1 /\ k <= n + 1
  BY <1>1, <1>2, InsertedAt
<1>4. /\ \A i \in 0..(n + 1) :
           Left(t, f, i) = IF i < k THEN Left(s, f, i) ELSE IF i = k THEN e ELSE Left(s, f, i - 1)
      /\ \A i \in 1..(n + 2) :
           Right(t, v, i) = IF i < k THEN Right(s, v, i) ELSE IF i = k THEN e ELSE Right(s, v, i - 1)
  BY <1>1, <1>2, InsertedEnds
<1>5. \A i \in 0..n : N[Left(s, f, i)] = Right(s, v, i + 1)
  BY <1>1 DEF Down
<1>6. \A i \in 0..n : i # k - 1 => N2[Left(s, f, i)] = N[Left(s, f, i)]
  BY <1>1
<1>7. ASSUME NEW i \in 0..(n + 1) PROVE N2[Left(t, f, i)] = Right(t, v, i + 1)
  <2>1. i \in Nat /\ i + 1 \in 1..(n + 2) /\ i <= n + 1
    BY <1>1
  <2>2. CASE i = k - 1
    <3>1. i < k /\ i + 1 = k /\ ~(i + 1 < k)
      BY <1>3, <2>1, <2>2
    <3>2. Left(t, f, i) = Left(s, f, i) /\ Right(t, v, i + 1) = e
      BY <1>4, <2>1, <3>1
    <3> QED BY <2>2, <3>2
  <2>3. CASE i = k
    <3>1. ~(i < k) /\ ~(i + 1 < k) /\ i + 1 # k /\ (i + 1) - 1 = k
      BY <1>3, <2>1, <2>3
    <3>2. Left(t, f, i) = e /\ Right(t, v, i + 1) = Right(s, v, k)
      BY <1>4, <2>1, <2>3, <3>1
    <3> QED BY <3>2
  <2>4. CASE i < k - 1
    <3>1. i < k /\ i + 1 < k /\ i \in 0..n /\ i # k - 1
      BY <1>1, <1>3, <2>1, <2>4
    <3>2. Left(t, f, i) = Left(s, f, i) /\ Right(t, v, i + 1) = Right(s, v, i + 1)
      BY <1>4, <2>1, <3>1
    <3> QED BY <1>5, <1>6, <3>1, <3>2
  <2>5. CASE i > k
    <3>1. /\ ~(i < k) /\ i # k /\ ~(i + 1 < k) /\ i + 1 # k /\ (i + 1) - 1 = (i - 1) + 1
          /\ i - 1 \in 0..n /\ i - 1 # k - 1
      BY <1>1, <1>3, <2>1, <2>5
    <3>2. Left(t, f, i) = Left(s, f, i - 1) /\ Right(t, v, i + 1) = Right(s, v, (i - 1) + 1)
      BY <1>4, <2>1, <3>1
    <3> QED BY <1>5, <1>6, <3>1, <3>2
  <2>6. i = k - 1 \/ i = k \/ i < k - 1 \/ i > k
    BY <1>3, <2>1
  <2> QED BY <2>2, <2>3, <2>4, <2>5, <2>6
<1>8. Down(t, N2, f, v)
  BY <1>3, <1>7 DEF Down
<1> QED BY <1>2, <1>8

\* Two stores link it into the chain of prev fields.
LEMMA UpInsert ==
  ASSUME NEW E, NEW s \in Seq(E), NEW k \in 1..(Len(s) + 1), NEW e \in E,
         NEW P, NEW P2, NEW b, NEW v, Up(s, P, b, v),
         P2[Right(s, b, k)] = e, P2[e] = Left(s, v, k - 1),
         \A i \in 1..(Len(s) + 1) : i # k => P2[Right(s, b, i)] = P[Right(s, b, i)]
  PROVE  Up(InsertAt(s, k, e), P2, b, v)
<1>1. PICK n \in Nat : n = Len(s)
  BY LenProperties
<1>2. PICK t : t = InsertAt(s, k, e)
  OBVIOUS
<1>3. Len(t) = n + 1 /\ k \in 1..(n + 1) /\ k \in Nat /\ k >= 1 /\ k <= n + 1
  BY <1>1, <1>2, InsertedAt
<1>4. /\ \A i \in 0..(n + 1) :
           Left(t, v, i) = IF i < k THEN Left(s, v, i) ELSE IF i = k THEN e ELSE Left(s, v, i - 1)
      /\ \A i \in 1..(n + 2) :
           Right(t, b, i) = IF i < k THEN Right(s, b, i) ELSE IF i = k THEN e ELSE Right(s, b, i - 1)
  BY <1>1, <1>2, InsertedEnds
<1>5. \A i \in 0..n : P[Right(s, b, i + 1)] = Left(s, v, i)
  BY <1>1 DEF Up
<1>6. \A i \in 1..(n + 1) : i # k => P2[Right(s, b, i)] = P[Right(s, b, i)]
  BY <1>1
<1>7. ASSUME NEW i \in 0..(n + 1) PROVE P2[Right(t, b, i + 1)] = Left(t, v, i)
  <2>1. i \in Nat /\ i + 1 \in 1..(n + 2) /\ i <= n + 1
    BY <1>1
  <2>2. CASE i = k - 1
    <3>1. i < k /\ i + 1 = k /\ ~(i + 1 < k)
      BY <1>3, <2>1, <2>2
    <3>2. Left(t, v, i) = Left(s, v, k - 1) /\ Right(t, b, i + 1) = e
      BY <1>4, <2>1, <2>2, <3>1
    <3> QED BY <3>2
  <2>3. CASE i = k
    <3>1. ~(i < k) /\ ~(i + 1 < k) /\ i + 1 # k /\ (i + 1) - 1 = k
      BY <1>3, <2>1, <2>3
    <3>2. Left(t, v, i) = e /\ Right(t, b, i + 1) = Right(s, b, k)
      BY <1>4, <2>1, <2>3, <3>1
    <3> QED BY <3>2
  <2>4. CASE i < k - 1
    <3>1. i < k /\ i + 1 < k /\ i \in 0..n /\ i + 1 # k /\ i + 1 \in 1..(n + 1)
      BY <1>1, <1>3, <2>1, <2>4
    <3>2. Left(t, v, i) = Left(s, v, i) /\ Right(t, b, i + 1) = Right(s, b, i + 1)
      BY <1>4, <2>1, <3>1
    <3> QED BY <1>5, <1>6, <3>1, <3>2
  <2>5. CASE i > k
    <3>1. /\ ~(i < k) /\ i # k /\ ~(i + 1 < k) /\ i + 1 # k /\ (i + 1) - 1 = (i - 1) + 1
          /\ i - 1 \in 0..n /\ (i - 1) + 1 # k /\ (i - 1) + 1 \in 1..(n + 1)
      BY <1>1, <1>3, <2>1, <2>5
    <3>2. Left(t, v, i) = Left(s, v, i - 1) /\ Right(t, b, i + 1) = Right(s, b, (i - 1) + 1)
      BY <1>4, <2>1, <3>1
    <3> QED BY <1>5, <1>6, <3>1, <3>2
  <2> QED BY <1>3, <2>1, <2>2, <2>3, <2>4, <2>5
<1>8. Up(t, P2, b, v)
  BY <1>3, <1>7 DEF Up
<1> QED BY <1>2, <1>8

\* One store takes an element out of a chain of next fields.
LEMMA DownRemove ==
  ASSUME NEW E, NEW s \in Seq(E), NEW k \in 1..Len(s),
         NEW N, NEW N2, NEW f, NEW v, Down(s, N, f, v),
         N2[Left(s, f, k - 1)] = Right(s, v, k + 1),
         \A i \in 0..Len(s) : i # k - 1 /\ i # k => N2[Left(s, f, i)] = N[Left(s, f, i)]
  PROVE  Down(RemoveAt(s, k), N2, f, v)
<1>1. PICK n \in Nat : n = Len(s)
  BY LenProperties
<1>2. PICK t : t = RemoveAt(s, k)
  OBVIOUS
<1>3. Len(t) = n - 1 /\ k \in 1..n /\ k \in Nat /\ k >= 1 /\ k <= n
  BY <1>1, <1>2, RemovedAt
<1>4. /\ \A i \in 0..(n - 1) :
           Left(t, f, i) = IF i < k THEN Left(s, f, i) ELSE Left(s, f, i + 1)
      /\ \A i \in 1..n :
           Right(t, v, i) = IF i < k THEN Right(s, v, i) ELSE Right(s, v, i + 1)
  BY <1>1, <1>2, RemovedEnds
<1>5. \A i \in 0..n : N[Left(s, f, i)] = Right(s, v, i + 1)
  BY <1>1 DEF Down
<1>6. \A i \in 0..n : i # k - 1 /\ i # k => N2[Left(s, f, i)] = N[Left(s, f, i)]
  BY <1>1
<1>7. ASSUME NEW i \in 0..(n - 1) PROVE N2[Left(t, f, i)] = Right(t, v, i + 1)
  <2>1. i \in Nat /\ i + 1 \in 1..n /\ i <= n - 1
    BY <1>1
  <2>2. CASE i = k - 1
    <3>1. i < k /\ ~(i + 1 < k) /\ (i + 1) + 1 = k + 1
      BY <1>3, <2>1, <2>2
    <3>2. Left(t, f, i) = Left(s, f, i) /\ Right(t, v, i + 1) = Right(s, v, k + 1)
      BY <1>4, <2>1, <3>1
    <3> QED BY <2>2, <3>2
  <2>3. CASE i < k - 1
    <3>1. i < k /\ i + 1 < k /\ i \in 0..n /\ i # k - 1 /\ i # k
      BY <1>1, <1>3, <2>1, <2>3
    <3>2. Left(t, f, i) = Left(s, f, i) /\ Right(t, v, i + 1) = Right(s, v, i + 1)
      BY <1>4, <2>1, <3>1
    <3> QED BY <1>5, <1>6, <3>1, <3>2
  <2>4. CASE i > k - 1
    <3>1. ~(i < k) /\ ~(i + 1 < k) /\ i + 1 \in 0..n /\ i + 1 # k - 1 /\ i + 1 # k
      BY <1>1, <1>3, <2>1, <2>4
    <3>2. Left(t, f, i) = Left(s, f, i + 1) /\ Right(t, v, i + 1) = Right(s, v, (i + 1) + 1)
      BY <1>4, <2>1, <3>1
    <3> QED BY <1>5, <1>6, <3>1, <3>2
  <2> QED BY <1>3, <2>1, <2>2, <2>3, <2>4
<1>8. Down(t, N2, f, v)
  BY <1>3, <1>7 DEF Down
<1> QED BY <1>2, <1>8

\* One store takes it out of the chain of prev fields.
LEMMA UpRemove ==
  ASSUME NEW E, NEW s \in Seq(E), NEW k \in 1..Len(s),
         NEW P, NEW P2, NEW b, NEW v, Up(s, P, b, v),
         P2[Right(s, b, k + 1)] = Left(s, v, k - 1),
         \A i \in 1..(Len(s) + 1) : i # k /\ i # k + 1 => P2[Right(s, b, i)] = P[Right(s, b, i)]
  PROVE  Up(RemoveAt(s, k), P2, b, v)
<1>1. PICK n \in Nat : n = Len(s)
  BY LenProperties
<1>2. PICK t : t = RemoveAt(s, k)
  OBVIOUS
<1>3. Len(t) = n - 1 /\ k \in 1..n /\ k \in Nat /\ k >= 1 /\ k <= n
  BY <1>1, <1>2, RemovedAt
<1>4. /\ \A i \in 0..(n - 1) :
           Left(t, v, i) = IF i < k THEN Left(s, v, i) ELSE Left(s, v, i + 1)
      /\ \A i \in 1..n :
           Right(t, b, i) = IF i < k THEN Right(s, b, i) ELSE Right(s, b, i + 1)
  BY <1>1, <1>2, RemovedEnds
<1>5. \A i \in 0..n : P[Right(s, b, i + 1)] = Left(s, v, i)
  BY <1>1 DEF Up
<1>6. \A i \in 1..(n + 1) : i # k /\ i # k + 1 => P2[Right(s, b, i)] = P[Right(s, b, i)]
  BY <1>1
<1>7. ASSUME NEW i \in 0..(n - 1) PROVE P2[Right(t, b, i + 1)] = Left(t, v, i)
  <2>1. i \in Nat /\ i + 1 \in 1..n /\ i <= n - 1
    BY <1>1
  <2>2. CASE i = k - 1
    <3>1. i < k /\ ~(i + 1 < k) /\ (i + 1) + 1 = k + 1
      BY <1>3, <2>1, <2>2
    <3>2. Left(t, v, i) = Left(s, v, k - 1) /\ Right(t, b, i + 1) = Right(s, b, k + 1)
      BY <1>4, <2>1, <2>2, <3>1
    <3> QED BY <3>2
  <2>3. CASE i < k - 1
    <3>1. i < k /\ i + 1 < k /\ i \in 0..n /\ i + 1 # k /\ i + 1 # k + 1 /\ i + 1 \in 1..(n + 1)
      BY <1>1, <1>3, <2>1, <2>3
    <3>2. Left(t, v, i) = Left(s, v, i) /\ Right(t, b, i + 1) = Right(s, b, i + 1)
      BY <1>4, <2>1, <3>1
    <3> QED BY <1>5, <1>6, <3>1, <3>2
  <2>4. CASE i > k - 1
    <3>1. /\ ~(i < k) /\ ~(i + 1 < k) /\ i + 1 \in 0..n /\ (i + 1) + 1 # k /\ (i + 1) + 1 # k + 1
          /\ (i + 1) + 1 \in 1..(n + 1)
      BY <1>1, <1>3, <2>1, <2>4
    <3>2. Left(t, v, i) = Left(s, v, i + 1) /\ Right(t, b, i + 1) = Right(s, b, (i + 1) + 1)
      BY <1>4, <2>1, <3>1
    <3> QED BY <1>5, <1>6, <3>1, <3>2
  <2> QED BY <1>3, <2>1, <2>2, <2>3, <2>4
<1>8. Up(t, P2, b, v)
  BY <1>3, <1>7 DEF Up
<1> QED BY <1>2, <1>8


-----------------------------------------------------------------------------
(* Walks.                                                                  *)

\* The walk that Follow describes, round by round.
IsPath(p, n, first, next, stop) ==
  p = [i \in 0..n |->
         IF i = 0 THEN (IF first = stop THEN <<>> ELSE <<first>>)
         ELSE IF Len(p[i - 1]) < i THEN p[i - 1]
         ELSE IF next[p[i - 1][i]] = stop THEN p[i - 1]
         ELSE Append(p[i - 1], next[p[i - 1][i]])]

\* The first m elements of a sequence, or all of them.
Upto(s, m) == SubSeq(s, 1, IF m <= Len(s) THEN m ELSE Len(s))

LEMMA UptoGrows ==
  ASSUME NEW E, NEW s \in Seq(E), NEW m \in Nat
  PROVE  /\ Upto(s, m) \in Seq(E)
         /\ Len(Upto(s, m)) = IF m <= Len(s) THEN m ELSE Len(s)
         /\ \A i \in 1..m : i <= Len(s) => Upto(s, m)[i] = s[i]
         /\ m >= Len(s) => Upto(s, m) = s
         /\ m < Len(s) => Upto(s, m + 1) = Append(Upto(s, m), s[m + 1])
<1>1. PICK n \in Nat : n = Len(s) /\ \A i \in 1..n : s[i] \in E
  BY LenProperties, ElementOfSeq
<1>2. ASSUME NEW k \in 0..n
      PROVE  SubSeq(s, 1, k) \in Seq(E) /\ Len(SubSeq(s, 1, k)) = k
             /\ \A i \in 1..k : SubSeq(s, 1, k)[i] = s[i]
  <2>1. k \in Int /\ 1 \in Int /\ \A i \in 1..k : s[i] \in E
    BY <1>1
  <2>2. /\ SubSeq(s, 1, k) \in Seq(E) /\ Len(SubSeq(s, 1, k)) = IF 1 <= k THEN k - 1 + 1 ELSE 0
        /\ \A i \in 1..(k - 1 + 1) : SubSeq(s, 1, k)[i] = s[1 + i - 1]
    BY <2>1, SubSeqProperties
  <2> QED BY <1>1, <2>2
<1>3. PICK k \in 0..n : k = IF m <= n THEN m ELSE n
  BY <1>1
<1>4. Upto(s, m) = SubSeq(s, 1, k)
  BY <1>1, <1>3 DEF Upto
<1>5. \A i \in 1..m : i <= n => i \in 1..k
  BY <1>1, <1>3
<1>6. ASSUME m >= n PROVE Upto(s, m) = s
  <2>1. k = n
    BY <1>1, <1>3, <1>6
  <2>2. Len(Upto(s, m)) = Len(s) /\ \A i \in 1..Len(Upto(s, m)) : Upto(s, m)[i] = s[i]
    BY <1>1, <1>2, <1>4, <2>1
  <2> QED BY <1>2, <1>4, <2>2, SeqEqual
<1>7. ASSUME m < n PROVE Upto(s, m + 1) = Append(Upto(s, m), s[m + 1])
  <2>1. m \in 0..n /\ m + 1 \in 0..n /\ m + 1 \in 1..n /\ m <= n /\ m + 1 <= n
    BY <1>1, <1>7
  <2>2. PICK u : u = SubSeq(s, 1, m)
    OBVIOUS
  <2>3. PICK w : w = SubSeq(s, 1, m + 1)
    OBVIOUS
  <2>4. Upto(s, m) = u /\ Upto(s, m + 1) = w
    BY <1>1, <2>1, <2>2, <2>3 DEF Upto
  <2>5. u \in Seq(E) /\ Len(u) = m /\ \A i \in 1..m : u[i] = s[i]
    BY <1>2, <2>1, <2>2
  <2>6. w \in Seq(E) /\ Len(w) = m + 1 /\ \A i \in 1..(m + 1) : w[i] = s[i]
    BY <1>2, <2>1, <2>3
  <2>7. s[m + 1] \in E
    BY <1>1, <2>1
  <2>8. /\ Append(u, s[m + 1]) \in Seq(E) /\ Len(Append(u, s[m + 1])) = m + 1
        /\ \A i \in 1..(m + 1) : Append(u, s[m + 1])[i] = IF i <= m THEN u[i] ELSE s[m + 1]
    BY <2>5, <2>7, AppendProperties
  <2>9. ASSUME NEW i \in 1..(m + 1) PROVE w[i] = Append(u, s[m + 1])[i]
    <3>1. i <= m => i \in 1..m
      OBVIOUS
    <3>2. ~(i <= m) => i = m + 1
      OBVIOUS
    <3> QED BY <2>5, <2>6, <2>8, <3>1, <3>2
  <2>10. w = Append(u, s[m + 1])
    BY <2>6, <2>8, <2>9, SeqEqual
  <2> QED BY <2>4, <2>10
<1> QED BY <1>1, <1>2, <1>3, <1>4, <1>5, <1>6, <1>7

\* A walk along links that hold a sequence gives that sequence, if the limit
\* does not cut it short.
LEMMA FollowIs ==
  ASSUME NEW E, NEW s \in Seq(E), NEW next, NEW stop, stop \notin E,
         NEW n \in Nat, Len(s) <= n + 1,
         \A i \in 1..Len(s) : next[s[i]] = Right(s, stop, i + 1),
         NEW first, first = Right(s, stop, 1)
  PROVE  Follow(first, next, stop, n) = s
<1>1. PICK k \in Nat : k = Len(s) /\ \A i \in 1..k : s[i] \in E
  BY LenProperties, ElementOfSeq
<1>2. PICK W : W = [i \in 0..n |-> Upto(s, i + 1)]
  OBVIOUS
<1>3. ASSUME NEW p, \A i \in 0..n : i > 0 => p[i - 1] = Upto(s, i), NEW i \in 0..n
      PROVE  Upto(s, i + 1) =
               IF i = 0 THEN (IF first = stop THEN <<>> ELSE <<first>>)
               ELSE IF Len(p[i - 1]) < i THEN p[i - 1]
               ELSE IF next[p[i - 1][i]] = stop THEN p[i - 1]
               ELSE Append(p[i - 1], next[p[i - 1][i]])
  <2>1. i \in Nat /\ i + 1 \in Nat
    OBVIOUS
  <2>2. CASE i = 0
    <3>1. CASE k = 0
      <4>1. first = stop
        BY <1>1, <3>1 DEF Right
      <4>2. s = <<>>
        BY <1>1, <3>1, EmptySeq
      <4>3. Upto(s, i + 1) = s
        <5>1. PICK m \in Nat : m = i + 1
          BY <2>1
        <5>2. m >= Len(s)
          BY <1>1, <3>1, <5>1
        <5> QED BY <5>1, <5>2, UptoGrows
      <4> QED BY <2>2, <4>1, <4>2, <4>3
    <3>2. CASE k # 0
      <4>1. 1 \in 1..k /\ 1 # k + 1 /\ 0 < k /\ 0 + 1 = 1
        BY <1>1, <3>2
      <4>2. first = s[1] /\ s[1] \in E /\ first # stop
        BY <1>1, <4>1 DEF Right
      <4>3. Upto(s, 0 + 1) = Append(Upto(s, 0), s[0 + 1])
        BY <1>1, <4>1, UptoGrows
      <4>4. Upto(s, 0) \in Seq(E) /\ Len(Upto(s, 0)) = 0
        BY <1>1, UptoGrows
      <4>5. Upto(s, 0) = <<>>
        BY <4>4, EmptySeq
      <4>6. Append(<<>>, s[1]) = <<s[1]>>
        OBVIOUS
      <4> QED BY <2>2, <4>1, <4>2, <4>3, <4>5, <4>6
    <3> QED BY <3>1, <3>2
  <2>3. CASE i # 0
    <3>1. i > 0 /\ p[i - 1] = Upto(s, i)
      BY <1>3, <2>1, <2>3
    <3>2. /\ Len(Upto(s, i)) = IF i <= k THEN i ELSE k
          /\ \A j \in 1..i : j <= k => Upto(s, i)[j] = s[j]
          /\ i >= k => Upto(s, i) = s
          /\ i + 1 >= k => Upto(s, i + 1) = s
          /\ i < k => Upto(s, i + 1) = Append(Upto(s, i), s[i + 1])
      BY <1>1, <2>1, UptoGrows
    <3>3. CASE i > k
      <4>1. Len(Upto(s, i)) < i /\ i >= k /\ i + 1 >= k
        BY <1>1, <2>1, <3>2, <3>3
      <4> QED BY <2>3, <3>1, <3>2, <4>1
    <3>4. CASE i <= k
      <4>1. ~(Len(Upto(s, i)) < i) /\ i \in 1..i /\ i \in 1..k
        BY <1>1, <2>1, <2>3, <3>2, <3>4
      <4>2. Upto(s, i)[i] = s[i] /\ next[s[i]] = Right(s, stop, i + 1)
        BY <1>1, <3>2, <3>4, <4>1
      <4>3. CASE i = k
        <5>1. Right(s, stop, i + 1) = stop /\ i >= k /\ i + 1 >= k
          BY <1>1, <4>3 DEF Right
        <5> QED BY <2>3, <3>1, <3>2, <4>1, <4>2, <5>1
      <4>4. CASE i # k
        <5>1. i + 1 # k + 1 /\ i + 1 \in 1..k /\ i < k
          BY <1>1, <3>4, <4>1, <4>4
        <5>2. Right(s, stop, i + 1) = s[i + 1] /\ s[i + 1] \in E
          BY <1>1, <5>1 DEF Right
        <5> QED BY <2>3, <3>1, <3>2, <4>1, <4>2, <5>1, <5>2
      <4> QED BY <4>3, <4>4
    <3> QED BY <1>1, <2>1, <3>3, <3>4
  <2> QED BY <2>2, <2>3
<1>4. \A i \in 0..n : i > 0 => W[i - 1] = Upto(s, i)
  <2> SUFFICES ASSUME NEW i \in 0..n, i > 0 PROVE W[i - 1] = Upto(s, i)
    OBVIOUS
  <2>1. i - 1 \in 0..n /\ (i - 1) + 1 = i
    OBVIOUS
  <2> QED BY <1>2, <2>1
<1>5. IsPath(W, n, first, next, stop)
  <2>1. ASSUME NEW i \in 0..n PROVE W[i] = Upto(s, i + 1)
    BY <1>2
  <2>2. \A i \in 0..n : Upto(s, i + 1) =
               IF i = 0 THEN (IF first = stop THEN <<>> ELSE <<first>>)
               ELSE IF Len(W[i - 1]) < i THEN W[i - 1]
               ELSE IF next[W[i - 1][i]] = stop THEN W[i - 1]
               ELSE Append(W[i - 1], next[W[i - 1][i]])
    BY <1>3, <1>4
  <2>3. W = [i \in 0..n |-> Upto(s, i + 1)]
    BY <1>2
  <2> QED BY <2>2, <2>3, Zenon DEF IsPath
<1>6. PICK path : path = CHOOSE p : IsPath(p, n, first, next, stop)
  OBVIOUS
<1>7. IsPath(path, n, first, next, stop)
  BY <1>5, <1>6
<1>8. Follow(first, next, stop, n) = path[n]
  BY <1>6 DEF Follow, IsPath
<1>9. \A i \in 0..n : path[i] = Upto(s, i + 1)
  <2> DEFINE Bad == {i \in 0..n : path[i] # Upto(s, i + 1)}
  <2> SUFFICES ASSUME Bad # {} PROVE FALSE
    OBVIOUS
  <2>1. PICK i \in Bad : \A y \in Bad : i <= y
    <3>1. Bad \subseteq Nat
      OBVIOUS
    <3> HIDE DEF Bad
    <3> QED BY <3>1, Smallest
  <2>2. i \in 0..n /\ i \in Nat /\ path[i] # Upto(s, i + 1)
    BY <2>1
  <2>3. i > 0 => path[i - 1] = Upto(s, i)
    <3> SUFFICES ASSUME i > 0 PROVE path[i - 1] = Upto(s, i)
      OBVIOUS
    <3>1. i - 1 \in 0..n /\ (i - 1) + 1 = i /\ ~(i <= i - 1)
      BY <2>2
    <3>2. i - 1 \notin Bad
      BY <2>1, <3>1
    <3> QED BY <3>1, <3>2
  <2>4. PICK p : p = [j \in 0..n |-> IF j = i - 1 THEN path[j] ELSE Upto(s, j + 1)]
    OBVIOUS
  <2>5. \A j \in 0..n : j > 0 => p[j - 1] = Upto(s, j)
    <3> SUFFICES ASSUME NEW j \in 0..n, j > 0 PROVE p[j - 1] = Upto(s, j)
      OBVIOUS
    <3>1. j - 1 \in 0..n /\ (j - 1) + 1 = j
      OBVIOUS
    <3>2. j - 1 = i - 1 => j = i
      BY <2>2
    <3> QED BY <2>3, <2>4, <3>1, <3>2
  <2>6. i # 0 => p[i - 1] = path[i - 1]
    <3>1. i # 0 => i - 1 \in 0..n
      BY <2>2
    <3> QED BY <2>4, <3>1
  <2>7. path[i] = IF i = 0 THEN (IF first = stop THEN <<>> ELSE <<first>>)
                  ELSE IF Len(path[i - 1]) < i THEN path[i - 1]
                  ELSE IF next[path[i - 1][i]] = stop THEN path[i - 1]
                  ELSE Append(path[i - 1], next[path[i - 1][i]])
    BY <1>7, <2>2 DEF IsPath
  <2>8. Upto(s, i + 1) =
          IF i = 0 THEN (IF first = stop THEN <<>> ELSE <<first>>)
          ELSE IF Len(p[i - 1]) < i THEN p[i - 1]
          ELSE IF next[p[i - 1][i]] = stop THEN p[i - 1]
          ELSE Append(p[i - 1], next[p[i - 1][i]])
    BY <1>3, <2>2, <2>5
  <2> QED BY <2>2, <2>6, <2>7, <2>8
<1>10. path[n] = Upto(s, n + 1)
  BY <1>9
<1>11. Upto(s, n + 1) = s
  <2>1. n + 1 \in Nat /\ n + 1 >= Len(s)
    BY <1>1
  <2> QED BY <2>1, UptoGrows
<1> QED BY <1>8, <1>10, <1>11


-----------------------------------------------------------------------------
(* Several lists.  S gives the sequence of every list of D; their elements *)
(* are of E, and none is on two lists or twice on one.                     *)

On(s, x) == \E i \in 1..Len(s) : s[i] = x

Apart(S, D) ==
  \A l, m \in D : \A i \in 1..Len(S[l]), j \in 1..Len(S[m]) : S[l][i] = S[m][j] => l = m /\ i = j

\* The headers F of the lists are different and are not elements.
Heading(F, D, E) == \A l, m \in D : F[l] \notin E /\ (F[l] = F[m] => l = m)

Downs(S, D, N, F, V) == \A l \in D : Down(S[l], N, F[l], V[l])
Ups(S, D, P, B, V) == \A l \in D : Up(S[l], P, B[l], V[l])

Inserted(S, l, k, e) == [S EXCEPT ![l] = InsertAt(S[l], k, e)]
Removed(S, l, k) == [S EXCEPT ![l] = RemoveAt(S[l], k)]
Cleared(S, l) == [S EXCEPT ![l] = <<>>]

\* An element that is on no list can be inserted.
LEMMA ApartInsert ==
  ASSUME NEW D, NEW E, NEW S \in [D -> Seq(E)], Apart(S, D), NEW l \in D,
         NEW k \in 1..(Len(S[l]) + 1), NEW e \in E, \A m \in D : ~On(S[m], e)
  PROVE  /\ Inserted(S, l, k, e) \in [D -> Seq(E)] /\ Apart(Inserted(S, l, k, e), D)
         /\ \A m \in D, x \in E : On(Inserted(S, l, k, e)[m], x) <=> On(S[m], x) \/ (m = l /\ x = e)
<1>1. PICK T : T = Inserted(S, l, k, e)
  OBVIOUS
<1>2. PICK n \in Nat : n = Len(S[l])
  BY LenProperties
<1>3. /\ InsertAt(S[l], k, e) \in Seq(E) /\ Len(InsertAt(S[l], k, e)) = n + 1
      /\ \A i \in 1..(n + 1) :
           InsertAt(S[l], k, e)[i] = IF i < k THEN S[l][i] ELSE IF i = k THEN e ELSE S[l][i - 1]
  BY <1>2, InsertedAt, SMTT(60)
<1>4. T \in [D -> Seq(E)] /\ T[l] = InsertAt(S[l], k, e) /\ \A m \in D : m # l => T[m] = S[m]
  BY <1>1, <1>3 DEF Inserted
<1>5. k \in 1..(n + 1) /\ k \in Nat
  BY <1>2
<1>6. ASSUME NEW m \in D, NEW i \in 1..Len(T[m])
      PROVE  \/ m = l /\ i = k /\ T[m][i] = e
             \/ /\ m = l /\ i < k /\ i \in 1..n /\ T[m][i] = S[l][i]
             \/ /\ m = l /\ i > k /\ i - 1 \in 1..n /\ T[m][i] = S[l][i - 1] /\ i - 1 \in Nat /\ i \in Nat
             \/ /\ m # l /\ i \in 1..Len(S[m]) /\ T[m][i] = S[m][i]
  <2>1. CASE m # l
    BY <1>4, <2>1
  <2>2. CASE m = l
    <3>1. i \in 1..(n + 1) /\ i \in Nat
      BY <1>2, <1>3, <1>4, <2>2
    <3>2. (i < k => i \in 1..n) /\ (i > k => i - 1 \in 1..n /\ ~(i < k) /\ i # k /\ i - 1 \in Nat)
      BY <1>2, <1>5, <3>1
    <3>3. i < k \/ i = k \/ i > k
      BY <1>5, <3>1
    <3> QED BY <1>3, <1>4, <1>5, <2>2, <3>1, <3>2, <3>3
  <2> QED BY <2>1, <2>2
<1>7. \A m \in D : \A i \in 1..Len(S[m]) : S[m][i] # e
  BY DEF On
<1>8. ASSUME NEW m \in D, NEW o \in D, NEW i \in 1..Len(T[m]), NEW j \in 1..Len(T[o]), T[m][i] = T[o][j]
      PROVE  m = o /\ i = j
  <2>1. \A a \in 1..n, b \in 1..n : S[l][a] = S[l][b] => a = b
    BY <1>2 DEF Apart
  <2>2. \A a \in 1..n, p \in D : \A b \in 1..Len(S[p]) : S[l][a] = S[p][b] => l = p
    BY <1>2 DEF Apart
  <2>3. \A a \in 1..n : S[l][a] # e
    BY <1>2, <1>7
  <2>4. CASE m = l /\ o = l
    <3>1. \/ i = k /\ T[m][i] = e
          \/ i < k /\ i \in 1..n /\ T[m][i] = S[l][i]
          \/ i > k /\ i - 1 \in 1..n /\ T[m][i] = S[l][i - 1]
      BY <1>6, <2>4
    <3>2. \/ j = k /\ T[o][j] = e
          \/ j < k /\ j \in 1..n /\ T[o][j] = S[l][j]
          \/ j > k /\ j - 1 \in 1..n /\ T[o][j] = S[l][j - 1]
      BY <1>6, <2>4
    <3>3. i \in Nat /\ j \in Nat
      OBVIOUS
    <3>4. CASE i = k /\ T[m][i] = e
      <4>1. ~(j < k /\ j \in 1..n /\ T[o][j] = S[l][j])
        BY <1>8, <2>3, <3>4
      <4>2. ~(j > k /\ j - 1 \in 1..n /\ T[o][j] = S[l][j - 1])
        BY <1>8, <2>3, <3>4
      <4> QED BY <2>4, <3>2, <3>4, <4>1, <4>2
    <3>5. CASE i < k /\ i \in 1..n /\ T[m][i] = S[l][i]
      <4>1. j < k /\ j \in 1..n /\ T[o][j] = S[l][j] => i = j
        BY <1>8, <2>1, <3>5
      <4>2. ~(j > k /\ j - 1 \in 1..n /\ T[o][j] = S[l][j - 1])
        <5> SUFFICES ASSUME j > k, j - 1 \in 1..n, T[o][j] = S[l][j - 1] PROVE FALSE
          OBVIOUS
        <5>1. i = j - 1
          BY <1>8, <2>1, <3>5
        <5> QED BY <1>5, <3>3, <3>5, <5>1
      <4>3. ~(j = k /\ T[o][j] = e)
        BY <1>8, <2>3, <3>5
      <4> QED BY <2>4, <3>2, <4>1, <4>2, <4>3
    <3>6. CASE i > k /\ i - 1 \in 1..n /\ T[m][i] = S[l][i - 1]
      <4>1. ~(j < k /\ j \in 1..n /\ T[o][j] = S[l][j])
        <5> SUFFICES ASSUME j < k, j \in 1..n, T[o][j] = S[l][j] PROVE FALSE
          OBVIOUS
        <5>1. i - 1 = j
          BY <1>8, <2>1, <3>6
        <5> QED BY <1>5, <3>3, <3>6, <5>1
      <4>2. j > k /\ j - 1 \in 1..n /\ T[o][j] = S[l][j - 1] => i = j
        <5> SUFFICES ASSUME j > k, j - 1 \in 1..n, T[o][j] = S[l][j - 1] PROVE i = j
          OBVIOUS
        <5>1. i - 1 = j - 1
          BY <1>8, <2>1, <3>6
        <5> QED BY <3>3, <5>1
      <4>3. ~(j = k /\ T[o][j] = e)
        BY <1>8, <2>3, <3>6
      <4> QED BY <2>4, <3>2, <4>1, <4>2, <4>3
    <3> QED BY <3>1, <3>4, <3>5, <3>6
  <2>5. CASE m = l /\ o # l
    <3>1. j \in 1..Len(S[o]) /\ T[o][j] = S[o][j] /\ S[o][j] # e
      BY <1>4, <1>7, <2>5
    <3>2. T[m][i] = e \/ \E a \in 1..n : T[m][i] = S[l][a]
      BY <1>6, <2>5
    <3> QED BY <1>8, <2>2, <2>5, <3>1, <3>2
  <2>6. CASE m # l /\ o = l
    <3>1. i \in 1..Len(S[m]) /\ T[m][i] = S[m][i] /\ S[m][i] # e
      BY <1>4, <1>7, <2>6
    <3>2. T[o][j] = e \/ \E a \in 1..n : T[o][j] = S[l][a]
      BY <1>6, <2>6
    <3> QED BY <1>8, <2>2, <2>6, <3>1, <3>2
  <2>7. CASE m # l /\ o # l
    BY <1>4, <1>8, <2>7 DEF Apart
  <2> QED BY <2>4, <2>5, <2>6, <2>7
<1>9. ASSUME NEW m \in D, NEW x \in E
      PROVE  On(T[m], x) <=> On(S[m], x) \/ (m = l /\ x = e)
  <2>1. ASSUME On(T[m], x) PROVE On(S[m], x) \/ (m = l /\ x = e)
    <3>1. PICK i \in 1..Len(T[m]) : T[m][i] = x
      BY <2>1 DEF On
    <3>2. \/ m = l /\ x = e
          \/ m = l /\ \E a \in 1..Len(S[l]) : S[l][a] = x
          \/ m # l /\ i \in 1..Len(S[m]) /\ S[m][i] = x
      BY <1>2, <1>6, <3>1
    <3> QED BY <3>2 DEF On
  <2>2. ASSUME On(S[m], x) PROVE On(T[m], x)
    <3>1. PICK i \in 1..Len(S[m]) : S[m][i] = x
      BY <2>2 DEF On
    <3>2. CASE m # l
      BY <1>4, <3>1, <3>2 DEF On
    <3>3. CASE m = l
      <4>1. i \in 1..n /\ i \in Nat
        BY <1>2, <3>1, <3>3
      <4>2. CASE i < k
        <5>1. i \in 1..(n + 1)
          BY <1>2, <4>1
        <5>2. T[l][i] = x
          BY <1>3, <1>4, <3>1, <3>3, <4>2, <5>1
        <5> QED BY <1>3, <1>4, <3>3, <5>1, <5>2 DEF On
      <4>3. CASE ~(i < k)
        <5>1. i + 1 \in 1..(n + 1) /\ ~(i + 1 < k) /\ i + 1 # k /\ (i + 1) - 1 = i
          BY <1>2, <1>5, <4>1, <4>3
        <5>2. T[l][i + 1] = x
          BY <1>3, <1>4, <3>1, <3>3, <5>1
        <5> QED BY <1>3, <1>4, <3>3, <5>1, <5>2 DEF On
      <4> QED BY <4>2, <4>3
    <3> QED BY <3>2, <3>3
  <2>3. ASSUME m = l, x = e PROVE On(T[m], x)
    <3>1. k \in 1..Len(T[l]) /\ ~(k < k) /\ T[l][k] = e
      BY <1>3, <1>4, <1>5
    <3> QED BY <2>3, <3>1 DEF On
  <2> QED BY <2>1, <2>2, <2>3
<1>10. Apart(T, D)
  BY <1>8 DEF Apart
<1> QED BY <1>1, <1>4, <1>9, <1>10

\* Any element can be removed.
LEMMA ApartRemove ==
  ASSUME NEW D, NEW E, NEW S \in [D -> Seq(E)], Apart(S, D), NEW l \in D, NEW k \in 1..Len(S[l])
  PROVE  /\ Removed(S, l, k) \in [D -> Seq(E)] /\ Apart(Removed(S, l, k), D)
         /\ \A m \in D, x \in E : On(Removed(S, l, k)[m], x) <=> On(S[m], x) /\ x # S[l][k]
<1>1. PICK T : T = Removed(S, l, k)
  OBVIOUS
<1>2. PICK n \in Nat : n = Len(S[l])
  BY LenProperties
<1>3. /\ RemoveAt(S[l], k) \in Seq(E) /\ Len(RemoveAt(S[l], k)) = n - 1
      /\ \A i \in 1..(n - 1) : RemoveAt(S[l], k)[i] = IF i < k THEN S[l][i] ELSE S[l][i + 1]
  BY <1>2, RemovedAt
<1>4. T \in [D -> Seq(E)] /\ T[l] = RemoveAt(S[l], k) /\ \A m \in D : m # l => T[m] = S[m]
  BY <1>1, <1>3 DEF Removed
<1>5. k \in 1..n /\ k \in Nat
  BY <1>2
<1>6. \A a \in 1..n, p \in D : \A b \in 1..Len(S[p]) : S[l][a] = S[p][b] => l = p /\ a = b
  BY <1>2 DEF Apart
<1>7. ASSUME NEW i \in 1..Len(T[l])
      PROVE  \/ i < k /\ i \in 1..n /\ T[l][i] = S[l][i]
             \/ i >= k /\ i + 1 \in 1..n /\ T[l][i] = S[l][i + 1]
  <2>1. i \in 1..(n - 1) /\ i \in Nat
    BY <1>2, <1>3, <1>4
  <2>2. i \in 1..n /\ i + 1 \in 1..n /\ (i < k \/ i >= k) /\ (i >= k => ~(i < k))
    BY <1>2, <1>5, <2>1
  <2> QED BY <1>3, <1>4, <2>1, <2>2
<1>8. ASSUME NEW m \in D, NEW o \in D, NEW i \in 1..Len(T[m]), NEW j \in 1..Len(T[o]), T[m][i] = T[o][j]
      PROVE  m = o /\ i = j
  <2>1. CASE m = l /\ o = l
    <3>1. \/ i < k /\ i \in 1..n /\ T[l][i] = S[l][i]
          \/ i >= k /\ i + 1 \in 1..n /\ T[l][i] = S[l][i + 1]
      BY <1>7, <2>1
    <3>2. \/ j < k /\ j \in 1..n /\ T[l][j] = S[l][j]
          \/ j >= k /\ j + 1 \in 1..n /\ T[l][j] = S[l][j + 1]
      BY <1>7, <2>1
    <3>3. \A a, b \in 1..n : S[l][a] = S[l][b] => a = b
      BY <1>2, <1>6
    <3>4. \E a, b \in 1..n : a = b /\ a = (IF i < k THEN i ELSE i + 1) /\ b = (IF j < k THEN j ELSE j + 1)
      <4>1. PICK a \in 1..n : a = (IF i < k THEN i ELSE i + 1) /\ T[l][i] = S[l][a]
        BY <1>5, <3>1
      <4>2. PICK b \in 1..n : b = (IF j < k THEN j ELSE j + 1) /\ T[l][j] = S[l][b]
        BY <1>5, <3>2
      <4>3. a = b
        BY <1>8, <2>1, <3>3, <4>1, <4>2
      <4> QED BY <4>1, <4>2, <4>3
    <3>5. i = j
      <4>1. i \in Nat /\ j \in Nat
        OBVIOUS
      <4>2. (IF i < k THEN i ELSE i + 1) = (IF j < k THEN j ELSE j + 1)
        BY <3>4
      <4> QED BY <1>5, <4>1, <4>2
    <3> QED BY <2>1, <3>5
  <2>2. CASE m = l /\ o # l
    <3>1. j \in 1..Len(S[o]) /\ T[o][j] = S[o][j]
      BY <1>4, <2>2
    <3>2. \E a \in 1..n : T[m][i] = S[l][a]
      BY <1>7, <2>2
    <3> QED BY <1>6, <1>8, <2>2, <3>1, <3>2
  <2>3. CASE m # l /\ o = l
    <3>1. i \in 1..Len(S[m]) /\ T[m][i] = S[m][i]
      BY <1>4, <2>3
    <3>2. \E a \in 1..n : T[o][j] = S[l][a]
      BY <1>7, <2>3
    <3> QED BY <1>6, <1>8, <2>3, <3>1, <3>2
  <2>4. CASE m # l /\ o # l
    BY <1>4, <1>8, <2>4 DEF Apart
  <2> QED BY <2>1, <2>2, <2>3, <2>4
<1>9. ASSUME NEW m \in D, NEW x \in E
      PROVE  On(T[m], x) <=> On(S[m], x) /\ x # S[l][k]
  <2>1. ASSUME On(T[m], x) PROVE On(S[m], x) /\ x # S[l][k]
    <3>1. PICK i \in 1..Len(T[m]) : T[m][i] = x
      BY <2>1 DEF On
    <3>2. CASE m # l
      BY <1>4, <1>5, <1>6, <3>1, <3>2 DEF On
    <3>3. CASE m = l
      <4>1. PICK a \in 1..n : a # k /\ S[l][a] = x
        <5>1. \/ i < k /\ i \in 1..n /\ T[l][i] = S[l][i]
              \/ i >= k /\ i + 1 \in 1..n /\ T[l][i] = S[l][i + 1]
          BY <1>7, <3>1, <3>3
        <5>2. (i < k => i # k) /\ (i >= k => i + 1 # k)
          BY <1>5, <3>1
        <5> QED BY <3>1, <3>3, <5>1, <5>2
      <4>2. x # S[l][k]
        BY <1>2, <1>5, <1>6, <4>1
      <4> QED BY <1>2, <3>3, <4>1, <4>2 DEF On
    <3> QED BY <3>2, <3>3
  <2>2. ASSUME On(S[m], x), x # S[l][k] PROVE On(T[m], x)
    <3>1. PICK i \in 1..Len(S[m]) : S[m][i] = x
      BY <2>2 DEF On
    <3>2. CASE m # l
      BY <1>4, <3>1, <3>2 DEF On
    <3>3. CASE m = l
      <4>1. i \in 1..n /\ i \in Nat /\ i # k
        BY <1>2, <2>2, <3>1, <3>3
      <4>2. CASE i < k
        <5>1. i \in 1..(n - 1)
          BY <1>2, <1>5, <4>1, <4>2
        <5>2. T[l][i] = x
          BY <1>3, <1>4, <3>1, <3>3, <4>2, <5>1
        <5> QED BY <1>3, <1>4, <3>3, <5>1, <5>2 DEF On
      <4>3. CASE ~(i < k)
        <5>1. i - 1 \in 1..(n - 1) /\ ~(i - 1 < k) /\ (i - 1) + 1 = i
          BY <1>2, <1>5, <4>1, <4>3
        <5>2. T[l][i - 1] = x
          BY <1>3, <1>4, <3>1, <3>3, <5>1
        <5> QED BY <1>3, <1>4, <3>3, <5>1, <5>2 DEF On
      <4> QED BY <4>2, <4>3
    <3> QED BY <3>2, <3>3
  <2> QED BY <2>1, <2>2
<1>10. Apart(T, D)
  BY <1>8 DEF Apart
<1> QED BY <1>1, <1>4, <1>9, <1>10

\* A list can be emptied.
LEMMA ApartClear ==
  ASSUME NEW D, NEW E, NEW S \in [D -> Seq(E)], Apart(S, D), NEW l \in D
  PROVE  /\ Cleared(S, l) \in [D -> Seq(E)] /\ Apart(Cleared(S, l), D)
         /\ \A m \in D, x \in E : On(Cleared(S, l)[m], x) <=> On(S[m], x) /\ m # l
<1>1. PICK T : T = Cleared(S, l)
  OBVIOUS
<1>2. <<>> \in Seq(E) /\ Len(<<>>) = 0
  BY EmptySeq
<1>3. T \in [D -> Seq(E)] /\ T[l] = <<>> /\ \A m \in D : m # l => T[m] = S[m]
  BY <1>1, <1>2 DEF Cleared
<1>4. \A i \in 1..Len(T[l]) : FALSE
  BY <1>2, <1>3
<1>5. Apart(T, D)
  <2> SUFFICES ASSUME NEW m \in D, NEW o \in D, NEW i \in 1..Len(T[m]), NEW j \in 1..Len(T[o]),
                      T[m][i] = T[o][j]
               PROVE  m = o /\ i = j
    BY DEF Apart
  <2>1. m # l /\ o # l
    BY <1>4
  <2> QED BY <1>3, <2>1 DEF Apart
<1>6. \A m \in D, x \in E : On(T[m], x) <=> On(S[m], x) /\ m # l
  BY <1>3, <1>4 DEF On
<1> QED BY <1>1, <1>3, <1>5, <1>6


-----------------------------------------------------------------------------
(* What the stores of a routine do to the chains of all lists.  X is the   *)
(* set of places that have the field: the elements and the headers.        *)

\* X holds the elements and the headers.
LinkPlaces(F, D, E, X) == Heading(F, D, E) /\ E \subseteq X /\ \A m \in D : F[m] \in X

\* From N to N2 only the fields of a and c change, to v and w.
Stores(N, N2, X, a, v, c, w) ==
  N2[a] = v /\ N2[c] = w /\ \A x \in X : x # a /\ x # c => N2[x] = N[x]

\* e is on no list.
Unlisted(S, D, e) == \A m \in D : ~On(S[m], e)

\* No place is left, or right, of two places.
LEMMA NodesApart ==
  ASSUME NEW D, NEW E, NEW S \in [D -> Seq(E)], Apart(S, D), NEW F, Heading(F, D, E),
         NEW l \in D, NEW m \in D
  PROVE  /\ \A i \in 0..Len(S[l]), j \in 0..Len(S[m]) :
              Left(S[l], F[l], i) = Left(S[m], F[m], j) => l = m /\ i = j
         /\ \A i \in 1..(Len(S[l]) + 1), j \in 1..(Len(S[m]) + 1) :
              Right(S[l], F[l], i) = Right(S[m], F[m], j) => l = m /\ i = j
         /\ \A i \in 0..Len(S[l]), x \in E : Left(S[l], F[l], i) = x => i # 0 /\ On(S[l], x)
         /\ \A i \in 1..(Len(S[l]) + 1), x \in E :
              Right(S[l], F[l], i) = x => i # Len(S[l]) + 1 /\ On(S[l], x)
         /\ \A i \in 0..Len(S[l]) : i # 0 => Left(S[l], F[l], i) \in E
         /\ \A i \in 1..(Len(S[l]) + 1) : i # Len(S[l]) + 1 => Right(S[l], F[l], i) \in E
<1>1. PICK n \in Nat : n = Len(S[l]) /\ \A i \in 1..n : S[l][i] \in E
  BY LenProperties, ElementOfSeq
<1>2. PICK o \in Nat : o = Len(S[m]) /\ \A j \in 1..o : S[m][j] \in E
  BY LenProperties, ElementOfSeq
<1>3. \A i \in 1..n, j \in 1..o : S[l][i] = S[m][j] => l = m /\ i = j
  BY <1>1, <1>2 DEF Apart
<1>4. F[l] \notin E /\ F[m] \notin E /\ (F[l] = F[m] => l = m)
  BY DEF Heading
<1>5. \A i \in 0..n : Left(S[l], F[l], i) = IF i = 0 THEN F[l] ELSE S[l][i]
  BY DEF Left
<1>6. \A j \in 0..o : Left(S[m], F[m], j) = IF j = 0 THEN F[m] ELSE S[m][j]
  BY DEF Left
<1>7. \A i \in 1..(n + 1) : Right(S[l], F[l], i) = IF i = n + 1 THEN F[l] ELSE S[l][i]
  BY <1>1 DEF Right
<1>8. \A j \in 1..(o + 1) : Right(S[m], F[m], j) = IF j = o + 1 THEN F[m] ELSE S[m][j]
  BY <1>2 DEF Right
<1>9. ASSUME NEW i \in 0..n, NEW j \in 0..o, Left(S[l], F[l], i) = Left(S[m], F[m], j)
      PROVE  l = m /\ i = j
  <2>1. (i # 0 => i \in 1..n) /\ (j # 0 => j \in 1..o)
    OBVIOUS
  <2> QED BY <1>1, <1>2, <1>3, <1>4, <1>5, <1>6, <1>9, <2>1
<1>10. ASSUME NEW i \in 1..(n + 1), NEW j \in 1..(o + 1), Right(S[l], F[l], i) = Right(S[m], F[m], j)
       PROVE  l = m /\ i = j
  <2>1. (i # n + 1 => i \in 1..n) /\ (j # o + 1 => j \in 1..o)
    OBVIOUS
  <2>2. l = m => n = o
    BY <1>1, <1>2
  <2> QED BY <1>1, <1>2, <1>3, <1>4, <1>7, <1>8, <1>10, <2>1, <2>2
<1>11. ASSUME NEW i \in 0..n
       PROVE  i # 0 => Left(S[l], F[l], i) \in E /\ On(S[l], Left(S[l], F[l], i))
  <2>1. i # 0 => i \in 1..n
    OBVIOUS
  <2> QED BY <1>1, <1>5, <2>1 DEF On
<1>12. ASSUME NEW i \in 1..(n + 1)
       PROVE  i # n + 1 => Right(S[l], F[l], i) \in E /\ On(S[l], Right(S[l], F[l], i))
  <2>1. i # n + 1 => i \in 1..n
    OBVIOUS
  <2> QED BY <1>1, <1>7, <2>1 DEF On
<1>13. ASSUME NEW i \in 0..n, NEW x \in E, Left(S[l], F[l], i) = x PROVE i # 0
  BY <1>4, <1>5, <1>13
<1>14. ASSUME NEW i \in 1..(n + 1), NEW x \in E, Right(S[l], F[l], i) = x PROVE i # n + 1
  BY <1>4, <1>7, <1>14
<1>15. \A i \in 0..n, j \in 0..o : Left(S[l], F[l], i) = Left(S[m], F[m], j) => l = m /\ i = j
  BY <1>9
<1>16. \A i \in 1..(n + 1), j \in 1..(o + 1) :
         Right(S[l], F[l], i) = Right(S[m], F[m], j) => l = m /\ i = j
  BY <1>10
<1>17. \A i \in 0..n, x \in E : Left(S[l], F[l], i) = x => i # 0 /\ On(S[l], x)
  BY <1>11, <1>13
<1>18. \A i \in 1..(n + 1), x \in E : Right(S[l], F[l], i) = x => i # n + 1 /\ On(S[l], x)
  BY <1>12, <1>14
<1> QED BY <1>1, <1>2, <1>11, <1>12, <1>15, <1>16, <1>17, <1>18

LEMMA DownsInsert ==
  ASSUME NEW D, NEW E, NEW S \in [D -> Seq(E)], Apart(S, D), NEW F, NEW V, NEW X, LinkPlaces(F, D, E, X),
         NEW N, NEW N2, Downs(S, D, N, F, V),
         NEW l \in D, NEW k \in 1..(Len(S[l]) + 1), NEW e \in E, Unlisted(S, D, e),
         Stores(N, N2, X, Left(S[l], F[l], k - 1), e, e, Right(S[l], V[l], k))
  PROVE  Downs(Inserted(S, l, k, e), D, N2, F, V)
<1> USE DEF LinkPlaces, Stores, Unlisted
<1>1. PICK n \in Nat : n = Len(S[l]) /\ k \in 1..(n + 1) /\ k - 1 \in 0..n
  BY LenProperties
<1>2. InsertAt(S[l], k, e) \in Seq(E)
  BY InsertedAt
<1>3. /\ Inserted(S, l, k, e)[l] = InsertAt(S[l], k, e)
      /\ \A m \in D : m # l => Inserted(S, l, k, e)[m] = S[m]
  BY <1>2 DEF Inserted
<1>4. ASSUME NEW m \in D, NEW i \in 0..Len(S[m]), m # l \/ i # k - 1
      PROVE  N2[Left(S[m], F[m], i)] = N[Left(S[m], F[m], i)]
  <2>1. Left(S[m], F[m], i) # Left(S[l], F[l], k - 1)
    BY <1>1, <1>4, NodesApart
  <2>2. Left(S[m], F[m], i) # e
    BY NodesApart
  <2>3. Left(S[m], F[m], i) \in X
    <3>1. i # 0 => Left(S[m], F[m], i) \in E
      BY NodesApart
    <3>2. i = 0 => Left(S[m], F[m], i) = F[m]
      BY DEF Left
    <3> QED BY <3>1, <3>2
  <2> QED BY <2>1, <2>2, <2>3
<1>5. ASSUME NEW m \in D, m # l PROVE Down(S[m], N2, F[m], V[m])
  <2>1. Down(S[m], N, F[m], V[m])
    BY DEF Downs
  <2> QED BY <1>4, <1>5, <2>1 DEF Down
<1>6. Down(InsertAt(S[l], k, e), N2, F[l], V[l])
  <2>1. Down(S[l], N, F[l], V[l])
    BY DEF Downs
  <2>2. \A i \in 0..Len(S[l]) : i # k - 1 => N2[Left(S[l], F[l], i)] = N[Left(S[l], F[l], i)]
    BY <1>4
  <2> QED BY <2>1, <2>2, DownInsert
<1> QED BY <1>3, <1>5, <1>6 DEF Downs

LEMMA UpsInsert ==
  ASSUME NEW D, NEW E, NEW S \in [D -> Seq(E)], Apart(S, D), NEW B, NEW V, NEW X, LinkPlaces(B, D, E, X),
         NEW P, NEW P2, Ups(S, D, P, B, V),
         NEW l \in D, NEW k \in 1..(Len(S[l]) + 1), NEW e \in E, Unlisted(S, D, e),
         Stores(P, P2, X, Right(S[l], B[l], k), e, e, Left(S[l], V[l], k - 1))
  PROVE  Ups(Inserted(S, l, k, e), D, P2, B, V)
<1> USE DEF LinkPlaces, Stores, Unlisted
<1>1. InsertAt(S[l], k, e) \in Seq(E)
  BY InsertedAt
<1>2. /\ Inserted(S, l, k, e)[l] = InsertAt(S[l], k, e)
      /\ \A m \in D : m # l => Inserted(S, l, k, e)[m] = S[m]
  BY <1>1 DEF Inserted
<1>3. ASSUME NEW m \in D, NEW i \in 1..(Len(S[m]) + 1), m # l \/ i # k
      PROVE  P2[Right(S[m], B[m], i)] = P[Right(S[m], B[m], i)]
  <2>1. Right(S[m], B[m], i) # Right(S[l], B[l], k)
    BY <1>3, NodesApart
  <2>2. Right(S[m], B[m], i) # e
    BY NodesApart
  <2>3. Right(S[m], B[m], i) \in X
    <3>1. i # Len(S[m]) + 1 => Right(S[m], B[m], i) \in E
      BY NodesApart
    <3>2. i = Len(S[m]) + 1 => Right(S[m], B[m], i) = B[m]
      BY DEF Right
    <3> QED BY <3>1, <3>2
  <2> QED BY <2>1, <2>2, <2>3
<1>4. ASSUME NEW m \in D, m # l PROVE Up(S[m], P2, B[m], V[m])
  <2>1. Up(S[m], P, B[m], V[m])
    BY DEF Ups
  <2>2. ASSUME NEW i \in 0..Len(S[m]) PROVE i + 1 \in 1..(Len(S[m]) + 1)
    BY LenProperties
  <2> QED BY <1>3, <1>4, <2>1, <2>2 DEF Up
<1>5. Up(InsertAt(S[l], k, e), P2, B[l], V[l])
  <2>1. Up(S[l], P, B[l], V[l])
    BY DEF Ups
  <2>2. \A i \in 1..(Len(S[l]) + 1) : i # k => P2[Right(S[l], B[l], i)] = P[Right(S[l], B[l], i)]
    BY <1>3
  <2> QED BY <2>1, <2>2, UpInsert
<1> QED BY <1>2, <1>4, <1>5 DEF Ups

LEMMA DownsRemove ==
  ASSUME NEW D, NEW E, NEW S \in [D -> Seq(E)], Apart(S, D), NEW F, NEW V, NEW X, LinkPlaces(F, D, E, X),
         NEW N, NEW N2, Downs(S, D, N, F, V),
         NEW l \in D, NEW k \in 1..Len(S[l]), NEW w,
         Stores(N, N2, X, Left(S[l], F[l], k - 1), Right(S[l], V[l], k + 1), S[l][k], w)
  PROVE  Downs(Removed(S, l, k), D, N2, F, V)
<1> USE DEF LinkPlaces, Stores
<1>1. PICK n \in Nat : n = Len(S[l]) /\ k \in 1..n /\ k - 1 \in 0..n /\ k \in 0..n /\ k # 0
  BY LenProperties
<1>2. RemoveAt(S[l], k) \in Seq(E)
  BY RemovedAt
<1>3. /\ Removed(S, l, k)[l] = RemoveAt(S[l], k)
      /\ \A m \in D : m # l => Removed(S, l, k)[m] = S[m]
  BY <1>2 DEF Removed
<1>4. S[l][k] = Left(S[l], F[l], k)
  BY <1>1 DEF Left
<1>5. ASSUME NEW m \in D, NEW i \in 0..Len(S[m]), m # l \/ (i # k - 1 /\ i # k)
      PROVE  N2[Left(S[m], F[m], i)] = N[Left(S[m], F[m], i)]
  <2>1. Left(S[m], F[m], i) # Left(S[l], F[l], k - 1)
    BY <1>1, <1>5, NodesApart
  <2>2. Left(S[m], F[m], i) # S[l][k]
    BY <1>1, <1>4, <1>5, NodesApart, SMTT(60)
  <2>3. Left(S[m], F[m], i) \in X
    <3>1. i # 0 => Left(S[m], F[m], i) \in E
      <4>1. \A j \in 0..Len(S[m]) : j # 0 => Left(S[m], F[m], j) \in E
        BY NodesApart
      <4> QED BY <4>1
    <3>2. i = 0 => Left(S[m], F[m], i) = F[m]
      BY DEF Left
    <3> QED BY <3>1, <3>2
  <2> QED BY <2>1, <2>2, <2>3
<1>6. ASSUME NEW m \in D, m # l PROVE Down(S[m], N2, F[m], V[m])
  <2>1. Down(S[m], N, F[m], V[m])
    BY DEF Downs
  <2> QED BY <1>5, <1>6, <2>1 DEF Down
<1>7. Down(RemoveAt(S[l], k), N2, F[l], V[l])
  <2>1. Down(S[l], N, F[l], V[l])
    BY DEF Downs
  <2>2. \A i \in 0..Len(S[l]) :
          i # k - 1 /\ i # k => N2[Left(S[l], F[l], i)] = N[Left(S[l], F[l], i)]
    BY <1>5
  <2> QED BY <2>1, <2>2, DownRemove
<1> QED BY <1>3, <1>6, <1>7 DEF Downs

LEMMA UpsRemove ==
  ASSUME NEW D, NEW E, NEW S \in [D -> Seq(E)], Apart(S, D), NEW B, NEW V, NEW X, LinkPlaces(B, D, E, X),
         NEW P, NEW P2, Ups(S, D, P, B, V),
         NEW l \in D, NEW k \in 1..Len(S[l]), NEW w,
         Stores(P, P2, X, Right(S[l], B[l], k + 1), Left(S[l], V[l], k - 1), S[l][k], w)
  PROVE  Ups(Removed(S, l, k), D, P2, B, V)
<1> USE DEF LinkPlaces, Stores
<1>1. PICK n \in Nat : n = Len(S[l]) /\ k \in 1..n /\ k \in 1..(n + 1) /\ k + 1 \in 1..(n + 1) /\ k # n + 1
  BY LenProperties, SMTT(60)
<1>2. RemoveAt(S[l], k) \in Seq(E)
  BY RemovedAt
<1>3. /\ Removed(S, l, k)[l] = RemoveAt(S[l], k)
      /\ \A m \in D : m # l => Removed(S, l, k)[m] = S[m]
  BY <1>2 DEF Removed
<1>4. S[l][k] = Right(S[l], B[l], k)
  BY <1>1 DEF Right
<1>5. ASSUME NEW m \in D, NEW i \in 1..(Len(S[m]) + 1), m # l \/ (i # k /\ i # k + 1)
      PROVE  P2[Right(S[m], B[m], i)] = P[Right(S[m], B[m], i)]
  <2>1. Right(S[m], B[m], i) # Right(S[l], B[l], k + 1)
    BY <1>1, <1>5, NodesApart
  <2>2. Right(S[m], B[m], i) # S[l][k]
    BY <1>1, <1>4, <1>5, NodesApart
  <2>3. Right(S[m], B[m], i) \in X
    <3>1. i # Len(S[m]) + 1 => Right(S[m], B[m], i) \in E
      BY NodesApart
    <3>2. i = Len(S[m]) + 1 => Right(S[m], B[m], i) = B[m]
      BY DEF Right
    <3> QED BY <3>1, <3>2
  <2> QED BY <2>1, <2>2, <2>3
<1>6. ASSUME NEW m \in D, m # l PROVE Up(S[m], P2, B[m], V[m])
  <2>1. Up(S[m], P, B[m], V[m])
    BY DEF Ups
  <2>2. ASSUME NEW i \in 0..Len(S[m]) PROVE i + 1 \in 1..(Len(S[m]) + 1)
    BY LenProperties
  <2> QED BY <1>5, <1>6, <2>1, <2>2 DEF Up
<1>7. Up(RemoveAt(S[l], k), P2, B[l], V[l])
  <2>1. Up(S[l], P, B[l], V[l])
    BY DEF Ups
  <2>2. \A i \in 1..(Len(S[l]) + 1) :
          i # k /\ i # k + 1 => P2[Right(S[l], B[l], i)] = P[Right(S[l], B[l], i)]
    BY <1>5
  <2> QED BY <2>1, <2>2, UpRemove
<1> QED BY <1>3, <1>6, <1>7 DEF Ups


\* From N to N2 the field of a changes to v, and any field of what is on s.
StoresOff(N, N2, X, a, v, s) ==
  N2[a] = v /\ \A x \in X : x # a /\ ~On(s, x) => N2[x] = N[x]

LEMMA DownsClear ==
  ASSUME NEW D, NEW E, NEW S \in [D -> Seq(E)], Apart(S, D), NEW F, NEW V, NEW X, LinkPlaces(F, D, E, X),
         NEW N, NEW N2, Downs(S, D, N, F, V), NEW l \in D,
         StoresOff(N, N2, X, F[l], V[l], S[l])
  PROVE  Downs(Cleared(S, l), D, N2, F, V)
<1> USE DEF LinkPlaces, StoresOff
<1>1. Cleared(S, l)[l] = <<>> /\ \A m \in D : m # l => Cleared(S, l)[m] = S[m]
  BY DEF Cleared
<1>2. Down(<<>>, N2, F[l], V[l])
  <2>1. Len(<<>>) = 0 /\ \A i \in 0..0 : i = 0 /\ i + 1 = 0 + 1
    OBVIOUS
  <2> QED BY <2>1 DEF Down, Left, Right
<1>3. ASSUME NEW m \in D, m # l PROVE Down(S[m], N2, F[m], V[m])
  <2>1. Down(S[m], N, F[m], V[m])
    BY DEF Downs
  <2>2. ASSUME NEW i \in 0..Len(S[m])
        PROVE  N2[Left(S[m], F[m], i)] = N[Left(S[m], F[m], i)]
    <3>1. CASE i = 0
      <4>1. Left(S[m], F[m], i) = F[m] /\ F[m] \notin E /\ F[m] # F[l] /\ F[m] \in X
        BY <1>3, <3>1 DEF Left, Heading
      <4>2. ~On(S[l], F[m])
        BY <4>1, ElementOfSeq DEF On
      <4> QED BY <4>1, <4>2
    <3>2. CASE i # 0
      <4>1. i \in 1..Len(S[m]) /\ Left(S[m], F[m], i) = S[m][i]
        BY <3>2, LenProperties DEF Left
      <4>2. S[m][i] \in E /\ S[m][i] # F[l]
        BY <4>1, ElementOfSeq DEF Heading
      <4>3. ~On(S[l], S[m][i])
        BY <1>3, <4>1 DEF On, Apart
      <4> QED BY <4>1, <4>2, <4>3
    <3> QED BY <3>1, <3>2
  <2> QED BY <2>1, <2>2 DEF Down
<1> QED BY <1>1, <1>2, <1>3 DEF Downs

LEMMA UpsClear ==
  ASSUME NEW D, NEW E, NEW S \in [D -> Seq(E)], Apart(S, D), NEW B, NEW V, NEW X, LinkPlaces(B, D, E, X),
         NEW P, NEW P2, Ups(S, D, P, B, V), NEW l \in D,
         StoresOff(P, P2, X, B[l], V[l], S[l])
  PROVE  Ups(Cleared(S, l), D, P2, B, V)
<1> USE DEF LinkPlaces, StoresOff
<1>1. Cleared(S, l)[l] = <<>> /\ \A m \in D : m # l => Cleared(S, l)[m] = S[m]
  BY DEF Cleared
<1>2. Up(<<>>, P2, B[l], V[l])
  <2>1. Len(<<>>) = 0 /\ \A i \in 0..0 : i = 0 /\ i + 1 = 0 + 1
    OBVIOUS
  <2> QED BY <2>1 DEF Up, Left, Right
<1>3. ASSUME NEW m \in D, m # l PROVE Up(S[m], P2, B[m], V[m])
  <2>1. Up(S[m], P, B[m], V[m])
    BY DEF Ups
  <2>2. ASSUME NEW i \in 1..(Len(S[m]) + 1)
        PROVE  P2[Right(S[m], B[m], i)] = P[Right(S[m], B[m], i)]
    <3>1. CASE i = Len(S[m]) + 1
      <4>1. Right(S[m], B[m], i) = B[m] /\ B[m] \notin E /\ B[m] # B[l] /\ B[m] \in X
        BY <1>3, <3>1 DEF Right, Heading
      <4>2. ~On(S[l], B[m])
        BY <4>1, ElementOfSeq DEF On
      <4> QED BY <4>1, <4>2
    <3>2. CASE i # Len(S[m]) + 1
      <4>1. i \in 1..Len(S[m]) /\ Right(S[m], B[m], i) = S[m][i]
        BY <3>2, LenProperties DEF Right
      <4>2. S[m][i] \in E /\ S[m][i] # B[l]
        BY <4>1, ElementOfSeq DEF Heading
      <4>3. ~On(S[l], S[m][i])
        BY <1>3, <4>1 DEF On, Apart
      <4> QED BY <4>1, <4>2, <4>3
    <3> QED BY <3>1, <3>2
  <2>3. ASSUME NEW i \in 0..Len(S[m]) PROVE i + 1 \in 1..(Len(S[m]) + 1)
    BY LenProperties
  <2> QED BY <2>1, <2>2, <2>3 DEF Up
<1> QED BY <1>1, <1>2, <1>3 DEF Ups

-----------------------------------------------------------------------------
(* Reading the lists off the links gives the sequences.                    *)

LEMMA ReadDown ==
  ASSUME NEW E, IsFiniteSet(E), NEW s \in Seq(E),
         \A i, j \in 1..Len(s) : s[i] = s[j] => i = j,
         NEW N, NEW f, NEW v, v \notin E, Down(s, N, f, v),
         NEW next, \A x \in E : next[x] = N[x]
  PROVE  Follow(N[f], next, v, Cardinality(E)) = s
<1>1. PICK n \in Nat : n = Len(s) /\ \A i \in 1..n : s[i] \in E
  BY LenProperties, ElementOfSeq
<1>2. PICK c \in Nat : c = Cardinality(E) /\ n <= c
  BY <1>1, NoLonger
<1>3. Len(s) <= c + 1
  BY <1>1, <1>2
<1>4. \A i \in 0..n : N[Left(s, f, i)] = Right(s, v, i + 1)
  BY <1>1 DEF Down
<1>5. ASSUME NEW i \in 1..Len(s) PROVE next[s[i]] = Right(s, v, i + 1)
  <2>1. i \in 0..n /\ i # 0 /\ s[i] \in E
    BY <1>1
  <2>2. Left(s, f, i) = s[i]
    BY <2>1 DEF Left
  <2> QED BY <1>4, <2>1, <2>2
<1>6. N[f] = Right(s, v, 1)
  <2>1. 0 \in 0..n /\ 0 + 1 = 1
    BY <1>1
  <2>2. Left(s, f, 0) = f
    BY DEF Left
  <2> QED BY <1>4, <2>1, <2>2
<1>7. Follow(N[f], next, v, c) = s
  BY <1>2, <1>3, <1>5, <1>6, FollowIs
<1> QED BY <1>2, <1>7

LEMMA ReadUp ==
  ASSUME NEW E, IsFiniteSet(E), NEW s \in Seq(E),
         \A i, j \in 1..Len(s) : s[i] = s[j] => i = j,
         NEW P, NEW b, NEW v, v \notin E, Up(s, P, b, v),
         NEW prev, \A x \in E : prev[x] = P[x]
  PROVE  Follow(P[b], prev, v, Cardinality(E)) = Reverse(s)
<1>1. PICK n \in Nat : n = Len(s) /\ \A i \in 1..n : s[i] \in E
  BY LenProperties, ElementOfSeq
<1>2. PICK c \in Nat : c = Cardinality(E) /\ n <= c
  BY <1>1, NoLonger
<1>3. PICK r \in Seq(E) : /\ r = Reverse(s) /\ Len(r) = n
                          /\ \A i \in 1..n : r[i] = s[(n - i) + 1]
  BY <1>1, Reversed
<1>4. \A i \in 0..n : P[Right(s, b, i + 1)] = Left(s, v, i)
  BY <1>1 DEF Up
<1>5. ASSUME NEW i \in 0..n PROVE Left(s, v, n - i) = Right(r, v, i + 1)
  <2>1. i = n => n - i = 0 /\ i + 1 = Len(r) + 1
    BY <1>3
  <2>2. i # n => n - i # 0 /\ i + 1 # Len(r) + 1 /\ i + 1 \in 1..n /\ (n - (i + 1)) + 1 = n - i
    BY <1>1, <1>3
  <2> QED BY <1>3, <2>1, <2>2 DEF Left, Right
<1>6. ASSUME NEW i \in 1..Len(r) PROVE prev[r[i]] = Right(r, v, i + 1)
  <2>1. i \in 0..n /\ i \in 1..n /\ n - i \in 0..n /\ (n - i) + 1 \in 1..n /\ (n - i) + 1 # n + 1
    BY <1>1, <1>3
  <2>2. r[i] = s[(n - i) + 1] /\ s[(n - i) + 1] \in E
    BY <1>1, <1>3, <2>1
  <2>3. Right(s, b, (n - i) + 1) = s[(n - i) + 1]
    BY <1>1, <2>1 DEF Right
  <2>4. P[Right(s, b, (n - i) + 1)] = Left(s, v, n - i)
    BY <1>4, <2>1
  <2> QED BY <1>5, <2>1, <2>2, <2>3, <2>4
<1>7. P[b] = Right(r, v, 1)
  <2>1. n \in 0..n /\ 0 \in 0..n /\ n - 0 = n /\ 0 + 1 = 1
    BY <1>1
  <2>2. Right(s, b, n + 1) = b
    BY <1>1 DEF Right
  <2>3. P[Right(s, b, n + 1)] = Left(s, v, n)
    BY <1>4, <2>1
  <2>4. Left(s, v, n - 0) = Right(r, v, 0 + 1)
    BY <1>5, <2>1
  <2> QED BY <2>1, <2>2, <2>3, <2>4
<1>8. Len(r) <= c + 1
  BY <1>1, <1>2, <1>3
<1>9. Follow(P[b], prev, v, c) = r
  BY <1>6, <1>7, <1>8, FollowIs, SMTT(60)
<1> QED BY <1>2, <1>3, <1>9


-----------------------------------------------------------------------------
(* Doubling.                                                               *)

\* The numbers from which a loop reaches c within n rounds.
From(c, n) == {m \in Nat : m + n >= c}

\* g returns, for a number of D, the first of its doubles that is in G.
Doubles(g, D, G) ==
  /\ g \in [D -> Nat]
  /\ \A m \in D : g[m] = IF m \in G THEN m ELSE g[2 * m]

\* A loop that doubles until a set G is reached that holds all large numbers
\* has a result (my_log2, enlarge_string_info, append_string_info).
LEMMA DoublingDefined ==
  ASSUME NEW G, G \subseteq Nat, NEW c \in Nat, \A m \in Nat : m >= c => m \in G
  PROVE  \E g : Doubles(g, Nat, G)
<1> DEFINE Bad == {n \in Nat : ~\E g : Doubles(g, From(c, n), G)}
<1>1. Bad = {}
  <2> SUFFICES ASSUME Bad # {} PROVE FALSE
    OBVIOUS
  <2>1. PICK n \in Bad : \A y \in Bad : n <= y
    <3> HIDE DEF Bad
    <3>1. Bad \subseteq Nat
      BY DEF Bad
    <3> QED BY <3>1, Smallest
  <2>2. n # 0
    <3> SUFFICES ASSUME n = 0 PROVE FALSE
      OBVIOUS
    <3> DEFINE g == [m \in From(c, 0) |-> m]
    <3>1. g \in [From(c, 0) -> Nat]
      BY DEF From
    <3>2. \A m \in From(c, 0) : m \in G
      BY DEF From
    <3>3. Doubles(g, From(c, 0), G)
      BY <3>1, <3>2 DEF Doubles
    <3> QED BY <3>3
  <2>3. n - 1 \in Nat /\ n \in Nat
    BY <2>2
  <2>4. PICK h : Doubles(h, From(c, n - 1), G)
    <3>1. ~(n <= n - 1)
      BY <2>3
    <3> QED BY <2>1, <2>3, <3>1
  <2> DEFINE new(m) == IF m \in From(c, n - 1) THEN h[m]
                       ELSE IF m \in G THEN m ELSE IF m = 0 THEN 0 ELSE h[2 * m]
  <2> DEFINE g == [m \in From(c, n) |-> new(m)]
  <2>5. ASSUME NEW m \in From(c, n)
        PROVE  /\ m \in Nat /\ 2 * m \in From(c, n)
               /\ m \notin From(c, n - 1) /\ m # 0 => 2 * m \in From(c, n - 1)
               /\ m \in From(c, n - 1) => 2 * m \in From(c, n - 1)
    BY <2>3 DEF From
  <2>6. h \in [From(c, n - 1) -> Nat]
    BY <2>4 DEF Doubles
  <2>7. ASSUME NEW m \in From(c, n) PROVE new(m) \in Nat
    BY <2>5, <2>6
  <2>8. g \in [From(c, n) -> Nat]
    BY <2>7
  <2>9. ASSUME NEW m \in From(c, n)
        PROVE  g[m] = IF m \in G THEN m ELSE g[2 * m]
    <3>1. g[m] = new(m) /\ g[2 * m] = new(2 * m)
      BY <2>5
    <3>2. CASE m \in From(c, n - 1)
      <4>1. h[m] = IF m \in G THEN m ELSE h[2 * m]
        BY <2>4, <3>2 DEF Doubles
      <4> QED BY <2>5, <3>1, <3>2, <4>1
    <3>3. CASE m \notin From(c, n - 1) /\ m # 0
      BY <2>5, <3>1, <3>3
    <3>4. CASE m \notin From(c, n - 1) /\ m = 0
      <4>1. 2 * m = m
        BY <3>4
      <4> QED BY <3>1, <3>4, <4>1
    <3> QED BY <3>2, <3>3, <3>4
  <2>10. Doubles(g, From(c, n), G)
    <3> HIDE DEF g
    <3> QED BY <2>8, <2>9 DEF Doubles
  <2> QED BY <2>10
<1>2. c \notin Bad
  BY <1>1
<1>3. From(c, c) = Nat
  BY DEF From
<1> QED BY <1>2, <1>3

\* What it returns: the number itself or a larger one, in G.
LEMMA DoublingReaches ==
  ASSUME NEW G, G \subseteq Nat, NEW c \in Nat, \A m \in Nat : m >= c => m \in G,
         NEW g, \A m \in Nat : g[m] = IF m \in G THEN m ELSE g[2 * m],
         NEW k \in Nat \ {0}
  PROVE  g[k] \in G /\ g[k] >= k
<1> DEFINE Bad == {n \in Nat : \E m \in Nat \ {0} : m + n >= c /\ ~(g[m] \in G /\ g[m] >= m)}
<1>1. Bad = {}
  <2> SUFFICES ASSUME Bad # {} PROVE FALSE
    OBVIOUS
  <2>1. PICK n \in Bad : \A y \in Bad : n <= y
    <3> HIDE DEF Bad
    <3>1. Bad \subseteq Nat
      BY DEF Bad
    <3> QED BY <3>1, Smallest
  <2>2. PICK m \in Nat \ {0} : m + n >= c /\ ~(g[m] \in G /\ g[m] >= m)
    BY <2>1
  <2>3. m \notin G /\ g[m] = g[2 * m] /\ 2 * m \in Nat \ {0}
    BY <2>2
  <2>4. n \in Nat /\ n # 0
    <3>1. ~(m >= c)
      BY <2>3
    <3> QED BY <3>1, <2>1, <2>2
  <2>5. n - 1 \in Nat /\ ~(n <= n - 1) /\ 2 * m + (n - 1) >= c
    BY <2>2, <2>4
  <2>6. g[2 * m] \in G /\ g[2 * m] >= 2 * m
    BY <2>1, <2>3, <2>5
  <2>7. g[m] \in G /\ g[m] >= m
    <3>1. PICK x : x = g[2 * m]
      OBVIOUS
    <3>2. x \in Nat /\ x >= 2 * m /\ m \in Nat
      BY <2>6, <3>1
    <3>3. x >= m
      BY <3>2
    <3> QED BY <2>3, <2>6, <3>1, <3>3
  <2> QED BY <2>2, <2>7
<1>2. c \notin Bad
  BY <1>1
<1> QED BY <1>2
=============================================================================
