---------------------------- MODULE LibraryProofs ---------------------------
(***************************************************************************)
(* Proofs about the containers of MCLibrary.                               *)
(*                                                                         *)
(* A string buffer of stringinfo.c holds what was appended to it, for      *)
(* every initial size, every set of texts and however the ways of          *)
(* appending are mixed.  The sizes of the code come from loops that double *)
(* a number until it is large enough (see the lemmas on doubling of        *)
(* RingProofs).                                                            *)
(*                                                                         *)
(* The lists of dllist.c, shmqueue.c and oset.c and the stacks of fstack.c *)
(* are well linked, and each routine changes them as SeqLists allows, for  *)
(* any number of lists and elements.  The invariant says that there are    *)
(* sequences that the links hold; each routine is shown to store what the  *)
(* lemmas on links of RingProofs ask for, so the links hold the changed    *)
(* sequences afterwards.                                                   *)
(*                                                                         *)
(* The memory contexts of mctx.c are a tree at every step of a deletion,   *)
(* and a walk over a context meets exactly its descendants.  Lists and     *)
(* ancestors are described by the sets that links do not lead out of, so   *)
(* that no induction along them is needed.                                 *)
(***************************************************************************)
EXTENDS MCLibrary, RingProofs, SequenceTheorems

-----------------------------------------------------------------------------
(* String buffers.                                                         *)

\* The size enlarge_string_info leaves has room for the bytes that are needed
\* and a terminator, and is no smaller than before.
LEMMA EnlargeEnough ==
  ASSUME NEW needed \in Nat, len \in Nat, maxlen \in Nat \ {0}
  PROVE  /\ enlarge_string_info(needed) \in Nat
         /\ enlarge_string_info(needed) >= maxlen
         /\ needed + len + 1 <= enlarge_string_info(needed)
<1> DEFINE G == {m \in Nat : needed + len + 1 <= m}
<1> DEFINE f == CHOOSE g : g = [m \in Nat |-> IF needed + len + 1 <= m THEN m ELSE g[2 * m]]
<1>1. G \subseteq Nat /\ needed + len + 1 \in Nat /\ \A m \in Nat : m >= needed + len + 1 => m \in G
  OBVIOUS
<1>2. PICK h : Doubles(h, Nat, G)
  BY <1>1, DoublingDefined
<1>3. h = [m \in Nat |-> IF needed + len + 1 <= m THEN m ELSE h[2 * m]]
  BY <1>2 DEF Doubles
<1>4. f = [m \in Nat |-> IF needed + len + 1 <= m THEN m ELSE f[2 * m]]
  BY <1>3
<1>5. \A m \in Nat : f[m] = IF m \in G THEN m ELSE f[2 * m]
  <2> HIDE DEF f
  <2> QED BY <1>4
<1>6. f[maxlen] \in G /\ f[maxlen] >= maxlen
  <2> HIDE DEF f, G
  <2> QED BY <1>1, <1>5, DoublingReaches
<1>7. enlarge_string_info(needed) = f[maxlen]
  BY DEF enlarge_string_info
<1> QED BY <1>6, <1>7

\* The loop of append_string_info ends.
LEMMA GrowDefined ==
  ASSUME NEW n \in Nat, len \in Nat
  PROVE  \E g : g = [m \in Nat |-> IF Printed(m, n) THEN m ELSE g[2 * m]]
<1> DEFINE G == {m \in Nat : Printed(m, n)}
<1>1. HARDLY_ANY \in Nat
  BY StringAssumption
<1>2. /\ G \subseteq Nat /\ n + len + HARDLY_ANY + 4 \in Nat
      /\ \A m \in Nat : m >= n + len + HARDLY_ANY + 4 => m \in G
  BY <1>1 DEF Printed
<1>3. PICK h : Doubles(h, Nat, G)
  BY <1>2, DoublingDefined
<1>4. h = [m \in Nat |-> IF Printed(m, n) THEN m ELSE h[2 * m]]
  BY <1>3 DEF Doubles
<1> QED BY <1>4

\* The size it arrives at lets vsnprintf print the text.
LEMMA GrowEnough ==
  ASSUME NEW n \in Nat, len \in Nat, maxlen \in Nat \ {0},
         NEW f, f = [m \in Nat |-> IF Printed(m, n) THEN m ELSE f[2 * m]]
  PROVE  /\ f[maxlen] \in Nat /\ f[maxlen] >= maxlen
         /\ n + len + 1 <= f[maxlen]
<1> DEFINE G == {m \in Nat : Printed(m, n)}
<1>1. HARDLY_ANY \in Nat
  BY StringAssumption
<1>2. G \subseteq Nat /\ \A m \in Nat : f[m] = IF m \in G THEN m ELSE f[2 * m]
  OBVIOUS
<1>3. PICK c \in Nat : \A m \in Nat : m >= c => m \in G
  <2>1. \A m \in Nat : m >= n + len + HARDLY_ANY + 4 => m \in G
    BY <1>1 DEF Printed
  <2>2. PICK c \in Nat : c = n + len + HARDLY_ANY + 4
    BY <1>1
  <2> HIDE DEF G
  <2> QED BY <2>1, <2>2
<1>4. f[maxlen] \in G /\ f[maxlen] >= maxlen
  <2> HIDE DEF G
  <2> QED BY <1>2, <1>3, DoublingReaches
<1>5. \A m \in G : m \in Nat /\ n + len + 1 <= m
  BY <1>1 DEF Printed
<1> QED BY <1>4, <1>5

\* The inductive invariant: StringKept and the types it rests on.
Bytes == UNION {Range(s) : s \in Pieces}

StringInv ==
  /\ text \in Seq(Bytes) /\ maxlen \in Nat \ {0} /\ len \in Nat
  /\ data = [i \in 0..maxlen - 1 |-> data[i]]
  /\ StringKept

\* Text s and a terminator stored in a buffer of m bytes, which is large
\* enough for them.
LEMMA StoreKeeps ==
  ASSUME StringInv, NEW s \in Seq(Bytes), NEW m \in Nat, m >= maxlen, Len(s) + len + 1 <= m,
         maxlen' = m, Store(Repalloc(m), s), text' = text \o s
  PROVE  StringInv'
<1>1. /\ text \in Seq(Bytes) /\ maxlen \in Nat \ {0} /\ len \in Nat /\ ~overrun
      /\ len = Len(text) /\ len < maxlen /\ Len(s) \in Nat
      /\ \A i \in 1..len : data[i - 1] = text[i]
  BY LenProperties DEF StringInv, StringKept, TextKept, Terminated
<1>2. /\ text' \in Seq(Bytes) /\ Len(text') = len + Len(s)
      /\ \A i \in 1..(len + Len(s)) : text'[i] = IF i <= len THEN text[i] ELSE s[i - len]
  BY <1>1, ConcatProperties
<1>3. DOMAIN Repalloc(m) = 0..m - 1
  BY DEF Repalloc
<1>4. \A i \in 0..m - 1 : Repalloc(m)[i] = IF i < maxlen THEN data[i] ELSE "?"
  BY DEF Repalloc
<1>5. /\ len' = len + Len(s)
      /\ overrun' = (overrun \/ len + Len(s) \notin 0..m - 1)
      /\ data' = [i \in 0..m - 1 |-> CASE i \in len..len + Len(s) - 1 -> s[i - len + 1]
                                       [] i = len + Len(s) -> NUL
                                       [] OTHER -> Repalloc(m)[i]]
  BY <1>3 DEF Store
<1>6. len' \in Nat /\ len' < m /\ len' \in 0..m - 1 /\ m \in Nat \ {0}
  BY <1>1, <1>5
<1>7. ~overrun'
  BY <1>1, <1>5, <1>6
<1>8. data'[len'] = NUL
  <2>1. ~(len' \in len..len + Len(s) - 1)
    BY <1>1, <1>5
  <2> QED BY <1>5, <1>6, <2>1
<1>9. ASSUME NEW i \in 1..len' PROVE data'[i - 1] = text'[i]
  <2>1. i - 1 \in 0..m - 1 /\ i \in Nat /\ i \in 1..(len + Len(s))
    BY <1>5, <1>6
  <2>2. CASE i <= len
    <3>1. i \in 1..len /\ i - 1 < maxlen /\ ~(i - 1 \in len..len + Len(s) - 1) /\ i - 1 # len + Len(s)
      BY <1>1, <2>1, <2>2
    <3>2. data'[i - 1] = Repalloc(m)[i - 1]
      BY <1>5, <2>1, <3>1
    <3>3. Repalloc(m)[i - 1] = data[i - 1]
      BY <1>4, <2>1, <3>1
    <3>4. text'[i] = text[i]
      BY <1>2, <2>1, <2>2
    <3> QED BY <1>1, <3>1, <3>2, <3>3, <3>4
  <2>3. CASE ~(i <= len)
    <3>1. i - 1 \in len..len + Len(s) - 1 /\ (i - 1) - len + 1 = i - len
      BY <1>1, <2>1, <2>3, SMTT(60)
    <3>2. data'[i - 1] = s[i - len]
      BY <1>5, <2>1, <3>1
    <3> QED BY <1>2, <2>1, <2>3, <3>2
  <2> QED BY <2>2, <2>3
<1>10. data' = [i \in 0..m - 1 |-> data'[i]] /\ DOMAIN data' = 0..m - 1
  BY <1>5
<1> QED BY <1>2, <1>5, <1>6, <1>7, <1>8, <1>9, <1>10 DEF StringInv, StringKept, TextKept, Terminated

\* Every way of appending keeps the invariant.
LEMMA StringStepKeeps ==
  ASSUME StringInv, StringNext
  PROVE  StringInv'
<1>1. PICK s \in Pieces :
        \/ append_string_info(s) \/ append_binary_string_info(s)
        \/ Len(s) = 1 /\ append_string_info_char(s[1])
  BY DEF StringNext
<1>2. s \in Seq(Bytes)
  <2>1. s \in Seq(Range(s)) /\ Range(s) \subseteq Bytes
    BY StringAssumption DEF Bytes
  <2> QED BY <2>1
<1>3. Len(s) \in Nat /\ len \in Nat /\ maxlen \in Nat \ {0} /\ text \in Seq(Bytes) /\ len < maxlen
  BY <1>2, LenProperties DEF StringInv, StringKept, Terminated
<1>4. CASE append_string_info(s)
  <2>1. PICK f : f = CHOOSE g : g = [m \in Nat |-> IF Printed(m, Len(s)) THEN m ELSE g[2 * m]]
    OBVIOUS
  <2>0. f = [m \in Nat |-> IF Printed(m, Len(s)) THEN m ELSE f[2 * m]]
    BY <1>3, <2>1, GrowDefined
  <2>2. maxlen' = f[maxlen] /\ Store(Repalloc(f[maxlen]), s) /\ text' = text \o s
    BY <1>4, <2>1 DEF append_string_info
  <2>3. /\ f[maxlen] \in Nat /\ f[maxlen] >= maxlen
        /\ Len(s) + len + 1 <= f[maxlen]
    BY <1>3, <2>0, GrowEnough
  <2> QED BY <1>2, <2>2, <2>3, StoreKeeps
<1>5. CASE append_binary_string_info(s)
  <2>1. PICK m : m = enlarge_string_info(Len(s))
    OBVIOUS
  <2>2. maxlen' = m /\ Store(Repalloc(m), s) /\ text' = text \o s
    BY <1>5, <2>1 DEF append_binary_string_info
  <2>3. m \in Nat /\ m >= maxlen /\ Len(s) + len + 1 <= m
    BY <1>3, <2>1, EnlargeEnough
  <2> QED BY <1>2, <2>2, <2>3, StoreKeeps
<1>6. CASE Len(s) = 1 /\ append_string_info_char(s[1])
  <2>1. PICK m : m = IF len + 1 >= maxlen THEN enlarge_string_info(1) ELSE maxlen
    OBVIOUS
  <2>2. maxlen' = m /\ Store(Repalloc(m), <<s[1]>>) /\ text' = Append(text, s[1])
    BY <1>6, <2>1 DEF append_string_info_char
  <2>3. s[1] \in Bytes
    BY <1>2, <1>6, ElementOfSeq
  <2>4. <<s[1]>> \in Seq(Bytes) /\ Len(<<s[1]>>) = 1
    BY <2>3
  <2>5. text' = text \o <<s[1]>>
    BY <1>3, <2>2, <2>3, AppendIsConcat
  <2>6. /\ enlarge_string_info(1) \in Nat /\ enlarge_string_info(1) >= maxlen
        /\ 1 + len + 1 <= enlarge_string_info(1)
    BY <1>3, EnlargeEnough
  <2>7. m \in Nat /\ m >= maxlen /\ 1 + len + 1 <= m
    BY <1>3, <2>1, <2>6
  <2> QED BY <2>2, <2>4, <2>5, <2>7, StoreKeeps
<1> QED BY <1>1, <1>4, <1>5, <1>6

\* A string buffer holds what was appended to it, terminated and inside its
\* memory, for every initial size, every set of texts and any order of the
\* three ways of appending (stringinfo.c).
THEOREM StringsAreKept == Spec => []StringKept
<1>1. Init => StringInv
  <2> SUFFICES ASSUME Init PROVE StringInv
    OBVIOUS
  <2>1. StringInit
    BY DEF Init
  <2>2. INIT_SIZE \in Nat \ {0}
    BY StringAssumption
  <2>3. 0 \in 0..INIT_SIZE - 1
    BY <2>2
  <2>4. text \in Seq(Bytes) /\ Len(text) = 0
    BY <2>1, EmptySeq DEF StringInit
  <2> QED BY <2>1, <2>2, <2>3, <2>4 DEF StringInit, StringInv, StringKept, TextKept, Terminated
<1>2. StringInv /\ [Next]_vars => StringInv'
  <2> SUFFICES ASSUME StringInv, [Next]_vars PROVE StringInv'
    OBVIOUS
  <2>1. StringNext \/ UNCHANGED stringVars
    BY DEF Next, vars
  <2>2. CASE UNCHANGED stringVars
    BY <2>2 DEF stringVars, StringInv, StringKept, TextKept, Terminated
  <2> QED BY <2>1, <2>2, StringStepKeeps
<1>3. StringInv => StringKept
  BY DEF StringInv
<1> QED BY <1>1, <1>2, <1>3, PTL DEF Spec

\* A step of SeqLists from the sequences S to the sequences T, or none.
SeqStep(S, T, D, E) ==
  \/ T = S
  \/ \E l \in D : T = Cleared(S, l)
  \/ \E l \in D : \E k \in 1..(Len(S[l]) + 1), e \in E :
       (\A m \in D : ~On(S[m], e)) /\ T = Inserted(S, l, k, e)
  \/ \E l \in D : \E k \in 1..Len(S[l]) :
       T = Removed(S, l, k) \/ T = Inserted(Removed(S, l, k), l, 1, S[l][k])

\* An element is in the range of a sequence when it is on it.
LEMMA RangeIsOn ==
  ASSUME NEW E, NEW s \in Seq(E), NEW x
  PROVE  x \in Range(s) <=> On(s, x)
<1>1. DOMAIN s = 1..Len(s)
  BY LenProperties
<1> QED BY <1>1 DEF Range, On

-----------------------------------------------------------------------------
(* The queues of shared memory structures.                                 *)

Self(D) == [l \in D |-> l]

\* A function on X, whatever its values are.
IsMap(f, X) == f = [x \in X |-> f[x]]

\* Storing what is already there changes nothing.
LEMMA MapSame ==
  ASSUME NEW f, NEW X, IsMap(f, X), NEW w \in X
  PROVE  [f EXCEPT ![w] = f[w]] = f
BY DEF IsMap

\* The inductive invariant: the links hold sequences S, and an element's next
\* link is invalid exactly when it is in no queue.
QueueHolds(S, nx, pv) ==
  /\ S \in [Heads -> Seq(QElems)] /\ Apart(S, Heads)
  /\ IsMap(nx, Heads \cup QElems) /\ IsMap(pv, Heads \cup QElems)
  /\ Downs(S, Heads, nx, Self(Heads), Self(Heads))
  /\ Ups(S, Heads, pv, Self(Heads), Self(Heads))
  /\ \A e \in QElems : nx[e] = INVALID_OFFSET <=> \A h \in Heads : ~On(S[h], e)

LEMMA QueueHeading == Heading(Self(Heads), Heads, QElems)
BY QueueAssumption DEF Heading, Self

LEMMA QueuePlaces == LinkPlaces(Self(Heads), Heads, QElems, Heads \cup QElems)
BY QueueHeading DEF LinkPlaces, Self

\* The links of an element and of a header lead to its neighbours.
LEMMA QueueLinks ==
  ASSUME NEW S, NEW nx, NEW pv, QueueHolds(S, nx, pv), NEW h \in Heads
  PROVE  /\ Len(S[h]) \in Nat
         /\ \A i \in 0..Len(S[h]) :
              nx[Left(S[h], h, i)] = Right(S[h], h, i + 1) /\ pv[Right(S[h], h, i + 1)] = Left(S[h], h, i)
BY LenProperties DEF QueueHolds, Downs, Ups, Down, Up, Self

\* An insertion at place k of a queue.
LEMMA QueueInsert ==
  ASSUME NEW S, NEW nx, NEW pv, QueueHolds(S, nx, pv),
         NEW h \in Heads, NEW k \in 1..(Len(S[h]) + 1), NEW e \in QElems, nx[e] = INVALID_OFFSET,
         NEW x, x = Right(S[h], h, k)
  PROVE  QueueHolds(Inserted(S, h, k, e), [nx EXCEPT ![e] = nx[pv[x]], ![pv[x]] = e],
                    [pv EXCEPT ![e] = pv[x], ![x] = e])
<1>1. PICK n \in Nat : n = Len(S[h]) /\ k - 1 \in 0..n /\ (k - 1) + 1 = k /\ k \in 1..(n + 1)
  BY QueueLinks
<1>2. PICK y : y = Left(S[h], h, k - 1)
  OBVIOUS
<1>3. nx[y] = x /\ pv[x] = y
  BY <1>1, <1>2, QueueLinks
<1>4. S \in [Heads -> Seq(QElems)] /\ Apart(S, Heads) /\ \A m \in Heads : ~On(S[m], e)
  BY DEF QueueHolds
<1>5. \A m \in Heads : Self(Heads)[m] = m /\ m \in Heads \cup QElems
  BY DEF Self
<1>6. x # e /\ x \in Heads \cup QElems
  <2>1. k # n + 1 => x \in QElems
    BY <1>1, <1>4, <1>5, QueueHeading, NodesApart
  <2>2. k = n + 1 => x = h
    BY <1>1 DEF Right
  <2>3. ~(Right(S[h], h, k) = e)
    BY <1>1, <1>4, <1>5, QueueHeading, NodesApart
  <2> QED BY <2>1, <2>2, <2>3
<1>7. y # e /\ y \in Heads \cup QElems
  <2>1. k - 1 # 0 => y \in QElems
    BY <1>1, <1>2, <1>4, <1>5, QueueHeading, NodesApart
  <2>2. k - 1 = 0 => y = h
    BY <1>1, <1>2 DEF Left
  <2>3. ~(Left(S[h], h, k - 1) = e)
    BY <1>1, <1>4, <1>5, QueueHeading, NodesApart
  <2> QED BY <1>2, <2>1, <2>2, <2>3
<1>8. PICK nx2 : nx2 = [nx EXCEPT ![e] = nx[pv[x]], ![pv[x]] = e]
  OBVIOUS
<1>9. PICK pv2 : pv2 = [pv EXCEPT ![e] = pv[x], ![x] = e]
  OBVIOUS
<1>10. IsMap(nx2, Heads \cup QElems) /\ Stores(nx, nx2, Heads \cup QElems, y, e, e, x)
  <2>1. IsMap(nx, Heads \cup QElems) /\ nx2 = [nx EXCEPT ![e] = x, ![y] = e]
    BY <1>3, <1>8 DEF QueueHolds
  <2> QED BY <1>7, <2>1 DEF IsMap, Stores
<1>11. IsMap(pv2, Heads \cup QElems) /\ Stores(pv, pv2, Heads \cup QElems, x, e, e, y)
  <2>1. IsMap(pv, Heads \cup QElems) /\ pv2 = [pv EXCEPT ![e] = y, ![x] = e]
    BY <1>3, <1>9 DEF QueueHolds
  <2> QED BY <1>6, <2>1 DEF IsMap, Stores
<1>12. PICK T : T = Inserted(S, h, k, e)
  OBVIOUS
<1>13. /\ T \in [Heads -> Seq(QElems)] /\ Apart(T, Heads)
       /\ \A m \in Heads, z \in QElems : On(T[m], z) <=> On(S[m], z) \/ (m = h /\ z = e)
  BY <1>4, <1>12, ApartInsert
<1>14. Downs(T, Heads, nx2, Self(Heads), Self(Heads))
  <2>1. Downs(S, Heads, nx, Self(Heads), Self(Heads))
    BY DEF QueueHolds
  <2>2. Stores(nx, nx2, Heads \cup QElems, Left(S[h], Self(Heads)[h], k - 1), e, e, Right(S[h], Self(Heads)[h], k))
    BY <1>2, <1>5, <1>10
  <2> QED BY <1>4, <1>12, <2>1, <2>2, QueuePlaces, DownsInsert DEF Unlisted
<1>15. Ups(T, Heads, pv2, Self(Heads), Self(Heads))
  <2>1. Ups(S, Heads, pv, Self(Heads), Self(Heads))
    BY DEF QueueHolds
  <2>2. Stores(pv, pv2, Heads \cup QElems, Right(S[h], Self(Heads)[h], k), e, e, Left(S[h], Self(Heads)[h], k - 1))
    BY <1>2, <1>5, <1>11
  <2> QED BY <1>4, <1>12, <2>1, <2>2, QueuePlaces, UpsInsert DEF Unlisted
<1>16. ASSUME NEW z \in QElems
       PROVE  nx2[z] = INVALID_OFFSET <=> \A m \in Heads : ~On(T[m], z)
  <2>1. nx[z] = INVALID_OFFSET <=> \A m \in Heads : ~On(S[m], z)
    BY DEF QueueHolds
  <2>2. CASE z = e
    BY <1>6, <1>10, <1>13, <2>2, QueueAssumption DEF Stores
  <2>3. CASE z # e /\ z = y
    <3>1. k - 1 # 0
      BY <1>1, <1>2, <2>3, QueueAssumption DEF Left
    <3>2. On(S[h], y)
      BY <1>1, <1>2, <1>4, <1>5, <2>3, <3>1, QueueHeading, NodesApart
    <3> QED BY <1>10, <1>13, <2>3, <3>2, QueueAssumption DEF Stores
  <2>4. CASE z # e /\ z # y
    BY <1>10, <1>13, <2>1, <2>4 DEF Stores
  <2> QED BY <2>2, <2>3, <2>4
<1>17. QueueHolds(T, nx2, pv2)
  BY <1>10, <1>11, <1>13, <1>14, <1>15, <1>16 DEF QueueHolds
<1> QED BY <1>8, <1>9, <1>12, <1>17

\* A removal.
LEMMA QueueRemove ==
  ASSUME NEW S, NEW nx, NEW pv, QueueHolds(S, nx, pv),
         NEW h \in Heads, NEW k \in 1..Len(S[h]), NEW e, e = S[h][k]
  PROVE  QueueHolds(Removed(S, h, k), [nx EXCEPT ![pv[e]] = nx[e], ![e] = INVALID_OFFSET],
                    [pv EXCEPT ![nx[e]] = pv[e], ![e] = INVALID_OFFSET])
<1>1. PICK n \in Nat : /\ n = Len(S[h]) /\ k - 1 \in 0..n /\ (k - 1) + 1 = k /\ k \in 0..n /\ k # 0
                       /\ k # n + 1 /\ k \in 1..(n + 1) /\ k + 1 \in 1..(n + 1) /\ k # k - 1 /\ k # k + 1
                       /\ k \in 1..n
  BY QueueLinks
<1>2. PICK y : y = Left(S[h], h, k - 1)
  OBVIOUS
<1>3. PICK x : x = Right(S[h], h, k + 1)
  OBVIOUS
<1>4. S \in [Heads -> Seq(QElems)] /\ Apart(S, Heads)
  BY DEF QueueHolds
<1>5. e \in QElems /\ e = Left(S[h], h, k) /\ e = Right(S[h], h, k) /\ On(S[h], e)
  BY <1>1, <1>4, ElementOfSeq DEF Left, Right, On
<1>6. nx[e] = x /\ pv[e] = y
  <2>1. nx[Left(S[h], h, k)] = Right(S[h], h, k + 1)
    BY <1>1, QueueLinks
  <2>2. pv[Right(S[h], h, (k - 1) + 1)] = Left(S[h], h, k - 1)
    BY <1>1, QueueLinks
  <2> QED BY <1>1, <1>2, <1>3, <1>5, <2>1, <2>2
<1>7. \A m \in Heads : Self(Heads)[m] = m /\ m \in Heads \cup QElems
  BY DEF Self
<1>8. x # e /\ x \in Heads \cup QElems
  <2>1. k + 1 # n + 1 => x \in QElems
    BY <1>1, <1>3, <1>4, <1>7, QueueHeading, NodesApart
  <2>2. k + 1 = n + 1 => x = h
    BY <1>1, <1>3 DEF Right
  <2>3. x # e
    BY <1>1, <1>3, <1>4, <1>5, <1>7, QueueHeading, NodesApart
  <2> QED BY <2>1, <2>2, <2>3
<1>9. y # e /\ y \in Heads \cup QElems
  <2>1. k - 1 # 0 => y \in QElems
    BY <1>1, <1>2, <1>4, <1>7, QueueHeading, NodesApart
  <2>2. k - 1 = 0 => y = h
    BY <1>1, <1>2 DEF Left
  <2>3. y # e
    <3>1. Left(S[h], Self(Heads)[h], k - 1) = Left(S[h], Self(Heads)[h], k) => k - 1 = k
      BY <1>1, <1>4, QueueHeading, NodesApart
    <3> QED BY <1>1, <1>2, <1>5, <1>7, <3>1
  <2> QED BY <2>1, <2>2, <2>3
<1>10. PICK nx2 : nx2 = [nx EXCEPT ![pv[e]] = nx[e], ![e] = INVALID_OFFSET]
  OBVIOUS
<1>11. PICK pv2 : pv2 = [pv EXCEPT ![nx[e]] = pv[e], ![e] = INVALID_OFFSET]
  OBVIOUS
<1>12. IsMap(nx2, Heads \cup QElems) /\ Stores(nx, nx2, Heads \cup QElems, y, x, e, INVALID_OFFSET)
  <2>1. IsMap(nx, Heads \cup QElems) /\ nx2 = [nx EXCEPT ![y] = x, ![e] = INVALID_OFFSET]
    BY <1>6, <1>10 DEF QueueHolds
  <2> QED BY <1>5, <1>9, <2>1 DEF IsMap, Stores
<1>13. IsMap(pv2, Heads \cup QElems) /\ Stores(pv, pv2, Heads \cup QElems, x, y, e, INVALID_OFFSET)
  <2>1. IsMap(pv, Heads \cup QElems) /\ pv2 = [pv EXCEPT ![x] = y, ![e] = INVALID_OFFSET]
    BY <1>6, <1>11 DEF QueueHolds
  <2> QED BY <1>5, <1>8, <2>1 DEF IsMap, Stores
<1>14. PICK T : T = Removed(S, h, k)
  OBVIOUS
<1>15. /\ T \in [Heads -> Seq(QElems)] /\ Apart(T, Heads)
       /\ \A m \in Heads, z \in QElems : On(T[m], z) <=> On(S[m], z) /\ z # e
  BY <1>4, <1>14, ApartRemove
<1>16. Downs(T, Heads, nx2, Self(Heads), Self(Heads))
  <2>1. Downs(S, Heads, nx, Self(Heads), Self(Heads))
    BY DEF QueueHolds
  <2>2. Stores(nx, nx2, Heads \cup QElems, Left(S[h], Self(Heads)[h], k - 1),
               Right(S[h], Self(Heads)[h], k + 1), S[h][k], INVALID_OFFSET)
    BY <1>2, <1>3, <1>7, <1>12
  <2> QED BY <1>4, <1>14, <2>1, <2>2, QueuePlaces, DownsRemove
<1>17. Ups(T, Heads, pv2, Self(Heads), Self(Heads))
  <2>1. Ups(S, Heads, pv, Self(Heads), Self(Heads))
    BY DEF QueueHolds
  <2>2. Stores(pv, pv2, Heads \cup QElems, Right(S[h], Self(Heads)[h], k + 1),
               Left(S[h], Self(Heads)[h], k - 1), S[h][k], INVALID_OFFSET)
    BY <1>2, <1>3, <1>7, <1>13
  <2> QED BY <1>4, <1>14, <2>1, <2>2, QueuePlaces, UpsRemove
<1>18. ASSUME NEW z \in QElems
       PROVE  nx2[z] = INVALID_OFFSET <=> \A m \in Heads : ~On(T[m], z)
  <2>1. nx[z] = INVALID_OFFSET <=> \A m \in Heads : ~On(S[m], z)
    BY DEF QueueHolds
  <2>2. CASE z = e
    BY <1>12, <1>15, <2>2 DEF Stores
  <2>3. CASE z # e /\ z = y
    <3>1. k - 1 # 0
      BY <1>1, <1>2, <2>3, QueueAssumption DEF Left
    <3>2. On(S[h], y)
      BY <1>1, <1>2, <1>4, <1>7, <2>3, <3>1, QueueHeading, NodesApart
    <3> QED BY <1>8, <1>12, <1>15, <2>3, <3>2, QueueAssumption DEF Stores
  <2>4. CASE z # e /\ z # y
    BY <1>12, <1>15, <2>1, <2>4 DEF Stores
  <2> QED BY <2>2, <2>3, <2>4
<1>19. QueueHolds(T, nx2, pv2)
  BY <1>12, <1>13, <1>15, <1>16, <1>17, <1>18 DEF QueueHolds
<1> QED BY <1>10, <1>11, <1>14, <1>19

\* Every routine of shmqueue.c keeps the links in order and makes a step of
\* the sequences.
LEMMA QueueStepHolds ==
  ASSUME NEW S, QueueHolds(S, qnext, qprev), QueueNext
  PROVE  \E T : QueueHolds(T, qnext', qprev') /\ SeqStep(S, T, Heads, QElems)
<1>1. S \in [Heads -> Seq(QElems)]
  BY DEF QueueHolds
<1>2. ASSUME NEW e \in QElems, ~Outside(e)
      PROVE  \E h \in Heads : \E k \in 1..Len(S[h]) : e = S[h][k]
  BY <1>2 DEF QueueHolds, Outside, On
<1>3. CASE \E h \in Heads : shm_queue_init(h)
  <2>1. PICK h \in Heads : shm_queue_init(h)
    BY <1>3
  <2>2. PICK n \in Nat : n = Len(S[h])
    BY QueueLinks
  <2>3. n \in 0..n /\ 0 \in 0..n
    BY <2>2
  <2>4. qprev[h] = Left(S[h], h, n) /\ qnext[h] = Right(S[h], h, 0 + 1)
    <3>1. Right(S[h], h, n + 1) = h /\ Left(S[h], h, 0) = h
      BY <2>2 DEF Left, Right
    <3> QED BY <2>2, <2>3, <3>1, QueueLinks
  <2>5. n = 0
    <3> SUFFICES ASSUME n # 0 PROVE FALSE
      OBVIOUS
    <3>1. n \in 1..Len(S[h]) /\ Left(S[h], h, n) = S[h][n]
      BY <2>2 DEF Left
    <3>2. S[h][n] \in QElems
      BY <1>1, <3>1, ElementOfSeq
    <3> QED BY <2>1, <2>4, <3>1, <3>2, QueueAssumption DEF shm_queue_init
  <2>6. qnext[h] = h /\ qprev[h] = h
    BY <2>1, <2>2, <2>4, <2>5 DEF shm_queue_init, Right
  <2>7. qnext' = qnext /\ qprev' = qprev
    <3>1. qnext' = [qnext EXCEPT ![h] = qnext[h]] /\ qprev' = [qprev EXCEPT ![h] = qprev[h]]
      BY <2>1, <2>6 DEF shm_queue_init
    <3>2. IsMap(qnext, Heads \cup QElems) /\ IsMap(qprev, Heads \cup QElems) /\ h \in Heads \cup QElems
      BY DEF QueueHolds
    <3> QED BY <3>1, <3>2, MapSame
  <2> QED BY <2>7 DEF SeqStep
<1>4. CASE \E e \in QElems : shm_queue_delete(e)
  <2>1. PICK e \in QElems : shm_queue_delete(e)
    BY <1>4
  <2>2. PICK h \in Heads : \E k \in 1..Len(S[h]) : e = S[h][k]
    BY <1>2, <2>1 DEF shm_queue_delete
  <2>3. PICK k \in 1..Len(S[h]) : e = S[h][k]
    BY <2>2
  <2>4. QueueHolds(Removed(S, h, k), [qnext EXCEPT ![qprev[e]] = qnext[e], ![e] = INVALID_OFFSET],
                   [qprev EXCEPT ![qnext[e]] = qprev[e], ![e] = INVALID_OFFSET])
    BY <2>3, QueueRemove
  <2>5. QueueHolds(Removed(S, h, k), qnext', qprev')
    BY <2>1, <2>4 DEF shm_queue_delete
  <2>6. SeqStep(S, Removed(S, h, k), Heads, QElems)
    BY DEF SeqStep
  <2> QED BY <2>5, <2>6
<1>5. CASE \E e \in QElems, x \in Heads \cup QElems : shm_queue_insert_before(x, e)
  <2>1. PICK e \in QElems, x \in Heads \cup QElems : shm_queue_insert_before(x, e)
    BY <1>5
  <2>2. qnext[e] = INVALID_OFFSET /\ \A m \in Heads : ~On(S[m], e)
    BY <2>1 DEF shm_queue_insert_before, Outside, QueueHolds
  <2>3. \E h \in Heads : \E k \in 1..(Len(S[h]) + 1) : x = Right(S[h], h, k)
    <3>1. CASE x \in Heads
      <4>1. Len(S[x]) + 1 \in 1..(Len(S[x]) + 1) /\ x = Right(S[x], x, Len(S[x]) + 1)
        BY <3>1, QueueLinks DEF Right
      <4> QED BY <3>1, <4>1
    <3>2. CASE x \notin Heads
      <4>1. PICK h \in Heads : \E k \in 1..Len(S[h]) : x = S[h][k]
        BY <1>2, <2>1, <3>2 DEF shm_queue_insert_before
      <4>2. PICK k \in 1..Len(S[h]) : x = S[h][k]
        BY <4>1
      <4>3. k \in 1..(Len(S[h]) + 1) /\ k # Len(S[h]) + 1
        BY QueueLinks
      <4> QED BY <4>2, <4>3 DEF Right
    <3> QED BY <3>1, <3>2
  <2>4. PICK h \in Heads : \E k \in 1..(Len(S[h]) + 1) : x = Right(S[h], h, k)
    BY <2>3
  <2>5. PICK k \in 1..(Len(S[h]) + 1) : x = Right(S[h], h, k)
    BY <2>4
  <2>6. QueueHolds(Inserted(S, h, k, e), [qnext EXCEPT ![e] = qnext[qprev[x]], ![qprev[x]] = e],
                   [qprev EXCEPT ![e] = qprev[x], ![x] = e])
    BY <2>2, <2>5, QueueInsert
  <2>7. QueueHolds(Inserted(S, h, k, e), qnext', qprev')
    BY <2>1, <2>6 DEF shm_queue_insert_before
  <2>8. SeqStep(S, Inserted(S, h, k, e), Heads, QElems)
    BY <2>2 DEF SeqStep
  <2> QED BY <2>7, <2>8
<1> QED BY <1>3, <1>4, <1>5 DEF QueueNext

\* What the loops with shm_queue_next and dumpq read.
LEMMA QueueReads ==
  ASSUME NEW S, NEW nx, NEW pv, QueueHolds(S, nx, pv), NEW h \in Heads
  PROVE  /\ Follow(nx[h], nx, h, Cardinality(QElems)) = S[h]
         /\ Follow(pv[h], pv, h, Cardinality(QElems)) = Reverse(S[h])
<1>1. S[h] \in Seq(QElems) /\ \A i, j \in 1..Len(S[h]) : S[h][i] = S[h][j] => i = j
  BY DEF QueueHolds, Apart
<1>2. Down(S[h], nx, h, h) /\ Up(S[h], pv, h, h)
  BY DEF QueueHolds, Downs, Ups, Self
<1>3. h \notin QElems /\ IsFiniteSet(QElems)
  BY QueueAssumption
<1> QED BY <1>1, <1>2, <1>3, ReadDown, ReadUp

QueueInv == \E S : QueueHolds(S, qnext, qprev)

\* The headers are set up as empty rings.
LEMMA QueueStarts ==
  ASSUME QueueInit
  PROVE  QueueHolds([h \in Heads |-> <<>>], qnext, qprev)
<1>1. PICK S : S = [h \in Heads |-> <<>>]
  OBVIOUS
<1>2. S \in [Heads -> Seq(QElems)] /\ \A h \in Heads : Len(S[h]) = 0
  BY <1>1, EmptySeq
<1>3. Apart(S, Heads) /\ \A h \in Heads, e \in QElems : ~On(S[h], e)
  BY <1>2 DEF Apart, On
<1>4. \A h \in Heads : qnext[h] = h /\ qprev[h] = h
  BY DEF QueueInit
<1>5. \A h \in Heads : Down(S[h], qnext, h, h) /\ Up(S[h], qprev, h, h)
  <2> SUFFICES ASSUME NEW h \in Heads, NEW i \in 0..Len(S[h])
               PROVE  /\ qnext[Left(S[h], h, i)] = Right(S[h], h, i + 1)
                      /\ qprev[Right(S[h], h, i + 1)] = Left(S[h], h, i)
    BY DEF Down, Up
  <2>1. i = 0 /\ i + 1 = Len(S[h]) + 1
    BY <1>2
  <2> QED BY <1>4, <2>1 DEF Left, Right
<1>6. \A e \in QElems : qnext[e] = INVALID_OFFSET
  BY QueueAssumption DEF QueueInit
<1>7. Downs(S, Heads, qnext, Self(Heads), Self(Heads)) /\ Ups(S, Heads, qprev, Self(Heads), Self(Heads))
  BY <1>5 DEF Downs, Ups, Self
<1>8. IsMap(qnext, Heads \cup QElems) /\ IsMap(qprev, Heads \cup QElems)
  BY DEF QueueInit, IsMap
<1>9. QueueHolds(S, qnext, qprev)
  BY <1>2, <1>3, <1>6, <1>7, <1>8 DEF QueueHolds
<1> QED BY <1>1, <1>9

\* Read off the links, the queues are the sequences.
LEMMA QueueSequences ==
  ASSUME NEW S, NEW nx, NEW pv, QueueHolds(S, nx, pv)
  PROVE  [h \in Heads |-> Follow(nx[h], nx, h, Cardinality(QElems))] = S
<1>1. S = [h \in Heads |-> S[h]]
  BY DEF QueueHolds
<1> QED BY <1>1, QueueReads

LEMMA QueueWellLinkedHolds ==
  ASSUME NEW S, QueueHolds(S, qnext, qprev)
  PROVE  QueueWellLinked
<1>1. \A h \in Heads : shm_queue_next(h) = S[h] /\ dumpq(h) = Reverse(S[h])
  BY QueueReads DEF shm_queue_next, dumpq
<1>2. S \in [Heads -> Seq(QElems)] /\ Apart(S, Heads)
  BY DEF QueueHolds
<1>3. ASSUME NEW h \in Heads
      PROVE  /\ qprev[h] = h <=> S[h] = <<>>
             /\ S[h] = <<>> => qnext[h] = h
  <2>1. PICK n \in Nat : n = Len(S[h])
    BY QueueLinks
  <2>2. n \in 0..n /\ 0 \in 0..n
    BY <2>1
  <2>3. qprev[h] = Left(S[h], h, n) /\ qnext[h] = Right(S[h], h, 0 + 1)
    <3>1. Right(S[h], h, n + 1) = h /\ Left(S[h], h, 0) = h
      BY <2>1 DEF Left, Right
    <3> QED BY <2>1, <2>2, <3>1, QueueLinks
  <2>4. n = 0 <=> S[h] = <<>>
    BY <1>2, <2>1, EmptySeq
  <2>5. n # 0 => Left(S[h], h, n) # h
    <3> SUFFICES ASSUME n # 0 PROVE Left(S[h], h, n) # h
      OBVIOUS
    <3>1. n \in 1..Len(S[h]) /\ Left(S[h], h, n) = S[h][n]
      BY <2>1 DEF Left
    <3>2. S[h][n] \in QElems
      BY <1>2, <3>1, ElementOfSeq
    <3> QED BY <3>1, <3>2, QueueAssumption
  <2>6. n = 0 => Left(S[h], h, n) = h /\ Right(S[h], h, 0 + 1) = h
    BY <2>1 DEF Left, Right
  <2> QED BY <2>3, <2>4, <2>5, <2>6
<1>4. \A h \in Heads : \A e : e \in Range(S[h]) <=> On(S[h], e)
  BY <1>2, RangeIsOn
<1>5. \A e \in QElems : Outside(e) <=> \A h \in Heads : e \notin Range(S[h])
  BY <1>4 DEF QueueHolds, Outside
<1>6. ASSUME NEW g \in Heads, NEW h \in Heads, g # h
      PROVE  Range(S[g]) \cap Range(S[h]) = {}
  BY <1>2, <1>4, <1>6 DEF On, Apart
<1> QED BY <1>1, <1>3, <1>5, <1>6 DEF QueueWellLinked, shm_queue_empty


\* Every routine of shmqueue.c puts one element in or takes one out of one
\* queue: its steps are steps of SeqLists.
LEMMA QueueStepImplements ==
  ASSUME NEW S \in [Heads -> Seq(QElems)], NEW T, SeqStep(S, T, Heads, QElems),
         [h \in Heads |-> shm_queue_next(h)] = S, [h \in Heads |-> shm_queue_next(h)]' = T
  PROVE  UNCHANGED [h \in Heads |-> shm_queue_next(h)] \/ QueueSeqs!Next
<1>2. \A s, k, e : QueueSeqs!InsertAt(s, k, e) = InsertAt(s, k, e)
  BY DEF QueueSeqs!InsertAt, InsertAt
<1>3. \A s, k : QueueSeqs!RemoveAt(s, k) = RemoveAt(s, k)
  BY DEF QueueSeqs!RemoveAt, RemoveAt
<1>4. CASE T = S
  BY <1>4
<1>5. CASE \E l \in Heads : T = Cleared(S, l)
  <2>1. PICK l \in Heads : T = Cleared(S, l)
    BY <1>5
  <2>2. QueueSeqs!Clear(l)
    BY <2>1 DEF QueueSeqs!Clear, Cleared
  <2> QED BY <2>2 DEF QueueSeqs!Next
<1>6. CASE \E l \in Heads : \E k \in 1..(Len(S[l]) + 1), e \in QElems :
             (\A m \in Heads : ~On(S[m], e)) /\ T = Inserted(S, l, k, e)
  <2>1. PICK l \in Heads : \E k \in 1..(Len(S[l]) + 1), e \in QElems :
             (\A m \in Heads : ~On(S[m], e)) /\ T = Inserted(S, l, k, e)
    BY <1>6
  <2>2. PICK k \in 1..(Len(S[l]) + 1), e \in QElems :
             (\A m \in Heads : ~On(S[m], e)) /\ T = Inserted(S, l, k, e)
    BY <2>1
  <2>3. \A m \in Heads : e \notin QueueSeqs!Range(S[m])
    <3>1. \A m \in Heads : QueueSeqs!Range(S[m]) = Range(S[m])
      BY DEF QueueSeqs!Range, Range
    <3> QED BY <2>2, <3>1, RangeIsOn
  <2>4. e \notin QueueSeqs!Members
    BY <2>3 DEF QueueSeqs!Members
  <2>5. T = [S EXCEPT ![l] = QueueSeqs!InsertAt(@, k, e)]
    BY <1>2, <2>2 DEF Inserted
  <2>6. QueueSeqs!Insert(l, k, e)
    BY <2>2, <2>4, <2>5 DEF QueueSeqs!Insert
  <2> QED BY <2>2, <2>6 DEF QueueSeqs!Next
<1>7. CASE \E l \in Heads : \E k \in 1..Len(S[l]) :
             T = Removed(S, l, k) \/ T = Inserted(Removed(S, l, k), l, 1, S[l][k])
  <2>1. PICK l \in Heads : \E k \in 1..Len(S[l]) :
             T = Removed(S, l, k) \/ T = Inserted(Removed(S, l, k), l, 1, S[l][k])
    BY <1>7
  <2>2. PICK k \in 1..Len(S[l]) :
             T = Removed(S, l, k) \/ T = Inserted(Removed(S, l, k), l, 1, S[l][k])
    BY <2>1
  <2>3. Removed(S, l, k) = [S EXCEPT ![l] = QueueSeqs!RemoveAt(@, k)]
    BY <1>3 DEF Removed
  <2>4. Inserted(Removed(S, l, k), l, 1, S[l][k])
        = [S EXCEPT ![l] = QueueSeqs!InsertAt(QueueSeqs!RemoveAt(@, k), 1, S[l][k])]
    BY <1>2, <1>3 DEF Removed, Inserted
  <2>5. QueueSeqs!Take(l, k) \/ QueueSeqs!ToFront(l, k)
    BY <2>2, <2>3, <2>4 DEF QueueSeqs!Take, QueueSeqs!ToFront
  <2> QED BY <2>5 DEF QueueSeqs!Next
<1> QED BY <1>4, <1>5, <1>6, <1>7 DEF SeqStep

-----------------------------------------------------------------------------
(* The doubly linked lists.                                                *)

\* The next fields with the heads, or the prev fields with the tails, as the
\* fields of elements and lists.
Joined(hd, nx) == [x \in DlElems \cup DlLists |-> IF x \in DlLists THEN hd[x] ELSE nx[x]]
Nulls == [l \in DlLists |-> NoElem]

\* The inductive invariant: the links hold sequences S, an element names the
\* list it is on, and the links of one on no list are null.
DlMaps(hd, tl, nx, pv, ls) ==
  /\ IsMap(hd, DlLists) /\ IsMap(tl, DlLists)
  /\ IsMap(nx, DlElems) /\ IsMap(pv, DlElems) /\ IsMap(ls, DlElems)

DlOwned(S, els, nx, pv, ls) ==
  \A e \in DlElems :
    /\ \A l \in DlLists : ls[e] = l <=> On(S[l], e)
    /\ ls[e] \in DlLists \cup {NoElem}
    /\ ls[e] = NoElem => nx[e] = NoElem /\ pv[e] = NoElem
    /\ ls[e] # NoElem => e \in els

DlHolds(S, els, hd, tl, nx, pv, ls) ==
  /\ S \in [DlLists -> Seq(DlElems)] /\ Apart(S, DlLists) /\ els \subseteq DlElems
  /\ DlMaps(hd, tl, nx, pv, ls) /\ DlOwned(S, els, nx, pv, ls)
  /\ Downs(S, DlLists, Joined(hd, nx), Self(DlLists), Nulls)
  /\ Ups(S, DlLists, Joined(tl, pv), Self(DlLists), Nulls)

LEMMA DlPlaces == LinkPlaces(Self(DlLists), DlLists, DlElems, DlElems \cup DlLists)
BY DlAssumption DEF LinkPlaces, Heading, Self

\* The header takes the place of a null link.
LEMMA DlEnds ==
  ASSUME NEW s \in Seq(DlElems), NEW l \in DlLists
  PROVE  /\ Len(s) \in Nat
         /\ \A i \in 0..Len(s) :
              /\ Left(s, NoElem, i) \in DlElems \cup {NoElem}
              /\ Left(s, NoElem, i) = NoElem <=> i = 0
              /\ Left(s, l, i) = IF Left(s, NoElem, i) = NoElem THEN l ELSE Left(s, NoElem, i)
         /\ \A i \in 1..(Len(s) + 1) :
              /\ Right(s, NoElem, i) \in DlElems \cup {NoElem}
              /\ Right(s, NoElem, i) = NoElem <=> i = Len(s) + 1
              /\ Right(s, l, i) = IF Right(s, NoElem, i) = NoElem THEN l ELSE Right(s, NoElem, i)
<1>1. PICK n \in Nat : n = Len(s) /\ \A i \in 1..n : s[i] \in DlElems
  BY LenProperties, ElementOfSeq
<1>2. NoElem \notin DlElems
  BY DlAssumption
<1>3. ASSUME NEW i \in 0..n
      PROVE  /\ Left(s, NoElem, i) \in DlElems \cup {NoElem}
             /\ Left(s, NoElem, i) = NoElem <=> i = 0
             /\ Left(s, l, i) = IF Left(s, NoElem, i) = NoElem THEN l ELSE Left(s, NoElem, i)
  <2>1. i # 0 => i \in 1..n
    OBVIOUS
  <2> QED BY <1>1, <1>2, <2>1 DEF Left
<1>4. ASSUME NEW i \in 1..(n + 1)
      PROVE  /\ Right(s, NoElem, i) \in DlElems \cup {NoElem}
             /\ Right(s, NoElem, i) = NoElem <=> i = n + 1
             /\ Right(s, l, i) = IF Right(s, NoElem, i) = NoElem THEN l ELSE Right(s, NoElem, i)
  <2>1. i # n + 1 => i \in 1..n
    OBVIOUS
  <2> QED BY <1>1, <1>2, <2>1 DEF Right
<1> QED BY <1>1, <1>3, <1>4

\* The links of the elements of a list.
LEMMA DlLinks ==
  ASSUME NEW S, NEW els, NEW hd, NEW tl, NEW nx, NEW pv, NEW ls,
         DlHolds(S, els, hd, tl, nx, pv, ls), NEW l \in DlLists
  PROVE  /\ Len(S[l]) \in Nat /\ S[l] \in Seq(DlElems)
         /\ hd[l] = Right(S[l], NoElem, 1) /\ tl[l] = Left(S[l], NoElem, Len(S[l]))
         /\ \A i \in 1..Len(S[l]) : /\ S[l][i] \in DlElems
                                    /\ nx[S[l][i]] = Right(S[l], NoElem, i + 1)
                                    /\ pv[S[l][i]] = Left(S[l], NoElem, i - 1)
<1>1. S[l] \in Seq(DlElems)
  BY DEF DlHolds
<1>2. PICK n \in Nat : n = Len(S[l]) /\ \A i \in 1..n : S[l][i] \in DlElems
  BY <1>1, LenProperties, ElementOfSeq
<1>3. \A i \in 0..n : /\ Joined(hd, nx)[Left(S[l], l, i)] = Right(S[l], NoElem, i + 1)
                      /\ Joined(tl, pv)[Right(S[l], l, i + 1)] = Left(S[l], NoElem, i)
  BY <1>2 DEF DlHolds, Downs, Ups, Down, Up, Self, Nulls
<1>4. hd[l] = Right(S[l], NoElem, 1)
  <2>1. 0 \in 0..n /\ 0 + 1 = 1 /\ Left(S[l], l, 0) = l
    BY DEF Left
  <2>2. Joined(hd, nx)[l] = hd[l]
    BY DEF Joined
  <2> QED BY <1>3, <2>1, <2>2
<1>5. tl[l] = Left(S[l], NoElem, n)
  <2>1. n \in 0..n /\ Right(S[l], l, n + 1) = l
    BY <1>2 DEF Right
  <2>2. Joined(tl, pv)[l] = tl[l]
    BY DEF Joined
  <2> QED BY <1>3, <2>1, <2>2
<1>6. ASSUME NEW i \in 1..n
      PROVE  nx[S[l][i]] = Right(S[l], NoElem, i + 1) /\ pv[S[l][i]] = Left(S[l], NoElem, i - 1)
  <2>1. /\ i \in 0..n /\ i # 0 /\ i - 1 \in 0..n /\ (i - 1) + 1 = i /\ i # n + 1
        /\ S[l][i] \in DlElems
    BY <1>2
  <2>2. Left(S[l], l, i) = S[l][i] /\ Right(S[l], l, i) = S[l][i]
    BY <1>2, <2>1 DEF Left, Right
  <2>3. Joined(hd, nx)[S[l][i]] = nx[S[l][i]] /\ Joined(tl, pv)[S[l][i]] = pv[S[l][i]]
    BY <2>1, DlAssumption DEF Joined
  <2> QED BY <1>3, <2>1, <2>2, <2>3
<1> QED BY <1>1, <1>2, <1>4, <1>5, <1>6

\* An element that names a list is at one place of it.
LEMMA DlPlace ==
  ASSUME NEW S, NEW els, NEW hd, NEW tl, NEW nx, NEW pv, NEW ls,
         DlHolds(S, els, hd, tl, nx, pv, ls), NEW e \in DlElems, ls[e] # NoElem
  PROVE  ls[e] \in DlLists /\ \E k \in 1..Len(S[ls[e]]) : S[ls[e]][k] = e
BY DEF DlHolds, DlOwned, On

\* A store of v through an element's link, or through the header where it is
\* null, and one of w into an element.
DlStored(hd, nx, hd2, nx2, l, y, v, e, w) ==
  /\ hd2 = IF y = NoElem THEN [hd EXCEPT ![l] = v] ELSE hd
  /\ nx2 = [Put(nx, y, v) EXCEPT ![e] = w]

LEMMA DlStore ==
  ASSUME NEW hd, NEW nx, IsMap(hd, DlLists), IsMap(nx, DlElems), NEW l \in DlLists,
         NEW y \in DlElems \cup {NoElem}, NEW e \in DlElems, y # e, NEW v, NEW w,
         NEW hd2, NEW nx2, DlStored(hd, nx, hd2, nx2, l, y, v, e, w)
  PROVE  /\ IsMap(hd2, DlLists) /\ IsMap(nx2, DlElems)
         /\ Stores(Joined(hd, nx), Joined(hd2, nx2), DlElems \cup DlLists,
                   IF y = NoElem THEN l ELSE y, v, e, w)
<1>1. NoElem \notin DlElems /\ DlElems \cap DlLists = {}
  BY DlAssumption
<1>2. CASE y = NoElem
  <2>1. hd2 = [hd EXCEPT ![l] = v] /\ nx2 = [nx EXCEPT ![e] = w]
    BY <1>2 DEF DlStored, Put
  <2>2. IsMap(hd2, DlLists) /\ IsMap(nx2, DlElems)
    BY <2>1 DEF IsMap
  <2>3. \A x \in DlLists : hd2[x] = IF x = l THEN v ELSE hd[x]
    BY <2>1 DEF IsMap
  <2>4. \A x \in DlElems : nx2[x] = IF x = e THEN w ELSE nx[x]
    BY <2>1 DEF IsMap
  <2> QED BY <1>1, <1>2, <2>2, <2>3, <2>4 DEF Stores, Joined
<1>3. CASE y # NoElem
  <2>1. hd2 = hd /\ nx2 = [nx EXCEPT ![y] = v, ![e] = w] /\ y \in DlElems
    BY <1>3 DEF DlStored, Put
  <2>2. IsMap(hd2, DlLists) /\ IsMap(nx2, DlElems)
    BY <2>1 DEF IsMap
  <2>3. \A x \in DlElems : nx2[x] = IF x = e THEN w ELSE IF x = y THEN v ELSE nx[x]
    BY <2>1 DEF IsMap
  <2> QED BY <1>1, <1>3, <2>1, <2>2, <2>3 DEF Stores, Joined
<1> QED BY <1>2, <1>3

\* An element that is on no list goes to place k of l.
LEMMA DlInsert ==
  ASSUME NEW S, NEW els, NEW hd, NEW tl, NEW nx, NEW pv, NEW ls,
         DlHolds(S, els, hd, tl, nx, pv, ls),
         NEW l \in DlLists, NEW k \in 1..(Len(S[l]) + 1), NEW e \in els, ls[e] = NoElem,
         NEW hd2, NEW tl2, NEW nx2, NEW pv2, NEW ls2, ls2 = [ls EXCEPT ![e] = l],
         NEW y, y = Left(S[l], NoElem, k - 1), NEW x, x = Right(S[l], NoElem, k),
         DlStored(hd, nx, hd2, nx2, l, y, e, e, x), DlStored(tl, pv, tl2, pv2, l, x, e, e, y)
  PROVE  DlHolds(Inserted(S, l, k, e), els, hd2, tl2, nx2, pv2, ls2)
<1>1. /\ S \in [DlLists -> Seq(DlElems)] /\ Apart(S, DlLists) /\ els \subseteq DlElems /\ e \in DlElems
      /\ DlMaps(hd, tl, nx, pv, ls) /\ DlOwned(S, els, nx, pv, ls)
  BY DEF DlHolds
<1>2. PICK n \in Nat : n = Len(S[l]) /\ k - 1 \in 0..n /\ k \in 1..(n + 1)
  BY DlLinks
<1>3. Unlisted(S, DlLists, e) /\ \A m \in DlLists : ~On(S[m], e)
  BY <1>1, DlAssumption DEF Unlisted, DlOwned
<1>4. /\ y \in DlElems \cup {NoElem} /\ Left(S[l], l, k - 1) = IF y = NoElem THEN l ELSE y
      /\ x \in DlElems \cup {NoElem} /\ Right(S[l], l, k) = IF x = NoElem THEN l ELSE x
  BY <1>1, <1>2, DlEnds
<1>5. \A m \in DlLists : Self(DlLists)[m] = m /\ Nulls[m] = NoElem
  BY DEF Self, Nulls
<1>6. Heading(Self(DlLists), DlLists, DlElems)
  BY DlPlaces DEF LinkPlaces
<1>7. y # e /\ (y # NoElem => On(S[l], y))
  <2>1. y # NoElem => y = Left(S[l], Self(DlLists)[l], k - 1)
    BY <1>4, <1>5
  <2>2. \A i \in 0..Len(S[l]), z \in DlElems :
          Left(S[l], Self(DlLists)[l], i) = z => i # 0 /\ On(S[l], z)
    BY <1>1, <1>6, NodesApart
  <2>3. y # NoElem => y \in DlElems /\ On(S[l], y)
    BY <1>2, <1>4, <2>1, <2>2
  <2> QED BY <1>1, <1>3, <2>3, DlAssumption
<1>8. x # e /\ (x # NoElem => On(S[l], x))
  <2>1. x # NoElem => x = Right(S[l], Self(DlLists)[l], k)
    BY <1>4, <1>5
  <2>2. \A i \in 1..(Len(S[l]) + 1), z \in DlElems :
          Right(S[l], Self(DlLists)[l], i) = z => i # Len(S[l]) + 1 /\ On(S[l], z)
    BY <1>1, <1>6, NodesApart
  <2>3. x # NoElem => x \in DlElems /\ On(S[l], x)
    BY <1>2, <1>4, <2>1, <2>2
  <2> QED BY <1>1, <1>3, <2>3, DlAssumption
<1>9. /\ IsMap(hd2, DlLists) /\ IsMap(nx2, DlElems)
      /\ Stores(Joined(hd, nx), Joined(hd2, nx2), DlElems \cup DlLists,
                Left(S[l], Self(DlLists)[l], k - 1), e, e, Right(S[l], Nulls[l], k))
  <2>1. IsMap(hd, DlLists) /\ IsMap(nx, DlElems)
    BY <1>1 DEF DlMaps
  <2>2. /\ IsMap(hd2, DlLists) /\ IsMap(nx2, DlElems)
        /\ Stores(Joined(hd, nx), Joined(hd2, nx2), DlElems \cup DlLists,
                  IF y = NoElem THEN l ELSE y, e, e, x)
    BY <1>1, <1>4, <1>7, <2>1, DlStore
  <2> QED BY <1>4, <1>5, <2>2
<1>10. /\ IsMap(tl2, DlLists) /\ IsMap(pv2, DlElems)
       /\ Stores(Joined(tl, pv), Joined(tl2, pv2), DlElems \cup DlLists,
                 Right(S[l], Self(DlLists)[l], k), e, e, Left(S[l], Nulls[l], k - 1))
  <2>1. IsMap(tl, DlLists) /\ IsMap(pv, DlElems)
    BY <1>1 DEF DlMaps
  <2>2. /\ IsMap(tl2, DlLists) /\ IsMap(pv2, DlElems)
        /\ Stores(Joined(tl, pv), Joined(tl2, pv2), DlElems \cup DlLists,
                  IF x = NoElem THEN l ELSE x, e, e, y)
    BY <1>1, <1>4, <1>8, <2>1, DlStore
  <2> QED BY <1>4, <1>5, <2>2
<1>11. PICK T : T = Inserted(S, l, k, e)
  OBVIOUS
<1>12. /\ T \in [DlLists -> Seq(DlElems)] /\ Apart(T, DlLists)
       /\ \A m \in DlLists, z \in DlElems : On(T[m], z) <=> On(S[m], z) \/ (m = l /\ z = e)
  BY <1>1, <1>3, <1>11, ApartInsert, SMTT(60)
<1>13. Downs(T, DlLists, Joined(hd2, nx2), Self(DlLists), Nulls)
  <2>1. Downs(S, DlLists, Joined(hd, nx), Self(DlLists), Nulls)
    BY DEF DlHolds
  <2> QED BY <1>1, <1>3, <1>9, <1>11, <2>1, DlPlaces, DownsInsert
<1>14. Ups(T, DlLists, Joined(tl2, pv2), Self(DlLists), Nulls)
  <2>1. Ups(S, DlLists, Joined(tl, pv), Self(DlLists), Nulls)
    BY DEF DlHolds
  <2> QED BY <1>1, <1>3, <1>10, <1>11, <2>1, DlPlaces, UpsInsert
<1>15. IsMap(ls2, DlElems) /\ \A z \in DlElems : ls2[z] = IF z = e THEN l ELSE ls[z]
  BY <1>1 DEF DlMaps, IsMap
<1>16. ASSUME NEW z \in DlElems, z # e, ls[z] = NoElem
       PROVE  nx2[z] = NoElem /\ pv2[z] = NoElem
  <2>1. nx[z] = NoElem /\ pv[z] = NoElem /\ \A m \in DlLists : ~On(S[m], z)
    BY <1>1, <1>16, DlAssumption DEF DlOwned
  <2>2. z # y /\ z # x /\ z # l /\ z \notin DlLists
    BY <1>7, <1>8, <2>1, DlAssumption
  <2>3. /\ z # Left(S[l], Self(DlLists)[l], k - 1) /\ z # Right(S[l], Self(DlLists)[l], k)
        /\ z \in DlElems \cup DlLists
    BY <1>4, <1>5, <2>2
  <2>4. Joined(hd2, nx2)[z] = Joined(hd, nx)[z] /\ Joined(tl2, pv2)[z] = Joined(tl, pv)[z]
    BY <1>9, <1>10, <1>16, <2>3 DEF Stores
  <2> QED BY <2>1, <2>2, <2>4 DEF Joined
<1>17. DlOwned(T, els, nx2, pv2, ls2)
  <2> SUFFICES ASSUME NEW z \in DlElems
               PROVE  /\ \A m \in DlLists : ls2[z] = m <=> On(T[m], z)
                      /\ ls2[z] \in DlLists \cup {NoElem}
                      /\ ls2[z] = NoElem => nx2[z] = NoElem /\ pv2[z] = NoElem
                      /\ ls2[z] # NoElem => z \in els
    BY DEF DlOwned
  <2>1. CASE z = e
    BY <1>3, <1>12, <1>15, <2>1, DlAssumption
  <2>2. CASE z # e
    BY <1>1, <1>12, <1>15, <1>16, <2>2 DEF DlOwned
  <2> QED BY <2>1, <2>2
<1>18. DlMaps(hd2, tl2, nx2, pv2, ls2)
  BY <1>9, <1>10, <1>15 DEF DlMaps
<1> QED BY <1>1, <1>11, <1>12, <1>13, <1>14, <1>17, <1>18 DEF DlHolds

\* Element number k leaves l.
LEMMA DlTakenOff ==
  ASSUME NEW S, NEW els, NEW hd, NEW tl, NEW nx, NEW pv, NEW ls,
         DlHolds(S, els, hd, tl, nx, pv, ls),
         NEW l \in DlLists, NEW k \in 1..Len(S[l]), NEW e, e = S[l][k],
         NEW hd2, NEW tl2, NEW nx2, NEW pv2, NEW ls2, ls2 = [ls EXCEPT ![e] = NoElem],
         NEW y, y = Left(S[l], NoElem, k - 1), NEW x, x = Right(S[l], NoElem, k + 1),
         DlStored(hd, nx, hd2, nx2, l, y, x, e, NoElem), DlStored(tl, pv, tl2, pv2, l, x, y, e, NoElem)
  PROVE  DlHolds(Removed(S, l, k), els, hd2, tl2, nx2, pv2, ls2)
<1>1. /\ S \in [DlLists -> Seq(DlElems)] /\ Apart(S, DlLists) /\ els \subseteq DlElems
      /\ DlMaps(hd, tl, nx, pv, ls) /\ DlOwned(S, els, nx, pv, ls)
  BY DEF DlHolds
<1>2. PICK n \in Nat : n = Len(S[l]) /\ k \in 1..n /\ k - 1 \in 0..n /\ k + 1 \in 1..(n + 1) /\ k \in 0..n
  BY DlLinks
<1>3. e \in DlElems /\ On(S[l], e)
  BY <1>1, <1>2, ElementOfSeq DEF On
<1>4. /\ y \in DlElems \cup {NoElem} /\ Left(S[l], l, k - 1) = IF y = NoElem THEN l ELSE y
      /\ x \in DlElems \cup {NoElem} /\ Right(S[l], l, k + 1) = IF x = NoElem THEN l ELSE x
  BY <1>1, <1>2, DlEnds
<1>5. \A m \in DlLists : Self(DlLists)[m] = m /\ Nulls[m] = NoElem
  BY DEF Self, Nulls
<1>6. Heading(Self(DlLists), DlLists, DlElems)
  BY DlPlaces DEF LinkPlaces
<1>7. y # e /\ (y # NoElem => On(S[l], y))
  <2>1. CASE k - 1 = 0
    <3>1. y = NoElem
      BY <2>1 DEF Left
    <3> QED BY <1>3, <3>1, DlAssumption
  <2>2. CASE k - 1 # 0
    <3>1. y = S[l][k - 1] /\ k - 1 \in 1..Len(S[l]) /\ k - 1 # k
      BY <1>2, <2>2 DEF Left
    <3> QED BY <1>1, <1>2, <3>1 DEF Apart, On
  <2> QED BY <2>1, <2>2
<1>8. x # e /\ (x # NoElem => On(S[l], x))
  <2>1. CASE k + 1 = n + 1
    <3>1. x = NoElem
      BY <1>2, <2>1 DEF Right
    <3> QED BY <1>3, <3>1, DlAssumption
  <2>2. CASE k + 1 # n + 1
    <3>1. x = S[l][k + 1] /\ k + 1 \in 1..Len(S[l]) /\ k + 1 # k
      BY <1>2, <2>2 DEF Right
    <3> QED BY <1>1, <1>2, <3>1 DEF Apart, On
  <2> QED BY <2>1, <2>2
<1>9. /\ IsMap(hd2, DlLists) /\ IsMap(nx2, DlElems)
      /\ Stores(Joined(hd, nx), Joined(hd2, nx2), DlElems \cup DlLists,
                Left(S[l], Self(DlLists)[l], k - 1), Right(S[l], Nulls[l], k + 1), S[l][k], NoElem)
  <2>1. IsMap(hd, DlLists) /\ IsMap(nx, DlElems)
    BY <1>1 DEF DlMaps
  <2>2. /\ IsMap(hd2, DlLists) /\ IsMap(nx2, DlElems)
        /\ Stores(Joined(hd, nx), Joined(hd2, nx2), DlElems \cup DlLists,
                  IF y = NoElem THEN l ELSE y, x, e, NoElem)
    BY <1>3, <1>4, <1>7, <2>1, DlStore
  <2> QED BY <1>4, <1>5, <2>2
<1>10. /\ IsMap(tl2, DlLists) /\ IsMap(pv2, DlElems)
       /\ Stores(Joined(tl, pv), Joined(tl2, pv2), DlElems \cup DlLists,
                 Right(S[l], Self(DlLists)[l], k + 1), Left(S[l], Nulls[l], k - 1), S[l][k], NoElem)
  <2>1. IsMap(tl, DlLists) /\ IsMap(pv, DlElems)
    BY <1>1 DEF DlMaps
  <2>2. /\ IsMap(tl2, DlLists) /\ IsMap(pv2, DlElems)
        /\ Stores(Joined(tl, pv), Joined(tl2, pv2), DlElems \cup DlLists,
                  IF x = NoElem THEN l ELSE x, y, e, NoElem)
    BY <1>3, <1>4, <1>8, <2>1, DlStore
  <2> QED BY <1>4, <1>5, <2>2
<1>11. PICK T : T = Removed(S, l, k)
  OBVIOUS
<1>12. /\ T \in [DlLists -> Seq(DlElems)] /\ Apart(T, DlLists)
       /\ \A m \in DlLists, z \in DlElems : On(T[m], z) <=> On(S[m], z) /\ z # e
  BY <1>1, <1>11, ApartRemove
<1>13. Downs(T, DlLists, Joined(hd2, nx2), Self(DlLists), Nulls)
  <2>1. Downs(S, DlLists, Joined(hd, nx), Self(DlLists), Nulls)
    BY DEF DlHolds
  <2> QED BY <1>1, <1>9, <1>11, <2>1, DlPlaces, DownsRemove
<1>14. Ups(T, DlLists, Joined(tl2, pv2), Self(DlLists), Nulls)
  <2>1. Ups(S, DlLists, Joined(tl, pv), Self(DlLists), Nulls)
    BY DEF DlHolds
  <2> QED BY <1>1, <1>10, <1>11, <2>1, DlPlaces, UpsRemove
<1>15. IsMap(ls2, DlElems) /\ \A z \in DlElems : ls2[z] = IF z = e THEN NoElem ELSE ls[z]
  BY <1>1, <1>3 DEF DlMaps, IsMap
<1>16. nx2[e] = NoElem /\ pv2[e] = NoElem
  <2>1. Joined(hd2, nx2)[e] = NoElem /\ Joined(tl2, pv2)[e] = NoElem
    BY <1>9, <1>10 DEF Stores
  <2> QED BY <1>3, <2>1, DlAssumption DEF Joined
<1>17. ASSUME NEW z \in DlElems, z # e, ls[z] = NoElem
       PROVE  nx2[z] = NoElem /\ pv2[z] = NoElem
  <2>1. nx[z] = NoElem /\ pv[z] = NoElem /\ \A m \in DlLists : ~On(S[m], z)
    BY <1>1, <1>17, DlAssumption DEF DlOwned
  <2>2. z # y /\ z # x /\ z # l /\ z \notin DlLists
    BY <1>7, <1>8, <2>1, DlAssumption
  <2>3. /\ z # Left(S[l], Self(DlLists)[l], k - 1) /\ z # Right(S[l], Self(DlLists)[l], k + 1)
        /\ z \in DlElems \cup DlLists
    BY <1>4, <1>5, <2>2
  <2>4. Joined(hd2, nx2)[z] = Joined(hd, nx)[z] /\ Joined(tl2, pv2)[z] = Joined(tl, pv)[z]
    BY <1>9, <1>10, <1>17, <2>3 DEF Stores
  <2> QED BY <2>1, <2>2, <2>4 DEF Joined
<1>18. DlOwned(T, els, nx2, pv2, ls2)
  <2> SUFFICES ASSUME NEW z \in DlElems
               PROVE  /\ \A m \in DlLists : ls2[z] = m <=> On(T[m], z)
                      /\ ls2[z] \in DlLists \cup {NoElem}
                      /\ ls2[z] = NoElem => nx2[z] = NoElem /\ pv2[z] = NoElem
                      /\ ls2[z] # NoElem => z \in els
    BY DEF DlOwned
  <2>1. CASE z = e
    BY <1>12, <1>15, <1>16, <2>1, DlAssumption
  <2>2. CASE z # e
    BY <1>1, <1>12, <1>15, <1>17, <2>2 DEF DlOwned
  <2> QED BY <2>1, <2>2
<1>19. DlMaps(hd2, tl2, nx2, pv2, ls2)
  BY <1>9, <1>10, <1>15 DEF DlMaps
<1> QED BY <1>1, <1>11, <1>12, <1>13, <1>14, <1>18, <1>19 DEF DlHolds

\* All elements leave l.
Blanked(f, f2, gone) == f2 = [e \in DlElems |-> IF e \in gone THEN NoElem ELSE f[e]]

LEMMA DlEmptied ==
  ASSUME NEW S, NEW els, NEW hd, NEW tl, NEW nx, NEW pv, NEW ls,
         DlHolds(S, els, hd, tl, nx, pv, ls), NEW l \in DlLists,
         NEW gone, \A e \in DlElems : e \in gone <=> On(S[l], e),
         NEW hd2, NEW tl2, NEW nx2, NEW pv2, NEW ls2,
         hd2 = [hd EXCEPT ![l] = NoElem], tl2 = [tl EXCEPT ![l] = NoElem],
         Blanked(nx, nx2, gone), Blanked(pv, pv2, gone), Blanked(ls, ls2, gone)
  PROVE  DlHolds(Cleared(S, l), els \ gone, hd2, tl2, nx2, pv2, ls2)
<1>1. /\ S \in [DlLists -> Seq(DlElems)] /\ Apart(S, DlLists) /\ els \subseteq DlElems
      /\ DlMaps(hd, tl, nx, pv, ls) /\ DlOwned(S, els, nx, pv, ls)
  BY DEF DlHolds
<1>2. /\ IsMap(hd2, DlLists) /\ \A m \in DlLists : hd2[m] = IF m = l THEN NoElem ELSE hd[m]
      /\ IsMap(tl2, DlLists) /\ \A m \in DlLists : tl2[m] = IF m = l THEN NoElem ELSE tl[m]
  BY <1>1 DEF DlMaps, IsMap
<1>3. /\ IsMap(nx2, DlElems) /\ \A e \in DlElems : nx2[e] = IF e \in gone THEN NoElem ELSE nx[e]
      /\ IsMap(pv2, DlElems) /\ \A e \in DlElems : pv2[e] = IF e \in gone THEN NoElem ELSE pv[e]
      /\ IsMap(ls2, DlElems) /\ \A e \in DlElems : ls2[e] = IF e \in gone THEN NoElem ELSE ls[e]
  BY DEF IsMap, Blanked
<1>4. /\ StoresOff(Joined(hd, nx), Joined(hd2, nx2), DlElems \cup DlLists, Self(DlLists)[l], Nulls[l], S[l])
      /\ StoresOff(Joined(tl, pv), Joined(tl2, pv2), DlElems \cup DlLists, Self(DlLists)[l], Nulls[l], S[l])
  BY <1>2, <1>3, DlAssumption DEF StoresOff, Joined, Self, Nulls
<1>5. PICK T : T = Cleared(S, l)
  OBVIOUS
<1>6. /\ T \in [DlLists -> Seq(DlElems)] /\ Apart(T, DlLists)
      /\ \A m \in DlLists, z \in DlElems : On(T[m], z) <=> On(S[m], z) /\ m # l
  BY <1>1, <1>5, ApartClear
<1>7. Downs(T, DlLists, Joined(hd2, nx2), Self(DlLists), Nulls)
  <2>1. Downs(S, DlLists, Joined(hd, nx), Self(DlLists), Nulls)
    BY DEF DlHolds
  <2> QED BY <1>1, <1>4, <1>5, <2>1, DlPlaces, DownsClear
<1>8. Ups(T, DlLists, Joined(tl2, pv2), Self(DlLists), Nulls)
  <2>1. Ups(S, DlLists, Joined(tl, pv), Self(DlLists), Nulls)
    BY DEF DlHolds
  <2> QED BY <1>1, <1>4, <1>5, <2>1, DlPlaces, UpsClear
<1>9. DlOwned(T, els \ gone, nx2, pv2, ls2)
  <2> SUFFICES ASSUME NEW z \in DlElems
               PROVE  /\ \A m \in DlLists : ls2[z] = m <=> On(T[m], z)
                      /\ ls2[z] \in DlLists \cup {NoElem}
                      /\ ls2[z] = NoElem => nx2[z] = NoElem /\ pv2[z] = NoElem
                      /\ ls2[z] # NoElem => z \in els \ gone
    BY DEF DlOwned
  <2>1. \A m \in DlLists : ls[z] = m <=> On(S[m], z)
    BY <1>1 DEF DlOwned
  <2>2. CASE z \in gone
    <3>1. ls[z] = l
      BY <2>1, <2>2
    <3> QED BY <1>3, <1>6, <2>1, <2>2, <3>1, DlAssumption
  <2>3. CASE z \notin gone
    BY <1>1, <1>3, <1>6, <2>1, <2>3 DEF DlOwned
  <2> QED BY <2>2, <2>3
<1>10. DlMaps(hd2, tl2, nx2, pv2, ls2)
  BY <1>2, <1>3 DEF DlMaps
<1> QED BY <1>1, <1>5, <1>6, <1>7, <1>8, <1>9, <1>10 DEF DlHolds

\* What DLGetHead and DLGetSucc, and DLGetTail and DLGetPred, read.
LEMMA DlReads ==
  ASSUME NEW S, NEW els, NEW hd, NEW tl, NEW nx, NEW pv, NEW ls,
         DlHolds(S, els, hd, tl, nx, pv, ls), NEW l \in DlLists
  PROVE  /\ Follow(hd[l], nx, NoElem, Cardinality(DlElems)) = S[l]
         /\ Follow(tl[l], pv, NoElem, Cardinality(DlElems)) = Reverse(S[l])
<1>1. S[l] \in Seq(DlElems) /\ \A i, j \in 1..Len(S[l]) : S[l][i] = S[l][j] => i = j
  BY DEF DlHolds, Apart
<1>2. Down(S[l], Joined(hd, nx), l, NoElem) /\ Up(S[l], Joined(tl, pv), l, NoElem)
  BY DEF DlHolds, Downs, Ups, Self, Nulls
<1>3. NoElem \notin DlElems /\ IsFiniteSet(DlElems)
  BY DlAssumption
<1>4. /\ \A x \in DlElems : nx[x] = Joined(hd, nx)[x] /\ pv[x] = Joined(tl, pv)[x]
      /\ hd[l] = Joined(hd, nx)[l] /\ tl[l] = Joined(tl, pv)[l]
  BY DlAssumption DEF Joined
<1> QED BY <1>1, <1>2, <1>3, <1>4, ReadDown, ReadUp

\* The state of the lists holds the sequences S.
DlHas(S) == DlHolds(S, dlElems, dll_head, dll_tail, dle_next, dle_prev, dle_list)
DlInv == \E S : DlHas(S)

LEMMA DlSequences ==
  ASSUME NEW S, NEW els, NEW hd, NEW tl, NEW nx, NEW pv, NEW ls,
         DlHolds(S, els, hd, tl, nx, pv, ls)
  PROVE  [l \in DlLists |-> Follow(hd[l], nx, NoElem, Cardinality(DlElems))] = S
<1>1. S = [l \in DlLists |-> S[l]]
  BY DEF DlHolds
<1> QED BY <1>1, DlReads

\* The lists start empty.
LEMMA DlStarts ==
  ASSUME DlInit
  PROVE  DlHas([l \in DlLists |-> <<>>])
<1>1. PICK S : S = [l \in DlLists |-> <<>>]
  OBVIOUS
<1>2. S \in [DlLists -> Seq(DlElems)] /\ \A l \in DlLists : Len(S[l]) = 0
  BY <1>1, EmptySeq
<1>3. Apart(S, DlLists) /\ \A l \in DlLists, e \in DlElems : ~On(S[l], e)
  BY <1>2 DEF Apart, On
<1>4. \A l \in DlLists : Joined(dll_head, dle_next)[l] = NoElem /\ Joined(dll_tail, dle_prev)[l] = NoElem
  BY DEF DlInit, Joined
<1>5. ASSUME NEW l \in DlLists
      PROVE  /\ Down(S[l], Joined(dll_head, dle_next), l, NoElem)
             /\ Up(S[l], Joined(dll_tail, dle_prev), l, NoElem)
  <2> SUFFICES ASSUME NEW i \in 0..Len(S[l])
               PROVE  /\ Joined(dll_head, dle_next)[Left(S[l], l, i)] = Right(S[l], NoElem, i + 1)
                      /\ Joined(dll_tail, dle_prev)[Right(S[l], l, i + 1)] = Left(S[l], NoElem, i)
    BY DEF Down, Up
  <2>1. i = 0 /\ i + 1 = Len(S[l]) + 1
    BY <1>2
  <2> QED BY <1>4, <2>1 DEF Left, Right
<1>6. /\ Downs(S, DlLists, Joined(dll_head, dle_next), Self(DlLists), Nulls)
      /\ Ups(S, DlLists, Joined(dll_tail, dle_prev), Self(DlLists), Nulls)
  BY <1>5 DEF Downs, Ups, Self, Nulls
<1>7. DlMaps(dll_head, dll_tail, dle_next, dle_prev, dle_list)
  BY DEF DlInit, DlMaps, IsMap
<1>8. DlOwned(S, dlElems, dle_next, dle_prev, dle_list)
  BY <1>3, DlAssumption DEF DlInit, DlOwned
<1> QED BY <1>1, <1>2, <1>3, <1>6, <1>7, <1>8 DEF DlInit, DlHas, DlHolds

\* A new element is on no list; only such an element is freed.
LEMMA DlAllocates ==
  ASSUME NEW S, DlHas(S), NEW e \in DlElems, DLNewElem(e) \/ DLFreeElem(e)
  PROVE  DlHas(S)'
<1>1. /\ dlElems \subseteq DlElems /\ DlMaps(dll_head, dll_tail, dle_next, dle_prev, dle_list)
      /\ DlOwned(S, dlElems, dle_next, dle_prev, dle_list)
  BY DEF DlHas, DlHolds
<1>2. dle_list[e] = NoElem /\ dle_next[e] = NoElem /\ dle_prev[e] = NoElem
  BY <1>1 DEF DLNewElem, DLFreeElem, DlOwned
<1>3. /\ dll_head' = dll_head /\ dll_tail' = dll_tail
      /\ dle_next' = dle_next /\ dle_prev' = dle_prev /\ dle_list' = dle_list
  <2>1. /\ [dle_next EXCEPT ![e] = dle_next[e]] = dle_next /\ [dle_prev EXCEPT ![e] = dle_prev[e]] = dle_prev
        /\ [dle_list EXCEPT ![e] = dle_list[e]] = dle_list
    BY <1>1, MapSame DEF DlMaps
  <2> QED BY <1>2, <2>1 DEF DLNewElem, DLFreeElem
<1>4. dlElems' \subseteq DlElems /\ \A z \in DlElems : z \in dlElems /\ z # e => z \in dlElems'
  BY <1>1 DEF DLNewElem, DLFreeElem
<1>5. DlOwned(S, dlElems', dle_next, dle_prev, dle_list)
  BY <1>1, <1>2, <1>4 DEF DlOwned
<1>6. DlHolds(S, dlElems', dll_head, dll_tail, dle_next, dle_prev, dle_list)
  BY <1>4, <1>5 DEF DlHas, DlHolds
<1> QED BY <1>3, <1>6 DEF DlHas

LEMMA DlRemoves ==
  ASSUME NEW S, DlHas(S), NEW e \in DlElems, DLRemove(e)
  PROVE  \E l \in DlLists : \E k \in 1..Len(S[l]) : DlHas(Removed(S, l, k))'
<1>1. dle_list[e] # NoElem
  BY DEF DLRemove
<1>2. PICK l \in DlLists : l = dle_list[e] /\ \E k \in 1..Len(S[l]) : S[l][k] = e
  BY <1>1, DlPlace DEF DlHas
<1>3. PICK k \in 1..Len(S[l]) : S[l][k] = e
  BY <1>2
<1>4. dle_prev[e] = Left(S[l], NoElem, k - 1) /\ dle_next[e] = Right(S[l], NoElem, k + 1)
  BY <1>3, DlLinks DEF DlHas
<1>5. /\ DlStored(dll_head, dle_next, dll_head', dle_next', l, dle_prev[e], dle_next[e], e, NoElem)
      /\ DlStored(dll_tail, dle_prev, dll_tail', dle_prev', l, dle_next[e], dle_prev[e], e, NoElem)
      /\ dle_list' = [dle_list EXCEPT ![e] = NoElem] /\ dlElems' = dlElems
  BY <1>2 DEF DLRemove, DlStored
<1>6. DlHolds(Removed(S, l, k), dlElems, dll_head', dll_tail', dle_next', dle_prev', dle_list')
  BY <1>3, <1>4, <1>5, DlTakenOff DEF DlHas
<1>7. DlHas(Removed(S, l, k))'
  BY <1>5, <1>6 DEF DlHas
<1> QED BY <1>7

\* A link stored into a header when it is null.
LEMMA MapIfNull ==
  ASSUME NEW f, NEW X, IsMap(f, X), NEW w \in X, NEW v
  PROVE  [f EXCEPT ![w] = IF @ = NoElem THEN v ELSE @] = IF f[w] = NoElem THEN [f EXCEPT ![w] = v] ELSE f
BY DEF IsMap

LEMMA DlAdds ==
  ASSUME NEW S, DlHas(S), NEW l \in DlLists, NEW e \in DlElems, DLAddHead(l, e) \/ DLAddTail(l, e)
  PROVE  (\A m \in DlLists : ~On(S[m], e)) /\ \E k \in 1..(Len(S[l]) + 1) : DlHas(Inserted(S, l, k, e))'
<1>1. e \in dlElems /\ dle_list[e] = NoElem
  BY DEF DLAddHead, DLAddTail
<1>2. \A m \in DlLists : ~On(S[m], e)
  BY <1>1, DlAssumption DEF DlHas, DlHolds, DlOwned
<1>3. PICK n \in Nat : n = Len(S[l])
  BY DlLinks DEF DlHas
<1>4. S[l] \in Seq(DlElems) /\ dll_head[l] = Right(S[l], NoElem, 1) /\ dll_tail[l] = Left(S[l], NoElem, n)
  BY <1>3, DlLinks DEF DlHas
<1>5. dll_head[l] = NoElem <=> dll_tail[l] = NoElem
  <2>1. 1 \in 1..(n + 1) /\ n \in 0..n /\ (1 = n + 1 <=> n = 0)
    BY <1>3
  <2> QED BY <1>3, <1>4, <2>1, DlEnds
<1>6. IsMap(dll_head, DlLists) /\ IsMap(dll_tail, DlLists)
  BY DEF DlHas, DlHolds, DlMaps
<1>7. CASE DLAddHead(l, e)
  <2>1. 1 \in 1..(Len(S[l]) + 1) /\ Left(S[l], NoElem, 1 - 1) = NoElem
    BY <1>3 DEF Left
  <2>2. DlStored(dll_head, dle_next, dll_head', dle_next', l, NoElem, e, e, dll_head[l])
    BY <1>7 DEF DLAddHead, DlStored, Put
  <2>3. DlStored(dll_tail, dle_prev, dll_tail', dle_prev', l, dll_head[l], e, e, NoElem)
    <3>1. dll_tail' = IF dll_tail[l] = NoElem THEN [dll_tail EXCEPT ![l] = e] ELSE dll_tail
      BY <1>6, <1>7, MapIfNull DEF DLAddHead
    <3> QED BY <1>5, <1>7, <3>1 DEF DLAddHead, DlStored
  <2>4. dle_list' = [dle_list EXCEPT ![e] = l] /\ dlElems' = dlElems
    BY <1>7 DEF DLAddHead
  <2>5. DlHolds(Inserted(S, l, 1, e), dlElems, dll_head', dll_tail', dle_next', dle_prev', dle_list')
    BY <1>1, <1>4, <2>1, <2>2, <2>3, <2>4, DlInsert DEF DlHas
  <2>6. DlHas(Inserted(S, l, 1, e))'
    BY <2>4, <2>5 DEF DlHas
  <2> QED BY <1>2, <2>1, <2>6
<1>8. CASE DLAddTail(l, e)
  <2>1. /\ n + 1 \in 1..(Len(S[l]) + 1) /\ Right(S[l], NoElem, n + 1) = NoElem
        /\ dll_tail[l] = Left(S[l], NoElem, (n + 1) - 1)
    BY <1>3, <1>4 DEF Right
  <2>2. DlStored(dll_tail, dle_prev, dll_tail', dle_prev', l, NoElem, e, e, dll_tail[l])
    BY <1>8 DEF DLAddTail, DlStored, Put
  <2>3. DlStored(dll_head, dle_next, dll_head', dle_next', l, dll_tail[l], e, e, NoElem)
    <3>1. dll_head' = IF dll_head[l] = NoElem THEN [dll_head EXCEPT ![l] = e] ELSE dll_head
      BY <1>6, <1>8, MapIfNull DEF DLAddTail
    <3> QED BY <1>5, <1>8, <3>1 DEF DLAddTail, DlStored
  <2>4. dle_list' = [dle_list EXCEPT ![e] = l] /\ dlElems' = dlElems
    BY <1>8 DEF DLAddTail
  <2>5. DlHolds(Inserted(S, l, n + 1, e), dlElems, dll_head', dll_tail', dle_next', dle_prev', dle_list')
    BY <1>1, <2>1, <2>2, <2>3, <2>4, DlInsert DEF DlHas
  <2>6. DlHas(Inserted(S, l, n + 1, e))'
    BY <2>4, <2>5 DEF DlHas
  <2> QED BY <1>2, <2>1, <2>6
<1> QED BY <1>7, <1>8

\* Storing null into what is null already changes nothing.
LEMMA PutNull ==
  ASSUME NEW f, NEW X, IsMap(f, X), NEW x, x \in X \cup {NoElem}, NEW e \in X, f[e] = NoElem
  PROVE  Put(f, x, NoElem) = [Put(f, x, NoElem) EXCEPT ![e] = NoElem]
BY DEF IsMap, Put

LEMMA DlTakesEnd ==
  ASSUME NEW S, DlHas(S), NEW l \in DlLists, DLRemHead(l) \/ DLRemTail(l)
  PROVE  \E k \in 1..Len(S[l]) : DlHas(Removed(S, l, k))'
<1>1. PICK n \in Nat : n = Len(S[l])
  BY DlLinks DEF DlHas
<1>2. S[l] \in Seq(DlElems) /\ dll_head[l] = Right(S[l], NoElem, 1) /\ dll_tail[l] = Left(S[l], NoElem, n)
  BY <1>1, DlLinks DEF DlHas
<1>3. n # 0
  <2> SUFFICES ASSUME n = 0 PROVE FALSE
    OBVIOUS
  <2>1. dll_head[l] = NoElem /\ dll_tail[l] = NoElem
    BY <1>1, <1>2 DEF Right, Left
  <2> QED BY <2>1 DEF DLRemHead, DLRemTail
<1>4. dll_head[l] = S[l][1] /\ dll_tail[l] = S[l][n]
  BY <1>1, <1>2, <1>3 DEF Right, Left
<1>5. /\ 1 \in 1..Len(S[l]) /\ n \in 1..Len(S[l]) /\ S[l][1] \in DlElems /\ S[l][n] \in DlElems
      /\ (S[l][1] = S[l][n] => n = 1)
  BY <1>1, <1>2, <1>3, ElementOfSeq DEF DlHas, DlHolds, Apart
<1>6. \A i \in 1..Len(S[l]) : /\ dle_next[S[l][i]] = Right(S[l], NoElem, i + 1)
                              /\ dle_prev[S[l][i]] = Left(S[l], NoElem, i - 1)
  BY DlLinks DEF DlHas
<1>7. IsMap(dle_next, DlElems) /\ IsMap(dle_prev, DlElems)
  BY DEF DlHas, DlHolds, DlMaps
<1>8. CASE DLRemHead(l)
  <2>1. PICK e \in DlElems : e = dll_head[l] /\ e = S[l][1]
    BY <1>4, <1>5
  <2>2. dle_next[e] = Right(S[l], NoElem, 1 + 1) /\ dle_prev[e] = NoElem /\ Left(S[l], NoElem, 1 - 1) = NoElem
    BY <1>5, <1>6, <2>1 DEF Left
  <2>3. dle_next[e] \in DlElems \cup {NoElem} /\ (dle_next[e] = NoElem <=> n = 1)
    <3>1. 2 \in 1..(n + 1)
      BY <1>1, <1>3
    <3>4. \A i \in Nat : i + 1 = 2 <=> i = 1
      OBVIOUS
    <3>2. \A i \in 1..(n + 1) : /\ Right(S[l], NoElem, i) \in DlElems \cup {NoElem}
                                /\ Right(S[l], NoElem, i) = NoElem <=> i = n + 1
      BY <1>1, <1>2, DlEnds
    <3>3. dle_next[e] = Right(S[l], NoElem, 2)
      BY <2>2
    <3> QED BY <1>1, <3>1, <3>2, <3>3, <3>4
  <2>4. dll_tail[l] = e <=> dle_next[e] = NoElem
    BY <1>4, <1>5, <2>1, <2>3
  <2>5. DlStored(dll_head, dle_next, dll_head', dle_next', l, NoElem, dle_next[e], e, NoElem)
    BY <1>8, <2>1 DEF DLRemHead, DlStored, Put
  <2>6. DlStored(dll_tail, dle_prev, dll_tail', dle_prev', l, dle_next[e], NoElem, e, NoElem)
    <3>1. dle_prev' = Put(dle_prev, dle_next[e], NoElem)
      BY <1>8, <2>1 DEF DLRemHead
    <3>2. dle_prev' = [Put(dle_prev, dle_next[e], NoElem) EXCEPT ![e] = NoElem]
      BY <1>7, <2>2, <2>3, <3>1, PutNull
    <3>3. dll_tail' = IF dll_tail[l] = e THEN [dll_tail EXCEPT ![l] = NoElem] ELSE dll_tail
      BY <1>8, <2>1 DEF DLRemHead
    <3> QED BY <2>4, <3>2, <3>3 DEF DlStored
  <2>7. dle_list' = [dle_list EXCEPT ![e] = NoElem] /\ dlElems' = dlElems
    BY <1>8, <2>1 DEF DLRemHead
  <2>8. DlHolds(Removed(S, l, 1), dlElems, dll_head', dll_tail', dle_next', dle_prev', dle_list')
    BY <1>5, <2>1, <2>2, <2>5, <2>6, <2>7, DlTakenOff DEF DlHas
  <2>9. DlHas(Removed(S, l, 1))'
    BY <2>7, <2>8 DEF DlHas
  <2> QED BY <1>5, <2>9
<1>9. CASE DLRemTail(l)
  <2>1. PICK e \in DlElems : e = dll_tail[l] /\ e = S[l][n]
    BY <1>4, <1>5
  <2>2. dle_prev[e] = Left(S[l], NoElem, n - 1) /\ dle_next[e] = NoElem /\ Right(S[l], NoElem, n + 1) = NoElem
    BY <1>1, <1>5, <1>6, <2>1 DEF Right
  <2>3. dle_prev[e] \in DlElems \cup {NoElem} /\ (dle_prev[e] = NoElem <=> n = 1)
    <3>1. n - 1 \in 0..n /\ (n - 1 = 0 <=> n = 1)
      BY <1>1, <1>3
    <3>2. \A i \in 0..n : /\ Left(S[l], NoElem, i) \in DlElems \cup {NoElem}
                          /\ Left(S[l], NoElem, i) = NoElem <=> i = 0
      BY <1>1, <1>2, DlEnds
    <3> QED BY <2>2, <3>1, <3>2
  <2>4. dll_head[l] = e <=> dle_prev[e] = NoElem
    BY <1>4, <1>5, <2>1, <2>3
  <2>5. DlStored(dll_tail, dle_prev, dll_tail', dle_prev', l, NoElem, dle_prev[e], e, NoElem)
    BY <1>9, <2>1 DEF DLRemTail, DlStored, Put
  <2>6. DlStored(dll_head, dle_next, dll_head', dle_next', l, dle_prev[e], NoElem, e, NoElem)
    <3>1. dle_next' = Put(dle_next, dle_prev[e], NoElem)
      BY <1>9, <2>1 DEF DLRemTail
    <3>2. dle_next' = [Put(dle_next, dle_prev[e], NoElem) EXCEPT ![e] = NoElem]
      BY <1>7, <2>2, <2>3, <3>1, PutNull
    <3>3. dll_head' = IF dll_head[l] = e THEN [dll_head EXCEPT ![l] = NoElem] ELSE dll_head
      BY <1>9, <2>1 DEF DLRemTail
    <3> QED BY <2>4, <3>2, <3>3 DEF DlStored
  <2>7. dle_list' = [dle_list EXCEPT ![e] = NoElem] /\ dlElems' = dlElems
    BY <1>9, <2>1 DEF DLRemTail
  <2>8. DlHolds(Removed(S, l, n), dlElems, dll_head', dll_tail', dle_next', dle_prev', dle_list')
    BY <1>5, <2>1, <2>2, <2>5, <2>6, <2>7, DlTakenOff DEF DlHas
  <2>9. DlHas(Removed(S, l, n))'
    BY <2>7, <2>8 DEF DlHas
  <2> QED BY <1>5, <2>9
<1> QED BY <1>8, <1>9

\* The element is first taken out, its links joined up, and then put before the
\* old head.
LEMMA DlMovesToFront ==
  ASSUME NEW S, DlHas(S), NEW e \in DlElems, DLMoveToFront(e)
  PROVE  \E l \in DlLists : \E k \in 1..Len(S[l]) : DlHas(Inserted(Removed(S, l, k), l, 1, S[l][k]))'
<1>1. e \in dlElems /\ dle_list[e] # NoElem
  BY DEF DLMoveToFront
<1>2. PICK l \in DlLists : l = dle_list[e] /\ \E k \in 1..Len(S[l]) : S[l][k] = e
  BY <1>1, DlPlace DEF DlHas
<1>3. PICK k \in 1..Len(S[l]) : S[l][k] = e
  BY <1>2
<1>4. PICK n \in Nat : n = Len(S[l]) /\ k \in 1..n
  BY <1>3, DlLinks DEF DlHas
<1>5. PICK h : h = dll_head[l]
  OBVIOUS
<1>6. /\ S \in [DlLists -> Seq(DlElems)] /\ Apart(S, DlLists) /\ h = Right(S[l], NoElem, 1) /\ 1 \in 1..n
      /\ DlMaps(dll_head, dll_tail, dle_next, dle_prev, dle_list)
  BY <1>4, <1>5, DlLinks DEF DlHas, DlHolds
<1>7. h = S[l][1] /\ h \in DlElems /\ h # e /\ k # 1
  <2>1. 1 # n + 1
    BY <1>4
  <2>2. h = S[l][1]
    BY <1>4, <1>6, <2>1 DEF Right
  <2>3. h # e
    BY <1>2, <1>5 DEF DLMoveToFront
  <2> QED BY <1>3, <1>4, <1>6, <2>2, <2>3, ElementOfSeq
<1>8. PICK y \in DlElems : y = dle_prev[e] /\ y = Left(S[l], NoElem, k - 1) /\ y # e
  <2>1. k - 1 # 0 /\ k - 1 \in 1..n /\ k - 1 # k
    BY <1>4, <1>7
  <2>2. dle_prev[e] = Left(S[l], NoElem, k - 1) /\ Left(S[l], NoElem, k - 1) = S[l][k - 1]
    BY <1>3, <2>1, DlLinks DEF DlHas, Left
  <2>3. S[l][k - 1] \in DlElems /\ S[l][k - 1] # e
    BY <1>3, <1>4, <1>6, <2>1, ElementOfSeq DEF Apart
  <2> QED BY <2>2, <2>3
<1>9. PICK x \in DlElems \cup {NoElem} : x = dle_next[e] /\ x = Right(S[l], NoElem, k + 1)
  <2>1. k + 1 \in 1..(n + 1)
    BY <1>4
  <2>2. dle_next[e] = Right(S[l], NoElem, k + 1)
    BY <1>3, DlLinks DEF DlHas
  <2>3. Right(S[l], NoElem, k + 1) \in DlElems \cup {NoElem}
    BY <1>4, <1>6, <2>1, DlEnds
  <2> QED BY <2>2, <2>3
\* The list without e.
<1>10. PICK nx1 : nx1 = [Put(dle_next, y, x) EXCEPT ![e] = NoElem]
  OBVIOUS
<1>11. PICK pv1 : pv1 = [Put(dle_prev, x, y) EXCEPT ![e] = NoElem]
  OBVIOUS
<1>12. PICK tl1 : tl1 = IF x = NoElem THEN [dll_tail EXCEPT ![l] = y] ELSE dll_tail
  OBVIOUS
<1>13. PICK ls1 : ls1 = [dle_list EXCEPT ![e] = NoElem]
  OBVIOUS
<1>14. PICK S1 : S1 = Removed(S, l, k)
  OBVIOUS
<1>15. y # NoElem /\ h # NoElem
  BY <1>7, DlAssumption
<1>16. DlHolds(S1, dlElems, dll_head, tl1, nx1, pv1, ls1)
  <2>1. DlStored(dll_head, dle_next, dll_head, nx1, l, y, x, e, NoElem)
    BY <1>10, <1>15 DEF DlStored
  <2>2. DlStored(dll_tail, dle_prev, tl1, pv1, l, x, y, e, NoElem)
    BY <1>11, <1>12 DEF DlStored
  <2> QED BY <1>3, <1>8, <1>9, <1>13, <1>14, <2>1, <2>2, DlTakenOff DEF DlHas
\* Its first element is the old head.
<1>17. /\ 1 \in 1..(Len(S1[l]) + 1) /\ Left(S1[l], NoElem, 1 - 1) = NoElem
       /\ Right(S1[l], NoElem, 1) = h
  <2>1. S1[l] = RemoveAt(S[l], k)
    BY <1>6, <1>14 DEF Removed
  <2>2. /\ Len(S1[l]) = n - 1
        /\ \A i \in 1..(n - 1) : S1[l][i] = IF i < k THEN S[l][i] ELSE S[l][i + 1]
    BY <1>4, <1>6, <2>1, RemovedAt, SMTT(60)
  <2>3. 1 < k /\ 1 < n
    BY <1>4, <1>7
  <2>4. \A i \in Nat : 1 < i => i - 1 \in Nat /\ 1 \in 1..(i - 1)
    OBVIOUS
  <2>5. PICK m \in Nat : m = Len(S1[l]) /\ 1 \in 1..m /\ S1[l][1] = h
    BY <1>4, <1>7, <2>2, <2>3, <2>4
  <2>6. 1 \in 1..(m + 1) /\ 1 # m + 1
    BY <2>5
  <2> QED BY <2>5, <2>6 DEF Left, Right
<1>18. ls1[e] = NoElem /\ dle_list = [ls1 EXCEPT ![e] = l]
  BY <1>2, <1>6, <1>13 DEF DlMaps, IsMap
<1>19. PICK pv2 : pv2 = [Put(pv1, h, e) EXCEPT ![e] = NoElem]
  OBVIOUS
<1>20. DlHolds(Inserted(S1, l, 1, e), dlElems, [dll_head EXCEPT ![l] = e], tl1,
               [nx1 EXCEPT ![e] = h], pv2, dle_list)
  <2>1. DlStored(dll_head, nx1, [dll_head EXCEPT ![l] = e], [nx1 EXCEPT ![e] = h], l, NoElem, e, e, h)
    BY DEF DlStored, Put
  <2>2. DlStored(tl1, pv1, tl1, pv2, l, h, e, e, NoElem)
    BY <1>15, <1>19 DEF DlStored
  <2> QED BY <1>1, <1>16, <1>17, <1>18, <2>1, <2>2, DlInsert, ZenonT(60)
<1>21. dle_next' = [nx1 EXCEPT ![e] = h]
  <2>1. dle_next' = [dle_next EXCEPT ![y] = x, ![e] = h]
    BY <1>2, <1>5, <1>8, <1>9 DEF DLMoveToFront
  <2>2. nx1 = [dle_next EXCEPT ![y] = x, ![e] = NoElem]
    BY <1>10, <1>15 DEF Put
  <2>3. IsMap(dle_next, DlElems)
    BY <1>6 DEF DlMaps
  <2> QED BY <2>1, <2>2, <2>3 DEF IsMap
<1>22. dle_prev' = pv2
  <2>1. dle_prev' = [Put(dle_prev, x, y) EXCEPT ![h] = e, ![e] = NoElem]
    BY <1>2, <1>5, <1>8, <1>9 DEF DLMoveToFront
  <2>2. pv2 = [pv1 EXCEPT ![h] = e, ![e] = NoElem]
    BY <1>15, <1>19 DEF Put
  <2>3. IsMap(Put(dle_prev, x, y), DlElems)
    BY <1>6 DEF DlMaps, IsMap, Put
  <2> QED BY <1>7, <1>11, <2>1, <2>2, <2>3 DEF IsMap
<1>23. dll_head' = [dll_head EXCEPT ![l] = e] /\ dll_tail' = tl1 /\ dle_list' = dle_list /\ dlElems' = dlElems
  BY <1>2, <1>8, <1>9, <1>12 DEF DLMoveToFront
<1>24. DlHolds(Inserted(S1, l, 1, e), dlElems', dll_head', dll_tail', dle_next', dle_prev', dle_list')
  BY <1>20, <1>21, <1>22, <1>23
<1>25. DlHas(Inserted(Removed(S, l, k), l, 1, S[l][k]))'
  BY <1>3, <1>14, <1>24 DEF DlHas
<1> QED BY <1>25

LEMMA DlFreesList ==
  ASSUME NEW S, DlHas(S), NEW l \in DlLists, DLFreeList(l)
  PROVE  DlHas(Cleared(S, l))'
<1>1. S[l] \in Seq(DlElems) /\ DlForward(l) = S[l]
  BY DlReads DEF DlHas, DlHolds, DlForward
<1>2. PICK gone : gone = Range(DlForward(l)) /\ \A e \in DlElems : e \in gone <=> On(S[l], e)
  BY <1>1, RangeIsOn
<1>3. /\ dlElems' = dlElems \ gone
      /\ dll_head' = [dll_head EXCEPT ![l] = NoElem] /\ dll_tail' = [dll_tail EXCEPT ![l] = NoElem]
      /\ Blanked(dle_list, dle_list', gone)
      /\ Blanked(dle_next, dle_next', gone) /\ Blanked(dle_prev, dle_prev', gone)
  BY <1>2 DEF DLFreeList, Blanked
<1>4. DlHolds(Cleared(S, l), dlElems \ gone, dll_head', dll_tail', dle_next', dle_prev', dle_list')
  BY <1>2, <1>3, DlEmptied DEF DlHas
<1> QED BY <1>3, <1>4 DEF DlHas

\* Every routine keeps the links right and does to the sequences what SeqLists
\* allows.
LEMMA DlStepHolds ==
  ASSUME NEW S, DlHas(S), DlNext
  PROVE  \E T : DlHas(T)' /\ SeqStep(S, T, DlLists, DlElems)
<1>1. CASE \E e \in DlElems : DLNewElem(e) \/ DLFreeElem(e)
  BY <1>1, DlAllocates DEF SeqStep
<1>2. CASE \E e \in DlElems : DLRemove(e)
  BY <1>2, DlRemoves DEF SeqStep
<1>3. CASE \E e \in DlElems : DLMoveToFront(e)
  BY <1>3, DlMovesToFront DEF SeqStep
<1>4. CASE \E e \in DlElems, l \in DlLists : DLAddHead(l, e) \/ DLAddTail(l, e)
  BY <1>4, DlAdds DEF SeqStep
<1>5. CASE \E l \in DlLists : DLRemHead(l) \/ DLRemTail(l)
  BY <1>5, DlTakesEnd DEF SeqStep
<1>6. CASE \E l \in DlLists : DLFreeList(l)
  BY <1>6, DlFreesList DEF SeqStep
<1> QED BY <1>1, <1>2, <1>3, <1>4, <1>5, <1>6 DEF DlNext

LEMMA DlWellLinkedHolds ==
  ASSUME NEW S, DlHas(S)
  PROVE  DlWellLinked
<1>1. \A l \in DlLists : S[l] \in Seq(DlElems) /\ DlForward(l) = S[l] /\ DlBackward(l) = Reverse(S[l])
  BY DlReads DEF DlHas, DlHolds, DlForward, DlBackward
<1>2. \A l \in DlLists : \A e : e \in Range(S[l]) <=> On(S[l], e)
  BY <1>1, RangeIsOn
<1>3. dlElems \subseteq DlElems /\ DlOwned(S, dlElems, dle_next, dle_prev, dle_list)
  BY DEF DlHas, DlHolds
<1>4. \A l \in DlLists : \A e : On(S[l], e) => e \in DlElems
  BY <1>1, ElementOfSeq DEF On
<1>5. ASSUME NEW l \in DlLists
      PROVE  Range(S[l]) = {e \in dlElems : dle_list[e] = l}
  BY <1>2, <1>3, <1>4, DlAssumption DEF DlOwned
<1>6. \A e \in dlElems : dle_list[e] = NoElem => dle_next[e] = NoElem /\ dle_prev[e] = NoElem
  BY <1>3 DEF DlOwned
<1> QED BY <1>1, <1>5, <1>6 DEF DlWellLinked

\* Every routine of dllist.c puts one element in, takes one out, moves one to
\* the front or empties one list: its steps are steps of SeqLists.
LEMMA DlStepImplements ==
  ASSUME NEW S \in [DlLists -> Seq(DlElems)], NEW T, SeqStep(S, T, DlLists, DlElems),
         [l \in DlLists |-> DlForward(l)] = S, [l \in DlLists |-> DlForward(l)]' = T
  PROVE  UNCHANGED [l \in DlLists |-> DlForward(l)] \/ DlSeqs!Next
<1>2. \A s, k, e : DlSeqs!InsertAt(s, k, e) = InsertAt(s, k, e)
  BY DEF DlSeqs!InsertAt, InsertAt
<1>3. \A s, k : DlSeqs!RemoveAt(s, k) = RemoveAt(s, k)
  BY DEF DlSeqs!RemoveAt, RemoveAt
<1>4. CASE T = S
  BY <1>4
<1>5. CASE \E l \in DlLists : T = Cleared(S, l)
  <2>1. PICK l \in DlLists : T = Cleared(S, l)
    BY <1>5
  <2>2. DlSeqs!Clear(l)
    BY <2>1 DEF DlSeqs!Clear, Cleared
  <2> QED BY <2>2 DEF DlSeqs!Next
<1>6. CASE \E l \in DlLists : \E k \in 1..(Len(S[l]) + 1), e \in DlElems :
             (\A m \in DlLists : ~On(S[m], e)) /\ T = Inserted(S, l, k, e)
  <2>1. PICK l \in DlLists : \E k \in 1..(Len(S[l]) + 1), e \in DlElems :
             (\A m \in DlLists : ~On(S[m], e)) /\ T = Inserted(S, l, k, e)
    BY <1>6
  <2>2. PICK k \in 1..(Len(S[l]) + 1), e \in DlElems :
             (\A m \in DlLists : ~On(S[m], e)) /\ T = Inserted(S, l, k, e)
    BY <2>1
  <2>3. \A m \in DlLists : e \notin DlSeqs!Range(S[m])
    <3>1. \A m \in DlLists : DlSeqs!Range(S[m]) = Range(S[m])
      BY DEF DlSeqs!Range, Range
    <3> QED BY <2>2, <3>1, RangeIsOn
  <2>4. e \notin DlSeqs!Members
    BY <2>3 DEF DlSeqs!Members
  <2>5. T = [S EXCEPT ![l] = DlSeqs!InsertAt(@, k, e)]
    BY <1>2, <2>2 DEF Inserted
  <2>6. DlSeqs!Insert(l, k, e)
    BY <2>2, <2>4, <2>5 DEF DlSeqs!Insert
  <2> QED BY <2>2, <2>6 DEF DlSeqs!Next
<1>7. CASE \E l \in DlLists : \E k \in 1..Len(S[l]) :
             T = Removed(S, l, k) \/ T = Inserted(Removed(S, l, k), l, 1, S[l][k])
  <2>1. PICK l \in DlLists : \E k \in 1..Len(S[l]) :
             T = Removed(S, l, k) \/ T = Inserted(Removed(S, l, k), l, 1, S[l][k])
    BY <1>7
  <2>2. PICK k \in 1..Len(S[l]) :
             T = Removed(S, l, k) \/ T = Inserted(Removed(S, l, k), l, 1, S[l][k])
    BY <2>1
  <2>3. Removed(S, l, k) = [S EXCEPT ![l] = DlSeqs!RemoveAt(@, k)]
    BY <1>3 DEF Removed
  <2>4. Inserted(Removed(S, l, k), l, 1, S[l][k])
        = [S EXCEPT ![l] = DlSeqs!InsertAt(DlSeqs!RemoveAt(@, k), 1, S[l][k])]
    BY <1>2, <1>3 DEF Removed, Inserted
  <2>5. DlSeqs!Take(l, k) \/ DlSeqs!ToFront(l, k)
    BY <2>2, <2>3, <2>4 DEF DlSeqs!Take, DlSeqs!ToFront
  <2> QED BY <2>5 DEF DlSeqs!Next
<1> QED BY <1>4, <1>5, <1>6, <1>7 DEF SeqStep

-----------------------------------------------------------------------------
(* The ordered sets.  The cells are seen as the next and the prev fields   *)
(* of elements and pseudo-elements.                                        *)

OPlaces == Pseudo \cup OElems
ONext(c) == [x \in OPlaces |-> c[NextCell(x)]]
OPrev(c) == [x \in OPlaces |-> c[PrevCell(x)]]
OHead == [s \in OSets |-> AtHead(s)]
ODummy == [s \in OSets |-> AtDummy(s)]

LEMMA OSetPlaces ==
  LinkPlaces(OHead, OSets, OElems, OPlaces) /\ LinkPlaces(ODummy, OSets, OElems, OPlaces)
<1>1. \A s \in OSets : /\ OHead[s] = AtHead(s) /\ AtHead(s) \in Pseudo
                       /\ ODummy[s] = AtDummy(s) /\ AtDummy(s) \in Pseudo
  BY DEF OHead, ODummy, Pseudo
<1>2. \A s, t \in OSets : (AtHead(s) = AtHead(t) => s = t) /\ (AtDummy(s) = AtDummy(t) => s = t)
  BY DEF AtHead, AtDummy
<1> QED BY <1>1, <1>2, OSetAssumption DEF LinkPlaces, Heading, OPlaces

\* The two fields of a place are cells of its own, save that the prev field of
\* a pseudo-element at a head is the next field of the one at the dummy.
LEMMA OwnCells ==
  /\ \A s \in OSets : /\ NextCell(AtHead(s)) = AtHead(s) /\ PrevCell(AtHead(s)) = AtDummy(s)
                      /\ NextCell(AtDummy(s)) = AtDummy(s) /\ PrevCell(AtDummy(s)) = AtTail(s)
  /\ \A e \in OElems : NextCell(e) = Link("next", e) /\ PrevCell(e) = Link("prev", e)
  /\ \A x \in OPlaces : NextCell(x) \in OCells /\ PrevCell(x) \in OCells
<1>1. ASSUME NEW s \in OSets
      PROVE  /\ NextCell(AtHead(s)) = AtHead(s) /\ PrevCell(AtHead(s)) = AtDummy(s)
             /\ NextCell(AtDummy(s)) = AtDummy(s) /\ PrevCell(AtDummy(s)) = AtTail(s)
  <2>1. AtHead(s) \in Pseudo /\ AtDummy(s) \in Pseudo
    BY DEF Pseudo
  <2>2. AtHead(s)[1] = "head" /\ AtHead(s)[2] = s /\ AtDummy(s)[1] # "head" /\ AtDummy(s)[2] = s
    BY DEF AtHead, AtDummy
  <2> QED BY <2>1, <2>2 DEF NextCell, PrevCell
<1>2. \A e \in OElems : NextCell(e) = Link("next", e) /\ PrevCell(e) = Link("prev", e)
  BY OSetAssumption DEF NextCell, PrevCell
<1>3. ASSUME NEW x \in OPlaces PROVE NextCell(x) \in OCells /\ PrevCell(x) \in OCells
  <2>1. CASE x \in OElems
    BY <1>2, <2>1 DEF OCells, Link
  <2>2. CASE x \in Pseudo
    <3>1. PICK s \in OSets : x = AtHead(s) \/ x = AtDummy(s)
      BY <2>2 DEF Pseudo
    <3>2. AtHead(s) \in OCells /\ AtDummy(s) \in OCells /\ AtTail(s) \in OCells
      BY DEF OCells, Pseudo
    <3> QED BY <1>1, <3>1, <3>2
  <2> QED BY <2>1, <2>2 DEF OPlaces
<1> QED BY <1>1, <1>2, <1>3

\* What can be before an element, and what can be behind one.
Before == OElems \cup {AtHead(s) : s \in OSets}
Behind == OElems \cup {AtDummy(s) : s \in OSets}

LEMMA CellsDiffer ==
  /\ \A x, y \in OPlaces : /\ NextCell(x) = NextCell(y) => x = y
                           /\ PrevCell(x) = PrevCell(y) => x = y
  /\ \A x \in Before, y \in OPlaces : NextCell(x) # PrevCell(y)
  /\ \A x \in Behind, y \in OPlaces : PrevCell(x) # NextCell(y)
<1>1. \A x \in OPlaces : \/ x \in OElems /\ NextCell(x) = Link("next", x) /\ PrevCell(x) = Link("prev", x)
                         \/ \E s \in OSets : x = AtHead(s) /\ NextCell(x) = AtHead(s) /\ PrevCell(x) = AtDummy(s)
                         \/ \E s \in OSets : x = AtDummy(s) /\ NextCell(x) = AtDummy(s) /\ PrevCell(x) = AtTail(s)
  BY OwnCells DEF OPlaces, Pseudo
<1>2. \A x \in Before : \/ x \in OElems /\ NextCell(x) = Link("next", x)
                        \/ \E s \in OSets : NextCell(x) = AtHead(s)
  BY OwnCells DEF Before
<1>3. \A x \in Behind : \/ x \in OElems /\ PrevCell(x) = Link("prev", x)
                        \/ \E s \in OSets : PrevCell(x) = AtTail(s)
  BY OwnCells DEF Behind
<1>4. \A s, t : /\ Link("next", s) = Link("next", t) => s = t
                /\ Link("prev", s) = Link("prev", t) => s = t
                /\ AtHead(s) = AtHead(t) => s = t
                /\ AtDummy(s) = AtDummy(t) => s = t
                /\ AtTail(s) = AtTail(t) => s = t
  BY DEF Link, AtHead, AtDummy, AtTail
<1>5. \A s, t : /\ Link("next", s) # Link("prev", t) /\ Link("next", s) # AtHead(t)
                /\ Link("next", s) # AtDummy(t) /\ Link("next", s) # AtTail(t)
                /\ Link("prev", s) # AtHead(t) /\ Link("prev", s) # AtDummy(t) /\ Link("prev", s) # AtTail(t)
                /\ AtHead(s) # AtDummy(t) /\ AtHead(s) # AtTail(t) /\ AtDummy(s) # AtTail(t)
  BY DEF Link, AtHead, AtDummy, AtTail
<1>6. ASSUME NEW x \in OPlaces, NEW y \in OPlaces
      PROVE  /\ NextCell(x) = NextCell(y) => x = y
             /\ PrevCell(x) = PrevCell(y) => x = y
  BY <1>1, <1>4, <1>5
<1>7. ASSUME NEW x \in Before, NEW y \in OPlaces PROVE NextCell(x) # PrevCell(y)
  BY <1>1, <1>2, <1>5
<1>8. ASSUME NEW x \in Behind, NEW y \in OPlaces PROVE PrevCell(x) # NextCell(y)
  <2>1. CASE x \in OElems /\ PrevCell(x) = Link("prev", x)
    BY <1>1, <1>5, <2>1
  <2>2. CASE \E s \in OSets : PrevCell(x) = AtTail(s)
    <3>1. PICK s \in OSets : PrevCell(x) = AtTail(s)
      BY <2>2
    <3>2. \/ NextCell(y) = Link("next", y)
          \/ \E t \in OSets : NextCell(y) = AtHead(t) \/ NextCell(y) = AtDummy(t)
      BY <1>1
    <3> QED BY <1>5, <3>1, <3>2
  <2> QED BY <1>3, <2>1, <2>2
<1> QED BY <1>6, <1>7, <1>8

\* The four stores of a routine: v through the next field of p, w through the
\* prev field of n, and x and y into the links of e.
OStored(c, c2, p, v, n, w, e, x, y) ==
  /\ IsMap(c2, OCells)
  /\ \A z \in OCells : c2[z] = IF z = NextCell(p) THEN v
                               ELSE IF z = PrevCell(n) THEN w
                               ELSE IF z = NextCell(e) THEN x
                               ELSE IF z = PrevCell(e) THEN y ELSE c[z]

LEMMA OStores ==
  ASSUME NEW c, NEW c2, NEW p \in Before, NEW n \in Behind, NEW e \in OElems, p # e, n # e,
         NEW v, NEW w, NEW x, NEW y, OStored(c, c2, p, v, n, w, e, x, y)
  PROVE  /\ Stores(ONext(c), ONext(c2), OPlaces, p, v, e, x)
         /\ Stores(OPrev(c), OPrev(c2), OPlaces, n, w, e, y)
<1>1. /\ p \in OPlaces /\ n \in OPlaces /\ e \in OPlaces /\ e \in Before /\ e \in Behind
  BY DEF Before, Behind, OPlaces, Pseudo
<1>2. \A z \in OPlaces : NextCell(z) \in OCells /\ PrevCell(z) \in OCells
  BY OwnCells
<1>3. ASSUME NEW z \in OPlaces
      PROVE  /\ ONext(c2)[z] = IF z = p THEN v ELSE IF z = e THEN x ELSE ONext(c)[z]
             /\ OPrev(c2)[z] = IF z = n THEN w ELSE IF z = e THEN y ELSE OPrev(c)[z]
  <2>1. /\ NextCell(z) = NextCell(p) <=> z = p
        /\ NextCell(z) = NextCell(e) <=> z = e
        /\ NextCell(z) # PrevCell(n) /\ NextCell(z) # PrevCell(e)
    BY <1>1, CellsDiffer
  <2>2. /\ PrevCell(z) = PrevCell(n) <=> z = n
        /\ PrevCell(z) = PrevCell(e) <=> z = e
        /\ PrevCell(z) # NextCell(p) /\ PrevCell(z) # NextCell(e)
    BY <1>1, CellsDiffer
  <2>3. /\ c2[NextCell(z)] = IF z = p THEN v ELSE IF z = e THEN x ELSE c[NextCell(z)]
        /\ c2[PrevCell(z)] = IF z = n THEN w ELSE IF z = e THEN y ELSE c[PrevCell(z)]
    BY <1>2, <2>1, <2>2 DEF OStored
  <2> QED BY <2>3 DEF ONext, OPrev
<1> QED BY <1>1, <1>3 DEF Stores

\* The inductive invariant: the fields hold sequences S, the dummies are null,
\* and an element has a next link exactly when it is on a set, the one it names.
OSetHolds(S, c, os) ==
  /\ S \in [OSets -> Seq(OElems)] /\ Apart(S, OSets)
  /\ IsMap(c, OCells) /\ IsMap(os, OElems)
  /\ Downs(S, OSets, ONext(c), OHead, ODummy)
  /\ Ups(S, OSets, OPrev(c), ODummy, OHead)
  /\ \A s \in OSets : ONext(c)[AtDummy(s)] = Null
  /\ \A e \in OElems : /\ ONext(c)[e] # Null <=> \E s \in OSets : On(S[s], e)
                       /\ \A s \in OSets : On(S[s], e) => os[e] = s

OSetHas(S) == OSetHolds(S, cell, oset)
OSetInv == \E S : OSetHas(S)

\* Where the links of a set lead.
LEMMA OSetLinks ==
  ASSUME NEW S, NEW c, NEW os, OSetHolds(S, c, os), NEW s \in OSets
  PROVE  /\ Len(S[s]) \in Nat /\ S[s] \in Seq(OElems)
         /\ \A i \in 0..Len(S[s]) :
              /\ ONext(c)[Left(S[s], AtHead(s), i)] = Right(S[s], AtDummy(s), i + 1)
              /\ OPrev(c)[Right(S[s], AtDummy(s), i + 1)] = Left(S[s], AtHead(s), i)
              /\ Left(S[s], AtHead(s), i) \in Before
         /\ \A i \in 1..(Len(S[s]) + 1) : Right(S[s], AtDummy(s), i) \in Behind
<1>1. S[s] \in Seq(OElems) /\ OHead[s] = AtHead(s) /\ ODummy[s] = AtDummy(s)
  BY DEF OSetHolds, OHead, ODummy
<1>2. PICK n \in Nat : n = Len(S[s]) /\ \A i \in 1..n : S[s][i] \in OElems
  BY <1>1, LenProperties, ElementOfSeq
<1>3. /\ Down(S[s], ONext(c), AtHead(s), AtDummy(s))
      /\ Up(S[s], OPrev(c), AtDummy(s), AtHead(s))
  BY <1>1 DEF OSetHolds, Downs, Ups
<1>4. ASSUME NEW i \in 0..n PROVE Left(S[s], AtHead(s), i) \in Before
  <2>1. i # 0 => i \in 1..n
    OBVIOUS
  <2> QED BY <1>2, <2>1 DEF Left, Before
<1>5. ASSUME NEW i \in 1..(n + 1) PROVE Right(S[s], AtDummy(s), i) \in Behind
  <2>1. i # n + 1 => i \in 1..n
    OBVIOUS
  <2> QED BY <1>2, <2>1 DEF Right, Behind
<1> QED BY <1>1, <1>2, <1>3, <1>4, <1>5 DEF Down, Up

\* No place is null.
LEMMA NoneNull == Null \notin Before /\ Null \notin Behind /\ Null \notin OElems
<1>1. \A s \in OSets : AtHead(s) \in Pseudo /\ AtDummy(s) \in Pseudo
  BY DEF Pseudo
<1> QED BY <1>1, OSetAssumption DEF Before, Behind

\* What the stores of a routine leave of the rest of the invariant.
LEMMA OSetRest ==
  ASSUME NEW S, NEW c, NEW os, OSetHolds(S, c, os), NEW T, NEW c2, NEW os2,
         NEW p \in Before, NEW v, NEW e \in OElems, NEW x,
         Stores(ONext(c), ONext(c2), OPlaces, p, v, e, x), p # e,
         v \in Behind, p \in OElems => \E s \in OSets : On(S[s], p),
         x # Null <=> \E s \in OSets : On(T[s], e),
         \A z \in OElems, s \in OSets : z # e => (On(T[s], z) <=> On(S[s], z)),
         \A z \in OElems : z # e => os2[z] = os[z],
         \A s \in OSets : On(T[s], e) => os2[e] = s
  PROVE  /\ \A s \in OSets : ONext(c2)[AtDummy(s)] = Null
         /\ \A z \in OElems : /\ ONext(c2)[z] # Null <=> \E s \in OSets : On(T[s], z)
                              /\ \A s \in OSets : On(T[s], z) => os2[z] = s
<1>1. ASSUME NEW s \in OSets PROVE ONext(c2)[AtDummy(s)] = Null
  <2>1. AtDummy(s) \in Pseudo
    BY DEF Pseudo
  <2>2. AtDummy(s) \notin OElems /\ AtDummy(s) \in OPlaces
    BY <2>1, OSetAssumption DEF OPlaces
  <2>3. \A t \in OSets : AtDummy(s) # AtHead(t)
    BY DEF AtDummy, AtHead
  <2>4. AtDummy(s) # p /\ AtDummy(s) # e
    BY <2>2, <2>3 DEF Before
  <2>5. ONext(c2)[AtDummy(s)] = ONext(c)[AtDummy(s)]
    BY <2>2, <2>4 DEF Stores
  <2> QED BY <2>5 DEF OSetHolds
<1>2. ASSUME NEW z \in OElems, z # e
      PROVE  ONext(c2)[z] # Null <=> \E s \in OSets : On(T[s], z)
  <2>1. ONext(c)[z] # Null <=> \E s \in OSets : On(S[s], z)
    BY DEF OSetHolds
  <2>2. CASE z = p
    <3>1. ONext(c2)[z] # Null
      BY <2>2, NoneNull DEF Stores
    <3> QED BY <1>2, <2>2, <3>1
  <2>3. CASE z # p
    <3>1. ONext(c2)[z] = ONext(c)[z]
      BY <1>2, <2>3 DEF Stores, OPlaces
    <3> QED BY <1>2, <2>1, <3>1
  <2> QED BY <2>2, <2>3
<1>3. ONext(c2)[e] # Null <=> \E s \in OSets : On(T[s], e)
  BY DEF Stores
<1>4. \A z \in OElems, s \in OSets : z # e /\ On(S[s], z) => os[z] = s
  BY DEF OSetHolds
<1>5. ASSUME NEW z \in OElems, NEW s \in OSets, On(T[s], z) PROVE os2[z] = s
  BY <1>4, <1>5
<1> QED BY <1>1, <1>2, <1>3, <1>5

LEMMA OSetPushes ==
  ASSUME NEW S, OSetHas(S), NEW s \in OSets, NEW e \in OElems, ordered_elem_push_into(e, s)
  PROVE  (\A t \in OSets : ~On(S[t], e)) /\ OSetHas(Inserted(S, s, 1, e))'
<1>1. /\ S \in [OSets -> Seq(OElems)] /\ Apart(S, OSets) /\ IsMap(cell, OCells) /\ IsMap(oset, OElems)
      /\ Downs(S, OSets, ONext(cell), OHead, ODummy) /\ Ups(S, OSets, OPrev(cell), ODummy, OHead)
  BY DEF OSetHas, OSetHolds
<1>2. PICK n \in Nat : n = Len(S[s]) /\ 1 \in 1..(n + 1) /\ 0 \in 0..n /\ 1 - 1 = 0 /\ 0 + 1 = 1
  BY OSetLinks DEF OSetHas
<1>3. AtHead(s) \in Pseudo /\ AtHead(s) \in OPlaces /\ AtHead(s) \in Before /\ AtHead(s) # e
  <2>1. AtHead(s) \in Pseudo
    BY DEF Pseudo
  <2> QED BY <2>1, OSetAssumption DEF OPlaces, Before
<1>4. PICK first : first = cell[AtHead(s)]
  OBVIOUS
<1>5. first = Right(S[s], AtDummy(s), 1) /\ first \in Behind
  <2>1. Left(S[s], AtHead(s), 0) = AtHead(s)
    BY DEF Left
  <2>2. ONext(cell)[AtHead(s)] = cell[AtHead(s)]
    BY <1>3, OwnCells DEF ONext
  <2> QED BY <1>2, <1>4, <2>1, <2>2, OSetLinks DEF OSetHas
<1>6. ONext(cell)[e] = Null /\ \A t \in OSets : ~On(S[t], e)
  <2>1. ONext(cell)[e] = cell[Link("next", e)]
    BY OwnCells DEF ONext, OPlaces
  <2>2. cell[Link("next", e)] = Null
    BY DEF ordered_elem_push_into
  <2> QED BY <2>1, <2>2 DEF OSetHas, OSetHolds
<1>7. first # e
  <2>1. Heading(ODummy, OSets, OElems) /\ ODummy[s] = AtDummy(s)
    BY OSetPlaces DEF LinkPlaces, ODummy
  <2>2. \A i \in 1..(Len(S[s]) + 1), z \in OElems :
          Right(S[s], ODummy[s], i) = z => i # Len(S[s]) + 1 /\ On(S[s], z)
    BY <1>1, <2>1, NodesApart
  <2> QED BY <1>2, <1>5, <1>6, <2>1, <2>2
<1>8. OStored(cell, cell', AtHead(s), e, first, e, e, first, AtHead(s))
  <2>1. e \in OPlaces /\ e \in Before /\ e \in Behind /\ first \in OPlaces
    BY <1>5 DEF Before, Behind, OPlaces, Pseudo
  <2>2. /\ NextCell(AtHead(s)) # NextCell(e) /\ PrevCell(first) # PrevCell(e)
        /\ NextCell(AtHead(s)) # PrevCell(first) /\ NextCell(AtHead(s)) # PrevCell(e)
        /\ PrevCell(first) # NextCell(e) /\ NextCell(e) # PrevCell(e)
    BY <1>3, <1>7, <2>1, CellsDiffer
  <2>3. /\ NextCell(AtHead(s)) \in OCells /\ PrevCell(first) \in OCells
        /\ NextCell(e) \in OCells /\ PrevCell(e) \in OCells
    BY <1>3, <2>1, OwnCells
  <2>4. cell' = [cell EXCEPT ![NextCell(e)] = first, ![PrevCell(e)] = AtHead(s),
                             ![PrevCell(first)] = e, ![NextCell(AtHead(s))] = e]
    BY <1>4, OwnCells DEF ordered_elem_push_into
  <2> QED BY <1>1, <2>2, <2>3, <2>4 DEF OStored, IsMap
<1>9. /\ Stores(ONext(cell), ONext(cell'), OPlaces, AtHead(s), e, e, first)
      /\ Stores(OPrev(cell), OPrev(cell'), OPlaces, first, e, e, AtHead(s))
  BY <1>3, <1>5, <1>7, <1>8, OStores
<1>10. PICK T : T = Inserted(S, s, 1, e)
  OBVIOUS
<1>11. /\ T \in [OSets -> Seq(OElems)] /\ Apart(T, OSets)
       /\ \A t \in OSets, z \in OElems : On(T[t], z) <=> On(S[t], z) \/ (t = s /\ z = e)
  BY <1>1, <1>2, <1>6, <1>10, ApartInsert
<1>12. /\ Left(S[s], OHead[s], 1 - 1) = AtHead(s) /\ Right(S[s], ODummy[s], 1) = first
  BY <1>2, <1>5 DEF OHead, ODummy, Left
<1>13. Downs(T, OSets, ONext(cell'), OHead, ODummy)
  BY <1>1, <1>2, <1>6, <1>9, <1>10, <1>12, OSetPlaces, DownsInsert DEF Unlisted
<1>14. Ups(T, OSets, OPrev(cell'), ODummy, OHead)
  BY <1>1, <1>2, <1>6, <1>9, <1>10, <1>12, OSetPlaces, UpsInsert DEF Unlisted
<1>15. IsMap(oset', OElems) /\ \A z \in OElems : oset'[z] = IF z = e THEN s ELSE oset[z]
  BY <1>1 DEF ordered_elem_push_into, IsMap
<1>16. /\ \A t \in OSets : ONext(cell')[AtDummy(t)] = Null
       /\ \A z \in OElems : /\ ONext(cell')[z] # Null <=> \E t \in OSets : On(T[t], z)
                            /\ \A t \in OSets : On(T[t], z) => oset'[z] = t
  <2>1. AtHead(s) \notin OElems /\ e \in Behind
    BY <1>3, OSetAssumption DEF Behind
  <2>2. first # Null /\ \E t \in OSets : On(T[t], e)
    BY <1>5, <1>11, NoneNull
  <2>3. \A t \in OSets : On(T[t], e) => oset'[e] = t
    BY <1>6, <1>11, <1>15
  <2>4. Stores(ONext(cell), ONext(cell'), OPlaces, AtHead(s), e, e, first)
    BY <1>9
  <2>5. \A z \in OElems, t \in OSets : z # e => (On(T[t], z) <=> On(S[t], z))
    BY <1>11
  <2>6. \A z \in OElems : z # e => oset'[z] = oset[z]
    BY <1>15
  <2>7. OSetHolds(S, cell, oset)
    BY DEF OSetHas
  <2> QED BY <1>3, <2>1, <2>2, <2>3, <2>4, <2>5, <2>6, <2>7, OSetRest
<1>17. IsMap(cell', OCells)
  BY <1>8 DEF OStored
<1>18. OSetHolds(T, cell', oset')
  BY <1>11, <1>13, <1>14, <1>15, <1>16, <1>17 DEF OSetHolds
<1> QED BY <1>6, <1>10, <1>18 DEF OSetHas

LEMMA OSetPops ==
  ASSUME NEW S, OSetHas(S), NEW e \in OElems, ordered_elem_pop(e)
  PROVE  \E s \in OSets : \E k \in 1..Len(S[s]) : OSetHas(Removed(S, s, k))'
<1>1. /\ S \in [OSets -> Seq(OElems)] /\ Apart(S, OSets) /\ IsMap(cell, OCells) /\ IsMap(oset, OElems)
      /\ Downs(S, OSets, ONext(cell), OHead, ODummy) /\ Ups(S, OSets, OPrev(cell), ODummy, OHead)
  BY DEF OSetHas, OSetHolds
<1>2. ONext(cell)[e] = cell[Link("next", e)] /\ OPrev(cell)[e] = cell[Link("prev", e)]
  BY OwnCells DEF ONext, OPrev, OPlaces
<1>3. PICK s \in OSets : \E k \in 1..Len(S[s]) : S[s][k] = e
  BY <1>2 DEF ordered_elem_pop, OSetHas, OSetHolds, On
<1>4. PICK k \in 1..Len(S[s]) : S[s][k] = e
  BY <1>3
<1>5. PICK n \in Nat : n = Len(S[s]) /\ k \in 1..n /\ k \in Nat /\ k # 0 /\ k # n + 1
  BY <1>4, OSetLinks DEF OSetHas
<1>6. PICK m : m = cell[Link("next", e)]
  OBVIOUS
<1>7. PICK p : p = cell[Link("prev", e)]
  OBVIOUS
<1>8. m = Right(S[s], AtDummy(s), k + 1) /\ m \in Behind
  <2>1. k \in 0..n /\ k + 1 \in 1..(n + 1) /\ Left(S[s], AtHead(s), k) = e
    BY <1>4, <1>5 DEF Left
  <2>2. ONext(cell)[e] = Right(S[s], AtDummy(s), k + 1)
    BY <1>5, <2>1, OSetLinks DEF OSetHas
  <2> QED BY <1>2, <1>5, <1>6, <2>1, <2>2, OSetLinks DEF OSetHas
<1>9. p = Left(S[s], AtHead(s), k - 1) /\ p \in Before
  <2>1. k - 1 \in 0..n /\ (k - 1) + 1 = k /\ Right(S[s], AtDummy(s), k) = e
    BY <1>4, <1>5 DEF Right
  <2>2. OPrev(cell)[Right(S[s], AtDummy(s), (k - 1) + 1)] = Left(S[s], AtHead(s), k - 1)
    BY <1>5, <2>1, OSetLinks DEF OSetHas
  <2> QED BY <1>2, <1>5, <1>7, <2>1, <2>2, OSetLinks DEF OSetHas
<1>10. /\ AtHead(s) \notin OElems /\ AtDummy(s) \notin OElems
  BY OSetAssumption DEF Pseudo
<1>11. p # e /\ (p \in OElems => On(S[s], p))
  <2>1. CASE k - 1 = 0
    BY <1>9, <1>10, <2>1 DEF Left
  <2>2. CASE k - 1 # 0
    <3>1. p = S[s][k - 1] /\ k - 1 \in 1..Len(S[s]) /\ k - 1 # k
      BY <1>5, <1>9, <2>2 DEF Left
    <3> QED BY <1>1, <1>4, <3>1 DEF Apart, On
  <2> QED BY <2>1, <2>2
<1>12. m # e
  <2>1. CASE k + 1 = n + 1
    BY <1>5, <1>8, <1>10, <2>1 DEF Right
  <2>2. CASE k + 1 # n + 1
    <3>1. m = S[s][k + 1] /\ k + 1 \in 1..Len(S[s]) /\ k + 1 # k
      BY <1>5, <1>8, <2>2 DEF Right
    <3> QED BY <1>1, <1>4, <3>1 DEF Apart
  <2> QED BY <2>1, <2>2
<1>13. OStored(cell, cell', p, m, m, p, e, Null, Null)
  <2>1. /\ e \in OPlaces /\ e \in Before /\ e \in Behind /\ p \in OPlaces /\ m \in OPlaces
    BY <1>8, <1>9 DEF Before, Behind, OPlaces, Pseudo
  <2>2. /\ NextCell(p) # NextCell(e) /\ PrevCell(m) # PrevCell(e)
        /\ NextCell(p) # PrevCell(m) /\ NextCell(p) # PrevCell(e)
        /\ PrevCell(m) # NextCell(e) /\ NextCell(e) # PrevCell(e)
    BY <1>8, <1>9, <1>11, <1>12, <2>1, CellsDiffer
  <2>3. /\ NextCell(p) \in OCells /\ PrevCell(m) \in OCells
        /\ NextCell(e) \in OCells /\ PrevCell(e) \in OCells
    BY <2>1, OwnCells
  <2>4. cell' = [cell EXCEPT ![PrevCell(m)] = p, ![NextCell(p)] = m,
                             ![NextCell(e)] = Null, ![PrevCell(e)] = Null]
    BY <1>6, <1>7, OwnCells DEF ordered_elem_pop
  <2> QED BY <1>1, <2>2, <2>3, <2>4 DEF OStored, IsMap
<1>14. /\ Stores(ONext(cell), ONext(cell'), OPlaces, p, m, e, Null)
       /\ Stores(OPrev(cell), OPrev(cell'), OPlaces, m, p, e, Null)
  BY <1>8, <1>9, <1>11, <1>12, <1>13, OStores
<1>15. PICK T : T = Removed(S, s, k)
  OBVIOUS
<1>16. /\ T \in [OSets -> Seq(OElems)] /\ Apart(T, OSets)
       /\ \A t \in OSets, z \in OElems : On(T[t], z) <=> On(S[t], z) /\ z # e
  BY <1>1, <1>4, <1>15, ApartRemove
<1>17. OHead[s] = AtHead(s) /\ ODummy[s] = AtDummy(s)
  BY DEF OHead, ODummy
<1>18. Downs(T, OSets, ONext(cell'), OHead, ODummy)
  BY <1>1, <1>4, <1>8, <1>9, <1>14, <1>15, <1>17, OSetPlaces, DownsRemove
<1>19. Ups(T, OSets, OPrev(cell'), ODummy, OHead)
  BY <1>1, <1>4, <1>8, <1>9, <1>14, <1>15, <1>17, OSetPlaces, UpsRemove
<1>20. oset' = oset
  BY DEF ordered_elem_pop
<1>21. /\ \A t \in OSets : ONext(cell')[AtDummy(t)] = Null
       /\ \A z \in OElems : /\ ONext(cell')[z] # Null <=> \E t \in OSets : On(T[t], z)
                            /\ \A t \in OSets : On(T[t], z) => oset[z] = t
  <2>1. \A t \in OSets : ~On(T[t], e)
    BY <1>16
  <2>2. Stores(ONext(cell), ONext(cell'), OPlaces, p, m, e, Null)
    BY <1>14
  <2>3. \A z \in OElems, t \in OSets : z # e => (On(T[t], z) <=> On(S[t], z))
    BY <1>16
  <2>4. p \in OElems => \E t \in OSets : On(S[t], p)
    BY <1>11
  <2>5. OSetHolds(S, cell, oset)
    BY DEF OSetHas
  <2> QED BY <1>8, <1>9, <1>11, <2>1, <2>2, <2>3, <2>4, <2>5, OSetRest
<1>22. IsMap(cell', OCells)
  BY <1>13 DEF OStored
<1>23. OSetHolds(T, cell', oset')
  BY <1>1, <1>16, <1>18, <1>19, <1>20, <1>21, <1>22 DEF OSetHolds
<1> QED BY <1>4, <1>15, <1>23 DEF OSetHas

\* The reading routines, for any contents c of the cells.
FirstOf(c, s) == LET e == c[AtHead(s)] IN IF c[NextCell(e)] = Null THEN Null ELSE e
SuccessorOf(c, e) == LET n == c[Link("next", e)] IN IF c[NextCell(n)] = Null THEN Null ELSE n
PredecessorOf(c, e) == LET p == c[Link("prev", e)] IN IF c[PrevCell(p)] = Null THEN Null ELSE p

\* They show null instead of the pseudo-elements.
LEMMA OSetNeighbours ==
  ASSUME NEW S, NEW c, NEW os, OSetHolds(S, c, os), NEW s \in OSets
  PROVE  /\ FirstOf(c, s) = Right(S[s], Null, 1)
         /\ c[AtTail(s)] = Left(S[s], AtHead(s), Len(S[s]))
         /\ \A i \in 1..Len(S[s]) : /\ SuccessorOf(c, S[s][i]) = Right(S[s], Null, i + 1)
                                    /\ PredecessorOf(c, S[s][i]) = Left(S[s], Null, i - 1)
<1>1. S[s] \in Seq(OElems)
  BY OSetLinks
<1>2. PICK n \in Nat : n = Len(S[s]) /\ \A i \in 1..n : S[s][i] \in OElems
  BY <1>1, LenProperties, ElementOfSeq
<1>3. /\ AtHead(s) \in OPlaces /\ AtDummy(s) \in OPlaces /\ OElems \subseteq OPlaces
  BY DEF OPlaces, Pseudo
<1>4. \A x \in OPlaces : ONext(c)[x] = c[NextCell(x)] /\ OPrev(c)[x] = c[PrevCell(x)]
  BY DEF ONext, OPrev
<1>5. \A x \in OElems : NextCell(x) = Link("next", x) /\ PrevCell(x) = Link("prev", x)
  BY OwnCells
<1>6. c[AtDummy(s)] = Null
  BY <1>3, <1>4, OwnCells DEF OSetHolds
<1>7. \A i \in 0..n : /\ ONext(c)[Left(S[s], AtHead(s), i)] = Right(S[s], AtDummy(s), i + 1)
                      /\ OPrev(c)[Right(S[s], AtDummy(s), i + 1)] = Left(S[s], AtHead(s), i)
                      /\ Left(S[s], AtHead(s), i) # Null
  BY <1>2, OSetLinks, NoneNull
<1>8. ASSUME NEW i \in 1..(n + 1)
      PROVE  (IF c[NextCell(Right(S[s], AtDummy(s), i))] = Null THEN Null ELSE Right(S[s], AtDummy(s), i))
             = Right(S[s], Null, i)
  <2>1. CASE i = n + 1
    <3>1. Right(S[s], AtDummy(s), i) = AtDummy(s) /\ Right(S[s], Null, i) = Null
      BY <1>2, <2>1 DEF Right
    <3> QED BY <1>6, <3>1, OwnCells
  <2>2. CASE i # n + 1
    <3>1. /\ i \in 1..n /\ Right(S[s], AtDummy(s), i) = S[s][i] /\ Right(S[s], Null, i) = S[s][i]
          /\ S[s][i] \in OPlaces
      BY <1>2, <1>3, <2>2 DEF Right
    <3>2. ONext(c)[S[s][i]] # Null
      BY <1>2, <3>1 DEF OSetHolds, On
    <3> QED BY <1>4, <3>1, <3>2
  <2> QED BY <2>1, <2>2
<1>9. ASSUME NEW i \in 0..n
      PROVE  (IF c[PrevCell(Left(S[s], AtHead(s), i))] = Null THEN Null ELSE Left(S[s], AtHead(s), i))
             = Left(S[s], Null, i)
  <2>1. CASE i = 0
    <3>1. Left(S[s], AtHead(s), i) = AtHead(s) /\ Left(S[s], Null, i) = Null
      BY <2>1 DEF Left
    <3> QED BY <1>6, <3>1, OwnCells
  <2>2. CASE i # 0
    <3>1. /\ Left(S[s], AtHead(s), i) = S[s][i] /\ Left(S[s], Null, i) = S[s][i] /\ S[s][i] \in OPlaces
          /\ i - 1 \in 0..n /\ (i - 1) + 1 = i /\ i # n + 1
      BY <1>2, <1>3, <2>2 DEF Left
    <3>2. Right(S[s], AtDummy(s), i) = S[s][i]
      BY <1>2, <3>1 DEF Right
    <3>3. OPrev(c)[S[s][i]] # Null
      <4>1. OPrev(c)[Right(S[s], AtDummy(s), (i - 1) + 1)] = Left(S[s], AtHead(s), i - 1)
        BY <1>7, <3>1
      <4>2. Left(S[s], AtHead(s), i - 1) # Null
        BY <1>7, <3>1
      <4> QED BY <3>1, <3>2, <4>1, <4>2
    <3> QED BY <1>4, <3>1, <3>3
  <2> QED BY <2>1, <2>2
<1>10. FirstOf(c, s) = Right(S[s], Null, 1)
  <2>1. 0 \in 0..n /\ 0 + 1 = 1 /\ 1 \in 1..(n + 1) /\ Left(S[s], AtHead(s), 0) = AtHead(s)
    BY DEF Left
  <2>2. c[AtHead(s)] = Right(S[s], AtDummy(s), 1)
    <3>1. ONext(c)[Left(S[s], AtHead(s), 0)] = Right(S[s], AtDummy(s), 0 + 1)
      BY <1>7, <2>1
    <3> QED BY <1>3, <1>4, <2>1, <3>1, OwnCells
  <2> QED BY <1>8, <2>1, <2>2 DEF FirstOf
<1>11. c[AtTail(s)] = Left(S[s], AtHead(s), n)
  <2>1. n \in 0..n /\ Right(S[s], AtDummy(s), n + 1) = AtDummy(s)
    BY <1>2 DEF Right
  <2> QED BY <1>3, <1>4, <1>7, <2>1, OwnCells
<1>12. ASSUME NEW i \in 1..n
       PROVE  /\ SuccessorOf(c, S[s][i]) = Right(S[s], Null, i + 1)
              /\ PredecessorOf(c, S[s][i]) = Left(S[s], Null, i - 1)
  <2>1. /\ i \in 0..n /\ i + 1 \in 1..(n + 1) /\ i - 1 \in 0..n /\ (i - 1) + 1 = i /\ i # 0 /\ i # n + 1
        /\ S[s][i] \in OElems
    BY <1>2
  <2>2. Left(S[s], AtHead(s), i) = S[s][i] /\ Right(S[s], AtDummy(s), i) = S[s][i]
    BY <1>2, <2>1 DEF Left, Right
  <2>3. c[Link("next", S[s][i])] = Right(S[s], AtDummy(s), i + 1)
    BY <1>3, <1>4, <1>5, <1>7, <2>1, <2>2
  <2>4. c[Link("prev", S[s][i])] = Left(S[s], AtHead(s), i - 1)
    <3>1. OPrev(c)[Right(S[s], AtDummy(s), (i - 1) + 1)] = Left(S[s], AtHead(s), i - 1)
      BY <1>7, <2>1
    <3> QED BY <1>3, <1>4, <1>5, <2>1, <2>2, <3>1
  <2>5. SuccessorOf(c, S[s][i]) = Right(S[s], Null, i + 1)
    BY <1>8, <2>1, <2>3 DEF SuccessorOf
  <2>6. PredecessorOf(c, S[s][i]) = Left(S[s], Null, i - 1)
    BY <1>9, <2>1, <2>4 DEF PredecessorOf
  <2> QED BY <2>5, <2>6
<1> QED BY <1>2, <1>10, <1>11, <1>12

\* What the walks with successors and with predecessors meet.
ForwardOf(c, s) == Follow(FirstOf(c, s), [e \in OElems |-> SuccessorOf(c, e)], Null, Cardinality(OElems))
BackwardOf(c, s) == Follow(c[AtTail(s)], [e \in OElems |-> PredecessorOf(c, e)], Null, Cardinality(OElems))

LEMMA OSetReads ==
  ASSUME NEW S, NEW c, NEW os, OSetHolds(S, c, os), NEW s \in OSets
  PROVE  /\ ForwardOf(c, s) = S[s]
         /\ c[AtTail(s)] = AtHead(s) <=> S[s] = <<>>
         /\ c[AtTail(s)] # AtHead(s) => BackwardOf(c, s) = Reverse(S[s])
<1>1. S[s] \in Seq(OElems) /\ \A i, j \in 1..Len(S[s]) : S[s][i] = S[s][j] => i = j
  BY OSetLinks DEF OSetHolds, Apart
<1>2. PICK n \in Nat : n = Len(S[s]) /\ \A i \in 1..n : S[s][i] \in OElems
  BY <1>1, LenProperties, ElementOfSeq
<1>3. Null \notin OElems /\ IsFiniteSet(OElems) /\ AtHead(s) \notin OElems /\ AtDummy(s) \notin OElems
  BY OSetAssumption DEF Pseudo
<1>4. PICK N : N = [x \in OElems \cup {AtHead(s)} |->
                      IF x = AtHead(s) THEN FirstOf(c, s) ELSE SuccessorOf(c, x)]
  OBVIOUS
<1>5. Down(S[s], N, AtHead(s), Null)
  <2> SUFFICES ASSUME NEW i \in 0..n
               PROVE  N[Left(S[s], AtHead(s), i)] = Right(S[s], Null, i + 1)
    BY <1>2 DEF Down
  <2>1. CASE i = 0
    <3>1. Left(S[s], AtHead(s), i) = AtHead(s) /\ i + 1 = 1
      BY <2>1 DEF Left
    <3> QED BY <1>4, <3>1, OSetNeighbours
  <2>2. CASE i # 0
    <3>1. i \in 1..n /\ Left(S[s], AtHead(s), i) = S[s][i] /\ S[s][i] \in OElems
      BY <1>2, <2>2 DEF Left
    <3> QED BY <1>2, <1>3, <1>4, <3>1, OSetNeighbours
  <2> QED BY <2>1, <2>2
<1>6. PICK P : P = [x \in OElems \cup {AtDummy(s)} |->
                      IF x = AtDummy(s) THEN Left(S[s], Null, n) ELSE PredecessorOf(c, x)]
  OBVIOUS
<1>7. Up(S[s], P, AtDummy(s), Null)
  <2> SUFFICES ASSUME NEW i \in 0..n
               PROVE  P[Right(S[s], AtDummy(s), i + 1)] = Left(S[s], Null, i)
    BY <1>2 DEF Up
  <2>1. CASE i = n
    <3>1. Right(S[s], AtDummy(s), i + 1) = AtDummy(s)
      BY <1>2, <2>1 DEF Right
    <3> QED BY <1>6, <2>1, <3>1
  <2>2. CASE i # n
    <3>1. /\ i + 1 \in 1..n /\ (i + 1) - 1 = i /\ Right(S[s], AtDummy(s), i + 1) = S[s][i + 1]
          /\ S[s][i + 1] \in OElems
      BY <1>2, <2>2 DEF Right
    <3>2. PredecessorOf(c, S[s][i + 1]) = Left(S[s], Null, (i + 1) - 1)
      BY <1>2, <3>1, OSetNeighbours
    <3> QED BY <1>3, <1>6, <3>1, <3>2
  <2> QED BY <2>1, <2>2
<1>8. ForwardOf(c, s) = S[s]
  <2>1. PICK next : next = [e \in OElems |-> SuccessorOf(c, e)]
    OBVIOUS
  <2>2. \A x \in OElems : next[x] = N[x]
    BY <1>3, <1>4, <2>1
  <2>3. N[AtHead(s)] = FirstOf(c, s)
    BY <1>4
  <2>4. Follow(N[AtHead(s)], next, Null, Cardinality(OElems)) = S[s]
    BY <1>1, <1>3, <1>5, <2>2, ReadDown
  <2> QED BY <2>1, <2>3, <2>4 DEF ForwardOf
<1>9. c[AtTail(s)] = Left(S[s], AtHead(s), n)
  BY <1>2, OSetNeighbours
<1>10. c[AtTail(s)] = AtHead(s) <=> n = 0
  <2>1. n # 0 => n \in 1..n
    OBVIOUS
  <2> QED BY <1>2, <1>3, <1>9, <2>1 DEF Left
<1>11. n = 0 <=> S[s] = <<>>
  BY <1>1, <1>2, EmptySeq
<1>12. ASSUME n # 0 PROVE BackwardOf(c, s) = Reverse(S[s])
  <2>1. PICK prev : prev = [e \in OElems |-> PredecessorOf(c, e)]
    OBVIOUS
  <2>2. \A x \in OElems : prev[x] = P[x]
    BY <1>3, <1>6, <2>1
  <2>3. P[AtDummy(s)] = c[AtTail(s)]
    BY <1>6, <1>9, <1>12 DEF Left
  <2>4. Follow(P[AtDummy(s)], prev, Null, Cardinality(OElems)) = Reverse(S[s])
    BY <1>1, <1>3, <1>7, <2>2, ReadUp
  <2> QED BY <2>1, <2>3, <2>4 DEF BackwardOf
<1> QED BY <1>8, <1>10, <1>11, <1>12

LEMMA OSetSequences ==
  ASSUME NEW S, NEW c, NEW os, OSetHolds(S, c, os)
  PROVE  [s \in OSets |-> ForwardOf(c, s)] = S
<1>1. S = [s \in OSets |-> S[s]]
  BY DEF OSetHolds
<1> QED BY <1>1, OSetReads

LEMMA OSetWalks ==
  /\ \A s : OForward(s) = ForwardOf(cell, s)
  /\ \A s : OBackward(s) = IF cell[AtTail(s)] = AtHead(s) THEN <<>> ELSE BackwardOf(cell, s)
<1>1. /\ \A s : ordered_set_get_head(s) = FirstOf(cell, s)
      /\ \A e : /\ ordered_elem_get_successor(e) = SuccessorOf(cell, e)
                /\ ordered_elem_get_predecessor(e) = PredecessorOf(cell, e)
  BY DEF ordered_set_get_head, ordered_elem_get_successor, ordered_elem_get_predecessor,
         FirstOf, SuccessorOf, PredecessorOf
<1>2. /\ [e \in OElems |-> ordered_elem_get_successor(e)] = [e \in OElems |-> SuccessorOf(cell, e)]
      /\ [e \in OElems |-> ordered_elem_get_predecessor(e)] = [e \in OElems |-> PredecessorOf(cell, e)]
  BY <1>1
<1> QED BY <1>1, <1>2 DEF OForward, OBackward, ForwardOf, BackwardOf, Limit

\* ordered_set_init: the sets start empty.
LEMMA OSetStarts ==
  ASSUME OSetInit
  PROVE  OSetHas([s \in OSets |-> <<>>])
<1>1. PICK S : S = [s \in OSets |-> <<>>]
  OBVIOUS
<1>2. S \in [OSets -> Seq(OElems)] /\ \A s \in OSets : Len(S[s]) = 0
  BY <1>1, EmptySeq
<1>3. Apart(S, OSets) /\ \A s \in OSets, e \in OElems : ~On(S[s], e)
  BY <1>2 DEF Apart, On
<1>4. IsMap(cell, OCells) /\ IsMap(oset, OElems)
  BY DEF OSetInit, IsMap
<1>5. /\ \A x \in OPlaces : /\ NextCell(x) \in OCells /\ PrevCell(x) \in OCells
                            /\ ONext(cell)[x] = cell[NextCell(x)] /\ OPrev(cell)[x] = cell[PrevCell(x)]
      /\ \A s \in OSets : AtHead(s) \in OPlaces /\ AtDummy(s) \in OPlaces
      /\ \A e \in OElems : e \in OPlaces
  BY OwnCells DEF ONext, OPrev, OPlaces, Pseudo
<1>6. \A s \in OSets : /\ AtHead(s)[1] = "head" /\ AtHead(s)[2] = s
                       /\ AtDummy(s)[1] = "dummy" /\ AtTail(s)[1] = "tail" /\ AtTail(s)[2] = s
  BY DEF AtHead, AtDummy, AtTail
<1>7. \A e \in OElems : Link("next", e)[1] = "next"
  BY DEF Link
<1>8. \A z \in OCells : cell[z] = CASE z[1] = "head" -> AtDummy(z[2])
                                    [] z[1] = "tail" -> AtHead(z[2]) [] OTHER -> Null
  BY DEF OSetInit
<1>9. ASSUME NEW s \in OSets
      PROVE  /\ ONext(cell)[AtHead(s)] = AtDummy(s) /\ OPrev(cell)[AtDummy(s)] = AtHead(s)
             /\ ONext(cell)[AtDummy(s)] = Null
  <2>1. AtHead(s) \in OCells /\ AtDummy(s) \in OCells /\ AtTail(s) \in OCells
    BY DEF OCells, Pseudo
  <2>2. cell[AtHead(s)] = AtDummy(s) /\ cell[AtTail(s)] = AtHead(s) /\ cell[AtDummy(s)] = Null
    BY <1>6, <1>8, <2>1
  <2> QED BY <1>5, <2>2, OwnCells
<1>10. ASSUME NEW e \in OElems PROVE ONext(cell)[e] = Null
  <2>1. Link("next", e) \in OCells
    BY <1>5, OwnCells
  <2>2. cell[Link("next", e)] = Null
    BY <1>7, <1>8, <2>1
  <2> QED BY <1>5, <2>2, OwnCells
<1>11. ASSUME NEW s \in OSets
       PROVE  /\ Down(S[s], ONext(cell), AtHead(s), AtDummy(s))
              /\ Up(S[s], OPrev(cell), AtDummy(s), AtHead(s))
  <2> SUFFICES ASSUME NEW i \in 0..Len(S[s])
               PROVE  /\ ONext(cell)[Left(S[s], AtHead(s), i)] = Right(S[s], AtDummy(s), i + 1)
                      /\ OPrev(cell)[Right(S[s], AtDummy(s), i + 1)] = Left(S[s], AtHead(s), i)
    BY DEF Down, Up
  <2>1. i = 0 /\ i + 1 = Len(S[s]) + 1
    BY <1>2
  <2> QED BY <1>9, <2>1 DEF Left, Right
<1>12. Downs(S, OSets, ONext(cell), OHead, ODummy) /\ Ups(S, OSets, OPrev(cell), ODummy, OHead)
  BY <1>11 DEF Downs, Ups, OHead, ODummy
<1> QED BY <1>1, <1>2, <1>3, <1>4, <1>9, <1>10, <1>12 DEF OSetHas, OSetHolds

LEMMA OSetStepHolds ==
  ASSUME NEW S, OSetHas(S), OSetNext
  PROVE  \E T : OSetHas(T)' /\ SeqStep(S, T, OSets, OElems)
<1>1. CASE \E e \in OElems : ordered_elem_pop(e)
  BY <1>1, OSetPops DEF SeqStep
<1>2. CASE \E e \in OElems, s \in OSets : ordered_elem_push_into(e, s)
  <2>1. PICK e \in OElems, s \in OSets : ordered_elem_push_into(e, s)
    BY <1>2
  <2>2. 1 \in 1..(Len(S[s]) + 1)
    BY OSetLinks DEF OSetHas
  <2>3. (\A t \in OSets : ~On(S[t], e)) /\ OSetHas(Inserted(S, s, 1, e))'
    BY <2>1, OSetPushes
  <2> QED BY <2>2, <2>3 DEF SeqStep
<1> QED BY <1>1, <1>2 DEF OSetNext

LEMMA OSetWellLinkedHolds ==
  ASSUME NEW S, OSetHas(S)
  PROVE  OSetWellLinked
<1>1. ASSUME NEW s \in OSets
      PROVE  /\ S[s] \in Seq(OElems) /\ OForward(s) = S[s] /\ OBackward(s) = Reverse(S[s])
             /\ cell[AtDummy(s)] = Null
  <2>1. S[s] \in Seq(OElems)
    BY DEF OSetHas, OSetHolds
  <2>2. AtDummy(s) \in OPlaces
    BY DEF OPlaces, Pseudo
  <2>3. Reverse(<<>>) = <<>>
    BY DEF Reverse
  <2>4. cell[AtDummy(s)] = Null
    BY <2>2, OwnCells DEF OSetHas, OSetHolds, ONext
  <2> QED BY <2>1, <2>3, <2>4, OSetReads, OSetWalks DEF OSetHas
<1>2. ASSUME NEW s \in OSets
      PROVE  Range(S[s]) = {e \in OElems : oset[e] = s /\ cell[Link("next", e)] # Null}
  <2>1. \A e : e \in Range(S[s]) <=> On(S[s], e)
    BY <1>1, RangeIsOn
  <2>2. \A e : On(S[s], e) => e \in OElems
    BY <1>1, ElementOfSeq DEF On
  <2>3. \A e \in OElems : ONext(cell)[e] = cell[Link("next", e)]
    BY OwnCells DEF ONext, OPlaces
  <2>4. \A e \in OElems : On(S[s], e) <=> oset[e] = s /\ cell[Link("next", e)] # Null
    BY <2>3 DEF OSetHas, OSetHolds
  <2> QED BY <2>1, <2>2, <2>4
<1> QED BY <1>1, <1>2 DEF OSetWellLinked

\* Pushing and popping put one element in or take one out of one set.
LEMMA OSetStepImplements ==
  ASSUME NEW S \in [OSets -> Seq(OElems)], NEW T, SeqStep(S, T, OSets, OElems),
         [s \in OSets |-> OForward(s)] = S, [s \in OSets |-> OForward(s)]' = T
  PROVE  UNCHANGED [s \in OSets |-> OForward(s)] \/ OSetSeqs!Next
<1>2. \A s, k, e : OSetSeqs!InsertAt(s, k, e) = InsertAt(s, k, e)
  BY DEF OSetSeqs!InsertAt, InsertAt
<1>3. \A s, k : OSetSeqs!RemoveAt(s, k) = RemoveAt(s, k)
  BY DEF OSetSeqs!RemoveAt, RemoveAt
<1>4. CASE T = S
  BY <1>4
<1>5. CASE \E l \in OSets : T = Cleared(S, l)
  <2>1. PICK l \in OSets : T = Cleared(S, l)
    BY <1>5
  <2>2. OSetSeqs!Clear(l)
    BY <2>1 DEF OSetSeqs!Clear, Cleared
  <2> QED BY <2>2 DEF OSetSeqs!Next
<1>6. CASE \E l \in OSets : \E k \in 1..(Len(S[l]) + 1), e \in OElems :
             (\A m \in OSets : ~On(S[m], e)) /\ T = Inserted(S, l, k, e)
  <2>1. PICK l \in OSets : \E k \in 1..(Len(S[l]) + 1), e \in OElems :
             (\A m \in OSets : ~On(S[m], e)) /\ T = Inserted(S, l, k, e)
    BY <1>6
  <2>2. PICK k \in 1..(Len(S[l]) + 1), e \in OElems :
             (\A m \in OSets : ~On(S[m], e)) /\ T = Inserted(S, l, k, e)
    BY <2>1
  <2>3. \A m \in OSets : e \notin OSetSeqs!Range(S[m])
    <3>1. \A m \in OSets : OSetSeqs!Range(S[m]) = Range(S[m])
      BY DEF OSetSeqs!Range, Range
    <3> QED BY <2>2, <3>1, RangeIsOn
  <2>4. e \notin OSetSeqs!Members
    BY <2>3 DEF OSetSeqs!Members
  <2>5. T = [S EXCEPT ![l] = OSetSeqs!InsertAt(@, k, e)]
    BY <1>2, <2>2 DEF Inserted
  <2>6. OSetSeqs!Insert(l, k, e)
    BY <2>2, <2>4, <2>5 DEF OSetSeqs!Insert
  <2> QED BY <2>2, <2>6 DEF OSetSeqs!Next
<1>7. CASE \E l \in OSets : \E k \in 1..Len(S[l]) :
             T = Removed(S, l, k) \/ T = Inserted(Removed(S, l, k), l, 1, S[l][k])
  <2>1. PICK l \in OSets : \E k \in 1..Len(S[l]) :
             T = Removed(S, l, k) \/ T = Inserted(Removed(S, l, k), l, 1, S[l][k])
    BY <1>7
  <2>2. PICK k \in 1..Len(S[l]) :
             T = Removed(S, l, k) \/ T = Inserted(Removed(S, l, k), l, 1, S[l][k])
    BY <2>1
  <2>3. Removed(S, l, k) = [S EXCEPT ![l] = OSetSeqs!RemoveAt(@, k)]
    BY <1>3 DEF Removed
  <2>4. Inserted(Removed(S, l, k), l, 1, S[l][k])
        = [S EXCEPT ![l] = OSetSeqs!InsertAt(OSetSeqs!RemoveAt(@, k), 1, S[l][k])]
    BY <1>2, <1>3 DEF Removed, Inserted
  <2>5. OSetSeqs!Take(l, k) \/ OSetSeqs!ToFront(l, k)
    BY <2>2, <2>3, <2>4 DEF OSetSeqs!Take, OSetSeqs!ToFront
  <2> QED BY <2>5 DEF OSetSeqs!Next
<1> QED BY <1>4, <1>5, <1>6, <1>7 DEF SeqStep

-----------------------------------------------------------------------------
(* The stacks of items with one link.                                      *)

StackLinks(tp, fn) == [x \in FItems \cup FStacks |-> IF x \in FStacks THEN tp[x] ELSE fn[x]]
StackEnds == [s \in FStacks |-> Null]

\* The inductive invariant: the links hold sequences S.  What the link of an
\* item on no stack is does not matter.
StackHolds(S, tp, fn) ==
  /\ S \in [FStacks -> Seq(FItems)] /\ Apart(S, FStacks)
  /\ IsMap(tp, FStacks) /\ IsMap(fn, FItems)
  /\ Downs(S, FStacks, StackLinks(tp, fn), Self(FStacks), StackEnds)

StackHas(S) == StackHolds(S, top, fnext)
StackInv == \E S : StackHas(S)

LEMMA StackPlaces == LinkPlaces(Self(FStacks), FStacks, FItems, FItems \cup FStacks)
BY OSetAssumption DEF LinkPlaces, Heading, Self

LEMMA StackReads ==
  ASSUME NEW S, NEW tp, NEW fn, StackHolds(S, tp, fn), NEW s \in FStacks
  PROVE  Follow(tp[s], fn, Null, Cardinality(FItems)) = S[s]
<1>1. S[s] \in Seq(FItems) /\ \A i, j \in 1..Len(S[s]) : S[s][i] = S[s][j] => i = j
  BY DEF StackHolds, Apart
<1>2. Down(S[s], StackLinks(tp, fn), s, Null)
  BY DEF StackHolds, Downs, Self, StackEnds
<1>3. Null \notin FItems /\ IsFiniteSet(FItems)
  BY OSetAssumption
<1>4. (\A x \in FItems : fn[x] = StackLinks(tp, fn)[x]) /\ tp[s] = StackLinks(tp, fn)[s]
  BY OSetAssumption DEF StackLinks
<1>5. Follow(StackLinks(tp, fn)[s], fn, Null, Cardinality(FItems)) = S[s]
  BY <1>1, <1>2, <1>3, <1>4, ReadDown
<1> QED BY <1>4, <1>5

LEMMA StackSequences ==
  ASSUME NEW S, NEW tp, NEW fn, StackHolds(S, tp, fn)
  PROVE  [s \in FStacks |-> Follow(tp[s], fn, Null, Cardinality(FItems))] = S
<1>1. S = [s \in FStacks |-> S[s]]
  BY DEF StackHolds
<1> QED BY <1>1, StackReads

\* Where the links of a stack lead.
LEMMA StackChain ==
  ASSUME NEW S, NEW tp, NEW fn, StackHolds(S, tp, fn), NEW s \in FStacks
  PROVE  /\ Len(S[s]) \in Nat /\ S[s] \in Seq(FItems)
         /\ tp[s] = Right(S[s], Null, 1)
         /\ \A i \in 1..Len(S[s]) : S[s][i] \in FItems /\ fn[S[s][i]] = Right(S[s], Null, i + 1)
<1>1. S[s] \in Seq(FItems)
  BY DEF StackHolds
<1>2. PICK n \in Nat : n = Len(S[s]) /\ \A i \in 1..n : S[s][i] \in FItems
  BY <1>1, LenProperties, ElementOfSeq
<1>3. \A i \in 0..n : StackLinks(tp, fn)[Left(S[s], s, i)] = Right(S[s], Null, i + 1)
  BY <1>2 DEF StackHolds, Downs, Down, Self, StackEnds
<1>4. tp[s] = Right(S[s], Null, 1)
  <2>1. 0 \in 0..n /\ 0 + 1 = 1 /\ Left(S[s], s, 0) = s
    BY DEF Left
  <2>2. StackLinks(tp, fn)[s] = tp[s]
    BY DEF StackLinks
  <2> QED BY <1>3, <2>1, <2>2
<1>5. ASSUME NEW i \in 1..n PROVE fn[S[s][i]] = Right(S[s], Null, i + 1)
  <2>1. i \in 0..n /\ i # 0 /\ S[s][i] \in FItems
    BY <1>2
  <2>2. Left(S[s], s, i) = S[s][i]
    BY <2>1 DEF Left
  <2>3. StackLinks(tp, fn)[S[s][i]] = fn[S[s][i]]
    BY <2>1, OSetAssumption DEF StackLinks
  <2> QED BY <1>3, <2>1, <2>2, <2>3
<1> QED BY <1>1, <1>2, <1>4, <1>5

\* A store into the top of a stack and one into an item.
StackStored(tp, fn, tp2, fn2, s, v, i, w) ==
  tp2 = [tp EXCEPT ![s] = v] /\ IsMap(fn2, FItems) /\ \A x \in FItems : fn2[x] = IF x = i THEN w ELSE fn[x]

LEMMA StackStores ==
  ASSUME NEW tp, NEW fn, IsMap(tp, FStacks), NEW tp2, NEW fn2, NEW s \in FStacks, NEW v,
         NEW i \in FItems, NEW w, StackStored(tp, fn, tp2, fn2, s, v, i, w)
  PROVE  /\ IsMap(tp2, FStacks)
         /\ Stores(StackLinks(tp, fn), StackLinks(tp2, fn2), FItems \cup FStacks, s, v, i, w)
<1>1. IsMap(tp2, FStacks) /\ \A x \in FStacks : tp2[x] = IF x = s THEN v ELSE tp[x]
  BY DEF StackStored, IsMap
<1>2. \A x \in FItems : fn2[x] = IF x = i THEN w ELSE fn[x]
  BY DEF StackStored
<1> QED BY <1>1, <1>2, OSetAssumption DEF Stores, StackLinks

\* fixed_stack_init.
LEMMA StackStarts ==
  ASSUME StackInit
  PROVE  StackHas([s \in FStacks |-> <<>>])
<1>1. PICK S : S = [s \in FStacks |-> <<>>]
  OBVIOUS
<1>2. S \in [FStacks -> Seq(FItems)] /\ \A s \in FStacks : Len(S[s]) = 0
  BY <1>1, EmptySeq
<1>3. Apart(S, FStacks)
  BY <1>2 DEF Apart
<1>4. \A s \in FStacks : StackLinks(top, fnext)[s] = Null
  BY DEF StackInit, StackLinks
<1>5. ASSUME NEW s \in FStacks PROVE Down(S[s], StackLinks(top, fnext), s, Null)
  <2> SUFFICES ASSUME NEW i \in 0..Len(S[s])
               PROVE  StackLinks(top, fnext)[Left(S[s], s, i)] = Right(S[s], Null, i + 1)
    BY DEF Down
  <2>1. i = 0 /\ i + 1 = Len(S[s]) + 1
    BY <1>2
  <2> QED BY <1>4, <2>1 DEF Left, Right
<1>6. Downs(S, FStacks, StackLinks(top, fnext), Self(FStacks), StackEnds)
  BY <1>5 DEF Downs, Self, StackEnds
<1>7. IsMap(top, FStacks) /\ IsMap(fnext, FItems)
  BY DEF StackInit, IsMap
<1> QED BY <1>1, <1>2, <1>3, <1>6, <1>7 DEF StackHas, StackHolds

LEMMA StackPushes ==
  ASSUME NEW S, StackHas(S), NEW s \in FStacks, NEW i \in FItems, fixed_stack_push(s, i)
  PROVE  /\ 1 \in 1..(Len(S[s]) + 1) /\ \A t \in FStacks : ~On(S[t], i)
         /\ StackHas(Inserted(S, s, 1, i))'
<1>1. /\ S \in [FStacks -> Seq(FItems)] /\ Apart(S, FStacks) /\ IsMap(top, FStacks) /\ IsMap(fnext, FItems)
      /\ Downs(S, FStacks, StackLinks(top, fnext), Self(FStacks), StackEnds)
  BY DEF StackHas, StackHolds
<1>2. 1 \in 1..(Len(S[s]) + 1)
  BY StackChain DEF StackHas
<1>3. ASSUME NEW t \in FStacks PROVE ~On(S[t], i)
  <2>1. fixed_stack_contains(t) = S[t]
    BY StackReads DEF StackHas, fixed_stack_contains
  <2>2. i \notin Range(S[t])
    BY <2>1 DEF fixed_stack_push
  <2> QED BY <1>1, <2>2, RangeIsOn
<1>4. top[s] = Right(S[s], Null, 1)
  BY StackChain DEF StackHas
<1>5. StackStored(top, fnext, top', fnext', s, i, i, top[s]) /\ IsMap(fnext', FItems)
  BY <1>1 DEF fixed_stack_push, StackStored, IsMap
<1>6. IsMap(top', FStacks)
      /\ Stores(StackLinks(top, fnext), StackLinks(top', fnext'), FItems \cup FStacks, s, i, i, top[s])
  BY <1>1, <1>5, StackStores
<1>7. PICK T : T = Inserted(S, s, 1, i)
  OBVIOUS
<1>8. T \in [FStacks -> Seq(FItems)] /\ Apart(T, FStacks)
  BY <1>1, <1>2, <1>3, <1>7, ApartInsert
<1>9. Left(S[s], Self(FStacks)[s], 1 - 1) = s /\ Right(S[s], StackEnds[s], 1) = top[s]
  BY <1>4 DEF Left, Self, StackEnds
<1>10. Downs(T, FStacks, StackLinks(top', fnext'), Self(FStacks), StackEnds)
  BY <1>1, <1>2, <1>3, <1>6, <1>7, <1>9, StackPlaces, DownsInsert DEF Unlisted
<1>11. StackHolds(T, top', fnext')
  BY <1>5, <1>6, <1>8, <1>10 DEF StackHolds
<1> QED BY <1>2, <1>3, <1>7, <1>11 DEF StackHas

LEMMA StackPops ==
  ASSUME NEW S, StackHas(S), NEW s \in FStacks, fixed_stack_pop(s)
  PROVE  1 \in 1..Len(S[s]) /\ StackHas(Removed(S, s, 1))'
<1>1. /\ S \in [FStacks -> Seq(FItems)] /\ Apart(S, FStacks) /\ IsMap(top, FStacks) /\ IsMap(fnext, FItems)
      /\ Downs(S, FStacks, StackLinks(top, fnext), Self(FStacks), StackEnds)
  BY DEF StackHas, StackHolds
<1>2. PICK n \in Nat : n = Len(S[s])
  BY StackChain DEF StackHas
<1>3. top[s] = Right(S[s], Null, 1) /\ top[s] # Null
  BY StackChain DEF StackHas, fixed_stack_pop
<1>4. 1 # n + 1 /\ top[s] = S[s][1]
  BY <1>2, <1>3 DEF Right
<1>5. 1 \in 1..n /\ 1 \in 1..Len(S[s])
  BY <1>2, <1>4
<1>6. PICK i \in FItems : i = top[s] /\ i = S[s][1] /\ fnext[i] = Right(S[s], Null, 1 + 1)
  BY <1>4, <1>5, StackChain DEF StackHas
<1>7. StackStored(top, fnext, top', fnext', s, fnext[i], i, fnext[i]) /\ fnext' = fnext
  BY <1>1, <1>6 DEF fixed_stack_pop, StackStored
<1>8. IsMap(top', FStacks)
      /\ Stores(StackLinks(top, fnext), StackLinks(top', fnext'), FItems \cup FStacks, s, fnext[i], i, fnext[i])
  BY <1>1, <1>7, StackStores
<1>9. PICK T : T = Removed(S, s, 1)
  OBVIOUS
<1>10. T \in [FStacks -> Seq(FItems)] /\ Apart(T, FStacks)
  BY <1>1, <1>5, <1>9, ApartRemove
<1>11. Left(S[s], Self(FStacks)[s], 1 - 1) = s /\ Right(S[s], StackEnds[s], 1 + 1) = fnext[i]
  BY <1>6 DEF Left, Self, StackEnds
<1>12. Downs(T, FStacks, StackLinks(top', fnext'), Self(FStacks), StackEnds)
  <2>1. Stores(StackLinks(top, fnext), StackLinks(top', fnext'), FItems \cup FStacks,
               Left(S[s], Self(FStacks)[s], 1 - 1), Right(S[s], StackEnds[s], 1 + 1), S[s][1], fnext[i])
    BY <1>6, <1>8, <1>11
  <2> QED BY <1>1, <1>5, <1>9, <2>1, StackPlaces, DownsRemove
<1>13. StackHolds(T, top', fnext')
  BY <1>1, <1>7, <1>8, <1>10, <1>12 DEF StackHolds
<1> QED BY <1>5, <1>9, <1>13 DEF StackHas

LEMMA StackStepHolds ==
  ASSUME NEW S, StackHas(S), StackNext
  PROVE  \E T : StackHas(T)' /\ SeqStep(S, T, FStacks, FItems)
<1>1. CASE \E s \in FStacks : fixed_stack_pop(s)
  BY <1>1, StackPops DEF SeqStep
<1>2. CASE \E s \in FStacks, i \in FItems : fixed_stack_push(s, i)
  BY <1>2, StackPushes DEF SeqStep
<1> QED BY <1>1, <1>2 DEF StackNext

\* Pushing and popping put one item on or take one off the top of one stack.
LEMMA StackStepImplements ==
  ASSUME NEW S \in [FStacks -> Seq(FItems)], NEW T, SeqStep(S, T, FStacks, FItems),
         [s \in FStacks |-> fixed_stack_contains(s)] = S, [s \in FStacks |-> fixed_stack_contains(s)]' = T
  PROVE  UNCHANGED [s \in FStacks |-> fixed_stack_contains(s)] \/ StackSeqs!Next
<1>2. \A s, k, e : StackSeqs!InsertAt(s, k, e) = InsertAt(s, k, e)
  BY DEF StackSeqs!InsertAt, InsertAt
<1>3. \A s, k : StackSeqs!RemoveAt(s, k) = RemoveAt(s, k)
  BY DEF StackSeqs!RemoveAt, RemoveAt
<1>4. CASE T = S
  BY <1>4
<1>5. CASE \E l \in FStacks : T = Cleared(S, l)
  <2>1. PICK l \in FStacks : T = Cleared(S, l)
    BY <1>5
  <2>2. StackSeqs!Clear(l)
    BY <2>1 DEF StackSeqs!Clear, Cleared
  <2> QED BY <2>2 DEF StackSeqs!Next
<1>6. CASE \E l \in FStacks : \E k \in 1..(Len(S[l]) + 1), e \in FItems :
             (\A m \in FStacks : ~On(S[m], e)) /\ T = Inserted(S, l, k, e)
  <2>1. PICK l \in FStacks : \E k \in 1..(Len(S[l]) + 1), e \in FItems :
             (\A m \in FStacks : ~On(S[m], e)) /\ T = Inserted(S, l, k, e)
    BY <1>6
  <2>2. PICK k \in 1..(Len(S[l]) + 1), e \in FItems :
             (\A m \in FStacks : ~On(S[m], e)) /\ T = Inserted(S, l, k, e)
    BY <2>1
  <2>3. \A m \in FStacks : e \notin StackSeqs!Range(S[m])
    <3>1. \A m \in FStacks : StackSeqs!Range(S[m]) = Range(S[m])
      BY DEF StackSeqs!Range, Range
    <3> QED BY <2>2, <3>1, RangeIsOn
  <2>4. e \notin StackSeqs!Members
    BY <2>3 DEF StackSeqs!Members
  <2>5. T = [S EXCEPT ![l] = StackSeqs!InsertAt(@, k, e)]
    BY <1>2, <2>2 DEF Inserted
  <2>6. StackSeqs!Insert(l, k, e)
    BY <2>2, <2>4, <2>5 DEF StackSeqs!Insert
  <2> QED BY <2>2, <2>6 DEF StackSeqs!Next
<1>7. CASE \E l \in FStacks : \E k \in 1..Len(S[l]) :
             T = Removed(S, l, k) \/ T = Inserted(Removed(S, l, k), l, 1, S[l][k])
  <2>1. PICK l \in FStacks : \E k \in 1..Len(S[l]) :
             T = Removed(S, l, k) \/ T = Inserted(Removed(S, l, k), l, 1, S[l][k])
    BY <1>7
  <2>2. PICK k \in 1..Len(S[l]) :
             T = Removed(S, l, k) \/ T = Inserted(Removed(S, l, k), l, 1, S[l][k])
    BY <2>1
  <2>3. Removed(S, l, k) = [S EXCEPT ![l] = StackSeqs!RemoveAt(@, k)]
    BY <1>3 DEF Removed
  <2>4. Inserted(Removed(S, l, k), l, 1, S[l][k])
        = [S EXCEPT ![l] = StackSeqs!InsertAt(StackSeqs!RemoveAt(@, k), 1, S[l][k])]
    BY <1>2, <1>3 DEF Removed, Inserted
  <2>5. StackSeqs!Take(l, k) \/ StackSeqs!ToFront(l, k)
    BY <2>2, <2>3, <2>4 DEF StackSeqs!Take, StackSeqs!ToFront
  <2> QED BY <2>5 DEF StackSeqs!Next
<1> QED BY <1>4, <1>5, <1>6, <1>7 DEF SeqStep

-----------------------------------------------------------------------------
(* The theorems.                                                           *)

\* The links of the lists of dllist.c, shmqueue.c and oset.c, of any number of
\* lists and elements, agree in both directions and with what every element
\* says of the list it is on, whatever the order of the calls.
THEOREM ListsAreWellLinked == Spec => []ListsWellLinked
<1>1. Init => DlInv /\ QueueInv /\ OSetInv
  BY DlStarts, QueueStarts, OSetStarts DEF Init, DlInv, QueueInv, OSetInv
<1>2. DlInv /\ [Next]_vars => DlInv'
  <2> SUFFICES ASSUME DlInv, [Next]_vars PROVE DlInv'
    OBVIOUS
  <2>1. PICK S : DlHas(S)
    BY DEF DlInv
  <2>2. DlNext \/ UNCHANGED dlVars
    BY DEF Next, vars
  <2>3. CASE DlNext
    <3>1. PICK T : DlHas(T)'
      BY <2>1, <2>3, DlStepHolds
    <3> QED BY <3>1 DEF DlInv
  <2>4. CASE UNCHANGED dlVars
    <3>1. DlHas(S)'
      BY <2>1, <2>4 DEF dlVars, DlHas
    <3> QED BY <3>1 DEF DlInv
  <2> QED BY <2>2, <2>3, <2>4
<1>3. QueueInv /\ [Next]_vars => QueueInv'
  <2> SUFFICES ASSUME QueueInv, [Next]_vars PROVE QueueInv'
    OBVIOUS
  <2>1. PICK S : QueueHolds(S, qnext, qprev)
    BY DEF QueueInv
  <2>2. QueueNext \/ UNCHANGED queueVars
    BY DEF Next, vars
  <2>3. CASE QueueNext
    <3>1. PICK T : QueueHolds(T, qnext', qprev')
      BY <2>1, <2>3, QueueStepHolds
    <3> QED BY <3>1 DEF QueueInv
  <2>4. CASE UNCHANGED queueVars
    <3>1. QueueHolds(S, qnext', qprev')
      BY <2>1, <2>4 DEF queueVars
    <3> QED BY <3>1 DEF QueueInv
  <2> QED BY <2>2, <2>3, <2>4
<1>4. OSetInv /\ [Next]_vars => OSetInv'
  <2> SUFFICES ASSUME OSetInv, [Next]_vars PROVE OSetInv'
    OBVIOUS
  <2>1. PICK S : OSetHas(S)
    BY DEF OSetInv
  <2>2. OSetNext \/ UNCHANGED osetVars
    BY DEF Next, vars
  <2>3. CASE OSetNext
    <3>1. PICK T : OSetHas(T)'
      BY <2>1, <2>3, OSetStepHolds
    <3> QED BY <3>1 DEF OSetInv
  <2>4. CASE UNCHANGED osetVars
    <3>1. OSetHas(S)'
      BY <2>1, <2>4 DEF osetVars, OSetHas
    <3> QED BY <3>1 DEF OSetInv
  <2> QED BY <2>2, <2>3, <2>4
<1>5. DlInv /\ QueueInv /\ OSetInv => ListsWellLinked
  BY DlWellLinkedHolds, QueueWellLinkedHolds, OSetWellLinkedHolds
  DEF DlInv, QueueInv, OSetInv, ListsWellLinked
<1> QED BY <1>1, <1>2, <1>3, <1>4, <1>5, PTL DEF Spec

\* A step that keeps the variables of a list keeps what is read off them.
DlRead == [l \in DlLists |-> DlForward(l)]
QueueRead == [h \in Heads |-> shm_queue_next(h)]
OSetRead == [s \in OSets |-> OForward(s)]
StackRead == [s \in FStacks |-> fixed_stack_contains(s)]

\* dllist.c implements SeqLists.
LEMMA DlSteps == DlInv /\ [Next]_vars => DlInv' /\ [UNCHANGED DlRead \/ DlSeqs!Next]_dlVars
<1> SUFFICES ASSUME DlInv, [Next]_vars PROVE DlInv' /\ [UNCHANGED DlRead \/ DlSeqs!Next]_dlVars
  OBVIOUS
<1>1. PICK S : DlHas(S)
  BY DEF DlInv
<1>2. DlNext \/ UNCHANGED dlVars
  BY DEF Next, vars
<1>3. CASE DlNext
  <2>1. PICK T : DlHas(T)' /\ SeqStep(S, T, DlLists, DlElems)
    BY <1>1, <1>3, DlStepHolds
  <2>2. S \in [DlLists -> Seq(DlElems)] /\ [l \in DlLists |-> DlForward(l)] = S
    BY <1>1, DlSequences DEF DlHas, DlHolds, DlForward
  <2>3. [l \in DlLists |-> Follow(dll_head'[l], dle_next', NoElem, Cardinality(DlElems))] = T
    BY <2>1, DlSequences DEF DlHas
  <2>4. [l \in DlLists |-> DlForward(l)]' = T
    BY <2>3 DEF DlForward
  <2>5. UNCHANGED [l \in DlLists |-> DlForward(l)] \/ DlSeqs!Next
    BY <2>1, <2>2, <2>4, DlStepImplements
  <2> QED BY <2>1, <2>5 DEF DlInv, DlRead
<1>4. CASE UNCHANGED dlVars
  <2>1. DlHas(S)'
    BY <1>1, <1>4 DEF dlVars, DlHas
  <2> QED BY <1>4, <2>1 DEF DlInv
<1> QED BY <1>2, <1>3, <1>4

\* shmqueue.c implements SeqLists.
LEMMA QueueSteps == QueueInv /\ [Next]_vars => QueueInv' /\ [UNCHANGED QueueRead \/ QueueSeqs!Next]_queueVars
<1> SUFFICES ASSUME QueueInv, [Next]_vars
             PROVE  QueueInv' /\ [UNCHANGED QueueRead \/ QueueSeqs!Next]_queueVars
  OBVIOUS
<1>1. PICK S : QueueHolds(S, qnext, qprev)
  BY DEF QueueInv
<1>2. QueueNext \/ UNCHANGED queueVars
  BY DEF Next, vars
<1>3. CASE QueueNext
  <2>1. PICK T : QueueHolds(T, qnext', qprev') /\ SeqStep(S, T, Heads, QElems)
    BY <1>1, <1>3, QueueStepHolds
  <2>2. S \in [Heads -> Seq(QElems)] /\ [h \in Heads |-> shm_queue_next(h)] = S
    BY <1>1, QueueSequences DEF QueueHolds, shm_queue_next
  <2>3. [h \in Heads |-> Follow(qnext'[h], qnext', h, Cardinality(QElems))] = T
    BY <2>1, QueueSequences
  <2>4. [h \in Heads |-> shm_queue_next(h)]' = T
    BY <2>3 DEF shm_queue_next
  <2>5. UNCHANGED [h \in Heads |-> shm_queue_next(h)] \/ QueueSeqs!Next
    BY <2>1, <2>2, <2>4, QueueStepImplements
  <2> QED BY <2>1, <2>5 DEF QueueInv, QueueRead
<1>4. CASE UNCHANGED queueVars
  <2>1. QueueHolds(S, qnext', qprev')
    BY <1>1, <1>4 DEF queueVars
  <2> QED BY <1>4, <2>1 DEF QueueInv
<1> QED BY <1>2, <1>3, <1>4

\* oset.c implements SeqLists.
LEMMA OSetSteps == OSetInv /\ [Next]_vars => OSetInv' /\ [UNCHANGED OSetRead \/ OSetSeqs!Next]_osetVars
<1> SUFFICES ASSUME OSetInv, [Next]_vars
             PROVE  OSetInv' /\ [UNCHANGED OSetRead \/ OSetSeqs!Next]_osetVars
  OBVIOUS
<1>1. PICK S : OSetHas(S)
  BY DEF OSetInv
<1>2. OSetNext \/ UNCHANGED osetVars
  BY DEF Next, vars
<1>3. CASE OSetNext
  <2>1. PICK T : OSetHas(T)' /\ SeqStep(S, T, OSets, OElems)
    BY <1>1, <1>3, OSetStepHolds
  <2>2. S \in [OSets -> Seq(OElems)] /\ [s \in OSets |-> OForward(s)] = S
    BY <1>1, OSetSequences, OSetWalks DEF OSetHas, OSetHolds
  <2>3. [s \in OSets |-> ForwardOf(cell', s)] = T
    BY <2>1, OSetSequences DEF OSetHas
  <2>4. [s \in OSets |-> OForward(s)]' = T
    BY <2>3 DEF OForward, ForwardOf, FirstOf, SuccessorOf, ordered_set_get_head,
                ordered_elem_get_successor, Limit
  <2>5. UNCHANGED [s \in OSets |-> OForward(s)] \/ OSetSeqs!Next
    BY <2>1, <2>2, <2>4, OSetStepImplements
  <2> QED BY <2>1, <2>5 DEF OSetInv, OSetRead
<1>4. CASE UNCHANGED osetVars
  <2>1. OSetHas(S)'
    BY <1>1, <1>4 DEF osetVars, OSetHas
  <2> QED BY <1>4, <2>1 DEF OSetInv
<1> QED BY <1>2, <1>3, <1>4

\* The stacks of fstack.c implement SeqLists.
LEMMA StackSteps == StackInv /\ [Next]_vars => StackInv' /\ [UNCHANGED StackRead \/ StackSeqs!Next]_stackVars
<1> SUFFICES ASSUME StackInv, [Next]_vars
             PROVE  StackInv' /\ [UNCHANGED StackRead \/ StackSeqs!Next]_stackVars
  OBVIOUS
<1>1. PICK S : StackHas(S)
  BY DEF StackInv
<1>2. StackNext \/ UNCHANGED stackVars
  BY DEF Next, vars
<1>3. CASE StackNext
  <2>1. PICK T : StackHas(T)' /\ SeqStep(S, T, FStacks, FItems)
    BY <1>1, <1>3, StackStepHolds
  <2>2. S \in [FStacks -> Seq(FItems)] /\ [s \in FStacks |-> fixed_stack_contains(s)] = S
    BY <1>1, StackSequences DEF StackHas, StackHolds, fixed_stack_contains
  <2>3. [s \in FStacks |-> Follow(top'[s], fnext', Null, Cardinality(FItems))] = T
    BY <2>1, StackSequences DEF StackHas
  <2>4. [s \in FStacks |-> fixed_stack_contains(s)]' = T
    BY <2>3 DEF fixed_stack_contains
  <2>5. UNCHANGED [s \in FStacks |-> fixed_stack_contains(s)] \/ StackSeqs!Next
    BY <2>1, <2>2, <2>4, StackStepImplements
  <2> QED BY <2>1, <2>5 DEF StackInv, StackRead
<1>4. CASE UNCHANGED stackVars
  <2>1. StackHas(S)'
    BY <1>1, <1>4 DEF stackVars, StackHas
  <2> QED BY <1>4, <2>1 DEF StackInv
<1> QED BY <1>2, <1>3, <1>4

\* Read off their links, the lists of dllist.c, shmqueue.c, oset.c and fstack.c
\* are the sequences of SeqLists: every routine inserts one element, takes one
\* out, moves one to the front or empties one list, and disturbs no other.
THEOREM ListsAreImplemented == Spec => ListsImplement
<1>1. Init => DlInv /\ QueueInv /\ OSetInv /\ StackInv
  BY DlStarts, QueueStarts, OSetStarts, StackStarts DEF Init, DlInv, QueueInv, OSetInv, StackInv
<1>2. Init => DlSeqs!Init /\ QueueSeqs!Init /\ OSetSeqs!Init /\ StackSeqs!Init
  <2> SUFFICES ASSUME Init PROVE DlSeqs!Init /\ QueueSeqs!Init /\ OSetSeqs!Init /\ StackSeqs!Init
    OBVIOUS
  <2>1. [l \in DlLists |-> DlForward(l)] = [l \in DlLists |-> <<>>]
    BY DlStarts, DlSequences DEF Init, DlHas, DlForward
  <2>2. [h \in Heads |-> shm_queue_next(h)] = [h \in Heads |-> <<>>]
    BY QueueStarts, QueueSequences DEF Init, shm_queue_next
  <2>3. [s \in OSets |-> OForward(s)] = [s \in OSets |-> <<>>]
    BY OSetStarts, OSetSequences, OSetWalks DEF Init, OSetHas
  <2>4. [s \in FStacks |-> fixed_stack_contains(s)] = [s \in FStacks |-> <<>>]
    BY StackStarts, StackSequences DEF Init, StackHas, fixed_stack_contains
  <2> QED BY <2>1, <2>2, <2>3, <2>4 DEF DlSeqs!Init, QueueSeqs!Init, OSetSeqs!Init, StackSeqs!Init
<1>3. /\ Spec => [][UNCHANGED DlRead \/ DlSeqs!Next]_dlVars
      /\ Spec => [][UNCHANGED QueueRead \/ QueueSeqs!Next]_queueVars
      /\ Spec => [][UNCHANGED OSetRead \/ OSetSeqs!Next]_osetVars
      /\ Spec => [][UNCHANGED StackRead \/ StackSeqs!Next]_stackVars
  BY <1>1, DlSteps, QueueSteps, OSetSteps, StackSteps, PTL DEF Spec
<1> QED BY <1>2, <1>3, PTL DEF Spec, ListsImplement, DlImplements, QueueImplements, OSetImplements,
        StackImplements, DlRead, QueueRead, OSetRead, StackRead

-----------------------------------------------------------------------------
(* Memory contexts.                                                        *)

\* From the first one, the field N leads once through every context of C and
\* then nowhere.
ListOf(C, first, N) ==
  /\ first \in C \cup {NoCtx}
  /\ \A d \in C : N[d] \in (C \ {first}) \cup {NoCtx}
  /\ \A d, e \in C : N[d] = N[e] /\ N[d] # NoCtx => d = e
  /\ \A K \in SUBSET C :
       first \in K \cup {NoCtx} /\ (\A x \in K : N[x] \in K \cup {NoCtx}) => C \subseteq K

\* Nothing is in a list without a first element.
LEMMA ListEmpty ==
  ASSUME NEW C, NEW first, NEW N, ListOf(C, first, N)
  PROVE  first = NoCtx => C = {}
BY DEF ListOf

\* A list with one element.
LEMMA ListSingle ==
  ASSUME NEW c \in Ctx, NEW N, N[c] = NoCtx, NoCtx \notin Ctx
  PROVE  ListOf({c}, c, N)
<1> SUFFICES ASSUME NEW K \in SUBSET {c}, c \in K \cup {NoCtx}
             PROVE  {c} \subseteq K
  BY DEF ListOf
<1> QED BY CtxAssumption

\* Nothing but the fields of its elements matters to a list.
LEMMA ListFrame ==
  ASSUME NEW C, NEW first, NEW N, NEW N2, ListOf(C, first, N), \A d \in C : N2[d] = N[d]
  PROVE  ListOf(C, first, N2)
<1> SUFFICES ASSUME NEW K \in SUBSET C, first \in K \cup {NoCtx}, \A x \in K : N2[x] \in K \cup {NoCtx}
             PROVE  C \subseteq K
  BY DEF ListOf
<1>1. \A x \in K : N[x] \in K \cup {NoCtx}
  OBVIOUS
<1> QED BY <1>1 DEF ListOf

\* Every element but the first comes after another one, and none after itself.
LEMMA ListBefore ==
  ASSUME NEW C, NEW first, NEW N, ListOf(C, first, N), NoCtx \notin C, NEW d \in C
  PROVE  (d # first => \E e \in C : N[e] = d) /\ N[d] # d
<1>1. ASSUME d # first PROVE \E e \in C : e # d /\ N[e] = d
  <2> SUFFICES ASSUME \A e \in C : e # d => N[e] # d PROVE FALSE
    BY Zenon
  <2> DEFINE K == C \ {d}
  <2>1. K \in SUBSET C /\ first \in K \cup {NoCtx}
    BY <1>1 DEF ListOf
  <2>2. \A x \in K : N[x] \in K \cup {NoCtx}
    BY DEF ListOf
  <2>3. C \subseteq K
    BY <2>1, <2>2, Zenon DEF ListOf
  <2> QED BY <2>3
<1>2. N[d] # d
  BY <1>1 DEF ListOf
<1> QED BY <1>1, <1>2

\* A context that is linked in front is added to the list.
LEMMA ListPush ==
  ASSUME NEW C, NEW first, NEW N, NEW N2, ListOf(C, first, N), NoCtx \notin C,
         NEW c, c \notin C, c # NoCtx, N2[c] = first, \A d \in C : N2[d] = N[d]
  PROVE  ListOf(C \cup {c}, c, N2)
<1>1. ASSUME NEW K \in SUBSET (C \cup {c}), c \in K \cup {NoCtx}, \A x \in K : N2[x] \in K \cup {NoCtx}
      PROVE  C \cup {c} \subseteq K
  <2> DEFINE L == K \ {c}
  <2>1. c \in K /\ L \in SUBSET C
    BY <1>1
  <2>2. first \in L \cup {NoCtx}
    BY <1>1, <2>1 DEF ListOf
  <2>3. \A x \in L : N[x] \in L \cup {NoCtx}
    BY <1>1 DEF ListOf
  <2>4. C \subseteq L
    BY <2>1, <2>2, <2>3, Zenon DEF ListOf
  <2> QED BY <2>1, <2>4
<1>2. \A d \in C \cup {c} : N2[d] \in ((C \cup {c}) \ {c}) \cup {NoCtx}
  BY DEF ListOf
<1>3. \A d, e \in C \cup {c} : N2[d] = N2[e] /\ N2[d] # NoCtx => d = e
  BY DEF ListOf
<1> QED BY <1>1, <1>2, <1>3 DEF ListOf

\* Without its first element a list begins with the next one.
LEMMA ListPop ==
  ASSUME NEW C, NEW first, NEW N, NEW N2, ListOf(C, first, N), NoCtx \notin C,
         first # NoCtx, \A d \in C \ {first} : N2[d] = N[d]
  PROVE  ListOf(C \ {first}, N[first], N2)
<1>1. ASSUME NEW K \in SUBSET (C \ {first}), N[first] \in K \cup {NoCtx},
             \A x \in K : N2[x] \in K \cup {NoCtx}
      PROVE  C \ {first} \subseteq K
  <2> DEFINE L == K \cup {first}
  <2>1. L \in SUBSET C /\ first \in L \cup {NoCtx}
    BY DEF ListOf
  <2>2. \A x \in L : N[x] \in L \cup {NoCtx}
    BY <1>1
  <2>3. C \subseteq L
    BY <2>1, <2>2, Zenon DEF ListOf
  <2> QED BY <2>3
<1>2. first \in C /\ N[first] \in (C \ {first}) \cup {NoCtx}
  BY DEF ListOf
<1>3. \A d \in C \ {first} : N2[d] \in ((C \ {first}) \ {N[first]}) \cup {NoCtx}
  BY <1>2 DEF ListOf
<1>4. \A d, e \in C \ {first} : N2[d] = N2[e] /\ N2[d] # NoCtx => d = e
  BY DEF ListOf
<1> QED BY <1>1, <1>2, <1>3, <1>4 DEF ListOf

\* A later element is taken out by making the one before it lead past it.
LEMMA ListTake ==
  ASSUME NEW C, NEW first, NEW N, NEW N2, ListOf(C, first, N), NoCtx \notin C,
         NEW c \in C, c # first,
         \A d \in C \ {c} : N2[d] = IF N[d] = c THEN N[c] ELSE N[d]
  PROVE  ListOf(C \ {c}, first, N2)
<1>1. N[c] # c /\ N[c] \in (C \ {first}) \cup {NoCtx}
  BY ListBefore DEF ListOf
<1>2. PICK p \in C : N[p] = c
  BY ListBefore
<1>3. p # c /\ N2[p] = N[c] /\ \A d \in C \ {c} : d # p => N2[d] = N[d] /\ N[d] # c
  BY <1>1, <1>2 DEF ListOf
<1>4. ASSUME NEW K \in SUBSET (C \ {c}), first \in K \cup {NoCtx},
             \A x \in K : N2[x] \in K \cup {NoCtx}
      PROVE  C \ {c} \subseteq K
  <2>1. CASE p \in K
    <3> DEFINE L == K \cup {c}
    <3>1. L \in SUBSET C /\ first \in L \cup {NoCtx}
      BY <1>4
    <3>2. \A x \in L : N[x] \in L \cup {NoCtx}
      BY <1>2, <1>3, <1>4, <2>1
    <3>3. C \subseteq L
      BY <3>1, <3>2, Zenon DEF ListOf
    <3> QED BY <3>3
  <2>2. CASE p \notin K
    <3>1. \A x \in K : N[x] \in K \cup {NoCtx}
      BY <1>3, <1>4, <2>2
    <3>2. C \subseteq K
      BY <1>4, <3>1 DEF ListOf
    <3> QED BY <3>2
  <2> QED BY <2>1, <2>2
<1>5. first \in (C \ {c}) \cup {NoCtx}
  BY DEF ListOf
<1>6. \A d \in C \ {c} : N2[d] \in ((C \ {c}) \ {first}) \cup {NoCtx}
  BY <1>1, <1>2, <1>3 DEF ListOf
<1>7. \A d, e \in C \ {c} : N2[d] = N2[e] /\ N2[d] # NoCtx => d = e
  <2> SUFFICES ASSUME NEW d \in C \ {c}, NEW e \in C \ {c}, N2[d] = N2[e], N2[d] # NoCtx
               PROVE  d = e
    BY Zenon
  <2>1. \A x \in C \ {c} : x # p => N2[x] = N[x]
    BY <1>3
  <2>2. \A x \in C \ {c} : N[x] = N[c] => N[c] = NoCtx
    BY DEF ListOf
  <2> QED BY <1>3, <2>1, <2>2 DEF ListOf
<1> QED BY <1>4, <1>5, <1>6, <1>7 DEF ListOf

-----------------------------------------------------------------------------
\* No parent leads out of S.
UpClosed(S) == \A x \in S : StaysIn(S, parent, x)

\* The list of every context is that of its children.
ListsOfChildren == \A p \in node : ListOf(Children(p), firstchild[p], nextchild)

\* No context is its own ancestor.
NoCycle ==
  \A d \in node : parent[d] # NoCtx =>
    \E S \in SUBSET node : UpClosed(S) /\ parent[d] \in S /\ d \notin S

\* A call is for a context that exists, different from those of all others,
\* and it was made on the way down from the contexts of the calls below it;
\* the current context is not about to be deleted.
CallsNested ==
  /\ \A i \in DOMAIN stack :
       stack[i].ctx \in node /\ (stack[i].then = "delete" => stack[i].ctx # CurrentMemoryContext)
  /\ \A i, j \in DOMAIN stack : i < j =>
       /\ stack[i].ctx # stack[j].ctx
       /\ \A S \in SUBSET node : UpClosed(S) /\ stack[i].ctx \in S => stack[j].ctx \in S

TreeInv == CtxTypeOK /\ NoneOrphaned /\ ListsOfChildren /\ NoCycle /\ CallsNested

\* The type of the children.
LEMMA ChildrenType ==
  ASSUME CtxTypeOK
  PROVE  \A p \in Ctx : Children(p) \subseteq node /\ Children(p) \subseteq Ctx /\ NoCtx \notin Children(p)
BY CtxAssumption DEF CtxTypeOK, Children

\* memory_context_init leaves a tree of two contexts.
LEMMA TreeStarts == CtxInit => TreeInv
<1> SUFFICES ASSUME CtxInit PROVE TreeInv
  OBVIOUS
<1> USE CtxAssumption DEF CtxInit
<1>1. CtxTypeOK
  <2>1. stack \in Seq([ctx : Ctx, then : {"delete", "return", "reset"}])
    BY EmptySeq
  <2> QED BY <2>1 DEF CtxTypeOK
<1>2. NoneOrphaned
  BY DEF NoneOrphaned
<1>3. Children(TopMemoryContext) = {ErrorContext} /\ Children(ErrorContext) = {}
  BY DEF Children
<1>4. ListOf({ErrorContext}, ErrorContext, nextchild)
  BY ListSingle
<1>5. ListOf({}, NoCtx, nextchild)
  BY DEF ListOf
<1>6. ListsOfChildren
  BY <1>3, <1>4, <1>5 DEF ListsOfChildren
<1>7. NoCycle
  <2>1. UpClosed({TopMemoryContext})
    BY DEF UpClosed, StaysIn
  <2>2. \A d \in node : parent[d] # NoCtx => d = ErrorContext /\ parent[d] = TopMemoryContext
    OBVIOUS
  <2> QED BY <2>1, <2>2 DEF NoCycle
<1>8. CallsNested
  BY DEF CallsNested
<1> QED BY <1>1, <1>2, <1>6, <1>7, <1>8 DEF TreeInv

\* A step that leaves the tree alone leaves the lists of children and the
\* ancestors alone ...
LEMMA TreeFrame ==
  ASSUME TreeInv, UNCHANGED treeVars
  PROVE  ListsOfChildren' /\ NoCycle'
<1>1. \A p : Children(p)' = Children(p)
  BY DEF Children, treeVars
<1>2. \A S : UpClosed(S)' <=> UpClosed(S)
  BY DEF UpClosed, StaysIn, treeVars
<1>3. ListsOfChildren'
  BY <1>1 DEF TreeInv, ListsOfChildren, treeVars
<1> QED BY <1>2, <1>3 DEF TreeInv, NoCycle, treeVars

\* ... and the calls, if no call is active whenever the current context changes.
LEMMA CallsFrame ==
  ASSUME TreeInv, UNCHANGED treeVars, UNCHANGED stack,
         stack = <<>> \/ UNCHANGED CurrentMemoryContext
  PROVE  CallsNested'
<1>1. \A S : UpClosed(S)' <=> UpClosed(S)
  BY DEF UpClosed, StaysIn, treeVars
<1>2. stack = <<>> => DOMAIN stack = {}
  OBVIOUS
<1> QED BY <1>1, <1>2 DEF TreeInv, CallsNested, treeVars

\* A new context is put in front of its parent's children.
LEMMA CreateKeeps ==
  ASSUME TreeInv, NEW c \in Ctx, NEW p \in Ctx \cup {NoCtx}, memory_context_create(c, p)
  PROVE  TreeInv'
<1> USE CtxAssumption DEF memory_context_create
<1>1. CtxTypeOK'
  BY DEF TreeInv, CtxTypeOK
<1>2. NoneOrphaned'
  BY DEF TreeInv, CtxTypeOK, NoneOrphaned
<1>3. /\ \A x \in node : parent'[x] = parent[x] /\ nextchild'[x] = nextchild[x] /\ x # c
      /\ parent'[c] = p
      /\ firstchild'[c] = NoCtx
      /\ p # NoCtx => p \in node /\ firstchild'[p] = c /\ nextchild'[c] = firstchild[p]
      /\ \A x \in node : x # p => firstchild'[x] = firstchild[x]
  BY DEF TreeInv, CtxTypeOK
<1>4. ListsOfChildren'
  <2> SUFFICES ASSUME NEW q \in node'
               PROVE  ListOf(Children(q)', firstchild'[q], nextchild')
    BY DEF ListsOfChildren
  <2>1. CASE q = c
    <3>1. Children(q)' = {}
      BY <1>3, <2>1 DEF Children, TreeInv, NoneOrphaned
    <3> QED BY <1>3, <2>1, <3>1 DEF ListOf
  <2>2. CASE q # c /\ q = p
    <3>1. Children(q)' = Children(q) \cup {c} /\ c \notin Children(q)
      BY <1>3, <2>2 DEF Children
    <3>2. ListOf(Children(q), firstchild[q], nextchild)
      BY <2>2 DEF TreeInv, ListsOfChildren
    <3>3. \A d \in Children(q) : nextchild'[d] = nextchild[d]
      BY <1>3 DEF Children
    <3>4. q \in Ctx /\ c # NoCtx /\ nextchild'[c] = firstchild[q] /\ firstchild'[q] = c
      <4>1. q \in Ctx /\ q # NoCtx /\ c # NoCtx
        BY <1>1 DEF CtxTypeOK
      <4> QED BY <1>3, <2>2, <4>1
    <3>5. NoCtx \notin Children(q)
      BY <3>4, ChildrenType DEF TreeInv
    <3> HIDE DEF memory_context_create
    <3>6. ListOf(Children(q) \cup {c}, c, nextchild')
      BY ONLY <3>1, <3>2, <3>3, <3>4, <3>5, ListPush
    <3> QED BY ONLY <3>1, <3>4, <3>6
  <2>3. CASE q # c /\ q # p
    <3>1. Children(q)' = Children(q)
      BY <1>3, <2>3 DEF Children
    <3>2. ListOf(Children(q), firstchild[q], nextchild)
      BY <2>3 DEF TreeInv, ListsOfChildren
    <3>3. \A d \in Children(q) : nextchild'[d] = nextchild[d]
      BY <1>3 DEF Children
    <3>4. firstchild'[q] = firstchild[q]
      BY <1>3, <2>3
    <3>5. ListOf(Children(q), firstchild[q], nextchild')
      BY ONLY <3>2, <3>3, ListFrame
    <3> QED BY ONLY <3>1, <3>4, <3>5
  <2> QED BY <2>1, <2>2, <2>3
<1>5. NoCycle'
  <2>1. ASSUME NEW S \in SUBSET node, UpClosed(S)
        PROVE  UpClosed(S)' /\ S \in SUBSET node' /\ c \notin S
    BY <1>3, <2>1 DEF UpClosed, StaysIn
  <2>2. ASSUME NEW d \in node', parent'[d] # NoCtx
        PROVE  \E S \in SUBSET node : UpClosed(S) /\ parent'[d] \in S /\ d \notin S
    <3>1. CASE d = c
      <4>1. UpClosed(node)
        BY DEF TreeInv, NoneOrphaned, UpClosed, StaysIn
      <4> QED BY <1>3, <2>2, <3>1, <4>1
    <3>2. CASE d # c
      BY <1>3, <2>2, <3>2 DEF TreeInv, NoCycle
    <3> QED BY <3>1, <3>2
  <2> QED BY <2>1, <2>2 DEF NoCycle
<1>6. CallsNested'
  BY DEF CtxIdle, CallsNested
<1> QED BY <1>1, <1>2, <1>4, <1>5, <1>6 DEF TreeInv

\* A context without children, on whose behalf memory_context_delete runs, is
\* taken out of the list it is in.
LEMMA DelinkKeeps ==
  ASSUME TreeInv, NEW c \in node, firstchild[c] = NoCtx, Delink(c), node' = node \ {c}
  PROVE  /\ ListsOfChildren' /\ NoCycle'
         /\ firstchild' \in [Ctx -> Ctx \cup {NoCtx}] /\ nextchild' \in [Ctx -> Ctx \cup {NoCtx}]
         /\ parent' \in [Ctx -> Ctx \cup {NoCtx}]
         /\ \A x \in node' : parent'[x] = parent[x] /\ parent[x] # c
         /\ \A S \in SUBSET node' : UpClosed(S)' => UpClosed(S)
<1> USE CtxAssumption
<1> DEFINE p == parent[c]
<1>1. /\ parent \in [Ctx -> Ctx \cup {NoCtx}] /\ firstchild \in [Ctx -> Ctx \cup {NoCtx}]
      /\ nextchild \in [Ctx -> Ctx \cup {NoCtx}] /\ node \subseteq Ctx /\ p \in node \cup {NoCtx}
  BY DEF TreeInv, CtxTypeOK, NoneOrphaned
<1>2. \A q \in node : ListOf(Children(q), firstchild[q], nextchild)
  BY DEF TreeInv, ListsOfChildren
<1>3. Children(c) = {} /\ \A x \in node : parent[x] # c
  BY <1>2, ListEmpty DEF Children
<1>4. /\ parent' = [parent EXCEPT ![c] = NoCtx]
      /\ \A x \in node' : parent'[x] = parent[x]
  BY <1>1 DEF Delink
<1>5. /\ firstchild' \in [Ctx -> Ctx \cup {NoCtx}]
      /\ \A x \in Ctx : firstchild'[x] = IF x = p /\ firstchild[p] = c THEN nextchild[c] ELSE firstchild[x]
  BY <1>1 DEF Delink
<1>6. /\ nextchild' \in [Ctx -> Ctx \cup {NoCtx}]
      /\ \A x \in Ctx \ {c} : nextchild'[x] = IF p # NoCtx /\ firstchild[p] # c /\ nextchild[x] = c
                                               THEN nextchild[c] ELSE nextchild[x]
  BY <1>1 DEF Delink
<1>7. ListsOfChildren'
  <2> SUFFICES ASSUME NEW q \in node'
               PROVE  ListOf(Children(q)', firstchild'[q], nextchild')
    BY DEF ListsOfChildren
  <2>1. q \in node /\ q # c /\ q \in Ctx /\ ListOf(Children(q), firstchild[q], nextchild)
    BY <1>1, <1>2
  <2>2. Children(q) \subseteq Ctx /\ NoCtx \notin Children(q)
    BY <2>1, ChildrenType DEF TreeInv
  <2>3. CASE q # p
    <3>1. Children(q)' = Children(q) /\ c \notin Children(q)
      BY <1>4, <2>3 DEF Children
    <3>2. \A d \in Children(q) : nextchild[d] # c
      BY <1>1, <2>1, <2>2, <3>1 DEF ListOf
    <3>3. \A d \in Children(q) : nextchild'[d] = nextchild[d]
      BY <1>6, <2>2, <3>1, <3>2
    <3>4. firstchild'[q] = firstchild[q]
      BY <1>5, <2>1, <2>3
    <3> QED BY <2>1, <3>1, <3>3, <3>4, ListFrame
  <2>4. CASE q = p
    <3>1. Children(q)' = Children(q) \ {c} /\ c \in Children(q) /\ p # NoCtx
      BY <1>1, <1>4, <2>1, <2>4 DEF Children
    <3>2. CASE firstchild[p] = c
      <4>1. \A d \in Children(q) \ {c} : nextchild'[d] = nextchild[d]
        BY <1>6, <2>2, <3>2
      <4>2. firstchild'[q] = nextchild[c] /\ firstchild[q] = c
        BY <1>5, <2>1, <2>4, <3>2
      <4>3. c # NoCtx
        BY <1>1
      <4>4. ListOf(Children(q) \ {c}, nextchild[c], nextchild')
        BY ONLY <2>1, <2>2, <4>1, <4>2, <4>3, ListPop
      <4> QED BY ONLY <3>1, <4>2, <4>4
    <3>3. CASE firstchild[p] # c
      <4>1. \A d \in Children(q) \ {c} : nextchild'[d] = IF nextchild[d] = c THEN nextchild[c] ELSE nextchild[d]
        BY <1>6, <2>2, <3>1, <3>3
      <4>2. firstchild'[q] = firstchild[q] /\ c # firstchild[q]
        BY <1>5, <2>1, <2>4, <3>3
      <4> QED BY <2>1, <2>2, <3>1, <4>1, <4>2, ListTake
    <3> QED BY <3>2, <3>3
  <2> QED BY <2>3, <2>4
<1>8. \A S \in SUBSET node' : UpClosed(S)' <=> UpClosed(S)
  BY <1>4 DEF UpClosed, StaysIn
<1>9. NoCycle'
  <2> SUFFICES ASSUME NEW d \in node', parent'[d] # NoCtx
               PROVE  \E S \in SUBSET node' : UpClosed(S)' /\ parent'[d] \in S /\ d \notin S
    BY DEF NoCycle
  <2>1. d \in node /\ parent'[d] = parent[d] /\ parent[d] # c
    BY <1>3, <1>4
  <2>2. PICK S \in SUBSET node : UpClosed(S) /\ parent[d] \in S /\ d \notin S
    BY <2>1 DEF TreeInv, NoCycle
  <2>3. UpClosed(S \ {c})
    BY <1>3, <2>2 DEF UpClosed, StaysIn
  <2>4. S \ {c} \in SUBSET node'
    BY <2>2
  <2> QED BY <1>8, <2>1, <2>2, <2>3, <2>4
<1> QED BY <1>1, <1>3, <1>4, <1>5, <1>6, <1>7, <1>8, <1>9

\* The frames of calls.
Frames == [ctx : Ctx, then : {"delete", "return", "reset"}]

\* The calls when one is made ...
LEMMA FramePushed ==
  ASSUME NEW T, NEW f \in T, NEW q \in Seq(T)
  PROVE  /\ <<f>> \o q \in Seq(T)
         /\ DOMAIN (<<f>> \o q) = 1..(Len(q) + 1) /\ DOMAIN q = 1..Len(q)
         /\ (<<f>> \o q)[1] = f
         /\ \A i \in 1..(Len(q) + 1) : i # 1 => i - 1 \in 1..Len(q) /\ (<<f>> \o q)[i] = q[i - 1]
OBVIOUS

\* ... and when one returns.
LEMMA FramePopped ==
  ASSUME NEW T, NEW q \in Seq(T), q # <<>>
  PROVE  /\ Tail(q) \in Seq(T) /\ q[1] \in T
         /\ DOMAIN Tail(q) = 1..(Len(q) - 1) /\ DOMAIN q = 1..Len(q) /\ 1 \in 1..Len(q)
         /\ \A i \in 1..(Len(q) - 1) : i + 1 \in 1..Len(q) /\ Tail(q)[i] = q[i + 1]
OBVIOUS

\* memory_context_delete and the routines that delete children are called from
\* outside.
LEMMA FirstCallNested ==
  ASSUME TreeInv, UNCHANGED treeVars, UNCHANGED CurrentMemoryContext, NEW f \in Frames,
         f.ctx \in node, f.then = "delete" => f.ctx # CurrentMemoryContext, stack' = <<f>>
  PROVE  CallsNested' /\ stack' \in Seq(Frames)
<1>1. DOMAIN stack' = {1} /\ stack'[1] = f /\ stack' \in Seq(Frames)
  OBVIOUS
<1>2. \A i, j \in DOMAIN stack' : ~(i < j)
  BY <1>1
<1> QED BY <1>1, <1>2 DEF CallsNested, treeVars

\* One turn of the loop: the call for a child is above that for its parent.
LEMMA NextChildNested ==
  ASSUME TreeInv, NextChild
  PROVE  CallsNested' /\ stack' \in Seq(Frames)
<1> DEFINE c == stack[1].ctx
           d == firstchild[c]
           f == [ctx |-> d, then |-> "delete"]
<1>1. /\ stack \in Seq(Frames) /\ stack # <<>> /\ d # NoCtx /\ node \subseteq Ctx
      /\ UNCHANGED <<node, parent, CurrentMemoryContext>>
  BY DEF TreeInv, CtxTypeOK, NextChild, treeVars, Frames
<1>2. \A S : UpClosed(S)' <=> UpClosed(S)
  BY <1>1 DEF UpClosed, StaysIn
<1>3. 1 \in DOMAIN stack /\ DOMAIN stack = 1..Len(stack) /\ Len(stack) \in Nat
  BY <1>1
<1>4. c \in node
  BY <1>3 DEF TreeInv, CallsNested
<1>5. ListOf(Children(c), d, nextchild)
  BY <1>4 DEF TreeInv, ListsOfChildren
<1>6. d \in node /\ parent[d] = c /\ c # NoCtx /\ d \in Ctx
  BY <1>1, <1>4, <1>5, CtxAssumption DEF ListOf, Children
<1>7. CASE UNCHANGED stack
  <2>1. CallsNested'
    BY <1>1, <1>2, <1>7 DEF TreeInv, CallsNested
  <2> QED BY <1>1, <1>7, <2>1
<1>8. CASE stack' = <<f>> \o stack /\ d # CurrentMemoryContext
  <2> HIDE DEF f
  <2>1. f \in Frames /\ f.ctx = d
    BY <1>6 DEF Frames, f
  <2>2. /\ stack' \in Seq(Frames) /\ DOMAIN stack' = 1..(Len(stack) + 1) /\ stack'[1] = f
        /\ \A i \in DOMAIN stack' : i # 1 => i - 1 \in DOMAIN stack /\ stack'[i] = stack[i - 1]
    BY <1>1, <1>3, <1>8, <2>1, FramePushed
  <2>3. PICK S \in SUBSET node : UpClosed(S) /\ c \in S /\ d \notin S
    BY <1>6 DEF TreeInv, NoCycle
  <2>4. \A j \in DOMAIN stack : \A U \in SUBSET node : UpClosed(U) /\ c \in U => stack[j].ctx \in U
    <3> SUFFICES ASSUME NEW j \in DOMAIN stack, NEW U \in SUBSET node, UpClosed(U), c \in U
                 PROVE  stack[j].ctx \in U
      BY Zenon
    <3>1. CASE j = 1
      BY <3>1
    <3>2. CASE j # 1
      <4>1. 1 < j
        BY <1>3, <3>2
      <4> QED BY <1>3, <4>1 DEF TreeInv, CallsNested
    <3> QED BY <3>1, <3>2
  <2>5. \A j \in DOMAIN stack : stack[j].ctx # d
    BY <2>3, <2>4
  <2>6. \A U \in SUBSET node : UpClosed(U) /\ d \in U => c \in U
    BY <1>6 DEF UpClosed, StaysIn
  <2>7. ASSUME NEW i \in DOMAIN stack'
        PROVE  stack'[i].ctx \in node /\ (stack'[i].then = "delete" => stack'[i].ctx # CurrentMemoryContext)
    <3>1. CASE i = 1
      BY <1>6, <1>8, <2>1, <2>2, <3>1
    <3>2. CASE i # 1
      BY <2>2, <3>2 DEF TreeInv, CallsNested
    <3> QED BY <3>1, <3>2
  <2>8. ASSUME NEW i \in DOMAIN stack', NEW j \in DOMAIN stack', i < j
        PROVE  /\ stack'[i].ctx # stack'[j].ctx
               /\ \A U \in SUBSET node : UpClosed(U) /\ stack'[i].ctx \in U => stack'[j].ctx \in U
    <3>1. j # 1 /\ i \in Int /\ j \in Int
      BY <1>3, <2>2, <2>8
    <3>2. j - 1 \in DOMAIN stack /\ stack'[j] = stack[j - 1]
      BY <2>2, <3>1
    <3>3. CASE i = 1
      BY <2>1, <2>2, <2>4, <2>5, <2>6, <3>2, <3>3
    <3>4. CASE i # 1
      <4>1. i - 1 \in DOMAIN stack /\ stack'[i] = stack[i - 1] /\ i - 1 < j - 1
        BY <2>2, <2>8, <3>1, <3>4
      <4> QED BY <3>2, <4>1 DEF TreeInv, CallsNested
    <3> QED BY <3>3, <3>4
  <2>9. CallsNested'
    BY <1>1, <1>2, <2>7, <2>8 DEF CallsNested
  <2> QED BY <2>2, <2>9
<1>9. UNCHANGED stack \/ (stack' = <<f>> \o stack /\ d # CurrentMemoryContext)
  BY DEF NextChild, CallDelete
<1> QED BY <1>7, <1>8, <1>9

\* A call returns; if it was for a deletion, its context is gone, and it was
\* the only call for that context.
LEMMA FinishKeeps ==
  ASSUME TreeInv, FinishCall
  PROVE  TreeInv'
<1> DEFINE c == stack[1].ctx
<1>1. /\ stack \in Seq(Frames) /\ stack # <<>> /\ node \subseteq Ctx /\ firstchild[c] = NoCtx
      /\ stack' = Tail(stack) /\ UNCHANGED <<CurrentMemoryContext, ctxDead>>
      /\ owner \in [CtxHandles -> Ctx \cup {NoCtx}] /\ ctxDead \in BOOLEAN
      /\ CurrentMemoryContext \in node /\ \A h \in CtxHandles : owner[h] \in node \cup {NoCtx}
  BY DEF TreeInv, CtxTypeOK, NoneOrphaned, FinishCall, Frames
<1>2. /\ stack' \in Seq(Frames) /\ DOMAIN stack = 1..Len(stack) /\ 1 \in DOMAIN stack
      /\ DOMAIN stack' = 1..(Len(stack) - 1) /\ Len(stack) \in Nat
      /\ \A i \in DOMAIN stack' : i + 1 \in DOMAIN stack /\ stack'[i] = stack[i + 1]
  BY <1>1, FramePopped
<1>3. c \in node /\ (stack[1].then = "delete" => c # CurrentMemoryContext)
  BY <1>2 DEF TreeInv, CallsNested
<1>4. \A i \in DOMAIN stack' : stack'[i].ctx \in node \ {c}
  <2> SUFFICES ASSUME NEW i \in DOMAIN stack' PROVE stack'[i].ctx \in node \ {c}
    OBVIOUS
  <2>1. i + 1 \in DOMAIN stack /\ stack'[i] = stack[i + 1] /\ 1 < i + 1
    BY <1>2
  <2> QED BY <1>2, <2>1 DEF TreeInv, CallsNested
<1>5. ASSUME node' \subseteq node, \A i \in DOMAIN stack' : stack'[i].ctx \in node',
             \A S \in SUBSET node' : UpClosed(S)' => UpClosed(S)
      PROVE  CallsNested'
  <2>1. ASSUME NEW i \in DOMAIN stack', NEW j \in DOMAIN stack', i < j
        PROVE  /\ stack'[i].ctx # stack'[j].ctx
               /\ \A S \in SUBSET node' : UpClosed(S)' /\ stack'[i].ctx \in S => stack'[j].ctx \in S
    <3>1. /\ i + 1 \in DOMAIN stack /\ stack'[i] = stack[i + 1]
          /\ j + 1 \in DOMAIN stack /\ stack'[j] = stack[j + 1] /\ i + 1 < j + 1
      BY <1>2, <2>1
    <3> QED BY <1>5, <3>1 DEF TreeInv, CallsNested
  <2>2. \A i \in DOMAIN stack' : stack'[i].then = "delete" => stack'[i].ctx # CurrentMemoryContext'
    BY <1>1, <1>2 DEF TreeInv, CallsNested
  <2> QED BY <1>5, <2>1, <2>2 DEF CallsNested
<1>6. CASE stack[1].then = "delete"
  <2>1. Delink(c) /\ DropChunks({c}) /\ node' = node \ {c}
    BY <1>6 DEF FinishCall
  <2>2. /\ ListsOfChildren' /\ NoCycle'
        /\ firstchild' \in [Ctx -> Ctx \cup {NoCtx}] /\ nextchild' \in [Ctx -> Ctx \cup {NoCtx}]
        /\ parent' \in [Ctx -> Ctx \cup {NoCtx}]
        /\ \A x \in node' : parent'[x] = parent[x] /\ parent[x] # c
        /\ \A S \in SUBSET node' : UpClosed(S)' => UpClosed(S)
    BY <1>1, <1>3, <2>1, DelinkKeeps
  <2>3. owner' \in [CtxHandles -> Ctx \cup {NoCtx}] /\ \A h \in CtxHandles : owner'[h] \in node' \cup {NoCtx}
    BY <1>1, <2>1 DEF DropChunks
  <2>4. NoneOrphaned'
    BY <2>1, <2>2, <2>3 DEF TreeInv, NoneOrphaned
  <2>5. CtxTypeOK'
    BY <1>1, <1>2, <1>3, <1>6, <2>1, <2>2, <2>3 DEF CtxTypeOK, Frames
  <2>6. CallsNested'
    BY <1>4, <1>5, <2>1, <2>2
  <2> QED BY <2>2, <2>4, <2>5, <2>6 DEF TreeInv
<1>7. CASE stack[1].then # "delete"
  <2>1. UNCHANGED treeVars /\ (UNCHANGED owner \/ DropChunks({c}))
    BY <1>7 DEF FinishCall
  <2>2. ListsOfChildren' /\ NoCycle'
    BY <2>1, TreeFrame
  <2>3. owner' \in [CtxHandles -> Ctx \cup {NoCtx}] /\ \A h \in CtxHandles : owner'[h] \in node \cup {NoCtx}
    BY <1>1, <2>1 DEF DropChunks
  <2>4. NoneOrphaned'
    BY <2>1, <2>3 DEF TreeInv, NoneOrphaned, treeVars
  <2>5. CtxTypeOK'
    BY <1>1, <1>2, <2>1, <2>3 DEF TreeInv, CtxTypeOK, treeVars, Frames
  <2>6. \A S : UpClosed(S)' => UpClosed(S)
    BY <2>1 DEF UpClosed, StaysIn, treeVars
  <2>7. CallsNested'
    BY <1>4, <1>5, <2>1, <2>6 DEF treeVars
  <2> QED BY <2>2, <2>4, <2>5, <2>7 DEF TreeInv
<1> QED BY <1>6, <1>7

\* What is below a context is what it is an ancestor of: fields lead from a
\* context only to its children and to others with the same parent, and lead
\* to all of these.
LEMMA BelowIsDescendants ==
  ASSUME TreeInv, NEW c \in node
  PROVE  Below(c) = {d \in node : c \in Ancestors(d)}
<1> USE CtxAssumption
<1> DEFINE D == {d \in node : c \in Ancestors(d)}
<1>1. /\ parent \in [Ctx -> Ctx \cup {NoCtx}] /\ node \subseteq Ctx /\ c \in Ctx
      /\ \A x \in node : parent[x] \in node \cup {NoCtx}
  BY DEF TreeInv, CtxTypeOK, NoneOrphaned
<1>2. \A p \in node : ListOf(Children(p), firstchild[p], nextchild)
  BY DEF TreeInv, ListsOfChildren
<1>3. c \in D
  BY <1>1 DEF Ancestors
<1>4. ASSUME NEW x \in node, parent[x] \in D PROVE x \in D
  <2> SUFFICES ASSUME NEW S \in SUBSET Ctx, x \in S, \A y \in S : StaysIn(S, parent, y) PROVE c \in S
    BY <1>1 DEF Ancestors
  <2>1. parent[x] \in S
    BY <1>1, <1>4 DEF StaysIn
  <2> QED BY <1>1, <1>4, <2>1 DEF Ancestors
<1>5. ASSUME NEW x \in D, x # c PROVE parent[x] \in D
  <2>1. ASSUME NEW S \in SUBSET Ctx, parent[x] \in S \cup {NoCtx}, \A y \in S : StaysIn(S, parent, y)
        PROVE  c \in S
    <3>1. \A y \in S \cup {x} : StaysIn(S \cup {x}, parent, y)
      BY <2>1 DEF StaysIn
    <3>2. S \cup {x} \in SUBSET Ctx
      BY <1>1
    <3> QED BY <1>5, <3>1, <3>2 DEF Ancestors
  <2>2. parent[x] # NoCtx
    <3> SUFFICES ASSUME parent[x] = NoCtx PROVE FALSE
      OBVIOUS
    <3>1. {} \in SUBSET Ctx /\ \A y \in {} : StaysIn({}, parent, y)
      OBVIOUS
    <3>2. c \in {}
      BY <2>1, <3>1
    <3> QED BY <3>2
  <2>3. parent[x] \in node
    BY <1>1, <2>2
  <2> QED BY <1>1, <2>1, <2>3 DEF Ancestors
<1>6. ASSUME NEW d \in Below(c) PROVE d \in D
  <2>1. \A x \in D : StaysIn(D, firstchild, x)
    BY <1>2, <1>4 DEF ListOf, Children, StaysIn
  <2>2. ASSUME NEW x \in D, x # c PROVE StaysIn(D, nextchild, x)
    <3>1. parent[x] \in D /\ x \in Children(parent[x]) /\ parent[x] \in node
      BY <1>5, <2>2 DEF Children
    <3>2. nextchild[x] \in Children(parent[x]) \cup {NoCtx}
      BY <1>2, <3>1 DEF ListOf
    <3> QED BY <1>4, <3>1, <3>2 DEF Children, StaysIn
  <2>3. D \in SUBSET Ctx
    BY <1>1
  <2> QED BY <1>3, <2>1, <2>2, <2>3 DEF Below
<1>7. ASSUME NEW d \in D PROVE d \in Below(c)
  <2> SUFFICES ASSUME NEW S \in SUBSET Ctx, c \in S, d \notin S,
                      \A x \in S : StaysIn(S, firstchild, x) /\ (x # c => StaysIn(S, nextchild, x))
               PROVE  FALSE
    BY <1>1 DEF Below
  <2> DEFINE R == S \cap D
             U == node \ R
  <2>1. ASSUME NEW x \in U PROVE StaysIn(U, parent, x)
    <3> SUFFICES ASSUME parent[x] \in R PROVE FALSE
      BY <1>1 DEF StaysIn
    <3> DEFINE p == parent[x]
               K == S \cap Children(p)
    <3>1. p \in node /\ x \in Children(p) /\ p \in S /\ c \in Ancestors(p) /\ p # NoCtx
      BY <1>1 DEF Children
    <3>2. c \notin Children(p)
      <4> SUFFICES ASSUME parent[c] = p PROVE FALSE
        BY DEF Children
      <4>1. PICK V \in SUBSET node : UpClosed(V) /\ p \in V /\ c \notin V
        BY <3>1 DEF TreeInv, NoCycle
      <4> QED BY <1>1, <3>1, <4>1 DEF UpClosed, Ancestors
    <3>3. ListOf(Children(p), firstchild[p], nextchild)
      BY <1>2, <3>1
    <3>4. firstchild[p] \in K \cup {NoCtx}
      BY <3>1, <3>3 DEF ListOf, StaysIn
    <3>5. \A y \in K : nextchild[y] \in K \cup {NoCtx}
      BY <3>2, <3>3 DEF ListOf, StaysIn
    <3>6. Children(p) \subseteq K
      BY <3>3, <3>4, <3>5 DEF ListOf
    <3>7. x \in S /\ x \in D
      BY <1>4, <3>1, <3>6
    <3> QED BY <3>7
  <2>2. U \in SUBSET Ctx /\ d \in U /\ c \notin U
    BY <1>1, <1>3
  <2> QED BY <2>1, <2>2 DEF Ancestors
<1> QED BY <1>6, <1>7

\* The invariant implies what the run checks: see TreeOK.
LEMMA TreeHolds == TreeInv => TreeKept
<1> SUFFICES ASSUME TreeInv PROVE TreeOK
  BY DEF TreeInv, TreeKept
<1> SUFFICES ASSUME NEW c \in node
             PROVE  /\ firstchild[c] # NoCtx => firstchild[c] \in Children(c)
                    /\ firstchild[c] = NoCtx => Children(c) = {}
                    /\ \A d \in Children(c) :
                         /\ nextchild[d] # NoCtx => nextchild[d] \in Children(c) \ {firstchild[c], d}
                         /\ d # firstchild[c] => \E e \in Children(c) : nextchild[e] = d
                    /\ memory_context_check(c) = {d \in node : c \in Ancestors(d)}
                    /\ \A d, e \in Children(c) : nextchild[d] = nextchild[e] /\ nextchild[d] # NoCtx => d = e
  BY DEF TreeOK
<1>1. ListOf(Children(c), firstchild[c], nextchild) /\ NoCtx \notin Children(c)
  BY ChildrenType DEF TreeInv, ListsOfChildren, CtxTypeOK
<1>2. firstchild[c] = NoCtx => Children(c) = {}
  BY <1>1, ListEmpty
<1>3. \A d \in Children(c) :
        /\ nextchild[d] # NoCtx => nextchild[d] \in Children(c) \ {firstchild[c], d}
        /\ d # firstchild[c] => \E e \in Children(c) : nextchild[e] = d
  <2> SUFFICES ASSUME NEW d \in Children(c)
               PROVE  /\ nextchild[d] # NoCtx => nextchild[d] \in Children(c) \ {firstchild[c], d}
                      /\ d # firstchild[c] => \E e \in Children(c) : nextchild[e] = d
    BY Zenon
  <2>1. (d # firstchild[c] => \E e \in Children(c) : nextchild[e] = d) /\ nextchild[d] # d
    BY ONLY <1>1, ListBefore
  <2> QED BY <1>1, <2>1 DEF ListOf
<1>4. memory_context_check(c) = {d \in node : c \in Ancestors(d)}
  BY BelowIsDescendants DEF memory_context_check
<1> QED BY <1>1, <1>2, <1>3, <1>4 DEF ListOf

\* A step that changes neither the tree nor the calls: what it has to keep.
LEMMA OwnersKeep ==
  ASSUME TreeInv, UNCHANGED treeVars, UNCHANGED stack, ctxDead' \in BOOLEAN,
         stack = <<>> \/ UNCHANGED CurrentMemoryContext, CurrentMemoryContext' \in node,
         owner' \in [CtxHandles -> node \cup {NoCtx}]
  PROVE  TreeInv'
<1>1. CtxTypeOK'
  BY DEF TreeInv, CtxTypeOK, treeVars
<1>2. NoneOrphaned'
  BY DEF TreeInv, NoneOrphaned, treeVars
<1> QED BY <1>1, <1>2, TreeFrame, CallsFrame DEF TreeInv

\* A step that does nothing but make a call.
LEMMA CallKeeps ==
  ASSUME TreeInv, UNCHANGED treeVars, UNCHANGED <<owner, CurrentMemoryContext>>, ctxDead' \in BOOLEAN,
         CallsNested' /\ stack' \in Seq(Frames)
  PROVE  TreeInv'
<1>1. CtxTypeOK'
  BY DEF TreeInv, CtxTypeOK, treeVars, Frames
<1>2. NoneOrphaned'
  BY DEF TreeInv, NoneOrphaned, treeVars
<1> QED BY <1>1, <1>2, TreeFrame DEF TreeInv

\* Every step of the contexts keeps the invariant.
LEMMA TreeStepKeeps == TreeInv /\ CtxNext => TreeInv'
<1> SUFFICES ASSUME TreeInv, CtxNext PROVE TreeInv'
  OBVIOUS
<1>0. /\ ctxDead \in BOOLEAN /\ CurrentMemoryContext \in node /\ node \subseteq Ctx
      /\ owner \in [CtxHandles -> node \cup {NoCtx}]
  BY DEF TreeInv, CtxTypeOK, NoneOrphaned
<1>1. CASE \E c \in Ctx : \E p \in Ctx \cup {NoCtx} : memory_context_create(c, p)
  BY <1>1, CreateKeeps
<1>2. CASE \E c \in Ctx : memory_context_reset(c) \/ memory_context_reset_children(c)
  BY <1>0, <1>2, OwnersKeep DEF memory_context_reset, memory_context_reset_children, DropChunks, CtxIdle
<1>3. ASSUME NEW c \in Ctx, memory_context_delete(c) PROVE TreeInv'
  <2> DEFINE f == [ctx |-> c, then |-> "delete"]
  <2>1. /\ c \in node /\ stack = <<>> /\ UNCHANGED treeVars /\ UNCHANGED <<owner, CurrentMemoryContext>>
        /\ \/ ctxDead' = TRUE /\ UNCHANGED stack
           \/ stack' = <<f>> \o <<>> /\ c # CurrentMemoryContext /\ UNCHANGED ctxDead
    BY <1>3 DEF memory_context_delete, CtxIdle, CallDelete
  <2>2. CASE ctxDead' = TRUE /\ UNCHANGED stack
    BY <1>0, <2>1, <2>2, OwnersKeep
  <2>3. CASE stack' = <<f>> \o <<>> /\ c # CurrentMemoryContext /\ UNCHANGED ctxDead
    <3>1. stack' = <<f>> /\ f \in Frames /\ f.ctx \in node /\ f.ctx # CurrentMemoryContext
      BY <2>1, <2>3 DEF Frames
    <3> HIDE DEF f
    <3>2. CallsNested' /\ stack' \in Seq(Frames)
      BY <2>1, <3>1, FirstCallNested
    <3> QED BY <1>0, <2>1, <2>3, <3>2, CallKeeps
  <2> QED BY <2>1, <2>2, <2>3
<1>4. ASSUME NEW c \in Ctx, NEW then \in {"return", "reset"}, delete_children(c, then) PROVE TreeInv'
  <2> DEFINE f == [ctx |-> c, then |-> then]
  <2>1. /\ c \in node /\ UNCHANGED treeVars /\ UNCHANGED <<owner, CurrentMemoryContext, ctxDead>>
        /\ stack' = <<f>> /\ f \in Frames /\ f.ctx \in node /\ f.then # "delete"
    BY <1>4 DEF delete_children, Frames
  <2> HIDE DEF f
  <2>2. CallsNested' /\ stack' \in Seq(Frames)
    BY <2>1, FirstCallNested
  <2> QED BY <1>0, <2>1, <2>2, CallKeeps
<1>5. CASE \E c \in Ctx : memory_context_switch_to(c)
  BY <1>0, <1>5, OwnersKeep DEF memory_context_switch_to, CtxIdle
<1>6. CASE \E c \in Ctx, h \in CtxHandles : memory_context_alloc(h, c)
  BY <1>0, <1>6, OwnersKeep DEF memory_context_alloc
<1>7. CASE \E h \in CtxHandles : pfree(h)
  BY <1>0, <1>7, OwnersKeep DEF pfree
<1>8. CASE NextChild
  <2>1. /\ UNCHANGED treeVars /\ UNCHANGED <<owner, CurrentMemoryContext>> /\ ctxDead' \in BOOLEAN
    BY <1>0, <1>8 DEF NextChild, CallDelete
  <2> QED BY <1>8, <2>1, NextChildNested, CallKeeps
<1>9. CASE FinishCall
  BY <1>9, FinishKeeps
<1> QED BY <1>1, <1>2, <1>3, <1>4, <1>5, <1>6, <1>7, <1>8, <1>9 DEF CtxNext, CtxStep

\* The invariant of the contexts, over the joint next-state relation.
LEMMA TreeSteps == TreeInv /\ [Next]_vars => TreeInv'
<1> SUFFICES ASSUME TreeInv, [Next]_vars PROVE TreeInv'
  OBVIOUS
<1>1. CtxNext \/ UNCHANGED ctxVars
  BY DEF Next, vars
<1>2. CASE UNCHANGED ctxVars
  BY <1>2, OwnersKeep DEF TreeInv, CtxTypeOK, NoneOrphaned, ctxVars
<1> QED BY <1>1, <1>2, TreeStepKeeps

\* The contexts are a tree at every moment, also between any two steps of a
\* deletion of many: a context's list has exactly its children, once each; the
\* walks of memory_context_check, memory_context_stats and memory_context_reset
\* meet exactly its descendants; and every chunk is in a context that exists.
THEOREM ContextsAreATree == Spec => []TreeKept
<1>1. Init => TreeInv
  BY TreeStarts DEF Init
<1> QED BY <1>1, TreeSteps, TreeHolds, PTL DEF Spec

\* A reset takes the chunks of the context and of those below it, and no other.
LEMMA ResetTakes ==
  ASSUME TreeInv, NEW c \in Ctx, memory_context_reset(c), NEW h \in CtxHandles, owner[h] # NoCtx
  PROVE  owner'[h] = NoCtx <=> c \in Ancestors(owner[h])
<1>1. c \in node /\ owner[h] \in node /\ owner'[h] = IF owner[h] \in Below(c) THEN NoCtx ELSE owner[h]
  BY DEF TreeInv, NoneOrphaned, memory_context_reset, DropChunks
<1>2. owner[h] \in Below(c) <=> c \in Ancestors(owner[h])
  BY <1>1, BelowIsDescendants
<1> QED BY <1>1, <1>2

\* memory_context_reset leaves no chunk in the context or in any below it,
\* however deep, and takes none from elsewhere.
THEOREM ResetsAreExact == Spec => ResetExact
<1>1. Init => TreeInv
  BY TreeStarts DEF Init
<1>2. TreeInv /\ [Next]_vars =>
        [\A c \in Ctx : memory_context_reset(c) =>
           \A h \in CtxHandles : owner[h] # NoCtx =>
             (owner'[h] = NoCtx <=> c \in Ancestors(owner[h]))]_ctxVars
  BY ResetTakes
<1> QED BY <1>1, <1>2, TreeSteps, PTL DEF Spec, ResetExact
=============================================================================
