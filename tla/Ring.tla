-------------------------------- MODULE Ring --------------------------------
(***************************************************************************)
(* The circular doubly linked list that the storage code uses three times: *)
(* the LRU ring of fd.c (header VfdCache[0]), the buffer free list of      *)
(* freelist.c (header Free_List_Descriptor) and the queues of shmqueue.c.  *)
(* Elements are array indexes or offsets; the two link fields are the      *)
(* functions next and prev, and the header h is an element of the list     *)
(* that carries no data.                                                   *)
(*                                                                         *)
(* The four operators below are the assignments those files make.  IsRing  *)
(* is what they are meant to maintain: walking next from the header visits *)
(* every member once and comes back, and prev is the same walk backwards.  *)
(* Follow is what such a walk meets, on lists of any kind.                 *)
(***************************************************************************)
EXTENDS Integers, FiniteSets, Sequences

\* next after e has been taken out of the list.
NextUnlinked(next, prev, e) == [next EXCEPT ![prev[e]] = next[e]]

\* prev after e has been taken out of the list.
PrevUnlinked(next, prev, e) == [prev EXCEPT ![next[e]] = prev[e]]

\* next after e has been put in front of the header, at the tail of the list.
NextAppended(next, prev, h, e) == [next EXCEPT ![e] = h, ![prev[h]] = e]

\* prev after e has been put in front of the header, at the tail of the list.
PrevAppended(next, prev, h, e) == [prev EXCEPT ![e] = prev[h], ![h] = e]

-----------------------------------------------------------------------------
\* s enumerates the elements of S without repetition, in positions 1..n.
Enumerates(s, n, S) ==
  /\ \A x \in S : \E i \in 1..n : s[i] = x
  /\ \A i, j \in 1..n : s[i] = s[j] => i = j

\* The element at position i of the ring that starts at h and visits s[1..n].
At(h, s, n, i) == IF i \in 1..n THEN s[i] ELSE h

\* The links follow s from the header h and back to it, in both directions.
Linked(h, s, n, next, prev) ==
  \A i \in 0..n : /\ next[At(h, s, n, i)] = At(h, s, n, i + 1)
                  /\ prev[At(h, s, n, i + 1)] = At(h, s, n, i)

\* The list with header h holds exactly the elements of S, each once.
IsRing(h, S, next, prev) ==
  \E s \in [1..Cardinality(S) -> S] :
    /\ Enumerates(s, Cardinality(S), S)
    /\ Linked(h, s, Cardinality(S), next, prev)

\* The singly linked list that starts at next[h] and ends with a link back to
\* h holds exactly the elements of S, each once (the VFD free list).
IsChain(h, S, next) ==
  \E s \in [1..Cardinality(S) -> S] :
    /\ Enumerates(s, Cardinality(S), S)
    /\ \A i \in 0..Cardinality(S) :
         next[At(h, s, Cardinality(S), i)] = At(h, s, Cardinality(S), i + 1)

-----------------------------------------------------------------------------
\* The elements that the links next visit from first until stop, at most n + 1
\* of them (the limit ends the walk along a list that is broken).
Follow(first, next, stop, n) ==
  LET path[i \in 0..n] ==
        IF i = 0 THEN (IF first = stop THEN <<>> ELSE <<first>>)
        ELSE LET p == path[i - 1]
             IN  IF Len(p) < i THEN p ELSE IF next[p[i]] = stop THEN p ELSE Append(p, next[p[i]])
  IN  path[n]
=============================================================================
