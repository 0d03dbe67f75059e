------------------------------ MODULE SeqLists ------------------------------
(***************************************************************************)
(* What the linked lists of this code base promise, without links: every   *)
(* list is a sequence, an element is in at most one of them, and an        *)
(* operation changes one place of one sequence.  Dllist, ShmQueue,         *)
(* OrderedSet and its stacks are shown to implement it.                    *)
(***************************************************************************)
EXTENDS Naturals, SequencesExt

CONSTANTS Lists, Elems

VARIABLE q    \* the sequence of every list

Members == UNION {Range(q[l]) : l \in Lists}

Init == q = [l \in Lists |-> <<>>]

\* e becomes element number i of l.
Insert(l, i, e) ==
  /\ e \notin Members
  /\ i \in 1..Len(q[l]) + 1
  /\ q' = [q EXCEPT ![l] = InsertAt(@, i, e)]

\* Element number i leaves l.
Take(l, i) == i \in 1..Len(q[l]) /\ q' = [q EXCEPT ![l] = RemoveAt(@, i)]

\* Element number i of l is moved to the front.
ToFront(l, i) ==
  i \in 1..Len(q[l]) /\ q' = [q EXCEPT ![l] = InsertAt(RemoveAt(@, i), 1, q[l][i])]

\* l becomes empty.
Clear(l) == q' = [q EXCEPT ![l] = <<>>]

Next ==
  \E l \in Lists :
    \/ Clear(l)
    \/ \E e \in Elems, i \in 1..Len(q[l]) + 1 : Insert(l, i, e)
    \/ \E i \in 1..Len(q[l]) : Take(l, i) \/ ToFront(l, i)

Spec == Init /\ [][Next]_q
=============================================================================
