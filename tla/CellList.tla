------------------------------ MODULE CellList ------------------------------
(***************************************************************************)
(* The lists of nodes/list.c, as cons cells that lists share.              *)
(*                                                                         *)
(* heap is the cells, root the pointers callers keep.  A routine that      *)
(* makes or changes cells is an operator on a heap and gives the heap      *)
(* after it and the list it returns.  A cell no root leads to is taken to  *)
(* be free again.                                                          *)
(*                                                                         *)
(* nconc stores into the first list's first cell, not its last, and        *)
(* list_copy reads the first cell of an empty list; both are kept as they  *)
(* are.  So is the knot tied by appending a list to itself, which the code *)
(* reports (elog returns) and then does; no loop over such a list ends,    *)
(* and nothing goes on from there.                                         *)
(***************************************************************************)
EXTENDS Ring, SequencesExt, FiniteSetsExt

CONSTANTS
  NumCells,             \* bound: cells that exist at one time
  Data,                 \* elements
  Roots

ASSUME CellAssumption == NumCells \in Nat \ {0} /\ Data \subseteq Nat

NIL == 0
Cells == 1..NumCells

VARIABLES
  heap, root,
  crashed,              \* a routine has read through NIL
  knotted               \* a list was appended to one that has its first cell

listVars == <<heap, root, crashed, knotted>>

Blank == [elem |-> 0, next |-> NIL]
ListInit == heap = [c \in Cells |-> Blank] /\ root = [r \in Roots |-> NIL] /\ crashed = FALSE /\ knotted = FALSE

\* The cells of a list, the loop of FOR_EACH, and the elements in them.
FOR_EACH(h, l) == Follow(l, [c \in DOMAIN h |-> h[c].next], NIL, NumCells)
Contents(h, l) == LET s == FOR_EACH(h, l) IN [i \in 1..Len(s) |-> h[s[i]].elem]
length(h, l) == Len(FOR_EACH(h, l))

Reached(h, rs) == UNION {ToSet(FOR_EACH(h, l)) : l \in rs}

-----------------------------------------------------------------------------

\* A new cell in front of l; busy is the cells that are in use.  Mutant:
\* the end of a new list is not set to NIL.
lcons_self(h, busy, d, l) ==
  LET c == Min(Cells \ busy)
  IN  [h |-> [h EXCEPT ![c] = [elem |-> d, next |-> IF l = NIL THEN c ELSE l]], l |-> c]

lcons(h, busy, d, l) ==
  LET c == Min(Cells \ busy) IN [h |-> [h EXCEPT ![c] = [elem |-> d, next |-> l]], l |-> c]

\* list_copy of a list that is not empty.  Mutant: the rest is shared.
list_copy_shared(h, busy, l) == lcons(h, busy, h[l].elem, h[l].next)

list_copy(h, busy, l) ==
  LET from == FOR_EACH(h, l)
      to == SubSeq(SetToSortSeq(Cells \ busy, <), 1, Len(from))
      pos(c) == CHOOSE i \in 1..Len(to) : to[i] = c
  IN  [h |-> [c \in Cells |->
                IF c \notin ToSet(to) THEN h[c]
                ELSE [elem |-> h[from[pos(c)]].elem,
                      next |-> IF pos(c) = Len(to) THEN NIL ELSE to[pos(c) + 1]]],
       l |-> to[1]]

\* nconc: b is put behind the first cell of a, whose other cells are lost
\* ("concat l2 on to the end of l1"); lappend does the same with a new cell.
nconc(h, a, b) ==
  IF a = NIL THEN [h |-> h, l |-> b]
  ELSE [h |-> IF b = NIL THEN h ELSE [h EXCEPT ![a].next = b], l |-> a]

lappend(h, busy, l, d) == LET n == lcons(h, busy, d, NIL) IN nconc(n.h, l, n.l)

\* lremove and lisp_remove: the first cell with d is bypassed.  Mutant: so is
\* what follows it.
lremove_rest(h, d, l) ==
  LET at == {i \in 1..length(h, l) : Contents(h, l)[i] = d}
      i == Min(at)
  IN  IF at = {} THEN [h |-> h, l |-> l]
      ELSE IF i = 1 THEN [h |-> h, l |-> NIL]
      ELSE [h |-> [h EXCEPT ![FOR_EACH(h, l)[i - 1]].next = NIL], l |-> l]

lremove(h, d, l) ==
  LET at == {i \in 1..length(h, l) : Contents(h, l)[i] = d}
      i == Min(at)
      after == h[FOR_EACH(h, l)[i]].next
  IN  IF at = {} THEN [h |-> h, l |-> l]
      ELSE IF i = 1 THEN [h |-> h, l |-> after]
      ELSE [h |-> [h EXCEPT ![FOR_EACH(h, l)[i - 1]].next = after], l |-> l]

\* The n-th cell becomes the last.
ltruncate(h, n, l) ==
  IF n = 0 THEN [h |-> h, l |-> NIL]
  ELSE [h |-> IF n <= length(h, l) THEN [h EXCEPT ![FOR_EACH(h, l)[n]].next = NIL] ELSE h, l |-> l]

\* nth counts from 0; set_nth stores there.
nth(h, n, l) == Contents(h, l)[n + 1]
set_nth(h, l, n, d) == [h |-> [h EXCEPT ![FOR_EACH(h, l)[n + 1]].elem = d], l |-> l]

\* member, of the versions for pointers, is not written yet.
member(h, d, l) == FALSE
int_member(h, d, l) == d \in Range(Contents(h, l))

\* Which of the two a routine calls is what tells its two versions apart.
IsMember(test, h, d, l) == IF test = "member" THEN member(h, d, l) ELSE int_member(h, d, l)

\* The loops of set_differencei and lisp_unioni append to a result, one
\* element after the other.  busy grows with the cells of the result.
AppendAll(h, busy, l, s) ==
  FoldLeft(LAMBDA acc, d : lappend(acc.h, busy \cup Reached(acc.h, {acc.l}), acc.l, d), [h |-> h, l |-> l], s)

set_differencei(h, busy, a, b, test) ==
  IF b = NIL THEN list_copy(h, busy, a)
  ELSE AppendAll(h, busy, NIL, SelectSeq(Contents(h, a), LAMBDA d : ~IsMember(test, h, d, b)))

\* An element of b is looked for in the result so far.
lisp_unioni(h, busy, a, b, test) ==
  LET used(acc) == busy \cup Reached(acc.h, {acc.l})
  IN  FoldLeft(LAMBDA acc, d : IF IsMember(test, acc.h, d, acc.l) THEN acc
                               ELSE lappend(acc.h, used(acc), acc.l, d),
               list_copy(h, busy, a), Contents(h, b))

\* make_list keeps no pointer to the cell before, so the last one is all that
\* is returned.
make_list(h, busy, s) == lcons(h, busy, s[Len(s)], NIL)

\* Mutant: the lengths are not compared.
same_seti_nolen(h, a, b) ==
  IF a = NIL \/ b = NIL THEN a = b
  ELSE \A i \in 1..length(h, a) : int_member(h, nth(h, i - 1, a), b)

same_seti(h, a, b) ==
  IF a = NIL \/ b = NIL THEN a = b
  ELSE length(h, a) = length(h, b) /\ \A i \in 1..length(h, a) : int_member(h, nth(h, i - 1, a), b)

non_overlap_setsi(h, a, b) == ~\E i \in 1..length(h, a) : int_member(h, nth(h, i - 1, a), b)
is_subseti(h, a, b) == \A i \in 1..length(h, a) : int_member(h, nth(h, i - 1, a), b)

-----------------------------------------------------------------------------
(* Actions: a caller assigns what a routine returned to a root.            *)

Busy == Reached(heap, {root[r] : r \in Roots})

\* There are cells for n more.
Room(n) == Cardinality(Busy) + n <= NumCells

Assign(r, res) ==
  LET roots == [root EXCEPT ![r] = res.l]
      live == Reached(res.h, {roots[x] : x \in Roots})
  IN  /\ root' = roots
      /\ heap' = [c \in Cells |-> IF c \in live THEN res.h[c] ELSE Blank]
      /\ UNCHANGED <<crashed, knotted>>

ConsTo(r, d, s) == Room(1) /\ Assign(r, lcons(heap, Busy, d, root[s]))
AppendTo(r, d) == Room(1) /\ Assign(r, lappend(heap, Busy, root[r], d))

MakeList(r, d) == Room(1) /\ Assign(r, make_list(heap, Busy, <<d, d>>))

Nconc(a, b) ==
  LET res == nconc(heap, root[a], root[b])
  IN  /\ root' = [root EXCEPT ![a] = res.l]
      /\ heap' = [c \in Cells |-> IF c \in Reached(res.h, {root'[x] : x \in Roots}) THEN res.h[c] ELSE Blank]
      /\ knotted' = (root[a] \in Reached(heap, {root[b]}))
      /\ UNCHANGED crashed

RemoveFrom(r, d) == Assign(r, lremove(heap, d, root[r]))
Truncate(r, n) == Assign(r, ltruncate(heap, n, root[r]))
SetNth(r, n, d) == n < length(heap, root[r]) /\ Assign(r, set_nth(heap, root[r], n, d))

Copy(r, a) ==
  /\ root[a] # NIL /\ Room(length(heap, root[a]))
  /\ Assign(r, list_copy(heap, Busy, root[a]))

Difference(a, b) ==
  /\ root[b] # NIL \/ root[a] # NIL
  /\ Room(length(heap, root[a]))
  /\ \/ Assign(b, set_differencei(heap, Busy, root[a], root[b], "int_member"))
     \/ Assign(b, set_differencei(heap, Busy, root[a], root[b], "member"))

Union(a, b) ==
  /\ root[a] # NIL
  /\ Room(length(heap, root[a]) + length(heap, root[b]))
  /\ \/ Assign(b, lisp_unioni(heap, Busy, root[a], root[b], "int_member"))
     \/ Assign(b, lisp_unioni(heap, Busy, root[a], root[b], "member"))

\* list_copy, alone or in set_difference or lisp_union, reads through NIL.
CopyOfNil == (\E a \in Roots : root[a] = NIL) /\ crashed' = TRUE /\ UNCHANGED <<heap, root, knotted>>

\* free_list; the caller forgets the pointer, and frees no cell that another
\* list has.
free_list(r) ==
  /\ root[r] # NIL
  /\ \A s \in Roots \ {r} : Reached(heap, {root[r]}) \cap Reached(heap, {root[s]}) = {}
  /\ Assign(r, [h |-> heap, l |-> NIL])

ListNext ==
  /\ ~crashed /\ ~knotted
  /\ \/ \E r \in Roots, d \in Data : \/ AppendTo(r, d) \/ MakeList(r, d) \/ RemoveFrom(r, d)
                                     \/ \E n \in 0..NumCells - 1 : SetNth(r, n, d)
                                     \/ \E s \in Roots : ConsTo(r, d, s)
     \/ \E r \in Roots, n \in 0..NumCells : Truncate(r, n)
     \/ \E a, b \in Roots : Nconc(a, b) \/ Difference(a, b) \/ Union(a, b)
     \/ \E r, a \in Roots : Copy(r, a)
     \/ \E r \in Roots : free_list(r)
     \/ CopyOfNil

-----------------------------------------------------------------------------
(* Properties.                                                             *)

\* Every list ends, whatever is shared, bypassed, cut or appended, unless a
\* list is appended to one that has its first cell: to itself, or to one that
\* was consed onto it.
ListsEnd ==
  /\ heap \in [Cells -> [elem : Data \cup {0}, next : Cells \cup {NIL}]]
  /\ (\A c \in Cells : c \notin Reached(heap, {heap[c].next})) <=> ~knotted

\* "The result is a fresh List": copying, difference and union leave every
\* list what it was, and the result shares no cell with any of them.  (Which
\* elements are in it is not claimed: appending keeps the first and the last.)
FreshResult ==
  ~knotted =>
  \A a, b \in Roots :
    LET n == length(heap, root[a]) + length(heap, root[b])
        results == {list_copy(heap, Busy, root[a]),
                    set_differencei(heap, Busy, root[a], root[b], "int_member"),
                    lisp_unioni(heap, Busy, root[a], root[b], "int_member")}
    IN  root[a] # NIL /\ Room(n) =>
          \A res \in results :
            /\ \A c \in Busy : res.h[c] = heap[c]
            /\ Reached(res.h, {res.l}) \cap Busy = {}

\* Removing takes out the first cell with the element and no other, and
\* truncating keeps the first n, whichever cells other lists share.
RemoveExact ==
  ~knotted =>
  \A r \in Roots :
    LET s == Contents(heap, root[r])
        result(res) == Contents(res.h, res.l)
    IN  /\ \A d \in Data : result(lremove(heap, d, root[r])) = IF d \in Range(s) THEN RemoveFirst(s, d) ELSE s
        /\ \A n \in 0..NumCells : result(ltruncate(heap, n, root[r])) = SubSeq(s, 1, Min({n, Len(s)}))

NoDuplicates(s) == \A i, j \in DOMAIN s : s[i] = s[j] => i = j

\* The set predicates of integers agree with sets, on the lists the comments
\* allow: same_seti when there are no duplicates.  (Those of pointers call
\* member, which is not written.)
SetTestsRight ==
  ~knotted =>
  \A a, b \in Roots :
    LET s == Contents(heap, root[a])
        t == Contents(heap, root[b])
    IN  /\ is_subseti(heap, root[a], root[b]) <=> Range(s) \subseteq Range(t)
        /\ non_overlap_setsi(heap, root[a], root[b]) <=> Range(s) \cap Range(t) = {}
        /\ NoDuplicates(s) /\ NoDuplicates(t) =>
             (same_seti(heap, root[a], root[b]) <=> Range(s) = Range(t))

\* On lists that share cells, removing, truncating and the set tests of integers
\* do what their comments say, results that should be fresh are, and lists end
\* but for the knot that nconc ties.  (nconc, lappend, make_list, member, and
\* what is built from them, do not do what their comments say.)
ListsSound == ListsEnd /\ SetTestsRight /\ FreshResult /\ RemoveExact
=============================================================================
