------------------------------- MODULE Dllist -------------------------------
(***************************************************************************)
(* The doubly linked lists of lib/dllist.c, with the assignments in the    *)
(* order and under the conditions of the code.  An element remembers the   *)
(* list it is in; taking off the head or the tail clears one link only,    *)
(* because the other is already null.  elems and lists are what is         *)
(* allocated.  Callers add an element that is in no list and remove one    *)
(* that is in one.                                                         *)
(***************************************************************************)
EXTENDS Ring, SequencesExt

CONSTANTS DlLists, DlElems, NoElem

ASSUME DlAssumption ==
  NoElem \notin DlElems \cup DlLists /\ DlElems \cap DlLists = {} /\ IsFiniteSet(DlElems)

VARIABLES dlElems, dll_head, dll_tail, dle_next, dle_prev, dle_list

dlVars == <<dlElems, dll_head, dll_tail, dle_next, dle_prev, dle_list>>

\* DLNewList and DLInitList: the list starts empty.
DlInit ==
  /\ dlElems = {}
  /\ dll_head = [l \in DlLists |-> NoElem] /\ dll_tail = [l \in DlLists |-> NoElem]
  /\ dle_next = [e \in DlElems |-> NoElem] /\ dle_prev = [e \in DlElems |-> NoElem]
  /\ dle_list = [e \in DlElems |-> NoElem]

\* f with f[x] = v, unless x is null.
Put(f, x, v) == IF x = NoElem THEN f ELSE [f EXCEPT ![x] = v]

\* DLNewElem and DLInitElem; DLFreeElem.
DLNewElem(e) ==
  /\ e \notin dlElems
  /\ dlElems' = dlElems \cup {e}
  /\ dle_next' = [dle_next EXCEPT ![e] = NoElem] /\ dle_prev' = [dle_prev EXCEPT ![e] = NoElem]
  /\ dle_list' = [dle_list EXCEPT ![e] = NoElem]
  /\ UNCHANGED <<dll_head, dll_tail>>

DLFreeElem(e) ==
  /\ e \in dlElems /\ dle_list[e] = NoElem
  /\ dlElems' = dlElems \ {e}
  /\ UNCHANGED <<dll_head, dll_tail, dle_next, dle_prev, dle_list>>

DLRemove(e) ==
  LET l == dle_list[e] IN
  /\ e \in dlElems /\ l # NoElem
  /\ dll_head' = IF dle_prev[e] = NoElem THEN [dll_head EXCEPT ![l] = dle_next[e]] ELSE dll_head
  /\ dll_tail' = IF dle_next[e] = NoElem THEN [dll_tail EXCEPT ![l] = dle_prev[e]] ELSE dll_tail
  /\ dle_next' = [Put(dle_next, dle_prev[e], dle_next[e]) EXCEPT ![e] = NoElem]
  /\ dle_prev' = [Put(dle_prev, dle_next[e], dle_prev[e]) EXCEPT ![e] = NoElem]
  /\ dle_list' = [dle_list EXCEPT ![e] = NoElem]
  /\ UNCHANGED dlElems

DLAddHead(l, e) ==
  /\ e \in dlElems /\ dle_list[e] = NoElem
  /\ dle_list' = [dle_list EXCEPT ![e] = l]
  /\ dle_prev' = [Put(dle_prev, dll_head[l], e) EXCEPT ![e] = NoElem]
  /\ dle_next' = [dle_next EXCEPT ![e] = dll_head[l]]
  /\ dll_head' = [dll_head EXCEPT ![l] = e]
  /\ dll_tail' = [dll_tail EXCEPT ![l] = IF @ = NoElem THEN e ELSE @]
  /\ UNCHANGED dlElems

DLAddTail(l, e) ==
  /\ e \in dlElems /\ dle_list[e] = NoElem
  /\ dle_list' = [dle_list EXCEPT ![e] = l]
  /\ dle_next' = [Put(dle_next, dll_tail[l], e) EXCEPT ![e] = NoElem]
  /\ dle_prev' = [dle_prev EXCEPT ![e] = dll_tail[l]]
  /\ dll_tail' = [dll_tail EXCEPT ![l] = e]
  /\ dll_head' = [dll_head EXCEPT ![l] = IF @ = NoElem THEN e ELSE @]
  /\ UNCHANGED dlElems

\* Mutant: the tail of a list that becomes empty is left.
DLRemHead_tail(l) ==
  LET e == dll_head[l] IN
  /\ e # NoElem
  /\ dle_prev' = Put(dle_prev, dle_next[e], NoElem)
  /\ dll_head' = [dll_head EXCEPT ![l] = dle_next[e]]
  /\ dle_next' = [dle_next EXCEPT ![e] = NoElem]
  /\ dle_list' = [dle_list EXCEPT ![e] = NoElem]
  /\ UNCHANGED <<dlElems, dll_tail>>

DLRemHead(l) ==
  LET e == dll_head[l] IN
  /\ e # NoElem
  /\ dle_prev' = Put(dle_prev, dle_next[e], NoElem)
  /\ dll_head' = [dll_head EXCEPT ![l] = dle_next[e]]
  /\ dll_tail' = IF dll_tail[l] = e THEN [dll_tail EXCEPT ![l] = NoElem] ELSE dll_tail
  /\ dle_next' = [dle_next EXCEPT ![e] = NoElem]
  /\ dle_list' = [dle_list EXCEPT ![e] = NoElem]
  /\ UNCHANGED dlElems

DLRemTail(l) ==
  LET e == dll_tail[l] IN
  /\ e # NoElem
  /\ dle_next' = Put(dle_next, dle_prev[e], NoElem)
  /\ dll_tail' = [dll_tail EXCEPT ![l] = dle_prev[e]]
  /\ dll_head' = IF dll_head[l] = e THEN [dll_head EXCEPT ![l] = NoElem] ELSE dll_head
  /\ dle_prev' = [dle_prev EXCEPT ![e] = NoElem]
  /\ dle_list' = [dle_list EXCEPT ![e] = NoElem]
  /\ UNCHANGED dlElems

\* Mutant: the element that becomes the tail is forgotten.
DLMoveToFront_tail(e) ==
  LET l == dle_list[e]
      h == dll_head[l]
  IN
  /\ e \in dlElems /\ l # NoElem /\ h # e
  /\ dle_next' = [dle_next EXCEPT ![dle_prev[e]] = dle_next[e], ![e] = h]
  /\ dle_prev' = [Put(dle_prev, dle_next[e], dle_prev[e]) EXCEPT ![h] = e, ![e] = NoElem]
  /\ dll_head' = [dll_head EXCEPT ![l] = e]
  /\ UNCHANGED <<dlElems, dll_tail, dle_list>>

DLMoveToFront(e) ==
  LET l == dle_list[e]
      h == dll_head[l]
  IN
  /\ e \in dlElems /\ l # NoElem /\ h # e
  /\ dle_next' = [dle_next EXCEPT ![dle_prev[e]] = dle_next[e], ![e] = h]
  /\ dle_prev' = [Put(dle_prev, dle_next[e], dle_prev[e]) EXCEPT ![h] = e, ![e] = NoElem]
  /\ dll_tail' = IF dle_next[e] = NoElem THEN [dll_tail EXCEPT ![l] = dle_prev[e]] ELSE dll_tail
  /\ dll_head' = [dll_head EXCEPT ![l] = e]
  /\ UNCHANGED <<dlElems, dle_list>>

\* What DLGetHead and DLGetSucc, and DLGetTail and DLGetPred, walk through.
DlForward(l) == Follow(dll_head[l], dle_next, NoElem, Cardinality(DlElems))
DlBackward(l) == Follow(dll_tail[l], dle_prev, NoElem, Cardinality(DlElems))

\* DLFreeList takes the elements off one by one and frees them, then the
\* header (a list of the same name is made by DLNewList).
DLFreeList(l) ==
  LET gone == Range(DlForward(l)) IN
  /\ dlElems' = dlElems \ gone
  /\ dll_head' = [dll_head EXCEPT ![l] = NoElem] /\ dll_tail' = [dll_tail EXCEPT ![l] = NoElem]
  /\ dle_list' = [e \in DlElems |-> IF e \in gone THEN NoElem ELSE dle_list[e]]
  /\ dle_next' = [e \in DlElems |-> IF e \in gone THEN NoElem ELSE dle_next[e]]
  /\ dle_prev' = [e \in DlElems |-> IF e \in gone THEN NoElem ELSE dle_prev[e]]

DlNext ==
  \/ \E e \in DlElems : \/ DLNewElem(e) \/ DLFreeElem(e) \/ DLRemove(e) \/ DLMoveToFront(e)
                        \/ \E l \in DlLists : DLAddHead(l, e) \/ DLAddTail(l, e)
  \/ \E l \in DlLists : DLRemHead(l) \/ DLRemTail(l) \/ DLFreeList(l)

-----------------------------------------------------------------------------
(* Properties.                                                             *)

\* Both directions of every list agree, every element on a list is allocated
\* and knows which list it is on, and an element on none has null links, so
\* that DLRemove can tell the head and the tail of a list by a null link.
DlWellLinked ==
  /\ \A l \in DlLists :
       /\ DlBackward(l) = Reverse(DlForward(l))
       /\ Range(DlForward(l)) = {e \in dlElems : dle_list[e] = l}
  /\ \A e \in dlElems : dle_list[e] = NoElem => dle_next[e] = NoElem /\ dle_prev[e] = NoElem

DlSeqs == INSTANCE SeqLists WITH Lists <- DlLists, Elems <- DlElems,
                                 q <- [l \in DlLists |-> DlForward(l)]

\* With the lists read off the links, every routine of dllist.c inserts one
\* element, takes one out, moves one to the front or empties one list; no
\* element is lost, no other element changes place, no other list changes.
DlImplements ==
  DlSeqs!Init /\ [][UNCHANGED [l \in DlLists |-> DlForward(l)] \/ DlSeqs!Next]_dlVars
=============================================================================
