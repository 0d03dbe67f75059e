----------------------------- MODULE OrderedSet -----------------------------
(***************************************************************************)
(* The intrusive containers of utils/mmgr/oset.c and utils/misc/fstack.c.  *)
(*                                                                         *)
(* An ordered set's header holds head, dummy and tail next to each other,  *)
(* and the code uses &head and &dummy as if they were elements: the next   *)
(* field of the element at &head is head and its prev field is dummy; the  *)
(* next field of the one at &dummy is dummy, its prev field is tail.  The  *)
(* module keeps the cells, so that the overlap is as it is in memory.      *)
(* An item of a stack has one link.                                        *)
(***************************************************************************)
EXTENDS Ring, SequencesExt

CONSTANTS OSets, OElems, FStacks, FItems, Null

AtHead(s) == <<"head", s>>
AtDummy(s) == <<"dummy", s>>
AtTail(s) == <<"tail", s>>
Link(f, e) == <<f, e>>

Pseudo == {AtHead(s) : s \in OSets} \cup {AtDummy(s) : s \in OSets}
\* Headers and elements are different objects, and none is the null pointer.
ASSUME OSetAssumption ==
  /\ Pseudo \cap OElems = {} /\ FStacks \cap FItems = {}
  /\ Null \notin OElems \cup FItems /\ Null \notin Pseudo
  /\ IsFiniteSet(OElems) /\ IsFiniteSet(FItems)

OCells == Pseudo \cup {AtTail(s) : s \in OSets} \cup {"next", "prev"} \X OElems

VARIABLES
  cell,                 \* the contents of the cells
  oset,                 \* the set field of every element
  top, fnext            \* stacks

osetVars == <<cell, oset>>
stackVars == <<top, fnext>>

\* The cells that x->next and x->prev are.
NextCell(x) == IF x \in Pseudo THEN x ELSE Link("next", x)
PrevCell(x) == IF x \in Pseudo
               THEN (IF x[1] = "head" THEN AtDummy(x[2]) ELSE AtTail(x[2]))
               ELSE Link("prev", x)

\* ordered_set_init; fixed_stack_init.
OSetInit ==
  /\ cell = [c \in OCells |-> CASE c[1] = "head" -> AtDummy(c[2])
                                [] c[1] = "tail" -> AtHead(c[2]) [] OTHER -> Null]
  /\ oset = [e \in OElems |-> Null]

StackInit ==
  /\ top = [s \in FStacks |-> Null]
  /\ fnext = [i \in FItems |-> Null]

\* ordered_elem_push_into, with ordered_elem_push and ordered_elem_push_head:
\* four stores, each seeing the ones before it.  Mutant: the third is missed.
ordered_elem_push_into_noprev(e, s) ==
  /\ cell[Link("next", e)] = Null
  /\ oset' = [oset EXCEPT ![e] = s]
  /\ cell' = [cell EXCEPT ![Link("next", e)] = cell[AtHead(s)], ![Link("prev", e)] = AtHead(s),
                          ![NextCell(AtHead(s))] = e]

ordered_elem_push_into(e, s) ==
  LET first == cell[AtHead(s)] IN
  /\ cell[Link("next", e)] = Null
  /\ oset' = [oset EXCEPT ![e] = s]
  /\ cell' = [cell EXCEPT ![Link("next", e)] = first, ![Link("prev", e)] = AtHead(s),
                          ![PrevCell(first)] = e, ![NextCell(AtHead(s))] = e]

\* Mutant: only the element before it is relinked.
ordered_elem_pop_one(e) ==
  /\ cell[Link("next", e)] # Null
  /\ cell' = [cell EXCEPT ![PrevCell(cell[Link("next", e)])] = cell[Link("prev", e)],
                          ![Link("next", e)] = Null, ![Link("prev", e)] = Null]
  /\ UNCHANGED oset

ordered_elem_pop(e) ==
  LET n == cell[Link("next", e)]
      p == cell[Link("prev", e)]
  IN
  /\ n # Null
  /\ cell' = [cell EXCEPT ![PrevCell(n)] = p, ![NextCell(p)] = n,
                          ![Link("next", e)] = Null, ![Link("prev", e)] = Null]
  /\ UNCHANGED oset

\* Where the three reading routines look: an element whose own next (or prev)
\* is null is the terminator.  ordered_elem_get_base finds the element's set
\* in it, to subtract the set's offset.
ordered_set_get_head(s) == LET e == cell[AtHead(s)] IN IF cell[NextCell(e)] = Null THEN Null ELSE e
ordered_elem_get_successor(e) ==
  LET n == cell[Link("next", e)] IN IF cell[NextCell(n)] = Null THEN Null ELSE n
ordered_elem_get_predecessor(e) ==
  LET p == cell[Link("prev", e)] IN IF cell[PrevCell(p)] = Null THEN Null ELSE p

-----------------------------------------------------------------------------

\* The items that fixed_stack_contains compares with, from the top.
fixed_stack_contains(s) == Follow(top[s], fnext, Null, Cardinality(FItems))

\* Callers push an item that is on no stack.  Mutant: the item keeps its link.
fixed_stack_push_link(s, i) ==
  /\ \A t \in FStacks : i \notin Range(fixed_stack_contains(t))
  /\ top' = [top EXCEPT ![s] = i]
  /\ UNCHANGED fnext

fixed_stack_push(s, i) ==
  /\ \A t \in FStacks : i \notin Range(fixed_stack_contains(t))
  /\ fnext' = [fnext EXCEPT ![i] = top[s]]
  /\ top' = [top EXCEPT ![s] = i]

\* The item keeps its link.  fixed_stack_get_top and fixed_stack_get_next read
\* what Follow reads.
fixed_stack_pop(s) ==
  /\ top[s] # Null
  /\ top' = [top EXCEPT ![s] = fnext[top[s]]]
  /\ UNCHANGED fnext

OSetNext == \E e \in OElems : ordered_elem_pop(e) \/ \E s \in OSets : ordered_elem_push_into(e, s)

StackNext ==
  \E s \in FStacks : fixed_stack_pop(s) \/ \E i \in FItems : fixed_stack_push(s, i)

-----------------------------------------------------------------------------
(* Properties.                                                             *)

Limit == Cardinality(OElems)
OForward(s) ==
  Follow(ordered_set_get_head(s), [e \in OElems |-> ordered_elem_get_successor(e)], Null, Limit)
OBackward(s) ==
  LET t == cell[AtTail(s)]
  IN  IF t = AtHead(s) THEN <<>>
      ELSE Follow(t, [e \in OElems |-> ordered_elem_get_predecessor(e)], Null, Limit)

\* The cell that ends both directions of a set stays null, although stores go
\* to its two neighbours through pseudo-elements; predecessors are the
\* successors backwards; and an element is in the set it names, or in none.
OSetWellLinked ==
  \A s \in OSets :
    /\ cell[AtDummy(s)] = Null
    /\ OBackward(s) = Reverse(OForward(s))
    /\ Range(OForward(s)) = {e \in OElems : oset[e] = s /\ cell[Link("next", e)] # Null}

OSetSeqs == INSTANCE SeqLists WITH Lists <- OSets, Elems <- OElems, q <- [s \in OSets |-> OForward(s)]

\* Every routine of oset.c inserts one element or takes one out of one set
\* and leaves the order of all the others.
OSetImplements ==
  OSetSeqs!Init /\ [][UNCHANGED [s \in OSets |-> OForward(s)] \/ OSetSeqs!Next]_osetVars

StackSeqs == INSTANCE SeqLists WITH Lists <- FStacks, Elems <- FItems,
                                    q <- [s \in FStacks |-> fixed_stack_contains(s)]

\* Pushing and popping change one stack by one item, whatever stale link a
\* popped item brings along from the stack it was on.
StackImplements ==
  StackSeqs!Init
  /\ [][UNCHANGED [s \in FStacks |-> fixed_stack_contains(s)] \/ StackSeqs!Next]_stackVars
=============================================================================
