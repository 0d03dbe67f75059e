------------------------------- MODULE MemCtx -------------------------------
(***************************************************************************)
(* The tree of memory contexts of utils/mmgr/mctx.c.                       *)
(*                                                                         *)
(* A context is the address of its node, a chunk of TopMemoryContext, and  *)
(* may be used again once the node is freed.  Of a context's allocation    *)
(* set (see AllocSet) the module keeps which chunks are in it: owner[h] is *)
(* the context in the header of the chunk that caller h holds.             *)
(*                                                                         *)
(* memory_context_delete and memory_context_delete_children call each      *)
(* other; stack is their activation records, and a step is one turn of the *)
(* loop in the topmost.  A failed assertion ends the process (ctxDead); so  *)
(* does a node there is no memory for, before anything is linked, which    *)
(* the module leaves out.                                                  *)
(***************************************************************************)
EXTENDS Naturals, Sequences

CONSTANTS
  Ctx,                  \* addresses for nodes
  TopMemoryContext, ErrorContext,
  CtxHandles,           \* the pointers callers hold
  NoCtx                 \* the null pointer

ASSUME CtxAssumption ==
  /\ TopMemoryContext \in Ctx /\ ErrorContext \in Ctx \ {TopMemoryContext}
  /\ NoCtx \notin Ctx

VARIABLES
  node,                 \* contexts whose node is allocated
  parent, firstchild, nextchild,
  owner,
  CurrentMemoryContext,
  stack, ctxDead

treeVars == <<node, parent, firstchild, nextchild>>
ctxVars == <<treeVars, owner, CurrentMemoryContext, stack, ctxDead>>

\* memory_context_init: TopMemoryContext and, below it, ErrorContext.
CtxInit ==
  /\ node = {TopMemoryContext, ErrorContext}
  /\ parent = [c \in Ctx |-> IF c = ErrorContext THEN TopMemoryContext ELSE NoCtx]
  /\ firstchild = [c \in Ctx |-> IF c = TopMemoryContext THEN ErrorContext ELSE NoCtx]
  /\ nextchild = [c \in Ctx |-> NoCtx]
  /\ owner = [h \in CtxHandles |-> NoCtx]
  /\ CurrentMemoryContext = TopMemoryContext
  /\ stack = <<>> /\ ctxDead = FALSE

CtxIdle == ~ctxDead /\ stack = <<>>

-----------------------------------------------------------------------------

\* memory_context_create: the node is linked in front of its parent's
\* children; a top-level context has no parent.
memory_context_create(c, p) ==
  /\ CtxIdle /\ c \notin node /\ p \in node \cup {NoCtx}
  /\ node' = node \cup {c}
  /\ parent' = [parent EXCEPT ![c] = p]
  /\ nextchild' = [nextchild EXCEPT ![c] = IF p = NoCtx THEN NoCtx ELSE firstchild[p]]
  /\ firstchild' = [x \in Ctx |-> CASE x = c -> NoCtx [] x = p -> c [] OTHER -> firstchild[x]]
  /\ UNCHANGED <<owner, CurrentMemoryContext, stack, ctxDead>>

\* The field of x leads to no context outside S.
StaysIn(S, field, x) == field[x] \in S \cup {NoCtx}

\* The contexts that following firstchild and nextchild reaches from c: those
\* in every set that has c and that neither field leads out of.  Mutant: also
\* along the list that c is in.
Below_siblings(c) ==
  {d \in Ctx : \A S \in SUBSET Ctx :
     c \in S /\ (\A x \in S : StaysIn(S, firstchild, x) /\ StaysIn(S, nextchild, x)) => d \in S}

Below(c) ==
  {d \in Ctx : \A S \in SUBSET Ctx :
     c \in S /\ (\A x \in S : StaysIn(S, firstchild, x) /\ (x # c => StaysIn(S, nextchild, x))) => d \in S}

\* The chunks in contexts of S are gone.
DropChunks(S) == owner' = [h \in CtxHandles |-> IF owner[h] \in S THEN NoCtx ELSE owner[h]]

\* memory_context_reset.  Callers do not reset TopMemoryContext, where the
\* nodes are.
memory_context_reset(c) ==
  /\ CtxIdle /\ c \in node \ {TopMemoryContext}
  /\ DropChunks(Below(c))
  /\ UNCHANGED <<treeVars, CurrentMemoryContext, stack, ctxDead>>

memory_context_reset_children(c) ==
  /\ CtxIdle /\ c \in node
  /\ DropChunks(Below(c) \ {c})
  /\ UNCHANGED <<treeVars, CurrentMemoryContext, stack, ctxDead>>

\* The same walk serves memory_context_stats and memory_context_check.
memory_context_check(c) == Below(c)

\* Calling memory_context_delete: its assertions come first.  Mutant: the
\* current context is deleted.
CallDelete_current(c, frames) ==
  IF c = TopMemoryContext
  THEN ctxDead' = TRUE /\ UNCHANGED stack
  ELSE stack' = <<[ctx |-> c, then |-> "delete"]>> \o frames /\ UNCHANGED ctxDead

CallDelete(c, frames) ==
  IF c \in {TopMemoryContext, CurrentMemoryContext}
  THEN ctxDead' = TRUE /\ UNCHANGED stack
  ELSE stack' = <<[ctx |-> c, then |-> "delete"]>> \o frames /\ UNCHANGED ctxDead

\* memory_context_delete, memory_context_delete_children and
\* memory_context_reset_and_delete_children are called.
memory_context_delete(c) ==
  /\ CtxIdle /\ c \in node
  /\ CallDelete(c, <<>>)
  /\ UNCHANGED <<treeVars, owner, CurrentMemoryContext>>

delete_children(c, then) ==
  /\ CtxIdle /\ c \in node
  /\ then = "reset" => c # TopMemoryContext
  /\ stack' = <<[ctx |-> c, then |-> then]>>
  /\ UNCHANGED <<treeVars, owner, CurrentMemoryContext, ctxDead>>

\* One turn of the loop: the first child is deleted ...
NextChild ==
  /\ ~ctxDead /\ stack # <<>>
  /\ LET c == stack[1].ctx IN firstchild[c] # NoCtx /\ CallDelete(firstchild[c], stack)
  /\ UNCHANGED <<treeVars, owner, CurrentMemoryContext>>

\* The context is taken out of its parent's list and its node is freed, which
\* wipes it.  Mutant: it is assumed to be the first.
Delink_first(c) ==
  LET p == parent[c] IN
  /\ firstchild' = IF p # NoCtx THEN [firstchild EXCEPT ![p] = nextchild[c]] ELSE firstchild
  /\ UNCHANGED nextchild
  /\ parent' = [parent EXCEPT ![c] = NoCtx]

Delink(c) ==
  LET p == parent[c] IN
  /\ firstchild' = IF p # NoCtx /\ firstchild[p] = c
                   THEN [firstchild EXCEPT ![p] = nextchild[c]] ELSE firstchild
  /\ nextchild' = [x \in Ctx |-> CASE x = c -> NoCtx
                                    [] x # c /\ p # NoCtx /\ firstchild[p] # c /\ nextchild[x] = c -> nextchild[c]
                                    [] OTHER -> nextchild[x]]
  /\ parent' = [parent EXCEPT ![c] = NoCtx]

\* ... and when there is none left, the routine does what it is for.  Mutants:
\* the chunks stay; the list is left as it is.
FinishCall_keep ==
  /\ ~ctxDead /\ stack # <<>>
  /\ LET c == stack[1].ctx IN
     /\ firstchild[c] = NoCtx
     /\ IF stack[1].then = "delete" THEN Delink(c) /\ node' = node \ {c}
        ELSE UNCHANGED treeVars
  /\ stack' = Tail(stack)
  /\ UNCHANGED <<owner, CurrentMemoryContext, ctxDead>>

FinishCall_linked ==
  /\ ~ctxDead /\ stack # <<>> /\ firstchild[stack[1].ctx] = NoCtx
  /\ node' = IF stack[1].then = "delete" THEN node \ {stack[1].ctx} ELSE node
  /\ IF stack[1].then = "return" THEN UNCHANGED owner ELSE DropChunks({stack[1].ctx})
  /\ stack' = Tail(stack)
  /\ UNCHANGED <<parent, firstchild, nextchild, CurrentMemoryContext, ctxDead>>

FinishCall ==
  /\ ~ctxDead /\ stack # <<>>
  /\ LET c == stack[1].ctx IN
     /\ firstchild[c] = NoCtx
     /\ CASE stack[1].then = "delete" -> Delink(c) /\ DropChunks({c}) /\ node' = node \ {c}
          [] stack[1].then = "reset" -> DropChunks({c}) /\ UNCHANGED treeVars
          [] OTHER -> UNCHANGED <<treeVars, owner>>
  /\ stack' = Tail(stack)
  /\ UNCHANGED <<CurrentMemoryContext, ctxDead>>

\* memory_context_alloc in any context, palloc in the current one.
memory_context_alloc(h, c) ==
  /\ CtxIdle /\ owner[h] = NoCtx /\ c \in node
  /\ owner' = [owner EXCEPT ![h] = c]
  /\ UNCHANGED <<treeVars, CurrentMemoryContext, stack, ctxDead>>

\* pfree goes to the context in the chunk's header (repalloc, too, and leaves
\* the header as it is).
pfree(h) ==
  /\ CtxIdle /\ owner[h] # NoCtx
  /\ IF owner[h] \in node THEN owner' = [owner EXCEPT ![h] = NoCtx] /\ UNCHANGED ctxDead
     ELSE ctxDead' = TRUE /\ UNCHANGED owner
  /\ UNCHANGED <<treeVars, CurrentMemoryContext, stack>>

memory_context_switch_to(c) ==
  /\ CtxIdle /\ c \in node
  /\ CurrentMemoryContext' = c
  /\ UNCHANGED <<treeVars, owner, stack, ctxDead>>

CtxStep == NextChild \/ FinishCall

CtxNext ==
  \/ \E c \in Ctx : \/ \E p \in Ctx \cup {NoCtx} : memory_context_create(c, p)
                    \/ memory_context_reset(c) \/ memory_context_reset_children(c)
                    \/ memory_context_delete(c)
                    \/ \E then \in {"return", "reset"} : delete_children(c, then)
                    \/ memory_context_switch_to(c)
                    \/ \E h \in CtxHandles : memory_context_alloc(h, c)
  \/ \E h \in CtxHandles : pfree(h)
  \/ CtxStep

CtxSpec == CtxInit /\ [][CtxNext]_ctxVars /\ WF_ctxVars(CtxStep)

-----------------------------------------------------------------------------
(* Properties.                                                             *)

\* The types of the variables.
CtxTypeOK ==
  /\ node \subseteq Ctx /\ CurrentMemoryContext \in node
  /\ parent \in [Ctx -> Ctx \cup {NoCtx}]
  /\ firstchild \in [Ctx -> Ctx \cup {NoCtx}] /\ nextchild \in [Ctx -> Ctx \cup {NoCtx}]
  /\ owner \in [CtxHandles -> Ctx \cup {NoCtx}]
  /\ stack \in Seq([ctx : Ctx, then : {"delete", "return", "reset"}]) /\ ctxDead \in BOOLEAN

\* A context, its parent, that one's parent ...
Ancestors(c) ==
  {a \in Ctx : \A S \in SUBSET Ctx : c \in S /\ (\A x \in S : StaysIn(S, parent, x)) => a \in S}

Children(c) == {d \in node : parent[d] = c}

\* At every moment, also in the middle of a deletion, the list of a context's
\* children is exactly the contexts that have it as their parent: nothing
\* that is being deleted can be reached twice, nothing is left hanging.  The
\* walk that checks, resets or prints a context takes in exactly its
\* descendants.
TreeOK ==
  \A c \in node :
    /\ firstchild[c] # NoCtx => firstchild[c] \in Children(c)
    /\ firstchild[c] = NoCtx => Children(c) = {}
    /\ \A d \in Children(c) :
         /\ nextchild[d] # NoCtx => nextchild[d] \in Children(c) \ {firstchild[c], d}
         /\ d # firstchild[c] => \E e \in Children(c) : nextchild[e] = d
    /\ memory_context_check(c) = {d \in node : c \in Ancestors(d)}
    /\ \A d, e \in Children(c) : nextchild[d] = nextchild[e] /\ nextchild[d] # NoCtx => d = e

\* Every chunk in a caller's hand belongs to a context that exists, so that
\* pfree finds it; every parent exists.
NoneOrphaned ==
  /\ \A h \in CtxHandles : owner[h] \in node \cup {NoCtx}
  /\ \A c \in node : parent[c] \in node \cup {NoCtx}

\* A reset leaves no chunk in the context or in any context below it, however
\* deep, and takes none from elsewhere.
ResetExact ==
  [][\A c \in Ctx : memory_context_reset(c) =>
       \A h \in CtxHandles : owner[h] # NoCtx =>
         (owner'[h] = NoCtx <=> c \in Ancestors(owner[h]))]_ctxVars

\* A deletion ends, unless an assertion ends it.
DeletionEnds == stack # <<>> ~> (stack = <<>> \/ ctxDead)

\* The contexts are a tree at every step of a deletion, and every chunk is in
\* a context of it.
TreeKept == CtxTypeOK /\ TreeOK /\ NoneOrphaned

\* What a reset or a deletion of a context was called for is done, and no more:
\* a reset frees the chunks below the context only, a deletion ends.
ContextCallsDone == ResetExact /\ DeletionEnds
=============================================================================
