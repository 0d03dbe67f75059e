----------------------------- MODULE MCLibrary ------------------------------
(***************************************************************************)
(* The containers, the memory contexts and the page routines for TLC.  The *)
(* components have nothing to do with each other: subject is the one that  *)
(* moves in a behaviour, so that their state spaces add up.                *)
(***************************************************************************)
EXTENDS MemCtx, Dllist, ShmQueue, OrderedSet, StringInfo, CellList, BufPage, TLC

CONSTANTS a, b, small, large

\* Texts that fit in what is left of a buffer, just do, and just do not.
Texts == {<<a>>, <<b, a>>, <<a, b, a>>, <<b, b, a, a, b, b>>}

Cells3 == (small :> 1) @@ (large :> 3)

VARIABLE subject

vars == <<subject, ctxVars, dlVars, queueVars, osetVars, stackVars, stringVars, listVars, pageVars>>

Init ==
  /\ subject \in {"ctx", "dl", "queue", "oset", "stack", "string", "list", "page"}
  /\ CtxInit /\ DlInit /\ QueueInit /\ OSetInit /\ StackInit /\ StringInit /\ ListInit /\ PageInit

Next ==
  /\ UNCHANGED subject
  /\ \/ subject = "ctx" /\ CtxNext /\ UNCHANGED <<dlVars, queueVars, osetVars, stackVars, stringVars, listVars, pageVars>>
     \/ subject = "dl" /\ DlNext /\ UNCHANGED <<ctxVars, queueVars, osetVars, stackVars, stringVars, listVars, pageVars>>
     \/ subject = "queue" /\ QueueNext /\ UNCHANGED <<ctxVars, dlVars, osetVars, stackVars, stringVars, listVars, pageVars>>
     \/ subject = "oset" /\ OSetNext /\ UNCHANGED <<ctxVars, dlVars, queueVars, stackVars, stringVars, listVars, pageVars>>
     \/ subject = "stack" /\ StackNext /\ UNCHANGED <<ctxVars, dlVars, queueVars, osetVars, stringVars, listVars, pageVars>>
     \/ subject = "string" /\ StringNext /\ UNCHANGED <<ctxVars, dlVars, queueVars, osetVars, stackVars, listVars, pageVars>>
     \/ subject = "list" /\ ListNext /\ UNCHANGED <<ctxVars, dlVars, queueVars, osetVars, stackVars, stringVars, pageVars>>
     \/ subject = "page" /\ PageNext /\ UNCHANGED <<ctxVars, dlVars, queueVars, osetVars, stackVars, stringVars, listVars>>

Spec == Init /\ [][Next]_vars /\ WF_ctxVars(CtxStep)

-----------------------------------------------------------------------------
\* The links of dllist.c, shmqueue.c and oset.c agree in both directions and
\* with what every element says of the list it is on.
ListsWellLinked == DlWellLinked /\ QueueWellLinked /\ OSetWellLinked

\* The linked lists of dllist.c, shmqueue.c, oset.c and its stacks all
\* implement sequences that change one element at a time (SeqLists).
ListsImplement == DlImplements /\ QueueImplements /\ OSetImplements /\ StackImplements
=============================================================================
