-------------------------------- MODULE MCMd --------------------------------
(***************************************************************************)
(* Md for TLC.  The views leave out what no action reads and no property   *)
(* checked under them mentions: the history unsynced, answers of calls     *)
(* other than md_truncate, the free-list link of an entry in use (which    *)
(* fdvec_free writes before anything reads it), and for the pool the       *)
(* histories damaged and answer altogether.                                *)
(***************************************************************************)
EXTENDS Md, TLC

\* Relations are alike.
Symmetry == Permutations(Relations)

PoolView ==
  <<len, nvfd, closed, lost, dirty, Nfds, CurFd, MdFree, inuse, relVars, pc,
    call, at, rest,
    [e \in Entries |-> IF e \in inuse THEN -1 ELSE next_free[e]]>>

View ==
  <<PoolView, damaged, IF answer[1].op = "truncate" THEN answer ELSE <<None, -1>>>>
=============================================================================
