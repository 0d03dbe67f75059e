------------------------------ MODULE MCPools -------------------------------
(***************************************************************************)
(* What hands storage out and takes it back, for TLC: the pool of shared   *)
(* buffers, one allocation set, one hash table with its elements.  subject *)
(* is the one that moves in a behaviour, so that their state spaces add    *)
(* up.                                                                     *)
(***************************************************************************)
EXTENDS BufFreeList, AllocSet, DynaHash

\* Keys are alike, since every hash function is tried.
Symmetry == Permutations(Keys)

VARIABLE subject

poolsVars == <<subject, vars, asetVars, hashVars>>

PoolsInit ==
  /\ subject \in {"buffers", "aset", "hash"}
  /\ Init /\ ASetInit /\ HashInit
  /\ subject # "hash" => ~ndebug /\ hash = [k \in Keys |-> 0]

PoolsNext ==
  /\ UNCHANGED subject
  /\ \/ subject = "buffers" /\ Next /\ UNCHANGED <<asetVars, hashVars>>
     \/ subject = "aset" /\ ASetNext /\ UNCHANGED <<vars, hashVars>>
     \/ subject = "hash" /\ HashNext /\ UNCHANGED <<vars, asetVars>>

PoolsSpec == PoolsInit /\ [][PoolsNext]_poolsVars
=============================================================================
