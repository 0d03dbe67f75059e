------------------------------ MODULE MCStartup -----------------------------
(***************************************************************************)
(* Processes that start on shared memory, for TLC.                         *)
(***************************************************************************)
EXTENDS Startup, TLC

Sizes == [n \in Structs |-> IF n = "Buffer Blocks" THEN 3 ELSE 2]
=============================================================================
