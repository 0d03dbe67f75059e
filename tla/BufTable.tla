------------------------------ MODULE BufTable ------------------------------
(***************************************************************************)
(* The table from disk blocks to buffers, storage/buffer/buf_table.c, and  *)
(* the flag BM_DELETED of the buffer descriptors that goes with it.  Its   *)
(* routines are called with the buffer manager's lock held, so each is one *)
(* step.                                                                   *)
(*                                                                         *)
(* The buffer manager that calls them is not under src/ (external): it     *)
(* gives a block to a buffer when the table has no buffer for the block,   *)
(* and takes the buffer's old block out of the table first.  Entering a    *)
(* block may fail for want of shared memory.                               *)
(***************************************************************************)
EXTENDS Integers

CONSTANTS
  Bufs,     \* the buffers
  Blocks,   \* tags: blocks of relations
  P_NEW     \* the block number of a block that is not on disk yet

VARIABLES
  tag,            \* per buffer: its tag (P_NEW: cleared)
  BM_DELETED,     \* the buffers with the flag
  SharedBufHash,  \* the table
  answer,         \* result of the last buf_table_lookup: asked, got
  failed          \* an entry could not be made

bufTableVars == <<tag, BM_DELETED, SharedBufHash, answer, failed>>

NoBuf == "NULL"

ASSUME BufTableAssumption == NoBuf \notin Bufs /\ P_NEW \notin Blocks

\* init_buffer_pool leaves every descriptor cleared and deleted, and
\* init_buf_table the table empty.
BufTableInit ==
  /\ tag = [b \in Bufs |-> P_NEW]
  /\ BM_DELETED = Bufs
  /\ SharedBufHash = [t \in {} |-> NoBuf]
  /\ answer = <<P_NEW, NoBuf>>
  /\ failed = FALSE

Lookup(t) == IF t # P_NEW /\ t \in DOMAIN SharedBufHash THEN SharedBufHash[t] ELSE NoBuf

buf_table_lookup(t) ==
  /\ answer' = <<t, Lookup(t)>>
  /\ UNCHANGED <<tag, BM_DELETED, SharedBufHash, failed>>

\* What the table is without the tag.
Without(t) == [u \in DOMAIN SharedBufHash \ {t} |-> SharedBufHash[u]]

\* buf_table_delete: the flag keeps a buffer from being removed twice; a
\* buffer that is not in the table is reported.  Mutant: the flag is not
\* looked at.
Deleted_again(b) == Without(tag[b])
Deleted(b) == IF b \in BM_DELETED THEN SharedBufHash ELSE Without(tag[b])

buf_table_delete(b) ==
  /\ SharedBufHash' = Deleted(b)
  /\ BM_DELETED' = BM_DELETED \cup {b}
  /\ UNCHANGED <<tag, answer, failed>>

\* buf_table_insert of a buffer that has just got tag t: the flag goes first,
\* whether or not the entry can be made.  Mutant: it stays.
Insert_flag(b, t, room) ==
  /\ SharedBufHash' = IF room THEN [u \in DOMAIN Deleted(b) \cup {t} |-> IF u = t THEN b ELSE Deleted(b)[u]]
                      ELSE Deleted(b)
  /\ BM_DELETED' = BM_DELETED \cup {b}

Insert(b, t, room) ==
  /\ SharedBufHash' = IF room THEN [u \in DOMAIN Deleted(b) \cup {t} |-> IF u = t THEN b ELSE Deleted(b)[u]]
                      ELSE Deleted(b)
  /\ BM_DELETED' = BM_DELETED \ {b}

\* The buffer manager gives block t to buffer b: buf_table_delete, the tag,
\* buf_table_insert.
Replace(b, t, room) ==
  /\ Lookup(t) = NoBuf
  /\ tag' = [tag EXCEPT ![b] = t]
  /\ Insert(b, t, room)
  /\ failed' = (failed \/ ~room)
  /\ UNCHANGED answer

BufTableNext ==
  \/ \E t \in Blocks \cup {P_NEW} : buf_table_lookup(t)
  \/ \E b \in Bufs : buf_table_delete(b)
  \/ \E b \in Bufs, t \in Blocks, room \in BOOLEAN : Replace(b, t, room)

----------------------------------------------------------------------------
\* What a lookup finds is a buffer that holds the block, even after failures
\* to make an entry: no entry outlives its buffer's use for the block
\* (buf_table_delete before the tag changes).
LookupRight ==
  \A t \in DOMAIN SharedBufHash :
     t # P_NEW /\ tag[SharedBufHash[t]] = t /\ SharedBufHash[t] \notin BM_DELETED

\* As long as every entry could be made, a block in a buffer is found, so it
\* is never read into a second one.  (BM_DELETED is cleared before the entry
\* is made: after a failure, deleting the buffer removes the entry another
\* buffer has made for the block since.)
NoneLost == ~failed => \A b \in Bufs \ BM_DELETED : Lookup(tag[b]) = b

\* The buffer table leads from a block to the buffer that holds it, if one
\* does.
BlocksFound == LookupRight /\ NoneLost
=============================================================================
