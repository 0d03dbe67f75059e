--------------------------------- MODULE Md ---------------------------------
(***************************************************************************)
(* The magnetic disk storage manager of storage/smgr/md.c, for one backend *)
(* process whose relations other backends extend at the same time.         *)
(*                                                                         *)
(* A relation r is stored in segment files <<r, 0>>, <<r, 1>>, ... of      *)
(* RELSEG_SIZE blocks.  rd_fd[r] is the index of its entry in Md_fdvec;    *)
(* chain[e] is the list of segments that starts at entry e and goes on     *)
(* through md_fd_chain.  md_fd_lst_bcnt is left out: it is written as a    *)
(* hint and never read.                                                    *)
(*                                                                         *)
(* A call is a sequence of steps, one per call of fd.c that can fail: pc   *)
(* is where it is, call what was called, at the position in the chain.     *)
(* Of fd.c (module Vfd) this module keeps what its caller can notice: how  *)
(* many VFDs a segment has, which of them fd.c has closed behind the       *)
(* caller's back, and that reopening one may fail, after which its saved   *)
(* position is -1 (lost) and the next reopening stops at an assertion.     *)
(* elog(ERROR) returns, so a failed open is followed by the use of a NULL  *)
(* pointer or of Md_fdvec[-1]: the process dies (Crash).  Lengths are in   *)
(* units of which BLCKSZ make a block, -1 for a file that does not exist.  *)
(***************************************************************************)
EXTENDS Ring, Sequences, FiniteSetsExt

CONSTANTS
  Relations,
  MaxSeg,         \* bound: segments are numbered 0..MaxSeg
  RELSEG_SIZE,    \* blocks in a segment
  BLCKSZ,         \* units in a block
  InitNfds,       \* initial size of Md_fdvec (100)
  MaxFds,         \* bound on the size of Md_fdvec
  ReadAhead,      \* how many blocks behind the end callers may read
  Bootstrap       \* IS_BOOTSTRAP_PROCESSING_MODE

ASSUME MdAssumption ==
  /\ MaxSeg \in Nat
  /\ RELSEG_SIZE \in Nat \ {0} /\ BLCKSZ \in Nat \ {0}
  /\ InitNfds \in Nat /\ InitNfds >= 2 /\ MaxFds >= InitNfds
  /\ MaxFds \in Nat /\ ReadAhead \in Nat /\ Bootstrap \in BOOLEAN

VARIABLES
  len,                          \* kernel: length of every segment file
  nvfd, closed, lost,           \* fd.c: VFDs per file; closed; position -1
  dirty,                        \* fd.c: FD_DIRTY
  unsynced,                     \* history: written here, no fsync since
  Nfds, CurFd, MdFree, next_free,
  inuse,                        \* entries without MD_FD_FREE
  chain, rd_fd,
  pc, call, at,
  rest,                         \* md_truncate: segments cut off the chain
  answer,                       \* history: the call that has just returned
  damaged                    \* history: relations a failed system call or a
                                \* crash has left miscounted or half removed

fileVars == <<len, nvfd, closed, lost, dirty, unsynced>>
poolVars == <<Nfds, CurFd, MdFree, next_free, inuse>>
relVars == <<chain, rd_fd>>
callVars == <<pc, call, at, rest, answer>>
vars == <<fileVars, poolVars, relVars, callVars, damaged>>

Segs == 0..MaxSeg
Files == Relations \X Segs
Entries == 0..(MaxFds - 1)
Full == RELSEG_SIZE * BLCKSZ

None == [op |-> "none", r |-> "none", b |-> 0]

Init ==
  /\ len = [f \in Files |-> -1]
  /\ nvfd = [f \in Files |-> 0]
  /\ closed = {} /\ lost = {} /\ dirty = {} /\ unsynced = {}
  /\ Nfds = InitNfds /\ CurFd = 0 /\ MdFree = 0
  /\ next_free = [e \in Entries |-> IF e < InitNfds - 1 THEN e + 1 ELSE -1]
  /\ inuse = {}
  /\ chain = [e \in Entries |-> <<>>]
  /\ rd_fd = [r \in Relations |-> -1]
  /\ pc = "idle" /\ call = None /\ at = 0 /\ rest = <<>> /\ answer = <<None, -1>>
  /\ damaged = {}

\* The complete blocks in the segment files of r.
Blocks(r) ==
  MapThenSumSet(LAMBDA k : IF len[<<r, k>>] > 0 THEN len[<<r, k>>] \div BLCKSZ ELSE 0,
                Segs)

\* The first segment of r that is not full, where a block is added.
FirstShort(r) == Min({k \in Segs : len[<<r, k>>] < Full})

\* Bound: the last segment never gets full.
RoomFor(r) ==
  FirstShort(r) = MaxSeg => RELSEG_SIZE > 1 /\ len[<<r, MaxSeg>>] + BLCKSZ < Full

\* The chain of the relation the call works on, and its current segment.
Chain == chain[rd_fd[call.r]]
Cur == Chain[at]

\* The call goes on at step p, position i; it returns value v.
Goto(p, i) == pc' = p /\ at' = i /\ UNCHANGED <<call, rest, answer>>
Return(v) ==
  pc' = "idle" /\ call' = None /\ at' = 0 /\ rest' = <<>> /\ answer' = <<call, v>>

\* The process dies at an assertion, a NULL pointer or an index of -1; its
\* VFDs, its table and what it remembered are gone, the files stay.
Crash ==
  /\ nvfd' = [f \in Files |-> 0]
  /\ closed' = {} /\ lost' = {} /\ dirty' = {} /\ unsynced' = {}
  /\ Nfds' = InitNfds /\ CurFd' = 0 /\ MdFree' = 0
  /\ next_free' = [e \in Entries |-> IF e < InitNfds - 1 THEN e + 1 ELSE -1]
  /\ inuse' = {}
  /\ chain' = [e \in Entries |-> <<>>]
  /\ rd_fd' = [r \in Relations |-> -1]
  /\ pc' = "idle" /\ call' = None /\ at' = 0 /\ rest' = <<>> /\ answer' = <<None, -1>>

-----------------------------------------------------------------------------
(* fd.c as its callers see it.                                             *)

\* file_name_open_file of f succeeds.
OpenVfd(f, creat) ==
  /\ len[f] # -1 \/ creat
  /\ len' = [len EXCEPT ![f] = IF @ = -1 THEN 0 ELSE @]
  /\ nvfd' = [nvfd EXCEPT ![f] = @ + 1]
  /\ closed' = closed \ {f} /\ lost' = lost \ {f}
  /\ dirty' = IF creat THEN dirty \cup {f} ELSE dirty
  /\ UNCHANGED unsynced

\* file_access of f ends with a kernel descriptor, without one, or at the
\* assertion on the position to go back to.
Accessed(f) == f \in closed => f \notin lost /\ len[f] # -1
AccessFails(f) == f \in closed
AccessAborts(f) == f \in closed \cap lost /\ len[f] # -1

\* fd.c closes the kernel descriptor of f to open another file; a dirty file
\* is synced first.
Evict(f) ==
  /\ nvfd[f] > 0 /\ f \notin closed
  /\ closed' = closed \cup {f}
  /\ dirty' = dirty \ {f}
  /\ unsynced' = IF f \in dirty THEN unsynced \ {f} ELSE unsynced
  /\ UNCHANGED <<len, nvfd, lost, poolVars, relVars, callVars, damaged>>

\* Another backend, holding the lock on extending r, adds a block.
OtherExtends(r) ==
  /\ len[<<r, 0>>] # -1
  /\ ~(call.r = r /\ call.op \in {"extend", "truncate", "unlink"})
  /\ RoomFor(r)
  /\ len' = [len EXCEPT ![<<r, FirstShort(r)>>] =
                IF @ = -1 THEN BLCKSZ ELSE (@ \div BLCKSZ + 1) * BLCKSZ]
  /\ answer' = <<None, -1>>
  /\ UNCHANGED <<nvfd, closed, lost, dirty, unsynced, poolVars, relVars, pc, call,
                 at, rest, damaged>>

\* file_sync of f returns v.  An open dirty file is not synced and the result
\* is an uninitialised variable; a closed one is reopened and synced.
file_sync(f, v) ==
  \/ /\ f \notin dirty
     /\ v = 0
     /\ UNCHANGED <<closed, dirty, unsynced>>
  \/ /\ f \in dirty \ closed
     /\ v \in {0, -1}
     /\ UNCHANGED <<closed, dirty, unsynced>>
  \/ /\ f \in dirty \cap closed /\ Accessed(f)
     /\ closed' = closed \ {f}
     /\ \/ v = 0 /\ dirty' = dirty \ {f} /\ unsynced' = unsynced \ {f}
        \/ v = -1 /\ UNCHANGED <<dirty, unsynced>>
  \/ /\ f \in dirty \cap closed /\ AccessFails(f)
     /\ v = -1
     /\ UNCHANGED <<closed, dirty, unsynced>>

\* The entry of f is given back to fd.c.
ForgetVfd(f) ==
  /\ nvfd' = [nvfd EXCEPT ![f] = @ - 1]
  /\ closed' = closed \ {f} /\ lost' = lost \ {f} /\ dirty' = dirty \ {f}

-----------------------------------------------------------------------------
(* The pool of entries.                                                    *)

\* Mutant of fdvec_alloc: after growing, the entry just handed out is still
\* the head of the free list.
fdvec_alloc_twice(e) ==
  IF MdFree >= 0
  THEN /\ e = MdFree
       /\ MdFree' = next_free[e]
       /\ CurFd' = IF e >= CurFd THEN CurFd + 1 ELSE CurFd
       /\ inuse' = inuse \cup {e}
       /\ UNCHANGED <<Nfds, next_free>>
  ELSE /\ e = CurFd
       /\ 2 * Nfds <= MaxFds
       /\ Nfds' = 2 * Nfds
       /\ next_free' = [x \in Entries |-> IF x = 2 * Nfds - 1 THEN -1
                                          ELSE IF x >= CurFd THEN x + 1
                                          ELSE next_free[x]]
       /\ MdFree' = CurFd
       /\ CurFd' = CurFd + 1
       /\ inuse' = inuse \cup {e}

\* Mutant of fdvec_alloc: a recycled entry stays on the free list.
fdvec_alloc_kept(e) ==
  /\ e = MdFree
  /\ MdFree' = IF e >= CurFd THEN next_free[e] ELSE MdFree
  /\ CurFd' = IF e >= CurFd THEN CurFd + 1 ELSE CurFd
  /\ inuse' = inuse \cup {e}
  /\ UNCHANGED <<Nfds, next_free>>

\* fdvec_alloc returns e, from the free list or from a table twice the size.
fdvec_alloc(e) ==
  IF MdFree >= 0
  THEN /\ e = MdFree
       /\ MdFree' = next_free[e]
       /\ CurFd' = IF e >= CurFd THEN CurFd + 1 ELSE CurFd
       /\ inuse' = inuse \cup {e}
       /\ UNCHANGED <<Nfds, next_free>>
  ELSE /\ e = CurFd
       /\ 2 * Nfds <= MaxFds
       /\ Nfds' = 2 * Nfds
       /\ next_free' = [x \in Entries |-> IF x = 2 * Nfds - 1 THEN -1
                                          ELSE IF x >= CurFd THEN x + 1
                                          ELSE next_free[x]]
       /\ MdFree' = CurFd + 1
       /\ CurFd' = CurFd + 1
       /\ inuse' = inuse \cup {e}

\* fdvec_free.
fdvec_free(e) ==
  /\ next_free' = [next_free EXCEPT ![e] = MdFree]
  /\ inuse' = inuse \ {e}
  /\ MdFree' = e
  /\ UNCHANGED <<Nfds, CurFd>>

\* A new entry for relation r, whose first segment has just been opened.
NewEntry(r) ==
  \E e \in Entries :
    /\ fdvec_alloc(e)
    /\ chain' = [chain EXCEPT ![e] = <<<<r, 0>>>>]
    /\ rd_fd' = [rd_fd EXCEPT ![r] = e]

-----------------------------------------------------------------------------
(* Creating, opening and counting.                                         *)

\* md_create: relation nodes are new, so none of the files exists, except in
\* bootstrap mode, where the relation may have been created before.
md_create(r) ==
  /\ pc = "idle"
  /\ rd_fd[r] = -1
  /\ answer' = <<[op |-> "create", r |-> r, b |-> 0], 1>>
  /\ \/ /\ \A k \in Segs : len[<<r, k>>] = -1
        /\ OpenVfd(<<r, 0>>, TRUE)
        /\ damaged' = damaged \ {r}
     \/ /\ Bootstrap /\ len[<<r, 0>>] # -1
        /\ OpenVfd(<<r, 0>>, FALSE)
        /\ UNCHANGED damaged
  /\ NewEntry(r)
  /\ UNCHANGED <<pc, call, at, rest>>

\* Where a call starts once its relation is open.
FirstStep(op) == CASE op \in {"nblocks", "extend", "truncate"} -> "count"
                   [] op = "close" -> "close"
                   [] OTHER -> "seg"

\* The blocks a caller may name: existing ones, and readers may go beyond.
CallerBlocks(op, r) ==
  CASE op = "read" -> 0..(Blocks(r) + ReadAhead)
    [] op \in {"write", "flush", "mark", "blind", "blindsync", "blindmark"} ->
         0..(Blocks(r) - 1)
    [] op = "truncate" -> 0..Blocks(r)
    [] OTHER -> {0}

\* A caller calls op on relation r and block b.
Begin(op, r, b) ==
  /\ pc = "idle"
  /\ b \in CallerBlocks(op, r) /\ b < (MaxSeg + 1) * RELSEG_SIZE
  /\ op = "extend" => RoomFor(r)
  /\ op = "close" => rd_fd[r] >= 0
  /\ len[<<r, 0>>] # -1 \/ Bootstrap
  /\ call' = [op |-> op, r |-> r, b |-> b]
  /\ pc' = IF rd_fd[r] >= 0 THEN FirstStep(op) ELSE "open"
  /\ at' = 1
  /\ answer' = <<None, -1>>
  /\ UNCHANGED <<fileVars, poolVars, relVars, rest, damaged>>

\* md_open, called by md_fd_get_reln_fd.
md_open ==
  /\ pc = "open"
  /\ OpenVfd(<<call.r, 0>>, Bootstrap /\ len[<<call.r, 0>>] = -1)
  /\ NewEntry(call.r)
  /\ Goto(FirstStep(call.op), 1)
  /\ UNCHANGED damaged

\* The file cannot be opened: md_fd_get_reln_fd returns -1, and its callers
\* use Md_fdvec[-1].
md_open_fails ==
  /\ pc = "open"
  /\ Crash
  /\ UNCHANGED <<len, damaged>>

\* md_nblocks returns n to md_extend, md_truncate, md_read or its caller.
Counted(n) ==
  /\ damaged' = IF n # Blocks(call.r) THEN damaged \cup {call.r} ELSE damaged
  /\ CASE call.op = "extend" ->
            /\ call' = [call EXCEPT !.b = n]
            /\ pc' = "seg" /\ at' = 1
            /\ UNCHANGED <<rest, answer>>
       [] call.op = "truncate" /\ call.b < n ->
            /\ pc' = "truncate" /\ at' = 1 /\ rest' = Chain
            /\ UNCHANGED <<call, answer>>
       [] call.op = "truncate" /\ call.b >= n -> Return(IF call.b = n THEN n ELSE -1)
       [] call.op = "read" -> Return(IF n = 0 THEN 1 ELSE 0)
       [] OTHER -> Return(n)

\* One round of the loop of md_nblocks: the length of the current segment.
md_nblocks ==
  /\ pc = "count"
  /\ Accessed(Cur)
  /\ closed' = closed \ {Cur} /\ lost' = lost \ {Cur}
  /\ LET n == len[Cur] \div BLCKSZ
     IN  IF n = RELSEG_SIZE
         THEN /\ IF at < Len(Chain) THEN Goto("count", at + 1) ELSE Goto("countopen", at)
              /\ UNCHANGED damaged
         ELSE Counted((at - 1) * RELSEG_SIZE + n)
  /\ UNCHANGED <<len, nvfd, dirty, unsynced, poolVars, relVars>>

\* The segment cannot be reopened: md_nblocks_aux takes it for empty.
md_nblocks_aux_fails ==
  /\ pc = "count"
  /\ AccessFails(Cur)
  /\ lost' = lost \cup {Cur}
  /\ Counted((at - 1) * RELSEG_SIZE)
  /\ UNCHANGED <<len, nvfd, closed, dirty, unsynced, poolVars, relVars>>

\* Mutant of md_fd_open_seg: md_fd_get_seg opens the segment of the block at
\* once, not the ones before it.
md_fd_open_seg_target ==
  /\ \/ pc = "countopen"
     \/ pc = "seg" /\ Len(Chain) <= call.b \div RELSEG_SIZE
  /\ LET k == IF pc = "seg" THEN call.b \div RELSEG_SIZE ELSE Len(Chain)
     IN  /\ OpenVfd(<<call.r, k>>, pc = "countopen" \/ k = call.b \div RELSEG_SIZE)
         /\ chain' = [chain EXCEPT ![rd_fd[call.r]] = Append(@, <<call.r, k>>)]
  /\ IF pc = "countopen" THEN Goto("count", at + 1) ELSE Goto("seg", 1)
  /\ UNCHANGED <<poolVars, rd_fd, damaged>>

\* md_fd_open_seg: the next segment is opened, and created if need be, by
\* md_nblocks (a full segment was the last of the chain) or by md_fd_get_seg
\* on its way to the segment of block call.b.
md_fd_open_seg ==
  /\ \/ pc = "countopen"
     \/ pc = "seg" /\ Len(Chain) <= call.b \div RELSEG_SIZE
  /\ LET k == Len(Chain)
     IN  /\ OpenVfd(<<call.r, k>>, pc = "countopen" \/ k = call.b \div RELSEG_SIZE)
         /\ chain' = [chain EXCEPT ![rd_fd[call.r]] = Append(@, <<call.r, k>>)]
  /\ IF pc = "countopen" THEN Goto("count", at + 1) ELSE Goto("seg", 1)
  /\ UNCHANGED <<poolVars, rd_fd, damaged>>

\* The segment cannot be opened: elog(ERROR) returns and the code goes on
\* with a NULL pointer.
md_fd_open_seg_fails ==
  /\ \/ pc = "countopen"
     \/ pc = "seg" /\ Len(Chain) <= call.b \div RELSEG_SIZE
  /\ Crash
  /\ UNCHANGED <<len, damaged>>

\* md_fd_get_seg arrives.
md_fd_get_seg ==
  /\ pc = "seg"
  /\ call.b \div RELSEG_SIZE < Len(Chain)
  /\ Goto(call.op, call.b \div RELSEG_SIZE + 1)
  /\ UNCHANGED <<fileVars, poolVars, relVars, damaged>>

-----------------------------------------------------------------------------
(* Transfers.  Position at is the segment of block call.b.                 *)

\* md_read, md_write and md_flush seek to the block first, which gives a
\* closed VFD a position again; only the transfer needs the descriptor.
Positioned(f) == f \in closed => len[f] # -1

\* The units of block call.b that the segment has.
Available == len[Cur] - (call.b % RELSEG_SIZE) * BLCKSZ

\* md_read: a whole block, nothing at the end of the file (the block is all
\* zeros), an error, or part of a block, which fails unless the relation
\* turns out to be empty.
md_read ==
  /\ pc = "read"
  /\ Positioned(Cur)
  /\ closed' = closed \ {Cur} /\ lost' = lost \ {Cur}
  /\ \/ (Available <= 0 \/ Available >= BLCKSZ) /\ Return(1)
     \/ Available \in 1..(BLCKSZ - 1) /\ call.b = 0 /\ Goto("count", 1)
     \/ Return(0)
  /\ UNCHANGED <<len, nvfd, dirty, unsynced, poolVars, relVars, damaged>>

\* md_write, and md_flush, which calls file_sync on the open file.
md_write ==
  /\ pc \in {"write", "flush"}
  /\ Positioned(Cur)
  /\ closed' = closed \ {Cur} /\ lost' = lost \ {Cur}
  /\ \/ unsynced' = unsynced \cup {Cur} /\ Return(1)
     \/ unsynced' \in {unsynced, unsynced \cup {Cur}} /\ Return(0)
  /\ UNCHANGED <<len, nvfd, dirty, poolVars, relVars, damaged>>

\* The file cannot be reopened for the transfer.
TransferFails ==
  /\ pc \in {"read", "write", "flush"}
  /\ AccessFails(Cur)
  /\ lost' = lost \cup {Cur}
  /\ Return(0)
  /\ UNCHANGED <<len, nvfd, closed, dirty, unsynced, poolVars, relVars, damaged>>

\* Mutant of md_extend: the block is written behind an incomplete one.
md_extend_unaligned ==
  /\ pc = "extend"
  /\ Accessed(Cur)
  /\ closed' = closed \ {Cur} /\ lost' = lost \ {Cur}
  /\ \/ /\ len' = [len EXCEPT ![Cur] = @ + BLCKSZ]
        /\ unsynced' = unsynced \cup {Cur} /\ Return(1)
     \/ /\ BLCKSZ > 1
        /\ len' \in {len, [len EXCEPT ![Cur] = @ + 1]}
        /\ unsynced' = unsynced \cup {Cur} /\ Return(0)
     \/ UNCHANGED <<len, unsynced>> /\ Return(0)
  /\ UNCHANGED <<nvfd, dirty, poolVars, relVars, damaged>>

\* Mutant of md_extend: a short write is taken for success.
md_extend_short ==
  /\ pc = "extend"
  /\ Accessed(Cur)
  /\ closed' = closed \ {Cur} /\ lost' = lost \ {Cur}
  /\ LET pos == len[Cur] - (len[Cur] % BLCKSZ)
     IN  \/ /\ len' = [len EXCEPT ![Cur] = pos + BLCKSZ]
            /\ unsynced' = unsynced \cup {Cur} /\ Return(1)
         \/ /\ BLCKSZ > 1
            /\ len' \in {[len EXCEPT ![Cur] = pos],
                         [len EXCEPT ![Cur] = IF @ > pos THEN @ ELSE pos + 1]}
            /\ unsynced' = unsynced \cup {Cur} /\ Return(1)
         \/ UNCHANGED <<len, unsynced>> /\ Return(0)
  /\ UNCHANGED <<nvfd, dirty, poolVars, relVars, damaged>>

\* md_extend behind md_fd_get_seg: seek to the end, back over an incomplete
\* block, write; part of a block is cut off again if ftruncate succeeds.
md_extend ==
  /\ pc = "extend"
  /\ Accessed(Cur)
  /\ closed' = closed \ {Cur} /\ lost' = lost \ {Cur}
  /\ LET pos == len[Cur] - (len[Cur] % BLCKSZ)
     IN  \/ /\ len' = [len EXCEPT ![Cur] = pos + BLCKSZ]
            /\ unsynced' = unsynced \cup {Cur} /\ Return(1)
         \/ /\ BLCKSZ > 1
            /\ len' \in {[len EXCEPT ![Cur] = pos],
                         [len EXCEPT ![Cur] = IF @ > pos THEN @ ELSE pos + 1]}
            /\ unsynced' = unsynced \cup {Cur} /\ Return(0)
         \/ UNCHANGED <<len, unsynced>> /\ Return(0)
  /\ UNCHANGED <<nvfd, dirty, poolVars, relVars, damaged>>

\* The seek to the end fails.
md_extend_fails ==
  /\ pc = "extend"
  /\ AccessFails(Cur)
  /\ lost' = lost \cup {Cur}
  /\ Return(0)
  /\ UNCHANGED <<len, nvfd, closed, dirty, unsynced, poolVars, relVars, damaged>>

\* The seek to the end, in md_nblocks_aux or md_extend, reopens a file whose
\* position was lost, and stops at the assertion.
SeekAborts ==
  /\ pc \in {"count", "extend"}
  /\ AccessAborts(Cur)
  /\ Crash
  /\ UNCHANGED <<len, damaged>>

\* md_mark_dirty.
md_mark_dirty ==
  /\ pc = "mark"
  /\ dirty' = dirty \cup {Cur}
  /\ Return(1)
  /\ UNCHANGED <<len, nvfd, closed, lost, unsynced, poolVars, relVars, damaged>>

\* md_blind_wrt: op "blindsync" is a call with do_fsync, which is ignored.
md_blind_wrt(op, r, b) ==
  /\ pc = "idle"
  /\ b \in CallerBlocks(op, r)
  /\ \E v \in {0, 1} :
       /\ answer' = <<[op |-> op, r |-> r, b |-> b], v>>
       /\ IF v = 1 THEN unsynced' = unsynced \cup {<<r, b \div RELSEG_SIZE>>}
                   ELSE UNCHANGED unsynced
  /\ UNCHANGED <<len, nvfd, closed, lost, dirty, poolVars, relVars, pc, call, at,
                 rest, damaged>>

\* md_blind_mark_dirty: the file is synced at once.
md_blind_mark_dirty(r, b) ==
  /\ pc = "idle"
  /\ b \in CallerBlocks("blindmark", r)
  /\ answer' = <<[op |-> "blindmark", r |-> r, b |-> b], 1>>
  /\ unsynced' = unsynced \ {<<r, b \div RELSEG_SIZE>>}
  /\ UNCHANGED <<len, nvfd, closed, lost, dirty, poolVars, relVars, pc, call, at,
                 rest, damaged>>

-----------------------------------------------------------------------------
(* Truncation.  rest is what the pointer v of md_truncate can still reach. *)

prior_blocks == (at - 1) * RELSEG_SIZE

\* The current segment is the last one md_truncate keeps.
LastWanted == prior_blocks + RELSEG_SIZE > call.b

\* A segment behind the new end: truncate it, ignoring the result, and
\* unlink it; unlink may fail unnoticed.
DropSegment ==
  /\ pc = "truncate" /\ rest # <<>>
  /\ prior_blocks > call.b
  /\ LET f == Head(rest)
     IN  /\ ForgetVfd(f)
         /\ \/ /\ Accessed(f) \/ AccessFails(f)
               /\ len' = [len EXCEPT ![f] = -1]
               /\ unsynced' = unsynced \ {f}
               /\ UNCHANGED damaged
            \/ /\ \/ Accessed(f) /\ len' = [len EXCEPT ![f] = 0]
                  \/ AccessFails(f) /\ UNCHANGED len
               /\ damaged' = damaged \cup {call.r}
               /\ UNCHANGED unsynced
  /\ at' = at + 1 /\ rest' = Tail(rest)
  /\ UNCHANGED <<poolVars, relVars, pc, call, answer>>

\* file_truncate of f up to ftruncate: file_sync may sync a closed dirty file.
TruncateReaches(f) ==
  /\ Accessed(f)
  /\ closed' = closed \ {f}
  /\ \/ f \in dirty \cap closed /\ dirty' = dirty \ {f} /\ unsynced' = unsynced \ {f}
     \/ UNCHANGED <<dirty, unsynced>>

\* Mutant of CutSegment: the blocks of the earlier segments are not subtracted.
CutSegment_absolute ==
  /\ pc = "truncate" /\ rest # <<>>
  /\ ~(prior_blocks > call.b) /\ LastWanted
  /\ TruncateReaches(Head(rest))
  /\ len' = [len EXCEPT ![Head(rest)] = call.b * BLCKSZ]
  /\ chain' = [chain EXCEPT ![rd_fd[call.r]] = SubSeq(@, 1, at)]
  /\ at' = at + 1 /\ rest' = Tail(rest)
  /\ UNCHANGED <<nvfd, lost, poolVars, rd_fd, pc, call, answer, damaged>>

\* Mutant of CutSegment: the loop ends here.
CutSegment_last ==
  /\ pc = "truncate" /\ rest # <<>>
  /\ ~(prior_blocks > call.b) /\ LastWanted
  /\ TruncateReaches(Head(rest))
  /\ len' = [len EXCEPT ![Head(rest)] = (call.b - prior_blocks) * BLCKSZ]
  /\ chain' = [chain EXCEPT ![rd_fd[call.r]] = SubSeq(@, 1, at)]
  /\ at' = at + 1 /\ rest' = <<>>
  /\ UNCHANGED <<nvfd, lost, poolVars, rd_fd, pc, call, answer, damaged>>

\* The last segment to keep: truncate it and cut the chain behind it.
CutSegment ==
  /\ pc = "truncate" /\ rest # <<>>
  /\ ~(prior_blocks > call.b) /\ LastWanted
  /\ TruncateReaches(Head(rest))
  /\ len' = [len EXCEPT ![Head(rest)] = (call.b - prior_blocks) * BLCKSZ]
  /\ chain' = [chain EXCEPT ![rd_fd[call.r]] = SubSeq(@, 1, at)]
  /\ at' = at + 1 /\ rest' = Tail(rest)
  /\ UNCHANGED <<nvfd, lost, poolVars, rd_fd, pc, call, answer, damaged>>

\* It cannot be reopened or truncated: md_truncate returns -1.
CutFails ==
  /\ pc = "truncate" /\ rest # <<>>
  /\ ~(prior_blocks > call.b) /\ LastWanted
  /\ \/ TruncateReaches(Head(rest))
     \/ AccessFails(Head(rest)) /\ UNCHANGED <<closed, dirty, unsynced>>
  /\ Return(-1)
  /\ UNCHANGED <<len, nvfd, lost, poolVars, relVars, damaged>>

\* A segment that stays whole.
KeepSegment ==
  /\ pc = "truncate" /\ rest # <<>>
  /\ ~(prior_blocks > call.b) /\ ~LastWanted
  /\ at' = at + 1 /\ rest' = Tail(rest)
  /\ UNCHANGED <<fileVars, poolVars, relVars, pc, call, answer, damaged>>

\* The loop ends.
md_truncate ==
  /\ pc = "truncate" /\ rest = <<>>
  /\ Return(call.b)
  /\ UNCHANGED <<fileVars, poolVars, relVars, damaged>>

-----------------------------------------------------------------------------
(* Commit, close, unlink, and the end of the process.                      *)

\* md_commit walks the entries that were ever used and their chains.
BeginCommit ==
  /\ pc = "idle"
  /\ call' = [None EXCEPT !.op = "commit"]
  /\ pc' = "commit" /\ at' = 0 /\ rest' = <<>>
  /\ answer' = <<None, -1>>
  /\ UNCHANGED <<fileVars, poolVars, relVars, damaged>>

md_commit ==
  /\ pc = "commit"
  /\ \/ /\ rest = <<>> /\ at < CurFd
        /\ rest' = IF at \in inuse THEN chain[at] ELSE <<>>
        /\ at' = at + 1
        /\ UNCHANGED <<fileVars, pc, call, answer>>
     \/ /\ rest = <<>> /\ at >= CurFd
        /\ Return(1)
        /\ UNCHANGED fileVars
     \/ /\ rest # <<>>
        /\ \E v \in {0, -1} :
             /\ file_sync(Head(rest), v)
             /\ IF v = 0 THEN rest' = Tail(rest) /\ UNCHANGED <<pc, call, at, answer>>
                         ELSE Return(0)
        /\ UNCHANGED <<len, nvfd, lost>>
  /\ UNCHANGED <<poolVars, relVars, damaged>>

\* Mutant of md_close: only the first segment is closed.
md_close_first ==
  /\ pc = "close"
  /\ ForgetVfd(Head(Chain))
  /\ chain' = [chain EXCEPT ![rd_fd[call.r]] = <<>>]
  /\ fdvec_free(rd_fd[call.r])
  /\ rd_fd' = [rd_fd EXCEPT ![call.r] = -1]
  /\ Return(1)
  /\ UNCHANGED <<len, unsynced, damaged>>

\* md_close: every segment is synced, its result ignored, and closed (an open
\* dirty file is synced by file_close); then the entry is freed.
md_close ==
  /\ pc = "close"
  /\ \/ /\ Chain # <<>>
        /\ ForgetVfd(Head(Chain))
        /\ \/ Head(Chain) \in dirty /\ Accessed(Head(Chain))
              /\ unsynced' = unsynced \ {Head(Chain)}
           \/ (Head(Chain) \notin dirty \/ AccessFails(Head(Chain)))
              /\ UNCHANGED unsynced
        /\ chain' = [chain EXCEPT ![rd_fd[call.r]] = Tail(@)]
        /\ UNCHANGED <<poolVars, rd_fd, callVars>>
     \/ /\ Chain = <<>>
        /\ fdvec_free(rd_fd[call.r])
        /\ rd_fd' = [rd_fd EXCEPT ![call.r] = -1]
        /\ Return(1)
        /\ UNCHANGED <<nvfd, closed, lost, dirty, unsynced, chain>>
  /\ UNCHANGED <<len, damaged>>

\* md_unlink of a relation its callers have closed: segments are removed from
\* the first one on until there is none.
BeginUnlink(r) ==
  /\ pc = "idle"
  /\ rd_fd[r] = -1 /\ len[<<r, 0>>] # -1
  /\ call' = [op |-> "unlink", r |-> r, b |-> 0]
  /\ pc' = "unlink" /\ at' = 0 /\ rest' = <<>>
  /\ answer' = <<None, -1>>
  /\ UNCHANGED <<fileVars, poolVars, relVars, damaged>>

md_unlink ==
  /\ pc = "unlink"
  /\ \/ /\ at \in Segs /\ len[<<call.r, at>>] # -1
        /\ len' = [len EXCEPT ![<<call.r, at>>] = -1]
        /\ unsynced' = unsynced \ {<<call.r, at>>}
        /\ Goto("unlink", at + 1)
        /\ UNCHANGED damaged
     \/ /\ at \in Segs => len[<<call.r, at>>] = -1
        /\ Return(1)
        /\ UNCHANGED <<len, unsynced, damaged>>
     \/ /\ Return(0)
        /\ damaged' = damaged \cup {call.r}
        /\ UNCHANGED <<len, unsynced>>
  /\ UNCHANGED <<nvfd, closed, lost, dirty, poolVars, relVars>>

\* md_abort does nothing; at_eo_xact_files drops the dirty bits.
md_abort ==
  /\ pc = "idle"
  /\ dirty' = {} /\ unsynced' = {}
  /\ answer' = <<None, -1>>
  /\ UNCHANGED <<len, nvfd, closed, lost, poolVars, relVars, pc, call, at, rest,
                 damaged>>

\* The process ends: it is killed, or stops at an assertion of fd.c on a
\* failed fsync or close, or on a lost position.
Die ==
  /\ Crash
  /\ damaged' = IF pc \in {"truncate", "unlink"} THEN damaged \cup {call.r} ELSE damaged
  /\ UNCHANGED len

Ops == {"nblocks", "extend", "truncate", "read", "write", "flush", "mark", "close"}

Next ==
  \/ \E r \in Relations :
       \/ md_create(r) \/ BeginUnlink(r) \/ OtherExtends(r)
       \/ \E b \in 0..((MaxSeg + 1) * RELSEG_SIZE - 1) :
            \/ \E op \in Ops : Begin(op, r, b)
            \/ \E op \in {"blind", "blindsync"} : md_blind_wrt(op, r, b)
            \/ md_blind_mark_dirty(r, b)
  \/ md_open \/ md_open_fails
  \/ md_nblocks \/ md_nblocks_aux_fails \/ SeekAborts
  \/ md_fd_open_seg \/ md_fd_open_seg_fails \/ md_fd_get_seg
  \/ md_read \/ md_write \/ TransferFails \/ md_extend \/ md_extend_fails
  \/ md_mark_dirty
  \/ DropSegment \/ CutSegment \/ CutFails \/ KeepSegment \/ md_truncate
  \/ BeginCommit \/ md_commit \/ md_close \/ md_unlink \/ md_abort
  \/ \E f \in Files : Evict(f)
  \/ Die

Spec == Init /\ [][Next]_vars

-----------------------------------------------------------------------------
(* Properties.                                                             *)

\* The types of the variables.
TypeOK ==
  /\ len \in [Files -> -1..Full]
  /\ nvfd \in [Files -> 0..1]
  /\ lost \in SUBSET closed /\ closed \in SUBSET Files
  /\ dirty \in SUBSET Files /\ unsynced \in SUBSET Files
  /\ Nfds \in InitNfds..MaxFds /\ CurFd \in 0..Nfds /\ MdFree \in -1..(Nfds - 1)
  /\ next_free \in [Entries -> -1..MaxFds]
  /\ inuse \in SUBSET Entries
  /\ \A e \in Entries : Len(chain[e]) <= MaxSeg + 1
  /\ rd_fd \in [Relations -> -1..(MaxFds - 1)]
  /\ at \in 0..(MaxFds + MaxSeg + 2)
  /\ damaged \in SUBSET Relations

\* The links of the free list, with the head as element 0 and entry e as e + 1.
FreeLinks == [x \in 0..MaxFds |-> IF x = 0 THEN MdFree + 1 ELSE next_free[x - 1] + 1]

\* The free list of fdvec_alloc and fdvec_free holds exactly the entries
\* flagged MD_FD_FREE, each once, across growth of the table; entries never
\* used come last and in order, as the assertion of fdvec_alloc and its test
\* before growing (Nfds != CurFd) say.
FdvecFreeList ==
  /\ IsChain(0, {e + 1 : e \in (0..(Nfds - 1)) \ inuse}, FreeLinks)
  /\ MdFree >= CurFd => MdFree = CurFd
  /\ MdFree = -1 => CurFd = Nfds

\* Every entry in use belongs to one open relation, and its chain is the
\* relation's segments from the first one on, none missing: what lets
\* md_fd_get_seg find a block by counting links, and md_commit find every
\* file.
EntriesOwned ==
  /\ inuse = {rd_fd[r] : r \in Relations} \ {-1}
  /\ \A r, q \in Relations : rd_fd[r] = rd_fd[q] /\ rd_fd[r] # -1 => r = q
  /\ \A r \in Relations : rd_fd[r] # -1 /\ ~(pc = "close" /\ call.r = r) =>
       LET c == chain[rd_fd[r]]
       IN  c # <<>> /\ \A i \in 1..Len(c) : c[i] = <<r, i - 1>>

\* The segments md.c can still reach: on a chain, or cut off it by a
\* md_truncate that is not finished.
Reachable ==
  {f \in Files : \/ \E e \in inuse : \E i \in 1..Len(chain[e]) : chain[e][i] = f
                \/ \E i \in 1..Len(rest) : rest[i] = f}

\* Every VFD that md.c has opened is reachable, and no segment is opened
\* twice: nothing leaks when a relation is closed, truncated or counted.
VfdsOwned == \A f \in Files : nvfd[f] = IF f \in Reachable THEN 1 ELSE 0

\* No block lies behind a segment that is not full (md_nblocks would not see
\* it), and no segment is missing in the middle (md_unlink would stop
\* there), except while a truncation or removal is at work or after a crash
\* or failed system call in one: md_truncate cuts the segment that ends the
\* relation before it removes the later ones, so that a process that dies in
\* between leaves them behind a short segment.
BlocksContiguous ==
  \A r \in Relations \ damaged :
    ~(call.r = r /\ call.op \in {"truncate", "unlink"}) =>
      \A j, k \in Segs : j < k =>
        /\ len[<<r, j>>] < Full => len[<<r, k>>] <= 0
        /\ len[<<r, j>>] = -1 => len[<<r, k>>] = -1

\* md_extend, when it succeeds, makes the relation one block longer, whatever
\* incomplete block an earlier failure has left at its end.
ExtendAddsOne ==
  [][\A r \in Relations :
       answer' # answer /\ answer'[1].op = "extend" /\ answer'[1].r = r /\ answer'[2] = 1
         => Blocks(r)' = Blocks(r) + 1]_vars

\* md_truncate, when it succeeds, leaves the number of blocks it was asked
\* for, also at the boundary of a segment.
TruncateExact ==
  answer[1].op = "truncate" /\ answer[1].r \notin damaged /\ answer[2] >= 0
    => answer[2] = answer[1].b /\ Blocks(answer[1].r) = answer[1].b

-----------------------------------------------------------------------------
(* What a comment of the code says and the code does not do.               *)

\* md_commit: "Any descriptors to which we have done writes, but not synced,
\* are synced here".
CommitIsDurable ==
  answer[1].op = "commit" /\ answer[2] = 1 => \A f \in Reachable : f \notin unsynced

\* What md.c reaches and what is open are the same: entries, chains and VFDs
\* each have one owner, whatever opens, truncations and closes have failed.
ChainsOwned == TypeOK /\ EntriesOwned /\ VfdsOwned

\* The table of entries of md_init, fdvec_alloc and fdvec_free: an entry is
\* either free, once, or in use by one relation, also when the table grows
\* while an entry is handed out.
PoolExact == FdvecFreeList /\ EntriesOwned
=============================================================================
