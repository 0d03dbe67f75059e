-------------------------------- MODULE Vfd ---------------------------------
(***************************************************************************)
(* The virtual file descriptor cache of storage/file/fd.c, for one backend *)
(* process.  A File is an index into VfdCache; index 0 is the header of    *)
(* the LRU ring and of the free list.  The fields of struct Vfd are one    *)
(* function or set each:                                                   *)
(*                                                                         *)
(*   open       the entries whose fd is not VFD_CLOSED                     *)
(*   named      the entries whose filename is not NULL (FILE_IS_VALID)     *)
(*   dirty      fdstate & FD_DIRTY         temp   fdstate & FD_TEMPORARY   *)
(*   more, less lru_more_recently, lru_less_recently                       *)
(*   next_free  next_free                  seek_pos  seek_pos              *)
(*                                                                         *)
(* The code is sequential, but one call may close any number of other      *)
(* files before its own open succeeds, and every system call may fail.  A  *)
(* call is therefore several steps: pc is the call in progress (the loops  *)
(* of lru_insert, basic_open_file, allocate_file, close_all_vfds and       *)
(* at_eo_xact_files are the steps it stays in), cur the VFD it works on.   *)
(*                                                                         *)
(* The kernel (external) is koff, the offset of the kernel descriptor of   *)
(* an open entry, and the nondeterministic outcome of open, fopen, read,   *)
(* write and fsync.  elog(ERROR) and elog(FATAL) return to their caller in *)
(* this code base (elog.c only formats the message), so execution goes on  *)
(* after them; a failed ASSERT aborts the process (pc "aborted") and a     *)
(* write outside an array makes what follows undefined (pc "undefined").   *)
(***************************************************************************)
EXTENDS Ring

CONSTANTS
  MaxVfd,               \* bound: the array may grow to indexes 0..MaxVfd
  VfdChunk,             \* smallest size the array is grown to (32)
  MaxFilePerProcess,    \* what pg_nofile returns
  MAX_ALLOCATED_FILES,  \* limit on stdio files (32)
  MaxPos,               \* bound on file positions
  MaxTemp,              \* bound on TempFileCounter
  SeekOffsets,          \* the offsets callers pass to file_seek
  SeekFirst             \* TRUE: after a short read or an error callers seek
                        \* before the next transfer, as every caller in md.c does

ASSUME VfdAssumption ==
  /\ MaxVfd \in Nat \ {0}
  /\ VfdChunk \in Nat /\ VfdChunk >= 2
  /\ MaxFilePerProcess \in Nat \ {0}
  /\ MAX_ALLOCATED_FILES \in Nat
  /\ MaxPos \in Nat /\ MaxTemp \in Nat
  /\ SeekOffsets \subseteq Int
  /\ SeekFirst \in BOOLEAN

VARIABLES
  size,               \* SizeVfdCache
  open, named, dirty, temp,
  more, less, next_free,
  seek_pos,
  tempno,             \* the number in the name of a temporary file
  NFile, NumAllocatedFiles, TempFileCounter,
  EnableFsync,        \* the -F switch, fixed when the backend starts
  pc, cur,
  koff,               \* kernel: offset of the open descriptor of a VFD
  pos,                \* history: offset a descriptor never closed would have
  owed                \* history: created or marked dirty, no fsync since

lruVars == <<more, less>>
slotVars == <<size, next_free, named, temp, tempno>>
posVars == <<seek_pos, koff, pos>>
syncVars == <<dirty, owed>>
countVars == <<NumAllocatedFiles, TempFileCounter, EnableFsync>>
vars == <<lruVars, slotVars, posVars, syncVars, countVars, open, NFile, pc, cur>>

File == 0..MaxVfd

FILE_UNKNOWN_POS == -1

\* Calls that open a VFD for the first time.
OpenCalls == {"open", "creat", "temp"}

\* Calls that may have to reopen a VFD that was closed to save descriptors.
ReopenCalls == {"read", "write", "seekend", "sync", "truncsync", "trunc"}

\* A call starts, working on VFD f, and ends.
Enter(call, f) == pc' = call /\ cur' = f
Return == pc' = "idle" /\ cur' = 0

Init ==
  /\ size = 0
  /\ open = {} /\ named = {} /\ dirty = {} /\ temp = {}
  /\ more = [f \in File |-> 0]
  /\ less = [f \in File |-> 0]
  /\ next_free = [f \in File |-> 0]
  /\ seek_pos = [f \in File |-> 0]
  /\ tempno = [f \in File |-> 0]
  /\ NFile = 0 /\ NumAllocatedFiles = 0 /\ TempFileCounter = 0
  /\ EnableFsync \in BOOLEAN
  /\ pc = "idle" /\ cur = 0
  /\ koff = [f \in File |-> 0]
  /\ pos = [f \in File |-> 0]
  /\ owed = {}

-----------------------------------------------------------------------------
(* The private routines on the ring, the free list and one entry.          *)

\* Mutant of delete: only the forward link of the neighbour is repaired.
delete_one_way(f) ==
  /\ more' = NextUnlinked(more, less, f)
  /\ UNCHANGED less

\* delete: take a file out of the LRU ring.
delete(f) ==
  /\ more' = NextUnlinked(more, less, f)
  /\ less' = PrevUnlinked(more, less, f)

\* insert: put a file at the most recently used end of the ring.
insert(f) ==
  /\ more' = NextAppended(more, less, 0, f)
  /\ less' = PrevAppended(more, less, 0, f)

\* delete followed by insert, as file_access does with a file that is open
\* and not already the most recently used one.
MoveToFront(f) ==
  IF less[0] = f
  THEN UNCHANGED lruVars
  ELSE LET m == NextUnlinked(more, less, f)
           l == PrevUnlinked(more, less, f)
       IN  /\ more' = NextAppended(m, l, 0, f)
           /\ less' = PrevAppended(m, l, 0, f)

\* A successful pg_fsync of the file behind VFD f (a no-op under -F).
pg_fsync(f) ==
  /\ dirty' = dirty \ {f}
  /\ owed' = owed \ {f}

\* Mutant of lru_delete: the descriptor is closed but NFile is not lowered.
lru_delete_uncounted(f) ==
  /\ delete(f)
  /\ seek_pos' = [seek_pos EXCEPT ![f] = koff[f]]
  /\ koff' = [koff EXCEPT ![f] = 0]
  /\ IF f \in dirty THEN pg_fsync(f) ELSE UNCHANGED syncVars
  /\ open' = open \ {f}
  /\ UNCHANGED <<NFile, pos>>

\* Mutant of lru_delete: the position is not asked of the kernel, although
\* seek_pos may be FILE_UNKNOWN_POS.
lru_delete_unsaved(f) ==
  /\ delete(f)
  /\ koff' = [koff EXCEPT ![f] = 0]
  /\ IF f \in dirty THEN pg_fsync(f) ELSE UNCHANGED syncVars
  /\ open' = open \ {f}
  /\ NFile' = NFile - 1
  /\ UNCHANGED <<seek_pos, pos>>

\* A kernel descriptor of f is closed: remember where it was, sync it if it
\* is dirty.
lru_delete(f) ==
  /\ delete(f)
  /\ seek_pos' = [seek_pos EXCEPT ![f] = koff[f]]
  /\ koff' = [koff EXCEPT ![f] = 0]
  /\ IF f \in dirty THEN pg_fsync(f) ELSE UNCHANGED syncVars
  /\ open' = open \ {f}
  /\ NFile' = NFile - 1
  /\ UNCHANGED pos

\* next_free after growing the array from old to new entries, the new ones
\* linked in index order.
Grown(old, new) ==
  [f \in File |-> IF f = 0 THEN old
                  ELSE IF f \in old..(new - 1)
                       THEN IF f = new - 1 THEN 0 ELSE f + 1
                       ELSE next_free[f]]

\* allocate_vfd: take the first entry of the free list, growing the array
\* when the list is empty; the entry becomes cur.
allocate_vfd ==
  LET old == IF size = 0 THEN 1 ELSE size
      new == IF 2 * old < VfdChunk THEN VfdChunk ELSE 2 * old
  IN  \/ /\ next_free[0] # 0
         /\ cur' = next_free[0]
         /\ next_free' = [next_free EXCEPT ![0] = next_free[next_free[0]]]
         /\ UNCHANGED size
      \/ /\ next_free[0] = 0
         /\ new <= MaxVfd + 1
         /\ size' = new
         /\ cur' = old
         /\ next_free' = [Grown(old, new) EXCEPT ![0] = Grown(old, new)[old]]

\* Mutant of free_vfd: the old head of the free list is not kept.
free_vfd_forgets(f) ==
  /\ named' = named \ {f}
  /\ temp' = temp \ {f}
  /\ tempno' = [tempno EXCEPT ![f] = 0]
  /\ next_free' = [next_free EXCEPT ![f] = 0, ![0] = f]

\* free_vfd: return an entry to the free list.
free_vfd(f) ==
  /\ named' = named \ {f}
  /\ temp' = temp \ {f}
  /\ tempno' = [tempno EXCEPT ![f] = 0]
  /\ next_free' = [next_free EXCEPT ![f] = next_free[0], ![0] = f]

\* Descriptors must be closed before another one may be opened: the loop
\* condition of lru_insert and file_name_open_file_aux.
NeedRoom == NFile + NumAllocatedFiles >= MaxFilePerProcess /\ NFile > 0

\* Mutant of CloseVfd: NFile is lowered for a file without descriptor, too.
CloseVfd_miscounts(f) ==
  /\ IF f \in open
     THEN /\ delete(f)
          /\ IF f \in dirty THEN pg_fsync(f) ELSE UNCHANGED syncVars
     ELSE /\ dirty' = dirty \ {f}
          /\ UNCHANGED <<lruVars, owed>>
  /\ open' = open \ {f}
  /\ NFile' = NFile - 1
  /\ free_vfd(f)
  /\ pos' = [pos EXCEPT ![f] = 0]
  /\ koff' = [koff EXCEPT ![f] = 0]
  /\ UNCHANGED <<seek_pos, size>>

\* file_close after its assertion on the file: sync and close the kernel
\* descriptor if there is one, then give the entry back.  A file without a
\* descriptor is not synced whatever its dirty bit says; nothing is owed of
\* one that file_unlink or FD_TEMPORARY deletes.
CloseVfd(f) ==
  /\ IF f \in open
     THEN /\ delete(f)
          /\ IF f \in dirty THEN pg_fsync(f) ELSE UNCHANGED syncVars
          /\ open' = open \ {f}
          /\ NFile' = NFile - 1
     ELSE /\ dirty' = dirty \ {f}
          /\ \E unlinked \in {(f \in temp), TRUE} :
               owed' = IF unlinked THEN owed \ {f} ELSE owed
          /\ UNCHANGED <<lruVars, open, NFile>>
  /\ free_vfd(f)
  /\ pos' = [pos EXCEPT ![f] = 0]
  /\ koff' = [koff EXCEPT ![f] = 0]
  /\ UNCHANGED <<seek_pos, size>>

-----------------------------------------------------------------------------
(* Opening: file_name_open_file, path_name_open_file, open_temporary_file. *)

\* A caller asks for a new VFD: kind "open" for an existing file, "creat"
\* with O_CREAT, "temp" for open_temporary_file.
file_name_open_file(kind) ==
  /\ pc = "idle"
  /\ kind = "temp" => TempFileCounter < MaxTemp
  /\ pc' = kind
  /\ allocate_vfd
  /\ TempFileCounter' = IF kind = "temp" THEN TempFileCounter + 1
                                         ELSE TempFileCounter
  /\ UNCHANGED <<lruVars, named, temp, tempno, posVars, syncVars,
                 NumAllocatedFiles, EnableFsync, open, NFile>>

\* release_lru_file: the least recently used file loses its descriptor, to
\* stay within the limit or because open or fopen said EMFILE or ENFILE.
release_lru_file ==
  /\ pc \in OpenCalls \cup {"fopen"} \/ (pc \in ReopenCalls /\ cur \notin open)
  /\ NFile > 0
  /\ lru_delete(more[0])
  /\ UNCHANGED <<slotVars, countVars, pc, cur>>

\* The fsync or the close of an open file fails in lru_delete or file_close:
\* the ASSERT behind it aborts the process.
CloseAborts(f) ==
  /\ f \in open
  /\ pc' = "aborted"
  /\ UNCHANGED <<lruVars, slotVars, posVars, syncVars, countVars, open, NFile, cur>>

\* release_lru_file stops at the assertion in lru_delete.
release_lru_file_aborts ==
  /\ pc \in OpenCalls \cup {"fopen"} \/ (pc \in ReopenCalls /\ cur \notin open)
  /\ NFile > 0
  /\ CloseAborts(more[0])

\* file_name_open_file_aux once open(2) succeeds.
OpenSucceeds ==
  /\ pc \in OpenCalls
  /\ ~NeedRoom
  /\ open' = open \cup {cur}
  /\ NFile' = NFile + 1
  /\ insert(cur)
  /\ named' = named \cup {cur}
  /\ seek_pos' = [seek_pos EXCEPT ![cur] = 0]
  /\ koff' = [koff EXCEPT ![cur] = 0]
  /\ pos' = [pos EXCEPT ![cur] = 0]
  /\ dirty' = IF pc = "open" THEN dirty \ {cur} ELSE dirty \cup {cur}
  /\ owed' = IF pc = "open" THEN owed \ {cur} ELSE owed \cup {cur}
  /\ temp' = IF pc = "temp" THEN temp \cup {cur} ELSE temp \ {cur}
  /\ tempno' = [tempno EXCEPT ![cur] = IF pc = "temp" THEN TempFileCounter ELSE 0]
  /\ Return
  /\ UNCHANGED <<size, next_free, countVars>>

\* open(2) fails: the entry goes back to the free list and -1 is returned.
\* open_temporary_file then sets FD_TEMPORARY in VfdCache[-1], because its
\* elog(ERROR) returns.
OpenFails ==
  /\ pc \in OpenCalls
  /\ ~NeedRoom
  /\ free_vfd(cur)
  /\ dirty' = dirty \ {cur}
  /\ IF pc = "temp" THEN Enter("undefined", 0) ELSE Return
  /\ UNCHANGED <<lruVars, size, posVars, owed, countVars, open,
                 NFile>>

-----------------------------------------------------------------------------
(* Transfers, seeks, truncation and sync of a valid VFD.                   *)

\* file_access on an open file at the start of a call.
BeginAccess(call, f) ==
  /\ pc = "idle"
  /\ f \in named
  /\ Enter(call, f)
  /\ IF f \in open THEN MoveToFront(f) ELSE UNCHANGED lruVars
  /\ UNCHANGED <<slotVars, posVars, syncVars, countVars, open, NFile>>

\* file_read and file_write start with file_access.
file_read(f) ==
  /\ SeekFirst => seek_pos[f] # FILE_UNKNOWN_POS
  /\ BeginAccess("read", f)

file_write(f) ==
  /\ SeekFirst => seek_pos[f] # FILE_UNKNOWN_POS
  /\ BeginAccess("write", f)

\* lru_insert reopens the file and seeks to the saved position.
ReopenSucceeds ==
  /\ pc \in ReopenCalls
  /\ cur \notin open
  /\ ~NeedRoom
  /\ seek_pos[cur] >= 0
  /\ open' = open \cup {cur}
  /\ NFile' = NFile + 1
  /\ koff' = [koff EXCEPT ![cur] = seek_pos[cur]]
  /\ insert(cur)
  /\ UNCHANGED <<slotVars, seek_pos, pos, syncVars, countVars, pc, cur>>

\* The lseek in lru_insert fails, for the saved position is not one.
ReopenAborts ==
  /\ pc \in ReopenCalls
  /\ cur \notin open
  /\ ~NeedRoom
  /\ seek_pos[cur] < 0
  /\ pc' = "aborted"
  /\ UNCHANGED <<lruVars, slotVars, posVars, syncVars, countVars, open, NFile, cur>>

\* The file cannot be reopened.  Only file_sync looks at the result: the
\* others go on with descriptor -1, on which every system call fails.
ReopenFails ==
  /\ pc \in ReopenCalls
  /\ cur \notin open
  /\ ~NeedRoom
  /\ IF pc = "truncsync" THEN Enter("trunc", cur) ELSE Return
  /\ seek_pos' = IF pc \in {"read", "write", "seekend"}
                 THEN [seek_pos EXCEPT ![cur] = FILE_UNKNOWN_POS] ELSE seek_pos
  /\ pos' = IF pc \in {"read", "write", "seekend"}
            THEN [pos EXCEPT ![cur] = FILE_UNKNOWN_POS] ELSE pos
  /\ UNCHANGED <<lruVars, slotVars, koff, syncVars, countVars, open, NFile>>

\* read or write returns a positive count (one unit).
TransferSome ==
  /\ pc \in {"read", "write"}
  /\ cur \in open
  /\ koff[cur] < MaxPos
  /\ koff' = [koff EXCEPT ![cur] = @ + 1]
  /\ seek_pos' = [seek_pos EXCEPT ![cur] = @ + 1]
  /\ pos' = [pos EXCEPT ![cur] = @ + 1]
  /\ Return
  /\ UNCHANGED <<lruVars, slotVars, dirty, owed, countVars, open, NFile>>

\* read returns 0 at the end of the file, or read or write fail.
TransferNone ==
  /\ pc \in {"read", "write"}
  /\ cur \in open
  /\ seek_pos' = [seek_pos EXCEPT ![cur] = FILE_UNKNOWN_POS]
  /\ Return
  /\ UNCHANGED <<lruVars, slotVars, koff, pos, syncVars, countVars, open, NFile>>

\* lseek of the descriptor of f to the absolute position p: EINVAL when it is
\* negative, and the offset stays where it was.
Lseek(f, p) ==
  /\ seek_pos' = [seek_pos EXCEPT ![f] = IF p >= 0 THEN p ELSE -1]
  /\ koff' = [koff EXCEPT ![f] = IF p >= 0 THEN p ELSE @]

\* file_seek with SEEK_SET.
file_seek_set(f, offset) ==
  /\ pc = "idle"
  /\ f \in named
  /\ IF f \notin open
     THEN seek_pos' = [seek_pos EXCEPT ![f] = offset] /\ UNCHANGED koff
     ELSE IF seek_pos[f] # offset THEN Lseek(f, offset)
                                  ELSE UNCHANGED <<seek_pos, koff>>
  /\ pos' = IF offset >= 0 THEN [pos EXCEPT ![f] = offset] ELSE pos
  /\ UNCHANGED <<lruVars, slotVars, syncVars, countVars, open, NFile>>
  /\ Return

\* file_seek with SEEK_CUR.
file_seek_cur(f, offset) ==
  /\ pc = "idle"
  /\ f \in named
  /\ SeekFirst => seek_pos[f] # FILE_UNKNOWN_POS \/ f \in open
  /\ pos[f] + offset <= MaxPos
  /\ IF f \notin open
     THEN seek_pos' = [seek_pos EXCEPT ![f] = @ + offset] /\ UNCHANGED koff
     ELSE IF offset # 0 \/ seek_pos[f] = FILE_UNKNOWN_POS
          THEN Lseek(f, koff[f] + offset)
          ELSE UNCHANGED <<seek_pos, koff>>
  /\ pos' = IF pos[f] + offset >= 0 THEN [pos EXCEPT ![f] = @ + offset] ELSE pos
  /\ UNCHANGED <<lruVars, slotVars, syncVars, countVars, open, NFile>>
  /\ Return

\* file_seek with SEEK_END: a closed file is reopened with file_access, an
\* open one keeps its place in the ring.
file_seek_end(f) ==
  /\ pc = "idle"
  /\ f \in named
  /\ Enter("seekend", f)
  /\ UNCHANGED <<lruVars, slotVars, posVars, syncVars, countVars, open, NFile>>

\* The lseek of SEEK_END, wherever the end of the file is.
SeekEnd ==
  /\ pc = "seekend"
  /\ cur \in open
  /\ \E p \in 0..MaxPos : /\ Lseek(cur, p)
                          /\ pos' = [pos EXCEPT ![cur] = p]
  /\ Return
  /\ UNCHANGED <<lruVars, slotVars, syncVars, countVars, open, NFile>>

\* file_sync, and the file_sync at the start of file_truncate.
file_sync(f, call) ==
  /\ pc = "idle"
  /\ f \in named
  /\ LET Done == IF call = "sync" THEN Return ELSE Enter("trunc", f)
     IN  \/ /\ f \notin dirty
            /\ Done
            /\ UNCHANGED syncVars
         \/ /\ f \in dirty /\ ~EnableFsync
            /\ Done
            /\ pg_fsync(f)
         \* An open dirty file: nothing happens (and the result is whatever
         \* the uninitialised return_code holds).
         \/ /\ f \in dirty /\ EnableFsync /\ f \in open
            /\ Done
            /\ UNCHANGED syncVars
         \/ /\ f \in dirty /\ EnableFsync /\ f \notin open
            /\ Enter(call, f)
            /\ UNCHANGED syncVars
  /\ UNCHANGED <<lruVars, slotVars, posVars, countVars, open, NFile>>

\* The pg_fsync of file_sync on a file it has just reopened.
SyncReopened ==
  /\ pc \in {"sync", "truncsync"}
  /\ cur \in open
  /\ pg_fsync(cur) \/ UNCHANGED syncVars
  /\ IF pc = "sync" THEN Return ELSE Enter("trunc", cur)
  /\ UNCHANGED <<lruVars, slotVars, posVars, countVars, open, NFile>>

\* file_access and ftruncate at the end of file_truncate; ftruncate moves no
\* file offset.
Truncate ==
  /\ pc = "trunc"
  /\ cur \in open
  /\ MoveToFront(cur)
  /\ Return
  /\ UNCHANGED <<slotVars, posVars, syncVars, countVars, open, NFile>>

\* file_mark_dirty: another backend wrote a buffer this one had dirtied.
file_mark_dirty(f) ==
  /\ pc = "idle"
  /\ f \in named
  /\ dirty' = dirty \cup {f}
  /\ owed' = owed \cup {f}
  /\ UNCHANGED <<lruVars, slotVars, posVars, countVars, open, NFile>>
  /\ Return

-----------------------------------------------------------------------------
(* Closing, the end of a transaction, stdio files.                         *)

\* file_close, and file_unlink, which sets FD_TEMPORARY and calls it.
file_close(f) ==
  /\ pc = "idle"
  /\ f \in named
  /\ CloseVfd(f)
  /\ UNCHANGED <<countVars>>
  /\ Return

\* file_close stops at the assertion on its fsync or its close.
file_close_aborts(f) ==
  /\ pc = "idle"
  /\ f \in named
  /\ CloseAborts(f)

\* Mutant of BeginSweep: the walk starts at the second entry.
BeginSweep_late(call) ==
  /\ pc = "idle"
  /\ Enter(call, 2)
  /\ UNCHANGED <<lruVars, slotVars, posVars, syncVars, countVars, open, NFile>>

\* close_all_vfds and at_eo_xact_files walk the array from index 1.
BeginSweep(call) ==
  /\ pc = "idle"
  /\ Enter(call, 1)
  /\ UNCHANGED <<lruVars, slotVars, posVars, syncVars, countVars, open, NFile>>

\* One round of the loop of close_all_vfds, and its end.
close_all_vfds ==
  /\ pc = "closeall"
  /\ \/ /\ cur < size /\ cur \in open
        /\ lru_delete(cur)
        /\ Enter(pc, cur + 1)
     \/ /\ cur < size /\ cur \notin open
        /\ Enter(pc, cur + 1)
        /\ UNCHANGED <<lruVars, posVars, syncVars, open, NFile>>
     \/ /\ cur >= size
        /\ Return
        /\ UNCHANGED <<lruVars, posVars, syncVars, open, NFile>>
  /\ UNCHANGED <<slotVars, countVars>>

\* One round of the loop of at_eo_xact_files: temporary files are closed,
\* the dirty bit of the others is cleared (nothing is owed after an abort);
\* at its end the stdio files are closed and the name counter is reset.
at_eo_xact_files ==
  /\ pc = "eoxact"
  /\ \/ /\ cur < size /\ cur \in temp /\ cur \in named
        /\ CloseVfd(cur)
        /\ Enter(pc, cur + 1)
        /\ UNCHANGED countVars
     \/ /\ cur < size /\ ~(cur \in temp /\ cur \in named)
        /\ dirty' = dirty \ {cur}
        /\ owed' = owed \ {cur}
        /\ Enter(pc, cur + 1)
        /\ UNCHANGED <<lruVars, slotVars, posVars, countVars, open,
                       NFile>>
     \/ /\ cur >= size
        /\ Return
        /\ NumAllocatedFiles' = 0
        /\ TempFileCounter' = 0
        /\ UNCHANGED <<lruVars, slotVars, posVars, syncVars, EnableFsync, open,
                       NFile>>

\* Either sweep stops at such an assertion.
sweep_aborts ==
  /\ pc = "closeall" \/ (pc = "eoxact" /\ cur \in temp /\ cur \in named)
  /\ cur < size
  /\ CloseAborts(cur)

\* allocate_file: at the limit elog(ERROR) returns and the call goes on.
allocate_file ==
  /\ pc = "idle"
  /\ Enter("fopen", 0)
  /\ UNCHANGED <<lruVars, slotVars, posVars, syncVars, countVars, open, NFile>>

\* fopen succeeds; at the limit the FILE is stored behind AllocatedFiles.
FopenSucceeds ==
  /\ pc = "fopen"
  /\ NumAllocatedFiles' = NumAllocatedFiles + 1
  /\ IF NumAllocatedFiles >= MAX_ALLOCATED_FILES THEN Enter("undefined", 0)
                                                ELSE Return
  /\ UNCHANGED <<lruVars, slotVars, posVars, syncVars, TempFileCounter,
                 EnableFsync, open, NFile>>

\* fopen fails for another reason, or for lack of descriptors with no VFD
\* left to close: NULL is returned.
FopenFails ==
  /\ pc = "fopen"
  /\ Return
  /\ UNCHANGED <<lruVars, slotVars, posVars, syncVars, countVars, open, NFile>>

\* free_file of a file that allocate_file returned.
free_file ==
  /\ pc = "idle"
  /\ NumAllocatedFiles > 0
  /\ NumAllocatedFiles' = NumAllocatedFiles - 1
  /\ UNCHANGED <<lruVars, slotVars, posVars, syncVars, TempFileCounter,
                 EnableFsync, open, NFile>>
  /\ Return

\* A new backend takes the place of one that died.
Restart ==
  /\ pc \in {"aborted", "undefined"}
  /\ size' = 0
  /\ open' = {} /\ named' = {} /\ dirty' = {} /\ temp' = {}
  /\ more' = [f \in File |-> 0]
  /\ less' = [f \in File |-> 0]
  /\ next_free' = [f \in File |-> 0]
  /\ seek_pos' = [f \in File |-> 0]
  /\ tempno' = [f \in File |-> 0]
  /\ NFile' = 0 /\ NumAllocatedFiles' = 0 /\ TempFileCounter' = 0
  /\ Return
  /\ koff' = [f \in File |-> 0]
  /\ pos' = [f \in File |-> 0]
  /\ owed' = {}
  /\ UNCHANGED EnableFsync

Next ==
  \/ \E kind \in OpenCalls : file_name_open_file(kind)
  \/ OpenSucceeds \/ OpenFails
  \/ release_lru_file \/ release_lru_file_aborts
  \/ ReopenSucceeds \/ ReopenAborts \/ ReopenFails
  \/ \E f \in File : \/ file_read(f) \/ file_write(f)
                     \/ \E o \in SeekOffsets : \/ file_seek_set(f, o)
                                              \/ file_seek_cur(f, o)
                     \/ file_seek_end(f)
                     \/ file_sync(f, "sync") \/ file_sync(f, "truncsync")
                     \/ file_mark_dirty(f)
                     \/ file_close(f) \/ file_close_aborts(f)
  \/ TransferSome \/ TransferNone \/ SeekEnd \/ SyncReopened \/ Truncate
  \/ BeginSweep("closeall") \/ BeginSweep("eoxact")
  \/ close_all_vfds \/ at_eo_xact_files \/ sweep_aborts
  \/ allocate_file \/ FopenSucceeds \/ FopenFails \/ free_file
  \/ Restart

Spec == Init /\ [][Next]_vars

\* The steps of a call in progress.
Continue ==
  \/ OpenSucceeds \/ OpenFails
  \/ release_lru_file \/ release_lru_file_aborts
  \/ ReopenSucceeds \/ ReopenAborts \/ ReopenFails
  \/ TransferSome \/ TransferNone \/ SeekEnd \/ SyncReopened \/ Truncate
  \/ close_all_vfds \/ at_eo_xact_files \/ sweep_aborts
  \/ FopenSucceeds \/ FopenFails
  \/ Restart

\* The process is scheduled and system calls return; nothing obliges a caller
\* to make another call.
FairSpec == Spec /\ WF_vars(Continue)

-----------------------------------------------------------------------------
(* Properties.                                                             *)

Calls == OpenCalls \cup ReopenCalls
           \cup {"idle", "fopen", "closeall", "eoxact", "aborted", "undefined"}

\* The types of the variables.
TypeOK ==
  /\ size \in 0..(MaxVfd + 1)
  /\ open \in SUBSET File /\ named \in SUBSET File
  /\ dirty \in SUBSET File /\ temp \in SUBSET File
  /\ more \in [File -> File] /\ less \in [File -> File]
  /\ next_free \in [File -> File]
  /\ seek_pos \in [File -> Int]
  /\ tempno \in [File -> Nat]
  /\ NFile \in Nat /\ NumAllocatedFiles \in Nat /\ TempFileCounter \in Nat
  /\ EnableFsync \in BOOLEAN
  /\ pc \in Calls /\ cur \in 0..(MaxVfd + 1)
  /\ koff \in [File -> Nat] /\ pos \in [File -> Int]
  /\ owed \in SUBSET File

\* The LRU ring of fd.c holds exactly the VFDs that have a kernel descriptor,
\* each once, in both directions: what the drawing above the private routines
\* says, and what release_lru_file needs to find a victim.
RingHoldsOpenFiles == IsRing(0, open, more, less)

\* NFile counts the kernel descriptors behind VFDs, so that the limit test
\* and the assertion of release_lru_file (NFile > 0 and the ring is not
\* empty) mean what they say.
NFileCounts == NFile = Cardinality(open)

\* The entries of the array that are not in use: no file name, and not the
\* one a call in progress has just taken.
Unused == {f \in 1..(size - 1) : f \notin named /\ ~(pc \in OpenCalls /\ f = cur)}

\* The free list holds exactly the unused entries, each once: no entry is
\* leaked when an open fails and none is handed out twice.
FreeListHoldsUnused == pc # "aborted" => IsChain(0, Unused, next_free)

\* Whenever a VFD gets a kernel descriptor, the descriptors the process then
\* holds, those of the VFDs counted one by one, are within the limit of
\* pg_nofile, or it is the only VFD that has one.  fd.c compares the limit
\* with NFile, which every open, eviction, failure and close has to keep in
\* step with the descriptors that are really there.
DescriptorBudget ==
  [][Cardinality(open') > Cardinality(open) =>
       \/ Cardinality(open') = 1
       \/ Cardinality(open') + NumAllocatedFiles' <= MaxFilePerProcess]_vars

\* Closing and reopening descriptors behind the caller's back never moves a
\* file: an open file is where its caller left it (and seek_pos, when it is
\* known, says so), and a closed one will be put back there.
PositionKept ==
  \A f \in named :
    IF f \in open
    THEN koff[f] = pos[f] /\ seek_pos[f] \in {pos[f], FILE_UNKNOWN_POS}
    ELSE seek_pos[f] = pos[f]

\* The comment above file_sync: FileClose "will fsync a dirty File that is
\* about to be closed, since there will be no other place to remember the
\* need to fsync after the VFD is gone".  So whatever was created or marked
\* dirty and has not been fsynced in this transaction still has its FD_DIRTY
\* bit.  file_close looks at the bit only when the file has a kernel
\* descriptor, and file_mark_dirty sets it without opening one.
DirtyRemembered == EnableFsync => owed \subseteq dirty

\* Every call ends: the loops of lru_insert, basic_open_file and allocate_file
\* that close one file after another to make room run out of files to close,
\* and the walks over the array reach its end.
CallReturns == pc # "idle" ~> pc = "idle"

\* Two live temporary files never have the same name, although the counter
\* in their names restarts at every end of transaction.
TempNamesDiffer ==
  \A f, g \in temp \cap named : tempno[f] = tempno[g] => f = g

-----------------------------------------------------------------------------
(* For TLC: states that differ only in fields no code reads before they    *)
(* are written are identified.  These are the ring links of a VFD that is  *)
(* closed (delete leaves them behind), the free-list link of an entry in   *)
(* use and the position of an entry that is not.                           *)

Live(g, S) == [f \in File |-> IF f \in S THEN g[f] ELSE 0]

View ==
  <<size, open, named, dirty, temp, tempno, NFile, countVars, pc, cur,
    koff, pos, owed,
    Live(more, open \cup {0}), Live(less, open \cup {0}),
    Live(next_free, Unused \cup {0}), Live(seek_pos, named)>>
=============================================================================
