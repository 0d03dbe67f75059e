------------------------------- MODULE Startup ------------------------------
(***************************************************************************)
(* Processes that start on the shared memory segment: the postmaster sets  *)
(* up the index, the process table header and the buffer pool; backends    *)
(* attach to the pool (storage/buffer/buf_init.c, buf_table.c) and take a   *)
(* Proc structure (storage/lmgr/proc.c), exit, or crash, and start again   *)
(* with the same pid.                                                      *)
(*                                                                         *)
(* A backend starts once "Proc Header" is initialised ("InitProcGlobal()   *)
(* is called before this", proc.c), the pool may still be in the making.   *)
(* The semaphores of the process table are created by ipc_semaphore_create *)
(* (IpcKeys) and not part of this module.  elog returns at every level, so *)
(* what stops the program in a comment goes on in the model.               *)
(***************************************************************************)
EXTENDS Shmem

CONSTANTS
  Postmaster,    \* the process that creates everything
  PROC_SIZE,     \* sizeof(Proc)
  SEGS_SIZE,     \* what hash_create allocates for the buffer lookup table
  MaxLives       \* bound on the backends ever started

ASSUME StartupAssumption ==
  /\ Postmaster \in Procs /\ Procs \cap Structs = {}
  /\ PROC_SIZE \in Nat \ {0} /\ SEGS_SIZE \in Nat \ {0} /\ MaxLives \in Nat
  /\ Structs = {"ShmemIndex", "VariableCache", "Proc Header",
                "Buffer Descriptors", "Buffer Blocks", "Shared Buffer Lookup Table"}

VARIABLES
  ready,      \* the structures whose contents have been initialised, as a bag
  free_procs, \* ProcGlobal->free_procs
  MyProc,     \* per process
  descs,      \* per process: BufferDescriptors and found_descs
  lives,      \* backends started
  crashed     \* pids of backends that ended without their callbacks

tableVars == <<ready, free_procs, MyProc, descs>>
startVars == <<shmemVars, lockVars, procVars, tableVars, lives, crashed>>

HashTable == "Shared Buffer Lookup Table"

----------------------------------------------------------------------------
\* init_proc_global.
init_proc_global == shmem_init_struct("Proc Header") \o <<<<"procglobal", "Proc Header">>>>

\* The one who made it initialises it; the others find it initialised.
InitProcHeader(p) ==
  /\ At(p, "procglobal")
  /\ IF found[p] THEN Step(p) /\ UNCHANGED <<ready, free_procs>>
     ELSE IF ret[p] = NULL THEN Dies(p) /\ UNCHANGED <<ready, free_procs>>
     ELSE /\ free_procs' = <<>>
          /\ ready' = [ready EXCEPT !["Proc Header"] = @ + 1]
          /\ Step(p)
  /\ UNCHANGED <<shmemVars, lockVars, ret, found, top, MyProc, descs>>

\* init_buf_table: shmem_init_hash looks the header up and gives up the index
\* before hash_create initialises it.
init_buf_table == shmem_init_struct(HashTable) \o <<<<"hash_create", HashTable>>>>

\* init_buffer_pool.  Mutant: the pool's lock is given up before the rest of
\* the module is initialised.
init_buffer_pool_early ==
  Locked("BufMgrLock", shmem_init_struct("Buffer Descriptors") \o <<<<"descs", "Buffer Descriptors">>>>
                         \o shmem_init_struct("Buffer Blocks") \o <<<<"link", "Buffer Blocks">>>>)
    \o init_buf_table \o <<<<"freelist", "Buffer Descriptors">>>>

init_buffer_pool ==
  Locked("BufMgrLock", shmem_init_struct("Buffer Descriptors") \o <<<<"descs", "Buffer Descriptors">>>>
                         \o shmem_init_struct("Buffer Blocks") \o <<<<"link", "Buffer Blocks">>>>
                         \o init_buf_table \o <<<<"freelist", "Buffer Descriptors">>>>)

KeepDescs(p) ==
  /\ At(p, "descs")
  /\ descs' = [descs EXCEPT ![p] = [at |-> ret[p], found |-> found[p]]]
  /\ Step(p)
  /\ UNCHANGED <<shmemVars, lockVars, ret, found, top, ready, free_procs, MyProc>>

\* Both should be present or neither; a null pointer is not looked for.
LinkBuffers(p) ==
  /\ At(p, "link")
  /\ IF descs[p].found \/ found[p]
     THEN /\ IF descs[p].found /\ found[p] THEN Step(p) ELSE Dies(p)
          /\ UNCHANGED ready
     ELSE IF NULL \in {descs[p].at, ret[p]}
     THEN Dies(p) /\ UNCHANGED ready
     ELSE /\ ready' = [ready EXCEPT !["Buffer Blocks"] = @ + 1]
          /\ Step(p)
  /\ UNCHANGED <<shmemVars, lockVars, ret, found, top, free_procs, MyProc, descs>>

\* hash_create attaches to a table that was found.  No space: exit(1).
HashCreate(p) ==
  /\ At(p, "hash_create")
  /\ IF ret[p] = NULL THEN Dies(p)
     ELSE IF found[p] THEN Step(p)
     ELSE Call(p, shmem_alloc(SEGS_SIZE) \o <<<<"hash_done", HashTable>>>>)
  /\ UNCHANGED <<shmemVars, lockVars, ret, found, top, tableVars>>

HashDone(p) ==
  /\ At(p, "hash_done")
  /\ IF ret[p] = NULL
     THEN Dies(p) /\ UNCHANGED ready
     ELSE ready' = [ready EXCEPT ![HashTable] = @ + 1] /\ Step(p)
  /\ UNCHANGED <<shmemVars, lockVars, ret, found, top, free_procs, MyProc, descs>>

\* init_freelist(!found_descs).
InitFreelist(p) ==
  /\ At(p, "freelist")
  /\ ready' = IF descs[p].found THEN ready ELSE [ready EXCEPT !["Buffer Descriptors"] = @ + 1]
  /\ Step(p)
  /\ UNCHANGED <<shmemVars, lockVars, ret, found, top, free_procs, MyProc, descs>>

----------------------------------------------------------------------------
\* init_process, up to the choice of a Proc.
init_process ==
  <<<<"acquire", "ProcStructLock">>>> \o shmem_init_struct("Proc Header") \o <<<<"take", "Proc Header">>>>

\* The rest, once there is a Proc: the lock, the entry under the pid, and the
\* callback that is registered when the process runs.
HaveProc(p) == <<<<"release", "ProcStructLock">>>> \o shmem_pid_lookup(p) \o <<<<"running", p>>>>

\* The first Proc on the free list.  Mutant: it stays there.
TakeFree_stays(p) ==
  /\ At(p, "take")
  /\ free_procs # <<>>
  /\ MyProc' = [MyProc EXCEPT ![p] = Head(free_procs)]
  /\ Call(p, HaveProc(p))
  /\ UNCHANGED <<shmemVars, lockVars, ret, found, top, ready, free_procs, descs>>

TakeFree(p) ==
  /\ At(p, "take")
  /\ free_procs # <<>>
  /\ MyProc' = [MyProc EXCEPT ![p] = Head(free_procs)]
  /\ free_procs' = Tail(free_procs)
  /\ Call(p, HaveProc(p))
  /\ UNCHANGED <<shmemVars, lockVars, ret, found, top, ready, descs>>

\* None: allocate one.
TakeNew(p) ==
  /\ At(p, "take")
  /\ free_procs = <<>>
  /\ Call(p, shmem_alloc(PROC_SIZE) \o <<<<"newproc", p>>>>)
  /\ UNCHANGED <<shmemVars, lockVars, ret, found, top, tableVars>>

\* Out of memory: the lock is given up, then the null Proc is written to.
\* Mutant: the lock is given up on both paths.
NewProc_twice(p) ==
  /\ At(p, "newproc")
  /\ MyProc' = [MyProc EXCEPT ![p] = ret[p]]
  /\ Call(p, <<<<"release", "ProcStructLock">>>> \o
               IF ret[p] = NULL THEN <<<<"use", p>>>> ELSE HaveProc(p))
  /\ UNCHANGED <<shmemVars, lockVars, ret, found, top, ready, free_procs, descs>>

NewProc(p) ==
  /\ At(p, "newproc")
  /\ MyProc' = [MyProc EXCEPT ![p] = ret[p]]
  /\ Call(p, IF ret[p] = NULL THEN <<<<"release", "ProcStructLock">>, <<"use", p>>>> ELSE HaveProc(p))
  /\ UNCHANGED <<shmemVars, lockVars, ret, found, top, ready, free_procs, descs>>

\* shmem_pid_lookup with &location, which holds MyProc.  Whatever comes back,
\* the process goes on: the message that the table is broken stops nobody.
PidLookup(p) ==
  /\ PidNew(p, MyProc[p])
  /\ UNCHANGED tableVars

----------------------------------------------------------------------------
\* proc_kill, the callback of a backend that exits (external: declared in
\* proc.c and not defined): the Proc goes to the free list, the pid away.
proc_kill(p) ==
  Locked("ProcStructLock", <<<<"freeproc", p>>>>) \o shmem_pid_destroy(p) \o <<<<"gone", p>>>>

Exit(p) ==
  /\ At(p, "running") /\ p # Postmaster
  /\ Call(p, proc_kill(p))
  /\ UNCHANGED <<shmemVars, lockVars, ret, found, top, tableVars>>

FreeProc(p) ==
  /\ At(p, "freeproc")
  /\ free_procs' = <<MyProc[p]>> \o free_procs
  /\ MyProc' = [MyProc EXCEPT ![p] = NULL]
  /\ Step(p)
  /\ UNCHANGED <<shmemVars, lockVars, ret, found, top, ready, descs>>

\* A backend that holds no lock ends without a word.
Crash(p) ==
  /\ p # Postmaster
  /\ At(p, "running")
  /\ MyProc' = [MyProc EXCEPT ![p] = NULL]
  /\ todo' = [todo EXCEPT ![p] = <<<<"gone", p>>>>]
  /\ crashed' = crashed \cup {p}
  /\ UNCHANGED <<shmemVars, lockVars, ret, found, top, ready, free_procs, descs, lives>>

Start(p) ==
  /\ p # Postmaster
  /\ todo[p] = <<>> \/ At(p, "gone")
  /\ ready["Proc Header"] > 0
  /\ lives < MaxLives
  /\ lives' = lives + 1
  /\ todo' = [todo EXCEPT ![p] = init_buffer_pool \o init_process]
  /\ UNCHANGED <<shmemVars, lockVars, ret, found, top, tableVars, crashed>>

StartupInit ==
  /\ ShmemInit
  /\ ready = [n \in Structs |-> 0]
  /\ free_procs = <<>>
  /\ MyProc = [p \in Procs |-> NULL]
  /\ descs = [p \in Procs |-> [at |-> NULL, found |-> FALSE]]
  /\ lives = 0
  /\ crashed = {}

\* The postmaster's program starts the system.
Boot ==
  /\ todo[Postmaster] = <<>>
  /\ todo' = [todo EXCEPT ![Postmaster] =
                 init_shmem_allocation \o init_proc_global \o init_buffer_pool \o <<<<"running", Postmaster>>>>]
  /\ UNCHANGED <<shmemVars, lockVars, ret, found, top, tableVars, lives, crashed>>

TableStep(p) ==
  \/ InitProcHeader(p) \/ KeepDescs(p) \/ LinkBuffers(p) \/ HashCreate(p) \/ HashDone(p) \/ InitFreelist(p)
  \/ TakeFree(p) \/ TakeNew(p) \/ NewProc(p) \/ PidLookup(p) \/ FreeProc(p)

\* What a process does of its own: everything but starting and ending.
Run(p) ==
  /\ \/ ShmemStep(p) /\ UNCHANGED tableVars
     \/ TableStep(p)
  /\ UNCHANGED <<lives, crashed>>

StartupNext ==
  \/ Boot
  \/ \E p \in Procs : \/ Run(p) \/ Start(p) \/ Crash(p)
                      \/ Exit(p) /\ UNCHANGED <<lives, crashed>>

\* Every process that can move does: the kernel runs it and semop wakes it.
StartupFairness == WF_startVars(Boot) /\ \A p \in Procs : WF_startVars(Run(p))

StartupSpec == StartupInit /\ [][StartupNext]_startVars /\ StartupFairness

----------------------------------------------------------------------------
Running(p) == At(p, "running")

\* The types of the variables; whatever is on the free list of Procs is an
\* address in the segment (init_proc_global, proc_kill).
StartupTypeOK ==
  /\ ShmemTypeOK
  /\ ready \in [Structs -> Nat]
  /\ \A i \in DOMAIN free_procs : free_procs[i] \in 1..total_size
  /\ MyProc \in [Procs -> Nat]
  /\ lives \in 0..MaxLives /\ crashed \subseteq Procs

\* A structure is initialised once, however many processes start at the same
\* time (found_descs, found_bufs, HASH_ATTACH).
OneInitialiser == \A n \in Structs : ready[n] <= 1

\* A process that attaches to the buffer pool sees all of it initialised: the
\* header of its hash table when hash_create attaches, and the buffers and
\* their queue when init_buffer_pool is over (the lock around it).
PoolSeenWhole ==
  \A p \in Procs :
     /\ At(p, "hash_create") /\ found[p] /\ ret[p] # NULL => ready[HashTable] = 1
     /\ At(p, "take") \/ Running(p)
          => \A n \in {"Buffer Descriptors", "Buffer Blocks", HashTable} : ready[n] = 1

\* No two backends own the same Proc, and nobody owns a free one, whatever
\* backends have exited or crashed (init_process, proc_kill).
ProcsDistinct ==
  LET owners == {p \in Procs : MyProc[p] # NULL}
  IN /\ \A p, q \in owners : MyProc[p] = MyProc[q] => p = q
     /\ \A p \in owners : \A i \in DOMAIN free_procs : free_procs[i] # MyProc[p]
     /\ \A i, j \in DOMAIN free_procs : free_procs[i] = free_procs[j] => i = j
     /\ \A p \in owners : Allocated(MyProc[p], PROC_SIZE)

\* There is no space for more entries of the index (and will be none).
SegmentFull == free_offset + BATCH_SIZE > total_size

\* The Proc at x belongs to nobody and is not free: the one a crash left.
Abandoned(x) ==
  /\ Allocated(x, PROC_SIZE)
  /\ \A p \in Procs : MyProc[p] # x
  /\ \A i \in DOMAIN free_procs : free_procs[i] # x

\* "That allows the cleanup process to find us after any untimely exit": a
\* running backend is found under its pid unless the index could take no entry,
\* for which the segment has to be full (and stays so), or the pid still has the
\* entry of a backend that crashed.  That entry, before its pid is used again
\* and after, leads to an abandoned Proc and never to one that another backend
\* has taken or can take; and a backend that has exited leaves none.
PidFindsProc ==
  \A p \in Procs \ {Postmaster} :
    /\ Running(p) /\ p \notin DOMAIN index => SegmentFull
    /\ Running(p) /\ p \in DOMAIN index =>
         index[p].location = MyProc[p] \/ (p \in crashed /\ Abandoned(index[p].location))
    /\ At(p, "gone") /\ p \in DOMAIN index => p \in crashed /\ Abandoned(index[p].location)

\* With memory for everything, every process that starts gets to run: no order
\* of the locks leaves two of them waiting for each other.
StartupEnds ==
  LET batches == (5 + MaxLives) \div BATCH + 1
      enough == SEG_HEADER + batches * BATCH_SIZE + SEGS_SIZE + MaxLives * PROC_SIZE
                  + SizeOf["ShmemIndex"] + SizeOf["VariableCache"] + SizeOf["Proc Header"]
                  + SizeOf["Buffer Descriptors"] + SizeOf["Buffer Blocks"] + SizeOf[HashTable]
  IN \A p \in Procs : total_size >= enough /\ At(p, "acquire") ~> Running(p) \/ At(p, "gone")

\* What processes set up in shared memory is set up once, in memory of its
\* own, under its lock, and is whole when the others come to it.
SharedOnce ==
  StartupTypeOK /\ LockExclusive /\ AllocsDisjoint /\ IndexSound /\ OneInitialiser /\ PoolSeenWhole

\* Every backend has a Proc of its own; its pid leads to it, or to one that was
\* lost in a crash, or nowhere when there was no memory for the entry.
ProcsOwned == ProcsDistinct /\ PidFindsProc
=============================================================================
