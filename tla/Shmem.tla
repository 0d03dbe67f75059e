-------------------------------- MODULE Shmem -------------------------------
(***************************************************************************)
(* The shared memory segment: the allocator and the index of               *)
(* storage/ipc/shmem.c, under the semaphore spinlocks of                   *)
(* storage/ipc/spin.c.                                                     *)
(*                                                                         *)
(* A process runs a program: todo[p] is the sequence of instructions it    *)
(* has left.  A routine of the code is a sequence of instructions, an      *)
(* instruction that needs another routine puts its instructions in front   *)
(* of the rest.  One instruction is one step; what the code does between   *)
(* taking a lock and giving it up is several of them, so that it is the    *)
(* locks that keep processes apart and not the model.  A process that      *)
(* follows a null pointer, fails an assertion or exits on the spot keeps   *)
(* the locks it holds (semop without SEM_UNDO).                            *)
(***************************************************************************)
EXTENDS Integers, Sequences, FiniteSets

CONSTANTS
  Procs,        \* process ids
  Structs,      \* the names of the structures in the index
  SizeOf,       \* [Structs -> Nat]: the size each is asked for with
  SEG_HEADER,   \* size of PGShmemHeader: the first free offset
  BATCH_SIZE,   \* memory the index asks for when it is out of elements
  BATCH,        \* and the elements it makes of it
  Totals        \* sizes of the segment to consider

ASSUME ShmemAssumption ==
  /\ SizeOf \in [Structs -> Nat \ {0}]
  /\ SEG_HEADER \in Nat \ {0} /\ BATCH_SIZE \in Nat \ {0} /\ BATCH \in Nat \ {0}
  /\ Totals \subseteq Nat /\ \A t \in Totals : SEG_HEADER <= t

VARIABLES
  total_size, free_offset,  \* PGShmemHeader
  allocs,       \* what shmem_alloc has given out, in order: <<offset, size>>
  index,        \* ShmemIndex: [a set of names and pids -> [location, size]]
  elements,     \* free elements of the index
  semval,       \* the semaphores of the spinlocks
  held,         \* the locks each process has taken and not given up
  todo, ret, found, top   \* per process: program, result, *found_ptr, new_free

shmemVars == <<total_size, free_offset, allocs, index, elements>>
lockVars == <<semval, held>>
procVars == <<todo, ret, found, top>>

Locks == {"ShmemLock", "ShmemIndexLock", "BufMgrLock", "ProcStructLock"}
IPC_SEMAPHORE_DEFAULT_START_VALUE == 1  \* the value that makes a semaphore a lock
NULL == 0
BAD_LOCATION == -1

ShmemInit ==
  /\ total_size \in Totals
  /\ free_offset = SEG_HEADER
  /\ allocs = <<>>
  /\ index = [n \in {} |-> 0]
  /\ elements = 0
  /\ semval = [l \in Locks |-> IPC_SEMAPHORE_DEFAULT_START_VALUE]
  /\ held = [p \in Procs |-> {}]
  /\ todo = [p \in Procs |-> <<>>]
  /\ ret = [p \in Procs |-> NULL]
  /\ found = [p \in Procs |-> FALSE]
  /\ top = [p \in Procs |-> 0]

\* The instruction process p is at.
At(p, op) == todo[p] # <<>> /\ Head(todo[p])[1] = op
Arg(p) == Head(todo[p])[2]

\* The rest of the program, with a routine called first.
Call(p, instructions) == todo' = [todo EXCEPT ![p] = instructions \o Tail(@)]
Step(p) == Call(p, <<>>)
Return(p, value) == ret' = [ret EXCEPT ![p] = value]

\* The process is gone with all it holds.
Dies(p) == todo' = [todo EXCEPT ![p] = <<<<"dead", p>>>>]
Dead(p) == At(p, "dead")

----------------------------------------------------------------------------
\* spin_acquire: waits until the semaphore is positive.
spin_acquire(p) ==
  /\ At(p, "acquire")
  /\ semval[Arg(p)] > 0
  /\ semval' = [semval EXCEPT ![Arg(p)] = @ - 1]
  /\ held' = [held EXCEPT ![p] = @ \cup {Arg(p)}]
  /\ Step(p)
  /\ UNCHANGED <<shmemVars, ret, found, top>>

spin_is_locked(l) == semval[l] < IPC_SEMAPHORE_DEFAULT_START_VALUE

\* spin_release: nothing says that it is the owner who releases.
spin_release(p) ==
  /\ At(p, "release")
  /\ IF spin_is_locked(Arg(p))
     THEN /\ semval' = [semval EXCEPT ![Arg(p)] = @ + 1]
          /\ held' = [held EXCEPT ![p] = @ \ {Arg(p)}]
          /\ Step(p)
     ELSE Dies(p) /\ UNCHANGED lockVars
  /\ UNCHANGED <<shmemVars, ret, found, top>>

Locked(l, instructions) == <<<<"acquire", l>>>> \o instructions \o <<<<"release", l>>>>

----------------------------------------------------------------------------
\* shmem_alloc.  Mutant: without the lock.
shmem_alloc_unlocked(size) == <<<<"new_free", size>>, <<"carve", size>>>>
shmem_alloc(size) == Locked("ShmemLock", <<<<"new_free", size>>, <<"carve", size>>>>)

NewFree(p) ==
  /\ At(p, "new_free")
  /\ top' = [top EXCEPT ![p] = free_offset + Arg(p)]
  /\ Step(p)
  /\ UNCHANGED <<shmemVars, lockVars, ret, found>>

\* The space, if the segment has it.  Mutant: the end is not looked at.
Carve_unchecked(p) ==
  /\ At(p, "carve")
  /\ Return(p, top[p] - Arg(p))
  /\ free_offset' = top[p]
  /\ allocs' = Append(allocs, <<top[p] - Arg(p), Arg(p)>>)
  /\ Step(p)
  /\ UNCHANGED <<total_size, index, elements, lockVars, found, top>>

Carve(p) ==
  /\ At(p, "carve")
  /\ IF top[p] <= total_size
     THEN /\ Return(p, top[p] - Arg(p))
          /\ free_offset' = top[p]
          /\ allocs' = Append(allocs, <<top[p] - Arg(p), Arg(p)>>)
     ELSE Return(p, NULL) /\ UNCHANGED <<free_offset, allocs>>
  /\ Step(p)
  /\ UNCHANGED <<total_size, index, elements, lockVars, found, top>>

\* hash_search(ShmemIndex, HASH_ENTER) of a new name has no free element: it
\* allocates some, and the search fails when it cannot.
NeedsElements(p, instruction) ==
  /\ elements = 0
  /\ found' = [found EXCEPT ![p] = FALSE]
  /\ Call(p, shmem_alloc(BATCH_SIZE) \o <<<<"elements", instruction>>>>)
  /\ UNCHANGED <<shmemVars, lockVars, ret, top>>

MoreElements(p) ==
  /\ At(p, "elements")
  /\ IF ret[p] = NULL
     THEN Step(p) /\ UNCHANGED elements
     ELSE Call(p, <<Arg(p)>>) /\ elements' = elements + BATCH
  /\ UNCHANGED <<total_size, free_offset, allocs, index, lockVars, ret, found, top>>

Entered(n, location, size) ==
  [m \in DOMAIN index \cup {n} |-> IF m = n THEN [location |-> location, size |-> size] ELSE index[m]]
Removed(n) == [m \in DOMAIN index \ {n} |-> index[m]]

\* shmem_init_struct with its lock, for a process that has attached to the
\* index.
shmem_init_struct(n) == Locked("ShmemIndexLock", <<<<"enter", n>>>>)

\* The name is there: its location, if it has the size that is asked for.
\* Mutant: *found_ptr is left as it was.
EnterFound_new(p) ==
  /\ At(p, "enter")
  /\ Arg(p) \in DOMAIN index
  /\ Return(p, index[Arg(p)].location)
  /\ Step(p)
  /\ UNCHANGED <<shmemVars, lockVars, found, top>>

EnterFound(p) ==
  /\ At(p, "enter")
  /\ Arg(p) \in DOMAIN index
  /\ found' = [found EXCEPT ![p] = TRUE]
  /\ Return(p, IF index[Arg(p)].size = SizeOf[Arg(p)] THEN index[Arg(p)].location ELSE NULL)
  /\ Step(p)
  /\ UNCHANGED <<shmemVars, lockVars, top>>

\* It is not: the entry is made, then the space is allocated.
EnterNew(p) ==
  /\ At(p, "enter")
  /\ Arg(p) \notin DOMAIN index
  /\ \/ NeedsElements(p, Head(todo[p]))
     \/ /\ elements > 0
        /\ elements' = elements - 1
        /\ index' = Entered(Arg(p), BAD_LOCATION, 0)
        /\ found' = [found EXCEPT ![p] = FALSE]
        /\ Call(p, shmem_alloc(SizeOf[Arg(p)]) \o <<<<"fill", Arg(p)>>>>)
        /\ UNCHANGED <<total_size, free_offset, allocs, lockVars, ret, top>>

\* The entry is filled in, or taken back when there was no space.  Mutant: it
\* stays.
Fill_keep(p) ==
  /\ At(p, "fill")
  /\ IF ret[p] = NULL THEN UNCHANGED index ELSE index' = Entered(Arg(p), ret[p], SizeOf[Arg(p)])
  /\ Step(p)
  /\ UNCHANGED <<total_size, free_offset, allocs, elements, lockVars, ret, found, top>>

Fill(p) ==
  /\ At(p, "fill")
  /\ IF ret[p] = NULL
     THEN /\ index' = Removed(Arg(p))
          /\ elements' = elements + 1
     ELSE /\ index' = Entered(Arg(p), ret[p], SizeOf[Arg(p)])
          /\ UNCHANGED elements
  /\ Step(p)
  /\ UNCHANGED <<total_size, free_offset, allocs, lockVars, ret, found, top>>

\* init_shmem_allocation: the index itself has no index to be looked up in.
\* Its lock is held from the allocation to the entry for itself; a process
\* that finds no space for it follows a null pointer.
init_shmem_allocation ==
  Locked("ShmemIndexLock",
         shmem_alloc(SizeOf["ShmemIndex"]) \o <<<<"bootstrap", "ShmemIndex">>>>
           \o shmem_alloc(BATCH_SIZE) \o <<<<"self", "ShmemIndex">>>>)
    \o shmem_alloc(SizeOf["VariableCache"]) \o <<<<"use", "VariableCache">>>>

\* A result that is used without a look at it.
Use(p) ==
  /\ At(p, "use") \/ At(p, "bootstrap")
  /\ IF ret[p] = NULL THEN Dies(p) ELSE Step(p)
  /\ UNCHANGED <<shmemVars, lockVars, ret, found, top>>

\* The index becomes an entry of itself.
EnterItself(p) ==
  /\ At(p, "self")
  /\ IF ret[p] = NULL
     THEN Dies(p) /\ UNCHANGED <<index, elements>>
     ELSE /\ index' = Entered("ShmemIndex", SEG_HEADER, SizeOf["ShmemIndex"])
          /\ elements' = BATCH - 1
          /\ Step(p)
  /\ UNCHANGED <<total_size, free_offset, allocs, lockVars, ret, found, top>>

----------------------------------------------------------------------------
\* shmem_pid_lookup: finds the location stored under the pid, or stores the
\* caller's.  Mutant: the lock is not given up.
shmem_pid_lookup_keeps(p) == <<<<"acquire", "ShmemIndexLock">>, <<"pid", p>>>>
shmem_pid_lookup(p) == Locked("ShmemIndexLock", <<<<"pid", p>>>>)

PidFound(p) ==
  /\ At(p, "pid")
  /\ p \in DOMAIN index
  /\ Return(p, index[p].location)
  /\ Step(p)
  /\ UNCHANGED <<shmemVars, lockVars, found, top>>

\* The location to store, proc, is the caller's.  Mutant: it is not stored.
PidNew_unset(p, proc) ==
  /\ At(p, "pid")
  /\ p \notin DOMAIN index
  /\ \/ NeedsElements(p, Head(todo[p]))
     \/ /\ elements > 0
        /\ elements' = elements - 1
        /\ index' = Entered(p, BAD_LOCATION, 0)
        /\ Step(p)
        /\ UNCHANGED <<total_size, free_offset, allocs, lockVars, ret, found, top>>

PidNew(p, proc) ==
  /\ At(p, "pid")
  /\ p \notin DOMAIN index
  /\ \/ NeedsElements(p, Head(todo[p]))
     \/ /\ elements > 0
        /\ elements' = elements - 1
        /\ index' = Entered(p, proc, 0)
        /\ Return(p, proc)
        /\ Step(p)
        /\ UNCHANGED <<total_size, free_offset, allocs, lockVars, found, top>>

\* shmem_pid_destroy.
shmem_pid_destroy(p) == Locked("ShmemIndexLock", <<<<"unpid", p>>>>)

\* Mutant: what was stored under the pid stays.
PidRemove_stays(p) ==
  /\ At(p, "unpid")
  /\ Return(p, IF p \in DOMAIN index THEN index[p].location ELSE NULL)
  /\ Step(p)
  /\ UNCHANGED <<total_size, free_offset, allocs, index, elements, lockVars, found, top>>

PidRemove(p) ==
  /\ At(p, "unpid")
  /\ IF p \in DOMAIN index
     THEN index' = Removed(p) /\ elements' = elements + 1 /\ Return(p, index[p].location)
     ELSE Return(p, NULL) /\ UNCHANGED <<index, elements>>
  /\ Step(p)
  /\ UNCHANGED <<total_size, free_offset, allocs, lockVars, found, top>>

ShmemStep(p) ==
  \/ spin_acquire(p) \/ spin_release(p)
  \/ NewFree(p) \/ Carve(p) \/ MoreElements(p)
  \/ EnterFound(p) \/ EnterNew(p) \/ Fill(p) \/ Use(p) \/ EnterItself(p)
  \/ PidFound(p) \/ PidRemove(p)

----------------------------------------------------------------------------
\* The types of the variables; no offset lies outside the segment (shmem.c).
ShmemTypeOK ==
  /\ total_size \in Totals
  /\ free_offset \in SEG_HEADER..total_size
  /\ allocs \in Seq((0..total_size) \X (1..total_size))
  /\ DOMAIN index \subseteq Structs \cup Procs
  /\ \A n \in DOMAIN index : index[n] \in [location : {BAD_LOCATION} \cup 1..total_size, size : Nat]
  /\ elements \in Nat
  /\ semval \in [Locks -> Nat]
  /\ held \in [Procs -> SUBSET Locks]
  /\ ret \in [Procs -> Nat]
  /\ found \in [Procs -> BOOLEAN]

\* A spinlock is a lock: its semaphore and the processes that have taken it
\* and not given it up always make one (spin_acquire, spin_release).
LockExclusive ==
  \A l \in Locks : semval[l] + Cardinality({p \in Procs : l \in held[p]}) = 1

\* No two chunks of shared memory overlap and none reaches past the segment,
\* although every process reads free_offset and writes it back in two steps
\* (shmem_alloc).
AllocsDisjoint ==
  /\ \A i \in DOMAIN allocs : allocs[i][1] >= SEG_HEADER /\ allocs[i][1] + allocs[i][2] <= free_offset
  /\ \A i, j \in DOMAIN allocs : i < j => allocs[i][1] + allocs[i][2] <= allocs[j][1]
  /\ free_offset <= total_size

Allocated(location, size) == \E i \in DOMAIN allocs : allocs[i] = <<location, size>>

\* An entry of the index nobody is working on has space of the size it says:
\* a structure that could not be allocated leaves no name behind for the next
\* process to find (shmem_init_struct).
IndexSound ==
  (\A p \in Procs : "ShmemIndexLock" \notin held[p])
     => \A n \in DOMAIN index \cap Structs : Allocated(index[n].location, index[n].size)
=============================================================================
