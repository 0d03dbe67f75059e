------------------------------- MODULE IpcKeys ------------------------------
(***************************************************************************)
(* Creating System V shared memory segments and semaphore sets, and        *)
(* recycling the ones a dead process left behind: ipc_memory_create and    *)
(* ipc_semaphore_create of storage/ipc/ipc.c, with the routines they call  *)
(* and the callbacks they register.                                        *)
(*                                                                         *)
(* Several postmasters start, die and start again, possibly with the same  *)
(* pid, and race for the same keys.  The two creating routines are one     *)
(* algorithm (kind says which one it is).  They differ in that a memory    *)
(* segment has to be attached to be looked at, and in when the callback    *)
(* that removes the object is registered (for semaphores: remove_on_exit   *)
(* is true, as spin.c calls it).  Every system call is a step.             *)
(*                                                                         *)
(* The kernel (external): segKey[i] is the key of object i, or 0 when it   *)
(* does not exist; att[i] the processes attached to it.  Ids are never     *)
(* used again; the n-th postmaster to start creates object n, and object 0 *)
(* belongs to another program.  An object starts without the magic number: *)
(* creator is the header's creator_pid or the sempid of the spare          *)
(* semaphore, marked the header's magic or the value of that semaphore.    *)
(***************************************************************************)
EXTENDS Integers, Sequences

CONSTANTS
  Procs,      \* process ids
  MaxLives    \* bound on the number of postmasters ever started

ASSUME IpcAssumption == MaxLives \in Nat

VARIABLES
  kind,       \* "mem" or "sem": which of the two routines this is about
  segKey, creator, marked, att,
  lives,      \* postmasters started so far
  pc,
  life,       \* the object a living postmaster creates (0: not a postmaster)
  key,        \* NextShmemSegID or NextSemaID
  found,      \* the object under examination
  onexit      \* OnShmemExitList

kernelVars == <<kind, segKey, creator, marked, att>>
vars == <<kernelVars, lives, pc, life, key, found, onexit>>

Ids == 0..MaxLives
NoProc == "none"  \* a pid no process has

\* Steps of the key search, of a process that has its object, and the rest.
Searching == {"create", "lookup", "probe", "check", "rmid", "recreate"}
Owning == {"setup", "mark1", "mark2", "running"}

\* kill(pid, 0) finds the process.
Alive(p) == p \in Procs /\ pc[p] # "dead"
Exists(i) == segKey[i] # 0

Init ==
  /\ kind \in {"mem", "sem"}
  /\ segKey = [i \in Ids |-> IF i = 0 THEN 1 ELSE 0]
  /\ creator = [i \in Ids |-> NoProc]
  /\ marked = {}
  /\ att = [i \in Ids |-> {}]
  /\ lives = 0
  /\ pc = [p \in Procs |-> "dead"]
  /\ life = [p \in Procs |-> 0]
  /\ key = [p \in Procs |-> 0]
  /\ found = [p \in Procs |-> 0]
  /\ onexit = [p \in Procs |-> <<>>]

Goto(p, step) == pc' = [pc EXCEPT ![p] = step]

\* continue: the next key is tried.  Mutants: the same key is tried again;
\* every other key is passed over.
NextKey_same(p) ==
  /\ found' = [found EXCEPT ![p] = 0]
  /\ Goto(p, "create")
  /\ UNCHANGED key

NextKey_twice(p) ==
  /\ key' = [key EXCEPT ![p] = @ + 2]
  /\ found' = [found EXCEPT ![p] = 0]
  /\ Goto(p, "create")

NextKey(p) ==
  /\ key' = [key EXCEPT ![p] = @ + 1]
  /\ found' = [found EXCEPT ![p] = 0]
  /\ Goto(p, "create")

\* A postmaster starts: ipc_init_key_assignment, then the creating routine.
Start(p) ==
  /\ ~Alive(p)
  /\ lives < MaxLives
  /\ lives' = lives + 1
  /\ life' = [life EXCEPT ![p] = lives + 1]
  /\ key' = [key EXCEPT ![p] = 1]
  /\ onexit' = [onexit EXCEPT ![p] = <<>>]
  /\ Goto(p, "create")
  /\ UNCHANGED <<kernelVars, found>>

\* shmget or semget makes the object: the key is free.  The callback that
\* deletes a segment is registered at once, the one for a semaphore set only
\* when the set has been initialised.
InternalCreate(p) ==
  /\ pc[p] \in {"create", "recreate"}
  /\ \A i \in Ids : segKey[i] # key[p]
  /\ segKey' = [segKey EXCEPT ![life[p]] = key[p]]
  /\ onexit' = [onexit EXCEPT ![p] = IF kind = "mem" THEN Append(@, <<"delete", life[p]>>) ELSE @]
  /\ Goto(p, "setup")
  /\ UNCHANGED <<kind, creator, marked, att, lives, life, key, found>>

\* They fail quietly: the key is taken.
InternalCreateCollides(p) ==
  /\ pc[p] \in {"create", "recreate"}
  /\ \E i \in Ids : segKey[i] = key[p]
  /\ IF pc[p] = "create" THEN Goto(p, "lookup") /\ UNCHANGED <<key, found>> ELSE NextKey(p)
  /\ UNCHANGED <<kernelVars, lives, life, onexit>>

\* The new segment is attached, the new semaphore set initialised.
Setup(p) ==
  /\ pc[p] = "setup"
  /\ att' = [att EXCEPT ![life[p]] = IF kind = "mem" THEN @ \cup {p} ELSE @]
  /\ onexit' = [onexit EXCEPT ![p] =
                   Append(@, <<IF kind = "mem" THEN "detach" ELSE "delete", life[p]>>)]
  /\ Goto(p, "mark1")
  /\ UNCHANGED <<kind, segKey, creator, marked, lives, life, key, found>>

\* That fails.  A semaphore set is removed, a segment left to the callback.
\* Mutant: so is a semaphore set, which has none yet.
SetupFails_keep(p) ==
  /\ pc[p] = "setup"
  /\ Goto(p, "exiting")
  /\ UNCHANGED <<kernelVars, lives, life, key, found, onexit>>

SetupFails(p) ==
  /\ pc[p] = "setup"
  /\ segKey' = [segKey EXCEPT ![life[p]] = IF kind = "sem" THEN 0 ELSE @]
  /\ Goto(p, "exiting")
  /\ UNCHANGED <<kind, creator, marked, att, lives, life, key, found, onexit>>

\* The object that has the key, if it is still there and may be accessed.
Lookup(p) ==
  /\ pc[p] = "lookup"
  /\ \/ \E i \in Ids : /\ segKey[i] = key[p]
                       /\ found' = [found EXCEPT ![p] = i]
                       /\ Goto(p, IF kind = "mem" THEN "probe" ELSE "check")
                       /\ UNCHANGED key
     \/ (\A i \in Ids : segKey[i] = key[p] => i = 0) /\ NextKey(p)
  /\ UNCHANGED <<kernelVars, lives, life, onexit>>

\* A segment is attached to be looked at, unless it has been removed.
Probe(p) ==
  /\ pc[p] = "probe"
  /\ IF Exists(found[p])
     THEN /\ att' = [att EXCEPT ![found[p]] = @ \cup {p}]
          /\ Goto(p, "check")
          /\ UNCHANGED <<key, found>>
     ELSE NextKey(p) /\ UNCHANGED att
  /\ UNCHANGED <<kind, segKey, creator, marked, lives, life, onexit>>

\* Object i looks like a leftover of a dead process to p.  Mutant: the magic
\* number is not looked at.
LooksDead_creator(p, i) == creator[i] = p \/ ~Alive(creator[i])

LooksDead(p, i) ==
  /\ i \in marked
  /\ creator[i] = p \/ ~Alive(creator[i])

\* Magic number and creator are read; a segment is detached again.  (A
\* semaphore set that is gone yields -1 for both, which is no leftover.)
Check(p) ==
  /\ pc[p] = "check"
  /\ att' = [att EXCEPT ![found[p]] = @ \ {p}]
  /\ IF LooksDead(p, found[p]) /\ (kind = "sem" => Exists(found[p]))
     THEN Goto(p, "rmid") /\ UNCHANGED <<key, found>>
     ELSE NextKey(p)
  /\ UNCHANGED <<kind, segKey, creator, marked, lives, life, onexit>>

\* Mutant of Zap: whatever has the key now is removed.
Zap_by_key(p) ==
  /\ pc[p] = "rmid"
  /\ segKey' = [i \in Ids |-> IF segKey[i] = key[p] THEN 0 ELSE segKey[i]]
  /\ Goto(p, "recreate")
  /\ UNCHANGED <<kind, creator, marked, att, lives, life, key, found, onexit>>

\* The leftover is removed, by its id, unless somebody was faster.
Zap(p) ==
  /\ pc[p] = "rmid"
  /\ IF Exists(found[p])
     THEN /\ segKey' = [segKey EXCEPT ![found[p]] = 0]
          /\ Goto(p, "recreate")
          /\ UNCHANGED <<key, found>>
     ELSE NextKey(p) /\ UNCHANGED segKey
  /\ UNCHANGED <<kind, creator, marked, att, lives, life, onexit>>

\* The new object is marked as ours: first the creator, then the magic.  (For
\* a semaphore the semop that completes the magic is also what sets sempid;
\* an earlier sempid is not looked at.)
MarkCreator(p) ==
  /\ pc[p] = "mark1"
  /\ creator' = [creator EXCEPT ![life[p]] = p]
  /\ Goto(p, "mark2")
  /\ UNCHANGED <<kind, segKey, marked, att, lives, life, key, found, onexit>>

MarkMagic(p) ==
  /\ pc[p] = "mark2"
  /\ marked' = marked \cup {life[p]}
  /\ Goto(p, "running")
  /\ UNCHANGED <<kind, segKey, creator, att, lives, life, key, found, onexit>>

\* A postmaster forks a backend, which inherits memory and callbacks ...
Fork(p, q) ==
  /\ pc[p] = "running" /\ ~Alive(q)
  /\ att' = [i \in Ids |-> IF p \in att[i] THEN att[i] \cup {q} ELSE att[i]]
  /\ onexit' = [onexit EXCEPT ![q] = onexit[p]]
  /\ Goto(q, "forked")
  /\ UNCHANGED <<kind, segKey, creator, marked, lives, life, key, found>>

\* ... and forgets the callbacks.
on_exit_reset(q) ==
  /\ pc[q] = "forked"
  /\ onexit' = [onexit EXCEPT ![q] = <<>>]
  /\ Goto(q, "backend")
  /\ UNCHANGED <<kernelVars, lives, life, key, found>>

\* proc_exit: on purpose, or because a system call failed that should not
\* (shmget or semget with another error than a collision, semctl, semop).
BeginExit(p) ==
  /\ \/ pc[p] \in {"create", "recreate", "running", "backend"}
     \/ pc[p] \in {"mark1", "mark2"} /\ kind = "sem"
  /\ Goto(p, "exiting")
  /\ UNCHANGED <<kernelVars, lives, life, key, found, onexit>>

\* shmem_exit: the last callback is taken off the list and called:
\* ipc_memory_detach, ipc_memory_delete or callback_semaphore_kill.
shmem_exit(p) ==
  /\ pc[p] = "exiting" /\ onexit[p] # <<>>
  /\ LET c == onexit[p][Len(onexit[p])]
     IN  IF c[1] = "detach"
         THEN att' = [att EXCEPT ![c[2]] = @ \ {p}] /\ UNCHANGED segKey
         ELSE segKey' = [segKey EXCEPT ![c[2]] = 0] /\ UNCHANGED att
  /\ onexit' = [onexit EXCEPT ![p] = SubSeq(@, 1, Len(@) - 1)]
  /\ UNCHANGED <<kind, creator, marked, lives, pc, life, key, found>>

\* The process is gone, and with it what it had attached and remembered.
Die(p) ==
  /\ att' = [i \in Ids |-> att[i] \ {p}]
  /\ Goto(p, "dead")
  /\ life' = [life EXCEPT ![p] = 0]
  /\ key' = [key EXCEPT ![p] = 0]
  /\ found' = [found EXCEPT ![p] = 0]
  /\ onexit' = [onexit EXCEPT ![p] = <<>>]
  /\ UNCHANGED <<kind, segKey, creator, marked, lives>>

\* exit, after the last callback.
Exit(p) == pc[p] = "exiting" /\ onexit[p] = <<>> /\ Die(p)

\* A process is killed; what it registered is not called.
Crash(p) == Alive(p) /\ Die(p)

Search(p) ==
  \/ InternalCreate(p) \/ InternalCreateCollides(p) \/ Setup(p) \/ SetupFails(p)
  \/ Lookup(p) \/ Probe(p) \/ Check(p) \/ Zap(p) \/ MarkCreator(p) \/ MarkMagic(p)

Next ==
  \E p \in Procs :
    \/ Start(p) \/ Search(p)
    \/ \E q \in Procs : Fork(p, q)
    \/ on_exit_reset(p) \/ BeginExit(p) \/ shmem_exit(p) \/ Exit(p) \/ Crash(p)

Spec == Init /\ [][Next]_vars

\* A process that is searching or exiting is scheduled; nobody has to start,
\* fork, exit or crash.
FairSpec == Spec /\ \A p \in Procs : WF_vars(Search(p)) /\ WF_vars(shmem_exit(p))
                                       /\ WF_vars(Exit(p))

-----------------------------------------------------------------------------
(* Properties.                                                             *)

\* The types of the variables; no search goes beyond one key per object.
TypeOK ==
  /\ kind \in {"mem", "sem"}
  /\ segKey \in [Ids -> 0..(MaxLives + 1)]
  /\ creator \in [Ids -> Procs \cup {NoProc}]
  /\ marked \in SUBSET Ids
  /\ att \in [Ids -> SUBSET Procs]
  /\ lives \in Ids
  /\ pc \in [Procs -> Searching \cup Owning \cup {"dead", "forked", "backend", "exiting"}]
  /\ life \in [Procs -> Ids] /\ found \in [Procs -> Ids]
  /\ key \in [Procs -> 0..(MaxLives + 1)]
  /\ \A p \in Procs : Len(onexit[p]) <= 2

\* Nobody removes what a living postmaster has created: not while it is still
\* unmarked, not when the check was made on an earlier object with the same
\* key, not when the pid has been used again, and no exiting backend deletes
\* what its postmaster made.
OwnerKeepsObject == \A p \in Procs : pc[p] \in Owning => Exists(life[p])

\* Objects of other programs are never removed.
ForeignKept == Exists(0)

\* A postmaster that ends through proc_exit leaves nothing behind, wherever in
\* the creation it was when a system call failed.
CleanExit ==
  \A p \in Procs : pc[p] = "exiting" /\ onexit[p] = <<>> /\ life[p] # 0 => ~Exists(life[p])

\* A search for a key ends, whatever the others do in the meantime.
SearchEnds == \A p \in Procs : pc[p] \in Searching ~> pc[p] \notin Searching

\* Every object stays with the process it belongs to: a living postmaster's
\* and another program's are not removed, and an orderly exit leaves none.
ObjectsKept == TypeOK /\ OwnerKeepsObject /\ ForeignKept /\ CleanExit
=============================================================================
