----------------------------- MODULE StartupProofs --------------------------
(***************************************************************************)
(* Any number of processes that start on shared memory: what they set up   *)
(* is set up once, and every backend has a Proc of its own.                *)
(*                                                                         *)
(* A program is a sequence of instructions, and what holds of a process is *)
(* different before every one of them.  A mark says what is known of a     *)
(* process at a point of its program: the locks it holds, how far it is    *)
(* (stage), what its registers top and ret stand for (reg, size), and the  *)
(* entry of the index it is working on (work, name).  Flow says which      *)
(* marks may stand before and after an instruction, Triple does for a      *)
(* whole routine, and the invariant is that some marks fit all programs    *)
(* and what they say is true.                                              *)
(***************************************************************************)
EXTENDS MCStartup, SequenceTheorems, FiniteSetTheorems, TLAPS

Mark(locks, stage, reg, size, work, name) ==
  [locks |-> locks, stage |-> stage, reg |-> reg, size |-> size, work |-> work, name |-> name]

\* The mark of a process that has no program.
Final(a) == a.locks = {} /\ a.stage = "idle" /\ a.reg = "none" /\ a.work = "no"

Resting == Mark({}, "idle", "none", 0, "no", "none")

Booting == {"boot", "boot1", "boot2", "header"}
Pooling == {"pool1", "pool2", "pool3", "pool4", "pool5", "pool6", "hash", "pool7", "pool8"}

\* The stages at which ret holds the result of the last routine.
Returned == {"boot1", "pool2", "pool4", "pool6"}

\* shmem_init_struct of n takes a process from stage s to stage t.
Enters(s, n, t) ==
  \/ s \in {"header", "attached"} /\ n = "Proc Header" /\ t = s
  \/ s = "pool1" /\ n = "Buffer Descriptors" /\ t = "pool2"
  \/ s = "pool3" /\ n = "Buffer Blocks" /\ t = "pool4"
  \/ s = "pool5" /\ n = HashTable /\ t = "pool6"

SameWork(a, b) == b.work = a.work /\ b.name = a.name

FlowLock(c, a, b) ==
  \/ /\ c[1] = "acquire" /\ c[2] \in Locks /\ c[2] \notin a.locks
     /\ b.locks = a.locks \cup {c[2]} /\ b.reg = "none" /\ SameWork(a, b)
     /\ IF c[2] = "BufMgrLock" THEN a.stage = "up" /\ b.stage = "pool1" /\ a.work = "no"
        ELSE b.stage = a.stage
  \/ /\ c[1] = "release" /\ c[2] \in a.locks
     /\ b.locks = a.locks \ {c[2]} /\ b.reg = a.reg /\ b.size = a.size /\ SameWork(a, b)
     /\ a.reg # "top"
     /\ c[2] = "ShmemIndexLock" => a.work = "no"
     /\ IF c[2] = "BufMgrLock" THEN a.stage = "pool8" /\ b.stage = "attached" /\ a.reg = "none"
        ELSE b.stage = a.stage

FlowAlloc(c, a, b) ==
  \/ /\ c[1] = "new_free" /\ c[2] \in Nat \ {0} /\ "ShmemLock" \in a.locks
     /\ b.reg = "top" /\ b.size = c[2]
     /\ b.locks = a.locks /\ b.stage = a.stage /\ SameWork(a, b)
  \/ /\ c[1] = "carve" /\ a.reg = "top" /\ a.size = c[2]
     /\ b.reg = "ret" /\ b.size = a.size
     /\ b.locks = a.locks /\ SameWork(a, b) /\ a.stage \notin Returned
     /\ IF a.stage = "boot" THEN b.stage = "boot1" /\ a.size = SizeOf["ShmemIndex"]
        ELSE b.stage = a.stage

\* The two instructions that look a key up in the index.
FlowEnter(p, c, a, b) ==
  /\ "ShmemIndexLock" \in a.locks /\ "ShmemLock" \notin a.locks
  /\ b.locks = a.locks /\ b.reg = "none" /\ b.work = "no"
  /\ \/ c[1] = "enter" /\ c[2] \in Structs /\ Enters(a.stage, c[2], b.stage)
     \/ /\ c[1] = "pid" /\ c[2] = p /\ a.stage = "own" /\ b.stage = "own"
        /\ b.name = "known"

FlowIndex(p, c, a, b) ==
  \/ FlowEnter(p, c, a, b) /\ a.work = "no"
  \/ /\ c[1] = "fill" /\ a.work = "made" /\ a.name = c[2] /\ c[2] \in Structs
     /\ a.reg = "ret" /\ a.size = SizeOf[c[2]]
     /\ b.locks = a.locks /\ b.reg = "none" /\ b.work = "no" /\ Enters(a.stage, c[2], b.stage)
  \/ /\ c[1] = "elements" /\ a.work = "want" /\ a.name = c[2][2]
     /\ a.reg = "ret" /\ a.size = BATCH_SIZE
     /\ FlowEnter(p, c[2], a, b)
  \/ /\ c[1] = "unpid" /\ "ShmemIndexLock" \in a.locks /\ a.stage = "leaving" /\ a.work = "no"
     /\ b.locks = a.locks /\ b.reg = "none" /\ b.work = "no" /\ b.stage = "idle"

\* The instructions that go from one stage to the next and hold no entry.
Advances(op, s, t) ==
  \/ op = "bootstrap" /\ s = "boot1" /\ t = "boot2"
  \/ op = "self" /\ s = "boot2" /\ t = "header"
  \/ op = "procglobal" /\ s = "header" /\ t = "up"
  \/ op = "descs" /\ s = "pool2" /\ t = "pool3"
  \/ op = "link" /\ s = "pool4" /\ t = "pool5"
  \/ op = "hash_create" /\ s = "pool6" /\ t = "pool7"
  \/ op = "hash_done" /\ s = "hash" /\ t = "pool7"
  \/ op = "freelist" /\ s = "pool7" /\ t = "pool8"
  \/ op = "freeproc" /\ s = "own" /\ t = "leaving"

FlowStage(c, a, b) ==
  /\ Advances(c[1], a.stage, b.stage) /\ a.work = "no"
  /\ b.locks = a.locks /\ b.reg = "none" /\ b.work = "no"
  /\ c[1] \in {"bootstrap", "self", "hash_done"} => a.reg = "ret"
  /\ c[1] = "hash_create" => "ShmemLock" \notin a.locks
  /\ c[1] = "freeproc" => "ProcStructLock" \in a.locks

\* The ends of programs, and the instructions that are replaced by the rest
\* of the program.
FlowEnd(p, c, a, b) ==
  \/ /\ c[1] = "use" /\ a.stage \in {"header", "attached"} /\ a.work = "no"
     /\ b.work = "no" /\ b.reg = "none"
     /\ \/ a.reg = "ret" /\ b.locks = a.locks /\ b.stage = a.stage
        \/ a.reg = "null" /\ Final(b)
  \/ /\ Final(b) /\ a.work = "no"
     /\ \/ c[1] = "take" /\ a.locks = {"ProcStructLock"} /\ a.stage = "attached" /\ p # Postmaster
        \/ /\ c[1] = "newproc" /\ a.locks = {"ProcStructLock"} /\ a.stage = "attached"
           /\ a.reg = "ret" /\ a.size = PROC_SIZE /\ p # Postmaster
        \/ /\ c[1] = "running" /\ a.locks = {}
           /\ IF p = Postmaster THEN a.stage = "attached" ELSE a.stage = "own" /\ a.name = "known"
        \/ c[1] = "gone" /\ Final(a)
        \/ c[1] = "dead" /\ a.stage = "dead"

\* Mark b may stand behind instruction c of process p when a stands before it.
Flow(p, c, a, b) ==
  \/ FlowLock(c, a, b) \/ FlowAlloc(c, a, b) \/ FlowIndex(p, c, a, b)
  \/ FlowStage(c, a, b) \/ FlowEnd(p, c, a, b)

\* Which part of Flow an instruction belongs to.
LEMMA FlowParts ==
  \A p, c, a, b : Flow(p, c, a, b) =>
    /\ c[1] \in {"acquire", "release"} => FlowLock(c, a, b)
    /\ c[1] \in {"new_free", "carve"} => FlowAlloc(c, a, b)
    /\ c[1] \in {"enter", "pid", "fill", "elements", "unpid"} => FlowIndex(p, c, a, b)
    /\ c[1] \in {"bootstrap", "self", "procglobal", "descs", "link", "hash_create", "hash_done",
                 "freelist", "freeproc"} => FlowStage(c, a, b)
    /\ c[1] \in {"use", "take", "newproc", "running", "gone", "dead"} => FlowEnd(p, c, a, b)
<1> SUFFICES ASSUME NEW p, NEW c, NEW a, NEW b, Flow(p, c, a, b)
             PROVE  /\ c[1] \in {"acquire", "release"} => FlowLock(c, a, b)
                    /\ c[1] \in {"new_free", "carve"} => FlowAlloc(c, a, b)
                    /\ c[1] \in {"enter", "pid", "fill", "elements", "unpid"}
                         => FlowIndex(p, c, a, b)
                    /\ c[1] \in {"bootstrap", "self", "procglobal", "descs", "link",
                                 "hash_create", "hash_done", "freelist", "freeproc"}
                         => FlowStage(c, a, b)
                    /\ c[1] \in {"use", "take", "newproc", "running", "gone", "dead"}
                         => FlowEnd(p, c, a, b)
  OBVIOUS
<1>1. FlowLock(c, a, b) => c[1] \in {"acquire", "release"}
  BY DEF FlowLock
<1>2. FlowAlloc(c, a, b) => c[1] \in {"new_free", "carve"}
  BY DEF FlowAlloc
<1>3. FlowIndex(p, c, a, b) => c[1] \in {"enter", "pid", "fill", "elements", "unpid"}
  BY DEF FlowIndex, FlowEnter
<1>4. FlowStage(c, a, b) =>
        c[1] \in {"bootstrap", "self", "procglobal", "descs", "link", "hash_create", "hash_done",
                  "freelist", "freeproc"}
  BY DEF FlowStage, Advances
<1>5. FlowEnd(p, c, a, b) => c[1] \in {"use", "take", "newproc", "running", "gone", "dead"}
  BY DEF FlowEnd
<1> QED BY <1>1, <1>2, <1>3, <1>4, <1>5 DEF Flow

\* The instructions w take a process from mark a to mark b.
Triple(p, w, a, b) ==
  /\ \E S : w \in Seq(S)
  /\ \E m : /\ m[1] = a /\ m[Len(w) + 1] = b
           /\ \A i \in 1..Len(w) : Flow(p, w[i], m[i], m[i + 1])

\* w is a program that a process at mark a may have left.
Runs(p, w, a) == \E b : Triple(p, w, a, b) /\ Final(b)

-----------------------------------------------------------------------------
(* What marks say of the state.                                            *)

\* The chunk at x of size s is one of those in list.
Has(list, x, s) == \E i \in DOMAIN list : list[i] = <<x, s>>

\* The types, in groups of variables that change together.
MemTypes ==
  /\ total_size \in Totals
  /\ free_offset \in SEG_HEADER..total_size
  /\ allocs \in Seq((0..total_size) \X (1..total_size))
IndexTypes ==
  /\ index = [n \in DOMAIN index |-> index[n]]
  /\ DOMAIN index \subseteq Structs \cup Procs
  /\ \A n \in DOMAIN index : index[n] \in [location : {BAD_LOCATION} \cup 1..total_size, size : Nat]
  /\ elements \in Nat
LockTypes == semval \in [Locks -> Nat] /\ held \in [Procs -> SUBSET Locks]
RegTypes ==
  /\ ret \in [Procs -> Nat] /\ found \in [Procs -> BOOLEAN] /\ top \in [Procs -> Nat]
  /\ descs \in [Procs -> [at : Nat, found : BOOLEAN]]
  /\ todo = [p \in Procs |-> todo[p]]
TableTypes ==
  /\ ready \in [Structs -> Nat]
  /\ free_procs \in Seq(1..total_size)
  /\ MyProc \in [Procs -> Nat]
  /\ lives \in 0..MaxLives /\ crashed \subseteq Procs
Types == MemTypes /\ IndexTypes /\ LockTypes /\ RegTypes /\ TableTypes

\* A semaphore is one when nobody has the lock and zero when one process has.
LockInv(mk) ==
  /\ \A p \in Procs : held[p] = mk[p].locks
  /\ \A l \in Locks :
       /\ semval[l] \in {0, 1}
       /\ semval[l] = 1 <=> \A p \in Procs : l \notin mk[p].locks
       /\ \A p, q \in Procs : l \in mk[p].locks /\ l \in mk[q].locks => p = q

\* The holder of ShmemLock knows the end of its chunk, and a result is null
\* or a chunk.
MemInv(mk) ==
  /\ AllocsDisjoint
  /\ \A p \in Procs :
       /\ mk[p].reg = "top" => /\ "ShmemLock" \in mk[p].locks
                               /\ mk[p].size \in Nat \ {0}
                               /\ top[p] = free_offset + mk[p].size
       /\ mk[p].reg = "ret" => ret[p] = NULL \/ Has(allocs, ret[p], mk[p].size)
       /\ mk[p].reg = "null" => ret[p] = NULL

\* An entry of the index is complete, or its maker is at work on it.
IndexInv(mk) ==
  /\ \A p \in Procs : mk[p].work \in {"no", "want", "made"}
  /\ \A p \in Procs : mk[p].work # "no" => "ShmemIndexLock" \in mk[p].locks /\ ~found[p]
  /\ \A p \in Procs : mk[p].work = "want" => mk[p].name \notin DOMAIN index
  /\ \A p \in Procs : mk[p].work = "made" => mk[p].name \in DOMAIN index \cap Structs
  /\ \A n \in DOMAIN index \cap Structs :
       \/ Has(allocs, index[n].location, index[n].size) /\ index[n].size = SizeOf[n]
       \/ \E p \in Procs : mk[p].work = "made" /\ mk[p].name = n
  /\ \A n \in DOMAIN index \cap Procs : index[n].location \in 1..total_size

\* The postmaster starts once and is alone until the process table header is
\* there.
BootInv(mk) ==
  /\ mk[Postmaster].stage \notin {"own", "leaving"}
  /\ mk[Postmaster].stage = "idle" =>
       /\ todo[Postmaster] = <<>> /\ ready["Proc Header"] = 0
       /\ allocs = <<>> /\ free_offset = SEG_HEADER
  /\ ready["Proc Header"] = 0 => \A q \in Procs \ {Postmaster} : todo[q] = <<>>
  /\ \A p \in Procs :
       /\ mk[p].stage \in Booting => p = Postmaster /\ ready["Proc Header"] = 0
       /\ mk[p].stage = "boot" => allocs = <<>> /\ free_offset = SEG_HEADER
       /\ mk[p].stage = "boot1" =>
            ret[p] = NULL \/ Has(allocs, SEG_HEADER, SizeOf["ShmemIndex"])
       /\ mk[p].stage = "boot2" => Has(allocs, SEG_HEADER, SizeOf["ShmemIndex"])

BD == "Buffer Descriptors"
BB == "Buffer Blocks"

\* How often the parts of the pool have been initialised.
Ready(d, b, h) == ready[BD] = d /\ ready[BB] = b /\ ready[HashTable] = h

PoolNone == Ready(0, 0, 0) /\ {BD, BB, HashTable} \cap DOMAIN index = {}
PoolDone == Ready(1, 1, 1) /\ {BD, BB, HashTable} \subseteq DOMAIN index

\* The pool while process p, at mark a, sets it up or attaches to it.
PoolAt(p, a) ==
  /\ a.stage = "pool1" => IF a.work = "made"
                          THEN Ready(0, 0, 0) /\ {BB, HashTable} \cap DOMAIN index = {}
                          ELSE PoolNone \/ PoolDone
  /\ a.stage = "pool2" => IF found[p] THEN PoolDone
                          ELSE /\ Ready(0, 0, 0) /\ {BB, HashTable} \cap DOMAIN index = {}
                               /\ ret[p] # NULL => BD \in DOMAIN index
  /\ a.stage = "pool3" => IF descs[p].found THEN PoolDone /\ a.work # "made"
                          ELSE /\ Ready(0, 0, 0) /\ HashTable \notin DOMAIN index
                               /\ a.work # "made" => BB \notin DOMAIN index
                               /\ descs[p].at # NULL => BD \in DOMAIN index
  /\ a.stage = "pool4" => /\ found[p] = descs[p].found
                          /\ IF found[p] THEN PoolDone
                             ELSE /\ Ready(0, 0, 0) /\ HashTable \notin DOMAIN index
                                  /\ descs[p].at # NULL => BD \in DOMAIN index
                                  /\ ret[p] # NULL => BB \in DOMAIN index
  /\ a.stage = "pool5" => IF descs[p].found THEN PoolDone /\ a.work # "made"
                          ELSE /\ Ready(0, 1, 0) /\ {BD, BB} \subseteq DOMAIN index
                               /\ a.work # "made" => HashTable \notin DOMAIN index
  /\ a.stage = "pool6" => /\ found[p] = descs[p].found
                          /\ IF found[p] THEN PoolDone
                             ELSE /\ Ready(0, 1, 0) /\ {BD, BB} \subseteq DOMAIN index
                                  /\ ret[p] # NULL => HashTable \in DOMAIN index
  /\ a.stage = "hash" => /\ ~descs[p].found /\ Ready(0, 1, 0)
                         /\ {BD, BB, HashTable} \subseteq DOMAIN index
  /\ a.stage = "pool7" => IF descs[p].found THEN PoolDone
                          ELSE Ready(0, 1, 1) /\ {BD, BB, HashTable} \subseteq DOMAIN index
  /\ a.stage = "pool8" => PoolDone

\* BufMgrLock keeps everyone else out of a pool that is not complete.
PoolInv(mk) ==
  /\ OneInitialiser
  /\ \A p \in Procs : mk[p].stage \in Pooling => "BufMgrLock" \in mk[p].locks
  /\ \A p \in Procs : "BufMgrLock" \in mk[p].locks => mk[p].stage \in Pooling \cup {"dead"}
  /\ (\A p \in Procs : "BufMgrLock" \notin mk[p].locks) => PoolNone \/ PoolDone
  /\ \A p \in Procs : mk[p].stage \in Pooling => PoolAt(p, mk[p])
  /\ \A p \in Procs : mk[p].stage \in {"attached", "own"} => Ready(1, 1, 1)

\* What the index has under a pid is the Proc of the process, or one a crash
\* has left; a process that has looked its pid up finds it there, unless there
\* was no space for the entry.
PidInv(mk) ==
  /\ \A p \in Procs :
       mk[p].reg = "ret" /\ mk[p].size = BATCH_SIZE /\ ret[p] = NULL => SegmentFull
  /\ \A p \in Procs :
       /\ mk[p].stage = "attached" /\ "ProcStructLock" \in mk[p].locks
       /\ mk[p].reg = "ret" /\ ret[p] # NULL
       => \A q \in Procs \cap DOMAIN index : index[q].location # ret[p]
  /\ \A q \in Procs \cap DOMAIN index : Has(allocs, index[q].location, PROC_SIZE)
  /\ \A q \in Procs \cap DOMAIN index :
       mk[q].stage # "leaving" /\ index[q].location # MyProc[q] =>
         /\ q \in crashed
         /\ \A r \in Procs : MyProc[r] # index[q].location
         /\ \A i \in DOMAIN free_procs : free_procs[i] # index[q].location
  /\ \A p \in Procs :
       mk[p].stage = "own" /\ mk[p].work = "no" /\ mk[p].name = "known" =>
         p \in DOMAIN index \/ SegmentFull

\* Every Proc has one owner, or is free, or has just been allocated.
ProcInv(mk) ==
  /\ ProcsDistinct
  /\ \A i \in DOMAIN free_procs : Has(allocs, free_procs[i], PROC_SIZE)
  /\ \A p \in Procs : MyProc[p] # NULL <=> mk[p].stage = "own"
  /\ \A p \in Procs :
       /\ mk[p].stage = "attached" /\ "ProcStructLock" \in mk[p].locks
       /\ mk[p].reg = "ret" /\ ret[p] # NULL
       => /\ \A q \in Procs : MyProc[q] # ret[p]
          /\ \A i \in DOMAIN free_procs : free_procs[i] # ret[p]
  /\ \A p \in Procs \ crashed : p \in DOMAIN index =>
       /\ mk[p].stage \in {"own", "leaving"}
       /\ mk[p].stage = "own" => index[p].location = MyProc[p]
  /\ PidInv(mk)

StateInv(mk) ==
  /\ Types /\ LockInv(mk) /\ MemInv(mk) /\ IndexInv(mk)
  /\ BootInv(mk) /\ PoolInv(mk) /\ ProcInv(mk)

\* The marks fit the programs.
Fits(mk) ==
  /\ mk = [p \in Procs |-> mk[p]]
  /\ \A p \in Procs : Runs(p, todo[p], mk[p])

\* The inductive invariant.
StartupInv == \E mk : Fits(mk) /\ StateInv(mk)


-----------------------------------------------------------------------------
(* Programs.                                                               *)

\* No instruction leaves the mark as it is.
LEMMA TripleNone ==
  ASSUME NEW p, NEW a
  PROVE  Triple(p, <<>>, a, a)
<1>1. <<>> \in Seq({}) /\ Len(<<>>) = 0
  OBVIOUS
<1> DEFINE m == [i \in 1..1 |-> a]
<1>2. m[1] = a /\ m[Len(<<>>) + 1] = a
  BY <1>1
<1>3. \A i \in 1..Len(<<>>) : Flow(p, <<>>[i], m[i], m[i + 1])
  BY <1>1
<1> HIDE DEF m
<1> QED BY <1>1, <1>2, <1>3 DEF Triple

\* One instruction.
LEMMA TripleOne ==
  ASSUME NEW p, NEW c, NEW a, NEW b, Flow(p, c, a, b)
  PROVE  Triple(p, <<c>>, a, b)
<1>1. <<c>> \in Seq({c}) /\ Len(<<c>>) = 1 /\ <<c>>[1] = c
  OBVIOUS
<1> DEFINE m == [i \in 1..2 |-> IF i = 1 THEN a ELSE b]
<1>2. m[1] = a /\ m[Len(<<c>>) + 1] = b /\ m[1 + 1] = b
  BY <1>1
<1> HIDE DEF m
<1>3. \A i \in 1..Len(<<c>>) : i = 1
  BY <1>1
<1>4. \A i \in 1..Len(<<c>>) : Flow(p, <<c>>[i], m[i], m[i + 1])
  BY <1>1, <1>2, <1>3
<1> QED BY <1>1, <1>2, <1>4 DEF Triple

\* One routine after another.
LEMMA TripleCat ==
  ASSUME NEW p, NEW u, NEW v, NEW a, NEW b, NEW c, Triple(p, u, a, b), Triple(p, v, b, c)
  PROVE  Triple(p, u \o v, a, c)
<1>1. PICK S : u \in Seq(S)
  BY DEF Triple
<1>2. PICK T : v \in Seq(T)
  BY DEF Triple
<1>3. u \in Seq(S \cup T) /\ v \in Seq(S \cup T)
  BY <1>1, <1>2
<1>4. PICK m : /\ m[1] = a /\ m[Len(u) + 1] = b
               /\ \A i \in 1..Len(u) : Flow(p, u[i], m[i], m[i + 1])
  BY DEF Triple
<1>5. PICK n : /\ n[1] = b /\ n[Len(v) + 1] = c
               /\ \A i \in 1..Len(v) : Flow(p, v[i], n[i], n[i + 1])
  BY DEF Triple
<1>6. PICK k \in Nat : k = Len(u)
  BY <1>3
<1>7. PICK l \in Nat : l = Len(v)
  BY <1>3
<1>8. /\ u \o v \in Seq(S \cup T) /\ Len(u \o v) = k + l
      /\ \A i \in 1..(k + l) : (u \o v)[i] = IF i <= k THEN u[i] ELSE v[i - k]
  BY <1>3, <1>6, <1>7, ConcatProperties
<1> DEFINE r == [i \in 1..(k + l + 1) |-> IF i <= k THEN m[i] ELSE n[i - k]]
<1>9. r[1] = a /\ r[Len(u \o v) + 1] = c
  <2>1. 1 \in 1..(k + l + 1) /\ k + l + 1 \in 1..(k + l + 1) /\ ~(k + l + 1 <= k)
        /\ (k + l + 1) - k = l + 1
    OBVIOUS
  <2>2. r[k + l + 1] = c
    BY <1>5, <1>7, <2>1
  <2>3. CASE k = 0
    <3>1. ~(1 <= k) /\ 1 - k = 1 /\ k + 1 = 1
      BY <2>3
    <3> QED BY <1>4, <1>5, <1>6, <1>8, <2>1, <2>2, <3>1
  <2>4. CASE k # 0
    <3>1. 1 <= k
      BY <2>4
    <3> QED BY <1>4, <1>8, <2>1, <2>2, <3>1
  <2> QED BY <2>3, <2>4
<1>10. ASSUME NEW i \in 1..(k + l) PROVE Flow(p, (u \o v)[i], r[i], r[i + 1])
  <2>1. i \in 1..(k + l + 1) /\ i + 1 \in 1..(k + l + 1)
    OBVIOUS
  <2>2. CASE i < k
    <3>1. i <= k /\ i + 1 <= k /\ i \in 1..k
      BY <2>2
    <3>2. (u \o v)[i] = u[i] /\ r[i] = m[i] /\ r[i + 1] = m[i + 1]
      BY <1>8, <2>1, <3>1
    <3> QED BY <1>4, <1>6, <3>1, <3>2
  <2>3. CASE i = k
    <3>1. i <= k /\ ~(i + 1 <= k) /\ i \in 1..k /\ (i + 1) - k = 1
      BY <2>3
    <3>2. (u \o v)[i] = u[i] /\ r[i] = m[i] /\ r[i + 1] = n[1]
      BY <1>8, <2>1, <3>1
    <3>3. m[i + 1] = n[1]
      BY <1>4, <1>5, <1>6, <2>3
    <3> QED BY <1>4, <1>6, <3>1, <3>2, <3>3
  <2>4. CASE i > k
    <3>1. ~(i <= k) /\ ~(i + 1 <= k) /\ i - k \in 1..l /\ (i + 1) - k = (i - k) + 1
      BY <2>4
    <3>2. (u \o v)[i] = v[i - k] /\ r[i] = n[i - k] /\ r[i + 1] = n[(i - k) + 1]
      BY <1>8, <2>1, <3>1
    <3> QED BY <1>5, <1>7, <3>1, <3>2
  <2>5. i < k \/ i = k \/ i > k
    OBVIOUS
  <2> QED BY <2>2, <2>3, <2>4, <2>5, Zenon
<1> HIDE DEF r
<1>11. \A i \in 1..Len(u \o v) : Flow(p, (u \o v)[i], r[i], r[i + 1])
  BY <1>8, <1>10
<1> QED BY <1>8, <1>9, <1>11 DEF Triple

\* The first instruction and the rest.
LEMMA TripleHead ==
  ASSUME NEW p, NEW w, NEW a, NEW b, Triple(p, w, a, b), w # <<>>
  PROVE  \E d : Flow(p, Head(w), a, d) /\ Triple(p, Tail(w), d, b)
<1>1. PICK S : w \in Seq(S)
  BY DEF Triple
<1>2. PICK m : /\ m[1] = a /\ m[Len(w) + 1] = b
               /\ \A i \in 1..Len(w) : Flow(p, w[i], m[i], m[i + 1])
  BY DEF Triple
<1>3. PICK k \in Nat : k = Len(w)
  BY <1>1
<1>4. k # 0
  BY <1>1, <1>3, EmptySeq
<1>5. /\ Head(w) = w[1] /\ Tail(w) \in Seq(S) /\ Len(Tail(w)) = k - 1
      /\ \A i \in 1..(k - 1) : Tail(w)[i] = w[i + 1]
  BY <1>1, <1>3, HeadTailProperties
<1>6. Flow(p, Head(w), a, m[2])
  <2>1. 1 \in 1..k /\ 1 + 1 = 2
    BY <1>4
  <2> QED BY <1>2, <1>3, <1>5, <2>1
<1> DEFINE r == [i \in 1..k |-> m[i + 1]]
<1>7. r[1] = m[2] /\ r[Len(Tail(w)) + 1] = b
  <2>1. 1 \in 1..k /\ 1 + 1 = 2 /\ k \in 1..k /\ (k - 1) + 1 = k
    BY <1>4
  <2> QED BY <1>2, <1>3, <1>5, <2>1
<1>8. ASSUME NEW i \in 1..(k - 1) PROVE Flow(p, Tail(w)[i], r[i], r[i + 1])
  <2>1. i \in 1..k /\ i + 1 \in 1..k
    OBVIOUS
  <2>2. r[i] = m[i + 1] /\ r[i + 1] = m[(i + 1) + 1] /\ Tail(w)[i] = w[i + 1]
    BY <1>5, <2>1
  <2> QED BY <1>2, <1>3, <2>1, <2>2
<1> HIDE DEF r
<1>9. \A i \in 1..Len(Tail(w)) : Flow(p, Tail(w)[i], r[i], r[i + 1])
  BY <1>5, <1>8
<1>10. Triple(p, Tail(w), m[2], b)
  BY <1>5, <1>7, <1>9 DEF Triple
<1> QED BY <1>6, <1>10

\* A process that has instructions left is at the first of them.
LEMMA RunsHead ==
  ASSUME NEW p, NEW w, NEW a, Runs(p, w, a), w # <<>>
  PROVE  \E d : Flow(p, Head(w), a, d) /\ Runs(p, Tail(w), d)
<1>1. PICK b : Triple(p, w, a, b) /\ Final(b)
  BY DEF Runs
<1> QED BY <1>1, TripleHead DEF Runs

\* A routine that is called first.
LEMMA RunsCall ==
  ASSUME NEW p, NEW u, NEW v, NEW a, NEW b, Triple(p, u, a, b), Runs(p, v, b)
  PROVE  Runs(p, u \o v, a)
<1>1. PICK d : Triple(p, v, b, d) /\ Final(d)
  BY DEF Runs
<1> QED BY <1>1, TripleCat DEF Runs

\* A process without a program is at rest.
LEMMA RunsNone ==
  ASSUME NEW p, NEW a
  PROVE  Runs(p, <<>>, a) <=> Final(a)
<1>1. ASSUME Final(a) PROVE Runs(p, <<>>, a)
  BY <1>1, TripleNone DEF Runs
<1>2. ASSUME Runs(p, <<>>, a) PROVE Final(a)
  <2>1. PICK b : Triple(p, <<>>, a, b) /\ Final(b)
    BY <1>2 DEF Runs
  <2>2. PICK m : m[1] = a /\ m[Len(<<>>) + 1] = b
    BY <2>1 DEF Triple
  <2>3. Len(<<>>) + 1 = 1
    OBVIOUS
  <2> QED BY <2>1, <2>2, <2>3
<1> QED BY <1>1, <1>2

\* Two instructions are one after the other.
LEMMA TwoIsCat ==
  ASSUME NEW c, NEW d
  PROVE  <<c>> \o <<d>> = <<c, d>>
<1>1. <<c>> \in Seq({c, d}) /\ <<d>> \in Seq({c, d}) /\ Len(<<c>>) = 1 /\ Len(<<d>>) = 1
      /\ <<c>>[1] = c /\ <<d>>[1] = d
  OBVIOUS
<1>2. <<c, d>> \in Seq({c, d}) /\ Len(<<c, d>>) = 2 /\ <<c, d>>[1] = c /\ <<c, d>>[2] = d
  OBVIOUS
<1>3. PICK u : u = <<c>>
  OBVIOUS
<1>4. PICK v : v = <<d>>
  OBVIOUS
<1>5. PICK w : w = <<c, d>>
  OBVIOUS
<1>6. /\ u \o v \in Seq({c, d}) /\ Len(u \o v) = Len(u) + Len(v)
      /\ \A i \in 1..(Len(u) + Len(v)) : (u \o v)[i] = IF i <= Len(u) THEN u[i] ELSE v[i - Len(u)]
  BY <1>1, <1>3, <1>4, ConcatProperties
<1>7. u \in Seq({c, d}) /\ v \in Seq({c, d}) /\ Len(u) = 1 /\ Len(v) = 1 /\ u[1] = c /\ v[1] = d
  BY <1>1, <1>3, <1>4
<1>8. w \in Seq({c, d}) /\ Len(w) = 2 /\ w[1] = c /\ w[2] = d
  BY <1>2, <1>5
<1>9. (u \o v)[1] = c /\ (u \o v)[2] = d
  BY <1>6, <1>7
<1>10. u \o v = w
  <2>1. Len(u \o v) = Len(w)
    BY <1>6, <1>7, <1>8
  <2>2. \A i \in 1..Len(w) : i = 1 \/ i = 2
    BY <1>8
  <2>3. \A i \in 1..Len(w) : (u \o v)[i] = w[i]
    BY <1>8, <1>9, <2>2
  <2> QED BY <1>6, <1>8, <2>1, <2>3, SeqEqual
<1> QED BY <1>3, <1>4, <1>5, <1>10

\* The stage after the first chunk has been carved.
Carved(stage) == IF stage = "boot" THEN "boot1" ELSE stage

\* Taking a lock, and giving it up.
LEMMA AcquireTriple ==
  ASSUME NEW p, NEW l \in Locks, NEW locks, l \notin locks, l # "BufMgrLock",
         NEW stage, NEW reg, NEW size, NEW size2, NEW work, NEW name
  PROVE  Triple(p, <<<<"acquire", l>>>>, Mark(locks, stage, reg, size, work, name),
                   Mark(locks \cup {l}, stage, "none", size2, work, name))
<1>1. Flow(p, <<"acquire", l>>, Mark(locks, stage, reg, size, work, name),
              Mark(locks \cup {l}, stage, "none", size2, work, name))
  BY DEF Flow, FlowLock, Mark, SameWork
<1> QED BY <1>1, TripleOne

\* spin_release.
LEMMA ReleaseTriple ==
  ASSUME NEW p, NEW l, NEW locks, l \in locks, l # "BufMgrLock",
         NEW stage, NEW reg, reg # "top", NEW size, NEW work, NEW name,
         l = "ShmemIndexLock" => work = "no"
  PROVE  Triple(p, <<<<"release", l>>>>, Mark(locks, stage, reg, size, work, name),
                   Mark(locks \ {l}, stage, reg, size, work, name))
<1>1. Flow(p, <<"release", l>>, Mark(locks, stage, reg, size, work, name),
              Mark(locks \ {l}, stage, reg, size, work, name))
  BY DEF Flow, FlowLock, Mark, SameWork
<1> QED BY <1>1, TripleOne

\* A routine under a lock.
LEMMA LockedTriple ==
  ASSUME NEW p, NEW l \in Locks, l # "BufMgrLock", NEW locks, l \notin locks,
         NEW stage, NEW reg, NEW size, NEW work, NEW name, NEW ins,
         NEW stage2, NEW reg2, reg2 # "top", NEW size1, NEW size2, NEW work2,
         l = "ShmemIndexLock" => work2 = "no", NEW name2,
         Triple(p, ins, Mark(locks \cup {l}, stage, "none", size1, work, name),
                        Mark(locks \cup {l}, stage2, reg2, size2, work2, name2))
  PROVE  Triple(p, Locked(l, ins), Mark(locks, stage, reg, size, work, name),
                   Mark(locks, stage2, reg2, size2, work2, name2))
<1>1. Triple(p, <<<<"acquire", l>>>>, Mark(locks, stage, reg, size, work, name),
                Mark(locks \cup {l}, stage, "none", size1, work, name))
  BY AcquireTriple
<1>2. Triple(p, <<<<"release", l>>>>, Mark(locks \cup {l}, stage2, reg2, size2, work2, name2),
                Mark((locks \cup {l}) \ {l}, stage2, reg2, size2, work2, name2))
  BY ReleaseTriple
<1>3. (locks \cup {l}) \ {l} = locks
  OBVIOUS
<1> QED BY <1>1, <1>2, <1>3, TripleCat DEF Locked

\* shmem_alloc, whatever its caller is at.
LEMMA AllocTriple ==
  ASSUME NEW p, NEW locks, "ShmemLock" \notin locks, NEW n \in Nat \ {0},
         NEW stage, stage = "boot" => n = SizeOf["ShmemIndex"], stage \notin Returned,
         NEW reg, NEW size, NEW work, NEW name
  PROVE  Triple(p, shmem_alloc(n), Mark(locks, stage, reg, size, work, name),
                   Mark(locks, Carved(stage), "ret", n, work, name))
<1> DEFINE L == locks \cup {"ShmemLock"}
           a == Mark(L, stage, "none", 0, work, name)
           b == Mark(L, stage, "top", n, work, name)
           c == Mark(L, Carved(stage), "ret", n, work, name)
<1>1. Flow(p, <<"new_free", n>>, a, b)
  BY DEF Flow, FlowAlloc, Mark, SameWork
<1>2. Flow(p, <<"carve", n>>, b, c)
  BY DEF Flow, FlowAlloc, Mark, SameWork, Carved
<1> HIDE DEF a, b, c
<1>3. Triple(p, <<<<"new_free", n>>>> \o <<<<"carve", n>>>>, a, c)
  BY <1>1, <1>2, TripleOne, TripleCat
<1>5. Triple(p, <<<<"new_free", n>>, <<"carve", n>>>>, a, c)
  BY <1>3, TwoIsCat
<1>6. "ShmemLock" \in Locks /\ "ShmemLock" # "BufMgrLock" /\ "ShmemLock" # "ShmemIndexLock"
      /\ "ret" # "top"
  BY DEF Locks
<1> QED BY <1>5, <1>6, LockedTriple DEF shmem_alloc, a, c, L

\* shmem_init_struct, for a process at a stage that enters n.
LEMMA StructTriple ==
  ASSUME NEW p, NEW locks, "ShmemLock" \notin locks, "ShmemIndexLock" \notin locks,
         NEW n \in Structs, NEW stage, NEW stage2, Enters(stage, n, stage2),
         NEW reg, NEW size
  PROVE  Triple(p, shmem_init_struct(n), Mark(locks, stage, reg, size, "no", "none"),
                   Mark(locks, stage2, "none", 0, "no", "none"))
<1> DEFINE L == locks \cup {"ShmemIndexLock"}
<1>1. Flow(p, <<"enter", n>>, Mark(L, stage, "none", 0, "no", "none"),
              Mark(L, stage2, "none", 0, "no", "none"))
  BY DEF Flow, FlowIndex, FlowEnter, Mark
<1>2. Triple(p, <<<<"enter", n>>>>, Mark(L, stage, "none", 0, "no", "none"),
                Mark(L, stage2, "none", 0, "no", "none"))
  BY <1>1, TripleOne
<1>3. "ShmemIndexLock" \in Locks /\ "ShmemIndexLock" # "BufMgrLock" /\ "none" # "top"
  BY DEF Locks
<1> QED BY <1>2, <1>3, LockedTriple DEF shmem_init_struct

\* An instruction that goes from one stage to the next.
LEMMA StageTriple ==
  ASSUME NEW p, NEW op, NEW arg, NEW stage, NEW stage2, Advances(op, stage, stage2),
         NEW locks, NEW reg, NEW size,
         op \in {"bootstrap", "self", "hash_done"} => reg = "ret",
         op = "hash_create" => "ShmemLock" \notin locks,
         op = "freeproc" => "ProcStructLock" \in locks
  PROVE  Triple(p, <<<<op, arg>>>>, Mark(locks, stage, reg, size, "no", "none"),
                   Mark(locks, stage2, "none", 0, "no", "none"))
<1>1. Flow(p, <<op, arg>>, Mark(locks, stage, reg, size, "no", "none"),
              Mark(locks, stage2, "none", 0, "no", "none"))
  BY DEF Flow, FlowStage, Mark
<1> QED BY <1>1, TripleOne

\* init_buffer_pool, up to the release of its lock and with it.
LEMMA PoolTriple ==
  ASSUME NEW p
  PROVE  Triple(p, init_buffer_pool, Mark({}, "up", "none", 0, "no", "none"),
                   Mark({}, "attached", "none", 0, "no", "none"))
<1> DEFINE L == {"BufMgrLock"}
           M(stage) == Mark(L, stage, "none", 0, "no", "none")
<1>1. "ShmemLock" \notin L /\ "ShmemIndexLock" \notin L
  OBVIOUS
<1>2. BD \in Structs /\ BB \in Structs /\ HashTable \in Structs
  BY StartupAssumption DEF BD, BB, HashTable
<1>3. Triple(p, shmem_init_struct(BD), M("pool1"), M("pool2"))
  <2>1. Enters("pool1", BD, "pool2")
    BY DEF Enters, BD
  <2> QED BY <1>1, <1>2, <2>1, StructTriple
<1>4. Triple(p, shmem_init_struct(BB), M("pool3"), M("pool4"))
  <2>1. Enters("pool3", BB, "pool4")
    BY DEF Enters, BB
  <2> QED BY <1>1, <1>2, <2>1, StructTriple
<1>5. Triple(p, shmem_init_struct(HashTable), M("pool5"), M("pool6"))
  <2>1. Enters("pool5", HashTable, "pool6")
    BY DEF Enters
  <2> QED BY <1>1, <1>2, <2>1, StructTriple
<1>6. Triple(p, <<<<"descs", BD>>>>, M("pool2"), M("pool3"))
  BY StageTriple DEF Advances
<1>7. Triple(p, <<<<"link", BB>>>>, M("pool4"), M("pool5"))
  BY StageTriple DEF Advances
<1>8. Triple(p, <<<<"hash_create", HashTable>>>>, M("pool6"), M("pool7"))
  BY StageTriple DEF Advances
<1>9. Triple(p, <<<<"freelist", BD>>>>, M("pool7"), M("pool8"))
  BY StageTriple DEF Advances
<1>10. Triple(p, <<<<"acquire", "BufMgrLock">>>>, Mark({}, "up", "none", 0, "no", "none"), M("pool1"))
  <2>1. Flow(p, <<"acquire", "BufMgrLock">>, Mark({}, "up", "none", 0, "no", "none"), M("pool1"))
    BY DEF Flow, FlowLock, Mark, SameWork, Locks
  <2> QED BY <2>1, TripleOne
<1>11. Triple(p, <<<<"release", "BufMgrLock">>>>, M("pool8"), Mark({}, "attached", "none", 0, "no", "none"))
  <2>1. Flow(p, <<"release", "BufMgrLock">>, M("pool8"), Mark({}, "attached", "none", 0, "no", "none"))
    BY DEF Flow, FlowLock, Mark, SameWork
  <2> QED BY <2>1, TripleOne
<1> HIDE DEF M
<1>12. Triple(p, init_buf_table, M("pool5"), M("pool7"))
  BY <1>5, <1>8, TripleCat DEF init_buf_table
<1>13. Triple(p, shmem_init_struct(BD) \o <<<<"descs", BD>>>>, M("pool1"), M("pool3"))
  BY <1>3, <1>6, TripleCat
<1>14. Triple(p, shmem_init_struct(BD) \o <<<<"descs", BD>>>> \o shmem_init_struct(BB),
              M("pool1"), M("pool4"))
  BY <1>13, <1>4, TripleCat
<1>15. Triple(p, shmem_init_struct(BD) \o <<<<"descs", BD>>>> \o shmem_init_struct(BB)
                 \o <<<<"link", BB>>>>, M("pool1"), M("pool5"))
  BY <1>14, <1>7, TripleCat
<1>16. Triple(p, shmem_init_struct(BD) \o <<<<"descs", BD>>>> \o shmem_init_struct(BB)
                 \o <<<<"link", BB>>>> \o init_buf_table, M("pool1"), M("pool7"))
  BY <1>15, <1>12, TripleCat
<1>17. Triple(p, shmem_init_struct(BD) \o <<<<"descs", BD>>>> \o shmem_init_struct(BB)
                 \o <<<<"link", BB>>>> \o init_buf_table \o <<<<"freelist", BD>>>>,
              M("pool1"), M("pool8"))
  BY <1>16, <1>9, TripleCat
<1> DEFINE body == shmem_init_struct(BD) \o <<<<"descs", BD>>>> \o shmem_init_struct(BB)
                 \o <<<<"link", BB>>>> \o init_buf_table \o <<<<"freelist", BD>>>>
<1> HIDE DEF body
<1>18. Triple(p, body, M("pool1"), M("pool8"))
  BY <1>17 DEF body
<1>19. Triple(p, Locked("BufMgrLock", body), Mark({}, "up", "none", 0, "no", "none"),
              Mark({}, "attached", "none", 0, "no", "none"))
  BY <1>10, <1>11, <1>18, TripleCat DEF Locked
<1> QED BY <1>19 DEF body, init_buffer_pool, BD, BB

\* init_process as far as the choice of a Proc.
LEMMA ProcessTriple ==
  ASSUME NEW p \in Procs, p # Postmaster, NEW b, Final(b)
  PROVE  Triple(p, init_process, Mark({}, "attached", "none", 0, "no", "none"), b)
<1> DEFINE a == Mark({}, "attached", "none", 0, "no", "none")
           d == Mark({"ProcStructLock"}, "attached", "none", 0, "no", "none")
<1>1. Triple(p, <<<<"acquire", "ProcStructLock">>>>, a, d)
  <2>1. {} \cup {"ProcStructLock"} = {"ProcStructLock"} /\ "ProcStructLock" \in Locks
        /\ "ProcStructLock" # "BufMgrLock" /\ "ProcStructLock" \notin {}
    BY DEF Locks
  <2>2. Triple(p, <<<<"acquire", "ProcStructLock">>>>, a,
               Mark({} \cup {"ProcStructLock"}, "attached", "none", 0, "no", "none"))
    BY <2>1, AcquireTriple
  <2> QED BY <2>1, <2>2
<1>2. Triple(p, shmem_init_struct("Proc Header"), d, d)
  <2>1. "Proc Header" \in Structs /\ Enters("attached", "Proc Header", "attached")
    BY StartupAssumption DEF Enters
  <2>2. "ShmemLock" \notin {"ProcStructLock"} /\ "ShmemIndexLock" \notin {"ProcStructLock"}
    OBVIOUS
  <2> QED BY <2>1, <2>2, StructTriple
<1>3. Triple(p, <<<<"take", "Proc Header">>>>, d, b)
  <2>1. Flow(p, <<"take", "Proc Header">>, d, b)
    BY DEF Flow, FlowEnd, Mark
  <2> QED BY <2>1, TripleOne
<1> HIDE DEF a, d
<1>4. Triple(p, <<<<"acquire", "ProcStructLock">>>> \o shmem_init_struct("Proc Header"), a, d)
  BY <1>1, <1>2, TripleCat
<1>5. Triple(p, init_process, a, b)
  BY <1>3, <1>4, TripleCat DEF init_process
<1> QED BY <1>5 DEF a

\* The rest of init_process.
LEMMA HaveProcTriple ==
  ASSUME NEW p \in Procs, p # Postmaster, NEW b, Final(b)
  PROVE  Triple(p, HaveProc(p), Mark({"ProcStructLock"}, "own", "none", 0, "no", "none"), b)
<1> DEFINE a == Mark({"ProcStructLock"}, "own", "none", 0, "no", "none")
           d == Mark({}, "own", "none", 0, "no", "none")
           e == Mark({} \cup {"ShmemIndexLock"}, "own", "none", 0, "no", "none")
           f == Mark({} \cup {"ShmemIndexLock"}, "own", "none", 0, "no", "known")
           g == Mark({}, "own", "none", 0, "no", "known")
<1>1. Triple(p, <<<<"release", "ProcStructLock">>>>, a, d)
  <2>1. {"ProcStructLock"} \ {"ProcStructLock"} = {} /\ "ProcStructLock" \in {"ProcStructLock"}
        /\ "ProcStructLock" # "BufMgrLock" /\ "ProcStructLock" # "ShmemIndexLock" /\ "none" # "top"
    OBVIOUS
  <2>2. Triple(p, <<<<"release", "ProcStructLock">>>>, a,
               Mark({"ProcStructLock"} \ {"ProcStructLock"}, "own", "none", 0, "no", "none"))
    BY <2>1, ReleaseTriple
  <2> QED BY <2>1, <2>2
<1>2. Triple(p, <<<<"pid", p>>>>, e, f)
  <2>1. Flow(p, <<"pid", p>>, e, f)
    BY DEF Flow, FlowIndex, FlowEnter, Mark
  <2> QED BY <2>1, TripleOne
<1>3. Triple(p, shmem_pid_lookup(p), d, g)
  <2>1. "ShmemIndexLock" \in Locks /\ "ShmemIndexLock" # "BufMgrLock" /\ "none" # "top"
        /\ "ShmemIndexLock" \notin {}
    BY DEF Locks
  <2> QED BY <1>2, <2>1, LockedTriple DEF shmem_pid_lookup
<1>4. Triple(p, <<<<"running", p>>>>, g, b)
  <2>1. Flow(p, <<"running", p>>, g, b)
    BY DEF Flow, FlowEnd, Mark
  <2> QED BY <2>1, TripleOne
<1> HIDE DEF a, d, g
<1>5. Triple(p, <<<<"release", "ProcStructLock">>>> \o shmem_pid_lookup(p), a, g)
  BY <1>1, <1>3, TripleCat
<1>6. Triple(p, HaveProc(p), a, b)
  BY <1>4, <1>5, TripleCat DEF HaveProc
<1> QED BY <1>6 DEF a

\* The end of a backend that got no Proc.
LEMMA NoProcTriple ==
  ASSUME NEW p \in Procs, NEW b, Final(b), NEW size
  PROVE  Triple(p, <<<<"release", "ProcStructLock">>, <<"use", p>>>>,
                Mark({"ProcStructLock"}, "attached", "null", size, "no", "none"), b)
<1> DEFINE a == Mark({"ProcStructLock"}, "attached", "null", size, "no", "none")
           d == Mark({}, "attached", "null", size, "no", "none")
<1>1. Triple(p, <<<<"release", "ProcStructLock">>>>, a, d)
  <2>1. {"ProcStructLock"} \ {"ProcStructLock"} = {} /\ "ProcStructLock" \in {"ProcStructLock"}
        /\ "ProcStructLock" # "BufMgrLock" /\ "ProcStructLock" # "ShmemIndexLock" /\ "null" # "top"
    OBVIOUS
  <2>2. Triple(p, <<<<"release", "ProcStructLock">>>>, a,
               Mark({"ProcStructLock"} \ {"ProcStructLock"}, "attached", "null", size, "no", "none"))
    BY <2>1, ReleaseTriple
  <2> QED BY <2>1, <2>2
<1>2. Triple(p, <<<<"use", p>>>>, d, b)
  <2>1. Flow(p, <<"use", p>>, d, b)
    BY DEF Flow, FlowEnd, Mark, Final
  <2> QED BY <2>1, TripleOne
<1> HIDE DEF a, d
<1>3. Triple(p, <<<<"release", "ProcStructLock">>>> \o <<<<"use", p>>>>, a, b)
  BY <1>1, <1>2, TripleCat
<1>4. Triple(p, <<<<"release", "ProcStructLock">>, <<"use", p>>>>, a, b)
  BY <1>3, TwoIsCat
<1> QED BY <1>4 DEF a

\* proc_kill.
LEMMA KillTriple ==
  ASSUME NEW p \in Procs, NEW b, Final(b), NEW reg, NEW size
  PROVE  Triple(p, proc_kill(p), Mark({}, "own", reg, size, "no", "none"), b)
<1> DEFINE a == Mark({}, "own", reg, size, "no", "none")
           d == Mark({}, "leaving", "none", 0, "no", "none")
           e == Mark({}, "idle", "none", 0, "no", "none")
<1>1. Triple(p, Locked("ProcStructLock", <<<<"freeproc", p>>>>), a, d)
  <2>1. "ProcStructLock" \in Locks /\ "ProcStructLock" # "BufMgrLock" /\ "none" # "top"
        /\ "ProcStructLock" # "ShmemIndexLock" /\ "ProcStructLock" \notin {}
    BY DEF Locks
  <2>2. Triple(p, <<<<"freeproc", p>>>>, Mark({} \cup {"ProcStructLock"}, "own", "none", 0, "no", "none"),
               Mark({} \cup {"ProcStructLock"}, "leaving", "none", 0, "no", "none"))
    BY StageTriple DEF Advances
  <2> QED BY <2>1, <2>2, LockedTriple
<1>2. Triple(p, shmem_pid_destroy(p), d, e)
  <2>1. "ShmemIndexLock" \in Locks /\ "ShmemIndexLock" # "BufMgrLock" /\ "none" # "top"
        /\ "ShmemIndexLock" \notin {}
    BY DEF Locks
  <2>2. Flow(p, <<"unpid", p>>, Mark({} \cup {"ShmemIndexLock"}, "leaving", "none", 0, "no", "none"),
             Mark({} \cup {"ShmemIndexLock"}, "idle", "none", 0, "no", "none"))
    BY DEF Flow, FlowIndex, Mark
  <2>3. Triple(p, <<<<"unpid", p>>>>, Mark({} \cup {"ShmemIndexLock"}, "leaving", "none", 0, "no", "none"),
               Mark({} \cup {"ShmemIndexLock"}, "idle", "none", 0, "no", "none"))
    BY <2>2, TripleOne
  <2> QED BY <2>1, <2>3, LockedTriple DEF shmem_pid_destroy
<1>3. Triple(p, <<<<"gone", p>>>>, e, b)
  <2>1. Flow(p, <<"gone", p>>, e, b)
    BY DEF Flow, FlowEnd, Mark, Final
  <2> QED BY <2>1, TripleOne
<1> HIDE DEF a, d, e
<1>4. Triple(p, Locked("ProcStructLock", <<<<"freeproc", p>>>>) \o shmem_pid_destroy(p), a, e)
  BY <1>1, <1>2, TripleCat
<1>5. Triple(p, proc_kill(p), a, b)
  BY <1>3, <1>4, TripleCat DEF proc_kill
<1> QED BY <1>5 DEF a

\* The program of the postmaster.
LEMMA BootTriple ==
  ASSUME NEW b, Final(b)
  PROVE  Triple(Postmaster,
                init_shmem_allocation \o init_proc_global \o init_buffer_pool
                  \o <<<<"running", Postmaster>>>>,
                Mark({}, "boot", "none", 0, "no", "none"), b)
<1> DEFINE p == Postmaster
           n == SizeOf["ShmemIndex"]
           v == SizeOf["VariableCache"]
           L == {} \cup {"ShmemIndexLock"}
           M(stage) == Mark({}, stage, "none", 0, "no", "none")
<1>1. /\ n \in Nat \ {0} /\ v \in Nat \ {0} /\ BATCH_SIZE \in Nat \ {0}
      /\ "Proc Header" \in Structs
  BY StartupAssumption, ShmemAssumption
<1>2. "ShmemLock" \notin L /\ "ShmemLock" \notin {} /\ "ShmemIndexLock" \notin {}
  OBVIOUS
<1>3. Triple(p, shmem_alloc(n), Mark(L, "boot", "none", 0, "no", "none"),
             Mark(L, "boot1", "ret", n, "no", "none"))
  <2>1. Carved("boot") = "boot1" /\ "boot" \notin Returned
    BY DEF Carved, Returned
  <2>2. Triple(p, shmem_alloc(n), Mark(L, "boot", "none", 0, "no", "none"),
               Mark(L, Carved("boot"), "ret", n, "no", "none"))
    BY <1>1, <1>2, <2>1, AllocTriple
  <2> QED BY <2>1, <2>2
<1>4. Triple(p, <<<<"bootstrap", "ShmemIndex">>>>, Mark(L, "boot1", "ret", n, "no", "none"),
             Mark(L, "boot2", "none", 0, "no", "none"))
  BY StageTriple DEF Advances
<1>5. Triple(p, shmem_alloc(BATCH_SIZE), Mark(L, "boot2", "none", 0, "no", "none"),
             Mark(L, "boot2", "ret", BATCH_SIZE, "no", "none"))
  <2>1. Carved("boot2") = "boot2" /\ "boot2" # "boot" /\ "boot2" \notin Returned
    BY DEF Carved, Returned
  <2>2. Triple(p, shmem_alloc(BATCH_SIZE), Mark(L, "boot2", "none", 0, "no", "none"),
               Mark(L, Carved("boot2"), "ret", BATCH_SIZE, "no", "none"))
    BY <1>1, <1>2, <2>1, AllocTriple
  <2> QED BY <2>1, <2>2
<1>6. Triple(p, <<<<"self", "ShmemIndex">>>>, Mark(L, "boot2", "ret", BATCH_SIZE, "no", "none"),
             Mark(L, "header", "none", 0, "no", "none"))
  BY StageTriple DEF Advances
<1>7. Triple(p, shmem_alloc(n) \o <<<<"bootstrap", "ShmemIndex">>>>,
             Mark(L, "boot", "none", 0, "no", "none"), Mark(L, "boot2", "none", 0, "no", "none"))
  BY <1>3, <1>4, TripleCat
<1>8. Triple(p, shmem_alloc(n) \o <<<<"bootstrap", "ShmemIndex">>>> \o shmem_alloc(BATCH_SIZE),
             Mark(L, "boot", "none", 0, "no", "none"), Mark(L, "boot2", "ret", BATCH_SIZE, "no", "none"))
  BY <1>5, <1>7, TripleCat
<1>9. Triple(p, shmem_alloc(n) \o <<<<"bootstrap", "ShmemIndex">>>> \o shmem_alloc(BATCH_SIZE)
                  \o <<<<"self", "ShmemIndex">>>>,
             Mark(L, "boot", "none", 0, "no", "none"), Mark(L, "header", "none", 0, "no", "none"))
  BY <1>6, <1>8, TripleCat
<1> DEFINE body == shmem_alloc(n) \o <<<<"bootstrap", "ShmemIndex">>>> \o shmem_alloc(BATCH_SIZE)
                     \o <<<<"self", "ShmemIndex">>>>
<1> HIDE DEF body
<1>10. Triple(p, Locked("ShmemIndexLock", body), M("boot"), M("header"))
  <2>1. "ShmemIndexLock" \in Locks /\ "ShmemIndexLock" # "BufMgrLock" /\ "none" # "top"
    BY DEF Locks
  <2>2. Triple(p, body, Mark(L, "boot", "none", 0, "no", "none"), Mark(L, "header", "none", 0, "no", "none"))
    BY <1>9 DEF body
  <2> QED BY <1>2, <2>1, <2>2, LockedTriple
<1>11. Triple(p, shmem_alloc(v), M("header"), Mark({}, "header", "ret", v, "no", "none"))
  <2>1. Carved("header") = "header" /\ "header" # "boot" /\ "header" \notin Returned
    BY DEF Carved, Returned
  <2>2. Triple(p, shmem_alloc(v), M("header"), Mark({}, Carved("header"), "ret", v, "no", "none"))
    BY <1>1, <1>2, <2>1, AllocTriple
  <2> QED BY <2>1, <2>2
<1>12. Triple(p, <<<<"use", "VariableCache">>>>, Mark({}, "header", "ret", v, "no", "none"), M("header"))
  <2>1. Flow(p, <<"use", "VariableCache">>, Mark({}, "header", "ret", v, "no", "none"), M("header"))
    BY DEF Flow, FlowEnd, Mark
  <2> QED BY <2>1, TripleOne
<1>13. Triple(p, shmem_init_struct("Proc Header"), M("header"), M("header"))
  <2>1. Enters("header", "Proc Header", "header")
    BY DEF Enters
  <2> QED BY <1>1, <1>2, <2>1, StructTriple
<1>14. Triple(p, <<<<"procglobal", "Proc Header">>>>, M("header"), M("up"))
  BY StageTriple DEF Advances
<1>15. Triple(p, init_buffer_pool, M("up"), M("attached"))
  BY PoolTriple
<1>16. Triple(p, <<<<"running", p>>>>, M("attached"), b)
  <2>1. Flow(p, <<"running", p>>, M("attached"), b)
    BY DEF Flow, FlowEnd, Mark
  <2> QED BY <2>1, TripleOne
<1> HIDE DEF M
<1>17. Triple(p, init_shmem_allocation, M("boot"), M("header"))
  <2>1. Triple(p, Locked("ShmemIndexLock", body) \o shmem_alloc(v), M("boot"),
               Mark({}, "header", "ret", v, "no", "none"))
    BY <1>10, <1>11, TripleCat
  <2>2. Triple(p, Locked("ShmemIndexLock", body) \o shmem_alloc(v)
                    \o <<<<"use", "VariableCache">>>>, M("boot"), M("header"))
    BY <1>12, <2>1, TripleCat
  <2> QED BY <2>2 DEF body, init_shmem_allocation
<1>18. Triple(p, init_proc_global, M("header"), M("up"))
  BY <1>13, <1>14, TripleCat DEF init_proc_global
<1>19. Triple(p, init_shmem_allocation \o init_proc_global, M("boot"), M("up"))
  BY <1>17, <1>18, TripleCat
<1>20. Triple(p, init_shmem_allocation \o init_proc_global \o init_buffer_pool,
              M("boot"), M("attached"))
  BY <1>15, <1>19, TripleCat
<1>21. Triple(p, init_shmem_allocation \o init_proc_global \o init_buffer_pool
                   \o <<<<"running", p>>>>, M("boot"), b)
  BY <1>16, <1>20, TripleCat
<1> QED BY <1>21 DEF M

-----------------------------------------------------------------------------
(* A step of process p changes the mark of p alone, and most of what the    *)
(* marks say does not depend on it.                                         *)

Moved(mk, p, b, mk2) == mk2[p] = b /\ \A q \in Procs \ {p} : mk2[q] = mk[q]

\* Registers and flags of the other processes stay as they are.
OthersKeep(p) ==
  \A q \in Procs \ {p} : ret'[q] = ret[q] /\ found'[q] = found[q] /\ top'[q] = top[q]
                         /\ descs'[q] = descs[q]

\* What has been allocated stays allocated.
Grows ==
  /\ \A x, s : Has(allocs, x, s) => Has(allocs', x, s)
  /\ SegmentFull => SegmentFull'

\* Marks that fit when process p has program w.
LEMMA StepFits ==
  ASSUME NEW mk, Fits(mk), todo = [q \in Procs |-> todo[q]], NEW p \in Procs, NEW w, NEW b,
         todo' = [todo EXCEPT ![p] = w], Runs(p, w, b)
  PROVE  /\ \E mk2 : Moved(mk, p, b, mk2) /\ Fits(mk2)'
         /\ todo' = [q \in Procs |-> todo'[q]]
         /\ \A q \in Procs \ {p} : todo'[q] = todo[q]
<1>1. mk = [q \in Procs |-> mk[q]] /\ \A q \in Procs : Runs(q, todo[q], mk[q])
  BY DEF Fits
<1>2. PICK mk2 : mk2 = [q \in Procs |-> IF q = p THEN b ELSE mk[q]]
  OBVIOUS
<1>3. Moved(mk, p, b, mk2) /\ mk2 = [q \in Procs |-> mk2[q]]
  BY <1>2 DEF Moved
<1>4. todo'[p] = w /\ \A q \in Procs \ {p} : todo'[q] = todo[q]
  OBVIOUS
<1>5. todo' = [q \in Procs |-> todo'[q]]
  OBVIOUS
<1>6. \A q \in Procs : Runs(q, todo'[q], mk2[q])
  <2> SUFFICES ASSUME NEW q \in Procs PROVE Runs(q, todo'[q], mk2[q])
    OBVIOUS
  <2>1. CASE q = p
    BY <1>3, <1>4, <2>1 DEF Moved
  <2>2. CASE q # p
    <3>1. todo'[q] = todo[q] /\ mk2[q] = mk[q]
      BY <1>3, <1>4, <2>2 DEF Moved
    <3> QED BY <1>1, <3>1
  <2> QED BY <2>1, <2>2
<1>7. Fits(mk2)'
  BY <1>3, <1>6 DEF Fits
<1> QED BY <1>3, <1>4, <1>5, <1>7

\* The locks.
LEMMA LocksKeep ==
  ASSUME NEW mk, LockInv(mk), NEW p \in Procs, NEW b, NEW mk2, Moved(mk, p, b, mk2),
         b.locks = mk[p].locks, UNCHANGED lockVars
  PROVE  LockInv(mk2)'
<1>1. \A q \in Procs : mk2[q].locks = mk[q].locks
  BY DEF Moved
<1>2. semval' = semval /\ held' = held
  BY DEF lockVars
<1> QED BY <1>1, <1>2 DEF LockInv

\* Memory, when nothing is allocated.
LEMMA MemKeep ==
  ASSUME NEW mk, MemInv(mk), NEW p \in Procs, NEW b, NEW mk2, Moved(mk, p, b, mk2),
         UNCHANGED <<total_size, free_offset, allocs>>, OthersKeep(p),
         b.reg # "top", b.reg = "null" => ret'[p] = NULL,
         b.reg = "ret" => ret'[p] = NULL \/ Has(allocs, ret'[p], b.size)
  PROVE  MemInv(mk2)'
<1>1. AllocsDisjoint'
  BY DEF MemInv, AllocsDisjoint
<1>2. allocs' = allocs
  OBVIOUS
<1>3. ASSUME NEW q \in Procs
      PROVE  /\ mk2[q].reg = "top" => /\ "ShmemLock" \in mk2[q].locks
                                      /\ mk2[q].size \in Nat \ {0}
                                      /\ top'[q] = free_offset' + mk2[q].size
             /\ mk2[q].reg = "ret" => ret'[q] = NULL \/ Has(allocs', ret'[q], mk2[q].size)
             /\ mk2[q].reg = "null" => ret'[q] = NULL
  <2>1. CASE q = p
    <3>1. mk2[q] = b
      BY <2>1 DEF Moved
    <3> QED BY <1>2, <2>1, <3>1
  <2>2. CASE q # p
    <3>1. mk2[q] = mk[q] /\ ret'[q] = ret[q] /\ top'[q] = top[q]
      BY <2>2 DEF Moved, OthersKeep
    <3> QED BY <1>2, <3>1 DEF MemInv
  <2> QED BY <2>1, <2>2
<1> QED BY <1>1, <1>3 DEF MemInv

\* The index, when no entry changes.
LEMMA IndexKeep ==
  ASSUME NEW mk, IndexInv(mk), NEW p \in Procs, NEW b, NEW mk2, Moved(mk, p, b, mk2),
         UNCHANGED <<index, total_size>>, Grows, OthersKeep(p),
         \/ b.work = "no" /\ mk[p].work # "made"
         \/ /\ b.work = "want" /\ b.name \notin DOMAIN index /\ mk[p].work # "made"
            /\ "ShmemIndexLock" \in b.locks /\ ~found'[p]
         \/ /\ b.work = mk[p].work /\ b.name = mk[p].name
            /\ "ShmemIndexLock" \in mk[p].locks => "ShmemIndexLock" \in b.locks
            /\ found'[p] = found[p]
  PROVE  IndexInv(mk2)'
<1>1. \A q \in Procs : \/ q = p /\ mk2[q] = b
                       \/ q # p /\ mk2[q] = mk[q] /\ found'[q] = found[q]
  BY DEF Moved, OthersKeep
<1>2. /\ b.work \in {"no", "want", "made"}
      /\ b.work # "no" => "ShmemIndexLock" \in b.locks /\ ~found'[p]
      /\ b.work = "want" => b.name \notin DOMAIN index
      /\ b.work = "made" => b.name \in DOMAIN index \cap Structs
      /\ mk[p].work = "made" => b.work = "made" /\ b.name = mk[p].name
  BY DEF IndexInv
<1>3. /\ \A q \in Procs : mk2[q].work \in {"no", "want", "made"}
      /\ \A q \in Procs : mk2[q].work # "no" => "ShmemIndexLock" \in mk2[q].locks /\ ~found'[q]
      /\ \A q \in Procs : mk2[q].work = "want" => mk2[q].name \notin DOMAIN index
      /\ \A q \in Procs : mk2[q].work = "made" => mk2[q].name \in DOMAIN index \cap Structs
  BY <1>1, <1>2 DEF IndexInv
<1>4. ASSUME NEW n \in DOMAIN index \cap Structs
      PROVE  \/ Has(allocs', index[n].location, index[n].size) /\ index[n].size = SizeOf[n]
             \/ \E q \in Procs : mk2[q].work = "made" /\ mk2[q].name = n
  <2>1. CASE Has(allocs, index[n].location, index[n].size) /\ index[n].size = SizeOf[n]
    BY <2>1 DEF Grows
  <2>2. ASSUME NEW q \in Procs, mk[q].work = "made", mk[q].name = n
        PROVE  mk2[q].work = "made" /\ mk2[q].name = n
    BY <1>1, <1>2, <2>2
  <2> QED BY <2>1, <2>2 DEF IndexInv
<1>5. \A n \in DOMAIN index \cap Procs : index[n].location \in 1..total_size
  BY DEF IndexInv
<1> QED BY <1>3, <1>4, <1>5 DEF IndexInv

\* The start of the postmaster.
LEMMA BootKeep ==
  ASSUME NEW mk, BootInv(mk), NEW p \in Procs, NEW b, NEW mk2, Moved(mk, p, b, mk2),
         UNCHANGED <<free_offset, allocs>>, ready'["Proc Header"] = ready["Proc Header"],
         OthersKeep(p), todo[p] # <<>>, \A q \in Procs \ {p} : todo'[q] = todo[q],
         b.stage \in Booting => b.stage = mk[p].stage /\ (b.stage = "boot1" => ret'[p] = ret[p]),
         b.stage \in {"idle", "own", "leaving"} => b.stage = mk[p].stage \/ p # Postmaster
  PROVE  BootInv(mk2)'
<1>1. ready'["Proc Header"] = 0 => \A q \in Procs \ {Postmaster} : todo'[q] = <<>>
  BY DEF BootInv
<1>2. allocs' = allocs
  OBVIOUS
<1>3. ASSUME NEW q \in Procs
      PROVE  /\ mk2[q].stage \in Booting => q = Postmaster /\ ready'["Proc Header"] = 0
             /\ mk2[q].stage = "boot" => allocs' = <<>> /\ free_offset' = SEG_HEADER
             /\ mk2[q].stage = "boot1" =>
                  ret'[q] = NULL \/ Has(allocs', SEG_HEADER, SizeOf["ShmemIndex"])
             /\ mk2[q].stage = "boot2" => Has(allocs', SEG_HEADER, SizeOf["ShmemIndex"])
  <2>1. CASE q = p
    <3>1. mk2[q] = b
      BY <2>1 DEF Moved
    <3> QED BY <1>2, <2>1, <3>1 DEF BootInv, Booting
  <2>2. CASE q # p
    <3>1. mk2[q] = mk[q] /\ ret'[q] = ret[q]
      BY <2>2 DEF Moved, OthersKeep
    <3> QED BY <1>2, <3>1 DEF BootInv
  <2> QED BY <2>1, <2>2
<1>4. Postmaster \in Procs
  BY StartupAssumption
<1>5. mk[Postmaster].stage # "idle"
  BY <1>4 DEF BootInv
<1>6. mk2[Postmaster].stage \notin {"own", "leaving", "idle"}
  BY <1>4, <1>5 DEF BootInv, Moved
<1> QED BY <1>1, <1>3, <1>6 DEF BootInv

\* The pool, by a process that does not hold its lock.
LEMMA PoolKeep ==
  ASSUME NEW mk, PoolInv(mk), NEW p \in Procs, NEW b, NEW mk2, Moved(mk, p, b, mk2),
         OneInitialiser', OthersKeep(p),
         \A n \in {BD, BB, HashTable} : ready'[n] = ready[n] /\ (n \in DOMAIN index' <=> n \in DOMAIN index),
         "BufMgrLock" \notin mk[p].locks, "BufMgrLock" \notin b.locks, b.stage \notin Pooling,
         b.stage \in {"attached", "own"} => Ready(1, 1, 1)
  PROVE  PoolInv(mk2)'
<1>1. \A q \in Procs : \/ q = p /\ mk2[q] = b
                       \/ q # p /\ mk2[q] = mk[q]
  BY DEF Moved
<1>2. /\ \A x, y, z : Ready(x, y, z)' <=> Ready(x, y, z)
      /\ (PoolNone' <=> PoolNone) /\ (PoolDone' <=> PoolDone)
  BY DEF Ready, PoolNone, PoolDone
<1>3. /\ \A q \in Procs : mk2[q].stage \in Pooling => "BufMgrLock" \in mk2[q].locks
      /\ \A q \in Procs : "BufMgrLock" \in mk2[q].locks => mk2[q].stage \in Pooling \cup {"dead"}
      /\ \A q \in Procs : mk2[q].stage \in {"attached", "own"} => Ready(1, 1, 1)'
  BY <1>1, <1>2 DEF PoolInv
<1>4. (\A q \in Procs : "BufMgrLock" \notin mk2[q].locks) => PoolNone' \/ PoolDone'
  <2> SUFFICES ASSUME \A q \in Procs : "BufMgrLock" \notin mk2[q].locks
               PROVE  PoolNone' \/ PoolDone'
    OBVIOUS
  <2>1. \A q \in Procs : "BufMgrLock" \notin mk[q].locks
    BY <1>1
  <2> QED BY <1>2, <2>1 DEF PoolInv
<1>5. ASSUME NEW q \in Procs, mk2[q].stage \in Pooling PROVE PoolAt(q, mk2[q])'
  <2>1. q # p /\ mk2[q] = mk[q]
    BY <1>1, <1>5
  <2>2. PoolAt(q, mk[q])
    BY <1>5, <2>1 DEF PoolInv
  <2>3. found'[q] = found[q] /\ ret'[q] = ret[q] /\ descs'[q] = descs[q]
    BY <2>1 DEF OthersKeep
  <2>4. PoolAt(q, mk[q])'
    BY <1>2, <2>2, <2>3 DEF PoolAt
  <2> QED BY <2>1, <2>4
<1> QED BY <1>3, <1>4, <1>5 DEF PoolInv

\* The pool, by the process that holds its lock and keeps it.
LEMMA PoolMoves ==
  ASSUME NEW mk, PoolInv(mk), LockInv(mk), NEW p \in Procs, NEW b, NEW mk2, Moved(mk, p, b, mk2),
         OneInitialiser', "BufMgrLock" \in mk[p].locks, "BufMgrLock" \in b.locks,
         Ready(1, 1, 1) => Ready(1, 1, 1)',
         b.stage \in Pooling \cup {"dead"}, b.stage \in Pooling => PoolAt(p, b)'
  PROVE  PoolInv(mk2)'
<1>1. \A q \in Procs : \/ q = p /\ mk2[q] = b
                       \/ q # p /\ mk2[q] = mk[q]
  BY DEF Moved
<1>2. \A q \in Procs \ {p} : "BufMgrLock" \notin mk[q].locks /\ mk[q].stage \notin Pooling
  BY DEF LockInv, PoolInv, Locks
<1>3. b.stage \notin {"attached", "own"}
  BY DEF Pooling
<1>4. /\ \A q \in Procs : mk2[q].stage \in Pooling => "BufMgrLock" \in mk2[q].locks
      /\ \A q \in Procs : "BufMgrLock" \in mk2[q].locks => mk2[q].stage \in Pooling \cup {"dead"}
  BY <1>1, <1>2
<1>5. ASSUME NEW q \in Procs, mk2[q].stage \in {"attached", "own"} PROVE Ready(1, 1, 1)'
  <2>1. mk2[q] = mk[q]
    BY <1>1, <1>3, <1>5
  <2> QED BY <1>5, <2>1 DEF PoolInv
<1>6. ~\A q \in Procs : "BufMgrLock" \notin mk2[q].locks
  BY <1>1
<1>7. ASSUME NEW q \in Procs, mk2[q].stage \in Pooling PROVE PoolAt(q, mk2[q])'
  <2>1. q = p /\ mk2[q] = b
    BY <1>1, <1>2, <1>7
  <2> QED BY <1>7, <2>1
<1> QED BY <1>4, <1>5, <1>6, <1>7 DEF PoolInv

\* The pool, by a process that stays at its stage.
LEMMA PoolSame ==
  ASSUME NEW mk, PoolInv(mk), LockInv(mk), NEW p \in Procs, NEW b, NEW mk2, Moved(mk, p, b, mk2),
         UNCHANGED ready, OthersKeep(p),
         \A n \in {BD, BB, HashTable} : n \in DOMAIN index' <=> n \in DOMAIN index,
         b.stage = mk[p].stage, b.work = "made" <=> mk[p].work = "made",
         "BufMgrLock" \in b.locks <=> "BufMgrLock" \in mk[p].locks,
         found'[p] = found[p], descs'[p] = descs[p],
         mk[p].stage \in Returned => ret'[p] = ret[p]
  PROVE  PoolInv(mk2)'
<1>1. OneInitialiser' /\ \A n \in {BD, BB, HashTable} : ready'[n] = ready[n]
  BY DEF PoolInv, OneInitialiser
<1>2. CASE "BufMgrLock" \notin mk[p].locks
  <2>1. mk[p].stage \notin Pooling
    BY <1>2 DEF PoolInv
  <2>2. b.stage \in {"attached", "own"} => Ready(1, 1, 1)
    BY DEF PoolInv
  <2> QED BY <1>1, <1>2, <2>1, <2>2, PoolKeep
<1>3. CASE "BufMgrLock" \in mk[p].locks
  <2>1. mk[p].stage \in Pooling \cup {"dead"}
    BY <1>3 DEF PoolInv
  <2>2. Ready(1, 1, 1) => Ready(1, 1, 1)'
    BY DEF Ready
  <2>3. ASSUME b.stage \in Pooling PROVE PoolAt(p, b)'
    <3>1. PoolAt(p, mk[p])
      BY <2>3 DEF PoolInv
    <3>2. /\ \A x, y, z : Ready(x, y, z)' <=> Ready(x, y, z)
          /\ (PoolNone' <=> PoolNone) /\ (PoolDone' <=> PoolDone)
      BY DEF Ready, PoolNone, PoolDone
    <3> QED BY <3>1, <3>2 DEF PoolAt, Returned
  <2> QED BY <1>1, <1>3, <2>1, <2>2, <2>3, PoolMoves
<1> QED BY <1>2, <1>3

\* What the index has under the pids, when it stays and no Proc changes hands.
LEMMA PidKeep ==
  ASSUME NEW mk, PidInv(mk), NEW p \in Procs, NEW b, NEW mk2, Moved(mk, p, b, mk2),
         UNCHANGED <<MyProc, free_procs, crashed>>, Grows, OthersKeep(p),
         \A q \in Procs : /\ q \in DOMAIN index' <=> q \in DOMAIN index
                          /\ q \in DOMAIN index => index'[q] = index[q],
         b.stage = "leaving" <=> mk[p].stage = "leaving",
         b.reg = "ret" /\ b.size = BATCH_SIZE /\ ret'[p] = NULL => SegmentFull',
         /\ b.stage = "attached" /\ "ProcStructLock" \in b.locks
         /\ b.reg = "ret" /\ ret'[p] # NULL
         => \A q \in Procs \cap DOMAIN index : index[q].location # ret'[p],
         b.stage = "own" /\ b.work = "no" /\ b.name = "known" =>
           p \in DOMAIN index \/ SegmentFull'
  PROVE  PidInv(mk2)'
<1>1. \A q \in Procs : \/ q = p /\ mk2[q] = b
                       \/ q # p /\ mk2[q] = mk[q] /\ ret'[q] = ret[q]
  BY DEF Moved, OthersKeep
<1>2. (SegmentFull => SegmentFull') /\ \A x, s : Has(allocs, x, s) => Has(allocs', x, s)
  BY DEF Grows
<1>3. \A q \in Procs :
        mk2[q].reg = "ret" /\ mk2[q].size = BATCH_SIZE /\ ret'[q] = NULL => SegmentFull'
  BY <1>1, <1>2 DEF PidInv
<1>4. ASSUME NEW q \in Procs, mk2[q].stage = "attached", "ProcStructLock" \in mk2[q].locks,
             mk2[q].reg = "ret", ret'[q] # NULL, NEW r \in Procs \cap DOMAIN index'
      PROVE  index'[r].location # ret'[q]
  <2>1. r \in DOMAIN index /\ index'[r] = index[r]
    BY <1>4
  <2>2. CASE q = p
    BY <1>1, <1>4, <2>1, <2>2
  <2>3. CASE q # p
    BY <1>1, <1>4, <2>1, <2>3 DEF PidInv
  <2> QED BY <2>2, <2>3
<1>5. ASSUME NEW q \in Procs \cap DOMAIN index'
      PROVE  /\ Has(allocs', index'[q].location, PROC_SIZE)
             /\ mk2[q].stage # "leaving" /\ index'[q].location # MyProc'[q] =>
                  /\ q \in crashed'
                  /\ \A r \in Procs : MyProc'[r] # index'[q].location
                  /\ \A i \in DOMAIN free_procs' : free_procs'[i] # index'[q].location
  <2>1. q \in DOMAIN index /\ index'[q] = index[q]
    BY <1>5
  <2>2. mk2[q].stage # "leaving" => mk[q].stage # "leaving"
    BY <1>1
  <2> QED BY <1>2, <2>1, <2>2 DEF PidInv
<1>6. ASSUME NEW q \in Procs, mk2[q].stage = "own", mk2[q].work = "no", mk2[q].name = "known"
      PROVE  q \in DOMAIN index' \/ SegmentFull'
  <2>1. CASE q = p
    BY <1>1, <1>6, <2>1
  <2>2. CASE q # p
    BY <1>1, <1>2, <1>6, <2>2 DEF PidInv
  <2> QED BY <2>1, <2>2
<1> QED BY <1>3, <1>4, <1>5, <1>6 DEF PidInv

\* The Procs, when none changes hands.
LEMMA ProcsKeep ==
  ASSUME NEW mk, ProcInv(mk), NEW p \in Procs, NEW b, NEW mk2, Moved(mk, p, b, mk2),
         UNCHANGED <<MyProc, free_procs, crashed>>, Grows, OthersKeep(p),
         \A q \in Procs : /\ q \in DOMAIN index' <=> q \in DOMAIN index
                          /\ q \in DOMAIN index => index'[q] = index[q],
         b.stage = "own" <=> mk[p].stage = "own",
         b.stage = "leaving" <=> mk[p].stage = "leaving",
         /\ b.stage = "attached" /\ "ProcStructLock" \in b.locks
         /\ b.reg = "ret" /\ ret'[p] # NULL
         => /\ \A q \in Procs : MyProc[q] # ret'[p]
            /\ \A i \in DOMAIN free_procs : free_procs[i] # ret'[p]
            /\ \A q \in Procs \cap DOMAIN index : index[q].location # ret'[p],
         b.reg = "ret" /\ b.size = BATCH_SIZE /\ ret'[p] = NULL => SegmentFull',
         b.stage = "own" /\ b.work = "no" /\ b.name = "known" =>
           \/ mk[p].stage = "own" /\ mk[p].work = "no" /\ mk[p].name = "known"
           \/ p \in DOMAIN index \/ SegmentFull'
  PROVE  ProcInv(mk2)'
<1>1. ProcsDistinct'
  <2>1. ASSUME NEW x, Allocated(x, PROC_SIZE) PROVE Allocated(x, PROC_SIZE)'
    BY <2>1 DEF Grows, Allocated, Has
  <2>2. ProcsDistinct
    BY DEF ProcInv
  <2> QED BY <2>1, <2>2 DEF ProcsDistinct
<1>2. \A i \in DOMAIN free_procs' : Has(allocs', free_procs[i], PROC_SIZE)
  BY DEF ProcInv, Grows
<1>3. \A q \in Procs : MyProc'[q] # NULL <=> mk2[q].stage = "own"
  BY DEF ProcInv, Moved
<1>4. ASSUME NEW q \in Procs, mk2[q].stage = "attached", "ProcStructLock" \in mk2[q].locks,
             mk2[q].reg = "ret", ret'[q] # NULL
      PROVE  /\ \A r \in Procs : MyProc[r] # ret'[q]
             /\ \A i \in DOMAIN free_procs : free_procs[i] # ret'[q]
  <2>1. CASE q = p
    BY <1>4, <2>1 DEF Moved
  <2>2. CASE q # p
    <3>1. mk2[q] = mk[q] /\ ret'[q] = ret[q]
      BY <2>2 DEF Moved, OthersKeep
    <3> QED BY <1>4, <3>1 DEF ProcInv
  <2> QED BY <2>1, <2>2
<1>5. ASSUME NEW q \in Procs \ crashed, q \in DOMAIN index'
      PROVE  /\ mk2[q].stage \in {"own", "leaving"}
             /\ mk2[q].stage = "own" => index'[q].location = MyProc[q]
  <2>1. q \in DOMAIN index /\ index'[q] = index[q]
    BY <1>5
  <2>2. /\ mk[q].stage \in {"own", "leaving"}
        /\ mk[q].stage = "own" => index[q].location = MyProc[q]
    BY <2>1 DEF ProcInv
  <2> QED BY <2>1, <2>2 DEF Moved
<1>6. PidInv(mk2)'
  <2>1. PidInv(mk)
    BY DEF ProcInv
  <2>2. b.stage = "own" /\ b.work = "no" /\ b.name = "known" => p \in DOMAIN index \/ SegmentFull'
    BY <2>1 DEF PidInv, Grows
  <2> QED BY <2>1, <2>2, PidKeep
<1> QED BY <1>1, <1>2, <1>3, <1>4, <1>5, <1>6 DEF ProcInv

\* A process that goes on to its next instruction.
LEMMA Stepped ==
  ASSUME NEW mk, Fits(mk), RegTypes, NEW p \in Procs, todo[p] # <<>>, Step(p)
  PROVE  /\ \E d, mk2 : /\ Flow(p, Head(todo[p]), mk[p], d)
                        /\ Moved(mk, p, d, mk2) /\ Fits(mk2)'
         /\ todo' = [q \in Procs |-> todo'[q]]
         /\ \A q \in Procs \ {p} : todo'[q] = todo[q]
<1>1. PICK d : Flow(p, Head(todo[p]), mk[p], d) /\ Runs(p, Tail(todo[p]), d)
  BY RunsHead DEF Fits
<1>2. Runs(p, <<>> \o Tail(todo[p]), d)
  BY <1>1, TripleNone, RunsCall
<1>3. todo = [q \in Procs |-> todo[q]]
  BY DEF RegTypes
<1>4. todo' = [todo EXCEPT ![p] = <<>> \o Tail(todo[p])]
  BY <1>3 DEF Step, Call
<1> QED BY <1>1, <1>2, <1>3, <1>4, StepFits

\* A process that calls a routine before it goes on.
LEMMA Called ==
  ASSUME NEW mk, Fits(mk), RegTypes, NEW p \in Procs, todo[p] # <<>>, NEW ins, Call(p, ins), NEW b,
         \A d : Flow(p, Head(todo[p]), mk[p], d) => Triple(p, ins, b, d)
  PROVE  /\ \E mk2 : Moved(mk, p, b, mk2) /\ Fits(mk2)'
         /\ todo' = [q \in Procs |-> todo'[q]]
         /\ \A q \in Procs \ {p} : todo'[q] = todo[q]
<1>1. PICK d : Flow(p, Head(todo[p]), mk[p], d) /\ Runs(p, Tail(todo[p]), d)
  BY RunsHead DEF Fits
<1>2. Triple(p, ins, b, d)
  BY <1>1
<1>3. Runs(p, ins \o Tail(todo[p]), b)
  BY <1>1, <1>2, RunsCall
<1>4. todo = [q \in Procs |-> todo[q]]
  BY DEF RegTypes
<1>5. todo' = [todo EXCEPT ![p] = ins \o Tail(todo[p])]
  BY <1>4 DEF Call
<1> QED BY <1>3, <1>4, <1>5, StepFits

\* What a process at an instruction knows.
LEMMA HeadFlow ==
  ASSUME NEW mk, Fits(mk), NEW p \in Procs, todo[p] # <<>>
  PROVE  \E d : Flow(p, Head(todo[p]), mk[p], d)
BY RunsHead DEF Fits

\* A process that dies keeps its locks and changes nothing.
LEMMA Died ==
  ASSUME NEW mk, Fits(mk), StateInv(mk), NEW p \in Procs, todo[p] # <<>>, Dies(p),
         mk[p].work = "no", mk[p].stage \notin {"own", "leaving"},
         UNCHANGED <<shmemVars, lockVars, ret, found, top, tableVars, lives, crashed>>
  PROVE  StartupInv'
<1>1. Types /\ LockInv(mk) /\ MemInv(mk) /\ IndexInv(mk) /\ BootInv(mk) /\ PoolInv(mk) /\ ProcInv(mk)
  BY DEF StateInv
<1>2. /\ UNCHANGED <<total_size, free_offset, allocs, index, elements>>
      /\ UNCHANGED <<semval, held>> /\ UNCHANGED <<ret, found, top>>
      /\ UNCHANGED <<ready, free_procs, MyProc, descs, lives, crashed>>
  BY DEF shmemVars, lockVars, tableVars
<1>3. PICK b : b = Mark(mk[p].locks, "dead", "none", 0, "no", "none")
  OBVIOUS
<1>4. b.locks = mk[p].locks /\ b.stage = "dead" /\ b.reg = "none" /\ b.work = "no"
  BY <1>3 DEF Mark
<1>5. Runs(p, <<<<"dead", p>>>>, b)
  <2>1. Final(Resting)
    BY DEF Final, Resting, Mark
  <2>2. Flow(p, <<"dead", p>>, b, Resting)
    BY <1>4, <2>1 DEF Flow, FlowEnd
  <2> QED BY <2>1, <2>2, TripleOne DEF Runs
<1>6. todo = [q \in Procs |-> todo[q]] /\ todo' = [todo EXCEPT ![p] = <<<<"dead", p>>>>]
  BY <1>1 DEF Types, RegTypes, Dies
<1>7. /\ \E mk2 : Moved(mk, p, b, mk2) /\ Fits(mk2)'
      /\ todo' = [q \in Procs |-> todo'[q]]
      /\ \A q \in Procs \ {p} : todo'[q] = todo[q]
  BY <1>5, <1>6, StepFits
<1>8. PICK mk2 : Moved(mk, p, b, mk2) /\ Fits(mk2)'
  BY <1>7
<1>9. OthersKeep(p) /\ Grows
  BY <1>2 DEF OthersKeep, Grows, SegmentFull
<1>10. Types'
  BY <1>1, <1>2, <1>7 DEF Types, MemTypes, IndexTypes, LockTypes, RegTypes, TableTypes
<1>11. LockInv(mk2)'
  BY <1>1, <1>2, <1>4, <1>8, LocksKeep
<1>12. MemInv(mk2)'
  BY <1>1, <1>2, <1>4, <1>8, <1>9, MemKeep
<1>13. IndexInv(mk2)'
  BY <1>1, <1>2, <1>4, <1>8, <1>9, IndexKeep
<1>14. BootInv(mk2)'
  BY <1>1, <1>2, <1>4, <1>7, <1>8, <1>9, BootKeep DEF Booting
<1>15. PoolInv(mk2)'
  <2>1. OneInitialiser'
    BY <1>1, <1>2 DEF PoolInv, OneInitialiser
  <2>2. CASE "BufMgrLock" \in mk[p].locks
    BY <1>1, <1>2, <1>4, <1>8, <2>1, <2>2, PoolMoves DEF Ready, Pooling
  <2>3. CASE "BufMgrLock" \notin mk[p].locks
    BY <1>1, <1>2, <1>4, <1>8, <1>9, <2>1, <2>3, PoolKeep DEF Pooling
  <2> QED BY <2>2, <2>3
<1>16. ProcInv(mk2)'
  BY <1>1, <1>2, <1>4, <1>8, <1>9, ProcsKeep
<1> QED BY <1>8, <1>10, <1>11, <1>12, <1>13, <1>14, <1>15, <1>16 DEF StartupInv, StateInv

-----------------------------------------------------------------------------
(* The steps.                                                              *)

\* The parts of the invariant, in the order in which the proofs use them.
LEMMA Parts ==
  ASSUME NEW mk, StateInv(mk)
  PROVE  /\ Types /\ LockInv(mk) /\ MemInv(mk) /\ IndexInv(mk) /\ BootInv(mk) /\ PoolInv(mk)
         /\ ProcInv(mk) /\ RegTypes
BY DEF StateInv, Types

\* spin_acquire.
LEMMA AcquireStep ==
  ASSUME NEW mk, Fits(mk), StateInv(mk), NEW p \in Procs, spin_acquire(p),
         UNCHANGED <<tableVars, lives, crashed>>
  PROVE  StartupInv'
<1>1. /\ Types /\ LockInv(mk) /\ MemInv(mk) /\ IndexInv(mk) /\ BootInv(mk) /\ PoolInv(mk)
      /\ ProcInv(mk) /\ RegTypes
  BY Parts
<1>2. /\ UNCHANGED <<total_size, free_offset, allocs, index, elements>>
      /\ UNCHANGED <<ret, found, top>>
      /\ UNCHANGED <<ready, free_procs, MyProc, descs, lives, crashed>>
  BY DEF shmemVars, tableVars, spin_acquire
<1>3. PICK l : l = Arg(p)
  OBVIOUS
<1>4. /\ todo[p] # <<>> /\ Head(todo[p])[1] = "acquire" /\ Head(todo[p])[2] = l /\ Step(p)
      /\ semval[l] > 0 /\ semval' = [semval EXCEPT ![l] = @ - 1]
      /\ held' = [held EXCEPT ![p] = @ \cup {l}]
  BY <1>3 DEF spin_acquire, At, Arg
<1>5. /\ \E d, mk2 : Flow(p, Head(todo[p]), mk[p], d) /\ Moved(mk, p, d, mk2) /\ Fits(mk2)'
      /\ todo' = [q \in Procs |-> todo'[q]]
      /\ \A q \in Procs \ {p} : todo'[q] = todo[q]
  BY <1>1, <1>4, Stepped
<1>6. PICK d, mk2 : Flow(p, Head(todo[p]), mk[p], d) /\ Moved(mk, p, d, mk2) /\ Fits(mk2)'
  BY <1>5
<1>7. /\ l \in Locks /\ l \notin mk[p].locks
      /\ d.locks = mk[p].locks \cup {l} /\ d.reg = "none" /\ SameWork(mk[p], d)
      /\ IF l = "BufMgrLock" THEN mk[p].stage = "up" /\ d.stage = "pool1" /\ mk[p].work = "no"
         ELSE d.stage = mk[p].stage
  BY <1>4, <1>6, FlowParts DEF FlowLock
<1>8. OthersKeep(p) /\ Grows
  BY <1>2 DEF OthersKeep, Grows, SegmentFull
<1>9. semval \in [Locks -> Nat] /\ held \in [Procs -> SUBSET Locks]
  BY <1>1 DEF Types, LockTypes
<1>10. semval[l] = 1 /\ \A q \in Procs : l \notin mk[q].locks
  BY <1>1, <1>4, <1>7 DEF LockInv
<1>11. semval'[l] = 0 /\ \A k \in Locks \ {l} : semval'[k] = semval[k]
  BY <1>4, <1>7, <1>9, <1>10
<1>12. Types'
  <2>1. LockTypes'
    <3>1. semval' \in [Locks -> Nat]
      BY <1>4, <1>9, <1>10, <1>7
    <3>2. held' \in [Procs -> SUBSET Locks]
      BY <1>4, <1>7, <1>9
    <3> QED BY <3>1, <3>2 DEF LockTypes
  <2> QED BY <1>1, <1>2, <1>5, <2>1 DEF Types, MemTypes, IndexTypes, RegTypes, TableTypes
<1>13. LockInv(mk2)'
  <2>1. \A q \in Procs : held'[q] = mk2[q].locks
    <3>1. held'[p] = mk[p].locks \cup {l} /\ \A q \in Procs \ {p} : held'[q] = mk[q].locks
      BY <1>1, <1>4, <1>9 DEF LockInv
    <3> QED BY <1>6, <1>7, <3>1 DEF Moved
  <2>2. ASSUME NEW k \in Locks
        PROVE  /\ semval'[k] \in {0, 1}
               /\ semval'[k] = 1 <=> \A q \in Procs : k \notin mk2[q].locks
               /\ \A q, r \in Procs : k \in mk2[q].locks /\ k \in mk2[r].locks => q = r
    <3>1. CASE k = l
      BY <1>6, <1>7, <1>10, <1>11, <3>1 DEF Moved
    <3>2. CASE k # l
      <4>1. \A q \in Procs : k \in mk2[q].locks <=> k \in mk[q].locks
        BY <1>6, <1>7, <3>2 DEF Moved
      <4> QED BY <1>1, <1>11, <3>2, <4>1 DEF LockInv
    <3> QED BY <3>1, <3>2
  <2> QED BY <2>1, <2>2 DEF LockInv
<1>14. MemInv(mk2)'
  BY <1>1, <1>2, <1>6, <1>7, <1>8, MemKeep
<1>15. IndexInv(mk2)'
  BY <1>1, <1>2, <1>6, <1>7, <1>8, IndexKeep DEF SameWork
<1>16. BootInv(mk2)'
  <2>1. d.stage \in Booting \cup {"idle", "own", "leaving"} => d.stage = mk[p].stage
    BY <1>7 DEF Booting
  <2> QED BY <1>1, <1>2, <1>4, <1>5, <1>6, <1>8, <2>1, BootKeep
<1>17. PoolInv(mk2)'
  <2>1. CASE l = "BufMgrLock"
    <3>1. OneInitialiser'
      BY <1>1, <1>2 DEF PoolInv, OneInitialiser
    <3>2. \A q \in Procs : \/ q = p /\ mk2[q] = d
                           \/ q # p /\ mk2[q] = mk[q] /\ mk[q].stage \notin Pooling
                              /\ "BufMgrLock" \notin mk[q].locks
      BY <1>1, <1>6, <1>10, <2>1 DEF Moved, PoolInv
    <3>3. /\ \A x, y, z : Ready(x, y, z)' <=> Ready(x, y, z)
          /\ (PoolNone' <=> PoolNone) /\ (PoolDone' <=> PoolDone)
      BY <1>2 DEF Ready, PoolNone, PoolDone
    <3>4. PoolNone \/ PoolDone
      BY <1>1, <1>10, <2>1 DEF PoolInv
    <3>5. PoolAt(p, d)' /\ d.stage \in Pooling /\ "BufMgrLock" \in d.locks
          /\ d.stage \notin {"attached", "own"}
      BY <1>7, <2>1, <3>3, <3>4 DEF PoolAt, SameWork, Pooling
    <3>6. /\ \A q \in Procs : mk2[q].stage \in Pooling => q = p
          /\ \A q \in Procs : "BufMgrLock" \in mk2[q].locks => q = p
          /\ mk2[p] = d
      BY <3>2
    <3>7. \A q \in Procs : mk2[q].stage \in {"attached", "own"} => Ready(1, 1, 1)'
      BY <1>1, <3>2, <3>3, <3>5 DEF PoolInv
    <3> QED BY <3>1, <3>5, <3>6, <3>7 DEF PoolInv
  <2>2. CASE l # "BufMgrLock"
    BY <1>1, <1>2, <1>6, <1>7, <1>8, <2>2, PoolSame DEF SameWork
  <2> QED BY <2>1, <2>2
<1>18. ProcInv(mk2)'
  <2>1. CASE l = "BufMgrLock"
    BY <1>1, <1>2, <1>6, <1>7, <1>8, <2>1, ProcsKeep
  <2>2. CASE l # "BufMgrLock"
    BY <1>1, <1>2, <1>6, <1>7, <1>8, <2>2, ProcsKeep DEF SameWork
  <2> QED BY <2>1, <2>2
<1> QED BY <1>6, <1>12, <1>13, <1>14, <1>15, <1>16, <1>17, <1>18 DEF StartupInv, StateInv

\* spin_release: a process gives up a lock it holds, so it never dies of it.
LEMMA ReleaseStep ==
  ASSUME NEW mk, Fits(mk), StateInv(mk), NEW p \in Procs, spin_release(p),
         UNCHANGED <<tableVars, lives, crashed>>
  PROVE  StartupInv'
<1>1. /\ Types /\ LockInv(mk) /\ MemInv(mk) /\ IndexInv(mk) /\ BootInv(mk) /\ PoolInv(mk)
      /\ ProcInv(mk) /\ RegTypes
  BY Parts
<1>2. /\ UNCHANGED <<total_size, free_offset, allocs, index, elements>>
      /\ UNCHANGED <<ret, found, top>>
      /\ UNCHANGED <<ready, free_procs, MyProc, descs, lives, crashed>>
  BY DEF shmemVars, tableVars, spin_release
<1>3. PICK l : l = Arg(p)
  OBVIOUS
<1>4. todo[p] # <<>> /\ Head(todo[p])[1] = "release" /\ Head(todo[p])[2] = l
  BY <1>3 DEF spin_release, At, Arg
<1>5. semval \in [Locks -> Nat] /\ held \in [Procs -> SUBSET Locks]
  BY <1>1 DEF Types, LockTypes
<1>6. l \in mk[p].locks /\ l \in Locks
  <2>1. PICK d : Flow(p, Head(todo[p]), mk[p], d)
    BY <1>4, HeadFlow
  <2>2. l \in mk[p].locks
    BY <1>4, <2>1, FlowParts DEF FlowLock
  <2> QED BY <1>1, <1>5, <2>2 DEF LockInv
<1>7. semval[l] = 0 /\ \A q \in Procs \ {p} : l \notin mk[q].locks
  BY <1>1, <1>6 DEF LockInv
<1>8. /\ semval' = [semval EXCEPT ![l] = @ + 1] /\ held' = [held EXCEPT ![p] = @ \ {l}]
      /\ Step(p)
  BY <1>3, <1>7 DEF spin_release, spin_is_locked, IPC_SEMAPHORE_DEFAULT_START_VALUE
<1>9. /\ \E d, mk2 : Flow(p, Head(todo[p]), mk[p], d) /\ Moved(mk, p, d, mk2) /\ Fits(mk2)'
      /\ todo' = [q \in Procs |-> todo'[q]]
      /\ \A q \in Procs \ {p} : todo'[q] = todo[q]
  BY <1>1, <1>4, <1>8, Stepped
<1>10. PICK d, mk2 : Flow(p, Head(todo[p]), mk[p], d) /\ Moved(mk, p, d, mk2) /\ Fits(mk2)'
  BY <1>9
<1>11. /\ d.locks = mk[p].locks \ {l} /\ d.reg = mk[p].reg /\ d.size = mk[p].size
       /\ SameWork(mk[p], d) /\ mk[p].reg # "top"
       /\ l = "ShmemIndexLock" => mk[p].work = "no"
       /\ IF l = "BufMgrLock" THEN mk[p].stage = "pool8" /\ d.stage = "attached" /\ mk[p].reg = "none"
          ELSE d.stage = mk[p].stage
  BY <1>4, <1>10, FlowParts DEF FlowLock
<1>12. OthersKeep(p) /\ Grows
  BY <1>2 DEF OthersKeep, Grows, SegmentFull
<1>13. semval'[l] = 1 /\ \A k \in Locks \ {l} : semval'[k] = semval[k]
  BY <1>5, <1>6, <1>7, <1>8
<1>14. Types'
  <2>1. LockTypes'
    <3>1. semval' \in [Locks -> Nat]
      BY <1>5, <1>6, <1>7, <1>8
    <3>2. held' \in [Procs -> SUBSET Locks]
      BY <1>5, <1>8
    <3> QED BY <3>1, <3>2 DEF LockTypes
  <2> QED BY <1>1, <1>2, <1>9, <2>1 DEF Types, MemTypes, IndexTypes, RegTypes, TableTypes
<1>15. LockInv(mk2)'
  <2>1. \A q \in Procs : held'[q] = mk2[q].locks
    <3>1. held'[p] = mk[p].locks \ {l} /\ \A q \in Procs \ {p} : held'[q] = mk[q].locks
      BY <1>1, <1>5, <1>8 DEF LockInv
    <3> QED BY <1>10, <1>11, <3>1 DEF Moved
  <2>2. ASSUME NEW k \in Locks
        PROVE  /\ semval'[k] \in {0, 1}
               /\ semval'[k] = 1 <=> \A q \in Procs : k \notin mk2[q].locks
               /\ \A q, r \in Procs : k \in mk2[q].locks /\ k \in mk2[r].locks => q = r
    <3>1. CASE k = l
      BY <1>7, <1>10, <1>11, <1>13, <3>1 DEF Moved
    <3>2. CASE k # l
      <4>1. \A q \in Procs : k \in mk2[q].locks <=> k \in mk[q].locks
        BY <1>10, <1>11, <3>2 DEF Moved
      <4> QED BY <1>1, <1>13, <3>2, <4>1 DEF LockInv
    <3> QED BY <3>1, <3>2
  <2> QED BY <2>1, <2>2 DEF LockInv
<1>16. MemInv(mk2)'
  <2>1. mk[p].reg = "null" => ret'[p] = NULL
    BY <1>1, <1>2 DEF MemInv
  <2>2. mk[p].reg = "ret" => ret'[p] = NULL \/ Has(allocs, ret'[p], d.size)
    BY <1>1, <1>2, <1>11 DEF MemInv
  <2> QED BY <1>1, <1>2, <1>10, <1>11, <1>12, <2>1, <2>2, MemKeep
<1>17. IndexInv(mk2)'
  BY <1>1, <1>2, <1>10, <1>11, <1>12, IndexKeep DEF SameWork
<1>18. BootInv(mk2)'
  <2>1. d.stage \in Booting \cup {"idle", "own", "leaving"} => d.stage = mk[p].stage
    BY <1>11 DEF Booting
  <2> QED BY <1>1, <1>2, <1>4, <1>9, <1>10, <1>12, <2>1, BootKeep
<1>19. PoolInv(mk2)'
  <2>1. CASE l = "BufMgrLock"
    <3>1. OneInitialiser'
      BY <1>1, <1>2 DEF PoolInv, OneInitialiser
    <3>2. \A q \in Procs : \/ q = p /\ mk2[q] = d
                           \/ q # p /\ mk2[q] = mk[q] /\ mk[q].stage \notin Pooling
                              /\ "BufMgrLock" \notin mk[q].locks
      BY <1>1, <1>7, <1>10, <2>1 DEF Moved, PoolInv
    <3>3. PoolDone
      <4>1. mk[p].stage = "pool8" /\ "pool8" \in Pooling
        BY <1>11, <2>1 DEF Pooling
      <4>2. PoolAt(p, mk[p])
        BY <1>1, <4>1 DEF PoolInv
      <4> QED BY <4>1, <4>2 DEF PoolAt
    <3>4. PoolDone' /\ Ready(1, 1, 1)'
      BY <1>2, <3>3 DEF Ready, PoolDone
    <3>5. d.stage \notin Pooling /\ "BufMgrLock" \notin d.locks
      BY <1>11, <2>1 DEF Pooling
    <3>6. \A q \in Procs : mk2[q].stage \notin Pooling /\ "BufMgrLock" \notin mk2[q].locks
      BY <3>2, <3>5
    <3> QED BY <3>1, <3>4, <3>6 DEF PoolInv
  <2>2. CASE l # "BufMgrLock"
    BY <1>1, <1>2, <1>10, <1>11, <1>12, <2>2, PoolSame DEF SameWork
  <2> QED BY <2>1, <2>2
<1>20. ProcInv(mk2)'
  <2>1. /\ d.stage = "own" <=> mk[p].stage = "own"
        /\ d.stage = "leaving" <=> mk[p].stage = "leaving"
    BY <1>11
  <2>2. ASSUME d.stage = "attached", "ProcStructLock" \in d.locks, d.reg = "ret", ret'[p] # NULL
        PROVE  /\ \A q \in Procs : MyProc[q] # ret'[p]
               /\ \A i \in DOMAIN free_procs : free_procs[i] # ret'[p]
               /\ \A q \in Procs \cap DOMAIN index : index[q].location # ret'[p]
    <3>1. mk[p].stage = "attached" /\ "ProcStructLock" \in mk[p].locks /\ mk[p].reg = "ret"
      BY <1>11, <2>2
    <3> QED BY <1>1, <1>2, <2>2, <3>1 DEF ProcInv, PidInv
  <2>3. SegmentFull' <=> SegmentFull
    BY <1>2 DEF SegmentFull
  <2>4. d.reg = "ret" /\ d.size = BATCH_SIZE /\ ret'[p] = NULL => SegmentFull'
    BY <1>1, <1>2, <1>11, <2>3 DEF ProcInv, PidInv
  <2>5. d.stage = "own" /\ d.work = "no" /\ d.name = "known" =>
          mk[p].stage = "own" /\ mk[p].work = "no" /\ mk[p].name = "known"
    BY <1>11 DEF SameWork
  <2> QED BY <1>1, <1>2, <1>10, <1>12, <2>1, <2>2, <2>4, <2>5, ProcsKeep
<1> QED BY <1>10, <1>14, <1>15, <1>16, <1>17, <1>18, <1>19, <1>20 DEF StartupInv, StateInv

\* shmem_alloc reads the end of the memory that is in use.
LEMMA NewFreeStep ==
  ASSUME NEW mk, Fits(mk), StateInv(mk), NEW p \in Procs, NewFree(p),
         UNCHANGED <<tableVars, lives, crashed>>
  PROVE  StartupInv'
<1>1. /\ Types /\ LockInv(mk) /\ MemInv(mk) /\ IndexInv(mk) /\ BootInv(mk) /\ PoolInv(mk)
      /\ ProcInv(mk) /\ RegTypes
  BY Parts
<1>2. /\ UNCHANGED <<total_size, free_offset, allocs, index, elements>>
      /\ UNCHANGED lockVars /\ UNCHANGED <<semval, held, ret, found>>
      /\ UNCHANGED <<ready, free_procs, MyProc, descs, lives, crashed>>
  BY DEF shmemVars, lockVars, tableVars, NewFree
<1>3. PICK n : n = Arg(p)
  OBVIOUS
<1>4. /\ todo[p] # <<>> /\ Head(todo[p])[1] = "new_free" /\ Head(todo[p])[2] = n /\ Step(p)
      /\ top' = [top EXCEPT ![p] = free_offset + n]
  BY <1>3 DEF NewFree, At, Arg
<1>5. /\ \E d, mk2 : Flow(p, Head(todo[p]), mk[p], d) /\ Moved(mk, p, d, mk2) /\ Fits(mk2)'
      /\ todo' = [q \in Procs |-> todo'[q]]
      /\ \A q \in Procs \ {p} : todo'[q] = todo[q]
  BY <1>1, <1>4, Stepped
<1>6. PICK d, mk2 : Flow(p, Head(todo[p]), mk[p], d) /\ Moved(mk, p, d, mk2) /\ Fits(mk2)'
  BY <1>5
<1>7. /\ n \in Nat \ {0} /\ "ShmemLock" \in mk[p].locks /\ d.reg = "top" /\ d.size = n
      /\ d.locks = mk[p].locks /\ d.stage = mk[p].stage /\ SameWork(mk[p], d)
  BY <1>4, <1>6, FlowParts DEF FlowAlloc
<1>8. top \in [Procs -> Nat] /\ free_offset \in Nat
  BY <1>1, ShmemAssumption DEF Types, RegTypes, MemTypes
<1>9. top'[p] = free_offset + n /\ \A q \in Procs \ {p} : top'[q] = top[q]
  BY <1>4, <1>8
<1>10. OthersKeep(p) /\ Grows
  BY <1>2, <1>9 DEF OthersKeep, Grows, SegmentFull
<1>11. Types'
  <2>1. top' \in [Procs -> Nat]
    BY <1>4, <1>7, <1>8
  <2> QED BY <1>1, <1>2, <1>5, <2>1 DEF Types, MemTypes, IndexTypes, LockTypes, RegTypes, TableTypes
<1>12. LockInv(mk2)'
  BY <1>1, <1>2, <1>6, <1>7, LocksKeep
<1>13. MemInv(mk2)'
  <2>1. AllocsDisjoint'
    BY <1>1, <1>2 DEF MemInv, AllocsDisjoint
  <2>2. ASSUME NEW q \in Procs
        PROVE  /\ mk2[q].reg = "top" => /\ "ShmemLock" \in mk2[q].locks
                                        /\ mk2[q].size \in Nat \ {0}
                                        /\ top'[q] = free_offset' + mk2[q].size
               /\ mk2[q].reg = "ret" => ret'[q] = NULL \/ Has(allocs', ret'[q], mk2[q].size)
               /\ mk2[q].reg = "null" => ret'[q] = NULL
    <3>1. CASE q = p
      <4>1. mk2[q] = d
        BY <1>6, <3>1 DEF Moved
      <4> QED BY <1>2, <1>7, <1>9, <3>1, <4>1
    <3>2. CASE q # p
      <4>1. mk2[q] = mk[q] /\ ret'[q] = ret[q] /\ top'[q] = top[q]
        BY <1>2, <1>6, <1>9, <3>2 DEF Moved
      <4> QED BY <1>1, <1>2, <4>1 DEF MemInv
    <3> QED BY <3>1, <3>2
  <2> QED BY <2>1, <2>2 DEF MemInv
<1>14. IndexInv(mk2)'
  BY <1>1, <1>2, <1>6, <1>7, <1>10, IndexKeep DEF SameWork
<1>15. BootInv(mk2)'
  BY <1>1, <1>2, <1>4, <1>5, <1>6, <1>7, <1>10, BootKeep
<1>16. PoolInv(mk2)'
  BY <1>1, <1>2, <1>6, <1>7, <1>10, PoolSame DEF SameWork
<1>17. ProcInv(mk2)'
  BY <1>1, <1>2, <1>6, <1>7, <1>10, ProcsKeep DEF SameWork
<1> QED BY <1>6, <1>11, <1>12, <1>13, <1>14, <1>15, <1>16, <1>17 DEF StartupInv, StateInv

\* A chunk of n bytes behind all others.
LEMMA ChunkAdded ==
  ASSUME MemTypes, AllocsDisjoint, NEW n \in Nat \ {0}, free_offset + n <= total_size,
         total_size' = total_size, free_offset' = free_offset + n,
         allocs' = Append(allocs, <<free_offset, n>>)
  PROVE  /\ MemTypes' /\ AllocsDisjoint' /\ Grows /\ Has(allocs', free_offset, n)
<1>1. /\ total_size \in Nat /\ free_offset \in Nat /\ SEG_HEADER \in Nat
      /\ SEG_HEADER <= free_offset /\ free_offset <= total_size
      /\ allocs \in Seq((0..total_size) \X (1..total_size))
  BY ShmemAssumption DEF MemTypes
<1>2. <<free_offset, n>> \in (0..total_size) \X (1..total_size)
  BY <1>1
<1>3. allocs' \in Seq((0..total_size) \X (1..total_size))
  BY <1>1, <1>2
<1>4. PICK k \in Nat : k = Len(allocs)
  BY <1>1
<1>5. /\ Len(allocs') = k + 1 /\ DOMAIN allocs' = 1..(k + 1) /\ DOMAIN allocs = 1..k
      /\ allocs'[k + 1] = <<free_offset, n>>
      /\ \A i \in 1..k : allocs'[i] = allocs[i]
  BY <1>1, <1>2, <1>4
<1>6. MemTypes'
  BY <1>1, <1>3 DEF MemTypes
<1>7. \A i \in 1..k : /\ allocs[i] \in (0..total_size) \X (1..total_size)
                      /\ allocs[i][1] \in Nat /\ allocs[i][2] \in Nat
  BY <1>1, <1>4
<1>8. AllocsDisjoint'
  <2>1. ASSUME NEW i \in 1..(k + 1)
        PROVE  allocs'[i][1] >= SEG_HEADER /\ allocs'[i][1] + allocs'[i][2] <= free_offset'
    <3>1. CASE i \in 1..k
      <4>1. allocs[i][1] >= SEG_HEADER /\ allocs[i][1] + allocs[i][2] <= free_offset
        BY <1>5, <3>1 DEF AllocsDisjoint
      <4> QED BY <1>1, <1>5, <1>7, <3>1, <4>1, SMTT(60)
    <3>2. CASE i = k + 1
      BY <1>1, <1>5, <3>2
    <3> QED BY <1>4, <3>1, <3>2
  <2>2. ASSUME NEW i \in 1..(k + 1), NEW j \in 1..(k + 1), i < j
        PROVE  allocs'[i][1] + allocs'[i][2] <= allocs'[j][1]
    <3>1. i \in 1..k
      BY <2>2
    <3>2. CASE j \in 1..k
      BY <1>5, <2>2, <3>1, <3>2 DEF AllocsDisjoint
    <3>3. CASE j = k + 1
      BY <1>5, <3>1, <3>3 DEF AllocsDisjoint
    <3> QED BY <1>4, <3>2, <3>3
  <2> QED BY <1>1, <1>5, <2>1, <2>2 DEF AllocsDisjoint
<1>9. Grows
  <2>1. \A x, s : Has(allocs, x, s) => Has(allocs', x, s)
    BY <1>5 DEF Has
  <2>2. SegmentFull => SegmentFull'
    <3>1. BATCH_SIZE \in Nat
      BY ShmemAssumption
    <3> QED BY <1>1, <3>1 DEF SegmentFull
  <2> QED BY <2>1, <2>2 DEF Grows
<1>10. Has(allocs', free_offset, n)
  BY <1>5 DEF Has
<1> QED BY <1>6, <1>8, <1>9, <1>10

\* Everybody else has no program while the postmaster boots.
LEMMA BootAlone ==
  ASSUME NEW mk, Fits(mk), BootInv(mk), NEW p \in Procs, mk[p].stage \in Booting
  PROVE  p = Postmaster /\ \A q \in Procs \ {p} : todo[q] = <<>> /\ Final(mk[q])
<1>1. p = Postmaster /\ ready["Proc Header"] = 0
  BY DEF BootInv
<1>2. \A q \in Procs \ {p} : todo[q] = <<>>
  BY <1>1 DEF BootInv
<1>3. \A q \in Procs : Runs(q, todo[q], mk[q])
  BY DEF Fits
<1> QED BY <1>1, <1>2, <1>3, RunsNone

\* A Proc that has an owner or is free lies below the free memory.
LEMMA ProcsBelow ==
  ASSUME NEW mk, MemTypes, TableTypes, AllocsDisjoint, ProcInv(mk)
  PROVE  /\ \A q \in Procs : MyProc[q] # free_offset
         /\ \A i \in DOMAIN free_procs : free_procs[i] # free_offset
         /\ \A q \in Procs : MyProc[q] # NULL => MyProc[q] \in 1..total_size
         /\ \A q \in Procs \cap DOMAIN index : index[q].location # free_offset
<1>1. /\ total_size \in Nat /\ free_offset \in Nat /\ SEG_HEADER \in Nat \ {0}
      /\ SEG_HEADER <= free_offset /\ free_offset <= total_size
      /\ allocs \in Seq((0..total_size) \X (1..total_size))
  BY ShmemAssumption DEF MemTypes
<1>a. PROC_SIZE \in Nat \ {0}
  BY StartupAssumption
<1>2. ASSUME NEW x, Has(allocs, x, PROC_SIZE)
      PROVE  x \in 1..total_size /\ x # free_offset
  <2>1. PICK i \in DOMAIN allocs : allocs[i] = <<x, PROC_SIZE>>
    BY <1>2 DEF Has
  <2>2. allocs[i] \in (0..total_size) \X (1..total_size)
    BY <1>1, <2>1
  <2>3. x \in 0..total_size /\ allocs[i][1] = x /\ allocs[i][2] = PROC_SIZE
    BY <2>1, <2>2
  <2>4. x >= SEG_HEADER /\ x + PROC_SIZE <= free_offset
    BY <2>1, <2>3 DEF AllocsDisjoint
  <2> QED BY <1>1, <1>a, <2>3, <2>4
<1>3. ASSUME NEW q \in Procs, MyProc[q] # NULL
      PROVE  MyProc[q] \in 1..total_size /\ MyProc[q] # free_offset
  <2>1. Has(allocs, MyProc[q], PROC_SIZE)
    BY <1>3 DEF ProcInv, ProcsDistinct, Allocated, Has
  <2> QED BY <1>2, <2>1
<1>4. NULL # free_offset
  BY <1>1 DEF NULL
<1>5. \A i \in DOMAIN free_procs : free_procs[i] # free_offset
  BY <1>2 DEF ProcInv
<1>6. \A q \in Procs \cap DOMAIN index : index[q].location # free_offset
  BY <1>2 DEF ProcInv, PidInv
<1> QED BY <1>3, <1>4, <1>5, <1>6

\* shmem_alloc takes the chunk, or returns null.
LEMMA CarveStep ==
  ASSUME NEW mk, Fits(mk), StateInv(mk), NEW p \in Procs, Carve(p),
         UNCHANGED <<tableVars, lives, crashed>>
  PROVE  StartupInv'
<1>1. /\ Types /\ LockInv(mk) /\ MemInv(mk) /\ IndexInv(mk) /\ BootInv(mk) /\ PoolInv(mk)
      /\ ProcInv(mk) /\ RegTypes
  BY Parts
<1>2. /\ UNCHANGED <<total_size, index, elements>>
      /\ UNCHANGED lockVars /\ UNCHANGED <<semval, held, found, top>>
      /\ UNCHANGED <<ready, free_procs, MyProc, descs, lives, crashed>>
  BY DEF lockVars, tableVars, Carve
<1>3. PICK n : n = Arg(p)
  OBVIOUS
<1>4. todo[p] # <<>> /\ Head(todo[p])[1] = "carve" /\ Head(todo[p])[2] = n /\ Step(p)
  BY <1>3 DEF Carve, At, Arg
<1>5. /\ \E d, mk2 : Flow(p, Head(todo[p]), mk[p], d) /\ Moved(mk, p, d, mk2) /\ Fits(mk2)'
      /\ todo' = [q \in Procs |-> todo'[q]]
      /\ \A q \in Procs \ {p} : todo'[q] = todo[q]
  BY <1>1, <1>4, Stepped
<1>6. PICK d, mk2 : Flow(p, Head(todo[p]), mk[p], d) /\ Moved(mk, p, d, mk2) /\ Fits(mk2)'
  BY <1>5
<1>7. /\ mk[p].reg = "top" /\ mk[p].size = n /\ d.reg = "ret" /\ d.size = n
      /\ d.locks = mk[p].locks /\ SameWork(mk[p], d) /\ mk[p].stage \notin Returned
      /\ IF mk[p].stage = "boot" THEN d.stage = "boot1" /\ n = SizeOf["ShmemIndex"]
         ELSE d.stage = mk[p].stage
  BY <1>4, <1>6, FlowParts DEF FlowAlloc
<1>8. "ShmemLock" \in mk[p].locks /\ n \in Nat \ {0} /\ top[p] = free_offset + n
  BY <1>1, <1>7 DEF MemInv
<1>9. /\ ret \in [Procs -> Nat] /\ free_offset \in Nat /\ free_offset > 0 /\ MemTypes
      /\ AllocsDisjoint /\ TableTypes /\ total_size \in Nat
  BY <1>1, ShmemAssumption DEF Types, RegTypes, MemTypes, MemInv
<1>10. \/ /\ free_offset + n <= total_size /\ ret' = [ret EXCEPT ![p] = free_offset]
          /\ free_offset' = free_offset + n /\ allocs' = Append(allocs, <<free_offset, n>>)
       \/ /\ free_offset + n > total_size /\ ret' = [ret EXCEPT ![p] = NULL]
          /\ free_offset' = free_offset /\ allocs' = allocs
  <2>1. top[p] - n = free_offset
    BY <1>8, <1>9
  <2> QED BY <1>3, <1>8, <1>9, <2>1 DEF Carve, Return
<1>11. /\ MemTypes' /\ AllocsDisjoint' /\ Grows
       /\ ret'[p] = NULL \/ Has(allocs', ret'[p], n)
       /\ ret'[p] # NULL => ret'[p] = free_offset /\ Has(allocs', free_offset, n)
       /\ ret'[p] = NULL /\ n = BATCH_SIZE => SegmentFull'
       /\ \A q \in Procs \ {p} : ret'[q] = ret[q]
       /\ ret' \in [Procs -> Nat]
  <2>1. CASE /\ free_offset + n <= total_size /\ ret' = [ret EXCEPT ![p] = free_offset]
             /\ free_offset' = free_offset + n /\ allocs' = Append(allocs, <<free_offset, n>>)
    <3>1. /\ MemTypes' /\ AllocsDisjoint' /\ Grows /\ Has(allocs', free_offset, n)
      BY <1>2, <1>8, <1>9, <2>1, ChunkAdded
    <3>2. ret'[p] = free_offset /\ \A q \in Procs \ {p} : ret'[q] = ret[q]
      BY <1>9, <2>1
    <3>3. ret' \in [Procs -> Nat]
      BY <1>9, <2>1
    <3>4. free_offset # NULL
      BY <1>9 DEF NULL
    <3> QED BY <3>1, <3>2, <3>3, <3>4
  <2>2. CASE /\ free_offset + n > total_size /\ ret' = [ret EXCEPT ![p] = NULL]
             /\ free_offset' = free_offset /\ allocs' = allocs
    <3>1. MemTypes' /\ AllocsDisjoint' /\ Grows
      BY <1>2, <1>9, <2>2 DEF MemTypes, AllocsDisjoint, Grows, SegmentFull
    <3>2. ret'[p] = NULL /\ \A q \in Procs \ {p} : ret'[q] = ret[q]
      BY <1>9, <2>2
    <3>3. ret' \in [Procs -> Nat]
      BY <1>9, <2>2 DEF NULL
    <3>4. n = BATCH_SIZE => SegmentFull'
      BY <1>2, <2>2 DEF SegmentFull
    <3> QED BY <3>1, <3>2, <3>3, <3>4
  <2> QED BY <1>10, <2>1, <2>2
<1>12. OthersKeep(p)
  BY <1>2, <1>11 DEF OthersKeep
<1>13. Types'
  BY <1>1, <1>2, <1>5, <1>11 DEF Types, IndexTypes, LockTypes, RegTypes, TableTypes
<1>14. LockInv(mk2)'
  BY <1>1, <1>2, <1>6, <1>7, LocksKeep
<1>15. MemInv(mk2)'
  <2>1. ASSUME NEW q \in Procs
        PROVE  /\ mk2[q].reg # "top"
               /\ mk2[q].reg = "ret" => ret'[q] = NULL \/ Has(allocs', ret'[q], mk2[q].size)
               /\ mk2[q].reg = "null" => ret'[q] = NULL
    <3>1. CASE q = p
      <4>1. mk2[q] = d
        BY <1>6, <3>1 DEF Moved
      <4> QED BY <1>7, <1>11, <3>1, <4>1
    <3>2. CASE q # p
      <4>1. mk2[q] = mk[q] /\ ret'[q] = ret[q]
        BY <1>6, <1>11, <3>2 DEF Moved
      <4>2. "ShmemLock" \notin mk[q].locks
        BY <1>1, <1>8, <3>2 DEF LockInv, Locks
      <4>3. mk[q].reg # "top"
        BY <1>1, <4>2 DEF MemInv
      <4> QED BY <1>1, <1>11, <4>1, <4>3 DEF MemInv, Grows
    <3> QED BY <3>1, <3>2
  <2> QED BY <1>11, <2>1 DEF MemInv
<1>16. IndexInv(mk2)'
  BY <1>1, <1>2, <1>6, <1>7, <1>11, <1>12, IndexKeep DEF SameWork
<1>17. BootInv(mk2)'
  <2>1. ready'["Proc Header"] = ready["Proc Header"] /\ Postmaster \in Procs
    BY <1>2, StartupAssumption
  <2>2. mk[Postmaster].stage \notin {"own", "leaving", "idle"}
    BY <1>1, <1>4, <2>1 DEF BootInv
  <2>3. mk2[Postmaster].stage \notin {"own", "leaving", "idle"}
    BY <1>6, <1>7, <2>1, <2>2 DEF Moved
  <2>4. ready'["Proc Header"] = 0 => \A q \in Procs \ {Postmaster} : todo'[q] = <<>>
    BY <1>1, <1>4, <1>5, <2>1 DEF BootInv
  <2>5. ASSUME NEW q \in Procs
        PROVE  /\ mk2[q].stage \in Booting => q = Postmaster /\ ready'["Proc Header"] = 0
               /\ mk2[q].stage = "boot" => allocs' = <<>> /\ free_offset' = SEG_HEADER
               /\ mk2[q].stage = "boot1" =>
                    ret'[q] = NULL \/ Has(allocs', SEG_HEADER, SizeOf["ShmemIndex"])
               /\ mk2[q].stage = "boot2" => Has(allocs', SEG_HEADER, SizeOf["ShmemIndex"])
    <3>1. CASE q = p
      <4>1. mk2[q] = d
        BY <1>6, <3>1 DEF Moved
      <4>2. CASE mk[p].stage = "boot"
        <5>1. d.stage = "boot1" /\ n = SizeOf["ShmemIndex"] /\ free_offset = SEG_HEADER
              /\ p = Postmaster /\ ready["Proc Header"] = 0
          BY <1>1, <1>7, <4>2 DEF BootInv, Booting
        <5> QED BY <1>11, <2>1, <3>1, <4>1, <5>1
      <4>3. CASE mk[p].stage # "boot"
        <5>1. d.stage = mk[p].stage /\ d.stage # "boot1"
          BY <1>7, <4>3 DEF Returned
        <5> QED BY <1>1, <1>11, <2>1, <3>1, <4>1, <4>3, <5>1 DEF BootInv, Grows
      <4> QED BY <4>2, <4>3
    <3>2. CASE q # p
      <4>1. mk2[q] = mk[q]
        BY <1>6, <3>2 DEF Moved
      <4>2. mk[q].stage \notin Booting
        BY <1>1, <1>4, <3>2, BootAlone
      <4> QED BY <4>1, <4>2 DEF Booting
    <3> QED BY <3>1, <3>2
  <2> QED BY <2>3, <2>4, <2>5 DEF BootInv
<1>18. PoolInv(mk2)'
  <2>1. CASE mk[p].stage = "boot"
    <3>1. "BufMgrLock" \notin mk[p].locks
      BY <1>1, <2>1 DEF PoolInv, Pooling
    <3>2. d.stage \notin Pooling /\ d.stage \notin {"attached", "own"} /\ "BufMgrLock" \notin d.locks
      BY <1>7, <2>1, <3>1 DEF Pooling
    <3>3. OneInitialiser'
      BY <1>1, <1>2 DEF PoolInv, OneInitialiser
    <3> QED BY <1>1, <1>2, <1>6, <1>12, <3>1, <3>2, <3>3, PoolKeep
  <2>2. CASE mk[p].stage # "boot"
    BY <1>1, <1>2, <1>6, <1>7, <1>12, <2>2, PoolSame DEF SameWork
  <2> QED BY <2>1, <2>2
<1>19. ProcInv(mk2)'
  <2>1. /\ d.stage = "own" <=> mk[p].stage = "own"
        /\ d.stage = "leaving" <=> mk[p].stage = "leaving"
    BY <1>7
  <2>2. ret'[p] # NULL =>
          /\ \A q \in Procs : MyProc[q] # ret'[p]
          /\ \A i \in DOMAIN free_procs : free_procs[i] # ret'[p]
          /\ \A q \in Procs \cap DOMAIN index : index[q].location # ret'[p]
    BY <1>1, <1>9, <1>11, ProcsBelow
  <2>3. d.size = BATCH_SIZE /\ ret'[p] = NULL => SegmentFull'
    BY <1>7, <1>11
  <2>4. d.stage = "own" /\ d.work = "no" /\ d.name = "known" =>
          mk[p].stage = "own" /\ mk[p].work = "no" /\ mk[p].name = "known"
    BY <1>7 DEF SameWork
  <2> QED BY <1>1, <1>2, <1>6, <1>11, <1>12, <2>1, <2>2, <2>3, <2>4, ProcsKeep
<1> QED BY <1>6, <1>13, <1>14, <1>15, <1>16, <1>17, <1>18, <1>19 DEF StartupInv, StateInv

\* The holder of ShmemIndexLock is the only one at work on an entry.
LEMMA WorkAlone ==
  ASSUME NEW mk, LockInv(mk), IndexInv(mk), NEW p \in Procs, "ShmemIndexLock" \in mk[p].locks
  PROVE  \A q \in Procs \ {p} : mk[q].work = "no"
<1>1. \A q \in Procs \ {p} : "ShmemIndexLock" \notin mk[q].locks
  BY DEF LockInv, Locks
<1> QED BY <1>1 DEF IndexInv

\* The index, when entry n changes and nobody else is at work on one.
LEMMA IndexWork ==
  ASSUME NEW mk, IndexInv(mk), NEW p \in Procs, NEW b, NEW mk2, Moved(mk, p, b, mk2),
         total_size' = total_size, Grows, OthersKeep(p), \A q \in Procs \ {p} : mk[q].work = "no",
         NEW n, mk[p].work = "made" => mk[p].name = n,
         \A m : m # n => /\ m \in DOMAIN index' <=> m \in DOMAIN index
                         /\ m \in DOMAIN index => index'[m] = index[m],
         b.work \in {"no", "made"},
         b.work = "made" => /\ b.name = n /\ n \in DOMAIN index' \cap Structs
                            /\ "ShmemIndexLock" \in b.locks /\ ~found'[p],
         n \in DOMAIN index' \cap Structs =>
            \/ b.work = "made"
            \/ Has(allocs', index'[n].location, index'[n].size) /\ index'[n].size = SizeOf[n],
         n \in DOMAIN index' \cap Procs => index'[n].location \in 1..total_size
  PROVE  IndexInv(mk2)'
<1>1. \A q \in Procs : \/ q = p /\ mk2[q] = b
                       \/ q # p /\ mk2[q] = mk[q] /\ mk2[q].work = "no"
  BY DEF Moved
<1>2. /\ \A q \in Procs : mk2[q].work \in {"no", "want", "made"}
      /\ \A q \in Procs : mk2[q].work # "no" => "ShmemIndexLock" \in mk2[q].locks /\ ~found'[q]
      /\ \A q \in Procs : mk2[q].work # "want"
      /\ \A q \in Procs : mk2[q].work = "made" => mk2[q].name \in DOMAIN index' \cap Structs
  BY <1>1
<1>3. ASSUME NEW m \in DOMAIN index' \cap Structs
      PROVE  \/ Has(allocs', index'[m].location, index'[m].size) /\ index'[m].size = SizeOf[m]
             \/ \E q \in Procs : mk2[q].work = "made" /\ mk2[q].name = m
  <2>1. CASE m = n
    <3>1. CASE b.work = "made"
      <4>1. mk2[p].work = "made" /\ mk2[p].name = m
        BY <1>1, <2>1, <3>1
      <4> QED BY <4>1
    <3>2. CASE b.work # "made"
      BY <1>3, <2>1, <3>2
    <3> QED BY <3>1, <3>2
  <2>2. CASE m # n
    <3>1. m \in DOMAIN index \cap Structs /\ index'[m] = index[m]
      BY <1>3, <2>2
    <3>2. \A q \in Procs : ~(mk[q].work = "made" /\ mk[q].name = m)
      BY <2>2
    <3>3. Has(allocs, index[m].location, index[m].size) /\ index[m].size = SizeOf[m]
      BY <3>1, <3>2 DEF IndexInv
    <3> QED BY <3>1, <3>3 DEF Grows
  <2> QED BY <2>1, <2>2
<1>4. ASSUME NEW m \in DOMAIN index' \cap Procs
      PROVE  index'[m].location \in 1..total_size'
  <2>1. CASE m = n
    BY <1>4, <2>1
  <2>2. CASE m # n
    BY <1>4, <2>2 DEF IndexInv
  <2> QED BY <2>1, <2>2
<1> QED BY <1>2, <1>3, <1>4 DEF IndexInv

\* An entry that is made or overwritten.
LEMMA EntryMade ==
  ASSUME IndexTypes, total_size' = total_size, elements' \in Nat, NEW n \in Structs \cup Procs,
         NEW x \in {BAD_LOCATION} \cup 1..total_size, NEW s \in Nat, index' = Entered(n, x, s)
  PROVE  /\ IndexTypes'
         /\ n \in DOMAIN index' /\ index'[n].location = x /\ index'[n].size = s
         /\ \A m : m # n => /\ m \in DOMAIN index' <=> m \in DOMAIN index
                            /\ m \in DOMAIN index => index'[m] = index[m]
<1>1. PICK e : e = [location |-> x, size |-> s]
  OBVIOUS
<1>2. e \in [location : {BAD_LOCATION} \cup 1..total_size, size : Nat] /\ e.location = x /\ e.size = s
  BY <1>1
<1>3. index' = [m \in DOMAIN index \cup {n} |-> IF m = n THEN e ELSE index[m]]
  BY <1>1 DEF Entered
<1>4. /\ DOMAIN index' = DOMAIN index \cup {n} /\ index'[n] = e
      /\ \A m \in DOMAIN index \ {n} : index'[m] = index[m]
      /\ index' = [m \in DOMAIN index' |-> index'[m]]
  BY <1>3
<1>5. \A m \in DOMAIN index' : index'[m] \in [location : {BAD_LOCATION} \cup 1..total_size, size : Nat]
  BY <1>2, <1>4 DEF IndexTypes
<1>6. IndexTypes'
  BY <1>4, <1>5 DEF IndexTypes
<1> QED BY <1>2, <1>4, <1>6

\* An entry that is removed.
LEMMA EntryRemoved ==
  ASSUME IndexTypes, total_size' = total_size, elements' \in Nat, NEW n, index' = Removed(n)
  PROVE  /\ IndexTypes'
         /\ n \notin DOMAIN index'
         /\ \A m : m # n => /\ m \in DOMAIN index' <=> m \in DOMAIN index
                            /\ m \in DOMAIN index => index'[m] = index[m]
<1>1. /\ DOMAIN index' = DOMAIN index \ {n}
      /\ \A m \in DOMAIN index \ {n} : index'[m] = index[m]
      /\ index' = [m \in DOMAIN index' |-> index'[m]]
  BY DEF Removed
<1>2. IndexTypes'
  BY <1>1 DEF IndexTypes
<1> QED BY <1>1, <1>2

\* The pool, by a process that leaves shmem_init_struct of n: it found the
\* entry, or it made it, or there was no memory for it.
LEMMA PoolEnters ==
  ASSUME NEW mk, PoolInv(mk), LockInv(mk), NEW p \in Procs, NEW b, NEW mk2, Moved(mk, p, b, mk2),
         UNCHANGED ready, OthersKeep(p), descs'[p] = descs[p],
         b.locks = mk[p].locks, b.work = "no",
         found'[p] \in BOOLEAN, descs[p].found \in BOOLEAN,
         NEW n, Enters(mk[p].stage, n, b.stage),
         \A m : m # n => (m \in DOMAIN index' <=> m \in DOMAIN index),
         \/ found'[p] /\ mk[p].work # "made" /\ n \in DOMAIN index /\ n \in DOMAIN index'
         \/ /\ ~found'[p] /\ (mk[p].work = "made" \/ n \notin DOMAIN index)
            /\ ret'[p] # NULL => n \in DOMAIN index'
  PROVE  PoolInv(mk2)'
<1>1. OneInitialiser' /\ \A m \in {BD, BB, HashTable} : ready'[m] = ready[m]
  BY DEF PoolInv, OneInitialiser
<1>2. \A x, y, z : Ready(x, y, z)' <=> Ready(x, y, z)
  BY DEF Ready
<1>3. CASE mk[p].stage \in {"header", "attached"}
  <2>1. n = "Proc Header" /\ b.stage = mk[p].stage
    BY <1>3 DEF Enters
  <2>2. "BufMgrLock" \notin mk[p].locks /\ b.stage \notin Pooling
    BY <1>3, <2>1 DEF PoolInv, Pooling
  <2>3. \A m \in {BD, BB, HashTable} : m \in DOMAIN index' <=> m \in DOMAIN index
    BY <2>1 DEF BD, BB, HashTable
  <2>4. b.stage \in {"attached", "own"} => Ready(1, 1, 1)
    BY <2>1 DEF PoolInv
  <2> QED BY <1>1, <2>2, <2>3, <2>4, PoolKeep
<1>4. CASE mk[p].stage \in {"pool1", "pool3", "pool5"}
  <2>1. /\ mk[p].stage \in Pooling /\ b.stage \in Pooling
        /\ \/ mk[p].stage = "pool1" /\ b.stage = "pool2" /\ n = BD
           \/ mk[p].stage = "pool3" /\ b.stage = "pool4" /\ n = BB
           \/ mk[p].stage = "pool5" /\ b.stage = "pool6" /\ n = HashTable
    BY <1>4 DEF Enters, Pooling, BD, BB
  <2>2. PoolAt(p, mk[p]) /\ "BufMgrLock" \in mk[p].locks
    BY <2>1 DEF PoolInv
  <2>3. BD # BB /\ BD # HashTable /\ BB # HashTable
    BY DEF BD, BB, HashTable
  <2>4. PoolAt(p, b)'
    <3>1. CASE mk[p].stage = "pool1"
      <4>1. b.stage = "pool2" /\ n = BD
        BY <2>1, <3>1
      <4>2. CASE found'[p]
        <5>1. PoolDone
          BY <2>2, <3>1, <4>1, <4>2 DEF PoolAt, PoolNone
        <5>2. PoolDone'
          BY <1>2, <2>3, <4>1, <4>2, <5>1 DEF PoolDone
        <5> QED BY <4>1, <4>2, <5>2 DEF PoolAt
      <4>3. CASE ~found'[p]
        <5>1. Ready(0, 0, 0) /\ BB \notin DOMAIN index /\ HashTable \notin DOMAIN index
          BY <2>2, <2>3, <3>1, <4>1, <4>3 DEF PoolAt, PoolNone, PoolDone
        <5> QED BY <1>2, <2>3, <4>1, <4>3, <5>1 DEF PoolAt
      <4> QED BY <4>2, <4>3
    <3>2. CASE mk[p].stage = "pool3"
      <4>1. b.stage = "pool4" /\ n = BB
        BY <2>1, <3>2
      <4>2. CASE found'[p]
        <5>1. descs[p].found /\ PoolDone
          BY <2>2, <3>2, <4>1, <4>2 DEF PoolAt
        <5>2. PoolDone'
          BY <1>2, <2>3, <4>1, <4>2, <5>1 DEF PoolDone
        <5>3. found'[p] = descs'[p].found
          BY <4>2, <5>1
        <5> QED BY <4>1, <4>2, <5>2, <5>3 DEF PoolAt
      <4>3. CASE ~found'[p]
        <5>1. /\ ~descs[p].found
              /\ Ready(0, 0, 0) /\ HashTable \notin DOMAIN index
              /\ descs[p].at # NULL => BD \in DOMAIN index
          BY <2>2, <3>2, <4>1, <4>3 DEF PoolAt, PoolDone
        <5>2. found'[p] = descs'[p].found
          BY <4>3, <5>1
        <5> QED BY <1>2, <2>3, <4>1, <4>3, <5>1, <5>2 DEF PoolAt
      <4> QED BY <4>2, <4>3
    <3>3. CASE mk[p].stage = "pool5"
      <4>1. b.stage = "pool6" /\ n = HashTable
        BY <2>1, <3>3
      <4>2. CASE found'[p]
        <5>1. descs[p].found /\ PoolDone
          BY <2>2, <3>3, <4>1, <4>2 DEF PoolAt
        <5>2. PoolDone'
          BY <1>2, <2>3, <4>1, <4>2, <5>1 DEF PoolDone
        <5> QED BY <4>1, <4>2, <5>1, <5>2 DEF PoolAt
      <4>3. CASE ~found'[p]
        <5>1. /\ ~descs[p].found
              /\ Ready(0, 1, 0) /\ BD \in DOMAIN index /\ BB \in DOMAIN index
          BY <2>2, <3>3, <4>1, <4>3 DEF PoolAt, PoolDone
        <5>2. found'[p] = descs'[p].found
          BY <4>3, <5>1
        <5> QED BY <1>2, <2>3, <4>1, <4>3, <5>1, <5>2 DEF PoolAt
      <4> QED BY <4>2, <4>3
    <3> QED BY <1>4, <3>1, <3>2, <3>3
  <2> QED BY <1>1, <1>2, <2>1, <2>2, <2>4, PoolMoves
<1> QED BY <1>3, <1>4 DEF Enters

\* shmem_init_struct finds the name.
LEMMA EnterFoundStep ==
  ASSUME NEW mk, Fits(mk), StateInv(mk), NEW p \in Procs, EnterFound(p),
         UNCHANGED <<tableVars, lives, crashed>>
  PROVE  StartupInv'
<1>1. /\ Types /\ LockInv(mk) /\ MemInv(mk) /\ IndexInv(mk) /\ BootInv(mk) /\ PoolInv(mk)
      /\ ProcInv(mk) /\ RegTypes
  BY Parts
<1>2. /\ UNCHANGED <<total_size, free_offset, allocs, index, elements>>
      /\ UNCHANGED lockVars /\ UNCHANGED <<semval, held, top>>
      /\ UNCHANGED <<ready, free_procs, MyProc, descs, lives, crashed>>
  BY DEF shmemVars, lockVars, tableVars, EnterFound
<1>3. PICK n : n = Arg(p)
  OBVIOUS
<1>4. PICK x : x = IF index[n].size = SizeOf[n] THEN index[n].location ELSE NULL
  OBVIOUS
<1>5. /\ todo[p] # <<>> /\ Head(todo[p])[1] = "enter" /\ Head(todo[p])[2] = n /\ Step(p)
      /\ n \in DOMAIN index /\ found' = [found EXCEPT ![p] = TRUE] /\ ret' = [ret EXCEPT ![p] = x]
  BY <1>3, <1>4 DEF EnterFound, Return, At, Arg
<1>6. /\ \E d, mk2 : Flow(p, Head(todo[p]), mk[p], d) /\ Moved(mk, p, d, mk2) /\ Fits(mk2)'
      /\ todo' = [q \in Procs |-> todo'[q]]
      /\ \A q \in Procs \ {p} : todo'[q] = todo[q]
  BY <1>1, <1>5, Stepped
<1>7. PICK d, mk2 : Flow(p, Head(todo[p]), mk[p], d) /\ Moved(mk, p, d, mk2) /\ Fits(mk2)'
  BY <1>6
<1>8. /\ "ShmemIndexLock" \in mk[p].locks /\ d.locks = mk[p].locks /\ d.reg = "none"
      /\ d.work = "no" /\ mk[p].work = "no" /\ n \in Structs /\ Enters(mk[p].stage, n, d.stage)
  BY <1>5, <1>7, FlowParts DEF FlowIndex, FlowEnter
<1>9. /\ ret \in [Procs -> Nat] /\ found \in [Procs -> BOOLEAN]
      /\ descs \in [Procs -> [at : Nat, found : BOOLEAN]]
  BY <1>1 DEF RegTypes
<1>10. x \in Nat
  <2>1. CASE index[n].size = SizeOf[n]
    <3>1. index[n].location = -1 \/ index[n].location \in Nat
      BY <1>1, <1>5, ShmemAssumption DEF Types, IndexTypes, MemTypes, BAD_LOCATION
    <3>2. \A q \in Procs : mk[q].work = "no"
      BY <1>1, <1>8, WorkAlone
    <3>3. Has(allocs, index[n].location, index[n].size)
      BY <1>1, <1>5, <1>8, <3>2 DEF IndexInv
    <3>4. allocs \in Seq((0..total_size) \X (1..total_size)) /\ total_size \in Nat
      BY <1>1, ShmemAssumption DEF Types, MemTypes
    <3>5. index[n].location \in 0..total_size
      BY <3>3, <3>4 DEF Has
    <3> QED BY <1>4, <2>1, <3>4, <3>5
  <2>2. CASE index[n].size # SizeOf[n]
    BY <1>4, <2>2 DEF NULL
  <2> QED BY <2>1, <2>2
<1>11. /\ ret' \in [Procs -> Nat] /\ found' \in [Procs -> BOOLEAN]
       /\ found'[p] = TRUE
       /\ \A q \in Procs \ {p} : ret'[q] = ret[q] /\ found'[q] = found[q]
  BY <1>5, <1>9, <1>10
<1>12. OthersKeep(p) /\ Grows
  BY <1>2, <1>11 DEF OthersKeep, Grows, SegmentFull
<1>13. Types'
  BY <1>1, <1>2, <1>6, <1>11 DEF Types, MemTypes, IndexTypes, LockTypes, RegTypes, TableTypes
<1>14. LockInv(mk2)'
  BY <1>1, <1>2, <1>7, <1>8, LocksKeep
<1>15. MemInv(mk2)'
  BY <1>1, <1>2, <1>7, <1>8, <1>12, MemKeep
<1>16. IndexInv(mk2)'
  BY <1>1, <1>2, <1>7, <1>8, <1>12, IndexKeep
<1>17. /\ d.stage \in Booting => d.stage = mk[p].stage /\ d.stage # "boot1"
       /\ d.stage \notin {"idle", "own", "leaving"} /\ mk[p].stage \notin {"own", "leaving"}
  BY <1>8 DEF Enters, Booting
<1>18. BootInv(mk2)'
  BY <1>1, <1>2, <1>5, <1>6, <1>7, <1>12, <1>17, BootKeep
<1>19. PoolInv(mk2)'
  <2>1. found'[p] \in BOOLEAN /\ descs[p].found \in BOOLEAN
    BY <1>9, <1>11
  <2> QED BY <1>1, <1>2, <1>5, <1>7, <1>8, <1>11, <1>12, <2>1, PoolEnters
<1>20. ProcInv(mk2)'
  BY <1>1, <1>2, <1>7, <1>8, <1>12, <1>17, ProcsKeep
<1> QED BY <1>7, <1>13, <1>14, <1>15, <1>16, <1>18, <1>19, <1>20 DEF StartupInv, StateInv

\* hash_search has no free element for the key of instruction c and asks for
\* memory.
LEMMA NeedsStep ==
  ASSUME NEW mk, Fits(mk), StateInv(mk), NEW p \in Procs, todo[p] # <<>>,
         NEW c, c = Head(todo[p]), c[1] \in {"enter", "pid"}, c[2] \notin DOMAIN index,
         NeedsElements(p, c), UNCHANGED <<tableVars, lives, crashed>>
  PROVE  StartupInv'
<1>1. /\ Types /\ LockInv(mk) /\ MemInv(mk) /\ IndexInv(mk) /\ BootInv(mk) /\ PoolInv(mk)
      /\ ProcInv(mk) /\ RegTypes
  BY Parts
<1>2. /\ UNCHANGED <<total_size, free_offset, allocs, index, elements>>
      /\ UNCHANGED lockVars /\ UNCHANGED <<semval, held, ret, top>>
      /\ UNCHANGED <<ready, free_procs, MyProc, descs, lives, crashed>>
  BY DEF shmemVars, lockVars, tableVars, NeedsElements
<1>3. /\ found' = [found EXCEPT ![p] = FALSE]
      /\ Call(p, shmem_alloc(BATCH_SIZE) \o <<<<"elements", c>>>>)
  BY DEF NeedsElements
<1>4. \A d : Flow(p, c, mk[p], d) => FlowEnter(p, c, mk[p], d) /\ mk[p].work = "no"
  BY FlowParts DEF FlowIndex
<1>5. /\ "ShmemIndexLock" \in mk[p].locks /\ "ShmemLock" \notin mk[p].locks /\ mk[p].work = "no"
      /\ mk[p].stage \notin Returned /\ mk[p].stage # "boot"
  <2>1. PICK d : Flow(p, c, mk[p], d)
    BY HeadFlow
  <2>2. FlowEnter(p, c, mk[p], d) /\ mk[p].work = "no"
    BY <1>4, <2>1
  <2> QED BY <2>2 DEF FlowEnter, Enters, Returned
<1>6. PICK a : a = Mark(mk[p].locks, mk[p].stage, "ret", BATCH_SIZE, "want", c[2])
  OBVIOUS
<1>7. PICK b : b = Mark(mk[p].locks, mk[p].stage, "none", 0, "want", c[2])
  OBVIOUS
<1>8. ASSUME NEW d, Flow(p, Head(todo[p]), mk[p], d)
      PROVE  Triple(p, shmem_alloc(BATCH_SIZE) \o <<<<"elements", c>>>>, b, d)
  <2>1. Triple(p, shmem_alloc(BATCH_SIZE), b, a)
    <3>1. BATCH_SIZE \in Nat \ {0} /\ Carved(mk[p].stage) = mk[p].stage
      BY <1>5, ShmemAssumption DEF Carved
    <3>2. Triple(p, shmem_alloc(BATCH_SIZE), Mark(mk[p].locks, mk[p].stage, "none", 0, "want", c[2]),
                 Mark(mk[p].locks, Carved(mk[p].stage), "ret", BATCH_SIZE, "want", c[2]))
      BY <1>5, <3>1, AllocTriple
    <3> QED BY <1>6, <1>7, <3>1, <3>2
  <2>2. FlowEnter(p, c, a, d)
    <3>1. FlowEnter(p, c, mk[p], d)
      BY <1>4, <1>8
    <3>2. a.locks = mk[p].locks /\ a.stage = mk[p].stage
      BY <1>6 DEF Mark
    <3> QED BY <3>1, <3>2 DEF FlowEnter
  <2>3. Flow(p, <<"elements", c>>, a, d)
    <3>1. a.work = "want" /\ a.name = c[2] /\ a.reg = "ret" /\ a.size = BATCH_SIZE
      BY <1>6 DEF Mark
    <3> QED BY <2>2, <3>1 DEF Flow, FlowIndex
  <2> QED BY <2>1, <2>3, TripleOne, TripleCat
<1>9. /\ \E mk2 : Moved(mk, p, b, mk2) /\ Fits(mk2)'
      /\ todo' = [q \in Procs |-> todo'[q]]
      /\ \A q \in Procs \ {p} : todo'[q] = todo[q]
  BY <1>1, <1>3, <1>8, Called
<1>10. PICK mk2 : Moved(mk, p, b, mk2) /\ Fits(mk2)'
  BY <1>9
<1>11. /\ b.locks = mk[p].locks /\ b.stage = mk[p].stage /\ b.reg = "none" /\ b.work = "want"
       /\ b.name = c[2]
  BY <1>7 DEF Mark
<1>12. found \in [Procs -> BOOLEAN]
  BY <1>1 DEF RegTypes
<1>13. /\ found' \in [Procs -> BOOLEAN] /\ found'[p] = FALSE
       /\ \A q \in Procs \ {p} : found'[q] = found[q]
  BY <1>3, <1>12
<1>14. OthersKeep(p) /\ Grows
  BY <1>2, <1>13 DEF OthersKeep, Grows, SegmentFull
<1>15. Types'
  BY <1>1, <1>2, <1>9, <1>13, SMTT(60) DEF Types, MemTypes, IndexTypes, LockTypes, RegTypes, TableTypes
<1>16. LockInv(mk2)'
  BY <1>1, <1>2, <1>10, <1>11, LocksKeep, SMTT(60)
<1>17. MemInv(mk2)'
  BY <1>1, <1>2, <1>10, <1>11, <1>14, MemKeep
<1>18. IndexInv(mk2)'
  BY <1>1, <1>2, <1>5, <1>10, <1>11, <1>13, <1>14, IndexKeep
<1>19. BootInv(mk2)'
  BY <1>1, <1>2, <1>9, <1>10, <1>11, <1>14, BootKeep
<1>20. PoolInv(mk2)'
  <2>1. OneInitialiser' /\ \A m \in {BD, BB, HashTable} : ready'[m] = ready[m]
    BY <1>1, <1>2 DEF PoolInv, OneInitialiser
  <2>2. CASE "BufMgrLock" \notin mk[p].locks
    <3>1. mk[p].stage \notin Pooling
      BY <1>1, <2>2 DEF PoolInv
    <3>2. b.stage \in {"attached", "own"} => Ready(1, 1, 1)
      BY <1>1, <1>11 DEF PoolInv
    <3> QED BY <1>1, <1>2, <1>10, <1>11, <1>14, <2>1, <2>2, <3>1, <3>2, PoolKeep
  <2>3. CASE "BufMgrLock" \in mk[p].locks
    <3>1. mk[p].stage \in Pooling \cup {"dead"}
      BY <1>1, <2>3 DEF PoolInv
    <3>2. Ready(1, 1, 1) => Ready(1, 1, 1)'
      BY <1>2 DEF Ready
    <3>3. ASSUME b.stage \in Pooling PROVE PoolAt(p, b)'
      <4>1. PoolAt(p, mk[p])
        BY <1>1, <1>11, <3>3 DEF PoolInv
      <4>2. /\ \A x, y, z : Ready(x, y, z)' <=> Ready(x, y, z)
            /\ (PoolNone' <=> PoolNone) /\ (PoolDone' <=> PoolDone)
        BY <1>2 DEF Ready, PoolNone, PoolDone
      <4>3. mk[p].stage \in {"pool1", "pool3", "pool5"} \/ mk[p].stage \notin Pooling
        <5>1. PICK d : Flow(p, c, mk[p], d)
          BY HeadFlow
        <5>2. FlowEnter(p, c, mk[p], d)
          BY <1>4, <5>1
        <5> QED BY <5>2 DEF FlowEnter, Enters, Pooling
      <4> QED BY <1>2, <1>5, <1>11, <3>3, <4>1, <4>2, <4>3 DEF PoolAt
    <3> QED BY <1>1, <1>10, <1>11, <2>1, <2>3, <3>1, <3>2, <3>3, PoolMoves
  <2> QED BY <2>2, <2>3
<1>21. ProcInv(mk2)'
  BY <1>1, <1>2, <1>10, <1>11, <1>14, ProcsKeep
<1> QED BY <1>10, <1>15, <1>16, <1>17, <1>18, <1>19, <1>20, <1>21 DEF StartupInv, StateInv

\* The elements arrive, or there was no memory for them and the search fails.
LEMMA MoreElementsStep ==
  ASSUME NEW mk, Fits(mk), StateInv(mk), NEW p \in Procs, MoreElements(p),
         UNCHANGED <<tableVars, lives, crashed>>
  PROVE  StartupInv'
<1>1. /\ Types /\ LockInv(mk) /\ MemInv(mk) /\ IndexInv(mk) /\ BootInv(mk) /\ PoolInv(mk)
      /\ ProcInv(mk) /\ RegTypes
  BY Parts
<1>2. /\ UNCHANGED <<total_size, free_offset, allocs, index>>
      /\ UNCHANGED lockVars /\ UNCHANGED <<semval, held, ret, found, top>>
      /\ UNCHANGED <<ready, free_procs, MyProc, descs, lives, crashed>>
  BY DEF lockVars, tableVars, MoreElements
<1>3. PICK c : c = Arg(p)
  OBVIOUS
<1>4. /\ todo[p] # <<>> /\ Head(todo[p])[1] = "elements" /\ Head(todo[p])[2] = c
      /\ \/ ret[p] = NULL /\ Step(p) /\ elements' = elements
         \/ ret[p] # NULL /\ Call(p, <<c>>) /\ elements' = elements + BATCH
  BY <1>3 DEF MoreElements, At, Arg
<1>5. \A d : Flow(p, Head(todo[p]), mk[p], d) =>
               /\ FlowEnter(p, c, mk[p], d) /\ mk[p].work = "want" /\ mk[p].name = c[2]
               /\ mk[p].reg = "ret" /\ mk[p].size = BATCH_SIZE
  BY <1>4, FlowParts DEF FlowIndex, FlowEnter
<1>6. mk[p].work = "want" /\ c[2] \notin DOMAIN index /\ ~found[p]
  <2>1. PICK d : Flow(p, Head(todo[p]), mk[p], d)
    BY <1>4, HeadFlow
  <2> QED BY <1>1, <1>5, <2>1 DEF IndexInv
<1>7. OthersKeep(p) /\ Grows
  BY <1>2 DEF OthersKeep, Grows, SegmentFull
<1>8. elements' \in Nat
  BY <1>1, <1>4, ShmemAssumption DEF Types, IndexTypes
<1>9. ASSUME todo' = [q \in Procs |-> todo'[q]] PROVE Types'
  BY <1>1, <1>2, <1>8, <1>9 DEF Types, MemTypes, IndexTypes, LockTypes, RegTypes, TableTypes
<1>10. CASE ret[p] = NULL
  <2>1. /\ \E d, mk2 : Flow(p, Head(todo[p]), mk[p], d) /\ Moved(mk, p, d, mk2) /\ Fits(mk2)'
        /\ todo' = [q \in Procs |-> todo'[q]]
        /\ \A q \in Procs \ {p} : todo'[q] = todo[q]
    BY <1>1, <1>4, <1>10, Stepped
  <2>2. PICK d, mk2 : Flow(p, Head(todo[p]), mk[p], d) /\ Moved(mk, p, d, mk2) /\ Fits(mk2)'
    BY <2>1
  <2>3. /\ d.locks = mk[p].locks /\ d.reg = "none" /\ d.work = "no"
        /\ \/ c[2] \in Structs /\ Enters(mk[p].stage, c[2], d.stage)
           \/ mk[p].stage = "own" /\ d.stage = "own"
    BY <1>5, <2>2 DEF FlowEnter
  <2>4. LockInv(mk2)'
    BY <1>1, <1>2, <2>2, <2>3, LocksKeep
  <2>5. MemInv(mk2)'
    BY <1>1, <1>2, <1>7, <2>2, <2>3, MemKeep
  <2>6. IndexInv(mk2)'
    BY <1>1, <1>2, <1>6, <1>7, <2>2, <2>3, IndexKeep
  <2>7. /\ d.stage \in Booting => d.stage = mk[p].stage /\ d.stage # "boot1"
        /\ d.stage \in {"idle", "own", "leaving"} => d.stage = mk[p].stage
        /\ mk[p].stage \in {"idle", "own", "leaving"} => d.stage = mk[p].stage
    BY <2>3 DEF Enters, Booting
  <2>8. BootInv(mk2)'
    BY <1>1, <1>2, <1>4, <1>7, <2>1, <2>2, <2>7, BootKeep
  <2>9. PoolInv(mk2)'
    <3>1. CASE c[2] \in Structs /\ Enters(mk[p].stage, c[2], d.stage)
      <4>1. found'[p] \in BOOLEAN /\ descs[p].found \in BOOLEAN /\ descs'[p] = descs[p]
        BY <1>1, <1>2 DEF RegTypes
      <4>2. ~found'[p] /\ ret'[p] = NULL /\ UNCHANGED ready
        BY <1>2, <1>6, <1>10
      <4>3. \A m : m \in DOMAIN index' <=> m \in DOMAIN index
        BY <1>2
      <4> QED BY <1>1, <1>6, <1>7, <2>2, <2>3, <3>1, <4>1, <4>2, <4>3, PoolEnters
    <3>2. CASE mk[p].stage = "own" /\ d.stage = "own"
      BY <1>1, <1>2, <1>6, <1>7, <2>2, <2>3, <3>2, PoolSame
    <3> QED BY <2>3, <3>1, <3>2
  <2>10. ProcInv(mk2)'
    <3>1. mk[p].reg = "ret" /\ mk[p].size = BATCH_SIZE
      BY <1>5, <2>2
    <3>2. SegmentFull
      BY <1>1, <1>10, <3>1 DEF ProcInv, PidInv
    <3>3. SegmentFull'
      BY <1>7, <3>2 DEF Grows
    <3> QED BY <1>1, <1>2, <1>7, <2>2, <2>3, <2>7, <3>3, ProcsKeep
  <2> QED BY <1>9, <2>1, <2>2, <2>4, <2>5, <2>6, <2>8, <2>9, <2>10 DEF StartupInv, StateInv
<1>11. CASE ret[p] # NULL
  <2>1. PICK b : b = Mark(mk[p].locks, mk[p].stage, "none", 0, "no", "none")
    OBVIOUS
  <2>2. b.locks = mk[p].locks /\ b.stage = mk[p].stage /\ b.reg = "none" /\ b.work = "no"
        /\ b.name = "none"
    BY <2>1 DEF Mark
  <2>3. ASSUME NEW d, Flow(p, Head(todo[p]), mk[p], d) PROVE Triple(p, <<c>>, b, d)
    <3>1. FlowEnter(p, c, mk[p], d)
      BY <1>5, <2>3
    <3>2. FlowEnter(p, c, b, d)
      BY <2>2, <3>1 DEF FlowEnter
    <3>3. Flow(p, c, b, d)
      BY <2>2, <3>2 DEF Flow, FlowIndex
    <3> QED BY <3>3, TripleOne
  <2>4. /\ \E mk2 : Moved(mk, p, b, mk2) /\ Fits(mk2)'
        /\ todo' = [q \in Procs |-> todo'[q]]
        /\ \A q \in Procs \ {p} : todo'[q] = todo[q]
    BY <1>1, <1>4, <1>11, <2>3, Called
  <2>5. PICK mk2 : Moved(mk, p, b, mk2) /\ Fits(mk2)'
    BY <2>4
  <2>6. LockInv(mk2)'
    BY <1>1, <1>2, <2>2, <2>5, LocksKeep
  <2>7. MemInv(mk2)'
    BY <1>1, <1>2, <1>7, <2>2, <2>5, MemKeep
  <2>8. IndexInv(mk2)'
    BY <1>1, <1>2, <1>6, <1>7, <2>2, <2>5, IndexKeep
  <2>9. BootInv(mk2)'
    BY <1>1, <1>2, <1>4, <1>7, <2>2, <2>4, <2>5, BootKeep
  <2>10. PoolInv(mk2)'
    BY <1>1, <1>2, <1>6, <1>7, <2>2, <2>5, PoolSame
  <2>11. ProcInv(mk2)'
    BY <1>1, <1>2, <1>7, <2>2, <2>5, ProcsKeep
  <2> QED BY <1>9, <2>4, <2>5, <2>6, <2>7, <2>8, <2>9, <2>10, <2>11 DEF StartupInv, StateInv
<1> QED BY <1>10, <1>11

\* shmem_init_struct makes an entry and asks for the memory.
LEMMA EnterNewStep ==
  ASSUME NEW mk, Fits(mk), StateInv(mk), NEW p \in Procs, EnterNew(p),
         UNCHANGED <<tableVars, lives, crashed>>
  PROVE  StartupInv'
<1>1. /\ Types /\ LockInv(mk) /\ MemInv(mk) /\ IndexInv(mk) /\ BootInv(mk) /\ PoolInv(mk)
      /\ ProcInv(mk) /\ RegTypes
  BY Parts
<1>2. PICK c : c = Head(todo[p])
  OBVIOUS
<1>3. PICK n : n = c[2]
  OBVIOUS
<1>4. todo[p] # <<>> /\ c[1] = "enter" /\ n \notin DOMAIN index
  BY <1>2, <1>3 DEF EnterNew, At, Arg
<1>5. CASE NeedsElements(p, Head(todo[p]))
  BY <1>2, <1>3, <1>4, <1>5, NeedsStep
<1>6. CASE ~NeedsElements(p, Head(todo[p]))
  <2>1. /\ UNCHANGED <<total_size, free_offset, allocs>>
        /\ UNCHANGED lockVars /\ UNCHANGED <<semval, held, ret, top>>
        /\ UNCHANGED <<ready, free_procs, MyProc, descs, lives, crashed>>
    BY <1>6 DEF lockVars, tableVars, EnterNew
  <2>2. /\ elements > 0 /\ elements' = elements - 1
        /\ index' = Entered(n, BAD_LOCATION, 0)
        /\ found' = [found EXCEPT ![p] = FALSE]
        /\ Call(p, shmem_alloc(SizeOf[n]) \o <<<<"fill", n>>>>)
    BY <1>2, <1>3, <1>6 DEF EnterNew, Arg
  <2>3. \A d : Flow(p, c, mk[p], d) =>
               /\ "ShmemIndexLock" \in mk[p].locks /\ "ShmemLock" \notin mk[p].locks
               /\ d.locks = mk[p].locks /\ d.reg = "none" /\ d.work = "no" /\ mk[p].work = "no"
               /\ n \in Structs /\ Enters(mk[p].stage, n, d.stage)
    BY <1>3, <1>4, FlowParts DEF FlowIndex, FlowEnter
  <2>4. /\ "ShmemIndexLock" \in mk[p].locks /\ "ShmemLock" \notin mk[p].locks /\ mk[p].work = "no"
        /\ n \in Structs /\ mk[p].stage \notin Returned /\ mk[p].stage # "boot"
        /\ \E s : Enters(mk[p].stage, n, s)
    <3>1. PICK d : Flow(p, c, mk[p], d)
      BY <1>2, <1>4, HeadFlow
    <3>2. Enters(mk[p].stage, n, d.stage)
      BY <2>3, <3>1
    <3> QED BY <2>3, <3>1, <3>2 DEF Enters, Returned
  <2>5. PICK a : a = Mark(mk[p].locks, mk[p].stage, "ret", SizeOf[n], "made", n)
    OBVIOUS
  <2>6. PICK b : b = Mark(mk[p].locks, mk[p].stage, "none", 0, "made", n)
    OBVIOUS
  <2>7. ASSUME NEW d, Flow(p, Head(todo[p]), mk[p], d)
        PROVE  Triple(p, shmem_alloc(SizeOf[n]) \o <<<<"fill", n>>>>, b, d)
    <3>1. Triple(p, shmem_alloc(SizeOf[n]), b, a)
      <4>1. SizeOf[n] \in Nat \ {0} /\ Carved(mk[p].stage) = mk[p].stage
        BY <2>4, ShmemAssumption DEF Carved
      <4>2. Triple(p, shmem_alloc(SizeOf[n]), Mark(mk[p].locks, mk[p].stage, "none", 0, "made", n),
                   Mark(mk[p].locks, Carved(mk[p].stage), "ret", SizeOf[n], "made", n))
        BY <2>4, <4>1, AllocTriple
      <4> QED BY <2>5, <2>6, <4>1, <4>2
    <3>2. Flow(p, <<"fill", n>>, a, d)
      <4>1. /\ a.work = "made" /\ a.name = n /\ a.reg = "ret" /\ a.size = SizeOf[n]
            /\ a.locks = mk[p].locks /\ a.stage = mk[p].stage
        BY <2>5 DEF Mark
      <4> QED BY <1>2, <2>3, <2>7, <4>1 DEF Flow, FlowIndex
    <3> QED BY <3>1, <3>2, TripleOne, TripleCat
  <2>8. /\ \E mk2 : Moved(mk, p, b, mk2) /\ Fits(mk2)'
        /\ todo' = [q \in Procs |-> todo'[q]]
        /\ \A q \in Procs \ {p} : todo'[q] = todo[q]
    BY <1>1, <1>4, <2>2, <2>7, Called
  <2>9. PICK mk2 : Moved(mk, p, b, mk2) /\ Fits(mk2)'
    BY <2>8
  <2>10. /\ b.locks = mk[p].locks /\ b.stage = mk[p].stage /\ b.reg = "none" /\ b.work = "made"
         /\ b.name = n
    BY <2>6 DEF Mark
  <2>11. found \in [Procs -> BOOLEAN] /\ elements \in Nat /\ IndexTypes
    BY <1>1 DEF RegTypes, Types, IndexTypes
  <2>12. /\ found' \in [Procs -> BOOLEAN] /\ found'[p] = FALSE
         /\ \A q \in Procs \ {p} : found'[q] = found[q]
    BY <2>2, <2>11
  <2>13. OthersKeep(p) /\ Grows
    BY <2>1, <2>12 DEF OthersKeep, Grows, SegmentFull
  <2>14. /\ IndexTypes'
         /\ n \in DOMAIN index' /\ index'[n].location = BAD_LOCATION /\ index'[n].size = 0
         /\ \A m : m # n => /\ m \in DOMAIN index' <=> m \in DOMAIN index
                            /\ m \in DOMAIN index => index'[m] = index[m]
    <3>1. elements' \in Nat
      BY <2>2, <2>11
    <3>2. n \in Structs \cup Procs /\ BAD_LOCATION \in {BAD_LOCATION} \cup 1..total_size /\ 0 \in Nat
      BY <2>4
    <3>3. total_size' = total_size
      BY <2>1
    <3> QED BY <2>2, <2>11, <3>1, <3>2, <3>3, EntryMade
  <2>15. Types'
    BY <1>1, <2>1, <2>8, <2>12, <2>14 DEF Types, MemTypes, LockTypes, RegTypes, TableTypes
  <2>16. LockInv(mk2)'
    BY <1>1, <2>1, <2>9, <2>10, LocksKeep
  <2>17. MemInv(mk2)'
    BY <1>1, <2>1, <2>9, <2>10, <2>13, MemKeep
  <2>18. n \notin Procs
    BY <2>4, StartupAssumption
  <2>19. IndexInv(mk2)'
    <3>1. \A q \in Procs \ {p} : mk[q].work = "no"
      BY <1>1, <2>4, WorkAlone
    <3> QED BY <1>1, <2>1, <2>4, <2>9, <2>10, <2>12, <2>13, <2>14, <2>18, <3>1, IndexWork
  <2>20. BootInv(mk2)'
    BY <1>1, <1>4, <2>1, <2>8, <2>9, <2>10, <2>13, BootKeep
  <2>21. PoolInv(mk2)'
    <3>1. OneInitialiser' /\ \A m \in {BD, BB, HashTable} : ready'[m] = ready[m]
      BY <1>1, <2>1 DEF PoolInv, OneInitialiser
    <3>2. BD # BB /\ BD # HashTable /\ BB # HashTable /\ BD # "Proc Header" /\ BB # "Proc Header"
          /\ HashTable # "Proc Header"
      BY DEF BD, BB, HashTable
    <3>3. CASE mk[p].stage \in {"header", "attached"}
      <4>1. n = "Proc Header"
        BY <2>4, <3>3 DEF Enters
      <4>2. "BufMgrLock" \notin mk[p].locks /\ b.stage \notin Pooling
        BY <1>1, <2>10, <3>3 DEF PoolInv, Pooling
      <4>3. \A m \in {BD, BB, HashTable} : m \in DOMAIN index' <=> m \in DOMAIN index
        BY <2>14, <3>2, <4>1
      <4>4. b.stage \in {"attached", "own"} => Ready(1, 1, 1)
        BY <1>1, <2>10 DEF PoolInv
      <4> QED BY <1>1, <2>9, <2>10, <2>13, <3>1, <4>2, <4>3, <4>4, PoolKeep
    <3>4. CASE mk[p].stage \in {"pool1", "pool3", "pool5"}
      <4>1. /\ mk[p].stage \in Pooling
            /\ \/ mk[p].stage = "pool1" /\ n = BD
               \/ mk[p].stage = "pool3" /\ n = BB
               \/ mk[p].stage = "pool5" /\ n = HashTable
        BY <2>4, <3>4 DEF Enters, Pooling, BD, BB
      <4>2. PoolAt(p, mk[p]) /\ "BufMgrLock" \in mk[p].locks
        BY <1>1, <4>1 DEF PoolInv
      <4>3. \A x, y, z : Ready(x, y, z)' <=> Ready(x, y, z)
        BY <2>1 DEF Ready
      <4>4. descs'[p] = descs[p]
        BY <2>1
      <4>5. PoolAt(p, b)'
        <5>1. CASE mk[p].stage = "pool1"
          <6>1. Ready(0, 0, 0) /\ BB \notin DOMAIN index /\ HashTable \notin DOMAIN index
            BY <1>4, <2>4, <4>1, <4>2, <5>1 DEF PoolAt, PoolNone, PoolDone
          <6> QED BY <2>10, <2>14, <3>2, <4>1, <4>3, <5>1, <6>1 DEF PoolAt
        <5>2. CASE mk[p].stage = "pool3"
          <6>1. /\ ~descs[p].found
                /\ Ready(0, 0, 0) /\ HashTable \notin DOMAIN index
                /\ descs[p].at # NULL => BD \in DOMAIN index
            BY <1>4, <4>1, <4>2, <5>2 DEF PoolAt, PoolDone
          <6> QED BY <2>10, <2>14, <3>2, <4>1, <4>3, <4>4, <5>2, <6>1 DEF PoolAt
        <5>3. CASE mk[p].stage = "pool5"
          <6>1. /\ ~descs[p].found
                /\ Ready(0, 1, 0) /\ BD \in DOMAIN index /\ BB \in DOMAIN index
            BY <1>4, <4>1, <4>2, <5>3 DEF PoolAt, PoolDone
          <6> QED BY <2>10, <2>14, <3>2, <4>1, <4>3, <4>4, <5>3, <6>1 DEF PoolAt
        <5> QED BY <3>4, <5>1, <5>2, <5>3
      <4> QED BY <1>1, <2>9, <2>10, <3>1, <4>1, <4>2, <4>3, <4>5, PoolMoves
    <3> QED BY <2>4, <3>3, <3>4 DEF Enters
  <2>22. ProcInv(mk2)'
    BY <1>1, <2>1, <2>9, <2>10, <2>13, <2>14, <2>18, ProcsKeep
  <2> QED BY <2>9, <2>15, <2>16, <2>17, <2>19, <2>20, <2>21, <2>22 DEF StartupInv, StateInv
<1> QED BY <1>5, <1>6

\* A chunk lies in the segment.
LEMMA ChunkWithin ==
  ASSUME MemTypes, AllocsDisjoint, NEW x, NEW s, Has(allocs, x, s)
  PROVE  x \in 1..total_size
<1>1. /\ total_size \in Nat /\ SEG_HEADER \in Nat \ {0}
      /\ allocs \in Seq((0..total_size) \X (1..total_size))
  BY ShmemAssumption DEF MemTypes
<1>2. PICK i \in DOMAIN allocs : allocs[i] = <<x, s>>
  BY DEF Has
<1>3. allocs[i] \in (0..total_size) \X (1..total_size)
  BY <1>1, <1>2
<1>4. x \in 0..total_size /\ allocs[i][1] = x
  BY <1>2, <1>3
<1>5. x >= SEG_HEADER
  BY <1>2, <1>4 DEF AllocsDisjoint
<1> QED BY <1>1, <1>4, <1>5

\* shmem_init_struct fills the entry in, or takes it back.
LEMMA FillStep ==
  ASSUME NEW mk, Fits(mk), StateInv(mk), NEW p \in Procs, Fill(p),
         UNCHANGED <<tableVars, lives, crashed>>
  PROVE  StartupInv'
<1>1. /\ Types /\ LockInv(mk) /\ MemInv(mk) /\ IndexInv(mk) /\ BootInv(mk) /\ PoolInv(mk)
      /\ ProcInv(mk) /\ RegTypes
  BY Parts
<1>2. /\ UNCHANGED <<total_size, free_offset, allocs>>
      /\ UNCHANGED lockVars /\ UNCHANGED <<semval, held, ret, found, top>>
      /\ UNCHANGED <<ready, free_procs, MyProc, descs, lives, crashed>>
  BY DEF lockVars, tableVars, Fill
<1>3. PICK n : n = Arg(p)
  OBVIOUS
<1>4. /\ todo[p] # <<>> /\ Head(todo[p])[1] = "fill" /\ Head(todo[p])[2] = n /\ Step(p)
      /\ \/ ret[p] = NULL /\ index' = Removed(n) /\ elements' = elements + 1
         \/ ret[p] # NULL /\ index' = Entered(n, ret[p], SizeOf[n]) /\ elements' = elements
  BY <1>3 DEF Fill, At, Arg
<1>5. /\ \E d, mk2 : Flow(p, Head(todo[p]), mk[p], d) /\ Moved(mk, p, d, mk2) /\ Fits(mk2)'
      /\ todo' = [q \in Procs |-> todo'[q]]
      /\ \A q \in Procs \ {p} : todo'[q] = todo[q]
  BY <1>1, <1>4, Stepped
<1>6. PICK d, mk2 : Flow(p, Head(todo[p]), mk[p], d) /\ Moved(mk, p, d, mk2) /\ Fits(mk2)'
  BY <1>5
<1>7. /\ mk[p].work = "made" /\ mk[p].name = n /\ n \in Structs
      /\ mk[p].reg = "ret" /\ mk[p].size = SizeOf[n]
      /\ d.locks = mk[p].locks /\ d.reg = "none" /\ d.work = "no" /\ Enters(mk[p].stage, n, d.stage)
  BY <1>4, <1>6, FlowParts DEF FlowIndex, FlowEnter
<1>8. "ShmemIndexLock" \in mk[p].locks /\ ~found[p] /\ n \in DOMAIN index
  BY <1>1, <1>7 DEF IndexInv
<1>9. OthersKeep(p) /\ Grows
  BY <1>2 DEF OthersKeep, Grows, SegmentFull
<1>10. MemTypes /\ IndexTypes /\ AllocsDisjoint /\ elements \in Nat /\ n \notin Procs
       /\ SizeOf[n] \in Nat
  BY <1>1, <1>7, StartupAssumption, ShmemAssumption DEF Types, MemInv, IndexTypes
<1>11. ret[p] # NULL => Has(allocs, ret[p], SizeOf[n]) /\ ret[p] \in 1..total_size
  BY <1>1, <1>7, <1>10, ChunkWithin DEF MemInv
<1>12. /\ IndexTypes'
       /\ \A m : m # n => /\ m \in DOMAIN index' <=> m \in DOMAIN index
                          /\ m \in DOMAIN index => index'[m] = index[m]
       /\ ret[p] = NULL => n \notin DOMAIN index'
       /\ ret[p] # NULL => /\ n \in DOMAIN index' /\ index'[n].size = SizeOf[n]
                           /\ Has(allocs', index'[n].location, index'[n].size)
  <2>1. total_size' = total_size /\ allocs' = allocs /\ elements' \in Nat
    BY <1>2, <1>4, <1>10
  <2>2. CASE ret[p] = NULL
    <3>1. /\ IndexTypes' /\ n \notin DOMAIN index'
          /\ \A m : m # n => /\ m \in DOMAIN index' <=> m \in DOMAIN index
                             /\ m \in DOMAIN index => index'[m] = index[m]
      BY <1>4, <1>10, <2>1, <2>2, EntryRemoved
    <3> QED BY <2>2, <3>1
  <2>3. CASE ret[p] # NULL
    <3>1. n \in Structs \cup Procs /\ ret[p] \in {BAD_LOCATION} \cup 1..total_size
      BY <1>7, <1>11, <2>3
    <3>2. /\ IndexTypes' /\ n \in DOMAIN index' /\ index'[n].location = ret[p] /\ index'[n].size = SizeOf[n]
          /\ \A m : m # n => /\ m \in DOMAIN index' <=> m \in DOMAIN index
                             /\ m \in DOMAIN index => index'[m] = index[m]
      BY <1>4, <1>10, <2>1, <2>3, <3>1, EntryMade
    <3> QED BY <1>11, <2>1, <2>3, <3>2
  <2> QED BY <2>2, <2>3
<1>13. Types'
  BY <1>1, <1>2, <1>5, <1>12 DEF Types, MemTypes, LockTypes, RegTypes, TableTypes
<1>14. LockInv(mk2)'
  BY <1>1, <1>2, <1>6, <1>7, LocksKeep
<1>15. MemInv(mk2)'
  BY <1>1, <1>2, <1>6, <1>7, <1>9, MemKeep
<1>16. IndexInv(mk2)'
  <2>1. \A q \in Procs \ {p} : mk[q].work = "no"
    BY <1>1, <1>8, WorkAlone
  <2> QED BY <1>1, <1>2, <1>6, <1>7, <1>9, <1>10, <1>12, <2>1, IndexWork
<1>17. /\ d.stage \in Booting => d.stage = mk[p].stage /\ d.stage # "boot1"
       /\ d.stage \notin {"idle", "own", "leaving"} /\ mk[p].stage \notin {"own", "leaving"}
  BY <1>7 DEF Enters, Booting
<1>18. BootInv(mk2)'
  BY <1>1, <1>2, <1>4, <1>5, <1>6, <1>9, <1>17, BootKeep
<1>19. PoolInv(mk2)'
  <2>1. found'[p] \in BOOLEAN /\ descs[p].found \in BOOLEAN
    BY <1>1, <1>2 DEF RegTypes
  <2>2. ~found'[p] /\ descs'[p] = descs[p] /\ UNCHANGED ready /\ (ret'[p] # NULL => n \in DOMAIN index')
    BY <1>2, <1>8, <1>12
  <2> QED BY <1>1, <1>6, <1>7, <1>9, <1>12, <2>1, <2>2, PoolEnters
<1>20. ProcInv(mk2)'
  BY <1>1, <1>2, <1>6, <1>7, <1>9, <1>10, <1>12, <1>17, ProcsKeep
<1> QED BY <1>6, <1>13, <1>14, <1>15, <1>16, <1>18, <1>19, <1>20 DEF StartupInv, StateInv

\* A result that is used without a look at it.
LEMMA UseStep ==
  ASSUME NEW mk, Fits(mk), StateInv(mk), NEW p \in Procs, Use(p),
         UNCHANGED <<tableVars, lives, crashed>>
  PROVE  StartupInv'
<1>1. /\ Types /\ LockInv(mk) /\ MemInv(mk) /\ IndexInv(mk) /\ BootInv(mk) /\ PoolInv(mk)
      /\ ProcInv(mk) /\ RegTypes
  BY Parts
<1>2. /\ UNCHANGED <<total_size, free_offset, allocs, index, elements>>
      /\ UNCHANGED lockVars /\ UNCHANGED <<semval, held, ret, found, top>>
      /\ UNCHANGED <<ready, free_procs, MyProc, descs, lives, crashed>>
  BY DEF shmemVars, lockVars, tableVars, Use
<1>3. todo[p] # <<>> /\ Head(todo[p])[1] \in {"use", "bootstrap"}
  BY DEF Use, At
<1>4. \A d : Flow(p, Head(todo[p]), mk[p], d) =>
        /\ mk[p].work = "no" /\ d.work = "no" /\ d.reg = "none"
        /\ \/ mk[p].reg = "null" /\ mk[p].stage \in {"header", "attached"}
           \/ /\ mk[p].reg = "ret" /\ d.locks = mk[p].locks
              /\ \/ mk[p].stage = "boot1" /\ d.stage = "boot2"
                 \/ mk[p].stage \in {"header", "attached"} /\ d.stage = mk[p].stage
  <2>1. CASE Head(todo[p])[1] = "use"
    BY <2>1, FlowParts DEF FlowEnd, Final
  <2>2. CASE Head(todo[p])[1] = "bootstrap"
    BY <2>2, FlowParts DEF FlowStage, Advances
  <2> QED BY <1>3, <2>1, <2>2
<1>5. CASE ret[p] = NULL
  <2>1. PICK d : Flow(p, Head(todo[p]), mk[p], d)
    BY <1>3, HeadFlow
  <2>2. mk[p].work = "no" /\ mk[p].stage \notin {"own", "leaving"}
    BY <1>4, <2>1
  <2>3. Dies(p) /\ UNCHANGED <<shmemVars, lockVars, ret, found, top, tableVars, lives, crashed>>
    BY <1>5 DEF Use
  <2> QED BY <1>3, <2>2, <2>3, Died
<1>6. CASE ret[p] # NULL
  <2>1. Step(p)
    BY <1>6 DEF Use
  <2>2. /\ \E d, mk2 : Flow(p, Head(todo[p]), mk[p], d) /\ Moved(mk, p, d, mk2) /\ Fits(mk2)'
        /\ todo' = [q \in Procs |-> todo'[q]]
        /\ \A q \in Procs \ {p} : todo'[q] = todo[q]
    BY <1>1, <1>3, <2>1, Stepped
  <2>3. PICK d, mk2 : Flow(p, Head(todo[p]), mk[p], d) /\ Moved(mk, p, d, mk2) /\ Fits(mk2)'
    BY <2>2
  <2>4. mk[p].reg # "null"
    BY <1>1, <1>6 DEF MemInv
  <2>5. /\ mk[p].work = "no" /\ d.work = "no" /\ d.reg = "none" /\ d.locks = mk[p].locks
        /\ \/ mk[p].stage = "boot1" /\ d.stage = "boot2"
           \/ mk[p].stage \in {"header", "attached"} /\ d.stage = mk[p].stage
    BY <1>4, <2>3, <2>4
  <2>6. OthersKeep(p) /\ Grows
    BY <1>2 DEF OthersKeep, Grows, SegmentFull
  <2>7. Types'
    BY <1>1, <1>2, <2>2 DEF Types, MemTypes, IndexTypes, LockTypes, RegTypes, TableTypes
  <2>8. LockInv(mk2)'
    BY <1>1, <1>2, <2>3, <2>5, LocksKeep
  <2>9. MemInv(mk2)'
    BY <1>1, <1>2, <2>3, <2>5, <2>6, MemKeep
  <2>10. IndexInv(mk2)'
    BY <1>1, <1>2, <2>3, <2>5, <2>6, IndexKeep
  <2>11. BootInv(mk2)'
    <3>1. CASE mk[p].stage = "boot1"
      <4>1. p = Postmaster /\ \A q \in Procs \ {p} : todo[q] = <<>> /\ Final(mk[q])
        BY <1>1, <3>1, BootAlone DEF Booting
      <4>2. d.stage = "boot2" /\ ready["Proc Header"] = 0
            /\ Has(allocs, SEG_HEADER, SizeOf["ShmemIndex"])
        BY <1>1, <1>6, <2>5, <3>1 DEF BootInv, Booting
      <4>3. mk2[p].stage = "boot2" /\ \A q \in Procs \ {p} : mk2[q].stage = "idle"
        <5>1. mk2[p] = d /\ \A q \in Procs \ {p} : mk2[q] = mk[q]
          BY <2>3 DEF Moved
        <5>2. \A q \in Procs \ {p} : mk[q].stage = "idle"
          BY <4>1 DEF Final
        <5> QED BY <4>2, <5>1, <5>2
      <4>4. ready'["Proc Header"] = 0 /\ allocs' = allocs
        BY <1>2, <4>2
      <4>5. \A q \in Procs \ {Postmaster} : todo'[q] = <<>>
        BY <2>2, <4>1
      <4>6. mk2[Postmaster].stage = "boot2"
        BY <4>1, <4>3
      <4>7. \A q \in Procs : mk2[q].stage \in Booting => q = Postmaster
        BY <4>1, <4>3 DEF Booting
      <4>8. \A q \in Procs : mk2[q].stage # "boot" /\ mk2[q].stage # "boot1"
        BY <4>3
      <4> QED BY <4>2, <4>4, <4>5, <4>6, <4>7, <4>8 DEF BootInv
    <3>2. CASE mk[p].stage # "boot1"
      BY <1>1, <1>2, <1>3, <2>2, <2>3, <2>5, <2>6, <3>2, BootKeep
    <3> QED BY <3>1, <3>2
  <2>12. PoolInv(mk2)'
    <3>1. OneInitialiser'
      BY <1>1, <1>2 DEF PoolInv, OneInitialiser
    <3>2. "BufMgrLock" \notin mk[p].locks /\ d.stage \notin Pooling /\ mk[p].stage \notin Pooling
      BY <1>1, <2>5 DEF PoolInv, Pooling
    <3>3. d.stage \in {"attached", "own"} => Ready(1, 1, 1)
      BY <1>1, <2>5 DEF PoolInv
    <3> QED BY <1>1, <1>2, <2>3, <2>5, <2>6, <3>1, <3>2, <3>3, PoolKeep
  <2>13. ProcInv(mk2)'
    BY <1>1, <1>2, <2>3, <2>5, <2>6, ProcsKeep
  <2> QED BY <2>3, <2>7, <2>8, <2>9, <2>10, <2>11, <2>12, <2>13 DEF StartupInv, StateInv
<1> QED BY <1>5, <1>6

\* The index becomes an entry of itself.
LEMMA EnterItselfStep ==
  ASSUME NEW mk, Fits(mk), StateInv(mk), NEW p \in Procs, EnterItself(p),
         UNCHANGED <<tableVars, lives, crashed>>
  PROVE  StartupInv'
<1>1. /\ Types /\ LockInv(mk) /\ MemInv(mk) /\ IndexInv(mk) /\ BootInv(mk) /\ PoolInv(mk)
      /\ ProcInv(mk) /\ RegTypes
  BY Parts
<1>2. /\ UNCHANGED <<total_size, free_offset, allocs>>
      /\ UNCHANGED lockVars /\ UNCHANGED <<semval, held, ret, found, top>>
      /\ UNCHANGED <<ready, free_procs, MyProc, descs, lives, crashed>>
  BY DEF lockVars, tableVars, EnterItself
<1>3. todo[p] # <<>> /\ Head(todo[p])[1] = "self"
  BY DEF EnterItself, At
<1>4. \A d : Flow(p, Head(todo[p]), mk[p], d) =>
        /\ mk[p].stage = "boot2" /\ d.stage = "header" /\ mk[p].work = "no"
        /\ d.locks = mk[p].locks /\ d.reg = "none" /\ d.work = "no"
  BY <1>3, FlowParts DEF FlowStage, Advances
<1>5. mk[p].stage = "boot2" /\ mk[p].work = "no"
  <2>1. PICK d : Flow(p, Head(todo[p]), mk[p], d)
    BY <1>3, HeadFlow
  <2> QED BY <1>4, <2>1
<1>6. CASE ret[p] = NULL
  <2>1. Dies(p) /\ UNCHANGED <<shmemVars, lockVars, ret, found, top, tableVars, lives, crashed>>
    BY <1>6 DEF EnterItself, shmemVars
  <2> QED BY <1>3, <1>5, <2>1, Died
<1>7. CASE ret[p] # NULL
  <2>1. Step(p) /\ index' = Entered("ShmemIndex", SEG_HEADER, SizeOf["ShmemIndex"])
        /\ elements' = BATCH - 1
    BY <1>7 DEF EnterItself
  <2>2. /\ \E d, mk2 : Flow(p, Head(todo[p]), mk[p], d) /\ Moved(mk, p, d, mk2) /\ Fits(mk2)'
        /\ todo' = [q \in Procs |-> todo'[q]]
        /\ \A q \in Procs \ {p} : todo'[q] = todo[q]
    BY <1>1, <1>3, <2>1, Stepped
  <2>3. PICK d, mk2 : Flow(p, Head(todo[p]), mk[p], d) /\ Moved(mk, p, d, mk2) /\ Fits(mk2)'
    BY <2>2
  <2>4. d.stage = "header" /\ d.locks = mk[p].locks /\ d.reg = "none" /\ d.work = "no"
    BY <1>4, <2>3
  <2>5. p = Postmaster /\ \A q \in Procs \ {p} : todo[q] = <<>> /\ Final(mk[q])
    BY <1>1, <1>5, BootAlone DEF Booting
  <2>6. OthersKeep(p) /\ Grows
    BY <1>2 DEF OthersKeep, Grows, SegmentFull
  <2>7. PICK n : n = "ShmemIndex"
    OBVIOUS
  <2>8. /\ n \in Structs /\ n \notin Procs /\ n \notin {BD, BB, HashTable}
        /\ SizeOf[n] \in Nat
    BY <2>7, StartupAssumption, ShmemAssumption DEF BD, BB, HashTable
  <2>9. SEG_HEADER \in 1..total_size /\ elements' \in Nat /\ IndexTypes
    BY <1>1, <2>1, ShmemAssumption DEF Types, MemTypes
  <2>10. /\ IndexTypes' /\ n \in DOMAIN index'
         /\ index'[n].location = SEG_HEADER /\ index'[n].size = SizeOf[n]
         /\ \A m : m # n => /\ m \in DOMAIN index' <=> m \in DOMAIN index
                            /\ m \in DOMAIN index => index'[m] = index[m]
    <3>1. n \in Structs \cup Procs /\ SEG_HEADER \in {BAD_LOCATION} \cup 1..total_size
      BY <2>8, <2>9
    <3>2. total_size' = total_size /\ index' = Entered(n, SEG_HEADER, SizeOf[n])
      BY <1>2, <2>1, <2>7
    <3> QED BY <2>8, <2>9, <3>1, <3>2, EntryMade
  <2>11. Types'
    BY <1>1, <1>2, <2>2, <2>10 DEF Types, MemTypes, LockTypes, RegTypes, TableTypes
  <2>12. LockInv(mk2)'
    BY <1>1, <1>2, <2>3, <2>4, LocksKeep
  <2>13. MemInv(mk2)'
    BY <1>1, <1>2, <2>3, <2>4, <2>6, MemKeep
  <2>14. IndexInv(mk2)'
    <3>1. \A q \in Procs \ {p} : mk[q].work = "no"
      BY <2>5 DEF Final
    <3>2. Has(allocs', index'[n].location, index'[n].size)
      BY <1>1, <1>2, <1>5, <2>7, <2>10 DEF BootInv
    <3>3. total_size' = total_size
      BY <1>2
    <3> QED BY <1>1, <1>5, <2>3, <2>4, <2>6, <2>8, <2>10, <3>1, <3>2, <3>3, IndexWork
  <2>15. BootInv(mk2)'
    <3>1. ready["Proc Header"] = 0
      BY <1>1, <1>5 DEF BootInv, Booting
    <3>2. mk2[p].stage = "header" /\ \A q \in Procs \ {p} : mk2[q].stage = "idle"
      <4>1. mk2[p] = d /\ \A q \in Procs \ {p} : mk2[q] = mk[q]
        BY <2>3 DEF Moved
      <4>2. \A q \in Procs \ {p} : mk[q].stage = "idle"
        BY <2>5 DEF Final
      <4> QED BY <2>4, <4>1, <4>2
    <3>3. ready'["Proc Header"] = 0
      BY <1>2, <3>1
    <3>4. \A q \in Procs \ {Postmaster} : todo'[q] = <<>>
      BY <2>2, <2>5
    <3>5. mk2[Postmaster].stage = "header"
      BY <2>5, <3>2
    <3>6. \A q \in Procs : mk2[q].stage \in Booting => q = Postmaster
      BY <2>5, <3>2 DEF Booting
    <3>7. \A q \in Procs : mk2[q].stage \notin {"boot", "boot1", "boot2"}
      BY <3>2
    <3> QED BY <3>3, <3>4, <3>5, <3>6, <3>7 DEF BootInv
  <2>16. PoolInv(mk2)'
    <3>1. OneInitialiser' /\ \A m \in {BD, BB, HashTable} : ready'[m] = ready[m]
      BY <1>1, <1>2 DEF PoolInv, OneInitialiser
    <3>2. "BufMgrLock" \notin mk[p].locks /\ d.stage \notin Pooling /\ d.stage \notin {"attached", "own"}
      BY <1>1, <1>5, <2>4 DEF PoolInv, Pooling
    <3>3. \A m \in {BD, BB, HashTable} : m \in DOMAIN index' <=> m \in DOMAIN index
      BY <2>8, <2>10
    <3> QED BY <1>1, <2>3, <2>4, <2>6, <3>1, <3>2, <3>3, PoolKeep
  <2>17. ProcInv(mk2)'
    BY <1>1, <1>2, <1>5, <2>3, <2>4, <2>6, <2>8, <2>10, ProcsKeep
  <2> QED BY <2>3, <2>11, <2>12, <2>13, <2>14, <2>15, <2>16, <2>17 DEF StartupInv, StateInv
<1> QED BY <1>6, <1>7

\* shmem_pid_lookup finds an entry under the pid.
LEMMA PidFoundStep ==
  ASSUME NEW mk, Fits(mk), StateInv(mk), NEW p \in Procs, PidFound(p),
         UNCHANGED <<tableVars, lives, crashed>>
  PROVE  StartupInv'
<1>1. /\ Types /\ LockInv(mk) /\ MemInv(mk) /\ IndexInv(mk) /\ BootInv(mk) /\ PoolInv(mk)
      /\ ProcInv(mk) /\ RegTypes
  BY Parts
<1>2. /\ UNCHANGED <<total_size, free_offset, allocs, index, elements>>
      /\ UNCHANGED lockVars /\ UNCHANGED <<semval, held, found, top>>
      /\ UNCHANGED <<ready, free_procs, MyProc, descs, lives, crashed>>
  BY DEF shmemVars, lockVars, tableVars, PidFound
<1>3. /\ todo[p] # <<>> /\ Head(todo[p])[1] = "pid" /\ Step(p) /\ p \in DOMAIN index
      /\ ret' = [ret EXCEPT ![p] = index[p].location]
  BY DEF PidFound, Return, At
<1>4. /\ \E d, mk2 : Flow(p, Head(todo[p]), mk[p], d) /\ Moved(mk, p, d, mk2) /\ Fits(mk2)'
      /\ todo' = [q \in Procs |-> todo'[q]]
      /\ \A q \in Procs \ {p} : todo'[q] = todo[q]
  BY <1>1, <1>3, Stepped
<1>5. PICK d, mk2 : Flow(p, Head(todo[p]), mk[p], d) /\ Moved(mk, p, d, mk2) /\ Fits(mk2)'
  BY <1>4
<1>6. /\ mk[p].stage = "own" /\ d.stage = "own" /\ d.locks = mk[p].locks
      /\ d.reg = "none" /\ d.work = "no" /\ mk[p].work = "no"
  BY <1>3, <1>5, FlowParts DEF FlowIndex, FlowEnter
<1>7. ret \in [Procs -> Nat] /\ index[p].location \in Nat
  BY <1>1, <1>3, ShmemAssumption DEF RegTypes, IndexInv, Types, MemTypes
<1>8. ret' \in [Procs -> Nat] /\ \A q \in Procs \ {p} : ret'[q] = ret[q]
  BY <1>3, <1>7
<1>9. OthersKeep(p) /\ Grows
  BY <1>2, <1>8 DEF OthersKeep, Grows, SegmentFull
<1>10. Types'
  BY <1>1, <1>2, <1>4, <1>8 DEF Types, MemTypes, IndexTypes, LockTypes, RegTypes, TableTypes
<1>11. LockInv(mk2)'
  BY <1>1, <1>2, <1>5, <1>6, LocksKeep
<1>12. MemInv(mk2)'
  BY <1>1, <1>2, <1>5, <1>6, <1>9, MemKeep
<1>13. IndexInv(mk2)'
  BY <1>1, <1>2, <1>5, <1>6, <1>9, IndexKeep
<1>14. BootInv(mk2)'
  BY <1>1, <1>2, <1>3, <1>4, <1>5, <1>6, <1>9, BootKeep DEF Booting
<1>15. PoolInv(mk2)'
  BY <1>1, <1>2, <1>5, <1>6, <1>9, PoolSame DEF Returned
<1>16. ProcInv(mk2)'
  BY <1>1, <1>2, <1>3, <1>5, <1>6, <1>9, ProcsKeep
<1> QED BY <1>5, <1>10, <1>11, <1>12, <1>13, <1>14, <1>15, <1>16 DEF StartupInv, StateInv

\* The Procs, when the entry of process p in the index changes.
LEMMA ProcsIndexed ==
  ASSUME NEW mk, ProcInv(mk), NEW p \in Procs, NEW b, NEW mk2, Moved(mk, p, b, mk2),
         UNCHANGED <<MyProc, free_procs, crashed>>, Grows, OthersKeep(p),
         \A q \in Procs \ {p} : /\ q \in DOMAIN index' <=> q \in DOMAIN index
                                /\ q \in DOMAIN index => index'[q] = index[q],
         b.stage = "own" <=> mk[p].stage = "own", b.reg # "ret",
         b.stage = "own" => p \in DOMAIN index',
         p \in DOMAIN index' => b.stage = "own" /\ index'[p].location = MyProc[p]
  PROVE  ProcInv(mk2)'
<1>1. ProcsDistinct'
  <2>1. ASSUME NEW x, Allocated(x, PROC_SIZE) PROVE Allocated(x, PROC_SIZE)'
    BY <2>1 DEF Grows, Allocated, Has
  <2>2. ProcsDistinct
    BY DEF ProcInv
  <2> QED BY <2>1, <2>2 DEF ProcsDistinct
<1>2. \A i \in DOMAIN free_procs' : Has(allocs', free_procs[i], PROC_SIZE)
  BY DEF ProcInv, Grows
<1>3. \A q \in Procs : MyProc'[q] # NULL <=> mk2[q].stage = "own"
  BY DEF ProcInv, Moved
<1>4. ASSUME NEW q \in Procs, mk2[q].stage = "attached", "ProcStructLock" \in mk2[q].locks,
             mk2[q].reg = "ret", ret'[q] # NULL
      PROVE  /\ \A r \in Procs : MyProc[r] # ret'[q]
             /\ \A i \in DOMAIN free_procs : free_procs[i] # ret'[q]
  <2>1. q # p
    BY <1>4 DEF Moved
  <2>2. mk2[q] = mk[q] /\ ret'[q] = ret[q]
    BY <2>1 DEF Moved, OthersKeep
  <2> QED BY <1>4, <2>2 DEF ProcInv
<1>5. ASSUME NEW q \in Procs \ crashed, q \in DOMAIN index'
      PROVE  /\ mk2[q].stage \in {"own", "leaving"}
             /\ mk2[q].stage = "own" => index'[q].location = MyProc[q]
  <2>1. CASE q = p
    <3>1. mk2[q] = b
      BY <2>1 DEF Moved
    <3> QED BY <1>5, <2>1, <3>1
  <2>2. CASE q # p
    <3>1. q \in DOMAIN index /\ index'[q] = index[q] /\ mk2[q] = mk[q]
      BY <1>5, <2>2 DEF Moved
    <3>2. /\ mk[q].stage \in {"own", "leaving"}
          /\ mk[q].stage = "own" => index[q].location = MyProc[q]
      BY <3>1 DEF ProcInv
    <3> QED BY <3>1, <3>2
  <2> QED BY <2>1, <2>2
<1>6. PidInv(mk2)'
  <2>1. \A q \in Procs : \/ q = p /\ mk2[q] = b
                         \/ q # p /\ mk2[q] = mk[q] /\ ret'[q] = ret[q]
    BY DEF Moved, OthersKeep
  <2>2. /\ SegmentFull => SegmentFull'
        /\ \A x, s : Has(allocs, x, s) => Has(allocs', x, s)
    BY DEF Grows
  <2>3. PidInv(mk)
    BY DEF ProcInv
  <2>4. p \in DOMAIN index' => Has(allocs', MyProc[p], PROC_SIZE) /\ MyProc[p] # NULL
    <3>1. p \in DOMAIN index' => MyProc[p] # NULL
      BY DEF ProcInv
    <3>2. MyProc[p] # NULL => Has(allocs, MyProc[p], PROC_SIZE)
      BY DEF ProcInv, ProcsDistinct, Allocated, Has
    <3> QED BY <2>2, <3>1, <3>2
  <2>5. \A q \in Procs :
          mk2[q].reg = "ret" /\ mk2[q].size = BATCH_SIZE /\ ret'[q] = NULL => SegmentFull'
    BY <2>1, <2>2, <2>3 DEF PidInv
  <2>6. ASSUME NEW q \in Procs, mk2[q].stage = "attached", "ProcStructLock" \in mk2[q].locks,
               mk2[q].reg = "ret", ret'[q] # NULL, NEW r \in Procs \cap DOMAIN index'
        PROVE  index'[r].location # ret'[q]
    <3>1. q # p /\ mk2[q] = mk[q] /\ ret'[q] = ret[q]
      BY <2>1, <2>6
    <3>2. CASE r = p
      BY <2>6, <3>1, <3>2 DEF ProcInv
    <3>3. CASE r # p
      BY <2>3, <2>6, <3>1, <3>3 DEF PidInv
    <3> QED BY <3>2, <3>3
  <2>7. ASSUME NEW q \in Procs \cap DOMAIN index'
        PROVE  /\ Has(allocs', index'[q].location, PROC_SIZE)
               /\ mk2[q].stage # "leaving" /\ index'[q].location # MyProc'[q] =>
                    /\ q \in crashed'
                    /\ \A r \in Procs : MyProc'[r] # index'[q].location
                    /\ \A i \in DOMAIN free_procs' : free_procs'[i] # index'[q].location
    <3>1. CASE q = p
      BY <2>4, <2>7, <3>1
    <3>2. CASE q # p
      <4>1. q \in DOMAIN index /\ index'[q] = index[q] /\ mk2[q] = mk[q]
        BY <2>1, <2>7, <3>2
      <4> QED BY <2>2, <2>3, <2>7, <4>1 DEF PidInv
    <3> QED BY <3>1, <3>2
  <2>8. ASSUME NEW q \in Procs, mk2[q].stage = "own", mk2[q].work = "no", mk2[q].name = "known"
        PROVE  q \in DOMAIN index' \/ SegmentFull'
    <3>1. CASE q = p
      BY <2>1, <2>8, <3>1
    <3>2. CASE q # p
      BY <2>1, <2>2, <2>3, <2>8, <3>2 DEF PidInv
    <3> QED BY <3>1, <3>2
  <2> QED BY <2>5, <2>6, <2>7, <2>8 DEF PidInv
<1> QED BY <1>1, <1>2, <1>3, <1>4, <1>5, <1>6 DEF ProcInv

\* shmem_pid_lookup stores the Proc under the pid.
LEMMA PidLookupStep ==
  ASSUME NEW mk, Fits(mk), StateInv(mk), NEW p \in Procs, PidLookup(p),
         UNCHANGED <<lives, crashed>>
  PROVE  StartupInv'
<1>1. /\ Types /\ LockInv(mk) /\ MemInv(mk) /\ IndexInv(mk) /\ BootInv(mk) /\ PoolInv(mk)
      /\ ProcInv(mk) /\ RegTypes
  BY Parts
<1>2. PICK c : c = Head(todo[p])
  OBVIOUS
<1>3. todo[p] # <<>> /\ c[1] = "pid" /\ p \notin DOMAIN index
  BY <1>2 DEF PidLookup, PidNew, At
<1>4. \A d : Flow(p, c, mk[p], d) =>
        /\ c[2] = p /\ mk[p].stage = "own" /\ d.stage = "own" /\ d.locks = mk[p].locks
        /\ d.reg = "none" /\ d.work = "no" /\ mk[p].work = "no" /\ "ShmemIndexLock" \in mk[p].locks
  BY <1>3, FlowParts DEF FlowIndex, FlowEnter
<1>5. CASE NeedsElements(p, Head(todo[p]))
  <2>1. c[2] = p
    BY <1>2, <1>3, <1>4, HeadFlow
  <2>2. UNCHANGED <<tableVars, lives, crashed>>
    BY DEF PidLookup
  <2> QED BY <1>2, <1>3, <1>5, <2>1, <2>2, NeedsStep
<1>6. CASE ~NeedsElements(p, Head(todo[p]))
  <2>1. /\ UNCHANGED <<total_size, free_offset, allocs>>
        /\ UNCHANGED lockVars /\ UNCHANGED <<semval, held, found, top>>
        /\ UNCHANGED <<ready, free_procs, MyProc, descs, lives, crashed>>
    BY <1>6 DEF lockVars, tableVars, PidLookup, PidNew
  <2>2. /\ elements > 0 /\ elements' = elements - 1
        /\ index' = Entered(p, MyProc[p], 0)
        /\ ret' = [ret EXCEPT ![p] = MyProc[p]] /\ Step(p)
    BY <1>6 DEF PidLookup, PidNew, Return
  <2>3. /\ \E d, mk2 : Flow(p, Head(todo[p]), mk[p], d) /\ Moved(mk, p, d, mk2) /\ Fits(mk2)'
        /\ todo' = [q \in Procs |-> todo'[q]]
        /\ \A q \in Procs \ {p} : todo'[q] = todo[q]
    BY <1>1, <1>3, <2>2, Stepped
  <2>4. PICK d, mk2 : Flow(p, Head(todo[p]), mk[p], d) /\ Moved(mk, p, d, mk2) /\ Fits(mk2)'
    BY <2>3
  <2>5. /\ mk[p].stage = "own" /\ d.stage = "own" /\ d.locks = mk[p].locks
        /\ d.reg = "none" /\ d.work = "no" /\ mk[p].work = "no" /\ "ShmemIndexLock" \in mk[p].locks
    BY <1>2, <1>4, <2>4
  <2>6. MemTypes /\ TableTypes /\ IndexTypes /\ AllocsDisjoint /\ elements \in Nat
        /\ ret \in [Procs -> Nat] /\ MyProc \in [Procs -> Nat]
    BY <1>1 DEF Types, MemInv, RegTypes, TableTypes, IndexTypes
  <2>7. MyProc[p] \in 1..total_size
    <3>1. MyProc[p] # NULL
      BY <1>1, <2>5 DEF ProcInv
    <3> QED BY <1>1, <2>6, <3>1, ProcsBelow
  <2>8. ret' \in [Procs -> Nat] /\ \A q \in Procs \ {p} : ret'[q] = ret[q]
    BY <2>2, <2>6
  <2>9. OthersKeep(p) /\ Grows
    BY <2>1, <2>8 DEF OthersKeep, Grows, SegmentFull
  <2>10. /\ IndexTypes' /\ p \in DOMAIN index' /\ index'[p].location = MyProc[p]
         /\ \A m : m # p => /\ m \in DOMAIN index' <=> m \in DOMAIN index
                            /\ m \in DOMAIN index => index'[m] = index[m]
    <3>1. elements' \in Nat /\ total_size' = total_size /\ 0 \in Nat
      BY <2>1, <2>2, <2>6
    <3>2. p \in Structs \cup Procs /\ MyProc[p] \in {BAD_LOCATION} \cup 1..total_size
      BY <2>7
    <3> QED BY <2>2, <2>6, <3>1, <3>2, EntryMade
  <2>11. p \notin Structs /\ p \notin {BD, BB, HashTable}
    BY StartupAssumption DEF BD, BB, HashTable
  <2>12. Types'
    BY <1>1, <2>1, <2>3, <2>8, <2>10 DEF Types, MemTypes, LockTypes, RegTypes, TableTypes
  <2>13. LockInv(mk2)'
    BY <1>1, <2>1, <2>4, <2>5, LocksKeep
  <2>14. MemInv(mk2)'
    BY <1>1, <2>1, <2>4, <2>5, <2>9, MemKeep
  <2>15. IndexInv(mk2)'
    <3>1. \A q \in Procs \ {p} : mk[q].work = "no"
      BY <1>1, <2>5, WorkAlone
    <3>2. total_size' = total_size
      BY <2>1
    <3> QED BY <1>1, <2>4, <2>5, <2>7, <2>9, <2>10, <2>11, <3>1, <3>2, IndexWork
  <2>16. BootInv(mk2)'
    BY <1>1, <1>3, <2>1, <2>3, <2>4, <2>5, <2>9, BootKeep DEF Booting
  <2>17. PoolInv(mk2)'
    <3>1. \A m \in {BD, BB, HashTable} : m \in DOMAIN index' <=> m \in DOMAIN index
      BY <2>10, <2>11
    <3> QED BY <1>1, <2>1, <2>4, <2>5, <2>9, <3>1, PoolSame DEF Returned
  <2>18. ProcInv(mk2)'
    BY <1>1, <2>1, <2>4, <2>5, <2>9, <2>10, ProcsIndexed
  <2> QED BY <2>4, <2>12, <2>13, <2>14, <2>15, <2>16, <2>17, <2>18 DEF StartupInv, StateInv
<1> QED BY <1>5, <1>6

\* shmem_pid_destroy.
LEMMA PidRemoveStep ==
  ASSUME NEW mk, Fits(mk), StateInv(mk), NEW p \in Procs, PidRemove(p),
         UNCHANGED <<tableVars, lives, crashed>>
  PROVE  StartupInv'
<1>1. /\ Types /\ LockInv(mk) /\ MemInv(mk) /\ IndexInv(mk) /\ BootInv(mk) /\ PoolInv(mk)
      /\ ProcInv(mk) /\ RegTypes
  BY Parts
<1>2. /\ UNCHANGED <<total_size, free_offset, allocs>>
      /\ UNCHANGED lockVars /\ UNCHANGED <<semval, held, found, top>>
      /\ UNCHANGED <<ready, free_procs, MyProc, descs, lives, crashed>>
  BY DEF lockVars, tableVars, PidRemove
<1>3. /\ todo[p] # <<>> /\ Head(todo[p])[1] = "unpid" /\ Step(p)
      /\ \/ /\ p \in DOMAIN index /\ index' = Removed(p) /\ elements' = elements + 1
            /\ ret' = [ret EXCEPT ![p] = index[p].location]
         \/ /\ p \notin DOMAIN index /\ index' = index /\ elements' = elements
            /\ ret' = [ret EXCEPT ![p] = NULL]
  BY DEF PidRemove, Return, At
<1>4. /\ \E d, mk2 : Flow(p, Head(todo[p]), mk[p], d) /\ Moved(mk, p, d, mk2) /\ Fits(mk2)'
      /\ todo' = [q \in Procs |-> todo'[q]]
      /\ \A q \in Procs \ {p} : todo'[q] = todo[q]
  BY <1>1, <1>3, Stepped
<1>5. PICK d, mk2 : Flow(p, Head(todo[p]), mk[p], d) /\ Moved(mk, p, d, mk2) /\ Fits(mk2)'
  BY <1>4
<1>6. /\ mk[p].stage = "leaving" /\ d.stage = "idle" /\ d.locks = mk[p].locks
      /\ d.reg = "none" /\ d.work = "no" /\ mk[p].work = "no" /\ "ShmemIndexLock" \in mk[p].locks
  BY <1>3, <1>5, FlowParts DEF FlowIndex, FlowEnter
<1>7. /\ IndexTypes /\ elements \in Nat /\ ret \in [Procs -> Nat]
      /\ p \in DOMAIN index => index[p].location \in Nat
  BY <1>1, ShmemAssumption DEF Types, MemTypes, IndexTypes, RegTypes, IndexInv
<1>8. ret' \in [Procs -> Nat] /\ \A q \in Procs \ {p} : ret'[q] = ret[q]
  <2>1. CASE p \in DOMAIN index
    BY <1>3, <1>7, <2>1
  <2>2. CASE p \notin DOMAIN index
    BY <1>3, <1>7, <2>2 DEF NULL
  <2> QED BY <2>1, <2>2
<1>9. OthersKeep(p) /\ Grows
  BY <1>2, <1>8 DEF OthersKeep, Grows, SegmentFull
<1>10. /\ IndexTypes' /\ p \notin DOMAIN index'
       /\ \A m : m # p => /\ m \in DOMAIN index' <=> m \in DOMAIN index
                          /\ m \in DOMAIN index => index'[m] = index[m]
  <2>1. total_size' = total_size /\ elements' \in Nat
    BY <1>2, <1>3, <1>7
  <2>2. CASE p \in DOMAIN index
    BY <1>3, <1>7, <2>1, <2>2, EntryRemoved
  <2>3. CASE p \notin DOMAIN index
    BY <1>3, <1>7, <2>1, <2>3 DEF IndexTypes
  <2> QED BY <2>2, <2>3
<1>11. p \notin Structs /\ p \notin {BD, BB, HashTable}
  BY StartupAssumption DEF BD, BB, HashTable
<1>12. Types'
  BY <1>1, <1>2, <1>4, <1>8, <1>10 DEF Types, MemTypes, LockTypes, RegTypes, TableTypes
<1>13. LockInv(mk2)'
  BY <1>1, <1>2, <1>5, <1>6, LocksKeep
<1>14. MemInv(mk2)'
  BY <1>1, <1>2, <1>5, <1>6, <1>9, MemKeep
<1>15. IndexInv(mk2)'
  <2>1. \A q \in Procs \ {p} : mk[q].work = "no"
    BY <1>1, <1>6, WorkAlone
  <2>2. total_size' = total_size
    BY <1>2
  <2> QED BY <1>1, <1>5, <1>6, <1>9, <1>10, <1>11, <2>1, <2>2, IndexWork
<1>16. BootInv(mk2)'
  <2>1. p # Postmaster
    BY <1>1, <1>6 DEF BootInv
  <2> QED BY <1>1, <1>2, <1>3, <1>4, <1>5, <1>6, <1>9, <2>1, BootKeep DEF Booting
<1>17. PoolInv(mk2)'
  <2>1. \A m \in {BD, BB, HashTable} : ready'[m] = ready[m] /\ (m \in DOMAIN index' <=> m \in DOMAIN index)
    BY <1>2, <1>10, <1>11
  <2>2. OneInitialiser'
    BY <1>1, <1>2 DEF PoolInv, OneInitialiser
  <2>3. "BufMgrLock" \notin mk[p].locks /\ d.stage \notin Pooling /\ d.stage \notin {"attached", "own"}
    BY <1>1, <1>6 DEF PoolInv, Pooling
  <2> QED BY <1>1, <1>5, <1>6, <1>9, <2>1, <2>2, <2>3, PoolKeep
<1>18. ProcInv(mk2)'
  BY <1>1, <1>2, <1>5, <1>6, <1>9, <1>10, ProcsIndexed
<1> QED BY <1>5, <1>12, <1>13, <1>14, <1>15, <1>16, <1>17, <1>18 DEF StartupInv, StateInv

\* A structure that is initialised once more, when it was not before.
LEMMA Counted ==
  ASSUME ready \in [Structs -> Nat], NEW n \in Structs, ready[n] = 0,
         ready' = [ready EXCEPT ![n] = @ + 1], \A m \in Structs : ready[m] <= 1
  PROVE  /\ ready' \in [Structs -> Nat] /\ ready'[n] = 1
         /\ \A m \in Structs \ {n} : ready'[m] = ready[m]
         /\ \A m \in Structs : ready'[m] <= 1
<1>1. ready' \in [Structs -> Nat] /\ ready'[n] = 1 /\ \A m \in Structs \ {n} : ready'[m] = ready[m]
  OBVIOUS
<1>2. \A m \in Structs : ready'[m] <= 1
  BY <1>1
<1> QED BY <1>1, <1>2

\* init_proc_global initialises the header of the process table.
LEMMA InitProcHeaderStep ==
  ASSUME NEW mk, Fits(mk), StateInv(mk), NEW p \in Procs, InitProcHeader(p),
         UNCHANGED <<lives, crashed>>
  PROVE  StartupInv'
<1>1. /\ Types /\ LockInv(mk) /\ MemInv(mk) /\ IndexInv(mk) /\ BootInv(mk) /\ PoolInv(mk)
      /\ ProcInv(mk) /\ RegTypes
  BY Parts
<1>2. /\ UNCHANGED <<total_size, free_offset, allocs, index, elements>>
      /\ UNCHANGED lockVars /\ UNCHANGED <<semval, held, ret, found, top>>
      /\ UNCHANGED <<MyProc, descs, lives, crashed>>
  BY DEF shmemVars, lockVars, InitProcHeader
<1>3. todo[p] # <<>> /\ Head(todo[p])[1] = "procglobal"
  BY DEF InitProcHeader, At
<1>4. \A d : Flow(p, Head(todo[p]), mk[p], d) =>
        /\ mk[p].stage = "header" /\ d.stage = "up" /\ mk[p].work = "no"
        /\ d.locks = mk[p].locks /\ d.reg = "none" /\ d.work = "no"
  BY <1>3, FlowParts DEF FlowStage, Advances
<1>5. mk[p].stage = "header" /\ mk[p].work = "no"
  BY <1>3, <1>4, HeadFlow
<1>6. CASE ~found[p] /\ ret[p] = NULL
  <2>1. Dies(p) /\ UNCHANGED <<shmemVars, lockVars, ret, found, top, tableVars, lives, crashed>>
    BY <1>6 DEF InitProcHeader, tableVars
  <2> QED BY <1>3, <1>5, <2>1, Died
<1>7. CASE ~(~found[p] /\ ret[p] = NULL)
  <2>1. /\ Step(p)
        /\ \/ ready' = ready /\ free_procs' = free_procs
           \/ ready' = [ready EXCEPT !["Proc Header"] = @ + 1] /\ free_procs' = <<>>
    BY <1>7 DEF InitProcHeader
  <2>2. /\ \E d, mk2 : Flow(p, Head(todo[p]), mk[p], d) /\ Moved(mk, p, d, mk2) /\ Fits(mk2)'
        /\ todo' = [q \in Procs |-> todo'[q]]
        /\ \A q \in Procs \ {p} : todo'[q] = todo[q]
    BY <1>1, <1>3, <2>1, Stepped
  <2>3. PICK d, mk2 : Flow(p, Head(todo[p]), mk[p], d) /\ Moved(mk, p, d, mk2) /\ Fits(mk2)'
    BY <2>2
  <2>4. d.stage = "up" /\ d.locks = mk[p].locks /\ d.reg = "none" /\ d.work = "no"
    BY <1>4, <2>3
  <2>5. p = Postmaster /\ \A q \in Procs \ {p} : todo[q] = <<>> /\ Final(mk[q])
    BY <1>1, <1>5, BootAlone DEF Booting
  <2>6. mk2[p].stage = "up" /\ \A q \in Procs \ {p} : mk2[q].stage = "idle"
    <3>1. mk2[p] = d /\ \A q \in Procs \ {p} : mk2[q] = mk[q]
      BY <2>3 DEF Moved
    <3>2. \A q \in Procs \ {p} : mk[q].stage = "idle"
      BY <2>5 DEF Final
    <3> QED BY <2>4, <3>1, <3>2
  <2>7. OthersKeep(p) /\ Grows
    BY <1>2 DEF OthersKeep, Grows, SegmentFull
  <2>8. /\ ready \in [Structs -> Nat] /\ "Proc Header" \in Structs /\ ready["Proc Header"] = 0
        /\ "Proc Header" \notin {BD, BB, HashTable} /\ {BD, BB, HashTable} \subseteq Structs
    BY <1>1, <1>5, StartupAssumption DEF Types, TableTypes, BootInv, Booting, BD, BB, HashTable
  <2>9. /\ ready' \in [Structs -> Nat] /\ \A n \in Structs : ready'[n] <= 1
        /\ \A n \in Structs \ {"Proc Header"} : ready'[n] = ready[n]
    <3>0. \A n \in Structs : ready[n] <= 1
      BY <1>1 DEF PoolInv, OneInitialiser
    <3>1. CASE ready' = ready
      BY <2>8, <3>0, <3>1
    <3>2. CASE ready' = [ready EXCEPT !["Proc Header"] = @ + 1]
      <4>1. PICK h : h = "Proc Header"
        OBVIOUS
      <4>2. ready' = [ready EXCEPT ![h] = @ + 1] /\ h \in Structs /\ ready[h] = 0
        BY <2>8, <3>2, <4>1
      <4>3. /\ ready' \in [Structs -> Nat] /\ \A n \in Structs : ready'[n] <= 1
            /\ \A n \in Structs \ {h} : ready'[n] = ready[n]
        BY <2>8, <3>0, <4>2, Counted
      <4> QED BY <4>1, <4>3
    <3> QED BY <2>1, <3>1, <3>2
  <2>10. free_procs' \in Seq(1..total_size) /\ (free_procs' = free_procs \/ free_procs' = <<>>)
    <3>1. free_procs \in Seq(1..total_size) /\ <<>> \in Seq(1..total_size)
      BY <1>1 DEF Types, TableTypes
    <3>2. free_procs' = free_procs \/ free_procs' = <<>>
      BY <2>1
    <3> QED BY <3>1, <3>2
  <2>11. Types'
    BY <1>1, <1>2, <2>2, <2>9, <2>10 DEF Types, MemTypes, IndexTypes, LockTypes, RegTypes, TableTypes
  <2>12. LockInv(mk2)'
    BY <1>1, <1>2, <2>3, <2>4, LocksKeep
  <2>13. MemInv(mk2)'
    BY <1>1, <1>2, <2>3, <2>4, <2>7, MemKeep
  <2>14. IndexInv(mk2)'
    BY <1>1, <1>2, <1>5, <2>3, <2>4, <2>7, IndexKeep
  <2>15. BootInv(mk2)'
    <3>1. \A q \in Procs \ {Postmaster} : todo'[q] = <<>>
      BY <2>2, <2>5
    <3>2. mk2[Postmaster].stage = "up"
      BY <2>5, <2>6
    <3>3. \A q \in Procs : mk2[q].stage \notin Booting
      BY <2>5, <2>6 DEF Booting
    <3> QED BY <3>1, <3>2, <3>3 DEF BootInv, Booting
  <2>16. PoolInv(mk2)'
    <3>1. OneInitialiser'
      BY <2>9 DEF OneInitialiser
    <3>2. "BufMgrLock" \notin mk[p].locks /\ d.stage \notin Pooling /\ d.stage \notin {"attached", "own"}
      BY <1>1, <1>5, <2>4 DEF PoolInv, Pooling
    <3>3. \A m \in {BD, BB, HashTable} : ready'[m] = ready[m] /\ (m \in DOMAIN index' <=> m \in DOMAIN index)
      BY <1>2, <2>8, <2>9
    <3> QED BY <1>1, <2>3, <2>4, <2>7, <3>1, <3>2, <3>3, PoolKeep
  <2>17. ProcInv(mk2)'
    <3>1. \A q \in Procs : mk2[q].stage \notin {"own", "leaving", "attached"}
      BY <2>6
    <3>2. \A q \in Procs : mk[q].stage \notin {"own", "leaving"}
      BY <1>5, <2>5 DEF Final
    <3>3. \A q \in Procs : MyProc'[q] = NULL
      BY <1>1, <1>2, <3>2 DEF ProcInv
    <3>4. \A q \in Procs \ crashed' : q \notin DOMAIN index'
      BY <1>1, <1>2, <3>2 DEF ProcInv
    <3>5. /\ \A i \in DOMAIN free_procs' : Has(allocs', free_procs'[i], PROC_SIZE)
          /\ \A i, j \in DOMAIN free_procs' : free_procs'[i] = free_procs'[j] => i = j
      <4>1. CASE free_procs' = free_procs
        BY <1>1, <1>2, <4>1 DEF ProcInv, ProcsDistinct
      <4>2. CASE free_procs' = <<>>
        BY <4>2
      <4> QED BY <2>10, <4>1, <4>2
    <3>6. ProcsDistinct'
      BY <3>3, <3>5 DEF ProcsDistinct
    <3>7. PidInv(mk2)'
      <4>1. \A q \in Procs : mk2[q].reg = "none"
        BY <2>3, <2>4, <2>5 DEF Moved, Final
      <4>2. /\ PidInv(mk) /\ index' = index /\ allocs' = allocs /\ crashed' = crashed
            /\ MyProc' = MyProc
        BY <1>1, <1>2 DEF ProcInv
      <4>3. \A q \in Procs \cap DOMAIN index' : Has(allocs', index'[q].location, PROC_SIZE)
        BY <4>2 DEF PidInv
      <4>4. ASSUME NEW q \in Procs \cap DOMAIN index', index'[q].location # MyProc'[q]
            PROVE  /\ q \in crashed'
                   /\ \A r \in Procs : MyProc'[r] # index'[q].location
                   /\ \A i \in DOMAIN free_procs' : free_procs'[i] # index'[q].location
        <5>1. q \in Procs \cap DOMAIN index /\ mk[q].stage # "leaving" /\ index[q].location # MyProc[q]
          BY <3>2, <4>2, <4>4
        <5>2. /\ q \in crashed /\ \A r \in Procs : MyProc[r] # index[q].location
              /\ \A i \in DOMAIN free_procs : free_procs[i] # index[q].location
          BY <4>2, <5>1 DEF PidInv
        <5>3. \A i \in DOMAIN free_procs' : free_procs'[i] # index[q].location
          BY <2>10, <5>2
        <5> QED BY <4>2, <5>2, <5>3
      <4> QED BY <3>1, <4>1, <4>3, <4>4 DEF PidInv
    <3> QED BY <3>1, <3>3, <3>4, <3>5, <3>6, <3>7 DEF ProcInv
  <2> QED BY <2>3, <2>11, <2>12, <2>13, <2>14, <2>15, <2>16, <2>17 DEF StartupInv, StateInv
<1> QED BY <1>6, <1>7

\* A step of the process that sets up the pool or attaches to it.
LEMMA PoolStep ==
  ASSUME NEW mk, Fits(mk), StateInv(mk), NEW p \in Procs, NEW d, NEW mk2, Moved(mk, p, d, mk2),
         Fits(mk2)', todo[p] # <<>>, todo' = [q \in Procs |-> todo'[q]],
         \A q \in Procs \ {p} : todo'[q] = todo[q],
         UNCHANGED <<shmemVars, lockVars, ret, found, top, free_procs, MyProc, lives, crashed>>,
         mk[p].stage \in Pooling, d.stage \in Pooling, d.locks = mk[p].locks, d.reg = "none",
         d.work = "no", mk[p].work = "no",
         ready' \in [Structs -> Nat], ready'["Proc Header"] = ready["Proc Header"],
         descs' \in [Procs -> [at : Nat, found : BOOLEAN]],
         \A q \in Procs \ {p} : descs'[q] = descs[q],
         OneInitialiser', Ready(1, 1, 1) => Ready(1, 1, 1)', PoolAt(p, d)'
  PROVE  StartupInv'
<1>1. /\ Types /\ LockInv(mk) /\ MemInv(mk) /\ IndexInv(mk) /\ BootInv(mk) /\ PoolInv(mk)
      /\ ProcInv(mk) /\ RegTypes
  BY Parts
<1>2. /\ UNCHANGED <<total_size, free_offset, allocs, index, elements>>
      /\ UNCHANGED lockVars /\ UNCHANGED <<semval, held, ret, found, top>>
      /\ UNCHANGED <<free_procs, MyProc, lives, crashed>>
  BY DEF shmemVars, lockVars
<1>3. OthersKeep(p) /\ Grows
  BY <1>2 DEF OthersKeep, Grows, SegmentFull
<1>4. Types'
  BY <1>1, <1>2 DEF Types, MemTypes, IndexTypes, LockTypes, RegTypes, TableTypes
<1>5. LockInv(mk2)'
  BY <1>1, <1>2, LocksKeep
<1>6. MemInv(mk2)'
  BY <1>1, <1>2, <1>3, MemKeep
<1>7. IndexInv(mk2)'
  BY <1>1, <1>2, <1>3, IndexKeep
<1>8. d.stage \notin Booting /\ d.stage \notin {"idle", "own", "leaving", "attached"}
      /\ mk[p].stage \notin {"own", "leaving"}
  BY DEF Pooling, Booting
<1>9. BootInv(mk2)'
  BY <1>1, <1>2, <1>3, <1>8, BootKeep
<1>10. PoolInv(mk2)'
  <2>1. "BufMgrLock" \in mk[p].locks
    BY <1>1 DEF PoolInv
  <2> QED BY <1>1, <2>1, PoolMoves
<1>11. ProcInv(mk2)'
  BY <1>1, <1>2, <1>3, <1>8, ProcsKeep
<1> QED BY <1>4, <1>5, <1>6, <1>7, <1>9, <1>10, <1>11 DEF StartupInv, StateInv

\* One part of the pool more is initialised.
LEMMA OneMore ==
  ASSUME TableTypes, NEW n \in {BD, BB, HashTable}, ready[n] = 0, OneInitialiser,
         ready' = [ready EXCEPT ![n] = @ + 1]
  PROVE  /\ ready' \in [Structs -> Nat] /\ ready'["Proc Header"] = ready["Proc Header"]
         /\ OneInitialiser' /\ ready'[n] = 1
         /\ \A m \in {BD, BB, HashTable} \ {n} : ready'[m] = ready[m]
<1>1. /\ ready \in [Structs -> Nat] /\ "Proc Header" \in Structs
      /\ n # "Proc Header" /\ {BD, BB, HashTable} \subseteq Structs
  BY StartupAssumption DEF TableTypes, BD, BB, HashTable
<1>2. n \in Structs /\ ready \in [Structs -> Nat]
  BY <1>1
<1>3. \A m \in Structs : ready[m] <= 1
  BY DEF OneInitialiser
<1>4. /\ ready' \in [Structs -> Nat] /\ ready'[n] = 1
      /\ \A m \in Structs \ {n} : ready'[m] = ready[m]
      /\ \A m \in Structs : ready'[m] <= 1
  BY <1>2, <1>3, Counted
<1> QED BY <1>1, <1>4 DEF OneInitialiser

\* init_buffer_pool keeps what it was told of the descriptors.
LEMMA KeepDescsStep ==
  ASSUME NEW mk, Fits(mk), StateInv(mk), NEW p \in Procs, KeepDescs(p),
         UNCHANGED <<lives, crashed>>
  PROVE  StartupInv'
<1>1. /\ Types /\ LockInv(mk) /\ MemInv(mk) /\ IndexInv(mk) /\ BootInv(mk) /\ PoolInv(mk)
      /\ ProcInv(mk) /\ RegTypes
  BY Parts
<1>2. PICK e : e = [at |-> ret[p], found |-> found[p]]
  OBVIOUS
<1>3. /\ todo[p] # <<>> /\ Head(todo[p])[1] = "descs" /\ Step(p)
      /\ descs' = [descs EXCEPT ![p] = e] /\ ready' = ready
      /\ UNCHANGED <<shmemVars, lockVars, ret, found, top, free_procs, MyProc, lives, crashed>>
  BY <1>2 DEF KeepDescs, At
<1>4. /\ \E d, mk2 : Flow(p, Head(todo[p]), mk[p], d) /\ Moved(mk, p, d, mk2) /\ Fits(mk2)'
      /\ todo' = [q \in Procs |-> todo'[q]]
      /\ \A q \in Procs \ {p} : todo'[q] = todo[q]
  BY <1>1, <1>3, Stepped
<1>5. PICK d, mk2 : Flow(p, Head(todo[p]), mk[p], d) /\ Moved(mk, p, d, mk2) /\ Fits(mk2)'
  BY <1>4
<1>6. /\ mk[p].stage = "pool2" /\ d.stage = "pool3" /\ d.locks = mk[p].locks
      /\ d.reg = "none" /\ d.work = "no" /\ mk[p].work = "no"
  BY <1>3, <1>5, FlowParts DEF FlowStage, Advances
<1>7. mk[p].stage \in Pooling /\ d.stage \in Pooling
  BY <1>6 DEF Pooling
<1>8. /\ descs \in [Procs -> [at : Nat, found : BOOLEAN]] /\ e \in [at : Nat, found : BOOLEAN]
      /\ e.at = ret[p] /\ e.found = found[p]
  BY <1>1, <1>2 DEF RegTypes
<1>9. /\ descs' \in [Procs -> [at : Nat, found : BOOLEAN]] /\ descs'[p] = e
      /\ \A q \in Procs \ {p} : descs'[q] = descs[q]
  BY <1>3, <1>8
<1>10. index' = index
  BY <1>3 DEF shmemVars
<1>11. /\ \A x, y, z : Ready(x, y, z)' <=> Ready(x, y, z)
       /\ PoolDone' <=> PoolDone
  BY <1>3, <1>10 DEF Ready, PoolDone
<1>12. PoolAt(p, mk[p])
  BY <1>1, <1>7 DEF PoolInv
<1>13. PoolAt(p, d)'
  <2>1. CASE found[p]
    <3>1. PoolDone
      BY <1>6, <1>12, <2>1 DEF PoolAt
    <3> QED BY <1>6, <1>8, <1>9, <1>11, <2>1, <3>1 DEF PoolAt
  <2>2. CASE ~found[p]
    <3>1. /\ Ready(0, 0, 0) /\ BB \notin DOMAIN index /\ HashTable \notin DOMAIN index
          /\ ret[p] # NULL => BD \in DOMAIN index
      BY <1>6, <1>12, <2>2 DEF PoolAt
    <3> QED BY <1>6, <1>8, <1>9, <1>10, <1>11, <2>2, <3>1 DEF PoolAt
  <2> QED BY <2>1, <2>2
<1>14. OneInitialiser' /\ ready' \in [Structs -> Nat]
  BY <1>1, <1>3 DEF PoolInv, OneInitialiser, Types, TableTypes
<1>15. Ready(1, 1, 1) => Ready(1, 1, 1)'
  BY <1>11
<1> QED BY <1>3, <1>4, <1>5, <1>6, <1>7, <1>9, <1>13, <1>14, <1>15, PoolStep

\* init_buffer_pool links the buffers, unless it found them linked.
LEMMA LinkBuffersStep ==
  ASSUME NEW mk, Fits(mk), StateInv(mk), NEW p \in Procs, LinkBuffers(p),
         UNCHANGED <<lives, crashed>>
  PROVE  StartupInv'
<1>1. /\ Types /\ LockInv(mk) /\ MemInv(mk) /\ IndexInv(mk) /\ BootInv(mk) /\ PoolInv(mk)
      /\ ProcInv(mk) /\ RegTypes
  BY Parts
<1>2. /\ todo[p] # <<>> /\ Head(todo[p])[1] = "link" /\ descs' = descs /\ index' = index
      /\ UNCHANGED <<shmemVars, lockVars, ret, found, top, free_procs, MyProc, lives, crashed>>
  BY DEF LinkBuffers, At, shmemVars
<1>3. \A d : Flow(p, Head(todo[p]), mk[p], d) =>
        /\ mk[p].stage = "pool4" /\ d.stage = "pool5" /\ d.locks = mk[p].locks
        /\ d.reg = "none" /\ d.work = "no" /\ mk[p].work = "no"
  BY <1>2, FlowParts DEF FlowStage, Advances
<1>4. mk[p].stage = "pool4" /\ mk[p].work = "no"
  BY <1>2, <1>3, HeadFlow
<1>5. "pool4" \in Pooling /\ "pool5" \in Pooling
  BY DEF Pooling
<1>6. PoolAt(p, mk[p])
  BY <1>1, <1>4, <1>5 DEF PoolInv
<1>7. found[p] = descs[p].found
  BY <1>4, <1>6 DEF PoolAt
<1>8. descs \in [Procs -> [at : Nat, found : BOOLEAN]] /\ TableTypes /\ OneInitialiser
  BY <1>1 DEF RegTypes, Types, PoolInv
<1>9. CASE ~Step(p)
  <2>1. Dies(p) /\ ready' = ready
    BY <1>7, <1>9 DEF LinkBuffers
  <2>2. UNCHANGED <<shmemVars, lockVars, ret, found, top, tableVars, lives, crashed>>
    BY <1>2, <2>1 DEF tableVars
  <2> QED BY <1>2, <1>4, <2>1, <2>2, Died
<1>10. CASE Step(p)
  <2>1. /\ \E d, mk2 : Flow(p, Head(todo[p]), mk[p], d) /\ Moved(mk, p, d, mk2) /\ Fits(mk2)'
        /\ todo' = [q \in Procs |-> todo'[q]]
        /\ \A q \in Procs \ {p} : todo'[q] = todo[q]
    BY <1>1, <1>2, <1>10, Stepped
  <2>2. PICK d, mk2 : Flow(p, Head(todo[p]), mk[p], d) /\ Moved(mk, p, d, mk2) /\ Fits(mk2)'
    BY <2>1
  <2>3. /\ d.stage = "pool5" /\ d.locks = mk[p].locks /\ d.reg = "none" /\ d.work = "no"
    BY <1>3, <2>2
  <2>4. CASE found[p]
    <3>1. ready' = ready
      BY <2>4 DEF LinkBuffers
    <3>2. PoolDone
      BY <1>4, <1>6, <2>4 DEF PoolAt
    <3>3. PoolDone' /\ (Ready(1, 1, 1) => Ready(1, 1, 1)')
      BY <1>2, <3>1, <3>2 DEF PoolDone, Ready
    <3>4. PoolAt(p, d)'
      BY <1>2, <1>7, <2>3, <2>4, <3>3 DEF PoolAt
    <3>5. OneInitialiser' /\ ready' \in [Structs -> Nat] /\ ready'["Proc Header"] = ready["Proc Header"]
      BY <1>8, <3>1 DEF OneInitialiser, TableTypes
    <3> QED BY <1>2, <1>4, <1>5, <1>8, <2>1, <2>2, <2>3, <3>3, <3>4, <3>5, PoolStep
  <2>5. CASE ~found[p]
    <3>1. Ready(0, 0, 0) /\ HashTable \notin DOMAIN index
          /\ (descs[p].at # NULL => BD \in DOMAIN index)
          /\ (ret[p] # NULL => BB \in DOMAIN index)
      BY <1>4, <1>6, <2>5 DEF PoolAt
    <3>2. CASE NULL \in {descs[p].at, ret[p]}
      <4>1. Dies(p) /\ ready' = ready
        BY <1>7, <2>5, <3>2 DEF LinkBuffers
      <4>2. UNCHANGED <<shmemVars, lockVars, ret, found, top, tableVars, lives, crashed>>
        BY <1>2, <4>1 DEF tableVars
      <4> QED BY <1>2, <1>4, <4>1, <4>2, Died
    <3>3. CASE NULL \notin {descs[p].at, ret[p]}
      <4>1. ready' = [ready EXCEPT ![BB] = @ + 1]
        BY <1>7, <2>5, <3>3 DEF LinkBuffers, BB
      <4>2. /\ ready' \in [Structs -> Nat] /\ ready'["Proc Header"] = ready["Proc Header"]
            /\ OneInitialiser' /\ ready'[BB] = 1
            /\ \A m \in {BD, BB, HashTable} \ {BB} : ready'[m] = ready[m]
        BY <1>8, <3>1, <4>1, OneMore DEF Ready
      <4>3. BD # BB /\ HashTable # BB
        BY DEF BD, BB, HashTable
      <4>4. Ready(0, 1, 0)' /\ ~Ready(1, 1, 1)
        <5>1. ready[BD] = 0 /\ ready[HashTable] = 0
          BY <3>1 DEF Ready
        <5>2. ready'[BD] = 0 /\ ready'[HashTable] = 0
          BY <4>2, <4>3, <5>1
        <5>3. ready[BD] # 1
          BY <5>1
        <5> QED BY <4>2, <5>2, <5>3 DEF Ready
      <4>5. PoolAt(p, d)'
        BY <1>2, <1>7, <2>3, <2>5, <3>1, <3>3, <4>4 DEF PoolAt
      <4> QED BY <1>2, <1>4, <1>5, <1>8, <2>1, <2>2, <2>3, <4>2, <4>4, <4>5, PoolStep
    <3> QED BY <3>2, <3>3
  <2> QED BY <2>4, <2>5
<1> QED BY <1>9, <1>10

\* init_freelist.
LEMMA InitFreelistStep ==
  ASSUME NEW mk, Fits(mk), StateInv(mk), NEW p \in Procs, InitFreelist(p),
         UNCHANGED <<lives, crashed>>
  PROVE  StartupInv'
<1>1. /\ Types /\ LockInv(mk) /\ MemInv(mk) /\ IndexInv(mk) /\ BootInv(mk) /\ PoolInv(mk)
      /\ ProcInv(mk) /\ RegTypes
  BY Parts
<1>2. /\ todo[p] # <<>> /\ Head(todo[p])[1] = "freelist" /\ descs' = descs /\ index' = index /\ Step(p)
      /\ UNCHANGED <<shmemVars, lockVars, ret, found, top, free_procs, MyProc, lives, crashed>>
  BY DEF InitFreelist, At, shmemVars
<1>3. /\ \E d, mk2 : Flow(p, Head(todo[p]), mk[p], d) /\ Moved(mk, p, d, mk2) /\ Fits(mk2)'
      /\ todo' = [q \in Procs |-> todo'[q]]
      /\ \A q \in Procs \ {p} : todo'[q] = todo[q]
  BY <1>1, <1>2, Stepped
<1>4. PICK d, mk2 : Flow(p, Head(todo[p]), mk[p], d) /\ Moved(mk, p, d, mk2) /\ Fits(mk2)'
  BY <1>3
<1>5. /\ mk[p].stage = "pool7" /\ d.stage = "pool8" /\ d.locks = mk[p].locks
      /\ d.reg = "none" /\ d.work = "no" /\ mk[p].work = "no"
  BY <1>2, <1>4, FlowParts DEF FlowStage, Advances
<1>6. mk[p].stage \in Pooling /\ d.stage \in Pooling
  BY <1>5 DEF Pooling
<1>7. PoolAt(p, mk[p])
  BY <1>1, <1>6 DEF PoolInv
<1>8. descs \in [Procs -> [at : Nat, found : BOOLEAN]] /\ TableTypes /\ OneInitialiser
  BY <1>1 DEF RegTypes, Types, PoolInv
<1>9. CASE descs[p].found
  <2>1. ready' = ready
    BY <1>9 DEF InitFreelist
  <2>2. PoolDone
    BY <1>5, <1>7, <1>9 DEF PoolAt
  <2>3. PoolDone' /\ (Ready(1, 1, 1) => Ready(1, 1, 1)')
    BY <1>2, <2>1, <2>2 DEF PoolDone, Ready
  <2>4. PoolAt(p, d)'
    BY <1>5, <2>3 DEF PoolAt
  <2>5. OneInitialiser' /\ ready' \in [Structs -> Nat] /\ ready'["Proc Header"] = ready["Proc Header"]
    BY <1>8, <2>1 DEF OneInitialiser, TableTypes
  <2> QED BY <1>2, <1>3, <1>4, <1>5, <1>6, <1>8, <2>3, <2>4, <2>5, PoolStep
<1>10. CASE ~descs[p].found
  <2>1. Ready(0, 1, 1) /\ {BD, BB, HashTable} \subseteq DOMAIN index
    BY <1>5, <1>7, <1>10 DEF PoolAt
  <2>2. ready' = [ready EXCEPT ![BD] = @ + 1]
    BY <1>10 DEF InitFreelist, BD
  <2>3. /\ ready' \in [Structs -> Nat] /\ ready'["Proc Header"] = ready["Proc Header"]
        /\ OneInitialiser' /\ ready'[BD] = 1
        /\ \A m \in {BD, BB, HashTable} \ {BD} : ready'[m] = ready[m]
    BY <1>8, <2>1, <2>2, OneMore DEF Ready
  <2>4. BD # BB /\ HashTable # BD
    BY DEF BD, BB, HashTable
  <2>5. Ready(1, 1, 1)'
    BY <2>1, <2>3, <2>4 DEF Ready
  <2>6. PoolDone'
    BY <1>2, <2>1, <2>5 DEF PoolDone
  <2>7. PoolAt(p, d)'
    BY <1>5, <2>6 DEF PoolAt
  <2> QED BY <1>2, <1>3, <1>4, <1>5, <1>6, <1>8, <2>3, <2>5, <2>7, PoolStep
<1> QED BY <1>9, <1>10

\* hash_create attaches to the buffer lookup table, or asks for its memory.
LEMMA HashCreateStep ==
  ASSUME NEW mk, Fits(mk), StateInv(mk), NEW p \in Procs, HashCreate(p),
         UNCHANGED <<lives, crashed>>
  PROVE  StartupInv'
<1>1. /\ Types /\ LockInv(mk) /\ MemInv(mk) /\ IndexInv(mk) /\ BootInv(mk) /\ PoolInv(mk)
      /\ ProcInv(mk) /\ RegTypes
  BY Parts
<1>2. /\ todo[p] # <<>> /\ Head(todo[p])[1] = "hash_create" /\ descs' = descs /\ index' = index
      /\ ready' = ready
      /\ UNCHANGED <<shmemVars, lockVars, ret, found, top, free_procs, MyProc, lives, crashed>>
      /\ UNCHANGED <<shmemVars, lockVars, ret, found, top, tableVars, lives, crashed>>
  BY DEF HashCreate, At, shmemVars, tableVars
<1>3. \A d : Flow(p, Head(todo[p]), mk[p], d) =>
        /\ mk[p].stage = "pool6" /\ d.stage = "pool7" /\ d.locks = mk[p].locks
        /\ d.reg = "none" /\ d.work = "no" /\ mk[p].work = "no" /\ "ShmemLock" \notin mk[p].locks
  BY <1>2, FlowParts DEF FlowStage, Advances
<1>4. mk[p].stage = "pool6" /\ mk[p].work = "no" /\ "ShmemLock" \notin mk[p].locks
  BY <1>2, <1>3, HeadFlow
<1>5. "pool6" \in Pooling /\ "pool7" \in Pooling /\ "hash" \in Pooling
  BY DEF Pooling
<1>6. PoolAt(p, mk[p])
  BY <1>1, <1>4, <1>5 DEF PoolInv
<1>7. found[p] = descs[p].found
  BY <1>4, <1>6 DEF PoolAt
<1>8. /\ descs' \in [Procs -> [at : Nat, found : BOOLEAN]] /\ OneInitialiser'
      /\ ready' \in [Structs -> Nat] /\ ready'["Proc Header"] = ready["Proc Header"]
      /\ \A q \in Procs \ {p} : descs'[q] = descs[q]
  BY <1>1, <1>2 DEF RegTypes, Types, TableTypes, PoolInv, OneInitialiser
<1>9. /\ \A x, y, z : Ready(x, y, z)' <=> Ready(x, y, z)
      /\ PoolDone' <=> PoolDone
  BY <1>2 DEF Ready, PoolDone
<1>10. CASE ret[p] = NULL
  <2>1. Dies(p)
    BY <1>10 DEF HashCreate
  <2> QED BY <1>2, <1>4, <2>1, Died
<1>11. CASE ret[p] # NULL /\ found[p]
  <2>1. Step(p)
    BY <1>11 DEF HashCreate
  <2>2. /\ \E d, mk2 : Flow(p, Head(todo[p]), mk[p], d) /\ Moved(mk, p, d, mk2) /\ Fits(mk2)'
        /\ todo' = [q \in Procs |-> todo'[q]]
        /\ \A q \in Procs \ {p} : todo'[q] = todo[q]
    BY <1>1, <1>2, <2>1, Stepped
  <2>3. PICK d, mk2 : Flow(p, Head(todo[p]), mk[p], d) /\ Moved(mk, p, d, mk2) /\ Fits(mk2)'
    BY <2>2
  <2>4. d.stage = "pool7" /\ d.locks = mk[p].locks /\ d.reg = "none" /\ d.work = "no"
    BY <1>3, <2>3
  <2>5. PoolDone
    BY <1>4, <1>6, <1>11 DEF PoolAt
  <2>6. PoolAt(p, d)'
    BY <1>2, <1>7, <1>9, <1>11, <2>4, <2>5 DEF PoolAt
  <2> QED BY <1>2, <1>4, <1>5, <1>8, <1>9, <2>2, <2>3, <2>4, <2>6, PoolStep
<1>12. CASE ret[p] # NULL /\ ~found[p]
  <2>1. Call(p, shmem_alloc(SEGS_SIZE) \o <<<<"hash_done", HashTable>>>>)
    BY <1>12 DEF HashCreate
  <2>2. PICK b : b = Mark(mk[p].locks, "hash", "none", 0, "no", "none")
    OBVIOUS
  <2>3. b.locks = mk[p].locks /\ b.stage = "hash" /\ b.reg = "none" /\ b.work = "no"
    BY <2>2 DEF Mark
  <2>4. PICK a : a = Mark(mk[p].locks, "hash", "ret", SEGS_SIZE, "no", "none")
    OBVIOUS
  <2>5. ASSUME NEW d, Flow(p, Head(todo[p]), mk[p], d)
        PROVE  Triple(p, shmem_alloc(SEGS_SIZE) \o <<<<"hash_done", HashTable>>>>, b, d)
    <3>1. Triple(p, shmem_alloc(SEGS_SIZE), b, a)
      <4>1. SEGS_SIZE \in Nat \ {0} /\ Carved("hash") = "hash" /\ "hash" # "boot" /\ "hash" \notin Returned
        BY StartupAssumption DEF Carved, Returned
      <4>2. Triple(p, shmem_alloc(SEGS_SIZE), Mark(mk[p].locks, "hash", "none", 0, "no", "none"),
                   Mark(mk[p].locks, Carved("hash"), "ret", SEGS_SIZE, "no", "none"))
        BY <1>4, <4>1, AllocTriple
      <4> QED BY <2>2, <2>4, <4>1, <4>2
    <3>2. Flow(p, <<"hash_done", HashTable>>, a, d)
      <4>1. a.locks = mk[p].locks /\ a.stage = "hash" /\ a.reg = "ret" /\ a.work = "no"
        BY <2>4 DEF Mark
      <4>2. Advances("hash_done", a.stage, d.stage) /\ d.locks = a.locks /\ d.reg = "none" /\ d.work = "no"
        BY <1>3, <2>5, <4>1 DEF Advances
      <4> QED BY <4>1, <4>2 DEF Flow, FlowStage
    <3> QED BY <3>1, <3>2, TripleOne, TripleCat
  <2>6. /\ \E mk2 : Moved(mk, p, b, mk2) /\ Fits(mk2)'
        /\ todo' = [q \in Procs |-> todo'[q]]
        /\ \A q \in Procs \ {p} : todo'[q] = todo[q]
    BY <1>1, <1>2, <2>1, <2>5, Called
  <2>7. PICK mk2 : Moved(mk, p, b, mk2) /\ Fits(mk2)'
    BY <2>6
  <2>8. Ready(0, 1, 0) /\ {BD, BB, HashTable} \subseteq DOMAIN index
    BY <1>4, <1>6, <1>12 DEF PoolAt
  <2>9. PoolAt(p, b)'
    BY <1>2, <1>7, <1>9, <1>12, <2>3, <2>8 DEF PoolAt
  <2> QED BY <1>2, <1>4, <1>5, <1>8, <1>9, <2>3, <2>6, <2>7, <2>9, PoolStep
<1> QED BY <1>10, <1>11, <1>12

\* hash_create initialises the header of the table.
LEMMA HashDoneStep ==
  ASSUME NEW mk, Fits(mk), StateInv(mk), NEW p \in Procs, HashDone(p),
         UNCHANGED <<lives, crashed>>
  PROVE  StartupInv'
<1>1. /\ Types /\ LockInv(mk) /\ MemInv(mk) /\ IndexInv(mk) /\ BootInv(mk) /\ PoolInv(mk)
      /\ ProcInv(mk) /\ RegTypes
  BY Parts
<1>2. /\ todo[p] # <<>> /\ Head(todo[p])[1] = "hash_done" /\ descs' = descs /\ index' = index
      /\ UNCHANGED <<shmemVars, lockVars, ret, found, top, free_procs, MyProc, lives, crashed>>
  BY DEF HashDone, At, shmemVars
<1>3. \A d : Flow(p, Head(todo[p]), mk[p], d) =>
        /\ mk[p].stage = "hash" /\ d.stage = "pool7" /\ d.locks = mk[p].locks
        /\ d.reg = "none" /\ d.work = "no" /\ mk[p].work = "no"
  BY <1>2, FlowParts DEF FlowStage, Advances
<1>4. mk[p].stage = "hash" /\ mk[p].work = "no"
  BY <1>2, <1>3, HeadFlow
<1>5. "pool7" \in Pooling /\ "hash" \in Pooling
  BY DEF Pooling
<1>6. PoolAt(p, mk[p])
  BY <1>1, <1>4, <1>5 DEF PoolInv
<1>7. descs \in [Procs -> [at : Nat, found : BOOLEAN]] /\ TableTypes /\ OneInitialiser
  BY <1>1 DEF RegTypes, Types, PoolInv
<1>8. CASE ret[p] = NULL
  <2>1. Dies(p) /\ ready' = ready
    BY <1>8 DEF HashDone
  <2>2. UNCHANGED <<shmemVars, lockVars, ret, found, top, tableVars, lives, crashed>>
    BY <1>2, <2>1 DEF tableVars
  <2> QED BY <1>2, <1>4, <2>1, <2>2, Died
<1>9. CASE ret[p] # NULL
  <2>1. Step(p) /\ ready' = [ready EXCEPT ![HashTable] = @ + 1]
    BY <1>9 DEF HashDone
  <2>2. /\ \E d, mk2 : Flow(p, Head(todo[p]), mk[p], d) /\ Moved(mk, p, d, mk2) /\ Fits(mk2)'
        /\ todo' = [q \in Procs |-> todo'[q]]
        /\ \A q \in Procs \ {p} : todo'[q] = todo[q]
    BY <1>1, <1>2, <2>1, Stepped
  <2>3. PICK d, mk2 : Flow(p, Head(todo[p]), mk[p], d) /\ Moved(mk, p, d, mk2) /\ Fits(mk2)'
    BY <2>2
  <2>4. d.stage = "pool7" /\ d.locks = mk[p].locks /\ d.reg = "none" /\ d.work = "no"
    BY <1>3, <2>3
  <2>5. ~descs[p].found /\ Ready(0, 1, 0) /\ {BD, BB, HashTable} \subseteq DOMAIN index
    BY <1>4, <1>6 DEF PoolAt
  <2>6. /\ ready' \in [Structs -> Nat] /\ ready'["Proc Header"] = ready["Proc Header"]
        /\ OneInitialiser' /\ ready'[HashTable] = 1
        /\ \A m \in {BD, BB, HashTable} \ {HashTable} : ready'[m] = ready[m]
    BY <1>7, <2>1, <2>5, OneMore DEF Ready
  <2>7. BD # HashTable /\ HashTable # BB
    BY DEF BD, BB, HashTable
  <2>8. Ready(0, 1, 1)' /\ ~Ready(1, 1, 1)
    <3>1. ready[BD] = 0 /\ ready[BB] = 1
      BY <2>5 DEF Ready
    <3>2. ready'[BD] = 0 /\ ready'[BB] = 1
      BY <2>6, <2>7, <3>1
    <3>3. ready[BD] # 1
      BY <3>1
    <3> QED BY <2>6, <3>2, <3>3 DEF Ready
  <2>9. PoolAt(p, d)'
    BY <1>2, <2>4, <2>5, <2>8 DEF PoolAt
  <2> QED BY <1>2, <1>4, <1>5, <1>7, <2>2, <2>3, <2>4, <2>6, <2>8, <2>9, PoolStep
<1> QED BY <1>8, <1>9

\* A step of a process that works on the table of Procs, starts or ends.
LEMMA ProcStep ==
  ASSUME NEW mk, Fits(mk), StateInv(mk), NEW p \in Procs, NEW b, NEW mk2, Moved(mk, p, b, mk2),
         Fits(mk2)', todo' = [q \in Procs |-> todo'[q]],
         UNCHANGED <<shmemVars, lockVars, ret, found, top, ready, descs>>,
         b.locks = mk[p].locks, b.work = "no", mk[p].work = "no",
         b.reg = "none" \/ (b.reg = "null" /\ ret[p] = NULL),
         mk[p].stage \notin Pooling \cup {"dead"}, b.stage \notin Pooling,
         b.stage \in {"attached", "own"} => mk[p].stage \in {"attached", "own"},
         TableTypes', BootInv(mk2)', ProcInv(mk2)'
  PROVE  StartupInv'
<1>1. /\ Types /\ LockInv(mk) /\ MemInv(mk) /\ IndexInv(mk) /\ BootInv(mk) /\ PoolInv(mk)
      /\ ProcInv(mk) /\ RegTypes
  BY Parts
<1>2. /\ UNCHANGED <<total_size, free_offset, allocs, index, elements>>
      /\ UNCHANGED lockVars /\ UNCHANGED <<semval, held, ret, found, top, ready, descs>>
  BY DEF shmemVars, lockVars
<1>3. OthersKeep(p) /\ Grows
  BY <1>2 DEF OthersKeep, Grows, SegmentFull
<1>4. Types'
  BY <1>1, <1>2 DEF Types, MemTypes, IndexTypes, LockTypes, RegTypes
<1>5. LockInv(mk2)'
  BY <1>1, <1>2, LocksKeep
<1>6. MemInv(mk2)'
  BY <1>1, <1>2, <1>3, MemKeep
<1>7. IndexInv(mk2)'
  BY <1>1, <1>2, <1>3, IndexKeep
<1>8. PoolInv(mk2)'
  <2>1. "BufMgrLock" \notin mk[p].locks
    BY <1>1 DEF PoolInv
  <2>2. OneInitialiser'
    BY <1>1, <1>2 DEF PoolInv, OneInitialiser
  <2>3. b.stage \in {"attached", "own"} => Ready(1, 1, 1)
    BY <1>1 DEF PoolInv
  <2> QED BY <1>1, <1>2, <1>3, <2>1, <2>2, <2>3, PoolKeep
<1> QED BY <1>4, <1>5, <1>6, <1>7, <1>8 DEF StartupInv, StateInv

\* Where a pid leads is never null.
LEMMA PidNotNull ==
  ASSUME NEW mk, IndexInv(mk), MemTypes
  PROVE  \A q \in Procs \cap DOMAIN index : index[q].location # NULL
<1>1. total_size \in Nat
  BY ShmemAssumption DEF MemTypes
<1> QED BY <1>1 DEF IndexInv, NULL

\* No pid leads to x, but that of a process that leaves.
PidsElsewhere(mk, x) ==
  \A q \in Procs \cap DOMAIN index :
     index[q].location # NULL /\ (mk[q].stage # "leaving" => index[q].location # x)

\* Process p, which holds ProcStructLock, becomes the owner of the Proc at x.
LEMMA ProcTaken ==
  ASSUME NEW mk, ProcInv(mk), LockInv(mk), TableTypes, NEW p \in Procs, NEW b, NEW mk2,
         Moved(mk, p, b, mk2), UNCHANGED <<total_size, free_offset, allocs, index, ret, crashed>>,
         "ProcStructLock" \in mk[p].locks, mk[p].stage = "attached", b.stage = "own",
         b.reg # "ret", b.name # "known",
         NEW x, x # NULL, Has(allocs, x, PROC_SIZE), MyProc' = [MyProc EXCEPT ![p] = x],
         \A q \in Procs : MyProc[q] # x,
         PidsElsewhere(mk, x),
         \A i \in DOMAIN free_procs' : /\ free_procs'[i] # x
                                       /\ \E j \in DOMAIN free_procs : free_procs'[i] = free_procs[j],
         \A i, j \in DOMAIN free_procs' : free_procs'[i] = free_procs'[j] => i = j
  PROVE  ProcInv(mk2)'
<1>1. MyProc'[p] = x /\ \A q \in Procs \ {p} : MyProc'[q] = MyProc[q]
  BY DEF TableTypes
<1>2. MyProc[p] = NULL
  BY DEF ProcInv
<1>3. ProcsDistinct
  BY DEF ProcInv
<1>4. ASSUME NEW q \in Procs, NEW r \in Procs, MyProc'[q] # NULL, MyProc'[q] = MyProc'[r] PROVE q = r
  BY <1>1, <1>3, <1>4 DEF ProcsDistinct
<1>5. ASSUME NEW q \in Procs, MyProc'[q] # NULL, NEW i \in DOMAIN free_procs'
      PROVE  free_procs'[i] # MyProc'[q]
  <2>1. CASE q = p
    BY <1>1, <2>1
  <2>2. CASE q # p
    <3>1. PICK j \in DOMAIN free_procs : free_procs'[i] = free_procs[j]
      OBVIOUS
    <3> QED BY <1>1, <1>3, <1>5, <2>2, <3>1 DEF ProcsDistinct
  <2> QED BY <2>1, <2>2
<1>6. ASSUME NEW q \in Procs, MyProc'[q] # NULL PROVE Has(allocs', MyProc'[q], PROC_SIZE)
  <2>1. CASE q = p
    BY <1>1, <2>1
  <2>2. CASE q # p
    BY <1>1, <1>3, <1>6, <2>2 DEF ProcsDistinct, Allocated, Has
  <2> QED BY <2>1, <2>2
<1>7. ProcsDistinct'
  BY <1>4, <1>5, <1>6 DEF ProcsDistinct, Allocated, Has
<1>8. \A i \in DOMAIN free_procs' : Has(allocs', free_procs'[i], PROC_SIZE)
  BY DEF ProcInv
<1>9. \A q \in Procs : MyProc'[q] # NULL <=> mk2[q].stage = "own"
  BY <1>1 DEF ProcInv, Moved
<1>10. ASSUME NEW q \in Procs, mk2[q].stage = "attached" PROVE "ProcStructLock" \notin mk2[q].locks
  BY <1>10 DEF LockInv, Locks, Moved
<1>11. ASSUME NEW q \in Procs \ crashed, q \in DOMAIN index
       PROVE  /\ mk2[q].stage \in {"own", "leaving"}
              /\ mk2[q].stage = "own" => index[q].location = MyProc'[q]
  <2>1. mk[q].stage \in {"own", "leaving"} /\ (mk[q].stage = "own" => index[q].location = MyProc[q])
    BY <1>11 DEF ProcInv
  <2>2. q # p
    BY <2>1
  <2> QED BY <1>1, <2>1, <2>2 DEF Moved
<1>12. PidInv(mk2)'
  <2>1. \A q \in Procs : \/ q = p /\ mk2[q] = b
                         \/ q # p /\ mk2[q] = mk[q]
    BY DEF Moved
  <2>2. SegmentFull' <=> SegmentFull
    BY DEF SegmentFull
  <2>3. PidInv(mk)
    BY DEF ProcInv
  <2>4. ASSUME NEW q \in Procs \cap DOMAIN index, mk2[q].stage # "leaving",
               index[q].location # MyProc'[q]
        PROVE  /\ q \in crashed
               /\ \A r \in Procs : MyProc'[r] # index[q].location
               /\ \A i \in DOMAIN free_procs' : free_procs'[i] # index[q].location
    <3>1. mk[q].stage # "leaving" /\ index[q].location # NULL /\ index[q].location # x
      BY <2>1, <2>4 DEF PidsElsewhere
    <3>2. index[q].location # MyProc[q]
      BY <1>1, <1>2, <2>4, <3>1
    <3>3. /\ q \in crashed /\ \A r \in Procs : MyProc[r] # index[q].location
          /\ \A i \in DOMAIN free_procs : free_procs[i] # index[q].location
      BY <2>3, <3>1, <3>2 DEF PidInv
    <3>4. \A r \in Procs : MyProc'[r] # index[q].location
      BY <1>1, <3>1, <3>3
    <3> QED BY <3>3, <3>4
  <2>5. \A q \in Procs :
          mk2[q].reg = "ret" /\ mk2[q].size = BATCH_SIZE /\ ret'[q] = NULL => SegmentFull'
    BY <2>1, <2>2, <2>3 DEF PidInv
  <2>6. \A q \in Procs :
          mk2[q].stage = "own" /\ mk2[q].work = "no" /\ mk2[q].name = "known" =>
            q \in DOMAIN index' \/ SegmentFull'
    BY <2>1, <2>2, <2>3 DEF PidInv
  <2>7. \A q \in Procs \cap DOMAIN index' : Has(allocs', index'[q].location, PROC_SIZE)
    BY <2>3 DEF PidInv
  <2> QED BY <1>10, <2>4, <2>5, <2>6, <2>7 DEF PidInv
<1> QED BY <1>7, <1>8, <1>9, <1>10, <1>11, <1>12 DEF ProcInv

\* init_process takes a free Proc.
LEMMA TakeFreeStep ==
  ASSUME NEW mk, Fits(mk), StateInv(mk), NEW p \in Procs, TakeFree(p),
         UNCHANGED <<lives, crashed>>
  PROVE  StartupInv'
<1>1. /\ Types /\ LockInv(mk) /\ MemInv(mk) /\ IndexInv(mk) /\ BootInv(mk) /\ PoolInv(mk)
      /\ ProcInv(mk) /\ RegTypes
  BY Parts
<1>2. PICK x : x = Head(free_procs)
  OBVIOUS
<1>3. /\ todo[p] # <<>> /\ Head(todo[p])[1] = "take" /\ free_procs # <<>> /\ Call(p, HaveProc(p))
      /\ MyProc' = [MyProc EXCEPT ![p] = x] /\ free_procs' = Tail(free_procs)
      /\ UNCHANGED <<shmemVars, lockVars, ret, found, top, ready, descs>>
  BY <1>2 DEF TakeFree, At
<1>4. \A d : Flow(p, Head(todo[p]), mk[p], d) =>
        /\ Final(d) /\ mk[p].work = "no" /\ mk[p].locks = {"ProcStructLock"}
        /\ mk[p].stage = "attached" /\ p # Postmaster
  BY <1>3, FlowParts DEF FlowEnd
<1>5. /\ mk[p].work = "no" /\ mk[p].locks = {"ProcStructLock"}
      /\ mk[p].stage = "attached" /\ p # Postmaster
  BY <1>3, <1>4, HeadFlow
<1>6. PICK b : b = Mark({"ProcStructLock"}, "own", "none", 0, "no", "none")
  OBVIOUS
<1>7. /\ b.locks = {"ProcStructLock"} /\ b.stage = "own" /\ b.reg = "none" /\ b.work = "no"
      /\ b.name = "none"
  BY <1>6 DEF Mark
<1>8. \A d : Flow(p, Head(todo[p]), mk[p], d) => Triple(p, HaveProc(p), b, d)
  BY <1>4, <1>6, HaveProcTriple
<1>9. /\ \E mk2 : Moved(mk, p, b, mk2) /\ Fits(mk2)'
      /\ todo' = [q \in Procs |-> todo'[q]]
      /\ \A q \in Procs \ {p} : todo'[q] = todo[q]
  BY <1>1, <1>3, <1>8, Called
<1>10. PICK mk2 : Moved(mk, p, b, mk2) /\ Fits(mk2)'
  BY <1>9
<1>11. /\ TableTypes /\ MemTypes /\ free_procs \in Seq(1..total_size) /\ total_size \in Nat
       /\ MyProc \in [Procs -> Nat]
  BY <1>1, ShmemAssumption DEF Types, TableTypes, MemTypes
<1>12. PICK k \in Nat : k = Len(free_procs)
  BY <1>11
<1>13. k # 0
  BY <1>3, <1>11, <1>12, EmptySeq
<1>14. /\ x = free_procs[1] /\ free_procs' \in Seq(1..total_size) /\ Len(free_procs') = k - 1
       /\ \A i \in 1..(k - 1) : free_procs'[i] = free_procs[i + 1]
  BY <1>2, <1>3, <1>11, <1>12, HeadTailProperties
<1>15. DOMAIN free_procs = 1..k /\ DOMAIN free_procs' = 1..(k - 1) /\ 1 \in 1..k
  BY <1>11, <1>12, <1>13, <1>14
<1>16. x \in 1..total_size /\ x # NULL /\ x \in Nat
  BY <1>11, <1>14, <1>15 DEF NULL
<1>17. UNCHANGED <<total_size, free_offset, allocs, index, ret, found, top, descs>>
  BY <1>3 DEF shmemVars
<1>18. TableTypes'
  <2>1. MyProc' \in [Procs -> Nat]
    BY <1>3, <1>11, <1>16
  <2> QED BY <1>3, <1>11, <1>14, <1>17, <2>1 DEF TableTypes
<1>19. OthersKeep(p)
  BY <1>17 DEF OthersKeep
<1>20. BootInv(mk2)'
  BY <1>1, <1>3, <1>5, <1>7, <1>9, <1>10, <1>17, <1>19, BootKeep DEF Booting
<1>21. ProcInv(mk2)'
  <2>1. ProcsDistinct /\ Has(allocs, x, PROC_SIZE)
    BY <1>1, <1>14, <1>15 DEF ProcInv
  <2>2. \A q \in Procs : MyProc[q] # x
    BY <1>14, <1>15, <1>16, <2>1 DEF ProcsDistinct
  <2>3. \A i \in 1..(k - 1) : i + 1 \in 1..k /\ i + 1 # 1
    BY <1>12
  <2>4. ASSUME NEW i \in DOMAIN free_procs'
        PROVE  free_procs'[i] # x /\ \E j \in DOMAIN free_procs : free_procs'[i] = free_procs[j]
    <3>1. i + 1 \in DOMAIN free_procs /\ i + 1 # 1 /\ free_procs'[i] = free_procs[i + 1]
      BY <1>14, <1>15, <2>3
    <3> QED BY <1>14, <1>15, <2>1, <3>1 DEF ProcsDistinct
  <2>5. ASSUME NEW i \in DOMAIN free_procs', NEW j \in DOMAIN free_procs', free_procs'[i] = free_procs'[j]
        PROVE  i = j
    <3>1. i + 1 \in DOMAIN free_procs /\ j + 1 \in DOMAIN free_procs /\ i \in Int /\ j \in Int
          /\ free_procs'[i] = free_procs[i + 1] /\ free_procs'[j] = free_procs[j + 1]
      BY <1>12, <1>14, <1>15, <2>3
    <3>2. i + 1 = j + 1
      BY <2>1, <2>5, <3>1 DEF ProcsDistinct
    <3> QED BY <3>1, <3>2
  <2>6. ASSUME NEW q \in Procs \cap DOMAIN index
        PROVE  index[q].location # NULL /\ (mk[q].stage # "leaving" => index[q].location # x)
    <3>1. index[q].location # NULL
      BY <1>1, <1>11, PidNotNull
    <3>2. PidInv(mk)
      BY <1>1 DEF ProcInv
    <3>3. ASSUME mk[q].stage # "leaving" PROVE index[q].location # x
      <4>1. CASE index[q].location = MyProc[q]
        BY <2>2, <4>1
      <4>2. CASE index[q].location # MyProc[q]
        BY <1>14, <1>15, <3>2, <3>3, <4>2 DEF PidInv
      <4> QED BY <4>1, <4>2
    <3> QED BY <3>1, <3>3
  <2>7. PidsElsewhere(mk, x)
    BY <2>6 DEF PidsElsewhere
  <2> QED BY <1>1, <1>3, <1>5, <1>7, <1>10, <1>11, <1>16, <1>17, <2>1, <2>2, <2>4, <2>5, <2>7, ProcTaken
<1> QED BY <1>3, <1>5, <1>7, <1>9, <1>10, <1>18, <1>20, <1>21, ProcStep DEF Pooling

\* init_process asks for the memory of a new Proc.
LEMMA TakeNewStep ==
  ASSUME NEW mk, Fits(mk), StateInv(mk), NEW p \in Procs, TakeNew(p),
         UNCHANGED <<lives, crashed>>
  PROVE  StartupInv'
<1>1. /\ Types /\ LockInv(mk) /\ MemInv(mk) /\ IndexInv(mk) /\ BootInv(mk) /\ PoolInv(mk)
      /\ ProcInv(mk) /\ RegTypes
  BY Parts
<1>2. /\ todo[p] # <<>> /\ Head(todo[p])[1] = "take"
      /\ Call(p, shmem_alloc(PROC_SIZE) \o <<<<"newproc", p>>>>)
      /\ UNCHANGED <<shmemVars, lockVars, ret, found, top, ready, descs>>
      /\ UNCHANGED <<free_procs, MyProc>>
  BY DEF TakeNew, At, tableVars
<1>3. \A d : Flow(p, Head(todo[p]), mk[p], d) =>
        /\ Final(d) /\ mk[p].work = "no" /\ mk[p].locks = {"ProcStructLock"}
        /\ mk[p].stage = "attached" /\ p # Postmaster
  BY <1>2, FlowParts DEF FlowEnd
<1>4. /\ mk[p].work = "no" /\ mk[p].locks = {"ProcStructLock"}
      /\ mk[p].stage = "attached" /\ p # Postmaster
  BY <1>2, <1>3, HeadFlow
<1>5. PICK b : b = Mark({"ProcStructLock"}, "attached", "none", 0, "no", "none")
  OBVIOUS
<1>6. b.locks = {"ProcStructLock"} /\ b.stage = "attached" /\ b.reg = "none" /\ b.work = "no"
  BY <1>5 DEF Mark
<1>7. PICK a : a = Mark({"ProcStructLock"}, "attached", "ret", PROC_SIZE, "no", "none")
  OBVIOUS
<1>8. ASSUME NEW d, Flow(p, Head(todo[p]), mk[p], d)
      PROVE  Triple(p, shmem_alloc(PROC_SIZE) \o <<<<"newproc", p>>>>, b, d)
  <2>1. Triple(p, shmem_alloc(PROC_SIZE), b, a)
    <3>1. /\ PROC_SIZE \in Nat \ {0} /\ Carved("attached") = "attached" /\ "attached" # "boot"
          /\ "attached" \notin Returned /\ "ShmemLock" \notin {"ProcStructLock"}
      BY StartupAssumption DEF Carved, Returned
    <3>2. Triple(p, shmem_alloc(PROC_SIZE), Mark({"ProcStructLock"}, "attached", "none", 0, "no", "none"),
                 Mark({"ProcStructLock"}, Carved("attached"), "ret", PROC_SIZE, "no", "none"))
      BY <3>1, AllocTriple
    <3> QED BY <1>5, <1>7, <3>1, <3>2
  <2>2. Flow(p, <<"newproc", p>>, a, d)
    <3>1. /\ a.locks = {"ProcStructLock"} /\ a.stage = "attached" /\ a.reg = "ret"
          /\ a.size = PROC_SIZE /\ a.work = "no"
      BY <1>7 DEF Mark
    <3>2. Final(d) /\ p # Postmaster
      BY <1>3, <1>8
    <3> QED BY <3>1, <3>2 DEF Flow, FlowEnd
  <2> QED BY <2>1, <2>2, TripleOne, TripleCat
<1>9. /\ \E mk2 : Moved(mk, p, b, mk2) /\ Fits(mk2)'
      /\ todo' = [q \in Procs |-> todo'[q]]
      /\ \A q \in Procs \ {p} : todo'[q] = todo[q]
  BY <1>1, <1>2, <1>8, Called
<1>10. PICK mk2 : Moved(mk, p, b, mk2) /\ Fits(mk2)'
  BY <1>9
<1>11. UNCHANGED <<total_size, free_offset, allocs, index, ret, found, top, descs>>
  BY <1>2 DEF shmemVars
<1>12. OthersKeep(p) /\ Grows /\ TableTypes'
  BY <1>1, <1>2, <1>11 DEF OthersKeep, Grows, SegmentFull, Types, TableTypes
<1>13. BootInv(mk2)'
  BY <1>1, <1>2, <1>4, <1>6, <1>9, <1>10, <1>11, <1>12, BootKeep DEF Booting
<1>14. ProcInv(mk2)'
  BY <1>1, <1>2, <1>4, <1>6, <1>10, <1>11, <1>12, ProcsKeep
<1> QED BY <1>2, <1>4, <1>6, <1>9, <1>10, <1>12, <1>13, <1>14, ProcStep DEF Pooling

\* init_process has the memory of a new Proc, or gives up.
LEMMA NewProcStep ==
  ASSUME NEW mk, Fits(mk), StateInv(mk), NEW p \in Procs, NewProc(p),
         UNCHANGED <<lives, crashed>>
  PROVE  StartupInv'
<1>1. /\ Types /\ LockInv(mk) /\ MemInv(mk) /\ IndexInv(mk) /\ BootInv(mk) /\ PoolInv(mk)
      /\ ProcInv(mk) /\ RegTypes
  BY Parts
<1>2. /\ todo[p] # <<>> /\ Head(todo[p])[1] = "newproc" /\ MyProc' = [MyProc EXCEPT ![p] = ret[p]]
      /\ free_procs' = free_procs
      /\ UNCHANGED <<shmemVars, lockVars, ret, found, top, ready, descs>>
  BY DEF NewProc, At
<1>3. \A d : Flow(p, Head(todo[p]), mk[p], d) =>
        /\ Final(d) /\ mk[p].work = "no" /\ mk[p].locks = {"ProcStructLock"}
        /\ mk[p].stage = "attached" /\ p # Postmaster /\ mk[p].reg = "ret" /\ mk[p].size = PROC_SIZE
  BY <1>2, FlowParts DEF FlowEnd
<1>4. /\ mk[p].work = "no" /\ mk[p].locks = {"ProcStructLock"}
      /\ mk[p].stage = "attached" /\ p # Postmaster /\ mk[p].reg = "ret" /\ mk[p].size = PROC_SIZE
  BY <1>2, <1>3, HeadFlow
<1>5. UNCHANGED <<total_size, free_offset, allocs, index, ret, found, top, descs>>
  BY <1>2 DEF shmemVars
<1>6. TableTypes /\ MemTypes /\ ret \in [Procs -> Nat] /\ MyProc \in [Procs -> Nat]
  BY <1>1 DEF Types, TableTypes, RegTypes
<1>7. OthersKeep(p) /\ Grows
  BY <1>5 DEF OthersKeep, Grows, SegmentFull
<1>8. TableTypes'
  <2>1. MyProc' \in [Procs -> Nat]
    BY <1>2, <1>6
  <2> QED BY <1>2, <1>5, <1>6, <2>1 DEF TableTypes
<1>9. CASE ret[p] = NULL
  <2>1. Call(p, <<<<"release", "ProcStructLock">>, <<"use", p>>>>)
    BY <1>9 DEF NewProc
  <2>2. PICK b : b = Mark({"ProcStructLock"}, "attached", "null", 0, "no", "none")
    OBVIOUS
  <2>3. b.locks = {"ProcStructLock"} /\ b.stage = "attached" /\ b.reg = "null" /\ b.work = "no"
    BY <2>2 DEF Mark
  <2>4. \A d : Flow(p, Head(todo[p]), mk[p], d) =>
          Triple(p, <<<<"release", "ProcStructLock">>, <<"use", p>>>>, b, d)
    BY <1>3, <2>2, NoProcTriple
  <2>5. /\ \E mk2 : Moved(mk, p, b, mk2) /\ Fits(mk2)'
        /\ todo' = [q \in Procs |-> todo'[q]]
        /\ \A q \in Procs \ {p} : todo'[q] = todo[q]
    BY <1>1, <1>2, <2>1, <2>4, Called
  <2>6. PICK mk2 : Moved(mk, p, b, mk2) /\ Fits(mk2)'
    BY <2>5
  <2>7. MyProc' = MyProc
    <3>1. MyProc[p] = NULL
      BY <1>1, <1>4 DEF ProcInv
    <3> QED BY <1>2, <1>6, <1>9, <3>1
  <2>8. BootInv(mk2)'
    BY <1>1, <1>2, <1>4, <1>5, <1>7, <2>3, <2>5, <2>6, BootKeep DEF Booting
  <2>9. ProcInv(mk2)'
    BY <1>1, <1>2, <1>4, <1>5, <1>7, <2>3, <2>6, <2>7, ProcsKeep
  <2> QED BY <1>2, <1>4, <1>8, <1>9, <2>3, <2>5, <2>6, <2>8, <2>9, ProcStep DEF Pooling
<1>10. CASE ret[p] # NULL
  <2>1. Call(p, HaveProc(p))
    BY <1>10 DEF NewProc
  <2>2. PICK b : b = Mark({"ProcStructLock"}, "own", "none", 0, "no", "none")
    OBVIOUS
  <2>3. /\ b.locks = {"ProcStructLock"} /\ b.stage = "own" /\ b.reg = "none" /\ b.work = "no"
        /\ b.name = "none"
    BY <2>2 DEF Mark
  <2>4. \A d : Flow(p, Head(todo[p]), mk[p], d) => Triple(p, HaveProc(p), b, d)
    BY <1>3, <2>2, HaveProcTriple
  <2>5. /\ \E mk2 : Moved(mk, p, b, mk2) /\ Fits(mk2)'
        /\ todo' = [q \in Procs |-> todo'[q]]
        /\ \A q \in Procs \ {p} : todo'[q] = todo[q]
    BY <1>1, <1>2, <2>1, <2>4, Called
  <2>6. PICK mk2 : Moved(mk, p, b, mk2) /\ Fits(mk2)'
    BY <2>5
  <2>7. Has(allocs, ret[p], PROC_SIZE)
    BY <1>1, <1>4, <1>10 DEF MemInv
  <2>8. /\ \A q \in Procs : MyProc[q] # ret[p]
        /\ \A i \in DOMAIN free_procs : free_procs[i] # ret[p]
    BY <1>1, <1>4, <1>10 DEF ProcInv
  <2>9. BootInv(mk2)'
    BY <1>1, <1>2, <1>4, <1>5, <1>7, <2>3, <2>5, <2>6, BootKeep DEF Booting
  <2>10. ProcInv(mk2)'
    <3>1. PICK x : x = ret[p]
      OBVIOUS
    <3>2. \A i \in DOMAIN free_procs' :
             free_procs'[i] # x /\ \E j \in DOMAIN free_procs : free_procs'[i] = free_procs[j]
      BY <1>2, <2>8, <3>1
    <3>3. \A i, j \in DOMAIN free_procs' : free_procs'[i] = free_procs'[j] => i = j
      BY <1>1, <1>2 DEF ProcInv, ProcsDistinct
    <3>4. x # NULL /\ Has(allocs, x, PROC_SIZE) /\ MyProc' = [MyProc EXCEPT ![p] = x]
          /\ \A q \in Procs : MyProc[q] # x
      BY <1>2, <1>10, <2>7, <2>8, <3>1
    <3>5. "ProcStructLock" \in mk[p].locks
      BY <1>4
    <3>6. PidsElsewhere(mk, x)
      BY <1>1, <1>4, <1>6, <1>10, <3>1, PidNotNull DEF ProcInv, PidInv, PidsElsewhere
    <3> QED BY <1>1, <1>4, <1>5, <1>6, <2>3, <2>6, <3>2, <3>3, <3>4, <3>5, <3>6, ProcTaken
  <2> QED BY <1>2, <1>4, <1>8, <2>3, <2>5, <2>6, <2>9, <2>10, ProcStep DEF Pooling
<1> QED BY <1>9, <1>10

\* Process p no longer has a Proc.
LEMMA ProcLeft ==
  ASSUME NEW mk, ProcInv(mk), TableTypes, NEW p \in Procs, NEW b, NEW mk2,
         Moved(mk, p, b, mk2), UNCHANGED <<total_size, free_offset, allocs, index, ret>>,
         mk[p].stage = "own", b.stage \notin {"own", "attached"}, b.reg # "ret",
         b.stage = "leaving" \/ free_procs' = free_procs,
         \A q \in Procs \cap DOMAIN index : index[q].location # NULL,
         MyProc' = [MyProc EXCEPT ![p] = NULL], crashed \subseteq crashed',
         p \in DOMAIN index => p \in crashed' \/ b.stage = "leaving",
         \A i \in DOMAIN free_procs' :
            free_procs'[i] = MyProc[p] \/ \E j \in DOMAIN free_procs : free_procs'[i] = free_procs[j],
         free_procs' = free_procs \/ ("ProcStructLock" \in mk[p].locks /\ LockInv(mk)),
         \A i, j \in DOMAIN free_procs' : free_procs'[i] = free_procs'[j] => i = j
  PROVE  ProcInv(mk2)'
<1>1. MyProc'[p] = NULL /\ \A q \in Procs \ {p} : MyProc'[q] = MyProc[q]
  BY DEF TableTypes
<1>2. MyProc[p] # NULL /\ ProcsDistinct
  BY DEF ProcInv
<1>3. ASSUME NEW q \in Procs, NEW r \in Procs, MyProc'[q] # NULL, MyProc'[q] = MyProc'[r] PROVE q = r
  BY <1>1, <1>2, <1>3 DEF ProcsDistinct
<1>4. ASSUME NEW q \in Procs, MyProc'[q] # NULL, NEW i \in DOMAIN free_procs'
      PROVE  free_procs'[i] # MyProc'[q]
  <2>1. q # p /\ MyProc'[q] = MyProc[q]
    BY <1>1, <1>4
  <2>2. MyProc[q] # MyProc[p]
    BY <1>2, <1>4, <2>1 DEF ProcsDistinct
  <2>3. \A j \in DOMAIN free_procs : free_procs[j] # MyProc[q]
    BY <1>2, <1>4, <2>1 DEF ProcsDistinct
  <2> QED BY <2>1, <2>2, <2>3
<1>5. ASSUME NEW q \in Procs, MyProc'[q] # NULL PROVE Has(allocs', MyProc'[q], PROC_SIZE)
  BY <1>1, <1>2, <1>5 DEF ProcsDistinct, Allocated, Has
<1>6. ProcsDistinct'
  BY <1>3, <1>4, <1>5 DEF ProcsDistinct, Allocated, Has
<1>7. Has(allocs, MyProc[p], PROC_SIZE)
  BY <1>2 DEF ProcsDistinct, Allocated, Has
<1>8. \A i \in DOMAIN free_procs' : Has(allocs', free_procs'[i], PROC_SIZE)
  BY <1>7 DEF ProcInv
<1>9. \A q \in Procs : MyProc'[q] # NULL <=> mk2[q].stage = "own"
  BY <1>1 DEF ProcInv, Moved
<1>10. ASSUME NEW q \in Procs, mk2[q].stage = "attached", "ProcStructLock" \in mk2[q].locks,
              mk2[q].reg = "ret", ret'[q] # NULL
       PROVE  /\ \A r \in Procs : MyProc'[r] # ret'[q]
              /\ \A i \in DOMAIN free_procs' : free_procs'[i] # ret'[q]
  <2>1. q # p /\ mk2[q] = mk[q] /\ ret'[q] = ret[q]
    BY <1>10 DEF Moved
  <2>2. \A r \in Procs : MyProc[r] # ret[q]
    BY <1>10, <2>1 DEF ProcInv
  <2>3. \A r \in Procs : MyProc'[r] # ret'[q]
    BY <1>1, <1>10, <2>1, <2>2
  <2>4. free_procs' = free_procs
    BY <1>10, <2>1 DEF LockInv, Locks
  <2>5. \A i \in DOMAIN free_procs : free_procs[i] # ret[q]
    BY <1>10, <2>1 DEF ProcInv
  <2> QED BY <2>1, <2>3, <2>4, <2>5
<1>11. ASSUME NEW q \in Procs \ crashed', q \in DOMAIN index'
       PROVE  /\ mk2[q].stage \in {"own", "leaving"}
              /\ mk2[q].stage = "own" => index'[q].location = MyProc'[q]
  <2>1. q \in Procs \ crashed /\ q \in DOMAIN index /\ index'[q] = index[q]
    BY <1>11
  <2>2. CASE q = p
    BY <1>11, <2>1, <2>2 DEF Moved
  <2>3. CASE q # p
    <3>1. mk2[q] = mk[q] /\ MyProc'[q] = MyProc[q]
      BY <1>1, <2>3 DEF Moved
    <3> QED BY <2>1, <3>1 DEF ProcInv
  <2> QED BY <2>2, <2>3
<1>12. PidInv(mk2)'
  <2>1. \A q \in Procs : \/ q = p /\ mk2[q] = b
                         \/ q # p /\ mk2[q] = mk[q]
    BY DEF Moved
  <2>2. SegmentFull' <=> SegmentFull
    BY DEF SegmentFull
  <2>3. PidInv(mk)
    BY DEF ProcInv
  <2>4. ASSUME NEW q \in Procs \cap DOMAIN index, mk2[q].stage # "leaving",
               index[q].location # MyProc'[q]
        PROVE  /\ q \in crashed'
               /\ \A r \in Procs : MyProc'[r] # index[q].location
               /\ \A i \in DOMAIN free_procs' : free_procs'[i] # index[q].location
    <3>1. mk[q].stage # "leaving"
      BY <2>1, <2>4
    <3>2. CASE q = p /\ index[q].location = MyProc[q]
      <4>1. mk2[q] = b /\ b.stage # "leaving"
        BY <2>1, <2>4, <3>2
      <4>2. q \in crashed' /\ free_procs' = free_procs
        BY <3>2, <4>1
      <4>3. \A r \in Procs \ {p} : MyProc[r] # MyProc[p]
        BY <1>2 DEF ProcsDistinct
      <4>4. \A i \in DOMAIN free_procs : free_procs[i] # MyProc[p]
        BY <1>2 DEF ProcsDistinct
      <4>5. \A r \in Procs : MyProc'[r] # index[q].location
        BY <1>1, <1>2, <3>2, <4>3
      <4> QED BY <3>2, <4>2, <4>4, <4>5
    <3>3. CASE index[q].location # MyProc[q]
      <4>1. /\ q \in crashed /\ \A r \in Procs : MyProc[r] # index[q].location
            /\ \A i \in DOMAIN free_procs : free_procs[i] # index[q].location
        BY <2>3, <3>1, <3>3 DEF PidInv
      <4>2. \A r \in Procs : MyProc'[r] # index[q].location
        BY <1>1, <4>1
      <4>3. \A i \in DOMAIN free_procs' : free_procs'[i] # index[q].location
        BY <4>1
      <4> QED BY <4>1, <4>2, <4>3
    <3>4. q # p => index[q].location # MyProc[q]
      BY <1>1, <2>4
    <3> QED BY <3>2, <3>3, <3>4
  <2>5. \A q \in Procs :
          mk2[q].reg = "ret" /\ mk2[q].size = BATCH_SIZE /\ ret'[q] = NULL => SegmentFull'
    BY <2>1, <2>2, <2>3 DEF PidInv
  <2>6. \A q \in Procs :
          mk2[q].stage = "own" /\ mk2[q].work = "no" /\ mk2[q].name = "known" =>
            q \in DOMAIN index' \/ SegmentFull'
    BY <2>1, <2>2, <2>3 DEF PidInv
  <2>7. \A q \in Procs \cap DOMAIN index' : Has(allocs', index'[q].location, PROC_SIZE)
    BY <2>3 DEF PidInv
  <2>8. ASSUME NEW q \in Procs, mk2[q].stage = "attached", "ProcStructLock" \in mk2[q].locks,
               mk2[q].reg = "ret", ret'[q] # NULL
        PROVE  \A r \in Procs \cap DOMAIN index' : index'[r].location # ret'[q]
    BY <2>1, <2>3, <2>8 DEF PidInv
  <2> QED BY <2>4, <2>5, <2>6, <2>7, <2>8 DEF PidInv
<1> QED BY <1>6, <1>8, <1>9, <1>10, <1>11, <1>12 DEF ProcInv

\* What stands where when an element is put first.
LEMMA PutFirst ==
  ASSUME NEW T, NEW x \in T, NEW v \in Seq(T)
  PROVE  /\ <<x>> \o v \in Seq(T) /\ Len(<<x>> \o v) = Len(v) + 1 /\ (<<x>> \o v)[1] = x
         /\ \A i \in 2..(Len(v) + 1) : (<<x>> \o v)[i] = v[i - 1]
<1>0. <<x>> \in Seq(T)
  OBVIOUS
<1>1. PICK u \in Seq(T) : u = <<x>>
  BY <1>0
<1>2. Len(u) = 1 /\ u[1] = x
  BY <1>1
<1>3. PICK k \in Nat : k = Len(v)
  OBVIOUS
<1>4. /\ u \o v \in Seq(T)
      /\ Len(u \o v) = Len(u) + Len(v)
      /\ \A i \in 1..(Len(u) + Len(v)) : (u \o v)[i] = IF i <= Len(u) THEN u[i] ELSE v[i - Len(u)]
  BY ConcatProperties
<1>5. /\ Len(u \o v) = k + 1
      /\ \A i \in 1..(1 + k) : (u \o v)[i] = IF i <= 1 THEN u[i] ELSE v[i - 1]
  BY <1>2, <1>3, <1>4
<1>6. (u \o v)[1] = x
  BY <1>2, <1>5
<1>7. \A i \in 2..(k + 1) : (u \o v)[i] = v[i - 1]
  BY <1>5
<1> QED BY <1>1, <1>3, <1>4, <1>5, <1>6, <1>7

\* proc_kill puts the Proc on the free list.
LEMMA FreeProcStep ==
  ASSUME NEW mk, Fits(mk), StateInv(mk), NEW p \in Procs, FreeProc(p),
         UNCHANGED <<lives, crashed>>
  PROVE  StartupInv'
<1>1. /\ Types /\ LockInv(mk) /\ MemInv(mk) /\ IndexInv(mk) /\ BootInv(mk) /\ PoolInv(mk)
      /\ ProcInv(mk) /\ RegTypes
  BY Parts
<1>2. /\ todo[p] # <<>> /\ Head(todo[p])[1] = "freeproc" /\ Step(p)
      /\ MyProc' = [MyProc EXCEPT ![p] = NULL] /\ free_procs' = <<MyProc[p]>> \o free_procs
      /\ UNCHANGED <<shmemVars, lockVars, ret, found, top, ready, descs>>
  BY DEF FreeProc, At
<1>3. /\ \E d, mk2 : Flow(p, Head(todo[p]), mk[p], d) /\ Moved(mk, p, d, mk2) /\ Fits(mk2)'
      /\ todo' = [q \in Procs |-> todo'[q]]
      /\ \A q \in Procs \ {p} : todo'[q] = todo[q]
  BY <1>1, <1>2, Stepped
<1>4. PICK d, mk2 : Flow(p, Head(todo[p]), mk[p], d) /\ Moved(mk, p, d, mk2) /\ Fits(mk2)'
  BY <1>3
<1>5. /\ mk[p].stage = "own" /\ d.stage = "leaving" /\ d.locks = mk[p].locks
      /\ d.reg = "none" /\ d.work = "no" /\ mk[p].work = "no" /\ "ProcStructLock" \in mk[p].locks
  BY <1>2, <1>4, FlowParts DEF FlowStage, Advances
<1>6. /\ TableTypes /\ free_procs \in Seq(1..total_size) /\ total_size \in Nat
      /\ MyProc \in [Procs -> Nat] /\ MemTypes /\ AllocsDisjoint
  BY <1>1, ShmemAssumption DEF Types, TableTypes, MemTypes, MemInv
<1>7. UNCHANGED <<total_size, free_offset, allocs, index, ret, found, top, descs>>
  BY <1>2 DEF shmemVars
<1>8. PICK x : x = MyProc[p]
  OBVIOUS
<1>9. x \in 1..total_size /\ ProcsDistinct /\ x # NULL
  <2>1. ProcsDistinct /\ x # NULL
    BY <1>1, <1>5, <1>8 DEF ProcInv
  <2> QED BY <1>1, <1>6, <1>8, <2>1, ProcsBelow
<1>10. PICK k \in Nat : k = Len(free_procs)
  BY <1>6
<1>11. PICK u : u = <<x>>
  OBVIOUS
<1>12. u \in Seq(1..total_size) /\ Len(u) = 1 /\ u[1] = x
  BY <1>9, <1>11
<1>13. free_procs' = u \o free_procs
  BY <1>2, <1>8, <1>11
<1>14. /\ free_procs' \in Seq(1..total_size) /\ Len(free_procs') = k + 1
       /\ free_procs'[1] = x /\ \A i \in 2..(k + 1) : free_procs'[i] = free_procs[i - 1]
  BY <1>6, <1>9, <1>10, <1>11, <1>13, PutFirst
<1>15. DOMAIN free_procs' = 1..(k + 1) /\ DOMAIN free_procs = 1..k
  BY <1>6, <1>10, <1>14
<1>16. \A i \in 1..(k + 1) : i = 1 \/ (i \in 2..(k + 1) /\ i - 1 \in 1..k)
  BY <1>10
<1>17. \A j \in DOMAIN free_procs : free_procs[j] # x
  BY <1>8, <1>9 DEF ProcsDistinct
<1>18. \A i \in DOMAIN free_procs' :
          \/ i = 1 /\ free_procs'[i] = x
          \/ /\ i - 1 \in DOMAIN free_procs /\ i \in Int /\ free_procs'[i] = free_procs[i - 1]
             /\ free_procs'[i] # x
  <2> SUFFICES ASSUME NEW i \in DOMAIN free_procs', i # 1
               PROVE  /\ i - 1 \in DOMAIN free_procs /\ i \in Int /\ free_procs'[i] = free_procs[i - 1]
                      /\ free_procs'[i] # x
    BY <1>14
  <2>1. i \in 2..(k + 1) /\ i - 1 \in 1..k /\ i \in Int
    BY <1>15, <1>16
  <2>2. free_procs'[i] = free_procs[i - 1]
    BY <1>14, <2>1
  <2> QED BY <1>15, <1>17, <2>1, <2>2
<1>19. ASSUME NEW i \in DOMAIN free_procs', NEW j \in DOMAIN free_procs', free_procs'[i] = free_procs'[j]
       PROVE  i = j
  <2>1. CASE i = 1
    <3>1. free_procs'[j] = x
      BY <1>14, <1>19, <2>1
    <3> QED BY <1>18, <2>1, <3>1
  <2>3. CASE j = 1
    <3>1. free_procs'[i] = x
      BY <1>14, <1>19, <2>3
    <3> QED BY <1>18, <2>3, <3>1
  <2>2. CASE i # 1 /\ j # 1
    <3>1. /\ i - 1 \in DOMAIN free_procs /\ i \in Int /\ free_procs'[i] = free_procs[i - 1]
          /\ j - 1 \in DOMAIN free_procs /\ j \in Int /\ free_procs'[j] = free_procs[j - 1]
      BY <1>18, <2>2
    <3>2. i - 1 = j - 1
      BY <1>9, <1>19, <3>1 DEF ProcsDistinct
    <3> QED BY <3>1, <3>2
  <2> QED BY <2>1, <2>2, <2>3
<1>20. TableTypes'
  <2>1. MyProc' \in [Procs -> Nat]
    BY <1>2, <1>6 DEF NULL
  <2> QED BY <1>2, <1>6, <1>7, <1>14, <2>1 DEF TableTypes
<1>21. OthersKeep(p)
  BY <1>7 DEF OthersKeep
<1>22. BootInv(mk2)'
  <2>1. p # Postmaster
    BY <1>1, <1>5 DEF BootInv
  <2> QED BY <1>1, <1>2, <1>3, <1>4, <1>5, <1>7, <1>21, <2>1, BootKeep DEF Booting
<1>23. ProcInv(mk2)'
  <2>1. \A i \in DOMAIN free_procs' :
           free_procs'[i] = MyProc[p] \/ \E j \in DOMAIN free_procs : free_procs'[i] = free_procs[j]
    BY <1>8, <1>18
  <2>2. crashed \subseteq crashed'
    OBVIOUS
  <2>3. \A q \in Procs \cap DOMAIN index : index[q].location # NULL
    BY <1>1, <1>6, PidNotNull
  <2> QED BY <1>1, <1>2, <1>4, <1>5, <1>6, <1>7, <1>19, <2>1, <2>2, <2>3, ProcLeft
<1> QED BY <1>2, <1>3, <1>4, <1>5, <1>20, <1>22, <1>23, ProcStep DEF Pooling

\* A process that runs knows where it is.
LEMMA RunningMark ==
  ASSUME NEW mk, Fits(mk), NEW p \in Procs, At(p, "running")
  PROVE  /\ todo[p] # <<>> /\ mk[p].locks = {} /\ mk[p].work = "no"
         /\ mk[p].stage = IF p = Postmaster THEN "attached" ELSE "own"
         /\ p # Postmaster => mk[p].name = "known"
         /\ \A d : Flow(p, Head(todo[p]), mk[p], d) => Final(d)
<1>1. todo[p] # <<>> /\ Head(todo[p])[1] = "running"
  BY DEF At
<1>2. \A d : Flow(p, Head(todo[p]), mk[p], d) =>
        /\ Final(d) /\ mk[p].locks = {} /\ mk[p].work = "no"
        /\ mk[p].stage = IF p = Postmaster THEN "attached" ELSE "own"
        /\ p # Postmaster => mk[p].name = "known"
  BY <1>1, FlowParts DEF FlowEnd
<1> QED BY <1>1, <1>2, HeadFlow

\* A process that is gone has nothing.
LEMMA GoneMark ==
  ASSUME NEW mk, Fits(mk), NEW p \in Procs, At(p, "gone")
  PROVE  mk[p].stage = "idle"
<1>1. todo[p] # <<>> /\ Head(todo[p])[1] = "gone"
  BY DEF At
<1>2. \A d : Flow(p, Head(todo[p]), mk[p], d) => mk[p].stage = "idle"
  BY <1>1, FlowParts DEF FlowEnd, Final
<1> QED BY <1>1, <1>2, HeadFlow

\* A backend exits.
LEMMA ExitStep ==
  ASSUME NEW mk, Fits(mk), StateInv(mk), NEW p \in Procs, Exit(p), UNCHANGED <<lives, crashed>>
  PROVE  StartupInv'
<1>1. /\ Types /\ LockInv(mk) /\ MemInv(mk) /\ IndexInv(mk) /\ BootInv(mk) /\ PoolInv(mk)
      /\ ProcInv(mk) /\ RegTypes
  BY Parts
<1>2. /\ At(p, "running") /\ p # Postmaster /\ Call(p, proc_kill(p))
      /\ UNCHANGED <<shmemVars, lockVars, ret, found, top, ready, descs>>
      /\ UNCHANGED <<free_procs, MyProc>>
  BY DEF Exit, tableVars
<1>3. /\ todo[p] # <<>> /\ mk[p].locks = {} /\ mk[p].work = "no" /\ mk[p].stage = "own"
      /\ \A d : Flow(p, Head(todo[p]), mk[p], d) => Final(d)
  BY <1>2, RunningMark
<1>4. PICK b : b = Mark({}, "own", "none", 0, "no", "none")
  OBVIOUS
<1>5. b.locks = mk[p].locks /\ b.stage = "own" /\ b.reg = "none" /\ b.work = "no" /\ b.name = "none"
  BY <1>3, <1>4 DEF Mark
<1>6. \A d : Flow(p, Head(todo[p]), mk[p], d) => Triple(p, proc_kill(p), b, d)
  BY <1>3, <1>4, KillTriple
<1>7. /\ \E mk2 : Moved(mk, p, b, mk2) /\ Fits(mk2)'
      /\ todo' = [q \in Procs |-> todo'[q]]
      /\ \A q \in Procs \ {p} : todo'[q] = todo[q]
  BY <1>1, <1>2, <1>3, <1>6, Called
<1>8. PICK mk2 : Moved(mk, p, b, mk2) /\ Fits(mk2)'
  BY <1>7
<1>9. UNCHANGED <<total_size, free_offset, allocs, index, ret, found, top, descs>>
  BY <1>2 DEF shmemVars
<1>10. OthersKeep(p) /\ Grows /\ TableTypes'
  BY <1>1, <1>2, <1>9 DEF OthersKeep, Grows, SegmentFull, Types, TableTypes
<1>11. BootInv(mk2)'
  BY <1>1, <1>2, <1>3, <1>5, <1>7, <1>8, <1>9, <1>10, BootKeep DEF Booting
<1>12. ProcInv(mk2)'
  BY <1>1, <1>2, <1>3, <1>5, <1>8, <1>9, <1>10, ProcsKeep
<1> QED BY <1>2, <1>3, <1>5, <1>7, <1>8, <1>10, <1>11, <1>12, ProcStep DEF Pooling

\* A backend crashes.
LEMMA CrashStep ==
  ASSUME NEW mk, Fits(mk), StateInv(mk), NEW p \in Procs, Crash(p)
  PROVE  StartupInv'
<1>1. /\ Types /\ LockInv(mk) /\ MemInv(mk) /\ IndexInv(mk) /\ BootInv(mk) /\ PoolInv(mk)
      /\ ProcInv(mk) /\ RegTypes
  BY Parts
<1>2. /\ At(p, "running") /\ p # Postmaster /\ MyProc' = [MyProc EXCEPT ![p] = NULL]
      /\ todo' = [todo EXCEPT ![p] = <<<<"gone", p>>>>] /\ crashed' = crashed \cup {p}
      /\ UNCHANGED <<shmemVars, lockVars, ret, found, top, ready, descs>>
      /\ UNCHANGED <<free_procs, lives>>
  BY DEF Crash
<1>3. todo[p] # <<>> /\ mk[p].locks = {} /\ mk[p].work = "no" /\ mk[p].stage = "own"
  BY <1>2, RunningMark
<1>4. PICK b : b = Resting
  OBVIOUS
<1>5. b.locks = mk[p].locks /\ b.stage = "idle" /\ b.reg = "none" /\ b.work = "no" /\ Final(b)
  BY <1>3, <1>4 DEF Mark, Resting, Final
<1>6. Runs(p, <<<<"gone", p>>>>, b)
  <2>1. Flow(p, <<"gone", p>>, b, b)
    BY <1>5 DEF Flow, FlowEnd
  <2> QED BY <1>5, <2>1, TripleOne DEF Runs
<1>7. todo = [q \in Procs |-> todo[q]]
  BY <1>1 DEF RegTypes
<1>8. /\ \E mk2 : Moved(mk, p, b, mk2) /\ Fits(mk2)'
      /\ todo' = [q \in Procs |-> todo'[q]]
      /\ \A q \in Procs \ {p} : todo'[q] = todo[q]
  BY <1>2, <1>6, <1>7, StepFits
<1>9. PICK mk2 : Moved(mk, p, b, mk2) /\ Fits(mk2)'
  BY <1>8
<1>10. UNCHANGED <<total_size, free_offset, allocs, index, ret, found, top, descs>>
  BY <1>2 DEF shmemVars
<1>11. OthersKeep(p) /\ TableTypes /\ MemTypes
  BY <1>1, <1>10 DEF OthersKeep, Types
<1>12. TableTypes'
  <2>1. MyProc' \in [Procs -> Nat]
    BY <1>2, <1>11 DEF TableTypes, NULL
  <2> QED BY <1>2, <1>10, <1>11, <2>1 DEF TableTypes
<1>13. BootInv(mk2)'
  BY <1>1, <1>2, <1>3, <1>5, <1>8, <1>9, <1>10, <1>11, BootKeep DEF Booting
<1>14. ProcInv(mk2)'
  <2>1. \A i \in DOMAIN free_procs' : \E j \in DOMAIN free_procs : free_procs'[i] = free_procs[j]
    BY <1>2
  <2>2. \A i, j \in DOMAIN free_procs' : free_procs'[i] = free_procs'[j] => i = j
    BY <1>1, <1>2 DEF ProcInv, ProcsDistinct
  <2>3. crashed \subseteq crashed' /\ p \in crashed'
    BY <1>2
  <2>4. \A q \in Procs \cap DOMAIN index : index[q].location # NULL
    BY <1>1, <1>11, PidNotNull
  <2> QED BY <1>1, <1>2, <1>3, <1>5, <1>9, <1>10, <1>11, <2>1, <2>2, <2>3, <2>4, ProcLeft
<1> QED BY <1>2, <1>3, <1>5, <1>8, <1>9, <1>12, <1>13, <1>14, ProcStep DEF Pooling

\* The instructions of a backend that starts.
LEMMA StartTriple ==
  ASSUME NEW p \in Procs, p # Postmaster
  PROVE  Runs(p, init_buffer_pool \o init_process, Mark({}, "up", "none", 0, "no", "none"))
<1>1. Final(Resting)
  BY DEF Final, Resting, Mark
<1>2. Triple(p, init_process, Mark({}, "attached", "none", 0, "no", "none"), Resting)
  BY <1>1, ProcessTriple
<1>3. Triple(p, init_buffer_pool, Mark({}, "up", "none", 0, "no", "none"),
             Mark({}, "attached", "none", 0, "no", "none"))
  BY PoolTriple
<1>4. Triple(p, init_buffer_pool \o init_process, Mark({}, "up", "none", 0, "no", "none"), Resting)
  BY <1>2, <1>3, TripleCat
<1> QED BY <1>1, <1>4 DEF Runs

\* A process that may start is at rest.
LEMMA MayStart ==
  ASSUME NEW mk, Fits(mk), NEW p \in Procs, todo[p] = <<>> \/ At(p, "gone")
  PROVE  Final(mk[p])
<1>1. CASE todo[p] = <<>>
  <2>1. Runs(p, todo[p], mk[p])
    BY DEF Fits
  <2> QED BY <1>1, <2>1, RunsNone
<1>2. CASE At(p, "gone")
  <2>1. todo[p] # <<>> /\ Head(todo[p])[1] = "gone"
    BY <1>2 DEF At
  <2>2. PICK d : Flow(p, Head(todo[p]), mk[p], d)
    BY <2>1, HeadFlow
  <2> QED BY <2>1, <2>2, FlowParts DEF FlowEnd
<1> QED BY <1>1, <1>2, SMTT(60)

\* A backend starts.
LEMMA StartStep ==
  ASSUME NEW mk, Fits(mk), StateInv(mk), NEW p \in Procs, Start(p)
  PROVE  StartupInv'
<1>1. /\ Types /\ LockInv(mk) /\ MemInv(mk) /\ IndexInv(mk) /\ BootInv(mk) /\ PoolInv(mk)
      /\ ProcInv(mk) /\ RegTypes
  BY Parts
<1>2. /\ p # Postmaster /\ ready["Proc Header"] > 0 /\ lives < MaxLives /\ lives' = lives + 1
      /\ todo' = [todo EXCEPT ![p] = init_buffer_pool \o init_process]
      /\ UNCHANGED <<shmemVars, lockVars, ret, found, top, ready, descs>>
      /\ UNCHANGED <<free_procs, MyProc, crashed>>
  BY DEF Start, tableVars
<1>3. Final(mk[p])
  BY MayStart DEF Start
<1>4. PICK b : b = Mark({}, "up", "none", 0, "no", "none")
  OBVIOUS
<1>5. /\ mk[p].locks = {} /\ mk[p].work = "no" /\ mk[p].stage = "idle"
      /\ b.locks = {} /\ b.stage = "up" /\ b.reg = "none" /\ b.work = "no"
  BY <1>3, <1>4 DEF Mark, Final
<1>6. Runs(p, init_buffer_pool \o init_process, b)
  BY <1>2, <1>4, StartTriple
<1>7. todo = [q \in Procs |-> todo[q]]
  BY <1>1 DEF RegTypes
<1>8. /\ \E mk2 : Moved(mk, p, b, mk2) /\ Fits(mk2)'
      /\ todo' = [q \in Procs |-> todo'[q]]
      /\ \A q \in Procs \ {p} : todo'[q] = todo[q]
  BY <1>2, <1>6, <1>7, StepFits
<1>9. PICK mk2 : Moved(mk, p, b, mk2) /\ Fits(mk2)'
  BY <1>8
<1>10. UNCHANGED <<total_size, free_offset, allocs, index, ret, found, top, descs>>
  BY <1>2 DEF shmemVars
<1>11. OthersKeep(p) /\ Grows /\ TableTypes
  BY <1>1, <1>10 DEF OthersKeep, Grows, SegmentFull, Types
<1>12. TableTypes'
  <2>1. lives' \in 0..MaxLives
    <3>1. lives \in 0..MaxLives /\ MaxLives \in Nat
      BY <1>11, StartupAssumption DEF TableTypes
    <3>2. lives < MaxLives /\ lives' = lives + 1
      BY <1>2
    <3> QED BY <3>1, <3>2
  <2> QED BY <1>2, <1>10, <1>11, <2>1 DEF TableTypes
<1>13. ready["Proc Header"] # 0
  <2>1. PICK r \in Nat : r = ready["Proc Header"]
    BY <1>11, StartupAssumption DEF TableTypes
  <2>2. r > 0
    BY <1>2, <2>1
  <2>3. r # 0
    BY <2>2
  <2> QED BY <2>1, <2>3
<1>14. BootInv(mk2)'
  <2>1. ready'["Proc Header"] # 0
    BY <1>2, <1>13
  <2>2. Postmaster \in Procs /\ mk2[Postmaster] = mk[Postmaster]
    BY <1>2, <1>9, StartupAssumption DEF Moved
  <2>3. mk2[Postmaster].stage \notin {"own", "leaving", "idle"}
    BY <1>1, <1>13, <2>2 DEF BootInv
  <2>4. ASSUME NEW q \in Procs
        PROVE  mk2[q].stage \notin Booting
    <3>1. CASE q = p
      BY <1>5, <1>9, <3>1 DEF Moved, Booting
    <3>2. CASE q # p
      <4>1. mk2[q] = mk[q]
        BY <1>9, <3>2 DEF Moved
      <4> QED BY <1>1, <1>13, <4>1 DEF BootInv
    <3> QED BY <3>1, <3>2
  <2>5. \A q \in Procs : /\ mk2[q].stage # "boot" /\ mk2[q].stage # "boot1" /\ mk2[q].stage # "boot2"
    BY <2>4 DEF Booting
  <2> QED BY <2>1, <2>3, <2>4, <2>5 DEF BootInv
<1>15. ProcInv(mk2)'
  BY <1>1, <1>2, <1>5, <1>9, <1>10, <1>11, ProcsKeep
<1>16. /\ mk[p].stage \notin Pooling \cup {"dead"} /\ b.stage \notin Pooling
       /\ b.stage \notin {"attached", "own"}
  BY <1>5 DEF Pooling
<1> QED BY <1>2, <1>5, <1>8, <1>9, <1>12, <1>14, <1>15, <1>16, ProcStep

\* The postmaster starts.
LEMMA BootStep ==
  ASSUME NEW mk, Fits(mk), StateInv(mk), Boot
  PROVE  StartupInv'
<1> DEFINE w == init_shmem_allocation \o init_proc_global \o init_buffer_pool
                  \o <<<<"running", Postmaster>>>>
<1>1. /\ Types /\ LockInv(mk) /\ MemInv(mk) /\ IndexInv(mk) /\ BootInv(mk) /\ PoolInv(mk)
      /\ ProcInv(mk) /\ RegTypes
  BY Parts
<1>2. /\ todo[Postmaster] = <<>> /\ todo' = [todo EXCEPT ![Postmaster] = w]
      /\ UNCHANGED <<shmemVars, lockVars, ret, found, top, ready, descs>>
      /\ UNCHANGED <<free_procs, MyProc, crashed, lives>>
  BY DEF Boot, tableVars
<1>3. PICK p \in Procs : p = Postmaster
  BY StartupAssumption
<1>4. Final(mk[p])
  BY <1>2, <1>3, MayStart
<1>5. PICK b : b = Mark({}, "boot", "none", 0, "no", "none")
  OBVIOUS
<1>6. /\ mk[p].locks = {} /\ mk[p].work = "no" /\ mk[p].stage = "idle"
      /\ b.locks = {} /\ b.stage = "boot" /\ b.reg = "none" /\ b.work = "no"
  BY <1>4, <1>5 DEF Mark, Final
<1>7. Runs(p, w, b)
  <2>1. Final(Resting)
    BY DEF Final, Resting, Mark
  <2>2. Triple(p, w, b, Resting)
    BY <1>3, <1>5, <2>1, BootTriple
  <2> QED BY <2>1, <2>2 DEF Runs
<1> HIDE DEF w
<1>8. todo = [q \in Procs |-> todo[q]]
  BY <1>1 DEF RegTypes
<1>9. /\ \E mk2 : Moved(mk, p, b, mk2) /\ Fits(mk2)'
      /\ todo' = [q \in Procs |-> todo'[q]]
      /\ \A q \in Procs \ {p} : todo'[q] = todo[q]
  BY <1>2, <1>3, <1>7, <1>8, StepFits
<1>10. PICK mk2 : Moved(mk, p, b, mk2) /\ Fits(mk2)'
  BY <1>9
<1>11. UNCHANGED <<total_size, free_offset, allocs, index, ret, found, top, descs>>
  BY <1>2 DEF shmemVars
<1>12. OthersKeep(p) /\ Grows /\ TableTypes
  BY <1>1, <1>11 DEF OthersKeep, Grows, SegmentFull, Types
<1>13. TableTypes'
  BY <1>2, <1>11, <1>12 DEF TableTypes
<1>14. /\ ready["Proc Header"] = 0 /\ allocs = <<>> /\ free_offset = SEG_HEADER
       /\ \A q \in Procs \ {p} : todo[q] = <<>>
  BY <1>1, <1>3, <1>6 DEF BootInv
<1>15. BootInv(mk2)'
  <2>1. /\ ready'["Proc Header"] = 0 /\ allocs' = <<>> /\ free_offset' = SEG_HEADER
        /\ \A q \in Procs \ {Postmaster} : todo'[q] = <<>>
    BY <1>2, <1>3, <1>9, <1>11, <1>14
  <2>2. mk2[Postmaster].stage = "boot"
    BY <1>3, <1>6, <1>10 DEF Moved
  <2>3. ASSUME NEW q \in Procs, q # Postmaster
        PROVE  mk2[q].stage = "idle"
    <3>1. todo[q] = <<>> /\ mk2[q] = mk[q]
      BY <1>3, <1>10, <1>14, <2>3 DEF Moved
    <3>2. Final(mk[q])
      BY <3>1, MayStart
    <3> QED BY <3>1, <3>2 DEF Final
  <2>4. \A q \in Procs : /\ q = Postmaster => mk2[q].stage = "boot"
                         /\ q # Postmaster => mk2[q].stage = "idle"
    BY <2>2, <2>3
  <2> QED BY <2>1, <2>2, <2>4 DEF BootInv, Booting
<1>16. ProcInv(mk2)'
  BY <1>1, <1>2, <1>6, <1>10, <1>11, <1>12, ProcsKeep
<1>17. /\ mk[p].stage \notin Pooling \cup {"dead"} /\ b.stage \notin Pooling
       /\ b.stage \notin {"attached", "own"}
  BY <1>6 DEF Pooling
<1> QED BY <1>2, <1>6, <1>9, <1>10, <1>13, <1>15, <1>16, <1>17, ProcStep

\* The initial states.
LEMMA StartsRight == StartupInit => StartupInv
<1> SUFFICES ASSUME StartupInit PROVE StartupInv
  OBVIOUS
<1>1. /\ total_size \in Totals /\ free_offset = SEG_HEADER /\ allocs = <<>>
      /\ index = [n \in {} |-> 0] /\ elements = 0
      /\ semval = [l \in Locks |-> IPC_SEMAPHORE_DEFAULT_START_VALUE]
      /\ held = [p \in Procs |-> {}] /\ todo = [p \in Procs |-> <<>>]
      /\ ret = [p \in Procs |-> NULL] /\ found = [p \in Procs |-> FALSE] /\ top = [p \in Procs |-> 0]
      /\ ready = [n \in Structs |-> 0] /\ free_procs = <<>> /\ MyProc = [p \in Procs |-> NULL]
      /\ descs = [p \in Procs |-> [at |-> NULL, found |-> FALSE]] /\ lives = 0 /\ crashed = {}
  BY DEF StartupInit, ShmemInit
<1>2. PICK r : r = Resting
  OBVIOUS
<1>3. r.locks = {} /\ r.stage = "idle" /\ r.reg = "none" /\ r.work = "no" /\ Final(r)
  BY <1>2 DEF Resting, Mark, Final
<1>4. PICK mk : mk = [p \in Procs |-> r]
  OBVIOUS
<1>5. mk = [p \in Procs |-> mk[p]] /\ \A p \in Procs : mk[p] = r
  BY <1>4
<1>6. Fits(mk)
  <2>1. \A p \in Procs : todo[p] = <<>>
    BY <1>1
  <2>2. \A p \in Procs : Runs(p, <<>>, r)
    BY <1>3, RunsNone
  <2> QED BY <1>5, <2>1, <2>2 DEF Fits
<1>7. /\ DOMAIN index = {} /\ DOMAIN allocs = {} /\ DOMAIN free_procs = {}
      /\ \A n \in Structs : ready[n] = 0
      /\ BD \in Structs /\ BB \in Structs /\ HashTable \in Structs /\ "Proc Header" \in Structs
  <2>1. DOMAIN <<>> = {} /\ DOMAIN index = {}
    BY <1>1
  <2>2. \A n \in Structs : ready[n] = 0
    BY <1>1
  <2>3. BD \in Structs /\ BB \in Structs /\ HashTable \in Structs /\ "Proc Header" \in Structs
    BY StartupAssumption DEF BD, BB, HashTable
  <2> QED BY <1>1, <2>1, <2>2, <2>3
<1>8. total_size \in Nat /\ SEG_HEADER \in Nat /\ SEG_HEADER <= total_size
  BY <1>1, ShmemAssumption
<1>9. Types
  <2>1. MemTypes
    BY <1>1, <1>8 DEF MemTypes
  <2>2. IndexTypes
    BY <1>1, <1>7 DEF IndexTypes
  <2>3. LockTypes
    BY <1>1 DEF LockTypes, IPC_SEMAPHORE_DEFAULT_START_VALUE
  <2>4. RegTypes
    BY <1>1 DEF RegTypes, NULL
  <2>5. TableTypes
    <3>1. ready \in [Structs -> Nat] /\ MyProc \in [Procs -> Nat]
      BY <1>1 DEF NULL
    <3>2. lives \in 0..MaxLives
      <4>1. lives = 0
        BY <1>1
      <4>2. PICK n \in Nat : n = MaxLives
        BY StartupAssumption
      <4>3. 0 \in 0..n
        OBVIOUS
      <4> QED BY <4>1, <4>2, <4>3
    <3>3. free_procs \in Seq(1..total_size) /\ crashed \subseteq Procs
      BY <1>1
    <3> QED BY <3>1, <3>2, <3>3 DEF TableTypes
  <2> QED BY <2>1, <2>2, <2>3, <2>4, <2>5 DEF Types
<1>10. LockInv(mk)
  <2>1. \A l \in Locks : semval[l] = 1
    BY <1>1 DEF IPC_SEMAPHORE_DEFAULT_START_VALUE
  <2>2. \A p \in Procs : mk[p].locks = {} /\ held[p] = {}
    BY <1>1, <1>3, <1>5
  <2> QED BY <2>1, <2>2 DEF LockInv
<1>11. MemInv(mk)
  <2>1. AllocsDisjoint
    BY <1>1, <1>7, <1>8 DEF AllocsDisjoint
  <2> QED BY <1>3, <1>5, <2>1 DEF MemInv
<1>12. IndexInv(mk)
  BY <1>3, <1>5, <1>7 DEF IndexInv
<1>13. BootInv(mk)
  BY <1>1, <1>3, <1>5, <1>7, StartupAssumption DEF BootInv, Booting
<1>14. PoolInv(mk)
  <2>1. OneInitialiser
    <3>1. \A n \in Structs : ready[n] = 0
      BY <1>7
    <3>2. ASSUME NEW x, x = 0 PROVE x <= 1
      BY <3>2
    <3> QED BY <3>1, <3>2 DEF OneInitialiser
  <2>2. PoolNone
    BY <1>7 DEF PoolNone, Ready
  <2> QED BY <1>3, <1>5, <2>1, <2>2 DEF PoolInv, Pooling
<1>15. ProcInv(mk)
  <2>1. \A p \in Procs : MyProc[p] = NULL
    BY <1>1
  <2>2. ProcsDistinct
    BY <1>7, <2>1 DEF ProcsDistinct
  <2>3. PidInv(mk)
    BY <1>3, <1>5, <1>7 DEF PidInv
  <2> QED BY <1>3, <1>5, <1>7, <2>1, <2>2, <2>3 DEF ProcInv
<1> QED BY <1>6, <1>9, <1>10, <1>11, <1>12, <1>13, <1>14, <1>15 DEF StartupInv, StateInv

\* A step that changes nothing.
LEMMA Stutters ==
  ASSUME NEW mk, Fits(mk), StateInv(mk), UNCHANGED startVars
  PROVE  StartupInv'
<1>1. /\ Types /\ LockInv(mk) /\ MemInv(mk) /\ IndexInv(mk) /\ BootInv(mk) /\ PoolInv(mk)
      /\ ProcInv(mk) /\ RegTypes
  BY Parts
<1>2. /\ UNCHANGED <<total_size, free_offset, allocs, index, elements>>
      /\ UNCHANGED <<semval, held>> /\ UNCHANGED <<todo, ret, found, top>>
      /\ UNCHANGED <<ready, free_procs, MyProc, descs>> /\ UNCHANGED <<lives, crashed>>
  BY DEF startVars, shmemVars, lockVars, procVars, tableVars
<1>3. Types'
  BY <1>1, <1>2 DEF Types, MemTypes, IndexTypes, LockTypes, RegTypes, TableTypes
<1>4. LockInv(mk)'
  BY <1>1, <1>2 DEF LockInv
<1>5. MemInv(mk)'
  BY <1>1, <1>2 DEF MemInv, AllocsDisjoint, Has
<1>6. IndexInv(mk)'
  BY <1>1, <1>2 DEF IndexInv, Has
<1>7. BootInv(mk)'
  BY <1>1, <1>2 DEF BootInv, Has
<1>8. PoolInv(mk)'
  <2>1. /\ \A x, y, z : Ready(x, y, z)' <=> Ready(x, y, z)
        /\ (PoolNone' <=> PoolNone) /\ (PoolDone' <=> PoolDone) /\ (OneInitialiser' <=> OneInitialiser)
    BY <1>2 DEF Ready, PoolNone, PoolDone, OneInitialiser
  <2>2. ASSUME NEW p \in Procs, PoolAt(p, mk[p]) PROVE PoolAt(p, mk[p])'
    BY <1>2, <2>1, <2>2 DEF PoolAt
  <2> QED BY <1>1, <2>1, <2>2 DEF PoolInv
<1>9. ProcInv(mk)'
  <2>1. PidInv(mk)'
    BY <1>1, <1>2 DEF ProcInv, PidInv, SegmentFull, Has
  <2> QED BY <1>1, <1>2, <2>1 DEF ProcInv, ProcsDistinct, Allocated, Has
<1>10. Fits(mk)'
  BY <1>2 DEF Fits
<1> QED BY <1>3, <1>4, <1>5, <1>6, <1>7, <1>8, <1>9, <1>10 DEF StartupInv, StateInv

\* Every step keeps the invariant.
LEMMA StepsKeep == StartupInv /\ [StartupNext]_startVars => StartupInv'
<1> SUFFICES ASSUME StartupInv, [StartupNext]_startVars PROVE StartupInv'
  OBVIOUS
<1>1. PICK mk : Fits(mk) /\ StateInv(mk)
  BY DEF StartupInv
<1>2. CASE UNCHANGED startVars
  BY <1>1, <1>2, Stutters
<1>3. CASE Boot
  BY <1>1, <1>3, BootStep
<1>4. ASSUME NEW p \in Procs, Start(p) PROVE StartupInv'
  BY <1>1, <1>4, StartStep
<1>5. ASSUME NEW p \in Procs, Crash(p) PROVE StartupInv'
  BY <1>1, <1>5, CrashStep
<1>6. ASSUME NEW p \in Procs, Exit(p), UNCHANGED <<lives, crashed>> PROVE StartupInv'
  BY <1>1, <1>6, ExitStep
<1>7. ASSUME NEW p \in Procs, ShmemStep(p), UNCHANGED tableVars, UNCHANGED <<lives, crashed>>
      PROVE  StartupInv'
  <2>1. UNCHANGED <<tableVars, lives, crashed>>
    BY <1>7
  <2> QED BY <1>1, <1>7, <2>1, AcquireStep, ReleaseStep, NewFreeStep, CarveStep,
            MoreElementsStep, EnterFoundStep, EnterNewStep, FillStep, UseStep, EnterItselfStep,
            PidFoundStep, PidRemoveStep DEF ShmemStep
<1>8. ASSUME NEW p \in Procs, TableStep(p), UNCHANGED <<lives, crashed>> PROVE StartupInv'
  BY <1>1, <1>8, InitProcHeaderStep, KeepDescsStep, LinkBuffersStep, HashCreateStep, HashDoneStep,
     InitFreelistStep, TakeFreeStep, TakeNewStep, NewProcStep, PidLookupStep, FreeProcStep
     DEF TableStep
<1> QED BY <1>2, <1>3, <1>4, <1>5, <1>6, <1>7, <1>8 DEF StartupNext, Run

\* What has been allocated lies where it says, so the entry of the index that
\* says so is sound once nobody is at work on it.
LEMMA InvSharedOnce == StartupInv => SharedOnce
<1> SUFFICES ASSUME StartupInv PROVE SharedOnce
  OBVIOUS
<1>1. PICK mk : Fits(mk) /\ StateInv(mk)
  BY DEF StartupInv
<1>2. /\ Types /\ LockInv(mk) /\ MemInv(mk) /\ IndexInv(mk) /\ BootInv(mk) /\ PoolInv(mk)
      /\ ProcInv(mk) /\ RegTypes
  BY <1>1, Parts
<1>3. StartupTypeOK
  <2>1. MemTypes /\ IndexTypes /\ LockTypes /\ RegTypes /\ TableTypes
    BY <1>2 DEF Types
  <2>2. \A i \in DOMAIN free_procs : free_procs[i] \in 1..total_size
    <3>1. PICK T : T = 1..total_size
      OBVIOUS
    <3>2. free_procs \in Seq(T)
      BY <2>1, <3>1 DEF TableTypes
    <3>3. \A i \in DOMAIN free_procs : free_procs[i] \in T
      BY <3>2
    <3> QED BY <3>1, <3>3
  <2> QED BY <2>1, <2>2
          DEF MemTypes, IndexTypes, LockTypes, RegTypes, TableTypes, StartupTypeOK, ShmemTypeOK
<1>4. LockExclusive
  <2> SUFFICES ASSUME NEW l \in Locks
               PROVE  semval[l] + Cardinality({p \in Procs : l \in held[p]}) = 1
    BY DEF LockExclusive
  <2>1. \A p \in Procs : held[p] = mk[p].locks
    BY <1>2 DEF LockInv
  <2>2. CASE semval[l] = 1
    <3>1. {p \in Procs : l \in held[p]} = {}
      BY <1>2, <2>1, <2>2 DEF LockInv
    <3> QED BY <2>2, <3>1, FS_EmptySet
  <2>3. CASE semval[l] = 0
    <3>1. PICK p \in Procs : l \in mk[p].locks
      BY <1>2, <2>3 DEF LockInv
    <3>2. {q \in Procs : l \in held[q]} = {p}
      BY <1>2, <2>1, <3>1 DEF LockInv
    <3> QED BY <2>3, <3>2, FS_Singleton
  <2> QED BY <1>2, <2>2, <2>3 DEF LockInv
<1>5. AllocsDisjoint /\ OneInitialiser
  BY <1>2 DEF MemInv, PoolInv
<1>6. IndexSound
  <2> SUFFICES ASSUME \A p \in Procs : "ShmemIndexLock" \notin held[p],
                      NEW n \in DOMAIN index \cap Structs
               PROVE  Allocated(index[n].location, index[n].size)
    BY DEF IndexSound
  <2>1. \A p \in Procs : "ShmemIndexLock" \notin mk[p].locks
    BY <1>2 DEF LockInv
  <2>2. \A p \in Procs : mk[p].work = "no"
    BY <1>2, <2>1 DEF IndexInv
  <2>3. Has(allocs, index[n].location, index[n].size)
    BY <1>2, <2>2 DEF IndexInv
  <2> QED BY <2>3 DEF Has, Allocated
<1>7. PoolSeenWhole
  <2>1. ASSUME NEW p \in Procs, At(p, "hash_create"), found[p]
        PROVE  ready[HashTable] = 1
    <3>1. todo[p] # <<>> /\ Head(todo[p])[1] = "hash_create"
      BY <2>1 DEF At
    <3>2. PICK d : Flow(p, Head(todo[p]), mk[p], d)
      BY <1>1, <3>1, HeadFlow
    <3>3. mk[p].stage = "pool6"
      BY <3>1, <3>2, FlowParts DEF FlowStage, Advances
    <3>4. PoolAt(p, mk[p])
      BY <1>2, <3>3, SMTT(60) DEF PoolInv, Pooling
    <3> QED BY <2>1, <3>3, <3>4 DEF PoolAt, PoolDone, Ready
  <2>2. ASSUME NEW p \in Procs, At(p, "take") \/ Running(p)
        PROVE  \A n \in {"Buffer Descriptors", "Buffer Blocks", HashTable} : ready[n] = 1
    <3>1. CASE At(p, "take")
      <4>1. todo[p] # <<>> /\ Head(todo[p])[1] = "take"
        BY <3>1 DEF At
      <4>2. PICK d : Flow(p, Head(todo[p]), mk[p], d)
        BY <1>1, <4>1, HeadFlow
      <4>3. mk[p].stage = "attached"
        BY <4>1, <4>2, FlowParts DEF FlowEnd
      <4> QED BY <1>2, <4>3, ZenonT(60) DEF PoolInv, Ready, BD, BB
    <3>2. CASE Running(p)
      <4>1. mk[p].stage \in {"attached", "own"}
        BY <1>1, <3>2, RunningMark DEF Running
      <4> QED BY <1>2, <4>1 DEF PoolInv, Ready, BD, BB
    <3> QED BY <2>2, <3>1, <3>2
  <2> QED BY <2>1, <2>2 DEF PoolSeenWhole
<1> QED BY <1>3, <1>4, <1>5, <1>6, <1>7 DEF SharedOnce

\* A process that runs has a Proc, and the mark it has says where its pid
\* leads.
LEMMA InvProcsOwned == StartupInv => ProcsOwned
<1> SUFFICES ASSUME StartupInv PROVE ProcsOwned
  OBVIOUS
<1>1. PICK mk : Fits(mk) /\ StateInv(mk)
  BY DEF StartupInv
<1>2. ProcInv(mk) /\ PidInv(mk) /\ IndexInv(mk) /\ MemTypes
  BY <1>1, Parts DEF ProcInv, Types
<1>3. ProcsDistinct
  BY <1>2 DEF ProcInv
<1>4. ASSUME NEW p \in Procs, p \in DOMAIN index, mk[p].stage # "leaving", index[p].location # MyProc[p]
      PROVE  p \in crashed /\ Abandoned(index[p].location)
  BY <1>2, <1>4 DEF PidInv, Abandoned, Allocated, Has
<1>5. ASSUME NEW p \in Procs, p # Postmaster, Running(p)
      PROVE  /\ p \notin DOMAIN index => SegmentFull
             /\ p \in DOMAIN index =>
                  index[p].location = MyProc[p] \/ (p \in crashed /\ Abandoned(index[p].location))
  <2>1. mk[p].stage = "own" /\ mk[p].work = "no" /\ mk[p].name = "known"
    BY <1>1, <1>5, RunningMark DEF Running
  <2>2. p \notin DOMAIN index => SegmentFull
    BY <1>2, <2>1 DEF PidInv
  <2> QED BY <1>4, <2>1, <2>2
<1>6. ASSUME NEW p \in Procs, At(p, "gone"), p \in DOMAIN index
      PROVE  p \in crashed /\ Abandoned(index[p].location)
  <2>1. mk[p].stage = "idle"
    BY <1>1, <1>6, GoneMark
  <2>2. MyProc[p] = NULL
    BY <1>2, <2>1 DEF ProcInv
  <2>3. index[p].location # NULL
    BY <1>2, <1>6, PidNotNull
  <2> QED BY <1>4, <1>6, <2>1, <2>2, <2>3
<1> QED BY <1>3, <1>5, <1>6 DEF ProcsOwned, PidFindsProc

-----------------------------------------------------------------------------
\* In every state the programs of the processes fit marks, and what the marks
\* say is true: the inductive invariant of the module.
THEOREM StartupInvariant == StartupSpec => []StartupInv
<1>1. StartupInit => StartupInv
  BY StartsRight
<1>2. StartupInv /\ [StartupNext]_startVars => StartupInv'
  BY StepsKeep
<1> QED BY <1>1, <1>2, PTL DEF StartupSpec

\* However many processes start at the same time, what they set up in shared
\* memory is set up once (found_ptr of shmem_init_struct), in memory of its
\* own (shmem_alloc), under its lock (spin_acquire), and is whole when the
\* others come to it (the lock of init_buffer_pool).
THEOREM SharedIsSetUpOnce == StartupSpec => []SharedOnce
<1>1. StartupSpec => []StartupInv
  BY StartupInvariant
<1>2. StartupInv => SharedOnce
  BY InvSharedOnce
<1> QED BY <1>1, <1>2, PTL

\* However many backends start, exit and crash, each has a Proc of its own
\* (init_process, proc_kill), and its pid leads to it (shmem_pid_lookup): the
\* exceptions are a pid whose entry is left from a crash, which leads to a Proc
\* that nobody has and nobody can take, and a pid without an entry, which there
\* is only when the segment has no space for more entries.  A backend that has
\* exited leaves no entry (shmem_pid_destroy).
THEOREM ProcsAreOwned == StartupSpec => []ProcsOwned
<1>1. StartupSpec => []StartupInv
  BY StartupInvariant
<1>2. StartupInv => ProcsOwned
  BY InvProcsOwned
<1> QED BY <1>1, <1>2, PTL
=============================================================================
