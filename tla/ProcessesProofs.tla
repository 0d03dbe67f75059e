--------------------------- MODULE ProcessesProofs --------------------------
(***************************************************************************)
(* What processes share and how they end, proved for any number of them:   *)
(* the buffer table leads to the right buffer, both kinds of lock admit    *)
(* one process, no request of a signal is lost and every exit callback is  *)
(* called once.                                                            *)
(*                                                                         *)
(* Then the hash tables of dynahash.c, which the buffer table and the      *)
(* index of shared memory are kept in: a lookup finds what was entered and *)
(* a scan returns it once, for every hash function, initial size, segment  *)
(* size, fill factor and expansion that fails.  The invariant says that    *)
(* each element with a key is in the bucket that call_hash computes now    *)
(* and the others are on the free list; a new bucket takes over keys of    *)
(* one old bucket only, which is arithmetic of the two masks.              *)
(***************************************************************************)
EXTENDS MCProcesses, DynaHash, RingProofs, FiniteSetTheorems, SequenceTheorems, TLAPS

-----------------------------------------------------------------------------
(* The buffer table, buf_table.c.                                          *)

\* The table maps blocks to buffers.
BufTableTypes ==
  /\ tag \in [Bufs -> Blocks \cup {P_NEW}]
  /\ DOMAIN SharedBufHash \subseteq Blocks
  /\ \A t \in DOMAIN SharedBufHash : SharedBufHash[t] \in Bufs

BufTableInv == BufTableTypes /\ BlocksFound

\* What buf_table_delete leaves: every entry that did not lead to the buffer,
\* unless its block is one the buffer holds as well.
LEMMA DeletedEntries ==
  ASSUME BufTableInv, NEW b \in Bufs
  PROVE  /\ DOMAIN Deleted(b) \subseteq DOMAIN SharedBufHash
         /\ \A t \in DOMAIN Deleted(b) :
              Deleted(b)[t] = SharedBufHash[t] /\ SharedBufHash[t] # b
         /\ \A t \in DOMAIN SharedBufHash :
              b \in BM_DELETED \/ t # tag[b] => t \in DOMAIN Deleted(b)
<1>1. CASE b \in BM_DELETED
  BY <1>1 DEF Deleted, BufTableInv, BlocksFound, LookupRight
<1>2. CASE b \notin BM_DELETED
  BY <1>2 DEF Deleted, Without, BufTableInv, BlocksFound, LookupRight
<1> QED BY <1>1, <1>2

\* Taking a buffer out of the table.
LEMMA DeleteFound ==
  ASSUME BufTableInv, NEW b \in Bufs, buf_table_delete(b)
  PROVE  BufTableInv'
<1>1. /\ SharedBufHash' = Deleted(b) /\ BM_DELETED' = BM_DELETED \cup {b}
      /\ UNCHANGED <<tag, failed>>
  BY DEF buf_table_delete
<1>2. BufTableTypes'
  BY <1>1, DeletedEntries DEF BufTableInv, BufTableTypes
<1>3. LookupRight'
  BY <1>1, DeletedEntries DEF BufTableInv, BlocksFound, LookupRight
<1>4. ASSUME ~failed, NEW c \in Bufs, c \notin BM_DELETED, c # b
      PROVE  Lookup(tag[c])' = c
  <2>1. Lookup(tag[c]) = c
    BY <1>4 DEF BufTableInv, BlocksFound, NoneLost
  <2>2. tag[c] # P_NEW /\ tag[c] \in DOMAIN SharedBufHash /\ SharedBufHash[tag[c]] = c
    BY <1>4, <2>1, BufTableAssumption DEF Lookup
  <2>3. b \in BM_DELETED \/ tag[c] # tag[b]
    <3>1. b \notin BM_DELETED => SharedBufHash[tag[b]] = b
      BY <1>4, BufTableAssumption DEF BufTableInv, BlocksFound, NoneLost, Lookup
    <3> QED BY <1>4, <2>2, <3>1
  <2>4. tag[c] \in DOMAIN Deleted(b) /\ Deleted(b)[tag[c]] = c
    BY <2>2, <2>3, DeletedEntries
  <2> QED BY <1>1, <2>2, <2>4 DEF Lookup
<1>5. NoneLost'
  BY <1>1, <1>4 DEF NoneLost
<1> QED BY <1>2, <1>3, <1>5 DEF BufTableInv, BlocksFound

\* Giving a buffer another block, whether or not its entry can be made.
LEMMA ReplaceFound ==
  ASSUME BufTableInv, NEW b \in Bufs, NEW t \in Blocks, NEW room \in BOOLEAN,
         Replace(b, t, room)
  PROVE  BufTableInv'
<1>1. /\ Lookup(t) = NoBuf /\ tag' = [tag EXCEPT ![b] = t]
      /\ failed' = (failed \/ ~room) /\ BM_DELETED' = BM_DELETED \ {b}
      /\ room => SharedBufHash' = [u \in DOMAIN Deleted(b) \cup {t} |->
                                     IF u = t THEN b ELSE Deleted(b)[u]]
      /\ ~room => SharedBufHash' = Deleted(b)
  BY DEF Replace, Insert
<1>2. t # P_NEW /\ t \notin DOMAIN SharedBufHash
  BY <1>1, BufTableAssumption DEF Lookup, BufTableInv, BufTableTypes
<1>3. /\ \A u \in DOMAIN SharedBufHash' :
           \/ room /\ u = t /\ SharedBufHash'[u] = b
           \/ /\ u \in DOMAIN Deleted(b) /\ u \in DOMAIN SharedBufHash /\ u # t
              /\ SharedBufHash'[u] = SharedBufHash[u] /\ SharedBufHash[u] # b
      /\ \A u \in DOMAIN Deleted(b) : u \in DOMAIN SharedBufHash'
      /\ room => t \in DOMAIN SharedBufHash'
  <2>1. CASE room
    BY <1>1, <1>2, <2>1, DeletedEntries
  <2>2. CASE ~room
    BY <1>1, <1>2, <2>2, DeletedEntries
  <2> QED BY <2>1, <2>2
<1>4. /\ tag \in [Bufs -> Blocks \cup {P_NEW}] /\ tag'[b] = t
      /\ \A c \in Bufs : c # b => tag'[c] = tag[c]
  BY <1>1 DEF BufTableInv, BufTableTypes
<1>5. BufTableTypes'
  BY <1>1, <1>3, <1>4 DEF BufTableInv, BufTableTypes
<1>6. LookupRight'
  BY <1>1, <1>2, <1>3, <1>4 DEF BufTableInv, BufTableTypes, BlocksFound, LookupRight
<1>7. ASSUME ~failed, room, NEW c \in Bufs, c \notin BM_DELETED \ {b}
      PROVE  Lookup(tag[c])' = c
  <2>1. CASE c = b
    BY <1>2, <1>3, <1>4, <1>7, <2>1 DEF Lookup
  <2>2. CASE c # b
    <3>1. Lookup(tag[c]) = c
      BY <1>7, <2>2 DEF BufTableInv, BlocksFound, NoneLost
    <3>2. tag[c] # P_NEW /\ tag[c] \in DOMAIN SharedBufHash /\ SharedBufHash[tag[c]] = c
      BY <3>1, BufTableAssumption DEF Lookup
    <3>3. b \in BM_DELETED \/ tag[c] # tag[b]
      <4>1. b \notin BM_DELETED => SharedBufHash[tag[b]] = b
        BY <1>7, BufTableAssumption DEF BufTableInv, BlocksFound, NoneLost, Lookup
      <4> QED BY <2>2, <3>2, <4>1
    <3>4. tag[c] \in DOMAIN Deleted(b)
      BY <3>2, <3>3, DeletedEntries
    <3>5. tag[c] \in DOMAIN SharedBufHash' /\ SharedBufHash'[tag[c]] = c
      BY <1>2, <1>3, <3>2, <3>4
    <3> QED BY <1>4, <2>2, <3>2, <3>5 DEF Lookup
  <2> QED BY <2>1, <2>2
<1>8. NoneLost'
  <2>1. ~failed' => ~failed /\ room
    BY <1>1
  <2> QED BY <1>1, <1>7, <2>1 DEF NoneLost
<1> QED BY <1>5, <1>6, <1>8 DEF BufTableInv, BlocksFound

\* Every step keeps the table.
LEMMA BufTableStep == BufTableInv /\ [Next]_vars => BufTableInv'
<1> SUFFICES ASSUME BufTableInv, [Next]_vars PROVE BufTableInv'
  OBVIOUS
<1>1. CASE BufTableNext
  <2>1. CASE \E t \in Blocks \cup {P_NEW} : buf_table_lookup(t)
    BY <2>1 DEF buf_table_lookup, BufTableInv, BufTableTypes, BlocksFound, LookupRight,
                NoneLost, Lookup
  <2> QED BY <1>1, <2>1, DeleteFound, ReplaceFound DEF BufTableNext
<1>2. CASE UNCHANGED bufTableVars
  BY <1>2 DEF bufTableVars, BufTableInv, BufTableTypes, BlocksFound, LookupRight,
              NoneLost, Lookup
<1> QED BY <1>1, <1>2 DEF Next, vars

\* A lookup in the buffer table finds a buffer that holds the block, and until
\* an entry could not be made it finds every block that is in a buffer.
THEOREM BlocksAreFound == Spec => []BlocksFound
<1>1. Init => BufTableInv
  BY DEF Init, BufTableInit, BufTableInv, BufTableTypes, BlocksFound, LookupRight, NoneLost
<1>2. BufTableInv => BlocksFound
  BY DEF BufTableInv
<1> QED BY <1>1, <1>2, BufTableStep, PTL DEF Spec

-----------------------------------------------------------------------------
(* The two locks: the test-and-set word of s_lock.c, the semaphore of      *)
(* ipc.c.                                                                  *)

\* The processes that hold the test-and-set lock.
In == {p \in Spinners : state[p] = "in"}

SLockInv ==
  /\ word \in {0, 1}
  /\ state \in [Spinners -> {"out", "spinning", "in", "aborted"}]
  /\ SLockExclusive

\* An exchange, whatever becomes of a process that finds the word set.
LEMMA EntersExclusive ==
  ASSUME SLockInv, NEW p \in Spinners, state[p] # "in",
         NEW next \in {"spinning", "aborted"}, Enters(p, next)
  PROVE  SLockInv'
<1>1. IsFiniteSet(In) /\ Cardinality(In) = word
  BY SLockAssumption, FS_Subset DEF In, SLockInv, SLockExclusive
<1>2. state' \in [Spinners -> {"out", "spinning", "in", "aborted"}] /\ word' = 1
  BY DEF Enters, SLockInv
<1>3. CASE word = 0
  <2>1. In' = In \cup {p} /\ p \notin In
    BY <1>3 DEF In, Enters, SLockInv
  <2>2. Cardinality(In') = 1
    BY <1>1, <1>3, <2>1, FS_AddElement
  <2> QED BY <1>2, <2>2 DEF SLockInv, SLockExclusive, In
<1>4. CASE word = 1
  <2>1. In' = In
    BY <1>4 DEF In, Enters, SLockInv
  <2> QED BY <1>1, <1>2, <1>4, <2>1 DEF SLockInv, SLockExclusive, In
<1> QED BY <1>3, <1>4 DEF SLockInv

\* Every step keeps the lock.
LEMMA SLockStep == SLockInv /\ [Next]_vars => SLockInv'
<1> SUFFICES ASSUME SLockInv, [Next]_vars PROVE SLockInv'
  OBVIOUS
<1>1. CASE \E p \in Spinners : LOCK_ACQUIRE(p) \/ s_lock(p)
  <2>1. PICK p \in Spinners : LOCK_ACQUIRE(p) \/ s_lock(p)
    BY <1>1
  <2>2. state[p] # "in" /\ \E next \in {"spinning", "aborted"} : Enters(p, next)
    BY <2>1 DEF LOCK_ACQUIRE, s_lock
  <2> QED BY <2>2, EntersExclusive
<1>2. CASE \E p \in Spinners : LOCK_RELEASE(p)
  <2>1. PICK p \in Spinners : LOCK_RELEASE(p)
    BY <1>2
  <2>2. IsFiniteSet(In) /\ Cardinality(In) = word
    BY SLockAssumption, FS_Subset DEF In, SLockInv, SLockExclusive
  <2>3. In' = In \ {p} /\ p \in In /\ word' = 0
        /\ state' \in [Spinners -> {"out", "spinning", "in", "aborted"}]
    BY <2>1 DEF In, LOCK_RELEASE, SLockInv
  <2>4. Cardinality(In') = word - 1 /\ Cardinality(In') \in Nat
    BY <2>2, <2>3, FS_RemoveElement, FS_CardinalityType, FS_Subset
  <2>5. Cardinality(In') = 0
    BY <2>4 DEF SLockInv
  <2> QED BY <2>3, <2>5 DEF SLockInv, SLockExclusive, In
<1>3. CASE UNCHANGED slockVars
  BY <1>3 DEF slockVars, SLockInv, SLockExclusive
<1> QED BY <1>1, <1>2, <1>3 DEF Next, SLockNext, vars

\* Where at[p] may point: only process_interrupts has a place to go back to
\* that is not its own, and it was called from outside ipc_semaphore_lock or
\* from the check before semop.
PlacesPaired ==
  \A p \in Backends :
    IF Place(p) \in Serving \cup {"clear"} THEN Back(p) \in {"idle", "held", "window"}
                                           ELSE Back(p) = Place(p)

\* Once the die flag has been looked at, it is up only by a later signal.
DieLater ==
  \A p \in Backends :
    Place(p) \in {"died", "cancel?"} /\ ProcDiePending[p] => InterruptPending[p]

IntrInv ==
  /\ IntrTypeOK
  /\ PlacesPaired
  /\ OneHolder
  /\ DieLater
  /\ RequestKept
  /\ QuietExit

\* The types, one variable at a time.
LEMMA IntrTypes ==
  ASSUME IntrTypeOK
  PROVE  /\ interrupt_ok \in [Backends -> BOOLEAN]
         /\ InterruptPending \in [Backends -> BOOLEAN]
         /\ ProcDiePending \in [Backends -> BOOLEAN]
         /\ QueryCancelPending \in [Backends -> BOOLEAN]
         /\ ImmediateInterruptOK \in [Backends -> BOOLEAN]
         /\ ProcExitInprogress \in [Backends -> BOOLEAN]
         /\ InterruptHoldoffCount \in [Backends -> Nat]
         /\ CritSectionCount \in [Backends -> Nat]
         /\ sem \in {-1, 0, 1}
         /\ \A p \in Backends : Place(p) \in Places \cup Serving /\ Back(p) \in Places
BY DEF IntrTypeOK, Place, Back

\* A step of a process p.
IntrStepOf(p) ==
  \/ Inside(p)
  \/ \E die \in BOOLEAN : Signal(p, die)
  \/ /\ \/ \E ok \in BOOLEAN : ipc_semaphore_lock(p, ok)
        \/ ipc_semaphore_try_lock(p) \/ ipc_semaphore_unlock(p) \/ CallProcExit(p)
        \/ HOLD_INTERRUPTS(p) \/ RESUME_INTERRUPTS(p)
        \/ START_CRIT_SECTION(p) \/ END_CRIT_SECTION(p)
     /\ UNCHANGED signals

\* It leaves the other processes where they are.
LEMMA OthersStay ==
  ASSUME IntrTypeOK, NEW p \in Backends, IntrStepOf(p), NEW q \in Backends, q # p
  PROVE  /\ at'[q] = at[q]
         /\ InterruptPending'[q] = InterruptPending[q]
         /\ ProcDiePending'[q] = ProcDiePending[q]
         /\ QueryCancelPending'[q] = QueryCancelPending[q]
         /\ InterruptHoldoffCount'[q] = InterruptHoldoffCount[q]
         /\ CritSectionCount'[q] = CritSectionCount[q]
<1>1. at \in [Backends -> (Places \cup Serving) \X Places]
  BY DEF IntrTypeOK
<1>2. \E x : at' = [at EXCEPT ![p] = x] \/ at' = at
  BY DEF IntrStepOf, Inside, process_interrupts, ServeClear, ServeDie, Died, ServeCancel,
         Arm, CheckAndCall, Check, Semop, SemopReturns, Disarm, Exiting, ProcExitFlag,
         ProcExitForget, Signal, ipc_semaphore_lock, ipc_semaphore_try_lock,
         ipc_semaphore_unlock, CallProcExit, HOLD_INTERRUPTS, RESUME_INTERRUPTS,
         START_CRIT_SECTION, END_CRIT_SECTION, Goes
<1>3. /\ \E x : InterruptPending' = [InterruptPending EXCEPT ![p] = x]
                \/ InterruptPending' = InterruptPending
      /\ \E x : ProcDiePending' = [ProcDiePending EXCEPT ![p] = x]
                \/ ProcDiePending' = ProcDiePending
      /\ \E x : QueryCancelPending' = [QueryCancelPending EXCEPT ![p] = x]
                \/ QueryCancelPending' = QueryCancelPending
  BY DEF IntrStepOf, Inside, process_interrupts, ServeClear, ServeDie, Died, ServeCancel,
         Arm, CheckAndCall, Semop, SemopReturns, Disarm, Exiting, ProcExitFlag,
         ProcExitForget, Signal, ipc_semaphore_lock, ipc_semaphore_try_lock,
         ipc_semaphore_unlock, CallProcExit, HOLD_INTERRUPTS, RESUME_INTERRUPTS,
         START_CRIT_SECTION, END_CRIT_SECTION, Set, pendingVars
<1>4. /\ \E x : InterruptHoldoffCount' = [InterruptHoldoffCount EXCEPT ![p] = x]
                \/ InterruptHoldoffCount' = InterruptHoldoffCount
      /\ \E x : CritSectionCount' = [CritSectionCount EXCEPT ![p] = x]
                \/ CritSectionCount' = CritSectionCount
  BY DEF IntrStepOf, Inside, process_interrupts, ServeClear, ServeDie, Died, ServeCancel,
         Arm, CheckAndCall, Semop, SemopReturns, Disarm, Exiting, ProcExitFlag,
         ProcExitForget, Signal, ipc_semaphore_lock, ipc_semaphore_try_lock,
         ipc_semaphore_unlock, CallProcExit, HOLD_INTERRUPTS, RESUME_INTERRUPTS,
         START_CRIT_SECTION, END_CRIT_SECTION, Set, countVars
<1> QED BY <1>1, <1>2, <1>3, <1>4, IntrTypes

\* A place and where to go back to from it.
Paired(x, y) ==
  /\ x \in Places \cup Serving /\ y \in Places
  /\ IF x \in Serving \cup {"clear"} THEN y \in {"idle", "held", "window"} ELSE y = x

\* Where a step may take its process.
LEMMA GoesPaired ==
  ASSUME IntrInv, NEW p \in Backends, IntrStepOf(p)
  PROVE  at' = at \/ \E x, y : Paired(x, y) /\ at' = [at EXCEPT ![p] = <<x, y>>]
<1>1. /\ Paired(Place(p), Back(p))
      /\ Place(p) \in Serving \cup {"clear"} => Back(p) \in {"idle", "held", "window"}
  BY IntrTypes DEF IntrInv, PlacesPaired, Paired
<1>2. \A x \in Places \ {"clear"} : Paired(x, x)
  BY DEF Paired, Places, Serving
<1>3. \A x \in {"idle", "held", "window"}, y \in Serving \cup {"clear"} : Paired(y, x)
  BY DEF Paired, Places, Serving
<1>4. CASE process_interrupts(p)
  <2>1. Place(p) \in Serving \cup {"clear"}
    BY <1>4 DEF process_interrupts, ServeClear, ServeDie, Died, ServeCancel, Serving
  <2>2. Back(p) \in {"idle", "held", "window"}
    BY <1>1, <2>1
  <2>3. \/ Goes(p, <<Back(p), Back(p)>>)
        \/ \E x \in Serving : Goes(p, <<x, Back(p)>>)
    BY <1>4 DEF process_interrupts, ServeClear, ServeDie, Died, ServeCancel, Serving
  <2>4. Paired(Back(p), Back(p)) /\ \A x \in Serving : Paired(x, Back(p))
    BY <1>2, <1>3, <2>2 DEF Places
  <2> QED BY <2>3, <2>4 DEF Goes
<1>5. CASE CheckAndCall(p) \/ RESUME_INTERRUPTS(p) \/ END_CRIT_SECTION(p)
  <2>1. PICK x \in {"idle", "held", "window"} : Check(p, x)
    BY <1>5 DEF CheckAndCall, RESUME_INTERRUPTS, END_CRIT_SECTION
  <2>2. Goes(p, <<"clear", x>>) \/ Goes(p, <<x, x>>)
    BY <2>1 DEF Check
  <2>3. Paired("clear", x) /\ Paired(x, x)
    BY <1>2, <1>3 DEF Places
  <2> QED BY <2>2, <2>3 DEF Goes
<1>6. CASE \/ Arm(p) \/ Semop(p) \/ SemopReturns(p) \/ Disarm(p) \/ Exiting(p)
           \/ (\E ok \in BOOLEAN : ipc_semaphore_lock(p, ok))
           \/ ipc_semaphore_try_lock(p) \/ ipc_semaphore_unlock(p) \/ CallProcExit(p)
  <2>1. \E x \in Places \ {"clear"} : Goes(p, <<x, x>>)
    BY <1>6, IntrTypes DEF Arm, Semop, SemopReturns, Disarm, Exiting, ProcExitFlag, ProcExitForget,
              ipc_semaphore_lock, ipc_semaphore_try_lock, ipc_semaphore_unlock,
              CallProcExit, Places, IntrInv
  <2> QED BY <1>2, <2>1 DEF Goes
<1>7. CASE \/ (\E die \in BOOLEAN : Signal(p, die))
           \/ HOLD_INTERRUPTS(p) \/ START_CRIT_SECTION(p)
  <2>1. at' = at \/ Goes(p, <<"eintr", "eintr">>)
    BY <1>7 DEF Signal, HOLD_INTERRUPTS, START_CRIT_SECTION
  <2>2. Paired("eintr", "eintr")
    BY <1>2 DEF Places
  <2> QED BY <2>1, <2>2 DEF Goes
<1> QED BY <1>4, <1>5, <1>6, <1>7 DEF IntrStepOf, Inside

\* The processes past semop with the semaphore.
Holders == {p \in Backends : Place(p) \in {"got", "held"} \/ Back(p) = "held"}

\* The semaphore is up exactly when nobody holds it.
LEMMA HolderCount ==
  ASSUME IntrTypeOK, OneHolder
  PROVE  /\ IsFiniteSet(Holders) /\ Cardinality(Holders) \in Nat
         /\ sem # -1 => sem + Cardinality(Holders) = 1
         /\ sem # -1 /\ Holders # {} => sem = 0
<1>1. IsFiniteSet(Holders) /\ Cardinality(Holders) \in Nat
  BY IntrAssumption, FS_Subset, FS_CardinalityType DEF Holders
<1>2. sem # -1 => sem + Cardinality(Holders) = 1
  BY DEF OneHolder, Holders
<1>3. Holders # {} => Cardinality(Holders) # 0
  BY <1>1, FS_EmptySet
<1> QED BY <1>1, <1>2, <1>3, IntrTypes

\* A step that takes the semaphore, gives it back, removes it or does none of
\* this keeps the count.
LEMMA SemStep ==
  ASSUME IntrInv, NEW p \in Backends, IntrStepOf(p)
  PROVE  sem' \in -1..1 /\ OneHolder'
<1>1. /\ IsFiniteSet(Holders) /\ Cardinality(Holders) \in Nat /\ sem \in {-1, 0, 1}
      /\ sem # -1 => sem + Cardinality(Holders) = 1
      /\ sem # -1 /\ Holders # {} => sem = 0
  BY HolderCount, IntrTypes DEF IntrInv
<1>2. \A q \in Backends : q # p => (q \in Holders' <=> q \in Holders)
  BY OthersStay DEF IntrInv, Holders, Place, Back
<1>3. at \in [Backends -> (Places \cup Serving) \X Places] /\ PlacesPaired
  BY DEF IntrInv, IntrTypeOK
<1>4. \/ sem' = sem /\ (p \in Holders' <=> p \in Holders)
      \/ sem = 1 /\ sem' = 0 /\ p \in Holders'
      \/ sem # -1 /\ sem' = sem + 1 /\ p \in Holders /\ p \notin Holders'
      \/ sem' = -1
  <2>1. \A x, y : Goes(p, <<x, y>>) =>
                    (p \in Holders' <=> x \in {"got", "held"} \/ y = "held")
    BY <1>3 DEF Goes, Holders, Place, Back
  <2>2. at' = at => (p \in Holders' <=> p \in Holders)
    BY DEF Holders, Place, Back
  <2>3. IF Place(p) \in Serving \cup {"clear"}
        THEN p \in Holders <=> Back(p) = "held"
        ELSE p \in Holders <=> Place(p) \in {"got", "held"}
    BY <1>3 DEF Holders, PlacesPaired, Serving
  <2>4. CASE process_interrupts(p)
    <3>1. /\ Place(p) \in Serving \cup {"clear"} /\ sem' = sem
          /\ \/ Goes(p, <<Back(p), Back(p)>>)
             \/ \E x \in Serving : Goes(p, <<x, Back(p)>>)
      BY <2>4 DEF process_interrupts, ServeClear, ServeDie, Died, ServeCancel, Serving
    <3>2. Back(p) # "got"
      BY <1>3, <3>1 DEF PlacesPaired
    <3> QED BY <2>1, <2>3, <3>1, <3>2 DEF Serving
  <2>5. CASE CheckAndCall(p) \/ RESUME_INTERRUPTS(p) \/ END_CRIT_SECTION(p)
    <3>1. /\ sem' = sem /\ Place(p) \in {"check", "idle", "held"}
          /\ LET x == IF Place(p) = "check" THEN "window" ELSE Place(p)
             IN Goes(p, <<"clear", x>>) \/ Goes(p, <<x, x>>)
      BY <2>5 DEF CheckAndCall, RESUME_INTERRUPTS, END_CRIT_SECTION, Check
    <3> QED BY <2>1, <2>3, <3>1 DEF Serving
  <2>6. CASE Arm(p) \/ Semop(p) \/ Disarm(p) \/ Exiting(p)
    <3>1. CASE Disarm(p)
      <4>1. /\ sem' = sem /\ Place(p) \in {"got", "eintr", "failed"}
            /\ \/ Place(p) = "got" /\ Goes(p, <<"held", "held">>)
               \/ Place(p) = "eintr" /\ Goes(p, <<"arm", "arm">>)
               \/ Place(p) = "failed" /\ Goes(p, <<"exit", "exit">>)
        BY <3>1 DEF Disarm
      <4> QED BY <2>1, <2>3, <4>1 DEF Serving
    <3>2. CASE Arm(p) \/ Semop(p)
      BY <2>1, <2>3, <3>2 DEF Arm, Semop, Serving
    <3>3. CASE Exiting(p)
      <4>1. /\ Place(p) \in {"exit", "exit2"} /\ sem' \in {sem, -1}
            /\ Goes(p, <<"exit2", "exit2">>) \/ Goes(p, <<"exited", "exited">>)
        BY <3>3 DEF Exiting, ProcExitFlag, ProcExitForget
      <4> QED BY <2>1, <2>3, <4>1 DEF Serving
    <3> QED BY <2>6, <3>1, <3>2, <3>3
  <2>7. CASE SemopReturns(p) \/ ipc_semaphore_try_lock(p)
    <3>1. CASE sem = 1
      BY <2>1, <2>7, <3>1 DEF SemopReturns, ipc_semaphore_try_lock
    <3>2. CASE sem # 1
      BY <1>1, <2>1, <2>3, <2>7, <3>2 DEF SemopReturns, ipc_semaphore_try_lock, Serving
    <3> QED BY <3>1, <3>2
  <2>8. CASE (\E ok \in BOOLEAN : ipc_semaphore_lock(p, ok)) \/ CallProcExit(p)
    BY <2>1, <2>3, <2>8 DEF ipc_semaphore_lock, CallProcExit, Serving
  <2>9. CASE ipc_semaphore_unlock(p)
    BY <2>1, <2>3, <2>9 DEF ipc_semaphore_unlock, Serving
  <2>10. CASE (\E die \in BOOLEAN : Signal(p, die)) \/ HOLD_INTERRUPTS(p)
              \/ START_CRIT_SECTION(p)
    BY <2>1, <2>2, <2>3, <2>10 DEF Signal, HOLD_INTERRUPTS, START_CRIT_SECTION, Serving
  <2> QED
    BY <2>4, <2>5, <2>6, <2>7, <2>8, <2>9, <2>10 DEF IntrStepOf, Inside
<1>5. CASE sem' = sem /\ (p \in Holders' <=> p \in Holders)
  <2>1. Holders' = Holders
    BY <1>2, <1>5 DEF Holders
  <2>2. sem' # -1 => sem' + Cardinality(Holders') = 1
    BY <1>1, <1>5, <2>1
  <2> QED BY <1>1, <1>5, <2>2 DEF OneHolder, Holders
<1>6. CASE sem = 1 /\ sem' = 0 /\ p \in Holders'
  <2>1. Holders = {}
    BY <1>1, <1>6
  <2>2. Holders' = Holders \cup {p} /\ p \notin Holders
    BY <1>2, <1>6, <2>1 DEF Holders
  <2>3. Cardinality(Holders') = Cardinality(Holders) + 1
    BY <1>1, <2>2, FS_AddElement
  <2> QED BY <1>1, <1>6, <2>3 DEF OneHolder, Holders
<1>7. CASE sem # -1 /\ sem' = sem + 1 /\ p \in Holders /\ p \notin Holders'
  <2>1. sem = 0
    BY <1>1, <1>7
  <2>2. Holders' = Holders \ {p}
    BY <1>2, <1>7 DEF Holders
  <2>3. Cardinality(Holders') = Cardinality(Holders) - 1
    BY <1>1, <1>7, <2>2, FS_RemoveElement
  <2> QED BY <1>1, <1>7, <2>1, <2>3 DEF OneHolder, Holders
<1>8. CASE sem' = -1
  BY <1>8 DEF OneHolder
<1> QED BY <1>4, <1>5, <1>6, <1>7, <1>8

\* The types and the places are kept.
LEMMA IntrTypeStep ==
  ASSUME IntrInv, NEW p \in Backends, IntrStepOf(p)
  PROVE  IntrTypeOK' /\ PlacesPaired'
<1>1. at \in [Backends -> (Places \cup Serving) \X Places]
  BY DEF IntrInv, IntrTypeOK
<1>2. /\ at' \in [Backends -> (Places \cup Serving) \X Places]
      /\ PlacesPaired'
  <2>1. CASE at' = at
    BY <1>1, <2>1 DEF IntrInv, PlacesPaired, Place, Back
  <2>2. ASSUME NEW x, NEW y, Paired(x, y), at' = [at EXCEPT ![p] = <<x, y>>]
        PROVE  /\ at' \in [Backends -> (Places \cup Serving) \X Places]
               /\ PlacesPaired'
    <3>1. at' \in [Backends -> (Places \cup Serving) \X Places]
      BY <1>1, <2>2 DEF Paired
    <3>2. at'[p] = <<x, y>> /\ \A q \in Backends : q # p => at'[q] = at[q]
      BY <1>1, <2>2
    <3>3. PlacesPaired'
      BY <2>2, <3>2 DEF IntrInv, PlacesPaired, Place, Back, Paired
    <3> QED BY <3>1, <3>3
  <2> QED BY <2>1, <2>2, GoesPaired
<1>3. /\ interrupt_ok' \in [Backends -> BOOLEAN]
      /\ InterruptPending' \in [Backends -> BOOLEAN]
      /\ ProcDiePending' \in [Backends -> BOOLEAN]
      /\ QueryCancelPending' \in [Backends -> BOOLEAN]
  BY IntrTypes
     DEF IntrInv, IntrStepOf, Inside, process_interrupts, ServeClear, ServeDie, Died,
         ServeCancel, Arm, CheckAndCall, Semop, SemopReturns, Disarm, Exiting,
         ProcExitFlag, ProcExitForget, Signal, ipc_semaphore_lock,
         ipc_semaphore_try_lock, ipc_semaphore_unlock, CallProcExit, HOLD_INTERRUPTS,
         RESUME_INTERRUPTS, START_CRIT_SECTION, END_CRIT_SECTION, Set, pendingVars
<1>4. /\ ImmediateInterruptOK' \in [Backends -> BOOLEAN]
      /\ ProcExitInprogress' \in [Backends -> BOOLEAN]
  BY IntrTypes
     DEF IntrInv, IntrStepOf, Inside, process_interrupts, ServeClear, ServeDie, Died,
         ServeCancel, Arm, CheckAndCall, Semop, SemopReturns, Disarm, Exiting,
         ProcExitFlag, ProcExitForget, Signal, ipc_semaphore_lock,
         ipc_semaphore_try_lock, ipc_semaphore_unlock, CallProcExit, HOLD_INTERRUPTS,
         RESUME_INTERRUPTS, START_CRIT_SECTION, END_CRIT_SECTION, Set
<1>5. /\ InterruptHoldoffCount' \in [Backends -> Nat]
      /\ CritSectionCount' \in [Backends -> Nat]
  BY IntrTypes
     DEF IntrInv, IntrStepOf, Inside, process_interrupts, ServeClear, ServeDie, Died,
         ServeCancel, Arm, CheckAndCall, Semop, SemopReturns, Disarm, Exiting,
         ProcExitFlag, ProcExitForget, Signal, ipc_semaphore_lock,
         ipc_semaphore_try_lock, ipc_semaphore_unlock, CallProcExit, HOLD_INTERRUPTS,
         RESUME_INTERRUPTS, START_CRIT_SECTION, END_CRIT_SECTION, Set, countVars
<1>6. signals' \in 0..MaxSignals
  BY IntrAssumption DEF IntrInv, IntrTypeOK, IntrStepOf, Inside, Signal
<1> QED BY <1>2, <1>3, <1>4, <1>5, <1>6, SemStep DEF IntrTypeOK

\* The flags of one process.
FlagsOf(p) ==
  /\ Place(p) \in {"died", "cancel?"} /\ ProcDiePending[p] => InterruptPending[p]
  /\ Place(p) \notin Serving /\ (ProcDiePending[p] \/ QueryCancelPending[p])
       => InterruptPending[p]
  /\ Place(p) = "exited" =>
       ~InterruptPending[p] /\ ~ProcDiePending[p] /\ ~QueryCancelPending[p] /\ HeldOff(p)

\* No step of a process loses a request that has come to it.
LEMMA FlagStep ==
  ASSUME IntrInv, NEW p \in Backends, IntrStepOf(p)
  PROVE  FlagsOf(p)'
<1>1. /\ InterruptPending \in [Backends -> BOOLEAN]
      /\ ProcDiePending \in [Backends -> BOOLEAN]
      /\ QueryCancelPending \in [Backends -> BOOLEAN]
      /\ InterruptHoldoffCount \in [Backends -> Nat]
      /\ CritSectionCount \in [Backends -> Nat]
  BY IntrTypes DEF IntrInv
<1>2. at \in [Backends -> (Places \cup Serving) \X Places]
  BY DEF IntrInv, IntrTypeOK
<1>3. FlagsOf(p)
  BY DEF IntrInv, DieLater, RequestKept, QuietExit, FlagsOf
<1>4. /\ \A x, y : Goes(p, <<x, y>>) => Place(p)' = x
      /\ at' = at => Place(p)' = Place(p)
  BY <1>2 DEF Goes, Place
<1>5. Place(p) \in Serving \cup {"clear"} => Back(p) \in {"idle", "held", "window"}
  BY DEF IntrInv, PlacesPaired
<1>6. CASE ServeClear(p)
  <2>1. CASE HeldOff(p)
    <3>1. UNCHANGED pendingVars /\ Place(p)' = Back(p) /\ Place(p) = "clear"
          /\ Back(p) \in {"idle", "held", "window"}
      BY <1>4, <1>5, <1>6, <2>1 DEF ServeClear, pendingVars
    <3> QED BY <1>3, <3>1 DEF FlagsOf, pendingVars, Serving
  <2>2. CASE ~HeldOff(p)
    <3>1. Place(p)' = "die?"
      BY <1>4, <1>6, <2>2 DEF ServeClear
    <3> QED BY <3>1 DEF FlagsOf, Serving
  <2> QED BY <2>1, <2>2
<1>7. CASE ServeDie(p)
  <2>1. Place(p)' \in {"died", "cancel?"} /\ ~ProcDiePending'[p]
    BY <1>1, <1>4, <1>7 DEF ServeDie, Set
  <2> QED BY <2>1 DEF FlagsOf, Serving
<1>8. CASE Died(p)
  <2>1. /\ Place(p)' = "cancel?" /\ Place(p) = "died"
        /\ UNCHANGED <<InterruptPending, ProcDiePending>>
    BY <1>4, <1>8 DEF Died
  <2> QED BY <1>3, <2>1 DEF FlagsOf, Serving
<1>9. CASE ServeCancel(p)
  <2>1. /\ Place(p)' = Back(p) /\ Place(p) = "cancel?" /\ ~QueryCancelPending'[p]
        /\ UNCHANGED <<InterruptPending, ProcDiePending>>
        /\ Back(p) \in {"idle", "held", "window"}
    BY <1>1, <1>4, <1>5, <1>9 DEF ServeCancel, Set, Serving
  <2> QED BY <1>3, <2>1 DEF FlagsOf, Serving
<1>10. CASE \E die \in BOOLEAN : Signal(p, die)
  <2>1. /\ Place(p)' = Place(p) \/ Place(p)' = "eintr"
        /\ Place(p) # "exited"
        /\ \/ InterruptPending'[p]
           \/ ~ProcDiePending'[p] /\ ~QueryCancelPending'[p]
    <3>1. PICK die \in BOOLEAN : Signal(p, die)
      BY <1>10
    <3>2. Place(p)' = Place(p) \/ Place(p)' = "eintr"
      BY <1>4, <3>1 DEF Signal
    <3>3. CASE ImmediateInterruptOK[p] /\ ~HeldOff(p)
      BY <1>1, <3>1, <3>2, <3>3 DEF Signal, Set
    <3>4. CASE ~(ImmediateInterruptOK[p] /\ ~HeldOff(p))
      BY <1>1, <3>1, <3>2, <3>4 DEF Signal, Set
    <3> QED BY <3>3, <3>4
  <2> QED BY <2>1 DEF FlagsOf
<1>11. CASE ProcExitForget(p)
  <2>1. /\ Place(p)' = "exited" /\ InterruptHoldoffCount'[p] = 1
        /\ ~InterruptPending'[p] /\ ~ProcDiePending'[p] /\ ~QueryCancelPending'[p]
    BY <1>1, <1>4, <1>11 DEF ProcExitForget, Set
  <2> QED BY <2>1 DEF FlagsOf, HeldOff
<1>12. ASSUME UNCHANGED pendingVars, Place(p) \notin Serving,
              Place(p)' \notin Serving \cup {"exited"}
       PROVE  FlagsOf(p)'
  BY <1>3, <1>12 DEF FlagsOf, pendingVars, Serving
<1>13. CASE \/ Arm(p) \/ Semop(p) \/ SemopReturns(p) \/ ProcExitFlag(p)
            \/ (\E ok \in BOOLEAN : ipc_semaphore_lock(p, ok))
            \/ ipc_semaphore_unlock(p) \/ CallProcExit(p)
            \/ HOLD_INTERRUPTS(p) \/ START_CRIT_SECTION(p)
  <2>1. UNCHANGED pendingVars /\ Place(p) \notin Serving
        /\ Place(p)' \notin Serving \cup {"exited"}
    BY <1>4, <1>13 DEF Arm, Semop, SemopReturns, ProcExitFlag, ipc_semaphore_lock,
         ipc_semaphore_unlock, CallProcExit, HOLD_INTERRUPTS, START_CRIT_SECTION, Serving
  <2> QED BY <1>12, <2>1
<1>14. CASE Disarm(p) \/ ipc_semaphore_try_lock(p)
  <2>1. \E x \in {"held", "arm", "exit", "idle"} : Goes(p, <<x, x>>)
    BY <1>14, IntrTypes DEF Disarm, ipc_semaphore_try_lock, IntrInv
  <2>2. UNCHANGED pendingVars /\ Place(p) \in {"got", "eintr", "failed", "idle"}
    BY <1>14 DEF Disarm, ipc_semaphore_try_lock
  <2> QED BY <1>4, <1>12, <2>1, <2>2 DEF Serving
<1>15. CASE CheckAndCall(p) \/ RESUME_INTERRUPTS(p) \/ END_CRIT_SECTION(p)
  <2>1. PICK x \in {"idle", "held", "window"} : Check(p, x)
    BY <1>15 DEF CheckAndCall, RESUME_INTERRUPTS, END_CRIT_SECTION
  <2>2. Place(p)' \in {"clear", x}
    BY <1>4, <2>1 DEF Check
  <2>3. UNCHANGED pendingVars /\ Place(p) \in {"check", "idle", "held"}
    BY <1>15 DEF CheckAndCall, RESUME_INTERRUPTS, END_CRIT_SECTION
  <2> QED BY <1>12, <2>2, <2>3 DEF Serving
<1> QED
  BY <1>6, <1>7, <1>8, <1>9, <1>10, <1>11, <1>13, <1>14, <1>15
     DEF IntrStepOf, Inside, process_interrupts, Exiting

\* Every step keeps the invariant.
LEMMA IntrStep == IntrInv /\ [Next]_vars => IntrInv'
<1> SUFFICES ASSUME IntrInv, [Next]_vars PROVE IntrInv'
  OBVIOUS
<1>1. CASE IntrNext
  <2>1. PICK p \in Backends : IntrStepOf(p)
    BY <1>1 DEF IntrNext, IntrStepOf
  <2>2. \A q \in Backends : FlagsOf(q)'
    <3>1. \A q \in Backends : FlagsOf(q)
      BY DEF IntrInv, DieLater, RequestKept, QuietExit, FlagsOf
    <3>2. \A q \in Backends : q # p => FlagsOf(q)'
      BY <2>1, <3>1, OthersStay DEF IntrInv, FlagsOf, HeldOff, Place
    <3> QED BY <2>1, <3>2, FlagStep
  <2>3. DieLater' /\ RequestKept' /\ QuietExit'
    BY <2>2 DEF DieLater, RequestKept, QuietExit, FlagsOf
  <2> QED BY <2>1, <2>3, IntrTypeStep, SemStep DEF IntrInv
<1>2. CASE UNCHANGED intrVars
  BY <1>2 DEF intrVars, pendingVars, countVars, IntrInv, IntrTypeOK, PlacesPaired,
              OneHolder, DieLater, RequestKept, QuietExit, HeldOff, Place, Back
<1> QED BY <1>1, <1>2 DEF Next, vars

\* It holds at the beginning.
LEMMA IntrInitInv == Init => IntrInv
<1> SUFFICES ASSUME IntrInit PROVE IntrInv
  BY DEF Init
<1>1. \A p \in Backends : Place(p) = "idle" /\ Back(p) = "idle"
  BY DEF IntrInit, Place, Back
<1>2. IntrTypeOK
  BY IntrAssumption DEF IntrInit, IntrTypeOK, Places
<1>3. OneHolder
  <2>1. Holders = {}
    BY <1>1 DEF Holders
  <2>2. sem = 1 /\ Cardinality(Holders) = 0
    BY <2>1, FS_EmptySet DEF IntrInit
  <2> QED BY <2>2 DEF OneHolder, Holders
<1> QED
  BY <1>1, <1>2, <1>3
     DEF IntrInv, IntrInit, PlacesPaired, DieLater, RequestKept, QuietExit, Serving

\* The semaphore of ipc.c and the test-and-set lock of s_lock.c admit one
\* process at a time, for any number of processes and signals.
THEOREM LocksAreExclusive == Spec => []LocksExclusive
<1>1. Init => SLockInv
  <2> SUFFICES ASSUME SLockInit PROVE SLockInv
    BY DEF Init
  <2>1. In = {}
    BY DEF SLockInit, In
  <2>2. Cardinality(In) = 0
    BY <2>1, FS_EmptySet
  <2> QED BY <2>2 DEF SLockInit, SLockInv, SLockExclusive, In
<1>2. IntrInv /\ SLockInv => LocksExclusive
  BY DEF IntrInv, SLockInv, LocksExclusive
<1> QED BY <1>1, <1>2, IntrInitInv, IntrStep, SLockStep, PTL DEF Spec

\* A step never clears a request of a process that holds interrupts off.
LEMMA HeldOffStep ==
  IntrInv /\ [Next]_vars =>
    [\A p \in Backends :
        (InterruptHoldoffCount[p] # 0 \/ CritSectionCount[p] # 0)
          /\ Place(p) \notin Serving \cup {"exit2"} =>
          /\ ProcDiePending[p] => ProcDiePending'[p]
          /\ QueryCancelPending[p] => QueryCancelPending'[p]]_intrVars
<1> SUFFICES ASSUME IntrInv, IntrNext, NEW q \in Backends, HeldOff(q),
                    Place(q) \notin Serving \cup {"exit2"}
             PROVE  /\ ProcDiePending[q] => ProcDiePending'[q]
                    /\ QueryCancelPending[q] => QueryCancelPending'[q]
  BY DEF Next, vars, HeldOff
<1>1. PICK p \in Backends : IntrStepOf(p)
  BY DEF IntrNext, IntrStepOf
<1>2. CASE q # p
  BY <1>1, <1>2, OthersStay DEF IntrInv
<1>3. CASE q = p
  <2>1. CASE \E die \in BOOLEAN : Signal(p, die)
    BY <1>3, <2>1, IntrTypes DEF Signal, Set, IntrInv
  <2>2. CASE ~\E die \in BOOLEAN : Signal(p, die)
    BY <1>1, <1>3, <2>2
       DEF IntrStepOf, Inside, process_interrupts, ServeClear, ServeDie, Died, ServeCancel,
         Arm, CheckAndCall, Semop, SemopReturns, Disarm, Exiting, ProcExitFlag,
         ProcExitForget, ipc_semaphore_lock, ipc_semaphore_try_lock,
         ipc_semaphore_unlock, CallProcExit, HOLD_INTERRUPTS, RESUME_INTERRUPTS,
         START_CRIT_SECTION, END_CRIT_SECTION, pendingVars, Serving
  <2> QED BY <2>1, <2>2
<1> QED BY <1>2, <1>3

\* A request that came in while interrupts were held off, or while an earlier
\* one was served, is still noticed by the next check, and a process that has
\* run proc_exit has none: for any number of processes, signals and nestings.
THEOREM RequestsAreHonoured == Spec => RequestsHonoured
<1>1. IntrInv => IntrTypeOK /\ RequestKept /\ QuietExit
  BY DEF IntrInv
<1> QED
  BY <1>1, IntrInitInv, IntrStep, HeldOffStep, PTL DEF Spec, RequestsHonoured, HeldOffStays

-----------------------------------------------------------------------------
(* The exit callbacks of ipc.c.                                            *)

\* The slots of l below n hold the registrations P, which are numbers up to r,
\* each once.
Exact(l, n, P, r) ==
  /\ P \subseteq 1..r
  /\ \A i \in Slots : i < n => l[i] \in P
  /\ \A c \in P : \E i \in Slots : i < n /\ l[i] = c
  /\ \A i, j \in Slots : i < n /\ j < n /\ l[i] = l[j] => i = j

\* A list holds what has to be called.
ListOf(k) ==
  /\ Top # "exited" => OnExitIndex[k] >= 0
  /\ Exact(OnExitList[k], OnExitIndex[k], pending[k], registered)

\* What was called is in neither list, and no number is used again.
CalledGone ==
  \A i \in DOMAIN called : called[i] <= registered /\ \A k \in Kinds : called[i] \notin pending[k]

ListsExact ==
  /\ pending \in [Kinds -> SUBSET Int]
  /\ \A k \in Kinds : ListOf(k)
  /\ pending["proc"] \cap pending["shmem"] = {}
  /\ CalledGone

\* Which frame may stand on which: a callback on the exit that called it,
\* shmem_exit on proc_exit or on nothing.
FramesStacked ==
  \A i \in 1..Len(frames) :
    /\ frames[i] = "callback" => i > 1 /\ frames[i - 1] \in Kinds
    /\ frames[i] = "shmem" => i = 1 \/ frames[i - 1] = "proc"

\* proc_exit gets to its own callbacks when those of shared memory are done.
ShmemDone == Top \in {"proc", "exited"} \/ InProcCallback => pending["shmem"] = {}

ExitInv ==
  /\ ExitTypeOK
  /\ ListsExact
  /\ FramesStacked
  /\ ShmemDone
  /\ CalledOnce
  /\ AllCalled

\* The process is at the top of a stack with room for another frame.
LEMMA Pushed ==
  ASSUME frames \in Seq({"proc", "shmem", "callback", "exited"}), FramesStacked,
         NEW x \in {"proc", "shmem", "callback"}, frames' = Append(frames, x),
         x = "callback" => Top \in Kinds, x = "shmem" => Top \in {"main", "proc"}
  PROVE  /\ frames' \in Seq({"proc", "shmem", "callback", "exited"})
         /\ FramesStacked' /\ Top' = x
         /\ x = "callback" => (InProcCallback' <=> Top = "proc")
<1>1. /\ Len(frames') = Len(frames) + 1 /\ Len(frames) \in Nat
      /\ \A i \in 1..Len(frames) : frames'[i] = frames[i]
      /\ frames'[Len(frames) + 1] = x
      /\ frames' \in Seq({"proc", "shmem", "callback", "exited"})
  OBVIOUS
<1>2. frames' # <<>> /\ Top' = x
  BY <1>1 DEF Top
<1>3. Top = (IF Len(frames) = 0 THEN "main" ELSE frames[Len(frames)])
  BY <1>1 DEF Top
<1>4. x = "callback" => Len(frames) >= 1 /\ frames[Len(frames)] = Top
  BY <1>1, <1>3 DEF Kinds
<1>5. FramesStacked'
  <2> SUFFICES ASSUME NEW i \in 1..Len(frames')
               PROVE  /\ frames'[i] = "callback" => i > 1 /\ frames'[i - 1] \in Kinds
                      /\ frames'[i] = "shmem" => i = 1 \/ frames'[i - 1] = "proc"
    BY DEF FramesStacked
  <2>1. CASE i \in 1..Len(frames)
    <3>1. i > 1 => i - 1 \in 1..Len(frames)
      BY <1>1, <2>1
    <3> QED BY <1>1, <2>1, <3>1 DEF FramesStacked
  <2>2. CASE i = Len(frames) + 1
    BY <1>1, <1>3, <1>4, <2>2
  <2> QED BY <1>1, <2>1, <2>2
<1>6. x = "callback" => (InProcCallback' <=> Top = "proc")
  <2> SUFFICES ASSUME x = "callback" PROVE InProcCallback' <=> Top = "proc"
    OBVIOUS
  <2>1. frames'[Len(frames') - 1] = Top
    BY <1>1, <1>4
  <2> QED BY <1>2, <2>1 DEF InProcCallback
<1> QED BY <1>1, <1>2, <1>5, <1>6

\* A frame is left: what is below it runs again.
LEMMA Popped ==
  ASSUME frames \in Seq({"proc", "shmem", "callback", "exited"}), FramesStacked,
         Top \in {"callback", "shmem"}, frames' = Pop
  PROVE  /\ frames' \in Seq({"proc", "shmem", "callback", "exited"})
         /\ FramesStacked'
         /\ Top = "callback" => Top' \in Kinds /\ (Top' = "proc" => InProcCallback)
         /\ Top = "shmem" => Top' \in {"main", "proc"}
<1>1. Len(frames) \in Nat /\ Len(frames) >= 1 /\ Top = frames[Len(frames)]
  BY DEF Top
<1>2. /\ Len(frames') = Len(frames) - 1
      /\ \A i \in 1..Len(frames') : frames'[i] = frames[i]
      /\ frames' \in Seq({"proc", "shmem", "callback", "exited"})
  <2> DEFINE S == {"proc", "shmem", "callback", "exited"}
             n == Len(frames) - 1
  <2>1. n \in Int /\ 1 \in Int /\ \A i \in 1..n : frames[i] \in S
    BY <1>1
  <2>2. /\ SubSeq(frames, 1, n) \in Seq(S)
        /\ Len(SubSeq(frames, 1, n)) = IF 1 <= n THEN n - 1 + 1 ELSE 0
        /\ \A i \in 1..(n - 1 + 1) : SubSeq(frames, 1, n)[i] = frames[1 + i - 1]
    BY <2>1, SubSeqProperties
  <2>3. /\ (IF 1 <= n THEN n - 1 + 1 ELSE 0) = n /\ n - 1 + 1 = n
        /\ \A i \in 1..n : 1 + i - 1 = i
    BY <1>1, SMTT(60)
  <2> QED BY <2>2, <2>3 DEF Pop
<1>3. FramesStacked'
  <2> SUFFICES ASSUME NEW i \in 1..Len(frames')
               PROVE  /\ frames'[i] = "callback" => i > 1 /\ frames'[i - 1] \in Kinds
                      /\ frames'[i] = "shmem" => i = 1 \/ frames'[i - 1] = "proc"
    BY DEF FramesStacked
  <2>1. i \in 1..Len(frames) /\ (i > 1 => i - 1 \in 1..Len(frames'))
    BY <1>1, <1>2
  <2> QED BY <1>2, <2>1 DEF FramesStacked
<1>4. Top' = (IF Len(frames) = 1 THEN "main" ELSE frames[Len(frames) - 1])
  <2>1. CASE Len(frames) = 1
    BY <1>2, <2>1 DEF Top
  <2>2. CASE Len(frames) # 1
    <3>1. Len(frames') \in 1..Len(frames') /\ frames' # <<>>
      BY <1>1, <1>2, <2>2
    <3> QED BY <1>2, <2>2, <3>1 DEF Top
  <2> QED BY <2>1, <2>2
<1>5. Len(frames) \in 1..Len(frames)
  BY <1>1
<1>6. /\ Top = "callback" => Len(frames) > 1 /\ frames[Len(frames) - 1] \in Kinds
      /\ Top = "shmem" => Len(frames) = 1 \/ frames[Len(frames) - 1] = "proc"
  BY <1>1, <1>5 DEF FramesStacked
<1> QED BY <1>1, <1>2, <1>3, <1>4, <1>6 DEF InProcCallback

\* What the steps use of the types.
LEMMA ExitTypes ==
  ASSUME ExitInv
  PROVE  /\ MAX_ON_EXITS \in Nat /\ MaxCallbacks \in Nat
         /\ registered \in Nat /\ registered <= MaxCallbacks
         /\ \A k \in Kinds : /\ OnExitIndex[k] \in Int /\ OnExitIndex[k] <= MAX_ON_EXITS
                             /\ OnExitList[k] \in [Slots -> 0..MaxCallbacks]
                             /\ pending[k] \subseteq 1..registered
         /\ frames \in Seq({"proc", "shmem", "callback", "exited"})
         /\ Len(called) \in Nat /\ DOMAIN called = 1..Len(called)
         /\ Slots \subseteq Int
BY ExitAssumption DEF ExitInv, ExitTypeOK, ListsExact, ListOf, Exact, Slots

\* An empty list.
LEMMA EmptyExact ==
  ASSUME NEW l, NEW n \in {-1, 0}, NEW r
  PROVE  Exact(l, n, {}, r)
<1>1. \A i \in Slots : ~(i < n)
  BY ExitAssumption DEF Slots
<1> QED BY <1>1 DEF Exact

\* A registration more, in the first free slot.
LEMMA AddedExact ==
  ASSUME NEW l, NEW n \in Slots, NEW P, NEW r \in Nat, Exact(l, n, P, r),
         NEW m, \A i \in Slots : m[i] = IF i = n THEN r + 1 ELSE l[i]
  PROVE  Exact(m, n + 1, P \cup {r + 1}, r + 1)
<1>1. \A i \in Slots : i < n + 1 <=> i < n \/ i = n
  BY ExitAssumption DEF Slots
<1>2. P \subseteq 1..r
  BY DEF Exact
<1>3. P \cup {r + 1} \subseteq 1..(r + 1) /\ r + 1 \notin P
  BY <1>2
<1>4. \A i \in Slots : i < n => i # n /\ m[i] = l[i] /\ l[i] \in P
  BY ExitAssumption DEF Exact, Slots
<1>5. \A i \in Slots : i < n + 1 => m[i] \in P \cup {r + 1}
  BY <1>1, <1>4
<1>6. \A c \in P \cup {r + 1} : \E i \in Slots : i < n + 1 /\ m[i] = c
  <2> SUFFICES ASSUME NEW c \in P \cup {r + 1}
               PROVE  \E i \in Slots : i < n + 1 /\ m[i] = c
    OBVIOUS
  <2>1. CASE c = r + 1
    BY <1>1, <2>1
  <2>2. CASE c \in P
    <3>1. PICK i \in Slots : i < n /\ l[i] = c
      BY <2>2 DEF Exact
    <3> QED BY <1>1, <1>4, <3>1
  <2> QED BY <2>1, <2>2
<1>7. ASSUME NEW i \in Slots, NEW j \in Slots, i < n + 1, j < n + 1, m[i] = m[j]
      PROVE  i = j
  <2>1. CASE i < n /\ j < n
    BY <1>4, <1>7, <2>1 DEF Exact
  <2>2. CASE i < n /\ j = n
    BY <1>3, <1>4, <1>7, <2>2
  <2>3. CASE i = n /\ j < n
    BY <1>3, <1>4, <1>7, <2>3
  <2> QED BY <1>1, <1>7, <2>1, <2>2, <2>3
<1> QED BY <1>3, <1>5, <1>6, <1>7 DEF Exact

\* The last registration taken.
LEMMA TakenExact ==
  ASSUME NEW l, NEW n \in Slots, NEW P, NEW r, Exact(l, n + 1, P, r)
  PROVE  l[n] \in P /\ Exact(l, n, P \ {l[n]}, r)
<1>1. \A i \in Slots : i < n + 1 <=> i < n \/ i = n
  BY ExitAssumption DEF Slots
<1>2. \A i \in Slots : i < n => i # n
  BY ExitAssumption DEF Slots
<1>3. l[n] \in P
  BY <1>1 DEF Exact
<1>4. \A i, j \in Slots : (i < n \/ i = n) /\ (j < n \/ j = n) /\ l[i] = l[j] => i = j
  BY <1>1 DEF Exact
<1>5. \A i \in Slots : i < n => l[i] \in P \ {l[n]}
  BY <1>1, <1>2, <1>4 DEF Exact
<1>6. \A c \in P \ {l[n]} : \E i \in Slots : i < n /\ l[i] = c
  BY <1>1 DEF Exact
<1>7. P \ {l[n]} \subseteq 1..r
  BY DEF Exact
<1> QED BY <1>3, <1>4, <1>5, <1>6, <1>7 DEF Exact

\* Steps that only move between frames.
LEMMA FrameStep ==
  ASSUME ExitInv, UNCHANGED <<OnExitList, OnExitIndex, registered, pending, called>>,
         frames' \in Seq({"proc", "shmem", "callback", "exited"}), FramesStacked',
         Top # "exited", Top' # "exited", ShmemDone'
  PROVE  ExitInv'
<1>1. ExitTypeOK'
  BY DEF ExitInv, ExitTypeOK
<1>2. ListsExact'
  BY DEF ExitInv, ListsExact, ListOf, CalledGone
<1>3. CalledOnce' /\ AllCalled'
  BY DEF ExitInv, CalledOnce, AllCalled
<1> QED BY <1>1, <1>2, <1>3 DEF ExitInv

\* proc_exit and shmem_exit begin, a callback returns.
LEMMA BeginExitStep ==
  ASSUME ExitInv, proc_exit \/ shmem_exit \/ Returns
  PROVE  ExitInv'
<1>1. frames \in Seq({"proc", "shmem", "callback", "exited"}) /\ FramesStacked
      /\ Len(frames) \in Nat
  BY ExitTypes DEF ExitInv
<1>2. CASE Returns
  <2>1. Top = "callback" /\ frames' = Pop
        /\ UNCHANGED <<OnExitList, OnExitIndex, registered, pending, called>>
    BY <1>2 DEF Returns
  <2>2. /\ frames' \in Seq({"proc", "shmem", "callback", "exited"}) /\ FramesStacked'
        /\ Top' \in Kinds /\ (Top' = "proc" => InProcCallback)
    BY <1>1, <2>1, Popped
  <2>3. ShmemDone'
    BY <2>1, <2>2 DEF ExitInv, ShmemDone, InProcCallback, Kinds
  <2> QED BY <2>1, <2>2, <2>3, FrameStep DEF Kinds
<1>3. CASE shmem_exit
  <2>1. Top = "main" /\ frames' = Append(frames, "shmem")
        /\ UNCHANGED <<OnExitList, OnExitIndex, registered, pending, called>>
    BY <1>1, <1>3 DEF shmem_exit
  <2>2. /\ frames' \in Seq({"proc", "shmem", "callback", "exited"}) /\ FramesStacked'
        /\ Top' = "shmem"
    BY <1>1, <2>1, Pushed
  <2>3. ShmemDone'
    BY <2>2 DEF ShmemDone, InProcCallback
  <2> QED BY <2>1, <2>2, <2>3, FrameStep
<1>4. CASE proc_exit
  <2>1. Top \in {"main", "callback"} /\ frames' = frames \o <<"proc", "shmem">>
        /\ UNCHANGED <<OnExitList, OnExitIndex, registered, pending, called>>
    BY <1>4 DEF proc_exit
  <2>2. /\ frames' \in Seq({"proc", "shmem", "callback", "exited"})
        /\ Len(frames') = Len(frames) + 2
        /\ \A i \in 1..Len(frames) : frames'[i] = frames[i]
        /\ frames'[Len(frames) + 1] = "proc" /\ frames'[Len(frames) + 2] = "shmem"
    BY <1>1, <2>1
  <2>3. Top' = "shmem"
    BY <1>1, <2>2 DEF Top
  <2>4. FramesStacked'
    <3> SUFFICES ASSUME NEW i \in 1..Len(frames')
                 PROVE  /\ frames'[i] = "callback" => i > 1 /\ frames'[i - 1] \in Kinds
                        /\ frames'[i] = "shmem" => i = 1 \/ frames'[i - 1] = "proc"
      BY DEF FramesStacked
    <3>1. CASE i \in 1..Len(frames)
      <4>1. i > 1 => i - 1 \in 1..Len(frames)
        BY <1>1, <3>1
      <4> QED BY <1>1, <2>2, <3>1, <4>1 DEF FramesStacked
    <3>2. CASE i = Len(frames) + 1
      BY <2>2, <3>2
    <3>3. CASE i = Len(frames) + 2
      BY <1>1, <2>2, <3>3
    <3> QED BY <1>1, <2>2, <3>1, <3>2, <3>3
  <2>5. ShmemDone'
    BY <2>3 DEF ShmemDone, InProcCallback
  <2> QED BY <2>1, <2>2, <2>3, <2>4, <2>5, FrameStep
<1> QED BY <1>2, <1>3, <1>4

\* on_proc_exit and on_shmem_exit.
LEMMA OnExitStep ==
  ASSUME ExitInv, NEW k \in Kinds, on_exit(k)
  PROVE  ExitInv'
<1> DEFINE n == OnExitIndex[k]
           c == registered + 1
<1>1. /\ Top \in {"main", "callback"} /\ (k = "shmem" => ~InProcCallback)
      /\ registered < MaxCallbacks /\ n < MAX_ON_EXITS
      /\ registered' = c
      /\ OnExitList' = [OnExitList EXCEPT ![k][n] = c]
      /\ OnExitIndex' = [OnExitIndex EXCEPT ![k] = n + 1]
      /\ pending' = [pending EXCEPT ![k] = pending[k] \cup {c}]
      /\ UNCHANGED <<called, frames>>
  BY DEF on_exit
<1>2. /\ MAX_ON_EXITS \in Nat /\ MaxCallbacks \in Nat /\ registered \in Nat
      /\ OnExitList \in [Kinds -> [Slots -> 0..MaxCallbacks]]
      /\ OnExitIndex \in [Kinds -> -1..MAX_ON_EXITS]
      /\ pending \in [Kinds -> SUBSET Int]
      /\ \A j \in Kinds : pending[j] \subseteq 1..registered
  BY ExitTypes DEF ExitInv, ExitTypeOK, ListsExact
<1>3. n >= 0 /\ n \in Slots /\ n \in Int
  BY <1>1, <1>2 DEF ExitInv, ListsExact, ListOf, Slots
<1> HIDE DEF n
<1>4. /\ Top' = Top /\ (InProcCallback' <=> InProcCallback)
      /\ c \in 1..MaxCallbacks /\ c \in Int /\ c > registered
      /\ \A x \in 1..registered : x # c /\ x \in 1..c
  BY <1>1, <1>2 DEF Top, InProcCallback
<1> HIDE DEF c
<1>5. ExitTypeOK'
  <2>1. OnExitList' \in [Kinds -> [Slots -> 0..MaxCallbacks]]
    BY <1>1, <1>2, <1>3, <1>4
  <2>2. OnExitIndex' \in [Kinds -> -1..MAX_ON_EXITS]
    BY <1>1, <1>2, <1>3
  <2> QED BY <1>1, <1>2, <1>4, <2>1, <2>2 DEF ExitInv, ExitTypeOK
<1>6. /\ OnExitIndex'[k] = n + 1 /\ pending'[k] = pending[k] \cup {c}
      /\ \A i \in Slots : OnExitList'[k][i] = IF i = n THEN c ELSE OnExitList[k][i]
      /\ \A j \in Kinds : j # k => /\ OnExitIndex'[j] = OnExitIndex[j]
                                   /\ OnExitList'[j] = OnExitList[j]
                                   /\ pending'[j] = pending[j]
      /\ pending' \in [Kinds -> SUBSET Int]
  BY <1>1, <1>2, <1>3, <1>4
<1>7. ListOf(k)
  BY DEF ExitInv, ListsExact
<1>8. ListOf(k)'
  <2>1. Exact(OnExitList[k], n, pending[k], registered)
    BY <1>7 DEF ListOf, n
  <2>2. \A i \in Slots : OnExitList'[k][i] = IF i = n THEN registered + 1
                                                     ELSE OnExitList[k][i]
    BY <1>6 DEF c
  <2>3. Exact(OnExitList'[k], n + 1, pending[k] \cup {registered + 1}, registered + 1)
    BY <1>2, <1>3, <2>1, <2>2, AddedExact
  <2>4. Exact(OnExitList'[k], OnExitIndex'[k], pending'[k], registered')
    BY <1>1, <1>6, <2>3 DEF c
  <2>5. OnExitIndex'[k] >= 0
    BY <1>3, <1>6
  <2> QED BY <2>4, <2>5 DEF ListOf
<1>9. \A j \in Kinds : j # k => ListOf(j)'
  <2> SUFFICES ASSUME NEW j \in Kinds, j # k PROVE ListOf(j)'
    OBVIOUS
  <2>1. ListOf(j)
    BY DEF ExitInv, ListsExact
  <2>2. pending[j] \subseteq 1..registered'
    BY <1>1, <1>2, <1>4
  <2>3. Exact(OnExitList[j], OnExitIndex[j], pending[j], registered')
    BY <2>1, <2>2 DEF ListOf, Exact
  <2> QED BY <1>1, <1>4, <1>6, <2>1, <2>3 DEF ListOf
<1>10. (pending["proc"] \cap pending["shmem"] = {})'
  <2>1. \A j \in Kinds : c \notin pending[j]
    BY <1>2, <1>4
  <2> QED BY <1>6, <2>1 DEF ExitInv, ListsExact, Kinds
<1>11. CalledGone'
  <2> SUFFICES ASSUME NEW i \in DOMAIN called
               PROVE  /\ called[i] <= registered'
                      /\ \A j \in Kinds : called[i] \notin pending'[j]
    BY <1>1 DEF CalledGone
  <2>1. called[i] \in Int /\ called[i] <= registered
        /\ \A j \in Kinds : called[i] \notin pending[j]
    <3>1. called \in Seq(1..MaxCallbacks)
      BY DEF ExitInv, ExitTypeOK
    <3>2. i \in 1..Len(called)
      BY <3>1
    <3>3. called[i] \in 1..MaxCallbacks
      BY <3>1, <3>2, ElementOfSeq
    <3> QED BY <1>2, <3>3 DEF ExitInv, ListsExact, CalledGone
  <2>2. called[i] # c /\ called[i] <= registered'
    BY <1>1, <1>2, <1>4, <2>1
  <2> QED BY <1>6, <2>1, <2>2
<1>12. ListsExact'
  BY <1>6, <1>8, <1>9, <1>10, <1>11 DEF ListsExact
<1>13. FramesStacked' /\ CalledOnce'
  BY <1>1 DEF ExitInv, FramesStacked, CalledOnce
<1>14. ShmemDone'
  <2>1. CASE k = "shmem"
    BY <1>1, <1>4, <2>1 DEF ShmemDone
  <2>2. CASE k # "shmem"
    BY <1>4, <1>6, <2>2 DEF ExitInv, ShmemDone, Kinds
  <2> QED BY <2>1, <2>2
<1>15. AllCalled'
  BY <1>1, <1>4 DEF AllCalled
<1> QED BY <1>5, <1>12, <1>13, <1>14, <1>15 DEF ExitInv

\* One turn of the loop of proc_exit or shmem_exit.
LEMMA TurnStep ==
  ASSUME ExitInv, NEW k \in Kinds, Turn(k)
  PROVE  ExitInv'
<1> DEFINE n == OnExitIndex[k] - 1
           c == OnExitList[k][n]
<1>1. /\ Top = k /\ OnExitIndex[k] > 0
      /\ OnExitIndex' = [OnExitIndex EXCEPT ![k] = n]
      /\ called' = Append(called, c)
      /\ pending' = [pending EXCEPT ![k] = pending[k] \ {c}]
      /\ frames' = Append(frames, "callback")
      /\ UNCHANGED <<OnExitList, registered>>
  BY DEF Turn
<1>2. /\ MAX_ON_EXITS \in Nat /\ MaxCallbacks \in Nat /\ registered \in Nat
      /\ registered <= MaxCallbacks
      /\ OnExitIndex \in [Kinds -> -1..MAX_ON_EXITS]
      /\ pending \in [Kinds -> SUBSET Int]
      /\ \A j \in Kinds : pending[j] \subseteq 1..registered
      /\ called \in Seq(1..MaxCallbacks)
      /\ frames \in Seq({"proc", "shmem", "callback", "exited"}) /\ FramesStacked
  BY ExitTypes DEF ExitInv, ExitTypeOK, ListsExact
<1>3. ListOf(k)
  BY DEF ExitInv, ListsExact
<1>4. n \in Slots /\ n \in Int /\ n >= 0 /\ n < OnExitIndex[k]
      /\ \A i \in Slots : i < OnExitIndex[k] <=> i < n \/ i = n
  <2>1. \A m \in 1..MAX_ON_EXITS : /\ m - 1 \in 0..MAX_ON_EXITS - 1 /\ m - 1 \in Int
                                  /\ m - 1 >= 0 /\ m - 1 < m
                                  /\ \A i \in Int : i < m <=> i < m - 1 \/ i = m - 1
    <3>1. MAX_ON_EXITS \in Nat
      BY <1>2, SMTT(60)
    <3> QED BY <3>1, SMTT(60)
  <2>2. OnExitIndex[k] \in 1..MAX_ON_EXITS
    <3>1. OnExitIndex[k] \in -1..MAX_ON_EXITS /\ OnExitIndex[k] > 0 /\ MAX_ON_EXITS \in Nat
      BY <1>1, <1>2, SMTT(60)
    <3> QED BY <3>1, SMTT(60)
  <2>3. \A i \in Slots : i \in Int
    BY DEF Slots
  <2> QED BY <2>1, <2>2, <2>3, SMTT(60) DEF Slots
<1>5. c \in pending[k] /\ Exact(OnExitList[k], n, pending[k] \ {c}, registered)
  <2>1. Exact(OnExitList[k], n + 1, pending[k], registered)
    <3>1. n + 1 = OnExitIndex[k]
      BY <1>1, <1>2, SMTT(60)
    <3> QED BY <1>3, <3>1 DEF ListOf
  <2> HIDE DEF n
  <2> QED BY <1>4, <2>1, TakenExact DEF c
<1> HIDE DEF c
<1>6. c \in 1..MaxCallbacks
  BY <1>2, <1>5
<1>7. /\ frames' \in Seq({"proc", "shmem", "callback", "exited"}) /\ FramesStacked'
      /\ Top' = "callback" /\ (InProcCallback' <=> k = "proc")
  BY <1>1, <1>2, Pushed
<1>8. /\ OnExitIndex'[k] = n /\ pending'[k] = pending[k] \ {c}
      /\ \A j \in Kinds : j # k => /\ OnExitIndex'[j] = OnExitIndex[j]
                                   /\ pending'[j] = pending[j]
      /\ pending' \in [Kinds -> SUBSET Int]
      /\ OnExitIndex' \in [Kinds -> -1..MAX_ON_EXITS]
  BY <1>1, <1>2, <1>4 DEF Slots
<1>9. /\ Len(called') = Len(called) + 1 /\ Len(called) \in Nat
      /\ called' \in Seq(1..MaxCallbacks)
      /\ \A i \in 1..Len(called) : called'[i] = called[i]
      /\ called'[Len(called) + 1] = c
  BY <1>1, <1>2, <1>6
<1>10. ExitTypeOK'
  BY <1>1, <1>7, <1>8, <1>9 DEF ExitInv, ExitTypeOK
<1>11. ListOf(k)'
  BY <1>1, <1>4, <1>5, <1>8 DEF ListOf
<1>12. \A j \in Kinds : j # k => ListOf(j)'
  <2> SUFFICES ASSUME NEW j \in Kinds, j # k PROVE ListOf(j)'
    OBVIOUS
  <2>1. ListOf(j) /\ Top # "exited"
    BY <1>1 DEF ExitInv, ListsExact, Kinds
  <2>2. /\ OnExitIndex'[j] = OnExitIndex[j] /\ pending'[j] = pending[j]
        /\ OnExitList' = OnExitList /\ registered' = registered
    BY <1>1, <1>8
  <2> QED BY <2>1, <2>2 DEF ListOf
<1>13. (pending["proc"] \cap pending["shmem"] = {})'
  BY <1>8 DEF ExitInv, ListsExact, Kinds
<1>14. \A j \in Kinds : c \notin pending'[j]
  BY <1>5, <1>8 DEF ExitInv, ListsExact, Kinds
<1>15. \A i \in DOMAIN called : /\ called[i] <= registered /\ called[i] # c
                                /\ \A j \in Kinds : called[i] \notin pending'[j]
  BY <1>5, <1>8 DEF ExitInv, ListsExact, CalledGone
<1>16. c <= registered
  BY <1>2, <1>5
<1>17. /\ DOMAIN called' = 1..(Len(called) + 1) /\ DOMAIN called = 1..Len(called)
       /\ \A i \in DOMAIN called' : i \in DOMAIN called \/ i = Len(called) + 1
  BY <1>2, <1>9
<1>18. CalledGone'
  <2> SUFFICES ASSUME NEW i \in DOMAIN called'
               PROVE  /\ called'[i] <= registered
                      /\ \A j \in Kinds : called'[i] \notin pending'[j]
    BY <1>1 DEF CalledGone
  <2>1. CASE i \in DOMAIN called
    BY <1>9, <1>15, <1>17, <2>1
  <2>2. CASE i = Len(called) + 1
    BY <1>9, <1>14, <1>16, <2>2
  <2> QED BY <1>17, <2>1, <2>2
<1>19. CalledOnce'
  <2> SUFFICES ASSUME NEW i \in DOMAIN called', NEW j \in DOMAIN called',
                      called'[i] = called'[j]
               PROVE  i = j
    BY DEF CalledOnce
  <2>1. CASE i \in DOMAIN called /\ j \in DOMAIN called
    BY <1>9, <1>17, <2>1 DEF ExitInv, CalledOnce
  <2>2. CASE i \in DOMAIN called /\ j = Len(called) + 1
    BY <1>9, <1>15, <1>17, <2>2
  <2>3. CASE i = Len(called) + 1 /\ j \in DOMAIN called
    BY <1>9, <1>15, <1>17, <2>3
  <2> QED BY <1>17, <2>1, <2>2, <2>3
<1>20. ShmemDone' /\ AllCalled'
  BY <1>1, <1>7, <1>8 DEF ExitInv, ShmemDone, AllCalled, Kinds
<1>21. ListsExact'
  BY <1>8, <1>11, <1>12, <1>13, <1>18 DEF ListsExact
<1> QED BY <1>7, <1>10, <1>19, <1>20, <1>21 DEF ExitInv

\* The loop ends.
LEMMA EndsStep ==
  ASSUME ExitInv, NEW k \in Kinds, Ends(k)
  PROVE  ExitInv'
<1>1. /\ Top = k /\ OnExitIndex[k] <= 0
      /\ OnExitIndex' = [OnExitIndex EXCEPT ![k] = IF k = "shmem" THEN 0 ELSE -1]
      /\ frames' = IF k = "shmem" THEN Pop ELSE <<"exited">>
      /\ UNCHANGED <<OnExitList, registered, pending, called>>
  BY DEF Ends
<1>2. /\ MAX_ON_EXITS \in Nat /\ OnExitIndex \in [Kinds -> -1..MAX_ON_EXITS]
      /\ frames \in Seq({"proc", "shmem", "callback", "exited"}) /\ FramesStacked
  BY ExitTypes DEF ExitInv, ExitTypeOK
<1>3. pending[k] = {}
  <2> SUFFICES ASSUME NEW c \in pending[k] PROVE FALSE
    OBVIOUS
  <2>1. PICK i \in Slots : i < OnExitIndex[k]
    BY DEF ExitInv, ListsExact, ListOf, Exact
  <2> QED BY <1>1, <1>2, <2>1 DEF Slots
<1>4. /\ OnExitIndex' \in [Kinds -> -1..MAX_ON_EXITS]
      /\ OnExitIndex'[k] <= 0 /\ (k = "shmem" => OnExitIndex'[k] = 0)
      /\ \A j \in Kinds : j # k => OnExitIndex'[j] = OnExitIndex[j]
  BY <1>1, <1>2
<1>5. /\ frames' \in Seq({"proc", "shmem", "callback", "exited"}) /\ FramesStacked'
      /\ k = "shmem" => Top' \in {"main", "proc"}
      /\ k = "proc" => Top' = "exited"
  <2>1. CASE k = "shmem"
    BY <1>1, <1>2, <2>1, Popped
  <2>2. CASE k = "proc"
    BY <1>1, <2>2 DEF FramesStacked, Top
  <2> QED BY <2>1, <2>2 DEF Kinds
<1>6. ExitTypeOK'
  BY <1>1, <1>4, <1>5 DEF ExitInv, ExitTypeOK
<1>7. \A j \in Kinds : ListOf(j)'
  <2> SUFFICES ASSUME NEW j \in Kinds PROVE ListOf(j)'
    OBVIOUS
  <2>1. ListOf(j) /\ Top # "exited"
    BY <1>1 DEF ExitInv, ListsExact, Kinds
  <2>2. CASE j # k
    BY <1>1, <1>4, <2>1, <2>2 DEF ListOf
  <2>3. CASE j = k
    <3>1. /\ OnExitIndex'[k] \in {-1, 0} /\ pending'[k] = {}
          /\ Top' # "exited" => OnExitIndex'[k] = 0
      BY <1>1, <1>2, <1>3, <1>5 DEF Kinds
    <3>2. Exact(OnExitList'[k], OnExitIndex'[k], pending'[k], registered')
      BY <3>1, EmptyExact
    <3>3. Top' # "exited" => OnExitIndex'[k] >= 0
      BY <3>1
    <3> QED BY <2>3, <3>2, <3>3 DEF ListOf
  <2> QED BY <2>2, <2>3
<1>8. ListsExact'
  BY <1>1, <1>7 DEF ExitInv, ListsExact, CalledGone
<1>9. pending["shmem"] = {}
  BY <1>1, <1>3 DEF ExitInv, ShmemDone, Kinds
<1>10. ShmemDone' /\ CalledOnce'
  BY <1>1, <1>9 DEF ExitInv, ShmemDone, CalledOnce
<1>11. AllCalled'
  BY <1>1, <1>3, <1>5, <1>9 DEF AllCalled, Kinds
<1> QED BY <1>5, <1>6, <1>8, <1>10, <1>11 DEF ExitInv

\* A forked process forgets the callbacks of its parent.
LEMMA ResetStep ==
  ASSUME ExitInv, on_exit_reset
  PROVE  ExitInv'
<1>1. /\ Top = "main" /\ OnExitIndex' = [k \in Kinds |-> 0]
      /\ pending' = [k \in Kinds |-> {}]
      /\ UNCHANGED <<OnExitList, registered, called, frames>>
  BY DEF on_exit_reset
<1>2. ExitTypeOK'
  BY <1>1, ExitTypes DEF ExitInv, ExitTypeOK
<1>3. Top' = "main"
  BY <1>1 DEF Top
<1>4. ListsExact'
  <2>1. \A k \in Kinds : OnExitIndex'[k] = 0 /\ pending'[k] = {}
    BY <1>1
  <2>2. \A k \in Kinds :
          Exact(OnExitList'[k], OnExitIndex'[k], pending'[k], registered')
    BY <2>1, EmptyExact
  <2>3. \A k \in Kinds : ListOf(k)'
    BY <2>1, <2>2 DEF ListOf
  <2> QED BY <1>1, <2>1, <2>3 DEF ExitInv, ListsExact, CalledGone, Kinds
<1> QED
  BY <1>1, <1>2, <1>3, <1>4
     DEF ExitInv, FramesStacked, ShmemDone, InProcCallback, CalledOnce, AllCalled, Kinds

\* Every step keeps the invariant.
LEMMA ExitInvStep == ExitInv /\ [Next]_vars => ExitInv'
<1> SUFFICES ASSUME ExitInv, [Next]_vars PROVE ExitInv'
  OBVIOUS
<1>1. CASE ExitNext
  BY <1>1, OnExitStep, ResetStep, BeginExitStep, TurnStep, EndsStep DEF ExitNext, ExitStep
<1>2. CASE UNCHANGED exitVars
  BY <1>2 DEF exitVars, ExitInv, ExitTypeOK, ListsExact, ListOf, CalledGone, FramesStacked,
              ShmemDone, InProcCallback, CalledOnce, AllCalled, Top
<1> QED BY <1>1, <1>2 DEF Next, vars

\* proc_exit calls its own callbacks after those of shared memory.
LEMMA ShmemFirstStep ==
  ExitInv /\ [Next]_vars =>
    [\A i \in DOMAIN called' :
       i > Len(called) /\ called'[i] \in pending["proc"] => pending["shmem"] = {}]_exitVars
<1> SUFFICES ASSUME ExitInv, ExitNext, NEW i \in DOMAIN called', i > Len(called),
                    called'[i] \in pending["proc"]
             PROVE  pending["shmem"] = {}
  BY DEF Next, vars
<1>1. called \in Seq(1..MaxCallbacks)
  BY DEF ExitInv, ExitTypeOK
<1>2. CASE called' = called
  BY <1>1, <1>2
<1>3. CASE \E k \in Kinds : Turn(k)
  <2>1. PICK k \in Kinds : Turn(k)
    BY <1>3
  <2>2. CASE k = "proc"
    BY <2>1, <2>2 DEF Turn, ExitInv, ShmemDone
  <2>3. CASE k = "shmem"
    <3> DEFINE c == OnExitList[k][OnExitIndex[k] - 1]
    <3>1. OnExitIndex[k] > 0 /\ called' = Append(called, c)
      BY <2>1 DEF Turn
    <3>2. OnExitIndex[k] - 1 \in Slots /\ OnExitIndex[k] - 1 < OnExitIndex[k]
      BY <3>1, ExitTypes DEF Slots
    <3>3. c \in pending["shmem"]
      BY <2>3, <3>2 DEF ExitInv, ListsExact, ListOf, Exact
    <3> HIDE DEF c
    <3>4. called'[i] = c
      BY <1>1, <3>1
    <3> QED BY <3>3, <3>4 DEF ExitInv, ListsExact
  <2> QED BY <2>2, <2>3 DEF Kinds
<1> QED
  BY <1>2, <1>3 DEF ExitNext, ExitStep, on_exit, on_exit_reset, shmem_exit, proc_exit,
                    Returns, Ends

\* Every callback registered with on_proc_exit or on_shmem_exit is called
\* once, shared memory's before the others, and none is left when proc_exit
\* calls exit: however callbacks register others and start proc_exit over.
THEOREM CallbacksAreCalledOnce == Spec => CallbacksOnce
<1>1. Init => ExitInv
  <2> SUFFICES ASSUME ExitInit PROVE ExitInv
    BY DEF Init
  <2>1. ExitTypeOK
    BY ExitAssumption DEF ExitInit, ExitTypeOK
  <2>2. ListsExact
    <3>1. \A k \in Kinds : OnExitIndex[k] = 0 /\ pending[k] = {}
      BY DEF ExitInit
    <3>2. \A k \in Kinds :
            Exact(OnExitList[k], OnExitIndex[k], pending[k], registered)
      BY <3>1, EmptyExact
    <3>3. \A k \in Kinds : ListOf(k)
      BY <3>1, <3>2 DEF ListOf
    <3> QED BY <3>3 DEF ExitInit, ListsExact, CalledGone, Kinds
  <2> QED
    BY <2>1, <2>2 DEF ExitInit, ExitInv, FramesStacked, ShmemDone, InProcCallback,
                      CalledOnce, AllCalled, Top, Kinds
<1>2. ExitInv => ExitTypeOK /\ CalledOnce /\ AllCalled
  BY DEF ExitInv
<1> QED
  BY <1>1, <1>2, ExitInvStep, ShmemFirstStep, PTL DEF Spec, CallbacksOnce, ShmemFirst

-----------------------------------------------------------------------------
(* Hash tables, dynahash.c: arithmetic.                                    *)

\* Division, for a divisor that is not a number we know.
LEMMA HashDiv ==
  ASSUME NEW l \in Nat, NEW c \in Nat \ {0}
  PROVE  /\ l \div c \in Nat /\ l % c \in 0..(c - 1)
         /\ l = (l \div c) * c + (l % c)
OBVIOUS

\* The remainder is the only one.
LEMMA HashMod ==
  ASSUME NEW q \in Nat, NEW c \in Nat \ {0}, NEW n \in 0..(c - 1)
  PROVE  (q * c + n) % c = n
OBVIOUS

\* Products, as far as they are needed.
LEMMA HashMul ==
  ASSUME NEW a \in Nat, NEW b \in Nat, NEW c \in Nat
  PROVE  a * c \in Nat /\ (a + 1) * c = a * c + c /\ (a <= b => a * c <= b * c)
OBVIOUS

\* One bit more of a hash value: the bucket of twice as many is the old one or
\* the old one and the old number of buckets.
LEMMA HalfMod ==
  ASSUME NEW h \in Nat, NEW c \in Nat \ {0}
  PROVE  /\ h % (2 * c) \in 0..(2 * c - 1) /\ h % c \in 0..(c - 1)
         /\ (h % (2 * c)) % c = h % c
         /\ h % (2 * c) = h % c \/ h % (2 * c) = (h % c) + c
<1>1. PICK d : d = 2 * c
  OBVIOUS
<1>2. d \in Nat \ {0} /\ d = 2 * c
  BY <1>1
<1>3. PICK q, y : q = h \div d /\ y = h % d
  OBVIOUS
<1>4. q \in Nat /\ y \in 0..(d - 1) /\ h = q * d + y
  BY <1>2, <1>3, HashDiv
<1>5. \E z \in 0..1, x \in 0..(c - 1) : y = z * c + x
  <2>1. CASE y < c
    <3>1. y \in 0..(c - 1) /\ y = 0 * c + y
      BY <1>4, <2>1
    <3> QED BY <3>1
  <2>2. CASE ~(y < c)
    <3>1. PICK x \in 0..(c - 1) : x = y - c
      BY <1>2, <1>4, <2>2
    <3>2. y = 1 * c + x /\ 1 \in 0..1
      BY <1>4, <3>1
    <3> QED BY <3>2
  <2> QED BY <2>1, <2>2
<1>6. PICK z \in 0..1, x \in 0..(c - 1) : y = z * c + x
  BY <1>5
<1>7. y % c = x
  BY <1>6, HashMod
<1>8. h = (2 * q + z) * c + x
  <2>1. q * d = 2 * q * c
    BY <1>2, <1>4
  <2>2. (2 * q + z) * c = 2 * q * c + z * c
    BY <1>4, <1>6
  <2> QED BY <1>4, <1>6, <2>1, <2>2
<1>9. h % c = x
  <2>1. 2 * q + z \in Nat
    BY <1>4, <1>6
  <2> QED BY <1>6, <1>8, <2>1, HashMod
<1>10. y = x \/ y = x + c
  BY <1>6
<1> QED BY <1>1, <1>2, <1>3, <1>4, <1>6, <1>7, <1>9, <1>10

\* my_log2 ends, with a power of two that is not too small.
LEMMA PowerAboveIs ==
  ASSUME NEW n \in Nat
  PROVE  PowerAbove(n) \in Nat \ {0} /\ PowerAbove(n) >= n
<1> DEFINE G == {m \in Nat : m >= n}
<1> DEFINE f == CHOOSE g : g = [m \in Nat |-> IF m >= n THEN m ELSE g[2 * m]]
<1>1. G \subseteq Nat /\ \A m \in Nat : m >= n => m \in G
  OBVIOUS
<1>2. PICK h : Doubles(h, Nat, G)
  BY <1>1, DoublingDefined
<1>3. h = [m \in Nat |-> IF m >= n THEN m ELSE h[2 * m]]
  BY <1>2 DEF Doubles
<1>4. f = [m \in Nat |-> IF m >= n THEN m ELSE f[2 * m]]
  BY <1>3
<1>5. \A m \in Nat : f[m] = IF m \in G THEN m ELSE f[2 * m]
  <2> HIDE DEF f
  <2> QED BY <1>4
<1>6. f[1] \in G /\ f[1] >= 1
  <2> HIDE DEF f, G
  <2>1. 1 \in Nat \ {0}
    OBVIOUS
  <2> QED BY <1>1, <1>5, <2>1, DoublingReaches
<1>7. PowerAbove(n) = f[1]
  BY DEF PowerAbove
<1> QED BY <1>6, <1>7

-----------------------------------------------------------------------------
(* Splitting a chain.                                                      *)

\* What Those has taken from the first i elements of s.
Taken(s, S, i, t) ==
  /\ t \in Seq(S) /\ Len(t) <= i
  /\ \A a \in 1..Len(t) : \E j \in 1..i : s[j] = t[a]
  /\ \A j \in 1..i : s[j] \in S => \E a \in 1..Len(t) : t[a] = s[j]
  /\ (\A j, k \in 1..i : s[j] = s[k] => j = k) =>
        \A a, b \in 1..Len(t) : t[a] = t[b] => a = b

\* f goes through the first n elements of s.
Takes(f, s, S, n) ==
  /\ f \in [0..n -> Seq(S)]
  /\ \A i \in 0..n :
       f[i] = IF i = 0 THEN <<>>
              ELSE IF s[i] \in S THEN Append(f[i - 1], s[i]) ELSE f[i - 1]

\* The loop that splits a chain has a result.
LEMMA TakesDefined ==
  ASSUME NEW s, NEW S, NEW m \in Nat
  PROVE  \E f : Takes(f, s, S, m)
<1> DEFINE Bad == {n \in Nat : ~\E f : Takes(f, s, S, n)}
<1>1. Bad = {}
  <2> SUFFICES ASSUME Bad # {} PROVE FALSE
    OBVIOUS
  <2>1. PICK n \in Bad : \A y \in Bad : n <= y
    <3> HIDE DEF Bad
    <3>1. Bad \subseteq Nat
      BY DEF Bad
    <3> QED BY <3>1, Smallest
  <2>2. n # 0
    <3> SUFFICES ASSUME n = 0 PROVE FALSE
      OBVIOUS
    <3> DEFINE f == [i \in 0..0 |-> <<>>]
    <3>1. Takes(f, s, S, 0)
      <4>1. f \in [0..0 -> Seq(S)]
        OBVIOUS
      <4>2. \A i \in 0..0 : i = 0 /\ f[i] = <<>>
        OBVIOUS
      <4> HIDE DEF f
      <4> QED BY <4>1, <4>2 DEF Takes
    <3> QED BY <3>1
  <2>3. n - 1 \in Nat /\ n \in Nat /\ ~(n <= n - 1)
    BY <2>2
  <2>4. PICK g : Takes(g, s, S, n - 1)
    BY <2>1, <2>3
  <2> DEFINE more == IF s[n] \in S THEN Append(g[n - 1], s[n]) ELSE g[n - 1]
  <2> DEFINE f == [i \in 0..n |-> IF i = n THEN more ELSE g[i]]
  <2>5. g \in [0..(n - 1) -> Seq(S)]
    BY <2>4 DEF Takes
  <2>6. more \in Seq(S)
    <3>1. g[n - 1] \in Seq(S)
      BY <2>3, <2>5
    <3> QED BY <3>1
  <2>7. f \in [0..n -> Seq(S)]
    <3> HIDE DEF more
    <3>1. \A i \in 0..n : i # n => i \in 0..(n - 1)
      BY <2>3
    <3> QED BY <2>5, <2>6, <3>1
  <2>8. ASSUME NEW i \in 0..n
        PROVE  f[i] = IF i = 0 THEN <<>>
                      ELSE IF s[i] \in S THEN Append(f[i - 1], s[i]) ELSE f[i - 1]
    <3>1. CASE i = n
      <4>1. f[n] = more /\ f[n - 1] = g[n - 1]
        <5> HIDE DEF more
        <5>1. n \in 0..n /\ n - 1 \in 0..n /\ n - 1 # n
          BY <2>3
        <5> QED BY <5>1
      <4> HIDE DEF f
      <4> QED BY <2>2, <3>1, <4>1
    <3>2. CASE i # n
      <4>1. i \in 0..(n - 1) /\ (i # 0 => i - 1 \in 0..n /\ i - 1 # n)
        BY <2>3, <3>2
      <4>2. f[i] = g[i] /\ (i # 0 => f[i - 1] = g[i - 1])
        <5> HIDE DEF more
        <5> QED BY <3>2, <4>1
      <4>3. g[i] = IF i = 0 THEN <<>>
                   ELSE IF s[i] \in S THEN Append(g[i - 1], s[i]) ELSE g[i - 1]
        BY <2>4, <4>1 DEF Takes
      <4> HIDE DEF f
      <4> QED BY <4>2, <4>3
    <3> QED BY <3>1, <3>2
  <2>9. Takes(f, s, S, n)
    <3> HIDE DEF f
    <3> QED BY <2>7, <2>8 DEF Takes
  <2> QED BY <2>9
<1>2. m \notin Bad
  BY <1>1
<1> QED BY <1>2

\* The loop takes what it should, round by round.
LEMMA TakesIs ==
  ASSUME NEW s, NEW S, NEW m \in Nat, NEW f, Takes(f, s, S, m)
  PROVE  Taken(s, S, m, f[m])
<1> DEFINE Bad == {n \in 0..m : ~Taken(s, S, n, f[n])}
<1>1. Bad = {}
  <2> SUFFICES ASSUME Bad # {} PROVE FALSE
    OBVIOUS
  <2>1. PICK n \in Bad : \A y \in Bad : n <= y
    <3> HIDE DEF Bad
    <3>1. Bad \subseteq Nat
      BY DEF Bad
    <3> QED BY <3>1, Smallest
  <2>2. n \in 0..m /\ n \in Nat /\ ~Taken(s, S, n, f[n])
    BY <2>1
  <2>3. n # 0
    <3> SUFFICES ASSUME n = 0 PROVE FALSE
      OBVIOUS
    <3>1. f[0] = <<>>
      BY <2>2 DEF Takes
    <3>2. Taken(s, S, 0, <<>>)
      BY DEF Taken
    <3> QED BY <2>2, <3>1, <3>2
  <2>4. n - 1 \in 0..m /\ n - 1 \in Nat /\ ~(n <= n - 1)
    BY <2>2, <2>3
  <2>5. PICK t : t = f[n - 1]
    OBVIOUS
  <2>6. Taken(s, S, n - 1, t)
    BY <2>1, <2>4, <2>5
  <2>7. f[n] = IF s[n] \in S THEN Append(t, s[n]) ELSE t
    BY <2>2, <2>3, <2>5 DEF Takes
  <2>8. t \in Seq(S) /\ Len(t) <= n - 1 /\ Len(t) \in Nat
    BY <2>6 DEF Taken
  <2>9. CASE s[n] \notin S
    <3>1. \A j \in 1..n : j \in 1..(n - 1) \/ j = n
      BY <2>4
    <3>2. \A j \in 1..(n - 1) : j \in 1..n
      BY <2>4
    <3>3. Taken(s, S, n, t)
      <4>1. Len(t) <= n
        BY <2>4, <2>8
      <4> QED BY <2>6, <2>8, <2>9, <3>1, <3>2, <4>1 DEF Taken
    <3> QED BY <2>2, <2>7, <2>9, <3>3
  <2>10. CASE s[n] \in S
    <3>1. PICK u : u = Append(t, s[n])
      OBVIOUS
    <3>2. /\ u \in Seq(S) /\ Len(u) = Len(t) + 1 /\ Len(u) <= n
          /\ \A a \in 1..Len(t) : u[a] = t[a]
          /\ u[Len(u)] = s[n]
      BY <2>4, <2>8, <2>10, <3>1
    <3>3. /\ \A a \in 1..Len(u) : a \in 1..Len(t) \/ a = Len(u)
          /\ \A a \in 1..Len(t) : a \in 1..Len(u) /\ a # Len(u)
          /\ \A j \in 1..n : j \in 1..(n - 1) \/ j = n
          /\ \A j \in 1..(n - 1) : j \in 1..n /\ j # n
          /\ n \in 1..n /\ Len(u) \in 1..Len(u)
      BY <2>4, <2>8, <3>2
    <3>4. \A a \in 1..Len(u) : \E j \in 1..n : s[j] = u[a]
      BY <2>6, <3>2, <3>3 DEF Taken
    <3>5. \A j \in 1..n : s[j] \in S => \E a \in 1..Len(u) : u[a] = s[j]
      BY <2>6, <3>2, <3>3 DEF Taken
    <3>6. ASSUME \A j, k \in 1..n : s[j] = s[k] => j = k,
                 NEW a \in 1..Len(u), NEW b \in 1..Len(u), u[a] = u[b]
          PROVE  a = b
      <4>1. \A c, d \in 1..Len(t) : t[c] = t[d] => c = d
        BY <2>6, <3>3, <3>6 DEF Taken
      <4>2. \A c \in 1..Len(t) : t[c] # s[n]
        <5> TAKE c \in 1..Len(t)
        <5>1. PICK j \in 1..(n - 1) : s[j] = t[c]
          BY <2>6 DEF Taken
        <5> QED BY <3>3, <3>6, <5>1
      <4> QED BY <3>2, <3>3, <3>6, <4>1, <4>2
    <3>7. Taken(s, S, n, u)
      BY <3>2, <3>4, <3>5, <3>6 DEF Taken
    <3> QED BY <2>2, <2>7, <2>10, <3>1, <3>7
  <2> QED BY <2>9, <2>10
<1>2. m \notin Bad /\ m \in 0..m
  BY <1>1
<1> QED BY <1>2

\* Those are the elements of s in S, none twice if s has none twice.
LEMMA ThoseAre ==
  ASSUME NEW D, NEW s \in Seq(D), NEW S
  PROVE  Taken(s, S, Len(s), Those(s, S))
<1> DEFINE f == CHOOSE g : g = [i \in 0..Len(s) |->
                  IF i = 0 THEN <<>>
                  ELSE IF s[i] \in S THEN Append(g[i - 1], s[i]) ELSE g[i - 1]]
<1>0. Len(s) \in Nat
  OBVIOUS
<1>1. PICK h : Takes(h, s, S, Len(s))
  BY <1>0, TakesDefined
<1>2. h = [i \in 0..Len(s) |->
             IF i = 0 THEN <<>>
             ELSE IF s[i] \in S THEN Append(h[i - 1], s[i]) ELSE h[i - 1]]
  BY <1>1 DEF Takes
<1>3. f = [i \in 0..Len(s) |->
             IF i = 0 THEN <<>>
             ELSE IF s[i] \in S THEN Append(f[i - 1], s[i]) ELSE f[i - 1]]
  BY <1>2
<1>4. Takes(f, s, S, Len(s))
  <2> HIDE DEF f
  <2>1. \A i \in 0..Len(s) :
          f[i] = IF i = 0 THEN <<>>
                 ELSE IF s[i] \in S THEN Append(f[i - 1], s[i]) ELSE f[i - 1]
    BY <1>3
  <2>2. DOMAIN f = 0..Len(s)
    BY <1>3
  <2> DEFINE Bad == {n \in 0..Len(s) : f[n] \notin Seq(S)}
  <2>3. Bad = {}
    <3> SUFFICES ASSUME Bad # {} PROVE FALSE
      OBVIOUS
    <3>1. PICK n \in Bad : \A y \in Bad : n <= y
      <4> HIDE DEF Bad
      <4>1. Bad \subseteq Nat
        BY DEF Bad
      <4> QED BY <4>1, Smallest
    <3>2. n # 0
      <4>1. 0 \in 0..Len(s) /\ <<>> \in Seq(S)
        BY <1>0
      <4> QED BY <2>1, <3>1, <4>1
    <3>3. n - 1 \in 0..Len(s) /\ ~(n <= n - 1)
      BY <3>2
    <3>4. f[n - 1] \in Seq(S)
      BY <3>1, <3>3
    <3>5. n \in 0..Len(s) /\ f[n] \notin Seq(S)
      BY <3>1
    <3>6. f[n] = IF s[n] \in S THEN Append(f[n - 1], s[n]) ELSE f[n - 1]
      BY <2>1, <3>2, <3>5
    <3> HIDE DEF Bad
    <3> QED BY <3>4, <3>5, <3>6
  <2>4. f \in [0..Len(s) -> Seq(S)]
    <3>1. \A n \in 0..Len(s) : f[n] \in Seq(S)
      BY <2>3
    <3>2. f = [n \in 0..Len(s) |-> f[n]]
      <4>1. f = [i \in DOMAIN f |-> f[i]]
        BY <1>3
      <4> QED BY <2>2, <4>1
    <3> QED BY <3>1, <3>2
  <2> QED BY <2>1, <2>4 DEF Takes
<1>5. Those(s, S) = f[Len(s)]
  BY DEF Those
<1> HIDE DEF f
<1> QED BY <1>0, <1>4, <1>5, TakesIs

\* What the constants are, and the table that init_htab begins with.
LEMMA HashConstants ==
  /\ MaxHash \in Nat /\ MaxElems \in Nat
  /\ nelem \in Nat \ {0} /\ ssize \in Nat \ {0} /\ dirsize \in Nat \ {0}
  /\ ffactor \in Nat \ {0} /\ BUCKET_ALLOC_INCR \in Nat \ {0}
  /\ nbuckets \in Nat \ {0} /\ Buckets = 0..nbuckets + MaxElems
  /\ nbuckets + MaxElems \in Nat
<1>1. /\ MaxHash \in Nat /\ MaxElems \in Nat
      /\ nelem \in Nat \ {0} /\ ssize \in Nat \ {0} /\ dirsize \in Nat \ {0}
      /\ ffactor \in Nat \ {0} /\ BUCKET_ALLOC_INCR \in Nat \ {0}
  BY HashAssumption
<1>2. nbuckets \in Nat \ {0}
  <2>1. nelem - 1 \in Nat
    BY <1>1
  <2>2. (nelem - 1) \div ffactor \in Nat
    BY <1>1, <2>1, HashDiv
  <2>3. PICK n \in Nat : n = (nelem - 1) \div ffactor + 1
    BY <2>2
  <2>4. PowerAbove(n) \in Nat \ {0}
    BY PowerAboveIs
  <2> QED BY <2>3, <2>4 DEF nbuckets
<1>3. nbuckets + MaxElems \in Nat
  BY <1>1, <1>2
<1> QED BY <1>1, <1>2, <1>3 DEF Buckets

-----------------------------------------------------------------------------
(* What a table holds.                                                     *)

\* The last bucket m and the masks lo and hi fit together.
Masks(m, lo, hi) ==
  m \in Nat /\ lo \in Nat /\ hi = 2 * lo + 1 /\ lo <= m /\ m <= hi

\* In the chains ch each element, with the key that ky gives, is in the bucket
\* that the function hs gives its key, and each key of pr is in one place.
Filled(hs, ch, ky, pr, m, lo, hi) ==
  /\ ch \in [Buckets -> Seq(Elems)]
  /\ \A b \in Buckets : \A i \in 1..Len(ch[b]) :
       ky[ch[b][i]] \in pr /\ call_hash(hs[ky[ch[b][i]]], m, lo, hi) = b
  /\ \A b, c \in Buckets : \A i \in 1..Len(ch[b]) : \A j \in 1..Len(ch[c]) :
       ky[ch[b][i]] = ky[ch[c][j]] => b = c /\ i = j
  /\ \A k \in pr : \E b \in Buckets : \E i \in 1..Len(ch[b]) : ky[ch[b][i]] = k

\* The elements in the chains.
Chained(ch) == {e \in Elems : \E b \in Buckets : \E i \in 1..Len(ch[b]) : ch[b][i] = e}

\* An element of a chain.
LEMMA ChainElem ==
  ASSUME NEW ch \in [Buckets -> Seq(Elems)], NEW b \in Buckets, NEW i \in 1..Len(ch[b])
  PROVE  ch[b] \in Seq(Elems) /\ ch[b][i] \in Elems /\ ch[b][i] \in Chained(ch)
<1>1. ch[b] \in Seq(Elems)
  OBVIOUS
<1>2. ch[b][i] \in Elems
  BY <1>1
<1> QED BY <1>1, <1>2 DEF Chained

\* call_hash gives a bucket of the table.
LEMMA HashInTable ==
  ASSUME NEW h \in Nat, NEW m, NEW lo, NEW hi, Masks(m, lo, hi)
  PROVE  call_hash(h, m, lo, hi) \in 0..m
<1>1. m \in Nat /\ lo \in Nat /\ hi = 2 * lo + 1 /\ lo <= m
  BY DEF Masks
<1>2. PICK x, y : x = h % (hi + 1) /\ y = x % (lo + 1)
  OBVIOUS
<1>3. x \in Nat
  <2>1. hi + 1 \in Nat \ {0}
    BY <1>1
  <2> QED BY <1>2, <2>1, HashDiv
<1>4. y \in 0..lo
  <2>1. lo + 1 \in Nat \ {0} /\ (lo + 1) - 1 = lo
    BY <1>1
  <2>2. x % (lo + 1) \in 0..((lo + 1) - 1)
    BY <1>3, <2>1, HashDiv
  <2> QED BY <1>2, <2>1, <2>2
<1>5. call_hash(h, m, lo, hi) = IF x > m THEN y ELSE x
  BY <1>2 DEF call_hash
<1> QED BY <1>1, <1>3, <1>4, <1>5

\* A new last bucket takes over some keys of the bucket with the same low
\* bits; all other keys stay where they are.
LEMMA HashSplits ==
  ASSUME NEW m, NEW lo, NEW hi, Masks(m, lo, hi),
         NEW old, old = (m + 1) % (lo + 1),
         NEW lo2, lo2 = IF m + 1 > hi THEN hi ELSE lo,
         NEW hi2, hi2 = IF m + 1 > hi THEN m + 1 + hi ELSE hi
  PROVE  /\ Masks(m + 1, lo2, hi2) /\ old \in 0..m
         /\ \A h \in Nat :
              \/ call_hash(h, m + 1, lo2, hi2) = call_hash(h, m, lo, hi)
              \/ call_hash(h, m + 1, lo2, hi2) = m + 1 /\ call_hash(h, m, lo, hi) = old
<1>1. m \in Nat /\ lo \in Nat /\ hi = 2 * lo + 1 /\ lo <= m /\ m <= hi
  BY DEF Masks
<1>2. PICK c : c = lo + 1
  OBVIOUS
<1>3. c \in Nat \ {0} /\ hi + 1 = 2 * c /\ c <= m + 1 /\ m + 1 <= 2 * c /\ lo + 1 = c
  BY <1>1, <1>2
<1>4. Masks(m + 1, lo2, hi2)
  BY <1>1 DEF Masks
<1>5. old \in 0..m
  <2>1. m + 1 \in Nat /\ old = (m + 1) % c
    BY <1>1, <1>2
  <2>2. old \in 0..(c - 1)
    BY <1>3, <2>1, HashDiv
  <2> QED BY <1>1, <1>2, <2>2
<1>6. ASSUME NEW h \in Nat
      PROVE  \/ call_hash(h, m + 1, lo2, hi2) = call_hash(h, m, lo, hi)
             \/ call_hash(h, m + 1, lo2, hi2) = m + 1 /\ call_hash(h, m, lo, hi) = old
  <2>1. CASE m + 1 <= hi
    <3>1. lo2 = lo /\ hi2 = hi
      BY <1>1, <2>1
    <3>2. PICK x, y : x = h % (hi + 1) /\ y = x % (lo + 1)
      OBVIOUS
    <3>3. x \in Nat
      <4>1. hi + 1 \in Nat \ {0}
        BY <1>1
      <4> QED BY <3>2, <4>1, HashDiv
    <3>4. call_hash(h, m, lo, hi) = IF x > m THEN y ELSE x
      BY <3>2 DEF call_hash
    <3>5. call_hash(h, m + 1, lo2, hi2) = IF x > m + 1 THEN y ELSE x
      BY <3>1, <3>2 DEF call_hash
    <3>6. x = m + 1 => y = old
      BY <3>2
    <3> QED BY <1>1, <3>3, <3>4, <3>5, <3>6
  <2>2. CASE m + 1 > hi
    <3>1. m + 1 = 2 * c /\ m = hi /\ lo2 = hi /\ hi2 + 1 = 2 * (2 * c) /\ 2 * c \in Nat \ {0}
      BY <1>1, <1>3, <2>2
    <3>2. PICK d : d = 2 * c
      OBVIOUS
    <3>3. d \in Nat \ {0} /\ hi + 1 = d /\ lo2 + 1 = d /\ hi2 + 1 = 2 * d /\ m + 1 = d
      BY <1>3, <3>1, <3>2
    <3>4. PICK x, y : x = h % d /\ y = h % (2 * d)
      OBVIOUS
    <3>5. /\ y \in 0..(2 * d - 1) /\ x \in 0..(d - 1) /\ y % d = x
          /\ y = x \/ y = x + d
      BY <3>3, <3>4, HalfMod
    <3>6. call_hash(h, m, lo, hi) = x
      <4>1. ~(x > m)
        BY <1>1, <3>3, <3>5
      <4>2. h % (hi + 1) = x
        BY <3>3, <3>4
      <4> QED BY <4>1, <4>2 DEF call_hash
    <3>7. call_hash(h, m + 1, lo2, hi2) = IF y > m + 1 THEN x ELSE y
      <4>1. h % (hi2 + 1) = y /\ y % (lo2 + 1) = x
        BY <3>3, <3>4, <3>5
      <4> QED BY <4>1 DEF call_hash
    <3>8. old = 0
      <4>1. 2 \in Nat /\ 0 \in 0..(c - 1) /\ 2 * c + 0 = m + 1
        BY <1>3, <3>1
      <4>2. (2 * c + 0) % c = 0
        BY <1>3, <4>1, HashMod
      <4> QED BY <1>2, <4>1, <4>2
    <3>9. y > d \/ y = d \/ y < d
      BY <3>3, <3>5
    <3>10. CASE y > d
      BY <3>3, <3>6, <3>7, <3>10
    <3>11. CASE y = d
      <4>1. x = 0 /\ ~(y > m + 1) /\ y = m + 1
        BY <3>3, <3>5, <3>11
      <4> QED BY <3>6, <3>7, <3>8, <4>1
    <3>12. CASE y < d
      <4>1. y = x /\ ~(y > m + 1)
        BY <3>3, <3>5, <3>12
      <4> QED BY <3>6, <3>7, <4>1
    <3> QED BY <3>9, <3>10, <3>11, <3>12
  <2> QED BY <1>1, <2>1, <2>2
<1> QED BY <1>4, <1>5, <1>6

\* What the next fields hold when an element is unlinked (HASH_REMOVE).
LEMMA RemoveAtIs ==
  ASSUME NEW D, NEW s \in Seq(D), NEW p \in 1..Len(s), NEW t, t = RemoveAt(s, p)
  PROVE  /\ t \in Seq(D) /\ Len(t) = Len(s) - 1
         /\ \A i \in 1..Len(t) : t[i] = IF i < p THEN s[i] ELSE s[i + 1]
<1>1. PICK u, v : u = SubSeq(s, 1, p - 1) /\ v = SubSeq(s, p + 1, Len(s))
  OBVIOUS
<1>2. t = u \o v
  BY <1>1 DEF RemoveAt
<1>3. p \in Nat /\ p >= 1 /\ p <= Len(s) /\ Len(s) \in Nat
  OBVIOUS
<1>4. u \in Seq(D) /\ Len(u) = p - 1 /\ \A i \in 1..(p - 1) : u[i] = s[i]
  BY <1>1, <1>3
<1>5. v \in Seq(D) /\ Len(v) = Len(s) - p /\ \A i \in 1..(Len(s) - p) : v[i] = s[i + p]
  BY <1>1, <1>3
<1>6. t \in Seq(D) /\ Len(t) = Len(s) - 1
  <2>1. t \in Seq(D) /\ Len(t) = Len(u) + Len(v)
    BY <1>2, <1>4, <1>5, ConcatProperties
  <2> QED BY <1>3, <1>4, <1>5, <2>1
<1>7. ASSUME NEW i \in 1..Len(t) PROVE t[i] = IF i < p THEN s[i] ELSE s[i + 1]
  <2>1. t[i] = IF i <= Len(u) THEN u[i] ELSE v[i - Len(u)]
    BY <1>2, <1>4, <1>5, <1>6, <1>7
  <2>2. CASE i < p
    BY <1>3, <1>4, <1>6, <2>1, <2>2
  <2>3. CASE ~(i < p)
    <3>1. PICK j : j = i - (p - 1)
      OBVIOUS
    <3>2. j \in 1..(Len(s) - p) /\ j + p = i + 1 /\ ~(i <= Len(u))
      BY <1>3, <1>4, <1>6, <2>3, <3>1
    <3> QED BY <1>4, <1>5, <2>1, <2>3, <3>1, <3>2
  <2> QED BY <2>2, <2>3
<1> QED BY <1>6, <1>7

\* The new key k is stored in the free element e, which is appended to the
\* chain of its bucket b.
Entered(hs, ch, ky, pr, m, lo, hi, k, e, b, ch2, ky2) ==
  /\ Filled(hs, ch, ky, pr, m, lo, hi)
  /\ ky \in [Elems -> Keys \cup {Nobody}] /\ pr \subseteq Keys
  /\ k \in Keys /\ k \notin pr /\ e \in Elems /\ e \notin Chained(ch)
  /\ b \in Buckets /\ b = call_hash(hs[k], m, lo, hi)
  /\ ch2 = [ch EXCEPT ![b] = Append(@, e)] /\ ky2 = [ky EXCEPT ![e] = k]

\* Then the chains hold that key as well.
LEMMA EnteredFilled ==
  ASSUME NEW ch, NEW ky, NEW pr, NEW m, NEW lo, NEW hi, NEW k, NEW e, NEW b, NEW ch2, NEW ky2,
         Entered(hash, ch, ky, pr, m, lo, hi, k, e, b, ch2, ky2)
  PROVE  Filled(hash, ch2, ky2, pr \cup {k}, m, lo, hi) /\ Chained(ch2) = Chained(ch) \cup {e}
<1> USE DEF Entered
<1> DEFINE n == Len(ch[b]) + 1
<1>1. /\ ch \in [Buckets -> Seq(Elems)]
      /\ \A x \in Buckets : \A i \in 1..Len(ch[x]) :
           ky[ch[x][i]] \in pr /\ call_hash(hash[ky[ch[x][i]]], m, lo, hi) = x
      /\ \A x, c \in Buckets : \A i \in 1..Len(ch[x]) : \A j \in 1..Len(ch[c]) :
           ky[ch[x][i]] = ky[ch[c][j]] => x = c /\ i = j
      /\ \A q \in pr : \E x \in Buckets : \E i \in 1..Len(ch[x]) : ky[ch[x][i]] = q
  BY DEF Filled
<1>2. ch[b] \in Seq(Elems) /\ n \in Nat /\ \A x \in Buckets : ch[x] \in Seq(Elems)
  BY <1>1
<1>3. /\ ch2 \in [Buckets -> Seq(Elems)] /\ ch2[b] = Append(ch[b], e)
      /\ \A x \in Buckets : x # b => ch2[x] = ch[x]
  <2>1. Append(ch[b], e) \in Seq(Elems)
    BY <1>2
  <2> QED BY <1>1, <2>1
<1>4. Len(ch2[b]) = n /\ ch2[b][n] = e /\ \A i \in 1..Len(ch[b]) : ch2[b][i] = ch[b][i]
  BY <1>2, <1>3
<1>5. /\ n \in 1..n /\ (\A i \in 1..n : i = n \/ i \in 1..Len(ch[b]))
      /\ \A i \in 1..Len(ch[b]) : i \in 1..n /\ i # n
  BY <1>2
<1> HIDE DEF n
<1>6. \A x \in Buckets : \A i \in 1..Len(ch[x]) :
        /\ ch[x][i] \in Elems /\ ch[x][i] \in Chained(ch) /\ ch[x][i] # e
        /\ i \in 1..Len(ch2[x]) /\ ch2[x][i] = ch[x][i] /\ ~(x = b /\ i = n)
        /\ ky2[ch[x][i]] = ky[ch[x][i]]
  <2> TAKE x \in Buckets
  <2> TAKE i \in 1..Len(ch[x])
  <2>1. ch[x][i] \in Elems /\ ch[x][i] \in Chained(ch)
    BY <1>1, ChainElem
  <2>2. i \in 1..Len(ch2[x]) /\ ch2[x][i] = ch[x][i] /\ ~(x = b /\ i = n)
    BY <1>3, <1>4, <1>5
  <2> QED BY <2>1, <2>2
<1>7. \A x \in Buckets : \A i \in 1..Len(ch2[x]) :
        \/ x = b /\ i = n /\ ch2[x][i] = e
        \/ i \in 1..Len(ch[x]) /\ ch2[x][i] = ch[x][i]
  BY <1>3, <1>4, <1>5
<1>8. ky2[e] = k
  OBVIOUS
<1>9. \A x \in Buckets : \A i \in 1..Len(ch2[x]) :
        ky2[ch2[x][i]] \in pr \cup {k} /\ call_hash(hash[ky2[ch2[x][i]]], m, lo, hi) = x
  <2> TAKE x \in Buckets
  <2> TAKE i \in 1..Len(ch2[x])
  <2>1. CASE x = b /\ ch2[x][i] = e
    BY <1>8, <2>1
  <2>2. CASE i \in 1..Len(ch[x]) /\ ch2[x][i] = ch[x][i]
    <3>1. ky2[ch2[x][i]] = ky[ch[x][i]]
      BY <1>6, <2>2
    <3>2. ky[ch[x][i]] \in pr /\ call_hash(hash[ky[ch[x][i]]], m, lo, hi) = x
      BY <1>1, <2>2
    <3> QED BY <3>1, <3>2
  <2> QED BY <1>7, <2>1, <2>2
<1>10. ASSUME NEW x \in Buckets, NEW c \in Buckets, NEW i \in 1..Len(ch2[x]),
              NEW j \in 1..Len(ch2[c]), ky2[ch2[x][i]] = ky2[ch2[c][j]]
       PROVE  x = c /\ i = j
  <2>1. \A y \in Buckets : \A a \in 1..Len(ch[y]) : ky2[ch[y][a]] # k
    BY <1>1, <1>6
  <2>2. CASE x = b /\ i = n /\ ch2[x][i] = e
    <3>1. ~(j \in 1..Len(ch[c]) /\ ch2[c][j] = ch[c][j])
      BY <1>8, <1>10, <2>1, <2>2
    <3> QED BY <1>7, <2>2, <3>1
  <2>3. CASE c = b /\ j = n /\ ch2[c][j] = e
    <3>1. ~(i \in 1..Len(ch[x]) /\ ch2[x][i] = ch[x][i])
      BY <1>8, <1>10, <2>1, <2>3
    <3> QED BY <1>7, <2>3, <3>1
  <2>4. CASE /\ i \in 1..Len(ch[x]) /\ ch2[x][i] = ch[x][i]
             /\ j \in 1..Len(ch[c]) /\ ch2[c][j] = ch[c][j]
    <3>1. ky[ch[x][i]] = ky[ch[c][j]]
      BY <1>6, <1>10, <2>4
    <3> QED BY <1>1, <2>4, <3>1
  <2> QED BY <1>7, <2>2, <2>3, <2>4
<1>11. \A q \in pr \cup {k} : \E x \in Buckets : \E i \in 1..Len(ch2[x]) : ky2[ch2[x][i]] = q
  <2> TAKE q \in pr \cup {k}
  <2>1. CASE q = k
    BY <1>4, <1>5, <1>8, <2>1
  <2>2. CASE q \in pr
    <3>0. PICK x \in Buckets : \E i \in 1..Len(ch[x]) : ky[ch[x][i]] = q
      BY <1>1, <2>2
    <3>1. PICK i \in 1..Len(ch[x]) : ky[ch[x][i]] = q
      BY <3>0
    <3> QED BY <1>6, <3>1
  <2> QED BY <2>1, <2>2
<1>12. Filled(hash, ch2, ky2, pr \cup {k}, m, lo, hi)
  BY <1>3, <1>9, <1>10, <1>11 DEF Filled
<1>13. Chained(ch2) = Chained(ch) \cup {e}
  <2>1. ASSUME NEW d \in Chained(ch2) PROVE d \in Chained(ch) \cup {e}
    <3>0. PICK x \in Buckets : \E i \in 1..Len(ch2[x]) : ch2[x][i] = d
      BY <2>1 DEF Chained
    <3>1. PICK i \in 1..Len(ch2[x]) : ch2[x][i] = d
      BY <3>0
    <3> QED BY <1>6, <1>7, <3>1
  <2>2. ASSUME NEW d \in Chained(ch) PROVE d \in Chained(ch2)
    <3>0. PICK x \in Buckets : \E i \in 1..Len(ch[x]) : ch[x][i] = d
      BY <2>2 DEF Chained
    <3>1. PICK i \in 1..Len(ch[x]) : ch[x][i] = d
      BY <3>0
    <3> QED BY <1>6, <3>1 DEF Chained
  <2>3. e \in Chained(ch2)
    BY <1>4, <1>5 DEF Chained
  <2> QED BY <2>1, <2>2, <2>3
<1> QED BY <1>12, <1>13

\* The element e at place p of bucket b is unlinked and its key wiped.
Unlinked(hs, ch, ky, pr, m, lo, hi, b, p, e, ch2, ky2) ==
  /\ Filled(hs, ch, ky, pr, m, lo, hi) /\ ky \in [Elems -> Keys \cup {Nobody}]
  /\ b \in Buckets /\ p \in 1..Len(ch[b]) /\ e = ch[b][p]
  /\ ch2 = [ch EXCEPT ![b] = RemoveAt(@, p)] /\ ky2 = [ky EXCEPT ![e] = Nobody]

\* Then the chains hold that key no more.
LEMMA RemovedFilled ==
  ASSUME NEW ch, NEW ky, NEW pr, NEW m, NEW lo, NEW hi, NEW b, NEW p, NEW e, NEW ch2, NEW ky2,
         Unlinked(hash, ch, ky, pr, m, lo, hi, b, p, e, ch2, ky2)
  PROVE  /\ Filled(hash, ch2, ky2, pr \ {ky[e]}, m, lo, hi)
         /\ Chained(ch2) = Chained(ch) \ {e} /\ e \in Chained(ch)
<1> USE DEF Unlinked
<1>1. /\ ch \in [Buckets -> Seq(Elems)]
      /\ \A x \in Buckets : \A i \in 1..Len(ch[x]) :
           ky[ch[x][i]] \in pr /\ call_hash(hash[ky[ch[x][i]]], m, lo, hi) = x
      /\ \A x, c \in Buckets : \A i \in 1..Len(ch[x]) : \A j \in 1..Len(ch[c]) :
           ky[ch[x][i]] = ky[ch[c][j]] => x = c /\ i = j
      /\ \A q \in pr : \E x \in Buckets : \E i \in 1..Len(ch[x]) : ky[ch[x][i]] = q
  BY DEF Filled
<1>2. e \in Elems /\ e \in Chained(ch) /\ ch[b] \in Seq(Elems)
  BY <1>1, ChainElem
<1>3. PICK t : t = RemoveAt(ch[b], p)
  OBVIOUS
<1>4. /\ t \in Seq(Elems) /\ Len(t) = Len(ch[b]) - 1
      /\ \A i \in 1..Len(t) : t[i] = IF i < p THEN ch[b][i] ELSE ch[b][i + 1]
  BY <1>2, <1>3, RemoveAtIs
<1>5. /\ ch2 \in [Buckets -> Seq(Elems)] /\ ch2[b] = t
      /\ \A x \in Buckets : x # b => ch2[x] = ch[x]
  BY <1>1, <1>3, <1>4
<1> DEFINE from(x, i) == IF x # b \/ i < p THEN i ELSE i + 1
<1> DEFINE to(x, i) == IF x # b \/ i < p THEN i ELSE i - 1
<1>6. p \in 1..Len(ch[b]) /\ Len(ch[b]) \in Nat /\ \A x \in Buckets : Len(ch[x]) \in Nat
  BY <1>1, <1>2
<1>7. \A x \in Buckets : \A i \in 1..Len(ch2[x]) :
        from(x, i) \in 1..Len(ch[x]) /\ ch2[x][i] = ch[x][from(x, i)]
          /\ ~(x = b /\ from(x, i) = p)
  <2> TAKE x \in Buckets
  <2> TAKE i \in 1..Len(ch2[x])
  <2>1. CASE x # b
    BY <1>5, <2>1
  <2>2. CASE x = b
    BY <1>4, <1>5, <1>6, <2>2
  <2> QED BY <2>1, <2>2
<1>8. \A x \in Buckets : \A i \in 1..Len(ch[x]) : ~(x = b /\ i = p) =>
        to(x, i) \in 1..Len(ch2[x]) /\ ch2[x][to(x, i)] = ch[x][i]
  <2> SUFFICES ASSUME NEW x \in Buckets, NEW i \in 1..Len(ch[x]), ~(x = b /\ i = p)
               PROVE  to(x, i) \in 1..Len(ch2[x]) /\ ch2[x][to(x, i)] = ch[x][i]
    OBVIOUS
  <2>1. CASE x # b
    BY <1>5, <2>1
  <2>2. CASE x = b
    <3>1. to(x, i) \in 1..Len(t) /\ (IF to(x, i) < p THEN to(x, i) ELSE to(x, i) + 1) = i
      BY <1>4, <1>6, <2>2
    <3> HIDE DEF to
    <3> QED BY <1>4, <1>5, <2>2, <3>1
  <2> QED BY <2>1, <2>2
<1>9. \A x \in Buckets : \A i, j \in 1..Len(ch2[x]) : from(x, i) = from(x, j) => i = j
  <2>1. \A x \in Buckets : Len(ch2[x]) \in Nat
    BY <1>5
  <2> QED BY <1>6, <2>1
<1> HIDE DEF from, to
<1>16. \A x \in Buckets : \A i \in 1..Len(ch[x]) : ~(x = b /\ i = p) =>
         \E j \in 1..Len(ch2[x]) : ch2[x][j] = ch[x][i]
  BY <1>8
<1>10. \A x \in Buckets : \A i \in 1..Len(ch[x]) :
         /\ ch[x][i] \in Elems
         /\ ~(x = b /\ i = p) => ch[x][i] # e /\ ky2[ch[x][i]] = ky[ch[x][i]]
                                 /\ ky[ch[x][i]] # ky[e]
  <2> TAKE x \in Buckets
  <2> TAKE i \in 1..Len(ch[x])
  <2>1. ch[x][i] \in Elems
    BY <1>1, ChainElem
  <2>2. ky[ch[x][i]] = ky[e] => x = b /\ i = p
    BY <1>1
  <2> QED BY <1>2, <2>1, <2>2
<1>11. \A x \in Buckets : \A i \in 1..Len(ch2[x]) :
         ky2[ch2[x][i]] \in pr \ {ky[e]} /\ call_hash(hash[ky2[ch2[x][i]]], m, lo, hi) = x
  <2> TAKE x \in Buckets
  <2> TAKE i \in 1..Len(ch2[x])
  <2>1. PICK a \in 1..Len(ch[x]) : ch2[x][i] = ch[x][a] /\ ~(x = b /\ a = p)
    BY <1>7
  <2>2. ky2[ch2[x][i]] = ky[ch[x][a]] /\ ky[ch[x][a]] # ky[e]
    BY <1>10, <2>1
  <2> QED BY <1>1, <2>1, <2>2
<1>17. e = ch[b][p]
  OBVIOUS
<1> HIDE DEF Unlinked
<1>12. ASSUME NEW x \in Buckets, NEW c \in Buckets, NEW i \in 1..Len(ch2[x]),
              NEW j \in 1..Len(ch2[c]), ky2[ch2[x][i]] = ky2[ch2[c][j]]
       PROVE  x = c /\ i = j
  <2>1. PICK a \in 1..Len(ch[x]) :
          a = from(x, i) /\ ch2[x][i] = ch[x][a] /\ ~(x = b /\ a = p)
    BY <1>7
  <2>2. PICK d \in 1..Len(ch[c]) :
          d = from(c, j) /\ ch2[c][j] = ch[c][d] /\ ~(c = b /\ d = p)
    BY <1>7
  <2>3. ky[ch[x][a]] = ky[ch[c][d]]
    BY <1>10, <1>12, <2>1, <2>2
  <2>4. x = c /\ a = d
    BY <1>1, <2>3
  <2> QED BY <1>9, <2>1, <2>2, <2>4
<1>13. \A q \in pr \ {ky[e]} : \E x \in Buckets : \E i \in 1..Len(ch2[x]) : ky2[ch2[x][i]] = q
  <2> TAKE q \in pr \ {ky[e]}
  <2>0. PICK x \in Buckets : \E i \in 1..Len(ch[x]) : ky[ch[x][i]] = q
    BY <1>1
  <2>1. PICK i \in 1..Len(ch[x]) : ky[ch[x][i]] = q
    BY <2>0
  <2>2. ~(x = b /\ i = p)
    BY <1>17, <2>1
  <2>3. PICK j \in 1..Len(ch2[x]) : ch2[x][j] = ch[x][i]
    BY <1>16, <2>2
  <2>4. ky2[ch2[x][j]] = q
    BY <1>10, <2>1, <2>2, <2>3
  <2> QED BY <2>4
<1>14. Filled(hash, ch2, ky2, pr \ {ky[e]}, m, lo, hi)
  BY <1>5, <1>11, <1>12, <1>13 DEF Filled
<1>15. Chained(ch2) = Chained(ch) \ {e}
  <2>1. ASSUME NEW d \in Chained(ch2) PROVE d \in Chained(ch) \ {e}
    <3>0. PICK x \in Buckets : \E i \in 1..Len(ch2[x]) : ch2[x][i] = d
      BY <2>1 DEF Chained
    <3>1. PICK i \in 1..Len(ch2[x]) : ch2[x][i] = d
      BY <3>0
    <3>2. PICK a \in 1..Len(ch[x]) : ch2[x][i] = ch[x][a] /\ ~(x = b /\ a = p)
      BY <1>7
    <3> QED BY <1>10, <3>1, <3>2 DEF Chained
  <2>2. ASSUME NEW d \in Chained(ch), d # e PROVE d \in Chained(ch2)
    <3>0. PICK x \in Buckets : \E i \in 1..Len(ch[x]) : ch[x][i] = d
      BY <2>2 DEF Chained
    <3>1. PICK i \in 1..Len(ch[x]) : ch[x][i] = d
      BY <3>0
    <3>2. ~(x = b /\ i = p)
      BY <1>17, <2>2, <3>1
    <3>3. d \in Elems
      BY <2>2 DEF Chained
    <3>4. PICK j \in 1..Len(ch2[x]) : ch2[x][j] = ch[x][i]
      BY <1>16, <3>2
    <3> QED BY <3>1, <3>3, <3>4 DEF Chained
  <2> QED BY <2>1, <2>2
<1> QED BY <1>2, <1>14, <1>15

\* The elements of bucket old that are not in stay go to bucket new, in chains ch
\* that become ch2.
Moved(ch, ch2, old, new, stay) ==
  /\ ch2 \in [Buckets -> Seq(Elems)]
  /\ \A x \in Buckets \ {old, new} : ch2[x] = ch[x]
  /\ \A i \in 1..Len(ch2[old]) :
       ch2[old][i] \in stay /\ \E j \in 1..Len(ch[old]) : ch[old][j] = ch2[old][i]
  /\ \A i \in 1..Len(ch2[new]) :
       ch2[new][i] \notin stay /\ \E j \in 1..Len(ch[old]) : ch[old][j] = ch2[new][i]
  /\ \A j \in 1..Len(ch[old]) :
       /\ ch[old][j] \in stay => \E i \in 1..Len(ch2[old]) : ch2[old][i] = ch[old][j]
       /\ ch[old][j] \notin stay => \E i \in 1..Len(ch2[new]) : ch2[new][i] = ch[old][j]
  /\ \A i, j \in 1..Len(ch2[old]) : ch2[old][i] = ch2[old][j] => i = j
  /\ \A i, j \in 1..Len(ch2[new]) : ch2[new][i] = ch2[new][j] => i = j

\* The loop of expand_table does that.
LEMMA SplitMoves ==
  ASSUME NEW ch \in [Buckets -> Seq(Elems)], NEW old \in Buckets, NEW new \in Buckets, old # new,
         \A i, j \in 1..Len(ch[old]) : ch[old][i] = ch[old][j] => i = j,
         NEW stay \in SUBSET Elems,
         NEW ch2, ch2 = [ch EXCEPT ![old] = Those(ch[old], stay),
                                   ![new] = Those(ch[old], Elems \ stay)]
  PROVE  Moved(ch, ch2, old, new, stay)
<1>1. PICK s, t, u : s = ch[old] /\ t = Those(s, stay) /\ u = Those(s, Elems \ stay)
  OBVIOUS
<1>2. /\ s \in Seq(Elems) /\ Len(s) \in Nat
      /\ Taken(s, stay, Len(s), t) /\ Taken(s, Elems \ stay, Len(s), u)
  BY <1>1, ThoseAre
<1>3. t \in Seq(stay) /\ u \in Seq(Elems \ stay) /\ t \in Seq(Elems) /\ u \in Seq(Elems)
  <2>1. t \in Seq(stay) /\ u \in Seq(Elems \ stay)
    BY <1>2 DEF Taken
  <2> QED BY <2>1
<1>4. /\ ch2 \in [Buckets -> Seq(Elems)] /\ ch2[old] = t /\ ch2[new] = u
      /\ \A x \in Buckets \ {old, new} : ch2[x] = ch[x]
  BY <1>1, <1>3
<1>5. \A j \in 1..Len(s) : s[j] \in Elems
  BY <1>2
<1>6. \A i \in 1..Len(t) : t[i] \in stay /\ \E j \in 1..Len(s) : s[j] = t[i]
  BY <1>2, <1>3 DEF Taken
<1>7. \A i \in 1..Len(u) : u[i] \notin stay /\ \E j \in 1..Len(s) : s[j] = u[i]
  BY <1>2, <1>3 DEF Taken
<1>8. \A j \in 1..Len(s) :
        /\ s[j] \in stay => \E i \in 1..Len(t) : t[i] = s[j]
        /\ s[j] \notin stay => \E i \in 1..Len(u) : u[i] = s[j]
  BY <1>2, <1>5 DEF Taken
<1>9. /\ \A i, j \in 1..Len(t) : t[i] = t[j] => i = j
      /\ \A i, j \in 1..Len(u) : u[i] = u[j] => i = j
  <2>1. \A i, j \in 1..Len(s) : s[i] = s[j] => i = j
    BY <1>1
  <2>2. \A i, j \in 1..Len(t) : t[i] = t[j] => i = j
    BY <1>2, <2>1 DEF Taken
  <2>3. \A i, j \in 1..Len(u) : u[i] = u[j] => i = j
    BY <1>2, <2>1 DEF Taken
  <2> QED BY <2>2, <2>3
<1>10. s = ch[old] /\ t = ch2[old] /\ u = ch2[new]
  BY <1>1, <1>4
<1>11. \A i \in 1..Len(ch2[old]) :
         ch2[old][i] \in stay /\ \E j \in 1..Len(ch[old]) : ch[old][j] = ch2[old][i]
  <2> TAKE i \in 1..Len(ch2[old])
  <2>1. i \in 1..Len(t) /\ ch2[old][i] = t[i]
    BY <1>10, Zenon
  <2> QED BY <1>6, <1>10, <2>1, Zenon
<1>12. \A i \in 1..Len(ch2[new]) :
         ch2[new][i] \notin stay /\ \E j \in 1..Len(ch[old]) : ch[old][j] = ch2[new][i]
  <2> TAKE i \in 1..Len(ch2[new])
  <2>1. i \in 1..Len(u) /\ ch2[new][i] = u[i]
    BY <1>10, Zenon
  <2> QED BY <1>7, <1>10, <2>1, Zenon
<1>13. \A j \in 1..Len(ch[old]) :
         /\ ch[old][j] \in stay => \E i \in 1..Len(ch2[old]) : ch2[old][i] = ch[old][j]
         /\ ch[old][j] \notin stay => \E i \in 1..Len(ch2[new]) : ch2[new][i] = ch[old][j]
  <2> TAKE j \in 1..Len(ch[old])
  <2>1. j \in 1..Len(s) /\ ch[old][j] = s[j]
    BY <1>10, Zenon
  <2>2. s[j] \in stay => \E i \in 1..Len(ch2[old]) : ch2[old][i] = s[j]
    BY <1>8, <1>10, <2>1, Zenon
  <2>3. s[j] \notin stay => \E i \in 1..Len(ch2[new]) : ch2[new][i] = s[j]
    BY <1>8, <1>10, <2>1, Zenon
  <2> QED BY <2>1, <2>2, <2>3, Zenon
<1>14. /\ \A i, j \in 1..Len(ch2[old]) : ch2[old][i] = ch2[old][j] => i = j
       /\ \A i, j \in 1..Len(ch2[new]) : ch2[new][i] = ch2[new][j] => i = j
  <2>1. ASSUME NEW i \in 1..Len(ch2[old]), NEW j \in 1..Len(ch2[old]), ch2[old][i] = ch2[old][j]
        PROVE  i = j
    <3>1. i \in 1..Len(t) /\ j \in 1..Len(t) /\ t[i] = t[j]
      BY <1>10, <2>1, Zenon
    <3> QED BY <1>9, <3>1, Zenon
  <2>2. ASSUME NEW i \in 1..Len(ch2[new]), NEW j \in 1..Len(ch2[new]), ch2[new][i] = ch2[new][j]
        PROVE  i = j
    <3>1. i \in 1..Len(u) /\ j \in 1..Len(u) /\ u[i] = u[j]
      BY <1>10, <2>2, Zenon
    <3> QED BY <1>9, <3>1, Zenon
  <2> QED BY <2>1, <2>2, Zenon
<1> QED BY <1>4, <1>11, <1>12, <1>13, <1>14, Zenon DEF Moved

\* A new bucket takes over keys of bucket old only.
TakesOver(m, lo, hi, old, new, lo2, hi2) ==
  /\ m \in Nat /\ new = m + 1 /\ old \in 0..m
  /\ \A h \in Nat :
       \/ call_hash(h, new, lo2, hi2) = call_hash(h, m, lo, hi)
       \/ call_hash(h, new, lo2, hi2) = new /\ call_hash(h, m, lo, hi) = old

\* Where an element was before.
Was(x, old, new) == IF x = new THEN old ELSE x

\* The table grows by one bucket.
Split(hs, ch, ky, pr, m, lo, hi, old, new, lo2, hi2, stay, ch2) ==
  /\ Filled(hs, ch, ky, pr, m, lo, hi) /\ Masks(m, lo, hi)
  /\ ky \in [Elems -> Keys \cup {Nobody}] /\ pr \subseteq Keys /\ hs \in [Keys -> Nat]
  /\ new \in Buckets /\ TakesOver(m, lo, hi, old, new, lo2, hi2)
  /\ \A i \in 1..Len(ch[old]) :
       ch[old][i] \in stay <=> call_hash(hs[ky[ch[old][i]]], new, lo2, hi2) = old
  /\ Moved(ch, ch2, old, new, stay)

\* Each element is in the bucket of its key again.
LEMMA MovedFilled ==
  ASSUME NEW ch, NEW ky, NEW pr, NEW m, NEW lo, NEW hi, NEW old, NEW new, NEW lo2, NEW hi2,
         NEW stay, NEW ch2,
         Split(hash, ch, ky, pr, m, lo, hi, old, new, lo2, hi2, stay, ch2)
  PROVE  Filled(hash, ch2, ky, pr, new, lo2, hi2) /\ Chained(ch2) = Chained(ch)
<1> USE DEF Split
<1>1. /\ ch \in [Buckets -> Seq(Elems)]
      /\ \A x \in Buckets : \A i \in 1..Len(ch[x]) :
           ky[ch[x][i]] \in pr /\ call_hash(hash[ky[ch[x][i]]], m, lo, hi) = x
      /\ \A x, c \in Buckets : \A i \in 1..Len(ch[x]) : \A j \in 1..Len(ch[c]) :
           ky[ch[x][i]] = ky[ch[c][j]] => x = c /\ i = j
      /\ \A q \in pr : \E x \in Buckets : \E i \in 1..Len(ch[x]) : ky[ch[x][i]] = q
  BY DEF Filled
<1>2. /\ m \in Nat /\ new = m + 1 /\ old \in 0..m /\ old \in Buckets /\ old # new
      /\ \A x \in 0..m : x # new
  <2>1. m \in Nat /\ new = m + 1 /\ old \in 0..m
    BY DEF TakesOver
  <2> QED BY <2>1, HashConstants
<1>3. \A x \in Buckets : \A i \in 1..Len(ch[x]) :
        /\ ch[x][i] \in Elems /\ hash[ky[ch[x][i]]] \in Nat
        /\ x # new
  <2> TAKE x \in Buckets
  <2> TAKE i \in 1..Len(ch[x])
  <2>1. ch[x][i] \in Elems
    BY <1>1, ChainElem
  <2>2. ky[ch[x][i]] \in Keys
    BY <1>1
  <2>3. PICK h : h = hash[ky[ch[x][i]]]
    OBVIOUS
  <2>4. h \in Nat
    BY <2>2, <2>3
  <2>5. call_hash(h, m, lo, hi) \in 0..m
    BY <2>4, HashInTable
  <2>6. x \in 0..m
    BY <1>1, <2>3, <2>5
  <2> QED BY <1>2, <2>1, <2>3, <2>4, <2>6
<1>4. \A x \in Buckets :
        /\ Was(x, old, new) \in Buckets
        /\ x = new => Was(x, old, new) = old
        /\ x # new => Was(x, old, new) = x
  BY <1>2 DEF Was
<1>5. ASSUME NEW x \in Buckets, NEW i \in 1..Len(ch2[x])
      PROVE  \E j \in 1..Len(ch[Was(x, old, new)]) :
               /\ ch2[x][i] = ch[Was(x, old, new)][j]
               /\ x \notin {old, new} => i = j
               /\ x = old => ch2[x][i] \in stay
               /\ x = new => ch2[x][i] \notin stay
  <2>1. CASE x = old
    <3>1. Was(x, old, new) = old
      BY <1>2, <1>4, <2>1
    <3>2. ch2[old][i] \in stay /\ \E j \in 1..Len(ch[old]) : ch[old][j] = ch2[old][i]
      BY <1>5, <2>1 DEF Moved
    <3> QED BY <1>2, <2>1, <3>1, <3>2
  <2>2. CASE x = new
    <3>1. Was(x, old, new) = old
      BY <1>4, <2>2
    <3>2. ch2[new][i] \notin stay /\ \E j \in 1..Len(ch[old]) : ch[old][j] = ch2[new][i]
      BY <1>5, <2>2 DEF Moved
    <3> QED BY <1>2, <2>2, <3>1, <3>2
  <2>3. CASE x \notin {old, new}
    <3>1. Was(x, old, new) = x
      BY <1>4, <2>3
    <3>2. ch2[x] = ch[x]
      BY <2>3 DEF Moved
    <3> QED BY <2>3, <3>1, <3>2
  <2> QED BY <2>1, <2>2, <2>3
<1>6. ASSUME NEW x \in Buckets, NEW i \in 1..Len(ch[x])
      PROVE  \E c \in Buckets : \E j \in 1..Len(ch2[c]) : ch2[c][j] = ch[x][i]
  <2>1. CASE x = old /\ ch[old][i] \in stay
    <3>1. \E j \in 1..Len(ch2[old]) : ch2[old][j] = ch[old][i]
      BY <1>6, <2>1 DEF Moved
    <3> QED BY <1>2, <2>1, <3>1
  <2>2. CASE x = old /\ ch[old][i] \notin stay
    <3>1. \E j \in 1..Len(ch2[new]) : ch2[new][j] = ch[old][i]
      BY <1>6, <2>2 DEF Moved
    <3> QED BY <2>2, <3>1
  <2>3. CASE x # old
    <3>1. ch2[x] = ch[x]
      BY <1>3, <2>3 DEF Moved
    <3>2. i \in 1..Len(ch2[x]) /\ ch2[x][i] = ch[x][i]
      BY <3>1
    <3> QED BY <3>2
  <2> QED BY <2>1, <2>2, <2>3
<1>7. ASSUME NEW x \in Buckets, NEW i \in 1..Len(ch2[x])
      PROVE  ky[ch2[x][i]] \in pr /\ call_hash(hash[ky[ch2[x][i]]], new, lo2, hi2) = x
  <2>1. PICK w \in Buckets :
          w = Was(x, old, new) /\ (x = new => w = old) /\ (x # new => w = x)
    BY <1>4
  <2>2. PICK j \in 1..Len(ch[w]) :
          /\ ch2[x][i] = ch[w][j]
          /\ x = old => ch2[x][i] \in stay
          /\ x = new => ch2[x][i] \notin stay
    BY <1>5, <2>1
  <2>3. PICK h : h = hash[ky[ch2[x][i]]]
    OBVIOUS
  <2>4. ky[ch2[x][i]] \in pr /\ call_hash(h, m, lo, hi) = w
    BY <1>1, <2>2, <2>3
  <2>5. h \in Nat
    BY <1>3, <2>2, <2>3
  <2>6. \/ call_hash(h, new, lo2, hi2) = w
        \/ call_hash(h, new, lo2, hi2) = new /\ w = old
    BY <2>4, <2>5 DEF TakesOver
  <2>7. CASE x = old
    <3>1. j \in 1..Len(ch[old]) /\ ch[old][j] = ch2[x][i] /\ ch[old][j] \in stay
      BY <1>2, <2>1, <2>2, <2>7
    <3>2. call_hash(h, new, lo2, hi2) = old
      BY <2>3, <3>1
    <3> QED BY <2>3, <2>4, <2>7, <3>2
  <2>8. CASE x = new
    <3>1. j \in 1..Len(ch[old]) /\ ch[old][j] = ch2[x][i] /\ ch[old][j] \notin stay
      BY <2>1, <2>2, <2>8
    <3>2. call_hash(h, new, lo2, hi2) # old
      BY <2>3, <3>1
    <3> QED BY <2>1, <2>3, <2>4, <2>6, <2>8, <3>2
  <2>9. CASE x # old /\ x # new
    BY <2>1, <2>3, <2>4, <2>6, <2>9
  <2> QED BY <2>7, <2>8, <2>9
<1>14. Moved(ch, ch2, old, new, stay)
  OBVIOUS
<1> HIDE DEF Split
<1>8. ASSUME NEW x \in Buckets, NEW c \in Buckets, NEW i \in 1..Len(ch2[x]),
             NEW j \in 1..Len(ch2[c]), ky[ch2[x][i]] = ky[ch2[c][j]]
      PROVE  x = c /\ i = j
  <2>1. x = c
    <3>1. call_hash(hash[ky[ch2[x][i]]], new, lo2, hi2) = x
      BY <1>7
    <3>2. call_hash(hash[ky[ch2[c][j]]], new, lo2, hi2) = c
      BY <1>7
    <3> QED BY <1>8, <3>1, <3>2
  <2>2. j \in 1..Len(ch2[x])
    BY <2>1
  <2>3. PICK w \in Buckets : w = Was(x, old, new)
    BY <1>4
  <2>4. PICK a \in 1..Len(ch[w]) : ch2[x][i] = ch[w][a] /\ (x \notin {old, new} => i = a)
    <3>1. \E a \in 1..Len(ch[Was(x, old, new)]) :
            ch2[x][i] = ch[Was(x, old, new)][a] /\ (x \notin {old, new} => i = a)
      BY <1>5
    <3> QED BY <2>3, <3>1, Zenon
  <2>5. PICK d \in 1..Len(ch[w]) : ch2[x][j] = ch[w][d] /\ (x \notin {old, new} => j = d)
    <3>1. \E d \in 1..Len(ch[Was(x, old, new)]) :
            ch2[x][j] = ch[Was(x, old, new)][d] /\ (x \notin {old, new} => j = d)
      BY <1>5, <2>2
    <3> QED BY <2>3, <3>1, Zenon
  <2>6. a = d
    <3>1. ky[ch[w][a]] = ky[ch[w][d]]
      BY <1>8, <2>1, <2>4, <2>5
    <3> QED BY <1>1, <3>1
  <2>7. ch2[x][i] = ch2[x][j]
    BY <2>4, <2>5, <2>6
  <2>8. CASE x \in {old, new}
    <3>1. i = j
      BY <1>14, <2>2, <2>7, <2>8 DEF Moved
    <3> QED BY <2>1, <3>1
  <2>9. CASE x \notin {old, new}
    BY <2>1, <2>4, <2>5, <2>6, <2>9
  <2> QED BY <2>8, <2>9
<1>9. ASSUME NEW q \in pr
      PROVE  \E x \in Buckets : \E i \in 1..Len(ch2[x]) : ky[ch2[x][i]] = q
  <2>1. PICK x \in Buckets : \E i \in 1..Len(ch[x]) : ky[ch[x][i]] = q
    BY <1>1
  <2>2. PICK i \in 1..Len(ch[x]) : ky[ch[x][i]] = q
    BY <2>1
  <2>3. \E c \in Buckets : \E j \in 1..Len(ch2[c]) : ch2[c][j] = ch[x][i]
    BY <1>6
  <2> QED BY <2>2, <2>3
<1>10. ch2 \in [Buckets -> Seq(Elems)]
  BY <1>14 DEF Moved
<1>11. Filled(hash, ch2, ky, pr, new, lo2, hi2)
  BY <1>7, <1>8, <1>9, <1>10 DEF Filled
<1>12. Chained(ch2) = Chained(ch)
  <2>1. ASSUME NEW d \in Chained(ch2) PROVE d \in Chained(ch)
    <3>1. PICK x \in Buckets : \E i \in 1..Len(ch2[x]) : ch2[x][i] = d
      BY <2>1 DEF Chained
    <3>2. PICK i \in 1..Len(ch2[x]) : ch2[x][i] = d
      BY <3>1
    <3>3. PICK w \in Buckets : w = Was(x, old, new)
      BY <1>4
    <3>4. PICK j \in 1..Len(ch[w]) : ch2[x][i] = ch[w][j]
      BY <1>5, <3>3
    <3>5. d \in Elems
      BY <2>1 DEF Chained
    <3> QED BY <3>2, <3>4, <3>5 DEF Chained
  <2>2. ASSUME NEW d \in Chained(ch) PROVE d \in Chained(ch2)
    <3>1. PICK x \in Buckets : \E i \in 1..Len(ch[x]) : ch[x][i] = d
      BY <2>2 DEF Chained
    <3>2. PICK i \in 1..Len(ch[x]) : ch[x][i] = d
      BY <3>1
    <3>3. d \in Elems
      BY <2>2 DEF Chained
    <3>4. \E c \in Buckets : \E j \in 1..Len(ch2[c]) : ch2[c][j] = d
      BY <1>6, <3>2
    <3> QED BY <3>3, <3>4 DEF Chained
  <2> QED BY <2>1, <2>2
<1> QED BY <1>11, <1>12

-----------------------------------------------------------------------------
(* The free list, the header, and the table as a whole.                    *)

\* Each of n elements is in the chains or, once, on the free list fr.
Parted(ch, fr, n) ==
  /\ fr \in Seq(1..n) /\ Chained(ch) \subseteq 1..n
  /\ \A e \in 1..n : e \in Chained(ch) <=> ~\E i \in 1..Len(fr) : fr[i] = e
  /\ \A i, j \in 1..Len(fr) : fr[i] = fr[j] => i = j

\* The header's counts fit together, and there are no more buckets than keys
\* unless there were at the beginning.
HeaderInv ==
  /\ Masks(max_bucket, low_mask, high_mask)
  /\ max_bucket < nbuckets \/ max_bucket < MaxElems
  /\ nsegs \in Nat /\ dsize \in Nat \ {0}
  /\ max_bucket < nsegs * ssize /\ nsegs <= dsize
  /\ S_CurBucket \in 0..(max_bucket + 1) /\ S_CurIndex \in 0..allocated

HashInv ==
  /\ hash \in [Keys -> Nat] /\ key \in [Elems -> Keys \cup {Nobody}]
  /\ allocated \in 0..MaxElems /\ present \subseteq Keys
  /\ Filled(hash, chain, key, present, max_bucket, low_mask, high_mask)
  /\ Parted(chain, free, allocated)
  /\ nkeys = allocated - Len(free)
  /\ HeaderInv

\* The last bucket is one of those that are modelled.
LEMMA LastBucket ==
  ASSUME HeaderInv
  PROVE  /\ max_bucket \in Nat /\ max_bucket \in Buckets /\ 0..max_bucket \subseteq Buckets
         /\ max_bucket + 1 <= MaxElems => max_bucket + 1 \in Buckets
BY HashConstants DEF HeaderInv, Masks

\* The bucket of a key.
LEMMA BucketIs ==
  ASSUME HashInv, NEW k \in Keys
  PROVE  Bucket(k) \in 0..max_bucket /\ Bucket(k) \in Buckets
<1>1. PICK h \in Nat : h = hash[k]
  BY DEF HashInv
<1>2. call_hash(h, max_bucket, low_mask, high_mask) \in 0..max_bucket
  BY HashInTable DEF HashInv, HeaderInv
<1> QED BY <1>1, <1>2, LastBucket DEF Bucket, HashInv

\* A lookup finds a key that is there, and no other.
LEMMA FindIs ==
  ASSUME HashInv, NEW k \in Keys
  PROVE  /\ k \in present => /\ Position(k) \in 1..Len(chain[Bucket(k)])
                             /\ Find(k) = chain[Bucket(k)][Position(k)] /\ Find(k) \in Elems
                             /\ key[Find(k)] = k
         /\ k \notin present => Find(k) = INVALID_INDEX
         /\ Find(k) = INVALID_INDEX => k \notin present
<1>1. Filled(hash, chain, key, present, max_bucket, low_mask, high_mask)
  BY DEF HashInv
<1>2. PICK b \in Buckets : b = Bucket(k)
  BY BucketIs
<1>3. chain \in [Buckets -> Seq(Elems)] /\ chain[b] \in Seq(Elems)
  BY <1>1 DEF Filled
<1> DEFINE I == {i \in 1..Len(chain[b]) : key[chain[b][i]] = k}
<1>4. Position(k) = IF I # {} THEN Min(I) ELSE 0
  BY <1>2 DEF Position, SelectInSeq
<1>5. I # {} => Min(I) \in I
  <2>1. I \subseteq Nat
    BY <1>3
  <2> HIDE DEF I
  <2>2. I # {} => \E x \in I : \A y \in I : x <= y
    BY <2>1, Smallest
  <2> QED BY <2>2 DEF Min
<1>6. k \in present <=> I # {}
  <2>1. ASSUME k \in present PROVE I # {}
    <3>1. PICK c \in Buckets : \E i \in 1..Len(chain[c]) : key[chain[c][i]] = k
      BY <1>1, <2>1 DEF Filled
    <3>2. PICK i \in 1..Len(chain[c]) : key[chain[c][i]] = k
      BY <3>1
    <3>3. call_hash(hash[k], max_bucket, low_mask, high_mask) = c
      BY <1>1, <3>2 DEF Filled
    <3>4. c = b
      BY <1>2, <3>3 DEF Bucket
    <3> QED BY <3>2, <3>4
  <2>2. ASSUME I # {} PROVE k \in present
    <3>1. PICK i \in 1..Len(chain[b]) : key[chain[b][i]] = k
      BY <2>2
    <3> QED BY <1>1, <3>1 DEF Filled
  <2> QED BY <2>1, <2>2
<1>7. CASE k \in present
  <2>1. PICK p \in 1..Len(chain[b]) : p = Position(k) /\ key[chain[b][p]] = k
    BY <1>4, <1>5, <1>6, <1>7
  <2>2. p # 0 /\ chain[b][p] \in Elems
    BY <1>3, <2>1, ChainElem
  <2>3. Find(k) = chain[b][p]
    BY <1>2, <2>1, <2>2 DEF Find
  <2>4. 0 \notin Elems
    BY HashConstants DEF Elems
  <2> QED BY <1>2, <1>7, <2>1, <2>2, <2>3, <2>4 DEF INVALID_INDEX
<1>8. CASE k \notin present
  <2> HIDE DEF I
  <2> QED BY <1>4, <1>6, <1>8 DEF Find
<1> QED BY <1>7, <1>8

\* bucket_alloc leaves a free list that is not empty.
LEMMA RefilledParted ==
  ASSUME HashInv, free = <<>> => allocated + BUCKET_ALLOC_INCR <= MaxElems,
         NEW n, n = IF free = <<>> THEN allocated + BUCKET_ALLOC_INCR ELSE allocated
  PROVE  /\ n \in 0..MaxElems /\ allocated <= n
         /\ Parted(chain, Refilled, n) /\ Refilled # <<>> /\ nkeys = n - Len(Refilled)
<1>1. /\ allocated \in 0..MaxElems /\ Parted(chain, free, allocated)
      /\ nkeys = allocated - Len(free)
  BY DEF HashInv
<1>2. CASE free # <<>>
  BY <1>1, <1>2, HashConstants DEF Refilled
<1>3. CASE free = <<>>
  <2>1. PICK c \in Nat \ {0} : c = BUCKET_ALLOC_INCR
    BY HashConstants
  <2>2. n = allocated + c /\ n \in 0..MaxElems /\ allocated <= n
    BY <1>1, <1>3, <2>1, HashConstants
  <2>3. PICK fr : fr = Refilled
    OBVIOUS
  <2>4. fr = [i \in 1..c |-> allocated + i]
    BY <1>3, <2>1, <2>3 DEF Refilled
  <2>5. \A i \in 1..c : allocated + i \in 1..n
    BY <1>1, <2>1, <2>2
  <2>6. fr \in Seq(1..n) /\ Len(fr) = c /\ \A i \in 1..c : fr[i] = allocated + i
    BY <2>4, <2>5
  <2>7. \A e \in Chained(chain) : e \in 1..allocated
    BY <1>1 DEF Parted
  <2>8. ASSUME NEW e \in 1..n
        PROVE  e \in Chained(chain) <=> ~\E i \in 1..Len(fr) : fr[i] = e
    <3>1. CASE e <= allocated
      <4>1. e \in 1..allocated
        BY <1>1, <2>2, <3>1
      <4>2. e \in Chained(chain)
        BY <1>1, <1>3, <4>1 DEF Parted
      <4>3. \A i \in 1..c : allocated + i # e
        BY <1>1, <2>1, <3>1
      <4> QED BY <2>6, <4>2, <4>3
    <3>2. CASE ~(e <= allocated)
      <4>1. e \notin Chained(chain)
        BY <1>1, <2>7, <3>2
      <4>2. PICK i \in 1..c : allocated + i = e
        <5>1. e - allocated \in 1..c /\ allocated + (e - allocated) = e
          BY <1>1, <2>1, <2>2, <3>2
        <5> QED BY <5>1
      <4> QED BY <2>6, <4>1, <4>2
    <3> QED BY <3>1, <3>2
  <2>9. \A i, j \in 1..Len(fr) : fr[i] = fr[j] => i = j
    BY <1>1, <2>6
  <2>10. Chained(chain) \subseteq 1..n
    BY <1>1, <2>2, <2>7
  <2>11. Parted(chain, fr, n)
    BY <2>6, <2>8, <2>9, <2>10 DEF Parted
  <2>12. fr # <<>> /\ nkeys = n - Len(fr)
    <3>1. nkeys = allocated
      BY <1>1, <1>3
    <3>2. fr # <<>>
      BY <2>1, <2>6
    <3>3. allocated \in Int /\ c \in Int /\ n = allocated + c /\ Len(fr) = c
      BY <1>1, <2>1, <2>2, <2>6
    <3>4. nkeys = n - Len(fr)
      BY <3>1, <3>3
    <3> QED BY <3>2, <3>4
  <2> QED BY <2>2, <2>3, <2>11, <2>12
<1> QED BY <1>2, <1>3

\* The first free element goes to a chain.
LEMMA TakenParted ==
  ASSUME NEW ch, NEW fr, NEW n \in 0..MaxElems, Parted(ch, fr, n), fr # <<>>
  PROVE  /\ fr[1] \in Elems /\ fr[1] \notin Chained(ch)
         /\ Len(Tail(fr)) \in Nat /\ Len(Tail(fr)) = Len(fr) - 1
         /\ \A ch2 : Chained(ch2) = Chained(ch) \cup {fr[1]} => Parted(ch2, Tail(fr), n)
<1>1. /\ fr \in Seq(1..n) /\ Chained(ch) \subseteq 1..n
      /\ \A e \in 1..n : e \in Chained(ch) <=> ~\E i \in 1..Len(fr) : fr[i] = e
      /\ \A i, j \in 1..Len(fr) : fr[i] = fr[j] => i = j
  BY DEF Parted
<1>2. PICK t : t = Tail(fr)
  OBVIOUS
<1>3. /\ t \in Seq(1..n) /\ Len(t) = Len(fr) - 1 /\ Len(t) \in Nat
      /\ \A i \in 1..Len(t) : t[i] = fr[i + 1]
  BY <1>1, <1>2
<1>4. 1 \in 1..Len(fr) /\ fr[1] \in 1..n
  BY <1>1, <1>3
<1>5. fr[1] \in Elems /\ fr[1] \notin Chained(ch)
  BY <1>1, <1>4, HashConstants DEF Elems
<1>6. ASSUME NEW ch2, Chained(ch2) = Chained(ch) \cup {fr[1]} PROVE Parted(ch2, t, n)
  <2>1. /\ \A i \in 1..Len(t) : i + 1 \in 1..Len(fr) /\ i + 1 # 1
        /\ \A j \in 1..Len(fr) : j # 1 => j - 1 \in 1..Len(t) /\ (j - 1) + 1 = j
    BY <1>3
  <2>2. \A e \in 1..n : (\E i \in 1..Len(t) : t[i] = e)
                        <=> e # fr[1] /\ \E j \in 1..Len(fr) : fr[j] = e
    <3> TAKE e \in 1..n
    <3>1. ASSUME NEW i \in 1..Len(t), t[i] = e
          PROVE  e # fr[1] /\ \E j \in 1..Len(fr) : fr[j] = e
      <4>1. PICK j \in 1..Len(fr) : j = i + 1 /\ j # 1
        BY <2>1
      <4>2. fr[j] = e
        BY <1>3, <3>1, <4>1
      <4> QED BY <1>1, <1>4, <4>1, <4>2
    <3>2. ASSUME NEW j \in 1..Len(fr), fr[j] = e, e # fr[1]
          PROVE  \E i \in 1..Len(t) : t[i] = e
      <4>1. PICK i \in 1..Len(t) : i + 1 = j
        BY <2>1, <3>2
      <4> QED BY <1>3, <3>2, <4>1
    <3> QED BY <3>1, <3>2
  <2>3. ASSUME NEW i \in 1..Len(t), NEW j \in 1..Len(t), t[i] = t[j] PROVE i = j
    <3>1. PICK a \in 1..Len(fr) : a = i + 1
      BY <2>1
    <3>2. PICK b \in 1..Len(fr) : b = j + 1
      BY <2>1
    <3>3. fr[a] = fr[b]
      BY <1>3, <2>3, <3>1, <3>2
    <3>4. a = b
      BY <1>1, <3>3
    <3> QED BY <1>3, <3>1, <3>2, <3>4
  <2>4. \A e \in 1..n : e \in Chained(ch2) <=> ~\E i \in 1..Len(t) : t[i] = e
    BY <1>1, <1>4, <1>6, <2>2
  <2>5. Chained(ch2) \subseteq 1..n
    BY <1>1, <1>4, <1>6
  <2> QED BY <1>3, <2>3, <2>4, <2>5 DEF Parted
<1> QED BY <1>2, <1>3, <1>5, <1>6

\* An element that leaves its chain is put in front of the free list.
LEMMA PutParted ==
  ASSUME NEW ch, NEW fr, NEW n \in 0..MaxElems, Parted(ch, fr, n),
         NEW e \in Chained(ch), NEW ch2, Chained(ch2) = Chained(ch) \ {e}
  PROVE  Parted(ch2, <<e>> \o fr, n) /\ Len(<<e>> \o fr) = Len(fr) + 1
<1>1. /\ fr \in Seq(1..n) /\ Chained(ch) \subseteq 1..n
      /\ \A x \in 1..n : x \in Chained(ch) <=> ~\E i \in 1..Len(fr) : fr[i] = x
      /\ \A i, j \in 1..Len(fr) : fr[i] = fr[j] => i = j
  BY DEF Parted
<1>2. PICK t : t = <<e>> \o fr
  OBVIOUS
<1>3. e \in 1..n /\ Len(fr) \in Nat
  BY <1>1
<1>4. /\ t \in Seq(1..n) /\ Len(t) = Len(fr) + 1 /\ t[1] = e
      /\ \A i \in 1..Len(fr) : t[i + 1] = fr[i]
  BY <1>1, <1>2, <1>3
<1>5. /\ \A i \in 1..Len(fr) : i + 1 \in 1..Len(t) /\ i + 1 # 1
      /\ \A j \in 1..Len(t) : j # 1 => j - 1 \in 1..Len(fr) /\ (j - 1) + 1 = j
      /\ 1 \in 1..Len(t)
  BY <1>3, <1>4
<1>6. \A x \in 1..n : (\E i \in 1..Len(t) : t[i] = x)
                      <=> x = e \/ \E j \in 1..Len(fr) : fr[j] = x
  <2> TAKE x \in 1..n
  <2>1. ASSUME NEW i \in 1..Len(t), t[i] = x
        PROVE  x = e \/ \E j \in 1..Len(fr) : fr[j] = x
    <3>1. CASE i = 1
      BY <1>4, <2>1, <3>1
    <3>2. CASE i # 1
      <4>1. PICK j \in 1..Len(fr) : j + 1 = i
        BY <1>5, <3>2
      <4> QED BY <1>4, <2>1, <4>1
    <3> QED BY <3>1, <3>2
  <2>2. ASSUME NEW j \in 1..Len(fr), fr[j] = x
        PROVE  \E i \in 1..Len(t) : t[i] = x
    <3>1. PICK i \in 1..Len(t) : i = j + 1
      BY <1>5
    <3> QED BY <1>4, <2>2, <3>1
  <2>3. x = e => \E i \in 1..Len(t) : t[i] = x
    BY <1>4, <1>5
  <2> QED BY <2>1, <2>2, <2>3
<1>7. ASSUME NEW i \in 1..Len(t), NEW j \in 1..Len(t), t[i] = t[j] PROVE i = j
  <2>1. \A a \in 1..Len(fr) : fr[a] # e
    BY <1>1, <1>3
  <2>2. CASE i = 1 /\ j = 1
    BY <2>2
  <2>3. CASE i = 1 /\ j # 1
    <3>1. PICK b \in 1..Len(fr) : b + 1 = j
      BY <1>5, <2>3
    <3> QED BY <1>4, <1>7, <2>1, <2>3, <3>1
  <2>4. CASE i # 1 /\ j = 1
    <3>1. PICK a \in 1..Len(fr) : a + 1 = i
      BY <1>5, <2>4
    <3> QED BY <1>4, <1>7, <2>1, <2>4, <3>1
  <2>5. CASE i # 1 /\ j # 1
    <3>1. PICK a \in 1..Len(fr) : a + 1 = i
      BY <1>5, <2>5
    <3>2. PICK b \in 1..Len(fr) : b + 1 = j
      BY <1>5, <2>5
    <3>3. fr[a] = fr[b]
      BY <1>4, <1>7, <3>1, <3>2
    <3>4. a = b
      BY <1>1, <3>3
    <3> QED BY <3>1, <3>2, <3>4
  <2> QED BY <2>2, <2>3, <2>4, <2>5
<1>8. \A x \in 1..n : x \in Chained(ch2) <=> ~\E i \in 1..Len(t) : t[i] = x
  BY <1>1, <1>3, <1>6
<1>9. Chained(ch2) \subseteq 1..n
  BY <1>1
<1>10. Parted(ch2, t, n)
  BY <1>4, <1>7, <1>8, <1>9 DEF Parted
<1> QED BY <1>2, <1>4, <1>10

-----------------------------------------------------------------------------
(* Steps.                                                                  *)

\* Division, of a number that may be negative.
LEMMA HashDivInt ==
  ASSUME NEW l \in Int, NEW c \in Nat \ {0}
  PROVE  /\ l \div c \in Int /\ l % c \in 0..(c - 1)
         /\ l = (l \div c) * c + (l % c)
OBVIOUS

\* A product of a number that is two at least.
LEMMA HashTwice ==
  ASSUME NEW q \in Int, NEW c \in Nat, q >= 2
  PROVE  q * c >= c + c
OBVIOUS

\* A table gets a new bucket only when there are more keys than buckets.
LEMMA FullTable ==
  ASSUME HeaderInv, NEW n \in Int, n \div (max_bucket + 1) > ffactor, n <= MaxElems
  PROVE  max_bucket + 1 < MaxElems /\ max_bucket + 1 \in Buckets
<1>1. PICK c \in Nat \ {0} : c = max_bucket + 1
  BY DEF HeaderInv, Masks
<1>2. PICK q, r : q = n \div c /\ r = n % c
  OBVIOUS
<1>3. q \in Int /\ r \in 0..(c - 1) /\ n = q * c + r
  BY <1>2, HashDivInt
<1>4. q >= 2
  BY <1>1, <1>2, <1>3, HashConstants
<1>5. q * c >= c + c /\ q * c \in Int
  BY <1>3, <1>4, HashTwice
<1>6. c < MaxElems
  BY <1>3, <1>5, HashConstants
<1> QED BY <1>1, <1>6, LastBucket, HashConstants

\* The segment of a new bucket is there or the next one.
LEMMA NextSegment ==
  ASSUME HeaderInv, NEW seg, seg = (max_bucket + 1) \div ssize
  PROVE  /\ seg \in Nat
         /\ seg < nsegs => max_bucket + 1 < nsegs * ssize
         /\ max_bucket + 1 < (nsegs + 1) * ssize
<1>1. PICK m \in Nat : m = max_bucket + 1
  BY DEF HeaderInv, Masks
<1>2. PICK c \in Nat \ {0} : c = ssize
  BY HashConstants
<1>3. PICK r : r = m % c
  OBVIOUS
<1>4. seg \in Nat /\ r \in 0..(c - 1) /\ m = seg * c + r
  BY <1>1, <1>2, <1>3, HashDiv
<1>5. PICK n \in Nat : n = nsegs
  BY DEF HeaderInv
<1>6. n * c \in Nat /\ (n + 1) * c = n * c + c
  BY <1>5, HashMul
<1>7. m <= n * c
  BY <1>1, <1>2, <1>5, <1>6 DEF HeaderInv, Masks
<1>8. m < (n + 1) * c
  BY <1>2, <1>6, <1>7
<1>9. ASSUME seg < n PROVE m < n * c
  <2>1. seg * c \in Nat /\ (seg + 1) * c = seg * c + c
    BY <1>4, HashMul
  <2>2. seg + 1 \in Nat /\ seg + 1 <= n
    BY <1>4, <1>9
  <2>3. (seg + 1) * c <= n * c
    BY <2>2, HashMul
  <2> QED BY <1>4, <1>6, <2>1, <2>3
<1> QED BY <1>1, <1>2, <1>4, <1>5, <1>8, <1>9

\* expand_table splits a bucket.
LEMMA ExpandFilled ==
  ASSUME HeaderInv, hash \in [Keys -> Nat],
         key' \in [Elems -> Keys \cup {Nobody}], present' \subseteq Keys,
         NEW ch, Filled(hash, ch, key', present', max_bucket, low_mask, high_mask),
         max_bucket + 1 \in Buckets, Expand(ch)
  PROVE  /\ Filled(hash, chain', key', present', max_bucket', low_mask', high_mask')
         /\ Chained(chain') = Chained(ch)
         /\ max_bucket' = max_bucket + 1 /\ Masks(max_bucket', low_mask', high_mask')
<1>1. PICK m, lo, hi : m = max_bucket /\ lo = low_mask /\ hi = high_mask
  OBVIOUS
<1>2. PICK new, old : new = m + 1 /\ old = (m + 1) % (lo + 1)
  OBVIOUS
<1>3. PICK lo2, hi2 : /\ lo2 = IF m + 1 > hi THEN hi ELSE lo
                      /\ hi2 = IF m + 1 > hi THEN m + 1 + hi ELSE hi
  OBVIOUS
<1>4. PICK ky, pr : ky = key' /\ pr = present'
  OBVIOUS
<1>5. PICK stay : stay = {e \in Range(ch[old]) : call_hash(hash[ky[e]], new, lo2, hi2) = old}
  OBVIOUS
<1>6. /\ max_bucket' = new /\ low_mask' = lo2 /\ high_mask' = hi2
      /\ chain' = [ch EXCEPT ![old] = Those(ch[old], stay),
                             ![new] = Those(ch[old], Elems \ stay)]
  BY <1>1, <1>2, <1>3, <1>4, <1>5 DEF Expand
<1>7. Masks(m, lo, hi) /\ Filled(hash, ch, ky, pr, m, lo, hi)
  BY <1>1, <1>4 DEF HeaderInv
<1>8. /\ Masks(new, lo2, hi2) /\ TakesOver(m, lo, hi, old, new, lo2, hi2)
  <2>1. /\ Masks(m + 1, lo2, hi2) /\ old \in 0..m
        /\ \A h \in Nat :
             \/ call_hash(h, m + 1, lo2, hi2) = call_hash(h, m, lo, hi)
             \/ call_hash(h, m + 1, lo2, hi2) = m + 1 /\ call_hash(h, m, lo, hi) = old
    BY <1>2, <1>3, <1>7, HashSplits
  <2>2. m \in Nat
    BY <1>7 DEF Masks
  <2> QED BY <1>2, <2>1, <2>2 DEF TakesOver
<1>9. new \in Buckets /\ old \in Buckets /\ old # new
  <2>1. m \in Nat /\ new = m + 1 /\ old \in 0..m
    BY <1>8 DEF TakesOver
  <2> QED BY <1>1, <2>1, LastBucket
<1>10. ch \in [Buckets -> Seq(Elems)] /\ ch[old] \in Seq(Elems)
  BY <1>7, <1>9 DEF Filled
<1>11. \A i, j \in 1..Len(ch[old]) : ch[old][i] = ch[old][j] => i = j
  BY <1>7, <1>9 DEF Filled
<1>12. stay \in SUBSET Elems
  BY <1>5, <1>10 DEF Range
<1>13. PICK ch2 : ch2 = chain'
  OBVIOUS
<1>14. Moved(ch, ch2, old, new, stay)
  BY <1>6, <1>9, <1>10, <1>11, <1>12, <1>13, SplitMoves
<1>15. \A i \in 1..Len(ch[old]) :
         ch[old][i] \in stay <=> call_hash(hash[ky[ch[old][i]]], new, lo2, hi2) = old
  BY <1>5, <1>10 DEF Range
<1>16. ky \in [Elems -> Keys \cup {Nobody}] /\ pr \subseteq Keys
  BY <1>4
<1>17. Filled(hash, ch2, ky, pr, new, lo2, hi2) /\ Chained(ch2) = Chained(ch)
  <2>1. Split(hash, ch, ky, pr, m, lo, hi, old, new, lo2, hi2, stay, ch2)
    BY <1>7, <1>8, <1>9, <1>14, <1>15, <1>16 DEF Split
  <2> QED BY <2>1, MovedFilled
<1> QED BY <1>1, <1>2, <1>4, <1>6, <1>8, <1>13, <1>17

\* A step that leaves the header's sizes alone.
LEMMA SizesSame ==
  ASSUME HeaderInv, UNCHANGED sizeVars, UNCHANGED <<S_CurBucket, S_CurIndex>>,
         allocated \in Nat, allocated' \in Nat, allocated <= allocated'
  PROVE  HeaderInv'
BY HashConstants DEF HeaderInv, Masks, sizeVars

\* hash_search, HASH_ENTER.
LEMMA EnterKeeps ==
  ASSUME HashInv, NEW k \in Keys, HashEnter(k)
  PROVE  HashInv'
<1>0. /\ hash \in [Keys -> Nat] /\ key \in [Elems -> Keys \cup {Nobody}]
      /\ allocated \in 0..MaxElems /\ present \subseteq Keys
      /\ Filled(hash, chain, key, present, max_bucket, low_mask, high_mask)
      /\ HeaderInv
  BY DEF HashInv
<1>1. k \notin present
  BY FindIs DEF HashEnter
<1>2. /\ allocated' \in 0..MaxElems /\ allocated <= allocated'
      /\ Parted(chain, Refilled, allocated') /\ Refilled # <<>>
      /\ nkeys = allocated' - Len(Refilled)
  BY RefilledParted DEF HashEnter
<1>3. PICK e : e = Refilled[1]
  OBVIOUS
<1>4. /\ e \in Elems /\ e \notin Chained(chain)
      /\ free' = Tail(Refilled)
      /\ Len(free') \in Nat /\ Len(free') = Len(Refilled) - 1
      /\ \A ch2 : Chained(ch2) = Chained(chain) \cup {e} => Parted(ch2, free', allocated')
  BY <1>2, <1>3, TakenParted DEF HashEnter
<1>5. PICK b \in Buckets : b = Bucket(k)
  BY BucketIs
<1>6. PICK ch : ch = [chain EXCEPT ![b] = Append(@, e)]
  OBVIOUS
<1>7. /\ key' = [key EXCEPT ![e] = k] /\ present' = present \cup {k}
      /\ nkeys' = nkeys + 1
      /\ hash' = hash /\ S_CurBucket' = S_CurBucket /\ S_CurIndex' = S_CurIndex
  BY <1>3 DEF HashEnter, scanVars
<1>8. /\ IF (nkeys + 1) \div (max_bucket + 1) > ffactor
         THEN expand_table(ch)
         ELSE chain' = ch /\ UNCHANGED sizeVars
  BY <1>3, <1>5, <1>6 DEF HashEnter
<1>9. b = call_hash(hash[k], max_bucket, low_mask, high_mask)
  BY <1>5 DEF Bucket
<1>10. /\ Filled(hash, ch, key', present', max_bucket, low_mask, high_mask)
       /\ Chained(ch) = Chained(chain) \cup {e}
  <2>1. PICK ky2 : ky2 = key'
    OBVIOUS
  <2>2. Entered(hash, chain, key, present, max_bucket, low_mask, high_mask, k, e, b, ch, ky2)
    BY <1>0, <1>1, <1>4, <1>6, <1>7, <1>9, <2>1 DEF Entered
  <2> QED BY <1>7, <2>1, <2>2, EnteredFilled
<1>11. key' \in [Elems -> Keys \cup {Nobody}] /\ present' \subseteq Keys
       /\ hash' \in [Keys -> Nat]
  BY <1>0, <1>4, <1>7
<1>12. nkeys' = allocated' - Len(free')
  <2>1. allocated' \in Int /\ Len(Refilled) \in Int
    BY <1>2, <1>4 DEF Parted
  <2> QED BY <1>2, <1>4, <1>7, <2>1
<1>13. ASSUME Filled(hash, chain', key', present', max_bucket', low_mask', high_mask'),
              Chained(chain') = Chained(ch), HeaderInv'
       PROVE  HashInv'
  <2>1. Parted(chain', free', allocated')
    BY <1>4, <1>10, <1>13
  <2>2. Filled(hash', chain', key', present', max_bucket', low_mask', high_mask')
    BY <1>7, <1>13
  <2> QED BY <1>2, <1>11, <1>12, <1>13, <2>1, <2>2 DEF HashInv
<1>14. CASE chain' = ch /\ UNCHANGED sizeVars
  <2>1. HeaderInv'
    BY <1>0, <1>2, <1>7, <1>14, SizesSame
  <2>2. Filled(hash, chain', key', present', max_bucket', low_mask', high_mask')
    BY <1>10, <1>14 DEF sizeVars
  <2> QED BY <1>13, <1>14, <2>1, <2>2
<1>15. CASE (nkeys + 1) \div (max_bucket + 1) > ffactor /\ expand_table(ch)
  <2>1. max_bucket + 1 < MaxElems /\ max_bucket + 1 \in Buckets
    <3>1. nkeys + 1 \in Int /\ nkeys + 1 <= MaxElems
      BY <1>2, <1>4, <1>7, <1>12, HashConstants
    <3> QED BY <1>0, <1>15, <3>1, FullTable
  <2>2. PICK seg : seg = (max_bucket + 1) \div ssize
    OBVIOUS
  <2>3. /\ seg \in Nat
        /\ seg < nsegs => max_bucket + 1 < nsegs * ssize
        /\ max_bucket + 1 < (nsegs + 1) * ssize
    BY <1>0, <2>2, NextSegment
  <2>4. /\ nsegs \in Nat /\ dsize \in Nat \ {0} /\ nsegs <= dsize
        /\ max_bucket < nsegs * ssize
        /\ S_CurBucket \in 0..(max_bucket + 1) /\ S_CurIndex \in 0..allocated
        /\ max_bucket \in Nat
    BY <1>0 DEF HeaderInv, Masks
  <2>5. ASSUME Expand(ch), nsegs' \in Nat, dsize' \in Nat \ {0}, nsegs' <= dsize',
               max_bucket + 1 < nsegs' * ssize
        PROVE  HashInv'
    <3>1. /\ Filled(hash, chain', key', present', max_bucket', low_mask', high_mask')
          /\ Chained(chain') = Chained(ch)
          /\ max_bucket' = max_bucket + 1 /\ Masks(max_bucket', low_mask', high_mask')
      BY <1>0, <1>10, <1>11, <2>1, <2>5, ExpandFilled
    <3>2. S_CurBucket' \in 0..(max_bucket' + 1) /\ S_CurIndex' \in 0..allocated'
      BY <1>0, <1>2, <1>7, <2>4, <3>1
    <3>3. HeaderInv'
      BY <2>1, <2>5, <3>1, <3>2 DEF HeaderInv
    <3> QED BY <1>13, <3>1, <3>3
  <2>6. CASE seg < nsegs /\ Expand(ch) /\ UNCHANGED <<nsegs, dsize>>
    BY <2>3, <2>4, <2>5, <2>6
  <2>7. CASE seg >= nsegs /\ NewSegment(seg) /\ Expand(ch)
    <3>1. nsegs' = nsegs + 1 /\ dsize' = IF seg >= dsize THEN 2 * dsize ELSE dsize
      BY <2>7 DEF NewSegment
    <3>2. nsegs' \in Nat /\ dsize' \in Nat \ {0} /\ nsegs' <= dsize'
      BY <2>3, <2>4, <2>7, <3>1
    <3>3. max_bucket + 1 < nsegs' * ssize
      BY <2>3, <3>1
    <3> QED BY <2>5, <2>7, <3>2, <3>3
  <2>8. CASE /\ chain' = ch /\ dsize' \in {dsize, 2 * dsize}
             /\ UNCHANGED <<max_bucket, low_mask, high_mask, nsegs>>
    <3>1. Filled(hash, chain', key', present', max_bucket', low_mask', high_mask')
      BY <1>10, <2>8
    <3>2. dsize' \in Nat \ {0} /\ nsegs <= dsize'
      BY <2>4, <2>8
    <3>3. S_CurIndex' \in 0..allocated'
      BY <1>0, <1>2, <1>7, <2>4
    <3>4. HeaderInv'
      BY <1>0, <1>7, <2>8, <3>2, <3>3 DEF HeaderInv
    <3> QED BY <1>13, <2>8, <3>1, <3>4
  <2> QED BY <1>15, <2>2, <2>6, <2>7, <2>8 DEF expand_table
<1> QED BY <1>8, <1>14, <1>15

\* The same up to the failing assertion.
LEMMA AbortKeeps ==
  ASSUME HashInv, NEW k \in Keys, EnterAborts(k)
  PROVE  HashInv'
<1>1. /\ hash \in [Keys -> Nat] /\ key \in [Elems -> Keys \cup {Nobody}]
      /\ allocated \in 0..MaxElems /\ present \subseteq Keys
      /\ Filled(hash, chain, key, present, max_bucket, low_mask, high_mask)
      /\ HeaderInv
  BY DEF HashInv
<1>2. /\ allocated' \in 0..MaxElems /\ allocated <= allocated'
      /\ Parted(chain, Refilled, allocated') /\ nkeys = allocated' - Len(Refilled)
  BY RefilledParted DEF EnterAborts
<1>3. /\ UNCHANGED <<hash, key, chain, nkeys, present>> /\ UNCHANGED sizeVars
      /\ UNCHANGED <<S_CurBucket, S_CurIndex>> /\ free' = Refilled
  BY DEF EnterAborts, scanVars
<1>4. HeaderInv'
  BY <1>1, <1>2, <1>3, SizesSame
<1>5. Filled(hash', chain', key', present', max_bucket', low_mask', high_mask')
  BY <1>1, <1>3 DEF sizeVars
<1> QED BY <1>1, <1>2, <1>3, <1>4, <1>5 DEF HashInv

\* hash_search, HASH_REMOVE.
LEMMA RemoveKeeps ==
  ASSUME HashInv, NEW k \in Keys, HashRemove(k)
  PROVE  HashInv'
<1>1. /\ hash \in [Keys -> Nat] /\ key \in [Elems -> Keys \cup {Nobody}]
      /\ allocated \in 0..MaxElems /\ present \subseteq Keys
      /\ Filled(hash, chain, key, present, max_bucket, low_mask, high_mask)
      /\ Parted(chain, free, allocated) /\ nkeys = allocated - Len(free)
      /\ HeaderInv
  BY DEF HashInv
<1>2. k \in present
  BY FindIs DEF HashRemove
<1>3. PICK b \in Buckets : b = Bucket(k)
  BY BucketIs
<1>4. PICK p \in 1..Len(chain[b]) : /\ p = Position(k) /\ Find(k) = chain[b][p]
                                    /\ key[chain[b][p]] = k
  BY <1>2, <1>3, FindIs
<1>5. PICK e : e = chain[b][p]
  OBVIOUS
<1>6. /\ chain' = [chain EXCEPT ![b] = RemoveAt(@, p)]
      /\ free' = <<e>> \o free /\ key' = [key EXCEPT ![e] = Nobody]
      /\ nkeys' = nkeys - 1 /\ present' = present \ {key[e]}
      /\ UNCHANGED <<hash, allocated>> /\ UNCHANGED sizeVars
      /\ UNCHANGED <<S_CurBucket, S_CurIndex>>
  BY <1>3, <1>4, <1>5 DEF HashRemove
<1>7. PICK ch2, ky2 : ch2 = chain' /\ ky2 = key'
  OBVIOUS
<1>8. /\ Filled(hash, ch2, ky2, present \ {key[e]}, max_bucket, low_mask, high_mask)
      /\ Chained(ch2) = Chained(chain) \ {e} /\ e \in Chained(chain)
  <2>1. Unlinked(hash, chain, key, present, max_bucket, low_mask, high_mask, b, p, e, ch2, ky2)
    BY <1>1, <1>5, <1>6, <1>7 DEF Unlinked
  <2> QED BY <2>1, RemovedFilled
<1>9. Parted(ch2, free', allocated) /\ Len(free') = Len(free) + 1
  BY <1>1, <1>6, <1>8, PutParted
<1>10. key' \in [Elems -> Keys \cup {Nobody}] /\ present' \subseteq Keys
  BY <1>1, <1>6
<1>11. nkeys' = allocated' - Len(free')
  <2>1. allocated \in Int /\ Len(free) \in Int
    BY <1>1 DEF Parted
  <2> QED BY <1>1, <1>6, <1>9, <2>1
<1>12. HeaderInv'
  BY <1>1, <1>6, SizesSame
<1>13. Filled(hash', chain', key', present', max_bucket', low_mask', high_mask')
  BY <1>6, <1>7, <1>8 DEF sizeVars
<1>14. Parted(chain', free', allocated')
  BY <1>6, <1>7, <1>9
<1> QED BY <1>1, <1>6, <1>10, <1>11, <1>12, <1>13, <1>14 DEF HashInv

\* hash_create.
LEMMA HashInitInv == HashInit => HashInv
<1> SUFFICES ASSUME HashInit PROVE HashInv
  OBVIOUS
<1>1. PICK n \in Nat \ {0} : n = nbuckets
  BY HashConstants
<1>2. PICK c \in Nat \ {0} : c = ssize
  BY HashConstants
<1>3. PICK q : q = (n - 1) \div c
  OBVIOUS
<1>4. q \in Nat /\ n - 1 \in Nat /\ n - 1 < (q + 1) * c
  <2>1. n - 1 \in Nat
    BY <1>1
  <2>2. PICK r : r = (n - 1) % c
    OBVIOUS
  <2>3. q \in Nat /\ r \in 0..(c - 1) /\ n - 1 = q * c + r
    BY <1>2, <1>3, <2>1, <2>2, HashDiv
  <2>4. (q + 1) * c = q * c + c /\ q * c \in Nat
    BY <1>2, <2>3, HashMul
  <2> QED BY <1>2, <2>1, <2>3, <2>4
<1>5. PICK segs \in Nat \ {0} : segs = PowerAbove(q + 1) /\ segs >= q + 1
  BY <1>4, PowerAboveIs
<1>6. n - 1 < segs * c
  <2>1. (q + 1) * c <= segs * c /\ (q + 1) * c \in Nat /\ segs * c \in Nat
    BY <1>2, <1>4, <1>5, HashMul
  <2> QED BY <1>4, <2>1
<1>7. /\ hash \in [Keys -> 0..MaxHash] /\ key = [e \in Elems |-> Nobody]
      /\ chain = [b \in Buckets |-> <<>>] /\ free = <<>> /\ allocated = 0
      /\ max_bucket = n - 1 /\ low_mask = n - 1 /\ high_mask = 2 * n - 1
      /\ nsegs = segs /\ dsize = (IF segs > dirsize THEN segs ELSE dirsize) /\ nkeys = 0
      /\ S_CurBucket = 0 /\ S_CurIndex = 0 /\ present = {}
  BY <1>1, <1>2, <1>3, <1>5 DEF HashInit, INVALID_INDEX
<1>8. HeaderInv
  <2>1. Masks(max_bucket, low_mask, high_mask) /\ max_bucket < nbuckets
    BY <1>1, <1>7 DEF Masks
  <2>2. nsegs \in Nat /\ dsize \in Nat \ {0} /\ nsegs <= dsize
    BY <1>5, <1>7, HashConstants
  <2>3. max_bucket < nsegs * ssize
    BY <1>2, <1>6, <1>7
  <2>4. S_CurBucket \in 0..(max_bucket + 1) /\ S_CurIndex \in 0..allocated
    BY <1>1, <1>7
  <2> QED BY <2>1, <2>2, <2>3, <2>4 DEF HeaderInv
<1>9. \A b \in Buckets : 1..Len(chain[b]) = {}
  BY <1>7
<1>10. Filled(hash, chain, key, present, max_bucket, low_mask, high_mask)
  BY <1>7, <1>9 DEF Filled
<1>11. Parted(chain, free, allocated)
  <2>1. Chained(chain) = {}
    BY <1>9 DEF Chained
  <2>2. 1..allocated = {} /\ 1..Len(free) = {} /\ free \in Seq(1..allocated)
    BY <1>7
  <2> QED BY <2>1, <2>2 DEF Parted
<1>12. hash \in [Keys -> Nat] /\ key \in [Elems -> Keys \cup {Nobody}]
       /\ allocated \in 0..MaxElems /\ present \subseteq Keys /\ nkeys = allocated - Len(free)
  <2>1. \A h \in 0..MaxHash : h \in Nat
    BY HashConstants
  <2>2. hash \in [Keys -> Nat]
    BY <1>7, <2>1
  <2>3. key \in [Elems -> Keys \cup {Nobody}]
    BY <1>7
  <2>4. allocated \in 0..MaxElems /\ present \subseteq Keys /\ nkeys = allocated - Len(free)
    <3>1. Len(free) = 0 /\ allocated = 0 /\ nkeys = 0 /\ present = {}
      BY <1>7
    <3> QED BY <3>1, HashConstants
  <2> QED BY <2>2, <2>3, <2>4
<1> QED BY <1>8, <1>10, <1>11, <1>12 DEF HashInv

-----------------------------------------------------------------------------
(* hash_seq.                                                               *)

\* The scan has still to come to place i of bucket b when it is to go on with
\* element ci of bucket cb, or with the start of that bucket.
Ahead(ch, cb, ci, b, i) ==
  \/ b > cb
  \/ b = cb /\ (ci = INVALID_INDEX \/ \E p \in 1..i : ch[b][p] = ci)

\* The keys that are due are those the scan has still to come to.
ScanHas(ch, ky, pr, du, cb, ci, la) ==
  /\ du \subseteq pr /\ la \notin du
  /\ ci # INVALID_INDEX => cb \in Buckets /\ \E p \in 1..Len(ch[cb]) : ch[cb][p] = ci
  /\ \A b \in Buckets : \A i \in 1..Len(ch[b]) :
       ky[ch[b][i]] \in du <=> Ahead(ch, cb, ci, b, i)

ScanInv == scanning => ScanHas(chain, key, present, due, S_CurBucket, S_CurIndex, last)

\* No element is in two places.
LEMMA OnePlace ==
  ASSUME NEW hs, NEW ch, NEW ky, NEW pr, NEW m, NEW lo, NEW hi, Filled(hs, ch, ky, pr, m, lo, hi)
  PROVE  \A b, c \in Buckets : \A i \in 1..Len(ch[b]) : \A j \in 1..Len(ch[c]) :
           ch[b][i] = ch[c][j] => b = c /\ i = j
BY DEF Filled

\* The next field of an element of a chain.
LEMMA NextOfIs ==
  ASSUME HashInv, NEW b \in Buckets, NEW p \in 1..Len(chain[b])
  PROVE  /\ chain[b] \in Seq(Elems)
         /\ NextOf(chain[b][p]) = IF p = Len(chain[b]) THEN INVALID_INDEX ELSE chain[b][p + 1]
<1>1. Filled(hash, chain, key, present, max_bucket, low_mask, high_mask)
      /\ Parted(chain, free, allocated)
  BY DEF HashInv
<1>2. PICK e : e = chain[b][p]
  OBVIOUS
<1>3. chain \in [Buckets -> Seq(Elems)] /\ chain[b] \in Seq(Elems)
      /\ e \in Elems /\ e \in Chained(chain)
  BY <1>1, <1>2, ChainElem DEF Filled
<1>4. \A c \in Buckets : \A j \in 1..Len(chain[c]) : chain[c][j] = e => c = b /\ j = p
  BY <1>1, <1>2, OnePlace
<1>5. ~\E i \in 1..Len(free) : free[i] = e
  BY <1>1, <1>3 DEF Parted
<1>6. NextOf(e) = Successor(chain[CHOOSE c \in Buckets :
                                    \E i \in 1..Len(chain[c]) : chain[c][i] = e], e)
  BY <1>5 DEF NextOf
<1>7. (CHOOSE c \in Buckets : \E i \in 1..Len(chain[c]) : chain[c][i] = e) = b
  BY <1>2, <1>4
<1>8. PICK s : s = chain[b]
  OBVIOUS
<1>9. NextOf(e) = Successor(s, e)
  BY <1>6, <1>7, <1>8
<1>10. PICK i : i = CHOOSE j \in 1..Len(s) : s[j] = e
  OBVIOUS
<1>11. i = p
  BY <1>2, <1>4, <1>8, <1>10
<1>12. Successor(s, e) = IF i = Len(s) THEN INVALID_INDEX ELSE s[i + 1]
  BY <1>10 DEF Successor
<1> QED BY <1>2, <1>3, <1>8, <1>9, <1>11, <1>12

\* Place p of bucket b is the first one ahead; the scan is to go on behind it.
Stands(ch, ky, cb, ci, b, p, cb2, ci2) ==
  /\ ch \in [Buckets -> Seq(Elems)]
  /\ \A x, c \in Buckets : \A i \in 1..Len(ch[x]) : \A j \in 1..Len(ch[c]) :
       ky[ch[x][i]] = ky[ch[c][j]] => x = c /\ i = j
  /\ b \in Buckets /\ p \in 1..Len(ch[b])
  /\ \A c \in Buckets : \A i \in 1..Len(ch[c]) :
       Ahead(ch, cb, ci, c, i) <=> c > b \/ (c = b /\ i >= p)
  /\ ci2 = IF p = Len(ch[b]) THEN INVALID_INDEX ELSE ch[b][p + 1]
  /\ cb2 = IF ci2 = INVALID_INDEX THEN b + 1 ELSE b

\* hash_seq goes on: the key of that place is not due any more, and what is
\* due is what is ahead of the new place.
LEMMA GiveScans ==
  ASSUME NEW ch, NEW ky, NEW pr, NEW du, NEW cb, NEW ci, NEW la, NEW b, NEW p, NEW cb2, NEW ci2,
         ScanHas(ch, ky, pr, du, cb, ci, la), Stands(ch, ky, cb, ci, b, p, cb2, ci2)
  PROVE  /\ ky[ch[b][p]] \in du
         /\ ScanHas(ch, ky, pr, du \ {ky[ch[b][p]]}, cb2, ci2, ky[ch[b][p]])
<1>1. \A x \in Buckets : x \in Nat
  BY HashConstants
<1>0. /\ ch \in [Buckets -> Seq(Elems)] /\ b \in Buckets /\ p \in 1..Len(ch[b])
      /\ ci2 = IF p = Len(ch[b]) THEN INVALID_INDEX ELSE ch[b][p + 1]
      /\ cb2 = IF ci2 = INVALID_INDEX THEN b + 1 ELSE b
  BY DEF Stands
<1>2. ch[b] \in Seq(Elems) /\ p \in Nat /\ p >= 1 /\ p <= Len(ch[b]) /\ b \in Nat
  BY <1>0, <1>1
<1>3. ky[ch[b][p]] \in du
  <2>1. Ahead(ch, cb, ci, b, p)
    BY <1>0, <1>2 DEF Stands
  <2> QED BY <1>0, <2>1 DEF ScanHas
<1>4. p # Len(ch[b]) => /\ p + 1 \in 1..Len(ch[b]) /\ ci2 = ch[b][p + 1]
                        /\ ci2 # INVALID_INDEX /\ cb2 = b
  <2> SUFFICES ASSUME p # Len(ch[b])
               PROVE  /\ p + 1 \in 1..Len(ch[b]) /\ ci2 = ch[b][p + 1]
                      /\ ci2 # INVALID_INDEX /\ cb2 = b
    OBVIOUS
  <2>1. p + 1 \in 1..Len(ch[b]) /\ ci2 = ch[b][p + 1]
    BY <1>0, <1>2
  <2>2. ch[b][p + 1] \in Elems
    BY <1>2, <2>1
  <2>3. 0 \notin Elems
    BY HashConstants DEF Elems
  <2> QED BY <1>0, <2>1, <2>2, <2>3 DEF INVALID_INDEX
<1>5. p = Len(ch[b]) => ci2 = INVALID_INDEX /\ cb2 = b + 1
  BY <1>0
<1>6. ASSUME NEW c \in Buckets, NEW i \in 1..Len(ch[c])
      PROVE  Ahead(ch, cb2, ci2, c, i) <=> Ahead(ch, cb, ci, c, i) /\ ~(c = b /\ i = p)
  <2>1. i \in Nat /\ c \in Nat /\ i <= Len(ch[c])
    <3>1. ch[c] \in Seq(Elems)
      BY <1>0
    <3> QED BY <1>1, <3>1
  <2>2. Ahead(ch, cb, ci, c, i) <=> c > b \/ (c = b /\ i >= p)
    BY DEF Stands
  <2>3. CASE p = Len(ch[b])
    <3>1. Ahead(ch, cb2, ci2, c, i) <=> c > b
      BY <1>2, <1>5, <2>1, <2>3 DEF Ahead
    <3>2. c = b => (i = p <=> i >= p)
      BY <1>2, <2>1, <2>3
    <3>3. c > b => c # b
      BY <1>2, <2>1
    <3> QED BY <2>2, <3>1, <3>2, <3>3
  <2>4. CASE p # Len(ch[b])
    <3>1. c = b => ((\E q \in 1..i : ch[b][q] = ci2) <=> i >= p + 1)
      <4> SUFFICES ASSUME c = b PROVE (\E q \in 1..i : ch[b][q] = ci2) <=> i >= p + 1
        OBVIOUS
      <4>1. \A q \in 1..i : q \in 1..Len(ch[b])
        BY <1>2, <2>1
      <4>2. \A q \in 1..i : ch[b][q] = ci2 => q = p + 1
        <5>1. PICK r \in 1..Len(ch[b]) : r = p + 1 /\ ci2 = ch[b][r]
          BY <1>4, <2>4
        <5>2. \A q \in 1..Len(ch[b]) : ch[b][q] = ch[b][r] => q = r
          BY <1>0 DEF Stands
        <5> QED BY <4>1, <5>1, <5>2
      <4>3. i >= p + 1 => p + 1 \in 1..i
        BY <1>2, <2>1
      <4> QED BY <1>2, <1>4, <2>1, <2>4, <4>2, <4>3
    <3>2. cb2 = b /\ ci2 # INVALID_INDEX
      BY <1>4, <2>4
    <3>3. Ahead(ch, cb2, ci2, c, i) <=> c > b \/ (c = b /\ \E q \in 1..i : ch[b][q] = ci2)
      BY <3>2 DEF Ahead
    <3>4. i >= p + 1 <=> i >= p /\ i # p
      BY <1>2, <2>1
    <3>5. c > b => c # b
      BY <1>2, <2>1
    <3>6. CASE c = b
      BY <2>2, <3>1, <3>3, <3>4, <3>5, <3>6
    <3>7. CASE c # b
      BY <2>2, <3>3, <3>7
    <3> QED BY <3>6, <3>7
  <2> QED BY <2>3, <2>4
<1>7. ASSUME NEW c \in Buckets, NEW i \in 1..Len(ch[c])
      PROVE  ky[ch[c][i]] \in du \ {ky[ch[b][p]]} <=> Ahead(ch, cb2, ci2, c, i)
  <2>1. ky[ch[c][i]] \in du <=> Ahead(ch, cb, ci, c, i)
    BY DEF ScanHas
  <2>2. ky[ch[c][i]] = ky[ch[b][p]] <=> c = b /\ i = p
    BY <1>0 DEF Stands
  <2> QED BY <1>6, <2>1, <2>2
<1>8. ci2 # INVALID_INDEX => cb2 \in Buckets /\ \E q \in 1..Len(ch[cb2]) : ch[cb2][q] = ci2
  BY <1>0, <1>4, <1>5
<1>9. du \ {ky[ch[b][p]]} \subseteq pr
  BY DEF ScanHas
<1> QED BY <1>3, <1>7, <1>8, <1>9 DEF ScanHas

\* The key that was returned last is removed: what is due stays ahead.
LEMMA RemovedScans ==
  ASSUME NEW ch, NEW ky, NEW pr, NEW m, NEW lo, NEW hi, NEW b, NEW p, NEW e, NEW ch2, NEW ky2,
         Unlinked(hash, ch, ky, pr, m, lo, hi, b, p, e, ch2, ky2),
         NEW du, NEW cb, NEW ci, NEW la, ScanHas(ch, ky, pr, du, cb, ci, la), ky[e] = la
  PROVE  ScanHas(ch2, ky2, pr \ {la}, du \ {la}, cb, ci, la)
<1>1. /\ Filled(hash, ch, ky, pr, m, lo, hi) /\ ky \in [Elems -> Keys \cup {Nobody}]
      /\ b \in Buckets /\ p \in 1..Len(ch[b]) /\ e = ch[b][p]
      /\ ch2 = [ch EXCEPT ![b] = RemoveAt(@, p)] /\ ky2 = [ky EXCEPT ![e] = Nobody]
  BY DEF Unlinked
<1>2. /\ du \subseteq pr /\ la \notin du
      /\ ci # INVALID_INDEX => cb \in Buckets /\ \E q \in 1..Len(ch[cb]) : ch[cb][q] = ci
      /\ \A x \in Buckets : \A i \in 1..Len(ch[x]) :
           ky[ch[x][i]] \in du <=> Ahead(ch, cb, ci, x, i)
  BY DEF ScanHas
<1>3. ch \in [Buckets -> Seq(Elems)] /\ \A x \in Buckets : ch[x] \in Seq(Elems)
  BY <1>1 DEF Filled
<1>4. \A x, c \in Buckets : \A i \in 1..Len(ch[x]) : \A j \in 1..Len(ch[c]) :
        ch[x][i] = ch[c][j] => x = c /\ i = j
  BY <1>1, OnePlace
<1>5. ~Ahead(ch, cb, ci, b, p)
  BY <1>1, <1>2
<1>6. PICK s, t : s = ch[b] /\ t = RemoveAt(s, p)
  OBVIOUS
<1>7. /\ s \in Seq(Elems) /\ p \in 1..Len(s) /\ Len(s) \in Nat
      /\ t \in Seq(Elems) /\ Len(t) = Len(s) - 1
      /\ \A i \in 1..Len(t) : t[i] = IF i < p THEN s[i] ELSE s[i + 1]
  <2>1. s \in Seq(Elems) /\ p \in 1..Len(s) /\ Len(s) \in Nat
    BY <1>1, <1>3, <1>6
  <2>2. /\ t \in Seq(Elems) /\ Len(t) = Len(s) - 1
        /\ \A i \in 1..Len(t) : t[i] = IF i < p THEN s[i] ELSE s[i + 1]
    <3>1. t = RemoveAt(s, p)
      BY <1>6
    <3>2. s \in Seq(Elems) /\ p \in 1..Len(s)
      BY <2>1
    <3> QED BY ONLY <3>1, <3>2, RemoveAtIs
  <2> QED BY <2>1, <2>2
<1>8. /\ ch2 \in [Buckets -> Seq(Elems)] /\ ch2[b] = t
      /\ \A x \in Buckets : x # b => ch2[x] = ch[x]
  BY <1>1, <1>3, <1>6, <1>7
\* Place i of the chain was place a before.
<1> DEFINE from(i) == IF i < p THEN i ELSE i + 1
<1> DEFINE to(i) == IF i < p THEN i ELSE i - 1
<1>9. \A i \in 1..Len(t) : from(i) \in 1..Len(s) /\ from(i) # p /\ t[i] = s[from(i)]
  BY <1>7
<1>10. \A i \in 1..Len(t) :
         /\ \A q \in 1..i : q \in 1..Len(t) /\ from(q) \in 1..from(i)
         /\ \A q \in 1..from(i) : q # p => to(q) \in 1..i /\ from(to(q)) = q
  BY <1>7
<1>11. \A q \in 1..Len(s) : q # p => to(q) \in 1..Len(t) /\ from(to(q)) = q
  BY <1>7
<1> HIDE DEF from, to
\* Where the scan stands has not been removed.
<1>12. ci # INVALID_INDEX => ci # s[p]
  <2> SUFFICES ASSUME ci # INVALID_INDEX, ci = s[p] PROVE FALSE
    OBVIOUS
  <2>1. PICK q \in 1..Len(ch[cb]) : ch[cb][q] = ci
    BY <1>2
  <2>2. cb = b /\ q = p
    BY <1>1, <1>2, <1>4, <1>6, <2>1
  <2>3. p \in 1..p
    BY <1>7
  <2> QED BY <1>5, <2>1, <2>2, <2>3 DEF Ahead
<1>13. ASSUME NEW i \in 1..Len(t), ci # INVALID_INDEX
       PROVE  (\E q \in 1..i : t[q] = ci) <=> \E q \in 1..from(i) : s[q] = ci
  <2>1. ASSUME NEW q \in 1..i, t[q] = ci PROVE \E r \in 1..from(i) : s[r] = ci
    <3>1. from(q) \in 1..from(i) /\ s[from(q)] = ci
      BY <1>9, <1>10, <2>1
    <3> QED BY <3>1
  <2>2. ASSUME NEW q \in 1..from(i), s[q] = ci PROVE \E r \in 1..i : t[r] = ci
    <3>1. q # p
      BY <1>12, <1>13, <2>2
    <3>2. to(q) \in 1..i /\ from(to(q)) = q
      BY <1>10, <3>1
    <3>3. t[to(q)] = s[q]
      BY <1>9, <1>10, <3>2
    <3> QED BY <2>2, <3>2, <3>3
  <2> QED BY <2>1, <2>2
<1>14. ASSUME NEW x \in Buckets, NEW i \in 1..Len(ch2[x])
       PROVE  \E a \in 1..Len(ch[x]) :
                /\ ch2[x][i] = ch[x][a] /\ ~(x = b /\ a = p)
                /\ Ahead(ch2, cb, ci, x, i) <=> Ahead(ch, cb, ci, x, a)
  <2>1. CASE x # b
    <3>1. ch2[x] = ch[x]
      BY <1>8, <2>1
    <3>2. Ahead(ch2, cb, ci, x, i) <=> Ahead(ch, cb, ci, x, i)
      BY <3>1 DEF Ahead
    <3> QED BY <2>1, <3>1, <3>2
  <2>2. CASE x = b
    <3>1. i \in 1..Len(t) /\ ch2[x] = t /\ ch[x] = s
      BY <1>6, <1>8, <2>2
    <3>2. PICK a \in 1..Len(s) : a = from(i)
      BY <1>9, <3>1
    <3>3. a # p /\ t[i] = s[a]
      BY <1>9, <3>1, <3>2
    <3>4. Ahead(ch2, cb, ci, x, i) <=> Ahead(ch, cb, ci, x, a)
      <4>1. CASE ci = INVALID_INDEX
        BY <4>1 DEF Ahead
      <4>2. CASE ci # INVALID_INDEX
        BY <1>13, <3>1, <3>2, <4>2 DEF Ahead
      <4> QED BY <4>1, <4>2
    <3> QED BY <3>1, <3>2, <3>3, <3>4
  <2> QED BY <2>1, <2>2
<1>15. ASSUME NEW x \in Buckets, NEW i \in 1..Len(ch2[x])
       PROVE  ky2[ch2[x][i]] \in du \ {la} <=> Ahead(ch2, cb, ci, x, i)
  <2>1. PICK a \in 1..Len(ch[x]) :
          /\ ch2[x][i] = ch[x][a] /\ ~(x = b /\ a = p)
          /\ Ahead(ch2, cb, ci, x, i) <=> Ahead(ch, cb, ci, x, a)
    BY <1>14
  <2>2. ch[x][a] # e /\ ch[x][a] \in Elems
    BY <1>1, <1>3, <1>4, <2>1, ChainElem
  <2>3. ky2[ch2[x][i]] = ky[ch[x][a]]
    BY <1>1, <2>1, <2>2
  <2> QED BY <1>2, <2>1, <2>3
<1>16. ci # INVALID_INDEX => cb \in Buckets /\ \E q \in 1..Len(ch2[cb]) : ch2[cb][q] = ci
  <2> SUFFICES ASSUME ci # INVALID_INDEX
               PROVE  cb \in Buckets /\ \E q \in 1..Len(ch2[cb]) : ch2[cb][q] = ci
    OBVIOUS
  <2>1. PICK q \in 1..Len(ch[cb]) : ch[cb][q] = ci
    BY <1>2
  <2>2. CASE cb # b
    BY <1>2, <1>8, <2>1, <2>2
  <2>3. CASE cb = b
    <3>1. q \in 1..Len(s) /\ q # p
      BY <1>6, <1>12, <2>1, <2>3
    <3>2. to(q) \in 1..Len(t) /\ t[to(q)] = s[q]
      BY <1>9, <1>11, <3>1
    <3> QED BY <1>2, <1>6, <1>8, <2>1, <2>3, <3>2
  <2> QED BY <2>2, <2>3
<1>17. du \ {la} \subseteq pr \ {la} /\ la \notin du \ {la}
  BY <1>2
<1> QED BY <1>15, <1>16, <1>17 DEF ScanHas

\* hash_search, HASH_REMOVE, of what a scan has just returned.
LEMMA RemoveScans ==
  ASSUME HashInv, ScanInv, NEW k \in Keys, HashRemove(k)
  PROVE  ScanInv'
<1>1. /\ key \in [Elems -> Keys \cup {Nobody}]
      /\ Filled(hash, chain, key, present, max_bucket, low_mask, high_mask)
  BY DEF HashInv
<1>2. k \in present
  BY FindIs DEF HashRemove
<1>3. PICK b \in Buckets : b = Bucket(k)
  BY BucketIs
<1>4. PICK p \in 1..Len(chain[b]) : /\ p = Position(k) /\ Find(k) = chain[b][p]
                                    /\ key[chain[b][p]] = k
  BY <1>2, <1>3, FindIs
<1>5. PICK e : e = chain[b][p]
  OBVIOUS
<1>6. PICK ch2, ky2 : ch2 = chain' /\ ky2 = key'
  OBVIOUS
<1>7. /\ chain' = [chain EXCEPT ![b] = RemoveAt(@, p)] /\ key' = [key EXCEPT ![e] = Nobody]
      /\ present' = present \ {k} /\ due' = due \ {k}
      /\ UNCHANGED <<S_CurBucket, S_CurIndex, scanning, last>>
      /\ scanning => k = last
  BY <1>3, <1>4, <1>5 DEF HashRemove, CallersMayRemove
<1>8. Unlinked(hash, chain, key, present, max_bucket, low_mask, high_mask, b, p, e, ch2, ky2)
  BY <1>1, <1>5, <1>6, <1>7 DEF Unlinked
<1>9. ASSUME scanning PROVE ScanHas(chain', key', present', due', S_CurBucket', S_CurIndex', last')
  <2>1. ScanHas(chain, key, present, due, S_CurBucket, S_CurIndex, last) /\ key[e] = last
    BY <1>4, <1>5, <1>7, <1>9 DEF ScanInv
  <2>2. ScanHas(ch2, ky2, present \ {last}, due \ {last}, S_CurBucket, S_CurIndex, last)
    BY <1>8, <2>1, RemovedScans
  <2> QED BY <1>6, <1>7, <1>9, <2>2
<1> QED BY <1>7, <1>9 DEF ScanInv

\* hash_seq(NULL).
LEMMA StartScans ==
  ASSUME HashInv, StartScan
  PROVE  ScanInv' /\ HashInv'
<1>1. Filled(hash, chain, key, present, max_bucket, low_mask, high_mask) /\ present \subseteq Keys
  BY DEF HashInv
<1>2. /\ S_CurBucket' = 0 /\ S_CurIndex' = INVALID_INDEX /\ last' = Nobody /\ due' = present
      /\ UNCHANGED <<hash, key, chain, free, allocated, nkeys, present>> /\ UNCHANGED sizeVars
  BY DEF StartScan
<1>3. ScanHas(chain, key, present, present, 0, INVALID_INDEX, Nobody)
  <2>1. Nobody \notin present
    BY <1>1, HashAssumption
  <2>2. \A b \in Buckets : b = 0 \/ b > 0
    BY HashConstants
  <2>3. \A b \in Buckets : \A i \in 1..Len(chain[b]) : Ahead(chain, 0, INVALID_INDEX, b, i)
    BY <2>2 DEF Ahead
  <2>4. \A b \in Buckets : \A i \in 1..Len(chain[b]) : key[chain[b][i]] \in present
    BY <1>1 DEF Filled
  <2> QED BY <2>1, <2>3, <2>4 DEF ScanHas
<1>4. ScanInv'
  BY <1>2, <1>3 DEF ScanInv
<1>5. HeaderInv'
  <2>1. 0 \in 0..(max_bucket + 1) /\ 0 \in 0..allocated
    BY LastBucket DEF HashInv
  <2>2. HeaderInv
    BY DEF HashInv
  <2> QED BY <1>2, <2>1, <2>2 DEF HeaderInv, sizeVars, INVALID_INDEX
<1>6. HashInv'
  <2>1. /\ hash \in [Keys -> Nat] /\ key \in [Elems -> Keys \cup {Nobody}]
        /\ allocated \in 0..MaxElems /\ Parted(chain, free, allocated)
        /\ nkeys = allocated - Len(free)
    BY DEF HashInv
  <2> QED BY <1>1, <1>2, <1>5, <2>1 DEF HashInv, sizeVars
<1> QED BY <1>4, <1>6

\* The bucket the loop stops at.
LEMMA FirstIs ==
  ASSUME HashInv, NonEmpty # {}
  PROVE  /\ FirstNonEmpty \in NonEmpty /\ FirstNonEmpty \in Buckets
         /\ \A c \in NonEmpty : FirstNonEmpty <= c
<1>1. HeaderInv /\ S_CurBucket \in Nat /\ NonEmpty \subseteq Nat
  BY DEF HashInv, HeaderInv, NonEmpty
<1>2. \E b \in NonEmpty : \A c \in NonEmpty : b <= c
  BY <1>1, Smallest
<1>3. FirstNonEmpty \in NonEmpty /\ \A c \in NonEmpty : FirstNonEmpty <= c
  BY <1>2 DEF FirstNonEmpty
<1>4. NonEmpty \subseteq Buckets
  <2>1. 0..max_bucket \subseteq Buckets /\ max_bucket \in Nat
    BY <1>1, LastBucket
  <2> QED BY <1>1, <2>1 DEF NonEmpty
<1> QED BY <1>3, <1>4

\* The place of the element that hash_seq returns is the first one ahead.
GivesFrom(b, p) ==
  /\ b \in Buckets /\ b <= max_bucket /\ p \in 1..Len(chain[b])
  /\ \A c \in Buckets : \A i \in 1..Len(chain[c]) :
       Ahead(chain, S_CurBucket, S_CurIndex, c, i) <=> c > b \/ (c = b /\ i >= p)

\* hash_seq returns such an element.
LEMMA ReturnsOne ==
  ASSUME HashInv, scanning, ScanInv, SeqReturn
  PROVE  \E b, p : GivesFrom(b, p) /\ Give(chain[b][p], b)
<1>1. Filled(hash, chain, key, present, max_bucket, low_mask, high_mask) /\ HeaderInv
  BY DEF HashInv
<1>2. chain \in [Buckets -> Seq(Elems)] /\ max_bucket \in Nat /\ S_CurBucket \in Nat
      /\ \A b \in Buckets : b \in Nat
  BY <1>1, LastBucket, HashConstants DEF Filled, HeaderInv
<1>3. CASE S_CurIndex # INVALID_INDEX /\ Give(S_CurIndex, S_CurBucket)
  <2>1. PICK b \in Buckets : b = S_CurBucket
    BY <1>3 DEF ScanInv, ScanHas
  <2>2. PICK p \in 1..Len(chain[b]) : chain[b][p] = S_CurIndex
    BY <1>3, <2>1 DEF ScanInv, ScanHas
  <2>3. ASSUME NEW c \in Buckets, NEW i \in 1..Len(chain[c])
        PROVE  Ahead(chain, S_CurBucket, S_CurIndex, c, i) <=> c > b \/ (c = b /\ i >= p)
    <3>1. c = b => ((\E q \in 1..i : chain[b][q] = S_CurIndex) <=> i >= p)
      <4> SUFFICES ASSUME c = b PROVE (\E q \in 1..i : chain[b][q] = S_CurIndex) <=> i >= p
        OBVIOUS
      <4>1. chain[b] \in Seq(Elems) /\ i \in 1..Len(chain[b]) /\ Len(chain[b]) \in Nat
        BY <1>2
      <4>2. \A q \in 1..i : q \in 1..Len(chain[b])
        BY <4>1
      <4>3. \A q \in 1..Len(chain[b]) : chain[b][q] = chain[b][p] => q = p
        BY <1>1, OnePlace
      <4>4. \A q \in 1..i : chain[b][q] = S_CurIndex => q = p
        BY <2>2, <4>2, <4>3
      <4>5. i >= p <=> p \in 1..i
        BY <4>1
      <4> QED BY <2>2, <4>4, <4>5
    <3>2. Ahead(chain, S_CurBucket, S_CurIndex, c, i)
            <=> c > b \/ (c = b /\ \E q \in 1..i : chain[b][q] = S_CurIndex)
      BY <1>3, <2>1 DEF Ahead
    <3>3. CASE c = b
      BY <3>1, <3>2, <3>3
    <3>4. CASE c # b
      BY <3>2, <3>4
    <3> QED BY <3>3, <3>4
  <2>4. b <= max_bucket
    BY <2>1 DEF SeqReturn
  <2>5. GivesFrom(b, p)
    BY <2>3, <2>4 DEF GivesFrom
  <2> QED BY <1>3, <2>1, <2>2, <2>5
<1>4. CASE /\ S_CurIndex = INVALID_INDEX /\ NonEmpty # {}
           /\ Give(chain[FirstNonEmpty][1], FirstNonEmpty)
  <2>1. PICK b \in Buckets : b = FirstNonEmpty /\ b \in NonEmpty /\ \A c \in NonEmpty : b <= c
    BY <1>4, FirstIs
  <2>2. b >= S_CurBucket /\ b <= max_bucket /\ chain[b] # <<>>
    BY <1>2, <2>1 DEF NonEmpty
  <2>3. 1 \in 1..Len(chain[b])
    <3>1. chain[b] \in Seq(Elems)
      BY <1>2
    <3> QED BY <2>2, <3>1
  <2>4. ASSUME NEW c \in Buckets, NEW i \in 1..Len(chain[c])
        PROVE  Ahead(chain, S_CurBucket, S_CurIndex, c, i) <=> c > b \/ (c = b /\ i >= 1)
    <3>1. Ahead(chain, S_CurBucket, S_CurIndex, c, i) <=> c >= S_CurBucket
      BY <1>2, <1>4 DEF Ahead
    <3>2. chain[c] # <<>> /\ i >= 1
      BY <1>2
    <3>3. c <= max_bucket
      <4>1. PICK k \in Keys : k = key[chain[c][i]]
        BY <1>1 DEF Filled, HashInv
      <4>2. PICK h \in Nat : h = hash[k]
        BY DEF HashInv
      <4>3. call_hash(h, max_bucket, low_mask, high_mask) \in 0..max_bucket
        BY <1>1, HashInTable DEF HeaderInv
      <4>4. call_hash(h, max_bucket, low_mask, high_mask) = c
        BY <1>1, <4>1, <4>2 DEF Filled
      <4> QED BY <1>2, <4>3, <4>4
    <3>4. c >= S_CurBucket => c \in NonEmpty
      BY <1>2, <3>2, <3>3 DEF NonEmpty
    <3>5. c >= S_CurBucket => b <= c
      BY <2>1, <3>4
    <3>6. c >= S_CurBucket <=> c > b \/ c = b
      BY <1>2, <2>2, <3>5
    <3> QED BY <3>1, <3>2, <3>6
  <2>5. GivesFrom(b, 1)
    BY <2>2, <2>3, <2>4 DEF GivesFrom
  <2> QED BY <1>4, <2>1, <2>5
<1> QED BY <1>3, <1>4 DEF SeqReturn

\* hash_seq returns an element.
LEMMA ReturnScans ==
  ASSUME HashInv, ScanInv, SeqReturn
  PROVE  ScanInv' /\ HashInv' /\ last' \in due
<1>1. PICK b, p : GivesFrom(b, p) /\ Give(chain[b][p], b)
  BY ReturnsOne DEF SeqReturn
<1>2. b \in Buckets /\ b <= max_bucket /\ p \in 1..Len(chain[b])
  BY <1>1 DEF GivesFrom
<1>3. PICK ci2 : ci2 = IF p = Len(chain[b]) THEN INVALID_INDEX ELSE chain[b][p + 1]
  OBVIOUS
<1>4. PICK cb2 : cb2 = IF ci2 = INVALID_INDEX THEN b + 1 ELSE b
  OBVIOUS
<1>5. NextOf(chain[b][p]) = ci2 /\ chain[b] \in Seq(Elems)
  BY <1>2, <1>3, NextOfIs
<1>6. /\ last' = key[chain[b][p]] /\ due' = due \ {key[chain[b][p]]}
      /\ S_CurIndex' = ci2 /\ S_CurBucket' = cb2
      /\ scanning /\ scanning' = scanning
      /\ UNCHANGED <<hash, key, chain, free, allocated, nkeys, present>> /\ UNCHANGED sizeVars
  BY <1>1, <1>4, <1>5 DEF SeqReturn, Give
<1>7. /\ hash \in [Keys -> Nat] /\ key \in [Elems -> Keys \cup {Nobody}]
      /\ allocated \in 0..MaxElems /\ present \subseteq Keys
      /\ Filled(hash, chain, key, present, max_bucket, low_mask, high_mask)
      /\ Parted(chain, free, allocated) /\ nkeys = allocated - Len(free)
      /\ HeaderInv
  BY DEF HashInv
<1>8. Stands(chain, key, S_CurBucket, S_CurIndex, b, p, cb2, ci2)
  <2>1. chain \in [Buckets -> Seq(Elems)]
    BY <1>7 DEF Filled
  <2>2. \A x, c \in Buckets : \A i \in 1..Len(chain[x]) : \A j \in 1..Len(chain[c]) :
          key[chain[x][i]] = key[chain[c][j]] => x = c /\ i = j
    BY <1>7 DEF Filled
  <2> QED BY <1>1, <1>2, <1>3, <1>4, <2>1, <2>2 DEF Stands, GivesFrom
<1>9. ScanHas(chain, key, present, due, S_CurBucket, S_CurIndex, last)
  BY <1>6 DEF ScanInv
<1>10. /\ key[chain[b][p]] \in due
       /\ ScanHas(chain, key, present, due \ {key[chain[b][p]]}, cb2, ci2, key[chain[b][p]])
  BY <1>8, <1>9, GiveScans
<1>11. ScanInv'
  BY <1>6, <1>10 DEF ScanInv
<1>12. HeaderInv'
  <2>1. cb2 \in 0..(max_bucket + 1)
    BY <1>2, <1>4, <1>7, LastBucket, HashConstants
  <2>2. ci2 \in 0..allocated
    <3>1. CASE p = Len(chain[b])
      BY <1>3, <1>7, <3>1 DEF INVALID_INDEX
    <3>2. CASE p # Len(chain[b])
      <4>1. p + 1 \in 1..Len(chain[b]) /\ ci2 = chain[b][p + 1]
        BY <1>2, <1>3, <1>5, <3>2
      <4>2. ci2 \in Chained(chain)
        BY <1>2, <1>7, <4>1, ChainElem DEF Filled
      <4> QED BY <1>7, <4>2 DEF Parted
    <3> QED BY <3>1, <3>2
  <2> QED BY <1>6, <1>7, <2>1, <2>2 DEF HeaderInv, sizeVars
<1>13. HashInv'
  BY <1>6, <1>7, <1>12 DEF HashInv, sizeVars
<1> QED BY <1>6, <1>10, <1>11, <1>13

\* hash_seq returns TRUE: nothing is due.
LEMMA EndScans ==
  ASSUME HashInv, ScanInv, SeqEnd
  PROVE  ScanInv' /\ HashInv' /\ due = {}
<1>1. /\ scanning /\ S_CurIndex = INVALID_INDEX /\ NonEmpty = {}
      /\ S_CurBucket' = max_bucket + 1 /\ S_CurIndex' = S_CurIndex /\ scanning' = FALSE
      /\ UNCHANGED <<hash, key, chain, free, allocated, nkeys, present>> /\ UNCHANGED sizeVars
  BY DEF SeqEnd
<1>2. /\ hash \in [Keys -> Nat] /\ key \in [Elems -> Keys \cup {Nobody}]
      /\ allocated \in 0..MaxElems /\ present \subseteq Keys
      /\ Filled(hash, chain, key, present, max_bucket, low_mask, high_mask)
      /\ Parted(chain, free, allocated) /\ nkeys = allocated - Len(free)
      /\ HeaderInv
  BY DEF HashInv
<1>3. HeaderInv'
  <2>1. max_bucket \in Nat
    BY <1>2, LastBucket
  <2> QED BY <1>1, <1>2, <2>1 DEF HeaderInv, sizeVars
<1>4. HashInv'
  BY <1>1, <1>2, <1>3 DEF HashInv, sizeVars
<1>5. due = {}
  <2> SUFFICES ASSUME NEW k \in due PROVE FALSE
    OBVIOUS
  <2>1. ScanHas(chain, key, present, due, S_CurBucket, S_CurIndex, last)
    BY <1>1 DEF ScanInv
  <2>2. k \in present /\ k \in Keys
    BY <1>2, <2>1 DEF ScanHas
  <2>3. PICK c \in Buckets : \E i \in 1..Len(chain[c]) : key[chain[c][i]] = k
    BY <1>2, <2>2 DEF Filled
  <2>4. PICK i \in 1..Len(chain[c]) : key[chain[c][i]] = k
    BY <2>3
  <2>5. Ahead(chain, S_CurBucket, S_CurIndex, c, i)
    BY <2>1, <2>4 DEF ScanHas
  <2>6. c \in Nat /\ S_CurBucket \in Nat /\ max_bucket \in Nat
    BY <1>2, LastBucket, HashConstants DEF HeaderInv
  <2>7. c >= S_CurBucket
    BY <2>5, <2>6 DEF Ahead
  <2>8. c <= max_bucket
    <3>1. PICK h \in Nat : h = hash[k]
      BY <1>2, <2>2
    <3>2. call_hash(h, max_bucket, low_mask, high_mask) \in 0..max_bucket
      BY <1>2, HashInTable DEF HeaderInv
    <3>3. call_hash(h, max_bucket, low_mask, high_mask) = c
      BY <1>2, <2>4, <3>1 DEF Filled
    <3> QED BY <2>6, <3>2, <3>3
  <2>9. chain[c] # <<>>
    BY <2>4
  <2>10. c \in NonEmpty
    BY <2>6, <2>7, <2>8, <2>9 DEF NonEmpty
  <2> QED BY <1>1, <2>10
<1> QED BY <1>1, <1>4, <1>5 DEF ScanInv

\* Only its owner moves a scan, and keys are not entered while one goes on.
LEMMA OthersScan ==
  ASSUME ScanInv, NEW k \in Keys, HashEnter(k) \/ EnterAborts(k)
  PROVE  ScanInv'
<1>1. CASE HashEnter(k)
  <2>1. ~scanning'
    BY <1>1 DEF HashEnter, CallersMayEnter, scanVars
  <2> QED BY <2>1 DEF ScanInv
<1>2. CASE EnterAborts(k)
  <2>1. UNCHANGED <<key, chain, present>> /\ UNCHANGED scanVars
    BY <1>2 DEF EnterAborts
  <2> QED BY <2>1 DEF ScanInv, scanVars
<1> QED BY <1>1, <1>2

\* Every step of a hash table keeps the invariants.
LEMMA HashStep ==
  ASSUME HashInv, ScanInv, [HashNext]_hashVars
  PROVE  HashInv' /\ ScanInv'
<1>1. CASE UNCHANGED hashVars
  <2>1. HashInv'
    BY <1>1 DEF HashInv, HeaderInv, hashVars, sizeVars, scanVars
  <2>2. ScanInv'
    BY <1>1 DEF ScanInv, hashVars, scanVars
  <2> QED BY <2>1, <2>2
<1>2. ASSUME NEW k \in Keys, HashEnter(k) PROVE HashInv' /\ ScanInv'
  BY <1>2, EnterKeeps, OthersScan
<1>3. ASSUME NEW k \in Keys, EnterAborts(k) PROVE HashInv' /\ ScanInv'
  BY <1>3, AbortKeeps, OthersScan
<1>4. ASSUME NEW k \in Keys, HashRemove(k) PROVE HashInv' /\ ScanInv'
  BY <1>4, RemoveKeeps, RemoveScans
<1>5. ASSUME StartScan PROVE HashInv' /\ ScanInv'
  BY <1>5, StartScans
<1>6. ASSUME SeqReturn PROVE HashInv' /\ ScanInv'
  BY <1>6, ReturnScans
<1>7. ASSUME SeqEnd PROVE HashInv' /\ ScanInv'
  BY <1>7, EndScans
<1> QED BY <1>1, <1>2, <1>3, <1>4, <1>5, <1>6, <1>7 DEF HashNext

\* What hash_search is asked for.
LEMMA KeysAreFound == HashInv => KeysFound
<1> SUFFICES ASSUME HashInv PROVE KeysFound
  OBVIOUS
<1>1. /\ key \in [Elems -> Keys \cup {Nobody}] /\ allocated \in 0..MaxElems
      /\ Filled(hash, chain, key, present, max_bucket, low_mask, high_mask)
      /\ Parted(chain, free, allocated) /\ nkeys = allocated - Len(free) /\ HeaderInv
  BY DEF HashInv
<1>2. HashTypeOK
  <2>1. ASSUME NEW b \in Buckets PROVE chain[b] \in Seq(1..allocated)
    <3>1. chain \in [Buckets -> Seq(Elems)] /\ chain[b] \in Seq(Elems)
      BY <1>1 DEF Filled
    <3>2. \A i \in 1..Len(chain[b]) : chain[b][i] \in 1..allocated
      <4> TAKE i \in 1..Len(chain[b])
      <4>1. chain[b][i] \in Chained(chain)
        BY <3>1, ChainElem
      <4> QED BY <1>1, <4>1 DEF Parted
    <3>3. PICK s : s = chain[b]
      OBVIOUS
    <3>4. s \in Seq(Elems) /\ \A i \in 1..Len(s) : s[i] \in 1..allocated
      BY <3>1, <3>2, <3>3
    <3>5. s \in [1..Len(s) -> 1..allocated] /\ Len(s) \in Nat
      BY <3>4
    <3>6. s \in Seq(1..allocated)
      BY <3>5, SeqDef
    <3> QED BY <3>3, <3>6
  <2>2. free \in Seq(1..allocated)
    BY <1>1 DEF Parted
  <2>3. /\ max_bucket \in Buckets
        /\ low_mask <= max_bucket /\ max_bucket <= high_mask /\ high_mask = 2 * low_mask + 1
        /\ max_bucket < nsegs * ssize /\ nsegs <= dsize
        /\ S_CurBucket \in 0..(max_bucket + 1) /\ S_CurIndex \in 0..allocated
    BY <1>1, LastBucket DEF HeaderInv, Masks
  <2> QED BY <1>1, <2>1, <2>2, <2>3 DEF HashTypeOK
<1>3. FoundIsPresent
  <2> SUFFICES ASSUME NEW k \in Keys PROVE Find(k) # INVALID_INDEX <=> k \in present
    BY DEF FoundIsPresent
  <2>1. k \in present => Find(k) \in Elems
    BY FindIs
  <2>2. 0 \notin Elems
    BY HashConstants DEF Elems
  <2>3. (k \notin present) => Find(k) = INVALID_INDEX
    BY FindIs
  <2> QED BY <2>1, <2>2, <2>3 DEF INVALID_INDEX
<1>4. ElementsPartitioned
  <2>1. ASSUME NEW e \in 1..allocated
        PROVE  (\E b \in Buckets : \E i \in 1..Len(chain[b]) : chain[b][i] = e)
                 <=> ~\E i \in 1..Len(free) : free[i] = e
    <3>1. e \in Elems
      BY <1>1, HashConstants DEF Elems
    <3>2. e \in Chained(chain) <=> \E b \in Buckets : \E i \in 1..Len(chain[b]) : chain[b][i] = e
      BY <3>1 DEF Chained
    <3>3. e \in Chained(chain) <=> ~\E i \in 1..Len(free) : free[i] = e
      BY <1>1 DEF Parted
    <3> QED BY <3>2, <3>3
  <2>2. \A b, c \in Buckets : \A i \in 1..Len(chain[b]) : \A j \in 1..Len(chain[c]) :
          chain[b][i] = chain[c][j] => b = c /\ i = j
    BY <1>1, OnePlace
  <2>3. \A i, j \in 1..Len(free) : free[i] = free[j] => i = j
    BY <1>1 DEF Parted
  <2>4. \A e \in 1..allocated :
          (\E b \in Buckets : \E i \in 1..Len(chain[b]) : chain[b][i] = e)
            # (\E i \in 1..Len(free) : free[i] = e)
    BY <2>1, Zenon
  <2> QED BY <1>1, <2>2, <2>3, <2>4, Zenon DEF ElementsPartitioned
<1> QED BY <1>2, <1>3, <1>4 DEF KeysFound

\* hash_search finds what was entered and nothing else, in a table whose
\* header, chains and free list account for every element: for every hash
\* function, size of the table, fill factor and failure to expand.
THEOREM TableIsExact == HashSpec => []KeysFound
<1>1. HashInit => HashInv /\ ScanInv
  BY HashInitInv DEF HashInit, ScanInv
<1>2. HashInv /\ ScanInv /\ [HashNext]_hashVars => (HashInv /\ ScanInv)'
  BY HashStep
<1>3. HashInv => KeysFound
  BY KeysAreFound
<1> QED BY <1>1, <1>2, <1>3, PTL DEF HashSpec

\* hash_seq returns no key twice and none that is not there, and all of them
\* before it ends, when the caller removes at most the element it was given.
THEOREM ScansAreExact == HashSpec => ScanExact
<1>1. HashInit => HashInv /\ ScanInv
  BY HashInitInv DEF HashInit, ScanInv
<1>2. HashInv /\ ScanInv /\ [HashNext]_hashVars => (HashInv /\ ScanInv)'
  BY HashStep
<1>3. HashInv /\ ScanInv /\ [HashNext]_hashVars
        => [(SeqReturn => last' \in due) /\ (SeqEnd => due = {})]_hashVars
  BY ReturnScans, EndScans
<1> QED BY <1>1, <1>2, <1>3, PTL DEF HashSpec, ScanExact
=============================================================================
