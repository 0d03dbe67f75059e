----------------------------- MODULE Interrupts -----------------------------
(***************************************************************************)
(* Cancel and die requests against a process that takes a semaphore:       *)
(* process_interrupts of tcop/postgres.c, the macros of miscadmin.h, and   *)
(* the semaphore routines and proc_exit of storage/ipc/ipc.c.              *)
(*                                                                         *)
(* A signal arrives between any two steps; its handler is not under src/   *)
(* (external): as miscadmin.h has it, it sets the flags and, where         *)
(* ImmediateInterruptOK says so, serves the request on the spot.  To serve *)
(* a request is to print a message, since elog returns.  There is one      *)
(* semaphore; its set is removed by the process that created it, on exit.  *)
(***************************************************************************)
EXTENDS Integers, FiniteSets

CONSTANTS
  Backends,   \* the processes
  Creator,    \* the one that created the set (remove_on_exit)
  MaxHold,    \* bound, per process, on the nesting of HOLD_INTERRUPTS and
              \* START_CRIT_SECTION
  MaxSignals  \* bound on the signals that arrive

ASSUME IntrAssumption ==
  /\ IsFiniteSet(Backends) /\ Creator \in Backends
  /\ MaxHold \in [Backends -> Nat] /\ MaxSignals \in Nat

VARIABLES
  sem,           \* value of the semaphore, -1 when the set is gone
  at,            \* per process: where it is
  interrupt_ok,  \* the argument of the ipc_semaphore_lock it is in
  InterruptPending, ProcDiePending, QueryCancelPending,
  ImmediateInterruptOK, InterruptHoldoffCount, CritSectionCount,
  ProcExitInprogress,
  signals        \* how many have come

pendingVars == <<InterruptPending, ProcDiePending, QueryCancelPending>>
countVars == <<InterruptHoldoffCount, CritSectionCount>>
intrVars == <<sem, at, interrupt_ok, pendingVars, ImmediateInterruptOK, countVars, ProcExitInprogress, signals>>

Goes(p, place) == at' = [at EXCEPT ![p] = place]
Set(f, p, v) == [f EXCEPT ![p] = v]

\* Inside process_interrupts: from ipc_semaphore_lock (back to semop) or from
\* a macro outside it (back to idle).
Serving == {"die?", "died", "cancel?", "cancelled"}
Places == {"idle", "arm", "check", "clear", "window", "wait", "got", "eintr", "failed", "held", "exit", "exit2", "exited"}

IntrInit ==
  /\ sem = 1
  /\ at = [p \in Backends |-> <<"idle", "idle">>]
  /\ interrupt_ok = [p \in Backends |-> FALSE]
  /\ InterruptPending = [p \in Backends |-> FALSE]
  /\ ProcDiePending = [p \in Backends |-> FALSE]
  /\ QueryCancelPending = [p \in Backends |-> FALSE]
  /\ ImmediateInterruptOK = [p \in Backends |-> FALSE]
  /\ InterruptHoldoffCount = [p \in Backends |-> 0]
  /\ CritSectionCount = [p \in Backends |-> 0]
  /\ ProcExitInprogress = [p \in Backends |-> FALSE]
  /\ signals = 0

\* at[p] is the place and where to go back to from process_interrupts.
Place(p) == at[p][1]
Back(p) == at[p][2]

\* The test of process_interrupts.  Mutant: critical sections are forgotten.
HeldOff_count(p) == InterruptHoldoffCount[p] # 0
HeldOff(p) == InterruptHoldoffCount[p] # 0 \/ CritSectionCount[p] # 0

----------------------------------------------------------------------------
\* process_interrupts, step by step.  Its mutant resets InterruptPending when
\* the flags have been looked at.
ServeClear_last(p) ==
  /\ Place(p) = "clear"
  /\ IF HeldOff(p) THEN Goes(p, <<Back(p), Back(p)>>) ELSE Goes(p, <<"die?", Back(p)>>)
  /\ UNCHANGED <<sem, interrupt_ok, pendingVars, ImmediateInterruptOK, countVars, ProcExitInprogress>>

ServeClear(p) ==
  /\ Place(p) = "clear"
  /\ IF HeldOff(p)
     THEN Goes(p, <<Back(p), Back(p)>>) /\ UNCHANGED InterruptPending
     ELSE /\ InterruptPending' = Set(InterruptPending, p, FALSE)
          /\ Goes(p, <<"die?", Back(p)>>)
  /\ UNCHANGED <<sem, interrupt_ok, ProcDiePending, QueryCancelPending, ImmediateInterruptOK, countVars, ProcExitInprogress>>

ServeDie(p) ==
  /\ Place(p) = "die?"
  /\ ProcDiePending' = Set(ProcDiePending, p, FALSE)
  /\ Goes(p, <<IF ProcDiePending[p] THEN "died" ELSE "cancel?", Back(p)>>)
  /\ UNCHANGED <<sem, interrupt_ok, InterruptPending, QueryCancelPending, ImmediateInterruptOK, countVars, ProcExitInprogress>>

\* ProcDie trumps QueryCancel.
Died(p) ==
  /\ Place(p) = "died"
  /\ QueryCancelPending' = Set(QueryCancelPending, p, FALSE)
  /\ ImmediateInterruptOK' = Set(ImmediateInterruptOK, p, FALSE)
  /\ Goes(p, <<"cancel?", Back(p)>>)
  /\ UNCHANGED <<sem, interrupt_ok, InterruptPending, ProcDiePending, countVars, ProcExitInprogress>>

ServeCancel_clear(p) ==
  /\ Place(p) = "cancel?"
  /\ QueryCancelPending' = Set(QueryCancelPending, p, FALSE)
  /\ InterruptPending' = Set(InterruptPending, p, FALSE)
  /\ ImmediateInterruptOK' = Set(ImmediateInterruptOK, p, ImmediateInterruptOK[p] /\ ~QueryCancelPending[p])
  /\ Goes(p, <<Back(p), Back(p)>>)
  /\ UNCHANGED <<sem, interrupt_ok, ProcDiePending, countVars, ProcExitInprogress>>

ServeCancel(p) ==
  /\ Place(p) = "cancel?"
  /\ QueryCancelPending' = Set(QueryCancelPending, p, FALSE)
  /\ ImmediateInterruptOK' = Set(ImmediateInterruptOK, p, ImmediateInterruptOK[p] /\ ~QueryCancelPending[p])
  /\ Goes(p, <<Back(p), Back(p)>>)
  /\ UNCHANGED <<sem, interrupt_ok, InterruptPending, ProcDiePending, countVars, ProcExitInprogress>>

process_interrupts_last(p) == ServeClear_last(p) \/ ServeDie(p) \/ Died(p) \/ ServeCancel_clear(p)
process_interrupts(p) == ServeClear(p) \/ ServeDie(p) \/ Died(p) \/ ServeCancel(p)

\* CHECK_FOR_INTERRUPTS, on the way to place.
Check(p, place) == Goes(p, IF InterruptPending[p] THEN <<"clear", place>> ELSE <<place, place>>)

\* The handler of SIGINT (die FALSE) and SIGTERM (external).  A process in
\* semop comes back with EINTR.
Signal(p, die) ==
  LET direct == ImmediateInterruptOK[p] /\ ~HeldOff(p)
  IN /\ Place(p) \notin {"exited"}
     /\ ~ProcExitInprogress[p]
     /\ signals < MaxSignals
     /\ signals' = signals + 1
     /\ InterruptPending' = Set(InterruptPending, p, ~direct)
     /\ ProcDiePending' = Set(ProcDiePending, p, (die \/ ProcDiePending[p]) /\ ~direct)
     /\ QueryCancelPending' = Set(QueryCancelPending, p, (~die \/ QueryCancelPending[p]) /\ ~direct)
     /\ ImmediateInterruptOK' = Set(ImmediateInterruptOK, p, ImmediateInterruptOK[p] /\ ~direct)
     /\ IF Place(p) = "wait" THEN Goes(p, <<"eintr", "eintr">>) ELSE UNCHANGED at
     /\ UNCHANGED <<sem, interrupt_ok, countVars, ProcExitInprogress>>

----------------------------------------------------------------------------
HOLD_INTERRUPTS(p) ==
  /\ Place(p) \in {"idle", "held"}
  /\ InterruptHoldoffCount[p] + CritSectionCount[p] < MaxHold[p]
  /\ InterruptHoldoffCount' = Set(InterruptHoldoffCount, p, InterruptHoldoffCount[p] + 1)
  /\ UNCHANGED <<sem, at, interrupt_ok, pendingVars, ImmediateInterruptOK, CritSectionCount, ProcExitInprogress>>

RESUME_INTERRUPTS(p) ==
  /\ Place(p) \in {"idle", "held"}
  /\ InterruptHoldoffCount[p] > 0
  /\ InterruptHoldoffCount' = Set(InterruptHoldoffCount, p, InterruptHoldoffCount[p] - 1)
  /\ Check(p, Place(p))
  /\ UNCHANGED <<sem, interrupt_ok, pendingVars, ImmediateInterruptOK, CritSectionCount, ProcExitInprogress>>

START_CRIT_SECTION(p) ==
  /\ Place(p) \in {"idle", "held"}
  /\ InterruptHoldoffCount[p] + CritSectionCount[p] < MaxHold[p]
  /\ CritSectionCount' = Set(CritSectionCount, p, CritSectionCount[p] + 1)
  /\ UNCHANGED <<sem, at, interrupt_ok, pendingVars, ImmediateInterruptOK, InterruptHoldoffCount, ProcExitInprogress>>

END_CRIT_SECTION(p) ==
  /\ Place(p) \in {"idle", "held"}
  /\ CritSectionCount[p] > 0
  /\ CritSectionCount' = Set(CritSectionCount, p, CritSectionCount[p] - 1)
  /\ Check(p, Place(p))
  /\ UNCHANGED <<sem, interrupt_ok, pendingVars, ImmediateInterruptOK, InterruptHoldoffCount, ProcExitInprogress>>

----------------------------------------------------------------------------
\* ipc_semaphore_lock(sem_id, sem, interrupt_ok), of a process without the
\* lock: spin.c passes a constant that counts as true, other callers FALSE.
ipc_semaphore_lock(p, ok) ==
  /\ Place(p) = "idle"
  /\ interrupt_ok' = Set(interrupt_ok, p, ok)
  /\ Goes(p, <<"arm", "arm">>)
  /\ UNCHANGED <<sem, pendingVars, ImmediateInterruptOK, countVars, ProcExitInprogress>>

\* The top of the loop.  Mutant: the flag is forgotten, so that the window
\* between the check and semop is open.
Arm_not(p) ==
  /\ Place(p) = "arm"
  /\ Goes(p, <<"check", "check">>)
  /\ UNCHANGED <<sem, interrupt_ok, pendingVars, ImmediateInterruptOK, countVars, ProcExitInprogress>>

Arm(p) ==
  /\ Place(p) = "arm"
  /\ ImmediateInterruptOK' = Set(ImmediateInterruptOK, p, interrupt_ok[p])
  /\ Goes(p, <<"check", "check">>)
  /\ UNCHANGED <<sem, interrupt_ok, pendingVars, countVars, ProcExitInprogress>>

CheckAndCall(p) ==
  /\ Place(p) = "check"
  /\ Check(p, "window")
  /\ UNCHANGED <<sem, interrupt_ok, pendingVars, ImmediateInterruptOK, countVars, ProcExitInprogress>>

\* semop: the process enters the kernel, where it gets the semaphore, waits,
\* or learns that the set is gone.
Semop(p) ==
  /\ Place(p) = "window"
  /\ Goes(p, <<"wait", "wait">>)
  /\ UNCHANGED <<sem, interrupt_ok, pendingVars, ImmediateInterruptOK, countVars, ProcExitInprogress>>

SemopReturns(p) ==
  /\ Place(p) = "wait"
  /\ sem # 0
  /\ sem' = IF sem = 1 THEN 0 ELSE sem
  /\ Goes(p, IF sem = 1 THEN <<"got", "got">> ELSE <<"failed", "failed">>)
  /\ UNCHANGED <<interrupt_ok, pendingVars, ImmediateInterruptOK, countVars, ProcExitInprogress>>

\* The bottom of the loop.  Mutants: every error is taken for EINTR; EINTR
\* counts as success.
Disarm_again(p) ==
  /\ Place(p) \in {"got", "eintr", "failed"}
  /\ ImmediateInterruptOK' = Set(ImmediateInterruptOK, p, FALSE)
  /\ Goes(p, IF Place(p) = "got" THEN <<"held", "held">> ELSE <<"arm", "arm">>)
  /\ UNCHANGED <<sem, interrupt_ok, pendingVars, countVars, ProcExitInprogress>>

Disarm_eintr(p) ==
  /\ Place(p) \in {"got", "eintr", "failed"}
  /\ ImmediateInterruptOK' = Set(ImmediateInterruptOK, p, FALSE)
  /\ Goes(p, IF Place(p) = "failed" THEN <<"exit", "exit">> ELSE <<"held", "held">>)
  /\ UNCHANGED <<sem, interrupt_ok, pendingVars, countVars, ProcExitInprogress>>

Disarm(p) ==
  /\ Place(p) \in {"got", "eintr", "failed"}
  /\ ImmediateInterruptOK' = Set(ImmediateInterruptOK, p, FALSE)
  /\ Goes(p, CASE Place(p) = "got" -> <<"held", "held">>
               [] Place(p) = "eintr" -> <<"arm", "arm">>
               [] Place(p) = "failed" -> <<"exit", "exit">>)
  /\ UNCHANGED <<sem, interrupt_ok, pendingVars, countVars, ProcExitInprogress>>

\* ipc_semaphore_try_lock: does not wait, tries again after EINTR.
ipc_semaphore_try_lock(p) ==
  /\ Place(p) = "idle"
  /\ sem' = IF sem = 1 THEN 0 ELSE sem
  /\ Goes(p, CASE sem = 1 -> <<"held", "held">> [] sem = 0 -> <<"idle", "idle">> [] sem = -1 -> <<"exit", "exit">>)
  /\ UNCHANGED <<interrupt_ok, pendingVars, ImmediateInterruptOK, countVars, ProcExitInprogress>>

\* Mutant of ipc_semaphore_unlock: a process that has not got the lock.
ipc_semaphore_unlock_any(p) ==
  /\ Place(p) \in {"held", "idle"}
  /\ sem' = IF sem = -1 THEN -1 ELSE sem + 1
  /\ Goes(p, IF sem = -1 THEN <<"exit", "exit">> ELSE <<"idle", "idle">>)
  /\ UNCHANGED <<interrupt_ok, pendingVars, ImmediateInterruptOK, countVars, ProcExitInprogress>>

ipc_semaphore_unlock(p) ==
  /\ Place(p) = "held"
  /\ sem' = IF sem = -1 THEN -1 ELSE sem + 1
  /\ Goes(p, IF sem = -1 THEN <<"exit", "exit">> ELSE <<"idle", "idle">>)
  /\ UNCHANGED <<interrupt_ok, pendingVars, ImmediateInterruptOK, countVars, ProcExitInprogress>>

\* proc_exit: the flag first, then the requests are forgotten.  Its mutant
\* does it the other way round.
ProcExitFlag_after(p) ==
  /\ Place(p) = "exit"
  /\ InterruptPending' = Set(InterruptPending, p, FALSE)
  /\ ProcDiePending' = Set(ProcDiePending, p, FALSE)
  /\ QueryCancelPending' = Set(QueryCancelPending, p, FALSE)
  /\ Goes(p, <<"exit2", "exit2">>)
  /\ UNCHANGED <<sem, interrupt_ok, ImmediateInterruptOK, countVars, ProcExitInprogress>>

ProcExitFlag(p) ==
  /\ Place(p) = "exit"
  /\ ProcExitInprogress' = Set(ProcExitInprogress, p, TRUE)
  /\ Goes(p, <<"exit2", "exit2">>)
  /\ UNCHANGED <<sem, interrupt_ok, pendingVars, ImmediateInterruptOK, countVars>>

ProcExitForget_flag(p) ==
  /\ Place(p) = "exit2"
  /\ ProcExitInprogress' = Set(ProcExitInprogress, p, TRUE)
  /\ sem' = IF p = Creator THEN -1 ELSE sem
  /\ Goes(p, <<"exited", "exited">>)
  /\ UNCHANGED <<interrupt_ok, pendingVars, ImmediateInterruptOK, countVars>>

\* Then its callbacks, of which the creator's removes the set
\* (ipc_semaphore_kill).
ProcExitForget(p) ==
  /\ Place(p) = "exit2"
  /\ InterruptPending' = Set(InterruptPending, p, FALSE)
  /\ ProcDiePending' = Set(ProcDiePending, p, FALSE)
  /\ QueryCancelPending' = Set(QueryCancelPending, p, FALSE)
  /\ ImmediateInterruptOK' = Set(ImmediateInterruptOK, p, FALSE)
  /\ InterruptHoldoffCount' = Set(InterruptHoldoffCount, p, 1)
  /\ CritSectionCount' = Set(CritSectionCount, p, 0)
  /\ sem' = IF p = Creator THEN -1 ELSE sem
  /\ Goes(p, <<"exited", "exited">>)
  /\ UNCHANGED <<interrupt_ok, ProcExitInprogress>>

Exiting_after(p) == ProcExitFlag_after(p) \/ ProcExitForget_flag(p)
Exiting(p) == ProcExitFlag(p) \/ ProcExitForget(p)

CallProcExit(p) ==
  /\ Place(p) = "idle"
  /\ Goes(p, <<"exit", "exit">>)
  /\ UNCHANGED <<sem, interrupt_ok, pendingVars, ImmediateInterruptOK, countVars, ProcExitInprogress>>

----------------------------------------------------------------------------
\* What a process inside a routine does next.
Inside(p) ==
  /\ \/ process_interrupts(p) \/ Arm(p) \/ CheckAndCall(p) \/ Semop(p) \/ SemopReturns(p) \/ Disarm(p)
     \/ Exiting(p)
  /\ UNCHANGED signals

IntrNext ==
  \E p \in Backends :
     \/ Inside(p)
     \/ \E die \in BOOLEAN : Signal(p, die)
     \/ /\ \/ \E ok \in BOOLEAN : ipc_semaphore_lock(p, ok)
           \/ ipc_semaphore_try_lock(p) \/ ipc_semaphore_unlock(p) \/ CallProcExit(p)
           \/ HOLD_INTERRUPTS(p) \/ RESUME_INTERRUPTS(p) \/ START_CRIT_SECTION(p) \/ END_CRIT_SECTION(p)
        /\ UNCHANGED signals

\* A process inside a routine keeps moving: the kernel runs it, and semop
\* returns when the semaphore is up, a signal came or the set is gone.
IntrFairness == \A p \in Backends : WF_intrVars(Inside(p))

----------------------------------------------------------------------------
\* The types of the variables; the semaphore is never above the one lock it
\* stands for (ipc_semaphore_unlock).
IntrTypeOK ==
  /\ sem \in -1..1
  /\ at \in [Backends -> (Places \cup Serving) \X Places]
  /\ \A f \in {interrupt_ok, InterruptPending, ProcDiePending, QueryCancelPending, ImmediateInterruptOK, ProcExitInprogress} :
        f \in [Backends -> BOOLEAN]
  /\ InterruptHoldoffCount \in [Backends -> Nat] /\ CritSectionCount \in [Backends -> Nat]
  /\ signals \in 0..MaxSignals

\* A request that has come in is never forgotten: outside process_interrupts a
\* flag is up only with InterruptPending, which makes the next check look at
\* it, however signals fall between the steps of serving earlier ones.
RequestKept ==
  \A p \in Backends :
     Place(p) \notin Serving /\ (ProcDiePending[p] \/ QueryCancelPending[p]) => InterruptPending[p]

\* Interrupted waits neither take the semaphore twice nor not at all: a process
\* is past ipc_semaphore_lock exactly when it has the semaphore (the loop on
\* EINTR), in as many signals as may come.
OneHolder ==
  LET holders == {p \in Backends : Place(p) \in {"got", "held"} \/ Back(p) = "held"}
  IN sem # -1 => sem + Cardinality(holders) = 1

\* Nothing is served while interrupts are held off or in a critical section:
\* the request stays until the last RESUME_INTERRUPTS or END_CRIT_SECTION.
HeldOffStays ==
  [][\A p \in Backends :
        (InterruptHoldoffCount[p] # 0 \/ CritSectionCount[p] # 0) /\ Place(p) \notin Serving \cup {"exit2"} =>
          /\ ProcDiePending[p] => ProcDiePending'[p]
          /\ QueryCancelPending[p] => QueryCancelPending'[p]]_intrVars

\* "the signal handlers will not set these flags again": a process that has
\* started to close up shop has no request to serve (proc_exit).
QuietExit ==
  \A p \in Backends :
     Place(p) = "exited" => ~InterruptPending[p] /\ ~ProcDiePending[p] /\ ~QueryCancelPending[p] /\ HeldOff(p)

\* A request that reaches a process waiting for a semaphore is served although
\* the semaphore may never come: semop returns, and with interrupt_ok there is
\* no window before semop in which the first request goes unnoticed.  (Serving
\* it resets ImmediateInterruptOK, and since elog returns, semop is entered
\* without it: a second request in the same window is noticed only later.)
WaiterServed ==
  \A p \in Backends :
     /\ ProcDiePending[p] /\ ~HeldOff(p)
     /\ Place(p) = "eintr" \/ (interrupt_ok[p] /\ signals = 1 /\ Place(p) \in {"window", "wait"})
     ~> ~ProcDiePending[p]

\* When the set is removed every process that waits for it, or comes to wait,
\* leaves.
RemovedSetEndsWaits == \A p \in Backends : sem = -1 /\ Place(p) = "wait" ~> Place(p) = "exited"

\* A request is noticed, at a time when it may be served, unless the process
\* has begun to exit.
RequestsHonoured == [](IntrTypeOK /\ RequestKept /\ QuietExit) /\ HeldOffStays
=============================================================================
