----------------------------- MODULE MCProcesses ----------------------------
(***************************************************************************)
(* What concurrent processes share and how they are interrupted and end,   *)
(* for TLC.  The components are checked side by side: subject is the one   *)
(* that moves in a behaviour.                                              *)
(***************************************************************************)
EXTENDS Interrupts, ExitLists, BufTable, SLock, TLC

\* One process holds interrupts off, to a depth of two.
Depths == [p \in Backends |-> IF p = Creator THEN 2 ELSE 0]

VARIABLE subject

vars == <<subject, intrVars, exitVars, bufTableVars, slockVars>>

Init ==
  /\ subject \in {"interrupts", "exits", "buftable", "slock"}
  /\ IntrInit /\ ExitInit /\ BufTableInit /\ SLockInit

Next ==
  /\ UNCHANGED subject
  /\ \/ subject = "interrupts" /\ IntrNext /\ UNCHANGED <<exitVars, bufTableVars, slockVars>>
     \/ subject = "exits" /\ ExitNext /\ UNCHANGED <<intrVars, bufTableVars, slockVars>>
     \/ subject = "buftable" /\ BufTableNext /\ UNCHANGED <<intrVars, exitVars, slockVars>>
     \/ subject = "slock" /\ SLockNext /\ UNCHANGED <<intrVars, exitVars, bufTableVars>>

\* Processes inside a routine go on; nobody is inside one at the beginning, so
\* fairness asks nothing of the components that do not move.
Fairness ==
  /\ IntrFairness
  /\ WF_exitVars(ExitStep)
  /\ \A p \in Spinners : WF_slockVars(s_lock(p))

Spec == Init /\ [][Next]_vars /\ Fairness

-----------------------------------------------------------------------------
\* Semaphore (ipc.c) and test-and-set lock (s_lock.c) admit one process at a
\* time, however many signals and retries it takes to get in.
LocksExclusive == OneHolder /\ SLockExclusive

\* Nobody waits for ever for what can be served: a signalled wait is served,
\* waits on a removed set end, exits end, spinning ends.
WaitsEnd == WaiterServed /\ RemovedSetEndsWaits /\ ExitEnds /\ SpinEnds
=============================================================================
