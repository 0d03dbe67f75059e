------------------------------ MODULE ExitLists -----------------------------
(***************************************************************************)
(* The callbacks a process runs when it ends: proc_exit, shmem_exit,       *)
(* on_proc_exit, on_shmem_exit and on_exit_reset of storage/ipc/ipc.c.     *)
(*                                                                         *)
(* A registration is a number, so that two of the same function are told   *)
(* apart.  A callback may register another, and may itself end in          *)
(* proc_exit (the semaphore routines do when semop fails), which starts    *)
(* over inside the first call and never returns to it: the frames are a    *)
(* stack of which only the top one runs.                                   *)
(***************************************************************************)
EXTENDS Integers, Sequences, FiniteSets

CONSTANTS
  MAX_ON_EXITS,  \* slots of a list
  MaxCallbacks   \* bound on the registrations

ASSUME ExitAssumption == MAX_ON_EXITS \in Nat \ {0} /\ MaxCallbacks \in Nat

VARIABLES
  OnExitList,    \* [{"proc", "shmem"} -> the slots]
  OnExitIndex,   \* [{"proc", "shmem"} -> the next free slot]
  registered,    \* registrations so far
  pending,       \* those that have to be called, of each list
  called,        \* those that were, in order
  frames         \* what the process is in the middle of, innermost last

exitVars == <<OnExitList, OnExitIndex, registered, pending, called, frames>>

Kinds == {"proc", "shmem"}
Slots == 0..MAX_ON_EXITS - 1

ExitInit ==
  /\ OnExitList = [k \in Kinds |-> [i \in Slots |-> 0]]
  /\ OnExitIndex = [k \in Kinds |-> 0]
  /\ registered = 0
  /\ pending = [k \in Kinds |-> {}]
  /\ called = <<>>
  /\ frames = <<>>

Top == IF frames = <<>> THEN "main" ELSE frames[Len(frames)]
Pop == SubSeq(frames, 1, Len(frames) - 1)

\* The callback that runs, if any, is one of proc_exit's own.
InProcCallback == Top = "callback" /\ frames[Len(frames) - 1] = "proc"

\* on_proc_exit and on_shmem_exit, from the program or from a callback, while
\* there is a slot.  Past the last one the code reports, elog returns, and it
\* stores behind the array: that is left out, the callers register few enough.
\* A shared memory callback registered when shmem_exit is over would never be
\* called; no callback of the program does that.
on_exit(k) ==
  /\ Top \in {"main", "callback"}
  /\ k = "shmem" => ~InProcCallback
  /\ registered < MaxCallbacks
  /\ OnExitIndex[k] < MAX_ON_EXITS
  /\ registered' = registered + 1
  /\ OnExitList' = [OnExitList EXCEPT ![k][OnExitIndex[k]] = registered + 1]
  /\ OnExitIndex' = [OnExitIndex EXCEPT ![k] = @ + 1]
  /\ pending' = [pending EXCEPT ![k] = @ \cup {registered + 1}]
  /\ UNCHANGED <<called, frames>>

\* on_exit_reset, in a process that has just been forked.
on_exit_reset ==
  /\ Top = "main"
  /\ OnExitIndex' = [k \in Kinds |-> 0]
  /\ pending' = [k \in Kinds |-> {}]
  /\ UNCHANGED <<OnExitList, registered, called, frames>>

\* proc_exit does the shared memory exits first.  Mutant: it leaves them out.
proc_exit_only ==
  /\ Top \in {"main", "callback"}
  /\ frames' = frames \o <<"proc">>
  /\ UNCHANGED <<OnExitList, OnExitIndex, registered, pending, called>>

proc_exit ==
  /\ Top \in {"main", "callback"}
  /\ frames' = frames \o <<"proc", "shmem">>
  /\ UNCHANGED <<OnExitList, OnExitIndex, registered, pending, called>>

\* shmem_exit on its own: the postmaster reinitialises shared memory.
shmem_exit ==
  /\ Top = "main"
  /\ frames' = frames \o <<"shmem">>
  /\ UNCHANGED <<OnExitList, OnExitIndex, registered, pending, called>>

\* One turn of the loop of either: the slot is given up before the callback
\* runs.  Mutant: after it has run, so that a nested exit finds it again.
Turn_after(k) ==
  /\ Top = k
  /\ OnExitIndex[k] > 0
  /\ LET c == OnExitList[k][OnExitIndex[k] - 1]
     IN /\ called' = Append(called, c)
        /\ pending' = [pending EXCEPT ![k] = @ \ {c}]
  /\ frames' = Append(frames, "callback")
  /\ UNCHANGED <<OnExitList, OnExitIndex, registered>>

Turn(k) ==
  /\ Top = k
  /\ OnExitIndex[k] > 0
  /\ OnExitIndex' = [OnExitIndex EXCEPT ![k] = @ - 1]
  /\ LET c == OnExitList[k][OnExitIndex[k] - 1]
     IN /\ called' = Append(called, c)
        /\ pending' = [pending EXCEPT ![k] = @ \ {c}]
  /\ frames' = Append(frames, "callback")
  /\ UNCHANGED <<OnExitList, registered>>

Returns ==
  /\ Top = "callback"
  /\ frames' = Pop
  /\ UNCHANGED <<OnExitList, OnExitIndex, registered, pending, called>>

\* The loop ends with the index at -1.  shmem_exit puts it back to 0, for the
\* callbacks of the next life of shared memory; proc_exit calls exit.
\* Mutants: shmem_exit does not; proc_exit returns.
Ends_negative(k) ==
  /\ Top = k
  /\ OnExitIndex[k] <= 0
  /\ OnExitIndex' = [OnExitIndex EXCEPT ![k] = -1]
  /\ frames' = IF k = "shmem" THEN Pop ELSE <<"exited">>
  /\ UNCHANGED <<OnExitList, registered, pending, called>>

Ends_returns(k) ==
  /\ Top = k
  /\ OnExitIndex[k] <= 0
  /\ OnExitIndex' = [OnExitIndex EXCEPT ![k] = 0]
  /\ frames' = Pop
  /\ UNCHANGED <<OnExitList, registered, pending, called>>

Ends(k) ==
  /\ Top = k
  /\ OnExitIndex[k] <= 0
  /\ OnExitIndex' = [OnExitIndex EXCEPT ![k] = IF k = "shmem" THEN 0 ELSE -1]
  /\ frames' = IF k = "shmem" THEN Pop ELSE <<"exited">>
  /\ UNCHANGED <<OnExitList, registered, pending, called>>

ExitStep == Returns \/ \E k \in Kinds : Turn(k) \/ Ends(k)

ExitNext ==
  \/ \E k \in Kinds : on_exit(k)
  \/ on_exit_reset \/ shmem_exit \/ proc_exit \/ ExitStep

----------------------------------------------------------------------------
\* The types of the variables; no index leaves its list while callbacks add
\* to it (on_proc_exit, proc_exit).
ExitTypeOK ==
  /\ OnExitList \in [Kinds -> [Slots -> 0..MaxCallbacks]]
  /\ OnExitIndex \in [Kinds -> -1..MAX_ON_EXITS]
  /\ registered \in 0..MaxCallbacks
  /\ called \in Seq(1..MaxCallbacks)
  /\ frames \in Seq({"proc", "shmem", "callback", "exited"})

\* "it won't be invoked again when control comes back here": no registration
\* is called twice, although a callback may start proc_exit over and others
\* are added while the list is worked off.
CalledOnce == \A i, j \in DOMAIN called : called[i] = called[j] => i = j

\* Nothing is forgotten: a process is gone only when every callback that was
\* registered, and not reset, has been called.
AllCalled == Top = "exited" => \A k \in Kinds : pending[k] = {}

\* The shared memory callbacks are all called before the first of the others
\* ("Do our shared memory exits first").
ShmemFirst ==
  [][\A i \in DOMAIN called' : i > Len(called) /\ called'[i] \in pending["proc"] => pending["shmem"] = {}]_exitVars

\* "an infinite loop should not be possible": a process that has started to
\* exit does.
ExitEnds == Top = "proc" ~> Top = "exited"

\* Every callback is called once and in its turn before the process is gone.
CallbacksOnce == [](ExitTypeOK /\ CalledOnce /\ AllCalled) /\ ShmemFirst
=============================================================================
