-------------------------------- MODULE SLock -------------------------------
(***************************************************************************)
(* The test-and-set spinlock of storage/s_lock.h and                        *)
(* storage/buffer/s_lock.c.  One exchange is one step; the sleep between   *)
(* two of them is other processes' time.                                   *)
(***************************************************************************)
EXTENDS Integers, FiniteSets

CONSTANTS
  Spinners,    \* the processes
  S_MAX_BUSY   \* exchanges that may fail in s_lock before it aborts

ASSUME SLockAssumption == IsFiniteSet(Spinners) /\ S_MAX_BUSY \in Nat

VARIABLES
  word,     \* the TasLock
  state,    \* per process: out, spinning, in, aborted
  spins     \* per process

slockVars == <<word, state, spins>>

SLockInit ==
  /\ word = 0
  /\ state = [p \in Spinners |-> "out"]
  /\ spins = [p \in Spinners |-> 0]

\* TAS: the old value of the word, which is set.
Enters(p, next) ==
  /\ word' = 1
  /\ state' = [state EXCEPT ![p] = IF word = 0 THEN "in" ELSE next]

\* LOCK_ACQUIRE tries once before it calls s_lock.
LOCK_ACQUIRE(p) ==
  /\ state[p] = "out"
  /\ Enters(p, "spinning")
  /\ spins' = [spins EXCEPT ![p] = 0]

\* A turn of s_lock: sleep, count, give up when the lock is stuck.  Mutant: it
\* does not give up.
s_lock_forever(p) ==
  /\ state[p] = "spinning"
  /\ Enters(p, "spinning")
  /\ UNCHANGED spins

s_lock(p) ==
  /\ state[p] = "spinning"
  /\ Enters(p, IF spins[p] + 1 > S_MAX_BUSY THEN "aborted" ELSE "spinning")
  /\ spins' = [spins EXCEPT ![p] = IF word = 0 THEN @ ELSE @ + 1]

\* LOCK_RELEASE is a plain store.  Mutant: by a process that gives up, too.
LOCK_RELEASE_any(p) ==
  /\ state[p] \in {"in", "aborted"}
  /\ word' = 0
  /\ state' = [state EXCEPT ![p] = "out"]
  /\ UNCHANGED spins

LOCK_RELEASE(p) ==
  /\ state[p] = "in"
  /\ word' = 0
  /\ state' = [state EXCEPT ![p] = "out"]
  /\ UNCHANGED spins

SLockNext == \E p \in Spinners : LOCK_ACQUIRE(p) \/ s_lock(p) \/ LOCK_RELEASE(p)

----------------------------------------------------------------------------
\* One process is in at a time, and the word is set exactly while one is.
SLockExclusive ==
  word = Cardinality({p \in Spinners : state[p] = "in"})

\* Nobody spins for ever: a process gets the lock or aborts, even when the
\* one that holds it never lets go.
SpinEnds == \A p \in Spinners : state[p] = "spinning" ~> state[p] # "spinning"
=============================================================================
