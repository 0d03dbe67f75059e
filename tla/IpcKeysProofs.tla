--------------------------- MODULE IpcKeysProofs ----------------------------
(***************************************************************************)
(* Proofs about IpcKeys, for every set of processes and every number of    *)
(* postmasters ever started: Spec => []ObjectsKept.                        *)
(*                                                                         *)
(* The inductive invariant IpcInv says who has which object (Lives), who   *)
(* may have marked it (Marks), that an object about to be removed belongs  *)
(* to nobody alive (Finds), which callbacks a process has registered       *)
(* (Registered), and that each key a search has passed over is paid for by *)
(* an object of its own (KeysPaid), which is what bounds the keys.         *)
(***************************************************************************)
EXTENDS IpcKeys, FiniteSetTheorems, SequenceTheorems, TLAPS

\* Who has which object: the n-th postmaster has object n, no two share one,
\* backends and the dead have none; it does not exist before it is made.
Lives ==
  /\ \A p \in Procs :
       /\ life[p] \in 0..lives
       /\ pc[p] \in {"dead", "forked", "backend"} => life[p] = 0
       /\ pc[p] \in Searching \cup Owning => life[p] # 0
       /\ pc[p] \in Searching => ~Exists(life[p]) /\ key[p] >= 1
       /\ \A q \in Procs : life[p] = life[q] /\ life[p] # 0 => p = q
  /\ \A i \in Ids : i > lives => ~Exists(i)

\* An object is marked by the process it belongs to, last of all.
Marks ==
  /\ \A i \in marked : i # 0 /\ i <= lives
  /\ \A p \in Procs :
       /\ pc[p] \in Searching \cup {"setup", "mark1", "mark2"} => life[p] \notin marked
       /\ pc[p] \in {"mark2", "running"} => creator[life[p]] = p

\* What is under examination was made by somebody, and what is to be removed
\* belongs to nobody alive.
FindsFor(p) ==
  /\ pc[p] \in {"probe", "check", "rmid"} =>
       /\ found[p] <= lives
       /\ \A q \in Procs : pc[q] \in Searching => life[q] # found[p]
  /\ pc[p] = "rmid" =>
       /\ found[p] # 0
       /\ \A q \in Procs : pc[q] \in Owning => life[q] # found[p]

Finds == \A p \in Procs : FindsFor(p)

\* A list of callbacks for object i: deletion, and detachment on top of it.
CallbacksOf(s, i) ==
  /\ Len(s) <= 2
  /\ Len(s) >= 1 => s[1] = <<"delete", i>>
  /\ Len(s) = 2 => s[2] = <<"detach", i>>

\* How many callbacks p has registered, by where it is.
RegisteredFor(p) ==
  /\ Len(onexit[p]) <= 2
  /\ pc[p] # "forked" => CallbacksOf(onexit[p], life[p])
  /\ pc[p] \in Searching \cup {"dead", "backend"} => Len(onexit[p]) = 0
  /\ pc[p] = "setup" => Len(onexit[p]) = IF kind = "mem" THEN 1 ELSE 0
  /\ pc[p] \in {"mark1", "mark2", "running"} =>
       Len(onexit[p]) = IF kind = "mem" THEN 2 ELSE 1
  /\ pc[p] = "exiting" =>
       /\ life[p] = 0 => Len(onexit[p]) = 0
       /\ Len(onexit[p]) = 0 /\ life[p] # 0 => ~Exists(life[p])

Callbacks == {"delete", "detach"} \X Ids

Registered ==
  /\ onexit \in [Procs -> Seq(Callbacks)]
  /\ \A p \in Procs : RegisteredFor(p)

\* Object i is gone for good: it does not exist and nobody is about to make it.
Gone(i) == ~Exists(i) /\ \A q \in Procs : pc[q] \in Searching => life[q] # i

\* The objects of others that are gone or have one of the first k keys.
Passed(p, k) ==
  {i \in 0..lives : i # life[p] /\ (Gone(i) \/ (Exists(i) /\ segKey[i] <= k))}

\* Each key a search has passed over is paid for by an object of its own.
KeysPaid ==
  \A p \in Procs :
    /\ pc[p] = "create" => key[p] - 1 <= Cardinality(Passed(p, key[p] - 1))
    /\ pc[p] \in Searching \ {"create"} => key[p] <= Cardinality(Passed(p, key[p]))

IpcInv ==
  /\ TypeOK
  /\ Lives
  /\ Marks
  /\ Finds
  /\ Registered
  /\ KeysPaid

-----------------------------------------------------------------------------
(* The counting argument.                                                  *)

\* There are finitely many objects, and at most one per postmaster besides
\* the one of another program, which makes up for the object of p itself.
LEMMA PassedFinite ==
  ASSUME IpcInv, NEW p \in Procs, NEW k \in Int, pc[p] \in Searching
  PROVE  /\ IsFiniteSet(Passed(p, k))
         /\ Cardinality(Passed(p, k)) \in Nat
         /\ Cardinality(Passed(p, k)) <= lives
<1> DEFINE A == 0..lives
<1>1. lives \in Nat /\ 0 \in Int /\ lives \in Int
  BY IpcAssumption, SMTT(60) DEF IpcInv, TypeOK, Ids
<1>2. IsFiniteSet(A) /\ Cardinality(A) = lives + 1
  BY <1>1, FS_Interval
<1>3. life[p] \in A
  BY DEF IpcInv, Lives
<1>4. IsFiniteSet(A \ {life[p]}) /\ Cardinality(A \ {life[p]}) = Cardinality(A) - 1
  BY <1>2, <1>3, FS_RemoveElement
<1>5. Passed(p, k) \subseteq A \ {life[p]}
  BY DEF Passed
<1>6. IsFiniteSet(Passed(p, k)) /\ Cardinality(Passed(p, k)) <= Cardinality(A \ {life[p]})
  BY <1>4, <1>5, FS_Subset
<1>7. Cardinality(Passed(p, k)) \in Nat
  BY <1>6, FS_CardinalityType
<1> QED BY <1>1, <1>2, <1>4, <1>6, <1>7

\* A search that has looked at the object with its key has a next key to try.
LEMMA KeyBound ==
  ASSUME IpcInv, NEW p \in Procs, pc[p] \in Searching \ {"create"}
  PROVE  key[p] + 1 \in 0..(MaxLives + 1)
<1>1. key[p] \in Nat /\ lives \in Nat /\ lives <= MaxLives /\ MaxLives \in Nat
  BY IpcAssumption, SMTT(60) DEF IpcInv, TypeOK, Ids
<1>2. Cardinality(Passed(p, key[p])) \in Nat /\ Cardinality(Passed(p, key[p])) <= lives
  BY <1>1, PassedFinite
<1>3. key[p] <= Cardinality(Passed(p, key[p]))
  BY DEF IpcInv, KeysPaid
<1> QED BY <1>1, <1>2, <1>3

\* A step that makes no object that was gone, and changes the key of one only
\* by removing it for good.
Steady ==
  /\ lives \in Nat /\ lives' \in Nat /\ lives <= lives'
  /\ \A i \in 0..lives : Gone(i) => Gone(i)'
  /\ \A i \in 0..lives : Exists(i) => (segKey'[i] = segKey[i] \/ Gone(i)')

\* What p's search does to its key: nothing, a first key, a collision noticed,
\* or the next key.
KeyStep(p) ==
  pc'[p] \in Searching =>
    \/ pc'[p] = "create" /\ key'[p] = 1
    \/ /\ pc[p] \in Searching /\ life'[p] = life[p]
       /\ \/ pc'[p] = "create" /\ pc[p] = "create" /\ key'[p] = key[p]
          \/ pc'[p] = "create" /\ pc[p] # "create" /\ key'[p] = key[p] + 1
          \/ pc'[p] # "create" /\ pc[p] # "create" /\ key'[p] = key[p]
          \/ /\ pc'[p] = "lookup" /\ pc[p] = "create" /\ key'[p] = key[p]
             /\ segKey' = segKey
             /\ \E i \in Ids : segKey[i] = key[p]

\* Such a step passes over no fewer objects.
LEMMA PassedGrows ==
  ASSUME IpcInv, Steady, NEW p \in Procs, NEW k \in Int, pc[p] \in Searching,
         life'[p] = life[p], NEW l \in Int, k <= l
  PROVE  /\ Passed(p, k) \subseteq Passed(p, l)'
         /\ IsFiniteSet(Passed(p, l)')
         /\ Cardinality(Passed(p, l)') \in Nat
         /\ Cardinality(Passed(p, k)) \in Nat
         /\ Cardinality(Passed(p, k)) <= Cardinality(Passed(p, l)')
<1>1. \A i \in 0..lives : i \in 0..lives' /\ i \in Ids
  BY IpcAssumption, SMTT(60) DEF Steady, IpcInv, TypeOK, Ids
<1>2. Passed(p, k) \subseteq Passed(p, l)'
  <2> SUFFICES ASSUME NEW i \in 0..lives, i # life[p], Gone(i) \/ (Exists(i) /\ segKey[i] <= k)
               PROVE  i \in 0..lives' /\ (Gone(i)' \/ (Exists(i)' /\ segKey'[i] <= l))
    BY DEF Passed
  <2>1. segKey[i] \in Int
    BY <1>1, SMTT(60) DEF IpcInv, TypeOK
  <2>2. CASE Gone(i)
    BY <2>2, <1>1 DEF Steady
  <2>3. CASE Exists(i) /\ segKey[i] <= k
    BY <2>1, <2>3, <1>1 DEF Steady, Exists
  <2> QED BY <2>2, <2>3
<1>3. IsFiniteSet(0..lives')
  BY FS_Interval DEF Steady
<1>4. IsFiniteSet(Passed(p, l)')
  <2>1. Passed(p, l)' \subseteq 0..lives'
    BY DEF Passed
  <2> QED BY <2>1, <1>3, FS_Subset
<1>5. Cardinality(Passed(p, k)) <= Cardinality(Passed(p, l)')
  BY <1>2, <1>4, FS_Subset
<1>6. Cardinality(Passed(p, l)') \in Nat /\ Cardinality(Passed(p, k)) \in Nat
  BY <1>4, PassedFinite, FS_CardinalityType
<1> QED BY <1>2, <1>4, <1>5, <1>6

\* So the keys stay paid for.
LEMMA KeysStep ==
  ASSUME IpcInv, Steady, \A p \in Procs : KeyStep(p)
  PROVE  KeysPaid'
<1> SUFFICES ASSUME NEW p \in Procs, pc'[p] \in Searching, NEW k \in Int,
                    pc'[p] = "create" => key'[p] = k + 1,
                    pc'[p] # "create" => key'[p] = k
             PROVE  k <= Cardinality(Passed(p, k)')
  <2>1. ASSUME NEW p \in Procs, pc'[p] \in Searching
        PROVE  key'[p] \in Int
    BY <2>1, IpcAssumption, SMTT(60) DEF KeyStep, IpcInv, TypeOK
  <2> SUFFICES ASSUME NEW p \in Procs, pc'[p] \in Searching
               PROVE  IF pc'[p] = "create"
                      THEN key'[p] - 1 <= Cardinality(Passed(p, key[p] - 1)')
                      ELSE key'[p] <= Cardinality(Passed(p, key[p])')
    BY DEF KeysPaid, Searching
  <2>2. key'[p] \in Int /\ key'[p] - 1 \in Int /\ key'[p] = (key'[p] - 1) + 1
    BY <2>1
  <2>3. CASE pc'[p] = "create"
    <3>1. PICK k \in Int : k = key'[p] - 1
      BY <2>2
    <3>2. k <= Cardinality(Passed(p, k)')
      BY <3>1, <2>2, <2>3
    <3>3. Passed(p, k)' = Passed(p, key[p] - 1)'
      BY <3>1 DEF Passed
    <3> QED BY <3>1, <3>2, <3>3, <2>3
  <2>4. CASE pc'[p] # "create"
    <3>1. PICK k \in Int : k = key'[p]
      BY <2>2
    <3>2. k <= Cardinality(Passed(p, k)')
      BY <3>1, <2>2, <2>4
    <3>3. Passed(p, k)' = Passed(p, key[p])'
      BY <3>1 DEF Passed
    <3> QED BY <3>1, <3>2, <3>3, <2>4
  <2> QED BY <2>3, <2>4
<1>1. KeyStep(p) /\ key[p] \in Int /\ lives \in Nat
  BY IpcAssumption, SMTT(60) DEF IpcInv, TypeOK, Ids
<1>2. CASE pc'[p] = "create" /\ key'[p] = 1
  <2>1. IsFiniteSet(Passed(p, k)')
    <3>1. Passed(p, k)' \subseteq 0..lives'
      BY DEF Passed
    <3>2. IsFiniteSet(0..lives')
      BY FS_Interval DEF Steady
    <3> QED BY <3>1, <3>2, FS_Subset
  <2>2. Cardinality(Passed(p, k)') \in Nat
    BY <2>1, FS_CardinalityType
  <2> QED BY <1>2, <2>2
<1>3. CASE /\ pc[p] \in Searching /\ life'[p] = life[p]
           /\ pc'[p] = "create" /\ pc[p] = "create" /\ key'[p] = key[p]
  <2>1. k = key[p] - 1
    BY <1>1, <1>3
  <2>2. k <= Cardinality(Passed(p, k))
    BY <2>1, <1>3 DEF IpcInv, KeysPaid
  <2>3. /\ Cardinality(Passed(p, k)) <= Cardinality(Passed(p, k)')
        /\ Cardinality(Passed(p, k)) \in Nat
        /\ Cardinality(Passed(p, k)') \in Nat
    BY <1>3, PassedGrows
  <2> QED BY <2>2, <2>3
<1>4. CASE /\ pc[p] \in Searching /\ life'[p] = life[p] /\ pc[p] # "create"
           /\ \/ pc'[p] = "create" /\ key'[p] = key[p] + 1
              \/ pc'[p] # "create" /\ key'[p] = key[p]
  <2>1. k = key[p]
    BY <1>1, <1>4
  <2>2. k <= Cardinality(Passed(p, k))
    BY <2>1, <1>4 DEF IpcInv, KeysPaid
  <2>3. /\ Cardinality(Passed(p, k)) <= Cardinality(Passed(p, k)')
        /\ Cardinality(Passed(p, k)) \in Nat
        /\ Cardinality(Passed(p, k)') \in Nat
    BY <1>4, PassedGrows
  <2> QED BY <2>2, <2>3
<1>5. CASE /\ pc[p] \in Searching /\ life'[p] = life[p]
           /\ pc'[p] = "lookup" /\ pc[p] = "create" /\ key'[p] = key[p]
           /\ segKey' = segKey
           /\ \E i \in Ids : segKey[i] = key[p]
  <2>1. k = key[p] /\ k - 1 \in Int /\ k - 1 <= k
    BY <1>1, <1>5
  <2> DEFINE P == Passed(p, k - 1)  Q == Passed(p, k)'
  <2>2. k - 1 <= Cardinality(P)
    BY <2>1, <1>5 DEF IpcInv, KeysPaid
  <2>3. PICK i \in Ids : segKey[i] = k
    BY <1>5, <2>1
  <2>4. Exists(i) /\ i \in 0..lives /\ i # life[p]
    <3>1. key[p] >= 1 /\ ~Exists(life[p])
      BY <1>5 DEF IpcInv, Lives
    <3>2. Exists(i) /\ i # life[p]
      BY <2>1, <2>3, <3>1 DEF Exists
    <3> QED BY <3>2, IpcAssumption DEF IpcInv, Lives, Ids, TypeOK
  <2>5. i \notin P
    BY <2>3, <2>4 DEF Passed, Gone
  <2>6. P \subseteq Q /\ IsFiniteSet(Q) /\ Cardinality(Q) \in Nat /\ Cardinality(P) \in Nat
    BY <2>1, <1>5, PassedGrows
  <2>7. i \in Q
    BY <2>3, <2>4, <1>5 DEF Passed, Exists, Steady
  <2>8. IsFiniteSet(P)
    BY <2>1, <1>5, PassedFinite
  <2>9. P \cup {i} \subseteq Q
    BY <2>6, <2>7
  <2> HIDE DEF P, Q
  <2>10. Cardinality(P \cup {i}) = Cardinality(P) + 1
    BY <2>5, <2>8, FS_AddElement
  <2>11. Cardinality(P \cup {i}) <= Cardinality(Q)
    BY <2>6, <2>9, FS_Subset
  <2>12. k <= Cardinality(Q)
    BY <2>2, <2>6, <2>10, <2>11
  <2> QED BY <2>12 DEF Q
<1> QED BY <1>1, <1>2, <1>3, <1>4, <1>5 DEF KeyStep

\* The length of a list that has something to call.
LEMMA OneOrTwo ==
  ASSUME NEW n \in Nat, n # 0, n <= 2
  PROVE  n \in {1, 2}
OBVIOUS

-----------------------------------------------------------------------------
(* Steps of others.                                                        *)

\* What a process has registered is its own affair.
LEMMA RegisteredStays ==
  ASSUME NEW r \in Procs, RegisteredFor(r), onexit'[r] = onexit[r], pc'[r] = pc[r],
         life'[r] = life[r], kind' = kind, segKey[life[r]] = 0 => segKey'[life[r]] = 0
  PROVE  RegisteredFor(r)'
BY DEF RegisteredFor, CallbacksOf, Exists

-----------------------------------------------------------------------------
(* One lemma per action.                                                   *)

\* IpcInv survives a search that goes on with the next key.
LEMMA NextKeyStep ==
  ASSUME IpcInv, NEW p \in Procs, pc[p] \in Searching \ {"create"},
         NextKey(p), att' \in [Ids -> SUBSET Procs],
         UNCHANGED <<kind, segKey, creator, marked, lives, life, onexit>>
  PROVE  IpcInv'
<1> USE IpcAssumption DEF Searching, Owning
<1>1. Registered'
  <2>1. onexit' \in [Procs -> Seq(Callbacks)]
    BY SMTT(60) DEF Registered, IpcInv, TypeOK, Lives, Ids, Alive, Exists, Goto, kernelVars, NextKey
  <2>2. \A r \in Procs : r # p => RegisteredFor(r)'
    BY RegisteredStays, SMTT(60) DEF Registered, IpcInv, TypeOK, Lives, Ids, Alive, Exists, Goto, kernelVars, NextKey
  <2>3. RegisteredFor(p)'
    BY ZenonT(60) DEF Registered, RegisteredFor, CallbacksOf, IpcInv, TypeOK, Lives, Ids, Alive, Exists, Goto, kernelVars, NextKey
  <2> QED BY <2>1, <2>2, <2>3 DEF Registered
<1>2. TypeOK'
  <2>1. key' \in [Procs -> 0..(MaxLives + 1)]
    BY KeyBound, SMTT(60) DEF IpcInv, TypeOK, NextKey
  <2>2. \A r \in Procs : Len(onexit'[r]) <= 2
    BY <1>1 DEF Registered, RegisteredFor
  <2> QED BY <2>1, <2>2, SMTT(60) DEF IpcInv, TypeOK, Ids, Goto, NextKey
<1>3. Lives'
  BY SMTT(60) DEF IpcInv, TypeOK, Lives, Ids, Alive, Exists, Goto, kernelVars, NextKey
<1>4. Marks'
  BY SMTT(60) DEF IpcInv, TypeOK, Lives, Marks, Ids, Alive, Exists, Goto, kernelVars, NextKey
<1>5. Finds'
  BY SMTT(60) DEF IpcInv, TypeOK, Lives, Marks, Finds, FindsFor, Ids, Alive, Exists, LooksDead, Goto, kernelVars, NextKey
<1>6. KeysPaid'
  <2>1. Steady
    BY <1>2, SMTT(60) DEF IpcInv, TypeOK, Lives, Finds, FindsFor, Steady, Gone, Ids, Alive, Exists, Goto, kernelVars, NextKey
  <2>2. \A r \in Procs : KeyStep(r)
    BY ZenonT(60) DEF IpcInv, TypeOK, Lives, KeyStep, Ids, Alive, Exists, Goto, kernelVars, NextKey
  <2> QED BY <2>1, <2>2, KeysStep
<1> QED BY <1>1, <1>2, <1>3, <1>4, <1>5, <1>6 DEF IpcInv

\* IpcInv survives a postmaster that starts.
LEMMA StartStep ==
  ASSUME IpcInv, NEW p \in Procs, Start(p)
  PROVE  IpcInv'
<1> USE IpcAssumption DEF Searching, Owning
<1>1. Registered'
  <2>1. onexit' \in [Procs -> Seq(Callbacks)]
    BY SMTT(60) DEF Registered, IpcInv, TypeOK, Lives, Ids, Alive, Exists, Goto, kernelVars, Start
  <2>2. \A r \in Procs : r # p => RegisteredFor(r)'
    BY RegisteredStays, SMTT(60) DEF Registered, IpcInv, TypeOK, Lives, Ids, Alive, Exists, Goto, kernelVars, Start
  <2>3. RegisteredFor(p)'
    BY SMTT(60) DEF Registered, RegisteredFor, CallbacksOf, IpcInv, TypeOK, Lives, Ids, Alive, Exists, Goto, kernelVars, Start
  <2> QED BY <2>1, <2>2, <2>3 DEF Registered
<1>2. TypeOK'
  <2>1. \A r \in Procs : Len(onexit'[r]) <= 2
    BY <1>1 DEF Registered, RegisteredFor
  <2>2. lives + 1 \in Ids /\ 1 \in 0..(MaxLives + 1)
    BY SMTT(60) DEF IpcInv, TypeOK, Ids, Start
  <2>3. life' \in [Procs -> Ids] /\ key' \in [Procs -> 0..(MaxLives + 1)] /\ lives' \in Ids
    BY <2>2, SMTT(60) DEF IpcInv, TypeOK, Start
  <2>4. pc' \in [Procs -> Searching \cup Owning \cup {"dead", "forked", "backend", "exiting"}]
    BY SMTT(60) DEF IpcInv, TypeOK, Start, Goto
  <2> QED BY <2>1, <2>3, <2>4, ZenonT(60) DEF IpcInv, TypeOK, Start, kernelVars
<1>3. Lives'
  BY SMTT(60) DEF IpcInv, TypeOK, Lives, Ids, Alive, Exists, Goto, kernelVars, Start
<1>4. Marks'
  BY SMTT(60) DEF IpcInv, TypeOK, Lives, Marks, Ids, Alive, Exists, Goto, kernelVars, Start
<1>5. Finds'
  <2>1. ASSUME NEW r \in Procs, r # p PROVE FindsFor(r)'
    <3>1. /\ pc'[r] = pc[r] /\ found' = found /\ life'[p] = lives + 1 /\ lives' = lives + 1
          /\ \A q \in Procs : q # p => pc'[q] = pc[q] /\ life'[q] = life[q]
      BY <2>1 DEF IpcInv, TypeOK, Goto, Start
    <3>2. lives \in Nat /\ found[r] \in Int /\ pc'[p] \notin Owning
      BY DEF IpcInv, TypeOK, Ids, Goto, Start
    <3>3. pc[r] \in {"probe", "check", "rmid"} => lives + 1 # found[r] /\ found[r] <= lives + 1
      BY <3>2 DEF IpcInv, Finds, FindsFor
    <3> QED BY <3>1, <3>2, <3>3 DEF IpcInv, Finds, FindsFor
  <2>2. FindsFor(p)'
    BY DEF IpcInv, TypeOK, Goto, Start, FindsFor
  <2> QED BY <2>1, <2>2 DEF Finds
<1>6. KeysPaid'
  <2>1. Steady
    BY <1>2, SMTT(60) DEF IpcInv, TypeOK, Lives, Finds, FindsFor, Steady, Gone, Ids, Alive, Exists, Goto, kernelVars, Start
  <2>2. \A r \in Procs : KeyStep(r)
    BY SMTT(60) DEF IpcInv, TypeOK, Lives, KeyStep, Ids, Alive, Exists, Goto, kernelVars, Start
  <2> QED BY <2>1, <2>2, KeysStep
<1> QED BY <1>1, <1>2, <1>3, <1>4, <1>5, <1>6 DEF IpcInv

\* IpcInv survives a search that makes its object.
LEMMA InternalCreateStep ==
  ASSUME IpcInv, NEW p \in Procs, InternalCreate(p)
  PROVE  IpcInv'
<1> USE IpcAssumption DEF Searching, Owning
<1>1. Registered'
  <2>1. onexit' \in [Procs -> Seq(Callbacks)]
    <3>1. onexit[p] \in Seq(Callbacks) /\ <<"delete", life[p]>> \in Callbacks
      BY SMTT(60) DEF Registered, IpcInv, TypeOK, Callbacks
    <3>2. Append(onexit[p], <<"delete", life[p]>>) \in Seq(Callbacks)
      BY <3>1, AppendProperties
    <3> QED BY <3>1, <3>2 DEF IpcInv, Registered, InternalCreate
  <2>2. \A r \in Procs : r # p => RegisteredFor(r)'
    BY RegisteredStays, SMTT(60) DEF Registered, IpcInv, TypeOK, Lives, Ids, Alive, Exists, Goto, kernelVars, InternalCreate
  <2>3. RegisteredFor(p)'
    <3>1. onexit[p] \in Seq(Callbacks) /\ <<"delete", life[p]>> \in Callbacks
      BY SMTT(60) DEF Registered, IpcInv, TypeOK, Callbacks
    <3>2. Len(onexit[p]) = 0
      BY DEF IpcInv, Registered, RegisteredFor, InternalCreate
    <3>3. /\ Len(Append(onexit[p], <<"delete", life[p]>>)) = 1
          /\ Append(onexit[p], <<"delete", life[p]>>)[1] = <<"delete", life[p]>>
      BY <3>1, <3>2, AppendProperties
    <3>4. /\ kind = "mem" => onexit'[p] = Append(onexit[p], <<"delete", life[p]>>)
          /\ kind # "mem" => onexit'[p] = onexit[p]
          /\ pc'[p] = "setup" /\ life'[p] = life[p] /\ kind' = kind
      BY SMTT(60) DEF InternalCreate, Goto, IpcInv, TypeOK, Registered
    <3>5. CASE kind = "mem"
      <4>1. Len(onexit'[p]) = 1 /\ onexit'[p][1] = <<"delete", life[p]>>
        BY <3>3, <3>4, <3>5
      <4> QED BY <3>4, <3>5, <4>1 DEF RegisteredFor, CallbacksOf
    <3>6. CASE kind # "mem"
      BY <3>2, <3>4, <3>6 DEF RegisteredFor, CallbacksOf
    <3> QED BY <3>5, <3>6
  <2> QED BY <2>1, <2>2, <2>3 DEF Registered
<1>2. TypeOK'
  <2>1. \A r \in Procs : Len(onexit'[r]) <= 2
    BY <1>1 DEF Registered, RegisteredFor
  <2> QED BY <2>1, ZenonT(60) DEF IpcInv, TypeOK, Ids, Alive, Exists, Goto, kernelVars, InternalCreate
<1>3. Lives'
  BY SMTT(60) DEF IpcInv, TypeOK, Lives, Ids, Alive, Exists, Goto, kernelVars, InternalCreate
<1>4. Marks'
  BY SMTT(60) DEF IpcInv, TypeOK, Lives, Marks, Ids, Alive, Exists, Goto, kernelVars, InternalCreate
<1>5. Finds'
  BY SMTT(60) DEF IpcInv, TypeOK, Lives, Marks, Finds, FindsFor, Ids, Alive, Exists, LooksDead, Goto, kernelVars, InternalCreate
<1>6. KeysPaid'
  <2>1. Steady
    BY <1>2, SMTT(60) DEF IpcInv, TypeOK, Lives, Finds, FindsFor, Steady, Gone, Ids, Alive, Exists, Goto, kernelVars, InternalCreate
  <2>2. \A r \in Procs : KeyStep(r)
    BY SMTT(60) DEF IpcInv, TypeOK, Lives, KeyStep, Ids, Alive, Exists, Goto, kernelVars, InternalCreate
  <2> QED BY <2>1, <2>2, KeysStep
<1> QED BY <1>1, <1>2, <1>3, <1>4, <1>5, <1>6 DEF IpcInv

\* IpcInv survives the set-up of a new object.
LEMMA SetupStep ==
  ASSUME IpcInv, NEW p \in Procs, Setup(p)
  PROVE  IpcInv'
<1> USE IpcAssumption DEF Searching, Owning
<1> DEFINE c == <<IF kind = "mem" THEN "detach" ELSE "delete", life[p]>>
<1>1. Registered'
  <2>1. onexit' \in [Procs -> Seq(Callbacks)]
    <3>1. onexit[p] \in Seq(Callbacks) /\ c \in Callbacks
      BY SMTT(60) DEF Registered, IpcInv, TypeOK, Callbacks
    <3>2. Append(onexit[p], c) \in Seq(Callbacks)
      BY <3>1, AppendProperties
    <3> QED BY <3>1, <3>2 DEF IpcInv, Registered, Setup
  <2>2. \A r \in Procs : r # p => RegisteredFor(r)'
    BY RegisteredStays, SMTT(60) DEF Registered, IpcInv, TypeOK, Lives, Ids, Alive, Exists, Goto, kernelVars, Setup
  <2>3. RegisteredFor(p)'
    <3>1. onexit[p] \in Seq(Callbacks) /\ c \in Callbacks
      BY SMTT(60) DEF Registered, IpcInv, TypeOK, Callbacks
    <3>2. /\ Len(onexit[p]) = IF kind = "mem" THEN 1 ELSE 0
          /\ Len(onexit[p]) = 1 => onexit[p][1] = <<"delete", life[p]>>
      BY DEF IpcInv, Registered, RegisteredFor, CallbacksOf, Setup
    <3>3. /\ onexit'[p] = Append(onexit[p], c)
          /\ pc'[p] = "mark1" /\ life'[p] = life[p] /\ kind' = kind
      BY SMTT(60) DEF Setup, Goto, IpcInv, TypeOK, Registered
    <3>4. CASE kind = "mem"
      <4>1. /\ Len(onexit'[p]) = 2 /\ onexit'[p][1] = onexit[p][1]
            /\ onexit'[p][2] = <<"detach", life[p]>>
        BY <3>1, <3>2, <3>3, <3>4, AppendProperties
      <4> QED BY <4>1, <3>2, <3>3, <3>4 DEF RegisteredFor, CallbacksOf
    <3>5. CASE kind # "mem"
      <4>1. Len(onexit'[p]) = 1 /\ onexit'[p][1] = <<"delete", life[p]>>
        BY <3>1, <3>2, <3>3, <3>5, AppendProperties
      <4> QED BY <4>1, <3>3, <3>5 DEF RegisteredFor, CallbacksOf
    <3> QED BY <3>4, <3>5
  <2> QED BY <2>1, <2>2, <2>3 DEF Registered
<1>2. TypeOK'
  <2>1. \A r \in Procs : Len(onexit'[r]) <= 2
    BY <1>1 DEF Registered, RegisteredFor
  <2> QED BY <2>1, ZenonT(60) DEF IpcInv, TypeOK, Ids, Alive, Exists, Goto, kernelVars, Setup
<1>3. Lives'
  BY ZenonT(60) DEF IpcInv, TypeOK, Lives, Ids, Alive, Exists, Goto, kernelVars, Setup
<1>4. Marks'
  BY SMTT(60) DEF IpcInv, TypeOK, Lives, Marks, Ids, Alive, Exists, Goto, kernelVars, Setup
<1>5. Finds'
  BY SMTT(60) DEF IpcInv, TypeOK, Lives, Marks, Finds, FindsFor, Ids, Alive, Exists, LooksDead, Goto, kernelVars, Setup
<1>6. KeysPaid'
  <2>1. Steady
    BY <1>2, SMTT(60) DEF IpcInv, TypeOK, Lives, Finds, FindsFor, Steady, Gone, Ids, Alive, Exists, Goto, kernelVars, Setup
  <2>2. \A r \in Procs : KeyStep(r)
    BY SMTT(60) DEF IpcInv, TypeOK, Lives, KeyStep, Ids, Alive, Exists, Goto, kernelVars, Setup
  <2> QED BY <2>1, <2>2, KeysStep
<1> QED BY <1>1, <1>2, <1>3, <1>4, <1>5, <1>6 DEF IpcInv

\* IpcInv survives a set-up that fails.
LEMMA SetupFailsStep ==
  ASSUME IpcInv, NEW p \in Procs, SetupFails(p)
  PROVE  IpcInv'
<1> USE IpcAssumption DEF Searching, Owning
<1>1. Registered'
  <2>1. onexit' \in [Procs -> Seq(Callbacks)]
    BY SMTT(60) DEF Registered, IpcInv, TypeOK, Lives, Ids, Alive, Exists, Goto, kernelVars, SetupFails
  <2>2. \A r \in Procs : r # p => RegisteredFor(r)'
    BY RegisteredStays, SMTT(60) DEF Registered, IpcInv, TypeOK, Lives, Ids, Alive, Exists, Goto, kernelVars, SetupFails
  <2>3. RegisteredFor(p)'
    <3>1. /\ onexit'[p] = onexit[p] /\ life'[p] = life[p]
          /\ pc'[p] = "exiting" /\ kind' = kind /\ life[p] # 0 /\ life[p] \in Ids
      BY SMTT(60) DEF SetupFails, Goto, IpcInv, TypeOK, Registered, Lives
    <3>2. kind # "mem" => segKey'[life[p]] = 0
      BY <3>1, SMTT(60) DEF SetupFails, IpcInv, TypeOK
    <3>3. RegisteredFor(p) /\ pc[p] = "setup"
      BY DEF SetupFails, IpcInv, Registered
    <3> QED BY <3>1, <3>2, <3>3 DEF RegisteredFor, CallbacksOf, Exists
  <2> QED BY <2>1, <2>2, <2>3 DEF Registered
<1>2. TypeOK'
  <2>1. \A r \in Procs : Len(onexit'[r]) <= 2
    BY <1>1 DEF Registered, RegisteredFor
  <2> QED BY <2>1, SMTT(60) DEF IpcInv, TypeOK, Ids, Alive, Exists, Goto, kernelVars, SetupFails
<1>3. Lives'
  BY ZenonT(60) DEF IpcInv, TypeOK, Lives, Ids, Alive, Exists, Goto, kernelVars, SetupFails
<1>4. Marks'
  BY SMTT(60) DEF IpcInv, TypeOK, Lives, Marks, Ids, Alive, Exists, Goto, kernelVars, SetupFails
<1>5. Finds'
  BY SMTT(60) DEF IpcInv, TypeOK, Lives, Marks, Finds, FindsFor, Ids, Alive, Exists, LooksDead, Goto, kernelVars, SetupFails
<1>6. KeysPaid'
  <2>1. Steady
    BY <1>2, SMTT(60) DEF IpcInv, TypeOK, Lives, Finds, FindsFor, Steady, Gone, Ids, Alive, Exists, Goto, kernelVars, SetupFails
  <2>2. \A r \in Procs : KeyStep(r)
    BY SMTT(60) DEF IpcInv, TypeOK, Lives, KeyStep, Ids, Alive, Exists, Goto, kernelVars, SetupFails
  <2> QED BY <2>1, <2>2, KeysStep
<1> QED BY <1>1, <1>2, <1>3, <1>4, <1>5, <1>6 DEF IpcInv

\* IpcInv survives marking the creator.
LEMMA MarkCreatorStep ==
  ASSUME IpcInv, NEW p \in Procs, MarkCreator(p)
  PROVE  IpcInv'
<1> USE IpcAssumption DEF Searching, Owning
<1>1. Registered'
  <2>1. onexit' \in [Procs -> Seq(Callbacks)]
    BY SMTT(60) DEF Registered, IpcInv, TypeOK, Lives, Ids, Alive, Exists, Goto, kernelVars, MarkCreator
  <2>2. \A r \in Procs : r # p => RegisteredFor(r)'
    BY RegisteredStays, SMTT(60) DEF Registered, IpcInv, TypeOK, Lives, Ids, Alive, Exists, Goto, kernelVars, MarkCreator
  <2>3. RegisteredFor(p)'
    BY SMTT(60) DEF Registered, RegisteredFor, CallbacksOf, IpcInv, TypeOK, Lives, Ids, Alive, Exists, Goto, kernelVars, MarkCreator
  <2> QED BY <2>1, <2>2, <2>3 DEF Registered
<1>2. TypeOK'
  <2>1. \A r \in Procs : Len(onexit'[r]) <= 2
    BY <1>1 DEF Registered, RegisteredFor
  <2> QED BY <2>1, SMTT(60) DEF IpcInv, TypeOK, Ids, Alive, Exists, Goto, kernelVars, MarkCreator
<1>3. Lives'
  BY ZenonT(60) DEF IpcInv, TypeOK, Lives, Ids, Alive, Exists, Goto, kernelVars, MarkCreator
<1>4. Marks'
  BY SMTT(60) DEF IpcInv, TypeOK, Lives, Marks, Ids, Alive, Exists, Goto, kernelVars, MarkCreator
<1>5. Finds'
  BY SMTT(60) DEF IpcInv, TypeOK, Lives, Marks, Finds, FindsFor, Ids, Alive, Exists, LooksDead, Goto, kernelVars, MarkCreator
<1>6. KeysPaid'
  <2>1. Steady
    BY <1>2, SMTT(60) DEF IpcInv, TypeOK, Lives, Finds, FindsFor, Steady, Gone, Ids, Alive, Exists, Goto, kernelVars, MarkCreator
  <2>2. \A r \in Procs : KeyStep(r)
    BY SMTT(60) DEF IpcInv, TypeOK, Lives, KeyStep, Ids, Alive, Exists, Goto, kernelVars, MarkCreator
  <2> QED BY <2>1, <2>2, KeysStep
<1> QED BY <1>1, <1>2, <1>3, <1>4, <1>5, <1>6 DEF IpcInv

\* IpcInv survives writing the magic number.
LEMMA MarkMagicStep ==
  ASSUME IpcInv, NEW p \in Procs, MarkMagic(p)
  PROVE  IpcInv'
<1> USE IpcAssumption DEF Searching, Owning
<1>1. Registered'
  <2>1. onexit' \in [Procs -> Seq(Callbacks)]
    BY SMTT(60) DEF Registered, IpcInv, TypeOK, Lives, Ids, Alive, Exists, Goto, kernelVars, MarkMagic
  <2>2. \A r \in Procs : r # p => RegisteredFor(r)'
    BY RegisteredStays, SMTT(60) DEF Registered, IpcInv, TypeOK, Lives, Ids, Alive, Exists, Goto, kernelVars, MarkMagic
  <2>3. RegisteredFor(p)'
    BY SMTT(60) DEF Registered, RegisteredFor, CallbacksOf, IpcInv, TypeOK, Lives, Ids, Alive, Exists, Goto, kernelVars, MarkMagic
  <2> QED BY <2>1, <2>2, <2>3 DEF Registered
<1>2. TypeOK'
  <2>1. \A r \in Procs : Len(onexit'[r]) <= 2
    BY <1>1 DEF Registered, RegisteredFor
  <2> QED BY <2>1, ZenonT(60) DEF IpcInv, TypeOK, Ids, Alive, Exists, Goto, kernelVars, MarkMagic
<1>3. Lives'
  BY ZenonT(60) DEF IpcInv, TypeOK, Lives, Ids, Alive, Exists, Goto, kernelVars, MarkMagic
<1>4. Marks'
  BY SMTT(60) DEF IpcInv, TypeOK, Lives, Marks, Ids, Alive, Exists, Goto, kernelVars, MarkMagic
<1>5. Finds'
  BY SMTT(60) DEF IpcInv, TypeOK, Lives, Marks, Finds, FindsFor, Ids, Alive, Exists, LooksDead, Goto, kernelVars, MarkMagic
<1>6. KeysPaid'
  <2>1. Steady
    BY <1>2, SMTT(60) DEF IpcInv, TypeOK, Lives, Finds, FindsFor, Steady, Gone, Ids, Alive, Exists, Goto, kernelVars, MarkMagic
  <2>2. \A r \in Procs : KeyStep(r)
    BY SMTT(60) DEF IpcInv, TypeOK, Lives, KeyStep, Ids, Alive, Exists, Goto, kernelVars, MarkMagic
  <2> QED BY <2>1, <2>2, KeysStep
<1> QED BY <1>1, <1>2, <1>3, <1>4, <1>5, <1>6 DEF IpcInv

\* IpcInv survives forking a backend.
LEMMA ForkStep ==
  ASSUME IpcInv, NEW p \in Procs, NEW q \in Procs, Fork(p, q)
  PROVE  IpcInv'
<1> USE IpcAssumption DEF Searching, Owning
<1>1. Registered'
  <2>1. onexit' \in [Procs -> Seq(Callbacks)]
    BY SMTT(60) DEF Registered, IpcInv, TypeOK, Lives, Ids, Alive, Exists, Goto, kernelVars, Fork
  <2>2. \A r \in Procs : r # q => RegisteredFor(r)'
    BY RegisteredStays, SMTT(60) DEF Registered, IpcInv, TypeOK, Lives, Ids, Alive, Exists, Goto, kernelVars, Fork
  <2>3. RegisteredFor(q)'
    BY SMTT(60) DEF Registered, RegisteredFor, CallbacksOf, IpcInv, TypeOK, Lives, Ids, Alive, Exists, Goto, kernelVars, Fork
  <2> QED BY <2>1, <2>2, <2>3 DEF Registered
<1>2. TypeOK'
  <2>1. \A r \in Procs : Len(onexit'[r]) <= 2
    BY <1>1 DEF Registered, RegisteredFor
  <2> QED BY <2>1, ZenonT(60) DEF IpcInv, TypeOK, Ids, Alive, Exists, Goto, kernelVars, Fork
<1>3. Lives'
  BY ZenonT(60) DEF IpcInv, TypeOK, Lives, Ids, Alive, Exists, Goto, kernelVars, Fork
<1>4. Marks'
  BY ZenonT(60) DEF IpcInv, TypeOK, Lives, Marks, Ids, Alive, Exists, Goto, kernelVars, Fork
<1>5. Finds'
  BY SMTT(60) DEF IpcInv, TypeOK, Lives, Marks, Finds, FindsFor, Ids, Alive, Exists, LooksDead, Goto, kernelVars, Fork
<1>6. KeysPaid'
  <2>1. Steady
    BY <1>2, SMTT(60) DEF IpcInv, TypeOK, Lives, Finds, FindsFor, Steady, Gone, Ids, Alive, Exists, Goto, kernelVars, Fork
  <2>2. \A r \in Procs : KeyStep(r)
    BY SMTT(60) DEF IpcInv, TypeOK, Lives, KeyStep, Ids, Alive, Exists, Goto, kernelVars, Fork
  <2> QED BY <2>1, <2>2, KeysStep
<1> QED BY <1>1, <1>2, <1>3, <1>4, <1>5, <1>6 DEF IpcInv

\* IpcInv survives a backend that forgets the callbacks.
LEMMA On_exit_resetStep ==
  ASSUME IpcInv, NEW p \in Procs, on_exit_reset(p)
  PROVE  IpcInv'
<1> USE IpcAssumption DEF Searching, Owning
<1>1. Registered'
  <2>1. onexit' \in [Procs -> Seq(Callbacks)]
    BY SMTT(60) DEF Registered, IpcInv, TypeOK, Lives, Ids, Alive, Exists, Goto, kernelVars, on_exit_reset
  <2>2. \A r \in Procs : r # p => RegisteredFor(r)'
    BY RegisteredStays, SMTT(60) DEF Registered, IpcInv, TypeOK, Lives, Ids, Alive, Exists, Goto, kernelVars, on_exit_reset
  <2>3. RegisteredFor(p)'
    BY SMTT(60) DEF Registered, RegisteredFor, CallbacksOf, IpcInv, TypeOK, Lives, Ids, Alive, Exists, Goto, kernelVars, on_exit_reset
  <2> QED BY <2>1, <2>2, <2>3 DEF Registered
<1>2. TypeOK'
  <2>1. \A r \in Procs : Len(onexit'[r]) <= 2
    BY <1>1 DEF Registered, RegisteredFor
  <2> QED BY <2>1, ZenonT(60) DEF IpcInv, TypeOK, Ids, Alive, Exists, Goto, kernelVars, on_exit_reset
<1>3. Lives'
  BY ZenonT(60) DEF IpcInv, TypeOK, Lives, Ids, Alive, Exists, Goto, kernelVars, on_exit_reset
<1>4. Marks'
  BY ZenonT(60) DEF IpcInv, TypeOK, Lives, Marks, Ids, Alive, Exists, Goto, kernelVars, on_exit_reset
<1>5. Finds'
  BY SMTT(60) DEF IpcInv, TypeOK, Lives, Marks, Finds, FindsFor, Ids, Alive, Exists, LooksDead, Goto, kernelVars, on_exit_reset
<1>6. KeysPaid'
  <2>1. Steady
    BY <1>2, SMTT(60) DEF IpcInv, TypeOK, Lives, Finds, FindsFor, Steady, Gone, Ids, Alive, Exists, Goto, kernelVars, on_exit_reset
  <2>2. \A r \in Procs : KeyStep(r)
    BY SMTT(60) DEF IpcInv, TypeOK, Lives, KeyStep, Ids, Alive, Exists, Goto, kernelVars, on_exit_reset
  <2> QED BY <2>1, <2>2, KeysStep
<1> QED BY <1>1, <1>2, <1>3, <1>4, <1>5, <1>6 DEF IpcInv

\* IpcInv survives a process that begins to exit.
LEMMA BeginExitStep ==
  ASSUME IpcInv, NEW p \in Procs, BeginExit(p)
  PROVE  IpcInv'
<1> USE IpcAssumption DEF Searching, Owning
<1>1. Registered'
  <2>1. onexit' \in [Procs -> Seq(Callbacks)]
    BY SMTT(60) DEF Registered, IpcInv, TypeOK, Lives, Ids, Alive, Exists, Goto, kernelVars, BeginExit
  <2>2. \A r \in Procs : r # p => RegisteredFor(r)'
    BY RegisteredStays, SMTT(60) DEF Registered, IpcInv, TypeOK, Lives, Ids, Alive, Exists, Goto, kernelVars, BeginExit
  <2>3. RegisteredFor(p)'
    <3>1. /\ onexit'[p] = onexit[p] /\ life'[p] = life[p] /\ segKey' = segKey
          /\ pc'[p] = "exiting" /\ kind' = kind /\ RegisteredFor(p)
      BY SMTT(60) DEF BeginExit, Goto, kernelVars, IpcInv, TypeOK, Registered
    <3>2. CASE pc[p] \in {"create", "recreate"}
      BY <3>1, <3>2 DEF RegisteredFor, CallbacksOf, Exists, IpcInv, Lives
    <3>3. CASE pc[p] \in {"running", "mark1", "mark2"}
      <4>1. life[p] # 0
        BY <3>3 DEF IpcInv, Lives
      <4>2. Len(onexit[p]) # 0
        BY <3>1, <3>3 DEF RegisteredFor
      <4> QED BY <3>1, <3>3, <4>1, <4>2 DEF RegisteredFor
    <3>4. CASE pc[p] = "backend"
      BY <3>1, <3>4 DEF RegisteredFor, IpcInv, Lives
    <3> QED BY <3>2, <3>3, <3>4 DEF BeginExit
  <2> QED BY <2>1, <2>2, <2>3 DEF Registered
<1>2. TypeOK'
  <2>1. \A r \in Procs : Len(onexit'[r]) <= 2
    BY <1>1 DEF Registered, RegisteredFor
  <2> QED BY <2>1, SMTT(60) DEF IpcInv, TypeOK, Ids, Alive, Exists, Goto, kernelVars, BeginExit
<1>3. Lives'
  BY SMTT(60) DEF IpcInv, TypeOK, Lives, Ids, Alive, Exists, Goto, kernelVars, BeginExit
<1>4. Marks'
  BY SMTT(60) DEF IpcInv, TypeOK, Lives, Marks, Ids, Alive, Exists, Goto, kernelVars, BeginExit
<1>5. Finds'
  BY SMTT(60) DEF IpcInv, TypeOK, Lives, Marks, Finds, FindsFor, Ids, Alive, Exists, LooksDead, Goto, kernelVars, BeginExit
<1>6. KeysPaid'
  <2>1. Steady
    BY <1>2, SMTT(60) DEF IpcInv, TypeOK, Lives, Finds, FindsFor, Steady, Gone, Ids, Alive, Exists, Goto, kernelVars, BeginExit
  <2>2. \A r \in Procs : KeyStep(r)
    BY SMTT(60) DEF IpcInv, TypeOK, Lives, KeyStep, Ids, Alive, Exists, Goto, kernelVars, BeginExit
  <2> QED BY <2>1, <2>2, KeysStep
<1> QED BY <1>1, <1>2, <1>3, <1>4, <1>5, <1>6 DEF IpcInv

\* IpcInv survives calling the last callback.
LEMMA Shmem_exitStep ==
  ASSUME IpcInv, NEW p \in Procs, shmem_exit(p)
  PROVE  IpcInv'
<1> USE IpcAssumption DEF Searching, Owning
<1> DEFINE s == onexit[p]
<1>a. /\ s \in Seq(Callbacks) /\ pc[p] = "exiting" /\ pc' = pc /\ life' = life
      /\ kind' = kind /\ life[p] \in Ids
      /\ onexit' = [onexit EXCEPT ![p] = SubSeq(s, 1, Len(s) - 1)]
  BY SMTT(60) DEF shmem_exit, IpcInv, TypeOK, Registered
<1>b. Len(s) \in {1, 2} /\ life[p] # 0
  <2>1. Len(s) # 0
    BY <1>a, EmptySeq DEF shmem_exit
  <2>2. Len(s) \in Nat /\ Len(s) <= 2
    BY <1>a, LenProperties, SMTT(60) DEF IpcInv, TypeOK
  <2>3. life[p] = 0 => Len(s) = 0
    BY <1>a DEF IpcInv, Registered, RegisteredFor
  <2> HIDE DEF s
  <2>4. Len(s) \in {1, 2}
    BY <2>1, <2>2, OneOrTwo
  <2> QED BY <2>1, <2>3, <2>4
<1>c. s[1] = <<"delete", life[p]>> /\ (Len(s) = 2 => s[2] = <<"detach", life[p]>>)
  BY <1>a, <1>b DEF IpcInv, Registered, RegisteredFor, CallbacksOf
<1>d. \/ /\ Len(s) = 1 /\ segKey' = [segKey EXCEPT ![life[p]] = 0] /\ att' = att
      \/ /\ Len(s) = 2 /\ segKey' = segKey
         /\ att' = [att EXCEPT ![life[p]] = @ \ {p}]
  BY <1>b, <1>c DEF shmem_exit
<1>e. /\ SubSeq(s, 1, Len(s) - 1) \in Seq(Callbacks)
      /\ Len(SubSeq(s, 1, Len(s) - 1)) = Len(s) - 1
      /\ Len(s) = 2 => SubSeq(s, 1, Len(s) - 1)[1] = s[1]
  <2>1. CASE Len(s) = 1
    <3>1. Len(s) - 1 = 0
      BY <2>1
    <3>2. SubSeq(s, 1, 0) = <<>>
      BY <1>a, SubSeqProperties
    <3> QED BY <2>1, <3>1, <3>2
  <2>2. CASE Len(s) = 2
    <3>1. Len(s) - 1 = 1 /\ s \in Seq(Callbacks) /\ 1 \in 1..Len(s)
      BY <2>2, <1>a
    <3>2. /\ SubSeq(s, 1, 1) \in Seq(Callbacks)
          /\ Len(SubSeq(s, 1, 1)) = 1
          /\ SubSeq(s, 1, 1)[1] = s[1]
      BY <3>1, SubSeqProperties
    <3> QED BY <2>2, <3>1, <3>2
  <2> QED BY <1>b, <2>1, <2>2
<1>f. /\ segKey' \in [Ids -> 0..(MaxLives + 1)]
      /\ \A i \in Ids : segKey'[i] = segKey[i] \/ (i = life[p] /\ segKey'[i] = 0)
  <2>1. segKey \in [Ids -> 0..(MaxLives + 1)] /\ 0 \in 0..(MaxLives + 1)
    BY SMTT(60) DEF IpcInv, TypeOK
  <2>2. segKey' = segKey \/ segKey' = [segKey EXCEPT ![life[p]] = 0]
    BY <1>d
  <2> QED BY <2>1, <2>2
<1>1. Registered'
  <2>1. onexit' \in [Procs -> Seq(Callbacks)]
    BY <1>a, <1>e DEF Registered, IpcInv
  <2>2. \A r \in Procs : r # p => RegisteredFor(r)'
    BY <1>a, <1>f, RegisteredStays, SMTT(60) DEF Registered, IpcInv, TypeOK
  <2>3. RegisteredFor(p)'
    <3>1. Len(onexit'[p]) = Len(s) - 1 /\ (Len(s) = 2 => onexit'[p][1] = s[1])
      BY <1>a, <1>e DEF IpcInv, Registered
    <3>2. CASE Len(s) = 1
      <4>1. segKey'[life[p]] = 0
        BY <1>a, <1>d, <3>2, SMTT(60) DEF IpcInv, TypeOK
      <4> QED BY <1>a, <3>1, <3>2, <4>1 DEF RegisteredFor, CallbacksOf, Exists
    <3>3. CASE Len(s) = 2
      BY <1>a, <1>b, <1>c, <3>1, <3>3 DEF RegisteredFor, CallbacksOf
    <3> QED BY <1>b, <3>2, <3>3
  <2> QED BY <2>1, <2>2, <2>3 DEF Registered
<1>2. TypeOK'
  <2>1. \A r \in Procs : Len(onexit'[r]) <= 2
    BY <1>1 DEF Registered, RegisteredFor
  <2>2. att' \in [Ids -> SUBSET Procs]
    <3>1. att \in [Ids -> SUBSET Procs] /\ att[life[p]] \ {p} \in SUBSET Procs
      BY <1>a, SMTT(60) DEF IpcInv, TypeOK
    <3>2. att' = att \/ att' = [att EXCEPT ![life[p]] = att[life[p]] \ {p}]
      BY <1>d
    <3> QED BY <3>1, <3>2
  <2> QED BY <2>1, <2>2, <1>f, SMTT(60) DEF IpcInv, TypeOK, shmem_exit
<1>3. Lives'
  BY ZenonT(60) DEF IpcInv, TypeOK, Lives, Ids, Alive, Exists, Goto, kernelVars, shmem_exit
<1>4. Marks'
  BY ZenonT(60) DEF IpcInv, TypeOK, Lives, Marks, Ids, Alive, Exists, Goto, kernelVars, shmem_exit
<1>5. Finds'
  BY ZenonT(60) DEF IpcInv, TypeOK, Lives, Marks, Finds, FindsFor, Ids, Alive, Exists, LooksDead, Goto, kernelVars, shmem_exit
<1>6. KeysPaid'
  <2>1. Steady
    <3>1. \A i \in 0..lives : Gone(i) => Gone(i)'
      BY <1>a, <1>f, SMTT(60) DEF IpcInv, TypeOK, Ids, Gone, Exists
    <3>2. \A i \in 0..lives : Exists(i) => (segKey'[i] = segKey[i] \/ Gone(i)')
      <4> SUFFICES ASSUME NEW i \in 0..lives, i = life[p], segKey'[i] = 0
                   PROVE  Gone(i)'
        BY <1>f, SMTT(60) DEF IpcInv, TypeOK, Ids
      <4> QED BY <1>a, <1>b DEF Gone, Exists, IpcInv, Lives
    <3>3. lives \in Nat /\ lives' = lives
      BY SMTT(60) DEF IpcInv, TypeOK, Ids, shmem_exit
    <3> QED BY <3>1, <3>2, <3>3 DEF Steady
  <2>2. \A r \in Procs : KeyStep(r)
    BY SMTT(60) DEF IpcInv, TypeOK, Lives, KeyStep, Ids, Alive, Exists, Goto, kernelVars, shmem_exit
  <2> QED BY <2>1, <2>2, KeysStep
<1> QED BY <1>1, <1>2, <1>3, <1>4, <1>5, <1>6 DEF IpcInv

\* IpcInv survives the death of a process.
LEMMA DieStep ==
  ASSUME IpcInv, NEW p \in Procs, Die(p)
  PROVE  IpcInv'
<1> USE IpcAssumption DEF Searching, Owning
<1>1. Registered'
  <2>1. onexit' \in [Procs -> Seq(Callbacks)]
    BY SMTT(60) DEF Registered, IpcInv, TypeOK, Lives, Ids, Alive, Exists, Goto, kernelVars, Die
  <2>2. \A r \in Procs : r # p => RegisteredFor(r)'
    BY RegisteredStays, SMTT(60) DEF Registered, IpcInv, TypeOK, Lives, Ids, Alive, Exists, Goto, kernelVars, Die
  <2>3. RegisteredFor(p)'
    BY SMTT(60) DEF Registered, RegisteredFor, CallbacksOf, IpcInv, TypeOK, Lives, Ids, Alive, Exists, Goto, kernelVars, Die
  <2> QED BY <2>1, <2>2, <2>3 DEF Registered
<1>2. TypeOK'
  <2>1. \A r \in Procs : Len(onexit'[r]) <= 2
    BY <1>1 DEF Registered, RegisteredFor
  <2> QED BY <2>1, SMTT(60) DEF IpcInv, TypeOK, Ids, Alive, Exists, Goto, kernelVars, Die
<1>3. Lives'
  BY SMTT(60) DEF IpcInv, TypeOK, Lives, Ids, Alive, Exists, Goto, kernelVars, Die
<1>4. Marks'
  BY ZenonT(60) DEF IpcInv, TypeOK, Lives, Marks, Ids, Alive, Exists, Goto, kernelVars, Die
<1>5. Finds'
  BY SMTT(60) DEF IpcInv, TypeOK, Lives, Marks, Finds, FindsFor, Ids, Alive, Exists, LooksDead, Goto, kernelVars, Die
<1>6. KeysPaid'
  <2>1. Steady
    BY <1>2, SMTT(60) DEF IpcInv, TypeOK, Lives, Finds, FindsFor, Steady, Gone, Ids, Alive, Exists, Goto, kernelVars, Die
  <2>2. \A r \in Procs : KeyStep(r)
    BY SMTT(60) DEF IpcInv, TypeOK, Lives, KeyStep, Ids, Alive, Exists, Goto, kernelVars, Die
  <2> QED BY <2>1, <2>2, KeysStep
<1> QED BY <1>1, <1>2, <1>3, <1>4, <1>5, <1>6 DEF IpcInv

\* IpcInv survives a collision noticed.
LEMMA CollidesStep ==
  ASSUME IpcInv, NEW p \in Procs, pc[p] = "create", Goto(p, "lookup"), \E i \in Ids : segKey[i] = key[p],
         UNCHANGED <<kind, segKey, creator, marked, att, lives, life, key, found, onexit>>
  PROVE  IpcInv'
<1> USE IpcAssumption DEF Searching, Owning
<1>1. Registered'
  <2>1. onexit' \in [Procs -> Seq(Callbacks)]
    BY SMTT(60) DEF Registered, IpcInv, TypeOK, Lives, Ids, Alive, Exists, Goto
  <2>2. \A r \in Procs : r # p => RegisteredFor(r)'
    BY RegisteredStays, SMTT(60) DEF Registered, IpcInv, TypeOK, Lives, Ids, Alive, Exists, Goto
  <2>3. RegisteredFor(p)'
    BY ZenonT(60) DEF Registered, RegisteredFor, CallbacksOf, IpcInv, TypeOK, Lives, Ids, Alive, Exists, Goto
  <2> QED BY <2>1, <2>2, <2>3 DEF Registered
<1>2. TypeOK'
  <2>1. \A r \in Procs : Len(onexit'[r]) <= 2
    BY <1>1 DEF Registered, RegisteredFor
  <2> QED BY <2>1, SMTT(60) DEF IpcInv, TypeOK, Ids, Alive, Exists, Goto
<1>3. Lives'
  BY ZenonT(60) DEF IpcInv, TypeOK, Lives, Ids, Alive, Exists, Goto
<1>4. Marks'
  BY SMTT(60) DEF IpcInv, TypeOK, Lives, Marks, Ids, Alive, Exists, Goto
<1>5. Finds'
  BY SMTT(60) DEF IpcInv, TypeOK, Lives, Marks, Finds, FindsFor, Ids, Alive, Exists, LooksDead, Goto
<1>6. KeysPaid'
  <2>1. Steady
    BY <1>2, SMTT(60) DEF IpcInv, TypeOK, Lives, Finds, FindsFor, Steady, Gone, Ids, Alive, Exists, Goto
  <2>2. \A r \in Procs : KeyStep(r)
    BY SMTT(60) DEF IpcInv, TypeOK, Lives, KeyStep, Ids, Alive, Exists, Goto
  <2> QED BY <2>1, <2>2, KeysStep
<1> QED BY <1>1, <1>2, <1>3, <1>4, <1>5, <1>6 DEF IpcInv

\* IpcInv survives an object looked up.
LEMMA FoundStep ==
  ASSUME IpcInv, NEW p \in Procs, pc[p] = "lookup", NEW step \in {"probe", "check"}, Goto(p, step),
         NEW i \in Ids, segKey[i] = key[p], found' = [found EXCEPT ![p] = i],
         UNCHANGED <<kind, segKey, creator, marked, att, lives, life, key, onexit>>
  PROVE  IpcInv'
<1> USE IpcAssumption DEF Searching, Owning
<1>1. Registered'
  <2>1. onexit' \in [Procs -> Seq(Callbacks)]
    BY SMTT(60) DEF Registered, IpcInv, TypeOK, Lives, Ids, Alive, Exists, Goto
  <2>2. \A r \in Procs : r # p => RegisteredFor(r)'
    BY RegisteredStays, SMTT(60) DEF Registered, IpcInv, TypeOK, Lives, Ids, Alive, Exists, Goto
  <2>3. RegisteredFor(p)'
    BY ZenonT(60) DEF Registered, RegisteredFor, CallbacksOf, IpcInv, TypeOK, Lives, Ids, Alive, Exists, Goto
  <2> QED BY <2>1, <2>2, <2>3 DEF Registered
<1>2. TypeOK'
  <2>1. \A r \in Procs : Len(onexit'[r]) <= 2
    BY <1>1 DEF Registered, RegisteredFor
  <2> QED BY <2>1, SMTT(60) DEF IpcInv, TypeOK, Ids, Alive, Exists, Goto
<1>3. Lives'
  BY ZenonT(60) DEF IpcInv, TypeOK, Lives, Ids, Alive, Exists, Goto
<1>4. Marks'
  BY ZenonT(60) DEF IpcInv, TypeOK, Lives, Marks, Ids, Alive, Exists, Goto
<1>5. Finds'
  <2>1. ASSUME NEW r \in Procs, r # p PROVE FindsFor(r)'
    <3>1. /\ pc'[r] = pc[r] /\ found'[r] = found[r] /\ life' = life /\ lives' = lives
          /\ \A q \in Procs : q # p => pc'[q] = pc[q]
          /\ pc[p] \in Searching /\ pc'[p] \in Searching
      BY <2>1 DEF IpcInv, TypeOK, Goto
    <3> QED BY <3>1 DEF IpcInv, Finds, FindsFor
  <2>2. FindsFor(p)'
    <3>1. /\ pc'[p] \in {"probe", "check"} /\ found'[p] = i /\ life' = life /\ lives' = lives
          /\ \A q \in Procs : pc'[q] \in Searching => pc[q] \in Searching
      BY DEF IpcInv, TypeOK, Goto
    <3>2. i <= lives /\ \A q \in Procs : pc[q] \in Searching => life[q] # i
      BY DEF IpcInv, TypeOK, Lives, Ids, Exists
    <3> QED BY <3>1, <3>2 DEF FindsFor
  <2> QED BY <2>1, <2>2 DEF Finds
<1>6. KeysPaid'
  <2>1. Steady
    BY <1>2, SMTT(60) DEF IpcInv, TypeOK, Lives, Finds, FindsFor, Steady, Gone, Ids, Alive, Exists, Goto
  <2>2. \A r \in Procs : KeyStep(r)
    BY ZenonT(60) DEF IpcInv, TypeOK, Lives, KeyStep, Ids, Alive, Exists, Goto
  <2> QED BY <2>1, <2>2, KeysStep
<1> QED BY <1>1, <1>2, <1>3, <1>4, <1>5, <1>6 DEF IpcInv

\* IpcInv survives a segment attached to be examined.
LEMMA AttachedStep ==
  ASSUME IpcInv, NEW p \in Procs, pc[p] = "probe", Goto(p, "check"), att' \in [Ids -> SUBSET Procs],
         UNCHANGED <<kind, segKey, creator, marked, lives, life, key, found, onexit>>
  PROVE  IpcInv'
<1> USE IpcAssumption DEF Searching, Owning
<1>1. Registered'
  <2>1. onexit' \in [Procs -> Seq(Callbacks)]
    BY SMTT(60) DEF Registered, IpcInv, TypeOK, Lives, Ids, Alive, Exists, Goto
  <2>2. \A r \in Procs : r # p => RegisteredFor(r)'
    BY RegisteredStays, SMTT(60) DEF Registered, IpcInv, TypeOK, Lives, Ids, Alive, Exists, Goto
  <2>3. RegisteredFor(p)'
    BY ZenonT(60) DEF Registered, RegisteredFor, CallbacksOf, IpcInv, TypeOK, Lives, Ids, Alive, Exists, Goto
  <2> QED BY <2>1, <2>2, <2>3 DEF Registered
<1>2. TypeOK'
  <2>1. \A r \in Procs : Len(onexit'[r]) <= 2
    BY <1>1 DEF Registered, RegisteredFor
  <2> QED BY <2>1, SMTT(60) DEF IpcInv, TypeOK, Ids, Alive, Exists, Goto
<1>3. Lives'
  BY SMTT(60) DEF IpcInv, TypeOK, Lives, Ids, Alive, Exists, Goto
<1>4. Marks'
  BY SMTT(60) DEF IpcInv, TypeOK, Lives, Marks, Ids, Alive, Exists, Goto
<1>5. Finds'
  BY SMTT(60) DEF IpcInv, TypeOK, Lives, Marks, Finds, FindsFor, Ids, Alive, Exists, LooksDead, Goto
<1>6. KeysPaid'
  <2>1. Steady
    BY <1>2, SMTT(60) DEF IpcInv, TypeOK, Lives, Finds, FindsFor, Steady, Gone, Ids, Alive, Exists, Goto
  <2>2. \A r \in Procs : KeyStep(r)
    BY SMTT(60) DEF IpcInv, TypeOK, Lives, KeyStep, Ids, Alive, Exists, Goto
  <2> QED BY <2>1, <2>2, KeysStep
<1> QED BY <1>1, <1>2, <1>3, <1>4, <1>5, <1>6 DEF IpcInv

\* IpcInv survives an object taken for a leftover.
LEMMA CondemnedStep ==
  ASSUME IpcInv, NEW p \in Procs, pc[p] = "check", Goto(p, "rmid"), LooksDead(p, found[p]), att' \in [Ids -> SUBSET Procs],
         UNCHANGED <<kind, segKey, creator, marked, lives, life, key, found, onexit>>
  PROVE  IpcInv'
<1> USE IpcAssumption DEF Searching, Owning
<1>1. Registered'
  <2>1. onexit' \in [Procs -> Seq(Callbacks)]
    BY SMTT(60) DEF Registered, IpcInv, TypeOK, Lives, Ids, Alive, Exists, Goto
  <2>2. \A r \in Procs : r # p => RegisteredFor(r)'
    BY RegisteredStays, SMTT(60) DEF Registered, IpcInv, TypeOK, Lives, Ids, Alive, Exists, Goto
  <2>3. RegisteredFor(p)'
    BY ZenonT(60) DEF Registered, RegisteredFor, CallbacksOf, IpcInv, TypeOK, Lives, Ids, Alive, Exists, Goto
  <2> QED BY <2>1, <2>2, <2>3 DEF Registered
<1>2. TypeOK'
  <2>1. \A r \in Procs : Len(onexit'[r]) <= 2
    BY <1>1 DEF Registered, RegisteredFor
  <2> QED BY <2>1, SMTT(60) DEF IpcInv, TypeOK, Ids, Alive, Exists, Goto
<1>3. Lives'
  BY ZenonT(60) DEF IpcInv, TypeOK, Lives, Ids, Alive, Exists, Goto
<1>4. Marks'
  BY SMTT(60) DEF IpcInv, TypeOK, Lives, Marks, Ids, Alive, Exists, Goto
<1>5. Finds'
  <2>1. found[p] \in marked /\ (creator[found[p]] = p \/ ~Alive(creator[found[p]]))
    BY DEF LooksDead
  <2>2. ASSUME NEW q \in Procs, pc[q] \in Owning, life[q] = found[p]
        PROVE  FALSE
    <3>1. pc[q] = "running"
      BY <2>1, <2>2 DEF IpcInv, Marks
    <3>2. creator[found[p]] = q
      BY <2>2, <3>1 DEF IpcInv, Marks
    <3> QED BY <2>1, <3>1, <3>2 DEF Alive
  <2>3. found[p] # 0
    BY <2>1 DEF IpcInv, Marks
  <2>4. /\ pc'[p] = "rmid"
        /\ \A r \in Procs : r # p => pc'[r] = pc[r]
    BY SMTT(60) DEF Goto, IpcInv, TypeOK
  <2> SUFFICES ASSUME NEW r \in Procs
               PROVE  /\ pc'[r] \in {"probe", "check", "rmid"} =>
                           /\ found[r] <= lives
                           /\ \A q \in Procs : pc'[q] \in Searching => life[q] # found[r]
                      /\ pc'[r] = "rmid" =>
                           /\ found[r] # 0
                           /\ \A q \in Procs : pc'[q] \in Owning => life[q] # found[r]
    BY DEF Finds, FindsFor
  <2>5. CASE r = p
    BY <2>2, <2>3, <2>4, <2>5 DEF IpcInv, Finds, FindsFor
  <2>6. CASE r # p
    BY <2>4, <2>6 DEF IpcInv, Finds, FindsFor
  <2> QED BY <2>5, <2>6
<1>6. KeysPaid'
  <2>1. Steady
    BY <1>2, SMTT(60) DEF IpcInv, TypeOK, Lives, Finds, FindsFor, Steady, Gone, Ids, Alive, Exists, Goto
  <2>2. \A r \in Procs : KeyStep(r)
    BY SMTT(60) DEF IpcInv, TypeOK, Lives, KeyStep, Ids, Alive, Exists, Goto
  <2> QED BY <2>1, <2>2, KeysStep
<1> QED BY <1>1, <1>2, <1>3, <1>4, <1>5, <1>6 DEF IpcInv

\* IpcInv survives the removal of a leftover.
LEMMA RemovedStep ==
  ASSUME IpcInv, NEW p \in Procs, pc[p] = "rmid", Goto(p, "recreate"), segKey' = [segKey EXCEPT ![found[p]] = 0],
         UNCHANGED <<kind, creator, marked, att, lives, life, key, found, onexit>>
  PROVE  IpcInv'
<1> USE IpcAssumption DEF Searching, Owning
<1>1. Registered'
  <2>1. onexit' \in [Procs -> Seq(Callbacks)]
    BY SMTT(60) DEF Registered, IpcInv, TypeOK, Lives, Ids, Alive, Exists, Goto
  <2>2. \A r \in Procs : r # p => RegisteredFor(r)'
    BY RegisteredStays, SMTT(60) DEF Registered, IpcInv, TypeOK, Lives, Ids, Alive, Exists, Goto
  <2>3. RegisteredFor(p)'
    BY ZenonT(60) DEF Registered, RegisteredFor, CallbacksOf, IpcInv, TypeOK, Lives, Ids, Alive, Exists, Goto
  <2> QED BY <2>1, <2>2, <2>3 DEF Registered
<1>2. TypeOK'
  <2>1. \A r \in Procs : Len(onexit'[r]) <= 2
    BY <1>1 DEF Registered, RegisteredFor
  <2> QED BY <2>1, SMTT(60) DEF IpcInv, TypeOK, Ids, Alive, Exists, Goto
<1>3. Lives'
  BY ZenonT(60) DEF IpcInv, TypeOK, Lives, Ids, Alive, Exists, Goto
<1>4. Marks'
  BY SMTT(60) DEF IpcInv, TypeOK, Lives, Marks, Ids, Alive, Exists, Goto
<1>5. Finds'
  BY SMTT(60) DEF IpcInv, TypeOK, Lives, Marks, Finds, FindsFor, Ids, Alive, Exists, LooksDead, Goto
<1>6. KeysPaid'
  <2>1. Steady
    BY <1>2, SMTT(60) DEF IpcInv, TypeOK, Lives, Finds, FindsFor, Steady, Gone, Ids, Alive, Exists, Goto
  <2>2. \A r \in Procs : KeyStep(r)
    BY SMTT(60) DEF IpcInv, TypeOK, Lives, KeyStep, Ids, Alive, Exists, Goto
  <2> QED BY <2>1, <2>2, KeysStep
<1> QED BY <1>1, <1>2, <1>3, <1>4, <1>5, <1>6 DEF IpcInv

-----------------------------------------------------------------------------
(* The theorem.                                                            *)

\* Initially nobody lives and there is only the object of another program.
LEMMA IpcInit == Init => IpcInv
<1> SUFFICES ASSUME Init PROVE IpcInv
  OBVIOUS
<1> USE IpcAssumption DEF Init, Ids, Searching, Owning, Exists
<1>1. \A p \in Procs : onexit[p] = <<>> /\ Len(onexit[p]) = 0
  OBVIOUS
<1>2. TypeOK
  BY <1>1 DEF TypeOK
<1>3. Lives /\ Marks /\ Finds
  BY DEF Lives, Marks, Finds, FindsFor
<1>4. Registered
  BY <1>1 DEF Registered, RegisteredFor, CallbacksOf
<1>5. KeysPaid
  BY DEF KeysPaid
<1> QED BY <1>2, <1>3, <1>4, <1>5 DEF IpcInv

\* Every step keeps the invariant: one step per action, two where the search
\* either finishes with an object or goes on with the next key.
LEMMA IpcNext == IpcInv /\ [Next]_vars => IpcInv'
<1> SUFFICES ASSUME IpcInv, [Next]_vars PROVE IpcInv'
  OBVIOUS
<1> USE DEF Searching
<1>1. ASSUME NEW p \in Procs, InternalCreateCollides(p)
      PROVE  IpcInv'
  <2>1. CASE pc[p] = "create"
    BY <1>1, <2>1, CollidesStep DEF InternalCreateCollides, kernelVars
  <2>2. CASE pc[p] = "recreate"
    BY <1>1, <2>2, NextKeyStep, ZenonT(60) DEF InternalCreateCollides, kernelVars, IpcInv, TypeOK
  <2> QED BY <1>1, <2>1, <2>2 DEF InternalCreateCollides
<1>2. ASSUME NEW p \in Procs, Lookup(p)
      PROVE  IpcInv'
  <2>1. CASE NextKey(p) /\ UNCHANGED kernelVars
    BY <1>2, <2>1, NextKeyStep, ZenonT(60) DEF Lookup, kernelVars, IpcInv, TypeOK
  <2>2. CASE \E i \in Ids : /\ segKey[i] = key[p]
                            /\ found' = [found EXCEPT ![p] = i]
                            /\ Goto(p, IF kind = "mem" THEN "probe" ELSE "check")
                            /\ UNCHANGED key
    BY <1>2, <2>2, FoundStep DEF Lookup, kernelVars
  <2> QED BY <1>2, <2>1, <2>2 DEF Lookup
<1>3. ASSUME NEW p \in Procs, Probe(p)
      PROVE  IpcInv'
  <2>0. att' \in [Ids -> SUBSET Procs]
    <3>1. /\ att \in [Ids -> SUBSET Procs] /\ found[p] \in Ids
          /\ att[found[p]] \cup {p} \in SUBSET Procs
      BY SMTT(60) DEF IpcInv, TypeOK
    <3>2. att' = att \/ att' = [att EXCEPT ![found[p]] = att[found[p]] \cup {p}]
      BY <1>3 DEF Probe
    <3> QED BY <3>1, <3>2
  <2>1. CASE Exists(found[p])
    BY <1>3, <2>0, <2>1, AttachedStep DEF Probe
  <2>2. CASE ~Exists(found[p])
    BY <1>3, <2>0, <2>2, NextKeyStep DEF Probe
  <2> QED BY <2>1, <2>2
<1>4. ASSUME NEW p \in Procs, Check(p)
      PROVE  IpcInv'
  <2>0. att' \in [Ids -> SUBSET Procs]
    BY <1>4, SMTT(60) DEF Check, IpcInv, TypeOK
  <2>1. CASE LooksDead(p, found[p]) /\ (kind = "sem" => Exists(found[p]))
    BY <1>4, <2>0, <2>1, CondemnedStep DEF Check
  <2>2. CASE ~(LooksDead(p, found[p]) /\ (kind = "sem" => Exists(found[p])))
    BY <1>4, <2>0, <2>2, NextKeyStep DEF Check
  <2> QED BY <2>1, <2>2
<1>5. ASSUME NEW p \in Procs, Zap(p)
      PROVE  IpcInv'
  <2>1. CASE Exists(found[p])
    BY <1>5, <2>1, RemovedStep DEF Zap
  <2>2. CASE ~Exists(found[p])
    BY <1>5, <2>2, NextKeyStep, ZenonT(60) DEF Zap, IpcInv, TypeOK
  <2> QED BY <2>1, <2>2
<1>6. ASSUME NEW p \in Procs, Search(p)
      PROVE  IpcInv'
  BY <1>1, <1>2, <1>3, <1>4, <1>5, <1>6, InternalCreateStep, SetupStep, SetupFailsStep,
     MarkCreatorStep, MarkMagicStep DEF Search
<1>7. CASE Next
  BY <1>6, <1>7, StartStep, ForkStep, On_exit_resetStep, BeginExitStep, Shmem_exitStep, DieStep
  DEF Next, Exit, Crash
<1>8. CASE UNCHANGED vars
  <2>1. UNCHANGED <<kind, segKey, creator, marked, att, lives, pc, life, key, found, onexit>>
    BY <1>8 DEF vars, kernelVars
  <2>2. TypeOK' /\ Lives' /\ Marks' /\ Finds'
    BY <2>1, SMTT(60) DEF IpcInv, TypeOK, Lives, Marks, Finds, FindsFor, Exists
  <2>3. Registered'
    BY <2>1 DEF IpcInv, Registered, RegisteredFor, CallbacksOf, Exists
  <2>4. KeysPaid'
    BY <2>1, ZenonT(60) DEF IpcInv, KeysPaid, Passed, Gone, Exists
  <2> QED BY <2>2, <2>3, <2>4 DEF IpcInv
<1> QED BY <1>7, <1>8

\* The objects that must stay: a living postmaster's and another program's.
\* Given the invariant, no step removes one of them.
Kept == OwnerKeepsObject /\ ForeignKept

\* What a step removes is a leftover or the stepping process's own object.
LEMMA KeptNext == IpcInv /\ Kept /\ [Next]_vars => Kept'
<1> SUFFICES ASSUME IpcInv, Kept, [Next]_vars PROVE Kept'
  OBVIOUS
<1> USE IpcAssumption DEF Searching, Owning
<1>1. /\ segKey \in [Ids -> 0..(MaxLives + 1)] /\ life \in [Procs -> Ids] /\ found \in [Procs -> Ids]
      /\ DOMAIN pc = Procs /\ 0 \in Ids
  BY SMTT(60) DEF IpcInv, TypeOK, Ids
<1>2. ASSUME segKey' = segKey,
             \A r \in Procs : pc'[r] \in Owning => pc[r] \in Owning /\ life'[r] = life[r]
      PROVE  Kept'
  BY <1>2 DEF Kept, OwnerKeepsObject, ForeignKept, Exists
<1>3. ASSUME NEW i \in Ids, segKey' = [segKey EXCEPT ![i] = 0], i # 0, life' = life,
             \A r \in Procs : pc'[r] \in Owning => pc[r] \in Owning /\ life[r] # i
      PROVE  Kept'
  BY <1>1, <1>3 DEF Kept, OwnerKeepsObject, ForeignKept, Exists
<1>4. ASSUME NEW p \in Procs, InternalCreate(p)
      PROVE  Kept'
  <2>1. key[p] >= 1 /\ key[p] \in Nat /\ life[p] # 0
    BY <1>4 DEF InternalCreate, IpcInv, Lives, TypeOK
  <2>2. segKey'[life[p]] # 0 /\ (\A i \in Ids : i # life[p] => segKey'[i] = segKey[i])
    BY <1>1, <1>4, <2>1 DEF InternalCreate
  <2>3. life' = life /\ \A r \in Procs : r # p => pc'[r] = pc[r]
    BY <1>1, <1>4 DEF InternalCreate, Goto
  <2> QED BY <1>1, <2>1, <2>2, <2>3 DEF Kept, OwnerKeepsObject, ForeignKept, Exists
<1>5. ASSUME NEW p \in Procs, SetupFails(p)
      PROVE  Kept'
  <2>1. /\ pc'[p] = "exiting" /\ life' = life /\ life[p] # 0 /\ life[p] \in Ids
        /\ \A r \in Procs : r # p => pc'[r] = pc[r] /\ life[r] # life[p]
    BY <1>1, <1>5 DEF SetupFails, Goto, IpcInv, Lives
  <2>2. segKey' = segKey \/ segKey' = [segKey EXCEPT ![life[p]] = 0]
    BY <1>1, <1>5 DEF SetupFails
  <2>3. CASE segKey' = segKey
    BY <1>2, <2>1, <2>3
  <2>4. CASE segKey' = [segKey EXCEPT ![life[p]] = 0]
    BY <1>3, <2>1, <2>4
  <2> QED BY <2>2, <2>3, <2>4
<1>6. ASSUME NEW p \in Procs, Zap(p)
      PROVE  Kept'
  <2>1. /\ life' = life /\ found[p] # 0 /\ found[p] \in Ids
        /\ \A r \in Procs : pc[r] \in Owning => life[r] # found[p]
        /\ \A r \in Procs : pc'[r] \in Owning => pc[r] \in Owning
    BY <1>1, <1>6 DEF Zap, NextKey, Goto, IpcInv, Finds, FindsFor
  <2>2. CASE segKey' = segKey
    BY <1>2, <2>1, <2>2
  <2>3. CASE segKey' = [segKey EXCEPT ![found[p]] = 0]
    BY <1>3, <2>1, <2>3
  <2> QED BY <1>6, <2>2, <2>3 DEF Zap
<1>7. ASSUME NEW p \in Procs, shmem_exit(p)
      PROVE  Kept'
  <2>1. RegisteredFor(p) /\ pc[p] = "exiting" /\ onexit[p] \in Seq(Callbacks) /\ onexit[p] # <<>>
    BY <1>7 DEF shmem_exit, IpcInv, Registered
  <2>2. Len(onexit[p]) \in {1, 2} /\ life[p] # 0
    <3>1. Len(onexit[p]) # 0 /\ Len(onexit[p]) \in Nat /\ Len(onexit[p]) <= 2
      BY <2>1, EmptySeq, LenProperties DEF RegisteredFor
    <3>2. Len(onexit[p]) \in {1, 2}
      BY <3>1, OneOrTwo
    <3> QED BY <2>1, <3>1, <3>2 DEF RegisteredFor
  <2>3. onexit[p][Len(onexit[p])] \in {<<"delete", life[p]>>, <<"detach", life[p]>>}
    <3>1. CASE Len(onexit[p]) = 1
      <4>1. onexit[p][1] = <<"delete", life[p]>>
        BY <2>1, <3>1 DEF RegisteredFor, CallbacksOf
      <4> QED BY <3>1, <4>1
    <3>2. CASE Len(onexit[p]) = 2
      BY <2>1, <3>2 DEF RegisteredFor, CallbacksOf
    <3> QED BY <2>2, <3>1, <3>2
  <2>4. /\ life' = life /\ pc' = pc /\ life[p] \in Ids
        /\ \A r \in Procs : pc[r] \in Owning => life[r] # life[p]
    BY <1>1, <1>7, <2>1, <2>2 DEF shmem_exit, IpcInv, Lives
  <2>5. segKey' = segKey \/ segKey' = [segKey EXCEPT ![life[p]] = 0]
    BY <1>7, <2>3 DEF shmem_exit
  <2>6. CASE segKey' = segKey
    BY <1>2, <2>4, <2>6
  <2>7. CASE segKey' = [segKey EXCEPT ![life[p]] = 0]
    BY <1>3, <2>2, <2>4, <2>7
  <2> QED BY <2>5, <2>6, <2>7
<1>8. ASSUME NEW p \in Procs,
             \/ Start(p) \/ InternalCreateCollides(p) \/ Setup(p) \/ Lookup(p) \/ Probe(p)
             \/ Check(p) \/ MarkCreator(p) \/ MarkMagic(p) \/ on_exit_reset(p) \/ BeginExit(p)
             \/ Die(p)
      PROVE  Kept'
  <2>1. segKey' = segKey
    BY <1>8 DEF Start, InternalCreateCollides, Setup, Lookup, Probe, Check, MarkCreator,
                MarkMagic, on_exit_reset, BeginExit, Die, kernelVars
  <2>2. /\ pc'[p] \in Owning => pc[p] \in Owning /\ life'[p] = life[p]
        /\ \A r \in Procs : r # p => pc'[r] = pc[r] /\ life'[r] = life[r]
    BY <1>1, <1>8
    DEF Start, InternalCreateCollides, Setup, Lookup, Probe, Check, MarkCreator, MarkMagic,
        on_exit_reset, BeginExit, Die, NextKey, Goto
  <2> QED BY <1>2, <2>1, <2>2
<1>9. ASSUME NEW p \in Procs, NEW q \in Procs, Fork(p, q)
      PROVE  Kept'
  <2>1. segKey' = segKey /\ life' = life /\ pc' = [pc EXCEPT ![q] = "forked"]
    BY <1>9 DEF Fork, Goto
  <2> QED BY <1>1, <1>2, <2>1
<1>10. CASE UNCHANGED vars
  BY <1>2, <1>10 DEF vars, kernelVars
<1> QED BY <1>4, <1>5, <1>6, <1>7, <1>8, <1>9, <1>10 DEF Next, Search, Exit, Crash

\* The objects of living postmasters and of other programs are never removed,
\* an orderly exit leaves nothing behind (ipc_memory_create, ipc_semaphore_create
\* and the callbacks they register), and no search needs more keys than there
\* have been postmasters, for every set of processes.
THEOREM ObjectsAreKept == Spec => []ObjectsKept
<1>1. Init => Kept
  BY IpcAssumption DEF Init, Kept, OwnerKeepsObject, ForeignKept, Owning, Exists, Ids
<1>2. IpcInv /\ Kept => ObjectsKept
  <2> SUFFICES ASSUME IpcInv, NEW p \in Procs, pc[p] = "exiting", onexit[p] = <<>>, life[p] # 0
               PROVE  ~Exists(life[p])
    BY DEF Kept, ObjectsKept, IpcInv, CleanExit
  <2>1. Len(onexit[p]) = 0
    OBVIOUS
  <2> QED BY <2>1 DEF IpcInv, Registered, RegisteredFor
<1> QED BY <1>1, <1>2, IpcInit, IpcNext, KeptNext, PTL DEF Spec

=============================================================================
