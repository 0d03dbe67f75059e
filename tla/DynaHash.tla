------------------------------ MODULE DynaHash ------------------------------
(***************************************************************************)
(* The expansible hash tables of utils/hash/dynahash.c: linear hashing     *)
(* with one bucket added at a time.                                        *)
(*                                                                         *)
(* The collision chain of bucket b is the sequence chain[b] of elements,   *)
(* the free list the sequence free; the next field of an element is its    *)
(* successor in the sequence it is in, so that a pointer to an element     *)
(* that has been removed leads on along the free list, as in the code.     *)
(* Bucket b is in slot b % ssize of segment b \div ssize.  The hash        *)
(* function is arbitrary, and any allocation may fail.                     *)
(*                                                                         *)
(* assert(curr_index == INVALID_INDEX) at line 400 has the wrong sign: a   *)
(* build with assertions dies at the first new key.  Both builds are       *)
(* modelled; what a table does can only be seen in one with NDEBUG.        *)
(***************************************************************************)
EXTENDS Integers, Sequences, SequencesExt

CONSTANTS
  Keys,
  MaxHash,              \* hash values are 0..MaxHash
  nelem,                \* what hash_create is called with
  ssize,                \* slots in a segment, a power of two
  dirsize,              \* initial size of the directory
  FixedDir,             \* max_dsize # NO_MAX_DSIZE (tables in shared memory)
  ffactor,
  BUCKET_ALLOC_INCR,
  MaxElems              \* bound on the elements ever allocated

INVALID_INDEX == 0
Nobody == "nobody"

ASSUME HashAssumption ==
  /\ MaxHash \in Nat /\ MaxElems \in Nat
  /\ {nelem, ssize, dirsize, ffactor, BUCKET_ALLOC_INCR} \subseteq Nat \ {0}
  /\ FixedDir \in BOOLEAN
  /\ Nobody \notin Keys

VARIABLES
  ndebug, aborted,      \* how the program was built; an assertion has failed
  hash,                 \* the hash function of the table
  key,                  \* the key stored in each element
  chain, free,
  allocated,            \* elements 1..allocated exist
  max_bucket, low_mask, high_mask, nsegs, dsize, nkeys,
  S_CurBucket, S_CurIndex,
  scanning, last,       \* a scan is going on; the key it has just returned
  present,              \* history: keys entered and not removed
  due                   \* history: keys the scan has still to return

sizeVars == <<max_bucket, low_mask, high_mask, nsegs, dsize>>
scanVars == <<S_CurBucket, S_CurIndex, scanning, last, due>>
hashVars == <<ndebug, aborted, hash, key, chain, free, allocated, sizeVars, nkeys, scanVars, present>>

Elems == 1..MaxElems

\* 1 << my_log2(n): one, doubled until it is at least n.
PowerAbove(n) ==
  LET double[limit \in Nat] == IF limit >= n THEN limit ELSE double[2 * limit]
  IN  double[1]

\* The buckets init_htab begins with; later there are never more than keys.
nbuckets == PowerAbove((nelem - 1) \div ffactor + 1)
Buckets == 0..nbuckets + MaxElems

\* hash_create, hdefault and init_htab.
HashInit ==
  LET segs == PowerAbove((nbuckets - 1) \div ssize + 1)
  IN  /\ FixedDir => segs <= dirsize
      /\ ndebug \in BOOLEAN /\ aborted = FALSE
      /\ hash \in [Keys -> 0..MaxHash]
      /\ key = [e \in Elems |-> Nobody]
      /\ chain = [b \in Buckets |-> <<>>] /\ free = <<>> /\ allocated = 0
      /\ max_bucket = nbuckets - 1 /\ low_mask = nbuckets - 1
      /\ high_mask = 2 * nbuckets - 1
      /\ nsegs = segs /\ dsize = (IF segs > dirsize THEN segs ELSE dirsize) /\ nkeys = 0
      /\ S_CurBucket = 0 /\ S_CurIndex = INVALID_INDEX
      /\ scanning = FALSE /\ last = Nobody
      /\ present = {} /\ due = {}

\* The bucket of hash value h when the table has last bucket m and masks lo
\* and hi (x & (2^n - 1) is x % 2^n).  Mutant: the bound is off by one.
call_hash_late(h, m, lo, hi) ==
  LET b == h % (hi + 1) IN IF b > m + 1 THEN b % (lo + 1) ELSE b

call_hash(h, m, lo, hi) ==
  LET b == h % (hi + 1) IN IF b > m THEN b % (lo + 1) ELSE b

Bucket(k) == call_hash(hash[k], max_bucket, low_mask, high_mask)

\* Where following the collision chain comes to key k, and the element there,
\* or INVALID_INDEX.
Position(k) == SelectInSeq(chain[Bucket(k)], LAMBDA e : key[e] = k)
Find(k) == IF Position(k) = 0 THEN INVALID_INDEX ELSE chain[Bucket(k)][Position(k)]

\* The next field of element e.
Successor(s, e) ==
  LET i == CHOOSE i \in 1..Len(s) : s[i] = e
  IN  IF i = Len(s) THEN INVALID_INDEX ELSE s[i + 1]

NextOf(e) ==
  IF \E i \in 1..Len(free) : free[i] = e THEN Successor(free, e)
  ELSE Successor(chain[CHOOSE b \in Buckets : \E i \in 1..Len(chain[b]) : chain[b][i] = e], e)

\* Callers do not enter while a scan goes on, and remove at most the element
\* they have just been given.
CallersMayEnter == ~scanning
CallersMayRemove(k) == scanning => k = last

-----------------------------------------------------------------------------
(* Growing.                                                                *)

\* The free list after bucket_alloc, or as it is when there is a free element.
Refilled ==
  IF free # <<>> THEN free ELSE [i \in 1..BUCKET_ALLOC_INCR |-> allocated + i]

\* expand_table gets a new segment, in a larger directory if need be.
NewSegment(seg) ==
  /\ seg < dsize \/ ~FixedDir
  /\ dsize' = IF seg >= dsize THEN 2 * dsize ELSE dsize
  /\ nsegs' = nsegs + 1

\* The elements of s that are in S, in the order of s.
Those(s, S) ==
  LET those[i \in 0..Len(s)] ==
        IF i = 0 THEN <<>>
        ELSE IF s[i] \in S THEN Append(those[i - 1], s[i]) ELSE those[i - 1]
  IN  those[Len(s)]

\* expand_table adds a bucket to the table with chains ch and splits the
\* bucket that has the same low bits.  Mutant: the masks are readjusted one
\* bucket too late.
Expand_late(ch) ==
  LET new == max_bucket + 1
      old == new % (low_mask + 1)
      lo == IF max_bucket > high_mask THEN high_mask ELSE low_mask
      hi == IF max_bucket > high_mask THEN 2 * high_mask + 1 ELSE high_mask
      stay == {e \in Range(ch[old]) : call_hash(hash[key'[e]], new, lo, hi) = old}
  IN  /\ max_bucket' = new /\ low_mask' = lo /\ high_mask' = hi
      /\ chain' = [ch EXCEPT ![old] = Those(ch[old], stay),
                             ![new] = Those(ch[old], Elems \ stay)]

Expand(ch) ==
  LET new == max_bucket + 1
      old == new % (low_mask + 1)
      lo == IF new > high_mask THEN high_mask ELSE low_mask
      hi == IF new > high_mask THEN new + high_mask ELSE high_mask
      stay == {e \in Range(ch[old]) : call_hash(hash[key'[e]], new, lo, hi) = old}
  IN  /\ max_bucket' = new /\ low_mask' = lo /\ high_mask' = hi
      /\ chain' = [ch EXCEPT ![old] = Those(ch[old], stay),
                             ![new] = Those(ch[old], Elems \ stay)]

\* expand_table, whose failure hash_search ignores.  A directory that has
\* grown stays so when the segment cannot be allocated.
expand_table(ch) ==
  LET seg == (max_bucket + 1) \div ssize
  IN  \/ seg < nsegs /\ Expand(ch) /\ UNCHANGED <<nsegs, dsize>>
      \/ seg >= nsegs /\ NewSegment(seg) /\ Expand(ch)
      \/ /\ seg >= nsegs
         /\ dsize' \in IF seg >= dsize /\ ~FixedDir
                       THEN {dsize, 2 * dsize} ELSE {dsize}
         /\ chain' = ch
         /\ UNCHANGED <<max_bucket, low_mask, high_mask, nsegs>>

-----------------------------------------------------------------------------
(* hash_search.                                                            *)

\* HASH_ENTER of a key that is not found: a free element is appended to the
\* chain, and the table expanded when it has got too full.
HashEnter(k) ==
  LET e == Refilled[1]
      ch == [chain EXCEPT ![Bucket(k)] = Append(@, e)]
  IN  /\ ndebug /\ CallersMayEnter
      /\ Find(k) = INVALID_INDEX
      /\ free = <<>> => allocated + BUCKET_ALLOC_INCR <= MaxElems
      /\ allocated' = IF free = <<>> THEN allocated + BUCKET_ALLOC_INCR ELSE allocated
      /\ free' = Tail(Refilled)
      /\ key' = [key EXCEPT ![e] = k]
      /\ nkeys' = nkeys + 1
      /\ present' = present \cup {k}
      /\ IF (nkeys + 1) \div (max_bucket + 1) > ffactor
         THEN expand_table(ch)
         ELSE chain' = ch /\ UNCHANGED sizeVars
      /\ UNCHANGED <<ndebug, aborted, hash, scanVars>>

\* The same with assertions: the element is there, and that is what fails.
EnterAborts(k) ==
  /\ ~ndebug /\ ~aborted
  /\ Find(k) = INVALID_INDEX
  /\ free = <<>> => allocated + BUCKET_ALLOC_INCR <= MaxElems
  /\ free' = Refilled
  /\ allocated' = IF free = <<>> THEN allocated + BUCKET_ALLOC_INCR ELSE allocated
  /\ aborted' = TRUE
  /\ UNCHANGED <<ndebug, hash, key, chain, sizeVars, nkeys, scanVars, present>>

\* HASH_REMOVE of a key that is found.  What is left of the key in a free
\* element is abstracted to Nobody.  Mutant: nothing is put back on the free
\* list.
HashRemove_leak(k) ==
  LET e == Find(k)
  IN  /\ CallersMayRemove(k)
      /\ e # INVALID_INDEX
      /\ chain' = [chain EXCEPT ![Bucket(k)] = RemoveAt(@, Position(k))]
      /\ key' = [key EXCEPT ![e] = Nobody]
      /\ nkeys' = nkeys - 1
      /\ present' = present \ {k} /\ due' = due \ {k}
      /\ UNCHANGED <<ndebug, aborted, hash, free, allocated, sizeVars, S_CurBucket, S_CurIndex,
                     scanning, last>>

HashRemove(k) ==
  LET e == Find(k)
  IN  /\ CallersMayRemove(k)
      /\ e # INVALID_INDEX
      /\ chain' = [chain EXCEPT ![Bucket(k)] = RemoveAt(@, Position(k))]
      /\ free' = <<e>> \o free
      /\ key' = [key EXCEPT ![e] = Nobody]
      /\ nkeys' = nkeys - 1
      /\ present' = present \ {k} /\ due' = due \ {k}
      /\ UNCHANGED <<ndebug, aborted, hash, allocated, sizeVars, S_CurBucket, S_CurIndex,
                     scanning, last>>

-----------------------------------------------------------------------------
(* hash_seq.                                                               *)

\* hash_seq(NULL).
StartScan ==
  /\ ~aborted
  /\ S_CurBucket' = 0 /\ S_CurIndex' = INVALID_INDEX
  /\ scanning' = TRUE /\ last' = Nobody /\ due' = present
  /\ UNCHANGED <<ndebug, aborted, hash, key, chain, free, allocated, sizeVars, nkeys, present>>

\* The bucket the loop stops at when it is at the start of bucket b: the
\* first one from there on that is not empty.
NonEmpty == {b \in S_CurBucket..max_bucket : chain[b] # <<>>}
FirstNonEmpty == CHOOSE b \in NonEmpty : \A c \in NonEmpty : b <= c

\* Element e of bucket b is returned.  Mutants: the rest of the chain
\* is skipped; the bucket is not left behind at its end.
Give_skip(e, b) ==
  /\ last' = key[e] /\ due' = due \ {key[e]}
  /\ S_CurIndex' = NextOf(e)
  /\ S_CurBucket' = b + 1

Give_stay(e, b) ==
  /\ last' = key[e] /\ due' = due \ {key[e]}
  /\ S_CurIndex' = NextOf(e)
  /\ S_CurBucket' = b

Give(e, b) ==
  /\ last' = key[e] /\ due' = due \ {key[e]}
  /\ S_CurIndex' = NextOf(e)
  /\ S_CurBucket' = IF NextOf(e) = INVALID_INDEX THEN b + 1 ELSE b

\* hash_seq returns an element.
SeqReturn ==
  /\ ~aborted /\ scanning
  /\ S_CurBucket <= max_bucket
  /\ \/ S_CurIndex # INVALID_INDEX /\ Give(S_CurIndex, S_CurBucket)
     \/ /\ S_CurIndex = INVALID_INDEX /\ NonEmpty # {}
        /\ Give(chain[FirstNonEmpty][1], FirstNonEmpty)
  /\ UNCHANGED <<ndebug, aborted, hash, key, chain, free, allocated, sizeVars, nkeys, scanning, present>>

\* hash_seq returns TRUE: there is nothing left.
SeqEnd ==
  /\ ~aborted /\ scanning
  /\ S_CurIndex = INVALID_INDEX /\ NonEmpty = {}
  /\ S_CurBucket' = max_bucket + 1
  /\ scanning' = FALSE /\ last' = Nobody
  /\ UNCHANGED <<ndebug, aborted, hash, key, chain, free, allocated, sizeVars, nkeys, present,
                 S_CurIndex, due>>

HashNext == \/ \E k \in Keys : HashEnter(k) \/ HashRemove(k) \/ EnterAborts(k)
            \/ StartScan \/ SeqReturn \/ SeqEnd

HashSpec == HashInit /\ [][HashNext]_hashVars

-----------------------------------------------------------------------------
(* Properties.                                                             *)

\* The types of the variables; the header's counts and masks fit together:
\* the masks are 2^n - 1 and 2^(n+1) - 1 around max_bucket, and every bucket
\* lies in a segment that exists.
HashTypeOK ==
  /\ key \in [Elems -> Keys \cup {Nobody}]
  /\ allocated \in 0..MaxElems
  /\ \A b \in Buckets : chain[b] \in Seq(1..allocated)
  /\ free \in Seq(1..allocated)
  /\ max_bucket \in Buckets
  /\ low_mask <= max_bucket /\ max_bucket <= high_mask /\ high_mask = 2 * low_mask + 1
  /\ max_bucket < nsegs * ssize /\ nsegs <= dsize
  /\ S_CurBucket \in 0..(max_bucket + 1) /\ S_CurIndex \in 0..allocated

\* A lookup finds exactly the keys that were entered and not removed, however
\* often the table was expanded, or failed to be, in between.
FoundIsPresent == \A k \in Keys : Find(k) # INVALID_INDEX <=> k \in present

\* Every element is in one place, on one chain or on the free list: none is
\* lost, none is handed out while a key is in it.
ElementsPartitioned ==
  /\ \A e \in 1..allocated :
       (\E b \in Buckets : \E i \in 1..Len(chain[b]) : chain[b][i] = e)
         # (\E i \in 1..Len(free) : free[i] = e)
  /\ \A b, c \in Buckets : \A i \in 1..Len(chain[b]) : \A j \in 1..Len(chain[c]) :
       chain[b][i] = chain[c][j] => b = c /\ i = j
  /\ \A i, j \in 1..Len(free) : free[i] = free[j] => i = j
  /\ nkeys = allocated - Len(free)

\* hash_search finds what was entered and nothing else, in a table whose
\* header, chains and free list account for every element.
KeysFound == HashTypeOK /\ FoundIsPresent /\ ElementsPartitioned

\* hash_seq returns no key twice and none that is not there, and all of them
\* before it ends, when the caller removes each element it is given.
ScanExact == [][(SeqReturn => last' \in due) /\ (SeqEnd => due = {})]_hashVars
=============================================================================
