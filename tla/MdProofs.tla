------------------------------ MODULE MdProofs ------------------------------
(***************************************************************************)
(* Proofs about Md, for every set of relations, every segment and block    *)
(* size and every size of the table of entries: Spec => []PoolExact,       *)
(* Spec => []ChainsOwned, Spec => []TruncateExact, Spec => ExtendAddsOne,  *)
(* and Spec => []BlocksContiguous where callers do not read beyond the     *)
(* block right behind the end of a relation.                               *)
(*                                                                         *)
(* The inductive invariant MdInv says what the free list may link          *)
(* (PoolInv), whose an entry is and what its chain holds, also while       *)
(* md_close takes it apart (RelInv), where a call can be and what it has   *)
(* on hand there (CallInv, RestInv), how long the files are (LenInv), that *)
(* a call of md_extend has found the segment to write to (ExtendInv), and  *)
(* that what is open is what can be reached (VfdInv).  The second one,     *)
(* BlockInv, says where the blocks of a relation are, also while           *)
(* md_truncate or md_unlink is at work; what md_nblocks returns follows    *)
(* from it because the number of blocks is a sum over the segments.        *)
(***************************************************************************)
EXTENDS Md, RingProofs, SequenceTheorems

-----------------------------------------------------------------------------
(* The inductive invariant.                                                *)

\* Sequence s has element f.
Has(s, f) == \E i \in 1..Len(s) : s[i] = f

\* The first segments of relation r, in order.
Segments(s, r) == \A i \in 1..Len(s) : s[i] = <<r, i - 1>>

\* Where the free list may lead: to entries that were used before, or to the
\* first one that never was.
MayFollow(x) == x \in 0..(CurFd - 1) \/ x = IF CurFd < Nfds THEN CurFd ELSE -1

\* The elements of the free list: free entries, counted from 1.
FreeElements == {e + 1 : e \in (0..(Nfds - 1)) \ inuse}

\* The pool: its free list holds the entries that were used before first, the
\* others behind them and in order.
PoolInv ==
  /\ Nfds \in InitNfds..MaxFds /\ CurFd \in 0..Nfds /\ MdFree \in -1..(Nfds - 1)
  /\ next_free \in [Entries -> -1..MaxFds]
  /\ inuse \subseteq 0..(CurFd - 1)
  /\ IsChain(0, FreeElements, FreeLinks)
  /\ MayFollow(MdFree)
  /\ \A x \in (0..(CurFd - 1)) \ inuse : MayFollow(next_free[x])
  /\ \A x \in CurFd..(Nfds - 1) : next_free[x] = IF x = Nfds - 1 THEN -1 ELSE x + 1

\* The entry of relation r: its chain holds segments of r, none twice, and
\* is all segments from the first one on unless md_close is at work on it.
Closing(r) == pc = "close" /\ call.r = r

EntryInv(r) ==
  /\ \A i \in 1..Len(chain[rd_fd[r]]) : chain[rd_fd[r]][i][1] = r
  /\ \A i, j \in 1..Len(chain[rd_fd[r]]) :
       chain[rd_fd[r]][i] = chain[rd_fd[r]][j] => i = j
  /\ Len(chain[rd_fd[r]]) <= MaxSeg + 1
  /\ ~Closing(r) => chain[rd_fd[r]] # <<>> /\ Segments(chain[rd_fd[r]], r)

RelInv ==
  /\ rd_fd \in [Relations -> -1..(MaxFds - 1)]
  /\ inuse = {rd_fd[r] : r \in Relations} \ {-1}
  /\ \A r, q \in Relations : rd_fd[r] = rd_fd[q] /\ rd_fd[r] # -1 => r = q
  /\ chain \in [Entries -> Seq(Files)]
  /\ \A e \in Entries \ inuse : chain[e] = <<>>
  /\ \A r \in Relations : rd_fd[r] # -1 => EntryInv(r)

\* Where a call can be, and what it has on hand there.
Steps == {"count", "countopen", "seg", "read", "write", "flush", "mark", "extend",
          "truncate", "close"}

Transfers == {"read", "write", "flush", "mark", "extend"}

CallInv ==
  /\ pc \in Steps \cup {"idle", "open", "unlink", "commit"}
  /\ at \in Nat
  /\ call \in [op : Ops \cup {"none", "commit", "unlink"},
               r : Relations \cup {"none"}, b : Nat]
  /\ pc \in {"idle", "commit", "unlink"} => call.op # "extend"
  /\ pc \notin {"idle", "commit"} => call.r \in Relations
  /\ pc \in {"open", "unlink"} => rd_fd[call.r] = -1
  /\ pc \in Steps => rd_fd[call.r] # -1
  /\ pc = "open" => call.op \in Ops \ {"close"}
  /\ pc \in {"count", "countopen"} => call.op \in {"nblocks", "extend", "truncate", "read"}
  /\ pc = "truncate" => call.op = "truncate"
  /\ pc \in Transfers => call.op = pc
  /\ pc = "seg" => call.op \in Transfers
  /\ pc \in {"open", "seg"} => call.op = "extend" \/ call.b < (MaxSeg + 1) * RELSEG_SIZE
  /\ pc \in {"count", "countopen"} \cup Transfers => at \in 1..Len(Chain)
  /\ pc = "countopen" => at = Len(Chain)
  /\ pc \in {"open", "seg", "close"} => at = 1
  /\ pc = "unlink" => at <= MaxSeg + 1
  /\ pc = "idle" => at = 0
  /\ pc = "commit" => at <= CurFd

\* The segments that a relation's chain leads to, and those md.c can reach.
OnChain(f) == rd_fd[f[1]] # -1 /\ Has(chain[rd_fd[f[1]]], f)

Reached(f) == OnChain(f) \/ Has(rest, f)

\* What is left of a chain in md_commit is on that chain; what md_truncate
\* can still reach are the segments from the current one on, and the chain
\* ends with them until it is cut.
RestInv ==
  /\ rest \in Seq(Files)
  /\ pc \notin {"commit", "truncate"} => rest = <<>>
  /\ pc = "commit" => \A f \in Files : Has(rest, f) => OnChain(f)
  /\ pc = "truncate" =>
       /\ at >= 1 /\ at + Len(rest) <= MaxSeg + 2
       /\ \A i \in 1..Len(rest) : rest[i] = <<call.r, at + i - 2>>
       /\ prior_blocks <= call.b => Len(Chain) = at - 1 + Len(rest)
       /\ prior_blocks > call.b => Len(Chain) < at

\* Lengths: what is reachable exists, and the last segment never gets full.
LenInv ==
  /\ len \in [Files -> -1..Full]
  /\ \A f \in Files : Reached(f) => len[f] # -1
  /\ \A r \in Relations : len[<<r, MaxSeg>>] < Full

\* All segments of r but the last possible one are full.
OnlyLast(r) == \A k \in Segs : k # MaxSeg => len[<<r, k>>] >= Full

\* A call of md_extend: there is room for a block, and the segment it has
\* counted up to is the first that is not full, or cannot be written.
ExtendInv ==
  /\ call.op = "extend" /\ OnlyLast(call.r) =>
       RELSEG_SIZE > 1 /\ len[<<call.r, MaxSeg>>] + BLCKSZ < Full
  /\ pc = "count" => \A k \in 0..(at - 2) : len[<<call.r, k>>] = Full
  /\ pc = "countopen" => \A k \in 0..(at - 1) : len[<<call.r, k>>] = Full
  /\ pc \in {"seg", "extend"} /\ call.op = "extend" =>
       /\ call.b \div RELSEG_SIZE \in 0..(Len(Chain) - 1)
       /\ pc = "extend" => at = call.b \div RELSEG_SIZE + 1
       /\ \A k \in 0..(call.b \div RELSEG_SIZE - 1) : len[<<call.r, k>>] = Full
       /\ \/ len[<<call.r, call.b \div RELSEG_SIZE>>] < Full
          \/ <<call.r, call.b \div RELSEG_SIZE>> \in closed \cap lost

\* The bookkeeping of fd.c.
FdInv ==
  /\ lost \in SUBSET closed /\ closed \in SUBSET Files
  /\ dirty \in SUBSET Files /\ unsynced \in SUBSET Files
  /\ damaged \in SUBSET Relations

\* What is open is what can be reached.
VfdInv ==
  /\ nvfd \in [Files -> 0..1]
  /\ \A f \in Files : nvfd[f] = IF Reached(f) THEN 1 ELSE 0

MdInv ==
  PoolInv /\ RelInv /\ CallInv /\ RestInv /\ LenInv /\ ExtendInv /\ FdInv /\ VfdInv
-----------------------------------------------------------------------------
(* Arithmetic of blocks and segments, and the first short segment.         *)

\* Multiples of a block or of a segment are ordered as their numbers are.
LEMMA MulMono ==
  ASSUME NEW a \in Int, NEW b \in Int, NEW c \in Nat, a <= b
  PROVE  a * c <= b * c
OBVIOUS

\* So are those of a segment that holds something.
LEMMA MulLess ==
  ASSUME NEW a \in Int, NEW b \in Int, NEW c \in Nat \ {0}, a * c < b * c
  PROVE  a < b
OBVIOUS

\* The next multiple.
LEMMA MulNext ==
  ASSUME NEW a \in Int, NEW c \in Nat
  PROVE  a * c \in Int /\ (a + 1) * c = a * c + c /\ a * c = (a - 1) * c + c
OBVIOUS

\* A length in blocks, and what is left of an incomplete one.
LEMMA DivMod ==
  ASSUME NEW l \in Int, NEW c \in Nat \ {0}
  PROVE  /\ l \div c \in Int /\ l % c \in 0..(c - 1)
         /\ l = (l \div c) * c + (l % c)
OBVIOUS

\* The segment of a block.
LEMMA DivUnique ==
  ASSUME NEW q \in Int, NEW c \in Nat \ {0}, NEW n \in 0..(c - 1)
  PROVE  (q * c + n) \div c = q
OBVIOUS

\* A natural number of blocks has a natural number of segments.
LEMMA DivNat ==
  ASSUME NEW l \in Nat, NEW c \in Nat \ {0}
  PROVE  l \div c \in Nat
OBVIOUS

\* The least of some natural numbers exists (FirstShort).
LEMMA MinNat ==
  ASSUME NEW S, S \subseteq Nat, S # {}
  PROVE  Min(S) \in S /\ \A y \in S : Min(S) <= y
<1>1. \E x \in S : \A y \in S : x <= y
  BY Smallest
<1> QED BY <1>1 DEF Min

\* What the constants are.
LEMMA Sizes ==
  /\ MaxSeg \in Nat /\ RELSEG_SIZE \in Nat \ {0} /\ BLCKSZ \in Nat \ {0}
  /\ Full \in Nat /\ BLCKSZ <= Full
  /\ RELSEG_SIZE > 1 => BLCKSZ < Full
<1>1. MaxSeg \in Nat /\ RELSEG_SIZE \in Nat \ {0} /\ BLCKSZ \in Nat \ {0}
  BY MdAssumption
<1>2. Full \in Nat
  BY <1>1 DEF Full
<1>3. 1 * BLCKSZ <= RELSEG_SIZE * BLCKSZ
  BY <1>1, MulMono
<1>4. RELSEG_SIZE > 1 => 2 * BLCKSZ <= RELSEG_SIZE * BLCKSZ
  BY <1>1, MulMono
<1> QED BY <1>1, <1>2, <1>3, <1>4 DEF Full

-----------------------------------------------------------------------------
(* Sequences.                                                              *)

\* The elements of a chain to which one is appended.
LEMMA HasAppend ==
  ASSUME NEW T, NEW s \in Seq(T), NEW x \in T, NEW f
  PROVE  Has(Append(s, x), f) <=> Has(s, f) \/ f = x
<1>1. /\ Append(s, x) \in Seq(T) /\ Len(Append(s, x)) = Len(s) + 1 /\ Len(s) \in Nat
      /\ \A i \in 1..Len(s) : Append(s, x)[i] = s[i]
      /\ Append(s, x)[Len(s) + 1] = x
  BY AppendProperties, LenProperties
<1>2. \A i \in 1..(Len(s) + 1) : i \in 1..Len(s) \/ i = Len(s) + 1
  BY <1>1
<1>3. Len(s) + 1 \in 1..(Len(s) + 1) /\ \A i \in 1..Len(s) : i \in 1..(Len(s) + 1)
  BY <1>1
<1> QED BY <1>1, <1>2, <1>3 DEF Has

\* The tail of a sequence.
LEMMA TailAt ==
  ASSUME NEW T, NEW s \in Seq(T), s # <<>>
  PROVE  /\ Len(s) >= 1 /\ Head(s) = s[1] /\ Head(s) \in T
         /\ Tail(s) \in Seq(T) /\ Len(Tail(s)) = Len(s) - 1
         /\ \A i \in 1..Len(Tail(s)) : i + 1 \in 1..Len(s) /\ Tail(s)[i] = s[i + 1]
<1>1. Len(s) \in Nat /\ Len(s) # 0
  BY EmptySeq, LenProperties
<1> QED BY <1>1, HeadTailProperties

\* Taking the first of different elements away.
LEMMA HasTail ==
  ASSUME NEW T, NEW s \in Seq(T), s # <<>>, NEW f,
         \A i, j \in 1..Len(s) : s[i] = s[j] => i = j
  PROVE  Has(Tail(s), f) <=> Has(s, f) /\ f # Head(s)
<1>1. /\ Len(s) >= 1 /\ Head(s) = s[1] /\ Len(s) \in Nat
      /\ Len(Tail(s)) = Len(s) - 1
      /\ \A i \in 1..Len(Tail(s)) : i + 1 \in 1..Len(s) /\ Tail(s)[i] = s[i + 1]
  BY TailAt, LenProperties
<1>2. ASSUME Has(Tail(s), f) PROVE Has(s, f) /\ f # Head(s)
  <2>1. PICK i \in 1..Len(Tail(s)) : Tail(s)[i] = f
    BY <1>2 DEF Has
  <2>2. i + 1 \in 1..Len(s) /\ s[i + 1] = f /\ i + 1 # 1 /\ 1 \in 1..Len(s)
    BY <1>1, <2>1
  <2> QED BY <2>2, <1>1 DEF Has
<1>3. ASSUME Has(s, f), f # Head(s) PROVE Has(Tail(s), f)
  <2>1. PICK i \in 1..Len(s) : s[i] = f
    BY <1>3 DEF Has
  <2>2. i # 1
    BY <1>1, <1>3, <2>1
  <2>3. i - 1 \in 1..Len(Tail(s)) /\ (i - 1) + 1 = i
    BY <1>1, <2>1, <2>2
  <2> QED BY <1>1, <2>1, <2>3 DEF Has
<1> QED BY <1>2, <1>3

\* Which segments a whole chain holds.
LEMMA HasSegments ==
  ASSUME NEW s, NEW r, Len(s) \in Nat, Segments(s, r), NEW k \in Nat
  PROVE  Has(s, <<r, k>>) <=> k < Len(s)
<1>1. ASSUME Has(s, <<r, k>>) PROVE k < Len(s)
  <2>1. PICK i \in 1..Len(s) : s[i] = <<r, k>>
    BY <1>1 DEF Has
  <2>2. <<r, i - 1>> = <<r, k>>
    BY <2>1 DEF Segments
  <2> QED BY <2>2
<1>2. ASSUME k < Len(s) PROVE Has(s, <<r, k>>)
  <2>1. k + 1 \in 1..Len(s) /\ (k + 1) - 1 = k
    BY <1>2
  <2> QED BY <2>1 DEF Has, Segments
<1> QED BY <1>1, <1>2

-----------------------------------------------------------------------------
(* The pool.                                                               *)

\* The free list is finite, has no entry 0, and its links are a function.
LEMMA FreeListType ==
  ASSUME PoolInv
  PROVE  /\ IsFiniteSet(FreeElements) /\ 0 \notin FreeElements
         /\ FreeElements \subseteq 1..Nfds
         /\ \A e \in 0..(Nfds - 1) : e + 1 \in FreeElements <=> e \notin inuse
         /\ FreeLinks \in [0..MaxFds -> Int]
         /\ Nfds \in Nat /\ CurFd \in Nat /\ MaxFds \in Nat /\ Nfds <= MaxFds
         /\ InitNfds \in Nat /\ Nfds >= 2 /\ MdFree \in Int
         /\ FreeLinks[0] = MdFree + 1
         /\ \A e \in 0..(Nfds - 1) : FreeLinks[e + 1] = next_free[e] + 1
<1>1. /\ Nfds \in Nat /\ CurFd \in Nat /\ MaxFds \in Nat /\ Nfds <= MaxFds
      /\ InitNfds \in Nat /\ Nfds >= 2 /\ MdFree \in Int
  BY MdAssumption DEF PoolInv
<1>2. FreeElements \subseteq 1..Nfds /\ 0 \notin FreeElements
  BY <1>1 DEF FreeElements
<1>3. IsFiniteSet(FreeElements)
  <2>1. IsFiniteSet(1..Nfds)
    BY <1>1, FS_Interval
  <2> QED BY <1>2, <2>1, FS_Subset
<1>4. \A e \in 0..(Nfds - 1) : e + 1 \in FreeElements <=> e \notin inuse
  BY <1>1 DEF FreeElements
<1>5. \A x \in 0..MaxFds : x # 0 => x - 1 \in Entries
  BY <1>1 DEF Entries
<1>6. FreeLinks \in [0..MaxFds -> Int]
  BY <1>1, <1>5 DEF FreeLinks, PoolInv
<1>7. FreeLinks[0] = MdFree + 1
  BY <1>1 DEF FreeLinks
<1>8. \A e \in 0..(Nfds - 1) : FreeLinks[e + 1] = next_free[e] + 1
  BY <1>1 DEF FreeLinks
<1> QED BY <1>1, <1>2, <1>3, <1>4, <1>6, <1>7, <1>8

\* fdvec_alloc takes an entry off the free list, or one of a larger table,
\* that nobody uses.
LEMMA AllocKeepsPool ==
  ASSUME PoolInv, NEW e \in Entries, fdvec_alloc(e)
  PROVE  PoolInv' /\ e \notin inuse /\ inuse' = inuse \cup {e}
<1>1. /\ IsFiniteSet(FreeElements) /\ 0 \notin FreeElements
      /\ FreeElements \subseteq 1..Nfds
      /\ \A x \in 0..(Nfds - 1) : x + 1 \in FreeElements <=> x \notin inuse
      /\ FreeLinks \in [0..MaxFds -> Int]
      /\ Nfds \in Nat /\ CurFd \in Nat /\ MaxFds \in Nat /\ Nfds <= MaxFds
      /\ InitNfds \in Nat /\ Nfds >= 2 /\ MdFree \in Int
      /\ FreeLinks[0] = MdFree + 1
      /\ \A x \in 0..(Nfds - 1) : FreeLinks[x + 1] = next_free[x] + 1
  BY FreeListType
<1>2. /\ Nfds \in InitNfds..MaxFds /\ CurFd \in 0..Nfds /\ MdFree \in -1..(Nfds - 1)
      /\ next_free \in [Entries -> -1..MaxFds]
      /\ inuse \subseteq 0..(CurFd - 1)
      /\ IsChain(0, FreeElements, FreeLinks)
      /\ MayFollow(MdFree)
      /\ \A x \in (0..(CurFd - 1)) \ inuse : MayFollow(next_free[x])
      /\ \A x \in CurFd..(Nfds - 1) :
           next_free[x] = IF x = Nfds - 1 THEN -1 ELSE x + 1
  BY DEF PoolInv
<1>3. CASE MdFree >= 0
  <2>1. /\ e = MdFree /\ MdFree' = next_free[e]
        /\ CurFd' = IF e >= CurFd THEN CurFd + 1 ELSE CurFd
        /\ inuse' = inuse \cup {e}
        /\ Nfds' = Nfds /\ next_free' = next_free
    BY <1>3 DEF fdvec_alloc
  <2>2. FreeElements # {}
    BY <1>1, <1>2, <1>3, ChainFirst, SMTT(60)
  <2>3. e + 1 \in FreeElements
    BY <1>1, <1>2, <2>1, <2>2, ChainFirst
  <2>4. e \in 0..(Nfds - 1) /\ e \notin inuse
    BY <1>1, <1>2, <2>1, <2>3
  <2>5. FreeElements' = FreeElements \ {e + 1}
    BY <1>1, <2>1, <2>4 DEF FreeElements
  <2>6. FreeLinks[e + 1] = MdFree' + 1
    BY <1>1, <2>1, <2>4
  <2>7. FreeLinks' = [FreeLinks EXCEPT ![0] = FreeLinks[FreeLinks[0]]]
    <3>1. FreeLinks[FreeLinks[0]] = MdFree' + 1
      BY <1>1, <2>1, <2>6
    <3>2. FreeLinks' = [x \in 0..MaxFds |-> IF x = 0 THEN MdFree' + 1 ELSE next_free[x - 1] + 1]
      BY <2>1 DEF FreeLinks
    <3> QED BY <1>1, <3>1, <3>2 DEF FreeLinks
  <2>8. IsChain(0, FreeElements \ {FreeLinks[0]},
                [FreeLinks EXCEPT ![0] = FreeLinks[FreeLinks[0]]])
    <3>1. 0 \in 0..MaxFds /\ FreeElements \subseteq 0..MaxFds
      BY <1>1
    <3> QED BY <1>1, <1>2, <2>2, <3>1, ChainPop
  <2>9. IsChain(0, FreeElements', FreeLinks')
    BY <1>1, <2>1, <2>5, <2>7, <2>8
  <2>10. CASE e < CurFd
    <3>1. CurFd' = CurFd
      BY <2>1, <2>10, <1>1, <2>4
    <3>2. \A x : MayFollow(x)' <=> MayFollow(x)
      BY <2>1, <3>1 DEF MayFollow
    <3>3. MayFollow(next_free[e])
      BY <1>2, <2>4, <2>10
    <3>4. MdFree' \in -1..(Nfds - 1)
      BY <1>1, <1>2, <2>1, <3>3, SMTT(60) DEF MayFollow
    <3>5. (MayFollow(MdFree))' /\ \A x \in (0..(CurFd - 1)) \ inuse' : (MayFollow(next_free[x]))'
      BY <1>2, <2>1, <3>1, <3>3 DEF MayFollow
    <3>6. inuse' \subseteq 0..(CurFd - 1)
      BY <1>1, <1>2, <2>1, <2>4, <2>10
    <3> QED BY <1>2, <2>1, <2>4, <2>9, <3>1, <3>4, <3>5, <3>6 DEF PoolInv
  <2>11. CASE e >= CurFd
    <3>1. CurFd' = CurFd + 1 /\ e = CurFd /\ CurFd < Nfds
      BY <1>1, <1>2, <2>1, <2>4, <2>11 DEF MayFollow
    <3>2. MdFree' = IF CurFd = Nfds - 1 THEN -1 ELSE CurFd + 1
      BY <1>1, <1>2, <2>1, <3>1
    <3>3. (MayFollow(MdFree))' /\ MdFree' \in -1..(Nfds - 1)
      <4>1. CASE CurFd = Nfds - 1
        BY <4>1, <1>1, <2>1, <3>1, <3>2 DEF MayFollow
      <4>2. CASE CurFd # Nfds - 1
        BY <4>2, <1>1, <2>1, <3>1, <3>2 DEF MayFollow
      <4> QED BY <4>1, <4>2
    <3>4. ASSUME NEW x \in (0..(CurFd' - 1)) \ inuse' PROVE next_free[x] \in 0..(CurFd - 1)
      <4>1. x \in 0..(CurFd - 1) /\ x \notin inuse /\ x \in 0..(Nfds - 1)
        BY <1>1, <2>1, <3>1, <3>4
      <4>2. next_free[x] \in 0..(CurFd - 1) \/ next_free[x] = CurFd
        BY <4>1, <1>2, <3>1 DEF MayFollow
      <4>3. x + 1 \in FreeElements /\ x + 1 # 0
        BY <4>1, <1>1
      <4>4. FreeLinks[x + 1] # FreeLinks[0]
        <5>1. x + 1 \in FreeElements \cup {0} /\ 0 \in FreeElements \cup {0}
          BY <4>3
        <5>2. IsFiniteSet(FreeElements) /\ 0 \notin FreeElements
          BY <1>1
        <5>3. IsChain(0, FreeElements, FreeLinks)
          BY <1>2
        <5>4. FreeLinks[x + 1] = FreeLinks[0] => x + 1 = 0
          BY <5>1, <5>2, <5>3, ChainInjective
        <5> QED BY <5>4, <4>3
      <4>5. FreeLinks[x + 1] = next_free[x] + 1 /\ FreeLinks[0] = CurFd + 1
        BY <4>1, <1>1, <2>1, <3>1
      <4> QED BY <4>2, <4>4, <4>5, <1>1
    <3>5. \A x \in (0..(CurFd' - 1)) \ inuse' : (MayFollow(next_free[x]))'
      BY <3>4, <3>1, <2>1, <1>1 DEF MayFollow
    <3>6. inuse' \subseteq 0..(CurFd' - 1) /\ CurFd' \in 0..Nfds
      BY <1>1, <1>2, <2>1, <3>1
    <3>7. \A x \in CurFd'..(Nfds - 1) :
           next_free[x] = IF x = Nfds - 1 THEN -1 ELSE x + 1
      BY <1>1, <1>2, <3>1
    <3> QED BY <1>2, <2>1, <2>4, <2>9, <3>1, <3>3, <3>5, <3>6, <3>7 DEF PoolInv
  <2> QED BY <2>10, <2>11, <1>1, <2>4
<1>4. CASE MdFree < 0
  <2>1. /\ e = CurFd /\ 2 * Nfds <= MaxFds /\ Nfds' = 2 * Nfds
        /\ next_free' = [x \in Entries |-> IF x = 2 * Nfds - 1 THEN -1
                                           ELSE IF x >= CurFd THEN x + 1
                                           ELSE next_free[x]]
        /\ MdFree' = CurFd + 1 /\ CurFd' = CurFd + 1
        /\ inuse' = inuse \cup {e}
    BY <1>4, <1>1 DEF fdvec_alloc
  <2>2. MdFree = -1 /\ CurFd = Nfds
    BY <1>1, <1>2, <1>4 DEF MayFollow
  <2>3. FreeElements = {}
    BY <1>1, <1>2, <2>2, ChainFirst
  <2>4. inuse = 0..(Nfds - 1)
    BY <1>1, <1>2, <2>2, <2>3
  <2>5. FreeElements' = (Nfds + 2)..(2 * Nfds)
    <3>1. FreeElements' = {x + 1 : x \in (0..(2 * Nfds - 1)) \ (0..Nfds)}
      BY <1>1, <2>1, <2>2, <2>4 DEF FreeElements
    <3>2. ASSUME NEW y PROVE y \in {x + 1 : x \in (0..(2 * Nfds - 1)) \ (0..Nfds)}
                             <=> y \in (Nfds + 2)..(2 * Nfds)
      <4>1. ASSUME y \in (Nfds + 2)..(2 * Nfds)
            PROVE  y - 1 \in (0..(2 * Nfds - 1)) \ (0..Nfds) /\ (y - 1) + 1 = y
        BY <4>1, <1>1
      <4> QED BY <4>1, <1>1, SMTT(60)
    <3> QED BY <3>1, <3>2
  <2>6. IsChain(0, (Nfds + 2)..(2 * Nfds), FreeLinks')
    <3>1. FreeLinks' = [x \in 0..MaxFds |-> IF x = 0 THEN MdFree' + 1 ELSE next_free'[x - 1] + 1]
      BY DEF FreeLinks
    <3>2. FreeLinks'[0] = Nfds + 2
      BY <3>1, <1>1, <2>1, <2>2
    <3>3. FreeLinks'[2 * Nfds] = 0
      <4>1. 2 * Nfds \in 0..MaxFds /\ 2 * Nfds # 0 /\ 2 * Nfds - 1 \in Entries
        BY <1>1, <2>1 DEF Entries
      <4> QED BY <4>1, <3>1, <2>1
    <3>4. ASSUME NEW i \in (Nfds + 2)..(2 * Nfds - 1) PROVE FreeLinks'[i] = i + 1
      <4>1. /\ i \in 0..MaxFds /\ i # 0 /\ i - 1 \in Entries /\ i - 1 # 2 * Nfds - 1
            /\ i - 1 >= CurFd
        BY <1>1, <2>1, <2>2 DEF Entries
      <4> QED BY <4>1, <3>1, <2>1
    <3>5. Nfds + 2 \in Nat \ {0} /\ 2 * Nfds \in Nat /\ Nfds + 2 <= 2 * Nfds
      BY <1>1
    <3> QED BY <3>2, <3>3, <3>4, <3>5, ChainInterval
  <2>7. next_free' \in [Entries -> -1..MaxFds]
    <3> SUFFICES ASSUME NEW x \in Entries PROVE next_free'[x] \in -1..MaxFds
      BY <2>1
    <3> QED BY <1>1, <1>2, <2>1 DEF Entries
  <2>8. \A x \in CurFd'..(Nfds' - 1) :
          next_free'[x] = IF x = Nfds' - 1 THEN -1 ELSE x + 1
    <3> SUFFICES ASSUME NEW x \in CurFd'..(Nfds' - 1)
                 PROVE  next_free'[x] = IF x = Nfds' - 1 THEN -1 ELSE x + 1
      OBVIOUS
    <3>1. x \in Entries /\ x >= CurFd
      BY <1>1, <2>1 DEF Entries
    <3> QED BY <3>1, <2>1
  <2>9. /\ Nfds' \in InitNfds..MaxFds /\ CurFd' \in 0..Nfds' /\ MdFree' \in -1..(Nfds' - 1)
        /\ inuse' \subseteq 0..(CurFd' - 1) /\ e \notin inuse
        /\ (0..(CurFd' - 1)) \ inuse' = {}
    BY <1>1, <1>2, <2>1, <2>2, <2>4, SMTT(60)
  <2>10. (MayFollow(MdFree))'
    BY <1>1, <2>1, <2>2 DEF MayFollow
  <2> QED BY <2>1, <2>5, <2>6, <2>7, <2>8, <2>9, <2>10 DEF PoolInv
<1> QED BY <1>1, <1>3, <1>4

\* fdvec_free puts the entry back.
LEMMA FreeKeepsPool ==
  ASSUME PoolInv, NEW e \in inuse, fdvec_free(e)
  PROVE  PoolInv'
<1>1. /\ IsFiniteSet(FreeElements) /\ 0 \notin FreeElements
      /\ FreeElements \subseteq 1..Nfds
      /\ \A x \in 0..(Nfds - 1) : x + 1 \in FreeElements <=> x \notin inuse
      /\ FreeLinks \in [0..MaxFds -> Int]
      /\ Nfds \in Nat /\ CurFd \in Nat /\ MaxFds \in Nat /\ Nfds <= MaxFds
      /\ FreeLinks[0] = MdFree + 1
  BY FreeListType
<1>2. /\ Nfds \in InitNfds..MaxFds /\ CurFd \in 0..Nfds /\ MdFree \in -1..(Nfds - 1)
      /\ next_free \in [Entries -> -1..MaxFds]
      /\ inuse \subseteq 0..(CurFd - 1)
      /\ IsChain(0, FreeElements, FreeLinks)
      /\ MayFollow(MdFree)
      /\ \A x \in (0..(CurFd - 1)) \ inuse : MayFollow(next_free[x])
      /\ \A x \in CurFd..(Nfds - 1) :
           next_free[x] = IF x = Nfds - 1 THEN -1 ELSE x + 1
  BY DEF PoolInv
<1>3. /\ next_free' = [next_free EXCEPT ![e] = MdFree] /\ inuse' = inuse \ {e}
      /\ MdFree' = e /\ Nfds' = Nfds /\ CurFd' = CurFd
  BY DEF fdvec_free
<1>4. e \in 0..(CurFd - 1) /\ e \in 0..(Nfds - 1) /\ e \in Entries /\ e + 1 \in 0..MaxFds
  BY <1>1, <1>2 DEF Entries
<1>5. FreeElements' = FreeElements \cup {e + 1}
  BY <1>1, <1>3, <1>4 DEF FreeElements
<1>6. FreeLinks' = [FreeLinks EXCEPT ![e + 1] = FreeLinks[0], ![0] = e + 1]
  <2>1. FreeLinks' = [x \in 0..MaxFds |-> IF x = 0 THEN e + 1 ELSE next_free'[x - 1] + 1]
    BY <1>3 DEF FreeLinks
  <2>2. ASSUME NEW x \in 0..MaxFds
        PROVE  FreeLinks'[x] = [FreeLinks EXCEPT ![e + 1] = FreeLinks[0], ![0] = e + 1][x]
    <3>1. CASE x = 0
      BY <3>1, <2>1, <1>1
    <3>2. CASE x = e + 1
      BY <3>2, <2>1, <1>1, <1>2, <1>3, <1>4
    <3>3. CASE x # 0 /\ x # e + 1
      <4>1. x - 1 \in Entries /\ x - 1 # e
        BY <3>3, <1>1, <1>4 DEF Entries
      <4>2. FreeLinks'[x] = next_free[x - 1] + 1
        BY <4>1, <3>3, <2>1, <1>2, <1>3
      <4>3. FreeLinks[x] = next_free[x - 1] + 1
        BY <3>3 DEF FreeLinks
      <4> QED BY <4>2, <4>3, <3>3, <1>1
    <3> QED BY <3>1, <3>2, <3>3
  <2> QED BY <2>1, <2>2, <1>1
<1>7. IsChain(0, FreeElements \cup {e + 1},
              [FreeLinks EXCEPT ![e + 1] = FreeLinks[0], ![0] = e + 1])
  <2>1. /\ 0 \in 0..MaxFds /\ FreeElements \subseteq 0..MaxFds /\ e + 1 # 0
        /\ e + 1 \notin FreeElements
    BY <1>1, <1>4
  <2> QED BY <1>1, <1>2, <1>4, <2>1, ChainPush
<1>8. \A x : MayFollow(x)' <=> MayFollow(x)
  BY <1>3 DEF MayFollow
<1>9. (MayFollow(MdFree))' /\ MdFree' \in -1..(Nfds - 1)
  BY <1>3, <1>4, <1>1 DEF MayFollow
<1>10. next_free'[e] = MdFree /\ \A x \in Entries : x # e => next_free'[x] = next_free[x]
  BY <1>2, <1>3, <1>4
<1>11. ASSUME NEW x \in (0..(CurFd - 1)) \ inuse' PROVE (MayFollow(next_free[x]))'
  <2>1. CASE x = e
    <3>1. next_free'[x] = MdFree
      BY <2>1, <1>10, Zenon
    <3> QED BY <3>1, <1>2, <1>3 DEF MayFollow
  <2>2. CASE x # e
    <3>1. x \in Entries
      BY <1>1, <1>2, <1>11 DEF Entries
    <3>2. x \in (0..(CurFd - 1)) \ inuse /\ next_free'[x] = next_free[x]
      BY <2>2, <3>1, <1>3, <1>10, <1>11
    <3> QED BY <3>2, <1>2, <1>3 DEF MayFollow
  <2> QED BY <2>1, <2>2
<1>12. \A x \in CurFd..(Nfds - 1) :
          next_free'[x] = IF x = Nfds - 1 THEN -1 ELSE x + 1
  <2> SUFFICES ASSUME NEW x \in CurFd..(Nfds - 1)
               PROVE  next_free'[x] = next_free[x]
    BY <1>2
  <2>1. x # e /\ x \in Entries
    BY <1>1, <1>4 DEF Entries
  <2> QED BY <2>1, <1>10
<1>13. next_free' \in [Entries -> -1..MaxFds] /\ inuse' \subseteq 0..(CurFd - 1)
  <2>1. MdFree \in -1..MaxFds
    BY <1>1, <1>2
  <2>2. next_free' \in [Entries -> -1..MaxFds]
    BY <2>1, <1>2, <1>3
  <2> QED BY <2>2, <1>2, <1>3
<1> QED BY <1>2, <1>3, <1>5, <1>6, <1>7, <1>9, <1>11, <1>12, <1>13 DEF PoolInv

-----------------------------------------------------------------------------
(* Entries and what they lead to.                                          *)

\* The entry of an open relation, and the segments on its chain.
LEMMA EntryFacts ==
  ASSUME RelInv, NEW r \in Relations, rd_fd[r] # -1
  PROVE  /\ rd_fd[r] \in Entries /\ rd_fd[r] \in inuse
         /\ chain[rd_fd[r]] \in Seq(Files) /\ Len(chain[rd_fd[r]]) \in Nat
         /\ \A i \in 1..Len(chain[rd_fd[r]]) : chain[rd_fd[r]][i] \in Files
         /\ ~Closing(r) =>
              /\ Len(chain[rd_fd[r]]) \in 1..(MaxSeg + 1)
              /\ \A k \in Nat : Has(chain[rd_fd[r]], <<r, k>>) <=> k < Len(chain[rd_fd[r]])
<1>1. rd_fd[r] \in Entries
  BY MdAssumption DEF RelInv, Entries
<1>2. rd_fd[r] \in inuse
  BY DEF RelInv
<1>3. chain[rd_fd[r]] \in Seq(Files)
  BY <1>1 DEF RelInv
<1> DEFINE c == chain[rd_fd[r]]
<1> HIDE DEF c
<1>4. Len(c) \in Nat /\ \A i \in 1..Len(c) : c[i] \in Files
  BY <1>3, LenProperties, ElementOfSeq DEF c
<1>5. ASSUME ~Closing(r)
      PROVE  /\ Len(c) \in 1..(MaxSeg + 1)
             /\ \A k \in Nat : Has(c, <<r, k>>) <=> k < Len(c)
  <2>1. c # <<>> /\ Segments(c, r)
    BY <1>5 DEF RelInv, EntryInv, c
  <2>2. Len(c) # 0
    BY <2>1, <1>3, EmptySeq DEF c
  <2>3. Len(c) \in 1..Len(c)
    BY <2>2, <1>4
  <2>4. <<r, Len(c) - 1>> \in Files
    BY <2>1, <2>3, <1>4 DEF Segments
  <2>5. Len(c) - 1 \in 0..MaxSeg
    BY <2>4 DEF Files, Segs
  <2>6. Len(c) \in 1..(MaxSeg + 1)
    BY <2>2, <2>5, <1>4, MdAssumption
  <2> QED BY <2>1, <2>6, <1>4, HasSegments
<1> QED BY <1>1, <1>2, <1>3, <1>4, <1>5 DEF c

\* The current segment of a call that is not closing its relation.
LEMMA CurFacts ==
  ASSUME RelInv, NEW r \in Relations, rd_fd[r] # -1, ~Closing(r),
         NEW i \in 1..Len(chain[rd_fd[r]])
  PROVE  /\ chain[rd_fd[r]][i] = <<r, i - 1>> /\ <<r, i - 1>> \in Files
         /\ i - 1 \in Segs /\ OnChain(<<r, i - 1>>)
<1>1. /\ Len(chain[rd_fd[r]]) \in Nat /\ chain[rd_fd[r]][i] \in Files
      /\ \A k \in Nat : Has(chain[rd_fd[r]], <<r, k>>) <=> k < Len(chain[rd_fd[r]])
  BY EntryFacts
<1>2. chain[rd_fd[r]][i] = <<r, i - 1>>
  BY DEF RelInv, EntryInv, Segments
<1>3. i - 1 \in Segs
  BY <1>1, <1>2 DEF Files
<1>4. i - 1 \in Nat /\ i - 1 < Len(chain[rd_fd[r]])
  BY <1>1
<1>5. OnChain(<<r, i - 1>>)
  BY <1>1, <1>4 DEF OnChain
<1> QED BY <1>1, <1>2, <1>3, <1>5

\* What is on a chain is on that of its own relation.
LEMMA ReachedIsReachable ==
  ASSUME RelInv, NEW f \in Files
  PROVE  f \in Reachable <=> Reached(f)
<1>1. f[1] \in Relations
  BY DEF Files
<1>2. ASSUME NEW e \in inuse, Has(chain[e], f) PROVE OnChain(f)
  <2>1. PICK r \in Relations : rd_fd[r] = e /\ rd_fd[r] # -1
    BY DEF RelInv
  <2>2. PICK i \in 1..Len(chain[e]) : chain[e][i] = f
    BY <1>2 DEF Has
  <2>3. chain[rd_fd[r]][i][1] = r
    BY <2>1, <2>2 DEF RelInv, EntryInv
  <2>4. f[1] = r
    BY <2>1, <2>2, <2>3
  <2> QED BY <2>1, <2>4, <1>2 DEF OnChain
<1>3. ASSUME OnChain(f) PROVE \E e \in inuse : Has(chain[e], f)
  BY <1>1, <1>3, EntryFacts DEF OnChain
<1> QED BY <1>2, <1>3 DEF Reachable, Reached, Has

-----------------------------------------------------------------------------
(* What a step leaves alone.                                               *)

\* The pool.
LEMMA PoolStays ==
  ASSUME PoolInv, UNCHANGED poolVars
  PROVE  PoolInv'
<1>1. /\ Nfds' = Nfds /\ CurFd' = CurFd /\ MdFree' = MdFree
      /\ next_free' = next_free /\ inuse' = inuse
  BY DEF poolVars
<1>2. FreeElements' = FreeElements /\ FreeLinks' = FreeLinks
  BY <1>1 DEF FreeElements, FreeLinks
<1>3. \A x : MayFollow(x)' <=> MayFollow(x)
  BY <1>1 DEF MayFollow
<1> QED BY <1>1, <1>2, <1>3 DEF PoolInv, MayFollow

\* Entries and chains, when a call starts, goes on or returns.
LEMMA RelStays ==
  ASSUME RelInv, inuse' = inuse, UNCHANGED relVars,
         pc # "close" \/ (pc' = pc /\ call' = call)
  PROVE  RelInv'
<1>1. chain' = chain /\ rd_fd' = rd_fd
  BY DEF relVars
<1>2. \A r : Closing(r) => Closing(r)'
  BY DEF Closing
<1>3. ASSUME NEW r \in Relations, rd_fd[r] # -1 PROVE EntryInv(r)'
  <2>1. EntryInv(r) /\ chain'[rd_fd'[r]] = chain[rd_fd[r]]
    BY <1>1, <1>3 DEF RelInv
  <2> QED BY <1>1, <1>2, <1>3, <2>1 DEF EntryInv
<1> QED BY <1>1, <1>3 DEF RelInv

\* What can be reached, when a call returns too, if what it had on hand is on
\* a chain.
LEMMA ReachedStays ==
  ASSUME UNCHANGED relVars,
         rest' = rest \/ (rest' = <<>> /\ \A f \in Files : Has(rest, f) => OnChain(f))
  PROVE  /\ \A f : OnChain(f)' <=> OnChain(f)
         /\ \A f \in Files : Reached(f)' <=> Reached(f)
<1>1. chain' = chain /\ rd_fd' = rd_fd
  BY DEF relVars
<1>2. \A f : OnChain(f)' <=> OnChain(f)
  BY <1>1 DEF OnChain
<1>3. \A f : Has(<<>>, f) <=> FALSE
  BY DEF Has
<1> QED BY <1>2, <1>3 DEF Reached

\* Open files.
LEMMA VfdStays ==
  ASSUME VfdInv, nvfd' = nvfd, \A f \in Files : Reached(f)' <=> Reached(f)
  PROVE  VfdInv'
BY DEF VfdInv

\* Lengths.
LEMMA LenStays ==
  ASSUME LenInv, len' = len, \A f \in Files : Reached(f)' => Reached(f)
  PROVE  LenInv'
BY DEF LenInv

\* One length changes, to one that a file in use may have.
LEMMA LenChanges ==
  ASSUME LenInv, NEW g \in Files, NEW v \in 0..Full, len' = [len EXCEPT ![g] = v],
         g[2] = MaxSeg => v < Full, \A f \in Files : Reached(f)' => Reached(f) \/ f = g
  PROVE  LenInv'
<1>1. len \in [Files -> -1..Full]
  BY DEF LenInv
<1>2. len'[g] = v /\ \A f \in Files : f # g => len'[f] = len[f]
  BY <1>1
<1>3. v \in -1..Full /\ v # -1
  BY Sizes
<1>4. len' \in [Files -> -1..Full]
  BY <1>1, <1>3
<1>5. \A f \in Files : Reached(f)' => len'[f] # -1
  BY <1>2, <1>3 DEF LenInv
<1>6. ASSUME NEW r \in Relations PROVE len'[<<r, MaxSeg>>] < Full
  <2>1. <<r, MaxSeg>> \in Files
    BY Sizes DEF Files, Segs
  <2>2. CASE <<r, MaxSeg>> = g
    BY <2>2, <1>2
  <2>3. CASE <<r, MaxSeg>> # g
    BY <2>1, <2>3, <1>2 DEF LenInv
  <2> QED BY <2>2, <2>3
<1> QED BY <1>4, <1>5, <1>6 DEF LenInv

\* The first segment that is not full.
LEMMA FirstShortIs ==
  ASSUME LenInv, NEW r \in Relations
  PROVE  /\ FirstShort(r) \in Segs /\ len[<<r, FirstShort(r)>>] < Full
         /\ \A k \in Segs : len[<<r, k>>] < Full => FirstShort(r) <= k
         /\ OnlyLast(r) => FirstShort(r) = MaxSeg
<1> DEFINE S == {k \in Segs : len[<<r, k>>] < Full}
<1>1. MaxSeg \in S /\ S \subseteq Nat
  BY Sizes DEF LenInv, Segs
<1>2. FirstShort(r) \in S /\ \A k \in S : FirstShort(r) <= k
  BY <1>1, MinNat DEF FirstShort
<1>3. \A k \in Segs : <<r, k>> \in Files /\ len[<<r, k>>] \in -1..Full
  BY DEF LenInv, Files
<1>4. OnlyLast(r) => FirstShort(r) = MaxSeg
  BY <1>2, <1>3, Sizes DEF OnlyLast
<1> QED BY <1>2, <1>4

\* A call returns: what it had on hand is on a chain, and no file that a
\* chain leads to has gone.
LEMMA ReturnKeeps ==
  ASSUME MdInv, NEW v, Return(v), UNCHANGED <<poolVars, relVars, nvfd>>, FdInv',
         pc # "close", \A f \in Files : Has(rest, f) => OnChain(f), LenInv'
  PROVE  MdInv'
<1>1. /\ PoolInv /\ RelInv /\ CallInv /\ RestInv /\ VfdInv
      /\ UNCHANGED poolVars /\ UNCHANGED relVars /\ nvfd' = nvfd /\ inuse' = inuse
      /\ pc' = "idle" /\ call' = None /\ at' = 0 /\ rest' = <<>>
  BY DEF MdInv, Return, poolVars
<1>2. PoolInv'
  BY <1>1, PoolStays
<1>3. RelInv'
  BY <1>1, RelStays
<1>4. \A f \in Files : Reached(f)' <=> Reached(f)
  BY <1>1, ReachedStays
<1>5. VfdInv'
  BY <1>1, <1>4, VfdStays
<1>6. CallInv'
  BY <1>1 DEF CallInv, None, Steps, Transfers
<1>7. RestInv'
  BY <1>1, EmptySeq DEF RestInv
<1>8. ExtendInv'
  BY <1>1 DEF ExtendInv, None
<1> QED BY <1>2, <1>3, <1>5, <1>6, <1>7, <1>8 DEF MdInv

\* The same for a call that leaves the lengths alone.
LEMMA ReturnStays ==
  ASSUME MdInv, NEW v, Return(v), UNCHANGED <<poolVars, relVars, nvfd, len>>, FdInv',
         pc # "close", \A f \in Files : Has(rest, f) => OnChain(f)
  PROVE  MdInv'
<1>1. \A f \in Files : Reached(f)' <=> Reached(f)
  BY ReachedStays DEF Return
<1>2. LenInv'
  BY <1>1, LenStays DEF MdInv
<1> QED BY <1>2, ReturnKeeps

\* Outside md_commit and md_truncate nothing is on hand.
LEMMA NothingOnHand ==
  ASSUME RestInv, pc \notin {"commit", "truncate"}
  PROVE  rest = <<>> /\ \A f : Has(rest, f) <=> FALSE
BY DEF RestInv, Has

\* The free list that md_init makes.
FreshNext == [e \in Entries |-> IF e < InitNfds - 1 THEN e + 1 ELSE -1]
FreshLinks == [x \in 0..MaxFds |-> IF x = 0 THEN 0 + 1 ELSE FreshNext[x - 1] + 1]
FreshElements == {e + 1 : e \in (0..(InitNfds - 1)) \ {}}

\* It holds every entry, in order.
LEMMA FreshList ==
  /\ IsChain(0, FreshElements, FreshLinks)
  /\ FreshNext \in [Entries -> -1..MaxFds]
  /\ \A x \in 0..(InitNfds - 1) :
       FreshNext[x] = IF x = InitNfds - 1 THEN -1 ELSE x + 1
<1> DEFINE nf == FreshNext
           fl == FreshLinks
           fe == FreshElements
<1>1. InitNfds \in Nat /\ InitNfds >= 2 /\ MaxFds >= InitNfds /\ MaxFds \in Nat
  BY MdAssumption
<1>2. nf \in [Entries -> -1..MaxFds]
  <2> SUFFICES ASSUME NEW e \in Entries PROVE nf[e] \in -1..MaxFds
    BY DEF FreshNext
  <2> QED BY <1>1 DEF Entries, FreshNext
<1>3. \A x \in 0..(InitNfds - 1) : nf[x] = IF x = InitNfds - 1 THEN -1 ELSE x + 1
  BY <1>1 DEF Entries, FreshNext
<1>4. fe = 1..InitNfds
  <2>1. \A y \in 1..InitNfds : y - 1 \in 0..(InitNfds - 1) /\ (y - 1) + 1 = y
    BY <1>1
  <2>2. \A e \in 0..(InitNfds - 1) : e + 1 \in 1..InitNfds
    BY <1>1
  <2> QED BY <2>1, <2>2 DEF FreshElements
<1>5. fl[0] = 1
  BY <1>1 DEF FreshLinks
<1>6. ASSUME NEW i \in 1..InitNfds PROVE fl[i] = nf[i - 1] + 1 /\ i - 1 \in 0..(InitNfds - 1)
  BY <1>1 DEF FreshLinks
<1>7. fl[InitNfds] = 0 /\ \A i \in 1..(InitNfds - 1) : fl[i] = i + 1
  BY <1>1, <1>3, <1>6
<1>8. IsChain(0, 1..InitNfds, fl)
  <2>1. 1 \in Nat \ {0} /\ InitNfds \in Nat /\ 1 <= InitNfds
    BY <1>1
  <2> QED BY <2>1, <1>5, <1>7, ChainInterval
<1> QED BY <1>2, <1>3, <1>4, <1>8

\* The process dies and another one starts with an empty table; the files
\* stay.
LEMMA CrashKeeps ==
  ASSUME MdInv, Crash, len' = len, damaged' \in SUBSET Relations
  PROVE  MdInv'
<1>1. /\ nvfd' = [f \in Files |-> 0]
      /\ closed' = {} /\ lost' = {} /\ dirty' = {} /\ unsynced' = {}
      /\ Nfds' = InitNfds /\ CurFd' = 0 /\ MdFree' = 0
      /\ next_free' = [e \in Entries |-> IF e < InitNfds - 1 THEN e + 1 ELSE -1]
      /\ inuse' = {}
      /\ chain' = [e \in Entries |-> <<>>]
      /\ rd_fd' = [r \in Relations |-> -1]
      /\ pc' = "idle" /\ call' = None /\ at' = 0 /\ rest' = <<>>
  BY DEF Crash
<1>2. InitNfds \in Nat /\ InitNfds >= 2 /\ MaxFds >= InitNfds /\ MaxFds \in Nat
  BY MdAssumption
<1>3. PoolInv'
  <2>0. next_free' = FreshNext
    BY <1>1 DEF FreshNext
  <2>1. FreeLinks' = FreshLinks
    BY <1>1 DEF FreeLinks, FreshLinks, FreshNext
  <2>2. FreeElements' = FreshElements
    BY <1>1 DEF FreeElements, FreshElements
  <2>3. /\ IsChain(0, FreeElements', FreeLinks')
        /\ next_free' \in [Entries -> -1..MaxFds]
        /\ \A x \in 0..(InitNfds - 1) : next_free'[x] = IF x = InitNfds - 1 THEN -1 ELSE x + 1
    BY <2>0, <2>1, <2>2, FreshList
  <2>4. (MayFollow(MdFree))'
    BY <1>1, <1>2 DEF MayFollow
  <2> QED BY <1>1, <1>2, <2>3, <2>4 DEF PoolInv
<1>4. RelInv'
  <2>1. chain' \in [Entries -> Seq(Files)]
    BY <1>1, EmptySeq
  <2>2. rd_fd' \in [Relations -> -1..(MaxFds - 1)] /\ \A r \in Relations : rd_fd'[r] = -1
    BY <1>1, <1>2
  <2> QED BY <1>1, <2>1, <2>2 DEF RelInv
<1>5. CallInv'
  BY <1>1 DEF CallInv, None, Steps, Transfers
<1>6. RestInv'
  BY <1>1, EmptySeq DEF RestInv
<1>7. \A f \in Files : ~Reached(f)'
  BY <1>1 DEF Reached, OnChain, Has, Files
<1>8. LenInv' /\ VfdInv'
  BY <1>1, <1>7 DEF LenInv, VfdInv, MdInv
<1>9. ExtendInv' /\ FdInv'
  BY <1>1 DEF ExtendInv, None, FdInv
<1> QED BY <1>3, <1>4, <1>5, <1>6, <1>8, <1>9 DEF MdInv

\* A process starts with an empty table and no relation on disk.
LEMMA InitIsMdInv == Init => MdInv
<1> SUFFICES ASSUME Init PROVE MdInv
  OBVIOUS
<1>1. /\ len = [f \in Files |-> -1] /\ nvfd = [f \in Files |-> 0]
      /\ closed = {} /\ lost = {} /\ dirty = {} /\ unsynced = {}
      /\ Nfds = InitNfds /\ CurFd = 0 /\ MdFree = 0
      /\ next_free = [e \in Entries |-> IF e < InitNfds - 1 THEN e + 1 ELSE -1]
      /\ inuse = {}
      /\ chain = [e \in Entries |-> <<>>]
      /\ rd_fd = [r \in Relations |-> -1]
      /\ pc = "idle" /\ call = None /\ at = 0 /\ rest = <<>> /\ damaged = {}
  BY DEF Init
<1>2. InitNfds \in Nat /\ InitNfds >= 2 /\ MaxFds >= InitNfds /\ MaxFds \in Nat
  BY MdAssumption
<1>3. PoolInv
  <2>0. next_free = FreshNext
    BY <1>1 DEF FreshNext
  <2>1. FreeLinks = FreshLinks
    BY <1>1 DEF FreeLinks, FreshLinks, FreshNext
  <2>2. FreeElements = FreshElements
    BY <1>1 DEF FreeElements, FreshElements
  <2>3. /\ IsChain(0, FreeElements, FreeLinks)
        /\ next_free \in [Entries -> -1..MaxFds]
        /\ \A x \in 0..(InitNfds - 1) : next_free[x] = IF x = InitNfds - 1 THEN -1 ELSE x + 1
    BY <2>0, <2>1, <2>2, FreshList
  <2>4. MayFollow(MdFree)
    BY <1>1, <1>2 DEF MayFollow
  <2> QED BY <1>1, <1>2, <2>3, <2>4 DEF PoolInv
<1>4. RelInv
  <2>1. chain \in [Entries -> Seq(Files)]
    BY <1>1, EmptySeq
  <2>2. rd_fd \in [Relations -> -1..(MaxFds - 1)] /\ \A r \in Relations : rd_fd[r] = -1
    BY <1>1, <1>2
  <2> QED BY <1>1, <2>1, <2>2 DEF RelInv
<1>5. CallInv
  BY <1>1 DEF CallInv, None, Steps, Transfers
<1>6. RestInv
  BY <1>1, EmptySeq DEF RestInv
<1>7. \A f \in Files : ~Reached(f)
  BY <1>1 DEF Reached, OnChain, Has, Files
<1>8. VfdInv
  BY <1>1, <1>7 DEF VfdInv
<1>9. LenInv
  <2>1. \A r \in Relations : <<r, MaxSeg>> \in Files
    BY Sizes DEF Files, Segs
  <2> QED BY <1>1, <1>7, <2>1, Sizes DEF LenInv
<1>10. ExtendInv /\ FdInv
  BY <1>1 DEF ExtendInv, None, FdInv
<1> QED BY <1>3, <1>4, <1>5, <1>6, <1>8, <1>9, <1>10 DEF MdInv

-----------------------------------------------------------------------------
(* Opening and creating.                                                   *)

\* file_name_open_file keeps the books of fd.c.
LEMMA OpenKeepsFd ==
  ASSUME FdInv, NEW g \in Files, NEW c \in BOOLEAN, OpenVfd(g, c),
         damaged' \in SUBSET Relations
  PROVE  FdInv'
BY DEF FdInv, OpenVfd

\* It keeps the lengths, if nothing else comes in reach.
LEMMA OpenKeepsLen ==
  ASSUME LenInv, NEW g \in Files, NEW c, OpenVfd(g, c),
         \A f \in Files : Reached(f)' => Reached(f) \/ f = g
  PROVE  /\ LenInv'
         /\ len'[g] = IF len[g] = -1 THEN 0 ELSE len[g]
         /\ \A f \in Files : f # g => len'[f] = len[f]
<1>1. len \in [Files -> -1..Full]
  BY DEF LenInv
<1> DEFINE v == IF len[g] = -1 THEN 0 ELSE len[g]
<1>2. len' = [len EXCEPT ![g] = v]
  BY DEF OpenVfd
<1>3. v \in 0..Full
  BY <1>1, Sizes
<1>4. g[2] = MaxSeg => v < Full
  <2>1. g = <<g[1], g[2]>> /\ g[1] \in Relations
    BY DEF Files
  <2> QED BY <2>1, Sizes DEF LenInv
<1>5. LenInv'
  <2> HIDE DEF v
  <2> QED BY <1>2, <1>3, <1>4, LenChanges
<1> QED BY <1>1, <1>2, <1>5

\* It leaves room for a block where there was room.
LEMMA OpenKeepsRoom ==
  ASSUME LenInv, NEW g \in Files, NEW r \in Relations,
         len'[g] = IF len[g] = -1 THEN 0 ELSE len[g],
         \A f \in Files : f # g => len'[f] = len[f],
         OnlyLast(r) => RELSEG_SIZE > 1 /\ len[<<r, MaxSeg>>] + BLCKSZ < Full,
         OnlyLast(r)'
  PROVE  RELSEG_SIZE > 1 /\ len'[<<r, MaxSeg>>] + BLCKSZ < Full
<1>1. \A k \in Segs : <<r, k>> \in Files /\ len[<<r, k>>] \in -1..Full
  BY DEF LenInv, Files
<1>2. MaxSeg \in Segs
  BY Sizes DEF Segs
<1>3. ASSUME NEW k \in Segs, k # MaxSeg PROVE len[<<r, k>>] >= Full
  <2>1. len'[<<r, k>>] >= Full
    BY <1>3 DEF OnlyLast
  <2>2. len'[<<r, k>>] = len[<<r, k>>] \/ len'[<<r, k>>] = 0
    BY <1>1
  <2> QED BY <2>1, <2>2, Sizes
<1>4. RELSEG_SIZE > 1 /\ len[<<r, MaxSeg>>] + BLCKSZ < Full
  BY <1>3 DEF OnlyLast
<1>5. len'[<<r, MaxSeg>>] = len[<<r, MaxSeg>>] \/ len'[<<r, MaxSeg>>] = 0
  BY <1>1, <1>2
<1> QED BY <1>4, <1>5, Sizes

\* A relation gets an entry, whose chain is its first segment.
LEMMA NewEntryKeeps ==
  ASSUME MdInv, NEW r \in Relations, rd_fd[r] = -1, rest = <<>>, rest' = <<>>,
         pc # "close", pc' # "close", NEW c \in BOOLEAN, OpenVfd(<<r, 0>>, c),
         NewEntry(r), damaged' \in SUBSET Relations
  PROVE  /\ PoolInv' /\ RelInv' /\ LenInv' /\ FdInv' /\ VfdInv'
         /\ rd_fd'[r] # -1 /\ Len(chain'[rd_fd'[r]]) = 1
         /\ len'[<<r, 0>>] = IF len[<<r, 0>>] = -1 THEN 0 ELSE len[<<r, 0>>]
         /\ \A f \in Files : f # <<r, 0>> => len'[f] = len[f]
<1>1. PoolInv /\ RelInv /\ LenInv /\ FdInv /\ VfdInv
  BY DEF MdInv
<1>2. PICK e \in Entries : /\ fdvec_alloc(e)
                           /\ chain' = [chain EXCEPT ![e] = <<<<r, 0>>>>]
                           /\ rd_fd' = [rd_fd EXCEPT ![r] = e]
  BY DEF NewEntry
<1>3. PoolInv' /\ e \notin inuse /\ inuse' = inuse \cup {e}
  BY <1>1, <1>2, AllocKeepsPool
<1>4. <<r, 0>> \in Files /\ <<<<r, 0>>>> \in Seq(Files) /\ e \in -1..(MaxFds - 1) /\ e # -1
  BY Sizes, MdAssumption DEF Files, Segs, Entries
<1>5. /\ rd_fd \in [Relations -> -1..(MaxFds - 1)] /\ chain \in [Entries -> Seq(Files)]
      /\ inuse = {rd_fd[q] : q \in Relations} \ {-1}
      /\ \A p, q \in Relations : rd_fd[p] = rd_fd[q] /\ rd_fd[p] # -1 => p = q
      /\ \A x \in Entries \ inuse : chain[x] = <<>>
      /\ \A q \in Relations : rd_fd[q] # -1 => EntryInv(q)
  BY <1>1 DEF RelInv
<1>6. rd_fd'[r] = e /\ \A q \in Relations : q # r => rd_fd'[q] = rd_fd[q] /\ rd_fd[q] # e
  BY <1>2, <1>3, <1>4, <1>5
<1>7. chain'[e] = <<<<r, 0>>>> /\ \A x \in Entries : x # e => chain'[x] = chain[x]
  BY <1>2, <1>5
<1>8. RelInv'
  <2>1. rd_fd' \in [Relations -> -1..(MaxFds - 1)]
    BY <1>2, <1>4, <1>5
  <2>2. chain' \in [Entries -> Seq(Files)]
    BY <1>2, <1>4, <1>5
  <2>3. inuse' = {rd_fd'[q] : q \in Relations} \ {-1}
    <3>1. ASSUME NEW x \in inuse PROVE x # -1 /\ \E q \in Relations : rd_fd'[q] = x
      <4>1. x # -1
        BY <1>5
      <4>2. PICK q \in Relations : rd_fd[q] = x
        BY <1>5
      <4>3. q # r
        BY <4>1, <4>2
      <4> QED BY <1>6, <4>1, <4>2, <4>3
    <3>2. ASSUME NEW q \in Relations, rd_fd'[q] # -1 PROVE rd_fd'[q] \in inuse \cup {e}
      <4>1. CASE q = r
        BY <1>6, <4>1
      <4>2. CASE q # r
        BY <1>5, <1>6, <3>2, <4>2
      <4> QED BY <4>1, <4>2
    <3> QED BY <1>3, <1>4, <1>6, <3>1, <3>2
  <2>4. ASSUME NEW p \in Relations, NEW q \in Relations, rd_fd'[p] = rd_fd'[q], rd_fd'[p] # -1
        PROVE  p = q
    BY <2>4, <1>5, <1>6
  <2>5. \A x \in Entries \ inuse' : chain'[x] = <<>>
    BY <1>3, <1>5, <1>7
  <2>6. ASSUME NEW q \in Relations, rd_fd'[q] # -1 PROVE EntryInv(q)'
    <3>1. CASE q = r
      <4>1. chain'[rd_fd'[q]] = <<<<q, 0>>>> /\ Len(<<<<q, 0>>>>) = 1
        BY <3>1, <1>6, <1>7
      <4>2. <<<<q, 0>>>>[1] = <<q, 0>> /\ <<<<q, 0>>>> # <<>>
        BY EmptySeq
      <4>3. \A i \in 1..1 : i = 1 /\ <<<<q, 0>>>>[i] = <<q, i - 1>>
        BY <4>2
      <4>4. Len(<<<<q, 0>>>>) <= MaxSeg + 1
        BY <4>1, Sizes
      <4> QED BY <4>1, <4>2, <4>3, <4>4 DEF EntryInv, Segments
    <3>2. CASE q # r
      <4>1. rd_fd'[q] = rd_fd[q] /\ rd_fd[q] # e /\ rd_fd[q] # -1
        BY <3>2, <2>6, <1>6
      <4>2. rd_fd[q] \in Entries
        BY <4>1, <1>1, EntryFacts
      <4>3. chain'[rd_fd'[q]] = chain[rd_fd[q]]
        BY <4>1, <4>2, <1>7
      <4>4. ~Closing(q)
        BY DEF Closing
      <4> QED BY <4>1, <4>3, <4>4, <1>5 DEF EntryInv
    <3> QED BY <3>1, <3>2
  <2> QED BY <2>1, <2>2, <2>3, <2>4, <2>5, <2>6 DEF RelInv
<1>9. ASSUME NEW f \in Files PROVE Reached(f)' <=> Reached(f) \/ f = <<r, 0>>
  <2>1. f[1] \in Relations /\ f = <<f[1], f[2]>>
    BY DEF Files
  <2>2. ~Has(<<>>, f)
    BY DEF Has
  <2>3. CASE f[1] = r
    <3>1. Has(<<<<r, 0>>>>, f) <=> f = <<r, 0>>
      BY DEF Has
    <3> QED BY <2>1, <2>2, <2>3, <3>1, <1>4, <1>6, <1>7 DEF Reached, OnChain
  <2>4. CASE f[1] # r
    <3>1. rd_fd[f[1]] # -1 => rd_fd[f[1]] \in Entries
      BY <2>1, <1>1, EntryFacts
    <3>2. f # <<r, 0>>
      BY <2>4
    <3>3. rd_fd'[f[1]] = rd_fd[f[1]] /\ rd_fd[f[1]] # e
      BY <2>1, <2>4, <1>6
    <3> QED BY <2>2, <3>1, <3>2, <3>3, <1>7 DEF Reached, OnChain
  <2> QED BY <2>3, <2>4
<1>10. ~Reached(<<r, 0>>)
  BY DEF Reached, OnChain, Has
<1>11. VfdInv'
  <2>1. nvfd' = [nvfd EXCEPT ![<<r, 0>>] = @ + 1] /\ nvfd \in [Files -> 0..1]
    BY <1>1 DEF OpenVfd, VfdInv
  <2>2. nvfd[<<r, 0>>] = 0
    BY <1>1, <1>4, <1>10 DEF VfdInv
  <2>3. nvfd'[<<r, 0>>] = 1 /\ \A f \in Files : f # <<r, 0>> => nvfd'[f] = nvfd[f]
    BY <2>1, <2>2, <1>4
  <2>4. nvfd' \in [Files -> 0..1]
    <3>1. nvfd' = [nvfd EXCEPT ![<<r, 0>>] = 1]
      BY <2>1, <2>2
    <3>2. nvfd \in [Files -> 0..1] /\ 1 \in 0..1
      BY <2>1
    <3> QED BY <3>1, <3>2
  <2> QED BY <2>3, <2>4, <1>1, <1>9 DEF VfdInv
<1>12. /\ LenInv'
       /\ len'[<<r, 0>>] = IF len[<<r, 0>>] = -1 THEN 0 ELSE len[<<r, 0>>]
       /\ \A f \in Files : f # <<r, 0>> => len'[f] = len[f]
  BY <1>1, <1>4, <1>9, OpenKeepsLen
<1>13. FdInv'
  BY <1>1, <1>4, OpenKeepsFd
<1>14. rd_fd'[r] # -1 /\ Len(chain'[rd_fd'[r]]) = 1
  BY <1>4, <1>6, <1>7
<1> QED BY <1>3, <1>8, <1>11, <1>12, <1>13, <1>14

\* md_create.
LEMMA CreateKeeps ==
  ASSUME MdInv, NEW r \in Relations, md_create(r)
  PROVE  MdInv'
<1>1. /\ pc = "idle" /\ rd_fd[r] = -1 /\ NewEntry(r)
      /\ pc' = pc /\ call' = call /\ at' = at /\ rest' = rest
  BY DEF md_create
<1>2. PICK c \in BOOLEAN : OpenVfd(<<r, 0>>, c) /\ damaged' \in SUBSET Relations
  BY DEF md_create, MdInv, FdInv
<1>3. rest = <<>> /\ rest' = <<>> /\ pc # "close" /\ pc' # "close"
  BY <1>1 DEF MdInv, RestInv
<1>4. PoolInv' /\ RelInv' /\ LenInv' /\ FdInv' /\ VfdInv'
  BY <1>1, <1>2, <1>3, NewEntryKeeps
<1>5. CallInv'
  BY <1>1 DEF MdInv, CallInv, Steps, Transfers
<1>6. RestInv'
  BY <1>1, <1>3, EmptySeq DEF RestInv
<1>7. ExtendInv'
  BY <1>1 DEF MdInv, CallInv, ExtendInv
<1> QED BY <1>4, <1>5, <1>6, <1>7 DEF MdInv

\* Where a call starts.
LEMMA FirstSteps ==
  ASSUME NEW op \in Ops
  PROVE  \/ FirstStep(op) = "count" /\ op \in {"nblocks", "extend", "truncate"}
         \/ FirstStep(op) = "close" /\ op = "close"
         \/ FirstStep(op) = "seg" /\ op \in Transfers \ {"extend"}
BY DEF FirstStep, Ops, Transfers

\* md_open on the way into a call.
LEMMA OpenKeeps ==
  ASSUME MdInv, md_open
  PROVE  MdInv'
<1>0. PICK r : r = call.r
  OBVIOUS
<1>1. /\ pc = "open" /\ NewEntry(r) /\ Goto(FirstStep(call.op), 1)
      /\ OpenVfd(<<r, 0>>, Bootstrap /\ len[<<r, 0>>] = -1) /\ damaged' = damaged
  BY <1>0 DEF md_open
<1>2. /\ pc' = FirstStep(call.op) /\ at' = 1 /\ call' = call /\ rest' = rest
  BY <1>1 DEF Goto
<1>3. /\ r \in Relations /\ rd_fd[r] = -1 /\ call.op \in Ops \ {"close"}
      /\ rest = <<>> /\ call.b \in Nat
      /\ (call.op = "extend" \/ call.b < (MaxSeg + 1) * RELSEG_SIZE)
  BY <1>0, <1>1 DEF MdInv, CallInv, RestInv, Steps
<1>4. \/ pc' = "count" /\ call.op \in {"nblocks", "extend", "truncate"}
      \/ pc' = "seg" /\ call.op \in Transfers \ {"extend"}
  BY <1>2, <1>3, FirstSteps
<1>5. /\ PoolInv' /\ RelInv' /\ LenInv' /\ FdInv' /\ VfdInv'
      /\ rd_fd'[r] # -1 /\ Len(chain'[rd_fd'[r]]) = 1
      /\ len'[<<r, 0>>] = IF len[<<r, 0>>] = -1 THEN 0 ELSE len[<<r, 0>>]
      /\ \A f \in Files : f # <<r, 0>> => len'[f] = len[f]
  <2>1. (Bootstrap /\ len[<<r, 0>>] = -1) \in BOOLEAN
    OBVIOUS
  <2>2. pc # "close" /\ pc' # "close" /\ rest' = <<>> /\ damaged' \in SUBSET Relations
    BY <1>1, <1>2, <1>3, <1>4 DEF MdInv, FdInv
  <2> QED BY <1>1, <1>3, <2>1, <2>2, NewEntryKeeps
<1>6. CallInv'
  BY <1>0, <1>2, <1>3, <1>4, <1>5 DEF MdInv, CallInv, Steps, Transfers, Chain
<1>7. RestInv'
  BY <1>2, <1>3, <1>4, EmptySeq DEF RestInv
<1>8. ExtendInv'
  <2>1. ASSUME call.op = "extend", OnlyLast(r)'
        PROVE  RELSEG_SIZE > 1 /\ len'[<<r, MaxSeg>>] + BLCKSZ < Full
    <3>1. LenInv /\ (OnlyLast(r) => RELSEG_SIZE > 1 /\ len[<<r, MaxSeg>>] + BLCKSZ < Full)
      BY <2>1, <1>0 DEF MdInv, ExtendInv
    <3>2. <<r, 0>> \in Files
      BY <1>3, Sizes DEF Files, Segs
    <3> QED BY <2>1, <3>1, <3>2, <1>3, <1>5, OpenKeepsRoom
  <2>2. pc' = "count" => 0..(at' - 2) = {}
    BY <1>2
  <2>3. pc' # "countopen" /\ ~(pc' \in {"seg", "extend"} /\ call'.op = "extend")
    BY <1>2, <1>4
  <2>4. OnlyLast(call.r)' <=> OnlyLast(r)'
    BY <1>0, <1>2 DEF OnlyLast
  <2> QED BY <1>0, <1>2, <2>1, <2>2, <2>3, <2>4 DEF ExtendInv
<1> QED BY <1>5, <1>6, <1>7, <1>8 DEF MdInv

-----------------------------------------------------------------------------
(* Steps between calls, and of other processes.                            *)

\* A caller calls.
LEMMA BeginKeeps ==
  ASSUME MdInv, NEW r \in Relations, NEW op \in Ops,
         NEW b \in 0..((MaxSeg + 1) * RELSEG_SIZE - 1), Begin(op, r, b)
  PROVE  MdInv'
<1>1. /\ pc = "idle" /\ b < (MaxSeg + 1) * RELSEG_SIZE
      /\ op = "extend" => RoomFor(r)
      /\ op = "close" => rd_fd[r] >= 0
      /\ call' = [op |-> op, r |-> r, b |-> b]
      /\ pc' = IF rd_fd[r] >= 0 THEN FirstStep(op) ELSE "open"
      /\ at' = 1 /\ rest' = rest
      /\ UNCHANGED poolVars /\ UNCHANGED relVars /\ inuse' = inuse
      /\ len' = len /\ nvfd' = nvfd /\ closed' = closed /\ lost' = lost
      /\ dirty' = dirty /\ unsynced' = unsynced /\ damaged' = damaged
      /\ chain' = chain /\ rd_fd' = rd_fd
  BY DEF Begin, fileVars, poolVars, relVars
<1>2. PoolInv /\ RelInv /\ CallInv /\ RestInv /\ LenInv /\ FdInv /\ VfdInv
  BY DEF MdInv
<1>3. call'.op = op /\ call'.r = r /\ call'.b = b /\ b \in Nat
  BY <1>1
<1>4. rd_fd[r] \in -1..(MaxFds - 1)
  BY <1>2 DEF RelInv
<1>5. \/ pc' = "open" /\ rd_fd[r] = -1 /\ op # "close"
      \/ pc' = FirstStep(op) /\ rd_fd[r] # -1
  BY <1>1, <1>4
<1>6. \/ pc' = "open" /\ rd_fd[r] = -1 /\ op # "close"
      \/ pc' = "count" /\ rd_fd[r] # -1 /\ op \in {"nblocks", "extend", "truncate"}
      \/ pc' = "close" /\ rd_fd[r] # -1 /\ op = "close"
      \/ pc' = "seg" /\ rd_fd[r] # -1 /\ op \in Transfers \ {"extend"}
  BY <1>5, FirstSteps
<1>7. rest = <<>>
  BY <1>1, <1>2 DEF RestInv
<1>8. rd_fd[r] # -1 => Len(chain[rd_fd[r]]) >= 1
  <2>1. ~Closing(r)
    BY <1>1 DEF Closing
  <2> QED BY <2>1, <1>2, EntryFacts
<1>9. \A f \in Files : Reached(f)' <=> Reached(f)
  BY <1>1, ReachedStays
<1>10. PoolInv' /\ RelInv' /\ LenInv' /\ VfdInv'
  BY <1>1, <1>2, <1>9, PoolStays, RelStays, LenStays, VfdStays
<1>11. FdInv'
  BY <1>1, <1>2 DEF FdInv
<1>12. RestInv'
  BY <1>1, <1>6, <1>7, EmptySeq DEF RestInv
<1>13. CallInv'
  <2>1. call' \in [op : Ops \cup {"none", "commit", "unlink"},
                   r : Relations \cup {"none"}, b : Nat]
    BY <1>1, <1>3
  <2>2. pc' \in {"count", "countopen"} \cup Transfers => at' \in 1..Len(Chain')
    <3>1. pc' \in {"count", "countopen"} \cup Transfers => pc' = "count"
      BY <1>6 DEF Transfers
    <3>2. Chain' = chain[rd_fd[r]]
      BY <1>1, <1>3 DEF Chain
    <3>3. rd_fd[r] # -1 => 1 \in 1..Len(chain[rd_fd[r]])
      BY <1>2, <1>8, EntryFacts
    <3> QED BY <1>1, <1>6, <3>1, <3>2, <3>3
  <2> QED BY <1>1, <1>3, <1>6, <2>1, <2>2 DEF CallInv, Steps, Transfers
<1>14. ExtendInv'
  <2>1. ASSUME op = "extend", OnlyLast(r)
        PROVE  RELSEG_SIZE > 1 /\ len[<<r, MaxSeg>>] + BLCKSZ < Full
    BY <2>1, <1>1, <1>2, FirstShortIs DEF RoomFor
  <2>2. OnlyLast(call.r)' <=> OnlyLast(r)
    BY <1>1, <1>3 DEF OnlyLast
  <2>3. pc' = "count" => 0..(at' - 2) = {}
    BY <1>1
  <2>4. pc' # "countopen" /\ ~(pc' \in {"seg", "extend"} /\ op = "extend")
    BY <1>6
  <2> QED BY <1>1, <1>3, <2>1, <2>2, <2>3, <2>4 DEF ExtendInv
<1> QED BY <1>10, <1>11, <1>12, <1>13, <1>14 DEF MdInv

\* A step at rest of which only the files' books may notice something.
LEMMA IdleKeeps ==
  ASSUME MdInv, pc = "idle", FdInv',
         UNCHANGED <<len, nvfd, poolVars, relVars, pc, call, at, rest>>
  PROVE  MdInv'
<1>1. /\ UNCHANGED poolVars /\ UNCHANGED relVars /\ inuse' = inuse /\ len' = len
      /\ nvfd' = nvfd /\ pc' = pc /\ call' = call /\ at' = at /\ rest' = rest
      /\ chain' = chain /\ rd_fd' = rd_fd /\ CurFd' = CurFd
  BY DEF poolVars, relVars
<1>2. PoolInv /\ RelInv /\ CallInv /\ RestInv /\ LenInv /\ VfdInv
  BY DEF MdInv
<1>3. \A f \in Files : Reached(f)' <=> Reached(f)
  BY <1>1, ReachedStays
<1>4. PoolInv' /\ RelInv' /\ LenInv' /\ VfdInv'
  BY <1>1, <1>2, <1>3, PoolStays, RelStays, LenStays, VfdStays
<1>5. CallInv'
  BY <1>1, <1>2 DEF CallInv, Chain
<1>6. RestInv'
  BY <1>1, <1>2 DEF RestInv
<1>7. ExtendInv'
  BY <1>1, <1>2 DEF CallInv, ExtendInv
<1> QED BY <1>4, <1>5, <1>6, <1>7 DEF MdInv

\* md_blind_wrt.
LEMMA BlindKeeps ==
  ASSUME MdInv, NEW r \in Relations, NEW op,
         NEW b \in 0..((MaxSeg + 1) * RELSEG_SIZE - 1), md_blind_wrt(op, r, b)
  PROVE  MdInv'
<1>1. <<r, b \div RELSEG_SIZE>> \in Files
  <2>1. b \div RELSEG_SIZE \in Nat
    BY Sizes, DivNat
  <2>2. (b \div RELSEG_SIZE) * RELSEG_SIZE <= b
    BY Sizes, DivMod
  <2>3. b < (MaxSeg + 1) * RELSEG_SIZE
    BY Sizes
  <2>4. b \div RELSEG_SIZE < MaxSeg + 1
    <3> DEFINE q == b \div RELSEG_SIZE
    <3>1. q \in Int /\ MaxSeg + 1 \in Int /\ RELSEG_SIZE \in Nat \ {0}
      BY <2>1, Sizes
    <3>2. q * RELSEG_SIZE < (MaxSeg + 1) * RELSEG_SIZE
      <4>1. q * RELSEG_SIZE \in Int /\ (MaxSeg + 1) * RELSEG_SIZE \in Int
        BY <3>1, MulNext
      <4> QED BY <4>1, <2>2, <2>3
    <3> HIDE DEF q
    <3>3. q < MaxSeg + 1
      BY <3>1, <3>2, MulLess
    <3> QED BY <3>3 DEF q
  <2> QED BY <2>1, <2>4, Sizes DEF Files, Segs
<1>2. unsynced' = unsynced \cup {<<r, b \div RELSEG_SIZE>>} \/ unsynced' = unsynced
  BY DEF md_blind_wrt
<1>3. FdInv'
  BY <1>1, <1>2 DEF md_blind_wrt, FdInv, MdInv
<1> QED BY <1>3, IdleKeeps DEF md_blind_wrt

\* md_blind_mark_dirty.
LEMMA BlindMarkKeeps ==
  ASSUME MdInv, NEW r \in Relations, NEW b, md_blind_mark_dirty(r, b)
  PROVE  MdInv'
<1>1. FdInv'
  BY DEF md_blind_mark_dirty, FdInv, MdInv
<1> QED BY <1>1, IdleKeeps DEF md_blind_mark_dirty

\* at_eo_xact_files, at an abort.
LEMMA AbortKeeps ==
  ASSUME MdInv, md_abort
  PROVE  MdInv'
<1>1. FdInv'
  BY DEF md_abort, FdInv, MdInv
<1> QED BY <1>1, IdleKeeps DEF md_abort

\* fd.c closes a file to open another one.
LEMMA EvictKeeps ==
  ASSUME MdInv, NEW g \in Files, Evict(g)
  PROVE  MdInv'
<1>1. /\ UNCHANGED poolVars /\ UNCHANGED relVars /\ inuse' = inuse /\ len' = len
      /\ nvfd' = nvfd /\ pc' = pc /\ call' = call /\ at' = at /\ rest' = rest
      /\ chain' = chain /\ rd_fd' = rd_fd /\ CurFd' = CurFd /\ damaged' = damaged
      /\ lost' = lost /\ closed' = closed \cup {g} /\ dirty' = dirty \ {g}
      /\ unsynced' \subseteq unsynced
  BY DEF Evict, poolVars, relVars, callVars
<1>2. PoolInv /\ RelInv /\ CallInv /\ RestInv /\ LenInv /\ VfdInv /\ ExtendInv /\ FdInv
  BY DEF MdInv
<1>3. /\ \A f : OnChain(f)' <=> OnChain(f)
      /\ \A f \in Files : Reached(f)' <=> Reached(f)
  BY <1>1, ReachedStays
<1>4. PoolInv' /\ RelInv' /\ LenInv' /\ VfdInv'
  BY <1>1, <1>2, <1>3, PoolStays, RelStays, LenStays, VfdStays
<1>5. Chain' = Chain /\ prior_blocks' = prior_blocks
  BY <1>1 DEF Chain, prior_blocks
<1>6. CallInv'
  BY <1>1, <1>2, <1>5 DEF CallInv
<1>7. RestInv'
  BY <1>1, <1>2, <1>3, <1>5 DEF RestInv
<1>8. ExtendInv'
  <2>1. OnlyLast(call.r)' <=> OnlyLast(call.r)
    BY <1>1 DEF OnlyLast
  <2> QED BY <1>1, <1>2, <1>5, <2>1 DEF ExtendInv
<1>9. FdInv'
  BY <1>1, <1>2 DEF FdInv
<1> QED BY <1>4, <1>6, <1>7, <1>8, <1>9 DEF MdInv

\* Another backend adds a block: behind the full segments, never to one that
\* the call here has counted as full.
LEMMA OtherExtendsKeeps ==
  ASSUME MdInv, NEW r \in Relations, OtherExtends(r)
  PROVE  MdInv'
<1>1. /\ UNCHANGED poolVars /\ UNCHANGED relVars /\ inuse' = inuse
      /\ nvfd' = nvfd /\ pc' = pc /\ call' = call /\ at' = at /\ rest' = rest
      /\ chain' = chain /\ rd_fd' = rd_fd /\ CurFd' = CurFd /\ damaged' = damaged
      /\ lost' = lost /\ closed' = closed /\ dirty' = dirty /\ unsynced' = unsynced
      /\ ~(call.r = r /\ call.op \in {"extend", "truncate", "unlink"})
      /\ RoomFor(r)
  BY DEF OtherExtends, poolVars, relVars
<1>2. PoolInv /\ RelInv /\ CallInv /\ RestInv /\ LenInv /\ VfdInv /\ ExtendInv /\ FdInv
  BY DEF MdInv
<1>3. /\ \A f : OnChain(f)' <=> OnChain(f)
      /\ \A f \in Files : Reached(f)' <=> Reached(f)
  BY <1>1, ReachedStays
<1>4. PICK k \in Segs : k = FirstShort(r) /\ len[<<r, k>>] < Full
  BY <1>2, FirstShortIs
<1> DEFINE g == <<r, k>>
           v == IF len[g] = -1 THEN BLCKSZ ELSE (len[g] \div BLCKSZ + 1) * BLCKSZ
<1>5. g \in Files /\ len[g] \in -1..Full /\ len \in [Files -> -1..Full] /\ len[g] < Full
  BY <1>2, <1>4 DEF Files, LenInv
<1>6. len' = [len EXCEPT ![g] = v]
  BY <1>4 DEF OtherExtends
<1>7. v \in 0..Full /\ (len[g] # -1 => v <= len[g] + BLCKSZ)
  <2>1. CASE len[g] = -1
    BY <2>1, Sizes
  <2>2. CASE len[g] # -1
    <3> DEFINE q == len[g] \div BLCKSZ
    <3>1. q \in Int /\ BLCKSZ \in Nat \ {0} /\ RELSEG_SIZE \in Int
      BY <1>5, Sizes, DivMod
    <3>2. q * BLCKSZ \in Int /\ q * BLCKSZ <= len[g] /\ len[g] \in Nat /\ q \in Nat
      <4>1. len[g] \in Nat /\ BLCKSZ \in Nat \ {0}
        BY <2>2, <1>5, Sizes
      <4>2. \A l \in Nat : LET p == l \div BLCKSZ
                            IN  p * BLCKSZ \in Int /\ p * BLCKSZ <= l /\ p \in Nat
        <5> SUFFICES ASSUME NEW l \in Nat
                     PROVE  /\ (l \div BLCKSZ) * BLCKSZ \in Int
                            /\ (l \div BLCKSZ) * BLCKSZ <= l /\ l \div BLCKSZ \in Nat
          OBVIOUS
        <5> QED BY <4>1, DivMod, DivNat
      <4> QED BY <4>1, <4>2
    <3> HIDE DEF q
    <3>3. q * BLCKSZ < RELSEG_SIZE * BLCKSZ
      BY <3>2, <1>5, Sizes DEF Full
    <3>4. q < RELSEG_SIZE
      BY <3>1, <3>3, MulLess
    <3>5. (q + 1) * BLCKSZ <= RELSEG_SIZE * BLCKSZ
      BY <3>1, <3>4, MulMono
    <3>6. (q + 1) * BLCKSZ = q * BLCKSZ + BLCKSZ
      BY <3>1, MulNext
    <3>7. (q + 1) * BLCKSZ \in 0..Full /\ (q + 1) * BLCKSZ <= len[g] + BLCKSZ
      BY <3>1, <3>2, <3>5, <3>6, <1>5, Sizes DEF Full
    <3> QED BY <2>2, <3>7 DEF q
  <2> QED BY <2>1, <2>2
<1>8. g[2] = MaxSeg => v < Full
  <2> SUFFICES ASSUME k = MaxSeg PROVE v < Full
    OBVIOUS
  <2>1. RELSEG_SIZE > 1 /\ len[g] + BLCKSZ < Full
    BY <1>1, <1>4 DEF RoomFor
  <2>2. CASE len[g] = -1
    BY <2>1, <2>2, Sizes
  <2>3. CASE len[g] # -1
    <3> HIDE DEF v
    <3> QED BY <2>1, <2>3, <1>5, <1>7, Sizes
  <2> QED BY <2>2, <2>3
<1> HIDE DEF v
<1>9. len'[g] = v /\ \A f \in Files : f # g => len'[f] = len[f]
  BY <1>5, <1>6
<1>10. LenInv'
  <2> HIDE DEF g
  <2> QED BY <1>2, <1>3, <1>5, <1>6, <1>7, <1>8, LenChanges
<1>11. PoolInv' /\ RelInv' /\ VfdInv'
  BY <1>1, <1>2, <1>3, PoolStays, RelStays, VfdStays
<1>12. Chain' = Chain /\ prior_blocks' = prior_blocks
  BY <1>1 DEF Chain, prior_blocks
<1>13. CallInv'
  BY <1>1, <1>2, <1>12 DEF CallInv
<1>14. RestInv'
  BY <1>1, <1>2, <1>3, <1>12 DEF RestInv
<1>15. FdInv'
  BY <1>1, <1>2 DEF FdInv
<1>16. ExtendInv'
  <2>1. ASSUME NEW j \in Segs, len[<<call.r, j>>] = Full, call.r \in Relations
        PROVE  len'[<<call.r, j>>] = Full
    <3>1. <<call.r, j>> \in Files /\ <<call.r, j>> # g
      BY <2>1, <1>5, Sizes DEF Files
    <3> QED BY <2>1, <3>1, <1>9
  <2>2. ASSUME call.r \in Relations, call.r # r, NEW j \in Segs
        PROVE  len'[<<call.r, j>>] = len[<<call.r, j>>]
    <3>1. <<call.r, j>> \in Files /\ <<call.r, j>> # g
      BY <2>2 DEF Files
    <3> QED BY <3>1, <1>9
  <2>3. call.op = "extend" => call.r \in Relations /\ call.r # r
    BY <1>1, <1>2 DEF CallInv
  <2>4. pc \in {"count", "countopen"} \cup {"seg", "extend"} => call.r \in Relations
    BY <1>2 DEF CallInv
  <2>5. pc \in {"count", "countopen"} => Len(Chain) <= MaxSeg + 1 /\ Len(Chain) \in Nat /\ at \in 1..Len(Chain)
    <3>1. pc \in {"count", "countopen"} =>
            call.r \in Relations /\ rd_fd[call.r] # -1 /\ at \in 1..Len(Chain) /\ ~Closing(call.r)
      BY <1>2 DEF CallInv, Steps, Closing
    <3> QED BY <3>1, <1>2, EntryFacts, Sizes DEF Chain
  <2>6. pc = "count" => \A j \in 0..(at - 2) : len'[<<call.r, j>>] = Full
    <3> SUFFICES ASSUME pc = "count", NEW j \in 0..(at - 2) PROVE len'[<<call.r, j>>] = Full
      OBVIOUS
    <3>1. j \in Segs
      BY <2>5, Sizes DEF Segs
    <3> QED BY <3>1, <2>1, <2>4, <1>2 DEF ExtendInv
  <2>7. pc = "countopen" => \A j \in 0..(at - 1) : len'[<<call.r, j>>] = Full
    <3> SUFFICES ASSUME pc = "countopen", NEW j \in 0..(at - 1) PROVE len'[<<call.r, j>>] = Full
      OBVIOUS
    <3>1. j \in Segs
      BY <2>5, Sizes DEF Segs
    <3> QED BY <3>1, <2>1, <2>4, <1>2 DEF ExtendInv
  <2>8. MaxSeg \in Segs
    BY Sizes DEF Segs
  <2>9. call.op = "extend" /\ OnlyLast(call.r)' =>
          RELSEG_SIZE > 1 /\ len'[<<call.r, MaxSeg>>] + BLCKSZ < Full
    <3> SUFFICES ASSUME call.op = "extend", OnlyLast(call.r)'
                 PROVE  RELSEG_SIZE > 1 /\ len'[<<call.r, MaxSeg>>] + BLCKSZ < Full
      OBVIOUS
    <3>1. \A j \in Segs : len'[<<call.r, j>>] = len[<<call.r, j>>]
      BY <2>2, <2>3
    <3>2. OnlyLast(call.r)
      BY <3>1, <1>1 DEF OnlyLast
    <3> QED BY <3>1, <3>2, <2>8, <1>2 DEF ExtendInv
  <2>10. ASSUME pc \in {"seg", "extend"}, call.op = "extend"
         PROVE  /\ call.b \div RELSEG_SIZE \in 0..(Len(Chain) - 1)
                /\ pc = "extend" => at = call.b \div RELSEG_SIZE + 1
                /\ \A j \in 0..(call.b \div RELSEG_SIZE - 1) : len'[<<call.r, j>>] = Full
                /\ \/ len'[<<call.r, call.b \div RELSEG_SIZE>>] < Full
                   \/ <<call.r, call.b \div RELSEG_SIZE>> \in closed \cap lost
    <3>1. PICK t : t = call.b \div RELSEG_SIZE
      OBVIOUS
    <3>2. /\ t \in 0..(Len(Chain) - 1)
          /\ pc = "extend" => at = t + 1
          /\ \A j \in 0..(t - 1) : len[<<call.r, j>>] = Full
          /\ \/ len[<<call.r, t>>] < Full
             \/ <<call.r, t>> \in closed \cap lost
      BY <2>10, <3>1, <1>2 DEF ExtendInv
    <3>3. Len(Chain) <= MaxSeg + 1 /\ Len(Chain) \in Nat
      <4>1. call.r \in Relations /\ rd_fd[call.r] # -1 /\ ~Closing(call.r)
        BY <2>10, <1>2 DEF CallInv, Steps, Closing
      <4> QED BY <4>1, <1>2, EntryFacts, Sizes DEF Chain
    <3>4. t \in Segs /\ \A j \in 0..(t - 1) : j \in Segs
      BY <3>2, <3>3, Sizes DEF Segs
    <3>5. \A j \in Segs : len'[<<call.r, j>>] = len[<<call.r, j>>]
      BY <2>2, <2>3, <2>10
    <3> QED BY <3>1, <3>2, <3>4, <3>5
  <2> QED BY <1>1, <1>12, <2>6, <2>7, <2>9, <2>10 DEF ExtendInv
<1> QED BY <1>10, <1>11, <1>13, <1>14, <1>15, <1>16 DEF MdInv

\* md_unlink starts.
LEMMA BeginUnlinkKeeps ==
  ASSUME MdInv, NEW r \in Relations, BeginUnlink(r)
  PROVE  MdInv'
<1>1. /\ pc = "idle" /\ rd_fd[r] = -1 /\ call' = [op |-> "unlink", r |-> r, b |-> 0]
      /\ pc' = "unlink" /\ at' = 0 /\ rest' = <<>>
      /\ UNCHANGED poolVars /\ UNCHANGED relVars /\ inuse' = inuse
      /\ len' = len /\ nvfd' = nvfd /\ closed' = closed /\ lost' = lost
      /\ dirty' = dirty /\ unsynced' = unsynced /\ damaged' = damaged
      /\ chain' = chain /\ rd_fd' = rd_fd
  BY DEF BeginUnlink, fileVars, poolVars, relVars
<1>2. PoolInv /\ RelInv /\ RestInv /\ LenInv /\ FdInv /\ VfdInv
  BY DEF MdInv
<1>3. \A f \in Files : Reached(f)' <=> Reached(f)
  BY <1>1, <1>2, NothingOnHand, ReachedStays
<1>4. PoolInv' /\ RelInv' /\ LenInv' /\ VfdInv'
  BY <1>1, <1>2, <1>3, PoolStays, RelStays, LenStays, VfdStays
<1>5. FdInv'
  BY <1>1, <1>2 DEF FdInv
<1>6. CallInv'
  BY <1>1, Sizes DEF CallInv, Steps, Transfers
<1>7. RestInv'
  BY <1>1, EmptySeq DEF RestInv
<1>8. ExtendInv'
  BY <1>1 DEF ExtendInv
<1> QED BY <1>4, <1>5, <1>6, <1>7, <1>8 DEF MdInv

\* md_commit starts.
LEMMA BeginCommitKeeps ==
  ASSUME MdInv, BeginCommit
  PROVE  MdInv'
<1>1. /\ pc = "idle" /\ call' = [op |-> "commit", r |-> "none", b |-> 0]
      /\ pc' = "commit" /\ at' = 0 /\ rest' = <<>>
      /\ UNCHANGED poolVars /\ UNCHANGED relVars /\ inuse' = inuse /\ CurFd' = CurFd
      /\ len' = len /\ nvfd' = nvfd /\ closed' = closed /\ lost' = lost
      /\ dirty' = dirty /\ unsynced' = unsynced /\ damaged' = damaged
      /\ chain' = chain /\ rd_fd' = rd_fd
  BY DEF BeginCommit, None, fileVars, poolVars, relVars
<1>2. PoolInv /\ RelInv /\ RestInv /\ LenInv /\ FdInv /\ VfdInv
  BY DEF MdInv
<1>3. \A f \in Files : Reached(f)' <=> Reached(f)
  BY <1>1, <1>2, NothingOnHand, ReachedStays
<1>4. PoolInv' /\ RelInv' /\ LenInv' /\ VfdInv'
  BY <1>1, <1>2, <1>3, PoolStays, RelStays, LenStays, VfdStays
<1>5. FdInv'
  BY <1>1, <1>2 DEF FdInv
<1>6. CallInv'
  BY <1>1, <1>2 DEF CallInv, Steps, Transfers, PoolInv
<1>7. RestInv'
  BY <1>1, EmptySeq DEF RestInv, Has
<1>8. ExtendInv'
  BY <1>1 DEF ExtendInv
<1> QED BY <1>4, <1>5, <1>6, <1>7, <1>8 DEF MdInv

-----------------------------------------------------------------------------
(* Counting, and finding the segment.                                      *)

\* Where a call is that works on a segment.
LEMMA AtSegment ==
  ASSUME MdInv, pc \in {"count", "countopen"} \cup Transfers
  PROVE  /\ call.r \in Relations /\ rd_fd[call.r] # -1 /\ ~Closing(call.r)
         /\ at \in 1..Len(Chain) /\ Len(Chain) \in 1..(MaxSeg + 1)
         /\ Cur = <<call.r, at - 1>> /\ Cur \in Files /\ at - 1 \in Segs
         /\ OnChain(Cur) /\ len[Cur] \in 0..Full /\ rest = <<>>
<1>1. /\ call.r \in Relations /\ rd_fd[call.r] # -1 /\ ~Closing(call.r)
      /\ at \in 1..Len(Chain)
  BY DEF MdInv, CallInv, Transfers, Steps, Closing
<1>2. Len(Chain) \in 1..(MaxSeg + 1)
  BY <1>1, EntryFacts DEF MdInv, Chain
<1>3. /\ Cur = <<call.r, at - 1>> /\ <<call.r, at - 1>> \in Files /\ at - 1 \in Segs
      /\ OnChain(<<call.r, at - 1>>)
  BY <1>1, CurFacts DEF MdInv, Chain, Cur
<1>4. len[Cur] \in -1..Full /\ len[Cur] # -1
  BY <1>3 DEF MdInv, LenInv, Reached
<1>5. rest = <<>>
  BY DEF MdInv, RestInv, Transfers
<1> QED BY <1>1, <1>2, <1>3, <1>4, <1>5, Sizes

\* md_nblocks has counted: whatever it returns to, the segment it stopped at
\* is the one to extend.
LEMMA CountedKeeps ==
  ASSUME MdInv, pc = "count", NEW m \in 0..(RELSEG_SIZE - 1),
         Counted((at - 1) * RELSEG_SIZE + m),
         UNCHANGED <<len, nvfd, poolVars, relVars>>,
         lost' \in SUBSET closed', closed' \in SUBSET Files, dirty' = dirty,
         unsynced' = unsynced, len[Cur] < Full \/ Cur \in closed' \cap lost'
  PROVE  MdInv'
<1>1. /\ UNCHANGED poolVars /\ UNCHANGED relVars /\ inuse' = inuse
      /\ len' = len /\ nvfd' = nvfd /\ chain' = chain /\ rd_fd' = rd_fd
  BY DEF poolVars, relVars
<1>2. /\ PoolInv /\ RelInv /\ CallInv /\ RestInv /\ LenInv /\ ExtendInv /\ FdInv /\ VfdInv
  BY DEF MdInv
<1>3. /\ call.r \in Relations /\ rd_fd[call.r] # -1 /\ ~Closing(call.r)
      /\ at \in 1..Len(Chain) /\ Len(Chain) \in 1..(MaxSeg + 1)
      /\ Cur = <<call.r, at - 1>> /\ rest = <<>>
  BY AtSegment
<1>4. PICK n : n = (at - 1) * RELSEG_SIZE + m
  OBVIOUS
<1>5. n \in Nat /\ n \div RELSEG_SIZE = at - 1 /\ at \in Nat
  <2>1. at - 1 \in Nat /\ at - 1 \in Int /\ RELSEG_SIZE \in Nat \ {0}
    BY <1>2, <1>3, Sizes DEF CallInv
  <2>2. (at - 1) * RELSEG_SIZE \in Nat
    BY <2>1
  <2>3. ((at - 1) * RELSEG_SIZE + m) \div RELSEG_SIZE = at - 1
    BY <2>1, DivUnique
  <2>4. n \in Nat
    BY <2>2, <1>4, Sizes
  <2>5. at \in Nat
    BY <1>2 DEF CallInv
  <2> QED BY <2>3, <2>4, <2>5, <1>4
<1>6. call.op \in {"nblocks", "extend", "truncate", "read"} /\ call.b \in Nat
  BY <1>2 DEF CallInv
<1>7. FdInv'
  <2>1. damaged' = damaged \cup {call.r} \/ damaged' = damaged
    BY DEF Counted
  <2> QED BY <2>1, <1>2, <1>3 DEF FdInv
<1>8. \A f \in Files : Has(rest, f) => OnChain(f)
  BY <1>3 DEF Has
<1>9. CASE call.op = "extend"
  <2>1. call' = [call EXCEPT !.b = n] /\ pc' = "seg" /\ at' = 1 /\ rest' = rest
    BY <1>4, <1>9 DEF Counted
  <2>2. /\ call'.op = "extend" /\ call'.r = call.r /\ call'.b = n
        /\ call' \in [op : Ops \cup {"none", "commit", "unlink"},
                      r : Relations \cup {"none"}, b : Nat]
    BY <2>1, <1>2, <1>5, <1>9 DEF CallInv
  <2>3. \A f \in Files : Reached(f)' <=> Reached(f)
    BY <1>1, <2>1, ReachedStays
  <2>4. PoolInv' /\ RelInv' /\ LenInv' /\ VfdInv'
    BY <1>1, <1>2, <2>3, PoolStays, RelStays, LenStays, VfdStays
  <2>5. RestInv'
    BY <1>3, <2>1, EmptySeq DEF RestInv
  <2>6. CallInv'
    BY <1>1, <1>3, <2>1, <2>2 DEF CallInv, Steps, Transfers
  <2>7. Chain' = Chain
    BY <1>1, <2>2 DEF Chain
  <2>8. ExtendInv'
    <3>1. OnlyLast(call.r)' <=> OnlyLast(call.r)
      BY <1>1, <2>2 DEF OnlyLast
    <3>2. \A k \in 0..(at - 2) : len[<<call.r, k>>] = Full
      BY <1>2 DEF ExtendInv
    <3>3. at - 1 \in 0..(Len(Chain) - 1) /\ at - 2 = (at - 1) - 1
      BY <1>3, <1>5
    <3>4. call'.b \div RELSEG_SIZE = at - 1
      BY <1>5, <2>2
    <3>5. \/ len'[<<call'.r, call'.b \div RELSEG_SIZE>>] < Full
          \/ <<call'.r, call'.b \div RELSEG_SIZE>> \in closed' \cap lost'
      BY <1>1, <1>3, <2>2, <3>4
    <3>6. \A k \in 0..(call'.b \div RELSEG_SIZE - 1) : len'[<<call'.r, k>>] = Full
      BY <1>1, <2>2, <3>2, <3>3, <3>4
    <3>7. call'.b \div RELSEG_SIZE \in 0..(Len(Chain') - 1)
      BY <2>7, <3>3, <3>4
    <3>8. OnlyLast(call.r) => RELSEG_SIZE > 1 /\ len[<<call.r, MaxSeg>>] + BLCKSZ < Full
      BY <1>2, <1>9 DEF ExtendInv
    <3> QED BY <1>1, <2>1, <2>2, <3>1, <3>5, <3>6, <3>7, <3>8 DEF ExtendInv
  <2> QED BY <1>7, <2>4, <2>5, <2>6, <2>8 DEF MdInv
<1>10. CASE call.op = "truncate" /\ call.b < n
  <2>1. pc' = "truncate" /\ at' = 1 /\ rest' = Chain /\ call' = call
    <3>1. call.op # "extend" /\ call.op = "truncate" /\ call.b < n
      BY <1>10
    <3>2. Counted(n)
      BY <1>4
    <3> QED BY <3>1, <3>2, <1>5, <1>6 DEF Counted
  <2>2. \A f \in Files : Has(Chain, f) <=> OnChain(f) /\ f[1] = call.r
    <3> SUFFICES ASSUME NEW f \in Files
                 PROVE  Has(Chain, f) <=> OnChain(f) /\ f[1] = call.r
      OBVIOUS
    <3>1. Has(Chain, f) => f[1] = call.r
      BY <1>2, <1>3 DEF Has, Chain, RelInv, EntryInv
    <3> QED BY <1>3, <3>1 DEF OnChain, Chain
  <2>3. \A f : OnChain(f)' <=> OnChain(f)
    BY <1>1 DEF OnChain
  <2>4. \A f \in Files : Reached(f)' <=> Reached(f)
    BY <1>8, <2>1, <2>2, <2>3 DEF Reached
  <2>5. PoolInv' /\ RelInv' /\ LenInv' /\ VfdInv'
    BY <1>1, <1>2, <2>1, <2>4, PoolStays, RelStays, LenStays, VfdStays
  <2>6. Chain' = Chain
    BY <1>1, <2>1 DEF Chain
  <2>7. CallInv'
    BY <1>1, <1>2, <1>3, <1>10, <2>1 DEF CallInv, Steps, Transfers
  <2>8. RestInv'
    <3>1. rest' \in Seq(Files)
      BY <1>2, <1>3, <2>1, EntryFacts DEF Chain
    <3>2. \A i \in 1..Len(rest') : rest'[i] = <<call'.r, at' + i - 2>>
      <4>1. \A i \in 1..Len(Chain) : Chain[i] = <<call.r, i - 1>>
        BY <1>2, <1>3 DEF RelInv, EntryInv, Segments, Chain
      <4>2. \A i \in 1..Len(Chain) : 1 + i - 2 = i - 1
        BY <1>3
      <4> QED BY <2>1, <4>1, <4>2
    <3>3. prior_blocks' = 0
      BY <2>1, Sizes DEF prior_blocks
    <3>4. at' >= 1 /\ at' + Len(rest') <= MaxSeg + 2 /\ Len(Chain') = at' - 1 + Len(rest')
      BY <1>3, <2>1, <2>6, Sizes
    <3> QED BY <1>6, <2>1, <3>1, <3>2, <3>3, <3>4 DEF RestInv
  <2>9. ExtendInv'
    BY <1>10, <2>1 DEF ExtendInv
  <2> QED BY <1>7, <2>5, <2>7, <2>8, <2>9 DEF MdInv
<1>11. CASE ~(call.op = "extend") /\ ~(call.op = "truncate" /\ call.b < n)
  <2>1. \E v : Return(v)
    BY <1>4, <1>5, <1>6, <1>11 DEF Counted
  <2> QED BY <1>1, <1>7, <1>8, <2>1, ReturnStays
<1> QED BY <1>9, <1>10, <1>11

\* A round of md_nblocks.
LEMMA NblocksKeeps ==
  ASSUME MdInv, md_nblocks
  PROVE  MdInv'
<1>1. /\ pc = "count" /\ closed' = closed \ {Cur} /\ lost' = lost \ {Cur}
      /\ len' = len /\ nvfd' = nvfd /\ dirty' = dirty /\ unsynced' = unsynced
      /\ UNCHANGED poolVars /\ UNCHANGED relVars
      /\ inuse' = inuse /\ chain' = chain /\ rd_fd' = rd_fd
  BY DEF md_nblocks, poolVars, relVars
<1>2. /\ PoolInv /\ RelInv /\ CallInv /\ RestInv /\ LenInv /\ ExtendInv /\ FdInv /\ VfdInv
  BY DEF MdInv
<1>3. /\ call.r \in Relations /\ rd_fd[call.r] # -1 /\ ~Closing(call.r)
      /\ at \in 1..Len(Chain) /\ Len(Chain) \in 1..(MaxSeg + 1)
      /\ Cur = <<call.r, at - 1>> /\ rest = <<>> /\ len[Cur] \in 0..Full
  BY <1>1, AtSegment
<1>4. lost' \in SUBSET closed' /\ closed' \in SUBSET Files
  BY <1>1, <1>2 DEF FdInv
<1> DEFINE n == len[Cur] \div BLCKSZ
<1>5. /\ n \in 0..RELSEG_SIZE
      /\ n = RELSEG_SIZE => len[Cur] = Full
      /\ n # RELSEG_SIZE => len[Cur] < Full
  <2>1. PICK l \in 0..Full : l = len[Cur]
    BY <1>3
  <2>2. l \in Nat /\ BLCKSZ \in Nat \ {0} /\ RELSEG_SIZE \in Nat /\ Full = RELSEG_SIZE * BLCKSZ
        /\ Full \in Nat
    BY Sizes DEF Full
  <2>3. PICK q : q = l \div BLCKSZ
    OBVIOUS
  <2>4. q \in Nat /\ q * BLCKSZ \in Int /\ q * BLCKSZ <= l /\ l < q * BLCKSZ + BLCKSZ
    BY <2>2, <2>3, DivMod, DivNat
  <2>5. q <= RELSEG_SIZE
    <3>1. q * BLCKSZ < (RELSEG_SIZE + 1) * BLCKSZ
      <4>1. (RELSEG_SIZE + 1) * BLCKSZ = RELSEG_SIZE * BLCKSZ + BLCKSZ
        BY <2>2, MulNext
      <4> QED BY <4>1, <2>1, <2>2, <2>4
    <3>2. q < RELSEG_SIZE + 1
      BY <2>2, <2>4, <3>1, MulLess
    <3> QED BY <2>2, <2>4, <3>2
  <2>6. q = RELSEG_SIZE => l = Full
    BY <2>1, <2>2, <2>4
  <2>7. q # RELSEG_SIZE => l < Full
    <3> SUFFICES ASSUME q # RELSEG_SIZE PROVE l < Full
      OBVIOUS
    <3>1. q + 1 <= RELSEG_SIZE /\ q + 1 \in Int
      BY <2>2, <2>4, <2>5
    <3>2. (q + 1) * BLCKSZ <= RELSEG_SIZE * BLCKSZ
      BY <3>1, <2>2, MulMono
    <3>3. (q + 1) * BLCKSZ = q * BLCKSZ + BLCKSZ
      BY <2>2, <2>4, MulNext
    <3> QED BY <2>1, <2>2, <2>4, <3>2, <3>3
  <2> QED BY <2>1, <2>2, <2>3, <2>4, <2>5, <2>6, <2>7
<1>6. CASE n = RELSEG_SIZE
  <2>1. /\ IF at < Len(Chain) THEN Goto("count", at + 1) ELSE Goto("countopen", at)
        /\ damaged' = damaged
    BY <1>6 DEF md_nblocks
  <2>2. call' = call /\ rest' = rest
    BY <2>1 DEF Goto
  <2>3. \/ at < Len(Chain) /\ pc' = "count" /\ at' = at + 1
        \/ at = Len(Chain) /\ pc' = "countopen" /\ at' = at
    BY <2>1, <1>3 DEF Goto
  <2>4. \A f \in Files : Reached(f)' <=> Reached(f)
    BY <1>1, <2>2, ReachedStays
  <2>5. PoolInv' /\ RelInv' /\ LenInv' /\ VfdInv'
    BY <1>1, <1>2, <2>2, <2>4, PoolStays, RelStays, LenStays, VfdStays
  <2>6. Chain' = Chain
    BY <1>1, <2>2 DEF Chain
  <2>7. CallInv'
    <3>1. at' \in 1..Len(Chain) /\ at' \in Nat
      BY <1>3, <2>3
    <3> QED BY <1>1, <1>2, <1>3, <2>2, <2>3, <2>6, <3>1 DEF CallInv, Steps, Transfers
  <2>8. RestInv'
    BY <1>3, <2>2, <2>3, EmptySeq DEF RestInv
  <2>9. ExtendInv'
    <3>1. OnlyLast(call.r)' <=> OnlyLast(call.r)
      BY <1>1, <2>2 DEF OnlyLast
    <3>2. \A k \in 0..(at - 1) : len[<<call.r, k>>] = Full
      <4> SUFFICES ASSUME NEW k \in 0..(at - 1) PROVE len[<<call.r, k>>] = Full
        OBVIOUS
      <4>1. k \in 0..(at - 2) \/ k = at - 1
        BY <1>3
      <4>2. len[<<call.r, at - 1>>] = Full
        BY <1>3, <1>5, <1>6
      <4>3. \A j \in 0..(at - 2) : len[<<call.r, j>>] = Full
        BY <1>1, <1>2 DEF ExtendInv
      <4> QED BY <4>1, <4>2, <4>3
    <3>3. (at + 1) - 2 = at - 1
      BY <1>3
    <3>4. \A k \in 0..(at' - 2) : pc' = "count" => len'[<<call'.r, k>>] = Full
      BY <1>1, <2>2, <2>3, <3>2, <3>3
    <3>5. \A k \in 0..(at' - 1) : pc' = "countopen" => len'[<<call'.r, k>>] = Full
      BY <1>1, <2>2, <2>3, <3>2
    <3>6. call.op = "extend" /\ OnlyLast(call.r) =>
            RELSEG_SIZE > 1 /\ len[<<call.r, MaxSeg>>] + BLCKSZ < Full
      BY <1>2 DEF ExtendInv
    <3> QED BY <1>1, <2>2, <2>3, <3>1, <3>4, <3>5, <3>6 DEF ExtendInv
  <2>10. FdInv'
    BY <1>1, <1>2, <1>4, <2>1 DEF FdInv
  <2> QED BY <2>5, <2>7, <2>8, <2>9, <2>10 DEF MdInv
<1>7. CASE n # RELSEG_SIZE
  <2>1. Counted((at - 1) * RELSEG_SIZE + n)
    BY <1>7 DEF md_nblocks
  <2>2. n \in 0..(RELSEG_SIZE - 1) /\ len[Cur] < Full
    BY <1>5, <1>7, Sizes
  <2> HIDE DEF n
  <2> QED BY <1>1, <1>4, <2>1, <2>2, CountedKeeps
<1> QED BY <1>6, <1>7

\* The segment cannot be reopened, and counts as empty.
LEMMA NblocksFailsKeeps ==
  ASSUME MdInv, md_nblocks_aux_fails
  PROVE  MdInv'
<1>1. /\ pc = "count" /\ Cur \in closed /\ lost' = lost \cup {Cur}
      /\ Counted((at - 1) * RELSEG_SIZE)
      /\ len' = len /\ nvfd' = nvfd /\ closed' = closed /\ dirty' = dirty
      /\ unsynced' = unsynced /\ UNCHANGED poolVars /\ UNCHANGED relVars
  BY DEF md_nblocks_aux_fails, AccessFails
<1>2. at \in 1..Len(Chain)
  BY <1>1, AtSegment
<1>3. (at - 1) * RELSEG_SIZE + 0 = (at - 1) * RELSEG_SIZE /\ 0 \in 0..(RELSEG_SIZE - 1)
  <2>1. at - 1 \in Int /\ RELSEG_SIZE \in Nat \ {0}
    BY <1>2, Sizes
  <2>2. (at - 1) * RELSEG_SIZE \in Int
    BY <2>1
  <2> QED BY <2>1, <2>2
<1>4. lost' \in SUBSET closed' /\ closed' \in SUBSET Files /\ Cur \in closed' \cap lost'
  BY <1>1 DEF MdInv, FdInv
<1>5. Counted((at - 1) * RELSEG_SIZE + 0)
  BY <1>1, <1>3
<1> QED BY <1>1, <1>3, <1>4, <1>5, CountedKeeps

\* A number of blocks below the bound is in one of the segments.
LEMMA SegmentOfBlock ==
  ASSUME NEW b \in Nat, b < (MaxSeg + 1) * RELSEG_SIZE
  PROVE  b \div RELSEG_SIZE \in Segs
<1>1. PICK q : q = b \div RELSEG_SIZE
  OBVIOUS
<1>2. q \in Nat /\ q * RELSEG_SIZE <= b /\ q * RELSEG_SIZE \in Int
  BY <1>1, Sizes, DivMod, DivNat
<1>3. (MaxSeg + 1) * RELSEG_SIZE \in Int /\ MaxSeg + 1 \in Int
  BY Sizes, MulNext
<1>4. q * RELSEG_SIZE < (MaxSeg + 1) * RELSEG_SIZE
  BY <1>2, <1>3
<1>5. q < MaxSeg + 1
  BY <1>2, <1>3, <1>4, Sizes, MulLess
<1> QED BY <1>1, <1>2, <1>5, Sizes DEF Segs

\* md_fd_open_seg: the chain gets its next segment, which was not open.
LEMMA OpenSegKeeps ==
  ASSUME MdInv, md_fd_open_seg
  PROVE  MdInv'
<1>0. PICK r, k : r = call.r /\ k = Len(Chain)
  OBVIOUS
<1>1. /\ \/ pc = "countopen"
         \/ pc = "seg" /\ Len(Chain) <= call.b \div RELSEG_SIZE
      /\ OpenVfd(<<r, k>>, pc = "countopen" \/ k = call.b \div RELSEG_SIZE)
      /\ chain' = [chain EXCEPT ![rd_fd[r]] = Append(chain[rd_fd[r]], <<r, k>>)]
      /\ UNCHANGED poolVars /\ inuse' = inuse /\ rd_fd' = rd_fd /\ damaged' = damaged
      /\ CurFd' = CurFd
  BY <1>0 DEF md_fd_open_seg, poolVars
<1>2. /\ call' = call /\ rest' = rest
      /\ \/ pc = "countopen" /\ pc' = "count" /\ at' = at + 1
         \/ pc = "seg" /\ pc' = "seg" /\ at' = 1
  BY <1>1 DEF md_fd_open_seg, Goto
<1>3. /\ PoolInv /\ RelInv /\ CallInv /\ RestInv /\ LenInv /\ ExtendInv /\ FdInv /\ VfdInv
  BY DEF MdInv
<1>4. /\ r \in Relations /\ rd_fd[r] # -1 /\ ~Closing(r) /\ rest = <<>>
      /\ pc = "countopen" => at = k
      /\ pc = "seg" => call.op \in Transfers
      /\ pc = "seg" => call.op = "extend" \/ call.b < (MaxSeg + 1) * RELSEG_SIZE
      /\ call.b \in Nat
  BY <1>0, <1>1, <1>3 DEF CallInv, RestInv, Steps, Closing
<1>5. /\ rd_fd[r] \in Entries /\ rd_fd[r] \in inuse /\ chain[rd_fd[r]] \in Seq(Files)
      /\ k \in 1..(MaxSeg + 1) /\ k = Len(chain[rd_fd[r]])
      /\ \A j \in Nat : Has(chain[rd_fd[r]], <<r, j>>) <=> j < k
  BY <1>0, <1>3, <1>4, EntryFacts DEF Chain
<1>6. pc = "seg" => call.op # "extend"
  <2> SUFFICES ASSUME pc = "seg", call.op = "extend" PROVE FALSE
    OBVIOUS
  <2>1. call.b \div RELSEG_SIZE \in 0..(k - 1) /\ k <= call.b \div RELSEG_SIZE
    BY <1>0, <1>1, <1>3 DEF ExtendInv
  <2> QED BY <2>1, <1>5
<1>7. k \in Segs /\ <<r, k>> \in Files
  <2>1. CASE pc = "countopen"
    <3>1. len[<<r, k - 1>>] = Full
      <4>1. k - 1 \in 0..(at - 1)
        BY <2>1, <1>4, <1>5
      <4> QED BY <4>1, <2>1, <1>0, <1>3 DEF ExtendInv
    <3>2. k - 1 # MaxSeg
      BY <3>1, <1>3, <1>4, Sizes DEF LenInv
    <3> QED BY <3>2, <1>4, <1>5, Sizes DEF Segs, Files
  <2>2. CASE pc = "seg"
    <3>1. call.b \div RELSEG_SIZE \in Segs /\ k <= call.b \div RELSEG_SIZE
      BY <2>2, <1>0, <1>1, <1>4, <1>6, SegmentOfBlock
    <3> QED BY <3>1, <1>4, <1>5, Sizes DEF Segs, Files
  <2> QED BY <2>1, <2>2, <1>1
<1>8. PICK c \in BOOLEAN : OpenVfd(<<r, k>>, c)
  BY <1>1
<1>9. /\ \A x \in Entries : x # rd_fd[r] => chain'[x] = chain[x]
      /\ chain'[rd_fd[r]] = Append(chain[rd_fd[r]], <<r, k>>)
      /\ chain' \in [Entries -> Seq(Files)]
  <2>1. Append(chain[rd_fd[r]], <<r, k>>) \in Seq(Files) /\ chain \in [Entries -> Seq(Files)]
    BY <1>3, <1>5, <1>7, AppendProperties DEF RelInv
  <2> QED BY <1>1, <1>5, <2>1
<1>10. /\ Len(chain'[rd_fd[r]]) = k + 1
       /\ \A i \in 1..k : chain'[rd_fd[r]][i] = chain[rd_fd[r]][i]
       /\ chain'[rd_fd[r]][k + 1] = <<r, k>>
  BY <1>5, <1>7, <1>9, AppendProperties
<1>11. RelInv'
  <2>1. Segments(chain'[rd_fd[r]], r)
    <3>1. \A i \in 1..k : chain[rd_fd[r]][i] = <<r, i - 1>>
      BY <1>3, <1>4, <1>5 DEF RelInv, EntryInv, Segments
    <3>2. \A i \in 1..(k + 1) : i \in 1..k \/ i = k + 1
      BY <1>5
    <3>3. (k + 1) - 1 = k
      BY <1>5
    <3> QED BY <1>10, <3>1, <3>2, <3>3 DEF Segments
  <2>2. EntryInv(r)'
    <3>1. \A i \in 1..Len(chain'[rd_fd[r]]) : chain'[rd_fd[r]][i] = <<r, i - 1>>
      BY <2>1 DEF Segments
    <3>2. chain'[rd_fd[r]] # <<>>
      BY <1>5, <1>10, EmptySeq
    <3>3. \A i \in 1..Len(chain'[rd_fd[r]]) : chain'[rd_fd[r]][i][1] = r
      BY <3>1
    <3>4. \A i, j \in 1..Len(chain'[rd_fd[r]]) :
            chain'[rd_fd[r]][i] = chain'[rd_fd[r]][j] => i = j
      <4> SUFFICES ASSUME NEW i \in 1..Len(chain'[rd_fd[r]]), NEW j \in 1..Len(chain'[rd_fd[r]]),
                          chain'[rd_fd[r]][i] = chain'[rd_fd[r]][j]
                   PROVE  i = j
        OBVIOUS
      <4>1. <<r, i - 1>> = <<r, j - 1>>
        BY <3>1
      <4> QED BY <4>1
    <3>5. Len(chain'[rd_fd[r]]) <= MaxSeg + 1
      BY <1>7, <1>10, Sizes DEF Segs
    <3> QED BY <1>1, <2>1, <3>2, <3>3, <3>4, <3>5 DEF EntryInv
  <2>3. ASSUME NEW q \in Relations, q # r, rd_fd[q] # -1 PROVE EntryInv(q)'
    <3>1. rd_fd[q] \in Entries /\ rd_fd[q] # rd_fd[r]
      BY <2>3, <1>3, <1>4, EntryFacts DEF RelInv
    <3>2. chain'[rd_fd'[q]] = chain[rd_fd[q]]
      BY <3>1, <1>1, <1>9
    <3>3. ~Closing(q)
      BY <1>1 DEF Closing
    <3> QED BY <2>3, <3>2, <3>3, <1>3 DEF EntryInv, RelInv
  <2>4. \A x \in Entries \ inuse' : chain'[x] = <<>>
    BY <1>1, <1>3, <1>5, <1>9 DEF RelInv
  <2> QED BY <1>1, <1>3, <1>9, <2>2, <2>3, <2>4 DEF RelInv
<1>12. ASSUME NEW f \in Files PROVE Reached(f)' <=> Reached(f) \/ f = <<r, k>>
  <2>1. f[1] \in Relations /\ f = <<f[1], f[2]>>
    BY DEF Files
  <2>2. ~Has(rest, f) /\ ~Has(rest', f)
    BY <1>2, <1>4 DEF Has
  <2>3. CASE f[1] = r
    <3>1. Has(chain'[rd_fd[r]], f) <=> Has(chain[rd_fd[r]], f) \/ f = <<r, k>>
      <4>1. Has(Append(chain[rd_fd[r]], <<r, k>>), f) <=> Has(chain[rd_fd[r]], f) \/ f = <<r, k>>
        BY <1>5, <1>7, HasAppend
      <4> QED BY <4>1, <1>9
    <3> QED BY <2>2, <2>3, <3>1, <1>1, <1>4 DEF Reached, OnChain
  <2>4. CASE f[1] # r
    <3>1. rd_fd[f[1]] # -1 => rd_fd[f[1]] \in Entries /\ rd_fd[f[1]] # rd_fd[r]
      BY <2>1, <2>4, <1>3, <1>4, EntryFacts DEF RelInv
    <3>2. f # <<r, k>>
      BY <2>4
    <3> QED BY <2>2, <3>1, <3>2, <1>1, <1>9 DEF Reached, OnChain
  <2> QED BY <2>3, <2>4
<1>13. ~Reached(<<r, k>>)
  <2>1. ~Has(chain[rd_fd[r]], <<r, k>>)
    BY <1>5
  <2> QED BY <2>1, <1>4 DEF Reached, OnChain, Has
<1>14. VfdInv'
  <2>1. nvfd' = [nvfd EXCEPT ![<<r, k>>] = @ + 1] /\ nvfd \in [Files -> 0..1]
    BY <1>3, <1>8 DEF OpenVfd, VfdInv
  <2>2. nvfd[<<r, k>>] = 0
    BY <1>3, <1>7, <1>13 DEF VfdInv
  <2>3. nvfd'[<<r, k>>] = 1 /\ \A f \in Files : f # <<r, k>> => nvfd'[f] = nvfd[f]
    BY <2>1, <2>2, <1>7
  <2>4. nvfd' \in [Files -> 0..1]
    <3>1. nvfd' = [nvfd EXCEPT ![<<r, k>>] = 1]
      BY <2>1, <2>2
    <3>2. nvfd \in [Files -> 0..1] /\ 1 \in 0..1
      BY <2>1
    <3> QED BY <3>1, <3>2
  <2> QED BY <2>3, <2>4, <1>3, <1>12 DEF VfdInv
<1>15. /\ LenInv'
       /\ len'[<<r, k>>] = IF len[<<r, k>>] = -1 THEN 0 ELSE len[<<r, k>>]
       /\ \A f \in Files : f # <<r, k>> => len'[f] = len[f]
  BY <1>3, <1>7, <1>8, <1>12, OpenKeepsLen
<1>16. FdInv'
  <2>1. damaged' \in SUBSET Relations
    BY <1>1, <1>3 DEF FdInv
  <2> QED BY <2>1, <1>3, <1>7, <1>8, OpenKeepsFd
<1>17. PoolInv'
  BY <1>1, <1>3, PoolStays
<1>18. Len(Chain') = k + 1
  BY <1>0, <1>1, <1>2, <1>10 DEF Chain
<1>19. CallInv'
  <2>1. pc' = "count" => at' \in 1..(k + 1) /\ at' \in Nat
    BY <1>2, <1>4, <1>5
  <2> QED BY <1>0, <1>1, <1>2, <1>3, <1>4, <1>18, <2>1 DEF CallInv, Steps, Transfers
<1>20. RestInv'
  BY <1>2, <1>4, EmptySeq DEF RestInv
<1>21. ExtendInv'
  <2>1. ASSUME call.op = "extend", OnlyLast(r)'
        PROVE  RELSEG_SIZE > 1 /\ len'[<<r, MaxSeg>>] + BLCKSZ < Full
    <3>1. OnlyLast(r) => RELSEG_SIZE > 1 /\ len[<<r, MaxSeg>>] + BLCKSZ < Full
      BY <2>1, <1>0, <1>3 DEF ExtendInv
    <3> QED BY <2>1, <3>1, <1>3, <1>4, <1>7, <1>15, OpenKeepsRoom
  <2>2. OnlyLast(call.r)' <=> OnlyLast(r)'
    BY <1>0, <1>2 DEF OnlyLast
  <2>3. ASSUME pc' = "count", NEW j \in 0..(at' - 2) PROVE len'[<<r, j>>] = Full
    <3>1. pc = "countopen" /\ j \in 0..(at - 1) /\ j # k /\ j \in Segs
      BY <2>3, <1>2, <1>4, <1>5, <1>7, Sizes DEF Segs
    <3>2. len[<<r, j>>] = Full
      BY <3>1, <1>0, <1>3 DEF ExtendInv
    <3>3. <<r, j>> \in Files /\ <<r, j>> # <<r, k>>
      BY <3>1, <1>4 DEF Files
    <3> QED BY <3>2, <3>3, <1>15
  <2>4. pc' # "countopen" /\ ~(pc' \in {"seg", "extend"} /\ call'.op = "extend")
    BY <1>2, <1>6
  <2> QED BY <1>0, <1>2, <2>1, <2>2, <2>3, <2>4 DEF ExtendInv
<1> QED BY <1>11, <1>14, <1>15, <1>16, <1>17, <1>19, <1>20, <1>21 DEF MdInv

\* md_fd_get_seg arrives at the segment of the block.
LEMMA GetSegKeeps ==
  ASSUME MdInv, md_fd_get_seg
  PROVE  MdInv'
<1>1. /\ pc = "seg" /\ call.b \div RELSEG_SIZE < Len(Chain)
      /\ pc' = call.op /\ at' = call.b \div RELSEG_SIZE + 1 /\ call' = call /\ rest' = rest
      /\ UNCHANGED poolVars /\ UNCHANGED relVars /\ inuse' = inuse /\ CurFd' = CurFd
      /\ len' = len /\ nvfd' = nvfd /\ closed' = closed /\ lost' = lost
      /\ dirty' = dirty /\ unsynced' = unsynced /\ damaged' = damaged
      /\ chain' = chain /\ rd_fd' = rd_fd
  BY DEF md_fd_get_seg, Goto, fileVars, poolVars, relVars
<1>2. /\ PoolInv /\ RelInv /\ CallInv /\ RestInv /\ LenInv /\ ExtendInv /\ FdInv /\ VfdInv
  BY DEF MdInv
<1>3. call.op \in Transfers /\ call.b \in Nat /\ call.r \in Relations /\ rd_fd[call.r] # -1
  BY <1>1, <1>2 DEF CallInv, Steps
<1>4. call.b \div RELSEG_SIZE \in Nat /\ Len(Chain) \in Nat
  BY <1>2, <1>3, Sizes, DivNat, EntryFacts DEF Chain
<1>5. \A f \in Files : Reached(f)' <=> Reached(f)
  BY <1>1, ReachedStays
<1>6. PoolInv' /\ RelInv' /\ LenInv' /\ VfdInv'
  BY <1>1, <1>2, <1>5, PoolStays, RelStays, LenStays, VfdStays
<1>7. Chain' = Chain
  BY <1>1 DEF Chain
<1>8. CallInv'
  <2>1. at' \in 1..Len(Chain) /\ at' \in Nat
    BY <1>1, <1>4
  <2> QED BY <1>1, <1>2, <1>3, <1>7, <2>1 DEF CallInv, Steps, Transfers
<1>9. RestInv'
  BY <1>1, <1>2, <1>3 DEF RestInv, Transfers
<1>10. ExtendInv'
  <2>1. OnlyLast(call.r)' <=> OnlyLast(call.r)
    BY <1>1 DEF OnlyLast
  <2> QED BY <1>1, <1>2, <1>3, <1>7, <2>1 DEF ExtendInv, Transfers
<1>11. FdInv'
  BY <1>1, <1>2 DEF FdInv
<1> QED BY <1>6, <1>8, <1>9, <1>10, <1>11 DEF MdInv

-----------------------------------------------------------------------------
(* Transfers.                                                              *)

\* md_read, which counts when it has read part of block 0.
LEMMA ReadKeeps ==
  ASSUME MdInv, md_read
  PROVE  MdInv'
<1>1. /\ pc = "read" /\ closed' = closed \ {Cur} /\ lost' = lost \ {Cur}
      /\ (\E v : Return(v)) \/ Goto("count", 1)
      /\ len' = len /\ nvfd' = nvfd /\ dirty' = dirty /\ unsynced' = unsynced
      /\ UNCHANGED poolVars /\ UNCHANGED relVars /\ damaged' = damaged
      /\ inuse' = inuse /\ chain' = chain /\ rd_fd' = rd_fd /\ CurFd' = CurFd
  BY DEF md_read, poolVars, relVars
<1>2. /\ PoolInv /\ RelInv /\ CallInv /\ RestInv /\ LenInv /\ ExtendInv /\ FdInv /\ VfdInv
  BY DEF MdInv
<1>3. FdInv'
  BY <1>1, <1>2 DEF FdInv
<1>4. rest = <<>> /\ \A f \in Files : Has(rest, f) => OnChain(f)
  BY <1>1, <1>2, NothingOnHand
<1>5. ASSUME NEW v, Return(v) PROVE MdInv'
  BY <1>1, <1>3, <1>4, <1>5, ReturnStays
<1>6. CASE Goto("count", 1)
  <2>1. pc' = "count" /\ at' = 1 /\ call' = call /\ rest' = rest
    BY <1>6 DEF Goto
  <2>2. \A f \in Files : Reached(f)' <=> Reached(f)
    BY <1>1, <2>1, ReachedStays
  <2>3. PoolInv' /\ RelInv' /\ LenInv' /\ VfdInv'
    BY <1>1, <1>2, <2>2, PoolStays, RelStays, LenStays, VfdStays
  <2>4. Chain' = Chain
    BY <1>1, <2>1 DEF Chain
  <2>5. call.op = "read" /\ call.r \in Relations /\ rd_fd[call.r] # -1 /\ Len(Chain) \in 1..(MaxSeg + 1)
    BY <1>1, <1>2, AtSegment DEF CallInv, Transfers
  <2>6. CallInv'
    <3>1. 1 \in 1..Len(Chain)
      BY <2>5, Sizes
    <3> QED BY <1>1, <1>2, <2>1, <2>4, <2>5, <3>1 DEF CallInv, Steps, Transfers
  <2>7. RestInv'
    BY <1>4, <2>1, EmptySeq DEF RestInv
  <2>8. ExtendInv'
    BY <2>1, <2>5 DEF ExtendInv
  <2> QED BY <1>3, <2>3, <2>6, <2>7, <2>8 DEF MdInv
<1> QED BY <1>1, <1>5, <1>6

\* md_write and md_flush.
LEMMA WriteKeeps ==
  ASSUME MdInv, md_write
  PROVE  MdInv'
<1>1. /\ pc \in {"write", "flush"} /\ closed' = closed \ {Cur} /\ lost' = lost \ {Cur}
      /\ unsynced' \in {unsynced, unsynced \cup {Cur}}
      /\ \E v : Return(v)
      /\ len' = len /\ nvfd' = nvfd /\ dirty' = dirty /\ damaged' = damaged
      /\ UNCHANGED poolVars /\ UNCHANGED relVars
  BY DEF md_write
<1>2. Cur \in Files
  BY <1>1, AtSegment DEF Transfers
<1>3. FdInv'
  BY <1>1, <1>2 DEF MdInv, FdInv
<1>4. \A f \in Files : Has(rest, f) => OnChain(f)
  BY <1>1, NothingOnHand DEF MdInv
<1> QED BY <1>1, <1>3, <1>4, ReturnStays

\* A transfer for which the file cannot be reopened.
LEMMA TransferFailsKeeps ==
  ASSUME MdInv, TransferFails
  PROVE  MdInv'
<1>1. /\ pc \in {"read", "write", "flush"} /\ Cur \in closed /\ lost' = lost \cup {Cur}
      /\ Return(0)
      /\ len' = len /\ nvfd' = nvfd /\ dirty' = dirty /\ damaged' = damaged
      /\ closed' = closed /\ unsynced' = unsynced
      /\ UNCHANGED poolVars /\ UNCHANGED relVars
  BY DEF TransferFails, AccessFails
<1>2. FdInv'
  BY <1>1 DEF MdInv, FdInv
<1>3. \A f \in Files : Has(rest, f) => OnChain(f)
  BY <1>1, NothingOnHand DEF MdInv
<1> QED BY <1>1, <1>2, <1>3, ReturnStays

\* md_mark_dirty.
LEMMA MarkKeeps ==
  ASSUME MdInv, md_mark_dirty
  PROVE  MdInv'
<1>1. /\ pc = "mark" /\ dirty' = dirty \cup {Cur} /\ Return(1)
      /\ len' = len /\ nvfd' = nvfd /\ lost' = lost /\ damaged' = damaged
      /\ closed' = closed /\ unsynced' = unsynced
      /\ UNCHANGED poolVars /\ UNCHANGED relVars
  BY DEF md_mark_dirty
<1>2. Cur \in Files
  BY <1>1, AtSegment DEF Transfers
<1>3. FdInv'
  BY <1>1, <1>2 DEF MdInv, FdInv
<1>4. \A f \in Files : Has(rest, f) => OnChain(f)
  BY <1>1, NothingOnHand DEF MdInv
<1> QED BY <1>1, <1>3, <1>4, ReturnStays

\* The seek to the end of md_extend fails.
LEMMA ExtendFailsKeeps ==
  ASSUME MdInv, md_extend_fails
  PROVE  MdInv'
<1>1. /\ pc = "extend" /\ Cur \in closed /\ lost' = lost \cup {Cur}
      /\ Return(0)
      /\ len' = len /\ nvfd' = nvfd /\ dirty' = dirty /\ damaged' = damaged
      /\ closed' = closed /\ unsynced' = unsynced
      /\ UNCHANGED poolVars /\ UNCHANGED relVars
  BY DEF md_extend_fails, AccessFails
<1>2. FdInv'
  BY <1>1 DEF MdInv, FdInv
<1>3. \A f \in Files : Has(rest, f) => OnChain(f)
  BY <1>1, NothingOnHand DEF MdInv
<1> QED BY <1>1, <1>2, <1>3, ReturnStays

\* md_extend writes a block, or part of one, to the first segment that is not
\* full: a segment whose count has failed could not be written.
LEMMA ExtendKeeps ==
  ASSUME MdInv, md_extend
  PROVE  MdInv'
<1>1. /\ pc = "extend" /\ closed' = closed \ {Cur} /\ lost' = lost \ {Cur}
      /\ Accessed(Cur)
      /\ unsynced' \in {unsynced, unsynced \cup {Cur}}
      /\ \E v : Return(v)
      /\ nvfd' = nvfd /\ dirty' = dirty /\ damaged' = damaged
      /\ UNCHANGED poolVars /\ UNCHANGED relVars
  BY DEF md_extend
<1>2. /\ call.r \in Relations /\ at \in 1..Len(Chain) /\ Len(Chain) \in 1..(MaxSeg + 1)
      /\ Cur = <<call.r, at - 1>> /\ Cur \in Files /\ len[Cur] \in 0..Full
  BY <1>1, AtSegment DEF Transfers
<1>3. FdInv'
  BY <1>1, <1>2 DEF MdInv, FdInv
<1>4. \A f \in Files : Has(rest, f) => OnChain(f)
  BY <1>1, NothingOnHand DEF MdInv
<1>5. /\ LenInv /\ call.op = "extend"
      /\ \A k \in 0..(at - 2) : len[<<call.r, k>>] = Full
      /\ len[Cur] < Full \/ Cur \in closed \cap lost
  <2>1. PICK t : t = call.b \div RELSEG_SIZE
    OBVIOUS
  <2>2. LenInv /\ call.op = "extend"
    BY <1>1 DEF MdInv, CallInv, Transfers
  <2>3. /\ t \in 0..(Len(Chain) - 1) /\ at = t + 1
        /\ \A k \in 0..(t - 1) : len[<<call.r, k>>] = Full
        /\ len[<<call.r, t>>] < Full \/ <<call.r, t>> \in closed \cap lost
    BY <1>1, <2>1, <2>2 DEF MdInv, ExtendInv
  <2>4. t = at - 1 /\ t - 1 = at - 2
    BY <1>2, <2>3
  <2> QED BY <1>2, <2>2, <2>3, <2>4
<1>6. len[Cur] < Full
  BY <1>1, <1>5 DEF Accessed
<1>7. PICK l \in Nat : l = len[Cur] /\ l < Full
  BY <1>2, <1>6, Sizes
<1>8. PICK pos : pos = l - (l % BLCKSZ)
  OBVIOUS
<1>9. pos \in Nat /\ pos <= l /\ pos + BLCKSZ <= Full
  <2>1. PICK q : q = l \div BLCKSZ
    OBVIOUS
  <2>2. q \in Nat /\ q * BLCKSZ \in Nat /\ pos = q * BLCKSZ /\ l % BLCKSZ \in Nat
    <3>1. BLCKSZ \in Nat \ {0}
      BY Sizes
    <3>2. q \in Nat
      BY <2>1, <3>1, DivNat
    <3>3. l % BLCKSZ \in 0..(BLCKSZ - 1) /\ l = q * BLCKSZ + (l % BLCKSZ)
      BY <2>1, <3>1, DivMod
    <3>4. q * BLCKSZ \in Nat
      BY <3>1, <3>2
    <3>5. pos = q * BLCKSZ
      <4>1. \A m, p \in Nat : l = p + m => l - m = p
        OBVIOUS
      <4>2. l % BLCKSZ \in Nat
        BY <3>1, <3>3
      <4> QED BY <4>1, <4>2, <1>8, <3>3, <3>4
    <3> QED BY <3>1, <3>2, <3>3, <3>4, <3>5
  <2>3. q * BLCKSZ < RELSEG_SIZE * BLCKSZ
    BY <1>7, <1>8, <2>2, Sizes DEF Full
  <2>4. q < RELSEG_SIZE
    BY <2>2, <2>3, Sizes, MulLess
  <2>5. (q + 1) * BLCKSZ <= RELSEG_SIZE * BLCKSZ
    BY <2>2, <2>4, Sizes, MulMono
  <2>6. (q + 1) * BLCKSZ = q * BLCKSZ + BLCKSZ
    BY <2>2, Sizes, MulNext
  <2> QED BY <1>8, <2>2, <2>5, <2>6, Sizes DEF Full
<1>10. at - 1 = MaxSeg => RELSEG_SIZE > 1 /\ l + BLCKSZ < Full
  <2> SUFFICES ASSUME at - 1 = MaxSeg PROVE RELSEG_SIZE > 1 /\ l + BLCKSZ < Full
    OBVIOUS
  <2>1. \A k \in Segs : k # MaxSeg => k \in 0..(at - 2)
    BY <1>2, Sizes DEF Segs
  <2>2. OnlyLast(call.r)
    BY <2>1, <1>5, Sizes DEF OnlyLast
  <2> QED BY <2>2, <1>2, <1>5, <1>7 DEF MdInv, ExtendInv
<1>11. \/ len' = len
       \/ \E v \in 0..Full : len' = [len EXCEPT ![Cur] = v] /\ (at - 1 = MaxSeg => v < Full)
  <2>1. \/ len' = len
        \/ len' = [len EXCEPT ![Cur] = pos + BLCKSZ]
        \/ BLCKSZ > 1 /\ len' = [len EXCEPT ![Cur] = pos]
        \/ BLCKSZ > 1 /\ len' = [len EXCEPT ![Cur] = IF l > pos THEN l ELSE pos + 1]
    BY <1>7, <1>8 DEF md_extend
  <2>2. pos + BLCKSZ \in 0..Full /\ (at - 1 = MaxSeg => pos + BLCKSZ < Full)
    BY <1>7, <1>9, <1>10, Sizes
  <2>3. pos \in 0..Full /\ pos < Full
    BY <1>7, <1>9, Sizes
  <2>4. BLCKSZ > 1 => LET v == IF l > pos THEN l ELSE pos + 1 IN v \in 0..Full /\ v < Full
    BY <1>7, <1>9, Sizes
  <2> QED BY <2>1, <2>2, <2>3, <2>4
<1>12. \A f \in Files : Reached(f)' <=> Reached(f)
  BY <1>1, <1>4, ReachedStays DEF Return
<1>13. LenInv'
  <2>1. CASE len' = len
    BY <2>1, <1>5, <1>12, LenStays
  <2>2. CASE \E v \in 0..Full : len' = [len EXCEPT ![Cur] = v] /\ (at - 1 = MaxSeg => v < Full)
    <3>1. PICK v \in 0..Full : len' = [len EXCEPT ![Cur] = v] /\ (at - 1 = MaxSeg => v < Full)
      BY <2>2
    <3>2. Cur[2] = at - 1
      BY <1>2
    <3> QED BY <3>1, <3>2, <1>2, <1>5, <1>12, LenChanges
  <2> QED BY <2>1, <2>2, <1>11
<1> QED BY <1>1, <1>3, <1>4, <1>13, ReturnKeeps

-----------------------------------------------------------------------------
(* Truncation.                                                             *)

\* Where md_truncate is in its loop.
LEMMA InTruncate ==
  ASSUME MdInv, pc = "truncate", rest # <<>>
  PROVE  /\ call.r \in Relations /\ rd_fd[call.r] # -1 /\ ~Closing(call.r)
         /\ at \in Nat /\ at >= 1 /\ call.b \in Nat /\ prior_blocks \in Nat
         /\ Len(rest) \in Nat /\ Len(rest) >= 1 /\ at + Len(rest) <= MaxSeg + 2
         /\ Head(rest) = <<call.r, at - 1>> /\ Head(rest) \in Files /\ at - 1 \in Segs
         /\ Tail(rest) \in Seq(Files) /\ Len(Tail(rest)) = Len(rest) - 1
         /\ \A i \in 1..Len(Tail(rest)) : Tail(rest)[i] = <<call.r, at + i - 1>>
         /\ \A f \in Files : Has(Tail(rest), f) <=> Has(rest, f) /\ f # Head(rest)
         /\ Len(Chain) \in 1..(MaxSeg + 1)
         /\ \A k \in Nat : OnChain(<<call.r, k>>) <=> k < Len(Chain)
         /\ \A k \in Nat : Has(rest, <<call.r, k>>) <=> k >= at - 1 /\ k < at - 1 + Len(rest)
         /\ \A f \in Files : Has(rest, f) => f[1] = call.r
<1>1. /\ call.r \in Relations /\ rd_fd[call.r] # -1 /\ ~Closing(call.r)
      /\ at \in Nat /\ at >= 1 /\ call.b \in Nat /\ rest \in Seq(Files)
      /\ at + Len(rest) <= MaxSeg + 2
      /\ \A i \in 1..Len(rest) : rest[i] = <<call.r, at + i - 2>>
  BY DEF MdInv, CallInv, RestInv, Steps, Closing
<1>2. prior_blocks \in Nat
  <2>1. at - 1 \in Nat /\ RELSEG_SIZE \in Nat
    BY <1>1, Sizes
  <2> QED BY <2>1 DEF prior_blocks
<1>3. /\ Len(rest) \in Nat /\ Len(rest) >= 1 /\ Head(rest) = rest[1] /\ Head(rest) \in Files
      /\ Tail(rest) \in Seq(Files) /\ Len(Tail(rest)) = Len(rest) - 1
      /\ \A i \in 1..Len(Tail(rest)) : i + 1 \in 1..Len(rest) /\ Tail(rest)[i] = rest[i + 1]
  BY <1>1, TailAt, LenProperties
<1>4. Head(rest) = <<call.r, at - 1>> /\ at - 1 \in Segs
  <2>1. 1 \in 1..Len(rest) /\ at + 1 - 2 = at - 1
    BY <1>1, <1>3
  <2>2. Head(rest) = <<call.r, at - 1>>
    BY <1>1, <1>3, <2>1
  <2> QED BY <2>2, <1>3 DEF Files
<1>5. ASSUME NEW i \in 1..Len(Tail(rest)) PROVE Tail(rest)[i] = <<call.r, at + i - 1>>
  <2>1. at + (i + 1) - 2 = at + i - 1
    BY <1>1, <1>3
  <2> QED BY <2>1, <1>1, <1>3
<1>6. \A f \in Files : Has(Tail(rest), f) <=> Has(rest, f) /\ f # Head(rest)
  <2>1. ASSUME NEW i \in 1..Len(rest), NEW j \in 1..Len(rest), rest[i] = rest[j] PROVE i = j
    <3>1. <<call.r, at + i - 2>> = <<call.r, at + j - 2>>
      BY <2>1, <1>1
    <3>2. at + i - 2 = at + j - 2
      BY <3>1
    <3> QED BY <3>2, <1>1, <1>3
  <2> QED BY <2>1, <1>1, HasTail
<1>7. /\ Len(Chain) \in 1..(MaxSeg + 1)
      /\ \A k \in Nat : OnChain(<<call.r, k>>) <=> k < Len(Chain)
  BY <1>1, EntryFacts DEF MdInv, Chain, OnChain
<1>8. ASSUME NEW k \in Nat
      PROVE  Has(rest, <<call.r, k>>) <=> k >= at - 1 /\ k < at - 1 + Len(rest)
  <2>1. ASSUME Has(rest, <<call.r, k>>) PROVE k >= at - 1 /\ k < at - 1 + Len(rest)
    <3>1. PICK i \in 1..Len(rest) : rest[i] = <<call.r, k>>
      BY <2>1 DEF Has
    <3>2. <<call.r, at + i - 2>> = <<call.r, k>>
      BY <3>1, <1>1
    <3>3. at + i - 2 = k
      BY <3>2
    <3> QED BY <3>3, <1>1, <1>3
  <2>2. ASSUME k >= at - 1, k < at - 1 + Len(rest) PROVE Has(rest, <<call.r, k>>)
    <3>1. k - at + 2 \in 1..Len(rest) /\ at + (k - at + 2) - 2 = k
      BY <2>2, <1>1, <1>3
    <3> QED BY <3>1, <1>1 DEF Has
  <2> QED BY <2>1, <2>2
<1>9. \A f \in Files : Has(rest, f) => f[1] = call.r
  BY <1>1 DEF Has
<1> QED BY <1>1, <1>2, <1>3, <1>4, <1>5, <1>6, <1>7, <1>8, <1>9

\* The loop of md_truncate goes on: what follows from the position.
LEMMA TruncateGoesOn ==
  ASSUME MdInv, pc = "truncate", rest # <<>>, pc' = pc, call' = call, at' = at + 1,
         rest' = Tail(rest), rd_fd' = rd_fd, UNCHANGED poolVars,
         Chain' = chain'[rd_fd[call.r]],
         prior_blocks' <= call.b => Len(Chain') = at + Len(Tail(rest)),
         prior_blocks' > call.b => Len(Chain') < at + 1
  PROVE  CallInv' /\ RestInv' /\ ExtendInv'
<1>1. /\ call.r \in Relations /\ rd_fd[call.r] # -1
      /\ at \in Nat /\ at >= 1 /\ call.b \in Nat
      /\ Len(rest) \in Nat /\ Len(rest) >= 1 /\ at + Len(rest) <= MaxSeg + 2
      /\ Tail(rest) \in Seq(Files) /\ Len(Tail(rest)) = Len(rest) - 1
      /\ \A i \in 1..Len(Tail(rest)) : Tail(rest)[i] = <<call.r, at + i - 1>>
  BY InTruncate
<1>2. call.op = "truncate" /\ at' \in Nat
  BY <1>1 DEF MdInv, CallInv
<1>3. CallInv'
  BY <1>1, <1>2 DEF MdInv, CallInv, Steps, Transfers
<1>4. RestInv'
  <2>1. at' >= 1 /\ at' + Len(rest') <= MaxSeg + 2 /\ at' - 1 = at
    BY <1>1, Sizes
  <2>2. \A i \in 1..Len(rest') : rest'[i] = <<call'.r, at' + i - 2>>
    <3>1. \A i \in 1..Len(Tail(rest)) : (at + 1) + i - 2 = at + i - 1
      BY <1>1
    <3> QED BY <1>1, <3>1
  <2> QED BY <1>1, <2>1, <2>2 DEF RestInv
<1>5. ExtendInv'
  BY <1>2 DEF ExtendInv
<1> QED BY <1>3, <1>4, <1>5

\* The next multiple of a segment.
LEMMA PriorNext ==
  ASSUME at \in Nat, at' = at + 1
  PROVE  prior_blocks' = prior_blocks + RELSEG_SIZE /\ prior_blocks \in Int
<1>1. at - 1 \in Int /\ (at - 1) + 1 = at' - 1 /\ RELSEG_SIZE \in Nat
  BY Sizes
<1>2. ((at - 1) + 1) * RELSEG_SIZE = (at - 1) * RELSEG_SIZE + RELSEG_SIZE
      /\ (at - 1) * RELSEG_SIZE \in Int
  BY <1>1, MulNext
<1> QED BY <1>1, <1>2 DEF prior_blocks

\* A segment behind the new end goes: it is on no chain any more.
LEMMA DropKeeps ==
  ASSUME MdInv, DropSegment
  PROVE  MdInv'
<1>0. PICK f : f = Head(rest)
  OBVIOUS
<1>1. /\ pc = "truncate" /\ rest # <<>> /\ prior_blocks > call.b
      /\ ForgetVfd(f)
      /\ at' = at + 1 /\ rest' = Tail(rest)
      /\ UNCHANGED poolVars /\ UNCHANGED relVars /\ pc' = pc /\ call' = call
      /\ inuse' = inuse /\ chain' = chain /\ rd_fd' = rd_fd
  BY <1>0 DEF DropSegment, poolVars, relVars
<1>2. /\ \/ len' = [len EXCEPT ![f] = -1]
         \/ len' = [len EXCEPT ![f] = 0]
         \/ len' = len
      /\ unsynced' = unsynced \/ unsynced' = unsynced \ {f}
      /\ damaged' = damaged \/ damaged' = damaged \cup {call.r}
  BY <1>0 DEF DropSegment
<1>3. PoolInv /\ RelInv /\ LenInv /\ FdInv /\ VfdInv /\ RestInv
  BY DEF MdInv
<1>4. /\ call.r \in Relations /\ at \in Nat /\ at >= 1 /\ call.b \in Nat
      /\ f = <<call.r, at - 1>> /\ f \in Files
      /\ \A g \in Files : Has(Tail(rest), g) <=> Has(rest, g) /\ g # f
      /\ Len(Chain) \in Nat
      /\ \A k \in Nat : OnChain(<<call.r, k>>) <=> k < Len(Chain)
      /\ \A k \in Nat : Has(rest, <<call.r, k>>) <=> k >= at - 1 /\ k < at - 1 + Len(rest)
      /\ prior_blocks \in Nat /\ Len(rest) \in Nat /\ Len(rest) >= 1
  BY <1>0, <1>1, InTruncate, Sizes, SMTT(60)
<1>5. Len(Chain) < at
  BY <1>1, <1>3 DEF RestInv
<1>6. ~OnChain(f) /\ Has(rest, f)
  <2>1. at - 1 \in Nat /\ ~(at - 1 < Len(Chain)) /\ at - 1 < at - 1 + Len(rest)
    BY <1>4, <1>5
  <2> QED BY <2>1, <1>4
<1>7. \A g : OnChain(g)' <=> OnChain(g)
  BY <1>1 DEF OnChain
<1>8. \A g \in Files : Reached(g)' <=> Reached(g) /\ g # f
  BY <1>1, <1>4, <1>6, <1>7 DEF Reached
<1>9. VfdInv'
  <2>1. nvfd' = [nvfd EXCEPT ![f] = @ - 1] /\ nvfd \in [Files -> 0..1]
    BY <1>1, <1>3 DEF ForgetVfd, VfdInv
  <2>2. nvfd[f] = 1
    BY <1>3, <1>4, <1>6 DEF VfdInv, Reached
  <2>3. nvfd' = [nvfd EXCEPT ![f] = 0]
    BY <2>1, <2>2
  <2>4. nvfd'[f] = 0 /\ \A g \in Files : g # f => nvfd'[g] = nvfd[g]
    BY <2>1, <2>3, <1>4
  <2>5. nvfd' \in [Files -> 0..1]
    <3>1. nvfd \in [Files -> 0..1] /\ 0 \in 0..1
      BY <2>1
    <3> QED BY <3>1, <2>3
  <2> QED BY <2>4, <2>5, <1>3, <1>8 DEF VfdInv
<1>10. LenInv'
  <2>1. len \in [Files -> -1..Full] /\ -1 \in -1..Full /\ 0 \in -1..Full /\ -1 < Full /\ 0 < Full
    BY <1>3, Sizes DEF LenInv
  <2>2. \A g \in Files : g # f => len'[g] = len[g]
    BY <1>2, <1>4, <2>1
  <2>3. len'[f] = len[f] \/ len'[f] \in {-1, 0}
    BY <1>2, <1>4, <2>1
  <2>4. len' \in [Files -> -1..Full]
    BY <1>2, <2>1
  <2>5. \A g \in Files : Reached(g)' => len'[g] # -1
    BY <1>3, <1>8, <2>2 DEF LenInv
  <2>6. ASSUME NEW q \in Relations PROVE len'[<<q, MaxSeg>>] < Full
    <3>1. <<q, MaxSeg>> \in Files /\ len[<<q, MaxSeg>>] < Full
      BY <1>3, Sizes DEF Files, Segs, LenInv
    <3> QED BY <3>1, <2>1, <2>2, <2>3
  <2> QED BY <2>4, <2>5, <2>6 DEF LenInv
<1>11. PoolInv' /\ RelInv'
  BY <1>1, <1>3, PoolStays, RelStays
<1>12. FdInv'
  BY <1>1, <1>2, <1>3, <1>4 DEF FdInv, ForgetVfd
<1>13. CallInv' /\ RestInv' /\ ExtendInv'
  <2>1. Chain' = Chain /\ Chain' = chain'[rd_fd[call.r]]
    BY <1>1 DEF Chain
  <2>2. prior_blocks' > call.b /\ prior_blocks' \in Int
    BY <1>1, <1>4, PriorNext, Sizes
  <2>3. Len(Chain') < at + 1
    BY <1>4, <1>5, <2>1
  <2>4. ~(prior_blocks' <= call.b)
    BY <2>2, <1>4
  <2> QED BY <1>1, <2>1, <2>3, <2>4, TruncateGoesOn
<1> QED BY <1>9, <1>10, <1>11, <1>12, <1>13 DEF MdInv

\* A segment that stays whole.
LEMMA KeepKeeps ==
  ASSUME MdInv, KeepSegment
  PROVE  MdInv'
<1>1. /\ pc = "truncate" /\ rest # <<>> /\ ~(prior_blocks > call.b)
      /\ ~(prior_blocks + RELSEG_SIZE > call.b)
      /\ at' = at + 1 /\ rest' = Tail(rest) /\ damaged' = damaged
      /\ UNCHANGED poolVars /\ UNCHANGED relVars /\ pc' = pc /\ call' = call
      /\ inuse' = inuse /\ chain' = chain /\ rd_fd' = rd_fd
      /\ len' = len /\ nvfd' = nvfd /\ closed' = closed /\ lost' = lost
      /\ dirty' = dirty /\ unsynced' = unsynced
  BY DEF KeepSegment, LastWanted, poolVars, relVars, fileVars
<1>2. PoolInv /\ RelInv /\ LenInv /\ FdInv /\ VfdInv /\ RestInv
  BY DEF MdInv
<1>3. /\ call.r \in Relations /\ at \in Nat /\ at >= 1 /\ call.b \in Nat /\ prior_blocks \in Nat
      /\ \A g \in Files : Has(Tail(rest), g) <=> Has(rest, g) /\ g # Head(rest)
      /\ Head(rest) = <<call.r, at - 1>>
      /\ Len(Chain) \in Nat /\ Len(rest) \in Nat /\ Len(rest) >= 1
      /\ Len(Tail(rest)) = Len(rest) - 1
      /\ \A k \in Nat : OnChain(<<call.r, k>>) <=> k < Len(Chain)
  BY <1>1, InTruncate, Sizes, SMTT(60)
<1>4. Len(Chain) = at - 1 + Len(rest)
  BY <1>1, <1>2, <1>3 DEF RestInv
<1>5. OnChain(Head(rest))
  <2>1. at - 1 \in Nat /\ at - 1 < Len(Chain)
    BY <1>3, <1>4
  <2> QED BY <2>1, <1>3
<1>6. \A g : OnChain(g)' <=> OnChain(g)
  BY <1>1 DEF OnChain
<1>7. \A g \in Files : Reached(g)' <=> Reached(g)
  BY <1>1, <1>3, <1>5, <1>6 DEF Reached
<1>8. PoolInv' /\ RelInv' /\ LenInv' /\ VfdInv'
  BY <1>1, <1>2, <1>7, PoolStays, RelStays, LenStays, VfdStays
<1>9. FdInv'
  BY <1>1, <1>2 DEF FdInv
<1>10. CallInv' /\ RestInv' /\ ExtendInv'
  <2>1. Chain' = Chain /\ Chain' = chain'[rd_fd[call.r]]
    BY <1>1 DEF Chain
  <2>2. prior_blocks' = prior_blocks + RELSEG_SIZE
    BY <1>1, <1>3, PriorNext
  <2>3. ~(prior_blocks' > call.b)
    BY <1>1, <2>2
  <2>4. Len(Chain') = at + Len(Tail(rest))
    BY <1>3, <1>4, <2>1
  <2> QED BY <1>1, <2>1, <2>3, <2>4, TruncateGoesOn
<1> QED BY <1>8, <1>9, <1>10 DEF MdInv

\* The last segment to keep is cut, and the chain ends with it; the segments
\* behind it are still in reach.
LEMMA CutKeeps ==
  ASSUME MdInv, CutSegment
  PROVE  MdInv'
<1>0. PICK r, g : r = call.r /\ g = Head(rest)
  OBVIOUS
<1>1. /\ pc = "truncate" /\ rest # <<>> /\ ~(prior_blocks > call.b)
      /\ prior_blocks + RELSEG_SIZE > call.b
      /\ TruncateReaches(g)
      /\ len' = [len EXCEPT ![g] = (call.b - prior_blocks) * BLCKSZ]
      /\ chain' = [chain EXCEPT ![rd_fd[r]] = SubSeq(chain[rd_fd[r]], 1, at)]
      /\ at' = at + 1 /\ rest' = Tail(rest) /\ damaged' = damaged
      /\ UNCHANGED poolVars /\ pc' = pc /\ call' = call
      /\ inuse' = inuse /\ rd_fd' = rd_fd /\ nvfd' = nvfd /\ lost' = lost
  BY <1>0 DEF CutSegment, LastWanted, poolVars
<1>2. PoolInv /\ RelInv /\ LenInv /\ FdInv /\ VfdInv /\ RestInv
  BY DEF MdInv
<1>3. /\ r \in Relations /\ rd_fd[r] # -1 /\ ~Closing(r)
      /\ at \in Nat /\ at >= 1 /\ call.b \in Nat /\ prior_blocks \in Nat
      /\ \A f \in Files : Has(Tail(rest), f) <=> Has(rest, f) /\ f # g
      /\ g = <<r, at - 1>> /\ g \in Files
      /\ Len(Chain) \in Nat /\ Len(rest) \in Nat /\ Len(rest) >= 1
      /\ Len(Tail(rest)) = Len(rest) - 1
      /\ \A k \in Nat : OnChain(<<r, k>>) <=> k < Len(Chain)
      /\ \A k \in Nat : Has(rest, <<r, k>>) <=> k >= at - 1 /\ k < at - 1 + Len(rest)
      /\ \A f \in Files : Has(rest, f) => f[1] = r
  BY <1>0, <1>1, InTruncate, Sizes, SMTT(60)
<1>4. Len(Chain) = at - 1 + Len(rest) /\ at <= Len(Chain) /\ at \in 1..Len(Chain)
  <2>1. Len(Chain) = at - 1 + Len(rest)
    BY <1>1, <1>2, <1>3 DEF RestInv
  <2> QED BY <2>1, <1>3
<1>5. /\ rd_fd[r] \in Entries /\ rd_fd[r] \in inuse /\ chain[rd_fd[r]] \in Seq(Files)
      /\ Chain = chain[rd_fd[r]]
  BY <1>0, <1>2, <1>3, EntryFacts DEF Chain
<1>6. /\ SubSeq(Chain, 1, at) \in Seq(Files) /\ Len(SubSeq(Chain, 1, at)) = at
      /\ \A i \in 1..at : SubSeq(Chain, 1, at)[i] = Chain[i]
  BY <1>3, <1>4, <1>5, SubSeqProperties
<1>7. /\ \A x \in Entries : x # rd_fd[r] => chain'[x] = chain[x]
      /\ chain'[rd_fd[r]] = SubSeq(Chain, 1, at)
      /\ chain' \in [Entries -> Seq(Files)]
  <2>1. chain \in [Entries -> Seq(Files)]
    BY <1>2 DEF RelInv
  <2> QED BY <2>1, <1>1, <1>5, <1>6
<1>8. \A i \in 1..at : chain'[rd_fd[r]][i] = <<r, i - 1>>
  <2>1. \A i \in 1..Len(Chain) : Chain[i] = <<r, i - 1>>
    BY <1>2, <1>3, <1>5 DEF RelInv, EntryInv, Segments
  <2>2. \A i \in 1..at : i \in 1..Len(Chain)
    BY <1>3, <1>4
  <2> QED BY <2>1, <2>2, <1>6, <1>7
<1>9. RelInv'
  <2>1. EntryInv(r)'
    <3>1. \A i \in 1..at : chain'[rd_fd[r]][i][1] = r
      BY <1>8
    <3>2. ASSUME NEW i \in 1..at, NEW j \in 1..at, chain'[rd_fd[r]][i] = chain'[rd_fd[r]][j]
          PROVE  i = j
      <4>1. <<r, i - 1>> = <<r, j - 1>>
        BY <3>2, <1>8
      <4> QED BY <4>1
    <3>3. chain'[rd_fd[r]] # <<>> /\ Len(chain'[rd_fd[r]]) = at
      <4>1. Len(chain'[rd_fd[r]]) = at
        BY <1>6, <1>7
      <4>2. at # 0
        BY <1>3
      <4> QED BY <4>1, <4>2, EmptySeq
    <3>4. at <= MaxSeg + 1
      <4>1. Len(Chain) \in 1..(MaxSeg + 1)
        BY <1>2, <1>3, <1>5, EntryFacts
      <4> QED BY <4>1, <1>3, <1>4, Sizes
    <3> QED BY <1>1, <1>8, <3>1, <3>2, <3>3, <3>4, ZenonT(60) DEF EntryInv, Segments
  <2>2. ASSUME NEW q \in Relations, q # r, rd_fd[q] # -1 PROVE EntryInv(q)'
    <3>1. rd_fd[q] \in Entries /\ rd_fd[q] # rd_fd[r]
      BY <2>2, <1>2, <1>3, EntryFacts DEF RelInv
    <3>2. chain'[rd_fd'[q]] = chain[rd_fd[q]]
      BY <3>1, <1>1, <1>7
    <3>3. ~Closing(q)
      BY <1>1 DEF Closing
    <3> QED BY <2>2, <3>2, <3>3, <1>2 DEF EntryInv, RelInv
  <2>3. \A x \in Entries \ inuse' : chain'[x] = <<>>
    BY <1>1, <1>2, <1>5, <1>7 DEF RelInv
  <2> QED BY <1>1, <1>2, <1>7, <2>1, <2>2, <2>3 DEF RelInv
<1>10. ASSUME NEW f \in Files PROVE Reached(f)' <=> Reached(f)
  <2>1. f[1] \in Relations /\ f = <<f[1], f[2]>> /\ f[2] \in Nat
    BY Sizes DEF Files, Segs
  <2>2. CASE f[1] # r
    <3>1. rd_fd[f[1]] # -1 => rd_fd[f[1]] \in Entries /\ rd_fd[f[1]] # rd_fd[r]
      BY <2>1, <2>2, <1>2, <1>3, EntryFacts DEF RelInv
    <3>2. ~Has(rest, f) /\ ~Has(rest', f)
      BY <2>2, <1>1, <1>3
    <3>3. OnChain(f)' <=> OnChain(f)
      BY <3>1, <1>1, <1>7 DEF OnChain
    <3> QED BY <3>2, <3>3 DEF Reached
  <2>3. CASE f[1] = r
    <3>1. PICK k \in Nat : f = <<r, k>>
      BY <2>1, <2>3
    <3>2. OnChain(f)' <=> k < at
      <4>1. Segments(chain'[rd_fd[r]], r) /\ Len(chain'[rd_fd[r]]) = at
        BY <1>6, <1>7, <1>8 DEF Segments
      <4>2. Has(chain'[rd_fd[r]], <<r, k>>) <=> k < at
        BY <4>1, <1>3, HasSegments
      <4> QED BY <4>2, <3>1, <1>1, <1>3 DEF OnChain
    <3>3. OnChain(f) <=> k < Len(Chain)
      BY <3>1, <1>3
    <3>4. Has(rest, f) <=> k >= at - 1 /\ k < at - 1 + Len(rest)
      BY <3>1, <1>3
    <3>5. Has(rest', f) <=> Has(rest, f) /\ k # at - 1
      BY <3>1, <1>1, <1>3
    <3> QED BY <3>2, <3>3, <3>4, <3>5, <1>3, <1>4 DEF Reached
  <2> QED BY <2>2, <2>3
<1>11. LenInv'
  <2>1. PICK d : d = call.b - prior_blocks
    OBVIOUS
  <2>2. d \in Nat /\ d + 1 <= RELSEG_SIZE /\ d \in Int /\ RELSEG_SIZE \in Int /\ BLCKSZ \in Nat \ {0}
    BY <2>1, <1>1, <1>3, Sizes, SMTT(60)
  <2>3. (d + 1) * BLCKSZ <= RELSEG_SIZE * BLCKSZ
    BY <2>2, MulMono
  <2>4. (d + 1) * BLCKSZ = d * BLCKSZ + BLCKSZ /\ d * BLCKSZ \in Nat
    BY <2>2, MulNext
  <2>5. d * BLCKSZ \in 0..Full /\ d * BLCKSZ < Full
    BY <2>2, <2>3, <2>4, Sizes DEF Full
  <2>6. len' = [len EXCEPT ![g] = d * BLCKSZ]
    BY <2>1, <1>1
  <2> QED BY <2>5, <2>6, <1>2, <1>3, <1>10, LenChanges
<1>12. VfdInv'
  BY <1>1, <1>2, <1>10, VfdStays
<1>13. FdInv'
  <2>1. /\ g \in closed => g \notin lost
        /\ closed' = closed \ {g}
        /\ dirty' \subseteq dirty /\ unsynced' \subseteq unsynced
    BY <1>1 DEF TruncateReaches, Accessed
  <2> QED BY <2>1, <1>1, <1>2 DEF FdInv
<1>14. PoolInv'
  BY <1>1, <1>2, PoolStays
<1>15. CallInv' /\ RestInv' /\ ExtendInv'
  <2>1. Chain' = chain'[rd_fd[call.r]] /\ Len(Chain') = at
    BY <1>0, <1>1, <1>6, <1>7 DEF Chain
  <2>2. prior_blocks' = prior_blocks + RELSEG_SIZE /\ prior_blocks' \in Int
    BY <1>1, <1>3, PriorNext, Sizes
  <2>3. ~(prior_blocks' <= call.b)
    BY <1>1, <1>3, <2>2, Sizes
  <2>4. Len(Chain') < at + 1
    BY <1>3, <2>1
  <2> QED BY <1>1, <2>1, <2>3, <2>4, TruncateGoesOn
<1> QED BY <1>9, <1>11, <1>12, <1>13, <1>14, <1>15 DEF MdInv

\* The cut fails: nothing has been taken off the chain yet.
LEMMA CutFailsKeeps ==
  ASSUME MdInv, CutFails
  PROVE  MdInv'
<1>0. PICK g : g = Head(rest)
  OBVIOUS
<1>1. /\ pc = "truncate" /\ rest # <<>> /\ ~(prior_blocks > call.b)
      /\ \/ TruncateReaches(g)
         \/ UNCHANGED <<closed, dirty, unsynced>>
      /\ Return(-1) /\ len' = len /\ nvfd' = nvfd /\ lost' = lost /\ damaged' = damaged
      /\ UNCHANGED poolVars /\ UNCHANGED relVars
  BY <1>0 DEF CutFails
<1>2. FdInv'
  <2>1. \/ /\ g \in closed => g \notin lost
           /\ closed' = closed \ {g}
           /\ dirty' \subseteq dirty /\ unsynced' \subseteq unsynced
        \/ closed' = closed /\ dirty' = dirty /\ unsynced' = unsynced
    BY <1>1 DEF TruncateReaches, Accessed
  <2> QED BY <2>1, <1>1 DEF FdInv, MdInv
<1>3. ASSUME NEW f \in Files, Has(rest, f) PROVE OnChain(f)
  <2>1. PICK k \in Nat : f = <<call.r, k>>
    BY <1>1, <1>3, InTruncate, Sizes, SMTT(60) DEF Files, Segs
  <2>2. /\ at \in Nat /\ call.b \in Nat /\ prior_blocks \in Nat /\ Len(rest) \in Nat
        /\ k < at - 1 + Len(rest)
        /\ OnChain(<<call.r, k>>) <=> k < Len(Chain)
    BY <2>1, <1>1, <1>3, InTruncate
  <2>3. Len(Chain) = at - 1 + Len(rest)
    BY <1>1, <2>2 DEF MdInv, RestInv
  <2> QED BY <2>1, <2>2, <2>3
<1> QED BY <1>1, <1>2, <1>3, ReturnStays

\* The loop of md_truncate ends.
LEMMA TruncateKeeps ==
  ASSUME MdInv, md_truncate
  PROVE  MdInv'
<1>1. /\ pc = "truncate" /\ rest = <<>> /\ Return(call.b)
      /\ len' = len /\ nvfd' = nvfd /\ closed' = closed /\ lost' = lost
      /\ dirty' = dirty /\ unsynced' = unsynced /\ damaged' = damaged
      /\ UNCHANGED poolVars /\ UNCHANGED relVars
  BY DEF md_truncate, fileVars
<1>2. FdInv'
  BY <1>1 DEF MdInv, FdInv
<1>3. \A f \in Files : Has(rest, f) => OnChain(f)
  BY <1>1 DEF Has
<1> QED BY <1>1, <1>2, <1>3, ReturnStays

-----------------------------------------------------------------------------
(* Commit, close, unlink.                                                  *)

\* A step of md_commit.
LEMMA CommitKeeps ==
  ASSUME MdInv, md_commit
  PROVE  MdInv'
<1>1. /\ pc = "commit" /\ UNCHANGED poolVars /\ UNCHANGED relVars /\ damaged' = damaged
      /\ inuse' = inuse /\ chain' = chain /\ rd_fd' = rd_fd /\ CurFd' = CurFd
  BY DEF md_commit, poolVars, relVars
<1>2. PoolInv /\ RelInv /\ CallInv /\ RestInv /\ LenInv /\ ExtendInv /\ FdInv /\ VfdInv
  BY DEF MdInv
<1>3. /\ rest \in Seq(Files) /\ \A f \in Files : Has(rest, f) => OnChain(f)
      /\ at \in Nat /\ at <= CurFd /\ CurFd \in Nat /\ call.op # "extend"
  BY <1>1, <1>2, FreeListType DEF RestInv, CallInv
<1>4. \A f : OnChain(f)' <=> OnChain(f)
  BY <1>1 DEF OnChain
<1>5. ASSUME pc' = pc, call' = call, at' \in {at, at + 1}, at' <= CurFd, rest' \in Seq(Files),
             \A f \in Files : Has(rest', f) => OnChain(f),
             len' = len, nvfd' = nvfd, FdInv'
      PROVE  MdInv'
  <2>1. \A f \in Files : Reached(f)' <=> Reached(f)
    BY <1>3, <1>4, <1>5 DEF Reached
  <2>2. PoolInv' /\ RelInv' /\ LenInv' /\ VfdInv'
    BY <1>1, <1>2, <1>5, <2>1, PoolStays, RelStays, LenStays, VfdStays
  <2>3. at' \in Nat
    BY <1>3, <1>5
  <2>4. CallInv'
    BY <1>1, <1>2, <1>5, <2>3 DEF CallInv, Steps, Transfers
  <2>5. RestInv'
    BY <1>1, <1>4, <1>5 DEF RestInv
  <2>6. ExtendInv'
    BY <1>1, <1>3, <1>5 DEF ExtendInv
  <2> QED BY <1>5, <2>2, <2>4, <2>5, <2>6 DEF MdInv
<1>6. CASE rest = <<>> /\ at < CurFd
  <2>1. /\ rest' = IF at \in inuse THEN chain[at] ELSE <<>>
        /\ at' = at + 1 /\ pc' = pc /\ call' = call
        /\ len' = len /\ nvfd' = nvfd /\ closed' = closed /\ lost' = lost
        /\ dirty' = dirty /\ unsynced' = unsynced
    BY <1>3, <1>6 DEF md_commit, fileVars
  <2>2. rest' \in Seq(Files) /\ \A f \in Files : Has(rest', f) => OnChain(f)
    <3>1. CASE at \in inuse
      <4>1. PICK r \in Relations : rd_fd[r] = at /\ rd_fd[r] # -1
        BY <1>2, <3>1 DEF RelInv
      <4>2. chain[at] \in Seq(Files) /\ rest' = chain[at]
        BY <1>2, <2>1, <3>1, <4>1, EntryFacts
      <4>3. \A f \in Files : Has(chain[at], f) => f[1] = r
        BY <1>2, <4>1 DEF Has, RelInv, EntryInv
      <4> QED BY <4>1, <4>2, <4>3 DEF OnChain
    <3>2. CASE at \notin inuse
      BY <2>1, <3>2, EmptySeq DEF Has
    <3> QED BY <3>1, <3>2
  <2>3. at' <= CurFd
    BY <1>3, <1>6, <2>1
  <2>4. FdInv'
    BY <1>1, <1>2, <2>1 DEF FdInv
  <2> QED BY <1>5, <2>1, <2>2, <2>3, <2>4
<1>7. CASE rest = <<>> /\ ~(at < CurFd)
  <2>1. /\ Return(1)
        /\ len' = len /\ nvfd' = nvfd /\ closed' = closed /\ lost' = lost
        /\ dirty' = dirty /\ unsynced' = unsynced
    BY <1>7 DEF md_commit, fileVars
  <2>2. FdInv'
    BY <1>1, <1>2, <2>1 DEF FdInv
  <2> QED BY <1>1, <1>3, <2>1, <2>2, ReturnStays
<1>8. CASE rest # <<>>
  <2>1. PICK v \in {0, -1} :
          /\ file_sync(Head(rest), v)
          /\ IF v = 0 THEN rest' = Tail(rest) /\ UNCHANGED <<pc, call, at, answer>>
                      ELSE Return(0)
    BY <1>8 DEF md_commit
  <2>2. len' = len /\ nvfd' = nvfd /\ lost' = lost
    BY <1>8 DEF md_commit
  <2>3. FdInv'
    <3>1. PICK g : g = Head(rest)
      OBVIOUS
    <3>2. /\ closed' = closed \/ (closed' = closed \ {g} /\ (g \in closed => g \notin lost))
          /\ dirty' \subseteq dirty /\ unsynced' \subseteq unsynced
      BY <2>1, <3>1 DEF file_sync, Accessed
    <3> QED BY <1>1, <1>2, <2>2, <3>2 DEF FdInv
  <2>4. CASE v = 0
    <3>1. rest' = Tail(rest) /\ pc' = pc /\ call' = call /\ at' = at
      BY <2>1, <2>4
    <3>2. /\ Tail(rest) \in Seq(Files)
          /\ \A i \in 1..Len(Tail(rest)) : i + 1 \in 1..Len(rest) /\ Tail(rest)[i] = rest[i + 1]
      BY <1>3, <1>8, TailAt
    <3>3. \A f \in Files : Has(Tail(rest), f) => Has(rest, f)
      BY <3>2 DEF Has
    <3>4. \A f \in Files : Has(rest', f) => OnChain(f)
      BY <3>1, <3>3, <1>3
    <3> QED BY <1>3, <1>5, <2>2, <2>3, <3>1, <3>2, <3>4
  <2>5. CASE v = -1
    <3>1. Return(0)
      BY <2>1, <2>5
    <3> QED BY <1>1, <1>3, <2>2, <2>3, <3>1, ReturnStays
  <2> QED BY <2>1, <2>4, <2>5
<1> QED BY <1>6, <1>7, <1>8

\* md_close closes the first segment that is left.
LEMMA CloseSegmentKeeps ==
  ASSUME MdInv, md_close, Chain # <<>>
  PROVE  MdInv'
<1>0. PICK r, g : r = call.r /\ g = Head(chain[rd_fd[call.r]])
  OBVIOUS
<1>1. /\ pc = "close" /\ ForgetVfd(g)
      /\ unsynced' = unsynced \/ unsynced' = unsynced \ {g}
      /\ chain' = [chain EXCEPT ![rd_fd[r]] = Tail(chain[rd_fd[r]])]
      /\ UNCHANGED poolVars /\ inuse' = inuse /\ CurFd' = CurFd /\ rd_fd' = rd_fd
      /\ pc' = pc /\ call' = call /\ at' = at /\ rest' = rest
      /\ len' = len /\ damaged' = damaged
  BY <1>0 DEF md_close, poolVars, callVars, Chain
<1>2. PoolInv /\ RelInv /\ CallInv /\ RestInv /\ LenInv /\ FdInv /\ VfdInv
  BY DEF MdInv
<1>3. r \in Relations /\ rd_fd[r] # -1 /\ rest = <<>>
  BY <1>0, <1>1, <1>2 DEF CallInv, RestInv, Steps
<1>4. PICK c : c = chain[rd_fd[r]]
  OBVIOUS
<1>5. /\ rd_fd[r] \in Entries /\ rd_fd[r] \in inuse /\ c \in Seq(Files) /\ c # <<>>
      /\ g = Head(c)
  BY <1>0, <1>2, <1>3, <1>4, EntryFacts DEF Chain
<1>6. /\ \A i \in 1..Len(c) : c[i][1] = r
      /\ \A i, j \in 1..Len(c) : c[i] = c[j] => i = j
      /\ Len(c) <= MaxSeg + 1
  BY <1>2, <1>3, <1>4 DEF RelInv, EntryInv
<1>7. /\ g \in Files /\ Tail(c) \in Seq(Files) /\ Len(c) >= 1 /\ g = c[1] /\ Len(c) \in Nat
      /\ Len(Tail(c)) = Len(c) - 1
      /\ \A i \in 1..Len(Tail(c)) : i + 1 \in 1..Len(c) /\ Tail(c)[i] = c[i + 1]
  BY <1>5, TailAt, LenProperties
<1>8. \A f : Has(Tail(c), f) <=> Has(c, f) /\ f # g
  BY <1>5, <1>6, HasTail
<1>9. /\ \A x \in Entries : x # rd_fd[r] => chain'[x] = chain[x]
      /\ chain'[rd_fd[r]] = Tail(c)
      /\ chain' \in [Entries -> Seq(Files)]
  <2>1. chain \in [Entries -> Seq(Files)]
    BY <1>2 DEF RelInv
  <2> QED BY <2>1, <1>1, <1>4, <1>5, <1>7
<1>10. RelInv'
  <2>1. EntryInv(r)'
    <3>1. \A i \in 1..Len(Tail(c)) : Tail(c)[i][1] = r
      BY <1>6, <1>7
    <3>2. ASSUME NEW i \in 1..Len(Tail(c)), NEW j \in 1..Len(Tail(c)), Tail(c)[i] = Tail(c)[j]
          PROVE  i = j
      <4>1. i + 1 \in 1..Len(c) /\ j + 1 \in 1..Len(c) /\ c[i + 1] = c[j + 1]
        BY <3>2, <1>7
      <4>2. i + 1 = j + 1
        BY <4>1, <1>6
      <4> QED BY <4>2, <1>7
    <3>3. Closing(r)'
      BY <1>0, <1>1 DEF Closing
    <3>4. \A i, j \in 1..Len(Tail(c)) : Tail(c)[i] = Tail(c)[j] => i = j
      BY <3>2
    <3>5. Len(Tail(c)) <= MaxSeg + 1
      BY <1>6, <1>7, Sizes
    <3>6. chain'[rd_fd'[r]] = Tail(c)
      BY <1>1, <1>9
    <3> QED BY <3>1, <3>3, <3>4, <3>5, <3>6 DEF EntryInv
  <2>2. ASSUME NEW q \in Relations, q # r, rd_fd[q] # -1 PROVE EntryInv(q)'
    <3>1. rd_fd[q] \in Entries /\ rd_fd[q] # rd_fd[r]
      BY <2>2, <1>2, <1>3, EntryFacts DEF RelInv
    <3>2. chain'[rd_fd'[q]] = chain[rd_fd[q]]
      BY <3>1, <1>1, <1>9
    <3>3. ~Closing(q)
      BY <2>2, <1>0, <1>1 DEF Closing
    <3> QED BY <2>2, <3>2, <3>3, <1>2 DEF EntryInv, RelInv
  <2>3. \A x \in Entries \ inuse' : chain'[x] = <<>>
    BY <1>1, <1>2, <1>5, <1>9 DEF RelInv
  <2> QED BY <1>1, <1>2, <1>9, <2>1, <2>2, <2>3 DEF RelInv
<1>11. ASSUME NEW f \in Files PROVE Reached(f)' <=> Reached(f) /\ f # g
  <2>1. f[1] \in Relations
    BY DEF Files
  <2>2. ~Has(rest, f) /\ ~Has(rest', f)
    BY <1>1, <1>3 DEF Has
  <2>3. CASE f[1] = r
    BY <2>2, <2>3, <1>1, <1>3, <1>4, <1>8, <1>9 DEF Reached, OnChain
  <2>4. CASE f[1] # r
    <3>1. rd_fd[f[1]] # -1 => rd_fd[f[1]] \in Entries /\ rd_fd[f[1]] # rd_fd[r]
      BY <2>1, <2>4, <1>2, <1>3, EntryFacts DEF RelInv
    <3>2. g[1] = r
      BY <1>6, <1>7
    <3> QED BY <2>2, <2>4, <3>1, <3>2, <1>1, <1>9 DEF Reached, OnChain
  <2> QED BY <2>3, <2>4
<1>12. Reached(g)
  <2>1. 1 \in 1..Len(c) /\ g[1] = r
    BY <1>6, <1>7
  <2>2. Has(c, g)
    BY <2>1, <1>7 DEF Has
  <2> QED BY <2>1, <2>2, <1>3, <1>4 DEF Reached, OnChain
<1>13. VfdInv'
  <2>1. nvfd' = [nvfd EXCEPT ![g] = @ - 1] /\ nvfd \in [Files -> 0..1]
    BY <1>1, <1>2 DEF ForgetVfd, VfdInv
  <2>2. nvfd[g] = 1
    BY <1>2, <1>7, <1>12 DEF VfdInv
  <2>3. nvfd' = [nvfd EXCEPT ![g] = 0]
    BY <2>1, <2>2
  <2>4. nvfd'[g] = 0 /\ \A f \in Files : f # g => nvfd'[f] = nvfd[f]
    BY <2>1, <2>3, <1>7
  <2>5. nvfd' \in [Files -> 0..1]
    <3>1. nvfd \in [Files -> 0..1] /\ 0 \in 0..1
      BY <2>1
    <3> QED BY <3>1, <2>3
  <2> QED BY <2>4, <2>5, <1>2, <1>11 DEF VfdInv
<1>14. LenInv'
  BY <1>1, <1>2, <1>11, LenStays
<1>15. PoolInv'
  BY <1>1, <1>2, PoolStays
<1>16. FdInv'
  BY <1>1, <1>2, <1>7 DEF FdInv, ForgetVfd
<1>17. CallInv'
  BY <1>1, <1>2 DEF CallInv, Transfers
<1>18. RestInv'
  BY <1>1, <1>2 DEF RestInv
<1>19. ExtendInv'
  <2>1. OnlyLast(call.r)' <=> OnlyLast(call.r)
    BY <1>1 DEF OnlyLast
  <2> QED BY <1>1, <2>1 DEF ExtendInv, MdInv
<1> QED BY <1>10, <1>13, <1>14, <1>15, <1>16, <1>17, <1>18, <1>19 DEF MdInv

\* md_close frees the entry.
LEMMA CloseEntryKeeps ==
  ASSUME MdInv, md_close, Chain = <<>>
  PROVE  MdInv'
<1>0. PICK r, e : r = call.r /\ e = rd_fd[call.r]
  OBVIOUS
<1>1. /\ pc = "close" /\ fdvec_free(e) /\ rd_fd' = [rd_fd EXCEPT ![r] = -1]
      /\ nvfd' = nvfd /\ closed' = closed /\ lost' = lost /\ dirty' = dirty
      /\ unsynced' = unsynced /\ chain' = chain /\ len' = len /\ damaged' = damaged
      /\ pc' = "idle" /\ call' = None /\ at' = 0 /\ rest' = <<>>
      /\ inuse' = inuse \ {e}
  BY <1>0 DEF md_close, Return, fdvec_free
<1>2. PoolInv /\ RelInv /\ CallInv /\ RestInv /\ LenInv /\ FdInv /\ VfdInv
  BY DEF MdInv
<1>3. r \in Relations /\ rd_fd[r] # -1 /\ rest = <<>> /\ e = rd_fd[r] /\ chain[e] = <<>>
  BY <1>0, <1>1, <1>2 DEF CallInv, RestInv, Steps, Chain
<1>4. e \in Entries /\ e \in inuse
  BY <1>2, <1>3, EntryFacts
<1>5. PoolInv'
  BY <1>1, <1>2, <1>4, FreeKeepsPool
<1>6. /\ rd_fd \in [Relations -> -1..(MaxFds - 1)] /\ -1 \in -1..(MaxFds - 1)
      /\ inuse = {rd_fd[q] : q \in Relations} \ {-1}
      /\ \A p, q \in Relations : rd_fd[p] = rd_fd[q] /\ rd_fd[p] # -1 => p = q
  BY <1>2, MdAssumption DEF RelInv
<1>7. rd_fd'[r] = -1 /\ \A q \in Relations : q # r => rd_fd'[q] = rd_fd[q] /\ rd_fd[q] # e
  BY <1>1, <1>3, <1>6
<1>8. RelInv'
  <2>1. rd_fd' \in [Relations -> -1..(MaxFds - 1)]
    BY <1>1, <1>6
  <2>2. inuse' = {rd_fd'[q] : q \in Relations} \ {-1}
    BY <1>1, <1>3, <1>6, <1>7
  <2>3. ASSUME NEW p \in Relations, NEW q \in Relations, rd_fd'[p] = rd_fd'[q], rd_fd'[p] # -1
        PROVE  p = q
    BY <2>3, <1>6, <1>7
  <2>4. \A x \in Entries \ inuse' : chain'[x] = <<>>
    BY <1>1, <1>2, <1>3 DEF RelInv
  <2>5. ASSUME NEW q \in Relations, rd_fd'[q] # -1 PROVE EntryInv(q)'
    <3>1. q # r /\ rd_fd'[q] = rd_fd[q]
      BY <2>5, <1>7
    <3>2. ~Closing(q)
      BY <3>1, <1>0 DEF Closing
    <3>3. EntryInv(q) /\ chain'[rd_fd'[q]] = chain[rd_fd[q]]
      BY <2>5, <3>1, <1>1, <1>2 DEF RelInv
    <3> QED BY <3>2, <3>3 DEF EntryInv
  <2> QED BY <1>1, <1>2, <2>1, <2>2, <2>3, <2>4, <2>5 DEF RelInv
<1>9. ASSUME NEW f \in Files PROVE Reached(f)' <=> Reached(f)
  <2>1. f[1] \in Relations
    BY DEF Files
  <2>2. ~Has(rest, f) /\ ~Has(rest', f) /\ ~Has(<<>>, f)
    BY <1>1, <1>3 DEF Has
  <2>3. CASE f[1] = r
    BY <2>2, <2>3, <1>3, <1>7 DEF Reached, OnChain
  <2>4. CASE f[1] # r
    BY <2>1, <2>2, <2>4, <1>1, <1>7 DEF Reached, OnChain
  <2> QED BY <2>3, <2>4
<1>10. LenInv' /\ VfdInv'
  BY <1>1, <1>2, <1>9, LenStays, VfdStays
<1>11. FdInv'
  BY <1>1, <1>2 DEF FdInv
<1>12. CallInv'
  BY <1>1 DEF CallInv, None, Steps, Transfers
<1>13. RestInv'
  BY <1>1, EmptySeq DEF RestInv
<1>14. ExtendInv'
  BY <1>1 DEF ExtendInv, None
<1> QED BY <1>5, <1>8, <1>10, <1>11, <1>12, <1>13, <1>14 DEF MdInv

\* md_unlink removes files that no chain leads to.
LEMMA UnlinkKeeps ==
  ASSUME MdInv, md_unlink
  PROVE  MdInv'
<1>1. /\ pc = "unlink" /\ UNCHANGED poolVars /\ UNCHANGED relVars
      /\ nvfd' = nvfd /\ closed' = closed /\ lost' = lost /\ dirty' = dirty
      /\ inuse' = inuse /\ chain' = chain /\ rd_fd' = rd_fd /\ CurFd' = CurFd
      /\ \/ /\ at \in Segs /\ len' = [len EXCEPT ![<<call.r, at>>] = -1]
            /\ Goto("unlink", at + 1)
         \/ len' = len /\ \E v : Return(v)
      /\ unsynced' \subseteq unsynced
      /\ damaged' = damaged \/ damaged' = damaged \cup {call.r}
  BY DEF md_unlink, poolVars, relVars
<1>2. PoolInv /\ RelInv /\ CallInv /\ RestInv /\ LenInv /\ ExtendInv /\ FdInv /\ VfdInv
  BY DEF MdInv
<1>3. call.r \in Relations /\ rd_fd[call.r] = -1 /\ rest = <<>>
  BY <1>1, <1>2 DEF CallInv, RestInv
<1>4. FdInv'
  BY <1>1, <1>2, <1>3 DEF FdInv
<1>5. CASE len' = len /\ \E v : Return(v)
  <2>1. \A f \in Files : Has(rest, f) => OnChain(f)
    BY <1>3 DEF Has
  <2> QED BY <1>1, <1>4, <1>5, <2>1, ReturnStays
<1>6. CASE at \in Segs /\ len' = [len EXCEPT ![<<call.r, at>>] = -1] /\ Goto("unlink", at + 1)
  <2>1. pc' = "unlink" /\ at' = at + 1 /\ call' = call /\ rest' = rest
    BY <1>6 DEF Goto
  <2>2. \A f \in Files : Reached(f)' <=> Reached(f)
    BY <1>1, <2>1, ReachedStays
  <2>3. PoolInv' /\ RelInv' /\ VfdInv'
    BY <1>1, <1>2, <2>2, PoolStays, RelStays, VfdStays
  <2>4. LenInv'
    <3>1. PICK g : g = <<call.r, at>>
      OBVIOUS
    <3>2. g \in Files /\ ~Reached(g)
      BY <1>3, <1>6, <3>1 DEF Files, Reached, OnChain, Has
    <3>3. len \in [Files -> -1..Full] /\ -1 \in -1..Full /\ -1 < Full
      BY <1>2, Sizes DEF LenInv
    <3>4. len' = [len EXCEPT ![g] = -1]
      BY <1>6, <3>1
    <3>5. len'[g] = -1 /\ \A f \in Files : f # g => len'[f] = len[f]
      BY <3>2, <3>3, <3>4
    <3>6. len' \in [Files -> -1..Full]
      BY <3>3, <3>4
    <3>7. \A f \in Files : Reached(f)' => len'[f] # -1
      BY <1>2, <2>2, <3>2, <3>5 DEF LenInv
    <3>8. ASSUME NEW q \in Relations PROVE len'[<<q, MaxSeg>>] < Full
      <4>1. <<q, MaxSeg>> \in Files /\ len[<<q, MaxSeg>>] < Full
        BY <1>2, Sizes DEF Files, Segs, LenInv
      <4> QED BY <4>1, <3>3, <3>5
    <3> QED BY <3>6, <3>7, <3>8 DEF LenInv
  <2>5. CallInv'
    <3>1. at' \in Nat /\ at' <= MaxSeg + 1
      BY <1>6, <2>1, Sizes DEF Segs
    <3> QED BY <1>1, <1>2, <2>1, <3>1 DEF CallInv, Steps, Transfers
  <2>6. RestInv'
    BY <1>3, <2>1, EmptySeq DEF RestInv
  <2>7. ExtendInv'
    <3>1. call.op # "extend"
      BY <1>1, <1>2 DEF CallInv
    <3> QED BY <2>1, <3>1 DEF ExtendInv
  <2> QED BY <1>4, <2>3, <2>4, <2>5, <2>6, <2>7 DEF MdInv
<1> QED BY <1>1, <1>5, <1>6

-----------------------------------------------------------------------------
(* The theorems.                                                           *)

\* Every step keeps the invariant.
LEMMA NextKeepsMdInv == MdInv /\ [Next]_vars => MdInv'
<1> SUFFICES ASSUME MdInv, [Next]_vars PROVE MdInv'
  OBVIOUS
<1>1. ASSUME NEW r \in Relations, md_create(r) PROVE MdInv'
  BY <1>1, CreateKeeps
<1>2. ASSUME NEW r \in Relations, BeginUnlink(r) PROVE MdInv'
  BY <1>2, BeginUnlinkKeeps
<1>3. ASSUME NEW r \in Relations, OtherExtends(r) PROVE MdInv'
  BY <1>3, OtherExtendsKeeps
<1>4. ASSUME NEW r \in Relations, NEW b \in 0..((MaxSeg + 1) * RELSEG_SIZE - 1),
             \/ \E op \in Ops : Begin(op, r, b)
             \/ \E op \in {"blind", "blindsync"} : md_blind_wrt(op, r, b)
             \/ md_blind_mark_dirty(r, b)
      PROVE  MdInv'
  BY <1>4, BeginKeeps, BlindKeeps, BlindMarkKeeps
<1>5. CASE md_open
  BY <1>5, OpenKeeps
<1>6. CASE md_open_fails \/ md_fd_open_seg_fails \/ SeekAborts \/ Die
  <2>1. Crash /\ len' = len /\ damaged' \in {damaged, damaged \cup {call.r}}
        /\ (damaged' = damaged \/ pc \in {"truncate", "unlink"})
    BY <1>6 DEF md_open_fails, md_fd_open_seg_fails, SeekAborts, Die
  <2>2. pc \in {"truncate", "unlink"} => call.r \in Relations
    BY DEF MdInv, CallInv
  <2>3. damaged' \in SUBSET Relations
    BY <2>1, <2>2 DEF MdInv, FdInv
  <2> QED BY <2>1, <2>3, CrashKeeps
<1>7. CASE md_nblocks \/ md_nblocks_aux_fails
  BY <1>7, NblocksKeeps, NblocksFailsKeeps
<1>8. CASE md_fd_open_seg \/ md_fd_get_seg
  BY <1>8, OpenSegKeeps, GetSegKeeps
<1>9. CASE md_read \/ md_write \/ TransferFails \/ md_mark_dirty
  BY <1>9, ReadKeeps, WriteKeeps, TransferFailsKeeps, MarkKeeps
<1>10. CASE md_extend \/ md_extend_fails
  BY <1>10, ExtendKeeps, ExtendFailsKeeps
<1>11. CASE DropSegment \/ CutSegment \/ CutFails \/ KeepSegment \/ md_truncate
  BY <1>11, DropKeeps, CutKeeps, CutFailsKeeps, KeepKeeps, TruncateKeeps
<1>12. CASE BeginCommit \/ md_commit
  BY <1>12, BeginCommitKeeps, CommitKeeps
<1>13. CASE md_close
  BY <1>13, CloseSegmentKeeps, CloseEntryKeeps
<1>14. CASE md_unlink \/ md_abort
  BY <1>14, UnlinkKeeps, AbortKeeps
<1>15. ASSUME NEW f \in Files, Evict(f) PROVE MdInv'
  BY <1>15, EvictKeeps
<1>16. CASE UNCHANGED vars
  <2>1. /\ len' = len /\ nvfd' = nvfd /\ closed' = closed /\ lost' = lost /\ dirty' = dirty
        /\ unsynced' = unsynced /\ Nfds' = Nfds /\ CurFd' = CurFd /\ MdFree' = MdFree
        /\ next_free' = next_free /\ inuse' = inuse /\ chain' = chain /\ rd_fd' = rd_fd
        /\ pc' = pc /\ call' = call /\ at' = at /\ rest' = rest /\ damaged' = damaged
        /\ UNCHANGED poolVars /\ UNCHANGED relVars
    BY <1>16 DEF vars, fileVars, poolVars, relVars, callVars
  <2>2. /\ PoolInv /\ RelInv /\ CallInv /\ RestInv /\ LenInv /\ ExtendInv /\ FdInv /\ VfdInv
    BY DEF MdInv
  <2>3. /\ \A f : OnChain(f)' <=> OnChain(f)
        /\ \A f \in Files : Reached(f)' <=> Reached(f)
    BY <2>1, ReachedStays
  <2>4. PoolInv' /\ RelInv' /\ LenInv' /\ VfdInv'
    BY <2>1, <2>2, <2>3, PoolStays, RelStays, LenStays, VfdStays
  <2>5. Chain' = Chain /\ prior_blocks' = prior_blocks
    BY <2>1 DEF Chain, prior_blocks
  <2>6. CallInv' /\ FdInv'
    BY <2>1, <2>2, <2>5 DEF CallInv, FdInv
  <2>7. RestInv'
    BY <2>1, <2>2, <2>3, <2>5 DEF RestInv
  <2>8. ExtendInv'
    <3>1. OnlyLast(call.r)' <=> OnlyLast(call.r)
      BY <2>1 DEF OnlyLast
    <3> QED BY <2>1, <2>2, <2>5, <3>1 DEF ExtendInv
  <2> QED BY <2>4, <2>6, <2>7, <2>8 DEF MdInv
<1> QED
  BY <1>1, <1>2, <1>3, <1>4, <1>5, <1>6, <1>7, <1>8, <1>9, <1>10, <1>11, <1>12,
     <1>13, <1>14, <1>15, <1>16 DEF Next

\* MdInv is an invariant of the storage manager.
THEOREM MdInvariant == Spec => []MdInv
BY InitIsMdInv, NextKeepsMdInv, PTL DEF Spec

\* Every entry in use is that of one open relation, and leads to all its
\* segments.
LEMMA InvEntriesOwned == MdInv => EntriesOwned
<1> SUFFICES ASSUME MdInv PROVE EntriesOwned
  OBVIOUS
<1>1. RelInv
  BY DEF MdInv
<1>2. ASSUME NEW r \in Relations, rd_fd[r] # -1, ~(pc = "close" /\ call.r = r)
      PROVE  chain[rd_fd[r]] # <<>> /\ Segments(chain[rd_fd[r]], r)
  BY <1>1, <1>2 DEF RelInv, EntryInv, Closing
<1> QED BY <1>1, <1>2 DEF RelInv, EntriesOwned, Segments

\* The free list of fdvec_alloc and fdvec_free holds exactly the free
\* entries, each once, and every other entry is that of one open relation,
\* for any number of relations and any growth of the table.
THEOREM PoolIsExact == Spec => []PoolExact
<1>1. MdInv => PoolExact
  <2> SUFFICES ASSUME MdInv PROVE PoolExact
    OBVIOUS
  <2>1. PoolInv
    BY DEF MdInv
  <2>2. IsChain(0, {e + 1 : e \in (0..(Nfds - 1)) \ inuse}, FreeLinks)
    BY <2>1 DEF PoolInv, FreeElements
  <2>3. /\ MdFree >= CurFd => MdFree = CurFd
        /\ MdFree = -1 => CurFd = Nfds
    BY <2>1, FreeListType DEF PoolInv, MayFollow
  <2> QED BY <2>2, <2>3, InvEntriesOwned DEF PoolExact, FdvecFreeList
<1> QED BY <1>1, MdInvariant, PTL

\* What md.c has open is what its chains lead to, and every chain is that of
\* one open relation, for any sequence of calls, failed system calls and
\* crashes.
THEOREM ChainsAreOwned == Spec => []ChainsOwned
<1>1. MdInv => ChainsOwned
  <2> SUFFICES ASSUME MdInv PROVE ChainsOwned
    OBVIOUS
  <2>1. PoolInv /\ RelInv /\ CallInv /\ RestInv /\ LenInv /\ FdInv /\ VfdInv
    BY DEF MdInv
  <2>2. VfdsOwned
    BY <2>1, ReachedIsReachable DEF VfdInv, VfdsOwned
  <2>3. /\ Nfds \in Nat /\ CurFd \in Nat /\ MaxFds \in Nat /\ Nfds <= MaxFds
        /\ CurFd <= Nfds
    BY <2>1, FreeListType DEF PoolInv
  <2>4. inuse \in SUBSET Entries
    BY <2>1, <2>3 DEF PoolInv, Entries
  <2>5. ASSUME NEW e \in Entries PROVE Len(chain[e]) <= MaxSeg + 1
    <3>1. CASE e \notin inuse
      <4>1. chain[e] = <<>>
        BY <2>1, <3>1 DEF RelInv
      <4> QED BY <4>1, Sizes
    <3>2. CASE e \in inuse
      <4>1. PICK r \in Relations : rd_fd[r] = e /\ rd_fd[r] # -1
        BY <2>1, <3>2 DEF RelInv
      <4> QED BY <4>1, <2>1 DEF RelInv, EntryInv
    <3> QED BY <3>1, <3>2
  <2>6. at \in 0..(MaxFds + MaxSeg + 2)
    <3>1. at \in Nat /\ MaxSeg \in Nat
      BY <2>1, Sizes DEF CallInv
    <3>2. CASE pc \in {"count", "countopen"} \cup Transfers
      <4>1. at \in 1..Len(Chain) /\ Len(Chain) \in 1..(MaxSeg + 1)
        BY <3>2, AtSegment
      <4> QED BY <4>1, <3>1, <2>3
    <3>3. CASE pc \in {"idle", "open", "seg", "close", "unlink", "commit"}
      <4>1. at = 0 \/ at = 1 \/ at <= MaxSeg + 1 \/ at <= CurFd
        BY <3>3, <2>1 DEF CallInv
      <4> QED BY <4>1, <3>1, <2>3
    <3>4. CASE pc = "truncate"
      <4>1. at + Len(rest) <= MaxSeg + 2 /\ Len(rest) \in Nat
        BY <3>4, <2>1, LenProperties DEF RestInv
      <4> QED BY <4>1, <3>1, <2>3
    <3> QED BY <3>2, <3>3, <3>4, <2>1 DEF CallInv, Steps, Transfers
  <2>7. TypeOK
    BY <2>1, <2>4, <2>5, <2>6 DEF TypeOK, LenInv, VfdInv, FdInv, PoolInv, RelInv
  <2> QED BY <2>2, <2>7, InvEntriesOwned DEF ChainsOwned
<1> QED BY <1>1, MdInvariant, PTL

-----------------------------------------------------------------------------
(* Sums over finite sets, as MapThenSumSet takes them.                     *)

\* Function g has the sum of f over every subset of S, the elements taken in
\* the order in which MapThenSumSet takes them.
Chosen(s) == CHOOSE x \in s : TRUE

SumStep(g, f, s) == IF s = {} THEN 0 ELSE f[Chosen(s)] + g[s \ {Chosen(s)}]

Sums(g, f, S) ==
  /\ g \in [SUBSET S -> Nat]
  /\ \A s \in SUBSET S : g[s] = SumStep(g, f, s)

\* Among some subsets of a finite set there is one from which no element can
\* be taken: what stands in for an induction on finite sets.
LEMMA SmallestSet ==
  ASSUME NEW S, IsFiniteSet(S), NEW B, B \subseteq SUBSET S, B # {}
  PROVE  \E s \in B : \A x \in s : s \ {x} \notin B
<1>1. \A s \in SUBSET S : IsFiniteSet(s) /\ Cardinality(s) \in Nat
  BY FS_Subset, FS_CardinalityType
<1> DEFINE C == {Cardinality(s) : s \in B}
<1>2. C \subseteq Nat /\ C # {}
  BY <1>1
<1>3. PICK c \in C : \A y \in C : c <= y
  <2> HIDE DEF C
  <2> QED BY <1>2, Smallest
<1>4. PICK s \in B : Cardinality(s) = c
  BY <1>3
<1>5. ASSUME NEW x \in s PROVE s \ {x} \notin B
  <2>1. Cardinality(s \ {x}) = Cardinality(s) - 1
    BY <1>1, <1>4, FS_RemoveElement
  <2>2. \A m \in Nat : ~(m <= m - 1)
    OBVIOUS
  <2>3. ~(c <= Cardinality(s \ {x}))
    BY <1>1, <1>4, <2>1, <2>2
  <2> QED BY <1>3, <2>3
<1> QED BY <1>4, <1>5

\* There are such sums.
LEMMA SumsDefined ==
  ASSUME NEW S, IsFiniteSet(S), NEW f \in [S -> Nat]
  PROVE  \E g : Sums(g, f, S)
<1> DEFINE NoMore(n) == {s \in SUBSET S : Cardinality(s) <= n}
           Summed(n) == \E g \in [SUBSET S -> Nat] : \A s \in NoMore(n) : g[s] = SumStep(g, f, s)
           Bad == {n \in Nat : ~Summed(n)}
<1>1. \A s \in SUBSET S : IsFiniteSet(s) /\ Cardinality(s) \in Nat
  BY FS_Subset, FS_CardinalityType
<1>2. \A s \in SUBSET S : s # {} => /\ Chosen(s) \in s /\ s \ {Chosen(s)} \in SUBSET S
                                    /\ Cardinality(s \ {Chosen(s)}) = Cardinality(s) - 1
  <2> SUFFICES ASSUME NEW s \in SUBSET S, s # {}
               PROVE  /\ Chosen(s) \in s /\ s \ {Chosen(s)} \in SUBSET S
                      /\ Cardinality(s \ {Chosen(s)}) = Cardinality(s) - 1
    OBVIOUS
  <2>1. Chosen(s) \in s
    BY DEF Chosen
  <2> QED BY <2>1, <1>1, FS_RemoveElement
<1>3. \A g \in [SUBSET S -> Nat] : \A s \in SUBSET S : SumStep(g, f, s) \in Nat
  <2> SUFFICES ASSUME NEW g \in [SUBSET S -> Nat], NEW s \in SUBSET S
               PROVE  SumStep(g, f, s) \in Nat
    OBVIOUS
  <2>1. CASE s = {}
    BY <2>1 DEF SumStep
  <2>2. CASE s # {}
    <3>1. f[Chosen(s)] \in Nat /\ g[s \ {Chosen(s)}] \in Nat
      BY <1>2, <2>2
    <3> QED BY <2>2, <3>1 DEF SumStep
  <2> QED BY <2>1, <2>2
<1>4. Summed(0)
  <2> DEFINE g == [s \in SUBSET S |-> 0]
  <2>1. ASSUME NEW s \in NoMore(0) PROVE g[s] = SumStep(g, f, s)
    <3>1. Cardinality(s) = 0
      BY <1>1
    <3>2. s = {}
      BY <1>1, <3>1, FS_EmptySet
    <3> QED BY <3>2 DEF SumStep
  <2> QED BY <2>1
<1>5. ASSUME NEW n \in Nat, Summed(n) PROVE Summed(n + 1)
  <2>1. PICK g \in [SUBSET S -> Nat] : \A s \in NoMore(n) : g[s] = SumStep(g, f, s)
    BY <1>5
  <2> DEFINE h == [s \in SUBSET S |-> SumStep(g, f, s)]
  <2>2. h \in [SUBSET S -> Nat] /\ \A s \in NoMore(n) : h[s] = g[s]
    BY <1>3, <2>1
  <2>3. ASSUME NEW s \in NoMore(n + 1) PROVE h[s] = SumStep(h, f, s)
    <3>1. CASE s = {}
      BY <3>1 DEF SumStep
    <3>2. CASE s # {}
      <4>1. \A c \in Nat : c <= n + 1 => c - 1 <= n
        OBVIOUS
      <4>2. s \ {Chosen(s)} \in NoMore(n)
        BY <1>1, <1>2, <3>2, <4>1
      <4> QED BY <2>2, <4>2 DEF SumStep
    <3> QED BY <3>1, <3>2
  <2> QED BY <2>2, <2>3
<1>6. Bad = {}
  <2> SUFFICES ASSUME Bad # {} PROVE FALSE
    OBVIOUS
  <2>1. PICK n \in Bad : \A y \in Bad : n <= y
    <3> HIDE DEF Bad
    <3>1. Bad \subseteq Nat
      BY DEF Bad
    <3> QED BY <3>1, Smallest
  <2> HIDE DEF Summed
  <2>2. n # 0
    BY <1>4, <2>1
  <2>3. n \in Nat /\ n - 1 \in Nat /\ ~(n <= n - 1) /\ (n - 1) + 1 = n
    BY <2>2
  <2>4. Summed(n - 1)
    BY <2>1, <2>3
  <2> QED BY <1>5, <2>1, <2>3, <2>4
<1>7. PICK g \in [SUBSET S -> Nat] : \A s \in NoMore(Cardinality(S)) : g[s] = SumStep(g, f, s)
  <2>1. Cardinality(S) \in Nat
    BY <1>1
  <2>2. Summed(Cardinality(S))
    <3> HIDE DEF Summed
    <3> QED BY <1>6, <2>1
  <2> QED BY <2>2
<1>8. SUBSET S \subseteq NoMore(Cardinality(S))
  BY FS_Subset
<1> QED BY <1>7, <1>8 DEF Sums

\* One term changes by d: so does the sum.
LEMMA SumChanges ==
  ASSUME NEW S, IsFiniteSet(S), NEW f \in [S -> Nat], NEW h \in [S -> Nat],
         NEW g, NEW k, Sums(g, f, S), Sums(k, h, S),
         NEW x \in S, NEW d \in Int, h[x] = f[x] + d, \A y \in S : y # x => h[y] = f[y]
  PROVE  k[S] = g[S] + d
<1> DEFINE Due(s) == IF x \in s THEN d ELSE 0
           Bad == {s \in SUBSET S : k[s] # g[s] + Due(s)}
<1>1. Bad = {}
  <2> SUFFICES ASSUME Bad # {} PROVE FALSE
    OBVIOUS
  <2>1. PICK s \in Bad : \A y \in s : s \ {y} \notin Bad
    <3> HIDE DEF Bad
    <3>1. Bad \subseteq SUBSET S
      BY DEF Bad
    <3> QED BY <3>1, SmallestSet
  <2>2. /\ s \in SUBSET S /\ g[s] = SumStep(g, f, s) /\ k[s] = SumStep(k, h, s)
    BY DEF Sums
  <2>3. CASE s = {}
    BY <2>1, <2>2, <2>3 DEF SumStep
  <2>4. CASE s # {}
    <3>1. PICK c : c = Chosen(s)
      OBVIOUS
    <3>2. PICK t : t = s \ {c}
      OBVIOUS
    <3>3. c \in s /\ c \in S /\ t \in SUBSET S
      BY <2>2, <2>4, <3>1, <3>2 DEF Chosen
    <3>4. k[t] = g[t] + Due(t)
      BY <2>1, <3>2, <3>3
    <3>5. g[s] = f[c] + g[t] /\ k[s] = h[c] + k[t]
      BY <2>2, <2>4, <3>1, <3>2 DEF SumStep
    <3>6. g[t] \in Nat /\ f[c] \in Nat
      BY <3>3 DEF Sums
    <3>7. k[s] = g[s] + Due(s)
      <4>1. CASE c = x
        <5>1. Due(t) = 0 /\ Due(s) = d /\ h[c] = f[c] + d
          BY <3>2, <3>3, <4>1
        <5>2. \A a, b \in Nat : (a + d) + (b + 0) = (a + b) + d
          OBVIOUS
        <5> HIDE DEF Due
        <5> QED BY <5>1, <5>2, <3>4, <3>5, <3>6
      <4>2. CASE c # x
        <5>1. Due(t) = Due(s) /\ h[c] = f[c] /\ Due(s) \in Int
          BY <3>2, <3>3, <4>2
        <5>2. \A a, b \in Nat : \A e \in Int : a + (b + e) = (a + b) + e
          OBVIOUS
        <5> HIDE DEF Due
        <5> QED BY <5>1, <5>2, <3>4, <3>5, <3>6
      <4> QED BY <4>1, <4>2
    <3> QED BY <2>1, <3>7
  <2> QED BY <2>3, <2>4
<1>2. S \in SUBSET S
  OBVIOUS
<1>3. k[S] = g[S] + Due(S)
  BY <1>1, <1>2
<1> QED BY <1>3

\* The first m terms are n, the next is p and the others 0.
FullThen(g, f, S, m, n, p) ==
  /\ S \subseteq Nat /\ IsFiniteSet(S) /\ f \in [S -> Nat] /\ Sums(g, f, S)
  /\ m \in S /\ 0..m \subseteq S /\ n \in Nat /\ p \in Nat
  /\ \A i \in S : f[i] = IF i < m THEN n ELSE IF i = m THEN p ELSE 0

LEMMA SumOfFull ==
  ASSUME NEW g, NEW f, NEW S, NEW m, NEW n, NEW p, FullThen(g, f, S, m, n, p)
  PROVE  g[S] = m * n + p
<1> USE DEF FullThen
<1> DEFINE Low(s) == s \cap (0..(m - 1))
           Final(s) == IF m \in s THEN p ELSE 0
           Bad == {s \in SUBSET S : g[s] # Cardinality(Low(s)) * n + Final(s)}
<1>1. m \in Nat /\ IsFiniteSet(0..(m - 1))
  <2>1. m \in Nat
    OBVIOUS
  <2> QED BY <2>1, FS_Interval
<1>2. \A s : IsFiniteSet(Low(s)) /\ Cardinality(Low(s)) \in Nat
  <2> SUFFICES ASSUME NEW s PROVE IsFiniteSet(Low(s)) /\ Cardinality(Low(s)) \in Nat
    OBVIOUS
  <2>1. Low(s) \subseteq 0..(m - 1)
    OBVIOUS
  <2> HIDE DEF Low
  <2> QED BY <1>1, <2>1, FS_Subset, FS_CardinalityType
<1>3. Bad = {}
  <2> SUFFICES ASSUME Bad # {} PROVE FALSE
    OBVIOUS
  <2>1. PICK s \in Bad : \A y \in s : s \ {y} \notin Bad
    <3> HIDE DEF Bad
    <3>1. Bad \subseteq SUBSET S
      BY DEF Bad
    <3> QED BY <3>1, SmallestSet
  <2>2. s \in SUBSET S /\ g[s] = SumStep(g, f, s)
    BY DEF Sums
  <2>3. CASE s = {}
    <3>1. Low(s) = {} /\ Final(s) = 0 /\ g[s] = 0
      BY <2>2, <2>3 DEF SumStep
    <3>2. Cardinality(Low(s)) = 0
      BY <3>1, FS_EmptySet
    <3>3. 0 * n + 0 = 0
      OBVIOUS
    <3> QED BY <2>1, <3>1, <3>2, <3>3
  <2>4. CASE s # {}
    <3>1. PICK c : c = Chosen(s)
      OBVIOUS
    <3>2. PICK t : t = s \ {c}
      OBVIOUS
    <3>3. c \in s /\ c \in S /\ c \in Nat /\ t \in SUBSET S
      BY <2>2, <2>4, <3>1, <3>2 DEF Chosen
    <3>4. g[t] = Cardinality(Low(t)) * n + Final(t)
      BY <2>1, <3>2, <3>3
    <3>5. g[s] = f[c] + g[t]
      BY <2>2, <2>4, <3>1, <3>2 DEF SumStep
    <3>6. PICK a : a = Cardinality(Low(t))
      OBVIOUS
    <3>7. a \in Nat /\ Final(t) \in Nat /\ Final(s) \in Nat /\ a * n \in Nat
      <4>1. Final(t) \in Nat /\ Final(s) \in Nat
        OBVIOUS
      <4>2. a \in Nat
        <5> HIDE DEF Low
        <5> QED BY <1>2, <3>6
      <4>3. \A i, j \in Nat : i * j \in Nat
        OBVIOUS
      <4> QED BY <4>1, <4>2, <4>3
    <3>8. g[s] = Cardinality(Low(s)) * n + Final(s)
      <4>1. CASE c < m
        <5>1. c \in Low(s) /\ Low(t) = Low(s) \ {c} /\ Final(t) = Final(s) /\ f[c] = n
          BY <1>1, <3>2, <3>3, <4>1
        <5>2. Cardinality(Low(s)) \in Nat /\ a = Cardinality(Low(s)) - 1
          <6> HIDE DEF Low
          <6>1. IsFiniteSet(Low(s)) /\ Cardinality(Low(s)) \in Nat
            BY <1>2
          <6>2. Cardinality(Low(s) \ {c}) = Cardinality(Low(s)) - 1
            BY <5>1, <6>1, FS_RemoveElement
          <6> QED BY <3>6, <5>1, <6>1, <6>2
        <5>3. Cardinality(Low(s)) = a + 1
          BY <3>7, <5>2
        <5>4. \A b \in Nat : n + (a * n + b) = (a + 1) * n + b
          BY <3>7
        <5> HIDE DEF Low, Final
        <5> QED BY <3>4, <3>5, <3>6, <3>7, <5>1, <5>3, <5>4
      <4>2. CASE ~(c < m)
        <5>1. Low(t) = Low(s)
          BY <1>1, <3>2, <3>3, <4>2
        <5>2. Final(s) = f[c] + Final(t) /\ f[c] \in Nat
          BY <1>1, <3>2, <3>3, <4>2
        <5>3. \A e, b, d \in Nat : b + (e + d) = e + (b + d)
          OBVIOUS
        <5> HIDE DEF Low, Final
        <5>4. Cardinality(Low(s)) * n + Final(s) = a * n + (f[c] + Final(t))
          BY <3>6, <5>1, <5>2
        <5>5. f[c] + (a * n + Final(t)) = a * n + (f[c] + Final(t))
          BY <3>7, <5>2, <5>3
        <5> QED BY <3>4, <3>5, <3>6, <5>4, <5>5
      <4> QED BY <4>1, <4>2
    <3> QED BY <2>1, <3>8
  <2> QED BY <2>3, <2>4
<1>4. Low(S) = 0..(m - 1)
  BY <1>1
<1>5. Cardinality(0..(m - 1)) = m
  <2>1. m = 0 => 0..(m - 1) = {}
    OBVIOUS
  <2>2. 0 \in Int /\ m - 1 \in Int /\ (0 > m - 1 => m = 0) /\ (m - 1) - 0 + 1 = m
    BY <1>1
  <2>3. Cardinality(0..(m - 1)) = IF 0 > m - 1 THEN 0 ELSE (m - 1) - 0 + 1
    BY <2>2, FS_Interval
  <2> QED BY <2>2, <2>3
<1>6. g[S] = Cardinality(Low(S)) * n + Final(S)
  BY <1>3
<1> HIDE DEF Low
<1> QED BY <1>4, <1>5, <1>6

-----------------------------------------------------------------------------
(* The blocks of a relation.                                               *)

\* The blocks of every segment of r, and of r, when the lengths are l.
BlocksOf(l, r) ==
  [k \in Segs |-> IF l[<<r, k>>] > 0 THEN l[<<r, k>>] \div BLCKSZ ELSE 0]

CountIn(l, r) ==
  MapThenSumSet(LAMBDA k : IF l[<<r, k>>] > 0 THEN l[<<r, k>>] \div BLCKSZ ELSE 0, Segs)

\* They are numbers, and there are finitely many segments.
LEMMA BlocksType ==
  ASSUME NEW l \in [Files -> -1..Full], NEW r \in Relations
  PROVE  BlocksOf(l, r) \in [Segs -> Nat] /\ IsFiniteSet(Segs)
<1>1. IsFiniteSet(Segs)
  BY Sizes, FS_Interval DEF Segs
<1>2. ASSUME NEW k \in Segs
      PROVE  (IF l[<<r, k>>] > 0 THEN l[<<r, k>>] \div BLCKSZ ELSE 0) \in Nat
  <2>1. l[<<r, k>>] \in -1..Full
    BY DEF Files
  <2>2. PICK n \in Int : n = l[<<r, k>>]
    BY <2>1, Sizes
  <2>3. n > 0 => n \div BLCKSZ \in Nat
    BY Sizes, DivNat
  <2> QED BY <2>2, <2>3
<1> QED BY <1>1, <1>2 DEF BlocksOf

\* The number of blocks is the sum of those of the segments.
LEMMA CountIs ==
  ASSUME NEW l \in [Files -> -1..Full], NEW r \in Relations
  PROVE  \E g : Sums(g, BlocksOf(l, r), Segs) /\ CountIn(l, r) = g[Segs]
<1> DEFINE Own(k) == IF l[<<r, k>>] > 0 THEN l[<<r, k>>] \div BLCKSZ ELSE 0
           Same(h) == h = [s \in SUBSET Segs |-> IF s = {} THEN 0
                                                ELSE Own(Chosen(s)) + h[s \ {Chosen(s)}]]
<1>1. CountIn(l, r) = (CHOOSE h : Same(h))[Segs]
  BY DEF CountIn, MapThenSumSet, MapThenFoldSet, Chosen
<1>2. PICK g : Sums(g, BlocksOf(l, r), Segs)
  BY BlocksType, SumsDefined
<1>3. \A s \in SUBSET Segs : s # {} => Chosen(s) \in s
  BY DEF Chosen
<1>4. Same(g)
  <2>1. ASSUME NEW s \in SUBSET Segs
        PROVE  g[s] = IF s = {} THEN 0 ELSE Own(Chosen(s)) + g[s \ {Chosen(s)}]
    BY <1>2, <1>3 DEF Sums, SumStep, BlocksOf
  <2>2. g = [s \in SUBSET Segs |-> g[s]]
    BY <1>2 DEF Sums
  <2> HIDE DEF Own
  <2> QED BY <2>1, <2>2
<1>5. PICK h : h = CHOOSE x : Same(x)
  OBVIOUS
<1>6. Same(h)
  <2> HIDE DEF Same
  <2> QED BY <1>4, <1>5
<1>7. Sums(h, BlocksOf(l, r), Segs)
  <2>1. ASSUME NEW s \in SUBSET Segs PROVE h[s] = SumStep(h, BlocksOf(l, r), s)
    BY <1>3, <1>6 DEF SumStep, BlocksOf
  <2>2. \A s \in SUBSET Segs : g[s] = SumStep(g, BlocksOf(l, r), s)
    BY <1>2 DEF Sums
  <2> DEFINE Bad == {s \in SUBSET Segs : h[s] # g[s]}
  <2>3. Bad = {}
    <3> SUFFICES ASSUME Bad # {} PROVE FALSE
      OBVIOUS
    <3>1. PICK s \in Bad : \A y \in s : s \ {y} \notin Bad
      <4> HIDE DEF Bad
      <4>1. Bad \subseteq SUBSET Segs
        BY DEF Bad
      <4> QED BY <4>1, BlocksType, SmallestSet
    <3>2. s # {} => h[s \ {Chosen(s)}] = g[s \ {Chosen(s)}]
      BY <1>3, <3>1
    <3> QED BY <2>1, <2>2, <3>1, <3>2 DEF SumStep
  <2>4. h = g
    <3>1. h = [s \in SUBSET Segs |-> h[s]]
      <4> HIDE DEF Own
      <4> QED BY <1>6
    <3>2. g = [s \in SUBSET Segs |-> g[s]]
      BY <1>2 DEF Sums
    <3> QED BY <2>3, <3>1, <3>2
  <2> QED BY <1>2, <2>4
<1> QED BY <1>1, <1>5, <1>7

\* The count changes as the blocks of the one segment that changes do.
LEMMA CountChanges ==
  ASSUME NEW l \in [Files -> -1..Full], NEW m \in [Files -> -1..Full], NEW r \in Relations,
         NEW x \in Segs, \A k \in Segs : k # x => m[<<r, k>>] = l[<<r, k>>],
         NEW d \in Int, BlocksOf(m, r)[x] = BlocksOf(l, r)[x] + d
  PROVE  CountIn(m, r) = CountIn(l, r) + d
<1>1. PICK g : Sums(g, BlocksOf(l, r), Segs) /\ CountIn(l, r) = g[Segs]
  BY CountIs
<1>2. PICK h : Sums(h, BlocksOf(m, r), Segs) /\ CountIn(m, r) = h[Segs]
  BY CountIs
<1>3. /\ BlocksOf(l, r) \in [Segs -> Nat] /\ BlocksOf(m, r) \in [Segs -> Nat]
      /\ IsFiniteSet(Segs)
  BY BlocksType
<1>4. \A k \in Segs : k # x => BlocksOf(m, r)[k] = BlocksOf(l, r)[k]
  BY DEF BlocksOf
<1>5. h[Segs] = g[Segs] + d
  BY <1>1, <1>2, <1>3, <1>4, SumChanges
<1> QED BY <1>1, <1>2, <1>5

\* A whole segment.
LEMMA FullBlocks == Full \div BLCKSZ = RELSEG_SIZE /\ Full > 0
<1>1. (RELSEG_SIZE * BLCKSZ + 0) \div BLCKSZ = RELSEG_SIZE
  BY Sizes, DivUnique
<1>2. RELSEG_SIZE * BLCKSZ + 0 = Full
  BY Sizes DEF Full
<1> QED BY <1>1, <1>2, Sizes

\* The count of a relation that ends in segment n.
LEMMA CountOfFull ==
  ASSUME NEW l \in [Files -> -1..Full], NEW r \in Relations, NEW n \in Segs,
         \A k \in Segs : k < n => l[<<r, k>>] = Full,
         \A k \in Segs : k > n => l[<<r, k>>] <= 0
  PROVE  /\ CountIn(l, r) = n * RELSEG_SIZE + BlocksOf(l, r)[n]
         /\ BlocksOf(l, r)[n] \in Nat
<1>1. PICK g : Sums(g, BlocksOf(l, r), Segs) /\ CountIn(l, r) = g[Segs]
  BY CountIs
<1>2. BlocksOf(l, r) \in [Segs -> Nat] /\ IsFiniteSet(Segs)
  BY BlocksType
<1>3. PICK p \in Nat : p = BlocksOf(l, r)[n]
  BY <1>2
<1>4. ASSUME NEW k \in Segs
      PROVE  BlocksOf(l, r)[k] = IF k < n THEN RELSEG_SIZE ELSE IF k = n THEN p ELSE 0
  <2>1. k \in Nat /\ n \in Nat /\ l[<<r, k>>] \in -1..Full
    BY DEF Segs, Files
  <2>2. CASE k < n
    <3>1. l[<<r, k>>] = Full
      BY <2>2
    <3> QED BY <2>2, <3>1, FullBlocks DEF BlocksOf
  <2>3. CASE k = n
    BY <1>3, <2>1, <2>3
  <2>4. CASE k > n
    <3>1. l[<<r, k>>] <= 0 /\ ~(l[<<r, k>>] > 0)
      BY <2>1, <2>4, Sizes
    <3> QED BY <2>1, <2>4, <3>1 DEF BlocksOf
  <2> QED BY <2>1, <2>2, <2>3, <2>4
<1>5. Segs \subseteq Nat /\ 0..n \subseteq Segs /\ RELSEG_SIZE \in Nat
  BY Sizes DEF Segs
<1>6. g[Segs] = n * RELSEG_SIZE + p
  <2>1. PICK f : f = BlocksOf(l, r)
    OBVIOUS
  <2>2. f \in [Segs -> Nat] /\ Sums(g, f, Segs)
    BY <1>1, <1>2, <2>1
  <2>3. FullThen(g, f, Segs, n, RELSEG_SIZE, p)
    BY <1>2, <1>4, <1>5, <2>1, <2>2 DEF FullThen
  <2> QED BY <2>3, SumOfFull
<1> QED BY <1>1, <1>3, <1>6

\* Blocks is that count, before and after a step.
LEMMA BlocksCounted ==
  ASSUME NEW r
  PROVE  Blocks(r) = CountIn(len, r) /\ Blocks(r)' = CountIn(len', r)
BY DEF Blocks, CountIn, MapThenSumSet, MapThenFoldSet

-----------------------------------------------------------------------------
(* The invariant about blocks.                                             *)

\* Behind the end of a relation there is no segment file, or an empty one if
\* callers read further than the block right behind the end.
Nothing(n) == n = -1 \/ (ReadAhead # 0 /\ n = 0)

\* Behind a segment of r that is not full there is nothing.
NothingBehind(r) ==
  \A j, k \in Segs : j < k /\ len[<<r, j>>] < Full => Nothing(len[<<r, k>>])

\* The segments before segment n of r are full.
FullBefore(r, n) == \A k \in Segs : k < n => len[<<r, k>>] = Full

\* The segments of r from n on hold nothing.
NothingFrom(r, n) == \A k \in Segs : k >= n => Nothing(len[<<r, k>>])

\* A relation is being cut or removed.
Cutting(r) == call.r = r /\ pc \in {"truncate", "unlink"}

\* The segment md_truncate keeps last.
LastSeg == call.b \div RELSEG_SIZE

\* md_truncate works on its segments from the first one on: up to the last one
\* it keeps nothing has changed, then that one has its final length and those
\* behind it are gone up to the current one.
TruncInv ==
  pc = "truncate" /\ call.r \notin damaged =>
    /\ FullBefore(call.r, LastSeg) /\ LastSeg < at - 1 + Len(rest)
    /\ NothingFrom(call.r, at - 1 + Len(rest))
    /\ LastSeg >= at - 1 => NothingBehind(call.r)
    /\ LastSeg < at - 1 =>
         /\ len[<<call.r, LastSeg>>] = (call.b - LastSeg * RELSEG_SIZE) * BLCKSZ
         /\ \A k \in Segs : LastSeg < k /\ k < at - 1 => Nothing(len[<<call.r, k>>])

\* md_unlink has removed the segments before the current one.
UnlinkInv ==
  pc = "unlink" /\ call.r \notin damaged =>
    /\ \A k \in Segs : k < at => len[<<call.r, k>>] = -1
    /\ \A j, k \in Segs : at <= j /\ j < k /\ len[<<call.r, j>>] < Full
         => Nothing(len[<<call.r, k>>])

\* A block that is read or written is in a full segment or the one behind.
BlockOps == {"read", "write", "flush", "mark"}

SeekInv ==
  ReadAhead = 0 /\ pc \in {"open", "seg"} /\ call.op \in BlockOps /\ call.r \notin damaged =>
    FullBefore(call.r, call.b \div RELSEG_SIZE)

\* What a call that is not finished has returned: nothing yet.
AnswerInv ==
  /\ pc # "idle" => answer[1].op = "none"
  /\ pc \in {"close", "unlink", "commit"} => call.op = pc
  /\ TruncateExact

BlockInv ==
  /\ \A r \in Relations \ damaged : ~Cutting(r) => NothingBehind(r)
  /\ TruncInv /\ UnlinkInv /\ SeekInv /\ AnswerInv

-----------------------------------------------------------------------------
(* Where a relation ends.                                                  *)

\* The length of a segment.
LEMMA LenType ==
  ASSUME MdInv
  PROVE  /\ len \in [Files -> -1..Full] /\ Full \in Nat /\ Segs \subseteq Nat
         /\ \A r \in Relations : \A k \in Segs :
              <<r, k>> \in Files /\ len[<<r, k>>] \in -1..Full /\ len[<<r, k>>] \in Int
<1>1. len \in [Files -> -1..Full]
  BY DEF MdInv, LenInv
<1>2. Full \in Nat /\ Segs \subseteq Nat /\ \A n \in -1..Full : n \in Int
  BY Sizes DEF Segs
<1>3. \A r \in Relations : \A k \in Segs : <<r, k>> \in Files
  BY DEF Files
<1> QED BY <1>1, <1>2, <1>3

\* A segment that is not full has fewer blocks than a full one.
LEMMA ShortBlocks ==
  ASSUME NEW n \in Int, n < Full
  PROVE  (IF n > 0 THEN n \div BLCKSZ ELSE 0) \in 0..(RELSEG_SIZE - 1)
<1>1. CASE n > 0
  <2>1. PICK q : q = n \div BLCKSZ
    OBVIOUS
  <2>2. q \in Nat /\ q * BLCKSZ \in Int /\ q * BLCKSZ <= n
    <3>1. n \in Nat
      BY <1>1
    <3>2. q \in Nat
      BY <2>1, <3>1, Sizes, DivNat
    <3>3. n % BLCKSZ \in 0..(BLCKSZ - 1) /\ n = q * BLCKSZ + (n % BLCKSZ)
      BY <2>1, Sizes, DivMod
    <3>4. q * BLCKSZ \in Int
      BY <3>2, Sizes, MulNext
    <3> QED BY <3>2, <3>3, <3>4, Sizes
  <2>3. q * BLCKSZ < RELSEG_SIZE * BLCKSZ
    BY <2>2, Sizes DEF Full
  <2>4. q < RELSEG_SIZE
    BY <2>2, <2>3, Sizes, MulLess
  <2> QED BY <1>1, <2>1, <2>2, <2>4, Sizes
<1>2. CASE ~(n > 0)
  BY <1>2, Sizes
<1> QED BY <1>1, <1>2

\* A relation ends in its first segment that is not full.
EndsIn(r, n) ==
  /\ n \in Segs /\ len[<<r, n>>] < Full /\ FullBefore(r, n) /\ NothingFrom(r, n + 1)
  /\ \E p \in 0..(RELSEG_SIZE - 1) : Blocks(r) = n * RELSEG_SIZE + p

LEMMA EndIs ==
  ASSUME MdInv, NEW r \in Relations, NothingBehind(r)
  PROVE  \E n : EndsIn(r, n)
<1> DEFINE n == FirstShort(r)
<1>1. /\ len \in [Files -> -1..Full] /\ Full \in Nat /\ Segs \subseteq Nat
      /\ \A k \in Segs : len[<<r, k>>] \in -1..Full /\ len[<<r, k>>] \in Int
  BY LenType
<1>2. /\ n \in Segs /\ n \in Nat /\ len[<<r, n>>] < Full
      /\ \A k \in Segs : len[<<r, k>>] < Full => n <= k
  BY <1>1, FirstShortIs DEF MdInv
<1> HIDE DEF n
<1>3. ASSUME NEW k \in Segs, k < n PROVE len[<<r, k>>] = Full
  <2>1. ~(n <= k)
    BY <1>1, <1>2, <1>3
  <2>2. len[<<r, k>>] \in -1..Full /\ ~(len[<<r, k>>] < Full)
    BY <1>1, <1>2, <2>1
  <2> QED BY <1>1, <2>2
<1>4. ASSUME NEW k \in Segs, k >= n + 1 PROVE Nothing(len[<<r, k>>])
  <2>1. n < k
    BY <1>1, <1>2, <1>4
  <2> QED BY <1>2, <2>1 DEF NothingBehind
<1>5. \A k \in Segs : k > n => len[<<r, k>>] <= 0
  <2>1. \A k \in Segs : k > n => k >= n + 1
    BY <1>1, <1>2
  <2> QED BY <1>4, <2>1 DEF Nothing
<1>6. CountIn(len, r) = n * RELSEG_SIZE + BlocksOf(len, r)[n]
  BY <1>1, <1>2, <1>3, <1>5, CountOfFull
<1>7. BlocksOf(len, r)[n] \in 0..(RELSEG_SIZE - 1)
  BY <1>1, <1>2, ShortBlocks DEF BlocksOf
<1>8. Blocks(r) = n * RELSEG_SIZE + BlocksOf(len, r)[n]
  BY <1>6, BlocksCounted
<1> QED BY <1>2, <1>3, <1>4, <1>7, <1>8 DEF EndsIn, FullBefore, NothingFrom

\* A block within the relation, or right behind it, is in a segment that only
\* full segments precede.
LEMMA BlockInEnd ==
  ASSUME MdInv, NEW r \in Relations, NothingBehind(r), NEW b \in Nat, b <= Blocks(r)
  PROVE  FullBefore(r, b \div RELSEG_SIZE)
<1>1. PICK n : EndsIn(r, n)
  BY EndIs
<1>2. PICK p \in 0..(RELSEG_SIZE - 1) : Blocks(r) = n * RELSEG_SIZE + p
  BY <1>1 DEF EndsIn
<1>3. n \in Nat /\ RELSEG_SIZE \in Nat \ {0} /\ p \in Nat /\ p < RELSEG_SIZE
  BY <1>1, <1>2, Sizes DEF EndsIn, Segs
<1>4. PICK q \in Nat : q = b \div RELSEG_SIZE
  BY <1>3, DivNat
<1>5. q * RELSEG_SIZE \in Int /\ q * RELSEG_SIZE <= b
  <2>1. b % RELSEG_SIZE \in 0..(RELSEG_SIZE - 1) /\ b = q * RELSEG_SIZE + (b % RELSEG_SIZE)
    BY <1>3, <1>4, DivMod
  <2>2. q * RELSEG_SIZE \in Int
    BY <1>3, MulNext
  <2> QED BY <1>3, <2>1, <2>2
<1>6. n * RELSEG_SIZE \in Int /\ (n + 1) * RELSEG_SIZE = n * RELSEG_SIZE + RELSEG_SIZE
  BY <1>3, MulNext
<1>7. q * RELSEG_SIZE < (n + 1) * RELSEG_SIZE
  BY <1>2, <1>3, <1>5, <1>6
<1>8. q < n + 1
  BY <1>3, <1>7, MulLess
<1>9. \A k \in Segs : k < q => k < n
  BY <1>3, <1>8 DEF Segs
<1> QED BY <1>1, <1>4, <1>9 DEF EndsIn, FullBefore

-----------------------------------------------------------------------------
(* Steps that leave the segments as they are.                              *)

\* What a relation ends in depends on its segments only.
LEMMA SegsSame ==
  ASSUME len' = len, NEW r
  PROVE  /\ NothingBehind(r)' <=> NothingBehind(r)
         /\ \A n : FullBefore(r, n)' <=> FullBefore(r, n)
BY DEF NothingBehind, FullBefore

\* A call that has returned something else than a truncation.
LEMMA ReturnAnswer ==
  ASSUME NEW v, Return(v), call.op # "truncate"
  PROVE  AnswerInv'
BY DEF Return, AnswerInv, TruncateExact

\* A call that goes on.
LEMMA GoesOnAnswer ==
  ASSUME AnswerInv, pc # "idle", answer' = answer,
         pc' \in {"close", "unlink", "commit"} => call'.op = pc'
  PROVE  AnswerInv'
<1>1. answer'[1].op = "none"
  BY DEF AnswerInv
<1> QED BY <1>1 DEF AnswerInv, TruncateExact

\* Outside of md_truncate and md_unlink.
LEMMA CalmKeeps ==
  ASSUME BlockInv, len' = len, damaged \subseteq damaged',
         pc \notin {"truncate", "unlink"}, pc' \notin {"truncate", "unlink"},
         SeekInv', AnswerInv'
  PROVE  BlockInv'
<1>1. ASSUME NEW r \in Relations \ damaged' PROVE NothingBehind(r)'
  <2>1. NothingBehind(r)
    BY DEF BlockInv, Cutting
  <2> QED BY <2>1, SegsSame
<1>2. TruncInv' /\ UnlinkInv'
  BY DEF TruncInv, UnlinkInv
<1> QED BY <1>1, <1>2 DEF BlockInv

\* A call returns.
LEMMA CalmReturn ==
  ASSUME BlockInv, len' = len, damaged \subseteq damaged',
         pc \notin {"truncate", "unlink"}, call.op # "truncate", NEW v, Return(v)
  PROVE  BlockInv'
<1>1. AnswerInv'
  BY ReturnAnswer
<1>2. pc' = "idle"
  BY DEF Return
<1> QED BY <1>1, <1>2, CalmKeeps DEF SeekInv

\* A call goes on at a step where it does not look for a segment.
LEMMA CalmGoesOn ==
  ASSUME BlockInv, len' = len, damaged \subseteq damaged', pc # "idle",
         pc \notin {"truncate", "unlink"}, NEW p, NEW i, Goto(p, i),
         p \notin {"truncate", "unlink", "commit", "close", "open", "seg", "idle"}
  PROVE  BlockInv'
<1>1. pc' = p /\ answer' = answer
  BY DEF Goto
<1>2. AnswerInv'
  BY <1>1, GoesOnAnswer DEF BlockInv
<1> QED BY <1>1, <1>2, CalmKeeps DEF SeekInv

\* The process ends: what it was cutting is damaged.
LEMMA CrashBlocks ==
  ASSUME BlockInv, Crash, len' = len, damaged \subseteq damaged',
         pc \in {"truncate", "unlink"} => call.r \in damaged'
  PROVE  BlockInv'
<1>1. pc' = "idle" /\ answer'[1].op = "none"
  BY DEF Crash, None
<1>2. ASSUME NEW r \in Relations \ damaged' PROVE NothingBehind(r)'
  <2>1. NothingBehind(r)
    BY DEF BlockInv, Cutting
  <2> QED BY <2>1, SegsSame
<1> QED BY <1>1, <1>2 DEF BlockInv, TruncInv, UnlinkInv, SeekInv, AnswerInv, TruncateExact

\* What a call can be doing, by where it is.
LEMMA OpOfStep ==
  ASSUME MdInv
  PROVE  /\ pc \in Transfers => call.op = pc
         /\ pc = "truncate" => call.op = "truncate"
         /\ pc \in {"count", "countopen"} => call.op \in {"nblocks", "extend", "truncate", "read"}
         /\ pc = "seg" => call.op \in Transfers
         /\ pc \notin {"idle", "commit"} => call.r \in Relations
BY DEF MdInv, CallInv

\* md_read, md_write, md_flush, md_mark_dirty, and transfers and extensions
\* that fail.
LEMMA TransfersCalm ==
  ASSUME MdInv, BlockInv,
         md_read \/ md_write \/ TransferFails \/ md_mark_dirty \/ md_extend_fails
  PROVE  BlockInv'
<1>1. /\ pc \in {"read", "write", "flush", "mark", "extend"}
      /\ len' = len /\ damaged' = damaged
      /\ (\E v : Return(v)) \/ (pc = "read" /\ Goto("count", 1))
  <2>1. CASE md_read
    BY <2>1 DEF md_read
  <2>2. CASE md_write
    BY <2>2 DEF md_write
  <2>3. CASE TransferFails
    BY <2>3 DEF TransferFails
  <2>4. CASE md_mark_dirty
    BY <2>4 DEF md_mark_dirty
  <2>5. CASE md_extend_fails
    BY <2>5 DEF md_extend_fails
  <2> QED BY <2>1, <2>2, <2>3, <2>4, <2>5
<1>2. call.op = pc
  BY <1>1, OpOfStep DEF Transfers
<1>3. CASE \E v : Return(v)
  BY <1>1, <1>2, <1>3, CalmReturn
<1>4. CASE Goto("count", 1)
  BY <1>1, <1>4, CalmGoesOn
<1> QED BY <1>1, <1>3, <1>4

\* md_fd_get_seg.
LEMMA GetSegCalm ==
  ASSUME MdInv, BlockInv, md_fd_get_seg
  PROVE  BlockInv'
<1>1. /\ pc = "seg" /\ len' = len /\ damaged' = damaged
      /\ \E i : Goto(call.op, i)
  BY DEF md_fd_get_seg, fileVars
<1>2. call.op \in Transfers
  BY <1>1, OpOfStep
<1> QED BY <1>1, <1>2, CalmGoesOn DEF Transfers

\* Blind writes, and the end of an aborted transaction.
LEMMA BlindCalm ==
  ASSUME BlockInv,
         \/ \E op \in {"blind", "blindsync"}, r \in Relations, b \in Nat : md_blind_wrt(op, r, b)
         \/ \E r \in Relations, b \in Nat : md_blind_mark_dirty(r, b)
         \/ md_abort
  PROVE  BlockInv'
<1>1. /\ pc = "idle" /\ pc' = pc /\ len' = len /\ damaged' = damaged
      /\ answer'[1].op # "truncate"
  BY DEF md_blind_wrt, md_blind_mark_dirty, md_abort, None
<1>2. SeekInv' /\ AnswerInv'
  BY <1>1 DEF SeekInv, AnswerInv, TruncateExact
<1> QED BY <1>1, <1>2, CalmKeeps

\* Steps that touch neither segments nor the call.
LEMMA NothingKeeps ==
  ASSUME BlockInv, len' = len, damaged' = damaged, pc' = pc, call' = call, at' = at,
         rest' = rest, answer' = answer
  PROVE  BlockInv'
<1>1. \A r : Blocks(r)' = Blocks(r)
  BY BlocksCounted
<1>2. /\ \A r : NothingBehind(r)' <=> NothingBehind(r)
      /\ \A r, n : FullBefore(r, n)' <=> FullBefore(r, n)
      /\ \A r, n : NothingFrom(r, n)' <=> NothingFrom(r, n)
      /\ \A r : Cutting(r)' <=> Cutting(r)
      /\ LastSeg' = LastSeg
  BY DEF NothingBehind, FullBefore, NothingFrom, Cutting, LastSeg
<1>3. TruncInv'
  BY <1>2 DEF BlockInv, TruncInv
<1>4. UnlinkInv' /\ SeekInv'
  BY <1>2 DEF BlockInv, UnlinkInv, SeekInv
<1>5. AnswerInv'
  BY <1>1 DEF BlockInv, AnswerInv, TruncateExact
<1> QED BY <1>2, <1>3, <1>4, <1>5 DEF BlockInv

\* md_commit.
LEMMA CommitCalm ==
  ASSUME BlockInv, md_commit
  PROVE  BlockInv'
<1>1. /\ pc = "commit" /\ len' = len /\ damaged' = damaged
      /\ (pc' = pc /\ call' = call /\ answer' = answer) \/ \E v : Return(v)
  BY DEF md_commit, fileVars
<1>2. call.op = "commit"
  BY <1>1 DEF BlockInv, AnswerInv
<1>3. CASE pc' = pc /\ call' = call /\ answer' = answer
  <2>1. AnswerInv'
    BY <1>1, <1>2, <1>3, GoesOnAnswer DEF BlockInv
  <2>2. SeekInv'
    BY <1>1, <1>3 DEF SeekInv
  <2> QED BY <1>1, <1>3, <2>1, <2>2, CalmKeeps
<1>4. CASE \E v : Return(v)
  BY <1>1, <1>2, <1>4, CalmReturn
<1> QED BY <1>1, <1>3, <1>4

\* md_close, and a descriptor that fd.c closes behind the caller's back.
LEMMA CloseCalm ==
  ASSUME BlockInv, md_close \/ \E f \in Files : Evict(f)
  PROVE  BlockInv'
<1>1. /\ len' = len /\ damaged' = damaged
      /\ \/ pc' = pc /\ call' = call /\ at' = at /\ rest' = rest /\ answer' = answer
         \/ pc = "close" /\ \E v : Return(v)
  BY DEF md_close, Evict, callVars
<1>2. pc = "close" => call.op = "close"
  BY DEF BlockInv, AnswerInv
<1> QED BY <1>1, <1>2, NothingKeeps, CalmReturn

\* A call begins: one that reads or writes names a block of the relation.
LEMMA BeginCalm ==
  ASSUME MdInv, BlockInv, NEW op \in Ops, NEW r \in Relations, NEW b \in Nat, Begin(op, r, b)
  PROVE  BlockInv'
<1>1. /\ pc = "idle" /\ len' = len /\ damaged' = damaged
      /\ call' = [op |-> op, r |-> r, b |-> b] /\ answer'[1].op = "none"
      /\ pc' \in {FirstStep(op), "open"} /\ b \in CallerBlocks(op, r)
  BY DEF Begin, fileVars, None
<1>2. /\ pc' \in {"count", "close", "seg", "open"}
      /\ pc' = "close" => op = "close"
  BY <1>1 DEF FirstStep
<1>3. AnswerInv'
  BY <1>1, <1>2 DEF AnswerInv, TruncateExact
<1>4. ASSUME ReadAhead = 0, op \in BlockOps, r \notin damaged
      PROVE  FullBefore(r, b \div RELSEG_SIZE)'
  <2>1. NothingBehind(r)
    BY <1>1, <1>4 DEF BlockInv, Cutting
  <2>2. PICK m : m = Blocks(r)
    OBVIOUS
  <2>3. m \in Int
    <3>1. PICK n, p : n \in Nat /\ p \in Int /\ m = n * RELSEG_SIZE + p
      <4>1. PICK n : EndsIn(r, n)
        BY <2>1, EndIs
      <4>2. PICK p \in 0..(RELSEG_SIZE - 1) : Blocks(r) = n * RELSEG_SIZE + p
        BY <4>1 DEF EndsIn
      <4>3. n \in Nat
        BY <4>1, Sizes DEF EndsIn, Segs
      <4> QED BY <2>2, <4>2, <4>3
    <3>2. n * RELSEG_SIZE \in Int
      BY <3>1, Sizes, MulNext
    <3> QED BY <3>1, <3>2
  <2>4. b \in 0..(m + 0) \/ b \in 0..(m - 1)
    BY <1>1, <1>4, <2>2 DEF CallerBlocks, BlockOps
  <2>5. b <= m
    BY <2>3, <2>4
  <2>6. FullBefore(r, b \div RELSEG_SIZE)
    BY <2>1, <2>2, <2>5, BlockInEnd
  <2> QED BY <1>1, <2>6, SegsSame
<1>5. SeekInv'
  BY <1>1, <1>4 DEF SeekInv, FullBefore
<1> QED BY <1>1, <1>2, <1>3, <1>5, CalmKeeps

\* md_commit begins.
LEMMA BeginCommitCalm ==
  ASSUME BlockInv, BeginCommit
  PROVE  BlockInv'
<1>1. /\ pc = "idle" /\ pc' = "commit" /\ call'.op = "commit" /\ answer'[1].op = "none"
      /\ len' = len /\ damaged' = damaged
  BY DEF BeginCommit, None, fileVars
<1>2. SeekInv' /\ AnswerInv'
  BY <1>1 DEF SeekInv, AnswerInv, TruncateExact
<1> QED BY <1>1, <1>2, CalmKeeps

-----------------------------------------------------------------------------
(* Removal.                                                                *)

\* md_unlink begins with the first segment.
LEMMA BeginUnlinkBlocks ==
  ASSUME BlockInv, NEW r \in Relations, BeginUnlink(r)
  PROVE  BlockInv'
<1>1. /\ pc = "idle" /\ pc' = "unlink" /\ call' = [op |-> "unlink", r |-> r, b |-> 0]
      /\ at' = 0 /\ answer'[1].op = "none" /\ len' = len /\ damaged' = damaged
  BY DEF BeginUnlink, None, fileVars
<1>2. \A q \in Relations \ damaged' : NothingBehind(q)'
  BY <1>1, SegsSame DEF BlockInv, Cutting
<1>3. UnlinkInv'
  <2> SUFFICES ASSUME r \notin damaged
               PROVE  /\ \A k \in Segs : k < 0 => len[<<r, k>>] = -1
                      /\ \A j, k \in Segs : 0 <= j /\ j < k /\ len[<<r, j>>] < Full
                           => Nothing(len[<<r, k>>])
    BY <1>1 DEF UnlinkInv, Nothing
  <2>1. NothingBehind(r)
    BY <1>1 DEF BlockInv, Cutting
  <2> QED BY <2>1, Sizes DEF NothingBehind, Segs
<1>4. TruncInv' /\ SeekInv' /\ AnswerInv'
  BY <1>1 DEF TruncInv, SeekInv, AnswerInv, TruncateExact
<1> QED BY <1>2, <1>3, <1>4 DEF BlockInv

\* md_unlink takes the segments from the first one on, and where there is none
\* the relation has ended.
LEMMA UnlinkBlocks ==
  ASSUME MdInv, BlockInv, md_unlink
  PROVE  BlockInv'
<1>1. /\ pc = "unlink" /\ call.r \in Relations /\ call.op = "unlink" /\ at \in Nat
      /\ len \in [Files -> -1..Full] /\ Full \in Nat /\ Segs \subseteq Nat
      /\ \A r \in Relations : \A k \in Segs : <<r, k>> \in Files
  <2>1. pc = "unlink" /\ call.r \in Relations /\ at \in Nat
    BY DEF md_unlink, MdInv, CallInv
  <2> QED BY <2>1, LenType DEF BlockInv, AnswerInv
<1>2. CASE /\ at \in Segs /\ len' = [len EXCEPT ![<<call.r, at>>] = -1]
           /\ pc' = "unlink" /\ call' = call /\ at' = at + 1 /\ answer' = answer
           /\ damaged' = damaged
  <2>1. /\ \A k \in Segs : k # at => len'[<<call.r, k>>] = len[<<call.r, k>>]
        /\ len'[<<call.r, at>>] = -1
        /\ \A q \in Relations, k \in Segs : q # call.r => len'[<<q, k>>] = len[<<q, k>>]
    BY <1>1, <1>2
  <2>2. ASSUME NEW q \in Relations \ damaged', ~Cutting(q)' PROVE NothingBehind(q)'
    <3>1. q # call.r
      BY <1>1, <1>2, <2>2 DEF Cutting
    <3>2. NothingBehind(q)
      BY <1>2, <2>2, <3>1 DEF BlockInv, Cutting
    <3> QED BY <2>1, <3>1, <3>2 DEF NothingBehind
  <2>3. ASSUME call.r \notin damaged
        PROVE  /\ \A k \in Segs : k < at + 1 => len'[<<call.r, k>>] = -1
               /\ \A j, k \in Segs : at + 1 <= j /\ j < k /\ len'[<<call.r, j>>] < Full
                    => Nothing(len'[<<call.r, k>>])
    <3>1. /\ \A k \in Segs : k < at => len[<<call.r, k>>] = -1
          /\ \A j, k \in Segs : at <= j /\ j < k /\ len[<<call.r, j>>] < Full
               => Nothing(len[<<call.r, k>>])
      BY <1>1, <2>3 DEF BlockInv, UnlinkInv
    <3>2. \A k \in Segs : /\ k < at + 1 => k < at \/ k = at
                          /\ at + 1 <= k => at <= k /\ k # at
                          /\ \A j \in Segs : at + 1 <= j /\ j < k => k # at
      BY <1>1
    <3> QED BY <2>1, <3>1, <3>2
  <2>4. UnlinkInv'
    BY <1>2, <2>3 DEF UnlinkInv, Nothing
  <2>5. AnswerInv'
    BY <1>1, <1>2, GoesOnAnswer DEF BlockInv
  <2>6. TruncInv' /\ SeekInv'
    BY <1>2 DEF TruncInv, SeekInv
  <2> QED BY <2>2, <2>4, <2>5, <2>6 DEF BlockInv
<1>3. CASE /\ len' = len /\ \E v : Return(v)
           /\ \/ damaged' = damaged /\ (at \in Segs => len[<<call.r, at>>] = -1)
              \/ damaged' = damaged \cup {call.r}
  <2>1. pc' = "idle"
    BY <1>3 DEF Return
  <2>2. ASSUME NEW q \in Relations \ damaged' PROVE NothingBehind(q)
    <3>1. CASE q # call.r
      BY <1>3, <2>2, <3>1 DEF BlockInv, Cutting
    <3>2. CASE q = call.r
      <4>1. /\ at \in Segs => len[<<q, at>>] = -1
            /\ \A k \in Segs : k < at => len[<<q, k>>] = -1
            /\ \A j, k \in Segs : at <= j /\ j < k /\ len[<<q, j>>] < Full
                 => Nothing(len[<<q, k>>])
        BY <1>1, <1>3, <2>2, <3>2 DEF BlockInv, UnlinkInv
      <4>2. ASSUME NEW j \in Segs, NEW k \in Segs, j < k, len[<<q, j>>] < Full
            PROVE  Nothing(len[<<q, k>>])
        <5>1. CASE k < at \/ k = at
          BY <4>1, <5>1 DEF Nothing
        <5>2. CASE at < k /\ at <= j
          BY <4>1, <4>2, <5>2
        <5>3. CASE at < k /\ j < at
          <6>1. at \in Segs
            BY <1>1, <5>3, Sizes DEF Segs
          <6>2. len[<<q, at>>] < Full /\ at <= at
            BY <1>1, <4>1, <6>1
          <6> QED BY <4>1, <5>3, <6>1, <6>2
        <5>4. k < at \/ k = at \/ (at < k /\ at <= j) \/ (at < k /\ j < at)
          BY <1>1, <4>2
        <5> QED BY <5>1, <5>2, <5>3, <5>4
      <4> QED BY <4>2 DEF NothingBehind
    <3> QED BY <3>1, <3>2
  <2>3. \A q \in Relations \ damaged' : NothingBehind(q)'
    BY <1>3, <2>2, SegsSame
  <2>4. AnswerInv'
    BY <1>1, <1>3, ReturnAnswer
  <2> QED BY <2>1, <2>3, <2>4 DEF BlockInv, TruncInv, UnlinkInv, SeekInv
<1>4. \/ /\ at \in Segs /\ len' = [len EXCEPT ![<<call.r, at>>] = -1]
         /\ pc' = "unlink" /\ call' = call /\ at' = at + 1 /\ answer' = answer
         /\ damaged' = damaged
      \/ /\ len' = len /\ \E v : Return(v)
         /\ \/ damaged' = damaged /\ (at \in Segs => len[<<call.r, at>>] = -1)
            \/ damaged' = damaged \cup {call.r}
  BY DEF md_unlink, Goto
<1> QED BY <1>2, <1>3, <1>4

-----------------------------------------------------------------------------
(* Steps that add to a relation.                                           *)

\* The length of the segment a relation ends in changes, or an empty segment
\* appears behind it.
LEMMA EndChanges ==
  ASSUME MdInv, BlockInv, NEW q \in Relations, NEW x \in Segs, NEW v,
         len' = [len EXCEPT ![<<q, x>>] = v], len[<<q, x>>] < Full, ~Cutting(q),
         q \notin damaged => FullBefore(q, x) \/ (ReadAhead # 0 /\ v = 0)
  PROVE  /\ \A r \in Relations \ damaged : ~Cutting(r) => NothingBehind(r)'
         /\ \A r \in Relations : \A n : FullBefore(r, n) => FullBefore(r, n)'
         /\ \A r \in Relations \ {q} : \A k \in Segs : len'[<<r, k>>] = len[<<r, k>>]
<1>1. /\ len \in [Files -> -1..Full] /\ Full \in Nat /\ Segs \subseteq Nat
      /\ \A r \in Relations : \A k \in Segs : <<r, k>> \in Files /\ len[<<r, k>>] \in Int
  BY LenType
<1>2. /\ \A r \in Relations \ {q} : \A k \in Segs : len'[<<r, k>>] = len[<<r, k>>]
      /\ \A k \in Segs : k # x => len'[<<q, k>>] = len[<<q, k>>]
      /\ len'[<<q, x>>] = v
  BY <1>1
<1>3. ASSUME NEW r \in Relations, NEW n, FullBefore(r, n) PROVE FullBefore(r, n)'
  <2>1. CASE r # q
    BY <1>2, <1>3, <2>1 DEF FullBefore
  <2>2. CASE r = q
    <3>1. len[<<q, x>>] # Full
      BY <1>1
    <3> QED BY <1>2, <1>3, <2>2, <3>1 DEF FullBefore
  <2> QED BY <2>1, <2>2
<1>4. ASSUME NEW r \in Relations \ damaged, ~Cutting(r) PROVE NothingBehind(r)'
  <2>1. NothingBehind(r)
    BY <1>4 DEF BlockInv
  <2>2. CASE r # q
    BY <1>2, <2>1, <2>2 DEF NothingBehind
  <2>3. CASE r = q
    <3>1. ASSUME NEW j \in Segs, NEW k \in Segs, j < k, len'[<<q, j>>] < Full
          PROVE  Nothing(len'[<<q, k>>])
      <4>1. CASE k # x
        <5>1. len[<<q, j>>] < Full
          BY <1>2, <3>1
        <5> QED BY <1>2, <2>1, <2>3, <3>1, <4>1, <5>1 DEF NothingBehind
      <4>2. CASE k = x
        <5>1. j # x /\ j < x /\ len[<<q, j>>] < Full
          BY <1>1, <1>2, <3>1, <4>2
        <5>2. ~FullBefore(q, x)
          BY <1>1, <5>1 DEF FullBefore
        <5> QED BY <1>2, <1>4, <2>3, <4>2, <5>2 DEF Nothing
      <4> QED BY <4>1, <4>2
    <3> QED BY <2>3, <3>1 DEF NothingBehind, Nothing
  <2> QED BY <2>2, <2>3
<1> QED BY <1>2, <1>3, <1>4

\* A call that adds a segment, or writes one, and goes on or returns.
LEMMA AddingKeeps ==
  ASSUME MdInv, BlockInv, pc \in {"open", "countopen", "seg", "extend"}, NEW x \in Segs, NEW v,
         len' = [len EXCEPT ![<<call.r, x>>] = v], len[<<call.r, x>>] < Full,
         call.r \notin damaged => FullBefore(call.r, x) \/ (ReadAhead # 0 /\ v = 0),
         damaged' = damaged, AnswerInv', pc' \notin {"truncate", "unlink"},
         pc' \in {"open", "seg"} =>
           (pc \in {"open", "seg"} /\ call' = call) \/ call'.op \notin BlockOps
  PROVE  BlockInv'
<1>1. call.r \in Relations /\ ~Cutting(call.r)
  BY OpOfStep DEF Cutting
<1>2. /\ \A r \in Relations \ damaged : ~Cutting(r) => NothingBehind(r)'
      /\ \A r \in Relations : \A n : FullBefore(r, n) => FullBefore(r, n)'
  BY <1>1, EndChanges
<1>3. \A r \in Relations \ damaged' : NothingBehind(r)'
  BY <1>2 DEF Cutting
<1>4. SeekInv'
  <2> SUFFICES ASSUME ReadAhead = 0, pc' \in {"open", "seg"}, call'.op \in BlockOps,
                      call'.r \notin damaged
               PROVE  \A k \in Segs : k < call'.b \div RELSEG_SIZE => len'[<<call'.r, k>>] = Full
    BY DEF SeekInv, FullBefore
  <2>1. pc \in {"open", "seg"} /\ call' = call
    OBVIOUS
  <2>2. FullBefore(call.r, call.b \div RELSEG_SIZE)
    BY <2>1 DEF BlockInv, SeekInv
  <2>3. \A k \in Segs : k < call.b \div RELSEG_SIZE => len'[<<call.r, k>>] = Full
    <3>1. PICK n : n = call.b \div RELSEG_SIZE
      OBVIOUS
    <3> QED BY <1>1, <1>2, <2>1, <2>2, <3>1 DEF FullBefore
  <2> QED BY <2>1, <2>3
<1> QED BY <1>3, <1>4 DEF BlockInv, TruncInv, UnlinkInv

\* md_open: the first segment may be created, in bootstrap mode.
LEMMA OpenBlocks ==
  ASSUME MdInv, BlockInv, md_open
  PROVE  BlockInv'
<1>1. /\ pc = "open" /\ pc' = FirstStep(call.op) /\ call' = call /\ answer' = answer
      /\ len' = [len EXCEPT ![<<call.r, 0>>] = IF len[<<call.r, 0>>] = -1 THEN 0
                                               ELSE len[<<call.r, 0>>]]
      /\ damaged' = damaged
  BY DEF md_open, OpenVfd, Goto
<1>2. call.op \in Ops \ {"close"} /\ call.r \in Relations
  BY <1>1 DEF MdInv, CallInv
<1>3. pc' \in {"count", "seg"}
  BY <1>1, <1>2 DEF FirstStep
<1>4. AnswerInv'
  BY <1>1, <1>3, GoesOnAnswer DEF BlockInv
<1>5. 0 \in Segs /\ len \in [Files -> -1..Full] /\ <<call.r, 0>> \in Files /\ -1 < Full
  BY <1>2, LenType, Sizes DEF Segs
<1>6. CASE len[<<call.r, 0>>] = -1
  <2>1. FullBefore(call.r, 0)
    BY LenType DEF FullBefore, Segs
  <2>2. len' = [len EXCEPT ![<<call.r, 0>>] = 0]
    BY <1>1, <1>6
  <2> QED BY <1>1, <1>3, <1>4, <1>5, <1>6, <2>1, <2>2, AddingKeeps
<1>7. CASE len[<<call.r, 0>>] # -1
  <2>1. len' = len
    BY <1>1, <1>5, <1>7
  <2>2. SeekInv'
    <3>1. SeekInv
      BY DEF BlockInv
    <3> QED BY <1>1, <2>1, <3>1 DEF SeekInv, FullBefore
  <2> QED BY <1>1, <1>3, <1>4, <2>1, <2>2, CalmKeeps
<1> QED BY <1>6, <1>7

\* md_create: a new relation is an empty first segment.
LEMMA CreateBlocks ==
  ASSUME MdInv, BlockInv, NEW r \in Relations, md_create(r)
  PROVE  BlockInv'
<1>1. /\ pc = "idle" /\ pc' = pc /\ call' = call /\ answer'[1].op = "create"
      /\ len' = [len EXCEPT ![<<r, 0>>] = IF len[<<r, 0>>] = -1 THEN 0 ELSE len[<<r, 0>>]]
      /\ \/ (\A k \in Segs : len[<<r, k>>] = -1) /\ damaged' = damaged \ {r}
         \/ len[<<r, 0>>] # -1 /\ damaged' = damaged
  BY DEF md_create, OpenVfd
<1>2. /\ len \in [Files -> -1..Full] /\ Full \in Nat /\ Segs \subseteq Nat /\ 0 \in Segs
      /\ \A q \in Relations : \A k \in Segs : <<q, k>> \in Files
  BY LenType, Sizes DEF Segs
<1>3. ASSUME NEW q \in Relations \ damaged' PROVE NothingBehind(q)'
  <2>1. CASE q # r
    <3>1. NothingBehind(q)
      BY <1>1, <1>3, <2>1 DEF BlockInv, Cutting
    <3>2. \A k \in Segs : len'[<<q, k>>] = len[<<q, k>>]
      BY <1>1, <1>2, <2>1
    <3> QED BY <3>1, <3>2 DEF NothingBehind
  <2>2. CASE q = r /\ \A k \in Segs : len[<<r, k>>] = -1
    <3>1. \A k \in Segs : k # 0 => len'[<<r, k>>] = -1
      BY <1>1, <1>2, <2>2
    <3>2. \A j, k \in Segs : j < k => k # 0
      BY <1>2
    <3> QED BY <2>2, <3>1, <3>2 DEF NothingBehind, Nothing
  <2>3. CASE q = r /\ len[<<r, 0>>] # -1 /\ damaged' = damaged
    <3>1. NothingBehind(q)
      BY <1>1, <1>3, <2>3 DEF BlockInv, Cutting
    <3>2. len' = len
      BY <1>1, <1>2, <2>3
    <3> QED BY <3>1, <3>2, SegsSame
  <2> QED BY <1>1, <2>1, <2>2, <2>3
<1> QED BY <1>1, <1>3 DEF BlockInv, TruncInv, UnlinkInv, SeekInv, AnswerInv, TruncateExact

\* Another backend adds a block where the relation ends.
LEMMA OtherExtendsBlocks ==
  ASSUME MdInv, BlockInv, NEW r \in Relations, OtherExtends(r)
  PROVE  BlockInv'
<1> DEFINE x == FirstShort(r)
<1>1. PICK v : /\ len' = [len EXCEPT ![<<r, x>>] = v]
               /\ ~(call.r = r /\ call.op \in {"extend", "truncate", "unlink"})
               /\ pc' = pc /\ call' = call /\ at' = at /\ rest' = rest /\ damaged' = damaged
               /\ answer'[1].op = "none"
  <2> DEFINE w == IF len[<<r, x>>] = -1 THEN BLCKSZ ELSE (len[<<r, x>>] \div BLCKSZ + 1) * BLCKSZ
  <2>1. len' = [len EXCEPT ![<<r, x>>] = w]
    BY DEF OtherExtends
  <2>2. PICK v : v = w
    OBVIOUS
  <2> HIDE DEF w
  <2> QED BY <2>1, <2>2 DEF OtherExtends, None
<1>2. /\ x \in Segs /\ len[<<r, x>>] < Full
      /\ \A k \in Segs : len[<<r, k>>] < Full => x <= k
  BY FirstShortIs DEF MdInv
<1> HIDE DEF x
<1>3. FullBefore(r, x)
  <2>1. ASSUME NEW k \in Segs, k < x PROVE len[<<r, k>>] = Full
    <3>1. len[<<r, k>>] \in -1..Full /\ Full \in Nat /\ ~(x <= k)
      BY <1>2, <2>1, LenType
    <3>2. ~(len[<<r, k>>] < Full)
      BY <1>2, <3>1
    <3> QED BY <3>1, <3>2
  <2> QED BY <2>1 DEF FullBefore
<1>4. ~Cutting(r)
  BY <1>1, OpOfStep DEF Cutting, BlockInv, AnswerInv
<1>5. /\ \A q \in Relations \ damaged : ~Cutting(q) => NothingBehind(q)'
      /\ \A q \in Relations : \A n : FullBefore(q, n) => FullBefore(q, n)'
      /\ \A q \in Relations \ {r} : \A k \in Segs : len'[<<q, k>>] = len[<<q, k>>]
  BY <1>1, <1>2, <1>3, <1>4, EndChanges
<1>6. \A q \in Relations \ damaged' : ~Cutting(q)' => NothingBehind(q)'
  BY <1>1, <1>5 DEF Cutting
<1>7. pc \in {"truncate", "unlink"} => call.r \in Relations \ {r}
  BY <1>4, OpOfStep DEF Cutting
<1>8. TruncInv'
  <2> SUFFICES ASSUME pc = "truncate", call.r \notin damaged PROVE TruncInv'
    BY <1>1 DEF TruncInv
  <2>1. \A k \in Segs : len'[<<call.r, k>>] = len[<<call.r, k>>]
    BY <1>5, <1>7
  <2>2. /\ FullBefore(call.r, LastSeg)' <=> FullBefore(call.r, LastSeg)
        /\ NothingFrom(call.r, at - 1 + Len(rest))' <=> NothingFrom(call.r, at - 1 + Len(rest))
        /\ NothingBehind(call.r)' <=> NothingBehind(call.r)
        /\ LastSeg' = LastSeg
    BY <1>1, <2>1 DEF FullBefore, NothingFrom, NothingBehind, LastSeg
  <2>3. LastSeg < at - 1 => len'[<<call.r, LastSeg>>] = len[<<call.r, LastSeg>>]
    <3>1. \A k : <<call.r, k>> # <<r, x>>
      BY <1>7
    <3> QED BY <1>1, <3>1
  <2> QED BY <1>1, <2>1, <2>2, <2>3 DEF BlockInv, TruncInv
<1>9. UnlinkInv'
  <2> SUFFICES ASSUME pc = "unlink", call.r \notin damaged PROVE UnlinkInv'
    BY <1>1 DEF UnlinkInv
  <2>1. \A k \in Segs : len'[<<call.r, k>>] = len[<<call.r, k>>]
    BY <1>5, <1>7
  <2> QED BY <1>1, <2>1 DEF BlockInv, UnlinkInv
<1>10. SeekInv'
  <2> SUFFICES ASSUME ReadAhead = 0, pc \in {"open", "seg"}, call.op \in BlockOps,
                      call.r \notin damaged
               PROVE  \A k \in Segs : k < call.b \div RELSEG_SIZE => len'[<<call.r, k>>] = Full
    BY <1>1 DEF SeekInv, FullBefore
  <2>1. FullBefore(call.r, call.b \div RELSEG_SIZE) /\ call.r \in Relations
    BY OpOfStep DEF BlockInv, SeekInv
  <2>2. PICK n : n = call.b \div RELSEG_SIZE
    OBVIOUS
  <2>3. PICK q \in Relations : q = call.r
    BY <2>1
  <2>4. FullBefore(q, n)'
    BY <1>5, <2>1, <2>2, <2>3
  <2> QED BY <1>1, <2>2, <2>3, <2>4 DEF FullBefore
<1>11. AnswerInv'
  BY <1>1 DEF BlockInv, AnswerInv, TruncateExact
<1> QED BY <1>6, <1>8, <1>9, <1>10, <1>11 DEF BlockInv

\* md_fd_open_seg opens the segment behind the chain: behind full ones only,
\* unless callers read far behind the end.
LEMMA OpenSegBlocks ==
  ASSUME MdInv, BlockInv, md_fd_open_seg
  PROVE  BlockInv'
<1>1. PICK k : k = Len(Chain)
  OBVIOUS
<1>2. /\ \/ pc = "countopen" /\ pc' = "count"
         \/ pc = "seg" /\ k <= call.b \div RELSEG_SIZE /\ pc' = "seg"
      /\ len' = [len EXCEPT ![<<call.r, k>>] = IF len[<<call.r, k>>] = -1 THEN 0
                                               ELSE len[<<call.r, k>>]]
      /\ call' = call /\ answer' = answer /\ damaged' = damaged
  BY <1>1 DEF md_fd_open_seg, OpenVfd, Goto
<1>3. /\ call.r \in Relations /\ rd_fd[call.r] # -1 /\ ~Closing(call.r) /\ call.b \in Nat
      /\ pc = "countopen" => at = k
      /\ pc = "seg" => call.op \in Transfers /\ call.op # "extend"
      /\ pc = "seg" => call.b < (MaxSeg + 1) * RELSEG_SIZE
  <2>1. /\ call.r \in Relations /\ rd_fd[call.r] # -1 /\ ~Closing(call.r) /\ call.b \in Nat
        /\ pc = "countopen" => at = k
        /\ pc = "seg" => call.op \in Transfers
        /\ pc = "seg" => call.op = "extend" \/ call.b < (MaxSeg + 1) * RELSEG_SIZE
    BY <1>1, <1>2 DEF MdInv, CallInv, Steps, Closing
  <2>2. k \in Nat
    BY <1>1, <2>1, EntryFacts DEF MdInv, Chain
  <2>3. pc = "seg" => call.op # "extend"
    <3> SUFFICES ASSUME pc = "seg", call.op = "extend" PROVE FALSE
      OBVIOUS
    <3>1. PICK n : n = call.b \div RELSEG_SIZE
      OBVIOUS
    <3>2. n \in 0..(k - 1)
      BY <1>1, <3>1 DEF MdInv, ExtendInv
    <3> QED BY <1>2, <2>2, <3>1, <3>2
  <2> QED BY <2>1, <2>3
<1>4. k \in Nat
  BY <1>1, <1>3, EntryFacts DEF MdInv, Chain
<1>5. k \in Segs /\ (pc = "countopen" => FullBefore(call.r, k))
  <2>1. CASE pc = "countopen"
    <3>1. /\ \A j \in 0..(k - 1) : len[<<call.r, j>>] = Full
          /\ len[<<call.r, MaxSeg>>] < Full
      BY <1>3, <2>1 DEF MdInv, ExtendInv, LenInv
    <3>2. ~(MaxSeg \in 0..(k - 1))
      BY <3>1, Sizes
    <3>3. k \in Segs
      BY <1>4, <3>2, Sizes DEF Segs
    <3>4. \A j \in Segs : j < k => j \in 0..(k - 1)
      BY <1>4, Sizes DEF Segs
    <3> QED BY <3>1, <3>3, <3>4 DEF FullBefore
  <2>2. CASE pc = "seg"
    <3>1. PICK n : n = call.b \div RELSEG_SIZE
      OBVIOUS
    <3>2. n \in Segs
      BY <1>3, <2>2, <3>1, SegmentOfBlock
    <3>3. k <= n
      BY <1>2, <2>2, <3>1
    <3> QED BY <1>4, <2>2, <3>2, <3>3, Sizes DEF Segs
  <2> QED BY <1>2, <2>1, <2>2
<1>6. AnswerInv'
  BY <1>2, GoesOnAnswer DEF BlockInv
<1>7. CASE len[<<call.r, k>>] = -1
  <2>1. len' = [len EXCEPT ![<<call.r, k>>] = 0] /\ len[<<call.r, k>>] < Full
    BY <1>2, <1>7, Sizes
  <2>2. call.r \notin damaged => FullBefore(call.r, k) \/ ReadAhead # 0
    <3>1. CASE pc = "countopen"
      BY <1>5, <3>1
    <3>2. CASE pc = "seg"
      <4> SUFFICES ASSUME call.r \notin damaged, ReadAhead = 0 PROVE FullBefore(call.r, k)
        OBVIOUS
      <4>1. PICK n : n = call.b \div RELSEG_SIZE
        OBVIOUS
      <4>2. call.op \in BlockOps
        BY <1>3, <3>2 DEF Transfers, BlockOps
      <4>3. FullBefore(call.r, n)
        BY <3>2, <4>1, <4>2 DEF BlockInv, SeekInv
      <4>4. k <= n /\ n \in Segs
        BY <1>2, <1>3, <3>2, <4>1, SegmentOfBlock
      <4>5. \A j \in Segs : j < k => j < n
        BY <1>4, <4>4, Sizes DEF Segs
      <4> QED BY <4>3, <4>5 DEF FullBefore
    <3> QED BY <1>2, <3>1, <3>2
  <2> QED BY <1>2, <1>5, <1>6, <2>1, <2>2, AddingKeeps
<1>8. CASE len[<<call.r, k>>] # -1
  <2>1. len' = len
    <3>1. len \in [Files -> -1..Full] /\ <<call.r, k>> \in Files
      BY <1>3, <1>5, LenType
    <3> QED BY <1>2, <1>8, <3>1
  <2>2. SeekInv'
    <3>1. SeekInv
      BY DEF BlockInv
    <3> QED BY <1>2, <2>1, <3>1 DEF SeekInv, FullBefore
  <2> QED BY <1>2, <1>6, <2>1, <2>2, CalmKeeps
<1> QED BY <1>7, <1>8

\* md_extend has found the segment the relation ends in.
LEMMA ExtendAt ==
  ASSUME MdInv, md_extend
  PROVE  /\ pc = "extend" /\ call.op = "extend" /\ call.r \in Relations /\ damaged' = damaged
         /\ Cur = <<call.r, at - 1>> /\ at - 1 \in Segs /\ len[Cur] \in 0..Full
         /\ len[Cur] < Full /\ FullBefore(call.r, at - 1)
<1>1. /\ pc = "extend" /\ Accessed(Cur) /\ damaged' = damaged
  BY DEF md_extend
<1>2. /\ call.r \in Relations /\ at \in 1..Len(Chain) /\ Len(Chain) \in 1..(MaxSeg + 1)
      /\ Cur = <<call.r, at - 1>> /\ at - 1 \in Segs /\ len[Cur] \in 0..Full
      /\ call.op = "extend"
  BY <1>1, AtSegment, OpOfStep DEF Transfers
<1>3. PICK t : t = call.b \div RELSEG_SIZE
  OBVIOUS
<1>4. /\ t \in 0..(Len(Chain) - 1) /\ at = t + 1
      /\ \A k \in 0..(t - 1) : len[<<call.r, k>>] = Full
      /\ len[<<call.r, t>>] < Full \/ <<call.r, t>> \in closed \cap lost
  BY <1>1, <1>2, <1>3 DEF MdInv, ExtendInv
<1>5. t = at - 1 /\ \A k \in Segs : k < at - 1 => k \in 0..(t - 1)
  BY <1>2, <1>4, Sizes DEF Segs
<1> QED BY <1>1, <1>2, <1>4, <1>5 DEF Accessed, FullBefore

\* md_extend writes there.
LEMMA ExtendBlocks ==
  ASSUME MdInv, BlockInv, md_extend
  PROVE  BlockInv'
<1>1. /\ pc = "extend" /\ call.op = "extend" /\ call.r \in Relations /\ damaged' = damaged
      /\ Cur = <<call.r, at - 1>> /\ at - 1 \in Segs
      /\ len[Cur] < Full /\ FullBefore(call.r, at - 1)
  BY ExtendAt
<1>2. /\ \E v : Return(v)
      /\ len' = len \/ \E v : len' = [len EXCEPT ![Cur] = v]
  BY DEF md_extend
<1>3. CASE len' = len
  BY <1>1, <1>2, <1>3, CalmReturn
<1>4. CASE \E v : len' = [len EXCEPT ![Cur] = v]
  <2>1. PICK v : len' = [len EXCEPT ![<<call.r, at - 1>>] = v]
    BY <1>1, <1>4
  <2>2. AnswerInv' /\ pc' = "idle"
    BY <1>1, <1>2, ReturnAnswer DEF Return
  <2>3. PICK x \in Segs : x = at - 1
    BY <1>1
  <2>4. len' = [len EXCEPT ![<<call.r, x>>] = v] /\ len[<<call.r, x>>] < Full
        /\ FullBefore(call.r, x)
    BY <1>1, <2>1, <2>3
  <2> QED BY <1>1, <2>2, <2>4, AddingKeeps
<1> QED BY <1>2, <1>3, <1>4

-----------------------------------------------------------------------------
(* Counting.                                                               *)

\* A relation that ends in segment e, counted up to segment n.
LEMMA CountIsEnd ==
  ASSUME MdInv, NEW r \in Relations, NothingBehind(r), NEW n \in Int,
         NEW m \in 0..(RELSEG_SIZE - 1), Blocks(r) = n * RELSEG_SIZE + m
  PROVE  EndsIn(r, n)
<1>1. PICK e : EndsIn(r, e)
  BY EndIs
<1>2. PICK p \in 0..(RELSEG_SIZE - 1) : Blocks(r) = e * RELSEG_SIZE + p
  BY <1>1 DEF EndsIn
<1>3. e \in Int /\ RELSEG_SIZE \in Nat \ {0}
  BY <1>1, Sizes DEF EndsIn, Segs
<1>4. (e * RELSEG_SIZE + p) \div RELSEG_SIZE = e
  BY <1>3, DivUnique
<1>5. (n * RELSEG_SIZE + m) \div RELSEG_SIZE = n
  BY <1>3, DivUnique
<1> QED BY <1>1, <1>2, <1>4, <1>5

\* The segment of a block that lies before another.
LEMMA SegmentBefore ==
  ASSUME NEW b \in Nat, NEW n \in Int, NEW m \in 0..(RELSEG_SIZE - 1),
         b < n * RELSEG_SIZE + m
  PROVE  b \div RELSEG_SIZE \in Nat /\ b \div RELSEG_SIZE <= n
<1>1. RELSEG_SIZE \in Nat \ {0} /\ m \in Int /\ m < RELSEG_SIZE
  BY Sizes
<1>2. PICK q \in Nat : q = b \div RELSEG_SIZE
  BY <1>1, DivNat
<1>3. b % RELSEG_SIZE \in 0..(RELSEG_SIZE - 1) /\ b = q * RELSEG_SIZE + (b % RELSEG_SIZE)
  BY <1>1, <1>2, DivMod
<1>4. q * RELSEG_SIZE \in Int /\ n * RELSEG_SIZE \in Int
      /\ (n + 1) * RELSEG_SIZE = n * RELSEG_SIZE + RELSEG_SIZE
  BY <1>1, MulNext
<1>5. q * RELSEG_SIZE < (n + 1) * RELSEG_SIZE
  BY <1>1, <1>3, <1>4
<1>6. q < n + 1
  BY <1>1, <1>5, MulLess
<1> QED BY <1>2, <1>6

\* md_nblocks has counted, and returns to its caller: md_truncate begins with
\* the first segment, or has nothing to do.
LEMMA CountedBlocks ==
  ASSUME MdInv, BlockInv, pc = "count", NEW m \in 0..(RELSEG_SIZE - 1),
         Counted((at - 1) * RELSEG_SIZE + m), len' = len, chain' = chain
  PROVE  BlockInv'
<1>1. PICK n : n = (at - 1) * RELSEG_SIZE + m
  OBVIOUS
<1>2. /\ damaged' = (IF n # Blocks(call.r) THEN damaged \cup {call.r} ELSE damaged)
      /\ CASE call.op = "extend" ->
                /\ call' = [call EXCEPT !.b = n]
                /\ pc' = "seg" /\ at' = 1
                /\ UNCHANGED <<rest, answer>>
           [] call.op = "truncate" /\ call.b < n ->
                /\ pc' = "truncate" /\ at' = 1 /\ rest' = Chain
                /\ UNCHANGED <<call, answer>>
           [] call.op = "truncate" /\ call.b >= n -> Return(IF call.b = n THEN n ELSE -1)
           [] call.op = "read" -> Return(IF n = 0 THEN 1 ELSE 0)
           [] OTHER -> Return(n)
  BY <1>1 DEF Counted
<1>3. /\ call.r \in Relations /\ at \in 1..Len(Chain) /\ Len(Chain) \in 1..(MaxSeg + 1)
      /\ call.b \in Nat /\ at - 1 \in Int
      /\ call.op \in {"nblocks", "extend", "truncate", "read"}
  BY AtSegment, OpOfStep DEF MdInv, CallInv
<1>4. n \in Int
  BY <1>1, <1>3, Sizes, MulNext
<1>5. damaged \subseteq damaged'
  BY <1>2
<1>6. ASSUME call.r \notin damaged'
      PROVE  call.r \notin damaged /\ n = Blocks(call.r) /\ NothingBehind(call.r)
  <2>1. call.r \notin damaged /\ n = Blocks(call.r)
    BY <1>2, <1>6
  <2> QED BY <1>3, <2>1 DEF BlockInv, Cutting
<1>7. CASE call.op = "extend"
  <2>1. call' = [call EXCEPT !.b = n] /\ pc' = "seg" /\ answer' = answer
    BY <1>2, <1>7
  <2>2. call'.op \notin BlockOps
    <3>1. call \in [op : Ops \cup {"none", "commit", "unlink"},
                    r : Relations \cup {"none"}, b : Nat]
      BY DEF MdInv, CallInv
    <3>2. call'.op = call.op
      BY <2>1, <3>1
    <3> QED BY <1>7, <3>2 DEF BlockOps
  <2>3. AnswerInv'
    BY <2>1, GoesOnAnswer DEF BlockInv
  <2>4. SeekInv'
    BY <2>2 DEF SeekInv
  <2> QED BY <1>5, <2>1, <2>3, <2>4, CalmKeeps
<1>8. CASE call.op = "truncate" /\ call.b < n
  <2>1. /\ pc' = "truncate" /\ at' = 1 /\ rest' = Chain /\ call' = call /\ answer' = answer
    <3>1. ~(call.b >= n)
      BY <1>3, <1>4, <1>8
    <3> QED BY <1>2, <1>8, <3>1
  <2>2. \A r \in Relations \ damaged' : NothingBehind(r)'
    <3>1. \A r \in Relations \ damaged' : NothingBehind(r)
      BY <1>5 DEF BlockInv, Cutting
    <3> QED BY <3>1, SegsSame
  <2>3. ASSUME call.r \notin damaged'
        PROVE  /\ FullBefore(call.r, LastSeg) /\ LastSeg \in Nat /\ LastSeg < Len(Chain)
               /\ NothingFrom(call.r, Len(Chain))
    <3>1. n = Blocks(call.r) /\ NothingBehind(call.r)
      BY <1>6, <2>3
    <3>2. EndsIn(call.r, at - 1)
      BY <1>1, <1>3, <3>1, CountIsEnd
    <3>3. LastSeg \in Nat /\ LastSeg <= at - 1
      BY <1>1, <1>3, <1>8, SegmentBefore DEF LastSeg
    <3>4. \A k \in Segs : /\ k < LastSeg => k < at - 1
                          /\ k >= Len(Chain) => k >= (at - 1) + 1
      BY <1>3, <3>3, Sizes DEF Segs
    <3>5. LastSeg < Len(Chain)
      BY <1>3, <3>3, Sizes
    <3> QED BY <3>2, <3>3, <3>4, <3>5 DEF EndsIn, FullBefore, NothingFrom
  <2>4. TruncInv'
    <3> SUFFICES ASSUME call'.r \notin damaged'
                 PROVE  TruncInv'
      BY DEF TruncInv
    <3>0. call.r \notin damaged'
      BY <2>1
    <3>1. LastSeg' = LastSeg
      BY <2>1 DEF LastSeg
    <3>2. at' - 1 + Len(rest') = Len(Chain)
      BY <1>3, <2>1
    <3>3. ~(LastSeg' < at' - 1)
      BY <2>1, <2>3, <3>0, <3>1
    <3>4. NothingBehind(call.r)'
      BY <1>3, <2>2, <2>1, <3>0
    <3>5. FullBefore(call.r, LastSeg)'
      BY <2>1, <2>3, <3>0, <3>1 DEF FullBefore
    <3>6. NothingFrom(call.r, at - 1 + Len(rest))'
      BY <2>1, <2>3, <3>0, <3>2 DEF NothingFrom, Nothing
    <3>7. LastSeg' < at' - 1 + Len(rest')
      BY <2>3, <3>0, <3>1, <3>2
    <3> QED BY <3>3, <3>4, <3>5, <3>6, <3>7 DEF TruncInv
  <2>5. AnswerInv'
    BY <2>1, GoesOnAnswer DEF BlockInv
  <2>6. UnlinkInv' /\ SeekInv'
    BY <2>1 DEF UnlinkInv, SeekInv
  <2> QED BY <2>2, <2>4, <2>5, <2>6 DEF BlockInv
<1>9. CASE call.op = "truncate" /\ call.b >= n
  <2>1. Return(IF call.b = n THEN n ELSE -1)
    <3>1. ~(call.b < n)
      BY <1>3, <1>4, <1>9
    <3> QED BY <1>2, <1>9, <3>1
  <2>2. pc' = "idle" /\ answer' = <<call, IF call.b = n THEN n ELSE -1>>
    BY <2>1 DEF Return
  <2>4. AnswerInv'
    <3>1. PICK q : q = call.r
      OBVIOUS
    <3>2. CASE call.b = n
      <4>1. answer'[1] = call /\ answer'[2] = n
        BY <2>2, <3>2
      <4>2. q \notin damaged' => n = Blocks(q)'
        <5>1. Blocks(q)' = Blocks(q)
          BY BlocksCounted
        <5> QED BY <1>6, <3>1, <5>1
      <4>3. TruncateExact'
        <5> SUFFICES ASSUME answer'[1].r \notin damaged'
                     PROVE  /\ answer'[2] = answer'[1].b
                            /\ Blocks(answer[1].r)' = answer'[1].b
          BY DEF TruncateExact
        <5>1. answer'[1].r = q
          BY <3>1, <4>1
        <5>2. Blocks(answer[1].r)' = Blocks(q)'
          BY <5>1, BlocksCounted
        <5> QED BY <3>1, <3>2, <4>1, <4>2, <5>1, <5>2
      <4> QED BY <2>2, <4>3 DEF AnswerInv
    <3>3. CASE call.b # n
      <4>1. answer'[2] = -1
        BY <2>2, <3>3
      <4> QED BY <2>2, <4>1 DEF AnswerInv, TruncateExact
    <3> QED BY <3>2, <3>3
  <2>5. SeekInv'
    BY <2>2 DEF SeekInv
  <2> QED BY <1>5, <2>2, <2>4, <2>5, CalmKeeps
<1>10. CASE call.op \notin {"extend", "truncate"}
  <2>1. \E v : Return(v)
    BY <1>2, <1>3, <1>10
  <2> QED BY <1>5, <1>10, <2>1, CalmReturn
<1> QED BY <1>3, <1>4, <1>7, <1>8, <1>9, <1>10

\* The two ways in which md_nblocks stops at a segment.
LEMMA NblocksBlocks ==
  ASSUME MdInv, BlockInv, md_nblocks \/ md_nblocks_aux_fails
  PROVE  BlockInv'
<1>1. pc = "count" /\ len' = len /\ chain' = chain
  BY DEF md_nblocks, md_nblocks_aux_fails, relVars
<1>2. at \in 1..Len(Chain) /\ Len(Chain) \in 1..(MaxSeg + 1) /\ len[Cur] \in 0..Full
  BY <1>1, AtSegment
<1> DEFINE n == len[Cur] \div BLCKSZ
<1>3. CASE md_nblocks /\ n = RELSEG_SIZE
  <2>1. damaged' = damaged /\ \E p \in {"count", "countopen"}, i \in Int : Goto(p, i)
    BY <1>2, <1>3 DEF md_nblocks
  <2> QED BY <1>1, <2>1, CalmGoesOn
<1>4. CASE md_nblocks /\ n # RELSEG_SIZE
  <2>1. Counted((at - 1) * RELSEG_SIZE + n)
    BY <1>4 DEF md_nblocks
  <2>2. n \in 0..(RELSEG_SIZE - 1)
    <3>1. PICK l \in 0..Full : l = len[Cur]
      BY <1>2
    <3>2. CASE l < Full
      <4>1. (IF l > 0 THEN l \div BLCKSZ ELSE 0) \in 0..(RELSEG_SIZE - 1)
        <5>1. l \in Int
          BY Sizes
        <5> QED BY <3>2, <5>1, ShortBlocks
      <4>2. l = 0 => l \div BLCKSZ = 0
        <5>1. (0 * BLCKSZ + 0) \div BLCKSZ = 0 /\ 0 * BLCKSZ + 0 = 0
          BY Sizes, DivUnique
        <5> QED BY <5>1
      <4> QED BY <3>1, <4>1, <4>2, Sizes
    <3>3. CASE l = Full
      BY <1>4, <3>1, <3>3, FullBlocks
    <3> QED BY <3>1, <3>2, <3>3, Sizes
  <2> HIDE DEF n
  <2> QED BY <1>1, <2>1, <2>2, CountedBlocks
<1>5. CASE md_nblocks_aux_fails
  <2>1. (at - 1) * RELSEG_SIZE + 0 = (at - 1) * RELSEG_SIZE /\ 0 \in 0..(RELSEG_SIZE - 1)
    <3>1. at - 1 \in Int /\ RELSEG_SIZE \in Nat \ {0}
      BY <1>2, Sizes
    <3>2. (at - 1) * RELSEG_SIZE \in Int
      BY <3>1
    <3> QED BY <3>1, <3>2
  <2>2. Counted((at - 1) * RELSEG_SIZE + 0)
    BY <1>5, <2>1 DEF md_nblocks_aux_fails
  <2> QED BY <1>1, <2>1, <2>2, CountedBlocks
<1> QED BY <1>3, <1>4, <1>5

-----------------------------------------------------------------------------
(* Truncation.                                                             *)

\* Where the loop of md_truncate is, by the number of the current segment.
LEMMA TruncAt ==
  ASSUME MdInv, pc = "truncate", rest # <<>>
  PROVE  /\ LastSeg \in Nat /\ at - 1 \in Nat /\ at \in Nat
         /\ prior_blocks > call.b <=> at - 1 > LastSeg
         /\ LastWanted <=> at > LastSeg
<1>1. /\ at \in Nat /\ at - 1 \in Int /\ at - 1 \in Nat /\ call.b \in Nat
      /\ RELSEG_SIZE \in Nat \ {0}
  BY InTruncate, Sizes
<1>2. PICK q \in Nat : q = LastSeg
  BY <1>1, DivNat DEF LastSeg
<1>3. PICK n \in 0..(RELSEG_SIZE - 1) : call.b = q * RELSEG_SIZE + n
  <2>1. PICK b \in Nat : b = call.b
    BY <1>1
  <2>2. b % RELSEG_SIZE \in 0..(RELSEG_SIZE - 1)
        /\ b = (b \div RELSEG_SIZE) * RELSEG_SIZE + (b % RELSEG_SIZE)
    BY Sizes, DivMod
  <2> QED BY <1>2, <2>1, <2>2 DEF LastSeg
<1>4. /\ q * RELSEG_SIZE \in Int /\ (q + 1) * RELSEG_SIZE = q * RELSEG_SIZE + RELSEG_SIZE
      /\ prior_blocks = (at - 1) * RELSEG_SIZE /\ prior_blocks \in Int
      /\ at * RELSEG_SIZE = prior_blocks + RELSEG_SIZE
  BY <1>1, MulNext DEF prior_blocks
<1>5. q * RELSEG_SIZE <= call.b /\ call.b < (q + 1) * RELSEG_SIZE
  BY <1>1, <1>3, <1>4
<1>6. ASSUME NEW i \in Int PROVE i * RELSEG_SIZE > call.b <=> i > q
  <2>0. i * RELSEG_SIZE \in Int
    BY <1>1, MulNext
  <2>1. CASE i > q
    <3>1. (q + 1) * RELSEG_SIZE <= i * RELSEG_SIZE
      BY <1>1, <2>1, MulMono
    <3> QED BY <1>1, <1>4, <1>5, <2>0, <2>1, <3>1
  <2>2. CASE i <= q
    <3>1. i * RELSEG_SIZE <= q * RELSEG_SIZE
      BY <1>1, <2>2, MulMono
    <3> QED BY <1>1, <1>4, <1>5, <2>0, <2>2, <3>1
  <2> QED BY <2>1, <2>2
<1>7. prior_blocks > call.b <=> at - 1 > q
  BY <1>1, <1>4, <1>6
<1>8. prior_blocks + RELSEG_SIZE > call.b <=> at > q
  <2>1. at * RELSEG_SIZE > call.b <=> at > q
    BY <1>1, <1>6
  <2> QED BY <1>4, <2>1
<1> QED BY <1>1, <1>2, <1>7, <1>8 DEF LastWanted

\* The loop goes on with the next segment.
LEMMA TruncKeeps ==
  ASSUME MdInv, BlockInv, pc = "truncate", pc' = pc, call' = call, answer' = answer,
         damaged \subseteq damaged',
         \A r \in Relations \ {call.r} : \A k \in Segs : len'[<<r, k>>] = len[<<r, k>>],
         TruncInv'
  PROVE  BlockInv'
<1>1. ASSUME NEW r \in Relations \ damaged', ~Cutting(r)' PROVE NothingBehind(r)'
  <2>1. r # call.r
    BY <1>1 DEF Cutting
  <2>2. NothingBehind(r)
    BY <1>1, <2>1 DEF BlockInv, Cutting
  <2> QED BY <2>1, <2>2 DEF NothingBehind
<1>2. AnswerInv'
  BY GoesOnAnswer DEF BlockInv
<1> QED BY <1>1, <1>2 DEF BlockInv, UnlinkInv, SeekInv

\* What the next round of the loop finds, when the current segment is all that
\* has changed.
LEMMA TruncNext ==
  ASSUME MdInv, TruncInv, pc = "truncate", rest # <<>>, pc' = pc, call' = call,
         at' = at + 1, rest' = Tail(rest), call.r \notin damaged, NEW l,
         \A k \in Segs : len'[<<call.r, k>>] = IF k = at - 1 THEN l ELSE len[<<call.r, k>>],
         LastSeg > at - 1 => l = len[<<call.r, at - 1>>],
         LastSeg = at - 1 => l = (call.b - LastSeg * RELSEG_SIZE) * BLCKSZ,
         LastSeg < at - 1 => Nothing(l)
  PROVE  TruncInv'
<1>1. /\ call.r \in Relations /\ at \in Nat /\ at - 1 \in Segs /\ Segs \subseteq Nat
      /\ LastSeg \in Nat /\ Len(rest) \in Nat /\ Len(rest) >= 1
      /\ Len(Tail(rest)) = Len(rest) - 1
  BY InTruncate, TruncAt, LenType
<1>2. /\ FullBefore(call.r, LastSeg) /\ LastSeg < at - 1 + Len(rest)
      /\ NothingFrom(call.r, at - 1 + Len(rest))
      /\ LastSeg >= at - 1 => NothingBehind(call.r)
      /\ LastSeg < at - 1 =>
           /\ len[<<call.r, LastSeg>>] = (call.b - LastSeg * RELSEG_SIZE) * BLCKSZ
           /\ \A k \in Segs : LastSeg < k /\ k < at - 1 => Nothing(len[<<call.r, k>>])
  BY DEF TruncInv
<1>3. LastSeg' = LastSeg
  BY DEF LastSeg
<1>4. PICK q : q = LastSeg
  OBVIOUS
<1>5. PICK s : s = at - 1
  OBVIOUS
<1>6. /\ q \in Nat /\ s \in Nat /\ s \in Segs /\ at' - 1 = s + 1
      /\ at' - 1 + Len(rest') = s + Len(rest) /\ at - 1 + Len(rest) = s + Len(rest)
  BY <1>1, <1>4, <1>5
<1>7. \A k \in Segs : k # s => len'[<<call.r, k>>] = len[<<call.r, k>>]
  BY <1>5
<1>8. FullBefore(call.r, LastSeg)'
  <2>1. \A k \in Segs : k < q => len'[<<call.r, k>>] = Full
    <3>1. \A k \in Segs : k < q => len[<<call.r, k>>] = Full
      BY <1>2, <1>4 DEF FullBefore
    <3>2. s < q => l = len[<<call.r, s>>]
      BY <1>4, <1>5, <1>6
    <3> QED BY <1>5, <1>7, <3>1, <3>2
  <2> QED BY <1>3, <1>4, <2>1 DEF FullBefore
<1>9. NothingFrom(call.r, at - 1 + Len(rest))'
  <2>1. \A k \in Segs : k >= s + Len(rest) => Nothing(len[<<call.r, k>>]) /\ k # s
    BY <1>1, <1>2, <1>6 DEF NothingFrom
  <2> QED BY <1>6, <1>7, <2>1 DEF NothingFrom, Nothing
<1>10. LastSeg' < at' - 1 + Len(rest')
  BY <1>2, <1>3, <1>6
<1>11. ASSUME q >= s + 1 PROVE NothingBehind(call.r)'
  <2>1. q > s
    BY <1>6, <1>11
  <2>2. NothingBehind(call.r) /\ l = len[<<call.r, s>>]
    BY <1>2, <1>4, <1>5, <1>6, <2>1
  <2>3. \A k \in Segs : len'[<<call.r, k>>] = len[<<call.r, k>>]
    BY <1>5, <1>7, <2>2
  <2> QED BY <2>2, <2>3 DEF NothingBehind
<1>12. ASSUME q < s + 1
       PROVE  /\ len'[<<call.r, q>>] = (call.b - q * RELSEG_SIZE) * BLCKSZ
              /\ \A k \in Segs : q < k /\ k < s + 1 => Nothing(len'[<<call.r, k>>])
  <2>1. CASE q = s
    <3>1. \A k \in Segs : ~(q < k /\ k < s + 1)
      BY <1>1, <1>6, <2>1
    <3>2. len'[<<call.r, q>>] = l
      BY <1>5, <1>6, <2>1
    <3> QED BY <1>4, <1>5, <2>1, <3>1, <3>2
  <2>2. CASE q < s
    <3>1. q \in Segs
      BY <1>6, <2>2, Sizes DEF Segs
    <3>2. len[<<call.r, q>>] = (call.b - q * RELSEG_SIZE) * BLCKSZ
          /\ \A k \in Segs : q < k /\ k < s => Nothing(len[<<call.r, k>>])
      BY <1>2, <1>4, <1>5, <2>2
    <3>3. Nothing(l) /\ len'[<<call.r, s>>] = l
      BY <1>4, <1>5, <1>6, <2>2
    <3>4. \A k \in Segs : k < s + 1 => k < s \/ k = s
      BY <1>1, <1>6
    <3>5. q # s
      BY <1>6, <2>2
    <3> QED BY <1>7, <3>1, <3>2, <3>3, <3>4, <3>5
  <2>3. q = s \/ q < s
    BY <1>6, <1>12
  <2> QED BY <2>1, <2>2, <2>3
<1> QED BY <1>3, <1>4, <1>6, <1>8, <1>9, <1>10, <1>11, <1>12 DEF TruncInv, Nothing

\* A segment behind the new end is removed.
LEMMA DropBlocks ==
  ASSUME MdInv, BlockInv, DropSegment
  PROVE  BlockInv'
<1>1. /\ pc = "truncate" /\ rest # <<>> /\ prior_blocks > call.b
      /\ at' = at + 1 /\ rest' = Tail(rest) /\ pc' = pc /\ call' = call /\ answer' = answer
      /\ \/ len' = [len EXCEPT ![Head(rest)] = -1] /\ damaged' = damaged
         \/ /\ len' = [len EXCEPT ![Head(rest)] = 0] \/ len' = len
            /\ damaged' = damaged \cup {call.r}
  BY DEF DropSegment
<1>2. /\ call.r \in Relations /\ Head(rest) = <<call.r, at - 1>> /\ at - 1 \in Segs
      /\ len \in [Files -> -1..Full] /\ \A r \in Relations : \A k \in Segs : <<r, k>> \in Files
      /\ LastSeg \in Nat /\ at - 1 \in Nat /\ at - 1 > LastSeg
  BY <1>1, InTruncate, TruncAt, LenType
<1>3. \A r \in Relations \ {call.r} : \A k \in Segs : len'[<<r, k>>] = len[<<r, k>>]
  <2>1. ASSUME NEW r \in Relations \ {call.r}, NEW k \in Segs
        PROVE  len'[<<r, k>>] = len[<<r, k>>]
    <3>1. <<r, k>> \in Files /\ <<r, k>> # Head(rest)
      BY <1>2
    <3> QED BY <1>1, <1>2, <3>1
  <2> QED BY <2>1
<1>4. TruncInv'
  <2>1. CASE call.r \notin damaged /\ damaged' = damaged /\ len' = [len EXCEPT ![Head(rest)] = -1]
    <3>1. \A k \in Segs : len'[<<call.r, k>>] = IF k = at - 1 THEN -1 ELSE len[<<call.r, k>>]
      BY <1>2, <2>1
    <3>2. ~(LastSeg > at - 1) /\ LastSeg # at - 1 /\ Nothing(-1)
      BY <1>2 DEF Nothing
    <3> QED BY <1>1, <2>1, <3>1, <3>2, TruncNext DEF BlockInv
  <2>2. CASE call.r \in damaged'
    BY <1>1, <2>2 DEF TruncInv
  <2> QED BY <1>1, <2>1, <2>2
<1> QED BY <1>1, <1>3, <1>4, TruncKeeps

\* A segment before the new end stays whole.
LEMMA KeepBlocks ==
  ASSUME MdInv, BlockInv, KeepSegment
  PROVE  BlockInv'
<1>1. /\ pc = "truncate" /\ rest # <<>> /\ ~LastWanted
      /\ at' = at + 1 /\ rest' = Tail(rest) /\ pc' = pc /\ call' = call /\ answer' = answer
      /\ len' = len /\ damaged' = damaged
  BY DEF KeepSegment, fileVars
<1>2. LastSeg \in Nat /\ at \in Nat /\ at <= LastSeg
  BY <1>1, TruncAt
<1>3. TruncInv'
  <2>1. CASE call.r \notin damaged
    <3>1. PICK l : l = len[<<call.r, at - 1>>]
      OBVIOUS
    <3>2. \A k \in Segs : len'[<<call.r, k>>] = IF k = at - 1 THEN l ELSE len[<<call.r, k>>]
      BY <1>1, <3>1
    <3>3. LastSeg # at - 1 /\ ~(LastSeg < at - 1)
      BY <1>2
    <3> QED BY <1>1, <2>1, <3>1, <3>2, <3>3, TruncNext DEF BlockInv
  <2>2. CASE call.r \in damaged
    BY <1>1, <2>2 DEF TruncInv
  <2> QED BY <2>1, <2>2
<1> QED BY <1>1, <1>3, TruncKeeps

\* The segment the relation shall end in gets its new length.
LEMMA CutBlocks ==
  ASSUME MdInv, BlockInv, CutSegment
  PROVE  BlockInv'
<1>1. PICK l : l = (call.b - prior_blocks) * BLCKSZ
  OBVIOUS
<1>2. /\ pc = "truncate" /\ rest # <<>> /\ ~(prior_blocks > call.b) /\ LastWanted
      /\ at' = at + 1 /\ rest' = Tail(rest) /\ pc' = pc /\ call' = call /\ answer' = answer
      /\ len' = [len EXCEPT ![Head(rest)] = l] /\ damaged' = damaged
  BY <1>1 DEF CutSegment
<1>3. /\ call.r \in Relations /\ Head(rest) = <<call.r, at - 1>> /\ at - 1 \in Segs
      /\ len \in [Files -> -1..Full] /\ \A r \in Relations : \A k \in Segs : <<r, k>> \in Files
      /\ LastSeg \in Nat /\ at - 1 \in Nat /\ at - 1 = LastSeg
  <2>1. /\ LastSeg \in Nat /\ at - 1 \in Nat /\ at \in Nat
        /\ ~(at - 1 > LastSeg) /\ at > LastSeg
    BY <1>2, TruncAt
  <2>2. at - 1 = LastSeg
    BY <2>1
  <2> QED BY <1>2, <2>1, <2>2, InTruncate, LenType
<1>4. \A r \in Relations \ {call.r} : \A k \in Segs : len'[<<r, k>>] = len[<<r, k>>]
  <2>1. ASSUME NEW r \in Relations \ {call.r}, NEW k \in Segs
        PROVE  len'[<<r, k>>] = len[<<r, k>>]
    <3>1. <<r, k>> \in Files /\ <<r, k>> # Head(rest)
      BY <1>3
    <3> QED BY <1>2, <1>3, <3>1
  <2> QED BY <2>1
<1>5. TruncInv'
  <2>1. CASE call.r \notin damaged
    <3>1. \A k \in Segs : len'[<<call.r, k>>] = IF k = at - 1 THEN l ELSE len[<<call.r, k>>]
      BY <1>2, <1>3
    <3>2. /\ ~(LastSeg > at - 1) /\ ~(LastSeg < at - 1)
          /\ l = (call.b - LastSeg * RELSEG_SIZE) * BLCKSZ
      BY <1>1, <1>3 DEF prior_blocks
    <3> QED BY <1>2, <2>1, <3>1, <3>2, TruncNext DEF BlockInv
  <2>2. CASE call.r \in damaged
    BY <1>2, <2>2 DEF TruncInv
  <2> QED BY <2>1, <2>2
<1> QED BY <1>2, <1>4, <1>5, TruncKeeps

\* It cannot be cut: nothing has changed.
LEMMA CutFailsBlocks ==
  ASSUME MdInv, BlockInv, CutFails
  PROVE  BlockInv'
<1>1. /\ pc = "truncate" /\ rest # <<>> /\ ~(prior_blocks > call.b)
      /\ Return(-1) /\ len' = len /\ damaged' = damaged
  BY DEF CutFails
<1>2. LastSeg \in Nat /\ at - 1 \in Nat /\ LastSeg >= at - 1
  BY <1>1, TruncAt
<1>3. pc' = "idle" /\ answer' = <<call, -1>>
  BY <1>1 DEF Return
<1>4. ASSUME NEW r \in Relations \ damaged' PROVE NothingBehind(r)'
  <2>1. CASE r # call.r
    BY <1>1, <1>4, <2>1, SegsSame DEF BlockInv, Cutting
  <2>2. CASE r = call.r
    <3>1. NothingBehind(r)
      BY <1>1, <1>2, <1>4, <2>2 DEF BlockInv, TruncInv
    <3> QED BY <1>1, <3>1, SegsSame
  <2> QED BY <2>1, <2>2
<1>5. AnswerInv'
  <2>1. answer'[2] = -1
    BY <1>3
  <2> QED BY <1>3, <2>1 DEF AnswerInv, TruncateExact
<1> QED BY <1>3, <1>4, <1>5 DEF BlockInv, TruncInv, UnlinkInv, SeekInv

\* The loop has ended: the relation ends in the block it was asked for.
LEMMA TruncatedIs ==
  ASSUME MdInv, TruncInv, pc = "truncate", rest = <<>>, call.r \notin damaged
  PROVE  NothingBehind(call.r) /\ Blocks(call.r) = call.b
<1>1. /\ len \in [Files -> -1..Full] /\ Full \in Nat /\ Segs \subseteq Nat
      /\ call.r \in Relations /\ call.b \in Nat /\ at \in Nat /\ at >= 1
      /\ Len(rest) = 0 /\ at + Len(rest) <= MaxSeg + 2
  <2>1. call.r \in Relations /\ call.b \in Nat /\ at \in Nat /\ at >= 1
        /\ at + Len(rest) <= MaxSeg + 2
    BY DEF MdInv, CallInv, RestInv
  <2> QED BY <2>1, LenType, EmptySeq
<1>2. PICK q \in Nat : q = LastSeg
  BY <1>1, Sizes, DivNat DEF LastSeg
<1>3. PICK d \in 0..(RELSEG_SIZE - 1) : call.b = q * RELSEG_SIZE + d
  <2>1. PICK b \in Nat : b = call.b
    BY <1>1
  <2>2. b % RELSEG_SIZE \in 0..(RELSEG_SIZE - 1)
        /\ b = (b \div RELSEG_SIZE) * RELSEG_SIZE + (b % RELSEG_SIZE)
    BY Sizes, DivMod
  <2> QED BY <1>2, <2>1, <2>2 DEF LastSeg
<1>4. q < at - 1 /\ q \in Segs /\ q * RELSEG_SIZE \in Int
  <2>1. LastSeg < at - 1 + Len(rest)
    BY DEF TruncInv
  <2>2. q < at - 1
    BY <1>1, <1>2, <2>1
  <2> QED BY <1>1, <2>2, Sizes, MulNext DEF Segs
<1>5. /\ \A k \in Segs : k < q => len[<<call.r, k>>] = Full
      /\ len[<<call.r, q>>] = (call.b - q * RELSEG_SIZE) * BLCKSZ
      /\ \A k \in Segs : q < k => Nothing(len[<<call.r, k>>])
  <2>1. /\ FullBefore(call.r, LastSeg)
        /\ NothingFrom(call.r, at - 1 + Len(rest))
        /\ LastSeg < at - 1 =>
             /\ len[<<call.r, LastSeg>>] = (call.b - LastSeg * RELSEG_SIZE) * BLCKSZ
             /\ \A k \in Segs : LastSeg < k /\ k < at - 1 => Nothing(len[<<call.r, k>>])
    BY DEF TruncInv
  <2>2. at - 1 + Len(rest) = at - 1
    BY <1>1
  <2>3. \A k \in Segs : k < at - 1 \/ k >= at - 1
    BY <1>1
  <2> QED BY <1>2, <1>4, <2>1, <2>2, <2>3 DEF FullBefore, NothingFrom
<1>6. len[<<call.r, q>>] = d * BLCKSZ
  <2>1. call.b - q * RELSEG_SIZE = d
    BY <1>3, <1>4, Sizes
  <2> QED BY <1>5, <2>1
<1>7. NothingBehind(call.r)
  <2>1. ASSUME NEW j \in Segs, NEW k \in Segs, j < k, len[<<call.r, j>>] < Full
        PROVE  Nothing(len[<<call.r, k>>])
    <3>1. ~(j < q)
      BY <1>1, <1>5, <2>1
    <3>2. q < k
      BY <1>1, <1>2, <2>1, <3>1
    <3> QED BY <1>5, <3>2
  <2> QED BY <2>1 DEF NothingBehind
<1>8. BlocksOf(len, call.r)[q] = d
  <2>1. (d * BLCKSZ + 0) \div BLCKSZ = d /\ d * BLCKSZ + 0 = d * BLCKSZ /\ d * BLCKSZ \in Int
    BY Sizes, DivUnique, MulNext
  <2>2. d * BLCKSZ > 0 \/ d = 0
    <3>1. d >= 1 => 1 * BLCKSZ <= d * BLCKSZ
      BY Sizes, MulMono
    <3> QED BY <2>1, <3>1, Sizes
  <2>3. BlocksOf(len, call.r)[q] = IF d * BLCKSZ > 0 THEN (d * BLCKSZ) \div BLCKSZ ELSE 0
    BY <1>4, <1>6 DEF BlocksOf
  <2>4. ~(d * BLCKSZ > 0) => d = 0
    BY <2>2
  <2> QED BY <2>1, <2>3, <2>4
<1>9. CountIn(len, call.r) = q * RELSEG_SIZE + BlocksOf(len, call.r)[q]
  <2>1. \A k \in Segs : k > q => len[<<call.r, k>>] <= 0
    <3>1. \A k \in Segs : k > q => q < k
      BY <1>1
    <3> QED BY <1>5, <3>1 DEF Nothing
  <2> QED BY <1>1, <1>4, <1>5, <2>1, CountOfFull
<1> QED BY <1>3, <1>7, <1>8, <1>9, BlocksCounted

\* md_truncate returns.
LEMMA TruncateBlocks ==
  ASSUME MdInv, BlockInv, md_truncate
  PROVE  BlockInv'
<1>1. /\ pc = "truncate" /\ rest = <<>> /\ Return(call.b) /\ len' = len /\ damaged' = damaged
  BY DEF md_truncate, fileVars
<1>2. pc' = "idle" /\ answer' = <<call, call.b>>
  BY <1>1 DEF Return
<1>3. call.r \notin damaged => NothingBehind(call.r) /\ Blocks(call.r) = call.b
  BY <1>1, TruncatedIs DEF BlockInv
<1>4. ASSUME NEW r \in Relations \ damaged' PROVE NothingBehind(r)'
  <2>1. NothingBehind(r)
    BY <1>1, <1>3, <1>4 DEF BlockInv, Cutting
  <2> QED BY <1>1, <2>1, SegsSame
<1>5. TruncateExact'
  <2>1. PICK q : q = call.r
    OBVIOUS
  <2>2. answer'[1] = call /\ answer'[2] = call.b
    BY <1>2
  <2>3. q \notin damaged' => Blocks(q)' = call.b
    <3>1. Blocks(q)' = Blocks(q)
      BY <1>1, BlocksCounted
    <3> QED BY <1>1, <1>3, <2>1, <3>1
  <2> SUFFICES ASSUME answer'[1].r \notin damaged'
               PROVE  answer'[2] = answer'[1].b /\ Blocks(answer[1].r)' = answer'[1].b
    BY DEF TruncateExact
  <2>4. Blocks(answer[1].r)' = Blocks(q)'
    BY <2>1, <2>2, BlocksCounted
  <2> QED BY <2>1, <2>2, <2>3, <2>4
<1> QED BY <1>2, <1>4, <1>5 DEF BlockInv, TruncInv, UnlinkInv, SeekInv, AnswerInv

-----------------------------------------------------------------------------
(* The theorems about blocks.                                              *)

\* No relation has a block at first.
LEMMA InitIsBlockInv == Init => BlockInv
<1> SUFFICES ASSUME Init PROVE BlockInv
  OBVIOUS
<1>1. pc = "idle" /\ answer[1].op = "none" /\ len = [f \in Files |-> -1]
  BY DEF Init, None
<1>2. \A r \in Relations : \A k \in Segs : len[<<r, k>>] = -1
  BY <1>1 DEF Files
<1>3. \A r \in Relations : NothingBehind(r)
  BY <1>2 DEF NothingBehind, Nothing
<1> QED BY <1>1, <1>3 DEF BlockInv, TruncInv, UnlinkInv, SeekInv, AnswerInv, TruncateExact

\* Every step keeps it.
LEMMA NextKeepsBlockInv == MdInv /\ BlockInv /\ [Next]_vars => BlockInv'
<1> SUFFICES ASSUME MdInv, BlockInv, [Next]_vars PROVE BlockInv'
  OBVIOUS
<1>0. 0..((MaxSeg + 1) * RELSEG_SIZE - 1) \subseteq Nat
  BY Sizes, MulNext
<1>1. ASSUME NEW r \in Relations, md_create(r) PROVE BlockInv'
  BY <1>1, CreateBlocks
<1>2. ASSUME NEW r \in Relations, BeginUnlink(r) PROVE BlockInv'
  BY <1>2, BeginUnlinkBlocks
<1>3. ASSUME NEW r \in Relations, OtherExtends(r) PROVE BlockInv'
  BY <1>3, OtherExtendsBlocks
<1>4. ASSUME NEW r \in Relations, NEW b \in 0..((MaxSeg + 1) * RELSEG_SIZE - 1),
             \/ \E op \in Ops : Begin(op, r, b)
             \/ \E op \in {"blind", "blindsync"} : md_blind_wrt(op, r, b)
             \/ md_blind_mark_dirty(r, b)
      PROVE  BlockInv'
  <2>1. b \in Nat
    BY <1>0
  <2>2. CASE \E op \in Ops : Begin(op, r, b)
    BY <2>1, <2>2, BeginCalm
  <2>3. CASE (\E op \in {"blind", "blindsync"} : md_blind_wrt(op, r, b)) \/ md_blind_mark_dirty(r, b)
    BY <2>1, <2>3, BlindCalm
  <2> QED BY <1>4, <2>2, <2>3
<1>5. CASE md_open
  BY <1>5, OpenBlocks
<1>6. CASE md_open_fails \/ md_fd_open_seg_fails \/ SeekAborts \/ Die
  <2>1. /\ Crash /\ len' = len /\ damaged \subseteq damaged'
        /\ pc \in {"truncate", "unlink"} => call.r \in damaged'
    BY <1>6 DEF md_open_fails, md_fd_open_seg_fails, SeekAborts, Die
  <2> QED BY <2>1, CrashBlocks
<1>7. CASE md_nblocks \/ md_nblocks_aux_fails
  BY <1>7, NblocksBlocks
<1>8. CASE md_fd_open_seg \/ md_fd_get_seg
  BY <1>8, OpenSegBlocks, GetSegCalm
<1>9. CASE md_read \/ md_write \/ TransferFails \/ md_mark_dirty \/ md_extend_fails
  BY <1>9, TransfersCalm
<1>10. CASE md_extend
  BY <1>10, ExtendBlocks
<1>11. CASE DropSegment \/ CutSegment \/ CutFails \/ KeepSegment \/ md_truncate
  BY <1>11, DropBlocks, CutBlocks, CutFailsBlocks, KeepBlocks, TruncateBlocks
<1>12. CASE BeginCommit \/ md_commit
  BY <1>12, BeginCommitCalm, CommitCalm
<1>13. CASE md_close \/ \E f \in Files : Evict(f)
  BY <1>13, CloseCalm
<1>14. CASE md_unlink
  BY <1>14, UnlinkBlocks
<1>15. CASE md_abort
  BY <1>15, BlindCalm
<1>16. CASE UNCHANGED vars
  BY <1>16, NothingKeeps DEF vars, fileVars, callVars
<1> QED
  BY <1>1, <1>2, <1>3, <1>4, <1>5, <1>6, <1>7, <1>8, <1>9, <1>10, <1>11, <1>12,
     <1>13, <1>14, <1>15, <1>16 DEF Next

\* BlockInv is an invariant of the storage manager, for any size of a segment
\* and of a block, and however far readers read behind the end.
THEOREM BlockInvariant == Spec => []BlockInv
BY InitIsBlockInv, NextKeepsBlockInv, MdInvariant, PTL DEF Spec

\* A truncation of md_truncate that succeeds leaves the number of blocks it was
\* asked for, whatever the boundary of segments it falls on, in a relation no
\* earlier call has damaged.
THEOREM TruncationsAreExact == Spec => []TruncateExact
<1>1. BlockInv => TruncateExact
  BY DEF BlockInv, AnswerInv
<1> QED BY <1>1, BlockInvariant, PTL

\* Where callers read no further than the block right behind the end of a
\* relation, no block lies behind a segment that is not
\* full, and no segment is missing in the middle.
THEOREM BlocksAreContiguous == ReadAhead = 0 /\ Spec => []BlocksContiguous
<1>1. ReadAhead = 0 /\ MdInv /\ BlockInv => BlocksContiguous
  <2> SUFFICES ASSUME ReadAhead = 0, MdInv, BlockInv, NEW r \in Relations \ damaged,
                      ~(call.r = r /\ call.op \in {"truncate", "unlink"}),
                      NEW j \in Segs, NEW k \in Segs, j < k
               PROVE  /\ len[<<r, j>>] < Full => len[<<r, k>>] <= 0
                      /\ len[<<r, j>>] = -1 => len[<<r, k>>] = -1
    BY DEF BlocksContiguous
  <2>1. ~Cutting(r)
    BY OpOfStep DEF Cutting, BlockInv, AnswerInv
  <2>2. NothingBehind(r)
    BY <2>1 DEF BlockInv
  <2>3. -1 < Full /\ -1 <= 0
    BY Sizes
  <2> QED BY <2>2, <2>3 DEF NothingBehind, Nothing
<1>2. ReadAhead = 0 => (MdInv /\ BlockInv => BlocksContiguous)
  BY <1>1
<1>3. CASE ReadAhead = 0
  <2>1. MdInv /\ BlockInv => BlocksContiguous
    BY <1>2, <1>3
  <2>2. Spec => []BlocksContiguous
    BY <2>1, MdInvariant, BlockInvariant, PTL
  <2> QED BY <2>2
<1>4. CASE ReadAhead # 0
  BY <1>4
<1> QED BY <1>3, <1>4

\* Only md_extend returns success from a call of md_extend.
LEMMA ExtendAnswers ==
  ASSUME MdInv, BlockInv, Next, answer' # answer, answer'[1].op = "extend", answer'[2] = 1
  PROVE  md_extend
<1>1. /\ pc \in {"close", "unlink", "commit", "truncate"} => call.op = pc
      /\ pc \in Transfers => call.op = pc
      /\ None.op = "none"
  BY OpOfStep DEF BlockInv, AnswerInv, None
<1>2. ASSUME NEW v, Return(v) PROVE call.op = "extend" /\ v = 1
  BY <1>2 DEF Return
<1>3. ASSUME NEW r \in Relations, md_create(r) \/ BeginUnlink(r) \/ OtherExtends(r) PROVE FALSE
  <2>1. CASE md_create(r)
    <3>1. answer'[1].op = "create"
      BY <2>1 DEF md_create
    <3> QED BY <3>1
  <2>2. CASE BeginUnlink(r) \/ OtherExtends(r)
    BY <1>1, <2>2 DEF BeginUnlink, OtherExtends
  <2> QED BY <1>3, <2>1, <2>2
<1>4. ASSUME NEW r \in Relations, NEW b \in 0..((MaxSeg + 1) * RELSEG_SIZE - 1),
             \/ \E op \in Ops : Begin(op, r, b)
             \/ \E op \in {"blind", "blindsync"} : md_blind_wrt(op, r, b)
             \/ md_blind_mark_dirty(r, b)
      PROVE  FALSE
  BY <1>1, <1>4 DEF Begin, md_blind_wrt, md_blind_mark_dirty
<1>5. CASE md_open \/ md_fd_open_seg \/ md_fd_get_seg \/ DropSegment \/ CutSegment \/ KeepSegment
  BY <1>5 DEF md_open, md_fd_open_seg, md_fd_get_seg, DropSegment, CutSegment, KeepSegment, Goto
<1>6. CASE md_open_fails \/ md_fd_open_seg_fails \/ SeekAborts \/ Die
  BY <1>1, <1>6 DEF md_open_fails, md_fd_open_seg_fails, SeekAborts, Die, Crash
<1>7. CASE md_nblocks \/ md_nblocks_aux_fails
  <2>0. pc = "count" /\ at - 1 \in Int /\ call.b \in Nat /\ len[Cur] \in Int
    <3>1. pc = "count"
      BY <1>7 DEF md_nblocks, md_nblocks_aux_fails
    <3> QED BY <3>1, AtSegment, Sizes DEF MdInv, CallInv
  <2>1. ASSUME NEW n \in Int, Counted(n) PROVE FALSE
    <3>1. CASE call.op = "extend"
      BY <2>1, <3>1 DEF Counted
    <3>2. CASE call.op # "extend"
      <4>1. answer' = answer \/ \E v : Return(v)
        <5>1. call.b < n \/ call.b >= n
          BY <2>0, <2>1
        <5> QED BY <2>1, <3>2, <5>1 DEF Counted
      <4> QED BY <1>2, <3>2, <4>1
    <3> QED BY <3>1, <3>2
  <2>2. answer' = answer \/ \E n \in Int : Counted(n)
    <3>1. (at - 1) * RELSEG_SIZE \in Int
      BY <2>0, Sizes, MulNext
    <3>2. len[Cur] \div BLCKSZ \in Int
      BY <2>0, Sizes, DivMod
    <3>3. (at - 1) * RELSEG_SIZE + len[Cur] \div BLCKSZ \in Int
      BY <3>1, <3>2
    <3>4. \/ answer' = answer
          \/ Counted((at - 1) * RELSEG_SIZE + len[Cur] \div BLCKSZ)
          \/ Counted((at - 1) * RELSEG_SIZE)
      BY <1>7 DEF md_nblocks, md_nblocks_aux_fails, Goto
    <3> QED BY <3>1, <3>3, <3>4
  <2> QED BY <2>1, <2>2
<1>8. CASE md_read \/ md_write \/ md_mark_dirty
  <2>1. pc \in {"read", "write", "flush", "mark"} /\ (answer' = answer \/ \E v : Return(v))
    BY <1>8 DEF md_read, md_write, md_mark_dirty, Goto
  <2> QED BY <1>1, <1>2, <2>1 DEF Transfers
<1>9. CASE TransferFails \/ md_extend_fails
  BY <1>2, <1>9 DEF TransferFails, md_extend_fails
<1>10. CASE CutFails \/ md_truncate
  <2>1. pc = "truncate" /\ \E v : Return(v)
    BY <1>10 DEF CutFails, md_truncate
  <2> QED BY <1>1, <1>2, <2>1
<1>11. CASE BeginCommit \/ md_abort
  BY <1>1, <1>11 DEF BeginCommit, md_abort
<1>12. CASE md_commit \/ md_close \/ md_unlink
  <2>1. pc \in {"commit", "close", "unlink"} /\ (answer' = answer \/ \E v : Return(v))
    BY <1>12 DEF md_commit, md_close, md_unlink, Goto, callVars
  <2> QED BY <1>1, <1>2, <2>1
<1>13. ASSUME NEW f \in Files, Evict(f) PROVE FALSE
  BY <1>13 DEF Evict, callVars
<1> QED BY <1>3, <1>4, <1>5, <1>6, <1>7, <1>8, <1>9, <1>10, <1>11, <1>12, <1>13 DEF Next

\* The units of a length, cut down to whole blocks and one block longer.
LEMMA OneBlockMore ==
  ASSUME NEW l \in Nat, NEW n, n = l - (l % BLCKSZ) + BLCKSZ
  PROVE  (IF n > 0 THEN n \div BLCKSZ ELSE 0) = (IF l > 0 THEN l \div BLCKSZ ELSE 0) + 1
<1>1. BLCKSZ \in Nat \ {0}
  BY Sizes
<1>2. PICK q \in Nat : q = l \div BLCKSZ
  BY <1>1, DivNat
<1>3. l % BLCKSZ \in 0..(BLCKSZ - 1) /\ l = q * BLCKSZ + (l % BLCKSZ)
  BY <1>1, <1>2, DivMod
<1>4. q * BLCKSZ \in Int /\ (q + 1) * BLCKSZ = q * BLCKSZ + BLCKSZ
  BY <1>1, MulNext
<1>5. n = (q + 1) * BLCKSZ + 0 /\ n = q * BLCKSZ + BLCKSZ
  BY <1>1, <1>3, <1>4
<1>6. n \div BLCKSZ = q + 1
  BY <1>1, <1>5, DivUnique
<1>7. 0 <= q * BLCKSZ
  <2>1. 0 * BLCKSZ <= q * BLCKSZ /\ 0 * BLCKSZ = 0
    BY <1>1, MulMono
  <2> QED BY <2>1
<1>8. n > 0
  BY <1>1, <1>4, <1>5, <1>7
<1>9. l = 0 => q = 0
  <2>1. (0 * BLCKSZ + 0) \div BLCKSZ = 0 /\ 0 * BLCKSZ + 0 = 0
    BY <1>1, DivUnique
  <2> QED BY <1>2, <2>1
<1> QED BY <1>2, <1>6, <1>8, <1>9

\* It makes the relation one block longer.
LEMMA ExtendAdds ==
  ASSUME MdInv, MdInv', md_extend, answer'[2] = 1
  PROVE  answer'[1].r = call.r /\ CountIn(len', call.r) = CountIn(len, call.r) + 1
<1>1. /\ call.r \in Relations /\ Cur = <<call.r, at - 1>> /\ at - 1 \in Segs
      /\ len[Cur] \in 0..Full
  BY ExtendAt
<1>2. PICK l \in Nat : l = len[Cur]
  BY <1>1, Sizes
<1>3. PICK n : n = l - (l % BLCKSZ) + BLCKSZ
  OBVIOUS
<1>4. len' = [len EXCEPT ![Cur] = n]
  <2>1. \A v : Return(v) => v = 1
    BY DEF Return
  <2>2. len' = [len EXCEPT ![Cur] = (len[Cur] - (len[Cur] % BLCKSZ)) + BLCKSZ]
    BY <2>1 DEF md_extend
  <2> QED BY <1>2, <1>3, <2>2
<1>5. len \in [Files -> -1..Full] /\ len' \in [Files -> -1..Full]
  BY DEF MdInv, LenInv
<1>6. PICK x \in Segs : x = at - 1
  BY <1>1
<1>7. PICK q \in Relations : q = call.r
  BY <1>1
<1>8. <<q, x>> \in Files /\ Cur = <<q, x>>
  BY <1>1, <1>6, <1>7 DEF Files
<1>9. len[<<q, x>>] = l /\ len'[<<q, x>>] = n
      /\ \A k \in Segs : k # x => len'[<<q, k>>] = len[<<q, k>>]
  <2>1. ASSUME NEW k \in Segs, k # x PROVE len'[<<q, k>>] = len[<<q, k>>]
    <3>1. <<q, k>> \in Files /\ <<q, k>> # <<q, x>>
      BY <2>1 DEF Files
    <3> QED BY <1>4, <1>5, <1>8, <3>1
  <2> QED BY <1>2, <1>4, <1>5, <1>8, <2>1
<1>10. BlocksOf(len', q)[x] = BlocksOf(len, q)[x] + 1
  <2>1. /\ BlocksOf(len', q)[x] = IF n > 0 THEN n \div BLCKSZ ELSE 0
        /\ BlocksOf(len, q)[x] = IF l > 0 THEN l \div BLCKSZ ELSE 0
    BY <1>9 DEF BlocksOf
  <2> QED BY <1>3, <2>1, OneBlockMore
<1>11. CountIn(len', q) = CountIn(len, q) + 1
  BY <1>5, <1>9, <1>10, CountChanges
<1>12. answer'[1] = call
  BY DEF md_extend, Return
<1> QED BY <1>7, <1>11, <1>12

\* md_extend, when it succeeds, makes the relation one block longer, at any
\* boundary of segments and behind any incomplete block.
THEOREM ExtendAddsABlock == Spec => ExtendAddsOne
<1>1. MdInv /\ MdInv' /\ BlockInv /\ [Next]_vars =>
        [\A r \in Relations :
           answer' # answer /\ answer'[1].op = "extend" /\ answer'[1].r = r /\ answer'[2] = 1
             => Blocks(r)' = Blocks(r) + 1]_vars
  <2> SUFFICES ASSUME MdInv, MdInv', BlockInv, Next, NEW r \in Relations, answer' # answer,
                      answer'[1].op = "extend", answer'[1].r = r, answer'[2] = 1
               PROVE  Blocks(r)' = Blocks(r) + 1
    OBVIOUS
  <2>1. md_extend
    BY ExtendAnswers
  <2>2. answer'[1].r = call.r /\ CountIn(len', call.r) = CountIn(len, call.r) + 1
    BY <2>1, ExtendAdds
  <2>3. CountIn(len', r) = CountIn(len, r) + 1
    BY <2>2
  <2> QED BY <2>3, BlocksCounted
<1> QED BY <1>1, MdInvariant, BlockInvariant, PTL DEF Spec, ExtendAddsOne
=============================================================================
