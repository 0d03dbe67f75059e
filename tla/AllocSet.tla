------------------------------ MODULE AllocSet ------------------------------
(***************************************************************************)
(* One allocation set of utils/mmgr/aset.c, down to the cells of memory.   *)
(*                                                                         *)
(* A block is a number; block b has endptr[b] cells, of which those before *)
(* freeptr[b] are in use.  A chunk is <<b, o>>: its header begins at cell  *)
(* o of block b, its data CHUNK_HDR cells later.  The set is one record,   *)
(* so that alloc_set_realloc can be written as it is coded: allocate,      *)
(* copy, free.  The build has MEMORY_CONTEXT_CHECKING and                  *)
(* CLOBBER_FREED_MEMORY (config.h): a chunk remembers the size that was    *)
(* asked for, a mark follows the data, and freed memory is wiped.          *)
(*                                                                         *)
(* elog() returns, so a malloc that fails is followed by a store through   *)
(* NULL: the process is dead.                                              *)
(***************************************************************************)
EXTENDS Integers, Sequences, SequencesExt, FiniteSetsExt, TLC

CONSTANTS
  Handles,              \* the pointers callers hold
  Sizes,                \* sizes they ask for
  ALLOC_MIN_BITS, NUM_FREELISTS,
  BLOCK_HDR, CHUNK_HDR, \* sizes of the headers, aligned
  Align,                \* what MAX_ALIGN rounds up to
  MIN_BLOCK,            \* the minimum that init_block_size is raised to (1024)
  MEG,                  \* below this a failed malloc is not retried (1024 * 1024)
  min_context_size, init_size, max_size,   \* arguments of context creation
  MaxBlocks             \* bound: blocks that exist at one time

ASSUME AllocAssumption ==
  /\ {ALLOC_MIN_BITS, min_context_size, init_size, max_size, MEG} \subseteq Nat
  /\ {NUM_FREELISTS, BLOCK_HDR, CHUNK_HDR, Align, MIN_BLOCK, MaxBlocks} \subseteq Nat \ {0}
  /\ Sizes \subseteq Nat

ALLOC_CHUNK_LIMIT == 2^(NUM_FREELISTS - 1 + ALLOC_MIN_BITS)
MAX_ALIGN(n) == ((n + Align - 1) \div Align) * Align
ChunkSize(f) == 2^(f + ALLOC_MIN_BITS)

init_block_size == Max({MAX_ALIGN(init_size), MIN_BLOCK})
max_block_size == Max({MAX_ALIGN(max_size), init_block_size})

NULL == 0
NoChunk == <<>>         \* a caller's pointer that points at nothing
Lists == 0..NUM_FREELISTS - 1
BlockIds == 1..MaxBlocks

VARIABLES
  set,                  \* the set, with the memory it has from malloc
  ptr,                  \* the chunk of each caller's pointer
  dead

asetVars == <<set, ptr, dead>>

NoSet == [blocks |-> <<>>, keeper |-> NULL, freelist |-> [f \in Lists |-> <<>>],
          freeptr |-> [b \in BlockIds |-> 0], endptr |-> [b \in BlockIds |-> 0],
          chunk |-> <<>>, mem |-> [b \in BlockIds |-> <<>>]]

Held == {h \in Handles : ptr[h] # NoChunk}

-----------------------------------------------------------------------------
(* malloc, and memory as cells.                                            *)

\* Cells fresh from malloc hold anything: "?".
Fresh(n) == [i \in 0..n - 1 |-> "?"]
FreeBlocks(s) == {b \in BlockIds : s.endptr[b] = 0}
NewBlock(s) == Min(FreeBlocks(s))

\* Cells lo..hi - 1 of block b all become v.
Fill(s, b, lo, hi, v) ==
  [s EXCEPT !.mem[b] = [i \in DOMAIN @ |-> IF lo <= i /\ i < hi THEN v ELSE @[i]]]

\* The cell of chunk c's data at position i.
Cell(s, c, i) == s.mem[c[1]][c[2] + CHUNK_HDR + i]

\* free(block).
Release(s, b) ==
  [s EXCEPT !.endptr[b] = 0, !.freeptr[b] = 0, !.mem[b] = <<>>,
            !.chunk = [c \in {d \in DOMAIN @ : d[1] # b} |-> @[c]]]

\* The header of chunk c is written for a request of n: size, requested size
\* and the mark behind the data.
Stamp(s, c, sz, n) ==
  LET t == [s EXCEPT !.chunk = (c :> [size |-> sz, req |-> n]) @@ @]
      end == c[2] + CHUNK_HDR + n
  IN  IF n < sz THEN Fill(t, c[1], end, end + 1, "7E") ELSE t

\* What a caller does with memory it has got: it writes the cells from the
\* lo-th on that are new to it.
Write(s, c, h, lo) ==
  Fill(s, c[1], c[2] + CHUNK_HDR + lo, c[2] + CHUNK_HDR + s.chunk[c].req, h)

-----------------------------------------------------------------------------
(* alloc_set_alloc.                                                        *)

\* The free list for chunks of at least size.
alloc_set_free_index(size) ==
  CHOOSE f \in 0..size : ChunkSize(f) >= size /\ (f = 0 \/ ChunkSize(f - 1) < size)

\* A request above the limit gets a block of its own, put underneath the
\* active one.
AllocBig(s, n) ==
  LET b == NewBlock(s)
      total == MAX_ALIGN(n) + BLOCK_HDR + CHUNK_HDR
      t == [s EXCEPT !.endptr[b] = total, !.freeptr[b] = total, !.mem[b] = Fresh(total),
                     !.blocks = IF @ = <<>> THEN <<b>> ELSE <<@[1], b>> \o Tail(@)]
  IN  [set |-> Stamp(t, <<b, BLOCK_HDR>>, MAX_ALIGN(n), n), p |-> <<b, BLOCK_HDR>>]

\* The places on free list f of chunks that a request of n could take; the
\* first is taken.  Mutant: it stays on the list.
Fits(s, f, n) == {i \in 1..Len(s.freelist[f]) : s.chunk[s.freelist[f][i]].size >= n}

Reuse_keep(s, f, n) ==
  LET c == s.freelist[f][Min(Fits(s, f, n))]
  IN  [set |-> Stamp(s, c, s.chunk[c].size, n), p |-> c]

Reuse(s, f, n) ==
  LET i == Min(Fits(s, f, n))
      c == s.freelist[f][i]
  IN  [set |-> Stamp([s EXCEPT !.freelist[f] = RemoveAt(@, i)], c, s.chunk[c].size, n),
       p |-> c]

\* The space left in the active block is carved into chunks for the free
\* lists, the largest first; cut[n] is their list indexes.
cut[n \in Nat] ==
  IF n < ChunkSize(0) + CHUNK_HDR THEN <<>>
  ELSE LET avail == n - CHUNK_HDR
           i == alloc_set_free_index(avail)
           f == IF avail # ChunkSize(i) THEN i - 1 ELSE i
       IN  <<f>> \o cut[n - ChunkSize(f) - CHUNK_HDR]

\* One chunk of the remainder goes to its free list.
CarveOne(s, f) ==
  LET b == s.blocks[1]
      t == [s EXCEPT !.chunk = (<<b, s.freeptr[b]>> :> [size |-> ChunkSize(f), req |-> 0]) @@ @,
                     !.freelist[f] = <<<<b, s.freeptr[b]>>>> \o @]
  IN  [t EXCEPT !.freeptr[b] = @ + ChunkSize(f) + CHUNK_HDR]

Carve(s) ==
  IF s.blocks = <<>> THEN s
  ELSE FoldLeft(CarveOne, s, cut[s.endptr[s.blocks[1]] - s.freeptr[s.blocks[1]]])

\* The size of the next regular block.
NextBlockSize(s, required) ==
  LET prior == s.endptr[s.blocks[1]]
      wanted == IF s.blocks = <<>> \/ prior < init_block_size THEN init_block_size
                ELSE Min({2 * prior, max_block_size})
  IN  Max({wanted, required})

\* malloc may fail; a size above MEG is halved as long as it suffices.
Granted(size, required) ==
  {size} \cup {size \div 2^i : i \in {j \in 1..size :
     /\ \A k \in 0..j - 1 : size \div 2^k > MEG
     /\ size \div 2^j >= required}}

\* A chunk for list f at the free end of the active block.
TakeChunk(s, f, n) ==
  LET b == s.blocks[1]
      c == <<b, s.freeptr[b]>>
  IN  [set |-> Stamp([s EXCEPT !.freeptr[b] = @ + ChunkSize(f) + CHUNK_HDR], c, ChunkSize(f), n),
       p |-> c]

\* Mutant: exactly enough room for the data counts as room for the chunk.
RoomInActive_data(s, f) ==
  /\ s.blocks # <<>>
  /\ s.endptr[s.blocks[1]] - s.freeptr[s.blocks[1]] >= ChunkSize(f)

RoomInActive(s, f) ==
  /\ s.blocks # <<>>
  /\ s.endptr[s.blocks[1]] - s.freeptr[s.blocks[1]] >= ChunkSize(f) + CHUNK_HDR

\* A new regular block becomes the active one.
AddBlock(s, size) ==
  LET b == NewBlock(s)
  IN  [s EXCEPT !.endptr[b] = size, !.freeptr[b] = BLOCK_HDR, !.mem[b] = Fresh(size),
                !.blocks = <<b>> \o @]

\* Does a request of n go to malloc?
NeedsBlock(s, n) ==
  n <= ALLOC_CHUNK_LIMIT
    => LET f == alloc_set_free_index(n) IN Fits(s, f, n) = {} /\ ~RoomInActive(s, f)

\* alloc_set_alloc: the outcomes of a request of n that is granted.
alloc_set_alloc(s, n) ==
  LET f == alloc_set_free_index(n)
      required == ChunkSize(f) + BLOCK_HDR + CHUNK_HDR
  IN  IF n > ALLOC_CHUNK_LIMIT THEN {AllocBig(s, n)}
      ELSE IF Fits(s, f, n) # {} THEN {Reuse(s, f, n)}
      ELSE IF RoomInActive(s, f) THEN {TakeChunk(s, f, n)}
      ELSE {TakeChunk(AddBlock(Carve(s), size), f, n) :
              size \in Granted(NextBlockSize(s, required), required)}

-----------------------------------------------------------------------------
(* alloc_set_free, alloc_set_realloc, alloc_set_reset, alloc_set_delete.   *)

Without(q, b) == SelectSeq(q, LAMBDA x : x # b)

\* Mutant: the mark of the chunk as free is forgotten.
alloc_set_free_keepreq(s, c) ==
  LET b == c[1]
      f == alloc_set_free_index(s.chunk[c].size)
      data == c[2] + CHUNK_HDR
  IN  IF s.chunk[c].size > ALLOC_CHUNK_LIMIT
      THEN Release([s EXCEPT !.blocks = Without(@, b)], b)
      ELSE Fill([s EXCEPT !.freelist[f] = <<c>> \o @],
                b, data, data + s.chunk[c].size, "7F")

alloc_set_free(s, c) ==
  LET b == c[1]
      f == alloc_set_free_index(s.chunk[c].size)
      data == c[2] + CHUNK_HDR
  IN  IF s.chunk[c].size > ALLOC_CHUNK_LIMIT
      THEN Release([s EXCEPT !.blocks = Without(@, b)], b)
      ELSE Fill([s EXCEPT !.freelist[f] = <<c>> \o @, !.chunk[c].req = 0],
                b, data, data + s.chunk[c].size, "7F")

\* The block of a big chunk is enlarged by realloc(3), in place or elsewhere;
\* it keeps its position in the list.
GrowBlock(s, c, n) ==
  LET b == c[1]
      total == MAX_ALIGN(n) + BLOCK_HDR + CHUNK_HDR
      old == s.mem[b]
      t == [s EXCEPT !.endptr[b] = total, !.freeptr[b] = total,
                     !.mem[b] = [i \in 0..total - 1 |-> IF i \in DOMAIN old THEN old[i] ELSE "?"]]
  IN  [set |-> Stamp(t, c, MAX_ALIGN(n), n), p |-> c]

\* The last chunk of the active block is enlarged in place.
CanStretch(s, c, n) ==
  LET sz == s.chunk[c].size
      top == s.blocks[1]
  IN  /\ n <= ALLOC_CHUNK_LIMIT
      /\ c[1] = top /\ c[2] + CHUNK_HDR + sz = s.freeptr[top]
      /\ s.endptr[top] - s.freeptr[top] >= ChunkSize(alloc_set_free_index(n)) - sz

Stretch(s, c, n) ==
  LET new == ChunkSize(alloc_set_free_index(n))
  IN  [set |-> Stamp([s EXCEPT !.freeptr[c[1]] = @ + new - s.chunk[c].size], c, new, n), p |-> c]

\* Allocate, copy old_size cells, free.  Mutant: freed before it is copied.
Move_early(s, c, n) ==
  {[set |-> LET t == alloc_set_free(r.set, c)
            IN [t EXCEPT !.mem[r.p[1]] =
                 [i \in DOMAIN @ |->
                    LET k == i - r.p[2] - CHUNK_HDR
                    IN  IF k \in 0..s.chunk[c].size - 1 THEN Cell(t, c, k) ELSE @[i]]],
    p |-> r.p] : r \in alloc_set_alloc(s, n)}

Move(s, c, n) ==
  {[set |-> alloc_set_free(
              [r.set EXCEPT !.mem[r.p[1]] =
                 [i \in DOMAIN @ |->
                    LET k == i - r.p[2] - CHUNK_HDR
                    IN  IF k \in 0..s.chunk[c].size - 1 THEN Cell(r.set, c, k) ELSE @[i]]], c),
    p |-> r.p] : r \in alloc_set_alloc(s, n)}

\* alloc_set_realloc.  The mark of the new chunk is not rewritten after the
\* copy.
alloc_set_realloc(s, c, n) ==
  LET sz == s.chunk[c].size
  IN  IF sz >= n THEN {[set |-> Stamp(s, c, sz, n), p |-> c]}
      ELSE IF sz > ALLOC_CHUNK_LIMIT THEN {GrowBlock(s, c, n)}
      ELSE IF CanStretch(s, c, n) THEN {Stretch(s, c, n)}
      ELSE Move(s, c, n)

\* alloc_set_reset frees every block but the keeper.
alloc_set_reset(s) ==
  LET k == s.keeper
  IN  IF k = NULL THEN NoSet
      ELSE [NoSet EXCEPT !.blocks = <<k>>, !.keeper = k, !.freeptr[k] = BLOCK_HDR,
                         !.endptr[k] = s.endptr[k],
                         !.mem[k] = [i \in DOMAIN s.mem[k] |->
                                       IF BLOCK_HDR <= i /\ i < s.freeptr[k]
                                       THEN "7F" ELSE s.mem[k][i]]]

\* alloc_set_delete frees them all.
alloc_set_delete(s) == FoldSet(LAMBDA b, t : Release(t, b),
                               [s EXCEPT !.freelist = NoSet.freelist, !.blocks = <<>>, !.keeper = NULL],
                               Range(s.blocks))

\* alloc_set_context_create: the keeper block, if there is to be one.
alloc_set_context_create ==
  IF min_context_size <= BLOCK_HDR + CHUNK_HDR THEN NoSet
  ELSE [AddBlock(NoSet, MAX_ALIGN(min_context_size)) EXCEPT !.keeper = 1]

-----------------------------------------------------------------------------
(* What alloc_set_check and alloc_set_stats see.                           *)

\* The chunks that the walk over block b meets, header by header.
walk(s, b) ==
  LET from[o \in Nat] == IF o >= s.freeptr[b] THEN {}
                         ELSE IF <<b, o>> \notin DOMAIN s.chunk THEN {o}
                         ELSE {o} \cup from[o + CHUNK_HDR + s.chunk[<<b, o>>].size]
  IN  from[BLOCK_HDR]

SumOf(S, F(_)) == FoldSet(LAMBDA x, acc : acc + F(x), 0, S)

\* alloc_set_check has nothing to report.
alloc_set_check(s) ==
  \A b \in Range(s.blocks) :
    LET used == s.freeptr[b] - BLOCK_HDR
        offs == walk(s, b)
    IN  /\ used = 0 => b = s.keeper
        /\ \A o \in offs :
             LET c == <<b, o>> IN
             /\ c \in DOMAIN s.chunk
             /\ s.chunk[c].req <= s.chunk[c].size
             /\ s.chunk[c].size >= ChunkSize(0)
             /\ s.chunk[c].size > ALLOC_CHUNK_LIMIT => s.chunk[c].size + CHUNK_HDR = used
             /\ (s.chunk[c].req > 0 /\ s.chunk[c].req < s.chunk[c].size)
                  => Cell(s, c, s.chunk[c].req) = "7E"
        /\ SumOf(offs, LAMBDA o : s.chunk[<<b, o>>].size + CHUNK_HDR) = used

\* alloc_set_stats: the space it calls used.
alloc_set_stats(s) ==
  LET total == SumOf(Range(s.blocks), LAMBDA b : s.endptr[b])
      ends == SumOf(Range(s.blocks), LAMBDA b : s.endptr[b] - s.freeptr[b])
      listed == SumOf(Lists, LAMBDA f :
                  SumOf(1..Len(s.freelist[f]), LAMBDA i : s.chunk[s.freelist[f][i]].size + CHUNK_HDR))
  IN  total - ends - listed

-----------------------------------------------------------------------------
(* The set and its callers.                                                *)

ASetInit ==
  /\ set = alloc_set_context_create
  /\ ptr = [h \in Handles |-> NoChunk]
  /\ dead = FALSE

\* palloc.
Alloc(h, n) ==
  /\ ~dead /\ ptr[h] = NoChunk
  /\ NeedsBlock(set, n) => FreeBlocks(set) # {}
  /\ \E r \in alloc_set_alloc(set, n) :
       set' = Write(r.set, r.p, h, 0) /\ ptr' = [ptr EXCEPT ![h] = r.p]
  /\ UNCHANGED dead

\* repalloc.
Realloc(h, n) ==
  /\ ~dead /\ ptr[h] # NoChunk
  /\ NeedsBlock(set, n) => FreeBlocks(set) # {}
  /\ \E r \in alloc_set_realloc(set, ptr[h], n) :
       /\ set' = Write(r.set, r.p, h, set.chunk[ptr[h]].req)
       /\ ptr' = [ptr EXCEPT ![h] = r.p]
  /\ UNCHANGED dead

\* pfree.
Free(h) ==
  /\ ~dead /\ ptr[h] # NoChunk
  /\ set' = alloc_set_free(set, ptr[h])
  /\ ptr' = [ptr EXCEPT ![h] = NoChunk]
  /\ UNCHANGED dead

Reset ==
  /\ ~dead
  /\ set' = alloc_set_reset(set)
  /\ ptr' = [h \in Handles |-> NoChunk]
  /\ UNCHANGED dead

\* The context is deleted, and made again.
Recreate ==
  /\ ~dead
  /\ alloc_set_delete(set) = NoSet
  /\ set' = alloc_set_context_create
  /\ ptr' = [h \in Handles |-> NoChunk]
  /\ UNCHANGED dead

\* malloc has nothing to give: the process dies, and its memory with it.
Exhausted ==
  /\ ~dead
  /\ \E n \in Sizes : NeedsBlock(set, n)
  /\ dead' = TRUE /\ set' = NoSet /\ ptr' = [h \in Handles |-> NoChunk]

ASetNext ==
  \/ \E h \in Handles, n \in Sizes : Alloc(h, n) \/ Realloc(h, n)
  \/ \E h \in Handles : Free(h)
  \/ Reset \/ Recreate \/ Exhausted

-----------------------------------------------------------------------------
(* Properties.                                                             *)

\* The type of the set, and the bound the code asserts: no block is filled
\* beyond its end.
ASetTypeOK ==
  /\ ptr \in [Handles -> {NoChunk} \cup DOMAIN set.chunk]
  /\ set.keeper \in {NULL} \cup Range(set.blocks)
  /\ Range(set.blocks) = {b \in BlockIds : set.endptr[b] > 0}
  /\ \A b \in BlockIds : set.freeptr[b] <= set.endptr[b] /\ DOMAIN set.mem[b] = 0..set.endptr[b] - 1

\* alloc_set_check, which every reset runs, never has anything to report:
\* headers lead from chunk to chunk to the end of what is used, and every
\* mark is in its place, whatever was freed, carved, stretched or moved.
CheckSilent == alloc_set_check(set)

\* What a caller wrote is there until it frees it: no header, mark, wipe or
\* other caller's data is put over it, and realloc brings it along.
DataKept ==
  \A h \in Held : \A i \in 0..set.chunk[ptr[h]].req - 1 : Cell(set, ptr[h], i) = h

\* Nothing leaks: what alloc_set_stats calls used is the blocks' headers and
\* the chunks that callers hold.
StatsExact ==
  alloc_set_stats(set) = SumOf(Range(set.blocks), LAMBDA b : BLOCK_HDR)
    + SumOf(Held, LAMBDA h : set.chunk[ptr[h]].size + CHUNK_HDR)

\* aset.c keeps what it is given: the bytes of every chunk a caller holds,
\* headers and marks the next check agrees with, and no space that nobody
\* holds and no free list has.
MemoryKept == ASetTypeOK /\ CheckSilent /\ DataKept /\ StatsExact
=============================================================================
