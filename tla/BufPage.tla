------------------------------- MODULE BufPage ------------------------------
(***************************************************************************)
(* Slotted disk pages: storage/page/bufpage.c and the macros of bufpage.h. *)
(*                                                                         *)
(* A page is a record: the three marks of its header, the line pointers    *)
(* below pd_lower and the cells of its memory.  items, which the code does *)
(* not have, is what callers have put at every line pointer; the           *)
(* properties compare the page with it.  Sizes are counted in cells.       *)
(*                                                                         *)
(* Assumed of callers, none of which is in this code base: in shuffle mode *)
(* there is room to move the line pointers by one, as the comment of       *)
(* page_add_item says (not that the item fits); index deletion names a     *)
(* line pointer that still has its item; and an item is given up by        *)
(* clearing LP_USED (MarkUnused).                                          *)
(***************************************************************************)
EXTENDS Integers, Sequences, SequencesExt, FiniteSetsExt

CONSTANTS
  BLCKSZ,               \* cells of a page
  HDRSZ,                \* cells of the header without line pointers
  IDSZ,                 \* cells of a line pointer
  ALIGNOF,              \* what MAXALIGN rounds up to
  SPECIAL,              \* cells of special space
  Items,                \* what may be stored
  ItemSize              \* the number of cells of every item

ASSUME PageAssumption ==
  /\ {BLCKSZ, IDSZ, ALIGNOF} \subseteq Nat \ {0} /\ {HDRSZ, SPECIAL} \subseteq Nat
  /\ BLCKSZ > SPECIAL + HDRSZ

MAXALIGN(n) == ((n + ALIGNOF - 1) \div ALIGNOF) * ALIGNOF

VARIABLES
  page,                 \* a page in a buffer
  temp,                 \* a temporary page in local memory, or none
  PageManagerShuffle,
  spoilt                \* page_add_item has left line pointers that lead astray

pageVars == <<page, temp, PageManagerShuffle, spoilt>>

NoPage == <<>>
Free == <<"free", 0>>   \* the memory of a page before anything is stored
Nothing == "nothing"    \* the item of a line pointer that is not in use

page_init ==
  [pd_lower |-> HDRSZ, pd_upper |-> BLCKSZ - MAXALIGN(SPECIAL), pd_special |-> BLCKSZ - MAXALIGN(SPECIAL),
   linp |-> <<>>, mem |-> [i \in HDRSZ..BLCKSZ - 1 |-> Free], items |-> <<>>]

PageInit == page = page_init /\ temp = NoPage /\ PageManagerShuffle = TRUE /\ spoilt = FALSE

PAGE_GET_MAX_OFFSET_NUMBER(p) == (p.pd_lower - HDRSZ) \div IDSZ

\* Mutant: the new line pointer is not counted.
page_get_free_space_all(p) == p.pd_upper - p.pd_lower

page_get_free_space(p) ==
  LET space == p.pd_upper - p.pd_lower IN IF space < IDSZ THEN 0 ELSE space - IDSZ

\* memmove of n cells.
Memmove(m, to, from, n) == [i \in DOMAIN m |-> IF i \in to..to + n - 1 THEN m[from + i - to] ELSE m[i]]

\* The cells of x stored at o.
StoreItem(m, o, x) == [i \in DOMAIN m |-> IF i \in o..o + ItemSize[x] - 1 THEN <<x, i - o>> ELSE m[i]]

-----------------------------------------------------------------------------
(* page_add_item.                                                          *)

\* Neither in use nor allocated.
Recyclable(lp) == ~lp.used /\ lp.lp_len = 0

\* The first recyclable line pointer, or the one behind the last.
FindOffset(p) ==
  LET n == Len(p.linp)
      free == {o \in 1..n : Recyclable(p.linp[o])}
  IN  IF free = {} THEN n + 1 ELSE Min(free)

\* The last part of page_add_item, with the line pointer array as q has it: line
\* pointer o is given the item x, or p is what is left when it does not fit.
\* Mutant: the new line pointer takes no room.
PlaceItem_lower(p, q, o, x, used) ==
  LET upper == p.pd_upper - MAXALIGN(ItemSize[x])
      lp == [lp_off |-> upper, lp_len |-> ItemSize[x], used |-> used]
  IN  IF p.pd_lower > upper THEN p
      ELSE [q EXCEPT !.pd_lower = HDRSZ + Len(q.linp) * IDSZ, !.pd_upper = upper, !.mem = StoreItem(@, upper, x),
                     !.linp[o] = lp, !.items[o] = IF used THEN x ELSE Nothing]

PlaceItem(p, q, o, x, used) ==
  LET lower == HDRSZ + Len(q.linp) * IDSZ
      upper == p.pd_upper - MAXALIGN(ItemSize[x])
      lp == [lp_off |-> upper, lp_len |-> ItemSize[x], used |-> used]
  IN  IF lower > upper THEN p
      ELSE [q EXCEPT !.pd_lower = lower, !.pd_upper = upper, !.mem = StoreItem(@, upper, x),
                     !.linp[o] = lp, !.items[o] = IF used THEN x ELSE Nothing]

\* What the memory behind the last line pointer may look like as one: zero, or
\* what was there before.
Leftover(p) ==
  {[lp_off |-> 0, lp_len |-> 0, used |-> FALSE], [lp_off |-> p.pd_special - 1, lp_len |-> 1, used |-> TRUE]}

\* The line pointer array goes on into that memory, up to o.
Stretched(p, o) ==
  {[p EXCEPT !.linp = @ \o more, !.items = @ \o [i \in DOMAIN more |-> Nothing]] :
     more \in [1..o - Len(p.linp) -> Leftover(p)]}

\* No offset number is passed in.
AddAnywhere(p, x, used) ==
  LET o == FindOffset(p)
  IN  PlaceItem(p, IF o <= Len(p.linp) THEN p ELSE CHOOSE q \in Stretched(p, o) : TRUE, o, x, used)

\* An offset number in shuffle mode: those from it on are moved up, the last one
\* past pd_lower, before it is known whether the item fits.
AddShuffled(p, o, x, used) ==
  LET moved == InsertAt(p.linp, o, p.linp[o])
  IN  PlaceItem([p EXCEPT !.linp = SubSeq(moved, 1, Len(@))],
                [p EXCEPT !.linp = moved, !.items = InsertAt(@, o, Nothing)], o, x, used)

\* In overwrite mode the line pointer must be free.
AddOverwrite(p, o, x, used) == IF Recyclable(p.linp[o]) THEN PlaceItem(p, p, o, x, used) ELSE p

\* Behind the last line pointer, perhaps with a gap: what is in memory there
\* becomes part of the array, and overwrite mode may take it for a line pointer
\* in use.
AddBehind(p, o, x, used) ==
  {PlaceItem(p, q, o, x, used) : q \in Stretched(p, o)} \cup IF PageManagerShuffle THEN {} ELSE {p}

\* The pages that page_add_item can leave; o = 0 stands for an offset number
\* that is not passed in.
page_add_item(p, o, x, used) ==
  CASE o = 0 -> {AddAnywhere(p, x, used)}
    [] o > Len(p.linp) -> AddBehind(p, o, x, used)
    [] o \in 1..Len(p.linp) /\ PageManagerShuffle -> {AddShuffled(p, o, x, used)}
    [] o \in 1..Len(p.linp) /\ ~PageManagerShuffle -> {AddOverwrite(p, o, x, used)}

-----------------------------------------------------------------------------
(* Compaction and index deletion.                                          *)

\* itemid_compare: the items in use, from the end of the page to its front.
ByOffset(p) ==
  SetToSortSeq({o \in 1..Len(p.linp) : p.linp[o].used}, LAMBDA a, b : p.linp[a].lp_off > p.linp[b].lp_off)

\* One item is moved up against the ones before it.
MoveUp(p, o) ==
  LET lp == p.linp[o]
      upper == p.pd_upper - MAXALIGN(lp.lp_len)
  IN  [p EXCEPT !.mem = Memmove(@, upper, lp.lp_off, lp.lp_len), !.linp[o].lp_off = upper, !.pd_upper = upper]

\* What is not in use is deallocated; the rest is moved to the end.  Mutant:
\* nothing is moved.
page_repair_fragmentation_top(p) ==
  FoldLeft(MoveUp,
           [p EXCEPT !.linp = [o \in 1..Len(@) |-> IF @[o].used THEN @[o] ELSE [@[o] EXCEPT !.lp_len = 0]]],
           <<>>)

page_repair_fragmentation(p) ==
  FoldLeft(MoveUp,
           [p EXCEPT !.pd_upper = p.pd_special,
                     !.linp = [o \in 1..Len(@) |-> IF @[o].used THEN @[o] ELSE [@[o] EXCEPT !.lp_len = 0]]],
           ByOffset(p))

\* What lay before the deleted item has moved towards the end.  Mutant: what
\* lies behind it is adjusted.
adjust_line_pointers_after(linp, offset, size) ==
  [o \in 1..Len(linp) |-> IF linp[o].lp_off > offset THEN [linp[o] EXCEPT !.lp_off = @ + size] ELSE linp[o]]
adjust_line_pointers(linp, offset, size) ==
  [o \in 1..Len(linp) |-> IF linp[o].lp_off <= offset THEN [linp[o] EXCEPT !.lp_off = @ + size] ELSE linp[o]]

page_index_tuple_delete(p, o) ==
  LET size == MAXALIGN(p.linp[o].lp_len)
      locn == p.linp[o].lp_off
  IN  [p EXCEPT !.linp = adjust_line_pointers(RemoveAt(@, o), locn, size),
                !.items = RemoveAt(@, o),
                !.mem = Memmove(@, p.pd_upper + size, p.pd_upper, locn - p.pd_upper),
                !.pd_upper = @ + size, !.pd_lower = @ - IDSZ]

\* A copy with the special space of the page and nothing else.
page_get_temp_page(p) ==
  [p EXCEPT !.pd_lower = HDRSZ, !.pd_upper = BLCKSZ - MAXALIGN(SPECIAL), !.linp = <<>>, !.items = <<>>,
            !.mem = [i \in DOMAIN @ |-> IF i < BLCKSZ - MAXALIGN(SPECIAL) THEN Free ELSE @[i]]]

-----------------------------------------------------------------------------

Offsets(p) == 1..Len(p.linp)
Used(p) == {o \in Offsets(p) : p.linp[o].used}
Extent(lp) == lp.lp_off..lp.lp_off + lp.lp_len - 1

\* The bytes outside of items in use, and where a deallocated line pointer
\* led, are forgotten.
Tidy(p) ==
  LET kept == UNION {Extent(p.linp[o]) : o \in Used(p)}
  IN  [p EXCEPT !.mem = [i \in DOMAIN @ |-> IF i \in kept THEN @[i] ELSE Free],
                !.linp = [o \in Offsets(p) |-> IF Recyclable(@[o]) THEN [@[o] EXCEPT !.lp_off = p.pd_upper] ELSE @[o]]]

AddItem ==
  \E x \in Items, used \in BOOLEAN, o \in 0..Len(page.linp) + 2 :
    /\ o \in Offsets(page) /\ PageManagerShuffle => page.pd_upper - page.pd_lower >= IDSZ
    /\ \E q \in page_add_item(page, o, x, used) :
         /\ page' = Tidy(q)
         /\ spoilt' = \/ q.pd_upper = page.pd_upper /\ q.linp # page.linp
                      \/ \E i \in Offsets(q) \ (Offsets(page) \cup {o}) : q.linp[i].used
    /\ UNCHANGED <<temp, PageManagerShuffle>>

AddToTemp ==
  /\ temp # NoPage
  /\ \E x \in Items : temp' = AddAnywhere(temp, x, TRUE)
  /\ UNCHANGED <<page, PageManagerShuffle, spoilt>>

\* Done by code that is not here.
MarkUnused(o) ==
  /\ o \in Offsets(page)
  /\ page' = Tidy([page EXCEPT !.linp[o].used = FALSE, !.items[o] = Nothing])
  /\ UNCHANGED <<temp, PageManagerShuffle, spoilt>>

Repair == page' = Tidy(page_repair_fragmentation(page)) /\ UNCHANGED <<temp, PageManagerShuffle, spoilt>>

IndexDelete(o) ==
  /\ o \in Offsets(page) /\ page.linp[o].lp_len > 0
  /\ page' = Tidy(page_index_tuple_delete(page, o))
  /\ UNCHANGED <<temp, PageManagerShuffle, spoilt>>

GetTemp == temp = NoPage /\ temp' = page_get_temp_page(page) /\ UNCHANGED <<page, PageManagerShuffle, spoilt>>

\* page_restore_temp_page.
RestoreTemp == temp # NoPage /\ page' = temp /\ temp' = NoPage /\ UNCHANGED <<PageManagerShuffle, spoilt>>

page_manager_mode_set(shuffle) == PageManagerShuffle' = shuffle /\ UNCHANGED <<page, temp, spoilt>>

\* What is done with a spoilt page is left out.
PageNext ==
  /\ ~spoilt
  /\ \/ AddItem \/ AddToTemp \/ Repair \/ GetTemp \/ RestoreTemp
     \/ \E o \in Offsets(page) : MarkUnused(o) \/ IndexDelete(o)
     \/ \E b \in BOOLEAN : page_manager_mode_set(b)

PageSpec == PageInit /\ [][PageNext]_pageVars

-----------------------------------------------------------------------------
(* Properties.                                                             *)

\* The pages in order.  A page goes out of order in two ways.  An item that does
\* not fit is refused in shuffle mode after the line pointers have moved: the
\* last one is lost and one is there twice, though the caller is told that
\* nothing was added.  And an offset number with a gap before it takes line
\* pointers into the page that nobody has written.
Pages == ({temp} \cup IF spoilt THEN {} ELSE {page}) \ {NoPage}

\* The marks are in order, the line pointers end at pd_lower, and the space of
\* every item that is in use or still allocated lies between pd_upper and the
\* special space, apart from every other's: an item that is added, moved or
\* deleted never lands on another or on the line pointers.
PageLayout ==
  \A p \in Pages :
    /\ HDRSZ <= p.pd_lower /\ p.pd_lower <= p.pd_upper /\ p.pd_upper <= p.pd_special
    /\ Len(p.linp) = PAGE_GET_MAX_OFFSET_NUMBER(p)
    /\ \A o \in Offsets(p) : Extent(p.linp[o]) \subseteq p.pd_upper..p.pd_special - 1
    /\ \A o, r \in Offsets(p) : o # r => Extent(p.linp[o]) \cap Extent(p.linp[r]) = {}

\* The line pointers in use are those of the items that were stored and not
\* given up since, and lead to their bytes, after any mixture of adding,
\* refusing, recycling, gaps, index deletion and compaction.
ItemsKept ==
  \A p \in Pages : Used(p) = {o \in Offsets(p) : p.items[o] # Nothing} /\ \A o \in Used(p) :
    /\ p.linp[o].lp_len = ItemSize[p.items[o]]
    /\ \A i \in 0..p.linp[o].lp_len - 1 : p.mem[p.linp[o].lp_off + i] = <<p.items[o], i>>

\* Compaction gives back everything that no item in use needs, and keeps
\* every item under its line pointer.
RepairReclaims ==
  ~spoilt =>
  LET p == page_repair_fragmentation(page)
  IN  /\ p.pd_special - p.pd_upper = FoldSet(LAMBDA o, n : n + MAXALIGN(page.linp[o].lp_len), 0, Used(page))
      /\ Used(p) = Used(page)

\* page_get_free_space can be relied on: an item it says there is room for is
\* added, wherever its line pointer goes up to the one behind the last.
FreeSpaceRight ==
  \A p \in Pages, x \in Items :
    MAXALIGN(ItemSize[x]) <= page_get_free_space(p) =>
      /\ AddAnywhere(p, x, TRUE).pd_upper < p.pd_upper
      /\ \A o \in Offsets(p) : AddShuffled(p, o, x, TRUE).pd_upper < p.pd_upper
      /\ \A q \in Stretched(p, Len(p.linp) + 1) : PlaceItem(p, q, Len(p.linp) + 1, x, TRUE).pd_upper < p.pd_upper

\* A slotted page keeps its items, apart from each other and from the line
\* pointers, and gives back and promises exactly the space that is there, until
\* one of the two calls that spoil it.
PageSound == PageLayout /\ ItemsKept /\ RepairReclaims /\ FreeSpaceRight
=============================================================================
