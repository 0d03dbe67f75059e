----------------------------- MODULE HeapTuple ------------------------------
(***************************************************************************)
(* Heap tuples (access/common/heaptuple.c, access/htup.h, tupmacs.h and    *)
(* heapam.h).  The attributes of a row are laid out one behind the other,  *)
(* aligned, without the null ones, so that the offset of an attribute      *)
(* depends on the nulls and the varying lengths before it.  Offsets that   *)
(* do not are remembered in the tuple descriptor, which all the tuples of  *)
(* a relation share: what one fetch remembers, the next one trusts, for    *)
(* another tuple.                                                          *)
(*                                                                         *)
(* A value is [size, is]; the data of a tuple is a function from offsets   *)
(* to the values stored there, and a fetch from an offset where no value   *)
(* starts gives Garbage.  want is the history of what went in.             *)
(***************************************************************************)
EXTENDS Naturals, Integers, Sequences, FiniteSets, TLC

CONSTANTS
  RowTypes,    \* descriptors: sequences of [len, align], len = -1 for a varlena
  Slots,       \* places for a tuple
  VarSizes,    \* sizes a varlena has
  HDR,         \* offsetof(HeapTupleHeaderData, t_bits)
  MAXALIGN_,   \* MAXIMUM_ALIGNOF
  NoTuple, Null, Garbage

ASSUME TupleAssumption ==
  \A d \in RowTypes : \A i \in DOMAIN d : MAXALIGN_ % d[i].align = 0

VARIABLES
  desc,        \* the relation's descriptor
  attcacheoff, \* attribute -> the offset remembered for it, or -1
  tuples,      \* slot -> tuple or NoTuple
  own,         \* slots whose t_data is an allocation of its own, not behind the header
  got          \* the fetch of the last step: [t, attnum, is], or <<>>

tupleVars == <<desc, attcacheoff, tuples, own, got>>

Align(n, a) == ((n + a - 1) \div a) * a
MAX_ALIGN(n) == Align(n, MAXALIGN_)

\* ATT_ALIGN and ATT_ADD_LENGTH.
ATT_ALIGN(off, att) == Align(off, att.align)
ATT_ADD_LENGTH(off, att, value) == off + (IF att.len # -1 THEN att.len ELSE value.size)

\* Mutant: the attributes are not aligned when the sizes are added up.
compute_data_size_packed(d, value) ==
  LET End[i \in 0..Len(value)] ==
        IF i = 0 THEN 0 ELSE IF value[i] = Null THEN End[i - 1] ELSE ATT_ADD_LENGTH(End[i - 1], d[i], value[i])
  IN End[Len(value)]

\* compute_data_size: where the last attribute ends, the nulls taking no room.
compute_data_size(d, value) ==
  LET End[i \in 0..Len(value)] ==
        IF i = 0 THEN 0
        ELSE IF value[i] = Null THEN End[i - 1]
        ELSE ATT_ADD_LENGTH(ATT_ALIGN(End[i - 1], d[i]), d[i], value[i])
  IN End[Len(value)]

\* data_fill: the values, from the address hoff on.  The address is aligned, not
\* the offset in the data.
data_fill(d, value, hoff) ==
  LET Fill[i \in 0..Len(value)] ==
        IF i = 0 THEN [end |-> hoff, data |-> <<>>]
        ELSE IF value[i] = Null THEN Fill[i - 1]
        ELSE LET p == ATT_ALIGN(Fill[i - 1].end, d[i])
             IN [end |-> ATT_ADD_LENGTH(p, d[i], value[i]), data |-> Fill[i - 1].data @@ ((p - hoff) :> value[i])]
  IN Fill[Len(value)].data

\* heap_form_tuple: header, null bitmap if there is a null, data.
heap_form_tuple(d, value) ==
  LET has_null == \E i \in DOMAIN value : value[i] = Null
      hoff == MAX_ALIGN(HDR + (IF has_null THEN 1 ELSE 0))
  IN [t_natts |-> Len(value), t_len |-> compute_data_size(d, value), has_null |-> has_null,
      has_varlena |-> \E i \in DOMAIN value : value[i] # Null /\ d[i].len = -1,
      nulls |-> {i \in DOMAIN value : value[i] = Null},
      data |-> data_fill(d, value, hoff), xmax_invalid |-> TRUE, want |-> value]

\* heap_att_is_null, of a user attribute.
heap_att_is_null(t, attnum) == attnum > t.t_natts \/ (t.has_null /\ attnum \in t.nulls)

\* FETCH_ATT and VARATT_SIZE.
FETCH_ATT(t, off) == IF off \in DOMAIN t.data THEN t.data[off] ELSE Garbage
ValueAt(t, off) == IF off \in DOMAIN t.data THEN t.data[off] ELSE [size |-> 0]

\* The loop over an attribute with nulls or varlenas before it: offsets are
\* remembered as long as nothing before them can vary.
WalkTuple(t, attnum, cache) ==
  LET Walk[i \in 0..(attnum - 1)] ==
        IF i = 0 THEN [off |-> 0, use |-> TRUE, cache |-> cache]
        ELSE LET w == Walk[i - 1]
             IN IF t.has_null /\ i \in t.nulls THEN [w EXCEPT !.use = FALSE]
                ELSE LET o == IF w.use /\ w.cache[i] # -1 THEN w.cache[i] ELSE ATT_ALIGN(w.off, desc[i])
                     IN [off |-> ATT_ADD_LENGTH(o, desc[i], ValueAt(t, o)),
                         use |-> w.use /\ desc[i].len # -1,
                         cache |-> IF w.use THEN [w.cache EXCEPT ![i] = o] ELSE w.cache]
      end == Walk[attnum - 1]
  IN [cache |-> end.cache, is |-> FETCH_ATT(t, ATT_ALIGN(end.off, desc[attnum]))]

\* The loop for an attribute with nothing but fixed lengths before it, from the
\* first offset that is not remembered on and past attnum as far as it goes.
ExtendCache(t, attnum, cache) ==
  LET c == [cache EXCEPT ![1] = 0]
      Known(j) == j < attnum /\ c[j] > 0
      start == CHOOSE j \in 2..(Len(desc) + 1) : ~Known(j) /\ \A i \in 2..(j - 1) : Known(i)
      Go(j) == \/ j <= attnum
               \/ /\ j <= t.t_natts /\ c[j] = -1
                  /\ ~t.has_null \/ j \notin t.nulls
                  /\ ~t.has_varlena \/ desc[j].len > 0
      last == CHOOSE j \in (start - 1)..Len(desc) :
                (\A i \in start..j : Go(i)) /\ (j = Len(desc) \/ ~Go(j + 1))
      Off[j \in (start - 1)..last] ==
        IF j < start THEN c[j]
        ELSE ATT_ALIGN(IF j = start THEN c[j - 1] + desc[j - 1].len
                       ELSE ATT_ADD_LENGTH(Off[j - 1], desc[j - 1], ValueAt(t, Off[j - 1])), desc[j])
      new == [i \in DOMAIN c |-> IF i \in start..last THEN Off[i] ELSE c[i]]
  IN [cache |-> new, is |-> FETCH_ATT(t, new[attnum])]

\* Mutant: a null in front of the attribute does not make the fetch careful.
no_cache_get_attr_hasty(t, attnum, cache) ==
  IF cache[attnum] # -1 THEN [cache |-> cache, is |-> FETCH_ATT(t, cache[attnum])]
  ELSE IF t.has_varlena /\ \E j \in 1..attnum : desc[j].len <= 0 THEN WalkTuple(t, attnum, cache)
  ELSE ExtendCache(t, attnum, cache)

\* no_cache_get_attr: slow when a null comes before, or a varlena up to attnum.
no_cache_get_attr(t, attnum, cache) ==
  LET nullBefore == t.has_null /\ \E i \in 1..(attnum - 1) : i \in t.nulls
      varUpTo == t.has_varlena /\ \E j \in 1..attnum : desc[j].len <= 0
  IN IF nullBefore THEN WalkTuple(t, attnum, cache)
     ELSE IF cache[attnum] # -1 THEN [cache |-> cache, is |-> FETCH_ATT(t, cache[attnum])]
     ELSE IF varUpTo THEN WalkTuple(t, attnum, cache)
     ELSE ExtendCache(t, attnum, cache)

\* FAST_GET_ATTR and HEAP_GET_ATTR, of a user attribute.
FAST_GET_ATTR(t, attnum, cache) ==
  IF ~t.has_null /\ cache[attnum] >= 0 THEN [cache |-> cache, is |-> FETCH_ATT(t, cache[attnum])]
  ELSE IF t.has_null /\ attnum \in t.nulls THEN [cache |-> cache, is |-> Null]
  ELSE no_cache_get_attr(t, attnum, cache)

HEAP_GET_ATTR(t, attnum, cache) ==
  IF attnum > t.t_natts THEN [cache |-> cache, is |-> Null] ELSE FAST_GET_ATTR(t, attnum, cache)

-----------------------------------------------------------------------------
TupleInit ==
  /\ desc = <<>> /\ attcacheoff = <<>>
  /\ tuples = [s \in Slots |-> NoTuple]
  /\ own = {}
  /\ got = <<>>

\* The relation is opened: a descriptor with nothing remembered.
OpenRelation(d) ==
  /\ desc = <<>>
  /\ desc' = d /\ attcacheoff' = [i \in DOMAIN d |-> -1]
  /\ UNCHANGED <<tuples, own, got>>

\* The rows of n attributes; the contents tell the attributes apart.
Stored(i) == {Null} \cup {[size |-> n, is |-> i] : n \in IF desc[i].len = -1 THEN VarSizes ELSE {desc[i].len}}
Rows(n) == {v \in [1..n -> UNION {Stored(i) : i \in 1..n}] : \A i \in 1..n : v[i] \in Stored(i)}

\* A tuple is formed, perhaps when the relation had one attribute less.
Form(s) ==
  /\ tuples[s] = NoTuple
  /\ \E n \in {Len(desc) - 1, Len(desc)} : \E v \in Rows(n) :
       tuples' = [tuples EXCEPT ![s] = heap_form_tuple(desc, v)]
  /\ got' = <<>>
  /\ UNCHANGED <<desc, attcacheoff, own>>

\* heap_add_header: a C structure, which has fixed lengths and no nulls.
heap_add_header(s) ==
  /\ tuples[s] = NoTuple
  /\ \E n \in 1..Len(desc) : \E v \in Rows(n) :
       /\ \A i \in 1..n : desc[i].len > 0 /\ v[i] # Null
       /\ tuples' = [tuples EXCEPT ![s] =
            [t_natts |-> n, t_len |-> compute_data_size(desc, v), has_null |-> FALSE, has_varlena |-> FALSE,
             nulls |-> {}, data |-> data_fill(desc, v, MAX_ALIGN(HDR)), xmax_invalid |-> TRUE, want |-> v]]
  /\ got' = <<>>
  /\ UNCHANGED <<desc, attcacheoff, own>>

\* An attribute is fetched.
Fetch(s, attnum) ==
  /\ tuples[s] # NoTuple
  /\ LET r == HEAP_GET_ATTR(tuples[s], attnum, attcacheoff)
     IN /\ got' = [t |-> tuples[s], attnum |-> attnum, is |-> r.is]
        /\ attcacheoff' = r.cache
  /\ UNCHANGED <<desc, tuples, own>>

\* Mutant: an attribute that is not replaced comes from the same place in the
\* new tuple's list of values that it has among the replaced ones.
heap_modify_tuple_shift(s, r, attnum, v) ==
  /\ tuples[s] # NoTuple /\ tuples[r] = NoTuple
  /\ LET t == tuples[s]
         value == [i \in 1..Len(desc) |-> IF i = attnum THEN v ELSE IF i > t.t_natts THEN Null
                                          ELSE FETCH_ATT(t, IF attcacheoff[i] = -1 THEN 0 ELSE attcacheoff[i])]
     IN tuples' = [tuples EXCEPT ![r] = [heap_form_tuple(desc, value) EXCEPT
                     !.want = [i \in 1..Len(desc) |-> IF i = attnum THEN v
                                                      ELSE IF i > t.t_natts THEN Null ELSE t.want[i]]]]
  /\ got' = <<>>
  /\ UNCHANGED <<desc, attcacheoff, own>>

\* heap_modify_tuple: the old tuple's attributes one after the other, but for
\* the replaced one, formed into a new tuple.  The uint8 that carries
\* t_info_mask over the copy of the header drops HEAP_XMAX_INVALID.
heap_modify_tuple(s, r, attnum, v) ==
  /\ tuples[s] # NoTuple /\ tuples[r] = NoTuple
  /\ LET t == tuples[s]
         Get[i \in 0..Len(desc)] ==
           IF i = 0 THEN [cache |-> attcacheoff, value |-> <<>>]
           ELSE IF i = attnum THEN [Get[i - 1] EXCEPT !.value = Append(@, v)]
           ELSE LET g == HEAP_GET_ATTR(t, i, Get[i - 1].cache)
                IN [cache |-> g.cache, value |-> Append(Get[i - 1].value, g.is)]
         old == [i \in 1..Len(desc) |-> IF i > t.t_natts THEN Null ELSE t.want[i]]
     IN /\ tuples' = [tuples EXCEPT ![r] = [heap_form_tuple(desc, Get[Len(desc)].value) EXCEPT
                        !.xmax_invalid = FALSE, !.want = [old EXCEPT ![attnum] = v]]]
        /\ attcacheoff' = Get[Len(desc)].cache
  /\ got' = <<>>
  /\ UNCHANGED <<desc, own>>

\* heap_copy_tuple: header and data in one allocation.
heap_copy_tuple(s, r) ==
  /\ tuples[s] # NoTuple /\ tuples[r] = NoTuple
  /\ tuples' = [tuples EXCEPT ![r] = tuples[s]]
  /\ got' = <<>>
  /\ UNCHANGED <<desc, attcacheoff, own>>

\* heap_copy_tuple_with_tuple: the data in an allocation of its own.
heap_copy_tuple_with_tuple(s, r) ==
  /\ tuples[s] # NoTuple /\ s # r /\ r \notin own
  /\ tuples' = [tuples EXCEPT ![r] = tuples[s]]
  /\ own' = own \cup {r}
  /\ got' = <<>>
  /\ UNCHANGED <<desc, attcacheoff>>

\* Mutant: only the header is freed.
heap_free_tuple_header(s) ==
  /\ tuples[s] # NoTuple
  /\ tuples' = [tuples EXCEPT ![s] = NoTuple]
  /\ got' = <<>>
  /\ UNCHANGED <<desc, attcacheoff, own>>

\* heap_free_tuple: the data too when it is not behind the header.
heap_free_tuple(s) ==
  /\ tuples[s] # NoTuple
  /\ tuples' = [tuples EXCEPT ![s] = NoTuple]
  /\ own' = own \ {s}
  /\ got' = <<>>
  /\ UNCHANGED <<desc, attcacheoff>>

TupleNext ==
  \/ \E d \in RowTypes : OpenRelation(d)
  \/ /\ desc # <<>>
     /\ \E s \in Slots :
          \/ Form(s) \/ heap_add_header(s) \/ heap_free_tuple(s)
          \/ \E attnum \in DOMAIN desc : Fetch(s, attnum)
          \/ \E r \in Slots : heap_copy_tuple(s, r) \/ heap_copy_tuple_with_tuple(s, r)
          \/ \E r \in Slots, attnum \in DOMAIN desc :
               \E v \in Stored(attnum) : heap_modify_tuple(s, r, attnum, v)

-----------------------------------------------------------------------------
\* An offset is remembered only for an attribute with nothing but fixed lengths
\* before it, and it is the offset the attribute has in every tuple without
\* nulls before it: what one tuple taught the descriptor is right for all.
CacheSound ==
  \A k \in DOMAIN desc :
    attcacheoff[k] # -1 =>
      /\ \A i \in 1..(k - 1) : desc[i].len > 0
      /\ \A s \in Slots :
           LET t == tuples[s]
           IN t # NoTuple /\ k <= t.t_natts /\ (\A i \in 1..k : t.want[i] # Null)
              => FETCH_ATT(t, attcacheoff[k]) = t.want[k]

\* A fetch gives what was stored in that attribute of that tuple, whatever has
\* been fetched from whichever tuple before, and NULL exactly when the tuple has
\* none there (heap_att_is_null agrees).
FetchRight ==
  got # <<>> =>
    /\ got.is = IF got.attnum > got.t.t_natts THEN Null ELSE got.t.want[got.attnum]
    /\ heap_att_is_null(got.t, got.attnum) = (got.is = Null)

\* Every tuple holds its values side by side inside t_len, one formed by
\* heap_modify_tuple holding the old ones and the replacement.
TupleWhole ==
  \A s \in Slots :
    LET t == tuples[s]
    IN t # NoTuple =>
         /\ {t.data[o] : o \in DOMAIN t.data} = {t.want[i] : i \in DOMAIN t.want} \ {Null}
         /\ \A o \in DOMAIN t.data : o + t.data[o].size <= t.t_len
         /\ \A o, p \in DOMAIN t.data : o < p => o + t.data[o].size <= p

\* No tuple data of its own outlives the tuple.
DataFreed == own \subseteq {s \in Slots : tuples[s] # NoTuple}
=============================================================================
