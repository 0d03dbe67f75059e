------------------------------ MODULE RelCache ------------------------------
(***************************************************************************)
(* The relation cache (utils/cache/relcache.c): descriptors of relations,  *)
(* found by name, by OID and by file node through three hash tables, and   *)
(* the names that are its keys (utils/adt/name.c).                         *)
(*                                                                         *)
(* The hash tables are what DynaHash promises: functions on the keys they  *)
(* hold.  A name is a NameData, NAME_LEN characters padded with NUL.       *)
(* Building and clearing a descriptor are declared only; they are          *)
(* modelled by the macros they are there to call, RELATION_CACHE_INSERT    *)
(* and RELATION_CACHE_DELETE.                                              *)
(***************************************************************************)
EXTENDS Sequences, Integers, FiniteSets, TLC

CONSTANTS
  RDescs,     \* the descriptors that can be allocated
  RelNames,   \* the names relations are created and looked up with: strings of characters
  RelIds,     \* OIDs
  RelNodes,   \* file nodes
  NAME_LEN,   \* NAME_DATA_LEN
  MaxPins,    \* references to a descriptor
  NoRel       \* a null Relation

ASSUME RelCacheAssumption == NAME_LEN \in Nat \ {0, 1} /\ RelNames \subseteq Seq(Nat \ {0})

VARIABLES
  rels,       \* descriptor -> [as, name, id, node, kind, fd, refcount], NoRel when it is free
  RelationNameCache, RelationIdCache, RelationNodeCache,
  pins,       \* descriptor -> references that callers hold
  clobbered   \* descriptors whose name entry another relation has taken or taken away

relVars == <<rels, RelationNameCache, RelationIdCache, RelationNodeCache, pins, clobbered>>

NUL == 0

\* strncpy to NAME_LEN characters: cut off, or padded with NUL.
strncpy(str) == [i \in 1..NAME_LEN |-> IF i <= Len(str) THEN str[i] ELSE NUL]

\* Mutant: no place is kept for the NUL.
name_strcpy_unterminated(str) == strncpy(str)

\* name_strcpy: STR_N_CPY, whose last character is always NUL.
name_strcpy(str) == [strncpy(str) EXCEPT ![NAME_LEN] = NUL]

\* name_cpy: one NameData to another, up to its NUL, padded again.
name_cpy(name) ==
  LET n == CHOOSE k \in 0..NAME_LEN : /\ \A i \in 1..k : name[i] # NUL
                                      /\ k = NAME_LEN \/ name[k + 1] = NUL
  IN strncpy(SubSeq(name, 1, n))

\* name_strcmp, as a test for equality: strncmp of NAME_LEN characters.
name_strcmp_equal(name, str) ==
  \A i \in 1..NAME_LEN : (\A j \in 1..(i - 1) : name[j] # NUL) => name[i] = strncpy(str)[i]

\* Two strings name the same relation as far as NameData can hold them.
SameName(s, t) ==
  LET Cut(str) == IF Len(str) < NAME_LEN THEN str ELSE SubSeq(str, 1, NAME_LEN - 1)
  IN Cut(s) = Cut(t)

\* A table with an entry more, and with one less.
Entered(tab, key, d) == (key :> d) @@ tab
Removed(tab, key) == [k \in DOMAIN tab \ {key} |-> tab[k]]

RelInit ==
  /\ rels = [d \in RDescs |-> NoRel]
  /\ RelationNameCache = <<>> /\ RelationIdCache = <<>> /\ RelationNodeCache = <<>>
  /\ pins = [d \in RDescs |-> 0]
  /\ clobbered = {}

\* Mutant: a name's entry stays with the descriptor it led to.
RELATION_CACHE_INSERT_keep(d, r) ==
  /\ RelationNameCache' = RelationNameCache @@ (r.name :> d)
  /\ RelationIdCache' = Entered(RelationIdCache, r.id, d)
  /\ RelationNodeCache' = Entered(RelationNodeCache, r.node, d)

\* RELATION_CACHE_INSERT: an entry in each table; one that was there for the
\* same key is led to the new descriptor ("now just keep quiet").
RELATION_CACHE_INSERT(d, r) ==
  /\ RelationNameCache' = Entered(RelationNameCache, r.name, d)
  /\ RelationIdCache' = Entered(RelationIdCache, r.id, d)
  /\ RelationNodeCache' = Entered(RelationNodeCache, r.node, d)

\* Mutant: the entry for the file node stays.
RELATION_CACHE_DELETE_node(r) ==
  /\ RelationNameCache' = Removed(RelationNameCache, r.name)
  /\ RelationIdCache' = Removed(RelationIdCache, r.id)
  /\ UNCHANGED RelationNodeCache

\* RELATION_CACHE_DELETE: the entries for the keys of the relation, whichever
\* descriptor they lead to.
RELATION_CACHE_DELETE(r) ==
  /\ RelationNameCache' = Removed(RelationNameCache, r.name)
  /\ RelationIdCache' = Removed(RelationIdCache, r.id)
  /\ RelationNodeCache' = Removed(RelationNodeCache, r.node)

\* Whose name the cache cannot tell from the string's.
Namesakes(str) == {d \in RDescs : rels[d] # NoRel /\ SameName(rels[d].as, str)}

\* A descriptor is built for a relation created under the name str.
BuildDesc(d, str, id, node, kind) ==
  LET r == [as |-> str, name |-> name_cpy(name_strcpy(str)), id |-> id, node |-> node, kind |-> kind, fd |-> -1, refcount |-> 1]
  IN /\ rels[d] = NoRel
     /\ rels' = [rels EXCEPT ![d] = r]
     /\ RELATION_CACHE_INSERT(d, r)
     /\ pins' = [pins EXCEPT ![d] = 1]
     /\ clobbered' = (clobbered \cup Namesakes(str)) \ {d}

\* RELATION_NAME_CACHE_LOOK_UP.
RELATION_NAME_CACHE_LOOK_UP(name) == IF name \in DOMAIN RelationNameCache THEN RelationNameCache[name] ELSE NoRel

\* Mutant: the reference is not counted.
relation_name_cache_get_relation_uncounted(str) ==
  LET d == RELATION_NAME_CACHE_LOOK_UP(name_strcpy(str))
  IN /\ d # NoRel
     /\ \E fd \in {-1, 1} : rels' = [rels EXCEPT ![d].fd = fd]
     /\ pins' = [pins EXCEPT ![d] = @ + 1]
     /\ UNCHANGED <<RelationNameCache, RelationIdCache, RelationNodeCache, clobbered>>

\* relation_name_cache_get_relation: found under the padded name, its file
\* opened again (which can fail) unless it is a view, and counted.
relation_name_cache_get_relation(str) ==
  LET d == RELATION_NAME_CACHE_LOOK_UP(name_strcpy(str))
  IN /\ d # NoRel
     /\ \E fd \in IF rels[d].fd = -1 /\ rels[d].kind # "view" THEN {-1, 1} ELSE {rels[d].fd} :
          rels' = [rels EXCEPT ![d].fd = fd, ![d].refcount = @ + 1]
     /\ pins' = [pins EXCEPT ![d] = @ + 1]
     /\ UNCHANGED <<RelationNameCache, RelationIdCache, RelationNodeCache, clobbered>>

\* The caller closes the relation.
RelationClose(d) ==
  /\ pins[d] > 0
  /\ pins' = [pins EXCEPT ![d] = @ - 1]
  /\ rels' = [rels EXCEPT ![d].refcount = @ - 1]
  /\ UNCHANGED <<RelationNameCache, RelationIdCache, RelationNodeCache, clobbered>>

\* relation_clear_relation of a descriptor nobody refers to: out of the tables
\* and freed.
relation_clear_relation(d) ==
  /\ rels[d] # NoRel /\ rels[d].refcount = 0
  /\ RELATION_CACHE_DELETE(rels[d])
  /\ rels' = [rels EXCEPT ![d] = NoRel]
  /\ clobbered' = (clobbered \cup Namesakes(rels[d].as)) \ {d}
  /\ UNCHANGED pins

\* Relations that exist at the same time have different OIDs and files; a name
\* may belong to a new relation while the descriptor of the one that had it is
\* still there.
RelNext ==
  \/ \E d \in RDescs, str \in RelNames, id \in RelIds, node \in RelNodes, kind \in {"table", "view"} :
       /\ \A e \in RDescs : rels[e] # NoRel => rels[e].id # id /\ rels[e].node # node
       /\ BuildDesc(d, str, id, node, kind)
  \/ \E str \in RelNames :
       /\ \A d \in RDescs : pins[d] < MaxPins
       /\ relation_name_cache_get_relation(str)
  \/ \E d \in RDescs : RelationClose(d) \/ relation_clear_relation(d)

-----------------------------------------------------------------------------
\* No entry of any of the three tables leads to a descriptor that has been
\* freed, or to one with another key: whatever sequence of relations with the
\* same name was built and cleared, deletion by key never leaves a dangling
\* pointer behind.
EntriesAlive ==
  /\ \A k \in DOMAIN RelationNameCache : LET d == RelationNameCache[k] IN rels[d] # NoRel /\ rels[d].name = k
  /\ \A k \in DOMAIN RelationIdCache : LET d == RelationIdCache[k] IN rels[d] # NoRel /\ rels[d].id = k
  /\ \A k \in DOMAIN RelationNodeCache : LET d == RelationNodeCache[k] IN rels[d] # NoRel /\ rels[d].node = k

\* The OID and the file node of a relation lead to its descriptor, and so does
\* its name until another relation whose name is the same to NAME_LEN - 1
\* characters is built, which takes the entry, or cleared, which removes it
\* whoever has it (the rebuilding of e, named like f, hides f from then on,
\* even pinned).
FoundByKeys ==
  \A d \in RDescs :
    rels[d] # NoRel =>
      /\ rels[d].id \in DOMAIN RelationIdCache /\ RelationIdCache[rels[d].id] = d
      /\ rels[d].node \in DOMAIN RelationNodeCache /\ RelationNodeCache[rels[d].node] = d
      /\ RELATION_NAME_CACHE_LOOK_UP(name_strcpy(rels[d].as)) = d <=> d \notin clobbered

\* A descriptor that callers refer to exists, with the count they brought it
\* to.
PinnedAlive == \A d \in RDescs : IF rels[d] = NoRel THEN pins[d] = 0 ELSE rels[d].refcount = pins[d]

\* The name stored with a relation is the key that a lookup of the string it was
\* created with computes, is terminated (NAME_STR is used as a C string), and
\* compares equal to that string exactly when it was not cut off.  (What that
\* key leads to is FoundByKeys.)
NamesAgree ==
  \A d \in RDescs :
    rels[d] # NoRel =>
      /\ rels[d].name[NAME_LEN] = NUL
      /\ rels[d].name = name_strcpy(rels[d].as)
      /\ name_strcmp_equal(rels[d].name, rels[d].as) <=> Len(rels[d].as) < NAME_LEN
=============================================================================
