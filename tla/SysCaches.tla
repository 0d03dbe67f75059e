----------------------------- MODULE SysCaches ------------------------------
(***************************************************************************)
(* The system caches (utils/cache/syscache.c over catcache.c): one cache   *)
(* of tuples per lookup key, hashed into buckets by the values of the key  *)
(* columns.  search_cat_cache and release_cat_cache are declared and used  *)
(* but not in the source: they are modelled as their callers use them, a   *)
(* miss being answered by a scan of the index that CacheInfo names.        *)
(*                                                                         *)
(* A row gives every column of a catalog a value; the hash of a value is   *)
(* the value.  Callers hold the tuples they searched for until they        *)
(* release them.  A behaviour uses one of the caches.                      *)
(***************************************************************************)
EXTENDS Catalogs, FiniteSets, Bitwise

CONSTANTS
  KeyVals,    \* the values key columns take (natural numbers)
  NCC_BUCK,   \* buckets of a cache
  MAX_TUP,    \* tuples of a cache
  MaxRows,    \* rows of the catalog in use
  MaxHeld     \* references that callers hold

VARIABLES
  SysCache,   \* the caches, in the order of CacheInfo: [info, ntup, lru]
  CacheInitialized,
  catrows,    \* the rows of the catalog in use: set of rows
  temps,      \* names of temporary relations -> their real names
  using,      \* the cache in use (0 while there is none)
  held        \* the tuples callers hold: sequence of [asked, keys, row, temps]

cacheVars == <<SysCache, CacheInitialized, catrows, temps, using, held>>

OBJECT_ID_ATTRIBUTE_NUMBER == -2

\* The identifiers, which number from 0 the entries of CacheInfo.
CacheIds ==
  <<"AGGNAME", "AMNAME", "AMOPOPID", "AMOPSTRATEGY", "ATTNAME", "ATTNUM", "CLADEFTYPE", "CLANAME", "GRONAME", "GROSYSID",
    "INDEXRELID", "INHRELID", "LANGNAME", "LANGOID", "LISTENREL", "OPERNAME", "OPEROID", "PROCNAME", "PROCOID",
    "RELNAME", "RELOID", "RULENAME", "RULEOID", "SHADOWNAME", "SHADOWSYSID", "STATRELID", "TYPENAME", "TYPEOID">>

\* An entry of CacheInfo: the catalog, the index, and the attribute numbers of
\* the key columns.
C(rel, ind, cols) ==
  [rel |-> rel, ind |-> ind, nkeys |-> Len(cols),
   key |-> [i \in DOMAIN cols |-> IF cols[i] = "oid" THEN OBJECT_ID_ATTRIBUTE_NUMBER ELSE Anum(rel, cols[i])]]

CacheInfo ==
  <<C("pg_aggregate", "pg_aggregate_name_type_index", <<"aggname", "aggbasetype">>),
    C("pg_am", "pg_am_name_index", <<"amname">>),
    C("pg_amop", "pg_amop_opid_index", <<"amopclaid", "amopopr", "amopid">>),
    C("pg_amop", "pg_amop_strategy_index", <<"amopid", "amopclaid", "amopstrategy">>),
    C("pg_attribute", "pg_attribute_relid_attnam_index", <<"attrelid", "attname">>),
    C("pg_attribute", "pg_attribute_relid_attnum_index", <<"attrelid", "attnum">>),
    C("pg_opclass", "pg_opclass_deftype_index", <<"opcdeftype">>),
    C("pg_opclass", "pg_opclass_name_index", <<"opcname">>),
    C("pg_group", "pg_group_name_index", <<"groname">>),
    C("pg_group", "pg_group_sysid_index", <<"grosysid">>),
    C("pg_index", "pg_index_indexrelid_index", <<"indexrelid">>),
    C("pg_inherits", "pg_inherits_relid_seqno_index", <<"inhrelid", "inhseqno">>),
    C("pg_language", "pg_language_name_index", <<"lanname">>),
    C("pg_language", "pg_language_oid_index", <<"oid">>),
    C("pg_listener", "pg_listener_pid_relname_index", <<"listenerpid", "relname">>),
    C("pg_operator", "pg_operator_oprname_l_r_k_index", <<"oprname", "oprleft", "oprright", "oprkind">>),
    C("pg_operator", "pg_operator_oid_index", <<"oid">>),
    C("pg_proc", "pg_proc_proname_narg_type_index", <<"proname", "pronargs", "proargtypes">>),
    C("pg_proc", "pg_proc_oid_index", <<"oid">>),
    C("pg_class", "pg_class_relname_index", <<"relname">>),
    C("pg_class", "pg_class_oid_index", <<"oid">>),
    C("pg_rewrite", "pg_rewrite_rulename_index", <<"rulename">>),
    C("pg_rewrite", "pg_rewrite_oid_index", <<"oid">>),
    C("pg_shadow", "pg_shadow_name_index", <<"usename">>),
    C("pg_shadow", "pg_shadow_sysid_index", <<"usesysid">>),
    C("pg_statistic", "pg_statistic_relid_att_index", <<"starelid", "staattnum">>),
    C("pg_type", "pg_type_typname_index", <<"typname">>),
    C("pg_type", "pg_type_oid_index", <<"oid">>)>>

NoCache == <<>>

\* init_cat_cache: an empty cache, with the relation, index and keys of an entry
\* of CacheInfo.
init_cat_cache(entry) == [info |-> entry, ntup |-> 0, lru |-> <<>>]

Info(cache) == cache.info

CacheInit ==
  /\ SysCache = [id \in DOMAIN CacheIds |-> NoCache]
  /\ CacheInitialized = FALSE
  /\ catrows = {} /\ held = <<>> /\ using = 0
  /\ temps = <<>>

\* init_catalog_cache: a cache for every entry.
init_catalog_cache ==
  /\ ~CacheInitialized
  /\ SysCache' = [id \in DOMAIN CacheIds |-> init_cat_cache(CacheInfo[id])]
  /\ CacheInitialized' = TRUE
  /\ UNCHANGED <<catrows, temps, using, held>>

\* catalog_cache_compute_hash_index: the hashes of the keys, each shifted by
\* three bits more than the one before it.
catalog_cache_compute_hash_index(cache, keys) ==
  LET Add(h, i) == h ^^ (keys[i] * 2 ^ (3 * (i - 1)))
  IN FoldLeft(Add, 0, [i \in 1..Info(cache).nkeys |-> i]) % NCC_BUCK

\* The value of a tuple's attribute: its OID, or FAST_GET_ATTR.
KeyOf(cache, row, attnum) ==
  IF attnum = OBJECT_ID_ATTRIBUTE_NUMBER THEN row["oid"] ELSE row[Catalog[Info(cache).rel][attnum].name]

\* The key values of a tuple, by the attribute numbers of the cache.
TupleKeys(cache, row) == [i \in 1..Info(cache).nkeys |-> KeyOf(cache, row, Info(cache).key[i])]

\* Mutant: the last key column is left out of a tuple's bucket.
catalog_cache_compute_tuple_hash_index_short(cache, row) ==
  catalog_cache_compute_hash_index(cache, [TupleKeys(cache, row) EXCEPT ![Info(cache).nkeys] = 0])

\* catalog_cache_compute_tuple_hash_index: the bucket a tuple goes to.
catalog_cache_compute_tuple_hash_index(cache, row) == catalog_cache_compute_hash_index(cache, TupleKeys(cache, row))

\* cat_cache_remove_ctup: unlinked from both lists and freed; only when
\* nobody refers to it (ASSERT(ct->refcount == 0)).
cat_cache_remove_ctup(cache, i) == [cache EXCEPT !.lru = RemoveAt(@, i), !.ntup = @ - 1]

\* The scan of the cache's index: rows whose index columns have the values.
IndexScan(cache, keys) ==
  {r \in catrows : \A i \in 1..Info(cache).nkeys : r[Index[Info(cache).ind].cols[i]] = keys[i]}

\* search_cat_cache: the tuple of that bucket with these keys, or one that the
\* index leads to, which takes the place of the least recently used of those
\* nobody holds when the cache is full.
search_cat_cache(id, asked, keys) ==
  LET cache == SysCache[id]
      hits == {i \in DOMAIN cache.lru : /\ cache.lru[i].bucket = catalog_cache_compute_hash_index(cache, keys)
                                        /\ TupleKeys(cache, cache.lru[i].row) = keys}
      Hold(row) == held' = Append(held, [asked |-> asked, keys |-> keys, row |-> row, temps |-> temps])
  IN \/ \E i \in hits :
          /\ \A j \in hits : i <= j
          /\ SysCache' = [SysCache EXCEPT ![id].lru =
                            <<[cache.lru[i] EXCEPT !.refcount = @ + 1]>> \o RemoveAt(cache.lru, i)]
          /\ Hold(cache.lru[i].row)
     \/ /\ hits = {}
        /\ \E row \in IndexScan(cache, keys) :
             LET ct == [row |-> row, refcount |-> 1, bucket |-> catalog_cache_compute_tuple_hash_index(cache, row)]
                 more == [cache EXCEPT !.lru = <<ct>> \o @, !.ntup = @ + 1]
                 idle == {i \in DOMAIN more.lru : more.lru[i].refcount = 0}
             IN /\ SysCache' = [SysCache EXCEPT ![id] =
                     IF more.ntup > MAX_TUP /\ idle # {}
                     THEN cat_cache_remove_ctup(more, CHOOSE i \in idle : \A j \in idle : j <= i)
                     ELSE more]
                /\ Hold(row)
     \/ /\ hits = {} /\ IndexScan(cache, keys) = {}
        /\ UNCHANGED <<SysCache, held>>

\* Mutant: names of types are looked up as they are.
Translate_relations(id, keys) ==
  IF CacheIds[id] = "RELNAME" /\ keys[1] \in DOMAIN temps THEN [keys EXCEPT ![1] = temps[@]] ELSE keys

\* search_sys_cache, the names: a temporary relation's, and its row type's,
\* are replaced by the real one.
Translate(id, keys) ==
  IF CacheIds[id] \in {"RELNAME", "TYPENAME"} /\ keys[1] \in DOMAIN temps THEN [keys EXCEPT ![1] = temps[@]] ELSE keys

\* search_sys_cache.
search_sys_cache(id, keys) ==
  /\ CacheInitialized
  /\ using' = id
  /\ search_cat_cache(id, keys[1], Translate(id, keys))
  /\ UNCHANGED <<CacheInitialized, catrows, temps>>

\* A lookup with an identifier there is no cache for answers NULL.
search_sys_cache_bad_id(id) ==
  /\ id \notin DOMAIN CacheIds
  /\ UNCHANGED cacheVars

\* release_sys_cache: one reference less.
release_sys_cache(h) ==
  LET i == CHOOSE j \in DOMAIN SysCache[using].lru : SysCache[using].lru[j].row = held[h].row
  IN /\ SysCache' = [SysCache EXCEPT ![using].lru[i].refcount = @ - 1]
     /\ held' = RemoveAt(held, h)
     /\ UNCHANGED <<CacheInitialized, catrows, temps, using>>

\* A row of the catalog the cache in use is for, by what the caches look at:
\* the columns of the index, and an OID of its own.
Row(id, vals) ==
  LET cols == Index[Info(SysCache[id]).ind].cols
  IN [c \in {"oid"} \cup ToSet(cols) |->
        IF c \in ToSet(cols) THEN vals[CHOOSE i \in DOMAIN cols : cols[i] = c] ELSE 100 + Cardinality(catrows)]

\* A row is inserted; a unique index allows one with these values.
InsertRow(id, vals) ==
  /\ held = <<>> /\ Cardinality(catrows) < MaxRows
  /\ LET index == Index[Info(SysCache[id]).ind]
     IN index.unique => ~\E r \in catrows : \A i \in DOMAIN vals : r[index.cols[i]] = vals[i]
  /\ catrows' = catrows \cup {Row(id, vals)}
  /\ using' = id
  /\ UNCHANGED <<SysCache, CacheInitialized, temps, held>>

\* The backend creates a temporary relation: it hides one of that name.
CreateTemp(name, real) ==
  /\ using # 0 /\ CacheIds[using] \in {"RELNAME", "TYPENAME"} /\ temps = <<>> /\ name # real
  /\ temps' = (name :> real)
  /\ UNCHANGED <<SysCache, CacheInitialized, catrows, using, held>>

CacheNext ==
  \/ init_catalog_cache
  \/ \E id \in DOMAIN SysCache :
       /\ using \in {0, id} /\ CacheInitialized
       /\ \E vals \in [1..Info(SysCache[id]).nkeys -> KeyVals] :
            \/ InsertRow(id, vals)
            \/ using = id /\ Len(held) < MaxHeld /\ search_sys_cache(id, vals)
  \/ \E id \in {0, Len(CacheIds) + 1} : search_sys_cache_bad_id(id)
  \/ \E h \in DOMAIN held : release_sys_cache(h)
  \/ \E name, real \in KeyVals : CreateTemp(name, real)

-----------------------------------------------------------------------------
\* Every tuple in a cache is where a search for its own key looks: the bucket
\* computed from the tuple (by attribute numbers of CacheInfo) is the one
\* computed from the values a caller searches by (in the order of the index
\* that brought the tuple in).  Otherwise the tuple is in the cache and never
\* found again.
FoundWhereSearched ==
  using # 0 /\ CacheInitialized =>
    LET cache == SysCache[using]
    IN \A i \in DOMAIN cache.lru :
         cache.lru[i].bucket =
           catalog_cache_compute_hash_index(cache, [k \in 1..Info(cache).nkeys |-> cache.lru[i].row[Index[Info(cache).ind].cols[k]]])

\* A search answers with the row it was asked for: its key columns have the
\* values searched by, and the name of a temporary relation, or of its row
\* type, leads to the temporary relation's and never to what it hides.
RightRow ==
  \A h \in DOMAIN held :
    /\ LET info == Info(SysCache[using])
       IN [k \in 1..info.nkeys |-> held[h].row[Index[info.ind].cols[k]]] = held[h].keys
    /\ CacheIds[using] \in {"RELNAME", "TYPENAME"} /\ held[h].asked \in DOMAIN held[h].temps =>
         held[h].keys[1] = held[h].temps[held[h].asked]

\* What the code reads from a cached tuple through the catalog's C struct is
\* the column of that name: the compiler's offsets are those the tuple
\* routines use by the attribute rows written down in pg_attribute.h, whose
\* columns, lengths and alignments are those of the struct and of pg_type
\* ("so they had better match or Postgres will fail").  The row of oidvector
\* in pg_type.h has lost its length and is left out.
StructOverlaysTuple ==
  using # 0 /\ Info(SysCache[using]).rel \in DOMAIN Schema =>
    LET cat == Info(SysCache[using]).rel
    IN /\ Len(Schema[cat]) = Len(Catalog[cat])
       /\ \A i \in DOMAIN Catalog[cat] :
            /\ Schema[cat][i].name = Catalog[cat][i].name
            /\ Schema[cat][i].typid # 30 => <<Schema[cat][i].len, Schema[cat][i].align>> = PgType[Schema[cat][i].typid]
       /\ StructOffset(cat) = TupleOffset(cat)
=============================================================================
