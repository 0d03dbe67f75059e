------------------------------ MODULE Catalogs ------------------------------
(***************************************************************************)
(* The system catalogs the caches read: the C structs that overlay their   *)
(* tuples (include/rdbms/catalog/pg_*.h), the pg_attribute rows that are   *)
(* written down for the catalogs the bootstrap needs (pg_attribute.h), the *)
(* rows of pg_type these name, and the indexes (indexing.h).               *)
(*                                                                         *)
(* A column's number (Anum_) is its position.  C types that occur in a     *)
(* struct have a size and an alignment; a type of pg_type has a length (-1 *)
(* for a varlena) and an alignment.                                        *)
(***************************************************************************)
EXTENDS Integers, Sequences, SequencesExt, TLC

NAME_DATA_LEN == 32
INDEX_MAX_KEYS == 16

\* Columns of one C type, and attribute rows of one type.
T(type, names) == [i \in DOMAIN names |-> [name |-> names[i], type |-> type]]
A(typid, len, align, names) == [i \in DOMAIN names |-> [name |-> names[i], typid |-> typid, len |-> len, align |-> align]]

\* CATALOG(pg_...): the structs.
pg_aggregate ==
  T("NameData", <<"aggname">>) \o T("int4", <<"aggowner">>) \o T("regproc", <<"aggtransfn", "aggfinalfn">>)
    \o T("Oid", <<"aggbasetype", "aggtranstype", "aggfinaltype">>) \o T("text", <<"agginitval">>)

pg_am ==
  T("NameData", <<"amname">>) \o T("int4", <<"amowner">>)
    \o T("int2", <<"amstrategies", "amsupport", "amorderstrategy">>)
    \o T("regproc", <<"amgettuple", "aminsert", "amdelete", "amgetattr", "amsetlock", "amsettid",
                    "amfreetuple", "ambeginscan", "amrescan", "amendscan",
                    "ammarkpos", "amrestrpos", "amopen", "amclose",
                    "ambuild", "amcreate", "amdestroy", "amcostestimate">>)

pg_amop ==
  T("Oid", <<"amopid", "amopclaid", "amopopr">>) \o T("int2", <<"amopstrategy">>)

pg_attribute ==
  T("Oid", <<"attrelid">>) \o T("NameData", <<"attname">>) \o T("Oid", <<"atttypid">>)
    \o T("float4", <<"attdispersion">>) \o T("int2", <<"attlen", "attnum">>)
    \o T("int4", <<"attnelems", "attcacheoff", "atttypmod">>) \o T("bool", <<"attbyval">>)
    \o T("char", <<"attstorage">>) \o T("bool", <<"attisset">>) \o T("char", <<"attalign">>)
    \o T("bool", <<"attnotnull", "atthasdef">>)

pg_class ==
  T("NameData", <<"relname">>) \o T("Oid", <<"reltype">>) \o T("int4", <<"relowner">>)
    \o T("Oid", <<"relam", "relfilenode">>) \o T("int4", <<"relpages", "reltuples">>)
    \o T("Oid", <<"reltoastrelid", "reltoastidxid">>) \o T("bool", <<"relhasindex", "relisshared">>)
    \o T("char", <<"relkind">>)
    \o T("int2", <<"relnatts", "relchecks", "reltriggers", "relukeys", "relfkeys", "relrefs">>)
    \o T("bool", <<"relhaspkey", "relhasrules", "relhassubclass">>) \o T("aclitem[1]", <<"relacl">>)

pg_database ==
  T("NameData", <<"datname">>) \o T("int4", <<"datdba", "encoding">>)
    \o T("bool", <<"datistemplate", "datallowconn">>) \o T("Oid", <<"datlastsysoid">>)
    \o T("text", <<"datpath">>)

pg_group ==
  T("NameData", <<"groname">>) \o T("int4", <<"grosysid">>) \o T("int4[1]", <<"grolist">>)

pg_index ==
  T("Oid", <<"indexrelid", "indrelid", "indproc">>) \o T("int2vector", <<"indkey">>)
    \o T("oidvector", <<"indclass">>)
    \o T("bool", <<"indisclustered", "indislossy", "indhaskeytype", "indisunique", "indisprimary">>)
    \o T("Oid", <<"indreference">>) \o T("text", <<"indpred">>)

pg_inherits ==
  T("Oid", <<"inhrelid", "inhparent">>) \o T("int4", <<"inhseqno">>)

pg_language ==
  T("NameData", <<"lanname">>) \o T("bool", <<"lanispl", "lanpltrusted">>) \o T("Oid", <<"lanplcallfoid">>)
    \o T("text", <<"lancompiler">>)

pg_listener ==
  T("NameData", <<"relname">>) \o T("int4", <<"listenerpid", "notification">>)

pg_opclass ==
  T("NameData", <<"opcname">>) \o T("Oid", <<"opcdeftype">>)

pg_operator ==
  T("NameData", <<"oprname">>) \o T("int4", <<"oprowner">>) \o T("int2", <<"oprprec">>)
    \o T("char", <<"oprkind">>) \o T("bool", <<"oprisleft", "oprcanhash">>)
    \o T("Oid", <<"oprleft", "oprright", "oprresult", "oprcom", "oprnegate", "oprlsortop", "oprrsortop">>)
    \o T("regproc", <<"oprcode", "oprrest", "oprjoin">>)

pg_proc ==
  T("NameData", <<"proname">>) \o T("int4", <<"proowner">>) \o T("Oid", <<"prolang">>)
    \o T("bool", <<"proisinh", "proistrusted", "proiscachable", "proisstrict">>)
    \o T("int2", <<"pronargs">>) \o T("bool", <<"proretset">>) \o T("Oid", <<"prorettype">>)
    \o T("oidvector", <<"proargtypes">>)
    \o T("int4", <<"probyte_pct", "properbyte_cpu", "propercall_cpu", "prooutin_ratio">>)
    \o T("text", <<"prosrc">>) \o T("bytea", <<"probin">>)

pg_rewrite ==
  T("NameData", <<"rulename">>) \o T("char", <<"ev_type">>) \o T("Oid", <<"ev_class">>)
    \o T("int2", <<"ev_attr">>) \o T("bool", <<"is_instead">>) \o T("text", <<"ev_qual", "ev_action">>)

pg_shadow ==
  T("NameData", <<"usename">>) \o T("int4", <<"usesysid">>)
    \o T("bool", <<"usecreatedb", "usetrace", "usesuper", "usecatupd">>) \o T("text", <<"passwd">>)
    \o T("int4", <<"valuntil">>)

pg_statistic ==
  T("Oid", <<"starelid">>) \o T("int2", <<"staattnum">>) \o T("Oid", <<"staop">>)
    \o T("float4", <<"stanullfrac", "stacommonfrac">>)
    \o T("text", <<"stacommonval", "staloval", "stahival">>)

pg_type ==
  T("NameData", <<"typname">>) \o T("int4", <<"typowner">>) \o T("int2", <<"typlen", "typprtlen">>)
    \o T("bool", <<"typbyval">>) \o T("char", <<"typtype">>) \o T("bool", <<"typisdefined">>)
    \o T("char", <<"typdelim">>) \o T("Oid", <<"typrelid", "typelem">>)
    \o T("regproc", <<"typinput", "typoutput", "typreceive", "typsend">>)
    \o T("char", <<"typalign", "typstorage">>) \o T("text", <<"typdefault">>)

\* Schema_pg_... and the DATA rows of pg_attribute.
Schema_pg_type ==
  A(19, 32, "i", <<"typname">>) \o A(23, 4, "i", <<"typowner">>) \o A(21, 2, "s", <<"typlen", "typprtlen">>)
    \o A(16, 1, "c", <<"typbyval">>) \o A(18, 1, "c", <<"typtype">>) \o A(16, 1, "c", <<"typisdefined">>)
    \o A(18, 1, "c", <<"typdelim">>) \o A(26, 4, "i", <<"typrelid", "typelem">>)
    \o A(24, 4, "i", <<"typinput", "typoutput", "typreceive", "typsend">>)
    \o A(18, 1, "c", <<"typalign", "typstorage">>) \o A(25, -1, "i", <<"typdefault">>)

Schema_pg_database ==
  A(19, 32, "i", <<"datname">>) \o A(23, 4, "i", <<"datdba", "encoding">>)
    \o A(16, 1, "c", <<"datistemplate", "datallowconn">>) \o A(26, 4, "i", <<"datlastsysoid">>)
    \o A(25, -1, "i", <<"datpath">>)

Schema_pg_proc ==
  A(19, 32, "i", <<"proname">>) \o A(23, 4, "i", <<"proowner">>) \o A(26, 4, "i", <<"prolang">>)
    \o A(16, 1, "c", <<"proisinh", "proistrusted", "proiscachable", "proisstrict">>)
    \o A(21, 2, "s", <<"pronargs">>) \o A(16, 1, "c", <<"proretset">>) \o A(26, 4, "i", <<"prorettype">>)
    \o A(30, 64, "i", <<"proargtypes">>)
    \o A(23, 4, "i", <<"probyte_pct", "properbyte_cpu", "propercall_cpu", "prooutin_ratio">>)
    \o A(25, -1, "i", <<"prosrc">>) \o A(17, -1, "i", <<"probin">>)

Schema_pg_shadow ==
  A(19, 32, "i", <<"usename">>) \o A(23, 4, "i", <<"usesysid">>)
    \o A(16, 1, "c", <<"usecreatedb", "usetrace", "usesuper", "usecatupd">>) \o A(25, -1, "i", <<"passwd">>)
    \o A(702, 4, "i", <<"valuntil">>)

\* Mutant: the rows of two columns change places.
Schema_pg_group_swapped ==
  A(23, 4, "i", <<"grosysid">>) \o A(19, 32, "i", <<"groname">>) \o A(1007, -1, "i", <<"grolist">>)

Schema_pg_group ==
  A(19, 32, "i", <<"groname">>) \o A(23, 4, "i", <<"grosysid">>) \o A(1007, -1, "i", <<"grolist">>)

Schema_pg_attribute ==
  A(26, 4, "i", <<"attrelid">>) \o A(19, 32, "i", <<"attname">>) \o A(26, 4, "i", <<"atttypid">>)
    \o A(700, 4, "i", <<"attdispersion">>) \o A(21, 2, "s", <<"attlen", "attnum">>)
    \o A(23, 4, "i", <<"attnelems", "attcacheoff", "atttypmod">>) \o A(16, 1, "c", <<"attbyval">>)
    \o A(18, 1, "c", <<"attstorage">>) \o A(16, 1, "c", <<"attisset">>) \o A(18, 1, "c", <<"attalign">>)
    \o A(16, 1, "c", <<"attnotnull", "atthasdef">>)

Schema_pg_class ==
  A(19, 32, "i", <<"relname">>) \o A(26, 4, "i", <<"reltype">>) \o A(23, 4, "i", <<"relowner">>)
    \o A(26, 4, "i", <<"relam", "relfilenode">>) \o A(23, 4, "i", <<"relpages", "reltuples">>)
    \o A(26, 4, "i", <<"reltoastrelid", "reltoastidxid">>)
    \o A(16, 1, "c", <<"relhasindex", "relisshared">>) \o A(18, 1, "c", <<"relkind">>)
    \o A(21, 2, "s", <<"relnatts", "relchecks", "reltriggers", "relukeys", "relfkeys", "relrefs">>)
    \o A(16, 1, "c", <<"relhaspkey", "relhasrules", "relhassubclass">>) \o A(1034, -1, "i", <<"relacl">>)

\* The structs of the catalogs that have caches.
Catalog ==
  ("pg_aggregate" :> pg_aggregate) @@ ("pg_am" :> pg_am) @@ ("pg_amop" :> pg_amop) @@ ("pg_attribute" :> pg_attribute)
    @@ ("pg_class" :> pg_class) @@ ("pg_database" :> pg_database) @@ ("pg_group" :> pg_group)
    @@ ("pg_index" :> pg_index) @@ ("pg_inherits" :> pg_inherits) @@ ("pg_language" :> pg_language)
    @@ ("pg_listener" :> pg_listener) @@ ("pg_opclass" :> pg_opclass) @@ ("pg_operator" :> pg_operator)
    @@ ("pg_proc" :> pg_proc) @@ ("pg_rewrite" :> pg_rewrite) @@ ("pg_shadow" :> pg_shadow)
    @@ ("pg_statistic" :> pg_statistic) @@ ("pg_type" :> pg_type)

Schema ==
  ("pg_type" :> Schema_pg_type) @@ ("pg_database" :> Schema_pg_database) @@ ("pg_proc" :> Schema_pg_proc)
    @@ ("pg_shadow" :> Schema_pg_shadow) @@ ("pg_group" :> Schema_pg_group)
    @@ ("pg_attribute" :> Schema_pg_attribute) @@ ("pg_class" :> Schema_pg_class)

\* Anum_<catalog>_<column>.
Anum(cat, col) == CHOOSE i \in DOMAIN Catalog[cat] : Catalog[cat][i].name = col

\* sizeof and alignment of the C types, VARYING for what only starts in the
\* struct.  NameData is a union with an int, for its alignment.
VARYING == -1
CType ==
  ("NameData" :> <<NAME_DATA_LEN, 4>>) @@ ("Oid" :> <<4, 4>>) @@ ("regproc" :> <<4, 4>>) @@ ("int4" :> <<4, 4>>)
    @@ ("int2" :> <<2, 2>>) @@ ("float4" :> <<4, 4>>) @@ ("bool" :> <<1, 1>>) @@ ("char" :> <<1, 1>>)
    @@ ("int2vector" :> <<2 * INDEX_MAX_KEYS, 2>>) @@ ("oidvector" :> <<4 * INDEX_MAX_KEYS, 4>>)
    @@ ("text" :> <<VARYING, 4>>) @@ ("bytea" :> <<VARYING, 4>>) @@ ("aclitem[1]" :> <<VARYING, 4>>)
    @@ ("int4[1]" :> <<VARYING, 4>>)

\* typlen and typalign of the rows of pg_type that the columns have.
PgType ==
  (16 :> <<1, "c">>) @@ (17 :> <<-1, "i">>) @@ (18 :> <<1, "c">>) @@ (19 :> <<NAME_DATA_LEN, "i">>)
    @@ (21 :> <<2, "s">>) @@ (23 :> <<4, "i">>) @@ (24 :> <<4, "i">>) @@ (25 :> <<-1, "i">>) @@ (26 :> <<4, "i">>)
    @@ (30 :> <<INDEX_MAX_KEYS, "i">>) @@ (700 :> <<4, "i">>) @@ (702 :> <<4, "i">>)
    @@ (1007 :> <<-1, "i">>) @@ (1034 :> <<-1, "i">>)

AlignOf == ("c" :> 1) @@ ("s" :> 2) @@ ("i" :> 4) @@ ("d" :> 8)

AlignUp(n, a) == ((n + a - 1) \div a) * a

\* Where the columns lie when each takes len bytes at its alignment; layout is
\* a sequence of <<len, align>>.
Offsets(layout) ==
  LET Put(done, c) == LET at == AlignUp(done.end, c[2])
                      IN [at |-> Append(done.at, at), end |-> at + c[1]]
  IN FoldLeft(Put, [at |-> <<>>, end |-> 0], layout).at

\* The columns before the first of varying length: the compiler places them in
\* the struct, the tuple routines place them by their attribute rows.
FixedPart(cat) ==
  LET varying == {i \in DOMAIN Catalog[cat] : CType[Catalog[cat][i].type][1] = VARYING}
  IN 1..(IF varying = {} THEN Len(Catalog[cat]) ELSE (CHOOSE i \in varying : \A j \in varying : i <= j) - 1)

StructOffset(cat) == Offsets([i \in FixedPart(cat) |-> CType[Catalog[cat][i].type]])
TupleOffset(cat) == Offsets([i \in FixedPart(cat) |-> <<Schema[cat][i].len, AlignOf[Schema[cat][i].align]>>])

\* Names, catalogs and columns of the indexes (oid is a system column), and
\* which are declared unique; those of pg_shadow are not declared.
I(on, cols, unique) == [on |-> on, cols |-> cols, unique |-> unique]
Index ==
  ("pg_aggregate_name_type_index" :> I("pg_aggregate", <<"aggname", "aggbasetype">>, TRUE))
    @@ ("pg_am_name_index" :> I("pg_am", <<"amname">>, TRUE))
    @@ ("pg_amop_opid_index" :> I("pg_amop", <<"amopclaid", "amopopr", "amopid">>, TRUE))
    @@ ("pg_amop_strategy_index" :> I("pg_amop", <<"amopid", "amopclaid", "amopstrategy">>, TRUE))
    @@ ("pg_attribute_relid_attnam_index" :> I("pg_attribute", <<"attrelid", "attname">>, TRUE))
    @@ ("pg_attribute_relid_attnum_index" :> I("pg_attribute", <<"attrelid", "attnum">>, TRUE))
    @@ ("pg_class_oid_index" :> I("pg_class", <<"oid">>, TRUE))
    @@ ("pg_class_relname_index" :> I("pg_class", <<"relname">>, TRUE))
    @@ ("pg_group_name_index" :> I("pg_group", <<"groname">>, TRUE))
    @@ ("pg_group_sysid_index" :> I("pg_group", <<"grosysid">>, TRUE))
    @@ ("pg_index_indexrelid_index" :> I("pg_index", <<"indexrelid">>, TRUE))
    @@ ("pg_inherits_relid_seqno_index" :> I("pg_inherits", <<"inhrelid", "inhseqno">>, TRUE))
    @@ ("pg_language_name_index" :> I("pg_language", <<"lanname">>, TRUE))
    @@ ("pg_language_oid_index" :> I("pg_language", <<"oid">>, TRUE))
    @@ ("pg_listener_pid_relname_index" :> I("pg_listener", <<"listenerpid", "relname">>, TRUE))
    @@ ("pg_opclass_deftype_index" :> I("pg_opclass", <<"opcdeftype">>, FALSE))
    @@ ("pg_opclass_name_index" :> I("pg_opclass", <<"opcname">>, TRUE))
    @@ ("pg_operator_oid_index" :> I("pg_operator", <<"oid">>, TRUE))
    @@ ("pg_operator_oprname_l_r_k_index" :> I("pg_operator", <<"oprname", "oprleft", "oprright", "oprkind">>, TRUE))
    @@ ("pg_proc_oid_index" :> I("pg_proc", <<"oid">>, TRUE))
    @@ ("pg_proc_proname_narg_type_index" :> I("pg_proc", <<"proname", "pronargs", "proargtypes">>, TRUE))
    @@ ("pg_rewrite_oid_index" :> I("pg_rewrite", <<"oid">>, TRUE))
    @@ ("pg_rewrite_rulename_index" :> I("pg_rewrite", <<"rulename">>, TRUE))
    @@ ("pg_shadow_name_index" :> I("pg_shadow", <<"usename">>, FALSE))
    @@ ("pg_shadow_sysid_index" :> I("pg_shadow", <<"usesysid">>, FALSE))
    @@ ("pg_statistic_relid_att_index" :> I("pg_statistic", <<"starelid", "staattnum">>, FALSE))
    @@ ("pg_type_oid_index" :> I("pg_type", <<"oid">>, TRUE))
    @@ ("pg_type_typname_index" :> I("pg_type", <<"typname">>, TRUE))
=============================================================================
