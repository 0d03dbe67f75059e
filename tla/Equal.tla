------------------------------- MODULE Equal --------------------------------
(***************************************************************************)
(* Comparison of nodes (nodes/equalfuncs.c).  A structure is the set of    *)
(* its fields with their types (nodes/*.h); the function that compares two *)
(* of a kind is the set of the fields it looks at, each with the way it is *)
(* compared.  equal() dispatches on the tag and follows pointers.          *)
(*                                                                         *)
(* equalfuncs.c was written for the structures of release 7.0: the fields  *)
(* that it names and that Query, RangeTblEntry and TargetEntry no longer   *)
(* have are taken as part of them here.                                    *)
(*                                                                         *)
(* The state is two nodes, x and y, of the same kind, that start alike and *)
(* are edited one field at a time.  What they point to is a fixed pool.    *)
(***************************************************************************)
EXTENDS Datum, TLC

CONSTANTS MaxEdits,     \* edits of the pair
          v1, v2, v3,   \* Vars: v2 is a copy of v1, v3 another one
          l1, l2, l3,   \* Lists: l2 is a copy of l1, l3 is longer
          s1, s2,       \* SubPlans, for which there is no comparison
          d1, d2, d3    \* by-reference datums: d2 has the bytes of d1

VARIABLES
  x, y,      \* the two nodes
  edits      \* edits so far

equalVars == <<x, y, edits>>

-----------------------------------------------------------------------------
\* Structures.  The types are int (any scalar), text (a char*, possibly NULL),
\* name (a char* never NULL), node, list, ints (a list of integers), ptr (whose
\* value is the address), bounds (of an array), bytes (an array of fj_n_nodes, a
\* count), kind (of a Param), and datum with its len.
Of(type, fields) == {<<f, type>> : f \in fields}

Resdom == Of("int", {"res_no", "res_type", "res_type_mod", "res_sort_group_ref", "res_key", "res_key_op", "res_junk"})
          \cup Of("text", {"res_name"})
Fjoin == Of("int", {"fj_initialized"}) \cup Of("count", {"fj_n_nodes"}) \cup Of("list", {"fj_inner_node"})
         \cup Of("bytes", {"fj_results", "fj_always_done"})
Expr == Of("int", {"type_oid", "op_type"}) \cup Of("node", {"oper"}) \cup Of("list", {"args"})
Var == Of("int", {"varno", "var_attno", "var_type", "var_type_mod", "var_levels_up", "varno_old", "var_oattno"})
Oper == Of("int", {"op_no", "op_id", "op_result_type", "op_size"}) \cup Of("ptr", {"op_fcache"})
Const == Of("int", {"const_type", "const_is_null", "const_by_val", "const_is_set", "const_is_cast"})
         \cup Of("len", {"const_len"}) \cup Of("datum", {"const_value"})
Param == Of("kind", {"param_kind"}) \cup Of("int", {"param_id", "param_type"})
         \cup Of("name", {"param_name"}) \cup Of("list", {"param_tlist"})
Func == Of("int", {"func_id", "func_type", "func_is_index", "func_size"}) \cup Of("ptr", {"func_fcache"})
        \cup Of("list", {"func_tlist", "func_planlist"})
Iter == Of("node", {"iter_expr"}) \cup Of("int", {"iter_type"})
Aggref == Of("name", {"agg_name"}) \cup Of("node", {"target"})
          \cup Of("int", {"base_type", "agg_type", "use_nulls", "agg_star", "agg_distinct", "aggno"})
SubLink == Of("int", {"sublink_type", "use_or"}) \cup Of("list", {"lefthand", "oper"}) \cup Of("node", {"subselect"})
Array == Of("int", {"array_elem_type", "array_elem_length", "array_elem_by_val", "array_ndim", "array_len"})
         \cup Of("bounds", {"array_low", "array_high"})
ArrayRef == Of("int", {"ref_attr_length", "ref_elem_length", "ref_elem_type", "ref_elem_by_val"})
            \cup Of("list", {"ref_upper_ind_expr", "ref_lower_ind_expr"})
            \cup Of("node", {"ref_expr", "ref_assgn_expr"})
RelabelType == Of("node", {"arg"}) \cup Of("int", {"result_type", "result_type_mod"})

RelOptInfo == Of("ints", {"relids"}) \cup Of("ptr", {"cheapest_startup_path", "cheapest_total_path"})
              \cup Of("int", {"rows", "width", "pruneable", "indexed", "pages", "tuples", "base_restrict_cost"})
              \cup Of("list", {"target_list", "path_list", "base_restrict_info", "join_info", "inner_join"})
IndexOptInfo == Of("int", {"index_oid", "pages", "tuples", "rel_am", "am_cost_estimate", "ind_proc", "lossy"})
                \cup Of("ptr", {"class_list", "index_keys", "ordering"}) \cup Of("list", {"ind_pred"})
PathKeyItem == Of("node", {"key"}) \cup Of("int", {"sort_op"})
Path == Of("node", {"parent"}) \cup Of("int", {"startup_cost", "total_cost", "path_type"}) \cup Of("list", {"path_keys"})
IndexPath == Path \cup Of("ints", {"index_id", "join_rel_ids"}) \cup Of("list", {"index_qual"})
             \cup Of("int", {"index_scan_dir", "rows"})
TidPath == Path \cup Of("list", {"tid_eval"}) \cup Of("ints", {"unjoined_rel_ids"})
JoinPath == Path \cup Of("node", {"outer_join_path", "inner_join_path"}) \cup Of("list", {"join_restrict_info"})
MergePath == JoinPath \cup Of("list", {"path_merge_clauses", "outer_sort_keys", "inner_sort_keys"})
HashPath == JoinPath \cup Of("list", {"path_hash_clauses"})
RestrictInfo == Of("node", {"clause"}) \cup Of("list", {"sub_clause_indices"})
                \cup Of("int", {"merge_join_operator", "left_sort_op", "right_sort_op", "hash_join_operator"})
JoinInfo == Of("ints", {"unjoined_relids"}) \cup Of("list", {"jinfo_restrict_info"})
Stream == Of("node", {"path_ptr", "cinfo", "upstream", "downstream"}) \cup Of("ptr", {"clause_type"})
          \cup Of("int", {"group_up", "group_cost", "group_sel"})

Query == Of("int", {"command_type", "result_relation", "is_portal", "is_binary", "is_temp", "union_all", "has_aggs",
                    "has_sublinks"})
         \cup Of("text", {"into"})
         \cup Of("node", {"utility_stmt", "qual", "having_qual", "limit_offset", "limit_count", "set_operations"})
         \cup Of("list", {"rtable", "target_list", "row_mark", "distinct_clause", "sort_clause", "group_clause",
                          "intersect_clause", "union_clause", "jointree", "base_rel_list", "join_rel_list",
                          "equi_key_list", "query_pathkeys"})
         \cup Of("ints", {"row_marks", "result_relations"})
RangeTblEntry == Of("text", {"rel_name"}) \cup Of("node", {"ref", "subquery", "alias", "eref"})
                 \cup Of("int", {"rel_id", "inh", "in_from_cl", "in_join_set", "skip_acl", "check_for_read",
                                 "check_for_write", "check_as_user"})
SortClause == Of("int", {"tle_sort_group_ref", "sort_op"})
TargetEntry == Of("node", {"resdom", "fjoin", "expr"})
Attr == Of("name", {"rel_name"}) \cup Of("node", {"param_no"}) \cup Of("list", {"attrs", "indirection"})
CaseExpr == Of("int", {"case_type"}) \cup Of("node", {"arg", "def_result"}) \cup Of("list", {"args"})
CaseWhen == Of("node", {"expr", "result"})
Value == Of("int", {"ival"}) \cup Of("name", {"str"})

Structs ==
  [Resdom |-> Resdom, Fjoin |-> Fjoin, Expr |-> Expr, Iter |-> Iter, Stream |-> Stream, Attr |-> Attr, Var |-> Var,
   Array |-> Array, ArrayRef |-> ArrayRef, Oper |-> Oper, Const |-> Const, Param |-> Param, Aggref |-> Aggref,
   SubLink |-> SubLink, RelabelType |-> RelabelType, Func |-> Func, RestrictInfo |-> RestrictInfo,
   RelOptInfo |-> RelOptInfo, IndexOptInfo |-> IndexOptInfo, PathKeyItem |-> PathKeyItem, Path |-> Path,
   IndexPath |-> IndexPath, TidPath |-> TidPath, NestPath |-> JoinPath, MergePath |-> MergePath,
   HashPath |-> HashPath, JoinInfo |-> JoinInfo, Query |-> Query, RangeTblEntry |-> RangeTblEntry,
   SortClause |-> SortClause, GroupClause |-> SortClause, TargetEntry |-> TargetEntry, CaseExpr |-> CaseExpr,
   CaseWhen |-> CaseWhen, Integer |-> Value, Float |-> Value, String |-> Value,
   SubPlan |-> {}, List |-> {<<"elems", "elems">>}]

-----------------------------------------------------------------------------
\* The ways of comparing a field: = (the machine word), strcmp, maybe (strcmp
\* unless one is NULL), equal, equali, first (indx[0] of an array's bounds),
\* memcmp, datum, and self (a field of the first node with itself).
By(how, fields) == {<<f, how>> : f \in fields}

\* Mutant: names are compared by their addresses.
equal_resdom_address == By("=", {"res_no", "res_type", "res_type_mod", "res_sort_group_ref", "res_key", "res_key_op",
                                 "res_name"})

equal_resdom == By("=", {"res_no", "res_type", "res_type_mod", "res_sort_group_ref", "res_key", "res_key_op"})
                \cup By("maybe", {"res_name"})
equal_fjoin == By("=", {"fj_initialized", "fj_n_nodes"}) \cup By("equal", {"fj_inner_node"})
               \cup By("memcmp", {"fj_results"}) \cup By("self", {"fj_always_done"})
equal_expr == By("=", {"op_type"}) \cup By("equal", {"oper", "args"})
equal_attr == By("strcmp", {"rel_name"}) \cup By("equal", {"attrs"})
equal_var == By("=", {"varno", "var_attno", "var_type", "var_type_mod", "var_levels_up", "varno_old", "var_oattno"})
equal_oper == By("=", {"op_no", "op_result_type"})
equal_const(n) == By("=", {"const_type", "const_len", "const_is_null", "const_by_val"})
                  \cup (IF n.const_is_null = 1 THEN {} ELSE By("datum", {"const_value"}))
equal_param(n) == By("=", {"param_kind", "param_type"}) \cup By("equal", {"param_tlist"})
                  \cup CASE n.param_kind \in {"NAMED", "NEW", "OLD"} -> By("strcmp", {"param_name"})
                         [] n.param_kind \in {"NUM", "EXEC"}         -> By("=", {"param_id"})
                         [] OTHER                                    -> {}
equal_func == By("=", {"func_id", "func_type", "func_is_index", "func_size"})
              \cup By("equal", {"func_tlist", "func_planlist"})
equal_aggref == By("strcmp", {"agg_name"}) \cup By("equal", {"target"})
                \cup By("=", {"base_type", "agg_type", "use_nulls", "agg_star", "agg_distinct"})
equal_sublink == By("=", {"sublink_type", "use_or"}) \cup By("equal", {"lefthand", "oper", "subselect"})
equal_relabel_type == By("equal", {"arg"}) \cup By("=", {"result_type", "result_type_mod"})
equal_array == By("=", {"array_elem_type", "array_ndim", "array_len"}) \cup By("first", {"array_low", "array_high"})
equal_array_ref == By("=", {"ref_elem_type", "ref_attr_length", "ref_elem_length", "ref_elem_by_val"})
                   \cup By("equal", {"ref_upper_ind_expr", "ref_lower_ind_expr", "ref_expr", "ref_assgn_expr"})
equal_rel_opt_info == By("equali", {"relids"})
equal_index_opt_info == By("=", {"index_oid"})
equal_path_key_item == By("=", {"sort_op"}) \cup By("equal", {"key"})
equal_path == By("=", {"path_type"}) \cup By("equal", {"parent", "path_keys"})
equal_index_path == equal_path \cup By("equali", {"index_id", "join_rel_ids"}) \cup By("equal", {"index_qual"})
                    \cup By("=", {"index_scan_dir"})
equal_tid_path == equal_path \cup By("equal", {"tid_eval"}) \cup By("equali", {"unjoined_rel_ids"})


equal_join_path == equal_path \cup By("equal", {"outer_join_path", "inner_join_path", "join_restrict_info"})
equal_nest_path == equal_join_path
equal_merge_path == equal_join_path \cup By("equal", {"path_merge_clauses", "outer_sort_keys", "inner_sort_keys"})
equal_hash_path == equal_join_path \cup By("equal", {"path_hash_clauses"})
equal_restrict_info == By("equal", {"clause", "sub_clause_indices"})
                       \cup By("=", {"merge_join_operator", "left_sort_op", "right_sort_op", "hash_join_operator"})
equal_join_info == By("equali", {"unjoined_relids"}) \cup By("equal", {"jinfo_restrict_info"})
equal_iter == By("equal", {"iter_expr"})
equal_stream == By("=", {"clause_type", "group_up", "group_cost", "group_sel"})
                \cup By("equal", {"path_ptr", "cinfo", "upstream", "downstream"})
equal_query ==
  By("=", {"command_type", "result_relation", "is_portal", "is_binary", "is_temp", "union_all", "has_aggs",
           "has_sublinks"})
  \cup By("maybe", {"into"})
  \cup By("equal", {"utility_stmt", "rtable", "target_list", "qual", "row_mark", "distinct_clause", "sort_clause",
                    "group_clause", "having_qual", "intersect_clause", "union_clause", "limit_offset", "limit_count"})
equal_range_tbl_entry == By("maybe", {"rel_name"}) \cup By("equal", {"ref"})
                         \cup By("=", {"rel_id", "inh", "in_from_cl", "in_join_set", "skip_acl"})
equal_sort_clause == By("=", {"tle_sort_group_ref", "sort_op"})
equal_target_entry == By("equal", {"resdom", "fjoin", "expr"})
equal_case_expr == By("=", {"case_type"}) \cup By("equal", {"arg", "args", "def_result"})
equal_case_when == By("equal", {"expr", "result"})
equal_value(tag) == IF tag = "Integer" THEN By("=", {"ival"}) ELSE By("strcmp", {"str"})

\* The switch of equal(): expressions, planner nodes, parse tree nodes.
Comparisons(n) ==
  [Resdom |-> equal_resdom, Fjoin |-> equal_fjoin, Expr |-> equal_expr, Iter |-> equal_iter,
   Stream |-> equal_stream, Attr |-> equal_attr, Var |-> equal_var, Array |-> equal_array,
   ArrayRef |-> equal_array_ref, Oper |-> equal_oper,
   Const |-> IF n.tag = "Const" THEN equal_const(n.f) ELSE {},
   Param |-> IF n.tag = "Param" THEN equal_param(n.f) ELSE {},
   Aggref |-> equal_aggref, SubLink |-> equal_sublink, RelabelType |-> equal_relabel_type, Func |-> equal_func]
PlannerComparisons ==
  [RestrictInfo |-> equal_restrict_info, RelOptInfo |-> equal_rel_opt_info, IndexOptInfo |-> equal_index_opt_info,
   PathKeyItem |-> equal_path_key_item, Path |-> equal_path, IndexPath |-> equal_index_path,
   TidPath |-> equal_tid_path, NestPath |-> equal_nest_path, MergePath |-> equal_merge_path,
   HashPath |-> equal_hash_path, JoinInfo |-> equal_join_info]
ParseComparisons ==
  [Integer |-> equal_value("Integer"), Float |-> equal_value("Float"), String |-> equal_value("String"),
   Query |-> equal_query, RangeTblEntry |-> equal_range_tbl_entry, SortClause |-> equal_sort_clause,
   GroupClause |-> equal_sort_clause, TargetEntry |-> equal_target_entry, CaseExpr |-> equal_case_expr,
   CaseWhen |-> equal_case_when]

-----------------------------------------------------------------------------
\* What the fields can hold, the first entry being what both nodes start with.
\* A text and an array have an address and contents.
Values(type) ==
  CASE type \in {"int", "ptr"} -> <<0, 1>>
    [] type = "count"  -> <<1, 2>>
    [] type = "len"    -> <<-1, 1>>
    [] type = "name"   -> <<[at |-> 1, is |-> "p"], [at |-> 2, is |-> "p"], [at |-> 3, is |-> "q"]>>
    [] type = "text"   -> <<[at |-> 1, is |-> "p"], [at |-> 2, is |-> "p"], [at |-> 3, is |-> "q"], NULL>>
    [] type = "bytes"  -> <<[at |-> 1, is |-> <<1, 1>>], [at |-> 2, is |-> <<1, 1>>], [at |-> 3, is |-> <<1, 2>>]>>
    [] type = "ints"   -> <<<<1, 2>>, <<2, 1>>, <<1>>, <<>>>>
    [] type = "bounds" -> <<<<1, 1>>, <<1, 2>>, <<2, 1>>>>
    [] type = "kind"   -> <<"NUM", "NAMED", "NEW", "OLD", "EXEC", "INVALID">>
    [] type = "datum"  -> <<d1, d2, d3>>
    [] type = "node"   -> <<v1, v2, v3, NULL>>
    [] type = "list"   -> <<l1, l2, l3, NULL>>
    [] type = "elems"  -> <<<<v1>>, <<v2>>, <<v3>>, <<v1, v3>>, <<l1, v3>>, <<l2, v3>>, <<s1>>, <<s2>>>>

Fields(tag) == {p[1] : p \in Structs[tag]}
TypeOf(tag, f) == (CHOOSE p \in Structs[tag] : p[1] = f)[2]

Fresh(tag) == [tag |-> tag, f |-> [f \in Fields(tag) |-> Values(TypeOf(tag, f))[1]]]
With(n, f, v) == [n EXCEPT !.f[f] = v]

VarNode(varno) == [tag |-> "Var", f |-> [f \in {p[1] : p \in Var} |-> IF f = "varno" THEN varno ELSE 0]]
ListNode(elems) == [tag |-> "List", f |-> [elems |-> elems]]

Pool == (v1 :> VarNode(0)) @@ (v2 :> VarNode(0)) @@ (v3 :> VarNode(1))
        @@ (l1 :> ListNode(<<v1>>)) @@ (l2 :> ListNode(<<v2>>)) @@ (l3 :> ListNode(<<v1, v3>>))
        @@ [a \in {s1, s2} |-> [tag |-> "SubPlan", f |-> <<>>]]

Nodes == {"x", "y", NULL} \cup DOMAIN Pool

At(a) == IF a = "x" THEN x ELSE IF a = "y" THEN y ELSE Pool[a]

BytesAt == (d1 :> <<1, 1>>) @@ (d2 :> <<1, 1>>) @@ (d3 :> <<1, 2>>)

\* equali: the integers one by one, and both at their end.
equali(p, q) == Len(p) = Len(q) /\ \A i \in DOMAIN p : p[i] = q[i]

\* What a field of two nodes that have the same tag is compared with, but for
\* the nodes it points to.
SameField(m, n, f, how) ==
  LET p == m.f[f]  q == n.f[f]
  IN CASE how = "="      -> p = q
       [] how = "strcmp" -> p.is = q.is
       [] how = "maybe"  -> IF p # NULL /\ q # NULL THEN p.is = q.is ELSE p = q
       [] how = "equali" -> equali(p, q)
       [] how = "first"  -> p[1] = q[1]
       [] how = "memcmp" -> SubSeq(p.is, 1, m.f.fj_n_nodes) = SubSeq(q.is, 1, m.f.fj_n_nodes)
       [] how = "datum"  -> datum_is_equal(BytesAt, p, q, m.f.const_by_val = 1, m.f.const_len)
       [] how = "self"   -> p = p

\* equal: the same pointer, or nodes with the same tag whose fields compare; a
\* tag that the switch does not handle is never equal to another node of its kind.
equal[a \in Nodes, b \in Nodes] ==
  \/ a = b
  \/ /\ a # NULL /\ b # NULL
     /\ At(a).tag = At(b).tag
     /\ LET m == At(a)  n == At(b)
            cases == Comparisons(m) @@ PlannerComparisons @@ ParseComparisons
        IN IF m.tag = "List"
           THEN /\ Len(m.f.elems) = Len(n.f.elems)
                /\ \A i \in DOMAIN m.f.elems : equal[m.f.elems[i], n.f.elems[i]]
           ELSE /\ m.tag \in DOMAIN cases
                /\ \A c \in cases[m.tag] :
                     IF c[2] = "equal" THEN equal[m.f[c[1]], n.f[c[1]]] ELSE SameField(m, n, c[1], c[2])

-----------------------------------------------------------------------------
EqualInit == x = Fresh("Var") /\ y = x /\ edits = 0

\* The pair under comparison is of another kind.
Start(tag) == edits = 0 /\ x.tag = "Var" /\ x' = Fresh(tag) /\ y' = x' /\ UNCHANGED edits

\* A field of one node, or of both, is set.
Edit(f, v) ==
  /\ edits < MaxEdits
  /\ edits' = edits + 1
  /\ \/ x' = With(x, f, v) /\ y' \in {y, With(y, f, v)}
     \/ y' = With(y, f, v) /\ UNCHANGED x

EqualNext ==
  \/ \E tag \in DOMAIN Structs \ {"Var"} : Start(tag)
  \/ \E f \in Fields(x.tag) : \E i \in DOMAIN Values(TypeOf(x.tag, f)) : Edit(f, Values(TypeOf(x.tag, f))[i])

-----------------------------------------------------------------------------
\* The fields that the comments of equalfuncs.c leave out: derived from the
\* rest ("since these are logically derived"), private to the executor, set too
\* late, subject to rounding, or asked about ("What about constisset and
\* constiscast?", "Is this sufficient?").
Ignored(tag) ==
  CASE tag = "Resdom" -> {"res_junk"}
    [] tag = "Expr"   -> {"type_oid"}
    [] tag = "Oper"   -> {"op_id", "op_size", "op_fcache"}
    [] tag = "Const"  -> {"const_is_set", "const_is_cast"}
    [] tag = "Func"   -> {"func_fcache"}
    [] tag = "Aggref" -> {"aggno"}
    [] tag = "Array"  -> {"array_elem_length", "array_elem_by_val"}
    [] tag = "RelOptInfo"   -> Fields(tag) \ {"relids"}
    [] tag = "IndexOptInfo" -> Fields(tag) \ {"index_oid"}
    [] tag \in {"Path", "TidPath", "NestPath", "MergePath", "HashPath"} -> {"startup_cost", "total_cost"}
    [] tag = "IndexPath" -> {"startup_cost", "total_cost", "rows"}
    [] tag = "Query"     -> {"base_rel_list", "join_rel_list", "equi_key_list", "query_pathkeys"}
    [] OTHER -> {}

\* Content that equal() does not see and no comment excuses: fj_always_done,
\* which equal_fjoin compares with itself; the bounds of an array but the first
\* ("shouldn't we be checking all indices???"); and fields that are never named.
Overlooked(tag) ==
  CASE tag = "Fjoin" -> {"fj_always_done"}
    [] tag = "Array" -> {"other bounds"}
    [] tag = "Iter"  -> {"iter_type"}
    [] tag = "Attr"  -> {"param_no", "indirection"}
    [] tag = "Query" -> {"jointree", "row_marks", "set_operations", "result_relations"}
    [] tag = "RangeTblEntry" -> {"subquery", "alias", "eref", "check_for_read", "check_for_write", "check_as_user"}
    [] OTHER -> {}

\* The kind of a Param or a Value and the null flag of a Const say which of
\* their fields mean nothing.
Meaningless(n) ==
  CASE n.tag = "Const" /\ n.f.const_is_null = 1 -> {"const_value"}
    [] n.tag = "Param" -> CASE n.f.param_kind \in {"NAMED", "NEW", "OLD"} -> {"param_id"}
                            [] n.f.param_kind \in {"NUM", "EXEC"} -> {"param_name"}
                            [] OTHER -> {"param_id", "param_name"}
    [] n.tag = "Integer" -> {"str"}
    [] n.tag \in {"Float", "String"} -> {"ival"}
    [] OTHER -> {}

\* What a node holds, as its structure says and whatever equal() looks at: the
\* contents of its fields by their types, all the way down, and every element
\* of its arrays.  A SubPlan, which nothing compares, stands for itself;
\* drop[tag] is what is taken away.
NodeContent(drop) ==
  LET Held[a \in Nodes] ==
        LET n == At(a)
            below(v, type) == IF type = "elems" THEN v ELSE <<v>>
            View(v, type) ==
              CASE type \in {"node", "list", "elems"} ->
                     [i \in DOMAIN below(v, type) |-> Held[below(v, type)[i]]]
                [] type = "name"   -> v.is
                [] type = "text"   -> IF v = NULL THEN NULL ELSE v.is
                [] type = "bounds" -> v[1]
                [] type = "bytes"  -> SubSeq(v.is, 1, n.f.fj_n_nodes)
                [] type = "datum"  -> IF n.f.const_by_val = 1 THEN <<v>>
                                      ELSE IF n.f.const_len = -1 THEN BytesAt[v]
                                      ELSE SubSeq(BytesAt[v], 1, n.f.const_len)
                [] OTHER -> v
            others == IF n.tag = "Array" THEN <<Tail(n.f.array_low), Tail(n.f.array_high)>> ELSE <<>>
        IN IF a = NULL THEN NULL
           ELSE IF n.tag = "SubPlan" THEN <<a>>
           ELSE <<n.tag,
                  [f \in (Fields(n.tag) \ Meaningless(n)) \ drop[n.tag] |-> View(n.f[f], TypeOf(n.tag, f))],
                  IF "other bounds" \in drop[n.tag] THEN <<>> ELSE others>>
  IN Held

Whole == NodeContent([tag \in DOMAIN Structs |-> {}])
Compared == NodeContent([tag \in DOMAIN Structs |-> Ignored(tag) \cup Overlooked(tag)])

\* Nodes that hold the same, in copies of their own down to the last string and
\* list, are equal in both directions.
CopiesEqual == Whole["x"] = Whole["y"] => equal["x", "y"] /\ equal["y", "x"]

\* equal() does not compare all content.  What it takes for equal differs, at
\* any depth, in nothing but the fields that a comment leaves out and those
\* listed as overlooked.
DifferencesSeen == equal["x", "y"] => Compared["x"] = Compared["y"]
=============================================================================
