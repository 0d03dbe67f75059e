------------------------------ MODULE TupDesc -------------------------------
(***************************************************************************)
(* Tuple descriptors (common/tupdesc.c): the row type of a relation, with  *)
(* its constraints, as a tree of palloc'ed chunks that free_tuple_desc     *)
(* takes apart.                                                            *)
(*                                                                         *)
(* A chunk is named by the slot whose descriptor it was allocated for and  *)
(* its place there; a string is its chunk and its text.  live is the set   *)
(* of chunks that are allocated.  What fills a template and attaches       *)
(* constraints is the caller (tuple_desc_init_entry has an empty body).    *)
(***************************************************************************)
EXTENDS Sequences, Integers, FiniteSets, SequencesExt

CONSTANTS
  DSlots,     \* the variables that hold descriptors
  Forms,      \* pg_attribute rows: records of the fields below
  DTexts,     \* the texts of default and check expressions
  MaxAtts,    \* attributes of a row type
  NoDesc      \* an empty slot, a null pointer

ASSUME TupDescAssumption ==
  /\ MaxAtts \in Nat \ {0}
  /\ Forms \subseteq [attname : STRING, atttypid : Nat, atttypmod : Int, attstorage : STRING,
                      attnotnull : BOOLEAN, atthasdef : BOOLEAN]

VARIABLES
  descs,      \* slot -> descriptor
  live,       \* the chunks in use
  was         \* slot -> what the descriptor held when it was last built or copied

descVars == <<descs, live, was>>

NullPtr == [at |-> <<>>, text |-> NoDesc]
Str(at, text) == [at |-> at, text |-> text]

\* The chunks of one part of a descriptor: an attribute, a string, nothing.
Chunk(p) == IF p = NullPtr THEN <<>> ELSE <<p.at>>

\* struct tupleDesc, TupleConstr, AttrDefault, ConstrCheck: every chunk that
\* free_tuple_desc reaches from a descriptor, in the order it frees them.
Parts(d) ==
  LET Strings(c) == FlattenSeq([i \in DOMAIN c.defval |-> Chunk(c.defval[i].adbin)])
                      \o (IF c.defval = <<>> THEN <<>> ELSE <<c.defs>>)
                      \o FlattenSeq([i \in DOMAIN c.check |-> Chunk(c.check[i].ccname) \o Chunk(c.check[i].ccbin)])
                      \o (IF c.check = <<>> THEN <<>> ELSE <<c.checks>>)
  IN FlattenSeq([i \in DOMAIN d.attrs |-> Chunk(d.attrs[i])]) \o <<d.array>>
       \o (IF d.constr = NullPtr THEN <<>> ELSE Strings(d.constr) \o <<d.constr.at>>) \o <<d.at>>

\* What a descriptor says, without the addresses.
Content(d) ==
  [attrs |-> [i \in DOMAIN d.attrs |-> IF d.attrs[i] = NullPtr THEN NullPtr ELSE d.attrs[i].form],
   constr |-> IF d.constr = NullPtr THEN NoDesc
              ELSE [has_not_null |-> d.constr.has_not_null,
                    defval |-> [i \in DOMAIN d.constr.defval |->
                                  <<d.constr.defval[i].adnum, d.constr.defval[i].adbin.text>>],
                    check |-> [i \in DOMAIN d.constr.check |->
                                  <<d.constr.check[i].ccname.text, d.constr.check[i].ccbin.text>>]]]

DescInit ==
  /\ descs = [s \in DSlots |-> NoDesc]
  /\ live = {}
  /\ was = [s \in DSlots |-> NoDesc]

\* The slot takes a descriptor whose chunks are the new ones.
Take(s, d, fresh) ==
  /\ descs' = [descs EXCEPT ![s] = d]
  /\ live' = live \cup fresh
  /\ was' = [was EXCEPT ![s] = Content(d)]

\* create_template_tuple_desc: the entries are null pointers.
create_template_tuple_desc(s, natts) ==
  /\ descs[s] = NoDesc
  /\ LET d == [at |-> <<s, "desc">>, array |-> <<s, "array">>, attrs |-> [i \in 1..natts |-> NullPtr], constr |-> NullPtr]
     IN Take(s, d, ToSet(Parts(d)))

\* create_tuple_desc: the array is the caller's, who has just built it and
\* hands it over; the descriptor is the only new chunk besides.
create_tuple_desc(s, forms) ==
  /\ descs[s] = NoDesc
  /\ LET d == [at |-> <<s, "desc">>, array |-> <<s, "array">>,
               attrs |-> [i \in DOMAIN forms |-> [at |-> <<s, "attr", i>>, form |-> forms[i]]],
               constr |-> NullPtr]
     IN Take(s, d, ToSet(Parts(d)))

\* A chunk for each attribute in slot t.
CopyAttrs(t, forms) == [i \in DOMAIN forms |-> [at |-> <<t, "attr", i>>, form |-> forms[i]]]

FormsOf(d) == [i \in DOMAIN d.attrs |-> d.attrs[i].form]

\* create_tuple_desc_copy: no constraints, and no attribute says it has any.
create_tuple_desc_copy(s, t) ==
  /\ descs[s] # NoDesc /\ descs[t] = NoDesc
  /\ NullPtr \notin Range(descs[s].attrs)
  /\ LET f == FormsOf(descs[s])
         bare == [i \in DOMAIN f |-> [f[i] EXCEPT !.attnotnull = FALSE, !.atthasdef = FALSE]]
         d == [at |-> <<t, "desc">>, array |-> <<t, "array">>, constr |-> NullPtr,
               attrs |-> CopyAttrs(t, bare)]
     IN Take(t, d, ToSet(Parts(d)))

\* pstrdup of a string that is there; memcpy has copied a null pointer.
Dup(p, at) == IF p = NullPtr THEN NullPtr ELSE Str(at, p.text)

\* Mutant: the names of the checks keep the pointers that memcpy brought.
CopyConstr_shallow(t, c) ==
  [at |-> <<t, "constr">>, defs |-> <<t, "defs">>, checks |-> <<t, "checks">>, has_not_null |-> c.has_not_null,
   defval |-> [i \in DOMAIN c.defval |-> [c.defval[i] EXCEPT !.adbin = Dup(@, <<t, "adbin", i>>)]],
   check |-> [i \in DOMAIN c.check |-> [c.check[i] EXCEPT !.ccbin = Dup(@, <<t, "ccbin", i>>)]]]

\* Mutant: the defaults are copied but for the first.
CopyConstr_short(t, c) ==
  [at |-> <<t, "constr">>, defs |-> <<t, "defs">>, checks |-> <<t, "checks">>, has_not_null |-> c.has_not_null,
   defval |-> [i \in DOMAIN c.defval |-> [c.defval[i] EXCEPT !.adbin = IF i = 1 THEN NullPtr ELSE Dup(@, <<t, "adbin", i>>)]],
   check |-> [i \in DOMAIN c.check |-> [ccname |-> Dup(c.check[i].ccname, <<t, "ccname", i>>),
                                        ccbin |-> Dup(c.check[i].ccbin, <<t, "ccbin", i>>)]]]

\* create_tuple_desc_copy_constr, the constraints: arrays and strings anew.
CopyConstr(t, c) ==
  [at |-> <<t, "constr">>, defs |-> <<t, "defs">>, checks |-> <<t, "checks">>, has_not_null |-> c.has_not_null,
   defval |-> [i \in DOMAIN c.defval |-> [c.defval[i] EXCEPT !.adbin = Dup(@, <<t, "adbin", i>>)]],
   check |-> [i \in DOMAIN c.check |-> [ccname |-> Dup(c.check[i].ccname, <<t, "ccname", i>>),
                                        ccbin |-> Dup(c.check[i].ccbin, <<t, "ccbin", i>>)]]]

\* create_tuple_desc_copy_constr: attributes as they are, and the constraints.
create_tuple_desc_copy_constr(s, t) ==
  /\ descs[s] # NoDesc /\ descs[t] = NoDesc
  /\ NullPtr \notin Range(descs[s].attrs)
  /\ LET d == [at |-> <<t, "desc">>, array |-> <<t, "array">>, attrs |-> CopyAttrs(t, FormsOf(descs[s])),
               constr |-> IF descs[s].constr = NullPtr THEN NullPtr ELSE CopyConstr(t, descs[s].constr)]
     IN /\ descs' = [descs EXCEPT ![t] = d]
        /\ live' = live \cup {p \in ToSet(Parts(d)) : p[1] = t}
        /\ was' = [was EXCEPT ![t] = Content(descs[s])]

\* Mutant: the array of the checks is not freed.
free_tuple_desc_leak(s) ==
  /\ descs[s] # NoDesc /\ NullPtr \notin Range(descs[s].attrs)
  /\ live' = live \ {p \in ToSet(Parts(descs[s])) : p[2] # "checks"}
  /\ descs' = [descs EXCEPT ![s] = NoDesc]
  /\ was' = [was EXCEPT ![s] = NoDesc]

\* free_tuple_desc: every part, once; an entry that was never filled is a null
\* pointer that pfree does not take.
free_tuple_desc(s) ==
  /\ descs[s] # NoDesc /\ NullPtr \notin Range(descs[s].attrs)
  /\ live' = live \ ToSet(Parts(descs[s]))
  /\ descs' = [descs EXCEPT ![s] = NoDesc]
  /\ was' = [was EXCEPT ![s] = NoDesc]

\* The fields of an attribute that equal_tuple_descs compares ("we do not need
\* to check every single field here").
FormFields == {"attname", "atttypid", "atttypmod", "attstorage", "attnotnull"}

\* Mutant: a descriptor without constraints equals any other.
equal_tuple_descs_lax(d, e) ==
  /\ Len(d.attrs) = Len(e.attrs)
  /\ \A i \in DOMAIN d.attrs : \A f \in FormFields : d.attrs[i].form[f] = e.attrs[i].form[f]
  /\ d.constr # NullPtr =>
       /\ e.constr # NullPtr
       /\ Content(d).constr.defval = Content(e).constr.defval
       /\ Len(d.constr.check) = Len(e.constr.check)
       /\ \A i \in DOMAIN d.constr.check : d.constr.check[i].ccname.text = e.constr.check[i].ccname.text
       /\ d.constr.has_not_null = e.constr.has_not_null

\* equal_tuple_descs: of the checks it sees the names only, since it compares
\* check2->ccbin with itself.
equal_tuple_descs(d, e) ==
  /\ Len(d.attrs) = Len(e.attrs)
  /\ \A i \in DOMAIN d.attrs : \A f \in FormFields : d.attrs[i].form[f] = e.attrs[i].form[f]
  /\ IF d.constr = NullPtr THEN e.constr = NullPtr
     ELSE /\ e.constr # NullPtr
          /\ Len(d.constr.defval) = Len(e.constr.defval)
          /\ \A i \in DOMAIN d.constr.defval : /\ d.constr.defval[i].adnum = e.constr.defval[i].adnum
                                               /\ d.constr.defval[i].adbin.text = e.constr.defval[i].adbin.text
          /\ Len(d.constr.check) = Len(e.constr.check)
          /\ \A i \in DOMAIN d.constr.check :
               /\ d.constr.check[i].ccname.text = e.constr.check[i].ccname.text
               /\ e.constr.check[i].ccbin.text = e.constr.check[i].ccbin.text
          /\ d.constr.has_not_null = e.constr.has_not_null

\* The caller fills an entry of a template.
FillEntry(s, i, form) ==
  /\ descs[s] # NoDesc /\ descs[s].attrs[i] = NullPtr
  /\ LET d == [descs[s] EXCEPT !.attrs[i] = [at |-> <<s, "attr", i>>, form |-> form]]
     IN Take(s, d, {<<s, "attr", i>>})

\* The caller attaches the constraints it has read from the catalogs: a
\* default of attribute 1, a check, or both.
AttachConstr(s, defs, checks) ==
  /\ descs[s] # NoDesc /\ NullPtr \notin Range(descs[s].attrs) /\ descs[s].constr = NullPtr
  /\ LET c == [at |-> <<s, "constr">>, defs |-> <<s, "defs">>, checks |-> <<s, "checks">>,
               has_not_null |-> \E i \in DOMAIN descs[s].attrs : descs[s].attrs[i].form.attnotnull,
               defval |-> [i \in DOMAIN defs |-> [adnum |-> i, adbin |-> Str(<<s, "adbin", i>>, defs[i])]],
               check |-> [i \in DOMAIN checks |-> [ccname |-> Str(<<s, "ccname", i>>, "chk"),
                                                   ccbin |-> Str(<<s, "ccbin", i>>, checks[i])]]]
         d == [descs[s] EXCEPT !.constr = c]
     IN Take(s, d, ToSet(Parts(d)))

DescNext ==
  \/ \E s \in DSlots :
       \/ \E n \in 1..MaxAtts : create_template_tuple_desc(s, n)
       \/ \E n \in 1..MaxAtts : \E forms \in [1..n -> Forms] : create_tuple_desc(s, forms)
       \/ \E i \in 1..MaxAtts, form \in Forms :
            descs[s] # NoDesc /\ i \in DOMAIN descs[s].attrs /\ FillEntry(s, i, form)
       \/ \E defs \in BoundedSeq(DTexts, 1), checks \in BoundedSeq(DTexts, 1) : AttachConstr(s, defs, checks)
       \/ free_tuple_desc(s)
  \/ \E s, t \in DSlots : create_tuple_desc_copy(s, t) \/ create_tuple_desc_copy_constr(s, t)

-----------------------------------------------------------------------------
Held == {s \in DSlots : descs[s] # NoDesc}

\* Every chunk in use is a part of exactly one descriptor, and of one place of
\* it: free_tuple_desc, applied to the descriptors in any order, frees nothing
\* twice, leaves no pointer of another descriptor dangling and leaks nothing.
PartsOwned ==
  /\ \A s \in Held : IsInjective(Parts(descs[s]))
  /\ \A s, t \in Held : s # t => ToSet(Parts(descs[s])) \cap ToSet(Parts(descs[t])) = {}
  /\ live = UNION {ToSet(Parts(descs[s])) : s \in Held}

\* A copy with constraints says what its source said when it was copied, and
\* what happens to the source afterwards changes nothing about it.
CopyFaithful == \A s \in Held : Content(descs[s]) = was[s]

\* A descriptor without what equal_tuple_descs does not see: whether an
\* attribute has a default (the defaults themselves are compared), and the texts
\* of the checks, which no comment leaves out.
Seen(d) ==
  LET c == Content(d)
  IN [attrs |-> [i \in DOMAIN c.attrs |-> [c.attrs[i] EXCEPT !.atthasdef = FALSE]],
      constr |-> IF c.constr = NoDesc THEN NoDesc
                 ELSE [c.constr EXCEPT !.check = [i \in DOMAIN c.constr.check |-> c.constr.check[i][1]]]]

\* Descriptors that say the same, as a copy with constraints and its source do,
\* are equal, whichever is asked first; and what is taken for equal differs in
\* nothing but the two things equal_tuple_descs does not see.
EqualDescsRight ==
  \A s, t \in Held :
    NullPtr \notin Range(descs[s].attrs) \cup Range(descs[t].attrs) =>
      /\ Content(descs[s]) = Content(descs[t]) => equal_tuple_descs(descs[s], descs[t])
      /\ equal_tuple_descs(descs[s], descs[t]) => Seen(descs[s]) = Seen(descs[t])
=============================================================================
