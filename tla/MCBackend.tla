------------------------------ MODULE MCBackend -----------------------------
(***************************************************************************)
(* What a backend works with for TLC: datums, expression nodes, tuples and *)
(* their descriptors, the caches of catalog rows and relations, the trace  *)
(* options, what the process knows of itself and its search for its        *)
(* database.  subject is the one that moves in a behaviour, so that their  *)
(* state spaces add up.                                                    *)
(***************************************************************************)
EXTENDS Equal, HeapTuple, TupDesc, SysCaches, RelCache, Options, Session, RawDatabase

\* Values that differ in length, and in their order.
SomeBytes == {<<1>>, <<1, 2>>, <<2, 1>>}

Col(len, align) == [len |-> len, align |-> align]

\* Fixed columns only, a varlena in the middle, a varlena at the end.
SomeRowTypes ==
  {<<Col(1, 1), Col(2, 2), Col(1, 1)>>, <<Col(1, 1), Col(-1, 2), Col(2, 2)>>, <<Col(2, 2), Col(1, 1), Col(-1, 2)>>}

\* Attributes that differ in one of the fields that are compared.
SomeForm ==
  [attname |-> "a", atttypid |-> 1, atttypmod |-> -1, attstorage |-> "p", attnotnull |-> TRUE, atthasdef |-> TRUE]
SomeForms ==
  {SomeForm, [SomeForm EXCEPT !.atttypmod = 8], [SomeForm EXCEPT !.attstorage = "e", !.atthasdef = FALSE]}

\* Names that fit, that just do not, and two that are the same once cut off.
SomeNames == {<<1>>, <<1, 2>>, <<1, 2, 1>>, <<1, 2, 2>>}

Item(name, signed, val) == [name |-> name, signed |-> signed, val |-> val]
SomeFileItems == {Item("plan", FALSE, 0), Item("pl", TRUE, 0)}
SomeItems ==
  SomeFileItems \cup {Item("parserstats", TRUE, 2), Item("verbose", FALSE, 0), Item("all", TRUE, -1), Item("x", FALSE, 0)}

SomeDirs == {<<"/", "d">>, <<"d">>}
SomeCwds == {<<"/", "x">>, <<"/", "y">>}

VARIABLE subject

vars == <<subject, datumVars, equalVars, tupleVars, descVars, cacheVars, relVars, optVars, sessionVars, rawVars>>

Init ==
  /\ subject \in {"datum", "equal", "tuple", "desc", "cache", "rel", "opt", "session", "raw"}
  /\ DatumInit /\ EqualInit /\ TupleInit /\ DescInit /\ CacheInit /\ RelInit /\ OptInit /\ SessionInit /\ RawInit

Next ==
  /\ UNCHANGED subject
  /\ \/ /\ subject = "datum" /\ DatumNext
        /\ UNCHANGED <<equalVars, tupleVars, descVars, cacheVars, relVars, optVars, sessionVars, rawVars>>
     \/ /\ subject = "equal" /\ EqualNext
        /\ UNCHANGED <<datumVars, tupleVars, descVars, cacheVars, relVars, optVars, sessionVars, rawVars>>
     \/ /\ subject = "tuple" /\ TupleNext
        /\ UNCHANGED <<datumVars, equalVars, descVars, cacheVars, relVars, optVars, sessionVars, rawVars>>
     \/ /\ subject = "desc" /\ DescNext
        /\ UNCHANGED <<datumVars, equalVars, tupleVars, cacheVars, relVars, optVars, sessionVars, rawVars>>
     \/ /\ subject = "cache" /\ CacheNext
        /\ UNCHANGED <<datumVars, equalVars, tupleVars, descVars, relVars, optVars, sessionVars, rawVars>>
     \/ /\ subject = "rel" /\ RelNext
        /\ UNCHANGED <<datumVars, equalVars, tupleVars, descVars, cacheVars, optVars, sessionVars, rawVars>>
     \/ /\ subject = "opt" /\ OptNext
        /\ UNCHANGED <<datumVars, equalVars, tupleVars, descVars, cacheVars, relVars, sessionVars, rawVars>>
     \/ /\ subject = "session" /\ SessionNext
        /\ UNCHANGED <<datumVars, equalVars, tupleVars, descVars, cacheVars, relVars, optVars, rawVars>>
     \/ /\ subject = "raw" /\ RawNext
        /\ UNCHANGED <<datumVars, equalVars, tupleVars, descVars, cacheVars, relVars, optVars, sessionVars>>

Spec == Init /\ [][Next]_vars

-----------------------------------------------------------------------------

\* An attribute is read where it was put, whichever cached offset leads there;
\* tuples and descriptors own all their parts and no others'; equal
\* descriptors agree in all but the fields the comparison skips (heaptuple.c,
\* tupdesc.c).
RowsSound ==
  /\ CacheSound /\ FetchRight /\ TupleWhole /\ DataFreed
  /\ PartsOwned /\ CopyFaithful /\ EqualDescsRight

\* A row goes to the bucket where a search by its key looks, and a search never
\* answers with another row; the relation cache leads to living descriptors
\* only, by OID and file node to the right one always, by name until another
\* relation of that name comes or goes (catcache.c, syscache.c, relcache.c).
CachesSound ==
  /\ FoundWhereSearched /\ RightRow /\ StructOverlaysTuple
  /\ EntriesAlive /\ FoundByKeys /\ PinnedAlive /\ NamesAgree

=============================================================================
