---------------------------- MODULE RawDatabase -----------------------------
(***************************************************************************)
(* How a backend that is starting finds its database                       *)
(* (get_raw_database_info, utils/misc/database.c): it reads the pages of   *)
(* pg_database one after the other, with no lock and no transaction, while *)
(* other backends create, update and drop databases and vacuum the         *)
(* relation.                                                               *)
(*                                                                         *)
(* A page is the sequence of its line pointers with the tuples behind      *)
(* them.  A tuple stays, with its xmax, when its line pointer is freed.    *)
(***************************************************************************)
EXTENDS Sequences, Integers, FiniteSets

CONSTANTS
  DbNames, Wanted,  \* names of databases, and the one that is looked for
  PerPage,          \* line pointers that fit on a page
  MaxPages, MaxOid, \* bounds: pages of the relation, databases ever created
  NoOid             \* db_id as the caller left it

ASSUME RawDatabaseAssumption == Wanted \in DbNames /\ PerPage \in Nat \ {0} /\ MaxPages \in Nat /\ MaxOid \in Nat

VARIABLES
  pages,        \* the pages of pg_database
  nextoid,      \* the OID of the next database
  pages_read,   \* pages the scan has read; -1 before it starts
  db_id,        \* the answer
  over,         \* the scan has ended
  kept,         \* databases of that name whose tuple no one has deleted, updated or moved since the scan began
  gone          \* databases that were dropped before the scan began

rawVars == <<pages, nextoid, pages_read, db_id, over, kept, gone>>

Tuple(name, oid) == [used |-> TRUE, name |-> name, oid |-> oid, xmax |-> FALSE]

FreePointer == [used |-> FALSE, name |-> Wanted, oid |-> NoOid, xmax |-> FALSE]

RawInit ==
  /\ pages = <<>>
  /\ nextoid = 1
  /\ pages_read = -1
  /\ db_id = NoOid
  /\ over = FALSE
  /\ kept = {} /\ gone = {}

Databases == {pages[p][i] : <<p, i>> \in {<<p, i>> \in (1 .. Len(pages)) \X (1 .. PerPage) : i <= Len(pages[p])}}
InUse == {t \in Databases : t.used}
Live == {t \in InUse : ~t.xmax}

\* The pages ps with the tuple t stored on them: over a freed line pointer,
\* behind the last one, or on a new page.
StoredOn(ps, t) ==
  {[ps EXCEPT ![at[1]][at[2]] = t] :
     at \in {<<p, i>> \in (1 .. Len(ps)) \X (1 .. PerPage) : i <= Len(ps[p]) /\ ~ps[p][i].used}}
  \cup {[ps EXCEPT ![p] = Append(@, t)] : p \in {q \in 1 .. Len(ps) : Len(ps[q]) < PerPage}}
  \cup {Append(ps, <<t>>) : n \in {m \in {MaxPages} : Len(ps) < m}}

\* The pages with the tuple t turned into u.
Changed(t, u) == [p \in 1 .. Len(pages) |-> [i \in 1 .. Len(pages[p]) |-> IF pages[p][i] = t THEN u ELSE pages[p][i]]]

\* Another backend stores the tuple of a new database.
CreateDatabase(name) ==
  /\ nextoid <= MaxOid
  /\ ~\E u \in Live : u.name = name
  /\ nextoid' = nextoid + 1
  /\ pages' \in StoredOn(pages, Tuple(name, nextoid))
  /\ UNCHANGED <<pages_read, db_id, over, kept, gone>>

\* Another backend drops one, whether or not its transaction will commit.
DropDatabase(t) ==
  /\ pages' = Changed(t, [t EXCEPT !.xmax = TRUE])
  /\ kept' = kept \ {t.oid}
  /\ gone' = IF pages_read = -1 THEN gone \cup {t.oid} ELSE gone
  /\ UNCHANGED <<nextoid, pages_read, db_id, over>>

\* Another backend updates the row of one (htup.h: HEAP_UPDATED): the old version
\* gets an xmax and the new one is stored elsewhere.
UpdateDatabase(t) ==
  /\ pages' \in StoredOn(Changed(t, [t EXCEPT !.xmax = TRUE]), t)
  /\ kept' = kept \ {t.oid}
  /\ UNCHANGED <<nextoid, pages_read, db_id, over, gone>>

\* Vacuum moves a tuple to another place (htup.h: HEAP_MOVED_OFF, HEAP_MOVED_IN),
\* and frees its line pointer.
VacuumMoves(t) ==
  /\ pages' \in {[ps EXCEPT ![p][i] = FreePointer] :
                   ps \in StoredOn(pages, t),
                   <<p, i>> \in {<<p, i>> \in (1 .. Len(pages)) \X (1 .. PerPage) : i <= Len(pages[p]) /\ pages[p][i] = t}}
  /\ kept' = kept \ {t.oid}
  /\ UNCHANGED <<nextoid, pages_read, db_id, over, gone>>

\* Vacuum frees the line pointers of dropped databases and old versions.
Vacuum ==
  /\ \E t \in InUse : t.xmax
  /\ pages' = [p \in 1 .. Len(pages) |->
                       [i \in 1 .. Len(pages[p]) |->
                          IF pages[p][i].xmax THEN FreePointer ELSE pages[p][i]]]
  /\ UNCHANGED <<nextoid, pages_read, db_id, over, kept, gone>>

OpenFile ==
  /\ pages_read = -1
  /\ pages_read' = 0
  /\ kept' = {t.oid : t \in {u \in Live : u.name = Wanted}}
  /\ UNCHANGED <<pages, nextoid, db_id, over, gone>>

\* Mutant: a tuple that was deleted is looked at all the same.
Candidate_deleted(t) == t.used /\ t.name = Wanted


Candidate(t) == t.used /\ ~t.xmax /\ t.name = Wanted

\* The line pointers of a page that lead to the database.  (The loop also looks
\* at the line pointer behind the last, which is zero, hence not LP_USED, on a
\* page with room for it.)
Matches(page) == {i \in 1 .. Len(page) : Candidate(page[i])}

\* One page is read and its tuples are looked at in turn; the first match
\* ends the scan.
ReadPage ==
  /\ pages_read \in 0 .. Len(pages) - 1 /\ ~over
  /\ pages_read' = pages_read + 1
  /\ LET page == pages[pages_read + 1]
     IN IF Matches(page) = {} THEN UNCHANGED <<db_id, over>>
        ELSE /\ db_id' = page[CHOOSE i \in Matches(page) : \A j \in Matches(page) : i <= j].oid
             /\ over' = TRUE
  /\ UNCHANGED <<pages, nextoid, kept, gone>>

\* A short read ends the scan with nothing found.
EndOfFile ==
  /\ pages_read = Len(pages) /\ ~over
  /\ over' = TRUE
  /\ UNCHANGED <<pages, nextoid, pages_read, db_id, kept, gone>>

\* What happens once the scan is over is left out.
RawNext ==
  \/ ~over /\ \/ \E name \in DbNames : CreateDatabase(name)
              \/ \E t \in Live : DropDatabase(t) \/ UpdateDatabase(t) \/ VacuumMoves(t)
              \/ Vacuum
  \/ OpenFile \/ ReadPage \/ EndOfFile

-----------------------------------------------------------------------------
\* A database that was there when the scan began, and whose tuple has stayed
\* where it was and undeleted since, is found, whatever happens to the others
\* between two pages.  (One that an UPDATE or vacuum stores anew on a page the
\* scan has passed is missed although it is there all the time.)
PresentIsFound == over /\ kept # {} => db_id # NoOid

\* The scan never answers with a database whose drop it had to see: one dropped
\* before it began, whichever of its versions and copies still lie on the pages.
GoneNotFound == db_id # NoOid => db_id \notin gone /\ db_id < nextoid
=============================================================================
