------------------------------- MODULE Datum --------------------------------
(***************************************************************************)
(* Datums (utils/adt/datum.c): a value of a type that is passed by value,  *)
(* or the address of its bytes.  datum_copy makes an object of its own for *)
(* the second kind, which only datum_free may release.                     *)
(*                                                                         *)
(* bytes is the memory behind the datums: what palloc handed out and what  *)
(* was there before, as sequences of bytes.  A varlena is as long as its   *)
(* sequence (VARSIZE).  A datum is an address whichever way it is passed:  *)
(* by value nothing but its identity counts.                               *)
(***************************************************************************)
EXTENDS Sequences, Naturals, Integers, FiniteSets

CONSTANTS
  Addrs,      \* addresses: those not in Owned hold the tuples' own values
  Owned,      \* the addresses that palloc may hand out
  Bytes,      \* the byte strings the values have
  NULL,       \* the null pointer
  MaxCopies   \* copies a behaviour makes

ASSUME DatumAssumption == Owned \subseteq Addrs /\ NULL \notin Addrs /\ Bytes \subseteq Seq(Nat)

VARIABLES
  bytes,      \* address -> the bytes there, Freed for what nothing occupies
  copies      \* the copies made: sequence of [from, to, by_val, len, was]

datumVars == <<bytes, copies>>

Freed == <<>>

\* Mutant: the size of a varlena is taken for the length of the type.
datum_get_size_fixed(mem, d, by_val, len) == IF len = -1 THEN 1 ELSE len

\* datum_get_size: what a varlena says of itself, or the length of the type.
datum_get_size(mem, d, by_val, len) == IF by_val \/ len # -1 THEN len ELSE Len(mem[d])

\* datum_is_equal: the datums themselves, or the bytes behind them.
datum_is_equal(mem, d, e, by_val, len) ==
  IF by_val
  THEN d = e
  ELSE LET size == datum_get_size(mem, d, by_val, len)
       IN /\ size = datum_get_size(mem, e, by_val, len)
          /\ SubSeq(mem[d], 1, size) = SubSeq(mem[e], 1, size)

DatumInit ==
  /\ bytes = [d \in Addrs |-> IF d \in Owned THEN Freed ELSE CHOOSE b \in Bytes : TRUE]
  /\ copies = <<>>

\* The lengths a type of these values can have: fixed, or varying (-1).
Lens(d) == {-1} \cup {n \in {Len(b) : b \in Bytes} : n <= Len(bytes[d])}

\* Mutant: the copy is the datum it was given.
datum_copy_shared(d, by_val, len) ==
  /\ d # NULL
  /\ copies' = Append(copies, [from |-> d, to |-> d, by_val |-> by_val, len |-> len, was |-> bytes[d]])
  /\ UNCHANGED bytes

\* datum_copy: the same datum when it is passed by value, an object of its own
\* with the same bytes otherwise; nothing for a null pointer.
datum_copy(d, by_val, len) ==
  LET Copy(r) == copies' = Append(copies, [from |-> d, to |-> r, by_val |-> by_val, len |-> len,
                                           was |-> IF d = NULL THEN Freed ELSE bytes[d]])
  IN \/ /\ by_val
        /\ Copy(d)
        /\ UNCHANGED bytes
     \/ /\ ~by_val /\ d = NULL
        /\ Copy(NULL)
        /\ UNCHANGED bytes
     \/ /\ ~by_val /\ d # NULL
        /\ \E r \in Owned :
             /\ bytes[r] = Freed
             /\ bytes' = [bytes EXCEPT ![r] = SubSeq(bytes[d], 1, datum_get_size(bytes, d, by_val, len))]
             /\ Copy(r)

\* Mutant: the object stays when the datum is freed.
datum_free_value(i) ==
  /\ copies[i].to # NULL
  /\ copies' = [j \in 1..(Len(copies) - 1) |-> copies[IF j < i THEN j ELSE j + 1]]
  /\ UNCHANGED bytes

\* datum_free, on what datum_copy made: the object goes, a value has none.
datum_free(i) ==
  LET c == copies[i]
  IN /\ c.to # NULL
     /\ bytes' = IF c.by_val THEN bytes ELSE [bytes EXCEPT ![c.to] = Freed]
     /\ copies' = [j \in 1..(Len(copies) - 1) |-> copies[IF j < i THEN j ELSE j + 1]]

\* The owner of a value writes another over it (a page's buffer is reused).
Overwrite(d) ==
  /\ \E b \in Bytes \ {bytes[d]} : bytes' = [bytes EXCEPT ![d] = b]
  /\ UNCHANGED copies

DatumNext ==
  \/ /\ Len(copies) < MaxCopies
     /\ \E by_val \in BOOLEAN :
          \/ \E d \in {x \in Addrs : bytes[x] # Freed} :
               \E len \in Lens(d) : (by_val => len # -1) /\ datum_copy(d, by_val, len)
          \/ datum_copy(NULL, by_val, -1)
  \/ \E i \in DOMAIN copies : datum_free(i)
  \/ \E d \in Addrs \ Owned : Overwrite(d)

-----------------------------------------------------------------------------
\* A copy of a value passed by reference has the bytes the value had when it
\* was copied, for as long as the copy exists: whatever becomes of the value,
\* of the other copies and of copies of the copy (datum.c: datum_copy makes
\* "a copy of a datum", datum_free is only for what datum_copy created).
CopyKept ==
  \A i \in DOMAIN copies :
    LET c == copies[i]
    IN ~c.by_val /\ c.to # NULL =>
         /\ c.to \in Owned
         /\ bytes[c.to] = SubSeq(c.was, 1, IF c.len = -1 THEN Len(c.was) ELSE c.len)

\* Nothing is released twice or lost: every object datum_copy allocated is
\* behind exactly one copy that has not been freed.
CopiesOwned ==
  LET byref == {i \in DOMAIN copies : ~copies[i].by_val /\ copies[i].to # NULL}
  IN /\ {d \in Owned : bytes[d] # Freed} = {copies[i].to : i \in byref}
     /\ \A i, j \in byref : copies[i].to = copies[j].to => i = j
=============================================================================
