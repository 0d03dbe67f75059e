----------------------------- MODULE StringInfo -----------------------------
(***************************************************************************)
(* The growing string buffer of lib/stringinfo.c.  data is the allocated   *)
(* memory, of maxlen cells; text is what callers have appended so far (the *)
(* code keeps no such thing; the properties compare with it).  A store     *)
(* outside the memory sets overrun.  Memory is never short: palloc does    *)
(* not return when it is.                                                  *)
(***************************************************************************)
EXTENDS Integers, Sequences, SequencesExt

CONSTANTS
  INIT_SIZE,            \* bytes of a new buffer (256)
  HARDLY_ANY,           \* room below which vsnprintf is not tried (16)
  Pieces,               \* the texts that callers append
  MaxText               \* bound: length of the text

ASSUME StringAssumption ==
  /\ INIT_SIZE \in Nat \ {0} /\ HARDLY_ANY \in Nat
  /\ \A s \in Pieces : s \in Seq(Range(s))

VARIABLES data, len, maxlen, text, overrun

stringVars == <<data, len, maxlen, text, overrun>>

NUL == "0"

\* make_string_info and init_string_info.
StringInit ==
  /\ data = [i \in 0..INIT_SIZE - 1 |-> IF i = 0 THEN NUL ELSE "?"]
  /\ len = 0 /\ maxlen = INIT_SIZE
  /\ text = <<>> /\ overrun = FALSE

\* enlarge_string_info: the size is doubled until there is room for needed
\* more bytes and a terminator.  Mutant: the terminator is forgotten.
enlarge_string_info_short(needed) ==
  LET double[m \in Nat] == IF needed + len <= m THEN m ELSE double[2 * m]
  IN  double[maxlen]

enlarge_string_info(needed) ==
  LET double[m \in Nat] == IF needed + len + 1 <= m THEN m ELSE double[2 * m]
  IN  double[maxlen]

\* The memory after repalloc to m bytes.
Repalloc(m) == [i \in 0..m - 1 |-> IF i < maxlen THEN data[i] ELSE "?"]

\* The bytes of s and a terminator are stored behind the len bytes there are.
Store(d, s) ==
  /\ data' = [i \in DOMAIN d |-> CASE i \in len..len + Len(s) - 1 -> s[i - len + 1]
                                   [] i = len + Len(s) -> NUL [] OTHER -> d[i]]
  /\ overrun' = (overrun \/ len + Len(s) \notin DOMAIN d)
  /\ len' = len + Len(s)

\* Room for a try of vsnprintf in a buffer of m bytes, and its success: one
\* byte of the room is kept back, one more must be left over.
Printed(m, n) == LET avail == m - len - 1 IN avail > HARDLY_ANY /\ n < avail - 1

\* append_string_info: the buffer is doubled until the text has been printed.
\* A try that fails leaves a beginning of the text behind len, which the next
\* one overwrites.
append_string_info(s) ==
  LET grow[m \in Nat] == IF Printed(m, Len(s)) THEN m ELSE grow[2 * m]
      m == grow[maxlen]
  IN
  /\ maxlen' = m
  /\ Store(Repalloc(m), s)
  /\ text' = text \o s

append_string_info_char(ch) ==
  LET m == IF len + 1 >= maxlen THEN enlarge_string_info(1) ELSE maxlen IN
  /\ maxlen' = m
  /\ Store(Repalloc(m), <<ch>>)
  /\ text' = Append(text, ch)

\* Mutant: memcpy goes to the end of the memory.
append_binary_string_info_end(s) ==
  LET m == enlarge_string_info(Len(s)) IN
  /\ maxlen' = m
  /\ data' = [i \in 0..m - 1 |-> IF i \in m - Len(s)..m - 1 THEN s[i - (m - Len(s)) + 1]
                                 ELSE IF i = len + Len(s) THEN NUL ELSE Repalloc(m)[i]]
  /\ len' = len + Len(s)
  /\ text' = text \o s /\ UNCHANGED overrun

append_binary_string_info(s) ==
  LET m == enlarge_string_info(Len(s)) IN
  /\ maxlen' = m
  /\ Store(Repalloc(m), s)
  /\ text' = text \o s

StringNext ==
  \E s \in Pieces :
    /\ Len(text) + Len(s) <= MaxText
    /\ \/ append_string_info(s) \/ append_binary_string_info(s)
       \/ Len(s) = 1 /\ append_string_info_char(s[1])

-----------------------------------------------------------------------------
(* Properties.                                                             *)

\* However the ways of appending are mixed and whenever the buffer grows, the
\* bytes before len are all that was appended, in order.
TextKept == len = Len(text) /\ \A i \in 1..len : data[i - 1] = text[i]

\* No append stores behind the memory, and the text ends with a terminator
\* inside it: maxlen, which the next append trusts, is what is allocated.
Terminated == ~overrun /\ DOMAIN data = 0..maxlen - 1 /\ len < maxlen /\ data[len] = NUL

\* A string buffer holds what was appended to it, terminated and inside its
\* memory.
StringKept == TextKept /\ Terminated
=============================================================================
