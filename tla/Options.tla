------------------------------ MODULE Options -------------------------------
(***************************************************************************)
(* The trace options (utils/misc/trace.c): a table of switches, set from a *)
(* string of items (parse_options) and from the file pg_options            *)
(* (read_pg_options), which the backend reads again on SIGHUP.             *)
(*                                                                         *)
(* An item is a name, alone or with a sign behind it: "+" (1), "-" (0), or *)
(* "=" and a number.  A text is a sequence of pieces: names, signs, commas *)
(* (CM), blanks (SP), line ends (NL) and the hash marks (HASH) of comments,*)
(* which only the file has.                                                *)
(***************************************************************************)
EXTENDS Sequences, Integers, FiniteSets, SequencesExt

CONSTANTS
  OptItems,   \* the items strings are made of: records of name, signed, val
  FileItems   \* the items files are made of

VARIABLES
  PgOptions,  \* the options, in the order of OptNames
  file_read   \* the backend has read its file

optVars == <<PgOptions, file_read>>

\* Mutant: the statistics come before what they are abbreviated by.
OptNames_sorted ==
  <<"all", "verbose", "query", "plannerstats", "plan", "parserstats", "parse", "rewritten", "pretty_plan", "pretty_parse",
    "pretty_rewritten", "executorstats", "shortlocks", "locks", "userlocks", "spinlocks", "notify", "malloc", "palloc",
    "lock_debug_oidmin", "lock_debug_relid", "lock_read_priority", "deadlock_timeout", "nofsync", "syslog",
    "hostlookup", "showportnumber">>

OptNames ==
  <<"all", "verbose", "query", "plan", "parse", "rewritten", "pretty_plan", "pretty_parse", "pretty_rewritten",
    "parserstats", "plannerstats", "executorstats", "shortlocks", "locks", "userlocks", "spinlocks", "notify", "malloc",
    "palloc", "lock_debug_oidmin", "lock_debug_relid", "lock_read_priority", "deadlock_timeout", "nofsync", "syslog",
    "hostlookup", "showportnumber">>

\* strncmp(name, opt, strlen(name)) == 0: an abbreviation will do.
Abbreviations(opt) == {SubSeq(opt, 1, n) : n \in 1 .. Len(opt)}

\* The first option in the table that a name abbreviates.
OptionNamed ==
  [name \in UNION {Abbreviations(OptNames[i]) : i \in DOMAIN OptNames} |->
     CHOOSE i \in DOMAIN OptNames :
       name \in Abbreviations(OptNames[i]) /\ \A j \in 1 .. i - 1 : name \notin Abbreviations(OptNames[j])]

Piece(c, name, val) == [c |-> c, name |-> name, val |-> val]
CM == Piece(",", "", 0)
SP == Piece(" ", "", 0)
NL == Piece("nl", "", 0)
HASH == Piece("#", "#", 0)

\* The effect of one item: an empty name sets nothing, an unknown one is
\* complained about.
SetOption(opts, name, val) == IF name \in DOMAIN OptionNamed THEN [opts EXCEPT ![OptionNamed[name]] = val] ELSE opts

\* Mutant: what follows a sign is skipped to the end of the string.
parse_options_deaf(opts, text) ==
  LET Start(o) == [opts |-> o, name |-> "", val |-> 1, skip |-> FALSE]
      End(st) == SetOption(st.opts, st.name, st.val)
      Step(st, p) ==
        CASE st.skip -> st
          [] ~st.skip /\ p \in {CM, SP, NL} -> Start(End(st))
          [] ~st.skip /\ p.c = "sign" -> [st EXCEPT !.val = p.val, !.skip = TRUE]
          [] OTHER -> [st EXCEPT !.name = @ \o p.name]
  IN End(FoldLeft(Step, Start(opts), text))

\* parse_options: a name ends at a blank, a line end, a comma or a sign; behind
\* a sign all is skipped up to a comma, blanks and line ends too.  A hash mark
\* is a character of a name; 'secure' is not looked at.
parse_options(opts, text) ==
  LET Start(o) == [opts |-> o, name |-> "", val |-> 1, skip |-> FALSE]
      End(st) == SetOption(st.opts, st.name, st.val)
      Step(st, p) ==
        CASE p = CM \/ (~st.skip /\ p \in {SP, NL}) -> Start(End(st))
          [] p # CM /\ st.skip -> st
          [] ~st.skip /\ p.c = "sign" -> [st EXCEPT !.val = p.val, !.skip = TRUE]
          [] OTHER -> [st EXCEPT !.name = @ \o p.name]
  IN End(FoldLeft(Step, Start(opts), text))

\* Mutant: a line end is left to parse_options.
Collapse_lines(text) ==
  LET Step(done, p) ==
        CASE done.in /\ p # NL -> done
          [] done.in /\ p = NL -> [done EXCEPT !.in = FALSE]
          [] ~done.in /\ p = HASH -> [done EXCEPT !.in = TRUE]
          [] ~done.in /\ p = SP ->
               IF done.out # <<>> /\ Last(done.out) = CM THEN done ELSE [done EXCEPT !.out = Append(@, CM)]
          [] OTHER -> [done EXCEPT !.out = Append(@, p)]
  IN FoldLeft(Step, [in |-> FALSE, out |-> <<>>], text).out

\* read_pg_options, the collapse: a comment goes with the line end that ends
\* it, each run of blanks and line ends becomes one comma.
Collapse(text) ==
  LET Step(done, p) ==
        CASE done.in /\ p # NL -> done
          [] done.in /\ p = NL -> [done EXCEPT !.in = FALSE]
          [] ~done.in /\ p = HASH -> [done EXCEPT !.in = TRUE]
          [] ~done.in /\ p \in {SP, NL} ->
               IF done.out # <<>> /\ Last(done.out) = CM THEN done ELSE [done EXCEPT !.out = Append(@, CM)]
          [] OTHER -> [done EXCEPT !.out = Append(@, p)]
      out == FoldLeft(Step, [in |-> FALSE, out |-> <<>>], text).out
  IN IF out # <<>> /\ Last(out) = CM THEN Front(out) ELSE out

\* The options after reading a file.
Reread(opts, text) == parse_options(opts, Collapse(text))

OptInit ==
  /\ PgOptions = [i \in DOMAIN OptNames |-> 0]
  /\ file_read = FALSE

\* How an item is written, and what it asks for.
Written(item) == <<Piece("name", item.name, 0)>> \o (IF item.signed THEN <<Piece("sign", "", item.val)>> ELSE <<>>)
Asked(opts, item) == SetOption(opts, item.name, IF item.signed THEN item.val ELSE 1)

\* The command line or a client brings a string: one item, or two with a comma
\* or a blank between them.
Strings == {Written(i) : i \in OptItems} \cup {Written(i) \o <<sep>> \o Written(j) : i, j \in OptItems, sep \in {CM, SP}}
SetOptions(text) ==
  /\ PgOptions' = parse_options(PgOptions, text)
  /\ UNCHANGED file_read

\* read_pg_options: the file as it is now.
read_pg_options(text) ==
  /\ PgOptions' = Reread(PgOptions, text)
  /\ file_read' = TRUE

\* What an administrator writes: two lines of items, the first with a comment
\* perhaps, which starts the line or follows a blank.
Lines == {<<>>} \cup {<<i>> : i \in FileItems} \cup {<<i, j>> : i, j \in FileItems}
OnLine(items) == IF Len(items) = 2 THEN Written(items[1]) \o <<SP>> \o Written(items[2])
                 ELSE FlattenSeq([k \in DOMAIN items |-> Written(items[k])])
LineEnd(items, commented) ==
  IF commented THEN (IF items = <<>> THEN <<>> ELSE <<SP>>) \o <<HASH, Piece("name", "all", 0), NL>> ELSE <<NL>>
FileText(l, commented, r) == OnLine(l) \o LineEnd(l, commented) \o OnLine(r)

OptNext ==
  \/ \E text \in Strings : SetOptions(text)
  \/ \E l, r \in Lines, commented \in BOOLEAN : read_pg_options(FileText(l, commented, r))

-----------------------------------------------------------------------------
\* Once the backend has read its file (which it does before anything else), a
\* full name sets the option of that name and no other: the table lists no
\* option before a shorter one it begins with ("plan" before "plannerstats",
\* "parse" before "parserstats"), since the search takes the first that the
\* name abbreviates.
FullNameIsItself ==
  file_read =>
  \A i \in DOMAIN OptNames, v \in {0, 2} :
    parse_options(PgOptions, Written([name |-> OptNames[i], signed |-> TRUE, val |-> v])) = [PgOptions EXCEPT ![i] = v]

\* Two items with a comma between them both have their effect, in their order.
\* With a blank between them, which the comment above parse_options calls a
\* delimiter like the comma, the second is lost when the first ends in a sign.
ItemsDelimited ==
  file_read =>
  \A i, j \in OptItems :
    LET both == Asked(Asked(PgOptions, i), j)
    IN /\ parse_options(PgOptions, Written(i) \o <<CM>> \o Written(j)) = both
       /\ parse_options(PgOptions, Written(i) \o <<SP>> \o Written(j)) = IF i.signed THEN Asked(PgOptions, i) ELSE both

\* Reading the file has the effect of its items taken in order: there, comments,
\* blanks and line ends all delimit, also behind a sign, because read_pg_options
\* turns them into commas.  (True of comments that do not touch an item: one
\* that does glues the item to the next line.)
FileAsWritten ==
  file_read =>
  \A l, r \in Lines, commented \in BOOLEAN :
    Reread(PgOptions, FileText(l, commented, r)) = FoldLeft(Asked, PgOptions, l \o r)
=============================================================================
