------------------------------ MODULE Quoting ------------------------------
(***************************************************************************)
(* How the sqlite shell writes texts so that they can be read back, and how  *)
(* it reads them (jl_sqlite3/shell.c): CSV fields and the lines of .import,  *)
(* SQL string literals, C strings and the arguments of a meta command.       *)
(*                                                                         *)
(* A text is a sequence of characters; "nl", "cr" and "tab" are those, "ctl" *)
(* is the byte 1, "a" stands for the letters that are not named here and     *)
(* "other" for a byte that is not ASCII, the byte 255 where its value is seen.   *)
(***************************************************************************)
EXTENDS Naturals, Sequences, FiniteSets, SequencesExt

White == {" ", "tab", "nl", "cr"}
Quote == "\""
Octal == {"0", "1", "2", "3", "4", "5", "6", "7"}
Digit == Octal \cup {"8", "9"}
Letter == {"a", "n", "r", "t"}

\* The first position from i on with a character of S, or the one behind z.
FirstOf(z, i, S) ==
    LET found == {j \in i..Len(z) : z[j] \in S}
    IN  IF found = {} THEN Len(z) + 1 ELSE CHOOSE j \in found : \A k \in found : j <= k

\* z with every q doubled.
Doubled(z, q) == FlattenSeq([i \in DOMAIN z |-> IF z[i] = q THEN <<q, q>> ELSE <<z[i]>>])

\* z between quotes q, as the quotes are read: a doubled one is one, and the
\* closing one is dropped (the text may go on behind it).
Undoubled(z, q) ==
    LET d[i \in 1..(Len(z) + 2)] ==
            IF i > Len(z) THEN <<>>
            ELSE IF z[i] # q THEN <<z[i]>> \o d[i + 1]
            ELSE IF i = Len(z) THEN <<>> ELSE <<z[i + 1]>> \o d[i + 2]
    IN  IF z # <<>> /\ Head(z) = q THEN d[2] ELSE z

\* One turn of the loop that cuts z at each sep that is not between quotes q.
SplitStep(z, sep, q, i, s) ==
    LET quoted == IF z[i] = q THEN 1 - s.quoted ELSE s.quoted
    IN  IF s.skip > 0 THEN [s EXCEPT !.skip = @ - 1]
        ELSE IF quoted = 0 /\ IsPrefix(sep, SubSeq(z, i, Len(z)))
        THEN [quoted |-> quoted, skip |-> Len(sep) - 1, done |-> Append(s.done, s.now), now |-> <<>>]
        ELSE [s EXCEPT !.quoted = quoted, !.now = Append(@, z[i])]

SplitStart == [quoted |-> 0, skip |-> 0, done |-> <<>>, now |-> <<>>]

SplitOutside(z, sep, q) ==
    LET at[i \in 0..Len(z)] == IF i = 0 THEN SplitStart ELSE SplitStep(z, sep, q, i, at[i - 1])
    IN  Append(at[Len(z)].done, at[Len(z)].now)

\* The fields with sep between them.
Joined(fields, sep) ==
    FlattenSeq([i \in DOMAIN fields |-> IF i = 1 THEN fields[i] ELSE sep \o fields[i]])

-----------------------------------------------------------------------------
(* CSV: output_csv writes it, .import reads it.                              *)

NeedCsvQuote == White \cup {"ctl", "other", Quote, "'"}

\* A separator of several characters is only looked for at the start of z.
NeedsQuote(z, sep) ==
    \E i \in DOMAIN z :
        \/ z[i] \in NeedCsvQuote
        \/ sep # <<>> /\ z[i] = sep[1] /\ (Len(sep) = 1 \/ IsPrefix(sep, z))

\* Mutant: only the separator and the quote itself are quoted.
CsvFieldBare(z, sep) ==
    IF z = <<>> \/ Quote \in {z[i] : i \in DOMAIN z} \/ (sep # <<>> /\ \E i \in DOMAIN z : z[i] = sep[1])
    THEN <<Quote>> \o Doubled(z, Quote) \o <<Quote>>
    ELSE z

CsvField(z, sep) ==
    IF z = <<>> \/ NeedsQuote(z, sep)
    THEN <<Quote>> \o Doubled(z, Quote) \o <<Quote>>
    ELSE z

\* local_getline with csvFlag: a line ends at a newline outside quotes, and a
\* carriage return before it goes with it.
CsvLines(file) ==
    LET lines == SplitOutside(file, <<"nl">>, Quote)
        all == IF lines[Len(lines)] = <<>> THEN SubSeq(lines, 1, Len(lines) - 1) ELSE lines
        Chomped(z) == IF z # <<>> /\ z[Len(z)] = "cr" THEN SubSeq(z, 1, Len(z) - 1) ELSE z
    IN  [i \in DOMAIN all |-> IF i < Len(lines) THEN Chomped(all[i]) ELSE all[i]]

\* One line of .import.
ImportFields(line, sep) ==
    LET fields == SplitOutside(line, sep, Quote)
    IN  [i \in DOMAIN fields |-> Undoubled(fields[i], Quote)]

-----------------------------------------------------------------------------
(* SQL: output_quoted_string and set_table_name write it, SQLite reads it.    *)

QuotedString(z) == <<"'">> \o Doubled(z, "'") \o <<"'">>

\* A table name stands as it is if it is made of letters, digits and "_".
TableName(z) ==
    IF z # <<>> /\ z[1] \notin Digit /\ \A i \in DOMAIN z : z[i] \in Letter \cup Digit \cup {"_"}
    THEN z ELSE QuotedString(z)

\* What SQLite reads: a literal, or a name.
SqlValue(z) ==
    IF z = <<"NULL">> THEN [type |-> "null", text |-> <<>>]
    ELSE IF Head(z) = "'" THEN [type |-> "text", text |-> Undoubled(z, "'")]
    ELSE [type |-> "integer", text |-> z]
SqlName(z) == Undoubled(z, "'")

-----------------------------------------------------------------------------
(* C strings: output_c_string writes them, do_meta_command reads them.        *)

\* What cannot be printed is written in three octal digits; isprint takes no byte
\* that is not ASCII for printable.
Escaped(c) ==
    CASE c = "\\" -> <<"\\", "\\">>
      [] c = Quote -> <<"\\", Quote>>
      [] c = "tab" -> <<"\\", "t">>
      [] c = "nl" -> <<"\\", "n">>
      [] c = "cr" -> <<"\\", "r">>
      [] c = "ctl" -> <<"\\", "0", "0", "1">>
      [] c = "other" -> <<"\\", "3", "7", "7">>
      [] OTHER -> <<c>>

\* Mutant: an octal escape has as many digits as it needs.
CStringShort(z) ==
    <<Quote>> \o FlattenSeq([i \in DOMAIN z |-> IF z[i] = "ctl" THEN <<"\\", "1">> ELSE Escaped(z[i])])
              \o <<Quote>>

CString(z) == <<Quote>> \o FlattenSeq([i \in DOMAIN z |-> Escaped(z[i])]) \o <<Quote>>

\* What an octal escape stands for.  A character without a name here is taken for
\* a byte that is not ASCII.
OctalValue(c) ==
    CASE c = "0" -> 0 [] c = "1" -> 1 [] c = "2" -> 2 [] c = "3" -> 3
      [] c = "4" -> 4 [] c = "5" -> 5 [] c = "6" -> 6 [] OTHER -> 7
Byte(value) ==
    CASE value = 1 -> "ctl" [] value = 9 -> "tab" [] value = 10 -> "nl" [] value = 13 -> "cr"
      [] value = 32 -> " " [] value = 34 -> Quote [] value = 39 -> "'" [] value = 44 -> ","
      [] value = 92 -> "\\" [] value = 124 -> "|" [] OTHER -> "other"

\* The escape whose first digit is at i: up to three digits, and a byte.
OctalAt(z, i) ==
    LET Digits(k) == i + k <= Len(z) /\ \A j \in 0..k : z[i + j] \in Octal
        Val(j) == OctalValue(z[i + j])
    IN  IF Digits(2) THEN [length |-> 3, value |-> (64 * Val(0) + 8 * Val(1) + Val(2)) % 256]
        ELSE IF Digits(1) THEN [length |-> 2, value |-> 8 * Val(0) + Val(1)]
        ELSE [length |-> 1, value |-> Val(0)]

\* The character that the one at i of z stands for, and where the next one is.  The
\* text ends at a NUL, and at a backslash that nothing follows: what the code then
\* does to the memory behind the text is left out.
Unescaped(z, i) ==
    LET c == z[i + 1]
        octal == OctalAt(z, i + 1)
        Ends == [text |-> <<>>, next |-> Len(z) + 1]
    IN  IF z[i] # "\\" THEN [text |-> <<z[i]>>, next |-> i + 1]
        ELSE IF i = Len(z) THEN Ends
        ELSE IF c = "n" THEN [text |-> <<"nl">>, next |-> i + 2]
        ELSE IF c = "t" THEN [text |-> <<"tab">>, next |-> i + 2]
        ELSE IF c = "r" THEN [text |-> <<"cr">>, next |-> i + 2]
        ELSE IF c \notin Octal THEN [text |-> <<c>>, next |-> i + 2]
        ELSE IF octal.value = 0 THEN Ends
        ELSE [text |-> <<Byte(octal.value)>>, next |-> i + 1 + octal.length]

ResolveBackslashes(z) ==
    LET r[i \in 1..(Len(z) + 1)] ==
            IF i > Len(z) THEN <<>> ELSE Unescaped(z, i).text \o r[Unescaped(z, i).next]
    IN  r[1]

\* The words of a line with a meta command.  One starts behind white space; a
\* closing quote is the next one of the same kind, whatever stands before it; and in
\* '...' nothing is escaped.
Delims == {"'", Quote}
WordStart(line, i) == i + Cardinality({j \in i..Len(line) : \A k \in i..j : line[k] \in White})
TextStart(line, s) == IF line[s] \in Delims THEN s + 1 ELSE s
TextEnd(line, s) ==
    FirstOf(line, TextStart(line, s), IF line[s] \in Delims THEN {line[s]} ELSE White)
Word(line, s) ==
    LET text == SubSeq(line, TextStart(line, s), TextEnd(line, s) - 1)
    IN  IF line[s] = "'" THEN text ELSE ResolveBackslashes(text)

MetaArgs(line) ==
    LET a[i \in 1..(Len(line) + 2)] ==
            LET s == WordStart(line, i)
            IN  IF s > Len(line) THEN <<>> ELSE <<Word(line, s)>> \o a[TextEnd(line, s) + 1]
    IN  a[1]
=============================================================================
