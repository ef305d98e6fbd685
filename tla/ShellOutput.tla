---------------------------- MODULE ShellOutput ----------------------------
(***************************************************************************)
(* The sqlite shell's settings for what it prints, and the files it prints   *)
(* to (struct callback_data, shell_callback and do_meta_command in           *)
(* jl_sqlite3/shell.c): .mode, .header, .separator, .nullvalue, .width,      *)
(* .explain, .output, .log, .trace, and queries between them.                *)
(***************************************************************************)
EXTENDS Quoting

CONSTANTS
    Char,           \* the characters of texts
    NameArg,        \* the tables .mode insert may be given
    SeparatorArg,   \* how the user may write the argument of .separator
    NullArg,        \* how the user may write the argument of .nullvalue
    Widths,         \* the arguments of .width
    FieldSize,      \* the size of separator and nullvalue, with the NUL (20)
    File,           \* names of files that can be written
    Pipe,           \* names of commands that can be started: "|..."
    BadName,        \* names of files and commands that cannot
    Results,        \* what queries may return: records with names and rows
    MaxCommands     \* bound on the commands

NoName == "none"

\* What output_file_open treats on its own is not the name of a file or a command.
ASSUME NamesAssumption ==
    /\ File \cap Pipe = {}
    /\ (File \cup Pipe) \cap (BadName \cup {NoName, "stdout", "stderr", "off"}) = {}

\* The characters the shell knows or writes on its own.
ASSUME CharAssumption ==
    Delims \cup White \cup Octal \cup {"\\", "n", "r", "t", "ctl", "other", "|", ","} \subseteq Char

\* What else the shell and the engine write in an INSERT statement; each is one
\* symbol here, and none of the characters.
Keyword == {"NULL", "INSERT INTO", "VALUES(", ");"}
Numeral == Seq(Digit \cup {"-"}) \ {<<>>}
Value ==
    [type : {"null"}, text : {<<>>}] \cup [type : {"text"}, text : Seq(Char)]
    \cup [type : {"integer"}, text : Numeral]

\* A result has a column.
ASSUME ResultsAssumption ==
    /\ Char \cap Keyword = {} /\ NameArg \subseteq Seq(Char)
    /\ \A r \in Results : /\ r.names \in Seq(Seq(Char)) /\ r.names # <<>>
                          /\ r.rows \in Seq(Seq(Value))
                          /\ \A i \in DOMAIN r.rows : r.rows[i] # <<>>

\* There is room for the separators that modes bring.
ASSUME SizeAssumption == FieldSize \in Nat /\ FieldSize >= 2

\* .separator and .nullvalue are only looked at with one argument.
ASSUME ArgumentsAssumption ==
    \A arg \in SeparatorArg \cup NullArg : arg \in Seq(Char) /\ Len(MetaArgs(arg)) = 1

Stream == {"s1", "s2", "s3"}   \* what fopen and popen return, one per user of a file

VARIABLES
    mode, showHeader, separator, nullvalue, zDestTable, colWidth,
    explainPrev,    \* valid, and the mode, showHeader and colWidth kept
    out, outfile, pLog, traceOut,
    traced,         \* the stream sqlite3_trace was given
    open,           \* open[s]: the file or command behind stream s
    misclosed,      \* a stream was closed by the wrong function
    printed,        \* what the last query printed
    count,          \* commands so far
    \* history
    destName,       \* the name zDestTable stands for
    normal          \* the settings when .explain was last off

format == <<mode, showHeader, separator, nullvalue, zDestTable, colWidth, explainPrev, destName>>
streams == <<out, outfile, pLog, traceOut, traced, open, misclosed>>
vars == <<format, streams, printed, count, normal>>

\* Three of the hundred columns: the first stands for those that .explain on gives
\* a width, the second for those it clears, and the third for those from the 26th on,
\* which it does not reach (memset is told 100 bytes, and the array has 400).
Cols == 1..3
NoWidths == <<0, 0, 0>>
NoExplain == [valid |-> FALSE, mode |-> "list", showHeader |-> FALSE, colWidth |-> NoWidths]
NotPrinted == [mode |-> "none", text |-> <<>>, names |-> <<>>, rows |-> <<>>]
Settings == <<mode, showHeader, colWidth>>

\* main_init
Init ==
    /\ mode = "list" /\ separator = <<"|">> /\ showHeader = FALSE
    /\ nullvalue = <<>> /\ zDestTable = <<>> /\ destName = <<>>
    /\ colWidth = NoWidths /\ explainPrev = NoExplain
    /\ out = "stdout" /\ outfile = NoName
    /\ pLog = "null" /\ traceOut = "null" /\ traced = "null"
    /\ open = [s \in Stream |-> NoName] /\ misclosed = FALSE
    /\ printed = NotPrinted /\ count = 0
    /\ normal = Settings

-----------------------------------------------------------------------------
(* The settings.                                                             *)

Modes == {"line", "column", "list", "html", "tcl", "csv", "tabs"}

\* Some modes bring a separator of their own.
Mode(m) ==
    /\ mode' = IF m = "tabs" THEN "list" ELSE m
    /\ separator' = CASE m = "tcl" -> <<" ">> [] m = "csv" -> <<",">> [] m = "tabs" -> <<"tab">>
                      [] OTHER -> separator
    /\ UNCHANGED <<showHeader, nullvalue, zDestTable, destName, colWidth, explainPrev, streams>>

ModeInsert(name) ==
    /\ mode' = "insert"
    /\ zDestTable' = TableName(name) /\ destName' = name
    /\ UNCHANGED <<showHeader, separator, nullvalue, colWidth, explainPrev, streams>>

Header(on) ==
    /\ showHeader' = on
    /\ UNCHANGED <<mode, separator, nullvalue, zDestTable, destName, colWidth, explainPrev, streams>>

\* The argument comes out of the line as do_meta_command reads it, and only what has
\* room in the field is kept.
Fitted(z) == SubSeq(z, 1, IF Len(z) < FieldSize THEN Len(z) ELSE FieldSize - 1)

Separator(arg) ==
    /\ separator' = Fitted(Head(MetaArgs(arg)))
    /\ UNCHANGED <<mode, showHeader, nullvalue, zDestTable, destName, colWidth, explainPrev, streams>>

NullValue(arg) ==
    /\ nullvalue' = Fitted(Head(MetaArgs(arg)))
    /\ UNCHANGED <<mode, showHeader, separator, zDestTable, destName, colWidth, explainPrev, streams>>

\* The widths that are not given stay.
Width(w) ==
    /\ colWidth' = [i \in Cols |-> IF i <= Len(w) THEN w[i] ELSE colWidth[i]]
    /\ UNCHANGED <<mode, showHeader, separator, nullvalue, zDestTable, destName, explainPrev, streams>>

ExplainWidth == [colWidth EXCEPT ![1] = 4, ![2] = 0]

\* Mutant: .explain keeps the settings also when it is on already.
ExplainOnAgain ==
    /\ explainPrev' = [valid |-> TRUE, mode |-> mode, showHeader |-> showHeader,
                       colWidth |-> colWidth]
    /\ mode' = "explain" /\ showHeader' = TRUE /\ colWidth' = ExplainWidth
    /\ UNCHANGED <<separator, nullvalue, zDestTable, destName, streams>>

\* .explain on again only sets the explain mode again.
ExplainOn ==
    /\ explainPrev' = IF explainPrev.valid THEN explainPrev
                      ELSE [valid |-> TRUE, mode |-> mode, showHeader |-> showHeader,
                            colWidth |-> colWidth]
    /\ mode' = "explain" /\ showHeader' = TRUE /\ colWidth' = ExplainWidth
    /\ UNCHANGED <<separator, nullvalue, zDestTable, destName, streams>>

ExplainOff ==
    /\ explainPrev' = NoExplain
    /\ IF explainPrev.valid
       THEN /\ mode' = explainPrev.mode /\ showHeader' = explainPrev.showHeader
            /\ colWidth' = explainPrev.colWidth
       ELSE UNCHANGED <<mode, showHeader, colWidth>>
    /\ UNCHANGED <<separator, nullvalue, zDestTable, destName, streams>>

-----------------------------------------------------------------------------
(* The files.  open' is what is open behind a command that closes f, unless it *)
(* is one of the standard streams, and opens z.                               *)

Closed(f) == IF f \in Stream THEN [open EXCEPT ![f] = NoName] ELSE open
Fresh(opened) == CHOOSE s \in Stream : opened[s] = NoName

\* output_file_open
Opened(z, opened) ==
    CASE z = "stdout" -> "stdout"
      [] z = "stderr" -> "stderr"
      [] z \in File \cup Pipe -> Fresh(opened)
      [] OTHER -> "null"
OpenAfter(z, opened) ==
    IF z \in File \cup Pipe THEN [opened EXCEPT ![Fresh(opened)] = z] ELSE opened

\* Mutant: the old name stays when the new file cannot be opened.
NameKept(f, z) == IF f = "null" THEN outfile ELSE z

\* A file that cannot be opened, and "off", mean stdout, and are nobody's name.
NameFor(f, z) == IF f = "null" THEN NoName ELSE z

\* outfile says which function closes the file.
Output(z) ==
    LET piped == outfile \in Pipe
        f == Opened(z, Closed(out))
    IN  /\ misclosed' = (misclosed \/ (out \in Stream /\ piped # (open[out] \in Pipe))
                                   \/ (piped /\ out \notin Stream))
        /\ open' = OpenAfter(z, Closed(out))
        /\ out' = IF f = "null" THEN "stdout" ELSE f
        /\ outfile' = NameFor(f, z)
        /\ UNCHANGED <<format, pLog, traceOut, traced>>

\* output_file_open takes "|..." for the name of a file.
Log(z) ==
    /\ open' = OpenAfter(z, Closed(pLog))
    /\ pLog' = Opened(z, Closed(pLog))
    /\ UNCHANGED <<format, out, outfile, traceOut, traced, misclosed>>

Trace(z) ==
    /\ open' = OpenAfter(z, Closed(traceOut))
    /\ traceOut' = Opened(z, Closed(traceOut))
    /\ traced' = traceOut'
    /\ UNCHANGED <<format, out, outfile, pLog, misclosed>>

-----------------------------------------------------------------------------
(* A query: shell_callback for each row.                                     *)

Texts(row) == [i \in DOMAIN row |-> IF row[i].type = "null" THEN nullvalue ELSE row[i].text]

CsvLine(row) ==
    Joined([i \in DOMAIN row |-> IF row[i].type = "null" THEN nullvalue
                                 ELSE CsvField(row[i].text, separator)], separator)
    \o <<"nl">>
Named(names) == [i \in DOMAIN names |-> [type |-> "text", text |-> names[i]]]

\* Mutant: what looks like a number is written as one, whatever its type.
LiteralUntyped(v) ==
    CASE v.type = "null" -> <<"NULL">>
      [] v.text # <<>> /\ \A j \in DOMAIN v.text : v.text[j] \in Digit -> v.text
      [] OTHER -> QuotedString(v.text)

Literal(v) ==
    CASE v.type = "null" -> <<"NULL">>
      [] v.type = "text" -> QuotedString(v.text)
      [] OTHER -> v.text

InsertLine(row) ==
    <<"INSERT INTO">> \o zDestTable \o <<"VALUES(">>
    \o Joined([i \in DOMAIN row |-> Literal(row[i])], <<",">>) \o <<");">> \o <<"nl">>

\* The header comes before the first row.
Table(r) == (IF showHeader THEN <<Named(r.names)>> ELSE <<>>) \o r.rows

\* Of the other modes the text is not kept.
Rendered(r) ==
    CASE mode = "csv" /\ r.rows # <<>> ->
           FlattenSeq([i \in DOMAIN Table(r) |-> CsvLine(Table(r)[i])])
      [] mode = "insert" -> FlattenSeq([i \in DOMAIN r.rows |-> InsertLine(r.rows[i])])
      [] OTHER -> <<>>

Query(r) ==
    /\ printed' = [mode |-> mode, text |-> Rendered(r), names |-> r.names, rows |-> r.rows]
    /\ UNCHANGED <<format, streams>>

-----------------------------------------------------------------------------
Command ==
    \/ \E m \in Modes : Mode(m)
    \/ \E name \in NameArg : ModeInsert(name)
    \/ \E on \in BOOLEAN : Header(on)
    \/ \E arg \in SeparatorArg : Separator(arg)
    \/ \E arg \in NullArg : NullValue(arg)
    \/ \E w \in Widths : Width(w)
    \/ ExplainOn
    \/ ExplainOff
    \/ \E z \in File \cup Pipe \cup BadName \cup {"stdout", "stderr", "off"} : Output(z)
    \/ \E z \in File \cup BadName \cup {"stdout", "stderr", "off"} : Log(z) \/ Trace(z)

Next ==
    /\ count < MaxCommands /\ count' = count + 1
    /\ \/ Command /\ printed' = NotPrinted
       \/ \E r \in Results : Query(r)
    /\ normal' = IF explainPrev'.valid THEN normal ELSE Settings'

Spec == Init /\ [][Next]_vars

-----------------------------------------------------------------------------
(* Properties.                                                               *)

\* Rows printed in mode csv are what .import reads back from them with the same
\* separator, whatever characters are in them, with the null value in the place
\* of NULL and the header as a first row.  (The separator is
\* neither the quote nor the newline; the null value is not quoted, so it must not
\* need it; and a separator of several characters is not seen inside a
\* field, so no field may contain its first one.)
Plain(z) == z # <<>> /\ ~NeedsQuote(z, separator)
Safe(z) == Len(separator) = 1 \/ \A i \in DOMAIN z : z[i] # separator[1]
CsvReadsBack ==
    LET all == Table(printed)
        lines == CsvLines(printed.text)
    IN  printed.mode = "csv" /\ separator # <<>> /\ printed.rows # <<>>
        /\ (\A i \in DOMAIN separator : separator[i] \notin {Quote, "nl"})
        /\ (\A i \in DOMAIN all : \A j \in DOMAIN all[i] :
               IF all[i][j].type = "null" THEN Plain(nullvalue) /\ Safe(nullvalue)
               ELSE Safe(all[i][j].text))
        => [i \in DOMAIN lines |-> ImportFields(lines[i], separator)]
           = [i \in DOMAIN all |-> Texts(all[i])]

\* A line printed in mode insert is a statement that SQLite reads back as the same
\* table and the same values, of the same types.
InsertReadsBack ==
    printed.mode = "insert" =>
        LET lines == SplitOutside(printed.text, <<"nl">>, "'")
        IN  /\ Len(lines) = Len(printed.rows) + 1
            /\ \A i \in DOMAIN printed.rows :
                  LET line == lines[i]
                      v == FirstOf(line, 1, {"VALUES("})
                      fields == SplitOutside(SubSeq(line, v + 1, Len(line) - 1), <<",">>, "'")
                  IN  /\ SqlName(SubSeq(line, 2, v - 1)) = destName
                      /\ [j \in DOMAIN fields |-> SqlValue(fields[j])] = printed.rows[i]

\* .show prints the separator and the null value, whatever bytes are in them, so that
\* a user can give them back to .separator and .nullvalue, which find room for them,
\* unless there is a double quote in them.
ShowReadsBack ==
    \A z \in {separator, nullvalue} :
        (\A i \in DOMAIN z : z[i] # Quote)
        => MetaArgs(CString(z)) = <<z>> /\ Fitted(z) = z

\* .explain off gives back the mode, the header and the widths that were set
\* before .explain on, however often that was given and whatever was set since;
\* and the shell is in explain mode only as long as it knows a way back.
ExplainRestores ==
    [][/\ ~explainPrev'.valid => mode' # "explain"
       /\ explainPrev.valid /\ ~explainPrev'.valid => Settings' = normal]_vars

\* Nothing is written to a file that was closed, no file stays open that nobody
\* writes to, each is closed by the function that belongs to it, and .show says
\* where the output goes.
NoDanglingStream ==
    /\ \A s \in {out, pLog, traceOut} : s \in Stream => open[s] # NoName
    /\ \A s \in Stream : open[s] # NoName => s \in {out, pLog, traceOut}
    /\ out \in Stream => out # pLog /\ out # traceOut
    /\ pLog \in Stream => pLog # traceOut
    /\ out # "null" /\ traced = traceOut
    /\ ~misclosed
    /\ out \in Stream => open[out] = outfile
    /\ out \notin Stream => outfile \in {NoName, out}
=============================================================================
