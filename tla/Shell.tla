------------------------------- MODULE Shell -------------------------------
(***************************************************************************)
(* The sqlite shell as an interpreter (jl_sqlite3/shell.c): main with its    *)
(* passes over the arguments, process_input with the files that .read nests, *)
(* the buffer in which lines become statements, shell_exec, and Ctrl-C at    *)
(* any moment.                                                               *)
(*                                                                         *)
(* A line is a sequence of lexemes: ";", "/*", "*/", "--", "'", "go", "/",   *)
(* "nl" for the end of a line, and words.  A word stands for any other SQL   *)
(* text.  A line that begins with a dot also carries the meta command it is. *)
(***************************************************************************)
EXTENDS Naturals, Sequences

CONSTANTS
    Word,           \* SQL text
    File,           \* the names .read may be given
    Typed,          \* the lines a user may type
    MaxTyped,       \* bound on the lines typed
    InitFile,       \* the init file, or NoFile
    NoFile,
    Launches,       \* how the shell may be started: records with the options args, the
                    \* SQL argument first (or NoLine), whether tty, whether the database
                    \* exists, and the files text
    NoLine,
    MaxOpen,        \* the files the process may have open
    MaxInterrupts   \* bound on Ctrl-C

Mark == {";", "/*", "*/", "--", "'", "go", "/", "nl"}
Lex == Word \cup Mark \cup {"dot"}

\* What do_meta_command and main tell apart.
Commands == {"no", "exit", "read", "bad", "note", "bail on", "bail off"}
Options == {"-interactive", "-batch", "-bail", "-version", "unknown"}
Line == {l \in [dot : Commands \cup Options, file : File \cup {NoFile}, text : Seq(Lex)] :
            l.dot = "read" => l.file \in File}

ASSUME ShellAssumption ==
    /\ "tty" \notin File /\ "stdin" \in File
    /\ InitFile \in File \cup {NoFile}
    /\ Typed \subseteq Line
    /\ MaxOpen \in Nat \ {0} /\ MaxTyped \in Nat /\ MaxInterrupts \in Nat
    /\ \A l \in Launches : /\ l.args \in Seq(Line) /\ l.first \in Line \cup {NoLine}
                          /\ l.text \in [File -> Seq(Line)]
                          /\ l.tty \in BOOLEAN /\ l.exists \in BOOLEAN

\* Lines of SQL, lines that begin with a dot, and options.
Sql(text) == [dot |-> "no", file |-> NoFile, text |-> text]
Dot(what, f) == [dot |-> what, file |-> f, text |-> <<"dot">>]
Opt(z) == [dot |-> z, file |-> NoFile, text |-> <<>>]

VARIABLES
    phase,          \* where main is: "rc", "args", "first", "input", "exit"
    args,           \* the options of the second pass not seen yet
    first,          \* zFirstCmd
    tty,            \* stdin_is_interactive
    text,           \* text[f]: the lines of file f, or of "stdin"
    bail,           \* bail_on_error
    seenInterrupt,
    dbOpen,         \* the database is open
    frames,         \* the active calls of process_input, innermost last
    executing,      \* shell_exec is running
    todo,           \* the statements of its text it has not finished
    running,        \* "no", "yes", or "broken" by sqlite3_interrupt
    status,         \* the exit status
    typed,          \* lines typed so far
    interrupts,     \* Ctrl-C so far
    \* history
    failed,         \* the phases in which a statement or a command failed
    incomplete,     \* an input ended in half a statement
    bailed,         \* something failed with bail_on_error, away from a terminal
    pressed         \* Ctrl-C, and no line read from a terminal since

vars == <<phase, args, first, tty, text, bail, seenInterrupt, dbOpen, frames, executing,
          todo, running, status, typed, interrupts, failed, incomplete, bailed,
          pressed>>

-----------------------------------------------------------------------------
(* Lexical helpers.                                                          *)

\* The state of a machine that began in s0 and has read the text z.
After(step, s0, z) ==
    LET at[i \in 0..Len(z)] == IF i = 0 THEN s0 ELSE step[<<at[i - 1], z[i]>>]
    IN  at[Len(z)]

\* The scanner of sqlite3_complete: inside what the text is, and whether its last
\* token was a semicolon.
Inside == {"sql", "comment", "line", "quote"}
Scanner == [mode : Inside, last : {"none", "token", "semicolon"}]
ScanStep(s, x) ==
    CASE s.mode = "comment" -> IF x = "*/" THEN [s EXCEPT !.mode = "sql"] ELSE s
      [] s.mode = "line"    -> IF x = "nl" THEN [s EXCEPT !.mode = "sql"] ELSE s
      [] s.mode = "quote"   -> IF x = "'" THEN [s EXCEPT !.mode = "sql"] ELSE s
      [] OTHER -> CASE x = "nl" -> s
                    [] x = "/*" -> [s EXCEPT !.mode = "comment"]
                    [] x = "--" -> [s EXCEPT !.mode = "line"]
                    [] x = "'"  -> [s EXCEPT !.mode = "quote", !.last = "token"]
                    [] x = ";"  -> [s EXCEPT !.last = "semicolon"]
                    [] OTHER    -> [s EXCEPT !.last = "token"]
Scanning == [p \in Scanner \X Lex |-> ScanStep(p[1], p[2])]
Scan(z) == After(Scanning, [mode |-> "sql", last |-> "none"], z)

Complete(z) == Scan(z).mode \in {"sql", "line"} /\ Scan(z).last = "semicolon"

AllWhitespace(z) == Scan(z).last = "none" /\ Scan(z).mode # "comment"
ContainsSemicolon(z) == \E i \in DOMAIN z : z[i] = ";"
IsCommandTerminator(z) ==
    /\ z # <<>> /\ z[1] \in {"go", "/"}
    /\ AllWhitespace(Tail(z))
IsComplete(zSql) == zSql = <<>> \/ Complete(Append(zSql, ";"))

\* The statements that sqlite3_prepare_v2 finds in a text, one after the other;
\* what is only white space or comment is none.
Splitter == [mode : Inside, done : Seq(Seq(Lex)), now : Seq(Lex)]
SplitStep(s, x) ==
    LET scan == ScanStep([mode |-> s.mode, last |-> "none"], x)
        isText == s.mode = "quote" \/ scan.mode = "quote" \/ scan.last = "token"
        ends == s.mode = "sql" /\ x = ";"
        found == IF s.now = <<>> THEN s.done ELSE Append(s.done, s.now)
    IN  [mode |-> scan.mode,
         done |-> IF ends THEN found ELSE s.done,
         now  |-> IF ends THEN <<>> ELSE IF isText THEN Append(s.now, x) ELSE s.now]
Splitting == [p \in Splitter \X Lex |-> SplitStep(p[1], p[2])]
Split(z) == After(Splitting, [mode |-> "sql", done |-> <<>>, now |-> <<>>], z)
Statements(z) ==
    LET s == Split(z)
    IN  IF s.now = <<>> THEN s.done ELSE Append(s.done, s.now)

-----------------------------------------------------------------------------
NoFrame == [in |-> NoFile, at |-> 0, zSql |-> <<>>, errs |-> FALSE,
            seen |-> <<>>, fed |-> <<>>]
Top == frames[Len(frames)]
\* fs: the calls of process_input, the innermost one last.
SetTop(fs, g) == [fs EXCEPT ![Len(fs)] = g]
Idle == phase # "exit" /\ ~executing
\* At the bottom of the calls is a user at a terminal.
AtTerminal == frames # <<>> /\ frames[1].in = "tty"

Init ==
    /\ phase = "rc"
    /\ \E l \in Launches :
          /\ args = l.args /\ first = l.first /\ text = l.text
          \* isatty(0), unless the first pass meets -batch
          /\ dbOpen = l.exists
          /\ tty = (l.tty /\ \A i \in DOMAIN args : args[i].dot # "-batch")
    /\ bail = FALSE /\ seenInterrupt = FALSE
    /\ frames = <<>> /\ executing = FALSE /\ todo = <<>> /\ running = "no"
    /\ status = 0 /\ typed = 0 /\ interrupts = 0
    /\ failed = {} /\ incomplete = FALSE /\ bailed = FALSE /\ pressed = FALSE

given == <<tty, text, args, first>>
ctrlC == <<seenInterrupt, interrupts, pressed>>
exec == <<executing, todo, running, dbOpen>>
ghosts == <<failed, incomplete, bailed>>

\* exit, or the return of main.
Exits(code) ==
    /\ phase' = "exit" /\ status' = code
    /\ frames' = <<>>

\* What went wrong is remembered with the phase of main it happened in.
Remembers(r) ==
    /\ failed' = IF r = 0 THEN failed ELSE failed \cup {phase}
    /\ bailed' = (bailed \/ (r # 0 /\ bail /\ ~AtTerminal))
    /\ UNCHANGED incomplete

\* Mutant: the errors of the init file are forgotten.
MainGetsRc(r) ==
    CASE phase = "rc" ->
            phase' = "args" /\ frames' = <<>> /\ UNCHANGED status
      [] phase = "args" ->
            IF r # 0 /\ bail THEN Exits(r) ELSE frames' = <<>> /\ UNCHANGED <<phase, status>>
      [] OTHER -> Exits(r)

\* A call made by main returns r to it: process_sqliterc, a -cmd option, the
\* SQL argument, or the outermost process_input.
MainGets(r) ==
    CASE phase = "rc" ->
            IF r > 0 THEN Exits(r) ELSE phase' = "args" /\ frames' = <<>> /\ UNCHANGED status
      [] phase = "args" ->
            IF r # 0 /\ bail THEN Exits(r) ELSE frames' = <<>> /\ UNCHANGED <<phase, status>>
      [] OTHER -> Exits(r)

\* A meta command or shell_exec returns r to the loop of process_input, or to main.
CallerGets(fs, r) ==
    IF fs = <<>> THEN MainGets(r)
    ELSE /\ frames' = [fs EXCEPT ![Len(fs)].errs = @ \/ r # 0]
         /\ UNCHANGED <<phase, status>>

\* Mutant: what process_input returns to .read is dropped.
ReturnsNothing(fs) ==
    CallerGets(SubSeq(fs, 1, Len(fs) - 1), IF Len(fs) = 1 /\ fs[1].errs THEN 1 ELSE 0)

\* process_input returns whether it met errors, to .read or to main.
Returns(fs) ==
    CallerGets(SubSeq(fs, 1, Len(fs) - 1), IF fs[Len(fs)].errs THEN 1 ELSE 0)

Calls(fs, f) == frames' = Append(fs, [NoFrame EXCEPT !.in = f])

\* shell_exec is called with the text z.  Before, open_db opens the database if
\* that was not done, and exits if it cannot.
Executes(fs, z) ==
    /\ \/ /\ dbOpen' = TRUE
          /\ executing' = TRUE /\ todo' = Statements(z) /\ frames' = fs
          /\ UNCHANGED <<phase, status, ghosts>>
       \/ /\ ~dbOpen /\ Exits(1)
          /\ failed' = failed \cup {phase}
          /\ UNCHANGED <<dbOpen, executing, todo, incomplete, bailed>>
    /\ UNCHANGED <<running, bail>>

\* do_meta_command, as far as the interpreter goes: "bad" stands for a command
\* that fails, "note" for one that does not.
MetaCommand(fs, line) ==
    /\ CASE line.dot = "exit" ->
               /\ IF fs = <<>> THEN MainGets(2) ELSE Returns(fs)
               /\ UNCHANGED <<bail, ghosts>>
         [] line.dot = "read" ->
               /\ IF Len(fs) < MaxOpen
                  THEN Calls(fs, line.file) /\ UNCHANGED <<phase, status, ghosts>>
                  ELSE CallerGets(fs, 1) /\ Remembers(1)
               /\ UNCHANGED bail
         [] line.dot = "bad" ->
               CallerGets(fs, 1) /\ Remembers(1) /\ UNCHANGED bail
         [] line.dot \in {"bail on", "bail off"} ->
               /\ bail' = (line.dot = "bail on")
               /\ CallerGets(fs, 0) /\ UNCHANGED ghosts
         [] OTHER -> CallerGets(fs, 0) /\ UNCHANGED <<bail, ghosts>>
    /\ UNCHANGED exec

-----------------------------------------------------------------------------
(* main                                                                      *)

\* main before process_sqliterc, and that: the arguments may be wrong, an existing
\* database may not open, and without a home directory there is no init file to
\* look for; an init file that is not there is no error.
ReadInit ==
    /\ Idle /\ phase = "rc" /\ frames = <<>>
    /\ \/ InitFile # NoFile /\ Calls(frames, InitFile) /\ UNCHANGED <<phase, status, failed>>
       \/ MainGets(0) /\ UNCHANGED failed
       \/ Exits(1) /\ failed' = failed \cup {phase}
    /\ UNCHANGED <<given, ctrlC, exec, bail, typed, incomplete, bailed>>

\* One option of the second pass.
Option ==
    /\ Idle /\ phase = "args" /\ frames = <<>> /\ args # <<>>
    /\ args' = Tail(args)
    /\ LET z == Head(args) IN
       \/ /\ z.dot \in {"-interactive", "-batch"}
          /\ tty' = (z.dot = "-interactive")
          /\ UNCHANGED <<exec, bail, frames, phase, status, ghosts>>
       \/ /\ z.dot = "-bail" /\ bail' = TRUE
          /\ UNCHANGED <<exec, tty, frames, phase, status, ghosts>>
       \/ /\ z.dot = "-version" /\ Exits(0)
          /\ UNCHANGED <<exec, tty, bail, ghosts>>
       \/ /\ z.dot = "unknown" /\ Exits(1)
          /\ failed' = failed \cup {phase}
          /\ UNCHANGED <<exec, tty, bail, incomplete, bailed>>
       \/ /\ z.text # <<>>                                  \* -cmd
          /\ IF z.dot = "no" THEN Executes(frames, z.text) ELSE MetaCommand(frames, z)
          /\ UNCHANGED tty
    /\ UNCHANGED <<first, text, ctrlC, typed>>

OptionsDone == Idle /\ phase = "args" /\ frames = <<>> /\ args = <<>>

RunFirst ==
    /\ OptionsDone /\ first # NoLine
    /\ phase' = "first"
    /\ UNCHANGED <<given, ctrlC, exec, bail, frames, status, typed, ghosts>>

First ==
    /\ Idle /\ phase = "first" /\ frames = <<>>
    /\ IF first.dot = "no" THEN Executes(frames, first.text) ELSE MetaCommand(frames, first)
    /\ UNCHANGED <<given, ctrlC, typed>>

RunInput ==
    /\ OptionsDone /\ first = NoLine
    /\ phase' = "input"
    /\ Calls(frames, IF tty THEN "tty" ELSE "stdin")
    /\ UNCHANGED <<given, ctrlC, exec, bail, status, typed, ghosts>>

-----------------------------------------------------------------------------
(* process_input                                                             *)

GoesOn == ~Top.errs \/ ~bail \/ Top.in = "tty"
InFile == Top.in # "tty"

\* The loop ends by its condition, at the end of the input, or because a line
\* was read after Ctrl-C that does not come from a terminal.  Half a statement left
\* in the buffer is reported as "incomplete SQL", and not counted as an error.
Leave ==
    /\ Idle /\ frames # <<>>
    /\ \/ ~GoesOn
       \/ ~InFile
       \/ InFile /\ (Top.at = Len(text[Top.in]) \/ seenInterrupt)
    /\ Returns(frames)
    /\ incomplete' = (incomplete \/ ~AllWhitespace(Top.zSql))
    /\ UNCHANGED <<given, ctrlC, exec, bail, typed, failed, bailed>>

\* A line is appended to the buffer.
Joined(z, new) == IF z = <<>> THEN new ELSE z \o <<"nl">> \o new

\* Mutant: a line with a dot is a meta command also inside a statement.
IsMetaAnywhere(zSql, line) == line.dot # "no"

IsMeta(zSql, line) == line.dot # "no" /\ zSql = <<>>

\* Mutant: the text is not asked whether it is complete.
ReadyAtSemicolon(zSql, new) == ContainsSemicolon(new)

\* Mutant: the semicolon is looked for before the new line.
ReadyLate(zSql, new) == ContainsSemicolon(zSql) /\ Complete(Joined(zSql, new))

Ready(zSql, new) == ContainsSemicolon(new) /\ Complete(Joined(zSql, new))

\* The body of the loop.
Takes(line) ==
    LET top == [Top EXCEPT !.at = IF InFile THEN @ + 1 ELSE 0]
        fs == SetTop(frames, top)
        new == IF IsCommandTerminator(line.text) /\ IsComplete(top.zSql)
               THEN <<";">> ELSE line.text
        all == Joined(top.zSql, new)
        seen == Joined(top.seen, new)
        fed == top.fed \o Statements(all)
        blank == top.zSql = <<>> /\ AllWhitespace(line.text)
        meta == ~blank /\ IsMeta(top.zSql, line)
        ready == ~blank /\ ~meta /\ Ready(top.zSql, new)
    IN  CASE blank ->
                frames' = fs /\ UNCHANGED <<exec, bail, phase, status, ghosts>>
          [] meta ->
                MetaCommand(fs, line)
          [] ready ->
                Executes(SetTop(fs, [top EXCEPT !.zSql = <<>>, !.seen = seen, !.fed = fed]), all)
          [] OTHER ->
                /\ frames' = SetTop(fs, [top EXCEPT !.zSql = all, !.seen = seen])
                /\ UNCHANGED <<exec, bail, phase, status, ghosts>>

\* Mutant: Ctrl-C is forgotten, as at a terminal.
FileLineForgets ==
    /\ Idle /\ frames # <<>> /\ GoesOn /\ InFile
    /\ Top.at < Len(text[Top.in])
    /\ seenInterrupt' = FALSE
    /\ Takes(text[Top.in][Top.at + 1])
    /\ UNCHANGED <<given, interrupts, pressed, typed>>

FileLine ==
    /\ Idle /\ frames # <<>> /\ GoesOn /\ InFile
    /\ Top.at < Len(text[Top.in]) /\ ~seenInterrupt
    /\ Takes(text[Top.in][Top.at + 1])
    /\ UNCHANGED <<given, ctrlC, typed>>

\* At a terminal Ctrl-C only throws away what it interrupted.
TypedLine ==
    /\ Idle /\ frames # <<>> /\ ~InFile /\ typed < MaxTyped
    /\ typed' = typed + 1
    /\ seenInterrupt' = FALSE /\ pressed' = FALSE
    /\ \E line \in Typed : Takes(line)
    /\ UNCHANGED <<given, interrupts>>

-----------------------------------------------------------------------------
(* shell_exec, and the signal handler.                                       *)

Starts ==
    /\ executing /\ running = "no" /\ todo # <<>>
    /\ running' = "yes"
    /\ UNCHANGED <<given, ctrlC, phase, bail, dbOpen, frames, executing, todo,
                   status, typed, ghosts>>

\* A statement ends; one that was interrupted may still have come to its end.
Succeeds ==
    /\ running # "no"
    /\ running' = "no" /\ todo' = Tail(todo)
    /\ UNCHANGED <<given, ctrlC, phase, bail, dbOpen, frames, executing,
                   status, typed, ghosts>>

\* Mutant: the loop of shell_exec does not look at rc.
FailsAgain ==
    /\ running # "no"
    /\ running' = "no"
    /\ CallerGets(frames, 1) /\ Remembers(1)
    /\ UNCHANGED <<given, ctrlC, bail, dbOpen, typed, todo, executing>>

\* An error of one statement drops the others.
Fails ==
    /\ running # "no"
    /\ running' = "no" /\ todo' = <<>> /\ executing' = FALSE
    /\ CallerGets(frames, 1) /\ Remembers(1)
    /\ UNCHANGED <<given, ctrlC, bail, dbOpen, typed>>

ExecDone ==
    /\ executing /\ running = "no" /\ todo = <<>>
    /\ executing' = FALSE
    /\ CallerGets(frames, 0)
    /\ UNCHANGED <<given, ctrlC, bail, dbOpen, todo, running, typed, ghosts>>

\* interrupt_handler.  sqlite3_interrupt does nothing when no statement runs.
Interrupt ==
    /\ phase # "exit" /\ interrupts < MaxInterrupts
    /\ interrupts' = interrupts + 1
    /\ seenInterrupt' = TRUE /\ pressed' = TRUE
    /\ running' = IF running = "yes" THEN "broken" ELSE running
    /\ UNCHANGED <<given, phase, bail, dbOpen, frames, executing, todo, status,
                   typed, ghosts>>

Stopped == phase = "exit" /\ UNCHANGED vars

Steps == ReadInit \/ Option \/ RunFirst \/ First \/ RunInput \/ Leave \/ FileLine
         \/ Starts \/ Succeeds \/ Fails \/ ExecDone
Next == Steps \/ TypedLine \/ Interrupt \/ Stopped

Spec == Init /\ [][Next]_vars
\* The program runs on, and its user ends the input some day (Leave).
FairSpec == Spec /\ WF_vars(Steps)

-----------------------------------------------------------------------------
Frame == [in : File \cup {"tty"}, at : Nat, zSql : Seq(Lex),
          errs : BOOLEAN, seen : Seq(Lex), fed : Seq(Seq(Lex))]

\* Only the innermost process_input can hold half a statement.
TypeOK ==
    /\ phase \in {"rc", "args", "first", "input", "exit"}
    /\ tty \in BOOLEAN /\ bail \in BOOLEAN /\ seenInterrupt \in BOOLEAN
    /\ dbOpen \in BOOLEAN /\ executing \in BOOLEAN
    /\ frames \in Seq(Frame) /\ Len(frames) <= MaxOpen
    /\ \A i \in 1..(Len(frames) - 1) : frames[i].zSql = <<>>
    /\ todo \in Seq(Seq(Lex))
    /\ running \in {"no", "yes", "broken"} /\ (running # "no" => executing /\ todo # <<>>)
    /\ status \in 0..2 /\ typed \in 0..MaxTyped /\ interrupts \in 0..MaxInterrupts

\* Reading line by line, and running the buffer whenever it looks complete, feeds
\* SQLite the statements of the whole input, each once and in order: a line never
\* ends a statement inside a string or a comment, and what is still in the buffer
\* is the rest.
ChunksMatchWhole ==
    \A i \in DOMAIN frames : LET f == frames[i] IN
        Statements(f.seen) = f.fed \o Statements(f.zSql)

\* A buffer that is a complete statement is not left waiting, but for one case:
\* its last semicolon is behind it and the lines since only closed a comment.  At
\* the end of the input such a statement is given up as "incomplete SQL".
PendingExplained ==
    \A i \in DOMAIN frames : LET z == frames[i].zSql IN
        Complete(z) =>
            \E k \in DOMAIN z :
                /\ z[k] = "nl" /\ ~ContainsSemicolon(SubSeq(z, k, Len(z)))
                /\ Scan(SubSeq(z, 1, k)).mode = "comment"

\* After an error under -bail or ".bail on" nothing is run any more, however deep
\* the .read that met it, unless a user types on.
BailStops == [][bailed /\ bailed' /\ running = "no" => running' = "no"]_vars

\* Ctrl-C ends the statement it meets and what is left of its line, at most; no
\* further line is taken from a file, neither the one being read nor those that
\* read it.
InterruptStops ==
    [][pressed /\ interrupts' = interrupts /\ ~executing /\ frames # <<>> /\ InFile
        => ~executing' /\ Len(frames') < Len(frames)]_vars

\* What the shell has printed an error about.
Errors == failed \cup {x \in {"incomplete"} : incomplete}

\* The exit status 0 hides failures of -cmd options and an input that ends in half a
\* statement, which is printed as an error and not counted, but nothing else, and
\* nothing at all that met bail_on_error away from a terminal; an exit status of 1 is
\* a statement or a command that failed, never just such an input.
ExitStatusHonest ==
    phase = "exit" =>
        /\ status = 0 => Errors \subseteq {"args", "incomplete"} /\ ~bailed
        /\ status = 1 => failed # {}

\* Without a terminal the shell comes to its end, also when a file reads itself:
\* the process runs out of open files.
ShellExits == [](phase = "input" /\ ~tty => <>(phase = "exit"))
=============================================================================
