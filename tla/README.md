# A TLA+ model of jsqlite

jsqlite is a small C++ layer over SQLite 3.7.15: transaction objects, reads that
return JSON, generation of SQL literals, and SQLite extensions for Chinese text
(an FTS tokenizer, a dictionary of character variants, a few SQL functions).
This directory holds TLA+ modules translated from that code, configurations that
TLC checks, and theorems that TLAPS checks. Paths below are relative to `src/`.

## Inventory

| Component | Source | State | Operations |
|---|---|---|---|
| transaction objects | `jsqlite.cpp:23-60`, `jsqlite.hpp:13-24` | `db_`, `finalized_`, `ec_` | constructor (BEGIN), `commit` (END), `rollback` and destructor (ROLLBACK) |
| `wait_if_busy` | `jsqlite.cpp:10-21` | `ec`, `wait_cnt`, the caller's `char*` | a loop around `sqlite3_exec` |
| `select`, `select_as_map` | `jsqlite.cpp:64-134` | the caller's result | one `wait_if_busy` with a row callback |
| `select_bind_text` | `bind.cpp` | a prepared statement | prepare, step until done, finalize |
| literal generation | `gen.cpp`, `gen.hpp`, `jsqlite.cpp:136-189` | none | quoting and escaping |
| `container_device` | `container_device.hpp` | a string and a position | read, write, seek |
| FTS tokenizer | `utf8_tokenizer.cpp` | a tokenizer per table, a cursor per text, a global pointer | create, destroy, open, close, next |
| utf8 library | `utf8/*.h` | none | decode, encode, validate |
| variant dictionary | `unihan.cpp` | a multimap of code points | load, look up, convert |
| `uhcv` | `unihan_tool.cpp` | a 2048-byte buffer | read, convert, carry the rest over |
| SQL functions | `jl_sqlite3/{unihan.cpp,regexp.c,md5.c,sha.c}` | one static dictionary | `unihan`, `regexp`, `md5`, `sha1` |
| shell: interpreter | `jl_sqlite3/shell.c` (`main`, `process_input`, `shell_exec`, `open_db`) | options, a stack of input files with a statement buffer each, `bail_on_error`, `seenInterrupt` | options, lines, statements, Ctrl-C |
| shell: data | `jl_sqlite3/shell.c` (`do_meta_command`, `dump_callback`) | the open transaction, counters of the running command | `.import`, `.dump`, `.backup`, `.restore` |
| shell: output | `jl_sqlite3/shell.c` (`struct callback_data`) | modes, separators, widths, four streams | `.mode`, `.separator`, `.explain`, `.output`, `.log`, `.trace`, ..., printing of rows |
| not built | `where.*`, `insert.cpp`, `select.cpp` | | |

How they interact. The application holds one `sqlite3*` per thread or process and
opens the same file from several of them. It calls jsqlite on its own stack;
jsqlite calls the engine; the engine calls back row by row, or calls the tokenizer
and the SQL functions. Connections meet only in the locks of the file, and that is
where the hard behaviour is: any statement may be SQLITE_BUSY, fail for good, or
fail and roll the whole transaction back, and a process may die between any two.
The shell is one more such process: its user, its files and Ctrl-C drive it, and the
commands that move whole tables run many statements next to other connections.
The tokenizer and the dictionary are sequential; what is hard about them is bytes:
characters cut by buffers, bytes that are not UTF-8, bounds.

`PROJECT.json` lists the hazards one by one with the properties that speak of them.
What makes each component correct:

* transaction objects: a scope's rows become durable together or not at all; what
  `commit` answers is true; a scope without `commit` leaves no trace; no lock and no
  open transaction outlives its object. (Each of these has exceptions in the code, which
  the properties name.)
* `wait_if_busy`: it returns; a statement that is tried again takes effect once;
  every message is freed.
* reads: a lock is released; every row is returned once.
* tokenizer: exactly the tokens its rules describe, at the offsets it says; every
  call returns.
* dictionary and `uhcv`: only one-to-one mappings; where the buffers are cut makes
  no difference; the tool ends.
* shell, interpreter: cutting the input into lines makes no difference to the statements
  that are run; an error under `-bail` and a Ctrl-C stop everything they should, at any
  depth of `.read`; the exit status tells of failures, but for those of `-cmd` options and
  for half a statement at the end of an input, which is printed as an error and exits with 0;
  it ends.
* shell, data: an import is all or nothing and its report true; a dump that ends in COMMIT is
  one snapshot, unless a failing disk or a failed SAVEPOINT left it without a transaction, and
  the whole of it, unless a query of `sqlite_master` failed (then also a table without its rows
  may be in it); copies are faithful; nothing of a command outlives it.
* shell, output: what is printed can be read back; settings are given back; no stream is
  used after it was closed, closed twice or lost.

## Modules

| Module | Models |
|---|---|
| `SqliteFile` | external: one database file, its locks, autocommit, the statements jsqlite runs |
| `Transaction` | transaction objects, `wait_if_busy`, the reads and the application around them; extends `SqliteFile` |
| `AtomicScopes` | the abstract specification of what a transaction object promises |
| `TransactionProofs` | theorems about `Transaction` |
| `ExecRetry` | `wait_if_busy` in detail: scripts of several statements, the error message |
| `Utf8` | operators: the functions of the utf8 library in use |
| `Tokenizer` | a tokenizer cursor, a loop turn per step; extends `Utf8` |
| `Unihan` | the dictionary and `uhcv`; extends `Utf8` |
| `Shell` | the shell as an interpreter: options, lines, statements, nested files, errors, Ctrl-C |
| `ShellData` | `.import`, `.dump`, `.backup`, `.restore` between the user's SQL and other connections; extends `SqliteFile` |
| `Quoting` | operators: how the shell writes and reads CSV, SQL literals, C strings and arguments |
| `ShellOutput` | the settings and streams of the shell, and rows printed in the modes csv and insert; extends `Quoting` |
| `ExecRetryProofs`, `TokenizerProofs`, `UnihanProofs`, `ShellProofs`, `ShellDataProofs`, `ShellOutputProofs` | theorems about these |
| `DataProofs` | lemmas about induction, recursive functions, sequences and `Utf8`, used by the last five |
| `MC*` | instances for TLC |

### SqliteFile and Transaction

The engine's source is not in the repository. `SqliteFile` is written from its header
and from how jsqlite uses it. It assumes a rollback journal, no shared cache and no
busy handler (jsqlite installs none). BEGIN is deferred and takes no lock. An INSERT
reserves the file; END needs every reader gone, otherwise it is BUSY, the transaction
stays open and the lock is PENDING, which keeps new readers out. A failure to write
rolls the whole transaction back; a constraint failure undoes its statement only. BEGIN
fails inside a transaction, and may fail outside of one (out of memory, interrupted).
A statement that is never finalized keeps its SHARED lock (`pinned`).

`Transaction` models each call one `sqlite3_exec` at a time. `pc[c]` is the call in
progress on connection `c`, `rc[c]` the code `wait_if_busy` is about to return,
`waits[c]` its `wait_cnt`. `finalized`, `ec`, `dbOf` are the fields of an object, `top`
and `outer` the nesting of the objects that are alive. `Construct`, `Commit`,
`RollbackCall` and `Destroy` enter a member function with its test of `finalized_`;
`Attempt` is one turn of the loop; `Return` and `DestroyReturn` are the rest of
`LOG_TRANS_` and of the member function. `Select*`, `Bind*`, `ReadFails` and `ReadThrow` are
the reads; one that fails may end the transaction like a write.
`Insert` is the application's own `sqlite3_exec`; `Die` is the death of the process or
`sqlite3_close`. `made`, `asked`, `answer`, `stage`, `owner` and `gaveUp` are history: no guard of
the library reads them.

The constants `Nested` and `KeepGoing` say how the application uses scopes. With both
FALSE it keeps to the pattern of `demo.cpp:70-88`: scopes do not nest, and a scope is
left at its first failed statement. `Reads` and `Loose` bound the workload. `commit` and
`rollback` are called on the innermost object, rows are written into the innermost open
scope, and no key is inserted twice on behalf of the same writer.

The promises have exceptions that the code makes, and the properties name them. An answer
given by `commit` after an explicit `rollback` comes from the ROLLBACK's `ec_` and says true:
`AnswerIsTrue` says that nothing of the scope is stored then. A scope whose BEGIN failed with
no transaction open is "bare": its rows are committed one by one, before any answer and without
one. `ScopeAtomic` leaves it out, `AnswerIsTrue` says that all its rows are there when `commit`
says no, and `AtomicScopes` has bare scopes; such rows stay when the scope is never committed.

### ExecRetry

One connection, one call at a time. `Statement`, `Fails` and `Completes` are the engine's
`sqlite3_exec` over the statements of the script; `Rival` is another connection's lock,
which changes between any two of them; `Turn` is the test of the loop; `Back` is the
caller, who frees the message it is left with. `ran` counts how often each statement
wrote, or handed rows to the callback; `lost` counts messages without a pointer.

### Utf8, Tokenizer, Unihan

`Utf8` works on bytes, with the masks of the C++ code as remainders. `Tokenizer` keeps
`iOffset`, `iToken` and the iterators of `utf8Next`. The read of `ascii_garbage` at a
negative index is a choice of either answer; `strays` remembers where it was yes, so
that the properties can say what else must be right. In `Unihan` a dictionary file is a
sequence of lines; `buf` is the local string that a blank line leaves as it was; `pick`
is the unspecified order of equal keys. `Pass` is one turn of the loop of `uhcv`, and
`Convert` stands for its inner loop and for that of the one-pass reference alike: the
conversion goes from one valid character to the next and stops at the first bytes that are
not one.

### Shell

A line is a sequence of lexemes: the characters that matter to the scanners (semicolon,
quote, both kinds of comment, the terminators `go` and `/`) and words for any other text; a
line with a dot carries the meta command it is. `frames` is the C stack of `process_input`,
one record per open file with its buffer `zSql` and its `errCnt` (`errs`, only compared with
0); `phase` says which call of `main` is at the bottom. `Leave`, `FileLine` and `TypedLine`
are the turns of the loop, with `Takes` its body; `CallerGets` and `Returns` carry a return
code to `.read` or to `main`; `Starts`, `Succeeds`, `Fails` and `ExecDone` are `shell_exec`,
statement by statement, so that `Interrupt`, the signal handler, may come between any two
steps: `sqlite3_interrupt` does nothing when no statement runs. `Executes` is `open_db`, which
may exit, and the call of `shell_exec`. The meta commands are those that steer the interpreter
(`.read`, `.exit`, `.bail`) and one each for all that succeed and all that fail. `seen`, `fed`,
`failed`, `incomplete`, `bailed` and `pressed` are history; `incomplete` is the error printed by
`Leave` that `errCnt` does not count.

Left out: the state `sqlite3_complete` keeps for CREATE TRIGGER; which error code an exit
status shows (1 stands for all); a malloc that fails. That `main` may end before
the init file (wrong arguments, a database that does not open, no home directory) is one
disjunct of `ReadInit`.

### ShellData

The database is that of `SqliteFile`, with rows tagged by who wrote them: the user, a rival
connection, or the number of an import. `UserSql` and `RivalSql` run between the steps of the
commands; `Killed` ends the shell anywhere and starts another one. An import is `ImportBegin`,
`ImportLine` per line, `ImportEof`, `ImportEnd`. A dump is `DumpBegin` (SAVEPOINT), per schema
query `SchemaQuery`, one `DumpTable` per row of `sqlite_master`, `SchemaDone` or
`SchemaFails`, then `IndexQuery` and `DumpEnd`. SAVEPOINT may fail and any of the queries may meet
a failing disk, which ends the transaction (`dump.lost`); `SchemaFails` may have printed the CREATE
of the table it failed at (`Bare`). A pattern of `.dump` is the set of tables it matches, and there
is one at most (`nArg<3`). An import whose BEGIN fails with no transaction open is reported
"loose", and nothing is promised of it. The copies take one `CopyStep` per table.
`ended` is the last line of a dump, `report` and `told` what the user is told.

Left out: changes of the schema, `.timeout` (it lets a statement wait before it is BUSY), and
`.restore` into a connection that has a transaction open, which the library forbids.

### Quoting and ShellOutput

`Quoting` has the shell's writers (`output_csv`, `output_quoted_string`, `output_c_string`,
`set_table_name`) and its readers (`local_getline`, the loop of `.import`,
`resolve_backslashes`, the argument scanner of `do_meta_command`) as functions on sequences of
characters, so that a reader can be applied to what a writer wrote. Every character a scanner
treats on its own has a name; "a" stands for the letters that have none, "ctl" for the control
characters, "other" for the bytes that are not ASCII, of which 255 stands where the value is
written: `output_c_string` prints it as an octal escape, and an octal escape gives the character
whose byte it names. `Unescaped` is defined for every text: a NUL ends it, and so does a backslash with
nothing behind it (the code then reads on behind the text, which is left out). `ShellOutput` keeps
`struct callback_data`: each command is an action, `Query` prints a result in the current
mode. The constant `Char` is the set of characters that names, values and arguments are made
of; the words of an INSERT statement (`Keyword`) are one symbol each and none of them; `Value`
is what the engine may hand over, NULL, a text or an integer. A `FILE*` is one of three streams with the file or command that is behind it. `FieldSize` is the
20 bytes of `separator` and `nullvalue`, which are cut to fit (`Fitted`). Of the 100 column
widths three are kept: one that `.explain` sets, one it clears, and one behind the 100 bytes
its `memset` reaches.

Left out: what the other modes print, blobs and floating point numbers, and the contents of
files that two streams share. `CsvReadsBack` names as preconditions what the code does not quote:
the null value, and a separator of several characters inside a field. A `.mode insert`
without a name writes into `table`, a keyword, and is not among the inputs.

## Runs

| Run | Instance | Result |
|---|---|---|
| `transaction` | 2 connections, 2 objects, 2 keys, `MaxWait` 1, both connections write loosely and one reads | `ScopeAtomic`, `AnswerIsTrue`, `RollsBackUnlessGaveUp`, `NoLockLeak`, `LooseDurable`, and refinement of `AtomicScopes` |
| `transaction_live` | 3 connections, 1 object, one kind of read each | `WaitReturns`, `BindReturns` |
| `transaction_leak` | as `transaction`, both connections read | `RollsBackOnExit` is violated: a finding |
| `transaction_nested` | as `transaction_leak`, `Nested` | `ProtectedNeverStored` is violated: a finding |
| `exec_retry` | scripts of 1 to 3 statements, 2 calls, `MaxWait` 2 | `OneStatementOnce`, `ScriptsRepeatPrefixes`, `RetriesLoseMessages` |
| `exec_leak` | as `exec_retry` | `EveryMessageFreed` is violated: a finding |
| `tokenizer` | the 1464 texts of up to 3 characters out of 11 | `FindsAllTokens`, `OffsetsIdentify`, `CursorAdvances`, `NextReturns` |
| `tokenizer_stray` | texts with a continuation byte that continues nothing | `NextReturns` is violated: a finding |
| `unihan` | 2 dictionaries, inputs of up to 4 pieces, a buffer of 5 | `OnlyOneToOne`, `CutsInvisible`, `EndsUnlessStuck`, `ValidEnds` |
| `shell` | 80 launches with a script of seven lines and a file that reads itself, and every standard input of up to 4 of 8 lines; `MaxOpen` 3, one Ctrl-C, two typed lines, half a statement and `go` among them | `ChunksMatchWhole`, `PendingExplained`, `ExitStatusHonest`, `BailStops`, `InterruptStops`, `ShellExits` |
| `shell_data` | the shell and one rival, an ordinary table and `sqlite_sequence`, 3 keys, one import of a good or a bad file, whole dumps and dumps of one table | `ImportAtomic`, `ImportReport`, `DumpHonest`, `DumpLeavesNoTrace`, `ImportEndsTransaction`, `CopyFaithful`, `CommandEnds` |
| `shell_output` | every sequence of 4 commands, with 6 separators, 2 null values, 83 results, a file, a pipe and names that fail | `CsvReadsBack`, `InsertReadsBack`, `ShowReadsBack`, `NoDanglingStream`, `ExplainRestores` |

Bounds. `MaxWait` stands for the 100 of the code; with 1 a call both retries and gives
up, and nothing but the count depends on it. Two connections are enough for every
conflict of locks, which are pairwise; three are used for liveness, where one starves
another. Two objects on one connection show a leaked transaction meeting the next
scope. Two keys make a scope of two rows, so that half of it could be there. The
tokenizer's characters lie on both sides of each bound (127, 0x3fff, 0xff00) and have
all four lengths; three of them give every pair of neighbours with a third on either
side. A buffer of 5 bytes cuts characters of two to four bytes at every place, and
inputs of up to 13 bytes take several passes. In `shell` the eight lines hold every pair of
semicolon, quote and comment that a line can end inside of, three open files let an error or
a Ctrl-C meet two callers above it, and one Ctrl-C is enough because at a file the flag is
never cleared. In `shell_data` two keys belong to one table, so that half a file could be
imported, and the third to a table of the second schema query, which a rival may write between
the two; one import is enough for what an import leaves behind, as the others follow only when
it is over (the theorems hold for any number). The other kinds of tables
(virtual, internal, `sqlite_stat1`) and patterns that match several are left to the proofs, which
hold for every schema. Four commands of `shell_output` are enough to
set a mode and a separator, print, and have a third setting in between, and to open and close
a file under another stream's eyes.

Deadlock is checked except where the program ends or a bound stops it: `exec_retry` stops
after its calls, `uhcv` exits, `shell_output` stops after its commands, and in `shell_data` a
rival's keys and the imports run out. Objects and keys are symmetric in the runs of `Transaction`
that are about safety, and connections where all do the same.

Fairness. In `transaction_live` each connection's thread that is inside a call keeps
running (weak fairness of the disjunction of its internal steps: the code has no wait
other than its loops). A read that fails (`ReadFails`) or throws is not among them, or a loop
that waits for a lock would always be rescued by an error. Nothing makes an application begin a
call or end a scope: the
properties hold although another connection may keep its transaction open for ever.
In `shell` the program runs on whenever it is not waiting for a terminal, and the user of a
terminal ends the input some day (`Leave`); nobody has to type or press Ctrl-C. In
`shell_data` a command that has begun takes its next step; rivals, failures (`Failures`) and
the user need not act. `CommandEnds` leaves out `.backup`, which starts over whenever somebody
writes its source and may do so for ever.
`utf8Next` and `uhcv` are sequential code, so a call that has begun keeps running, and
the input of `uhcv` is at hand.

## Proofs

`TransactionProofs` proves, for every number of connections, objects and keys and every
`MaxWait`:

* `Typing`: the type invariant, with no assumption on how scopes are used.
* `Atomicity`, `TruthfulCommit`, `RollbackOnExit`, `LockRelease`, `LooseDurability`: the
  safety properties of the run `transaction`.
* `Refinement`: `Spec => Abstract!Spec`, where the store is the set of committed rows,
  a scope is the history of the transaction its object began, and its content what was
  written in it.

All but the first assume `~Nested` and `~KeepGoing`, the usage pattern of `demo.cpp`: the
run `transaction_nested` shows what nesting does, and a scope that goes on after a failure that ended
its transaction commits what it writes then. The assumptions on the
constants are those named in `Transaction`.

The properties are not inductive: that a COMMIT stores exactly one scope's rows depends
on whose transaction is open, which depends on which call is in progress, on what the
object's flags say of calls that are over, and on whether a commit on this connection has
ever given up. `Inv` has one conjunct for each of these: `StackInv` (objects alive are the
tops of their connections), `CallInv` (which call is possible in which state of the
object), `OwnerInv` (a transaction is open from its owner's BEGIN until it ends, and
outlives the owner only after a commit that gave up), `CodeInv` (what the code about to be
returned says of the transaction), `RowInv` (unsaved rows are those of the owner, committed
rows those of committed scopes and bare ones), `SaidInv` (what was asked of an object agrees with its
flags) and `LockInv` (outside a transaction only a read holds a lock). TLC checked each on
the instance of `transaction` before the proof. There is one lemma per action or group of
actions, one step per conjunct, and `InvImplies` draws the properties from `Inv`. The steps
of the refinement are stutters but for those of the engine (`AttemptImplements`,
`InsertImplements`, `DieImplements`).

`ExecRetryProofs` proves for every `MaxWait`, every set of scripts and number of calls:
`OneStatement`, `Prefixes` and `MessagesLost` (and the type invariant, which no run checks on
its own). Its invariant says, for each place in the loop, how often each statement of the
script has run compared with `waits`, and who holds the error message.

`TokenizerProofs` proves, for texts of any length: `Advances` (`CursorAdvances`, for any bytes
at all) and, when every text is valid UTF-8 (`AllValid`; that is what FTS hands over, and the
run `tokenizer_stray` shows what happens otherwise), `Offsets` and `FindsAll`. The invariant
`IInv` says that each position the cursor keeps is a boundary of characters, and that the
tokens returned so far are exactly those of the rules that end there (`FoundUpTo`), with one
run of ASCII letters pending inside `NextAscii` (`OneWord`). Whatever is read before
`ascii_garbage` is a choice, so the theorems hold for either answer.

`UnihanProofs` proves, for every dictionary, input and size of buffer of at least four bytes:
`OneToOne` and `Cuts`. The heart of `Cuts` is that conversion is a homomorphism at character
boundaries: what has been written, followed by the conversion of what is carried over and
what is still to be read, is the conversion of the whole input (`Converting`).

`ShellProofs` proves, for any files, lines, options, depth of `.read` and number of Ctrl-C:
`BailStopsAll`, `InterruptStopsAll`, `StatusHonest`, `WellTyped`, `ChunksMatch` and `Pending`.
`Inv` says that an error under `-bail`
away from a terminal has made the innermost call one that is about to return an error,
and the exit status one (`Bailing`); that a failure of the current phase of `main` is remembered by some call on the
stack, and by none without one (`Owes`); that only the outermost call reads a terminal; and
that a Ctrl-C that was not answered is still in `seenInterrupt`. The lemmas `Gets`,
`ReturnsBack`, `CallFine` and `ExecutesFine` are about the ways a call begins and ends; each
action is one of these. `ChunksMatchWhole` compares two machines over the same lexemes: the
one that decides, line by line, whether the buffer is complete, and the one that cuts a text
into statements. The lemmas about them say that the first has seen the end of a statement
exactly when the second is between two statements; `Waits` (what a buffer that is not complete
looks like), `Buffers`, `Settled`, `Counters` and `Kinds` carry this through the stack of calls.

`ShellDataProofs` proves, for any tables, schema, files, rivals and number of imports:
`Typing`, `Atomic`, `Reported`, `EndsTransactionToo`, `NoTrace`, `Faithful` and `HonestDump`.
The invariant
says for each import which of its rows may be where: of a running one none is on disk, and all
so far are pending on the shell's connection as long as it means to commit; a finished one has
all or none of them
on disk; and what the copies hold is, table by table, what their source held when they
(re)started. It needs the locks: a rival cannot read or write past a lock the shell holds.
`HonestDump` needs more: a dump that ends with COMMIT is the state of one moment although
its parts were read one after the other. `DumpInv` says which position of the schema the
reading has reached (the machine `Where`, which recomputes it from what was printed), that the
printed part is the image of the state the savepoint's first read fixed, and what an error
switches. It says nothing of a dump that lost its transaction.

`ShellOutputProofs` proves `Streams`, `Restores`, `ShownSettings`, `CsvRoundTrip` and
`InsertRoundTrip` for any files, commands, arguments, results and number of steps. The streams' invariant counts who uses each; `Fresh` always
finds one because there are three users and each has closed its own. `ShownSettings`
(`ShowReadsBack`) holds because the settings are always texts over `Char` (`TextInv`), and
because for every such text `z` the argument scanner finds `CString(z)` to be one quoted word
(`QuotedWord`) whose escapes give back `z` character by character (`EscapesResolve`): every
character stands for a known number of places of the C string, and no octal escape is cut
short or run into.

`CsvRoundTrip` and `InsertRoundTrip` are about texts put together of many: fields with
separators between them make a line, lines with newlines behind them a file, and one loop
(`SplitOutside`) has to find them all again. Two notions carry the argument. `Cut(z, F, sep, b)`
says that `z` is the texts `F` one behind the other with `sep` between them, the k-th one behind
place `b[k]`; `JoinedCut` and `LinesCut` show that what is joined is cut so. `Path(f, q, C, b0, b1)`
says that the quotes `q` in `f` lead a scanner from state `b0` to state `b1` and that no
character of `C` is outside of them; it composes (`PathConcat`, `PathFlatten`), a doubled
text between quotes has it for every `C` without the quote (`PathDoubled`), and a text that needs
no quotes has it because of what `NeedsQuote` looks at. `SplitCut` puts them together: where no
text holds the first character of the separator outside of its quotes, the loop finds exactly
the texts. That a separator of several characters is looked for at each place, and that its other characters
are then skipped, is in `SplitThrough` and `SplitSeparator`. What a quoted text holds is
`QuotedReads`. The invariants are `TextInv`; `PrintedInv` (what the last query printed is what
the settings of now print: every command that could change them forgets it); and `DestInv` (in
mode insert, and as long as `.explain off` may return to it, the table's name is the quoted
form of what the user gave).

Recursive functions. The library states induction for a predicate that none of the provers
here can instantiate. `DataProofs` states it for sets instead: `CompleteInduction`,
`SimpleInduction` and `BackwardInduction` take the set of the numbers that have the property,
`ForwardRecursion` and `BackwardRecursion` give the function a recursive definition chooses,
and the lemmas on machines (`Runs`) say that the states of a scanner over a text exist and depend on
the part read so far only. All that recursive functions compute in the proved properties rests
on these.

Assumptions. Besides those named above the theorems use only the `ASSUME`s of the modules:
bounds are natural numbers, texts are sequences of bytes, lines or characters, names are
disjoint from the words the code knows; `.separator` and `.nullvalue` get one argument
(`ArgumentsAssumption`: with another number of them the code does nothing); a result has at
least one column and rows of `Value`s (`ResultsAssumption`). TLC evaluates each of
them on its instance.

Three proofs changed the model. In `Shell` half a statement typed at a terminal and then left
behind made the history that `ChunksMatchWhole` compares with wrong, and two arms of a CASE
overlapped; the run now types such lines. In `Quoting` the escapes had no value for a
backslash at the end of a text. In `ShellOutput` nothing said what a result may hold: the text
of an integer was any text, even an empty one, which no statement could hold.

Only model-checked: liveness (`WaitReturns`, `BindReturns`, `NextReturns`, `EndsUnlessStuck`,
`ValidEnds`, `ShellExits` and `CommandEnds`), which is out of the prover's reach. Every other
property of a passing run is proved.

## Not modelled

* SQL literal generation (`gen.*`), `container_device` and the row-to-JSON mapping of `select`
  and `select_as_map`: functions from a value to a text without state of their own, which unit
  tests reach. What they may get wrong is listed under "hazards" with that note.
* The registration of the tokenizer and its global pointer, which no code in the repository
  reads; texts that are not valid UTF-8, but for `tokenizer_stray`.
* `regexp()`, `md5()`, `sha1()`: calls of libraries. `unihan()`: the conversion of `Unihan`.
* UTF-16 and UTF-32 conversions and the checked iterators of `utf8/`: not used.
* Of the shell: output in the modes other than csv and insert, `.schema`, `.tables`,
  `.indices`, `.stats`, `.timer`, `.load`, `.testctrl` and the like, which print or hand their
  arguments to the engine; line editing.
* `jl_sqlite3/sqlite3.h`, `sqlite3ext.h` and `fts3_tokenizer.h` are more than half of the
  lines of the repository and hold declarations; the engine behind them is not here.
* `where.*`, `insert.cpp` and `select.cpp`, which are not built; build files and data; JSON
  values, logging.

## Plan

Done, in this order: `SqliteFile`, `Transaction` and its proofs (the core), `ExecRetry`,
`Utf8`, `Tokenizer`, `Unihan`, `ShellData`, `Shell`, `Quoting` and `ShellOutput`, and the proofs
about all of them. What could follow:

1. A schema that changes during `.dump`.
2. The output modes tcl and column, whose texts nothing in the repository reads back.
3. `container_device` against an abstract file, should anything begin to seek in it.
