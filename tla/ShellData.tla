----------------------------- MODULE ShellData -----------------------------
(***************************************************************************)
(* The sqlite shell's commands that move whole tables between the database  *)
(* and files: .import, .dump, .backup and .restore (do_meta_command,        *)
(* jl_sqlite3/shell.c), with the SQL its user types between them and other  *)
(* connections that read and write the same file.                           *)
(*                                                                         *)
(* A row <<t, k>> of SqliteFile is tagged with who wrote it: the user, a    *)
(* rival connection, or the number of the .import that inserted it.  The    *)
(* schema does not change, and the busy timeout is 0 (.timeout only lets a  *)
(* call wait before it is BUSY).                                            *)
(***************************************************************************)
EXTENDS SqliteFile, Sequences, FiniteSets

CONSTANTS
    shell,      \* the shell's connection; the others are rivals
    Table,      \* the tables
    TableOf,    \* TableOf[k]: the table a key belongs to
    Kind,       \* how dump_callback treats a table
    Schema,     \* the tables in the order of sqlite_master
    Short,      \* a line without the right number of columns
    Asks,       \* the sets of tables whose names match a pattern .dump is given
    Files,      \* what .import may find in a file
    User,       \* tag of the rows the user's own SQL writes
    Rival,      \* tag of the rows of other connections
    Writes,     \* Writes[u]: the keys that u, the user or a rival, may insert
    MaxImports  \* bound on the .import commands

Import == 1..MaxImports
Kinds == {"table", "sequence", "stat1", "internal", "virtual"}

ASSUME ShellDataAssumption ==
    /\ shell \in Conn
    /\ MaxImports \in Nat
    /\ Tag = Import \cup {User, Rival}
    /\ User \notin Import /\ Rival \notin Import /\ User # Rival
    /\ TableOf \in [Key -> Table] /\ Kind \in [Table -> Kinds]
    /\ Schema \in Seq(Table) /\ Len(Schema) > 0
    /\ \A k \in Key : \E i \in 1..Len(Schema) : Schema[i] = TableOf[k]
    /\ Asks \subseteq SUBSET Table
    /\ Writes \in [{User, Rival} -> SUBSET Key]
    /\ Files \subseteq Seq(Key \cup {Short}) /\ Short \notin Key

VARIABLES
    cmd,        \* where do_meta_command is; "idle" between two commands
    \* .import
    n,          \* how many imports have begun
    lines,      \* lines of the file not read yet
    zCommit,    \* how the import will end
    file,       \* file[j]: the contents of import j's file
    report,     \* report[j]: what became of import j, as told to the user
    before,     \* the rows pending when the running import began
    \* .dump
    dump,       \* the queries left and the counters of the running dump
    text,       \* the dump's output
    ended,      \* its last line
    \* .backup and .restore
    saved,      \* the rows in the backup file
    copied,     \* how many tables of Schema are copied
    pages,      \* their rows as they were copied
    source,     \* the source as it was when the copy (re)started
    nTimeout,   \* BUSY answers .restore has met
    told        \* what .backup or .restore said last

importVars == <<n, lines, zCommit, file, report, before>>
dumpVars == <<dump, text, ended>>
copyVars == <<saved, copied, pages, source, nTimeout, told>>
vars == <<db, cmd, importVars, dumpVars, copyVars>>

Commands == {"idle", "import", "commit", "schema", "rows", "release",
             "backup", "restore"}
\* "hollow": the user is told of a success, but the COMMIT was BUSY or failed.
\* "loose": the BEGIN failed with no transaction open, and every line that can be
\* inserted is committed by itself, whatever the user is told.
Reports == {"none", "running", "ok", "hollow", "failed", "killed", "replaced", "loose"}

RowsIn(rows, t) == {r \in rows : TableOf[r[2]] = t}
Visible == disk \cup unsaved[shell]
KeysOf(s) == {s[i] : i \in DOMAIN s}

NoDump == [queries |-> <<>>, left |-> <<>>, again |-> FALSE, nErr |-> 0,
           writableSchema |-> FALSE, opened |-> FALSE, asked |-> <<>>,
           read |-> FALSE, snap |-> {}, failed |-> FALSE, lost |-> FALSE]

Init ==
    /\ DbInit
    /\ cmd = "idle"
    /\ n = 0 /\ lines = <<>> /\ zCommit = "COMMIT"
    /\ file = [j \in Import |-> <<>>]
    /\ report = [j \in Import |-> "none"]
    /\ before = {}
    /\ dump = NoDump /\ text = <<>> /\ ended = "none"
    /\ saved = {} /\ copied = 0 /\ pages = {} /\ source = {}
    /\ nTimeout = 0 /\ told = "none"

-----------------------------------------------------------------------------
(* SQL typed at the prompt, and the other connections.                       *)

\* A new command takes the place of the results of the last one.
NoCopy ==
    /\ copied' = 0 /\ pages' = {} /\ source' = {} /\ nTimeout' = 0 /\ told' = "none"
    /\ UNCHANGED saved
NoResults ==
    /\ dump' = NoDump /\ text' = <<>> /\ ended' = "none"
    /\ NoCopy

UserSql ==
    /\ cmd = "idle"
    /\ \E r \in Code :
          \/ Begin(shell, r)
          \/ \E k \in Writes[User] : Write(shell, User, k, r)
          \/ End(shell, r)
          \/ Rollback(shell, r)
    /\ NoResults
    /\ UNCHANGED <<cmd, importVars>>

RivalSql(c) ==
    /\ \E r \in Code :
          \/ Begin(c, r)
          \/ \E k \in Writes[Rival] : Write(c, Rival, k, r)
          \/ End(c, r)
          \/ Rollback(c, r)
          \/ ReadBegin(c, r)
    /\ UNCHANGED <<cmd, importVars, dumpVars, copyVars>>

RivalReadEnd(c) ==
    /\ ReadEnd(c)
    /\ UNCHANGED <<cmd, importVars, dumpVars, copyVars>>

\* The shell dies, by a signal or an assertion, and a new one is started.
Killed ==
    /\ Drop(shell)
    /\ cmd' = "idle"
    /\ report' = [j \in Import |-> IF report[j] = "running" THEN "killed" ELSE report[j]]
    /\ NoResults
    /\ lines' = <<>> /\ zCommit' = "COMMIT" /\ before' = {}
    /\ UNCHANGED <<n, file>>

-----------------------------------------------------------------------------
(* .import FILE TABLE                                                        *)

\* The table and the file were found.  The result of BEGIN is not looked at:
\* inside the user's transaction it fails and the import goes on in that one;
\* where it fails with none open, the import goes on without any.
ImportBegin ==
    /\ cmd = "idle" /\ n < MaxImports
    /\ \E r \in Code :
          /\ Begin(shell, r)
          /\ report' = [report EXCEPT ![n + 1] =
                            IF auto[shell] /\ r = "error" THEN "loose" ELSE "running"]
    /\ \E f \in Files :
          /\ lines' = f
          /\ file' = [file EXCEPT ![n + 1] = f]
    /\ n' = n + 1
    /\ zCommit' = "COMMIT"
    /\ before' = unsaved[shell]
    /\ cmd' = "import"
    /\ NoResults

\* Mutant: a line that cannot be inserted ends the loop, but not the COMMIT.
GivesUpCommits == cmd' = "commit" /\ UNCHANGED zCommit

\* Mutant: the loop goes on behind a line that cannot be inserted.
GivesUpNever == UNCHANGED <<zCommit, cmd>>

\* The first failure decides for ROLLBACK.
GivesUp == zCommit' = "ROLLBACK" /\ cmd' = "commit"

\* One INSERT per line.
ImportLine ==
    /\ cmd = "import" /\ lines # <<>>
    /\ lines' = Tail(lines)
    /\ \/ Head(lines) = Short /\ GivesUp /\ UNCHANGED db
       \/ /\ Head(lines) # Short
          /\ Write(shell, n, Head(lines), "ok")
          /\ UNCHANGED <<zCommit, cmd>>
       \/ /\ Head(lines) # Short
          /\ \E r \in Code \ {"ok"} : Write(shell, n, Head(lines), r)
          /\ GivesUp
    /\ UNCHANGED <<n, file, report, before, dumpVars, copyVars>>

ImportEof ==
    /\ cmd = "import" /\ lines = <<>>
    /\ cmd' = "commit"
    /\ UNCHANGED <<db, importVars, dumpVars, copyVars>>

Settles(said) == report' = [report EXCEPT ![n] = IF @ = "loose" THEN @ ELSE said]

\* Mutant: an import inside the user's transaction leaves the end to the user.
ImportEndNested ==
    /\ cmd = "commit"
    /\ IF before # {}
       THEN /\ UNCHANGED db
            /\ Settles(IF zCommit = "COMMIT" THEN "ok" ELSE "failed")
       ELSE IF zCommit = "COMMIT"
       THEN \E r \in Code :
               /\ End(shell, r)
               /\ Settles(IF r = "ok" THEN "ok" ELSE "hollow")
       ELSE /\ \E r \in Code : Rollback(shell, r)
            /\ Settles("failed")
    /\ lines' = <<>> /\ zCommit' = "COMMIT" /\ before' = {}
    /\ cmd' = "idle"
    /\ UNCHANGED <<n, file, dumpVars, copyVars>>

\* The result of COMMIT or ROLLBACK is not looked at either; rc, and what the
\* shell reports, was settled by the lines.
ImportEnd ==
    /\ cmd = "commit"
    /\ IF zCommit = "COMMIT"
       THEN \E r \in Code :
               /\ End(shell, r)
               /\ Settles(IF r = "ok" THEN "ok" ELSE "hollow")
       ELSE /\ \E r \in Code : Rollback(shell, r)
            /\ Settles("failed")
    /\ lines' = <<>> /\ zCommit' = "COMMIT" /\ before' = {}
    /\ cmd' = "idle"
    /\ UNCHANGED <<n, file, dumpVars, copyVars>>

-----------------------------------------------------------------------------
(* .dump ?TABLE?                                                             *)

\* The elements of s that are wanted, in their order.
Where(s, wanted) ==
    LET found[i \in 0..Len(s)] ==
            IF i = 0 THEN <<>>
            ELSE IF s[i] \in wanted THEN found[i - 1] \o <<s[i]>> ELSE found[i - 1]
    IN  found[Len(s)]

IsSequence == {t \in Table : Kind[t] = "sequence"}

\* The schema queries of .dump, and of .dump with a pattern, of which it takes one
\* (nArg < 3).
AllQueries == <<Where(Schema, Table \ IsSequence), Where(Schema, IsSequence)>>
OneQuery(matched) == <<Where(Schema, matched)>>

\* Mutant: no SAVEPOINT around the queries.
OpensNothing(ok) == UNCHANGED db

\* The result of SAVEPOINT is not looked at.
Opens(ok) == IF ok THEN Savepoint(shell) ELSE UNCHANGED db

\* "lost": no transaction is around the queries, because none was opened or
\* because a failing disk has ended it.
DumpBegin ==
    /\ cmd = "idle"
    /\ \E ok \in BOOLEAN, q \in {AllQueries} \cup {OneQuery(ts) : ts \in Asks} :
          /\ Opens(ok)
          /\ dump' = [NoDump EXCEPT !.queries = q, !.asked = q,
                                    !.opened = ok /\ auto[shell],
                                    !.lost = ~ok /\ auto[shell]]
    /\ text' = <<>> /\ ended' = "none"
    /\ cmd' = "schema"
    /\ NoCopy
    /\ UNCHANGED importVars

\* The first read of the dump fixes what it can see.
Seen(d) == IF d.read THEN d ELSE [d EXCEPT !.read = TRUE, !.snap = Visible]

\* run_schema_dump_query.  Its result is not looked at by do_meta_command.
SchemaQuery ==
    /\ cmd = "schema" /\ dump.queries # <<>>
    /\ \/ /\ ReadBegin(shell, "ok")
          /\ dump' = [Seen(dump) EXCEPT !.left = Head(dump.queries),
                                        !.queries = Tail(@), !.again = FALSE]
          /\ cmd' = "rows"
       \/ /\ ReadBegin(shell, "busy")
          /\ dump' = [dump EXCEPT !.queries = Tail(@), !.failed = TRUE]
          /\ UNCHANGED cmd
    /\ UNCHANGED <<importVars, text, ended, copyVars>>

\* nErr is only compared with 0, and stops at 1.  What is printed is kept as long
\* as the dump may still be taken for a good one: no error counted, and its
\* transaction not lost.
Entry(put, t, rows) == <<[put |-> put, table |-> t, rows |-> rows]>>
Prints(entries) ==
    text' = IF dump'.nErr = 0 /\ ~dump'.lost THEN text \o entries ELSE <<>>

\* dump_callback for one table of sqlite_master.  A table query that fails part
\* of the way is an error of the dump; a corrupt table is read once more, from
\* its other end, and what this second query returns is not looked at; a failing
\* disk ends the transaction, and with it the schema query.
DumpTable ==
    LET t == Head(dump.left)
        all == RowsIn(Visible, t)
        next == [dump EXCEPT !.left = Tail(@)]
        Skip == UNCHANGED <<db, cmd>>
    IN  /\ cmd = "rows" /\ dump.left # <<>>
        /\ \/ /\ Kind[t] = "internal"
              /\ Skip /\ dump' = next /\ UNCHANGED text
           \/ /\ Kind[t] = "virtual" /\ Skip
              /\ dump' = [next EXCEPT !.writableSchema = TRUE]
              /\ Prints((IF dump.writableSchema THEN <<>> ELSE Entry("on", t, {}))
                        \o Entry("virtual", t, {}))
           \/ /\ Kind[t] \notin {"internal", "virtual"}
              /\ \/ /\ Skip /\ dump' = next
                    /\ Prints(Entry("rows", t, all))
                 \/ /\ Skip /\ dump' = [next EXCEPT !.nErr = 1]
                    /\ Prints(Entry("part", t, {}))
                 \/ /\ Skip /\ dump' = [next EXCEPT !.nErr = 1]     \* SQLITE_CORRUPT
                    /\ Prints(Entry("part", t, {}) \o Entry("rows", t, all))
                 \/ /\ ReadAbort(shell) /\ cmd' = "schema"         \* SQLITE_IOERR
                    /\ dump' = [next EXCEPT !.nErr = 1, !.left = <<>>,
                                            !.failed = TRUE, !.lost = TRUE]
                    /\ Prints(Entry("part", t, {}))
        /\ UNCHANGED <<importVars, ended, copyVars>>

Backwards(s) == [i \in 1..Len(s) |-> s[Len(s) + 1 - i]]

\* What dump_callback has printed of a table when it cannot get the table's columns:
\* the CREATE of an ordinary one, the ANALYZE of sqlite_stat1.
Bare(t) == IF Kind[t] \in {"table", "stat1"} THEN Entry("bare", t, {}) ELSE <<>>

\* Neither dump_callback nor do_meta_command counts it.
Aborts == dump' = [dump EXCEPT !.left = <<>>, !.failed = TRUE]

\* The schema query itself fails: dump_callback cannot read PRAGMA table_info of
\* the next table, Ctrl-C, a corrupt page or a failing disk.  Only the corrupt
\* page is reported, and the query is run again backwards.
SchemaFails ==
    /\ cmd = "rows"
    /\ \/ /\ ReadEnd(shell)
          /\ Aborts
          /\ cmd' = "schema"
          /\ \/ Prints(<<>>)
             \/ dump.left # <<>> /\ Prints(Bare(Head(dump.left)))
       \/ /\ ~dump.again
          /\ LET ran == Len(dump.asked) - Len(dump.queries)
             IN dump' = [dump EXCEPT !.left = Backwards(dump.asked[ran]),
                                     !.again = TRUE, !.failed = TRUE]
          /\ Prints(<<>>)
          /\ UNCHANGED <<db, cmd>>
       \/ /\ ReadAbort(shell)
          /\ dump' = [dump EXCEPT !.left = <<>>, !.failed = TRUE, !.lost = TRUE]
          /\ cmd' = "schema"
          /\ Prints(<<>>)
    /\ UNCHANGED <<importVars, ended, copyVars>>

SchemaDone ==
    /\ cmd = "rows" /\ dump.left = <<>>
    /\ ReadEnd(shell)
    /\ cmd' = "schema"
    /\ UNCHANGED <<importVars, dumpVars, copyVars>>

\* run_table_dump_query for the indexes, triggers and views counts its errors; a
\* failing disk ends the transaction here too.
IndexQuery ==
    /\ cmd = "schema" /\ dump.queries = <<>>
    /\ \/ /\ ReadAll(shell, "ok")
          /\ \E e \in BOOLEAN : dump' = [Seen(dump) EXCEPT !.nErr = IF e THEN 1 ELSE @]
       \/ /\ ReadAll(shell, "busy")
          /\ dump' = [dump EXCEPT !.nErr = 1]
       \/ /\ ReadAbort(shell)
          /\ dump' = [dump EXCEPT !.nErr = 1, !.lost = TRUE]
    /\ cmd' = "release"
    /\ Prints(<<>>)
    /\ UNCHANGED <<importVars, ended, copyVars>>

\* Mutant: the savepoint is not released after an error.
ClosesUnlessError ==
    IF dump.nErr > 0 THEN UNCHANGED db ELSE \E r \in Code : Release(shell, dump.opened, r)

Closes == \E r \in Code : Release(shell, dump.opened, r)

DumpEnd ==
    /\ cmd = "release"
    /\ Closes
    /\ ended' = IF dump.nErr > 0 THEN "ROLLBACK" ELSE "COMMIT"
    /\ dump' = [dump EXCEPT !.writableSchema = FALSE]
    /\ Prints(IF dump.writableSchema THEN Entry("off", Head(Schema), {}) ELSE <<>>)
    /\ cmd' = "idle"
    /\ UNCHANGED <<importVars, copyVars>>

-----------------------------------------------------------------------------
(* .backup ?DB? FILE and .restore ?DB? FILE.  The file's other users may lock  *)
(* it at any time.                                                            *)

CopyBegins(to) ==
    /\ cmd = "idle"
    /\ cmd' = to
    /\ NoResults
    /\ UNCHANGED <<db, importVars>>

BackupBegin == CopyBegins("backup")
\* sqlite3_backup_init with a destination that has a transaction open is a
\* misuse of the library, which does not say what comes of it.
RestoreBegin == auto[shell] /\ CopyBegins("restore")

CopyEnds(said) ==
    /\ cmd' = "idle"
    /\ told' = said

\* sqlite3_backup_step copies some pages, here those of a table; it starts over
\* when somebody has written the source since the last step.
CopyStep(from) ==
    LET again == copied > 0 /\ from # source
        kept == IF again THEN 0 ELSE copied
    IN  /\ copied' = kept + 1
        /\ pages' = (IF again THEN {} ELSE pages) \cup RowsIn(from, Schema[kept + 1])
        /\ source' = from
AllCopied == copied' = Len(Schema)

\* Mutant: the loop ends with the first OK, and OK is no error.
BackupStepOnce ==
    /\ cmd = "backup"
    /\ \/ /\ CanRead(shell) /\ lock[shell] \notin Writing
          /\ CopyStep(disk)
          /\ saved' = IF AllCopied THEN pages' ELSE saved
          /\ CopyEnds("ok")
       \/ /\ CopyEnds("failed")
          /\ UNCHANGED <<saved, copied, pages, source>>
    /\ UNCHANGED <<db, importVars, dumpVars, nTimeout>>

\* Any answer but OK and DONE gives the backup up.
BackupStep ==
    /\ cmd = "backup"
    /\ \/ /\ CanRead(shell) /\ lock[shell] \notin Writing
          /\ CopyStep(disk)
          /\ IF AllCopied
             THEN saved' = pages' /\ CopyEnds("ok")
             ELSE UNCHANGED <<saved, cmd, told>>
       \/ /\ CopyEnds("failed")
          /\ UNCHANGED <<saved, copied, pages, source>>
    /\ UNCHANGED <<db, importVars, dumpVars, nTimeout>>

\* The first step locks the database for as long as the restore lasts.
RestoreStep ==
    /\ cmd = "restore"
    /\ CanFlush(shell)
    /\ CopyStep(saved)
    /\ IF AllCopied
       THEN /\ disk' = pages' /\ lock' = [lock EXCEPT ![shell] = Resting(shell)]
            /\ report' = [j \in Import |-> IF report[j] \in {"none", "loose"} THEN report[j]
                                              ELSE "replaced"]
            /\ CopyEnds("ok")
       ELSE /\ lock' = [lock EXCEPT ![shell] = "pending"]
            /\ UNCHANGED <<disk, report, cmd, told>>
    /\ UNCHANGED <<auto, unsaved, pinned, n, lines, zCommit, file, before,
                   dumpVars, saved, nTimeout>>

RestoreGivesUp ==
    /\ CopyEnds("failed")
    /\ lock' = [lock EXCEPT ![shell] = Resting(shell)]

\* Mutant: the counter stays where it is.
CountsNothing == UNCHANGED nTimeout

Counts == nTimeout' = nTimeout + 1

\* Mutant: the counter is compared with the wrong bound.
OutOfPatienceLate == nTimeout > 4

OutOfPatience == nTimeout >= 3

\* BUSY is met four times before .restore gives up, any other failure once.
RestoreBusy ==
    /\ cmd = "restore"
    /\ Counts
    /\ IF OutOfPatience THEN RestoreGivesUp ELSE UNCHANGED <<cmd, told, lock>>
    /\ UNCHANGED <<disk, auto, unsaved, pinned, importVars, dumpVars,
                   saved, copied, pages, source>>

RestoreError ==
    /\ cmd = "restore"
    /\ RestoreGivesUp
    /\ UNCHANGED <<disk, auto, unsaved, pinned, importVars, dumpVars,
                   saved, copied, pages, source, nTimeout>>

-----------------------------------------------------------------------------
ImportSteps == ImportLine \/ ImportEof \/ ImportEnd
DumpSteps == SchemaQuery \/ DumpTable \/ SchemaDone \/ IndexQuery \/ DumpEnd
CopySteps == BackupStep \/ RestoreStep \/ RestoreBusy
\* What may go wrong at any time, and need not.
Failures == SchemaFails \/ RestoreError

Next ==
    \/ UserSql \/ Killed
    \/ \E c \in Conn \ {shell} : RivalSql(c) \/ RivalReadEnd(c)
    \/ ImportBegin \/ DumpBegin \/ BackupBegin \/ RestoreBegin
    \/ ImportSteps \/ DumpSteps \/ CopySteps \/ Failures

Spec == Init /\ [][Next]_vars
\* A command that has begun goes on, whatever other connections do.
FairSpec == Spec /\ WF_vars(ImportSteps \/ DumpSteps \/ CopySteps)

-----------------------------------------------------------------------------
TypeOK ==
    /\ DbType
    /\ cmd \in Commands
    /\ n \in 0..MaxImports
    /\ lines \in Seq(Key \cup {Short})
    /\ zCommit \in {"COMMIT", "ROLLBACK"}
    /\ file \in [Import -> Seq(Key \cup {Short})]
    /\ report \in [Import -> Reports]
    /\ before \in SUBSET Row
    /\ ended \in {"none", "COMMIT", "ROLLBACK"}
    /\ saved \in SUBSET Row /\ pages \in SUBSET Row /\ source \in SUBSET Row
    /\ copied \in 0..Len(Schema)
    /\ nTimeout \in 0..4
    /\ told \in {"none", "ok", "failed"}

RowsOf(j) == {<<j, k>> : k \in KeysOf(file[j])}
Of(rows, j) == {r \in rows : r[1] = j}

\* An .import happens entirely or not at all, in the database and in a backup of
\* it: whatever line fails, whoever else writes, also inside the transaction the
\* user left open, and when the shell dies on the way.  The exception is an import
\* whose BEGIN failed with no transaction open: it may stop half-way.
ImportAtomic ==
    \A j \in Import : \A rows \in {disk, saved} :
        report[j] # "loose" => Of(rows, j) \in {{}, RowsOf(j)}

\* What .import tells its user stays true, unless its BEGIN failed with no
\* transaction open.  After a failure, or when the shell died, nothing of the file
\* is in the database or pending; after a success all of it is committed, unless
\* the COMMIT, whose result is dropped, was BUSY or failed.
ImportReport ==
    \A j \in Import :
        /\ report[j] \in {"failed", "killed"} => Of(Visible, j) = {}
        /\ report[j] = "ok" => RowsOf(j) \subseteq disk

\* An .import inside the user's transaction ends that transaction: with the
\* file's rows the user's own pending ones are committed, or lost.  Only a BUSY
\* COMMIT leaves it open, and then with everything in it.
ImportEndsTransaction ==
    [][\A j \in Import :
          report[j] = "running" /\ report'[j] \in {"ok", "hollow", "failed"} =>
              \/ auto'[shell] /\ before \cap Visible' = {}
              \/ auto'[shell] /\ before \subseteq disk' /\ report'[j] = "ok"
              \/ /\ ~auto'[shell] /\ report'[j] = "hollow"
                 /\ before \cup RowsOf(j) \subseteq unsaved'[shell]]_vars

Ideal(t) == [put |-> IF Kind[t] = "virtual" THEN "virtual" ELSE "rows", table |-> t,
             rows |-> IF Kind[t] = "virtual" THEN {} ELSE RowsIn(dump.snap, t)]
Puts == [put : {"rows", "part", "bare", "virtual"}, table : Table, rows : SUBSET Row]
Printed == Where(text, Puts)
Listed == {t \in Table : Kind[t] # "internal"}
Asked == IF Len(dump.asked) = 1 THEN dump.asked[1] ELSE dump.asked[1] \o dump.asked[2]

\* A dump that ends in COMMIT is one snapshot of the database: its tables, those
\* of the second query too, hold the rows there were at its first read, whatever
\* other connections commit meanwhile, and it opens and closes the writable
\* schema once.  It is the whole database unless a query of sqlite_master failed:
\* only then do tables go missing, appear twice or have a CREATE without their
\* rows, and no ROLLBACK says so.  Nothing is said of a dump with no transaction
\* around it, because its SAVEPOINT failed or a query of sqlite_master met a
\* failing disk: it too may end in COMMIT.
DumpHonest ==
    ended = "COMMIT" /\ ~dump.lost =>
        /\ \A i \in DOMAIN Printed :
              \/ Printed[i] = Ideal(Printed[i].table)
              \/ dump.failed /\ Printed[i].put = "bare"
        /\ \A put \in {"on", "off"} :
              Cardinality({i \in DOMAIN text : text[i].put = put}) =
              IF \E i \in DOMAIN text : text[i].put = "virtual" THEN 1 ELSE 0
        /\ ~dump.failed =>
              LET want == Where(Asked, Listed)
              IN  Printed = [i \in DOMAIN want |-> Ideal(want[i])]

\* After a dump the connection is as it was: the user's transaction still open if
\* there was one, and otherwise neither a transaction nor a lock left.  The
\* exception is a failing disk: it ends the user's transaction too, and still no
\* lock is left.
DumpLeavesNoTrace ==
    ended # "none" /\ cmd = "idle" =>
        /\ auto[shell] <=> (dump.opened \/ dump.lost)
        /\ auto[shell] => lock[shell] = "none"

\* .backup and .restore copy one state of their source or leave the target alone,
\* although the source is not locked between two steps.
CopyFaithful ==
    [][/\ saved' # saved => cmd = "backup" /\ told' = "ok" /\ saved' = disk
       /\ cmd = "restore" /\ copied > 0 /\ disk' # disk => told' = "ok" /\ disk' = saved
       /\ told # "ok" /\ told' = "ok" => saved' = disk']_vars

\* .import, .dump and .restore come to an end, also when another connection keeps
\* its lock for ever.
CommandEnds == cmd \in Commands \ {"idle", "backup"} ~> cmd = "idle"
=============================================================================
