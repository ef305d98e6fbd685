-------------------------- MODULE ShellDataProofs --------------------------
(***************************************************************************)
(* Proofs about ShellData, for any number of connections, imports, tables,   *)
(* keys and files.                                                           *)
(***************************************************************************)
EXTENDS ShellData, DataProofs, FiniteSetTheorems

Importing == cmd \in {"import", "commit"}
Dumping == cmd \in {"schema", "rows", "release"}
Copying == cmd \in {"backup", "restore"}

-----------------------------------------------------------------------------
(* The inductive invariant.                                                  *)

\* The shell never loses a statement handle; what it has pending is not on disk;
\* no rival writes as the shell; and a connection at rest holds no lock.
Engine ==
    /\ pinned = {}
    /\ \A c \in Conn : auto[c] => unsaved[c] = {}
    /\ \A c \in Conn \ {shell} : unsaved[c] # {} => lock[c] \in Writing
    /\ \A c \in Conn \ {shell} : \A r \in unsaved[c] : r[1] = Rival
    /\ \A r \in unsaved[shell] : r[1] # Rival /\ r \notin disk
    /\ auto[shell] /\ cmd \notin {"restore", "rows"} => lock[shell] = "none"

\* Imports are numbered as they come, and the last one may be running.
Jobs ==
    /\ Importing => n \in Import /\ report[n] \in {"running", "loose"}
    /\ \A j \in Import : report[j] = "running" => Importing /\ j = n
    /\ \A j \in Import : n < j => report[j] = "none"

NoneYet(rows) == \A r \in rows : r[1] \in Import => r[1] <= n
Whole(rows, j) == Of(rows, j) \in {{}, RowsOf(j)}

\* Where the rows of import j are, unless it runs in no transaction.
Rows ==
    /\ NoneYet(disk) /\ NoneYet(saved) /\ NoneYet(unsaved[shell])
    /\ \A j \in Import : report[j] # "loose" =>
          /\ Whole(disk, j) /\ Whole(saved, j)
          /\ report[j] # "running" => Whole(unsaved[shell], j)
          /\ report[j] \in {"running", "failed", "killed"} => Of(disk, j) = {}
          /\ report[j] \in {"failed", "killed"} => Of(unsaved[shell], j) = {}
          /\ report[j] = "ok" => RowsOf(j) \subseteq disk

\* As long as the running import means to commit, all lines it has read are
\* pending, and so is what was pending before.  (A loose import has no such duty.)
Progress ==
    /\ cmd = "import" => zCommit = "COMMIT"
    /\ cmd = "commit" /\ zCommit = "COMMIT" => lines = <<>>
    /\ Importing /\ report[n] = "running" /\ zCommit = "COMMIT" =>
          /\ ~auto[shell]
          /\ RowsOf(n) = Of(unsaved[shell], n) \cup {<<n, k>> : k \in KeysOf(lines)}
          /\ before \subseteq unsaved[shell]
    /\ Importing /\ report[n] = "running" =>
          before \cap disk = {} /\ \A r \in before : r[1] # Rival

\* A copy holds the tables copied so far, as they were in one state of the source.
Copied ==
    /\ Copying => copied < Len(Schema)
    /\ copied = 0 => pages = {}
    /\ copied > 0 =>
          pages = {r \in source : \E i \in 1..copied : Schema[i] = TableOf[r[2]]}
    /\ cmd = "restore" =>
          /\ auto[shell] /\ nTimeout <= 3
          /\ copied > 0 => lock[shell] = "pending"

\* A dump that did not lose its transaction runs in one, and holds at most the lock
\* of a reader if it opened it; one that did runs in none.
Snapshot ==
    /\ DOMAIN dump = DOMAIN NoDump /\ dump.opened \in BOOLEAN
    /\ ended # "none" => cmd = "idle"
    /\ Dumping /\ ~dump.lost =>
          /\ ~auto[shell]
          /\ dump.opened => lock[shell] \in {"none", "shared"}
    /\ Dumping /\ dump.lost => auto[shell]
    /\ DumpLeavesNoTrace

Inv == TypeOK /\ Engine /\ Jobs /\ Rows /\ Progress /\ Copied /\ Snapshot

-----------------------------------------------------------------------------
(* What the shell's statements do to its rows.                               *)

Keeps == disk' = disk /\ unsaved'[shell] = unsaved[shell]
Loses == disk' = disk /\ unsaved'[shell] = {} /\ auto'[shell]
Stores == disk' = disk \cup unsaved[shell] /\ unsaved'[shell] = {} /\ auto'[shell]
Adds(r) ==
    /\ r \notin disk
    /\ \/ auto[shell] /\ disk' = disk \cup {r} /\ unsaved'[shell] = unsaved[shell]
       \/ ~auto[shell] /\ disk' = disk /\ unsaved'[shell] = unsaved[shell] \cup {r}

\* What holds of the engine between two statements, whatever the command.
Settled ==
    /\ DbType /\ pinned = {}
    /\ \A c \in Conn : auto[c] => unsaved[c] = {}
    /\ auto[shell] => lock[shell] = "none"
OthersKept == \A c \in Conn \ {shell} : unsaved'[c] = unsaved[c] /\ lock'[c] = lock[c]

\* A transaction of the shell ends.
LEMMA Ended ==
    ASSUME Settled, EndsTransaction(shell), pinned' = {}, disk' \in SUBSET Row
    PROVE  Settled' /\ OthersKept /\ unsaved'[shell] = {} /\ auto'[shell]
BY ShellDataAssumption DEF ShellDataAssumption, Settled, DbType, EndsTransaction, OthersKept,
   Resting, Lock

LEMMA BeginEffect ==
    ASSUME Settled, NEW r, Begin(shell, r)
    PROVE  /\ Settled' /\ OthersKept /\ Keeps /\ lock' = lock
           /\ auto'[shell] = (auto[shell] /\ r = "error")
BY ShellDataAssumption DEF ShellDataAssumption, Settled, DbType, Begin, db, OthersKept, Keeps

LEMMA EndEffect ==
    ASSUME Settled, NEW r \in Code, End(shell, r)
    PROVE  /\ Settled' /\ OthersKept
           /\ r = "ok" => Stores
           /\ r = "busy" => Keeps /\ ~auto'[shell] /\ lock[shell] \in Writing
           /\ r = "error" =>
                 \/ Keeps /\ auto[shell] /\ auto'[shell]
                 \/ Loses /\ lock[shell] \in Writing
<1>1. shell \in Conn
  BY ShellDataAssumption DEF ShellDataAssumption
<1>2. CASE auto[shell]
  BY <1>1, <1>2 DEF Settled, DbType, End, db, OthersKept, Keeps
<1>3. CASE ~auto[shell] /\ r = "busy"
  BY <1>1, <1>3 DEF Settled, DbType, End, OthersKept, Keeps, Lock
<1>4. CASE ~auto[shell] /\ r # "busy"
  <2>1. EndsTransaction(shell) /\ pinned' = {}
    BY <1>4 DEF End, Settled
  <2>2. disk' = IF r = "ok" THEN disk \cup unsaved[shell] ELSE disk
    BY <1>4 DEF End, Code
  <2>3. r # "ok" => lock[shell] \in Writing
    BY <1>4 DEF End
  <2> QED
    BY <1>1, <1>4, <2>1, <2>2, <2>3, Ended DEF Settled, Loses, Stores, Code, DbType
<1> QED
  BY <1>2, <1>3, <1>4

LEMMA RollbackEffect ==
    ASSUME Settled, NEW r \in Code, Rollback(shell, r)
    PROVE  Settled' /\ OthersKept /\ ((Keeps /\ auto[shell] /\ auto'[shell]) \/ Loses)
BY Ended DEF Settled, DbType, Rollback, db, OthersKept, Keeps, Loses

LEMMA WriteEffect ==
    ASSUME Settled, NEW t \in Tag, NEW k \in Key, NEW r \in Code, Write(shell, t, k, r)
    PROVE  /\ Settled' /\ OthersKept
           /\ r = "ok" => Adds(<<t, k>>) /\ auto' = auto
           /\ r # "ok" => (Keeps /\ auto' = auto) \/ Loses
<1>1. k \notin Keys(disk \cup unsaved[shell]) => <<t, k>> \notin disk
  BY DEF Keys
<1>2. <<t, k>> \in Row
  BY DEF Row
<1>3. shell \in Conn
  BY ShellDataAssumption DEF ShellDataAssumption
<1>4. CASE EndsTransaction(shell) /\ r = "error" /\ UNCHANGED <<disk, pinned>>
  BY <1>4, Ended DEF Settled, Loses, DbType
<1>5. CASE UNCHANGED <<disk, auto, unsaved, pinned>> /\ r # "ok"
           /\ (lock' = lock \/ lock' = [lock EXCEPT ![shell] =
                  IF auto[shell] \/ lock[shell] = "pending" THEN @ ELSE "reserved"])
  BY <1>3, <1>5 DEF Settled, DbType, OthersKept, Keeps, Lock
<1>6. CASE r = "ok"
  <2>1. /\ UNCHANGED <<auto, pinned>> /\ <<t, k>> \notin disk
        /\ lock' = [lock EXCEPT ![shell] =
               IF auto[shell] \/ lock[shell] = "pending" THEN @ ELSE "reserved"]
    BY <1>1, <1>6 DEF Write
  <2>2. CASE auto[shell]
    <3>1. disk' = disk \cup {<<t, k>>} /\ unsaved' = unsaved
      BY <1>6, <2>2 DEF Write
    <3> QED
      BY <1>2, <1>3, <1>6, <2>1, <2>2, <3>1 DEF Settled, DbType, OthersKept, Adds, Lock
  <2>3. CASE ~auto[shell]
    <3>1. disk' = disk /\ unsaved' = [unsaved EXCEPT ![shell] = @ \cup {<<t, k>>}]
      BY <1>6, <2>3 DEF Write
    <3> QED
      BY <1>2, <1>3, <1>6, <2>1, <2>3, <3>1 DEF Settled, DbType, OthersKept, Adds, Lock
  <2> QED
    BY <2>2, <2>3
<1> QED
  BY <1>4, <1>5, <1>6 DEF Write, db

LEMMA ReadBeginEffect ==
    ASSUME DbType, NEW r, ReadBegin(shell, r)
    PROVE  /\ DbType' /\ pinned' = pinned /\ auto' = auto /\ unsaved' = unsaved /\ disk' = disk
           /\ lock'[shell] = IF r = "ok" /\ lock[shell] = "none" THEN "shared" ELSE lock[shell]
BY ShellDataAssumption DEF ShellDataAssumption, DbType, ReadBegin, db, Lock

\* What is left to show of Engine when a statement of the shell is done.
LEMMA EngineAfter ==
    ASSUME Engine, Settled', OthersKept,
           \A r \in unsaved'[shell] : r[1] # Rival /\ r \notin disk'
    PROVE  Engine'
BY DEF Engine, Settled, OthersKept

LEMMA SettledNow ==
    ASSUME Inv, cmd \notin {"restore", "rows"}
    PROVE  Settled
BY DEF Inv, TypeOK, Engine, Settled

LEMMA Tags == /\ shell \in Conn /\ User \in Tag /\ Rival \in Tag
              /\ User \notin Import /\ Rival \notin Import /\ User # Rival
              /\ Import \subseteq Tag
BY ShellDataAssumption DEF ShellDataAssumption

\* Rows written by the user or a rival are of no import.
LEMMA OfUnion ==
    ASSUME NEW j, NEW a, NEW b
    PROVE  Of(a \cup b, j) = Of(a, j) \cup Of(b, j)
BY DEF Of

\* A statement of the shell while no import runs.
LEMMA QuietRows ==
    ASSUME Inv, ~Importing, ~Importing', UNCHANGED <<n, file, report, saved>>,
           Keeps \/ Loses \/ Stores \/ (\E k \in Key : Adds(<<User, k>>))
    PROVE  /\ Jobs' /\ Rows' /\ Progress'
           /\ \A r \in unsaved'[shell] : r[1] # Rival /\ r \notin disk'
<1>1. Jobs' /\ Progress'
  BY DEF Inv, Jobs, Progress, Importing
<1>2. \A j \in Import : RowsOf(j)' = RowsOf(j) /\ report[j] # "running"
  BY DEF RowsOf, Inv, Jobs
<1>3. \A j \in Import : Of({}, j) = {}
  BY DEF Of
<1>4. \A r \in unsaved[shell] : r[1] # Rival /\ r \notin disk
  BY DEF Inv, Engine
<1>5. CASE Keeps
  <2>1. Rows'
    BY <1>2, <1>5 DEF Inv, Rows, Keeps, NoneYet, Whole
  <2> QED
    BY <1>1, <1>4, <1>5, <2>1 DEF Keeps
<1>6. CASE Loses
  <2>1. Rows'
    BY <1>2, <1>3, <1>6 DEF Inv, Rows, Loses, NoneYet, Whole
  <2> QED
    BY <1>1, <1>6, <2>1 DEF Loses
<1>7. CASE Stores
  <2>1. \A j \in Import : Of(disk', j) = Of(disk, j) \cup Of(unsaved[shell], j)
    BY <1>7, OfUnion DEF Stores
  <2>2. Rows'
    <3>1. NoneYet(disk)' /\ NoneYet(saved)' /\ NoneYet(unsaved[shell])'
      BY <1>7 DEF Inv, Rows, Stores, NoneYet
    <3>2. ASSUME NEW j \in Import, report[j] # "loose"
          PROVE  /\ Whole(disk, j)' /\ Whole(saved, j)' /\ Whole(unsaved[shell], j)'
                 /\ report[j] \in {"failed", "killed"} => Of(disk, j)' = {}
                 /\ Of(unsaved[shell], j)' = {}
                 /\ report[j] = "ok" => RowsOf(j) \subseteq disk'
      <4>1. Of(unsaved'[shell], j) = {} /\ RowsOf(j)' = RowsOf(j)
        BY <1>2, <1>3, <1>7 DEF Stores
      <4>2. /\ Whole(disk, j) /\ Whole(unsaved[shell], j) /\ Whole(saved, j)
            /\ report[j] \in {"failed", "killed"} => Of(disk, j) = {} /\ Of(unsaved[shell], j) = {}
            /\ report[j] = "ok" => RowsOf(j) \subseteq disk
        BY <1>2, <3>2 DEF Inv, Rows
      <4> QED
        BY <1>7, <2>1, <4>1, <4>2 DEF Whole, Stores
    <3> QED
      BY <1>2, <3>1, <3>2 DEF Rows
  <2> QED
    BY <1>1, <1>7, <2>2 DEF Stores
<1>8. ASSUME NEW k \in Key, Adds(<<User, k>>)
      PROVE  Rows' /\ \A r \in unsaved'[shell] : r[1] # Rival /\ r \notin disk'
  <2>1. \A j \in Import : Of({<<User, k>>}, j) = {}
    BY Tags DEF Of
  <2>2. \A j \in Import : /\ Of(disk', j) = Of(disk, j)
                          /\ Of(unsaved'[shell], j) = Of(unsaved[shell], j)
    <3>1. \A j \in Import : /\ Of(disk \cup {<<User, k>>}, j) = Of(disk, j)
                            /\ Of(unsaved[shell] \cup {<<User, k>>}, j) = Of(unsaved[shell], j)
      BY <2>1, OfUnion
    <3> QED
      BY <1>8, <3>1 DEF Adds
  <2>3. NoneYet(disk)' /\ NoneYet(unsaved[shell])' /\ disk \subseteq disk'
    BY <1>8, Tags DEF Adds, NoneYet, Inv, Rows
  <2>4. Rows'
    BY <1>2, <2>2, <2>3 DEF Inv, Rows, NoneYet, Whole
  <2>5. \A r \in unsaved'[shell] : r[1] # Rival /\ r \notin disk'
    <3>1. CASE auto[shell]
      BY <1>8, <3>1, Tags DEF Inv, Engine, Adds
    <3>2. CASE ~auto[shell]
      BY <1>4, <1>8, <3>2, Tags DEF Adds
    <3> QED
      BY <3>1, <3>2
  <2> QED
    BY <2>4, <2>5
<1> QED
  BY <1>1, <1>5, <1>6, <1>7, <1>8

\* A statement of a rival.
LEMMA RivalEffect ==
    ASSUME Inv, NEW c \in Conn \ {shell}, RivalSql(c) \/ RivalReadEnd(c)
    PROVE  /\ DbType' /\ pinned' = {}
           /\ auto'[shell] = auto[shell] /\ lock'[shell] = lock[shell]
           /\ unsaved'[shell] = unsaved[shell]
           /\ \A d \in Conn : auto'[d] => unsaved'[d] = {}
           /\ \A d \in Conn \ {shell} : \A r \in unsaved'[d] : r[1] = Rival
           /\ disk \subseteq disk' /\ \A r \in disk' : r \in disk \/ r[1] = Rival
<1>1. /\ DbType /\ pinned = {} /\ c \in Conn /\ shell \in Conn /\ c # shell /\ Rival \in Tag
      /\ \A d \in Conn : auto[d] => unsaved[d] = {}
      /\ \A d \in Conn \ {shell} : \A r \in unsaved[d] : r[1] = Rival
  BY Tags DEF Inv, TypeOK, Engine
<1>2. CASE UNCHANGED db
  BY <1>1, <1>2 DEF db, DbType
<1>3. CASE /\ UNCHANGED <<disk, unsaved, pinned>>
           /\ \/ auto' = auto /\ (ReadEnd(c) \/ \E z \in Lock : lock' = [lock EXCEPT ![c] = z])
              \/ auto' = [auto EXCEPT ![c] = FALSE] /\ lock' = lock
  BY <1>1, <1>3 DEF DbType, ReadEnd, Resting, Lock
<1>4. CASE EndsTransaction(c) /\ UNCHANGED pinned /\ (disk' = disk \/ disk' = disk \cup unsaved[c])
  BY <1>1, <1>4 DEF DbType, EndsTransaction, Resting, Lock
<1>5. ASSUME NEW k \in Key, NEW r \in Code, Write(c, Rival, k, r),
             ~(EndsTransaction(c) /\ UNCHANGED <<disk, pinned>>)
      PROVE  /\ UNCHANGED <<auto, pinned>> /\ lock'[shell] = lock[shell] /\ lock' \in [Conn -> Lock]
             /\ \/ UNCHANGED <<disk, unsaved>>
                \/ disk' = disk \cup {<<Rival, k>>} /\ UNCHANGED unsaved
                \/ ~auto[c] /\ UNCHANGED disk
                   /\ unsaved' = [unsaved EXCEPT ![c] = @ \cup {<<Rival, k>>}]
  BY <1>1, <1>5 DEF Write, db, DbType, Lock
<1>6. ASSUME NEW k \in Key, NEW r \in Code, Write(c, Rival, k, r),
             ~(EndsTransaction(c) /\ UNCHANGED <<disk, pinned>>)
      PROVE  /\ DbType' /\ pinned' = {}
             /\ auto'[shell] = auto[shell] /\ lock'[shell] = lock[shell]
             /\ unsaved'[shell] = unsaved[shell]
             /\ \A d \in Conn : auto'[d] => unsaved'[d] = {}
             /\ \A d \in Conn \ {shell} : \A q \in unsaved'[d] : q[1] = Rival
             /\ disk \subseteq disk' /\ \A q \in disk' : q \in disk \/ q[1] = Rival
  <2>1. <<Rival, k>> \in Row /\ <<Rival, k>>[1] = Rival
    BY <1>1 DEF Row
  <2> QED
    BY <1>1, <1>5, <1>6, <2>1 DEF DbType
<1>7. ASSUME NEW r \in Code, Begin(c, r) \/ End(c, r) \/ Rollback(c, r) \/ ReadBegin(c, r)
      PROVE  \/ UNCHANGED db
             \/ EndsTransaction(c) /\ UNCHANGED pinned
                /\ (disk' = disk \/ disk' = disk \cup unsaved[c])
             \/ /\ UNCHANGED <<disk, unsaved, pinned>>
                /\ \/ auto' = auto /\ \E z \in Lock : lock' = [lock EXCEPT ![c] = z]
                   \/ auto' = [auto EXCEPT ![c] = FALSE] /\ lock' = lock
  <2>1. lock[c] \in Lock /\ "shared" \in Lock /\ "pending" \in Lock
    BY <1>1 DEF DbType, Lock
  <2> QED
    BY <1>7, <2>1 DEF Begin, End, Rollback, ReadBegin, db
<1>8. CASE ReadEnd(c)
  BY <1>3, <1>8 DEF ReadEnd
<1>9. Rival \in {User, Rival} /\ Writes[Rival] \subseteq Key
  BY ShellDataAssumption DEF ShellDataAssumption
<1> QED
  BY <1>2, <1>3, <1>4, <1>6, <1>7, <1>8, <1>9 DEF RivalSql, RivalReadEnd

\* A rival has rows pending only under a writer's lock, and commits nothing past a lock
\* of the shell.
LEMMA RivalLocks ==
    ASSUME Inv, NEW c \in Conn \ {shell}, RivalSql(c) \/ RivalReadEnd(c)
    PROVE  /\ \A d \in Conn \ {shell} : unsaved'[d] # {} => lock'[d] \in Writing
           /\ lock[shell] # "none" => disk' = disk
<1>1. /\ DbType /\ c \in Conn /\ shell \in Conn /\ c # shell
      /\ \A d \in Conn : auto[d] => unsaved[d] = {}
      /\ \A d \in Conn \ {shell} : unsaved[d] # {} => lock[d] \in Writing
  BY Tags DEF Inv, TypeOK, Engine
<1>2. lock[shell] # "none" => ~CanFlush(c)
  BY <1>1 DEF CanFlush, Others
<1>3. CASE UNCHANGED <<disk, unsaved>> /\ lock' = lock
  BY <1>1, <1>3
<1>4. CASE /\ EndsTransaction(c)
           /\ \/ disk' = disk
              \/ disk' = disk \cup unsaved[c] /\ (lock[c] \in Writing => CanFlush(c))
  BY <1>1, <1>2, <1>4 DEF EndsTransaction, DbType
<1>5. CASE /\ UNCHANGED <<disk, unsaved>>
           /\ \E z \in Lock : /\ lock' = [lock EXCEPT ![c] = z]
                              /\ z \in Writing \/ unsaved[c] = {}
  BY <1>1, <1>5 DEF DbType
<1>6. ASSUME NEW r \in Code, Begin(c, r) \/ End(c, r) \/ Rollback(c, r)
      PROVE  \/ UNCHANGED <<disk, unsaved>> /\ lock' = lock
             \/ /\ EndsTransaction(c)
                /\ \/ disk' = disk
                   \/ disk' = disk \cup unsaved[c] /\ (lock[c] \in Writing => CanFlush(c))
             \/ UNCHANGED <<disk, unsaved>> /\ lock' = [lock EXCEPT ![c] = "pending"]
  BY <1>6 DEF Begin, End, Rollback, db
<1>7. ASSUME NEW r \in Code, ReadBegin(c, r)
      PROVE  UNCHANGED <<disk, unsaved>> /\
             \E z \in Lock : /\ lock' = [lock EXCEPT ![c] = z]
                             /\ z \in Writing \/ unsaved[c] = {}
  <2>1. lock = [lock EXCEPT ![c] = lock[c]] /\ lock[c] \in Lock
    BY <1>1 DEF DbType
  <2>2. lock[c] = "none" => unsaved[c] = {}
    BY <1>1 DEF Writing
  <2>3. lock[c] \in Writing \/ unsaved[c] = {}
    BY <1>1
  <2> QED
    BY <1>7, <2>1, <2>2, <2>3 DEF ReadBegin, db, Lock
<1>8. ASSUME NEW k \in Key, NEW r \in Code, Write(c, Rival, k, r)
      PROVE  /\ \A d \in Conn \ {shell} : unsaved'[d] # {} => lock'[d] \in Writing
             /\ lock[shell] # "none" => disk' = disk
  <2>1. CASE EndsTransaction(c) /\ disk' = disk
    BY <1>4, <2>1
  <2>2. CASE auto[c] /\ CanFlush(c) /\ UNCHANGED unsaved /\ lock' = [lock EXCEPT ![c] = lock[c]]
    BY <1>1, <1>2, <2>2 DEF DbType
  <2>3. CASE ~auto[c] /\ disk' = disk /\ \E z \in Writing : lock' = [lock EXCEPT ![c] = z]
             /\ \A d \in Conn \ {c} : unsaved'[d] = unsaved[d]
    BY <1>1, <2>3 DEF DbType
  <2>4. "reserved" \in Writing /\ "pending" \in Writing
    BY DEF Writing
  <2>5. CASE auto[c] /\ ~(EndsTransaction(c) /\ disk' = disk)
    BY <1>1, <1>3, <1>8, <2>2, <2>5 DEF Write, db
  <2>6. CASE ~auto[c] /\ ~(EndsTransaction(c) /\ disk' = disk)
    <3>1. CASE UNCHANGED db
      BY <1>3, <3>1 DEF db
    <3>2. CASE lock' = [lock EXCEPT ![c] = IF lock[c] = "pending" THEN lock[c] ELSE "reserved"]
               /\ disk' = disk /\ (UNCHANGED unsaved
                  \/ unsaved' = [unsaved EXCEPT ![c] = @ \cup {<<Rival, k>>}])
      BY <1>1, <2>3, <2>4, <2>6, <3>2 DEF DbType
    <3> QED
      BY <1>8, <2>6, <3>1, <3>2 DEF Write
  <2> QED
    BY <2>1, <2>5, <2>6
<1>9. ReadEnd(c) => UNCHANGED <<disk, unsaved>> /\
         \A d \in Conn \ {shell} : unsaved'[d] # {} => lock'[d] \in Writing
  BY <1>1 DEF ReadEnd, DbType
<1>10. Rival \in {User, Rival} /\ Writes[Rival] \subseteq Key
  BY ShellDataAssumption DEF ShellDataAssumption
<1>11. "pending" \in Lock /\ "pending" \in Writing
  BY DEF Lock, Writing
<1> QED
  BY <1>3, <1>4, <1>5, <1>6, <1>7, <1>8, <1>9, <1>10, <1>11 DEF RivalSql, RivalReadEnd

-----------------------------------------------------------------------------
(* Every step preserves the invariant.                                       *)

LEMMA RivalStep ==
    ASSUME Inv, NEW c \in Conn \ {shell}, RivalSql(c) \/ RivalReadEnd(c)
    PROVE  Inv'
<1>1. UNCHANGED <<cmd, importVars, dumpVars, copyVars>>
  BY DEF RivalSql, RivalReadEnd
<1> USE <1>1 DEF importVars, dumpVars, copyVars
<1>2. /\ DbType' /\ pinned' = {}
      /\ auto'[shell] = auto[shell] /\ lock'[shell] = lock[shell]
      /\ unsaved'[shell] = unsaved[shell]
      /\ \A d \in Conn : auto'[d] => unsaved'[d] = {}
      /\ \A d \in Conn \ {shell} : \A r \in unsaved'[d] : r[1] = Rival
      /\ disk \subseteq disk' /\ \A r \in disk' : r \in disk \/ r[1] = Rival
      /\ \A d \in Conn \ {shell} : unsaved'[d] # {} => lock'[d] \in Writing
  BY RivalEffect, RivalLocks
<1>3. TypeOK'
  BY <1>2 DEF Inv, TypeOK
<1>4. Engine'
  BY <1>2 DEF Inv, Engine
<1>5. Jobs' /\ Copied'
  BY <1>2 DEF Inv, Jobs, Importing, Copied, Copying
<1>6. \A j \in Import : Of(disk', j) = Of(disk, j) /\ RowsOf(j)' = RowsOf(j)
  BY <1>2, Tags DEF Of, RowsOf
<1>7. NoneYet(disk)'
  BY <1>2, Tags DEF Inv, Rows, NoneYet
<1>8. Rows'
  BY <1>2, <1>6, <1>7 DEF Inv, Rows, Whole, NoneYet
<1>9. RowsOf(n)' = RowsOf(n)
  BY DEF RowsOf
<1>10. Progress'
  BY <1>2, <1>9 DEF Inv, Progress, Importing
<1>11. Snapshot'
  BY <1>2 DEF Inv, Snapshot, Dumping, DumpLeavesNoTrace
<1> QED
  BY <1>3, <1>4, <1>5, <1>8, <1>10, <1>11 DEF Inv

\* The rest of the state after NoResults.
LEMMA NewCommand ==
    ASSUME Inv, NoResults, cmd' \notin {"schema", "rows", "release"},
           cmd' = "restore" => auto'[shell], UNCHANGED <<n, lines, zCommit, file, report, before>>,
           DbType', cmd' \in Commands
    PROVE  TypeOK' /\ Copied' /\ Snapshot'
<1>1. copied' = 0 /\ 0 < Len(Schema) /\ Len(Schema) \in Nat
  BY ShellDataAssumption DEF ShellDataAssumption, NoResults, NoCopy
<1>2. TypeOK'
  BY <1>1 DEF Inv, TypeOK, NoResults, NoCopy
<1>3. Copied' /\ Snapshot'
  BY <1>1 DEF NoResults, NoCopy, NoDump, Copied, Copying, Snapshot, Dumping, DumpLeavesNoTrace
<1> QED
  BY <1>2, <1>3

LEMMA UserStep == ASSUME Inv, UserSql PROVE Inv'
<1>1. /\ cmd = "idle" /\ cmd' = "idle" /\ NoResults /\ UNCHANGED importVars
      /\ \E r \in Code : \/ Begin(shell, r)
                         \/ \E k \in Writes[User] : Write(shell, User, k, r)
                         \/ End(shell, r)
                         \/ Rollback(shell, r)
  BY DEF UserSql
<1>2. Settled /\ ~Importing /\ ~Importing'
  BY <1>1, SettledNow DEF Importing
<1>3. /\ Settled' /\ OthersKept
      /\ Keeps \/ Loses \/ Stores \/ (\E k \in Key : Adds(<<User, k>>))
  <2>1. PICK r \in Code : \/ Begin(shell, r)
                          \/ \E k \in Writes[User] : Write(shell, User, k, r)
                          \/ End(shell, r)
                          \/ Rollback(shell, r)
    BY <1>1
  <2>2. CASE Begin(shell, r)
    BY <1>2, <2>2, BeginEffect
  <2>3. CASE End(shell, r)
    BY <1>2, <2>3, EndEffect DEF Code
  <2>4. CASE Rollback(shell, r)
    BY <1>2, <2>4, RollbackEffect
  <2>5. ASSUME NEW k \in Writes[User], Write(shell, User, k, r)
        PROVE  /\ Settled' /\ OthersKept
               /\ Keeps \/ Loses \/ Stores \/ (\E l \in Key : Adds(<<User, l>>))
    <3>1. k \in Key /\ User \in Tag
      BY ShellDataAssumption DEF ShellDataAssumption
    <3> QED
      BY <1>2, <2>5, <3>1, WriteEffect
  <2> QED
    BY <2>1, <2>2, <2>3, <2>4, <2>5
<1>4. /\ Jobs' /\ Rows' /\ Progress'
      /\ \A r \in unsaved'[shell] : r[1] # Rival /\ r \notin disk'
  BY <1>1, <1>2, <1>3, QuietRows DEF importVars, NoResults, NoCopy
<1>5. Engine'
  BY <1>3, <1>4, EngineAfter DEF Inv
<1>6. TypeOK' /\ Copied' /\ Snapshot'
  BY <1>1, <1>3, NewCommand DEF importVars, Settled, Commands
<1> QED
  BY <1>4, <1>5, <1>6 DEF Inv

LEMMA KilledStep == ASSUME Inv, Killed PROVE Inv'
<1>1. /\ Drop(shell) /\ cmd' = "idle" /\ NoResults
      /\ report' = [j \in Import |-> IF report[j] = "running" THEN "killed" ELSE report[j]]
      /\ lines' = <<>> /\ zCommit' = "COMMIT" /\ before' = {} /\ n' = n /\ file' = file
      /\ saved' = saved
  BY DEF Killed, NoResults, NoCopy
<1>2. /\ DbType' /\ pinned' = {} /\ auto'[shell] /\ unsaved'[shell] = {} /\ disk' = disk
      /\ lock'[shell] = "none"
      /\ \A c \in Conn \ {shell} : auto'[c] = auto[c] /\ unsaved'[c] = unsaved[c]
                                  /\ lock'[c] = lock[c]
  BY <1>1, Tags DEF Drop, Inv, TypeOK, Engine, DbType, Lock
<1>3. Engine'
  BY <1>2, Tags DEF Inv, Engine
<1>4. TypeOK'
  BY <1>1, <1>2, ShellDataAssumption
  DEF Inv, TypeOK, NoResults, NoCopy, Commands, Reports, ShellDataAssumption
<1>5. Jobs' /\ Progress' /\ Copied' /\ Snapshot'
  BY <1>1, <1>2 DEF Inv, Jobs, Progress, Importing, Copied, Copying, Snapshot, Dumping,
     DumpLeavesNoTrace, NoResults, NoCopy, NoDump, TypeOK
<1>6. \A j \in Import : RowsOf(j)' = RowsOf(j) /\ Of({}, j) = {}
  BY <1>1 DEF RowsOf, Of
<1>7. Rows'
  BY <1>1, <1>2, <1>6 DEF Inv, Rows, Whole, NoneYet
<1> QED
  BY <1>3, <1>4, <1>5, <1>7 DEF Inv

\* A command that begins, or goes on, without touching a row but those of Keeps or
\* Loses, or its import.
LEMMA SameRows ==
    ASSUME Inv, Keeps \/ Loses, UNCHANGED <<n, file, report, saved>>
    PROVE  /\ Rows'
           /\ \A r \in unsaved'[shell] : r[1] # Rival /\ r \notin disk'
<1>1. \A j \in Import : RowsOf(j)' = RowsOf(j) /\ Of({}, j) = {}
  BY DEF RowsOf, Of
<1>2. disk' = disk /\ (unsaved'[shell] = unsaved[shell] \/ unsaved'[shell] = {})
  BY DEF Keeps, Loses
<1>3. Rows'
  BY <1>1, <1>2 DEF Inv, Rows, Whole, NoneYet
<1> QED
  BY <1>2, <1>3 DEF Inv, Engine

\* While an import runs there is nothing of a dump or a copy.
LEMMA ImportingRest ==
    ASSUME Inv, Importing, UNCHANGED <<dumpVars, copyVars>>,
           cmd' \in {"import", "commit", "idle"}
    PROVE  Copied' /\ Snapshot'
BY DEF Inv, Importing, Copied, Copying, Snapshot, Dumping, DumpLeavesNoTrace, dumpVars, copyVars

LEMMA ImportBeginStep == ASSUME Inv, ImportBegin PROVE Inv'
<1>1. PICK r \in Code :
        /\ Begin(shell, r)
        /\ report' = [report EXCEPT ![n + 1] =
                         IF auto[shell] /\ r = "error" THEN "loose" ELSE "running"]
  BY DEF ImportBegin
<1>2. PICK f \in Files : lines' = f /\ file' = [file EXCEPT ![n + 1] = f]
  BY DEF ImportBegin
<1>3. /\ cmd = "idle" /\ cmd' = "import" /\ n < MaxImports /\ n' = n + 1 /\ zCommit' = "COMMIT"
      /\ before' = unsaved[shell] /\ NoResults /\ saved' = saved
  BY DEF ImportBegin, NoResults, NoCopy
<1>4. /\ n \in Nat /\ MaxImports \in Nat /\ n + 1 \in Import
      /\ f \in Seq(Key \cup {Short}) /\ n' \in 0..MaxImports
  BY <1>3, ShellDataAssumption DEF Inv, TypeOK, ShellDataAssumption, Import
<1>5. /\ Settled' /\ OthersKept /\ Keeps
      /\ auto'[shell] = (auto[shell] /\ r = "error")
  BY <1>1, <1>3, SettledNow, BeginEffect
<1> DEFINE how == IF auto[shell] /\ r = "error" THEN "loose" ELSE "running"
<1>13. /\ report' = [report EXCEPT ![n + 1] = how]
       /\ how \in {"running", "loose"} /\ (how = "running" => ~auto'[shell])
  BY <1>1, <1>5
<1> HIDE DEF how
<1>6. TypeOK'
  <2>1. file' \in [Import -> Seq(Key \cup {Short})] /\ report' \in [Import -> Reports]
    BY <1>2, <1>4, <1>13 DEF Inv, TypeOK, Reports
  <2>2. before' \in SUBSET Row
    BY <1>3, Tags DEF Inv, TypeOK, DbType
  <2> QED
    BY <1>2, <1>3, <1>4, <1>5, <2>1, <2>2
    DEF Inv, TypeOK, Settled, NoResults, NoCopy, Commands
<1>7. Engine'
  BY <1>5, EngineAfter DEF Inv, Engine, Keeps
<1>8. Jobs'
  <2>1. report \in [Import -> Reports] /\ \A j \in Import : report[j] # "running"
    BY <1>3 DEF Inv, TypeOK, Jobs, Importing
  <2>2. \A j \in Import : n' < j => report'[j] = "none"
    BY <1>3, <1>4, <1>13, <2>1 DEF Inv, Jobs, Import
  <2>3. /\ report'[n'] \in {"running", "loose"}
        /\ \A j \in Import : report'[j] = "running" => j = n'
    BY <1>3, <1>4, <1>13, <2>1
  <2> QED
    BY <1>3, <1>4, <2>2, <2>3 DEF Jobs, Importing
<1>9. Copied' /\ Snapshot'
  BY <1>3 DEF NoResults, NoCopy, NoDump, Copied, Copying, Snapshot, Dumping, DumpLeavesNoTrace
<1>10. /\ Of(disk, n + 1) = {} /\ Of(saved, n + 1) = {} /\ Of(unsaved[shell], n + 1) = {}
  BY <1>4 DEF Inv, Rows, NoneYet, Of
<1>11. Rows'
  <2>1. NoneYet(disk)' /\ NoneYet(saved)' /\ NoneYet(unsaved[shell])'
    BY <1>3, <1>4, <1>5 DEF Inv, Rows, NoneYet, Keeps, Import
  <2>2. ASSUME NEW j \in Import, j # n + 1
        PROVE  RowsOf(j)' = RowsOf(j) /\ report'[j] = report[j]
    BY <1>2, <1>13, <2>2 DEF Inv, TypeOK, RowsOf
  <2>3. report'[n + 1] \in {"running", "loose"}
    BY <1>4, <1>13 DEF Inv, TypeOK
  <2> QED
    BY <1>3, <1>5, <1>10, <2>1, <2>2, <2>3 DEF Inv, Rows, Whole, Keeps
<1>12. Progress'
  <2>1. RowsOf(n)' = {<<n + 1, k>> : k \in KeysOf(f)}
    BY <1>2, <1>3, <1>4 DEF Inv, TypeOK, RowsOf
  <2>2. {<<n', k>> : k \in KeysOf(lines)'} = {<<n + 1, k>> : k \in KeysOf(f)}
    BY <1>2, <1>3 DEF KeysOf
  <2>3. before' \cap disk' = {} /\ before' \subseteq unsaved'[shell]
        /\ \A r1 \in before' : r1[1] # Rival
    BY <1>3, <1>5 DEF Inv, Engine, Keeps
  <2>4. report'[n'] = how
    BY <1>3, <1>4, <1>13 DEF Inv, TypeOK
  <2> QED
    BY <1>3, <1>5, <1>10, <1>13, <2>1, <2>2, <2>3, <2>4 DEF Progress, Keeps
<1> QED
  BY <1>6, <1>7, <1>8, <1>9, <1>11, <1>12 DEF Inv

\* The keys of a file are those of its first line and the others.
LEMMA HeadTail ==
    ASSUME NEW S, NEW s \in Seq(S), s # <<>>
    PROVE  /\ Head(s) \in S /\ Tail(s) \in Seq(S)
           /\ KeysOf(s) = {Head(s)} \cup KeysOf(Tail(s))
<1>1. Len(s) \in Nat /\ Len(s) > 0 /\ DOMAIN s = 1..Len(s) /\ Head(s) = s[1]
  OBVIOUS
<1>2. /\ Tail(s) \in Seq(S) /\ DOMAIN Tail(s) = 1..(Len(s) - 1)
      /\ \A i \in 1..(Len(s) - 1) : Tail(s)[i] = s[i + 1]
  OBVIOUS
<1>3. \A i \in DOMAIN s : s[i] \in {Head(s)} \cup KeysOf(Tail(s))
  <2> SUFFICES ASSUME NEW i \in 1..Len(s), i # 1 PROVE s[i] \in KeysOf(Tail(s))
    BY <1>1
  <2>1. i - 1 \in DOMAIN Tail(s) /\ Tail(s)[i - 1] = s[i]
    BY <1>1, <1>2
  <2> QED
    BY <2>1 DEF KeysOf
<1>4. KeysOf(Tail(s)) \subseteq KeysOf(s)
  BY <1>1, <1>2 DEF KeysOf
<1>5. Head(s) \in KeysOf(s) /\ Head(s) \in S
  BY <1>1 DEF KeysOf
<1> QED
  BY <1>2, <1>3, <1>4, <1>5 DEF KeysOf

LEMMA ImportLineStep == ASSUME Inv, ImportLine PROVE Inv'
<1> DEFINE h == Head(lines)
<1>1. /\ cmd = "import" /\ lines # <<>> /\ lines' = Tail(lines)
      /\ UNCHANGED <<n, file, report, before, dumpVars, copyVars>>
      /\ saved' = saved
  BY DEF ImportLine, copyVars
<1>2. /\ Settled /\ Importing /\ n \in Import /\ zCommit = "COMMIT"
      /\ report[n] \in {"running", "loose"} /\ (report[n] = "running" => ~auto[shell])
  BY <1>1, SettledNow DEF Importing, Inv, Jobs, Progress
<1>3. /\ h \in Key \cup {Short} /\ lines' \in Seq(Key \cup {Short})
      /\ KeysOf(lines) = {h} \cup KeysOf(lines')
  BY <1>1, HeadTail DEF Inv, TypeOK
<1>4. ASSUME cmd' \in Commands, zCommit' \in {"COMMIT", "ROLLBACK"}, DbType' PROVE TypeOK'
  BY <1>1, <1>3, <1>4 DEF Inv, TypeOK, dumpVars, copyVars
<1>5. CASE GivesUp /\ Settled' /\ OthersKept /\ (Keeps \/ Loses)
  <2>1. cmd' = "commit" /\ zCommit' = "ROLLBACK"
    BY <1>5 DEF GivesUp
  <2>2. /\ Rows'
        /\ \A r \in unsaved'[shell] : r[1] # Rival /\ r \notin disk'
    BY <1>1, <1>5, SameRows
  <2>3. Engine'
    BY <1>5, <2>2, EngineAfter DEF Inv
  <2>4. TypeOK'
    BY <1>4, <1>5, <2>1 DEF Settled, Commands
  <2>5. Jobs'
    BY <1>1, <1>2, <2>1 DEF Inv, Jobs, Importing
  <2>6. Progress'
    BY <1>1, <1>5, <2>1, <1>2 DEF Inv, Progress, Importing, Keeps, Loses
  <2> QED
    BY <1>1, <1>2, <2>1, <2>2, <2>3, <2>4, <2>5, <2>6, ImportingRest DEF Inv
<1>6. CASE h # Short /\ Write(shell, n, h, "ok") /\ UNCHANGED <<zCommit, cmd>>
  <2>1. h \in Key /\ n \in Tag
    BY <1>2, <1>3, <1>6, Tags
  <2>2. Settled' /\ OthersKept /\ Adds(<<n, h>>) /\ auto' = auto
    BY <1>2, <1>6, <2>1, WriteEffect DEF Code
  <2>3. /\ <<n, h>> \notin disk /\ n # Rival
        /\ \/ disk' = disk /\ unsaved'[shell] = unsaved[shell] \cup {<<n, h>>}
           \/ /\ report[n] = "loose" /\ unsaved'[shell] = unsaved[shell] /\ unsaved[shell] = {}
              /\ disk' = disk \cup {<<n, h>>}
    BY <1>2, <2>2, Tags DEF Adds, Settled
  <2>4. report[n] = "running" =>
           disk' = disk /\ unsaved'[shell] = unsaved[shell] \cup {<<n, h>>}
    BY <2>3
  <2>5. Engine'
    BY <2>2, <2>3, EngineAfter DEF Inv, Engine
  <2>6. TypeOK'
    BY <1>1, <1>4, <1>2, <1>6, <2>2 DEF Settled, Commands
  <2>7. Jobs'
    BY <1>1, <1>6 DEF Inv, Jobs, Importing
  <2>8. \A j \in Import : /\ RowsOf(j)' = RowsOf(j)
                          /\ j # n => /\ Of(unsaved'[shell], j) = Of(unsaved[shell], j)
                                      /\ Of(disk', j) = Of(disk, j)
    BY <1>1, <2>3 DEF RowsOf, Of
  <2>9. NoneYet(unsaved[shell])' /\ NoneYet(disk)' /\ NoneYet(saved)' /\ disk \subseteq disk'
    BY <1>1, <1>2, <2>3 DEF Inv, Rows, NoneYet, Import
  <2>10. Rows'
    BY <1>1, <1>2, <2>4, <2>8, <2>9 DEF Inv, Rows, Whole
  <2>11. report[n] = "running" =>
            Of(unsaved'[shell], n) = Of(unsaved[shell], n) \cup {<<n, h>>}
    BY <2>4 DEF Of
  <2>12. {<<n, k>> : k \in KeysOf(lines)} = {<<n, h>>} \cup {<<n, k>> : k \in KeysOf(lines')}
    BY <1>3
  <2>13. {<<n, k>> : k \in KeysOf(lines)}' = {<<n, k>> : k \in KeysOf(lines')}
    BY <1>1 DEF KeysOf
  <2>14. Progress'
    BY <1>1, <1>2, <1>6, <2>2, <2>4, <2>8, <2>11, <2>12, <2>13 DEF Inv, Progress, Importing
  <2> QED
    BY <1>1, <1>2, <1>6, <2>5, <2>6, <2>7, <2>10, <2>14, ImportingRest DEF Inv
<1>7. CASE h = Short /\ GivesUp /\ UNCHANGED db
  <2>1. Settled' /\ OthersKept /\ Keeps
    BY <1>2, <1>7 DEF Settled, db, DbType, OthersKept, Keeps
  <2> QED
    BY <1>5, <1>7, <2>1
<1>8. ASSUME NEW r \in Code \ {"ok"}, h # Short, Write(shell, n, h, r), GivesUp
      PROVE  Inv'
  <2>1. h \in Key /\ n \in Tag
    BY <1>2, <1>3, <1>8, Tags
  <2>2. Settled' /\ OthersKept /\ (Keeps \/ Loses)
    BY <1>2, <1>8, <2>1, WriteEffect
  <2> QED
    BY <1>5, <1>8, <2>2
<1> QED
  BY <1>6, <1>7, <1>8 DEF ImportLine

LEMMA ImportEofStep == ASSUME Inv, ImportEof PROVE Inv'
<1>1. /\ cmd = "import" /\ lines = <<>> /\ cmd' = "commit"
      /\ UNCHANGED <<db, importVars, dumpVars, copyVars>>
  BY DEF ImportEof
<1> USE <1>1 DEF db, importVars, dumpVars, copyVars
<1>2. TypeOK' /\ Engine' /\ Jobs'
  BY DEF Inv, TypeOK, Commands, DbType, Engine, Jobs, Importing
<1>3. Rows'
  BY SameRows DEF Keeps
<1>4. RowsOf(n)' = RowsOf(n) /\ {<<n, k>> : k \in KeysOf(lines)}' = {<<n, k>> : k \in KeysOf(lines)}
  BY DEF RowsOf, KeysOf
<1>5. Progress'
  BY <1>4 DEF Inv, Progress, Importing
<1> QED
  BY <1>2, <1>3, <1>5, ImportingRest DEF Inv, Importing

LEMMA ImportEndStep ==
    ASSUME Inv, ImportEnd
    PROVE  /\ Inv' /\ n \in Import
           /\ report' = [report EXCEPT ![n] = report'[n]]
           /\ report[n] = "running" =>
              \/ auto'[shell] /\ before \cap Visible' = {}
              \/ auto'[shell] /\ before \subseteq disk' /\ report'[n] = "ok"
              \/ /\ ~auto'[shell] /\ report'[n] = "hollow"
                 /\ before \cup RowsOf(n) \subseteq unsaved'[shell]
<1> DEFINE InForce == report[n] = "running"
<1>1. /\ cmd = "commit" /\ cmd' = "idle" /\ lines' = <<>> /\ zCommit' = "COMMIT" /\ before' = {}
      /\ UNCHANGED <<n, file, dumpVars, copyVars>> /\ saved' = saved
  BY DEF ImportEnd, copyVars
<1>2. /\ Settled /\ Importing /\ n \in Import /\ report[n] \in {"running", "loose"}
      /\ report \in [Import -> Reports] /\ shell \in Conn
      /\ \A j \in Import : j # n => report[j] # "running"
  BY <1>1, SettledNow, Tags DEF Importing, Inv, Jobs, TypeOK
<1>3. /\ InForce => before \cap disk = {}
      /\ InForce /\ zCommit = "COMMIT" =>
            /\ ~auto[shell] /\ before \subseteq unsaved[shell]
            /\ Of(unsaved[shell], n) = RowsOf(n)
  <2>1. zCommit = "COMMIT" => KeysOf(lines) = {}
    BY <1>1 DEF Inv, Progress, KeysOf
  <2> QED
    BY <1>1, <2>1 DEF Inv, Progress, Importing
<1>4. PICK r \in Code :
        IF zCommit = "COMMIT"
        THEN End(shell, r) /\ Settles(IF r = "ok" THEN "ok" ELSE "hollow")
        ELSE Rollback(shell, r) /\ Settles("failed")
  BY DEF ImportEnd
<1>16. \A said : Settles(said) =>
          report' = [report EXCEPT ![n] = IF report[n] = "loose" THEN "loose" ELSE said]
  BY DEF Settles
<1>5. /\ Settled' /\ OthersKept
      /\ Stores \/ Keeps \/ Loses
      /\ InForce => \/ Stores /\ zCommit = "COMMIT" /\ report'[n] = "ok"
                    \/ Keeps /\ ~auto'[shell] /\ zCommit = "COMMIT" /\ report'[n] = "hollow"
                    \/ Loses /\ report'[n] \in {"hollow", "failed"}
      /\ ~InForce => report'[n] = "loose"
  <2>1. CASE zCommit = "COMMIT"
    BY <1>2, <1>3, <1>4, <1>16, <2>1, EndEffect DEF Code
  <2>2. CASE zCommit # "COMMIT"
    <3>1. auto[shell] => unsaved[shell] = {}
      BY <1>2 DEF Settled
    <3> QED
      BY <1>2, <1>4, <1>16, <2>2, <3>1, RollbackEffect DEF Keeps, Loses
  <2> QED
    BY <2>1, <2>2
<1>6. /\ report' = [report EXCEPT ![n] = report'[n]]
      /\ \A j \in Import : j # n => report'[j] = report[j]
      /\ report'[n] \in {"ok", "hollow", "failed", "loose"}
      /\ report' \in [Import -> Reports]
  BY <1>2, <1>4, <1>5, <1>16 DEF Reports
<1>7. TypeOK'
  BY <1>1, <1>5, <1>6 DEF Inv, TypeOK, Settled, Commands, dumpVars, copyVars
<1>8. Jobs' /\ Progress'
  BY <1>1, <1>2, <1>6 DEF Inv, Jobs, Progress, Importing
<1>9. \A j \in Import : RowsOf(j)' = RowsOf(j) /\ Of({}, j) = {}
  BY <1>1 DEF RowsOf, Of
<1>10. \A q \in unsaved'[shell] : q[1] # Rival /\ q \notin disk'
  BY <1>5 DEF Inv, Engine, Stores, Keeps, Loses
<1>11. Engine'
  BY <1>5, <1>10, EngineAfter DEF Inv
<1>12. NoneYet(disk)' /\ NoneYet(saved)' /\ NoneYet(unsaved[shell])'
  BY <1>1, <1>5 DEF Inv, Rows, NoneYet, Stores, Keeps, Loses
<1>13. ASSUME NEW j \in Import, report'[j] # "loose"
       PROVE  /\ Whole(disk, j)' /\ Whole(saved, j)'
              /\ report'[j] # "running" => Whole(unsaved[shell], j)'
              /\ report'[j] \in {"running", "failed", "killed"} => Of(disk', j) = {}
              /\ report'[j] \in {"failed", "killed"} => Of(unsaved'[shell], j) = {}
              /\ report'[j] = "ok" => RowsOf(j) \subseteq disk'
  <2>1. /\ Whole(disk, j) /\ Whole(saved, j)
        /\ report[j] # "running" => Whole(unsaved[shell], j)
        /\ report[j] \in {"running", "failed", "killed"} => Of(disk, j) = {}
        /\ report[j] \in {"failed", "killed"} => Of(unsaved[shell], j) = {}
        /\ report[j] = "ok" => RowsOf(j) \subseteq disk
    <3>1. report[j] # "loose"
      BY <1>2, <1>5, <1>6, <1>13
    <3> QED
      BY <3>1 DEF Inv, Rows
  <2>2. Whole(saved, j)'
    BY <1>1, <1>9, <2>1 DEF Whole
  <2>6. j = n => InForce
    BY <1>2, <1>5, <1>13
  <2>3. CASE Stores /\ (InForce => zCommit = "COMMIT" /\ report'[n] = "ok")
    <3>1. Of(disk', j) = Of(disk, j) \cup Of(unsaved[shell], j) /\ Of(unsaved'[shell], j) = {}
      BY <1>9, <2>3, OfUnion DEF Stores
    <3>2. Of(disk', j) \subseteq disk' /\ disk \subseteq disk'
      BY <2>3 DEF Of, Stores
    <3>3. CASE j = n
      BY <1>2, <1>3, <1>9, <2>1, <2>2, <2>3, <2>6, <3>1, <3>2, <3>3 DEF Whole
    <3>4. CASE j # n
      BY <1>2, <1>6, <1>9, <2>1, <2>2, <3>1, <3>2, <3>4 DEF Whole
    <3> QED
      BY <3>3, <3>4
  <2>4. CASE Keeps /\ (InForce => zCommit = "COMMIT" /\ report'[n] = "hollow")
    BY <1>2, <1>3, <1>6, <1>9, <2>1, <2>2, <2>4, <2>6 DEF Whole, Keeps
  <2>5. CASE Loses /\ (InForce => report'[n] \in {"hollow", "failed"})
    BY <1>2, <1>6, <1>9, <2>1, <2>2, <2>5, <2>6 DEF Whole, Loses
  <2> QED
    BY <1>5, <2>3, <2>4, <2>5
<1>14. Rows'
  BY <1>9, <1>12, <1>13 DEF Rows
<1>15. InForce =>
       \/ auto'[shell] /\ before \cap Visible' = {}
       \/ auto'[shell] /\ before \subseteq disk' /\ report'[n] = "ok"
       \/ /\ ~auto'[shell] /\ report'[n] = "hollow"
          /\ before \cup RowsOf(n) \subseteq unsaved'[shell]
  <2>1. Of(unsaved[shell], n) \subseteq unsaved[shell]
    BY DEF Of
  <2> QED
    BY <1>3, <1>5, <2>1 DEF Visible, Stores, Keeps, Loses
<1> QED
  BY <1>1, <1>2, <1>6, <1>7, <1>8, <1>11, <1>14, <1>15, ImportingRest DEF Inv

-----------------------------------------------------------------------------
(* The dump.                                                                 *)

\* A step of a dump, as far as imports and copies are concerned.
LEMMA DumpRest ==
    ASSUME Inv, UNCHANGED <<importVars, saved>>, ~Importing, ~Importing',
           Settled', OthersKept, Keeps \/ Loses \/ Stores, cmd' \in Commands \ {"backup", "restore"},
           copied' \in 0..Len(Schema), copied' = 0 => pages' = {},
           copied' > 0 =>
               pages' = {r \in source' : \E i \in 1..copied' : Schema[i] = TableOf[r[2]]},
           pages' \in SUBSET Row, source' \in SUBSET Row, nTimeout' \in 0..4,
           told' \in {"none", "ok", "failed"}, ended' \in {"none", "COMMIT", "ROLLBACK"},
           Snapshot'
    PROVE  Inv'
<1>1. /\ Jobs' /\ Rows' /\ Progress'
      /\ \A r \in unsaved'[shell] : r[1] # Rival /\ r \notin disk'
  BY QuietRows DEF importVars
<1>2. Engine'
  BY <1>1, EngineAfter DEF Inv
<1>3. TypeOK' /\ Copied'
  BY DEF Inv, TypeOK, Settled, importVars, Copied, Copying
<1> QED
  BY <1>1, <1>2, <1>3 DEF Inv

LEMMA DumpBeginStep == ASSUME Inv, DumpBegin PROVE Inv'
<1>1. /\ cmd = "idle" /\ cmd' = "schema" /\ ended' = "none" /\ NoCopy
      /\ UNCHANGED importVars
  BY DEF DumpBegin
<1>2. PICK ok \in BOOLEAN :
        /\ Opens(ok) /\ DOMAIN dump' = DOMAIN NoDump
        /\ dump'.opened = (ok /\ auto[shell]) /\ dump'.lost = (~ok /\ auto[shell])
  BY DEF DumpBegin, NoDump
<1>3. Settled /\ shell \in Conn
  BY <1>1, SettledNow, Tags
<1>4. /\ Settled' /\ OthersKept /\ Keeps /\ lock' = lock
      /\ auto'[shell] <=> (~ok /\ auto[shell])
  <2>1. CASE ok
    BY <1>2, <1>3, <2>1 DEF Opens, Savepoint, Settled, DbType, OthersKept, Keeps
  <2>2. CASE ~ok
    BY <1>2, <1>3, <2>2 DEF Opens, Settled, DbType, OthersKept, Keeps, db
  <2> QED
    BY <2>1, <2>2
<1>7. dump'.opened \in BOOLEAN /\ (dump'.opened => lock'[shell] = "none")
  BY <1>2, <1>3, <1>4 DEF Settled, DbType
<1>5. Snapshot'
  BY <1>1, <1>2, <1>4, <1>7 DEF Snapshot, Dumping, DumpLeavesNoTrace
<1>6. 0 \in 0..Len(Schema)
  BY ShellDataAssumption DEF ShellDataAssumption
<1> QED
  BY <1>1, <1>4, <1>5, <1>6, DumpRest DEF Importing, NoCopy, Commands

\* A step inside a dump leaves dump.opened alone, and never forgets a lost transaction.
LEMMA DumpingRest ==
    ASSUME Inv, UNCHANGED <<importVars, ended, copyVars>>, Dumping, Dumping',
           DbType', pinned' = pinned, OthersKept,
           auto'[shell] => unsaved'[shell] = {}, Keeps \/ Loses,
           auto'[shell] /\ cmd' # "rows" => lock'[shell] = "none",
           DOMAIN dump' = DOMAIN dump, dump'.opened = dump.opened,
           \A c \in Conn \ {shell} : auto'[c] = auto[c],
           \/ dump'.lost /\ auto'[shell]
           \/ /\ dump'.lost = dump.lost /\ auto'[shell] = auto[shell]
              /\ lock'[shell] \in {lock[shell], "shared"}
    PROVE  Inv'
<1>1. ~Importing /\ ~Importing' /\ ~Copying'
  BY DEF Dumping, Importing, Copying
<1>2. /\ Jobs' /\ Rows' /\ Progress'
      /\ \A r \in unsaved'[shell] : r[1] # Rival /\ r \notin disk'
  BY <1>1, QuietRows DEF importVars, copyVars
<1>3. Engine'
  BY <1>2 DEF Inv, Engine, OthersKept, Dumping
<1>4. TypeOK'
  BY DEF Inv, TypeOK, importVars, copyVars, Dumping, Commands
<1>5. Copied'
  BY <1>1 DEF Inv, Copied, Copying, copyVars
<1>6. Snapshot'
  BY DEF Inv, Snapshot, Dumping, DumpLeavesNoTrace
<1> QED
  BY <1>2, <1>3, <1>4, <1>5, <1>6 DEF Inv

\* Reading and finishing to read change nothing but a lock.
LEMMA ReadEffect ==
    ASSUME Inv, Dumping,
           \/ ReadBegin(shell, "ok") /\ cmd' = "rows"
           \/ ReadAll(shell, "ok") /\ cmd # "rows" /\ cmd' # "rows"
           \/ ReadEnd(shell) /\ cmd' # "rows"
           \/ UNCHANGED db /\ (cmd = "rows" => cmd' = "rows")
    PROVE  /\ DbType' /\ pinned' = pinned /\ OthersKept /\ Keeps /\ auto' = auto
           /\ auto'[shell] => unsaved'[shell] = {}
           /\ auto'[shell] /\ cmd' # "rows" => lock'[shell] = "none"
           /\ auto'[shell] = auto[shell]
           /\ ~auto[shell] => lock'[shell] \in {lock[shell], "shared"}
<1>1. /\ DbType /\ pinned = {} /\ shell \in Conn
      /\ auto[shell] => unsaved[shell] = {}
      /\ auto[shell] /\ cmd # "rows" => lock[shell] = "none"
  BY Tags DEF Inv, TypeOK, Engine, Dumping
<1>2. CASE ReadBegin(shell, "ok") /\ cmd' = "rows"
  BY <1>1, <1>2 DEF ReadBegin, DbType, Lock, OthersKept, Keeps
<1>3. CASE ReadAll(shell, "ok") /\ cmd # "rows" /\ cmd' # "rows"
  BY <1>1, <1>3 DEF ReadAll, DbType, Lock, OthersKept, Keeps
<1>4. CASE ReadEnd(shell) /\ cmd' # "rows"
  BY <1>1, <1>4 DEF ReadEnd, Resting, DbType, Lock, OthersKept, Keeps
<1>5. CASE UNCHANGED db /\ (cmd = "rows" => cmd' = "rows")
  BY <1>1, <1>5 DEF db, DbType, OthersKept, Keeps
<1> QED
  BY <1>2, <1>3, <1>4, <1>5

\* An I/O error loses what is pending, and the dump knows it.
LEMMA AbortEffect ==
    ASSUME Inv, ReadAbort(shell)
    PROVE  /\ DbType' /\ pinned' = pinned /\ OthersKept /\ Loses
           /\ lock'[shell] = "none"
           /\ \A c \in Conn \ {shell} : auto'[c] = auto[c]
BY Tags DEF Inv, TypeOK, Engine, DbType, ReadAbort, EndsTransaction, Resting, Lock, OthersKept, Loses

\* A step of the dump that reads, or one that fails.
LEMMA DumpReads ==
    ASSUME Inv, UNCHANGED <<importVars, ended, copyVars>>, Dumping, Dumping',
           \/ ReadBegin(shell, "ok") /\ cmd' = "rows"
           \/ ReadAll(shell, "ok") /\ cmd # "rows" /\ cmd' # "rows"
           \/ ReadEnd(shell) /\ cmd' # "rows"
           \/ UNCHANGED db /\ (cmd = "rows" => cmd' = "rows"),
           DOMAIN dump' = DOMAIN dump, dump'.opened = dump.opened, dump'.lost = dump.lost
    PROVE  Inv'
<1>1. /\ DbType' /\ pinned' = pinned /\ OthersKept /\ Keeps /\ auto' = auto
      /\ auto'[shell] => unsaved'[shell] = {}
      /\ auto'[shell] /\ cmd' # "rows" => lock'[shell] = "none"
      /\ ~auto[shell] => lock'[shell] \in {lock[shell], "shared"}
  BY ReadEffect
<1>2. CASE ~auto[shell]
  BY <1>1, <1>2, DumpingRest
<1>3. CASE auto[shell]
  <2>1. dump.lost /\ auto'[shell]
    BY <1>1, <1>3 DEF Inv, Snapshot
  <2> QED
    BY <1>1, <2>1, DumpingRest
<1> QED
  BY <1>2, <1>3

LEMMA DumpAborts ==
    ASSUME Inv, UNCHANGED <<importVars, ended, copyVars>>, Dumping, Dumping',
           ReadAbort(shell), DOMAIN dump' = DOMAIN dump, dump'.opened = dump.opened, dump'.lost
    PROVE  Inv'
BY AbortEffect, DumpingRest DEF Loses

LEMMA DumpFields == ASSUME Inv PROVE DOMAIN dump = {"queries", "left", "again", "nErr",
    "writableSchema", "opened", "asked", "read", "snap", "failed", "lost"}
BY DEF Inv, Snapshot, NoDump

LEMMA SeenFields ==
    ASSUME Inv
    PROVE  /\ DOMAIN Seen(dump) = DOMAIN dump
           /\ Seen(dump).opened = dump.opened /\ Seen(dump).lost = dump.lost
BY DumpFields DEF Seen

LEMMA DumpStep == ASSUME Inv, DumpSteps \/ SchemaFails, ~DumpEnd PROVE Inv'
<1> USE DumpFields DEF Dumping
<1>1. CASE SchemaQuery
  <2>1. /\ Dumping /\ Dumping' /\ UNCHANGED <<importVars, ended, copyVars>>
        /\ DOMAIN dump' = DOMAIN dump /\ dump'.opened = dump.opened /\ dump'.lost = dump.lost
    BY <1>1, SeenFields DEF SchemaQuery
  <2>2. \/ ReadBegin(shell, "ok") /\ cmd' = "rows"
        \/ UNCHANGED db /\ (cmd = "rows" => cmd' = "rows")
    BY <1>1 DEF SchemaQuery, ReadBegin
  <2> QED
    BY <2>1, <2>2, DumpReads
<1>2. CASE DumpTable
  <2>1. /\ Dumping /\ Dumping' /\ UNCHANGED <<importVars, ended, copyVars>>
        /\ DOMAIN dump' = DOMAIN dump /\ dump'.opened = dump.opened
    BY <1>2 DEF DumpTable
  <2>2. \/ UNCHANGED <<db, cmd>> /\ dump'.lost = dump.lost
        \/ ReadAbort(shell) /\ dump'.lost
    BY <1>2 DEF DumpTable
  <2> QED
    BY <2>1, <2>2, DumpReads, DumpAborts
<1>3. CASE SchemaFails
  <2>1. /\ Dumping /\ Dumping' /\ UNCHANGED <<importVars, ended, copyVars>>
        /\ DOMAIN dump' = DOMAIN dump /\ dump'.opened = dump.opened
    BY <1>3 DEF SchemaFails, Aborts
  <2>2. \/ ReadEnd(shell) /\ cmd' # "rows" /\ dump'.lost = dump.lost
        \/ UNCHANGED <<db, cmd>> /\ dump'.lost = dump.lost
        \/ ReadAbort(shell) /\ dump'.lost
    BY <1>3 DEF SchemaFails, Aborts
  <2> QED
    BY <2>1, <2>2, DumpReads, DumpAborts
<1>4. CASE SchemaDone
  <2>1. /\ Dumping /\ Dumping' /\ UNCHANGED <<importVars, ended, copyVars, dump>>
        /\ ReadEnd(shell) /\ cmd' # "rows"
    BY <1>4 DEF SchemaDone, dumpVars
  <2> QED
    BY <2>1, DumpReads
<1>5. CASE IndexQuery
  <2>1. /\ Dumping /\ Dumping' /\ UNCHANGED <<importVars, ended, copyVars>>
        /\ DOMAIN dump' = DOMAIN dump /\ dump'.opened = dump.opened
    BY <1>5, SeenFields DEF IndexQuery
  <2>2. \/ ReadAll(shell, "ok") /\ cmd # "rows" /\ cmd' # "rows" /\ dump'.lost = dump.lost
        \/ UNCHANGED db /\ (cmd = "rows" => cmd' = "rows") /\ dump'.lost = dump.lost
        \/ ReadAbort(shell) /\ dump'.lost
    BY <1>5, SeenFields DEF IndexQuery, ReadAll
  <2> QED
    BY <2>1, <2>2, DumpReads, DumpAborts
<1> QED
  BY <1>1, <1>2, <1>3, <1>4, <1>5 DEF DumpSteps

LEMMA DumpEndStep == ASSUME Inv, DumpEnd PROVE Inv'
<1>1. /\ cmd = "release" /\ cmd' = "idle" /\ UNCHANGED <<importVars, copyVars>>
      /\ ended' \in {"COMMIT", "ROLLBACK"}
      /\ \E r \in Code : Release(shell, dump.opened, r)
      /\ dump' = [dump EXCEPT !.writableSchema = FALSE]
  BY DEF DumpEnd, Closes
<1>2. /\ DOMAIN dump' = DOMAIN NoDump /\ dump'.opened = dump.opened /\ dump'.lost = dump.lost
      /\ dump.opened \in BOOLEAN
  BY <1>1, DumpFields DEF NoDump, Inv, Snapshot
<1>3. Settled /\ shell \in Conn
  BY <1>1, SettledNow, Tags
<1>4. /\ Settled' /\ OthersKept /\ (Keeps \/ Loses \/ Stores)
      /\ auto'[shell] <=> (dump.opened \/ dump.lost)
  <2>1. CASE dump.opened
    <3>1. PICK r \in Code : End(shell, r)
      BY <1>1, <2>1 DEF Release
    <3>2. ~dump.lost => lock[shell] \notin Writing /\ ~auto[shell]
      BY <1>1, <2>1 DEF Inv, Snapshot, Dumping, Writing
    <3>3. ~dump.lost => r = "ok"
      BY <1>3, <3>1, <3>2, EndEffect DEF Code
    <3>4. dump.lost => auto[shell]
      BY <1>1 DEF Inv, Snapshot, Dumping
    <3>5. auto[shell] => r = "error" /\ UNCHANGED db
      BY <3>1 DEF End
    <3>6. auto'[shell]
      BY <1>3, <3>1, <3>3, <3>4, <3>5, EndEffect DEF Code, Stores, db
    <3> QED
      BY <1>3, <2>1, <3>1, <3>6, EndEffect DEF Code
  <2>2. CASE ~dump.opened
    <3>1. UNCHANGED db
      BY <1>1, <2>2 DEF Release
    <3>2. auto[shell] <=> dump.lost
      BY <1>1, <1>3 DEF Inv, Snapshot, Dumping
    <3> QED
      BY <1>2, <1>3, <2>2, <3>1, <3>2 DEF db, Settled, DbType, OthersKept, Keeps
  <2> QED
    BY <2>1, <2>2
<1>5. Snapshot'
  BY <1>1, <1>2, <1>4 DEF Snapshot, Dumping, DumpLeavesNoTrace, Settled
<1> QED
  BY <1>1, <1>4, <1>5, DumpRest DEF Importing, Commands, Inv, TypeOK, Copied, copyVars

-----------------------------------------------------------------------------
(* .backup and .restore.                                                     *)

LEMMA CopyBeginsStep == ASSUME Inv, BackupBegin \/ RestoreBegin PROVE Inv'
<1>1. /\ cmd = "idle" /\ cmd' \in {"backup", "restore"} /\ NoResults
      /\ UNCHANGED <<db, importVars>> /\ saved' = saved
      /\ cmd' = "restore" => auto[shell]
  BY DEF BackupBegin, RestoreBegin, CopyBegins, NoResults, NoCopy
<1>2. DbType' /\ auto'[shell] = auto[shell]
  BY <1>1 DEF Inv, TypeOK, DbType, db
<1>3. TypeOK' /\ Copied' /\ Snapshot'
  BY <1>1, <1>2, NewCommand DEF importVars, Commands
<1>4. Jobs' /\ Rows' /\ Progress'
  BY <1>1, QuietRows DEF Importing, importVars, db, Keeps
<1>5. Engine'
  BY <1>1 DEF Inv, Engine, db
<1> QED
  BY <1>3, <1>4, <1>5 DEF Inv

\* After a step of a copy, pages holds the first tables of the source as it is now.
LEMMA CopyStepEffect ==
    ASSUME Inv, Copying, NEW from \in SUBSET Row, CopyStep(from)
    PROVE  /\ copied' \in 1..Len(Schema) /\ source' = from
           /\ copied' # Len(Schema) => copied' < Len(Schema)
           /\ pages' = {r \in from : \E i \in 1..copied' : Schema[i] = TableOf[r[2]]}
           /\ AllCopied => pages' = from
<1> DEFINE again == copied > 0 /\ from # source
           kept == IF again THEN 0 ELSE copied
           Held(m) == {r \in from : \E i \in 1..m : Schema[i] = TableOf[r[2]]}
<1>1. /\ Len(Schema) \in Nat /\ Len(Schema) > 0 /\ copied \in Nat /\ copied < Len(Schema)
      /\ \A k \in Key : \E i \in 1..Len(Schema) : Schema[i] = TableOf[k]
  BY ShellDataAssumption DEF ShellDataAssumption, Inv, Copied, TypeOK
<1>2. /\ copied' = kept + 1 /\ source' = from
      /\ pages' = (IF again THEN {} ELSE pages) \cup RowsIn(from, Schema[kept + 1])
  BY DEF CopyStep
<1>3. kept \in Nat /\ kept < Len(Schema)
  BY <1>1
<1>4. (IF again THEN {} ELSE pages) = Held(kept)
  <2>1. Held(0) = {}
    OBVIOUS
  <2>2. copied = 0 => pages = {}
    BY DEF Inv, Copied
  <2>3. copied > 0 /\ from = source => pages = Held(copied)
    BY DEF Inv, Copied
  <2> QED
    BY <1>1, <2>1, <2>2, <2>3
<1>5. \A i : i \in 1..(kept + 1) <=> (i \in 1..kept \/ i = kept + 1)
  BY <1>3
<1>6. Held(kept + 1) = Held(kept) \cup RowsIn(from, Schema[kept + 1])
  BY <1>5 DEF RowsIn
<1>7. AllCopied => Held(copied') = from
  <2> SUFFICES ASSUME AllCopied, NEW r \in from
               PROVE  \E i \in 1..copied' : Schema[i] = TableOf[r[2]]
    OBVIOUS
  <2>1. r[2] \in Key
    BY DEF Row
  <2> QED
    BY <1>1, <2>1 DEF AllCopied
<1> HIDE DEF Held
<1>8. copied' \in 1..Len(Schema) /\ (copied' # Len(Schema) => copied' < Len(Schema))
  BY <1>1, <1>2, <1>3
<1>9. pages' = Held(copied')
  BY <1>2, <1>4, <1>6
<1> QED
  BY <1>2, <1>7, <1>8, <1>9 DEF Held

LEMMA BackupStepStep ==
    ASSUME Inv, BackupStep
    PROVE  Inv' /\ (saved' # saved => told' = "ok" /\ saved' = disk)
                /\ (told # "ok" /\ told' = "ok" => saved' = disk)
<1>1. /\ cmd = "backup" /\ UNCHANGED <<db, importVars, dumpVars, nTimeout>>
      /\ \/ /\ CopyStep(disk)
            /\ \/ AllCopied /\ saved' = pages' /\ cmd' = "idle" /\ told' = "ok"
               \/ ~AllCopied /\ UNCHANGED <<saved, cmd, told>>
         \/ cmd' = "idle" /\ told' = "failed" /\ UNCHANGED <<saved, copied, pages, source>>
  BY DEF BackupStep, CopyEnds
<1>2. disk \in SUBSET Row /\ Len(Schema) \in Nat /\ ~Importing /\ ~Importing' /\ Copying
  BY <1>1, ShellDataAssumption DEF Inv, TypeOK, DbType, ShellDataAssumption, Importing, Copying
<1>3. /\ copied' \in 0..Len(Schema) /\ pages' \in SUBSET Row /\ source' \in SUBSET Row
      /\ (saved' = saved /\ told' # "ok") \/ (saved' = disk /\ told' = "ok") \/ UNCHANGED <<saved, told>>
      /\ Copied'
  <2>1. CASE CopyStep(disk)
    <3>1. /\ copied' \in 1..Len(Schema) /\ source' = disk
          /\ copied' # Len(Schema) => copied' < Len(Schema)
          /\ pages' = {r \in disk : \E i \in 1..copied' : Schema[i] = TableOf[r[2]]}
          /\ AllCopied => pages' = disk
      BY <1>2, <2>1, CopyStepEffect
    <3>2. /\ copied' > 0 /\ (copied' < Len(Schema) \/ cmd' = "idle")
          /\ cmd' \in {"backup", "idle"}
      BY <1>1, <1>2, <2>1, <3>1 DEF AllCopied, Inv, Copied, Copying
    <3>3. Copied'
      BY <3>1, <3>2 DEF Copied, Copying
    <3>4. (saved' = disk /\ told' = "ok") \/ UNCHANGED <<saved, told>> \/ (saved' = saved /\ told' # "ok")
      BY <1>1, <2>1, <3>1
    <3> QED
      BY <1>2, <3>1, <3>3, <3>4
  <2>2. CASE cmd' = "idle" /\ told' = "failed" /\ UNCHANGED <<saved, copied, pages, source>>
    BY <1>2, <2>2 DEF Inv, TypeOK, Copied, Copying
  <2> QED
    BY <1>1, <2>1, <2>2
<1>4. saved' = saved \/ saved' = disk
  BY <1>3
<1>5. TypeOK'
  BY <1>1, <1>2, <1>3, <1>4
  DEF Inv, TypeOK, db, DbType, importVars, dumpVars, Commands, CopyEnds
<1>6. Engine' /\ Jobs' /\ Progress' /\ Snapshot'
  BY <1>1, <1>2 DEF Inv, Engine, Jobs, Progress, Snapshot, Dumping, DumpLeavesNoTrace, db,
     importVars, dumpVars, Importing
<1>7. Rows'
  <2>1. \A j \in Import : RowsOf(j)' = RowsOf(j)
    BY <1>1 DEF RowsOf, importVars
  <2> QED
    BY <1>1, <1>4, <2>1 DEF Inv, Rows, Whole, NoneYet, db, importVars
<1> QED
  BY <1>3, <1>5, <1>6, <1>7 DEF Inv

\* .restore steps that leave the copy alone: the retry, and giving up.
LEMMA RestoreWaits ==
    ASSUME Inv, RestoreBusy \/ RestoreError
    PROVE  Inv' /\ disk' = disk /\ saved' = saved /\ (told' = "ok" => told = "ok")
<1>1. /\ cmd = "restore"
      /\ UNCHANGED <<disk, auto, unsaved, pinned, importVars, dumpVars,
                     saved, copied, pages, source>>
      /\ \/ /\ cmd' = "idle" /\ told' = "failed" /\ nTimeout' \in {nTimeout, nTimeout + 1}
            /\ lock' = [lock EXCEPT ![shell] = Resting(shell)]
         \/ UNCHANGED <<cmd, told, lock>> /\ nTimeout < 3 /\ nTimeout' = nTimeout + 1
  <2>1. cmd = "restore" => nTimeout \in Nat
    BY DEF Inv, TypeOK
  <2> QED
    BY <2>1 DEF RestoreBusy, RestoreError, RestoreGivesUp, CopyEnds, Counts, OutOfPatience
<1>2. nTimeout \in 0..3 /\ ~Importing /\ ~Importing' /\ shell \in Conn
  BY <1>1, Tags DEF Inv, TypeOK, Copied, Importing
<1>3. Resting(shell) = "none"
  BY DEF Inv, Engine, Resting
<1>4. TypeOK'
  <2>1. DbType' /\ cmd' \in Commands /\ told' \in {"none", "ok", "failed"} /\ nTimeout' \in 0..4
    BY <1>1, <1>2, <1>3 DEF Inv, TypeOK, DbType, Lock, Commands
  <2> QED
    BY <1>1, <2>1 DEF Inv, TypeOK, importVars, dumpVars
<1>5. Engine' /\ Jobs' /\ Progress' /\ Snapshot'
  BY <1>1, <1>2, <1>3 DEF Inv, TypeOK, DbType, Engine, Jobs, Progress, Snapshot, Dumping,
     DumpLeavesNoTrace, importVars, dumpVars, Importing
<1>6. Copied'
  BY <1>1, <1>2 DEF Inv, Copied, Copying
<1>7. Rows'
  BY <1>1, SameRows DEF Keeps, importVars
<1> QED
  BY <1>1, <1>4, <1>5, <1>6, <1>7 DEF Inv

LEMMA RestoreStepStep ==
    ASSUME Inv, RestoreStep
    PROVE  /\ Inv' /\ saved' = saved
           /\ disk' # disk => told' = "ok"
           /\ told' = "ok" => told = "ok" \/ disk' = saved
           /\ disk' \in {disk, saved}
<1>1. /\ cmd = "restore" /\ CopyStep(saved)
      /\ UNCHANGED <<auto, unsaved, pinned, n, lines, zCommit, file, before, dumpVars, saved, nTimeout>>
      /\ AllCopied =>
            /\ disk' = pages' /\ lock' = [lock EXCEPT ![shell] = Resting(shell)]
            /\ report' = [j \in Import |-> IF report[j] \in {"none", "loose"} THEN report[j]
                                                                        ELSE "replaced"]
            /\ cmd' = "idle" /\ told' = "ok"
      /\ ~AllCopied => /\ lock' = [lock EXCEPT ![shell] = "pending"]
                       /\ UNCHANGED <<disk, report, cmd, told>>
  BY DEF RestoreStep, CopyEnds
<1>2. /\ saved \in SUBSET Row /\ Len(Schema) \in Nat /\ ~Importing /\ ~Importing' /\ Copying
      /\ shell \in Conn /\ auto[shell] /\ unsaved[shell] = {} /\ Resting(shell) = "none"
      /\ \A j \in Import : report[j] # "running"
  BY <1>1, Tags, ShellDataAssumption
  DEF Inv, TypeOK, Engine, Jobs, Copied, ShellDataAssumption, Importing, Copying, Resting
<1>3. /\ copied' \in 1..Len(Schema) /\ source' = saved
      /\ copied' # Len(Schema) => copied' < Len(Schema)
      /\ pages' = {r \in saved : \E i \in 1..copied' : Schema[i] = TableOf[r[2]]}
      /\ AllCopied => pages' = saved
  BY <1>1, <1>2, CopyStepEffect
<1>4. DbType' /\ cmd' \in Commands /\ told' \in {"none", "ok", "failed"}
  BY <1>1, <1>2, <1>3 DEF Inv, TypeOK, DbType, Lock, Commands
<1>5. report' \in [Import -> Reports]
  BY <1>1 DEF Inv, TypeOK, Reports
<1>6. TypeOK'
  BY <1>1, <1>2, <1>3, <1>4, <1>5 DEF Inv, TypeOK, dumpVars
<1>7. Engine'
  <2>1. \A c \in Conn \ {shell} : lock'[c] = lock[c]
    BY <1>1, <1>2 DEF Inv, TypeOK, DbType
  <2>2. cmd' # "restore" => lock'[shell] = "none"
    BY <1>1, <1>2 DEF Inv, TypeOK, DbType
  <2> QED
    BY <1>1, <1>2, <2>1, <2>2 DEF Inv, Engine
<1>8. Copied'
  <2>1. cmd' = "restore" => lock'[shell] = "pending" /\ ~AllCopied
    BY <1>1, <1>2 DEF Inv, TypeOK, DbType
  <2>2. cmd' \in {"restore", "idle"}
    BY <1>1
  <2> QED
    BY <1>1, <1>2, <1>3, <2>1, <2>2 DEF Inv, Copied, Copying, AllCopied
<1>9. Snapshot'
  BY <1>1 DEF Inv, Snapshot, Dumping, DumpLeavesNoTrace, dumpVars
<1>10. Jobs' /\ Progress'
  BY <1>1, <1>2 DEF Inv, Jobs, Progress, Importing
<1>11. Rows'
  <2>1. \A j \in Import : RowsOf(j)' = RowsOf(j) /\ Of({}, j) = {}
    BY <1>1 DEF RowsOf, Of
  <2>2. CASE AllCopied
    <3>1. /\ disk' = saved /\ saved' = saved /\ unsaved'[shell] = {} /\ n' = n
          /\ \A j \in Import : /\ report'[j] \in {"none", "loose", "replaced"}
                               /\ report'[j] # "loose" => report[j] # "loose"
      BY <1>1, <1>2, <1>3, <2>2
    <3>2. ASSUME NEW j \in Import, report'[j] # "loose"
          PROVE  Whole(disk, j)' /\ Whole(saved, j)' /\ Whole(unsaved[shell], j)'
      BY <2>1, <3>1, <3>2 DEF Inv, Rows, Whole
    <3>3. NoneYet(disk)' /\ NoneYet(saved)' /\ NoneYet(unsaved[shell])'
      BY <3>1 DEF Inv, Rows, NoneYet
    <3> QED
      BY <3>1, <3>2, <3>3 DEF Rows
  <2>3. CASE ~AllCopied
    BY <1>1, <2>3, SameRows DEF Keeps
  <2> QED
    BY <2>2, <2>3
<1>12. CASE AllCopied
  BY <1>1, <1>3, <1>6, <1>7, <1>8, <1>9, <1>10, <1>11, <1>12 DEF Inv
<1>13. CASE ~AllCopied
  BY <1>1, <1>6, <1>7, <1>8, <1>9, <1>10, <1>11, <1>13 DEF Inv
<1> QED
  BY <1>12, <1>13

-----------------------------------------------------------------------------
(* The theorems but those about what .dump prints.                            *)

LEMMA InitInv == Init => Inv
<1> SUFFICES ASSUME Init PROVE Inv
  OBVIOUS
<1>1. 0 \in 0..Len(Schema) /\ 0 \in 0..MaxImports /\ shell \in Conn /\ Len(Schema) > 0
  BY ShellDataAssumption DEF ShellDataAssumption
<1>2. DbType
  BY DEF Init, DbInit, DbType, Lock
<1>3. TypeOK
  BY <1>1, <1>2 DEF Init, TypeOK, Commands, Reports
<1>4. Engine /\ Jobs /\ Progress /\ Copied /\ Snapshot
  BY <1>1 DEF Init, DbInit, Engine, Jobs, Progress, Copied, Copying, Importing, Snapshot, Dumping,
     DumpLeavesNoTrace, NoDump
<1>5. Rows
  BY <1>1 DEF Init, DbInit, Rows, NoneYet, Whole, Of
<1> QED
  BY <1>3, <1>4, <1>5 DEF Inv

LEMMA Stutter == ASSUME Inv, UNCHANGED vars PROVE Inv'
<1> USE DEF vars, db, importVars, dumpVars, copyVars
<1>1. TypeOK' /\ Engine' /\ Jobs' /\ Copied' /\ Snapshot'
  BY DEF Inv, TypeOK, DbType, Engine, Jobs, Importing, Copied, Copying, Snapshot, Dumping,
     DumpLeavesNoTrace
<1>2. Rows'
  BY SameRows DEF Keeps
<1>3. RowsOf(n)' = RowsOf(n) /\ {<<n, k>> : k \in KeysOf(lines)}' = {<<n, k>> : k \in KeysOf(lines)}
  BY DEF RowsOf, KeysOf
<1>4. Progress'
  BY <1>3 DEF Inv, Progress, Importing
<1> QED
  BY <1>1, <1>2, <1>4 DEF Inv

LEMMA Step == Inv /\ [Next]_vars => Inv'
BY UserStep, KilledStep, RivalStep, ImportBeginStep, ImportLineStep, ImportEofStep, ImportEndStep,
   DumpBeginStep, DumpStep, DumpEndStep, CopyBeginsStep, BackupStepStep, RestoreStepStep,
   RestoreWaits, Stutter
DEF Next, ImportSteps, DumpSteps, CopySteps, Failures

\* The invariant holds in every reachable state.
THEOREM Invariance == Spec => []Inv
BY InitInv, Step, PTL DEF Spec

\* Every variable keeps its type, whatever the shell and the rivals do.
THEOREM Typing == Spec => []TypeOK
<1>1. Inv => TypeOK
  BY DEF Inv
<1> QED
  BY <1>1, Invariance, PTL

\* An .import is in the database, and in a backup of it, entirely or not at all,
\* unless its BEGIN failed with no transaction open.
THEOREM Atomic == Spec => []ImportAtomic
<1>1. Inv => ImportAtomic
  BY DEF Inv, Rows, Whole, ImportAtomic
<1> QED
  BY <1>1, Invariance, PTL

\* What .import reports of a failure or a success stays true, but for an import whose
\* BEGIN failed with no transaction open.
THEOREM Reported == Spec => []ImportReport
<1>1. Inv => ImportReport
  <2> SUFFICES ASSUME Inv, NEW j \in Import
               PROVE  /\ report[j] \in {"failed", "killed"} => Of(Visible, j) = {}
                      /\ report[j] = "ok" => RowsOf(j) \subseteq disk
    BY DEF ImportReport
  <2>1. Of(Visible, j) = Of(disk, j) \cup Of(unsaved[shell], j)
    BY OfUnion DEF Visible
  <2> QED
    BY <2>1 DEF Inv, Rows
<1> QED
  BY <1>1, Invariance, PTL

\* A dump leaves the shell's transaction as it found it, unless a failing disk ended
\* it, and never a lock without one.
THEOREM NoTrace == Spec => []DumpLeavesNoTrace
<1>1. Inv => DumpLeavesNoTrace
  BY DEF Inv, Snapshot
<1> QED
  BY <1>1, Invariance, PTL

\* Only the end of an import settles what is reported of it.
LEMMA OnlyTheEnd ==
    ASSUME Inv, Next, ~ImportEnd, NEW j \in Import, report[j] = "running"
    PROVE  report'[j] \notin {"ok", "hollow", "failed"}
<1>1. report \in [Import -> Reports]
  BY DEF Inv, TypeOK
<1>2. CASE report' = report
  BY <1>2
<1>3. CASE Killed
  BY <1>3 DEF Killed
<1>4. CASE ImportBegin
  BY <1>1, <1>4 DEF ImportBegin
<1>5. CASE RestoreStep
  BY <1>1, <1>5 DEF RestoreStep
<1>6. UserSql \/ DumpBegin \/ BackupBegin \/ RestoreBegin => report' = report
  BY DEF UserSql, DumpBegin, BackupBegin, RestoreBegin, CopyBegins, importVars
<1>7. ImportLine \/ ImportEof \/ DumpSteps \/ Failures \/ BackupStep \/ RestoreBusy => report' = report
  BY DEF ImportLine, ImportEof, DumpSteps, Failures, SchemaQuery, DumpTable, SchemaDone, IndexQuery,
     DumpEnd, SchemaFails, RestoreError, BackupStep, RestoreBusy, importVars
<1>8. ASSUME NEW c, RivalSql(c) \/ RivalReadEnd(c) PROVE report' = report
  BY <1>8 DEF RivalSql, RivalReadEnd, importVars
<1> QED
  BY <1>2, <1>3, <1>4, <1>5, <1>6, <1>7, <1>8 DEF Next, ImportSteps, CopySteps

\* An .import ends the transaction the user left open: it commits the user's rows
\* with its own, loses them, or is BUSY and leaves all of them pending.
THEOREM EndsTransactionToo == Spec => ImportEndsTransaction
<1>1. ASSUME Inv, [Next]_vars, NEW j \in Import, report[j] = "running",
             report'[j] \in {"ok", "hollow", "failed"}
      PROVE  \/ auto'[shell] /\ before \cap Visible' = {}
             \/ auto'[shell] /\ before \subseteq disk' /\ report'[j] = "ok"
             \/ /\ ~auto'[shell] /\ report'[j] = "hollow"
                /\ before \cup RowsOf(j) \subseteq unsaved'[shell]
  <2>1. Next
    BY <1>1 DEF vars, importVars
  <2>2. ImportEnd
    BY <1>1, <2>1, OnlyTheEnd
  <2>3. j = n
    BY <1>1, <2>2 DEF Inv, Jobs
  <2> QED
    BY <1>1, <2>2, <2>3, ImportEndStep
<1>2. Inv /\ [Next]_vars =>
         [\A j \in Import :
             report[j] = "running" /\ report'[j] \in {"ok", "hollow", "failed"} =>
                 \/ auto'[shell] /\ before \cap Visible' = {}
                 \/ auto'[shell] /\ before \subseteq disk' /\ report'[j] = "ok"
                 \/ /\ ~auto'[shell] /\ report'[j] = "hollow"
                    /\ before \cup RowsOf(j) \subseteq unsaved'[shell]]_vars
  BY <1>1
<1> QED
  BY <1>2, Invariance, PTL DEF Spec, ImportEndsTransaction

\* Steps other than those of a copy leave the backup file, and what was said, alone.
LEMMA NotCopying ==
    ASSUME Next, ~CopySteps, ~RestoreError
    PROVE  saved' = saved /\ told' \in {told, "none"}
<1>1. NoResults => saved' = saved /\ told' = "none"
  BY DEF NoResults, NoCopy
<1>2. UserSql \/ Killed \/ ImportBegin \/ BackupBegin \/ RestoreBegin => NoResults
  BY DEF UserSql, Killed, ImportBegin, BackupBegin, RestoreBegin, CopyBegins
<1>3. DumpBegin => saved' = saved /\ told' = "none"
  BY DEF DumpBegin, NoCopy
<1>4. ImportSteps \/ DumpSteps \/ SchemaFails => saved' = saved /\ told' = told
  BY DEF ImportSteps, ImportLine, ImportEof, ImportEnd, DumpSteps, SchemaQuery, DumpTable, SchemaDone,
     IndexQuery, DumpEnd, SchemaFails, copyVars
<1>5. ASSUME NEW c, RivalSql(c) \/ RivalReadEnd(c) PROVE saved' = saved /\ told' = told
  BY <1>5 DEF RivalSql, RivalReadEnd, copyVars
<1> QED
  BY <1>1, <1>2, <1>3, <1>4, <1>5 DEF Next, Failures

\* Once .restore has begun to copy, nothing else writes the database.
LEMMA OnlyRestore ==
    ASSUME Inv, Next, ~CopySteps, ~RestoreError, cmd = "restore", copied > 0
    PROVE  disk' = disk
<1>1. lock[shell] = "pending"
  BY DEF Inv, Copied
<1>2. Killed => disk' = disk
  BY DEF Killed, Drop
<1>3. ~(UserSql \/ ImportBegin \/ DumpBegin \/ BackupBegin \/ RestoreBegin \/ ImportSteps
        \/ DumpSteps \/ SchemaFails)
  BY DEF UserSql, ImportBegin, DumpBegin, BackupBegin, RestoreBegin, CopyBegins, ImportSteps,
     ImportLine, ImportEof, ImportEnd, DumpSteps, SchemaQuery, DumpTable, SchemaDone, IndexQuery,
     DumpEnd, SchemaFails
<1>4. ASSUME NEW c \in Conn \ {shell}, RivalSql(c) \/ RivalReadEnd(c) PROVE disk' = disk
  BY <1>1, <1>4, RivalLocks
<1> QED
  BY <1>2, <1>3, <1>4 DEF Next, Failures

\* .backup and .restore copy one state of their source, or nothing.
THEOREM Faithful == Spec => CopyFaithful
<1>1. ASSUME Inv, [Next]_vars
      PROVE  /\ saved' # saved => cmd = "backup" /\ told' = "ok" /\ saved' = disk
             /\ cmd = "restore" /\ copied > 0 /\ disk' # disk => told' = "ok" /\ disk' = saved
             /\ told # "ok" /\ told' = "ok" => saved' = disk'
  <2>1. CASE UNCHANGED vars
    BY <2>1 DEF vars, db, copyVars
  <2>2. CASE BackupStep
    <3>1. cmd = "backup" /\ disk' = disk
      BY <2>2 DEF BackupStep, db
    <3> QED
      BY <1>1, <2>2, <3>1, BackupStepStep
  <2>3. CASE RestoreStep
    <3>1. cmd = "restore" /\ (~AllCopied => told' = told)
      BY <2>3 DEF RestoreStep
    <3> QED
      BY <1>1, <2>3, <3>1, RestoreStepStep
  <2>4. CASE RestoreBusy \/ RestoreError
    BY <1>1, <2>4, RestoreWaits
  <2>5. CASE Next /\ ~CopySteps /\ ~RestoreError
    BY <1>1, <2>5, NotCopying, OnlyRestore
  <2> QED
    BY <1>1, <2>1, <2>2, <2>3, <2>4, <2>5 DEF CopySteps
<1>2. Inv /\ [Next]_vars =>
        [/\ saved' # saved => cmd = "backup" /\ told' = "ok" /\ saved' = disk
         /\ cmd = "restore" /\ copied > 0 /\ disk' # disk => told' = "ok" /\ disk' = saved
         /\ told # "ok" /\ told' = "ok" => saved' = disk']_vars
  BY <1>1
<1> QED
  BY <1>2, Invariance, PTL DEF Spec, CopyFaithful

-----------------------------------------------------------------------------
(* What a query leaves out.                                                  *)

\* Where, as a machine that reads the sequence.
Keeping(X, W) == [p \in Seq(X) \X X |-> IF p[2] \in W THEN p[1] \o <<p[2]>> ELSE p[1]]

KeepsWanted(X, W) ==
    /\ Keeping(X, W) \in [Seq(X) \X X -> Seq(X)] /\ <<>> \in Seq(X)
    /\ \A v \in Seq(X), x \in X : Keeping(X, W)[<<v, x>>] = IF x \in W THEN v \o <<x>> ELSE v

LEMMA KeepingIs ==
    ASSUME NEW X, NEW W
    PROVE  KeepsWanted(X, W)
<1>1. ASSUME NEW v \in Seq(X), NEW x \in X PROVE v \o <<x>> \in Seq(X)
  BY ConcatProperties
<1>2. ASSUME NEW p \in Seq(X) \X X
      PROVE  (IF p[2] \in W THEN p[1] \o <<p[2]>> ELSE p[1]) \in Seq(X)
  BY <1>1
<1> QED BY <1>2 DEF Keeping, KeepsWanted

LEMMA WhereRuns ==
    ASSUME NEW X, NEW W, NEW s \in Seq(X)
    PROVE  Where(s, W) = Run(Keeping(X, W), <<>>, s)
<1> DEFINE step == Keeping(X, W)
           size == Len(s)
           r == Runs(step, <<>>, s)
           Is(f) == f = [i \in 0..size |->
                          IF i = 0 THEN <<>>
                          ELSE IF s[i] \in W THEN f[i - 1] \o <<s[i]>> ELSE f[i - 1]]
           found == CHOOSE f : Is(f)
<1>0. KeepsWanted(X, W)
  BY KeepingIs
<1>1. /\ step \in [Seq(X) \X X -> Seq(X)] /\ <<>> \in Seq(X)
      /\ \A v \in Seq(X), x \in X : step[<<v, x>>] = IF x \in W THEN v \o <<x>> ELSE v
  BY <1>0 DEF KeepsWanted
<1>2. size \in Nat /\ \A i \in 1..size : s[i] \in X
  BY ElementOfSeq
<1>3. Where(s, W) = found[size]
  BY DEF Where
<1> HIDE DEF step
<1>4. Reads(step, <<>>, s, Seq(X), r)
  BY <1>1, RunsAre
<1> HIDE DEF r
<1>5. /\ r \in [0..size -> Seq(X)] /\ r[0] = <<>>
      /\ \A i \in 1..size : r[i] = step[<<r[i - 1], s[i]>>]
  BY <1>4 DEF Reads
<1> HIDE DEF size
<1>6. ASSUME NEW i \in 0..size
      PROVE  r[i] = IF i = 0 THEN <<>>
                    ELSE IF s[i] \in W THEN r[i - 1] \o <<s[i]>> ELSE r[i - 1]
  <2>1. CASE i = 0
    BY <2>1, <1>5
  <2>2. CASE i # 0
    <3>1. i \in 1..size /\ i - 1 \in 0..size
      BY <2>2, <1>2
    <3>2. r[i - 1] \in Seq(X) /\ s[i] \in X
      BY <3>1, <1>2, <1>5
    <3> QED BY <3>1, <3>2, <1>1, <1>5, <2>2
  <2> QED BY <2>1, <2>2
<1>7. Is(r)
  BY <1>5, <1>6
<1>8. Is(found)
  <2> HIDE DEF Is
  <2> QED BY <1>7, Zenon
<1> HIDE DEF found
<1>9. found[0] = <<>>
  BY <1>2, <1>8
<1>10. ASSUME NEW i \in 1..size, found[i - 1] \in Seq(X)
       PROVE  found[i] = step[<<found[i - 1], s[i]>>]
  <2>1. i \in 0..size /\ i # 0 /\ s[i] \in X
    BY <1>2
  <2>2. found[i] = IF s[i] \in W THEN found[i - 1] \o <<s[i]>> ELSE found[i - 1]
    BY <2>1, <1>8
  <2> QED BY <2>1, <2>2, <1>1, <1>10
<1>11. Makes(step, <<>>, s, Seq(X), found)
  BY <1>9, <1>10 DEF Makes, size
<1> HIDE DEF Is
<1>12. found[Len(s)] = Run(step, <<>>, s)
  <2> DEFINE V == Seq(X)
             e == <<>>
  <2>1. /\ e \in V /\ step \in [V \X X -> V] /\ s \in Seq(X)
        /\ Makes(step, e, s, V, found)
    BY <1>1, <1>11
  <2> HIDE DEF V, e
  <2>2. EndsAsRun(step, e, s, found)
    BY <2>1, RunIs
  <2> QED BY <2>2 DEF e, EndsAsRun
<1> QED BY <1>3, <1>12 DEF size, step

LEMMA WhereTyped ==
    ASSUME NEW X, NEW W, NEW s \in Seq(X)
    PROVE  Where(s, W) \in Seq(X)
<1>1. /\ Keeping(X, W) \in [Seq(X) \X X -> Seq(X)] /\ <<>> \in Seq(X)
  BY KeepingIs DEF KeepsWanted
<1>2. Where(s, W) = Run(Keeping(X, W), <<>>, s)
  BY WhereRuns
<1> QED BY <1>1, <1>2, RunTyped

LEMMA WhereEmpty == \A W : Where(<<>>, W) = <<>>
<1> TAKE W
<1>1. <<>> \in Seq({})
  OBVIOUS
<1>2. Where(<<>>, W) = Run(Keeping({}, W), <<>>, <<>>)
  BY <1>1, WhereRuns
<1>3. Keeping({}, W) \in [Seq({}) \X {} -> Seq({})]
  BY KeepingIs DEF KeepsWanted
<1> QED BY <1>1, <1>2, <1>3, RunEmpty

LEMMA WhereOne ==
    ASSUME NEW X, NEW W, NEW x \in X
    PROVE  Where(<<x>>, W) = IF x \in W THEN <<x>> ELSE <<>>
<1>1. <<x>> \in Seq(X) /\ <<>> \in Seq(X) /\ <<>> \o <<x>> = <<x>>
  OBVIOUS
<1>2. Where(<<x>>, W) = Run(Keeping(X, W), <<>>, <<x>>)
  BY <1>1, WhereRuns
<1>3. /\ Keeping(X, W) \in [Seq(X) \X X -> Seq(X)]
      /\ \A v \in Seq(X), y \in X : Keeping(X, W)[<<v, y>>] = IF y \in W THEN v \o <<y>> ELSE v
  BY KeepingIs DEF KeepsWanted
<1>4. Run(Keeping(X, W), <<>>, <<x>>) = Keeping(X, W)[<<<<>>, x>>]
  <2> DEFINE V == Seq(X)
             e == <<>>
             step == Keeping(X, W)
  <2>1. e \in V /\ step \in [V \X X -> V] /\ x \in X
    BY <1>1, <1>3
  <2> HIDE DEF V, e, step
  <2>2. Run(step, e, <<x>>) = step[<<e, x>>]
    BY <2>1, RunOne, SMTT(60)
  <2> QED BY <2>2 DEF e, step
<1> QED BY <1>1, <1>2, <1>3, <1>4

LEMMA WhereConcat ==
    ASSUME NEW X, NEW W, NEW s \in Seq(X), NEW t \in Seq(X)
    PROVE  Where(s \o t, W) = Where(s, W) \o Where(t, W)
<1> DEFINE step == Keeping(X, W)
           v == Where(s, W)
           w == Where(t, W)
           R == {p \in Seq(X) \X Seq(X) : p[1] = v \o p[2]}
<1>0. KeepsWanted(X, W)
  BY KeepingIs
<1>1. /\ step \in [Seq(X) \X X -> Seq(X)] /\ <<>> \in Seq(X)
      /\ \A y \in Seq(X), x \in X : step[<<y, x>>] = IF x \in W THEN y \o <<x>> ELSE y
  BY <1>0 DEF KeepsWanted
<1>2. s \o t \in Seq(X)
  BY ConcatProperties
<1>3. v \in Seq(X) /\ v = Run(step, <<>>, s) /\ w = Run(step, <<>>, t)
      /\ Where(s \o t, W) = Run(step, <<>>, s \o t)
  BY <1>2, WhereTyped, WhereRuns
<1> HIDE DEF step, v, w
<1>4. Continues(step, <<>>, s, t)
  BY <1>1, RunConcat
<1>5. <<v, <<>>>> \in R
  <2>1. v = v \o <<>>
    BY <1>3, ConcatEmptySeq
  <2>2. <<v, <<>>>> \in Seq(X) \X Seq(X)
    BY <1>1, <1>3
  <2> QED BY <2>1, <2>2
<1>6. ASSUME NEW v1, NEW v2, NEW x \in X, <<v1, v2>> \in R
      PROVE  <<step[<<v1, x>>], step[<<v2, x>>]>> \in R
  <2>1. v1 \in Seq(X) /\ v2 \in Seq(X) /\ v1 = v \o v2 /\ <<x>> \in Seq(X)
    BY <1>6
  <2>2. (v \o v2) \o <<x>> = v \o (v2 \o <<x>>)
    BY <1>3, <2>1, ConcatAssociative
  <2>3. v1 \o <<x>> \in Seq(X) /\ v2 \o <<x>> \in Seq(X)
    BY <2>1, ConcatProperties
  <2> QED BY <1>1, <2>1, <2>2, <2>3
<1>7. Agree(step, step, R, X)
  <2> HIDE DEF R
  <2> QED BY <1>6 DEF Agree
<1>8. <<Run(step, v, t), Run(step, <<>>, t)>> \in R
  <2> HIDE DEF R
  <2> QED BY <1>1, <1>3, <1>5, <1>7, RunTogether
<1> QED BY <1>3, <1>4, <1>8 DEF Continues, v, w

-----------------------------------------------------------------------------
(* What a dump prints.                                                       *)

Entries == [put : {"rows", "part", "bare", "virtual", "on", "off"}, table : Table, rows : SUBSET Row]
\* As long as the dump may end in COMMIT and be trusted.
Good == dump.nErr = 0 /\ ~dump.lost
Dumped == Dumping \/ ended # "none"

Lists == Seq(Table)
DumpTyped ==
    /\ dump.asked \in Seq(Lists) /\ Len(dump.asked) <= 2
    /\ Dumped => Len(dump.asked) > 0
    /\ dump.queries \in Seq(Lists) /\ Len(dump.queries) <= Len(dump.asked)
    /\ cmd = "rows" => Len(dump.queries) < Len(dump.asked)
    /\ cmd = "release" \/ ended # "none" => dump.queries = <<>>
    /\ dump.left \in Seq(Table) /\ (cmd # "rows" => dump.left = <<>>)
    /\ dump.nErr \in {0, 1} /\ (ended = "COMMIT" => dump.nErr = 0) /\ dump.snap \in SUBSET Row
    /\ dump.writableSchema \in BOOLEAN /\ dump.read \in BOOLEAN /\ dump.failed \in BOOLEAN
    /\ text \in Seq(Entries)

\* What was read first is what the shell still sees: its lock keeps rivals from
\* committing.
Fixed ==
    /\ Dumping /\ ~dump.lost /\ dump.read => lock[shell] # "none" /\ Visible = dump.snap
    /\ Dumping /\ ~dump.read => text = <<>> /\ cmd # "rows"

\* The tables still to come, those of all queries.
Flat(qs) == IF qs = <<>> THEN <<>> ELSE IF Len(qs) = 1 THEN qs[1] ELSE qs[1] \o qs[2]
Names(s) == [i \in DOMAIN s |-> s[i].table]
IdealOf(t, snap) ==
    [put |-> IF Kind[t] = "virtual" THEN "virtual" ELSE "rows", table |-> t,
     rows |-> IF Kind[t] = "virtual" THEN {} ELSE RowsIn(snap, t)]
\* Every entry is as it should be, or the query of sqlite_master failed at it.
AllIdeal(s, snap, failed) ==
    \A i \in DOMAIN s : \/ s[i] = IdealOf(s[i].table, snap)
                        \/ failed /\ s[i].put = "bare"

\* s: what was printed; left: the tables left; asked: the tables asked for.
Complete(s, left, asked) == Names(s) \o Where(left, Listed) = Where(asked, Listed)

Content ==
    Dumped /\ Good =>
        /\ AllIdeal(Printed, dump.snap, dump.failed)
        /\ ~dump.failed => Complete(Printed, dump.left \o Flat(dump.queries), Flat(dump.asked))

\* Where the entries of one kind are.
Marks(s, put) == {i \in DOMAIN s : s[i].put = put}
Switched(s, on) ==
    /\ Marks(s, "off") = {}
    /\ on => (\E i : Marks(s, "on") = {i}) /\ Marks(s, "virtual") # {}
    /\ ~on => Marks(s, "on") = {} /\ Marks(s, "virtual") = {}
Closed(s) ==
    \A put \in {"on", "off"} :
        Cardinality(Marks(s, put)) = IF Marks(s, "virtual") # {} THEN 1 ELSE 0

Switches ==
    /\ Dumping /\ Good => Switched(text, dump.writableSchema)
    /\ ended = "COMMIT" /\ Good => Closed(text)

DumpInv == DumpTyped /\ Fixed /\ Content /\ Switches

(* Lemmas about what is printed.                                             *)

LEMMA MarksConcat ==
    ASSUME NEW s \in Seq(Entries), NEW e \in Entries, NEW put
    PROVE  Marks(s \o <<e>>, put) =
           IF e.put = put THEN Marks(s, put) \cup {Len(s) + 1} ELSE Marks(s, put)
<1> DEFINE u == s \o <<e>>
           size == Len(s)
<1>1. <<e>> \in Seq(Entries) /\ Len(<<e>>) = 1 /\ <<e>>[1] = e /\ size \in Nat /\ DOMAIN s = 1..size
  BY LenProperties
<1>2. u \in Seq(Entries) /\ Len(u) = size + 1
  BY <1>1, ConcatProperties
<1>3. \A i \in 1..(size + Len(<<e>>)) : u[i] = IF i <= size THEN s[i] ELSE <<e>>[i - size]
  BY <1>1, ConcatProperties
<1>4. DOMAIN u = 1..(size + 1)
  BY <1>2, LenProperties
<1> HIDE DEF u
<1>5. \A i \in 1..size : u[i] = s[i]
  BY <1>1, <1>3
<1>6. u[size + 1] = e
  <2>1. size + 1 \in 1..(size + Len(<<e>>)) /\ ~(size + 1 <= size) /\ (size + 1) - size = 1
    BY <1>1
  <2> QED BY <2>1, <1>1, <1>3
<1> HIDE DEF size
<1>7. 1..(size + 1) = (1..size) \cup {size + 1}
  BY <1>1
<1>8. Marks(u, put) = {i \in (1..size) \cup {size + 1} : u[i].put = put}
  BY <1>4, <1>7 DEF Marks
<1>9. Marks(s, put) = {i \in 1..size : u[i].put = put}
  BY <1>1, <1>5 DEF Marks
<1> QED BY <1>6, <1>8, <1>9 DEF u, size

LEMMA SwitchedRows ==
    ASSUME NEW s \in Seq(Entries), NEW on \in BOOLEAN, Switched(s, on),
           NEW e \in Entries, e.put \in {"rows", "part", "bare"}
    PROVE  Switched(s \o <<e>>, on)
<1>1. \A put \in {"on", "off", "virtual"} : Marks(s \o <<e>>, put) = Marks(s, put)
  BY MarksConcat
<1> QED BY <1>1 DEF Switched

LEMMA SwitchedVirtual ==
    ASSUME NEW s \in Seq(Entries), NEW on \in BOOLEAN, Switched(s, on),
           NEW e \in Entries, e.put = "on", NEW v \in Entries, v.put = "virtual"
    PROVE  Switched((IF on THEN s ELSE s \o <<e>>) \o <<v>>, TRUE)
<1> DEFINE u == IF on THEN s ELSE s \o <<e>>
<1>1. u \in Seq(Entries) /\ Len(u) \in Nat
  BY ConcatProperties, LenProperties
<1>2. (\E i : Marks(u, "on") = {i}) /\ Marks(u, "off") = {}
  <2>1. CASE on
    BY <2>1 DEF Switched
  <2>2. CASE ~on
    <3>1. Marks(s \o <<e>>, "on") = Marks(s, "on") \cup {Len(s) + 1}
      BY MarksConcat
    <3>2. Marks(s \o <<e>>, "off") = Marks(s, "off")
      BY MarksConcat
    <3> QED BY <2>2, <3>1, <3>2 DEF Switched
  <2> QED BY <2>1, <2>2
<1> HIDE DEF u
<1>3. /\ Marks(u \o <<v>>, "on") = Marks(u, "on") /\ Marks(u \o <<v>>, "off") = Marks(u, "off")
  BY <1>1, MarksConcat
<1>4. Marks(u \o <<v>>, "virtual") = Marks(u, "virtual") \cup {Len(u) + 1}
  <2>1. Marks(u \o <<v>>, v.put) = Marks(u, v.put) \cup {Len(u) + 1}
    BY <1>1, MarksConcat
  <2> QED BY <2>1
<1>5. Switched(u \o <<v>>, TRUE)
  BY <1>2, <1>3, <1>4 DEF Switched
<1> QED BY <1>5 DEF u

LEMMA SwitchedOff ==
    ASSUME NEW s \in Seq(Entries), NEW on \in BOOLEAN, Switched(s, on),
           NEW e \in Entries, e.put = "off"
    PROVE  Closed(IF on THEN s \o <<e>> ELSE s)
<1>1. \A x : Cardinality({x}) = 1
  BY FS_Singleton
<1>2. Cardinality({}) = 0
  BY FS_EmptySet
<1>3. CASE on
  <2>1. /\ Marks(s \o <<e>>, "on") = Marks(s, "on")
        /\ Marks(s \o <<e>>, "virtual") = Marks(s, "virtual")
    BY MarksConcat
  <2>2. Marks(s \o <<e>>, "off") = Marks(s, "off") \cup {Len(s) + 1}
    BY MarksConcat
  <2>3. PICK i : Marks(s, "on") = {i}
    BY <1>3 DEF Switched
  <2>4. Marks(s, "virtual") # {} /\ Marks(s, "off") = {}
    BY <1>3 DEF Switched
  <2>5. Marks(s \o <<e>>, "off") = {Len(s) + 1}
    BY <2>2, <2>4
  <2>6. /\ Cardinality(Marks(s \o <<e>>, "on")) = 1 /\ Cardinality(Marks(s \o <<e>>, "off")) = 1
        /\ Marks(s \o <<e>>, "virtual") # {}
    BY <1>1, <2>1, <2>3, <2>4, <2>5
  <2>7. Closed(s \o <<e>>)
    BY <2>6 DEF Closed
  <2> QED BY <1>3, <2>7
<1>4. CASE ~on
  <2>1. Closed(s)
    BY <1>2, <1>4 DEF Switched, Closed
  <2> QED BY <1>4, <2>1
<1> QED BY <1>3, <1>4

LEMMA NamesTyped ==
    ASSUME NEW s \in Seq(Entries)
    PROVE  Names(s) \in Seq(Table) /\ Len(Names(s)) = Len(s) /\ DOMAIN Names(s) = DOMAIN s
<1> DEFINE size == Len(s)
           f == Names(s)
<1>1. size \in Nat /\ DOMAIN s = 1..size
  BY LenProperties
<1>2. f = [i \in 1..size |-> s[i].table]
  BY <1>1 DEF Names
<1>3. \A i \in 1..size : s[i] \in Entries
  BY ElementOfSeq
<1>4. f \in [1..size -> Table]
  BY <1>2, <1>3 DEF Entries
<1> QED BY <1>1, <1>4, SeqMadeOf

LEMMA NamesMore ==
    ASSUME NEW s \in Seq(Entries), NEW e \in Entries
    PROVE  Names(s \o <<e>>) = Names(s) \o <<e.table>>
<1> DEFINE u == s \o <<e>>
           size == Len(s)
           f == Names(s)
           g == Names(u)
           h == f \o <<e.table>>
<1>1. <<e>> \in Seq(Entries) /\ Len(<<e>>) = 1 /\ <<e>>[1] = e /\ size \in Nat /\ DOMAIN s = 1..size
  BY LenProperties
<1>2. u \in Seq(Entries) /\ Len(u) = size + 1
  BY <1>1, ConcatProperties
<1>3. \A i \in 1..(size + Len(<<e>>)) : u[i] = IF i <= size THEN s[i] ELSE <<e>>[i - size]
  BY <1>1, ConcatProperties
<1>4. DOMAIN u = 1..(size + 1)
  BY <1>2, LenProperties
<1>5. f = [i \in 1..size |-> s[i].table] /\ g = [i \in 1..(size + 1) |-> u[i].table]
  BY <1>1, <1>4 DEF Names
<1>8. f \in Seq(Table) /\ Len(f) = size /\ DOMAIN f = 1..size
  BY <1>1, NamesTyped
<1> HIDE DEF f
<1>9. e.table \in Table
  BY DEF Entries
<1> DEFINE one == <<e.table>>
<1>10. one \in Seq(Table) /\ Len(one) = 1 /\ one[1] = e.table
  BY <1>9
<1>11. h \in Seq(Table) /\ Len(h) = size + 1
  BY <1>8, <1>10, ConcatProperties
<1>12. \A i \in 1..(size + Len(one)) : h[i] = IF i <= size THEN f[i] ELSE one[i - size]
  BY <1>8, <1>10, ConcatProperties
<1>13. DOMAIN h = 1..(size + 1)
  BY <1>11, LenProperties
<1> HIDE DEF u, h, g, one, size
<1>14. \A i \in 1..size : g[i] = h[i]
  <2> SUFFICES ASSUME NEW i \in 1..size PROVE g[i] = h[i]
    OBVIOUS
  <2>1. i \in 1..(size + 1) /\ i \in 1..(size + Len(one)) /\ i \in 1..(size + Len(<<e>>)) /\ i <= size
    BY <1>1, <1>10
  <2>2. u[i] = s[i]
    BY <1>3, <2>1
  <2>3. h[i] = f[i]
    BY <1>12, <2>1
  <2>4. g[i] = u[i].table /\ f[i] = s[i].table
    BY <1>5, <2>1
  <2> QED BY <2>2, <2>3, <2>4
<1>15. g[size + 1] = h[size + 1]
  <2>1. /\ size + 1 \in 1..(size + 1) /\ size + 1 \in 1..(size + Len(one)) /\ size + 1 \in 1..(size + Len(<<e>>))
        /\ ~(size + 1 <= size) /\ (size + 1) - size = 1
    BY <1>1, <1>10
  <2>2. u[size + 1] = e
    BY <1>1, <1>3, <2>1
  <2>3. h[size + 1] = e.table
    BY <1>10, <1>12, <2>1
  <2>4. g[size + 1] = u[size + 1].table
    BY <1>5, <2>1
  <2> QED BY <2>2, <2>3, <2>4
<1>16. \A i \in 1..(size + 1) : g[i] = h[i]
  BY <1>1, <1>14, <1>15
<1>17. g = [i \in 1..(size + 1) |-> g[i]]
  BY <1>5
<1>18. h = [i \in 1..(size + 1) |-> h[i]]
  BY <1>11, <1>13
<1>19. g = h
  BY <1>16, <1>17, <1>18
<1> QED BY <1>8, <1>19, <1>1 DEF g, h, u, f, size, one

LEMMA IdealMore ==
    ASSUME NEW s \in Seq(Entries), NEW snap, NEW failed, AllIdeal(s, snap, failed),
           NEW t \in Table, NEW e \in Entries,
           e = IdealOf(t, snap) \/ (failed /\ e.put = "bare")
    PROVE  AllIdeal(s \o <<e>>, snap, failed)
<1> DEFINE u == s \o <<e>>
           size == Len(s)
<1>1. <<e>> \in Seq(Entries) /\ Len(<<e>>) = 1 /\ <<e>>[1] = e /\ size \in Nat /\ DOMAIN s = 1..size
  BY LenProperties
<1>2. u \in Seq(Entries) /\ Len(u) = size + 1
  BY <1>1, ConcatProperties
<1>3. \A i \in 1..(size + Len(<<e>>)) : u[i] = IF i <= size THEN s[i] ELSE <<e>>[i - size]
  BY <1>1, ConcatProperties
<1>4. DOMAIN u = 1..(size + 1)
  BY <1>2, LenProperties
<1> HIDE DEF u, size
<1>5. e = IdealOf(t, snap) => e.table = t
  BY DEF IdealOf
<1>6. ASSUME NEW i \in 1..(size + 1)
      PROVE  u[i] = IdealOf(u[i].table, snap) \/ (failed /\ u[i].put = "bare")
  <2>1. CASE i <= size
    <3>1. i \in DOMAIN s /\ u[i] = s[i]
      BY <1>1, <1>3, <2>1
    <3> QED BY <3>1 DEF AllIdeal
  <2>2. CASE ~(i <= size)
    <3>1. i - size = 1 /\ i \in 1..(size + Len(<<e>>))
      BY <1>1, <2>2
    <3>2. u[i] = e
      BY <1>1, <1>3, <2>2, <3>1
    <3> QED BY <1>5, <3>2
  <2> QED BY <2>1, <2>2
<1> QED BY <1>4, <1>6 DEF AllIdeal, u

(* The tables that are left, from query to query.                            *)

LEMMA OneOrTwo ==
    ASSUME NEW T, NEW q \in Seq(T), q # <<>>, Len(q) <= 2
    PROVE  /\ Head(q) = q[1] /\ Head(q) \in T /\ Tail(q) \in Seq(T) /\ Len(Tail(q)) = Len(q) - 1
           /\ \/ Len(q) = 1 /\ Tail(q) = <<>>
              \/ Len(q) = 2 /\ Tail(q) # <<>> /\ Len(Tail(q)) = 1 /\ Tail(q)[1] = q[2] /\ q[2] \in T
<1>0. Len(q) \in Nat /\ Len(q) # 0
  BY LenProperties, EmptySeq
<1>1. Len(q) \in {1, 2}
  <2> DEFINE l == Len(q)
  <2>1. l \in Nat /\ l # 0 /\ l <= 2
    BY <1>0
  <2> HIDE DEF l
  <2>2. l \in {1, 2}
    BY <2>1
  <2> QED BY <2>2 DEF l
<1>11. Head(q) = q[1]
  OBVIOUS
<1>2. /\ Head(q) \in T /\ Tail(q) \in Seq(T) /\ Len(Tail(q)) = Len(q) - 1
      /\ \A k \in 1..Len(Tail(q)) : Tail(q)[k] = q[k + 1]
  BY HeadTailProperties
<1>3. Tail(q) = <<>> <=> Len(Tail(q)) = 0
  BY <1>2, EmptySeq
<1>4. ASSUME Len(q) = 2 PROVE Len(Tail(q)) = 1 /\ Tail(q)[1] = q[2]
  <2>1. Len(Tail(q)) = 1 /\ 1 \in 1..1 /\ 1 + 1 = 2
    BY <1>2, <1>4
  <2> QED BY <2>1, <1>2
<1>5. Len(q) = 2 => q[2] \in T
  <2>1. Len(q) = 2 => 2 \in 1..Len(q)
    OBVIOUS
  <2> QED BY <2>1, ElementOfSeq
<1>6. Len(q) = 1 => Len(Tail(q)) = 0
  BY <1>2
<1> QED BY <1>1, <1>11, <1>2, <1>3, <1>4, <1>5, <1>6

LEMMA FlatHead ==
    ASSUME NEW qs \in Seq(Lists), Len(qs) <= 2
    PROVE  /\ Flat(qs) \in Lists /\ Flat(<<>>) = <<>>
           /\ qs # <<>> => /\ Flat(qs) = Head(qs) \o Flat(Tail(qs))
                           /\ Head(qs) \in Lists /\ Tail(qs) \in Seq(Lists)
                           /\ Len(Tail(qs)) = Len(qs) - 1
<1> DEFINE A == Flat(qs)
           B == Flat(Tail(qs))
<1>0. <<>> \in Lists
  BY DEF Lists
<1>1. \A x, y \in Lists : x \o y \in Lists /\ x \o <<>> = x
  BY ConcatProperties, ConcatEmptySeq DEF Lists
<1>2. Flat(<<>>) = <<>>
  BY DEF Flat
<1>3. CASE qs = <<>>
  BY <1>0, <1>2, <1>3
<1>4. CASE qs # <<>>
  <2>1. /\ Head(qs) = qs[1] /\ Head(qs) \in Lists /\ Tail(qs) \in Seq(Lists)
        /\ Len(Tail(qs)) = Len(qs) - 1
        /\ \/ Len(qs) = 1 /\ Tail(qs) = <<>>
           \/ Len(qs) = 2 /\ Tail(qs) # <<>> /\ Len(Tail(qs)) = 1 /\ Tail(qs)[1] = qs[2] /\ qs[2] \in Lists
    BY <1>0, <1>4, OneOrTwo
  <2>2. A \in Lists /\ A = Head(qs) \o B
    <3>1. CASE Len(qs) = 1 /\ Tail(qs) = <<>>
      <4>1. A = Head(qs) /\ B = <<>>
        BY <1>4, <2>1, <3>1, <1>2 DEF Flat
      <4> HIDE DEF A, B
      <4> QED BY <4>1, <1>1, <2>1
    <3>2. CASE Len(qs) = 2 /\ Tail(qs) # <<>> /\ Len(Tail(qs)) = 1 /\ Tail(qs)[1] = qs[2] /\ qs[2] \in Lists
      <4>1. A = Head(qs) \o qs[2]
        BY <1>4, <2>1, <3>2 DEF Flat
      <4>2. B = qs[2]
        BY <3>2 DEF Flat
      <4> HIDE DEF A, B
      <4> QED BY <4>1, <4>2, <1>1, <2>1, <3>2
    <3> QED BY <2>1, <3>1, <3>2
  <2> HIDE DEF A, B
  <2> QED BY <1>2, <2>1, <2>2 DEF A, B
<1> QED BY <1>3, <1>4

LEMMA AskedIs ==
    ASSUME NEW qs \in Seq(Lists), Len(qs) > 0
    PROVE  Flat(qs) = IF Len(qs) = 1 THEN qs[1] ELSE qs[1] \o qs[2]
<1>1. qs # <<>>
  OBVIOUS
<1> QED BY <1>1 DEF Flat

\* The next table is not in the dump, or it is printed.
LEMMA NextTable ==
    ASSUME NEW s \in Seq(Entries), NEW asked \in Seq(Table),
           NEW left \in Seq(Table), left # <<>>, NEW rest \in Seq(Table)
    PROVE  /\ Complete(s, left \o rest, asked) /\ Head(left) \notin Listed =>
                 Complete(s, Tail(left) \o rest, asked)
           /\ \A e \in Entries :
                 Complete(s, left \o rest, asked) /\ Head(left) \in Listed /\ e.table = Head(left) =>
                     Complete(s \o <<e>>, Tail(left) \o rest, asked)
<1> DEFINE t == Head(left)
           z == Tail(left) \o rest
           one == <<t>>
<1>1. t \in Table /\ Tail(left) \in Seq(Table) /\ one \in Seq(Table)
      /\ left = one \o Tail(left)
  BY HeadTailProperties
<1>2. z \in Seq(Table)
  BY <1>1, ConcatProperties
<1>3. left \o rest = one \o z
  BY <1>1, ConcatAssociative
<1>4. Names(s) \in Seq(Table)
  BY NamesTyped
<1>5. Where(z, Listed) \in Seq(Table)
  BY <1>2, WhereTyped
<1>6. Where(one, Listed) = IF t \in Listed THEN one ELSE <<>>
  BY <1>1, WhereOne
<1> HIDE DEF z
<1>7. Where(one \o z, Listed) = Where(one, Listed) \o Where(z, Listed)
  BY <1>1, <1>2, WhereConcat
<1>8. ASSUME Complete(s, left \o rest, asked), t \notin Listed
      PROVE  Complete(s, z, asked)
  <2>1. <<>> \o Where(z, Listed) = Where(z, Listed)
    BY <1>5, ConcatEmptySeq
  <2> QED BY <1>3, <1>6, <1>7, <1>8, <2>1 DEF Complete
<1>9. ASSUME NEW e \in Entries, Complete(s, left \o rest, asked), t \in Listed, e.table = t
      PROVE  Complete(s \o <<e>>, z, asked)
  <2>1. Names(s \o <<e>>) = Names(s) \o one
    BY <1>9, NamesMore
  <2>2. (Names(s) \o one) \o Where(z, Listed) = Names(s) \o (one \o Where(z, Listed))
    <3> DEFINE x == Names(s)
               y == Where(z, Listed)
    <3>1. x \in Seq(Table) /\ y \in Seq(Table) /\ one \in Seq(Table)
      BY <1>1, <1>4, <1>5
    <3> HIDE DEF x, y, one
    <3>2. (x \o one) \o y = x \o (one \o y)
      BY <3>1, ConcatAssociative
    <3> QED BY <3>2 DEF x, y
  <2> QED BY <1>3, <1>6, <1>7, <1>9, <2>1, <2>2 DEF Complete
<1> QED BY <1>8, <1>9 DEF z

\* What an entry adds to the printed ones.
LEMMA PrintedMore ==
    ASSUME NEW s \in Seq(Entries), NEW e \in Entries
    PROVE  /\ s \o <<e>> \in Seq(Entries) /\ Where(s, Puts) \in Seq(Entries)
           /\ e.put \notin {"on", "off"} => Where(s \o <<e>>, Puts) = Where(s, Puts) \o <<e>>
           /\ e.put \in {"on", "off"} => Where(s \o <<e>>, Puts) = Where(s, Puts)
<1>1. <<e>> \in Seq(Entries)
  OBVIOUS
<1>2. s \o <<e>> \in Seq(Entries)
  BY <1>1, ConcatProperties
<1>3. Where(s, Puts) \in Seq(Entries)
  BY WhereTyped
<1>4. Where(s \o <<e>>, Puts) = Where(s, Puts) \o Where(<<e>>, Puts)
  BY <1>1, WhereConcat
<1>5. Where(<<e>>, Puts) = IF e \in Puts THEN <<e>> ELSE <<>>
  BY WhereOne
<1>6. e \in Puts <=> e.put \notin {"on", "off"}
  BY DEF Entries, Puts
<1>7. Where(s, Puts) \o <<>> = Where(s, Puts)
  BY <1>3, ConcatEmptySeq
<1> QED BY <1>2, <1>3, <1>4, <1>5, <1>6, <1>7

(* Every step preserves what is said of the dump.                            *)

LEMMA QuietDump ==
    ASSUME DumpInv, UNCHANGED dumpVars, ~Dumping, ~Dumping'
    PROVE  DumpInv'
<1>1. dump' = dump /\ text' = text /\ ended' = ended /\ Printed' = Printed
  BY DEF dumpVars, Printed
<1>2. DumpTyped'
  BY <1>1 DEF DumpInv, DumpTyped, Dumped, Dumping
<1>3. Fixed' /\ Content' /\ Switches'
  BY <1>1 DEF DumpInv, Fixed, Content, Switches, Dumped, Good
<1> QED BY <1>2, <1>3 DEF DumpInv

\* The next command takes the place of the dump.
LEMMA FreshDump ==
    ASSUME dump' = NoDump, text' = <<>>, ended' = "none", ~Dumping'
    PROVE  DumpInv'
<1>1. /\ NoDump.asked = <<>> /\ NoDump.queries = <<>> /\ NoDump.left = <<>>
      /\ NoDump.nErr = 0 /\ NoDump.snap = {} /\ NoDump.writableSchema = FALSE
      /\ NoDump.read = FALSE /\ NoDump.failed = FALSE
  BY DEF NoDump
<1>11. /\ dump'.asked = <<>> /\ dump'.queries = <<>> /\ dump'.left = <<>>
       /\ dump'.nErr = 0 /\ dump'.snap = {} /\ dump'.writableSchema = FALSE
       /\ dump'.read = FALSE /\ dump'.failed = FALSE
  BY <1>1
<1>12. ~Dumped' /\ cmd' \notin {"rows", "release"}
  BY DEF Dumped, Dumping
<1>2. DumpTyped'
  <2>1. <<>> \in Seq(Lists) /\ <<>> \in Seq(Table) /\ Len(<<>>) = 0 /\ <<>> \in Seq(Entries)
    OBVIOUS
  <2>2. 0 <= 2 /\ 0 <= 0
    OBVIOUS
  <2>3. /\ dump'.asked \in Seq(Lists) /\ Len(dump'.asked) <= 2
        /\ dump'.queries \in Seq(Lists) /\ Len(dump'.queries) <= Len(dump'.asked)
    BY <1>11, <2>1, <2>2
  <2>4. /\ dump'.left \in Seq(Table) /\ dump'.left = <<>> /\ dump'.nErr \in {0, 1}
        /\ dump'.snap \in SUBSET Row /\ dump'.writableSchema \in BOOLEAN
        /\ dump'.read \in BOOLEAN /\ dump'.failed \in BOOLEAN /\ text' \in Seq(Entries)
    BY <1>11, <2>1
  <2> QED BY <1>11, <1>12, <2>3, <2>4 DEF DumpTyped
<1>3. Fixed' /\ Content' /\ Switches'
  BY DEF Fixed, Content, Switches, Dumped
<1> QED BY <1>2, <1>3 DEF DumpInv

LEMMA RivalDump ==
    ASSUME Inv, DumpInv, NEW c \in Conn \ {shell}, RivalSql(c) \/ RivalReadEnd(c)
    PROVE  DumpInv'
<1>1. UNCHANGED <<cmd, dump, text, ended>>
  BY DEF RivalSql, RivalReadEnd, dumpVars
<1>2. Printed' = Printed
  BY <1>1 DEF Printed
<1>3. /\ lock'[shell] = lock[shell] /\ unsaved'[shell] = unsaved[shell]
      /\ lock[shell] # "none" => disk' = disk
  BY RivalEffect, RivalLocks
<1>4. Fixed'
  BY <1>1, <1>3 DEF DumpInv, Fixed, Dumping, Visible
<1>5. DumpTyped' /\ Content' /\ Switches'
  BY <1>1, <1>2 DEF DumpInv, DumpTyped, Content, Switches, Dumped, Dumping, Good
<1> QED BY <1>4, <1>5 DEF DumpInv

\* Nothing is printed yet.
LEMMA NothingPrinted ==
    /\ Where(<<>>, Puts) = <<>> /\ <<>> \in Seq(Entries)
    /\ \A snap, failed : AllIdeal(<<>>, snap, failed)
    /\ \A asked \in Seq(Table) : Complete(<<>>, <<>> \o asked, asked)
    /\ Switched(<<>>, FALSE)
<1>1. Where(<<>>, Puts) = <<>> /\ <<>> \in Seq(Entries)
  BY WhereEmpty
<1>2. \A snap, failed : AllIdeal(<<>>, snap, failed)
  BY DEF AllIdeal
<1>3. ASSUME NEW asked \in Seq(Table) PROVE Complete(<<>>, <<>> \o asked, asked)
  <2>1. Names(<<>>) = <<>>
    BY DEF Names
  <2>2. <<>> \o asked = asked
    BY ConcatEmptySeq
  <2>3. Where(asked, Listed) \in Seq(Table)
    BY WhereTyped
  <2>4. <<>> \o Where(asked, Listed) = Where(asked, Listed)
    BY <2>3, ConcatEmptySeq
  <2> QED BY <2>1, <2>2, <2>4 DEF Complete
<1>4. Switched(<<>>, FALSE)
  BY DEF Switched, Marks
<1> QED BY <1>1, <1>2, <1>3, <1>4

LEMMA BeginDump ==
    ASSUME Inv, DumpInv, DumpBegin
    PROVE  DumpInv'
<1>1. /\ cmd' = "schema" /\ text' = <<>> /\ ended' = "none" /\ cmd = "idle"
  BY DEF DumpBegin
<1>2. PICK ok \in BOOLEAN, q \in {AllQueries} \cup {OneQuery(ts) : ts \in Asks} :
         dump' = [NoDump EXCEPT !.queries = q, !.asked = q, !.opened = ok /\ auto[shell],
                                !.lost = ~ok /\ auto[shell]]
  BY DEF DumpBegin
<1>3. q \in Seq(Lists) /\ Len(q) \in {1, 2}
  <2>1. \A W : Where(Schema, W) \in Lists
    BY ShellDataAssumption, WhereTyped DEF ShellDataAssumption, Lists
  <2>2. AllQueries \in Seq(Lists) /\ Len(AllQueries) = 2
    BY <2>1 DEF AllQueries
  <2>3. \A ts \in Asks : OneQuery(ts) \in Seq(Lists) /\ Len(OneQuery(ts)) = 1
    BY <2>1 DEF OneQuery
  <2> QED BY <2>2, <2>3
<1>31. Len(q) <= 2 /\ Len(q) > 0 /\ Len(q) <= Len(q)
  <2> DEFINE l == Len(q)
  <2>1. l \in {1, 2}
    BY <1>3
  <2> HIDE DEF l
  <2>2. l <= 2 /\ l > 0 /\ l <= l
    BY <2>1
  <2> QED BY <2>2 DEF l
<1>4. /\ dump'.asked = q /\ dump'.queries = q /\ dump'.left = <<>> /\ dump'.nErr = 0
      /\ dump'.snap = {} /\ dump'.writableSchema = FALSE /\ dump'.read = FALSE
      /\ dump'.failed = FALSE
  BY <1>2 DEF NoDump
<1>5. Flat(q) \in Seq(Table) /\ <<>> \in Seq(Table)
  BY <1>3, <1>31, FlatHead DEF Lists
<1>6. DumpTyped'
  BY <1>1, <1>3, <1>31, <1>4, <1>5, NothingPrinted DEF DumpTyped, Dumped, Dumping
<1>7. Fixed'
  BY <1>1, <1>4 DEF Fixed, Dumping
<1>8. Content'
  BY <1>1, <1>4, <1>5, NothingPrinted DEF Content, Printed
<1>9. Switches'
  BY <1>1, <1>4, NothingPrinted DEF Switches
<1> QED BY <1>6, <1>7, <1>8, <1>9 DEF DumpInv

\* A step inside a dump.
LEMMA InsideDump ==
    ASSUME Inv, Dumping, Dumping', ended' = ended, DumpTyped', Fixed',
           Good' => /\ AllIdeal(Printed', dump'.snap, dump'.failed)
                    /\ ~dump'.failed => Complete(Printed', dump'.left \o Flat(dump'.queries),
                                                 Flat(dump'.asked))
                    /\ Switched(text', dump'.writableSchema)
    PROVE  DumpInv'
<1>1. ended' = "none"
  BY DEF Inv, Snapshot, Dumping
<1>2. Content'
  BY DEF Content
<1>3. Switches'
  BY <1>1 DEF Switches
<1> QED BY <1>2, <1>3 DEF DumpInv

\* The first read.
LEMMA SeenIs ==
    ASSUME Inv
    PROVE  /\ DOMAIN Seen(dump) = DOMAIN dump
           /\ Seen(dump).read = TRUE
           /\ Seen(dump).snap = IF dump.read THEN dump.snap ELSE Visible
           /\ Seen(dump).asked = dump.asked /\ Seen(dump).queries = dump.queries
           /\ Seen(dump).left = dump.left /\ Seen(dump).nErr = dump.nErr
           /\ Seen(dump).writableSchema = dump.writableSchema
           /\ Seen(dump).failed = dump.failed /\ Seen(dump).lost = dump.lost
BY DumpFields DEF Seen

\* A read leaves the shell with a lock, and with what it saw.
LEMMA ReadSees ==
    ASSUME Inv, Dumping,
           ReadBegin(shell, "ok") \/ ReadAll(shell, "ok") \/ ReadEnd(shell) \/ UNCHANGED db
    PROVE  /\ Visible' = Visible
           /\ ~dump.lost =>
                 /\ lock[shell] # "none" => lock'[shell] # "none"
                 /\ ReadBegin(shell, "ok") \/ ReadAll(shell, "ok") => lock'[shell] # "none"
<1>1. shell \in Conn /\ DbType /\ (~dump.lost => ~auto[shell])
  BY Tags DEF Inv, TypeOK, Snapshot
<1>2. Visible' = Visible
  BY DEF ReadBegin, ReadAll, ReadEnd, db, Visible
<1>3. ASSUME ~dump.lost
      PROVE  /\ lock[shell] # "none" => lock'[shell] # "none"
             /\ ReadBegin(shell, "ok") \/ ReadAll(shell, "ok") => lock'[shell] # "none"
  BY <1>1, <1>3 DEF ReadBegin, ReadAll, ReadEnd, db, DbType
<1> QED BY <1>2, <1>3

\* A step of the dump that only reads, or reads nothing, and counts no table.
LEMMA QuerySees ==
    ASSUME Inv, DumpInv, Dumping, Dumping',
           \/ /\ ReadBegin(shell, "ok") \/ ReadAll(shell, "ok")
              /\ dump'.read = TRUE
              /\ dump'.snap = IF dump.read THEN dump.snap ELSE Visible
           \/ /\ UNCHANGED db \/ ReadEnd(shell)
              /\ dump'.read = dump.read /\ dump'.snap = dump.snap
              /\ dump.read \/ (cmd' # "rows" /\ text' = <<>>),
           dump'.lost = dump.lost
    PROVE  Fixed'
<1>1. Visible' = Visible
  BY ReadSees
<1>2. ~dump.lost =>
         /\ lock[shell] # "none" => lock'[shell] # "none"
         /\ ReadBegin(shell, "ok") \/ ReadAll(shell, "ok") => lock'[shell] # "none"
  BY ReadSees
<1>3. Dumping /\ ~dump.lost /\ dump.read => lock[shell] # "none" /\ Visible = dump.snap
  BY DEF DumpInv, Fixed
<1> QED BY <1>1, <1>2, <1>3 DEF Fixed

\* Where the dump has not read yet, nothing is printed.
LEMMA StillIdeal ==
    ASSUME DumpInv, Dumping, Good, NEW failed, dump.failed => failed
    PROVE  /\ AllIdeal(Printed, dump.snap, failed)
           /\ AllIdeal(Printed, IF dump.read THEN dump.snap ELSE Visible, failed)
<1>1. AllIdeal(Printed, dump.snap, failed)
  BY DEF DumpInv, Content, Dumped, AllIdeal
<1>2. ~dump.read => Printed = <<>>
  BY NothingPrinted DEF DumpInv, Fixed, Printed
<1>3. AllIdeal(<<>>, Visible, failed)
  BY NothingPrinted
<1> QED BY <1>1, <1>2, <1>3

LEMMA QueryDump ==
    ASSUME Inv, DumpInv, SchemaQuery
    PROVE  DumpInv'
<1>1. /\ cmd = "schema" /\ dump.queries # <<>> /\ text' = text /\ ended' = ended
      /\ cmd' \in {"schema", "rows"} /\ Dumping /\ Dumping'
  BY DEF SchemaQuery, Dumping
<1>2. /\ dump.asked \in Seq(Lists) /\ Len(dump.asked) <= 2 /\ Len(dump.asked) > 0
      /\ dump.queries \in Seq(Lists) /\ Len(dump.queries) <= Len(dump.asked)
      /\ dump.left = <<>> /\ dump.nErr \in {0, 1} /\ dump.snap \in SUBSET Row
      /\ dump.writableSchema \in BOOLEAN /\ dump.read \in BOOLEAN /\ dump.failed \in BOOLEAN
      /\ text \in Seq(Entries)
  BY <1>1 DEF DumpInv, DumpTyped, Dumped
<1>3. Len(dump.queries) <= 2 /\ Len(dump.queries) \in Nat /\ Len(dump.asked) \in Nat
  <2> DEFINE a == Len(dump.asked)
             b == Len(dump.queries)
  <2>1. a \in Nat /\ b \in Nat /\ a <= 2 /\ b <= a
    BY <1>2, LenProperties
  <2> HIDE DEF a, b
  <2>2. b <= 2
    BY <2>1
  <2> QED BY <2>1, <2>2 DEF a, b
<1>4. /\ Flat(dump.queries) = Head(dump.queries) \o Flat(Tail(dump.queries))
      /\ Flat(dump.queries) \in Lists
      /\ Head(dump.queries) \in Lists /\ Tail(dump.queries) \in Seq(Lists)
      /\ Len(Tail(dump.queries)) = Len(dump.queries) - 1
  BY <1>1, <1>2, <1>3, FlatHead
<1>5. Len(Tail(dump.queries)) < Len(dump.asked) /\ Len(Tail(dump.queries)) <= Len(dump.asked)
  <2> DEFINE a == Len(dump.asked)
             b == Len(dump.queries)
             c == Len(Tail(dump.queries))
  <2>1. a \in Nat /\ b \in Nat /\ c = b - 1 /\ b <= a
    BY <1>2, <1>3, <1>4
  <2> HIDE DEF a, b, c
  <2>2. c < a /\ c <= a
    BY <2>1
  <2> QED BY <2>2 DEF a, b, c
<1>6. Visible \in SUBSET Row
  BY Tags DEF Visible, Inv, TypeOK, DbType
<1>7. Printed' = Printed /\ <<>> \o Flat(dump.queries) = Flat(dump.queries)
  BY <1>1, <1>4, ConcatEmptySeq DEF Printed, Lists
<1>8. Good => Switched(text, dump.writableSchema)
  BY <1>1 DEF DumpInv, Switches
<1>9. Good /\ ~dump.failed => Complete(Printed, Flat(dump.queries), Flat(dump.asked))
  BY <1>1, <1>2, <1>7 DEF DumpInv, Content, Dumped
<1>10. CASE /\ ReadBegin(shell, "ok")
            /\ dump' = [Seen(dump) EXCEPT !.left = Head(dump.queries),
                                          !.queries = Tail(@), !.again = FALSE]
            /\ cmd' = "rows"
  <2>1. /\ dump'.asked = dump.asked /\ dump'.queries = Tail(dump.queries)
        /\ dump'.left = Head(dump.queries) /\ dump'.nErr = dump.nErr
        /\ dump'.snap = (IF dump.read THEN dump.snap ELSE Visible)
        /\ dump'.writableSchema = dump.writableSchema /\ dump'.read = TRUE
        /\ dump'.failed = dump.failed /\ dump'.lost = dump.lost
    <3>1. DOMAIN dump = {"queries", "left", "again", "nErr", "writableSchema", "opened", "asked",
                         "read", "snap", "failed", "lost"}
      BY DEF Inv, Snapshot, NoDump
    <3>2. DOMAIN Seen(dump) = DOMAIN dump
      BY SeenIs
    <3> QED BY <1>10, <3>1, <3>2, SeenIs
  <2>2. dump'.snap \in SUBSET Row
    BY <1>2, <1>6, <2>1
  <2>3. DumpTyped'
    <3>1. Head(dump.queries) \in Seq(Table)
      BY <1>4 DEF Lists
    <3>2. ended' = "none"
      BY <1>1 DEF Inv, Snapshot, Dumping
    <3>3. /\ dump'.queries \in Seq(Lists) /\ Len(dump'.queries) <= Len(dump'.asked)
          /\ Len(dump'.queries) < Len(dump'.asked)
      BY <1>4, <1>5, <2>1
    <3>4. /\ dump'.asked \in Seq(Lists) /\ Len(dump'.asked) <= 2 /\ Len(dump'.asked) > 0
      BY <1>2, <2>1
    <3>5. /\ dump'.left \in Seq(Table) /\ dump'.nErr \in {0, 1}
          /\ dump'.writableSchema \in BOOLEAN /\ dump'.read \in BOOLEAN
          /\ dump'.failed \in BOOLEAN /\ text' \in Seq(Entries)
      BY <1>1, <1>2, <2>1, <3>1
    <3> QED BY <1>10, <2>2, <3>2, <3>3, <3>4, <3>5 DEF DumpTyped
  <2>4. Fixed'
    BY <1>1, <1>10, <2>1, QuerySees
  <2>5. ASSUME Good'
        PROVE  /\ AllIdeal(Printed', dump'.snap, dump'.failed)
               /\ ~dump'.failed => Complete(Printed', dump'.left \o Flat(dump'.queries),
                                            Flat(dump'.asked))
               /\ Switched(text', dump'.writableSchema)
    <3>1. Good
      BY <2>1, <2>5 DEF Good
    <3>2. AllIdeal(Printed', dump'.snap, dump'.failed)
      BY <1>1, <1>7, <2>1, <3>1, StillIdeal
    <3>3. ~dump'.failed => Complete(Printed', dump'.left \o Flat(dump'.queries),
                                    Flat(dump'.asked))
      BY <1>4, <1>7, <1>9, <2>1, <3>1
    <3> QED BY <1>1, <1>8, <2>1, <3>1, <3>2, <3>3
  <2> QED BY <1>1, <2>3, <2>4, <2>5, InsideDump
<1>11. CASE /\ ReadBegin(shell, "busy")
            /\ dump' = [dump EXCEPT !.queries = Tail(@), !.failed = TRUE]
            /\ cmd' = cmd
  <2>1. /\ dump'.asked = dump.asked /\ dump'.queries = Tail(dump.queries)
        /\ dump'.left = <<>> /\ dump'.nErr = dump.nErr /\ dump'.snap = dump.snap
        /\ dump'.writableSchema = dump.writableSchema /\ dump'.read = dump.read
        /\ dump'.failed = TRUE /\ dump'.lost = dump.lost
    BY <1>2, <1>11, DumpFields
  <2>2. UNCHANGED db
    BY <1>11 DEF ReadBegin
  <2>3. DumpTyped'
    <3>2. ended' = "none" /\ cmd' = "schema" /\ <<>> \in Seq(Table)
      BY <1>1, <1>11 DEF Inv, Snapshot, Dumping
    <3>3. /\ dump'.queries \in Seq(Lists) /\ Len(dump'.queries) <= Len(dump'.asked)
      BY <1>4, <1>5, <2>1
    <3>4. /\ dump'.asked \in Seq(Lists) /\ Len(dump'.asked) <= 2 /\ Len(dump'.asked) > 0
      BY <1>2, <2>1
    <3>5. /\ dump'.left \in Seq(Table) /\ dump'.nErr \in {0, 1} /\ dump'.snap \in SUBSET Row
          /\ dump'.writableSchema \in BOOLEAN /\ dump'.read \in BOOLEAN
          /\ dump'.failed \in BOOLEAN /\ text' \in Seq(Entries)
      BY <1>1, <1>2, <2>1, <3>2
    <3> QED BY <2>1, <3>2, <3>3, <3>4, <3>5 DEF DumpTyped
  <2>4. Fixed'
    <3>1. dump.read \/ text' = <<>>
      BY <1>1 DEF DumpInv, Fixed
    <3> QED BY <1>1, <1>11, <2>1, <2>2, <3>1, QuerySees
  <2>5. ASSUME Good'
        PROVE  /\ AllIdeal(Printed', dump'.snap, dump'.failed)
               /\ ~dump'.failed => Complete(Printed', dump'.left \o Flat(dump'.queries),
                                            Flat(dump'.asked))
               /\ Switched(text', dump'.writableSchema)
    <3>1. Good
      BY <2>1, <2>5 DEF Good
    <3>2. AllIdeal(Printed', dump'.snap, dump'.failed)
      BY <1>1, <1>7, <2>1, <3>1, StillIdeal
    <3> QED BY <1>1, <1>8, <2>1, <3>1, <3>2
  <2> QED BY <1>1, <2>3, <2>4, <2>5, InsideDump
<1> QED BY <1>10, <1>11 DEF SchemaQuery

\* What holds while a schema query runs.
LEMMA RowsNow ==
    ASSUME Inv, DumpInv, cmd = "rows"
    PROVE  /\ dump.asked \in Seq(Lists) /\ Len(dump.asked) <= 2 /\ Len(dump.asked) > 0
           /\ dump.queries \in Seq(Lists) /\ Len(dump.queries) <= Len(dump.asked)
           /\ Len(dump.queries) < Len(dump.asked)
           /\ dump.left \in Seq(Table) /\ dump.nErr \in {0, 1} /\ dump.snap \in SUBSET Row
           /\ dump.writableSchema \in BOOLEAN /\ dump.read = TRUE /\ dump.failed \in BOOLEAN
           /\ text \in Seq(Entries) /\ ended = "none" /\ Dumping /\ Dumped
           /\ Flat(dump.queries) \in Seq(Table) /\ Flat(dump.asked) \in Seq(Table)
           /\ ~dump.lost => lock[shell] # "none" /\ Visible = dump.snap
           /\ Good => /\ AllIdeal(Printed, dump.snap, dump.failed) /\ Switched(text, dump.writableSchema)
                      /\ ~dump.failed => Complete(Printed, dump.left \o Flat(dump.queries),
                                                  Flat(dump.asked))
<1>1. Dumping /\ Dumped /\ ended = "none"
  BY DEF Dumping, Dumped, Inv, Snapshot
<1>2. /\ dump.asked \in Seq(Lists) /\ Len(dump.asked) <= 2 /\ Len(dump.asked) > 0
      /\ dump.queries \in Seq(Lists) /\ Len(dump.queries) <= Len(dump.asked)
      /\ Len(dump.queries) < Len(dump.asked)
      /\ dump.left \in Seq(Table) /\ dump.nErr \in {0, 1} /\ dump.snap \in SUBSET Row
      /\ dump.writableSchema \in BOOLEAN /\ dump.read = TRUE /\ dump.failed \in BOOLEAN
      /\ text \in Seq(Entries)
  BY <1>1 DEF DumpInv, DumpTyped, Fixed
<1>3. Len(dump.queries) <= 2
  <2> DEFINE a == Len(dump.asked)
             b == Len(dump.queries)
  <2>1. a \in Nat /\ b \in Nat /\ a <= 2 /\ b <= a
    BY <1>2, LenProperties
  <2> HIDE DEF a, b
  <2>2. b <= 2
    BY <2>1
  <2> QED BY <2>2 DEF b
<1>4. Flat(dump.queries) \in Seq(Table) /\ Flat(dump.asked) \in Seq(Table)
  BY <1>2, <1>3, FlatHead DEF Lists
<1>5. ~dump.lost => lock[shell] # "none" /\ Visible = dump.snap
  BY <1>1, <1>2 DEF DumpInv, Fixed
<1>6. Good => /\ AllIdeal(Printed, dump.snap, dump.failed) /\ Switched(text, dump.writableSchema)
              /\ ~dump.failed => Complete(Printed, dump.left \o Flat(dump.queries),
                                          Flat(dump.asked))
  BY <1>1 DEF DumpInv, Content, Switches
<1> QED BY <1>1, <1>2, <1>4, <1>5, <1>6

\* A step of a running schema query, when the rows that are left are known.
LEMMA RowsDump ==
    ASSUME Inv, DumpInv, cmd = "rows", cmd' \in {"rows", "schema"}, ended' = ended,
           dump'.asked = dump.asked, dump'.queries = dump.queries,
           dump'.left \in Seq(Table), cmd' # "rows" => dump'.left = <<>>,
           dump'.nErr \in {0, 1}, dump'.snap = dump.snap, dump'.read = dump.read,
           dump'.writableSchema \in BOOLEAN, dump'.failed \in BOOLEAN,
           text' \in Seq(Entries),
           dump'.lost \/ (dump'.lost = dump.lost /\ (UNCHANGED db \/ ReadEnd(shell))),
           Good' => /\ AllIdeal(Printed', dump.snap, dump'.failed) /\ Switched(text', dump'.writableSchema)
                    /\ ~dump'.failed => Complete(Printed', dump'.left \o Flat(dump.queries),
                                                 Flat(dump.asked))
    PROVE  DumpInv'
<1>1. Dumping /\ Dumping' /\ Dumped' /\ ended' = "none"
  BY RowsNow DEF Dumping, Dumped
<1>2. DumpTyped'
  <2>1. /\ dump'.asked \in Seq(Lists) /\ Len(dump'.asked) <= 2 /\ Len(dump'.asked) > 0
        /\ dump'.queries \in Seq(Lists) /\ Len(dump'.queries) <= Len(dump'.asked)
        /\ Len(dump'.queries) < Len(dump'.asked)
    BY RowsNow
  <2>2. dump'.snap \in SUBSET Row /\ dump'.read \in BOOLEAN
    BY RowsNow
  <2> QED BY <1>1, <2>1, <2>2 DEF DumpTyped
<1>3. Fixed'
  <2>1. dump.read = TRUE
    BY RowsNow
  <2>2. CASE dump'.lost
    BY <2>1, <2>2 DEF Fixed
  <2>3. CASE dump'.lost = dump.lost /\ (UNCHANGED db \/ ReadEnd(shell))
    BY <1>1, <2>1, <2>3, QuerySees
  <2> QED BY <2>2, <2>3
<1> QED BY <1>1, <1>2, <1>3, InsideDump

\* A table whose rows are not read, or not all, is no table of a good dump.
LEMMA SpoiltTable ==
    ASSUME Inv, DumpInv, cmd = "rows", cmd' \in {"rows", "schema"}, ended' = ended,
           dump'.asked = dump.asked, dump'.queries = dump.queries,
           dump'.left \in Seq(Table), cmd' # "rows" => dump'.left = <<>>,
           dump'.nErr = 1, dump'.snap = dump.snap, dump'.read = dump.read,
           dump'.writableSchema = dump.writableSchema, dump'.failed \in BOOLEAN,
           text' = <<>>,
           dump'.lost \/ (dump'.lost = dump.lost /\ UNCHANGED db)
    PROVE  DumpInv'
<1>1. ~Good' /\ <<>> \in Seq(Entries) /\ dump.writableSchema \in BOOLEAN
  BY RowsNow DEF Good
<1> QED BY <1>1, RowsDump

LEMMA TableDump ==
    ASSUME Inv, DumpInv, DumpTable
    PROVE  DumpInv'
<1> DEFINE t == Head(dump.left)
           all == RowsIn(Visible, t)
           next == [dump EXCEPT !.left = Tail(@)]
<1>1. cmd = "rows" /\ dump.left # <<>> /\ ended' = ended
  BY DEF DumpTable
<1>2. /\ t \in Table /\ Tail(dump.left) \in Seq(Table) /\ Dumping
  BY <1>1, RowsNow, HeadTailProperties
<1>3. /\ next.left = Tail(dump.left) /\ next.asked = dump.asked /\ next.queries = dump.queries
      /\ next.nErr = dump.nErr /\ next.snap = dump.snap /\ next.read = dump.read
      /\ next.writableSchema = dump.writableSchema /\ next.failed = dump.failed
      /\ next.lost = dump.lost /\ DOMAIN next = DOMAIN dump
  BY DumpFields
<1>31. /\ all \in SUBSET Row /\ {} \in SUBSET Row
  BY Tags DEF RowsIn, Visible, Inv, TypeOK, DbType
<1> DEFINE on == [put |-> "on", table |-> t, rows |-> {}]
           virtual == [put |-> "virtual", table |-> t, rows |-> {}]
           rows == [put |-> "rows", table |-> t, rows |-> all]
<1>4. /\ on \in Entries /\ on.put = "on" /\ virtual \in Entries /\ virtual.put = "virtual"
      /\ virtual.table = t /\ rows \in Entries /\ rows.put = "rows" /\ rows.table = t
  BY <1>2, <1>31 DEF Entries
<1>5. Kind[t] = "virtual" => virtual = IdealOf(t, dump.snap)
  BY DEF IdealOf
<1>6. Kind[t] # "virtual" /\ ~dump.lost => rows = IdealOf(t, dump.snap)
  BY <1>1, RowsNow DEF IdealOf
<1>7. t \in Listed <=> Kind[t] # "internal"
  BY <1>2 DEF Listed
<1>8. /\ text \in Seq(Entries) /\ Printed \in Seq(Entries)
      /\ Flat(dump.queries) \in Seq(Table) /\ Flat(dump.asked) \in Seq(Table)
      /\ dump.left \in Seq(Table) /\ dump.nErr \in {0, 1} /\ dump.writableSchema \in BOOLEAN
      /\ dump.failed \in BOOLEAN /\ dump.read = TRUE
  BY <1>1, RowsNow, WhereTyped DEF Printed
<1>9. ASSUME Good, ~dump.failed, t \notin Listed
      PROVE  Complete(Printed, Tail(dump.left) \o Flat(dump.queries), Flat(dump.asked))
  BY <1>1, <1>8, <1>9, RowsNow, NextTable
<1>10. ASSUME Good, ~dump.failed, t \in Listed, NEW e \in Entries, e.table = t
       PROVE  Complete(Printed \o <<e>>, Tail(dump.left) \o Flat(dump.queries), Flat(dump.asked))
  BY <1>1, <1>8, <1>10, RowsNow, NextTable
<1>11. ASSUME Good, NEW e \in Entries, e = IdealOf(t, dump.snap)
       PROVE  AllIdeal(Printed \o <<e>>, dump.snap, dump.failed)
  BY <1>1, <1>2, <1>8, <1>11, RowsNow, IdealMore
<1>12. CASE Kind[t] = "internal" /\ UNCHANGED <<db, cmd>> /\ dump' = next /\ text' = text
  <2>1. Printed' = Printed
    BY <1>12 DEF Printed
  <2>2. ASSUME Good'
        PROVE  /\ AllIdeal(Printed', dump.snap, dump'.failed) /\ Switched(text', dump'.writableSchema)
               /\ ~dump'.failed => Complete(Printed', dump'.left \o Flat(dump.queries),
                                            Flat(dump.asked))
    <3>1. Good
      BY <1>3, <1>12, <2>2 DEF Good
    <3> QED BY <1>1, <1>3, <1>7, <1>9, <1>12, <2>1, <3>1, RowsNow
  <2> HIDE DEF next, t
  <2> QED BY <1>1, <1>2, <1>3, <1>8, <1>12, <2>2, RowsDump
<1>13. CASE /\ Kind[t] = "virtual" /\ UNCHANGED <<db, cmd>>
            /\ dump' = [next EXCEPT !.writableSchema = TRUE]
            /\ Prints((IF dump.writableSchema THEN <<>> ELSE Entry("on", t, {}))
                      \o Entry("virtual", t, {}))
  <2>1. /\ dump'.left = Tail(dump.left) /\ dump'.asked = dump.asked
        /\ dump'.queries = dump.queries /\ dump'.nErr = dump.nErr /\ dump'.snap = dump.snap
        /\ dump'.read = dump.read /\ dump'.writableSchema = TRUE
        /\ dump'.failed = dump.failed /\ dump'.lost = dump.lost
    BY <1>3, <1>13, DumpFields
  <2> DEFINE u == IF dump.writableSchema THEN text ELSE text \o <<on>>
  <2>2. Good' <=> Good
    BY <2>1 DEF Good
  <2>3. text \o ((IF dump.writableSchema THEN <<>> ELSE <<on>>) \o <<virtual>>) = u \o <<virtual>>
    <3>1. <<on>> \in Seq(Entries) /\ <<virtual>> \in Seq(Entries)
      BY <1>4
    <3> HIDE DEF on, virtual
    <3>2. <<>> \o <<virtual>> = <<virtual>>
      BY <3>1, ConcatEmptySeq
    <3>3. text \o (<<on>> \o <<virtual>>) = (text \o <<on>>) \o <<virtual>>
      BY <1>8, <3>1, ConcatAssociative
    <3> QED BY <3>2, <3>3
  <2>4. text' = IF Good THEN u \o <<virtual>> ELSE <<>>
    BY <1>13, <2>1, <2>3 DEF Prints, Entry, Good
  <2>5. u \in Seq(Entries) /\ Where(u, Puts) = Printed
    <3> HIDE DEF on
    <3> QED BY <1>4, <1>8, PrintedMore DEF Printed
  <2>6. u \o <<virtual>> \in Seq(Entries) /\ Where(u \o <<virtual>>, Puts) = Printed \o <<virtual>>
    <3> HIDE DEF on, virtual, u
    <3>1. virtual.put \notin {"on", "off"}
      BY <1>4
    <3> QED BY <1>4, <2>5, <3>1, PrintedMore
  <2>7. ASSUME Good
        PROVE  Switched(u \o <<virtual>>, TRUE)
    <3>1. Switched(text, dump.writableSchema)
      BY <1>1, <2>7, RowsNow
    <3> HIDE DEF on, virtual
    <3> QED BY <1>4, <1>8, <3>1, SwitchedVirtual
  <2> HIDE DEF on, virtual, u
  <2>8. ASSUME Good'
        PROVE  /\ AllIdeal(Printed', dump.snap, dump'.failed) /\ Switched(text', dump'.writableSchema)
               /\ ~dump'.failed => Complete(Printed', dump'.left \o Flat(dump.queries),
                                            Flat(dump.asked))
    <3>1. Good /\ text' = u \o <<virtual>> /\ Printed' = Printed \o <<virtual>>
      BY <2>2, <2>4, <2>6, <2>8 DEF Printed
    <3>2. AllIdeal(Printed \o <<virtual>>, dump.snap, dump.failed)
      BY <1>4, <1>5, <1>11, <1>13, <3>1
    <3>3. t \in Listed
      BY <1>7, <1>13
    <3> HIDE DEF t
    <3>4. ~dump.failed => Complete(Printed \o <<virtual>>, Tail(dump.left) \o Flat(dump.queries),
                                   Flat(dump.asked))
      BY <1>4, <1>10, <3>1, <3>3
    <3> QED BY <2>1, <2>7, <3>1, <3>2, <3>4
  <2>9. text' \in Seq(Entries)
    <3>1. <<>> \in Seq(Entries)
      OBVIOUS
    <3> QED BY <2>4, <2>6, <3>1
  <2> HIDE DEF next, t
  <2> QED BY <1>1, <1>2, <1>8, <1>13, <2>1, <2>8, <2>9, RowsDump
<1>14. CASE /\ Kind[t] \notin {"internal", "virtual"} /\ UNCHANGED <<db, cmd>> /\ dump' = next
            /\ Prints(Entry("rows", t, all))
  <2>1. /\ dump'.left = Tail(dump.left) /\ dump'.asked = dump.asked
        /\ dump'.queries = dump.queries /\ dump'.nErr = dump.nErr /\ dump'.snap = dump.snap
        /\ dump'.read = dump.read /\ dump'.writableSchema = dump.writableSchema
        /\ dump'.failed = dump.failed /\ dump'.lost = dump.lost
    BY <1>3, <1>14
  <2>2. Good' <=> Good
    BY <2>1 DEF Good
  <2>3. text' = IF Good THEN text \o <<rows>> ELSE <<>>
    BY <1>14, <2>1 DEF Prints, Entry, Good
  <2>4. rows.put \notin {"on", "off"} /\ rows.put \in {"rows", "part", "bare"}
    BY <1>4
  <2>5. Good => rows = IdealOf(t, dump.snap)
    BY <1>6, <1>14 DEF Good
  <2> HIDE DEF rows
  <2>6. text \o <<rows>> \in Seq(Entries) /\ Where(text \o <<rows>>, Puts) = Printed \o <<rows>>
    BY <1>4, <1>8, <2>4, PrintedMore DEF Printed
  <2>7. ASSUME Good PROVE Switched(text \o <<rows>>, dump.writableSchema)
    <3>1. Switched(text, dump.writableSchema)
      BY <1>1, <2>7, RowsNow
    <3> QED BY <1>4, <1>8, <2>4, <3>1, SwitchedRows
  <2>8. ASSUME Good'
        PROVE  /\ AllIdeal(Printed', dump.snap, dump'.failed) /\ Switched(text', dump'.writableSchema)
               /\ ~dump'.failed => Complete(Printed', dump'.left \o Flat(dump.queries),
                                            Flat(dump.asked))
    <3>1. Good /\ text' = text \o <<rows>> /\ Printed' = Printed \o <<rows>>
      BY <2>2, <2>3, <2>6, <2>8 DEF Printed
    <3>2. AllIdeal(Printed \o <<rows>>, dump.snap, dump.failed)
      BY <1>4, <1>11, <2>5, <3>1
    <3>3. t \in Listed
      BY <1>7, <1>14
    <3> HIDE DEF t
    <3>4. ~dump.failed => Complete(Printed \o <<rows>>, Tail(dump.left) \o Flat(dump.queries),
                                   Flat(dump.asked))
      BY <1>4, <1>10, <3>1, <3>3
    <3> QED BY <2>1, <2>7, <3>1, <3>2, <3>4
  <2>9. text' \in Seq(Entries)
    <3>1. <<>> \in Seq(Entries)
      OBVIOUS
    <3> QED BY <2>3, <2>6, <3>1
  <2> HIDE DEF next, t
  <2> QED BY <1>1, <1>2, <1>8, <1>14, <2>1, <2>8, <2>9, RowsDump
<1>15. CASE /\ UNCHANGED <<db, cmd>> /\ dump' = [next EXCEPT !.nErr = 1]
            /\ \E entries : Prints(entries)
  <2>1. /\ dump'.left = Tail(dump.left) /\ dump'.asked = dump.asked
        /\ dump'.queries = dump.queries /\ dump'.nErr = 1 /\ dump'.snap = dump.snap
        /\ dump'.read = dump.read /\ dump'.writableSchema = dump.writableSchema
        /\ dump'.failed = dump.failed /\ dump'.lost = dump.lost
    BY <1>3, <1>15, DumpFields
  <2>2. text' = <<>>
    BY <1>15, <2>1 DEF Prints
  <2> HIDE DEF next, t
  <2> QED BY <1>1, <1>2, <1>8, <1>15, <2>1, <2>2, SpoiltTable
<1>16. CASE /\ cmd' = "schema"
            /\ dump' = [next EXCEPT !.nErr = 1, !.left = <<>>, !.failed = TRUE, !.lost = TRUE]
            /\ \E entries : Prints(entries)
  <2>1. /\ dump'.left = <<>> /\ dump'.asked = dump.asked
        /\ dump'.queries = dump.queries /\ dump'.nErr = 1 /\ dump'.snap = dump.snap
        /\ dump'.read = dump.read /\ dump'.writableSchema = dump.writableSchema
        /\ dump'.failed = TRUE /\ dump'.lost = TRUE
    BY <1>3, <1>16, DumpFields
  <2>2. text' = <<>> /\ <<>> \in Seq(Table)
    BY <1>16, <2>1 DEF Prints
  <2> HIDE DEF next, t
  <2> QED BY <1>1, <1>2, <1>8, <1>16, <2>1, <2>2, SpoiltTable
<1>17. \/ Kind[t] = "internal" /\ UNCHANGED <<db, cmd>> /\ dump' = next /\ text' = text
       \/ /\ Kind[t] = "virtual" /\ UNCHANGED <<db, cmd>>
          /\ dump' = [next EXCEPT !.writableSchema = TRUE]
          /\ Prints((IF dump.writableSchema THEN <<>> ELSE Entry("on", t, {}))
                    \o Entry("virtual", t, {}))
       \/ /\ Kind[t] \notin {"internal", "virtual"} /\ UNCHANGED <<db, cmd>> /\ dump' = next
          /\ Prints(Entry("rows", t, all))
       \/ /\ UNCHANGED <<db, cmd>> /\ dump' = [next EXCEPT !.nErr = 1]
          /\ \E entries : Prints(entries)
       \/ /\ cmd' = "schema"
          /\ dump' = [next EXCEPT !.nErr = 1, !.left = <<>>, !.failed = TRUE, !.lost = TRUE]
          /\ \E entries : Prints(entries)
  BY DEF DumpTable
<1> QED BY <1>12, <1>13, <1>14, <1>15, <1>16, <1>17

LEMMA BackwardsTyped ==
    ASSUME NEW s \in Lists
    PROVE  Backwards(s) \in Seq(Table)
<1> DEFINE size == Len(s)
           f == Backwards(s)
<1>1. s \in Seq(Table) /\ size \in Nat
  BY DEF Lists
<1>2. f = [i \in 1..size |-> s[size + 1 - i]]
  BY DEF Backwards
<1>3. \A i \in 1..size : size + 1 - i \in 1..size
  BY <1>1
<1>4. \A i \in 1..size : s[i] \in Table
  BY <1>1, ElementOfSeq
<1>5. f \in [1..size -> Table]
  BY <1>2, <1>3, <1>4
<1> QED BY <1>1, <1>5, SeqMadeOf

\* The query that runs is one of those asked.
LEMMA RanIs ==
    ASSUME Inv, DumpInv, cmd = "rows"
    PROVE  dump.asked[Len(dump.asked) - Len(dump.queries)] \in Lists
<1> DEFINE a == Len(dump.asked)
           b == Len(dump.queries)
<1>1. dump.asked \in Seq(Lists) /\ dump.queries \in Seq(Lists) /\ b < a
  BY RowsNow
<1>2. a \in Nat /\ b \in Nat
  BY <1>1, LenProperties
<1> HIDE DEF a, b
<1>3. a - b \in 1..a
  BY <1>1, <1>2
<1> QED BY <1>1, <1>3, ElementOfSeq DEF a, b

LEMMA QueryFailsDump ==
    ASSUME Inv, DumpInv, SchemaFails
    PROVE  DumpInv'
<1> DEFINE back == Backwards(dump.asked[Len(dump.asked) - Len(dump.queries)])
           t == Head(dump.left)
           bare == [put |-> "bare", table |-> t, rows |-> {}]
<1>1. cmd = "rows" /\ ended' = ended
  BY DEF SchemaFails
<1>2. back \in Seq(Table)
  BY <1>1, BackwardsTyped, RanIs
<1>3. /\ text \in Seq(Entries) /\ dump.nErr \in {0, 1} /\ dump.writableSchema \in BOOLEAN
      /\ dump.left \in Seq(Table) /\ <<>> \in Seq(Table) /\ <<>> \in Seq(Entries)
  BY <1>1, RowsNow
<1>4. text \o <<>> = text
  BY <1>3, ConcatEmptySeq
<1>5. /\ Prints(<<>>) => text' = IF Good' THEN text ELSE <<>>
      /\ Prints(<<bare>>) => text' = IF Good' THEN text \o <<bare>> ELSE <<>>
  BY <1>4 DEF Prints, Good
<1>10. Prints(<<>>) \/ (dump.left # <<>> /\ Prints(<<bare>>))
  BY DEF SchemaFails, Bare, Entry
<1> HIDE DEF back
<1>6. \/ /\ ReadEnd(shell) /\ cmd' = "schema"
         /\ dump' = [dump EXCEPT !.left = <<>>, !.failed = TRUE]
      \/ /\ UNCHANGED <<db, cmd>>
         /\ dump' = [dump EXCEPT !.left = back, !.again = TRUE, !.failed = TRUE]
      \/ /\ cmd' = "schema"
         /\ dump' = [dump EXCEPT !.left = <<>>, !.failed = TRUE, !.lost = TRUE]
  BY DEF SchemaFails, Aborts, back
<1>7. /\ dump'.asked = dump.asked /\ dump'.queries = dump.queries /\ dump'.nErr = dump.nErr
      /\ dump'.snap = dump.snap /\ dump'.read = dump.read
      /\ dump'.writableSchema = dump.writableSchema /\ dump'.failed = TRUE
      /\ dump'.left \in {<<>>, back} /\ (cmd' # "rows" => dump'.left = <<>>)
      /\ cmd' \in {"rows", "schema"}
      /\ dump'.lost \/ (dump'.lost = dump.lost /\ (UNCHANGED db \/ ReadEnd(shell)))
  BY <1>1, <1>6, DumpFields
<1>8. ASSUME Good'
      PROVE  Good /\ AllIdeal(Printed, dump.snap, TRUE) /\ Switched(text, dump.writableSchema)
  <2>1. Good
    BY <1>7, <1>8 DEF Good
  <2> QED BY <1>1, <2>1, RowsNow, StillIdeal
<1>9. dump'.left \in Seq(Table)
  BY <1>2, <1>3, <1>7
<1>11. CASE Prints(<<>>)
  <2>1. text' = IF Good' THEN text ELSE <<>>
    BY <1>5, <1>11
  <2>2. ASSUME Good'
        PROVE  AllIdeal(Printed', dump.snap, dump'.failed) /\ Switched(text', dump'.writableSchema)
    <3>1. text' = text
      BY <2>1, <2>2
    <3>2. Printed' = Printed
      BY <3>1 DEF Printed
    <3> QED BY <1>7, <1>8, <2>2, <3>1, <3>2
  <2>3. text' \in Seq(Entries)
    BY <1>3, <2>1
  <2> QED BY <1>1, <1>3, <1>7, <1>9, <2>2, <2>3, RowsDump
<1>12. CASE dump.left # <<>> /\ Prints(<<bare>>)
  <2>1. text' = IF Good' THEN text \o <<bare>> ELSE <<>>
    BY <1>5, <1>12
  <2>2. t \in Table
    BY <1>3, <1>12, HeadTailProperties
  <2>3. bare \in Entries /\ bare.put = "bare" /\ bare.put \notin {"on", "off"}
    BY <2>2 DEF Entries
  <2> HIDE DEF bare, t
  <2>4. text \o <<bare>> \in Seq(Entries) /\ Where(text \o <<bare>>, Puts) = Printed \o <<bare>>
    BY <1>3, <2>3, PrintedMore DEF Printed
  <2>5. Printed \in Seq(Entries)
    BY <1>3, WhereTyped DEF Printed
  <2>6. ASSUME Good'
        PROVE  AllIdeal(Printed', dump.snap, dump'.failed) /\ Switched(text', dump'.writableSchema)
    <3>1. text' = text \o <<bare>> /\ Printed' = Printed \o <<bare>>
      BY <2>1, <2>4, <2>6 DEF Printed
    <3>2. AllIdeal(Printed \o <<bare>>, dump.snap, TRUE)
      BY <1>8, <2>2, <2>3, <2>5, <2>6, IdealMore
    <3>3. Switched(text \o <<bare>>, dump.writableSchema)
      BY <1>3, <1>8, <2>3, <2>6, SwitchedRows
    <3> QED BY <1>7, <3>1, <3>2, <3>3
  <2>7. text' \in Seq(Entries)
    BY <1>3, <2>1, <2>4
  <2> QED BY <1>1, <1>3, <1>7, <1>9, <2>6, <2>7, RowsDump
<1> QED BY <1>10, <1>11, <1>12

LEMMA QueryDoneDump ==
    ASSUME Inv, DumpInv, SchemaDone
    PROVE  DumpInv'
<1>1. /\ cmd = "rows" /\ cmd' = "schema" /\ dump.left = <<>> /\ ReadEnd(shell)
      /\ dump' = dump /\ text' = text /\ ended' = ended
  BY DEF SchemaDone, dumpVars
<1>2. Printed' = Printed /\ (Good' <=> Good)
  BY <1>1 DEF Printed, Good
<1>3. /\ dump.left \in Seq(Table) /\ dump.nErr \in {0, 1} /\ dump.writableSchema \in BOOLEAN
      /\ dump.failed \in BOOLEAN /\ text \in Seq(Entries)
  BY <1>1, RowsNow
<1>4. Good => /\ AllIdeal(Printed, dump.snap, dump.failed) /\ Switched(text, dump.writableSchema)
              /\ ~dump.failed => Complete(Printed, dump.left \o Flat(dump.queries),
                                          Flat(dump.asked))
  BY <1>1, RowsNow
<1> QED BY <1>1, <1>2, <1>3, <1>4, RowsDump

\* What holds between the queries, and when they are done.
LEMMA BetweenNow ==
    ASSUME Inv, DumpInv, cmd \in {"schema", "release"}
    PROVE  /\ dump.asked \in Seq(Lists) /\ Len(dump.asked) <= 2 /\ Len(dump.asked) > 0
           /\ dump.queries \in Seq(Lists) /\ Len(dump.queries) <= Len(dump.asked)
           /\ dump.left = <<>> /\ dump.nErr \in {0, 1} /\ dump.snap \in SUBSET Row
           /\ dump.writableSchema \in BOOLEAN /\ dump.read \in BOOLEAN /\ dump.failed \in BOOLEAN
           /\ text \in Seq(Entries) /\ ended = "none" /\ Dumping /\ Dumped
           /\ Good => /\ AllIdeal(Printed, dump.snap, dump.failed) /\ Switched(text, dump.writableSchema)
                      /\ ~dump.failed => Complete(Printed, <<>> \o Flat(dump.queries),
                                                  Flat(dump.asked))
<1>1. Dumping /\ Dumped /\ ended = "none" /\ cmd # "rows"
  BY DEF Dumping, Dumped, Inv, Snapshot
<1>2. dump.left = <<>>
  BY <1>1 DEF DumpInv, DumpTyped
<1> QED BY <1>1, <1>2 DEF DumpInv, DumpTyped, Content, Switches

LEMMA IndexDump ==
    ASSUME Inv, DumpInv, IndexQuery
    PROVE  DumpInv'
<1>1. /\ cmd = "schema" /\ cmd' = "release" /\ dump.queries = <<>> /\ ended' = ended
      /\ Prints(<<>>) /\ Dumping /\ Dumping'
  BY DEF IndexQuery, Dumping
<1>2. /\ text \in Seq(Entries) /\ dump.left = <<>> /\ dump.nErr \in {0, 1} /\ ended = "none"
      /\ dump.writableSchema \in BOOLEAN /\ dump.failed \in BOOLEAN /\ dump.read \in BOOLEAN
      /\ dump.snap \in SUBSET Row /\ <<>> \in Seq(Table) /\ <<>> \in Seq(Entries)
      /\ dump.asked \in Seq(Lists) /\ Len(dump.asked) <= 2 /\ Len(dump.asked) > 0
      /\ dump.queries \in Seq(Lists) /\ Len(dump.queries) <= Len(dump.asked)
  BY <1>1, BetweenNow
<1>3. text \o <<>> = text
  BY <1>2, ConcatEmptySeq
<1>4. text' = IF dump'.nErr = 0 /\ ~dump'.lost THEN text ELSE <<>>
  BY <1>1, <1>3 DEF Prints
<1>5. Visible \in SUBSET Row
  BY Tags DEF Visible, Inv, TypeOK, DbType
<1>6. /\ dump'.asked = dump.asked /\ dump'.queries = dump.queries /\ dump'.left = dump.left
      /\ dump'.writableSchema = dump.writableSchema
      /\ dump'.failed = dump.failed /\ dump'.nErr \in {dump.nErr, 1}
      /\ \/ /\ ReadAll(shell, "ok") /\ dump'.read = TRUE /\ dump'.lost = dump.lost
            /\ dump'.snap = IF dump.read THEN dump.snap ELSE Visible
         \/ /\ UNCHANGED db /\ dump'.lost = dump.lost
            /\ dump'.nErr = 1 /\ dump'.read = dump.read /\ dump'.snap = dump.snap
         \/ /\ dump'.lost = TRUE
            /\ dump'.nErr = 1 /\ dump'.read = dump.read /\ dump'.snap = dump.snap
  <2>1. CASE /\ ReadAll(shell, "ok")
             /\ \E e \in BOOLEAN : dump' = [Seen(dump) EXCEPT !.nErr = IF e THEN 1 ELSE @]
    <3>1. PICK e \in BOOLEAN : dump' = [Seen(dump) EXCEPT !.nErr = IF e THEN 1 ELSE @]
      BY <2>1
    <3> DEFINE m == IF e THEN 1 ELSE dump.nErr
    <3>2. dump' = [Seen(dump) EXCEPT !.nErr = m]
      BY <3>1, SeenIs
    <3>3. m \in {dump.nErr, 1}
      OBVIOUS
    <3> HIDE DEF m
    <3>4. DOMAIN Seen(dump) = {"queries", "left", "again", "nErr", "writableSchema", "opened",
                               "asked", "read", "snap", "failed", "lost"}
      BY SeenIs, DumpFields
    <3>5. /\ dump'.nErr = m /\ dump'.asked = Seen(dump).asked /\ dump'.queries = Seen(dump).queries
          /\ dump'.left = Seen(dump).left /\ dump'.writableSchema = Seen(dump).writableSchema
          /\ dump'.failed = Seen(dump).failed /\ dump'.lost = Seen(dump).lost
          /\ dump'.read = Seen(dump).read /\ dump'.snap = Seen(dump).snap
      BY <3>2, <3>4
    <3> QED BY <2>1, <3>3, <3>5, SeenIs
  <2>2. CASE ReadAll(shell, "busy") /\ dump' = [dump EXCEPT !.nErr = 1]
    BY <2>2, DumpFields DEF ReadAll
  <2>3. CASE ReadAbort(shell) /\ dump' = [dump EXCEPT !.nErr = 1, !.lost = TRUE]
    BY <2>3, DumpFields
  <2> QED BY <2>1, <2>2, <2>3 DEF IndexQuery
<1>7. DumpTyped'
  <2>1. /\ dump'.asked \in Seq(Lists) /\ Len(dump'.asked) <= 2 /\ Len(dump'.asked) > 0
        /\ dump'.queries \in Seq(Lists) /\ Len(dump'.queries) <= Len(dump'.asked)
        /\ dump'.queries = <<>>
    BY <1>1, <1>2, <1>6
  <2>2. /\ dump'.left \in Seq(Table) /\ dump'.left = <<>> /\ dump'.nErr \in {0, 1}
        /\ dump'.writableSchema \in BOOLEAN /\ dump'.failed \in BOOLEAN
    BY <1>2, <1>6
  <2>3. dump'.snap \in SUBSET Row /\ dump'.read \in BOOLEAN
    BY <1>2, <1>5, <1>6
  <2>4. text' \in Seq(Entries)
    BY <1>2, <1>4
  <2>5. ended' = "none"
    BY <1>1, <1>2
  <2> QED BY <1>1, <2>1, <2>2, <2>3, <2>4, <2>5 DEF DumpTyped
<1>8. Fixed'
  <2>1. dump.read \/ text' = <<>>
    BY <1>1, <1>4 DEF DumpInv, Fixed
  <2>2. CASE dump'.lost = dump.lost /\ ~(dump'.lost = TRUE /\ dump'.nErr = 1)
    BY <1>1, <1>6, <2>1, <2>2, QuerySees
  <2>3. CASE dump'.lost /\ dump'.read = dump.read
    BY <1>1, <2>1, <2>3 DEF Fixed
  <2>4. CASE dump'.lost /\ dump'.read = TRUE
    BY <1>1, <2>4 DEF Fixed
  <2> QED BY <1>6, <2>2, <2>3, <2>4
<1>9. ASSUME Good'
      PROVE  /\ AllIdeal(Printed', dump'.snap, dump'.failed)
             /\ ~dump'.failed => Complete(Printed', dump'.left \o Flat(dump'.queries),
                                          Flat(dump'.asked))
             /\ Switched(text', dump'.writableSchema)
  <2>1. Good /\ text' = text
    BY <1>2, <1>4, <1>6, <1>9 DEF Good
  <2>2. Printed' = Printed
    BY <2>1 DEF Printed
  <2>3. dump'.snap = IF dump.read THEN dump.snap ELSE Visible
    BY <1>6, <1>9 DEF Good
  <2>4. AllIdeal(Printed', dump'.snap, dump'.failed)
    BY <1>1, <1>6, <2>1, <2>2, <2>3, StillIdeal
  <2> QED BY <1>1, <1>2, <1>6, <2>1, <2>2, <2>4, BetweenNow
<1> QED BY <1>1, <1>7, <1>8, <1>9, InsideDump

LEMMA EndDump ==
    ASSUME Inv, DumpInv, DumpEnd
    PROVE  DumpInv'
<1> DEFINE off == [put |-> "off", table |-> Head(Schema), rows |-> {}]
           on == dump.writableSchema
           u == IF on THEN text \o <<off>> ELSE text
<1>1. /\ cmd = "release" /\ cmd' = "idle" /\ dump' = [dump EXCEPT !.writableSchema = FALSE]
      /\ ended' = IF dump.nErr > 0 THEN "ROLLBACK" ELSE "COMMIT"
      /\ Prints(IF on THEN Entry("off", Head(Schema), {}) ELSE <<>>)
  BY DEF DumpEnd
<1>2. /\ text \in Seq(Entries) /\ dump.left = <<>> /\ dump.nErr \in {0, 1} /\ ended = "none"
      /\ dump.writableSchema \in BOOLEAN /\ dump.failed \in BOOLEAN /\ dump.read \in BOOLEAN
      /\ dump.snap \in SUBSET Row /\ <<>> \in Seq(Table) /\ <<>> \in Seq(Entries)
      /\ dump.asked \in Seq(Lists) /\ Len(dump.asked) <= 2 /\ Len(dump.asked) > 0
      /\ dump.queries \in Seq(Lists) /\ Len(dump.queries) <= Len(dump.asked)
  BY <1>1, BetweenNow
<1>3. dump.queries = <<>>
  BY <1>1 DEF DumpInv, DumpTyped
<1>4. /\ dump'.asked = dump.asked /\ dump'.queries = dump.queries /\ dump'.left = dump.left
      /\ dump'.nErr = dump.nErr /\ dump'.snap = dump.snap /\ dump'.writableSchema = FALSE
      /\ dump'.read = dump.read /\ dump'.failed = dump.failed /\ dump'.lost = dump.lost
  BY <1>1, DumpFields
<1>5. Head(Schema) \in Table
  <2>1. Schema \in Seq(Table) /\ Len(Schema) > 0
    BY ShellDataAssumption DEF ShellDataAssumption
  <2>2. Schema # <<>>
    BY <2>1
  <2> QED BY <2>1, <2>2, HeadTailProperties
<1>6. off \in Entries /\ off.put = "off"
  BY <1>5 DEF Entries
<1>7. Good' <=> Good
  BY <1>4 DEF Good
<1>8. text' = IF Good THEN u ELSE <<>>
  <2>1. text \o <<>> = text
    BY <1>2, ConcatEmptySeq
  <2> QED BY <1>1, <1>4, <2>1 DEF Prints, Entry, Good
<1> HIDE DEF off
<1>9. u \in Seq(Entries) /\ Where(u, Puts) = Printed
  <2>1. off.put \in {"on", "off"}
    BY <1>6
  <2>2. text \o <<off>> \in Seq(Entries) /\ Where(text \o <<off>>, Puts) = Where(text, Puts)
    BY <1>2, <1>6, <2>1, PrintedMore
  <2> QED BY <1>2, <2>2 DEF Printed
<1>10. ASSUME Good PROVE Closed(u)
  <2>1. Switched(text, on)
    BY <1>1, <1>10, BetweenNow
  <2> QED BY <1>2, <1>6, <2>1, SwitchedOff
<1> HIDE DEF u
<1>11. DumpTyped'
  <2>1. /\ dump'.asked \in Seq(Lists) /\ Len(dump'.asked) <= 2 /\ Len(dump'.asked) > 0
        /\ dump'.queries \in Seq(Lists) /\ Len(dump'.queries) <= Len(dump'.asked)
        /\ dump'.queries = <<>>
    BY <1>2, <1>3, <1>4
  <2>2. /\ dump'.left \in Seq(Table) /\ dump'.left = <<>> /\ dump'.nErr \in {0, 1}
        /\ dump'.writableSchema \in BOOLEAN /\ dump'.failed \in BOOLEAN
        /\ dump'.snap \in SUBSET Row /\ dump'.read \in BOOLEAN
    BY <1>2, <1>4
  <2>3. text' \in Seq(Entries)
    BY <1>2, <1>8, <1>9
  <2>4. ended' = "COMMIT" => dump'.nErr = 0
    BY <1>1, <1>2, <1>4
  <2> QED BY <1>1, <2>4, <2>1, <2>2, <2>3 DEF DumpTyped
<1>12. Fixed'
  BY <1>1 DEF Fixed, Dumping
<1>13. Content'
  <2>1. ASSUME Good'
        PROVE  /\ AllIdeal(Printed', dump'.snap, dump'.failed)
               /\ ~dump'.failed => Complete(Printed', dump'.left \o Flat(dump'.queries),
                                            Flat(dump'.asked))
    <3>1. Good /\ text' = u
      BY <1>7, <1>8, <2>1
    <3>2. Printed' = Printed
      BY <1>9, <3>1 DEF Printed
    <3> QED BY <1>1, <1>2, <1>4, <3>1, <3>2, BetweenNow
  <2> QED BY <2>1 DEF Content
<1>14. Switches'
  BY <1>1, <1>7, <1>8, <1>10 DEF Switches, Dumping
<1> QED BY <1>11, <1>12, <1>13, <1>14 DEF DumpInv

LEMMA InitDump == Init => DumpInv
<1> SUFFICES ASSUME Init PROVE DumpInv
  OBVIOUS
<1>1. /\ dump = NoDump /\ text = <<>> /\ ended = "none" /\ cmd = "idle"
  BY DEF Init
<1>2. /\ dump.asked = <<>> /\ dump.queries = <<>> /\ dump.left = <<>>
      /\ dump.nErr = 0 /\ dump.snap = {} /\ dump.writableSchema = FALSE
      /\ dump.read = FALSE /\ dump.failed = FALSE
  BY <1>1 DEF NoDump
<1>3. ~Dumped /\ ~Dumping
  BY <1>1 DEF Dumped, Dumping
<1>4. DumpTyped
  <2>1. <<>> \in Seq(Lists) /\ <<>> \in Seq(Table) /\ Len(<<>>) = 0 /\ <<>> \in Seq(Entries)
    OBVIOUS
  <2>2. 0 <= 2 /\ 0 <= 0
    OBVIOUS
  <2>3. /\ dump.asked \in Seq(Lists) /\ Len(dump.asked) <= 2
        /\ dump.queries \in Seq(Lists) /\ Len(dump.queries) <= Len(dump.asked)
    BY <1>2, <2>1, <2>2
  <2>4. /\ dump.left \in Seq(Table) /\ dump.nErr \in {0, 1}
        /\ dump.snap \in SUBSET Row /\ dump.writableSchema \in BOOLEAN
        /\ dump.read \in BOOLEAN /\ dump.failed \in BOOLEAN /\ text \in Seq(Entries)
    BY <1>1, <1>2, <2>1
  <2> QED BY <1>1, <1>2, <1>3, <2>3, <2>4 DEF DumpTyped
<1>5. Fixed /\ Content /\ Switches
  BY <1>1, <1>3 DEF Fixed, Content, Switches
<1> QED BY <1>4, <1>5 DEF DumpInv

LEMMA StutterDump == ASSUME DumpInv, UNCHANGED vars PROVE DumpInv'
<1>1. /\ dump' = dump /\ text' = text /\ ended' = ended /\ cmd' = cmd
      /\ Printed' = Printed /\ Visible' = Visible /\ lock' = lock
  BY DEF vars, dumpVars, db, Printed, Visible
<1>2. DumpTyped' /\ Fixed'
  BY <1>1 DEF DumpInv, DumpTyped, Fixed, Dumped, Dumping
<1>3. Content' /\ Switches'
  BY <1>1 DEF DumpInv, Content, Switches, Dumped, Dumping, Good
<1> QED BY <1>2, <1>3 DEF DumpInv

LEMMA StepDump == Inv /\ DumpInv /\ [Next]_vars => DumpInv'
<1> SUFFICES ASSUME Inv, DumpInv, [Next]_vars PROVE DumpInv'
  OBVIOUS
<1>1. CASE UserSql \/ Killed \/ ImportBegin \/ BackupBegin \/ RestoreBegin
  <2>1. dump' = NoDump /\ text' = <<>> /\ ended' = "none"
    BY <1>1 DEF UserSql, Killed, ImportBegin, BackupBegin, RestoreBegin, CopyBegins, NoResults
  <2>2. ~Dumping'
    BY <1>1 DEF UserSql, Killed, ImportBegin, BackupBegin, RestoreBegin, CopyBegins, Dumping
  <2> QED BY <2>1, <2>2, FreshDump
<1>2. CASE \E c \in Conn \ {shell} : RivalSql(c) \/ RivalReadEnd(c)
  BY <1>2, RivalDump
<1>3. CASE ImportSteps \/ CopySteps \/ RestoreError
  <2>1. UNCHANGED dumpVars
    BY <1>3 DEF ImportSteps, ImportLine, ImportEof, ImportEnd, CopySteps, BackupStep, RestoreStep,
                RestoreBusy, RestoreError
  <2>2. ~Dumping
    BY <1>3 DEF ImportSteps, ImportLine, ImportEof, ImportEnd, CopySteps, BackupStep, RestoreStep,
                RestoreBusy, RestoreError, Dumping
  <2>3. ~Dumping'
    <3>1. cmd' \in {cmd, "commit", "idle"}
      BY <1>3 DEF ImportSteps, ImportLine, ImportEof, ImportEnd, GivesUp, CopySteps, BackupStep,
                  RestoreStep, RestoreBusy, RestoreError, RestoreGivesUp, CopyEnds
    <3> QED BY <2>2, <3>1 DEF Dumping
  <2> QED BY <2>1, <2>2, <2>3, QuietDump
<1>4. CASE DumpBegin
  BY <1>4, BeginDump
<1>5. CASE DumpSteps \/ SchemaFails
  BY <1>5, QueryDump, TableDump, QueryFailsDump, QueryDoneDump, IndexDump, EndDump DEF DumpSteps
<1>6. CASE UNCHANGED vars
  BY <1>6, StutterDump
<1> QED BY <1>1, <1>2, <1>3, <1>4, <1>5, <1>6 DEF Next, Failures

LEMMA HonestNow == Inv /\ DumpInv => DumpHonest
<1> SUFFICES ASSUME Inv, DumpInv, ended = "COMMIT", ~dump.lost
             PROVE  /\ \A i \in DOMAIN Printed : \/ Printed[i] = Ideal(Printed[i].table)
                                                 \/ dump.failed /\ Printed[i].put = "bare"
                    /\ \A put \in {"on", "off"} :
                          Cardinality({i \in DOMAIN text : text[i].put = put}) =
                          IF \E i \in DOMAIN text : text[i].put = "virtual" THEN 1 ELSE 0
                    /\ ~dump.failed =>
                          LET want == Where(Asked, Listed)
                          IN  Printed = [i \in DOMAIN want |-> Ideal(want[i])]
  BY DEF DumpHonest
<1>1. Good /\ Dumped /\ cmd = "idle" /\ ~Dumping
  BY DEF Good, Dumped, Dumping, DumpInv, DumpTyped, Inv, Snapshot
<1>2. /\ dump.asked \in Seq(Lists) /\ Len(dump.asked) <= 2 /\ Len(dump.asked) > 0
      /\ dump.queries = <<>> /\ dump.left = <<>> /\ text \in Seq(Entries)
  BY <1>1 DEF DumpInv, DumpTyped
<1>3. \A t : Ideal(t) = IdealOf(t, dump.snap)
  BY DEF Ideal, IdealOf
<1>4. AllIdeal(Printed, dump.snap, dump.failed)
  BY <1>1 DEF DumpInv, Content
<1>5. \A i \in DOMAIN Printed : \/ Printed[i] = Ideal(Printed[i].table)
                                \/ dump.failed /\ Printed[i].put = "bare"
  BY <1>3, <1>4 DEF AllIdeal
<1>6. \A put \in {"on", "off"} :
         Cardinality({i \in DOMAIN text : text[i].put = put}) =
         IF \E i \in DOMAIN text : text[i].put = "virtual" THEN 1 ELSE 0
  <2>1. Closed(text)
    BY <1>1 DEF DumpInv, Switches
  <2>2. Marks(text, "virtual") # {} <=> \E i \in DOMAIN text : text[i].put = "virtual"
    BY DEF Marks
  <2>3. \A put : {i \in DOMAIN text : text[i].put = put} = Marks(text, put)
    BY DEF Marks
  <2> QED BY <2>1, <2>2, <2>3 DEF Closed
<1>7. ASSUME ~dump.failed
      PROVE  Printed = [i \in DOMAIN Where(Asked, Listed) |-> Ideal(Where(Asked, Listed)[i])]
  <2> DEFINE want == Where(Asked, Listed)
             s == Printed
  <2>1. Flat(dump.asked) = Asked
    BY <1>2, AskedIs DEF Asked
  <2>2. Flat(dump.queries) = <<>> /\ <<>> \o <<>> = <<>>
    BY <1>2 DEF Flat
  <2>3. Names(s) \o Where(<<>>, Listed) = want
    BY <1>1, <1>2, <1>7, <2>1, <2>2 DEF DumpInv, Content, Complete
  <2>4. s \in Seq(Entries)
    BY <1>2, WhereTyped DEF Printed
  <2>5. Names(s) \in Seq(Table) /\ DOMAIN Names(s) = DOMAIN s
    BY <2>4, NamesTyped
  <2>6. Names(s) = want
    <3>1. Names(s) \o <<>> = Names(s)
      BY <2>5, ConcatEmptySeq
    <3> QED BY <2>3, <3>1, WhereEmpty
  <2>7. DOMAIN s = DOMAIN want /\ \A i \in DOMAIN s : want[i] = s[i].table
    BY <2>5, <2>6 DEF Names
  <2>8. s = [i \in DOMAIN s |-> s[i]]
    BY <2>4
  <2> HIDE DEF s, want
  <2>9. s = [i \in DOMAIN want |-> Ideal(want[i])]
    BY <1>5, <1>7, <2>7, <2>8 DEF s
  <2> QED BY <2>9 DEF s, want
<1> QED BY <1>5, <1>6, <1>7

\* What a dump has printed so far is as the invariant says, in every reachable state.
THEOREM DumpInvariance == Spec => []DumpInv
<1>1. Inv /\ DumpInv /\ [Next]_vars => DumpInv'
  BY StepDump
<1> QED BY <1>1, InitDump, Invariance, PTL DEF Spec

\* A dump that ends in COMMIT, and had a transaction around it to its end, is one
\* snapshot of the database; it is complete unless a query of sqlite_master failed,
\* and only then can it hold a CREATE without the rows.
THEOREM HonestDump == Spec => []DumpHonest
BY HonestNow, Invariance, DumpInvariance, PTL
=============================================================================
