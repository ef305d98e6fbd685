----------------------------- MODULE SqliteFile -----------------------------
(***************************************************************************)
(* What jsqlite may rely on of SQLite: one database file in                 *)
(* rollback-journal mode, shared by the connections Conn.  The engine's     *)
(* source is not part of the repository (jl_sqlite3/ holds its headers), so *)
(* this module models its behaviour from the calls jsqlite makes and from   *)
(* the return codes jsqlite tells apart: SQLITE_OK, SQLITE_BUSY and         *)
(* everything else.                                                         *)
(*                                                                         *)
(* The table has one PRIMARY KEY column.  A row is <<t, k>>: key k, written *)
(* on behalf of t.  The tag t is not stored by SQLite; it remembers whose   *)
(* write the row is so that properties can speak of it.                     *)
(***************************************************************************)
EXTENDS Naturals

CONSTANTS
    Conn,   \* the open sqlite3* handles, each used by one thread or process
    Tag,    \* on whose behalf a row is written
    Key     \* the values of the PRIMARY KEY column

VARIABLES
    disk,       \* the committed rows
    lock,       \* lock[c]: the file lock connection c holds
    auto,       \* auto[c]: sqlite3_get_autocommit, no BEGIN is pending
    unsaved,    \* unsaved[c]: rows written in c's transaction, not committed
    pinned      \* connections with a prepared read that was never finalized

db == <<disk, lock, auto, unsaved, pinned>>

Row == Tag \X Key
Lock == {"none", "shared", "reserved", "pending"}
\* OK, BUSY, and every other code.
Code == {"ok", "busy", "error"}

Others(c) == Conn \ {c}
Writing == {"reserved", "pending"}
\* A pending writer lets no new reader in; a second writer never gets in.
CanRead(c) == lock[c] # "none" \/ \A d \in Others(c) : lock[d] # "pending"
CanReserve(c) == \A d \in Others(c) : lock[d] \notin Writing
\* Writing the file back takes an EXCLUSIVE lock, held only inside that call.
CanFlush(c) == \A d \in Others(c) : lock[d] = "none"

\* The lock of a connection outside any transaction: the SHARED lock of a
\* statement that was never finalized, if there is one.
Resting(c) == IF c \in pinned THEN "shared" ELSE "none"
EndsTransaction(c) ==
    /\ auto' = [auto EXCEPT ![c] = TRUE]
    /\ lock' = [lock EXCEPT ![c] = Resting(c)]
    /\ unsaved' = [unsaved EXCEPT ![c] = {}]

Keys(rows) == {r[2] : r \in rows}

DbInit ==
    /\ disk = {}
    /\ lock = [c \in Conn |-> "none"]
    /\ auto = [c \in Conn |-> TRUE]
    /\ unsaved = [c \in Conn |-> {}]
    /\ pinned = {}

DbType ==
    /\ disk \in SUBSET Row
    /\ lock \in [Conn -> Lock]
    /\ auto \in [Conn -> BOOLEAN]
    /\ unsaved \in [Conn -> SUBSET Row]
    /\ pinned \in SUBSET Conn

-----------------------------------------------------------------------------
(* Statements.  Each takes the connection and the result code r of the call. *)

\* BEGIN TRANSACTION is deferred: it takes no lock and is never BUSY.  Inside a
\* transaction it fails, and outside of one it may (out of memory, interrupted).
Begin(c, r) ==
    \/ /\ r = "ok" /\ auto[c]
       /\ auto' = [auto EXCEPT ![c] = FALSE]
       /\ UNCHANGED <<disk, lock, unsaved, pinned>>
    \/ r = "error" /\ UNCHANGED db

\* END TRANSACTION.  A BUSY commit leaves the transaction open and the lock
\* PENDING; a failure to write, with the lock, rolls the transaction back.
End(c, r) ==
    \/ r = "error" /\ auto[c] /\ UNCHANGED db
    \/ /\ r = "ok" /\ ~auto[c]
       /\ lock[c] \in Writing => CanFlush(c)
       /\ disk' = disk \cup unsaved[c]
       /\ EndsTransaction(c)
       /\ UNCHANGED pinned
    \/ /\ r = "busy" /\ ~auto[c]
       /\ lock[c] \in Writing /\ ~CanFlush(c)
       /\ lock' = [lock EXCEPT ![c] = "pending"]
       /\ UNCHANGED <<disk, auto, unsaved, pinned>>
    \/ /\ r = "error" /\ ~auto[c] /\ lock[c] \in Writing /\ CanFlush(c)
       /\ EndsTransaction(c)
       /\ UNCHANGED <<disk, pinned>>

Rollback(c, r) ==
    \/ r = "error" /\ auto[c] /\ UNCHANGED db
    \/ /\ r = "ok" /\ ~auto[c]
       /\ EndsTransaction(c)
       /\ UNCHANGED <<disk, pinned>>

\* INSERT inside a transaction reserves the file; outside of one it commits by
\* itself.  A constraint failure undoes the statement only, an I/O failure the
\* whole transaction.
Write(c, t, k, r) ==
    LET Fresh == k \notin Keys(disk \cup unsaved[c])
        CanWrite == IF auto[c] THEN CanFlush(c) ELSE CanReserve(c)
        Reserve == lock' = [lock EXCEPT ![c] =
                       IF auto[c] \/ lock[c] = "pending" THEN @ ELSE "reserved"]
    IN  \/ /\ r = "ok" /\ CanWrite /\ Fresh /\ Reserve
           /\ IF auto[c]
              THEN disk' = disk \cup {<<t, k>>} /\ UNCHANGED unsaved
              ELSE /\ unsaved' = [unsaved EXCEPT ![c] = @ \cup {<<t, k>>}]
                   /\ UNCHANGED disk
           /\ UNCHANGED <<auto, pinned>>
        \/ /\ r = "error" /\ CanWrite /\ ~Fresh /\ Reserve
           /\ UNCHANGED <<disk, auto, unsaved, pinned>>
        \/ r = "busy" /\ ~CanWrite /\ UNCHANGED db
        \/ r = "error" /\ CanWrite /\ EndsTransaction(c) /\ UNCHANGED <<disk, pinned>>

\* A SELECT that starts returning rows holds SHARED until it is reset.
ReadBegin(c, r) ==
    \/ /\ r = "ok" /\ CanRead(c)
       /\ lock' = [lock EXCEPT ![c] = IF @ = "none" THEN "shared" ELSE @]
       /\ UNCHANGED <<disk, auto, unsaved, pinned>>
    \/ r = "busy" /\ ~CanRead(c) /\ UNCHANGED db

\* A SELECT that runs to its end in one call holds no lock of its own after it.
ReadAll(c, r) ==
    \/ /\ r = "ok" /\ CanRead(c)
       /\ lock' = [lock EXCEPT ![c] = IF @ = "none" /\ ~auto[c] THEN "shared" ELSE @]
       /\ UNCHANGED <<disk, auto, unsaved, pinned>>
    \/ r = "busy" /\ ~CanRead(c) /\ UNCHANGED db

\* sqlite3_finalize, or the end of sqlite3_exec.
ReadEnd(c) ==
    /\ lock' = [lock EXCEPT ![c] = IF auto[c] THEN Resting(c) ELSE @]
    /\ UNCHANGED <<disk, auto, unsaved, pinned>>

\* An I/O failure of a SELECT rolls its connection's transaction back.
ReadAbort(c) ==
    /\ EndsTransaction(c)
    /\ UNCHANGED <<disk, pinned>>

\* SAVEPOINT opens a transaction when none is open, and is never BUSY.
Savepoint(c) ==
    /\ auto' = [auto EXCEPT ![c] = FALSE]
    /\ UNCHANGED <<disk, lock, unsaved, pinned>>

\* RELEASE of the savepoint that opened the transaction ends it; of a nested
\* one it does nothing.  Without a transaction there is no such savepoint.
Release(c, opened, r) ==
    IF opened THEN End(c, r)
              ELSE r = (IF auto[c] THEN "error" ELSE "ok") /\ UNCHANGED db

\* The statement handle is lost: nothing will ever finalize it.
ReadLeak(c) ==
    /\ pinned' = pinned \cup {c}
    /\ UNCHANGED <<disk, lock, auto, unsaved>>

\* The connection is closed or its process dies: the journal is rolled back.
Drop(c) ==
    /\ pinned' = pinned \ {c}
    /\ lock' = [lock EXCEPT ![c] = "none"]
    /\ auto' = [auto EXCEPT ![c] = TRUE]
    /\ unsaved' = [unsaved EXCEPT ![c] = {}]
    /\ UNCHANGED disk
=============================================================================
