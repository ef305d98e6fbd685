------------------------------ MODULE ExecRetry ------------------------------
(***************************************************************************)
(* One connection's calls of wait_if_busy, in detail: the sqlite3_exec of   *)
(* each turn runs a script statement by statement in autocommit mode, while  *)
(* another connection takes and drops its lock on the file in between, and   *)
(* hands back an error message that somebody has to free.                    *)
(*                                                                         *)
(* select() and select_as_map() pass the message on to their caller, who     *)
(* frees it as PROMPT_ERROR in demo.cpp does; LOG_TRANS_ frees it itself.    *)
(***************************************************************************)
EXTENDS Naturals, Sequences

CONSTANTS
    Scripts,    \* what a caller may pass: sequences of "read" and "write"
    MaxWait,    \* the 100 of wait_if_busy
    MaxCalls    \* bound: calls that are made

ASSUME ScriptsAssumption == \A s \in Scripts : s # <<>> /\ s \in Seq({"read", "write"})
ASSUME WaitAssumption == MaxWait \in Nat /\ MaxCalls \in Nat

VARIABLES
    rival,      \* the lock that the other connection holds
    script, at, \* the statements of the call, and the one to run next
    ran,        \* how often each of them wrote, or handed out rows, in the call
    rc, waits,  \* wait_if_busy's ec and wait_cnt
    err,        \* the caller's char*: NULL, or a message
    pc,
    (* History. *)
    calls,      \* calls made
    retries,    \* turns of the loop after a first one, over all calls
    lost        \* messages that no pointer refers to any more

call == <<script, calls>>
vars == <<rival, call, at, ran, rc, waits, err, pc, retries, lost>>

TypeOK ==
    /\ rival \in {"none", "shared", "pending"}
    /\ script \in Scripts \cup {<<>>}
    /\ at \in 1..(Len(script) + 1)
    /\ ran \in [1..Len(script) -> 0..(MaxWait + 1)]
    /\ rc \in {"ok", "busy", "error", "nomem"}
    /\ waits \in 0..MaxWait
    /\ err \in {"null", "message"}
    /\ pc \in {"idle", "exec", "turn", "back"}
    /\ calls \in 0..MaxCalls
    /\ retries \in Nat /\ lost \in Nat

Init ==
    /\ rival = "none"
    /\ script = <<>> /\ at = 1 /\ ran = <<>>
    /\ rc = "ok" /\ waits = 0 /\ err = "null"
    /\ pc = "idle"
    /\ calls = 0 /\ retries = 0 /\ lost = 0

\* External: the other connection, which reads and writes as it likes.
Rival ==
    /\ rival' \in {"none", "shared", "pending"} \ {rival}
    /\ pc \in {"exec", "turn"}
    /\ UNCHANGED <<call, at, ran, rc, waits, err, pc, retries, lost>>

Call(s) ==
    /\ pc = "idle" /\ calls < MaxCalls
    /\ calls' = calls + 1
    /\ script' = s /\ at' = 1
    /\ ran' = [i \in 1..Len(s) |-> 0]
    /\ rc' = "ok" /\ waits' = 0
    /\ pc' = "exec"
    /\ UNCHANGED <<rival, err, retries, lost>>

-----------------------------------------------------------------------------
(* sqlite3_exec.  External. *)

Unlocked == IF script[at] = "read" THEN rival # "pending" ELSE rival = "none"

\* The statement runs; a read has called back with its rows.
Statement ==
    /\ pc = "exec" /\ at <= Len(script)
    /\ Unlocked
    /\ ran' = [ran EXCEPT ![at] = @ + 1]
    /\ at' = at + 1
    /\ UNCHANGED <<rival, call, rc, waits, err, pc, retries, lost>>

\* Overwriting the pointer loses the message it held.
Overwrites(p) ==
    /\ err' = p
    /\ lost' = IF err = "message" THEN lost + 1 ELSE lost

\* A failing statement ends the script.  It is BUSY before its first row, but may
\* fail otherwise after some; a write is undone.  The message itself may be what
\* there is no memory for.
Fails ==
    /\ pc = "exec" /\ at <= Len(script)
    /\ \/ rc' = "busy" /\ ~Unlocked /\ Overwrites("message")
       \/ rc' = "error" /\ Unlocked /\ Overwrites("message")
       \/ rc' = "nomem" /\ Overwrites("null")
    /\ \/ UNCHANGED ran
       \/ /\ script[at] = "read" /\ Unlocked
          /\ ran' = [ran EXCEPT ![at] = @ + 1]
    /\ pc' = "turn"
    /\ UNCHANGED <<rival, call, at, waits, retries>>
Completes ==
    /\ pc = "exec" /\ at > Len(script)
    /\ rc' = "ok" /\ Overwrites("null")
    /\ pc' = "turn"
    /\ UNCHANGED <<rival, call, at, ran, waits, retries>>

-----------------------------------------------------------------------------
(* wait_if_busy and its callers. *)

\* Mutant: whatever fails is tried again.
RetriesAnyError == rc # "ok" /\ waits + 1 <= MaxWait

Retries == rc = "busy" /\ waits + 1 <= MaxWait

\* Mutant: the call starts after the first statement.
Resumes == at' = IF Len(script) > 1 THEN 2 ELSE 1

\* The script starts again from its first statement.
Again == at' = 1

\* return ec
Yields == rc' = rc

\* One turn of the loop is over.
Turn ==
    /\ pc = "turn"
    /\ IF Retries
       THEN /\ waits' = waits + 1 /\ retries' = retries + 1
            /\ Again
            /\ pc' = "exec"
       ELSE /\ pc' = "back"
            /\ UNCHANGED <<waits, retries, at>>
    /\ Yields
    /\ UNCHANGED <<rival, call, ran, err, lost>>

\* Mutant: the pointer is set to NULL without sqlite3_free.
FreesNothing == err' = "null" /\ lost' = IF err = "message" THEN lost + 1 ELSE lost

\* PROMPT_ERROR; what LOG_TRANS_ frees is the same message.
Frees == err' = "null" /\ UNCHANGED lost
Back ==
    /\ pc = "back"
    /\ Frees
    /\ pc' = "idle"
    /\ UNCHANGED <<rival, call, at, ran, rc, waits, retries>>

Next == Rival \/ (\E s \in Scripts : Call(s)) \/ Statement \/ Fails \/ Completes \/ Turn \/ Back

Spec == Init /\ [][Next]_vars
-----------------------------------------------------------------------------
(* Properties. *)

Returned == pc = "back"

\* One statement, the form that jsqlite.hpp:26-38 documents and LOG_TRANS_ uses,
\* takes effect exactly once if the answer is SQLITE_OK, not at all if it is still
\* SQLITE_BUSY and never twice, however often it was tried (jsqlite.cpp:15-19): no
\* row is handed to the callback again.
OneStatementOnce == Returned /\ Len(script) = 1 =>
    /\ rc = "ok" => ran[1] = 1
    /\ rc = "busy" \/ (rc # "ok" /\ script[1] = "write") => ran[1] = 0
    /\ ran[1] <= 1

\* A script has run to its end if the answer is SQLITE_OK; but its statements may
\* have taken effect once per turn, each at least as often as the next one.
ScriptsRepeatPrefixes ==
    Returned =>
        /\ \A i, j \in DOMAIN ran : i < j => ran[i] >= ran[j]
        /\ rc = "ok" => ran[Len(script)] = 1
        /\ \A i \in DOMAIN ran : ran[i] <= waits + 1

\* The messages are accounted for.  LOG_TRANS_ prints that of every failed call
\* (jsqlite.cpp:28-30): there is one, unless memory ran out.  And messages are lost
\* to retries and to nothing else, one by each retry.
RetriesLoseMessages ==
    /\ Returned => (err = "message") = (rc \in {"busy", "error"})
    /\ lost <= retries
    /\ pc = "idle" => lost = retries

\* sqlite3.h:342-345, "To avoid memory leaks, the application should invoke
\* sqlite3_free() on error message strings returned through the 5th parameter".
EveryMessageFreed == lost = 0
=============================================================================
