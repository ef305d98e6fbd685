---------------------------- MODULE Transaction ----------------------------
(***************************************************************************)
(* jsqlite's transaction objects, its busy-wait loop and its reads, used by *)
(* several connections to one database file.                                *)
(*                                                                         *)
(* A transaction object lives on the C++ stack of the thread that owns its  *)
(* connection: its constructor runs BEGIN, commit() runs END, rollback() and*)
(* the destructor run ROLLBACK, and all four go through wait_if_busy.  The  *)
(* application inserts rows with raw sqlite3_exec calls, inside and outside *)
(* of objects, as demo.cpp does.  A call into jsqlite is modelled one       *)
(* sqlite3_exec at a time, so that the other connections move in between.   *)
(***************************************************************************)
EXTENDS SqliteFile

CONSTANTS
    Obj,        \* transaction objects, each constructed at most once
    NoObj,
    MaxWait,    \* the 100 of wait_if_busy
    Nested,     \* may an object be constructed inside the scope of another?
    KeepGoing,  \* does a scope go on after one of its statements failed?
    (* Bounds on what the application does. *)
    Reads,      \* <<kind, c>>: the kinds of read made on connection c
    Loose       \* the connections that also write outside of any object

ASSUME TagAssumption == Tag = Obj \cup Conn /\ Obj \cap Conn = {}
ASSUME NoObjAssumption == NoObj \notin Tag
ASSUME MaxWaitAssumption == MaxWait \in Nat
ASSUME FlagAssumption == Nested \in BOOLEAN /\ KeepGoing \in BOOLEAN
ASSUME BoundsAssumption ==
    Reads \subseteq {"select", "bind"} \X Conn /\ Loose \subseteq Conn

VARIABLES
    top,        \* top[c]: the innermost live object of connection c
    outer,      \* outer[o]: the live object around o
    life,       \* life[o]: "open" until commit() or rollback() is called
    dbOf,       \* dbOf[o]: the field db_
    finalized,  \* finalized[o]: the field finalized_
    ec,         \* ec[o]: the field ec_
    pc,         \* pc[c]: the call in progress
    rc,         \* rc[c]: what wait_if_busy is about to return
    waits,      \* waits[c]: its local wait_cnt
    failed,     \* live objects one of whose scope's statements failed
    (* History, which no guard of the library reads. *)
    made,       \* made[t]: keys whose INSERT on behalf of t returned OK
    asked,      \* asked[o]: which of commit() and rollback() was called first
    answer,     \* answer[o]: what commit() answered last
    stage,      \* stage[o]: what became of the transaction o began
    owner,      \* owner[c]: the object that began c's open transaction
    gaveUp      \* connections on which a commit() ran out of retries

objs == <<top, outer, life, dbOf, finalized, ec, failed>>
calls == <<pc, rc, waits>>
ghosts == <<made, asked, answer, stage, owner, gaveUp>>
vars == <<db, objs, calls, ghosts>>

\* The calls of LOG_TRANS_; those that wait; those that are returning rows.
Closing == {"ROLLBACK", "DTOR"}
Statement == {"BEGIN", "END"} \cup Closing
Call == {"idle", "select", "rows", "bind", "bindrows"} \cup Statement

\* "bare": BEGIN failed although no transaction was open.
Stages == {"unopened", "bare", "open", "committed", "aborted"}

TypeOK ==
    /\ DbType
    /\ top \in [Conn -> Obj \cup {NoObj}]
    /\ outer \in [Obj -> Obj \cup {NoObj}]
    /\ life \in [Obj -> {"unborn", "open", "closed", "gone"}]
    /\ dbOf \in [Obj -> Conn \cup {NoObj}]
    /\ finalized \in [Obj -> BOOLEAN]
    /\ ec \in [Obj -> Code]
    /\ pc \in [Conn -> Call]
    /\ rc \in [Conn -> Code \cup {"none"}]
    /\ waits \in [Conn -> 0..MaxWait]
    /\ made \in [Tag -> SUBSET Key]
    /\ asked \in [Obj -> {"nothing", "commit", "rollback"}]
    /\ answer \in [Obj -> {"none", "yes", "no"}]
    /\ stage \in [Obj -> Stages]
    /\ owner \in [Conn -> Obj \cup {NoObj}]
    /\ failed \in SUBSET Obj
    /\ gaveUp \in SUBSET Conn

Init ==
    /\ DbInit
    /\ top = [c \in Conn |-> NoObj]
    /\ outer = [o \in Obj |-> NoObj]
    /\ life = [o \in Obj |-> "unborn"]
    /\ dbOf = [o \in Obj |-> NoObj]
    /\ finalized = [o \in Obj |-> FALSE]
    /\ ec = [o \in Obj |-> "ok"]
    /\ pc = [c \in Conn |-> "idle"]
    /\ rc = [c \in Conn |-> "none"]
    /\ waits = [c \in Conn |-> 0]
    /\ made = [t \in Tag |-> {}]
    /\ asked = [o \in Obj |-> "nothing"]
    /\ answer = [o \in Obj |-> "none"]
    /\ stage = [o \in Obj |-> "unopened"]
    /\ owner = [c \in Conn |-> NoObj]
    /\ failed = {}
    /\ gaveUp = {}

-----------------------------------------------------------------------------
(* Entering a call. *)

Idle(c) == pc[c] = "idle"
Enters(c, call) ==
    /\ Idle(c)
    /\ pc' = [pc EXCEPT ![c] = call]
    /\ UNCHANGED <<rc, waits>>

\* A scope whose commit() or rollback() was called is over.
InScope(c) == top[c] # NoObj /\ life[top[c]] = "open"

Construct(c, o) ==
    /\ life[o] = "unborn"
    /\ Nested \/ top[c] = NoObj
    /\ Enters(c, "BEGIN")
    /\ top' = [top EXCEPT ![c] = o]
    /\ outer' = [outer EXCEPT ![o] = top[c]]
    /\ life' = [life EXCEPT ![o] = "open"]
    /\ dbOf' = [dbOf EXCEPT ![o] = c]
    /\ finalized' = [finalized EXCEPT ![o] = FALSE]
    /\ ec' = [ec EXCEPT ![o] = "ok"]
    /\ UNCHANGED <<db, failed, ghosts>>

\* Mutant: the answer is whether the object is finalized.
AnswerFinalized(code) == "yes"

\* return ec_ == 0
Answer(code) == IF code = "ok" THEN "yes" ELSE "no"

\* commit() on a finalized object runs nothing and answers from the old ec_: that of
\* the BEGIN, of an earlier END, or of the ROLLBACK that rollback() ran.
Commit(c) ==
    LET o == top[c] IN
    /\ o # NoObj
    /\ life' = [life EXCEPT ![o] = "closed"]
    /\ asked' = [asked EXCEPT ![o] = IF @ = "nothing" THEN "commit" ELSE @]
    /\ IF finalized[o]
       THEN /\ Idle(c)
            /\ answer' = [answer EXCEPT ![o] = Answer(ec[o])]
            /\ UNCHANGED calls
       ELSE Enters(c, "END") /\ UNCHANGED answer
    /\ UNCHANGED <<db, top, outer, dbOf, finalized, ec,
                   made, stage, owner, failed, gaveUp>>

\* Mutant: rollback() leaves the ROLLBACK to the destructor.
RollbackLater(c) ==
    LET o == top[c] IN
    /\ o # NoObj /\ life[o] = "open" /\ Idle(c)
    /\ life' = [life EXCEPT ![o] = "closed"]
    /\ asked' = [asked EXCEPT ![o] = "rollback"]
    /\ UNCHANGED <<db, calls, top, outer, dbOf, finalized, ec, failed,
                   made, answer, stage, owner, gaveUp>>

\* rollback() after commit() runs nothing and answers from the old ec_.
RollbackCall(c) ==
    LET o == top[c] IN
    /\ o # NoObj /\ life[o] = "open"
    /\ life' = [life EXCEPT ![o] = "closed"]
    /\ asked' = [asked EXCEPT ![o] = "rollback"]
    /\ IF finalized[o] THEN Idle(c) /\ UNCHANGED calls ELSE Enters(c, "ROLLBACK")
    /\ UNCHANGED <<db, top, outer, dbOf, finalized, ec,
                   made, answer, stage, owner, failed, gaveUp>>

\* The scope of the innermost object ends; its destructor calls rollback().
Frees(gone) ==
    /\ life' = [o \in Obj |-> IF o \in gone THEN "gone" ELSE life[o]]
    /\ dbOf' = [o \in Obj |-> IF o \in gone THEN NoObj ELSE dbOf[o]]
    /\ finalized' = [o \in Obj |-> finalized[o] /\ o \notin gone]
    /\ ec' = [o \in Obj |-> IF o \in gone THEN "ok" ELSE ec[o]]
    /\ failed' = failed \ gone
Pop(c) ==
    /\ top' = [top EXCEPT ![c] = outer[top[c]]]
    /\ Frees({top[c]})
\* Mutant: no destructor.
DestroyForgets(c) ==
    /\ top[c] # NoObj
    /\ Idle(c) /\ Pop(c)
    /\ UNCHANGED <<db, calls, outer, ghosts>>

Destroy(c) ==
    /\ top[c] # NoObj
    /\ IF finalized[top[c]]
       THEN Idle(c) /\ Pop(c) /\ UNCHANGED calls
       ELSE /\ Enters(c, "DTOR")
            /\ UNCHANGED <<top, life, dbOf, finalized, ec, failed>>
    /\ UNCHANGED <<db, outer, ghosts>>

-----------------------------------------------------------------------------
(* wait_if_busy. *)

\* Mutant: the destructor commits.
ExecClosingCommits(c, r) ==
    \/ pc[c] = "BEGIN" /\ Begin(c, r)
    \/ pc[c] # "BEGIN" /\ End(c, r)

\* Mutant: the constructor opens no transaction.
ExecNoBegin(c, r) ==
    \/ pc[c] = "BEGIN" /\ r = "ok" /\ UNCHANGED db
    \/ pc[c] = "END" /\ End(c, r)
    \/ pc[c] \in Closing /\ Rollback(c, r)

\* The sqlite3_exec of the loop, by the statement it was given.
Exec(c, r) ==
    \/ pc[c] = "BEGIN" /\ Begin(c, r)
    \/ pc[c] = "END" /\ End(c, r)
    \/ pc[c] \in Closing /\ Rollback(c, r)

\* A transaction ends whenever autocommit comes back on.
Ends(c) == ~auto[c] /\ auto'[c]
RecordsEnd(c, how) ==
    IF Ends(c) /\ owner[c] # NoObj
    THEN /\ stage' = [stage EXCEPT ![owner[c]] = how]
         /\ owner' = [owner EXCEPT ![c] = NoObj]
    ELSE UNCHANGED <<stage, owner>>

Records(c, r) ==
    IF pc[c] = "BEGIN" /\ auto[c]
    THEN /\ stage' = [stage EXCEPT ![top[c]] = IF r = "ok" THEN "open" ELSE "bare"]
         /\ owner' = IF r = "ok" THEN [owner EXCEPT ![c] = top[c]] ELSE owner
    ELSE RecordsEnd(c, IF pc[c] = "END" /\ r = "ok" THEN "committed" ELSE "aborted")

\* Mutant: ++wait_cnt is missing.
NotCounted(n) == n
Counted(n) == n + 1

\* Mutant: one attempt too many.
PatienceOffByOne(n) == n > MaxWait

\* BUSY is tried again until wait_cnt exceeds the bound.
OutOfPatience(n) == Counted(n) > MaxWait

\* One turn of the loop.
Attempt(c) ==
    /\ pc[c] \in Statement /\ rc[c] = "none"
    /\ \E r \in Code :
        /\ Exec(c, r)
        /\ IF r = "busy" /\ ~OutOfPatience(waits[c])
           THEN waits' = [waits EXCEPT ![c] = Counted(@)] /\ UNCHANGED rc
           ELSE waits' = [waits EXCEPT ![c] = 0] /\ rc' = [rc EXCEPT ![c] = r]
        /\ Records(c, r)
        /\ gaveUp' = IF pc[c] = "END" /\ rc'[c] = "busy"
                     THEN gaveUp \cup {c} ELSE gaveUp
    /\ UNCHANGED <<objs, pc, made, asked, answer>>

Returns(c, call) ==
    /\ pc' = [pc EXCEPT ![c] = call]
    /\ rc' = [rc EXCEPT ![c] = "none"]
    /\ UNCHANGED waits

\* What LOG_TRANS_ and the member function around it do with the code.
Return(c) ==
    LET o == top[c] IN
    /\ pc[c] \in {"BEGIN", "END", "ROLLBACK"} /\ rc[c] # "none"
    /\ ec' = [ec EXCEPT ![o] = rc[c]]
    /\ finalized' = [finalized EXCEPT ![o] = pc[c] # "BEGIN" \/ rc[c] # "ok"]
    /\ answer' = [answer EXCEPT ![o] =
           IF pc[c] = "END" THEN Answer(rc[c]) ELSE @]
    /\ Returns(c, "idle")
    /\ UNCHANGED <<db, top, outer, life, dbOf, made, asked, stage, owner, failed, gaveUp>>

\* The destructor ends, whatever its ROLLBACK returned.
DestroyReturn(c) ==
    /\ pc[c] = "DTOR" /\ rc[c] # "none"
    /\ Pop(c)
    /\ Returns(c, "idle")
    /\ UNCHANGED <<db, outer, ghosts>>

-----------------------------------------------------------------------------
(* Reads. *)

\* select() and select_as_map() run the statement through wait_if_busy; once it
\* holds its SHARED lock, sqlite3_exec calls back row by row.
Select(c) == <<"select", c>> \in Reads /\ Enters(c, "select") /\ UNCHANGED <<db, objs, ghosts>>
SelectAttempt(c) ==
    /\ pc[c] = "select"
    /\ \E r \in Code :
        /\ ReadBegin(c, r)
        /\ IF r = "busy" /\ ~OutOfPatience(waits[c])
           THEN waits' = [waits EXCEPT ![c] = Counted(@)] /\ UNCHANGED pc
           ELSE /\ waits' = [waits EXCEPT ![c] = 0]
                /\ pc' = [pc EXCEPT ![c] = IF r = "ok" THEN "rows" ELSE "idle"]
    /\ UNCHANGED <<objs, rc, ghosts>>

SelectDone(c) ==
    /\ pc[c] = "rows"
    /\ ReadEnd(c)
    /\ pc' = [pc EXCEPT ![c] = "idle"]
    /\ UNCHANGED <<objs, rc, waits, ghosts>>

Bind(c) == <<"bind", c>> \in Reads /\ Enters(c, "bind") /\ UNCHANGED <<db, objs, ghosts>>

\* select_bind_text steps its own statement and tries BUSY again for ever.
BindStep(c) ==
    /\ pc[c] = "bind"
    /\ \E r \in Code :
        /\ ReadBegin(c, r)
        /\ pc' = [pc EXCEPT ![c] = IF r = "busy" THEN @ ELSE "bindrows"]
    /\ UNCHANGED <<objs, rc, waits, ghosts>>

\* Mutant: the statement is not finalized.
BindDoneUnfinalized(c) ==
    /\ pc[c] = "bindrows"
    /\ pc' = [pc EXCEPT ![c] = "idle"]
    /\ UNCHANGED <<db, objs, rc, waits, ghosts>>

\* SQLITE_DONE: the statement is finalized.
BindDone(c) ==
    /\ pc[c] = "bindrows"
    /\ ReadEnd(c)
    /\ pc' = [pc EXCEPT ![c] = "idle"]
    /\ UNCHANGED <<objs, rc, waits, ghosts>>

\* sqlite3_exec or sqlite3_step returns an error, before the first row or behind one,
\* which is handed to the caller: the statement is finalized, and an I/O failure has
\* ended the transaction as well.
ReadFails(c) ==
    /\ pc[c] \in {"select", "rows", "bind", "bindrows"}
    /\ ReadEnd(c) \/ ReadAbort(c)
    /\ RecordsEnd(c, "aborted")
    /\ failed' = IF InScope(c) THEN failed \cup {top[c]} ELSE failed
    /\ pc' = [pc EXCEPT ![c] = "idle"]
    /\ waits' = [waits EXCEPT ![c] = 0]
    /\ UNCHANGED <<top, outer, life, dbOf, finalized, ec, rc, made, asked, answer, gaveUp>>

\* An exception leaves the statement behind: out of select_bind_text, past both
\* calls of sqlite3_finalize, when a row holds a NULL (std::string(NULL)); out of
\* select_as_map_cb, through sqlite3_exec, when a key is not a JSON string.
ReadThrow(c) ==
    /\ pc[c] \in {"rows", "bindrows"}
    /\ ReadLeak(c)
    /\ pc' = [pc EXCEPT ![c] = "idle"]
    /\ UNCHANGED <<objs, rc, waits, ghosts>>

-----------------------------------------------------------------------------
(* The application. *)

\* Rows belong to the scope they are written in, or else to the connection.
Enclosed(c) == top[c] # NoObj /\ outer[top[c]] # NoObj
Writer(c) == IF InScope(c) THEN top[c] ELSE c

\* A raw sqlite3_exec of an INSERT.  Loose rows are written only where no outer
\* scope could claim them.
Insert(c, k) ==
    LET t == Writer(c) IN
    /\ Idle(c)
    /\ ~InScope(c) => c \in Loose /\ ~Enclosed(c)
    /\ KeepGoing \/ t \notin failed
    /\ k \notin made[t]
    /\ \E r \in Code :
        /\ Write(c, t, k, r)
        /\ made' = IF r = "ok" THEN [made EXCEPT ![t] = @ \cup {k}] ELSE made
        /\ failed' = IF r # "ok" /\ t \in Obj THEN failed \cup {t} ELSE failed
        /\ RecordsEnd(c, "aborted")
    /\ UNCHANGED <<top, outer, life, dbOf, finalized, ec, calls, asked, answer, gaveUp>>

\* The process dies, or closes the connection: no destructor runs.
Die(c) ==
    /\ Drop(c)
    /\ RecordsEnd(c, "aborted")
    /\ top' = [top EXCEPT ![c] = NoObj]
    /\ Frees({o \in Obj : dbOf[o] = c})
    /\ pc' = [pc EXCEPT ![c] = "idle"]
    /\ rc' = [rc EXCEPT ![c] = "none"]
    /\ waits' = [waits EXCEPT ![c] = 0]
    /\ UNCHANGED <<outer, made, asked, answer, gaveUp>>

Next == \E c \in Conn :
    \/ \E o \in Obj : Construct(c, o)
    \/ Commit(c)
    \/ RollbackCall(c)
    \/ Destroy(c)
    \/ Attempt(c)
    \/ Return(c)
    \/ DestroyReturn(c)
    \/ Select(c)
    \/ SelectAttempt(c)
    \/ SelectDone(c)
    \/ Bind(c)
    \/ BindStep(c)
    \/ BindDone(c)
    \/ ReadFails(c)
    \/ ReadThrow(c)
    \/ \E k \in Key : Insert(c, k)
    \/ Die(c)

Spec == Init /\ [][Next]_vars

\* A thread inside a call keeps running; nothing makes an application call, and
\* nothing makes a read fail that is only waiting for a lock.
Progress(c) ==
    WF_vars(Attempt(c) \/ Return(c) \/ DestroyReturn(c) \/ SelectAttempt(c)
            \/ SelectDone(c) \/ BindStep(c) \/ BindDone(c))
FairSpec == Spec /\ \A c \in Conn : Progress(c)
-----------------------------------------------------------------------------
(* Properties.  Those that say how the scopes of jsqlite behave hold when the *)
(* application keeps to the pattern of demo.cpp:70-88: scopes do not nest,   *)
(* and a scope is left at its first failed statement.                        *)

Rows(t) == {t} \X made[t]
\* What a SELECT on connection c sees.
Visible(c) == disk \cup unsaved[c]

\* All or nothing (jsqlite.cpp:35-60): if one row of a scope is in the database
\* then commit() was called on its object and every row of the scope is there,
\* whatever was busy, failed or died in between; but for the scope whose BEGIN failed
\* with no transaction open, which the constructor only logs (jsqlite.cpp:38).
ScopeAtomic ==
    \A o \in Obj : stage[o] # "bare" /\ (\E k \in Key : <<o, k>> \in disk)
        => asked[o] = "commit" /\ answer[o] # "no" /\ Rows(o) \subseteq disk

\* The answer of commit() (jsqlite.cpp:44-51) is the truth, but for two cases: after a
\* yes the whole scope is durable, unless rollback() was called before, whose success
\* commit() then reports (jsqlite.cpp:50), and none of it is; after a no, none of it
\* is nor ever becomes so, unless its BEGIN failed with no transaction open, and then
\* all of it is.
AnswerIsTrue ==
    \A o \in Obj :
        /\ answer[o] = "yes" =>
              IF asked[o] = "rollback" THEN disk \cap Rows(o) = {} ELSE Rows(o) \subseteq disk
        /\ answer[o] = "no" =>
              IF stage[o] = "bare" THEN Rows(o) \subseteq disk ELSE disk \cap Rows(o) = {}

\* o is gone and its commit() was never called, at least not before rollback().
Uncommitted(o) == life[o] = "gone" /\ asked[o] # "commit"

\* demo.cpp:77 and :84, "transaction will rollback automatically": once an object
\* whose commit() was never called is gone, no row of its scope is in the database,
\* as long as the scope is inside a transaction, its own or another object's: rows
\* behind a BEGIN that failed with none open are committed one by one.
ProtectedNeverStored ==
    \A o \in Obj : Uncommitted(o) /\ stage[o] # "bare" => disk \cap Rows(o) = {}

\* ... and nobody sees one either.
RollsBackOnExit ==
    \A o \in Obj : Uncommitted(o) /\ stage[o] # "bare"
        => \A c \in Conn : Visible(c) \cap Rows(o) = {}

\* ... and that is so as long as no commit() has given up on the connection.
RollsBackUnlessGaveUp ==
    \A o \in Obj : Uncommitted(o) /\ stage[o] # "bare"
        => \A c \in Conn \ gaveUp : Visible(c) \cap Rows(o) = {}

\* A connection with no object and no call in progress holds no file lock, so
\* that others can write, but for two leaks: the transaction left open by a
\* commit() that gave up (jsqlite.cpp:47-48), and the statement that an
\* exception in a read left behind (bind.cpp:32, jsqlite.cpp:105).
NoLockLeak ==
    \A c \in Conn : Idle(c) /\ top[c] = NoObj /\ lock[c] # "none"
        => c \in gaveUp \cup pinned

\* An INSERT outside of any object that returned OK is durable, unless an
\* earlier commit() on that connection gave up and left its transaction open.
LooseDurable ==
    \A c \in Conn \ gaveUp : Rows(c) \subseteq disk

\* The objects implement atomic scopes.
Abstract == INSTANCE AtomicScopes WITH
    Scope <- Obj, Loose <- Conn, store <- disk, scope <- stage,
    content <- [o \in Obj |-> IF stage[o] \in {"unopened", "bare"} THEN {} ELSE made[o]]
ImplementsScopes == Abstract!Spec

\* Every call that goes through wait_if_busy returns, whatever the other
\* connections do: the loop is bounded (jsqlite.cpp:15-19).
WaitReturns == \A c \in Conn : pc[c] \in Statement \cup {"select", "rows"} ~> Idle(c)

\* select_bind_text returns too, unless another connection's commit() gave up
\* and keeps its PENDING lock: then its loop (bind.cpp:19-20) never ends.
BindReturns ==
    \A c \in Conn : pc[c] = "bind" ~>
        \/ Idle(c)
        \/ \E d \in gaveUp : lock[d] = "pending"
-----------------------------------------------------------------------------
(* Why they hold: the inductive invariant of the pattern of demo.cpp.        *)

Alive == {"open", "closed"}
\* c is inside an object that still has its transaction to end.
Entered(c) == top[c] # NoObj /\ ~finalized[top[c]]

\* The live objects are exactly the tops of the stacks, which have depth one.
StackInv ==
    /\ \A c \in Conn : top[c] # NoObj =>
        /\ life[top[c]] \in Alive
        /\ dbOf[top[c]] = c
        /\ outer[top[c]] = NoObj
    /\ \A o \in Obj :
        IF life[o] \in Alive THEN dbOf[o] \in Conn /\ top[dbOf[o]] = o
                             ELSE dbOf[o] = NoObj

\* Which calls are possible, and what was asked of the object before.
CallInv == \A c \in Conn :
    /\ pc[c] \in Statement => Entered(c)
    /\ rc[c] # "none" => pc[c] \in Statement
    /\ pc[c] \in {"BEGIN", "DTOR"} => life[top[c]] = "open"
    /\ pc[c] = "END" => asked[top[c]] = "commit" /\ answer[top[c]] = "none"
    /\ pc[c] = "ROLLBACK" => asked[top[c]] = "rollback"
    /\ Entered(c) /\ life[top[c]] = "closed" => pc[c] \in {"END", "ROLLBACK"}

\* A transaction is open on c from the BEGIN of its owner until it ends, and
\* outlives its owner only after a commit() that gave up.
OwnerInv ==
    /\ \A c \in Conn :
        /\ auto[c] <=> owner[c] = NoObj
        /\ owner[c] # NoObj => stage[owner[c]] = "open"
        /\ Entered(c) /\ pc[c] # "BEGIN" => owner[c] \in {top[c], NoObj}
        /\ ~auto[c] => c \in gaveUp \/ (owner[c] = top[c] /\ Entered(c))
    /\ \A c, d \in Conn : owner[c] = owner[d] /\ owner[c] # NoObj => c = d

\* What the code about to be returned says of the transaction.
CodeInv == \A c \in Conn :
    /\ pc[c] = "BEGIN" =>
        /\ rc[c] \in {"none", "ok", "error"}
        /\ rc[c] = "none" => stage[top[c]] = "unopened" /\ made[top[c]] = {}
        /\ rc[c] = "ok" => ~auto[c] /\ owner[c] = top[c]
        /\ rc[c] = "error" => /\ owner[c] # top[c]
                              /\ stage[top[c]] = IF auto[c] THEN "bare" ELSE "unopened"
    /\ pc[c] = "END" =>
        /\ rc[c] \in {"ok", "error"} => auto[c]
        /\ rc[c] = "busy" => c \in gaveUp
        /\ rc[c] = "ok" <=> stage[top[c]] = "committed"
    /\ pc[c] \in Closing /\ rc[c] # "none" => auto[c]
    /\ Entered(c) /\ stage[top[c]] = "bare" => pc[c] = "BEGIN"

\* A scope writes into its own transaction, or into the one that was leaked, or, if it
\* is bare, into the database.
RowInv ==
    /\ \A c \in Conn :
        /\ auto[c] => unsaved[c] = {}
        /\ Entered(c) /\ owner[c] = top[c] => unsaved[c] = Rows(top[c])
        /\ InScope(c) /\ pc[c] \notin {"BEGIN", "DTOR"} /\ auto[c]
            => top[c] \in failed \/ stage[top[c]] = "bare"
        /\ InScope(c) /\ stage[top[c]] = "bare" => auto[c]
    /\ \A o \in Obj : \A k \in Key :
        <<o, k>> \in disk => stage[o] \in {"committed", "bare"} /\ k \in made[o]
    /\ \A o \in Obj : stage[o] \in {"committed", "bare"} => Rows(o) \subseteq disk

\* What was said to and by an object agrees with its fields and its stage.
SaidInv == \A o \in Obj :
    /\ life[o] = "unborn" => made[o] = {} /\ stage[o] = "unopened"
    /\ life[o] \in {"unborn", "open"} => asked[o] = "nothing"
    /\ asked[o] = "nothing" => answer[o] = "none"
    /\ life[o] = "open" /\ finalized[o] => stage[o] \in {"unopened", "bare"}
    /\ stage[o] = "committed" => asked[o] = "commit" /\ answer[o] # "no"
    /\ answer[o] = "yes" => stage[o] # "bare" /\ (asked[o] = "commit" => stage[o] = "committed")
    /\ life[o] \in Alive /\ stage[o] = "bare" /\ finalized[o] => ec[o] = "error"
    /\ life[o] = "closed" /\ asked[o] = "commit" /\ answer[o] = "none" => pc[dbOf[o]] = "END"
    /\ life[o] \in Alive /\ finalized[o] /\ asked[o] # "rollback" =>
        (ec[o] = "ok" <=> answer[o] = "yes")

\* Outside of a transaction c holds no lock but that of a read.
LockInv == \A c \in Conn : auto[c] =>
    lock[c] = IF pc[c] \in {"rows", "bindrows"} THEN "shared" ELSE Resting(c)

Inv == /\ TypeOK /\ StackInv /\ CallInv /\ OwnerInv /\ CodeInv
       /\ RowInv /\ SaidInv /\ LockInv /\ LooseDurable
=============================================================================
