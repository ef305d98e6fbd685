------------------------- MODULE TransactionProofs -------------------------
(***************************************************************************)
(* Proofs about Transaction, for every set of connections, objects and keys *)
(* and every retry bound.                                                   *)
(***************************************************************************)
EXTENDS Transaction, TLAPS

-----------------------------------------------------------------------------
(* Types. *)

\* A statement keeps the engine's types.
LEMMA EngineType ==
    ASSUME DbType, NEW c \in Conn, NEW r \in Code,
           \/ Begin(c, r) \/ End(c, r) \/ Rollback(c, r)
           \/ ReadBegin(c, r) \/ ReadEnd(c) \/ ReadAbort(c) \/ ReadLeak(c) \/ Drop(c)
    PROVE  DbType'
<1> USE DEF DbType, Lock, EndsTransaction, Resting, db
<1>1. CASE Begin(c, r) BY <1>1 DEF Begin
<1>2. CASE End(c, r) BY <1>2 DEF End
<1>3. CASE Rollback(c, r) BY <1>3 DEF Rollback
<1>4. CASE ReadBegin(c, r) BY <1>4 DEF ReadBegin
<1>5. CASE ReadEnd(c) BY <1>5 DEF ReadEnd
<1>6. CASE ReadLeak(c) BY <1>6 DEF ReadLeak
<1>7. CASE Drop(c) BY <1>7 DEF Drop
<1>8. CASE ReadAbort(c) BY <1>8 DEF ReadAbort
<1> QED BY <1>1, <1>2, <1>3, <1>4, <1>5, <1>6, <1>7, <1>8

LEMMA WriteType ==
    ASSUME DbType, NEW c \in Conn, NEW t \in Tag, NEW k \in Key, NEW r \in Code,
           Write(c, t, k, r)
    PROVE  DbType'
<1> USE DEF DbType, Lock, EndsTransaction, Resting, db
<1>1. <<t, k>> \in Row BY DEF Row
<1>2. /\ disk' \in SUBSET Row
      /\ auto' \in [Conn -> BOOLEAN]
      /\ pinned' \in SUBSET Conn
  BY <1>1 DEF Write
<1>3. lock' \in [Conn -> Lock] BY DEF Write
<1>4. unsaved' \in [Conn -> SUBSET Row] BY <1>1 DEF Write
<1> QED BY <1>2, <1>3, <1>4

\* Destroying objects keeps the types of their fields.
LEMMA FreesType ==
    ASSUME TypeOK, NEW gone, Frees(gone)
    PROVE  /\ life' \in [Obj -> {"unborn", "open", "closed", "gone"}]
           /\ dbOf' \in [Obj -> Conn \cup {NoObj}]
           /\ finalized' \in [Obj -> BOOLEAN]
           /\ ec' \in [Obj -> Code]
           /\ failed' \in SUBSET Obj
BY DEF TypeOK, Frees, Code

\* A statement runs for an object.
Statements == \A c \in Conn : pc[c] \in Statement => top[c] # NoObj

\* The types are preserved, whatever the application does.
LEMMA TypeStep ==
    ASSUME TypeOK, Statements, [Next]_vars
    PROVE  TypeOK' /\ Statements'
<1> USE TagAssumption, NoObjAssumption, MaxWaitAssumption
<1> USE DEF TypeOK, Statements, Statement, Closing, Call, Code, Returns, Enters, Stages
<1>1. CASE UNCHANGED vars
  BY <1>1 DEF vars, db, objs, calls, ghosts, DbType
<1>2. ASSUME NEW c \in Conn, NEW o \in Obj, Construct(c, o) PROVE TypeOK' /\ Statements'
  BY <1>2 DEF Construct, DbType, db, ghosts, Idle
<1>3. ASSUME NEW c \in Conn, Commit(c) PROVE TypeOK' /\ Statements'
  BY SMTT(60), <1>3 DEF Commit, DbType, db, calls, Answer, Idle
<1>4. ASSUME NEW c \in Conn, RollbackCall(c) PROVE TypeOK' /\ Statements'
  BY SMTT(60), <1>4 DEF RollbackCall, DbType, db, calls, Idle
<1>5. ASSUME NEW c \in Conn, Destroy(c) PROVE TypeOK' /\ Statements'
  <2>1. CASE finalized[top[c]]
    <3>1. top' \in [Conn -> Obj \cup {NoObj}] BY <1>5, <2>1 DEF Destroy, Pop
    <3>2. Frees({top[c]}) BY <1>5, <2>1 DEF Destroy, Pop
    <3> QED BY <1>5, <2>1, <3>1, FreesType, <3>2
            DEF Destroy, Pop, DbType, db, calls, ghosts, Idle
  <2>2. CASE ~finalized[top[c]]
    BY <1>5, <2>2 DEF Destroy, DbType, db, ghosts, Idle
  <2> QED BY <2>1, <2>2
<1>6. ASSUME NEW c \in Conn, Attempt(c) PROVE TypeOK' /\ Statements'
  <2>1. PICK r \in Code : Exec(c, r) /\ Records(c, r) BY <1>6 DEF Attempt
  <2>2. DbType' BY <2>1, EngineType DEF Exec
  <2>3. /\ waits' \in [Conn -> 0..MaxWait]
        /\ rc' \in [Conn -> Code \cup {"none"}]
        /\ gaveUp' \in SUBSET Conn
    BY <1>6 DEF Attempt, OutOfPatience, Counted
  <2>4. /\ stage' \in [Obj -> Stages]
        /\ owner' \in [Conn -> Obj \cup {NoObj}]
    BY <2>1 DEF Records, RecordsEnd
  <2> QED BY <1>6, <2>2, <2>3, <2>4 DEF Attempt, objs
<1>7. ASSUME NEW c \in Conn, Return(c) PROVE TypeOK' /\ Statements'
  BY <1>7 DEF Return, DbType, db, Answer
<1>8. ASSUME NEW c \in Conn, DestroyReturn(c) PROVE TypeOK' /\ Statements'
  <2>1. top' \in [Conn -> Obj \cup {NoObj}] BY <1>8 DEF DestroyReturn, Pop
  <2>2. Frees({top[c]}) BY <1>8 DEF DestroyReturn, Pop
  <2> QED BY <1>8, <2>1, FreesType, <2>2 DEF DestroyReturn, Pop, DbType, db, ghosts
<1>9. ASSUME NEW c \in Conn, Select(c) \/ Bind(c) PROVE TypeOK' /\ Statements'
  BY <1>9 DEF Select, Bind, DbType, db, objs, ghosts, Idle
<1>10. ASSUME NEW c \in Conn, SelectAttempt(c) PROVE TypeOK' /\ Statements'
  <2>1. PICK r \in Code : ReadBegin(c, r) BY <1>10 DEF SelectAttempt
  <2>2. DbType' BY <2>1, EngineType
  <2> QED BY <1>10, <2>2 DEF SelectAttempt, OutOfPatience, Counted, objs, ghosts
<1>11. ASSUME NEW c \in Conn, BindStep(c) PROVE TypeOK' /\ Statements'
  <2>1. PICK r \in Code : ReadBegin(c, r) BY <1>11 DEF BindStep
  <2>2. DbType' BY <2>1, EngineType
  <2> QED BY <1>11, <2>2 DEF BindStep, objs, ghosts
<1>12. ASSUME NEW c \in Conn, SelectDone(c) \/ BindDone(c) PROVE TypeOK' /\ Statements'
  <2>1. DbType' BY <1>12, EngineType DEF SelectDone, BindDone
  <2> QED BY <1>12, <2>1 DEF SelectDone, BindDone, objs, ghosts
<1>13. ASSUME NEW c \in Conn, ReadThrow(c) PROVE TypeOK' /\ Statements'
  <2>1. DbType' BY <1>13, EngineType DEF ReadThrow
  <2> QED BY <1>13, <2>1 DEF ReadThrow, objs, ghosts
<1>14. ASSUME NEW c \in Conn, NEW k \in Key, Insert(c, k) PROVE TypeOK' /\ Statements'
  <2> DEFINE t == Writer(c)
  <2>1. t \in Tag BY DEF Writer, InScope
  <2>2. PICK r \in Code :
           /\ Write(c, t, k, r)
           /\ made' = IF r = "ok" THEN [made EXCEPT ![t] = @ \cup {k}] ELSE made
           /\ failed' = IF r # "ok" /\ t \in Obj THEN failed \cup {t} ELSE failed
           /\ RecordsEnd(c, "aborted")
    BY <1>14 DEF Insert
  <2>3. DbType' BY <2>1, <2>2, WriteType
  <2>4. made' \in [Tag -> SUBSET Key] BY <2>1, <2>2
  <2>5. failed' \in SUBSET Obj BY <2>2
  <2>6. /\ stage' \in [Obj -> Stages]
        /\ owner' \in [Conn -> Obj \cup {NoObj}]
    BY <2>2 DEF RecordsEnd
  <2> QED BY <1>14, <2>3, <2>4, <2>5, <2>6 DEF Insert, calls
<1>15. ASSUME NEW c \in Conn, Die(c) PROVE TypeOK' /\ Statements'
  <2>1. DbType' BY <1>15, EngineType DEF Die
  <2> QED BY SMTT(60), <1>15, <2>1 DEF Die, RecordsEnd, Frees
<1>16. ASSUME NEW c \in Conn, ReadFails(c) PROVE TypeOK' /\ Statements'
  <2>1. DbType' BY <1>16, EngineType DEF ReadFails
  <2>2. failed' \in SUBSET Obj BY <1>16 DEF ReadFails, InScope
  <2>3. /\ stage' \in [Obj -> Stages]
        /\ owner' \in [Conn -> Obj \cup {NoObj}]
    BY <1>16 DEF ReadFails, RecordsEnd
  <2>4. waits' \in [Conn -> 0..MaxWait]
    <3>1. 0 \in 0..MaxWait OBVIOUS
    <3> QED BY <1>16, <3>1 DEF ReadFails
  <2>5. pc' \in [Conn -> Call] /\ Statements' BY <1>16 DEF ReadFails
  <2>6. UNCHANGED <<top, outer, life, dbOf, finalized, ec, rc, made, asked, answer, gaveUp>>
    BY <1>16 DEF ReadFails
  <2> QED BY <2>1, <2>2, <2>3, <2>4, <2>5, <2>6
<1> QED BY <1>1, <1>2, <1>3, <1>4, <1>5, <1>6, <1>7, <1>8, <1>9, <1>10,
           <1>11, <1>12, <1>13, <1>14, <1>15, <1>16 DEF Next

LEMMA TypeInit == Init => TypeOK /\ Statements
BY NoObjAssumption, MaxWaitAssumption
   DEF Init, DbInit, TypeOK, DbType, Statements, Statement, Closing, Call, Code, Lock, Stages

\* Every variable stays of its type in every behaviour, nested scopes and
\* applications that go on after an error included.
THEOREM Typing == Spec => []TypeOK
<1>1. Init => TypeOK /\ Statements BY TypeInit
<1>2. TypeOK /\ Statements /\ [Next]_vars => TypeOK' /\ Statements' BY TypeStep
<1> QED BY <1>1, <1>2, PTL DEF Spec

-----------------------------------------------------------------------------
(* The inductive invariant. *)

LEMMA InvInit == Init => Inv
<1> SUFFICES ASSUME Init PROVE Inv OBVIOUS
<1> USE NoObjAssumption, TagAssumption
<1>1. TypeOK BY TypeInit
<1> USE DEF Init, DbInit
<1>2. StackInv BY DEF StackInv, Alive
<1>3. CallInv BY DEF CallInv, Entered, Statement, Closing
<1>4. OwnerInv BY DEF OwnerInv, Entered
<1>5. CodeInv BY DEF CodeInv, Entered, Closing
<1>6. RowInv BY DEF RowInv, Entered, InScope
<1>7. SaidInv BY DEF SaidInv, Alive
<1>8. LockInv BY DEF LockInv, Resting
<1>9. LooseDurable BY DEF LooseDurable, Rows
<1> QED BY <1>1, <1>2, <1>3, <1>4, <1>5, <1>6, <1>7, <1>8, <1>9 DEF Inv

LEMMA ConstructStep ==
    ASSUME ~Nested, Inv, TypeOK', NEW c \in Conn, NEW o \in Obj, Construct(c, o)
    PROVE  Inv'
<1> USE NoObjAssumption, TagAssumption
<1> USE DEF Inv, TypeOK, Construct, Enters, Idle, db, ghosts
<1>2. StackInv' BY DEF StackInv, Alive
<1>3. CallInv' BY DEF CallInv, StackInv, SaidInv, Entered, Statement, Closing, Alive
<1>4. OwnerInv' BY DEF OwnerInv, StackInv, SaidInv, Entered, Alive
<1>5. CodeInv' BY DEF CodeInv, CallInv, StackInv, SaidInv, Entered, Statement, Closing, Alive
<1>6. RowInv' BY DEF RowInv, OwnerInv, StackInv, SaidInv, Entered, InScope, Rows, Alive
<1>7. SaidInv' BY DEF SaidInv, StackInv, Alive
<1>8. LockInv' BY DEF LockInv, Resting
<1>9. LooseDurable' BY DEF LooseDurable, Rows
<1> QED BY <1>2, <1>3, <1>4, <1>5, <1>6, <1>7, <1>8, <1>9 DEF Inv

LEMMA CommitStep ==
    ASSUME Inv, TypeOK', NEW c \in Conn, Commit(c)
    PROVE  Inv'
<1> USE NoObjAssumption, TagAssumption
<1> USE DEF Inv, TypeOK, Commit, Enters, Idle, db, calls, Answer
<1>2. StackInv' BY DEF StackInv, Alive
<1>3. CallInv' BY DEF CallInv, StackInv, SaidInv, Entered, Statement, Closing, Alive
<1>4. OwnerInv' BY DEF OwnerInv, StackInv, SaidInv, Entered, Alive
<1>5. CodeInv' BY DEF CodeInv, CallInv, StackInv, SaidInv, Entered, Statement, Closing, Alive
<1>6. RowInv' BY DEF RowInv, OwnerInv, StackInv, Entered, InScope, Rows, Alive
<1>7. SaidInv' BY DEF SaidInv, StackInv, Alive
<1>8. LockInv' BY DEF LockInv, Resting
<1>9. LooseDurable' BY DEF LooseDurable, Rows
<1> QED BY <1>2, <1>3, <1>4, <1>5, <1>6, <1>7, <1>8, <1>9 DEF Inv

LEMMA RollbackCallStep ==
    ASSUME Inv, TypeOK', NEW c \in Conn, RollbackCall(c)
    PROVE  Inv'
<1> USE NoObjAssumption, TagAssumption
<1> USE DEF Inv, TypeOK, RollbackCall, Enters, Idle, db, calls
<1>2. StackInv' BY DEF StackInv, CallInv, Entered, Statement, Closing, Alive
<1>3. CallInv' BY DEF CallInv, StackInv, SaidInv, Entered, Statement, Closing, Alive
<1>4. OwnerInv' BY DEF OwnerInv, CallInv, CodeInv, StackInv, SaidInv, Entered, Statement, Closing, Alive
<1>5. CodeInv' BY DEF CodeInv, CallInv, StackInv, SaidInv, Entered, Statement, Closing, Alive
<1>6. RowInv' BY DEF RowInv, OwnerInv, CodeInv, CallInv, StackInv, SaidInv, Entered, InScope, Statement, Closing, Rows, Alive
<1>7. SaidInv' BY DEF SaidInv, CodeInv, CallInv, StackInv, Entered, Statement, Closing, Alive
<1>8. LockInv' BY DEF LockInv, CallInv, Resting, Statement, Closing
<1>9. LooseDurable' BY DEF LooseDurable, Rows
<1> QED BY <1>2, <1>3, <1>4, <1>5, <1>6, <1>7, <1>8, <1>9 DEF Inv

LEMMA DestroyStep ==
    ASSUME Inv, TypeOK', NEW c \in Conn, Destroy(c)
    PROVE  Inv'
<1> USE NoObjAssumption, TagAssumption
<1> USE DEF Inv, TypeOK, Destroy, Pop, Frees, Enters, Idle, db, calls, ghosts
<1>2. StackInv' BY DEF StackInv, CallInv, Entered, Statement, Closing, Alive
<1>3. CallInv' BY DEF CallInv, StackInv, SaidInv, Entered, Statement, Closing, Alive
<1>4. OwnerInv' BY SMTT(60) DEF OwnerInv, CallInv, CodeInv, StackInv, SaidInv, Entered, Statement, Closing, Alive
<1>5. CodeInv'
  <2>1. \A d \in Conn \ {c} :
          /\ top'[d] = top[d] /\ pc'[d] = pc[d]
          /\ top[d] # NoObj => top[d] \in Obj /\ top[d] # top[c]
    BY DEF StackInv
  <2>2. \A d \in Conn \ {c} : Entered(d)' <=> Entered(d) BY SMTT(60), <2>1 DEF Entered
  <2>3. Entered(c)' => Entered(c) /\ top'[c] = top[c] /\ life[top[c]] = "open" /\ pc[c] = "idle"
    BY DEF Entered, StackInv, CallInv, Alive
  <2>4. ASSUME NEW d \in Conn, Entered(d)', stage'[top'[d]] = "bare" PROVE pc'[d] = "BEGIN"
    BY <2>1, <2>2, <2>3, <2>4 DEF CodeInv
  <2>5. pc[c] = "idle" /\ (pc'[c] = "idle" \/ (pc'[c] = "DTOR" /\ rc'[c] = "none"))
    BY DEF CallInv, Statement, Closing
  <2>6. UNCHANGED <<rc, stage, made, auto, owner, gaveUp>> OBVIOUS
  <2> QED BY <2>1, <2>4, <2>5, <2>6 DEF CodeInv, Closing
<1>6. RowInv'
  <2>1. \A d \in Conn \ {c} :
          /\ top'[d] = top[d] /\ pc'[d] = pc[d]
          /\ top[d] # NoObj => top[d] \in Obj /\ top[d] # top[c]
    BY DEF StackInv
  <2>2. \A o \in Obj \ {top[c]} : life'[o] = life[o] /\ (finalized'[o] <=> finalized[o])
    <3>1. CASE finalized[top[c]] BY <3>1
    <3>2. CASE ~finalized[top[c]] BY <3>2
    <3> QED BY <3>1, <3>2
  <2>3. \A d \in Conn \ {c} : (Entered(d)' <=> Entered(d)) /\ (InScope(d)' <=> InScope(d))
    BY <2>1, <2>2 DEF Entered, InScope
  <2>4. /\ UNCHANGED <<auto, unsaved, owner, disk, stage, made>>
        /\ failed \ {top[c]} \subseteq failed'
    OBVIOUS
  <2>5. /\ Entered(c)' => Entered(c) /\ top'[c] = top[c]
        /\ InScope(c)' => pc'[c] = "DTOR" /\ InScope(c) /\ top'[c] = top[c]
    BY DEF Entered, InScope, StackInv, Alive
  <2>6. ASSUME NEW d \in Conn
        PROVE  /\ auto'[d] => unsaved'[d] = {}
               /\ Entered(d)' /\ owner'[d] = top'[d] => unsaved'[d] = Rows(top[d])'
               /\ InScope(d)' /\ pc'[d] \notin {"BEGIN", "DTOR"} /\ auto'[d]
                    => top'[d] \in failed' \/ stage'[top'[d]] = "bare"
               /\ InScope(d)' /\ stage'[top'[d]] = "bare" => auto'[d]
    <3>1. CASE d = c BY <2>4, <2>5, <3>1 DEF RowInv, Rows
    <3>2. CASE d # c
      <4>1. InScope(d)' => top'[d] = top[d] /\ top[d] \in Obj /\ top[d] # top[c]
        BY <2>1, <3>2 DEF InScope
      <4> QED BY <2>1, <2>3, <2>4, <3>2, <4>1 DEF RowInv, Rows
    <3> QED BY <3>1, <3>2
  <2> QED BY <2>4, <2>6 DEF RowInv, Rows
<1>7. SaidInv'
  <2>1. /\ UNCHANGED <<made, stage, asked, answer>>
        /\ \A o \in Obj : \/ life'[o] = "gone" /\ life[o] # "unborn"
                          \/ /\ life'[o] = life[o] /\ dbOf'[o] = dbOf[o] /\ ec'[o] = ec[o]
                             /\ finalized'[o] <=> finalized[o]
    BY DEF StackInv, Alive
  <2>2. \A d \in Conn : pc[d] = "END" => pc'[d] = "END" OBVIOUS
  <2> QED BY <2>1, <2>2 DEF SaidInv, StackInv, Alive
<1>8. LockInv' BY DEF LockInv, CallInv, Resting, Statement, Closing
<1>9. LooseDurable' BY DEF LooseDurable, Rows
<1> QED BY <1>2, <1>3, <1>4, <1>5, <1>6, <1>7, <1>8, <1>9 DEF Inv

LEMMA ReturnStep ==
    ASSUME Inv, TypeOK', NEW c \in Conn, Return(c)
    PROVE  Inv'
<1> USE NoObjAssumption, TagAssumption
<1> USE DEF Inv, TypeOK, Return, Returns, db, Answer
<1>1. /\ top[c] \in Obj
      /\ finalized'[top[c]] <=> (pc[c] # "BEGIN" \/ rc[c] # "ok")
      /\ \A o \in Obj \ {top[c]} : finalized'[o] <=> finalized[o]
      /\ \A d \in Conn \ {c} : top[d] # NoObj => top[d] # top[c]
  <2>1. top[c] \in Obj BY DEF CallInv, Entered, Statement, Closing
  <2>2. finalized'[top[c]] <=> (pc[c] # "BEGIN" \/ rc[c] # "ok")
    <3>1. CASE pc[c] # "BEGIN" \/ rc[c] # "ok"
      BY ZenonT(60), <2>1, <3>1
    <3>2. CASE pc[c] = "BEGIN" /\ rc[c] = "ok"
      BY ZenonT(60), <2>1, <3>2
    <3> QED BY <3>1, <3>2
  <2>3. \A o \in Obj \ {top[c]} : finalized'[o] <=> finalized[o] OBVIOUS
  <2> QED BY <2>1, <2>2, <2>3 DEF StackInv
<1>2. StackInv' BY DEF StackInv, CallInv, Entered, Statement, Closing, Alive
<1>3. CallInv' BY <1>1 DEF CallInv, StackInv, SaidInv, Entered, Statement, Closing, Alive
<1>4. OwnerInv'
  <2>1. Entered(c)' <=> (pc[c] = "BEGIN" /\ rc[c] = "ok") BY <1>1 DEF Entered
  <2>2. \A d \in Conn \ {c} : Entered(d)' <=> Entered(d) BY <1>1 DEF Entered
  <2>3. Entered(c) BY DEF CallInv, Statement
  <2>4. /\ Entered(c)' => owner'[c] \in {top'[c], NoObj}
        /\ ~auto'[c] => c \in gaveUp' \/ (owner'[c] = top'[c] /\ Entered(c)')
    BY <2>1, <2>3 DEF OwnerInv, CodeInv, CallInv, Closing, Code
  <2>5. \A d \in Conn \ {c} :
          /\ Entered(d)' /\ pc'[d] # "BEGIN" => owner'[d] \in {top'[d], NoObj}
          /\ ~auto'[d] => d \in gaveUp' \/ (owner'[d] = top'[d] /\ Entered(d)')
    BY <2>2 DEF OwnerInv
  <2> QED BY <2>4, <2>5 DEF OwnerInv
<1>5. CodeInv'
  <2>1. Entered(c)' => pc[c] = "BEGIN" /\ stage[top[c]] # "bare"
    BY <1>1 DEF Entered, CodeInv, OwnerInv
  <2>2. \A d \in Conn \ {c} : Entered(d)' <=> Entered(d) BY <1>1 DEF Entered
  <2> QED BY <1>1, <2>1, <2>2 DEF CodeInv, Closing
<1>6. RowInv' BY DEF RowInv, OwnerInv, CodeInv, CallInv, StackInv, SaidInv, Entered, InScope, Statement, Closing, Rows, Alive
<1>7. SaidInv'
  <2>1. /\ life[top[c]] \in Alive /\ dbOf[top[c]] = c /\ Entered(c)
        /\ pc[c] = "BEGIN" => life[top[c]] = "open"
        /\ pc[c] = "END" => asked[top[c]] = "commit" /\ answer[top[c]] = "none"
        /\ pc[c] = "ROLLBACK" => asked[top[c]] = "rollback"
    BY <1>1 DEF CallInv, StackInv, Entered, Statement, Closing
  <2>2. SUFFICES ASSUME NEW o \in Obj PROVE SaidInv!(o)' BY DEF SaidInv
  <2>3. CASE o = top[c]
    <3>1. CASE pc[c] = "BEGIN" BY <1>1, <2>1, <2>3, <3>1 DEF SaidInv, CodeInv, Alive
    <3>2. CASE pc[c] = "END" BY <1>1, <2>1, <2>3, <3>2 DEF SaidInv, CodeInv, Alive
    <3>3. CASE pc[c] = "ROLLBACK" BY <1>1, <2>1, <2>3, <3>3 DEF SaidInv, CodeInv, Alive
    <3> QED BY <3>1, <3>2, <3>3
  <2>4. CASE o # top[c]
    <3>1. /\ finalized'[o] <=> finalized[o]
          /\ UNCHANGED <<life, dbOf, made, asked, stage>> /\ answer'[o] = answer[o] /\ ec'[o] = ec[o]
      BY <1>1, <2>4
    <3>2. life[o] \in Alive => dbOf[o] # c BY <2>4 DEF StackInv
    <3> QED BY <3>1, <3>2 DEF SaidInv, Alive
  <2> QED BY <2>3, <2>4
<1>8. LockInv' BY DEF LockInv, CallInv, Resting, Statement, Closing
<1>9. LooseDurable' BY DEF LooseDurable, Rows
<1> QED BY <1>2, <1>3, <1>4, <1>5, <1>6, <1>7, <1>8, <1>9 DEF Inv

LEMMA DestroyReturnStep ==
    ASSUME Inv, TypeOK', NEW c \in Conn, DestroyReturn(c)
    PROVE  Inv'
<1> USE NoObjAssumption, TagAssumption
<1> USE DEF Inv, TypeOK, DestroyReturn, Pop, Frees, Returns, db, ghosts
<1>2. StackInv' BY DEF StackInv, CallInv, Entered, Statement, Closing, Alive
<1>3. CallInv' BY DEF CallInv, StackInv, SaidInv, Entered, Statement, Closing, Alive
<1>4. OwnerInv' BY DEF OwnerInv, CallInv, CodeInv, StackInv, SaidInv, Entered, Statement, Closing, Alive
<1>5. CodeInv' BY DEF CodeInv, CallInv, StackInv, SaidInv, Entered, Statement, Closing, Alive
<1>6. RowInv' BY DEF RowInv, OwnerInv, CodeInv, CallInv, StackInv, SaidInv, Entered, InScope, Statement, Closing, Rows, Alive
<1>7. SaidInv' BY DEF SaidInv, CodeInv, CallInv, StackInv, Entered, Statement, Closing, Alive
<1>8. LockInv' BY DEF LockInv, CallInv, Resting, Statement, Closing
<1>9. LooseDurable' BY DEF LooseDurable, Rows
<1> QED BY <1>2, <1>3, <1>4, <1>5, <1>6, <1>7, <1>8, <1>9 DEF Inv

LEMMA DieStep ==
    ASSUME Inv, TypeOK', NEW c \in Conn, Die(c)
    PROVE  Inv'
<1> USE NoObjAssumption, TagAssumption
<1> USE DEF Inv, TypeOK
<1>1. /\ top'[c] = NoObj /\ pc'[c] = "idle" /\ rc'[c] = "none"
      /\ auto'[c] /\ owner'[c] = NoObj /\ unsaved'[c] = {}
  BY DEF Die, Drop, RecordsEnd, Ends, OwnerInv, DbType
<1>2. \A d \in Conn \ {c} :
        /\ top'[d] = top[d] /\ pc'[d] = pc[d] /\ rc'[d] = rc[d]
        /\ auto'[d] = auto[d] /\ owner'[d] = owner[d] /\ unsaved'[d] = unsaved[d]
        /\ lock'[d] = lock[d] /\ (d \in pinned' <=> d \in pinned)
  BY DEF Die, Drop, RecordsEnd, DbType
<1>3. \A d \in Conn \ {c} : top[d] # NoObj =>
        /\ life'[top[d]] = life[top[d]] /\ dbOf'[top[d]] = dbOf[top[d]]
        /\ finalized'[top[d]] <=> finalized[top[d]]
        /\ top[d] \in failed' <=> top[d] \in failed
  BY DEF Die, Frees, StackInv
<1>4. \A o \in Obj : stage'[o] = stage[o] \/ (stage[o] = "open" /\ stage'[o] = "aborted"
                                                  /\ o = owner[c])
  <2>1. owner[c] # NoObj => stage[owner[c]] = "open" BY DEF OwnerInv
  <2> QED BY <2>1 DEF Die, RecordsEnd
<1>5. UNCHANGED <<disk, outer, made, asked, answer, gaveUp>>
  BY DEF Die, Drop
<1>6. \A o \in Obj :
        /\ dbOf[o] = c => life'[o] = "gone" /\ dbOf'[o] = NoObj
        /\ dbOf[o] # c => /\ life'[o] = life[o] /\ dbOf'[o] = dbOf[o]
                          /\ ec'[o] = ec[o] /\ (finalized'[o] <=> finalized[o])
  BY DEF Die, Frees
<1>7. StackInv' BY <1>1, <1>2, <1>3, <1>5, <1>6 DEF StackInv, Alive
<1>8. CallInv' BY <1>1, <1>2, <1>3, <1>5 DEF CallInv, Entered, Statement, Closing
<1>9. \A d \in Conn \ {c} : Entered(d)' <=> Entered(d)
  BY <1>2, <1>3 DEF Entered
<1>10. OwnerInv'
  <2>1. ASSUME NEW d \in Conn \ {c}
        PROVE  /\ auto'[d] <=> owner'[d] = NoObj
               /\ Entered(d)' /\ pc'[d] # "BEGIN" => owner'[d] \in {top'[d], NoObj}
               /\ ~auto'[d] => d \in gaveUp' \/ (owner'[d] = top'[d] /\ Entered(d)')
    BY SMTT(60), <1>2, <1>5, <1>9 DEF OwnerInv
  <2>2. ASSUME NEW d \in Conn \ {c}, owner[d] # NoObj PROVE stage'[owner[d]] = "open"
    <3>1. owner[d] # owner[c] /\ stage[owner[d]] = "open" BY <2>2 DEF OwnerInv
    <3> QED BY <2>2, <3>1, <1>4
  <2>3. ASSUME NEW d \in Conn, NEW e \in Conn, owner'[d] = owner'[e], owner'[d] # NoObj
        PROVE  d = e
    BY <1>1, <1>2, <2>3 DEF OwnerInv
  <2>4. \A d \in Conn : owner'[d] # NoObj => stage'[owner'[d]] = "open"
    BY <1>1, <1>2, <2>2
  <2> QED BY <1>1, <2>1, <2>3, <2>4 DEF OwnerInv, Entered
<1>12. CodeInv'
  <2>1. ASSUME NEW d \in Conn \ {c}, pc[d] \in {"BEGIN", "END"}
        PROVE  /\ top[d] \in Obj
               /\ stage'[top[d]] \in {"unopened", "bare", "committed"} \/
                  stage[top[d]] \in {"unopened", "bare", "committed"}
                    => stage'[top[d]] = stage[top[d]]
    <3>1. top[d] \in Obj BY <2>1 DEF CallInv, Entered, Statement
    <3> QED BY <3>1, <1>4
  <2>2. ASSUME NEW d \in Conn \ {c}, Entered(d)
        PROVE  top[d] \in Obj /\ (stage'[top[d]] = "bare" <=> stage[top[d]] = "bare")
    BY <1>4, <2>2 DEF Entered
  <2>3. ~Entered(c)' BY <1>1 DEF Entered
  <2> QED BY SMTT(60), <1>1, <1>2, <1>5, <1>9, <2>1, <2>2, <2>3 DEF CodeInv, Closing
<1>13. RowInv'
  <2>1. ASSUME NEW d \in Conn
        PROVE  /\ auto'[d] => unsaved'[d] = {}
               /\ Entered(d)' /\ owner'[d] = top'[d] => unsaved'[d] = Rows(top[d])'
               /\ InScope(d)' /\ pc'[d] \notin {"BEGIN", "DTOR"} /\ auto'[d]
                    => top'[d] \in failed' \/ stage'[top'[d]] = "bare"
               /\ InScope(d)' /\ stage'[top'[d]] = "bare" => auto'[d]
    <3>1. CASE d = c BY <1>1, <3>1 DEF Entered, InScope
    <3>2. CASE d # c
      <4>1. InScope(d)' => (stage'[top[d]] = "bare" <=> stage[top[d]] = "bare")
        BY <1>2, <1>4, <3>2 DEF InScope
      <4> QED BY SMTT(60), <1>2, <1>3, <1>5, <1>9, <3>2, <4>1 DEF RowInv, Rows, InScope
    <3> QED BY <3>1, <3>2
  <2>2. \A o \in Obj : stage'[o] \in {"committed", "bare"} <=> stage[o] \in {"committed", "bare"}
    BY <1>4
  <2> QED BY <2>1, <2>2, <1>5 DEF RowInv, Rows
<1>14. SaidInv'
  <2>1. SUFFICES ASSUME NEW o \in Obj PROVE SaidInv!(o)' BY DEF SaidInv
  <2>2. stage'[o] = "committed" <=> stage[o] = "committed" BY <1>4
  <2>3. /\ stage[o] = "unopened" <=> stage'[o] = "unopened"
        /\ stage[o] = "bare" <=> stage'[o] = "bare"
    BY <1>4
  <2>4. CASE dbOf[o] = c BY <1>5, <1>6, <2>2, <2>3, <2>4 DEF SaidInv, StackInv, Alive
  <2>5. CASE dbOf[o] # c BY <1>2, <1>5, <1>6, <2>2, <2>3, <2>5 DEF SaidInv, StackInv, Alive
  <2> QED BY <2>4, <2>5
<1>15. LockInv'
  <2>1. lock'[c] = "none" /\ c \notin pinned' BY DEF Die, Drop, DbType
  <2>2. ASSUME NEW d \in Conn \ {c}, auto'[d]
        PROVE  lock'[d] = IF pc'[d] \in {"rows", "bindrows"} THEN "shared" ELSE Resting(d)'
    BY SMTT(60), <1>2, <2>2 DEF LockInv, Resting
  <2> QED BY <1>1, <2>1, <2>2 DEF LockInv, Resting
<1>16. LooseDurable' BY <1>5 DEF LooseDurable, Rows
<1> QED BY <1>7, <1>8, <1>10, <1>12, <1>13, <1>14, <1>15, <1>16

\* A read changes nothing the scopes depend on, but for a scope that has failed in it:
\* only c's lock and call.
LEMMA ReadKeepsScopes ==
    ASSUME Inv, TypeOK', NEW c \in Conn,
           UNCHANGED <<disk, auto, unsaved, top, outer, life, dbOf, finalized, ec, rc, ghosts>>,
           failed \subseteq failed',
           pc[c] \notin Statement, pc'[c] \notin Statement,
           \A d \in Conn \ {c} : pc'[d] = pc[d]
    PROVE  /\ StackInv' /\ CallInv' /\ OwnerInv' /\ CodeInv'
           /\ RowInv' /\ SaidInv' /\ LooseDurable'
<1> USE NoObjAssumption, TagAssumption
<1> USE DEF Inv, TypeOK, ghosts
<1>1. StackInv' BY DEF StackInv
<1>2. CallInv' BY DEF CallInv, Entered, Statement, Closing
<1>3. OwnerInv' BY DEF OwnerInv, CallInv, Entered, Statement
<1>4. CodeInv' BY DEF CodeInv, Entered, Statement, Closing
<1>5. RowInv' BY DEF RowInv, Entered, InScope, Rows, Statement, Closing
<1>6. SaidInv' BY DEF SaidInv, StackInv, Statement, Alive
<1>7. LooseDurable' BY DEF LooseDurable, Rows
<1> QED BY <1>1, <1>2, <1>3, <1>4, <1>5, <1>6, <1>7

LEMMA ReadStep ==
    ASSUME Inv, TypeOK', NEW c \in Conn,
           \/ Select(c) \/ SelectAttempt(c) \/ SelectDone(c)
           \/ Bind(c) \/ BindStep(c) \/ BindDone(c) \/ ReadThrow(c)
    PROVE  Inv'
<1> USE DEF ReadBegin, ReadEnd, ReadLeak
<1> DEFINE Quiet == /\ UNCHANGED <<disk, auto, unsaved, objs, rc, ghosts>>
                    /\ pc[c] \notin Statement /\ pc'[c] \notin Statement
                    /\ \A d \in Conn \ {c} : pc'[d] = pc[d]
<1>1. Quiet
  <2> USE DEF Inv, TypeOK, Statement, Closing
  <2>1. CASE Select(c) \/ Bind(c) BY <2>1 DEF Select, Bind, Enters, Idle, db
  <2>2. CASE SelectAttempt(c) BY <2>2 DEF SelectAttempt, db
  <2>3. CASE SelectDone(c) \/ BindDone(c) BY <2>3 DEF SelectDone, BindDone
  <2>4. CASE BindStep(c) BY <2>4 DEF BindStep, db
  <2>5. CASE ReadThrow(c) BY <2>5 DEF ReadThrow
  <2> QED BY <2>1, <2>2, <2>3, <2>4, <2>5
<1>2. LockInv'
  <2> USE DEF Inv, TypeOK, DbType, LockInv, Resting, db
  <2>1. CASE Select(c) \/ Bind(c) BY <2>1 DEF Select, Bind, Enters, Idle
  <2>2. CASE SelectAttempt(c) BY <2>2 DEF SelectAttempt
  <2>3. CASE SelectDone(c) \/ BindDone(c) BY <2>3 DEF SelectDone, BindDone
  <2>4. CASE BindStep(c) BY <2>4 DEF BindStep
  <2>5. CASE ReadThrow(c) BY <2>5 DEF ReadThrow
  <2> QED BY <2>1, <2>2, <2>3, <2>4, <2>5
<1> QED BY <1>1, <1>2, ReadKeepsScopes DEF Inv, objs

\* A turn of wait_if_busy ends the transaction of c, begins it or leaves it.
LEMMA AttemptStep ==
    ASSUME Inv, TypeOK', NEW c \in Conn, Attempt(c)
    PROVE  Inv'
<1> USE NoObjAssumption, TagAssumption
<1> USE DEF Inv, TypeOK, DbType
<1>1. PICK r \in Code :
        /\ Exec(c, r)
        /\ IF r = "busy" /\ ~OutOfPatience(waits[c]) THEN UNCHANGED rc
                                                     ELSE rc' = [rc EXCEPT ![c] = r]
        /\ Records(c, r)
        /\ gaveUp' = IF pc[c] = "END" /\ rc'[c] = "busy" THEN gaveUp \cup {c} ELSE gaveUp
  BY DEF Attempt
<1>2. /\ pc[c] \in Statement /\ rc[c] = "none"
      /\ UNCHANGED <<objs, pc, made, asked, answer>>
      /\ Entered(c) /\ top[c] \in Obj
  BY DEF Attempt, CallInv, Entered
<1>3. \A d \in Conn \ {c} :
        /\ rc'[d] = rc[d] /\ owner'[d] = owner[d] /\ unsaved'[d] = unsaved[d]
        /\ lock'[d] = lock[d] /\ (auto'[d] <=> auto[d])
  BY <1>1 DEF Exec, Begin, End, Rollback, EndsTransaction, Records, RecordsEnd, db
<1>4. pinned' = pinned
  BY <1>1 DEF Exec, Begin, End, Rollback, EndsTransaction, db
<1>5. StackInv' /\ CallInv'
  <2>1. StackInv' BY <1>2 DEF StackInv, objs
  <2>2. CallInv' BY <1>2, <1>3 DEF CallInv, Entered, objs
  <2> QED BY <2>1, <2>2
<1>6. \A d \in Conn : Entered(d)' <=> Entered(d) BY <1>2 DEF Entered, objs
<1> USE DEF objs, Statement
<1>7. CASE pc[c] = "BEGIN" /\ r = "ok"
  <2>1. /\ auto[c] /\ ~auto'[c] /\ owner[c] = NoObj /\ owner'[c] = top[c]
        /\ UNCHANGED <<disk, unsaved, gaveUp>> /\ rc'[c] = "ok"
        /\ stage[top[c]] = "unopened" /\ made[top[c]] = {} /\ life[top[c]] = "open"
        /\ stage' = [stage EXCEPT ![top[c]] = "open"]
    BY <1>1, <1>2, <1>7 DEF Exec, Begin, Closing, Records, OwnerInv, CodeInv, CallInv, db
  <2>2. \A d \in Conn \ {c} : top[d] # NoObj => top[d] # top[c]
    BY <1>2 DEF StackInv
  <2>3. OwnerInv' BY SMTT(60), <1>2, <1>3, <1>6, <2>1 DEF OwnerInv
  <2>4. CodeInv' BY <1>2, <1>3, <1>7, <2>1, <2>2 DEF CodeInv, CallInv, Entered, Closing
  <2>5. RowInv' BY <1>2, <1>3, <1>6, <1>7, <2>1 DEF RowInv, Rows, InScope
  <2>6. SaidInv' BY <1>2, <2>1 DEF SaidInv, Entered
  <2>7. LockInv' BY <1>2, <1>3, <1>4, <2>1 DEF LockInv, Resting
  <2>8. LooseDurable' BY <1>2, <2>1 DEF LooseDurable, Rows
  <2> QED BY <1>5, <2>3, <2>4, <2>5, <2>6, <2>7, <2>8
<1>8. CASE pc[c] # "BEGIN" /\ r # "busy" /\ ~auto[c]
  <2> DEFINE commits == pc[c] = "END" /\ r = "ok"
  <2>1. /\ auto'[c] /\ owner[c] = top[c] /\ owner'[c] = NoObj /\ gaveUp' = gaveUp
        /\ rc'[c] = r /\ unsaved'[c] = {} /\ lock'[c] = Resting(c)
        /\ stage' = [stage EXCEPT ![top[c]] = IF commits THEN "committed" ELSE "aborted"]
        /\ stage[top[c]] = "open" /\ unsaved[c] = Rows(top[c])
        /\ disk' = IF commits THEN disk \cup Rows(top[c]) ELSE disk
    <3>1. /\ auto'[c] /\ unsaved'[c] = {} /\ lock'[c] = Resting(c)
          /\ disk' = IF commits THEN disk \cup unsaved[c] ELSE disk
      BY <1>1, <1>2, <1>8 DEF Exec, End, Rollback, EndsTransaction, Closing
    <3>2. owner[c] = top[c] BY <1>2, <1>8 DEF OwnerInv
    <3>3. stage[top[c]] = "open" /\ unsaved[c] = Rows(top[c])
      BY <1>2, <3>2 DEF OwnerInv, RowInv
    <3>4. gaveUp' = gaveUp /\ rc'[c] = r BY <1>1, <1>8
    <3>5. /\ stage' = [stage EXCEPT ![top[c]] = IF commits THEN "committed" ELSE "aborted"]
          /\ owner'[c] = NoObj
      BY <1>1, <1>2, <1>8, <3>1, <3>2 DEF Records, RecordsEnd, Ends
    <3> QED BY <3>1, <3>2, <3>3, <3>4, <3>5
  <2>2. \A d \in Conn \ {c} : top[d] # NoObj => top[d] # top[c]
    BY <1>2 DEF StackInv
  <2>3. OwnerInv' BY SMTT(60), <1>2, <1>3, <1>6, <2>1 DEF OwnerInv
  <2>4. CodeInv'
    BY <1>2, <1>3, <1>8, <2>1, <2>2 DEF CodeInv, CallInv, Entered, Closing, Code
  <2>5. RowInv'
    <3>1. ASSUME NEW d \in Conn
          PROVE  /\ auto'[d] => unsaved'[d] = {}
                 /\ Entered(d)' /\ owner'[d] = top'[d] => unsaved'[d] = Rows(top[d])'
                 /\ InScope(d)' /\ pc'[d] \notin {"BEGIN", "DTOR"} /\ auto'[d]
                      => top'[d] \in failed' \/ stage'[top'[d]] = "bare"
                 /\ InScope(d)' /\ stage'[top'[d]] = "bare" => auto'[d]
      <4>1. CASE d # c
        <5>1. InScope(d)' => top[d] \in Obj /\ stage'[top[d]] = stage[top[d]]
          BY <1>2, <2>1, <2>2, <4>1 DEF InScope
        <5> QED BY <1>2, <1>3, <1>6, <4>1, <5>1 DEF RowInv, Rows, InScope
      <4>2. CASE d = c BY <1>2, <1>8, <2>1, <4>2 DEF InScope, CallInv, SaidInv, Closing
      <4> QED BY <4>1, <4>2
    <3>2. \A o \in Obj : \A k \in Key :
            <<o, k>> \in disk' => stage'[o] \in {"committed", "bare"} /\ k \in made'[o]
      BY <1>2, <2>1 DEF RowInv, Rows
    <3>3. \A o \in Obj : stage'[o] \in {"committed", "bare"} => Rows(o)' \subseteq disk'
      BY <1>2, <2>1 DEF RowInv, Rows
    <3> QED BY <3>1, <3>2, <3>3 DEF RowInv
  <2>6. SaidInv'
    <3>1. /\ life[top[c]] \in Alive /\ ~finalized[top[c]]
          /\ pc[c] = "END" => asked[top[c]] = "commit" /\ answer[top[c]] = "none"
      BY <1>2 DEF CallInv, Entered, StackInv
    <3>2. \A o \in Obj \ {top[c]} : stage'[o] = stage[o] BY <2>1
    <3>3. stage'[top[c]] = IF commits THEN "committed" ELSE "aborted" BY <1>2, <2>1
    <3>4. SUFFICES ASSUME NEW o \in Obj PROVE SaidInv!(o)' BY DEF SaidInv
    <3>5. CASE o = top[c] BY <1>2, <2>1, <3>1, <3>3, <3>5 DEF SaidInv, Alive
    <3>6. CASE o # top[c] BY <1>2, <3>2, <3>6 DEF SaidInv
    <3> QED BY <3>5, <3>6
  <2>7. LockInv' BY <1>2, <1>3, <1>4, <2>1 DEF LockInv, Resting, Closing
  <2>8. LooseDurable' BY <1>2, <2>1 DEF LooseDurable, Rows
  <2> QED BY <1>5, <2>3, <2>4, <2>5, <2>6, <2>7, <2>8
<1>9. CASE pc[c] = "BEGIN" /\ r # "ok" /\ auto[c]
  <2>1. /\ auto'[c] /\ owner[c] = NoObj
        /\ UNCHANGED <<disk, auto, lock, unsaved, owner, gaveUp>> /\ rc'[c] = "error"
        /\ stage[top[c]] = "unopened" /\ made[top[c]] = {} /\ life[top[c]] = "open"
        /\ stage' = [stage EXCEPT ![top[c]] = "bare"]
    BY <1>1, <1>2, <1>9 DEF Exec, Begin, Closing, Records, OwnerInv, CodeInv, CallInv, db
  <2>2. \A d \in Conn \ {c} : top[d] # NoObj => top[d] # top[c]
    BY <1>2 DEF StackInv
  <2>3. OwnerInv' BY SMTT(60), <1>2, <1>3, <1>6, <2>1 DEF OwnerInv
  <2>4. CodeInv' BY <1>2, <1>3, <1>9, <2>1, <2>2 DEF CodeInv, CallInv, Entered, Closing
  <2>5. RowInv' BY <1>2, <1>3, <1>6, <1>9, <2>1, <2>2 DEF RowInv, Rows, InScope
  <2>6. SaidInv' BY <1>2, <2>1 DEF SaidInv, Entered
  <2>7. LockInv' BY <1>2, <1>3, <1>4, <2>1 DEF LockInv, Resting
  <2>8. LooseDurable' BY <1>2, <2>1 DEF LooseDurable, Rows
  <2> QED BY <1>5, <2>3, <2>4, <2>5, <2>6, <2>7, <2>8
<1>10. CASE \/ pc[c] = "BEGIN" /\ r # "ok" /\ ~auto[c]
            \/ pc[c] # "BEGIN" /\ (r = "busy" \/ auto[c])
  <2>1. /\ UNCHANGED <<disk, auto, unsaved, owner, stage>>
        /\ auto[c] => lock'[c] = lock[c]
    BY <1>1, <1>2, <1>10 DEF Exec, Begin, End, Rollback, Closing, Records, RecordsEnd, Ends, db
  <2>2. /\ pc[c] = "BEGIN" => rc'[c] = "error" /\ ~auto[c]
        /\ pc[c] # "BEGIN" => \/ rc'[c] = "error" /\ auto[c]
                              \/ rc'[c] = "none" /\ pc[c] = "END"
                              \/ rc'[c] = "busy" /\ pc[c] = "END" /\ c \in gaveUp'
        /\ gaveUp \subseteq gaveUp'
    BY <1>1, <1>2, <1>10 DEF Exec, Begin, End, Rollback, Closing
  <2>3. OwnerInv' BY <1>2, <1>6, <2>1, <2>2 DEF OwnerInv
  <2>4. CodeInv' BY <1>2, <1>3, <1>6, <2>1, <2>2 DEF CodeInv, OwnerInv, Closing
  <2>5. RowInv' BY <1>2, <1>6, <2>1 DEF RowInv, Rows, InScope
  <2>6. SaidInv' BY <1>2, <2>1 DEF SaidInv
  <2>7. LockInv' BY <1>2, <1>3, <1>4, <2>1 DEF LockInv, Resting
  <2>8. LooseDurable' BY <1>2, <2>1, <2>2 DEF LooseDurable, Rows
  <2> QED BY <1>5, <2>3, <2>4, <2>5, <2>6, <2>7, <2>8
<1> QED BY <1>7, <1>8, <1>9, <1>10

\* The transaction of c is rolled back under a scope, by a statement that fails.
LEMMA AbortStep ==
    ASSUME Inv, TypeOK', NEW c \in Conn,
           ~auto[c], EndsTransaction(c), RecordsEnd(c, "aborted"),
           failed' = IF InScope(c) THEN failed \cup {top[c]} ELSE failed,
           UNCHANGED <<disk, made, pinned, top, outer, life, dbOf, finalized, ec, rc,
                       asked, answer, gaveUp>>,
           pc[c] \notin Statement, pc'[c] = "idle", \A d \in Conn \ {c} : pc'[d] = pc[d]
    PROVE  Inv'
<1> USE NoObjAssumption, TagAssumption
<1> USE DEF Inv, TypeOK, DbType, EndsTransaction
<1>1. \A d \in Conn \ {c} :
        /\ owner'[d] = owner[d] /\ unsaved'[d] = unsaved[d]
        /\ lock'[d] = lock[d] /\ (auto'[d] <=> auto[d])
  BY DEF RecordsEnd
<1>2. auto'[c] /\ unsaved'[c] = {} /\ lock'[c] = Resting(c) OBVIOUS
<1>3. /\ owner[c] # NoObj /\ stage[owner[c]] = "open" /\ owner'[c] = NoObj
      /\ stage' = [stage EXCEPT ![owner[c]] = "aborted"]
  BY <1>2 DEF OwnerInv, RecordsEnd, Ends
<1>4. StackInv' BY DEF StackInv
<1>5. CallInv' BY DEF CallInv, Entered, Statement, Closing
<1>6. \A d \in Conn : (Entered(d)' <=> Entered(d)) /\ (InScope(d)' <=> InScope(d))
  BY DEF Entered, InScope
<1>7. OwnerInv'
  <2>1. ASSUME NEW d \in Conn \ {c}, owner[d] # NoObj PROVE stage'[owner[d]] = "open"
    <3>1. owner[d] # owner[c] /\ stage[owner[d]] = "open" BY <2>1 DEF OwnerInv
    <3> QED BY <1>3, <2>1, <3>1
  <2>2. ASSUME NEW d \in Conn \ {c}
        PROVE  /\ auto'[d] <=> owner'[d] = NoObj
               /\ Entered(d)' /\ pc'[d] # "BEGIN" => owner'[d] \in {top'[d], NoObj}
               /\ ~auto'[d] => d \in gaveUp' \/ (owner'[d] = top'[d] /\ Entered(d)')
    BY <1>1, <1>6 DEF OwnerInv
  <2>3. ASSUME NEW d \in Conn, NEW e \in Conn, owner'[d] = owner'[e], owner'[d] # NoObj
        PROVE  d = e
    BY <1>1, <1>3, <2>3 DEF OwnerInv
  <2>4. \A d \in Conn : owner'[d] # NoObj => stage'[owner'[d]] = "open"
    BY SMTT(60), <1>1, <1>3, <2>1
  <2> QED BY <1>2, <1>3, <2>2, <2>3, <2>4 DEF OwnerInv
<1>8. \A o \in Obj : \A z \in {"unopened", "bare", "committed"} :
         stage[o] = z <=> stage'[o] = z
  BY <1>3
<1>9. CodeInv'
  <2>1. ASSUME NEW d \in Conn \ {c}, pc[d] \in {"BEGIN", "END"}
        PROVE  /\ top[d] \in Obj
               /\ stage[top[d]] = "unopened" <=> stage'[top[d]] = "unopened"
               /\ stage[top[d]] = "bare" <=> stage'[top[d]] = "bare"
               /\ stage[top[d]] = "committed" <=> stage'[top[d]] = "committed"
    <3>1. top[d] \in Obj BY <2>1 DEF CallInv, Statement, Entered
    <3> QED BY <1>8, <3>1
  <2>2. ASSUME NEW d \in Conn, Entered(d)', stage'[top'[d]] = "bare" PROVE pc'[d] = "BEGIN"
    <3>1. Entered(d) /\ top[d] \in Obj /\ stage[top[d]] = "bare" BY <1>6, <1>8, <2>2 DEF Entered
    <3>2. pc[d] = "BEGIN" BY <3>1 DEF CodeInv
    <3> QED BY <3>2 DEF Statement
  <2> QED BY <1>1, <1>2, <1>3, <2>1, <2>2 DEF CodeInv, Closing
<1>10. RowInv'
  <2>1. ASSUME NEW d \in Conn
        PROVE  /\ auto'[d] => unsaved'[d] = {}
               /\ Entered(d)' /\ owner'[d] = top'[d] => unsaved'[d] = Rows(top[d])'
               /\ InScope(d)' /\ pc'[d] \notin {"BEGIN", "DTOR"} /\ auto'[d]
                    => top'[d] \in failed' \/ stage'[top'[d]] = "bare"
               /\ InScope(d)' /\ stage'[top'[d]] = "bare" => auto'[d]
    <3>1. CASE d = c BY <1>2, <1>3, <1>6, <3>1 DEF Entered
    <3>2. CASE d # c
      <4>1. InScope(d) => (stage'[top[d]] = "bare" <=> stage[top[d]] = "bare")
        BY <1>8 DEF InScope
      <4> QED BY <1>1, <1>6, <3>2, <4>1 DEF RowInv, Rows
    <3> QED BY <3>1, <3>2
  <2>2. \A o \in Obj : stage'[o] \in {"committed", "bare"} <=> stage[o] \in {"committed", "bare"}
    BY <1>3
  <2> QED BY <2>1, <2>2 DEF RowInv, Rows
<1>11. SaidInv' BY <1>3 DEF SaidInv, StackInv, Statement, Alive
<1>12. LockInv' BY <1>1, <1>2 DEF LockInv, Resting
<1>13. LooseDurable' BY DEF LooseDurable, Rows
<1> QED BY <1>4, <1>5, <1>7, <1>9, <1>10, <1>11, <1>12, <1>13

\* A read fails inside of a transaction, which it may end, or outside of one.
LEMMA ReadFailsStep ==
    ASSUME Inv, TypeOK', NEW c \in Conn, ReadFails(c)
    PROVE  Inv'
<1> USE DEF Inv, TypeOK, DbType, ReadFails
<1>1. pc[c] \notin Statement /\ pc'[c] = "idle" /\ \A d \in Conn \ {c} : pc'[d] = pc[d]
  BY DEF Statement, Closing
<1>2. CASE ~auto[c] /\ ReadAbort(c)
  BY <1>1, <1>2, AbortStep DEF ReadAbort
<1>3. CASE auto[c] \/ ReadEnd(c)
  <2>1. UNCHANGED <<disk, auto, unsaved, pinned>>
    <3>1. CASE ReadEnd(c) BY <3>1 DEF ReadEnd
    <3>2. CASE auto[c] /\ ReadAbort(c)
      BY <3>2 DEF ReadAbort, EndsTransaction, RowInv
    <3> QED BY <1>3, <3>1, <3>2
  <2>2. UNCHANGED <<stage, owner>> BY <2>1 DEF RecordsEnd, Ends
  <2>3. failed \subseteq failed' OBVIOUS
  <2>4. LockInv'
    <3>1. auto[c] => lock'[c] = Resting(c) BY <1>3 DEF ReadEnd, ReadAbort, EndsTransaction
    <3>2. \A d \in Conn \ {c} : lock'[d] = lock[d]
      BY DEF ReadEnd, ReadAbort, EndsTransaction
    <3> QED BY <1>1, <2>1, <3>1, <3>2 DEF LockInv, Resting
  <2> QED BY <1>1, <2>1, <2>2, <2>3, <2>4, ReadKeepsScopes DEF ghosts, Statement, Closing
<1> QED BY <1>2, <1>3

LEMMA InsertStep ==
    ASSUME ~KeepGoing, Inv, TypeOK', NEW c \in Conn, NEW k \in Key, Insert(c, k)
    PROVE  Inv'
<1> USE NoObjAssumption, TagAssumption
<1> USE DEF Inv, TypeOK, DbType
<1> DEFINE t == Writer(c)
<1>1. PICK r \in Code :
        /\ Write(c, t, k, r)
        /\ made' = IF r = "ok" THEN [made EXCEPT ![t] = @ \cup {k}] ELSE made
        /\ failed' = IF r # "ok" /\ t \in Obj THEN failed \cup {t} ELSE failed
        /\ RecordsEnd(c, "aborted")
  BY DEF Insert
<1>2. /\ pc[c] = "idle" /\ t \notin failed /\ k \notin made[t]
      /\ UNCHANGED <<top, outer, life, dbOf, finalized, ec, pc, rc, waits, asked, answer, gaveUp>>
  BY DEF Insert, Idle, calls
<1>3. /\ InScope(c) => t = top[c] /\ t \in Obj
      /\ ~InScope(c) => t = c /\ t \notin Obj
  BY DEF Writer, InScope
<1>4. /\ \A d \in Conn \ {c} :
            /\ owner'[d] = owner[d] /\ unsaved'[d] = unsaved[d]
            /\ lock'[d] = lock[d] /\ (auto'[d] <=> auto[d])
      /\ pinned' = pinned
  BY <1>1 DEF Write, EndsTransaction, RecordsEnd, db
<1>5. StackInv' /\ CallInv'
  <2>1. StackInv' BY <1>2 DEF StackInv
  <2>2. CallInv' BY <1>2 DEF CallInv, Entered
  <2> QED BY <2>1, <2>2
<1>6. \A d \in Conn : (Entered(d)' <=> Entered(d)) /\ (InScope(d)' <=> InScope(d))
  BY <1>2 DEF Entered, InScope
<1>7. InScope(c) => (auto[c] <=> stage[t] = "bare") BY SMTT(60), <1>2, <1>3 DEF RowInv
<1>8. \A d \in Conn \ {c} : top[d] # NoObj => top[d] # top[c]
  BY DEF StackInv
<1>9. CASE auto'[c] <=> auto[c]
  <2>1. UNCHANGED <<stage, owner>> BY <1>1, <1>9 DEF RecordsEnd, Ends
  <2>2. OwnerInv' BY <1>2, <1>4, <1>6, <1>9, <2>1 DEF OwnerInv
  <2>3. failed \subseteq failed' BY <1>1
  <2>4. \A d \in Conn \ {c} : top[d] # NoObj => made'[top[d]] = made[top[d]]
    BY <1>1, <1>3, <1>8
  <2>5. CodeInv' BY <1>2, <1>4, <1>9, <2>1, <2>4 DEF CodeInv, CallInv, Entered, Statement, Closing
  <2>6. LockInv'
    <3>1. ASSUME auto[c] PROVE lock'[c] = lock[c]
      <4>1. lock[c] = Resting(c) BY <1>2, <3>1 DEF LockInv
      <4>2. lock' = [lock EXCEPT ![c] = lock[c]] \/ lock' = [lock EXCEPT ![c] = Resting(c)]
                \/ lock' = lock
        BY <1>1, <3>1 DEF Write, EndsTransaction, db
      <4> QED BY SMTT(60), <4>1, <4>2
    <3> QED BY <1>2, <1>4, <1>9, <3>1 DEF LockInv, Resting
  <2>7. \A o \in Obj : made'[o] # made[o] => o = t /\ life[o] = "open" /\ stage[o] # "committed"
    <3>1. ASSUME NEW o \in Obj, made'[o] # made[o] PROVE o = t
      BY <1>1, <3>1
    <3>2. t \in Obj => life[t] = "open" /\ stage[t] # "committed"
      <4>1. t \in Obj => InScope(c) /\ life[t] = "open" BY <1>3 DEF InScope
      <4>2. \A o \in Obj : life[o] = "open" => stage[o] # "committed" BY DEF SaidInv
      <4> QED BY <4>1, <4>2
    <3> QED BY <3>1, <3>2
  <2>8. SaidInv' BY <1>2, <2>1, <2>7 DEF SaidInv
  <2>9. CASE r = "ok" /\ auto[c]
    <3>1. /\ disk' = disk \cup {<<t, k>>} /\ unsaved' = unsaved
          /\ made' = [made EXCEPT ![t] = @ \cup {k}] /\ failed' = failed
      BY <1>1, <2>9 DEF Write, EndsTransaction, db
    <3>2. RowInv'
      <4>1. ASSUME NEW d \in Conn
            PROVE  /\ auto'[d] => unsaved'[d] = {}
                   /\ Entered(d)' /\ owner'[d] = top'[d] => unsaved'[d] = Rows(top[d])'
                   /\ InScope(d)' /\ pc'[d] \notin {"BEGIN", "DTOR"} /\ auto'[d]
                        => top'[d] \in failed' \/ stage'[top'[d]] = "bare"
                   /\ InScope(d)' /\ stage'[top'[d]] = "bare" => auto'[d]
        <5>1. CASE d = c
          <6>1. ~(Entered(d)' /\ owner'[d] = top'[d])
            BY <1>2, <2>1, <2>9, <5>1 DEF OwnerInv, Entered
          <6> QED BY <1>2, <1>3, <1>6, <1>7, <1>9, <2>1, <2>9, <3>1, <5>1, <6>1 DEF RowInv
        <5>2. CASE d # c
          BY <1>2, <1>4, <1>6, <2>1, <2>4, <3>1, <5>2 DEF RowInv, Rows, Entered
        <5> QED BY <5>1, <5>2
      <4>2. t \in Obj => stage[t] = "bare" BY <1>3, <1>7, <2>9
      <4>3. \A o \in Obj : \A j \in Key :
              <<o, j>> \in disk' => stage'[o] \in {"committed", "bare"} /\ j \in made'[o]
        BY <2>1, <3>1, <4>2 DEF RowInv
      <4>4. \A o \in Obj : stage'[o] \in {"committed", "bare"} => Rows(o)' \subseteq disk'
        BY <2>1, <3>1 DEF RowInv, Rows
      <4> QED BY <4>1, <4>3, <4>4 DEF RowInv
    <3>3. LooseDurable' BY <1>2, <1>3, <3>1 DEF LooseDurable, Rows
    <3> QED BY <1>5, <2>2, <2>5, <2>6, <2>8, <3>2, <3>3
  <2>10. CASE r = "ok" /\ ~auto[c]
    <3>1. /\ disk' = disk /\ unsaved' = [unsaved EXCEPT ![c] = @ \cup {<<t, k>>}]
          /\ made' = [made EXCEPT ![t] = @ \cup {k}] /\ failed' = failed
      BY <1>1, <1>9, <2>10 DEF Write, EndsTransaction, db
    <3>2. ~InScope(c) => ~Entered(c) /\ c \in gaveUp
      BY <1>2, <2>10 DEF InScope, CallInv, StackInv, OwnerInv, Entered, Alive
    <3>3. ASSUME Entered(c), owner[c] = top[c] PROVE unsaved'[c] = Rows(top[c])'
      BY <1>2, <1>3, <3>1, <3>2, <3>3 DEF RowInv, Rows
    <3>4. ASSUME NEW d \in Conn
          PROVE  /\ auto'[d] => unsaved'[d] = {}
                 /\ Entered(d)' /\ owner'[d] = top'[d] => unsaved'[d] = Rows(top[d])'
                 /\ InScope(d)' /\ pc'[d] \notin {"BEGIN", "DTOR"} /\ auto'[d]
                      => top'[d] \in failed' \/ stage'[top'[d]] = "bare"
                 /\ InScope(d)' /\ stage'[top'[d]] = "bare" => auto'[d]
      <4>1. CASE d = c BY <1>2, <1>3, <1>6, <1>7, <1>9, <2>1, <2>10, <3>3, <4>1
      <4>2. CASE d # c
        BY <1>2, <1>4, <1>6, <2>1, <2>4, <3>1, <4>2 DEF RowInv, Rows, Entered
      <4> QED BY <4>1, <4>2
    <3>5. RowInv'
      <4>1. \A o \in Obj : stage[o] \in {"committed", "bare"} => made'[o] = made[o]
        BY <1>3, <1>7, <2>7, <2>10
      <4> QED BY <2>1, <3>1, <3>4, <4>1 DEF RowInv, Rows
    <3>6. LooseDurable' BY <1>2, <1>3, <3>1, <3>2 DEF LooseDurable, Rows
    <3> QED BY <1>5, <2>2, <2>5, <2>6, <2>8, <3>5, <3>6
  <2>11. CASE r # "ok"
    <3>1. /\ disk' = disk /\ made' = made /\ (auto[c] => unsaved'[c] = {})
          /\ ~auto[c] => unsaved' = unsaved
      BY <1>1, <1>9, <2>11 DEF Write, EndsTransaction, RowInv, db
    <3>2. RowInv' BY <1>2, <1>4, <1>6, <1>9, <2>1, <2>3, <3>1 DEF RowInv, OwnerInv, Entered, Rows
    <3>3. LooseDurable' BY <1>2, <3>1 DEF LooseDurable, Rows
    <3> QED BY <1>5, <2>2, <2>5, <2>6, <2>8, <3>2, <3>3
  <2> QED BY <2>9, <2>10, <2>11
<1>10. CASE ~(auto'[c] <=> auto[c])
  <2>1. /\ ~auto[c] /\ EndsTransaction(c) /\ r # "ok"
        /\ UNCHANGED <<disk, made, pinned>>
    BY <1>1, <1>10 DEF Write, EndsTransaction, db
  <2>2. failed' = IF InScope(c) THEN failed \cup {top[c]} ELSE failed
    BY <1>1, <1>3, <2>1
  <2> QED BY <1>1, <1>2, <2>1, <2>2, AbortStep DEF Statement, Closing
<1> QED BY <1>9, <1>10

\* Every step of an application that follows demo.cpp keeps the invariant.
LEMMA InvStep ==
    ASSUME ~Nested, ~KeepGoing, Inv, [Next]_vars
    PROVE  Inv'
<1>1. Statements BY DEF Inv, CallInv, Entered, Statements
<1>2. TypeOK' BY <1>1, TypeStep DEF Inv
<1>3. CASE UNCHANGED vars
  BY <1>2, <1>3 DEF Inv, vars, db, objs, calls, ghosts, StackInv, CallInv, OwnerInv, CodeInv,
     RowInv, SaidInv, LockInv, LooseDurable, Entered, InScope, Rows, Resting
<1>4. ASSUME NEW c \in Conn, NEW o \in Obj, Construct(c, o) PROVE Inv'
  BY <1>2, <1>4, ConstructStep
<1>5. ASSUME NEW c \in Conn, NEW k \in Key, Insert(c, k) PROVE Inv'
  BY <1>2, <1>5, InsertStep
<1>6. ASSUME NEW c \in Conn, Commit(c) \/ RollbackCall(c) \/ Destroy(c) PROVE Inv'
  BY <1>2, <1>6, CommitStep, RollbackCallStep, DestroyStep
<1>7. ASSUME NEW c \in Conn, Attempt(c) \/ Return(c) \/ DestroyReturn(c) PROVE Inv'
  BY <1>2, <1>7, AttemptStep, ReturnStep, DestroyReturnStep
<1>8. ASSUME NEW c \in Conn,
             \/ Select(c) \/ SelectAttempt(c) \/ SelectDone(c)
             \/ Bind(c) \/ BindStep(c) \/ BindDone(c) \/ ReadThrow(c)
      PROVE  Inv'
  BY <1>2, <1>8, ReadStep
<1>9. ASSUME NEW c \in Conn, Die(c) \/ ReadFails(c) PROVE Inv'
  BY <1>2, <1>9, DieStep, ReadFailsStep
<1> QED BY <1>3, <1>4, <1>5, <1>6, <1>7, <1>8, <1>9 DEF Next

LEMMA InvAlways == ASSUME ~Nested, ~KeepGoing PROVE Spec => []Inv
<1>1. Init => Inv BY InvInit
<1>2. Inv /\ [Next]_vars => Inv' BY InvStep
<1> QED BY <1>1, <1>2, PTL DEF Spec

-----------------------------------------------------------------------------
(* What the invariant says of the scopes. *)

LEMMA InvImplies ==
    ASSUME Inv
    PROVE  ScopeAtomic /\ AnswerIsTrue /\ RollsBackUnlessGaveUp /\ NoLockLeak
<1> USE NoObjAssumption, TagAssumption
<1> USE DEF Inv, Rows
<1>1. \A o \in Obj : stage[o] \notin {"committed", "bare"} => disk \cap Rows(o) = {}
  BY DEF RowInv, TypeOK
<1>2. ScopeAtomic BY DEF ScopeAtomic, RowInv, SaidInv
<1>3. AnswerIsTrue
  <2>1. ASSUME NEW o \in Obj, answer[o] = "yes"
        PROVE  IF asked[o] = "rollback" THEN disk \cap Rows(o) = {} ELSE Rows(o) \subseteq disk
    <3>1. stage[o] # "bare" /\ (asked[o] = "commit" <=> stage[o] = "committed")
      BY <2>1 DEF SaidInv
    <3>2. asked[o] \in {"commit", "rollback"} BY <2>1 DEF SaidInv, TypeOK
    <3> QED BY <1>1, <3>1, <3>2 DEF RowInv
  <2>2. ASSUME NEW o \in Obj, answer[o] = "no"
        PROVE  IF stage[o] = "bare" THEN Rows(o) \subseteq disk ELSE disk \cap Rows(o) = {}
    <3>1. stage[o] # "committed" BY <2>2 DEF SaidInv
    <3> QED BY <1>1, <3>1 DEF RowInv
  <2> QED BY <2>1, <2>2 DEF AnswerIsTrue
<1>5. RollsBackUnlessGaveUp
  <2>1. SUFFICES ASSUME NEW o \in Obj, Uncommitted(o), stage[o] # "bare",
                        NEW c \in Conn \ gaveUp
                 PROVE  disk \cap Rows(o) = {} /\ unsaved[c] \cap Rows(o) = {}
    BY DEF RollsBackUnlessGaveUp, Visible
  <2>2. disk \cap Rows(o) = {} BY <1>1, <2>1 DEF Uncommitted, SaidInv
  <2>3. unsaved[c] = {} \/ (top[c] \in Obj /\ top[c] # o /\ unsaved[c] = Rows(top[c]))
    BY <2>1 DEF Uncommitted, RowInv, OwnerInv, Entered, StackInv, TypeOK, Alive
  <2> QED BY <2>2, <2>3
<1>4. NoLockLeak
  BY DEF NoLockLeak, Idle, LockInv, OwnerInv, Entered, Resting
<1> QED BY <1>2, <1>3, <1>4, <1>5

\* All or nothing (jsqlite.cpp:35-60), for every set of connections, objects and keys,
\* every retry bound and every interleaving, as long as the application follows
\* demo.cpp, of every scope whose BEGIN did not fail with no transaction open.
THEOREM Atomicity == ASSUME ~Nested, ~KeepGoing PROVE Spec => []ScopeAtomic
<1>1. Inv => ScopeAtomic BY InvImplies
<1> QED BY <1>1, InvAlways, PTL

\* After a yes of commit() the scope is durable, but that commit() after rollback() says
\* yes of a scope that is lost (jsqlite.cpp:50); after a no it is lost, but that a scope
\* whose BEGIN failed with no transaction open has been stored row by row.
THEOREM TruthfulCommit == ASSUME ~Nested, ~KeepGoing PROVE Spec => []AnswerIsTrue
<1>1. Inv => AnswerIsTrue BY InvImplies
<1> QED BY <1>1, InvAlways, PTL

\* A scope left without commit() is rolled back (jsqlite.cpp:31-33), unless a commit()
\* gave up before, or its own BEGIN failed with no transaction open.
THEOREM RollbackOnExit == ASSUME ~Nested, ~KeepGoing PROVE Spec => []RollsBackUnlessGaveUp
<1>1. Inv => RollsBackUnlessGaveUp BY InvImplies
<1> QED BY <1>1, InvAlways, PTL

\* Locks leak only through a commit() that gave up or a lost statement.
THEOREM LockRelease == ASSUME ~Nested, ~KeepGoing PROVE Spec => []NoLockLeak
<1>1. Inv => NoLockLeak BY InvImplies
<1> QED BY <1>1, InvAlways, PTL

\* Rows written outside of any object are durable, unless a commit() gave up before.
THEOREM LooseDurability == ASSUME ~Nested, ~KeepGoing PROVE Spec => []LooseDurable
<1>1. Inv => LooseDurable BY DEF Inv
<1> QED BY <1>1, InvAlways, PTL

-----------------------------------------------------------------------------
(* The objects implement atomic scopes. *)

Content == [o \in Obj |-> IF stage[o] \in {"unopened", "bare"} THEN {} ELSE made[o]]

LEMMA AbstractInit == Init => Abstract!Init
BY DEF Init, DbInit, Abstract!Init

\* A step that leaves rows, stages and committed rows alone is a stutter.
LEMMA Stutters ==
    ASSUME UNCHANGED <<disk, stage, made>>
    PROVE  UNCHANGED Abstract!vars
BY DEF Abstract!vars

LEMMA AttemptImplements ==
    ASSUME Inv, NEW c \in Conn, Attempt(c)
    PROVE  [Abstract!Next]_(Abstract!vars)
<1> USE NoObjAssumption, TagAssumption
<1>1. PICK r \in Code : Exec(c, r) /\ Records(c, r) BY DEF Attempt
<1>2. made' = made /\ top[c] \in Obj /\ pc[c] \in Statement /\ rc[c] = "none"
  BY DEF Attempt, Inv, TypeOK, CallInv, Entered
<1>3. CASE pc[c] = "BEGIN" /\ r = "ok"
  <2>1. /\ stage[top[c]] = "unopened" /\ made[top[c]] = {} /\ disk' = disk
        /\ stage' = [stage EXCEPT ![top[c]] = "open"]
    BY <1>1, <1>2, <1>3 DEF Exec, Begin, Closing, Records, Inv, CodeInv, db
  <2>2. Content' = Content BY <1>2, <2>1 DEF Content, Inv, TypeOK
  <2>3. Abstract!Open(top[c]) BY <2>1, <2>2 DEF Abstract!Open, Content
  <2> QED BY <1>2, <2>3 DEF Abstract!Next
<1>4. CASE pc[c] # "BEGIN" /\ r # "busy" /\ ~auto[c]
  <2> DEFINE commits == pc[c] = "END" /\ r = "ok"
  <2>1. owner[c] = top[c] /\ stage[top[c]] = "open" /\ unsaved[c] = Rows(top[c])
    BY <1>2, <1>4 DEF Inv, OwnerInv, CallInv, RowInv
  <2>2. /\ auto'[c]
        /\ disk' = IF commits THEN disk \cup unsaved[c] ELSE disk
    BY <1>1, <1>2, <1>4 DEF Exec, End, Rollback, EndsTransaction, Closing, Inv, TypeOK, DbType
  <2>3. stage' = [stage EXCEPT ![top[c]] = IF commits THEN "committed" ELSE "aborted"]
    BY <1>1, <1>2, <1>4, <2>1, <2>2 DEF Records, RecordsEnd, Ends
  <2>4. Content' = Content BY <1>2, <2>1, <2>3 DEF Content, Inv, TypeOK
  <2>5. Content[top[c]] = made[top[c]] BY <1>2, <2>1 DEF Content
  <2>6. CASE commits
    BY <1>2, <2>1, <2>2, <2>3, <2>4, <2>5, <2>6 DEF Abstract!Next, Abstract!Commit, Content, Rows
  <2>7. CASE ~commits
    BY <1>2, <2>1, <2>2, <2>3, <2>4, <2>7 DEF Abstract!Next, Abstract!Abort, Content
  <2> QED BY <2>6, <2>7
<1>5. CASE pc[c] = "BEGIN" /\ r # "ok" /\ auto[c]
  <2>1. /\ stage[top[c]] = "unopened" /\ made[top[c]] = {} /\ disk' = disk
        /\ stage' = [stage EXCEPT ![top[c]] = "bare"]
    BY <1>1, <1>2, <1>5 DEF Exec, Begin, Closing, Records, Inv, CodeInv, db
  <2>2. Content' = Content BY <1>2, <2>1 DEF Content, Inv, TypeOK
  <2>3. Abstract!Bare(top[c]) BY <2>1, <2>2 DEF Abstract!Bare, Content
  <2> QED BY <1>2, <2>3 DEF Abstract!Next
<1>6. CASE \/ pc[c] = "BEGIN" /\ r # "ok" /\ ~auto[c]
           \/ pc[c] # "BEGIN" /\ (r = "busy" \/ auto[c])
  <2>1. UNCHANGED <<disk, stage>>
    BY <1>1, <1>2, <1>6 DEF Exec, Begin, End, Rollback, Closing, Records, RecordsEnd, Ends, db
  <2> QED BY <1>2, <2>1, Stutters
<1> QED BY <1>3, <1>4, <1>5, <1>6

LEMMA InsertImplements ==
    ASSUME ~KeepGoing, Inv, NEW c \in Conn, NEW k \in Key, Insert(c, k)
    PROVE  [Abstract!Next]_(Abstract!vars)
<1> USE NoObjAssumption, TagAssumption
<1> DEFINE t == Writer(c)
<1>1. PICK r \in Code :
        /\ Write(c, t, k, r)
        /\ made' = IF r = "ok" THEN [made EXCEPT ![t] = @ \cup {k}] ELSE made
        /\ RecordsEnd(c, "aborted")
  BY DEF Insert
<1>2. pc[c] = "idle" /\ t \notin failed BY DEF Insert, Idle
<1>3. /\ InScope(c) => t = top[c] /\ t \in Obj /\ life[t] = "open"
      /\ ~InScope(c) => t = c /\ t \notin Obj
  BY DEF Writer, InScope, Inv, TypeOK
<1>4. InScope(c) => (auto[c] <=> stage[t] = "bare") BY <1>2, <1>3 DEF Inv, RowInv
<1>5. made \in [Tag -> SUBSET Key] /\ stage \in [Obj -> Stages]
  BY DEF Inv, TypeOK
<1>6. CASE r = "ok" /\ InScope(c) /\ ~auto[c]
  <2>1. disk' = disk /\ UNCHANGED stage
    BY <1>1, <1>4, <1>6 DEF Write, EndsTransaction, RecordsEnd, Ends
  <2>2. stage[t] \in {"unopened", "open"}
    BY <1>2, <1>3, <1>4, <1>6 DEF Inv, OwnerInv, SaidInv, Entered, InScope
  <2>3. CASE stage[t] = "unopened"
    <3>1. Content' = Content BY <1>1, <1>3, <1>5, <1>6, <2>1, <2>3 DEF Content
    <3> QED BY <2>1, <3>1 DEF Abstract!vars, Content
  <2>4. CASE stage[t] = "open"
    <3>1. Content' = [Content EXCEPT ![t] = @ \cup {k}]
      BY <1>1, <1>3, <1>5, <1>6, <2>1, <2>4 DEF Content
    <3> QED BY <1>3, <1>6, <2>1, <2>4, <3>1 DEF Abstract!Next, Abstract!Put, Content
  <2> QED BY <2>2, <2>3, <2>4
<1>7. CASE r = "ok" /\ (auto[c] \/ ~InScope(c))
  <2>1. UNCHANGED stage /\ (disk' = disk \/ disk' = disk \cup {<<t, k>>})
    BY <1>1, <1>7 DEF Write, EndsTransaction, RecordsEnd, Ends
  <2>2. t \in Conn \cup Obj /\ (t \in Obj => stage[t] = "bare") BY <1>3, <1>4, <1>7
  <2>3. Content' = Content BY <1>1, <1>5, <1>7, <2>1, <2>2 DEF Content
  <2>4. CASE disk' = disk BY <2>1, <2>3, <2>4 DEF Abstract!vars, Content
  <2>5. CASE disk' = disk \cup {<<t, k>>}
    <3>1. Abstract!PutLoose(t, k) BY <2>1, <2>2, <2>3, <2>5 DEF Abstract!PutLoose, Content
    <3> QED BY <2>2, <3>1 DEF Abstract!Next
  <2> QED BY <2>1, <2>4, <2>5
<1>8. CASE r # "ok"
  <2>1. disk' = disk /\ made' = made BY <1>1, <1>8 DEF Write, EndsTransaction, db
  <2>2. CASE UNCHANGED stage BY <2>1, <2>2, Stutters
  <2>3. CASE stage' # stage
    <3>1. owner[c] \in Obj /\ stage[owner[c]] = "open"
          /\ stage' = [stage EXCEPT ![owner[c]] = "aborted"]
      BY <1>1, <2>3 DEF RecordsEnd, Inv, OwnerInv, TypeOK
    <3>2. Content' = Content BY <1>5, <2>1, <3>1 DEF Content
    <3> QED BY <2>1, <3>1, <3>2 DEF Abstract!Next, Abstract!Abort, Content
  <2> QED BY <2>2, <2>3
<1> QED BY <1>6, <1>7, <1>8

LEMMA DieImplements ==
    ASSUME Inv, NEW c \in Conn, Die(c) \/ ReadFails(c)
    PROVE  [Abstract!Next]_(Abstract!vars)
<1>1. disk' = disk /\ made' = made BY DEF Die, Drop, ReadFails, ReadEnd, ReadAbort
<1>2. CASE UNCHANGED stage BY <1>1, <1>2, Stutters
<1>3. CASE stage' # stage
  <2>1. owner[c] \in Obj /\ stage[owner[c]] = "open"
        /\ stage' = [stage EXCEPT ![owner[c]] = "aborted"]
    BY <1>3 DEF Die, ReadFails, RecordsEnd, Inv, OwnerInv, TypeOK
  <2>2. Content' = Content BY <1>1, <2>1 DEF Content, Inv, TypeOK
  <2> QED BY <1>1, <2>1, <2>2 DEF Abstract!Next, Abstract!Abort, Content
<1> QED BY <1>2, <1>3

\* Transaction implements AtomicScopes: committed rows change only when a whole
\* scope commits, or by one row that is loose or of a scope without a transaction.
THEOREM Refinement == ASSUME ~Nested, ~KeepGoing PROVE Spec => ImplementsScopes
<1>1. Init => Abstract!Init BY AbstractInit
<1>2. Inv /\ [Next]_vars => [Abstract!Next]_(Abstract!vars)
  <2> SUFFICES ASSUME Inv, [Next]_vars PROVE [Abstract!Next]_(Abstract!vars) OBVIOUS
  <2>1. CASE UNCHANGED vars BY <2>1, Stutters DEF vars, db, ghosts
  <2>2. ASSUME NEW c \in Conn,
               \/ \E o \in Obj : Construct(c, o)
               \/ Commit(c) \/ RollbackCall(c) \/ Destroy(c) \/ Return(c) \/ DestroyReturn(c)
        PROVE  UNCHANGED Abstract!vars
    BY <2>2, Stutters
       DEF Construct, Commit, RollbackCall, Destroy, Return, DestroyReturn, db, ghosts
  <2>3. ASSUME NEW c \in Conn,
               \/ Select(c) \/ SelectAttempt(c) \/ SelectDone(c)
               \/ Bind(c) \/ BindStep(c) \/ BindDone(c) \/ ReadThrow(c)
        PROVE  UNCHANGED Abstract!vars
    BY <2>3, Stutters
       DEF Select, SelectAttempt, SelectDone, Bind, BindStep, BindDone, ReadThrow,
           ReadBegin, ReadEnd, ReadLeak, db, ghosts
  <2> QED BY <2>1, <2>2, <2>3, AttemptImplements, InsertImplements, DieImplements DEF Next
<1> QED BY <1>1, <1>2, InvAlways, PTL DEF Spec, ImplementsScopes, Abstract!Spec
=============================================================================
