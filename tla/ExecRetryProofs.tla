-------------------------- MODULE ExecRetryProofs --------------------------
(***************************************************************************)
(* Proofs about ExecRetry, for all scripts and every number of retries.      *)
(***************************************************************************)
EXTENDS ExecRetry, TLAPS

Last == ran[Len(script)]

\* How often the statements of the call have run.  In a turn, those before at
\* have run once more than those from at on could have.  The last one runs at
\* most once: a turn in which it runs is the last turn.
Counted ==
    /\ \A i, j \in 1..Len(script) : i < j => ran[i] >= ran[j]
    /\ \A i \in 1..Len(script) : ran[i] <= waits + 1
    /\ pc = "exec" =>
          /\ \A i \in 1..Len(script) : i >= at => ran[i] <= waits
          /\ \A i, j \in 1..Len(script) : i < at /\ at <= j => ran[i] > ran[j]
          /\ Last = IF at > Len(script) THEN 1 ELSE 0

Answered ==
    pc \in {"turn", "back"} =>
        /\ rc = "ok" => Last = 1
        /\ rc = "busy" => Last = 0
        /\ rc # "ok" /\ script[Len(script)] = "write" => Last = 0
        /\ Last <= 1

\* Only a message that is still to be overwritten is not yet lost to a retry.
Messages ==
    /\ pc = "idle" => err = "null"
    /\ pc \in {"turn", "back"} => ((err = "message") <=> (rc \in {"busy", "error"}))
    /\ retries = IF pc = "exec" /\ err = "message" THEN lost + 1 ELSE lost

Inv ==
    /\ TypeOK
    /\ pc # "idle" => script \in Scripts
    /\ pc # "idle" => Counted /\ Answered
    /\ Messages

USE DEF TypeOK

\* A script is a non-empty sequence.
LEMMA ScriptLength ==
    ASSUME NEW s \in Scripts
    PROVE  s \in Seq({"read", "write"}) /\ Len(s) \in Nat /\ Len(s) > 0
BY ScriptsAssumption DEF ScriptsAssumption


LEMMA InitInv == Init => Inv
<1> SUFFICES ASSUME Init PROVE Inv
  OBVIOUS
<1>1. Len(script) = 0 /\ ran = [i \in 1..0 |-> 0]
  BY DEF Init
<1>2. TypeOK
  BY <1>1, WaitAssumption DEF Init, WaitAssumption
<1> QED
  BY <1>2 DEF Init, Inv, Messages

\* The other connection changes its lock.
LEMMA RivalStep == ASSUME Inv, Rival PROVE Inv'
<1>1. UNCHANGED <<script, calls, at, ran, rc, waits, err, pc, retries, lost>>
  BY DEF Rival, call
<1>2. TypeOK'
  BY <1>1 DEF Inv, Rival
<1>3. (Counted' <=> Counted) /\ (Answered' <=> Answered)
  BY <1>1 DEF Counted, Answered, Last
<1>4. Messages' <=> Messages
  BY <1>1 DEF Messages
<1> QED
  BY <1>1, <1>2, <1>3, <1>4 DEF Inv

LEMMA CallStep ==
    ASSUME Inv, NEW s \in Scripts, Call(s)
    PROVE  Inv'
<1>1. s \in Seq({"read", "write"}) /\ Len(s) \in Nat /\ Len(s) > 0
  BY ScriptLength
<1>2. TypeOK'
  BY <1>1, WaitAssumption DEF Inv, Call, WaitAssumption
<1>3. Counted' /\ Answered'
  BY <1>1 DEF Inv, Call, Counted, Answered, Last
<1>4. Messages'
  BY DEF Inv, Call, Messages
<1> QED
  BY <1>2, <1>3, <1>4 DEF Inv, Call

\* Statement and Fails: the statement at at has taken effect once more.
LEMMA RunsOnce ==
    ASSUME Inv, pc = "exec", at <= Len(script), ran' = [ran EXCEPT ![at] = @ + 1],
           script' = script, waits' = waits
    PROVE  /\ at \in 1..Len(script) /\ Len(script) \in Nat
           /\ ran' \in [1..Len(script) -> 0..(MaxWait + 1)]
           /\ \A i, j \in 1..Len(script) : i < j => ran'[i] >= ran'[j]
           /\ \A i \in 1..Len(script) : ran'[i] <= waits + 1
           /\ \A i, j \in 1..Len(script) : i < at + 1 /\ at + 1 <= j => ran'[i] > ran'[j]
           /\ \A i \in 1..Len(script) : i >= at + 1 => ran'[i] <= waits
           /\ ran'[Len(script)] = IF at = Len(script) THEN 1 ELSE 0
<1>1. script \in Scripts /\ Len(script) \in Nat /\ Len(script) > 0
  BY ScriptLength DEF Inv
<1>2. at \in 1..Len(script) /\ waits \in 0..MaxWait /\ MaxWait \in Nat
  BY <1>1, WaitAssumption DEF Inv, WaitAssumption
<1>3. /\ \A i, j \in 1..Len(script) : i < j => ran[i] >= ran[j]
      /\ \A i \in 1..Len(script) : ran[i] <= waits + 1
      /\ \A i \in 1..Len(script) : i >= at => ran[i] <= waits
      /\ \A i, j \in 1..Len(script) : i < at /\ at <= j => ran[i] > ran[j]
      /\ ran[Len(script)] = 0
  BY <1>1, <1>2 DEF Inv, Counted, Last
<1>4. ran \in [1..Len(script) -> 0..(MaxWait + 1)]
  BY <1>1 DEF Inv
<1>5. \A i \in 1..Len(script) : ran'[i] = IF i = at THEN ran[i] + 1 ELSE ran[i]
  BY <1>4
<1>6. ran[at] \in Nat /\ ran[at] <= waits
  BY <1>2, <1>3, <1>4
<1>7. ran' \in [1..Len(script) -> 0..(MaxWait + 1)]
  BY <1>2, <1>4, <1>6
<1>8. \A i, j \in 1..Len(script) : i < j => ran'[i] >= ran'[j]
  BY <1>2, <1>3, <1>4, <1>5
<1>9. \A i \in 1..Len(script) : ran'[i] <= waits + 1 /\ (i >= at + 1 => ran'[i] <= waits)
  BY <1>2, <1>3, <1>4, <1>5
<1>10. \A i, j \in 1..Len(script) : i < at + 1 /\ at + 1 <= j => ran'[i] > ran'[j]
  BY <1>2, <1>3, <1>4, <1>5
<1>11. ran'[Len(script)] = IF at = Len(script) THEN 1 ELSE 0
  BY <1>1, <1>2, <1>3, <1>5
<1> QED
  BY <1>1, <1>2, <1>7, <1>8, <1>9, <1>10, <1>11

LEMMA StatementStep == ASSUME Inv, Statement PROVE Inv'
<1>1. pc = "exec" /\ script \in Scripts /\ script' = script
  BY DEF Inv, Statement, call
<1>2. Len(script) \in Nat /\ Len(script) > 0
  BY <1>1, ScriptLength
<1>3. at \in 1..Len(script)
  BY <1>2 DEF Inv, Statement
<1>4. TypeOK'
  BY <1>2, <1>3, RunsOnce DEF Inv, Statement, call
<1>5. Counted'
  BY <1>2, <1>3, RunsOnce DEF Inv, Statement, call, Counted, Last
<1>6. Messages' /\ Answered'
  BY DEF Inv, Statement, Messages, Answered
<1> QED
  BY <1>1, <1>4, <1>5, <1>6 DEF Inv, Statement

LEMMA FailsStep == ASSUME Inv, Fails PROVE Inv'
<1>1. pc = "exec" /\ script \in Scripts /\ script' = script
  BY DEF Inv, Fails, call
<1>2. Len(script) \in Nat /\ Len(script) > 0
  BY <1>1, ScriptLength
<1>3. at \in 1..Len(script) /\ waits \in Nat
  BY <1>2 DEF Inv, Fails
<1>4. Messages'
  BY DEF Inv, Fails, Overwrites, Messages
<1>5. /\ at' = at /\ waits' = waits /\ retries' = retries /\ calls' = calls
      /\ rival' = rival /\ pc' = "turn" /\ rc' \in {"busy", "error", "nomem"}
      /\ err' \in {"null", "message"} /\ lost' \in Nat
  BY DEF Inv, Fails, Overwrites, call
<1>6. CASE ran' = ran
  <2>1. TypeOK'
    BY <1>1, <1>5, <1>6 DEF Inv
  <2>2. Counted' /\ Answered'
    BY <1>1, <1>2, <1>3, <1>5, <1>6 DEF Inv, Counted, Answered, Last
  <2> QED
    BY <1>1, <1>4, <1>5, <2>1, <2>2 DEF Inv
<1>7. CASE script[at] = "read" /\ Unlocked /\ ran' = [ran EXCEPT ![at] = @ + 1]
  <2>1. rc' # "busy"
    BY <1>7 DEF Fails
  <2>2. TypeOK'
    BY <1>1, <1>2, <1>3, <1>5, <1>7, RunsOnce DEF Inv
  <2>3. Counted'
    BY <1>1, <1>2, <1>3, <1>5, <1>7, RunsOnce DEF Counted, Last
  <2>4. Answered'
    BY <1>1, <1>2, <1>3, <1>5, <1>7, <2>1, RunsOnce DEF Answered, Last
  <2> QED
    BY <1>1, <1>4, <1>5, <2>2, <2>3, <2>4 DEF Inv
<1> QED
  BY <1>6, <1>7 DEF Fails

LEMMA CompletesStep == ASSUME Inv, Completes PROVE Inv'
<1>1. pc = "exec" /\ script \in Scripts /\ script' = script
  BY DEF Inv, Completes, call
<1>2. Len(script) \in Nat /\ Len(script) > 0
  BY <1>1, ScriptLength
<1>3. TypeOK'
  BY <1>1 DEF Inv, Completes, Overwrites, call
<1>4. Counted' /\ Answered'
  BY <1>1, <1>2 DEF Inv, Completes, Counted, Answered, Last
<1>5. Messages'
  BY DEF Inv, Completes, Overwrites, Messages
<1> QED
  BY <1>1, <1>3, <1>4, <1>5 DEF Inv, Completes

LEMMA TurnStep == ASSUME Inv, Turn PROVE Inv'
<1>1. pc = "turn" /\ script \in Scripts /\ script' = script /\ ran' = ran /\ rc' = rc
  BY DEF Inv, Turn, Yields, call
<1>2. Len(script) \in Nat /\ Len(script) > 0
  BY <1>1, ScriptLength
<1>3. TypeOK'
  BY <1>1, <1>2, WaitAssumption DEF Inv, Turn, Retries, Again, Yields, call, WaitAssumption
<1>4. Messages'
  BY <1>1 DEF Inv, Turn, Retries, Messages
<1>5. CASE Retries
  <2>1. waits' = waits + 1 /\ at' = 1 /\ pc' = "exec" /\ Last = 0
    BY <1>1, <1>5 DEF Inv, Turn, Retries, Again, Answered
  <2>2. \A i \in 1..Len(script) : ran[i] \in Nat /\ waits \in Nat
    BY <1>1 DEF Inv
  <2>3. Counted' /\ Answered'
    BY <1>1, <1>2, <2>1, <2>2 DEF Inv, Counted, Answered, Last
  <2> QED
    BY <1>1, <1>3, <1>4, <2>3 DEF Inv
<1>6. CASE ~Retries
  BY <1>1, <1>3, <1>4, <1>6 DEF Inv, Turn, Counted, Answered, Last
<1> QED
  BY <1>5, <1>6

LEMMA BackStep == ASSUME Inv, Back PROVE Inv'
BY DEF Inv, Back, Frees, call, Messages

LEMMA Step == Inv /\ [Next]_vars => Inv'
<1> SUFFICES ASSUME Inv, [Next]_vars PROVE Inv'
  OBVIOUS
<1>1. CASE UNCHANGED vars
  BY <1>1 DEF Inv, vars, call, Counted, Answered, Messages, Last
<1> QED
  BY <1>1, RivalStep, CallStep, StatementStep, FailsStep, CompletesStep, TurnStep, BackStep
  DEF Next

\* The invariant holds always.
THEOREM Invariance == Spec => []Inv
BY InitInv, Step, PTL DEF Spec

\* wait_if_busy's type invariant, whatever the scripts and the patience: no more
\* retries than jsqlite.cpp:15 allows, and a cursor inside the script.
THEOREM Typing == Spec => []TypeOK
<1>1. Inv => TypeOK
  BY DEF Inv
<1> QED
  BY <1>1, Invariance, PTL

\* One statement takes effect exactly once on SQLITE_OK, not at all on SQLITE_BUSY
\* and never twice (jsqlite.cpp:15-19).
THEOREM OneStatement == Spec => []OneStatementOnce
<1>1. Inv => OneStatementOnce
  <2> SUFFICES ASSUME Inv, Returned, Len(script) = 1
               PROVE  /\ rc = "ok" => ran[1] = 1
                      /\ rc = "busy" \/ (rc # "ok" /\ script[1] = "write") => ran[1] = 0
                      /\ ran[1] <= 1
    BY DEF OneStatementOnce
  <2> QED
    BY DEF Inv, Answered, Last, Returned
<1> QED
  BY <1>1, Invariance, PTL

\* A script repeats prefixes: each statement at least as often as the next, at most
\* once per turn, and the last one once if the answer is SQLITE_OK.
THEOREM Prefixes == Spec => []ScriptsRepeatPrefixes
<1>1. Inv => ScriptsRepeatPrefixes
  <2> SUFFICES ASSUME Inv, Returned PROVE ScriptsRepeatPrefixes
    BY DEF ScriptsRepeatPrefixes
  <2>1. DOMAIN ran = 1..Len(script)
    BY DEF Inv
  <2> QED
    BY <2>1 DEF Inv, Counted, Answered, Last, Returned, ScriptsRepeatPrefixes
<1> QED
  BY <1>1, Invariance, PTL

\* Every failed call has its message unless memory ran out, and each retry of
\* wait_if_busy, and nothing else, loses one.
THEOREM MessagesLost == Spec => []RetriesLoseMessages
<1>1. Inv => RetriesLoseMessages
  BY DEF Inv, Messages, Returned, RetriesLoseMessages
<1> QED
  BY <1>1, Invariance, PTL
=============================================================================
