------------------------- MODULE ShellOutputProofs -------------------------
(***************************************************************************)
(* Proofs about ShellOutput, for all file names, settings and queries and    *)
(* any number of commands.                                                   *)
(***************************************************************************)
EXTENDS ShellOutput, DataProofs, FiniteSetTheorems

Standard == {"stdout", "stderr"}

StreamType ==
    /\ out \in Stream \cup Standard
    /\ pLog \in Stream \cup Standard \cup {"null"}
    /\ traceOut \in Stream \cup Standard \cup {"null"}
    /\ open \in [Stream -> File \cup Pipe \cup {NoName}]
    /\ misclosed \in BOOLEAN

StreamInv == StreamType /\ NoDanglingStream

\* fopen or popen always has a stream to return: three users, and one of them is
\* just closing its own.
LEMMA FreshIsFree ==
    ASSUME NEW opened, \E s \in Stream : opened[s] = NoName
    PROVE  Fresh(opened) \in Stream /\ opened[Fresh(opened)] = NoName
BY DEF Fresh

LEMMA InitStreams == Init => StreamInv
BY DEF Init, StreamInv, StreamType, NoDanglingStream, Standard, Stream, NoName

\* Commands that only change settings, and queries.
LEMMA SettingsStep == ASSUME StreamInv, UNCHANGED streams PROVE StreamInv'
BY DEF StreamInv, StreamType, NoDanglingStream, streams

\* The streams that are open are those in use; f is in use once.
InUse(f, g, h) ==
    /\ \A s \in Stream : open[s] # NoName => s \in {f, g, h}
    /\ \A s \in Stream : s \in {g, h} => open[s] # NoName /\ s # f

\* new is what its user has instead of f once z is open, and after the streams then.
Replaces(new, after, g, h, z) ==
    /\ new \in Stream \cup Standard \cup {"null"}
    /\ after \in [Stream -> File \cup Pipe \cup {NoName}]
    /\ new \in Stream => z \in File \cup Pipe /\ after[new] = z /\ new \notin {g, h}
    /\ new \in Standard => new = z
    /\ \A s \in Stream : after[s] # NoName <=> s \in {new, g, h}
    /\ \A s \in Stream : s \in {g, h} => after[s] = open[s]

\* The user of f closes it and opens z, while g and h stay in use.
LEMMA Reopened ==
    ASSUME StreamType, NEW f, NEW g, NEW h, NEW z, InUse(f, g, h)
    PROVE  Replaces(Opened(z, Closed(f)), OpenAfter(z, Closed(f)), g, h, z)
<1> DEFINE opened == Closed(f)
           new == Opened(z, opened)
           after == OpenAfter(z, opened)
<1>1. opened \in [Stream -> File \cup Pipe \cup {NoName}]
  BY DEF StreamType, Closed, InUse
<1>2. \A s \in Stream : opened[s] # NoName <=> s \in {g, h}
  BY DEF StreamType, Closed, InUse
<1>3. \A s \in Stream : s \in {g, h} => opened[s] = open[s]
  BY DEF StreamType, Closed, InUse
<1>4. \E s \in Stream : opened[s] = NoName
  BY <1>2 DEF Stream
<1>5. Fresh(opened) \in Stream /\ opened[Fresh(opened)] = NoName
  BY <1>4, FreshIsFree
<1> HIDE DEF opened
<1>6. CASE z \in File \cup Pipe
  <2>1. new = Fresh(opened) /\ after = [opened EXCEPT ![Fresh(opened)] = z]
    BY <1>6, NamesAssumption DEF Opened, OpenAfter, NamesAssumption
  <2>2. z # NoName
    BY <1>6, NamesAssumption DEF NamesAssumption
  <2>3. new \notin Standard
    BY <1>5, <2>1 DEF Stream, Standard
  <2> QED
    BY <1>1, <1>2, <1>3, <1>5, <1>6, <2>1, <2>2, <2>3 DEF opened, Replaces
<1>7. CASE z \notin File \cup Pipe
  <2>1. after = opened /\ new \in Standard \cup {"null"} /\ (new \in Standard => new = z)
    BY <1>7 DEF Opened, OpenAfter, Standard
  <2>2. new \notin Stream
    BY <2>1 DEF Stream, Standard
  <2> QED
    BY <1>1, <1>2, <1>3, <2>1, <2>2 DEF opened, Replaces
<1> QED
  BY <1>6, <1>7

LEMMA OutputStep ==
    ASSUME StreamInv, NEW z, Output(z)
    PROVE  StreamInv'
<1> DEFINE new == Opened(z, Closed(out))
<1>1. StreamType /\ InUse(out, pLog, traceOut)
  BY DEF StreamInv, NoDanglingStream, InUse
<1>2. Replaces(new, open', pLog, traceOut, z)
  BY <1>1, Reopened DEF Output
<1>3. /\ out' = IF new = "null" THEN "stdout" ELSE new
      /\ outfile' = IF new = "null" THEN NoName ELSE z
      /\ UNCHANGED <<pLog, traceOut, traced>>
  BY DEF Output, NameFor
<1>4. \A s \in Stream : s # "null" /\ s # "stdout" /\ s # "stderr"
  BY DEF Stream
<1>5. misclosed' = FALSE
  <2>1. out \in Stream => ((outfile \in Pipe) <=> (open[out] \in Pipe))
    BY DEF StreamInv, NoDanglingStream
  <2>2. out \notin Stream => outfile \notin Pipe
    BY NamesAssumption DEF StreamInv, StreamType, NoDanglingStream, NamesAssumption, Standard
  <2> QED
    BY <2>1, <2>2 DEF Output, StreamInv, NoDanglingStream
<1>6. StreamType'
  BY <1>2, <1>3, <1>5 DEF StreamInv, StreamType, Standard, Replaces
<1>7. NoDanglingStream'
  BY <1>2, <1>3, <1>4, <1>5 DEF StreamInv, NoDanglingStream, Standard, Replaces
<1> QED
  BY <1>6, <1>7 DEF StreamInv

LEMMA LogStep ==
    ASSUME StreamInv, NEW z, Log(z)
    PROVE  StreamInv'
<1> DEFINE new == Opened(z, Closed(pLog))
<1>1. StreamType /\ InUse(pLog, out, traceOut)
  BY DEF StreamInv, NoDanglingStream, InUse
<1>2. Replaces(new, open', out, traceOut, z)
  BY <1>1, Reopened DEF Log
<1>3. pLog' = new /\ UNCHANGED <<out, outfile, traceOut, traced, misclosed>>
  BY DEF Log
<1>4. StreamType'
  BY <1>2, <1>3 DEF StreamInv, StreamType, Replaces
<1>5. NoDanglingStream'
  BY <1>2, <1>3 DEF StreamInv, NoDanglingStream, Replaces
<1> QED
  BY <1>4, <1>5 DEF StreamInv

LEMMA TraceStep ==
    ASSUME StreamInv, NEW z, Trace(z)
    PROVE  StreamInv'
<1> DEFINE new == Opened(z, Closed(traceOut))
<1>1. StreamType /\ InUse(traceOut, out, pLog)
  BY DEF StreamInv, NoDanglingStream, InUse
<1>2. Replaces(new, open', out, pLog, z)
  BY <1>1, Reopened DEF Trace
<1>3. traceOut' = new /\ traced' = new /\ UNCHANGED <<out, outfile, pLog, misclosed>>
  BY DEF Trace
<1>4. StreamType'
  BY <1>2, <1>3 DEF StreamInv, StreamType, Replaces
<1>5. NoDanglingStream'
  BY <1>2, <1>3 DEF StreamInv, NoDanglingStream, Replaces
<1> QED
  BY <1>4, <1>5 DEF StreamInv

LEMMA StreamStep == StreamInv /\ [Next]_vars => StreamInv'
<1> SUFFICES ASSUME StreamInv, [Next]_vars PROVE StreamInv'
  OBVIOUS
<1>1. UNCHANGED streams \/ (\E z : Output(z) \/ Log(z) \/ Trace(z))
  BY DEF vars, Next, Command, Mode, ModeInsert, Header, Separator, NullValue, Width,
         ExplainOn, ExplainOff, Query
<1> QED
  BY <1>1, SettingsStep, OutputStep, LogStep, TraceStep

\* The files of .output, .log and .trace are closed once, each by its own
\* function, and never written to afterwards.
THEOREM Streams == Spec => []NoDanglingStream
<1>1. StreamInv => NoDanglingStream
  BY DEF StreamInv
<1> QED
  BY <1>1, InitStreams, StreamStep, PTL DEF Spec

-----------------------------------------------------------------------------
(* .explain.                                                                 *)

\* While .explain is on, what it kept is what was set before, and that was not the
\* explain mode itself.
ExplainInv ==
    /\ DOMAIN explainPrev = DOMAIN NoExplain
    /\ IF explainPrev.valid
       THEN /\ <<explainPrev.mode, explainPrev.showHeader, explainPrev.colWidth>> = normal
            /\ explainPrev.mode # "explain"
       ELSE Settings = normal /\ mode # "explain"

LEMMA InitExplain == Init => ExplainInv
BY DEF Init, ExplainInv, NoExplain, Settings

LEMMA ExplainStep ==
    ASSUME ExplainInv, Next
    PROVE  ExplainInv' /\ (~explainPrev'.valid => mode' # "explain")
           /\ (explainPrev.valid /\ ~explainPrev'.valid => Settings' = normal)
<1>1. normal' = IF explainPrev'.valid THEN normal ELSE Settings'
  BY DEF Next
<1>2. CASE explainPrev' = explainPrev /\ (mode' = mode \/ mode' # "explain")
  BY <1>1, <1>2 DEF ExplainInv, Settings
<1>3. CASE ExplainOn
  BY <1>1, <1>3 DEF ExplainOn, ExplainInv, Settings, NoExplain
<1>4. CASE ExplainOff
  BY <1>1, <1>4 DEF ExplainOff, ExplainInv, Settings, NoExplain
<1> QED
  BY <1>2, <1>3, <1>4 DEF Next, Command, Mode, Modes, ModeInsert, Header, Separator, NullValue,
     Width, Output, Log, Trace, Query, format

\* .explain off gives back what was set before .explain on, however often that was
\* given and whatever came between.
THEOREM Restores == Spec => ExplainRestores
<1>1. ExplainInv /\ [Next]_vars => ExplainInv'
  <2> SUFFICES ASSUME ExplainInv, [Next]_vars PROVE ExplainInv'
    OBVIOUS
  <2>1. CASE UNCHANGED vars
    BY <2>1 DEF ExplainInv, vars, format, Settings
  <2> QED
    BY <2>1, ExplainStep
<1>2. ExplainInv /\ [Next]_vars =>
        [/\ ~explainPrev'.valid => mode' # "explain"
         /\ explainPrev.valid /\ ~explainPrev'.valid => Settings' = normal]_vars
  BY ExplainStep
<1> QED
  BY <1>1, <1>2, InitExplain, PTL DEF Spec, ExplainRestores
-----------------------------------------------------------------------------
(* What FlattenSeq makes of a sequence of texts, and where each of them is.  *)

\* The recursive function in FlattenSeq.
FlatOf(s) ==
    CHOOSE flatten : flatten = [i \in 1..Len(s) |-> IF i = 1 THEN s[i] ELSE flatten[i - 1] \o s[i]]

LEMMA FlattenSeqIs == \A s : FlattenSeq(s) = IF Len(s) = 0 THEN s ELSE FlatOf(s)[Len(s)]
BY DEF FlattenSeq, FlatOf

\* f[k] is what the first k texts of s make.
Piles(s, f) == f[0] = <<>> /\ \A k \in 1..Len(s) : f[k] = f[k - 1] \o s[k]

LEMMA FlattenPiles ==
    ASSUME NEW X, NEW Words, Words = Seq(X), NEW s \in Seq(Words)
    PROVE  \E f \in [0..Len(s) -> Words] : Piles(s, f) /\ FlattenSeq(s) = f[Len(s)]
<1> DEFINE n == Len(s)
           e == <<>>
           step == [p \in (1..n) \X Words |-> p[2] \o s[p[1]]]
           Is(f) == f = [i \in 1..n |-> IF i = 1 THEN s[i] ELSE f[i - 1] \o s[i]]
           flat == CHOOSE f : Is(f)
<1>0. n \in Nat /\ e \in Words
  OBVIOUS
<1>1. \A i \in 1..n : s[i] \in Words
  BY ElementOfSeq
<1>2. \A y \in Words, z \in Words : y \o z \in Words
  BY ConcatProperties
<1>3. \A z \in Words : <<>> \o z = z
  BY ConcatEmptySeq
<1>4. FlattenSeq(s) = IF n = 0 THEN s ELSE flat[n]
  BY FlattenSeqIs DEF FlatOf
<1>5. n = 0 => s = <<>>
  OBVIOUS
<1> HIDE DEF n
<1>6. step \in [(1..n) \X Words -> Words]
  BY <1>1, <1>2
<1>7. \A i \in 1..n, v \in Words : step[<<i, v>>] = v \o s[i]
  OBVIOUS
<1> HIDE DEF e, step
<1>8. PICK f \in [0..n -> Words] : Iterates(n, e, step, f)
  BY <1>0, <1>6, ForwardRecursion
<1>9. /\ f[0] = <<>> /\ \A i \in 1..n : f[i - 1] \in Words /\ f[i] = f[i - 1] \o s[i]
  <2>1. f[0] = e
    BY <1>8 DEF Iterates
  <2>2. ASSUME NEW i \in 1..n PROVE f[i - 1] \in Words /\ f[i] = f[i - 1] \o s[i]
    <3>1. i - 1 \in 0..n
      BY <1>0
    <3>2. f[i] = step[<<i, f[i - 1]>>]
      BY <1>8 DEF Iterates
    <3> QED BY <3>1, <3>2, <1>7, <1>8
  <2> QED BY <2>1, <2>2 DEF e
<1>10. CASE n = 0
  <2>1. Piles(s, f)
    BY <1>9 DEF Piles, n
  <2>2. FlattenSeq(s) = f[n]
    BY <1>10, <1>4, <1>5, <1>9
  <2> QED BY <2>1, <2>2 DEF n
<1>11. CASE n # 0
  <2> DEFINE g == [i \in 1..n |-> f[i]]
  <2>1. ASSUME NEW i \in 1..n PROVE g[i] = IF i = 1 THEN s[i] ELSE g[i - 1] \o s[i]
    <3>1. CASE i = 1
      <4>1. i - 1 = 0 /\ s[i] \in Words
        BY <3>1, <1>1
      <4>2. f[i] = f[i - 1] \o s[i] /\ f[i - 1] = <<>>
        BY <4>1, <1>9
      <4>3. f[i] = s[i]
        BY <4>1, <4>2, <1>3
      <4> QED BY <4>3, <3>1
    <3>2. CASE i # 1
      <4>1. i - 1 \in 1..n
        BY <3>2, <1>0
      <4> QED BY <4>1, <3>2, <1>9
    <3> QED BY <3>1, <3>2
  <2>2. Is(g)
    BY <2>1
  <2> HIDE DEF g
  <2>3. Is(flat)
    <3> HIDE DEF Is
    <3> QED BY <2>2, Zenon
  <2> HIDE DEF flat
  <2>4. /\ \A i \in 1..n : flat[i] = IF i = 1 THEN s[i] ELSE flat[i - 1] \o s[i]
    BY <2>3
  <2> HIDE DEF Is
  <2> DEFINE S == {i \in Nat : i + 1 <= n => flat[i + 1] = f[i + 1]}
  <2>5. 0 \in S
    <3>1. 0 + 1 = 1 /\ 1 \in 1..n /\ 1 - 1 = 0
      BY <1>0, <1>11
    <3>2. flat[1] = s[1] /\ s[1] \in Words
      BY <3>1, <2>4, <1>1
    <3>3. f[1] = <<>> \o s[1]
      BY <3>1, <1>9
    <3> QED BY <3>1, <3>2, <3>3, <1>3
  <2>6. ASSUME NEW i \in Nat, i \in S PROVE i + 1 \in S
    <3> SUFFICES ASSUME i + 1 + 1 <= n PROVE flat[i + 1 + 1] = f[i + 1 + 1]
      OBVIOUS
    <3>1. i + 1 + 1 \in 1..n /\ (i + 1 + 1) - 1 = i + 1 /\ i + 1 + 1 # 1 /\ flat[i + 1] = f[i + 1]
      BY <2>6, <1>0
    <3>2. flat[i + 1 + 1] = flat[i + 1] \o s[i + 1 + 1]
      BY <3>1, <2>4
    <3>3. f[i + 1 + 1] = f[i + 1] \o s[i + 1 + 1]
      BY <3>1, <1>9
    <3> QED BY <3>1, <3>2, <3>3
  <2> HIDE DEF S
  <2>7. n - 1 \in Nat /\ n - 1 + 1 = n
    BY <1>0, <1>11
  <2>8. n - 1 \in S
    BY <2>5, <2>6, <2>7, SimpleInduction
  <2>9. flat[n] = f[n]
    BY <2>7, <2>8 DEF S
  <2>10. Piles(s, f)
    BY <1>9 DEF Piles, n
  <2> QED BY <2>9, <2>10, <1>4, <1>11 DEF n, flat
<1> QED BY <1>10, <1>11

\* The k-th text of s begins behind p[k - 1] in z, and there is nothing else in z.
Places(s, z, p) ==
    /\ p \in [0..Len(s) -> Nat] /\ p[0] = 0 /\ p[Len(s)] = Len(z)
    /\ \A k \in 1..Len(s) : p[k] = p[k - 1] + Len(s[k])
    /\ \A k \in 1..Len(s) : \A j \in 1..Len(s[k]) :
          p[k - 1] + j \in 1..Len(z) /\ z[p[k - 1] + j] = s[k][j]
    /\ \A i \in 1..Len(z) : \E k \in 1..Len(s) : \E j \in 1..Len(s[k]) : i = p[k - 1] + j

Laid(s, X) == FlattenSeq(s) \in Seq(X) /\ \E p : Places(s, FlattenSeq(s), p)

LEMMA FlattenPlaces ==
    ASSUME NEW X, NEW Words, Words = Seq(X), NEW s \in Seq(Words)
    PROVE  Laid(s, X)
<1> DEFINE n == Len(s)
           z == FlattenSeq(s)
<1>0. n \in Nat /\ \A k \in 1..n : s[k] \in Seq(X)
  BY ElementOfSeq
<1>1. PICK f \in [0..n -> Words] : Piles(s, f) /\ z = f[n]
  BY FlattenPiles
<1>2. f[0] = <<>> /\ \A k \in 1..n : f[k] = f[k - 1] \o s[k]
  BY <1>1 DEF Piles
<1> HIDE DEF n, z
<1> DEFINE p == [k \in 0..n |-> Len(f[k])]
<1>3. \A k \in 0..n : f[k] \in Seq(X) /\ Len(f[k]) \in Nat /\ p[k] = Len(f[k])
  BY <1>1
<1>4. p \in [0..n -> Nat] /\ p[0] = 0 /\ p[n] = Len(z)
  BY <1>0, <1>1, <1>2, <1>3
<1>5. ASSUME NEW k \in 1..n
      PROVE  /\ k - 1 \in 0..n /\ p[k] = p[k - 1] + Len(s[k]) /\ Len(s[k]) \in Nat
             /\ \A j \in 1..p[k - 1] : f[k][j] = f[k - 1][j]
             /\ \A j \in 1..Len(s[k]) : f[k][p[k - 1] + j] = s[k][j]
  <2>1. k - 1 \in 0..n /\ k \in 0..n
    BY <1>0
  <2>2. f[k - 1] \in Seq(X) /\ s[k] \in Seq(X) /\ f[k] = f[k - 1] \o s[k]
    BY <2>1, <1>0, <1>2, <1>3
  <2> DEFINE a == f[k - 1]
             b == s[k]
  <2>3. p[k] = Len(a \o b) /\ p[k - 1] = Len(a)
    BY <2>1, <2>2, <1>3
  <2>31. a \in Seq(X) /\ b \in Seq(X) /\ f[k] = a \o b
    BY <2>2
  <2> HIDE DEF a, b, p
  <2>4. /\ Len(a \o b) = Len(a) + Len(b) /\ Len(a) \in Nat /\ Len(b) \in Nat
        /\ \A j \in 1..Len(a) : (a \o b)[j] = a[j]
        /\ \A j \in 1..Len(b) : (a \o b)[Len(a) + j] = b[j]
    BY <2>31, ConcatProperties, LenProperties
  <2> QED BY <2>1, <2>3, <2>31, <2>4 DEF a, b
<1> HIDE DEF p
\* What is laid stays where it is.
<1> DEFINE S == {m \in Nat : m <= n => \A k \in 0..m : \A j \in 1..p[k] : j <= p[m] /\ f[m][j] = f[k][j]}
<1>6. 0 \in S
  <2>1. ASSUME NEW k \in 0..0, NEW j \in 1..p[k] PROVE j <= p[0] /\ f[0][j] = f[k][j]
    <3>1. k = 0
      OBVIOUS
    <3> QED BY <3>1, <1>4
  <2> QED BY <2>1
<1>7. ASSUME NEW m \in Nat, m \in S PROVE m + 1 \in S
  <2> SUFFICES ASSUME m + 1 <= n, NEW k \in 0..(m + 1), NEW j \in 1..p[k]
               PROVE  j <= p[m + 1] /\ f[m + 1][j] = f[k][j]
    OBVIOUS
  <2>1. CASE k = m + 1
    <3>1. p[m + 1] \in Nat
      BY <1>0, <1>4
    <3> QED BY <2>1, <3>1
  <2>2. CASE k # m + 1
    <3>1. m + 1 \in 1..n /\ (m + 1) - 1 = m /\ k \in 0..m /\ m \in 0..n /\ m + 1 \in 0..n /\ m <= n
      BY <2>2, <1>0
    <3>2. j <= p[m] /\ f[m][j] = f[k][j] /\ j \in Nat /\ 1 <= j
      BY <3>1, <1>4, <1>7
    <3>3. /\ p[m + 1] = p[m] + Len(s[m + 1]) /\ Len(s[m + 1]) \in Nat
          /\ \A i \in 1..p[m] : f[m + 1][i] = f[m][i]
      BY <3>1, <1>5
    <3>4. p[m] \in Nat
      BY <3>1, <1>4
    <3> QED BY <3>2, <3>3, <3>4
  <2> QED BY <2>1, <2>2
<1>8. n \in S
  <2> HIDE DEF S
  <2> QED BY <1>0, <1>6, <1>7, SimpleInduction
<1>9. \A k \in 0..n : \A j \in 1..p[k] : j <= p[n] /\ f[n][j] = f[k][j]
  BY <1>0, <1>8
<1> HIDE DEF S
<1>10. ASSUME NEW k \in 1..n, NEW j \in 1..Len(s[k])
       PROVE  p[k - 1] + j \in 1..Len(z) /\ z[p[k - 1] + j] = s[k][j]
  <2>1. /\ k - 1 \in 0..n /\ k \in 0..n /\ p[k] = p[k - 1] + Len(s[k]) /\ Len(s[k]) \in Nat
        /\ f[k][p[k - 1] + j] = s[k][j]
    BY <1>0, <1>5
  <2>2. p[k - 1] \in Nat /\ p[k - 1] + j \in 1..p[k]
    <3>1. p[k - 1] \in Nat
      BY <2>1, <1>4
    <3> DEFINE a == p[k - 1]
               l == Len(s[k])
    <3>2. a \in Nat /\ l \in Nat /\ p[k] = a + l /\ j \in 1..l
      BY <2>1, <3>1
    <3> HIDE DEF a, l
    <3>3. a + j \in 1..p[k]
      BY <3>2
    <3> QED BY <3>1, <3>3 DEF a
  <2>3. p[k - 1] + j <= p[n] /\ f[n][p[k - 1] + j] = f[k][p[k - 1] + j]
    BY <2>1, <2>2, <1>9
  <2> QED BY <2>1, <2>2, <2>3, <1>1, <1>4
\* Everything was laid by some text.
<1> DEFINE By(i, m) == \E k \in 1..m : \E j \in 1..Len(s[k]) : i = p[k - 1] + j
           C == {m \in Nat : m <= n => \A i \in 1..p[m] : By(i, m)}
<1>11. 0 \in C
  BY <1>4
<1>12. ASSUME NEW m \in Nat, m \in C PROVE m + 1 \in C
  <2> SUFFICES ASSUME m + 1 <= n, NEW i \in 1..p[m + 1] PROVE By(i, m + 1)
    OBVIOUS
  <2>1. /\ m + 1 \in 1..n /\ (m + 1) - 1 = m /\ m \in 0..n /\ m <= n /\ p[m] \in Nat
        /\ m + 1 \in 1..(m + 1)
    BY <1>0, <1>4
  <2>2. p[m + 1] = p[m] + Len(s[m + 1]) /\ Len(s[m + 1]) \in Nat
    BY <2>1, <1>5
  <2>3. CASE i <= p[m]
    <3>0. i \in 1..p[m]
      BY <2>1, <2>3
    <3>1. By(i, m)
      <4> HIDE DEF By
      <4> QED BY <3>0, <2>1, <1>12
    <3>2. PICK k \in 1..m : \E j \in 1..Len(s[k]) : i = p[k - 1] + j
      BY <3>1
    <3>3. k \in 1..(m + 1)
      OBVIOUS
    <3> QED BY <3>2, <3>3
  <2>4. CASE ~(i <= p[m])
    <3>1. i - p[m] \in 1..Len(s[m + 1]) /\ i = p[m] + (i - p[m])
      BY <2>1, <2>2, <2>4
    <3> QED BY <3>1, <2>1
  <2> QED BY <2>3, <2>4
<1>13. n \in C
  <2> HIDE DEF C
  <2> QED BY <1>0, <1>11, <1>12, SimpleInduction
<1>14. \A i \in 1..Len(z) : By(i, n)
  BY <1>0, <1>4, <1>13
<1> HIDE DEF C
<1>15. Places(s, z, p)
  <2>1. \A k \in 1..n : p[k] = p[k - 1] + Len(s[k])
    BY <1>5
  <2> QED BY <1>4, <1>10, <1>14, <2>1 DEF Places, n
<1>16. z \in Seq(X)
  BY <1>0, <1>1, <1>3
<1> QED BY <1>15, <1>16 DEF Laid, z
-----------------------------------------------------------------------------
(* C strings.                                                                *)

Characters == Seq(Char)

LEMMA EmptyText == <<>> \in Characters
BY DEF Characters

LEMMA OneElement == ASSUME NEW X, NEW x \in X PROVE <<x>> \in Seq(X)
OBVIOUS

LEMMA ByteNamed == \A v : Byte(v) \in Char
<1>1. /\ "ctl" \in Char /\ "tab" \in Char /\ "nl" \in Char /\ "cr" \in Char /\ " " \in Char
      /\ Quote \in Char /\ "'" \in Char /\ "," \in Char /\ "\\" \in Char /\ "|" \in Char
      /\ "other" \in Char
  BY CharAssumption DEF CharAssumption, White, Delims
<1> QED BY <1>1, Zenon DEF Byte

LEMMA OctalLength ==
    ASSUME NEW z \in Seq(Char), NEW i \in 1..Len(z)
    PROVE  OctalAt(z, i).length \in 1..3 /\ i + OctalAt(z, i).length \in (i + 1)..(Len(z) + 1)
<1>1. Len(z) \in Nat /\ i \in 1..Len(z)
  OBVIOUS
<1>2. \/ OctalAt(z, i).length = 1
      \/ i + 1 <= Len(z) /\ OctalAt(z, i).length = 2
      \/ i + 2 <= Len(z) /\ OctalAt(z, i).length = 3
  BY DEF OctalAt
<1> QED BY <1>1, <1>2

LEMMA UnescapedTyped ==
    ASSUME NEW z \in Seq(Char), NEW i \in 1..Len(z)
    PROVE  /\ Unescaped(z, i).text \in Characters
           /\ Unescaped(z, i).next \in (i + 1)..(Len(z) + 1)
<1> DEFINE n == Len(z)
           u == Unescaped(z, i)
           c == z[i + 1]
<1>1. n \in Nat /\ i \in 1..n /\ z[i] \in Char /\ (i # n => i + 1 \in 1..n /\ c \in Char)
  <2>1. n \in Nat /\ i \in 1..n
    OBVIOUS
  <2>2. z[i] \in Char
    BY ElementOfSeq
  <2>3. ASSUME i # n PROVE i + 1 \in 1..n
    BY <2>1, <2>3
  <2>4. ASSUME i # n PROVE c \in Char
    BY <2>3, <2>4, ElementOfSeq
  <2> QED BY <2>1, <2>2, <2>3, <2>4
<1>2. \/ u.text = <<>> /\ u.next = n + 1
      \/ u.text = <<z[i]>> /\ u.next = i + 1
      \/ i # n /\ u.next = i + 2 /\ u.text \in {<<"nl">>, <<"tab">>, <<"cr">>, <<c>>}
      \/ i # n /\ (\E v : u.text = <<Byte(v)>>) /\ u.next = i + 1 + OctalAt(z, i + 1).length
  BY <1>1 DEF Unescaped
<1>21. i # n => i + 1 + OctalAt(z, i + 1).length \in (i + 1)..(n + 1)
  <2> SUFFICES ASSUME i # n PROVE i + 1 + OctalAt(z, i + 1).length \in (i + 1)..(n + 1)
    OBVIOUS
  <2>1. i + 1 \in 1..Len(z)
    BY <1>1
  <2>2. i + 1 + OctalAt(z, i + 1).length \in ((i + 1) + 1)..(Len(z) + 1)
    BY <2>1, OctalLength
  <2> QED BY <1>1, <2>2
<1> HIDE DEF u, n, c
<1>3. \A x \in Char : <<x>> \in Characters
  BY OneElement DEF Characters
<1>4. /\ <<"nl">> \in Characters /\ <<"tab">> \in Characters /\ <<"cr">> \in Characters
      /\ \A v : <<Byte(v)>> \in Characters
  <2>1. "nl" \in Char /\ "tab" \in Char /\ "cr" \in Char
    BY CharAssumption DEF CharAssumption, White
  <2> QED BY <1>3, <2>1, ByteNamed, Zenon
<1>5. u.text \in Characters
  BY <1>1, <1>2, <1>3, <1>4, EmptyText, Zenon
<1>6. u.next \in (i + 1)..(n + 1)
  BY <1>1, <1>2, <1>21
<1> QED BY <1>5, <1>6 DEF u, n

\* The recursive function in ResolveBackslashes.
ResolveOf(z) ==
    CHOOSE r : r = [i \in 1..(Len(z) + 1) |->
        IF i > Len(z) THEN <<>> ELSE Unescaped(z, i).text \o r[Unescaped(z, i).next]]

LEMMA ResolveIs == \A z : ResolveBackslashes(z) = ResolveOf(z)[1]
BY DEF ResolveBackslashes, ResolveOf

Resolves(z, r) ==
    /\ r \in [1..(Len(z) + 1) -> Characters] /\ r[Len(z) + 1] = <<>>
    /\ \A i \in 1..Len(z) : r[i] = Unescaped(z, i).text \o r[Unescaped(z, i).next]

LEMMA ResolveOfIs ==
    ASSUME NEW z \in Seq(Char)
    PROVE  Resolves(z, ResolveOf(z))
<1> DEFINE n == Len(z)
           e == n + 1
           V == Characters
           stop == {e}
           w == [i \in 1..e |-> <<>>]
           jump == [i \in 1..e |-> Unescaped(z, i).next]
           step == [p \in (1..e) \X V |-> IF p[1] = e THEN <<>> ELSE Unescaped(z, p[1]).text \o p[2]]
           Is(r) == r = [i \in 1..e |->
                          IF i > n THEN <<>> ELSE Unescaped(z, i).text \o r[Unescaped(z, i).next]]
<1>1. n \in Nat /\ e \in Nat /\ 1 \in Nat /\ \A i \in 1..e : i # e => i \in 1..n
  OBVIOUS
<1>2. \A i \in 1..n : Unescaped(z, i).text \in V /\ Unescaped(z, i).next \in (i + 1)..e
  BY UnescapedTyped
<1>3. \A a \in V, b \in V : a \o b \in V
  BY ConcatProperties DEF Characters
<1>4. <<>> \in V
  BY EmptyText
<1>5. ResolveOf(z) = CHOOSE r : Is(r)
  BY DEF ResolveOf
<1> HIDE DEF n, V
<1>6. w \in [1..e -> V]
  BY <1>4
<1>7. step \in [(1..e) \X V -> V]
  <2>1. ASSUME NEW p \in (1..e) \X V
        PROVE  (IF p[1] = e THEN <<>> ELSE Unescaped(z, p[1]).text \o p[2]) \in V
    <3>1. p[1] \in 1..e /\ p[2] \in V
      OBVIOUS
    <3>2. CASE p[1] = e
      BY <3>2, <1>4
    <3>3. CASE p[1] # e
      <4>1. Unescaped(z, p[1]).text \in V
        BY <3>1, <3>3, <1>1, <1>2
      <4> QED BY <4>1, <3>1, <3>3, <1>3
    <3> QED BY <3>2, <3>3
  <2> QED BY <2>1
<1>8. \A i \in 1..e, v \in V :
         step[<<i, v>>] = IF i = e THEN <<>> ELSE Unescaped(z, i).text \o v
  OBVIOUS
<1>9. \A i \in 1..e : w[i] = <<>> /\ jump[i] = Unescaped(z, i).next
  OBVIOUS
<1>10. Jumps(1, e, stop, jump)
  BY <1>1, <1>2 DEF Jumps
<1> HIDE DEF w, jump, step
<1>11. PICK r \in [1..e -> V] : Follows(1, e, stop, w, jump, step, r)
  <2> HIDE DEF e, stop
  <2> QED BY <1>1, <1>6, <1>7, <1>10, BackwardRecursion
<1>12. ASSUME NEW i \in 1..e
       PROVE  r[i] = IF i > n THEN <<>> ELSE Unescaped(z, i).text \o r[Unescaped(z, i).next]
  <2>1. r[i] = IF i \in stop THEN w[i] ELSE step[<<i, r[jump[i]]>>]
    BY <1>11 DEF Follows
  <2>2. CASE i = e
    BY <2>1, <2>2, <1>1, <1>9
  <2>3. CASE i # e
    <3>1. i \in 1..n /\ Unescaped(z, i).next \in 1..e /\ ~(i > n)
      BY <2>3, <1>1, <1>2
    <3>2. r[Unescaped(z, i).next] \in V
      BY <3>1, <1>11
    <3>3. r[i] = step[<<i, r[Unescaped(z, i).next]>>]
      BY <2>1, <2>3, <1>9
    <3> QED BY <3>1, <3>2, <3>3, <2>3, <1>8
  <2> QED BY <2>2, <2>3
<1>13. Is(r)
  BY <1>11, <1>12
<1> DEFINE q == CHOOSE g : Is(g)
<1>14. Is(q)
  <2> HIDE DEF Is
  <2> QED BY <1>13, Zenon
<1> HIDE DEF q
<1>15. /\ DOMAIN q = 1..e
       /\ \A i \in 1..e :
             q[i] = IF i > n THEN <<>> ELSE Unescaped(z, i).text \o q[Unescaped(z, i).next]
  BY <1>14
<1>151. q = [i \in 1..e |-> q[i]]
  BY <1>14
<1> HIDE DEF Is
<1>16. q[e] = <<>> /\ \A i \in 1..n : q[i] = Unescaped(z, i).text \o q[Unescaped(z, i).next]
  <2>1. e \in 1..e /\ e > n
    BY <1>1
  <2>2. \A i \in 1..n : i \in 1..e /\ ~(i > n)
    BY <1>1
  <2> HIDE DEF e
  <2> QED BY <2>1, <2>2, <1>15
<1> DEFINE S == {i \in 1..e : q[i] \in V}
<1>17. \A i \in 1..e : i \in S
  <2>1. ASSUME NEW i \in 1..e, \A j \in (i + 1)..e : j \in S PROVE i \in S
    <3>1. CASE i = e
      BY <3>1, <1>4, <1>16
    <3>2. CASE i # e
      <4>1. /\ i \in 1..n /\ Unescaped(z, i).next \in (i + 1)..e
            /\ Unescaped(z, i).text \in V
        BY <3>2, <1>1, <1>2
      <4>2. q[Unescaped(z, i).next] \in V
        BY <4>1, <2>1
      <4>3. q[i] = Unescaped(z, i).text \o q[Unescaped(z, i).next]
        BY <4>1, <1>16
      <4> QED BY <4>1, <4>2, <4>3, <1>3
    <3> QED BY <3>1, <3>2
  <2> HIDE DEF S, e
  <2> QED BY <1>1, <2>1, BackwardInduction
<1>18. q \in [1..e -> V]
  <2>1. q = [i \in 1..e |-> q[i]]
    BY <1>151
  <2>2. \A i \in 1..e : q[i] \in V
    BY <1>17
  <2> QED BY <2>1, <2>2
<1>19. ResolveOf(z) = q
  BY <1>5 DEF q
<1> QED BY <1>16, <1>18, <1>19 DEF Resolves, n, V

LEMMA ResolveTyped ==
    ASSUME NEW z \in Seq(Char)
    PROVE  ResolveBackslashes(z) \in Seq(Char)
<1>1. Resolves(z, ResolveOf(z))
  BY ResolveOfIs
<1>2. 1 \in 1..(Len(z) + 1)
  OBVIOUS
<1>3. ResolveOf(z)[1] \in Characters
  BY <1>1, <1>2 DEF Resolves
<1> QED BY <1>3, ResolveIs DEF Characters

\* What output_c_string writes for a character stands at i.
WrittenAt(z, i, c) ==
    \A j \in 1..Len(Escaped(c)) : i + j - 1 \in 1..Len(z) /\ z[i + j - 1] = Escaped(c)[j]

LEMMA EscapedReads ==
    ASSUME NEW z \in Seq(Char), NEW i \in 1..Len(z), NEW c \in Char, WrittenAt(z, i, c)
    PROVE  Unescaped(z, i) = [text |-> <<c>>, next |-> i + Len(Escaped(c))]
<1> DEFINE n == Len(z)
           u == Unescaped(z, i)
<1>0. n \in Nat /\ i \in 1..n
  OBVIOUS
<1>1. CASE c \in {"\\", Quote, "tab", "nl", "cr"}
  <2>1. Len(Escaped(c)) = 2 /\ Escaped(c)[1] = "\\"
    BY <1>1 DEF Escaped, Quote
  <2>2. /\ 1 \in 1..2 /\ 2 \in 1..2 /\ i + 1 - 1 = i /\ i + 2 - 1 = i + 1
    OBVIOUS
  <2>3. z[i] = "\\" /\ i + 1 \in 1..n /\ z[i + 1] = Escaped(c)[2]
    BY <2>1, <2>2 DEF WrittenAt
  <2>4. i # n
    BY <2>3, <1>0
  <2>5. Escaped(c)[2] = CASE c = "tab" -> "t" [] c = "nl" -> "n" [] c = "cr" -> "r" [] OTHER -> c
    BY <1>1 DEF Escaped, Quote
  <2>6. u = [text |-> <<c>>, next |-> i + 2]
    BY <2>3, <2>4, <2>5, <1>1 DEF Unescaped, Octal, Quote
  <2> QED BY <2>1, <2>6
<1>2. CASE c = "ctl"
  <2>1. Escaped(c) = <<"\\", "0", "0", "1">> /\ Len(Escaped(c)) = 4
    BY <1>2 DEF Escaped, Quote
  <2>2. /\ z[i] = "\\" /\ z[i + 1] = "0" /\ z[i + 2] = "0" /\ z[i + 3] = "1" /\ i + 3 \in 1..n
    <3>1. /\ i + 1 - 1 = i /\ i + 2 - 1 = i + 1 /\ i + 3 - 1 = i + 2 /\ i + 4 - 1 = i + 3
          /\ 1 \in 1..4 /\ 2 \in 1..4 /\ 3 \in 1..4 /\ 4 \in 1..4
      OBVIOUS
    <3> QED BY <2>1, <3>1 DEF WrittenAt
  <2>3. i # n /\ i + 3 <= n
    BY <2>2, <1>0
  <2>5. u = [text |-> <<"ctl">>, next |-> i + 3 + 1]
    <3>1. OctalValue("0") = 0 /\ OctalValue("1") = 1 /\ Byte(1) = "ctl"
      BY DEF OctalValue, Byte
    <3>2. (64 * 0 + 8 * 0 + 1) % 256 = 1
      OBVIOUS
    <3>3. /\ i + 1 + 0 = i + 1 /\ i + 1 + 1 = i + 2 /\ i + 1 + 2 = i + 3
          /\ \A j \in 0..2 : j = 0 \/ j = 1 \/ j = 2
      OBVIOUS
    <3>4. \A j \in 0..2 : z[i + 1 + j] \in Octal
      BY <3>3, <2>2 DEF Octal
    <3>5. OctalAt(z, i + 1) = [length |-> 3, value |-> 1]
      BY <2>2, <2>3, <3>1, <3>2, <3>3, <3>4 DEF OctalAt
    <3>6. i + 1 + 3 = i + 3 + 1
      OBVIOUS
    <3> QED BY <2>2, <2>3, <3>1, <3>5, <3>6 DEF Unescaped, Octal
  <2>6. i + 3 + 1 = i + 4
    OBVIOUS
  <2> QED BY <2>1, <2>5, <2>6, <1>2
<1>4. CASE c = "other"
  <2>1. Escaped(c) = <<"\\", "3", "7", "7">> /\ Len(Escaped(c)) = 4
    BY <1>4 DEF Escaped, Quote
  <2>2. /\ z[i] = "\\" /\ z[i + 1] = "3" /\ z[i + 2] = "7" /\ z[i + 3] = "7" /\ i + 3 \in 1..n
    <3>1. /\ i + 1 - 1 = i /\ i + 2 - 1 = i + 1 /\ i + 3 - 1 = i + 2 /\ i + 4 - 1 = i + 3
          /\ 1 \in 1..4 /\ 2 \in 1..4 /\ 3 \in 1..4 /\ 4 \in 1..4
      OBVIOUS
    <3> QED BY <2>1, <3>1 DEF WrittenAt
  <2>3. i # n /\ i + 3 <= n
    BY <2>2, <1>0
  <2>5. u = [text |-> <<"other">>, next |-> i + 3 + 1]
    <3>1. OctalValue("3") = 3 /\ OctalValue("7") = 7 /\ Byte(255) = "other"
      BY DEF OctalValue, Byte
    <3>2. (64 * 3 + 8 * 7 + 7) % 256 = 255
      OBVIOUS
    <3>3. /\ i + 1 + 0 = i + 1 /\ i + 1 + 1 = i + 2 /\ i + 1 + 2 = i + 3
          /\ \A j \in 0..2 : j = 0 \/ j = 1 \/ j = 2
      OBVIOUS
    <3>4. \A j \in 0..2 : z[i + 1 + j] \in Octal
      BY <3>3, <2>2 DEF Octal
    <3>5. OctalAt(z, i + 1) = [length |-> 3, value |-> 255]
      BY <2>2, <2>3, <3>1, <3>2, <3>3, <3>4 DEF OctalAt
    <3>6. i + 1 + 3 = i + 3 + 1
      OBVIOUS
    <3> QED BY <2>2, <2>3, <3>1, <3>5, <3>6 DEF Unescaped, Octal
  <2>6. i + 3 + 1 = i + 4
    OBVIOUS
  <2> QED BY <2>1, <2>5, <2>6, <1>4
<1>3. CASE c \notin {"\\", Quote, "tab", "nl", "cr", "ctl", "other"}
  <2>1. Escaped(c) = <<c>>
    BY <1>3 DEF Escaped
  <2>2. Len(Escaped(c)) = 1 /\ Escaped(c)[1] = c
    BY <2>1
  <2>3. 1 \in 1..1 /\ i + 1 - 1 = i
    OBVIOUS
  <2>4. z[i] = c
    BY <2>2, <2>3 DEF WrittenAt
  <2>5. u = [text |-> <<c>>, next |-> i + 1]
    BY <2>4, <1>3 DEF Unescaped
  <2> QED BY <2>2, <2>5
<1> QED BY <1>1, <1>2, <1>3, <1>4
LEMMA TwoElements == ASSUME NEW X, NEW x \in X, NEW y \in X PROVE <<x, y>> \in Seq(X)
OBVIOUS

LEMMA FourElements ==
    ASSUME NEW X, NEW a \in X, NEW b \in X, NEW c \in X, NEW d \in X
    PROVE  <<a, b, c, d>> \in Seq(X)
OBVIOUS

LEMMA EscapedTyped ==
    ASSUME NEW c \in Char
    PROVE  Escaped(c) \in Characters /\ (c # Quote => \A j \in 1..Len(Escaped(c)) : Escaped(c)[j] # Quote)
<1>1. /\ "\\" \in Char /\ "t" \in Char /\ "n" \in Char /\ "r" \in Char /\ "0" \in Char /\ "1" \in Char
      /\ "3" \in Char /\ "7" \in Char /\ Quote \in Char
  BY CharAssumption DEF CharAssumption, Octal, Delims
<1>2. CASE c \in {"ctl", "other"}
  <2>1. \E x, y \in {"0", "1", "3", "7"} : Escaped(c) = <<"\\", x, IF c = "ctl" THEN "0" ELSE "7", y>>
    BY <1>2 DEF Escaped, Quote
  <2>2. PICK x, w, y \in {"0", "1", "3", "7"} : Escaped(c) = <<"\\", x, w, y>>
    BY <2>1
  <2>21. Escaped(c) \in Characters
    <3>1. <<"\\", x, w, y>> \in Seq(Char)
      BY <1>1, <2>2, FourElements
    <3> QED BY <2>2, <3>1 DEF Characters
  <2>3. ASSUME NEW j \in 1..Len(Escaped(c)) PROVE Escaped(c)[j] # Quote
    <3>1. j \in {1, 2, 3, 4}
      BY <2>2
    <3>2. /\ Escaped(c)[1] = "\\" /\ Escaped(c)[2] = x /\ Escaped(c)[3] = w
          /\ Escaped(c)[4] = y
      BY <2>2
    <3>3. Escaped(c)[j] \in {"\\", x, w, y}
      BY <3>1, <3>2, Zenon
    <3> QED BY <2>2, <3>3 DEF Quote
  <2> QED BY <2>21, <2>3
<1>3. CASE c \in {"\\", Quote, "tab", "nl", "cr"}
  <2>1. \E x \in {"\\", Quote, "t", "n", "r"} : Escaped(c) = <<"\\", x>> /\ (c # Quote => x # Quote)
    BY <1>3 DEF Escaped, Quote
  <2>2. PICK x \in {"\\", Quote, "t", "n", "r"} : Escaped(c) = <<"\\", x>> /\ (c # Quote => x # Quote)
    BY <2>1
  <2>3. Escaped(c) \in Characters
    <3>1. x \in Char
      BY <1>1, <2>2
    <3>2. <<"\\", x>> \in Seq(Char)
      BY <1>1, <3>1, TwoElements
    <3> QED BY <2>2, <3>2 DEF Characters
  <2>4. ASSUME c # Quote, NEW j \in 1..Len(Escaped(c)) PROVE Escaped(c)[j] # Quote
    <3>1. j \in {1, 2}
      BY <2>2
    <3>2. Escaped(c)[1] = "\\" /\ Escaped(c)[2] = x
      BY <2>2
    <3>3. Escaped(c)[j] \in {"\\", x}
      BY <3>1, <3>2, Zenon
    <3> QED BY <2>2, <2>4, <3>3 DEF Quote
  <2> QED BY <2>3, <2>4
<1>4. CASE c \notin {"\\", Quote, "tab", "nl", "cr", "ctl", "other"}
  <2>1. Escaped(c) = <<c>>
    BY <1>4 DEF Escaped
  <2> QED BY <2>1 DEF Characters
<1> QED BY <1>2, <1>3, <1>4

\* The rest of z from i on is the character at i and the rest behind it.
LEMMA RestFrom ==
    ASSUME NEW X, NEW z \in Seq(X), NEW i \in 1..Len(z)
    PROVE  SubSeq(z, i, Len(z)) = <<z[i]>> \o SubSeq(z, i + 1, Len(z))
<1> DEFINE n == Len(z)
           a == SubSeq(z, i, n)
           b == SubSeq(z, i + 1, n)
           c == <<z[i]>>
<1>1. n \in Nat /\ i \in 1..n /\ i \in Int /\ n \in Int /\ i + 1 \in Int
  OBVIOUS
<1>2. \A j \in i..n : z[j] \in X
  BY ElementOfSeq
<1>3. /\ a \in Seq(X) /\ Len(a) = n - i + 1 /\ \A j \in 1..(n - i + 1) : a[j] = z[i + j - 1]
  BY <1>1, <1>2, SubSeqProperties
<1>4. /\ b \in Seq(X) /\ Len(b) = n - i
      /\ \A j \in 1..(n - i) : b[j] = z[i + 1 + j - 1]
  <2>1. \A j \in (i + 1)..n : z[j] \in X
    BY <1>2
  <2>2. /\ b \in Seq(X) /\ Len(b) = IF i + 1 <= n THEN n - (i + 1) + 1 ELSE 0
        /\ \A j \in 1..(n - (i + 1) + 1) : b[j] = z[i + 1 + j - 1]
    BY <1>1, <2>1, SubSeqProperties
  <2> HIDE DEF b, n
  <2> QED BY <1>1, <2>2
<1>5. c \in Seq(X) /\ Len(c) = 1 /\ c[1] = z[i]
  BY <1>1, <1>2
<1> HIDE DEF a, b, c, n
<1>6. /\ c \o b \in Seq(X) /\ Len(c \o b) = 1 + (n - i)
      /\ \A j \in 1..(1 + (n - i)) : (c \o b)[j] = IF j <= 1 THEN c[j] ELSE b[j - 1]
  <2>1. c \in Seq(X) /\ b \in Seq(X)
    BY <1>4, <1>5
  <2>2. /\ c \o b \in Seq(X) /\ Len(c \o b) = Len(c) + Len(b)
        /\ \A j \in 1..(Len(c) + Len(b)) :
              (c \o b)[j] = IF j <= Len(c) THEN c[j] ELSE b[j - Len(c)]
    BY <2>1, ConcatProperties
  <2>3. Len(c) = 1 /\ Len(b) = n - i
    BY <1>4, <1>5
  <2> QED BY <2>2, <2>3
<1>7. ASSUME NEW j \in 1..Len(a) PROVE a[j] = (c \o b)[j]
  <2>1. j \in 1..(1 + (n - i))
    BY <1>1, <1>3
  <2>2. CASE j = 1
    <3>1. a[j] = z[i + 1 - 1] /\ i + 1 - 1 = i
      BY <2>1, <2>2, <1>1, <1>3
    <3> QED BY <3>1, <2>1, <2>2, <1>5, <1>6
  <2>3. CASE j # 1
    <3>1. j - 1 \in 1..(n - i) /\ i + 1 + (j - 1) - 1 = i + j - 1 /\ ~(j <= 1)
      BY <2>1, <2>3, <1>1
    <3>2. b[j - 1] = z[i + j - 1]
      BY <3>1, <1>4
    <3>3. a[j] = z[i + j - 1]
      BY <2>1, <1>1, <1>3
    <3> QED BY <3>1, <3>2, <3>3, <2>1, <1>6
  <2> QED BY <2>2, <2>3
<1>8. Len(a) = Len(c \o b)
  BY <1>1, <1>3, <1>6
<1>9. a = c \o b
  BY <1>3, <1>6, <1>7, <1>8, SeqEqual
<1> QED BY <1>9 DEF a, b, c, n

\* What output_c_string writes between the quotes.
Escapes(z) == [i \in DOMAIN z |-> Escaped(z[i])]

LEMMA EscapesTyped ==
    ASSUME NEW z \in Seq(Char)
    PROVE  /\ Escapes(z) \in Seq(Characters) /\ Len(Escapes(z)) = Len(z)
           /\ \A i \in 1..Len(z) : Escapes(z)[i] = Escaped(z[i])
<1>1. Len(z) \in Nat /\ DOMAIN z = 1..Len(z)
  OBVIOUS
<1>2. \A i \in 1..Len(z) : Escaped(z[i]) \in Characters
  <2> TAKE i \in 1..Len(z)
  <2>1. z[i] \in Char
    BY ElementOfSeq
  <2> QED BY <2>1, EscapedTyped
<1>3. Escapes(z) \in [1..Len(z) -> Characters]
  BY <1>1, <1>2 DEF Escapes
<1>4. Escapes(z) \in Seq(Characters) /\ Len(Escapes(z)) = Len(z)
  BY <1>1, <1>3, SeqMadeOf
<1> QED BY <1>1, <1>4 DEF Escapes

LEMMA EscapesPlaces ==
    ASSUME NEW z \in Seq(Char)
    PROVE  Laid(Escapes(z), Char)
<1> DEFINE W == Characters
<1>1. W = Seq(Char) /\ Escapes(z) \in Seq(W)
  BY EscapesTyped DEF Characters
<1> HIDE DEF W
<1> QED BY <1>1, FlattenPlaces

\* Resolving the backslashes undoes the escapes.
LEMMA EscapesResolve ==
    ASSUME NEW z \in Seq(Char)
    PROVE  ResolveBackslashes(FlattenSeq(Escapes(z))) = z
<1> DEFINE n == Len(z)
           s == Escapes(z)
           w == FlattenSeq(s)
           r == ResolveOf(w)
<1>1. n \in Nat /\ \A k \in 1..n : z[k] \in Char
  BY ElementOfSeq
<1>2. Len(s) = n /\ \A k \in 1..n : s[k] = Escaped(z[k])
  BY EscapesTyped
<1>3. Laid(s, Char)
  BY EscapesPlaces
<1>4. w \in Seq(Char) /\ \E p : Places(s, w, p)
  BY <1>3 DEF Laid
<1>5. PICK p : Places(s, w, p)
  BY <1>4
<1>6. Resolves(w, r)
  BY <1>4, ResolveOfIs
<1>7. ResolveBackslashes(w) = r[1]
  BY ResolveIs
<1>71. /\ z = SubSeq(z, 1, n) /\ SubSeq(z, n + 1, n) = <<>>
  OBVIOUS
<1>72. \A i \in 1..n : SubSeq(z, i, n) = <<z[i]>> \o SubSeq(z, i + 1, n)
  BY RestFrom
<1> HIDE DEF w, r, s, n
<1>8. /\ p \in [0..n -> Nat] /\ p[0] = 0 /\ p[n] = Len(w)
      /\ \A k \in 1..n : p[k] = p[k - 1] + Len(Escaped(z[k]))
      /\ \A k \in 1..n : \A j \in 1..Len(Escaped(z[k])) :
            p[k - 1] + j \in 1..Len(w) /\ w[p[k - 1] + j] = Escaped(z[k])[j]
  BY <1>2, <1>5 DEF Places
<1>9. /\ r[Len(w) + 1] = <<>>
      /\ \A i \in 1..Len(w) : r[i] = Unescaped(w, i).text \o r[Unescaped(w, i).next]
  BY <1>6 DEF Resolves
<1> DEFINE S == {k \in 0..n : r[p[k] + 1] = SubSeq(z, k + 1, n)}
<1>10. \A k \in 0..n : (\A l \in (k + 1)..n : l \in S) => k \in S
  <2> SUFFICES ASSUME NEW k \in 0..n, \A l \in (k + 1)..n : l \in S
               PROVE  r[p[k] + 1] = SubSeq(z, k + 1, n)
    OBVIOUS
  <2>1. CASE k = n
    BY <2>1, <1>71, <1>8, <1>9
  <2>2. CASE k # n
    <3> DEFINE c == z[k + 1]
               i == p[k] + 1
    <3>1. k + 1 \in 1..n /\ k + 1 \in (k + 1)..n /\ (k + 1) - 1 = k /\ k + 1 \in 0..n
      BY <2>2, <1>1
    <3>2. c \in Char /\ p[k] \in Nat /\ p[k + 1] = p[k] + Len(Escaped(c))
      BY <3>1, <1>1, <1>8
    <3>3. \A j \in 1..Len(Escaped(c)) : p[k] + j \in 1..Len(w) /\ w[p[k] + j] = Escaped(c)[j]
      BY <3>1, <1>8
    <3>4. Len(Escaped(c)) \in Nat /\ 1 \in 1..Len(Escaped(c))
      BY DEF Escaped
    <3>5. i \in 1..Len(w)
      BY <3>3, <3>4
    <3>6. WrittenAt(w, i, c)
      <4> SUFFICES ASSUME NEW j \in 1..Len(Escaped(c))
                   PROVE  i + j - 1 \in 1..Len(w) /\ w[i + j - 1] = Escaped(c)[j]
        BY DEF WrittenAt
      <4>1. i + j - 1 = p[k] + j
        BY <3>2, <3>4
      <4> QED BY <4>1, <3>3
    <3> HIDE DEF i, c
    <3>7. Unescaped(w, i) = [text |-> <<c>>, next |-> i + Len(Escaped(c))]
      BY <1>4, <3>2, <3>5, <3>6, EscapedReads
    <3>8. i + Len(Escaped(c)) = p[k + 1] + 1
      BY <3>2, <3>4 DEF i
    <3>9. r[i] = <<c>> \o r[p[k + 1] + 1]
      <4>1. Unescaped(w, i).text = <<c>> /\ Unescaped(w, i).next = i + Len(Escaped(c))
        BY <3>7
      <4>2. r[i] = Unescaped(w, i).text \o r[Unescaped(w, i).next]
        BY <3>5, <1>9
      <4> QED BY <4>1, <4>2, <3>8, Zenon
    <3>10. r[p[k + 1] + 1] = SubSeq(z, (k + 1) + 1, n)
      BY <3>1, <2>2
    <3> QED BY <3>1, <3>9, <3>10, <1>72 DEF i, c
  <2> QED BY <2>1, <2>2
<1>11. 0 \in S
  <2>1. 0 \in 0..n /\ 0 \in Nat
    BY <1>1
  <2> HIDE DEF S
  <2>2. \A k \in 0..n : k \in S
    BY <1>1, <1>10, <2>1, BackwardInduction
  <2> QED BY <2>1, <2>2
<1>12. r[1] = SubSeq(z, 1, n)
  <2>1. r[p[0] + 1] = SubSeq(z, 0 + 1, n) /\ 0 + 1 = 1
    BY <1>11
  <2> QED BY <2>1, <1>8
<1> QED BY <1>7, <1>71, <1>12 DEF w, s

\* No quote comes into the text by escaping.
LEMMA EscapesUnquoted ==
    ASSUME NEW z \in Seq(Char), \A i \in 1..Len(z) : z[i] # Quote
    PROVE  \A i \in 1..Len(FlattenSeq(Escapes(z))) : FlattenSeq(Escapes(z))[i] # Quote
<1> DEFINE s == Escapes(z)
           w == FlattenSeq(s)
<1>1. Len(s) = Len(z) /\ \A k \in 1..Len(z) : (s[k] = Escaped(z[k]) /\ z[k] \in Char)
  BY EscapesTyped, ElementOfSeq
<1>2. Laid(s, Char)
  BY EscapesPlaces
<1> HIDE DEF s
<1>3. PICK p : Places(s, w, p)
  BY <1>2 DEF Laid
<1> HIDE DEF w
<1> SUFFICES ASSUME NEW i \in 1..Len(w) PROVE w[i] # Quote
  BY DEF w, s
<1>4. PICK k \in 1..Len(s) : \E j \in 1..Len(s[k]) : i = p[k - 1] + j
  BY <1>3 DEF Places
<1>41. PICK j \in 1..Len(s[k]) : i = p[k - 1] + j
  BY <1>4
<1>5. w[i] = s[k][j]
  BY <1>3, <1>41 DEF Places
<1>6. s[k] = Escaped(z[k]) /\ z[k] \in Char /\ z[k] # Quote
  BY <1>1
<1>7. j \in 1..Len(Escaped(z[k]))
  BY <1>6
<1> QED BY <1>5, <1>6, <1>7, EscapedTyped
-----------------------------------------------------------------------------
(* The words of a line.                                                      *)

LEMMA FirstOfIn ==
    ASSUME NEW X, NEW z \in Seq(X), NEW i \in 1..(Len(z) + 1), NEW S
    PROVE  /\ FirstOf(z, i, S) \in i..(Len(z) + 1)
           /\ \A j \in i..Len(z) :
                 z[j] \in S /\ (\A k \in i..(j - 1) : z[k] \notin S) => FirstOf(z, i, S) = j
<1> DEFINE n == Len(z)
           found == {j \in i..n : z[j] \in S}
           first == CHOOSE j \in found : \A k \in found : j <= k
<1>1. n \in Nat /\ found \subseteq Nat
  OBVIOUS
<1>2. FirstOf(z, i, S) = IF found = {} THEN n + 1 ELSE first
  BY DEF FirstOf
<1>3. found # {} => first \in found /\ \A k \in found : first <= k
  <2> SUFFICES ASSUME found # {} PROVE first \in found /\ \A k \in found : first <= k
    OBVIOUS
  <2> HIDE DEF found
  <2>1. \E j \in found : \A k \in found : j <= k
    BY <1>1, LeastElement
  <2> QED BY <2>1
<1> HIDE DEF first, n
<1>4. FirstOf(z, i, S) \in i..(n + 1)
  <2>1. i \in 1..(n + 1) /\ n + 1 \in i..(n + 1)
    BY <1>1 DEF n
  <2>2. \A j \in found : j \in i..(n + 1)
    BY <1>1, <2>1
  <2>3. CASE found = {}
    BY <2>1, <2>3, <1>2
  <2>4. CASE found # {}
    <3> HIDE DEF found
    <3> QED BY <2>2, <2>4, <1>2, <1>3
  <2> QED BY <2>3, <2>4
<1>5. ASSUME NEW j \in i..n, z[j] \in S, \A k \in i..(j - 1) : z[k] \notin S
      PROVE  FirstOf(z, i, S) = j
  <2>1. j \in found
    BY <1>5
  <2>2. first <= j /\ first \in i..n /\ z[first] \in S
    BY <2>1, <1>3
  <2>3. ~(first < j)
    BY <1>1, <1>5, <2>2
  <2> QED BY <1>1, <1>2, <2>1, <2>2, <2>3
<1> QED BY <1>4, <1>5 DEF n

LEMMA WordPlaces ==
    ASSUME NEW line \in Seq(Char), NEW i \in 1..(Len(line) + 2)
    PROVE  /\ WordStart(line, i) \in Nat /\ WordStart(line, i) >= i
           /\ WordStart(line, i) <= Len(line) =>
                 /\ TextStart(line, WordStart(line, i)) \in 1..(Len(line) + 1)
                 /\ TextEnd(line, WordStart(line, i)) + 1 \in (i + 1)..(Len(line) + 2)
                 /\ Word(line, WordStart(line, i)) \in Characters
<1> DEFINE n == Len(line)
           space == {j \in i..n : \A k \in i..j : line[k] \in White}
           start == WordStart(line, i)
<1>1. n \in Nat /\ i \in Nat /\ i \in 1..(n + 2)
  OBVIOUS
<1>2. Cardinality(space) \in Nat
  <2>1. IsFiniteSet(i..n)
    BY <1>1, FS_Interval
  <2>2. space \subseteq i..n
    OBVIOUS
  <2> HIDE DEF space
  <2> QED BY <2>1, <2>2, FS_Subset, FS_CardinalityType
<1>3. start = i + Cardinality(space)
  BY DEF WordStart
<1> HIDE DEF space, start
<1>4. start \in Nat /\ start >= i
  BY <1>1, <1>2, <1>3
<1> DEFINE from == TextStart(line, start)
           to == TextEnd(line, start)
<1>5. ASSUME start <= n
      PROVE  from \in 1..(n + 1) /\ to + 1 \in (i + 1)..(n + 2) /\ Word(line, start) \in Characters
  <2>1. from \in {start, start + 1}
    BY DEF TextStart
  <2>2. from \in 1..(n + 1)
    BY <2>1, <1>1, <1>4, <1>5
  <2>3. to = FirstOf(line, from, IF line[start] \in Delims THEN {line[start]} ELSE White)
    BY DEF TextEnd
  <2> DEFINE S == IF line[start] \in Delims THEN {line[start]} ELSE White
  <2> HIDE DEF from, to, n, S
  <2>4. to \in from..(n + 1)
    <3>1. FirstOf(line, from, S) \in from..(Len(line) + 1)
      BY <2>2, FirstOfIn DEF n
    <3> QED BY <3>1, <2>3 DEF n, S
  <2>5. to + 1 \in (i + 1)..(n + 2)
    BY <2>1, <2>2, <2>4, <1>1, <1>4
  <2>6. Word(line, start) \in Characters
    <3> DEFINE text == SubSeq(line, from, to - 1)
    <3>1. from \in 1..(n + 1) /\ to - 1 \in 0..n
      BY <2>2, <2>4, <1>1
    <3>2. text \in Seq(Char)
      <4>1. \A j \in from..(to - 1) : line[j] \in Char
        <5> TAKE j \in from..(to - 1)
        <5>1. j \in 1..Len(line)
          BY <3>1, <1>1 DEF n
        <5> QED BY <5>1, ElementOfSeq
      <4>2. from \in Int /\ to - 1 \in Int
        BY <3>1, <1>1
      <4> QED BY <4>1, <4>2, SubSeqProperties
    <3>3. Word(line, start) \in {text, ResolveBackslashes(text)}
      BY DEF Word, from, to
    <3> HIDE DEF text
    <3> QED BY <3>2, <3>3, ResolveTyped DEF Characters
  <2> QED BY <2>2, <2>5, <2>6
<1> QED BY <1>4, <1>5 DEF start, n, from, to

\* The recursive function in MetaArgs.
ArgsOf(line) ==
    CHOOSE a : a = [i \in 1..(Len(line) + 2) |->
        IF WordStart(line, i) > Len(line) THEN <<>>
        ELSE <<Word(line, WordStart(line, i))>> \o a[TextEnd(line, WordStart(line, i)) + 1]]

LEMMA MetaArgsAre == \A line : MetaArgs(line) = ArgsOf(line)[1]
BY DEF MetaArgs, ArgsOf

TextLists == Seq(Characters)

SplitsInto(line, a) ==
    /\ a \in [1..(Len(line) + 2) -> TextLists]
    /\ \A i \in 1..(Len(line) + 2) :
          a[i] = IF WordStart(line, i) > Len(line) THEN <<>>
                 ELSE <<Word(line, WordStart(line, i))>> \o a[TextEnd(line, WordStart(line, i)) + 1]

LEMMA ArgsOfAre ==
    ASSUME NEW line \in Seq(Char)
    PROVE  SplitsInto(line, ArgsOf(line))
<1> DEFINE n == Len(line)
           e == n + 2
           V == TextLists
           stop == {i \in 1..e : WordStart(line, i) > n}
           word == [i \in 1..e |-> Word(line, WordStart(line, i))]
           jump == [i \in 1..e |-> TextEnd(line, WordStart(line, i)) + 1]
           w == [i \in 1..e |-> <<>>]
           step == [p \in (1..e) \X V |-> IF p[1] \in stop THEN <<>> ELSE <<word[p[1]]>> \o p[2]]
           Is(a) == a = [i \in 1..e |->
                IF WordStart(line, i) > n THEN <<>>
                ELSE <<Word(line, WordStart(line, i))>> \o a[TextEnd(line, WordStart(line, i)) + 1]]
           Does(a) == /\ DOMAIN a = 1..e /\ a = [i \in 1..e |-> a[i]]
                      /\ \A i \in 1..e :
                            a[i] = IF i \in stop THEN <<>> ELSE <<word[i]>> \o a[jump[i]]
<1>1. n \in Nat /\ e \in Nat /\ 1 \in Nat
  OBVIOUS
<1>2. \A i \in 1..e : i \notin stop => jump[i] \in (i + 1)..e /\ word[i] \in Characters
  <2> SUFFICES ASSUME NEW i \in 1..e, ~(WordStart(line, i) > n)
               PROVE  /\ TextEnd(line, WordStart(line, i)) + 1 \in (i + 1)..e
                      /\ Word(line, WordStart(line, i)) \in Characters
    OBVIOUS
  <2>1. WordStart(line, i) \in Nat /\ i \in 1..(Len(line) + 2)
    BY WordPlaces
  <2>2. WordStart(line, i) <= Len(line)
    BY <2>1, <1>1
  <2> QED BY <2>2, WordPlaces
<1>3. \A b \in V, c \in V : b \o c \in V
  <2> DEFINE T == Characters
  <2>1. V = Seq(T)
    BY DEF TextLists
  <2> HIDE DEF V, T
  <2> QED BY <2>1, ConcatProperties
<1>4. <<>> \in V /\ \A x \in Characters : <<x>> \in V
  <2> DEFINE T == Characters
  <2>1. V = Seq(T)
    BY DEF TextLists
  <2> HIDE DEF V, T
  <2>2. <<>> \in Seq(T)
    OBVIOUS
  <2>3. \A x \in T : <<x>> \in Seq(T)
    BY OneElement
  <2> QED BY <2>1, <2>2, <2>3 DEF T
<1>5. ArgsOf(line) = CHOOSE a : Is(a)
  BY DEF ArgsOf
<1>6. \A a : Is(a) => Does(a)
  <2> SUFFICES ASSUME NEW a, Is(a) PROVE Does(a)
    OBVIOUS
  <2>1. DOMAIN a = 1..e /\ a = [i \in 1..e |-> a[i]]
    OBVIOUS
  <2>2. ASSUME NEW i \in 1..e
        PROVE  a[i] = IF i \in stop THEN <<>> ELSE <<word[i]>> \o a[jump[i]]
    <3>1. a[i] = IF WordStart(line, i) > n THEN <<>>
                 ELSE <<Word(line, WordStart(line, i))>> \o a[TextEnd(line, WordStart(line, i)) + 1]
      OBVIOUS
    <3> HIDE DEF Is
    <3> QED BY <3>1
  <2> HIDE DEF Is
  <2> QED BY <2>1, <2>2
<1>7. \A a : Does(a) => Is(a)
  <2> SUFFICES ASSUME NEW a, Does(a) PROVE Is(a)
    OBVIOUS
  <2>1. a = [i \in 1..e |-> a[i]]
    OBVIOUS
  <2>2. ASSUME NEW i \in 1..e
        PROVE  a[i] = IF WordStart(line, i) > n THEN <<>>
                 ELSE <<Word(line, WordStart(line, i))>> \o a[TextEnd(line, WordStart(line, i)) + 1]
    <3>1. a[i] = IF i \in stop THEN <<>> ELSE <<word[i]>> \o a[jump[i]]
      OBVIOUS
    <3> QED BY <3>1
  <2> HIDE DEF Does
  <2> QED BY <2>1, <2>2
<1>8. w \in [1..e -> V] /\ \A i \in 1..e : w[i] = <<>>
  BY <1>4
<1> HIDE DEF Is, w, word, jump, V, n
<1>9. step \in [(1..e) \X V -> V]
  <2>1. ASSUME NEW p \in (1..e) \X V
        PROVE  (IF p[1] \in stop THEN <<>> ELSE <<word[p[1]]>> \o p[2]) \in V
    <3>1. p[1] \in 1..e /\ p[2] \in V
      OBVIOUS
    <3> HIDE DEF stop, e
    <3>2. CASE p[1] \in stop
      BY <3>2, <1>4
    <3>3. CASE p[1] \notin stop
      BY <3>1, <3>3, <1>2, <1>3, <1>4
    <3> QED BY <3>2, <3>3
  <2> HIDE DEF stop, e
  <2> QED BY <2>1
<1>10. \A i \in 1..e, v \in V :
         step[<<i, v>>] = IF i \in stop THEN <<>> ELSE <<word[i]>> \o v
  OBVIOUS
<1> HIDE DEF stop, step
<1>11. Jumps(1, e, stop, jump)
  BY <1>2 DEF Jumps
<1>12. PICK a \in [1..e -> V] : Follows(1, e, stop, w, jump, step, a)
  <2> HIDE DEF e
  <2> QED BY <1>1, <1>8, <1>9, <1>11, BackwardRecursion
<1> HIDE DEF e
<1>13. Does(a)
  <2>1. ASSUME NEW i \in 1..e
        PROVE  a[i] = IF i \in stop THEN <<>> ELSE <<word[i]>> \o a[jump[i]]
    <3>1. a[i] = IF i \in stop THEN w[i] ELSE step[<<i, a[jump[i]]>>]
      BY <1>12 DEF Follows
    <3>2. CASE i \in stop
      BY <3>1, <3>2, <1>8
    <3>3. CASE i \notin stop
      <4>1. jump[i] \in 1..e
        BY <3>3, <1>1, <1>2
      <4>2. a[jump[i]] \in V
        BY <4>1, <1>12
      <4> QED BY <3>1, <3>3, <4>2, <1>10
    <3> QED BY <3>2, <3>3
  <2> QED BY <2>1, <1>12
<1> DEFINE q == CHOOSE f : Is(f)
<1>14. Is(q)
  <2>1. Is(a)
    <3> HIDE DEF Does
    <3> QED BY <1>7, <1>13
  <2> QED BY <2>1, Zenon
<1> HIDE DEF q
<1>15. Does(q)
  <2> HIDE DEF Does
  <2> QED BY <1>6, <1>14
<1> DEFINE S == {i \in 1..e : q[i] \in V}
<1>16. \A i \in 1..e : i \in S
  <2>1. ASSUME NEW i \in 1..e, \A j \in (i + 1)..e : j \in S PROVE i \in S
    <3>1. q[i] = IF i \in stop THEN <<>> ELSE <<word[i]>> \o q[jump[i]]
      BY <1>15
    <3>2. CASE i \in stop
      BY <3>1, <3>2, <1>4
    <3>3. CASE i \notin stop
      <4>1. jump[i] \in (i + 1)..e /\ <<word[i]>> \in V
        BY <3>3, <1>2, <1>4
      <4>2. q[jump[i]] \in V
        BY <4>1, <2>1
      <4> QED BY <3>1, <3>3, <4>1, <4>2, <1>3
    <3> QED BY <3>2, <3>3
  <2> HIDE DEF S, Does
  <2> QED BY <1>1, <2>1, BackwardInduction
<1>17. q \in [1..e -> V]
  <2>1. \A i \in 1..e : q[i] \in V
    BY <1>16
  <2> QED BY <2>1, <1>15
<1>18. ASSUME NEW i \in 1..e
       PROVE  q[i] = IF WordStart(line, i) > n THEN <<>>
                     ELSE <<Word(line, WordStart(line, i))>> \o q[TextEnd(line, WordStart(line, i)) + 1]
  BY <1>14 DEF Is
<1> HIDE DEF Does
<1>19. ArgsOf(line) = q
  BY <1>5 DEF q
<1> QED BY <1>17, <1>18, <1>19 DEF SplitsInto, n, e, V

LEMMA MetaArgsTyped ==
    ASSUME NEW line \in Seq(Char)
    PROVE  MetaArgs(line) \in TextLists
<1>1. SplitsInto(line, ArgsOf(line))
  BY ArgsOfAre
<1>2. 1 \in 1..(Len(line) + 2)
  OBVIOUS
<1> QED BY <1>1, <1>2, MetaArgsAre DEF SplitsInto

\* A text between double quotes without one inside is one word.
LEMMA QuotedWord ==
    ASSUME NEW w \in Seq(Char), \A i \in 1..Len(w) : w[i] # Quote
    PROVE  MetaArgs(<<Quote>> \o w \o <<Quote>>) = <<ResolveBackslashes(w)>>
<1> DEFINE q == <<Quote>>
           line == q \o w \o q
           n == Len(w)
           a == ArgsOf(line)
<1>0. Quote \in Char
  BY CharAssumption DEF CharAssumption, Delims
<1>1. q \in Seq(Char) /\ Len(q) = 1 /\ q[1] = Quote /\ n \in Nat
  BY <1>0
<1>2. /\ line \in Seq(Char) /\ Len(line) = n + 2
      /\ line[1] = Quote /\ line[n + 2] = Quote /\ \A j \in 1..n : line[j + 1] = w[j]
  <2> HIDE DEF q, n
  <2> DEFINE u == q \o w
  <2>1. /\ u \in Seq(Char) /\ Len(u) = 1 + n
        /\ \A j \in 1..(1 + n) : u[j] = IF j <= 1 THEN q[j] ELSE w[j - 1]
    <3>1. /\ u \in Seq(Char) /\ Len(u) = Len(q) + Len(w)
          /\ \A j \in 1..(Len(q) + Len(w)) : u[j] = IF j <= Len(q) THEN q[j] ELSE w[j - Len(q)]
      BY <1>1, ConcatProperties
    <3> QED BY <3>1, <1>1 DEF n
  <2> HIDE DEF u
  <2>2. /\ line \in Seq(Char) /\ Len(line) = n + 2
        /\ \A j \in 1..(n + 2) : line[j] = IF j <= 1 + n THEN u[j] ELSE q[j - (1 + n)]
    <3>1. /\ u \o q \in Seq(Char) /\ Len(u \o q) = Len(u) + Len(q)
          /\ \A j \in 1..(Len(u) + Len(q)) :
                (u \o q)[j] = IF j <= Len(u) THEN u[j] ELSE q[j - Len(u)]
      BY <1>1, <2>1, ConcatProperties
    <3>2. line = u \o q /\ Len(u) + Len(q) = n + 2
      BY <1>1, <2>1 DEF u
    <3> QED BY <3>1, <3>2, <1>1, <2>1
  <2> HIDE DEF line
  <2>3. line[1] = Quote
    <3>1. 1 \in 1..(n + 2) /\ 1 <= 1 + n /\ 1 \in 1..(1 + n)
      BY <1>1
    <3> QED BY <3>1, <1>1, <2>1, <2>2
  <2>4. line[n + 2] = Quote
    <3>1. n + 2 \in 1..(n + 2) /\ ~(n + 2 <= 1 + n) /\ n + 2 - (1 + n) = 1
      BY <1>1
    <3> QED BY <3>1, <1>1, <2>2
  <2>5. ASSUME NEW j \in 1..n PROVE line[j + 1] = w[j]
    <3>1. j + 1 \in 1..(n + 2) /\ j + 1 <= 1 + n /\ j + 1 \in 1..(1 + n) /\ ~(j + 1 <= 1) /\ j + 1 - 1 = j
      BY <1>1
    <3> QED BY <3>1, <2>1, <2>2
  <2> QED BY <2>2, <2>3, <2>4, <2>5
<1>3. SplitsInto(line, a)
  BY <1>2, ArgsOfAre
<1>4. MetaArgs(line) = a[1]
  BY MetaArgsAre
<1> HIDE DEF q, line, a, n
<1>5. Quote \in Delims /\ Quote \notin White
  BY DEF Delims, White, Quote
<1>6. WordStart(line, 1) = 1
  <2>1. ASSUME NEW j \in 1..Len(line) PROVE ~(\A k \in 1..j : line[k] \in White)
    <3>1. 1 \in 1..j
      OBVIOUS
    <3> QED BY <3>1, <1>2, <1>5
  <2>2. {j \in 1..Len(line) : \A k \in 1..j : line[k] \in White} = {}
    BY <2>1
  <2>3. Cardinality({}) = 0
    BY FS_EmptySet
  <2>4. WordStart(line, 1) = 1 + Cardinality({})
    BY <2>2, Zenon DEF WordStart
  <2> QED BY <2>3, <2>4
<1>7. TextStart(line, 1) = 2
  BY <1>2, <1>5 DEF TextStart
<1>8. TextEnd(line, 1) = n + 2
  <2>1. TextEnd(line, 1) = FirstOf(line, 2, {Quote})
    BY <1>2, <1>5, <1>7 DEF TextEnd
  <2>2. ASSUME NEW k \in 2..((n + 2) - 1) PROVE line[k] \notin {Quote}
    <3>1. k - 1 \in 1..n /\ (k - 1) + 1 = k
      BY <1>1
    <3>2. line[k] = w[k - 1]
      BY <3>1, <1>2
    <3> QED BY <3>1, <3>2 DEF n
  <2>3. n + 2 \in 2..Len(line) /\ 2 \in 1..(Len(line) + 1) /\ line[n + 2] \in {Quote}
    BY <1>1, <1>2
  <2>4. FirstOf(line, 2, {Quote}) = n + 2
    BY <1>2, <2>2, <2>3, FirstOfIn
  <2> QED BY <2>1, <2>4
<1>9. SubSeq(line, 2, (n + 2) - 1) = w
  <2> DEFINE t == SubSeq(line, 2, (n + 2) - 1)
  <2>1. \A j \in 2..((n + 2) - 1) : line[j] \in Char
    <3> TAKE j \in 2..((n + 2) - 1)
    <3>1. j \in 1..Len(line)
      BY <1>1, <1>2
    <3> QED BY <3>1, <1>2, ElementOfSeq
  <2>2. 2 \in Int /\ (n + 2) - 1 \in Int
    BY <1>1
  <2>3. /\ t \in Seq(Char) /\ Len(t) = IF 2 <= (n + 2) - 1 THEN ((n + 2) - 1) - 2 + 1 ELSE 0
        /\ \A j \in 1..(((n + 2) - 1) - 2 + 1) : t[j] = line[2 + j - 1]
    BY <2>1, <2>2, SubSeqProperties
  <2> HIDE DEF t
  <2>4. Len(t) = n /\ \A j \in 1..n : t[j] = w[j]
    <3>1. ((n + 2) - 1) - 2 + 1 = n /\ (~(2 <= (n + 2) - 1) => n = 0)
      BY <1>1
    <3>2. \A j \in 1..n : 2 + j - 1 = j + 1
      BY <1>1
    <3> QED BY <3>1, <3>2, <2>3, <1>2
  <2> QED BY <2>3, <2>4, SeqEqual DEF t, n
<1>10. Word(line, 1) = ResolveBackslashes(w)
  <2>1. line[1] # "'"
    BY <1>2 DEF Quote
  <2> QED BY <2>1, <1>7, <1>8, <1>9 DEF Word
<1>11. WordStart(line, (n + 2) + 1) = (n + 2) + 1
  <2>1. {j \in ((n + 2) + 1)..Len(line) : \A k \in ((n + 2) + 1)..j : line[k] \in White} = {}
    BY <1>1, <1>2
  <2> QED BY <2>1, <1>1, FS_EmptySet DEF WordStart
<1>12. a[(n + 2) + 1] = <<>>
  <2>1. (n + 2) + 1 \in 1..(Len(line) + 2) /\ (n + 2) + 1 > Len(line)
    BY <1>1, <1>2
  <2> QED BY <2>1, <1>3, <1>11 DEF SplitsInto
<1>13. a[1] = <<ResolveBackslashes(w)>> \o <<>>
  <2>1. 1 \in 1..(Len(line) + 2) /\ ~(1 > Len(line))
    BY <1>1, <1>2
  <2>2. a[1] = <<Word(line, 1)>> \o a[TextEnd(line, 1) + 1]
    BY <2>1, <1>3, <1>6 DEF SplitsInto
  <2> QED BY <2>2, <1>8, <1>10, <1>12
<1>14. <<ResolveBackslashes(w)>> \o <<>> = <<ResolveBackslashes(w)>>
  <2> DEFINE x == ResolveBackslashes(w)
  <2>1. <<x>> \in Seq({x})
    BY OneElement
  <2> HIDE DEF x
  <2>2. <<x>> \o <<>> = <<x>>
    BY <2>1, ConcatEmptySeq
  <2> QED BY <2>2 DEF x
<1> QED BY <1>4, <1>13, <1>14 DEF line, q
-----------------------------------------------------------------------------
(* .show.                                                                    *)

\* Texts that have room in their field.
Fits(z) == z \in Characters /\ Len(z) < FieldSize
TextInv == Fits(separator) /\ Fits(nullvalue)

\* What is kept of an argument has room, and what has room is kept whole.
LEMMA FittedText ==
    ASSUME NEW z \in Characters
    PROVE  Fits(Fitted(z)) /\ (Fits(z) => Fitted(z) = z)
<1> DEFINE n == IF Len(z) < FieldSize THEN Len(z) ELSE FieldSize - 1
<1>1. z \in Seq(Char) /\ Len(z) \in Nat /\ FieldSize \in Nat /\ FieldSize >= 2
  BY SizeAssumption DEF Characters, SizeAssumption
<1>2. n \in Nat /\ n < FieldSize /\ n <= Len(z) /\ (Len(z) < FieldSize => n = Len(z))
  BY <1>1
<1>3. Fitted(z) = SubSeq(z, 1, n)
  BY DEF Fitted
<1> HIDE DEF n
<1>4. SubSeq(z, 1, n) \in Seq(Char) /\ Len(SubSeq(z, 1, n)) = n
  BY <1>1, <1>2
<1>5. SubSeq(z, 1, Len(z)) = z
  BY <1>1
<1> QED BY <1>1, <1>2, <1>3, <1>4, <1>5 DEF Fits, Characters

LEMMA ShownReadsBack ==
    ASSUME NEW z \in Characters, \A i \in DOMAIN z : z[i] # Quote
    PROVE  MetaArgs(CString(z)) = <<z>>
<1> DEFINE w == FlattenSeq(Escapes(z))
<1>1. z \in Seq(Char) /\ DOMAIN z = 1..Len(z)
  BY DEF Characters
<1>2. \A i \in 1..Len(z) : z[i] # Quote
  BY <1>1
<1>3. w \in Seq(Char)
  BY <1>1, EscapesPlaces DEF Laid
<1>4. \A i \in 1..Len(w) : w[i] # Quote
  BY <1>1, <1>2, EscapesUnquoted
<1>5. ResolveBackslashes(w) = z
  BY <1>1, EscapesResolve
<1>6. CString(z) = <<Quote>> \o w \o <<Quote>>
  BY DEF CString, Escapes
<1> HIDE DEF w
<1>7. MetaArgs(<<Quote>> \o w \o <<Quote>>) = <<ResolveBackslashes(w)>>
  BY <1>3, <1>4, QuotedWord
<1> QED BY <1>5, <1>6, <1>7

LEMMA TextInvShows == TextInv => ShowReadsBack
<1> SUFFICES ASSUME TextInv, NEW z \in {separator, nullvalue}, \A i \in DOMAIN z : z[i] # Quote
             PROVE  MetaArgs(CString(z)) = <<z>> /\ Fitted(z) = z
  BY DEF ShowReadsBack
<1>1. z \in Characters /\ Fits(z)
  BY DEF TextInv, Fits
<1> QED BY <1>1, ShownReadsBack, FittedText

LEMMA SettingTexts ==
    Fits(<<"|">>) /\ Fits(<<",">>) /\ Fits(<<" ">>) /\ Fits(<<"tab">>) /\ Fits(<<>>)
<1>1. "|" \in Char /\ "," \in Char /\ " " \in Char /\ "tab" \in Char
  BY CharAssumption DEF CharAssumption, White
<1>2. \A c \in Char : <<c>> \in Characters /\ Len(<<c>>) = 1
  BY OneElement DEF Characters
<1>3. Len(<<>>) = 0 /\ 0 < FieldSize /\ 1 < FieldSize
  BY SizeAssumption DEF SizeAssumption
<1> QED BY <1>1, <1>2, <1>3, EmptyText DEF Fits

LEMMA InitTexts == Init => TextInv
BY SettingTexts DEF Init, TextInv

LEMMA ArgumentText ==
    ASSUME NEW arg \in SeparatorArg \cup NullArg
    PROVE  Head(MetaArgs(arg)) \in Characters
<1> DEFINE T == Characters
           a == MetaArgs(arg)
<1>1. arg \in Seq(Char) /\ Len(a) = 1
  BY ArgumentsAssumption DEF ArgumentsAssumption
<1>2. a \in Seq(T)
  BY <1>1, MetaArgsTyped DEF TextLists
<1> HIDE DEF T, a
<1>3. a[1] \in T /\ Head(a) = a[1]
  <2>1. 1 \in 1..Len(a) /\ a # <<>>
    BY <1>1, <1>2
  <2> QED BY <2>1, <1>2, ElementOfSeq
<1> QED BY <1>3 DEF T, a

LEMMA TextsStep == TextInv /\ [Next]_vars => TextInv'
<1> SUFFICES ASSUME TextInv, [Next]_vars PROVE TextInv'
  OBVIOUS
<1>1. CASE UNCHANGED <<separator, nullvalue>>
  BY <1>1 DEF TextInv
<1>2. ASSUME NEW m \in Modes, Mode(m) PROVE TextInv'
  <2>1. nullvalue' = nullvalue /\ separator' \in {<<" ">>, <<",">>, <<"tab">>, separator}
    BY <1>2 DEF Mode
  <2> QED BY <2>1, SettingTexts DEF TextInv
<1>3. ASSUME NEW arg \in SeparatorArg, Separator(arg) PROVE TextInv'
  BY <1>3, ArgumentText, FittedText DEF TextInv, Separator
<1>4. ASSUME NEW arg \in NullArg, NullValue(arg) PROVE TextInv'
  BY <1>4, ArgumentText, FittedText DEF TextInv, NullValue
<1> QED BY <1>1, <1>2, <1>3, <1>4 DEF Next, Command, vars, format, ModeInsert, Header, Width,
        ExplainOn, ExplainOff, Output, Log, Trace, Query

\* The separator and the null value can be given back as .show prints them, unless
\* there is a double quote in them.
THEOREM ShownSettings == Spec => []ShowReadsBack
BY InitTexts, TextsStep, TextInvShows, PTL DEF Spec
-----------------------------------------------------------------------------
(* Quotes.  Q[k] is 1 behind the k-th character if a quote q is open there.  *)
(* Outside quotes there is no character of C.                                *)

Quotes(f, q, C, b0, b1, Q) ==
    /\ Q \in [0..Len(f) -> 0..1] /\ Q[0] = b0 /\ Q[Len(f)] = b1
    /\ \A k \in 1..Len(f) : Q[k] = IF f[k] = q THEN 1 - Q[k - 1] ELSE Q[k - 1]
    /\ \A k \in 1..Len(f) : f[k] \in C => Q[k] = 1

Path(f, q, C, b0, b1) == \E Q : Quotes(f, q, C, b0, b1, Q)

LEMMA PathEnds ==
    ASSUME NEW f, Len(f) \in Nat, NEW q, NEW C, NEW b0, NEW b1, Path(f, q, C, b0, b1)
    PROVE  b0 \in 0..1 /\ b1 \in 0..1
<1>1. PICK Q : Quotes(f, q, C, b0, b1, Q)
  BY DEF Path
<1>2. 0 \in 0..Len(f) /\ Len(f) \in 0..Len(f)
  OBVIOUS
<1> QED BY <1>1, <1>2 DEF Quotes

LEMMA PathConcat ==
    ASSUME NEW X, NEW f \in Seq(X), NEW g \in Seq(X), NEW q, NEW C, NEW b0, NEW b1, NEW b2,
           Path(f, q, C, b0, b1), Path(g, q, C, b1, b2)
    PROVE  Path(f \o g, q, C, b0, b2)
<1> DEFINE h == f \o g
           m == Len(f)
           n == Len(g)
<1>1. PICK P : Quotes(f, q, C, b0, b1, P)
  BY DEF Path
<1>2. PICK R : Quotes(g, q, C, b1, b2, R)
  BY DEF Path
<1>3. /\ m \in Nat /\ n \in Nat /\ Len(h) = m + n
      /\ \A k \in 1..m : h[k] = f[k]
      /\ \A k \in 1..n : h[m + k] = g[k]
  BY ConcatProperties, LenProperties
<1>4. /\ P \in [0..m -> 0..1] /\ P[0] = b0 /\ P[m] = b1
      /\ \A k \in 1..m : P[k] = IF f[k] = q THEN 1 - P[k - 1] ELSE P[k - 1]
      /\ \A k \in 1..m : f[k] \in C => P[k] = 1
  BY <1>1 DEF Quotes
<1>5. /\ R \in [0..n -> 0..1] /\ R[0] = b1 /\ R[n] = b2
      /\ \A k \in 1..n : R[k] = IF g[k] = q THEN 1 - R[k - 1] ELSE R[k - 1]
      /\ \A k \in 1..n : g[k] \in C => R[k] = 1
  BY <1>2 DEF Quotes
<1> HIDE DEF h, m, n
<1> DEFINE Q == [k \in 0..(m + n) |-> IF k <= m THEN P[k] ELSE R[k - m]]
<1>6. Q \in [0..(m + n) -> 0..1]
  <2>1. ASSUME NEW k \in 0..(m + n) PROVE (IF k <= m THEN P[k] ELSE R[k - m]) \in 0..1
    <3>1. CASE k <= m
      <4>1. k \in 0..m
        BY <3>1, <1>3
      <4> QED BY <4>1, <3>1, <1>4
    <3>2. CASE ~(k <= m)
      <4>1. k - m \in 0..n
        BY <3>2, <1>3
      <4> QED BY <4>1, <3>2, <1>5
    <3> QED BY <3>1, <3>2
  <2> QED BY <2>1
<1>7. Q[0] = b0
  BY <1>3, <1>4
<1>8. Q[m + n] = b2
  <2>1. CASE n = 0
    BY <2>1, <1>3, <1>4, <1>5
  <2>2. CASE n # 0
    <3>1. m + n \in 0..(m + n) /\ ~(m + n <= m) /\ (m + n) - m = n
      BY <2>2, <1>3
    <3> QED BY <3>1, <1>5
  <2> QED BY <2>1, <2>2
<1>9. ASSUME NEW k \in 1..(m + n)
      PROVE  /\ Q[k] = IF h[k] = q THEN 1 - Q[k - 1] ELSE Q[k - 1]
             /\ h[k] \in C => Q[k] = 1
  <2>1. CASE k <= m
    <3>1. k \in 1..m /\ k \in 0..(m + n) /\ k - 1 \in 0..(m + n) /\ k - 1 <= m
      BY <2>1, <1>3
    <3>2. Q[k] = P[k] /\ Q[k - 1] = P[k - 1] /\ h[k] = f[k]
      BY <2>1, <3>1, <1>3
    <3> HIDE DEF Q
    <3> QED BY <3>1, <3>2, <1>4
  <2>2. CASE ~(k <= m)
    <3>1. /\ k - m \in 1..n /\ k \in 0..(m + n) /\ k - 1 \in 0..(m + n) /\ m + (k - m) = k
          /\ (k - m) - 1 = (k - 1) - m
      BY <2>2, <1>3
    <3>2. Q[k] = R[k - m] /\ h[k] = g[k - m]
      BY <2>2, <3>1, <1>3
    <3>3. Q[k - 1] = R[(k - m) - 1]
      <4>1. CASE k - 1 = m
        <5>1. Q[k - 1] = P[m] /\ (k - m) - 1 = 0
          BY <4>1, <3>1, <1>3
        <5> QED BY <5>1, <1>4, <1>5
      <4>2. CASE k - 1 # m
        <5>1. ~(k - 1 <= m)
          BY <4>2, <2>2, <1>3
        <5> QED BY <5>1, <3>1
      <4> QED BY <4>1, <4>2
    <3> HIDE DEF Q
    <3> QED BY <3>1, <3>2, <3>3, <1>5
  <2> QED BY <2>1, <2>2
<1> HIDE DEF Q
<1>10. Quotes(h, q, C, b0, b2, Q)
  BY <1>3, <1>6, <1>7, <1>8, <1>9 DEF Quotes
<1> QED BY <1>10 DEF Path, h

LEMMA PathEmpty ==
    ASSUME NEW q, NEW C, NEW b \in 0..1
    PROVE  Path(<<>>, q, C, b, b)
<1> DEFINE Q == [k \in 0..0 |-> b]
<1>1. Len(<<>>) = 0
  OBVIOUS
<1>2. Quotes(<<>>, q, C, b, b, Q)
  BY <1>1 DEF Quotes
<1> QED BY <1>2 DEF Path

\* A character that is not the quote, and the quote.
LEMMA PathOne ==
    ASSUME NEW c, NEW q, NEW C, NEW b \in 0..1, c # q, c \in C => b = 1
    PROVE  Path(<<c>>, q, C, b, b)
<1> DEFINE Q == [k \in 0..1 |-> b]
           f == <<c>>
<1>1. Len(f) = 1 /\ f[1] = c /\ \A k \in 1..1 : k = 1
  OBVIOUS
<1>2. Quotes(f, q, C, b, b, Q)
  BY <1>1 DEF Quotes
<1> QED BY <1>2 DEF Path

LEMMA PathQuote ==
    ASSUME NEW q, NEW C, NEW b \in 0..1, q \notin C
    PROVE  Path(<<q>>, q, C, b, 1 - b)
<1> DEFINE Q == [k \in 0..1 |-> IF k = 0 THEN b ELSE 1 - b]
           f == <<q>>
<1>1. Len(f) = 1 /\ f[1] = q /\ \A k \in 1..1 : k = 1
  OBVIOUS
<1>2. Q \in [0..1 -> 0..1] /\ Q[0] = b /\ Q[1] = 1 - b
  OBVIOUS
<1>3. Quotes(f, q, C, b, 1 - b, Q)
  BY <1>1, <1>2 DEF Quotes
<1> QED BY <1>3 DEF Path

LEMMA PathClear ==
    ASSUME NEW X, NEW f \in Seq(X), NEW q, NEW C, \A i \in 1..Len(f) : f[i] # q /\ f[i] \notin C
    PROVE  Path(f, q, C, 0, 0)
<1> DEFINE Q == [k \in 0..Len(f) |-> 0]
<1>1. Len(f) \in Nat
  OBVIOUS
<1>2. Quotes(f, q, C, 0, 0, Q)
  BY <1>1 DEF Quotes
<1> QED BY <1>2 DEF Path

\* Texts after which the quotes are as before.
AllPaths(s, q, C, b) == \A k \in 1..Len(s) : Path(s[k], q, C, b, b)

LEMMA PathFlatten ==
    ASSUME NEW X, NEW Words, Words = Seq(X), NEW s \in Seq(Words), NEW q, NEW C, NEW b \in 0..1,
           AllPaths(s, q, C, b)
    PROVE  Path(FlattenSeq(s), q, C, b, b)
<1> DEFINE n == Len(s)
<1>1. PICK f \in [0..n -> Words] : Piles(s, f) /\ FlattenSeq(s) = f[n]
  BY FlattenPiles
<1>2. f[0] = <<>> /\ \A k \in 1..n : f[k] = f[k - 1] \o s[k]
  BY <1>1 DEF Piles
<1>3. n \in Nat /\ \A k \in 1..n : s[k] \in Words /\ Path(s[k], q, C, b, b)
  BY ElementOfSeq DEF AllPaths
<1> HIDE DEF n
<1> DEFINE S == {k \in Nat : k <= n => Path(f[k], q, C, b, b)}
<1>4. 0 \in S
  BY <1>2, PathEmpty
<1>5. ASSUME NEW k \in Nat, k \in S PROVE k + 1 \in S
  <2> SUFFICES ASSUME k + 1 <= n PROVE Path(f[k + 1], q, C, b, b)
    OBVIOUS
  <2>1. k + 1 \in 1..n /\ (k + 1) - 1 = k /\ k \in 0..n /\ Path(f[k], q, C, b, b)
    BY <1>3, <1>5
  <2>2. f[k] \in Seq(X) /\ s[k + 1] \in Seq(X) /\ Path(s[k + 1], q, C, b, b)
    BY <2>1, <1>1, <1>3
  <2>3. Path(f[k] \o s[k + 1], q, C, b, b)
    BY <2>1, <2>2, PathConcat
  <2> QED BY <2>1, <2>3, <1>2
<1> HIDE DEF S
<1>6. n \in S
  BY <1>3, <1>4, <1>5, SimpleInduction
<1> QED BY <1>1, <1>3, <1>6 DEF S

LEMMA PairIs == \A q : <<q>> \o <<q>> = <<q, q>>
<1> TAKE q
<1> DEFINE f == <<q>>
           g == <<q, q>>
<1>1. f \in Seq({q}) /\ g \in Seq({q})
  BY OneElement, TwoElements
<1>2. Len(f) = 1 /\ f[1] = q /\ Len(g) = 2 /\ g[1] = q /\ g[2] = q
  OBVIOUS
<1> HIDE DEF f, g
<1>3. /\ f \o f \in Seq({q}) /\ Len(f \o f) = Len(f) + Len(f)
      /\ \A i \in 1..(Len(f) + Len(f)) :
            (f \o f)[i] = IF i <= Len(f) THEN f[i] ELSE f[i - Len(f)]
  BY <1>1, ConcatProperties
<1> DEFINE h == f \o f
<1>4. h \in Seq({q}) /\ Len(h) = 2 /\ h[1] = q /\ h[2] = q
  BY <1>2, <1>3
<1> HIDE DEF h
<1>5. \A i \in 1..Len(h) : h[i] = g[i]
  <2>1. \A i \in 1..2 : i = 1 \/ i = 2
    OBVIOUS
  <2> QED BY <2>1, <1>2, <1>4
<1>6. h = g
  BY <1>1, <1>2, <1>4, <1>5, SeqEqual
<1> QED BY <1>6 DEF f, g, h

\* A text between quotes, its own doubled.
LEMMA PathDoubled ==
    ASSUME NEW X, NEW z \in Seq(X), NEW q \in X, NEW C, q \notin C
    PROVE  Doubled(z, q) \in Seq(X) /\ Path(<<q>> \o Doubled(z, q) \o <<q>>, q, C, 0, 0)
<1> DEFINE Words == Seq(X)
           s == [i \in DOMAIN z |-> IF z[i] = q THEN <<q, q>> ELSE <<z[i]>>]
           n == Len(z)
           d == Doubled(z, q)
<1>1. n \in Nat /\ DOMAIN z = 1..n /\ \A i \in 1..n : z[i] \in X
  BY ElementOfSeq
<1>2. ASSUME NEW i \in 1..n
      PROVE  /\ (IF z[i] = q THEN <<q, q>> ELSE <<z[i]>>) \in Words
             /\ Path(IF z[i] = q THEN <<q, q>> ELSE <<z[i]>>, q, C, 1, 1)
  <2>1. CASE z[i] = q
    <3>1. <<q>> \in Seq(X) /\ <<q>> \o <<q>> = <<q, q>> /\ <<q, q>> \in Seq(X)
      <4>1. <<q>> \in Seq(X)
        BY OneElement
      <4>2. <<q, q>> \in Seq(X)
        BY TwoElements
      <4>3. <<q>> \o <<q>> = <<q, q>>
        BY PairIs
      <4> QED BY <4>1, <4>2, <4>3
    <3>2. 1 - 1 = 0 /\ 1 - 0 = 1 /\ 1 \in 0..1 /\ 0 \in 0..1
      OBVIOUS
    <3>3. Path(<<q>>, q, C, 1, 1 - 1) /\ Path(<<q>>, q, C, 0, 1 - 0)
      BY <3>2, PathQuote
    <3>4. Path(<<q>>, q, C, 1, 0) /\ Path(<<q>>, q, C, 0, 1)
      BY <3>2, <3>3
    <3>5. Path(<<q>> \o <<q>>, q, C, 1, 1)
      BY <3>1, <3>4, PathConcat
    <3> QED BY <2>1, <3>1, <3>5
  <2>2. CASE z[i] # q
    <3>1. 1 \in 0..1 /\ <<z[i]>> \in Seq(X)
      BY <1>1, OneElement
    <3>2. Path(<<z[i]>>, q, C, 1, 1)
      BY <2>2, <3>1, PathOne
    <3> QED BY <2>2, <3>1, <3>2
  <2> QED BY <2>1, <2>2
<1>3. s \in [1..n -> Words] /\ \A i \in 1..n : Path(s[i], q, C, 1, 1)
  BY <1>1, <1>2
<1>4. d = FlattenSeq(s)
  BY DEF Doubled
<1> HIDE DEF s, d, n
<1>5. s \in Seq(Words) /\ Len(s) = n
  BY <1>1, <1>3, SeqMadeOf
<1>6. AllPaths(s, q, C, 1)
  BY <1>3, <1>5 DEF AllPaths
<1> DEFINE W == Words
<1>7. d \in Seq(X) /\ Path(d, q, C, 1, 1)
  <2>1. W = Seq(X) /\ s \in Seq(W) /\ 1 \in 0..1
    BY <1>5
  <2> HIDE DEF W
  <2>2. Laid(s, X)
    BY <2>1, FlattenPlaces
  <2>3. Path(FlattenSeq(s), q, C, 1, 1)
    BY <2>1, <1>6, PathFlatten
  <2> QED BY <2>2, <2>3, <1>4 DEF Laid
<1>8. Path(<<q>>, q, C, 0, 1) /\ Path(<<q>>, q, C, 1, 0)
  <2>1. 1 - 1 = 0 /\ 1 - 0 = 1 /\ 1 \in 0..1 /\ 0 \in 0..1
    OBVIOUS
  <2>2. Path(<<q>>, q, C, 1, 1 - 1) /\ Path(<<q>>, q, C, 0, 1 - 0)
    BY <2>1, PathQuote
  <2> QED BY <2>1, <2>2
<1>9. <<q>> \in Seq(X)
  BY OneElement
<1> DEFINE c == <<q>>
<1>10. c \in Seq(X) /\ Path(c, q, C, 0, 1) /\ Path(c, q, C, 1, 0)
  BY <1>8, <1>9
<1> HIDE DEF c
<1>11. Path(c \o d, q, C, 0, 1) /\ c \o d \in Seq(X)
  <2>1. Path(c \o d, q, C, 0, 1)
    BY <1>7, <1>10, PathConcat
  <2>2. c \o d \in Seq(X)
    BY <1>7, <1>10, ConcatProperties
  <2> QED BY <2>1, <2>2
<1>12. Path((c \o d) \o c, q, C, 0, 0)
  BY <1>10, <1>11, PathConcat
<1> QED BY <1>7, <1>12 DEF c, d
-----------------------------------------------------------------------------
(* Cutting a text at its separators.                                         *)

\* X: characters; Words: texts; Lists: lists of texts.
SplitStates(Words, Lists) == [quoted : 0..1, skip : Nat, done : Lists, now : Words]
SplitState(quoted, skip, done, now) ==
    [quoted |-> quoted, skip |-> skip, done |-> done, now |-> now]

LEMMA SplitStepCases ==
    ASSUME NEW Words, NEW Lists, NEW s \in SplitStates(Words, Lists), NEW z, NEW sep, NEW q, NEW i
    PROVE  LET b == IF z[i] = q THEN 1 - s.quoted ELSE s.quoted IN
           SplitStep(z, sep, q, i, s) =
               IF s.skip > 0 THEN SplitState(s.quoted, s.skip - 1, s.done, s.now)
               ELSE IF b = 0 /\ IsPrefix(sep, SubSeq(z, i, Len(z)))
               THEN SplitState(b, Len(sep) - 1, Append(s.done, s.now), <<>>)
               ELSE SplitState(b, s.skip, s.done, Append(s.now, z[i]))
<1> DEFINE b == IF z[i] = q THEN 1 - s.quoted ELSE s.quoted
           found == IsPrefix(sep, SubSeq(z, i, Len(z)))
<1>1. s = SplitState(s.quoted, s.skip, s.done, s.now)
  BY DEF SplitStates, SplitState
<1>2. SplitStep(z, sep, q, i, s) =
         IF s.skip > 0 THEN [s EXCEPT !.skip = s.skip - 1]
         ELSE IF b = 0 /\ found
         THEN [quoted |-> b, skip |-> Len(sep) - 1, done |-> Append(s.done, s.now), now |-> <<>>]
         ELSE [s EXCEPT !.quoted = b, !.now = Append(s.now, z[i])]
  BY DEF SplitStep
<1> HIDE DEF b, found
<1>3. [s EXCEPT !.skip = s.skip - 1] = SplitState(s.quoted, s.skip - 1, s.done, s.now)
  BY DEF SplitStates, SplitState
<1>4. [s EXCEPT !.quoted = b, !.now = Append(s.now, z[i])]
      = SplitState(b, s.skip, s.done, Append(s.now, z[i]))
  <2> DEFINE w == Append(s.now, z[i])
             u == [s EXCEPT !.quoted = b]
  <2> HIDE DEF w
  <2>1. u = SplitState(b, s.skip, s.done, s.now)
    BY DEF SplitStates, SplitState
  <2> HIDE DEF u
  <2>2. [u EXCEPT !.now = w] = SplitState(b, s.skip, s.done, w)
    BY <2>1 DEF SplitState
  <2> QED BY <2>2 DEF u, w
<1>5. SplitStep(z, sep, q, i, s) =
         IF s.skip > 0 THEN SplitState(s.quoted, s.skip - 1, s.done, s.now)
         ELSE IF b = 0 /\ found
         THEN SplitState(b, Len(sep) - 1, Append(s.done, s.now), <<>>)
         ELSE SplitState(b, s.skip, s.done, Append(s.now, z[i]))
  BY <1>2, <1>3, <1>4 DEF SplitState
<1> QED BY <1>5 DEF b, found

\* The states of the loop.
SplitsBy(z, sep, q, Words, Lists, f) ==
    /\ f \in [0..Len(z) -> SplitStates(Words, Lists)] /\ f[0] = SplitStart
    /\ \A i \in 1..Len(z) : f[i] = SplitStep(z, sep, q, i, f[i - 1])

\* The recursive function in SplitOutside.
SplitsOf(z, sep, q) ==
    CHOOSE at : at = [i \in 0..Len(z) |-> IF i = 0 THEN SplitStart
                                          ELSE SplitStep(z, sep, q, i, at[i - 1])]

LEMMA SplitOutsideIs ==
    \A z, sep, q : SplitOutside(z, sep, q)
                   = Append(SplitsOf(z, sep, q)[Len(z)].done, SplitsOf(z, sep, q)[Len(z)].now)
BY DEF SplitOutside, SplitsOf

LEMMA SplitsAre ==
    ASSUME NEW X, NEW Words, Words = Seq(X), NEW Lists, Lists = Seq(Words),
           NEW z \in Seq(X), NEW sep \in Seq(X), Len(sep) > 0, NEW q
    PROVE  SplitsBy(z, sep, q, Words, Lists, SplitsOf(z, sep, q))
<1> DEFINE n == Len(z)
           V == SplitStates(Words, Lists)
           v0 == SplitStart
           step == [p \in (1..n) \X V |-> SplitStep(z, sep, q, p[1], p[2])]
           Is(f) == f = [i \in 0..n |-> IF i = 0 THEN v0 ELSE SplitStep(z, sep, q, i, f[i - 1])]
<1>1. n \in Nat /\ \A i \in 1..n : z[i] \in X
  BY ElementOfSeq
<1>2. v0 \in V
  <2>1. <<>> \in Words /\ <<>> \in Lists
    OBVIOUS
  <2> QED BY <2>1 DEF SplitStart, SplitStates
<1>3. \A i \in 1..n, s \in V : SplitStep(z, sep, q, i, s) \in V
  <2> TAKE i \in 1..n, s \in V
  <2> DEFINE b == IF z[i] = q THEN 1 - s.quoted ELSE s.quoted
  <2>1. s.quoted \in 0..1 /\ s.skip \in Nat /\ s.done \in Lists /\ s.now \in Words
    BY DEF SplitStates
  <2>2. Append(s.now, z[i]) \in Words
    BY <1>1, <2>1, AppendProperties
  <2>3. Append(s.done, s.now) \in Lists
    BY <2>1, AppendProperties
  <2>4. <<>> \in Words /\ Len(sep) \in Nat
    OBVIOUS
  <2>5. b \in 0..1
    BY <2>1
  <2>6. \/ s.skip > 0 /\ SplitStep(z, sep, q, i, s) = SplitState(s.quoted, s.skip - 1, s.done, s.now)
        \/ SplitStep(z, sep, q, i, s) = SplitState(b, Len(sep) - 1, Append(s.done, s.now), <<>>)
        \/ SplitStep(z, sep, q, i, s) = SplitState(b, s.skip, s.done, Append(s.now, z[i]))
    BY SplitStepCases
  <2> HIDE DEF b
  <2>7. s.skip > 0 => s.skip - 1 \in Nat
    BY <2>1
  <2>8. Len(sep) - 1 \in Nat
    BY <2>4
  <2> HIDE DEF V
  <2>9. \A b1 \in 0..1, k \in Nat, d \in Lists, w \in Words : SplitState(b1, k, d, w) \in V
    BY DEF V, SplitStates, SplitState
  <2> QED BY <2>1, <2>2, <2>3, <2>4, <2>5, <2>6, <2>7, <2>8, <2>9
<1>4. SplitsOf(z, sep, q) = CHOOSE f : Is(f)
  BY DEF SplitsOf
<1> HIDE DEF n, V, v0
<1>5. step \in [(1..n) \X V -> V]
  BY <1>3
<1>6. \A i \in 1..n, s \in V : step[<<i, s>>] = SplitStep(z, sep, q, i, s)
  OBVIOUS
<1> HIDE DEF step
<1>7. PICK f \in [0..n -> V] : Iterates(n, v0, step, f)
  BY <1>1, <1>2, <1>5, ForwardRecursion
<1>8. Is(f)
  <2>1. ASSUME NEW i \in 0..n PROVE f[i] = IF i = 0 THEN v0 ELSE SplitStep(z, sep, q, i, f[i - 1])
    <3>1. CASE i = 0
      BY <3>1, <1>7 DEF Iterates
    <3>2. CASE i # 0
      <4>1. i \in 1..n /\ i - 1 \in 0..n
        BY <3>2, <1>1
      <4>2. f[i] = step[<<i, f[i - 1]>>] /\ f[i - 1] \in V
        BY <4>1, <1>7 DEF Iterates
      <4>3. step[<<i, f[i - 1]>>] = SplitStep(z, sep, q, i, f[i - 1])
        BY <4>1, <4>2, <1>6
      <4> QED BY <4>2, <4>3, <3>2
    <3> QED BY <3>1, <3>2
  <2> QED BY <2>1, <1>7
<1> DEFINE g == CHOOSE h : Is(h)
<1>9. Is(g)
  <2> HIDE DEF Is
  <2> QED BY <1>8, Zenon
<1> HIDE DEF g
<1>10. /\ g[0] = v0 /\ g = [i \in 0..n |-> g[i]]
       /\ \A i \in 1..n : g[i] = SplitStep(z, sep, q, i, g[i - 1])
  <2>1. g = [i \in 0..n |-> IF i = 0 THEN v0 ELSE SplitStep(z, sep, q, i, g[i - 1])]
    BY <1>9
  <2> HIDE DEF Is
  <2>2. \A i \in 0..n : g[i] = IF i = 0 THEN v0 ELSE SplitStep(z, sep, q, i, g[i - 1])
    BY <2>1
  <2>3. g = [i \in 0..n |-> g[i]]
    BY <2>1
  <2>4. 0 \in 0..n /\ \A i \in 1..n : i \in 0..n /\ i # 0
    BY <1>1
  <2> QED BY <2>2, <2>3, <2>4
<1> HIDE DEF Is
<1> DEFINE S == {i \in Nat : i <= n => g[i] \in V}
<1>11. 0 \in S
  BY <1>2, <1>10
<1>12. ASSUME NEW i \in Nat, i \in S PROVE i + 1 \in S
  <2> SUFFICES ASSUME i + 1 <= n PROVE g[i + 1] \in V
    OBVIOUS
  <2>1. i + 1 \in 1..n /\ (i + 1) - 1 = i /\ g[i] \in V
    BY <1>1, <1>12
  <2> QED BY <2>1, <1>3, <1>10
<1> HIDE DEF S
<1>13. \A i \in Nat : i \in S
  BY <1>11, <1>12, SimpleInduction
<1>14. \A i \in 0..n : g[i] \in V
  BY <1>1, <1>13 DEF S
<1>15. g \in [0..n -> V]
  BY <1>10, <1>14
<1>16. SplitsOf(z, sep, q) = g
  BY <1>4 DEF g
<1> QED BY <1>10, <1>15, <1>16 DEF SplitsBy, n, V, v0

\* t stands in z behind e.
LiesAt(t, z, e) == e + Len(t) <= Len(z) /\ \A j \in 1..Len(t) : z[e + j] = t[j]

LEMMA PrefixLies ==
    ASSUME NEW X, NEW z \in Seq(X), NEW sep \in Seq(X), NEW i \in 1..Len(z), Len(sep) > 0
    PROVE  /\ IsPrefix(sep, SubSeq(z, i, Len(z))) => z[i] = sep[1]
           /\ LiesAt(sep, z, i - 1) => IsPrefix(sep, SubSeq(z, i, Len(z)))
<1> DEFINE n == Len(z)
           m == Len(sep)
           t == SubSeq(z, i, n)
           head == SubSeq(t, 1, m)
<1>1. n \in Nat /\ m \in Nat /\ m > 0 /\ i \in 1..n /\ i \in Int /\ n \in Int
  OBVIOUS
<1>2. SubSeq(sep, 1, m) = sep
  OBVIOUS
<1>3. t \in Seq(X) /\ Len(t) = n - i + 1 /\ \A j \in 1..(n - i + 1) : t[j] = z[i + j - 1]
  <2>1. \A j \in i..n : z[j] \in X
    BY ElementOfSeq
  <2> HIDE DEF n
  <2> QED BY <1>1, <2>1, SubSeqProperties
<1>4. IsPrefix(sep, t) <=> m <= Len(t) /\ sep = head
  BY <1>2 DEF IsPrefix
<1> HIDE DEF t
<1>5. ASSUME m <= Len(t)
      PROVE  head \in Seq(X) /\ Len(head) = m /\ \A j \in 1..m : head[j] = z[i + j - 1]
  <2>1. \A j \in 1..m : t[j] \in X
    <3> TAKE j \in 1..m
    <3>1. j \in 1..Len(t)
      BY <1>1, <1>3, <1>5
    <3> QED BY <3>1, <1>3, ElementOfSeq
  <2>2. 1 \in Int /\ m \in Int
    BY <1>1
  <2>3. /\ head \in Seq(X) /\ Len(head) = IF 1 <= m THEN m - 1 + 1 ELSE 0
        /\ \A j \in 1..(m - 1 + 1) : head[j] = t[1 + j - 1]
    BY <2>1, <2>2, SubSeqProperties
  <2> HIDE DEF head, n, m
  <2>4. 1 <= m /\ m - 1 + 1 = m
    BY <1>1
  <2>5. head \in Seq(X) /\ Len(head) = m
    BY <2>3, <2>4
  <2>6. ASSUME NEW j \in 1..m PROVE head[j] = z[i + j - 1]
    <3>1. 1 + j - 1 = j /\ j \in 1..(n - i + 1) /\ j \in 1..(m - 1 + 1)
      BY <1>1, <1>3, <1>5
    <3>2. head[j] = t[1 + j - 1]
      BY <2>3, <3>1
    <3>3. t[j] = z[i + j - 1]
      BY <1>3, <3>1
    <3> QED BY <3>1, <3>2, <3>3
  <2> QED BY <2>5, <2>6
<1> HIDE DEF head
<1>6. ASSUME IsPrefix(sep, t) PROVE z[i] = sep[1]
  <2>1. 1 \in 1..m /\ i + 1 - 1 = i
    BY <1>1
  <2> QED BY <2>1, <1>4, <1>5, <1>6
<1>7. ASSUME LiesAt(sep, z, i - 1) PROVE IsPrefix(sep, t)
  <2>1. (i - 1) + m <= n /\ \A j \in 1..m : z[(i - 1) + j] = sep[j]
    BY <1>7 DEF LiesAt
  <2>2. m <= Len(t)
    BY <1>1, <1>3, <2>1
  <2>3. \A j \in 1..m : head[j] = sep[j]
    <3> TAKE j \in 1..m
    <3>1. i + j - 1 = (i - 1) + j
      BY <1>1
    <3> QED BY <3>1, <2>1, <2>2, <1>5
  <2>4. sep = head
    BY <2>2, <2>3, <1>5, SeqEqual
  <2> QED BY <2>2, <2>4, <1>4
<1> QED BY <1>6, <1>7 DEF t, n

\* The first j characters of t, and one more.
LEMMA AppendPrefix ==
    ASSUME NEW X, NEW t \in Seq(X), NEW j \in 0..(Len(t) - 1)
    PROVE  Append(SubSeq(t, 1, j), t[j + 1]) = SubSeq(t, 1, j + 1)
<1> DEFINE n == Len(t)
           h == SubSeq(t, 1, j)
           g == SubSeq(t, 1, j + 1)
<1>1. n \in Nat /\ j \in Nat /\ j + 1 <= n /\ \A i \in 1..n : t[i] \in X
  BY ElementOfSeq
<1> HIDE DEF n
<1>2. h \in Seq(X) /\ Len(h) = j /\ \A i \in 1..j : h[i] = t[i]
  <2>1. \A i \in 1..j : t[i] \in X
    BY <1>1
  <2>2. /\ h \in Seq(X) /\ Len(h) = IF 1 <= j THEN j - 1 + 1 ELSE 0
        /\ \A i \in 1..(j - 1 + 1) : h[i] = t[1 + i - 1]
    BY <2>1, <1>1, SubSeqProperties
  <2> HIDE DEF h
  <2>3. j - 1 + 1 = j /\ \A i \in 1..j : 1 + i - 1 = i
    BY <1>1
  <2> QED BY <1>1, <2>2, <2>3
<1>3. g \in Seq(X) /\ Len(g) = j + 1 /\ \A i \in 1..(j + 1) : g[i] = t[i]
  <2>1. \A i \in 1..(j + 1) : t[i] \in X
    BY <1>1
  <2>2. j + 1 \in Int /\ 1 <= j + 1
    BY <1>1
  <2>3. /\ g \in Seq(X) /\ Len(g) = IF 1 <= j + 1 THEN (j + 1) - 1 + 1 ELSE 0
        /\ \A i \in 1..((j + 1) - 1 + 1) : g[i] = t[1 + i - 1]
    BY <2>1, <2>2, SubSeqProperties
  <2> HIDE DEF g
  <2>4. (j + 1) - 1 + 1 = j + 1 /\ \A i \in 1..(j + 1) : 1 + i - 1 = i
    BY <1>1
  <2> QED BY <2>2, <2>3, <2>4
<1> HIDE DEF h, g
<1>4. t[j + 1] \in X /\ j + 1 \in 1..(j + 1)
  BY <1>1
<1> DEFINE f == Append(h, t[j + 1])
<1>5. /\ f \in Seq(X) /\ Len(f) = Len(h) + 1
      /\ \A i \in 1..Len(h) : f[i] = h[i]
      /\ f[Len(h) + 1] = t[j + 1]
  BY <1>2, <1>4, AppendProperties
<1> HIDE DEF f
<1>6. \A i \in 1..Len(f) : f[i] = g[i]
  <2> TAKE i \in 1..Len(f)
  <2>1. CASE i = j + 1
    BY <2>1, <1>2, <1>3, <1>4, <1>5
  <2>2. CASE i # j + 1
    <3>1. i \in 1..j /\ i \in 1..(j + 1)
      BY <2>2, <1>1, <1>2, <1>5
    <3> QED BY <3>1, <1>2, <1>3, <1>5
  <2> QED BY <2>1, <2>2
<1>7. f = g
  BY <1>2, <1>3, <1>5, <1>6, SeqEqual
<1> QED BY <1>7 DEF f, h, g

LEMMA WholePrefix ==
    ASSUME NEW X, NEW t \in Seq(X)
    PROVE  SubSeq(t, 1, 0) = <<>> /\ SubSeq(t, 1, Len(t)) = t
OBVIOUS

\* X: the characters of z and sep; Words: texts; Lists: lists of texts.
SplitLoop(X, Words, Lists, z, sep, q, g) ==
    /\ Words = Seq(X) /\ Lists = Seq(Words)
    /\ z \in Seq(X) /\ sep \in Seq(X) /\ Len(sep) > 0 /\ sep[1] # q
    /\ SplitsBy(z, sep, q, Words, Lists, g)

\* From one place to another the loop collects t, which holds no separator that
\* is not between quotes.
LEMMA SplitThrough ==
    ASSUME NEW X, NEW Words, NEW Lists, NEW z, NEW sep, NEW q, NEW g,
           SplitLoop(X, Words, Lists, z, sep, q, g),
           NEW t \in Seq(X), NEW e \in Nat, LiesAt(t, z, e), Path(t, q, {sep[1]}, 0, 0),
           NEW D \in Lists, g[e] = SplitState(0, 0, D, <<>>)
    PROVE  g[e + Len(t)] = SplitState(0, 0, D, t)
<1> DEFINE n == Len(z)
           m == Len(t)
           V == SplitStates(Words, Lists)
<1>0. /\ Words = Seq(X) /\ Lists = Seq(Words)
      /\ z \in Seq(X) /\ sep \in Seq(X) /\ Len(sep) > 0
      /\ SplitsBy(z, sep, q, Words, Lists, g)
  BY DEF SplitLoop
<1>1. PICK Q : Quotes(t, q, {sep[1]}, 0, 0, Q)
  BY DEF Path
<1>2. /\ Q \in [0..m -> 0..1] /\ Q[0] = 0 /\ Q[m] = 0
      /\ \A k \in 1..m : Q[k] = IF t[k] = q THEN 1 - Q[k - 1] ELSE Q[k - 1]
      /\ \A k \in 1..m : t[k] = sep[1] => Q[k] = 1
  BY <1>1 DEF Quotes
<1>3. /\ g \in [0..n -> V] /\ \A i \in 1..n : g[i] = SplitStep(z, sep, q, i, g[i - 1])
  BY <1>0 DEF SplitsBy
<1>4. e + m <= n /\ \A j \in 1..m : z[e + j] = t[j]
  BY DEF LiesAt
<1>5. n \in Nat /\ m \in Nat
  BY <1>0
<1> DEFINE P(j) == SubSeq(t, 1, j)
<1>6. P(0) = <<>> /\ P(m) = t
  BY WholePrefix
<1>7. \A j \in 0..(m - 1) : Append(P(j), t[j + 1]) = P(j + 1)
  BY AppendPrefix
<1>8. \A i \in 1..n : IsPrefix(sep, SubSeq(z, i, n)) => z[i] = sep[1]
  BY <1>0, PrefixLies
<1> HIDE DEF n, m, P
<1> DEFINE S == {j \in Nat : j <= m => g[e + j] = SplitState(Q[j], 0, D, P(j))}
<1>9. 0 \in S
  BY <1>2, <1>6
<1>10. ASSUME NEW j \in Nat, j \in S PROVE j + 1 \in S
  <2> SUFFICES ASSUME j + 1 <= m PROVE g[e + (j + 1)] = SplitState(Q[j + 1], 0, D, P(j + 1))
    OBVIOUS
  <2> DEFINE i == e + (j + 1)
             s == g[e + j]
             b == IF z[i] = q THEN 1 - s.quoted ELSE s.quoted
             found == IsPrefix(sep, SubSeq(z, i, n))
  <2>1. /\ i \in 1..n /\ i - 1 = e + j /\ e + j \in 0..n /\ j + 1 \in 1..m /\ (j + 1) - 1 = j
        /\ j \in 0..(m - 1) /\ s = SplitState(Q[j], 0, D, P(j))
    BY <1>4, <1>5, <1>10
  <2>2. z[i] = t[j + 1] /\ (found => z[i] = sep[1])
    BY <2>1, <1>4, <1>8
  <2>3. /\ s.quoted = Q[j] /\ s.skip = 0 /\ s.done = D /\ s.now = P(j)
    BY <2>1 DEF SplitState
  <2>4. Q[j + 1] = IF t[j + 1] = q THEN 1 - Q[j] ELSE Q[j]
    BY <2>1, <1>2
  <2>5. b = Q[j + 1] /\ ~(b = 0 /\ found)
    BY <2>1, <2>2, <2>3, <2>4, <1>2
  <2>6. g[i] = SplitStep(z, sep, q, i, s) /\ s \in V
    BY <2>1, <1>3
  <2>7. SplitStep(z, sep, q, i, s) =
               IF s.skip > 0 THEN SplitState(s.quoted, s.skip - 1, s.done, s.now)
               ELSE IF b = 0 /\ found
               THEN SplitState(b, Len(sep) - 1, Append(s.done, s.now), <<>>)
               ELSE SplitState(b, s.skip, s.done, Append(s.now, z[i]))
    BY <2>6, SplitStepCases DEF n
  <2> HIDE DEF i, s, b, found
  <2>8. SplitStep(z, sep, q, i, s) = SplitState(b, s.skip, s.done, Append(s.now, z[i]))
    BY <2>3, <2>5, <2>7
  <2>9. Append(P(j), z[i]) = P(j + 1)
    BY <2>1, <2>2, <1>7
  <2>10. g[i] = SplitState(Q[j + 1], 0, D, P(j + 1))
    BY <2>3, <2>5, <2>6, <2>8, <2>9
  <2> QED BY <2>10 DEF i
<1> HIDE DEF S
<1>11. m \in S
  BY <1>5, <1>9, <1>10, SimpleInduction
<1>12. g[e + m] = SplitState(Q[m], 0, D, P(m))
  BY <1>5, <1>11 DEF S
<1> QED BY <1>2, <1>6, <1>12 DEF m

\* At a separator it begins a new text.
LEMMA SplitSeparator ==
    ASSUME NEW X, NEW Words, NEW Lists, NEW z, NEW sep, NEW q, NEW g,
           SplitLoop(X, Words, Lists, z, sep, q, g),
           NEW e \in Nat, LiesAt(sep, z, e),
           NEW D \in Lists, NEW w \in Words, g[e] = SplitState(0, 0, D, w)
    PROVE  g[e + Len(sep)] = SplitState(0, 0, Append(D, w), <<>>)
<1> DEFINE n == Len(z)
           m == Len(sep)
           V == SplitStates(Words, Lists)
           E == Append(D, w)
           o == <<>>
<1>0. /\ Words = Seq(X) /\ Lists = Seq(Words)
      /\ z \in Seq(X) /\ sep \in Seq(X) /\ Len(sep) > 0 /\ sep[1] # q
      /\ SplitsBy(z, sep, q, Words, Lists, g)
  BY DEF SplitLoop
<1>1. n \in Nat /\ m \in Nat /\ m > 0
  BY <1>0
<1>2. g \in [0..n -> V] /\ \A i \in 1..n : g[i] = SplitStep(z, sep, q, i, g[i - 1])
  BY <1>0 DEF SplitsBy
<1>3. e + m <= n /\ \A j \in 1..m : z[e + j] = sep[j]
  BY DEF LiesAt
<1>4. IsPrefix(sep, SubSeq(z, e + 1, n))
  <2>1. e + 1 \in 1..n /\ (e + 1) - 1 = e
    BY <1>1, <1>3
  <2>2. LiesAt(sep, z, (e + 1) - 1) => IsPrefix(sep, SubSeq(z, e + 1, n))
    BY <2>1, <1>0, PrefixLies
  <2> QED BY <2>1, <2>2
<1>5. \A i \in 1..n, s \in V :
          LET b == IF z[i] = q THEN 1 - s.quoted ELSE s.quoted IN
          SplitStep(z, sep, q, i, s) =
               IF s.skip > 0 THEN SplitState(s.quoted, s.skip - 1, s.done, s.now)
               ELSE IF b = 0 /\ IsPrefix(sep, SubSeq(z, i, n))
               THEN SplitState(b, m - 1, Append(s.done, s.now), o)
               ELSE SplitState(b, s.skip, s.done, Append(s.now, z[i]))
  BY <1>0, SplitStepCases
<1> HIDE DEF n, m, V, o
<1>6. g[e + 1] = SplitState(0, m - 1, E, o)
  <2> DEFINE s == g[e]
             i == e + 1
             found == IsPrefix(sep, SubSeq(z, i, n))
  <2>1. i \in 1..n /\ i - 1 = e /\ e \in 0..n /\ 1 \in 1..m
    BY <1>1, <1>3
  <2>2. z[i] = sep[1] /\ found
    BY <2>1, <1>3, <1>4
  <2>3. s.quoted = 0 /\ s.skip = 0 /\ s.done = D /\ s.now = w
    BY DEF SplitState
  <2>4. s \in V /\ g[i] = SplitStep(z, sep, q, i, s)
    BY <2>1, <1>2
  <2>5. LET b == IF z[i] = q THEN 1 - s.quoted ELSE s.quoted IN
        SplitStep(z, sep, q, i, s) =
               IF s.skip > 0 THEN SplitState(s.quoted, s.skip - 1, s.done, s.now)
               ELSE IF b = 0 /\ found
               THEN SplitState(b, m - 1, Append(s.done, s.now), o)
               ELSE SplitState(b, s.skip, s.done, Append(s.now, z[i]))
    BY <2>1, <2>4, <1>5
  <2> HIDE DEF s, i, found
  <2>6. SplitStep(z, sep, q, i, s) = SplitState(0, m - 1, Append(s.done, s.now), o)
    BY <2>2, <2>3, <2>5, <1>0
  <2> QED BY <2>3, <2>4, <2>6 DEF i
<1> HIDE DEF E
<1> DEFINE S == {j \in Nat : j + 1 <= m => g[e + (j + 1)] = SplitState(0, m - (j + 1), E, o)}
<1>7. 0 \in S
  <2>1. 0 + 1 = 1
    OBVIOUS
  <2> QED BY <2>1, <1>6
<1>8. ASSUME NEW j \in Nat, j \in S PROVE j + 1 \in S
  <2> SUFFICES ASSUME j + 1 + 1 <= m
               PROVE  g[e + (j + 1 + 1)] = SplitState(0, m - (j + 1 + 1), E, o)
    OBVIOUS
  <2> DEFINE s == g[e + (j + 1)]
             i == e + (j + 1 + 1)
  <2>1. /\ i \in 1..n /\ i - 1 = e + (j + 1) /\ e + (j + 1) \in 0..n
        /\ s = SplitState(0, m - (j + 1), E, o) /\ m - (j + 1) > 0
        /\ (m - (j + 1)) - 1 = m - (j + 1 + 1)
    BY <1>1, <1>3, <1>8
  <2>2. s.quoted = 0 /\ s.skip = m - (j + 1) /\ s.done = E /\ s.now = o
    BY <2>1 DEF SplitState
  <2>3. s \in V /\ g[i] = SplitStep(z, sep, q, i, s)
    BY <2>1, <1>2
  <2>4. s.skip > 0 => SplitStep(z, sep, q, i, s) = SplitState(s.quoted, s.skip - 1, s.done, s.now)
    BY <2>1, <2>3, <1>5
  <2> HIDE DEF s, i
  <2> QED BY <2>1, <2>2, <2>3, <2>4 DEF i
<1> HIDE DEF S
<1>9. m - 1 \in Nat /\ m - 1 + 1 = m /\ m - m = 0
  BY <1>1
<1>10. m - 1 \in S
  BY <1>7, <1>8, <1>9, SimpleInduction
<1>11. g[e + m] = SplitState(0, 0, E, o)
  BY <1>9, <1>10 DEF S
<1> QED BY <1>11 DEF m, E, o

\* z is the texts of F with sep between them; the k-th is behind b[k].
Cut(z, F, sep, b) ==
    /\ b \in [1..Len(F) -> Nat] /\ b[1] = 0
    /\ \A k \in 1..Len(F) : LiesAt(F[k], z, b[k])
    /\ \A k \in 1..(Len(F) - 1) :
          /\ LiesAt(sep, z, b[k] + Len(F[k]))
          /\ b[k + 1] = b[k] + Len(F[k]) + Len(sep)
    /\ b[Len(F)] + Len(F[Len(F)]) = Len(z)

\* The loop finds the texts that are between separators.
LEMMA SplitCut ==
    ASSUME NEW X, NEW Words, Words = Seq(X), NEW z \in Seq(X), NEW sep \in Seq(X), Len(sep) > 0,
           NEW q, sep[1] # q, NEW F \in Seq(Words), Len(F) > 0, AllPaths(F, q, {sep[1]}, 0),
           NEW b, Cut(z, F, sep, b)
    PROVE  SplitOutside(z, sep, q) = F
<1> DEFINE n == Len(F)
           Lists == Seq(Words)
           g == SplitsOf(z, sep, q)
           D(k) == SubSeq(F, 1, k)
<1>1. SplitsBy(z, sep, q, Words, Lists, g)
  BY SplitsAre
<1>2. /\ b \in [1..n -> Nat] /\ b[1] = 0
      /\ \A k \in 1..n : LiesAt(F[k], z, b[k])
      /\ \A k \in 1..(n - 1) : LiesAt(sep, z, b[k] + Len(F[k]))
                               /\ b[k + 1] = b[k] + Len(F[k]) + Len(sep)
      /\ b[n] + Len(F[n]) = Len(z)
  BY DEF Cut
<1>3. n \in Nat /\ n > 0 /\ \A k \in 1..n : F[k] \in Words /\ Path(F[k], q, {sep[1]}, 0, 0)
  <2>1. \A k \in 1..Len(F) : F[k] \in Words
    BY ElementOfSeq
  <2>2. \A k \in 1..Len(F) : Path(F[k], q, {sep[1]}, 0, 0)
    BY DEF AllPaths
  <2>3. Len(F) \in Nat
    OBVIOUS
  <2> HIDE DEF n
  <2> QED BY <2>1, <2>2, <2>3 DEF n
<1>4. D(0) = <<>> /\ D(n) = F
  BY WholePrefix
<1>5. \A k \in 0..(n - 1) : Append(D(k), F[k + 1]) = D(k + 1)
  BY AppendPrefix
<1> DEFINE o == <<>>
<1>6. o \in Lists /\ \A d \in Lists, w \in Words : Append(d, w) \in Lists
  BY AppendProperties
<1>7. g[0] = SplitState(0, 0, o, o)
  BY <1>1 DEF SplitsBy, SplitStart, SplitState
<1>8. D(0) = o
  BY <1>4
<1>9. SplitOutside(z, sep, q) = Append(g[Len(z)].done, g[Len(z)].now)
  BY SplitOutsideIs
<1> DEFINE L == Lists
<1>10. L = Seq(Words)
  OBVIOUS
<1> HIDE DEF n, g, D, Lists
<1> DEFINE S == {k \in Nat : k + 1 <= n => D(k) \in Lists /\ g[b[k + 1]] = SplitState(0, 0, D(k), o)}
<1>11. 0 \in S
  <2>1. 0 + 1 = 1
    OBVIOUS
  <2> HIDE DEF o
  <2> QED BY <2>1, <1>2, <1>6, <1>7, <1>8
<1>12. ASSUME NEW k \in 1..n, NEW d \in Lists, g[b[k]] = SplitState(0, 0, d, <<>>)
       PROVE  g[b[k] + Len(F[k])] = SplitState(0, 0, d, F[k])
  <2>1. F[k] \in Seq(X) /\ b[k] \in Nat /\ LiesAt(F[k], z, b[k]) /\ Path(F[k], q, {sep[1]}, 0, 0)
    BY <1>2, <1>3
  <2> DEFINE e == b[k]
             t == F[k]
  <2>2. SplitLoop(X, Words, L, z, sep, q, g) /\ d \in L
    BY <1>1, <1>10, <1>12 DEF SplitLoop
  <2>3. t \in Seq(X) /\ e \in Nat /\ LiesAt(t, z, e) /\ Path(t, q, {sep[1]}, 0, 0)
        /\ g[e] = SplitState(0, 0, d, <<>>)
    BY <2>1, <1>12
  <2> HIDE DEF L, e, t
  <2>4. g[e + Len(t)] = SplitState(0, 0, d, t)
    BY <2>2, <2>3, SplitThrough
  <2> QED BY <2>4 DEF e, t
<1>13. ASSUME NEW k \in Nat, k \in S PROVE k + 1 \in S
  <2> SUFFICES ASSUME k + 1 + 1 <= n
               PROVE  D(k + 1) \in Lists /\ g[b[k + 1 + 1]] = SplitState(0, 0, D(k + 1), o)
    OBVIOUS
  <2>1. /\ k + 1 \in 1..n /\ k + 1 \in 1..(n - 1) /\ k \in 0..(n - 1)
        /\ D(k) \in Lists /\ g[b[k + 1]] = SplitState(0, 0, D(k), o)
    BY <1>3, <1>13
  <2> DEFINE w == F[k + 1]
             e == b[k + 1] + Len(w)
  <2>2. w \in Words /\ w \in Seq(X) /\ Len(w) \in Nat /\ b[k + 1] \in Nat
    <3>1. w \in Words /\ b[k + 1] \in Nat
      BY <2>1, <1>2, <1>3
    <3> QED BY <3>1
  <2>3. g[e] = SplitState(0, 0, D(k), w)
    BY <2>1, <1>12
  <2>4. e \in Nat /\ LiesAt(sep, z, e) /\ b[k + 1 + 1] = e + Len(sep)
    BY <2>1, <2>2, <1>2
  <2> HIDE DEF e, w
  <2> DEFINE d == D(k)
  <2>5. SplitLoop(X, Words, L, z, sep, q, g) /\ d \in L /\ g[e] = SplitState(0, 0, d, w)
    BY <2>1, <2>3, <1>1, <1>10 DEF SplitLoop
  <2> HIDE DEF L, d
  <2>6. g[e + Len(sep)] = SplitState(0, 0, Append(d, w), <<>>)
    BY <2>2, <2>4, <2>5, SplitSeparator
  <2>7. Append(d, w) = D(k + 1)
    BY <2>1, <1>5 DEF d, w
  <2>8. D(k + 1) \in Lists
    BY <2>1, <2>2, <2>7, <1>6 DEF d
  <2> QED BY <2>4, <2>6, <2>7, <2>8
<1> HIDE DEF S
<1>14. n - 1 \in Nat /\ n - 1 + 1 = n /\ n \in 1..n /\ n - 1 \in 0..(n - 1)
  BY <1>3
<1>15. n - 1 \in S
  BY <1>11, <1>13, <1>14, SimpleInduction
<1>16. D(n - 1) \in Lists /\ g[b[n]] = SplitState(0, 0, D(n - 1), <<>>)
  BY <1>14, <1>15 DEF S
<1>17. g[Len(z)] = SplitState(0, 0, D(n - 1), F[n])
  BY <1>2, <1>12, <1>14, <1>16
<1>18. Append(D(n - 1), F[n]) = F
  BY <1>4, <1>5, <1>14
<1> QED BY <1>9, <1>17, <1>18 DEF SplitState

Cuts(z, F, sep) == \E b : Cut(z, F, sep, b)

Between(F, sep) == [i \in DOMAIN F |-> IF i = 1 THEN F[i] ELSE sep \o F[i]]

LEMMA BetweenTyped ==
    ASSUME NEW X, NEW Words, Words = Seq(X), NEW F \in Seq(Words), NEW sep \in Seq(X)
    PROVE  /\ Between(F, sep) \in Seq(Words) /\ Len(Between(F, sep)) = Len(F)
           /\ \A k \in 1..Len(F) : Between(F, sep)[k] = IF k = 1 THEN F[k] ELSE sep \o F[k]
<1> DEFINE n == Len(F)
           s == Between(F, sep)
<1>1. n \in Nat /\ DOMAIN F = 1..n
  OBVIOUS
<1>2. ASSUME NEW k \in 1..n PROVE (IF k = 1 THEN F[k] ELSE sep \o F[k]) \in Words
  <2>1. F[k] \in Seq(X)
    BY ElementOfSeq
  <2>2. sep \o F[k] \in Seq(X)
    BY <2>1, ConcatProperties
  <2> QED BY <2>1, <2>2
<1> HIDE DEF n
<1>3. s = [k \in 1..n |-> IF k = 1 THEN F[k] ELSE sep \o F[k]]
  BY <1>1 DEF Between
<1>4. s \in [1..n -> Words]
  BY <1>2, <1>3
<1> HIDE DEF s
<1>5. s \in Seq(Words) /\ Len(s) = n
  BY <1>1, <1>4, SeqMadeOf
<1> QED BY <1>3, <1>5 DEF s, n

LEMMA JoinedCut ==
    ASSUME NEW X, NEW Words, Words = Seq(X), NEW F \in Seq(Words), Len(F) > 0,
           NEW sep \in Seq(X), Len(sep) > 0
    PROVE  Joined(F, sep) \in Seq(X) /\ Cuts(Joined(F, sep), F, sep)
<1> DEFINE n == Len(F)
           m == Len(sep)
           s == Between(F, sep)
           z == Joined(F, sep)
<1>1. z = FlattenSeq(s)
  BY DEF Joined, Between
<1>2. s \in Seq(Words) /\ Len(s) = n /\ \A k \in 1..n : s[k] = IF k = 1 THEN F[k] ELSE sep \o F[k]
  BY BetweenTyped
<1> HIDE DEF s, z
<1>3. Laid(s, X)
  BY <1>2, FlattenPlaces
<1>4. PICK p : Places(s, z, p)
  BY <1>1, <1>3 DEF Laid
<1>5. z \in Seq(X) /\ Len(z) \in Nat
  <2>1. z \in Seq(X)
    BY <1>1, <1>3 DEF Laid
  <2> QED BY <2>1
<1>6. /\ p \in [0..n -> Nat] /\ p[0] = 0 /\ p[n] = Len(z)
      /\ \A k \in 1..n : p[k] = p[k - 1] + Len(s[k])
      /\ \A k \in 1..n : \A j \in 1..Len(s[k]) : p[k - 1] + j \in 1..Len(z) /\ z[p[k - 1] + j] = s[k][j]
  BY <1>2, <1>4 DEF Places
<1>7. n \in Nat /\ n > 0 /\ m \in Nat /\ m > 0 /\ sep \in Seq(X)
  OBVIOUS
<1>8. ASSUME NEW k \in 1..n PROVE F[k] \in Seq(X) /\ Len(F[k]) \in Nat
  <2>1. F[k] \in Words
    BY ElementOfSeq
  <2> QED BY <2>1
<1>9. ASSUME NEW k \in 1..n, k # 1
      PROVE  /\ Len(s[k]) = m + Len(F[k])
             /\ \A j \in 1..m : s[k][j] = sep[j]
             /\ \A j \in 1..Len(F[k]) : s[k][m + j] = F[k][j]
  <2> DEFINE t == F[k]
             h == sep \o t
             l == Len(t)
  <2>1. s[k] = h /\ t \in Seq(X) /\ l \in Nat
    BY <1>2, <1>8, <1>9
  <2> HIDE DEF t
  <2>2. /\ h \in Seq(X) /\ Len(h) = Len(sep) + Len(t)
        /\ \A j \in 1..(Len(sep) + Len(t)) : h[j] = IF j <= Len(sep) THEN sep[j] ELSE t[j - Len(sep)]
    BY <2>1, ConcatProperties
  <2> HIDE DEF h, l, m
  <2>3. Len(h) = m + l /\ \A j \in 1..(m + l) : h[j] = IF j <= m THEN sep[j] ELSE t[j - m]
    BY <2>2 DEF l, m
  <2>4. \A j \in 1..m : j \in 1..(m + l) /\ j <= m
    BY <2>1, <1>7
  <2>5. \A j \in 1..l : m + j \in 1..(m + l) /\ ~(m + j <= m) /\ (m + j) - m = j
    BY <2>1, <1>7
  <2> QED BY <2>1, <2>3, <2>4, <2>5 DEF t, l
<1>10. 1 \in 1..n => s[1] = F[1]
  BY <1>2
<1> DEFINE b == [k \in 1..n |-> IF k = 1 THEN 0 ELSE p[k - 1] + m]
<1> HIDE DEF n, m
<1>11. b \in [1..n -> Nat]
  <2>1. \A k \in 1..n : k - 1 \in 0..n
    BY <1>7
  <2> QED BY <2>1, <1>6, <1>7
<1>12. b[1] = 0 /\ \A k \in 1..n : k # 1 => b[k] = p[k - 1] + m
  BY <1>7
<1> HIDE DEF b
<1>13. ASSUME NEW k \in 1..n PROVE b[k] + Len(F[k]) = p[k] /\ LiesAt(F[k], z, b[k])
  <2> DEFINE l == Len(F[k])
  <2>1. l \in Nat /\ p[k - 1] \in Nat /\ p[k] = p[k - 1] + Len(s[k])
    <3>1. k - 1 \in 0..n
      BY <1>7
    <3> QED BY <3>1, <1>6, <1>8
  <2>2. CASE k = 1
    <3>1. s[k] = F[k] /\ b[k] = 0 /\ p[k - 1] = 0
      BY <2>2, <1>6, <1>10, <1>12
    <3>2. \A j \in 1..l : 0 + j \in 1..Len(z) /\ z[0 + j] = F[k][j]
      BY <3>1, <1>6
    <3>3. 0 + l <= Len(z)
      <4>1. CASE l = 0
        BY <4>1, <1>5
      <4>2. CASE l # 0
        <5>1. l \in 1..l
          BY <4>2, <2>1
        <5> QED BY <5>1, <3>2, <1>5
      <4> QED BY <4>1, <4>2
    <3>4. p[k] = 0 + l
      BY <2>1, <3>1
    <3> QED BY <3>1, <3>2, <3>3, <3>4 DEF LiesAt
  <2>3. CASE k # 1
    <3> DEFINE e == p[k - 1] + m
    <3>1. Len(s[k]) = m + l /\ \A j \in 1..l : s[k][m + j] = F[k][j]
      BY <2>3, <1>9
    <3>2. b[k] = e
      BY <2>3, <1>12
    <3>3. ASSUME NEW j \in 1..l PROVE e + j \in 1..Len(z) /\ z[e + j] = F[k][j]
      <4> HIDE DEF l
      <4> DEFINE r == p[k - 1]
      <4>1. m + j \in 1..(m + l)
        BY <2>1, <1>7
      <4>2. r + (m + j) = (r + m) + j
        <5>1. r \in Nat
          BY <2>1
        <5> HIDE DEF r
        <5> QED BY <5>1, <2>1, <1>7
      <4>3. m + j \in 1..Len(s[k])
        BY <4>1, <3>1
      <4> QED BY <3>1, <4>2, <4>3, <1>6
    <3> HIDE DEF l
    <3>4. p[k] = e + l
      BY <2>1, <3>1, <1>7
    <3>5. p[k] <= Len(z)
      <4>1. m + l \in 1..(m + l) /\ p[k - 1] + (m + l) = p[k]
        BY <2>1, <3>1, <1>7
      <4>2. p[k - 1] + (m + l) \in 1..Len(z)
        BY <3>1, <4>1, <1>6
      <4> QED BY <4>1, <4>2, <1>5
    <3> QED BY <3>2, <3>3, <3>4, <3>5 DEF LiesAt, l
  <2> QED BY <2>2, <2>3
<1>14. ASSUME NEW k \in 1..(n - 1) PROVE b[k + 1] = p[k] + m /\ LiesAt(sep, z, p[k])
  <2>1. k + 1 \in 1..n /\ k + 1 # 1 /\ (k + 1) - 1 = k /\ k \in 0..n
    BY <1>7
  <2>2. b[k + 1] = p[k] + m
    BY <2>1, <1>12
  <2> DEFINE l == Len(F[k + 1])
  <2>3. l \in Nat /\ Len(s[k + 1]) = m + l /\ \A j \in 1..m : s[k + 1][j] = sep[j]
    BY <2>1, <1>8, <1>9
  <2> HIDE DEF l
  <2>4. ASSUME NEW j \in 1..m PROVE p[k] + j \in 1..Len(z) /\ z[p[k] + j] = sep[j]
    <3>1. j \in 1..Len(s[k + 1])
      BY <2>3, <1>7
    <3> QED BY <2>1, <2>3, <3>1, <1>6
  <2>5. p[k] + m <= Len(z)
    <3>1. m \in 1..m
      BY <1>7
    <3> QED BY <2>4, <3>1, <1>5
  <2> QED BY <2>2, <2>4, <2>5 DEF LiesAt, m
<1>15. \A k \in 1..(n - 1) : LiesAt(sep, z, b[k] + Len(F[k])) /\ b[k + 1] = b[k] + Len(F[k]) + m
  <2> TAKE k \in 1..(n - 1)
  <2>1. k \in 1..n
    BY <1>7
  <2> QED BY <2>1, <1>13, <1>14
<1>16. b[n] + Len(F[n]) = Len(z)
  <2>1. n \in 1..n
    BY <1>7
  <2> QED BY <2>1, <1>6, <1>13
<1>17. Cut(z, F, sep, b)
  BY <1>11, <1>12, <1>13, <1>15, <1>16 DEF Cut, n, m
<1> QED BY <1>5, <1>17 DEF Cuts, z

\* Lines that each end with c.
Lines(L, c) == [i \in DOMAIN L |-> L[i] \o <<c>>]

Terminated(s, L, c, Words) ==
    /\ s \in Seq(Words) /\ Len(s) = Len(L)
    /\ \A k \in 1..Len(L) : s[k] = L[k] \o <<c>>

LEMMA LinesTyped ==
    ASSUME NEW X, NEW Words, Words = Seq(X), NEW L \in Seq(Words), NEW c \in X
    PROVE  Terminated(Lines(L, c), L, c, Words)
<1> DEFINE n == Len(L)
           s == Lines(L, c)
<1>1. n \in Nat /\ DOMAIN L = 1..n
  OBVIOUS
<1>2. ASSUME NEW k \in 1..n PROVE L[k] \o <<c>> \in Words
  <2>1. L[k] \in Seq(X) /\ <<c>> \in Seq(X)
    <3>1. L[k] \in Words
      BY ElementOfSeq
    <3> QED BY <3>1, OneElement
  <2> DEFINE t == L[k]
             e == <<c>>
  <2>2. t \in Seq(X) /\ e \in Seq(X)
    BY <2>1
  <2> HIDE DEF t, e
  <2>3. t \o e \in Seq(X)
    BY <2>2, ConcatProperties
  <2> QED BY <2>3 DEF t, e
<1> HIDE DEF n
<1>3. s = [k \in 1..n |-> L[k] \o <<c>>]
  BY <1>1 DEF Lines
<1>4. s \in [1..n -> Words]
  BY <1>2, <1>3
<1> HIDE DEF s
<1>5. s \in Seq(Words) /\ Len(s) = n
  BY <1>1, <1>4, SeqMadeOf
<1> QED BY <1>3, <1>5 DEF Terminated, s, n

LEMMA LinesCut ==
    ASSUME NEW X, NEW Words, Words = Seq(X), NEW L \in Seq(Words), NEW c \in X
    PROVE  /\ FlattenSeq(Lines(L, c)) \in Seq(X)
           /\ Cuts(FlattenSeq(Lines(L, c)), Append(L, <<>>), <<c>>)
<1> DEFINE n == Len(L)
           s == Lines(L, c)
           z == FlattenSeq(s)
           e == <<>>
           F == Append(L, e)
           sep == <<c>>
<1>1. s \in Seq(Words) /\ Len(s) = n /\ \A k \in 1..n : s[k] = L[k] \o sep
  <2>1. Terminated(Lines(L, c), L, c, Words)
    BY LinesTyped
  <2> QED BY <2>1 DEF Terminated
<1>2. n \in Nat /\ e \in Words /\ Len(e) = 0 /\ Len(sep) = 1 /\ sep[1] = c
  OBVIOUS
<1>3. sep \in Seq(X)
  BY OneElement
<1> HIDE DEF s
<1>4. Laid(s, X)
  BY <1>1, FlattenPlaces
<1>5. PICK p : Places(s, z, p)
  BY <1>4 DEF Laid
<1>6. z \in Seq(X)
  BY <1>4 DEF Laid
<1> HIDE DEF z
<1>7. Len(z) \in Nat
  BY <1>6
<1>8. /\ p \in [0..n -> Nat] /\ p[0] = 0 /\ p[n] = Len(z)
      /\ \A k \in 1..n : p[k] = p[k - 1] + Len(s[k])
      /\ \A k \in 1..n : \A j \in 1..Len(s[k]) : p[k - 1] + j \in 1..Len(z) /\ z[p[k - 1] + j] = s[k][j]
  BY <1>1, <1>5 DEF Places
<1>9. Len(F) = n + 1 /\ (\A k \in 1..n : F[k] = L[k]) /\ F[n + 1] = e
  <2> HIDE DEF e
  <2> QED BY <1>2, AppendProperties
<1>10. ASSUME NEW k \in 1..n
       PROVE  /\ L[k] \in Seq(X) /\ Len(L[k]) \in Nat /\ Len(s[k]) = Len(L[k]) + 1
              /\ \A j \in 1..Len(L[k]) : s[k][j] = L[k][j]
              /\ s[k][Len(L[k]) + 1] = c
  <2> DEFINE t == L[k]
             h == t \o sep
             l == Len(t)
  <2>1. t \in Seq(X)
    <3>1. t \in Words
      BY ElementOfSeq
    <3> QED BY <3>1
  <2>2. l \in Nat /\ s[k] = h
    BY <1>1, <2>1
  <2> HIDE DEF t, sep
  <2>3. /\ h \in Seq(X) /\ Len(h) = Len(t) + Len(sep)
        /\ \A j \in 1..(Len(t) + Len(sep)) : h[j] = IF j <= Len(t) THEN t[j] ELSE sep[j - Len(t)]
    BY <2>1, <1>3, ConcatProperties
  <2> HIDE DEF h, l, n
  <2>4. Len(h) = l + 1 /\ \A j \in 1..(l + 1) : h[j] = IF j <= l THEN t[j] ELSE sep[j - l]
    BY <2>3, <1>2 DEF l
  <2>5. \A j \in 1..l : j \in 1..(l + 1) /\ j <= l
    BY <2>2
  <2>6. l + 1 \in 1..(l + 1) /\ ~(l + 1 <= l) /\ (l + 1) - l = 1
    BY <2>2
  <2>7. h[l + 1] = c
    BY <2>4, <2>6, <1>2
  <2> QED BY <2>1, <2>2, <2>4, <2>5, <2>7 DEF t, l
<1> DEFINE b == [k \in 1..(n + 1) |-> p[k - 1]]
<1> HIDE DEF n, F, sep, e
<1>11. b \in [1..(n + 1) -> Nat]
  <2>1. \A k \in 1..(n + 1) : k - 1 \in 0..n
    BY <1>2
  <2> QED BY <2>1, <1>8
<1>12. \A k \in 1..(n + 1) : b[k] = p[k - 1]
  OBVIOUS
<1> HIDE DEF b
<1>13. b[1] = 0
  <2>1. 1 \in 1..(n + 1) /\ 1 - 1 = 0
    BY <1>2
  <2> QED BY <2>1, <1>8, <1>12
<1>14. ASSUME NEW k \in 1..n
       PROVE  /\ LiesAt(L[k], z, b[k]) /\ LiesAt(sep, z, b[k] + Len(L[k]))
              /\ b[k + 1] = b[k] + Len(L[k]) + 1
  <2> DEFINE r == p[k - 1]
             l == Len(L[k])
             t == L[k]
  <2>1. r \in Nat /\ p[k] = r + Len(s[k])
    <3>1. k - 1 \in 0..n
      BY <1>2
    <3> QED BY <3>1, <1>8
  <2>2. b[k] = r /\ b[k + 1] = p[k]
    <3>1. k \in 1..(n + 1) /\ k + 1 \in 1..(n + 1) /\ (k + 1) - 1 = k
      BY <1>2
    <3> QED BY <3>1, <1>12
  <2>3. l \in Nat /\ Len(s[k]) = l + 1 /\ (\A j \in 1..l : s[k][j] = t[j]) /\ s[k][l + 1] = c
    BY <1>10
  <2>4. \A j \in 1..(l + 1) : r + j \in 1..Len(z) /\ z[r + j] = s[k][j]
    BY <2>3, <1>8
  <2> HIDE DEF r, l, t
  <2>5. l + 1 \in 1..(l + 1) /\ \A j \in 1..l : j \in 1..(l + 1)
    BY <2>3
  <2>6. r + (l + 1) <= Len(z) /\ z[r + (l + 1)] = c
    BY <2>1, <2>3, <2>4, <2>5, <1>7
  <2>7. r + l <= Len(z) /\ \A j \in 1..l : z[r + j] = t[j]
    BY <2>1, <2>3, <2>4, <2>5, <2>6, <1>7
  <2>8. LiesAt(t, z, r)
    BY <2>7 DEF LiesAt, l, t
  <2>9. LiesAt(sep, z, r + l)
    <3>1. (r + l) + 1 <= Len(z) /\ (r + l) + 1 = r + (l + 1)
      BY <2>1, <2>3, <2>6, <1>7
    <3>2. \A j \in 1..1 : j = 1
      OBVIOUS
    <3> QED BY <3>1, <3>2, <2>6, <1>2 DEF LiesAt
  <2>10. b[k + 1] = r + l + 1
    BY <2>1, <2>2, <2>3
  <2> QED BY <2>2, <2>8, <2>9, <2>10 DEF t, l
<1>15. \A k \in 1..(n + 1) : LiesAt(F[k], z, b[k])
  <2> TAKE k \in 1..(n + 1)
  <2>1. CASE k = n + 1
    <3>1. F[k] = e /\ b[k] = p[n] /\ (n + 1) - 1 = n
      BY <2>1, <1>2, <1>9, <1>12
    <3>2. b[k] + 0 <= Len(z)
      BY <3>1, <1>7, <1>8
    <3>3. \A j \in 1..0 : FALSE
      OBVIOUS
    <3> QED BY <3>1, <3>2, <3>3, <1>2 DEF LiesAt
  <2>2. CASE k # n + 1
    <3>1. k \in 1..n
      BY <2>2, <1>2
    <3> QED BY <3>1, <1>9, <1>14
  <2> QED BY <2>1, <2>2
<1>16. \A k \in 1..((n + 1) - 1) : LiesAt(sep, z, b[k] + Len(F[k]))
                                   /\ b[k + 1] = b[k] + Len(F[k]) + Len(sep)
  <2> TAKE k \in 1..((n + 1) - 1)
  <2>1. k \in 1..n
    BY <1>2
  <2> QED BY <2>1, <1>2, <1>9, <1>14
<1>17. b[n + 1] + Len(F[n + 1]) = Len(z)
  <2>1. n + 1 \in 1..(n + 1) /\ (n + 1) - 1 = n
    BY <1>2
  <2>2. b[n + 1] = Len(z)
    BY <2>1, <1>8, <1>12
  <2> QED BY <2>2, <1>2, <1>7, <1>9
<1>18. Cut(z, F, sep, b)
  BY <1>9, <1>11, <1>13, <1>15, <1>16, <1>17 DEF Cut
<1> QED BY <1>6, <1>18 DEF Cuts, z, s, F, e, sep

-----------------------------------------------------------------------------
(* Texts between quotes, their own doubled, and what reading them gives.     *)

\* The recursive function in Undoubled.
UndoubleOf(z, q) ==
    CHOOSE d : d = [i \in 1..(Len(z) + 2) |->
        IF i > Len(z) THEN <<>>
        ELSE IF z[i] # q THEN <<z[i]>> \o d[i + 1]
        ELSE IF i = Len(z) THEN <<>> ELSE <<z[i + 1]>> \o d[i + 2]]

LEMMA UndoubledIs ==
    \A z, q : Undoubled(z, q) = IF z # <<>> /\ Head(z) = q THEN UndoubleOf(z, q)[2] ELSE z
BY DEF Undoubled, UndoubleOf

Undoubles(z, q, d) ==
    \A i \in 1..(Len(z) + 2) :
        d[i] = IF i > Len(z) THEN <<>>
               ELSE IF z[i] # q THEN <<z[i]>> \o d[i + 1]
               ELSE IF i = Len(z) THEN <<>> ELSE <<z[i + 1]>> \o d[i + 2]

LEMMA UndoubleOfIs ==
    ASSUME NEW X, NEW z \in Seq(X), NEW q
    PROVE  Undoubles(z, q, UndoubleOf(z, q))
<1> DEFINE n == Len(z)
           e == n + 2
           V == Seq(X)
           o == <<>>
           stop == {i \in 1..e : i > n \/ (i = n /\ z[i] = q)}
           w == [i \in 1..e |-> o]
           jump == [i \in 1..e |-> IF z[i] # q THEN i + 1 ELSE i + 2]
           first == [i \in 1..e |-> IF i \in stop THEN o ELSE IF z[i] # q THEN <<z[i]>> ELSE <<z[i + 1]>>]
           step == [p \in (1..e) \X V |-> first[p[1]] \o p[2]]
           Is(d) == d = [i \in 1..e |->
                          IF i > n THEN o
                          ELSE IF z[i] # q THEN <<z[i]>> \o d[i + 1]
                          ELSE IF i = n THEN o ELSE <<z[i + 1]>> \o d[i + 2]]
<1>1. n \in Nat /\ e \in Nat /\ 1 \in Nat /\ e = n + 2 /\ o \in V
  OBVIOUS
<1>2. \A i \in 1..n : <<z[i]>> \in V
  <2> TAKE i \in 1..n
  <2>1. z[i] \in X
    BY ElementOfSeq
  <2> QED BY <2>1, OneElement
<1>3. \A a \in V, b \in V : a \o b \in V
  BY ConcatProperties
<1>4. UndoubleOf(z, q) = CHOOSE d : Is(d)
  BY DEF UndoubleOf
<1> HIDE DEF n, V, o, e
<1>5. w \in [1..e -> V]
  BY <1>1
<1>6. \A i \in 1..e : i \notin stop => /\ i \in 1..n
                                      /\ (z[i] = q => i + 1 \in 1..n)
  BY <1>1
<1>7. \A i \in 1..e : i \in stop <=> i > n \/ (i = n /\ z[i] = q)
  OBVIOUS
<1>8. first \in [1..e -> V]
  <2> HIDE DEF stop
  <2>1. ASSUME NEW i \in 1..e
        PROVE (IF i \in stop THEN o ELSE IF z[i] # q THEN <<z[i]>> ELSE <<z[i + 1]>>) \in V
    <3>1. CASE i \in stop
      BY <3>1, <1>1
    <3>2. CASE i \notin stop /\ z[i] # q
      BY <3>2, <1>2, <1>6
    <3>3. CASE i \notin stop /\ z[i] = q
      BY <3>3, <1>2, <1>6
    <3> QED BY <3>1, <3>2, <3>3
  <2> QED BY <2>1
<1>9. \A i \in 1..e : first[i] = IF i \in stop THEN o ELSE IF z[i] # q THEN <<z[i]>> ELSE <<z[i + 1]>>
  OBVIOUS
<1>10. Jumps(1, e, stop, jump)
  <2> SUFFICES ASSUME NEW i \in (1..e) \ stop PROVE jump[i] \in (i + 1)..e
    BY DEF Jumps
  <2>1. i \in 1..e /\ i \in 1..n /\ jump[i] = IF z[i] # q THEN i + 1 ELSE i + 2
    BY <1>6
  <2> HIDE DEF jump, stop
  <2> QED BY <2>1, <1>1
<1>11. \A i \in 1..e : w[i] = o /\ jump[i] = IF z[i] # q THEN i + 1 ELSE i + 2
  OBVIOUS
<1> HIDE DEF first, w, jump, stop
<1>12. step \in [(1..e) \X V -> V]
  BY <1>3, <1>8
<1>13. \A i \in 1..e, v \in V : step[<<i, v>>] = first[i] \o v
  OBVIOUS
<1> HIDE DEF step
<1>14. PICK d \in [1..e -> V] : Follows(1, e, stop, w, jump, step, d)
  BY <1>1, <1>5, <1>10, <1>12, BackwardRecursion
<1>15. ASSUME NEW i \in 1..e
       PROVE  d[i] = IF i > n THEN o
                     ELSE IF z[i] # q THEN <<z[i]>> \o d[i + 1]
                     ELSE IF i = n THEN o ELSE <<z[i + 1]>> \o d[i + 2]
  <2>1. d[i] = IF i \in stop THEN w[i] ELSE step[<<i, d[jump[i]]>>]
    BY <1>14 DEF Follows
  <2>2. CASE i \in stop
    BY <2>1, <2>2, <1>7, <1>11
  <2>3. CASE i \notin stop
    <3> DEFINE k == jump[i]
    <3>1. k \in 1..e
      BY <2>3, <1>6, <1>11, <1>1
    <3>2. d[k] \in V
      BY <3>1, <1>14
    <3>3. d[i] = first[i] \o d[k]
      BY <2>1, <2>3, <3>2, <1>13
    <3>4. k = IF z[i] # q THEN i + 1 ELSE i + 2
      BY <1>11
    <3>5. ~(i > n) /\ (z[i] = q => i # n)
      BY <2>3, <1>7
    <3>6. first[i] = IF z[i] # q THEN <<z[i]>> ELSE <<z[i + 1]>>
      BY <2>3, <1>9
    <3> HIDE DEF k
    <3> QED BY <3>3, <3>4, <3>5, <3>6
  <2> QED BY <2>2, <2>3
<1>16. Is(d)
  BY <1>14, <1>15
<1> DEFINE g == CHOOSE h : Is(h)
<1>17. Is(g)
  <2> HIDE DEF Is
  <2> QED BY <1>16, Zenon
<1> HIDE DEF g
<1>18. \A i \in 1..e :
          g[i] = IF i > n THEN o
                 ELSE IF z[i] # q THEN <<z[i]>> \o g[i + 1]
                 ELSE IF i = n THEN o ELSE <<z[i + 1]>> \o g[i + 2]
  BY <1>17
<1> HIDE DEF Is
<1>19. UndoubleOf(z, q) = g
  BY <1>4 DEF g
<1> QED BY <1>18, <1>19 DEF Undoubles, n, o, e

\* The pieces of a doubled text.
Doubles(z, q) == [i \in DOMAIN z |-> IF z[i] = q THEN <<q, q>> ELSE <<z[i]>>]

LEMMA DoublesTyped ==
    ASSUME NEW X, NEW Words, Words = Seq(X), NEW z \in Seq(X), NEW q \in X
    PROVE  /\ Doubles(z, q) \in Seq(Words) /\ Len(Doubles(z, q)) = Len(z)
           /\ \A k \in 1..Len(z) : Doubles(z, q)[k] = IF z[k] = q THEN <<q, q>> ELSE <<z[k]>>
<1> DEFINE n == Len(z)
           s == Doubles(z, q)
<1>1. n \in Nat /\ DOMAIN z = 1..n
  OBVIOUS
<1>2. ASSUME NEW k \in 1..n PROVE (IF z[k] = q THEN <<q, q>> ELSE <<z[k]>>) \in Words
  <2>1. z[k] \in X
    BY ElementOfSeq
  <2>2. <<z[k]>> \in Seq(X) /\ <<q, q>> \in Seq(X)
    BY <2>1, OneElement, TwoElements
  <2> QED BY <2>2
<1> HIDE DEF n
<1>3. s = [k \in 1..n |-> IF z[k] = q THEN <<q, q>> ELSE <<z[k]>>]
  BY <1>1 DEF Doubles
<1>4. s \in [1..n -> Words]
  BY <1>2, <1>3
<1> HIDE DEF s
<1>5. s \in Seq(Words) /\ Len(s) = n
  BY <1>1, <1>4, SeqMadeOf
<1> QED BY <1>3, <1>5 DEF s, n

Quoted(z, q) == <<q>> \o Doubled(z, q) \o <<q>>

\* D between quotes.
Encloses(w, D, q) ==
    /\ Len(w) = Len(D) + 2 /\ w[1] = q /\ w[Len(D) + 2] = q
    /\ \A j \in 1..Len(D) : w[j + 1] = D[j]

LEMMA QuotedEncloses ==
    ASSUME NEW X, NEW D \in Seq(X), NEW q \in X
    PROVE  <<q>> \o D \o <<q>> \in Seq(X) /\ Encloses(<<q>> \o D \o <<q>>, D, q)
<1> DEFINE c == <<q>>
           f == c \o D
           w == f \o c
           n == Len(D)
<1>1. c \in Seq(X) /\ Len(c) = 1 /\ c[1] = q
  BY OneElement
<1>2. n \in Nat /\ n = Len(D)
  OBVIOUS
<1> HIDE DEF c, n
<1>3. /\ f \in Seq(X) /\ Len(f) = Len(c) + Len(D)
      /\ \A i \in 1..(Len(c) + Len(D)) : f[i] = IF i <= Len(c) THEN c[i] ELSE D[i - Len(c)]
  BY <1>1, ConcatProperties
<1>4. /\ f \in Seq(X) /\ Len(f) = 1 + n
      /\ \A i \in 1..(1 + n) : f[i] = IF i <= 1 THEN c[i] ELSE D[i - 1]
  BY <1>1, <1>2, <1>3
<1> HIDE DEF f
<1>5. /\ w \in Seq(X) /\ Len(w) = Len(f) + Len(c)
      /\ \A i \in 1..(Len(f) + Len(c)) : w[i] = IF i <= Len(f) THEN f[i] ELSE c[i - Len(f)]
  BY <1>1, <1>4, ConcatProperties
<1>6. /\ w \in Seq(X) /\ Len(w) = (1 + n) + 1
      /\ \A i \in 1..((1 + n) + 1) : w[i] = IF i <= 1 + n THEN f[i] ELSE c[i - (1 + n)]
  BY <1>1, <1>4, <1>5
<1> HIDE DEF w
<1>7. Len(w) = n + 2
  BY <1>2, <1>6
<1>8. w[1] = q
  <2>1. 1 \in 1..((1 + n) + 1) /\ 1 <= 1 + n /\ 1 \in 1..(1 + n)
    BY <1>2
  <2> QED BY <2>1, <1>1, <1>4, <1>6
<1>9. w[n + 2] = q
  <2>1. n + 2 \in 1..((1 + n) + 1) /\ ~(n + 2 <= 1 + n) /\ (n + 2) - (1 + n) = 1
    BY <1>2
  <2> QED BY <2>1, <1>1, <1>6
<1>10. ASSUME NEW j \in 1..n PROVE w[j + 1] = D[j]
  <2>1. /\ j + 1 \in 1..((1 + n) + 1) /\ j + 1 <= 1 + n /\ j + 1 \in 1..(1 + n)
        /\ ~(j + 1 <= 1) /\ (j + 1) - 1 = j
    BY <1>2
  <2> QED BY <2>1, <1>4, <1>6
<1>11. w \in Seq(X) /\ Encloses(w, D, q)
  BY <1>2, <1>6, <1>7, <1>8, <1>9, <1>10 DEF Encloses
<1> QED BY <1>11 DEF w, f, c

\* Reading a text between quotes gives the text.
LEMMA QuotedReads ==
    ASSUME NEW X, NEW z \in Seq(X), NEW q \in X
    PROVE  /\ Quoted(z, q) \in Seq(X) /\ Quoted(z, q) # <<>> /\ Head(Quoted(z, q)) = q
           /\ Undoubled(Quoted(z, q), q) = z
<1> DEFINE n == Len(z)
           s == Doubles(z, q)
           D == Doubled(z, q)
           w == Quoted(z, q)
           d == UndoubleOf(w, q)
           Words == Seq(X)
           o == <<>>
           W == Words
<1>1. n \in Nat /\ \A k \in 1..n : z[k] \in X
  BY ElementOfSeq
<1>2. /\ s \in Seq(Words) /\ Len(s) = n
      /\ \A k \in 1..n : s[k] = IF z[k] = q THEN <<q, q>> ELSE <<z[k]>>
  BY DoublesTyped
<1>3. D = FlattenSeq(s)
  BY DEF Doubled, Doubles
<1>4. W = Seq(X)
  OBVIOUS
<1> HIDE DEF s, D, W
<1>5. Laid(s, X)
  <2>1. s \in Seq(W)
    BY <1>2 DEF W
  <2> QED BY <2>1, <1>4, FlattenPlaces
<1>6. D \in Seq(X) /\ \E p : Places(s, D, p)
  BY <1>3, <1>5 DEF Laid
<1>7. PICK p : Places(s, D, p)
  BY <1>6
<1>8. w \in Seq(X) /\ Encloses(w, D, q)
  BY <1>6, QuotedEncloses DEF Quoted, D
<1>9. /\ z = SubSeq(z, 1, n) /\ SubSeq(z, n + 1, n) = o
  OBVIOUS
<1>10. \A i \in 1..n : SubSeq(z, i, n) = <<z[i]>> \o SubSeq(z, i + 1, n)
  BY RestFrom
<1> HIDE DEF w, Words
<1>11. w # <<>> /\ Head(w) = q
  <2>1. Len(w) > 0 /\ w[1] = q
    <3>1. Len(D) \in Nat
      BY <1>6
    <3> QED BY <3>1, <1>8 DEF Encloses
  <2>2. w # <<>>
    BY <2>1
  <2>3. Head(w) = w[1]
    BY <1>8, <2>2
  <2> QED BY <2>1, <2>2, <2>3
<1>12. Undoubled(w, q) = d[2]
  BY <1>11, UndoubledIs
<1>13. Undoubles(w, q, d)
  BY <1>8, UndoubleOfIs
<1> DEFINE m == Len(D)
<1>14. m \in Nat
  BY <1>6
<1>15. Len(w) = m + 2 /\ w[m + 2] = q /\ \A j \in 1..m : w[j + 1] = D[j]
  BY <1>8 DEF Encloses
<1> HIDE DEF d, n, m, o
<1>16. \A i \in 1..(m + 4) :
          d[i] = IF i > m + 2 THEN <<>>
                 ELSE IF w[i] # q THEN <<w[i]>> \o d[i + 1]
                 ELSE IF i = m + 2 THEN <<>> ELSE <<w[i + 1]>> \o d[i + 2]
  <2>1. (m + 2) + 2 = m + 4
    BY <1>14
  <2> QED BY <2>1, <1>13, <1>15 DEF Undoubles
<1>17. /\ p \in [0..n -> Nat] /\ p[0] = 0 /\ p[n] = m
       /\ \A k \in 1..n : p[k] = p[k - 1] + Len(s[k])
       /\ \A k \in 1..n : \A j \in 1..Len(s[k]) : p[k - 1] + j \in 1..m /\ D[p[k - 1] + j] = s[k][j]
  BY <1>2, <1>7 DEF Places, m
<1> DEFINE S == {k \in 0..n : d[p[k] + 2] = SubSeq(z, k + 1, n)}
<1>18. \A k \in 0..n : (\A l \in (k + 1)..n : l \in S) => k \in S
  <2> SUFFICES ASSUME NEW k \in 0..n, \A l \in (k + 1)..n : l \in S
               PROVE  d[p[k] + 2] = SubSeq(z, k + 1, n)
    OBVIOUS
  <2>1. CASE k = n
    <3>1. m + 2 \in 1..(m + 4) /\ ~(m + 2 > m + 2)
      BY <1>14
    <3>2. d[m + 2] = <<>>
      BY <3>1, <1>15, <1>16
    <3> QED BY <2>1, <3>2, <1>9, <1>17 DEF o
  <2>2. CASE k # n
    <3> DEFINE c == z[k + 1]
               r == p[k]
               t == s[k + 1]
    <3>1. k + 1 \in 1..n /\ k + 1 \in (k + 1)..n /\ (k + 1) - 1 = k /\ k + 1 \in 0..n
      BY <2>2, <1>1
    <3>2. r \in Nat /\ p[k + 1] = r + Len(t)
      BY <3>1, <1>17
    <3>3. \A j \in 1..Len(t) : r + j \in 1..m /\ D[r + j] = t[j]
      BY <3>1, <1>17
    <3>4. t = IF c = q THEN <<q, q>> ELSE <<c>>
      BY <3>1, <1>2
    <3>5. d[p[k + 1] + 2] = SubSeq(z, (k + 1) + 1, n)
      BY <3>1, <2>2
    <3>6. SubSeq(z, k + 1, n) = <<c>> \o SubSeq(z, (k + 1) + 1, n)
      BY <3>1, <1>10
    <3> HIDE DEF c, r, t
    <3>7. CASE c = q
      <4>1. Len(t) = 2 /\ t[1] = q /\ t[2] = q
        BY <3>4, <3>7
      <4>2. 1 \in 1..2 /\ 2 \in 1..2
        OBVIOUS
      <4>3. r + 1 \in 1..m /\ r + 2 \in 1..m /\ D[r + 1] = q /\ D[r + 2] = q
        BY <3>3, <4>1, <4>2
      <4>4. (r + 1) + 1 = r + 2 /\ (r + 2) + 1 = r + 3 /\ (r + 2) + 2 = r + 4
        BY <3>2
      <4>5. w[r + 2] = q /\ w[r + 3] = q
        BY <4>3, <4>4, <1>15
      <4>6. r + 2 \in 1..(m + 4) /\ ~(r + 2 > m + 2) /\ r + 2 # m + 2
        BY <3>2, <4>3, <1>14
      <4>7. d[r + 2] = <<w[(r + 2) + 1]>> \o d[(r + 2) + 2]
        BY <4>5, <4>6, <1>16
      <4>8. d[r + 2] = <<q>> \o d[r + 4]
        BY <4>4, <4>5, <4>7
      <4>9. p[k + 1] + 2 = r + 4
        BY <3>2, <4>1
      <4>10. d[r + 4] = SubSeq(z, (k + 1) + 1, n)
        BY <3>5, <4>9
      <4> QED BY <3>6, <3>7, <4>8, <4>10 DEF r
    <3>8. CASE c # q
      <4>1. Len(t) = 1 /\ t[1] = c
        BY <3>4, <3>8
      <4>2. 1 \in 1..1
        OBVIOUS
      <4>3. r + 1 \in 1..m /\ D[r + 1] = c
        BY <3>3, <4>1, <4>2
      <4>4. (r + 1) + 1 = r + 2 /\ (r + 2) + 1 = r + 3
        BY <3>2
      <4>5. w[r + 2] = c
        BY <4>3, <4>4, <1>15
      <4>6. r + 2 \in 1..(m + 4) /\ ~(r + 2 > m + 2)
        BY <3>2, <4>3, <1>14
      <4>7. d[r + 2] = <<w[r + 2]>> \o d[(r + 2) + 1]
        BY <3>8, <4>5, <4>6, <1>16
      <4>8. d[r + 2] = <<c>> \o d[r + 3]
        BY <4>4, <4>5, <4>7
      <4>9. p[k + 1] + 2 = r + 3
        BY <3>2, <4>1
      <4>10. d[r + 3] = SubSeq(z, (k + 1) + 1, n)
        BY <3>5, <4>9
      <4> QED BY <3>6, <4>8, <4>10 DEF r
    <3> QED BY <3>7, <3>8
  <2> QED BY <2>1, <2>2
<1>19. 0 \in S
  <2>1. 0 \in 0..n /\ 0 \in Nat
    BY <1>1
  <2> HIDE DEF S
  <2>2. \A k \in 0..n : k \in S
    BY <1>1, <1>18, <2>1, BackwardInduction
  <2> QED BY <2>1, <2>2
<1>20. d[2] = z
  <2>1. d[p[0] + 2] = SubSeq(z, 0 + 1, n) /\ 0 + 1 = 1 /\ 0 + 2 = 2
    BY <1>19
  <2> QED BY <2>1, <1>9, <1>17
<1> QED BY <1>8, <1>11, <1>12, <1>20 DEF w

\* Texts joined by a separator after which the quotes are as before.
LEMMA JoinedPath ==
    ASSUME NEW X, NEW Words, Words = Seq(X), NEW F \in Seq(Words), NEW sep \in Seq(X),
           NEW q, NEW C, AllPaths(F, q, C, 0), Path(sep, q, C, 0, 0)
    PROVE  Path(Joined(F, sep), q, C, 0, 0)
<1> DEFINE s == Between(F, sep)
           n == Len(F)
<1>1. /\ s \in Seq(Words) /\ Len(s) = n
      /\ \A k \in 1..n : s[k] = IF k = 1 THEN F[k] ELSE sep \o F[k]
  BY BetweenTyped
<1>2. Joined(F, sep) = FlattenSeq(s)
  BY DEF Joined, Between
<1> HIDE DEF s
<1>3. AllPaths(s, q, C, 0)
  <2> SUFFICES ASSUME NEW k \in 1..n PROVE Path(s[k], q, C, 0, 0)
    BY <1>1 DEF AllPaths
  <2> DEFINE t == F[k]
  <2>1. t \in Words
    BY ElementOfSeq
  <2>2. t \in Seq(X) /\ Path(t, q, C, 0, 0) /\ s[k] = IF k = 1 THEN t ELSE sep \o t
    BY <2>1, <1>1 DEF AllPaths
  <2> HIDE DEF t
  <2>3. Path(sep \o t, q, C, 0, 0)
    BY <2>2, PathConcat
  <2> QED BY <2>2, <2>3
<1>4. 0 \in 0..1
  OBVIOUS
<1>5. Path(FlattenSeq(s), q, C, 0, 0)
  BY <1>1, <1>3, <1>4, PathFlatten
<1> QED BY <1>2, <1>5

-----------------------------------------------------------------------------
(* A field of CSV.                                                           *)

\* What f must be to be read back as z: the quotes are closed, and hide the
\* separator and the newline; the line cannot end with a carriage return.
GoodField(f, z, sep, Words) ==
    /\ f \in Words /\ Len(f) > 0 /\ f[Len(f)] # "cr"
    /\ Path(f, Quote, {sep[1]}, 0, 0) /\ Path(f, Quote, {"nl"}, 0, 0)
    /\ Undoubled(f, Quote) = z

\* A separator that is neither the quote nor the newline.
GoodSeparator(sep, X) ==
    /\ sep \in Seq(X) /\ Len(sep) > 0
    /\ \A i \in 1..Len(sep) : sep[i] \notin {Quote, "nl"}

\* No character of z begins a separator of several characters.
SafeFrom(z, sep) == Len(sep) = 1 \/ \A i \in 1..Len(z) : z[i] # sep[1]

LEMMA CsvFieldGood ==
    ASSUME NEW X, Quote \in X, NEW Words, Words = Seq(X), NEW z \in Seq(X),
           NEW sep, GoodSeparator(sep, X), SafeFrom(z, sep)
    PROVE  GoodField(CsvField(z, sep), z, sep, Words)
<1> DEFINE c == sep[1]
           n == Len(z)
<1>1. sep \in Seq(X) /\ Len(sep) > 0 /\ c # Quote /\ c # "nl"
  <2>1. sep \in Seq(X) /\ Len(sep) > 0 /\ \A i \in 1..Len(sep) : sep[i] \notin {Quote, "nl"}
    BY DEF GoodSeparator
  <2>2. 1 \in 1..Len(sep)
    BY <2>1
  <2> QED BY <2>1, <2>2
<1>2. n \in Nat /\ DOMAIN z = 1..n /\ (z # <<>> => n > 0)
  OBVIOUS
<1> HIDE DEF c
<1>3. CASE z = <<>> \/ NeedsQuote(z, sep)
  <2> DEFINE f == Quoted(z, Quote)
             D == Doubled(z, Quote)
  <2>1. CsvField(z, sep) = f
    BY <1>3 DEF CsvField, Quoted
  <2>2. f \in Seq(X) /\ Undoubled(f, Quote) = z
    BY QuotedReads
  <2>3. \A C : Quote \notin C => D \in Seq(X) /\ Path(f, Quote, C, 0, 0)
    BY PathDoubled DEF Quoted
  <2>4. Quote \notin {c} /\ Quote \notin {"nl"}
    BY <1>1 DEF Quote
  <2>5. D \in Seq(X) /\ Path(f, Quote, {c}, 0, 0) /\ Path(f, Quote, {"nl"}, 0, 0)
    BY <2>3, <2>4
  <2>6. Encloses(f, D, Quote)
    BY <2>5, QuotedEncloses DEF Quoted
  <2>7. Len(f) > 0 /\ f[Len(f)] = Quote
    <3>1. Len(D) \in Nat
      BY <2>5
    <3> HIDE DEF D, f
    <3> QED BY <3>1, <2>6 DEF Encloses
  <2>8. Quote # "cr"
    BY DEF Quote
  <2> HIDE DEF f
  <2>9. GoodField(f, z, sep, Words)
    BY <2>2, <2>5, <2>7, <2>8 DEF GoodField, c
  <2> QED BY <2>1, <2>9
<1>4. CASE ~(z = <<>> \/ NeedsQuote(z, sep))
  <2>1. CsvField(z, sep) = z
    BY <1>4 DEF CsvField
  <2>2. n > 0
    BY <1>2, <1>4
  <2>3. \A i \in 1..n : /\ z[i] \notin NeedCsvQuote
                        /\ ~(sep # <<>> /\ z[i] = c /\ (Len(sep) = 1 \/ IsPrefix(sep, z)))
    BY <1>2, <1>4 DEF NeedsQuote, c
  <2>4. sep # <<>>
    BY <1>1
  <2>5. \A i \in 1..n : z[i] # c
    BY <2>3, <2>4 DEF SafeFrom, c
  <2>6. Quote \in NeedCsvQuote /\ "nl" \in NeedCsvQuote /\ "cr" \in NeedCsvQuote
    BY DEF NeedCsvQuote, White
  <2>7. \A i \in 1..n : z[i] # Quote /\ z[i] # "nl" /\ z[i] # "cr"
    BY <2>3, <2>6
  <2>8. \A i \in 1..n : z[i] # Quote /\ z[i] \notin {c}
    BY <2>5, <2>7
  <2>9. Path(z, Quote, {c}, 0, 0)
    BY <2>8, PathClear
  <2>10. \A i \in 1..n : z[i] # Quote /\ z[i] \notin {"nl"}
    BY <2>7
  <2>11. Path(z, Quote, {"nl"}, 0, 0)
    BY <2>10, PathClear
  <2>12. n \in 1..n /\ 1 \in 1..n
    BY <1>2, <2>2
  <2>13. z[n] # "cr" /\ z[1] # Quote
    BY <2>7, <2>12
  <2>14. Undoubled(z, Quote) = z
    <3>1. Head(z) = z[1]
      BY <1>4
    <3> QED BY <3>1, <2>13, UndoubledIs
  <2> QED BY <2>1, <2>2, <2>9, <2>11, <2>13, <2>14 DEF GoodField, c
<1> QED BY <1>3, <1>4

GoodFields(F, T, sep, Words) ==
    Len(F) = Len(T) /\ \A k \in 1..Len(F) : GoodField(F[k], T[k], sep, Words)

\* A line that is read back as the fields T.
GoodLine(line, T, sep, Words) ==
    /\ line \in Words /\ Len(line) > 0 /\ line[Len(line)] # "cr"
    /\ Path(line, Quote, {"nl"}, 0, 0)
    /\ ImportFields(line, sep) = T

LEMMA CsvLineGood ==
    ASSUME NEW X, NEW Words, Words = Seq(X), NEW F \in Seq(Words), Len(F) > 0,
           NEW T \in Seq(Words), NEW sep, GoodSeparator(sep, X), GoodFields(F, T, sep, Words)
    PROVE  GoodLine(Joined(F, sep), T, sep, Words)
<1> DEFINE z == Joined(F, sep)
           n == Len(F)
           fields == SplitOutside(z, sep, Quote)
<1>1. /\ sep \in Seq(X) /\ Len(sep) > 0 /\ sep[1] # Quote
      /\ \A i \in 1..Len(sep) : sep[i] # Quote /\ sep[i] \notin {"nl"}
  <2>1. sep \in Seq(X) /\ Len(sep) > 0 /\ \A i \in 1..Len(sep) : sep[i] \notin {Quote, "nl"}
    BY DEF GoodSeparator
  <2>2. 1 \in 1..Len(sep)
    BY <2>1
  <2> QED BY <2>1, <2>2
<1>2. ASSUME NEW k \in 1..n
      PROVE  /\ F[k] \in Words /\ Len(F[k]) > 0 /\ F[k][Len(F[k])] # "cr"
             /\ Path(F[k], Quote, {sep[1]}, 0, 0) /\ Path(F[k], Quote, {"nl"}, 0, 0)
             /\ Undoubled(F[k], Quote) = T[k]
  BY DEF GoodFields, GoodField
<1>3. n = Len(T) /\ n \in Nat /\ n > 0 /\ n \in 1..n
  BY DEF GoodFields
<1>4. AllPaths(F, Quote, {sep[1]}, 0) /\ AllPaths(F, Quote, {"nl"}, 0)
  BY <1>2 DEF AllPaths
<1>5. Path(sep, Quote, {"nl"}, 0, 0)
  BY <1>1, PathClear
<1>6. Path(z, Quote, {"nl"}, 0, 0)
  BY <1>1, <1>4, <1>5, JoinedPath
<1>7. z \in Seq(X) /\ Cuts(z, F, sep)
  BY <1>1, JoinedCut
<1>8. PICK b : Cut(z, F, sep, b)
  BY <1>7 DEF Cuts
<1> HIDE DEF z
<1>9. fields = F
  BY <1>1, <1>4, <1>7, <1>8, SplitCut
<1>10. Len(z) > 0 /\ z[Len(z)] # "cr"
  <2> DEFINE t == F[n]
             l == Len(t)
             e == b[n]
  <2>1. t \in Words /\ l > 0 /\ t[l] # "cr"
    BY <1>2, <1>3
  <2>2. l \in Nat
    BY <2>1
  <2>3. e \in Nat /\ LiesAt(t, z, e) /\ e + l = Len(z)
    BY <1>3, <1>8 DEF Cut
  <2> HIDE DEF t, e, l
  <2>4. l \in 1..l
    BY <2>1, <2>2
  <2>5. z[e + l] = t[l]
    BY <2>3, <2>4 DEF LiesAt, l
  <2>6. e + l > 0
    BY <2>1, <2>2, <2>3
  <2>7. z[e + l] # "cr"
    BY <2>1, <2>5
  <2> QED BY <2>3, <2>6, <2>7
<1>11. ImportFields(z, sep) = T
  <2>1. ImportFields(z, sep) = [i \in DOMAIN F |-> Undoubled(F[i], Quote)]
    BY <1>9 DEF ImportFields
  <2>2. DOMAIN F = 1..n /\ T = [i \in 1..n |-> T[i]]
    BY <1>3
  <2> HIDE DEF n
  <2> QED BY <2>1, <2>2, <1>2
<1>12. GoodLine(z, T, sep, Words)
  BY <1>6, <1>7, <1>10, <1>11 DEF GoodLine
<1> QED BY <1>12 DEF z

\* Lines that .import can tell apart.
GoodLines(L, Words) ==
    /\ L \in Seq(Words)
    /\ \A k \in 1..Len(L) : /\ Len(L[k]) > 0 /\ L[k][Len(L[k])] # "cr"
                            /\ Path(L[k], Quote, {"nl"}, 0, 0)

LEMMA CsvLinesAre ==
    ASSUME NEW X, NEW Words, Words = Seq(X), "nl" \in X, NEW L, GoodLines(L, Words)
    PROVE  CsvLines(FlattenSeq(Lines(L, "nl"))) = L
<1> DEFINE z == FlattenSeq(Lines(L, "nl"))
           o == <<>>
           F == Append(L, o)
           sep == <<"nl">>
           n == Len(L)
           Chomped(t) == IF t # <<>> /\ t[Len(t)] = "cr" THEN SubSeq(t, 1, Len(t) - 1) ELSE t
           lines == SplitOutside(z, sep, Quote)
           all == IF lines[Len(lines)] = <<>> THEN SubSeq(lines, 1, Len(lines) - 1) ELSE lines
<1>1. L \in Seq(Words)
  BY DEF GoodLines
<1>2. n \in Nat /\ o \in Words /\ DOMAIN L = 1..n /\ L = [i \in 1..n |-> L[i]]
  BY <1>1
<1>3. ASSUME NEW k \in 1..n
      PROVE  Path(L[k], Quote, {"nl"}, 0, 0) /\ Chomped(L[k]) = L[k]
  BY DEF GoodLines
<1>4. CsvLines(z) = [i \in DOMAIN all |-> IF i < Len(lines) THEN Chomped(all[i]) ELSE all[i]]
  BY DEF CsvLines
<1>5. z \in Seq(X) /\ Cuts(z, F, sep)
  BY <1>1, LinesCut
<1>6. sep \in Seq(X) /\ Len(sep) > 0 /\ sep[1] = "nl" /\ sep[1] # Quote
  <2>1. sep \in Seq(X)
    BY OneElement
  <2> QED BY <2>1 DEF Quote
<1>7. F \in Seq(Words) /\ Len(F) = n + 1 /\ F[n + 1] = o /\ \A k \in 1..n : F[k] = L[k]
  <2> HIDE DEF o
  <2> QED BY <1>1, <1>2, AppendProperties
<1>8. AllPaths(F, Quote, {sep[1]}, 0)
  <2> SUFFICES ASSUME NEW k \in 1..(n + 1) PROVE Path(F[k], Quote, {"nl"}, 0, 0)
    BY <1>6, <1>7 DEF AllPaths
  <2>1. CASE k = n + 1
    BY <2>1, <1>7, PathEmpty
  <2>2. CASE k # n + 1
    <3>1. k \in 1..n
      BY <2>2, <1>2
    <3> QED BY <3>1, <1>3, <1>7
  <2> QED BY <2>1, <2>2
<1>9. PICK b : Cut(z, F, sep, b)
  BY <1>5 DEF Cuts
<1> HIDE DEF z, sep, F
<1>10. lines = F
  <2>1. Len(F) > 0
    BY <1>2, <1>7
  <2>2. z \in Seq(X) /\ F \in Seq(Words)
    BY <1>5, <1>7
  <2>3. sep \in Seq(X) /\ Len(sep) > 0 /\ sep[1] # Quote
    BY <1>6
  <2> HIDE DEF n, o
  <2>4. SplitOutside(z, sep, Quote) = F
    BY <2>1, <2>2, <2>3, <1>8, <1>9, SplitCut
  <2> QED BY <2>4
<1> HIDE DEF lines
<1>11. SubSeq(F, 1, n) = L
  <2> DEFINE t == SubSeq(F, 1, n)
  <2>1. \A i \in 1..n : F[i] \in Words
    <3> TAKE i \in 1..n
    <3>1. i \in 1..Len(F)
      BY <1>2, <1>7
    <3> QED BY <3>1, <1>7, ElementOfSeq
  <2>2. /\ t \in Seq(Words) /\ Len(t) = IF 1 <= n THEN n - 1 + 1 ELSE 0
        /\ \A i \in 1..(n - 1 + 1) : t[i] = F[1 + i - 1]
    BY <2>1, <1>2, SubSeqProperties
  <2> HIDE DEF t, n
  <2>3. n - 1 + 1 = n /\ \A i \in 1..n : 1 + i - 1 = i
    BY <1>2
  <2>31. Len(t) = n
    BY <2>2, <2>3, <1>2
  <2>32. ASSUME NEW i \in 1..n PROVE t[i] = L[i]
    <3>1. i \in 1..(n - 1 + 1) /\ 1 + i - 1 = i
      BY <2>3
    <3>2. t[i] = F[1 + i - 1]
      BY <2>2, <3>1
    <3> QED BY <3>1, <3>2, <1>7
  <2>4. Len(t) = n /\ \A i \in 1..n : t[i] = L[i]
    BY <2>31, <2>32
  <2>5. t = L
    BY <1>1, <2>2, <2>4, SeqEqual DEF n
  <2> QED BY <2>5 DEF t
<1>12. all = L
  <2>1. Len(lines) - 1 = n /\ lines[Len(lines)] = <<>>
    BY <1>2, <1>7, <1>10
  <2> QED BY <2>1, <1>10, <1>11
<1> HIDE DEF all, Chomped
<1>13. \A i \in 1..n : (IF i < Len(lines) THEN Chomped(all[i]) ELSE all[i]) = L[i]
  BY <1>3, <1>12
<1>14. DOMAIN all = 1..n
  BY <1>2, <1>12
<1> HIDE DEF n
<1>15. CsvLines(z) = [i \in 1..n |-> L[i]]
  BY <1>4, <1>13, <1>14
<1> QED BY <1>2, <1>15 DEF z

-----------------------------------------------------------------------------
(* Rows of CSV.                                                              *)

Symbol == Char \cup Digit \cup {"-"} \cup Keyword
Phrases == Seq(Symbol)

LEMMA TextsArePhrases ==
    /\ \A z \in Seq(Char) : z \in Phrases
    /\ \A z \in Numeral : z \in Phrases
    /\ Quote \in Symbol /\ "'" \in Symbol /\ "nl" \in Symbol /\ "," \in Symbol
<1> DEFINE N == Digit \cup {"-"}
<1>1. ASSUME NEW X, X \subseteq Symbol, NEW z \in Seq(X) PROVE z \in Phrases
  <2>1. z \in [1..Len(z) -> X] /\ Len(z) \in Nat
    OBVIOUS
  <2>2. z \in [1..Len(z) -> Symbol]
    BY <2>1, <1>1
  <2> QED BY <2>1, <2>2, SeqMadeOf DEF Phrases
<1>2. Char \subseteq Symbol /\ N \subseteq Symbol
  BY DEF Symbol
<1>3. \A z \in Seq(Char) : z \in Phrases
  BY <1>1, <1>2
<1>4. \A z \in Numeral : z \in Seq(N)
  BY DEF Numeral
<1> HIDE DEF N
<1>5. \A z \in Seq(N) : z \in Phrases
  BY <1>1, <1>2
<1>6. Quote \in Char /\ "'" \in Char /\ "nl" \in Char /\ "," \in Char
  BY CharAssumption DEF Delims, White
<1>7. Quote \in Symbol /\ "'" \in Symbol /\ "nl" \in Symbol /\ "," \in Symbol
  BY <1>2, <1>6
<1> QED BY <1>3, <1>4, <1>5, <1>7

LEMMA ValueText ==
    ASSUME NEW v \in Value
    PROVE  /\ v.text \in Phrases
           /\ \/ v = [type |-> "null", text |-> <<>>]
              \/ v.text \in Seq(Char) /\ v = [type |-> "text", text |-> v.text]
              \/ v.text \in Numeral /\ v = [type |-> "integer", text |-> v.text]
<1>1. CASE v \in [type : {"null"}, text : {<<>>}]
  <2>1. v = [type |-> "null", text |-> <<>>]
    BY <1>1
  <2>2. <<>> \in Phrases
    BY EmptyText, TextsArePhrases DEF Characters
  <2> QED BY <2>1, <2>2
<1>2. CASE v \in [type : {"text"}, text : Seq(Char)]
  <2>1. v.text \in Seq(Char) /\ v = [type |-> "text", text |-> v.text]
    BY <1>2
  <2> QED BY <2>1, TextsArePhrases
<1>3. CASE v \in [type : {"integer"}, text : Numeral]
  <2>1. v.text \in Numeral /\ v = [type |-> "integer", text |-> v.text]
    BY <1>3
  <2> QED BY <2>1, TextsArePhrases
<1> QED BY <1>1, <1>2, <1>3 DEF Value

\* What CsvReadsBack supposes of a row and of the settings.
SafeRow(row) ==
    \A j \in DOMAIN row : IF row[j].type = "null" THEN Plain(nullvalue) /\ Safe(nullvalue)
                          ELSE Safe(row[j].text)

CsvCells(row) ==
    [i \in DOMAIN row |-> IF row[i].type = "null" THEN nullvalue ELSE CsvField(row[i].text, separator)]
CsvBody(row) == Joined(CsvCells(row), separator)

LEMMA CsvCell ==
    ASSUME NEW v \in Value, nullvalue \in Seq(Char), GoodSeparator(separator, Symbol),
           IF v.type = "null" THEN Plain(nullvalue) /\ Safe(nullvalue) ELSE Safe(v.text)
    PROVE  /\ (IF v.type = "null" THEN nullvalue ELSE v.text) \in Phrases
           /\ GoodField(IF v.type = "null" THEN nullvalue ELSE CsvField(v.text, separator),
                        IF v.type = "null" THEN nullvalue ELSE v.text, separator, Phrases)
<1> DEFINE t == IF v.type = "null" THEN nullvalue ELSE v.text
<1>1. nullvalue \in Phrases /\ v.text \in Phrases
  BY ValueText, TextsArePhrases
<1>2. t \in Phrases /\ Safe(t)
  BY <1>1
<1>3. (IF v.type = "null" THEN nullvalue ELSE CsvField(v.text, separator)) = CsvField(t, separator)
  <2>1. CASE v.type = "null"
    <3>1. Plain(nullvalue)
      BY <2>1
    <3>2. CsvField(nullvalue, separator) = nullvalue
      BY <3>1 DEF Plain, CsvField
    <3> QED BY <2>1, <3>2
  <2>2. CASE v.type # "null"
    BY <2>2
  <2> QED BY <2>1, <2>2
<1> HIDE DEF t
<1>4. SafeFrom(t, separator)
  <2>1. DOMAIN t = 1..Len(t)
    BY <1>2 DEF Phrases
  <2> QED BY <2>1, <1>2 DEF Safe, SafeFrom
<1>5. Quote \in Symbol
  BY TextsArePhrases
<1> DEFINE W == Phrases
<1>6. W = Seq(Symbol) /\ t \in Seq(Symbol)
  BY <1>2 DEF Phrases
<1> HIDE DEF W
<1>7. GoodField(CsvField(t, separator), t, separator, W)
  BY <1>4, <1>5, <1>6, CsvFieldGood
<1> QED BY <1>2, <1>3, <1>7 DEF t, W

LEMMA CsvRow ==
    ASSUME NEW row \in Seq(Value), row # <<>>, nullvalue \in Seq(Char),
           GoodSeparator(separator, Symbol), SafeRow(row)
    PROVE  GoodLine(CsvBody(row), Texts(row), separator, Phrases)
<1> DEFINE n == Len(row)
           F == CsvCells(row)
           T == Texts(row)
           W == Phrases
<1>1. n \in Nat /\ n > 0 /\ DOMAIN row = 1..n /\ \A i \in 1..n : row[i] \in Value
  <2>1. \A i \in 1..n : row[i] \in Value
    BY ElementOfSeq
  <2> QED BY <2>1
<1> HIDE DEF n
<1>2. /\ F = [i \in 1..n |-> IF row[i].type = "null" THEN nullvalue ELSE CsvField(row[i].text, separator)]
      /\ T = [i \in 1..n |-> IF row[i].type = "null" THEN nullvalue ELSE row[i].text]
  BY <1>1 DEF CsvCells, Texts
<1> HIDE DEF F, T
<1>3. ASSUME NEW i \in 1..n PROVE T[i] \in W /\ GoodField(F[i], T[i], separator, W)
  <2> DEFINE v == row[i]
  <2>1. v \in Value /\ (IF v.type = "null" THEN Plain(nullvalue) /\ Safe(nullvalue) ELSE Safe(v.text))
    BY <1>1 DEF SafeRow
  <2>2. /\ F[i] = IF v.type = "null" THEN nullvalue ELSE CsvField(v.text, separator)
        /\ T[i] = IF v.type = "null" THEN nullvalue ELSE v.text
    BY <1>2
  <2> HIDE DEF v
  <2>3. /\ (IF v.type = "null" THEN nullvalue ELSE v.text) \in Phrases
        /\ GoodField(IF v.type = "null" THEN nullvalue ELSE CsvField(v.text, separator),
                     IF v.type = "null" THEN nullvalue ELSE v.text, separator, Phrases)
    BY <2>1, CsvCell
  <2> QED BY <2>2, <2>3
<1>4. W = Seq(Symbol)
  BY DEF Phrases
<1> HIDE DEF W
<1>5. \A i \in 1..n : F[i] \in W
  BY <1>3 DEF GoodField
<1>6. T \in [1..n -> W] /\ F \in [1..n -> W]
  BY <1>2, <1>3, <1>5
<1>7. T \in Seq(W) /\ Len(T) = n /\ F \in Seq(W) /\ Len(F) = n
  BY <1>1, <1>6, SeqMadeOf
<1>8. GoodFields(F, T, separator, W)
  BY <1>3, <1>7 DEF GoodFields
<1>9. Len(F) > 0
  BY <1>1, <1>7
<1>10. GoodLine(Joined(F, separator), T, separator, W)
  BY <1>4, <1>7, <1>8, <1>9, CsvLineGood
<1> QED BY <1>10 DEF CsvBody, F, T, W

ReadBack(t) ==
    LET lines == CsvLines(FlattenSeq([i \in DOMAIN t |-> CsvLine(t[i])]))
    IN  [i \in DOMAIN lines |-> ImportFields(lines[i], separator)] = [i \in DOMAIN t |-> Texts(t[i])]

LEMMA CsvTable ==
    ASSUME NEW Rows, Rows = Seq(Value), NEW t \in Seq(Rows), \A i \in 1..Len(t) : t[i] # <<>>,
           nullvalue \in Seq(Char), GoodSeparator(separator, Symbol),
           \A i \in 1..Len(t) : SafeRow(t[i])
    PROVE  ReadBack(t)
<1> DEFINE n == Len(t)
           L == [i \in 1..n |-> CsvBody(t[i])]
           W == Phrases
           z == FlattenSeq([i \in DOMAIN t |-> CsvLine(t[i])])
<1>1. n \in Nat /\ DOMAIN t = 1..n
  OBVIOUS
<1>2. ASSUME NEW i \in 1..n PROVE GoodLine(L[i], Texts(t[i]), separator, W)
  <2> DEFINE row == t[i]
  <2>1. row \in Rows
    BY ElementOfSeq
  <2>2. row \in Seq(Value) /\ row # <<>> /\ SafeRow(row)
    BY <2>1
  <2> HIDE DEF row
  <2>3. GoodLine(CsvBody(row), Texts(row), separator, Phrases)
    BY <2>2, CsvRow
  <2> QED BY <2>3 DEF row
<1> HIDE DEF n
<1>3. W = Seq(Symbol)
  BY DEF Phrases
<1> HIDE DEF W
<1>4. L \in [1..n -> W]
  <2>1. \A i \in 1..n : CsvBody(t[i]) \in W
    BY <1>2 DEF GoodLine
  <2> QED BY <2>1
<1>5. L \in Seq(W) /\ Len(L) = n /\ DOMAIN L = 1..n
  BY <1>1, <1>4, SeqMadeOf
<1>6. z = FlattenSeq(Lines(L, "nl"))
  <2>1. \A i \in 1..n : CsvLine(t[i]) = L[i] \o <<"nl">>
    BY DEF CsvLine, CsvBody, CsvCells
  <2>2. Lines(L, "nl") = [i \in 1..n |-> L[i] \o <<"nl">>]
    BY <1>5 DEF Lines
  <2> HIDE DEF L
  <2>3. [i \in DOMAIN t |-> CsvLine(t[i])] = [i \in 1..n |-> L[i] \o <<"nl">>]
    BY <2>1, <1>1
  <2> QED BY <2>2, <2>3
<1> HIDE DEF L, z
<1>7. GoodLines(L, W)
  BY <1>2, <1>5 DEF GoodLine, GoodLines
<1>8. "nl" \in Symbol
  BY TextsArePhrases
<1>9. CsvLines(z) = L
  BY <1>3, <1>6, <1>7, <1>8, CsvLinesAre
<1>10. \A i \in 1..n : ImportFields(L[i], separator) = Texts(t[i])
  BY <1>2 DEF GoodLine
<1>11. [i \in DOMAIN L |-> ImportFields(L[i], separator)] = [i \in DOMAIN t |-> Texts(t[i])]
  BY <1>1, <1>5, <1>10
<1> QED BY <1>9, <1>11 DEF ReadBack, z

-----------------------------------------------------------------------------
(* What was printed last.                                                    *)

Printed(r) == [mode |-> mode, text |-> Rendered(r), names |-> r.names, rows |-> r.rows]

\* The settings are still those of the query.
PrintedInv == printed = NotPrinted \/ \E r \in Results : printed = Printed(r)

\* The table of the insert mode.
DestInv ==
    /\ mode = "insert" \/ explainPrev.mode = "insert" =>
          destName \in Seq(Char) /\ zDestTable = TableName(destName)

LEMMA InitPrints == Init => PrintedInv /\ DestInv
BY DEF Init, PrintedInv, DestInv, NoExplain

LEMMA RenderedAgain ==
    ASSUME UNCHANGED format, NEW r
    PROVE  Rendered(r)' = Rendered(r)
<1>1. /\ mode' = mode /\ showHeader' = showHeader /\ separator' = separator
      /\ nullvalue' = nullvalue /\ zDestTable' = zDestTable
  BY DEF format
<1>2. ASSUME NEW row PROVE CsvLine(row)' = CsvLine(row) /\ InsertLine(row)' = InsertLine(row)
  BY <1>1 DEF CsvLine, InsertLine
<1>3. Table(r)' = Table(r)
  BY <1>1 DEF Table
<1> QED BY <1>1, <1>2, <1>3 DEF Rendered

LEMMA PrintsStep == PrintedInv /\ DestInv /\ [Next]_vars => PrintedInv' /\ DestInv'
<1> SUFFICES ASSUME PrintedInv, DestInv, [Next]_vars PROVE PrintedInv' /\ DestInv'
  OBVIOUS
<1>1. ASSUME UNCHANGED format, UNCHANGED printed PROVE PrintedInv' /\ DestInv'
  <2>1. ASSUME NEW r, printed = Printed(r) PROVE printed' = Printed(r)'
    <3>1. Rendered(r)' = Rendered(r)
      BY <1>1, RenderedAgain
    <3>2. mode' = mode
      BY <1>1 DEF format
    <3> QED BY <2>1, <3>1, <3>2, <1>1 DEF Printed
  <2>2. PrintedInv'
    BY <2>1, <1>1 DEF PrintedInv, NotPrinted
  <2> QED BY <2>2, <1>1 DEF DestInv, format
<1>2. ASSUME NEW r \in Results, Query(r) PROVE PrintedInv' /\ DestInv'
  <2>1. UNCHANGED format /\ printed' = Printed(r)
    BY <1>2 DEF Query, Printed
  <2>2. Rendered(r)' = Rendered(r)
    BY <2>1, RenderedAgain
  <2>3. mode' = mode
    BY <2>1 DEF format
  <2>4. printed' = Printed(r)'
    BY <2>1, <2>2, <2>3 DEF Printed
  <2> QED BY <2>1, <2>4 DEF PrintedInv, DestInv, format
<1>3. ASSUME Command, printed' = NotPrinted PROVE PrintedInv' /\ DestInv'
  <2>1. PrintedInv'
    BY <1>3 DEF PrintedInv, NotPrinted
  <2>2. ASSUME NEW name \in NameArg, ModeInsert(name) PROVE DestInv'
    <3>1. name \in Seq(Char)
      BY ResultsAssumption
    <3> QED BY <2>2, <3>1 DEF ModeInsert, DestInv
  <2>3. ASSUME NEW m \in Modes, Mode(m) PROVE DestInv'
    <3>1. mode' # "insert" /\ UNCHANGED <<zDestTable, destName, explainPrev>>
      BY <2>3 DEF Mode, Modes
    <3> QED BY <3>1 DEF DestInv
  <2>4. CASE ExplainOn
    <3>1. mode' = "explain" /\ UNCHANGED <<zDestTable, destName>>
      BY <2>4 DEF ExplainOn
    <3>2. explainPrev'.mode = "insert" => mode = "insert" \/ explainPrev.mode = "insert"
      BY <2>4 DEF ExplainOn
    <3> QED BY <3>1, <3>2, <2>1 DEF DestInv
  <2>5. CASE ExplainOff
    <3>1. explainPrev'.mode = "list" /\ UNCHANGED <<zDestTable, destName>>
      BY <2>5 DEF ExplainOff, NoExplain
    <3>2. mode' = "insert" => mode = "insert" \/ explainPrev.mode = "insert"
      BY <2>5 DEF ExplainOff
    <3> QED BY <3>1, <3>2, <2>1 DEF DestInv
  <2>6. ASSUME UNCHANGED <<mode, zDestTable, destName, explainPrev>> PROVE DestInv'
    BY <2>6 DEF DestInv
  <2> QED BY <2>1, <2>2, <2>3, <2>4, <2>5, <2>6, <1>3
       DEF Command, Header, Separator, NullValue, Width, Output, Log, Trace, format
<1>4. CASE UNCHANGED vars
  BY <1>1, <1>4 DEF vars
<1> QED BY <1>2, <1>3, <1>4 DEF Next

-----------------------------------------------------------------------------
(* What mode csv prints is what .import reads.                               *)

LEMMA TableTyped ==
    ASSUME NEW r \in Results, r.rows # <<>>, NEW Rows, Rows = Seq(Value)
    PROVE  /\ Table(r) \in Seq(Rows) /\ Table(r) # <<>>
           /\ \A i \in 1..Len(Table(r)) : Table(r)[i] # <<>>
<1> DEFINE n == Len(r.names)
           h == Named(r.names)
           c == IF showHeader THEN <<h>> ELSE <<>>
           b == r.rows
           t == c \o b
<1>1. /\ r.names \in Seq(Seq(Char)) /\ r.names # <<>> /\ b \in Seq(Rows)
      /\ \A i \in DOMAIN b : b[i] # <<>>
  BY ResultsAssumption
<1>2. h \in Rows /\ h # <<>>
  <2> DEFINE names == r.names
             T == Seq(Char)
  <2>1. n \in Nat /\ n > 0 /\ DOMAIN names = 1..n /\ \A i \in 1..n : names[i] \in T
    <3> HIDE DEF T
    <3> QED BY <1>1 DEF T
  <2>2. h = [i \in 1..n |-> [type |-> "text", text |-> names[i]]]
    BY <2>1 DEF Named
  <2> HIDE DEF h, names, n
  <2>3. \A i \in 1..n : [type |-> "text", text |-> names[i]] \in Value
    BY <2>1 DEF Value
  <2>4. h \in [1..n -> Value]
    BY <2>2, <2>3
  <2>5. h \in Seq(Value) /\ Len(h) = n
    BY <2>1, <2>4, SeqMadeOf
  <2> QED BY <2>1, <2>5, <1>1
<1> HIDE DEF h
<1>3. c \in Seq(Rows) /\ \A i \in 1..Len(c) : c[i] # <<>>
  <2>1. CASE showHeader
    <3>1. c = <<h>> /\ Len(<<h>>) = 1 /\ <<h>>[1] = h
      BY <2>1
    <3>2. <<h>> \in Seq(Rows)
      BY <1>2, OneElement
    <3> QED BY <3>1, <3>2, <1>2
  <2>2. CASE ~showHeader
    <3>1. c = <<>> /\ Len(<<>>) = 0
      BY <2>2
    <3> QED BY <3>1
  <2> QED BY <2>1, <2>2
<1> HIDE DEF c, b
<1>4. /\ t \in Seq(Rows) /\ Len(t) = Len(c) + Len(b)
      /\ \A i \in 1..(Len(c) + Len(b)) : t[i] = IF i <= Len(c) THEN c[i] ELSE b[i - Len(c)]
  BY <1>1, <1>3, ConcatProperties
<1> HIDE DEF t
<1>5. Len(c) \in Nat /\ Len(b) \in Nat /\ DOMAIN b = 1..Len(b)
  BY <1>1, <1>3
<1>6. Len(b) > 0
  <2>1. b # <<>>
    BY DEF b
  <2> QED BY <2>1, <1>1
<1>7. ASSUME NEW i \in 1..Len(t) PROVE t[i] # <<>>
  <2>1. CASE i <= Len(c)
    <3>1. i \in 1..Len(c)
      BY <2>1
    <3> QED BY <2>1, <3>1, <1>3, <1>4
  <2>2. CASE ~(i <= Len(c))
    <3>1. i - Len(c) \in 1..Len(b)
      BY <2>2, <1>4, <1>5
    <3> QED BY <2>2, <3>1, <1>1, <1>4, <1>5
  <2> QED BY <2>1, <2>2
<1>8. t # <<>>
  <2>1. Len(t) > 0
    BY <1>4, <1>5, <1>6
  <2> QED BY <2>1
<1>9. Table(r) = t
  BY DEF Table, t, c, b, h
<1> QED BY <1>4, <1>7, <1>8, <1>9

LEMMA CsvPrints == ASSUME PrintedInv, TextInv PROVE CsvReadsBack
<1> DEFINE all == Table(printed)
           Given == /\ separator # <<>>
                    /\ \A i \in DOMAIN separator : separator[i] \notin {Quote, "nl"}
                    /\ \A i \in DOMAIN all : \A j \in DOMAIN all[i] :
                          IF all[i][j].type = "null" THEN Plain(nullvalue) /\ Safe(nullvalue)
                          ELSE Safe(all[i][j].text)
           lines == CsvLines(printed.text)
           Same == [i \in DOMAIN lines |-> ImportFields(lines[i], separator)]
                   = [i \in DOMAIN all |-> Texts(all[i])]
<1>1. SUFFICES ASSUME printed.mode = "csv", printed.rows # <<>>, Given PROVE Same
  BY DEF CsvReadsBack
<1>2. PICK r \in Results : printed = Printed(r)
  BY <1>1 DEF PrintedInv, NotPrinted
<1>3. /\ mode = "csv" /\ r.rows # <<>> /\ printed.text = Rendered(r)
      /\ printed.names = r.names /\ printed.rows = r.rows
  BY <1>1, <1>2 DEF Printed
<1>4. all = Table(r)
  BY <1>3 DEF Table
<1> DEFINE t == Table(r)
           Rows == Seq(Value)
<1>5. printed.text = FlattenSeq([i \in DOMAIN t |-> CsvLine(t[i])])
  BY <1>3 DEF Rendered
<1>6. t \in Seq(Rows) /\ \A i \in 1..Len(t) : t[i] # <<>>
  <2>1. Rows = Seq(Value)
    OBVIOUS
  <2> HIDE DEF Rows
  <2> QED BY <2>1, <1>3, TableTyped
<1>7. separator \in Phrases /\ nullvalue \in Seq(Char)
  BY TextsArePhrases DEF TextInv, Fits, Characters
<1>8. GoodSeparator(separator, Symbol)
  <2>1. separator \in Seq(Symbol) /\ DOMAIN separator = 1..Len(separator)
    BY <1>7 DEF Phrases
  <2>2. Len(separator) > 0
    BY <1>1, <2>1
  <2> QED BY <1>1, <2>1, <2>2 DEF GoodSeparator
<1>9. \A i \in 1..Len(t) : SafeRow(t[i])
  <2>1. DOMAIN t = 1..Len(t)
    BY <1>6
  <2> HIDE DEF t, Rows
  <2> QED BY <1>1, <1>4, <2>1 DEF SafeRow, t
<1>10. Rows = Seq(Value)
  OBVIOUS
<1> HIDE DEF Rows, t
<1>11. ReadBack(t)
  BY <1>6, <1>7, <1>8, <1>9, <1>10, CsvTable
<1> QED BY <1>4, <1>5, <1>11 DEF ReadBack, t

\* Rows printed in mode csv are what .import reads back with the same separator,
\* whatever rows the engine returns and whatever texts the user gave .separator
\* and .nullvalue, within what CsvReadsBack supposes of them.
THEOREM CsvRoundTrip == Spec => []CsvReadsBack
<1>1. Init => PrintedInv /\ DestInv /\ TextInv
  BY InitPrints, InitTexts
<1>2. PrintedInv /\ DestInv /\ TextInv /\ [Next]_vars => (PrintedInv /\ DestInv /\ TextInv)'
  BY PrintsStep, TextsStep
<1>3. PrintedInv /\ DestInv /\ TextInv => CsvReadsBack
  BY CsvPrints
<1> QED BY <1>1, <1>2, <1>3, PTL DEF Spec

-----------------------------------------------------------------------------
(* What mode insert prints is what SQLite reads.                             *)

\* What f must be to be read back as the value v: its quotes are closed, and hide the
\* comma and the newline.
GoodLiteral(f, v, Words) ==
    /\ f \in Words /\ SqlValue(f) = v
    /\ Path(f, "'", {","}, 0, 0) /\ Path(f, "'", {"nl"}, 0, 0)

LEMMA LiteralGood == ASSUME NEW v \in Value PROVE GoodLiteral(Literal(v), v, Phrases)
<1> DEFINE z == v.text
<1>1. z \in Seq(Symbol)
  BY ValueText DEF Phrases
<1>2. "'" \in Symbol /\ "'" \notin {","} /\ "'" \notin {"nl"} /\ 0 \in 0..1
  <2>1. "'" \in Symbol
    BY TextsArePhrases
  <2>2. "'" \notin {","} /\ "'" \notin {"nl"} /\ 0 \in 0..1
    OBVIOUS
  <2> QED BY <2>1, <2>2
<1>3. CASE v = [type |-> "null", text |-> <<>>]
  <2> DEFINE f == <<"NULL">>
  <2>1. Literal(v) = f /\ SqlValue(f) = v
    BY <1>3 DEF Literal, SqlValue
  <2>2. "NULL" \in Symbol
    BY DEF Symbol, Keyword
  <2>3. f \in Phrases
    BY <2>2, OneElement DEF Phrases
  <2>4. "NULL" # "'" /\ "NULL" \notin {","} /\ "NULL" \notin {"nl"}
    OBVIOUS
  <2>5. Path(f, "'", {","}, 0, 0) /\ Path(f, "'", {"nl"}, 0, 0)
    BY <1>2, <2>4, PathOne
  <2> QED BY <2>1, <2>3, <2>5 DEF GoodLiteral
<1>4. CASE z \in Seq(Char) /\ v = [type |-> "text", text |-> z]
  <2> DEFINE f == Quoted(z, "'")
  <2>1. Literal(v) = f
    <3>1. v.type = "text"
      BY <1>4
    <3> QED BY <3>1 DEF Literal, QuotedString, Quoted
  <2>2. f \in Seq(Symbol) /\ f # <<>> /\ Head(f) = "'" /\ Undoubled(f, "'") = z
    BY <1>1, <1>2, QuotedReads
  <2>3. \A C : "'" \notin C => Path(f, "'", C, 0, 0)
    BY <1>1, <1>2, PathDoubled DEF Quoted
  <2>4. Path(f, "'", {","}, 0, 0) /\ Path(f, "'", {"nl"}, 0, 0)
    BY <1>2, <2>3
  <2> HIDE DEF f
  <2>5. f # <<"NULL">>
    <3>1. Head(<<"NULL">>) = "NULL"
      OBVIOUS
    <3> QED BY <3>1, <2>2
  <2>6. SqlValue(f) = [type |-> "text", text |-> z]
    BY <2>2, <2>5 DEF SqlValue
  <2>7. SqlValue(f) = v
    BY <2>6, <1>4
  <2> QED BY <2>1, <2>2, <2>4, <2>7 DEF GoodLiteral, Phrases
<1>5. CASE z \in Numeral /\ v = [type |-> "integer", text |-> z]
  <2> DEFINE N == Digit \cup {"-"}
  <2>1. Literal(v) = z
    <3>1. v.type = "integer"
      BY <1>5
    <3> QED BY <3>1 DEF Literal
  <2>2. z \in Seq(N) /\ z # <<>>
    BY <1>5 DEF Numeral
  <2>3. "'" \notin N /\ "," \notin N /\ "nl" \notin N /\ "NULL" \notin N
    BY DEF Digit, Octal
  <2> HIDE DEF N, z
  <2>4. \A i \in 1..Len(z) : z[i] \in N
    BY <2>2, ElementOfSeq
  <2>5. Head(z) = z[1] /\ 1 \in 1..Len(z)
    BY <2>2
  <2>6. z # <<"NULL">> /\ Head(z) # "'"
    <3>1. <<"NULL">>[1] = "NULL"
      OBVIOUS
    <3> QED BY <3>1, <2>3, <2>4, <2>5
  <2>7. SqlValue(z) = [type |-> "integer", text |-> z]
    BY <2>6 DEF SqlValue
  <2>8. SqlValue(z) = v
    BY <2>7, <1>5 DEF z
  <2>9. \A i \in 1..Len(z) : z[i] # "'" /\ z[i] \notin {","}
    BY <2>3, <2>4
  <2>10. \A i \in 1..Len(z) : z[i] # "'" /\ z[i] \notin {"nl"}
    BY <2>3, <2>4
  <2>11. Path(z, "'", {","}, 0, 0)
    BY <2>2, <2>9, PathClear
  <2>12. Path(z, "'", {"nl"}, 0, 0)
    BY <2>2, <2>10, PathClear
  <2> QED BY <1>1, <2>1, <2>8, <2>11, <2>12 DEF GoodLiteral, Phrases
<1> QED BY <1>3, <1>4, <1>5, ValueText

LEMMA TableNameReads ==
    ASSUME NEW z \in Seq(Char)
    PROVE  /\ TableName(z) \in Seq(Char) /\ SqlName(TableName(z)) = z
           /\ Path(TableName(z), "'", {"nl"}, 0, 0)
<1> DEFINE Bare == z # <<>> /\ z[1] \notin Digit /\ \A i \in DOMAIN z : z[i] \in Letter \cup Digit \cup {"_"}
<1>1. CASE Bare
  <2>1. TableName(z) = z
    BY <1>1 DEF TableName
  <2>2. "'" \notin Letter \cup Digit \cup {"_"} /\ "nl" \notin Letter \cup Digit \cup {"_"}
    BY DEF Letter, Digit, Octal
  <2>3. DOMAIN z = 1..Len(z) /\ Head(z) = z[1] /\ 1 \in 1..Len(z)
    <3>1. z # <<>>
      BY <1>1
    <3> QED BY <3>1
  <2>4. \A i \in 1..Len(z) : z[i] # "'" /\ z[i] \notin {"nl"}
    BY <1>1, <2>2, <2>3
  <2>5. Path(z, "'", {"nl"}, 0, 0)
    BY <2>4, PathClear
  <2>6. Head(z) # "'"
    BY <2>3, <2>4
  <2>7. SqlName(z) = z
    BY <2>6, UndoubledIs DEF SqlName
  <2> QED BY <2>1, <2>5, <2>7
<1>2. CASE ~Bare
  <2> DEFINE f == Quoted(z, "'")
  <2>1. TableName(z) = f
    BY <1>2 DEF TableName, QuotedString, Quoted
  <2>2. "'" \in Char /\ "'" \notin {"nl"}
    BY CharAssumption DEF Delims
  <2>3. f \in Seq(Char) /\ Undoubled(f, "'") = z
    BY <2>2, QuotedReads
  <2>4. Path(f, "'", {"nl"}, 0, 0)
    BY <2>2, PathDoubled DEF Quoted
  <2> QED BY <2>1, <2>3, <2>4 DEF SqlName
<1> QED BY <1>1, <1>2

\* A text of a symbol, the text t, a symbol, the text u and a symbol.
Statement(line, p, t, v, u, e) ==
    /\ Len(line) = Len(t) + Len(u) + 3
    /\ line[1] = p /\ line[Len(t) + 2] = v
    /\ \A k \in 1..Len(t) : line[k + 1] = t[k]
    /\ \A k \in 1..Len(u) : line[Len(t) + 2 + k] = u[k]

LEMMA StatementIs ==
    ASSUME NEW X, NEW p \in X, NEW t \in Seq(X), NEW v \in X, NEW u \in Seq(X), NEW e \in X
    PROVE  /\ <<p>> \o t \o <<v>> \o u \o <<e>> \in Seq(X)
           /\ Statement(<<p>> \o t \o <<v>> \o u \o <<e>>, p, t, v, u, e)
<1> DEFINE P == <<p>>
           V == <<v>>
           E == <<e>>
           m == Len(t)
           n == Len(u)
           f == P \o t
           g == f \o V
           h == g \o u
           w == h \o E
<1>1. /\ P \in Seq(X) /\ Len(P) = 1 /\ P[1] = p
      /\ V \in Seq(X) /\ Len(V) = 1 /\ V[1] = v
      /\ E \in Seq(X) /\ Len(E) = 1
  BY OneElement
<1>2. m \in Nat /\ n \in Nat /\ m = Len(t) /\ n = Len(u)
  OBVIOUS
<1> HIDE DEF P, V, E, m, n
<1>3. /\ f \in Seq(X) /\ Len(f) = Len(P) + Len(t)
      /\ \A i \in 1..(Len(P) + Len(t)) : f[i] = IF i <= Len(P) THEN P[i] ELSE t[i - Len(P)]
  BY <1>1, ConcatProperties
<1>4. /\ Len(f) = m + 1
      /\ \A i \in 1..(m + 1) : f[i] = IF i <= 1 THEN P[i] ELSE t[i - 1]
  BY <1>1, <1>2, <1>3
<1> HIDE DEF f
<1>5. /\ g \in Seq(X) /\ Len(g) = Len(f) + Len(V)
      /\ \A i \in 1..(Len(f) + Len(V)) : g[i] = IF i <= Len(f) THEN f[i] ELSE V[i - Len(f)]
  <2>1. f \in Seq(X) /\ V \in Seq(X)
    BY <1>1, <1>3
  <2> QED BY <2>1, ConcatProperties
<1>6. /\ Len(g) = m + 2
      /\ \A i \in 1..(m + 2) : g[i] = IF i <= m + 1 THEN f[i] ELSE V[i - (m + 1)]
  BY <1>1, <1>2, <1>4, <1>5
<1> HIDE DEF g
<1>7. /\ h \in Seq(X) /\ Len(h) = Len(g) + Len(u)
      /\ \A i \in 1..(Len(g) + Len(u)) : h[i] = IF i <= Len(g) THEN g[i] ELSE u[i - Len(g)]
  <2>1. g \in Seq(X) /\ u \in Seq(X)
    BY <1>5
  <2> QED BY <2>1, ConcatProperties
<1>8. /\ Len(h) = m + n + 2
      /\ \A i \in 1..(m + n + 2) : h[i] = IF i <= m + 2 THEN g[i] ELSE u[i - (m + 2)]
  BY <1>2, <1>6, <1>7
<1> HIDE DEF h
<1>9. /\ w \in Seq(X) /\ Len(w) = Len(h) + Len(E)
      /\ \A i \in 1..(Len(h) + Len(E)) : w[i] = IF i <= Len(h) THEN h[i] ELSE E[i - Len(h)]
  <2>1. h \in Seq(X) /\ E \in Seq(X)
    BY <1>1, <1>7
  <2> QED BY <2>1, ConcatProperties
<1>10. /\ Len(w) = m + n + 3
       /\ \A i \in 1..(m + n + 2) : w[i] = h[i]
  <2>1. Len(w) = m + n + 3
    BY <1>1, <1>2, <1>8, <1>9
  <2>2. ASSUME NEW i \in 1..(m + n + 2) PROVE w[i] = h[i]
    <3>1. i \in 1..(Len(h) + Len(E)) /\ i <= Len(h)
      BY <1>1, <1>2, <1>8
    <3> QED BY <3>1, <1>9
  <2> QED BY <2>1, <2>2
<1> HIDE DEF w
<1>11. w[1] = p
  <2>1. 1 \in 1..(m + n + 2) /\ 1 <= m + 2 /\ 1 \in 1..(m + 2) /\ 1 <= m + 1 /\ 1 \in 1..(m + 1)
    BY <1>2
  <2>2. w[1] = h[1] /\ h[1] = g[1]
    BY <2>1, <1>8, <1>10
  <2>3. g[1] = f[1] /\ f[1] = P[1]
    BY <2>1, <1>4, <1>6
  <2> QED BY <2>2, <2>3, <1>1
<1>12. w[m + 2] = v
  <2> DEFINE k == m + 2
  <2>1. k \in 1..(m + n + 2) /\ k <= m + 2 /\ k \in 1..(m + 2) /\ ~(k <= m + 1) /\ k - (m + 1) = 1
    BY <1>2
  <2> HIDE DEF k
  <2>2. w[k] = h[k] /\ h[k] = g[k]
    BY <2>1, <1>8, <1>10
  <2>3. g[k] = V[k - (m + 1)]
    BY <2>1, <1>6
  <2> QED BY <2>1, <2>2, <2>3, <1>1 DEF k
<1>13. ASSUME NEW j \in 1..m PROVE w[j + 1] = t[j]
  <2> DEFINE k == j + 1
  <2>1. /\ k \in 1..(m + n + 2) /\ k <= m + 2 /\ k \in 1..(m + 2) /\ k <= m + 1 /\ k \in 1..(m + 1)
        /\ ~(k <= 1) /\ k - 1 = j
    BY <1>2
  <2> HIDE DEF k
  <2>2. w[k] = h[k] /\ h[k] = g[k]
    BY <2>1, <1>8, <1>10
  <2>3. g[k] = f[k] /\ f[k] = t[k - 1]
    BY <2>1, <1>4, <1>6
  <2> QED BY <2>1, <2>2, <2>3 DEF k
<1>14. ASSUME NEW j \in 1..n PROVE w[m + 2 + j] = u[j]
  <2> DEFINE k == m + 2 + j
  <2>1. k \in 1..(m + n + 2) /\ ~(k <= m + 2) /\ k - (m + 2) = j
    BY <1>2
  <2> HIDE DEF k
  <2>2. w[k] = h[k] /\ h[k] = u[k - (m + 2)]
    BY <2>1, <1>8, <1>10
  <2> QED BY <2>1, <2>2 DEF k
<1>15. Statement(w, p, t, v, u, e)
  BY <1>10, <1>11, <1>12, <1>13, <1>14 DEF Statement, m, n
<1> QED BY <1>9, <1>15 DEF w, h, g, f, P, V, E

LEMMA SliceIs ==
    ASSUME NEW X, NEW w \in Seq(X), NEW t \in Seq(X), NEW e \in Nat, LiesAt(t, w, e)
    PROVE  SubSeq(w, e + 1, e + Len(t)) = t
<1> DEFINE n == Len(t)
           a == e + 1
           b == e + n
           s == SubSeq(w, a, b)
<1>1. n \in Nat /\ Len(w) \in Nat /\ b <= Len(w) /\ \A j \in 1..n : w[e + j] = t[j]
  BY DEF LiesAt
<1> HIDE DEF n
<1>2. a \in Int /\ b \in Int /\ b - a + 1 = n /\ \A j \in 1..n : a + j - 1 = e + j
  BY <1>1
<1>3. \A i \in a..b : w[i] \in X
  <2> TAKE i \in a..b
  <2>1. i \in 1..Len(w)
    BY <1>1
  <2> QED BY <2>1, ElementOfSeq
<1>31. (IF a <= b THEN b - a + 1 ELSE 0) = n
  BY <1>1, <1>2
<1> HIDE DEF a, b
<1>4. /\ s \in Seq(X) /\ Len(s) = IF a <= b THEN b - a + 1 ELSE 0
      /\ \A i \in 1..(b - a + 1) : s[i] = w[a + i - 1]
  BY <1>2, <1>3, SubSeqProperties
<1> HIDE DEF s
<1>5. Len(s) = n /\ \A j \in 1..n : s[j] = t[j]
  BY <1>1, <1>2, <1>31, <1>4
<1>6. s = t
  BY <1>4, <1>5, SeqEqual DEF n
<1> QED BY <1>6 DEF s, a, b, n

\* A line without its newline.
InsertCells(row) == [i \in DOMAIN row |-> Literal(row[i])]
InsertBody(row) ==
    <<"INSERT INTO">> \o zDestTable \o <<"VALUES(">> \o Joined(InsertCells(row), <<",">>) \o <<");">>

\* What InsertReadsBack says of a line.
StatementReads(line, row) ==
    LET v == FirstOf(line, 1, {"VALUES("})
        fields == SplitOutside(SubSeq(line, v + 1, Len(line) - 1), <<",">>, "'")
    IN  /\ SqlName(SubSeq(line, 2, v - 1)) = destName
        /\ [j \in DOMAIN fields |-> SqlValue(fields[j])] = row

GoodInsert(line, row, Words) ==
    line \in Words /\ Path(line, "'", {"nl"}, 0, 0) /\ StatementReads(line, row)

\* The literals of a row, with commas between them.
LEMMA InsertCellsGood ==
    ASSUME NEW row \in Seq(Value), row # <<>>, NEW Words, Words = Phrases, NEW F, F = InsertCells(row)
    PROVE  /\ F \in Seq(Words) /\ Len(F) = Len(row) /\ Len(F) > 0
           /\ \A i \in 1..Len(F) : GoodLiteral(F[i], row[i], Words)
<1> DEFINE n == Len(row)
<1>1. n \in Nat /\ n > 0 /\ DOMAIN row = 1..n /\ \A i \in 1..n : row[i] \in Value
  <2>1. \A i \in 1..n : row[i] \in Value
    BY ElementOfSeq
  <2> QED BY <2>1
<1> HIDE DEF n
<1>2. F = [i \in 1..n |-> Literal(row[i])]
  BY <1>1 DEF InsertCells
<1>3. \A i \in 1..n : GoodLiteral(F[i], row[i], Words)
  <2> TAKE i \in 1..n
  <2> DEFINE v == row[i]
  <2>1. v \in Value /\ F[i] = Literal(v)
    BY <1>1, <1>2
  <2> HIDE DEF v
  <2>2. GoodLiteral(Literal(v), v, Phrases)
    BY <2>1, LiteralGood
  <2> QED BY <2>1, <2>2 DEF v
<1>4. F \in [1..n -> Words]
  <2>1. \A i \in 1..n : F[i] \in Words
    BY <1>3 DEF GoodLiteral
  <2> QED BY <1>2, <2>1
<1>5. F \in Seq(Words) /\ Len(F) = n
  BY <1>1, <1>4, SeqMadeOf
<1> QED BY <1>1, <1>3, <1>5 DEF n

LEMMA InsertCellsRead ==
    ASSUME NEW row \in Seq(Value), row # <<>>
    PROVE  LET u == Joined(InsertCells(row), <<",">>)
               fields == SplitOutside(u, <<",">>, "'")
           IN  /\ u \in Phrases /\ Path(u, "'", {"nl"}, 0, 0)
               /\ [j \in DOMAIN fields |-> SqlValue(fields[j])] = row
<1> DEFINE F == InsertCells(row)
           W == Phrases
           sep == <<",">>
           u == Joined(F, sep)
           fields == SplitOutside(u, sep, "'")
           n == Len(F)
<1>1. /\ F \in Seq(W) /\ n = Len(row) /\ n > 0
      /\ \A i \in 1..n : GoodLiteral(F[i], row[i], W)
  <2> HIDE DEF F, W
  <2>1. W = Phrases /\ F = InsertCells(row)
    BY DEF F, W
  <2> QED BY <2>1, InsertCellsGood
<1>2. W = Seq(Symbol)
  BY DEF Phrases
<1> HIDE DEF F, W
<1>0. 1 > 0
  OBVIOUS
<1>3. sep \in Seq(Symbol) /\ Len(sep) = 1 /\ sep[1] = "," /\ "," # "'"
  <2>1. sep \in Seq(Symbol)
    BY TextsArePhrases, OneElement
  <2> QED BY <2>1
<1>4. Path(sep, "'", {"nl"}, 0, 0)
  <2>1. "," # "'" /\ "," \notin {"nl"} /\ 0 \in 0..1
    OBVIOUS
  <2> QED BY <2>1, PathOne
<1> HIDE DEF sep
<1>5. AllPaths(F, "'", {sep[1]}, 0) /\ AllPaths(F, "'", {"nl"}, 0)
  BY <1>1, <1>3 DEF AllPaths, GoodLiteral
<1>6. Path(u, "'", {"nl"}, 0, 0)
  BY <1>1, <1>2, <1>3, <1>4, <1>5, JoinedPath
<1>7. Len(sep) > 0 /\ sep[1] # "'"
  <2>1. Len(sep) > 0
    BY <1>0, <1>3, Zenon
  <2>2. sep[1] # "'"
    BY <1>3
  <2> QED BY <2>1, <2>2
<1>8. u \in Seq(Symbol) /\ Cuts(u, F, sep)
  BY <1>1, <1>2, <1>3, <1>7, JoinedCut
<1>9. PICK b : Cut(u, F, sep, b)
  BY <1>8 DEF Cuts
<1> HIDE DEF u
<1>10. fields = F
  BY <1>1, <1>2, <1>3, <1>5, <1>7, <1>8, <1>9, SplitCut
<1>11. [j \in DOMAIN fields |-> SqlValue(fields[j])] = row
  <2> HIDE DEF fields
  <2>1. DOMAIN F = 1..n /\ DOMAIN row = 1..n /\ row = [i \in 1..n |-> row[i]]
    BY <1>1
  <2>2. \A i \in 1..n : SqlValue(F[i]) = row[i]
    BY <1>1 DEF GoodLiteral
  <2> HIDE DEF n
  <2> QED BY <1>10, <2>1, <2>2
<1> QED BY <1>2, <1>6, <1>8, <1>11 DEF u, F, sep, W

LEMMA InsertRow ==
    ASSUME NEW row \in Seq(Value), row # <<>>, destName \in Seq(Char), zDestTable = TableName(destName)
    PROVE  GoodInsert(InsertBody(row), row, Phrases)
<1> DEFINE p == "INSERT INTO"
           v == "VALUES("
           e == ");"
           t == zDestTable
           u == Joined(InsertCells(row), <<",">>)
           line == InsertBody(row)
           m == Len(t)
           n == Len(u)
           fields == SplitOutside(u, <<",">>, "'")
           first == FirstOf(line, 1, {v})
<1>0. 0 \in 0..1
  OBVIOUS
<1>1. /\ u \in Phrases /\ Path(u, "'", {"nl"}, 0, 0)
      /\ [j \in DOMAIN fields |-> SqlValue(fields[j])] = row
  BY InsertCellsRead
<1>2. t \in Seq(Char) /\ SqlName(t) = destName /\ Path(t, "'", {"nl"}, 0, 0)
  BY TableNameReads
<1>3. p \in Symbol /\ v \in Symbol /\ e \in Symbol /\ v \notin Char /\ p # v
  <2>1. p \in Keyword /\ v \in Keyword /\ e \in Keyword /\ p # v
    BY DEF Keyword
  <2> QED BY <2>1, ResultsAssumption DEF Symbol
<1>4. \A c \in {p, v, e} : Path(<<c>>, "'", {"nl"}, 0, 0)
  <2> TAKE c \in {p, v, e}
  <2>1. c # "'" /\ c \notin {"nl"}
    OBVIOUS
  <2> HIDE DEF p, v, e
  <2> QED BY <1>0, <2>1, PathOne
<1>5. line = <<p>> \o t \o <<v>> \o u \o <<e>>
  BY DEF InsertBody
<1> HIDE DEF p, v, e, t, u, line
<1>6. t \in Seq(Symbol) /\ u \in Seq(Symbol)
  BY <1>1, <1>2, TextsArePhrases DEF Phrases
<1>7. line \in Seq(Symbol) /\ Statement(line, p, t, v, u, e)
  BY <1>3, <1>5, <1>6, StatementIs
<1>8. Path(line, "'", {"nl"}, 0, 0)
  <2> DEFINE P == <<p>>
             V == <<v>>
             E == <<e>>
  <2>1. P \in Seq(Symbol) /\ V \in Seq(Symbol) /\ E \in Seq(Symbol)
    BY <1>3, OneElement
  <2>2. /\ Path(P, "'", {"nl"}, 0, 0) /\ Path(V, "'", {"nl"}, 0, 0)
        /\ Path(E, "'", {"nl"}, 0, 0)
    BY <1>4
  <2>3. line = ((P \o t) \o V) \o u \o E
    BY <1>5
  <2> HIDE DEF P, V, E
  <2>4. P \o t \in Seq(Symbol) /\ Path(P \o t, "'", {"nl"}, 0, 0)
    BY <2>1, <2>2, <1>2, <1>6, PathConcat, ConcatProperties
  <2>5. (P \o t) \o V \in Seq(Symbol) /\ Path((P \o t) \o V, "'", {"nl"}, 0, 0)
    <3> DEFINE f == P \o t
    <3>1. f \in Seq(Symbol) /\ Path(f, "'", {"nl"}, 0, 0)
      BY <2>4
    <3> HIDE DEF f
    <3>2. f \o V \in Seq(Symbol) /\ Path(f \o V, "'", {"nl"}, 0, 0)
      BY <3>1, <2>1, <2>2, PathConcat, ConcatProperties
    <3> QED BY <3>2 DEF f
  <2> DEFINE g == (P \o t) \o V
  <2>6. g \in Seq(Symbol) /\ Path(g, "'", {"nl"}, 0, 0) /\ line = g \o u \o E
    BY <2>3, <2>5
  <2> HIDE DEF g
  <2>7. g \o u \in Seq(Symbol) /\ Path(g \o u, "'", {"nl"}, 0, 0)
    BY <2>6, <1>1, <1>6, PathConcat, ConcatProperties
  <2> DEFINE h == g \o u
  <2>8. h \in Seq(Symbol) /\ Path(h, "'", {"nl"}, 0, 0) /\ line = h \o E
    BY <2>6, <2>7
  <2> HIDE DEF h
  <2>9. Path(h \o E, "'", {"nl"}, 0, 0)
    BY <2>1, <2>2, <2>8, PathConcat
  <2> QED BY <2>8, <2>9
<1>9. /\ m \in Nat /\ n \in Nat /\ Len(line) = m + n + 3
      /\ line[1] = p /\ line[m + 2] = v
      /\ \A k \in 1..m : line[k + 1] = t[k]
      /\ \A k \in 1..n : line[m + 2 + k] = u[k]
  BY <1>6, <1>7 DEF Statement
<1>10. \A k \in 1..m : t[k] \in Char
  BY <1>2, ElementOfSeq
<1>11. LiesAt(t, line, 1) /\ LiesAt(u, line, m + 2)
  <2>1. \A j \in 1..m : line[1 + j] = t[j]
    <3> TAKE j \in 1..m
    <3>1. 1 + j = j + 1
      OBVIOUS
    <3> QED BY <3>1, <1>9
  <2>2. 1 + m <= Len(line) /\ (m + 2) + n <= Len(line)
    BY <1>9
  <2> QED BY <1>9, <2>1, <2>2 DEF LiesAt
<1> HIDE DEF m, n
<1>12. first = m + 2
  <2> DEFINE j == m + 2
  <2>1. j \in 1..Len(line) /\ line[j] \in {v}
    BY <1>9
  <2>2. \A k \in 1..(j - 1) : line[k] \notin {v}
    <3> TAKE k \in 1..(j - 1)
    <3>1. CASE k = 1
      BY <3>1, <1>3, <1>9
    <3>2. CASE k # 1
      <4> DEFINE i == k - 1
      <4>1. i \in 1..m /\ k = i + 1
        BY <3>2, <1>9
      <4> HIDE DEF i
      <4>2. line[k] = t[i] /\ t[i] \in Char
        BY <4>1, <1>9, <1>10
      <4> QED BY <4>2, <1>3
    <3> QED BY <3>1, <3>2
  <2>3. 1 \in 1..(Len(line) + 1)
    BY <1>9
  <2> HIDE DEF j
  <2> QED BY <1>7, <2>1, <2>2, <2>3, FirstOfIn DEF j
<1>13. SubSeq(line, 2, first - 1) = t
  <2>1. SubSeq(line, 1 + 1, 1 + Len(t)) = t
    BY <1>6, <1>7, <1>11, SliceIs
  <2>2. 1 + 1 = 2 /\ first - 1 = 1 + Len(t)
    BY <1>9, <1>12 DEF m
  <2> QED BY <2>1, <2>2
<1>14. SubSeq(line, first + 1, Len(line) - 1) = u
  <2>1. m + 2 \in Nat
    BY <1>9
  <2>2. SubSeq(line, (m + 2) + 1, (m + 2) + Len(u)) = u
    BY <2>1, <1>6, <1>7, <1>11, SliceIs
  <2>3. first + 1 = (m + 2) + 1 /\ Len(line) - 1 = (m + 2) + Len(u)
    BY <1>9, <1>12 DEF n
  <2> QED BY <2>2, <2>3
<1> HIDE DEF first
<1>15. StatementReads(line, row)
  BY <1>1, <1>2, <1>13, <1>14 DEF StatementReads, first, v
<1>16. GoodInsert(line, row, Phrases)
  BY <1>7, <1>8, <1>15 DEF GoodInsert, Phrases
<1> QED BY <1>16 DEF line

\* The lines of a printed table, each with its row.
LEMMA InsertLinesRead ==
    ASSUME NEW Rows, Rows = Seq(Value), NEW t \in Seq(Rows), \A i \in 1..Len(t) : t[i] # <<>>,
           destName \in Seq(Char), zDestTable = TableName(destName),
           NEW lines, lines = SplitOutside(FlattenSeq([i \in DOMAIN t |-> InsertLine(t[i])]), <<"nl">>, "'")
    PROVE  Len(lines) = Len(t) + 1 /\ \A i \in 1..Len(t) : StatementReads(lines[i], t[i])
<1> DEFINE n == Len(t)
           L == [i \in 1..n |-> InsertBody(t[i])]
           W == Phrases
           z == FlattenSeq([i \in DOMAIN t |-> InsertLine(t[i])])
           o == <<>>
           F == Append(L, o)
           sep == <<"nl">>
<1>0. 1 > 0 /\ 0 \in 0..1
  OBVIOUS
<1>1. n \in Nat /\ DOMAIN t = 1..n
  OBVIOUS
<1>2. ASSUME NEW i \in 1..n PROVE GoodInsert(L[i], t[i], W)
  <2> DEFINE row == t[i]
  <2>1. row \in Rows
    BY ElementOfSeq
  <2>2. row \in Seq(Value) /\ row # <<>>
    BY <2>1
  <2>3. L[i] = InsertBody(row)
    OBVIOUS
  <2> HIDE DEF row, L
  <2>4. GoodInsert(InsertBody(row), row, Phrases)
    BY <2>2, InsertRow
  <2> QED BY <2>3, <2>4 DEF row
<1> HIDE DEF n
<1>3. W = Seq(Symbol)
  BY DEF Phrases
<1> HIDE DEF W
<1>4. L \in [1..n -> W]
  <2>1. \A i \in 1..n : InsertBody(t[i]) \in W
    BY <1>2 DEF GoodInsert
  <2> QED BY <2>1
<1>5. L \in Seq(W) /\ Len(L) = n /\ DOMAIN L = 1..n
  BY <1>1, <1>4, SeqMadeOf
<1>6. z = FlattenSeq(Lines(L, "nl"))
  <2>1. \A i \in 1..n : InsertLine(t[i]) = L[i] \o <<"nl">>
    BY DEF InsertLine, InsertBody, InsertCells
  <2>2. Lines(L, "nl") = [i \in 1..n |-> L[i] \o <<"nl">>]
    BY <1>5 DEF Lines
  <2> HIDE DEF L
  <2>3. [i \in DOMAIN t |-> InsertLine(t[i])] = [i \in 1..n |-> L[i] \o <<"nl">>]
    BY <2>1, <1>1
  <2> QED BY <2>2, <2>3
<1> HIDE DEF L, z
<1>7. "nl" \in Symbol
  BY TextsArePhrases
<1>8. z \in Seq(Symbol) /\ Cuts(z, F, sep)
  BY <1>3, <1>5, <1>6, <1>7, LinesCut
<1>9. sep \in Seq(Symbol) /\ Len(sep) = 1 /\ sep[1] = "nl" /\ sep[1] # "'"
  <2>1. sep \in Seq(Symbol)
    BY <1>7, OneElement
  <2> QED BY <2>1
<1> HIDE DEF sep
<1>10. Len(sep) > 0
  BY <1>0, <1>9, Zenon
<1>11. o \in W
  BY <1>3
<1>12. F \in Seq(W) /\ Len(F) = n + 1 /\ F[n + 1] = o /\ \A k \in 1..n : F[k] = L[k]
  <2> HIDE DEF o
  <2> QED BY <1>1, <1>5, <1>11, AppendProperties
<1>13. AllPaths(F, "'", {sep[1]}, 0)
  <2>1. ASSUME NEW k \in 1..(n + 1) PROVE Path(F[k], "'", {"nl"}, 0, 0)
    <3>1. CASE k = n + 1
      BY <3>1, <1>0, <1>12, PathEmpty
    <3>2. CASE k # n + 1
      <4>1. k \in 1..n
        BY <3>2, <1>1
      <4>2. Path(L[k], "'", {"nl"}, 0, 0)
        BY <4>1, <1>2 DEF GoodInsert
      <4> QED BY <4>1, <4>2, <1>12
    <3> QED BY <3>1, <3>2
  <2> QED BY <2>1, <1>9, <1>12 DEF AllPaths
<1>14. PICK b : Cut(z, F, sep, b)
  BY <1>8 DEF Cuts
<1>15. Len(F) > 0
  BY <1>1, <1>12
<1> HIDE DEF F
<1>16. SplitOutside(z, sep, "'") = F
  <2>1. z \in Seq(Symbol) /\ F \in Seq(W)
    BY <1>8, <1>12
  <2>2. sep \in Seq(Symbol) /\ Len(sep) > 0 /\ sep[1] # "'"
    BY <1>9, <1>10
  <2> QED BY <2>1, <2>2, <1>3, <1>13, <1>14, <1>15, SplitCut
<1>17. lines = F
  BY <1>16 DEF z, sep
<1>18. \A i \in 1..n : StatementReads(F[i], t[i])
  BY <1>2, <1>12 DEF GoodInsert
<1> QED BY <1>12, <1>17, <1>18 DEF n

LEMMA InsertPrints == ASSUME PrintedInv, DestInv PROVE InsertReadsBack
<1> DEFINE lines == SplitOutside(printed.text, <<"nl">>, "'")
           Goal == /\ Len(lines) = Len(printed.rows) + 1
                   /\ \A i \in DOMAIN printed.rows : StatementReads(lines[i], printed.rows[i])
<1>1. SUFFICES ASSUME printed.mode = "insert" PROVE Goal
  BY DEF InsertReadsBack, StatementReads
<1>2. PICK r \in Results : printed = Printed(r)
  BY <1>1 DEF PrintedInv, NotPrinted
<1> DEFINE t == r.rows
<1>3. mode = "insert" /\ printed.text = Rendered(r) /\ printed.rows = t
  BY <1>1, <1>2 DEF Printed
<1>4. printed.text = FlattenSeq([i \in DOMAIN t |-> InsertLine(t[i])])
  BY <1>3 DEF Rendered
<1>5. destName \in Seq(Char) /\ zDestTable = TableName(destName)
  BY <1>3 DEF DestInv
<1>6. t \in Seq(Seq(Value)) /\ \A i \in DOMAIN t : t[i] # <<>>
  BY ResultsAssumption
<1> DEFINE Rows == Seq(Value)
<1>7. Rows = Seq(Value) /\ t \in Seq(Rows)
  BY <1>6
<1> HIDE DEF Rows, t
<1>8. DOMAIN t = 1..Len(t)
  BY <1>7
<1>9. lines = SplitOutside(FlattenSeq([i \in DOMAIN t |-> InsertLine(t[i])]), <<"nl">>, "'")
  BY <1>4
<1> HIDE DEF lines
<1>10. Len(lines) = Len(t) + 1 /\ \A i \in 1..Len(t) : StatementReads(lines[i], t[i])
  BY <1>5, <1>6, <1>7, <1>8, <1>9, InsertLinesRead
<1> QED BY <1>3, <1>8, <1>10

\* A line printed in mode insert is a statement that SQLite reads back as the table
\* the user named and the values of the row, whatever characters are in them.
THEOREM InsertRoundTrip == Spec => []InsertReadsBack
<1>1. Init => PrintedInv /\ DestInv
  BY InitPrints
<1>2. PrintedInv /\ DestInv /\ [Next]_vars => (PrintedInv /\ DestInv)'
  BY PrintsStep
<1>3. PrintedInv /\ DestInv => InsertReadsBack
  BY InsertPrints
<1> QED BY <1>1, <1>2, <1>3, PTL DEF Spec
=============================================================================
