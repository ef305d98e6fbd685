----------------------------- MODULE ShellProofs -----------------------------
(***************************************************************************)
(* Proofs about Shell, for any number of files, lines, options and Ctrl-C,   *)
(* and any depth of .read: first what main and process_input do with errors  *)
(* and Ctrl-C, then what the two machines that read SQL text do, line by     *)
(* line and at once, and what that says of the buffer of process_input.      *)
(***************************************************************************)
EXTENDS Shell, DataProofs

Phases == {"rc", "args", "first", "input", "exit"}

\* The calls of process_input, whatever their buffers hold: only the first can be
\* the one at a terminal.
IsFrame(g) ==
    /\ DOMAIN g = DOMAIN NoFrame /\ g.errs \in BOOLEAN
    /\ g.in \in File \cup {"tty"} /\ g.at \in Nat
IsSeq(fs) == fs \in Seq({fs[i] : i \in DOMAIN fs})
Good(fs) ==
    /\ IsSeq(fs)
    /\ \A i \in 1..Len(fs) : IsFrame(fs[i]) /\ (i > 1 => fs[i].in # "tty")

Control ==
    /\ running # "no" => executing
    /\ phase = "exit" => ~executing
    /\ phase = "first" => first # NoLine
    /\ args \in Seq(Line) /\ first \in Line \cup {NoLine} /\ text \in [File -> Seq(Line)]
    /\ interrupts \in Nat
    /\ pressed => seenInterrupt

\* An error under -bail stops the program at once, or makes every call of
\* process_input return an error to its caller, and main an exit status.
Stopping(fs) == fs # <<>> /\ fs[Len(fs)].errs /\ \A i \in 1..Len(fs) : fs[i].in # "tty"
Bailing ==
    /\ bailed /\ phase # "exit" => bail /\ ~executing /\ Stopping(frames)
    /\ bailed /\ phase = "exit" => status # 0

\* What has failed in a phase is remembered by a call of process_input, except for
\* the options; the exit status follows from it.
Owes(ph, fs, fl) ==
    /\ fl \subseteq {"args", ph}
    /\ ph \in fl /\ ph # "args" => \E i \in 1..Len(fs) : fs[i].errs
    /\ \A i \in 1..Len(fs) : fs[i].errs => ph \in fl
Tells(st, fl) == (st = 0 => fl \subseteq {"args"}) /\ (st = 1 => fl # {})
Fine(ph, st, fs, fl) ==
    /\ ph \in Phases /\ Good(fs)
    /\ IF ph = "exit" THEN fs = <<>> /\ Tells(st, fl) ELSE Owes(ph, fs, fl)
Honest == Fine(phase, status, frames, failed)

Inv == Control /\ Bailing /\ Honest

-----------------------------------------------------------------------------
(* Sequences of frames.                                                      *)

LEMMA SeqFacts ==
    ASSUME NEW fs, IsSeq(fs)
    PROVE  Len(fs) \in Nat /\ DOMAIN fs = 1..Len(fs) /\ (fs # <<>> => Len(fs) > 0)
BY DEF IsSeq

LEMMA EmptyGood == Good(<<>>) /\ Len(<<>>) = 0
BY DEF Good, IsSeq

\* A function on 1..m is a sequence of length m.
LEMMA SeqMade ==
    ASSUME NEW m \in Nat, NEW s, s = [i \in 1..m |-> s[i]]
    PROVE  IsSeq(s) /\ Len(s) = m
<1>1. \A i \in 1..m : s[i] \in {s[k] : k \in DOMAIN s}
  OBVIOUS
<1>2. s \in [1..m -> {s[k] : k \in DOMAIN s}]
  BY <1>1
<1>3. s \in Seq({s[k] : k \in DOMAIN s})
  BY <1>2
<1> QED
  BY <1>2, <1>3 DEF IsSeq

\* The innermost call is changed, returns, or calls process_input again.
LEMMA TopGood ==
    ASSUME NEW fs, Good(fs), fs # <<>>, NEW g, IsFrame(g), g.in = fs[Len(fs)].in
    PROVE  /\ Good(SetTop(fs, g)) /\ Len(SetTop(fs, g)) = Len(fs) /\ SetTop(fs, g) # <<>>
           /\ \A i \in 1..Len(fs) : SetTop(fs, g)[i] = IF i = Len(fs) THEN g ELSE fs[i]
           /\ SetTop(fs, g)[Len(fs)] = g
<1>1. Len(fs) \in Nat /\ DOMAIN fs = 1..Len(fs) /\ Len(fs) > 0
  BY SeqFacts DEF Good
<1>2. SetTop(fs, g) = [i \in 1..Len(fs) |-> IF i = Len(fs) THEN g ELSE fs[i]]
  BY <1>1 DEF SetTop
<1>3. IsSeq(SetTop(fs, g)) /\ Len(SetTop(fs, g)) = Len(fs)
  BY <1>1, <1>2, SeqMade
<1>4. SetTop(fs, g)[Len(fs)] = g
  <2>1. Len(fs) \in 1..Len(fs)
    BY <1>1
  <2> QED
    BY <1>2, <2>1
<1>5. \A i \in 1..Len(fs) : SetTop(fs, g)[i] = IF i = Len(fs) THEN g ELSE fs[i]
  BY <1>2
<1>6. Good(SetTop(fs, g))
  BY <1>1, <1>3, <1>5 DEF Good
<1>7. SetTop(fs, g) # <<>>
  BY <1>1, <1>3, EmptyGood
<1> QED
  BY <1>3, <1>4, <1>5, <1>6, <1>7

LEMMA PopGood ==
    ASSUME NEW fs, Good(fs), fs # <<>>
    PROVE  /\ Good(SubSeq(fs, 1, Len(fs) - 1)) /\ Len(SubSeq(fs, 1, Len(fs) - 1)) = Len(fs) - 1
           /\ \A i \in 1..(Len(fs) - 1) : SubSeq(fs, 1, Len(fs) - 1)[i] = fs[i]
<1>1. Len(fs) \in Nat /\ DOMAIN fs = 1..Len(fs) /\ Len(fs) > 0
  BY SeqFacts DEF Good
<1> DEFINE s == SubSeq(fs, 1, Len(fs) - 1)
<1>2. /\ Len(s) = Len(fs) - 1 /\ DOMAIN s = 1..(Len(fs) - 1)
      /\ \A i \in 1..(Len(fs) - 1) : s[i] = fs[i]
      /\ s = [i \in 1..(Len(fs) - 1) |-> fs[i]]
  BY <1>1 DEF Good, IsSeq
<1>3. IsSeq(s)
  <2>1. Len(fs) - 1 \in Nat
    BY <1>1
  <2> HIDE DEF s
  <2>2. s = [i \in 1..(Len(fs) - 1) |-> s[i]]
    BY <1>2
  <2> QED
    BY <2>1, <2>2, SeqMade
<1> QED
  BY <1>1, <1>2, <1>3 DEF Good

LEMMA CallGood ==
    ASSUME NEW fs, Good(fs), NEW f \in File \cup {"tty"}, fs = <<>> \/ f # "tty"
    PROVE  LET s == Append(fs, [NoFrame EXCEPT !.in = f]) IN
           /\ Good(s) /\ Len(s) = Len(fs) + 1 /\ s # <<>>
           /\ ~s[Len(s)].errs /\ \A i \in 1..Len(fs) : s[i] = fs[i]
<1> DEFINE g == [NoFrame EXCEPT !.in = f]
           s == Append(fs, g)
<1>1. Len(fs) \in Nat /\ DOMAIN fs = 1..Len(fs) /\ (fs = <<>> => Len(fs) = 0)
  BY SeqFacts DEF Good
<1>2. IsFrame(g) /\ ~g.errs /\ g.in = f
  BY DEF NoFrame, IsFrame
<1> HIDE DEF g
<1>3. /\ Len(s) = Len(fs) + 1
      /\ \A i \in 1..(Len(fs) + 1) : s[i] = IF i = Len(fs) + 1 THEN g ELSE fs[i]
      /\ s = [i \in 1..(Len(fs) + 1) |-> s[i]]
  <2> DEFINE S == {fs[i] : i \in DOMAIN fs} \cup {g}
  <2>1. fs \in Seq(S) /\ g \in S
    BY <1>1 DEF Good, IsSeq
  <2> HIDE DEF S
  <2>2. Len(s) = Len(fs) + 1
    BY <2>1
  <2>3. \A i \in 1..(Len(fs) + 1) : s[i] = IF i = Len(fs) + 1 THEN g ELSE fs[i]
    BY <1>1, <2>1
  <2>4. s \in Seq(S)
    BY <2>1
  <2>5. s = [i \in 1..Len(s) |-> s[i]]
    <3> HIDE DEF s
    <3> QED
      BY <2>4
  <2> QED
    BY <2>2, <2>3, <2>5
<1>4. IsSeq(s)
  <2>1. Len(fs) + 1 \in Nat
    BY <1>1
  <2> HIDE DEF s
  <2> QED
    BY <2>1, <1>3, SeqMade
<1>5. Good(s)
  BY <1>1, <1>2, <1>3, <1>4 DEF Good
<1> QED
  BY <1>1, <1>2, <1>3, <1>5 DEF g

-----------------------------------------------------------------------------
(* A call returns r to its caller; fl is what has failed by then.            *)

Owing(fs, r, fl) ==
    /\ Good(fs) /\ r \in 0..2 /\ (r = 2 => fs = <<>>)
    /\ fl \subseteq {"args", phase} /\ (r = 1 => phase \in fl)
    /\ phase \in fl /\ phase # "args" => r # 0 \/ \E i \in 1..Len(fs) : fs[i].errs
    /\ \A i \in 1..Len(fs) : fs[i].errs => phase \in fl
NoTerminal(fs) == \A i \in 1..Len(fs) : fs[i].in # "tty"

LEMMA Gets ==
    ASSUME phase \in Phases \ {"exit"}, NEW fs, NEW r, NEW fl, Owing(fs, r, fl),
           CallerGets(fs, r)
    PROVE  /\ Fine(phase', status', frames', fl)
           /\ phase' = "first" => phase = "first"
           /\ r # 0 /\ bail /\ NoTerminal(fs) => phase' = "exit" \/ Stopping(frames')
           /\ phase' = "exit" => status' = r
<1> USE DEF Owing, NoTerminal
<1>1. CASE fs = <<>>
  <2>1. Len(fs) = 0 /\ MainGets(r) /\ Good(<<>>) /\ Len(<<>>) = 0
    BY <1>1, EmptyGood DEF CallerGets
  <2>2. CASE phase = "rc"
    <3>1. r > 0 => phase' = "exit" /\ status' = r /\ frames' = <<>>
      BY <2>1, <2>2 DEF MainGets, Exits
    <3>2. ~(r > 0) => phase' = "args" /\ frames' = <<>>
      BY <2>1, <2>2 DEF MainGets
    <3> QED
      BY <2>1, <2>2, <3>1, <3>2 DEF Fine, Tells, Owes, Phases
  <2>3. CASE phase = "args"
    <3>1. (r # 0 /\ bail) => phase' = "exit" /\ status' = r /\ frames' = <<>>
      BY <2>1, <2>3 DEF MainGets, Exits
    <3>2. ~(r # 0 /\ bail) => phase' = "args" /\ frames' = <<>>
      BY <2>1, <2>3 DEF MainGets
    <3> QED
      BY <2>1, <2>3, <3>1, <3>2 DEF Fine, Tells, Owes, Phases
  <2>4. CASE phase \notin {"rc", "args"}
    <3>1. phase' = "exit" /\ status' = r /\ frames' = <<>>
      BY <2>1, <2>4 DEF MainGets, Exits
    <3> QED
      BY <2>1, <2>4, <3>1 DEF Fine, Tells, Phases
  <2> QED
    BY <2>2, <2>3, <2>4
<1>2. CASE fs # <<>>
  <2> DEFINE g == [fs[Len(fs)] EXCEPT !.errs = @ \/ r # 0]
  <2>1. Len(fs) \in Nat /\ Len(fs) > 0 /\ DOMAIN fs = 1..Len(fs)
    BY <1>2, SeqFacts DEF Good
  <2>2. IsFrame(fs[Len(fs)])
    BY <2>1 DEF Good
  <2>3. IsFrame(g) /\ g.in = fs[Len(fs)].in /\ (g.errs <=> fs[Len(fs)].errs \/ r # 0)
    BY <2>2 DEF IsFrame, NoFrame
  <2>33. r # 0 => g.errs = TRUE
    BY <2>2 DEF IsFrame, NoFrame
  <2>34. fs[Len(fs)].errs => g.errs = TRUE
    BY <2>2 DEF IsFrame, NoFrame
  <2>4. frames' = SetTop(fs, g) /\ phase' = phase
    BY <1>2 DEF CallerGets, SetTop
  <2> HIDE DEF g
  <2>5. /\ Good(frames') /\ Len(frames') = Len(fs) /\ frames' # <<>>
        /\ \A i \in 1..Len(fs) : frames'[i] = IF i = Len(fs) THEN g ELSE fs[i]
        /\ frames'[Len(fs)] = g
    BY <1>2, <2>3, <2>4, TopGood
  <2>6. r = 0 \/ r = 1
    BY <1>2
  <2>7. Owes(phase, frames', fl)
    <3>1. \A i \in 1..Len(frames') : frames'[i].errs => phase \in fl
      BY <2>1, <2>3, <2>5, <2>6
    <3>2. phase \in fl /\ phase # "args" => \E i \in 1..Len(frames') : frames'[i].errs
      <4>1. Len(fs) \in 1..Len(frames')
        <5>1. Len(frames') = Len(fs)
          BY <2>5
        <5> QED
          BY <2>1, <5>1
      <4>2. CASE r # 0
        <5>1. frames'[Len(fs)].errs
          BY <4>2, <2>5, <2>33
        <5> QED
          BY <4>1, <5>1
      <4>3. CASE r = 0
        <5>1. HAVE phase \in fl /\ phase # "args"
        <5>2. PICK i \in 1..Len(fs) : fs[i].errs
          BY <4>3, <5>1
        <5>3. CASE i = Len(fs)
          <6>1. frames'[Len(fs)].errs
            BY <5>2, <5>3, <2>5, <2>34
          <6> QED
            BY <4>1, <6>1
        <5>4. CASE i # Len(fs)
          <6>1. i \in 1..Len(frames') /\ frames'[i] = fs[i]
            BY <5>4, <2>5
          <6> QED
            BY <5>2, <6>1
        <5> QED
          BY <5>3, <5>4
      <4> QED
        BY <4>2, <4>3
    <3> QED
      BY <3>1, <3>2 DEF Owes
  <2>8. (r # 0 /\ \A i \in 1..Len(fs) : fs[i].in # "tty") => Stopping(frames')
    <3>1. HAVE r # 0 /\ \A i \in 1..Len(fs) : fs[i].in # "tty"
    <3>2. frames'[Len(frames')].errs = TRUE
      BY <3>1, <2>1, <2>5, <2>33
    <3>3. \A i \in 1..Len(frames') : frames'[i].in # "tty"
      BY <3>1, <2>1, <2>3, <2>5
    <3> QED
      BY <3>2, <3>3, <2>5 DEF Stopping
  <2> QED
    BY <2>4, <2>5, <2>7, <2>8 DEF Fine
<1> QED
  BY <1>1, <1>2

\* A call that succeeds changes nothing but where the program is.
Same(fs) == /\ Good(fs) /\ Len(fs) = Len(frames)
            /\ \A i \in 1..Len(fs) : fs[i].errs = frames[i].errs /\ fs[i].in = frames[i].in

LEMMA GetsZero ==
    ASSUME Honest, phase # "exit", NEW fs, Same(fs), CallerGets(fs, 0)
    PROVE  Fine(phase', status', frames', failed) /\ (phase' = "first" => phase = "first")
<1>1. Owing(fs, 0, failed)
  BY DEF Owing, Honest, Fine, Owes, Same
<1>2. phase \in Phases \ {"exit"}
  BY DEF Honest, Fine
<1> QED
  BY <1>1, <1>2, Gets

\* An error is remembered, and under -bail it stops the program.
LEMMA GetsOne ==
    ASSUME Control, Honest, Bailing, phase # "exit", NEW fs, Same(fs), CallerGets(fs, 1),
           Remembers(1), UNCHANGED bail, ~executing'
    PROVE  Honest' /\ Bailing' /\ (phase' = "first" => phase = "first")
<1>1. phase \in Phases \ {"exit"} /\ failed' = failed \cup {phase} /\ bail' = bail
  BY DEF Honest, Fine, Remembers
<1>2. /\ Good(fs) /\ failed \subseteq {"args", phase}
      /\ \A i \in 1..Len(fs) : fs[i].in = frames[i].in
  BY DEF Same, Honest, Fine, Owes
<1>3. /\ Fine(phase', status', frames', failed')
      /\ phase' = "first" => phase = "first"
      /\ bail /\ NoTerminal(fs) => phase' = "exit" \/ Stopping(frames')
      /\ phase' = "exit" => status' # 0
  <2> DEFINE fl == failed \cup {phase}
  <2>1. Owing(fs, 1, fl)
    <3>1. fl \subseteq {"args", phase} /\ phase \in fl
      BY <1>2
    <3> HIDE DEF fl
    <3>2. \A i \in 1..Len(fs) : fs[i].errs => phase \in fl
      BY <3>1
    <3> QED
      BY <1>2, <3>1, <3>2 DEF Owing
  <2> HIDE DEF fl
  <2>2. /\ Fine(phase', status', frames', fl)
        /\ phase' = "first" => phase = "first"
        /\ 1 # 0 /\ bail /\ NoTerminal(fs) => phase' = "exit" \/ Stopping(frames')
        /\ phase' = "exit" => status' = 1
    BY <1>1, <2>1, Gets
  <2> QED
    BY <1>1, <2>2 DEF fl
<1>4. ASSUME bailed', phase' # "exit" PROVE bail /\ ~executing' /\ Stopping(frames')
  <2>1. CASE bailed
    <3>1. Stopping(frames) /\ bail
      BY <2>1 DEF Bailing
    <3>2. NoTerminal(fs)
      BY <3>1 DEF Stopping, Same, NoTerminal
    <3> QED
      BY <3>1, <3>2, <1>3, <1>4
  <2>2. CASE ~bailed
    <3>1. bail /\ ~AtTerminal
      BY <2>2, <1>4 DEF Remembers
    <3>2. NoTerminal(fs)
      <4>1. fs = <<>> => Len(fs) = 0
        BY EmptyGood
      <4>2. \A i \in 1..Len(frames) : i > 1 => frames[i].in # "tty"
        BY DEF Honest, Fine, Good
      <4>3. frames # <<>> => frames[1].in # "tty"
        BY <3>1 DEF AtTerminal
      <4>4. frames = <<>> => Len(frames) = 0
        BY EmptyGood
      <4>5. Len(fs) = Len(frames) /\ Len(fs) \in Nat
        BY SeqFacts DEF Same, Good
      <4> QED
        BY <1>2, <4>2, <4>3, <4>4, <4>5 DEF NoTerminal
    <3> QED
      BY <3>1, <3>2, <1>3, <1>4
  <2> QED
    BY <2>1, <2>2
<1> QED
  BY <1>1, <1>3, <1>4 DEF Honest, Bailing

\* process_input returns whether one of its lines met an error.
LEMMA ReturnsBack ==
    ASSUME Honest, Bailing, phase # "exit", NEW fs, Same(fs), fs # <<>>, Returns(fs),
           UNCHANGED <<bail, failed, bailed>>, ~executing'
    PROVE  Honest' /\ Bailing' /\ (phase' = "first" => phase = "first")
<1> DEFINE gs == SubSeq(fs, 1, Len(fs) - 1)
           r == IF fs[Len(fs)].errs THEN 1 ELSE 0
<1>1. Good(fs) /\ Len(fs) \in Nat /\ Len(fs) > 0
  BY SeqFacts DEF Same, Good
<1>2. /\ Good(gs) /\ Len(gs) = Len(fs) - 1
      /\ \A i \in 1..(Len(fs) - 1) : gs[i] = fs[i]
  BY <1>1, PopGood
<1>3. CallerGets(gs, r)
  BY DEF Returns
<1>4. phase \in Phases \ {"exit"} /\ Owes(phase, fs, failed)
  <2>1. phase \in Phases \ {"exit"} /\ Owes(phase, frames, failed)
    BY DEF Honest, Fine
  <2> QED
    BY <2>1 DEF Owes, Same
<1>5. r \in {0, 1} /\ (r = 1 <=> fs[Len(fs)].errs)
  OBVIOUS
<1> HIDE DEF gs, r
<1>6. Owing(gs, r, failed)
  <2>1. \A i \in 1..Len(gs) : gs[i].errs => phase \in failed
    BY <1>1, <1>2, <1>4 DEF Owes
  <2>2. r = 1 => phase \in failed
    <3>1. Len(fs) \in 1..Len(fs)
      BY <1>1
    <3> QED
      BY <3>1, <1>4, <1>5 DEF Owes
  <2>3. ASSUME phase \in failed /\ phase # "args"
        PROVE  r # 0 \/ \E i \in 1..Len(gs) : gs[i].errs
    <3>1. PICK i \in 1..Len(fs) : fs[i].errs
      BY <2>3, <1>4 DEF Owes
    <3>2. CASE i = Len(fs)
      BY <3>1, <3>2, <1>5
    <3>3. CASE i # Len(fs)
      <4>1. i \in 1..Len(gs) /\ gs[i] = fs[i]
        BY <3>3, <1>1, <1>2
      <4> QED
        BY <3>1, <4>1
    <3> QED
      BY <3>2, <3>3
  <2>4. failed \subseteq {"args", phase}
    BY <1>4 DEF Owes
  <2> QED
    BY <1>2, <1>5, <2>1, <2>2, <2>3, <2>4 DEF Owing
<1>7. /\ Fine(phase', status', frames', failed)
      /\ phase' = "first" => phase = "first"
      /\ r # 0 /\ bail /\ NoTerminal(gs) => phase' = "exit" \/ Stopping(frames')
      /\ phase' = "exit" => status' = r
  BY <1>3, <1>4, <1>6, Gets
<1>8. ASSUME bailed, phase' # "exit" PROVE bail /\ Stopping(frames')
  <2>1. bail /\ Stopping(frames)
    BY <1>8 DEF Bailing
  <2>2. Len(frames) = Len(fs) /\ Len(fs) \in 1..Len(fs)
    BY <1>1 DEF Same
  <2>3. fs[Len(fs)].errs
    BY <2>1, <2>2 DEF Stopping, Same
  <2>4. NoTerminal(gs)
    BY <2>1, <2>2, <1>1, <1>2 DEF Stopping, Same, NoTerminal
  <2> QED
    BY <2>1, <2>3, <2>4, <1>5, <1>7, <1>8
<1>9. ASSUME bailed, phase' = "exit" PROVE status' # 0
  <2>1. Stopping(frames)
    BY <1>9 DEF Bailing
  <2>2. Len(frames) = Len(fs) /\ Len(fs) \in 1..Len(fs)
    BY <1>1 DEF Same
  <2>3. fs[Len(fs)].errs
    BY <2>1, <2>2 DEF Stopping, Same
  <2>4. r = 1
    BY <2>3 DEF r
  <2> HIDE DEF r
  <2> QED
    BY <2>4, <1>7, <1>9
<1> QED
  BY <1>7, <1>8, <1>9 DEF Honest, Bailing

\* A call of process_input begins without errors.
LEMMA CallFine ==
    ASSUME NEW ph \in Phases \ {"exit"}, NEW fs, Good(fs), NEW fl, Owes(ph, fs, fl),
           NEW f \in File \cup {"tty"}, fs = <<>> \/ f # "tty", Calls(fs, f), NEW st
    PROVE  Fine(ph, st, frames', fl)
<1>1. /\ Good(frames') /\ Len(frames') = Len(fs) + 1
      /\ ~frames'[Len(frames')].errs /\ \A i \in 1..Len(fs) : frames'[i] = fs[i]
  BY CallGood DEF Calls
<1>2. Len(fs) \in Nat
  BY SeqFacts DEF Good
<1>3. \A i \in 1..Len(frames') : frames'[i].errs => i \in 1..Len(fs) /\ frames'[i] = fs[i]
  BY <1>1, <1>2
<1>4. \A i \in 1..Len(fs) : i \in 1..Len(frames')
  BY <1>1, <1>2
<1>5. Owes(ph, frames', fl)
  BY <1>1, <1>3, <1>4 DEF Owes
<1> QED
  BY <1>1, <1>5 DEF Fine

\* What shell_exec begins with.
LEMMA ExecutesFine ==
    ASSUME Control, Honest, Idle, ~bailed, NEW fs, Same(fs), NEW z, Executes(fs, z)
    PROVE  /\ Honest' /\ Bailing' /\ (phase' = "first" => phase = "first")
           /\ (running' # "no" => executing') /\ (phase' = "exit" => ~executing')
<1>1. phase \in Phases \ {"exit"} /\ running = "no" /\ ~executing /\ Good(fs)
  BY DEF Honest, Fine, Idle, Control, Same
<1>2. CASE dbOpen' /\ executing' = TRUE /\ frames' = fs /\ UNCHANGED <<phase, status, ghosts>>
  <2>1. Owes(phase, fs, failed)
    BY <1>1 DEF Honest, Fine, Owes, Same
  <2> QED
    BY <1>1, <1>2, <2>1 DEF Honest, Fine, Bailing, ghosts, Executes
<1>3. CASE /\ Exits(1) /\ failed' = failed \cup {phase} /\ UNCHANGED <<executing, incomplete, bailed>>
  <2>1. phase' = "exit" /\ status' = 1 /\ frames' = <<>> /\ failed' # {}
    BY <1>3 DEF Exits
  <2> QED
    BY <1>1, <1>3, <2>1, EmptyGood DEF Honest, Fine, Tells, Bailing, Executes, Phases
<1> QED
  BY <1>2, <1>3 DEF Executes

LEMMA MetaFine ==
    ASSUME Control, Honest, Idle, ~bailed, NEW fs, Same(fs), NEW line \in Line,
           MetaCommand(fs, line)
    PROVE  /\ Honest' /\ Bailing' /\ (phase' = "first" => phase = "first")
           /\ (running' # "no" => executing') /\ (phase' = "exit" => ~executing')
<1>1. /\ phase \in Phases \ {"exit"} /\ running = "no" /\ ~executing /\ Good(fs)
      /\ phase # "exit" /\ Bailing
  BY DEF Honest, Fine, Idle, Control, Same, Bailing
<1>2. running' = "no" /\ ~executing'
  BY <1>1 DEF MetaCommand, exec
<1>3. ASSUME CallerGets(fs, 0), UNCHANGED ghosts
      PROVE  Honest' /\ Bailing' /\ (phase' = "first" => phase = "first")
  <2>1. Fine(phase', status', frames', failed) /\ (phase' = "first" => phase = "first")
    BY <1>1, <1>3, GetsZero
  <2> QED
    BY <2>1, <1>3 DEF Honest, Bailing, ghosts
<1>4. ASSUME CallerGets(fs, 1), Remembers(1), UNCHANGED bail
      PROVE  Honest' /\ Bailing' /\ (phase' = "first" => phase = "first")
  BY <1>1, <1>2, <1>4, GetsOne
<1>5. CASE line.dot = "exit"
  <2>1. UNCHANGED <<bail, failed, bailed>>
    BY <1>5 DEF MetaCommand, ghosts
  <2>2. CASE fs = <<>>
    <3>1. MainGets(2)
      BY <1>5, <2>2 DEF MetaCommand
    <3>2. CallerGets(<<>>, 2) /\ Good(<<>>) /\ Len(<<>>) = 0
      BY <3>1, EmptyGood DEF CallerGets
    <3>3. Owing(<<>>, 2, failed)
      BY <3>2 DEF Owing, Honest, Fine, Owes, Idle
    <3>4. Fine(phase', status', frames', failed) /\ (phase' = "first" => phase = "first")
      BY <1>1, <3>2, <3>3, Gets
    <3> QED
      BY <1>2, <2>1, <3>4 DEF Honest, Bailing
  <2>3. CASE fs # <<>>
    <3>1. Returns(fs)
      BY <1>5, <2>3 DEF MetaCommand
    <3> QED
      BY <1>1, <1>2, <2>1, <2>3, <3>1, ReturnsBack
  <2> QED
    BY <1>2, <2>2, <2>3
<1>6. CASE line.dot = "read"
  <2>1. CASE Len(fs) < MaxOpen
    <3>1. Calls(fs, line.file) /\ UNCHANGED <<phase, status, ghosts>>
      BY <1>6, <2>1 DEF MetaCommand
    <3>2. line.file \in File /\ line.file # "tty"
      BY <1>6, ShellAssumption DEF Line
    <3>3. Owes(phase, fs, failed)
      BY <1>1 DEF Honest, Fine, Owes, Same
    <3>4. Fine(phase, status, frames', failed)
      BY <1>1, <3>1, <3>2, <3>3, CallFine
    <3> QED
      BY <1>1, <1>2, <3>1, <3>4 DEF Honest, Bailing, ghosts
  <2>2. CASE ~(Len(fs) < MaxOpen)
    BY <1>2, <1>4, <1>6, <2>2 DEF MetaCommand
  <2> QED
    BY <2>1, <2>2
<1>7. CASE line.dot = "bad"
  BY <1>2, <1>4, <1>7 DEF MetaCommand
<1>8. CASE line.dot \notin {"exit", "read", "bad"}
  <2>1. CallerGets(fs, 0) /\ UNCHANGED ghosts
    BY <1>8 DEF MetaCommand
  <2> QED
    BY <1>2, <1>3, <2>1
<1> QED
  BY <1>5, <1>6, <1>7, <1>8

LEMMA SameTop ==
    ASSUME NEW fs, Same(fs), fs # <<>>, NEW g, DOMAIN g = DOMAIN fs[Len(fs)], g.at \in Nat,
           g.in = fs[Len(fs)].in, g.errs = fs[Len(fs)].errs
    PROVE  Same(SetTop(fs, g)) /\ SetTop(fs, g) # <<>> /\ SetTop(fs, g)[Len(fs)] = g
<1>1. Good(fs) /\ Len(fs) \in Nat /\ Len(fs) > 0
  BY SeqFacts DEF Same, Good
<1>2. IsFrame(g)
  BY <1>1 DEF IsFrame, Good
<1>3. /\ Good(SetTop(fs, g)) /\ Len(SetTop(fs, g)) = Len(fs) /\ SetTop(fs, g) # <<>>
      /\ \A i \in 1..Len(fs) : SetTop(fs, g)[i] = IF i = Len(fs) THEN g ELSE fs[i]
      /\ SetTop(fs, g)[Len(fs)] = g
  BY <1>1, <1>2, TopGood
<1> QED
  BY <1>1, <1>3 DEF Same

LEMMA TakesFine ==
    ASSUME Control, Honest, Idle, ~bailed, frames # <<>>, NEW line \in Line, Takes(line)
    PROVE  /\ Honest' /\ Bailing' /\ (phase' = "first" => phase = "first")
           /\ (running' # "no" => executing') /\ (phase' = "exit" => ~executing')
<1> DEFINE top == [Top EXCEPT !.at = IF InFile THEN @ + 1 ELSE 0]
           fs == SetTop(frames, top)
           new == IF IsCommandTerminator(line.text) /\ IsComplete(top.zSql)
                  THEN <<";">> ELSE line.text
           all == Joined(top.zSql, new)
           seen == Joined(top.seen, new)
           fed == top.fed \o Statements(all)
           after == [top EXCEPT !.zSql = <<>>, !.seen = seen, !.fed = fed]
           held == [top EXCEPT !.zSql = all, !.seen = seen]
<1>1. /\ Same(frames) /\ IsFrame(Top) /\ Top = frames[Len(frames)]
      /\ phase \in Phases \ {"exit"} /\ running = "no" /\ ~executing
  <2>1. Len(frames) \in 1..Len(frames) /\ Good(frames)
    BY SeqFacts DEF Honest, Fine, Good
  <2> QED
    BY <2>1 DEF Same, Good, Top, Honest, Fine, Idle, Control
<1>2. Same(fs) /\ fs # <<>> /\ fs[Len(frames)] = top /\ Len(fs) = Len(frames)
  <2>1. DOMAIN top = DOMAIN Top /\ top.at \in Nat /\ top.in = Top.in /\ top.errs = Top.errs
    BY <1>1 DEF IsFrame, NoFrame
  <2> HIDE DEF top
  <2>2. Same(fs) /\ fs # <<>> /\ fs[Len(frames)] = top
    BY <1>1, <2>1, SameTop
  <2> QED
    BY <2>2 DEF Same
<1>3. IsFrame(top)
  BY <1>1 DEF IsFrame, NoFrame
<1>4. Same(SetTop(fs, after)) /\ Same(SetTop(fs, held))
  <2> HIDE DEF top, fs, seen, fed, all
  <2>1. DOMAIN after = DOMAIN top /\ after.at \in Nat /\ after.in = top.in
        /\ after.errs = top.errs
    BY <1>3 DEF IsFrame, NoFrame
  <2>2. DOMAIN held = DOMAIN top /\ held.at \in Nat /\ held.in = top.in
        /\ held.errs = top.errs
    BY <1>3 DEF IsFrame, NoFrame
  <2> HIDE DEF after, held
  <2> QED
    BY <1>2, <2>1, <2>2, SameTop
<1>5. ASSUME NEW gs, Same(gs), frames' = gs, UNCHANGED <<exec, bail, phase, status, ghosts>>
      PROVE  /\ Honest' /\ Bailing' /\ (phase' = "first" => phase = "first")
             /\ (running' # "no" => executing') /\ (phase' = "exit" => ~executing')
  <2>1. Fine(phase, status, gs, failed)
    BY <1>5, <1>1 DEF Honest, Fine, Owes, Same
  <2> QED
    BY <1>1, <1>5, <2>1 DEF Honest, Bailing, ghosts, exec
<1>6. \/ frames' = fs /\ UNCHANGED <<exec, bail, phase, status, ghosts>>
      \/ MetaCommand(fs, line)
      \/ Executes(SetTop(fs, after), all)
      \/ frames' = SetTop(fs, held) /\ UNCHANGED <<exec, bail, phase, status, ghosts>>
  <2> DEFINE blank == top.zSql = <<>> /\ AllWhitespace(line.text)
             meta == ~blank /\ IsMeta(top.zSql, line)
             ready == ~blank /\ ~meta /\ Ready(top.zSql, new)
             kept == UNCHANGED <<exec, bail, phase, status, ghosts>>
  <2> DEFINE body == CASE blank -> frames' = fs /\ kept
                       [] meta -> MetaCommand(fs, line)
                       [] ready -> Executes(SetTop(fs, after), all)
                       [] OTHER -> frames' = SetTop(fs, held) /\ kept
  <2>1. body
    BY DEF Takes
  <2> HIDE DEF top, fs, new, all, seen, fed
  <2> QED BY <2>1
<1> HIDE DEF top, fs, after, held, all
<1> QED
  BY <1>2, <1>4, <1>5, <1>6, MetaFine, ExecutesFine

-----------------------------------------------------------------------------
(* The invariant.                                                            *)

\* Nothing is left of an error under -bail while a line is taken, or outside
\* process_input.
LEMMA NotBailed ==
    ASSUME Bailing, phase # "exit", frames = <<>> \/ GoesOn
    PROVE  ~bailed
BY DEF Bailing, Stopping, GoesOn, Top

\* What the actions below show of a step.
Kept ==
    /\ Honest' /\ Bailing' /\ (phase' = "first" => phase = "first" \/ first # NoLine)
    /\ (running' # "no" => executing') /\ (phase' = "exit" => ~executing')

LEMMA StartupKeeps == Inv /\ ReadInit => Kept
<1> SUFFICES ASSUME Inv, ReadInit PROVE Kept
  OBVIOUS
<1>1. /\ phase = "rc" /\ frames = <<>> /\ ~executing /\ running = "no" /\ ~bailed
      /\ UNCHANGED <<executing, running, bailed>>
  BY NotBailed DEF Inv, ReadInit, Idle, Control, exec
<1>2. /\ Len(frames) = 0 /\ Same(frames) /\ Owes(phase, frames, failed)
  BY <1>1, EmptyGood DEF Same, Inv, Honest, Fine
<1>3. CASE InitFile # NoFile /\ Calls(frames, InitFile) /\ UNCHANGED <<phase, status, failed>>
  <2>1. InitFile \in File
    BY <1>3, ShellAssumption
  <2>2. Fine(phase, status, frames', failed)
    BY <1>1, <1>2, <1>3, <2>1, CallFine DEF Phases, Same
  <2> QED
    BY <1>1, <1>3, <2>2 DEF Kept, Honest, Bailing
<1>4. CASE MainGets(0) /\ UNCHANGED failed
  <2>1. Fine(phase', status', frames', failed) /\ (phase' = "first" => phase = "first")
    BY <1>1, <1>2, <1>4, GetsZero DEF CallerGets, Inv
  <2> QED
    BY <1>1, <1>4, <2>1 DEF Kept, Honest, Bailing
<1>5. CASE Exits(1) /\ failed' = failed \cup {phase}
  <2>1. Fine(phase', status', frames', failed') /\ phase' = "exit"
    BY <1>5, EmptyGood DEF Exits, Fine, Tells, Phases
  <2> QED
    BY <1>1, <2>1 DEF Kept, Honest, Bailing
<1> QED
  BY <1>3, <1>4, <1>5 DEF ReadInit

LEMMA OptionKeeps == Inv /\ Option => Kept
<1> SUFFICES ASSUME Inv, Option PROVE Kept
  OBVIOUS
<1>1. phase = "args" /\ frames = <<>> /\ Idle /\ ~executing /\ running = "no" /\ ~bailed
  BY NotBailed DEF Inv, Option, Idle, Control
<1>2. /\ Len(frames) = 0 /\ Same(frames) /\ Owes(phase, frames, failed)
  BY <1>1, EmptyGood DEF Same, Inv, Honest, Fine
<1>3. args # <<>> /\ args \in Seq(Line) /\ Head(args) \in Line
  BY DEF Option, Inv, Control
<1>4. CASE UNCHANGED <<exec, frames, phase, status, ghosts>>
  BY <1>1, <1>4 DEF Inv, Kept, Honest, Bailing, exec, ghosts
<1>5. CASE Exits(0) /\ UNCHANGED <<exec, bail, ghosts>>
  <2>1. Fine(phase', status', frames', failed') /\ phase' = "exit"
    BY <1>1, <1>2, <1>5, EmptyGood DEF Exits, Fine, Tells, Phases, Owes, ghosts
  <2> QED
    BY <1>1, <1>5, <2>1 DEF Kept, Honest, Bailing, exec, ghosts
<1>6. CASE Exits(1) /\ failed' = failed \cup {phase} /\ UNCHANGED <<exec, incomplete, bailed>>
  <2>1. Fine(phase', status', frames', failed') /\ phase' = "exit"
    BY <1>6, EmptyGood DEF Exits, Fine, Tells, Phases
  <2> QED
    BY <1>1, <1>6, <2>1 DEF Kept, Honest, Bailing, exec
<1>7. CASE Executes(frames, Head(args).text)
  BY <1>1, <1>2, <1>7, ExecutesFine DEF Inv, Kept
<1>8. CASE MetaCommand(frames, Head(args))
  BY <1>1, <1>2, <1>3, <1>8, MetaFine DEF Inv, Kept
<1>9. \/ UNCHANGED <<exec, frames, phase, status, ghosts>>
      \/ Exits(0) /\ UNCHANGED <<exec, bail, ghosts>>
      \/ Exits(1) /\ failed' = failed \cup {phase} /\ UNCHANGED <<exec, incomplete, bailed>>
      \/ Executes(frames, Head(args).text)
      \/ MetaCommand(frames, Head(args))
  BY DEF Option
<1> QED
  BY <1>4, <1>5, <1>6, <1>7, <1>8, <1>9

LEMMA MainKeeps == Inv /\ (RunFirst \/ First \/ RunInput) => Kept
<1> SUFFICES ASSUME Inv, RunFirst \/ First \/ RunInput PROVE Kept
  OBVIOUS
<1>1. frames = <<>> /\ Idle /\ ~executing /\ running = "no" /\ ~bailed
  BY NotBailed DEF Inv, RunFirst, First, RunInput, OptionsDone, Idle, Control
<1>2. /\ Len(frames) = 0 /\ Good(frames) /\ Same(frames) /\ Owes(phase, frames, failed)
  BY <1>1, EmptyGood DEF Same, Inv, Honest, Fine, Idle
<1>3. CASE RunFirst
  <2>1. Fine("first", status, frames, failed)
    BY <1>2, <1>3 DEF Fine, Owes, RunFirst, OptionsDone, Phases
  <2> QED
    BY <1>1, <1>3, <2>1 DEF RunFirst, Kept, Honest, Bailing, exec, ghosts
<1>4. CASE First
  <2>1. first \in Line
    BY <1>4 DEF First, Inv, Control
  <2> QED
    BY <1>1, <1>2, <1>4, <2>1, ExecutesFine, MetaFine DEF First, Inv, Kept
<1>5. CASE RunInput
  <2> DEFINE f == IF tty THEN "tty" ELSE "stdin"
  <2>1. f \in File \cup {"tty"} /\ Calls(frames, f)
    BY <1>5, ShellAssumption DEF RunInput
  <2>2. Owes("input", frames, failed) /\ "input" \in Phases \ {"exit"}
    BY <1>2, <1>5 DEF Owes, RunInput, OptionsDone, Phases
  <2> HIDE DEF f
  <2>3. Fine("input", status, frames', failed)
    BY <1>1, <1>2, <2>1, <2>2, CallFine
  <2> QED
    BY <1>1, <1>5, <2>3 DEF RunInput, Kept, Honest, Bailing, exec, ghosts
<1> QED
  BY <1>3, <1>4, <1>5

LEMMA LinesKeep == Inv /\ (Leave \/ FileLine \/ TypedLine) => Kept
<1> SUFFICES ASSUME Inv, Leave \/ FileLine \/ TypedLine PROVE Kept
  OBVIOUS
<1>1. frames # <<>> /\ Idle /\ ~executing /\ running = "no" /\ phase # "exit"
  BY DEF Inv, Leave, FileLine, TypedLine, Idle, Control
<1>2. /\ Good(frames) /\ Same(frames) /\ Len(frames) \in 1..Len(frames)
  BY <1>1, SeqFacts DEF Same, Inv, Honest, Fine, Good
<1>3. IsFrame(Top)
  BY <1>2 DEF Good, Top
<1>4. CASE Leave
  <2>1. UNCHANGED <<bail, failed, bailed, executing, running>> /\ Returns(frames)
    BY <1>4 DEF Leave, exec
  <2> QED
    BY <1>1, <1>2, <2>1, ReturnsBack DEF Inv, Kept
<1>5. CASE FileLine
  <2>1. text[Top.in][Top.at + 1] \in Line
    <3>1. Top.in \in File /\ Top.at \in Nat /\ Top.at < Len(text[Top.in])
      BY <1>3, <1>5 DEF IsFrame, FileLine, InFile
    <3>2. text[Top.in] \in Seq(Line)
      BY <3>1 DEF Inv, Control
    <3> QED
      BY <3>1, <3>2
  <2>2. ~bailed
    BY <1>1, <1>5, NotBailed DEF FileLine, Inv
  <2> QED
    BY <1>1, <1>5, <2>1, <2>2, TakesFine DEF FileLine, Inv, Kept
<1>6. CASE TypedLine
  <2>1. PICK line \in Line : Takes(line)
    BY <1>6, ShellAssumption DEF TypedLine
  <2>2. ~bailed
    BY <1>1, <1>6, NotBailed DEF TypedLine, GoesOn, InFile, Inv
  <2> QED
    BY <1>1, <2>1, <2>2, TakesFine DEF Inv, Kept
<1> QED
  BY <1>4, <1>5, <1>6

LEMMA ExecKeeps == Inv /\ (Starts \/ Succeeds \/ Fails \/ ExecDone \/ Interrupt) => Kept
<1> SUFFICES ASSUME Inv, Starts \/ Succeeds \/ Fails \/ ExecDone \/ Interrupt PROVE Kept
  OBVIOUS
<1>1. phase # "exit" /\ Good(frames)
  BY DEF Inv, Control, Honest, Fine, Starts, Succeeds, Fails, ExecDone, Interrupt
<1>2. Same(frames)
  BY <1>1 DEF Same
<1>3. CASE Starts \/ Succeeds \/ Interrupt
  <2>1. UNCHANGED <<phase, status, frames, failed, bailed, bail, executing>>
    BY <1>3 DEF Starts, Succeeds, Interrupt, ghosts
  <2>2. running' # "no" => executing
    BY <1>3 DEF Starts, Succeeds, Interrupt, Inv, Control
  <2> QED
    BY <1>1, <2>1, <2>2 DEF Inv, Kept, Honest, Bailing
<1>4. CASE Fails
  <2>1. /\ CallerGets(frames, 1) /\ Remembers(1) /\ bail' = bail
        /\ executing' = FALSE /\ running' = "no"
    BY <1>4 DEF Fails
  <2> QED
    BY <1>1, <1>2, <2>1, GetsOne DEF Inv, Kept
<1>5. CASE ExecDone
  <2>1. /\ CallerGets(frames, 0) /\ UNCHANGED <<failed, bailed>>
        /\ executing /\ executing' = FALSE /\ running' = "no"
    BY <1>5 DEF ExecDone, ghosts
  <2>2. ~bailed
    BY <1>1, <2>1 DEF Inv, Bailing
  <2>3. Fine(phase', status', frames', failed) /\ (phase' = "first" => phase = "first")
    BY <1>1, <1>2, <2>1, GetsZero DEF Inv
  <2> QED
    BY <2>1, <2>2, <2>3 DEF Kept, Honest, Bailing
<1> QED
  BY <1>3, <1>4, <1>5

\* Every state of the shell satisfies Inv.
THEOREM Invariance == Spec => []Inv
<1>1. Init => Inv
  <2> SUFFICES ASSUME Init PROVE Inv
    OBVIOUS
  <2>1. args \in Seq(Line) /\ first \in Line \cup {NoLine} /\ text \in [File -> Seq(Line)]
    BY ShellAssumption DEF Init
  <2>2. Control
    BY <2>1 DEF Init, Control
  <2>3. Honest /\ Bailing
    BY EmptyGood DEF Init, Honest, Fine, Owes, Phases, Bailing
  <2> QED
    BY <2>2, <2>3 DEF Inv
<1>2. Inv /\ [Next]_vars => Inv'
  <2> SUFFICES ASSUME Inv, [Next]_vars PROVE Inv'
    OBVIOUS
  <2>1. CASE UNCHANGED vars
    BY <2>1 DEF vars, Inv, Control, Bailing, Honest, Fine, Owes, Tells, Good, IsSeq, Stopping
  <2>2. CASE Steps \/ TypedLine \/ Interrupt
    <3>1. Kept
      BY <2>2, StartupKeeps, OptionKeeps, MainKeeps, LinesKeep, ExecKeeps DEF Steps
    <3>2. /\ UNCHANGED <<first, text>> /\ interrupts' \in Nat
          /\ args' = args \/ (args # <<>> /\ args' = Tail(args))
      BY <2>2 DEF Steps, ReadInit, Option, RunFirst, First, RunInput, Leave, FileLine,
                  Starts, Succeeds, Fails, ExecDone, TypedLine, Interrupt, given, ctrlC,
                  Inv, Control
    <3>3. pressed' => seenInterrupt'
      BY <2>2 DEF Steps, ReadInit, Option, RunFirst, First, RunInput, Leave, FileLine,
                  Starts, Succeeds, Fails, ExecDone, TypedLine, Interrupt, ctrlC,
                  Inv, Control
    <3>4. args' \in Seq(Line)
      BY <3>2 DEF Inv, Control
    <3>5. Control'
      BY <3>1, <3>2, <3>3, <3>4 DEF Inv, Control, Kept
    <3> QED
      BY <3>1, <3>5 DEF Inv, Kept
  <2> QED
    BY <2>1, <2>2 DEF Next, Stopped
<1> QED
  BY <1>1, <1>2, PTL DEF Spec

\* What the exit status tells (main and process_input): it is not 0 after an error
\* that is not of a -cmd option, nor half a statement at the end of an input, and
\* after any that bailed; 1 means a statement or a command that failed.
THEOREM StatusHonest == Spec => []ExitStatusHonest
<1>1. Inv => ExitStatusHonest
  BY DEF Inv, Honest, Bailing, Fine, Tells, ExitStatusHonest, Errors
<1> QED
  BY <1>1, Invariance, PTL

\* After an error under -bail no statement starts, at any depth of .read.
THEOREM BailStopsAll == Spec => BailStops
<1>1. Inv /\ [Next]_vars => [bailed /\ bailed' /\ running = "no" => running' = "no"]_vars
  <2> SUFFICES ASSUME Inv, [Next]_vars, bailed, running = "no" PROVE running' = "no"
    OBVIOUS
  <2>1. ~executing
    BY DEF Inv, Control, Bailing
  <2>2. ~Starts
    BY <2>1 DEF Starts
  <2>3. CASE UNCHANGED running
    BY <2>3
  <2>4. CASE ~UNCHANGED running
    BY <2>2, <2>4 DEF Next, Steps, ReadInit, Option, RunFirst, First, RunInput, Leave, FileLine,
         Succeeds, Fails, ExecDone, TypedLine, Interrupt, Stopped, vars, exec, Takes,
         Executes, MetaCommand
  <2> QED
    BY <2>3, <2>4
<1> QED
  BY <1>1, Invariance, PTL DEF Spec, BailStops

\* After Ctrl-C a call of process_input that reads a file returns.
THEOREM InterruptStopsAll == Spec => InterruptStops
<1> DEFINE Stops == pressed /\ interrupts' = interrupts /\ ~executing /\ frames # <<>> /\ InFile
                       => ~executing' /\ Len(frames') < Len(frames)
<1>1. Inv /\ [Next]_vars => [Stops]_vars
  <2> SUFFICES ASSUME Inv, Next, pressed, interrupts' = interrupts, ~executing, frames # <<>>,
                      InFile
               PROVE  ~executing' /\ Len(frames') < Len(frames)
    BY DEF vars
  <2>1. Good(frames) /\ Len(frames) \in Nat /\ Len(frames) > 0 /\ seenInterrupt
    BY SeqFacts DEF Inv, Honest, Fine, Good, Control
  <2>2. Leave
    <3>1. phase # "exit" /\ running = "no"
      BY DEF Inv, Honest, Fine, Control
    <3>2. ~Interrupt
      BY DEF Interrupt, Inv, Control
    <3>3. ~(ReadInit \/ Option \/ RunFirst \/ First \/ RunInput)
      BY DEF ReadInit, Option, RunFirst, First, RunInput, OptionsDone
    <3>4. ~(FileLine \/ TypedLine)
      BY <2>1 DEF FileLine, TypedLine
    <3>5. ~(Starts \/ Succeeds \/ Fails \/ ExecDone \/ Stopped)
      BY <3>1 DEF Starts, Succeeds, Fails, ExecDone, Stopped
    <3> QED
      BY <3>2, <3>3, <3>4, <3>5 DEF Next, Steps
  <2> DEFINE gs == SubSeq(frames, 1, Len(frames) - 1)
             r == IF frames[Len(frames)].errs THEN 1 ELSE 0
  <2>3. CallerGets(gs, r) /\ ~executing'
    BY <2>2 DEF Leave, Returns, exec
  <2>4. Good(gs) /\ Len(gs) = Len(frames) - 1
    BY <2>1, PopGood
  <2> HIDE DEF gs, r
  <2>5. CASE gs = <<>>
    <3>1. frames' = <<>>
      BY <2>3, <2>5 DEF CallerGets, MainGets, Exits
    <3> QED
      BY <3>1, <2>1, <2>3, EmptyGood
  <2>6. CASE gs # <<>>
    <3> DEFINE g == [gs[Len(gs)] EXCEPT !.errs = @ \/ r # 0]
    <3>1. Len(gs) \in 1..Len(gs) /\ IsFrame(gs[Len(gs)])
      BY <2>1, <2>4, <2>6, SeqFacts DEF Good
    <3>2. IsFrame(g) /\ g.in = gs[Len(gs)].in
      BY <3>1 DEF IsFrame, NoFrame
    <3>3. frames' = SetTop(gs, g)
      BY <2>3, <2>6 DEF CallerGets, SetTop
    <3> HIDE DEF g
    <3>4. Len(frames') = Len(gs)
      BY <2>4, <2>6, <3>2, <3>3, TopGood
    <3> QED
      BY <2>1, <2>3, <2>4, <3>4
  <2> QED
    BY <2>5, <2>6
<1> QED
  BY <1>1, Invariance, PTL DEF Spec, InterruptStops

-----------------------------------------------------------------------------
(* The two machines that read SQL text.                                      *)

NoText == [mode |-> "sql", last |-> "none"]
NoStatement == [mode |-> "sql", done |-> <<>>, now |-> <<>>]
\* The two machines, and their states after a text, given the states before it.
ScanFrom(s, z) == Run(Scanning, s, z)
SplitFrom(s, z) == Run(Splitting, s, z)

\* A step of the scanner by its parts: the mode after x, and the token x is.
ModeAfter(m, x) ==
    IF m = "comment" THEN IF x = "*/" THEN "sql" ELSE m
    ELSE IF m = "line" THEN IF x = "nl" THEN "sql" ELSE m
    ELSE IF m = "quote" THEN IF x = "'" THEN "sql" ELSE m
    ELSE IF x = "/*" THEN "comment" ELSE IF x = "--" THEN "line"
    ELSE IF x = "'" THEN "quote" ELSE "sql"
TokenOf(m, x) ==
    IF m # "sql" \/ x \in {"nl", "/*", "--"} THEN "none"
    ELSE IF x = ";" THEN "semicolon" ELSE "token"

LEMMA ScanStepIs ==
    ASSUME NEW s \in Scanner, NEW x
    PROVE  ScanStep(s, x) = [mode |-> ModeAfter(s.mode, x),
                             last |-> IF TokenOf(s.mode, x) = "none" THEN s.last
                                      ELSE TokenOf(s.mode, x)]
<1>0. /\ s.mode \in Inside /\ s = [mode |-> s.mode, last |-> s.last]
      /\ \A m : [s EXCEPT !.mode = m] = [mode |-> m, last |-> s.last]
      /\ \A l : [s EXCEPT !.last = l] = [mode |-> s.mode, last |-> l]
  BY DEF Scanner
<1>6. [s EXCEPT !.mode = "quote", !.last = "token"] = [mode |-> "quote", last |-> "token"]
  <2> DEFINE q == [s EXCEPT !.mode = "quote"]
  <2>1. q = [mode |-> "quote", last |-> s.last]
    BY <1>0
  <2> HIDE DEF q
  <2>2. [q EXCEPT !.last = "token"] = [mode |-> "quote", last |-> "token"]
    BY <2>1
  <2> QED BY <2>2 DEF q
<1>1. /\ s.mode \in Inside /\ s = [mode |-> s.mode, last |-> s.last]
      /\ \A m : [s EXCEPT !.mode = m] = [mode |-> m, last |-> s.last]
      /\ \A l : [s EXCEPT !.last = l] = [mode |-> s.mode, last |-> l]
      /\ [s EXCEPT !.mode = "quote", !.last = "token"] = [mode |-> "quote", last |-> "token"]
  BY <1>0, <1>6
<1>2. CASE s.mode = "comment"
  <2>1. ScanStep(s, x) = IF x = "*/" THEN [s EXCEPT !.mode = "sql"] ELSE s
    BY <1>2 DEF ScanStep
  <2> QED BY <1>1, <1>2, <2>1 DEF ModeAfter, TokenOf
<1>3. CASE s.mode = "line"
  <2>1. ScanStep(s, x) = IF x = "nl" THEN [s EXCEPT !.mode = "sql"] ELSE s
    BY <1>3 DEF ScanStep
  <2> QED BY <1>1, <1>3, <2>1 DEF ModeAfter, TokenOf
<1>4. CASE s.mode = "quote"
  <2>1. ScanStep(s, x) = IF x = "'" THEN [s EXCEPT !.mode = "sql"] ELSE s
    BY <1>4 DEF ScanStep
  <2> QED BY <1>1, <1>4, <2>1 DEF ModeAfter, TokenOf
<1>5. CASE s.mode = "sql"
  <2>1. CASE x = "nl"
    BY <2>1, <1>1, <1>5 DEF ScanStep, ModeAfter, TokenOf
  <2>2. CASE x = "/*"
    BY <2>2, <1>1, <1>5 DEF ScanStep, ModeAfter, TokenOf
  <2>3. CASE x = "--"
    BY <2>3, <1>1, <1>5 DEF ScanStep, ModeAfter, TokenOf
  <2>4. CASE x = "'"
    BY <2>4, <1>1, <1>5 DEF ScanStep, ModeAfter, TokenOf
  <2>5. CASE x = ";"
    BY <2>5, <1>1, <1>5 DEF ScanStep, ModeAfter, TokenOf
  <2>6. CASE x \notin {"nl", "/*", "--", "'", ";"}
    BY <2>6, <1>1, <1>5 DEF ScanStep, ModeAfter, TokenOf
  <2> QED BY <2>1, <2>2, <2>3, <2>4, <2>5, <2>6
<1> QED BY <1>1, <1>2, <1>3, <1>4, <1>5 DEF Inside

LEMMA ScanStepParts ==
    ASSUME NEW s \in Scanner, NEW x
    PROVE  /\ ScanStep(s, x).mode = ModeAfter(s.mode, x)
           /\ ScanStep(s, x).last = IF TokenOf(s.mode, x) = "none" THEN s.last
                                    ELSE TokenOf(s.mode, x)
BY ScanStepIs

LEMMA ModeFacts ==
    ASSUME NEW m \in Inside, NEW x
    PROVE  /\ ModeAfter(m, x) \in Inside
           /\ TokenOf(m, x) \in {"none", "token", "semicolon"}
           /\ TokenOf(m, x) = "semicolon" <=> (m = "sql" /\ x = ";")
           /\ ModeAfter(m, x) = "quote" /\ m # "quote" => TokenOf(m, x) = "token"
           /\ m # "sql" => TokenOf(m, x) = "none"
<1>1. ModeAfter(m, x) \in Inside
  BY DEF Inside, ModeAfter
<1>2. TokenOf(m, x) \in {"none", "token", "semicolon"}
  BY DEF TokenOf
<1>3. TokenOf(m, x) = "semicolon" <=> (m = "sql" /\ x = ";")
  BY DEF TokenOf
<1>4. ModeAfter(m, x) = "quote" /\ m # "quote" => TokenOf(m, x) = "token"
  BY DEF ModeAfter, TokenOf, Inside
<1>5. m # "sql" => TokenOf(m, x) = "none"
  BY DEF TokenOf
<1> QED BY <1>1, <1>2, <1>3, <1>4, <1>5

LEMMA ScanStepTyped ==
    ASSUME NEW s \in Scanner, NEW x \in Lex
    PROVE  ScanStep(s, x) \in Scanner
<1>1. s.mode \in Inside /\ s.last \in {"none", "token", "semicolon"}
  BY DEF Scanner
<1>2. ModeAfter(s.mode, x) \in Inside /\ TokenOf(s.mode, x) \in {"none", "token", "semicolon"}
  BY <1>1, ModeFacts
<1> QED BY <1>1, <1>2, ScanStepIs DEF Scanner

LEMMA ScanningTyped ==
    /\ Scanning \in [Scanner \X Lex -> Scanner] /\ NoText \in Scanner
    /\ \A s \in Scanner, x \in Lex : Scanning[<<s, x>>] = ScanStep(s, x)
<1>1. \A p \in Scanner \X Lex : ScanStep(p[1], p[2]) \in Scanner
  BY ScanStepTyped
<1>2. Scanning \in [Scanner \X Lex -> Scanner]
  BY <1>1 DEF Scanning
<1>3. \A s \in Scanner, x \in Lex : Scanning[<<s, x>>] = ScanStep(s, x)
  BY DEF Scanning
<1>4. NoText \in Scanner
  BY DEF NoText, Scanner, Inside
<1> QED BY <1>2, <1>3, <1>4

LEMMA SplitStepTyped ==
    ASSUME NEW s \in Splitter, NEW x \in Lex
    PROVE  SplitStep(s, x) \in Splitter
<1> DEFINE t == [mode |-> s.mode, last |-> "none"]
           scan == ScanStep(t, x)
<1>1. s.mode \in Inside /\ s.done \in Seq(Seq(Lex)) /\ s.now \in Seq(Lex)
  BY DEF Splitter
<1>2. scan.mode \in Inside
  <2>1. t \in Scanner
    BY <1>1 DEF Scanner
  <2> HIDE DEF t
  <2> QED BY <2>1, ScanStepTyped DEF Scanner
<1> HIDE DEF t, scan
<1>3. Append(s.now, x) \in Seq(Lex) /\ Append(s.done, s.now) \in Seq(Seq(Lex))
      /\ <<>> \in Seq(Lex)
  BY <1>1
<1> DEFINE isText == s.mode = "quote" \/ scan.mode = "quote" \/ scan.last = "token"
           ends == s.mode = "sql" /\ x = ";"
           found == IF s.now = <<>> THEN s.done ELSE Append(s.done, s.now)
           done == IF ends THEN found ELSE s.done
           now == IF ends THEN <<>> ELSE IF isText THEN Append(s.now, x) ELSE s.now
<1>4. done \in Seq(Seq(Lex)) /\ now \in Seq(Lex)
  BY <1>1, <1>3
<1>5. SplitStep(s, x) = [mode |-> scan.mode, done |-> done, now |-> now]
  BY DEF SplitStep, scan, t
<1> HIDE DEF done, now
<1> QED BY <1>2, <1>4, <1>5 DEF Splitter

LEMMA SplittingTyped ==
    /\ Splitting \in [Splitter \X Lex -> Splitter] /\ NoStatement \in Splitter
    /\ \A s \in Splitter, x \in Lex : Splitting[<<s, x>>] = SplitStep(s, x)
<1>1. \A p \in Splitter \X Lex : SplitStep(p[1], p[2]) \in Splitter
  BY SplitStepTyped
<1>2. Splitting \in [Splitter \X Lex -> Splitter]
  BY <1>1 DEF Splitting
<1>3. \A s \in Splitter, x \in Lex : Splitting[<<s, x>>] = SplitStep(s, x)
  BY DEF Splitting
<1>4. NoStatement \in Splitter
  BY DEF NoStatement, Splitter, Inside
<1> QED BY <1>2, <1>3, <1>4

LEMMA AfterIs == \A step, s0, z : After(step, s0, z) = Run(step, s0, z)
BY DEF After, Run, Runs

LEMMA ScanIs == \A z : Scan(z) = ScanFrom(NoText, z)
BY AfterIs DEF Scan, ScanFrom, NoText

LEMMA SplitIs == \A z : Split(z) = SplitFrom(NoStatement, z)
BY AfterIs DEF Split, SplitFrom, NoStatement

LEMMA ScanFromFacts ==
    ASSUME NEW s \in Scanner
    PROVE  /\ \A z \in Seq(Lex) : ScanFrom(s, z) \in Scanner
           /\ ScanFrom(s, <<>>) = s
           /\ \A x \in Lex : ScanFrom(s, <<x>>) = ScanStep(s, x)
           /\ \A y, z \in Seq(Lex) : ScanFrom(s, y \o z) = ScanFrom(ScanFrom(s, y), z)
<1>1. Scanning \in [Scanner \X Lex -> Scanner]
  BY ScanningTyped
<1>2. ASSUME NEW z \in Seq(Lex) PROVE ScanFrom(s, z) \in Scanner
  BY <1>1, RunTyped DEF ScanFrom
<1>3. ScanFrom(s, <<>>) = s
  BY <1>1, RunEmpty DEF ScanFrom
<1>4. ASSUME NEW x \in Lex PROVE ScanFrom(s, <<x>>) = ScanStep(s, x)
  <2>1. Run(Scanning, s, <<x>>) = Scanning[<<s, x>>]
    BY <1>1, RunOne
  <2> QED BY <2>1, ScanningTyped DEF ScanFrom
<1>5. ASSUME NEW y \in Seq(Lex), NEW z \in Seq(Lex)
      PROVE  ScanFrom(s, y \o z) = ScanFrom(ScanFrom(s, y), z)
  <2>1. Continues(Scanning, s, y, z)
    BY <1>1, RunConcat
  <2> QED BY <2>1 DEF ScanFrom, Continues
<1> QED BY <1>2, <1>3, <1>4, <1>5

LEMMA SplitFromFacts ==
    ASSUME NEW s \in Splitter
    PROVE  /\ \A z \in Seq(Lex) : SplitFrom(s, z) \in Splitter
           /\ SplitFrom(s, <<>>) = s
           /\ \A x \in Lex : SplitFrom(s, <<x>>) = SplitStep(s, x)
           /\ \A y, z \in Seq(Lex) : SplitFrom(s, y \o z) = SplitFrom(SplitFrom(s, y), z)
<1>1. Splitting \in [Splitter \X Lex -> Splitter]
  BY SplittingTyped
<1>2. ASSUME NEW z \in Seq(Lex) PROVE SplitFrom(s, z) \in Splitter
  BY <1>1, RunTyped DEF SplitFrom
<1>3. SplitFrom(s, <<>>) = s
  BY <1>1, RunEmpty DEF SplitFrom
<1>4. ASSUME NEW x \in Lex PROVE SplitFrom(s, <<x>>) = SplitStep(s, x)
  <2>1. Run(Splitting, s, <<x>>) = Splitting[<<s, x>>]
    BY <1>1, RunOne
  <2> QED BY <2>1, SplittingTyped DEF SplitFrom
<1>5. ASSUME NEW y \in Seq(Lex), NEW z \in Seq(Lex)
      PROVE  SplitFrom(s, y \o z) = SplitFrom(SplitFrom(s, y), z)
  <2>1. Continues(Splitting, s, y, z)
    BY <1>1, RunConcat
  <2> QED BY <2>1 DEF SplitFrom, Continues
<1> QED BY <1>2, <1>3, <1>4, <1>5

\* Both are inside the same; behind a last semicolon no text of a statement waits.
Alike(s, t) ==
    /\ s.mode = t.mode
    /\ s.last = "semicolon" => t.now = <<>>
    /\ s.mode = "quote" => s.last = "token"

LEMMA ModeAlone ==
    ASSUME NEW s \in Scanner, NEW x \in Lex
    PROVE  LET t == ScanStep([mode |-> s.mode, last |-> "none"], x) IN
           /\ t.mode = ScanStep(s, x).mode
           /\ ScanStep(s, x).last = IF t.last = "none" THEN s.last ELSE t.last
           /\ t.last = "semicolon" <=> (s.mode = "sql" /\ x = ";")
<1> DEFINE b == [mode |-> s.mode, last |-> "none"]
<1>1. b \in Scanner /\ b.mode = s.mode /\ b.last = "none"
  BY DEF Scanner
<1> HIDE DEF b
<1>2. ScanStep(b, x).mode = ModeAfter(s.mode, x) /\ ScanStep(b, x).last = TokenOf(s.mode, x)
  <2>1. /\ ScanStep(b, x).mode = ModeAfter(b.mode, x)
        /\ ScanStep(b, x).last = IF TokenOf(b.mode, x) = "none" THEN b.last
                                 ELSE TokenOf(b.mode, x)
    BY <1>1, ScanStepParts
  <2> QED BY <1>1, <2>1
<1>3. TokenOf(s.mode, x) = "semicolon" <=> (s.mode = "sql" /\ x = ";")
  BY ModeFacts DEF Scanner
<1>4. /\ ScanStep(s, x).mode = ModeAfter(s.mode, x)
      /\ ScanStep(s, x).last = IF TokenOf(s.mode, x) = "none" THEN s.last ELSE TokenOf(s.mode, x)
  BY ScanStepParts
<1>5. /\ ScanStep(b, x).mode = ScanStep(s, x).mode
      /\ ScanStep(s, x).last = IF ScanStep(b, x).last = "none" THEN s.last
                               ELSE ScanStep(b, x).last
  BY <1>2, <1>4, Zenon
<1>6. ScanStep(b, x).last = "semicolon" <=> (s.mode = "sql" /\ x = ";")
  BY <1>2, <1>3, Zenon
<1> QED BY <1>5, <1>6 DEF b

LEMMA AlikeStep ==
    ASSUME NEW s \in Scanner, NEW t \in Splitter, NEW x \in Lex, Alike(s, t)
    PROVE  Alike(ScanStep(s, x), SplitStep(t, x))
<1> DEFINE b == [mode |-> s.mode, last |-> "none"]
           scan == ScanStep(b, x)
           u == ScanStep(s, x)
           v == SplitStep(t, x)
<1>1. /\ scan.mode = u.mode
      /\ u.last = IF scan.last = "none" THEN s.last ELSE scan.last
      /\ scan.last = "semicolon" <=> (s.mode = "sql" /\ x = ";")
  BY ModeAlone
<1>2. u.mode = "quote" => u.last = "token"
  <2>1. /\ u.mode = ModeAfter(s.mode, x)
        /\ u.last = IF TokenOf(s.mode, x) = "none" THEN s.last ELSE TokenOf(s.mode, x)
    BY ScanStepParts
  <2>2. /\ ModeAfter(s.mode, x) = "quote" /\ s.mode # "quote" => TokenOf(s.mode, x) = "token"
        /\ s.mode # "sql" => TokenOf(s.mode, x) = "none"
    BY ModeFacts DEF Scanner
  <2>3. s.mode = "quote" => s.last = "token"
    BY DEF Alike
  <2> HIDE DEF u
  <2> QED BY <2>1, <2>2, <2>3
<1>3. b = [mode |-> t.mode, last |-> "none"] /\ s.mode = t.mode
  BY DEF Alike
<1>4. /\ v.mode = scan.mode
      /\ v.now = IF s.mode = "sql" /\ x = ";" THEN <<>>
                 ELSE IF s.mode = "quote" \/ scan.mode = "quote" \/ scan.last = "token"
                      THEN Append(t.now, x) ELSE t.now
  BY <1>3 DEF SplitStep
<1>5. s.mode = "quote" => s.last = "token"
  BY DEF Alike
<1>6. s.last = "semicolon" => t.now = <<>>
  BY DEF Alike
<1>7. scan \in Scanner /\ u \in Scanner
  <2>1. b \in Scanner
    BY DEF Scanner
  <2> HIDE DEF b
  <2> QED BY <2>1, ScanStepTyped
<1> HIDE DEF b, scan, u, v
<1>8. ASSUME u.last = "semicolon" PROVE v.now = <<>>
  <2>1. CASE scan.last = "semicolon"
    BY <2>1, <1>1, <1>4
  <2>2. CASE scan.last # "semicolon"
    <3>1. scan.last = "none" /\ s.last = "semicolon"
      BY <2>2, <1>1, <1>8
    <3>2. s.mode # "quote" /\ scan.mode # "quote"
      BY <3>1, <1>1, <1>2, <1>5, <1>8
    <3> QED BY <3>1, <3>2, <1>4, <1>6
  <2> QED BY <2>1, <2>2
<1>9. Alike(u, v)
  BY <1>1, <1>2, <1>4, <1>8 DEF Alike
<1> QED BY <1>9 DEF u, v

LEMMA ScanSplitAlike ==
    ASSUME NEW z \in Seq(Lex)
    PROVE  Alike(Scan(z), Split(z))
<1> DEFINE R == {p \in Scanner \X Splitter : Alike(p[1], p[2])}
<1>1. <<NoText, NoStatement>> \in R
  BY ScanningTyped, SplittingTyped DEF NoText, NoStatement, Alike
<1>2. Agree(Scanning, Splitting, R, Lex)
  <2> SUFFICES ASSUME NEW s, NEW t, NEW x, <<s, t>> \in R, x \in Lex
               PROVE  <<Scanning[<<s, x>>], Splitting[<<t, x>>]>> \in R
    BY DEF Agree
  <2>1. s \in Scanner /\ t \in Splitter /\ Alike(s, t)
    OBVIOUS
  <2>2. /\ Scanning[<<s, x>>] = ScanStep(s, x) /\ Splitting[<<t, x>>] = SplitStep(t, x)
        /\ ScanStep(s, x) \in Scanner /\ SplitStep(t, x) \in Splitter
    BY <2>1, ScanningTyped, SplittingTyped, ScanStepTyped, SplitStepTyped
  <2>3. Alike(ScanStep(s, x), SplitStep(t, x))
    BY <2>1, AlikeStep
  <2> QED BY <2>2, <2>3
<1> HIDE DEF R
<1>3. <<Run(Scanning, NoText, z), Run(Splitting, NoStatement, z)>> \in R
  BY <1>1, <1>2, RunTogether, ScanningTyped, SplittingTyped
<1>4. <<Scan(z), Split(z)>> \in R
  BY <1>3, ScanIs, SplitIs DEF ScanFrom, SplitFrom
<1> QED BY <1>4 DEF R

\* t is s with the statements fed before.
Ahead(fed, s, t) == s.mode = t.mode /\ s.now = t.now /\ s.done = fed \o t.done

AppendsBehind(s, t, e) == Append(s \o t, e) = s \o Append(t, e)

LEMMA AppendBehind ==
    ASSUME NEW S, NEW s \in Seq(S), NEW t \in Seq(S), NEW e \in S
    PROVE  AppendsBehind(s, t, e)
<1> DEFINE u == Append(s \o t, e)
           v == s \o Append(t, e)
<1>1. /\ s \o t \in Seq(S) /\ Append(t, e) \in Seq(S) /\ Len(s) \in Nat /\ Len(t) \in Nat
      /\ Len(s \o t) = Len(s) + Len(t) /\ Len(Append(t, e)) = Len(t) + 1
  OBVIOUS
<1>2. u \in Seq(S) /\ v \in Seq(S) /\ Len(u) = Len(s) + Len(t) + 1 /\ Len(v) = Len(u)
  BY <1>1
<1>3. ASSUME NEW i \in 1..Len(u) PROVE u[i] = v[i]
  BY <1>1, <1>2
<1> HIDE DEF u, v
<1>4. u = v
  BY <1>2, <1>3, SeqEqual
<1> QED BY <1>4 DEF u, v, AppendsBehind

LEMMA AheadStep ==
    ASSUME NEW fed \in Seq(Seq(Lex)), NEW s \in Splitter, NEW t \in Splitter, NEW x \in Lex,
           Ahead(fed, s, t)
    PROVE  Ahead(fed, SplitStep(s, x), SplitStep(t, x))
<1>1. /\ s.mode = t.mode /\ s.now = t.now /\ s.done = fed \o t.done
      /\ t.done \in Seq(Seq(Lex)) /\ t.now \in Seq(Lex)
  BY DEF Ahead, Splitter
<1>2. Append(fed \o t.done, t.now) = fed \o Append(t.done, t.now)
  <2>1. AppendsBehind(fed, t.done, t.now)
    BY <1>1, AppendBehind
  <2> QED BY <2>1 DEF AppendsBehind
<1> DEFINE scan == ScanStep([mode |-> t.mode, last |-> "none"], x)
           isText == t.mode = "quote" \/ scan.mode = "quote" \/ scan.last = "token"
           ends == t.mode = "sql" /\ x = ";"
           now == IF ends THEN <<>> ELSE IF isText THEN Append(t.now, x) ELSE t.now
           found(d) == IF t.now = <<>> THEN d ELSE Append(d, t.now)
           done(d) == IF ends THEN found(d) ELSE d
<1>3. SplitStep(t, x) = [mode |-> scan.mode, done |-> done(t.done), now |-> now]
  BY DEF SplitStep
<1>4. SplitStep(s, x) = [mode |-> scan.mode, done |-> done(s.done), now |-> now]
  BY <1>1 DEF SplitStep
<1>5. done(s.done) = fed \o done(t.done)
  BY <1>1, <1>2
<1> HIDE DEF scan, done, now
<1> QED BY <1>3, <1>4, <1>5 DEF Ahead

LEMMA AheadStays ==
    ASSUME NEW fed \in Seq(Seq(Lex)), NEW s \in Splitter, NEW t \in Splitter,
           NEW z \in Seq(Lex), Ahead(fed, s, t)
    PROVE  Ahead(fed, SplitFrom(s, z), SplitFrom(t, z))
<1> DEFINE R == {p \in Splitter \X Splitter : Ahead(fed, p[1], p[2])}
<1>1. <<s, t>> \in R
  OBVIOUS
<1>2. Agree(Splitting, Splitting, R, Lex)
  <2> SUFFICES ASSUME NEW a, NEW b, NEW x, <<a, b>> \in R, x \in Lex
               PROVE  <<Splitting[<<a, x>>], Splitting[<<b, x>>]>> \in R
    BY DEF Agree
  <2>1. a \in Splitter /\ b \in Splitter /\ Ahead(fed, a, b)
    OBVIOUS
  <2>2. /\ Splitting[<<a, x>>] = SplitStep(a, x) /\ Splitting[<<b, x>>] = SplitStep(b, x)
        /\ SplitStep(a, x) \in Splitter /\ SplitStep(b, x) \in Splitter
    BY <2>1, SplittingTyped, SplitStepTyped
  <2>3. Ahead(fed, SplitStep(a, x), SplitStep(b, x))
    BY <2>1, AheadStep
  <2> QED BY <2>2, <2>3
<1> HIDE DEF R
<1>3. <<Run(Splitting, s, z), Run(Splitting, t, z)>> \in R
  BY <1>1, <1>2, RunTogether, SplittingTyped
<1> QED BY <1>3 DEF R, SplitFrom

\* Only a semicolon makes a semicolon the last token.
LEMMA NoSemicolon ==
    ASSUME NEW s \in Scanner, s.last # "semicolon", NEW z \in Seq(Lex), ~ContainsSemicolon(z)
    PROVE  ScanFrom(s, z).last # "semicolon"
<1> DEFINE T == {t \in Scanner : t.last # "semicolon"}
<1>1. Stays(Scanning, T, z)
  <2> SUFFICES ASSUME NEW i \in 1..Len(z), NEW t \in T PROVE Scanning[<<t, z[i]>>] \in T
    BY DEF Stays
  <2>1. z[i] \in Lex /\ i \in DOMAIN z
    BY ElementOfSeq
  <2>5. z[i] # ";"
    BY <2>1 DEF ContainsSemicolon
  <2>2. t \in Scanner /\ t.last # "semicolon"
    OBVIOUS
  <2>3. Scanning[<<t, z[i]>>] = ScanStep(t, z[i]) /\ ScanStep(t, z[i]) \in Scanner
    BY <2>1, <2>2, ScanningTyped, ScanStepTyped
  <2>4. ScanStep(t, z[i]).last # "semicolon"
    <3>1. /\ ScanStep(t, z[i]).last = IF TokenOf(t.mode, z[i]) = "none" THEN t.last
                                      ELSE TokenOf(t.mode, z[i])
      BY <2>2, ScanStepParts
    <3>2. TokenOf(t.mode, z[i]) # "semicolon"
      <4>1. t.mode \in Inside
        BY <2>2 DEF Scanner
      <4> HIDE DEF T
      <4>2. TokenOf(t.mode, z[i]) = "semicolon" <=> (t.mode = "sql" /\ z[i] = ";")
        BY <4>1, ModeFacts
      <4> QED BY <2>5, <4>2
    <3> QED BY <2>2, <3>1, <3>2
  <2> QED BY <2>3, <2>4
<1>2. s \in T
  OBVIOUS
<1> HIDE DEF T
<1>3. Run(Scanning, s, z) \in T
  <2>1. Scanning \in [Scanner \X Lex -> Scanner]
    BY ScanningTyped
  <2> QED BY <1>1, <1>2, <2>1, RunStays
<1> QED BY <1>3 DEF T, ScanFrom

\* What the end of a line does.
LEMMA NewLine ==
    ASSUME NEW s \in Scanner, NEW t \in Splitter
    PROVE  /\ ScanStep(s, "nl").last = s.last
           /\ ScanStep(s, "nl").mode = IF s.mode = "line" THEN "sql" ELSE s.mode
           /\ t.mode \in {"sql", "line"} =>
                 SplitStep(t, "nl") = [t EXCEPT !.mode = "sql"]
<1>1. ScanStep(s, "nl").last = s.last
  <2>1. TokenOf(s.mode, "nl") = "none"
    BY DEF TokenOf
  <2> QED BY <2>1, ScanStepParts
<1>2. ScanStep(s, "nl").mode = IF s.mode = "line" THEN "sql" ELSE s.mode
  <2>1. ModeAfter(s.mode, "nl") = IF s.mode = "line" THEN "sql" ELSE s.mode
    BY DEF ModeAfter, Scanner, Inside
  <2> QED BY <2>1, ScanStepParts
<1>3. ASSUME t.mode \in {"sql", "line"} PROVE SplitStep(t, "nl") = [t EXCEPT !.mode = "sql"]
  <2> DEFINE b == [mode |-> t.mode, last |-> "none"]
  <2>1. ScanStep(b, "nl") = [mode |-> "sql", last |-> "none"]
    <3>1. b \in Scanner /\ b.mode = t.mode /\ b.last = "none"
      BY <1>3 DEF Scanner, Inside
    <3> HIDE DEF b
    <3> QED BY <1>3, <3>1, ScanStepIs DEF ModeAfter, TokenOf
  <2>2. SplitStep(t, "nl") = [mode |-> "sql", done |-> t.done, now |-> t.now]
    BY <1>3, <2>1 DEF SplitStep
  <2> QED BY <2>2 DEF Splitter
<1> QED BY <1>1, <1>2, <1>3

-----------------------------------------------------------------------------
(* The buffer of process_input.                                              *)

\* What PendingExplained says of a buffer.
Explained(z) ==
    Complete(z) =>
        \E k \in DOMAIN z :
            /\ z[k] = "nl" /\ ~ContainsSemicolon(SubSeq(z, k, Len(z)))
            /\ Scan(SubSeq(z, 1, k)).mode = "comment"

\* What has been read, what was fed to SQLite, and what is in the buffer.
Waits(seen, fed, zSql) ==
    /\ seen \in Seq(Lex) /\ fed \in Seq(Seq(Lex)) /\ zSql \in Seq(Lex)
    /\ seen = <<>> => zSql = <<>> /\ fed = <<>>
    /\ Split(seen).now = Split(zSql).now /\ Split(seen).done = fed \o Split(zSql).done
    /\ zSql = <<>> => Split(seen).mode \in {"sql", "line"}
    /\ zSql # <<>> => Split(seen).mode = Split(zSql).mode
    /\ Explained(zSql)

LEMMA LexTyped == "nl" \in Lex /\ ";" \in Lex /\ <<"nl">> \in Seq(Lex) /\ <<";">> \in Seq(Lex)
BY DEF Lex, Mark

LEMMA TextTyped ==
    ASSUME NEW z \in Seq(Lex)
    PROVE  /\ Scan(z) \in Scanner /\ Split(z) \in Splitter
           /\ Scan(<<>>) = NoText /\ Split(<<>>) = NoStatement
BY ScanIs, SplitIs, ScanFromFacts, SplitFromFacts, ScanningTyped, SplittingTyped

\* x is z and one lexeme more, or y and z.
OneMore(z, e, x) ==
    /\ Len(x) = Len(z) + 1 /\ Len(z) \in Nat
    /\ x[Len(z) + 1] = e /\ \A i \in 1..Len(z) : x[i] = z[i]
Both(y, z, x) ==
    /\ Len(x) = Len(y) + Len(z) /\ Len(y) \in Nat /\ Len(z) \in Nat
    /\ \A i \in 1..Len(y) : x[i] = y[i]
    /\ \A i \in 1..(Len(y) + Len(z)) :
         i > Len(y) => x[i] = z[i - Len(y)] /\ i - Len(y) \in 1..Len(z)

LEMMA TextAndOne ==
    ASSUME NEW S, NEW z \in Seq(S), NEW e \in S
    PROVE  z \o <<e>> \in Seq(S) /\ OneMore(z, e, z \o <<e>>)
<1> DEFINE one == <<e>>
<1>1. one \in Seq(S) /\ Len(one) = 1 /\ one[1] = e
  OBVIOUS
<1> HIDE DEF one
<1>2. Len(z) \in Nat
  OBVIOUS
<1>3. z \o one \in Seq(S) /\ Len(z \o one) = Len(z) + 1
  <2>1. z \o one \in Seq(S) /\ Len(z \o one) = Len(z) + Len(one)
    BY <1>1, ConcatProperties
  <2> QED BY <1>1, <2>1
<1>3a. \A i \in 1..(Len(z) + Len(one)) :
         (z \o one)[i] = IF i <= Len(z) THEN z[i] ELSE one[i - Len(z)]
  BY <1>1, ConcatProperties
<1>4. Len(z) + 1 \in 1..(Len(z) + Len(one)) /\ ~(Len(z) + 1 <= Len(z)) /\ Len(z) + 1 - Len(z) = 1
  BY <1>1, <1>2
<1>5. (z \o one)[Len(z) + 1] = e
  <2> DEFINE k == Len(z) + 1
  <2>1. k \in 1..(Len(z) + Len(one)) /\ ~(k <= Len(z)) /\ k - Len(z) = 1
    BY <1>4
  <2> HIDE DEF k
  <2>2. (z \o one)[k] = one[k - Len(z)]
    BY <1>3a, <2>1
  <2>3. (z \o one)[k] = e
    BY <1>1, <2>1, <2>2
  <2> QED BY <2>3 DEF k
<1>6. ASSUME NEW i \in 1..Len(z) PROVE (z \o one)[i] = z[i]
  <2>1. i \in 1..(Len(z) + Len(one)) /\ i <= Len(z)
    BY <1>1, <1>2
  <2> QED BY <1>3a, <2>1
<1> QED BY <1>2, <1>3, <1>5, <1>6 DEF one, OneMore

LEMMA TextAndText ==
    ASSUME NEW S, NEW y \in Seq(S), NEW z \in Seq(S)
    PROVE  Both(y, z, y \o z)
<1>1. Len(y) \in Nat /\ Len(z) \in Nat
  OBVIOUS
<1>2. /\ Len(y \o z) = Len(y) + Len(z)
      /\ \A i \in 1..(Len(y) + Len(z)) :
            (y \o z)[i] = IF i <= Len(y) THEN y[i] ELSE z[i - Len(y)]
  BY ConcatProperties
<1> QED BY <1>1, <1>2 DEF Both

LEMMA JoinedTyped ==
    ASSUME NEW z \in Seq(Lex), NEW new \in Seq(Lex)
    PROVE  /\ Joined(z, new) \in Seq(Lex)
           /\ z \o <<"nl">> \in Seq(Lex)
           /\ z # <<>> => Joined(z, new) = (z \o <<"nl">>) \o new /\ Joined(z, new) # <<>>
           /\ z = <<>> => Joined(z, new) = new
<1> DEFINE y == z \o <<"nl">>
<1>1. y \in Seq(Lex) /\ Len(y) = Len(z) + 1 /\ Len(z) \in Nat
  BY LexTyped, TextAndOne DEF OneMore
<1> HIDE DEF y
<1>2. y \o new \in Seq(Lex) /\ Len(y \o new) = Len(y) + Len(new) /\ Len(new) \in Nat
  BY <1>1
<1>3. y \o new # <<>>
  BY <1>1, <1>2
<1> QED BY <1>1, <1>2, <1>3 DEF y, Joined

\* The machines after a joined line.
LEMMA JoinedRuns ==
    ASSUME NEW z \in Seq(Lex), NEW new \in Seq(Lex), z # <<>>
    PROVE  /\ Scan(Joined(z, new)) = ScanFrom(ScanStep(Scan(z), "nl"), new)
           /\ Split(Joined(z, new)) = SplitFrom(SplitStep(Split(z), "nl"), new)
           /\ Scan(z \o <<"nl">>) = ScanStep(Scan(z), "nl")
<1> DEFINE y == z \o <<"nl">>
<1>1. y \in Seq(Lex) /\ Joined(z, new) = y \o new /\ <<"nl">> \in Seq(Lex) /\ "nl" \in Lex
  BY JoinedTyped, LexTyped
<1>2. Scan(z) \in Scanner /\ Split(z) \in Splitter
  BY TextTyped
<1>3. Scan(y) = ScanStep(Scan(z), "nl")
  <2>1. ScanFrom(NoText, z \o <<"nl">>) = ScanFrom(ScanFrom(NoText, z), <<"nl">>)
    BY <1>1, ScanFromFacts, ScanningTyped
  <2>2. ScanFrom(Scan(z), <<"nl">>) = ScanStep(Scan(z), "nl")
    BY <1>1, <1>2, ScanFromFacts
  <2> QED BY <2>1, <2>2, ScanIs
<1>4. Split(y) = SplitStep(Split(z), "nl")
  <2>1. SplitFrom(NoStatement, z \o <<"nl">>) = SplitFrom(SplitFrom(NoStatement, z), <<"nl">>)
    BY <1>1, SplitFromFacts, SplittingTyped
  <2>2. SplitFrom(Split(z), <<"nl">>) = SplitStep(Split(z), "nl")
    BY <1>1, <1>2, SplitFromFacts
  <2> QED BY <2>1, <2>2, SplitIs
<1> HIDE DEF y
<1>5. Scan(y \o new) = ScanFrom(Scan(y), new)
  <2>1. ScanFrom(NoText, y \o new) = ScanFrom(ScanFrom(NoText, y), new)
    BY <1>1, ScanFromFacts, ScanningTyped
  <2> QED BY <2>1, ScanIs
<1>6. Split(y \o new) = SplitFrom(Split(y), new)
  <2>1. SplitFrom(NoStatement, y \o new) = SplitFrom(SplitFrom(NoStatement, y), new)
    BY <1>1, SplitFromFacts, SplittingTyped
  <2> QED BY <2>1, SplitIs
<1>7. /\ Scan(Joined(z, new)) = ScanFrom(ScanStep(Scan(z), "nl"), new)
      /\ Split(Joined(z, new)) = SplitFrom(SplitStep(Split(z), "nl"), new)
      /\ Scan(y) = ScanStep(Scan(z), "nl")
  BY <1>1, <1>3, <1>4, <1>5, <1>6
<1> QED BY <1>7 DEF y

\* A line takes the buffer where it takes the whole text.
LEMMA LineAhead ==
    ASSUME NEW seen, NEW fed, NEW zSql, Waits(seen, fed, zSql), NEW new \in Seq(Lex)
    PROVE  Ahead(fed, Split(Joined(seen, new)), Split(Joined(zSql, new)))
<1>1. /\ seen \in Seq(Lex) /\ fed \in Seq(Seq(Lex)) /\ zSql \in Seq(Lex)
      /\ seen = <<>> => zSql = <<>> /\ fed = <<>>
      /\ Split(seen).now = Split(zSql).now /\ Split(seen).done = fed \o Split(zSql).done
      /\ zSql = <<>> => Split(seen).mode \in {"sql", "line"}
      /\ zSql # <<>> => Split(seen).mode = Split(zSql).mode
  BY DEF Waits
<1>2. /\ Split(seen) \in Splitter /\ Split(zSql) \in Splitter /\ Split(<<>>) = NoStatement
      /\ NoStatement \in Splitter /\ "nl" \in Lex
      /\ SplitStep(Split(seen), "nl") \in Splitter /\ SplitStep(Split(zSql), "nl") \in Splitter
  BY <1>1, TextTyped, SplittingTyped, SplitStepTyped, LexTyped
<1>3. CASE zSql # <<>>
  <2>1. seen # <<>>
    BY <1>1, <1>3
  <2>2. Ahead(fed, Split(seen), Split(zSql))
    BY <1>1, <1>3 DEF Ahead
  <2>3. Ahead(fed, SplitStep(Split(seen), "nl"), SplitStep(Split(zSql), "nl"))
    BY <1>1, <1>2, <2>2, AheadStep
  <2>4. Ahead(fed, SplitFrom(SplitStep(Split(seen), "nl"), new),
                   SplitFrom(SplitStep(Split(zSql), "nl"), new))
    BY <1>1, <1>2, <2>3, AheadStays
  <2>5. Split(Joined(seen, new)) = SplitFrom(SplitStep(Split(seen), "nl"), new)
    BY <1>1, <2>1, JoinedRuns
  <2>6. Split(Joined(zSql, new)) = SplitFrom(SplitStep(Split(zSql), "nl"), new)
    BY <1>1, <1>3, JoinedRuns
  <2> QED BY <2>4, <2>5, <2>6
<1>4. CASE zSql = <<>> /\ seen # <<>>
  <2>1. Split(seen).now = <<>> /\ Split(seen).done = fed
    BY <1>1, <1>2, <1>4 DEF NoStatement
  <2>2. SplitStep(Split(seen), "nl") = [Split(seen) EXCEPT !.mode = "sql"]
    <3>1. Split(seen).mode \in {"sql", "line"}
      BY <1>1, <1>4
    <3>2. NoText \in Scanner
      BY ScanningTyped
    <3> QED BY <1>2, <3>1, <3>2, NewLine
  <2>3. Ahead(fed, SplitStep(Split(seen), "nl"), NoStatement)
    <3>1. SplitStep(Split(seen), "nl") = [mode |-> "sql", done |-> fed, now |-> <<>>]
      BY <1>2, <2>1, <2>2 DEF Splitter
    <3>2. fed = fed \o <<>>
      BY <1>1
    <3> QED BY <3>1, <3>2 DEF Ahead, NoStatement
  <2>4. Ahead(fed, SplitFrom(SplitStep(Split(seen), "nl"), new), SplitFrom(NoStatement, new))
    BY <1>1, <1>2, <2>3, AheadStays
  <2>5. Split(Joined(seen, new)) = SplitFrom(SplitStep(Split(seen), "nl"), new)
    BY <1>1, <1>4, JoinedRuns
  <2>6. Split(Joined(zSql, new)) = SplitFrom(NoStatement, new)
    BY <1>4, SplitIs DEF Joined
  <2> QED BY <2>4, <2>5, <2>6
<1>5. CASE seen = <<>>
  <2>1. Joined(seen, new) = new /\ Joined(zSql, new) = new /\ fed = <<>>
    BY <1>1, <1>5 DEF Joined
  <2>2. Split(new).done = <<>> \o Split(new).done
    <3>1. Split(new).done \in Seq(Seq(Lex))
      BY TextTyped DEF Splitter
    <3> QED BY <3>1
  <2> QED BY <2>1, <2>2 DEF Ahead
<1> QED BY <1>1, <1>3, <1>4, <1>5

\* Where a text ends.
LEMMA SemicolonBehind ==
    ASSUME NEW S, NEW z \in Seq(S), NEW k \in 1..Len(z)
    PROVE  ContainsSemicolon(SubSeq(z, k, Len(z))) <=> \E i \in k..Len(z) : z[i] = ";"
<1> DEFINE y == SubSeq(z, k, Len(z))
           n == Len(z)
<1>1. n \in Nat /\ k \in 1..n
  OBVIOUS
<1>2. Len(y) = n - k + 1 /\ DOMAIN y = 1..(n - k + 1) /\ \A i \in 1..(n - k + 1) : y[i] = z[k + i - 1]
  OBVIOUS
<1> HIDE DEF y, n
<1>3. ASSUME NEW i \in k..n, z[i] = ";" PROVE \E j \in DOMAIN y : y[j] = ";"
  <2>1. i - k + 1 \in 1..(n - k + 1) /\ k + (i - k + 1) - 1 = i
    BY <1>1
  <2>2. y[i - k + 1] = z[i]
    BY <1>2, <2>1
  <2> QED BY <1>2, <1>3, <2>1, <2>2
<1>4. ASSUME NEW j \in DOMAIN y, y[j] = ";" PROVE \E i \in k..n : z[i] = ";"
  <2>1. j \in 1..(n - k + 1) /\ y[j] = z[k + j - 1]
    BY <1>2
  <2>2. k + j - 1 \in k..n
    BY <1>1, <2>1
  <2> QED BY <1>4, <2>1, <2>2
<1>5. ContainsSemicolon(y) <=> \E i \in k..n : z[i] = ";"
  BY <1>3, <1>4 DEF ContainsSemicolon
<1> QED BY <1>5 DEF y, n

LEMMA SamePrefix ==
    ASSUME NEW S, NEW y \in Seq(S), NEW z \in Seq(S), NEW k \in Nat, k <= Len(y), k <= Len(z),
           \A i \in 1..k : y[i] = z[i]
    PROVE  SubSeq(y, 1, k) = SubSeq(z, 1, k)
OBVIOUS

\* A buffer that is not ready explains itself.
LEMMA LineExplained ==
    ASSUME NEW z \in Seq(Lex), NEW new \in Seq(Lex), Explained(z), ~Ready(z, new)
    PROVE  Explained(Joined(z, new))
<1> DEFINE all == Joined(z, new)
<1> SUFFICES ASSUME Complete(all)
             PROVE  \E k \in DOMAIN all :
                        /\ all[k] = "nl" /\ ~ContainsSemicolon(SubSeq(all, k, Len(all)))
                        /\ Scan(SubSeq(all, 1, k)).mode = "comment"
  BY DEF Explained
<1>1. ~ContainsSemicolon(new) /\ Scan(all).last = "semicolon"
  BY DEF Ready, Complete
<1>2. CASE z = <<>>
  <2>1. all = new
    BY <1>2 DEF Joined
  <2>2. ScanFrom(NoText, new).last # "semicolon"
    BY <1>1, NoSemicolon, ScanningTyped DEF NoText
  <2> QED BY <1>1, <2>1, <2>2, ScanIs
<1>3. CASE z # <<>>
  <2> DEFINE m == Len(z)
             y == z \o <<"nl">>
             mid == ScanStep(Scan(z), "nl")
  <2>1. /\ all \in Seq(Lex) /\ y \in Seq(Lex) /\ all = y \o new
        /\ Scan(all) = ScanFrom(mid, new) /\ Scan(y) = mid
    BY <1>3, JoinedTyped, JoinedRuns
  <2>2. Scan(z) \in Scanner /\ Split(z) \in Splitter /\ mid \in Scanner
    BY TextTyped, LexTyped, ScanStepTyped
  <2>3. /\ mid.last = Scan(z).last
        /\ mid.mode = IF Scan(z).mode = "line" THEN "sql" ELSE Scan(z).mode
    BY <2>2, NewLine
  <2>4. mid.last = "semicolon"
    BY <1>1, <2>1, <2>2, NoSemicolon
  <2> HIDE DEF mid, all
  <2>5. /\ m \in Nat /\ Len(y) = m + 1 /\ y[m + 1] = "nl" /\ \A i \in 1..m : y[i] = z[i]
    <3>1. OneMore(z, "nl", y)
      BY LexTyped, TextAndOne
    <3> QED BY <3>1 DEF OneMore
  <2> HIDE DEF y, m
  <2>6. /\ Len(all) = m + 1 + Len(new) /\ Len(new) \in Nat
        /\ \A i \in 1..(m + 1) : all[i] = y[i]
        /\ \A i \in 1..(m + 1 + Len(new)) :
             i > m + 1 => all[i] = new[i - (m + 1)] /\ i - (m + 1) \in 1..Len(new)
    <3>1. Both(y, new, all)
      BY <2>1, TextAndText
    <3> QED BY <3>1, <2>5 DEF Both
  <2>7. ASSUME NEW i \in (m + 1)..Len(all) PROVE all[i] # ";"
    <3>0. i \in 1..(m + 1 + Len(new)) /\ m + 1 \in 1..(m + 1) /\ (i = m + 1 \/ i > m + 1)
      BY <2>5, <2>6
    <3>1. CASE i = m + 1
      <4>1. all[i] = "nl"
        BY <3>0, <3>1, <2>5, <2>6
      <4> QED BY <4>1
    <3>2. CASE i > m + 1
      <4>1. all[i] = new[i - (m + 1)] /\ i - (m + 1) \in 1..Len(new)
        BY <3>0, <3>2, <2>6
      <4>2. DOMAIN new = 1..Len(new)
        OBVIOUS
      <4> QED BY <4>1, <4>2, <1>1 DEF ContainsSemicolon
    <3> QED BY <3>0, <3>1, <3>2
  <2>8. /\ DOMAIN all = 1..Len(all)
        /\ \A k \in 1..(m + 1) : k \in DOMAIN all /\ k \in 1..Len(all) /\ all[k] = y[k]
    BY <2>1, <2>5, <2>6
  <2>9. \A k \in 1..(m + 1) : SubSeq(all, 1, k) = SubSeq(y, 1, k)
    <3> SUFFICES ASSUME NEW k \in 1..(m + 1) PROVE SubSeq(all, 1, k) = SubSeq(y, 1, k)
      OBVIOUS
    <3>1. k \in 1..Len(y) /\ k \in 1..Len(all) /\ \A i \in 1..k : all[i] = y[i]
      BY <2>5, <2>6, <2>8
    <3> QED BY <3>1, <2>1, SamePrefix
  <2>10. ASSUME NEW k \in 1..(m + 1), Scan(SubSeq(y, 1, k)).mode = "comment", y[k] = "nl",
                \A i \in k..m : y[i] # ";"
         PROVE  \E j \in DOMAIN all :
                   /\ all[j] = "nl" /\ ~ContainsSemicolon(SubSeq(all, j, Len(all)))
                   /\ Scan(SubSeq(all, 1, j)).mode = "comment"
    <3>1. \A i \in k..Len(all) : all[i] # ";"
      <4> TAKE i \in k..Len(all)
      <4>0. (i \in (m + 1)..Len(all) \/ i \in k..m) /\ (i \in k..m => i \in 1..(m + 1))
        BY <2>5, <2>6
      <4>1. CASE i \in (m + 1)..Len(all)
        BY <4>1, <2>7
      <4>2. CASE i \in k..m
        <5>1. all[i] = y[i]
          BY <4>0, <4>2, <2>8
        <5> QED BY <5>1, <4>2, <2>10
      <4> QED BY <4>0, <4>1, <4>2
    <3>2. ~ContainsSemicolon(SubSeq(all, k, Len(all)))
      BY <2>1, <2>8, <3>1, SemicolonBehind
    <3>3. SubSeq(all, 1, k) = SubSeq(y, 1, k) /\ all[k] = "nl" /\ k \in DOMAIN all
      BY <2>8, <2>9, <2>10
    <3> QED BY <3>2, <3>3, <2>10
  <2>11. CASE Scan(z).mode = "comment"
    <3>1. SubSeq(y, 1, m + 1) = y
      <4>1. Len(y) = m + 1
        BY <2>5
      <4> QED BY <2>1, <4>1
    <3>2. Scan(SubSeq(y, 1, m + 1)).mode = "comment"
      <4>1. mid.mode = "comment"
        BY <2>3, <2>11
      <4> QED BY <3>1, <2>1, <4>1
    <3>3. m + 1 \in 1..(m + 1) /\ y[m + 1] = "nl"
      BY <2>5
    <3>4. \A i \in (m + 1)..m : y[i] # ";"
      <4>1. ASSUME NEW i \in (m + 1)..m PROVE FALSE
        <5>1. m \in Nat
          BY <2>5
        <5> QED BY <5>1
      <4> QED BY <4>1
    <3> QED BY <2>10, <3>2, <3>3, <3>4
  <2>12. CASE Scan(z).mode = "quote"
    <3>1. Scan(z).last = "token"
      BY <2>12, ScanSplitAlike DEF Alike
    <3> QED BY <3>1, <2>3, <2>4
  <2>13. CASE Scan(z).mode \in {"sql", "line"}
    <3>1. Complete(z)
      BY <2>3, <2>4, <2>13 DEF Complete
    <3>2. PICK k \in DOMAIN z :
            /\ z[k] = "nl" /\ ~ContainsSemicolon(SubSeq(z, k, Len(z)))
            /\ Scan(SubSeq(z, 1, k)).mode = "comment"
      BY <3>1 DEF Explained
    <3>3. k \in 1..m /\ k \in 1..Len(z) /\ Len(z) = m
      BY DEF m
    <3>4. \A i \in k..m : z[i] # ";"
      BY <3>2, <3>3, SemicolonBehind
    <3>5. \A i \in k..m : y[i] # ";"
      <4> TAKE i \in k..m
      <4>1. i \in 1..m
        <5>1. m \in Nat /\ k \in 1..m
          BY <2>5, <3>3
        <5> QED BY <5>1
      <4> QED BY <4>1, <2>5, <3>4
    <3>6. SubSeq(y, 1, k) = SubSeq(z, 1, k)
      <4>1. k \in 1..Len(y) /\ \A i \in 1..k : y[i] = z[i]
        BY <2>5, <3>3
      <4> QED BY <4>1, <3>3, <2>1, SamePrefix
    <3>7. k \in 1..(m + 1) /\ y[k] = "nl"
      BY <2>5, <3>2, <3>3
    <3> QED BY <2>10, <3>2, <3>5, <3>6, <3>7
  <2> QED BY <2>2, <2>11, <2>12, <2>13 DEF Scanner, Inside
<1> QED BY <1>2, <1>3

\* The buffer is kept.
LEMMA HeldWaits ==
    ASSUME NEW seen, NEW fed, NEW zSql, Waits(seen, fed, zSql), NEW new \in Seq(Lex),
           ~Ready(zSql, new), zSql = <<>> => new # <<>>
    PROVE  Waits(Joined(seen, new), fed, Joined(zSql, new)) /\ Joined(zSql, new) # <<>>
<1>1. Ahead(fed, Split(Joined(seen, new)), Split(Joined(zSql, new)))
  BY LineAhead
<1>2. /\ seen \in Seq(Lex) /\ fed \in Seq(Seq(Lex)) /\ zSql \in Seq(Lex) /\ Explained(zSql)
      /\ seen = <<>> => zSql = <<>>
  BY DEF Waits
<1>3. /\ Joined(seen, new) \in Seq(Lex) /\ Joined(zSql, new) \in Seq(Lex)
      /\ Joined(seen, new) # <<>> /\ Joined(zSql, new) # <<>>
  BY <1>2, JoinedTyped
<1>4. Explained(Joined(zSql, new))
  BY <1>2, LineExplained
<1> QED BY <1>1, <1>2, <1>3, <1>4 DEF Waits, Ahead

\* The buffer is run.
LEMMA FedWaits ==
    ASSUME NEW seen, NEW fed, NEW zSql, Waits(seen, fed, zSql), NEW new \in Seq(Lex),
           Ready(zSql, new)
    PROVE  /\ Waits(Joined(seen, new), fed \o Statements(Joined(zSql, new)), <<>>)
           /\ Statements(Joined(zSql, new)) \in Seq(Seq(Lex))
<1> DEFINE all == Joined(zSql, new)
<1>1. Ahead(fed, Split(Joined(seen, new)), Split(all))
  BY LineAhead
<1>2. /\ seen \in Seq(Lex) /\ fed \in Seq(Seq(Lex)) /\ zSql \in Seq(Lex)
      /\ seen = <<>> => zSql = <<>>
  BY DEF Waits
<1>3. /\ Joined(seen, new) \in Seq(Lex) /\ all \in Seq(Lex) /\ Complete(all)
      /\ Joined(seen, new) = <<>> => new = <<>>
  BY <1>2, JoinedTyped DEF Ready
<1>4. new # <<>>
  <2>1. ~ContainsSemicolon(<<>>)
    BY DEF ContainsSemicolon
  <2> QED BY <2>1 DEF Ready
<1> HIDE DEF all
<1>5. Alike(Scan(all), Split(all)) /\ Split(all) \in Splitter /\ Split(<<>>) = NoStatement
  BY <1>3, ScanSplitAlike, TextTyped
<1>6. /\ Split(all).now = <<>> /\ Split(all).mode \in {"sql", "line"}
      /\ Statements(all) = Split(all).done /\ Split(all).done \in Seq(Seq(Lex))
  BY <1>3, <1>5 DEF Complete, Alike, Statements, Splitter
<1> DEFINE fed2 == fed \o Statements(all)
<1>7. fed2 \in Seq(Seq(Lex)) /\ fed2 \o <<>> = fed2
  BY <1>2, <1>6
<1>8. /\ Split(Joined(seen, new)).mode \in {"sql", "line"}
      /\ Split(Joined(seen, new)).now = <<>> /\ Split(Joined(seen, new)).done = fed2
  BY <1>1, <1>6 DEF Ahead
<1> HIDE DEF fed2
<1>9. Explained(<<>>)
  <2>1. Scan(<<>>) = NoText
    BY <1>2, TextTyped
  <2> QED BY <2>1 DEF Explained, Complete, NoText
<1>10. Split(<<>>).now = <<>> /\ Split(<<>>).done = <<>> /\ <<>> \in Seq(Lex)
  BY <1>5 DEF NoStatement
<1>11. Joined(seen, new) # <<>>
  BY <1>3, <1>4
<1>12. Waits(Joined(seen, new), fed2, <<>>)
  BY <1>3, <1>7, <1>8, <1>9, <1>10, <1>11 DEF Waits
<1> QED BY <1>6, <1>12 DEF fed2, all

\* What the two properties say of one call.
LEMMA WaitsMatches ==
    ASSUME NEW seen, NEW fed, NEW zSql, Waits(seen, fed, zSql)
    PROVE  Statements(seen) = fed \o Statements(zSql)
<1>1. /\ fed \in Seq(Seq(Lex)) /\ zSql \in Seq(Lex)
      /\ Split(seen).now = Split(zSql).now /\ Split(seen).done = fed \o Split(zSql).done
  BY DEF Waits
<1>2. Split(zSql).done \in Seq(Seq(Lex)) /\ Split(zSql).now \in Seq(Lex)
  BY <1>1, TextTyped DEF Splitter
<1>3. AppendsBehind(fed, Split(zSql).done, Split(zSql).now)
  BY <1>1, <1>2, AppendBehind
<1> QED BY <1>1, <1>3 DEF Statements, AppendsBehind

LEMMA NothingWaits == Waits(<<>>, <<>>, <<>>)
<1>1. <<>> \in Seq(Lex) /\ <<>> \in Seq(Seq(Lex))
  OBVIOUS
<1>2. Scan(<<>>) = NoText /\ Split(<<>>) = NoStatement
  BY <1>1, TextTyped
<1>3. <<>> \o <<>> = <<>>
  OBVIOUS
<1> QED BY <1>1, <1>2, <1>3 DEF Waits, Explained, Complete, NoText, NoStatement

-----------------------------------------------------------------------------
(* The buffers of the calls of process_input.                                *)

\* Every call has fed SQLite what it read, but for its buffer, and only the
\* innermost one has a buffer.
Buffers(fs) ==
    /\ fs \in Seq(Frame) /\ Len(fs) <= MaxOpen
    /\ \A i \in 1..Len(fs) : Waits(fs[i].seen, fs[i].fed, fs[i].zSql)
    /\ \A i \in 1..(Len(fs) - 1) : fs[i].zSql = <<>>
AtStatement(fs) == fs = <<>> \/ fs[Len(fs)].zSql = <<>>

LEMMA FramesAre ==
    ASSUME NEW fs, Buffers(fs)
    PROVE  /\ Len(fs) \in Nat /\ DOMAIN fs = 1..Len(fs) /\ (fs # <<>> <=> Len(fs) > 0)
           /\ \A i \in 1..Len(fs) : fs[i] \in Frame
           /\ fs # <<>> => Len(fs) \in 1..Len(fs)
<1>1. fs \in Seq(Frame)
  BY DEF Buffers
<1>2. Len(fs) \in Nat /\ DOMAIN fs = 1..Len(fs) /\ (fs # <<>> <=> Len(fs) > 0)
  BY <1>1
<1>3. \A i \in 1..Len(fs) : fs[i] \in Frame
  BY <1>1, ElementOfSeq
<1> QED BY <1>2, <1>3

LEMMA NoBuffers == Buffers(<<>>) /\ Len(<<>>) = 0
<1>1. <<>> \in Seq(Frame) /\ Len(<<>>) = 0
  OBVIOUS
<1>2. 1..0 = {} /\ 1..(0 - 1) = {} /\ 0 <= MaxOpen
  BY ShellAssumption
<1> QED BY <1>1, <1>2 DEF Buffers

LEMMA FrameMade ==
    ASSUME NEW m \in Nat, m <= MaxOpen, NEW s, s = [i \in 1..m |-> s[i]],
           \A i \in 1..m : s[i] \in Frame /\ Waits(s[i].seen, s[i].fed, s[i].zSql),
           \A i \in 1..(m - 1) : s[i].zSql = <<>>
    PROVE  Buffers(s) /\ Len(s) = m
<1>1. s \in [1..m -> Frame]
  OBVIOUS
<1>2. s \in Seq(Frame) /\ Len(s) = m
  BY <1>1, SeqMadeOf
<1> QED BY <1>2 DEF Buffers

LEMMA TopBuffers ==
    ASSUME NEW fs, Buffers(fs), fs # <<>>, NEW g \in Frame, Waits(g.seen, g.fed, g.zSql)
    PROVE  /\ Buffers(SetTop(fs, g)) /\ Len(SetTop(fs, g)) = Len(fs)
           /\ SetTop(fs, g) # <<>> /\ SetTop(fs, g)[Len(fs)] = g
<1> DEFINE n == Len(fs)
           s == SetTop(fs, g)
<1>1. /\ n \in Nat /\ DOMAIN fs = 1..n /\ n > 0 /\ n \in 1..n
      /\ \A i \in 1..n : fs[i] \in Frame
  BY FramesAre
<1>2. /\ n <= MaxOpen
      /\ \A i \in 1..n : Waits(fs[i].seen, fs[i].fed, fs[i].zSql)
      /\ \A i \in 1..(n - 1) : fs[i].zSql = <<>>
  BY DEF Buffers
<1>3. s = [i \in 1..n |-> IF i = n THEN g ELSE fs[i]]
  BY <1>1 DEF SetTop
<1> HIDE DEF s, n
<1>4. /\ s = [i \in 1..n |-> s[i]] /\ \A i \in 1..n : s[i] = IF i = n THEN g ELSE fs[i]
  BY <1>3
<1>5. \A i \in 1..n : s[i] \in Frame /\ Waits(s[i].seen, s[i].fed, s[i].zSql)
  <2> TAKE i \in 1..n
  <2>1. CASE i = n
    BY <1>4, <2>1
  <2>2. CASE i # n
    <3>1. s[i] = fs[i]
      BY <1>4, <2>2
    <3> QED BY <1>1, <1>2, <3>1
  <2> QED BY <2>1, <2>2
<1>6. \A i \in 1..(n - 1) : s[i].zSql = <<>>
  <2> TAKE i \in 1..(n - 1)
  <2>1. i \in 1..n /\ i # n
    BY <1>1
  <2>2. s[i] = fs[i]
    BY <1>4, <2>1
  <2> QED BY <1>2, <2>2
<1>7. Buffers(s) /\ Len(s) = n
  BY <1>1, <1>2, <1>4, <1>5, <1>6, FrameMade
<1>8. s # <<>>
  BY <1>1, <1>7, FramesAre
<1>9. s[n] = g
  BY <1>1, <1>4
<1> QED BY <1>7, <1>8, <1>9 DEF s, n

LEMMA PopBuffers ==
    ASSUME NEW fs, Buffers(fs), fs # <<>>
    PROVE  Buffers(SubSeq(fs, 1, Len(fs) - 1))
<1> DEFINE n == Len(fs) - 1
           s == SubSeq(fs, 1, n)
<1>1. /\ Len(fs) \in Nat /\ n \in Nat /\ n < Len(fs)
      /\ \A i \in 1..Len(fs) : fs[i] \in Frame
  <2>1. Len(fs) \in Nat /\ Len(fs) > 0
    BY FramesAre
  <2> QED BY <2>1, FramesAre
<1>2. /\ fs \in Seq(Frame) /\ Len(fs) <= MaxOpen
      /\ \A i \in 1..Len(fs) : Waits(fs[i].seen, fs[i].fed, fs[i].zSql)
      /\ \A i \in 1..n : fs[i].zSql = <<>>
  BY DEF Buffers
<1>3. s = [i \in 1..n |-> fs[i]]
  <2>1. n - 1 + 1 = n
    BY <1>1
  <2> QED BY <1>1, <1>2
<1> HIDE DEF s, n
<1>4. s = [i \in 1..n |-> s[i]] /\ \A i \in 1..n : s[i] = fs[i]
  BY <1>3
<1>5. n <= MaxOpen
  BY <1>1, <1>2, ShellAssumption
<1>6. \A i \in 1..n : s[i] \in Frame /\ Waits(s[i].seen, s[i].fed, s[i].zSql)
  <2> TAKE i \in 1..n
  <2>1. i \in 1..Len(fs) /\ s[i] = fs[i]
    BY <1>1, <1>4
  <2> QED BY <1>1, <1>2, <2>1
<1>7. \A i \in 1..(n - 1) : s[i].zSql = <<>>
  <2> TAKE i \in 1..(n - 1)
  <2>1. i \in 1..n
    BY <1>1
  <2> QED BY <1>2, <1>4, <2>1
<1>8. Buffers(s)
  BY <1>1, <1>4, <1>5, <1>6, <1>7, FrameMade
<1> QED BY <1>8 DEF s, n

LEMMA PushBuffers ==
    ASSUME NEW fs, Buffers(fs), Len(fs) < MaxOpen, AtStatement(fs), NEW f \in File \cup {"tty"},
           Calls(fs, f)
    PROVE  Buffers(frames')
<1> DEFINE n == Len(fs)
           g == [NoFrame EXCEPT !.in = f]
           s == Append(fs, g)
<1>1. /\ n \in Nat /\ \A i \in 1..n : fs[i] \in Frame
      /\ fs \in Seq(Frame)
      /\ \A i \in 1..n : Waits(fs[i].seen, fs[i].fed, fs[i].zSql)
      /\ \A i \in 1..(n - 1) : fs[i].zSql = <<>>
      /\ n > 0 => fs # <<>>
  BY FramesAre DEF Buffers
<1>2. g.seen = <<>> /\ g.fed = <<>> /\ g.zSql = <<>>
  BY DEF NoFrame
<1>3. g \in Frame /\ Waits(g.seen, g.fed, g.zSql)
  <2> DEFINE Start == [in : File \cup {"tty", NoFile}, at : Nat, zSql : Seq(Lex),
                       errs : BOOLEAN, seen : Seq(Lex), fed : Seq(Seq(Lex))]
  <2>1. <<>> \in Seq(Lex) /\ <<>> \in Seq(Seq(Lex)) /\ 0 \in Nat
    OBVIOUS
  <2>2. NoFrame \in Start
    BY <2>1 DEF NoFrame
  <2>3. g \in Frame
    BY <2>2 DEF Frame
  <2> QED BY <1>2, <2>3, NothingWaits
<1> HIDE DEF g
<1>4. s = [i \in 1..(n + 1) |-> s[i]] /\ \A i \in 1..(n + 1) : s[i] = IF i = n + 1 THEN g ELSE fs[i]
  <2>1. s \in Seq(Frame) /\ Len(s) = n + 1
    BY <1>1, <1>3
  <2>2. \A i \in 1..(n + 1) : s[i] = IF i = n + 1 THEN g ELSE fs[i]
    BY <1>1, <1>3
  <2>3. s = [i \in 1..Len(s) |-> s[i]]
    <3> HIDE DEF s
    <3> QED BY <2>1
  <2> QED BY <2>1, <2>2, <2>3
<1> HIDE DEF s, n
<1>5. n + 1 \in Nat /\ n + 1 <= MaxOpen
  BY <1>1, ShellAssumption DEF n
<1>6. \A i \in 1..(n + 1) : s[i] \in Frame /\ Waits(s[i].seen, s[i].fed, s[i].zSql)
  <2> TAKE i \in 1..(n + 1)
  <2>1. CASE i = n + 1
    BY <1>3, <1>4, <2>1
  <2>2. CASE i # n + 1
    <3>1. i \in 1..n /\ s[i] = fs[i]
      BY <1>1, <1>4, <2>2
    <3> QED BY <1>1, <3>1
  <2> QED BY <2>1, <2>2
<1>7. \A i \in 1..((n + 1) - 1) : s[i].zSql = <<>>
  <2> TAKE i \in 1..((n + 1) - 1)
  <2>1. i \in 1..n /\ n > 0 /\ (i = n \/ i \in 1..(n - 1))
    BY <1>1
  <2>2. s[i] = fs[i]
    <3>1. i \in 1..(n + 1) /\ i # n + 1
      BY <1>1
    <3> QED BY <1>4, <3>1
  <2>3. fs[i].zSql = <<>>
    <3>1. CASE i = n
      BY <1>1, <2>1, <3>1 DEF AtStatement, n
    <3>2. CASE i \in 1..(n - 1)
      BY <1>1, <3>2
    <3> QED BY <2>1, <3>1, <3>2
  <2> QED BY <2>2, <2>3
<1>8. Buffers(s)
  <2> DEFINE k == n + 1
  <2>1. k \in Nat /\ k <= MaxOpen
    BY <1>5
  <2>2. s = [i \in 1..k |-> s[i]]
    BY <1>4
  <2>3. \A i \in 1..k : s[i] \in Frame /\ Waits(s[i].seen, s[i].fed, s[i].zSql)
    BY <1>6
  <2>4. \A i \in 1..(k - 1) : s[i].zSql = <<>>
    BY <1>7
  <2> HIDE DEF k
  <2> QED BY <2>1, <2>2, <2>3, <2>4, FrameMade
<1> QED BY <1>8 DEF Calls, s, g

-----------------------------------------------------------------------------
(* What the handlers leave behind.                                           *)

Settled == Buffers(frames) /\ status \in 0..2 /\ todo \in Seq(Seq(Lex))
           /\ bail \in BOOLEAN /\ dbOpen \in BOOLEAN /\ executing \in BOOLEAN

LEMMA ExitsSettled ==
    ASSUME NEW r \in 0..2, Exits(r)
    PROVE  Buffers(frames') /\ status' \in 0..2
BY NoBuffers DEF Exits

LEMMA GetsSettled ==
    ASSUME status \in 0..2, NEW fs, Buffers(fs), NEW r \in 0..2, CallerGets(fs, r)
    PROVE  Buffers(frames') /\ status' \in 0..2
<1>1. CASE fs = <<>>
  <2>1. MainGets(r)
    BY <1>1 DEF CallerGets
  <2>2. Exits(r) \/ (frames' = <<>> /\ status' = status)
    BY <2>1 DEF MainGets
  <2> QED BY <2>2, ExitsSettled, NoBuffers
<1>2. CASE fs # <<>>
  <2> DEFINE g == [fs[Len(fs)] EXCEPT !.errs = @ \/ r # 0]
  <2>1. fs[Len(fs)] \in Frame /\ Len(fs) \in 1..Len(fs)
    BY <1>2, FramesAre
  <2>2. Waits(fs[Len(fs)].seen, fs[Len(fs)].fed, fs[Len(fs)].zSql)
    BY <2>1 DEF Buffers
  <2>3. /\ g \in Frame /\ g.seen = fs[Len(fs)].seen /\ g.fed = fs[Len(fs)].fed
        /\ g.zSql = fs[Len(fs)].zSql
    <3>1. (fs[Len(fs)].errs \/ r # 0) \in BOOLEAN
      OBVIOUS
    <3> QED BY <2>1, <3>1 DEF Frame
  <2>4. frames' = SetTop(fs, g) /\ status' = status
    BY <1>2 DEF CallerGets, SetTop
  <2> HIDE DEF g
  <2>5. Buffers(SetTop(fs, g))
    BY <1>2, <2>2, <2>3, TopBuffers
  <2> QED BY <2>4, <2>5
<1> QED BY <1>1, <1>2

LEMMA ReturnsSettled ==
    ASSUME status \in 0..2, NEW fs, Buffers(fs), fs # <<>>, Returns(fs)
    PROVE  Buffers(frames') /\ status' \in 0..2
<1> DEFINE gs == SubSeq(fs, 1, Len(fs) - 1)
           r == IF fs[Len(fs)].errs THEN 1 ELSE 0
<1>1. Buffers(gs) /\ r \in 0..2 /\ CallerGets(gs, r)
  BY PopBuffers DEF Returns
<1> HIDE DEF gs, r
<1> QED BY <1>1, GetsSettled

LEMMA MetaSettled ==
    ASSUME Settled, NEW fs, Buffers(fs), AtStatement(fs), NEW line \in Line,
           MetaCommand(fs, line)
    PROVE  Settled'
<1>1. UNCHANGED <<todo, dbOpen, executing>> /\ status \in 0..2 /\ 0 \in 0..2 /\ 1 \in 0..2 /\ 2 \in 0..2
  <2>1. UNCHANGED <<todo, dbOpen, executing>>
    BY DEF MetaCommand, exec
  <2> QED BY <2>1 DEF Settled
<1>2. bail' \in BOOLEAN
  BY DEF MetaCommand, Settled
<1>3. Buffers(frames') /\ status' \in 0..2
  <2>1. CASE line.dot = "exit"
    <3>1. IF fs = <<>> THEN MainGets(2) ELSE Returns(fs)
      BY <2>1 DEF MetaCommand
    <3>2. CASE fs = <<>>
      <4>1. CallerGets(fs, 2)
        BY <3>1, <3>2 DEF CallerGets
      <4> QED BY <1>1, <4>1, GetsSettled
    <3>3. CASE fs # <<>>
      BY <1>1, <3>1, <3>3, ReturnsSettled
    <3> QED BY <3>2, <3>3
  <2>2. CASE line.dot = "read"
    <3>1. CASE Len(fs) < MaxOpen
      <4>1. Calls(fs, line.file) /\ UNCHANGED status
        BY <2>2, <3>1 DEF MetaCommand
      <4>2. line.file \in File \cup {"tty"}
        BY <2>2 DEF Line
      <4> QED BY <1>1, <3>1, <4>1, <4>2, PushBuffers
    <3>2. CASE ~(Len(fs) < MaxOpen)
      <4>1. CallerGets(fs, 1)
        BY <2>2, <3>2 DEF MetaCommand
      <4> QED BY <1>1, <4>1, GetsSettled
    <3> QED BY <3>1, <3>2
  <2>3. CASE line.dot \notin {"exit", "read"}
    <3>1. CallerGets(fs, 1) \/ CallerGets(fs, 0)
      BY <2>3 DEF MetaCommand
    <3> QED BY <1>1, <3>1, GetsSettled
  <2> QED BY <2>1, <2>2, <2>3
<1> QED BY <1>1, <1>2, <1>3 DEF Settled

LEMMA ExecutesSettled ==
    ASSUME Settled, NEW fs, Buffers(fs), NEW z, Statements(z) \in Seq(Seq(Lex)), Executes(fs, z)
    PROVE  Settled'
<1>1. CASE dbOpen' = TRUE /\ executing' = TRUE /\ todo' = Statements(z) /\ frames' = fs
           /\ UNCHANGED <<phase, status, ghosts>>
  BY <1>1 DEF Settled, Executes
<1>2. CASE Exits(1) /\ UNCHANGED <<dbOpen, executing, todo, incomplete, bailed>>
  <2>1. Buffers(frames') /\ status' \in 0..2
    BY <1>2, ExitsSettled
  <2> QED BY <1>2, <2>1 DEF Settled, Executes
<1> QED BY <1>1, <1>2 DEF Executes

LEMMA StatementsTyped ==
    ASSUME NEW z \in Seq(Lex)
    PROVE  Statements(z) \in Seq(Seq(Lex))
<1>1. Split(z).done \in Seq(Seq(Lex)) /\ Split(z).now \in Seq(Lex)
  BY TextTyped DEF Splitter
<1> QED BY <1>1 DEF Statements

\* A line: blank, a meta command, the end of a statement, or neither.
LEMMA TakesSettled ==
    ASSUME Settled, frames # <<>>, NEW line \in Line, Takes(line)
    PROVE  Settled'
<1> DEFINE top == [Top EXCEPT !.at = IF InFile THEN @ + 1 ELSE 0]
           fs == SetTop(frames, top)
           new == IF IsCommandTerminator(line.text) /\ IsComplete(top.zSql)
                  THEN <<";">> ELSE line.text
           all == Joined(top.zSql, new)
           seen == Joined(top.seen, new)
           fed == top.fed \o Statements(all)
           after == [top EXCEPT !.zSql = <<>>, !.seen = seen, !.fed = fed]
           held == [top EXCEPT !.zSql = all, !.seen = seen]
           blank == top.zSql = <<>> /\ AllWhitespace(line.text)
           meta == ~blank /\ IsMeta(top.zSql, line)
           ready == ~blank /\ ~meta /\ Ready(top.zSql, new)
           kept == UNCHANGED <<exec, bail, phase, status, ghosts>>
<1>1. /\ top \in Frame /\ Top \in Frame /\ Waits(top.seen, top.fed, top.zSql)
      /\ top.seen = Top.seen /\ top.fed = Top.fed /\ top.zSql = Top.zSql
  <2>1. /\ Len(frames) \in 1..Len(frames) /\ Top \in Frame
        /\ Waits(Top.seen, Top.fed, Top.zSql)
    <3>1. Buffers(frames)
      BY DEF Settled
    <3>2. Len(frames) \in 1..Len(frames) /\ frames[Len(frames)] \in Frame
      BY <3>1, FramesAre
    <3> QED BY <3>1, <3>2 DEF Buffers, Top
  <2>2. top \in Frame /\ top.seen = Top.seen /\ top.fed = Top.fed /\ top.zSql = Top.zSql
    <3> DEFINE k == IF InFile THEN Top.at + 1 ELSE 0
    <3>1. k \in Nat
      BY <2>1 DEF Frame
    <3>2. top = [Top EXCEPT !.at = k]
      OBVIOUS
    <3> HIDE DEF k, top
    <3> QED BY <2>1, <3>1, <3>2 DEF Frame
  <2> QED BY <2>1, <2>2
<1>2. line.text \in Seq(Lex) /\ new \in Seq(Lex) /\ (new = line.text \/ new = <<";">>)
  BY LexTyped DEF Line
<1>3. \/ frames' = fs /\ kept
      \/ meta /\ MetaCommand(fs, line)
      \/ ready /\ Executes(SetTop(fs, after), all)
      \/ ~blank /\ ~Ready(top.zSql, new) /\ frames' = SetTop(fs, held) /\ kept
  <2> DEFINE body == CASE blank -> frames' = fs /\ kept
                       [] meta -> MetaCommand(fs, line)
                       [] ready -> Executes(SetTop(fs, after), all)
                       [] OTHER -> frames' = SetTop(fs, held) /\ kept
  <2>1. body
    BY DEF Takes
  <2> HIDE DEF top, fs, new, all, seen, fed, kept
  <2> QED BY <2>1
<1> HIDE DEF top, fs, new, all, seen, fed
<1>4. /\ Buffers(fs) /\ Len(fs) = Len(frames) /\ fs # <<>> /\ fs[Len(fs)] = top
  BY <1>1, TopBuffers DEF fs, Settled
<1>5. CASE frames' = fs /\ kept
  BY <1>4, <1>5 DEF Settled, exec
<1>6. CASE meta /\ MetaCommand(fs, line)
  <2>1. AtStatement(fs)
    BY <1>4, <1>6 DEF AtStatement, IsMeta
  <2> QED BY <1>4, <1>6, <2>1, MetaSettled
<1>7. CASE ready /\ Executes(SetTop(fs, after), all)
  <2>1. Waits(seen, fed, <<>>) /\ Statements(all) \in Seq(Seq(Lex))
    BY <1>1, <1>2, <1>7, FedWaits DEF all, seen, fed
  <2>2. seen \in Seq(Lex) /\ fed \in Seq(Seq(Lex)) /\ <<>> \in Seq(Lex)
    BY <2>1 DEF Waits
  <2>3. after \in Frame /\ after.seen = seen /\ after.fed = fed /\ after.zSql = <<>>
    BY <1>1, <2>2 DEF Frame
  <2> HIDE DEF after
  <2>4. Buffers(SetTop(fs, after))
    BY <1>4, <2>1, <2>3, TopBuffers
  <2> QED BY <1>7, <2>1, <2>4, ExecutesSettled
<1>8. CASE ~blank /\ ~Ready(top.zSql, new) /\ frames' = SetTop(fs, held) /\ kept
  <2>1. top.zSql = <<>> => new # <<>>
    <3>1. AllWhitespace(<<>>)
      <4>1. <<>> \in Seq(Lex)
        OBVIOUS
      <4>2. Scan(<<>>) = NoText
        BY <4>1, TextTyped
      <4> QED BY <4>2 DEF AllWhitespace, NoText
    <3>2. <<";">> # <<>>
      OBVIOUS
    <3>3. ~(top.zSql = <<>> /\ AllWhitespace(line.text))
      BY <1>8
    <3> HIDE DEF AllWhitespace
    <3>4. line.text = <<>> => AllWhitespace(line.text)
      BY <3>1, Zenon
    <3> QED BY <1>2, <3>2, <3>3, <3>4
  <2>2. Waits(seen, top.fed, all)
    BY <1>1, <1>2, <1>8, <2>1, HeldWaits DEF all, seen
  <2>3. seen \in Seq(Lex) /\ all \in Seq(Lex)
    BY <2>2 DEF Waits
  <2>4. held \in Frame /\ held.seen = seen /\ held.fed = top.fed /\ held.zSql = all
    BY <1>1, <2>3 DEF Frame
  <2> HIDE DEF held
  <2>5. Buffers(SetTop(fs, held))
    BY <1>4, <2>2, <2>4, TopBuffers
  <2> QED BY <1>8, <2>5 DEF Settled, exec
<1> QED BY <1>3, <1>5, <1>6, <1>7, <1>8

-----------------------------------------------------------------------------
(* The invariant of the buffers, and what it says.                           *)

Counters ==
    /\ tty \in BOOLEAN /\ seenInterrupt \in BOOLEAN
    /\ running \in {"no", "yes", "broken"} /\ (running # "no" => todo # <<>>)
    /\ typed \in 0..MaxTyped /\ interrupts \in 0..MaxInterrupts
Kinds == Settled /\ Counters

LEMMA MainSettles ==
    ASSUME Inv, Settled, ReadInit \/ Option \/ RunFirst \/ First \/ RunInput
    PROVE  Settled'
<1>1. frames = <<>> /\ Buffers(<<>>) /\ AtStatement(<<>>) /\ Len(<<>>) = 0 /\ 0 < MaxOpen
  BY NoBuffers, ShellAssumption
     DEF ReadInit, Option, RunFirst, First, RunInput, OptionsDone, AtStatement
<1>2. status \in 0..2 /\ 0 \in 0..2 /\ 1 \in 0..2
  BY DEF Settled
<1>3. CASE ReadInit
  <2>1. Buffers(frames') /\ status' \in 0..2
    <3>1. CASE InitFile # NoFile /\ Calls(frames, InitFile) /\ UNCHANGED <<phase, status, failed>>
      <4>1. InitFile \in File \cup {"tty"}
        BY <3>1, ShellAssumption
      <4> QED BY <1>1, <1>2, <3>1, <4>1, PushBuffers
    <3>2. CASE MainGets(0)
      <4>1. CallerGets(frames, 0)
        BY <1>1, <3>2 DEF CallerGets
      <4> QED BY <1>1, <1>2, <4>1, GetsSettled
    <3>3. CASE Exits(1)
      BY <1>2, <3>3, ExitsSettled
    <3> QED BY <1>3, <3>1, <3>2, <3>3 DEF ReadInit
  <2> QED BY <1>3, <2>1 DEF ReadInit, Settled, exec
<1>4. CASE Option
  <2>1. args # <<>> /\ args \in Seq(Line) /\ Head(args) \in Line /\ Head(args).text \in Seq(Lex)
    <3>1. args # <<>> /\ args \in Seq(Line)
      BY <1>4 DEF Option, Inv, Control
    <3>2. Head(args) \in Line
      BY <3>1
    <3> QED BY <3>1, <3>2 DEF Line
  <2>2. CASE UNCHANGED <<exec, frames, phase, status, ghosts>> /\ (bail' = bail \/ bail' = TRUE)
    BY <2>2 DEF Settled, exec
  <2>3. CASE (Exits(0) \/ Exits(1)) /\ UNCHANGED <<exec, bail>>
    <3>1. Buffers(frames') /\ status' \in 0..2
      BY <1>2, <2>3, ExitsSettled
    <3> QED BY <2>3, <3>1 DEF Settled, exec
  <2>4. CASE Executes(frames, Head(args).text)
    BY <1>1, <2>1, <2>4, ExecutesSettled, StatementsTyped
  <2>5. CASE MetaCommand(frames, Head(args))
    BY <1>1, <2>1, <2>5, MetaSettled
  <2>6. \/ UNCHANGED <<exec, frames, phase, status, ghosts>> /\ (bail' = bail \/ bail' = TRUE)
        \/ (Exits(0) \/ Exits(1)) /\ UNCHANGED <<exec, bail>>
        \/ Executes(frames, Head(args).text)
        \/ MetaCommand(frames, Head(args))
    BY <1>4 DEF Option
  <2> QED BY <2>2, <2>3, <2>4, <2>5, <2>6
<1>5. CASE RunFirst
  BY <1>5 DEF RunFirst, Settled, exec
<1>6. CASE First
  <2>1. first \in Line /\ first.text \in Seq(Lex)
    <3>1. first \in Line
      BY <1>6 DEF First, Inv, Control
    <3> QED BY <3>1 DEF Line
  <2>2. Executes(frames, first.text) \/ MetaCommand(frames, first)
    BY <1>6 DEF First
  <2> QED BY <1>1, <2>1, <2>2, ExecutesSettled, StatementsTyped, MetaSettled
<1>7. CASE RunInput
  <2> DEFINE f == IF tty THEN "tty" ELSE "stdin"
  <2>1. f \in File \cup {"tty"} /\ Calls(frames, f)
    BY <1>7, ShellAssumption DEF RunInput
  <2> HIDE DEF f
  <2>2. Buffers(frames')
    BY <1>1, <2>1, PushBuffers
  <2> QED BY <1>7, <2>2 DEF RunInput, Settled, exec
<1> QED BY <1>3, <1>4, <1>5, <1>6, <1>7

LEMMA InputSettles ==
    ASSUME Inv, Settled, Leave \/ FileLine \/ TypedLine
    PROVE  Settled'
<1>1. frames # <<>> /\ Buffers(frames) /\ status \in 0..2
  BY DEF Leave, FileLine, TypedLine, Settled
<1>2. CASE Leave
  <2>1. Returns(frames) /\ UNCHANGED <<exec, bail>>
    BY <1>2 DEF Leave
  <2>2. Buffers(frames') /\ status' \in 0..2
    BY <1>1, <2>1, ReturnsSettled
  <2> QED BY <2>1, <2>2 DEF Settled, exec
<1>3. CASE FileLine
  <2>1. Top \in Frame
    BY <1>1, FramesAre DEF Top
  <2>2. text[Top.in][Top.at + 1] \in Line
    <3>1. Top.in \in File /\ Top.at \in Nat /\ Top.at < Len(text[Top.in])
      BY <1>3, <2>1 DEF Frame, FileLine, InFile
    <3>2. text[Top.in] \in Seq(Line)
      BY <3>1 DEF Inv, Control
    <3>3. Top.at + 1 \in 1..Len(text[Top.in])
      BY <3>1, <3>2
    <3> QED BY <3>2, <3>3, ElementOfSeq
  <2> QED BY <1>1, <1>3, <2>2, TakesSettled DEF FileLine
<1>4. CASE TypedLine
  <2>1. PICK line \in Line : Takes(line)
    BY <1>4, ShellAssumption DEF TypedLine
  <2> QED BY <1>1, <2>1, TakesSettled
<1> QED BY <1>2, <1>3, <1>4

LEMMA ExecSettles ==
    ASSUME Inv, Kinds, Starts \/ Succeeds \/ Fails \/ ExecDone \/ Interrupt
    PROVE  Settled'
<1>1. /\ Buffers(frames) /\ status \in 0..2 /\ todo \in Seq(Seq(Lex)) /\ 0 \in 0..2 /\ 1 \in 0..2
      /\ running # "no" => todo # <<>>
  BY DEF Kinds, Counters, Settled
<1>2. todo' \in Seq(Seq(Lex))
  <2>1. todo' = todo \/ (todo # <<>> /\ todo' = Tail(todo)) \/ todo' = <<>>
    BY <1>1 DEF Starts, Succeeds, Fails, ExecDone, Interrupt
  <2>2. todo # <<>> => Tail(todo) \in Seq(Seq(Lex))
    <3> DEFINE S == Seq(Lex)
    <3>1. todo \in Seq(S)
      BY <1>1
    <3> HIDE DEF S
    <3>2. todo # <<>> => Tail(todo) \in Seq(S)
      BY <3>1
    <3> QED BY <3>2 DEF S
  <2>3. <<>> \in Seq(Seq(Lex))
    OBVIOUS
  <2> QED BY <1>1, <2>1, <2>2, <2>3
<1>3. executing' \in BOOLEAN /\ bail' \in BOOLEAN /\ dbOpen' \in BOOLEAN
  BY DEF Starts, Succeeds, Fails, ExecDone, Interrupt, Kinds, Settled
<1>4. Buffers(frames') /\ status' \in 0..2
  <2>1. UNCHANGED <<frames, status>> \/ CallerGets(frames, 1) \/ CallerGets(frames, 0)
    BY DEF Starts, Succeeds, Fails, ExecDone, Interrupt
  <2> QED BY <1>1, <2>1, GetsSettled
<1> QED BY <1>2, <1>3, <1>4 DEF Settled

LEMMA CountersKeep == Inv /\ Inv' /\ Kinds /\ Next => Counters'
<1> SUFFICES ASSUME Inv, Inv', Kinds, Next PROVE Counters'
  OBVIOUS
<1>1. Counters
  BY DEF Kinds
<1>2. tty' \in BOOLEAN
  BY <1>1 DEF Counters, Next, Steps, ReadInit, Option, RunFirst, First, RunInput, Leave, FileLine,
              Starts, Succeeds, Fails, ExecDone, TypedLine, Interrupt, Stopped, vars, given
<1>3. seenInterrupt' \in BOOLEAN
  BY <1>1 DEF Counters, Next, Steps, ReadInit, Option, RunFirst, First, RunInput, Leave, FileLine,
              Starts, Succeeds, Fails, ExecDone, TypedLine, Interrupt, Stopped, vars, ctrlC
<1>4. typed' \in 0..MaxTyped
  BY <1>1, ShellAssumption
     DEF Counters, Next, Steps, ReadInit, Option, RunFirst, First, RunInput, Leave, FileLine,
         Starts, Succeeds, Fails, ExecDone, TypedLine, Interrupt, Stopped, vars
<1>5. interrupts' \in 0..MaxInterrupts
  BY <1>1, ShellAssumption
     DEF Counters, Next, Steps, ReadInit, Option, RunFirst, First, RunInput, Leave, FileLine,
         Starts, Succeeds, Fails, ExecDone, TypedLine, Interrupt, Stopped, vars, ctrlC
<1>6. running' \in {"no", "yes", "broken"} /\ (running' # "no" => todo' # <<>>)
  <2>1. running # "no" => executing
    BY DEF Inv, Control
  <2>2. CASE ReadInit \/ Option \/ RunFirst \/ First \/ RunInput \/ Leave \/ FileLine \/ TypedLine
    <3>1. ~executing /\ running' = running
      BY <2>2 DEF ReadInit, Option, RunFirst, First, RunInput, OptionsDone, Leave, FileLine,
                  TypedLine, Idle, exec, Takes, MetaCommand, Executes
    <3> QED BY <1>1, <2>1, <3>1 DEF Counters
  <2>3. CASE Starts \/ Succeeds \/ Fails \/ ExecDone \/ Interrupt \/ Stopped
    BY <1>1, <2>3 DEF Counters, Starts, Succeeds, Fails, ExecDone, Interrupt, Stopped, vars
  <2> QED BY <2>2, <2>3 DEF Next, Steps
<1> QED BY <1>2, <1>3, <1>4, <1>5, <1>6 DEF Counters

\* Every state of the shell has only buffers that SQLite still has to see.
LEMMA KindsHold == Spec => [](Inv /\ Kinds)
<1>1. Init => Kinds
  <2> SUFFICES ASSUME Init PROVE Kinds
    OBVIOUS
  <2>1. tty \in BOOLEAN /\ dbOpen \in BOOLEAN
    BY ShellAssumption DEF Init
  <2>2. <<>> \in Seq(Seq(Lex)) /\ 0 \in 0..2
    OBVIOUS
  <2>3. 0 \in 0..MaxTyped /\ 0 \in 0..MaxInterrupts
    BY ShellAssumption
  <2>4. Buffers(frames)
    BY NoBuffers DEF Init
  <2> QED BY <2>1, <2>2, <2>3, <2>4 DEF Init, Kinds, Settled, Counters
<1>2. Inv /\ Inv' /\ Kinds /\ [Next]_vars => Kinds'
  <2> SUFFICES ASSUME Inv, Inv', Kinds, [Next]_vars PROVE Kinds'
    OBVIOUS
  <2>1. CASE UNCHANGED vars
    BY <2>1 DEF vars, Kinds, Settled, Counters, Buffers
  <2>2. CASE Next
    <3>1. CASE Stopped
      BY <3>1 DEF Stopped, vars, Kinds, Settled, Counters, Buffers
    <3>2. CASE Steps \/ TypedLine \/ Interrupt
      <4>1. Settled'
        BY <3>2, MainSettles, InputSettles, ExecSettles DEF Steps, Kinds
      <4> QED BY <2>2, <4>1, CountersKeep DEF Kinds
    <3> QED BY <2>2, <3>1, <3>2 DEF Next
  <2> QED BY <2>1, <2>2
<1> QED BY <1>1, <1>2, Invariance, PTL DEF Spec

\* Every variable has its type, at most MaxOpen inputs are open, and only the
\* innermost process_input holds half a statement.
THEOREM WellTyped == Spec => []TypeOK
<1>1. Inv /\ Kinds => TypeOK
  <2> SUFFICES ASSUME Inv, Kinds PROVE TypeOK
    OBVIOUS
  <2>1. phase \in {"rc", "args", "first", "input", "exit"} /\ (running # "no" => executing)
    BY DEF Inv, Honest, Fine, Phases, Control
  <2> QED BY <2>1 DEF Kinds, Settled, Counters, Buffers, TypeOK
<1> QED BY <1>1, KindsHold, PTL

\* process_input feeds SQLite the statements of what it read, each once and in
\* order, however its lines cut the text.
THEOREM ChunksMatch == Spec => []ChunksMatchWhole
<1>1. Kinds => ChunksMatchWhole
  <2> SUFFICES ASSUME Kinds, NEW i \in DOMAIN frames
               PROVE  Statements(frames[i].seen) = frames[i].fed \o Statements(frames[i].zSql)
    BY DEF ChunksMatchWhole
  <2>1. Waits(frames[i].seen, frames[i].fed, frames[i].zSql)
    BY FramesAre DEF Kinds, Settled, Buffers
  <2> QED BY <2>1, WaitsMatches
<1> QED BY <1>1, KindsHold, PTL

\* process_input leaves a complete statement in its buffer only when the lines since
\* its semicolon just closed a comment.
THEOREM Pending == Spec => []PendingExplained
<1>1. Kinds => PendingExplained
  <2> SUFFICES ASSUME Kinds, NEW i \in DOMAIN frames PROVE Explained(frames[i].zSql)
    BY DEF PendingExplained, Explained
  <2>1. Waits(frames[i].seen, frames[i].fed, frames[i].zSql)
    BY FramesAre DEF Kinds, Settled, Buffers
  <2> QED BY <2>1 DEF Waits
<1> QED BY <1>1, KindsHold, PTL
==============================================================================
