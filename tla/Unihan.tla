------------------------------- MODULE Unihan -------------------------------
(***************************************************************************)
(* The variant dictionary (unihan.cpp) and the tool uhcv, which converts     *)
(* its standard input through a fixed buffer (unihan_tool.cpp).              *)
(***************************************************************************)
EXTENDS Utf8, FiniteSets

CONSTANTS
    Dictionaries,   \* the files that may be given: sequences of lines
    Inputs,         \* what may be piped in: sequences of bytes
    BufSize         \* the 2048 of unihan_tool.cpp

\* A character of four bytes fits.
ASSUME BufSizeAssumption == BufSize \in Nat /\ BufSize >= 4

\* A line: a comment, blank, or a mapping with one or several targets.  `last'
\* is the last code point that the line mentions.
Line == [kind : {"comment", "blank", "one", "many"}, key : Nat, value : Nat, last : Nat]

ASSUME DictionariesAssumption == Dictionaries \subseteq Seq(Line)
ASSUME InputsAssumption == Inputs \subseteq Seq(0..255)

VARIABLES
    file,       \* the lines getline has not returned yet
    buf,        \* the constructor's local string, as the code point it names
    map,        \* the multimap: pairs <<key, value>>
    pick,       \* the element that begins each non-empty equal_range
    stdin,      \* bytes not read yet
    buffer,     \* what the last pass carried over, `remain' bytes
    eof,
    out,        \* bytes written
    pc,
    dictionary, input   \* what was given at the start; nothing reads them

vars == <<file, buf, map, pick, stdin, buffer, eof, out, pc, dictionary, input>>

Init ==
    /\ dictionary \in Dictionaries /\ file = dictionary
    /\ input \in Inputs /\ stdin = input
    /\ buf = 0
    /\ map = {} /\ pick = <<>>
    /\ buffer = <<>> /\ eof = FALSE /\ out = <<>>
    /\ pc = "load"

KeysOf(pairs) == {p[1] : p \in pairs}

-----------------------------------------------------------------------------
(* variant::variant *)

\* Mutant: a mapping to several targets is loaded.
KeepsAll(line) == line.kind # "comment"

\* one-to-many mapping is ignored
Keeps(line) == line.kind \in {"one", "blank"}

\* A blank line makes every extraction fail, so that key and value are both
\* read from the string of the line before.
PairOf(line) == IF line.kind = "blank" THEN <<buf, buf>> ELSE <<line.key, line.value>>

LoadLine ==
    /\ pc = "load" /\ file # <<>>
    /\ LET line == Head(file) IN
        /\ file' = Tail(file)
        /\ buf' = IF line.kind \in {"one", "many"} THEN line.last ELSE buf
        /\ map' = IF Keeps(line) THEN map \cup {PairOf(line)} ELSE map
    /\ UNCHANGED <<pick, stdin, buffer, eof, out, pc, dictionary, input>>

\* Which of several pairs equal_range lists first is up to the container.
Loaded ==
    /\ pc = "load" /\ file = <<>>
    /\ pick' \in {f \in [KeysOf(map) -> {p[2] : p \in map}] :
                     \A k \in KeysOf(map) : <<k, f[k]>> \in map}
    /\ pc' = "loop"
    /\ UNCHANGED <<file, buf, map, stdin, buffer, eof, out, dictionary, input>>

-----------------------------------------------------------------------------
(* variant::operator() *)

Lookup(cp) == IF cp \in DOMAIN pick THEN pick[cp] ELSE 0
Converted(cp) == IF Lookup(cp) = 0 THEN cp ELSE Lookup(cp)

\* The valid prefix of s, converted character by character.
Convert(s) ==
    LET from[i \in 0..Len(s)] ==
            IF i < Len(s) /\ ValidAt(s, i)
            THEN Encode(Converted(CodeAt(s, i))) \o from[i + SequenceLength(At(s, i))]
            ELSE <<>>
    IN  from[0]

\* Mutant: what is left over is dropped.
DropsRest(s) == <<>>

\* ... and what is left over.
Rest(s) == Slice(s, FindInvalid(s), Len(s))

-----------------------------------------------------------------------------
(* uhcv *)

\* Mutant: less is asked for than the buffer holds.
AsksForLess(s) == BufSize - 2 - Len(s)

Room(s) == BufSize - Len(s)

\* cin.read meets the end of the input only if it asks for more than there is.
MeetsEnd(got, asked) == got < asked

\* One turn of the loop.
Pass ==
    /\ pc = "loop" /\ ~eof
    /\ LET got == IF Room(buffer) < Len(stdin) THEN Room(buffer) ELSE Len(stdin)
           data == buffer \o Slice(stdin, 0, got)
       IN  /\ stdin' = Slice(stdin, got, Len(stdin))
           /\ eof' = MeetsEnd(got, Room(buffer))
           /\ out' = out \o Convert(data)
           /\ buffer' = Rest(data)
    /\ UNCHANGED <<file, buf, map, pick, pc, dictionary, input>>

Exit ==
    /\ pc = "loop" /\ eof
    /\ pc' = "done"
    /\ UNCHANGED <<file, buf, map, pick, stdin, buffer, eof, out, dictionary, input>>

Next == LoadLine \/ Loaded \/ Pass \/ Exit

\* A single-threaded program whose input is at hand.
Spec == Init /\ [][Next]_vars /\ WF_vars(Next)
-----------------------------------------------------------------------------
(* Properties. *)

TypeOK ==
    /\ file \in Seq(Line) /\ dictionary \in Seq(Line)
    /\ buf \in Nat
    /\ map \subseteq Nat \X Nat
    /\ pick = <<>> \/ DOMAIN pick = KeysOf(map)
    /\ stdin \in Seq(0..255) /\ input \in Seq(0..255) /\ out \in Seq(0..255)
    /\ buffer \in Seq(0..255) /\ Len(buffer) <= BufSize
    /\ eof \in BOOLEAN
    /\ pc \in {"load", "loop", "done"}

\* unihan.cpp:23, "one-to-many mapping is ignored": the dictionary maps a code
\* point to another only if a line with that one target says so, stale reads of
\* blank lines included.
OnlyOneToOne ==
    \A p \in map : p[1] # p[2] =>
        \E i \in 1..Len(dictionary) :
            dictionary[i].kind = "one" /\ p = <<dictionary[i].key, dictionary[i].value>>

\* Cutting the input into buffers changes nothing (unihan_tool.cpp:18-25): what
\* was written and what is still to be converted make up the conversion of the
\* whole input, wherever the cuts fall inside characters.  The bytes kept back at
\* the end are those from the first invalid character on: a valid input is
\* converted to its last byte.
CutsInvisible ==
    /\ pc # "load" => out \o Convert(buffer \o stdin) = Convert(input)
    /\ pc = "done" => stdin = <<>> /\ buffer = Slice(input, FindInvalid(input), Len(input))

\* uhcv ends (unihan_tool.cpp:20), unless invalid bytes have filled its buffer:
\* then it asks for 0 bytes for ever and never meets the end.
EndsUnlessStuck == <>(pc = "done" \/ [](Len(buffer) = BufSize))

\* It does end on every valid input.
ValidEnds == FindInvalid(input) = Len(input) ~> pc = "done"
=============================================================================
