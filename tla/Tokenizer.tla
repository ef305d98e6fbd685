----------------------------- MODULE Tokenizer -----------------------------
(***************************************************************************)
(* A cursor of the FTS tokenizer utf8_tokenizer.cpp, from utf8Open to        *)
(* utf8Close.  FTS calls utf8Next until it returns something other than      *)
(* SQLITE_OK, or closes the cursor earlier.  A turn of one of the loops of   *)
(* utf8Next is a step, so that a loop that never ends is visible.            *)
(***************************************************************************)
EXTENDS Utf8, FiniteSets

CONSTANT Texts      \* the texts that may be tokenized

ASSUME TextsAssumption == Texts \subseteq Seq(0..255)

VARIABLES
    text,       \* pInput[0..nBytes-1]
    iOffset, iToken,
    pc,
    it,         \* utf8_beg_it: where the call has come to
    token,      \* token_beg_it: where the skipping of garbage stopped
    out,        \* tokens returned by this cursor so far
    strays      \* positions at which ascii_garbage was read out of bounds as 1

cursor == <<text, iOffset, iToken>>
vars == <<cursor, pc, it, token, out, strays>>

InCall == {"skip", "ascii", "emit"}

TypeOK ==
    /\ text \in Seq(0..255)
    /\ iOffset \in Nat /\ it \in Nat /\ token \in Nat
    /\ iToken = Len(out)
    /\ pc \in {"closed", "ready", "end", "nomem"} \cup InCall
    /\ out \in Seq([start : Nat, end : Nat, position : Nat, bytes : Seq(0..255)])
    /\ strays \in SUBSET Nat

Init ==
    /\ text = <<>> /\ iOffset = 0 /\ iToken = 0
    /\ pc = "closed"
    /\ it = 0 /\ token = 0
    /\ out = <<>> /\ strays = {}

-----------------------------------------------------------------------------
(* Characters. *)

Alnum(b) == b \in 48..57 \cup 65..90 \cup 97..122

\* ascii_garbage[b] of utf8Create: everything but letters and digits.
AsciiGarbage(b) == ~Alnum(b)

\* Mutant: only what is above ASCII and below the bound.
UnicodeGarbageLow(cp) == cp > 127 /\ cp < 16383

\* is_garbage(uint32_t)
UnicodeGarbage(cp) == cp > 65280 \/ (cp > 127 /\ cp < 16383)

\* The first is_garbage takes an int: a byte above 127 is a negative char, and
\* the array is read before its beginning.  Whatever is there decides.
Garbage(i, stray) ==
    \/ At(text, i) < 128 /\ AsciiGarbage(At(text, i))
    \/ At(text, i) >= 128 /\ (stray \/ UnicodeGarbage(CodeAt(text, i)))

Lower(b) == IF b \in 65..90 THEN b + 32 ELSE b
Lowercase(s) == [i \in DOMAIN s |-> Lower(s[i])]

Inside(i) == i < Len(text)
Step(i) == i + SequenceLength(At(text, i))

-----------------------------------------------------------------------------
(* The methods of the module. *)

utf8Open(t) ==
    /\ pc = "closed"
    /\ text' = t
    /\ pc' = "ready"
    /\ UNCHANGED <<iOffset, iToken, it, token, out, strays>>

\* The cursor is freed; the next one starts at 0.
utf8Close ==
    /\ pc \in {"ready", "end", "nomem"}
    /\ pc' = "closed"
    /\ text' = <<>> /\ iOffset' = 0 /\ iToken' = 0
    /\ it' = 0 /\ token' = 0
    /\ out' = <<>> /\ strays' = {}

\* Mutant: the cursor does not move over the garbage before a token.
SkipsInPlace == iOffset' = iOffset

\* iOffset += utf8_beg_it.base() - beg_it
MovesOverGarbage == iOffset' = it

utf8Next ==
    /\ pc = "ready"
    /\ it' = iOffset
    /\ pc' = IF Inside(iOffset) THEN "skip" ELSE "end"
    /\ UNCHANGED <<cursor, token, out, strays>>

\* while( ... is garbage ) ++utf8_beg_it
Skip ==
    /\ pc = "skip" /\ Inside(it)
    /\ \E stray \in BOOLEAN :
        /\ Garbage(it, stray)
        /\ strays' = IF stray /\ At(text, it) >= 128 THEN strays \cup {it} ELSE strays
    /\ it' = Step(it)
    /\ UNCHANGED <<cursor, pc, token, out>>
EndSkip ==
    /\ pc = "skip" /\ (Inside(it) => ~Garbage(it, FALSE))
    /\ pc' = "ascii"
    /\ token' = it
    /\ MovesOverGarbage
    /\ UNCHANGED <<text, iToken, it, out, strays>>

\* non garbage ascii code
IsAsciiWord(i) == Inside(i) /\ At(text, i) < 128 /\ ~AsciiGarbage(At(text, i))
Ascii ==
    /\ pc = "ascii" /\ IsAsciiWord(it)
    /\ it' = Step(it)
    /\ UNCHANGED <<cursor, pc, token, out, strays>>
EndAscii ==
    /\ pc = "ascii" /\ ~IsAsciiWord(it)
    /\ pc' = "emit"
    /\ UNCHANGED <<cursor, it, token, out, strays>>

\* Mutant: the length of the token is not added to the cursor.
ReturnsInPlace(bytes) ==
    /\ out' = Append(out, [start |-> iOffset, end |-> iOffset + Len(bytes),
                           position |-> iToken, bytes |-> bytes])
    /\ iToken' = iToken + 1
    /\ UNCHANGED iOffset

Returns(bytes) ==
    /\ out' = Append(out, [start |-> iOffset, end |-> iOffset + Len(bytes),
                           position |-> iToken, bytes |-> bytes])
    /\ iToken' = iToken + 1
    /\ iOffset' = iOffset + Len(bytes)

\* A run of ASCII is one token, in lower case; a unicode character is one too.
Emit ==
    /\ pc = "emit"
    /\ \/ /\ it > token
          /\ Returns(Lowercase(Slice(text, token, it)))
       \/ /\ it = token /\ Inside(it) /\ At(text, it) >= 128
          /\ ~UnicodeGarbage(CodeAt(text, it))
          /\ Returns([k \in 1..CodeSize(CodeAt(text, it)) |-> At(text, it + k - 1)])
    /\ pc' = "ready"
    /\ UNCHANGED <<text, it, token, strays>>

\* sqlite3_realloc fails.
OutOfMemory ==
    /\ pc = "emit" /\ (it > token \/ Inside(it))
    /\ pc' = "nomem"
    /\ UNCHANGED <<cursor, it, token, out, strays>>

\* SQLITE_DONE
Done ==
    /\ pc = "emit" /\ it = token
    /\ Inside(it) => At(text, it) < 128 \/ UnicodeGarbage(CodeAt(text, it))
    /\ pc' = "end"
    /\ UNCHANGED <<cursor, it, token, out, strays>>

Running == Skip \/ EndSkip \/ Ascii \/ EndAscii \/ Emit \/ OutOfMemory \/ Done
Next == (\E t \in Texts : utf8Open(t)) \/ utf8Close \/ utf8Next \/ Running

Spec == Init /\ [][Next]_vars
\* A call that has begun keeps running.
FairSpec == Spec /\ WF_vars(Running)
-----------------------------------------------------------------------------
(* Properties. *)

\* Where characters begin in a valid text.
Starts(s) == {i \in 0..(Len(s) - 1) : ~IsTrail(At(s, i))}

\* What a tokenizer with these rules should find, as pairs of offsets: maximal
\* runs of ASCII letters and digits, and every other character on its own unless
\* it is garbage or a stray read made it so.
WordRuns(s) ==
    {r \in (0..Len(s)) \X (0..Len(s)) :
        /\ r[1] < r[2]
        /\ \A i \in r[1]..(r[2] - 1) : Alnum(At(s, i))
        /\ r[1] > 0 => ~Alnum(At(s, r[1] - 1))
        /\ ~Alnum(At(s, r[2]))}
Characters(s) ==
    {<<i, i + SequenceLength(At(s, i))>> :
        i \in {j \in Starts(s) : /\ At(s, j) >= 128
                                 /\ CodeAt(s, j) >= 16383 /\ CodeAt(s, j) <= 65280
                                 /\ j \notin strays}}

\* A cursor read to its end has returned exactly those tokens (utf8Next,
\* utf8_tokenizer.cpp:168-253), whatever lies before ascii_garbage in memory.
FindsAllTokens ==
    pc = "end" => {<<out[i].start, out[i].end>> : i \in DOMAIN out}
                    = WordRuns(text) \cup Characters(text)

\* fts3_tokenizer.h:109-123: the offsets identify the text of the token, and
\* tokens come in the order of the text, do not overlap and are numbered from 0.
OffsetsIdentify ==
    \A i \in DOMAIN out :
        /\ out[i].start < out[i].end /\ out[i].end <= Len(text)
        /\ out[i].bytes = Lowercase(Slice(text, out[i].start, out[i].end))
        /\ out[i].position = i - 1
        /\ i > 1 => out[i - 1].end <= out[i].start

\* The cursor never moves back, and moves on with every token it returns: the
\* calls that FTS makes come to an end.
CursorAdvances ==
    [][pc' # "closed" => /\ iOffset' >= iOffset
                         /\ out' # out => iOffset' > iOffset]_vars

\* fts3_tokenizer.h:105-107, "This method should either return SQLITE_OK [...] or
\* SQLITE_DONE [...] or an SQLite error code": utf8Next returns.
NextReturns == pc \in InCall ~> pc \notin InCall
=============================================================================
