-------------------------------- MODULE Utf8 --------------------------------
(***************************************************************************)
(* The parts of the utf8 library that the tokenizer and the variant         *)
(* dictionary call.  A buffer is a sequence of bytes; positions count from   *)
(* 0, as the C++ iterators do.                                               *)
(***************************************************************************)
EXTENDS Integers, Sequences

\* The byte at position i.  Past the end there is a NUL: both callers work on
\* NUL-terminated strings.
At(s, i) == IF i < Len(s) THEN s[i + 1] ELSE 0
Slice(s, from, to) == SubSeq(s, from + 1, to)

\* Mutant: sequences of four bytes are not known.
SequenceLengthBMP(b) ==
    CASE b < 128 -> 1
      [] b \div 32 = 6 -> 2
      [] b \div 16 = 14 -> 3
      [] OTHER -> 0

\* How many bytes the lead byte b announces; 0 when b cannot lead.
SequenceLength(b) ==
    CASE b < 128 -> 1
      [] b \div 32 = 6 -> 2
      [] b \div 16 = 14 -> 3
      [] b \div 8 = 30 -> 4
      [] OTHER -> 0

IsTrail(b) == b \div 64 = 2

\* unchecked::next, which never looks at the kind of the bytes that follow.
CodeAt(s, i) ==
    LET lead == At(s, i)
        bits(k) == At(s, i + k) % 64
    IN  CASE SequenceLength(lead) = 2 -> ((lead * 64) % 2048) + bits(1)
          [] SequenceLength(lead) = 3 -> ((lead * 4096) % 65536) + bits(1) * 64 + bits(2)
          [] SequenceLength(lead) = 4 ->
                ((lead * 262144) % 2097152) + bits(1) * 4096 + bits(2) * 64 + bits(3)
          [] OTHER -> lead

\* unchecked::append.
Encode(cp) ==
    LET trail(shift) == 128 + ((cp \div shift) % 64)
    IN  CASE cp < 128 -> <<cp>>
          [] cp >= 128 /\ cp < 2048 -> <<192 + cp \div 64, trail(1)>>
          [] cp >= 2048 /\ cp < 65536 -> <<224 + cp \div 4096, trail(64), trail(1)>>
          [] OTHER -> <<240 + cp \div 262144, trail(4096), trail(64), trail(1)>>

\* The length an encoder would have chosen.
CodeSize(cp) ==
    CASE cp > 65535 -> 4
      [] cp > 2047 /\ cp <= 65535 -> 3
      [] cp > 127 /\ cp <= 2047 -> 2
      [] OTHER -> 1

CodePointValid(cp) == cp <= 1114111 /\ cp \notin 55296..57343

\* validate_next succeeds at position i: all the bytes are there, each of its
\* kind, and the code point is a valid one in its shortest form.
ValidAt(s, i) ==
    LET n == SequenceLength(At(s, i))
    IN  /\ n > 0 /\ i + n <= Len(s)
        /\ \A k \in 1..(n - 1) : IsTrail(At(s, i + k))
        /\ CodePointValid(CodeAt(s, i))
        /\ CodeSize(CodeAt(s, i)) = n

\* find_invalid: where the longest valid prefix of s ends.
FindInvalid(s) ==
    LET ends[i \in 0..Len(s)] ==
            IF i < Len(s) /\ ValidAt(s, i) THEN ends[i + SequenceLength(At(s, i))] ELSE i
    IN  ends[0]
=============================================================================
