--------------------------- MODULE TokenizerProofs ---------------------------
(***************************************************************************)
(* Proofs about Tokenizer, for texts of any length and whatever lies in       *)
(* memory before ascii_garbage.                                              *)
(***************************************************************************)
EXTENDS Tokenizer, DataProofs

\* FTS is given valid texts only.
AllValid == \A t \in Texts : FindInvalid(t) = Len(t)

\* Where the valid characters of s begin, and its end.
Boundaries(s) == {i \in 0..Len(s) : EndsOf(s)[i] = Len(s)}

\* Position i is not inside a word.
Apart(s, i) == i > 0 => ~(Alnum(At(s, i - 1)) /\ Alnum(At(s, i)))

-----------------------------------------------------------------------------
(* Boundaries.                                                               *)

LEMMA Boundary ==
    ASSUME NEW s \in Seq(0..255), FindInvalid(s) = Len(s)
    PROVE  /\ Boundaries(s) \subseteq 0..Len(s) /\ 0 \in Boundaries(s)
           /\ \A i \in Boundaries(s) : i < Len(s) =>
                 ValidAt(s, i) /\ i + SequenceLength(At(s, i)) \in Boundaries(s)
<1>1. Len(s) \in Nat
  BY LenProperties
<1>2. 0 \in Boundaries(s)
  BY <1>1, FindInvalidIs DEF Boundaries
<1>3. ASSUME NEW i \in Boundaries(s), i < Len(s)
      PROVE  ValidAt(s, i) /\ i + SequenceLength(At(s, i)) \in Boundaries(s)
  <2>1. i \in 0..Len(s) /\ EndsOf(s)[i] = Len(s)
    BY DEF Boundaries
  <2>2. EndsOf(s)[i] = IF i < Len(s) /\ ValidAt(s, i)
                       THEN EndsOf(s)[i + SequenceLength(At(s, i))] ELSE i
    BY <2>1, EndsOfIs
  <2>3. ValidAt(s, i)
    BY <2>1, <2>2, <1>1, <1>3
  <2>4. SequenceLength(At(s, i)) \in 1..4 /\ i + SequenceLength(At(s, i)) <= Len(s)
    BY <2>1, <2>3, ValidCharacter
  <2> QED BY <2>1, <2>2, <2>3, <2>4, <1>1, <1>3 DEF Boundaries
<1> QED BY <1>2, <1>3 DEF Boundaries

LEMMA HighByte == \A b \in 0..255 : b >= 128 => b \in 128..255 /\ ~Alnum(b) /\ ~(b < 128)
BY DEF Alnum

LEMMA HighBytes == \A b \in 128..255 : ~Alnum(b)
BY DEF Alnum

\* What the tokenizer relies on at a boundary.
LEMMA AtBoundary ==
    ASSUME NEW s \in Seq(0..255), FindInvalid(s) = Len(s),
           NEW i \in Boundaries(s), i < Len(s)
    PROVE  /\ Behind(s, i) \in Boundaries(s) /\ Behind(s, i) <= Len(s)
           /\ i \in Nat /\ Behind(s, i) \in (i + 1)..(i + 4)
           /\ i \in Starts(s)
           /\ \A j \in (i + 1)..(Behind(s, i) - 1) : j \notin Starts(s) /\ At(s, j) \in 128..255
           /\ At(s, i) < 128 => Behind(s, i) = i + 1
           /\ At(s, i) >= 128 => CodeAt(s, i) > 127
           /\ i + CodeSize(CodeAt(s, i)) = Behind(s, i)
           /\ CodeAt(s, i) \in Nat /\ At(s, i) \in 0..255
<1> DEFINE n == SequenceLength(At(s, i))
<1>1. i \in Nat /\ ValidAt(s, i) /\ i + n \in Boundaries(s) /\ i \in 0..(Len(s) - 1)
  BY Boundary, LenProperties
<1>2. /\ n \in 1..4 /\ i + n <= Len(s) /\ ~IsTrail(At(s, i))
      /\ \A k \in 1..(n - 1) : IsTrail(At(s, i + k))
      /\ CodeSize(CodeAt(s, i)) = n
      /\ IF At(s, i) < 128 THEN n = 1 /\ CodeAt(s, i) = At(s, i) ELSE CodeAt(s, i) > 127
  BY <1>1, ValidCharacter
<1>3. CodeAt(s, i) \in Nat /\ At(s, i) \in 0..255
  BY <1>1, ByteAt, CodeAtNat
<1>4. ASSUME NEW j \in (i + 1)..(i + n - 1)
      PROVE  j \notin Starts(s) /\ At(s, j) \in 128..255
  <2>1. j - i \in 1..(n - 1) /\ i + (j - i) = j /\ j \in Nat
    BY <1>1, <1>2
  <2>2. IsTrail(At(s, j))
    BY <1>2, <2>1
  <2>3. At(s, j) \in 0..255
    BY <2>1, ByteAt
  <2>4. At(s, j) >= 128
    BY <2>2, <2>3, LeadByte
  <2>5. At(s, j) \in 128..255
    BY <2>3, <2>4, HighByte
  <2> QED BY <2>2, <2>5 DEF Starts
<1>5. i \in Starts(s)
  BY <1>1, <1>2 DEF Starts
<1>6. At(s, i) >= 128 => ~(At(s, i) < 128)
  BY <1>3, HighByte
<1>7. Behind(s, i) = i + n
  BY DEF Behind
<1> HIDE DEF n
<1>8. /\ i + n \in (i + 1)..(i + 4)
      /\ At(s, i) < 128 => n = 1
      /\ At(s, i) >= 128 => CodeAt(s, i) > 127
      /\ CodeSize(CodeAt(s, i)) = n
  BY <1>1, <1>2, <1>6
<1> QED BY <1>1, <1>2, <1>3, <1>4, <1>5, <1>7, <1>8

-----------------------------------------------------------------------------
(* The tokens of a text that begin before position p, when Y are the stray    *)
(* reads; what each kind of step adds to them.                                *)

CharactersBut(s, Y) ==
    {<<i, Behind(s, i)>> :
        i \in {j \in Starts(s) : /\ At(s, j) >= 128
                                 /\ CodeAt(s, j) >= 16383 /\ CodeAt(s, j) <= 65280
                                 /\ j \notin Y}}
Tok(s, Y, p) == {r \in WordRuns(s) \cup CharactersBut(s, Y) : r[1] < p}

LEMMA WordRun ==
    ASSUME NEW s, NEW r \in WordRuns(s)
    PROVE  /\ r \in (0..Len(s)) \X (0..Len(s)) /\ r[1] < r[2]
           /\ \A i \in r[1]..(r[2] - 1) : Alnum(At(s, i))
           /\ r[1] > 0 => ~Alnum(At(s, r[1] - 1))
           /\ ~Alnum(At(s, r[2]))
BY DEF WordRuns

LEMMA ACharacter ==
    ASSUME NEW s, NEW Y, NEW r \in CharactersBut(s, Y)
    PROVE  \E i \in Starts(s) :
              /\ r = <<i, Behind(s, i)>> /\ r[1] = i
              /\ At(s, i) >= 128 /\ CodeAt(s, i) >= 16383 /\ CodeAt(s, i) <= 65280
              /\ i \notin Y
BY DEF CharactersBut

\* The character at p is garbage, when Y are the stray reads.
Passed(s, p, Y) ==
    \/ At(s, p) < 128 /\ ~Alnum(At(s, p))
    \/ At(s, p) >= 128 /\ (p \in Y \/ UnicodeGarbage(CodeAt(s, p)))

LEMMA SkipStep ==
    ASSUME NEW s \in Seq(0..255), FindInvalid(s) = Len(s), NEW p \in Boundaries(s), p < Len(s),
           NEW Y, NEW Z, Z \in {Y, Y \cup {p}}, Passed(s, p, Z)
    PROVE  /\ Behind(s, p) \in Boundaries(s) /\ p < Behind(s, p) /\ Apart(s, Behind(s, p))
           /\ Tok(s, Z, Behind(s, p)) = Tok(s, Y, p)
<1> USE DEF Passed
<1> DEFINE q == Behind(s, p)
<1>1. /\ p \in Nat /\ q \in (p + 1)..(p + 4) /\ q \in Boundaries(s) /\ q <= Len(s)
      /\ \A j \in (p + 1)..(q - 1) : j \notin Starts(s) /\ At(s, j) \in 128..255
      /\ At(s, p) >= 128 => CodeAt(s, p) > 127
      /\ CodeAt(s, p) \in Nat /\ At(s, p) \in 0..255
  BY AtBoundary
<1>2. p \in Nat /\ q \in Nat /\ Len(s) \in Nat
  BY <1>1, LenProperties
<1> HIDE DEF q
<1>3. ASSUME NEW j \in p..(q - 1) PROVE ~Alnum(At(s, j))
  <2>1. CASE j = p
    BY <1>1, <2>1, HighByte
  <2>2. CASE j # p
    <3>1. j \in (p + 1)..(q - 1)
      BY <2>2, <1>2
    <3>2. At(s, j) \in 128..255
      BY <3>1, <1>1
    <3> QED BY <3>2, HighBytes
  <2> QED BY <2>1, <2>2
<1>4. p < q /\ q - 1 \in p..(q - 1)
  BY <1>1, <1>2
<1>5. Apart(s, q)
  BY <1>3, <1>4 DEF Apart
<1>6. ASSUME NEW r \in WordRuns(s), r[1] < q PROVE r[1] < p
  <2>1. r[1] \in Nat /\ r[2] \in Nat /\ r[1] < r[2] /\ r[1] \in r[1]..(r[2] - 1)
    BY WordRun
  <2>2. Alnum(At(s, r[1]))
    BY <2>1, WordRun
  <2>3. ~(r[1] \in p..(q - 1))
    BY <2>2, <1>3
  <2> QED BY <2>1, <2>3, <1>2, <1>6
<1>7. ASSUME NEW r \in CharactersBut(s, Z), r[1] < q
      PROVE  r[1] < p /\ r \in CharactersBut(s, Y)
  <2>1. PICK i \in Starts(s) :
             /\ r = <<i, Behind(s, i)>> /\ r[1] = i
             /\ At(s, i) >= 128 /\ CodeAt(s, i) >= 16383 /\ CodeAt(s, i) <= 65280
             /\ i \notin Z
    BY ACharacter
  <2>2. i \in Nat
    BY <1>2 DEF Starts
  <2>3. i # p
    <3> SUFFICES ASSUME i = p PROVE FALSE
      OBVIOUS
    <3>1. ~UnicodeGarbage(CodeAt(s, p))
      BY <1>1, <2>1 DEF UnicodeGarbage
    <3>2. At(s, p) >= 128 /\ p \notin Z
      BY <2>1
    <3>3. ~(At(s, p) < 128)
      BY <3>2, <1>1, HighByte
    <3> QED BY <3>1, <3>2, <3>3
  <2>4. i \notin (p + 1)..(q - 1)
    BY <1>1, <2>1
  <2>5. i < p
    BY <2>1, <2>2, <2>3, <2>4, <1>2, <1>7
  <2>6. i \notin Y
    BY <2>1
  <2> QED BY <2>1, <2>5, <2>6 DEF CharactersBut
<1>8. ASSUME NEW r \in CharactersBut(s, Y), r[1] < p PROVE r \in CharactersBut(s, Z)
  <2>1. PICK i \in Starts(s) :
             /\ r = <<i, Behind(s, i)>> /\ r[1] = i
             /\ At(s, i) >= 128 /\ CodeAt(s, i) >= 16383 /\ CodeAt(s, i) <= 65280
             /\ i \notin Y
    BY ACharacter
  <2>2. i \notin Z
    BY <2>1, <1>8, <1>2
  <2> QED BY <2>1, <2>2 DEF CharactersBut
<1>9. \A r \in CharactersBut(s, Y) : r[1] \in Nat
  BY ACharacter, <1>2 DEF Starts
<1>10. \A r \in WordRuns(s) : r[1] \in Nat
  BY WordRun
<1>11. Tok(s, Z, q) = Tok(s, Y, p)
  <2>1. \A r \in Tok(s, Z, q) : r \in Tok(s, Y, p)
    BY <1>6, <1>7 DEF Tok
  <2>2. \A r \in Tok(s, Y, p) : r \in Tok(s, Z, q)
    BY <1>8, <1>9, <1>10, <1>2, <1>4 DEF Tok
  <2> QED BY <2>1, <2>2
<1> QED BY <1>1, <1>4, <1>5, <1>11 DEF q

\* A word ends.
LEMMA WordStep ==
    ASSUME NEW s \in Seq(0..255), NEW Y, NEW p \in Nat, NEW q \in Nat, p < q, q <= Len(s),
           \A j \in p..(q - 1) : Alnum(At(s, j)), Apart(s, p), ~Alnum(At(s, q))
    PROVE  /\ Tok(s, Y, q) = Tok(s, Y, p) \cup {<<p, q>>}
           /\ Apart(s, q)
<1>1. Len(s) \in Nat
  BY LenProperties
<1>2. <<p, q>> \in WordRuns(s)
  <2>1. p > 0 => ~Alnum(At(s, p - 1))
    BY DEF Apart
  <2> QED BY <2>1, <1>1 DEF WordRuns
<1>3. ASSUME NEW r \in WordRuns(s), r[1] < q PROVE r[1] < p \/ r = <<p, q>>
  <2> SUFFICES ASSUME ~(r[1] < p) PROVE r = <<p, q>>
    OBVIOUS
  <2>1. /\ r \in (0..Len(s)) \X (0..Len(s)) /\ r[1] < r[2]
        /\ r[1] > 0 => ~Alnum(At(s, r[1] - 1)) /\ ~Alnum(At(s, r[2]))
        /\ ~Alnum(At(s, r[2]))
        /\ \A i \in r[1]..(r[2] - 1) : Alnum(At(s, i))
    BY WordRun
  <2>2. r[1] \in p..(q - 1) /\ r[2] \in Nat /\ r = <<r[1], r[2]>>
    BY <2>1, <1>3
  <2>3. r[1] = p
    <3> SUFFICES ASSUME r[1] # p PROVE FALSE
      OBVIOUS
    <3>1. r[1] > 0 /\ r[1] - 1 \in p..(q - 1)
      BY <2>2
    <3> QED BY <3>1, <2>1
  <2>4. ~(r[2] < q)
    <3> SUFFICES ASSUME r[2] < q PROVE FALSE
      OBVIOUS
    <3>1. r[2] \in p..(q - 1)
      BY <2>1, <2>2
    <3> QED BY <3>1, <2>1
  <2>5. ~(q < r[2])
    <3> SUFFICES ASSUME q < r[2] PROVE FALSE
      OBVIOUS
    <3>1. q \in r[1]..(r[2] - 1)
      BY <2>2, <2>3
    <3> QED BY <3>1, <2>1
  <2>6. r[2] = q
    BY <2>2, <2>4, <2>5
  <2> QED BY <2>2, <2>3, <2>6
<1>4. ASSUME NEW r \in CharactersBut(s, Y), r[1] < q PROVE r[1] < p
  <2>1. PICK i \in Starts(s) : r[1] = i /\ At(s, i) >= 128
    BY ACharacter
  <2>2. i \in Nat
    BY <1>1 DEF Starts
  <2>3. ~Alnum(At(s, i))
    <3>1. At(s, i) \in 0..255
      BY <2>2, ByteAt
    <3> QED BY <2>1, <3>1, HighByte
  <2>4. i \notin p..(q - 1)
    BY <2>3
  <2> QED BY <2>1, <2>2, <2>4, <1>4
<1>5. \A r \in CharactersBut(s, Y) : r[1] \in Nat
  BY ACharacter, <1>1 DEF Starts
<1>6. \A r \in WordRuns(s) : r[1] \in Nat
  BY WordRun
<1>7. Tok(s, Y, q) = Tok(s, Y, p) \cup {<<p, q>>}
  <2>1. \A r \in Tok(s, Y, q) : r \in Tok(s, Y, p) \cup {<<p, q>>}
    BY <1>3, <1>4 DEF Tok
  <2>2. \A r \in Tok(s, Y, p) : r \in Tok(s, Y, q)
    BY <1>5, <1>6 DEF Tok
  <2>3. <<p, q>> \in Tok(s, Y, q)
    BY <1>2 DEF Tok
  <2> QED BY <2>1, <2>2, <2>3
<1> QED BY <1>7 DEF Apart

\* A character is a token.
LEMMA SymbolStep ==
    ASSUME NEW s \in Seq(0..255), FindInvalid(s) = Len(s), NEW p \in Boundaries(s), p < Len(s),
           NEW Y, p \notin Y, At(s, p) >= 128, ~UnicodeGarbage(CodeAt(s, p))
    PROVE  /\ Behind(s, p) \in Boundaries(s) /\ p < Behind(s, p) /\ Behind(s, p) <= Len(s)
           /\ Apart(s, Behind(s, p))
           /\ Tok(s, Y, Behind(s, p)) = Tok(s, Y, p) \cup {<<p, Behind(s, p)>>}
<1> DEFINE q == Behind(s, p)
<1>1. /\ p \in Nat /\ q \in (p + 1)..(p + 4) /\ q \in Boundaries(s) /\ q <= Len(s)
      /\ p \in Starts(s)
      /\ \A j \in (p + 1)..(q - 1) : j \notin Starts(s) /\ At(s, j) \in 128..255
      /\ At(s, p) >= 128 => CodeAt(s, p) > 127
      /\ CodeAt(s, p) \in Nat /\ At(s, p) \in 0..255
  BY AtBoundary
<1>2. p \in Nat /\ q \in Nat /\ Len(s) \in Nat
  BY <1>1, LenProperties
<1>3. <<p, q>> \in CharactersBut(s, Y)
  <2>1. CodeAt(s, p) >= 16383 /\ CodeAt(s, p) <= 65280
    BY <1>1 DEF UnicodeGarbage
  <2> QED BY <2>1, <1>1 DEF CharactersBut
<1> HIDE DEF q
<1>4. ASSUME NEW j \in p..(q - 1) PROVE ~Alnum(At(s, j))
  <2>1. CASE j = p
    BY <1>1, <2>1, HighByte
  <2>2. CASE j # p
    <3>1. j \in (p + 1)..(q - 1)
      BY <2>2, <1>2
    <3>2. At(s, j) \in 128..255
      BY <3>1, <1>1
    <3> QED BY <3>2, HighBytes
  <2> QED BY <2>1, <2>2
<1>5. p < q /\ q - 1 \in p..(q - 1)
  BY <1>1, <1>2
<1>6. Apart(s, q)
  BY <1>4, <1>5 DEF Apart
<1>7. ASSUME NEW r \in WordRuns(s), r[1] < q PROVE r[1] < p
  <2>1. r[1] \in Nat /\ r[2] \in Nat /\ r[1] < r[2] /\ r[1] \in r[1]..(r[2] - 1)
    BY WordRun
  <2>2. Alnum(At(s, r[1]))
    BY <2>1, WordRun
  <2>3. ~(r[1] \in p..(q - 1))
    BY <2>2, <1>4
  <2> QED BY <2>1, <2>3, <1>2, <1>7
<1>8. ASSUME NEW r \in CharactersBut(s, Y), r[1] < q PROVE r[1] < p \/ r = <<p, q>>
  <2>1. PICK i \in Starts(s) : r = <<i, Behind(s, i)>> /\ r[1] = i
    BY ACharacter
  <2>2. i \in Nat /\ i \notin (p + 1)..(q - 1)
    BY <1>1, <1>2, <2>1 DEF Starts
  <2>3. i < p \/ i = p
    BY <2>1, <2>2, <1>2, <1>8
  <2> QED BY <2>1, <2>3 DEF q
<1>9. \A r \in CharactersBut(s, Y) : r[1] \in Nat
  BY ACharacter, <1>2 DEF Starts
<1>10. \A r \in WordRuns(s) : r[1] \in Nat
  BY WordRun
<1>11. Tok(s, Y, q) = Tok(s, Y, p) \cup {<<p, q>>}
  <2>1. \A r \in Tok(s, Y, q) : r \in Tok(s, Y, p) \cup {<<p, q>>}
    BY <1>7, <1>8 DEF Tok
  <2>2. \A r \in Tok(s, Y, p) : r \in Tok(s, Y, q)
    BY <1>9, <1>10, <1>2, <1>5 DEF Tok
  <2>3. <<p, q>> \in Tok(s, Y, q)
    BY <1>3, <1>5 DEF Tok
  <2> QED BY <2>1, <2>2, <2>3
<1> QED BY <1>1, <1>5, <1>6, <1>11 DEF q

-----------------------------------------------------------------------------
(* The cursor, whatever the bytes of the text.                               *)

Typing ==
    /\ pc \in {"closed", "ready", "end", "nomem", "skip", "ascii", "emit"}
    /\ text \in Seq(0..255)
    /\ iOffset \in Nat /\ it \in Nat /\ token \in Nat

\* How far the local iterators may be from the cursor.
Moves ==
    /\ pc = "skip" => iOffset <= it
    /\ pc \in {"ascii", "emit"} =>
          iOffset = token /\ token <= it /\ (token < it => it <= Len(text))

\* The bytes that Emit returns.
LEMMA WordBytes ==
    ASSUME NEW s \in Seq(0..255), NEW a \in Nat, NEW b \in a..Len(s)
    PROVE  /\ Lowercase(Slice(s, a, b)) \in Seq(0..255)
           /\ Len(Lowercase(Slice(s, a, b))) = b - a
<1> DEFINE z == Slice(s, a, b)
<1>1. z \in Seq(0..255) /\ Len(z) = b - a
  BY SliceOf
<1>2. DOMAIN z = 1..Len(z) /\ Len(z) \in Nat /\ \A i \in 1..Len(z) : z[i] \in 0..255
  BY <1>1, LenProperties, ElementOfSeq
<1> HIDE DEF z
<1>3. \A c \in 0..255 : Lower(c) \in 0..255
  BY DEF Lower
<1>4. Lowercase(z) = [i \in 1..Len(z) |-> Lower(z[i])]
  BY <1>2 DEF Lowercase
<1>5. Lowercase(z) \in [1..Len(z) -> 0..255]
  BY <1>2, <1>3, <1>4
<1>6. Lowercase(z) \in Seq(0..255) /\ Len(Lowercase(z)) = Len(z)
  <2> DEFINE n == Len(z)
             f == Lowercase(z)
  <2>1. n \in Nat /\ f \in [1..n -> 0..255]
    BY <1>2, <1>5
  <2> HIDE DEF n, f
  <2>2. f \in Seq(0..255) /\ Len(f) = n
    BY <2>1, SeqMadeOf
  <2> QED BY <2>2 DEF n, f
<1> QED BY <1>1, <1>6 DEF z

LEMMA SymbolBytes ==
    ASSUME NEW s \in Seq(0..255), NEW i \in Nat, NEW n \in Nat
    PROVE  /\ [k \in 1..n |-> At(s, i + k - 1)] \in Seq(0..255)
           /\ Len([k \in 1..n |-> At(s, i + k - 1)]) = n
<1>1. ASSUME NEW k \in 1..n PROVE At(s, i + k - 1) \in 0..255
  <2>1. i + k - 1 \in Nat
    OBVIOUS
  <2> QED BY <2>1, ByteAt
<1> DEFINE f == [k \in 1..n |-> At(s, i + k - 1)]
<1>2. f \in [1..n -> 0..255]
  BY <1>1
<1> HIDE DEF f
<1>3. f \in Seq(0..255) /\ Len(f) = n
  BY <1>2, SeqMadeOf
<1> QED BY <1>3 DEF f

LEMMA CodeSizes == \A cp : CodeSize(cp) \in 1..4
BY DEF CodeSize

LEMMA StepOn ==
    ASSUME Typing
    PROVE  /\ Step(it) \in Nat /\ it <= Step(it) /\ Step(it) = Behind(text, it)
           /\ IsAsciiWord(it) => Step(it) = it + 1
<1>1. At(text, it) \in 0..255
  BY ByteAt DEF Typing
<1>2. /\ SequenceLength(At(text, it)) \in 0..4
      /\ SequenceLength(At(text, it)) = 1 <=> At(text, it) < 128
  BY <1>1, LeadByte
<1> QED BY <1>2 DEF Typing, Step, Behind, IsAsciiWord

\* What one step may do to the cursor.
LEMMA CursorStep ==
    ASSUME Typing, Moves, [Next]_vars
    PROVE  /\ Typing' /\ Moves'
           /\ pc' # "closed" => iOffset' >= iOffset /\ (out' # out => iOffset' > iOffset)
<1> DEFINE Goal == /\ Typing' /\ Moves'
                   /\ pc' # "closed" => iOffset' >= iOffset /\ (out' # out => iOffset' > iOffset)
<1> USE DEF cursor
<1>1. ASSUME NEW t \in Texts, utf8Open(t) PROVE Goal
  BY <1>1, TextsAssumption DEF utf8Open, Typing, Moves
<1>2. CASE utf8Close
  <2>1. <<>> \in Seq(0..255)
    OBVIOUS
  <2> QED BY <1>2, <2>1 DEF utf8Close, Typing, Moves
<1>3. CASE utf8Next
  BY <1>3 DEF utf8Next, Typing, Moves
<1>4. CASE Skip
  <2>1. it <= it' /\ it' \in Nat
    BY <1>4, StepOn DEF Skip
  <2> QED BY <1>4, <2>1 DEF Skip, Typing, Moves
<1>5. CASE EndSkip
  BY <1>5 DEF EndSkip, MovesOverGarbage, Typing, Moves
<1>6. CASE Ascii
  <2>1. it' = it + 1 /\ it < Len(text)
    BY <1>6, StepOn DEF Ascii, IsAsciiWord, Inside
  <2>2. Len(text) \in Nat
    BY LenProperties DEF Typing
  <2> QED BY <1>6, <2>1, <2>2 DEF Ascii, Typing, Moves
<1>7. CASE EndAscii
  BY <1>7 DEF EndAscii, Typing, Moves
<1>8. CASE Emit
  <2>1. \E n \in Nat : n > 0 /\ iOffset' = iOffset + n
    <3>1. CASE it > token /\ Returns(Lowercase(Slice(text, token, it)))
      <4>1. token \in Nat /\ it \in token..Len(text) /\ Len(text) \in Nat
        BY <1>8, <3>1, LenProperties DEF Emit, Typing, Moves
      <4>2. Len(Lowercase(Slice(text, token, it))) = it - token
        BY <4>1, WordBytes DEF Typing
      <4> QED BY <3>1, <4>1, <4>2 DEF Returns
    <3>2. CASE Returns([k \in 1..CodeSize(CodeAt(text, it)) |-> At(text, it + k - 1)])
      <4> DEFINE n == CodeSize(CodeAt(text, it))
      <4>1. n \in 1..4 /\ n \in Nat
        BY CodeSizes
      <4>2. Len([k \in 1..n |-> At(text, it + k - 1)]) = n
        <5> HIDE DEF n
        <5> QED BY <4>1, SymbolBytes DEF Typing
      <4> QED BY <3>2, <4>1, <4>2 DEF Returns
    <3> QED BY <1>8, <3>1, <3>2 DEF Emit
  <2> QED BY <1>8, <2>1 DEF Emit, Typing, Moves
<1>9. CASE OutOfMemory
  BY <1>9 DEF OutOfMemory, Typing, Moves
<1>10. CASE Done
  BY <1>10 DEF Done, Typing, Moves
<1>11. CASE UNCHANGED vars
  BY <1>11 DEF vars, Typing, Moves
<1> QED
  BY <1>1, <1>2, <1>3, <1>4, <1>5, <1>6, <1>7, <1>8, <1>9, <1>10, <1>11 DEF Next, Running

LEMMA InitCursor == Init => Typing /\ Moves
<1>1. <<>> \in Seq(0..255)
  OBVIOUS
<1> QED BY <1>1 DEF Init, Typing, Moves

(* The cursor never moves back and moves on with every token, whatever bytes  *)
(* the text holds (utf8Next, utf8_tokenizer.cpp:168-253): FTS meets the end.   *)
THEOREM Advances == Spec => CursorAdvances
<1>1. Init => Typing /\ Moves
  BY InitCursor
<1>2. Typing /\ Moves /\ [Next]_vars => Typing' /\ Moves'
  BY CursorStep
<1>3. Typing /\ Moves /\ [Next]_vars =>
         [pc' # "closed" => /\ iOffset' >= iOffset
                            /\ out' # out => iOffset' > iOffset]_vars
  BY CursorStep
<1> QED BY <1>1, <1>2, <1>3, PTL DEF Spec, CursorAdvances

-----------------------------------------------------------------------------
(* Valid texts: the inductive invariant.                                     *)

Token == [start : Nat, end : Nat, position : Nat, bytes : Seq(0..255)]
Found == {<<out[i].start, out[i].end>> : i \in DOMAIN out}

\* Everything that begins before p has been found, and p is not inside anything.
FoundUpTo(p) ==
    /\ p \in Boundaries(text) /\ Apart(text, p)
    /\ \A y \in strays : y < p
    /\ Found = Tok(text, strays, p)

InOrder ==
    /\ out \in Seq(Token) /\ iToken = Len(out)
    /\ OffsetsIdentify
    /\ \A i \in DOMAIN out : out[i].end <= iOffset

\* What a call has passed since it skipped garbage is one word, as yet unended.
OneWord ==
    /\ it \in Boundaries(text)
    /\ \A j \in token..(it - 1) : Alnum(At(text, j))
    /\ Inside(token) => ~Garbage(token, FALSE)
    /\ pc = "emit" => ~IsAsciiWord(it)

IInv ==
    /\ Typing /\ Moves /\ InOrder
    /\ strays \in SUBSET Nat
    /\ pc = "closed" => out = <<>> /\ strays = {} /\ iOffset = 0
    /\ pc # "closed" => text \in Texts
    /\ pc = "ready" => FoundUpTo(iOffset)
    /\ pc = "skip" => FoundUpTo(it)
    /\ pc \in {"ascii", "emit"} => FoundUpTo(token) /\ OneWord
    /\ pc = "end" => Found = WordRuns(text) \cup Characters(text)

LEMMA InitIInv == Init => IInv
<1> SUFFICES ASSUME Init PROVE IInv
  OBVIOUS
<1>1. <<>> \in Seq(Token) /\ Len(<<>>) = 0 /\ DOMAIN <<>> = {}
  BY EmptySeq
<1>2. InOrder
  BY <1>1 DEF Init, InOrder, OffsetsIdentify
<1> QED BY <1>2, InitCursor DEF Init, IInv

\* At the end of the text everything has been found.
LEMMA AllOfThem ==
    ASSUME NEW s \in Seq(0..255), NEW Y
    PROVE  Tok(s, Y, Len(s)) = WordRuns(s) \cup CharactersBut(s, Y)
<1>1. Len(s) \in Nat
  BY LenProperties
<1>2. ASSUME NEW r \in WordRuns(s) PROVE r[1] < Len(s)
  BY <1>1, WordRun
<1>3. ASSUME NEW r \in CharactersBut(s, Y) PROVE r[1] < Len(s)
  <2>1. PICK i \in Starts(s) : r[1] = i
    BY ACharacter
  <2> QED BY <2>1, <1>1 DEF Starts
<1> QED BY <1>2, <1>3 DEF Tok

LEMMA TheCharacters == Characters(text) = CharactersBut(text, strays)
BY DEF Characters, CharactersBut, Behind

\* The bytes of a character are in lower case as they are.
LEMMA SymbolIsLower ==
    ASSUME NEW s \in Seq(0..255), NEW i \in Nat, NEW n \in Nat, i + n <= Len(s),
           \A j \in i..(i + n - 1) : At(s, j) \in 128..255
    PROVE  [k \in 1..n |-> At(s, i + k - 1)] = Lowercase(Slice(s, i, i + n))
<1> DEFINE z == Slice(s, i, i + n)
<1>1. i + n \in i..Len(s) /\ i + n - i = n
  BY LenProperties
<1>2. z \in Seq(0..255) /\ Len(z) = n /\ \A k \in 1..n : z[k] = At(s, i + k - 1)
  BY <1>1, SliceOf
<1>3. DOMAIN z = 1..n
  BY <1>2, LenProperties
<1>4. ASSUME NEW k \in 1..n PROVE Lower(z[k]) = At(s, i + k - 1)
  <2>1. i + k - 1 \in i..(i + n - 1)
    OBVIOUS
  <2>2. \A b \in 128..255 : Lower(b) = b
    BY DEF Lower
  <2> HIDE DEF z
  <2> QED BY <2>1, <2>2, <1>2
<1> HIDE DEF z
<1>5. Lowercase(z) = [k \in 1..n |-> Lower(z[k])]
  BY <1>3 DEF Lowercase
<1> QED BY <1>4, <1>5 DEF z

\* What Emit returns is the next of the tokens.
Returned(q) ==
    /\ iOffset < q /\ q \in Boundaries(text) /\ q <= Len(text) /\ Apart(text, q)
    /\ Tok(text, strays, q) = Tok(text, strays, iOffset) \cup {<<iOffset, q>>}
    /\ out' = Append(out, [start |-> iOffset, end |-> q, position |-> iToken,
                           bytes |-> Lowercase(Slice(text, iOffset, q))])
    /\ iToken' = iToken + 1 /\ iOffset' = q

LEMMA Emits ==
    ASSUME AllValid, IInv, Emit
    PROVE  \E q \in Nat : Returned(q)
<1>1. /\ pc = "emit" /\ text \in Seq(0..255) /\ FindInvalid(text) = Len(text)
      /\ iOffset = token /\ token \in Nat /\ it \in Nat /\ token <= it /\ Len(text) \in Nat
      /\ it \in Boundaries(text) /\ Apart(text, token)
      /\ \A y \in strays : y < token
      /\ ~IsAsciiWord(it)
      /\ \A j \in token..(it - 1) : Alnum(At(text, j))
      /\ token < it => it <= Len(text)
  BY LenProperties DEF Emit, IInv, Typing, Moves, FoundUpTo, OneWord, AllValid
<1>2. CASE it > token /\ Returns(Lowercase(Slice(text, token, it)))
  <2>1. it \in token..Len(text)
    BY <1>1, <1>2
  <2>2. Len(Lowercase(Slice(text, token, it))) = it - token
    BY <1>1, <2>1, WordBytes
  <2>3. ~Alnum(At(text, it))
    <3>1. At(text, it) \in 0..255
      BY <1>1, ByteAt
    <3>2. CASE Inside(it)
      <4>1. ~(At(text, it) < 128) => At(text, it) >= 128
        BY <3>1
      <4> QED BY <3>1, <3>2, <1>1, <4>1, HighByte DEF IsAsciiWord, AsciiGarbage
    <3>3. CASE ~Inside(it)
      BY <3>3 DEF Inside, At, Alnum
    <3> QED BY <3>2, <3>3
  <2>4. /\ Tok(text, strays, it) = Tok(text, strays, token) \cup {<<token, it>>}
        /\ Apart(text, it)
    BY <1>1, <1>2, <2>1, <2>3, WordStep
  <2>5. iOffset + (it - token) = it
    BY <1>1
  <2>6. Returned(it)
    BY <1>1, <1>2, <2>1, <2>2, <2>4, <2>5 DEF Returned, Returns
  <2> QED BY <1>1, <2>6
<1>3. CASE /\ it = token /\ Inside(it) /\ At(text, it) >= 128
           /\ ~UnicodeGarbage(CodeAt(text, it))
           /\ Returns([k \in 1..CodeSize(CodeAt(text, it)) |-> At(text, it + k - 1)])
  <2> DEFINE n == CodeSize(CodeAt(text, it))
             q == it + n
  <2>1. it < Len(text)
    BY <1>3 DEF Inside
  <2>2. /\ q = Behind(text, it)
        /\ \A j \in (it + 1)..(q - 1) : At(text, j) \in 128..255
        /\ At(text, it) \in 0..255
    BY <1>1, <2>1, AtBoundary
  <2>3. n \in 1..4 /\ n \in Nat
    BY CodeSizes
  <2>4. At(text, it) \in 128..255
    BY <2>2, <1>3, HighByte
  <2>5. it \notin strays
    BY <1>1, <1>3
  <2>6. /\ q \in Boundaries(text) /\ it < q /\ q <= Len(text) /\ Apart(text, q)
        /\ Tok(text, strays, q) = Tok(text, strays, it) \cup {<<it, q>>}
    BY <1>1, <1>3, <2>1, <2>2, <2>5, SymbolStep
  <2> HIDE DEF n
  <2>7. \A j \in it..(it + n - 1) : At(text, j) \in 128..255
    <3> SUFFICES ASSUME NEW j \in it..(it + n - 1) PROVE At(text, j) \in 128..255
      OBVIOUS
    <3>1. j = it \/ j \in (it + 1)..(q - 1)
      BY <1>1, <2>3
    <3> QED BY <3>1, <2>2, <2>4
  <2>8. [k \in 1..n |-> At(text, it + k - 1)] = Lowercase(Slice(text, it, q))
    BY <1>1, <2>3, <2>6, <2>7, SymbolIsLower
  <2>9. Len([k \in 1..n |-> At(text, it + k - 1)]) = n
    BY <1>1, <2>3, SymbolBytes
  <2>10. Returns([k \in 1..n |-> At(text, it + k - 1)])
    BY <1>3 DEF n
  <2>11. Returned(q)
    BY <1>1, <1>3, <2>6, <2>8, <2>9, <2>10 DEF Returned, Returns
  <2> QED BY <1>1, <2>3, <2>11
<1> QED BY <1>2, <1>3 DEF Emit

LEMMA AppendedToken ==
    ASSUME out \in Seq(Token), NEW e \in Token, out' = Append(out, e)
    PROVE  /\ out' \in Seq(Token) /\ Len(out') = Len(out) + 1
           /\ DOMAIN out = 1..Len(out) /\ DOMAIN out' = 1..(Len(out) + 1)
           /\ \A i \in 1..Len(out) : out'[i] = out[i]
           /\ out'[Len(out) + 1] = e
           /\ Found' = Found \cup {<<e.start, e.end>>}
<1>1. /\ out' \in Seq(Token) /\ Len(out') = Len(out) + 1 /\ Len(out) \in Nat
      /\ DOMAIN out = 1..Len(out) /\ DOMAIN out' = 1..Len(out')
      /\ \A i \in 1..Len(out) : out'[i] = out[i]
      /\ out'[Len(out) + 1] = e
  BY LenProperties, AppendProperties
<1>2. DOMAIN out' = (DOMAIN out) \cup {Len(out) + 1}
  BY <1>1
<1>3. Found' = Found \cup {<<e.start, e.end>>}
  BY <1>1, <1>2 DEF Found
<1> QED BY <1>1, <1>3

\* The token that a step returns.
LEMMA EmitKeepsOrder ==
    ASSUME IInv, NEW q \in Nat, Returned(q), pc = "emit", text' = text
    PROVE  InOrder' /\ Found' = Found \cup {<<iOffset, q>>}
<1> DEFINE e == [start |-> iOffset, end |-> q, position |-> iToken,
                 bytes |-> Lowercase(Slice(text, iOffset, q))]
<1>1. /\ text \in Seq(0..255) /\ iOffset \in Nat /\ q \in iOffset..Len(text)
      /\ out \in Seq(Token) /\ iToken = Len(out) /\ iToken \in Nat
      /\ iToken' = iToken + 1 /\ iOffset' = q /\ out' = Append(out, e)
      /\ iOffset < q /\ q <= Len(text) /\ text' = text
  BY LenProperties DEF IInv, InOrder, Typing, Returned
<1>2. e \in Token
  BY <1>1, WordBytes DEF Token
<1>3. /\ e.start = iOffset /\ e.end = q /\ e.position = iToken
      /\ e.bytes = Lowercase(Slice(text, iOffset, q))
  OBVIOUS
<1> HIDE DEF e
<1>4. /\ out' \in Seq(Token) /\ Len(out') = Len(out) + 1
      /\ DOMAIN out = 1..Len(out) /\ DOMAIN out' = 1..(Len(out) + 1)
      /\ \A i \in 1..Len(out) : out'[i] = out[i]
      /\ out'[Len(out) + 1] = e
      /\ Found' = Found \cup {<<e.start, e.end>>}
  BY <1>1, <1>2, AppendedToken
<1>5. /\ \A i \in 1..Len(out) :
            /\ out[i].start < out[i].end /\ out[i].end <= Len(text)
            /\ out[i].bytes = Lowercase(Slice(text, out[i].start, out[i].end))
            /\ out[i].position = i - 1
            /\ i > 1 => out[i - 1].end <= out[i].start
      /\ \A i \in 1..Len(out) : out[i].end <= iOffset /\ out[i].end \in Nat
  <2>1. \A i \in 1..Len(out) : out[i] \in Token
    BY <1>1, ElementOfSeq
  <2> QED BY <1>4, <2>1 DEF IInv, InOrder, OffsetsIdentify, Token
<1>6. ASSUME NEW i \in 1..(Len(out) + 1)
      PROVE  /\ out'[i].start < out'[i].end /\ out'[i].end <= Len(text)
             /\ out'[i].bytes = Lowercase(Slice(text, out'[i].start, out'[i].end))
             /\ out'[i].position = i - 1
             /\ i > 1 => out'[i - 1].end <= out'[i].start
             /\ out'[i].end <= q
  <2>1. CASE i = Len(out) + 1
    <3>1. out'[i] = e /\ i - 1 = iToken
      BY <2>1, <1>1, <1>4
    <3>2. i > 1 => i - 1 \in 1..Len(out) /\ out'[i - 1] = out[i - 1]
      BY <2>1, <1>1, <1>4
    <3>3. i > 1 => out'[i - 1].end <= iOffset
      BY <3>2, <1>5
    <3> QED BY <3>1, <3>3, <1>1, <1>3
  <2>2. CASE i # Len(out) + 1
    <3>1. i \in 1..Len(out) /\ out'[i] = out[i]
      BY <2>2, <1>1, <1>4
    <3>2. i > 1 => i - 1 \in 1..Len(out) /\ out'[i - 1] = out[i - 1]
      BY <3>1, <1>1, <1>4
    <3>3. out[i].end <= q
      BY <3>1, <1>1, <1>5
    <3> QED BY <3>1, <3>2, <3>3, <1>5
  <2> QED BY <2>1, <2>2
<1>7. OffsetsIdentify' /\ \A i \in DOMAIN out' : out'[i].end <= iOffset'
  BY <1>1, <1>4, <1>6 DEF OffsetsIdentify
<1> QED BY <1>1, <1>3, <1>4, <1>7 DEF InOrder

\* The steps that return nothing leave what is in order as it is.
LEMMA OrderKept ==
    ASSUME InOrder, iOffset \in Nat, iOffset' \in Nat, iOffset <= iOffset',
           UNCHANGED <<text, iToken, out>>
    PROVE  InOrder' /\ Found' = Found
<1>1. \A i \in DOMAIN out : out[i].end \in Nat
  <2>1. DOMAIN out = 1..Len(out)
    BY LenProperties DEF InOrder
  <2>2. \A i \in 1..Len(out) : out[i] \in Token
    BY ElementOfSeq DEF InOrder
  <2> QED BY <2>1, <2>2 DEF Token
<1> QED BY <1>1 DEF InOrder, OffsetsIdentify, Found

\* Where FoundUpTo can carry over unchanged.
LEMMA FoundKept ==
    ASSUME NEW p, FoundUpTo(p), Found' = Found, UNCHANGED <<text, strays>>
    PROVE  FoundUpTo(p)'
BY DEF FoundUpTo, Tok, Boundaries, Apart, CharactersBut, WordRuns, Starts

LEMMA NextIInv ==
    ASSUME AllValid, IInv, [Next]_vars
    PROVE  IInv'
<1> USE DEF cursor
<1>0. /\ Typing /\ Moves /\ InOrder /\ strays \subseteq Nat
      /\ Typing' /\ Moves'
      /\ iOffset \in Nat /\ iOffset' \in Nat /\ (pc' # "closed" => iOffset <= iOffset')
  BY CursorStep DEF IInv, Typing
<1>1. ASSUME NEW t \in Texts, utf8Open(t) PROVE IInv'
  <2>1. /\ out = <<>> /\ out' = <<>> /\ strays' = {} /\ iOffset' = 0 /\ iToken' = iToken
        /\ text' = t /\ pc' = "ready"
    BY <1>1 DEF utf8Open, IInv
  <2>2. t \in Seq(0..255) /\ FindInvalid(t) = Len(t)
    BY TextsAssumption DEF AllValid
  <2>3. 0 \in Boundaries(t)
    BY <2>2, Boundary
  <2>4. Tok(t, {}, 0) = {}
    <3>1. Len(t) \in Nat
      BY <2>2, LenProperties
    <3>2. \A r \in WordRuns(t) : ~(r[1] < 0)
      BY WordRun
    <3>3. \A r \in CharactersBut(t, {}) : ~(r[1] < 0)
      BY ACharacter, <3>1 DEF Starts
    <3> QED BY <3>2, <3>3 DEF Tok
  <2>5. DOMAIN <<>> = {} /\ Len(<<>>) = 0 /\ <<>> \in Seq(Token)
    BY EmptySeq
  <2>6. Found' = {}
    BY <2>1, <2>5 DEF Found
  <2>7. InOrder'
    BY <2>1, <2>5, <1>0 DEF InOrder, OffsetsIdentify
  <2>8. FoundUpTo(iOffset)'
    BY <2>1, <2>3, <2>4, <2>6 DEF FoundUpTo, Apart
  <2> QED BY <1>0, <2>1, <2>7, <2>8 DEF IInv
<1>2. CASE utf8Close
  <2>1. /\ out' = <<>> /\ strays' = {} /\ iOffset' = 0 /\ iToken' = 0 /\ pc' = "closed"
    BY <1>2 DEF utf8Close
  <2>2. DOMAIN <<>> = {} /\ Len(<<>>) = 0 /\ <<>> \in Seq(Token)
    BY EmptySeq
  <2>3. InOrder'
    BY <2>1, <2>2 DEF InOrder, OffsetsIdentify
  <2> QED BY <1>0, <2>1, <2>3 DEF IInv
<1>3. CASE utf8Next
  <2>1. /\ pc = "ready" /\ it' = iOffset /\ pc' = IF Inside(iOffset) THEN "skip" ELSE "end"
        /\ UNCHANGED <<text, iOffset, iToken, out, strays>>
    BY <1>3 DEF utf8Next
  <2>2. InOrder' /\ Found' = Found
    BY <1>0, <2>1, OrderKept
  <2>3. FoundUpTo(iOffset) /\ text \in Texts /\ text \in Seq(0..255) /\ Len(text) \in Nat
    BY <2>1, <1>0, LenProperties DEF IInv, Typing
  <2>4. FoundUpTo(iOffset)'
    BY <2>1, <2>2, <2>3 DEF FoundUpTo
  <2>5. CASE Inside(iOffset)
    <3>1. pc' = "skip" /\ FoundUpTo(it)'
      BY <2>1, <2>4, <2>5 DEF FoundUpTo
    <3> QED BY <3>1, <1>0, <2>1, <2>2, <2>3 DEF IInv
  <2>6. CASE ~Inside(iOffset)
    <3>1. iOffset = Len(text)
      BY <2>3, <2>6, <1>0 DEF Inside, FoundUpTo, Boundaries
    <3>2. Found = WordRuns(text) \cup CharactersBut(text, strays)
      BY <2>3, <3>1, AllOfThem DEF FoundUpTo
    <3>3. (Found = WordRuns(text) \cup Characters(text))'
      BY <3>2, <2>1, <2>2, TheCharacters DEF Characters
    <3>4. pc' = "end"
      BY <2>1, <2>6
    <3> QED BY <3>3, <3>4, <1>0, <2>1, <2>2, <2>3 DEF IInv
  <2> QED BY <2>5, <2>6
<1>4. CASE Skip
  <2>1. PICK stray \in BOOLEAN :
            /\ Garbage(it, stray)
            /\ strays' = IF stray /\ At(text, it) >= 128 THEN strays \cup {it} ELSE strays
    BY <1>4 DEF Skip
  <2>2. /\ pc = "skip" /\ it < Len(text) /\ it' = Step(it) /\ pc' = "skip"
        /\ UNCHANGED <<text, iOffset, iToken, out>>
    BY <1>4 DEF Skip, Inside
  <2>3. InOrder' /\ Found' = Found
    BY <1>0, <2>2, OrderKept
  <2>4. /\ FoundUpTo(it) /\ text \in Texts /\ text \in Seq(0..255) /\ it \in Nat
        /\ FindInvalid(text) = Len(text) /\ it \in Boundaries(text)
    BY <2>2, <1>0 DEF IInv, Typing, AllValid, FoundUpTo
  <2>5. it' = Behind(text, it)
    BY <2>2, <1>0, StepOn
  <2>6. strays' \in {strays, strays \cup {it}}
    BY <2>1
  <2>7. Passed(text, it, strays')
    BY <2>1 DEF Garbage, AsciiGarbage, Passed
  <2>8. /\ it' \in Boundaries(text) /\ it < it' /\ Apart(text, it')
        /\ Tok(text, strays', it') = Tok(text, strays, it)
    <3>1. /\ Behind(text, it) \in Boundaries(text) /\ it < Behind(text, it)
          /\ Apart(text, Behind(text, it))
          /\ Tok(text, strays', Behind(text, it)) = Tok(text, strays, it)
      BY <2>2, <2>4, <2>6, <2>7, SkipStep
    <3> QED BY <3>1, <2>5
  <2>9. it' \in Nat
    BY <1>0 DEF Typing
  <2>10. \A y \in strays' : y < it' /\ y \in Nat
    BY <2>4, <2>6, <2>8, <2>9, <1>0 DEF FoundUpTo
  <2>11. FoundUpTo(it)'
    BY <2>2, <2>3, <2>4, <2>8, <2>10 DEF FoundUpTo
  <2>12. strays' \subseteq Nat
    BY <2>10
  <2> QED BY <1>0, <2>2, <2>3, <2>4, <2>11, <2>12 DEF IInv
<1>5. CASE EndSkip
  <2>1. /\ pc = "skip" /\ (Inside(it) => ~Garbage(it, FALSE)) /\ pc' = "ascii"
        /\ token' = it /\ it' = it /\ UNCHANGED <<text, iToken, out, strays>>
    BY <1>5 DEF EndSkip
  <2>2. InOrder' /\ Found' = Found
    BY <1>0, <2>1, OrderKept
  <2>3. FoundUpTo(it) /\ text \in Texts /\ it \in Nat
    BY <2>1, <1>0 DEF IInv, Typing
  <2>4. FoundUpTo(token)'
    BY <2>1, <2>2, <2>3 DEF FoundUpTo
  <2>5. token'..(it' - 1) = {}
    BY <2>1, <2>3
  <2>6. OneWord'
    BY <2>1, <2>3, <2>5 DEF OneWord, FoundUpTo, Inside, Garbage
  <2> QED BY <1>0, <2>1, <2>2, <2>3, <2>4, <2>6 DEF IInv
<1>6. CASE Ascii
  <2>1. /\ pc = "ascii" /\ IsAsciiWord(it) /\ it' = Step(it) /\ pc' = "ascii"
        /\ UNCHANGED <<text, iOffset, iToken, token, out, strays>>
    BY <1>6 DEF Ascii
  <2>2. InOrder' /\ Found' = Found
    BY <1>0, <2>1, OrderKept
  <2>3. /\ FoundUpTo(token) /\ OneWord /\ text \in Texts /\ text \in Seq(0..255)
        /\ FindInvalid(text) = Len(text) /\ it \in Nat /\ it \in Boundaries(text)
        /\ token \in Nat
    BY <2>1, <1>0 DEF IInv, Typing, AllValid, OneWord
  <2>4. FoundUpTo(token)'
    BY <2>1, <2>2, <2>3 DEF FoundUpTo
  <2>5. it < Len(text) /\ Alnum(At(text, it))
    BY <2>1 DEF IsAsciiWord, Inside, AsciiGarbage
  <2>6. it' = it + 1 /\ it' \in Boundaries(text)
    <3>1. it' = it + 1 /\ it' = Behind(text, it)
      BY <2>1, <1>0, StepOn
    <3>2. Behind(text, it) \in Boundaries(text)
      BY <2>3, <2>5, AtBoundary
    <3> QED BY <3>1, <3>2
  <2>7. \A j \in token..(it' - 1) : Alnum(At(text, j))
    <3>1. \A j \in token..(it' - 1) : j = it \/ j \in token..(it - 1)
      BY <2>3, <2>6
    <3> QED BY <3>1, <2>3, <2>5 DEF OneWord
  <2>8. Inside(token) => ~Garbage(token, FALSE)
    BY <2>3 DEF OneWord
  <2>9. OneWord'
    BY <2>1, <2>6, <2>7, <2>8 DEF OneWord, Inside, Garbage
  <2> QED BY <1>0, <2>1, <2>2, <2>3, <2>4, <2>9 DEF IInv
<1>7. CASE EndAscii
  <2>1. /\ pc = "ascii" /\ ~IsAsciiWord(it) /\ pc' = "emit"
        /\ UNCHANGED <<text, iOffset, iToken, it, token, out, strays>>
    BY <1>7 DEF EndAscii
  <2>2. InOrder' /\ Found' = Found
    BY <1>0, <2>1, OrderKept
  <2>3. FoundUpTo(token) /\ OneWord /\ text \in Texts
    BY <2>1 DEF IInv
  <2>4. FoundUpTo(token)'
    BY <2>1, <2>2, <2>3 DEF FoundUpTo
  <2>5. OneWord'
    BY <2>1, <2>3 DEF OneWord, Inside, Garbage, IsAsciiWord
  <2> QED BY <1>0, <2>1, <2>2, <2>3, <2>4, <2>5 DEF IInv
<1>8. CASE Emit
  <2>1. pc = "emit" /\ pc' = "ready" /\ UNCHANGED <<text, it, token, strays>>
    BY <1>8 DEF Emit
  <2>2. PICK q \in Nat : Returned(q)
    BY <1>8, Emits
  <2>3. InOrder' /\ Found' = Found \cup {<<iOffset, q>>}
    BY <2>1, <2>2, EmitKeepsOrder
  <2>4. FoundUpTo(token) /\ text \in Texts /\ iOffset = token /\ token \in Nat
    BY <2>1, <1>0 DEF IInv, Typing, Moves
  <2>5. \A y \in strays : y < q
    BY <1>0, <2>2, <2>4 DEF FoundUpTo, Returned
  <2>6. FoundUpTo(iOffset)'
    BY <2>1, <2>2, <2>3, <2>4, <2>5 DEF FoundUpTo, Returned
  <2> QED BY <1>0, <2>1, <2>3, <2>4, <2>6 DEF IInv
<1>9. CASE OutOfMemory
  <2>1. /\ pc = "emit" /\ pc' = "nomem" /\ UNCHANGED <<text, iOffset, iToken, out, strays>>
    BY <1>9 DEF OutOfMemory
  <2>2. InOrder'
    BY <1>0, <2>1, OrderKept
  <2>3. text \in Texts
    BY <2>1 DEF IInv
  <2> QED BY <1>0, <2>1, <2>2, <2>3 DEF IInv
<1>10. CASE Done
  <2>1. /\ pc = "emit" /\ pc' = "end" /\ it = token
        /\ (Inside(it) => At(text, it) < 128 \/ UnicodeGarbage(CodeAt(text, it)))
        /\ UNCHANGED <<text, iOffset, iToken, out, strays>>
    BY <1>10 DEF Done
  <2>2. InOrder' /\ Found' = Found
    BY <1>0, <2>1, OrderKept
  <2>3. /\ FoundUpTo(token) /\ OneWord /\ text \in Texts /\ text \in Seq(0..255)
        /\ token \in Nat /\ Len(text) \in Nat
    BY <2>1, <1>0, LenProperties DEF IInv, Typing
  <2>4. ~Inside(token)
    <3> SUFFICES ASSUME Inside(token) PROVE FALSE
      OBVIOUS
    <3>1. ~Garbage(token, FALSE) /\ ~IsAsciiWord(token)
      BY <2>1, <2>3 DEF OneWord
    <3>2. At(text, token) \in 0..255
      BY <2>3, ByteAt
    <3>3. ~(At(text, token) < 128)
      BY <3>1 DEF Garbage, IsAsciiWord
    <3>4. At(text, token) >= 128
      BY <3>2, <3>3
    <3> QED BY <2>1, <3>1, <3>3, <3>4 DEF Garbage
  <2>5. token = Len(text)
    BY <2>3, <2>4 DEF Inside, FoundUpTo, Boundaries
  <2>6. Found = WordRuns(text) \cup CharactersBut(text, strays)
    BY <2>3, <2>5, AllOfThem DEF FoundUpTo
  <2>7. (Found = WordRuns(text) \cup Characters(text))'
    BY <2>1, <2>2, <2>6, TheCharacters DEF Characters
  <2> QED BY <1>0, <2>1, <2>2, <2>3, <2>7 DEF IInv
<1>11. CASE UNCHANGED vars
  <2>1. UNCHANGED <<text, iOffset, iToken, pc, it, token, out, strays>>
    BY <1>11 DEF vars
  <2>2. InOrder' /\ Found' = Found
    BY <1>0, <2>1, OrderKept
  <2> QED BY <1>0, <2>1, <2>2
          DEF IInv, FoundUpTo, OneWord, Inside, Garbage, IsAsciiWord, Characters
<1> QED
  BY <1>1, <1>2, <1>3, <1>4, <1>5, <1>6, <1>7, <1>8, <1>9, <1>10, <1>11 DEF Next, Running

(* On valid texts: the offsets of every token identify its text, tokens come  *)
(* in the order of the text without overlapping and are numbered from 0        *)
(* (fts3_tokenizer.h:109-123).                                               *)
THEOREM Offsets == ASSUME AllValid PROVE Spec => []OffsetsIdentify
<1>1. Init => IInv
  BY InitIInv
<1>2. IInv /\ [Next]_vars => IInv'
  BY NextIInv
<1>3. IInv => OffsetsIdentify
  BY DEF IInv, InOrder
<1> QED BY <1>1, <1>2, <1>3, PTL DEF Spec

(* On valid texts: a cursor read to its end has returned every maximal run of  *)
(* letters and digits and every character that is a token, and nothing else,   *)
(* whatever lies in memory before ascii_garbage.                              *)
THEOREM FindsAll == ASSUME AllValid PROVE Spec => []FindsAllTokens
<1>1. Init => IInv
  BY InitIInv
<1>2. IInv /\ [Next]_vars => IInv'
  BY NextIInv
<1>3. IInv => FindsAllTokens
  BY DEF IInv, FindsAllTokens, Found
<1> QED BY <1>1, <1>2, <1>3, PTL DEF Spec
=============================================================================
