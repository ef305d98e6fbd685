----------------------------- MODULE DataProofs -----------------------------
(***************************************************************************)
(* Lemmas about data that the proofs of several components rest on:         *)
(* induction, recursive functions, sequences, and the utf8 library.          *)
(*                                                                         *)
(* The library's induction theorems take a predicate, which the provers     *)
(* cannot instantiate; here the predicate is the set S of the numbers that   *)
(* have it.  A recursive function of TLA+ is                                 *)
(* CHOOSE f : f = [i \in D |-> ...]; the two recursion lemmas say when there *)
(* is such an f.                                                             *)
(***************************************************************************)
EXTENDS Utf8, SequenceTheorems, WellFoundedInduction, TLAPS

(* Every non-empty set of natural numbers has a least element.               *)
LEMMA LeastElement ==
    ASSUME NEW T, T \subseteq Nat, T # {}
    PROVE  \E x \in T : \A y \in T : x <= y
<1>1. \E R : /\ IsWellFoundedOn(R, Nat)
             /\ \A m, n \in Nat : m < n => <<m, n>> \in R
  <2>1. \A m, n \in Nat : m < n => <<m, n>> \in OpToRel(<, Nat)
    BY DEF OpToRel
  <2> QED BY <2>1, NatLessThanWellFounded, Zenon
<1>2. PICK R : /\ IsWellFoundedOn(R, Nat)
              /\ \A m, n \in Nat : m < n => <<m, n>> \in R
  BY <1>1, Zenon
<1>3. PICK x \in T : \A y \in T : ~(<<y, x>> \in R)
  <2>1. IsWellFoundedOn(R, Nat)
    BY <1>2, Zenon
  <2> QED BY <2>1, WFMin
<1>4. ASSUME NEW y \in T PROVE x <= y
  <2>1. ~(y < x)
    BY <1>2, <1>3, Zenon
  <2> QED BY <2>1
<1> QED BY <1>3, <1>4

(* Complete induction.                                                       *)
LEMMA CompleteInduction ==
    ASSUME NEW S, \A n \in Nat : (\A m \in 0..(n - 1) : m \in S) => n \in S
    PROVE  \A n \in Nat : n \in S
<1> SUFFICES ASSUME Nat \ S # {} PROVE FALSE
  OBVIOUS
<1> DEFINE T == Nat \ S
<1>1. PICK x \in T : \A y \in T : x <= y
  BY LeastElement
<1> HIDE DEF T
<1>2. \A m \in 0..(x - 1) : m \in S
  BY <1>1 DEF T
<1> QED BY <1>1, <1>2 DEF T

(* Simple induction.                                                         *)
LEMMA SimpleInduction ==
    ASSUME NEW S, 0 \in S, \A n \in Nat : n \in S => n + 1 \in S
    PROVE  \A n \in Nat : n \in S
<1>1. ASSUME NEW n \in Nat, \A m \in 0..(n - 1) : m \in S PROVE n \in S
  <2>1. CASE n = 0
    BY <2>1
  <2>2. CASE n # 0
    <3>1. n - 1 \in Nat /\ n - 1 \in 0..(n - 1) /\ n - 1 + 1 = n
      BY <2>2
    <3> QED BY <3>1, <1>1
  <2> QED BY <2>1, <2>2
<1> QED BY <1>1, CompleteInduction

(* Induction from the end of an interval to its beginning.                   *)
LEMMA BackwardInduction ==
    ASSUME NEW m \in Nat, NEW n \in Nat, NEW S,
           \A i \in m..n : (\A j \in (i + 1)..n : j \in S) => i \in S
    PROVE  \A i \in m..n : i \in S
<1> DEFINE T == {k \in Nat : k <= n - m => n - k \in S}
<1>1. ASSUME NEW k \in Nat, \A l \in 0..(k - 1) : l \in T PROVE k \in T
  <2> SUFFICES ASSUME k <= n - m PROVE n - k \in S
    OBVIOUS
  <2>1. n - k \in m..n
    OBVIOUS
  <2>2. ASSUME NEW j \in ((n - k) + 1)..n PROVE j \in S
    <3>1. n - j \in 0..(k - 1) /\ n - j <= n - m /\ n - (n - j) = j
      BY <2>1
    <3> QED BY <3>1, <1>1
  <2> QED BY <2>1, <2>2
<1> HIDE DEF T
<1>2. \A k \in Nat : k \in T
  BY <1>1, CompleteInduction
<1>3. ASSUME NEW i \in m..n PROVE i \in S
  <2>1. n - i \in Nat /\ n - i <= n - m /\ n - (n - i) = i
    OBVIOUS
  <2> QED BY <2>1, <1>2 DEF T
<1> QED BY <1>3

(* Recursion along 0..n, each value made from the one before.                *)
Iterates(n, v0, step, f) == f[0] = v0 /\ \A i \in 1..n : f[i] = step[<<i, f[i - 1]>>]

LEMMA ForwardRecursion ==
    ASSUME NEW n \in Nat, NEW V, NEW v0 \in V, NEW step \in [(1..n) \X V -> V]
    PROVE  \E f \in [0..n -> V] : Iterates(n, v0, step, f)
<1> USE DEF Iterates
<1> DEFINE Upto(k, f) == f[0] = v0 /\ \A i \in 1..k : f[i] = step[<<i, f[i - 1]>>]
           S == {k \in Nat : k <= n => \E f \in [0..k -> V] : Upto(k, f)}
<1>1. 0 \in S
  <2>1. [i \in 0..0 |-> v0] \in [0..0 -> V] /\ Upto(0, [i \in 0..0 |-> v0])
    OBVIOUS
  <2> QED BY <2>1
<1>2. ASSUME NEW k \in Nat, k \in S PROVE k + 1 \in S
  <2> SUFFICES ASSUME k + 1 <= n PROVE \E f \in [0..(k + 1) -> V] : Upto(k + 1, f)
    OBVIOUS
  <2>1. PICK f \in [0..k -> V] : Upto(k, f)
    BY <1>2
  <2> DEFINE g == [i \in 0..(k + 1) |-> IF i = k + 1 THEN step[<<k + 1, f[k]>>] ELSE f[i]]
  <2>2. g \in [0..(k + 1) -> V]
    <3>1. <<k + 1, f[k]>> \in (1..n) \X V
      BY <2>1
    <3>2. step[<<k + 1, f[k]>>] \in V
      BY <3>1
    <3> QED BY <3>2
  <2>3. g[0] = v0
    BY <2>1
  <2>4. ASSUME NEW i \in 1..(k + 1) PROVE g[i] = step[<<i, g[i - 1]>>]
    <3>1. i - 1 \in 0..k /\ g[i - 1] = f[i - 1]
      OBVIOUS
    <3>2. CASE i = k + 1
      <4>1. g[i] = step[<<k + 1, f[k]>>] /\ g[k] = f[k]
        BY <3>2
      <4>2. i - 1 = k
        BY <3>2
      <4> HIDE DEF g
      <4> QED BY <4>1, <4>2, <3>2, Zenon
    <3>3. CASE i # k + 1
      <4>1. i \in 1..k /\ g[i] = f[i]
        BY <3>3
      <4> QED BY <4>1, <3>1, <2>1
    <3> QED BY <3>2, <3>3
  <2> QED BY <2>2, <2>3, <2>4
<1> HIDE DEF S
<1>3. n \in S
  BY <1>1, <1>2, SimpleInduction
<1> QED BY <1>3 DEF S

(* Recursion along m..n from the end: each value is given (in stop) or made   *)
(* from that of a later position, jump[i].                                    *)
Jumps(m, n, stop, jump) == \A i \in (m..n) \ stop : jump[i] \in (i + 1)..n
Follows(m, n, stop, w, jump, step, f) ==
    \A i \in m..n : f[i] = IF i \in stop THEN w[i] ELSE step[<<i, f[jump[i]]>>]

LEMMA BackwardRecursion ==
    ASSUME NEW m \in Nat, NEW n \in Nat, NEW V, NEW stop, NEW w \in [m..n -> V],
           NEW jump, Jumps(m, n, stop, jump), NEW step \in [(m..n) \X V -> V]
    PROVE  \E f \in [m..n -> V] : Follows(m, n, stop, w, jump, step, f)
<1> USE DEF Jumps, Follows
<1> DEFINE From(i, f) == f[i] = IF i \in stop THEN w[i] ELSE step[<<i, f[jump[i]]>>]
           S == {k \in Nat : m <= n - k + 1 =>
                    \E f \in [(n - k + 1)..n -> V] : \A i \in (n - k + 1)..n : From(i, f)}
<1>1. 0 \in S
  <2> DEFINE e == n - 0 + 1
             f == [i \in e..n |-> w[i]]
  <2>1. e..n = {}
    OBVIOUS
  <2>2. f \in [e..n -> V] /\ \A i \in e..n : From(i, f)
    BY <2>1
  <2> QED BY <2>2
<1>2. ASSUME NEW k \in Nat, k \in S PROVE k + 1 \in S
  <2> DEFINE a == n - k
  <2>0. n - k + 1 = a + 1 /\ n - (k + 1) + 1 = a
    OBVIOUS
  <2> SUFFICES ASSUME m <= a
               PROVE  \E f \in [a..n -> V] : \A i \in a..n : From(i, f)
    BY <2>0
  <2>1. PICK f \in [(a + 1)..n -> V] : \A i \in (a + 1)..n : From(i, f)
    BY <1>2, <2>0
  <2>2. a \in m..n /\ a \in Nat
    OBVIOUS
  <2> DEFINE v == IF a \in stop THEN w[a] ELSE step[<<a, f[jump[a]]>>]
             g == [i \in a..n |-> IF i = a THEN v ELSE f[i]]
  <2>3. v \in V
    <3>1. CASE a \in stop
      BY <2>2, <3>1
    <3>2. CASE a \notin stop
      <4>1. jump[a] \in (a + 1)..n
        BY <2>2, <3>2
      <4>2. f[jump[a]] \in V
        BY <4>1, <2>1
      <4>3. <<a, f[jump[a]]>> \in (m..n) \X V
        BY <4>2, <2>2
      <4> QED BY <4>3, <3>2
    <3> QED BY <3>1, <3>2
  <2> HIDE DEF v, a
  <2>4. g \in [a..n -> V]
    BY <2>3, <2>1, <2>2
  <2>5. ASSUME NEW i \in a..n PROVE From(i, g)
    <3>1. i \in m..n
      BY <2>2
    <3>2. i \notin stop => jump[i] \in (i + 1)..n /\ jump[i] \in a..n /\ jump[i] # a
      BY <3>1, <2>2
    <3>3. CASE i = a
      BY <3>2, <3>3, <2>2 DEF v
    <3>4. CASE i # a
      <4>1. i \in (a + 1)..n
        BY <3>4, <2>2
      <4>2. From(i, f)
        BY <4>1, <2>1
      <4> QED BY <4>1, <4>2, <3>2, <3>4
    <3> QED BY <3>3, <3>4
  <2> QED BY <2>4, <2>5
<1> HIDE DEF S
<1>3. \A k \in Nat : k \in S
  BY <1>1, <1>2, SimpleInduction
<1>4. CASE m <= n + 1
  <2> DEFINE k == n - m + 1
  <2>1. k \in Nat /\ n - k + 1 = m
    BY <1>4
  <2>2. \E f \in [(n - k + 1)..n -> V] : \A i \in (n - k + 1)..n : From(i, f)
    <3> HIDE DEF k
    <3> QED BY <2>1, <1>3 DEF S
  <2> QED BY <2>1, <2>2
<1>5. CASE m > n + 1
  <2>1. m..n = {}
    BY <1>5
  <2>2. [i \in m..n |-> w[i]] \in [m..n -> V]
    OBVIOUS
  <2> QED BY <2>1, <2>2
<1> QED BY <1>4, <1>5

-----------------------------------------------------------------------------
(* Sequences, with positions that count from 0.                              *)

LEMMA SeqMadeOf ==
    ASSUME NEW S, NEW n \in Nat, NEW f \in [1..n -> S]
    PROVE  f \in Seq(S) /\ Len(f) = n /\ DOMAIN f = 1..n
<1>1. f \in Seq(S)
  BY SeqDef
<1>2. Len(f) \in Nat /\ DOMAIN f = 1..Len(f)
  BY <1>1, LenProperties
<1>3. DOMAIN f = 1..n
  OBVIOUS
<1>4. Len(f) = n
  BY <1>2, <1>3
<1> QED BY <1>1, <1>3, <1>4

LEMMA ByteAt ==
    ASSUME NEW s \in Seq(0..255), NEW i \in Nat
    PROVE  At(s, i) \in 0..255
<1>1. CASE i < Len(s)
  <2>1. i + 1 \in 1..Len(s)
    BY <1>1
  <2>2. s[i + 1] \in 0..255
    BY <2>1, ElementOfSeq
  <2> QED BY <2>2, <1>1 DEF At
<1>2. CASE ~(i < Len(s))
  BY <1>2 DEF At
<1> QED BY <1>1, <1>2

LEMMA SliceOf ==
    ASSUME NEW S, NEW s \in Seq(S), NEW a \in Nat, NEW b \in a..Len(s)
    PROVE  /\ Slice(s, a, b) \in Seq(S) /\ Len(Slice(s, a, b)) = b - a
           /\ \A k \in 1..(b - a) : Slice(s, a, b)[k] = At(s, a + k - 1)
<1>1. \A i \in (a + 1)..b : s[i] \in S
  BY ElementOfSeq
<1>2. a + 1 \in Int /\ b \in Int
  OBVIOUS
<1> DEFINE z == SubSeq(s, a + 1, b)
<1>3. /\ z \in Seq(S) /\ Len(z) = IF a + 1 <= b THEN b - (a + 1) + 1 ELSE 0
      /\ \A i \in 1..(b - (a + 1) + 1) : z[i] = s[a + 1 + i - 1]
  BY <1>1, <1>2, SubSeqProperties
<1>4. b - (a + 1) + 1 = b - a /\ (~(a + 1 <= b) => b - a = 0)
  OBVIOUS
<1>5. ASSUME NEW k \in 1..(b - a) PROVE z[k] = At(s, a + k - 1)
  <2>1. a + 1 + k - 1 = a + k - 1 + 1 /\ a + k - 1 < Len(s)
    OBVIOUS
  <2> HIDE DEF z
  <2>2. z[k] = s[a + 1 + k - 1]
    BY <1>3, <1>4
  <2> QED BY <2>1, <2>2 DEF At
<1> QED BY <1>3, <1>4, <1>5 DEF Slice

-----------------------------------------------------------------------------
(* utf8                                                                      *)

LEMMA LeadByte ==
    ASSUME NEW b \in 0..255
    PROVE  /\ SequenceLength(b) \in 0..4
           /\ SequenceLength(b) = 1 <=> b < 128
           /\ IsTrail(b) => SequenceLength(b) = 0 /\ b >= 128
BY DEF SequenceLength, IsTrail

LEMMA CodeAtNat ==
    ASSUME NEW s \in Seq(0..255), NEW i \in Nat
    PROVE  CodeAt(s, i) \in Nat
<1> DEFINE lead == At(s, i)
<1>1. lead \in 0..255
  BY ByteAt
<1>2. At(s, i + 1) % 64 \in Nat /\ At(s, i + 2) % 64 \in Nat /\ At(s, i + 3) % 64 \in Nat
  <2>1. i + 1 \in Nat /\ i + 2 \in Nat /\ i + 3 \in Nat
    OBVIOUS
  <2>2. At(s, i + 1) \in 0..255 /\ At(s, i + 2) \in 0..255 /\ At(s, i + 3) \in 0..255
    BY <2>1, ByteAt
  <2>3. \A b \in 0..255 : b % 64 \in Nat
    OBVIOUS
  <2> QED BY <2>2, <2>3
<1> HIDE DEF lead
<1>3. CASE SequenceLength(lead) = 2
  <2>1. CodeAt(s, i) = ((lead * 64) % 2048) + (At(s, i + 1) % 64)
    BY <1>3 DEF CodeAt, lead
  <2>2. (lead * 64) % 2048 \in Nat
    BY <1>1
  <2> QED BY <2>1, <1>2, <2>2
<1>4. CASE SequenceLength(lead) = 3
  <2>1. CodeAt(s, i) = ((lead * 4096) % 65536) + (At(s, i + 1) % 64) * 64 + (At(s, i + 2) % 64)
    BY <1>4 DEF CodeAt, lead
  <2>2. (lead * 4096) % 65536 \in Nat
    BY <1>1
  <2> QED BY <2>1, <1>2, <2>2
<1>5. CASE SequenceLength(lead) = 4
  <2>1. CodeAt(s, i) = ((lead * 262144) % 2097152) + (At(s, i + 1) % 64) * 4096
                       + (At(s, i + 2) % 64) * 64 + (At(s, i + 3) % 64)
    BY <1>5 DEF CodeAt, lead
  <2>2. (lead * 262144) % 2097152 \in Nat
    BY <1>1
  <2> QED BY <2>1, <1>2, <2>2
<1>6. CASE SequenceLength(lead) \notin {2, 3, 4}
  <2>1. CodeAt(s, i) = lead
    BY <1>6 DEF CodeAt, lead
  <2> QED BY <2>1, <1>1
<1> QED BY <1>3, <1>4, <1>5, <1>6

(* A valid character: its lead byte says how long it is, its other bytes are  *)
(* no leads, and only ASCII is encoded in one byte.                           *)
LEMMA ValidCharacter ==
    ASSUME NEW s \in Seq(0..255), NEW i \in Nat, ValidAt(s, i)
    PROVE  /\ SequenceLength(At(s, i)) \in 1..4 /\ i + SequenceLength(At(s, i)) <= Len(s)
           /\ ~IsTrail(At(s, i))
           /\ \A k \in 1..(SequenceLength(At(s, i)) - 1) : IsTrail(At(s, i + k))
           /\ CodeSize(CodeAt(s, i)) = SequenceLength(At(s, i))
           /\ IF At(s, i) < 128 THEN SequenceLength(At(s, i)) = 1 /\ CodeAt(s, i) = At(s, i)
                                ELSE CodeAt(s, i) > 127
<1> DEFINE b == At(s, i)
           n == SequenceLength(b)
           c == CodeAt(s, i)
<1>1. b \in 0..255
  BY ByteAt
<1>2. n \in 0..4 /\ (n = 1 <=> b < 128) /\ (IsTrail(b) => n = 0)
  BY <1>1, LeadByte
<1>3. /\ n > 0 /\ i + n <= Len(s)
      /\ \A k \in 1..(n - 1) : IsTrail(At(s, i + k))
      /\ CodeSize(c) = n
  BY DEF ValidAt
<1>4. c \in Nat
  BY CodeAtNat
<1>5. b < 128 => c = b
  <2> SUFFICES ASSUME b < 128 PROVE c = b
    OBVIOUS
  <2>1. n \notin {2, 3, 4}
    BY <1>2
  <2> QED BY <2>1 DEF CodeAt
<1>6. ASSUME ~(b < 128) PROVE c > 127
  <2>1. CodeSize(c) # 1
    BY <1>2, <1>3, <1>6
  <2> HIDE DEF c
  <2> QED BY <2>1, <1>4 DEF CodeSize
<1> HIDE DEF b, c, n
<1>7. /\ n \in 1..4 /\ ~IsTrail(b) /\ (b < 128 => n = 1)
  BY <1>1, <1>2, <1>3
<1> QED BY <1>3, <1>5, <1>6, <1>7 DEF b, c, n

(* The recursive function in FindInvalid.                                     *)
EndsOf(s) ==
    CHOOSE ends : ends = [i \in 0..Len(s) |->
        IF i < Len(s) /\ ValidAt(s, i) THEN ends[i + SequenceLength(At(s, i))] ELSE i]

LEMMA FindInvalidIs == \A s : FindInvalid(s) = EndsOf(s)[0]
BY DEF FindInvalid, EndsOf

LEMMA EndsOfIs ==
    ASSUME NEW s \in Seq(0..255)
    PROVE  /\ EndsOf(s) \in [0..Len(s) -> 0..Len(s)]
           /\ \A i \in 0..Len(s) :
                 EndsOf(s)[i] = IF i < Len(s) /\ ValidAt(s, i)
                                THEN EndsOf(s)[i + SequenceLength(At(s, i))] ELSE i
<1> DEFINE n == Len(s)
           V == 0..n
           Goes(i) == i < n /\ ValidAt(s, i)
           stop == {i \in V : ~Goes(i)}
           w == [i \in V |-> i]
           jump == [i \in V |-> i + SequenceLength(At(s, i))]
           step == [p \in V \X V |-> p[2]]
           Is(f) == f = [i \in V |-> IF Goes(i) THEN f[i + SequenceLength(At(s, i))] ELSE i]
<1>1. n \in Nat /\ 0 \in Nat
  BY LenProperties
<1>2. \A i \in V \ stop : jump[i] \in (i + 1)..n
  <2> SUFFICES ASSUME NEW i \in V, Goes(i) PROVE i + SequenceLength(At(s, i)) \in (i + 1)..n
    OBVIOUS
  <2>1. SequenceLength(At(s, i)) \in 1..4 /\ i + SequenceLength(At(s, i)) <= Len(s)
    BY ValidCharacter
  <2> QED BY <2>1, <1>1
<1>3. w \in [V -> V] /\ step \in [V \X V -> V]
  OBVIOUS
<1>4. \E f \in [V -> V] : Follows(0, n, stop, w, jump, step, f)
  <2>1. Jumps(0, n, stop, jump)
    BY <1>2 DEF Jumps
  <2> HIDE DEF stop, w, jump, step, n
  <2> QED BY <1>1, <1>3, <2>1, BackwardRecursion
<1>5. PICK f \in [V -> V] :
         \A i \in V : f[i] = IF i \in stop THEN w[i] ELSE step[<<i, f[jump[i]]>>]
  BY <1>4 DEF Follows
<1>6. ASSUME NEW i \in V
      PROVE  f[i] = IF Goes(i) THEN f[i + SequenceLength(At(s, i))] ELSE i
  <2>1. CASE i \in stop
    BY <1>5, <2>1
  <2>2. CASE i \notin stop
    <3>1. jump[i] \in V
      BY <1>2, <2>2, <1>1
    <3>2. f[jump[i]] \in V
      BY <3>1, <1>5
    <3>3. step[<<i, f[jump[i]]>>] = f[jump[i]]
      BY <3>2
    <3> QED BY <1>5, <2>2, <3>3
  <2> QED BY <2>1, <2>2
<1>7. Is(f)
  BY <1>5, <1>6
<1> HIDE DEF stop, w, jump, step
<1>8. Is(CHOOSE g : Is(g))
  BY <1>7, Zenon
<1>9. EndsOf(s) = CHOOSE g : Is(g)
  BY DEF EndsOf
<1> DEFINE e == EndsOf(s)
<1>10. e = [i \in V |-> IF Goes(i) THEN e[i + SequenceLength(At(s, i))] ELSE i]
  BY <1>8, <1>9
<1> HIDE DEF e
<1>11. ASSUME NEW i \in V, \A j \in (i + 1)..n : j \in {k \in V : e[k] \in V}
       PROVE  i \in {k \in V : e[k] \in V}
  <2>1. CASE Goes(i)
    <3>1. jump[i] = i + SequenceLength(At(s, i)) /\ jump[i] \in (i + 1)..n
      BY <1>2, <2>1 DEF jump, stop
    <3>2. e[i] = e[jump[i]]
      BY <1>10, <2>1, <3>1
    <3> QED BY <1>11, <3>1, <3>2
  <2>2. CASE ~Goes(i)
    BY <1>10, <2>2
  <2> QED BY <2>1, <2>2
<1>12. \A i \in V : i \in {k \in V : e[k] \in V}
  <2> HIDE DEF n
  <2> QED BY <1>1, <1>11, BackwardInduction
<1>13. e \in [V -> V]
  BY <1>10, <1>12
<1>14. \A i \in V : e[i] = IF Goes(i) THEN e[i + SequenceLength(At(s, i))] ELSE i
  BY <1>10
<1> QED BY <1>13, <1>14 DEF e

\* The position behind the character at i.
Behind(s, i) == i + SequenceLength(At(s, i))

(* The bytes of a concatenation and of the end of a sequence.                 *)
LEMMA ConcatAt ==
    ASSUME NEW s \in Seq(0..255), NEW t \in Seq(0..255)
    PROVE  /\ s \o t \in Seq(0..255) /\ Len(s \o t) = Len(s) + Len(t)
           /\ \A i \in Nat : At(s \o t, i) = IF i < Len(s) THEN At(s, i) ELSE At(t, i - Len(s))
<1> DEFINE u == s \o t
<1>1. Len(s) \in Nat /\ Len(t) \in Nat
  BY LenProperties
<1>2. /\ u \in Seq(0..255) /\ Len(u) = Len(s) + Len(t)
      /\ \A i \in 1..(Len(s) + Len(t)) : u[i] = IF i <= Len(s) THEN s[i] ELSE t[i - Len(s)]
  BY ConcatProperties
<1> HIDE DEF u
<1>3. ASSUME NEW i \in Nat
      PROVE  At(u, i) = IF i < Len(s) THEN At(s, i) ELSE At(t, i - Len(s))
  <2>1. CASE i < Len(s)
    <3>1. i + 1 \in 1..(Len(s) + Len(t)) /\ i + 1 <= Len(s) /\ i < Len(u)
      BY <2>1, <1>1, <1>2
    <3>2. u[i + 1] = s[i + 1]
      BY <3>1, <1>2
    <3> QED BY <2>1, <3>1, <3>2 DEF At
  <2>2. CASE ~(i < Len(s)) /\ i < Len(u)
    <3>1. /\ i + 1 \in 1..(Len(s) + Len(t)) /\ ~(i + 1 <= Len(s)) /\ i - Len(s) < Len(t)
          /\ i + 1 - Len(s) = i - Len(s) + 1
      BY <2>2, <1>1, <1>2
    <3>2. u[i + 1] = t[i + 1 - Len(s)]
      BY <3>1, <1>2
    <3> QED BY <2>2, <3>1, <3>2 DEF At
  <2>3. CASE ~(i < Len(s)) /\ ~(i < Len(u))
    <3>1. ~(i - Len(s) < Len(t))
      BY <2>3, <1>1, <1>2
    <3> QED BY <2>3, <3>1 DEF At
  <2> QED BY <2>1, <2>2, <2>3
<1> QED BY <1>2, <1>3 DEF u

LEMMA SuffixAt ==
    ASSUME NEW s \in Seq(0..255), NEW a \in 0..Len(s)
    PROVE  /\ Slice(s, a, Len(s)) \in Seq(0..255) /\ Len(Slice(s, a, Len(s))) = Len(s) - a
           /\ \A k \in Nat : At(Slice(s, a, Len(s)), k) = At(s, a + k)
<1> DEFINE z == Slice(s, a, Len(s))
<1>1. Len(s) \in Nat /\ a \in Nat /\ Len(s) \in a..Len(s)
  BY LenProperties
<1>2. z \in Seq(0..255) /\ Len(z) = Len(s) - a /\ \A k \in 1..(Len(s) - a) : z[k] = At(s, a + k - 1)
  BY <1>1, SliceOf
<1> HIDE DEF z
<1>3. ASSUME NEW k \in Nat PROVE At(z, k) = At(s, a + k)
  <2>1. CASE k < Len(z)
    <3>1. k + 1 \in 1..(Len(s) - a) /\ a + (k + 1) - 1 = a + k
      BY <2>1, <1>1, <1>2
    <3>2. z[k + 1] = At(s, a + (k + 1) - 1)
      BY <3>1, <1>2
    <3> QED BY <2>1, <3>1, <3>2 DEF At
  <2>2. CASE ~(k < Len(z))
    <3>1. ~(a + k < Len(s))
      BY <2>2, <1>1, <1>2
    <3> QED BY <2>2, <3>1 DEF At
  <2> QED BY <2>1, <2>2
<1> QED BY <1>2, <1>3 DEF z

(* Sequences with the same bytes are the same.                                *)
LEMMA SameBytes ==
    ASSUME NEW s \in Seq(0..255), NEW t \in Seq(0..255), Len(s) = Len(t),
           \A i \in Nat : i < Len(s) => At(s, i) = At(t, i)
    PROVE  s = t
<1>1. ASSUME NEW i \in 1..Len(s) PROVE s[i] = t[i]
  <2>1. i - 1 \in Nat /\ i - 1 < Len(s) /\ i - 1 + 1 = i
    BY LenProperties
  <2>2. At(s, i - 1) = At(t, i - 1)
    BY <2>1
  <2> QED BY <2>1, <2>2 DEF At
<1> QED BY <1>1, SeqEqual

(* A character is the same wherever its bytes are.                            *)
SameAt(s, i, t, j) ==
    /\ At(s, i) = At(t, j)
    /\ \A k \in 1..(SequenceLength(At(s, i)) - 1) : At(s, i + k) = At(t, j + k)

LEMMA SameCharacter ==
    ASSUME NEW s \in Seq(0..255), NEW t \in Seq(0..255), NEW i \in Nat, NEW j \in Nat,
           SameAt(s, i, t, j),
           i + SequenceLength(At(s, i)) <= Len(s) <=> j + SequenceLength(At(s, i)) <= Len(t)
    PROVE  /\ CodeAt(s, i) = CodeAt(t, j)
           /\ ValidAt(s, i) <=> ValidAt(t, j)
<1> DEFINE b == At(s, i)
           n == SequenceLength(b)
<1>1. At(t, j) = b /\ \A k \in 1..(n - 1) : At(s, i + k) = At(t, j + k)
  BY DEF SameAt
<1>2. n \in {0, 1, 2, 3, 4}
  BY DEF SequenceLength
<1>3. CodeAt(s, i) = CodeAt(t, j)
  <2>1. CASE n = 2
    <3>1. At(s, i + 1) = At(t, j + 1)
      BY <1>1, <2>1
    <3>2. CodeAt(s, i) = ((b * 64) % 2048) + (At(s, i + 1) % 64)
      BY <2>1 DEF CodeAt
    <3>3. CodeAt(t, j) = ((b * 64) % 2048) + (At(t, j + 1) % 64)
      BY <2>1, <1>1 DEF CodeAt
    <3> QED BY <3>1, <3>2, <3>3
  <2>2. CASE n = 3
    <3>1. At(s, i + 1) = At(t, j + 1) /\ At(s, i + 2) = At(t, j + 2)
      BY <1>1, <2>2
    <3>2. CodeAt(s, i) = ((b * 4096) % 65536) + (At(s, i + 1) % 64) * 64 + (At(s, i + 2) % 64)
      BY <2>2 DEF CodeAt
    <3>3. CodeAt(t, j) = ((b * 4096) % 65536) + (At(t, j + 1) % 64) * 64 + (At(t, j + 2) % 64)
      BY <2>2, <1>1 DEF CodeAt
    <3> QED BY <3>1, <3>2, <3>3
  <2>3. CASE n = 4
    <3>1. /\ At(s, i + 1) = At(t, j + 1) /\ At(s, i + 2) = At(t, j + 2)
          /\ At(s, i + 3) = At(t, j + 3)
      BY <1>1, <2>3
    <3>2. CodeAt(s, i) = ((b * 262144) % 2097152) + (At(s, i + 1) % 64) * 4096
                         + (At(s, i + 2) % 64) * 64 + (At(s, i + 3) % 64)
      BY <2>3 DEF CodeAt
    <3>3. CodeAt(t, j) = ((b * 262144) % 2097152) + (At(t, j + 1) % 64) * 4096
                         + (At(t, j + 2) % 64) * 64 + (At(t, j + 3) % 64)
      BY <2>3, <1>1 DEF CodeAt
    <3> QED BY <3>1, <3>2, <3>3
  <2>4. CASE n \notin {2, 3, 4}
    <3>1. CodeAt(s, i) = b
      BY <2>4 DEF CodeAt
    <3>2. CodeAt(t, j) = b
      BY <2>4, <1>1 DEF CodeAt
    <3> QED BY <3>1, <3>2
  <2> HIDE DEF n, b
  <2> QED BY <2>1, <2>2, <2>3, <2>4
<1>4. (\A k \in 1..(n - 1) : IsTrail(At(s, i + k))) <=> \A k \in 1..(n - 1) : IsTrail(At(t, j + k))
  BY <1>1
<1>5. /\ ValidAt(s, i) <=> /\ n > 0 /\ i + n <= Len(s)
                           /\ \A k \in 1..(n - 1) : IsTrail(At(s, i + k))
                           /\ CodePointValid(CodeAt(s, i)) /\ CodeSize(CodeAt(s, i)) = n
  BY DEF ValidAt
<1>6. /\ ValidAt(t, j) <=> /\ n > 0 /\ j + n <= Len(t)
                           /\ \A k \in 1..(n - 1) : IsTrail(At(t, j + k))
                           /\ CodePointValid(CodeAt(t, j)) /\ CodeSize(CodeAt(t, j)) = n
  BY <1>1 DEF ValidAt
<1>7. i + n <= Len(s) <=> j + n <= Len(t)
  OBVIOUS
<1> HIDE DEF n, b
<1> QED BY <1>3, <1>4, <1>5, <1>6, <1>7, Zenon

-----------------------------------------------------------------------------
(* What a machine is in after it has read a sequence.                        *)

Runs(step, v0, z) ==
    CHOOSE at : at = [i \in 0..Len(z) |-> IF i = 0 THEN v0 ELSE step[<<at[i - 1], z[i]>>]]
Run(step, v0, z) == Runs(step, v0, z)[Len(z)]

Reads(step, v0, z, V, f) ==
    /\ f \in [0..Len(z) -> V] /\ f[0] = v0
    /\ \A i \in 1..Len(z) : f[i] = step[<<f[i - 1], z[i]>>]

LEMMA RunsAre ==
    ASSUME NEW V, NEW X, NEW v0 \in V, NEW step \in [V \X X -> V], NEW z \in Seq(X)
    PROVE  Reads(step, v0, z, V, Runs(step, v0, z))
<1> DEFINE n == Len(z)
           next == [p \in (1..n) \X V |-> step[<<p[2], z[p[1]]>>]]
           Is(f) == f = [i \in 0..n |-> IF i = 0 THEN v0 ELSE step[<<f[i - 1], z[i]>>]]
<1>1. n \in Nat
  OBVIOUS
<1>2. \A i \in 1..n : z[i] \in X
  BY ElementOfSeq
<1>3. next \in [(1..n) \X V -> V]
  <2>1. ASSUME NEW p \in (1..n) \X V PROVE step[<<p[2], z[p[1]]>>] \in V
    <3>1. p[2] \in V /\ z[p[1]] \in X
      BY <1>2
    <3> QED BY <3>1
  <2> QED BY <2>1
<1>4. \A i \in 1..n, v \in V : next[<<i, v>>] = step[<<v, z[i]>>]
  OBVIOUS
<1> HIDE DEF n, next
<1>5. PICK f \in [0..n -> V] : Iterates(n, v0, next, f)
  BY <1>1, <1>3, ForwardRecursion
<1>6. Is(f)
  <2>1. ASSUME NEW i \in 0..n PROVE f[i] = IF i = 0 THEN v0 ELSE step[<<f[i - 1], z[i]>>]
    <3>1. CASE i = 0
      BY <3>1, <1>5 DEF Iterates
    <3>2. CASE i # 0
      <4>1. i \in 1..n /\ i - 1 \in 0..n
        BY <1>1, <3>2
      <4>2. f[i] = next[<<i, f[i - 1]>>] /\ f[i - 1] \in V
        BY <4>1, <1>5 DEF Iterates
      <4> QED BY <4>1, <4>2, <1>4, <3>2
    <3> QED BY <3>1, <3>2
  <2> QED BY <2>1, <1>5
<1>7. Is(CHOOSE g : Is(g))
  <2> HIDE DEF Is
  <2> QED BY <1>6, Zenon
<1>8. Is(Runs(step, v0, z))
  BY <1>7 DEF Runs, n
<1> DEFINE r == Runs(step, v0, z)
<1>9. r = [i \in 0..n |-> IF i = 0 THEN v0 ELSE step[<<r[i - 1], z[i]>>]]
  BY <1>8
<1> HIDE DEF r
<1>10. r[0] = v0
  BY <1>1, <1>9
<1>11. ASSUME NEW i \in 1..n PROVE r[i] = step[<<r[i - 1], z[i]>>]
  BY <1>1, <1>9
<1>12. r \in [0..n -> V]
  <2> DEFINE S == {i \in Nat : i <= n => r[i] \in V}
  <2>1. 0 \in S
    BY <1>10
  <2>2. ASSUME NEW i \in Nat, i \in S PROVE i + 1 \in S
    <3> SUFFICES ASSUME i + 1 <= n PROVE r[i + 1] \in V
      OBVIOUS
    <3>1. i + 1 \in 1..n /\ (i + 1) - 1 = i /\ r[i] \in V
      BY <2>2, <1>1
    <3>2. r[i + 1] = step[<<r[i], z[i + 1]>>]
      BY <3>1, <1>11
    <3> QED BY <3>1, <3>2, <1>2
  <2> HIDE DEF S
  <2>3. \A i \in Nat : i \in S
    BY <2>1, <2>2, SimpleInduction
  <2>4. \A i \in 0..n : r[i] \in V
    BY <2>3, <1>1 DEF S
  <2>5. r = [i \in 0..n |-> r[i]]
    BY <1>9
  <2> QED BY <2>4, <2>5
<1> QED BY <1>10, <1>11, <1>12 DEF r, n, Reads

LEMMA RunTyped ==
    ASSUME NEW V, NEW X, NEW v0 \in V, NEW step \in [V \X X -> V], NEW z \in Seq(X)
    PROVE  Run(step, v0, z) \in V
<1>1. Reads(step, v0, z, V, Runs(step, v0, z))
  BY RunsAre
<1> QED BY <1>1 DEF Run, Reads

LEMMA RunEmpty ==
    ASSUME NEW V, NEW X, NEW v0 \in V, NEW step \in [V \X X -> V]
    PROVE  Run(step, v0, <<>>) = v0
<1>1. <<>> \in Seq(X) /\ Len(<<>>) = 0
  OBVIOUS
<1>2. Reads(step, v0, <<>>, V, Runs(step, v0, <<>>))
  BY <1>1, RunsAre
<1> QED BY <1>1, <1>2 DEF Run, Reads

\* What was read first leads to where the rest begins.
Continues(step, v0, y, z) == Run(step, v0, y \o z) = Run(step, Run(step, v0, y), z)

LEMMA RunConcat ==
    ASSUME NEW V, NEW X, NEW v0 \in V, NEW step \in [V \X X -> V],
           NEW y \in Seq(X), NEW z \in Seq(X)
    PROVE  Continues(step, v0, y, z)
<1> DEFINE u == y \o z
           v1 == Run(step, v0, y)
           f == Runs(step, v0, u)
           g == Runs(step, v0, y)
           h == Runs(step, v1, z)
           m == Len(y)
           n == Len(z)
<1>1. /\ u \in Seq(X) /\ Len(u) = m + n /\ m \in Nat /\ n \in Nat
      /\ \A i \in 1..m : u[i] = y[i]
      /\ \A i \in 1..n : u[m + i] = z[i]
  BY ConcatProperties
<1>2. v1 \in V
  BY RunTyped
<1>3. v1 = g[m]
  BY DEF Run
<1> HIDE DEF u, v1
<1>41. Reads(step, v0, u, V, f) /\ Reads(step, v0, y, V, g) 
  BY <1>1, RunsAre
<1>42. Reads(step, v1, z, V, h)
  BY <1>2, RunsAre
<1>4. /\ f \in [0..Len(u) -> V] /\ f[0] = v0
      /\ \A i \in 1..Len(u) : f[i] = step[<<f[i - 1], u[i]>>]
  BY <1>41 DEF Reads
<1>5. /\ g \in [0..m -> V] /\ g[0] = v0
      /\ \A i \in 1..m : g[i] = step[<<g[i - 1], y[i]>>]
  BY <1>41 DEF Reads
<1>6. /\ h \in [0..n -> V] /\ h[0] = v1
      /\ \A i \in 1..n : h[i] = step[<<h[i - 1], z[i]>>]
  BY <1>42 DEF Reads
<1>0. /\ Run(step, v0, u) = f[Len(u)]
      /\ Run(step, v1, z) = h[n]
  BY DEF Run
<1> HIDE DEF f, g, h, m, n
<1>7. f[m] = g[m]
  <2> DEFINE S == {i \in Nat : i <= m => f[i] = g[i]}
  <2>1. 0 \in S
    BY <1>4, <1>5
  <2>2. ASSUME NEW i \in Nat, i \in S PROVE i + 1 \in S
    <3> SUFFICES ASSUME i + 1 <= m PROVE f[i + 1] = g[i + 1]
      OBVIOUS
    <3>1. i + 1 \in 1..m /\ i + 1 \in 1..Len(u) /\ (i + 1) - 1 = i /\ f[i] = g[i]
      BY <2>2, <1>1
    <3>2. f[i + 1] = step[<<f[i], u[i + 1]>>]
      BY <3>1, <1>4
    <3>3. g[i + 1] = step[<<g[i], y[i + 1]>>]
      BY <3>1, <1>5
    <3>4. u[i + 1] = y[i + 1]
      BY <3>1, <1>1
    <3> QED BY <3>1, <3>2, <3>3, <3>4
  <2> HIDE DEF S
  <2>3. m \in S
    BY <2>1, <2>2, <1>1, SimpleInduction
  <2> QED BY <2>3, <1>1 DEF S
<1>8. f[m + n] = h[n]
  <2> DEFINE S == {i \in Nat : i <= n => f[m + i] = h[i]}
  <2>1. 0 \in S
    BY <1>1, <1>3, <1>6, <1>7
  <2>2. ASSUME NEW i \in Nat, i \in S PROVE i + 1 \in S
    <3> SUFFICES ASSUME i + 1 <= n PROVE f[m + (i + 1)] = h[i + 1]
      OBVIOUS
    <3>1. /\ i + 1 \in 1..n /\ m + (i + 1) \in 1..Len(u) /\ (i + 1) - 1 = i
          /\ (m + (i + 1)) - 1 = m + i /\ f[m + i] = h[i]
      BY <2>2, <1>1
    <3>2. f[m + (i + 1)] = step[<<f[m + i], u[m + (i + 1)]>>]
      BY <3>1, <1>4
    <3>3. u[m + (i + 1)] = z[i + 1]
      BY <3>1, <1>1
    <3>4. h[i + 1] = step[<<h[i], z[i + 1]>>]
      BY <3>1, <1>6
    <3> QED BY <3>1, <3>2, <3>3, <3>4
  <2> HIDE DEF S
  <2>3. n \in S
    BY <2>1, <2>2, <1>1, SimpleInduction
  <2> QED BY <2>3, <1>1 DEF S
<1>9. Run(step, v0, u) = Run(step, v1, z)
  BY <1>0, <1>1, <1>8
<1> QED BY <1>9 DEF u, v1, Continues

LEMMA RunOne ==
    ASSUME NEW V, NEW X, NEW v0 \in V, NEW step \in [V \X X -> V], NEW x \in X
    PROVE  Run(step, v0, <<x>>) = step[<<v0, x>>]
<1>1. <<x>> \in Seq(X) /\ Len(<<x>>) = 1 /\ <<x>>[1] = x
  OBVIOUS
<1>2. 1 \in 1..Len(<<x>>) /\ 1 - 1 = 0
  BY <1>1
<1>3. Reads(step, v0, <<x>>, V, Runs(step, v0, <<x>>))
  BY <1>1, RunsAre
<1>4. Runs(step, v0, <<x>>)[1] = step[<<Runs(step, v0, <<x>>)[0], x>>]
  BY <1>1, <1>2, <1>3 DEF Reads
<1> QED BY <1>1, <1>3, <1>4 DEF Run, Reads

\* T: a set of states that no element of z leaves.
Stays(step, T, z) == \A i \in 1..Len(z) : \A v \in T : step[<<v, z[i]>>] \in T

LEMMA RunStays ==
    ASSUME NEW V, NEW X, NEW v0 \in V, NEW step \in [V \X X -> V], NEW z \in Seq(X),
           NEW T, v0 \in T, Stays(step, T, z)
    PROVE  Run(step, v0, z) \in T
<1> DEFINE f == Runs(step, v0, z)
           n == Len(z)
           S == {i \in Nat : i <= n => f[i] \in T}
<1>0. n \in Nat
  OBVIOUS
<1>1. Reads(step, v0, z, V, f)
  BY RunsAre
<1>2. \A i \in 1..n : \A v \in T : step[<<v, z[i]>>] \in T
  BY DEF Stays
<1>3. Run(step, v0, z) = f[n]
  BY DEF Run
<1> HIDE DEF f
<1>11. f[0] = v0 /\ \A i \in 1..n : f[i] = step[<<f[i - 1], z[i]>>]
  BY <1>1 DEF Reads
<1> HIDE DEF n
<1>4. 0 \in S
  BY <1>11
<1>5. ASSUME NEW i \in Nat, i \in S PROVE i + 1 \in S
  <2> SUFFICES ASSUME i + 1 <= n PROVE f[i + 1] \in T
    OBVIOUS
  <2>1. i + 1 \in 1..n /\ (i + 1) - 1 = i /\ f[i] \in T
    BY <1>0, <1>5
  <2> QED BY <2>1, <1>11, <1>2
<1> HIDE DEF S
<1>6. n \in S
  BY <1>0, <1>4, <1>5, SimpleInduction
<1> QED BY <1>0, <1>3, <1>6 DEF S

\* R: a relation between two machines that every element keeps.
Agree(step1, step2, R, X) ==
    \A v1, v2, x : <<v1, v2>> \in R /\ x \in X => <<step1[<<v1, x>>], step2[<<v2, x>>]>> \in R

LEMMA RunTogether ==
    ASSUME NEW V1, NEW V2, NEW X, NEW v1 \in V1, NEW v2 \in V2, NEW z \in Seq(X),
           NEW step1 \in [V1 \X X -> V1], NEW step2 \in [V2 \X X -> V2],
           NEW R, <<v1, v2>> \in R, Agree(step1, step2, R, X)
    PROVE  <<Run(step1, v1, z), Run(step2, v2, z)>> \in R
<1> DEFINE f == Runs(step1, v1, z)
           g == Runs(step2, v2, z)
           n == Len(z)
           S == {i \in Nat : i <= n => <<f[i], g[i]>> \in R}
<1>0. n \in Nat /\ \A i \in 1..n : z[i] \in X
  BY ElementOfSeq
<1>7. Reads(step1, v1, z, V1, f)
  BY RunsAre
<1>8. Reads(step2, v2, z, V2, g)
  BY RunsAre
<1>3. Run(step1, v1, z) = f[n] /\ Run(step2, v2, z) = g[n]
  BY DEF Run
<1> HIDE DEF f, g
<1>1. f[0] = v1 /\ \A i \in 1..n : f[i] = step1[<<f[i - 1], z[i]>>]
  BY <1>7 DEF Reads
<1>2. g[0] = v2 /\ \A i \in 1..n : g[i] = step2[<<g[i - 1], z[i]>>]
  BY <1>8 DEF Reads
<1> HIDE DEF n
<1>4. 0 \in S
  BY <1>1, <1>2
<1>5. ASSUME NEW i \in Nat, i \in S PROVE i + 1 \in S
  <2> SUFFICES ASSUME i + 1 <= n PROVE <<f[i + 1], g[i + 1]>> \in R
    OBVIOUS
  <2>1. i + 1 \in 1..n /\ (i + 1) - 1 = i /\ <<f[i], g[i]>> \in R
    BY <1>0, <1>5
  <2>2. <<step1[<<f[i], z[i + 1]>>], step2[<<g[i], z[i + 1]>>]>> \in R
    BY <2>1, <1>0 DEF Agree
  <2>3. f[i + 1] = step1[<<f[i], z[i + 1]>>] /\ g[i + 1] = step2[<<g[i], z[i + 1]>>]
    BY <2>1, <1>1, <1>2
  <2> QED BY <2>2, <2>3
<1> HIDE DEF S
<1>6. n \in S
  BY <1>0, <1>4, <1>5, SimpleInduction
<1> QED BY <1>0, <1>3, <1>6 DEF S

\* A recursive function that makes the same steps.
Makes(step, v0, z, V, f) ==
    /\ f[0] = v0
    /\ \A i \in 1..Len(z) : f[i - 1] \in V => f[i] = step[<<f[i - 1], z[i]>>]

EndsAsRun(step, v0, z, f) == f[Len(z)] = Run(step, v0, z)

LEMMA RunIs ==
    ASSUME NEW V, NEW X, NEW v0 \in V, NEW step \in [V \X X -> V], NEW z \in Seq(X),
           NEW f, Makes(step, v0, z, V, f)
    PROVE  EndsAsRun(step, v0, z, f)
<1> DEFINE r == Runs(step, v0, z)
           n == Len(z)
           S == {i \in Nat : i <= n => f[i] = r[i]}
<1>0. n \in Nat /\ Run(step, v0, z) = r[n]
  BY DEF Run
<1>3. Reads(step, v0, z, V, r)
  BY RunsAre
<1> HIDE DEF r
<1>1. r \in [0..n -> V] /\ r[0] = v0 /\ \A i \in 1..n : r[i] = step[<<r[i - 1], z[i]>>]
  BY <1>3 DEF Reads
<1>2. f[0] = v0 /\ \A i \in 1..n : f[i - 1] \in V => f[i] = step[<<f[i - 1], z[i]>>]
  BY DEF Makes
<1> HIDE DEF n
<1>4. 0 \in S
  BY <1>1, <1>2
<1>5. ASSUME NEW i \in Nat, i \in S PROVE i + 1 \in S
  <2> SUFFICES ASSUME i + 1 <= n PROVE f[i + 1] = r[i + 1]
    OBVIOUS
  <2>1. i + 1 \in 1..n /\ (i + 1) - 1 = i /\ f[i] = r[i] /\ r[i] \in V
    BY <1>0, <1>1, <1>5
  <2> QED BY <2>1, <1>1, <1>2
<1> HIDE DEF S
<1>6. n \in S
  BY <1>0, <1>4, <1>5, SimpleInduction
<1> QED BY <1>0, <1>6 DEF S, n, EndsAsRun
=============================================================================
