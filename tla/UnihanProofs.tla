---------------------------- MODULE UnihanProofs ----------------------------
(***************************************************************************)
(* Proofs about Unihan, for every dictionary, input and size of buffer.       *)
(***************************************************************************)
EXTENDS Unihan, DataProofs

-----------------------------------------------------------------------------
(* Conversion by a fixed choice f of the targets.                            *)

Target(f, cp) == IF cp \in DOMAIN f /\ f[cp] # 0 THEN f[cp] ELSE cp
Translates(f) == \A cp \in Nat : Target(f, cp) \in Nat

\* The recursive function in Convert.
From(f, s) ==
    CHOOSE from : from = [i \in 0..Len(s) |->
        IF i < Len(s) /\ ValidAt(s, i)
        THEN Encode(Target(f, CodeAt(s, i))) \o from[i + SequenceLength(At(s, i))]
        ELSE <<>>]

LEMMA ConvertIs == \A s : Convert(s) = From(pick, s)[0]
BY DEF Convert, From, Converted, Lookup, Target

LEMMA Associates ==
    ASSUME NEW x \in Seq(Nat), NEW y \in Seq(Nat), NEW z \in Seq(Nat)
    PROVE  (x \o y) \o z = x \o (y \o z)
BY ConcatAssociative

LEMMA BytesAssociate ==
    ASSUME NEW x \in Seq(0..255), NEW y \in Seq(0..255), NEW z \in Seq(0..255)
    PROVE  (x \o y) \o z = x \o (y \o z)
BY ConcatAssociative

LEMMA EncodeBytes == ASSUME NEW cp \in Nat PROVE Encode(cp) \in Seq(Nat)
<1>1. \A d \in {1, 64, 4096} : 128 + ((cp \div d) % 64) \in Nat
  OBVIOUS
<1>2. cp \div 64 \in Nat /\ cp \div 4096 \in Nat /\ cp \div 262144 \in Nat
  OBVIOUS
<1> QED BY <1>1, <1>2 DEF Encode

LEMMA FromIs ==
    ASSUME NEW s \in Seq(0..255), NEW f, Translates(f)
    PROVE  /\ From(f, s) \in [0..Len(s) -> Seq(Nat)]
           /\ \A i \in 0..Len(s) :
                 From(f, s)[i] = IF i < Len(s) /\ ValidAt(s, i)
                                 THEN Encode(Target(f, CodeAt(s, i))) \o From(f, s)[Behind(s, i)]
                                 ELSE <<>>
<1> DEFINE n == Len(s)
           D == 0..n
           Goes(i) == i < n /\ ValidAt(s, i)
           e(i) == Encode(Target(f, CodeAt(s, i)))
           stop == {i \in D : ~Goes(i)}
           w == [i \in D |-> <<>>]
           jump == [i \in D |-> Behind(s, i)]
           step == [p \in D \X Seq(Nat) |-> IF Goes(p[1]) THEN e(p[1]) \o p[2] ELSE <<>>]
           Is(g) == g = [i \in D |-> IF Goes(i) THEN e(i) \o g[i + SequenceLength(At(s, i))]
                                     ELSE <<>>]
<1>1. n \in Nat /\ 0 \in Nat /\ <<>> \in Seq(Nat)
  BY LenProperties
<1>2. \A i \in D \ stop : jump[i] \in (i + 1)..n
  <2> SUFFICES ASSUME NEW i \in D, Goes(i) PROVE Behind(s, i) \in (i + 1)..n
    OBVIOUS
  <2>1. SequenceLength(At(s, i)) \in 1..4 /\ i + SequenceLength(At(s, i)) <= Len(s)
    BY ValidCharacter
  <2> QED BY <2>1, <1>1 DEF Behind
<1>3. \A i \in D : e(i) \in Seq(Nat)
  <2> SUFFICES ASSUME NEW i \in D PROVE e(i) \in Seq(Nat)
    OBVIOUS
  <2>1. Target(f, CodeAt(s, i)) \in Nat
    BY CodeAtNat DEF Translates
  <2> QED BY <2>1, EncodeBytes
<1> HIDE DEF e
<1>4. w \in [D -> Seq(Nat)] /\ step \in [D \X Seq(Nat) -> Seq(Nat)]
  <2>1. \A i \in D, v \in Seq(Nat) : (IF Goes(i) THEN e(i) \o v ELSE <<>>) \in Seq(Nat)
    BY <1>1, <1>3, ConcatProperties
  <2> HIDE DEF Goes, D
  <2> QED BY <2>1, <1>1
<1>5. \E g \in [D -> Seq(Nat)] : Follows(0, n, stop, w, jump, step, g)
  <2>1. Jumps(0, n, stop, jump)
    BY <1>2 DEF Jumps
  <2> HIDE DEF stop, w, jump, step, n
  <2> QED BY <1>1, <1>4, <2>1, BackwardRecursion
<1>6. PICK g \in [D -> Seq(Nat)] :
         \A i \in D : g[i] = IF i \in stop THEN w[i] ELSE step[<<i, g[jump[i]]>>]
  BY <1>5 DEF Follows
<1>7. ASSUME NEW i \in D
      PROVE  g[i] = IF Goes(i) THEN e(i) \o g[i + SequenceLength(At(s, i))] ELSE <<>>
  <2>1. CASE i \in stop
    <3>1. ~Goes(i) /\ w[i] = <<>>
      BY <2>1
    <3> HIDE DEF stop, w, Goes
    <3> QED BY <1>6, <2>1, <3>1
  <2>2. CASE i \notin stop
    <3>1. jump[i] \in D /\ jump[i] = i + SequenceLength(At(s, i)) /\ Goes(i)
      BY <1>2, <2>2, <1>1 DEF Behind
    <3>2. g[jump[i]] \in Seq(Nat)
      BY <3>1, <1>6
    <3>3. <<i, g[jump[i]]>> \in D \X Seq(Nat)
      BY <3>2
    <3>4. step[<<i, g[jump[i]]>>] = e(i) \o g[jump[i]]
      <4> HIDE DEF Goes, D, jump
      <4> QED BY <3>1, <3>3
    <3> HIDE DEF stop, w, Goes, step, jump
    <3> QED BY <1>6, <2>2, <3>1, <3>4
  <2> QED BY <2>1, <2>2
<1> HIDE DEF stop, w, jump, step, Goes
<1>8. Is(g)
  BY <1>6, <1>7
<1>9. Is(CHOOSE h : Is(h))
  BY <1>8, Zenon
<1>10. From(f, s) = CHOOSE h : Is(h)
  BY DEF From, Goes, e
<1> DEFINE h == From(f, s)
<1>11. h = [i \in D |-> IF Goes(i) THEN e(i) \o h[i + SequenceLength(At(s, i))] ELSE <<>>]
  BY <1>9, <1>10
<1> HIDE DEF h
<1>12. ASSUME NEW i \in D
       PROVE  h[i] = IF Goes(i) THEN e(i) \o h[i + SequenceLength(At(s, i))] ELSE <<>>
  BY <1>11
<1> DEFINE S == {i \in Nat : h[i] \in Seq(Nat)}
<1>13. ASSUME NEW i \in 0..n, \A j \in (i + 1)..n : j \in S PROVE i \in S
  <2>1. CASE Goes(i)
    <3>1. Behind(s, i) \in (i + 1)..n
      BY <1>2, <2>1 DEF stop, jump
    <3>2. h[Behind(s, i)] \in Seq(Nat)
      BY <3>1, <1>13
    <3>3. h[i] = e(i) \o h[Behind(s, i)]
      BY <1>12, <2>1 DEF Behind
    <3>4. e(i) \o h[Behind(s, i)] \in Seq(Nat)
      BY <1>3, <3>2, ConcatProperties
    <3>5. h[i] \in Seq(Nat) /\ i \in Nat
      BY <3>3, <3>4
    <3> QED BY <3>5
  <2>2. CASE ~Goes(i)
    <3>1. h[i] = <<>>
      BY <1>12, <2>2
    <3>2. h[i] \in Seq(Nat) /\ i \in Nat
      BY <3>1, <1>1
    <3> QED BY <3>2
  <2> QED BY <2>1, <2>2
<1>14. \A i \in 0..n : i \in S
  <2> HIDE DEF S, n
  <2> QED BY <1>1, <1>13, BackwardInduction
<1>15. h \in [D -> Seq(Nat)]
  <2>1. \A i \in D : h[i] \in Seq(Nat)
    BY <1>14
  <2> HIDE DEF D
  <2> QED BY <2>1, <1>11
<1> QED BY <1>12, <1>15 DEF h, Goes, e, Behind

-----------------------------------------------------------------------------
(* Cuts.                                                                     *)

\* What follows a position is converted as if nothing stood before it.
LEMMA OfSuffix ==
    ASSUME NEW u \in Seq(0..255), NEW a \in 0..Len(u), NEW f, Translates(f)
    PROVE  LET r == Slice(u, a, Len(u)) IN
           \A k \in 0..Len(r) : /\ EndsOf(u)[a + k] = a + EndsOf(r)[k]
                                /\ From(f, u)[a + k] = From(f, r)[k]
<1> DEFINE r == Slice(u, a, Len(u))
<1>1. /\ Len(u) \in Nat /\ a \in Nat
      /\ r \in Seq(0..255) /\ Len(r) = Len(u) - a /\ \A k \in Nat : At(r, k) = At(u, a + k)
  BY LenProperties, SuffixAt
<1> HIDE DEF r
<1> DEFINE n == Len(r)
           S == {k \in 0..n : /\ EndsOf(u)[a + k] = a + EndsOf(r)[k]
                              /\ From(f, u)[a + k] = From(f, r)[k]}
<1>2. n \in Nat /\ n = Len(u) - a /\ Len(u) \in Nat /\ a \in Nat
  BY <1>1
<1> HIDE DEF n
<1>n. Len(r) = n
  BY DEF n
<1>3. ASSUME NEW k \in 0..n, \A j \in (k + 1)..n : j \in S PROVE k \in S
  <2>1. a + k \in 0..Len(u) /\ k \in Nat /\ a + k \in Nat
    BY <1>1, <1>2
  <2>2. SequenceLength(At(r, k)) \in 0..4
    BY <1>1, <2>1, ByteAt, LeadByte
  <2>3. SameAt(r, k, u, a + k)
    <3>1. At(r, k) = At(u, a + k)
      BY <1>1, <2>1
    <3>2. ASSUME NEW i \in 1..(SequenceLength(At(r, k)) - 1)
          PROVE  At(r, k + i) = At(u, (a + k) + i)
      <4>1. k + i \in Nat /\ a + (k + i) = (a + k) + i
        BY <2>1, <2>2, <1>1
      <4> QED BY <4>1, <1>1
    <3> QED BY <3>1, <3>2 DEF SameAt
  <2>4. /\ CodeAt(r, k) = CodeAt(u, a + k) /\ (ValidAt(r, k) <=> ValidAt(u, a + k))
        /\ At(r, k) = At(u, a + k)
    <3>1. \A m \in 0..4 : k + m <= n <=> (a + k) + m <= Len(u)
      BY <1>2, <2>1
    <3>2. k + SequenceLength(At(r, k)) <= Len(r) <=> (a + k) + SequenceLength(At(r, k)) <= Len(u)
      BY <3>1, <1>n, <2>2
    <3> QED BY <1>1, <2>1, <2>3, <3>2, SameCharacter DEF SameAt
  <2>5. k < Len(r) <=> a + k < Len(u)
    <3>1. k < n <=> a + k < Len(u)
      BY <1>2, <2>1
    <3> QED BY <3>1, <1>n
  <2>6. /\ EndsOf(u)[a + k] = IF a + k < Len(u) /\ ValidAt(u, a + k)
                              THEN EndsOf(u)[(a + k) + SequenceLength(At(u, a + k))] ELSE a + k
        /\ From(f, u)[a + k] = IF a + k < Len(u) /\ ValidAt(u, a + k)
                               THEN Encode(Target(f, CodeAt(u, a + k))) \o From(f, u)[Behind(u, a + k)]
                               ELSE <<>>
    BY <2>1, EndsOfIs, FromIs
  <2>7. /\ EndsOf(r)[k] = IF k < Len(r) /\ ValidAt(r, k)
                          THEN EndsOf(r)[k + SequenceLength(At(r, k))] ELSE k
        /\ From(f, r)[k] = IF k < Len(r) /\ ValidAt(r, k)
                           THEN Encode(Target(f, CodeAt(r, k))) \o From(f, r)[Behind(r, k)]
                           ELSE <<>>
    <3>1. k \in 0..Len(r)
      BY DEF n
    <3> QED BY <3>1, <1>1, EndsOfIs, FromIs
  <2>8. CASE k < Len(r) /\ ValidAt(r, k)
    <3> DEFINE m == SequenceLength(At(r, k))
    <3>1. m \in 1..4 /\ k + m <= Len(r)
      BY <1>1, <2>1, <2>8, ValidCharacter
    <3>2. k + m \in (k + 1)..n
      <4> HIDE DEF m
      <4>1. m \in 1..4 /\ k + m <= n
        BY <3>1, <1>n
      <4> QED BY <4>1, <1>2, <2>1
    <3>3. Behind(r, k) = k + m /\ Behind(u, a + k) = (a + k) + m
      BY <2>4 DEF Behind
    <3> HIDE DEF m
    <3>4. (a + k) + m = a + (k + m)
      BY <3>1, <1>1, <2>1
    <3>5. /\ EndsOf(u)[a + (k + m)] = a + EndsOf(r)[k + m]
          /\ From(f, u)[a + (k + m)] = From(f, r)[k + m]
      BY <1>3, <3>2
    <3>6. EndsOf(u)[a + k] = EndsOf(u)[(a + k) + m] /\ EndsOf(r)[k] = EndsOf(r)[k + m]
      BY <2>4, <2>5, <2>6, <2>7, <2>8 DEF m
    <3>7. /\ From(f, u)[a + k] = Encode(Target(f, CodeAt(r, k))) \o From(f, u)[(a + k) + m]
          /\ From(f, r)[k] = Encode(Target(f, CodeAt(r, k))) \o From(f, r)[k + m]
      BY <2>4, <2>5, <2>6, <2>7, <2>8, <3>3
    <3> QED BY <3>4, <3>5, <3>6, <3>7
  <2>9. CASE ~(k < Len(r) /\ ValidAt(r, k))
    <3>1. /\ EndsOf(u)[a + k] = a + k /\ EndsOf(r)[k] = k
          /\ From(f, u)[a + k] = <<>> /\ From(f, r)[k] = <<>>
      BY <2>4, <2>5, <2>6, <2>7, <2>9
    <3> QED BY <3>1
  <2> QED BY <2>8, <2>9
<1>4. \A k \in 0..n : k \in S
  <2> HIDE DEF S
  <2>1. 0 \in Nat
    OBVIOUS
  <2> QED BY <1>2, <1>3, <2>1, BackwardInduction
<1> QED BY <1>4 DEF n, r

CarriesOver(f, s, t, e) ==
    \A i \in 0..Len(s) :
        EndsOf(s)[i] = e => /\ EndsOf(s \o t)[i] = EndsOf(s \o t)[e]
                            /\ From(f, s \o t)[i] = From(f, s)[i] \o From(f, s \o t)[e]

\* What stands before the first invalid character is converted in the same way
\* whatever follows it.
LEMMA OfPrefix ==
    ASSUME NEW s \in Seq(0..255), NEW t \in Seq(0..255), NEW f, Translates(f),
           NEW e \in 0..Len(s)
    PROVE  CarriesOver(f, s, t, e)
<1> DEFINE u == s \o t
           n == Len(s)
           S == {i \in 0..n : EndsOf(s)[i] = e =>
                                 /\ EndsOf(u)[i] = EndsOf(u)[e]
                                 /\ From(f, u)[i] = From(f, s)[i] \o From(f, u)[e]}
<1>1. /\ n \in Nat /\ Len(t) \in Nat /\ u \in Seq(0..255) /\ Len(u) = n + Len(t)
      /\ \A i \in Nat : i < n => At(u, i) = At(s, i)
  BY LenProperties, ConcatAt
<1> HIDE DEF u
<1>2. From(f, u)[e] \in Seq(Nat)
  <2>1. e \in 0..Len(u)
    BY <1>1
  <2> QED BY <2>1, <1>1, FromIs
<1>3. ASSUME NEW i \in 0..n, \A j \in (i + 1)..n : j \in S, EndsOf(s)[i] = e
      PROVE  /\ EndsOf(u)[i] = EndsOf(u)[e]
             /\ From(f, u)[i] = From(f, s)[i] \o From(f, u)[e]
  <2>1. i \in Nat /\ i \in 0..Len(u) /\ i \in 0..Len(s)
    BY <1>1
  <2>2. /\ EndsOf(s)[i] = IF i < Len(s) /\ ValidAt(s, i)
                          THEN EndsOf(s)[i + SequenceLength(At(s, i))] ELSE i
        /\ From(f, s)[i] = IF i < Len(s) /\ ValidAt(s, i)
                           THEN Encode(Target(f, CodeAt(s, i))) \o From(f, s)[Behind(s, i)]
                           ELSE <<>>
    BY <2>1, EndsOfIs, FromIs
  <2>3. /\ EndsOf(u)[i] = IF i < Len(u) /\ ValidAt(u, i)
                          THEN EndsOf(u)[i + SequenceLength(At(u, i))] ELSE i
        /\ From(f, u)[i] = IF i < Len(u) /\ ValidAt(u, i)
                           THEN Encode(Target(f, CodeAt(u, i))) \o From(f, u)[Behind(u, i)]
                           ELSE <<>>
    BY <1>1, <2>1, EndsOfIs, FromIs
  <2>4. CASE i < Len(s) /\ ValidAt(s, i)
    <3> DEFINE m == SequenceLength(At(s, i))
               j == i + m
    <3>1. m \in 1..4 /\ j <= Len(s)
      BY <2>1, <2>4, ValidCharacter
    <3>2. SameAt(s, i, u, i)
      <4>1. At(s, i) = At(u, i)
        BY <1>1, <2>1, <2>4
      <4>2. ASSUME NEW k \in 1..(m - 1) PROVE At(s, i + k) = At(u, i + k)
        <5>1. i + k \in Nat /\ i + k < n
          BY <3>1, <2>1, <1>1
        <5> QED BY <5>1, <1>1
      <4> QED BY <4>1, <4>2 DEF SameAt
    <3>3. CodeAt(s, i) = CodeAt(u, i) /\ ValidAt(u, i) /\ At(s, i) = At(u, i) /\ i < Len(u)
      <4>1. i + m <= Len(u) /\ i < Len(u)
        BY <3>1, <2>4, <1>1, <2>1
      <4> QED BY <4>1, <3>1, <3>2, <2>1, <2>4, <1>1, SameCharacter DEF SameAt
    <3>4. j \in (i + 1)..n
      BY <3>1, <2>1, <1>1
    <3>5. Behind(s, i) = j /\ Behind(u, i) = j
      BY <3>3 DEF Behind
    <3>6. EndsOf(s)[j] = e /\ EndsOf(u)[i] = EndsOf(u)[j]
      BY <1>3, <2>2, <2>3, <2>4, <3>3
    <3> DEFINE x == Encode(Target(f, CodeAt(s, i)))
    <3>7. From(f, s)[i] = x \o From(f, s)[j] /\ From(f, u)[i] = x \o From(f, u)[j]
      BY <2>2, <2>3, <2>4, <3>3, <3>5
    <3>8. x \in Seq(Nat)
      <4>1. Target(f, CodeAt(s, i)) \in Nat
        BY <2>1, CodeAtNat DEF Translates
      <4> QED BY <4>1, EncodeBytes
    <3>9. From(f, s)[j] \in Seq(Nat)
      <4>1. j \in 0..Len(s)
        BY <3>4, <2>1, <1>1
      <4> QED BY <4>1, FromIs
    <3> HIDE DEF x, j, m, n
    <3>10. /\ EndsOf(u)[j] = EndsOf(u)[e]
           /\ From(f, u)[j] = From(f, s)[j] \o From(f, u)[e]
      BY <1>3, <3>4, <3>6
    <3>11. x \o (From(f, s)[j] \o From(f, u)[e]) = (x \o From(f, s)[j]) \o From(f, u)[e]
      BY <3>8, <3>9, <1>2, Associates
    <3> QED BY <3>6, <3>7, <3>10, <3>11
  <2>5. CASE ~(i < Len(s) /\ ValidAt(s, i))
    <3>1. i = e /\ From(f, s)[i] = <<>>
      BY <1>3, <2>2, <2>5
    <3>2. <<>> \o From(f, u)[e] = From(f, u)[e]
      BY <1>2, ConcatEmptySeq
    <3> QED BY <3>1, <3>2
  <2> QED BY <2>4, <2>5
<1>4. ASSUME NEW i \in 0..n, \A j \in (i + 1)..n : j \in S PROVE i \in S
  BY <1>3, <1>4
<1>5. \A i \in 0..n : i \in S
  <2> HIDE DEF S, n
  <2>1. 0 \in Nat
    OBVIOUS
  <2> QED BY <1>1, <1>4, <2>1, BackwardInduction
<1> QED BY <1>5 DEF u, CarriesOver

\* Converting in two pieces, with what the first one leaves over put in front of
\* the second.
LEMMA Cut ==
    ASSUME NEW s \in Seq(0..255), NEW t \in Seq(0..255), NEW f, Translates(f)
    PROVE  /\ Rest(s) \in Seq(0..255) /\ Len(Rest(s)) <= Len(s)
           /\ From(f, s)[0] \in Seq(Nat)
           /\ From(f, s \o t)[0] = From(f, s)[0] \o From(f, Rest(s) \o t)[0]
           /\ Rest(s \o t) = Rest(Rest(s) \o t)
<1> DEFINE u == s \o t
           e == FindInvalid(s)
           r == Slice(u, e, Len(u))
<1>1. /\ Len(s) \in Nat /\ Len(t) \in Nat /\ u \in Seq(0..255) /\ Len(u) = Len(s) + Len(t)
      /\ \A i \in Nat : At(u, i) = IF i < Len(s) THEN At(s, i) ELSE At(t, i - Len(s))
  BY LenProperties, ConcatAt
<1>2. e = EndsOf(s)[0] /\ e \in 0..Len(s) /\ 0 \in 0..Len(s)
  BY <1>1, FindInvalidIs, EndsOfIs
<1> HIDE DEF e, u
<1>3. e \in 0..Len(u) /\ 0 \in 0..Len(u) /\ e \in Nat
  BY <1>1, <1>2
<1>4. /\ r \in Seq(0..255) /\ Len(r) = Len(u) - e /\ \A k \in Nat : At(r, k) = At(u, e + k)
  BY <1>1, <1>3, SuffixAt
<1>5. /\ Rest(s) \in Seq(0..255) /\ Len(Rest(s)) = Len(s) - e
      /\ \A k \in Nat : At(Rest(s), k) = At(s, e + k)
  BY <1>2, SuffixAt DEF Rest, e
<1>6. r = Rest(s) \o t
  <2> DEFINE v == Rest(s) \o t
  <2>1. /\ v \in Seq(0..255) /\ Len(v) = Len(Rest(s)) + Len(t)
        /\ \A k \in Nat : At(v, k) = IF k < Len(Rest(s)) THEN At(Rest(s), k)
                                     ELSE At(t, k - Len(Rest(s)))
    BY <1>5, ConcatAt
  <2> HIDE DEF v, r
  <2>2. Len(r) = Len(v)
    BY <1>1, <1>2, <1>4, <1>5, <2>1
  <2>3. ASSUME NEW k \in Nat PROVE At(r, k) = At(v, k)
    <3>1. At(r, k) = At(u, e + k) /\ e + k \in Nat
      BY <1>3, <1>4
    <3>2. CASE k < Len(Rest(s))
      <4>1. e + k < Len(s)
        BY <3>2, <1>1, <1>3, <1>5
      <4> QED BY <3>1, <3>2, <4>1, <1>1, <1>5, <2>1
    <3>3. CASE ~(k < Len(Rest(s)))
      <4>1. ~(e + k < Len(s)) /\ (e + k) - Len(s) = k - Len(Rest(s))
        BY <3>3, <1>1, <1>3, <1>5
      <4> QED BY <3>1, <3>3, <4>1, <1>1, <2>1
    <3> QED BY <3>2, <3>3
  <2>4. r = v
    BY <1>4, <2>1, <2>2, <2>3, SameBytes
  <2> QED BY <2>4 DEF v
<1>7. /\ EndsOf(u)[e + 0] = e + EndsOf(r)[0]
      /\ From(f, u)[e + 0] = From(f, r)[0]
  <2>1. 0 \in 0..Len(r)
    BY <1>1, <1>3, <1>4
  <2> QED BY <2>1, <1>1, <1>3, OfSuffix
<1>8. e + 0 = e
  BY <1>3
<1>9. /\ EndsOf(u)[0] = EndsOf(u)[e]
      /\ From(f, u)[0] = From(f, s)[0] \o From(f, u)[e]
  <2>1. CarriesOver(f, s, t, e)
    BY <1>2, OfPrefix
  <2> QED BY <2>1, <1>2 DEF u, CarriesOver
<1>10. From(f, s)[0] \in Seq(Nat)
  BY <1>2, FromIs
<1>11. Rest(u) = Rest(r)
  <2> DEFINE d == FindInvalid(r)
             z == Slice(u, e + d, Len(u))
             y == Slice(r, d, Len(r))
  <2>1. d = EndsOf(r)[0] /\ d \in 0..Len(r)
    <3>1. 0 \in 0..Len(r)
      BY <1>1, <1>3, <1>4
    <3> HIDE DEF r
    <3> QED BY <3>1, <1>4, FindInvalidIs, EndsOfIs
  <2>2. FindInvalid(u) = e + d
    BY <2>1, <1>7, <1>8, <1>9, FindInvalidIs
  <2> HIDE DEF d, r
  <2>3. e + d \in 0..Len(u) /\ d \in Nat
    <3>1. Len(u) \in Nat /\ Len(r) = Len(u) - e
      BY <1>1, <1>4
    <3>2. \A m \in 0..(Len(u) - e) : e + m \in 0..Len(u) /\ m \in Nat
      BY <3>1, <1>3
    <3> QED BY <2>1, <3>1, <3>2
  <2>4. /\ z \in Seq(0..255) /\ Len(z) = Len(u) - (e + d)
        /\ \A k \in Nat : At(z, k) = At(u, (e + d) + k)
    BY <2>3, <1>1, SuffixAt
  <2>5. /\ y \in Seq(0..255) /\ Len(y) = Len(r) - d
        /\ \A k \in Nat : At(y, k) = At(r, d + k)
    BY <2>1, <1>4, SuffixAt
  <2> HIDE DEF z, y
  <2>6. Len(z) = Len(y)
    BY <2>3, <2>4, <2>5, <1>1, <1>3, <1>4
  <2>7. ASSUME NEW k \in Nat PROVE At(z, k) = At(y, k)
    <3>1. (e + d) + k = e + (d + k) /\ d + k \in Nat
      BY <1>3, <2>3
    <3> QED BY <3>1, <2>4, <2>5, <1>4
  <2>8. z = y
    BY <2>4, <2>5, <2>6, <2>7, SameBytes
  <2>9. Rest(u) = z /\ Rest(r) = y
    BY <2>2 DEF Rest, z, y, d
  <2> QED BY <2>8, <2>9
<1>12. Len(Rest(s)) <= Len(s)
  BY <1>1, <1>3, <1>5
<1> HIDE DEF r
<1>13. From(f, u)[0] = From(f, s)[0] \o From(f, Rest(s) \o t)[0]
  BY <1>6, <1>7, <1>8, <1>9
<1>14. Rest(u) = Rest(Rest(s) \o t)
  BY <1>6, <1>11
<1> QED BY <1>5, <1>10, <1>12, <1>13, <1>14 DEF u

-----------------------------------------------------------------------------
(* The inductive invariant.                                                  *)

\* Lines that are still to be read come from the dictionary.
Loading ==
    /\ dictionary \in Seq(Line) /\ file \in Seq(Line)
    /\ \A j \in 1..Len(file) : \E i \in 1..Len(dictionary) : file[j] = dictionary[i]
    /\ buf \in Nat /\ map \subseteq Nat \X Nat
    /\ OnlyOneToOne

\* What has been written, and what will be written for the rest.
Converting ==
    /\ out \o From(pick, buffer \o stdin)[0] = From(pick, input)[0]
    /\ Rest(buffer \o stdin) = Rest(input)

IInv ==
    /\ Loading
    /\ pc \in {"load", "loop", "done"}
    /\ input \in Seq(0..255) /\ stdin \in Seq(0..255) /\ buffer \in Seq(0..255)
    /\ Len(buffer) <= BufSize
    /\ out \in Seq(Nat) /\ eof \in BOOLEAN
    /\ pc = "load" => stdin = input /\ buffer = <<>> /\ out = <<>> /\ ~eof
    /\ pc # "load" => Translates(pick) /\ Converting
    /\ eof => stdin = <<>> /\ Rest(buffer) = buffer
    /\ pc = "done" => eof

LEMMA InitIInv == Init => IInv
<1> SUFFICES ASSUME Init PROVE IInv
  OBVIOUS
<1>1. <<>> \in Seq(0..255) /\ <<>> \in Seq(Nat) /\ Len(<<>>) = 0
  BY EmptySeq
<1>2. /\ dictionary \in Seq(Line) /\ file = dictionary /\ buf = 0 /\ map = {}
      /\ input \in Seq(0..255)
  BY DictionariesAssumption, InputsAssumption DEF Init
<1>3. Loading
  BY <1>2 DEF Loading, OnlyOneToOne
<1>4. 0 <= BufSize
  BY BufSizeAssumption
<1> QED BY <1>1, <1>2, <1>3, <1>4 DEF Init, IInv

LEMMA LoadLineStep ==
    ASSUME Loading, LoadLine
    PROVE  Loading'
<1>1. /\ file # <<>> /\ file \in Seq(Line) /\ file' = Tail(file) /\ dictionary' = dictionary
      /\ buf' = IF Head(file).kind \in {"one", "many"} THEN Head(file).last ELSE buf
      /\ map' = IF Keeps(Head(file)) THEN map \cup {PairOf(Head(file))} ELSE map
      /\ buf \in Nat
  BY DEF LoadLine, Loading
<1> DEFINE line == Head(file)
<1>2. /\ line \in Line /\ Tail(file) \in Seq(Line) /\ Len(Tail(file)) = Len(file) - 1
      /\ \A j \in 1..Len(Tail(file)) : Tail(file)[j] = file[j + 1]
      /\ Len(file) \in Nat /\ Len(file) > 0
  BY <1>1, HeadTailProperties, LenProperties, EmptySeq
<1>3. PICK i \in 1..Len(dictionary) : line = dictionary[i]
  <2>1. line = file[1] /\ 1 \in 1..Len(file)
    BY <1>1, <1>2
  <2> QED BY <2>1 DEF Loading
<1>4. \A j \in 1..Len(file') : \E k \in 1..Len(dictionary') : file'[j] = dictionary'[k]
  <2> SUFFICES ASSUME NEW j \in 1..Len(Tail(file))
               PROVE  \E k \in 1..Len(dictionary) : Tail(file)[j] = dictionary[k]
    BY <1>1
  <2>1. j + 1 \in 1..Len(file) /\ Tail(file)[j] = file[j + 1]
    BY <1>2
  <2> QED BY <2>1 DEF Loading
<1> HIDE DEF line
<1>5. line.last \in Nat /\ PairOf(line) \in Nat \X Nat
  BY <1>1, <1>2 DEF Line, PairOf
<1>6. /\ buf' = IF line.kind \in {"one", "many"} THEN line.last ELSE buf
      /\ map' = IF Keeps(line) THEN map \cup {PairOf(line)} ELSE map
  BY <1>1 DEF line
<1>7. buf' \in Nat /\ map' \subseteq Nat \X Nat
  BY <1>1, <1>5, <1>6 DEF Loading
<1>8. OnlyOneToOne'
  <2> SUFFICES ASSUME NEW p \in map', p[1] # p[2]
               PROVE  \E k \in 1..Len(dictionary) :
                         dictionary[k].kind = "one"
                            /\ p = <<dictionary[k].key, dictionary[k].value>>
    BY <1>1 DEF OnlyOneToOne
  <2>1. CASE p \in map
    BY <2>1 DEF Loading, OnlyOneToOne
  <2>2. CASE p \notin map
    <3>1. Keeps(line) /\ p = PairOf(line)
      BY <1>6, <2>2
    <3>2. line.kind # "blank"
      BY <3>1 DEF PairOf
    <3>3. line.kind = "one" /\ p = <<line.key, line.value>>
      BY <3>1, <3>2 DEF Keeps, PairOf
    <3> QED BY <3>3, <1>3
  <2> QED BY <2>1, <2>2
<1> QED BY <1>1, <1>2, <1>4, <1>7, <1>8 DEF Loading

\* A choice among the targets in the map is one.
LEMMA PickTranslates ==
    ASSUME map \subseteq Nat \X Nat,
           NEW f \in [KeysOf(map) -> {p[2] : p \in map}]
    PROVE  Translates(f)
<1>1. \A p \in map : p[2] \in Nat
  OBVIOUS
<1>2. \A k \in DOMAIN f : f[k] \in Nat
  BY <1>1
<1> QED BY <1>2 DEF Translates, Target

LEMMA PassStep ==
    ASSUME IInv, Pass
    PROVE  /\ stdin' \in Seq(0..255) /\ buffer' \in Seq(0..255) /\ Len(buffer') <= BufSize
           /\ out' \in Seq(Nat) /\ eof' \in BOOLEAN
           /\ Converting'
           /\ eof' => stdin' = <<>> /\ Rest(buffer') = buffer'
<1> DEFINE got == IF Room(buffer) < Len(stdin) THEN Room(buffer) ELSE Len(stdin)
           head == Slice(stdin, 0, got)
           tail == Slice(stdin, got, Len(stdin))
           data == buffer \o head
<1>1. /\ stdin' = tail /\ eof' = MeetsEnd(got, Room(buffer))
      /\ out' = out \o Convert(data) /\ buffer' = Rest(data)
      /\ pick' = pick /\ input' = input
  BY DEF Pass
<1>2. /\ stdin \in Seq(0..255) /\ buffer \in Seq(0..255) /\ out \in Seq(Nat)
      /\ Translates(pick) /\ Converting /\ Len(stdin) \in Nat /\ Len(buffer) \in Nat
      /\ Len(buffer) <= BufSize /\ BufSize \in Nat
  BY BufSizeAssumption, LenProperties DEF IInv, Pass
<1>3. /\ got \in 0..Len(stdin) /\ 0 \in Nat /\ got \in Nat /\ Len(stdin) \in got..Len(stdin)
      /\ Len(buffer) + got <= BufSize
      /\ got < Room(buffer) => got = Len(stdin)
  BY <1>2 DEF Room
<1> HIDE DEF got
<1>4. /\ head \in Seq(0..255) /\ Len(head) = got
      /\ \A k \in 1..got : head[k] = At(stdin, 0 + k - 1)
  <2>1. got - 0 = got /\ got \in 0..Len(stdin) /\ 0 \in Nat /\ stdin \in Seq(0..255)
    BY <1>2, <1>3
  <2>2. /\ head \in Seq(0..255) /\ Len(head) = got - 0
        /\ \A k \in 1..(got - 0) : head[k] = At(stdin, 0 + k - 1)
    BY <2>1, SliceOf
  <2> QED BY <2>1, <2>2
<1>5. /\ tail \in Seq(0..255) /\ Len(tail) = Len(stdin) - got
      /\ \A k \in Nat : At(tail, k) = At(stdin, got + k)
  BY <1>2, <1>3, SuffixAt
<1> HIDE DEF head, tail
<1>6. stdin = head \o tail
  <2>1. /\ head \o tail \in Seq(0..255) /\ Len(head \o tail) = Len(head) + Len(tail)
        /\ \A i \in Nat : At(head \o tail, i) = IF i < Len(head) THEN At(head, i)
                                                ELSE At(tail, i - Len(head))
    BY <1>4, <1>5, ConcatAt
  <2>2. Len(head \o tail) = Len(stdin)
    BY <2>1, <1>2, <1>3, <1>4, <1>5
  <2>3. ASSUME NEW i \in Nat, i < Len(stdin) PROVE At(stdin, i) = At(head \o tail, i)
    <3>1. CASE i < got
      <4>1. i + 1 \in 1..got /\ 0 + (i + 1) - 1 = i
        BY <3>1, <1>3
      <4>2. At(head, i) = At(stdin, i)
        BY <4>1, <3>1, <1>4 DEF At
      <4> QED BY <4>2, <3>1, <2>1, <1>4
    <3>2. CASE ~(i < got)
      <4>1. i - got \in Nat /\ got + (i - got) = i
        BY <3>2, <1>3
      <4> QED BY <4>1, <3>2, <2>1, <1>4, <1>5
    <3> QED BY <3>1, <3>2
  <2> QED BY <1>2, <2>1, <2>2, <2>3, SameBytes
<1>7. data \in Seq(0..255) /\ Len(data) = Len(buffer) + got
  BY <1>2, <1>4, ConcatProperties
<1>8. buffer \o stdin = data \o tail
  <2>1. (buffer \o head) \o tail = buffer \o (head \o tail)
    BY <1>2, <1>4, <1>5, BytesAssociate
  <2> QED BY <2>1, <1>6
<1> HIDE DEF data
<1>9. /\ Rest(data) \in Seq(0..255) /\ Len(Rest(data)) <= Len(data)
      /\ From(pick, data)[0] \in Seq(Nat)
      /\ From(pick, data \o tail)[0] = From(pick, data)[0] \o From(pick, Rest(data) \o tail)[0]
      /\ Rest(data \o tail) = Rest(Rest(data) \o tail)
  BY <1>2, <1>5, <1>7, Cut
<1>10. Convert(data) = From(pick, data)[0]
  BY ConvertIs
<1>11. out' \in Seq(Nat)
  BY <1>1, <1>2, <1>9, <1>10, ConcatProperties
<1>12. Len(buffer') <= BufSize
  <2>1. Len(Rest(data)) \in Nat
    BY <1>9, LenProperties
  <2> QED BY <2>1, <1>1, <1>2, <1>3, <1>7, <1>9
<1>13. Converting'
  <2>1. From(pick, Rest(data) \o tail)[0] \in Seq(Nat)
    <3>1. Rest(data) \o tail \in Seq(0..255)
      BY <1>5, <1>9, ConcatProperties
    <3>2. 0 \in 0..Len(Rest(data) \o tail)
      BY <3>1, LenProperties
    <3> QED BY <3>1, <3>2, <1>2, FromIs
  <2>2. (out \o From(pick, data)[0]) \o From(pick, Rest(data) \o tail)[0]
           = out \o (From(pick, data)[0] \o From(pick, Rest(data) \o tail)[0])
    BY <2>1, <1>2, <1>9, Associates
  <2>3. out' \o From(pick, buffer' \o stdin')[0] = From(pick, input)[0]
    BY <2>2, <1>1, <1>2, <1>8, <1>9, <1>10 DEF Converting
  <2>4. Rest(buffer' \o stdin') = Rest(input)
    BY <1>1, <1>2, <1>8, <1>9 DEF Converting
  <2> QED BY <2>3, <2>4, <1>1 DEF Converting
<1>14. eof' => stdin' = <<>> /\ Rest(buffer') = buffer'
  <2> SUFFICES ASSUME eof' PROVE stdin' = <<>> /\ Rest(buffer') = buffer'
    OBVIOUS
  <2>1. Len(tail) = 0
    <3>1. got < Room(buffer)
      BY <1>1, Zenon DEF MeetsEnd
    <3>2. got = Len(stdin)
      BY <3>1, <1>3
    <3> QED BY <3>2, <1>2, <1>5
  <2>2. tail = <<>>
    BY <2>1, <1>5, EmptySeq
  <2>3. data \o tail = data /\ Rest(data) \o tail = Rest(data)
    BY <2>2, <1>7, <1>9, ConcatEmptySeq
  <2> QED BY <2>2, <2>3, <1>1, <1>9
<1>15. eof' \in BOOLEAN
  BY <1>1 DEF MeetsEnd
<1> QED BY <1>1, <1>5, <1>9, <1>11, <1>12, <1>13, <1>14, <1>15

LEMMA NextIInv == IInv /\ [Next]_vars => IInv'
<1> SUFFICES ASSUME IInv, [Next]_vars PROVE IInv'
  OBVIOUS
<1>1. CASE LoadLine
  <2>1. Loading'
    BY <1>1, LoadLineStep DEF IInv
  <2> QED BY <1>1, <2>1 DEF IInv, LoadLine
<1>2. CASE Loaded
  <2>1. /\ pc = "load" /\ pc' = "loop"
        /\ pick' \in [KeysOf(map) -> {p[2] : p \in map}]
        /\ UNCHANGED <<file, buf, map, stdin, buffer, eof, out, dictionary, input>>
    BY <1>2 DEF Loaded
  <2>2. Translates(pick')
    BY <2>1, PickTranslates DEF IInv, Loading
  <2>3. /\ stdin = input /\ buffer = <<>> /\ out = <<>> /\ ~eof /\ input \in Seq(0..255)
    BY <2>1 DEF IInv
  <2>4. 0 \in 0..Len(input)
    BY <2>3, LenProperties
  <2>5. From(pick', input)[0] \in Seq(Nat)
    BY <2>2, <2>3, <2>4, FromIs
  <2>6. /\ <<>> \o From(pick', input)[0] = From(pick', input)[0]
        /\ <<>> \o input = input
    BY <2>3, <2>5, ConcatEmptySeq
  <2>7. Converting'
    BY <2>1, <2>3, <2>6 DEF Converting
  <2>8. Loading'
    BY <2>1 DEF IInv, Loading, OnlyOneToOne
  <2> QED BY <2>1, <2>2, <2>7, <2>8 DEF IInv
<1>3. CASE Pass
  <2>1. UNCHANGED <<file, buf, map, pick, pc, dictionary, input>> /\ pc = "loop"
    BY <1>3 DEF Pass
  <2>2. Loading'
    BY <2>1 DEF IInv, Loading, OnlyOneToOne
  <2>3. /\ stdin' \in Seq(0..255) /\ buffer' \in Seq(0..255) /\ Len(buffer') <= BufSize
        /\ out' \in Seq(Nat) /\ eof' \in BOOLEAN
        /\ Converting'
        /\ eof' => stdin' = <<>> /\ Rest(buffer') = buffer'
    BY <1>3, PassStep
  <2>4. Rest(buffer)' = Rest(buffer')
    OBVIOUS
  <2> QED BY <2>1, <2>2, <2>3, <2>4 DEF IInv
<1>4. CASE Exit
  BY <1>4 DEF Exit, IInv, Loading, OnlyOneToOne, Converting
<1>5. CASE UNCHANGED vars
  BY <1>5 DEF vars, IInv, Loading, OnlyOneToOne, Converting
<1> QED BY <1>1, <1>2, <1>3, <1>4, <1>5 DEF Next

(* The dictionary maps a code point to another one only if a line with that    *)
(* one target says so, whatever a blank line makes of the line before it       *)
(* (unihan.cpp:14-37).                                                        *)
THEOREM OneToOne == Spec => []OnlyOneToOne
<1>1. IInv => OnlyOneToOne
  BY DEF IInv, Loading
<1> QED BY <1>1, InitIInv, NextIInv, PTL DEF Spec

(* Cutting the input into buffers changes nothing (unihan_tool.cpp:18-25): for  *)
(* every size of the buffer of at least 4 bytes, what has been written and what *)
(* is still to be converted make up the conversion of the whole input, and at   *)
(* the end everything up to the first invalid character has been written.       *)
THEOREM Cuts == Spec => []CutsInvisible
<1>1. IInv => CutsInvisible
  <2> SUFFICES ASSUME IInv PROVE CutsInvisible
    OBVIOUS
  <2>1. pc # "load" => out \o Convert(buffer \o stdin) = Convert(input)
    BY ConvertIs DEF IInv, Converting
  <2>2. pc = "done" => stdin = <<>> /\ buffer = Rest(input)
    <3> SUFFICES ASSUME pc = "done" PROVE stdin = <<>> /\ buffer = Rest(input)
      OBVIOUS
    <3>1. /\ stdin = <<>> /\ Rest(buffer) = buffer /\ buffer \in Seq(0..255)
          /\ Rest(buffer \o stdin) = Rest(input)
      BY DEF IInv, Converting
    <3>2. buffer \o <<>> = buffer
      BY <3>1, ConcatEmptySeq
    <3> QED BY <3>1, <3>2
  <2> QED BY <2>1, <2>2 DEF CutsInvisible, Rest
<1> QED BY <1>1, InitIInv, NextIInv, PTL DEF Spec
=============================================================================
