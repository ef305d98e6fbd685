------------------------------ MODULE MCUnihan ------------------------------
(* Small dictionaries and inputs for TLC. *)
EXTENDS Unihan, TLC

Mapping(k, v) == [kind |-> "one", key |-> k, value |-> v, last |-> v]
Several(k, v, w) == [kind |-> "many", key |-> k, value |-> v, last |-> w]
Comment == [kind |-> "comment", key |-> 0, value |-> 0, last |-> 0]
Blank == [kind |-> "blank", key |-> 0, value |-> 0, last |-> 0]

\* Code points of one to four bytes; a conversion may change the length.
A == 65
Eacute == 233
Zhong == 20013
ExtB == 132674
\* A key with two targets on lines of its own, as U+82E7 has in the data file; a
\* mapping to several; the blank line before the end.
DictionaryFiles == {
    <<Comment, Mapping(Zhong, ExtB), Mapping(ExtB, Zhong), Several(Eacute, A, Zhong), Blank, Comment>>,
    <<Mapping(Zhong, A), Mapping(Zhong, Eacute), Mapping(Zhong, A)>>}

Flatten3(a, b, c) == a \o b \o c
Pieces == {<<>>, Encode(A), Encode(Eacute), Encode(Zhong), Encode(ExtB),
           <<128>>, <<228, 184>>}
Piped == {Flatten3(a, b, c) \o d : a, b, c \in Pieces, d \in {<<>>, Encode(ExtB)}}
=============================================================================
