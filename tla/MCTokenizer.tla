---------------------------- MODULE MCTokenizer ----------------------------
(* Small texts for TLC. *)
EXTENDS Tokenizer

\* A capital, a digit, a separator, NUL; then code points on both sides of each
\* bound: 2 bytes, U+3FFE and U+3FFF, a Han character, U+FF00 and U+FF01, 4 bytes.
Ascii7 == {<<65>>, <<57>>, <<32>>, <<0>>}
Wide == {Encode(233), Encode(16382), Encode(16383), Encode(20013),
         Encode(65280), Encode(65281), Encode(128512)}
Char == Ascii7 \cup Wide \cup {<<>>}
ValidTexts == {a \o b \o c : a, b, c \in Char}

\* A continuation byte where a character should begin.
StrayByteTexts == {<<65>>, <<65, 32, 128>>, Encode(20013) \o <<191, 65>>}
=============================================================================
