---------------------------- MODULE MCShellData ----------------------------
(* A small instance of ShellData for TLC. *)
EXTENDS ShellData, TLC

CONSTANTS rival, plain, seq, k1, k2, k3

Conns == {shell, rival}
Tables == {plain, seq}
TheKeys == {k1, k2, k3}
TableOfKey == k1 :> plain @@ k2 :> plain @@ k3 :> seq
KindOf == plain :> "table" @@ seq :> "sequence"
MasterOrder == <<seq, plain>>
MayWrite == User :> {k2} @@ Rival :> {k3}
DumpArgs == {{plain}}
Tags == Import \cup {User, Rival}
\* Good lines only, and a bad last line.
TheFiles == {<<k1, k2>>, <<k1, Short>>}
=============================================================================
