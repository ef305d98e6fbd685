--------------------------- MODULE MCTransaction ---------------------------
(* Small instances of Transaction for TLC. *)
EXTENDS Transaction, TLC

CONSTANTS c1, c2, c3, o1, o2, o3, k1, k2

Conns2 == {c1, c2}
Conns3 == {c1, c2, c3}
Objs1 == {o1}
Objs2 == {o1, o2}
Objs3 == {o1, o2, o3}
Keys1 == {k1}
Keys2 == {k1, k2}

Tags == Obj \cup Conn

\* Everybody reads with select_bind_text, or one connection does, or each connection
\* reads in its own way.
AllBind == {"bind"} \X Conn
OneBinds == {<<"bind", c1>>}
EachItsOwn == {<<"select", c1>>, <<"bind", c2>>, <<"bind", c3>>}

\* Objects and keys are interchangeable in the safety properties, and so are
\* connections that all do the same.
DataSymmetry == Permutations(Obj) \cup Permutations(Key)
Symmetry == Permutations(Conn) \cup DataSymmetry
=============================================================================
