-------------------------- MODULE MCShellOutput --------------------------
(* A small instance of ShellOutput for TLC. *)
EXTENDS ShellOutput, TLC

TheChars == Delims \cup White \cup Octal \cup Letter \cup {"\\", "ctl", "other", "|", ","}

\* Arguments as the user may write them.
TheSeparators == {<<"|", "|">>, <<"\\", "t">>, <<"\"", "\\", "0", "0", "1", "0", "\"">>,
                  <<"other", "1", ",">>, <<"'", "\"", "'">>, <<"\"", "\"">>}
TheNulls == {<<"n">>, <<"'", "\\", "other", "'">>}
TheNames == {<<"t">>, <<"a", "'">>}

Null == [type |-> "null", text |-> <<>>]
Text(z) == [type |-> "text", text |-> z]
Integer(z) == [type |-> "integer", text |-> z]
TheValues == {Null, Integer(<<"1", "0">>), Text(<<"1">>), Text(<<>>), Text(<<"a", "'">>),
              Text(<<"a", "nl", ",">>), Text(<<"\"">>), Text(<<"a", "|">>), Text(<<"tab", "cr">>)}
TheResults ==
    {[names |-> <<<<"a">>, <<"t", "'">>>>, rows |-> <<<<v, w>>>>] : v, w \in TheValues}
    \cup {[names |-> <<<<"n">>>>, rows |-> <<<<Text(<<>>)>>, <<Null>>>>],
          [names |-> <<<<"n">>>>, rows |-> <<>>]}
TheWidths == {<<5>>, <<7, 9, 8>>}
=============================================================================
