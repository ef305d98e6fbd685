------------------------------ MODULE MCShell ------------------------------
(* A small instance of Shell for TLC. *)
EXTENDS Shell, TLC

CONSTANTS a, b, c, loop, init

Words == {a, b, c}
Files == {loop, init, "stdin"}

\* The first .read is text of a string.
Script == <<Sql(<<a, "'", ";">>), Dot("read", loop), Sql(<<b, "'", ";">>), Dot("read", loop),
            Sql(<<c, ";", "/*">>), Sql(<<"*/">>), Sql(<<";">>)>>
\* loop reads itself, and has two statements in a line.
Contents(stdin) ==
    "stdin" :> stdin
    @@ loop :> <<Dot("bail on", NoFile), Sql(<<a, ";", b, ";">>), Dot("read", loop),
                 Dot("bail off", NoFile)>>
    @@ init :> <<Sql(<<"--", a>>), Sql(<<b>>), Sql(<<"go">>), Dot("note", NoFile)>>

\* The line of one word is half a statement; "go" ends it.
TheTyped == {Sql(<<a, ";", b, ";">>), Sql(<<c>>), Sql(<<"go">>),
             Dot("read", loop), Dot("exit", NoFile), Dot("bad", NoFile)}
TheArguments == {<<>>, <<Opt("-bail"), Sql(<<a>>), Opt("-batch")>>,
                 <<Dot("exit", NoFile), Opt("-interactive")>>,
                 <<Dot("bad", NoFile), Opt("unknown")>>, <<Opt("-version")>>}
TheFirst == {NoLine, Dot("exit", NoFile), Dot("read", loop), Sql(<<a>>)}

\* Lines whose semicolons, quotes and comments meet in every order.
TheLines == {Sql(<<a, "'", ";">>), Sql(<<b, "'", ";">>), Sql(<<c, ";", "/*">>), Sql(<<"*/">>),
             Sql(<<"--", ";">>), Sql(<<"/">>), Sql(<<a, ";", "--", "'">>), Dot("bad", NoFile)}
Inputs == UNION {[1..k -> TheLines] : k \in 0..4}

\* Every way to start the shell with one script, and every script of four lines.
TheLaunches ==
    [args : TheArguments, first : TheFirst, tty : BOOLEAN, exists : BOOLEAN,
     text : {Contents(Script)}]
    \cup [args : {<<>>}, first : {NoLine}, tty : {FALSE}, exists : {FALSE},
            text : {Contents(i) : i \in Inputs}]
=============================================================================
