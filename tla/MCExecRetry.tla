---------------------------- MODULE MCExecRetry ----------------------------
(* Small scripts for TLC. *)
EXTENDS ExecRetry

OneOrMore == {<<"read">>, <<"write">>, <<"read", "write">>, <<"write", "read", "write">>}
=============================================================================
