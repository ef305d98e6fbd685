---------------------------- MODULE AtomicScopes ----------------------------
(***************************************************************************)
(* What a transaction object promises its user: the rows written in its     *)
(* scope reach the database together, when the scope commits, or not at     *)
(* all; rows written outside of any scope are committed one by one, and so   *)
(* are those of a scope that is bare, because no transaction could be begun  *)
(* for it.                                                                  *)
(***************************************************************************)
CONSTANTS
    Scope,  \* transaction objects
    Loose,  \* writers outside of any scope
    Key

VARIABLES
    store,      \* the committed rows, tagged with their writer
    scope,      \* scope[s]: how far scope s has come
    content     \* content[s]: keys written in scope s

vars == <<store, scope, content>>

Init ==
    /\ store = {}
    /\ scope = [s \in Scope |-> "unopened"]
    /\ content = [s \in Scope |-> {}]

Open(s) ==
    /\ scope[s] = "unopened"
    /\ scope' = [scope EXCEPT ![s] = "open"]
    /\ UNCHANGED <<store, content>>

Bare(s) ==
    /\ scope[s] = "unopened"
    /\ scope' = [scope EXCEPT ![s] = "bare"]
    /\ UNCHANGED <<store, content>>

Put(s, k) ==
    /\ scope[s] = "open"
    /\ content' = [content EXCEPT ![s] = @ \cup {k}]
    /\ UNCHANGED <<store, scope>>

Commit(s) ==
    /\ scope[s] = "open"
    /\ scope' = [scope EXCEPT ![s] = "committed"]
    /\ store' = store \cup ({s} \X content[s])
    /\ UNCHANGED content

Abort(s) ==
    /\ scope[s] = "open"
    /\ scope' = [scope EXCEPT ![s] = "aborted"]
    /\ UNCHANGED <<store, content>>

PutLoose(l, k) ==
    /\ l \in Scope => scope[l] = "bare"
    /\ store' = store \cup {<<l, k>>}
    /\ UNCHANGED <<scope, content>>

Next ==
    \/ \E s \in Scope :
        \/ Open(s) \/ Bare(s)
        \/ \E k \in Key : Put(s, k)
        \/ Commit(s)
        \/ Abort(s)
    \/ \E l \in Loose \cup Scope, k \in Key : PutLoose(l, k)

Spec == Init /\ [][Next]_vars
=============================================================================
