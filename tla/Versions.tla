------------------------------ MODULE Versions ------------------------------
(***************************************************************************)
(* What persistent arrays promise: every version can be read and changed   *)
(* for good, a change gives a version of its own and leaves the others as  *)
(* they are.                                                               *)
(***************************************************************************)
EXTENDS Naturals, Sequences

CONSTANTS Indices, Values

VARIABLES
    contents,   \* the versions made so far, each an array
    call,       \* the operation under way
    answer      \* what the last operation returned

vars == <<contents, call, answer>>

Idle == [op |-> "none"]

Init ==
    /\ \E a \in [Indices -> Values] : contents = <<a>>
    /\ call = Idle
    /\ answer = 0

Get(t, i) ==
    /\ call = Idle
    /\ call' = [op |-> "get", t |-> t, i |-> i]
    /\ UNCHANGED <<contents, answer>>

Set(t, i, v) ==
    /\ call = Idle
    /\ call' = [op |-> "set", t |-> t, i |-> i, v |-> v]
    /\ UNCHANGED <<contents, answer>>

Got ==
    /\ call.op = "get"
    /\ answer' = contents[call.t][call.i]
    /\ call' = Idle
    /\ UNCHANGED contents

\* Writing the value a version has already gives the version itself.
Written ==
    /\ call.op = "set"
    /\ IF contents[call.t][call.i] = call.v
       THEN answer' = call.t /\ UNCHANGED contents
       ELSE /\ answer' = Len(contents) + 1
            /\ contents' = Append(contents, [contents[call.t] EXCEPT ![call.i] = call.v])
    /\ call' = Idle

Next ==
    \/ \E t \in DOMAIN contents, i \in Indices : Get(t, i)
    \/ \E t \in DOMAIN contents, i \in Indices, v \in Values : Set(t, i, v)
    \/ Got
    \/ Written

Spec == Init /\ [][Next]_vars
=============================================================================
