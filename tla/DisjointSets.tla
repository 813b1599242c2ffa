---------------------------- MODULE DisjointSets ----------------------------
(***************************************************************************)
(* What a union-find promises to a client that uses the version it got     *)
(* last: elements are in one set when they were united, and find answers   *)
(* the leader of an element's set, which only a union of it changes.       *)
(***************************************************************************)
CONSTANT Elements

VARIABLES
    sets,     \* the partition of the elements
    leader,   \* the element each set is known by
    answer    \* what the last find returned

vars == <<sets, leader, answer>>

SetOf(x) == CHOOSE S \in sets : x \in S

Init ==
    /\ sets = {{x} : x \in Elements}
    /\ leader = [S \in sets |-> CHOOSE x \in Elements : x \in S]
    /\ answer \in Elements

Find(x) ==
    /\ answer' = leader[SetOf(x)]
    /\ UNCHANGED <<sets, leader>>

\* The leader of one of the sets leads their union.
Unite(x, y) ==
    LET joint == SetOf(x) \cup SetOf(y)
        others == sets \ {SetOf(x), SetOf(y)}
    IN  /\ sets' = others \cup {joint}
        /\ \E z \in {x, y} :
              leader' = [S \in sets' |-> IF S = joint THEN leader[SetOf(z)] ELSE leader[S]]
        /\ UNCHANGED answer

Next ==
    \/ \E x \in Elements : Find(x)
    \/ \E x, y \in Elements : Unite(x, y)

Spec == Init /\ [][Next]_vars
=============================================================================
