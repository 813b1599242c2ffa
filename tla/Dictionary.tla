----------------------------- MODULE Dictionary -----------------------------
(***************************************************************************)
(* How the prover compares nodes and terms: by the numbers and addresses   *)
(* the dictionary (bidict in misc.cpp) and the term store (termdb in       *)
(* prover.h) give them.  A node is numbered when it is first made, a       *)
(* variable with a negative number; a term is kept once for each predicate *)
(* and pair of arguments.                                                  *)
(*                                                                         *)
(* A node is given by its key, node::tostring(); a term is <<n>> for a     *)
(* node or <<n, s, o>> for terms s and o.  Terms are made at any time, by  *)
(* the rule base and the search, from arguments made before; nodes are     *)
(* numbered before they are looked up (rdf.cpp 52, 68, 85), so looking one *)
(* up changes nothing.                                                     *)
(***************************************************************************)
EXTENDS Integers, Sequences, SequencesExt, FiniteSets

CONSTANTS
    Nodes,     \* the nodes there may be
    Vars,      \* the nodes that are IRIs beginning with a question mark
    MaxTerms   \* bound: terms kept

\* bidict::init
Known == <<"GND", "log:equalTo", "log:notEqualTo", "rdf:first", "rdf:rest", "rdf:nil", "a",
           "rdfs:Resource", "rdfs:domain", ".", "rdf:type", "rdfs:subClassOf", "false">>

ASSUME VarsAssumption == Vars \cap ToSet(Known) = {}

VARIABLES
    pi,      \* the number of a node
    ip,      \* the node of a number
    heap,    \* the terms by address, in the order they were made; a null is 0
    p2id,    \* the addresses of the terms of a predicate
    answers  \* history: the address every term that was asked for got last

vars == <<pi, ip, heap, p2id, answers>>

With(f, x, v) == [y \in DOMAIN f \cup {x} |-> IF y = x THEN v ELSE f[y]]

Init ==
    /\ pi = [n \in ToSet(Known) |-> CHOOSE k \in DOMAIN Known : Known[k] = n]
    /\ ip = Known
    /\ heap = <<>>
    /\ p2id = [p \in {} |-> <<>>]
    /\ answers = [t \in {} |-> 0]

---------------------------------------------------------------------------
(* bidict::set                                                             *)

\* Altered NewId: the number of nodes known.
NewIdKnown(n) == LET k == Cardinality(DOMAIN pi) IN IF n \in Vars THEN -k ELSE k

NewId(n) == LET k == Cardinality(DOMAIN pi) + 1 IN IF n \in Vars THEN -k ELSE k

SetNode(n) ==
    IF n \in DOMAIN pi THEN UNCHANGED <<pi, ip>>
    ELSE pi' = With(pi, n, NewId(n)) /\ ip' = With(ip, NewId(n), n)

---------------------------------------------------------------------------
(* termdb::add and equals                                                  *)

\* Altered Equals: two nulls are not equal.
EqualsNot(x, y) == x # 0 /\ x = y

\* equals compares terms deeply, two nulls are equal.
Equals(x, y) ==
    LET equal[v \in 0..Len(heap)] ==
            [w \in 0..Len(heap) |->
                IF v = 0 \/ w = 0 THEN v = w
                ELSE /\ heap[v].p = heap[w].p
                     /\ equal[heap[v].s][heap[w].s]
                     /\ equal[heap[v].o][heap[w].o]]
    IN  equal[x][y]

Of(p) == IF p \in DOMAIN p2id THEN p2id[p] ELSE <<>>

\* Altered SameAs: compares the subjects.
SameSubject(p, s, o) == {k \in DOMAIN Of(p) : Equals(heap[Of(p)[k]].s, s)}

\* The places of the terms of p that have these arguments.
SameAs(p, s, o) == {k \in DOMAIN Of(p) : /\ Equals(heap[Of(p)[k]].s, s)
                                         /\ Equals(heap[Of(p)[k]].o, o)}

\* The first of them is the answer, or a new term is.
Add(t, p, s, o) ==
    LET same == SameAs(p, s, o)
        new == Len(heap) + 1
    IN  IF same # {}
        THEN /\ answers' = With(answers, t, Of(p)[CHOOSE k \in same : \A j \in same : k <= j])
             /\ UNCHANGED <<heap, p2id>>
        ELSE /\ Len(heap) < MaxTerms
             /\ heap' = Append(heap, [p |-> p, s |-> s, o |-> o])
             /\ p2id' = With(p2id, p, Append(Of(p), new))
             /\ answers' = With(answers, t, new)

---------------------------------------------------------------------------

\* mkiri, mkbnode, mkliteral
NodeMade(n) == SetNode(n) /\ UNCHANGED <<heap, p2id, answers>>

\* prover::make of a node alone, and of a node with two arguments.
Make(n) == SetNode(n) /\ Add(<<n>>, pi'[n], 0, 0)
MakeOf(n, s, o) == SetNode(n) /\ Add(<<n, s, o>>, pi'[n], answers[s], answers[o])

Next == \E n \in Nodes :
            \/ NodeMade(n)
            \/ Make(n)
            \/ \E s, o \in DOMAIN answers : MakeOf(n, s, o)

Spec == Init /\ [][Next]_vars

---------------------------------------------------------------------------

\* The prover tells nodes apart by their numbers and variables by the sign:
\* no two nodes have one number, whatever the order they are met in, 0 is
\* nobody's, and a number leads back to its node.
NodesNumbered ==
    \A n \in DOMAIN pi :
        /\ pi[n] # 0 /\ (pi[n] < 0 <=> n \in Vars)
        /\ \A m \in DOMAIN pi : pi[m] = pi[n] => m = n
        /\ pi[n] \in DOMAIN ip /\ ip[pi[n]] = n

\* The prover compares terms by their addresses: different terms have
\* different addresses, however deep in them the difference is, and
TermsInterned == \A t, u \in DOMAIN answers : answers[t] = answers[u] => t = u

\* a term that is made again has the address it had, however long ago that
\* was: what substitutions and frames have kept of it stays equal to it.
AddressesStay == [][\A t \in DOMAIN answers : answers'[t] = answers[t]]_vars

\* What is read at a term's address is the term, and its sign tells a variable.
ReadBack ==
    \A t \in DOMAIN answers :
        LET x == heap[answers[t]]
        IN  /\ ip[x.p] = t[1] /\ (x.p < 0 <=> t[1] \in Vars)
            /\ IF Len(t) = 1 THEN x.s = 0 /\ x.o = 0
               ELSE x.s = answers[t[2]] /\ x.o = answers[t[3]]
=============================================================================
