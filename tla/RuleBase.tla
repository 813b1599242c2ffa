------------------------------ MODULE RuleBase ------------------------------
(***************************************************************************)
(* From quads to the prover's rules (prover.cpp): the constructor takes    *)
(* the quads of the default graph one by one.  Every quad becomes a fact;  *)
(* an implication `s => o` also gives a rule for every quad of graph o,    *)
(* with the quads of graph s as its body.                                  *)
(*                                                                         *)
(* A term is a tuple: <<n>> for a node, <<p, s, o>> for terms s and o; a   *)
(* list is the term <<".", first, rest>> and ends with <<".">>.            *)
(***************************************************************************)
EXTENDS NQuads

Implies == "=>"

VARIABLES
    graphs,  \* qkb.first: the quads of every graph
    todo,    \* the quads of the default graph not yet added
    base     \* kb: heads and bodies

ruleBaseVars == <<graphs, todo, base>>

NoTerm == <<>>

\* list2term: an item that names a list is a list.
List2Term(items, ls) ==
    LET term[xs \in Seq(STRING)] ==
            IF xs = <<>> THEN <<".">>
            ELSE LET x == Head(xs)
                 IN  <<".", IF x \in DOMAIN ls THEN term[ls[x]] ELSE <<x>>, term[Tail(xs)]>>
    IN  term[items]

Argument(n, ls) == IF n \in DOMAIN ls THEN List2Term(ls[n], ls) ELSE <<n>>

\* quad2term: the cells of lists are no terms.
Quad2Term(q, ls) ==
    IF q.pred \in {First, Rest} THEN NoTerm
    ELSE <<q.pred, Argument(q.subj, ls), Argument(q.object, ls)>>

\* The loops over the quads of a graph: addrules' body, qdb2termset.
TermSet(quads, ls) ==
    SelectSeq([i \in DOMAIN quads |-> Quad2Term(quads[i], ls)], LAMBDA t : t # NoTerm)

\* qdb2termset: merge goes through the graphs in the order of their names.
Goal(qdb, names, ls) ==
    TermSet(FlattenSeq([i \in DOMAIN names |-> qdb[names[i]]]), ls)

StartRules(qdb) ==
    /\ Default \in DOMAIN qdb
    /\ graphs' = [g \in DOMAIN qdb \cup {"false"} |->
                    IF g \in DOMAIN qdb THEN qdb[g] ELSE <<>>]
    /\ todo' = qdb[Default]
    /\ base' = <<>>

\* Altered RulesOf: a rule for the first quad of the graph implied.
RulesOfFirst(q, ls) ==
    IF q.pred # Implies \/ q.subj \notin DOMAIN graphs' THEN <<>>
    ELSE LET body == TermSet(graphs'[q.subj], ls)
             heads == TermSet(graphs'[q.object], ls)
         IN  [i \in DOMAIN heads \cap {1} |-> [head |-> heads[i], body |-> body]]

\* Altered RulesOf: the graph implied gives the body.
RulesOfBackwards(q, ls) ==
    IF q.pred # Implies \/ q.subj \notin DOMAIN graphs' THEN <<>>
    ELSE LET body == TermSet(graphs'[q.object], ls)
             heads == TermSet(graphs'[q.subj], ls)
         IN  [i \in DOMAIN heads |-> [head |-> heads[i], body |-> body]]

\* ruleset::add for every head; no rule if the body's graph is not there.
RulesOf(q, ls) ==
    IF q.pred # Implies \/ q.subj \notin DOMAIN graphs' THEN <<>>
    ELSE LET body == TermSet(graphs'[q.subj], ls)
             heads == TermSet(graphs'[q.object], ls)
         IN  [i \in DOMAIN heads |-> [head |-> heads[i], body |-> body]]

\* addrules: the graph implied is made if it is not there.
AddRules(ls) ==
    /\ todo # <<>>
    /\ LET q == Head(todo)
           fact == TermSet(<<q>>, ls)
       IN  /\ graphs' = IF q.pred = Implies /\ q.object \notin DOMAIN graphs
                        THEN [g \in DOMAIN graphs \cup {q.object} |->
                                IF g = q.object THEN <<>> ELSE graphs[g]]
                        ELSE graphs
           /\ base' = base \o RulesOf(q, ls)
                           \o [i \in DOMAIN fact |-> [head |-> fact[i], body |-> <<>>]]
    /\ todo' = Tail(todo)
=============================================================================
