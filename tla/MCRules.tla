------------------------------ MODULE MCRules ------------------------------
(***************************************************************************)
(* The prover on rules it answers completely: rules without variables,     *)
(* every rule base of up to four of eight about three statements, most of  *)
(* them in cycles; and rules with variables that do not call themselves,   *)
(* every rule and goal with variables of its own, over all sets of some    *)
(* facts.  Then on rules that call themselves and each other, that share   *)
(* variables with the goal, and that have variables as predicates.         *)
(***************************************************************************)
EXTENDS ProverProps, FiniteSetsExt

CONSTANTS n1, n2, n3, n4, is, edge, grand, both, self, rel, inv,   \* names
          x, y, z, s, t, u, own, w, g, h,                          \* variables
          spare                \* one that occurs in no other rule than AnyPredicate

Rule(head, body) == [head |-> head, body |-> body]
Fact(term) == Rule(term, <<>>)

Statement(n) == <<is, n, n>>
Implies(n, body) == Rule(Statement(n), [k \in DOMAIN body |-> Statement(body[k])])
GroundRules == <<Implies(n1, <<n2>>), Implies(n2, <<n3>>), Implies(n3, <<n1, n2>>),
                 Implies(n1, <<n3, n3>>), Implies(n2, <<n1>>), Implies(n3, <<>>),
                 Implies(n1, <<>>), Implies(n2, <<n3, n1>>)>>
MaxRules == 4   \* bound: rules of a rule base without variables
Chosen == UNION {kSubset(n, DOMAIN GroundRules) : n \in 0..MaxRules}
GroundKBs == {[k \in 1..Cardinality(S) |-> GroundRules[InOrder(S)[k]]] : S \in Chosen}
GroundGoals == {<<>>, <<Statement(n1)>>, <<Statement(n2), Statement(n3)>>}

Facts == <<Fact(<<edge, n1, n2>>), Fact(<<edge, n2, n3>>),
           Fact(<<edge, n2, n1>>)>>
Derived == <<Rule(<<both, s, t>>, <<(<<grand, u, s>>), <<edge, t, u>>>>),
             Rule(<<self, own, own>>, <<(<<edge, w, own>>), <<edge, own, w>>>>),
             Rule(<<grand, x, z>>, <<(<<edge, x, y>>), <<edge, y, z>>>>)>>
JoinKBs == {[k \in 1..Cardinality(S) |-> Facts[InOrder(S)[k]]] \o Derived : S \in SUBSET DOMAIN Facts}
JoinGoals == {<<(<<grand, n1, g>>)>>,
              <<(<<edge, g, h>>), <<grand, h, g>>>>,
              <<(<<self, g, h>>)>>,
              <<(<<grand, g, g>>), <<both, g, n3>>>>}

MCNames == {n1, n2, n3, is, edge, grand, both, self}
MCVars == {x, y, z, s, t, u, own, w, g, h}
MCKBs == GroundKBs \cup JoinKBs
MCGoals == GroundGoals \cup JoinGoals

---------------------------------------------------------------------------
(* Rules that call themselves and each other.                              *)

Transitive == Rule(<<rel, x, z>>, <<(<<rel, x, y>>), <<rel, y, z>>>>)
Symmetric == Rule(<<rel, x, y>>, <<(<<rel, y, x>>)>>)
Into == Rule(<<inv, x, y>>, <<(<<rel, y, x>>)>>)
Back == Rule(<<rel, x, z>>, <<(<<inv, z, x>>), <<inv, x, z>>>>)
Equal == Rule(<<inv, x, x>>, <<>>)
EqualUp == Rule(<<rel, x, z>>, <<(<<inv, x, y>>), <<rel, y, z>>>>)
AnyPredicate == Rule(<<spare, x, y>>, <<(<<spare, y, x>>)>>)
Related == {<<Fact(<<rel, n1, n2>>)>>,
            <<Fact(<<rel, n1, n2>>), Fact(<<rel, n2, n3>>)>>,
            <<Fact(<<rel, n1, n2>>), Fact(<<rel, n2, n1>>)>>,
            <<Fact(<<rel, n1, n2>>), Fact(<<rel, n2, n3>>), Fact(<<rel, n3, n1>>)>>}
Programs == {<<Transitive>>, <<Symmetric>>, <<Into, Back>>,
             <<Equal, EqualUp>>, <<AnyPredicate>>}

\* The rule base of src/infloop, symmetric and transitive, with its query.
Infloop == <<Rule(<<is, y, x>>, <<(<<is, x, y>>)>>),
             Rule(<<is, x, z>>, <<(<<is, x, y>>), <<is, y, z>>>>),
             Fact(<<is, n1, n2>>), Fact(<<is, n2, n3>>), Fact(<<is, n3, n4>>)>>
InfloopGoal == <<(<<is, own, n3>>)>>

RecursiveNames == {n1, n2, n3, rel, inv, n4, is}
RecursiveVars == {x, y, z, spare, own}
RecursiveKBs == {facts \o program : facts \in Related, program \in Programs} \cup {Infloop}
RecursiveGoals == {<<(<<rel, n1, x>>)>>,
                   <<(<<rel, y, x>>), <<rel, x, z>>>>,
                   <<(<<rel, n3, n1>>)>>,
                   <<(<<spare, n1, x>>)>>,
                   InfloopGoal}

\* A path to follow to its end, with a goal whose variable is its own.  The
\* uses of the rule share x, y and z: the binding of z to itself, made for the
\* one, stays when the other hands up n4.
ChainKBs == {<<Fact(<<rel, n1, n2>>), Fact(<<rel, n2, n3>>), Fact(<<rel, n3, n4>>), Transitive>>}
ChainGoals == {<<(<<rel, n1, spare>>)>>}
=============================================================================
