----------------------------- MODULE Entailment -----------------------------
(***************************************************************************)
(* What a rule base means, whatever proves it: the reference the prover is *)
(* checked against.  A rule base is a set of rules, each a head and a      *)
(* sequence of body terms; the variables of a rule are its own and range   *)
(* over all names.  Nothing here is translated from the code.              *)
(***************************************************************************)
EXTENDS Terms, FiniteSets

ResourcesOf(t) == {t[k] : k \in DOMAIN t}
VarsOf(ts) == (UNION {ResourcesOf(t) : t \in ts}) \cap Vars
IsGround(t) == VarsOf({t}) = {}

\* The terms of a sequence of terms.
TermsOf(body) == {body[k] : k \in DOMAIN body}

\* An instance of a term: every variable of m replaced by a name.
Replace(r, m) == IF r \in DOMAIN m THEN m[r] ELSE r
Instance(t, m) == [k \in DOMAIN t |-> Replace(t[k], m)]

\* The assignments of all variables of t that agree with m and make t equal to
\* the ground term f: one or none.
Agreeing(m, t, f) ==
    IF Len(t) = Len(f) /\ \A k \in DOMAIN t :
          /\ Replace(t[k], m) \in {f[k]} \cup Vars
          /\ \A j \in DOMAIN t : t[j] = t[k] => f[j] = f[k]
    THEN {[v \in DOMAIN m \cup VarsOf({t}) |->
              IF v \in DOMAIN m THEN m[v] ELSE f[CHOOSE k \in DOMAIN t : t[k] = v]]}
    ELSE {}

\* The assignments of the variables of a body under which all of it is known.
Solutions(body, known) ==
    LET upto[n \in 0..Len(body)] ==
            IF n = 0 THEN {[v \in {} |-> NIL]}
            ELSE UNION {Agreeing(m, body[n], f) : m \in upto[n - 1], f \in known}
    IN  upto[Len(body)]

---------------------------------------------------------------------------
(* The least set of ground terms the rules are closed under.  A variable   *)
(* of a head that is not in the body stands for every name.                *)

HeadsFrom(r, known) ==
    LET free == [VarsOf({r.head}) \ VarsOf(TermsOf(r.body)) -> Names]
    IN  {Instance(Instance(r.head, m), n) : m \in Solutions(r.body, known), n \in free}
Consequences(rules, known) == known \cup UNION {HeadsFrom(r, known) : r \in rules}

GroundTerms == {<<n>> : n \in Names} \cup (Names \X Names \X Names)

LeastModel(rules) ==
    LET grown[known \in SUBSET GroundTerms] ==
            LET more == Consequences(rules, known)
            IN  IF more = known THEN known ELSE grown[more]
    IN  grown[{}]

\* The answers of a goal: its instances all of whose terms follow.
AnswersTo(rules, goal) ==
    {[k \in DOMAIN goal |-> Instance(goal[k], m)] : m \in Solutions(goal, LeastModel(rules))}
=============================================================================
