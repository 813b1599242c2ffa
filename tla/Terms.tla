------------------------------- MODULE Terms -------------------------------
(***************************************************************************)
(* Terms, substitutions and unification of the tau prover (prover.h,       *)
(* prover.cpp, unifiers.cpp).                                              *)
(*                                                                         *)
(* A `term` of the code is a resource p with two children s and o, both    *)
(* null or both set; a resource with a negative id is a variable.  Here a  *)
(* term is the tuple of its resources: <<p>> for a bare resource and       *)
(* <<p, s, o>> for a triple of resources.  The code interns terms, so      *)
(* that comparing two pointers compares the terms; tuples compare by       *)
(* value.  NIL is the null pointer.                                        *)
(*                                                                         *)
(* The arguments of a triple are resources: the nested terms the code      *)
(* builds for lists are not represented.  A variable that stands in        *)
(* predicate position may be bound to a whole triple, one in argument      *)
(* position only to a bare resource, so the inputs of a model never use    *)
(* one variable in both positions.                                         *)
(***************************************************************************)
EXTENDS Naturals, Sequences

CONSTANTS Names,     \* the resources that are not variables
          Vars       \* the variables; one name space for all the rules

ASSUME VarsAreNotNames == Names \cap Vars = {}

Resources == Names \cup Vars
NIL == <<>>
Atoms == {<<r>> : r \in Resources}
Triples == Resources \X Resources \X Resources
Terms == Atoms \cup Triples

IsVar(t) == t[1] \in Vars
SameShape(t, d) == Len(t) = Len(d)
Subject(t) == <<t[2]>>
Object(t) == <<t[3]>>

---------------------------------------------------------------------------
(* Substitutions: std::map<resid, termid>.                                 *)

NoSubs == [v \in {} |-> NIL]
IsSubs(ss) == DOMAIN ss \subseteq Vars /\ ss \in [DOMAIN ss -> Terms]

\* operator[] =: replaces the binding of v.
Bind(ss, v, t) == [x \in DOMAIN ss \cup {v} |-> IF x = v THEN t ELSE ss[x]]

\* emplace: the binding v already has, if any, stays.
Emplace(ss, v, t) == IF v \in DOMAIN ss THEN ss ELSE Bind(ss, v, t)

---------------------------------------------------------------------------
(* Evaluation.                                                             *)

\* v is bound, and not to another variable.
IsBound(v, ss) == v \in DOMAIN ss /\ ~IsVar(ss[v])

\* The resource an argument stands for; an argument that evaluates to null
\* stays as it is.
Resolve(r, ss) == IF r \in Vars /\ IsBound(r, ss) THEN ss[r][1] ELSE r

\* evpred and ev: a term whose predicate is not a variable.
EvalConst(t, ss) ==
    IF Len(t) = 1 THEN t ELSE <<t[1], Resolve(t[2], ss), Resolve(t[3], ss)>>

\* evaluate and evvar: null for a variable that is unbound or bound to a
\* variable, and then the binding is not followed further.
Evaluate(t, ss) ==
    IF ~IsVar(t) THEN EvalConst(t, ss)
    ELSE IF IsBound(t[1], ss) THEN EvalConst(ss[t[1]], ss)
    ELSE NIL

---------------------------------------------------------------------------
(* Unification of a source term t under ss with a destination term d under *)
(* ds.  Bindings go to the destination's substitution only, also those of  *)
(* the source's variables.  The result is the answer, the destination's    *)
(* substitution (with what was bound before a failure) and whether the     *)
(* code threw.                                                             *)

Result(ok, ds) == [ok |-> ok, sub |-> ds, threw |-> FALSE]

\* UNIFVAR for a source variable t that evaluates to null: it is bound to d,
\* in place of a binding to a variable, but not of another proper binding.
BindSource(t, d, ds) ==
    IF IsBound(t[1], ds) /\ ds[t[1]] # d
    THEN Result(FALSE, ds)
    ELSE Result(TRUE, Bind(ds, t[1], d))

\* Altered BindDest: throws for a binding to a name.
BindDestOnce(t, ss, d, ds) ==
    LET new == Emplace(ds, d[1], Evaluate(t, ss))
    IN  [ok |-> TRUE, sub |-> new, threw |-> Len(new[d[1]]) = 1]

\* unif and unifpred for a destination variable d that evaluates to null; a
\* variable that then holds a triple throws.
BindDest(t, ss, d, ds) ==
    LET new == Emplace(ds, d[1], Evaluate(t, ss))
    IN  [ok |-> TRUE, sub |-> new, threw |-> Len(new[d[1]]) = 3]

\* unif and unifpred for a source t that is not a variable: Args unifies the
\* arguments of two triples with the same predicate.
UnifyConst(t, ss, d, ds, Args(_, _, _, _)) ==
    LET v == Evaluate(d, ds)
        Same(x) == IF SameShape(t, x) /\ t[1] = x[1]
                   THEN Args(t, ss, x, ds) ELSE Result(FALSE, ds)
    IN  IF ~SameShape(t, d) THEN Result(FALSE, ds)
        ELSE IF ~IsVar(d) THEN Same(d)
        ELSE IF v # NIL THEN Same(v)
        ELSE BindDest(t, ss, d, ds)

\* unify: a source variable is unified through its value, if it has one.
UnifyBy(t, ss, d, ds, Args(_, _, _, _)) ==
    IF ~IsVar(t) THEN UnifyConst(t, ss, d, ds, Args)
    ELSE IF Evaluate(t, ss) # NIL THEN UnifyConst(Evaluate(t, ss), ss, d, ds, Args)
    ELSE BindSource(t, d, ds)

NoArgs(t, ss, d, ds) == Result(TRUE, ds)
UnifyAtoms(t, ss, d, ds) == UnifyBy(t, ss, d, ds, NoArgs)

\* s->unify(ssub, d.s, dsub) && o->unify(ssub, d.o, dsub)
UnifyArgs(t, ss, d, ds) ==
    IF Len(t) = 1 THEN Result(TRUE, ds)
    ELSE LET r == UnifyAtoms(Subject(t), ss, Subject(d), ds)
         IN  IF r.ok /\ ~r.threw
             THEN UnifyAtoms(Object(t), ss, Object(d), r.sub) ELSE r

UnifyTerms(t, ss, d, ds) == UnifyBy(t, ss, d, ds, UnifyArgs)

\* prover::unify
Unify(t, ss, d, ds) ==
    IF t = NIL \/ d = NIL THEN Result(t = d, ds) ELSE UnifyTerms(t, ss, d, ds)

---------------------------------------------------------------------------
(* unify_ep: the same test without bindings; any variable without a value  *)
(* unifies with anything.                                                  *)

UnifyConstEp(t, ss, d, ds, Args(_, _, _, _)) ==
    LET v == Evaluate(d, ds)
        Same(x) == SameShape(t, x) /\ t[1] = x[1] /\ Args(t, ss, x, ds)
    IN  /\ SameShape(t, d)
        /\ IF ~IsVar(d) THEN Same(d) ELSE v = NIL \/ Same(v)

UnifyByEp(t, ss, d, ds, Args(_, _, _, _)) ==
    IF ~IsVar(t) THEN UnifyConstEp(t, ss, d, ds, Args)
    ELSE \/ Evaluate(t, ss) = NIL
         \/ UnifyConstEp(Evaluate(t, ss), ss, d, ds, Args)

NoArgsEp(t, ss, d, ds) == TRUE
UnifyAtomsEp(t, ss, d, ds) == UnifyByEp(t, ss, d, ds, NoArgsEp)

UnifyArgsEp(t, ss, d, ds) ==
    \/ Len(t) = 1
    \/ /\ UnifyAtomsEp(Subject(t), ss, Subject(d), ds)
       /\ UnifyAtomsEp(Object(t), ss, Object(d), ds)

UnifyEp(t, ss, d, ds) ==
    t # NIL /\ d # NIL /\ UnifyByEp(t, ss, d, ds, UnifyArgsEp)

---------------------------------------------------------------------------
(* The conditions under which a rule's head can match a body term, worked  *)
(* out once per query: mksubs and caseof.                                  *)

MkResult(ok, ss) == [ok |-> ok, sub |-> ss]

\* Altered MkSubsAt: two variables must be the same.
MkSubsSame(x, y, m) ==
    LET Record(v, c) ==
            IF v[1] \notin DOMAIN m.sub THEN MkResult(TRUE, Bind(m.sub, v[1], c))
            ELSE MkResult(m.sub[v[1]] = c, m.sub)
    IN  IF ~m.ok THEN m
        ELSE IF IsVar(x) /\ ~IsVar(y) THEN Record(x, y)
        ELSE IF IsVar(y) /\ ~IsVar(x) THEN Record(y, x)
        ELSE MkResult(x[1] = y[1], m.sub)

\* One position of mksubs: a variable against a constant is recorded, and
\* must not be recorded with another constant; two variables always match.
MkSubsAt(x, y, m) ==
    LET Record(v, c) ==
            IF v[1] \notin DOMAIN m.sub THEN MkResult(TRUE, Bind(m.sub, v[1], c))
            ELSE MkResult(m.sub[v[1]] = c, m.sub)
    IN  IF ~m.ok THEN m
        ELSE IF IsVar(x) /\ ~IsVar(y) THEN Record(x, y)
        ELSE IF IsVar(y) /\ ~IsVar(x) THEN Record(y, x)
        ELSE MkResult(IsVar(x) \/ x[1] = y[1], m.sub)

MkSubs(x, y) ==
    IF x = NIL \/ y = NIL THEN MkResult(x = y, NoSubs)
    ELSE LET top == MkSubsAt(x, y, MkResult(TRUE, NoSubs))
         IN  IF ~SameShape(x, y) THEN MkResult(FALSE, top.sub)
             ELSE IF Len(x) = 1 THEN top
             ELSE MkSubsAt(Object(x), Object(y),
                           MkSubsAt(Subject(x), Subject(y), top))

\* caseof: no variable has one proper binding in the condition and another
\* in the frame.
CaseOf(c, ss) ==
    \A v \in DOMAIN c \cap DOMAIN ss :
        c[v] = ss[v] \/ IsVar(c[v]) \/ IsVar(ss[v])
=============================================================================
