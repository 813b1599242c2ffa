---------------------------- MODULE ProverProofs ----------------------------
(***************************************************************************)
(* The prover for every rule base, goal and number of queries.  First what *)
(* the operators on terms return: terms, and substitutions that bind       *)
(* variables to terms.  Then the shape of the prover's frames.             *)
(***************************************************************************)
EXTENDS ProverProps, TLAPS, FiniteSetTheorems, SequenceTheorems,
        WellFoundedInduction

---------------------------------------------------------------------------
(* Terms and substitutions.                                                *)

\* The resources of a term are resources, and the null term is none.
LEMMA TermShape ==
    ASSUME NEW t \in Terms
    PROVE  /\ t # NIL
           /\ Len(t) = 1 \/ Len(t) = 3
           /\ t[1] \in Resources
           /\ Len(t) = 1 => t \in Atoms
           /\ Len(t) = 3 => /\ t \in Triples
                            /\ t[2] \in Resources
                            /\ t[3] \in Resources
<1>1. CASE t \in Atoms
  <2>1. PICK r \in Resources : t = <<r>>
    BY <1>1 DEF Atoms
  <2>2. Len(t) = 1 /\ t[1] = r
    BY <2>1
  <2>. QED BY <1>1, <2>1, <2>2 DEF NIL
<1>2. CASE t \in Triples
  <2>1. PICK a \in Resources, b \in Resources, c \in Resources : t = <<a, b, c>>
    BY <1>2 DEF Triples
  <2>2. Len(t) = 3 /\ t[1] = a /\ t[2] = b /\ t[3] = c
    BY <2>1
  <2>. QED BY <1>2, <2>1, <2>2 DEF NIL
<1>. QED BY <1>1, <1>2 DEF Terms

LEMMA AtomType == ASSUME NEW r \in Resources PROVE <<r>> \in Terms
BY DEF Terms, Atoms

LEMMA TripleType ==
    ASSUME NEW a \in Resources, NEW b \in Resources, NEW c \in Resources
    PROVE  <<a, b, c>> \in Terms
BY DEF Terms, Triples

LEMMA VariableType ==
    ASSUME NEW t \in Terms, IsVar(t) PROVE t[1] \in Vars
BY DEF IsVar

LEMMA NoSubsType == IsSubs(NoSubs)
BY DEF IsSubs, NoSubs

LEMMA BindType ==
    ASSUME NEW ss, IsSubs(ss), NEW v \in Vars, NEW t \in Terms
    PROVE  IsSubs(Bind(ss, v, t))
BY DEF IsSubs, Bind

LEMMA LookupType ==
    ASSUME NEW ss, IsSubs(ss), NEW v \in DOMAIN ss
    PROVE  ss[v] \in Terms /\ v \in Vars
BY DEF IsSubs

---------------------------------------------------------------------------
(* Evaluation.                                                             *)

LEMMA ResolveType ==
    ASSUME NEW ss, IsSubs(ss), NEW r \in Resources
    PROVE  Resolve(r, ss) \in Resources
<1>1. CASE r \in Vars /\ IsBound(r, ss)
  <2>1. ss[r] \in Terms
    BY <1>1, LookupType DEF IsBound
  <2>. QED BY <1>1, <2>1, TermShape DEF Resolve
<1>2. CASE ~(r \in Vars /\ IsBound(r, ss))
  BY <1>2 DEF Resolve
<1>. QED BY <1>1, <1>2

LEMMA EvalConstType ==
    ASSUME NEW ss, IsSubs(ss), NEW t \in Terms
    PROVE  EvalConst(t, ss) \in Terms
<1>1. CASE Len(t) = 1
  BY <1>1 DEF EvalConst
<1>2. CASE Len(t) # 1
  <2>1. Len(t) = 3 /\ t[1] \in Resources /\ t[2] \in Resources /\ t[3] \in Resources
    BY <1>2, TermShape
  <2>2. Resolve(t[2], ss) \in Resources /\ Resolve(t[3], ss) \in Resources
    BY <2>1, ResolveType
  <2>3. EvalConst(t, ss) = <<t[1], Resolve(t[2], ss), Resolve(t[3], ss)>>
    BY <1>2 DEF EvalConst
  <2>. QED BY <2>1, <2>2, <2>3, TripleType
<1>. QED BY <1>1, <1>2

\* evaluate returns null or a term.
LEMMA EvaluateType ==
    ASSUME NEW ss, IsSubs(ss), NEW t \in Terms
    PROVE  Evaluate(t, ss) \in Terms \cup {NIL}
<1>1. CASE ~IsVar(t)
  BY <1>1, EvalConstType DEF Evaluate
<1>2. CASE IsVar(t) /\ IsBound(t[1], ss)
  <2>1. ss[t[1]] \in Terms
    BY <1>2, LookupType DEF IsBound
  <2>2. Evaluate(t, ss) = EvalConst(ss[t[1]], ss)
    BY <1>2 DEF Evaluate
  <2>. QED BY <2>1, <2>2, EvalConstType
<1>3. CASE IsVar(t) /\ ~IsBound(t[1], ss)
  BY <1>3 DEF Evaluate
<1>. QED BY <1>1, <1>2, <1>3

---------------------------------------------------------------------------
(* Unification: whatever the answer, what it leaves in the destination's   *)
(* substitution is a substitution.                                         *)

LEMMA EmplaceType ==
    ASSUME NEW ss, IsSubs(ss), NEW v \in Vars, NEW t \in Terms
    PROVE  IsSubs(Emplace(ss, v, t))
BY BindType DEF Emplace

LEMMA BindSourceType ==
    ASSUME NEW ds, IsSubs(ds), NEW t \in Terms, IsVar(t), NEW d \in Terms
    PROVE  IsSubs(BindSource(t, d, ds).sub)
BY BindType, VariableType DEF BindSource, Result

\* A term whose predicate is no variable evaluates to a term.
LEMMA EvaluateConstType ==
    ASSUME NEW ss, IsSubs(ss), NEW t \in Terms, ~IsVar(t)
    PROVE  Evaluate(t, ss) \in Terms
BY EvalConstType DEF Evaluate

\* So does the value of a variable, which is never a variable again.
LEMMA EvaluateNotVar ==
    ASSUME NEW ss, IsSubs(ss), NEW t \in Terms, Evaluate(t, ss) # NIL
    PROVE  Evaluate(t, ss) \in Terms /\ ~IsVar(Evaluate(t, ss))
<1>1. Evaluate(t, ss) \in Terms
  BY EvaluateType
<1>2. ASSUME NEW c \in Terms, ~IsVar(c)
      PROVE  ~IsVar(EvalConst(c, ss))
  <2>1. CASE Len(c) = 1
    BY <1>2, <2>1 DEF EvalConst
  <2>2. CASE Len(c) # 1
    <3>1. EvalConst(c, ss)[1] = c[1]
      BY <2>2 DEF EvalConst
    <3>. QED BY <1>2, <3>1 DEF IsVar
  <2>. QED BY <2>1, <2>2
<1>3. CASE ~IsVar(t)
  BY <1>1, <1>2, <1>3 DEF Evaluate
<1>4. CASE IsVar(t)
  <2>1. IsBound(t[1], ss) /\ Evaluate(t, ss) = EvalConst(ss[t[1]], ss)
    BY <1>4 DEF Evaluate
  <2>2. ss[t[1]] \in Terms /\ ~IsVar(ss[t[1]])
    BY <2>1, LookupType DEF IsBound
  <2>. QED BY <1>1, <1>2, <2>1, <2>2
<1>. QED BY <1>3, <1>4

LEMMA BindDestType ==
    ASSUME NEW ss, IsSubs(ss), NEW ds, IsSubs(ds),
           NEW t \in Terms, ~IsVar(t), NEW d \in Terms, IsVar(d)
    PROVE  IsSubs(BindDest(t, ss, d, ds).sub)
BY EvaluateConstType, EmplaceType, VariableType DEF BindDest

LEMMA UnifyAtomsType ==
    ASSUME NEW ss, IsSubs(ss), NEW ds, IsSubs(ds), NEW t \in Terms, NEW d \in Terms
    PROVE  IsSubs(UnifyAtoms(t, ss, d, ds).sub)
<1>1. ASSUME NEW c \in Terms, ~IsVar(c)
      PROVE  IsSubs(UnifyConst(c, ss, d, ds, NoArgs).sub)
  BY <1>1, BindDestType DEF UnifyConst, NoArgs, Result
<1>2. CASE ~IsVar(t)
  BY <1>1, <1>2 DEF UnifyAtoms, UnifyBy
<1>3. CASE IsVar(t) /\ Evaluate(t, ss) # NIL
  BY <1>1, <1>3, EvaluateNotVar DEF UnifyAtoms, UnifyBy
<1>4. CASE IsVar(t) /\ Evaluate(t, ss) = NIL
  BY <1>4, BindSourceType DEF UnifyAtoms, UnifyBy
<1>. QED BY <1>2, <1>3, <1>4

LEMMA ArgumentsType ==
    ASSUME NEW t \in Terms, Len(t) # 1
    PROVE  Subject(t) \in Terms /\ Object(t) \in Terms
BY TermShape, AtomType DEF Subject, Object

LEMMA UnifyArgsType ==
    ASSUME NEW ss, IsSubs(ss), NEW ds, IsSubs(ds),
           NEW t \in Terms, NEW d \in Terms, SameShape(t, d)
    PROVE  IsSubs(UnifyArgs(t, ss, d, ds).sub)
<1>1. CASE Len(t) = 1
  BY <1>1 DEF UnifyArgs, Result
<1>2. CASE Len(t) # 1
  <2>. DEFINE r == UnifyAtoms(Subject(t), ss, Subject(d), ds)
  <2>1. /\ Subject(t) \in Terms /\ Object(t) \in Terms
        /\ Subject(d) \in Terms /\ Object(d) \in Terms
    BY <1>2, ArgumentsType DEF SameShape
  <2>2. IsSubs(r.sub)
    BY <2>1, UnifyAtomsType
  <2>3. IsSubs(UnifyAtoms(Object(t), ss, Object(d), r.sub).sub)
    BY <2>1, <2>2, UnifyAtomsType
  <2>. QED BY <1>2, <2>2, <2>3 DEF UnifyArgs
<1>. QED BY <1>1, <1>2

LEMMA UnifyTermsType ==
    ASSUME NEW ss, IsSubs(ss), NEW ds, IsSubs(ds), NEW t \in Terms, NEW d \in Terms
    PROVE  IsSubs(UnifyTerms(t, ss, d, ds).sub)
<1>1. ASSUME NEW c \in Terms, ~IsVar(c)
      PROVE  IsSubs(UnifyConst(c, ss, d, ds, UnifyArgs).sub)
  <2>1. CASE ~SameShape(c, d)
    BY <2>1 DEF UnifyConst, Result
  <2>2. CASE SameShape(c, d) /\ ~IsVar(d)
    BY <2>2, UnifyArgsType DEF UnifyConst, Result
  <2>3. CASE SameShape(c, d) /\ IsVar(d) /\ Evaluate(d, ds) # NIL
    <3>1. Evaluate(d, ds) \in Terms
      BY EvaluateType, <2>3
    <3>. QED BY <2>3, <3>1, UnifyArgsType DEF UnifyConst, Result
  <2>4. CASE SameShape(c, d) /\ IsVar(d) /\ Evaluate(d, ds) = NIL
    BY <1>1, <2>4, BindDestType DEF UnifyConst
  <2>. QED BY <2>1, <2>2, <2>3, <2>4
<1>2. CASE ~IsVar(t)
  BY <1>1, <1>2 DEF UnifyTerms, UnifyBy
<1>3. CASE IsVar(t) /\ Evaluate(t, ss) # NIL
  BY <1>1, <1>3, EvaluateNotVar DEF UnifyTerms, UnifyBy
<1>4. CASE IsVar(t) /\ Evaluate(t, ss) = NIL
  BY <1>4, BindSourceType DEF UnifyTerms, UnifyBy
<1>. QED BY <1>2, <1>3, <1>4

\* prover::unify leaves a substitution, and fails against a null head.
THEOREM UnifyType ==
    ASSUME NEW ss, IsSubs(ss), NEW ds, IsSubs(ds),
           NEW t \in Terms, NEW d \in Terms \cup {NIL}
    PROVE  /\ IsSubs(Unify(t, ss, d, ds).sub)
           /\ Unify(t, ss, d, ds).ok => d \in Terms
<1>1. t # NIL
  BY TermShape
<1>2. CASE d = NIL
  BY <1>1, <1>2 DEF Unify, Result
<1>3. CASE d \in Terms
  <2>1. d # NIL
    BY <1>3, TermShape
  <2>. QED BY <1>1, <1>3, <2>1, UnifyTermsType DEF Unify
<1>. QED BY <1>2, <1>3

---------------------------------------------------------------------------
(* Terms whose predicates are names: unification binds variables to        *)
(* resources alone, and never throws.                                      *)

AtomsOnly(ss) == IsSubs(ss) /\ \A v \in DOMAIN ss : ss[v] \in Atoms

LEMMA NoSubsAtoms == AtomsOnly(NoSubs)
BY NoSubsType DEF AtomsOnly, NoSubs

LEMMA BindAtoms ==
    ASSUME NEW ss, AtomsOnly(ss), NEW v \in Vars, NEW t \in Atoms
    PROVE  AtomsOnly(Bind(ss, v, t)) /\ AtomsOnly(Emplace(ss, v, t))
<1>1. t \in Terms
  BY DEF Terms
<1>2. IsSubs(Bind(ss, v, t))
  BY <1>1, BindType DEF AtomsOnly
<1>. QED BY <1>2 DEF AtomsOnly, Bind, Emplace

LEMMA AtomShape ==
    ASSUME NEW t \in Atoms
    PROVE  t \in Terms /\ Len(t) = 1 /\ t[1] \in Resources /\ t = <<t[1]>> /\ t # NIL
BY DEF Atoms, Terms, NIL

\* A name, or what a bound variable stands for.
LEMMA EvaluateAtom ==
    ASSUME NEW ss, AtomsOnly(ss), NEW t \in Atoms, Evaluate(t, ss) # NIL
    PROVE  /\ Evaluate(t, ss) \in Atoms
           /\ ~IsVar(Evaluate(t, ss))
           /\ Evaluate(t, ss) = IF IsVar(t) THEN ss[t[1]] ELSE t
<1>1. CASE ~IsVar(t)
  BY <1>1, AtomShape DEF Evaluate, EvalConst
<1>2. CASE IsVar(t)
  <2>1. IsBound(t[1], ss) /\ Evaluate(t, ss) = EvalConst(ss[t[1]], ss)
    BY <1>2 DEF Evaluate
  <2>2. ss[t[1]] \in Atoms /\ ~IsVar(ss[t[1]])
    BY <2>1 DEF IsBound, AtomsOnly
  <2>. QED BY <1>2, <2>1, <2>2, AtomShape DEF EvalConst
<1>. QED BY <1>1, <1>2

LEMMA BindDestAtoms ==
    ASSUME NEW ss, AtomsOnly(ss), NEW ds, AtomsOnly(ds),
           NEW t \in Atoms, ~IsVar(t), NEW d \in Atoms, IsVar(d)
    PROVE  AtomsOnly(BindDest(t, ss, d, ds).sub) /\ ~BindDest(t, ss, d, ds).threw
<1>. DEFINE new == Emplace(ds, d[1], Evaluate(t, ss))
<1>1. Evaluate(t, ss) = t
  BY AtomShape DEF Evaluate, EvalConst
<1>2. AtomsOnly(new) /\ d[1] \in DOMAIN new
  <2>1. d[1] \in Vars
    BY DEF IsVar
  <2>2. AtomsOnly(new)
    BY <1>1, <2>1, BindAtoms
  <2>3. d[1] \in DOMAIN new
    BY DEF Emplace, Bind
  <2>. QED BY <2>2, <2>3
<1>3. Len(new[d[1]]) = 1
  <2>. HIDE DEF new
  <2>1. new[d[1]] \in Atoms
    BY <1>2 DEF AtomsOnly
  <2>. QED BY <2>1, AtomShape
<1>4. BindDest(t, ss, d, ds).sub = new
  BY DEF BindDest
<1>5. BindDest(t, ss, d, ds).threw <=> Len(new[d[1]]) = 3
  BY DEF BindDest
<1>6. AtomsOnly(BindDest(t, ss, d, ds).sub)
  BY <1>2, <1>4
<1>7. ~BindDest(t, ss, d, ds).threw
  BY <1>3, <1>5
<1>. QED BY <1>6, <1>7

LEMMA UnifyAtomsCalm ==
    ASSUME NEW ss, AtomsOnly(ss), NEW ds, AtomsOnly(ds), NEW t \in Atoms, NEW d \in Atoms
    PROVE  AtomsOnly(UnifyAtoms(t, ss, d, ds).sub) /\ ~UnifyAtoms(t, ss, d, ds).threw
<1>1. ASSUME NEW c \in Atoms, ~IsVar(c)
      PROVE  /\ AtomsOnly(UnifyConst(c, ss, d, ds, NoArgs).sub)
             /\ ~UnifyConst(c, ss, d, ds, NoArgs).threw
  BY <1>1, BindDestAtoms DEF UnifyConst, NoArgs, Result
<1>2. CASE ~IsVar(t)
  BY <1>1, <1>2 DEF UnifyAtoms, UnifyBy
<1>3. CASE IsVar(t) /\ Evaluate(t, ss) # NIL
  BY <1>1, <1>3, EvaluateAtom DEF UnifyAtoms, UnifyBy
<1>4. CASE IsVar(t) /\ Evaluate(t, ss) = NIL
  <2>1. t[1] \in Vars
    BY <1>4 DEF IsVar
  <2>2. AtomsOnly(BindSource(t, d, ds).sub) /\ ~BindSource(t, d, ds).threw
    BY <2>1, BindAtoms DEF BindSource, Result
  <2>. QED BY <1>4, <2>2 DEF UnifyAtoms, UnifyBy
<1>. QED BY <1>2, <1>3, <1>4

LEMMA ArgumentsAtoms ==
    ASSUME NEW t \in Terms, Len(t) # 1
    PROVE  Subject(t) \in Atoms /\ Object(t) \in Atoms
BY TermShape DEF Subject, Object, Atoms

LEMMA UnifyNamed ==
    ASSUME NEW ss, AtomsOnly(ss), NEW ds, AtomsOnly(ds),
           NEW t \in Terms, ~IsVar(t), NEW d \in Terms \cup {NIL}, d # NIL => ~IsVar(d)
    PROVE  AtomsOnly(Unify(t, ss, d, ds).sub) /\ ~Unify(t, ss, d, ds).threw
<1>1. t # NIL
  BY TermShape
<1>2. CASE d = NIL
  BY <1>1, <1>2 DEF Unify, Result
<1>3. CASE d # NIL /\ ~(SameShape(t, d) /\ t[1] = d[1])
  BY <1>1, <1>3 DEF Unify, UnifyTerms, UnifyBy, UnifyConst, Result
<1>4. CASE d # NIL /\ SameShape(t, d) /\ t[1] = d[1]
  <2>1. Unify(t, ss, d, ds) = UnifyArgs(t, ss, d, ds)
    BY <1>1, <1>4 DEF Unify, UnifyTerms, UnifyBy, UnifyConst
  <2>2. CASE Len(t) = 1
    BY <2>1, <2>2 DEF UnifyArgs, Result
  <2>3. CASE Len(t) # 1
    <3>. DEFINE r == UnifyAtoms(Subject(t), ss, Subject(d), ds)
    <3>1. /\ Subject(t) \in Atoms /\ Object(t) \in Atoms
          /\ Subject(d) \in Atoms /\ Object(d) \in Atoms
      BY <1>4, <2>3, ArgumentsAtoms DEF SameShape
    <3>2. AtomsOnly(r.sub) /\ ~r.threw
      BY <3>1, UnifyAtomsCalm
    <3>3. /\ AtomsOnly(UnifyAtoms(Object(t), ss, Object(d), r.sub).sub)
          /\ ~UnifyAtoms(Object(t), ss, Object(d), r.sub).threw
      BY <3>1, <3>2, UnifyAtomsCalm
    <3>4. UnifyArgs(t, ss, d, ds) =
             IF r.ok /\ ~r.threw THEN UnifyAtoms(Object(t), ss, Object(d), r.sub) ELSE r
      BY <2>3 DEF UnifyArgs
    <3>. HIDE DEF r
    <3>. QED BY <2>1, <3>2, <3>3, <3>4
  <2>. QED BY <2>2, <2>3
<1>. QED BY <1>2, <1>3, <1>4

---------------------------------------------------------------------------
(* The condition of a rule (mksubs, caseof): it is met whenever the rule's *)
(* head unifies with the term, if the head's variables are not the term's  *)
(* and not bound.                                                          *)

\* The condition c says of a variable what is known of it: its binding in the
\* frame's substitution ss, or the one ds that unification has made so far.  A
\* variable of the head (H) is never bound to a variable.
Agree(c, ds, ss, H) ==
    /\ \A v \in DOMAIN c :
          /\ v \in Vars /\ c[v] \in Atoms /\ ~IsVar(c[v])
          /\ IsBound(v, ss) => c[v] = ss[v]
          /\ ~IsBound(v, ss) => v \in DOMAIN ds /\ ds[v] = c[v]
    /\ \A v \in H \cap DOMAIN ds : ~IsVar(ds[v])

LEMMA UnifyConstAtom ==
    ASSUME NEW ss, AtomsOnly(ss), NEW ds, AtomsOnly(ds), NEW n \in Atoms, ~IsVar(n),
           NEW y \in Atoms, UnifyConst(n, ss, y, ds, NoArgs).ok
    PROVE  \/ /\ ~IsVar(y) /\ n = y
              /\ UnifyConst(n, ss, y, ds, NoArgs).sub = ds
           \/ /\ IsVar(y) /\ y[1] \in DOMAIN ds /\ ds[y[1]] = n
              /\ UnifyConst(n, ss, y, ds, NoArgs).sub = ds
           \/ /\ IsVar(y) /\ ~IsBound(y[1], ds)
              /\ UnifyConst(n, ss, y, ds, NoArgs).sub = Emplace(ds, y[1], n)
<1>1. Evaluate(n, ss) = n
  BY AtomShape DEF Evaluate, EvalConst
<1>2. \A z \in Atoms : n[1] = z[1] => n = z
  BY AtomShape
<1>3. CASE ~IsVar(y)
  BY <1>2, <1>3 DEF UnifyConst, Result, NoArgs
<1>4. CASE IsVar(y) /\ Evaluate(y, ds) # NIL
  <2>1. Evaluate(y, ds) \in Atoms /\ Evaluate(y, ds) = ds[y[1]]
    BY <1>4, EvaluateAtom
  <2>2. IsBound(y[1], ds)
    BY <1>4 DEF Evaluate
  <2>3. UnifyConst(n, ss, y, ds, NoArgs) =
           IF SameShape(n, y)
           THEN IF SameShape(n, Evaluate(y, ds)) /\ n[1] = Evaluate(y, ds)[1]
                THEN Result(TRUE, ds) ELSE Result(FALSE, ds)
           ELSE Result(FALSE, ds)
    BY <1>4 DEF UnifyConst, NoArgs
  <2>4. n[1] = Evaluate(y, ds)[1] /\ UnifyConst(n, ss, y, ds, NoArgs).sub = ds
    BY <2>3 DEF Result
  <2>. QED BY <1>2, <1>4, <2>1, <2>2, <2>4 DEF IsBound
<1>5. CASE IsVar(y) /\ Evaluate(y, ds) = NIL
  <2>1. ~IsBound(y[1], ds)
    <3>. SUFFICES ASSUME IsBound(y[1], ds) PROVE FALSE
      OBVIOUS
    <3>1. ds[y[1]] \in Atoms
      BY DEF IsBound, AtomsOnly
    <3>2. Evaluate(y, ds) = ds[y[1]]
      BY <1>5, <3>1, AtomShape DEF Evaluate, EvalConst
    <3>. QED BY <1>5, <3>1, <3>2, AtomShape
  <2>2. SameShape(n, y)
    BY AtomShape DEF SameShape
  <2>3. UnifyConst(n, ss, y, ds, NoArgs) = BindDest(n, ss, y, ds)
    BY <1>5, <2>2 DEF UnifyConst
  <2>4. UnifyConst(n, ss, y, ds, NoArgs).sub = Emplace(ds, y[1], n)
    BY <1>1, <2>3 DEF BindDest
  <2>. QED BY <1>5, <2>1, <2>4
<1>. QED BY <1>3, <1>4, <1>5

LEMMA PositionAgrees ==
    ASSUME NEW ss, AtomsOnly(ss), NEW ds, AtomsOnly(ds), NEW c, NEW H,
           H \cap DOMAIN ss = {}, Agree(c, ds, ss, H),
           NEW x \in Atoms, x[1] \notin H,
           NEW y \in Atoms, IsVar(y) => y[1] \in H,
           UnifyAtoms(x, ss, y, ds).ok
    PROVE  /\ MkSubsAt(x, y, MkResult(TRUE, c)).ok
           /\ Agree(MkSubsAt(x, y, MkResult(TRUE, c)).sub, UnifyAtoms(x, ss, y, ds).sub, ss, H)
<1>. DEFINE m == MkSubsAt(x, y, MkResult(TRUE, c))
            u == UnifyAtoms(x, ss, y, ds)
<1>1. x = <<x[1]>> /\ y = <<y[1]>> /\ x # NIL
  BY AtomShape
<1>2. \A v \in H : ~IsBound(v, ss)
  BY DEF IsBound
<1>3. \A v \in H : v \in DOMAIN ds => ~IsVar(ds[v])
  BY DEF Agree
<1>4. CASE ~IsVar(x) /\ ~IsVar(y)
  <2>1. u = UnifyConst(x, ss, y, ds, NoArgs)
    BY <1>4 DEF UnifyAtoms, UnifyBy
  <2>2. x = y /\ u.sub = ds
    BY <1>4, <2>1, UnifyConstAtom
  <2>3. m = MkResult(TRUE, c)
    BY <1>4, <2>2 DEF MkSubsAt, MkResult
  <2>. QED BY <2>2, <2>3 DEF MkResult
<1>5. CASE ~IsVar(x) /\ IsVar(y)
  <2>1. u = UnifyConst(x, ss, y, ds, NoArgs)
    BY <1>5 DEF UnifyAtoms, UnifyBy
  <2>2. m = IF y[1] \notin DOMAIN c THEN MkResult(TRUE, Bind(c, y[1], x))
            ELSE MkResult(c[y[1]] = x, c)
    BY <1>5 DEF MkSubsAt, MkResult
  <2>3. y[1] \in H /\ y[1] \in Vars
    BY <1>5 DEF IsVar
  <2>4. \/ y[1] \in DOMAIN ds /\ ds[y[1]] = x /\ u.sub = ds
        \/ ~IsBound(y[1], ds) /\ u.sub = Emplace(ds, y[1], x)
    BY <1>5, <2>1, UnifyConstAtom
  <2>5. CASE y[1] \in DOMAIN ds /\ ds[y[1]] = x /\ u.sub = ds
    <3>1. CASE y[1] \in DOMAIN c
      <4>1. c[y[1]] = x
        BY <1>2, <2>3, <2>5, <3>1 DEF Agree
      <4>2. m = MkResult(TRUE, c)
        BY <2>2, <3>1, <4>1
      <4>. QED BY <2>5, <4>2 DEF MkResult
    <3>2. CASE y[1] \notin DOMAIN c
      <4>1. m = MkResult(TRUE, Bind(c, y[1], x))
        BY <2>2, <3>2
      <4>2. Agree(Bind(c, y[1], x), ds, ss, H)
        BY <1>2, <1>5, <2>3, <2>5 DEF Agree, Bind
      <4>. QED BY <2>5, <4>1, <4>2 DEF MkResult
    <3>. QED BY <3>1, <3>2
  <2>6. CASE ~IsBound(y[1], ds) /\ u.sub = Emplace(ds, y[1], x)
    <3>1. y[1] \notin DOMAIN ds
      BY <1>3, <2>3, <2>6 DEF IsBound
    <3>2. y[1] \notin DOMAIN c
      BY <1>2, <2>3, <3>1 DEF Agree
    <3>3. m = MkResult(TRUE, Bind(c, y[1], x)) /\ u.sub = Bind(ds, y[1], x)
      BY <2>2, <2>6, <3>1, <3>2 DEF Emplace
    <3>4. Agree(Bind(c, y[1], x), Bind(ds, y[1], x), ss, H)
      BY <1>2, <1>5, <2>3, <3>1 DEF Agree, Bind
    <3>. QED BY <3>3, <3>4 DEF MkResult
  <2>. QED BY <2>4, <2>5, <2>6
<1>6. CASE IsVar(x) /\ Evaluate(x, ss) # NIL
  <2>. DEFINE n == ss[x[1]]
  <2>1. Evaluate(x, ss) = n /\ n \in Atoms /\ ~IsVar(n)
    BY <1>6, EvaluateAtom
  <2>2. IsBound(x[1], ss) /\ x[1] \in Vars
    BY <1>6 DEF Evaluate, IsVar
  <2>3. u = UnifyConst(n, ss, y, ds, NoArgs)
    BY <1>6, <2>1 DEF UnifyAtoms, UnifyBy
  <2>4. CASE ~IsVar(y)
    <3>1. n = y /\ u.sub = ds
      BY <2>1, <2>3, <2>4, UnifyConstAtom
    <3>2. m = IF x[1] \notin DOMAIN c THEN MkResult(TRUE, Bind(c, x[1], y))
              ELSE MkResult(c[x[1]] = y, c)
      BY <1>6, <2>4 DEF MkSubsAt, MkResult
    <3>3. CASE x[1] \in DOMAIN c
      <4>1. c[x[1]] = y
        BY <2>2, <3>1, <3>3 DEF Agree
      <4>2. m = MkResult(TRUE, c)
        BY <3>2, <3>3, <4>1
      <4>. QED BY <3>1, <4>2 DEF MkResult
    <3>4. CASE x[1] \notin DOMAIN c
      <4>1. Agree(Bind(c, x[1], y), ds, ss, H)
        BY <2>2, <2>4, <3>1 DEF Agree, Bind
      <4>. QED BY <3>1, <3>2, <3>4, <4>1 DEF MkResult
    <3>. QED BY <3>3, <3>4
  <2>5. CASE IsVar(y)
    <3>1. \/ u.sub = ds
          \/ ~IsBound(y[1], ds) /\ u.sub = Emplace(ds, y[1], n)
      BY <2>1, <2>3, <2>5, UnifyConstAtom
    <3>2. m = MkResult(TRUE, c)
      BY <1>6, <2>5 DEF MkSubsAt, MkResult
    <3>3. CASE u.sub = ds
      BY <3>2, <3>3 DEF MkResult
    <3>4. CASE ~IsBound(y[1], ds) /\ u.sub = Emplace(ds, y[1], n)
      <4>1. y[1] \in H /\ y[1] \notin DOMAIN ds
        BY <1>3, <2>5, <3>4 DEF IsBound
      <4>2. u.sub = Bind(ds, y[1], n)
        BY <3>4, <4>1 DEF Emplace
      <4>3. Agree(c, Bind(ds, y[1], n), ss, H)
        BY <2>1, <4>1 DEF Agree, Bind
      <4>. QED BY <3>2, <4>2, <4>3 DEF MkResult
    <3>. QED BY <3>1, <3>3, <3>4
  <2>. QED BY <2>4, <2>5
<1>7. CASE IsVar(x) /\ Evaluate(x, ss) = NIL
  <2>1. u = BindSource(x, y, ds)
    BY <1>7 DEF UnifyAtoms, UnifyBy
  <2>2. ~IsBound(x[1], ss) /\ x[1] \in Vars
    <3>. SUFFICES ASSUME IsBound(x[1], ss) PROVE FALSE
      BY <1>7 DEF IsVar
    <3>1. ss[x[1]] \in Atoms
      BY DEF IsBound, AtomsOnly
    <3>2. Evaluate(x, ss) = ss[x[1]]
      BY <1>7, <3>1, AtomShape DEF Evaluate, EvalConst
    <3>. QED BY <1>7, <3>1, <3>2, AtomShape
  <2>3. u.sub = Bind(ds, x[1], y) /\ (IsBound(x[1], ds) => ds[x[1]] = y)
    BY <2>1 DEF BindSource, Result
  <2>4. x[1] \in DOMAIN c => ds[x[1]] = y /\ c[x[1]] = y
    BY <2>2, <2>3 DEF Agree, IsBound
  <2>5. CASE ~IsVar(y)
    <3>1. m = IF x[1] \notin DOMAIN c THEN MkResult(TRUE, Bind(c, x[1], y))
              ELSE MkResult(c[x[1]] = y, c)
      BY <1>7, <2>5 DEF MkSubsAt, MkResult
    <3>2. CASE x[1] \in DOMAIN c
      <4>1. Agree(c, Bind(ds, x[1], y), ss, H)
        BY <2>2, <2>4, <2>5, <3>2 DEF Agree, Bind
      <4>2. m = MkResult(TRUE, c)
        BY <2>4, <3>1, <3>2
      <4>. QED BY <2>3, <4>1, <4>2 DEF MkResult
    <3>3. CASE x[1] \notin DOMAIN c
      <4>1. Agree(Bind(c, x[1], y), Bind(ds, x[1], y), ss, H)
        BY <2>2, <2>5 DEF Agree, Bind
      <4>. QED BY <2>3, <3>1, <3>3, <4>1 DEF MkResult
    <3>. QED BY <3>2, <3>3
  <2>6. CASE IsVar(y)
    <3>1. m = MkResult(TRUE, c)
      BY <1>7, <2>6 DEF MkSubsAt, MkResult
    <3>2. x[1] \notin DOMAIN c
      BY <2>4, <2>6 DEF Agree
    <3>3. Agree(c, Bind(ds, x[1], y), ss, H)
      BY <2>2, <3>2 DEF Agree, Bind
    <3>. QED BY <2>3, <3>1, <3>3 DEF MkResult
  <2>. QED BY <2>5, <2>6
<1>. QED BY <1>4, <1>5, <1>6, <1>7

\* The variables of the head h are not those of t and not bound.
Apart(h, t, ss) ==
    \A k \in DOMAIN h : h[k] \in Vars => h[k] \notin DOMAIN ss /\ \A j \in DOMAIN t : t[j] # h[k]

LEMMA ConditionMet ==
    ASSUME NEW ss, AtomsOnly(ss), NEW t \in Terms, ~IsVar(t), NEW h \in Terms, ~IsVar(h),
           Apart(h, t, ss), Unify(t, ss, h, NoSubs).ok
    PROVE  MkSubs(t, h).ok /\ CaseOf(MkSubs(t, h).sub, ss)
<1>1. t # NIL /\ h # NIL
  BY TermShape
<1>2. SameShape(t, h) /\ t[1] = h[1] /\ UnifyArgs(t, ss, h, NoSubs).ok
  BY <1>1 DEF Unify, UnifyTerms, UnifyBy, UnifyConst, Result
<1>3. MkSubsAt(t, h, MkResult(TRUE, NoSubs)) = MkResult(TRUE, NoSubs)
  BY <1>2 DEF MkSubsAt, MkResult
<1>4. CASE Len(t) = 1
  <2>1. MkSubs(t, h) = MkResult(TRUE, NoSubs)
    BY <1>1, <1>2, <1>3, <1>4 DEF MkSubs
  <2>. QED BY <2>1 DEF MkResult, CaseOf, NoSubs
<1>5. CASE Len(t) # 1
  <2>. DEFINE H == {h[k] : k \in DOMAIN h} \cap Vars
              r == UnifyAtoms(Subject(t), ss, Subject(h), NoSubs)
              s == UnifyAtoms(Object(t), ss, Object(h), r.sub)
              m == MkSubsAt(Subject(t), Subject(h), MkResult(TRUE, NoSubs))
  <2>1. /\ Subject(t) \in Atoms /\ Object(t) \in Atoms
        /\ Subject(h) \in Atoms /\ Object(h) \in Atoms
    BY <1>2, <1>5, ArgumentsAtoms DEF SameShape
  <2>2. /\ H \cap DOMAIN ss = {}
        /\ t[2] \notin H /\ t[3] \notin H
        /\ h[2] \in Vars => h[2] \in H
        /\ h[3] \in Vars => h[3] \in H
    <3>1. Len(t) = 3 /\ Len(h) = 3
      BY <1>2, <1>5, TermShape DEF SameShape
    <3>2. t \in Triples /\ h \in Triples
      BY <3>1, TermShape
    <3>3. DOMAIN t = 1..3 /\ DOMAIN h = 1..3
      BY <3>2 DEF Triples
    <3>4. H \cap DOMAIN ss = {} /\ \A j \in DOMAIN t : t[j] \notin H
      BY DEF Apart
    <3>5. 2 \in 1..3 /\ 3 \in 1..3
      OBVIOUS
    <3>. QED BY <3>3, <3>4, <3>5
  <2>3. /\ Subject(t)[1] = t[2] /\ Object(t)[1] = t[3]
        /\ Subject(h)[1] = h[2] /\ Object(h)[1] = h[3]
    BY DEF Subject, Object
  <2>4. /\ Subject(t)[1] \notin H /\ Object(t)[1] \notin H
        /\ IsVar(Subject(h)) => Subject(h)[1] \in H
        /\ IsVar(Object(h)) => Object(h)[1] \in H
    <3>. HIDE DEF H
    <3>. QED BY <2>2, <2>3 DEF IsVar
  <2>5. r.ok /\ s.ok
    <3>1. UnifyArgs(t, ss, h, NoSubs) = IF r.ok /\ ~r.threw THEN s ELSE r
      BY <1>5 DEF UnifyArgs
    <3>2. ~r.threw
      BY <2>1, NoSubsAtoms, UnifyAtomsCalm
    <3>3. r.ok
      <4>. HIDE DEF r, s
      <4>. QED BY <1>2, <3>1
    <3>. HIDE DEF r, s
    <3>. QED BY <1>2, <3>1, <3>2, <3>3
  <2>6. Agree(NoSubs, NoSubs, ss, H)
    BY DEF Agree, NoSubs
  <2>7. m.ok /\ Agree(m.sub, r.sub, ss, H)
    <3>. HIDE DEF H
    <3>. QED BY <2>1, <2>2, <2>4, <2>5, <2>6, NoSubsAtoms, PositionAgrees
  <2>8. m = MkResult(TRUE, m.sub)
    BY <2>7 DEF MkSubsAt, MkResult
  <2>9. AtomsOnly(r.sub)
    BY <2>1, NoSubsAtoms, UnifyAtomsCalm
  <2>. DEFINE o == MkSubsAt(Object(t), Object(h), MkResult(TRUE, m.sub))
  <2>10. o.ok /\ Agree(o.sub, s.sub, ss, H)
    <3>. HIDE DEF H, r, m
    <3>. QED BY <2>1, <2>2, <2>4, <2>5, <2>7, <2>9, PositionAgrees
  <2>11. MkSubs(t, h) = o
    <3>1. MkSubs(t, h) = MkSubsAt(Object(t), Object(h), m)
      BY <1>1, <1>2, <1>3, <1>5 DEF MkSubs
    <3>. HIDE DEF m
    <3>. QED BY <2>8, <3>1
  <2>12. CaseOf(o.sub, ss)
    <3>. HIDE DEF H, o, s
    <3>. QED BY <2>10 DEF Agree, CaseOf, IsBound
  <2>. HIDE DEF o
  <2>. QED BY <2>10, <2>11, <2>12
<1>. QED BY <1>4, <1>5

---------------------------------------------------------------------------
(* The order of a set of numbers.                                          *)

LEMMA LeastExists ==
    ASSUME NEW T \in SUBSET Nat, T # {}
    PROVE  \E m \in T : \A x \in T : m <= x
<1>1. PICK m \in T : \A x \in T : <<x, m>> \notin OpToRel(<, Nat)
  BY NatLessThanWellFounded, WFMin
<1>2. \A x \in T : ~(x < m)
  BY <1>1 DEF OpToRel
<1>. QED BY <1>2

LEMMA GreatestExists ==
    ASSUME NEW n \in Nat, NEW T \in SUBSET (0..n), T # {}
    PROVE  \E m \in T : \A x \in T : x <= m
<1>. DEFINE U == {n - x : x \in T}
<1>1. U \in SUBSET Nat /\ U # {}
  <2>1. \A x \in T : x \in 0..n
    OBVIOUS
  <2>2. \A x \in T : n - x \in Nat
    BY <2>1
  <2>3. U \subseteq Nat
    BY <2>2
  <2>4. PICK x \in T : TRUE
    OBVIOUS
  <2>5. n - x \in U
    BY <2>4
  <2>. QED BY <2>3, <2>5
<1>2. PICK u \in U : \A y \in U : u <= y
  BY <1>1, LeastExists
<1>3. PICK m \in T : u = n - m
  BY <1>2
<1>4. \A x \in T : n - m <= n - x
  BY <1>2, <1>3
<1>. QED BY <1>4

LEMMA FiniteNumbers ==
    ASSUME NEW n \in Nat, NEW S \in SUBSET (1..n)
    PROVE  IsFiniteSet(S) /\ Cardinality(S) \in Nat
<1>1. IsFiniteSet(1..n)
  BY FS_Interval
<1>2. IsFiniteSet(S)
  BY <1>1, FS_Subset
<1>. QED BY <1>2, FS_CardinalityType

\* Every position up to the size of the set is the rank of one of its members.
LEMMA RankOnto ==
    ASSUME NEW n \in Nat, NEW S \in SUBSET (1..n), NEW k \in 1..Cardinality(S)
    PROVE  \E h \in S : Rank(S, h) = k
<1>1. IsFiniteSet(S) /\ Cardinality(S) \in Nat
  BY FiniteNumbers
<1>2. S \subseteq Nat /\ k \in Nat /\ 1 <= k /\ k <= Cardinality(S)
  <2>1. S \subseteq Nat
    OBVIOUS
  <2>. QED BY <1>1, <2>1
<1>. DEFINE upto(h) == {x \in S : x <= h}
            below(h) == {x \in S : x < h}
            A == {h \in S : ~(Rank(S, h) < k)}
<1>3. \A h \in S : IsFiniteSet(upto(h)) /\ IsFiniteSet(below(h))
  BY <1>1, FS_Subset
<1>4. \A h : Rank(S, h) = Cardinality(upto(h))
  BY DEF Rank
<1>5. \A h \in S : Rank(S, h) = Cardinality(below(h)) + 1 /\ Cardinality(below(h)) \in Nat
  <2>. TAKE h \in S
  <2>1. upto(h) = below(h) \cup {h} /\ h \notin below(h)
    <3>1. \A x \in S : x <= h <=> x < h \/ x = h
      BY <1>2
    <3>2. ~(h < h)
      BY <1>2
    <3>. QED BY <3>1, <3>2, Zenon
  <2>2. IsFiniteSet(below(h))
    BY <1>3
  <2>3. Cardinality(below(h)) \in Nat
    BY <2>2, FS_CardinalityType
  <2>4. Cardinality(below(h) \cup {h}) = Cardinality(below(h)) + 1
    BY <2>1, <2>2, FS_AddElement
  <2>. QED BY <1>4, <2>1, <2>3, <2>4
<1>6. A # {}
  <2>1. S # {}
    BY <1>1, <1>2, FS_EmptySet
  <2>2. PICK m \in S : \A x \in S : x <= m
    <3>1. S \in SUBSET (0..n)
      OBVIOUS
    <3>. QED BY <2>1, <3>1, GreatestExists
  <2>3. upto(m) = S
    BY <2>2
  <2>4. Rank(S, m) = Cardinality(S)
    BY <1>4, <2>3
  <2>. QED BY <1>1, <1>2, <2>4
<1>7. PICK h \in A : \A x \in A : h <= x
  <2>1. A \subseteq Nat
    BY <1>2
  <2>. QED BY <1>6, <2>1, LeastExists
<1>8. Cardinality(below(h)) < k
  <2>1. CASE below(h) = {}
    BY <1>2, <2>1, FS_EmptySet
  <2>2. CASE below(h) # {}
    <3>1. PICK m \in below(h) : \A x \in below(h) : x <= m
      <4>1. below(h) \in SUBSET (0..n)
        <5>1. S \subseteq 0..n
          OBVIOUS
        <5>. QED BY <5>1, Zenon
      <4>. QED BY <2>2, <4>1, GreatestExists
    <3>2. m \in S /\ m < h
      OBVIOUS
    <3>3. upto(m) = below(h)
      <4>1. \A x \in upto(m) : x \in below(h)
        BY <1>2, <3>2
      <4>2. \A x \in below(h) : x \in upto(m)
        BY <3>1
      <4>. QED BY <4>1, <4>2
    <3>4. m \notin A
      BY <1>2, <1>7, <3>2
    <3>. QED BY <1>4, <3>2, <3>3, <3>4
  <2>. QED BY <2>1, <2>2
<1>9. Rank(S, h) = k
  <2>1. h \in S /\ ~(Rank(S, h) < k)
    OBVIOUS
  <2>. QED BY <1>2, <1>5, <1>8, <2>1
<1>. QED BY <1>9

\* A loop over a set of numbers visits its members, as many as there are.
LEMMA InOrderType ==
    ASSUME NEW n \in Nat, NEW S \in SUBSET (1..n)
    PROVE  /\ InOrder(S) \in Seq(S)
           /\ Len(InOrder(S)) = Cardinality(S)
           /\ DOMAIN InOrder(S) = 1..Cardinality(S)
           /\ \A k \in 1..Cardinality(S) : InOrder(S)[k] \in S
<1>1. Cardinality(S) \in Nat
  BY FiniteNumbers
<1>2. \A k \in 1..Cardinality(S) : (CHOOSE h \in S : Rank(S, h) = k) \in S
  BY RankOnto
<1>. QED BY <1>1, <1>2 DEF InOrder

---------------------------------------------------------------------------
(* The types.                                                              *)

Substitutions == UNION {[D -> Terms] : D \in SUBSET Vars}

LEMMA IsSubsEquiv == \A ss : ss \in Substitutions <=> IsSubs(ss)
<1>1. ASSUME NEW ss, IsSubs(ss) PROVE ss \in Substitutions
  BY <1>1 DEF IsSubs, Substitutions
<1>2. ASSUME NEW ss \in Substitutions PROVE IsSubs(ss)
  <2>1. PICK D \in SUBSET Vars : ss \in [D -> Terms]
    BY DEF Substitutions
  <2>. QED BY <2>1 DEF IsSubs
<1>. QED BY <1>1, <1>2

\* The two ways to say that s is a sequence of n substitutions.
LEMMA SubstSeq ==
    ASSUME NEW n \in Nat, NEW s
    PROVE  /\ s = [i \in 1..n |-> s[i]]
           /\ \A i \in 1..n : IsSubs(s[i])
           <=> s \in Seq(Substitutions) /\ Len(s) = n
<1>1. ASSUME s = [i \in 1..n |-> s[i]], \A i \in 1..n : IsSubs(s[i])
      PROVE  s \in Seq(Substitutions) /\ Len(s) = n
  <2>1. \A i \in 1..n : s[i] \in Substitutions
    BY <1>1, IsSubsEquiv
  <2>2. s \in [1..n -> Substitutions]
    BY <1>1, <2>1
  <2>. QED BY <2>2
<1>2. ASSUME s \in Seq(Substitutions), Len(s) = n
      PROVE  /\ s = [i \in 1..n |-> s[i]]
             /\ \A i \in 1..n : IsSubs(s[i])
  BY <1>2, IsSubsEquiv
<1>. QED BY <1>1, <1>2

LEMMA FrameType ==
    ASSUME NEW rule \in Nat, NEW idx \in Nat, NEW prev \in Nat, NEW creator \in Nat
    PROVE  Frame(rule, idx, prev, creator) \in Frames
BY DEF Frame, Frames, Null

LEMMA TypesNow ==
    ASSUME Types
    PROVE  /\ frames \in Seq(Frames) /\ kb \in Seq(Rules)
           /\ Len(frames) \in Nat /\ DOMAIN frames = 1..Len(frames)
           /\ subst \in Seq(Substitutions) /\ Len(subst) = Len(frames)
<1>1. frames \in Seq(Frames) /\ kb \in Seq(Rules)
  BY DEF Types
<1>2. Len(frames) \in Nat /\ DOMAIN frames = 1..Len(frames)
  BY <1>1
<1>3. subst = [i \in 1..Len(frames) |-> subst[i]] /\ \A i \in 1..Len(frames) : IsSubs(subst[i])
  BY <1>2 DEF Types
<1>. QED BY <1>1, <1>2, <1>3, SubstSeq

---------------------------------------------------------------------------
(* What the shape of the frames says of the frame being stepped.           *)

LEMMA FrameFacts ==
    ASSUME TypeOK, NEW i \in DOMAIN frames
    PROVE  /\ i \in Nat /\ i # Null
           /\ frames[i] \in Frames
           /\ frames[i].rule \in DOMAIN kb
           /\ BodyOf(i) \in Seq(Terms)
           /\ HeadOf(i) \in Terms \cup {NIL}
           /\ IsSubs(subst[i])
           /\ ~IsDone(i) => /\ frames[i].idx + 1 <= Len(BodyOf(i))
                            /\ Wanted(i) \in Terms
           /\ frames[i].prev # Null => /\ frames[i].prev \in DOMAIN frames
                                       /\ HeadOf(i) \in Terms
<1>1. i \in Nat /\ i # Null /\ frames[i] \in Frames /\ IsSubs(subst[i]) /\ FrameOK(i)
  <2>1. Types /\ FrameOK(i)
    BY DEF TypeOK
  <2>2. i \in 1..Len(frames) /\ frames[i] \in Frames /\ Len(frames) \in Nat
    BY <2>1, TypesNow
  <2>3. IsSubs(subst[i])
    BY <2>1 DEF Types
  <2>. QED BY <2>1, <2>2, <2>3 DEF Null
<1>2. frames[i].rule \in DOMAIN kb
  BY <1>1 DEF FrameOK
<1>3. kb[frames[i].rule] \in Rules
  BY <1>2 DEF TypeOK, Types
<1>4. BodyOf(i) \in Seq(Terms) /\ HeadOf(i) \in Terms \cup {NIL}
  BY <1>3 DEF Rules, BodyOf, HeadOf
<1>5. ASSUME ~IsDone(i)
      PROVE  frames[i].idx + 1 <= Len(BodyOf(i)) /\ Wanted(i) \in Terms
  <2>1. frames[i].idx <= Len(BodyOf(i)) /\ frames[i].idx # Len(BodyOf(i))
    BY <1>1, <1>5 DEF FrameOK, IsDone
  <2>2. frames[i].idx \in Nat /\ Len(BodyOf(i)) \in Nat
    BY <1>1, <1>4 DEF Frames
  <2>3. frames[i].idx + 1 \in 1..Len(BodyOf(i))
    BY <2>1, <2>2
  <2>. QED BY <1>4, <2>3 DEF Wanted
<1>6. ASSUME frames[i].prev # Null
      PROVE  frames[i].prev \in DOMAIN frames /\ HeadOf(i) \in Terms
  <2>1. frames[i].prev \in Nat /\ frames[i].creator \in Nat
    BY <1>1 DEF Frames
  <2>2. frames[i].prev <= frames[i].creator /\ frames[i].creator < i
    BY <1>1 DEF FrameOK
  <2>3. frames \in Seq(Frames)
    BY DEF TypeOK, Types
  <2>4. frames[i].prev \in DOMAIN frames
    BY <1>6, <2>1, <2>2, <2>3 DEF Null
  <2>. QED BY <1>1, <1>4, <1>6, <2>4 DEF FrameOK
<1>. QED BY <1>1, <1>2, <1>4, <1>5, <1>6

LEMMA TopIsFrame ==
    ASSUME TypeOK, status = "stepping"
    PROVE  Top \in DOMAIN frames /\ cur \in DOMAIN frames
BY DEF TypeOK, Types, Top, Null, Pointers

\* Frames made before a step stay as they were, but for their next pointer.
LEMMA OldFrames ==
    ASSUME TypeOK, frames' \in Seq(Frames), Len(frames) <= Len(frames'),
           \A r \in DOMAIN kb : r \in DOMAIN kb' /\ kb'[r] = kb[r],
           NEW i \in DOMAIN frames,
           \A j \in DOMAIN frames :
               /\ frames'[j].rule = frames[j].rule
               /\ frames'[j].idx = frames[j].idx
               /\ frames'[j].prev = frames[j].prev
               /\ frames'[j].creator = frames[j].creator,
           frames'[i].next \in Pointers'
    PROVE  FrameOK(i)'
<1>1. FrameOK(i)
  BY DEF TypeOK
<1>2. \A j \in DOMAIN frames :
          frames[j].rule \in DOMAIN kb /\ BodyOf(j)' = BodyOf(j) /\ HeadOf(j)' = HeadOf(j)
  BY FrameFacts DEF BodyOf, HeadOf
<1>3. \A j \in DOMAIN frames : IsDone(j)' <=> IsDone(j)
  BY <1>2 DEF IsDone
<1>4. frames[i].prev # Null => frames[i].prev \in DOMAIN frames
  BY FrameFacts
<1>. QED BY <1>1, <1>2, <1>3, <1>4 DEF FrameOK

---------------------------------------------------------------------------
(* TypeOK is kept by every action.                                         *)

LEMMA InitTypeOK == Init => TypeOK
<1>. SUFFICES ASSUME Init PROVE TypeOK
  OBVIOUS
<1>1. kb \in Seq(Rules)
  BY KBsAreRuleBases DEF Init
<1>2. frames \in Seq(Frames) /\ subst \in Seq(Substitutions) /\ Len(subst) = Len(frames)
  BY DEF Init
<1>3. Len(frames) = 0 /\ DOMAIN frames = {}
  BY DEF Init
<1>4. subst = [i \in 1..Len(frames) |-> subst[i]] /\ \A i \in 1..Len(frames) : IsSubs(subst[i])
  BY <1>2, <1>3, SubstSeq
<1>5. Types
  BY <1>1, <1>2, <1>3, <1>4 DEF Init, Types, Pointers, Null, Status
<1>. QED BY <1>3, <1>5 DEF Init, TypeOK

\* Return reads a pointer of a frame: it leads to a frame or ends the loop.
LEMMA ReturnTypes ==
    ASSUME Return, frames' \in Seq(Frames), frames'[cur].next \in Pointers'
    PROVE  /\ cur' \in Pointers' /\ rec' \in Pointers' /\ rec' = Null
           /\ status' \in {"stepping", "reporting"}
           /\ status' = "stepping" <=> cur' # Null
<1>1. rec' \in Pointers'
  BY DEF Return, Pointers, Null
<1>. QED BY <1>1 DEF Return, Status

LEMMA DoQueryTypeOK ==
    ASSUME TypeOK, NEW goal \in Goals, DoQuery(goal)
    PROVE  TypeOK'
<1>. PICK new \in Nat : new = Len(frames) + 1
  BY TypesNow DEF TypeOK
<1>. DEFINE query == [head |-> NIL, body |-> goal]
            f == Frame(Len(kb) + 1, 0, Null, Null)
<1>1. /\ frames \in Seq(Frames) /\ kb \in Seq(Rules)
      /\ subst \in Seq(Substitutions) /\ Len(subst) = Len(frames)
  BY TypesNow DEF TypeOK
<1>2. query \in Rules /\ goal \in Seq(Terms)
  BY GoalsAreBodies DEF Rules
<1>3. kb' \in Seq(Rules) /\ Len(kb') = Len(kb) + 1 /\ kb'[Len(kb) + 1] = query
  BY <1>1, <1>2 DEF DoQuery
<1>4. \A r \in DOMAIN kb : r \in DOMAIN kb' /\ kb'[r] = kb[r]
  BY <1>1, <1>2 DEF DoQuery
<1>5. f \in Frames
  BY <1>1 DEF Frame, Frames, Null
<1>6. /\ frames' \in Seq(Frames) /\ Len(frames') = new /\ frames'[new] = f
      /\ \A i \in DOMAIN frames : frames'[i] = frames[i]
  BY <1>1, <1>5 DEF DoQuery
<1>7. subst' \in Seq(Substitutions) /\ Len(subst') = Len(frames')
  BY <1>1, <1>6, NoSubsType, IsSubsEquiv DEF DoQuery
<1>8. FrameOK(new)'
  <2>1. frames'[new].rule = Len(kb) + 1 /\ frames'[new].idx = 0 /\ frames'[new].prev = 0
        /\ frames'[new].creator = 0 /\ frames'[new].next = 0
    BY <1>6 DEF Frame, Null
  <2>2. HeadOf(new)' = NIL /\ BodyOf(new)' = goal
    BY <1>3, <2>1 DEF HeadOf, BodyOf
  <2>3. Len(kb) + 1 \in DOMAIN kb'
    BY <1>1, <1>3
  <2>4. 0 <= Len(goal) /\ 0 < new
    BY <1>1, <1>2
  <2>. QED BY <1>6, <2>1, <2>2, <2>3, <2>4 DEF FrameOK, Null, Pointers
<1>9. \A i \in DOMAIN frames : FrameOK(i)'
  <2>. TAKE i \in DOMAIN frames
  <2>1. frames'[i].next \in Pointers'
    BY <1>1, <1>6 DEF TypeOK, FrameOK, Pointers
  <2>. QED BY <1>1, <1>4, <1>6, <2>1, OldFrames
<1>10. \A i \in DOMAIN frames' : FrameOK(i)'
  BY <1>1, <1>6, <1>8, <1>9
<1>11. Types'
  <2>1. cur' \in Pointers' /\ lastp' \in Pointers' /\ rec' \in Pointers'
    BY <1>1, <1>6 DEF DoQuery, TypeOK, Types, Pointers
  <2>2. gnd' \subseteq DOMAIN frames' /\ e' \subseteq [t : Terms, f : DOMAIN frames']
    BY <1>1, <1>6 DEF DoQuery, TypeOK, Types
  <2>3. Len(frames') \in Nat /\ DOMAIN frames' = 1..Len(frames')
    BY <1>6
  <2>4. subst' = [i \in 1..Len(frames') |-> subst'[i]] /\ \A i \in 1..Len(frames') : IsSubs(subst'[i])
    BY <1>7, <2>3, SubstSeq
  <2>. QED BY <1>3, <1>6, <2>1, <2>2, <2>3, <2>4 DEF DoQuery, Types, Status
<1>12. cur' # Null
  BY <1>1 DEF DoQuery, Null
<1>. QED BY <1>10, <1>11, <1>12 DEF TypeOK

\* What Pushed returns: the frames as they were, but for the link from the
\* last of the list, and a frame for every rule, each linked to the next.
LEMMA PushedShape ==
    ASSUME TypeOK, status = "stepping", NEW kids \in Seq(DOMAIN kb)
    PROVE  /\ Pushed(kids) \in Seq(Frames)
           /\ Len(Pushed(kids)) = Len(frames) + Len(kids)
           /\ \A i \in DOMAIN frames :
                /\ Pushed(kids)[i].rule = frames[i].rule
                /\ Pushed(kids)[i].idx = frames[i].idx
                /\ Pushed(kids)[i].prev = frames[i].prev
                /\ Pushed(kids)[i].creator = frames[i].creator
                /\ Pushed(kids)[i].next =
                      IF i = lastp /\ kids # <<>> THEN Len(frames) + 1 ELSE frames[i].next
           /\ \A i \in Len(frames) + 1..Len(frames) + Len(kids) :
                /\ Pushed(kids)[i].rule = kids[i - Len(frames)]
                /\ Pushed(kids)[i].idx = 0
                /\ Pushed(kids)[i].prev = Top
                /\ Pushed(kids)[i].creator = Top
                /\ Pushed(kids)[i].next = IF i < Len(frames) + Len(kids) THEN i + 1 ELSE Null
<1>. DEFINE n == Len(frames)
            m == n + Len(kids)
            kid(i) == [Frame(kids[i - n], 0, Top, Top) EXCEPT
                          !.next = IF i < m THEN i + 1 ELSE Null]
            fs == Pushed(kids)
<1>1. /\ frames \in Seq(Frames) /\ n \in Nat /\ DOMAIN frames = 1..n
      /\ kb \in Seq(Rules)
      /\ Len(kids) \in Nat /\ m \in Nat
  BY TypesNow DEF TypeOK
<1>2. fs = [i \in 1..m |->
               IF i > n THEN kid(i)
               ELSE IF i = lastp /\ n < m THEN [frames[i] EXCEPT !.next = n + 1]
               ELSE frames[i]]
  BY DEF Pushed
<1>3. n < m <=> kids # <<>>
  BY <1>1
<1>4. Top \in Nat
  BY <1>1, TopIsFrame
<1>5. ASSUME NEW i \in n + 1..m
      PROVE  /\ fs[i] = kid(i) /\ kid(i) \in Frames
             /\ kid(i) = [rule |-> kids[i - n], idx |-> 0, prev |-> Top, creator |-> Top,
                          next |-> IF i < m THEN i + 1 ELSE Null]
  <2>1. i \in 1..m /\ i > n /\ i - n \in 1..Len(kids)
    BY <1>1
  <2>2. kids[i - n] \in Nat
    BY <1>1, <2>1
  <2>3. kid(i) = [rule |-> kids[i - n], idx |-> 0, prev |-> Top, creator |-> Top,
                  next |-> IF i < m THEN i + 1 ELSE Null]
    BY DEF Frame
  <2>4. kid(i) \in Frames
    BY <1>1, <1>4, <2>1, <2>2, <2>3, SMTT(30) DEF Frames, Null
  <2>. QED BY <1>2, <2>1, <2>3, <2>4
<1>6. ASSUME NEW i \in DOMAIN frames
      PROVE  /\ fs[i] \in Frames
             /\ fs[i].rule = frames[i].rule /\ fs[i].idx = frames[i].idx
             /\ fs[i].prev = frames[i].prev /\ fs[i].creator = frames[i].creator
             /\ fs[i].next = IF i = lastp /\ kids # <<>> THEN n + 1 ELSE frames[i].next
  <2>1. i \in 1..m /\ ~(i > n) /\ frames[i] \in Frames
    BY <1>1
  <2>2. fs[i] = IF i = lastp /\ n < m THEN [frames[i] EXCEPT !.next = n + 1] ELSE frames[i]
    BY <1>2, <2>1
  <2>3. CASE i = lastp /\ n < m
    <3>1. fs[i] = [frames[i] EXCEPT !.next = n + 1]
      BY <2>2, <2>3
    <3>2. n + 1 \in Nat
      BY <1>1
    <3>. HIDE DEF n, m, fs
    <3>. QED BY <1>3, <2>1, <2>3, <3>1, <3>2 DEF Frames
  <2>4. CASE ~(i = lastp /\ n < m)
    <3>1. fs[i] = frames[i]
      BY <2>2, <2>4
    <3>. HIDE DEF n, m, fs
    <3>. QED BY <1>3, <2>1, <2>4, <3>1
  <2>. QED BY <2>3, <2>4
<1>7. fs \in Seq(Frames) /\ Len(fs) = m
  <2>1. \A i \in 1..m : fs[i] \in Frames
    <3>1. \A i \in 1..m : i \in 1..n \/ i \in n + 1..m
      BY <1>1
    <3>2. \A i \in n + 1..m : fs[i] \in Frames
      BY <1>5
    <3>3. \A i \in 1..n : fs[i] \in Frames
      BY <1>1, <1>6
    <3>. HIDE DEF fs
    <3>. QED BY <3>1, <3>2, <3>3
  <2>2. fs \in [1..m -> Frames]
    <3>. HIDE DEF kid
    <3>. QED BY <1>2, <2>1
  <2>. QED BY <1>1, <2>2
<1>8. \A i \in DOMAIN frames :
          /\ fs[i].rule = frames[i].rule
          /\ fs[i].idx = frames[i].idx
          /\ fs[i].prev = frames[i].prev
          /\ fs[i].creator = frames[i].creator
          /\ fs[i].next = IF i = lastp /\ kids # <<>> THEN n + 1 ELSE frames[i].next
  BY <1>6
<1>9. \A i \in n + 1..m :
          /\ fs[i].rule = kids[i - n]
          /\ fs[i].idx = 0
          /\ fs[i].prev = Top
          /\ fs[i].creator = Top
          /\ fs[i].next = IF i < m THEN i + 1 ELSE Null
  <2>. TAKE i \in n + 1..m
  <2>1. fs[i] = [rule |-> kids[i - n], idx |-> 0, prev |-> Top, creator |-> Top,
                 next |-> IF i < m THEN i + 1 ELSE Null]
    BY <1>5
  <2>. QED BY <2>1
<1>. QED BY <1>7, <1>8, <1>9

\* The rules a frame is pushed for: they exist, have a head, and the
\* substitution their head was unified under is one.
LEMMA MatchesType ==
    ASSUME TypeOK, NEW i \in DOMAIN frames, ~IsDone(i)
    PROVE  /\ Matches(i) \in SUBSET (1..Len(kb))
           /\ Len(kb) \in Nat /\ DOMAIN kb = 1..Len(kb)
           /\ \A h \in Matches(i) : kb[h].head \in Terms /\ IsSubs(Attempt(i, h).sub)
<1>1. kb \in Seq(Rules)
  BY DEF TypeOK, Types
<1>2. Matches(i) \subseteq DOMAIN kb
  BY DEF Matches, Candidates, Conds
<1>3. \A h \in Matches(i) : kb[h].head \in Terms /\ IsSubs(Attempt(i, h).sub)
  <2>. TAKE h \in Matches(i)
  <2>1. Wanted(i) \in Terms /\ IsSubs(subst[i])
    BY FrameFacts
  <2>2. kb[h].head \in Terms \cup {NIL}
    <3>1. h \in DOMAIN kb /\ kb[h] \in Rules
      BY <1>1, <1>2
    <3>. QED BY <3>1 DEF Rules
  <2>3. Attempt(i, h).ok
    BY DEF Matches
  <2>. QED BY <2>1, <2>2, <2>3, NoSubsType, UnifyType DEF Attempt
<1>. QED BY <1>1, <1>2, <1>3

LEMMA MatchTypeOK ==
    ASSUME TypeOK, Match
    PROVE  TypeOK'
<1>1. status = "stepping" /\ ~IsDone(Top)
  BY DEF Match
<1>2. PICK kids : /\ kids = InOrder(Matches(Top))
                  /\ frames' = Pushed(kids)
                  /\ subst' = subst \o [k \in DOMAIN kids |-> Attempt(Top, kids[k]).sub]
                  /\ lastp' = IF kids = <<>> THEN lastp ELSE Len(frames')
                  /\ Return
                  /\ UNCHANGED <<kb, gnd, e>>
  BY DEF Match
<1>. PICK n \in Nat, m \in Nat, top \in Nat :
         n = Len(frames) /\ m = Len(frames) + Len(kids) /\ top = Top
  <2>1. Len(frames) \in Nat /\ Top \in Nat
    BY <1>1, TypesNow, TopIsFrame DEF TypeOK
  <2>2. Len(kids) \in Nat
    BY <1>1, <1>2, MatchesType, TopIsFrame, InOrderType
  <2>. QED BY <2>1, <2>2
<1>3. /\ frames \in Seq(Frames) /\ kb \in Seq(Rules) /\ DOMAIN frames = 1..n
      /\ subst \in Seq(Substitutions) /\ Len(subst) = n /\ Types
      /\ top \in 1..n /\ cur \in 1..n
  BY <1>1, TypesNow, TopIsFrame DEF TypeOK
<1>4. /\ Len(kids) \in Nat /\ DOMAIN kids = 1..Len(kids)
      /\ \A k \in 1..Len(kids) : kids[k] \in Matches(top)
  <2>1. Matches(top) \in SUBSET (1..Len(kb)) /\ Len(kb) \in Nat
    BY <1>1, <1>3, MatchesType
  <2>2. kids = InOrder(Matches(top))
    BY <1>2
  <2>3. /\ Len(kids) = Cardinality(Matches(top))
        /\ DOMAIN kids = 1..Cardinality(Matches(top))
        /\ \A k \in 1..Cardinality(Matches(top)) : kids[k] \in Matches(top)
    BY <2>1, <2>2, InOrderType
  <2>4. Cardinality(Matches(top)) \in Nat
    BY <2>1, FiniteNumbers
  <2>. QED BY <2>3, <2>4
<1>5. \A h \in Matches(top) : /\ h \in DOMAIN kb /\ kb[h].head \in Terms
                              /\ Attempt(top, h).sub \in Substitutions
  BY <1>1, <1>3, MatchesType, IsSubsEquiv
<1>6. kids \in Seq(DOMAIN kb)
  <2>1. kids \in Seq(Matches(top))
    BY <1>1, <1>2, <1>3, MatchesType, InOrderType
  <2>. QED BY <1>5, <2>1
<1>7. /\ frames' \in Seq(Frames) /\ Len(frames') = m /\ n <= m
      /\ DOMAIN frames' = 1..m
  BY <1>1, <1>2, <1>4, <1>6, PushedShape
<1>8. subst' \in Seq(Substitutions) /\ Len(subst') = m
  <2>. DEFINE new == [k \in DOMAIN kids |-> Attempt(top, kids[k]).sub]
  <2>1. \A k \in 1..Len(kids) : Attempt(top, kids[k]).sub \in Substitutions
    BY <1>4, <1>5
  <2>2. new \in Seq(Substitutions) /\ Len(new) = Len(kids)
    BY <1>4, <2>1
  <2>3. subst' = subst \o new
    BY <1>2
  <2>4. Len(kids) \in Nat /\ m = n + Len(kids)
    BY <1>4
  <2>. HIDE DEF new
  <2>5. subst \o new \in Seq(Substitutions) /\ Len(subst \o new) = n + Len(kids)
    <3>1. subst \in Seq(Substitutions) /\ Len(subst) = n
      BY <1>3
    <3>2. new \in Seq(Substitutions) /\ Len(new) = Len(kids)
      BY <2>2
    <3>3. subst \o new \in Seq(Substitutions) /\ Len(subst \o new) = Len(subst) + Len(new)
      BY <3>1, <3>2, ConcatProperties
    <3>. QED BY <3>1, <3>2, <3>3
  <2>. QED BY <2>3, <2>4, <2>5
<1>9. \A i \in DOMAIN frames : frames'[i].next \in Pointers'
  <2>. TAKE i \in DOMAIN frames
  <2>1. frames'[i].next = IF i = lastp /\ kids # <<>> THEN n + 1 ELSE frames[i].next
    BY <1>1, <1>2, <1>6, PushedShape
  <2>2. frames[i].next \in 0..n
    BY DEF TypeOK, FrameOK, Pointers
  <2>3. kids # <<>> => n + 1 <= m
    BY <1>4
  <2>. QED BY <1>7, <2>1, <2>2, <2>3 DEF Pointers
<1>10. \A i \in DOMAIN frames : FrameOK(i)'
  <2>. TAKE i \in DOMAIN frames
  <2>1. \A j \in DOMAIN frames :
            /\ frames'[j].rule = frames[j].rule
            /\ frames'[j].idx = frames[j].idx
            /\ frames'[j].prev = frames[j].prev
            /\ frames'[j].creator = frames[j].creator
    BY <1>1, <1>2, <1>6, PushedShape
  <2>2. \A r \in DOMAIN kb : r \in DOMAIN kb' /\ kb'[r] = kb[r]
    BY <1>2
  <2>. QED BY <1>7, <1>9, <2>1, <2>2, OldFrames
<1>11. \A i \in n + 1..m : FrameOK(i)'
  <2>. TAKE i \in n + 1..m
  <2>1. /\ frames'[i].rule = kids[i - n]
        /\ frames'[i].idx = 0
        /\ frames'[i].prev = top
        /\ frames'[i].creator = top
        /\ frames'[i].next = IF i < m THEN i + 1 ELSE Null
    BY <1>1, <1>2, <1>6, PushedShape
  <2>2. kids[i - n] \in DOMAIN kb /\ kb[kids[i - n]].head \in Terms /\ kb[kids[i - n]] \in Rules
    <3>1. i - n \in 1..Len(kids)
      OBVIOUS
    <3>. QED BY <1>3, <1>4, <1>5, <3>1
  <2>3. HeadOf(i)' \in Terms /\ BodyOf(i)' \in Seq(Terms)
    BY <1>2, <2>1, <2>2 DEF HeadOf, BodyOf, Rules
  <2>4. HeadOf(i)' # NIL /\ 0 <= Len(BodyOf(i)')
    BY <2>3, TermShape
  <2>5. ~IsDone(top)'
    <3>1. /\ frames'[top].rule = frames[top].rule
          /\ frames'[top].idx = frames[top].idx
      BY <1>1, <1>2, <1>3, <1>6, PushedShape
    <3>2. ~IsDone(top)
      BY <1>1
    <3>. QED BY <1>2, <3>1, <3>2 DEF IsDone, BodyOf
  <2>6. frames'[i].next \in Pointers'
    BY <1>7, <2>1 DEF Pointers, Null
  <2>7. top # Null /\ top < i
    BY <1>3 DEF Null
  <2>. QED BY <1>2, <2>1, <2>2, <2>4, <2>5, <2>6, <2>7 DEF FrameOK
<1>12. \A i \in DOMAIN frames' : FrameOK(i)'
  <2>1. \A i \in 1..m : i \in 1..n \/ i \in n + 1..m
    OBVIOUS
  <2>. QED BY <1>3, <1>7, <1>10, <1>11, <2>1
<1>13. /\ cur' \in Pointers' /\ rec' \in Pointers' /\ rec' = Null
       /\ status' \in {"stepping", "reporting"}
       /\ status' = "stepping" <=> cur' # Null
  BY <1>2, <1>3, <1>7, <1>9, ReturnTypes
<1>14. Types'
  <2>1. kb' \in Seq(Rules) /\ gnd' \subseteq DOMAIN frames' /\ e' \subseteq [t : Terms, f : DOMAIN frames']
    BY <1>2, <1>3, <1>7, SMTT(30) DEF Types
  <2>2. lastp' \in Pointers'
    BY <1>2, <1>3, <1>7 DEF Types, Pointers
  <2>3. subst' = [i \in 1..Len(frames') |-> subst'[i]] /\ \A i \in 1..Len(frames') : IsSubs(subst'[i])
    BY <1>7, <1>8, SubstSeq, SMTT(30)
  <2>. QED BY <1>7, <1>13, <2>1, <2>2, <2>3 DEF Types, Status
<1>. QED BY <1>12, <1>13, <1>14 DEF TypeOK

\* Steps that make no frame and no substitution.
LEMMA SameFramesTypeOK ==
    ASSUME TypeOK, UNCHANGED <<kb, frames, subst, lastp>>,
           cur' \in Pointers, rec' \in Pointers, status' \in Status,
           gnd' \subseteq DOMAIN frames, e' \subseteq [t : Terms, f : DOMAIN frames],
           status' \in {"stepping", "threw"} => cur' # Null
    PROVE  TypeOK'
<1>1. \A i \in DOMAIN frames' : FrameOK(i)'
  BY DEF TypeOK, FrameOK, BodyOf, HeadOf, IsDone, Pointers
<1>2. Types'
  BY DEF TypeOK, Types, Pointers
<1>. QED BY <1>1, <1>2 DEF TypeOK

LEMMA ReturnSameFrames ==
    ASSUME TypeOK, status = "stepping", Return, UNCHANGED <<kb, frames, subst, lastp, e>>,
           gnd' \subseteq DOMAIN frames
    PROVE  TypeOK'
<1>1. frames \in Seq(Frames) /\ Types /\ cur \in DOMAIN frames
  BY TopIsFrame, TypesNow DEF TypeOK
<1>2. frames'[cur].next \in Pointers'
  BY <1>1 DEF TypeOK, FrameOK, Pointers
<1>3. /\ cur' \in Pointers' /\ rec' \in Pointers'
      /\ status' \in {"stepping", "reporting"}
      /\ status' = "stepping" <=> cur' # Null
  BY <1>1, <1>2, ReturnTypes
<1>4. e' \subseteq [t : Terms, f : DOMAIN frames]
  BY <1>1 DEF Types
<1>. QED BY <1>3, <1>4, SameFramesTypeOK DEF Pointers, Status

LEMMA PruneTypeOK == ASSUME TypeOK, Prune PROVE TypeOK'
BY ReturnSameFrames DEF Prune, TypeOK, Types

LEMMA GroundTypeOK == ASSUME TypeOK, Ground PROVE TypeOK'
<1>1. Top \in DOMAIN frames
  BY TopIsFrame DEF Ground
<1>2. gnd' \subseteq DOMAIN frames
  BY <1>1 DEF Ground, TypeOK, Types
<1>. QED BY <1>2, ReturnSameFrames DEF Ground

LEMMA ThrowTypeOK == ASSUME TypeOK, Throw PROVE TypeOK'
BY SameFramesTypeOK DEF Throw, TypeOK, Types, Status

LEMMA PushEvTypeOK == ASSUME TypeOK, PushEv PROVE TypeOK'
<1>1. e' \subseteq [t : Terms, f : DOMAIN frames]
  <2>1. ASSUME NEW i \in gnd, NEW x \in Evidence(i), x.t # NIL
        PROVE  x \in [t : Terms, f : DOMAIN frames]
    <3>1. i \in DOMAIN frames
      BY DEF TypeOK, Types
    <3>2. PICK k \in DOMAIN BodyOf(i) : x = [t |-> Evaluate(BodyOf(i)[k], subst[i]), f |-> i]
      BY DEF Evidence
    <3>3. BodyOf(i)[k] \in Terms /\ IsSubs(subst[i])
      BY <3>1, FrameFacts
    <3>4. Evaluate(BodyOf(i)[k], subst[i]) \in Terms
      BY <2>1, <3>2, <3>3, EvaluateType
    <3>. QED BY <3>1, <3>2, <3>4
  <2>2. e \subseteq [t : Terms, f : DOMAIN frames]
    BY DEF TypeOK, Types
  <2>. QED BY <2>1, <2>2 DEF PushEv
<1>. QED BY <1>1, SameFramesTypeOK DEF PushEv, TypeOK, Types, Status

\* What Match does, with the rules that matched as a constant.
LEMMA MatchShape ==
    ASSUME TypeOK, Match
    PROVE  \E kids \in Seq(DOMAIN kb) :
             /\ \A k \in DOMAIN kids : kids[k] \in Matches(Top)
             /\ frames' = Pushed(kids)
             /\ lastp' = IF kids = <<>> THEN lastp ELSE Len(frames')
             /\ Return
             /\ kb' = kb
<1>1. status = "stepping" /\ ~IsDone(Top)
  BY DEF Match
<1>2. PICK kids : /\ kids = InOrder(Matches(Top))
                  /\ frames' = Pushed(kids)
                  /\ lastp' = IF kids = <<>> THEN lastp ELSE Len(frames')
                  /\ Return
                  /\ kb' = kb
  BY DEF Match
<1>3. PICK top \in DOMAIN frames : top = Top
  BY <1>1, TopIsFrame
<1>4. /\ Matches(top) \in SUBSET (1..Len(kb)) /\ Len(kb) \in Nat
      /\ DOMAIN kb = 1..Len(kb)
  BY <1>1, <1>3, MatchesType
<1>5. kids \in Seq(Matches(top))
  BY <1>2, <1>3, <1>4, InOrderType
<1>6. kids \in Seq(DOMAIN kb)
  BY <1>4, <1>5
<1>7. \A k \in DOMAIN kids : kids[k] \in Matches(Top)
  BY <1>3, <1>5
<1>. QED BY <1>2, <1>6, <1>7

\* What Ascend does, with the frame answered (top), the one it answers (q) and
\* the copy of it as constants.
LEMMA AscendShape ==
    ASSUME TypeOK, Ascend
    PROVE  \E top \in DOMAIN frames : \E q \in DOMAIN frames :
             /\ top = Top /\ q = frames[top].prev /\ q # Null /\ q < top
             /\ IsDone(top) /\ ~IsDone(q)
             /\ frames' = Append(frames, Frame(frames[q].rule, frames[q].idx + 1, frames[q].prev, top))
             /\ subst' = Append(subst, Proved(top).sub)
             /\ rec' = Len(frames) + 1
             /\ UNCHANGED <<kb, lastp, cur, gnd, e, status>>
<1>1. status = "stepping" /\ IsDone(Top) /\ frames[Top].prev # Null
  BY DEF Ascend
<1>2. Top \in DOMAIN frames
  BY <1>1, TopIsFrame
<1>3. PICK top \in DOMAIN frames : top = Top
  BY <1>2
<1>4. frames[top].prev # Null
  BY <1>1, <1>3
<1>5. FrameOK(top) /\ frames[top] \in Frames /\ top \in Nat
  BY <1>3, FrameFacts DEF TypeOK, Types
<1>6. frames[top].prev \in DOMAIN frames /\ ~IsDone(frames[top].prev)
  BY <1>3, <1>4, <1>5, FrameFacts DEF FrameOK
<1>7. frames[top].prev < top
  BY <1>5 DEF FrameOK, Frames
<1>8. PICK q \in DOMAIN frames : q = frames[top].prev
  BY <1>6
<1>9. IsDone(top) /\ ~IsDone(q)
  BY <1>1, <1>3, <1>6, <1>8
<1>10. /\ frames' = Append(frames, Frame(frames[q].rule, frames[q].idx + 1, frames[q].prev, top))
       /\ subst' = Append(subst, Proved(top).sub)
       /\ rec' = Len(frames) + 1
       /\ UNCHANGED <<kb, lastp, cur, gnd, e, status>>
  BY <1>3, <1>8 DEF Ascend
<1>. QED BY <1>3, <1>4, <1>7, <1>8, <1>9, <1>10

LEMMA AscendTypeOK ==
    ASSUME TypeOK, Ascend
    PROVE  TypeOK'
<1>1. PICK top \in DOMAIN frames : \E q \in DOMAIN frames :
             /\ top = Top /\ q = frames[top].prev /\ q # Null /\ q < top
             /\ IsDone(top) /\ ~IsDone(q)
             /\ frames' = Append(frames, Frame(frames[q].rule, frames[q].idx + 1, frames[q].prev, top))
             /\ subst' = Append(subst, Proved(top).sub)
             /\ rec' = Len(frames) + 1
             /\ UNCHANGED <<kb, lastp, cur, gnd, e, status>>
  BY AscendShape
<1>2. PICK q \in DOMAIN frames :
             /\ q = frames[top].prev /\ q # Null /\ q < top
             /\ IsDone(top) /\ ~IsDone(q)
             /\ frames' = Append(frames, Frame(frames[q].rule, frames[q].idx + 1, frames[q].prev, top))
             /\ subst' = Append(subst, Proved(top).sub)
             /\ rec' = Len(frames) + 1
             /\ UNCHANGED <<kb, lastp, cur, gnd, e, status>>
  BY <1>1
<1>3. PICK new \in Nat : new = Len(frames) + 1
  BY TypesNow DEF TypeOK
<1>4. /\ frames \in Seq(Frames) /\ kb \in Seq(Rules) /\ DOMAIN frames = 1..(new - 1)
      /\ subst \in Seq(Substitutions) /\ Len(subst) = Len(frames) /\ Types
  BY <1>3, TypesNow DEF TypeOK
<1>5. /\ frames[q] \in Frames /\ frames[q].rule \in DOMAIN kb
      /\ frames[q].idx + 1 <= Len(BodyOf(q)) /\ Wanted(q) \in Terms
      /\ FrameOK(q)
  BY <1>2, FrameFacts DEF TypeOK
<1>6. PICK pp \in Nat, pc \in Nat, pr \in Nat, pi \in Nat :
        /\ pp = frames[q].prev /\ pc = frames[q].creator
        /\ pr = frames[q].rule /\ pi = frames[q].idx
  BY <1>5 DEF Frames
<1>7. /\ pp <= pc /\ pc < q /\ pr \in DOMAIN kb /\ pi + 1 <= Len(kb[pr].body)
      /\ pp = Null <=> HeadOf(q) = NIL
      /\ pp # Null => ~IsDone(pp)
  BY <1>5, <1>6 DEF FrameOK, BodyOf
<1>8. PICK copy \in Frames :
        copy = [rule |-> pr, idx |-> pi + 1, prev |-> pp, creator |-> top, next |-> 0]
  <2>1. pi + 1 \in Nat /\ top \in Nat /\ 0 \in Nat
    BY <1>4
  <2>2. [rule |-> pr, idx |-> pi + 1, prev |-> pp, creator |-> top, next |-> 0] \in Frames
    BY <2>1 DEF Frames
  <2>. QED BY <2>2, Zenon
<1>9. /\ frames' = Append(frames, copy)
      /\ subst' = Append(subst, Proved(top).sub)
      /\ rec' = new
      /\ UNCHANGED <<kb, lastp, cur, gnd, e, status>>
  BY <1>2, <1>3, <1>6, <1>8 DEF Frame, Null
<1>10. /\ frames' \in Seq(Frames) /\ Len(frames') = new /\ DOMAIN frames' = 1..new
       /\ frames'[new] = copy
       /\ \A i \in DOMAIN frames : frames'[i] = frames[i]
  BY <1>3, <1>4, <1>8, <1>9
<1>11. subst' \in Seq(Substitutions) /\ Len(subst') = new
  <2>1. IsSubs(subst[top]) /\ IsSubs(subst[q])
    BY <1>4 DEF Types
  <2>2. HeadOf(top) \in Terms
    <3>1. FrameOK(top)
      BY DEF TypeOK
    <3>2. HeadOf(top) # NIL
      BY <1>2, <3>1 DEF FrameOK
    <3>. QED BY <3>2, FrameFacts
  <2>3. IsSubs(Proved(top).sub)
    BY <1>2, <1>5, <2>1, <2>2, UnifyType DEF Proved
  <2>4. Proved(top).sub \in Substitutions
    BY <2>3, IsSubsEquiv
  <2>. QED BY <1>3, <1>4, <1>9, <2>4
<1>12. \A i \in DOMAIN frames : FrameOK(i)'
  <2>. TAKE i \in DOMAIN frames
  <2>1. frames'[i].next \in Pointers'
    BY <1>3, <1>4, <1>10 DEF TypeOK, FrameOK, Pointers
  <2>2. \A r \in DOMAIN kb : r \in DOMAIN kb' /\ kb'[r] = kb[r]
    BY <1>9
  <2>. QED BY <1>4, <1>10, <2>1, <2>2, OldFrames, SMTT(30)
<1>13. FrameOK(new)'
  <2>1. /\ frames'[new].rule = pr /\ frames'[new].idx = pi + 1
        /\ frames'[new].prev = pp /\ frames'[new].creator = top
        /\ frames'[new].next = 0
    BY <1>8, <1>10
  <2>2. HeadOf(new)' = HeadOf(q) /\ BodyOf(new)' = kb[pr].body
    BY <1>6, <1>9, <2>1 DEF HeadOf, BodyOf
  <2>3. pp # Null => ~IsDone(pp)'
    <3>. SUFFICES ASSUME pp # Null PROVE ~IsDone(pp)'
      OBVIOUS
    <3>1. pp \in DOMAIN frames
      BY <1>4, <1>6, <1>7 DEF Null
    <3>2. frames'[pp] = frames[pp] /\ kb' = kb
      BY <1>9, <1>10, <3>1
    <3>. QED BY <1>7, <3>2 DEF IsDone, BodyOf
  <2>4. top \in Nat /\ q \in Nat /\ top < new
    BY <1>4
  <2>5. pp <= top
    BY <1>2, <1>6, <1>7, <2>4
  <2>6. 0 \in Pointers'
    BY <1>10 DEF Pointers
  <2>7. pr \in DOMAIN kb' /\ pi + 1 <= Len(BodyOf(new)')
    BY <1>7, <1>9, <2>2
  <2>8. pp = Null <=> HeadOf(new)' = NIL
    BY <1>7, <2>2
  <2>. QED BY <2>1, <2>3, <2>4, <2>5, <2>6, <2>7, <2>8 DEF FrameOK
<1>14. \A i \in DOMAIN frames' : FrameOK(i)'
  <2>1. \A i \in 1..new : i \in 1..(new - 1) \/ i = new
    OBVIOUS
  <2>. QED BY <1>4, <1>10, <1>12, <1>13, <2>1
<1>15. Types'
  <2>1. gnd' \subseteq DOMAIN frames' /\ e' \subseteq [t : Terms, f : DOMAIN frames']
    BY <1>4, <1>9, <1>10 DEF Types
  <2>2. lastp' \in Pointers' /\ cur' \in Pointers' /\ rec' \in Pointers'
    BY <1>3, <1>4, <1>9, <1>10 DEF Types, Pointers
  <2>3. subst' = [i \in 1..Len(frames') |-> subst'[i]] /\ \A i \in 1..Len(frames') : IsSubs(subst'[i])
    BY <1>10, <1>11, SubstSeq
  <2>. QED BY <1>4, <1>9, <1>10, <2>1, <2>2, <2>3 DEF Types
<1>16. (status \in {"stepping", "threw"} => cur # Null)'
  BY <1>9 DEF TypeOK
<1>. QED BY <1>14, <1>15, <1>16 DEF TypeOK

---------------------------------------------------------------------------
(* The shape of the prover's state is kept, whatever it is asked.          *)

LEMMA NextTypeOK == TypeOK /\ [Next]_vars => TypeOK'
<1>. SUFFICES ASSUME TypeOK, [Next]_vars PROVE TypeOK'
  OBVIOUS
<1>1. CASE UNCHANGED vars
  BY <1>1, SameFramesTypeOK DEF vars, TypeOK, Types
<1>2. ASSUME NEW goal \in Goals, DoQuery(goal) PROVE TypeOK'
  BY <1>2, DoQueryTypeOK
<1>3. CASE Prune
  BY <1>3, PruneTypeOK
<1>4. CASE Match
  BY <1>4, MatchTypeOK
<1>5. CASE Ground
  BY <1>5, GroundTypeOK
<1>6. CASE Ascend
  BY <1>6, AscendTypeOK
<1>7. CASE Throw
  BY <1>7, ThrowTypeOK
<1>8. CASE PushEv
  BY <1>8, PushEvTypeOK
<1>. QED BY <1>1, <1>2, <1>3, <1>4, <1>5, <1>6, <1>7, <1>8 DEF Next, Step

\* For every rule base and every sequence of goals, the frames are well formed:
\* step and euler_path follow no pointer that leads nowhere (prover.cpp
\* 127-138, 442-474), and the term a proved rule answers is there.
THEOREM TypeCorrect == Spec => []TypeOK
BY InitTypeOK, NextTypeOK, PTL DEF Spec
=============================================================================
