-------------------------------- MODULE DNA --------------------------------
(***************************************************************************)
(* pcpp (p.cpp): which heads of a rule base each body term can match, and  *)
(* the `dna` of every match, a union-find that tells which variables of    *)
(* the two terms the match makes equal, or equal to what.                  *)
(*                                                                         *)
(* A term is a resource and its arguments; a list is a term with resource  *)
(* Dot.  A variable of a match is known by its name and its side, since a  *)
(* body and a head may use one name for two variables.  Terms are compared *)
(* by value where the code compares pointers, so no list occurs twice in a *)
(* rule base.                                                              *)
(***************************************************************************)
EXTENDS Naturals, Sequences, FiniteSets, SequencesExt

CONSTANTS Names,   \* the resources that are not variables
          Vars,    \* the variables
          Dot,     \* the resource of lists, one of Names
          KBs      \* the rule bases: sequences of rules, a head and its body

ASSUME DotIsName == Dot \in Names

VARIABLES
    kb,      \* the rule base
    tried,   \* how many of its rules are indexed
    todo,    \* the matches without a dna yet
    dna,     \* the groups of variables, by match
    names    \* new variables made so far

vars == <<kb, tried, todo, dna, names>>

Atom(r) == [p |-> r, args |-> <<>>]
List(ts) == [p |-> Dot, args |-> ts]

\* The new variables are numbered.
IsVar(t) == t.p \in Vars \cup Nat
IsList(t) == t.args # <<>>

---------------------------------------------------------------------------
(* trymatch: a head that cannot match a body's term is left out.  Only the *)
(* head's variables are bound, by name.                                    *)

RECURSIVE Unify(_, _, _), UnifyArgs(_, _, _)

\* The result is <<subs>> or, for a failure, <<>>.
Unify(t, d, subs) ==
    IF IsVar(t) THEN <<subs>>
    ELSE IF IsVar(d)
    THEN IF d.p \in DOMAIN subs THEN Unify(t, subs[d.p], subs)
         ELSE <<[v \in DOMAIN subs \cup {d.p} |-> IF v = d.p THEN t ELSE subs[v]]>>
    ELSE IF t.p # d.p \/ Len(t.args) # Len(d.args) THEN <<>>
    ELSE UnifyArgs(t.args, d.args, subs)

UnifyArgs(ts, ds, subs) ==
    IF ts = <<>> THEN <<subs>>
    ELSE LET first == Unify(Head(ts), Head(ds), subs)
         IN  IF first = <<>> THEN <<>> ELSE UnifyArgs(Tail(ts), Tail(ds), first[1])

Matches(t, head) == Unify(t, head, [v \in {} |-> t]) # <<>>

---------------------------------------------------------------------------
(* find_root.  A ruleterm is a term with its side; the map of a dna is     *)
(* from variables with their sides to ruleterms.                           *)

RuleTerm(t, side) == [t |-> t, side |-> side]
Key(u) == <<u.t.p, u.side>>
Bind(map, key, u) == [k \in DOMAIN map \cup {key} |-> IF k = key THEN u ELSE map[k]]

RECURSIVE Root(_, _), Path(_, _)
Root(key, map) ==
    LET up == map[key]
    IN  IF IsVar(up.t) /\ Key(up) # key THEN Root(Key(up), map) ELSE up
Path(key, map) ==
    LET up == map[key]
    IN  IF IsVar(up.t) /\ Key(up) # key THEN {key} \cup Path(Key(up), map) ELSE {key}

\* A variable met for the first time is its own root; the path to the root
\* is compressed.
FindRoot(u, map) ==
    IF ~IsVar(u.t) THEN [root |-> u, map |-> map]
    ELSE IF Key(u) \notin DOMAIN map THEN [root |-> u, map |-> Bind(map, Key(u), u)]
    ELSE LET root == Root(Key(u), map)
         IN  [root |-> root,
              map |-> [k \in DOMAIN map |-> IF k \in Path(Key(u), map) THEN root ELSE map[k]]]

---------------------------------------------------------------------------
(* makeDNA of a body's term and a head.                                    *)

\* new_all_vars_list: u becomes a list of new variables.
Spread(u, side, count, made) ==
    LET new == [k \in 1..count |-> RuleTerm(Atom(made.names + k), side)]
        list == RuleTerm(List([k \in 1..count |-> new[k].t]), side)
        known == [k \in DOMAIN made.map \cup {Key(new[j]) : j \in 1..count} |->
                      IF k \in DOMAIN made.map THEN made.map[k]
                      ELSE RuleTerm(Atom(k[1]), k[2])]
    IN  [ok |-> TRUE, map |-> Bind(known, Key(u), list), names |-> made.names + count]

RECURSIVE MakeDNA(_, _, _), MakeArgs(_, _, _)

\* Mutant of Join: a variable does not become a list.
JoinUnspread(br, hr, made) ==
    IF Len(br.t.args) # Len(hr.t.args) THEN [made EXCEPT !.ok = FALSE]
    ELSE MakeDNA(br.t, hr.t, made)

\* Two roots of which one is a list or neither a variable.
Join(br, hr, made) ==
    IF IsVar(br.t)
    THEN LET spread == Spread(br, "body", Len(hr.t.args), made)
         IN  MakeDNA(Root(Key(br), spread.map).t, hr.t, spread)
    ELSE IF IsVar(hr.t)
    THEN LET spread == Spread(hr, "head", Len(br.t.args), made)
         IN  MakeDNA(br.t, Root(Key(hr), spread.map).t, spread)
    ELSE IF Len(br.t.args) # Len(hr.t.args) THEN [made EXCEPT !.ok = FALSE]
    ELSE MakeDNA(br.t, hr.t, made)

\* Mutant of MakeArg: the head's argument gets the root, not its own root.
MakeArgUnrooted(b, h, made) ==
    LET first == FindRoot(RuleTerm(b, "body"), made.map)
        second == FindRoot(RuleTerm(h, "head"), first.map)
        found == [made EXCEPT !.map = second.map]
    IN  IF IsVar(h) /\ ~IsList(first.root.t)
        THEN [found EXCEPT !.map = Bind(@, Key(RuleTerm(h, "head")), first.root)]
        ELSE IF IsVar(first.root.t) /\ ~IsList(second.root.t)
        THEN [found EXCEPT !.map = Bind(@, Key(first.root), second.root)]
        ELSE Join(first.root, second.root, found)

\* One pair of arguments: a variable takes the other side as its root, the
\* head's if both are variables.  Two names are taken to be equal: p.cpp:492
\* compares one with itself.
MakeArg(b, h, made) ==
    LET first == FindRoot(RuleTerm(b, "body"), made.map)
        second == FindRoot(RuleTerm(h, "head"), first.map)
        br == first.root
        hr == second.root
        found == [made EXCEPT !.map = second.map]
    IN  IF IsVar(hr.t) /\ ~IsList(br.t)
        THEN [found EXCEPT !.map = Bind(@, Key(hr), br)]
        ELSE IF IsVar(br.t) /\ ~IsList(hr.t)
        THEN [found EXCEPT !.map = Bind(@, Key(br), hr)]
        ELSE Join(br, hr, found)

MakeArgs(bs, hs, made) ==
    IF bs = <<>> \/ ~made.ok THEN made
    ELSE MakeArgs(Tail(bs), Tail(hs), MakeArg(Head(bs), Head(hs), made))

MakeDNA(b, h, made) == MakeArgs(b.args, h.args, made)

\* The map inverted: the sets of variables that have a root in common.
Groups(map) ==
    {[root |-> root, of |-> {k \in DOMAIN map : Root(k, map) = root}] :
        root \in {Root(k, map) : k \in DOMAIN map}}

---------------------------------------------------------------------------

\* A match is a rule, a place in its body and a rule whose head may match.
MatchesOf(r) ==
    UNION {{<<r, n, q>> : q \in {q \in DOMAIN kb : Matches(kb[r].body[n], kb[q].head)}} :
              n \in DOMAIN kb[r].body}
Before(m, n) ==
    \/ m[1] < n[1]
    \/ m[1] = n[1] /\ m[2] < n[2]
    \/ m[1] = n[1] /\ m[2] = n[2] /\ m[3] < n[3]

BodyTerm(m) == kb[m[1]].body[m[2]]
HeadTerm(m) == kb[m[3]].head

Init ==
    /\ kb \in KBs
    /\ tried = 0
    /\ todo = {}
    /\ dna = [m \in {} |-> {}]
    /\ names = 0

\* The next rule is indexed: every term of its body is tried with every head.
TryMatch ==
    /\ tried < Len(kb)
    /\ tried' = tried + 1
    /\ todo' = todo \cup MatchesOf(tried + 1)
    /\ UNCHANGED <<kb, dna, names>>

\* One round of the loops of makeDNA(rules), once all rules are indexed: a
\* match that fails gets no dna.
Make(m) ==
    LET made == MakeDNA(BodyTerm(m), HeadTerm(m),
                        [ok |-> TRUE, map |-> [k \in {} |-> m], names |-> names])
    IN  /\ tried = Len(kb)
        /\ m \in todo /\ \A n \in todo \ {m} : Before(m, n)
        /\ todo' = todo \ {m}
        /\ names' = made.names
        /\ dna' = IF made.ok
                  THEN [n \in DOMAIN dna \cup {m} |-> IF n = m THEN Groups(made.map) ELSE dna[n]]
                  ELSE dna
        /\ UNCHANGED <<kb, tried>>

Next == TryMatch \/ \E m \in todo : Make(m)

Spec == Init /\ [][Next]_vars

---------------------------------------------------------------------------
(* What unification says of a match, by closing the equations of its       *)
(* arguments: equal terms are equal to the same terms, and lists have      *)
(* equal elements.  A variable is tagged with its side.                    *)

RECURSIVE Tagged(_, _)
Tagged(t, side) ==
    [p |-> IF IsVar(t) THEN <<t.p, side>> ELSE <<t.p>>,
     args |-> [k \in DOMAIN t.args |-> Tagged(t.args[k], side)]]

Composed(E) == {<<ef[1][1], ef[2][2]>> : ef \in {ef \in E \X E : ef[1][2] = ef[2][1]}}
Elements(E) == UNION {{<<e[1].args[k], e[2].args[k]>> : k \in DOMAIN e[1].args} :
                          e \in {e \in E : Len(e[1].args) = Len(e[2].args)}}

RECURSIVE Closure(_)
Closure(E) ==
    LET more == E \cup {<<e[2], e[1]>> : e \in E} \cup Composed(E) \cup Elements(E)
    IN  IF more = E THEN E ELSE Closure(more)

\* What the arguments of a body's term and a head have to be equal to.
Equal(b, h) ==
    Closure({<<Tagged(b.args[k], "body"), Tagged(h.args[k], "head")>> : k \in DOMAIN b.args})

TaggedVar(t) == Len(t.p) = 2

\* Two different names, or lists of different lengths, would have to be equal.
Clash(E) ==
    \E e \in E :
        /\ ~TaggedVar(e[1]) /\ ~TaggedVar(e[2])
        /\ e[1].p # e[2].p \/ Len(e[1].args) # Len(e[2].args)

\* A list would have to be among its own elements.
RECURSIVE Within(_, _)
Within(ts, E) ==
    LET inside == ts \cup UNION {Range(e[2].args) : e \in {e \in E : e[1] \in ts}}
                     \cup UNION {Range(x.args) : x \in ts}
    IN  IF inside = ts THEN ts ELSE Within(inside, E)
Circular(E) ==
    \E e \in E : e[2].args # <<>> /\ e[1] \in Within(Range(e[2].args), E)

Unifies(b, h) == b.p = h.p /\ Len(b.args) = Len(h.args) /\ ~Clash(Equal(b, h)) /\ ~Circular(Equal(b, h))

---------------------------------------------------------------------------

\* No match is lost: neither trymatch nor makeDNA turns down a head that
\* unifies with a body's term.
NoMatchLost ==
    \A r \in 1..tried, q \in DOMAIN kb : \A n \in DOMAIN kb[r].body :
        Unifies(kb[r].body[n], kb[q].head) => <<r, n, q>> \in todo \cup DOMAIN dna

\* A match that unifies is described by its groups: two of its variables have
\* one root when unification makes them equal, a name on either side being one
\* root, and a name is a variable's root when it is what the variable is equal
\* to.
GroupsRight ==
    \A m \in DOMAIN dna :
        LET E == Equal(BodyTerm(m), HeadTerm(m))
            RootOf(k) == (CHOOSE g \in dna[m] : k \in g.of).root
            Name(u) == IF IsVar(u.t) THEN Key(u) ELSE <<u.t>>
            old == {k \in UNION {g.of : g \in dna[m]} : k[1] \in Vars}
            AsTerm(k) == [p |-> k, args |-> <<>>]
            Same(j, k) == j = k \/ <<AsTerm(j), AsTerm(k)>> \in E
        IN  Unifies(BodyTerm(m), HeadTerm(m)) =>
                /\ \A j, k \in old :
                      /\ Name(RootOf(j)) = Name(RootOf(k)) => Same(j, k)
                      /\ Same(j, k) => \/ Name(RootOf(j)) = Name(RootOf(k))
                                       \/ IsList(RootOf(j).t) /\ IsList(RootOf(k).t)
                /\ \A k \in old : \A r \in Names \ {Dot} :
                      RootOf(k).t = Atom(r) <=> <<AsTerm(k), AsTerm(<<r>>)>> \in E
=============================================================================
