----------------------------- MODULE LinkedData -----------------------------
(***************************************************************************)
(* What a JSON-LD document says, apart from how the program converts it:   *)
(* the names its terms stand for and the quads of its objects, read off    *)
(* the document as it is, without expansion or a map of nodes.  A name is  *)
(* taken as far as the contexts up to the one that defines it go; as in    *)
(* the program, the first definition of a term in a list of contexts is    *)
(* the one that counts, and the context of an object replaces those of     *)
(* the objects around it, where JSON-LD has the last and adds to them. The *)
(* quads that make up a list are left out; type-coerced names (terms of    *)
(* type @id and @vocab) do not occur.                                      *)
(***************************************************************************)
EXTENDS Expansion

Bad == <<"bad">>

\* The contexts of a list without the definitions of terms that one before
\* has defined, be there a null in between or not.
Counted(cs) ==
    LET before(i) == UNION {TermsOf(cs[j].at) : j \in {k \in 1..(i - 1) : cs[k].is = "map"}}
    IN  [i \in DOMAIN cs |-> IF cs[i].is # "map" THEN cs[i]
                             ELSE Map(Restrict(cs[i].at, DOMAIN cs[i].at \ before(i)))]
\* The ones after the last null.
AfterNull(cs) ==
    LET k == SelectLastInSeq(cs, LAMBDA c : c.is = "null") IN SubSeq(cs, k + 1, Len(cs))
InForce(cs) == AfterNull(Counted(cs))
Declared(cs, n) == SelectLastInSeq(cs, LAMBDA c : n \in DOMAIN c.at)
UpTo(cs, n) == SubSeq(cs, 1, Declared(cs, n))
VocabOf(cs) ==
    IF Declared(cs, Kw("@vocab")) = 0 THEN None
    ELSE cs[Declared(cs, Kw("@vocab"))].at[Kw("@vocab")].text

DefinitionOf(cs, t) ==
    LET d == cs[Declared(cs, t)].at[t]
    IN  IF d.is = "map" THEN d.at ELSE (Kw("@id") :> d)

RECURSIVE NameOf(_, _, _), TermName(_, _, _)

\* A definition that is still not settled after `fuel' others goes in circles.
NameOf(cs, n, fuel) ==
    IF Keyword(n) \/ Variable(n) THEN n
    ELSE IF fuel = 0 THEN Bad
    ELSE IF Declared(cs, n) > 0 THEN TermName(UpTo(cs, n), n, fuel - 1)
    ELSE IF HasColon(n)
         THEN IF WholeName(n) \/ Declared(cs, Prefix(n)) = 0 THEN n
              ELSE LET p == TermName(UpTo(cs, Prefix(n)), Prefix(n), fuel - 1)
                   IN  IF p = Bad THEN Bad ELSE p \o Suffix(n)
    ELSE IF VocabOf(cs) = None THEN Bad ELSE VocabOf(cs) \o n

TermName(cs, t, fuel) ==
    LET d == DefinitionOf(cs, t)
        by == IF Kw("@reverse") \in DOMAIN d THEN d[Kw("@reverse")].text
              ELSE IF Kw("@id") \in DOMAIN d THEN d[Kw("@id")].text ELSE t
    IN  IF fuel = 0 \/ Keyword(t) THEN Bad
        ELSE IF by # t \/ Kw("@reverse") \in DOMAIN d THEN NameOf(cs, by, fuel)
        ELSE IF HasColon(t)
             THEN IF Declared(cs, Prefix(t)) = 0 THEN t
                  ELSE LET p == TermName(UpTo(cs, Prefix(t)), Prefix(t), fuel - 1)
                       IN  IF p = Bad THEN Bad ELSE p \o Suffix(t)
        ELSE IF VocabOf(cs) = None THEN Bad ELSE VocabOf(cs) \o t

Fuel == 10
AllTerms(cs) == UNION {TermsOf(c.at) : c \in ToSet(cs)}
TermMeans(cs, t) == TermName(UpTo(cs, t), t, Fuel)
TypeOf(cs, t) ==
    LET d == DefinitionOf(UpTo(cs, t), t)
    IN  IF Kw("@type") \in DOMAIN d THEN NameOf(UpTo(cs, t), d[Kw("@type")].text, Fuel) ELSE None
IsReverse(cs, t) == Declared(cs, t) > 0 /\ Kw("@reverse") \in DOMAIN DefinitionOf(cs, t)

\* The terms of its own context by which a term is defined, in the end.
Uses(c, n) ==
    IF Keyword(n) \/ Variable(n) THEN {}
    ELSE IF n \in DOMAIN c THEN {n}
    ELSE IF HasColon(n) /\ ~WholeName(n) THEN {Prefix(n)} \cap DOMAIN c ELSE {}
Needs(c, t) ==
    LET d == DefinitionOf(<<Map(c)>>, t)
        own == IF HasColon(t) THEN {Prefix(t)} \cap DOMAIN c ELSE {}
    IN  UNION {IF k = Kw("@id") /\ d[k].text = t THEN own ELSE Uses(c, d[k].text) : k \in DOMAIN d}
        \cup (IF DOMAIN d \cap {Kw("@id"), Kw("@reverse")} = {} THEN own ELSE {})
NeedsInTheEnd(c, t) ==
    FoldLeft(LAMBDA S, i : S \cup UNION {Needs(c, u) : u \in S}, Needs(c, t),
             InOrder(DOMAIN c))

\* A term with a colon and no other name for it stands for whatever its prefix
\* and the rest make.
TakenApart(cs, t) ==
    LET d == DefinitionOf(cs, t)
    IN  /\ HasColon(t)
        /\ Kw("@reverse") \notin DOMAIN d
        /\ Kw("@id") \in DOMAIN d => d[Kw("@id")].text = t

\* Contexts define a term in circles, a keyword, by a name that is relative
\* or by what no object may have for a key.
WrongIn(cs) ==
    \/ \E c \in ToSet(cs) : \E t \in TermsOf(c.at) : t \in NeedsInTheEnd(c.at, t)
    \/ \E t \in AllTerms(cs) :
          \/ TermMeans(cs, t) \in {Bad, Kw("@context")}
          \/ IsRelIri(TermMeans(cs, t)) /\ ~TakenApart(cs, t)
          \/ TypeOf(cs, t) \notin {None, Kw("@id"), Kw("@vocab")} /\ ~IsAbsIri(TypeOf(cs, t))
          \/ /\ IsReverse(cs, t)
             /\ Kw("@id") \in DOMAIN DefinitionOf(cs, t) \/ ~IsAbsIri(TermMeans(cs, t))

\* A list is wrong with something else than contexts or with a language in it,
\* and with wrong contexts between one null and the next.
WrongContext(cs) ==
    \/ \E c \in ToSet(cs) : c.is \notin {"map", "null"} \/ Has(c, "@language")
    \/ \E i \in DOMAIN cs :
          /\ i = Len(cs) \/ cs[i + 1].is = "null"
          /\ WrongIn(AfterNull(SubSeq(Counted(cs), 1, i)))

---------------------------------------------------------------------------
(* The quads.  An object without a name is the blank node of its place.    *)

BaseOf(cs) ==
    FoldLeft(LAMBDA base, c :
                IF ~Has(c, "@base") THEN base
                ELSE IF IsAbsIri(Get(c, "@base").text) THEN Get(c, "@base").text
                ELSE base \o Get(c, "@base").text, Base, cs)

NoTerm(cs, n) ==
    IF HasColon(n)
    THEN IF WholeName(n) \/ Declared(cs, Prefix(n)) = 0 THEN n
         ELSE TermMeans(cs, Prefix(n)) \o Suffix(n)
    ELSE BaseOf(cs) \o n
Means(cs, n, vocab) ==
    IF Keyword(n) \/ Variable(n) THEN n
    ELSE CHOOSE m \in {IF name = Bad THEN NoTerm(cs, n) ELSE name :
                            name \in {IF vocab THEN NameOf(cs, n, Fuel) ELSE Bad}} : TRUE

\* The context of an object stands alone.
Within(cs, v) ==
    IF ~Has(v, "@context") THEN cs ELSE InForce(ContextsOf(Get(v, "@context")))

\* An object with its place, its contexts and what its keys mean.
Object(cs, v, path) ==
    [is |-> "object", in |-> cs, at |-> v.at, path |-> path,
     means |-> [k \in DOMAIN v.at |-> Means(cs, k, TRUE)]]
HasKey(o, k) == Kw(k) \in Range(o.means)
At(o, k) == o.at[CHOOSE key \in DOMAIN o.at : o.means[key] = Kw(k)]
Below(o, key) == Append(o.path, ToString(key))

\* The scalars and objects that stand in a value: lists and sets of values are
\* those of their items.
RECURSIVE Leaves(_, _, _)
LeavesOf(o) == IF HasKey(o, "@set") THEN Leaves(o.in, At(o, "@set"), Below(o, "@set")) ELSE {o}
Leaves(cs, v, path) ==
    CASE v.is = "null" -> {}
      [] v.is = "list" ->
            UNION {Leaves(cs, v.items[i], Append(path, ToString(i))) : i \in DOMAIN v.items}
      [] v.is = "map" -> LeavesOf(Object(Within(cs, v), v, path))
      [] OTHER -> {[is |-> "scalar", in |-> cs, value |-> v]}

Term(kind, n, type, lang) == [kind |-> kind, name |-> n, datatype |-> type, lang |-> lang]
NodeTerm(n) == Term(IF IsBnode(n) THEN "bnode" ELSE "iri", n, None, None)
NodeOf(o) ==
    IF HasKey(o, "@id") THEN Means(o.in, At(o, "@id").text, FALSE) ELSE <<"_", ":">> \o o.path

XsdName(v) == <<"xsd", ":", CASE v.is = "string" -> "string" [] v.is = "number" -> "integer"
                              [] v.is = "boolean" -> "boolean">>

\* The literal a scalar is under a term, and the one a value object is.
ScalarTerm(cs, key, v) ==
    Term("literal", v.text,
         IF Declared(cs, key) = 0 \/ TypeOf(cs, key) = None THEN XsdName(v) ELSE TypeOf(cs, key),
         None)
ValueTerm(o) ==
    Term("literal", At(o, "@value").text,
         IF HasKey(o, "@type") THEN Means(o.in, At(o, "@type").text, TRUE)
         ELSE IF HasKey(o, "@language") THEN <<"rdf", ":", "langString">>
         ELSE XsdName(At(o, "@value")),
         IF HasKey(o, "@language") THEN At(o, "@language").text ELSE None)

\* The terms of a key's values; lists and null values have none.
TermOf(key, leaf) ==
    IF leaf.is = "scalar" THEN ScalarTerm(leaf.in, key, leaf.value)
    ELSE IF HasKey(leaf, "@value") THEN ValueTerm(leaf)
    ELSE NodeTerm(NodeOf(leaf))
Objects(key, leaves) ==
    {TermOf(key, leaf) : leaf \in
        {l \in leaves : l.is = "object" =>
            ~HasKey(l, "@list") /\ (HasKey(l, "@value") => At(l, "@value").is # "null")}}

QuadOf(s, p, o, g) == [subj |-> s, pred |-> p, object |-> o, graph |-> g]
SaysAt(node, prop, back, objects, g) ==
    IF back
    THEN {QuadOf(o.name, prop, NodeTerm(node), g) : o \in {x \in objects : x.kind # "literal"}}
    ELSE {QuadOf(node, prop, o, g) : o \in objects}
Types(o) == IF HasKey(o, "@type") THEN ToSet(AsList(At(o, "@type"))) ELSE {}
\* An object with nothing but a graph is no node: its graph is the one around.
GraphFor(o, g) == IF Range(o.means) \ {Kw("@context")} = {Kw("@graph")} THEN g ELSE NodeOf(o)

RECURSIVE Says(_, _)
SaysOf(o, key, leaves, g) ==
    SaysAt(NodeOf(o), o.means[key], IsReverse(o.in, key), Objects(key, leaves), g)
    \cup Says(leaves, g)
SaysOne(o, g) ==
    IF HasKey(o, "@value") THEN {}
    ELSE IF HasKey(o, "@list") THEN Says(Leaves(o.in, At(o, "@list"), o.path), g)
    ELSE UNION {SaysOf(o, k, Leaves(o.in, o.at[k], Below(o, k)), g) :
                    k \in {key \in DOMAIN o.at : ~Keyword(o.means[key])}}
         \cup SaysAt(NodeOf(o), <<"rdf", ":", "type">>, FALSE,
                     {NodeTerm(Means(o.in, t.text, TRUE)) : t \in Types(o)}, g)
         \cup (IF HasKey(o, "@graph")
               THEN Says(Leaves(o.in, At(o, "@graph"), Below(o, "@graph")), GraphFor(o, g))
               ELSE {})
Says(leaves, g) == UNION {SaysOne(l, g) : l \in {x \in leaves : x.is = "object"}}

QuadsSaid(doc) == Says(Leaves(<<>>, doc, <<>>), <<"@default">>)

---------------------------------------------------------------------------
(* Equal but for the names of blank nodes.                                 *)

NamesIn(q) == {q.subj, q.pred, q.graph} \cup (IF q.object.kind = "literal" THEN {} ELSE {q.object.name})
BnodesOf(Q) == {n \in UNION {NamesIn(q) : q \in Q} : IsBnode(n)}
Renamed(q, f) ==
    LET new(n) == IF n \in DOMAIN f THEN f[n] ELSE n
    IN  [q EXCEPT !.subj = new(@), !.pred = new(@), !.graph = new(@), !.object.name = new(@)]
Isomorphic(Q, R) ==
    \E f \in Bijection(BnodesOf(Q), BnodesOf(R)) : {Renamed(q, f) : q \in Q} = R
=============================================================================
