---------------------------- MODULE MCConversion ----------------------------
(***************************************************************************)
(* Documents for the convert command: every context of up to three terms   *)
(* defined by one another, by reverse properties and by names; and, under  *)
(* one rich context, objects with every pair of kinds of values, the name  *)
(* of the object and its keys varied; objects in graphs and in lists; and  *)
(* documents that are wrong.                                               *)
(***************************************************************************)
EXTENDS Conversion

MCBase == <<"file", ":", "//f#">>
MCVarParts == {"?v"}
MCSlashParts == {"//f#", "//s/", "//t/"}

S == <<"http", ":", "//s/">>
N(n) == <<n>>
C(p, n) == <<p, ":", n>>
Obj(pairs) == Map([k \in {p[1] : p \in pairs} |-> (CHOOSE p \in pairs : p[1] = k)[2]])
Id(n) == Obj({<<Kw("@id"), Str(n)>>})

---------------------------------------------------------------------------
(* Contexts.                                                               *)

Definitions == {Str(S), Str(N("b")), Str(N("a")), Str(C("b", "x")), Str(C("a", "y")),
                Str(N("?v")),
                Obj({<<Kw("@reverse"), Str(C("b", "r"))>>}),
                Obj({<<Kw("@id"), Str(C("b", "x"))>>, <<Kw("@type"), Str(C("a", "T"))>>}),
                Obj({<<Kw("@type"), Str(Kw("@id"))>>})}
Terms == {N("a"), N("b"), C("a", "k")}
ContextMaps == UNION {[T -> Definitions] : T \in SUBSET Terms}

\* Circles with a definition by the whole name of another term, which the code
\* does not notice where there is a vocabulary: left out.
Circular(at) ==
    /\ \E t \in DOMAIN at : at[t] \in {Str(N("a")), Str(N("b"))}
    /\ \E t \in DOMAIN at : t \in L!NeedsInTheEnd(at, t)
WithVocab(at) == With(at, Kw("@vocab"), Str(<<"http", ":", "//t/">>))

Body(c, b) == Map(With(b, Kw("@context"), c))
\* The same in a graph, where the context is that of an inner object.
InnerBody(c, b) == Body(Map([k \in {} |-> Null]), Kw("@graph") :> Lst(<<Body(c, b)>>))

\* Lists that define terms twice, with a null in between or without, and then
\* a term by its prefix.
Again == {Str(S), Str(C("b", "x")), Str(C("a", "y"))}
AgainMaps == UNION {[T -> Again] : T \in SUBSET {N("a"), N("b")}}
AgainLists == {<<Map(f)>> \o nulls \o <<Map(g), Map(C("a", "k") :> Obj({<<Kw("@type"), Str(Kw("@id"))>>}))>> :
                    f, g \in AgainMaps, nulls \in {<<>>, <<Null>>}}

Plain == N("a") :> Obj({<<C("a", "k"), Id(C("b", "x"))>>})
ContextDocs ==
    {Body(Map(at), Plain) : at \in ContextMaps}
    \cup {Body(Map(WithVocab(at)), Plain) : at \in {x \in ContextMaps : ~Circular(x)}}
    \cup {Body(Lst(cs), Plain) :
            cs \in AgainLists \cup
                   {<<Map(N("b") :> Str(S)), Map(N("a") :> Str(C("b", "x")))>>,
                    <<Map(N("a") :> Str(C("b", "x"))), Map(N("b") :> Str(S))>>,
                    <<Map(N("a") :> Str(S)), Null, Map(N("b") :> Str(S))>>,
                    <<Map(N("a") :> Str(S)), Str(S)>>,
                    <<Map(Kw("@language") :> Str(N("en")))>>,
                    <<Lst(<<>>)>>,
                    <<Map(Kw("@base") :> Str(N("q/")) @@ N("a") :> Str(S))>>,
                    <<Map(Kw("@type") :> Str(S))>>}}

---------------------------------------------------------------------------
(* Objects.                                                                *)

Rich == Map(N("p") :> Str(S)
            @@ N("knows") :> Str(C("p", "knows"))
            @@ N("kind") :> Str(Kw("@type"))
            @@ N("of") :> Obj({<<Kw("@reverse"), Str(C("p", "knows"))>>})
            @@ N("age") :> Obj({<<Kw("@id"), Str(C("p", "knows"))>>,
                                <<Kw("@type"), Str(C("p", "int"))>>}))

Text == Str(N("text"))
Number == [is |-> "number", text |-> N("1")]
Truth == [is |-> "boolean", text |-> N("true")]
InTongue == Obj({<<Kw("@value"), Text>>, <<Kw("@language"), Str(N("en"))>>})
Typed == Obj({<<Kw("@value"), Text>>, <<Kw("@type"), Str(C("p", "int"))>>})
Anonymous == Obj({<<C("p", "q"), Text>>, <<Kw("@type"), Str(C("p", "K"))>>})
Inner == Obj({<<Kw("@id"), Str(C("_", "x"))>>, <<C("_", "x"), Id(C("p", "n"))>>})

Values == {Text, Number, Null, InTongue, Typed, Id(C("_", "x")), Id(N("n")), Inner, Anonymous,
           Obj({<<Kw("@set"), Lst(<<Text, Anonymous>>)>>}),
           Obj({<<Kw("@list"), Lst(<<Id(C("_", "x")), Text, Anonymous>>)>>}),
           Lst(<<Id(C("_", "y")), Lst(<<Truth, Text>>), Id(N("?v"))>>)}
KeyPairs == {<<N("knows"), C("p", "knows")>>, <<N("knows"), N("age")>>, <<N("of"), N("knows")>>,
             <<N("other"), C("_", "y")>>}
Ids == {None, C("_", "x"), C("p", "n"), C("_", "b0")}

Named_(n, b) == IF n = None THEN b ELSE With(b, Kw("@id"), Str(n))
\* A list may not be the value of a reverse property: the code takes it apart.
Whole(k, v) == ~(k = N("of") /\ Has(v, "@list"))
ObjectDocs ==
    {InnerBody(Rich, Named_(n, d[1] :> d[3] @@ d[2] :> d[4])) :
        n \in Ids, d \in {x \in {<<kk[1], kk[2], v, w>> : kk \in KeyPairs, v, w \in Values} : Whole(x[1], x[3])}}

\* Rules as test_data/authen.axiom.jsonld has them: graphs that imply graphs.
GraphDocs ==
    {Body(Rich, Kw("@graph") :> Lst(<<
        Obj({<<Kw("@id"), Str(g)>>, <<N("implies"), Lst(<<Id(h)>>)>>, <<Kw("@graph"), Lst(<<v>>)>>}),
        Obj({<<Kw("@id"), Str(h)>>, <<N("kind"), Lst(<<Str(C("_", "x")), Str(g)>>)>>,
             <<Kw("@graph"), v>>}),
        Obj({<<Kw("@graph"), Lst(<<w>>)>>, <<N("of"), v>>}),
        Text>>)) :
        g \in {C("_", "g"), C("_", "b1"), N("g")}, h \in {C("_", "x"), N("g")},
        v \in {Inner, Anonymous}, w \in {Inner, Anonymous, Obj({<<N("knows"), Inner>>})}}
    \cup {Body(Rich, Kw("@graph") :> Lst(<<Text, Id(C("p", "n")), Inner, Anonymous>>))}

\* An object with a context of its own, which has keys and names of that
\* context and of the one around.
NestedDocs ==
    {Body(Rich, N("knows") :> Obj({<<Kw("@context"), c>>, <<N("z"), Id(N("n"))>>, <<C("z", "y"), Text>>,
                                   <<N(key), Id(C("p", "n"))>>, <<C("p", "q"), inner>>})) :
        c \in {Map(N("z") :> Str(S)), Map(N("z") :> Str(N("z"))), Map([k \in {} |-> Null]),
               Map(N("knows") :> Str(C("p", "x"))), Map(N("knows") :> Str(C("_", "k")) @@ N("p") :> Str(C("_", "p"))),
               Lst(<<Null, Map(Kw("@vocab") :> Str(S))>>)},
        key \in {"knows", "of", "age"},
        inner \in {Text, Obj({<<N("knows"), Text>>, <<N("z"), Id(C("p", "n"))>>})}}

WrongDocs ==
    {Body(Rich, b) : b \in {
        N("kind") :> Str(S) @@ Kw("@type") :> Str(S),
        Kw("@id") :> Number,
        Kw("@type") :> Lst(<<Number>>),
        N("knows") :> Obj({<<Kw("@value"), Text>>, <<C("p", "q"), Text>>}),
        N("knows") :> Obj({<<Kw("@value"), Number>>, <<Kw("@language"), Str(N("en"))>>}),
        N("knows") :> Obj({<<Kw("@value"), Text>>, <<Kw("@type"), Str(C("_", "x"))>>}),
        N("knows") :> Obj({<<Kw("@list"), Lst(<<>>)>>, <<Kw("@id"), Str(S)>>}),
        N("knows") :> Obj({<<Kw("@list"), Lst(<<Obj({<<Kw("@list"), Lst(<<>>)>>})>>)>>}),
        N("knows") :> Lst(<<Obj({<<Kw("@id"), Str(S)>>, <<Kw("@index"), Str(N("i"))>>}),
                            Obj({<<Kw("@id"), Str(S)>>, <<Kw("@index"), Str(N("j"))>>})>>)}}

\* Documents that are no object, or that have no context.
Known(n) == Obj({<<Kw("@id"), Str(n)>>, <<C("p", "q"), Lst(<<Inner, Text>>)>>})
OtherDocs ==
    {NoFile, NoJson, Null, Text, Lst(<<>>), Known(C("_", "b0")), Map([k \in {} |-> Null])}
    \cup {Lst(<<Body(Rich, N("knows") :> v), Known(n), Null>>) : v \in {Inner, Anonymous}, n \in {N("n"), C("_", "x")}}
    \cup {Lst(<<Known(C("_", "b1")), Lst(<<Number, Known(C("_", "x"))>>), Body(Str(S), Plain)>>)}

MCSources == OtherDocs \cup ContextDocs \cup ObjectDocs \cup GraphDocs \cup NestedDocs \cup WrongDocs
=============================================================================
