----------------------------- MODULE MCLoading -----------------------------
(***************************************************************************)
(* Documents for the prove command: every pair of seven kinds of subject   *)
(* and object, lists and graphs in each other among them; statements with  *)
(* several predicates, objects, labels and prefixes; rule bases with       *)
(* implications, some inconsistent; and texts that end too early.          *)
(***************************************************************************)
EXTENDS LoadingProps

MCCurlyId(n) == "_:b" \o ToString(n)
MCListId(n, k) == "_:list" \o ToString(n) \o "." \o ToString(k)
MCPrefixOf == [t \in {"p:x", "p:y", "q:x"} |-> IF t = "q:x" THEN "q:" ELSE "p:"]
MCExpand(ns, t) == ns \o (IF t = "p:y" THEN "y" ELSE "x")

MCVars == {"?a", "?x", "?y", "?z", "?u", "?v", "?t"}
MCNames == {"a", "b", "c", "d", "p", "q", "s", Implies, False, Gnd, "k", "k2",
            "_:b0", "_:b1", "_:b2", "ns#x", "p:x", "x", "y"}

NoPrefix == [p \in {} |-> Nil]
Doc(statements) == D!Document(NoPrefix, statements)
T(s, p, o) == D!Triple(D!Name(s), p, D!Name(o))

\* Seven kinds of item, with the numbers their lists and graphs start from.
Kinds == 1..7
ListsIn == <<0, 1, 2, 1, 1, 1, 0>>
GraphsIn == <<0, 0, 0, 1, 1, 0, 1>>
Item(kind, x, l, g) ==
    CASE kind = 1 -> D!Name(x)
      [] kind = 2 -> D!List(l, <<D!Name(x)>>)
      [] kind = 3 -> D!List(l, <<D!Name("d"), D!List(l + 1, <<D!Name(x)>>), D!Name("d")>>)
      [] kind = 4 -> D!Graph(g, <<D!Triple(D!List(l, <<D!Name(x)>>), "p", D!Name("d")),
                                  T("d", "p", x)>>)
      [] kind = 5 -> D!List(l, <<D!Name("d"), D!Graph(g, <<T(x, "p", "d")>>), D!Name(x)>>)
      [] kind = 6 -> D!List(l, <<>>)
      [] kind = 7 -> D!Graph(g, <<>>)

Nested == {Doc(<<D!Triple(Item(i, "a", 0, 0), p, Item(j, "b", ListsIn[i], GraphsIn[i])),
                 T("c", "p", "d")>>) : i, j \in Kinds, p \in {"p", Implies}}

Abbreviated ==
    {D!Document([p \in {"p:"} |-> "ns#"],
        <<D!Statement(D!Name("a"), <<<<"p", <<D!Name("p:x"), D!Name("b")>>>>, <<"q", <<D!Name("c")>>>>>>, label),
          D!Statement(D!Name("q:x"), <<<<"p", <<D!Name("d")>>>>>>, "k"),
          D!Triple(D!Name(s), Implies, D!Name("k2"))>>) : label \in {"", "k", "k2"}, s \in {"k", "k2"}}

\* Statements of rule bases; {a p ?x} implies things.
Antecedent(n) == D!Graph(n, <<T("?x", "p", "b"), T("?x", "q", "?y")>>)
Rulings == {<<D!Triple(Antecedent(0), Implies, D!Name(False))>>,
            <<D!Triple(Antecedent(0), Implies, D!Name(False)),
              D!Triple(D!Graph(1, <<T("?z", "q", "c")>>), Implies, D!Name(False))>>,
            <<D!Triple(Antecedent(0), Implies, D!Graph(1, <<T("?y", "s", "?x"), T("?x", "s", "c")>>))>>,
            <<D!Triple(Antecedent(0), Implies, D!Graph(1, <<T("?y", "s", "b")>>)),
              D!Triple(D!Graph(2, <<T("?z", "s", "b"), T("?z", "q", "a")>>), Implies, D!Name(False))>>,
            <<D!Statement(D!Name("b"), <<<<"q", <<D!Name("a")>>>>>>, "k"),
              T("k", Implies, False),
              D!Triple(D!Graph(0, <<T("?x", "p", "b")>>), Implies, D!Graph(1, <<T("b", "s", "?x")>>))>>}
Known == <<T("a", "p", "b"), T("a", "q", "c"), T("c", "q", "a"), T("a", "q", "a")>>
Ruled == {Doc(SelectSeq(Known, LAMBDA t : t \in S) \o ruling) : S \in SUBSET ToSet(Known), ruling \in Rulings}
         \cup {Doc(ruling \o SelectSeq(Known, LAMBDA t : t \in S)) :
                    S \in SUBSET ToSet(Known) \ {{}}, ruling \in Rulings}
\* What unification finds to imply false: a names a graph only by d => a, the
\* graph k may be there and may follow.
Blame == D!Triple(D!Graph(0, <<T("?x", "p", "b")>>), Implies, D!Graph(1, <<T("?x", Implies, False)>>))
Blamed == <<T("a", "p", "b"), T("k", "p", "b"), T("d", Implies, "a"), T("b", "q", "a"),
            D!Statement(D!Name("b"), <<<<"q", <<D!Name("a")>>>>>>, "k")>>
Unnamed == {Doc(<<T("d", Implies, False), T("a", "p", "b")>>),
            Doc(<<T(Gnd, Implies, False), T("a", "p", "b")>>)}
           \cup {Doc(<<Blame>> \o SelectSeq(Blamed, LAMBDA t : t \in S)) : S \in SUBSET ToSet(Blamed)}

Questions == {Doc(<<T("?u", "s", "?v")>>), Doc(<<T("?u", "q", "?v"), T("?v", "q", "a")>>)}

Job(kb0, query, check) ==
    [kb |-> D!Text(kb0), query |-> D!Text(query), check |-> check,
     said |-> [kb |-> kb0, query |-> query]]

\* The text of a document without its last n tokens; what it then says is not
\* stated.
Torn == {D!Text(Doc(<<D!Triple(Item(5, "a", 0, 0), "p", Item(4, "b", 1, 1))>>)),
         <<"@prefix", "p:", "ns#", ".", "p:x", "p", "a", ".">>}
TornJob(text, n) ==
    [kb |-> SubSeq(text, 1, Len(text) - n), query |-> <<"a", "p", "b", ".">>, check |-> FALSE,
     said |-> [kb |-> Doc(<<>>), query |-> Doc(<<>>)]]
TornJobs == UNION {{TornJob(text, n) : n \in 1..Len(text)} : text \in Torn}
            \cup {TornJob(<<"a", "p", "b", ".", ")", ".">>, 0),
                  TornJob(<<"(", "a", "}", ".">>, 0)}

\* Both texts empty.
Nothing == Job(Doc(<<>>), Doc(<<>>), FALSE)

MCJobs == {Job(doc, Doc(<<T("a", "p", "b")>>), FALSE) : doc \in Nested \cup Abbreviated}
          \cup {Job(doc, q, TRUE) : doc \in Ruled, q \in Questions}
          \cup {Job(doc, Doc(<<T("a", "p", "?x")>>), TRUE) : doc \in Unnamed}
          \cup {Job(Doc(Known), Doc(<<T("a", "?u", "?v")>>), TRUE)}
          \cup TornJobs \cup {Nothing}

\* Command lines: a command, with options put in at any place.
MCNumber == [w \in {"100", "5"} |-> IF w = "5" THEN 5 ELSE 100]
CommandWords == {<<>>, <<"prove">>, <<"prove", "kb">>, <<"prove", "kb", "query">>,
    <<"convert">>, <<"convert", "doc">>, <<"convert", "doc", "doc">>, <<"help">>,
    <<"help", "prove">>, <<"help", "list">>, <<"help", "prove", "kb">>, <<"list">>}
With(lines, words) ==
    UNION {{SubSeq(line, 1, i) \o words \o SubSeq(line, i + 1, Len(line)) : i \in 1..Len(line)} :
            line \in lines}
Line == {<<"tau">> \o words : words \in CommandWords}
Lines == LET levelled == Line \cup With(Line, <<"--level", "100">>)
             quads == With(levelled, <<"--quads">>)
         IN  levelled \cup quads \cup With(quads, <<"--base">>) \cup With(quads, <<"--level", "5">>)
             \cup With(Line, <<"--level">>)
MCArgsFor(j) == IF j = Nothing THEN Lines ELSE {<<"tau">>}
=============================================================================
