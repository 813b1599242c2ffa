---------------------------- MODULE Natural3Props ----------------------------
(***************************************************************************)
(* What Notation3 files say, and that it is what the prover is given.  A   *)
(* place in the files is a path: file, statement, part, and so on inwards, *)
(* ordered as in the text.                                                 *)
(***************************************************************************)
EXTENDS Natural3

RECURSIVE StatementsIn(_, _, _), StatementsInItem(_, _)

\* The items of a statement with their places: the subject, the verb and
\* objects of each of its properties.
ItemsOf(st) ==
    IF st.is = "declaration" THEN {}
    ELSE {<<st.subject, <<0>>>>}
         \cup UNION {{<<st.propertylist[k].objects[j], <<k, j>>>> :
                            j \in DOMAIN st.propertylist[k].objects}
                     \cup {<<x, <<k, 0>>>> : x \in {y \in {st.propertylist[k].expression} : y.is # "no"}} :
                        k \in DOMAIN st.propertylist}

\* The statements of a graph and of the graphs in it: <<place, statement, graph>>.
StatementsIn(sts, path, graph) ==
    UNION {{<<Append(path, i), sts[i], graph>>}
           \cup UNION {StatementsInItem(x[1], Append(path, i) \o x[2]) : x \in ItemsOf(sts[i])} :
                i \in DOMAIN sts}
StatementsInItem(item, path) ==
    CASE item.is = "formulacontent" -> StatementsIn(item.statements, path, <<"_:", path>>)
      [] item.is = "pathlist" ->
            UNION {StatementsInItem(item.items[i], Append(path, i)) : i \in DOMAIN item.items}
      [] OTHER -> {}

Before(p, q) ==
    \E k \in 1..Len(q) : /\ k <= Len(p) + 1
                         /\ SubSeq(p, 1, k - 1) = SubSeq(q, 1, k - 1)
                         /\ Len(p) = k - 1 \/ (Len(p) >= k /\ p[k] < q[k])

\* Names are those written, whatever prefixes are declared.
NodeAt(item, path) ==
    CASE item.is \in {"qname", "explicituri", "quickvariable"} -> Iri(item.name)
      [] item.is \in {"formulacontent", "pathlist"} -> Bnode(<<"_:", path>>)
      [] OTHER -> Literal(item.name, item.is)

\* The quads of a statement with the places of their objects.
QuadsOf(x) ==
    IF x[2].is = "declaration" THEN {}
    ELSE LET s == NodeAt(x[2].subject, Append(x[1], 0))
             made(k, j) ==
                LET prop == x[2].propertylist[k]
                    o == NodeAt(prop.objects[j], x[1] \o <<k, j>>)
                    p == IF prop.expression.is = "no" THEN Iri(Verb(prop.sign))
                         ELSE NodeAt(prop.expression, x[1] \o <<k, 0>>)
                IN  IF prop.sign \in {"@is", "<="}
                    THEN [subj |-> o, pred |-> p, object |-> s, graph |-> x[3]]
                    ELSE [subj |-> s, pred |-> p, object |-> o, graph |-> x[3]]
         IN  UNION {{<<x[1] \o <<k, j>>, made(k, j)>> :
                        j \in DOMAIN x[2].propertylist[k].objects} : k \in DOMAIN x[2].propertylist}

\* The graphs, each the sequence of its quads in the order of the text.
GraphsSaid(part) ==
    LET quads == UNION {QuadsOf(x) : x \in part}
        of(g) == {q \in quads : q[2].graph = g}
        sorted(g) == [i \in 1..Cardinality(of(g)) |->
                        (CHOOSE q \in of(g) : Cardinality({r \in of(g) : Before(r[1], q[1])}) = i - 1)[2]]
    IN  [g \in {q[2].graph : q \in quads} |-> sorted(g)]

\* The items of a kind in an item, with their places.
RECURSIVE PartsOf(_, _, _)
PartsOf(item, path, kind) ==
    (IF item.is = kind THEN {<<item, path>>} ELSE {})
    \cup (IF item.is # "pathlist" THEN {}
          ELSE UNION {PartsOf(item.items[i], Append(path, i), kind) : i \in DOMAIN item.items})
Parts(all, kind) ==
    UNION {UNION {PartsOf(i[1], x[1] \o i[2], kind) : i \in ItemsOf(x[2])} : x \in all}

ListsSaid(part) ==
    {<<<<"_:", l[2]>>, [i \in DOMAIN l[1].items |-> NodeAt(l[1].items[i], Append(l[2], i))]>> :
        l \in Parts(part, "pathlist")}

All == UNION {StatementsIn(files[f], <<f>>, Default) :
                f \in {n \in DOMAIN files : files[n] # Unparsed}}

\* What the reader has no answer for: empty graphs, and property lists in
\* brackets.
Unreadable ==
    {x \in Parts(All, "formulacontent") : x[1].statements = <<>>} \cup Parts(All, "brackets")

\* Where one file has rules and query: the first statement that is but fin.
IsFin(x) ==
    x[3] = Default /\ x[2].is # "declaration" /\ x[2].propertylist = <<>>
    /\ NodeAt(x[2].subject, Append(x[1], 0)).name = Fin
InQuery(x) ==
    IF Len(files) = 2 THEN x[1][1] = 2
    ELSE \E y \in All : IsFin(y) /\ y[1][2] < x[1][2]

---------------------------------------------------------------------------
(* The names of blank nodes: graphs are numbered as they begin in the      *)
(* text, lists as they end.                                                *)

Ends(p, q) == IsPrefix(q, p) \/ (Before(p, q) /\ ~IsPrefix(p, q))
NamesGiven ==
    LET graphs == {x[2] : x \in Parts(All, "formulacontent")}
        lists == {x[2] : x \in Parts(All, "pathlist")}
    IN  [n \in {<<"_:", p>> : p \in graphs \cup lists} |->
            IF n[2] \in graphs
            THEN <<"_:b", Cardinality({p \in graphs : p # n[2] /\ Before(p, n[2])})>>
            ELSE <<"_:list", Cardinality({p \in lists : p # n[2] /\ Ends(p, n[2])})>>]

Renamed(n, f) == IF n.kind = "bnode" THEN [n EXCEPT !.name = f[@]] ELSE n
RenamedGraph(g, f) == IF g = Default THEN g ELSE f[g]
SameGraphs(graphs, others, f) ==
    /\ {RenamedGraph(g, f) : g \in DOMAIN graphs} = DOMAIN others
    /\ \A g \in DOMAIN graphs :
          [i \in DOMAIN graphs[g] |->
              LET q == graphs[g][i]
              IN  [subj |-> Renamed(q.subj, f), pred |-> Renamed(q.pred, f),
                   object |-> Renamed(q.object, f), graph |-> RenamedGraph(q.graph, f)]]
          = others[RenamedGraph(g, f)]
SameLists(lists, others, f) ==
    {<<f[l[1]], [i \in DOMAIN l[2] |-> Renamed(l[2][i], f)]>> : l \in lists}
    = {<<l, others[l]>> : l \in DOMAIN others}

\* When the files are read, rules and query are what the files say: every
\* graph with its quads in the order of the text, every list, verbs that go
\* backwards, `fin' in its place, and no blank node of the one is in the
\* other.  Nothing is left out for being unreadable: the program is aborted
\* just at the first statement with something it has no answer for, however
\* deep in graphs and lists.
FilesAsSaid ==
    /\ status = "aborted" => \E x \in Unreadable : x[2][1] = file /\ x[2][2] = at - 1
    /\ status = "loading" =>
        \A x \in Unreadable : x[2][1] > file \/ (x[2][1] = file /\ x[2][2] >= at)
    /\ Loaded =>
        LET rules == {x \in All : ~InQuery(x)}
            query == All \ rules
            f == NamesGiven
        IN  /\ SameGraphs(GraphsSaid(rules), Rules.first, f)
            /\ SameGraphs(GraphsSaid(query), Query.first, f)
            /\ SameLists(ListsSaid(rules), Rules.second, f)
            /\ SameLists(ListsSaid(query), Query.second, f)
=============================================================================
