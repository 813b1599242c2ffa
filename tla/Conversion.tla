----------------------------- MODULE Conversion -----------------------------
(***************************************************************************)
(* The convert command: a JSON-LD document becomes quads (cmd_t::convert,  *)
(* nodemap and toquads in cli.cpp).  The document is loaded, its context   *)
(* parsed, the document expanded, its objects gathered in a map of nodes,  *)
(* by a recursive walk that names blank nodes anew (gen_node_map), and the *)
(* map is written out as quads (graph_to_rdf in rdf.cpp).                  *)
(*                                                                         *)
(* The terms of a context are defined, the objects visited and the values  *)
(* written one a step.  The code goes through keys in the order of their   *)
(* strings: the model through the terms of the document's context in any   *)
(* order, through other keys in one fixed order.                           *)
(***************************************************************************)
EXTENDS Expansion

CONSTANT Sources   \* the files: a value of JSON, or why there is none

VARIABLES
    source,    \* the file
    phase,     \* what is done with it
    ctx,       \* the context so far
    contexts,  \* the contexts not yet parsed, the first one perhaps in part
    terms,     \* the terms of the first one not yet taken; None before
    expanded,  \* the document, expanded
    work,      \* the calls of gen_node_map to come, the next one first
    nodes,     \* nodeMap: the values by graph, node and property
    names,     \* gen_bnode_id: the new names of labels, and how many there are
    todo,      \* the values not yet written as quads
    quads,     \* rdf_db::first: the quads by graph
    lists      \* rdf_db::second: the items of lists

vars == <<source, phase, ctx, contexts, terms, expanded, work, nodes, names, todo, quads, lists>>

Default == Kw("@default")
Unread == {None}

Init ==
    /\ source \in Sources
    /\ phase = "load"
    /\ ctx = NewContext
    /\ contexts = <<>>
    /\ terms = Unread
    /\ expanded = Null
    /\ work = <<>>
    /\ nodes = (Default :> NoMap)
    /\ names = [of |-> NoMap, count |-> 0]
    /\ todo = <<>>
    /\ quads = (Default :> <<>>)
    /\ lists = NoMap

---------------------------------------------------------------------------
(* load_json: a file that cannot be opened, that is no JSON or is just     *)
(* null ends the command.                                                  *)

NoFile == [is |-> "no file"]
NoJson == [is |-> "no json"]

LoadJson ==
    /\ phase = "load"
    /\ IF source \in {NoFile, NoJson, Null}
       THEN phase' = "threw" /\ UNCHANGED contexts
       ELSE /\ phase' = "context"
            /\ contexts' = IF Has(source, "@context") THEN ContextsOf(Get(source, "@context"))
                           ELSE <<>>
    /\ UNCHANGED <<source, ctx, terms, expanded, work, nodes, names, todo, quads, lists>>

---------------------------------------------------------------------------
(* The context.                                                            *)

ReadContext ==
    /\ phase = "context"
    /\ contexts # <<>>
    /\ terms = Unread
    /\ ctx' = Settings(ctx, Head(contexts))
    /\ terms' = IF Head(contexts).is = "map" THEN TermsOf(Head(contexts).at) ELSE {}
    /\ phase' = IF ctx'.error # "" THEN "threw" ELSE phase
    /\ UNCHANGED <<source, contexts, expanded, work, nodes, names, todo, quads, lists>>

DefineTerm ==
    /\ phase = "context"
    /\ contexts # <<>>
    /\ terms # Unread
    /\ \E term \in terms :
          /\ ctx' = CreateTermDef(Head(contexts).at, term, ctx)
          /\ terms' = terms \ {term}
    /\ phase' = IF ctx'.error # "" THEN "threw" ELSE phase
    /\ UNCHANGED <<source, contexts, expanded, work, nodes, names, todo, quads, lists>>

ContextRead ==
    /\ phase = "context"
    /\ contexts # <<>>
    /\ terms = {}
    /\ contexts' = Tail(contexts)
    /\ terms' = Unread
    /\ UNCHANGED <<source, phase, ctx, expanded, work, nodes, names, todo, quads, lists>>

---------------------------------------------------------------------------
(* The nodes.                                                              *)

\* A call of gen_node_map.  `back': the subject is the object of prop, from a
\* reverse property.  `listed': the value goes to the list being gathered.
Visit(v, g, subject, prop, back, listed) ==
    [is |-> "visit", element |-> v, graph |-> g, subject |-> subject, prop |-> prop,
     back |-> back, listed |-> listed]
\* After the items of a list: the list is merged.
Close(f) == [f EXCEPT !.is = "close", !.element = Lst(<<>>)]
\* A key of an object, which may be a blank node to rename.
Property(k, v, g, subject) == Visit(v, g, subject, k, FALSE, FALSE)
Keyed(f) == [f EXCEPT !.is = "property"]

\* The context of an object has been parsed; those of objects in a list are
\* parsed with them.
WithoutContext(v) == IF v.is = "map" THEN Map(Restrict(v.at, DOMAIN v.at \ {Kw("@context")})) ELSE v

ExpandDocument ==
    /\ phase = "context"
    /\ contexts = <<>>
    /\ \E one \in {ExpandOne(ctx, None, WithoutContext(source))} :
          /\ expanded' = IF one.is = "thrown" THEN Null ELSE Lst(AsList(one))
          /\ phase' = IF one.is = "thrown" THEN "threw" ELSE "map"
    /\ work' = <<Visit(expanded', Default, None, None, FALSE, FALSE)>>
    /\ UNCHANGED <<source, ctx, contexts, terms, nodes, names, todo, quads, lists>>

Fresh(count) == <<"_", ":", "b" \o ToString(count)>>

\* gen_bnode_id(label): a label keeps the name it was given first.
Named(st, label) ==
    IF label \in DOMAIN st.of THEN st
    ELSE [of |-> With(st.of, label, Fresh(st.count)), count |-> st.count + 1]
NamedIfBnode(st, n) == IF IsBnode(n) THEN Named(st, n) ELSE st
NewNameKept(st, n) == n   \* Altered: labels are kept
NewName(st, n) == IF IsBnode(n) THEN st.of[n] ELSE n

\* deepCompare, which ignores the order of lists: for names, references and
\* value objects, which have none in them, it is equality.
Compare(v, w) == v = w

\* mergeValue: the values of a property are a set, but for lists.
Merge(graph, id, prop, v) ==
    LET node == graph[id]
        values == IF prop \in DOMAIN node THEN node[prop] ELSE <<>>
    IN  IF ~Has(v, "@list") /\ \E w \in ToSet(values) : Compare(v, w) THEN graph
        ELSE [graph EXCEPT ![id] = With(node, prop, Append(values, v))]

\* The value goes where the call says, or nowhere: an object that is the
\* value of a reverse property has no subject to take it.
GiveValue(f, v, graph, calls) ==
    LET k == SelectInSeq(calls, LAMBDA c : c.is = "close")
    IN  IF f.listed
        THEN [graph |-> graph, calls |-> [calls EXCEPT ![k].element.items = Append(@, v)]]
        ELSE [graph |-> IF f.subject = None \/ f.back THEN graph
                        ELSE Merge(graph, f.subject, f.prop, v),
              calls |-> calls]

Graph(g) == IF g \in DOMAIN nodes THEN nodes[g] ELSE NoMap

VisitItems ==
    /\ phase = "map"
    /\ work # <<>>
    /\ Head(work).is = "visit"
    /\ Head(work).element.is = "list"
    /\ work' = [i \in DOMAIN Head(work).element.items |->
                    [Head(work) EXCEPT !.element = Head(work).element.items[i]]]
               \o Tail(work)
    /\ UNCHANGED <<source, phase, ctx, contexts, terms, expanded, nodes, names, todo, quads, lists>>

VisitValue ==
    /\ phase = "map"
    /\ work # <<>>
    /\ Head(work).is = "visit"
    /\ Has(Head(work).element, "@value")
    /\ LET f == Head(work)
           given == GiveValue(f, f.element, Graph(f.graph), Tail(work))
       IN  /\ nodes' = With(nodes, f.graph, given.graph)
           /\ work' = given.calls
    /\ UNCHANGED <<source, phase, ctx, contexts, terms, expanded, names, todo, quads, lists>>

VisitList ==
    /\ phase = "map"
    /\ work # <<>>
    /\ Head(work).is = "visit"
    /\ Has(Head(work).element, "@list")
    /\ nodes' = With(nodes, Head(work).graph, Graph(Head(work).graph))
    /\ work' = <<[Head(work) EXCEPT !.element = Get(Head(work).element, "@list"), !.listed = TRUE],
                 Close(Head(work))>> \o Tail(work)
    /\ UNCHANGED <<source, phase, ctx, contexts, terms, expanded, names, todo, quads, lists>>

CloseList ==
    /\ phase = "map"
    /\ work # <<>>
    /\ Head(work).is = "close"
    /\ LET f == Head(work)
           given == GiveValue([f EXCEPT !.listed = FALSE], Only("@list", f.element),
                              Graph(f.graph), Tail(work))
       IN  /\ nodes' = With(nodes, f.graph, given.graph)
           /\ work' = given.calls
    /\ UNCHANGED <<source, phase, ctx, contexts, terms, expanded, names, todo, quads, lists>>

VisitProperty ==
    /\ phase = "map"
    /\ work # <<>>
    /\ Head(work).is = "property"
    /\ LET f == Head(work)
           named == NamedIfBnode(names, f.prop)
           prop == NewName(named, f.prop)
           node == nodes[f.graph][f.subject]
       IN  /\ names' = named
           /\ nodes' = IF prop \in DOMAIN node THEN nodes
                       ELSE [nodes EXCEPT ![f.graph][f.subject] = With(node, prop, <<>>)]
           /\ work' = <<[f EXCEPT !.is = "visit", !.prop = prop]>> \o Tail(work)
    /\ UNCHANGED <<source, phase, ctx, contexts, terms, expanded, todo, quads, lists>>

Ref(id) == Only("@id", Str(id))
IndexClash(graph, id, e) ==
    /\ Has(e, "@index")
    /\ Kw("@index") \in DOMAIN graph[id]
    /\ graph[id][Kw("@index")] # <<Get(e, "@index")>>

VisitNode ==
    /\ phase = "map"
    /\ work # <<>>
    /\ Head(work).is = "visit"
    /\ Head(work).element.is = "map"
    /\ ~Has(Head(work).element, "@value")
    /\ ~Has(Head(work).element, "@list")
    /\ LET f == Head(work)
           e == f.element
           types == IF Has(e, "@type") THEN Get(e, "@type").items ELSE <<>>
           typesNamed == FoldLeft(LAMBDA st, t : NamedIfBnode(st, t.text), names, types)
           label == IF Has(e, "@id") THEN Get(e, "@id").text ELSE None
           id == IF label = None THEN Fresh(typesNamed.count)
                 ELSE NewName(NamedIfBnode(typesNamed, label), label)
           graph == IF id \in DOMAIN Graph(f.graph) THEN Graph(f.graph)
                    ELSE With(Graph(f.graph), id, NoMap)
           given == IF f.back
                    THEN [graph |-> Merge(graph, id, f.prop, Ref(f.subject)), calls |-> Tail(work)]
                    ELSE IF f.prop = None THEN [graph |-> graph, calls |-> Tail(work)]
                    ELSE GiveValue(f, Ref(id), graph, Tail(work))
           typed == FoldLeft(LAMBDA gr, t : Merge(gr, id, Kw("@type"),
                                                  Str(NewName(typesNamed, t.text))),
                             given.graph, types)
           indexed == IF Has(e, "@index") THEN Merge(typed, id, Kw("@index"), Get(e, "@index"))
                      ELSE typed
           backwards == IF Has(e, "@reverse") THEN Get(e, "@reverse").at ELSE NoMap
           keys == InOrder(DOMAIN e.at \ {Kw("@id"), Kw("@type"), Kw("@index"),
                                           Kw("@reverse"), Kw("@graph")})
       IN  /\ names' = IF label = None THEN [typesNamed EXCEPT !.count = @ + 1]
                       ELSE NamedIfBnode(typesNamed, label)
           /\ phase' = IF IndexClash(typed, id, e) THEN "threw" ELSE phase
           /\ nodes' = With(nodes, f.graph, indexed)
           /\ work' = [i \in DOMAIN InOrder(DOMAIN backwards) |->
                        LET prop == InOrder(DOMAIN backwards)[i]
                        IN  Visit(backwards[prop], f.graph, id, prop, TRUE, FALSE)]
                      \o (IF Has(e, "@graph")
                          THEN <<Visit(Get(e, "@graph"), id, None, None, FALSE, FALSE)>> ELSE <<>>)
                      \o [i \in DOMAIN keys |->
                            Keyed(Property(keys[i], e.at[keys[i]], f.graph, id))]
                      \o given.calls
    /\ UNCHANGED <<source, ctx, contexts, terms, expanded, todo, quads, lists>>

---------------------------------------------------------------------------
(* The quads.                                                              *)

Iri(n) == [kind |-> IF IsBnode(n) THEN "bnode" ELSE "iri", name |-> n,
           datatype |-> None, lang |-> None]
Literal(n, datatype, lang) ==
    [kind |-> "literal", name |-> n, datatype |-> datatype, lang |-> lang]
Quad(s, p, o, g) == [subj |-> s, pred |-> p, object |-> o, graph |-> g]

Rdf(n) == <<"rdf", ":", n>>
Xsd(n) == <<"xsd", ":", n>>

NodeType(v) ==
    IF Has(v, "@type") THEN Get(v, "@type").text
    ELSE IF Has(v, "@language") THEN Rdf("langString")
    ELSE Xsd(CASE Get(v, "@value").is = "string" -> "string"
               [] Get(v, "@value").is = "number" -> "integer"
               [] Get(v, "@value").is = "boolean" -> "boolean")

ObjToRdf(v) ==
    IF Has(v, "@value")
    THEN Literal(Get(v, "@value").text, NodeType(v),
                 IF Has(v, "@language") THEN Get(v, "@language").text ELSE None)
    ELSE Iri(IF v.is = "map" THEN Get(v, "@id").text ELSE v.text)

PredicateOf(prop) == IF prop = Kw("@type") THEN Rdf("type") ELSE prop

\* The properties whose values are written.
Written(g, id) ==
    {p \in DOMAIN nodes[g][id] :
        p = Kw("@type") \/ (~Keyword(p) /\ ~IsRelIri(p))}

\* The walk of toquads and graph_to_rdf, in order.
ValuesToWrite ==
    FlattenSeq([i \in DOMAIN InOrder(DOMAIN nodes) |->
        LET g == InOrder(DOMAIN nodes)[i]
            ids == InOrder({id \in DOMAIN nodes[g] : ~IsRelIri(id)})
        IN  IF IsRelIri(g) THEN <<>>
            ELSE FlattenSeq([j \in DOMAIN ids |->
                    LET props == InOrder(Written(g, ids[j]))
                    IN  FlattenSeq([k \in DOMAIN props |->
                            LET values == nodes[g][ids[j]][props[k]]
                            IN  [m \in DOMAIN values |-> <<g, ids[j], props[k], values[m]>>]])])])

StartQuads ==
    /\ phase = "map"
    /\ work = <<>>
    /\ phase' = "quads"
    /\ todo' = ValuesToWrite
    /\ quads' = [g \in {x \in DOMAIN nodes : ~IsRelIri(x)} \cup {Default} |-> <<>>]
    /\ UNCHANGED <<source, ctx, contexts, terms, expanded, work, nodes, names, lists>>

\* The cells of a list.  The first one is nil, where the code gives the head a
\* name it uses for nothing but the list of items, less the last one.
Cells(n) == [i \in 1..n |-> IF i = 1 THEN Rdf("nil") ELSE Fresh(names.count + i - 1)]
ListQuads(objects, g) ==
    LET cells == Cells(Len(objects))
    IN  FlattenSeq([i \in DOMAIN objects |->
            <<Quad(cells[i], Rdf("first"), objects[i], g),
              Quad(cells[i], Rdf("rest"),
                   Iri(IF i < Len(objects) THEN cells[i + 1] ELSE Rdf("nil")), g)>>])

WriteList ==
    /\ phase = "quads"
    /\ todo # <<>>
    /\ Has(Head(todo)[4], "@list")
    /\ LET g == Head(todo)[1]
           list == Get(Head(todo)[4], "@list").items
           objects == [i \in DOMAIN list |-> ObjToRdf(list[i])]
       IN  /\ quads' = [quads EXCEPT ![g] =
                    @ \o <<Quad(Head(todo)[2], PredicateOf(Head(todo)[3]), Iri(Rdf("nil")), g)>>
                      \o ListQuads(objects, g)]
           /\ names' = [names EXCEPT !.count = @ + Len(list)]
           /\ lists' = IF Len(list) < 2 THEN lists
                       ELSE With(lists, Fresh(names.count), Front(objects))
    /\ todo' = Tail(todo)
    /\ UNCHANGED <<source, phase, ctx, contexts, terms, expanded, work, nodes>>

WriteValue ==
    /\ phase = "quads"
    /\ todo # <<>>
    /\ ~Has(Head(todo)[4], "@list")
    /\ LET v == Head(todo)[4]
           dangling == Has(v, "@id") /\ IsRelIri(Get(v, "@id").text)
       IN  quads' = IF dangling THEN quads
                    ELSE [quads EXCEPT ![Head(todo)[1]] =
                            Append(@, Quad(Head(todo)[2], PredicateOf(Head(todo)[3]),
                                           ObjToRdf(v), Head(todo)[1]))]
    /\ todo' = Tail(todo)
    /\ UNCHANGED <<source, phase, ctx, contexts, terms, expanded, work, nodes, names, lists>>

AllWritten ==
    /\ phase = "quads"
    /\ todo = <<>>
    /\ phase' = "done"
    /\ UNCHANGED <<source, ctx, contexts, terms, expanded, work, nodes, names, todo, quads, lists>>

Ended ==
    /\ phase \in {"done", "threw"}
    /\ UNCHANGED vars

Next ==
    \/ LoadJson
    \/ ReadContext \/ DefineTerm \/ ContextRead
    \/ ExpandDocument
    \/ VisitItems \/ VisitValue \/ VisitList \/ CloseList \/ VisitProperty \/ VisitNode
    \/ StartQuads \/ WriteList \/ WriteValue \/ AllWritten
    \/ Ended

Spec == Init /\ [][Next]_vars

---------------------------------------------------------------------------
(* What the conversion promises, against the meaning of the document       *)
(* (LinkedData).                                                           *)

L == INSTANCE LinkedData

ContextsIn == IF Has(source, "@context") THEN ContextsOf(Get(source, "@context")) ELSE <<>>
AllQuads == UNION {ToSet(quads[g]) : g \in DOMAIN quads}
ContextParsed == phase = "context" /\ contexts = <<>>

\* create_term_def: whatever the order in which the terms of a context are
\* defined, and however one definition makes the code define others first,
\* every term stands for the name the context gives it, with its type and
\* direction.
TermsAsSaid ==
    ContextParsed =>
        LET cs == L!InForce(ContextsIn)
        IN  /\ DOMAIN ctx.defs = L!AllTerms(cs)
            /\ \A t \in DOMAIN ctx.defs :
                  ctx.defs[t] = [id |-> L!TermMeans(cs, t), type |-> L!TypeOf(cs, t),
                                 reverse |-> L!IsReverse(cs, t)]

\* A context is rejected if and only if something is wrong with it, circles
\* among its definitions included: never because of the order its terms are
\* defined in, and no wrong one gets through.  (A circle that goes through the
\* whole name of a term is noticed only where no vocabulary makes a name of it,
\* so MCConversion has it without a vocabulary only.)
WrongRejected ==
    /\ ctx.error # "" => L!WrongContext(ContextsIn)
    /\ ContextParsed => ~L!WrongContext(ContextsIn)

\* Expanding what is expanded changes nothing: no term is left in it, and
\* nothing that expansion would drop.
RECURSIVE Mentions(_, _)
Mentions(v, k) ==
    CASE v.is = "map" -> Has(v, k) \/ \E x \in Range(v.at) : Mentions(x, k)
      [] v.is = "list" -> \E x \in ToSet(v.items) : Mentions(x, k)
      [] OTHER -> FALSE
ExpandedOnce ==
    phase = "quads" /\ todo = <<>> /\ ~Mentions(expanded, "@reverse") =>
        Expand(NewContext, None, expanded) = expanded

\* The quads are those the document says, but for the names of blank nodes and
\* the cells of lists.
OfLists(q) == q.pred \in {Rdf("first"), Rdf("rest")} \/ q.object = Iri(Rdf("nil"))
QuadsAsSaid ==
    phase = "done" =>
        L!Isomorphic({q \in AllQuads : ~OfLists(q)}, L!QuadsSaid(source))

=============================================================================
