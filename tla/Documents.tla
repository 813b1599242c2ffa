------------------------------ MODULE Documents ------------------------------
(***************************************************************************)
(* What the documents the program reads say, apart from how it reads them: *)
(* the structure of a document, the text it is written as, and the quads,  *)
(* lists and rules it stands for.  Graphs and lists carry the numbers they *)
(* have in the order of the text.                                          *)
(***************************************************************************)
EXTENDS Sequences, SequencesExt, FiniteSets

CONSTANTS PrefixOf, Expand(_, _), CurlyId(_), ListId(_, _)

Name(n) == [is |-> "name", name |-> n]
List(n, items) == [is |-> "list", number |-> n, items |-> items]
Graph(n, statements) == [is |-> "graph", number |-> n, statements |-> statements]

\* subject, pairs of a predicate and its objects, the graph's name or "".
Statement(s, preds, label) == [subj |-> s, preds |-> preds, label |-> label]
Triple(s, p, o) == Statement(s, <<<<p, <<o>>>>>>, "")

\* namespaces: a document declares its prefixes before its statements.
Document(namespaces, statements) ==
    [namespaces |-> namespaces, statements |-> statements]

---------------------------------------------------------------------------
(* The text.                                                               *)

RECURSIVE ItemText(_), StatementText(_)

ItemText(i) ==
    CASE i.is = "name" -> <<i.name>>
      [] i.is = "list" ->
            <<"(">> \o FlattenSeq([k \in DOMAIN i.items |-> ItemText(i.items[k])]) \o <<")">>
      [] i.is = "graph" ->
            <<"{">> \o FlattenSeq([k \in DOMAIN i.statements |->
                                    StatementText(i.statements[k])]) \o <<"}">>

Joined(seqs, separator) ==
    FlattenSeq([k \in DOMAIN seqs |-> IF k = 1 THEN seqs[k] ELSE <<separator>> \o seqs[k]])

StatementText(st) ==
    ItemText(st.subj)
    \o Joined([k \in DOMAIN st.preds |->
                <<st.preds[k][1]>>
                \o Joined([j \in DOMAIN st.preds[k][2] |-> ItemText(st.preds[k][2][j])], ",")],
              ";")
    \o (IF st.label = "" THEN <<>> ELSE <<st.label>>) \o <<".">>

Text(doc) ==
    FlattenSeq(SetToSeq({<<"@prefix", p, doc.namespaces[p], ".">> : p \in DOMAIN doc.namespaces}))
    \o FlattenSeq([k \in DOMAIN doc.statements |-> StatementText(doc.statements[k])])

---------------------------------------------------------------------------
(* The quads, without the cells of lists.                                  *)

Full(ns, n) ==
    IF n \in DOMAIN PrefixOf /\ PrefixOf[n] \in DOMAIN ns
    THEN Expand(ns[PrefixOf[n]], n) ELSE n

IdOf(ns, i) ==
    CASE i.is = "name" -> Full(ns, i.name)
      [] i.is = "list" -> IF i.items = <<>> THEN "rdf:nil" ELSE ListId(i.number, 0)
      [] i.is = "graph" -> CurlyId(i.number)

ObjectsOf(st) == UNION {ToSet(st.preds[k][2]) : k \in DOMAIN st.preds}

RECURSIVE PartsOf(_), WithinStatements(_)
\* The item, and the items inside it.
PartsOf(i) ==
    {i} \cup CASE i.is = "name" -> {}
               [] i.is = "list" -> UNION {PartsOf(x) : x \in ToSet(i.items)}
               [] i.is = "graph" -> WithinStatements(i.statements)
WithinStatements(sts) ==
    UNION {UNION {PartsOf(i) : i \in {st.subj} \cup ObjectsOf(st)} : st \in ToSet(sts)}

Parts(doc) == WithinStatements(doc.statements)

SaidIn(ns, sts, g) ==
    {[subj |-> IdOf(ns, st.subj), pred |-> Full(ns, pred[1]), object |-> IdOf(ns, o),
      graph |-> IF st.label = "" THEN g ELSE Full(ns, st.label)] :
        <<st, pred, o>> \in
            UNION {UNION {{<<st, pred, o>> : o \in ToSet(pred[2])} : pred \in ToSet(st.preds)}
                    : st \in ToSet(sts)}}

QuadsSaid(doc) ==
    SaidIn(doc.namespaces, doc.statements, "@default")
    \cup UNION {SaidIn(doc.namespaces, i.statements, CurlyId(i.number)) :
                    i \in {x \in Parts(doc) : x.is = "graph"}}

ListsSaid(doc) == {i \in Parts(doc) : i.is = "list" /\ i.items # <<>>}
ItemIds(doc, list) == [k \in DOMAIN list.items |-> IdOf(doc.namespaces, list.items[k])]

---------------------------------------------------------------------------
(* The rules: an item is a term, a list a chain of "." terms.              *)

RECURSIVE TermOf(_, _), ListTerm(_, _)
TermOf(ns, i) ==
    IF i.is = "list" /\ i.items # <<>> THEN ListTerm(ns, i.items) ELSE <<IdOf(ns, i)>>
ListTerm(ns, items) ==
    IF items = <<>> THEN <<".">>
    ELSE <<".", TermOf(ns, Head(items)), ListTerm(ns, Tail(items))>>

\* The terms of the statements with a label, in order.
TermsSaid(ns, sts, label) ==
    LET own == SelectSeq(sts, LAMBDA st : st.label = label)
    IN  FlattenSeq([k \in DOMAIN own |->
            FlattenSeq([j \in DOMAIN own[k].preds |->
                [m \in DOMAIN own[k].preds[j][2] |->
                    <<Full(ns, own[k].preds[j][1]), TermOf(ns, own[k].subj),
                      TermOf(ns, own[k].preds[j][2][m])>>]])])

\* A graph is what stands in braces, or the statements labelled with a name.
TermsIn(doc, i) ==
    CASE i.is = "graph" -> TermsSaid(doc.namespaces, i.statements, "")
      [] i.is = "name" -> TermsSaid(doc.namespaces, doc.statements, i.name)
      [] i.is = "list" -> <<>>

Facts(doc) == ToSet(TermsSaid(doc.namespaces, doc.statements, ""))

Implications(doc) ==
    UNION {{<<st.subj, o>> : o \in UNION {ToSet(p[2]) : p \in {q \in ToSet(st.preds) : q[1] = "=>"}}}
            : st \in {x \in ToSet(doc.statements) : x.label = ""}}

\* Every statement without a label is a fact.  A statement that one graph
\* implies another also gives a rule for each term of the other; what is not
\* stated anywhere implies nothing.
RulesSaid(doc) ==
    {[head |-> t, body |-> <<>>] : t \in Facts(doc)}
    \cup UNION {{[head |-> h, body |-> TermsIn(doc, i[1])] : h \in ToSet(TermsIn(doc, i[2]))} :
                i \in {x \in Implications(doc) : TermsIn(doc, x[1]) # <<>>}}
=============================================================================
