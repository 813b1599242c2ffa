---------------------------- MODULE LoadingProps ----------------------------
(***************************************************************************)
(* What the prove command should make of its texts: of a job whose texts   *)
(* are those of two documents (said.kb, said.query) it reads what the      *)
(* documents say, builds the rules they mean, and answers by them.         *)
(***************************************************************************)
EXTENDS Tau

D == INSTANCE Documents
E == INSTANCE Entailment

Whole == job.said.kb.statements # <<>>

---------------------------------------------------------------------------
(* Reading.                                                                *)

QuadsRead == SelectSeq(r, LAMBDA q : ~IsCell(q))
KbRead == phase = "kb" /\ status = "read" /\ Whole

\* The quads read are those the document says, each once and in its graph,
\* however its graphs and lists are nested and its statements are abbreviated:
\* the recursive calls of operator() share one vector of quads.
QuadsAsSaid ==
    KbRead => /\ ToSet(QuadsRead) = D!QuadsSaid(job.said.kb)
              /\ IsInjective(QuadsRead)

Cells(s, p) == {i \in DOMAIN r : r[i].subj = s /\ r[i].pred = p}

\* Cell k of list n is one quad for the item and one for the next cell.
CellWhole(n, k, item, last) ==
    /\ \A i \in Cells(ListId(n, k), First) : r[i].object = item
    /\ \A i \in Cells(ListId(n, k), Rest) :
            r[i].object = IF last THEN Nil ELSE ListId(n, k + 1)
    /\ Cardinality(Cells(ListId(n, k), First)) = 1
    /\ Cardinality(Cells(ListId(n, k), Rest)) = 1

\* A list read is whole, as items and as a chain of cells, also when a graph
\* among its items ended statements before the list was read to its end, which
\* moves the cells that wait (nquads.cpp 200-205) into that graph.
ListsWhole ==
    KbRead =>
        /\ \A l \in D!ListsSaid(job.said.kb) :
              LET ids == D!ItemIds(job.said.kb, l)
              IN  /\ ListId(l.number, 0) \in DOMAIN qlists
                  /\ qlists[ListId(l.number, 0)] = ids
                  /\ \A k \in DOMAIN ids :
                        CellWhole(l.number, k - 1, ids[k], k = Len(ids))
        /\ Cardinality(DOMAIN qlists) = Cardinality(D!ListsSaid(job.said.kb))

---------------------------------------------------------------------------
(* The rules and the verdict.                                              *)

RulesReady == phase \in {"built", "consistency"} /\ ~Asked /\ Whole

\* The rules are those the document means, whatever the order in which its
\* statements make graphs and use them, and with lists for their cells.
RulesAsSaid == RulesReady => ToSet(base) = D!RulesSaid(job.said.kb)

FlatRules == {[head |-> Flat(x.head), body |-> FlatBody(x.body)] : x \in D!RulesSaid(job.said.kb)}

ContextOf(s) ==
    LET graph == {i \in D!Parts(job.said.kb) : i.is = "graph" /\ CurlyId(i.number) = s}
    IN  FlatBody(D!TermsIn(job.said.kb, IF graph = {} THEN D!Name(s) ELSE CHOOSE i \in graph : TRUE))

\* What names a graph: a label, braces, what the document implies anything to
\* be, and false.
NamesGraph(s) ==
    \/ s = False
    \/ \E q \in D!QuadsSaid(job.said.kb) :
            q.graph = s \/ (q.graph = Default /\ q.pred = Implies /\ q.object = s)

\* What implies false by the rules and is wrong: a context that follows, or
\* something that names no context.
Faults(rules) ==
    {s \in Names \ {Gnd} :
        /\ <<Implies, s, False>> \in E!LeastModel(rules)
        /\ ~NamesGraph(s) \/ (ContextOf(s) # <<>> /\ E!AnswersTo(rules, ContextOf(s)) # {})}

\* A query is put just to the rule bases without such a fault, in whatever
\* order the check goes through what implies false, also when unification has
\* found it (prover.cpp 607): no copy of the prover the check makes brings in
\* answers of an earlier one, none forgets rules, and what names no graph is
\* not passed over.
VerdictRight ==
    job.check /\ Whole =>
        /\ phase = "answering" /\ ~Asked => Faults(FlatRules) = {}
        /\ phase = "refused" /\ pstatus # "threw" => Faults(FlatRules) # {}

Said(body) == FlatBody(D!TermsSaid(job.said.query.namespaces, body, ""))

\* What is answered follows from the document, all answers to the query are
\* found, and nothing the check proved on the way is among them.
AnswersAsSaid ==
    phase = "answered" =>
        {[k \in DOMAIN P!BodyOf(i) |-> P!Evaluate(P!BodyOf(i)[k], subst[i])] : i \in gnd}
            = E!AnswersTo(FlatRules, Said(job.said.query.statements))

\* The program ends, or the conversion begins.
JobEnds == <>(at \in {"exited", "convert"})
=============================================================================
