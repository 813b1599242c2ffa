------------------------------ MODULE Natural3 ------------------------------
(***************************************************************************)
(* Loading Notation3 (class N3, load_n3_cmd in marpa_tau.cpp): what the    *)
(* parser's facts say of a file is walked statement by statement, and      *)
(* becomes quads and lists.  A statement may hold graphs of statements,    *)
(* which are walked where they stand, with the destination of the moment.  *)
(* Two files give the rules and the query, or one file does, with `fin'    *)
(* between them.                                                           *)
(*                                                                         *)
(* A file is the sequence of its statements, each the record of what q()   *)
(* asks for; a name is the sequence of its parts.  In the grammar          *)
(* (data/n3-grammar.nq) a document and a graph are lists of statements,    *)
(* and a declaration of a prefix is one of them: so the branch that keeps  *)
(* a prefix is never taken, and every name stays as it is written.         *)
(***************************************************************************)
EXTENDS Integers, Sequences, SequencesExt, FiniteSets, FiniteSetsExt, Functions, TLC

CONSTANTS
    Jobs,      \* the files given to the command
    Unparsed   \* a file that cannot be opened, or has no tree in the grammar

VARIABLES
    files,    \* the files
    file,     \* which of them is read; after the last one, the end
    at,       \* the next statement of it, 0 before it is parsed
    n3,       \* the readers
    status    \* "loading", "threw", or "aborted" by a failed assertion

vars == <<files, file, at, n3, status>>

With(f, k, v) == k :> v @@ f
Nothing == [k \in {} |-> <<>>]

Iri(name) == [kind |-> "iri", name |-> name]
Bnode(name) == [kind |-> "bnode", name |-> name]
Literal(name, type) == [kind |-> "literal", name |-> name, type |-> type]

Default == <<"@default">>
Fin == <<"fin">>
Rdf == <<"rdf:", "type">>
SameAs == <<"owl:", "sameAs">>
Implies == <<"log:", "implies">>

Dataset == [first |-> Nothing, second |-> Nothing]

\* The object N3; bnodes and listids are static counters, of gen_bnode_id and
\* of listid; value is what the last function returned; stuck is set where an
\* assertion fails, and nothing of the reader is of interest from then on.
NewReader(single, bnodes, listids) ==
    [kb |-> Dataset, query |-> Dataset, dest |-> "kb", single |-> single, stuck |-> FALSE,
     bnodes |-> bnodes, listids |-> listids, value |-> Iri(<<>>)]

Returns(r, value) == [r EXCEPT !.value = value]

\* No prefix is ever known: a qualified name is a name like another.
AddSymbol(r, name) == Returns(r, Iri(name))

AddListHere(r, values) ==
    LET id == <<"_:list", r.listids>>
    IN  [r EXCEPT ![r.dest].second = With(@, id, values), !.listids = @ + 1,
                  !.value = Bnode(id)]

AddQuad(r, s, p, o, graph) ==
    LET first == r[r.dest].first
        quads == IF graph \in DOMAIN first THEN first[graph] ELSE <<>>
    IN  [r EXCEPT ![r.dest].first =
            With(first, graph, Append(quads, [subj |-> s, pred |-> p, object |-> o,
                                              graph |-> graph]))]

RECURSIVE AddPathitem(_, _), AddStatement(_, _, _)

\* The values of the items, one after the other, in `values'.
AddItems(r, items) ==
    FoldLeft(LAMBDA acc, item :
                CHOOSE next \in {[r |-> q, values |-> Append(acc.values, q.value)] :
                                    q \in {AddPathitem(acc.r, item)}} : TRUE,
             [r |-> r, values |-> <<>>], items)
AddPathlist(read) == AddListHere(read.r, read.values)

AddFormula(r, statements) ==
    Returns(FoldLeft(LAMBDA q, st : AddStatement(q, st, <<"_:b", r.bnodes>>),
                     [r EXCEPT !.bnodes = @ + 1], statements),
            Bnode(<<"_:b", r.bnodes>>))

\* assert(false): no question has an answer for a property list in brackets,
\* nor for an empty graph, whose content is null.
AddPathitem(r, item) ==
    CASE item.is \in {"explicituri", "qname"} -> AddSymbol(r, item.name)
      [] item.is = "quickvariable" -> Returns(r, Iri(item.name))
      [] item.is \in {"literal", "numericliteral", "boolean"} ->
            Returns(r, Literal(item.name, item.is))
      [] item.is = "formulacontent" /\ item.statements # <<>> -> AddFormula(r, item.statements)
      [] item.is = "pathlist" -> AddPathlist(AddItems(r, item.items))
      [] OTHER -> [r EXCEPT !.stuck = TRUE]

\* What a verb without an expression says.
Verb(sign) ==
    CASE sign = "@a" -> Rdf [] sign = "=" -> SameAs [] sign \in {"=>", "<="} -> Implies
Backwards(prop) == prop.sign \in {"@is", "<="}

AddQuads(read, subject, predicate, back, graph) ==
    FoldLeft(LAMBDA r, o :
                IF back THEN AddQuad(r, o, predicate, subject, graph)
                ELSE AddQuad(r, subject, predicate, o, graph),
             read.r, read.values)

\* A verb and its objects: all the objects are read, then the quads are made.
AddObjects(r, subject, prop, graph) ==
    AddQuads(AddItems(r, prop.objects), subject, r.value, Backwards(prop), graph)
AddProperty(r, subject, prop, graph) ==
    AddObjects(IF prop.sign \in {"", "@has", "@is"} THEN AddPathitem(r, prop.expression)
               ELSE Returns(r, Iri(Verb(prop.sign))),
               subject, prop, graph)

AddProperties(r, subject, props, graph) ==
    IF props # <<>>
    THEN FoldLeft(LAMBDA q, prop : AddProperty(q, subject, prop, graph), r, props)
    ELSE IF r.single /\ subject.name = Fin /\ graph = Default
         THEN [r EXCEPT !.single = FALSE, !.dest = "query"]
    ELSE r
AddSimpleStatement(r, props, graph) == AddProperties(r, r.value, props, graph)

\* A declaration is a parse of a statement, and no simple one.
AddStatement(r, st, graph) ==
    IF st.is = "declaration" THEN r
    ELSE AddSimpleStatement(AddPathitem(r, st.subject), st.propertylist, graph)

---------------------------------------------------------------------------

Init ==
    /\ files \in Jobs
    /\ file = 1
    /\ at = 0
    /\ n3 = <<>>
    /\ status = "loading"

WrongUsage ==
    /\ status = "loading"
    /\ Len(files) \notin {1, 2}
    /\ status' = "threw"
    /\ UNCHANGED <<files, file, at, n3>>

\* Altered AnotherReader: the counters begin again.
AnotherReaderAnew(readers, single) == Append(readers, NewReader(single, 0, 0))

\* Every file has a reader of its own.
AnotherReader(readers, single) ==
    Append(readers, IF readers = <<>> THEN NewReader(single, 0, 0)
                    ELSE NewReader(single, Last(readers).bnodes, Last(readers).listids))

\* parse: the query load_n3 asks of the grammar's prover finds the tree, or
\* nothing; the tree of an empty file is null, which is nothing too.
ParseFile ==
    /\ status = "loading"
    /\ Len(files) \in {1, 2}
    /\ file <= Len(files)
    /\ at = 0
    /\ IF files[file] \in {Unparsed, <<>>}
       THEN status' = "threw" /\ UNCHANGED <<at, n3>>
       ELSE /\ at' = 1
            /\ n3' = AnotherReader(n3, Len(files) = 1)
            /\ UNCHANGED status
    /\ UNCHANGED <<files, file>>

ReadStatement ==
    /\ status = "loading"
    /\ file <= Len(files)
    /\ at > 0
    /\ at <= Len(files[file])
    /\ n3' = [n3 EXCEPT ![file] = AddStatement(@, files[file][at], Default)]
    /\ at' = at + 1
    /\ status' = IF n3'[file].stuck THEN "aborted" ELSE status
    /\ UNCHANGED <<files, file>>

FileRead ==
    /\ status = "loading"
    /\ file <= Len(files)
    /\ at > 0
    /\ at > Len(files[file])
    /\ file' = file + 1
    /\ at' = 0
    /\ UNCHANGED <<files, n3, status>>

Loaded == status = "loading" /\ Len(files) \in {1, 2} /\ file > Len(files)

Ended ==
    /\ Loaded \/ status \in {"threw", "aborted"}
    /\ UNCHANGED vars

Next == WrongUsage \/ ParseFile \/ ReadStatement \/ FileRead \/ Ended

Spec == Init /\ [][Next]_vars

---------------------------------------------------------------------------
(* What the prover is given: *kb.dest and *query.dest of two files, or     *)
(* input.kb and input.query of one.                                        *)

Rules == n3[1].kb
Query == IF Len(files) = 1 THEN n3[1].query ELSE n3[2].kb
=============================================================================
