------------------------------- MODULE NQuads -------------------------------
(***************************************************************************)
(* The reader of documents (nquads.cpp, readqdb in rdf.cpp): a recursive   *)
(* descent over the text that turns statements into quads.  A graph in     *)
(* braces is read by a recursive call of operator() on the same object, so *)
(* the calls share the position in the text, the quads read so far and the *)
(* cells of lists not yet in a quad.                                       *)
(*                                                                         *)
(* The text is a sequence of tokens: punctuation and names.  A name is     *)
(* what node::tostring() makes of it, the key by which the program         *)
(* compares nodes.  Where the code needs a token and the text has ended it *)
(* reads on behind the text: status "overrun".  The texts have names, not  *)
(* brackets, in the places of predicates.                                  *)
(***************************************************************************)
EXTENDS Integers, Sequences, SequencesExt, FiniteSets

CONSTANTS
    PrefixOf,       \* of a name with a colon: the part that may be a prefix
    Expand(_, _),   \* the text of a namespace and the rest of a name
    CurlyId(_),     \* gen_bnode_id: the name of the n-th graph in braces
    ListId(_, _)    \* the name of a cell: number of the list, position

Punctuation == {".", ";", ",", "{", "}", "(", ")"}
First == "rdf:first"
Rest == "rdf:rest"
Nil == "rdf:nil"
Default == "@default"

VARIABLES
    input,    \* s: the text not yet read
    stack,    \* the calls of operator() and readlist, the innermost last
    r,        \* the quads read, of all graphs
    lists,    \* cells waiting for the end of a statement
    qlists,   \* the items of every list, by the name of its first cell
    prefixes, \* the namespaces of the prefixes declared
    lastid,   \* readlist's static counter
    curlies,  \* gen_bnode_id's static counter
    status    \* "reading", or how the reading ended

readerVars == <<input, stack, r, lists, qlists, prefixes, lastid, curlies, status>>

Quad(s, p, o, g) == [subj |-> s, pred |-> p, object |-> o, graph |-> g]
IsCell(q) == q.pred \in {First, Rest}

\* A call of operator() reads the graph ctx, a call of readlist a list; `at`
\* is what the call reads next.
InGraph(ctx) == [at |-> "subject", ctx |-> ctx, prefixed |-> FALSE,
                 subj |-> Nil, preds |-> <<>>]
InList(n) == [at |-> "item", ctx |-> n, prefixed |-> FALSE, items |-> <<>>]

Top == Last(stack)
InTop(frame) == [stack EXCEPT ![Len(stack)] = frame]
Is(tokens) == input # <<>> /\ Head(input) \in tokens
Next1Is(token) == Len(input) > 1 /\ input[2] = token

Reading == status = "reading"

\* readany is called: for a subject, an object or an item of a list.
WantsAny == Reading /\ Top.at \in {"subject", "end", "object", "item"}

StartReading(text) ==
    /\ input' = text
    /\ stack' = <<InGraph(Default)>>
    /\ r' = <<>>
    /\ lists' = <<>>
    /\ qlists' = [n \in {} |-> <<>>]
    /\ prefixes' = [p \in {} |-> Nil]
    /\ status' = "reading"

---------------------------------------------------------------------------
(* A value returns to the call that asked for it.                          *)

\* readlist: the cell of the item, and the link to the next cell or to nil.
\* The item joins qlists at once, its cell waits for the end of a statement.
GiveItem(v, calls, left) ==
    LET f == Last(calls)
        head == ListId(f.ctx, 0)
        cons == ListId(f.ctx, Len(f.items))
        next == IF left # <<>> /\ Head(left) = ")"
                THEN Nil ELSE ListId(f.ctx, Len(f.items) + 1)
        items == Append(f.items, v)
    IN  /\ stack' = [calls EXCEPT ![Len(calls)] =
                        [f EXCEPT !.items = items, !.prefixed = FALSE]]
        /\ lists' = lists \o <<<<cons, First, v>>, <<cons, Rest, next>>>>
        /\ qlists' = [h \in DOMAIN qlists \cup {head} |->
                        IF h = head THEN items ELSE qlists[h]]
        /\ status' = IF left # <<>> /\ Head(left) = "}" THEN "threw" ELSE "reading"

GiveSubject(v, calls) ==
    /\ stack' = [calls EXCEPT ![Len(calls)] =
                    [Last(calls) EXCEPT !.subj = v, !.at = "predicate", !.prefixed = FALSE]]
    /\ UNCHANGED <<lists, qlists, status>>

GiveObject(v, calls) ==
    LET f == Last(calls)
        k == Len(f.preds)
    IN  /\ stack' = [calls EXCEPT ![Len(calls)] =
                        [f EXCEPT !.preds[k].objects = Append(@, v),
                                  !.at = "objects", !.prefixed = FALSE]]
        /\ UNCHANGED <<lists, qlists, status>>

Give(v, calls, left) ==
    /\ input' = left
    /\ \/ Last(calls).at = "item" /\ GiveItem(v, calls, left)
       \/ Last(calls).at \in {"subject", "end"} /\ GiveSubject(v, calls)
       \/ Last(calls).at = "object" /\ GiveObject(v, calls)

---------------------------------------------------------------------------
(* Names.                                                                  *)

\* readiri: a prefix is replaced if it has been declared by now.
Node(token) ==
    IF token \in DOMAIN PrefixOf /\ PrefixOf[token] \in DOMAIN prefixes
    THEN Expand(prefixes[PrefixOf[token]], token) ELSE token

DeclaresPrefix == Is({"@prefix"}) /\ ~Top.prefixed

\* readprefix, at the start of readany, which then goes on to read its value.
ReadPrefix ==
    /\ WantsAny
    /\ DeclaresPrefix
    /\ Len(input) > 3
    /\ prefixes' = [p \in DOMAIN prefixes \cup {input[2]} |->
                        IF p = input[2] THEN Node(input[3]) ELSE prefixes[p]]
    /\ input' = SubSeq(input, 5, Len(input))
    /\ stack' = InTop([Top EXCEPT !.prefixed = TRUE])
    /\ UNCHANGED <<r, lists, qlists, lastid, curlies, status>>

\* A second declaration in a row is not seen by readprefix any more: its
\* tokens are names.
ReadName ==
    /\ WantsAny
    /\ input # <<>>
    /\ Head(input) \notin Punctuation
    /\ Head(input) = "@prefix" => Top.prefixed
    /\ Give(Node(Head(input)), stack, Tail(input))
    /\ UNCHANGED <<r, prefixes, lastid, curlies>>

ReadPredicate ==
    /\ Reading
    /\ Top.at = "predicate"
    /\ input # <<>>
    /\ Head(input) \notin Punctuation
    /\ input' = Tail(input)
    /\ stack' = InTop([Top EXCEPT !.at = "object", !.preds =
                    Append(@, [pred |-> Node(Head(input)), objects |-> <<>>])])
    /\ UNCHANGED <<r, lists, qlists, prefixes, lastid, curlies, status>>

---------------------------------------------------------------------------
(* readcurly and readlist.                                                 *)

\* Altered OpenCurly: the recursive call starts without waiting cells.
OpenCurlyClears ==
    /\ WantsAny
    /\ Is({"{"})
    /\ curlies' = curlies + 1
    /\ IF Next1Is("}")
       THEN Give(CurlyId(curlies), stack, Tail(Tail(input)))
       ELSE /\ input' = Tail(input)
            /\ stack' = Append(stack, InGraph(CurlyId(curlies)))
            /\ lists' = <<>>
            /\ UNCHANGED <<qlists, status>>
    /\ UNCHANGED <<r, prefixes, lastid>>

OpenCurly ==
    /\ WantsAny
    /\ Is({"{"})
    /\ curlies' = curlies + 1
    /\ IF Next1Is("}")
       THEN Give(CurlyId(curlies), stack, Tail(Tail(input)))
       ELSE /\ input' = Tail(input)
            /\ stack' = Append(stack, InGraph(CurlyId(curlies)))
            /\ UNCHANGED <<lists, qlists, status>>
    /\ UNCHANGED <<r, prefixes, lastid>>

OpenList ==
    /\ WantsAny
    /\ Is({"("})
    /\ lastid' = lastid + 1
    /\ IF Next1Is(")")
       THEN Give(Nil, stack, Tail(Tail(input)))
       ELSE /\ input' = Tail(input)
            /\ stack' = Append(stack, InList(lastid))
            /\ UNCHANGED <<lists, qlists, status>>
    /\ UNCHANGED <<r, prefixes, curlies>>

CloseList ==
    /\ Reading
    /\ Top.at = "item" /\ ~Top.prefixed
    /\ Is({")"})
    /\ Give(ListId(Top.ctx, 0), Front(stack), Tail(input))
    /\ UNCHANGED <<r, prefixes, lastid, curlies>>

---------------------------------------------------------------------------
(* operator(): statements.                                                 *)

\* `,` asks for another object, `;` for another predicate.
Continue ==
    /\ Reading
    /\ \/ /\ Top.at \in {"objects", "object"}
          /\ Is({","})
          /\ stack' = InTop([Top EXCEPT !.at = "object"])
       \/ /\ Top.at \in {"objects", "predicate"}
          /\ Is({";"})
          /\ stack' = InTop([Top EXCEPT !.at = "predicate"])
    /\ input' = Tail(input)
    /\ UNCHANGED <<r, lists, qlists, prefixes, lastid, curlies, status>>

AtStatementEnd ==
    \/ Top.at = "objects" /\ ~Is({",", ";"})
    \/ Top.at \in {"predicate", "object"} /\ Is({".", "}"})

\* What follows the dots.
AfterDots(tokens) ==
    SubSeq(tokens, 1 + Cardinality({i \in 1..Len(tokens) :
                            \A j \in 1..i : tokens[j] = "."}), Len(tokens))

Triples(f) == FlattenSeq([i \in DOMAIN f.preds |->
                [j \in DOMAIN f.preds[i].objects |->
                    <<f.subj, f.preds[i].pred, f.preds[i].objects[j]>>]])
InGraphOf(triples, g) ==
    [i \in DOMAIN triples |-> Quad(triples[i][1], triples[i][2], triples[i][3], g)]

\* Altered EndStatement: an unlabelled statement goes to the default graph.
EndStatementDefault ==
    /\ Reading
    /\ AtStatementEnd
    /\ LET labelled == input # <<>> /\ ~Is({".", "}"})
           graph == IF labelled THEN Node(Head(input)) ELSE Default
       IN  /\ r' = r \o InGraphOf(lists, graph) \o InGraphOf(Triples(Top), graph)
           /\ input' = AfterDots(IF labelled THEN Tail(input) ELSE input)
    /\ lists' = <<>>
    /\ stack' = InTop([Top EXCEPT !.at = "end", !.preds = <<>>])
    /\ UNCHANGED <<qlists, prefixes, lastid, curlies, status>>

\* The quads of the statement go to the graph named at its end, or to the
\* call's; with them, all the cells that wait.
EndStatement ==
    /\ Reading
    /\ AtStatementEnd
    /\ LET labelled == input # <<>> /\ ~Is({".", "}"})
           graph == IF labelled THEN Node(Head(input)) ELSE Top.ctx
       IN  /\ r' = r \o InGraphOf(lists, graph) \o InGraphOf(Triples(Top), graph)
           /\ input' = AfterDots(IF labelled THEN Tail(input) ELSE input)
    /\ lists' = <<>>
    /\ stack' = InTop([Top EXCEPT !.at = "end", !.preds = <<>>])
    /\ UNCHANGED <<qlists, prefixes, lastid, curlies, status>>

\* A closing brace ends the call, and so does the end of the text.
ReturnFromGraph ==
    /\ Reading
    /\ \/ Top.at = "end" /\ Is({"}"})
       \/ Top.at \in {"subject", "end"} /\ input = <<>> /\ ~Top.prefixed
    /\ LET left == IF input = <<>> THEN <<>> ELSE Tail(input)
       IN  IF Len(stack) = 1
           THEN /\ status' = "read"
                /\ input' = left
                /\ UNCHANGED <<stack, lists, qlists>>
           ELSE Give(Top.ctx, Front(stack), left)
    /\ UNCHANGED <<r, prefixes, lastid, curlies>>

\* expected ) outside list
Stray ==
    /\ Reading
    /\ Top.at = "end"
    /\ Is({")"})
    /\ status' = "threw"
    /\ UNCHANGED <<input, stack, r, lists, qlists, prefixes, lastid, curlies>>

\* A token is needed and there is none.
Overrun ==
    /\ Reading
    /\ \/ input = <<>> /\ (Top.at \in {"predicate", "object", "item"} \/ Top.prefixed)
       \/ WantsAny /\ DeclaresPrefix /\ Len(input) <= 3
    /\ status' = "overrun"
    /\ UNCHANGED <<input, stack, r, lists, qlists, prefixes, lastid, curlies>>

Read == \/ ReadPrefix \/ ReadName \/ ReadPredicate \/ OpenCurly \/ OpenList
        \/ CloseList \/ Continue \/ EndStatement \/ ReturnFromGraph \/ Stray
        \/ Overrun

---------------------------------------------------------------------------
(* readqdb: the quads by graph, in the order they were read.               *)

GraphsOf(quads) ==
    [g \in {quads[i].graph : i \in DOMAIN quads} |->
        SelectSeq(quads, LAMBDA q : q.graph = g)]
=============================================================================
