------------------------------- MODULE Parsing -------------------------------
(***************************************************************************)
(* The parser of marpa_tau.cpp: the symbols and rules for a grammar given  *)
(* in RDF, the text taken apart into tokens, each the longest that may     *)
(* come next, and the tree of the tokens written down as facts, a step of  *)
(* Marpa's valuator at a time.                                             *)
(*                                                                         *)
(* Which of several symbols of a longest token is first, and the numbers   *)
(* of symbols, are Marpa's: any choice is made here.  A parser is used for *)
(* one text: a second precomputation of the grammar is refused.            *)
(***************************************************************************)
EXTENDS Grammars

CONSTANT Jobs   \* a grammar, its root, its comments, and a text to parse

White == " "

VARIABLES
    job,      \* what is parsed
    phase,    \* what is done
    g,        \* the grammar given to Marpa
    pos,      \* the position in the text
    toks,     \* the tokens so far
    steps,    \* the valuator's steps to come
    stack,    \* the terms of results, by Marpa's number; None for nothing
    facts,    \* what was added to kb, a sequence of predicate, subject, object
    bnodes    \* how many blank nodes there are

vars == <<job, phase, g, pos, toks, steps, stack, facts, bnodes>>

None == [is |-> "none"]

Init ==
    /\ job \in Jobs
    /\ phase = "grammar"
    /\ g = NewGrammar
    /\ pos = 1
    /\ toks = <<>>
    /\ steps = <<>>
    /\ stack = Nothing
    /\ facts = <<>>
    /\ bnodes = 0

BuildGrammar ==
    /\ phase = "grammar"
    /\ g' = Add(job.grammar, NewGrammar, job.root)
    /\ phase' = IF g'.error # "" THEN "threw" ELSE "tokens"
    /\ UNCHANGED <<job, pos, toks, steps, stack, facts, bnodes>>

---------------------------------------------------------------------------
(* Tokens.                                                                 *)

Rest == SubSeq(job.text, pos, Len(job.text))
Longest(words) == CHOOSE w \in words : \A x \in words : Len(x) <= Len(w)
\* What the text at hand begins with, of a set of words.
Begins(words) == {w \in words : w # <<>> /\ IsPrefix(w, Rest)}

SkipSpace ==
    /\ phase = "tokens"
    /\ Rest # <<>>
    /\ Head(Rest) = White
    /\ pos' = pos + 1
    /\ UNCHANGED <<job, phase, g, toks, steps, stack, facts, bnodes>>

SkipComment ==
    /\ phase = "tokens"
    /\ Rest # <<>>
    /\ Head(Rest) # White
    /\ Begins(job.comments) # {}
    /\ pos' = pos + Len(Longest(Begins(job.comments)))
    /\ UNCHANGED <<job, phase, g, toks, steps, stack, facts, bnodes>>

AtToken == Rest # <<>> /\ Head(Rest) # White /\ Begins(job.comments) = {}

\* The symbols that may come next, each with its longest word here.
Expected == MayFollow(g, SymbolOf(job.grammar, g, job.root), toks, {})
Words(s) ==
    IF s \in DOMAIN g.literals THEN {g.literals[s]}
    ELSE IF s \in DOMAIN g.terminals THEN job.grammar[g.terminals[s]].words ELSE {}
Found(symbols) ==
    {[sym |-> s, text |-> Longest(Begins(Words(s)))] :
        s \in {x \in symbols : Begins(Words(x)) # {}}}
Best(found) == {t \in found : \A u \in found : Len(u.text) <= Len(t.text)}

TakeToken ==
    /\ phase = "tokens"
    /\ AtToken
    /\ \E token \in Best(Found(Expected)) :
          /\ toks' = Append(toks, token)
          /\ pos' = pos + Len(token.text)
    /\ UNCHANGED <<job, phase, g, steps, stack, facts, bnodes>>

NoParse ==
    /\ phase = "tokens"
    /\ AtToken
    /\ Found(Expected) = {}
    /\ phase' = "threw"
    /\ UNCHANGED <<job, g, pos, toks, steps, stack, facts, bnodes>>

---------------------------------------------------------------------------
(* The valuator: a step for each token, rule and nothing of the tree, the  *)
(* parts of a rule before it, its first part at the place of its result.   *)

Parses == Trees(g, SymbolOf(job.grammar, g, job.root), toks)

RECURSIVE StepsOf(_, _)
StepsOf(tree, place) ==
    (IF tree.is = "rule"
     THEN FlattenSeq([i \in DOMAIN tree.args |-> StepsOf(tree.args[i], place + i - 1)])
     ELSE <<>>)
    \o <<[tree |-> tree, place |-> place]>>

StartValue ==
    /\ phase = "tokens"
    /\ Rest = <<>>
    /\ \E trees \in {Parses} :
          IF trees = {}
          THEN /\ phase' = "threw"
               /\ UNCHANGED steps
          ELSE /\ phase' = IF Cardinality(trees) = 1 THEN "value" ELSE "ambiguous"
               /\ \E tree \in trees : steps' = StepsOf(tree, 0)
    /\ UNCHANGED <<job, g, pos, toks, stack, facts, bnodes>>

Valuing == phase \in {"value", "ambiguous"}

Thing(t) == [is |-> "thing", thing |-> t]
Literal(text) == [is |-> "literal", text |-> text]
Bnode == [is |-> "node", number |-> bnodes]
ThingOf(s) == CHOOSE t \in DOMAIN g.done : g.done[t] = s
Fact(pred, subj, obj) == <<pred, subj, obj>>
Arg(i) == "arg" \o ToString(i)

ValueToken ==
    /\ Valuing
    /\ steps # <<>>
    /\ Head(steps).tree.is = "token"
    /\ LET t == Head(steps).tree
           terminal == t.sym \in DOMAIN g.terminals
       IN  /\ stack' = With(stack, Head(steps).place, IF terminal THEN Bnode ELSE Literal(t.text))
           /\ bnodes' = IF terminal THEN bnodes + 1 ELSE bnodes
           /\ facts' = IF terminal
                       THEN facts \o <<Fact("matches", Bnode, Thing(g.terminals[t.sym])),
                                       Fact("has_value", Bnode, Literal(t.text))>>
                       ELSE facts
    /\ steps' = Tail(steps)
    /\ UNCHANGED <<job, phase, g, pos, toks>>

\* The facts about the part i of a node.
PartFacts(rule, args, i) ==
    IF args[i] = None THEN <<>>
    ELSE (IF rule.rhs[i] \in DOMAIN g.literals THEN <<>>
          ELSE <<Fact(ThingOf(rule.rhs[i]), Bnode, args[i])>>)
         \o <<Fact(Arg(i - 1), Bnode, args[i])>>
NotNone(args) == SelectSeq(args, LAMBDA x : x # None)

ArgsHere(place, n) == [i \in 1..n |-> stack[place + i - 1]]
ArgsNotNone(place, n) == NotNone(ArgsHere(place, n))   \* Altered: nothing leaves no gap
ArgsAt(place, n) == ArgsHere(place, n)

ValueRule ==
    /\ Valuing
    /\ steps # <<>>
    /\ Head(steps).tree.is = "rule"
    /\ LET r == Head(steps).tree.rule
           args == ArgsAt(Head(steps).place, Len(Head(steps).tree.args))
           result == IF r.sequence THEN [is |-> "list", items |-> NotNone(args)] ELSE Bnode
       IN  /\ stack' = With(stack, Head(steps).place, result)
           /\ bnodes' = IF r.sequence THEN bnodes ELSE bnodes + 1
           /\ facts' = facts
                       \o (IF r.sequence THEN <<>>
                           ELSE FlattenSeq([i \in DOMAIN args |-> PartFacts(r, args, i)]))
                       \o <<Fact("is_parse_of", result, Thing(ThingOf(r.lhs)))>>
    /\ steps' = Tail(steps)
    /\ UNCHANGED <<job, phase, g, pos, toks>>

ValueNull ==
    /\ Valuing
    /\ steps # <<>>
    /\ Head(steps).tree = Null
    /\ stack' = With(stack, Head(steps).place, None)
    /\ steps' = Tail(steps)
    /\ UNCHANGED <<job, phase, g, pos, toks, facts, bnodes>>

\* Only now is a second tree noticed.
ValueDone ==
    /\ Valuing
    /\ steps = <<>>
    /\ phase' = IF phase = "ambiguous" THEN "threw" ELSE "done"
    /\ UNCHANGED <<job, g, pos, toks, steps, stack, facts, bnodes>>

Ended ==
    /\ phase \in {"done", "threw"}
    /\ UNCHANGED vars

Next ==
    \/ BuildGrammar \/ SkipSpace \/ SkipComment \/ TakeToken \/ NoParse
    \/ StartValue \/ ValueToken \/ ValueRule \/ ValueNull \/ ValueDone \/ Ended

Spec == Init /\ [][Next]_vars
=============================================================================
