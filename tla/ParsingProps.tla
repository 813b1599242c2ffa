---------------------------- MODULE ParsingProps ----------------------------
(***************************************************************************)
(* What the parser promises of its grammar and of the facts it makes.      *)
(***************************************************************************)
EXTENDS Parsing

Grammar == job.grammar
IsLiteral(t) == Grammar[t].is = "literal"

\* The things a definition names, with those of the literals.
NamedBy(t) ==
    CASE Grammar[t].is = "mustBeOneSequence" -> UNION {ToSet(s) : s \in ToSet(Grammar[t].sequences)}
      [] Grammar[t].is = "commaSeparatedListOf" -> {Grammar[t].of, Comma}
      [] Grammar[t].is = "list_of" -> {Grammar[t].of, Grammar[t].separator} \ {""}
      [] Grammar[t].is = "zeroOrMore" -> {Grammar[t].of}
      [] OTHER -> {}
Reached ==
    FoldLeft(LAMBDA S, i : S \cup UNION {NamedBy(t) : t \in S}, {job.root},
             [i \in 1..Cardinality(DOMAIN Grammar) |-> i])

\* A literal is its text, whichever thing it is.
Form(t) == IF IsLiteral(t) THEN Grammar[t].text ELSE <<t>>
FormOf(s) ==
    IF s = NoSymbol THEN <<>>
    ELSE IF s \in DOMAIN g.literals THEN g.literals[s] ELSE <<ThingOf(s)>>
RuleOf(t, things, sequence, separator, proper) ==
    [lhs |-> t, rhs |-> [i \in DOMAIN things |-> Form(things[i])], sequence |-> sequence,
     separator |-> separator, proper |-> proper]
RulesSaid(t) ==
    CASE Grammar[t].is = "mustBeOneSequence" ->
            {RuleOf(t, s, FALSE, <<>>, FALSE) : s \in ToSet(Grammar[t].sequences)}
      [] Grammar[t].is = "commaSeparatedListOf" ->
            {RuleOf(t, <<Grammar[t].of>>, TRUE, <<",">>, TRUE)}
      [] Grammar[t].is = "list_of" ->
            {RuleOf(t, <<Grammar[t].of>>, TRUE,
                    IF Grammar[t].separator = "" THEN <<>> ELSE Form(Grammar[t].separator), FALSE)}
      [] Grammar[t].is = "zeroOrMore" -> {RuleOf(t, <<Grammar[t].of>>, TRUE, <<>>, FALSE)}
      [] OTHER -> {}

\* Marpa::add, which calls itself for what a definition names, ends with a
\* symbol of its own for everything the root leads to, one for a literal
\* however often it is used, and with exactly the rules of the definitions.
GrammarWhole ==
    phase # "grammar" /\ g.error = "" =>
        LET literals == {t \in Reached : IsLiteral(t)}
        IN  /\ DOMAIN g.done = Reached \ literals
            /\ Cardinality(Range(g.done) \cup DOMAIN g.literals)
                    = Cardinality(DOMAIN g.done) + Cardinality({Form(t) : t \in literals})
            /\ {[r EXCEPT !.lhs = ThingOf(@), !.rhs = [i \in DOMAIN @ |-> FormOf(@[i])],
                          !.separator = FormOf(@)] : r \in ToSet(g.rules)}
               = UNION {RulesSaid(t) : t \in Reached}

\* What is read of a term through the facts, the way N3 reads it: the value of
\* a token, the items of a list, the parts arg0, arg1, ... of a node.
Objects(pred, subj) == {facts[i][3] : i \in {k \in DOMAIN facts : facts[k][1] = pred /\ facts[k][2] = subj}}
Only(S) == CHOOSE x \in S : TRUE
RECURSIVE ReadTerm(_), Shown(_)
ReadTerm(x) ==
    CASE x.is = "literal" -> x
      [] x.is = "list" -> [is |-> "list", items |-> [i \in DOMAIN x.items |-> ReadTerm(x.items[i])]]
      [] Objects("has_value", x) # {} ->
            [is |-> "token", thing |-> Objects("matches", x), text |-> Objects("has_value", x)]
      [] OTHER ->
            [is |-> "node", thing |-> Objects("is_parse_of", x),
             parts |-> [i \in {n \in 0..Len(job.text) : Objects(Arg(n), x) # {}} |->
                            ReadTerm(Only(Objects(Arg(i), x)))]]

\* The same of the tree: its tokens, lists and nodes, without what is nothing.
Shown(tree) ==
    CASE tree.is = "token" ->
            IF tree.sym \in DOMAIN g.literals THEN Literal(tree.text)
            ELSE [is |-> "token", thing |-> {Thing(ThingOf(tree.sym))}, text |-> {Literal(tree.text)}]
      [] tree.is = "rule" /\ tree.rule.sequence ->
            [is |-> "list", items |-> [i \in DOMAIN tree.args |-> Shown(tree.args[i])]]
      [] tree.is = "rule" /\ ~tree.rule.sequence ->
            [is |-> "node", thing |-> {Thing(ThingOf(tree.rule.lhs))},
             parts |-> [i \in {n \in 0..Len(tree.args) - 1 : tree.args[n + 1] # Null} |->
                            Shown(tree.args[i + 1])]]

\* The facts of a text that was parsed are about its one tree: whoever reads
\* them from the result finds that tree.
TreeReadBack ==
    phase = "done" =>
        /\ Cardinality(Parses) = 1
        /\ \A tree \in Parses :
              IF tree = Null THEN stack[0] = None ELSE ReadTerm(stack[0]) = Shown(tree)
=============================================================================
