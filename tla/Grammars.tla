------------------------------ MODULE Grammars ------------------------------
(***************************************************************************)
(* Grammars described in RDF and the symbols and rules Marpa is given for  *)
(* them (Marpa::add in marpa_tau.cpp), and what the Marpa library says of  *)
(* tokens: which symbols may come next, and which trees they make.         *)
(*                                                                         *)
(* A grammar maps each thing to its definition, what ask1 and get_list     *)
(* find of it: a record with what it `is'.  Numbers of symbols stand for   *)
(* Marpa's handles.  A text is a sequence of characters.                   *)
(***************************************************************************)
EXTENDS Integers, Sequences, SequencesExt, FiniteSets, FiniteSetsExt, Functions, TLC

CONSTANT Comma   \* pcomma, the literal that separates lists

NoSymbol == -1
With(f, k, v) == k :> v @@ f
Nothing == [k \in {} |-> 0]

\* symbols are numbered; done and literals say which is whose.
NewGrammar ==
    [count |-> 0, done |-> Nothing, literals |-> Nothing, terminals |-> Nothing,
     rules |-> <<>>, error |-> ""]

Throw(G, what) == [G EXCEPT !.error = what]

NewSymbol(G, thing) ==
    [G EXCEPT !.done = With(@, thing, G.count), !.count = @ + 1]

\* The symbol of a thing that was added.
SymbolOf(d, G, thing) ==
    IF d[thing].is = "literal"
    THEN CHOOSE s \in DOMAIN G.literals : G.literals[s] = d[thing].text
    ELSE G.done[thing]

AddLiteralAnew(G, text) ==   \* Altered: a literal is added again
    [G EXCEPT !.literals = With(@, G.count, text), !.count = @ + 1]
AddLiteral(G, text) ==
    IF text \in Range(G.literals) THEN G
    ELSE [G EXCEPT !.literals = With(@, G.count, text), !.count = @ + 1]

\* marpa_g_rule_new, marpa_g_sequence_new: no rule may be there twice.
NewRule(G, rule) ==
    IF G.error # "" THEN G
    ELSE IF rule \in ToSet(G.rules) THEN Throw(G, "duplicate rule")
    ELSE [G EXCEPT !.rules = Append(@, rule)]

RECURSIVE Add(_, _, _)

AddAll(d, G, things) == FoldLeft(LAMBDA H, x : Add(d, H, x), G, things)
SymbolsOf(d, G, things) == [i \in DOMAIN things |-> SymbolOf(d, G, things[i])]

Choice(d, G, thing, things) ==
    LET H == AddAll(d, G, things)
    IN  IF H.error # "" THEN H
        ELSE NewRule(H, [lhs |-> H.done[thing], rhs |-> SymbolsOf(d, H, things),
                         sequence |-> FALSE, separator |-> NoSymbol, proper |-> FALSE])

Repeat(d, G, thing, item, separator, proper) ==
    LET H == AddAll(d, G, IF separator = "" THEN <<item>> ELSE <<item, separator>>)
    IN  IF H.error # "" THEN H
        ELSE NewRule(H, [lhs |-> H.done[thing], rhs |-> <<SymbolOf(d, H, item)>>,
                         sequence |-> TRUE, proper |-> proper,
                         separator |-> IF separator = "" THEN NoSymbol
                                       ELSE SymbolOf(d, H, separator)])

Add(d, G, thing) ==
    IF G.error # "" \/ thing \in DOMAIN G.done THEN G
    ELSE CASE d[thing].is = "literal" -> AddLiteral(G, d[thing].text)
           [] d[thing].is = "matches" ->
                [NewSymbol(G, thing) EXCEPT !.terminals = With(@, G.count, thing)]
           [] d[thing].is = "mustBeOneSequence" ->
                FoldLeft(LAMBDA H, seq : Choice(d, H, thing, seq),
                         NewSymbol(G, thing), d[thing].sequences)
           [] d[thing].is = "commaSeparatedListOf" ->
                Repeat(d, NewSymbol(G, thing), thing, d[thing].of, Comma, TRUE)
           [] d[thing].is = "list_of" ->
                Repeat(d, NewSymbol(G, thing), thing, d[thing].of, d[thing].separator, FALSE)
           [] d[thing].is = "zeroOrMore" ->
                Repeat(d, NewSymbol(G, thing), thing, d[thing].of, "", FALSE)
           [] d[thing].is = "eof" -> NewSymbol(G, thing)
           [] OTHER -> Throw(NewSymbol(G, thing), "whats this")

---------------------------------------------------------------------------
(* The Marpa library.  A token is a symbol with its text; a tree is a      *)
(* token, nothing, or a rule with the trees of its parts.                  *)

RulesFor(G, s) == {r \in ToSet(G.rules) : r.lhs = s}
Terminal(G, s) == RulesFor(G, s) = {}

Nullable(G) ==
    FoldLeft(LAMBDA N, i : N \cup {r.lhs : r \in {x \in ToSet(G.rules) :
                                        x.sequence \/ ToSet(x.rhs) \subseteq N}},
             {}, G.rules)

Null == [is |-> "null"]
Leaf(token) == [is |-> "token", sym |-> token.sym, text |-> token.text]
Node(rule, args) == [is |-> "rule", rule |-> rule, args |-> args]

RECURSIVE Trees(_, _, _), Rows(_, _, _), Items(_, _, _)

\* The trees of a symbol, of a row of symbols, of the items of a sequence.
Trees(G, s, toks) ==
    IF toks = <<>> THEN IF s \in Nullable(G) THEN {Null} ELSE {}
    ELSE IF Terminal(G, s)
         THEN IF Len(toks) = 1 /\ toks[1].sym = s THEN {Leaf(toks[1])} ELSE {}
    ELSE UNION {{Node(r, args) : args \in IF r.sequence THEN Items(G, r, toks)
                                          ELSE Rows(G, r.rhs, toks)} : r \in RulesFor(G, s)}

Rows(G, row, toks) ==
    IF row = <<>> THEN IF toks = <<>> THEN {<<>>} ELSE {}
    ELSE LET cuts == {n \in 0..Len(toks) :
                        /\ n = 0 => Head(row) \in Nullable(G)
                        /\ n = Len(toks) => ToSet(Tail(row)) \subseteq Nullable(G)}
         IN  UNION {UNION {{<<first>> \o rest : first \in Trees(G, Head(row), SubSeq(toks, 1, n))} :
                            rest \in Rows(G, Tail(row), SubSeq(toks, n + 1, Len(toks)))} : n \in cuts}

ItemsAfter(G, r, rest) ==
    IF rest = <<>> THEN {<<>>}
    ELSE IF r.separator = NoSymbol THEN Items(G, r, rest)
    ELSE IF Head(rest).sym # r.separator THEN {}
    ELSE Items(G, r, Tail(rest)) \cup (IF Tail(rest) = <<>> /\ ~r.proper THEN {<<>>} ELSE {})
Items(G, r, toks) ==
    UNION {UNION {{<<first>> \o rest : first \in Trees(G, r.rhs[1], SubSeq(toks, 1, n))} :
                    rest \in ItemsAfter(G, r, SubSeq(toks, n + 1, Len(toks)))} : n \in 1..Len(toks)}

\* The terminals that may come after the tokens, where s is to begin with
\* them; `seen' are the symbols begun at the same place.
RECURSIVE MayFollow(_, _, _, _)
FollowInRow(G, r, toks, seen) ==
    UNION {MayFollow(G, r.rhs[kn[1]], SubSeq(toks, kn[2] + 1, Len(toks)),
                IF kn[2] = 0 THEN seen ELSE {}) :
            kn \in {x \in (DOMAIN r.rhs) \X (0..Len(toks)) :
                        Rows(G, SubSeq(r.rhs, 1, x[1] - 1), SubSeq(toks, 1, x[2])) # {}}}
FollowInSequence(G, r, toks, seen) ==
    LET items(n) == Items(G, r, SubSeq(toks, 1, n)) # {}
        begins(n) == \/ n = 0
                     \/ r.separator = NoSymbol /\ items(n)
                     \/ r.separator # NoSymbol /\ toks[n].sym = r.separator /\ items(n - 1)
    IN  UNION {MayFollow(G, r.rhs[1], SubSeq(toks, n + 1, Len(toks)), IF n = 0 THEN seen ELSE {}) :
                n \in {x \in 0..Len(toks) : begins(x)}}
        \cup (IF r.separator # NoSymbol /\ toks # <<>> /\ items(Len(toks))
              THEN {r.separator} ELSE {})
MayFollow(G, s, toks, seen) ==
    IF s \in seen THEN {}
    ELSE IF Terminal(G, s) THEN IF toks = <<>> THEN {s} ELSE {}
    ELSE UNION {IF r.sequence THEN FollowInSequence(G, r, toks, seen \cup {s})
                ELSE FollowInRow(G, r, toks, seen \cup {s}) : r \in RulesFor(G, s)}
=============================================================================
