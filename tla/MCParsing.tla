----------------------------- MODULE MCParsing -----------------------------
(***************************************************************************)
(* Grammars with what n3-grammar is made of, and all the texts of a few    *)
(* characters: statements of words, lists in parentheses and words with    *)
(* more words after commas; lists that use the comma in two ways; a        *)
(* grammar with two trees for a text; and grammars that are refused.       *)
(***************************************************************************)
EXTENDS ParsingProps

MCComma == "comma"

Lit(c) == [is |-> "literal", text |-> <<c>>]
OneOf(s) == [is |-> "mustBeOneSequence", sequences |-> s]
ListOf(t, sep) == [is |-> "list_of", of |-> t, separator |-> sep]
Matches(words) == [is |-> "matches", words |-> words]

Statements ==
    "document" :> ListOf("statement", "dot") @@ "dot" :> Lit(".")
    @@ "statement" :> OneOf(<<<<"item", "tail">>>>)
    @@ "tail" :> OneOf(<<<<"comma", "item", "tail">>, <<>>>>)
    @@ "comma" :> Lit(",") @@ "also comma" :> Lit(",")
    @@ "item" :> OneOf(<<<<"word">>, <<"open", "items", "close">>>>)
    @@ "open" :> Lit("(") @@ "close" :> Lit(")")
    @@ "items" :> [is |-> "zeroOrMore", of |-> "item"]
    @@ "word" :> Matches({<<"a">>, <<"a", "b">>, <<"b">>})

Lists ==
    "document" :> OneOf(<<<<"words", "name", "also comma">>, <<"b", "words">>>>)
    @@ "words" :> [is |-> "commaSeparatedListOf", of |-> "name"]
    @@ "name" :> Matches({<<"a">>, <<"a", "a">>})
    @@ "b" :> Lit("b") @@ "comma" :> Lit(",") @@ "also comma" :> Lit(",")

Twice ==
    "document" :> OneOf(<<<<"document", "document">>, <<"a">>, <<"b", "letter">>>>)
    @@ "a" :> Lit("a") @@ "b" :> Lit("b") @@ "letter" :> Matches({<<"a">>, <<"b">>})

Refused == {
    "document" :> OneOf(<<<<"a">>, <<"also a">>>>) @@ "a" :> Lit("a") @@ "also a" :> Lit("a"),
    "document" :> OneOf(<<<<"a", "what">>>>) @@ "a" :> Lit("a") @@ "what" :> [is |-> "nothing"],
    "document" :> OneOf(<<<<"a", "eof">>>>) @@ "a" :> Lit("a") @@ "eof" :> [is |-> "eof"]}

Texts(chars, n) == UNION {[1..k -> chars] : k \in 0..n}
Job(grammar, text) == [grammar |-> grammar, root |-> "document", text |-> text,
                       comments |-> {<<"#">>, <<"#", "a">>}]
MCJobs ==
    {Job(Statements, t) : t \in Texts({"a", "b", ",", "(", ")"}, 5) \cup Texts({"a", "(", ")", "."}, 5)
                                 \cup Texts({"a", "b", "#", " "}, 4)}
    \cup {Job(Lists, t) : t \in Texts({"a", "b", ","}, 6)}
    \cup {Job(Twice, t) : t \in Texts({"a", "b"}, 4)}
    \cup {Job(r, t) : r \in Refused, t \in Texts({"a"}, 2)}
=============================================================================
