------------------------------ MODULE MCTriples ------------------------------
(***************************************************************************)
(* Small texts for Triples: every rule base of them with its dots and      *)
(* without, and some that end too early or have a mark out of place.       *)
(***************************************************************************)
EXTENDS Triples

CONSTANT MaxMade   \* more resources than any text has

MCNull == <<"null", 0>>
MCVars == {"?"} \X (1..MaxMade)
MCNonvars == {"a", "b", "r", "."} \X (1..MaxMade)

N(w) == <<w, <<>>>>
L(xs) == <<<<".">>, xs>>
a == N(<<"a">>)
b == N(<<"b">>)
ar == N(<<"a", "r">>)
r == N(<<"r">>)
x == N(<<"?", "x">>)
y == N(<<"?", "y">>)
z == N(<<"?", "z">>)

\* Names that strings keep outside themselves.
aaaa == N(<<"a", "a", "a", "a">>)
bbbb == N(<<"b", "b", "b", "b">>)
xxx == N(<<"?", "x", "x", "x">>)
xyx == N(<<"?", "x", "y", "x">>)
yxx == N(<<"?", "y", "x", "x">>)

Rule(h, ts) == [head |-> h, body |-> ts]
Fact(t) == Rule(t, <<>>)

RECURSIVE Spelled(_)
Spelled(t) ==
    IF t[1] # <<".">> THEN t[1]
    ELSE <<"(">> \o FlattenSeq([k \in DOMAIN t[2] |-> Spelled(t[2][k]) \o <<" ">>]) \o <<")">>

Dot(dots) == IF dots THEN <<".">> ELSE <<" ">>
Spo(t, dots) == Spelled(t[1]) \o <<" ">> \o Spelled(t[2]) \o <<" ">> \o Spelled(t[3]) \o Dot(dots)
Spos(ts, dots) == FlattenSeq([n \in DOMAIN ts |-> Spo(ts[n], dots)])

\* An implication with all its heads is one statement.
Statement(body_, heads, dots) ==
    <<"{">> \o Spos(body_, dots) \o <<"}", " ", "=", ">", "{">> \o Spos(heads, dots) \o <<"}">> \o Dot(dots)

Facts == {<<a, ar, b>>, <<L(<<a, b>>), ar, L(<<a>>)>>, <<a, r, L(<<L(<<a>>), x>>)>>, <<x, r, y>>}

FactText(t, u, dots) == Spos(<<t, u>>, dots)
RuleSaid(ts, heads) ==
    IF heads = <<>> THEN <<Rule(<<>>, ts)>> ELSE [n \in DOMAIN heads |-> Rule(heads[n], ts)]

Heads == {<<>>} \cup {<<t>> : t \in Facts} \cup (Facts \X Facts)
Bodies == {<<t>> : t \in Facts} \cup (Facts \X Facts)

Said ==
    {[text |-> FactText(t, u, dots), says |-> <<<<Fact(t), Fact(u)>>>>, rows |-> FALSE] :
        t, u \in Facts, dots \in BOOLEAN}
    \cup {[text |-> Statement(ts, hs, dots) \o Spo(f, dots),
           says |-> <<Append(RuleSaid(ts, hs), Fact(f))>>, rows |-> FALSE] :
        ts \in Bodies, hs \in Heads, f \in {<<a, ar, b>>}, dots \in BOOLEAN}

\* Four names are not moved; the fifth moves four long ones.
Solved ==
    {[text |-> FactText(t, u, TRUE), says |-> <<<<Fact(t), Fact(u)>>>>, rows |-> TRUE] :
        <<t, u>> \in {<< <<x, a, y>>, <<z, a, x>> >>,
                      << <<xxx, aaaa, xyx>>, <<yxx, bbbb, xxx>> >>,
                      << <<x, L(<<a>>), y>>, <<L(<<a>>), y, a>> >>,
                      << <<x, L(<<y>>), x>>, <<y, x, L(<<y>>)>> >>}}

\* The fifth name moves four short ones; one of them comes back.
Moved ==
    {[text |-> FactText(t, u, TRUE), says |-> <<<<Fact(t), Fact(u)>>>>, rows |-> FALSE] :
        <<t, u>> \in {<< <<x, a, y>>, <<z, b, x>> >>, << <<x, a, y>>, <<z, b, L(<<x, a>>)>> >>}}

\* Texts that say no rules.
Wrong ==
    {[text |-> t, says |-> <<>>, rows |-> FALSE] :
        t \in {<<" ">>, <<"a", " ", "r">>, <<"a", " ", "r", " ", "b">>, <<"{">>, <<"{", " ">>,
               <<"{", "}">>, <<"{", " ", "}">>, <<"a", " ", "}">>, <<"(", "a", ".">>, <<"a", " ", "(", "b">>,
               <<"{", "a", " ", "r", " ", "b", "}">>, <<"{", "a", " ", "r", " ", "b", "}", " ">>,
               <<"{", "a", " ", "r", " ", "b", "}", "=", ">", "{", "a", " ", "b">>,
               <<"{", "a", " ", "r", " ", "b", "}", "=", ">", "{", "a", " ", ")">>}}

MCFiles == Said \cup Solved \cup Moved \cup Wrong
=============================================================================
