------------------------------- MODULE MCDNA -------------------------------
(***************************************************************************)
(* Small rule bases for DNA.  A triple has a subject and an object; rel, a *)
(* and b and dot, the resource of lists, are names, and x, y, z and w are  *)
(* variables.  Every rule base is also written out, in three styles.       *)
(***************************************************************************)
EXTENDS Pcpp

CONSTANTS rel, a, b, x, y, z, w, dot

MCNames == {rel, a, b, dot}
MCVars == {x, y, z, w}

Atoms(S) == {Atom(r) : r \in S}
Pairs(S) == {List(ts) : ts \in [1..2 -> Atoms(S)]}
Triples(S) == {[p |-> rel, args |-> ts] : ts \in [1..2 -> S]}

\* One rule, whose head is matched with its own body.
Rules(heads, bodies) == {<<[head |-> h, body |-> <<t>>]>> : h \in heads, t \in bodies}

FlatTriples == Triples(Atoms({a, b, x, y, z}))

\* The body's lists name x and y, the head's z and w.
BodyTriples == Triples(Atoms({a, x, y}) \cup Pairs({a, x}))
HeadTriples == Triples(Atoms({a, z, w}) \cup Pairs({a, z}))

\* A rule of two body terms and a fact or a second head.
Loop(h, t) == <<[head |-> h, body |-> <<t, [p |-> rel, args |-> <<Atom(y), Atom(b)>>]>>],
                [head |-> t, body |-> <<>>]>>
Small == Triples(Atoms({a, x, y}))

FlatKBs == Rules(FlatTriples, FlatTriples)
ApartKBs == Rules(HeadTriples, BodyTriples)
LoopKBs == {Loop(h, t) : h, t \in Small}
CheckedKBs == FlatKBs \cup ApartKBs \cup LoopKBs

---------------------------------------------------------------------------
(* Rule bases as texts, a line for each statement.                         *)

Written(t) ==
    IF t.args = <<>> THEN <<t.p>>
    ELSE <<"(">> \o FlattenSeq([k \in DOMAIN t.args |-> <<t.args[k].p>>]) \o <<")">>
Triple(t) == Written(t.args[1]) \o <<t.p>> \o Written(t.args[2])
Braces(ts, dots) ==
    <<"{">> \o FlattenSeq([n \in DOMAIN ts |-> Triple(ts[n]) \o (IF dots \/ n < Len(ts) THEN <<".">> ELSE <<>>)])
        \o <<"}">>

Line(rule, dots, graph) ==
    (IF rule.body = <<>> THEN Triple(rule.head)
     ELSE Braces(rule.body, dots) \o <<b>> \o Braces(<<rule.head>>, dots)) \o graph \o <<".">>

Lines(rules, dots, graph) == [n \in DOMAIN rules |-> Line(rules[n], dots, graph)]

\* Two rules or facts said by one statement.
Both(r, s) ==
    IF r.body # <<>> THEN <<Braces(r.body, TRUE) \o <<a>> \o Braces(<<r.head, s.head>>, FALSE) \o <<".">>>>
    ELSE <<Triple(r.head) \o (IF r.head.p = s.head.p THEN <<",">> ELSE <<";", ";", s.head.p>>)
             \o Written(s.head.args[2]) \o <<".", ".">>>>

Shared == {[head |-> g, body |-> <<[p |-> rel, args |-> <<Atom(x), Atom(y)>>]>>] : g \in Triples(Atoms({a, x}))}
Facts == {[head |-> [p |-> q, args |-> ts], body |-> <<>>] :
              q \in {rel, b}, ts \in {<<Atom(a), Atom(b)>>, <<Atom(a), List(<<Atom(a), Atom(b)>>)>>,
                                     <<List(<<Atom(a), Atom(b)>>), Atom(a)>>}}

File(lines, kbSaid) == [lines |-> lines, says |-> <<kbSaid>>]
Comment == <<"#", "}">>
Fin == <<"fin", ".">>

MCFiles ==
    {File(Lines(k, TRUE, <<>>), k) : k \in CheckedKBs}
        \cup {File(<<Comment>> \o Lines(k, FALSE, <<a>>) \o <<Fin, <<")">>>>, k) : k \in LoopKBs \cup ApartKBs}
        \cup {File(Both(r, s) \o Lines(<<t>>, FALSE, <<>>), <<r, s, t>>) :
                  r, s \in Shared, t \in {CHOOSE t \in Facts : TRUE}}
        \cup {File(Both(r, s) \o Lines(<<t>>, TRUE, <<>>), <<r, s, t>>) :
                  <<r, s>> \in {rs \in Facts \X Facts : rs[1].head.args[1] = rs[2].head.args[1]},
                  t \in {CHOOSE t \in Shared : TRUE}}
        \cup {File(<<<<a, rel, "(", b, ".", b, ")", ".", "{", "}", b>> \o Braces(<<r.head>>, TRUE)>>,
                   <<[head |-> [p |-> rel, args |-> <<Atom(a), List(<<Atom(b), Atom(b)>>)>>], body |-> <<>>],
                     [r EXCEPT !.body = <<>>]>>) : r \in Shared}
        \cup {File(<<<<a, rel, b, ",", ".">>, <<b, rel, a, ";", ".">>>>,
                   <<[head |-> [p |-> rel, args |-> <<Atom(a), Atom(b)>>], body |-> <<>>],
                     [head |-> [p |-> rel, args |-> <<Atom(b), Atom(a)>>], body |-> <<>>]>>)}
        \cup {[lines |-> <<wrong>>, says |-> <<>>] :
                  wrong \in {<<a, "{", "}">>, <<a, rel, ")">>, <<a, rel, ";">>, <<a, rel, b, ".", ")">>,
                            <<a, rel, "(", b, "{", "}">>}}
=============================================================================
