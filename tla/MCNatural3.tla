----------------------------- MODULE MCNatural3 -----------------------------
(***************************************************************************)
(* Files of up to three statements: prefixes declared at the top and in    *)
(* graphs; verbs of every kind; graphs within graphs and lists, lists      *)
(* within lists; `fin' at the top, within a graph and twice; empty graphs  *)
(* and brackets, also deep inside; files that are empty or do not parse,   *)
(* no file and three of them.                                              *)
(***************************************************************************)
EXTENDS Natural3Props

Q(p, rest) == [is |-> "qname", name |-> <<p>> \o rest]
A == Q("a:", <<"x">>)
B == Q("b:", <<"y">>)
V == [is |-> "quickvariable", name |-> <<"?v">>]
U == [is |-> "explicituri", name |-> <<"uri">>]
L == [is |-> "numericliteral", name |-> <<"1">>]
No == [is |-> "no"]
F(sts) == [is |-> "formulacontent", statements |-> sts]
Seq_(items) == [is |-> "pathlist", items |-> items]
Brackets == [is |-> "brackets"]
Prefix == [is |-> "declaration"]
Prop(sign, e, objects) == [sign |-> sign, expression |-> e, objects |-> objects]
St(s, props) == [is |-> "simple", subject |-> s, propertylist |-> props]
FinSt == St(Q("fin", <<>>), <<>>)

Inner == F(<<Prefix, St(A, <<Prop("", B, <<V>>)>>), FinSt>>)
Statements ==
    {Prefix, FinSt,
     St(F(<<>>), <<Prop("=>", No, <<A>>)>>),
     St(A, <<Prop("", B, <<Seq_(<<V, Brackets>>)>>)>>),
     St(F(<<St(A, <<Prop("", Seq_(<<F(<<>>)>>), <<Inner>>)>>)>>), <<Prop("", B, <<V>>)>>),
     St(A, <<Prop("", B, <<L, A>>)>>),
     St(Inner, <<Prop("=>", No, <<F(<<St(A, <<Prop("@a", No, <<B>>)>>)>>)>>)>>),
     St(F(<<Prefix>>), <<Prop("<=", No, <<Inner, U>>), Prop("=", No, <<A>>)>>),
     St(Seq_(<<A, Seq_(<<V>>), Inner, A>>), <<Prop("@is", B, <<Seq_(<<>>), V>>), Prop("@has", A, <<L>>)>>),
     St(V, <<Prop("", F(<<St(F(<<St(A, <<Prop("", A, <<U>>)>>)>>), <<Prop("", B, <<U>>)>>)>>), <<U>>)>>)}

FilesUpTo(n) == UNION {[1..k -> Statements] : k \in 0..n}
MCJobs == {<<f>> : f \in FilesUpTo(3)} \cup {<<f, g>> : f \in FilesUpTo(2), g \in FilesUpTo(1)}
          \cup {<<>>, <<Unparsed>>, <<Unparsed, <<FinSt>>>>, <<<<FinSt>>, <<FinSt>>, <<FinSt>>>>}
          \cup {<<f, Unparsed>> : f \in FilesUpTo(1)}
=============================================================================
