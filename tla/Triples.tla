------------------------------- MODULE Triples -------------------------------
(***************************************************************************)
(* The rules of triples.h: din_t reads a text letter by letter, and mkres  *)
(* and mktriple keep one copy of every resource and of every triple, so    *)
(* that the rows of vm.h can compare resources by their addresses.         *)
(*                                                                         *)
(* The address of a resource is its type, the first letter of its name or  *)
(* a dot for a list, and its place among the names or the lists made.      *)
(* Past the end of a text, peek gives its last letter again.               *)
(*                                                                         *)
(* The names are kept in a map whose elements realloc moves when it grows. *)
(* A short name lies inside its string, which then points at memory that   *)
(* was freed: whether it is found again is left open.                      *)
(***************************************************************************)
EXTENDS Rows

CONSTANTS Files   \* a text, what it says if it says a rule base, and whether
                  \* its resources are put in rows

\* A null is no address.
ASSUME FilesAssumption ==
    \A f \in Files :
        /\ f.text \in Seq(STRING)
        /\ Null \notin (ToSet(f.text) \cup {"."}) \X Nat

VARIABLES
    file,
    rest,     \* the letters still to be read
    at,       \* "statement", "body" or "heads", "done" or "threw"
    parts,    \* the resources read of a triple
    items,    \* readlist's calls, the outermost first
    names, lists, triples,   \* what is kept of each
    body,     \* of the rule being read
    rules

tables == <<names, lists, triples>>
readVars == <<file, rest, at, parts, items, tables, body, rules>>
tripleVars == <<readVars, vars>>

Space == {" "}
Delims == {")", "}", "."}   \* edelims

ReadInit ==
    /\ file \in Files
    /\ rest = file.text
    /\ at = "statement"
    /\ parts = <<>> /\ items = <<>> /\ body = <<>>
    /\ names = <<>> /\ lists = <<>> /\ triples = <<>> /\ rules = <<>>
    /\ Init

Drop(letters, n) == SubSeq(letters, n + 1, Len(letters))
\* How many letters from the front are in a set.
Span(letters, S) ==
    CHOOSE n \in 0..Len(letters) :
        /\ \A k \in 1..n : letters[k] \in S
        /\ n < Len(letters) => letters[n + 1] \notin S

Letters == ToSet(file.text)
Skip(letters) == Drop(letters, Span(letters, Space))
Get(letters) == Drop(letters, 1)
Peek(letters) == IF letters = <<>> THEN Last(file.text) ELSE Head(letters)
Good(letters) == letters # <<>>

\* till: at the end of the text the last letter is taken twice.
Till(letters) ==
    LET n == Span(letters, Letters \ (Space \cup Delims))
        word == SubSeq(letters, 1, n)
    IN  IF n = Len(letters) THEN Append(word, Last(word)) ELSE word

---------------------------------------------------------------------------
(* mkres and mktriple.                                                     *)

\* map::find, the place of a key in an association list.
Find(table, key) == SelectInSeq(table, LAMBDA k : k = key)
Set(table, key) == IF Find(table, key) = 0 THEN Append(table, key) ELSE table

Chunk == 4    \* elements of a vector between two calls of realloc
Inline == 3   \* letters that a wstring of libstdc++ keeps inside itself

\* The name n may not be found: it is short and was moved since it was made.
Lost(n) == Len(names[n]) <= Inline /\ \E m \in n..(Len(names) - 1) : m % Chunk = 0

\* Every name is found.
Steady == \A n \in DOMAIN names : ~Lost(n)

\* Where mkres finds the name w, or puts it.
Places(w) ==
    {n \in 1..(Len(names) + 1) :
        /\ n \in DOMAIN names => names[n] = w
        /\ \A k \in 1..(n - 1) : names[k] = w => Lost(k)}

\* Altered Name: a name is found only as the last one made.
NameLast(w) ==
    IF names # <<>> /\ Last(names) = w THEN {[table |-> names, at |-> <<Head(w), Len(names)>>]}
    ELSE {[table |-> Append(names, w), at |-> <<Head(w), Len(names) + 1>>]}

Name(w) ==
    {[table |-> IF n \in DOMAIN names THEN names ELSE Append(names, w), at |-> <<Head(w), n>>] :
        n \in Places(w)}

\* The keys of the other tables, sequences and pointers, may be moved.
List(xs) == [table |-> Set(lists, xs), at |-> <<".", Find(Set(lists, xs), xs)>>]
Triple(spo) == [table |-> Set(triples, spo), at |-> Find(Set(triples, spo), spo)]

---------------------------------------------------------------------------
(* readany, readlist and readtriple.                                       *)

\* A part of the triple, or of the innermost list.
Give(x, calls) ==
    IF calls = <<>> THEN parts' = Append(parts, x) /\ items' = calls
    ELSE items' = Append(Front(calls), Append(Last(calls), x)) /\ UNCHANGED parts

\* A resource is wanted, and there is text.
Wants ==
    /\ at \in {"statement", "body", "heads"}
    /\ Len(parts) < 3
    /\ Good(Skip(rest))
    /\ items = <<>> /\ parts = <<>> =>
          CASE at = "statement" -> Peek(Skip(rest)) # "{"
            [] at \in {"body", "heads"} -> Peek(rest) # "}"

Word ==
    /\ Wants
    /\ Peek(Skip(rest)) \notin Delims \cup {"("}
    /\ LET w == Till(Skip(rest))
           n == Span(Skip(rest), Letters \ (Space \cup Delims))
       IN  /\ rest' = Drop(Skip(rest), n)
           /\ \E made \in Name(w) : names' = made.table /\ Give(made.at, items)
    /\ UNCHANGED <<file, at, lists, triples, body, rules, vars>>

OpenList ==
    /\ Wants
    /\ Peek(Skip(rest)) = "("
    /\ rest' = Get(Skip(rest))
    /\ items' = Append(items, <<>>)
    /\ UNCHANGED <<file, at, parts, tables, body, rules, vars>>

\* A list ends with the text, too.
CloseList ==
    /\ items # <<>>
    /\ at # "threw"
    /\ ~Good(Skip(rest)) \/ Peek(Skip(rest)) = ")"
    /\ rest' = Skip(Get(Skip(rest)))
    /\ lists' = List(Last(items)).table
    /\ Give(List(Last(items)).at, Front(items))
    /\ UNCHANGED <<file, at, names, triples, body, rules, vars>>

\* A name without a letter: a string is made from a null pointer.
NoWord ==
    /\ Wants
    /\ Peek(Skip(rest)) \in IF items = <<>> THEN Delims ELSE Delims \ {")"}
    /\ at' = "threw"
    /\ UNCHANGED <<file, rest, parts, items, tables, body, rules, vars>>

AfterDot(letters) ==
    IF Good(Skip(letters)) /\ Peek(Skip(letters)) = "." THEN Skip(Get(Skip(letters))) ELSE Skip(letters)

\* Altered Took: the next head gets the rules' bodies so far.
TookHead(t, more) ==
    CASE at = "statement" ->
             /\ rules' = IF t = 0 THEN rules ELSE Append(rules, [head |-> t, body |-> <<>>])
             /\ rest' = AfterDot(more)
             /\ at' = IF Good(AfterDot(more)) THEN at ELSE "done"
             /\ UNCHANGED body
      [] at = "body" ->
             /\ body' = Append(body, t)
             /\ rest' = more
             /\ UNCHANGED <<at, rules>>
      [] at = "heads" ->
             /\ rules' = Append(rules, [head |-> t, body |-> body])
             /\ body' = <<>>
             /\ rest' = more
             /\ UNCHANGED at

\* What becomes of a triple, 0 for none.
Took(t, more) ==
    CASE at = "statement" ->
             /\ rules' = IF t = 0 THEN rules ELSE Append(rules, [head |-> t, body |-> <<>>])
             /\ rest' = AfterDot(more)
             /\ at' = IF Good(AfterDot(more)) THEN at ELSE "done"
             /\ UNCHANGED body
      [] at = "body" ->
             /\ body' = Append(body, t)
             /\ rest' = more
             /\ UNCHANGED <<at, rules>>
      [] at = "heads" ->
             /\ rules' = Append(rules, [head |-> t, body |-> body])
             /\ rest' = more
             /\ UNCHANGED <<at, body>>

ReadTriple ==
    /\ Len(parts) = 3 /\ items = <<>>
    /\ triples' = Triple(parts).table
    /\ Took(Triple(parts).at, AfterDot(rest))
    /\ parts' = <<>>
    /\ UNCHANGED <<file, items, names, lists, vars>>

\* The text ends before the triple does.
CutTriple ==
    /\ at \in {"statement", "body", "heads"}
    /\ Len(parts) < 3 /\ items = <<>> /\ ~Good(Skip(rest))
    /\ at = "statement" \/ parts # <<>> \/ Good(rest)
    /\ Took(0, Skip(rest))
    /\ parts' = <<>>
    /\ UNCHANGED <<file, items, tables, vars>>

---------------------------------------------------------------------------
(* readdoc.                                                                *)

Between == items = <<>> /\ parts = <<>>

\* With no letter after the brace, good has not noticed the end of the text yet
\* and a null is pushed.
OpenBody ==
    /\ at = "statement" /\ Between
    /\ Good(Skip(rest)) /\ Peek(Skip(rest)) = "{"
    /\ at' = "body"
    /\ rest' = Get(Skip(rest))
    /\ body' = IF Get(Skip(rest)) = <<>> THEN <<0>> ELSE <<>>
    /\ UNCHANGED <<file, parts, items, tables, rules, vars>>

\* Two letters between the braces are passed over, whatever they are.
CloseBody ==
    LET arrow == Get(Get(Skip(Get(rest))))
        heads == Skip(Get(Skip(arrow)))
    IN  /\ at = "body" /\ Between
        /\ ~Good(rest) \/ Peek(rest) = "}"
        /\ at' = "heads"
        /\ rest' = heads
        /\ rules' = IF Peek(heads) = "}" THEN Append(rules, [head |-> 0, body |-> body]) ELSE rules
        /\ UNCHANGED <<file, parts, items, tables, body, vars>>

CloseHeads ==
    /\ at = "heads" /\ Between
    /\ ~Good(rest) \/ Peek(rest) = "}"
    /\ rest' = AfterDot(Get(rest))
    /\ at' = IF Good(AfterDot(Get(rest))) THEN "statement" ELSE "done"
    /\ UNCHANGED <<file, parts, items, tables, body, rules, vars>>

Read ==
    \/ Word \/ OpenList \/ CloseList \/ NoWord \/ ReadTriple \/ CutTriple
    \/ OpenBody \/ CloseBody \/ CloseHeads

---------------------------------------------------------------------------
(* The rows, once the text is read.  Who puts resources in them is not in  *)
(* the repository: any two resources that were read may be.                *)

Made == {<<Head(names[n]), n>> : n \in DOMAIN names} \cup {<<".", n>> : n \in DOMAIN lists}

Solve ==
    /\ at = "done" /\ file.rows
    /\ Clear \/ \E x, y \in Made : Apply(x, y)
    /\ UNCHANGED readVars

Ended == at \in {"done", "threw"} /\ UNCHANGED tripleVars

ReadAndSolve == Read \/ Solve \/ Ended

TriplesSpec == ReadInit /\ [][ReadAndSolve]_tripleVars

---------------------------------------------------------------------------

\* A resource as it is written: a name and nothing in it, or a dot and what is
\* in the list.
Written[x \in Made] ==
    IF x[1] # "." THEN <<names[x[2]], <<>>>>
    ELSE LET xs == lists[x[2]] IN <<<<".">>, [k \in DOMAIN xs |-> Written[xs[k]]]>>

WrittenTriple(t) == [k \in 1..3 |-> Written[triples[t][k]]]
WrittenRule(r) ==
    [head |-> IF r.head = 0 THEN <<>> ELSE WrittenTriple(r.head),
     body |-> [n \in DOMAIN r.body |-> WrittenTriple(r.body[n])]]

\* A text that says rules is read as these rules, in its order, every head of
\* an implication with the whole body and an implication without heads as one
\* rule (triples.h 138-153); and while every name is found, equal triples of it
\* are one triple (49-82).
ReadAsSaid ==
    at = "done" /\ file.says # <<>> =>
        /\ [n \in DOMAIN rules |-> WrittenRule(rules[n])] = file.says[1]
        /\ Steady =>
              \A t, u \in DOMAIN triples : WrittenTriple(t) = WrittenTriple(u) => t = u

\* "uniquely create resources" (triples.h 49), as far as the code does: a name
\* is made again only when its place was lost in a table that has moved.  As
\* long as none was, resources that are written alike have one address, and
\* rule 3 of vm.h, "every element appears at most once in at most one row",
\* holds of resources as they are written.
WrittenOnce ==
    /\ \A n, k \in DOMAIN names : n < k /\ names[n] = names[k] => Lost(n)
    /\ Steady =>
          /\ \A x, y \in Made : Written[x] = Written[y] => x = y
          /\ \A n, k \in DOMAIN eqs : \A i \in DOMAIN eqs[n], j \in DOMAIN eqs[k] :
                 /\ Null \notin {eqs[n][i], eqs[k][j]}
                 /\ Written[eqs[n][i]] = Written[eqs[k][j]]
                 => n = k /\ i = j
=============================================================================
