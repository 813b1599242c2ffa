# tau in TLA+

TLA+ models of tau, the reasoner of tauchain, with the TLC runs that check them
and the TLAPS proofs about them. Source lines below are of the files in `src/`.

## 1. The system

`tau prove` reads a knowledge base and a query as quads (N-Quads with graphs in
braces and lists), turns the knowledge base into rules, checks that it proves no
contradiction, and answers the query by backward chaining. `tau convert` turns a
JSON-LD document into quads. An optional Marpa build adds a parser for N3 whose
grammar is itself a set of facts. Beside tau the repository holds stand-alone
prototypes of the same idea.

| component | state | operations | interacts with |
|---|---|---|---|
| command line (`tau.cpp`, `cli.cpp`) | arguments, flags, level | `main`, `process_flags`, `prove`, `convert`, `help`, the unit test | everything below |
| N-Quads parser (`nquads.cpp`, `readqdb` in `rdf.cpp`) | position, pending quads and list cells, graph counter | `operator()`, `readany`, `readcurly`, `readlist`, `readprefix` | rule base |
| rule base (`prover.cpp` 521-626, 728-742, 887-906) | quads, heads, bodies, contexts to try | `addrules`, `quad2term`, `list2term`, `consistency`, `query` | engine, dictionary |
| dictionary and term store (`misc.cpp` 15-86, `prover.h`) | node to id and back, terms by their parts | `set`, `operator[]`, `make`, `add` | everything |
| proof engine (`prover.cpp` 127-138, 392-484, 679-711) | frames with their pointers and substitutions, the list of frames (`lastp`), `gnd`, evidence `e` | `do_query`, `step` (recursive), `euler_path`, `queuepush`, `pushev`, `proof::g` | rule base, unification |
| terms and unification (`unifiers.cpp`, `prover.cpp` 402-414, 852-866) | the substitutions passed in | `evaluate`, `unify`, `unify_ep`, `mksubs`, `caseof` | called by the engine |
| builtins and list queries (`prover.cpp` 139-391, 744-850) | `subss`, temporary variables | `list_next`, `ask...`, builtins | Marpa build only |
| JSON-LD (`jsonld.cpp`, `rdf.cpp`) | active context and `defined`, node map, blank node names | contexts, expansion, node map, quads | `convert` |
| Marpa and N3 (`marpa_tau.cpp`) | symbols and rules, tokens, results, prefixes, current graph | builds a grammar, parses, walks the tree to quads | engine, libmarpa |
| pcpp (`p.cpp`) | parser's calls; matches of every body term; a union-find of variables per match | `readterms`, `nqparser`, `trymatch`, `find_root`, `makeDNA` | stand-alone |
| vm (`vm.h`, `triples.h`, `vm/`) | interned resources, rows of equal ones; persistent arrays and union-find | the reader, `apply`, `check`; `get`, `set`, `find`, `unio` | stand-alone |
| comp, cc, unif, stlc, Euler prototypes, tools, vendored code | | | not modelled |

What is hard here is not concurrency: tau runs in one thread, persists nothing
and talks to nobody. It is the long chains of legal calls: a search whose
recursion, list and backtracking share one mutable pointer (`lastp`), whose
frames share variables by name and whose termination rests on one check; parsers
whose functions call each other at any depth over shared vectors; definitions
that need each other in an order nobody chose. `PROJECT.json` lists each hazard
at its line.

What makes each component correct:

- command line: an option means the same wherever it stands; every command ends;
- N-Quads parser: every quad is read once, into its graph, and every list whole;
- rule base: an implication becomes exactly the rules its graphs say, the
  consistency check tells a contradiction, and a query is answered by the rules;
- dictionary and term store: one id per node, negative exactly for variables,
  one address per term;
- proof engine: the loop steps every frame once; every search ends; answers
  follow from the rules and none is missing; the reported proof proves the term;
- unification: bindings are well formed whatever fails; the cached conditions
  hide no match;
- JSON-LD: a term means what its context says in whatever order terms are
  defined, just the wrong contexts are refused, expansion is idempotent, the
  quads are those of the document;
- Marpa and N3: the grammar handed over is the whole one, a tree is read back
  as it was found, the rules and the query are what the files say;
- pcpp: rules are read as stated, no match is lost, groups agree with unification;
- vm: rules are read as stated, a row equates only what was equated and never
  two constants; an operation on one version of an array changes no other.

## 2. Plan

Done, in this order:

1. `Terms`: terms, substitutions, unification, conditions.
2. `Prover`: the engine over `Terms`; `ProverProps`: its properties;
   `Entailment`, `QueryAnswering`: what an answer is and what is promised.
3. `ProverProofs`, `SearchProofs`, `GroundProofs`, each extending the one before.
4. `Versions`, `ArrayCells`, `PersistentArrays` and their proofs `ArraysProofs`;
   `DisjointSets` and `UnionFind` on top of them, with `UnionFindProofs`.
5. `DNA`, and `Pcpp`, which composes the reader of pcpp with it.
6. The prove command: `NQuads`, `RuleBase` on it, `Loading` composing both with
   the engine (`P == INSTANCE Prover`), `Tau` around it; `Documents` says what a
   text means and `LoadingProps` compares, with `Entailment`; `TauProofs`.
7. The convert command: `Contexts`, `Expansion`, `Conversion`, each extending
   the one before; `LinkedData` says what a document means, and `Conversion`
   compares.
8. The Marpa build: `Grammars`, `Parsing` with `ParsingProps`; `Natural3` with
   `Natural3Props`.
9. The rows of `vm.h`: `Rows`, and `Triples`, the reader of `triples.h` on it;
   `RowsProofs`, on both.
10. `Dictionary`, the node numbers and term addresses that the prover compares, as
   a system of its own, and `DictionaryProofs`.

Left, in this order:

- nested terms in `Terms`, so that rule bases with lists can be searched too;
- the re-entrant query of the Marpa build, a stack of queries over one `lastp`,
  once that build compiles.

## 3. The models

### Terms

A `term` of the code is a resource with two children, both null or both set.
The model uses the tuple of its resources: `<<p>>` or `<<p, s, o>>`. The code
interns terms and compares pointers, the model compares values (that this is
the same is what `Dictionary` and `DictionaryProofs` are about). Terms nested in terms, which the code builds for RDF
lists, are not represented here; nor, as inputs, are rules that use one variable
both as a predicate and as an argument, since such a variable could bind a
triple where the model has room for a resource.

| definition | code |
|---|---|
| `Evaluate`, `EvalConst`, `Resolve`, `IsBound` | `evvar`, `evpred`, `evaluate`, `ev` |
| `BindSource`, `BindDest`, `UnifyConst`, `UnifyBy`, `UnifyArgs` | `UNIFVAR`, `unif`, `unifpred`, `term::unify` |
| `Unify`, `UnifyEp` | `prover::unify`, `prover::unify_ep` |
| `MkSubs`, `CaseOf` | `mksubs`, `caseof` |

`Unify` returns the answer, the destination's substitution *with what was bound
before a failure*, because `step` ignores the answer and keeps the bindings, and
whether `throw 0` was reached. Unification is asymmetric in the code (bindings
of the source's variables go to the destination too, an existing binding may be
replaced or kept, depending on the side) and in the model.

### Prover

Frames are never freed before a query ends, so a pointer is an index into the
sequence `frames`, 0 is null. `subst[i]` is what frame i's pointer `s` points to.

| action | code |
|---|---|
| `DoQuery(goal)` | `do_query` up to its loop: `kb.add(0, goal)`, the first frame, `lastp` |
| `Prune` | `step`: `if (euler_path(_p)) return _p->next` |
| `Match` | `step`: `match_heads` over the body term's conditions, one `queuepush` per match |
| `Ground` | `step`: `gnd.push_back` |
| `Ascend` | `step`: copy of `prev`, `unify`, `++term_idx`, and the recursive call |
| `Throw` | an exception leaves `do_query`; tau ends |
| `PushEv` | `pushev` for all of `gnd`, after the loop |

`rec` is the frame of the innermost recursive call; since `step` returns
`frame.next` and the recursive call's value is dropped, unwinding the recursion
does nothing but read the `next` of the frame the loop passed, after all pushes
(`Return`). The actions are one per call of `step`; the program is sequential,
so nothing can happen between the statements of one call. `mkconds` has no
state of its own in the model: it is run by every query over all rules, and a
condition never changes once worked out, so `Conds` computes it where it is used.

The level of a frame, the counters, tracing and printing are left out, and so is
`level` in `proof`, which nothing reads.

### ProverProps, Entailment, QueryAnswering

`Entailment` defines, independently of the code, the least model of a rule base
and the answers of a goal; `QueryAnswering` is the abstract specification: a
query is asked, answers that follow are found one at a time, and the query ends
when all of them have been. `ProverProps` states the properties and the
refinement (`AnswersQueries`): the answers are the goal's terms under the
substitutions of the frames in `gnd`.

### Versions, ArrayCells, PersistentArrays

A version of an array is a `parr*`: a cell that is the array or a difference
(`d.i`, `d.v`) from the cell `d.t` points to. Cells are never freed; a pointer
is an index into `heap`. The array's storage `a.a` is one block that moves from
cell to cell and is written in place; since exactly one reachable cell is not a
difference (`OneArray`), the model keeps the block in that cell as a value.

| action | code |
|---|---|
| `Get`, `Set` | entry of `get`, `set` |
| `Descend` | `reroot`: reads `i`, `v`, `tt` and calls `reroot(tt)` |
| `Ascend` | `reroot` from the return of the inner call on (`Swap`) |
| `Got`, `Written` | the rest of `get`, `set` (`Store`) |

`frames` is the stack of the invocations of `reroot` with the local copies they
hold. `contents` is a history variable, written only when a version is made and
read by no guard: what each version should hold. `Versions` is the abstract
specification, whose state `contents` is: a read returns what its version was
given. `vm/parrint.h` holds the same functions in C.

### DisjointSets, UnionFind

`UnionFind` takes a whole operation as a step (the program is sequential, and
`PersistentArrays` has the steps in between) and adds `find_aux`, `find`, `unio`
and `create`. `find_aux` compresses the path with `*f = *set(f, i, fr.r)`: the
new cell's content is copied *into* the version's own cell (`Overwrite`). The cell
`set` made for it is then reachable from nowhere and is dropped. In a union the
ranks are read, and raised if equal, before the parents are set. `h->rep = fcx.rep`
in `find` assigns `h->rep` to itself, as `find_aux` returns the `f` it was given.

The recursions of `reroot` and `find_aux` are recursive functions over the cells and
the elements. `find_aux` passes the heap from call to call: on the way up it only
calls `get` on `f`, and the first `get` has made `f` the array already, so what every
call on the way gets is the heap after that one. `ContentsOf` and `RootsOf` read what
cells stand for and where parents lead; they belong to the properties, not to the code.

`DisjointSets` is the abstract specification: a partition whose sets have leaders.
The model's clients use the version they got last, as `uftest` does: an older
version is a difference from cells that a find overwrites, so its sets may
change, and nothing is said of what it answers.

### NQuads, RuleBase, Loading, Tau

`NQuads` reads a sequence of tokens. `stack` holds the calls of `operator()` and
`readlist` that are open, with their local variables (subject, predicates, the
list's items); the position, the quads `r` and the pending cells `lists` belong
to the object and are shared by all of them, as in the code.

| action | code |
|---|---|
| `ReadPrefix`, `ReadName`, `ReadPredicate` | `readprefix`, `readany` of a name, `readprop` |
| `OpenCurly`, `ReturnFromGraph` | `readcurly`: the recursive `operator()` and what follows it |
| `OpenList`, `CloseList` | `readlist` |
| `Continue`, `EndStatement` | `,` and `;`; the end of a statement, where the cells and quads are handed over |
| `Stray`, `Overrun` | the exceptions; reading on behind the end of the text (status `overrun`) |
| `AddRule` (Loading), `AddRules`, `RulesOf` | the loop of the constructor over the default graph; `addrules` |
| `RulesBuilt` ... `Checked` | `consistency`: asks for `?t => false`, then a copy of the prover for each context found |
| `AskQuery`, `QueryAnswered` | `query` |
| `Prove`, `ProverThrew` | a step of the engine, which `Loading` instantiates |
| `LevelRefused`, `LevelTaken`, `FlagTaken` | `--level` and `process_flags` in `main` |
| `StartTest` ... `Tested` | the unit test that runs before every command |
| `StartProve`, `StartConvert`, `Helped`, `Proved` | the command table, and prove's exits |

A job whose rules have lists ends once they are built, as with
`prover(qkb, false)`; the rules are compared then. `Flat` passes the others to
the engine. `convert` ends in a state of its own here and continues in
`Conversion`.

`Documents` states, independently of the reader, what a structured document is
written as and which quads, lists and rules it stands for. `FlagsAnywhere`, in
`Tau`, says for the first half of `main` what a command line means.

### Dictionary

`pi` and `ip` are the two maps of `bidict`, from nodes to numbers and back. `heap` has the
terms that `termdb::add` has made, by address, and `p2id` the addresses of the terms of
each predicate, in which `add` looks for an equal term. `answers` is a history
variable: the address that each term asked for was given last.

| action | code |
|---|---|
| `NodeMade` | `mkiri`, `mkbnode`, `mkliteral`: `dict.set` of a node |
| `Make`, `MakeOf` | `prover::make` of a node alone and of a node with two terms made before: `dict.set`, then `_terms.add` |

Terms are made in any order and at any time, more than the code does: `quad2term`,
`list2term` and the engine make the arguments of a term right before it. A node is
numbered before it is looked up (`rdf.cpp` 52, 68, 85), so that the other
`operator[]`, which would enter an unknown node with number 0, changes nothing and
is no action. Nodes that are equal as strings are one node, as in `node::operator==`.

### Contexts, Expansion, Conversion

A name is the sequence of its parts, so that the code's search for a colon is a
look at the parts. `Contexts` translates `create_term_def` and `expand_iri` with
`defined`; `Expansion` translates `expand`, with exceptions as the result `Thrown`.
`Conversion` is the command: the terms of a context are defined one a step in
any order (`DefineTerm`; the code takes the order of the map, which is that of
the strings), the expanded document is gathered in the node map by a stack of
calls of `gen_node_map` (`Visit...`, `CloseList`), and the map is written one value
a step (`WriteValue`, `WriteList`). `LinkedData` reads the names and the quads off
the document as it stands.

### Grammars, Parsing, Natural3

`Grammars` has `Marpa::add`, which makes symbols and rules from the description of
a grammar, and, as external definitions, what libmarpa answers: which symbols
may come next and which trees the tokens have. `Parsing` is the rest of
`Marpa::parse`: white space and comments are skipped, the longest token is taken
(`TakeToken`; any of several of that length), and the valuator is stepped
(`ValueToken`, `ValueRule`, `ValueNull`), with results at numbers that are used again.
`Natural3` is the class `N3`: one statement of a file a step (`ReadStatement`), with
everything inside it, and `load_n3_cmd` with one file or two. Its input is the
parse as the queries of `N3` find it, and its items are those that the grammar of N3
(`data/n3-grammar.nq`, which `load_n3_cmd` reads) can yield: a document and a graph are
lists of statements, and a declaration is a statement that is no simple one. That
grammar is too large to be put through `Grammars` and `Parsing` with TLC, so the reader
and the parser are checked apart. A failed assertion ends the program (`aborted`), as
in the default build of the Makefile.

### DNA, Pcpp

`Pcpp` is the parser, a step per token, its recursive calls in `frames`, and then
`DNA`: for every body term the heads that may match (`trymatch`, action
`TryMatch`, one rule a step) and a `dna` for every match (`makeDNA(rules)`, action
`Make`, one match a step, in the order of the loops). A `ruleterm` is a term with
its side (`pbody`, `phead`); terms are nested here, as lists are what makes
`makeDNA` hard. `MakeDNA` threads the map through the arguments; `Root` and `Path`
are the two loops of `find_root`. The names of new variables are numbered by
`names`, which like the code's static counter is never reset. Pointers are
compared by value, hence no list occurs twice in a rule base. The properties
compare this with unification as such: `Equal` closes the equations of a match,
from which `Unifies` and the groups follow.

### Triples, Rows

`Triples` reads letter by letter as `din_t` does, with the letter it has peeked
at, and keeps `names`, `lists` and `triples` as `mkres` and `mktriple` do; an address
is a place in such a table. The names are `wstring` keys of a `map` whose vector moves
its elements with `realloc` at every fourth (`containers.h` 98-104). A name of up to
three letters lies inside its `wstring` (libstdc++), so that a moved key points at
memory that was freed: it is `Lost`, and whether `find` meets it is a choice in the model
(`Places`). That the freed memory holds some other name is left out, and so are tables
of lists and triples, whose keys are pointers and may be moved. `Steady` says
that no name is lost. `Solve` then puts resources it made to `Rows`, where
`eqs` are the rows and `Apply` is `apply` with `check`, `get` and `push`. `asked` is a history
variable: the pairs `apply` has answered true for.

### What the code does, where one might expect something else

The models follow the code in these places, and no property speaks against it:

- `nquads.cpp` 200-205: the cells of a list that is still being read are handed
  over with the first statement that ends, in a graph inside the list, and land
  in that graph; only one `@prefix` is read before an item.
- An implication to or from a graph that is not there makes an empty one. The
  files named after `prove` are ignored: both texts come from the standard input.
  `convert` without a file reads the argument behind the last one.
- `prover.cpp` 601-607: the check asks `?t => false` by unification, so what it finds may
  name no graph; `map::at` then throws. `VerdictRight` counts this as a fault of the
  rule base, which is refused or never gets to its query; `JobEnds` says only that
  the program ends.
- JSON-LD (`rdf.cpp` 175-196): the cells of a list are linked from nil, so its
  last item and its head are lost; a context with `@language` is always refused.
- In a list of contexts the first definition of a term counts, as they share
  `defined` (`jsonld.cpp` 10, 75-77); after a null a term that was defined before it
  stays undefined. A context of an object's own replaces those around it, as
  parsing starts from a fresh result (11, called at 330), so that names defined
  further out are not known in it. `LinkedData` reads documents in this way, and the
  tree has no text on it; JSON-LD itself would have the last definition count and
  the contexts add up.
- `marpa_tau.cpp`: a parser can be used once, as `precomputed` is never set.
- `marpa_tau.cpp` 873-894: a declaration of a prefix is a parse of a statement in
  the grammar of the tree, and `add_statements` takes its first branch; the one that
  keeps prefixes (878-888) is never reached, and names stay as they are written. It
  would be of no use if it were: the key would be kept with the colon of the terminal
  and is looked up without it (692-693).
- `marpa_tau.cpp` 738-761: a graph without statements has a null content and a
  property list in brackets no question, so both end in `assert(false)`. A file
  without a statement has a null tree and is refused.
- `containers.h` 98-104: see `Triples` above. With the fifth name (`?x a ?y. ?z b ?x.`)
  one of the first four may not be found again, and then a second resource is made
  for it, though the comment of `triples.h` (49) says "uniquely create resources and
  triples".
- `vm.h` 61: rows that were equated by a third resource are never merged, as the
  condition compares what the pointers' truth is; `push` (79) always puts a null
  in front, so that rows have several, although the comment (20-21) has nulls
  nowhere but in the first place.
- `triples.h`: a text that does not end in white space has its last letter twice.
- `p.cpp` 492: `br.first->p == br.first->p` compares a constant with itself; so the match
  of body `?x rel ?x` and head `a rel b` gets a dna, although the comment (480-482) has
  two different constants fail.
- `p.cpp`: bindings of `trymatch` are kept by name only (275), so that a body and a
  head that share a name in a list may lose their match.
- Rules keep their variables for good: a goal that uses a variable of a rule it
  is proved by shares its bindings, and gets answers that do not follow.
- With shared variables the conditions of `mkconds` can hide a rule that would
  unify: with `{ rel(n2,y), inv(n1,n1) } => rel(n3,n3)`, `rel(n2,n2)` and `inv(y,n1)`
  the third is skipped, as the frame has bound `y`, and `rel(n3,n3)` is not proved.
- `cfpds.cpp` 47: a find overwrites a cell that older versions are differences
  from; their clients may see other sets than before.

## 4. The runs

| run | instance | shows |
|---|---|---|
| `prover_rules` | all rule bases of at most 4 of 8 variable-free rules (cyclic, self-supporting, with facts) with 3 goals (one empty); all subsets of 3 facts with 3 derived rules whose variables are their own and 4 goals; 2 queries in a row | frames well formed, loop in order, branches no longer than the rule base, `mkconds` hides no match, proofs prove, answers follow, and the prover implements `QueryAnswering` |
| `prover_recursive` | 4 sets of facts by 5 programs (transitive, symmetric, mutually recursive, reflexive head, variable predicate), 4 goals that share the rules' variables; the rule base of `src/infloop` (symmetric and transitive together, a path of three edges) with its query | every query ends and leaves no frame untried, only a variable as a predicate throws |
| `prover_chain` (violation) | the transitive rule over three edges | `AnswersFound` fails |
| `arrays` | arrays of 2 elements of 2 values, up to 4 cells, any order of reads and writes of any version | cells stand for their versions at every step of `reroot`, every call returns, the arrays implement `Versions` |
| `union_find` | 4 elements, up to 4 versions, clients of the latest one | find and unio implement `DisjointSets`, ranks bound paths |
| `dna` | texts of flat triples over 2 constants and 3 variables against each other; of triples with lists of 2, body and head named apart; of rules of two body terms that match their own head; wrong texts | rules are read as stated, no match that unifies is lost, groups are what unification makes equal |
| `loading` | documents with every pair of 7 kinds of subject and object (lists and graphs in each other); abbreviations, labels, prefixes; rule bases with 5 sets of implications, most of them consistent with some facts and not with others, and contexts that imply false and name no graph; every torn end of two texts; options at every place of the command lines | quads, lists, rules, verdict and answers are those of the documents; options may stand anywhere; the program ends |
| `dictionary` | a name, a variable and a node known from the start; up to 4 terms of them, nested in each other in every way and order, and made again at any time | numbers tell nodes apart and variables from the rest; addresses tell terms apart, never change and lead back to the term |
| `conversion` | every context of up to 3 terms over 9 definitions by one another, with and without a vocabulary; lists of contexts that define a term twice, also with a null in between; objects with contexts of their own that use keys and names of both; objects with every pair of 12 values under 4 pairs of keys and 4 names; graphs, wrong documents | terms mean what the contexts in force say, just the wrong contexts are refused, expansion is idempotent, the quads are those of the document |
| `parsing` | 3 grammars with sequences, choices, repetitions, separated lists, literals, and all texts of up to 4 to 6 characters over them; 3 grammars that are refused | the grammar is the whole one, trees are read back |
| `natural3` | files of up to 3 statements, with declarations, graphs, lists, empty graphs and brackets in each other; pairs of files, empty ones and ones without a tree; wrong command lines | the rules and the query are those of the files, and the program stops just at an item that cannot be read |
| `rows` | 4 triples in every rule base of a rule and a fact or of two facts, with dots and without; 14 wrong texts; 4 texts whose resources are then equated in any order, with four names, five long ones and lists; texts with a short name that comes back after the table has moved | rules read as stated, a name made again only when a moved table has lost it, rows sound |

`QueueIntact` (the list of frames), `OneArray` and `NodesNumbered` are parts of the
inductive invariants below and are proved for every instance; the runs check what
they are for.

Bounds. `MaxQueries` caps the queries one prover answers; two are enough for
the second to meet what the first left in `gnd`, `e` and the rule base. The
number of frames is not bounded: every run reaches all states of its search.
Four rules over three statements are enough for two interlocking cycles with
and without facts that enter them. `MaxCells` and `MaxVersions` cap what is
allocated in the arrays and the union-find: four are enough for a chain of three
differences and for two versions that branch off one, so that `reroot` turns
round cells other versions depend on, and four elements for a path of two
steps, which is the first that find compresses. `MaxMade` (8) is more than the
resources of any text of `rows`. `MaxTerms` caps the terms kept: with four there are
terms of one predicate that differ two levels down and more, so that `equals` has
to call itself. The other runs have no counters: a document,
grammar, file or text is chosen in the initial state and worked through to its
end. Their items nest three deep, which is where a call two levels further in
returns into one that has itself been called; contexts have three terms, the
first number at which a definition can be needed while another one that needs
it is under way.

Inputs that are left out: quads with a mark where a name should be, which the code
reads as an empty name, and dots between the items of a list, which it skips;
circular pcpp rule bases (a variable that would have
to be in a list of its own: `makeDNA` does not end on all of them); bodies and
heads that share names in lists (see above) for `NoMatchLost`; texts that use
one value as a blank node and as an IRI, on which the node cache asserts; a
list as the value of a reverse property; contexts that are circular through the
whole name of a term while there is a vocabulary, which the code accepts. For
`QuadsAsSaid` of `conversion` the cells of lists are left out.

Deadlock. A prover that has answered all it may be asked or has thrown stops,
hence `CHECK_DEADLOCK FALSE` in its runs. The other systems end in a state with
a stuttering `Ended` or `Exited`, or never stop, and deadlock is checked: the
program is never stuck in the middle of a text.

Fairness: weak fairness of `Step \/ PushEv` (Prover), of `Run`, the steps of a call
that has been made (PersistentArrays), and of `TauNext` (Tau). There is one thread,
which waits for nothing: neither the loop of `do_query` nor the recursion of
`reroot` nor the reading of a text that is there can be held up. Nothing is
assumed of who asks a query or calls an array.

### What the violation says

- `prover_chain`: all uses of `{ rel(x,y), rel(y,z) } => rel(x,z)` share `x`, `y` and
  `z`. On the way from `n1` to `n4` the rule is called for `rel(n2, z)`, and the
  unification of the caller's `z` with the head's binds `z` to itself
  (`unifiers.cpp` 44). When the fact `rel(n3, n4)` is proved and handed up
  (`prover.cpp` 469), `dsub.emplace` (`unifiers.cpp` 68) keeps that binding: the copy
  has `z` bound to `z` and not to `n4`, the next copy too, and the goal
  `rel(n1, spare)` is proved with `spare` unbound. The answer `n4` is lost.
  `euler_path` has no part in it: what it prunes in this run are calls for
  `rel(x, y)` right below the same call. With an `emplace` that replaces a binding
  to a variable the run finds all three answers. The only words of the tree on
  what a query gives are the help of the command, "Answers the query."
  (`tau.cpp` 63).

`prover_rules` shows that without sharing and without recursion the prover finds
exactly what follows, and with recursion too as long as there are no variables.

## 5. The proofs

All for arbitrary rule bases, goals and `MaxQueries` that satisfy the named
assumptions of `Terms` and `Prover` (a rule base is a sequence of rules with
heads, a goal is a sequence of terms, names are not variables).

- `ProverProofs`: `UnifyType`, by cases over the unifiers: whatever is unified,
  the result is a substitution. `UnifyNamed`: terms whose predicates are names
  never throw and bind names and variables only. `ConditionMet`: if such terms
  unify and share no variable, the condition of `mkconds` is met.
  `TypeCorrect == Spec => []TypeOK`. `TypeOK` is inductive: a
  frame points to frames made before it (`creator < i`, `prev <= creator`), and
  its `prev` is not at the end of its body, so the copy made by `Ascend` is
  within bounds. `PushedShape`, `MatchTypeOK` and `AscendTypeOK` are the cases
  that change frames.
- `SearchProofs`: the inductive invariant `SearchInv` of the search. Its core is
  `FramesBorn`: every frame is one made for a goal, one made for a rule that
  matched the frame it points to, or the copy that an answer makes, and has just
  the pointers, substitution and evidence of that step. It is inductive because
  a frame only ever changes its `next`, and it turns what is to be shown about a
  search into an induction over the frames of one state, on their numbers
  (`CompleteInduction`), without further invariants. From it follow:
  - `ThrowsOnlyForPredicates == Spec => []OnlyPredicatesThrow`: with names as
    predicates all substitutions bind names and variables only (`FramesBindAtoms`).
  - `IndexHidesNone`: `IndexComplete` holds in every state in which predicates are
    names and the head that unifies has variables of its own (`HeadsApart`).
    Every state of `prover_rules` is such. The second condition is needed: see
    the example with shared variables in section 3.
  - `BranchesEnd`: if no head has a variable, then `BranchBounded`: above the
    frame stepped last, the rules are distinct, since a frame whose rule occurs
    above it with a head that unifies is never tried.
  The last part of the module is the list of frames: `QueueCorrect == Spec =>
  []QueueIntact` and `LoopInOrder == Spec => VisitsInOrder`. The inductive invariant is
  `TypeOK /\ QueueIntact`: the links can be kept only because `lastp` is the
  newest listed frame, and a copy (`Ascend`) is not listed because its creator
  is newer than its `prev`. The action property follows from the invariant
  before and after the step (`StepVisits`).
  `NoneForgotten == Spec => []AllTried` adds `TriedOrWaiting`: a frame that has not
  been tried is stepped next or is listed behind the one the loop has come to.
  This holds through the recursion because `Return` reads the `next` of the frame
  the loop passed after all pushes.
- `GroundProofs`, on rules and goals without variables, where unification is
  equality (`GroundUnify`), for rule bases with any cycles:
  - `GroundSound == Spec => []AnswersEntailed` (the property is about such rule
    bases only): an answer is in every set of terms the rules are closed under.
    By induction over the frames: the proved part of every frame's body follows
    (`PrefixesFollow`), and a frame proves the very term it was made for, which
    makes it safe that `Ascend` does not look at what `unify` answers.
  - `GroundProofsHold == Spec => [](GroundKb => ProofsHold)`: the reported proof,
    which `proof::g` collects along the creators, proves the term, although the
    `prev` pointers lead to frames it does not pass (`Chain`, `ProofsFollow`).
  - `GroundComplete == Spec => [](GroundKb => AnswersFound)`. A term that follows is
    not proved wherever it is wanted, since `euler_path` cuts repetitions off.
    `Reached(S)` says that the terms of `S` are, unless above a frame that proves a
    term of `S`. `{}` is reached, and a reached set that is not closed can be
    enlarged by the head of a rule (`ReachedGrows`); so a largest one is closed
    and contains the least model, and a goal's frame has nothing above it. The
    invariant, `CompleteInv`, adds to `NoneForgotten` and `SearchInv` that the goal
    of every query has its frame.
  - `GroundPromise`: with such inputs the prover implements `QueryAnswering`
    but for its fairness (`PromiseKept`), that is the safety part of
    `AnswersQueries`, step by step: `DoQuery` is `Ask`, `Ground` is `Answer` or a
    stutter if the same answer was there, and `PushEv` is `Finish`, which the
    argument of `GroundComplete` makes possible (`FoundAtEnd`).

  `AnswersFound` itself is what `prover_chain` refutes; `GroundComplete` says that
  bindings of shared variables are to blame and not cycles.

- `ArraysProofs`, for all `Indices`, `Values` and `MaxCells`: `ArraysType`,
  `ArraysShareOne`, `CopiesCurrent`, `VersionsHold` and the refinement
  `ArraysPersistent == Spec => Persistent`. They come from one inductive invariant,
  `IInv`: the four properties, that the stack of `reroot` starts with the call's
  version (`Called`), and that the differences form no cycle (`Ranked`: some
  function from cells to numbers falls along every difference). `Ranked` is what
  the rest needs: a cell that waits in `frames` is not met again further down, so
  that the cells `Ascend` changes are nobody else's copies. For `Swap` the new
  ranking lifts every cell and puts the new array at the bottom. `VersionsHold` is
  not stated with a recursive reading of the cells but as one equation per
  cell, which needs no induction over the heap.

- `UnionFindProofs`, for all finite `Indices` with 0 (`IndicesAssumption`: `create`
  makes elements from 0 on and the first find's answer is initially 0) and every
  `MaxVersions`: `RanksBoundAlways` and the refinement
  `FindsSetsAlways == Spec => FindsSets`. In three layers:
  - *Cells.* `Well(H, A)` says that the differences are ranked, as in `ArraysProofs`,
    and that none leads into or out of the set `A` of cells (`Split`). `RerootWell`,
    `SetWell` and `OverwriteWell` say what `reroot`, `set` and the overwriting of
    `find_aux` make of what the cells stand for. The first two change no cell;
    overwriting changes cells of `A` only. `A` is the parents' cells: since parents
    and ranks never share a cell, compressing a path cannot change a rank.
  - *Forests.* `Climbing(p, r, K)`: ranks rise from child to parent up to `K`.
    Making an element the child of its root keeps the ranks rising and all roots
    (`Compress`), and so `FindAuxWell`. Making a root of lower or equal rank the child
    of another moves just the elements below it (`Join`) and keeps 2^k elements under
    a root of rank k (`JoinWeighty`; that 2^(k+1) is no more than twice 2^k comes
    from counting subsets, since the provers know no powers).
  - *Steps.* `IInv` puts them together for the latest version. A find leaves all roots
    and answers with one (`FindStep`), a unio leaves them or puts one below another
    (`UnioStep`). `RootsUnite` turns this into the step `Unite` of `DisjointSets`.

  That the recursions end is proved, not assumed (`ContentsExist`, `RerootUnfolds`,
  `RootsExist`, `FindAuxUnfolds`). The induction needed is `MeasureInduction`: a set
  that has a member whenever it has all smaller ones. It takes a set where
  the library's theorems take an operator, which the provers cannot instantiate.

- `RowsProofs`, in two parts:
  - *Rows*, for all `Vars` and `Nonvars` and a caller that puts any equations (`Spec` of
    `Rows`): `RowsAreSound` and `RowsNeverMoved`. `check` looks only at the first element of
    a row; the inductive invariant `IInv` has what makes that enough: a row that does
    not begin with a null has no nonvar, no resource is twice in a row (`Distinct`) or
    in two (`Apart`), and all elements of a row are linked by equations. `PushedSound`
    and `NewSound` are the two ways in which a row changes; `RowFound` is that `findrow`
    finds the row of a resource whenever there is one. `IInv(R)` is for any set `R` of
    resources, as the reader's grows.
  - *The reader*, for all texts over any letters (`FilesAssumption`: a text is a sequence
    of letters, and the null is no address): `WrittenOnceAlways`, `TriplesOnceAlways`, and
    `SolvedSoundly`, that the rows stay sound when resources that were read are equated
    in any order. The first two are what "uniquely create" can mean with a table
    that loses names: `NamesApart`, that of two places of one name the earlier was lost,
    holds for every text, and is inductive because a lost place is never regained
    (`PlaceIs`); while no name is lost (`Steady`), no two addresses are written alike, and
    triples that are written alike are one. The last needs no such condition, as it
    is about addresses. In `ReadInv` every list and triple is in its table once, and a
    list is made after what is in it; so what a resource is written as (`WrittenIs`) does
    not change when more is read, and two resources written alike are the same table
    entry, by induction on the greater of the addresses (`WrittenApart`). `AtInv` is that nothing is left
    of a statement when the text is done. A step of the reader, whatever
    letters it takes and wherever it fails, keeps both (`ReadStep`).

- `TauProofs`, for every command line of any length and any words
  (`ArgsAssumption`: words are strings, and no option is a number):
  `FlagsAnywhereAlways == TauSpec => []FlagsAnywhere`. The code looks for the words by place
  while `process_flags` takes options out before and behind them. The invariant says
  that the arguments left are those of the line that are not yet taken, in their
  order: some rising function leads from the places they have to the places they
  had (`Embeds`, with `Kept`, the places kept). Taking an option out makes such a
  function from the one before (`EmbedsLess`), and there is only one sequence it can
  lead to (`EmbedsOnly`), the one `FlagsAnywhere` names. `LevelStep` and `FlagStep` are the
  actions that change the arguments; after the flags nothing does (`Untouched`).

- `DictionaryProofs`, for any nodes, variables among them that are not known from the
  start (`VarsAssumption`: no node of `bidict::init` begins with a question mark), and
  every `MaxTerms`: `NodesNumberedAlways`, `TermsInternedAlways`, `AddressesStayAlways` and
  `ReadBackAlways`. The inductive invariant: the absolute numbers of the nodes are 1 to
  the number of nodes, each once (`Numbered`); parts are made before their term and no
  two addresses have the same parts (`HeapInv`); each address is listed just under its
  predicate (`Listed`); every address is some asked-for term's, and what is there is
  its predicate and the addresses of its arguments (`Answered`); and different terms
  have different addresses. `EqualsIsSame` is the heart: `equals` compares deeply, but
  in a heap like that two terms compare equal only if they are one, by induction on
  the greater address. Hence `add` finds a term if it is there (`SameFound`).

Only model-checked:

- Liveness, which the provers cannot express: `CallsReturn`, `QueriesEnd`, `JobEnds`
  and the promise of `QueryAnswering` to end. `BranchesEnd` is the fact the ending
  of searches rests on.
- `AnswersQueries` for rules with variables of their own (the second part of
  `prover_rules`), and `IndexComplete`, `BranchBounded` and `ProofsHold` where the
  hypotheses of their theorems fail. With shared variables some are false, and
  for which rules they hold has no description simpler than the search.
- What is defined by RECURSIVE operators, which the prover cannot see into: `DNA` and
  `Pcpp`, `Contexts`, `Expansion` and `Conversion`, `Grammars`, `Parsing`, `Natural3`. Their
  properties compare what the code computes with what a text or document says,
  itself defined by recursion over it.
- `QuadsAsSaid`, `ListsWhole`, `RulesAsSaid`, `VerdictRight` and `AnswersAsSaid` of the prove
  command: `NQuads`, `RuleBase`, `Loading` and `Tau` have no such operators, but `Documents`,
  which says what is to be read, has. `ReadAsSaid` of `Triples` likewise compares with a
  description that comes with the text.

Inductions over numbers and finite sets can be proved here, in the form that takes
a set (`MeasureInduction`, `NumberInduction`, each from `WFMin`); the library's
theorems that take an operator cannot be used, and with them goes induction over
the structure of texts and documents.

## 6. Not modelled

- Builtins and list queries (`prover.cpp` 139-391, 744-850): they exist only with
  `with_marpa`, and with it `prover.cpp` does not compile (395 pushes to a type, 754
  reads a vector that nothing fills). There is no program to model. The grammar
  and the parse, which the code finds by such queries, are inputs of `Parsing` and
  `Natural3`.
- In the engine: terms within terms, the `LAMBDA` variant of the unifiers (compiled
  out), `level`, statistics and printing. A prover keeps `gnd` and `e` of earlier
  queries; this is modelled, and no property forbids it, as the command line
  makes one prover per query.
- JSON-LD: the key `@reverse` in an object (it reads a null pointer), framing
  keywords, containers of terms (the code never finds the one it stored), and
  the helpers of compaction and `toRDF`, which nothing calls.
- N3: paths, which are asserts in the code; the parsing of N3 itself with
  `data/n3-grammar.nq`, which gives the forms of the reader's input only. libmarpa is
  external.
- pcpp: the prover that its `main` has commented out, printing, and the undefined
  behaviour of its own vector (elements moved by `realloc`).
- vm: `vm/refuter.cpp`, `vm/n3.c` and `n3.cpp`, fragments that nothing calls, and
  `vm/containers.cpp`, where the arrays are commented out.
- `comp.cpp`, `cc.cpp`, `unif.cpp`, `stlc/`, `stuff/euler.cpp`: drafts that are not built or run
  a fixed example; `tools/`, `ppjson.cpp`: filters without state; `ubi/client.cpp` and
  `json_spirit.h`: third-party code.
- Everywhere: the scanning of a word's letters (except in `Triples`), output and
  its layout. Allocation never fails.
