------------------------------ MODULE Contexts ------------------------------
(***************************************************************************)
(* The contexts of JSON-LD documents (context_t in jsonld.cpp): what a     *)
(* document calls a thing, a term, and the name it stands for.  A term is  *)
(* defined by another name, which may use terms in turn: defining a term   *)
(* defines those first, and `defined' is false meanwhile.                  *)
(*                                                                         *)
(* A name is the sequence of its parts, ":" one of them: what the code     *)
(* finds out by searching a string for a colon and cutting it there.       *)
(* A JSON value is a record with what it `is'.  The contexts have no null  *)
(* (the code dereferences it) and no @container (the code never finds the  *)
(* one it stored).                                                         *)
(***************************************************************************)
EXTENDS Integers, Sequences, SequencesExt, FiniteSets, FiniteSetsExt, Functions, TLC

CONSTANTS
    Base,        \* opts.base: the name of the file
    VarParts,    \* the parts that begin with a question mark
    SlashParts   \* the parts that begin with two slashes

None == <<>>

Str(n) == [is |-> "string", text |-> n]
Lst(items) == [is |-> "list", items |-> items]
Map(at) == [is |-> "map", at |-> at]
Null == [is |-> "null"]

Kw(k) == <<k>>
Keywords == {Kw(k) : k \in {"@base", "@context", "@container", "@default", "@embed",
    "@explicit", "@graph", "@id", "@index", "@language", "@list", "@omitDefault",
    "@reverse", "@preserve", "@set", "@type", "@value", "@vocab"}}

Keyword(n) == n \in Keywords
Variable(n) == n # None /\ Head(n) \in VarParts
HasColon(n) == Contains(n, ":")
IsAbsIri(n) == HasColon(n) \/ Variable(n)
IsRelIri(n) == ~Keyword(n) /\ ~IsAbsIri(n)
IsBnode(n) == Len(n) > 1 /\ n[1] = "_" /\ n[2] = ":"

Prefix(n) == SubSeq(n, 1, SelectInSeq(n, LAMBDA part : part = ":") - 1)
Suffix(n) == SubSeq(n, SelectInSeq(n, LAMBDA part : part = ":") + 1, Len(n))
\* _:label and scheme://...: the part before the colon is no prefix.
WholeName(n) == Prefix(n) = <<"_">> \/ (Suffix(n) # None /\ Head(Suffix(n)) \in SlashParts)

---------------------------------------------------------------------------
(* A context being parsed: the definitions, which terms are defined, the   *)
(* base, the vocabulary and the exception thrown.                          *)

NoMap == [k \in {} |-> None]
NewContext == [defs |-> NoMap, defined |-> NoMap, base |-> Base, vocab |-> None, error |-> ""]

Throw(st, what) == [st EXCEPT !.error = what]
\* The members of a set in some order, always the same.
InOrder(S) == FoldSet(LAMBDA x, s : Append(s, x), <<>>, S)
With(f, k, v) == k :> v @@ f

\* expand_iri once the terms it needs are defined.
Lookup(st, n, relative, vocab) ==
    IF Keyword(n) \/ Variable(n) THEN n
    ELSE IF vocab /\ n \in DOMAIN st.defs THEN st.defs[n].id
    ELSE IF HasColon(n)
         THEN IF ~WholeName(n) /\ Prefix(n) \in DOMAIN st.defs
              THEN st.defs[Prefix(n)].id \o Suffix(n) ELSE n
    ELSE IF vocab /\ st.vocab # None THEN st.vocab \o n
    ELSE IF relative THEN st.base \o n
    ELSE n

RECURSIVE CreateTermDef(_, _, _)

\* expand_iri(n, false, true, ...) within create_term_def: defines the terms n
\* uses first.
DefineWhole(c, n, st) ==   \* Altered: a prefix is not defined first
    LET whole == IF n \in DOMAIN c /\ n \notin DOMAIN st.defined
                 THEN CreateTermDef(c, n, st) ELSE st
    IN  IF Keyword(n) \/ Variable(n) THEN st
        ELSE IF whole.error # "" \/ n \in DOMAIN whole.defs \/ HasColon(n) THEN whole
        ELSE IF whole.vocab = None THEN Throw(whole, "IRI mapping") ELSE whole
DefineUnstarted(c, n, st) ==   \* Altered: a prefix being defined is not taken up again
    LET whole == IF n \in DOMAIN c /\ n \notin DOMAIN st.defined
                 THEN CreateTermDef(c, n, st) ELSE st
    IN  IF Keyword(n) \/ Variable(n) THEN st
        ELSE IF whole.error # "" \/ n \in DOMAIN whole.defs THEN whole
        ELSE IF HasColon(n)
             THEN IF /\ ~WholeName(n)
                     /\ Prefix(n) \in DOMAIN c
                     /\ Prefix(n) \notin DOMAIN whole.defined
                  THEN CreateTermDef(c, Prefix(n), whole) ELSE whole
        ELSE IF whole.vocab = None THEN Throw(whole, "IRI mapping") ELSE whole
Define(c, n, st) ==
    LET whole == IF n \in DOMAIN c /\ n \notin DOMAIN st.defined
                 THEN CreateTermDef(c, n, st) ELSE st
    IN  IF Keyword(n) \/ Variable(n) THEN st
        ELSE IF whole.error # "" \/ n \in DOMAIN whole.defs THEN whole
        ELSE IF HasColon(n)
             THEN IF /\ ~WholeName(n)
                     /\ Prefix(n) \in DOMAIN c
                     /\ Prefix(n) \notin DOMAIN whole.defined \/ ~whole.defined[Prefix(n)]
                  THEN CreateTermDef(c, Prefix(n), whole) ELSE whole
        ELSE IF whole.vocab = None THEN Throw(whole, "IRI mapping") ELSE whole

Defined(st, term, def) ==
    [st EXCEPT !.defs = With(@, term, def), !.defined = With(@, term, TRUE)]

\* What a term stands for: the name in @id, or the term itself taken apart.
CreateFromId(c, term, value, type, st) ==
    LET id == IF Kw("@id") \in DOMAIN value THEN value[Kw("@id")].text ELSE term
        s == IF id # term THEN Define(c, id, st)
             ELSE IF HasColon(term) /\ Prefix(term) \in DOMAIN c
                  THEN CreateTermDef(c, Prefix(term), st) ELSE st
        name == IF id # term THEN Lookup(s, id, FALSE, TRUE)
                ELSE IF HasColon(term)
                     THEN IF Prefix(term) \in DOMAIN s.defs
                          THEN s.defs[Prefix(term)].id \o Suffix(term) ELSE term
                ELSE s.vocab \o term
    IN  IF s.error # "" THEN s
        ELSE IF \/ id = term /\ ~HasColon(term) /\ s.vocab = None
                \/ id # term /\ (~(Keyword(name) \/ IsAbsIri(name)) \/ name = Kw("@context"))
             THEN Throw(s, "IRI mapping")
        ELSE IF Kw("@language") \in DOMAIN value THEN Throw(s, "out_of_range")
        ELSE Defined(s, term, [id |-> name, type |-> type, reverse |-> FALSE])

CreateReverse(c, term, value, type, st) ==
    LET s == Define(c, value[Kw("@reverse")].text, st)
        name == Lookup(s, value[Kw("@reverse")].text, FALSE, TRUE)
    IN  IF Kw("@id") \in DOMAIN value THEN Throw(st, "reverse property")
        ELSE IF s.error # "" THEN s
        ELSE IF ~IsAbsIri(name) THEN Throw(s, "IRI mapping")
        ELSE Defined(s, term, [id |-> name, type |-> type, reverse |-> TRUE])

CreateTermDef(c, term, st) ==
    LET started == [st EXCEPT !.defined = With(@, term, FALSE),
                              !.defs = Restrict(@, DOMAIN @ \ {term})]
        value == IF c[term].is = "map" THEN c[term].at ELSE (Kw("@id") :> c[term])
        typed == IF Kw("@type") \in DOMAIN value
                 THEN Define(c, value[Kw("@type")].text, started) ELSE started
        type == IF Kw("@type") \in DOMAIN value
                THEN Lookup(typed, value[Kw("@type")].text, FALSE, TRUE) ELSE None
    IN  IF st.error # "" THEN st
        ELSE IF term \in DOMAIN st.defined
             THEN IF st.defined[term] THEN st ELSE Throw(st, "cyclic")
        ELSE IF Keyword(term) THEN Throw(started, "keyword redefinition")
        ELSE IF typed.error # "" THEN typed
        ELSE IF type \notin {None, Kw("@id"), Kw("@vocab")} /\ ~IsAbsIri(type)
             THEN Throw(typed, "type mapping")
        ELSE IF Kw("@reverse") \in DOMAIN value
             THEN CreateReverse(c, term, value, type, typed)
        ELSE CreateFromId(c, term, value, type, typed)

---------------------------------------------------------------------------
(* parse: the contexts of a list one after the other, with one `defined'   *)
(* for all of them.                                                        *)

TermsOf(c) == DOMAIN c \ {Kw("@base"), Kw("@vocab"), Kw("@language")}
ContextsOf(local) == IF local.is = "list" THEN local.items ELSE <<local>>

\* What is not a term: base, vocabulary and language.  getlang() asks a map
\* for @language that does not have it yet.
Settings(st, local) ==
    CASE local.is = "null" -> [NewContext EXCEPT !.defined = st.defined]
      [] local.is = "string" -> Throw(st, "remote context")
      [] local.is = "list" -> Throw(st, "local context")
      [] local.is = "map" ->
            LET c == local.at
                base == IF Kw("@base") \in DOMAIN c THEN c[Kw("@base")].text ELSE st.base
                vocab == IF Kw("@vocab") \in DOMAIN c THEN c[Kw("@vocab")].text ELSE st.vocab
            IN  IF ~IsAbsIri(base) /\ ~IsAbsIri(st.base) THEN Throw(st, "base IRI")
                ELSE IF vocab # None /\ ~IsAbsIri(vocab) THEN Throw(st, "vocab mapping")
                ELSE IF Kw("@language") \in DOMAIN c THEN Throw(st, "out_of_range")
                ELSE [st EXCEPT !.base = IF IsAbsIri(base) THEN base ELSE @ \o base,
                                !.vocab = vocab]

ParseContext(local) ==
    FoldLeft(LAMBDA st, one :
                IF st.error # "" THEN st
                ELSE LET s == Settings(st, one)
                     IN  IF one.is # "map" \/ s.error # "" THEN s
                         ELSE FoldLeft(LAMBDA t, term : CreateTermDef(one.at, term, t),
                                       s, InOrder(TermsOf(one.at))),
             NewContext, ContextsOf(local))
=============================================================================
