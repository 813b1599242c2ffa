----------------------------- MODULE Expansion -----------------------------
(***************************************************************************)
(* Expansion of JSON-LD (jsonld_api::expand, context_t::expandValue): the  *)
(* names of terms in place of the terms, every value in its long form,     *)
(* every result a list.  The exception thrown stands for the result.       *)
(*                                                                         *)
(* Not here: the key @reverse (the code reads an object where expand has   *)
(* given it a list), the keywords of framing, and language tags other than *)
(* those of the document, lowercased there.                                *)
(***************************************************************************)
EXTENDS Contexts

Thrown == [is |-> "thrown"]
Scalar(v) == v.is \notin {"list", "map", "null", "thrown"}

Has(v, k) == v.is = "map" /\ Kw(k) \in DOMAIN v.at
Get(v, k) == v.at[Kw(k)]
Only(k, v) == Map(Kw(k) :> v)
AsList(v) == IF v.is = "list" THEN v.items ELSE <<v>>
AnyThrown(vs) == \E v \in vs : v.is = "thrown"

\* toString() of a string has the quotes of JSON.
Quoted(v) == IF v.is = "string" THEN <<"quote">> \o v.text \o <<"quote">> ELSE v.text

\* get_type_map, isReverseProperty: what the definition of a term says of its values.
TypeOfTerm(ctx, term) == IF term \in DOMAIN ctx.defs THEN ctx.defs[term].type ELSE None
IsReverseProperty(ctx, term) == term \in DOMAIN ctx.defs /\ ctx.defs[term].reverse

\* Where a value of a property is a name or a literal.
ExpandValue(ctx, prop, v) ==
    LET type == TypeOfTerm(ctx, prop)
    IN  IF type = Kw("@id") THEN Only("@id", Str(Lookup(ctx, Quoted(v), TRUE, FALSE)))
        ELSE IF type = Kw("@vocab") THEN Only("@id", Str(Lookup(ctx, Quoted(v), TRUE, TRUE)))
        ELSE IF type # None THEN Map(Kw("@value") :> v @@ Kw("@type") :> Str(type))
        ELSE Only("@value", v)

RECURSIVE Expand(_, _, _), ExpandMap(_, _, _)

ExpandUnder(ctx, prop, at) == IF ctx.error # "" THEN Thrown ELSE ExpandMap(ctx, prop, at)
Joined(list, more) ==
    IF AnyThrown({list, more}) THEN Thrown ELSE Lst(list.items \o more.items)
Listed(one) == IF one.is = "thrown" THEN Thrown ELSE Lst(AsList(one))

\* expand() without the last two lines, which make a list of the result.
ExpandOne(ctx, prop, v) ==
    IF v.is = "null" THEN Lst(<<>>)
    ELSE IF Scalar(v)
         THEN IF prop \in {None, Kw("@graph")} THEN Lst(<<>>) ELSE ExpandValue(ctx, prop, v)
    ELSE IF v.is = "list"
         THEN FoldLeft(LAMBDA list, item : Joined(list, Expand(ctx, prop, item)),
                       Lst(<<>>), v.items)
    ELSE ExpandUnder(IF Has(v, "@context") THEN ParseContext(Get(v, "@context")) ELSE ctx,
                     prop, Restrict(v.at, DOMAIN v.at \ {Kw("@context")}))

Expand(ctx, prop, v) == Listed(ExpandOne(ctx, prop, v))

ListOfNoLists(list) ==
    IF list.is = "thrown" \/ \E i \in ToSet(AsList(list)) : Has(i, "@list") THEN Thrown ELSE list

\* The value of a keyword of an object.
KeywordValue(ctx, prop, k, v) ==
    CASE k = Kw("@id") ->
            IF v.is = "string" THEN Str(Lookup(ctx, v.text, TRUE, FALSE)) ELSE Thrown
      [] k = Kw("@type") ->
            IF v.is = "string" THEN Str(Lookup(ctx, v.text, TRUE, TRUE))
            ELSE IF v.is = "list" /\ \A t \in ToSet(v.items) : t.is = "string"
                 THEN Lst([i \in DOMAIN v.items |-> Str(Lookup(ctx, v.items[i].text, TRUE, TRUE))])
            ELSE IF v.is = "map" /\ DOMAIN v.at = {} THEN v
            ELSE Thrown
      [] k = Kw("@graph") -> Expand(ctx, k, v)
      [] k = Kw("@value") -> IF v.is \in {"map", "list"} THEN Thrown ELSE v
      [] k \in {Kw("@language"), Kw("@index")} -> IF v.is = "string" THEN v ELSE Thrown
      [] k = Kw("@set") -> Expand(ctx, prop, v)
      [] k = Kw("@list") -> ListOfNoLists(Expand(ctx, prop, v))

\* Objects that say nothing where nothing refers to them.
DroppedAtTop(prop, m) ==   \* Altered: only where no @graph is around them
    /\ prop = None
    /\ DOMAIN m.at \in {{}, {Kw("@id")}} \/ Has(m, "@value") \/ Has(m, "@list")
Dropped(prop, m) ==
    /\ prop \in {None, Kw("@graph")}
    /\ DOMAIN m.at \in {{}, {Kw("@id")}} \/ Has(m, "@value") \/ Has(m, "@list")

\* What expand() checks of the object it has built, and how it is simplified.
ValueObject(m, value) ==
    IF \/ DOMAIN m.at \ {Kw("@value"), Kw("@index"), Kw("@language"), Kw("@type")} # {}
       \/ Has(m, "@language") /\ (Has(m, "@type") \/ value.is \notin {"string", "null"})
    THEN Thrown
    ELSE IF value.is = "null" THEN Null
    ELSE IF Has(m, "@type") /\ ( \/ Get(m, "@type").is # "string"
                                \/ IsBnode(Get(m, "@type").text)
                                \/ ~HasColon(Get(m, "@type").text))
         THEN Thrown ELSE m
Simplified(m) ==
    IF Has(m, "@value") THEN ValueObject(m, Get(m, "@value"))
    ELSE IF Has(m, "@type") THEN Map([m.at EXCEPT ![Kw("@type")] = Lst(AsList(@))])
    ELSE IF Has(m, "@set") \/ Has(m, "@list")
         THEN IF Cardinality(DOMAIN m.at) > (IF Has(m, "@index") THEN 2 ELSE 1) THEN Thrown
              ELSE IF Has(m, "@set") THEN Get(m, "@set") ELSE m
    ELSE m
Finish(prop, m) ==
    IF m.is = "map" /\ (DOMAIN m.at = {Kw("@language")} \/ Dropped(prop, m)) THEN Null ELSE m

\* One key of an object: its value joins the others of the same name.
AddTo(at, name, list) ==
    With(at, name, Lst((IF name \in DOMAIN at THEN at[name].items ELSE <<>>) \o list.items))

AddKey(ctx, prop, key, name, value, result) ==
    IF result.is = "thrown" THEN Thrown
    ELSE IF ~Keyword(name) /\ ~IsAbsIri(name) THEN result
    ELSE IF Keyword(name) /\ name \in DOMAIN result.at THEN Thrown
    ELSE IF name = Kw("@list") /\ prop = Kw("@graph") THEN result
    ELSE IF value.is = "thrown" THEN Thrown
    ELSE IF Keyword(name) THEN Map(With(result.at, name, value))
    ELSE IF IsReverseProperty(ctx, key)
         THEN Map(With(result.at, Kw("@reverse"),
                       Map(AddTo(IF Has(result, "@reverse") THEN Get(result, "@reverse").at ELSE NoMap,
                                 name, value))))
    ELSE Map(AddTo(result.at, name, value))

ValueOf(ctx, prop, key, name, v) ==
    IF Keyword(name) THEN KeywordValue(ctx, prop, name, v) ELSE Expand(ctx, key, v)
ExpandKey(ctx, prop, key, name, v, result) ==
    AddKey(ctx, prop, key, name, ValueOf(ctx, prop, key, name, v), result)

Unwrapped(done) ==
    IF done.is = "null" THEN Lst(<<>>)
    ELSE IF Has(done, "@graph") /\ Cardinality(DOMAIN done.at) = 1 THEN Get(done, "@graph")
    ELSE done
ExpandMap(ctx, prop, at) ==
    Unwrapped(Finish(prop, Simplified(
        FoldSet(LAMBDA key, m : ExpandKey(ctx, prop, key, Lookup(ctx, key, TRUE, TRUE), at[key], m),
                Map(NoMap), DOMAIN at))))
=============================================================================
