-------------------------------- MODULE Pcpp --------------------------------
(***************************************************************************)
(* pcpp (p.cpp) from its input to the dna of its matches: readterms and    *)
(* nqparser read a text into the rule base that DNA indexes.               *)
(*                                                                         *)
(* A text is a sequence of tokens: a name or a variable, or a mark.  The   *)
(* parser calls itself for what stands in braces or parentheses; a frame   *)
(* is such a call and the variables it has.                                *)
(***************************************************************************)
EXTENDS DNA

CONSTANTS Files   \* the inputs: each a text's lines and, in a sequence, the
                  \* rule base it says, if it says one

Marks == {"{", "}", "(", ")", ",", ";", "."}

VARIABLES
    text,     \* the tokens still to be read
    frames,   \* the parser's calls, the outermost first
    reader,   \* "reading", "done" or "failed"
    said      \* the rule base the text says, if it does (history)

readVars == <<text, frames, reader, said>>
pcppVars == <<vars, readVars>>

\* The lines up to the one that says fin, without the comments.
TextOf(lines) ==
    LET fins == {n \in DOMAIN lines : lines[n] = <<"fin", ".">>}
        last == IF fins = {} THEN Len(lines) ELSE (CHOOSE n \in fins : \A k \in fins : n <= k) - 1
    IN  FlattenSeq([n \in 1..last |-> IF Head(lines[n]) = "#" THEN <<>> ELSE lines[n]])

Document == [at |-> "subject", subject |-> <<>>, subjs |-> <<>>,
             preds |-> <<>>, objs |-> <<>>, heads |-> <<>>]
Items == [Document EXCEPT !.at = "item"]

ReadInit ==
    /\ \E file \in Files :
          /\ text = TextOf(file.lines)
          /\ said = file.says
    /\ frames = <<Document>>
    /\ reader = "reading"
    /\ kb = <<>> /\ tried = 0 /\ todo = {} /\ names = 0
    /\ dna = [m \in {} |-> {}]

---------------------------------------------------------------------------

Top == Last(frames)
Reading(at) == reader = "reading" /\ Top.at \in at
Sees(S) == text # <<>> /\ Head(text) \in S
SeesWord == text # <<>> /\ Head(text) \notin Marks
Heads(rules) == [n \in DOMAIN rules |-> rules[n].head]

\* A term has been read for a frame.
WithTerm(frame, t) ==
    CASE frame.at = "subject" -> [frame EXCEPT !.subject = <<t>>, !.at = "predicate"]
      [] frame.at = "object" -> [frame EXCEPT !.preds[Len(frame.preds)].objs = Append(@, t),
                                              !.at = "after"]
      [] frame.at \in {"item", "next"} -> [frame EXCEPT !.objs = Append(@, t), !.at = "next"]

\* What stands in braces has been read for a frame: there a predicate's objects
\* are replaced, and so are the heads that the statement's body will get.
WithRules(frame, rules) ==
    IF frame.at = "subject" THEN [frame EXCEPT !.subjs = rules, !.at = "predicate"]
    ELSE [frame EXCEPT !.preds[Len(frame.preds)].objs = Heads(rules), !.objs = rules,
                       !.at = "after"]

\* Mutant of Stated: a predicate gives a fact for its last object only.
StatedLast(frame) ==
    IF frame.subject = <<>>
    THEN [n \in DOMAIN frame.objs |-> [frame.objs[n] EXCEPT !.body = @ \o Heads(frame.subjs)]]
    ELSE [k \in DOMAIN frame.preds |->
             [head |-> [p |-> frame.preds[k].p,
                        args |-> <<frame.subject[1], Last(frame.preds[k].objs)>>],
              body |-> <<>>]]

\* The facts or the rules of a statement.
Stated(frame) ==
    IF frame.subject = <<>>
    THEN [n \in DOMAIN frame.objs |-> [frame.objs[n] EXCEPT !.body = @ \o Heads(frame.subjs)]]
    ELSE FlattenSeq([k \in DOMAIN frame.preds |->
             LET objs == frame.preds[k].objs
             IN  [n \in DOMAIN objs |->
                     [head |-> [p |-> frame.preds[k].p,
                                args |-> <<frame.subject[1], objs[n]>>],
                      body |-> <<>>]]])

\* The end of a statement.
Stand(frame) == [Document EXCEPT !.heads = frame.heads \o Stated(frame)]

Step(frame) ==
    /\ frames' = Append(Front(frames), frame)
    /\ UNCHANGED <<vars, reader, said>>

---------------------------------------------------------------------------
(* readany, readcurly and readlist.                                        *)

Word ==
    /\ Reading({"subject", "object", "item", "next"}) /\ SeesWord
    /\ text' = Tail(text)
    /\ Step(WithTerm(Top, Atom(Head(text))))

\* Braces with nothing in them have no call of their own.
EmptyCurly ==
    /\ Reading({"subject", "object"}) /\ Sees({"{"}) /\ text[2] = "}"
    /\ text' = Tail(Tail(text))
    /\ Step(WithRules(Top, <<>>))

Open ==
    /\ \/ Reading({"subject", "object"}) /\ Sees({"{"}) /\ text[2] # "}"
       \/ Reading({"subject", "object", "item", "next"}) /\ Sees({"("})
    /\ text' = Tail(text)
    /\ frames' = Append(frames, IF Head(text) = "{" THEN Document ELSE Items)
    /\ UNCHANGED <<vars, reader, said>>

\* A dot after an item is skipped.
ItemDot ==
    /\ Reading({"next"}) /\ Sees({"."})
    /\ text' = Tail(text)
    /\ Step([Top EXCEPT !.at = "item"])

CloseList ==
    /\ Reading({"item", "next"}) /\ Sees({")"})
    /\ text' = Tail(text)
    /\ frames' = LET under == Front(frames)
                 IN  Append(Front(under), WithTerm(Last(under), List(Top.objs)))
    /\ UNCHANGED <<vars, reader, said>>

---------------------------------------------------------------------------
(* The loops of a statement.                                               *)

Semicolon ==
    /\ Reading({"predicate"}) /\ Sees({";"})
    /\ text' = Tail(text)
    /\ UNCHANGED <<vars, frames, reader, said>>

Predicate ==
    /\ Reading({"predicate"}) /\ SeesWord
    /\ text' = Tail(text)
    /\ Step([Top EXCEPT !.preds = Append(@, [p |-> Head(text), objs |-> <<>>]), !.at = "object"])

Comma ==
    /\ Reading({"object"}) /\ Sees({","})
    /\ text' = Tail(text)
    /\ UNCHANGED <<vars, frames, reader, said>>

\* Another object, another predicate, or neither.
AfterObject ==
    /\ Reading({"after"})
    /\ Step([Top EXCEPT !.at = IF Sees({","}) THEN "object"
                               ELSE IF Sees({";"}) THEN "predicate" ELSE "graph"])
    /\ UNCHANGED text

\* A dot or a brace ends the predicates, and the objects.
EndLoops ==
    /\ Reading({"predicate", "object"}) /\ Sees({".", "}"})
    /\ Step([Top EXCEPT !.at = "graph"])
    /\ UNCHANGED text

\* The name of a graph is read, and no more.
Graph ==
    /\ Reading({"graph"}) /\ SeesWord
    /\ text' = Tail(text)
    /\ Step([Top EXCEPT !.at = "dots"])

Dots ==
    /\ Reading({"graph", "dots"}) /\ Sees({"."})
    /\ text' = Tail(text)
    /\ Step([Top EXCEPT !.at = "dots"])

\* A brace, or the end of the text, ends the call with the statement, and ends
\* the parser when no other call is under way.
Returned(heads) ==
    IF Len(frames) = 1
    THEN /\ reader' = "done" /\ kb' = heads
         /\ UNCHANGED <<tried, todo, dna, names, frames, said>>
    ELSE /\ frames' = LET under == Front(frames)
                      IN  Append(Front(under), WithRules(Last(under), heads))
         /\ UNCHANGED <<vars, reader, said>>

EndStatement ==
    /\ Reading({"graph", "dots"}) /\ ~Sees({".", ")"}) /\ (Top.at = "graph" => ~SeesWord)
    /\ IF Sees({"}"})
       THEN text' = Tail(text) /\ Returned(Stand(Top).heads)
       ELSE /\ UNCHANGED text
            /\ Step(Stand(Top))

EndDocument ==
    /\ Reading({"subject"}) /\ text = <<>>
    /\ UNCHANGED text
    /\ Returned(Top.heads)

\* Any other mark is taken for an empty name, which the dictionary refuses, or
\* is refused by the parser itself.
Refused ==
    [subject |-> {"}", ")", ",", ";", "."}, predicate |-> {"{", ")", ","},
     object |-> {")", ";"}, item |-> {"{", "}", ",", ";", "."}, next |-> {"{", "}", ",", ";"},
     after |-> {}, graph |-> {"{", ")"}, dots |-> {")"}]

Refuse ==
    /\ reader = "reading" /\ Sees(Refused[Top.at])
    /\ reader' = "failed"
    /\ UNCHANGED <<vars, text, frames, said>>

---------------------------------------------------------------------------

Read ==
    \/ Word \/ EmptyCurly \/ Open \/ ItemDot \/ CloseList
    \/ Semicolon \/ Predicate \/ Comma \/ AfterObject \/ EndLoops
    \/ Graph \/ Dots \/ EndStatement \/ EndDocument \/ Refuse

\* main: once the text is read its rules are indexed.
Index == reader = "done" /\ Next /\ UNCHANGED readVars

Ended ==
    /\ reader = "failed" \/ (reader = "done" /\ tried = Len(kb) /\ todo = {})
    /\ UNCHANGED pcppVars

PcppNext == Read \/ Index \/ Ended

PcppSpec == ReadInit /\ [][PcppNext]_pcppVars

---------------------------------------------------------------------------

\* A text that says a rule base is read as just that: each rule once, in the
\* text's order, with its own body and no other's.  A text is refused when it
\* says none.
ReadRight ==
    /\ reader = "done" => said = <<kb>>
    /\ reader = "failed" => said = <<>>
=============================================================================
