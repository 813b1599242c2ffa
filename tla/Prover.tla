------------------------------ MODULE Prover ------------------------------
(***************************************************************************)
(* The backward-chaining prover of tau (prover.h, prover.cpp): do_query    *)
(* adds the goal to the rule base as a rule without a head, makes a proof  *)
(* frame of it and steps through a linked list of frames until the list    *)
(* ends, then evaluates the goal under every substitution it found.        *)
(*                                                                         *)
(* A frame says how far the body of one rule has been proved and under     *)
(* which substitution.  Frames point to the frame whose body term they     *)
(* are to prove (prev), to the frame that made them (creator) and to the   *)
(* next frame of the list (next); a pointer is an index into `frames`,     *)
(* 0 is null.  A frame whose body is proved is answered by a copy of its   *)
(* prev, one body term further, which is not put on the list but stepped   *)
(* at once, by a recursive call of step.                                   *)
(***************************************************************************)
EXTENDS Terms, FiniteSets

CONSTANTS KBs,         \* the rule bases the prover may be built with
          Goals,       \* the goals that may be queried
          MaxQueries   \* bound: how many queries one prover answers

Rules == [head : Terms \cup {NIL}, body : Seq(Terms)]

ASSUME KBsAreRuleBases ==
    \A rules \in KBs : rules \in Seq(Rules) /\ \A r \in DOMAIN rules : rules[r].head # NIL
ASSUME GoalsAreBodies == Goals \subseteq Seq(Terms)
ASSUME MaxQueriesIsNat == MaxQueries \in Nat

VARIABLES
    kb,      \* ruleset: heads and bodies; the goals of all queries are in it
    frames,  \* the proof frames made so far
    subst,   \* subst[i]: what the pointer s of frame i points to
    lastp,   \* the last frame of the list
    cur,     \* the frame of the list that do_query's loop passes to step
    rec,     \* the copy the recursive step works on, 0 outside a recursion
    gnd,     \* frames of goals proved, of all queries
    e,       \* evidence: the terms proved, each with the frame its proof ends in
    status   \* what do_query is at

vars == <<kb, frames, subst, lastp, cur, rec, gnd, e, status>>

Null == 0
Status == {"idle", "stepping", "reporting", "threw"}

---------------------------------------------------------------------------
(* Frames.                                                                 *)

Frame(rule, idx, prev, creator) ==
    [rule |-> rule, idx |-> idx, prev |-> prev, creator |-> creator, next |-> Null]

BodyOf(i) == kb[frames[i].rule].body
HeadOf(i) == kb[frames[i].rule].head
\* Altered IsDone: without the last body term.
IsDoneEarly(i) == frames[i].idx + 1 >= Len(BodyOf(i))

IsDone(i) == frames[i].idx = Len(BodyOf(i))
Wanted(i) == BodyOf(i)[frames[i].idx + 1]

\* The frame step works on: the recursion's, if there is one.
Top == IF rec # Null THEN rec ELSE cur

\* The prev pointers from frame i to the goal.
Path(i) ==
    LET up[j \in 0..Len(frames)] ==
            IF j = Null THEN {} ELSE {j} \cup up[frames[j].prev]
    IN  up[i]
Ancestors(i) == Path(i) \ {i}

---------------------------------------------------------------------------
(* The rule base.                                                          *)

\* mkconds: the rules that may prove term t, each with its condition.
Conds(t) == {h \in DOMAIN kb : MkSubs(t, kb[h].head).ok}

\* match_heads: the rules whose condition agrees with the frame's
\* substitution, and among them those whose head unifies with the term.
Candidates(i) ==
    {h \in Conds(Wanted(i)) : CaseOf(MkSubs(Wanted(i), kb[h].head).sub, subst[i])}

\* Altered Attempt: without the frame's substitution.
AttemptUnbound(i, h) ==
    Unify(Wanted(i), NoSubs, kb[h].head, NoSubs)

Attempt(i, h) == Unify(Wanted(i), subst[i], kb[h].head, NoSubs)
Matches(i) == {h \in Candidates(i) : Attempt(i, h).ok}

\* A set of numbers, as the sequence a loop over a std::map visits.
Rank(S, h) == Cardinality({x \in S : x <= h})
InOrder(S) == [k \in 1..Cardinality(S) |-> CHOOSE h \in S : Rank(S, h) = k]

\* Altered EulerPath: looks at the frame just above only.
EulerParentOnly(i) ==
    /\ HeadOf(i) # NIL
    /\ \E a \in {frames[i].prev} \ {Null} :
        /\ frames[a].rule = frames[i].rule
        /\ UnifyEp(HeadOf(a), subst[a], HeadOf(i), subst[i])

\* euler_path: a frame above proves the same rule for a head that unifies.
EulerPath(i) ==
    /\ HeadOf(i) # NIL
    /\ \E a \in Ancestors(i) :
        /\ frames[a].rule = frames[i].rule
        /\ UnifyEp(HeadOf(a), subst[a], HeadOf(i), subst[i])

---------------------------------------------------------------------------
(* do_query: the goal becomes a rule, its frame the list.                  *)

Init ==
    /\ kb \in KBs
    /\ frames = <<>>
    /\ subst = <<>>
    /\ lastp = Null
    /\ cur = Null
    /\ rec = Null
    /\ gnd = {}
    /\ e = {}
    /\ status = "idle"

Queries == {r \in DOMAIN kb : kb[r].head = NIL}

DoQuery(goal) ==
    /\ status = "idle"
    /\ Cardinality(Queries) < MaxQueries
    /\ kb' = Append(kb, [head |-> NIL, body |-> goal])
    /\ frames' = Append(frames, Frame(Len(kb) + 1, 0, Null, Null))
    /\ subst' = Append(subst, NoSubs)
    /\ cur' = Len(frames) + 1
    /\ lastp' = Len(frames) + 1
    /\ status' = "stepping"
    /\ UNCHANGED <<rec, gnd, e>>

---------------------------------------------------------------------------
(* step, on the frame Top.  Return ends the call do_query made: the loop   *)
(* goes on with the next of the frame it passed, read after the step's     *)
(* pushes; what recursive calls return is dropped.                         *)

\* Altered Return: passes on what the recursion returns.
ReturnOfRecursion ==
    /\ rec' = Null
    /\ cur' = frames'[Top].next
    /\ status' = IF cur' = Null THEN "reporting" ELSE "stepping"

Return ==
    /\ rec' = Null
    /\ cur' = frames'[cur].next
    /\ status' = IF cur' = Null THEN "reporting" ELSE "stepping"

\* Altered Prune: step returns the frame itself.
PruneRetried ==
    /\ status = "stepping"
    /\ EulerPath(Top)
    /\ UNCHANGED vars

\* The frame repeats one above it: nothing is tried.
Prune ==
    /\ status = "stepping"
    /\ EulerPath(Top)
    /\ UNCHANGED <<kb, frames, subst, lastp, gnd, e>>
    /\ Return

\* Altered Pushed: linked after the frame stepped.
PushedAfterTop(kids) ==
    LET n == Len(frames)
        m == n + Len(kids)
    IN  [i \in 1..m |->
            IF i > n
            THEN [Frame(kids[i - n], 0, Top, Top) EXCEPT
                    !.next = IF i < m THEN i + 1 ELSE Null]
            ELSE IF i = Top /\ n < m
            THEN [frames[i] EXCEPT !.next = n + 1]
            ELSE frames[i]]

\* The links of the list after the frames of the rules `kids` were pushed.
Pushed(kids) ==
    LET n == Len(frames)
        m == n + Len(kids)
    IN  [i \in 1..m |->
            IF i > n
            THEN [Frame(kids[i - n], 0, Top, Top) EXCEPT
                    !.next = IF i < m THEN i + 1 ELSE Null]
            ELSE IF i = lastp /\ n < m
            THEN [frames[i] EXCEPT !.next = n + 1]
            ELSE frames[i]]

\* The body is not proved: a frame is pushed for every matching rule, in the
\* order of the rules.
Match ==
    /\ status = "stepping"
    /\ ~EulerPath(Top)
    /\ ~IsDone(Top)
    /\ \A h \in Candidates(Top) : ~Attempt(Top, h).threw
    /\ \E kids \in {InOrder(Matches(Top))} :
        /\ frames' = Pushed(kids)
        /\ subst' = subst \o [k \in DOMAIN kids |-> Attempt(Top, kids[k]).sub]
        /\ lastp' = IF kids = <<>> THEN lastp ELSE Len(frames')
        /\ Return
        /\ UNCHANGED <<kb, gnd, e>>

\* The goal itself is proved.
Ground ==
    /\ status = "stepping"
    /\ ~EulerPath(Top)
    /\ IsDone(Top)
    /\ frames[Top].prev = Null
    /\ gnd' = gnd \cup {Top}
    /\ UNCHANGED <<kb, frames, subst, lastp, e>>
    /\ Return

\* The frame's head, unified with the body term of prev it was to prove.  The
\* answer is not looked at, only what was bound.
Proved(i) ==
    LET p == frames[i].prev
    IN  Unify(HeadOf(i), subst[i], Wanted(p), subst[p])

\* Altered Ascend: the copy is to prove a term of prev itself.
AscendBelow ==
    LET p == frames[frames[Top].prev]
    IN  /\ status = "stepping"
        /\ ~EulerPath(Top)
        /\ IsDone(Top)
        /\ frames[Top].prev # Null
        /\ ~Proved(Top).threw
        /\ frames' = Append(frames, Frame(p.rule, p.idx + 1, frames[Top].prev, Top))
        /\ subst' = Append(subst, Proved(Top).sub)
        /\ rec' = Len(frames) + 1
        /\ UNCHANGED <<kb, lastp, cur, gnd, e, status>>

\* A rule is proved: a copy of prev, one body term further, is stepped.
Ascend ==
    LET p == frames[frames[Top].prev]
    IN  /\ status = "stepping"
        /\ ~EulerPath(Top)
        /\ IsDone(Top)
        /\ frames[Top].prev # Null
        /\ ~Proved(Top).threw
        /\ frames' = Append(frames, Frame(p.rule, p.idx + 1, p.prev, Top))
        /\ subst' = Append(subst, Proved(Top).sub)
        /\ rec' = Len(frames) + 1
        /\ UNCHANGED <<kb, lastp, cur, gnd, e, status>>

\* Nothing catches what unification throws: the program ends.
Throw ==
    /\ status = "stepping"
    /\ ~EulerPath(Top)
    /\ IF IsDone(Top)
       THEN frames[Top].prev # Null /\ Proved(Top).threw
       ELSE \E h \in Candidates(Top) : Attempt(Top, h).threw
    /\ status' = "threw"
    /\ UNCHANGED <<kb, frames, subst, lastp, cur, rec, gnd, e>>

Step == Prune \/ Match \/ Ground \/ Ascend \/ Throw

---------------------------------------------------------------------------
(* pushev for every frame of gnd: those of earlier queries are still there.*)

\* Altered Used: the rule made next, not the one proved.
UsedNext(i) ==
    LET chain[j \in 0..Len(frames)] ==
            IF j = Null THEN {} ELSE {j} \cup chain[frames[j].creator]
        made == {j \in chain[i] : frames[j].creator # Null}
        facts == {j \in made : ~IsDone(frames[j].creator) /\ BodyOf(j) = <<>>}
        done == {j \in made : IsDone(frames[j].creator) /\ BodyOf(frames[j].creator) # <<>>}
    IN  {[rule |-> frames[j].rule, sub |-> NoSubs] : j \in facts}
        \cup {[rule |-> frames[j].rule, sub |-> subst[j]] : j \in done}

\* proof::g: what the proof of frame i used.  Of every frame on the way from i
\* to the goal by creator pointers: the fact it was pushed for, or the rule
\* its creator had proved, with that frame's substitution.
Used(i) ==
    LET chain[j \in 0..Len(frames)] ==
            IF j = Null THEN {} ELSE {j} \cup chain[frames[j].creator]
        made == {j \in chain[i] : frames[j].creator # Null}
        facts == {j \in made : ~IsDone(frames[j].creator) /\ BodyOf(j) = <<>>}
        done == {frames[j].creator : j \in made}
        rules == {j \in done : IsDone(j) /\ BodyOf(j) # <<>>}
    IN  {[rule |-> frames[j].rule, sub |-> NoSubs] : j \in facts}
        \cup {[rule |-> frames[j].rule, sub |-> subst[j]] : j \in rules}

Evidence(i) ==
    {[t |-> Evaluate(BodyOf(i)[k], subst[i]), f |-> i] : k \in DOMAIN BodyOf(i)}

PushEv ==
    /\ status = "reporting"
    /\ e' = e \cup {x \in UNION {Evidence(i) : i \in gnd} : x.t # NIL}
    /\ status' = "idle"
    /\ UNCHANGED <<kb, frames, subst, lastp, cur, rec, gnd>>

Next == (\E goal \in Goals : DoQuery(goal)) \/ Step \/ PushEv

\* The loops of do_query run in the one thread of the program.
Fairness == WF_vars(Step \/ PushEv)

Spec == Init /\ [][Next]_vars /\ Fairness
=============================================================================
