---------------------------- MODULE ProverProps ----------------------------
(***************************************************************************)
(* What the prover should satisfy: the shape of its frames, the list they  *)
(* are on, the proofs it reports and what it promises its user.            *)
(***************************************************************************)
EXTENDS Prover, Entailment

---------------------------------------------------------------------------
(* Types and the shape of the frames.                                      *)

Frames == [rule : Nat, idx : Nat, prev : Nat, creator : Nat, next : Nat]
Pointers == 0..Len(frames)

Types ==
    /\ kb \in Seq(Rules)
    /\ frames \in Seq(Frames)
    /\ subst = [i \in 1..Len(frames) |-> subst[i]]
    /\ \A i \in DOMAIN frames : IsSubs(subst[i])
    /\ lastp \in Pointers
    /\ cur \in Pointers
    /\ rec \in Pointers
    /\ gnd \subseteq DOMAIN frames
    /\ e \subseteq [t : Terms, f : DOMAIN frames]
    /\ status \in Status

\* A frame is of a rule and not past the end of its body; it points to frames
\* made before it, and what it is to prove is a body term that exists.
FrameOK(i) ==
    LET f == frames[i]
    IN  /\ f.rule \in DOMAIN kb
        /\ f.idx <= Len(BodyOf(i))
        /\ f.creator < i
        /\ f.prev <= f.creator
        /\ f.next \in Pointers
        /\ f.prev = Null <=> HeadOf(i) = NIL
        /\ f.prev # Null => ~IsDone(f.prev)

\* step dereferences no null or stale pointer: the frame it works on, the
\* prev of that frame and the body term prev waits for exist.
TypeOK ==
    /\ Types
    /\ \A i \in DOMAIN frames : FrameOK(i)
    /\ status \in {"stepping", "threw"} => cur # Null

---------------------------------------------------------------------------
(* The list of frames.                                                     *)

\* Only the frame of a goal and frames pushed for a rule are put on the list:
\* a copy is made by the frame it answers, not by the one it has to prove for.
Listed(i) == frames[i].creator = frames[i].prev
IsGoal(i) == frames[i].creator = Null

\* j is the frame the list should have after i: the first one listed since,
\* unless that starts another query's list.
Follows(i, j) ==
    /\ j \in DOMAIN frames
    /\ i < j
    /\ Listed(j)
    /\ ~IsGoal(j)
    /\ \A k \in DOMAIN frames : i < k /\ k < j => ~Listed(k)
IsLast(i) == \A j \in DOMAIN frames : ~Follows(i, j)

\* Frame i leads to the frame after it; a copy leads nowhere.
LinkOK(i) ==
    IF Listed(i)
    THEN Follows(i, frames[i].next) \/ (frames[i].next = Null /\ IsLast(i))
    ELSE frames[i].next = Null

\* lastp is the frame that queuepush has to link new frames to.
EndsAtLastp ==
    frames # <<>> =>
        /\ lastp \in DOMAIN frames /\ Listed(lastp)
        /\ \A j \in DOMAIN frames : Listed(j) => j <= lastp

\* The loop is at a frame of the list of the latest query, while there is
\* something to step.
LoopOnList ==
    /\ cur # Null <=> status \in {"stepping", "threw"}
    /\ cur # Null =>
        /\ Listed(cur)
        /\ \A j \in DOMAIN frames : cur < j => ~IsGoal(j)

\* A recursion works on a copy, the newest frame.
RecursionOnCopy ==
    rec # Null => rec = Len(frames) /\ ~Listed(rec) /\ cur # Null

\* The next pointers hold every listed frame, in the order they were made, and
\* no copy, whatever the recursive calls of step pushed (prover.cpp 20, 442-474).
QueueIntact ==
    /\ \A i \in DOMAIN frames : LinkOK(i)
    /\ EndsAtLastp
    /\ LoopOnList
    /\ RecursionOnCopy

\* do_query's loop skips no frame and repeats none, whatever the recursive
\* calls of step pushed in between: it goes to the next listed frame, and ends
\* only when there is none.
VisitsInOrder ==
    [][\A i \in DOMAIN frames :
          status = "stepping" /\ i = cur /\ cur' # i
            => \/ Follows(i, cur)'
               \/ cur' = Null /\ IsLast(i)']_vars

---------------------------------------------------------------------------
(* The search.                                                             *)

\* Rules without variables: above a frame no rule occurs twice among those
\* that were tried, whatever cycles the rules have, so that the branch being
\* explored is never longer than the rule base (euler_path).
BranchBounded ==
    status = "stepping" => Cardinality(Path(Top)) <= Len(kb) + 1

\* The conditions worked out once per query (mkconds) hide no rule from
\* match_heads: they only skip rules whose head would not have unified.
IndexComplete ==
    status = "stepping" /\ ~IsDone(Top) =>
        \A h \in DOMAIN kb : Attempt(Top, h).ok => h \in Candidates(Top)

\* Only a variable in the place of a predicate makes unification throw.
OnlyPredicatesThrow ==
    status = "threw" =>
        \E i \in DOMAIN kb : \E t \in TermsOf(kb[i].body) \cup ({kb[i].head} \ {NIL}) : IsVar(t)

\* step has done with frame i what it has to: nothing if it repeats one above
\* it; else it has pushed a frame for every rule that matches, or reported the
\* goal, or answered the frame that waited for the proof.
Tried(i) ==
    \/ EulerPath(i)
    \/ /\ ~IsDone(i)
       /\ \A h \in Matches(i) : \E c \in DOMAIN frames :
             frames[c].rule = h /\ frames[c].prev = i /\ frames[c].creator = i
    \/ IsDone(i) /\ frames[i].prev = Null /\ i \in gnd
    \/ /\ IsDone(i) /\ frames[i].prev # Null
       /\ \E c \in DOMAIN frames : frames[c].creator = i

\* Once a query is over, no frame that was made for it is left untried, in
\* whichever order the recursive calls of step and the loop came to them.
AllTried == status \in {"reporting", "idle"} => \A i \in DOMAIN frames : Tried(i)

\* Every query ends, in answers or in an uncaught exception.
QueriesEnd == status = "stepping" ~> status \in {"idle", "threw"}

---------------------------------------------------------------------------
(* The answers.                                                            *)

\* A rule as it was used in a proof: its variables replaced by the constants
\* they were bound to.
Applied(t, ss) == [k \in DOMAIN t |-> Resolve(t[k], ss)]
UsedRule(u) ==
    [head |-> Applied(kb[u.rule].head, u.sub),
     body |-> [k \in DOMAIN kb[u.rule].body |-> Applied(kb[u.rule].body[k], u.sub)]]

\* The proof reported with a term proves it: the term follows from the facts
\* and the rule instances that proof::g lists, and from those alone.
ProofsHold ==
    \A x \in e :
        x.t \in LeastModel({UsedRule(u) : u \in {u \in Used(x.f) : kb[u.rule].head # NIL}})

\* A set of heads that the rules are closed under.
Heads == {kb[r].head : r \in DOMAIN kb} \ {NIL}
Closed(M) ==
    \A r \in DOMAIN kb : kb[r].head # NIL /\ TermsOf(kb[r].body) \subseteq M => kb[r].head \in M

VariableFree(S) == \A t \in S : \A k \in DOMAIN t : t[k] \notin Vars
GroundKb == \A r \in DOMAIN kb : VariableFree(TermsOf(kb[r].body) \cup {kb[r].head})

\* Rules without variables: what is answered follows from them, being in every
\* set of terms they are closed under, although step takes over an answer
\* without looking at what unify says of it (prover.cpp 461-470).
AnswersEntailed ==
    GroundKb =>
        \A M \in SUBSET Heads : Closed(M) => \A i \in gnd : TermsOf(BodyOf(i)) \subseteq M

LatestQuery == IF Queries = {} THEN 0 ELSE CHOOSE q \in Queries : \A p \in Queries : p <= q
LatestGoal == IF LatestQuery = 0 THEN <<>> ELSE kb[LatestQuery].body
Answered(i) == [k \in DOMAIN BodyOf(i) |-> Evaluate(BodyOf(i)[k], subst[i])]

Promise == INSTANCE QueryAnswering WITH
    RuleBases <- {{rules[r] : r \in DOMAIN rules} : rules \in KBs},
    Questions <- Goals,
    rules <- {kb[r] : r \in DOMAIN kb \ Queries},
    goal <- LatestGoal,
    answers <- {Answered(i) : i \in {i \in gnd : frames[i].rule = LatestQuery}},
    phase <- IF status = "idle" THEN "idle" ELSE "busy"

\* The prover does what QueryAnswering promises: it finds answers that follow
\* from the rules, all of them, and ends.
AnswersQueries == Promise!Spec

\* Once a query is over, every answer that follows from the rules was found.
AnswersFound ==
    status = "idle" /\ Queries # {} =>
        AnswersTo({kb[r] : r \in DOMAIN kb \ Queries}, LatestGoal)
            \subseteq {Answered(i) : i \in gnd}
=============================================================================
