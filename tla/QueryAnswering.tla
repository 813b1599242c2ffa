--------------------------- MODULE QueryAnswering ---------------------------
(***************************************************************************)
(* What a prover promises whoever queries it: the answers found for a goal *)
(* follow from the rules, all of them are found, and a query ends.         *)
(***************************************************************************)
EXTENDS Entailment

CONSTANTS RuleBases,   \* the sets of rules a prover may be given
          Questions    \* the goals it may be asked

VARIABLES
    rules,    \* the rules
    goal,     \* the goal of the last query
    answers,  \* its answers found so far
    phase     \* whether that query is under way

vars == <<rules, goal, answers, phase>>

Init ==
    /\ rules \in RuleBases
    /\ goal = <<>>
    /\ answers = {}
    /\ phase = "idle"

Ask(question) ==
    /\ phase = "idle"
    /\ goal' = question
    /\ answers' = {}
    /\ phase' = "busy"
    /\ UNCHANGED rules

Answer ==
    /\ phase = "busy"
    /\ \E a \in AnswersTo(rules, goal) \ answers : answers' = answers \cup {a}
    /\ UNCHANGED <<rules, goal, phase>>

Finish ==
    /\ phase = "busy"
    /\ answers = AnswersTo(rules, goal)
    /\ phase' = "idle"
    /\ UNCHANGED <<rules, goal, answers>>

Next == (\E question \in Questions : Ask(question)) \/ Answer \/ Finish

Spec == Init /\ [][Next]_vars /\ WF_vars(Answer \/ Finish)
=============================================================================
