-------------------------------- MODULE Rows --------------------------------
(***************************************************************************)
(* The equations of vm.h: a row lists resources that have to be equal, and *)
(* begins with a null when it is bounded, that is, when one of them is no  *)
(* variable.                                                               *)
(*                                                                         *)
(* apply puts two resources in one row.  Its flag checkOnly leaves the     *)
(* rows alone, and dontEvenCheck makes it answer false at once.            *)
(***************************************************************************)
EXTENDS Naturals, Sequences, FiniteSets, SequencesExt

CONSTANTS Vars,      \* resources that are variables
          Nonvars,   \* and that are not
          Null

ASSUME ResourcesApart == Vars \cap Nonvars = {} /\ Null \notin Vars \cup Nonvars

VARIABLES
    eqs,     \* the rows, the newest first
    asked    \* the pairs apply has answered true for since the last clear (history)

vars == <<eqs, asked>>

Resources == Vars \cup Nonvars

Init ==
    /\ eqs = <<>>
    /\ asked = {}

---------------------------------------------------------------------------

\* The row x is in, 0 if there is none.
FindRow(x) == SelectInSeq(eqs, LAMBDA row : x \in Range(row))

Free(row) == Head(row) # Null

\* Mutant of Check: a nonvar may join a bounded row.
CheckBound(x, y) == TRUE

\* Two resources in rows already: *n == *k compares whether there are rows at
\* all, so they pass.
Check(x, y) ==
    LET n == FindRow(x)
        k == FindRow(y)
    IN  CASE n = 0 -> k # 0 /\ x \notin Vars => Free(eqs[k])
          [] n # 0 /\ k = 0 -> y \notin Vars => Free(eqs[n])
          [] OTHER -> TRUE

\* A row of two that were in none.
NewRow(x, y) ==
    CASE x \notin Vars -> <<Null, x, y>>
      [] x \in Vars /\ y \notin Vars -> <<Null, y, x>>
      [] OTHER -> <<x, y>>

\* Mutant of Push: the element takes the place of the last one.
PushOver(x, row) == <<Null>> \o (IF x \in Vars THEN Append(Front(row), x) ELSE <<x>> \o row)

\* The null is pushed whatever x is: it comes after the comma.
Push(x, row) == <<Null>> \o (IF x \in Vars THEN Append(row, x) ELSE <<x>> \o row)

\* Mutant of Put: the element is pushed to the newest row.
PutFirst(x, y) ==
    LET n == FindRow(x)
        k == FindRow(y)
    IN  CASE n = 0 /\ k = 0 -> <<NewRow(x, y)>> \o eqs
          [] n = 0 /\ k # 0 -> [eqs EXCEPT ![1] = Push(x, @)]
          [] n # 0 /\ k = 0 -> [eqs EXCEPT ![1] = Push(y, @)]
          [] OTHER -> eqs

\* apply behind its check.  Two rows are never merged: n != k, too, compares
\* whether there are rows.
Put(x, y) ==
    LET n == FindRow(x)
        k == FindRow(y)
    IN  CASE n = 0 /\ k = 0 -> <<NewRow(x, y)>> \o eqs
          [] n = 0 /\ k # 0 -> [eqs EXCEPT ![k] = Push(x, @)]
          [] n # 0 /\ k = 0 -> [eqs EXCEPT ![n] = Push(y, @)]
          [] OTHER -> eqs

\* A caller compares two nonvars, or a resource with itself, on its own: "the
\* condition at the following line must be checked externally ahead of time".
Apply(x, y) ==
    /\ x # y /\ {x, y} \cap Vars # {}
    /\ Check(x, y)
    /\ eqs' = Put(x, y)
    /\ asked' = asked \cup {{x, y}}

Clear ==
    /\ eqs' = <<>>
    /\ asked' = {}

\* A caller that puts any equations.
Next == Clear \/ \E x, y \in Resources : Apply(x, y)

Spec == Init /\ [][Next]_vars

---------------------------------------------------------------------------

\* Rule 4: until a clear, resources that share a row go on sharing one.
NeverMoved ==
    [][eqs' # <<>> =>
          \A n \in DOMAIN eqs : \E k \in DOMAIN eqs' :
              Range(eqs[n]) \ {Null} \subseteq Range(eqs'[k])]_eqs

\* The resources that the answers so far make equal to x.
Connected(x, y) ==
    \A S \in SUBSET ((UNION asked) \cup {x}) :
        x \in S /\ (\A e \in asked : e \cap S # {} => e \subseteq S) => y \in S

\* A row stands for resources that can be equal and have to be: no row ever
\* holds two nonvars (rule 1), however its elements came to it, and two
\* resources share one only if a chain of accepted equations makes them equal.
RowsSound ==
    \A n \in DOMAIN eqs :
        /\ Cardinality(Range(eqs[n]) \cap Nonvars) <= 1
        /\ \A x, y \in Range(eqs[n]) \ {Null} : Connected(x, y)
=============================================================================
