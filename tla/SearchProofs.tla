---------------------------- MODULE SearchProofs ----------------------------
(***************************************************************************)
(* The search of the prover for every rule base and sequence of goals.     *)
(*                                                                         *)
(* Frames never change but for their links, so that what a frame is can be *)
(* said once and for all by how it came about: for a goal, for a rule that *)
(* matched, or as the copy that a proved rule is answered by.  This is the *)
(* inductive invariant (FramesBorn).  What follows from it is shown by     *)
(* induction on the number of the frame, in one state.                     *)
(*                                                                         *)
(* The last part is about the list of frames and the loop over it.         *)
(***************************************************************************)
EXTENDS ProverProofs

---------------------------------------------------------------------------
(* Induction, and the sets of frames that pointers lead to.                *)

\* Complete induction on the numbers from 1 to n, for the members of a set.
LEMMA CompleteInduction ==
    ASSUME NEW n \in Nat, NEW S,
           \A i \in 1..n : (\A j \in 1..n : j < i => j \in S) => i \in S
    PROVE  \A i \in 1..n : i \in S
<1>. SUFFICES ASSUME {i \in 1..n : i \notin S} # {} PROVE FALSE
  OBVIOUS
<1>1. {i \in 1..n : i \notin S} \in SUBSET Nat
  OBVIOUS
<1>2. PICK m \in {i \in 1..n : i \notin S} :
        \A x \in {i \in 1..n : i \notin S} : m <= x
  BY <1>1, LeastExists
<1>3. \A j \in 1..n : j < m => j \in S
  BY <1>2
<1>. QED BY <1>2, <1>3

\* The function that collects what a pointer leads to exists, whatever the
\* pointers: it collects what no set with the start lacks that the pointers do
\* not leave.
LEMMA ChainExists ==
    ASSUME NEW n \in Nat, NEW up, \A j \in 1..n : up[j] \in 0..n
    PROVE  \E f : f = [j \in 0..n |-> IF j = Null THEN {} ELSE {j} \cup f[up[j]]]
<1>. DEFINE Stays(S) == \A a \in 1..n : a \in S => up[a] \in S
            From(j) == {a \in 1..n : \A S \in SUBSET (0..n) : j \in S /\ Stays(S) => a \in S}
            f == [j \in 0..n |-> From(j)]
<1>1. From(0) = {}
  <2>1. {0} \in SUBSET (0..n) /\ Stays({0})
    OBVIOUS
  <2>2. \A a \in 1..n : a \notin {0}
    OBVIOUS
  <2>. HIDE DEF Stays
  <2>. QED BY <2>1, <2>2
<1>2. ASSUME NEW j \in 1..n
      PROVE  From(j) = {j} \cup From(up[j])
  <2>0. up[j] \in 0..n
    OBVIOUS
  <2>1. j \in From(j)
    OBVIOUS
  <2>2. ASSUME NEW a \in From(up[j])
        PROVE  a \in From(j)
    <3>. SUFFICES ASSUME NEW S \in SUBSET (0..n), j \in S, Stays(S) PROVE a \in S
      OBVIOUS
    <3>1. up[j] \in S
      OBVIOUS
    <3>. QED BY <3>1
  <2>3. ASSUME NEW a \in From(j), a # j
        PROVE  a \in From(up[j])
    <3>. SUFFICES ASSUME NEW S \in SUBSET (0..n), up[j] \in S, Stays(S) PROVE a \in S
      OBVIOUS
    <3>1. S \cup {j} \in SUBSET (0..n) /\ j \in S \cup {j}
      OBVIOUS
    <3>2. Stays(S \cup {j})
      OBVIOUS
    <3>3. a \in S \cup {j}
      <4>. HIDE DEF Stays
      <4>. QED BY <3>1, <3>2
    <3>. QED BY <2>3, <3>3
  <2>. HIDE DEF From
  <2>. QED BY <2>1, <2>2, <2>3
<1>3. \A j \in 0..n : f[j] = IF j = Null THEN {} ELSE {j} \cup f[up[j]]
  <2>. TAKE j \in 0..n
  <2>1. CASE j = Null
    BY <1>1, <2>1 DEF Null
  <2>2. CASE j # Null
    <3>1. j \in 1..n /\ up[j] \in 0..n
      BY <2>2 DEF Null
    <3>2. f[j] = From(j) /\ f[up[j]] = From(up[j])
      <4>. HIDE DEF From
      <4>. QED BY <3>1
    <3>. HIDE DEF From, f
    <3>. QED BY <1>2, <2>2, <3>1, <3>2
  <2>. QED BY <2>1, <2>2
<1>4. f = [j \in 0..n |-> IF j = Null THEN {} ELSE {j} \cup f[up[j]]]
  <2>. DEFINE F(j) == IF j = Null THEN {} ELSE {j} \cup f[up[j]]
  <2>1. \A j \in 0..n : From(j) = F(j)
    <3>1. \A j \in 0..n : f[j] = From(j)
      <4>. HIDE DEF From
      <4>. QED OBVIOUS
    <3>. HIDE DEF From, f
    <3>. QED BY <1>3, <3>1
  <2>2. [j \in 0..n |-> From(j)] = [j \in 0..n |-> F(j)]
    <3>. HIDE DEF From, F
    <3>. QED BY <2>1
  <2>. QED BY <2>2
<1>. QED BY <1>4

\* Pointers lead to frames made before.
LEMMA OlderPointers ==
    ASSUME TypeOK, NEW i \in DOMAIN frames
    PROVE  /\ frames[i].prev # Null => frames[i].prev \in DOMAIN frames /\ frames[i].prev < i
           /\ frames[i].creator # Null => frames[i].creator \in DOMAIN frames
           /\ frames[i].creator < i
           /\ frames[i].prev \in Nat /\ frames[i].creator \in Nat
           /\ frames[i].rule \in Nat /\ frames[i].idx \in Nat
           /\ DOMAIN frames \subseteq Nat \ {Null}
<1>1. /\ i \in Nat /\ frames[i] \in Frames
      /\ frames[i].creator < i /\ frames[i].prev <= frames[i].creator
  BY FrameFacts DEF TypeOK, FrameOK
<1>2. PICK n \in Nat : DOMAIN frames = 1..n
  BY TypesNow DEF TypeOK
<1>. QED BY <1>1, <1>2 DEF Frames, Null

\* Path as an equation: a frame, and what is above the frame it points to.
PathEquation ==
    /\ Path(Null) = {}
    /\ \A i \in DOMAIN frames : Path(i) = {i} \cup Path(frames[i].prev)

LEMMA PathUnfolds == TypeOK => PathEquation
<1>. SUFFICES ASSUME TypeOK PROVE PathEquation
  OBVIOUS
<1>1. PICK n \in Nat : n = Len(frames) /\ DOMAIN frames = 1..n
  BY TypesNow DEF TypeOK
<1>. DEFINE up == [j \in 1..n |-> frames[j].prev]
            F(g) == [j \in 0..n |-> IF j = Null THEN {} ELSE {j} \cup g[frames[j].prev]]
            f == CHOOSE g : g = F(g)
<1>2. \A j \in 1..n : frames[j].prev \in 0..n /\ up[j] = frames[j].prev
  BY <1>1, FrameFacts DEF Null
<1>3. PICK g : g = [j \in 0..n |-> IF j = Null THEN {} ELSE {j} \cup g[up[j]]]
  <2>1. \A j \in 1..n : up[j] \in 0..n
    BY <1>2
  <2>. HIDE DEF up
  <2>. QED BY <2>1, ChainExists
<1>4. g = F(g)
  <2>1. \A j \in 0..n : j # Null => j \in 1..n
    BY DEF Null
  <2>2. \A j \in 0..n : (IF j = Null THEN {} ELSE {j} \cup g[up[j]])
                      = (IF j = Null THEN {} ELSE {j} \cup g[frames[j].prev])
    <3>. HIDE DEF up
    <3>. QED BY <1>2, <2>1
  <2>. HIDE DEF up
  <2>. QED BY <1>3, <2>2
<1>5. f = F(f)
  <2>. HIDE DEF F
  <2>. QED BY <1>4
<1>6. \A i : Path(i) = f[i]
  BY <1>1 DEF Path
<1>7. f[Null] = {} /\ \A i \in 1..n : f[i] = {i} \cup f[frames[i].prev]
  <2>. HIDE DEF f
  <2>1. 0 \in 0..n /\ \A i \in 1..n : i \in 0..n /\ i # 0
    OBVIOUS
  <2>. QED BY <1>5, <2>1 DEF Null
<1>. QED BY <1>1, <1>6, <1>7 DEF PathEquation

\* The way to the goal is among the frames made before.
LEMMA PathBelow ==
    ASSUME TypeOK
    PROVE  \A i \in DOMAIN frames : Path(i) \subseteq 1..i
<1>1. PICK n \in Nat : n = Len(frames) /\ DOMAIN frames = 1..n
  BY TypesNow DEF TypeOK
<1>. DEFINE S == {i \in 1..n : Path(i) \subseteq 1..i}
<1>2. ASSUME NEW i \in 1..n, \A j \in 1..n : j < i => j \in S
      PROVE  i \in S
  <2>1. Path(i) = {i} \cup Path(frames[i].prev)
    BY <1>1, PathUnfolds DEF PathEquation
  <2>2. Path(frames[i].prev) \subseteq 1..i
    <3>1. CASE frames[i].prev = Null
      BY <3>1, PathUnfolds DEF PathEquation
    <3>2. CASE frames[i].prev # Null
      <4>1. PICK q \in 1..n : q = frames[i].prev /\ q < i
        BY <1>1, <3>2, OlderPointers
      <4>2. Path(q) \subseteq 1..q
        BY <1>2, <4>1
      <4>. QED BY <4>1, <4>2
    <3>. QED BY <3>1, <3>2
  <2>. QED BY <2>1, <2>2
<1>3. \A i \in 1..n : i \in S
  <2>. HIDE DEF S
  <2>. QED BY <1>2, CompleteInduction
<1>. QED BY <1>1, <1>3

---------------------------------------------------------------------------
(* What a step leaves of the frames there are.                             *)

\* The rule base grows by goals, and no frame is changed but for its link.
Grown ==
    /\ \A r \in DOMAIN kb : r \in DOMAIN kb' /\ kb'[r] = kb[r]
    /\ \A r \in DOMAIN kb' : r \in DOMAIN kb \/ kb'[r].head = NIL
    /\ \A i \in DOMAIN frames :
          /\ i \in DOMAIN frames'
          /\ frames'[i].rule = frames[i].rule
          /\ frames'[i].idx = frames[i].idx
          /\ frames'[i].prev = frames[i].prev
          /\ frames'[i].creator = frames[i].creator
          /\ subst'[i] = subst[i]

\* What is said of a frame by its rule, its place in the body and the frames
\* above it.
LEMMA GrownKeeps ==
    ASSUME TypeOK, TypeOK', Grown, NEW i \in DOMAIN frames
    PROVE  /\ BodyOf(i)' = BodyOf(i) /\ HeadOf(i)' = HeadOf(i)
           /\ Wanted(i)' = Wanted(i) /\ IsDone(i)' = IsDone(i)
           /\ Path(i)' = Path(i)
           /\ EulerPath(i)' <=> EulerPath(i)
           /\ \A h \in DOMAIN kb : Attempt(i, h)' = Attempt(i, h)
           /\ frames[i].prev # Null => Proved(i)' = Proved(i)
<1>1. \A j \in DOMAIN frames : BodyOf(j)' = BodyOf(j) /\ HeadOf(j)' = HeadOf(j)
  BY FrameFacts DEF Grown, BodyOf, HeadOf
<1>2. \A j \in DOMAIN frames : Wanted(j)' = Wanted(j) /\ IsDone(j)' = IsDone(j)
  BY <1>1 DEF Grown, Wanted, IsDone
<1>3. PICK n \in Nat : DOMAIN frames = 1..n
  BY TypesNow DEF TypeOK
<1>4. \A j \in 1..n : Path(j)' = Path(j)
  <2>. DEFINE S == {j \in 1..n : Path(j)' = Path(j)}
  <2>1. ASSUME NEW j \in 1..n, \A k \in 1..n : k < j => k \in S
        PROVE  j \in S
    <3>1. Path(j) = {j} \cup Path(frames[j].prev) /\ Path(Null) = {}
      BY <1>3, PathUnfolds DEF PathEquation
    <3>2. PathEquation'
      BY PathUnfolds, PTL
    <3>3. Path(j)' = {j} \cup Path(frames[j].prev)' /\ Path(Null)' = {}
      BY <1>3, <3>2 DEF PathEquation, Grown
    <3>4. PICK q : q = frames[j].prev /\ q = frames[j].prev'
      BY <1>3 DEF Grown
    <3>5. Path(q)' = Path(q)
      <4>1. CASE q = Null
        BY <3>1, <3>3, <4>1
      <4>2. CASE q # Null
        BY <1>3, <2>1, <3>4, <4>2, OlderPointers
      <4>. QED BY <4>1, <4>2
    <3>6. Path(frames[j].prev)' = Path(q)'
      BY <3>4
    <3>7. Path(j)' = Path(j)
      BY <3>1, <3>3, <3>4, <3>5, <3>6
    <3>. QED BY <3>7
  <2>2. \A j \in 1..n : j \in S
    <3>. HIDE DEF S
    <3>. QED BY <2>1, CompleteInduction
  <2>. QED BY <2>2
<1>5. \A j \in DOMAIN frames : \A h \in DOMAIN kb : Attempt(j, h)' = Attempt(j, h)
  BY <1>2 DEF Attempt, Grown
<1>6. frames[i].prev # Null => Proved(i)' = Proved(i)
  <2>. SUFFICES ASSUME frames[i].prev # Null PROVE Proved(i)' = Proved(i)
    OBVIOUS
  <2>1. PICK q \in DOMAIN frames : q = frames[i].prev /\ q = frames'[i].prev
    BY OlderPointers DEF Grown
  <2>2. Proved(i) = Unify(HeadOf(i), subst[i], Wanted(q), subst[q])
    BY <2>1 DEF Proved
  <2>3. Proved(i)' = Unify(HeadOf(i)', subst'[i], Wanted(q)', subst'[q])
    BY <2>1 DEF Proved
  <2>. QED BY <1>1, <1>2, <2>2, <2>3 DEF Grown
<1>7. EulerPath(i)' <=> EulerPath(i)
  <2>1. Ancestors(i)' = Ancestors(i)
    BY <1>3, <1>4 DEF Ancestors
  <2>2. Ancestors(i) \subseteq DOMAIN frames
    BY <1>3, PathBelow DEF Ancestors
  <2>3. \A a \in Ancestors(i) :
           /\ frames'[a].rule = frames[a].rule /\ subst'[a] = subst[a]
           /\ HeadOf(a)' = HeadOf(a)
    BY <1>1, <2>2 DEF Grown
  <2>4. HeadOf(i)' = HeadOf(i) /\ frames'[i].rule = frames[i].rule /\ subst'[i] = subst[i]
    BY <1>1 DEF Grown
  <2>. QED BY <2>1, <2>3, <2>4 DEF EulerPath
<1>. QED BY <1>1, <1>2, <1>3, <1>4, <1>5, <1>6, <1>7

---------------------------------------------------------------------------
(* The invariant: how every frame came about.                              *)

\* do_query made it, of the goal.
GoalFrame(i) ==
    /\ frames[i].prev = Null /\ frames[i].creator = Null /\ frames[i].idx = 0
    /\ HeadOf(i) = NIL
    /\ subst[i] = NoSubs

\* It was pushed for a rule whose head unifies with the term wanted.
ChildFrame(i) ==
    LET q == frames[i].prev
    IN  /\ q # Null /\ frames[i].creator = q /\ frames[i].idx = 0
        /\ ~IsDone(q) /\ ~EulerPath(q)
        /\ Attempt(q, frames[i].rule).ok
        /\ subst[i] = Attempt(q, frames[i].rule).sub

\* It is the copy of frame q, one term further, that answers the proof of j.
CopyFrame(i) ==
    LET j == frames[i].creator
        q == frames[j].prev
    IN  /\ j # Null /\ q # Null
        /\ IsDone(j) /\ ~EulerPath(j)
        /\ frames[i].rule = frames[q].rule
        /\ frames[i].idx = frames[q].idx + 1
        /\ frames[i].prev = frames[q].prev
        /\ subst[i] = Proved(j).sub

Born(i) == GoalFrame(i) \/ ChildFrame(i) \/ CopyFrame(i)
FramesBorn == \A i \in DOMAIN frames : Born(i)

\* The program ended in unify, at the frame it was stepping.
ThrowsForReason ==
    status = "threw" =>
        IF IsDone(Top) THEN frames[Top].prev # Null /\ Proved(Top).threw
        ELSE \E h \in Candidates(Top) : Attempt(Top, h).threw

GoalsDone == \A i \in gnd : IsDone(i) /\ frames[i].prev = Null

EvidenceShown ==
    \A x \in e :
        /\ x.f \in gnd
        /\ \E k \in DOMAIN BodyOf(x.f) : x.t = Evaluate(BodyOf(x.f)[k], subst[x.f])

SearchInv == TypeOK /\ FramesBorn /\ ThrowsForReason /\ GoalsDone /\ EvidenceShown

---------------------------------------------------------------------------
(* The order of the rules, once more: a loop misses no member of a set.    *)

LEMMA RankInjective ==
    ASSUME NEW n \in Nat, NEW S \in SUBSET (1..n), NEW a \in S, NEW b \in S,
           Rank(S, a) = Rank(S, b)
    PROVE  a = b
<1>1. ASSUME NEW c \in S, NEW d \in S, c < d
      PROVE  Rank(S, c) # Rank(S, d)
  <2>. DEFINE below == {x \in S : x <= c}
              upto == {x \in S : x <= d}
  <2>1. IsFiniteSet(upto) /\ IsFiniteSet(below)
    <3>1. upto \in SUBSET (1..n) /\ below \in SUBSET (1..n)
      OBVIOUS
    <3>. QED BY <3>1, FiniteNumbers
  <2>2. below \subseteq upto /\ below # upto
    <3>1. \A x \in S : x \in Int
      OBVIOUS
    <3>2. \A x \in S : x <= c => x <= d
      BY <1>1, <3>1
    <3>3. d \in upto /\ d \notin below
      BY <1>1, <3>1
    <3>. QED BY <3>2, <3>3, Zenon
  <2>3. Cardinality(below) < Cardinality(upto)
    BY <2>1, <2>2, FS_Subset, FS_CardinalityType
  <2>. QED BY <2>1, <2>3, FS_CardinalityType DEF Rank
<1>2. a < b \/ b < a \/ a = b
  OBVIOUS
<1>. QED BY <1>1, <1>2

LEMMA InOrderOnto ==
    ASSUME NEW n \in Nat, NEW S \in SUBSET (1..n), NEW h \in S
    PROVE  \E k \in DOMAIN InOrder(S) : InOrder(S)[k] = h
<1>. DEFINE k == Rank(S, h)
            upto == {x \in S : x <= h}
<1>1. k \in 1..Cardinality(S)
  <2>1. upto \in SUBSET (1..n) /\ h \in upto
    <3>1. h <= h
      OBVIOUS
    <3>2. S \subseteq 1..n
      OBVIOUS
    <3>. QED BY <3>1, <3>2, Zenon
  <2>2. IsFiniteSet(upto) /\ Cardinality(upto) \in Nat /\ IsFiniteSet(S)
    BY <2>1, FiniteNumbers
  <2>3. Cardinality(upto) # 0
    BY <2>1, <2>2, FS_EmptySet
  <2>4. Cardinality(upto) <= Cardinality(S)
    BY <2>2, FS_Subset
  <2>. QED BY <2>2, <2>3, <2>4, FiniteNumbers DEF Rank
<1>2. InOrder(S)[k] \in S /\ Rank(S, InOrder(S)[k]) = k
  <2>1. \E x \in S : Rank(S, x) = k
    OBVIOUS
  <2>2. InOrder(S)[k] = CHOOSE x \in S : Rank(S, x) = k
    BY <1>1 DEF InOrder
  <2>. QED BY <2>1, <2>2
<1>3. InOrder(S)[k] = h
  <2>. HIDE DEF k
  <2>1. k = Rank(S, h)
    BY DEF k
  <2>. QED BY <1>2, <2>1, RankInjective
<1>. QED BY <1>1, <1>3, InOrderType

---------------------------------------------------------------------------
(* The steps.                                                              *)

\* Match makes a frame of every rule that matches, and of no other.
LEMMA MatchFrames ==
    ASSUME TypeOK, Match
    PROVE  \E top \in DOMAIN frames : \E n \in Nat : \E m \in Nat :
             /\ top = Top /\ ~IsDone(top) /\ ~EulerPath(top)
             /\ DOMAIN frames = 1..n /\ DOMAIN frames' = 1..m /\ n <= m
             /\ Grown
             /\ \A i \in n + 1..m :
                   /\ frames'[i].rule \in Matches(top)
                   /\ frames'[i].idx = 0 /\ frames'[i].prev = top /\ frames'[i].creator = top
                   /\ subst'[i] = Attempt(top, frames'[i].rule).sub
             /\ \A h \in Matches(top) : \E i \in n + 1..m : frames'[i].rule = h
<1>1. status = "stepping" /\ ~IsDone(Top) /\ ~EulerPath(Top) /\ kb' = kb
  BY DEF Match
<1>2. PICK top \in DOMAIN frames : top = Top
  BY <1>1, TopIsFrame
<1>3. PICK kids : kids = InOrder(Matches(top))
  OBVIOUS
<1>4. /\ frames' = Pushed(kids)
      /\ subst' = subst \o [k \in DOMAIN kids |-> Attempt(top, kids[k]).sub]
  BY <1>2, <1>3 DEF Match
<1>5. /\ Matches(top) \in SUBSET (1..Len(kb)) /\ Len(kb) \in Nat
      /\ DOMAIN kb = 1..Len(kb)
      /\ \A h \in Matches(top) : IsSubs(Attempt(top, h).sub)
  BY <1>1, <1>2, MatchesType
<1>6. /\ kids \in Seq(Matches(top)) /\ kids \in Seq(DOMAIN kb)
      /\ \A k \in DOMAIN kids : kids[k] \in Matches(top)
      /\ \A h \in Matches(top) : \E k \in DOMAIN kids : kids[k] = h
  <2>1. kids \in Seq(Matches(top))
    BY <1>3, <1>5, InOrderType
  <2>2. \A h \in Matches(top) : \E k \in DOMAIN kids : kids[k] = h
    BY <1>3, <1>5, InOrderOnto
  <2>. QED BY <1>5, <2>1, <2>2
<1>7. PICK n \in Nat, m \in Nat : n = Len(frames) /\ m = n + Len(kids) /\ DOMAIN frames = 1..n
  <2>1. Len(frames) \in Nat /\ DOMAIN frames = 1..Len(frames)
    BY TypesNow DEF TypeOK
  <2>2. Len(frames) + Len(kids) \in Nat
    BY <1>6, <2>1
  <2>. QED BY <2>1, <2>2
<1>8. Len(kids) \in Nat /\ DOMAIN kids = 1..Len(kids)
  BY <1>6
<1>9. DOMAIN frames' = 1..m /\ n <= m /\ \A i \in n + 1..m : i - n \in DOMAIN kids
  <2>1. frames' \in Seq(Frames) /\ Len(frames') = m
    BY <1>1, <1>4, <1>6, <1>7, PushedShape
  <2>2. DOMAIN frames' = 1..m
    BY <1>7, <2>1
  <2>. QED BY <1>7, <1>8, <2>2
<1>10. /\ subst \in Seq(Substitutions) /\ Len(subst) = n
       /\ \A i \in DOMAIN frames : subst'[i] = subst[i]
       /\ \A i \in n + 1..m : subst'[i] = Attempt(top, kids[i - n]).sub
  <2>. DEFINE new == [k \in 1..Len(kids) |-> Attempt(top, kids[k]).sub]
  <2>1. subst \in Seq(Substitutions) /\ Len(subst) = n
    BY <1>7, TypesNow DEF TypeOK
  <2>2. new \in Seq(Substitutions) /\ Len(new) = Len(kids)
    <3>1. \A k \in 1..Len(kids) : Attempt(top, kids[k]).sub \in Substitutions
      BY <1>5, <1>6, <1>8, IsSubsEquiv
    <3>. QED BY <1>8, <3>1
  <2>3. subst' = subst \o new
    BY <1>4, <1>8
  <2>4. \A k \in 1..Len(kids) : new[k] = Attempt(top, kids[k]).sub
    OBVIOUS
  <2>. HIDE DEF new
  <2>5. \A i \in DOMAIN frames : subst'[i] = subst[i]
    BY <1>7, <2>1, <2>2, <2>3
  <2>6. \A i \in n + 1..m : subst'[i] = new[i - n]
    BY <1>7, <2>1, <2>2, <2>3
  <2>7. \A i \in n + 1..m : i - n \in 1..Len(kids)
    BY <1>8, <1>9
  <2>. QED BY <2>1, <2>4, <2>5, <2>6, <2>7
<1>11. \A i \in DOMAIN frames :
         /\ i \in DOMAIN frames'
         /\ frames'[i].rule = frames[i].rule
         /\ frames'[i].idx = frames[i].idx
         /\ frames'[i].prev = frames[i].prev
         /\ frames'[i].creator = frames[i].creator
  BY <1>1, <1>4, <1>6, <1>7, <1>9, PushedShape
<1>12. Grown
  BY <1>1, <1>10, <1>11 DEF Grown
<1>13. \A i \in n + 1..m :
         /\ frames'[i].rule = kids[i - n]
         /\ frames'[i].idx = 0 /\ frames'[i].prev = top /\ frames'[i].creator = top
  BY <1>1, <1>2, <1>4, <1>6, <1>7, PushedShape
<1>14. \A h \in Matches(top) : \E i \in n + 1..m : frames'[i].rule = h
  <2>. TAKE h \in Matches(top)
  <2>1. PICK k \in 1..Len(kids) : kids[k] = h
    BY <1>6, <1>8
  <2>2. n + k \in n + 1..m /\ (n + k) - n = k
    BY <1>7, <1>8
  <2>. QED BY <1>13, <2>1, <2>2
<1>15. \A i \in n + 1..m :
         /\ frames'[i].rule \in Matches(top)
         /\ frames'[i].idx = 0 /\ frames'[i].prev = top /\ frames'[i].creator = top
         /\ subst'[i] = Attempt(top, frames'[i].rule).sub
  BY <1>6, <1>9, <1>10, <1>13
<1>. QED BY <1>1, <1>2, <1>7, <1>9, <1>12, <1>14, <1>15

\* Ascend makes the copy that answers the frame stepped.
LEMMA AscendFrames ==
    ASSUME TypeOK, Ascend
    PROVE  \E top \in DOMAIN frames : \E q \in DOMAIN frames : \E new \in Nat :
             /\ top = Top /\ q = frames[top].prev /\ IsDone(top) /\ ~EulerPath(top) /\ ~IsDone(q)
             /\ DOMAIN frames = 1..(new - 1) /\ DOMAIN frames' = 1..new
             /\ Grown
             /\ frames'[new].rule = frames[q].rule /\ frames'[new].idx = frames[q].idx + 1
             /\ frames'[new].prev = frames[q].prev /\ frames'[new].creator = top
             /\ subst'[new] = Proved(top).sub
<1>1. PICK top \in DOMAIN frames : \E q \in DOMAIN frames :
             /\ top = Top /\ q = frames[top].prev
             /\ IsDone(top) /\ ~IsDone(q)
             /\ frames' = Append(frames, Frame(frames[q].rule, frames[q].idx + 1, frames[q].prev, top))
             /\ subst' = Append(subst, Proved(top).sub)
             /\ kb' = kb
  BY AscendShape, Zenon
<1>2. PICK q \in DOMAIN frames :
             /\ top = Top /\ q = frames[top].prev
             /\ IsDone(top) /\ ~IsDone(q)
             /\ frames' = Append(frames, Frame(frames[q].rule, frames[q].idx + 1, frames[q].prev, top))
             /\ subst' = Append(subst, Proved(top).sub)
             /\ kb' = kb
  BY <1>1
<1>3. ~EulerPath(top)
  BY <1>2 DEF Ascend
<1>4. PICK new \in Nat : new = Len(frames) + 1
  BY TypesNow DEF TypeOK
<1>5. /\ frames \in Seq(Frames) /\ DOMAIN frames = 1..(new - 1) /\ Len(frames) = new - 1
      /\ subst \in Seq(Substitutions) /\ Len(subst) = new - 1
      /\ top \in Nat /\ frames[q] \in Frames
  BY <1>4, TypesNow, FrameFacts DEF TypeOK
<1>6. PICK copy \in Frames :
        copy = Frame(frames[q].rule, frames[q].idx + 1, frames[q].prev, top)
  <2>1. frames[q].rule \in Nat /\ frames[q].idx + 1 \in Nat /\ frames[q].prev \in Nat
    BY OlderPointers
  <2>2. Frame(frames[q].rule, frames[q].idx + 1, frames[q].prev, top) \in Frames
    BY <1>5, <2>1, FrameType
  <2>. QED BY <2>2
<1>7. /\ DOMAIN frames' = 1..new /\ frames'[new] = copy
      /\ \A i \in DOMAIN frames : i \in DOMAIN frames' /\ frames'[i] = frames[i]
  <2>1. frames' = Append(frames, copy)
    BY <1>2, <1>6
  <2>. QED BY <1>4, <1>5, <2>1
<1>8. \A i \in DOMAIN frames : subst'[i] = subst[i]
  BY <1>2, <1>5
<1>9. subst'[new] = Proved(top).sub
  BY <1>2, <1>4, <1>5
<1>10. Grown
  BY <1>2, <1>7, <1>8 DEF Grown
<1>11. /\ frames'[new].rule = frames[q].rule /\ frames'[new].idx = frames[q].idx + 1
       /\ frames'[new].prev = frames[q].prev /\ frames'[new].creator = top
  BY <1>6, <1>7 DEF Frame
<1>. QED BY <1>2, <1>3, <1>5, <1>7, <1>9, <1>10, <1>11

\* DoQuery makes the frame of the goal.
LEMMA DoQueryFrames ==
    ASSUME TypeOK, NEW goal \in Goals, DoQuery(goal)
    PROVE  \E new \in Nat : \E k \in Nat :
             /\ DOMAIN frames = 1..(new - 1) /\ DOMAIN frames' = 1..new
             /\ DOMAIN kb = 1..(k - 1) /\ DOMAIN kb' = 1..k
             /\ kb'[k] = [head |-> NIL, body |-> goal]
             /\ Grown
             /\ frames'[new].rule = k /\ frames'[new].idx = 0
             /\ frames'[new].prev = Null /\ frames'[new].creator = Null
             /\ subst'[new] = NoSubs
<1>1. PICK new \in Nat, k \in Nat : new = Len(frames) + 1 /\ k = Len(kb) + 1
  <2>1. Len(frames) \in Nat /\ kb \in Seq(Rules)
    BY TypesNow DEF TypeOK
  <2>2. Len(kb) + 1 \in Nat /\ Len(frames) + 1 \in Nat
    BY <2>1
  <2>. QED BY <2>2
<1>2. /\ frames \in Seq(Frames) /\ DOMAIN frames = 1..(new - 1) /\ Len(frames) = new - 1
      /\ subst \in Seq(Substitutions) /\ Len(subst) = new - 1
      /\ kb \in Seq(Rules) /\ Len(kb) = k - 1 /\ DOMAIN kb = 1..(k - 1)
  BY <1>1, TypesNow DEF TypeOK
<1>3. PICK query \in Rules : /\ query = [head |-> NIL, body |-> goal]
                             /\ kb' = Append(kb, query)
  <2>1. [head |-> NIL, body |-> goal] \in Rules
    BY GoalsAreBodies DEF Rules
  <2>. QED BY <2>1 DEF DoQuery
<1>4. PICK f \in Frames : f = Frame(k, 0, Null, Null) /\ frames' = Append(frames, f)
  <2>1. Frame(k, 0, Null, Null) \in Frames
    BY FrameType DEF Null
  <2>. QED BY <1>1, <2>1 DEF DoQuery
<1>5. /\ DOMAIN kb' = 1..k /\ kb'[k] = query
      /\ \A r \in DOMAIN kb : r \in DOMAIN kb' /\ kb'[r] = kb[r]
      /\ \A r \in DOMAIN kb' : r \in DOMAIN kb \/ r = k
  BY <1>1, <1>2, <1>3
<1>6. /\ DOMAIN frames' = 1..new /\ frames'[new] = f
      /\ \A i \in DOMAIN frames : i \in DOMAIN frames' /\ frames'[i] = frames[i]
  BY <1>1, <1>2, <1>4
<1>7. subst'[new] = NoSubs /\ \A i \in DOMAIN frames : subst'[i] = subst[i]
  <2>1. subst' = Append(subst, NoSubs)
    BY DEF DoQuery
  <2>. QED BY <1>1, <1>2, <2>1
<1>8. \A r \in DOMAIN kb' : r \in DOMAIN kb \/ kb'[r].head = NIL
  BY <1>3, <1>5
<1>9. Grown
  BY <1>5, <1>6, <1>7, <1>8 DEF Grown
<1>10. /\ frames'[new].rule = k /\ frames'[new].idx = 0
       /\ frames'[new].prev = Null /\ frames'[new].creator = Null
  BY <1>4, <1>6 DEF Frame
<1>. QED BY <1>2, <1>3, <1>5, <1>6, <1>7, <1>9, <1>10

---------------------------------------------------------------------------
(* The invariant is kept.                                                  *)

LEMMA OldBorn ==
    ASSUME TypeOK, TypeOK', Grown, NEW i \in DOMAIN frames, Born(i)
    PROVE  Born(i)'
<1>1. /\ frames'[i].rule = frames[i].rule /\ frames'[i].idx = frames[i].idx
      /\ frames'[i].prev = frames[i].prev /\ frames'[i].creator = frames[i].creator
      /\ subst'[i] = subst[i]
  BY DEF Grown
<1>2. CASE GoalFrame(i)
  <2>1. HeadOf(i)' = HeadOf(i)
    BY GrownKeeps
  <2>2. GoalFrame(i)'
    BY <1>1, <1>2, <2>1 DEF GoalFrame
  <2>. QED BY <2>2 DEF Born
<1>3. CASE ChildFrame(i)
  <2>1. PICK q \in DOMAIN frames : q = frames[i].prev /\ q # Null
    BY <1>3, OlderPointers DEF ChildFrame
  <2>2. frames[i].rule \in DOMAIN kb
    BY FrameFacts
  <2>3. PICK r \in DOMAIN kb : r = frames[i].rule
    BY <2>2
  <2>4. /\ frames[i].creator = q /\ frames[i].idx = 0
        /\ ~IsDone(q) /\ ~EulerPath(q)
        /\ Attempt(q, r).ok /\ subst[i] = Attempt(q, r).sub
    BY <1>3, <2>1, <2>3 DEF ChildFrame
  <2>5. /\ IsDone(q)' = IsDone(q) /\ (EulerPath(q)' <=> EulerPath(q))
        /\ Attempt(q, r)' = Attempt(q, r)
    BY GrownKeeps
  <2>6. q = frames'[i].prev /\ r = frames'[i].rule
    BY <1>1, <2>1, <2>3
  <2>7. Attempt(frames[i].prev, frames[i].rule)' = Attempt(q, r)'
    BY <2>6
  <2>8. IsDone(frames[i].prev)' = IsDone(q)' /\ (EulerPath(frames[i].prev)' <=> EulerPath(q)')
    BY <2>6
  <2>9. ChildFrame(i)'
    BY <1>1, <2>1, <2>4, <2>5, <2>6, <2>7, <2>8 DEF ChildFrame
  <2>. QED BY <2>9 DEF Born
<1>4. CASE CopyFrame(i)
  <2>1. PICK j \in DOMAIN frames : j = frames[i].creator /\ j # Null
    BY <1>4, OlderPointers DEF CopyFrame
  <2>2. PICK q \in DOMAIN frames : q = frames[j].prev /\ q # Null
    BY <1>4, <2>1, OlderPointers DEF CopyFrame
  <2>3. /\ IsDone(j) /\ ~EulerPath(j)
        /\ frames[i].rule = frames[q].rule
        /\ frames[i].idx = frames[q].idx + 1
        /\ frames[i].prev = frames[q].prev
        /\ subst[i] = Proved(j).sub
    BY <1>4, <2>1, <2>2 DEF CopyFrame
  <2>4. /\ IsDone(j)' = IsDone(j) /\ (EulerPath(j)' <=> EulerPath(j))
        /\ Proved(j)' = Proved(j)
    BY <2>2, GrownKeeps
  <2>5. j = frames'[i].creator /\ q = frames'[j].prev
    BY <1>1, <2>1, <2>2 DEF Grown
  <2>6. IsDone(frames[i].creator)' = IsDone(j)' /\ (EulerPath(frames[i].creator)' <=> EulerPath(j)')
    BY <2>5
  <2>7. Proved(frames[i].creator)' = Proved(j)'
    BY <2>5
  <2>8. /\ frames'[q].rule = frames[q].rule /\ frames'[q].idx = frames[q].idx
        /\ frames'[q].prev = frames[q].prev
    BY DEF Grown
  <2>9. CopyFrame(i)'
    BY <1>1, <2>1, <2>2, <2>3, <2>4, <2>5, <2>6, <2>7, <2>8 DEF CopyFrame
  <2>. QED BY <2>9 DEF Born
<1>. QED BY <1>2, <1>3, <1>4 DEF Born

LEMMA MatchBorn ==
    ASSUME TypeOK, FramesBorn, Match
    PROVE  Grown /\ FramesBorn'
<1>1. PICK top \in DOMAIN frames : \E n \in Nat : \E m \in Nat :
             /\ ~IsDone(top) /\ ~EulerPath(top)
             /\ DOMAIN frames = 1..n /\ DOMAIN frames' = 1..m
             /\ Grown
             /\ \A i \in n + 1..m :
                   /\ frames'[i].rule \in Matches(top)
                   /\ frames'[i].idx = 0 /\ frames'[i].prev = top /\ frames'[i].creator = top
                   /\ subst'[i] = Attempt(top, frames'[i].rule).sub
  BY MatchFrames, Zenon
<1>2. PICK n \in Nat, m \in Nat :
             /\ ~IsDone(top) /\ ~EulerPath(top)
             /\ DOMAIN frames = 1..n /\ DOMAIN frames' = 1..m
             /\ Grown
             /\ \A i \in n + 1..m :
                   /\ frames'[i].rule \in Matches(top)
                   /\ frames'[i].idx = 0 /\ frames'[i].prev = top /\ frames'[i].creator = top
                   /\ subst'[i] = Attempt(top, frames'[i].rule).sub
  BY <1>1
<1>3. TypeOK'
  BY MatchTypeOK
<1>4. \A i \in 1..n : Born(i)'
  BY <1>2, <1>3, OldBorn DEF FramesBorn
<1>5. ASSUME NEW i \in n + 1..m
      PROVE  Born(i)'
  <2>1. PICK h \in Matches(top) : h = frames'[i].rule
    BY <1>2
  <2>2. h \in DOMAIN kb /\ Attempt(top, h).ok
    BY DEF Matches, Candidates, Conds
  <2>3. /\ IsDone(top)' = IsDone(top) /\ (EulerPath(top)' <=> EulerPath(top))
        /\ Attempt(top, h)' = Attempt(top, h)
    BY <1>2, <1>3, <2>2, GrownKeeps
  <2>4. /\ frames'[i].idx = 0 /\ frames'[i].prev = top /\ frames'[i].creator = top
        /\ subst'[i] = Attempt(top, h).sub
    BY <1>2, <2>1
  <2>5. Attempt(frames[i].prev, frames[i].rule)' = Attempt(top, h)'
    BY <2>1, <2>4
  <2>6. IsDone(frames[i].prev)' = IsDone(top)' /\ (EulerPath(frames[i].prev)' <=> EulerPath(top)')
    BY <2>4
  <2>7. top # Null
    BY FrameFacts
  <2>8. ChildFrame(i)'
    BY <1>2, <2>2, <2>3, <2>4, <2>5, <2>6, <2>7 DEF ChildFrame
  <2>. QED BY <2>8 DEF Born
<1>6. \A i \in 1..m : i \in 1..n \/ i \in n + 1..m
  OBVIOUS
<1>. QED BY <1>2, <1>4, <1>5, <1>6 DEF FramesBorn

LEMMA AscendBorn ==
    ASSUME TypeOK, FramesBorn, Ascend
    PROVE  Grown /\ FramesBorn'
<1>1. PICK top \in DOMAIN frames, q \in DOMAIN frames, new \in Nat :
             /\ q = frames[top].prev /\ IsDone(top) /\ ~EulerPath(top)
             /\ DOMAIN frames = 1..(new - 1) /\ DOMAIN frames' = 1..new
             /\ Grown
             /\ frames'[new].rule = frames[q].rule /\ frames'[new].idx = frames[q].idx + 1
             /\ frames'[new].prev = frames[q].prev /\ frames'[new].creator = top
             /\ subst'[new] = Proved(top).sub
  BY AscendFrames, Zenon
<1>2. TypeOK'
  BY AscendTypeOK
<1>3. \A i \in DOMAIN frames : Born(i)'
  BY <1>1, <1>2, OldBorn DEF FramesBorn
<1>4. Born(new)'
  <2>1. q # Null /\ top # Null
    BY FrameFacts
  <2>2. /\ IsDone(top)' = IsDone(top) /\ (EulerPath(top)' <=> EulerPath(top))
        /\ Proved(top)' = Proved(top)
    BY <1>1, <1>2, <2>1, GrownKeeps
  <2>3. frames'[top].prev = q
    BY <1>1 DEF Grown
  <2>4. IsDone(frames[new].creator)' = IsDone(top)' /\ (EulerPath(frames[new].creator)' <=> EulerPath(top)')
    BY <1>1
  <2>5. Proved(frames[new].creator)' = Proved(top)'
    BY <1>1
  <2>6. /\ frames'[q].rule = frames[q].rule /\ frames'[q].idx = frames[q].idx
        /\ frames'[q].prev = frames[q].prev
    BY <1>1 DEF Grown
  <2>7. CopyFrame(new)'
    BY <1>1, <2>1, <2>2, <2>3, <2>4, <2>5, <2>6 DEF CopyFrame
  <2>. QED BY <2>7 DEF Born
<1>5. \A i \in 1..new : i \in 1..(new - 1) \/ i = new
  OBVIOUS
<1>. QED BY <1>1, <1>3, <1>4, <1>5 DEF FramesBorn

LEMMA DoQueryBorn ==
    ASSUME TypeOK, FramesBorn, NEW goal \in Goals, DoQuery(goal)
    PROVE  Grown /\ FramesBorn'
<1>1. PICK new \in Nat : \E k \in Nat :
             /\ DOMAIN frames = 1..(new - 1) /\ DOMAIN frames' = 1..new
             /\ DOMAIN kb = 1..(k - 1) /\ DOMAIN kb' = 1..k
             /\ kb'[k] = [head |-> NIL, body |-> goal]
             /\ Grown
             /\ frames'[new].rule = k /\ frames'[new].idx = 0
             /\ frames'[new].prev = Null /\ frames'[new].creator = Null
             /\ subst'[new] = NoSubs
  BY DoQueryFrames, Zenon
<1>2. PICK k \in Nat :
             /\ kb'[k] = [head |-> NIL, body |-> goal]
             /\ Grown
             /\ frames'[new].rule = k /\ frames'[new].idx = 0
             /\ frames'[new].prev = Null /\ frames'[new].creator = Null
             /\ subst'[new] = NoSubs
  BY <1>1
<1>3. TypeOK'
  BY DoQueryTypeOK
<1>4. \A i \in DOMAIN frames : Born(i)'
  BY <1>2, <1>3, OldBorn DEF FramesBorn
<1>5. Born(new)'
  BY <1>2 DEF Born, GoalFrame, HeadOf
<1>6. \A i \in 1..new : i \in 1..(new - 1) \/ i = new
  OBVIOUS
<1>. QED BY <1>2, <1>1, <1>4, <1>5, <1>6 DEF FramesBorn

\* A step that makes no frame.
LEMMA SameFramesBorn ==
    ASSUME TypeOK, FramesBorn, TypeOK', frames' = frames, subst' = subst, kb' = kb
    PROVE  Grown /\ FramesBorn'
<1>1. Grown
  BY DEF Grown
<1>. QED BY <1>1, OldBorn DEF FramesBorn

LEMMA NextBorn == ASSUME TypeOK, FramesBorn, [Next]_vars PROVE Grown /\ FramesBorn'
<1>1. TypeOK'
  BY NextTypeOK
<1>2. CASE UNCHANGED <<kb, frames, subst>>
  BY <1>1, <1>2, SameFramesBorn
<1>3. CASE Prune \/ Ground \/ Throw \/ PushEv \/ UNCHANGED vars
  BY <1>2, <1>3 DEF Prune, Ground, Throw, PushEv, vars
<1>. QED BY <1>3, DoQueryBorn, MatchBorn, AscendBorn DEF Next, Step

LEMMA GoalsDoneKept ==
    ASSUME TypeOK, TypeOK', Grown, GoalsDone, [Next]_vars
    PROVE  gnd \subseteq gnd' /\ GoalsDone'
<1>1. gnd \subseteq DOMAIN frames
  BY DEF TypeOK, Types
<1>2. \A i \in gnd : IsDone(i)' /\ frames'[i].prev = Null
  BY <1>1, GrownKeeps DEF GoalsDone, Grown
<1>3. CASE Ground
  <2>1. PICK top \in DOMAIN frames : top = Top
    BY <1>3, TopIsFrame DEF Ground
  <2>2. gnd' = gnd \cup {top} /\ IsDone(top) /\ frames[top].prev = Null
    BY <1>3, <2>1 DEF Ground
  <2>3. IsDone(top)' /\ frames'[top].prev = Null
    BY <2>2, GrownKeeps DEF Grown
  <2>. QED BY <1>2, <2>2, <2>3 DEF GoalsDone
<1>4. CASE gnd' = gnd
  BY <1>2, <1>4 DEF GoalsDone
<1>. QED BY <1>3, <1>4 DEF Next, Step, DoQuery, Prune, Match, Ascend, Throw, PushEv, vars

LEMMA EvidenceKept ==
    ASSUME TypeOK, TypeOK', Grown, EvidenceShown, gnd \subseteq gnd', [Next]_vars
    PROVE  EvidenceShown'
<1>1. gnd \subseteq DOMAIN frames
  BY DEF TypeOK, Types
<1>2. ASSUME NEW f \in gnd
      PROVE  f \in gnd' /\ BodyOf(f)' = BodyOf(f) /\ subst'[f] = subst[f]
  BY <1>1, GrownKeeps DEF Grown
<1>3. ASSUME NEW x \in e', x.f \in gnd,
             \E k \in DOMAIN BodyOf(x.f) : x.t = Evaluate(BodyOf(x.f)[k], subst[x.f])
      PROVE  /\ x.f \in gnd'
             /\ \E k \in DOMAIN BodyOf(x.f)' : x.t = Evaluate(BodyOf(x.f)'[k], subst'[x.f])
  <2>1. PICK f \in gnd : f = x.f
    BY <1>3
  <2>2. BodyOf(x.f)' = BodyOf(x.f) /\ subst'[x.f] = subst[x.f] /\ x.f \in gnd'
    BY <1>2, <2>1
  <2>. QED BY <1>3, <2>2
<1>4. CASE PushEv
  <2>1. ASSUME NEW x \in e' \ e
        PROVE  /\ x.f \in gnd
               /\ \E k \in DOMAIN BodyOf(x.f) : x.t = Evaluate(BodyOf(x.f)[k], subst[x.f])
    <3>1. PICK i \in gnd : x \in Evidence(i)
      BY <1>4 DEF PushEv
    <3>2. PICK k \in DOMAIN BodyOf(i) : x = [t |-> Evaluate(BodyOf(i)[k], subst[i]), f |-> i]
      BY <3>1 DEF Evidence
    <3>3. x.f = i /\ x.t = Evaluate(BodyOf(i)[k], subst[i])
      BY <3>2
    <3>. QED BY <3>3
  <2>. QED BY <1>3, <2>1 DEF EvidenceShown
<1>5. CASE e' = e
  BY <1>3, <1>5 DEF EvidenceShown
<1>. QED BY <1>4, <1>5 DEF Next, Step, DoQuery, Prune, Match, Ground, Ascend, Throw, vars

LEMMA ReasonKept ==
    ASSUME ThrowsForReason, [Next]_vars
    PROVE  ThrowsForReason'
<1>1. CASE UNCHANGED <<kb, frames, subst, cur, rec>> /\ (Throw \/ status' = status)
  BY <1>1 DEF Throw, ThrowsForReason, Top, IsDone, Proved, HeadOf, BodyOf, Wanted,
              Candidates, Conds, Attempt
<1>2. CASE status' # "threw"
  BY <1>2 DEF ThrowsForReason
<1>3. CASE Prune \/ Match \/ Ground
  BY <1>2, <1>3 DEF Prune, Match, Ground, Return
<1>4. CASE Ascend \/ PushEv \/ \E goal \in Goals : DoQuery(goal)
  BY <1>2, <1>4 DEF Ascend, PushEv, DoQuery
<1>5. CASE Throw \/ UNCHANGED vars
  BY <1>1, <1>5 DEF Throw, vars
<1>. QED BY <1>3, <1>4, <1>5 DEF Next, Step

LEMMA NextSearch == SearchInv /\ [Next]_vars => SearchInv'
<1>. SUFFICES ASSUME SearchInv, [Next]_vars PROVE SearchInv'
  OBVIOUS
<1>1. TypeOK'
  BY NextTypeOK DEF SearchInv
<1>2. Grown /\ FramesBorn'
  BY NextBorn DEF SearchInv
<1>3. gnd \subseteq gnd' /\ GoalsDone'
  BY <1>1, <1>2, GoalsDoneKept DEF SearchInv
<1>4. EvidenceShown'
  BY <1>1, <1>2, <1>3, EvidenceKept DEF SearchInv
<1>5. ThrowsForReason'
  BY ReasonKept DEF SearchInv
<1>. QED BY <1>1, <1>2, <1>3, <1>4, <1>5 DEF SearchInv

LEMMA InitSearch == Init => SearchInv
<1>. SUFFICES ASSUME Init PROVE SearchInv
  OBVIOUS
<1>1. TypeOK /\ DOMAIN frames = {} /\ gnd = {} /\ e = {} /\ status # "threw"
  BY InitTypeOK DEF Init
<1>. QED BY <1>1 DEF SearchInv, FramesBorn, ThrowsForReason, GoalsDone, EvidenceShown

\* Every frame there ever is came about as the goal of a query, for a rule that
\* matched, or as the copy that answers a proved rule (prover.cpp 442-474),
\* and what is reported stands in the body of a goal that was proved.
THEOREM SearchCorrect == Spec => []SearchInv
BY InitSearch, NextSearch, PTL DEF Spec

---------------------------------------------------------------------------
(* Rules without variables in the place of predicates.                     *)

\* No term of the rules and goals has a variable for a predicate.
NamedPredicates ==
    \A r \in DOMAIN kb : \A t \in TermsOf(kb[r].body) \cup ({kb[r].head} \ {NIL}) : ~IsVar(t)

LEMMA FrameNamed ==
    ASSUME TypeOK, NamedPredicates, NEW i \in DOMAIN frames
    PROVE  /\ ~IsDone(i) => Wanted(i) \in Terms /\ ~IsVar(Wanted(i))
           /\ HeadOf(i) # NIL => HeadOf(i) \in Terms /\ ~IsVar(HeadOf(i))
<1>1. frames[i].rule \in DOMAIN kb /\ frames[i].idx \in Nat
  BY FrameFacts, OlderPointers
<1>2. ASSUME ~IsDone(i)
      PROVE  Wanted(i) \in Terms /\ ~IsVar(Wanted(i))
  <2>1. Wanted(i) \in Terms /\ BodyOf(i) \in Seq(Terms) /\ frames[i].idx + 1 <= Len(BodyOf(i))
    BY <1>2, FrameFacts
  <2>2. frames[i].idx + 1 \in DOMAIN BodyOf(i)
    BY <1>1, <2>1
  <2>3. Wanted(i) \in TermsOf(kb[frames[i].rule].body)
    BY <2>2 DEF Wanted, TermsOf, BodyOf
  <2>. QED BY <1>1, <2>1, <2>3 DEF NamedPredicates
<1>3. ASSUME HeadOf(i) # NIL
      PROVE  HeadOf(i) \in Terms /\ ~IsVar(HeadOf(i))
  <2>1. HeadOf(i) \in Terms
    BY <1>3, FrameFacts
  <2>. QED BY <1>1, <1>3, <2>1 DEF NamedPredicates, HeadOf
<1>. QED BY <1>2, <1>3

\* What a frame has bound is a name or a variable, never a triple.
LEMMA FramesBindAtoms ==
    ASSUME TypeOK, FramesBorn, NamedPredicates
    PROVE  \A i \in DOMAIN frames : AtomsOnly(subst[i])
<1>1. PICK n \in Nat : DOMAIN frames = 1..n
  BY TypesNow DEF TypeOK
<1>. DEFINE S == {i \in 1..n : AtomsOnly(subst[i])}
<1>2. ASSUME NEW i \in 1..n, \A j \in 1..n : j < i => j \in S
      PROVE  i \in S
  <2>1. CASE GoalFrame(i)
    BY <2>1, NoSubsAtoms DEF GoalFrame
  <2>2. CASE ChildFrame(i)
    <3>1. PICK q \in 1..n : q = frames[i].prev /\ q < i
      BY <1>1, <2>2, OlderPointers DEF ChildFrame
    <3>2. PICK r \in DOMAIN kb : r = frames[i].rule
      BY <1>1, FrameFacts
    <3>3. ~IsDone(q) /\ subst[i] = Attempt(q, r).sub
      BY <2>2, <3>1, <3>2 DEF ChildFrame
    <3>4. AtomsOnly(subst[q])
      BY <1>2, <3>1
    <3>5. Wanted(q) \in Terms /\ ~IsVar(Wanted(q))
      BY <1>1, <3>3, FrameNamed
    <3>6. kb[r].head \in Terms \cup {NIL} /\ (kb[r].head # NIL => ~IsVar(kb[r].head))
      <4>1. kb[r] \in Rules
        BY DEF TypeOK, Types
      <4>. QED BY <4>1 DEF Rules, NamedPredicates
    <3>7. AtomsOnly(Attempt(q, r).sub)
      BY <3>4, <3>5, <3>6, NoSubsAtoms, UnifyNamed DEF Attempt
    <3>. QED BY <3>3, <3>7
  <2>3. CASE CopyFrame(i)
    <3>1. PICK j \in 1..n : j = frames[i].creator /\ j < i
      BY <1>1, <2>3, OlderPointers DEF CopyFrame
    <3>2. PICK q \in 1..n : q = frames[j].prev /\ q < j /\ q # Null
      BY <1>1, <2>3, <3>1, OlderPointers DEF CopyFrame
    <3>3. subst[i] = Proved(j).sub
      BY <2>3, <3>1 DEF CopyFrame
    <3>4. q < i
      BY <3>1, <3>2
    <3>5. AtomsOnly(subst[j]) /\ AtomsOnly(subst[q])
      BY <1>2, <3>1, <3>2, <3>4
    <3>6. FrameOK(j)
      BY <1>1 DEF TypeOK
    <3>7. ~IsDone(q) /\ HeadOf(j) # NIL
      BY <3>2, <3>6 DEF FrameOK
    <3>8. /\ Wanted(q) \in Terms /\ ~IsVar(Wanted(q))
          /\ HeadOf(j) \in Terms /\ ~IsVar(HeadOf(j))
      BY <1>1, <3>7, FrameNamed
    <3>9. AtomsOnly(Proved(j).sub)
      BY <3>2, <3>5, <3>8, UnifyNamed DEF Proved
    <3>. QED BY <3>3, <3>9
  <2>. QED BY <1>1, <2>1, <2>2, <2>3 DEF FramesBorn, Born
<1>3. \A i \in 1..n : i \in S
  <2>. HIDE DEF S
  <2>. QED BY <1>2, CompleteInduction
<1>. QED BY <1>1, <1>3

LEMMA NamedNeverThrow == SearchInv => OnlyPredicatesThrow
<1>. SUFFICES ASSUME SearchInv, NamedPredicates, status = "threw" PROVE FALSE
  BY DEF OnlyPredicatesThrow, NamedPredicates
<1>1. TypeOK /\ Top \in DOMAIN frames
  <2>1. TypeOK
    BY DEF SearchInv
  <2>2. DOMAIN frames = 1..Len(frames) /\ Len(frames) \in Nat
    BY <2>1, TypesNow DEF TypeOK
  <2>. QED BY <2>1, <2>2 DEF TypeOK, Types, Top, Null, Pointers
<1>2. PICK top \in DOMAIN frames : top = Top
  BY <1>1
<1>3. \A i \in DOMAIN frames : AtomsOnly(subst[i])
  BY FramesBindAtoms DEF SearchInv
<1>4. CASE IsDone(top)
  <2>1. frames[top].prev # Null /\ Proved(top).threw
    BY <1>2, <1>4 DEF SearchInv, ThrowsForReason
  <2>2. PICK q \in DOMAIN frames : q = frames[top].prev
    BY <1>1, <2>1, OlderPointers
  <2>3. FrameOK(top)
    BY <1>1 DEF TypeOK
  <2>4. ~IsDone(q) /\ HeadOf(top) # NIL
    BY <2>1, <2>2, <2>3 DEF FrameOK
  <2>5. /\ Wanted(q) \in Terms /\ ~IsVar(Wanted(q))
        /\ HeadOf(top) \in Terms /\ ~IsVar(HeadOf(top))
    BY <1>1, <2>4, FrameNamed
  <2>6. ~Proved(top).threw
    BY <1>3, <2>2, <2>5, UnifyNamed DEF Proved
  <2>. QED BY <2>1, <2>6
<1>5. CASE ~IsDone(top)
  <2>1. PICK h \in Candidates(top) : Attempt(top, h).threw
    BY <1>2, <1>5 DEF SearchInv, ThrowsForReason
  <2>2. h \in DOMAIN kb
    BY DEF Candidates, Conds
  <2>3. kb[h].head \in Terms \cup {NIL} /\ (kb[h].head # NIL => ~IsVar(kb[h].head))
    <3>1. kb[h] \in Rules
      BY <1>1, <2>2 DEF TypeOK, Types
    <3>. QED BY <2>2, <3>1 DEF Rules, NamedPredicates
  <2>4. Wanted(top) \in Terms /\ ~IsVar(Wanted(top))
    BY <1>1, <1>5, FrameNamed
  <2>5. ~Attempt(top, h).threw
    BY <1>3, <2>3, <2>4, NoSubsAtoms, UnifyNamed DEF Attempt
  <2>. QED BY <2>1, <2>5
<1>. QED BY <1>4, <1>5

\* Only a variable in the place of a predicate makes unification throw
\* (prover.cpp 236-385), whatever the rules and goals and however deep the
\* search: without one, no query ends in an exception.
THEOREM ThrowsOnlyForPredicates == Spec => []OnlyPredicatesThrow
BY SearchCorrect, NamedNeverThrow, PTL

---------------------------------------------------------------------------
(* The index of the rules.                                                 *)

\* The rules that the term wanted unifies with have variables of their own.
HeadsApart ==
    status = "stepping" /\ ~IsDone(Top) =>
        \A h \in DOMAIN kb :
            Attempt(Top, h).ok => Apart(kb[h].head, Wanted(Top), subst[Top])

LEMMA NamedIndexComplete == SearchInv => (NamedPredicates /\ HeadsApart => IndexComplete)
<1>. SUFFICES ASSUME SearchInv, NamedPredicates, HeadsApart, status = "stepping", ~IsDone(Top),
                     NEW h \in DOMAIN kb, Attempt(Top, h).ok
              PROVE  h \in Candidates(Top)
  BY DEF IndexComplete
<1>1. TypeOK /\ kb[h] \in Rules
  <2>1. TypeOK
    BY DEF SearchInv
  <2>2. kb \in Seq(Rules)
    BY <2>1, TypesNow DEF TypeOK
  <2>. QED BY <2>1, <2>2
<1>2. PICK top \in DOMAIN frames : top = Top
  BY <1>1, TopIsFrame
<1>3. AtomsOnly(subst[top])
  BY FramesBindAtoms DEF SearchInv
<1>4. Wanted(top) \in Terms /\ ~IsVar(Wanted(top))
  BY <1>1, <1>2, FrameNamed
<1>5. kb[h].head \in Terms \cup {NIL}
  BY <1>1 DEF Rules
<1>6. Unify(Wanted(top), subst[top], kb[h].head, NoSubs).ok
  BY <1>2 DEF Attempt
<1>7. kb[h].head \in Terms
  BY <1>3, <1>4, <1>5, <1>6, NoSubsType, UnifyType DEF AtomsOnly
<1>8. ~IsVar(kb[h].head)
  BY <1>7, TermShape DEF NamedPredicates
<1>9. Apart(kb[h].head, Wanted(top), subst[top])
  BY <1>2 DEF HeadsApart
<1>10. MkSubs(Wanted(top), kb[h].head).ok /\ CaseOf(MkSubs(Wanted(top), kb[h].head).sub, subst[top])
  BY <1>3, <1>4, <1>6, <1>7, <1>8, <1>9, ConditionMet
<1>. QED BY <1>2, <1>10 DEF Candidates, Conds

\* The conditions that mkconds works out once for a query hide no rule from
\* match_heads (prover.cpp 387-440) that has variables of its own, whatever is
\* bound by then: they only skip rules whose head would not have unified.
THEOREM IndexHidesNone == Spec => [](NamedPredicates /\ HeadsApart => IndexComplete)
BY SearchCorrect, NamedIndexComplete, PTL

---------------------------------------------------------------------------
(* Rules whose heads have no variables: branches are short.                *)

\* A term without variables.
Free(t) == \A k \in DOMAIN t : t[k] \notin Vars

LEMMA UnifiesWithItself ==
    ASSUME NEW t \in Terms, Free(t), NEW ss, NEW ds
    PROVE  UnifyEp(t, ss, t, ds)
<1>1. t # NIL /\ ~IsVar(t) /\ (Len(t) = 1 \/ Len(t) = 3)
  <2>1. 1 \in DOMAIN t
    BY DEF Terms, Atoms, Triples
  <2>. QED BY <2>1, TermShape DEF Free, IsVar
<1>2. UnifyEp(t, ss, t, ds) <=> UnifyArgsEp(t, ss, t, ds)
  BY <1>1 DEF UnifyEp, UnifyByEp, UnifyConstEp, SameShape
<1>3. ASSUME NEW r \in Names
      PROVE  UnifyAtomsEp(<<r>>, ss, <<r>>, ds)
  <2>1. ~IsVar(<<r>>)
    BY VarsAreNotNames DEF IsVar
  <2>. QED BY <2>1 DEF UnifyAtomsEp, UnifyByEp, UnifyConstEp, NoArgsEp, SameShape
<1>4. CASE Len(t) = 1
  BY <1>2, <1>4 DEF UnifyArgsEp
<1>5. CASE Len(t) = 3
  <2>1. t \in Triples /\ 2 \in DOMAIN t /\ 3 \in DOMAIN t
    BY <1>5, TermShape DEF Triples
  <2>2. t[2] \in Names /\ t[3] \in Names
    BY <2>1 DEF Free, Triples, Resources
  <2>. QED BY <1>2, <1>3, <2>2 DEF UnifyArgsEp, Subject, Object
<1>. QED BY <1>1, <1>4, <1>5

\* Above a frame every rule occurs once: the one frame that repeats a rule is
\* the one that euler_path stops.
LEMMA RulesAboveDiffer ==
    ASSUME TypeOK, FramesBorn, VariableFree(Heads)
    PROVE  \A i \in DOMAIN frames :
             \A a \in Path(frames[i].prev) : \A b \in Path(frames[i].prev) :
                 frames[a].rule = frames[b].rule => a = b
<1>1. PICK n \in Nat : DOMAIN frames = 1..n
  BY TypesNow DEF TypeOK
<1>2. PathEquation
  BY PathUnfolds
<1>. DEFINE Differ(T) == \A a \in T : \A b \in T : frames[a].rule = frames[b].rule => a = b
            S == {i \in 1..n : Differ(Path(frames[i].prev))}
<1>3. ASSUME NEW i \in 1..n, \A j \in 1..n : j < i => j \in S
      PROVE  i \in S
  <2>1. CASE GoalFrame(i)
    <3>1. Path(frames[i].prev) = {}
      BY <1>2, <2>1 DEF GoalFrame, PathEquation
    <3>. QED BY <3>1
  <2>2. CASE ChildFrame(i)
    <3>1. PICK q \in 1..n : q = frames[i].prev /\ q < i
      BY <1>1, <2>2, OlderPointers DEF ChildFrame
    <3>2. ~EulerPath(q)
      BY <2>2, <3>1 DEF ChildFrame
    <3>3. Differ(Path(frames[q].prev))
      BY <1>3, <3>1
    <3>4. Path(q) = {q} \cup Path(frames[q].prev)
      BY <1>1, <1>2 DEF PathEquation
    <3>5. ASSUME NEW a \in Path(frames[q].prev)
          PROVE  frames[a].rule # frames[q].rule
      <4>1. PICK p \in 1..n : p = frames[q].prev /\ p < q
        BY <1>1, <1>2, <3>5, OlderPointers DEF PathEquation
      <4>2. a \in 1..p
        BY <1>1, <3>5, <4>1, PathBelow
      <4>3. a \in 1..n /\ a # q
        BY <4>1, <4>2
      <4>4. a \in Ancestors(q)
        BY <3>4, <4>3 DEF Ancestors
      <4>5. HeadOf(q) # NIL /\ HeadOf(q) \in Terms
        <5>1. FrameOK(q)
          BY <1>1 DEF TypeOK
        <5>2. p # Null
          BY <1>1, <4>1, FrameFacts
        <5>. QED BY <1>1, <4>1, <5>1, <5>2, FrameFacts DEF FrameOK
      <4>. SUFFICES ASSUME frames[a].rule = frames[q].rule PROVE FALSE
        OBVIOUS
      <4>6. HeadOf(a) = HeadOf(q)
        BY DEF HeadOf
      <4>7. Free(HeadOf(q))
        <5>1. HeadOf(q) \in Heads
          BY <1>1, <4>5, FrameFacts DEF Heads, HeadOf
        <5>. QED BY <5>1 DEF VariableFree, Free
      <4>8. UnifyEp(HeadOf(a), subst[a], HeadOf(q), subst[q])
        BY <4>5, <4>6, <4>7, UnifiesWithItself
      <4>. QED BY <3>2, <4>4, <4>5, <4>8 DEF EulerPath
    <3>6. Differ(Path(q))
      BY <3>3, <3>4, <3>5
    <3>. QED BY <3>1, <3>6
  <2>3. CASE CopyFrame(i)
    <3>1. PICK j \in 1..n : j = frames[i].creator /\ j < i
      BY <1>1, <2>3, OlderPointers DEF CopyFrame
    <3>2. PICK q \in 1..n : q = frames[j].prev /\ q < j /\ frames[i].prev = frames[q].prev
      BY <1>1, <2>3, <3>1, OlderPointers DEF CopyFrame
    <3>3. q < i
      BY <3>1, <3>2
    <3>4. Differ(Path(frames[q].prev))
      BY <1>3, <3>3
    <3>. QED BY <3>2, <3>4
  <2>. QED BY <1>1, <2>1, <2>2, <2>3 DEF FramesBorn, Born
<1>4. \A i \in 1..n : i \in S
  <2>. HIDE DEF S
  <2>. QED BY <1>3, CompleteInduction
<1>. QED BY <1>1, <1>4

LEMMA BranchShort == SearchInv => (VariableFree(Heads) => BranchBounded)
<1>. SUFFICES ASSUME SearchInv, VariableFree(Heads), status = "stepping"
              PROVE  Cardinality(Path(Top)) <= Len(kb) + 1
  BY DEF BranchBounded
<1>1. TypeOK /\ FramesBorn
  BY DEF SearchInv
<1>2. PICK top \in DOMAIN frames : top = Top
  BY <1>1, TopIsFrame
<1>3. PICK above : above = Path(frames[top].prev)
  OBVIOUS
<1>4. Path(top) = {top} \cup above
  BY <1>1, <1>3, PathUnfolds DEF PathEquation
<1>5. above \subseteq DOMAIN frames
  <2>1. CASE frames[top].prev = Null
    BY <1>1, <1>3, <2>1, PathUnfolds DEF PathEquation
  <2>2. CASE frames[top].prev # Null
    <3>1. PICK q \in DOMAIN frames : q = frames[top].prev
      BY <1>1, <2>2, OlderPointers
    <3>2. PICK n \in Nat : DOMAIN frames = 1..n
      BY <1>1, TypesNow DEF TypeOK
    <3>3. Path(q) \subseteq 1..q
      BY <1>1, PathBelow
    <3>. QED BY <1>3, <3>1, <3>2, <3>3
  <2>. QED BY <2>1, <2>2
<1>6. \A a \in above : \A b \in above : frames[a].rule = frames[b].rule => a = b
  BY <1>1, <1>3, RulesAboveDiffer
<1>7. \A a \in above : frames[a].rule \in DOMAIN kb
  BY <1>1, <1>5, FrameFacts
<1>8. [a \in above |-> frames[a].rule] \in Injection(above, DOMAIN kb)
  BY <1>6, <1>7 DEF Injection, IsInjective
<1>9. IsFiniteSet(DOMAIN kb) /\ Cardinality(DOMAIN kb) = Len(kb) /\ Len(kb) \in Nat
  <2>1. kb \in Seq(Rules)
    BY <1>1, TypesNow DEF TypeOK
  <2>2. Len(kb) \in Nat /\ DOMAIN kb = 1..Len(kb)
    BY <2>1
  <2>. QED BY <2>2, FS_Interval
<1>10. IsFiniteSet(above) /\ Cardinality(above) <= Len(kb)
  BY <1>8, <1>9, FS_Injection
<1>11. Cardinality(above) \in Nat
  BY <1>10, FS_CardinalityType
<1>12. Cardinality(above \cup {top}) <= Len(kb) + 1
  <2>1. Cardinality(above \cup {top}) = IF top \in above THEN Cardinality(above) ELSE Cardinality(above) + 1
    BY <1>10, FS_AddElement
  <2>. QED BY <1>9, <1>10, <1>11, <2>1
<1>13. Path(Top) = above \cup {top}
  BY <1>2, <1>4
<1>. QED BY <1>12, <1>13

\* euler_path keeps branches short: if no head has a variable, the branch that
\* is explored is never longer than the rule base, one goal and all, whatever
\* cycles the rules have (prover.cpp 127-138).
THEOREM BranchesEnd == Spec => [](VariableFree(Heads) => BranchBounded)
BY SearchCorrect, BranchShort, PTL

---------------------------------------------------------------------------
(***************************************************************************)
(* The list of frames keeps its links whatever the steps push on it, and   *)
(* do_query's loop visits its frames in order, for every rule base, goal   *)
(* and number of queries.  The inductive invariant is                      *)
(* TypeOK /\ QueueIntact: a frame's links are kept because lastp is the    *)
(* newest listed frame (EndsAtLastp), and the loop stays on the list       *)
(* because what it steps is (LoopOnList).                                  *)
(*                                                                         *)
(* The last part is what the list is for: no frame is forgotten            *)
(* (NoneForgotten).  A frame that has not been tried is the one that is    *)
(* stepped next or is listed behind the one the loop has come to           *)
(* (TriedOrWaiting), so that none is left when the loop ends.              *)
(***************************************************************************)

QueueInv == TypeOK /\ QueueIntact

LEMMA InitQueue == Init => QueueIntact
<1>. SUFFICES ASSUME Init PROVE QueueIntact
  OBVIOUS
<1>1. DOMAIN frames = {} /\ frames = <<>> /\ cur = Null /\ rec = Null /\ status = "idle"
  BY DEF Init
<1>. QED BY <1>1 DEF QueueIntact, EndsAtLastp, LoopOnList, RecursionOnCopy

---------------------------------------------------------------------------
(* A frame is added at the end of `frames` and linked to nothing: a copy   *)
(* (Ascend), or the goal of a query (DoQuery).                             *)

LEMMA UnlinkedFrame ==
    ASSUME QueueInv, NEW f \in Frames,
           frames' = Append(frames, f), f.next = Null,
           f.creator = f.prev => f.creator = Null
    PROVE  /\ \A i \in DOMAIN frames' : LinkOK(i)'
           /\ DOMAIN frames' = 1..Len(frames')
           /\ Len(frames') = Len(frames) + 1
           /\ Len(frames') \in Nat
           /\ frames'[Len(frames')] = f
           /\ \A i \in DOMAIN frames : i \in DOMAIN frames' /\ frames'[i] = frames[i]
<1>. PICK new \in Nat : new = Len(frames) + 1
  BY TypesNow DEF QueueInv, TypeOK
<1>1. frames \in Seq(Frames) /\ DOMAIN frames = 1..(new - 1)
  BY TypesNow DEF QueueInv, TypeOK
<1>2. /\ frames' \in Seq(Frames) /\ Len(frames') = new /\ DOMAIN frames' = 1..new
      /\ frames'[new] = f
      /\ \A i \in DOMAIN frames : i \in DOMAIN frames' /\ frames'[i] = frames[i]
  BY <1>1
<1>3. \A i \in DOMAIN frames : (Listed(i)' <=> Listed(i)) /\ (IsGoal(i)' <=> IsGoal(i))
  BY <1>2 DEF Listed, IsGoal
<1>4. ~(Listed(new)' /\ ~IsGoal(new)')
  BY <1>2 DEF Listed, IsGoal
<1>5. \A j \in DOMAIN frames' : j \in DOMAIN frames \/ j = new
  BY <1>1, <1>2
<1>6. ASSUME NEW i \in DOMAIN frames, NEW j, Follows(i, j) PROVE Follows(i, j)'
  <2>1. \A k \in DOMAIN frames' : i < k /\ k < j => k \in DOMAIN frames
    BY <1>1, <1>2, <1>6 DEF Follows
  <2>. QED BY <1>2, <1>3, <1>6, <2>1 DEF Follows
<1>7. ASSUME NEW i \in DOMAIN frames, NEW j, Follows(i, j)' PROVE Follows(i, j)
  <2>1. j \in DOMAIN frames
    BY <1>4, <1>5, <1>7 DEF Follows
  <2>. QED BY <1>2, <1>3, <1>7, <2>1 DEF Follows
<1>8. \A i \in DOMAIN frames : LinkOK(i)'
  <2>. TAKE i \in DOMAIN frames
  <2>1. LinkOK(i)
    BY DEF QueueInv, QueueIntact
  <2>2. frames'[i].next = frames[i].next
    BY <1>2
  <2>3. IsLast(i) => IsLast(i)'
    BY <1>2, <1>4, <1>5, <1>7 DEF IsLast, Follows
  <2>. QED BY <1>3, <1>6, <2>1, <2>2, <2>3 DEF LinkOK
<1>9. LinkOK(new)'
  <2>1. IsLast(new)'
    BY <1>2 DEF IsLast, Follows
  <2>. QED BY <1>2, <2>1 DEF LinkOK
<1>. QED BY <1>2, <1>5, <1>8, <1>9

LEMMA DoQueryQueue == ASSUME QueueInv, NEW goal \in Goals, DoQuery(goal) PROVE QueueIntact'
<1>. PICK f \in Frames : f = Frame(Len(kb) + 1, 0, Null, Null)
  BY TypesNow, FrameType DEF QueueInv, TypeOK, Null
<1>. PICK new \in Nat : new = Len(frames) + 1
  BY TypesNow DEF QueueInv, TypeOK
<1>1. /\ frames' = Append(frames, f) /\ f.next = Null /\ f.creator = Null /\ f.prev = Null
      /\ cur' = new /\ lastp' = new /\ status' = "stepping" /\ rec' = rec
      /\ status = "idle"
  BY DEF DoQuery, Frame
<1>2. /\ \A i \in DOMAIN frames' : LinkOK(i)'
      /\ DOMAIN frames' = 1..new /\ Len(frames') = new /\ frames'[new] = f
  BY <1>1, UnlinkedFrame
<1>3. Listed(new)' /\ new \in DOMAIN frames' /\ new # Null
  <2>1. new >= 1
    BY TypesNow DEF QueueInv, TypeOK
  <2>. QED BY <1>1, <1>2, <2>1 DEF Listed, Null
<1>4. EndsAtLastp'
  BY <1>1, <1>2, <1>3 DEF EndsAtLastp
<1>5. LoopOnList'
  BY <1>1, <1>2, <1>3 DEF LoopOnList
<1>6. RecursionOnCopy'
  BY <1>1 DEF QueueInv, QueueIntact, LoopOnList, RecursionOnCopy
<1>. QED BY <1>2, <1>4, <1>5, <1>6 DEF QueueIntact

LEMMA AscendQueue == ASSUME QueueInv, Ascend PROVE QueueIntact'
<1>1. PICK top \in DOMAIN frames, q \in DOMAIN frames :
             /\ q < top
             /\ frames' = Append(frames, Frame(frames[q].rule, frames[q].idx + 1, frames[q].prev, top))
             /\ rec' = Len(frames) + 1
             /\ UNCHANGED <<kb, lastp, cur, gnd, e, status>>
  BY AscendShape, Zenon DEF QueueInv
<1>2. /\ frames \in Seq(Frames) /\ DOMAIN frames = 1..Len(frames) /\ Len(frames) \in Nat
      /\ frames[q] \in Frames /\ top \in Nat /\ top # Null /\ q \in Nat
  BY TypesNow, FrameFacts DEF QueueInv, TypeOK
<1>3. PICK f \in Frames : f = Frame(frames[q].rule, frames[q].idx + 1, frames[q].prev, top)
  <2>1. frames[q] \in Frames
    BY <1>2
  <2>2. frames[q].rule \in Nat /\ frames[q].idx + 1 \in Nat /\ frames[q].prev \in Nat
    BY <2>1 DEF Frames
  <2>. QED BY <1>2, <2>2, FrameType
<1>4. f.next = Null /\ f.prev = frames[q].prev /\ f.creator = top
  BY <1>3 DEF Frame
<1>5. f.prev # f.creator
  <2>1. frames[q].prev <= frames[q].creator /\ frames[q].creator < q
    BY DEF QueueInv, TypeOK, FrameOK
  <2>2. frames[q].prev \in Nat /\ frames[q].creator \in Nat
    BY <1>2 DEF Frames
  <2>. QED BY <1>1, <1>2, <1>4, <2>1, <2>2
<1>6. PICK new \in Nat : new = Len(frames) + 1
  BY <1>2
<1>7. /\ \A i \in DOMAIN frames' : LinkOK(i)'
      /\ DOMAIN frames' = 1..new /\ Len(frames') = new /\ frames'[new] = f
      /\ \A i \in DOMAIN frames : i \in DOMAIN frames' /\ frames'[i] = frames[i]
  BY <1>1, <1>3, <1>4, <1>5, <1>6, UnlinkedFrame
<1>8. \A i \in DOMAIN frames : (Listed(i)' <=> Listed(i)) /\ (IsGoal(i)' <=> IsGoal(i))
  BY <1>7 DEF Listed, IsGoal
<1>9. ~Listed(new)' /\ ~IsGoal(new)'
  BY <1>2, <1>4, <1>5, <1>7 DEF Listed, IsGoal
<1>10. /\ \A j \in DOMAIN frames' : j \in DOMAIN frames \/ j = new
       /\ status = "stepping" /\ cur # Null /\ cur \in DOMAIN frames
  BY <1>2, <1>6, <1>7, TopIsFrame DEF Ascend, QueueInv, TypeOK
<1>11. EndsAtLastp'
  <2>1. frames # <<>>
    BY <1>10
  <2>2. /\ lastp \in DOMAIN frames /\ Listed(lastp)
        /\ \A j \in DOMAIN frames : Listed(j) => j <= lastp
    BY <2>1 DEF QueueInv, QueueIntact, EndsAtLastp
  <2>3. lastp' = lastp
    BY <1>1
  <2>. QED BY <1>7, <1>8, <1>9, <1>10, <2>2, <2>3 DEF EndsAtLastp
<1>12. LoopOnList'
  <2>1. cur' = cur /\ status' = status
    BY <1>1
  <2>. QED BY <1>8, <1>9, <1>10, <2>1 DEF QueueInv, QueueIntact, LoopOnList
<1>13. RecursionOnCopy'
  BY <1>1, <1>6, <1>7, <1>9, <1>10 DEF RecursionOnCopy
<1>. QED BY <1>7, <1>11, <1>12, <1>13 DEF QueueIntact

---------------------------------------------------------------------------
(* Frames are pushed: linked after lastp, in the order of the rules.       *)

LEMMA MatchLinks ==
    ASSUME QueueInv, status = "stepping", NEW kids \in Seq(DOMAIN kb),
           frames' = Pushed(kids),
           lastp' = IF kids = <<>> THEN lastp ELSE Len(frames')
    PROVE  /\ \A i \in DOMAIN frames' : LinkOK(i)'
           /\ EndsAtLastp'
           /\ \A j \in DOMAIN frames : (Listed(j)' <=> Listed(j)) /\ (IsGoal(j)' <=> IsGoal(j))
           /\ \A j \in DOMAIN frames' : j \in DOMAIN frames \/ ~IsGoal(j)'
<1>1. /\ frames \in Seq(Frames) /\ DOMAIN frames = 1..Len(frames) /\ Len(frames) \in Nat
      /\ Len(kids) \in Nat /\ (kids # <<>> <=> Len(kids) > 0)
      /\ Top \in Nat /\ Top # Null
  BY TypesNow, TopIsFrame, FrameFacts DEF QueueInv, TypeOK
<1>2. PICK n \in Nat, m \in Nat, top \in Nat, last \in DOMAIN frames :
        /\ n = Len(frames) /\ m = n + Len(kids) /\ top = Top /\ last = lastp
  <2>1. lastp \in DOMAIN frames
    BY <1>1, TopIsFrame DEF QueueInv, QueueIntact, EndsAtLastp
  <2>2. Len(frames) + Len(kids) \in Nat
    BY <1>1
  <2>. QED BY <1>1, <2>1, <2>2, Zenon
<1>3. /\ frames' \in Seq(Frames) /\ Len(frames') = m /\ DOMAIN frames' = 1..m
      /\ DOMAIN frames = 1..n /\ n <= m /\ (kids # <<>> <=> n < m)
      /\ last \in 1..n
  BY <1>1, <1>2, PushedShape DEF QueueInv
<1>4. \A i \in DOMAIN frames :
        /\ frames'[i].prev = frames[i].prev
        /\ frames'[i].creator = frames[i].creator
        /\ frames'[i].next = IF i = last /\ n < m THEN n + 1 ELSE frames[i].next
  BY <1>2, <1>3, PushedShape DEF QueueInv
<1>5. \A i \in n + 1..m :
        /\ frames'[i].prev = top /\ frames'[i].creator = top /\ top # 0
        /\ frames'[i].next = IF i < m THEN i + 1 ELSE 0
  BY <1>1, <1>2, PushedShape DEF QueueInv, Null
<1>6. \A i \in DOMAIN frames : (Listed(i)' <=> Listed(i)) /\ (IsGoal(i)' <=> IsGoal(i))
  BY <1>4 DEF Listed, IsGoal
<1>7. \A i \in n + 1..m : Listed(i)' /\ ~IsGoal(i)'
  BY <1>5 DEF Listed, IsGoal, Null
<1>8. Listed(last) /\ \A j \in 1..n : Listed(j) => j <= last
  BY <1>2, <1>3 DEF QueueInv, QueueIntact, EndsAtLastp
<1>9. \A i \in 1..m : i \in 1..n \/ i \in n + 1..m
  BY <1>3
<1>10. ASSUME NEW i \in 1..n PROVE LinkOK(i)'
  <2>1. LinkOK(i) /\ (Listed(i)' <=> Listed(i)) /\ i \in 1..m
    BY <1>3, <1>6 DEF QueueInv, QueueIntact
  <2>2. CASE ~Listed(i)
    <3>1. frames'[i].next = frames[i].next
      BY <1>3, <1>4, <1>8, <2>2
    <3>. QED BY <2>1, <2>2, <3>1 DEF LinkOK
  <2>3. CASE i = last /\ n < m
    <3>1. frames'[i].next = n + 1 /\ n + 1 \in n + 1..m /\ i < n + 1
      BY <1>3, <1>4, <2>3
    <3>2. \A k \in 1..m : i < k /\ k < n + 1 => ~Listed(k)'
      <4>. TAKE k \in 1..m
      <4>. HAVE i < k /\ k < n + 1
      <4>1. k \in 1..n /\ ~(k <= last)
        BY <1>3, <2>3
      <4>. QED BY <1>3, <1>6, <1>8, <4>1
    <3>3. Follows(i, n + 1)'
      BY <1>3, <1>7, <3>1, <3>2 DEF Follows
    <3>4. Listed(i)'
      BY <1>8, <2>1, <2>3
    <3>. QED BY <3>1, <3>3, <3>4 DEF LinkOK
  <2>4. CASE Listed(i) /\ ~(i = last /\ n < m)
    <3>1. frames'[i].next = frames[i].next
      BY <1>3, <1>4, <2>4
    <3>2. ASSUME NEW j, Follows(i, j) PROVE Follows(i, j)'
      <4>1. j \in 1..n /\ i < j /\ Listed(j) /\ ~IsGoal(j)
        BY <1>3, <3>2 DEF Follows
      <4>2. \A k \in 1..m : i < k /\ k < j => k \in 1..n
        BY <1>3, <4>1
      <4>. QED BY <1>3, <1>6, <3>2, <4>1, <4>2 DEF Follows
    <3>3. ASSUME NEW j, Follows(i, j)' PROVE Follows(i, j)
      <4>1. j \in 1..m /\ i < j /\ Listed(j)' /\ ~IsGoal(j)'
            /\ \A k \in 1..m : i < k /\ k < j => ~Listed(k)'
        BY <1>3, <3>3 DEF Follows
      <4>2. j \in 1..n
        <5>. SUFFICES ASSUME j \in n + 1..m PROVE FALSE
          BY <1>9, <4>1
        <5>1. last \in 1..m /\ i < last /\ last < j
          BY <1>3, <1>8, <2>4
        <5>2. Listed(last)'
          BY <1>6, <1>8
        <5>. QED BY <4>1, <5>1, <5>2
      <4>3. \A k \in 1..n : i < k /\ k < j => ~Listed(k)
        BY <1>3, <1>6, <4>1
      <4>. QED BY <1>3, <1>6, <4>1, <4>2, <4>3 DEF Follows
    <3>4. IsLast(i) => IsLast(i)'
      <4>1. \A j \in DOMAIN frames' : Follows(i, j)' => j \in DOMAIN frames /\ Follows(i, j)
        BY <3>3 DEF Follows
      <4>. QED BY <4>1 DEF IsLast
    <3>. QED BY <2>1, <2>4, <3>1, <3>2, <3>4 DEF LinkOK
  <2>. QED BY <2>2, <2>3, <2>4
<1>11. ASSUME NEW i \in n + 1..m PROVE LinkOK(i)'
  <2>1. CASE i < m
    <3>1. frames'[i].next = i + 1 /\ i + 1 \in n + 1..m /\ i + 1 \in 1..m /\ i < i + 1
      BY <1>5, <2>1
    <3>2. \A k \in 1..m : ~(i < k /\ k < i + 1)
      OBVIOUS
    <3>3. Follows(i, i + 1)'
      BY <1>3, <1>7, <3>1, <3>2 DEF Follows
    <3>. QED BY <1>7, <3>1, <3>3 DEF LinkOK
  <2>2. CASE i = m
    <3>1. frames'[i].next = 0 /\ \A j \in 1..m : ~(i < j)
      BY <1>5, <2>2
    <3>2. IsLast(i)'
      BY <1>3, <3>1 DEF IsLast, Follows
    <3>. QED BY <1>7, <3>1, <3>2 DEF LinkOK, Null
  <2>. QED BY <2>1, <2>2
<1>12. EndsAtLastp'
  <2>1. CASE n < m
    <3>1. lastp' = m /\ m \in n + 1..m /\ m \in 1..m /\ \A j \in 1..m : j <= m
      BY <1>3, <2>1
    <3>. QED BY <1>3, <1>7, <3>1 DEF EndsAtLastp
  <2>2. CASE n = m
    <3>1. lastp' = last
      BY <1>2, <1>3, <2>2
    <3>. QED BY <1>3, <1>6, <1>8, <2>2, <3>1 DEF EndsAtLastp
  <2>. QED BY <1>3, <2>1, <2>2
<1>. QED BY <1>3, <1>6, <1>7, <1>9, <1>10, <1>11, <1>12

---------------------------------------------------------------------------
(* The loop goes on.                                                       *)

\* Return keeps the loop on the list of the latest query.
LEMMA ReturnQueue ==
    ASSUME QueueInv, status = "stepping", TypeOK', Return,
           \A i \in DOMAIN frames : i \in DOMAIN frames',
           \A i \in DOMAIN frames' : LinkOK(i)',
           \A j \in DOMAIN frames : (Listed(j)' <=> Listed(j)) /\ (IsGoal(j)' <=> IsGoal(j)),
           \A j \in DOMAIN frames' : j \in DOMAIN frames \/ ~IsGoal(j)'
    PROVE  LoopOnList' /\ RecursionOnCopy'
<1>1. PICK c \in DOMAIN frames : c = cur /\ c \in Nat
  BY TopIsFrame, FrameFacts DEF QueueInv
<1>2. /\ rec' = Null /\ cur' = frames'[c].next
      /\ status' = IF cur' = Null THEN "reporting" ELSE "stepping"
  BY <1>1 DEF Return
<1>3. Listed(c) /\ \A j \in DOMAIN frames : c < j => ~IsGoal(j)
  BY <1>1, FrameFacts DEF QueueInv, QueueIntact, LoopOnList
<1>4. Listed(c)' /\ LinkOK(c)'
  BY <1>3
<1>5. cur' # Null => Follows(c, frames[c].next)'
  BY <1>2, <1>4 DEF LinkOK
<1>6. ASSUME cur' # Null
      PROVE  Listed(cur)' /\ \A j \in DOMAIN frames' : cur' < j => ~IsGoal(j)'
  <2>1. PICK d : d = cur' /\ d = frames'[c].next
    BY <1>2
  <2>2. d \in DOMAIN frames' /\ c < d /\ Listed(d)'
    BY <1>5, <1>6, <2>1 DEF Follows
  <2>3. \A j \in DOMAIN frames' : j \in Nat
    BY FrameFacts, TypesNow DEF TypeOK, Types
  <2>4. \A j \in DOMAIN frames' : d < j => c < j
    BY <1>1, <2>2, <2>3
  <2>5. \A j \in DOMAIN frames' : d < j => ~IsGoal(j)'
    BY <1>3, <2>4
  <2>6. Listed(cur)'
    BY <2>1, <2>2 DEF Listed
  <2>. QED BY <2>1, <2>5, <2>6
<1>. QED BY <1>2, <1>6 DEF LoopOnList, RecursionOnCopy

LEMMA MatchQueue == ASSUME QueueInv, Match PROVE QueueIntact'
<1>1. status = "stepping" /\ TypeOK'
  BY MatchTypeOK DEF QueueInv, Match
<1>2. PICK kids \in Seq(DOMAIN kb) :
        /\ frames' = Pushed(kids)
        /\ lastp' = IF kids = <<>> THEN lastp ELSE Len(frames')
        /\ Return
  BY MatchShape DEF QueueInv
<1>3. /\ \A i \in DOMAIN frames' : LinkOK(i)'
      /\ EndsAtLastp'
      /\ \A j \in DOMAIN frames : (Listed(j)' <=> Listed(j)) /\ (IsGoal(j)' <=> IsGoal(j))
      /\ \A j \in DOMAIN frames' : j \in DOMAIN frames \/ ~IsGoal(j)'
  BY <1>1, <1>2, MatchLinks
<1>4. \A i \in DOMAIN frames : i \in DOMAIN frames'
  <2>1. Len(frames') = Len(frames) + Len(kids) /\ Len(kids) \in Nat
    BY <1>1, <1>2, PushedShape DEF QueueInv
  <2>2. DOMAIN frames = 1..Len(frames) /\ Len(frames) \in Nat
    BY TypesNow DEF QueueInv, TypeOK
  <2>3. DOMAIN frames' = 1..Len(frames')
    BY <1>1 DEF TypeOK, Types
  <2>. QED BY <2>1, <2>2, <2>3
<1>. QED BY <1>1, <1>2, <1>3, <1>4, ReturnQueue DEF QueueIntact

LEMMA SameFramesQueue ==
    ASSUME QueueInv, frames' = frames
    PROVE  /\ \A i \in DOMAIN frames' : LinkOK(i)'
           /\ \A j \in DOMAIN frames : (Listed(j)' <=> Listed(j)) /\ (IsGoal(j)' <=> IsGoal(j))
           /\ lastp' = lastp => EndsAtLastp'
BY DEF QueueInv, QueueIntact, LinkOK, IsLast, Follows, Listed, IsGoal, EndsAtLastp

LEMMA ReturnOnly ==
    ASSUME QueueInv, status = "stepping", TypeOK', frames' = frames, lastp' = lastp, Return
    PROVE  QueueIntact'
<1>1. /\ \A i \in DOMAIN frames' : LinkOK(i)'
      /\ \A j \in DOMAIN frames : (Listed(j)' <=> Listed(j)) /\ (IsGoal(j)' <=> IsGoal(j))
      /\ EndsAtLastp'
  BY SameFramesQueue
<1>. QED BY <1>1, ReturnQueue DEF QueueIntact

LEMMA StillQueue ==
    ASSUME QueueInv, UNCHANGED <<frames, lastp, cur, rec>>,
           status \in {"stepping", "threw"} <=> status' \in {"stepping", "threw"}
    PROVE  QueueIntact'
<1>1. /\ \A i \in DOMAIN frames' : LinkOK(i)'
      /\ EndsAtLastp'
  BY SameFramesQueue
<1>2. LoopOnList' /\ RecursionOnCopy'
  BY DEF QueueInv, QueueIntact, LoopOnList, RecursionOnCopy, Listed, IsGoal
<1>. QED BY <1>1, <1>2 DEF QueueIntact

LEMMA NextQueue == QueueInv /\ [Next]_vars => QueueInv'
<1>. SUFFICES ASSUME QueueInv, [Next]_vars PROVE QueueInv'
  OBVIOUS
<1>1. TypeOK'
  BY NextTypeOK DEF QueueInv
<1>2. QueueIntact'
  <2>1. CASE UNCHANGED vars
    BY <2>1, StillQueue DEF vars
  <2>2. ASSUME NEW goal \in Goals, DoQuery(goal) PROVE QueueIntact'
    BY <2>2, DoQueryQueue
  <2>3. CASE Prune
    BY <1>1, <2>3, ReturnOnly DEF Prune
  <2>4. CASE Match
    BY <2>4, MatchQueue
  <2>5. CASE Ground
    BY <1>1, <2>5, ReturnOnly DEF Ground
  <2>6. CASE Ascend
    BY <2>6, AscendQueue
  <2>7. CASE Throw
    BY <2>7, StillQueue DEF Throw
  <2>8. CASE PushEv
    BY <2>8, StillQueue DEF PushEv
  <2>. QED BY <2>1, <2>2, <2>3, <2>4, <2>5, <2>6, <2>7, <2>8 DEF Next, Step
<1>. QED BY <1>1, <1>2 DEF QueueInv

---------------------------------------------------------------------------
(* The theorems.                                                           *)

\* For every rule base and every sequence of goals, the next pointers hold the
\* frames pushed for rules, in the order they were made, and lastp is where
\* queuepush has to go on (prover.cpp 20, 442-474, 679-711).
THEOREM QueueCorrect == Spec => []QueueIntact
<1>1. Init => QueueInv
  BY InitTypeOK, InitQueue DEF QueueInv
<1>2. QueueInv => QueueIntact
  BY DEF QueueInv
<1>. QED BY <1>1, <1>2, NextQueue, PTL DEF Spec

\* The step of the property, from the invariant before and after it.
LEMMA StepVisits ==
    ASSUME QueueInv, QueueInv', [Next]_vars, NEW i \in DOMAIN frames,
           status = "stepping", i = cur, cur' # i
    PROVE  Follows(i, cur)' \/ (cur' = Null /\ IsLast(i)')
<1>1. i # Null /\ Listed(i)
  BY FrameFacts DEF QueueInv, QueueIntact, LoopOnList
<1>2. cur' = frames[i].next' /\ i \in DOMAIN frames' /\ Listed(i)'
  <2>1. CASE Match
    <3>1. PICK kids \in Seq(DOMAIN kb) :
            /\ frames' = Pushed(kids)
            /\ lastp' = IF kids = <<>> THEN lastp ELSE Len(frames')
            /\ Return
      BY <2>1, MatchShape DEF QueueInv
    <3>2. Listed(i)'
      BY <1>1, <3>1, MatchLinks
    <3>3. i \in DOMAIN frames'
      <4>1. /\ DOMAIN frames = 1..Len(frames) /\ DOMAIN frames' = 1..Len(frames')
            /\ Len(frames) \in Nat /\ Len(kids) \in Nat
            /\ Len(frames') = Len(frames) + Len(kids)
        BY <3>1, TypesNow, PushedShape DEF QueueInv, TypeOK, Types
      <4>. QED BY <4>1
    <3>. QED BY <3>1, <3>2, <3>3 DEF Return
  <2>2. CASE Prune
    BY <1>1, <2>2 DEF Prune, Return, Listed
  <2>3. CASE Ground
    BY <1>1, <2>3 DEF Ground, Return, Listed
  <2>4. ~Ascend /\ ~Throw /\ ~PushEv /\ ~(UNCHANGED vars) /\ \A goal \in Goals : ~DoQuery(goal)
    BY DEF Ascend, Throw, PushEv, vars, DoQuery
  <2>. QED BY <2>1, <2>2, <2>3, <2>4 DEF Next, Step
<1>3. LinkOK(i)'
  BY <1>2 DEF QueueInv, QueueIntact
<1>. QED BY <1>2, <1>3 DEF LinkOK, Follows, IsLast

\* For every rule base and every sequence of goals, do_query's loop goes from a
\* frame to the next one listed and ends only when there is none: it skips
\* nothing that was pushed, by whichever recursive call (prover.cpp 679-711).
THEOREM LoopInOrder == Spec => VisitsInOrder
<1>1. Init => QueueInv
  BY InitTypeOK, InitQueue DEF QueueInv
<1>2. QueueInv /\ QueueInv' /\ [Next]_vars
        => [\A i \in DOMAIN frames :
              status = "stepping" /\ i = cur /\ cur' # i
                => \/ Follows(i, cur)'
                   \/ cur' = Null /\ IsLast(i)']_vars
  BY StepVisits
<1>. QED BY <1>1, <1>2, NextQueue, PTL DEF Spec, VisitsInOrder

---------------------------------------------------------------------------
(* Every frame gets its turn.                                              *)

\* What the loop or the recursion has still to come to.
Waiting(i) == status = "stepping" /\ (i = Top \/ (Listed(i) /\ cur < i))
TriedOrWaiting == status # "threw" => \A i \in DOMAIN frames : Tried(i) \/ Waiting(i)

VisitInv == QueueInv /\ SearchInv /\ TriedOrWaiting

\* A goal added to the rule base matches nothing.
LEMMA MatchesKept ==
    ASSUME TypeOK, TypeOK', Grown, NEW i \in DOMAIN frames, ~IsDone(i)
    PROVE  Matches(i)' \subseteq Matches(i)
<1>1. PICK t \in Terms : t = Wanted(i) /\ t = Wanted(i)'
  BY FrameFacts, GrownKeeps
<1>2. subst'[i] = subst[i]
  BY DEF Grown
<1>. SUFFICES ASSUME NEW h \in Matches(i)'
              PROVE  h \in Matches(i)
  OBVIOUS
<1>3. /\ h \in DOMAIN kb' /\ MkSubs(t, kb'[h].head).ok
      /\ CaseOf(MkSubs(t, kb'[h].head).sub, subst[i])
      /\ Unify(t, subst[i], kb'[h].head, NoSubs).ok
  BY <1>1, <1>2 DEF Matches, Candidates, Conds, Attempt
<1>4. CASE h \in DOMAIN kb
  <2>1. kb'[h] = kb[h]
    BY <1>4 DEF Grown
  <2>. QED BY <1>1, <1>3, <1>4, <2>1 DEF Matches, Candidates, Conds, Attempt
<1>5. CASE h \notin DOMAIN kb
  <2>1. kb'[h].head = NIL
    BY <1>3, <1>5 DEF Grown
  <2>2. t # NIL
    BY TermShape
  <2>3. ~Unify(t, subst[i], NIL, NoSubs).ok
    BY <2>2 DEF Unify, Result
  <2>. QED BY <1>3, <2>1, <2>3
<1>. QED BY <1>4, <1>5

LEMMA TriedKept ==
    ASSUME TypeOK, TypeOK', Grown, gnd \subseteq gnd', NEW i \in DOMAIN frames, Tried(i)
    PROVE  Tried(i)'
<1>1. /\ IsDone(i)' = IsDone(i) /\ (EulerPath(i)' <=> EulerPath(i))
      /\ frames'[i].prev = frames[i].prev
  BY GrownKeeps DEF Grown
<1>2. CASE EulerPath(i)
  BY <1>1, <1>2 DEF Tried
<1>3. CASE ~IsDone(i) /\ \A h \in Matches(i) : \E c \in DOMAIN frames :
              frames[c].rule = h /\ frames[c].prev = i /\ frames[c].creator = i
  <2>1. \A h \in Matches(i)' : \E c \in DOMAIN frames' :
           frames'[c].rule = h /\ frames'[c].prev = i /\ frames'[c].creator = i
    BY <1>3, MatchesKept DEF Grown
  <2>. QED BY <1>1, <1>3, <2>1 DEF Tried
<1>4. CASE IsDone(i) /\ frames[i].prev = Null /\ i \in gnd
  BY <1>1, <1>4 DEF Tried
<1>5. CASE IsDone(i) /\ frames[i].prev # Null /\ \E c \in DOMAIN frames : frames[c].creator = i
  <2>1. \E c \in DOMAIN frames' : frames'[c].creator = i
    BY <1>5 DEF Grown
  <2>. QED BY <1>1, <1>5, <2>1 DEF Tried
<1>. QED BY <1>2, <1>3, <1>4, <1>5 DEF Tried

\* What Return leaves waiting: every frame listed after the one the loop was at.
LEMMA ReturnWaits ==
    ASSUME QueueInv, status = "stepping", TypeOK', QueueIntact', Return, Grown,
           \A j \in DOMAIN frames' : j \in DOMAIN frames \/ ~IsGoal(j)',
           NEW i \in DOMAIN frames', Listed(i)', cur < i
    PROVE  Waiting(i)'
<1>1. PICK c \in DOMAIN frames : c = cur /\ c \in Nat /\ Listed(c)
  BY TopIsFrame, FrameFacts DEF QueueInv, QueueIntact, LoopOnList
<1>2. PICK d : d = cur' /\ d = frames'[c].next
  BY <1>1 DEF Return
<1>3. rec' = Null /\ status' = IF d = Null THEN "reporting" ELSE "stepping"
  BY <1>2 DEF Return
<1>4. c \in DOMAIN frames' /\ Listed(c)'
  BY <1>1 DEF Grown, Listed
<1>5. Follows(c, frames[c].next)' \/ (d = Null /\ IsLast(c)')
  BY <1>2, <1>4 DEF QueueIntact, LinkOK
<1>6. \A j \in DOMAIN frames' : j \in Nat
  BY TypesNow DEF TypeOK, Types
<1>7. \A j \in DOMAIN frames' : c < j => ~IsGoal(j)'
  <2>1. \A j \in DOMAIN frames : c < j => ~IsGoal(j)'
    BY <1>1, FrameFacts DEF QueueInv, QueueIntact, LoopOnList, Grown, IsGoal
  <2>. QED BY <2>1
<1>8. ~IsLast(c)'
  <2>. DEFINE later == {k \in DOMAIN frames' : c < k /\ Listed(k)'}
  <2>1. later \in SUBSET Nat /\ later # {}
    BY <1>1, <1>6
  <2>2. PICK k \in later : \A x \in later : k <= x
    <3>. HIDE DEF later
    <3>. QED BY <2>1, LeastExists
  <2>3. \A x \in DOMAIN frames' : c < x /\ x < k => ~Listed(x)'
    BY <1>6, <2>2
  <2>4. Follows(c, k)'
    BY <1>7, <2>2, <2>3 DEF Follows
  <2>. QED BY <2>2, <2>4 DEF IsLast
<1>9. Follows(c, d)'
  BY <1>2, <1>5, <1>8 DEF Follows
<1>10. d \in DOMAIN frames' /\ d # Null /\ (d = i \/ d < i)
  <2>1. d \in DOMAIN frames' /\ c < d /\ ~(c < i /\ i < d /\ ~(~Listed(i)'))
    BY <1>9 DEF Follows
  <2>. QED BY <1>1, <1>6, <2>1 DEF Null
<1>. QED BY <1>2, <1>3, <1>10 DEF Waiting, Top

\* The steps that return.
LEMMA ReturnTried ==
    ASSUME VisitInv, TypeOK', QueueIntact', Grown, gnd \subseteq gnd',
           Prune \/ Match \/ Ground
    PROVE  TriedOrWaiting'
<1>1. TypeOK /\ QueueInv /\ status = "stepping" /\ Return /\ TriedOrWaiting
  BY DEF VisitInv, QueueInv, Prune, Match, Ground
<1>2. PICK top \in DOMAIN frames : top = Top
  BY <1>1, TopIsFrame
<1>3. /\ (IsDone(top)' <=> IsDone(top)) /\ (EulerPath(top)' <=> EulerPath(top))
      /\ frames'[top].prev = frames[top].prev /\ top \in DOMAIN frames'
  BY <1>1, GrownKeeps DEF Grown
<1>4. /\ Tried(top)'
      /\ \A j \in DOMAIN frames' : j \in DOMAIN frames \/ (Listed(j)' /\ ~IsGoal(j)' /\ cur < j)
  <2>1. CASE Prune
    BY <1>2, <1>3, <2>1 DEF Prune, Tried
  <2>2. CASE Ground
    BY <1>2, <1>3, <2>2 DEF Ground, Tried
  <2>3. CASE Match
    <3>1. PICK n \in Nat, m \in Nat :
             /\ ~IsDone(top)
             /\ DOMAIN frames = 1..n /\ DOMAIN frames' = 1..m /\ n <= m
             /\ \A i \in n + 1..m :
                   frames'[i].rule \in Matches(top) /\ frames'[i].prev = top /\ frames'[i].creator = top
             /\ \A h \in Matches(top) : \E i \in n + 1..m : frames'[i].rule = h
      BY <1>1, <1>2, <2>3, MatchFrames
    <3>2. Matches(top)' \subseteq Matches(top)
      BY <1>1, <3>1, MatchesKept
    <3>3. \A h \in Matches(top)' : \E c \in DOMAIN frames' :
             frames'[c].rule = h /\ frames'[c].prev = top /\ frames'[c].creator = top
      BY <3>1, <3>2
    <3>4. Tried(top)'
      BY <1>3, <3>1, <3>3 DEF Tried
    <3>5. cur \in 1..n /\ top # Null
      BY <1>1, <3>1, TopIsFrame, FrameFacts
    <3>6. \A j \in n + 1..m : Listed(j)' /\ ~IsGoal(j)' /\ cur < j
      BY <3>1, <3>5 DEF Listed, IsGoal
    <3>. QED BY <3>1, <3>4, <3>6
  <2>. QED BY <2>1, <2>2, <2>3
<1>5. ASSUME NEW i \in DOMAIN frames'
      PROVE  Tried(i)' \/ Waiting(i)'
  <2>1. CASE i \notin DOMAIN frames
    <3>1. \A j \in DOMAIN frames' : j \in DOMAIN frames \/ ~IsGoal(j)'
      BY <1>4
    <3>. QED BY <1>1, <1>4, <2>1, <3>1, ReturnWaits
  <2>2. CASE i \in DOMAIN frames /\ Tried(i)
    BY <1>1, <2>2, TriedKept
  <2>3. CASE i = top
    BY <1>4, <2>3
  <2>4. CASE i \in DOMAIN frames /\ Listed(i) /\ cur < i
    <3>1. Listed(i)'
      BY <2>4 DEF Listed, Grown
    <3>2. \A j \in DOMAIN frames' : j \in DOMAIN frames \/ ~IsGoal(j)'
      BY <1>4
    <3>. QED BY <1>1, <2>4, <3>1, <3>2, ReturnWaits
  <2>. QED BY <1>1, <1>2, <2>1, <2>2, <2>3, <2>4 DEF TriedOrWaiting, Waiting
<1>. QED BY <1>5 DEF TriedOrWaiting

LEMMA AscendTried ==
    ASSUME VisitInv, TypeOK', Grown, gnd \subseteq gnd', Ascend
    PROVE  TriedOrWaiting'
<1>1. TypeOK /\ status = "stepping" /\ TriedOrWaiting
  BY DEF VisitInv, QueueInv, Ascend
<1>2. PICK top \in DOMAIN frames, new \in Nat :
        /\ top = Top /\ IsDone(top) /\ frames[top].prev # Null
        /\ DOMAIN frames = 1..(new - 1) /\ DOMAIN frames' = 1..new
        /\ frames'[new].creator = top
  <2>1. frames[Top].prev # Null
    BY DEF Ascend
  <2>. QED BY <1>1, <2>1, AscendFrames
<1>3. Tried(top)'
  <2>1. IsDone(top)' /\ frames'[top].prev # Null
    BY <1>1, <1>2, GrownKeeps DEF Grown
  <2>2. new \in DOMAIN frames'
    BY <1>2
  <2>. QED BY <1>2, <2>1, <2>2 DEF Tried
<1>4. rec' = new /\ cur' = cur /\ status' = status /\ new # Null
  <2>1. Len(frames) \in Nat /\ DOMAIN frames = 1..Len(frames)
    BY <1>1, TypesNow DEF TypeOK
  <2>2. Len(frames) = new - 1
    BY <1>2, <2>1
  <2>. QED BY <1>2, <2>2 DEF Ascend, Null
<1>5. ASSUME NEW i \in DOMAIN frames'
      PROVE  Tried(i)' \/ Waiting(i)'
  <2>1. CASE i = new
    BY <1>1, <1>4, <2>1 DEF Waiting, Top
  <2>2. CASE i = top
    BY <1>3, <2>2
  <2>3. CASE i \in DOMAIN frames /\ Tried(i)
    BY <1>1, <2>3, TriedKept
  <2>4. CASE i \in DOMAIN frames /\ Listed(i) /\ cur < i
    <3>1. Listed(i)'
      BY <2>4 DEF Listed, Grown
    <3>. QED BY <1>1, <1>4, <2>4, <3>1 DEF Waiting
  <2>5. i \in DOMAIN frames \/ i = new
    BY <1>2
  <2>. QED BY <1>1, <1>2, <2>1, <2>2, <2>3, <2>4, <2>5 DEF TriedOrWaiting, Waiting
<1>. QED BY <1>5 DEF TriedOrWaiting

LEMMA DoQueryTried ==
    ASSUME VisitInv, TypeOK', Grown, gnd \subseteq gnd', NEW goal \in Goals, DoQuery(goal)
    PROVE  TriedOrWaiting'
<1>1. TypeOK /\ status = "idle" /\ rec = Null
  BY DEF VisitInv, QueueInv, QueueIntact, LoopOnList, RecursionOnCopy, DoQuery
<1>2. \A i \in DOMAIN frames : Tried(i)
  BY <1>1 DEF VisitInv, TriedOrWaiting, Waiting
<1>3. PICK new \in Nat : DOMAIN frames = 1..(new - 1) /\ DOMAIN frames' = 1..new
  BY <1>1, DoQueryFrames
<1>4. Waiting(new)'
  <2>1. Len(frames) \in Nat /\ DOMAIN frames = 1..Len(frames)
    BY <1>1, TypesNow DEF TypeOK
  <2>2. Len(frames) + 1 = new
    <3>1. frames' = Append(frames, Frame(Len(kb) + 1, 0, Null, Null)) /\ frames \in Seq(Frames)
      BY <1>1 DEF DoQuery, TypeOK, Types
    <3>2. DOMAIN frames' = 1..(Len(frames) + 1)
      <4>. HIDE DEF Frame
      <4>. QED BY <2>1, <3>1
    <3>. QED BY <1>3, <2>1, <3>2
  <2>. QED BY <1>1, <2>2 DEF DoQuery, Waiting, Top
<1>5. \A i \in DOMAIN frames' : i \in DOMAIN frames \/ i = new
  BY <1>3
<1>. QED BY <1>1, <1>2, <1>4, <1>5, TriedKept DEF TriedOrWaiting

LEMMA NextVisit == VisitInv /\ [Next]_vars => VisitInv'
<1>. SUFFICES ASSUME VisitInv, [Next]_vars PROVE VisitInv'
  OBVIOUS
<1>1. QueueInv' /\ SearchInv' /\ TypeOK' /\ QueueIntact'
  BY NextQueue, NextSearch DEF VisitInv, QueueInv
<1>2. TypeOK /\ Grown /\ gnd \subseteq gnd'
  <2>1. TypeOK /\ FramesBorn /\ GoalsDone
    BY DEF VisitInv, SearchInv
  <2>2. Grown
    BY <2>1, NextBorn
  <2>. QED BY <1>1, <2>1, <2>2, GoalsDoneKept
<1>3. TriedOrWaiting'
  <2>1. CASE Prune \/ Match \/ Ground
    BY <1>1, <1>2, <2>1, ReturnTried
  <2>2. CASE Ascend
    BY <1>1, <1>2, <2>2, AscendTried
  <2>3. ASSUME NEW goal \in Goals, DoQuery(goal) PROVE TriedOrWaiting'
    BY <1>1, <1>2, <2>3, DoQueryTried
  <2>4. CASE Throw
    BY <2>4 DEF Throw, TriedOrWaiting
  <2>5. CASE PushEv
    <3>1. frames' = frames /\ status = "reporting"
      BY <2>5 DEF PushEv
    <3>2. \A i \in DOMAIN frames : Tried(i)
      BY <3>1 DEF VisitInv, TriedOrWaiting, Waiting
    <3>. QED BY <1>1, <1>2, <3>1, <3>2, TriedKept DEF TriedOrWaiting
  <2>6. CASE UNCHANGED vars
    <3>1. frames' = frames /\ status' = status /\ cur' = cur /\ rec' = rec
      BY <2>6 DEF vars
    <3>2. \A i \in DOMAIN frames : Waiting(i)' <=> Waiting(i)
      BY <3>1 DEF Waiting, Top, Listed
    <3>3. \A i \in DOMAIN frames : Tried(i) => Tried(i)'
      BY <1>1, <1>2, TriedKept
    <3>. QED BY <3>1, <3>2, <3>3 DEF VisitInv, TriedOrWaiting
  <2>. QED BY <2>1, <2>2, <2>3, <2>4, <2>5, <2>6 DEF Next, Step
<1>. QED BY <1>1, <1>3 DEF VisitInv

LEMMA InitVisit == Init => VisitInv
<1>. SUFFICES ASSUME Init PROVE VisitInv
  OBVIOUS
<1>1. DOMAIN frames = {}
  BY DEF Init
<1>. QED BY <1>1, InitTypeOK, InitQueue, InitSearch DEF VisitInv, QueueInv, TriedOrWaiting

\* For every rule base and every sequence of goals: when a query is over, every
\* frame made has been tried against every rule, reported or answered, or
\* repeats one above it (prover.cpp 442-474, 679-711).
THEOREM NoneForgotten == Spec => []AllTried
<1>1. VisitInv => AllTried
  BY DEF VisitInv, TriedOrWaiting, Waiting, AllTried
<1>. QED BY <1>1, InitVisit, NextVisit, PTL DEF Spec
=============================================================================
