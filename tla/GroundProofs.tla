---------------------------- MODULE GroundProofs ----------------------------
(***************************************************************************)
(* Rules and goals without variables, for every rule base and sequence of  *)
(* goals: what the prover answers follows from the rules, the proof it     *)
(* reports with an answer proves it, and it answers all that follows, so   *)
(* that it implements QueryAnswering but for the promise to end.           *)
(*                                                                         *)
(* Soundness is read off the way the frames came about (FramesBorn), by    *)
(* induction on the number of the frame.  Completeness is the other way    *)
(* round.  A term that follows need not be proved wherever it is wanted,   *)
(* as euler_path leaves frames out; but it is unless one above it proves a *)
(* term that follows, too (Reached).  A largest set of heads of which that *)
(* is true is closed under the rules, as every frame has been tried, and   *)
(* so contains the least model; above a goal's frame there is nothing.     *)
(***************************************************************************)
EXTENDS SearchProofs

---------------------------------------------------------------------------
(* Without variables, unification is equality and binds nothing.           *)

LEMMA FreeTerm ==
    ASSUME NEW t \in Terms, Free(t)
    PROVE  /\ t # NIL /\ ~IsVar(t) /\ t \in GroundTerms
           /\ (t = <<t[1]>> /\ t[1] \in Names)
              \/ (t = <<t[1], t[2], t[3]>> /\ t[1] \in Names /\ t[2] \in Names /\ t[3] \in Names)
<1>1. CASE t \in Atoms
  <2>1. PICK r \in Resources : t = <<r>>
    BY <1>1 DEF Atoms
  <2>2. r \in Names
    BY <2>1 DEF Free, Resources
  <2>. QED BY <2>1, <2>2, VarsAreNotNames DEF NIL, IsVar, GroundTerms
<1>2. CASE t \in Triples
  <2>1. PICK a \in Resources, b \in Resources, c \in Resources : t = <<a, b, c>>
    BY <1>2 DEF Triples
  <2>2. a \in Names /\ b \in Names /\ c \in Names
    <3>1. t[1] \notin Vars /\ t[2] \notin Vars /\ t[3] \notin Vars
      BY <2>1 DEF Free
    <3>. QED BY <2>1, <3>1 DEF Resources
  <2>3. t # NIL
    BY <1>2, TermShape DEF Terms
  <2>. QED BY <2>1, <2>2, <2>3, VarsAreNotNames DEF IsVar, GroundTerms
<1>. QED BY <1>1, <1>2 DEF Terms

LEMMA NamesUnify ==
    ASSUME NEW r \in Names, NEW s \in Names, NEW ss, NEW ds
    PROVE  /\ UnifyAtoms(<<r>>, ss, <<s>>, ds).ok <=> r = s
           /\ UnifyAtoms(<<r>>, ss, <<s>>, ds).sub = ds
           /\ ~UnifyAtoms(<<r>>, ss, <<s>>, ds).threw
<1>1. ~IsVar(<<r>>) /\ ~IsVar(<<s>>)
  BY VarsAreNotNames DEF IsVar
<1>2. UnifyAtoms(<<r>>, ss, <<s>>, ds) = IF r = s THEN Result(TRUE, ds) ELSE Result(FALSE, ds)
  BY <1>1 DEF UnifyAtoms, UnifyBy, UnifyConst, NoArgs, SameShape
<1>. QED BY <1>2 DEF Result

LEMMA GroundUnify ==
    ASSUME NEW t \in Terms, Free(t), NEW d \in Terms, Free(d),
           NEW ss, NEW ds
    PROVE  /\ Unify(t, ss, d, ds).ok <=> t = d
           /\ Unify(t, ss, d, ds).sub = ds
           /\ ~Unify(t, ss, d, ds).threw
<1>1. t # NIL /\ d # NIL /\ ~IsVar(t) /\ ~IsVar(d)
  BY FreeTerm
<1>2. Unify(t, ss, d, ds) =
         IF SameShape(t, d)
         THEN IF t[1] = d[1] THEN UnifyArgs(t, ss, d, ds) ELSE Result(FALSE, ds)
         ELSE Result(FALSE, ds)
  BY <1>1 DEF Unify, UnifyTerms, UnifyBy, UnifyConst
<1>3. CASE ~(SameShape(t, d) /\ t[1] = d[1])
  <2>1. Unify(t, ss, d, ds) = Result(FALSE, ds)
    BY <1>2, <1>3
  <2>2. t # d
    BY <1>3 DEF SameShape
  <2>. QED BY <2>1, <2>2 DEF Result
<1>4. CASE SameShape(t, d) /\ t[1] = d[1] /\ Len(t) = 1
  <2>1. Unify(t, ss, d, ds) = Result(TRUE, ds)
    BY <1>2, <1>4 DEF UnifyArgs
  <2>2. t = d
    <3>1. t \in Atoms /\ d \in Atoms
      BY <1>4, TermShape DEF SameShape
    <3>. QED BY <1>4, <3>1 DEF Atoms
  <2>. QED BY <2>1, <2>2 DEF Result
<1>5. CASE SameShape(t, d) /\ t[1] = d[1] /\ Len(t) # 1
  <2>1. /\ t = <<t[1], t[2], t[3]>> /\ t[2] \in Names /\ t[3] \in Names
        /\ d = <<d[1], d[2], d[3]>> /\ d[2] \in Names /\ d[3] \in Names
    <3>1. /\ t = <<t[1]>> => Len(t) = 1
          /\ d = <<d[1]>> => Len(d) = 1
      OBVIOUS
    <3>. QED BY <1>5, <3>1, FreeTerm DEF SameShape
  <2>. DEFINE u == UnifyAtoms(Subject(t), ss, Subject(d), ds)
  <2>2. (u.ok <=> t[2] = d[2]) /\ u.sub = ds /\ ~u.threw
    BY <2>1, NamesUnify DEF Subject
  <2>3. Unify(t, ss, d, ds) =
           IF u.ok /\ ~u.threw THEN UnifyAtoms(Object(t), ss, Object(d), u.sub) ELSE u
    BY <1>2, <1>5 DEF UnifyArgs
  <2>. HIDE DEF u
  <2>4. CASE u.ok
    <3>1. Unify(t, ss, d, ds) = UnifyAtoms(Object(t), ss, Object(d), ds)
      BY <2>2, <2>3, <2>4
    <3>2. t = d <=> t[3] = d[3]
      BY <1>5, <2>1, <2>2, <2>4
    <3>. QED BY <2>1, <3>1, <3>2, NamesUnify DEF Object
  <2>5. CASE ~u.ok
    <3>1. Unify(t, ss, d, ds) = u
      BY <2>3, <2>5
    <3>. QED BY <2>2, <2>5, <3>1
  <2>. QED BY <2>4, <2>5
<1>. QED BY <1>3, <1>4, <1>5

---------------------------------------------------------------------------
(* The frames.                                                             *)

LEMMA FrameFree ==
    ASSUME TypeOK, GroundKb, NEW i \in DOMAIN frames
    PROVE  /\ VariableFree(TermsOf(BodyOf(i)))
           /\ HeadOf(i) # NIL => HeadOf(i) \in Terms /\ Free(HeadOf(i))
           /\ ~IsDone(i) => Wanted(i) \in Terms /\ Free(Wanted(i))
<1>1. frames[i].rule \in DOMAIN kb /\ frames[i].idx \in Nat
  BY FrameFacts, OlderPointers
<1>2. VariableFree(TermsOf(BodyOf(i)) \cup {HeadOf(i)})
  BY <1>1 DEF GroundKb, BodyOf, HeadOf
<1>3. HeadOf(i) # NIL => HeadOf(i) \in Terms
  BY FrameFacts
<1>4. ASSUME ~IsDone(i)
      PROVE  Wanted(i) \in Terms /\ Wanted(i) \in TermsOf(BodyOf(i))
  <2>1. Wanted(i) \in Terms /\ BodyOf(i) \in Seq(Terms) /\ frames[i].idx + 1 <= Len(BodyOf(i))
    BY <1>4, FrameFacts
  <2>2. frames[i].idx + 1 \in DOMAIN BodyOf(i)
    BY <1>1, <2>1
  <2>. QED BY <2>1, <2>2 DEF Wanted, TermsOf
<1>. QED BY <1>2, <1>3, <1>4 DEF VariableFree, Free

\* A frame has bound nothing, and proves the very term it was pushed for.
LEMMA GroundFrames ==
    ASSUME TypeOK, FramesBorn, GroundKb
    PROVE  \A i \in DOMAIN frames :
              /\ subst[i] = NoSubs
              /\ frames[i].prev # Null => HeadOf(i) = Wanted(frames[i].prev)
<1>1. PICK n \in Nat : DOMAIN frames = 1..n
  BY TypesNow DEF TypeOK
<1>. DEFINE Good(i) == /\ subst[i] = NoSubs
                       /\ frames[i].prev # Null => HeadOf(i) = Wanted(frames[i].prev)
            S == {i \in 1..n : Good(i)}
<1>2. ASSUME NEW i \in 1..n, \A j \in 1..n : j < i => j \in S
      PROVE  i \in S
  <2>1. CASE GoalFrame(i)
    BY <2>1 DEF GoalFrame
  <2>2. CASE ChildFrame(i)
    <3>1. PICK q \in 1..n : q = frames[i].prev /\ q < i
      BY <1>1, <2>2, OlderPointers DEF ChildFrame
    <3>2. PICK r \in DOMAIN kb : r = frames[i].rule
      BY <1>1, FrameFacts
    <3>3. ~IsDone(q) /\ Attempt(q, r).ok /\ subst[i] = Attempt(q, r).sub
      BY <2>2, <3>1, <3>2 DEF ChildFrame
    <3>4. HeadOf(i) = kb[r].head /\ HeadOf(i) # NIL
      <4>1. FrameOK(i) /\ q # Null
        BY <1>1, <3>1, FrameFacts DEF TypeOK
      <4>. QED BY <3>1, <3>2, <4>1 DEF FrameOK, HeadOf
    <3>5. /\ Wanted(q) \in Terms /\ Free(Wanted(q))
          /\ HeadOf(i) \in Terms /\ Free(HeadOf(i))
      BY <1>1, <3>3, <3>4, FrameFree
    <3>6. /\ Unify(Wanted(q), subst[q], HeadOf(i), NoSubs).ok <=> Wanted(q) = HeadOf(i)
          /\ Unify(Wanted(q), subst[q], HeadOf(i), NoSubs).sub = NoSubs
      BY <3>5, GroundUnify
    <3>7. Wanted(q) = HeadOf(i) /\ subst[i] = NoSubs
      BY <3>3, <3>4, <3>6 DEF Attempt
    <3>. QED BY <3>1, <3>7
  <2>3. CASE CopyFrame(i)
    <3>1. PICK j \in 1..n : j = frames[i].creator /\ j < i
      BY <1>1, <2>3, OlderPointers DEF CopyFrame
    <3>2. PICK q \in 1..n : q = frames[j].prev /\ q < j /\ q # Null
      BY <1>1, <2>3, <3>1, OlderPointers DEF CopyFrame
    <3>3. /\ frames[i].rule = frames[q].rule /\ frames[i].prev = frames[q].prev
          /\ subst[i] = Proved(j).sub
      BY <2>3, <3>1, <3>2 DEF CopyFrame
    <3>4. Good(q)
      <4>1. q < i
        BY <3>1, <3>2
      <4>. QED BY <1>2, <4>1
    <3>5. ~IsDone(q) /\ HeadOf(j) # NIL
      <4>1. FrameOK(j)
        BY <1>1 DEF TypeOK
      <4>. QED BY <3>2, <4>1 DEF FrameOK
    <3>6. Proved(j).sub = subst[q]
      <4>1. /\ Wanted(q) \in Terms /\ Free(Wanted(q))
            /\ HeadOf(j) \in Terms /\ Free(HeadOf(j))
        BY <1>1, <3>5, FrameFree
      <4>2. Unify(HeadOf(j), subst[j], Wanted(q), subst[q]).sub = subst[q]
        BY <4>1, GroundUnify
      <4>. QED BY <3>2, <4>2 DEF Proved
    <3>7. HeadOf(i) = HeadOf(q)
      BY <3>3 DEF HeadOf
    <3>. QED BY <3>3, <3>4, <3>6, <3>7
  <2>. QED BY <1>1, <2>1, <2>2, <2>3 DEF FramesBorn, Born
<1>3. \A i \in 1..n : i \in S
  <2>. HIDE DEF S
  <2>. QED BY <1>2, CompleteInduction
<1>. QED BY <1>1, <1>3

\* The body terms of frame i that are proved.
ProvedOf(i) == {BodyOf(i)[k] : k \in 1..frames[i].idx}

LEMMA DoneIsProved ==
    ASSUME TypeOK, NEW i \in DOMAIN frames, IsDone(i)
    PROVE  ProvedOf(i) = TermsOf(BodyOf(i))
<1>1. BodyOf(i) \in Seq(Terms)
  BY FrameFacts
<1>2. DOMAIN BodyOf(i) = 1..frames[i].idx
  BY <1>1 DEF IsDone
<1>. QED BY <1>2 DEF ProvedOf, TermsOf

\* What a copy has proved is what the frame it copies has, and the head of the
\* frame it answers.
LEMMA CopyProved ==
    ASSUME TypeOK, FramesBorn, GroundKb, NEW i \in DOMAIN frames, CopyFrame(i)
    PROVE  \E j \in DOMAIN frames : \E q \in DOMAIN frames :
             /\ j = frames[i].creator /\ q = frames[j].prev /\ j < i /\ q < j
             /\ IsDone(j) /\ ~IsDone(q)
             /\ HeadOf(j) \in Terms
             /\ ProvedOf(i) = ProvedOf(q) \cup {HeadOf(j)}
<1>1. PICK j \in DOMAIN frames : j = frames[i].creator /\ j < i
  BY OlderPointers DEF CopyFrame
<1>2. PICK q \in DOMAIN frames : q = frames[j].prev /\ q < j /\ q # Null
  BY <1>1, OlderPointers DEF CopyFrame
<1>3. IsDone(j) /\ frames[i].rule = frames[q].rule /\ frames[i].idx = frames[q].idx + 1
  BY <1>1, <1>2 DEF CopyFrame
<1>4. ~IsDone(q) /\ HeadOf(j) \in Terms
  <2>1. FrameOK(j)
    BY DEF TypeOK
  <2>. QED BY <1>2, <2>1, FrameFacts DEF FrameOK
<1>5. HeadOf(j) = Wanted(q)
  BY <1>2, GroundFrames
<1>6. ProvedOf(i) = ProvedOf(q) \cup {Wanted(q)}
  <2>1. BodyOf(i) = BodyOf(q)
    BY <1>3 DEF BodyOf
  <2>2. frames[q].idx \in Nat
    BY OlderPointers
  <2>3. \A k \in 1..frames[i].idx : k \in 1..frames[q].idx \/ k = frames[q].idx + 1
    BY <1>3, <2>2
  <2>4. 1..frames[q].idx \subseteq 1..frames[i].idx /\ frames[q].idx + 1 \in 1..frames[i].idx
    BY <1>3, <2>2
  <2>. QED BY <2>1, <2>3, <2>4 DEF ProvedOf, Wanted
<1>. QED BY <1>1, <1>2, <1>3, <1>4, <1>5, <1>6

---------------------------------------------------------------------------
(* Answers follow from the rules.                                          *)

LEMMA PrefixesFollow ==
    ASSUME TypeOK, FramesBorn, GroundKb, NEW M, Closed(M)
    PROVE  \A i \in DOMAIN frames : ProvedOf(i) \subseteq M
<1>1. PICK n \in Nat : DOMAIN frames = 1..n
  BY TypesNow DEF TypeOK
<1>. DEFINE S == {i \in 1..n : ProvedOf(i) \subseteq M}
<1>2. ASSUME NEW i \in 1..n, \A j \in 1..n : j < i => j \in S
      PROVE  i \in S
  <2>1. CASE GoalFrame(i) \/ ChildFrame(i)
    BY <2>1 DEF GoalFrame, ChildFrame, ProvedOf
  <2>2. CASE CopyFrame(i)
    <3>1. PICK j \in 1..n, q \in 1..n :
             /\ j < i /\ q < j /\ IsDone(j) /\ HeadOf(j) \in Terms
             /\ ProvedOf(i) = ProvedOf(q) \cup {HeadOf(j)}
      BY <1>1, <2>2, CopyProved
    <3>2. q < i
      BY <3>1
    <3>3. ProvedOf(q) \subseteq M /\ TermsOf(BodyOf(j)) \subseteq M
      BY <1>1, <1>2, <3>1, <3>2, DoneIsProved
    <3>4. HeadOf(j) # NIL /\ frames[j].rule \in DOMAIN kb
      BY <1>1, <3>1, TermShape, FrameFacts
    <3>5. HeadOf(j) \in M
      BY <3>3, <3>4 DEF Closed, HeadOf, BodyOf
    <3>. QED BY <3>1, <3>3, <3>5
  <2>. QED BY <1>1, <2>1, <2>2 DEF FramesBorn, Born
<1>3. \A i \in 1..n : i \in S
  <2>. HIDE DEF S
  <2>. QED BY <1>2, CompleteInduction
<1>. QED BY <1>1, <1>3

LEMMA GoalsFollow == SearchInv => AnswersEntailed
<1>. SUFFICES ASSUME SearchInv, GroundKb, NEW M \in SUBSET Heads, Closed(M), NEW i \in gnd
              PROVE  TermsOf(BodyOf(i)) \subseteq M
  BY DEF AnswersEntailed
<1>1. TypeOK /\ FramesBorn /\ IsDone(i)
  BY DEF SearchInv, GoalsDone
<1>2. i \in DOMAIN frames
  BY <1>1 DEF TypeOK, Types
<1>. QED BY <1>1, <1>2, PrefixesFollow, DoneIsProved

\* Without variables, every goal reported as proved follows from the rules: it
\* is in every set of terms that the rules are closed under (prover.cpp
\* 442-474), whatever the rules are and whatever was queried before.
THEOREM GroundSound == Spec => []AnswersEntailed
BY SearchCorrect, GoalsFollow, PTL

---------------------------------------------------------------------------
(* The least model of rules without variables.                             *)

FreeRule(r) ==
    /\ r.head \in Terms /\ Free(r.head)
    /\ r.body \in Seq(Terms) /\ VariableFree(TermsOf(r.body))

LEMMA NothingReplaced ==
    ASSUME NEW t \in Terms, NEW m, DOMAIN m = {}
    PROVE  Instance(t, m) = t
<1>1. t = [k \in DOMAIN t |-> t[k]]
  BY DEF Terms, Atoms, Triples
<1>2. \A k \in DOMAIN t : Replace(t[k], m) = t[k]
  BY DEF Replace
<1>. QED BY <1>1, <1>2 DEF Instance

LEMMA FreeVars == ASSUME NEW t \in Terms, Free(t) PROVE VarsOf({t}) = {}
BY DEF Free, VarsOf, ResourcesOf

LEMMA GroundShape ==
    ASSUME NEW t \in GroundTerms
    PROVE  /\ Len(t) = 1 \/ Len(t) = 3
           /\ Len(t) = 1 => t = <<t[1]>>
           /\ Len(t) = 3 => t = <<t[1], t[2], t[3]>>
<1>1. CASE t \in {<<n>> : n \in Names}
  BY <1>1
<1>2. CASE t \in Names \X Names \X Names
  BY <1>2
<1>. QED BY <1>1, <1>2 DEF GroundTerms

LEMMA FreeAgreeing ==
    ASSUME NEW t \in Terms, Free(t), NEW f \in GroundTerms
    PROVE  Agreeing(NoSubs, t, f) = IF t = f THEN {NoSubs} ELSE {}
<1>1. VarsOf({t}) = {} /\ DOMAIN NoSubs = {}
  BY FreeVars DEF NoSubs
<1>2. \A k \in DOMAIN t : Replace(t[k], NoSubs) = t[k] /\ t[k] \notin Vars
  BY <1>1 DEF Replace, Free
<1>. DEFINE fits == Len(t) = Len(f) /\ \A k \in DOMAIN t :
                       /\ Replace(t[k], NoSubs) \in {f[k]} \cup Vars
                       /\ \A j \in DOMAIN t : t[j] = t[k] => f[j] = f[k]
            bound == [v \in DOMAIN NoSubs \cup VarsOf({t}) |->
                        IF v \in DOMAIN NoSubs THEN NoSubs[v] ELSE f[CHOOSE k \in DOMAIN t : t[k] = v]]
<1>3. Agreeing(NoSubs, t, f) = IF fits THEN {bound} ELSE {}
  BY DEF Agreeing
<1>4. bound = NoSubs
  <2>1. DOMAIN NoSubs \cup VarsOf({t}) = {}
    BY <1>1
  <2>. QED BY <2>1 DEF NoSubs
<1>5. fits => t = f
  <2>. SUFFICES ASSUME fits PROVE t = f
    OBVIOUS
  <2>1. Len(t) = Len(f) /\ \A k \in DOMAIN t : t[k] = f[k]
    BY <1>2
  <2>2. t \in GroundTerms
    BY FreeTerm
  <2>3. CASE Len(t) = 1
    <3>1. t = <<t[1]>> /\ f = <<f[1]>>
      <4>. HIDE DEF fits
      <4>. QED BY <2>1, <2>2, <2>3, GroundShape
    <3>2. 1 \in DOMAIN t
      BY <3>1
    <3>. QED BY <2>1, <3>1, <3>2
  <2>4. CASE Len(t) # 1
    <3>1. t = <<t[1], t[2], t[3]>> /\ f = <<f[1], f[2], f[3]>>
      <4>. HIDE DEF fits
      <4>. QED BY <2>1, <2>2, <2>4, GroundShape
    <3>2. 1 \in DOMAIN t /\ 2 \in DOMAIN t /\ 3 \in DOMAIN t
      BY <3>1
    <3>. QED BY <2>1, <3>1, <3>2
  <2>. QED BY <2>3, <2>4
<1>6. t = f => fits
  BY <1>2
<1>. HIDE DEF fits, bound
<1>. QED BY <1>3, <1>4, <1>5, <1>6

\* A body without variables has the one solution that binds nothing, if all of
\* it is known, and else none.
LEMMA FreeSolutions ==
    ASSUME NEW body \in Seq(Terms), VariableFree(TermsOf(body)), NEW known \in SUBSET GroundTerms
    PROVE  Solutions(body, known) = IF TermsOf(body) \subseteq known THEN {NoSubs} ELSE {}
<1>. DEFINE n == Len(body)
            More(S, x) == UNION {Agreeing(m, x, f) : m \in S, f \in known}
            F(g) == [k \in 0..n |-> IF k = 0 THEN {NoSubs} ELSE More(g[k - 1], body[k])]
            Known(k) == \A j \in 1..k : body[j] \in known
            g == [k \in 0..n |-> IF Known(k) THEN {NoSubs} ELSE {}]
            upto == CHOOSE f : f = F(f)
<1>1. n \in Nat /\ DOMAIN body = 1..n
  OBVIOUS
<1>2. \A k \in 1..n : body[k] \in Terms /\ Free(body[k])
  BY <1>1 DEF VariableFree, TermsOf, Free
<1>3. ASSUME NEW k \in 1..n, NEW S, S = IF Known(k - 1) THEN {NoSubs} ELSE {}
      PROVE  More(S, body[k]) = IF Known(k) THEN {NoSubs} ELSE {}
  <2>1. Known(k) <=> Known(k - 1) /\ body[k] \in known
    <3>1. \A j \in 1..k : j \in 1..(k - 1) \/ j = k
      OBVIOUS
    <3>2. 1..(k - 1) \subseteq 1..k /\ k \in 1..k
      OBVIOUS
    <3>. QED BY <3>1, <3>2
  <2>2. \A m \in S : \A f \in known :
           Agreeing(m, body[k], f) = IF body[k] = f THEN {NoSubs} ELSE {}
    BY <1>2, <1>3, FreeAgreeing
  <2>. HIDE DEF Known
  <2>3. CASE Known(k)
    <3>1. S = {NoSubs} /\ body[k] \in known
      BY <1>3, <2>1, <2>3
    <3>2. \A m \in S : \A f \in known : Agreeing(m, body[k], f) \subseteq {NoSubs}
      BY <2>2
    <3>3. NoSubs \in S /\ NoSubs \in Agreeing(NoSubs, body[k], body[k])
      BY <2>2, <3>1
    <3>4. NoSubs \in More(S, body[k])
      BY <3>1, <3>3
    <3>5. \A x \in More(S, body[k]) : x = NoSubs
      BY <3>2
    <3>6. More(S, body[k]) = {NoSubs}
      BY <3>4, <3>5
    <3>. QED BY <2>3, <3>6
  <2>4. CASE ~Known(k)
    <3>1. \A m \in S : \A f \in known : Agreeing(m, body[k], f) = {}
      BY <1>3, <2>1, <2>2, <2>4
    <3>2. More(S, body[k]) = {}
      BY <3>1
    <3>. QED BY <2>4, <3>2
  <2>. QED BY <2>3, <2>4
<1>4. g = F(g)
  <2>1. \A k \in 0..n : g[k] = IF Known(k) THEN {NoSubs} ELSE {}
    <3>. HIDE DEF Known
    <3>. QED OBVIOUS
  <2>2. \A k \in 1..n : k - 1 \in 0..n
    OBVIOUS
  <2>3. Known(0)
    OBVIOUS
  <2>4. ASSUME NEW k \in 0..n
        PROVE  (IF Known(k) THEN {NoSubs} ELSE {})
                 = (IF k = 0 THEN {NoSubs} ELSE More(g[k - 1], body[k]))
    <3>1. CASE k = 0
      <4>. HIDE DEF Known, More
      <4>. QED BY <2>3, <3>1
    <3>2. CASE k # 0
      <4>1. k \in 1..n
        BY <3>2
      <4>2. g[k - 1] = IF Known(k - 1) THEN {NoSubs} ELSE {}
        <5>. HIDE DEF Known, g
        <5>. QED BY <2>1, <2>2, <4>1
      <4>. HIDE DEF Known, g, More
      <4>3. More(g[k - 1], body[k]) = IF Known(k) THEN {NoSubs} ELSE {}
        BY <1>3, <4>1, <4>2
      <4>. QED BY <3>2, <4>3
    <3>. QED BY <3>1, <3>2
  <2>. DEFINE H(k) == IF k = 0 THEN {NoSubs} ELSE More(g[k - 1], body[k])
              G(k) == IF Known(k) THEN {NoSubs} ELSE {}
  <2>5. \A k \in 0..n : G(k) = H(k)
    <3>. HIDE DEF More, Known, g
    <3>. QED BY <2>4
  <2>6. [k \in 0..n |-> G(k)] = [k \in 0..n |-> H(k)]
    <3>. HIDE DEF G, H
    <3>. QED BY <2>5
  <2>7. g = [k \in 0..n |-> G(k)] /\ F(g) = [k \in 0..n |-> H(k)]
    OBVIOUS
  <2>. HIDE DEF g, F, G, H
  <2>. QED BY <2>6, <2>7
<1>5. upto = F(upto)
  <2>. HIDE DEF F, g
  <2>. QED BY <1>4
<1>6. Solutions(body, known) = upto[n]
  BY DEF Solutions, NoSubs
<1>7. \A k \in 0..n : upto[k] = IF Known(k) THEN {NoSubs} ELSE {}
  <2>. DEFINE bad == {k \in 0..n : upto[k] # IF Known(k) THEN {NoSubs} ELSE {}}
  <2>0. upto[0] = {NoSubs} /\ \A k \in 1..n :
           upto[k] = More(upto[k - 1], body[k])
    <3>1. 0 \in 0..n /\ \A k \in 1..n : k \in 0..n /\ k # 0
      OBVIOUS
    <3>. HIDE DEF upto, More
    <3>. QED BY <1>5, <3>1
  <2>. SUFFICES ASSUME bad # {} PROVE FALSE
    <3>. HIDE DEF upto, Known
    <3>. QED OBVIOUS
  <2>1. bad \in SUBSET Nat
    <3>. HIDE DEF upto, Known
    <3>. QED OBVIOUS
  <2>2. PICK k \in bad : \A j \in bad : k <= j
    <3>. HIDE DEF bad
    <3>. QED BY <2>1, LeastExists
  <2>3. k \in 0..n /\ upto[k] # IF Known(k) THEN {NoSubs} ELSE {}
    <3>. HIDE DEF upto, Known
    <3>. QED BY <2>2
  <2>4. Known(0)
    OBVIOUS
  <2>5. k # 0
    <3>. HIDE DEF upto, Known
    <3>. QED BY <2>0, <2>3, <2>4
  <2>6. k \in 1..n /\ k - 1 \in 0..n /\ ~(k <= k - 1)
    BY <2>3, <2>5
  <2>7. upto[k - 1] = IF Known(k - 1) THEN {NoSubs} ELSE {}
    <3>. HIDE DEF upto, Known
    <3>. QED BY <2>2, <2>6
  <2>. HIDE DEF upto, Known, More
  <2>. QED BY <1>3, <2>0, <2>3, <2>6, <2>7
<1>8. Known(n) <=> TermsOf(body) \subseteq known
  BY <1>1 DEF TermsOf
<1>. HIDE DEF upto, Known
<1>. QED BY <1>1, <1>6, <1>7, <1>8

\* A set of terms that rules do not lead out of.
HoldsIn(rules, S) == \A r \in rules : TermsOf(r.body) \subseteq S => r.head \in S

LEMMA FreeConsequences ==
    ASSUME NEW rules, \A r \in rules : FreeRule(r), NEW known \in SUBSET GroundTerms
    PROVE  /\ Consequences(rules, known) \in SUBSET GroundTerms
           /\ known \subseteq Consequences(rules, known)
           /\ \A r \in rules : TermsOf(r.body) \subseteq known => r.head \in Consequences(rules, known)
           /\ \A t \in Consequences(rules, known) :
                 t \in known \/ \E r \in rules : t = r.head /\ TermsOf(r.body) \subseteq known
<1>1. ASSUME NEW r \in rules
      PROVE  /\ HeadsFrom(r, known) = IF TermsOf(r.body) \subseteq known THEN {r.head} ELSE {}
             /\ r.head \in GroundTerms
  <2>. DEFINE none == VarsOf({r.head}) \ VarsOf(TermsOf(r.body))
              sols == Solutions(r.body, known)
  <2>1. FreeRule(r)
    OBVIOUS
  <2>2. none = {}
    <3>1. VarsOf({r.head}) = {}
      BY <2>1, FreeVars DEF FreeRule
    <3>. QED BY <3>1
  <2>3. HeadsFrom(r, known) = {Instance(Instance(r.head, m), n) : m \in sols, n \in [none -> Names]}
    BY DEF HeadsFrom
  <2>4. sols = IF TermsOf(r.body) \subseteq known THEN {NoSubs} ELSE {}
    BY <2>1, FreeSolutions DEF FreeRule
  <2>5. PICK nothing \in [none -> Names] : TRUE
    <3>. HIDE DEF none, sols
    <3>1. NoSubs \in [none -> Names]
      BY <2>2 DEF NoSubs
    <3>. QED BY <3>1
  <2>6. \A m \in sols : \A n \in [none -> Names] : Instance(Instance(r.head, m), n) = r.head
    <3>. SUFFICES ASSUME NEW m \in sols, NEW n \in [none -> Names]
                  PROVE  Instance(Instance(r.head, m), n) = r.head
      OBVIOUS
    <3>1. DOMAIN m = {} /\ DOMAIN n = {}
      BY <2>2, <2>4 DEF NoSubs
    <3>2. Instance(r.head, m) = r.head
      BY <2>1, <3>1, NothingReplaced DEF FreeRule
    <3>. QED BY <2>1, <3>1, <3>2, NothingReplaced DEF FreeRule
  <2>7. r.head \in GroundTerms
    BY <2>1, FreeTerm DEF FreeRule
  <2>. HIDE DEF sols, none
  <2>8. CASE TermsOf(r.body) \subseteq known
    <3>1. NoSubs \in sols
      BY <2>4, <2>8
    <3>2. r.head \in HeadsFrom(r, known)
      <4>1. Instance(Instance(r.head, NoSubs), nothing) = r.head
        BY <2>5, <2>6, <3>1
      <4>2. Instance(Instance(r.head, NoSubs), nothing) \in HeadsFrom(r, known)
        BY <2>3, <2>5, <3>1
      <4>. QED BY <4>1, <4>2
    <3>3. \A t \in HeadsFrom(r, known) : t = r.head
      BY <2>3, <2>6
    <3>. QED BY <2>7, <2>8, <3>2, <3>3
  <2>9. CASE ~(TermsOf(r.body) \subseteq known)
    <3>1. HeadsFrom(r, known) = {}
      BY <2>3, <2>4, <2>9
    <3>. QED BY <2>7, <2>9, <3>1
  <2>. QED BY <2>8, <2>9
<1>2. Consequences(rules, known) = known \cup UNION {HeadsFrom(r, known) : r \in rules}
  BY DEF Consequences
<1>3. \A t \in Consequences(rules, known) :
         t \in known \/ \E r \in rules : t = r.head /\ TermsOf(r.body) \subseteq known
  <2>. TAKE t \in Consequences(rules, known)
  <2>1. t \in known \/ \E r \in rules : t \in HeadsFrom(r, known)
    BY <1>2
  <2>. QED BY <1>1, <2>1
<1>4. \A r \in rules : TermsOf(r.body) \subseteq known => r.head \in Consequences(rules, known)
  BY <1>1, <1>2
<1>5. Consequences(rules, known) \in SUBSET GroundTerms
  BY <1>1, <1>3
<1>. QED BY <1>2, <1>3, <1>4, <1>5

\* LeastModel is the least set of ground terms that the rules do not lead out
\* of, if their heads are finitely many.
LEMMA LeastModelFree ==
    ASSUME NEW rules, \A r \in rules : FreeRule(r),
           NEW heads, IsFiniteSet(heads), \A r \in rules : r.head \in heads
    PROVE  /\ LeastModel(rules) \in SUBSET GroundTerms
           /\ HoldsIn(rules, LeastModel(rules))
           /\ \A M \in SUBSET GroundTerms : HoldsIn(rules, M) => LeastModel(rules) \subseteq M
<1>. DEFINE Sets == SUBSET GroundTerms
            More(known) == Consequences(rules, known)
            F(g) == [known \in Sets |-> IF More(known) = known THEN known ELSE g[More(known)]]
            grown == CHOOSE f : f = F(f)
            Least(known) == {t \in GroundTerms :
                               \A S \in Sets : known \subseteq S /\ HoldsIn(rules, S) => t \in S}
            g == [known \in Sets |-> Least(known)]
<1>1. ASSUME NEW known \in Sets
      PROVE  /\ More(known) \in Sets /\ known \subseteq More(known)
             /\ \A r \in rules : TermsOf(r.body) \subseteq known => r.head \in More(known)
             /\ \A t \in More(known) :
                   t \in known \/ \E r \in rules : t = r.head /\ TermsOf(r.body) \subseteq known
             /\ \A S \in Sets : known \subseteq S /\ HoldsIn(rules, S) => More(known) \subseteq S
  <2>1. /\ More(known) \in Sets /\ known \subseteq More(known)
        /\ \A r \in rules : TermsOf(r.body) \subseteq known => r.head \in More(known)
        /\ \A t \in More(known) :
              t \in known \/ \E r \in rules : t = r.head /\ TermsOf(r.body) \subseteq known
    BY FreeConsequences
  <2>2. ASSUME NEW S \in Sets, known \subseteq S, HoldsIn(rules, S), NEW t \in More(known)
        PROVE  t \in S
    <3>. HIDE DEF More
    <3>1. CASE t \in known
      BY <2>2, <3>1
    <3>2. CASE t \notin known
      <4>1. PICK r \in rules : t = r.head /\ TermsOf(r.body) \subseteq known
        BY <2>1, <2>2, <3>2
      <4>2. TermsOf(r.body) \subseteq S
        BY <2>2, <4>1
      <4>. QED BY <2>2, <4>1, <4>2 DEF HoldsIn
    <3>. QED BY <3>1, <3>2
  <2>. HIDE DEF More
  <2>. QED BY <2>1, <2>2
<1>. HIDE DEF More
<1>2. ASSUME NEW known \in Sets
      PROVE  Least(known) = IF More(known) = known THEN known ELSE g[More(known)]
  <2>1. CASE More(known) = known
    <3>1. HoldsIn(rules, known)
      BY <1>1, <2>1 DEF HoldsIn
    <3>2. Least(known) = known
      BY <3>1
    <3>. QED BY <2>1, <3>2
  <2>2. CASE More(known) # known
    <3>1. g[More(known)] = Least(More(known))
      <4>. HIDE DEF Least
      <4>. QED BY <1>1
    <3>2. \A S \in Sets : HoldsIn(rules, S) => (known \subseteq S <=> More(known) \subseteq S)
      BY <1>1
    <3>3. Least(More(known)) = Least(known)
      BY <3>2
    <3>. HIDE DEF g, Least
    <3>. QED BY <2>2, <3>1, <3>3
  <2>. QED BY <2>1, <2>2
<1>3. g = F(g)
  <2>. DEFINE G(known) == IF More(known) = known THEN known ELSE g[More(known)]
  <2>1. \A known \in Sets : Least(known) = G(known)
    BY <1>2
  <2>2. [known \in Sets |-> Least(known)] = [known \in Sets |-> G(known)]
    <3>. HIDE DEF Least, G
    <3>. QED BY <2>1
  <2>3. g = [known \in Sets |-> Least(known)] /\ F(g) = [known \in Sets |-> G(known)]
    OBVIOUS
  <2>. HIDE DEF g, F, Least, G
  <2>. QED BY <2>2, <2>3
<1>4. grown = F(grown)
  <2>. HIDE DEF F, g
  <2>. QED BY <1>3
<1>5. LeastModel(rules) = grown[{}]
  BY DEF LeastModel, More
<1>6. ASSUME NEW known \in Sets
      PROVE  grown[known] = IF More(known) = known THEN known ELSE grown[More(known)]
  <2>. HIDE DEF grown
  <2>. QED BY <1>4
<1>. HIDE DEF grown
<1>. DEFINE Fixed(known) ==
                /\ grown[known] \in Sets
                /\ HoldsIn(rules, grown[known])
                /\ \A M \in Sets : known \subseteq M /\ HoldsIn(rules, M) => grown[known] \subseteq M
            Missing(known) == heads \ known
            bad == {Cardinality(Missing(known)) : known \in {s \in Sets : ~Fixed(s)}}
<1>7. \A known \in Sets : IsFiniteSet(Missing(known)) /\ Cardinality(Missing(known)) \in Nat
  <2>. TAKE known \in Sets
  <2>1. Missing(known) \in SUBSET heads
    OBVIOUS
  <2>2. IsFiniteSet(Missing(known))
    BY <2>1, FS_Subset
  <2>. HIDE DEF Missing
  <2>. QED BY <2>2, FS_CardinalityType
<1>8. \A known \in Sets : Fixed(known)
  <2>. SUFFICES ASSUME bad # {} PROVE FALSE
    <3>. HIDE DEF Fixed, Missing
    <3>. QED OBVIOUS
  <2>1. bad \in SUBSET Nat
    <3>. HIDE DEF Fixed, Missing
    <3>. QED BY <1>7
  <2>2. PICK least \in bad : \A k \in bad : least <= k
    <3>. HIDE DEF bad
    <3>. QED BY <2>1, LeastExists
  <2>3. PICK known \in Sets : least = Cardinality(Missing(known)) /\ ~Fixed(known)
    <3>. HIDE DEF Fixed, Missing
    <3>. QED BY <2>2
  <2>4. CASE More(known) = known
    <3>1. grown[known] = known
      BY <1>6, <2>4
    <3>2. HoldsIn(rules, known)
      BY <1>1, <2>4 DEF HoldsIn
    <3>3. Fixed(known)
      BY <3>1, <3>2
    <3>. HIDE DEF Fixed
    <3>. QED BY <2>3, <3>3
  <2>5. CASE More(known) # known
    <3>1. PICK more \in Sets : more = More(known)
      BY <1>1
    <3>2. PICK t \in more : t \notin known
      BY <1>1, <2>5, <3>1
    <3>3. t \in heads
      BY <1>1, <3>1, <3>2
    <3>4. Missing(more) \in SUBSET Missing(known) /\ t \in Missing(known) /\ t \notin Missing(more)
      BY <1>1, <3>1, <3>2, <3>3
    <3>5. Cardinality(Missing(more)) < Cardinality(Missing(known))
      <4>. HIDE DEF Missing
      <4>1. Cardinality(Missing(more)) <= Cardinality(Missing(known))
        BY <1>7, <3>4, FS_Subset
      <4>2. Cardinality(Missing(more)) # Cardinality(Missing(known))
        BY <1>7, <3>4, FS_Subset
      <4>. QED BY <1>7, <4>1, <4>2
    <3>6. Fixed(more)
      <4>. SUFFICES ASSUME ~Fixed(more) PROVE FALSE
        OBVIOUS
      <4>. HIDE DEF Fixed, Missing
      <4>1. Cardinality(Missing(more)) \in bad
        OBVIOUS
      <4>2. least <= Cardinality(Missing(more))
        BY <2>2, <4>1
      <4>. QED BY <1>7, <2>3, <3>5, <4>2
    <3>7. grown[known] = grown[more]
      BY <1>6, <2>5, <3>1
    <3>8. \A M \in Sets : known \subseteq M /\ HoldsIn(rules, M) => more \subseteq M
      BY <1>1, <3>1
    <3>9. Fixed(known)
      BY <3>6, <3>7, <3>8
    <3>. HIDE DEF Fixed
    <3>. QED BY <2>3, <3>9
  <2>. QED BY <2>4, <2>5
<1>9. Fixed({})
  <2>. HIDE DEF Fixed
  <2>. QED BY <1>8
<1>. QED BY <1>5, <1>9

---------------------------------------------------------------------------
(* The proofs reported with the answers.                                   *)

\* The creator pointers from frame i to the goal.
Chain(i) ==
    LET chain[j \in 0..Len(frames)] ==
            IF j = Null THEN {} ELSE {j} \cup chain[frames[j].creator]
    IN  chain[i]

LEMMA ChainUnfolds ==
    ASSUME TypeOK
    PROVE  /\ Chain(Null) = {}
           /\ \A i \in DOMAIN frames : Chain(i) = {i} \cup Chain(frames[i].creator)
<1>1. PICK n \in Nat : n = Len(frames) /\ DOMAIN frames = 1..n
  BY TypesNow DEF TypeOK
<1>. DEFINE up == [j \in 1..n |-> frames[j].creator]
            F(g) == [j \in 0..n |-> IF j = Null THEN {} ELSE {j} \cup g[frames[j].creator]]
            f == CHOOSE g : g = F(g)
<1>2. \A j \in 1..n : frames[j].creator \in 0..n /\ up[j] = frames[j].creator
  BY <1>1, OlderPointers DEF Null
<1>3. PICK g : g = [j \in 0..n |-> IF j = Null THEN {} ELSE {j} \cup g[up[j]]]
  <2>1. \A j \in 1..n : up[j] \in 0..n
    BY <1>2
  <2>. HIDE DEF up
  <2>. QED BY <2>1, ChainExists
<1>4. g = F(g)
  <2>1. \A j \in 0..n : j # Null => j \in 1..n
    BY DEF Null
  <2>2. \A j \in 0..n : (IF j = Null THEN {} ELSE {j} \cup g[up[j]])
                      = (IF j = Null THEN {} ELSE {j} \cup g[frames[j].creator])
    <3>. HIDE DEF up
    <3>. QED BY <1>2, <2>1
  <2>. HIDE DEF up
  <2>. QED BY <1>3, <2>2
<1>5. f = F(f)
  <2>. HIDE DEF F
  <2>. QED BY <1>4
<1>6. \A i : Chain(i) = f[i]
  BY <1>1 DEF Chain
<1>7. f[Null] = {} /\ \A i \in 1..n : f[i] = {i} \cup f[frames[i].creator]
  <2>. HIDE DEF f
  <2>1. 0 \in 0..n /\ \A i \in 1..n : i \in 0..n /\ i # 0
    OBVIOUS
  <2>. QED BY <1>5, <2>1 DEF Null
<1>. QED BY <1>1, <1>6, <1>7

LEMMA ChainAmongFrames ==
    ASSUME TypeOK
    PROVE  \A i \in DOMAIN frames : Chain(i) \subseteq DOMAIN frames
<1>1. PICK n \in Nat : DOMAIN frames = 1..n
  BY TypesNow DEF TypeOK
<1>. DEFINE S == {i \in 1..n : Chain(i) \subseteq 1..n}
<1>2. ASSUME NEW i \in 1..n, \A j \in 1..n : j < i => j \in S
      PROVE  i \in S
  <2>1. Chain(i) = {i} \cup Chain(frames[i].creator) /\ Chain(Null) = {}
    BY <1>1, ChainUnfolds
  <2>2. CASE frames[i].creator = Null
    BY <2>1, <2>2
  <2>3. CASE frames[i].creator # Null
    <3>1. frames[i].creator \in 1..n /\ frames[i].creator < i
      BY <1>1, <2>3, OlderPointers
    <3>. QED BY <1>2, <2>1, <3>1
  <2>. QED BY <2>2, <2>3
<1>3. \A i \in 1..n : i \in S
  <2>. HIDE DEF S
  <2>. QED BY <1>2, CompleteInduction
<1>. QED BY <1>1, <1>3

\* The creators of a frame include those of the frame it is to prove for: a
\* copy, whose prev is not the frame that made it, gets there by the frame it
\* copies.
LEMMA ChainOfPrev ==
    ASSUME TypeOK, FramesBorn
    PROVE  \A i \in DOMAIN frames :
              frames[i].prev # Null => Chain(frames[i].prev) \subseteq Chain(i)
<1>1. PICK n \in Nat : DOMAIN frames = 1..n
  BY TypesNow DEF TypeOK
<1>. DEFINE S == {i \in 1..n : frames[i].prev # Null => Chain(frames[i].prev) \subseteq Chain(i)}
<1>2. ASSUME NEW i \in 1..n, \A j \in 1..n : j < i => j \in S
      PROVE  i \in S
  <2>1. Chain(i) = {i} \cup Chain(frames[i].creator)
    BY <1>1, ChainUnfolds
  <2>2. CASE GoalFrame(i) \/ ChildFrame(i)
    BY <2>1, <2>2 DEF GoalFrame, ChildFrame
  <2>3. CASE CopyFrame(i)
    <3>1. PICK j \in 1..n : j = frames[i].creator /\ j < i
      BY <1>1, <2>3, OlderPointers DEF CopyFrame
    <3>2. PICK q \in 1..n : q = frames[j].prev /\ q < j /\ q # Null
      BY <1>1, <2>3, <3>1, OlderPointers DEF CopyFrame
    <3>3. frames[i].prev = frames[q].prev /\ q < i
      BY <2>3, <3>1, <3>2 DEF CopyFrame
    <3>4. Chain(q) \subseteq Chain(j)
      BY <1>2, <3>1, <3>2
    <3>5. frames[q].prev # Null => Chain(frames[q].prev) \subseteq Chain(q)
      BY <1>2, <3>3
    <3>. QED BY <2>1, <3>1, <3>3, <3>4, <3>5
  <2>. QED BY <1>1, <2>2, <2>3 DEF FramesBorn, Born
<1>3. \A i \in 1..n : i \in S
  <2>. HIDE DEF S
  <2>. QED BY <1>2, CompleteInduction
<1>. QED BY <1>1, <1>3

\* The frames whose rules a proof that ends in frame i lists.
FactFrames(i) ==
    {j \in Chain(i) : frames[j].creator # Null /\ ~IsDone(frames[j].creator) /\ BodyOf(j) = <<>>}
RuleFrames(i) ==
    {j \in {frames[k].creator : k \in {k \in Chain(i) : frames[k].creator # Null}} :
        IsDone(j) /\ BodyOf(j) # <<>>}

LEMMA UsedFrames ==
    ASSUME NEW i
    PROVE  Used(i) = {[rule |-> frames[j].rule, sub |-> NoSubs] : j \in FactFrames(i)}
                     \cup {[rule |-> frames[j].rule, sub |-> subst[j]] : j \in RuleFrames(i)}
<1>1. FactFrames(i) = {j \in {j \in Chain(i) : frames[j].creator # Null} :
                          ~IsDone(frames[j].creator) /\ BodyOf(j) = <<>>}
  BY DEF FactFrames
<1>. QED BY <1>1 DEF Used, Chain, RuleFrames

\* The rules of those frames do not lead out of M.
Led(i, M) ==
    \A j \in FactFrames(i) \cup RuleFrames(i) :
        HeadOf(j) # NIL /\ TermsOf(BodyOf(j)) \subseteq M => HeadOf(j) \in M

LEMMA LedAlong ==
    ASSUME NEW M, NEW i, NEW j, Chain(j) \subseteq Chain(i), Led(i, M)
    PROVE  Led(j, M)
<1>1. FactFrames(j) \subseteq FactFrames(i) /\ RuleFrames(j) \subseteq RuleFrames(i)
  BY DEF FactFrames, RuleFrames
<1>. QED BY <1>1 DEF Led

\* The frame a copy was made for is listed, as a fact or as a rule.
LEMMA AnswerListed ==
    ASSUME TypeOK, FramesBorn, NEW i \in DOMAIN frames, CopyFrame(i)
    PROVE  frames[i].creator \in FactFrames(i) \cup RuleFrames(i)
<1>1. PICK j \in DOMAIN frames : j = frames[i].creator /\ j # Null
  BY OlderPointers DEF CopyFrame
<1>2. IsDone(j) /\ frames[j].prev # Null
  BY <1>1 DEF CopyFrame
<1>3. i \in Chain(i) /\ j \in Chain(i)
  BY <1>1, ChainUnfolds
<1>4. CASE BodyOf(j) # <<>>
  BY <1>1, <1>2, <1>3, <1>4 DEF RuleFrames
<1>5. CASE BodyOf(j) = <<>>
  <2>1. ~CopyFrame(j)
    <3>1. frames[j].idx = 0
      BY <1>2, <1>5 DEF IsDone
    <3>2. frames[frames[frames[j].creator].prev].idx \in Nat \/ ~CopyFrame(j)
      <4>1. CopyFrame(j) => /\ frames[j].creator \in DOMAIN frames
                            /\ frames[frames[j].creator].prev # Null
        BY OlderPointers DEF CopyFrame
      <4>. QED BY <4>1, OlderPointers
    <3>. QED BY <3>1, <3>2 DEF CopyFrame
  <2>2. ChildFrame(j)
    BY <1>2, <2>1 DEF FramesBorn, Born, GoalFrame
  <2>3. frames[j].creator # Null /\ ~IsDone(frames[j].creator)
    BY <2>2 DEF ChildFrame
  <2>. QED BY <1>1, <1>3, <1>5, <2>3 DEF FactFrames
<1>. QED BY <1>4, <1>5

LEMMA ProofsFollow ==
    ASSUME TypeOK, FramesBorn, GroundKb, NEW M
    PROVE  \A i \in DOMAIN frames : Led(i, M) => ProvedOf(i) \subseteq M
<1>1. PICK n \in Nat : DOMAIN frames = 1..n
  BY TypesNow DEF TypeOK
<1>. DEFINE S == {i \in 1..n : Led(i, M) => ProvedOf(i) \subseteq M}
<1>2. ASSUME NEW i \in 1..n, \A j \in 1..n : j < i => j \in S
      PROVE  i \in S
  <2>. SUFFICES ASSUME Led(i, M) PROVE ProvedOf(i) \subseteq M
    OBVIOUS
  <2>1. CASE GoalFrame(i) \/ ChildFrame(i)
    BY <2>1 DEF GoalFrame, ChildFrame, ProvedOf
  <2>2. CASE CopyFrame(i)
    <3>1. PICK j \in 1..n, q \in 1..n :
             /\ j = frames[i].creator /\ q = frames[j].prev
             /\ j < i /\ q < j /\ IsDone(j) /\ HeadOf(j) \in Terms
             /\ ProvedOf(i) = ProvedOf(q) \cup {HeadOf(j)}
      BY <1>1, <2>2, CopyProved
    <3>2. q < i
      BY <3>1
    <3>3. Chain(j) \subseteq Chain(i) /\ Chain(q) \subseteq Chain(j)
      <4>1. q # Null
        BY DEF Null
      <4>. QED BY <1>1, <3>1, <4>1, ChainUnfolds, ChainOfPrev
    <3>4. Led(j, M) /\ Led(q, M)
      BY <3>3, LedAlong
    <3>5. ProvedOf(q) \subseteq M /\ TermsOf(BodyOf(j)) \subseteq M
      BY <1>1, <1>2, <3>1, <3>2, <3>4, DoneIsProved
    <3>6. HeadOf(j) \in M
      <4>1. j \in FactFrames(i) \cup RuleFrames(i)
        BY <1>1, <2>2, <3>1, AnswerListed
      <4>. QED BY <3>1, <3>5, <4>1, TermShape DEF Led
    <3>. QED BY <3>1, <3>5, <3>6
  <2>. QED BY <1>1, <2>1, <2>2 DEF FramesBorn, Born
<1>3. \A i \in 1..n : i \in S
  <2>. HIDE DEF S
  <2>. QED BY <1>2, CompleteInduction
<1>. QED BY <1>1, <1>3

\* A rule without variables is its own instance.
LEMMA FreeApplied ==
    ASSUME NEW t \in Terms, Free(t), NEW ss
    PROVE  Applied(t, ss) = t
<1>1. t = [k \in DOMAIN t |-> t[k]]
  BY DEF Terms, Atoms, Triples
<1>2. \A k \in DOMAIN t : Resolve(t[k], ss) = t[k]
  BY DEF Free, Resolve
<1>. QED BY <1>1, <1>2 DEF Applied

LEMMA FreeEvaluates ==
    ASSUME NEW t \in Terms, Free(t), NEW ss
    PROVE  Evaluate(t, ss) = t
<1>1. ~IsVar(t)
  BY FreeTerm
<1>2. CASE t = <<t[1]>>
  <2>1. Len(t) = 1
    BY <1>2
  <2>. QED BY <1>1, <2>1 DEF Evaluate, EvalConst
<1>3. CASE t # <<t[1]>>
  <2>1. t = <<t[1], t[2], t[3]>> /\ t[2] \in Names /\ t[3] \in Names
    BY <1>3, FreeTerm
  <2>2. Len(t) = 3
    BY <2>1
  <2>3. Resolve(t[2], ss) = t[2] /\ Resolve(t[3], ss) = t[3]
    BY <2>1, VarsAreNotNames DEF Resolve
  <2>. QED BY <1>1, <2>1, <2>2, <2>3 DEF Evaluate, EvalConst
<1>. QED BY <1>2, <1>3

LEMMA FreeUsed ==
    ASSUME TypeOK, GroundKb, NEW u, u.rule \in DOMAIN kb, kb[u.rule].head # NIL
    PROVE  /\ UsedRule(u).head = kb[u.rule].head
           /\ UsedRule(u).body = kb[u.rule].body
           /\ FreeRule(UsedRule(u))
<1>. DEFINE head == kb[u.rule].head
            body == kb[u.rule].body
<1>1. head \in Terms /\ body \in Seq(Terms)
  <2>1. kb[u.rule] \in Rules
    BY DEF TypeOK, Types
  <2>. QED BY <2>1 DEF Rules
<1>2. Free(head) /\ VariableFree(TermsOf(body))
  BY DEF GroundKb, VariableFree, Free
<1>3. \A k \in DOMAIN body : Applied(body[k], u.sub) = body[k]
  <2>. SUFFICES ASSUME NEW k \in DOMAIN body PROVE Applied(body[k], u.sub) = body[k]
    OBVIOUS
  <2>1. body[k] \in Terms /\ Free(body[k])
    BY <1>1, <1>2 DEF VariableFree, TermsOf, Free
  <2>. HIDE DEF body
  <2>. QED BY <2>1, FreeApplied
<1>4. Applied(head, u.sub) = head
  <2>. HIDE DEF head
  <2>. QED BY <1>1, <1>2, FreeApplied
<1>5. UsedRule(u).head = head
  BY <1>4 DEF UsedRule
<1>6. UsedRule(u).body = body
  <2>1. UsedRule(u).body = [k \in DOMAIN body |-> Applied(body[k], u.sub)]
    BY DEF UsedRule
  <2>2. body = [k \in DOMAIN body |-> body[k]]
    BY <1>1
  <2>. HIDE DEF body
  <2>. QED BY <1>3, <2>1, <2>2
<1>. QED BY <1>1, <1>2, <1>5, <1>6 DEF FreeRule

LEMMA FiniteHeads == ASSUME TypeOK PROVE IsFiniteSet(Heads)
<1>1. IsFiniteSet(DOMAIN kb)
  <2>1. Len(kb) \in Nat /\ DOMAIN kb = 1..Len(kb)
    BY DEF TypeOK, Types
  <2>. QED BY <2>1, FS_Interval
<1>. DEFINE all == {kb[r].head : r \in DOMAIN kb}
            f == [r \in DOMAIN kb |-> kb[r].head]
<1>2. f \in Surjection(DOMAIN kb, all)
  BY DEF Surjection
<1>3. IsFiniteSet(all)
  <2>. HIDE DEF all, f
  <2>. QED BY <1>1, <1>2, FS_Surjection
<1>4. Heads \in SUBSET all
  BY DEF Heads
<1>. HIDE DEF all
<1>. QED BY <1>3, <1>4, FS_Subset

LEMMA ReportedProofs == SearchInv => (GroundKb => ProofsHold)
<1>. SUFFICES ASSUME SearchInv, GroundKb, NEW x \in e
              PROVE  x.t \in LeastModel({UsedRule(u) : u \in {u \in Used(x.f) : kb[u.rule].head # NIL}})
  BY DEF ProofsHold
<1>1. TypeOK /\ FramesBorn
  BY DEF SearchInv
<1>2. PICK i \in DOMAIN frames : i = x.f /\ IsDone(i)
  BY <1>1 DEF SearchInv, GoalsDone, EvidenceShown, TypeOK, Types
<1>3. PICK k \in DOMAIN BodyOf(i) : x.t = Evaluate(BodyOf(i)[k], subst[i])
  BY <1>2 DEF SearchInv, EvidenceShown
<1>4. x.t \in ProvedOf(i)
  <2>1. PICK t \in Terms : t = BodyOf(i)[k] /\ Free(t) /\ t \in TermsOf(BodyOf(i))
    <3>1. BodyOf(i) \in Seq(Terms) /\ VariableFree(TermsOf(BodyOf(i)))
      BY <1>1, FrameFacts, FrameFree
    <3>. QED BY <3>1 DEF VariableFree, TermsOf, Free
  <2>2. Evaluate(t, subst[i]) = t
    BY <2>1, FreeEvaluates
  <2>. QED BY <1>1, <1>2, <1>3, <2>1, <2>2, DoneIsProved
<1>. DEFINE listed == {u \in Used(i) : kb[u.rule].head # NIL}
            rules == {UsedRule(u) : u \in listed}
            M == LeastModel(rules)
<1>5. \A j \in FactFrames(i) \cup RuleFrames(i) : j \in DOMAIN frames
  <2>1. Chain(i) \subseteq DOMAIN frames
    BY <1>1, ChainAmongFrames
  <2>2. \A j \in Chain(i) : frames[j].creator # Null => frames[j].creator \in DOMAIN frames
    BY <1>1, <2>1, OlderPointers
  <2>. QED BY <2>1, <2>2 DEF FactFrames, RuleFrames
<1>6. \A u \in listed :
         /\ UsedRule(u).head = kb[u.rule].head /\ UsedRule(u).body = kb[u.rule].body
         /\ FreeRule(UsedRule(u)) /\ UsedRule(u).head \in Heads
  <2>. SUFFICES ASSUME NEW u \in listed
                PROVE  /\ UsedRule(u).head = kb[u.rule].head /\ UsedRule(u).body = kb[u.rule].body
                       /\ FreeRule(UsedRule(u)) /\ UsedRule(u).head \in Heads
    OBVIOUS
  <2>1. PICK j \in DOMAIN frames : u.rule = frames[j].rule
    BY <1>5, UsedFrames
  <2>2. u.rule \in DOMAIN kb
    BY <1>1, <2>1, FrameFacts
  <2>3. kb[u.rule].head # NIL
    OBVIOUS
  <2>. QED BY <1>1, <2>2, <2>3, FreeUsed DEF Heads
<1>7. HoldsIn(rules, M)
  <2>1. \A r \in rules : FreeRule(r) /\ r.head \in Heads
    BY <1>6
  <2>. HIDE DEF rules
  <2>. QED BY <1>1, <2>1, FiniteHeads, LeastModelFree
<1>8. Led(i, M)
  <2>. SUFFICES ASSUME NEW j \in FactFrames(i) \cup RuleFrames(i),
                       HeadOf(j) # NIL, TermsOf(BodyOf(j)) \subseteq M
                PROVE  HeadOf(j) \in M
    BY DEF Led
  <2>1. PICK u \in listed : u.rule = frames[j].rule
    <3>1. PICK u \in Used(i) : u.rule = frames[j].rule
      <4>1. CASE j \in FactFrames(i)
        <5>1. [rule |-> frames[j].rule, sub |-> NoSubs] \in Used(i)
          BY <4>1, UsedFrames
        <5>. QED BY <5>1
      <4>2. CASE j \in RuleFrames(i)
        <5>1. [rule |-> frames[j].rule, sub |-> subst[j]] \in Used(i)
          BY <4>2, UsedFrames
        <5>. QED BY <5>1
      <4>. QED BY <4>1, <4>2
    <3>. QED BY <3>1 DEF HeadOf
  <2>2. UsedRule(u) \in rules
    OBVIOUS
  <2>. HIDE DEF M, rules, listed
  <2>. QED BY <1>6, <1>7, <2>1, <2>2 DEF HoldsIn, HeadOf, BodyOf
<1>9. x.t \in M
  <2>. HIDE DEF M
  <2>. QED BY <1>1, <1>4, <1>8, ProofsFollow
<1>. QED BY <1>2, <1>9

\* Without variables, the proof that is reported with a term proves it: the
\* term follows from the facts and rules that proof::g collects on the way of
\* the creator pointers, although that way does not pass the frames the prev
\* pointers lead to (prover.cpp 442-484).
THEOREM GroundProofsHold == Spec => [](GroundKb => ProofsHold)
BY SearchCorrect, ReportedProofs, PTL

---------------------------------------------------------------------------
(* Every answer that follows is found.                                     *)

LEMMA GroundMatch ==
    ASSUME TypeOK, FramesBorn, GroundKb, NEW i \in DOMAIN frames, ~IsDone(i),
           NEW r \in DOMAIN kb, kb[r].head = Wanted(i)
    PROVE  r \in Matches(i)
<1>1. PICK t \in Terms : t = Wanted(i) /\ Free(t)
  BY FrameFree
<1>2. t # NIL /\ ~IsVar(t)
  BY <1>1, FreeTerm
<1>3. MkSubs(t, t) = MkResult(TRUE, NoSubs)
  <2>1. CASE t = <<t[1]>>
    <3>1. Len(t) = 1
      BY <2>1
    <3>. QED BY <1>2, <3>1 DEF MkSubs, MkSubsAt, MkResult, SameShape
  <2>2. CASE t # <<t[1]>>
    <3>1. t = <<t[1], t[2], t[3]>> /\ t[2] \in Names /\ t[3] \in Names
      BY <1>1, <2>2, FreeTerm
    <3>2. /\ ~IsVar(Subject(t)) /\ ~IsVar(Object(t)) /\ Len(t) # 1
      BY <3>1, VarsAreNotNames DEF IsVar, Subject, Object
    <3>. DEFINE free == MkResult(TRUE, NoSubs)
    <3>3. /\ MkSubsAt(t, t, free) = free
          /\ MkSubsAt(Subject(t), Subject(t), free) = free
          /\ MkSubsAt(Object(t), Object(t), free) = free
      BY <1>2, <3>2 DEF MkSubsAt, MkResult
    <3>. HIDE DEF free
    <3>. QED BY <1>2, <3>2, <3>3 DEF MkSubs, SameShape, free
  <2>. QED BY <2>1, <2>2
<1>4. CaseOf(NoSubs, subst[i])
  BY DEF CaseOf, NoSubs
<1>5. Unify(t, subst[i], t, NoSubs).ok
  BY <1>1, GroundUnify
<1>. QED BY <1>1, <1>3, <1>4, <1>5 DEF Matches, Candidates, Conds, Attempt, MkResult

\* What the frames look like once nothing is left to try.
Settled == TypeOK /\ FramesBorn /\ GroundKb /\ \A i \in DOMAIN frames : Tried(i)

LEMMA ChildMade ==
    ASSUME Settled, NEW i \in DOMAIN frames, ~IsDone(i), ~EulerPath(i),
           NEW r \in DOMAIN kb, kb[r].head = Wanted(i)
    PROVE  \E c \in DOMAIN frames : frames[c].rule = r /\ frames[c].prev = i /\ frames[c].idx = 0
<1>1. r \in Matches(i)
  BY GroundMatch DEF Settled
<1>2. PICK c \in DOMAIN frames : frames[c].rule = r /\ frames[c].prev = i /\ frames[c].creator = i
  BY <1>1 DEF Settled, Tried
<1>3. Born(c) /\ ~CopyFrame(c)
  BY <1>2 DEF Settled, FramesBorn, CopyFrame
<1>. QED BY <1>2, <1>3 DEF Born, GoalFrame, ChildFrame

LEMMA CopyMade ==
    ASSUME Settled, NEW j \in DOMAIN frames, IsDone(j), ~EulerPath(j),
           NEW q, q = frames[j].prev, q # Null
    PROVE  \E c \in DOMAIN frames :
              /\ frames[c].rule = frames[q].rule /\ frames[c].prev = frames[q].prev
              /\ frames[c].idx = frames[q].idx + 1
<1>1. PICK c \in DOMAIN frames : frames[c].creator = j
  BY DEF Settled, Tried
<1>2. j # Null
  BY FrameFacts DEF Settled
<1>3. ~GoalFrame(c)
  BY <1>1, <1>2 DEF GoalFrame
<1>4. ~ChildFrame(c)
  BY <1>1 DEF ChildFrame
<1>. QED BY <1>1, <1>3, <1>4 DEF Settled, FramesBorn, Born, CopyFrame

\* The term frame i waits for was proved for it.
ProvenFor(i) == \E j \in DOMAIN frames : frames[j].prev = i /\ IsDone(j) /\ ~EulerPath(j)

\* The terms of S are proved wherever they are wanted, unless above a frame
\* that proves one of them.
Reached(S) ==
    \A i \in DOMAIN frames :
        /\ ~IsDone(i) /\ ~EulerPath(i) /\ Wanted(i) \in S
        /\ \A a \in Path(i) : HeadOf(a) \notin S
        => ProvenFor(i)

\* If the body of a rule is reached, it is proved.
LEMMA BodyReached ==
    ASSUME Settled, NEW S, Reached(S), NEW c \in DOMAIN frames, frames[c].idx = 0,
           TermsOf(BodyOf(c)) \subseteq S, HeadOf(c) \notin S,
           \A a \in Path(frames[c].prev) :
              HeadOf(a) \notin S /\ (HeadOf(c) # NIL => HeadOf(a) # HeadOf(c))
    PROVE  \E d \in DOMAIN frames :
              /\ frames[d].rule = frames[c].rule /\ frames[d].prev = frames[c].prev
              /\ IsDone(d) /\ ~EulerPath(d)
<1>1. TypeOK
  BY DEF Settled
<1>. DEFINE Same(d) == frames[d].rule = frames[c].rule /\ frames[d].prev = frames[c].prev
            ks == {frames[d].idx : d \in {d \in DOMAIN frames : Same(d)}}
<1>2. ASSUME NEW d \in DOMAIN frames, Same(d)
      PROVE  /\ BodyOf(d) = BodyOf(c) /\ HeadOf(d) = HeadOf(c)
             /\ \A a \in Path(d) : HeadOf(a) \notin S
             /\ ~EulerPath(d)
  <2>1. BodyOf(d) = BodyOf(c) /\ HeadOf(d) = HeadOf(c)
    BY <1>2 DEF BodyOf, HeadOf
  <2>2. Path(d) = {d} \cup Path(frames[c].prev)
    BY <1>1, <1>2, PathUnfolds DEF PathEquation
  <2>3. ~EulerPath(d)
    <3>. SUFFICES ASSUME HeadOf(d) # NIL, NEW a \in Ancestors(d), frames[a].rule = frames[d].rule
                  PROVE  FALSE
      BY DEF EulerPath
    <3>1. a \in Path(frames[c].prev)
      BY <2>2 DEF Ancestors
    <3>2. HeadOf(a) = HeadOf(c)
      BY <1>2 DEF HeadOf
    <3>. QED BY <2>1, <3>1, <3>2
  <2>. QED BY <2>1, <2>2, <2>3
<1>3. PICK max \in Nat : ks \in SUBSET (0..max)
  <2>1. PICK max \in Nat : max = Len(BodyOf(c))
    BY <1>1, FrameFacts
  <2>2. \A d \in DOMAIN frames : Same(d) => frames[d].idx \in 0..max
    BY <1>1, <1>2, <2>1, OlderPointers DEF TypeOK, FrameOK
  <2>. QED BY <2>2
<1>4. PICK k \in ks : k \in Nat /\ \A x \in ks : x <= k
  <2>1. frames[c].idx \in ks
    OBVIOUS
  <2>. HIDE DEF ks
  <2>2. \A x \in ks : x \in Nat
    BY <1>3
  <2>. QED BY <1>3, <2>1, <2>2, GreatestExists
<1>5. PICK d \in DOMAIN frames : Same(d) /\ frames[d].idx = k
  BY <1>4
<1>6. IsDone(d)
  <2>. SUFFICES ASSUME ~IsDone(d) PROVE FALSE
    OBVIOUS
  <2>1. Wanted(d) \in S
    <3>1. /\ frames[d].idx + 1 <= Len(BodyOf(d)) /\ BodyOf(d) \in Seq(Terms)
          /\ frames[d].idx \in Nat
      BY <1>1, FrameFacts, OlderPointers
    <3>2. frames[d].idx + 1 \in DOMAIN BodyOf(d)
      BY <3>1
    <3>3. BodyOf(d) = BodyOf(c)
      BY <1>2, <1>5
    <3>. QED BY <3>2, <3>3 DEF Wanted, TermsOf
  <2>2. ProvenFor(d)
    BY <1>2, <1>5, <2>1 DEF Reached
  <2>3. PICK j \in DOMAIN frames : frames[j].prev = d /\ IsDone(j) /\ ~EulerPath(j)
    BY <2>2 DEF ProvenFor
  <2>4. d # Null
    BY <1>1, FrameFacts
  <2>5. PICK b \in DOMAIN frames : Same(b) /\ frames[b].idx = k + 1
    BY <1>5, <2>3, <2>4, CopyMade
  <2>6. k + 1 \in ks
    BY <2>5
  <2>. HIDE DEF ks
  <2>. QED BY <1>4, <2>6
<1>. QED BY <1>2, <1>5, <1>6

LEMMA ReachedGrows ==
    ASSUME Settled, NEW S, Reached(S), NEW r \in DOMAIN kb,
           kb[r].head # NIL, kb[r].head \notin S, TermsOf(kb[r].body) \subseteq S
    PROVE  Reached(S \cup {kb[r].head})
<1>. DEFINE h == kb[r].head
<1>. SUFFICES ASSUME NEW i \in DOMAIN frames, ~IsDone(i), ~EulerPath(i),
                     Wanted(i) \in S \cup {h},
                     \A a \in Path(i) : HeadOf(a) \notin S \cup {h}
              PROVE  ProvenFor(i)
  BY DEF Reached
<1>1. CASE Wanted(i) \in S
  BY <1>1 DEF Reached
<1>2. CASE Wanted(i) = h
  <2>1. PICK c \in DOMAIN frames : frames[c].rule = r /\ frames[c].prev = i /\ frames[c].idx = 0
    BY <1>2, ChildMade
  <2>2. HeadOf(c) = h /\ TermsOf(BodyOf(c)) \subseteq S
    BY <2>1 DEF HeadOf, BodyOf
  <2>3. HeadOf(c) \notin S
    BY <2>2
  <2>4. \A a \in Path(frames[c].prev) :
           HeadOf(a) \notin S /\ (HeadOf(c) # NIL => HeadOf(a) # HeadOf(c))
    BY <2>1, <2>2
  <2>5. PICK d \in DOMAIN frames :
           frames[d].prev = frames[c].prev /\ IsDone(d) /\ ~EulerPath(d)
    BY <2>1, <2>2, <2>3, <2>4, BodyReached
  <2>. QED BY <2>1, <2>5 DEF ProvenFor
<1>. QED BY <1>1, <1>2

\* The largest set of heads reached is closed under the rules.
LEMMA ReachedClosed ==
    ASSUME Settled
    PROVE  \E S \in SUBSET Heads : Reached(S) /\ Closed(S)
<1>. DEFINE sets == {S \in SUBSET Heads : Reached(S)}
            sizes == {Cardinality(S) : S \in sets}
<1>1. IsFiniteSet(Heads) /\ Cardinality(Heads) \in Nat
  BY FiniteHeads, FS_CardinalityType DEF Settled
<1>2. \A S \in SUBSET Heads :
         IsFiniteSet(S) /\ Cardinality(S) \in Nat /\ Cardinality(S) <= Cardinality(Heads)
  BY <1>1, FS_Subset, FS_CardinalityType
<1>3. {} \in sets
  BY DEF Reached
<1>4. sizes \in SUBSET (0..Cardinality(Heads)) /\ sizes # {}
  <2>1. \A S \in sets : S \in SUBSET Heads
    OBVIOUS
  <2>. HIDE DEF sets
  <2>. QED BY <1>1, <1>2, <1>3, <2>1
<1>5. PICK k \in sizes : \A x \in sizes : x <= k
  <2>. HIDE DEF sizes
  <2>. QED BY <1>1, <1>4, GreatestExists
<1>6. PICK S \in sets : k = Cardinality(S)
  <2>. HIDE DEF sets
  <2>. QED BY <1>5
<1>7. S \in SUBSET Heads /\ Reached(S)
  OBVIOUS
<1>8. Closed(S)
  <2>. SUFFICES ASSUME NEW r \in DOMAIN kb, kb[r].head # NIL,
                       TermsOf(kb[r].body) \subseteq S, kb[r].head \notin S
                PROVE  FALSE
    BY DEF Closed
  <2>. DEFINE more == S \cup {kb[r].head}
  <2>1. Reached(more)
    BY <1>7, ReachedGrows
  <2>2. kb[r].head \in Heads
    BY DEF Heads
  <2>3. more \in sets
    BY <1>7, <2>1, <2>2
  <2>4. Cardinality(more) \in sizes
    <3>. HIDE DEF sets, more
    <3>. QED BY <2>3
  <2>5. Cardinality(more) = Cardinality(S) + 1
    BY <1>2, <1>7, FS_AddElement
  <2>6. Cardinality(S) \in Nat
    BY <1>2, <1>7
  <2>. HIDE DEF sizes, more
  <2>. QED BY <1>4, <1>5, <1>6, <2>4, <2>5, <2>6
<1>. QED BY <1>7, <1>8

\* do_query made a frame for every goal.
GoalsFramed ==
    \A q \in Queries : \E i \in DOMAIN frames : frames[i].rule = q /\ frames[i].idx = 0

LEMMA InitFramed == Init => GoalsFramed
BY KBsAreRuleBases DEF Init, GoalsFramed, Queries

LEMMA NextFramed ==
    ASSUME TypeOK, Grown, GoalsFramed, [Next]_vars
    PROVE  GoalsFramed'
<1>1. \A q \in Queries : \E i \in DOMAIN frames' : frames'[i].rule = q /\ frames'[i].idx = 0
  BY DEF GoalsFramed, Grown
<1>2. CASE kb' = kb
  BY <1>1, <1>2 DEF GoalsFramed, Queries
<1>3. ASSUME NEW goal \in Goals, DoQuery(goal) PROVE GoalsFramed'
  <2>0. PICK new \in Nat : \E k \in Nat :
          /\ DOMAIN frames = 1..(new - 1) /\ DOMAIN frames' = 1..new
          /\ DOMAIN kb = 1..(k - 1) /\ DOMAIN kb' = 1..k
          /\ kb'[k] = [head |-> NIL, body |-> goal]
          /\ Grown
          /\ frames'[new].rule = k /\ frames'[new].idx = 0
          /\ frames'[new].prev = Null /\ frames'[new].creator = Null
          /\ subst'[new] = NoSubs
    BY <1>3, DoQueryFrames
  <2>1. PICK k \in Nat :
          /\ DOMAIN frames = 1..(new - 1) /\ DOMAIN frames' = 1..new
          /\ DOMAIN kb = 1..(k - 1) /\ DOMAIN kb' = 1..k
          /\ frames'[new].rule = k /\ frames'[new].idx = 0
    BY <2>0
  <2>2. new \in DOMAIN frames'
    <3>1. frames' = Append(frames, Frame(Len(kb) + 1, 0, Null, Null)) /\ frames \in Seq(Frames)
      BY <1>3 DEF DoQuery, TypeOK, Types
    <3>2. Len(frames) \in Nat /\ DOMAIN frames' = 1..(Len(frames) + 1)
      <4>. HIDE DEF Frame
      <4>. QED BY <3>1
    <3>. QED BY <2>1, <3>2
  <2>3. \A q \in Queries' : q \in Queries \/ q = k
    <3>1. \A q \in Queries' : q \in DOMAIN kb' /\ kb'[q].head = NIL
      BY DEF Queries
    <3>2. \A q \in DOMAIN kb' : q \in DOMAIN kb \/ q = k
      BY <2>1
    <3>. QED BY <3>1, <3>2 DEF Grown, Queries
  <2>. QED BY <1>1, <2>1, <2>2, <2>3 DEF GoalsFramed
<1>. QED BY <1>2, <1>3 DEF Next, Step, Prune, Match, Ground, Ascend, Throw, PushEv, vars

\* The rules the prover was given, without the goals.
Given == {kb[r] : r \in DOMAIN kb \ Queries}

LEMMA GivenFree ==
    ASSUME TypeOK, GroundKb
    PROVE  /\ \A r \in Given : FreeRule(r) /\ r.head \in Heads
           /\ Heads \subseteq GroundTerms
<1>1. ASSUME NEW k \in DOMAIN kb, kb[k].head # NIL
      PROVE  FreeRule(kb[k])
  <2>1. kb[k] \in Rules
    BY DEF TypeOK, Types
  <2>2. kb[k].head \in Terms /\ kb[k].body \in Seq(Terms)
    BY <1>1, <2>1 DEF Rules
  <2>3. Free(kb[k].head) /\ VariableFree(TermsOf(kb[k].body))
    BY DEF GroundKb, VariableFree, Free
  <2>. QED BY <2>2, <2>3 DEF FreeRule
<1>2. \A h \in Heads : h \in GroundTerms
  <2>. SUFFICES ASSUME NEW k \in DOMAIN kb, kb[k].head # NIL PROVE kb[k].head \in GroundTerms
    BY DEF Heads
  <2>. QED BY <1>1, FreeTerm DEF FreeRule
<1>. QED BY <1>1, <1>2 DEF Given, Queries, Heads

\* What the rules lead to is in every set that they do not lead out of.
LEMMA ModelWithin ==
    ASSUME TypeOK, GroundKb, NEW S \in SUBSET Heads, Closed(S)
    PROVE  LeastModel(Given) \subseteq S
<1>1. HoldsIn(Given, S)
  BY DEF HoldsIn, Given, Queries, Closed
<1>2. S \in SUBSET GroundTerms
  BY GivenFree
<1>. QED BY <1>1, <1>2, GivenFree, FiniteHeads, LeastModelFree

\* A goal that follows is reported.
LEMMA GoalReported ==
    ASSUME Settled, GoalsFramed, NEW q \in Queries,
           TermsOf(kb[q].body) \subseteq LeastModel(Given)
    PROVE  \E i \in gnd : frames[i].rule = q
<1>1. TypeOK /\ GroundKb
  BY DEF Settled
<1>2. PICK S \in SUBSET Heads : Reached(S) /\ Closed(S)
  BY ReachedClosed
<1>3. TermsOf(kb[q].body) \subseteq S
  BY <1>1, <1>2, ModelWithin
<1>4. PICK c \in DOMAIN frames : frames[c].rule = q /\ frames[c].idx = 0
  BY DEF GoalsFramed
<1>5. HeadOf(c) = NIL /\ TermsOf(BodyOf(c)) \subseteq S /\ frames[c].prev = Null
  <2>1. HeadOf(c) = NIL
    BY <1>4 DEF HeadOf, Queries
  <2>. QED BY <1>1, <1>3, <1>4, <2>1 DEF BodyOf, TypeOK, FrameOK
<1>6. HeadOf(c) \notin S /\ Path(frames[c].prev) = {}
  BY <1>1, <1>5, PathUnfolds DEF Heads, PathEquation
<1>7. PICK d \in DOMAIN frames :
        /\ frames[d].rule = frames[c].rule /\ frames[d].prev = frames[c].prev
        /\ IsDone(d) /\ ~EulerPath(d)
  BY <1>2, <1>4, <1>5, <1>6, BodyReached
<1>8. d \in gnd
  BY <1>5, <1>7 DEF Settled, Tried
<1>. QED BY <1>4, <1>7, <1>8

\* The answer to a goal without variables is the goal.
LEMMA FreeAnswers ==
    ASSUME NEW goal \in Seq(Terms), VariableFree(TermsOf(goal)),
           NEW rules, LeastModel(rules) \in SUBSET GroundTerms
    PROVE  AnswersTo(rules, goal) =
              IF TermsOf(goal) \subseteq LeastModel(rules) THEN {goal} ELSE {}
<1>. DEFINE known == LeastModel(rules)
            sols == Solutions(goal, known)
            It(m) == [k \in DOMAIN goal |-> Instance(goal[k], m)]
<1>1. AnswersTo(rules, goal) = {It(m) : m \in sols}
  BY DEF AnswersTo
<1>2. sols = IF TermsOf(goal) \subseteq known THEN {NoSubs} ELSE {}
  <2>. HIDE DEF known
  <2>1. known \in SUBSET GroundTerms
    BY DEF known
  <2>. QED BY <2>1, FreeSolutions
<1>3. It(NoSubs) = goal
  <2>1. \A k \in DOMAIN goal : goal[k] \in Terms /\ DOMAIN NoSubs = {}
    BY DEF NoSubs
  <2>2. \A k \in DOMAIN goal : Instance(goal[k], NoSubs) = goal[k]
    BY <2>1, NothingReplaced
  <2>3. goal = [k \in DOMAIN goal |-> goal[k]]
    OBVIOUS
  <2>. QED BY <2>2, <2>3
<1>. HIDE DEF sols, known, It
<1>4. CASE TermsOf(goal) \subseteq known
  <2>1. sols = {NoSubs}
    BY <1>2, <1>4
  <2>2. {It(m) : m \in sols} = {goal}
    BY <1>3, <2>1
  <2>. QED BY <1>1, <1>4, <2>2 DEF known
<1>5. CASE ~(TermsOf(goal) \subseteq known)
  <2>1. sols = {}
    BY <1>2, <1>5
  <2>. QED BY <1>1, <1>5, <2>1 DEF known
<1>. QED BY <1>4, <1>5

LEMMA FreeAnswered ==
    ASSUME TypeOK, GroundKb, NEW i \in DOMAIN frames
    PROVE  Answered(i) = BodyOf(i)
<1>1. BodyOf(i) \in Seq(Terms) /\ VariableFree(TermsOf(BodyOf(i)))
  BY FrameFacts, FrameFree
<1>2. \A k \in DOMAIN BodyOf(i) : Evaluate(BodyOf(i)[k], subst[i]) = BodyOf(i)[k]
  <2>1. \A k \in DOMAIN BodyOf(i) : BodyOf(i)[k] \in Terms /\ Free(BodyOf(i)[k])
    BY <1>1 DEF VariableFree, TermsOf, Free
  <2>. QED BY <2>1, FreeEvaluates
<1>3. BodyOf(i) = [k \in DOMAIN BodyOf(i) |-> BodyOf(i)[k]]
  BY <1>1
<1>. QED BY <1>2, <1>3 DEF Answered

LEMMA LatestIsQuery ==
    ASSUME TypeOK, Queries # {}
    PROVE  /\ LatestQuery \in Queries /\ LatestQuery # 0
           /\ \A q \in Queries : q <= LatestQuery
<1>1. Len(kb) \in Nat /\ DOMAIN kb = 1..Len(kb)
  BY DEF TypeOK, Types
<1>2. Queries \in SUBSET (0..Len(kb))
  BY <1>1 DEF Queries
<1>3. PICK q \in Queries : \A p \in Queries : p <= q
  BY <1>1, <1>2, GreatestExists
<1>4. LatestQuery \in Queries /\ \A p \in Queries : p <= LatestQuery
  BY <1>3 DEF LatestQuery
<1>. QED BY <1>1, <1>4 DEF Queries

\* The prover is only ever at work on a goal.
Asked == status # "idle" => Queries # {}

LEMMA NextAsked ==
    ASSUME TypeOK, Grown, Asked, [Next]_vars
    PROVE  Asked'
<1>1. Queries \subseteq Queries'
  BY DEF Queries, Grown
<1>2. ASSUME NEW goal \in Goals, DoQuery(goal) PROVE Queries' # {}
  <2>1. PICK k \in Nat : DOMAIN kb' = 1..k /\ kb'[k] = [head |-> NIL, body |-> goal]
    BY <1>2, DoQueryFrames
  <2>2. k \in DOMAIN kb'
    <3>1. kb' = Append(kb, [head |-> NIL, body |-> goal]) /\ kb \in Seq(Rules)
      BY <1>2 DEF DoQuery, TypeOK, Types
    <3>2. Len(kb) \in Nat /\ DOMAIN kb' = 1..(Len(kb) + 1)
      BY <3>1
    <3>. QED BY <2>1, <3>2
  <2>3. k \in Queries'
    BY <2>1, <2>2 DEF Queries
  <2>. QED BY <2>3
<1>. QED BY <1>1, <1>2 DEF Asked, Next, Step, Prune, Match, Ground, Ascend, Throw, PushEv, vars

CompleteInv == VisitInv /\ GoalsFramed /\ Asked

LEMMA InitComplete == Init => CompleteInv
BY InitVisit, InitFramed DEF CompleteInv, Asked, Init

LEMMA NextComplete == CompleteInv /\ [Next]_vars => CompleteInv'
<1>. SUFFICES ASSUME CompleteInv, [Next]_vars PROVE CompleteInv'
  OBVIOUS
<1>1. TypeOK /\ Grown /\ GoalsFramed /\ Asked
  BY NextBorn DEF CompleteInv, VisitInv, SearchInv
<1>. QED BY <1>1, NextVisit, NextFramed, NextAsked DEF CompleteInv

LEMMA FoundWhenIdle == CompleteInv => (GroundKb => AnswersFound)
<1>. SUFFICES ASSUME CompleteInv, GroundKb, status = "idle", Queries # {}
              PROVE  AnswersTo(Given, LatestGoal) \subseteq {Answered(i) : i \in gnd}
  BY DEF AnswersFound, Given
<1>1. TypeOK /\ GoalsFramed
  BY DEF CompleteInv, VisitInv, SearchInv
<1>2. Settled
  BY DEF CompleteInv, VisitInv, SearchInv, TriedOrWaiting, Waiting, Settled
<1>3. PICK q \in Queries : q = LatestQuery /\ LatestGoal = kb[q].body
  BY <1>1, LatestIsQuery DEF LatestGoal
<1>4. kb[q].body \in Seq(Terms) /\ VariableFree(TermsOf(kb[q].body))
  <2>1. q \in DOMAIN kb /\ kb[q] \in Rules
    BY <1>1 DEF Queries, TypeOK, Types
  <2>. QED BY <2>1 DEF Rules, GroundKb, VariableFree
<1>5. LeastModel(Given) \in SUBSET GroundTerms
  BY <1>1, GivenFree, FiniteHeads, LeastModelFree
<1>6. CASE TermsOf(kb[q].body) \subseteq LeastModel(Given)
  <2>1. PICK i \in gnd : frames[i].rule = q
    BY <1>1, <1>2, <1>6, GoalReported
  <2>2. i \in DOMAIN frames
    BY <1>1 DEF TypeOK, Types
  <2>3. Answered(i) = kb[q].body
    BY <1>1, <2>1, <2>2, FreeAnswered DEF BodyOf
  <2>4. AnswersTo(Given, kb[q].body) = {kb[q].body}
    BY <1>4, <1>5, <1>6, FreeAnswers
  <2>. QED BY <1>3, <2>3, <2>4
<1>7. CASE ~(TermsOf(kb[q].body) \subseteq LeastModel(Given))
  <2>1. AnswersTo(Given, kb[q].body) = {}
    BY <1>4, <1>5, <1>7, FreeAnswers
  <2>. QED BY <1>3, <2>1
<1>. QED BY <1>6, <1>7

\* Without variables, every goal that follows from the rules is answered when
\* its query is over, whatever cycles the rules have: what euler_path leaves
\* out is not needed (prover.cpp 127-138, 442-474).
THEOREM GroundComplete == Spec => [](GroundKb => AnswersFound)
BY InitComplete, NextComplete, FoundWhenIdle, PTL DEF Spec

---------------------------------------------------------------------------
(* Without variables, the prover does what QueryAnswering promises.        *)

\* The answers found for the latest goal, and whether its query is under way.
Found == {Answered(i) : i \in {i \in gnd : frames[i].rule = LatestQuery}}
Phase == IF status = "idle" THEN "idle" ELSE "busy"

\* What QueryAnswering means by the answers of a goal is what Entailment means.
LEMMA SameAnswers == \A rules, goal : Promise!AnswersTo(rules, goal) = AnswersTo(rules, goal)
BY DEF Promise!AnswersTo, AnswersTo, Promise!LeastModel, LeastModel, Promise!GroundTerms, GroundTerms,
       Promise!Consequences, Consequences, Promise!HeadsFrom, HeadsFrom, Promise!TermsOf, TermsOf,
       Promise!Solutions, Solutions, Promise!Agreeing, Agreeing, Promise!Instance, Instance,
       Promise!Replace, Replace, Promise!VarsOf, VarsOf, Promise!ResourcesOf, ResourcesOf,
       Promise!NIL, NIL


LEMMA Asks ==
    ASSUME NEW question \in Goals,
           Phase = "idle", Phase' = "busy", LatestGoal' = question, Found' = {}, Given' = Given
    PROVE  [Promise!Next]_(Promise!vars)
BY DEF Promise!Next, Promise!Ask, Given, Found, Phase

LEMMA Answers ==
    ASSUME NEW a \in AnswersTo(Given, LatestGoal), Found' = Found \cup {a},
           Phase = "busy", UNCHANGED <<Given, LatestGoal, Phase>>
    PROVE  [Promise!Next]_(Promise!vars)
<1>1. CASE a \in Found
  <2>1. Found' = Found
    BY <1>1
  <2>. QED BY <2>1 DEF Promise!vars, Given, Found, Phase
<1>2. CASE a \notin Found
  BY <1>2, SameAnswers DEF Promise!Next, Promise!Answer, Given, Found, Phase
<1>. QED BY <1>1, <1>2

LEMMA Finishes ==
    ASSUME Found = AnswersTo(Given, LatestGoal), Phase = "busy", Phase' = "idle",
           UNCHANGED <<Given, LatestGoal, Found>>
    PROVE  [Promise!Next]_(Promise!vars)
BY SameAnswers DEF Promise!Next, Promise!Finish, Given, Found, Phase

LEMMA Stutters ==
    ASSUME UNCHANGED <<Given, LatestGoal, Found, Phase>>
    PROVE  [Promise!Next]_(Promise!vars)
BY DEF Promise!vars, Given, Found, Phase

\* The latest goal, and what there is to answer to it.
LEMMA LatestFacts ==
    ASSUME TypeOK, FramesBorn, GroundKb, Queries # {}
    PROVE  /\ LatestQuery \in Queries /\ LatestGoal = kb[LatestQuery].body
           /\ LeastModel(Given) \in SUBSET GroundTerms
           /\ HoldsIn(Given, LeastModel(Given))
           /\ AnswersTo(Given, LatestGoal) =
                IF TermsOf(LatestGoal) \subseteq LeastModel(Given) THEN {LatestGoal} ELSE {}
<1>1. PICK q \in Queries : q = LatestQuery /\ LatestGoal = kb[q].body
  BY LatestIsQuery DEF LatestGoal
<1>2. LatestGoal \in Seq(Terms) /\ VariableFree(TermsOf(LatestGoal))
  <2>1. q \in DOMAIN kb /\ kb[q] \in Rules
    BY DEF Queries, TypeOK, Types
  <2>. QED BY <1>1, <2>1 DEF Rules, GroundKb, VariableFree
<1>3. LeastModel(Given) \in SUBSET GroundTerms /\ HoldsIn(Given, LeastModel(Given))
  BY GivenFree, FiniteHeads, LeastModelFree
<1>. QED BY <1>1, <1>2, <1>3, FreeAnswers

\* A frame that has proved the latest goal answers it.
LEMMA DoneAnswers ==
    ASSUME TypeOK, FramesBorn, GroundKb, Queries # {},
           NEW i \in DOMAIN frames, IsDone(i), frames[i].rule = LatestQuery
    PROVE  Answered(i) = LatestGoal /\ Answered(i) \in AnswersTo(Given, LatestGoal)
<1>1. Answered(i) = LatestGoal /\ BodyOf(i) = LatestGoal
  BY LatestFacts, FreeAnswered DEF BodyOf
<1>2. Closed(LeastModel(Given))
  BY LatestFacts DEF HoldsIn, Given, Queries, Closed
<1>3. TermsOf(LatestGoal) \subseteq LeastModel(Given)
  BY <1>1, <1>2, PrefixesFollow, DoneIsProved
<1>. QED BY <1>1, <1>3, LatestFacts

LEMMA FoundAtEnd ==
    ASSUME CompleteInv, GroundKb, status = "reporting"
    PROVE  Found = AnswersTo(Given, LatestGoal)
<1>1. TypeOK /\ FramesBorn /\ GoalsDone /\ GoalsFramed /\ Queries # {}
  BY DEF CompleteInv, VisitInv, SearchInv, Asked
<1>2. Settled
  BY DEF CompleteInv, VisitInv, SearchInv, TriedOrWaiting, Waiting, Settled
<1>3. gnd \subseteq DOMAIN frames
  BY <1>1 DEF TypeOK, Types
<1>4. \A i \in gnd : frames[i].rule = LatestQuery
        => Answered(i) = LatestGoal /\ Answered(i) \in AnswersTo(Given, LatestGoal)
  BY <1>1, <1>3, DoneAnswers DEF GoalsDone
<1>5. ASSUME NEW a \in AnswersTo(Given, LatestGoal)
      PROVE  a \in Found
  <2>1. a = LatestGoal /\ TermsOf(kb[LatestQuery].body) \subseteq LeastModel(Given)
    BY <1>1, <1>5, LatestFacts
  <2>2. PICK i \in gnd : frames[i].rule = LatestQuery
    BY <1>1, <1>2, <2>1, LatestFacts, GoalReported
  <2>. QED BY <1>4, <2>1, <2>2 DEF Found
<1>. QED BY <1>4, <1>5 DEF Found

\* What is found so far is not touched by a step that adds no rule.
LEMMA FoundKept ==
    ASSUME TypeOK, TypeOK', GroundKb, Grown, kb' = kb
    PROVE  /\ Given' = Given /\ LatestGoal' = LatestGoal /\ LatestQuery' = LatestQuery
           /\ Queries' = Queries
           /\ \A i \in DOMAIN frames : Answered(i)' = Answered(i) /\ frames'[i].rule = frames[i].rule
<1>1. Queries' = Queries
  BY DEF Queries
<1>2. LatestQuery' = LatestQuery
  BY <1>1 DEF LatestQuery
<1>3. Given' = Given /\ LatestGoal' = LatestGoal
  BY <1>1, <1>2 DEF Given, LatestGoal
<1>4. \A i \in DOMAIN frames : Answered(i)' = Answered(i)
  <2>1. \A i \in DOMAIN frames : BodyOf(i)' = BodyOf(i) /\ subst'[i] = subst[i]
    BY GrownKeeps DEF Grown
  <2>. QED BY <2>1 DEF Answered
<1>. QED BY <1>1, <1>2, <1>3, <1>4 DEF Grown

LEMMA AskPromised ==
    ASSUME CompleteInv, TypeOK', GroundKb, Grown, NEW goal \in Goals, DoQuery(goal)
    PROVE  [Promise!Next]_(Promise!vars)
<1>1. TypeOK /\ status = "idle" /\ status' = "stepping" /\ gnd' = gnd
  BY DEF CompleteInv, VisitInv, SearchInv, DoQuery
<1>2. PICK k \in Nat : /\ DOMAIN kb = 1..(k - 1) /\ DOMAIN kb' = 1..k
                       /\ kb'[k] = [head |-> NIL, body |-> goal]
                       /\ k \in DOMAIN kb'
  <2>1. PICK k \in Nat : /\ DOMAIN kb = 1..(k - 1) /\ DOMAIN kb' = 1..k
                         /\ kb'[k] = [head |-> NIL, body |-> goal]
    BY <1>1, DoQueryFrames
  <2>2. k \in DOMAIN kb'
    <3>1. kb' = Append(kb, [head |-> NIL, body |-> goal]) /\ kb \in Seq(Rules)
      BY <1>1 DEF DoQuery, TypeOK, Types
    <3>2. Len(kb) \in Nat /\ DOMAIN kb' = 1..(Len(kb) + 1)
      BY <3>1
    <3>. QED BY <2>1, <3>2
  <2>. QED BY <2>1, <2>2
<1>3. Queries' = Queries \cup {k} /\ k \notin DOMAIN kb
  <2>1. \A q \in DOMAIN kb' : q \in DOMAIN kb \/ q = k
    BY <1>2
  <2>2. k \notin DOMAIN kb
    BY <1>2
  <2>. QED BY <1>2, <2>1, <2>2 DEF Queries, Grown
<1>4. LatestQuery' = k
  <2>1. \A q \in Queries' : q <= k /\ q \in Int
    BY <1>2 DEF Queries
  <2>2. LatestQuery' = CHOOSE q \in Queries' : \A p \in Queries' : p <= q
    BY <1>2, <1>3 DEF LatestQuery
  <2>. QED BY <1>3, <2>1, <2>2
<1>5. LatestGoal' = goal
  <2>1. k # 0
    BY <1>2
  <2>. QED BY <1>2, <1>4, <2>1 DEF LatestGoal
<1>6. Given' = Given
  <2>1. DOMAIN kb' \ Queries' = DOMAIN kb \ Queries
    BY <1>2, <1>3
  <2>2. \A r \in DOMAIN kb : kb'[r] = kb[r]
    BY DEF Grown
  <2>. QED BY <2>1, <2>2 DEF Given
<1>7. Found' = {}
  <2>1. \A i \in gnd : i \in DOMAIN frames /\ frames'[i].rule \in DOMAIN kb
    BY <1>1, FrameFacts DEF TypeOK, Types, Grown
  <2>2. \A i \in gnd' : frames'[i].rule # LatestQuery'
    BY <1>1, <1>3, <1>4, <2>1
  <2>. QED BY <2>2 DEF Found
<1>8. Phase = "idle" /\ Phase' = "busy"
  BY <1>1 DEF Phase
<1>. QED BY <1>5, <1>6, <1>7, <1>8, Asks

LEMMA StepPromised ==
    ASSUME CompleteInv, CompleteInv', GroundKb, [Next]_vars
    PROVE  [Promise!Next]_(Promise!vars)
<1>1. TypeOK /\ TypeOK' /\ FramesBorn /\ GoalsDone /\ Asked /\ Grown
  BY NextBorn DEF CompleteInv, VisitInv, SearchInv
<1>2. gnd \subseteq DOMAIN frames
  BY <1>1 DEF TypeOK, Types
<1>3. ASSUME kb' = kb, gnd' = gnd
      PROVE  Given' = Given /\ LatestGoal' = LatestGoal /\ Found' = Found
  BY <1>1, <1>2, <1>3, FoundKept DEF Found
<1>4. CASE UNCHANGED <<kb, gnd>> /\ (status = "idle" <=> status' = "idle")
  <2>1. Phase' = Phase
    BY <1>4 DEF Phase
  <2>. QED BY <1>3, <1>4, <2>1, Stutters
<1>5. CASE Prune \/ Match \/ Ascend \/ Throw \/ UNCHANGED vars
  BY <1>4, <1>5 DEF Prune, Match, Ascend, Throw, Return, vars
<1>6. CASE Ground
  <2>1. PICK top \in DOMAIN frames : top = Top
    BY <1>1, <1>6, TopIsFrame DEF Ground
  <2>2. gnd' = gnd \cup {top} /\ IsDone(top) /\ kb' = kb /\ status = "stepping" /\ status' # "idle"
    BY <1>6, <2>1 DEF Ground, Return
  <2>3. Phase = "busy" /\ Phase' = Phase /\ Given' = Given /\ LatestGoal' = LatestGoal
    BY <1>1, <2>2, FoundKept DEF Phase
  <2>4. CASE frames[top].rule = LatestQuery
    <3>1. Found' = Found \cup {Answered(top)}
      BY <1>1, <1>2, <2>1, <2>2, <2>4, FoundKept DEF Found
    <3>2. Answered(top) \in AnswersTo(Given, LatestGoal)
      BY <1>1, <2>2, <2>4, DoneAnswers DEF Asked
    <3>. QED BY <2>3, <3>1, <3>2, Answers
  <2>5. CASE frames[top].rule # LatestQuery
    <3>1. Found' = Found
      BY <1>1, <1>2, <2>1, <2>2, <2>5, FoundKept DEF Found
    <3>. QED BY <2>3, <3>1, Stutters
  <2>. QED BY <2>4, <2>5
<1>7. CASE PushEv
  <2>1. status = "reporting" /\ status' = "idle" /\ kb' = kb /\ gnd' = gnd
    BY <1>7 DEF PushEv
  <2>2. Phase = "busy" /\ Phase' = "idle"
    BY <2>1 DEF Phase
  <2>. QED BY <1>3, <2>1, <2>2, FoundAtEnd, Finishes
<1>. QED BY <1>1, <1>5, <1>6, <1>7, AskPromised DEF Next, Step

LEMMA InitPromised == Init => Promise!Init
<1>. SUFFICES ASSUME Init PROVE Promise!Init
  OBVIOUS
<1>1. Queries = {} /\ gnd = {} /\ status = "idle" /\ kb \in KBs
  BY KBsAreRuleBases DEF Init, Queries
<1>2. LatestGoal = <<>>
  BY <1>1 DEF LatestGoal, LatestQuery
<1>3. {kb[r] : r \in DOMAIN kb \ Queries} = {kb[r] : r \in DOMAIN kb}
  BY <1>1
<1>. QED BY <1>1, <1>2, <1>3 DEF Promise!Init

\* Rule bases and goals without variables keep the rule base so, goals and all.
GroundInputs ==
    /\ \A rules \in KBs : \A r \in DOMAIN rules :
          VariableFree(TermsOf(rules[r].body) \cup {rules[r].head})
    /\ \A goal \in Goals : VariableFree(TermsOf(goal))

LEMMA GroundStays == ASSUME GroundInputs PROVE Spec => []GroundKb
<1>1. Init => GroundKb
  BY DEF Init, GroundInputs, GroundKb
<1>2. TypeOK /\ GroundKb /\ [Next]_vars => GroundKb'
  <2>. SUFFICES ASSUME TypeOK, GroundKb, [Next]_vars PROVE GroundKb'
    OBVIOUS
  <2>1. CASE kb' = kb
    BY <2>1 DEF GroundKb
  <2>2. ASSUME NEW goal \in Goals, DoQuery(goal) PROVE GroundKb'
    <3>. DEFINE r == [head |-> NIL, body |-> goal]
    <3>1. kb' = Append(kb, r) /\ kb \in Seq(Rules)
      BY <2>2 DEF DoQuery, TypeOK, Types
    <3>2. /\ \A q \in DOMAIN kb' : q \in DOMAIN kb \/ q = Len(kb) + 1
          /\ \A q \in DOMAIN kb : kb'[q] = kb[q]
          /\ kb'[Len(kb) + 1] = r
      <4>. HIDE DEF r
      <4>. QED BY <3>1
    <3>3. VariableFree(TermsOf(r.body) \cup {r.head})
      <4>1. \A k \in DOMAIN NIL : FALSE
        BY DEF NIL
      <4>2. r.body = goal /\ r.head = NIL
        OBVIOUS
      <4>. QED BY <4>1, <4>2 DEF GroundInputs, VariableFree
    <3>. HIDE DEF r
    <3>. QED BY <3>2, <3>3 DEF GroundKb
  <2>. QED BY <2>1, <2>2 DEF Next, Step, Prune, Match, Ground, Ascend, Throw, PushEv, vars
<1>. QED BY <1>1, <1>2, TypeCorrect, PTL DEF Spec

\* The safety part of AnswersQueries.
PromiseKept == Promise!Init /\ [][Promise!Next]_(Promise!vars)

\* Without variables, the prover implements QueryAnswering but for the promise
\* to end: it finds answers that follow and no others, each query answers its
\* own goal only, and it is over no sooner than all of them are found.
THEOREM GroundPromise == ASSUME GroundInputs PROVE Spec => PromiseKept
<1>1. CompleteInv /\ CompleteInv' /\ GroundKb /\ [Next]_vars => [Promise!Next]_(Promise!vars)
  BY StepPromised
<1>. QED BY <1>1, GroundStays, InitPromised, InitComplete, NextComplete, PTL DEF Spec, PromiseKept
=============================================================================
