----------------------------- MODULE RowsProofs -----------------------------
(***************************************************************************)
(* Proofs about the rows of vm.h, for any resources and any equations: no  *)
(* row equates two constants or more than it was told, what shares a row   *)
(* goes on sharing one, and no address is in a row twice or in two.  A row *)
(* is only looked at by its first element (Free); the invariant says why   *)
(* that is enough.                                                         *)
(*                                                                         *)
(* Then about the reader of triples.h, for any texts, right or wrong: a    *)
(* name has one address unless it was lost in a table that was moved; as   *)
(* long as none was, what is written alike has one, and the rules of vm.h  *)
(* hold for resources as they are written.                                 *)
(***************************************************************************)
EXTENDS Triples, TLAPS, FiniteSetTheorems, SequenceTheorems, WellFoundedInduction

Elements(row) == Range(row) \ {Null}

\* Every set with x that the equations do not leave has y.
Linked(A, x, y) ==
    \A S : x \in S /\ (\A e \in A : e \cap S # {} => e \subseteq S) => y \in S

\* Sound: a row is not empty, begins with a null if it has a nonvar, has no two
\* of them, nothing but nulls twice, and its elements are linked.
IsRow(R, row) == row \in Seq(R \cup {Null}) /\ row # <<>>
Bounded(row) == Free(row) => Range(row) \cap Nonvars = {}
OneNonvar(row) == \A x, y \in Range(row) \cap Nonvars : x = y
AllLinked(A, row) == \A x, y \in Elements(row) : Linked(A, x, y)
Distinct(row) == \A i, j \in DOMAIN row : row[i] = row[j] /\ row[i] # Null => i = j
Sound(R, A, row) ==
    IsRow(R, row) /\ Bounded(row) /\ OneNonvar(row) /\ AllLinked(A, row) /\ Distinct(row)

\* Rule 3, of addresses: with Distinct, an element appears once in one row.
Apart(rows) ==
    \A n, k \in DOMAIN rows : n # k => Elements(rows[n]) \cap Elements(rows[k]) = {}

\* The inductive invariant, of rows of some resources R.
IInv(R) ==
    /\ asked \in SUBSET (SUBSET R)
    /\ eqs \in Seq(Seq(R \cup {Null}))
    /\ \A n \in DOMAIN eqs : Sound(R, asked, eqs[n])
    /\ Apart(eqs)

---------------------------------------------------------------------------
(* Sequences.                                                              *)

\* A set of numbers that is not empty has a least one.
LEMMA LeastOne ==
    ASSUME NEW S \in SUBSET Nat, S # {}
    PROVE  Min(S) \in S /\ \A k \in S : Min(S) <= k
<1>1. PICK m \in S : \A k \in S : ~(<<k, m>> \in OpToRel(<, Nat))
  BY NatLessThanWellFounded, WFMin
<1>2. ASSUME NEW k \in S PROVE m <= k
  <2>1. ~(<<k, m>> \in OpToRel(<, Nat)) /\ k \in Nat /\ m \in Nat
    BY <1>1
  <2>. QED BY <2>1 DEF OpToRel
<1>. QED BY <1>2 DEF Min

\* findrow finds a row the resource is in, and one if there is any.
LEMMA RowFound ==
    ASSUME NEW R, NEW x, eqs \in Seq(Seq(R \cup {Null}))
    PROVE  \/ FindRow(x) = 0 /\ \A n \in DOMAIN eqs : x \notin Range(eqs[n])
           \/ FindRow(x) \in DOMAIN eqs /\ x \in Range(eqs[FindRow(x)])
<1>. DEFINE I == {n \in 1..Len(eqs) : x \in Range(eqs[n])}
<1>1. FindRow(x) = IF I # {} THEN Min(I) ELSE 0
  BY DEF FindRow, SelectInSeq
<1>2. DOMAIN eqs = 1..Len(eqs)
  OBVIOUS
<1>3. CASE I = {}
  BY <1>1, <1>2, <1>3
<1>4. CASE I # {}
  <2>1. I \in SUBSET Nat
    OBVIOUS
  <2>2. Min(I) \in I
    BY <1>4, <2>1, LeastOne
  <2>. QED BY <1>1, <1>2, <1>4, <2>2
<1>. QED BY <1>3, <1>4

\* A null and the element are all that push adds.
LEMMA Pushed ==
    ASSUME NEW R, NEW x \in R, NEW row, IsRow(R, row)
    PROVE  /\ IsRow(R, Push(x, row))
           /\ Head(Push(x, row)) = Null
           /\ Range(Push(x, row)) = Range(row) \cup {x, Null}
           /\ x \notin Range(row) /\ Distinct(row) => Distinct(Push(x, row))
<1>1. row \in Seq(R \cup {Null}) /\ Len(row) \in Nat /\ DOMAIN row = 1..Len(row)
  BY DEF IsRow
<1>2. CASE x \in Vars
  <2>. DEFINE new == <<Null>> \o Append(row, x)
  <2>1. Push(x, row) = new
    BY <1>2 DEF Push
  <2>2. new \in Seq(R \cup {Null}) /\ Len(new) = Len(row) + 2
    BY <1>1
  <2>3. DOMAIN new = 1..(Len(row) + 2)
    BY <1>1, <2>2
  <2>4. /\ new[1] = Null /\ new[Len(row) + 2] = x
        /\ \A k \in 1..Len(row) : new[k + 1] = row[k]
    BY <1>1
  <2>5. Range(new) \subseteq Range(row) \cup {x, Null}
    <3>1. ASSUME NEW k \in DOMAIN new PROVE new[k] \in Range(row) \cup {x, Null}
      <4>1. CASE k = 1 BY <4>1, <2>4
      <4>2. CASE k = Len(row) + 2 BY <4>2, <2>4
      <4>3. CASE k # 1 /\ k # Len(row) + 2
        <5>1. k - 1 \in 1..Len(row) /\ k = (k - 1) + 1
          BY <1>1, <2>3, <4>3
        <5>2. new[k] = row[k - 1]
          BY <2>4, <5>1
        <5>. QED BY <1>1, <5>1, <5>2 DEF Range
      <4>. QED BY <4>1, <4>2, <4>3
    <3>. QED BY <3>1 DEF Range
  <2>6. Range(row) \cup {x, Null} \subseteq Range(new)
    <3>1. ASSUME NEW k \in 1..Len(row) PROVE row[k] \in Range(new)
      <4>1. new[k + 1] = row[k] /\ k + 1 \in DOMAIN new
        BY <1>1, <2>3, <2>4
      <4>. QED BY <4>1 DEF Range
    <3>2. x \in Range(new) /\ Null \in Range(new)
      <4>1. 1 \in DOMAIN new /\ Len(row) + 2 \in DOMAIN new
        BY <1>1, <2>3
      <4>. QED BY <2>4, <4>1 DEF Range
    <3>. QED BY <1>1, <3>1, <3>2 DEF Range
  <2>7. ASSUME x \notin Range(row), Distinct(row),
               NEW i \in DOMAIN new, NEW j \in DOMAIN new, new[i] = new[j], new[i] # Null
        PROVE  i = j
    <3>1. ASSUME NEW p \in DOMAIN new, p # 1
          PROVE  \/ p = Len(row) + 2 /\ new[p] = x
                 \/ p # Len(row) + 2 /\ p - 1 \in DOMAIN row /\ new[p] = row[p - 1]
      <4>1. CASE p = Len(row) + 2 BY <4>1, <2>4
      <4>2. CASE p # Len(row) + 2
        <5>1. p - 1 \in 1..Len(row) /\ p = (p - 1) + 1
          BY <1>1, <2>3, <3>1, <4>2
        <5>2. new[p] = row[p - 1]
          BY <2>4, <5>1
        <5>. QED BY <1>1, <4>2, <5>1, <5>2
      <4>. QED BY <4>1, <4>2
    <3>2. i # 1 /\ j # 1
      BY <2>4, <2>7
    <3>3. \A p \in DOMAIN row : row[p] # x
      BY <2>7 DEF Range
    <3>4. \/ i = Len(row) + 2 /\ j = Len(row) + 2
          \/ /\ i - 1 \in DOMAIN row /\ j - 1 \in DOMAIN row
             /\ row[i - 1] = row[j - 1] /\ row[i - 1] # Null
      BY <2>7, <3>1, <3>2, <3>3
    <3>5. CASE i - 1 \in DOMAIN row /\ j - 1 \in DOMAIN row
               /\ row[i - 1] = row[j - 1] /\ row[i - 1] # Null
      <4>1. i - 1 = j - 1
        BY <2>7, <3>5 DEF Distinct
      <4>. QED BY <2>3, <1>1, <4>1
    <3>. QED BY <3>4, <3>5
  <2>8. x \notin Range(row) /\ Distinct(row) => Distinct(new)
    BY <2>7 DEF Distinct
  <2>. QED BY <1>1, <2>1, <2>2, <2>4, <2>5, <2>6, <2>8 DEF IsRow
<1>3. CASE x \notin Vars
  <2>. DEFINE new == <<Null>> \o (<<x>> \o row)
  <2>1. Push(x, row) = new
    BY <1>3 DEF Push
  <2>2. new \in Seq(R \cup {Null}) /\ Len(new) = Len(row) + 2
    BY <1>1
  <2>3. DOMAIN new = 1..(Len(row) + 2)
    BY <1>1, <2>2
  <2>4. /\ new[1] = Null /\ new[2] = x
        /\ \A k \in 1..Len(row) : new[k + 2] = row[k]
    BY <1>1
  <2>5. Range(new) \subseteq Range(row) \cup {x, Null}
    <3>1. ASSUME NEW k \in DOMAIN new PROVE new[k] \in Range(row) \cup {x, Null}
      <4>1. CASE k = 1 BY <4>1, <2>4
      <4>2. CASE k = 2 BY <4>2, <2>4
      <4>3. CASE k # 1 /\ k # 2
        <5>1. k - 2 \in 1..Len(row) /\ k = (k - 2) + 2
          BY <1>1, <2>3, <4>3
        <5>2. new[k] = row[k - 2]
          BY <2>4, <5>1
        <5>. QED BY <1>1, <5>1, <5>2 DEF Range
      <4>. QED BY <4>1, <4>2, <4>3
    <3>. QED BY <3>1 DEF Range
  <2>6. Range(row) \cup {x, Null} \subseteq Range(new)
    <3>1. ASSUME NEW k \in 1..Len(row) PROVE row[k] \in Range(new)
      <4>1. new[k + 2] = row[k] /\ k + 2 \in DOMAIN new
        BY <1>1, <2>3, <2>4
      <4>. QED BY <4>1 DEF Range
    <3>2. x \in Range(new) /\ Null \in Range(new)
      <4>1. 1 \in DOMAIN new /\ 2 \in DOMAIN new
        BY <1>1, <2>3
      <4>. QED BY <2>4, <4>1 DEF Range
    <3>. QED BY <1>1, <3>1, <3>2 DEF Range
  <2>7. ASSUME x \notin Range(row), Distinct(row),
               NEW i \in DOMAIN new, NEW j \in DOMAIN new, new[i] = new[j], new[i] # Null
        PROVE  i = j
    <3>1. ASSUME NEW p \in DOMAIN new, p # 1
          PROVE  \/ p = 2 /\ new[p] = x
                 \/ p # 2 /\ p - 2 \in DOMAIN row /\ new[p] = row[p - 2]
      <4>1. CASE p = 2 BY <4>1, <2>4
      <4>2. CASE p # 2
        <5>1. p - 2 \in 1..Len(row) /\ p = (p - 2) + 2
          BY <1>1, <2>3, <3>1, <4>2
        <5>2. new[p] = row[p - 2]
          BY <2>4, <5>1
        <5>. QED BY <1>1, <4>2, <5>1, <5>2
      <4>. QED BY <4>1, <4>2
    <3>2. i # 1 /\ j # 1
      BY <2>4, <2>7
    <3>3. \A p \in DOMAIN row : row[p] # x
      BY <2>7 DEF Range
    <3>4. \/ i = 2 /\ j = 2
          \/ /\ i - 2 \in DOMAIN row /\ j - 2 \in DOMAIN row
             /\ row[i - 2] = row[j - 2] /\ row[i - 2] # Null
      BY <2>7, <3>1, <3>2, <3>3
    <3>5. CASE i - 2 \in DOMAIN row /\ j - 2 \in DOMAIN row
               /\ row[i - 2] = row[j - 2] /\ row[i - 2] # Null
      <4>1. i - 2 = j - 2
        BY <2>7, <3>5 DEF Distinct
      <4>. QED BY <2>3, <1>1, <4>1
    <3>. QED BY <3>4, <3>5
  <2>8. x \notin Range(row) /\ Distinct(row) => Distinct(new)
    BY <2>7 DEF Distinct
  <2>. QED BY <1>1, <2>1, <2>2, <2>4, <2>5, <2>6, <2>8 DEF IsRow
<1>. QED BY <1>2, <1>3

---------------------------------------------------------------------------
(* Rows.                                                                   *)

\* More equations leave no link behind.
LEMMA LinkedMore ==
    ASSUME NEW A, NEW B, A \subseteq B, NEW x, NEW y, Linked(A, x, y)
    PROVE  Linked(B, x, y)
BY DEF Linked

\* A good row is good with more equations.
LEMMA SoundMore ==
    ASSUME NEW R, NEW A, NEW B, A \subseteq B, NEW row, Sound(R, A, row)
    PROVE  Sound(R, B, row)
BY LinkedMore DEF Sound, AllLinked

\* What Check has let through may be pushed to the row of what it equals.
LEMMA PushedSound ==
    ASSUME NEW R, Null \notin R, NEW A, NEW B, A \subseteq B,
           NEW x \in R, NEW y \in R, {x, y} \in B,
           NEW row, Sound(R, A, row), y \in Range(row), x \notin Range(row),
           x \notin Vars => Free(row)
    PROVE  Sound(R, B, Push(x, row))
<1>. DEFINE new == Push(x, row)
<1>1. IsRow(R, row) /\ Bounded(row) /\ OneNonvar(row) /\ AllLinked(B, row) /\ Distinct(row)
  BY SoundMore DEF Sound
<1>2. /\ IsRow(R, new) /\ Head(new) = Null /\ Range(new) = Range(row) \cup {x, Null}
      /\ Distinct(new)
  BY <1>1, Pushed
<1>3. Null \notin R /\ Null \notin Nonvars
  BY ResourcesApart DEF Resources
<1>4. Bounded(new)
  BY <1>2 DEF Bounded, Free
<1>5. OneNonvar(new)
  <2>1. CASE x \in Vars
    <3>1. x \notin Nonvars
      BY <2>1, ResourcesApart
    <3>. QED BY <1>1, <1>2, <1>3, <3>1 DEF OneNonvar
  <2>2. CASE x \notin Vars
    <3>1. Range(row) \cap Nonvars = {}
      BY <1>1, <2>2 DEF Bounded
    <3>. QED BY <1>2, <1>3, <3>1 DEF OneNonvar
  <2>. QED BY <2>1, <2>2
<1>6. AllLinked(B, new)
  <2>1. Elements(new) = Elements(row) \cup {x}
    BY <1>2, <1>3 DEF Elements
  <2>2. y \in Elements(row)
    BY <1>3 DEF Elements
  <2>3. ASSUME NEW v \in Elements(new), NEW w \in Elements(new), NEW S, v \in S,
               \A e \in B : e \cap S # {} => e \subseteq S
        PROVE  w \in S
    <3>1. {x, y} \cap S # {} => {x, y} \subseteq S
      BY <2>3
    <3>2. \A a, b \in Elements(row) : a \in S => b \in S
      BY <1>1, <2>3 DEF AllLinked, Linked
    <3>3. y \in S
      BY <2>1, <2>2, <2>3, <3>1, <3>2
    <3>. QED BY <2>1, <2>2, <3>1, <3>2, <3>3
  <2>. QED BY <2>3 DEF AllLinked, Linked
<1>. QED BY <1>2, <1>4, <1>5, <1>6 DEF Sound

LEMMA NewRange ==
    ASSUME NEW x, NEW y
    PROVE  Range(NewRow(x, y)) \subseteq {Null, x, y}
<1>. DEFINE row == NewRow(x, y)
<1>1. row = <<Null, x, y>> \/ row = <<Null, y, x>> \/ row = <<x, y>>
  BY DEF NewRow
<1>2. CASE row = <<Null, x, y>> BY <1>2 DEF Range
<1>3. CASE row = <<Null, y, x>> BY <1>3 DEF Range
<1>4. CASE row = <<x, y>> BY <1>4 DEF Range
<1>. QED BY <1>1, <1>2, <1>3, <1>4

\* A row of two that may be equal is good.
LEMMA NewSound ==
    ASSUME NEW R, Null \notin R, NEW B, NEW x \in R, NEW y \in R, {x, y} \in B,
           {x, y} \cap Vars # {}, x # y
    PROVE  Sound(R, B, NewRow(x, y))
<1>. DEFINE row == NewRow(x, y)
<1>1. Null \notin R /\ Null \notin Nonvars /\ Vars \cap Nonvars = {}
  BY ResourcesApart DEF Resources
<1>2. \/ row = <<Null, x, y>> /\ x \notin Vars /\ y \in Vars
      \/ row = <<Null, y, x>> /\ x \in Vars /\ y \notin Vars
      \/ row = <<x, y>> /\ x \in Vars /\ y \in Vars
  BY DEF NewRow
<1>3. IsRow(R, row) /\ Head(row) \in {Null, x}
  <2>1. CASE row = <<Null, x, y>> BY <2>1 DEF IsRow
  <2>2. CASE row = <<Null, y, x>> BY <2>2 DEF IsRow
  <2>3. CASE row = <<x, y>> BY <2>3 DEF IsRow
  <2>. QED BY <1>2, <2>1, <2>2, <2>3
<1>4. Range(row) \subseteq {Null, x, y}
  BY NewRange
<1>5. Bounded(row)
  <2>1. CASE x \in Vars /\ y \in Vars
    BY <1>1, <1>4, <2>1, ResourcesApart DEF Bounded
  <2>2. CASE ~(x \in Vars /\ y \in Vars)
    <3>1. row = <<Null, x, y>> \/ row = <<Null, y, x>>
      BY <1>2, <2>2
    <3>2. Head(row) = Null
      BY <3>1
    <3>. QED BY <3>2 DEF Bounded, Free
  <2>. QED BY <2>1, <2>2
<1>6. OneNonvar(row)
  BY <1>1, <1>4, ResourcesApart DEF OneNonvar
<1>7. AllLinked(B, row)
  <2>1. ASSUME NEW v \in {x, y}, NEW w \in {x, y}, NEW S, v \in S,
               \A e \in B : e \cap S # {} => e \subseteq S
        PROVE  w \in S
    <3>1. {x, y} \cap S # {} => {x, y} \subseteq S
      BY <2>1
    <3>. QED BY <2>1, <3>1
  <2>. QED BY <1>4, <2>1 DEF AllLinked, Linked, Elements
<1>8. Distinct(row)
  <2>1. CASE row = <<Null, x, y>> BY <2>1 DEF Distinct
  <2>2. CASE row = <<Null, y, x>> BY <2>2 DEF Distinct
  <2>3. CASE row = <<x, y>> BY <2>3 DEF Distinct
  <2>. QED BY <1>2, <2>1, <2>2, <2>3
<1>. QED BY <1>3, <1>5, <1>6, <1>7, <1>8 DEF Sound

---------------------------------------------------------------------------
(* Steps.                                                                  *)

LEMMA InitIInv ==
    ASSUME NEW R
    PROVE  Init => IInv(R)
BY DEF Init, IInv, Apart

\* The row m, which the resource b is in, gets the resource a, which is in none.
LEMMA PushIInv ==
    ASSUME NEW R, Null \notin R, IInv(R), NEW B, asked \subseteq B, B \in SUBSET (SUBSET R),
           asked' = B,
           NEW m \in DOMAIN eqs, NEW a \in R, NEW b \in R, {a, b} \in B,
           b \in Range(eqs[m]), \A n \in DOMAIN eqs : a \notin Range(eqs[n]),
           a \notin Vars => Free(eqs[m]),
           eqs' = [eqs EXCEPT ![m] = Push(a, @)]
    PROVE  IInv(R)'
<1>1. /\ eqs \in Seq(Seq(R \cup {Null})) /\ Apart(eqs)
      /\ \A i \in DOMAIN eqs : Sound(R, asked, eqs[i]) /\ Sound(R, B, eqs[i])
  BY SoundMore DEF IInv
<1>2. Sound(R, B, Push(a, eqs[m]))
  BY <1>1, PushedSound
<1>3. Push(a, eqs[m]) \in Seq(R \cup {Null})
  BY <1>2 DEF Sound, IsRow
<1>4. eqs' \in Seq(Seq(R \cup {Null})) /\ DOMAIN eqs' = DOMAIN eqs
  BY <1>1, <1>3
<1>5. \A i \in DOMAIN eqs : eqs'[i] = IF i = m THEN Push(a, eqs[m]) ELSE eqs[i]
  BY <1>1
<1>6. \A i \in DOMAIN eqs' : Sound(R, asked', eqs'[i])
  BY <1>1, <1>2, <1>4, <1>5
<1>7. Apart(eqs')
  <2>1. Range(Push(a, eqs[m])) = Range(eqs[m]) \cup {a, Null}
    BY <1>1, Pushed DEF Sound
  <2>2. \A n \in DOMAIN eqs : Elements(eqs'[n]) \subseteq Elements(eqs[n]) \cup (IF n = m THEN {a} ELSE {})
    BY <1>5, <2>1 DEF Elements
  <2>3. \A n \in DOMAIN eqs : a \notin Elements(eqs[n])
    BY DEF Elements
  <2>4. ASSUME NEW n \in DOMAIN eqs, NEW k \in DOMAIN eqs, n # k
        PROVE  Elements(eqs'[n]) \cap Elements(eqs'[k]) = {}
    <3>1. Elements(eqs[n]) \cap Elements(eqs[k]) = {}
      BY <1>1, <2>4 DEF Apart
    <3>2. CASE n = m
      BY <2>2, <2>3, <2>4, <3>1, <3>2
    <3>3. CASE n # m
      BY <2>2, <2>3, <2>4, <3>1, <3>3
    <3>. QED BY <3>2, <3>3
  <2>. QED BY <1>4, <2>4 DEF Apart
<1>. QED BY <1>4, <1>6, <1>7 DEF IInv

\* An accepted equation leaves sound rows.
LEMMA ApplyIInv ==
    ASSUME NEW R, Null \notin R, IInv(R), NEW x \in R, NEW y \in R, Apply(x, y)
    PROVE  IInv(R)'
<1>. DEFINE n == FindRow(x)
            k == FindRow(y)
            B == asked \cup {{x, y}}
<1>1. /\ asked \in SUBSET (SUBSET R)
      /\ eqs \in Seq(Seq(R \cup {Null})) /\ Apart(eqs)
      /\ \A i \in DOMAIN eqs : Sound(R, asked, eqs[i]) /\ Sound(R, B, eqs[i])
  BY SoundMore DEF IInv
<1>2. /\ {x, y} \cap Vars # {} /\ x # y
      /\ Check(x, y) /\ eqs' = Put(x, y) /\ asked' = B
  BY DEF Apply
<1>3. /\ \/ n = 0 /\ \A i \in DOMAIN eqs : x \notin Range(eqs[i])
         \/ n \in DOMAIN eqs /\ x \in Range(eqs[n])
      /\ \/ k = 0 /\ \A i \in DOMAIN eqs : y \notin Range(eqs[i])
         \/ k \in DOMAIN eqs /\ y \in Range(eqs[k])
  BY <1>1, RowFound
<1>4. /\ DOMAIN eqs = 1..Len(eqs) /\ 0 \notin DOMAIN eqs
      /\ {x, y} \in B /\ {y, x} = {x, y} /\ asked \subseteq B
      /\ B \in SUBSET (SUBSET R)
  BY <1>1
<1>. HIDE DEF n, k, B
<1>5. CASE n = 0 /\ k = 0
  <2>. DEFINE new == NewRow(x, y)
  <2>1. eqs' = <<new>> \o eqs
    BY <1>2, <1>5 DEF Put, n, k
  <2>2. Sound(R, B, new)
    BY <1>2, <1>4, NewSound
  <2>3. new \in Seq(R \cup {Null}) /\ Elements(new) \subseteq {x, y}
    <3>1. Range(new) \subseteq {Null, x, y}
      BY NewRange
    <3>. QED BY <2>2, <3>1 DEF Sound, IsRow, Elements
  <2>. HIDE DEF new
  <2>4. eqs' \in Seq(Seq(R \cup {Null})) /\ DOMAIN eqs' = 1..(Len(eqs) + 1)
    BY <1>1, <2>1, <2>3
  <2>5. ASSUME NEW i \in DOMAIN eqs'
        PROVE  \/ i = 1 /\ eqs'[i] = new
               \/ i # 1 /\ i - 1 \in DOMAIN eqs /\ eqs'[i] = eqs[i - 1]
    <3>1. CASE i = 1
      BY <1>1, <2>1, <2>3, <3>1
    <3>2. CASE i # 1
      BY <1>1, <2>1, <2>3, <2>4, <3>2
    <3>. QED BY <3>1, <3>2
  <2>6. \A i \in DOMAIN eqs' : Sound(R, asked', eqs'[i])
    BY <1>1, <1>2, <2>2, <2>5
  <2>7. Apart(eqs')
    <3>1. \A i \in DOMAIN eqs : x \notin Elements(eqs[i]) /\ y \notin Elements(eqs[i])
      BY <1>3, <1>4, <1>5 DEF Elements
    <3>2. ASSUME NEW i \in DOMAIN eqs', NEW j \in DOMAIN eqs', i # j
          PROVE  Elements(eqs'[i]) \cap Elements(eqs'[j]) = {}
      <4>1. CASE i = 1
        <5>1. eqs'[i] = new /\ j - 1 \in DOMAIN eqs /\ eqs'[j] = eqs[j - 1]
          BY <2>5, <3>2, <4>1
        <5>. QED BY <2>3, <3>1, <5>1
      <4>2. CASE j = 1
        <5>1. eqs'[j] = new /\ i - 1 \in DOMAIN eqs /\ eqs'[i] = eqs[i - 1]
          BY <2>5, <3>2, <4>2
        <5>. QED BY <2>3, <3>1, <5>1
      <4>3. CASE i # 1 /\ j # 1
        <5>1. /\ i - 1 \in DOMAIN eqs /\ eqs'[i] = eqs[i - 1]
              /\ j - 1 \in DOMAIN eqs /\ eqs'[j] = eqs[j - 1]
          BY <2>5, <4>3
        <5>2. i - 1 # j - 1
          BY <2>4, <3>2
        <5>. QED BY <1>1, <5>1, <5>2 DEF Apart
      <4>. QED BY <4>1, <4>2, <4>3
    <3>. QED BY <3>2 DEF Apart
  <2>. QED BY <1>2, <1>4, <2>4, <2>6, <2>7 DEF IInv
<1>6. CASE n = 0 /\ k # 0
  <2>1. eqs' = [eqs EXCEPT ![k] = Push(x, @)]
    BY <1>2, <1>6 DEF Put, n, k
  <2>2. x \notin Vars => Free(eqs[k])
    BY <1>2, <1>6 DEF Check, n, k
  <2>3. k \in DOMAIN eqs /\ y \in Range(eqs[k]) /\ \A i \in DOMAIN eqs : x \notin Range(eqs[i])
    BY <1>3, <1>4, <1>6
  <2>. QED BY <1>2, <1>4, <2>1, <2>2, <2>3, PushIInv
<1>7. CASE n # 0 /\ k = 0
  <2>1. eqs' = [eqs EXCEPT ![n] = Push(y, @)]
    BY <1>2, <1>7 DEF Put, n, k
  <2>2. y \notin Vars => Free(eqs[n])
    BY <1>2, <1>7 DEF Check, n, k
  <2>3. n \in DOMAIN eqs /\ x \in Range(eqs[n]) /\ \A i \in DOMAIN eqs : y \notin Range(eqs[i])
    BY <1>3, <1>4, <1>7
  <2>. QED BY <1>2, <1>4, <2>1, <2>2, <2>3, PushIInv
<1>8. CASE n # 0 /\ k # 0
  <2>1. eqs' = eqs
    BY <1>2, <1>8 DEF Put, n, k
  <2>. QED BY <1>1, <1>2, <1>4, <2>1 DEF IInv
<1>. QED BY <1>5, <1>6, <1>7, <1>8

\* What a step does to the rows.
RowStep(R) == Clear \/ (\E x, y \in R : Apply(x, y)) \/ UNCHANGED vars

LEMMA StepIInv ==
    ASSUME NEW R, Null \notin R, IInv(R), RowStep(R)
    PROVE  IInv(R)'
<1>1. CASE Clear
  BY <1>1 DEF Clear, IInv, Apart
<1>2. CASE \E x, y \in R : Apply(x, y)
  BY <1>2, ApplyIInv
<1>3. CASE UNCHANGED vars
  BY <1>3 DEF vars, IInv
<1>. QED BY <1>1, <1>2, <1>3 DEF RowStep

LEMMA NextIInv == IInv(Resources) /\ [Next]_vars => IInv(Resources)'
<1>1. Null \notin Resources
  BY ResourcesApart DEF Resources
<1>2. [Next]_vars => RowStep(Resources)
  BY DEF Next, RowStep
<1>. QED BY <1>1, <1>2, StepIInv

\* A row with at most one nonvar, all linked, is what RowsSound asks for.
LEMMA IInvSound ==
    ASSUME NEW R, IInv(R)
    PROVE  RowsSound
<1>. SUFFICES ASSUME NEW n \in DOMAIN eqs
             PROVE  /\ Cardinality(Range(eqs[n]) \cap Nonvars) <= 1
                    /\ \A x, y \in Range(eqs[n]) \ {Null} : Connected(x, y)
  BY DEF RowsSound
<1>1. OneNonvar(eqs[n]) /\ AllLinked(asked, eqs[n])
  BY DEF IInv, Sound
<1>2. Cardinality(Range(eqs[n]) \cap Nonvars) <= 1
  <2>. DEFINE N == Range(eqs[n]) \cap Nonvars
  <2>1. CASE N = {}
    <3>1. Cardinality(N) = 0
      BY <2>1, FS_EmptySet
    <3>. QED BY <3>1
  <2>2. CASE N # {}
    <3>1. PICK v \in N : TRUE
      BY <2>2
    <3>2. N = {v}
      BY <1>1, <3>1 DEF OneNonvar
    <3>3. Cardinality(N) = 1
      BY <3>2, FS_Singleton
    <3>. QED BY <3>3
  <2>. QED BY <2>1, <2>2
<1>3. \A x, y \in Range(eqs[n]) \ {Null} : Connected(x, y)
  BY <1>1 DEF AllLinked, Elements, Linked, Connected
<1>. QED BY <1>2, <1>3

\* Whatever is equated in whatever order, no row of vm.h equates two constants,
\* and what shares a row was equated by a chain of accepted equations.
THEOREM RowsAreSound == Spec => []RowsSound
<1>1. Init => IInv(Resources)
  BY InitIInv
<1>2. IInv(Resources) => RowsSound
  BY IInvSound
<1>. QED BY <1>1, <1>2, NextIInv, PTL DEF Spec

---------------------------------------------------------------------------

\* What a step does to the rows there are.
RowsGrow ==
    eqs' # <<>> =>
        \A n \in DOMAIN eqs : \E k \in DOMAIN eqs' : Elements(eqs[n]) \subseteq Range(eqs'[k])

LEMMA ApplyGrows ==
    ASSUME NEW R, Null \notin R, IInv(R), NEW x \in R, NEW y \in R, Apply(x, y)
    PROVE  RowsGrow
<1>. DEFINE n == FindRow(x)
            k == FindRow(y)
<1>1. eqs \in Seq(Seq(R \cup {Null})) /\ \A i \in DOMAIN eqs : IsRow(R, eqs[i])
  BY DEF IInv, Sound
<1>2. eqs' = Put(x, y)
  BY DEF Apply
<1>3. (n = 0 \/ n \in DOMAIN eqs) /\ (k = 0 \/ k \in DOMAIN eqs) /\ 0 \notin DOMAIN eqs
  <2>1. n = 0 \/ n \in DOMAIN eqs
    BY <1>1, RowFound
  <2>2. k = 0 \/ k \in DOMAIN eqs
    BY <1>1, RowFound
  <2>. QED BY <1>1, <2>1, <2>2
<1>4. ASSUME \A i \in DOMAIN eqs : \E j \in DOMAIN eqs' : Range(eqs[i]) \subseteq Range(eqs'[j])
      PROVE  RowsGrow
  BY <1>4 DEF RowsGrow, Elements
<1>5. ASSUME NEW m \in DOMAIN eqs, NEW a \in R, eqs' = [eqs EXCEPT ![m] = Push(a, @)]
      PROVE  RowsGrow
  <2>1. Range(eqs[m]) \subseteq Range(Push(a, eqs[m]))
    BY <1>1, Pushed
  <2>2. DOMAIN eqs' = DOMAIN eqs
    BY <1>5
  <2>3. ASSUME NEW i \in DOMAIN eqs PROVE Range(eqs[i]) \subseteq Range(eqs'[i])
    <3>1. eqs'[i] = IF i = m THEN Push(a, eqs[m]) ELSE eqs[i]
      BY <1>1, <1>5
    <3>. QED BY <2>1, <3>1
  <2>. QED BY <1>4, <2>2, <2>3
<1>6. CASE n = 0 /\ k = 0
  <2>1. eqs' = <<NewRow(x, y)>> \o eqs
    BY <1>2, <1>6 DEF Put
  <2>2. ASSUME NEW i \in DOMAIN eqs PROVE i + 1 \in DOMAIN eqs' /\ eqs'[i + 1] = eqs[i]
    <3>1. {x, y} \in asked \cup {{x, y}} /\ {x, y} \cap Vars # {} /\ x # y
      BY DEF Apply
    <3>2. NewRow(x, y) \in Seq(R \cup {Null})
      BY <3>1, NewSound DEF Sound, IsRow
    <3>. QED BY <1>1, <2>1, <3>2
  <2>3. \A i \in DOMAIN eqs : i + 1 \in DOMAIN eqs' /\ Range(eqs[i]) \subseteq Range(eqs'[i + 1])
    BY <2>2
  <2>. QED BY <1>4, <2>3
<1>7. CASE n = 0 /\ k # 0
  <2>1. eqs' = [eqs EXCEPT ![k] = Push(x, @)]
    BY <1>2, <1>7 DEF Put
  <2>. QED BY <1>3, <1>5, <1>7, <2>1
<1>8. CASE n # 0 /\ k = 0
  <2>1. eqs' = [eqs EXCEPT ![n] = Push(y, @)]
    BY <1>2, <1>8 DEF Put
  <2>. QED BY <1>3, <1>5, <1>8, <2>1
<1>9. CASE n # 0 /\ k # 0
  <2>1. eqs' = eqs
    BY <1>2, <1>9 DEF Put
  <2>. QED BY <1>4, <2>1
<1>. QED BY <1>6, <1>7, <1>8, <1>9

LEMMA StepGrows ==
    ASSUME NEW R, Null \notin R, IInv(R), RowStep(R)
    PROVE  [RowsGrow]_eqs
<1>1. CASE Clear
  BY <1>1 DEF Clear, RowsGrow
<1>2. CASE \E x, y \in R : Apply(x, y)
  BY <1>2, ApplyGrows
<1>3. CASE UNCHANGED vars
  BY <1>3 DEF vars
<1>. QED BY <1>1, <1>2, <1>3 DEF RowStep

LEMMA NextGrows == IInv(Resources) /\ [Next]_vars => [RowsGrow]_eqs
<1>1. Null \notin Resources
  BY ResourcesApart DEF Resources
<1>2. [Next]_vars => RowStep(Resources)
  BY DEF Next, RowStep
<1>. QED BY <1>1, <1>2, StepGrows

\* Rule 4 of vm.h: until they are cleared, resources that share a row go on
\* sharing one, whatever is equated afterwards.
THEOREM RowsNeverMoved == Spec => NeverMoved
<1>1. [RowsGrow]_eqs <=> [eqs' # <<>> =>
                             \A n \in DOMAIN eqs : \E k \in DOMAIN eqs' :
                                 Range(eqs[n]) \ {Null} \subseteq Range(eqs'[k])]_eqs
  BY DEF RowsGrow, Elements
<1>2. Init => IInv(Resources)
  BY InitIInv
<1>. QED BY <1>1, <1>2, NextIInv, NextGrows, PTL DEF Spec, NeverMoved

---------------------------------------------------------------------------
(* The texts of triples.h.                                                 *)

\* The first letters in a set are found, however many.
LEMMA SpanIs ==
    ASSUME NEW L, NEW letters \in Seq(L), NEW S
    PROVE  /\ Span(letters, S) \in 0..Len(letters)
           /\ \A k \in 1..Span(letters, S) : letters[k] \in S
           /\ Span(letters, S) < Len(letters) => letters[Span(letters, S) + 1] \notin S
<1>. DEFINE P(n) == /\ \A k \in 1..n : letters[k] \in S
                    /\ n < Len(letters) => letters[n + 1] \notin S
            others == {k \in 1..Len(letters) : letters[k] \notin S}
<1>1. \E n \in 0..Len(letters) : P(n)
  <2>1. CASE others = {}
    <3>1. P(Len(letters)) /\ Len(letters) \in 0..Len(letters)
      BY <2>1
    <3>. QED BY <3>1
  <2>2. CASE others # {}
    <3>1. others \in SUBSET Nat
      OBVIOUS
    <3>2. PICK m \in others : \A k \in others : m <= k
      BY <2>2, <3>1, LeastOne
    <3>3. m \in 1..Len(letters) /\ \A k \in 1..(m - 1) : letters[k] \in S
      BY <3>2
    <3>4. P(m - 1) /\ m - 1 \in 0..Len(letters)
      BY <3>2, <3>3
    <3>. QED BY <3>4
  <2>. QED BY <2>1, <2>2
<1>2. Span(letters, S) = CHOOSE n \in 0..Len(letters) : P(n)
  BY DEF Span
<1>3. Span(letters, S) \in 0..Len(letters) /\ P(Span(letters, S))
  <2>. HIDE DEF P
  <2>. QED BY <1>1, <1>2
<1>. QED BY <1>3

LEMMA DropIs ==
    ASSUME NEW L, NEW letters \in Seq(L), NEW n \in Nat
    PROVE  /\ Drop(letters, n) \in Seq(L)
           /\ Drop(letters, n) # <<>> => n < Len(letters) /\ Head(Drop(letters, n)) = letters[n + 1]
<1>1. \A i \in (n + 1)..Len(letters) : letters[i] \in L
  OBVIOUS
<1>2. /\ Drop(letters, n) \in Seq(L)
      /\ Len(Drop(letters, n)) = IF n + 1 <= Len(letters) THEN Len(letters) - (n + 1) + 1 ELSE 0
      /\ \A i \in 1..(Len(letters) - (n + 1) + 1) : Drop(letters, n)[i] = letters[(n + 1) + i - 1]
  <2>1. n + 1 \in Int /\ Len(letters) \in Int
    OBVIOUS
  <2>. QED BY <1>1, <2>1, SubSeqProperties DEF Drop
<1>3. ASSUME Drop(letters, n) # <<>>
      PROVE  n < Len(letters) /\ Head(Drop(letters, n)) = letters[n + 1]
  <2>1. Len(Drop(letters, n)) # 0
    BY <1>2, <1>3
  <2>2. n < Len(letters)
    BY <1>2, <2>1
  <2>3. Drop(letters, n)[1] = letters[n + 1]
    BY <1>2, <2>2
  <2>. QED BY <1>2, <1>3, <2>2, <2>3
<1>. QED BY <1>2, <1>3

\* What is left when the spaces are skipped begins with another letter.
LEMMA SkipIs ==
    ASSUME NEW L, NEW letters \in Seq(L)
    PROVE  /\ Skip(letters) \in Seq(L)
           /\ Skip(letters) # <<>> => Head(Skip(letters)) \notin Space
<1>. DEFINE n == Span(letters, Space)
<1>1. n \in 0..Len(letters) /\ (n < Len(letters) => letters[n + 1] \notin Space)
  BY SpanIs
<1>. HIDE DEF n
<1>2. n \in Nat
  BY <1>1
<1>3. /\ Drop(letters, n) \in Seq(L)
      /\ Drop(letters, n) # <<>> => n < Len(letters) /\ Head(Drop(letters, n)) = letters[n + 1]
  BY <1>2, DropIs
<1>. QED BY <1>1, <1>3 DEF Skip, n

LEMMA GetIs ==
    ASSUME NEW L, NEW letters \in Seq(L)
    PROVE  Get(letters) \in Seq(L)
BY DropIs DEF Get

LEMMA AfterDotIs ==
    ASSUME NEW L, NEW letters \in Seq(L)
    PROVE  AfterDot(letters) \in Seq(L)
<1>1. Skip(letters) \in Seq(L)
  BY SkipIs
<1>2. Get(Skip(letters)) \in Seq(L)
  BY <1>1, GetIs
<1>3. Skip(Get(Skip(letters))) \in Seq(L)
  BY <1>2, SkipIs
<1>. QED BY <1>1, <1>3 DEF AfterDot

\* A word that begins with neither a space nor a mark is not empty and begins
\* with its first letter.
LEMMA TillIs ==
    ASSUME NEW letters \in Seq(Letters), letters # <<>>, Head(letters) \notin Space \cup Delims
    PROVE  /\ Till(letters) \in Seq(Letters) \ {<<>>}
           /\ Head(Till(letters)) = Head(letters)
           /\ Span(letters, Letters \ (Space \cup Delims)) \in Nat
<1>. DEFINE n == Span(letters, Letters \ (Space \cup Delims))
            word == SubSeq(letters, 1, n)
<1>1. /\ n \in 0..Len(letters)
      /\ n < Len(letters) => letters[n + 1] \notin Letters \ (Space \cup Delims)
  BY SpanIs
<1>2. Head(letters) = letters[1] /\ letters[1] \in Letters /\ Len(letters) \in Nat /\ Len(letters) > 0
  BY EmptySeq
<1>. HIDE DEF n
<1>3. n \in 1..Len(letters)
  <2>1. n # 0
    BY <1>1, <1>2
  <2>. QED BY <1>1, <2>1
<1>4. word \in Seq(Letters) /\ Len(word) = n /\ word[1] = letters[1]
  <2>1. \A i \in 1..n : letters[i] \in Letters
    BY <1>3
  <2>2. /\ word \in Seq(Letters)
        /\ Len(word) = IF 1 <= n THEN n - 1 + 1 ELSE 0
        /\ \A i \in 1..(n - 1 + 1) : word[i] = letters[1 + i - 1]
    <3>1. 1 \in Int /\ n \in Int
      BY <1>3
    <3>. QED BY <2>1, <3>1, SubSeqProperties
  <2>. QED BY <1>3, <2>2
<1>. HIDE DEF word
<1>5. word # <<>> /\ Head(word) = Head(letters) /\ Last(word) \in Letters
  BY <1>2, <1>3, <1>4 DEF Last
<1>6. /\ Append(word, Last(word)) \in Seq(Letters)
      /\ Append(word, Last(word)) # <<>>
      /\ Head(Append(word, Last(word))) = Head(word)
  BY <1>4, <1>5, AppendProperties, HeadTailAppend
<1>7. Till(letters) = word \/ Till(letters) = Append(word, Last(word))
  BY DEF Till, n, word
<1>8. Till(letters) \in Seq(Letters) \ {<<>>} /\ Head(Till(letters)) = Head(letters)
  BY <1>4, <1>5, <1>6, <1>7
<1>9. n \in Nat
  BY <1>3
<1>. QED BY <1>8, <1>9 DEF n

---------------------------------------------------------------------------
(* What is kept once.                                                      *)

Unique(table) == \A n, k \in DOMAIN table : table[n] = table[k] => n = k

LEMMA FindIs ==
    ASSUME NEW T, NEW table \in Seq(T), NEW key
    PROVE  \/ Find(table, key) = 0 /\ \A n \in DOMAIN table : table[n] # key
           \/ Find(table, key) \in DOMAIN table /\ table[Find(table, key)] = key
<1>. DEFINE I == {n \in 1..Len(table) : table[n] = key}
<1>1. Find(table, key) = IF I # {} THEN Min(I) ELSE 0
  BY DEF Find, SelectInSeq
<1>2. DOMAIN table = 1..Len(table)
  OBVIOUS
<1>3. CASE I = {}
  BY <1>1, <1>2, <1>3
<1>4. CASE I # {}
  <2>1. I \in SUBSET Nat
    OBVIOUS
  <2>2. Min(I) \in I
    BY <1>4, <2>1, LeastOne
  <2>. QED BY <1>1, <1>2, <1>4, <2>2
<1>. QED BY <1>3, <1>4

\* A table with a key: it is found where it was, or is put at the end.
With(T, table, key, new, n) ==
    /\ new \in Seq(T) /\ Unique(new)
    /\ DOMAIN table \subseteq DOMAIN new
    /\ \A i \in DOMAIN table : new[i] = table[i]
    /\ \A i \in DOMAIN new \ DOMAIN table : i = Len(table) + 1 /\ new[i] = key
    /\ n \in DOMAIN new /\ new[n] = key

LEMMA SetIs ==
    ASSUME NEW T, NEW table \in Seq(T), NEW key \in T, Unique(table)
    PROVE  With(T, table, key, Set(table, key), Find(Set(table, key), key))
<1>. DEFINE new == Set(table, key)
<1>1. DOMAIN table = 1..Len(table) /\ Len(table) \in Nat /\ 0 \notin DOMAIN table
  OBVIOUS
<1>2. CASE Find(table, key) = 0
  <2>1. \A n \in DOMAIN table : table[n] # key
    BY <1>1, <1>2, FindIs
  <2>2. new = Append(table, key)
    BY <1>2 DEF Set
  <2>3. /\ new \in Seq(T) /\ Len(new) = Len(table) + 1
        /\ \A i \in 1..Len(table) : new[i] = table[i]
        /\ new[Len(table) + 1] = key
    BY <2>2, AppendProperties
  <2>. HIDE DEF new
  <2>4. DOMAIN new = 1..(Len(table) + 1)
    BY <2>3
  <2>5. Unique(new)
    <3>1. ASSUME NEW n \in DOMAIN new, NEW k \in DOMAIN new, new[n] = new[k]
          PROVE  n = k
      <4>1. CASE n \in DOMAIN table /\ k \in DOMAIN table
        BY <1>1, <2>3, <3>1, <4>1 DEF Unique
      <4>2. CASE n \notin DOMAIN table /\ k \notin DOMAIN table
        BY <1>1, <2>4, <4>2
      <4>3. CASE n \in DOMAIN table /\ k \notin DOMAIN table
        <5>1. k = Len(table) + 1
          BY <1>1, <2>4, <4>3
        <5>. QED BY <1>1, <2>1, <2>3, <3>1, <4>3, <5>1
      <4>4. CASE n \notin DOMAIN table /\ k \in DOMAIN table
        <5>1. n = Len(table) + 1
          BY <1>1, <2>4, <4>4
        <5>. QED BY <1>1, <2>1, <2>3, <3>1, <4>4, <5>1
      <4>. QED BY <4>1, <4>2, <4>3, <4>4
    <3>. QED BY <3>1 DEF Unique
  <2>6. Find(new, key) \in DOMAIN new /\ new[Find(new, key)] = key
    <3>1. Len(table) + 1 \in DOMAIN new
      BY <1>1, <2>4
    <3>. QED BY <2>3, <3>1, FindIs
  <2>7. \A n \in DOMAIN new \ DOMAIN table : n = Len(table) + 1 /\ new[n] = key
    BY <1>1, <2>3, <2>4
  <2>. QED BY <1>1, <2>3, <2>4, <2>5, <2>6, <2>7 DEF new, With
<1>3. CASE Find(table, key) # 0
  <2>1. Find(table, key) \in DOMAIN table /\ table[Find(table, key)] = key
    BY <1>3, FindIs
  <2>2. new = table
    BY <1>3 DEF Set
  <2>. QED BY <2>1, <2>2 DEF With
<1>. QED BY <1>2, <1>3

---------------------------------------------------------------------------
(* What is read.                                                           *)

Words == {w \in Seq(Letters) : w # <<>> /\ Head(w) # "."}
Threes == {p \in Seq(Made) : Len(p) = 3}

\* The resources that may be in the list n: names, and lists made before.
Before(n) == {x \in Made : x[1] = "." => x[2] < n}

\* A name is made again only when its place was lost.
NamesApart == \A n, k \in DOMAIN names : n < k /\ names[n] = names[k] => Lost(n)

\* The inductive invariant: what is kept is kept once, a name that was lost
\* aside, a list was made after what is in it, and all that is read and put in
\* rows was made.
ReadInv ==
    /\ file \in Files
    /\ rest \in Seq(Letters)
    /\ names \in Seq(Words) /\ NamesApart
    /\ lists \in Seq(Seq(Made)) /\ Unique(lists)
    /\ \A n \in DOMAIN lists : lists[n] \in Seq(Before(n))
    /\ parts \in Seq(Made) /\ items \in Seq(Seq(Made))
    /\ triples \in Seq(Threes) /\ Unique(triples)
    /\ IInv(Made)

LEMMA SeqMore ==
    ASSUME NEW A, NEW B, A \subseteq B, NEW s \in Seq(A)
    PROVE  s \in Seq(B)
OBVIOUS

\* An address says what it is the address of.
LEMMA MadeIs ==
    ASSUME names \in Seq(Words), NEW x \in Made
    PROVE  \/ x[1] = "." /\ x[2] \in DOMAIN lists /\ x = <<".", x[2]>>
           \/ x[1] # "." /\ x[2] \in DOMAIN names /\ x = <<Head(names[x[2]]), x[2]>>
<1>1. CASE \E n \in DOMAIN names : x = <<Head(names[n]), n>>
  <2>1. PICK n \in DOMAIN names : x = <<Head(names[n]), n>>
    BY <1>1
  <2>2. names[n] \in Words
    OBVIOUS
  <2>. QED BY <2>1, <2>2 DEF Words
<1>2. CASE \E n \in DOMAIN lists : x = <<".", n>>
  BY <1>2
<1>. QED BY <1>1, <1>2 DEF Made

LEMMA NullNotMade ==
    ASSUME ReadInv
    PROVE  Null \notin Made
<1>1. Null \notin (Letters \cup {"."}) \X Nat
  BY FilesAssumption DEF ReadInv, Letters
<1>2. ASSUME NEW x \in Made
      PROVE  x \in (Letters \cup {"."}) \X Nat
  <2>1. DOMAIN lists \subseteq Nat /\ DOMAIN names \subseteq Nat
    BY DEF ReadInv
  <2>2. CASE x[1] = "."
    <3>1. x[2] \in DOMAIN lists /\ x = <<".", x[2]>>
      BY <2>2, MadeIs DEF ReadInv
    <3>. QED BY <2>1, <3>1
  <2>3. CASE x[1] # "."
    <3>1. x[2] \in DOMAIN names /\ x = <<Head(names[x[2]]), x[2]>>
      BY <2>3, MadeIs DEF ReadInv
    <3>2. names[x[2]] \in Words
      BY <3>1 DEF ReadInv
    <3>3. Head(names[x[2]]) \in Letters
      BY <3>2, HeadTailProperties DEF Words
    <3>. QED BY <2>1, <3>1, <3>3
  <2>. QED BY <2>2, <2>3
<1>. QED BY <1>1, <1>2

\* Rows of some resources are rows of more.
LEMMA IInvMore ==
    ASSUME NEW R, NEW Q, R \subseteq Q, IInv(R)
    PROVE  IInv(Q)
<1>1. /\ asked \in SUBSET (SUBSET R) /\ Apart(eqs)
      /\ eqs \in Seq(Seq(R \cup {Null})) /\ \A n \in DOMAIN eqs : Sound(R, asked, eqs[n])
  BY DEF IInv
<1>2. Seq(R \cup {Null}) \subseteq Seq(Q \cup {Null})
  BY SeqMore
<1>3. eqs \in Seq(Seq(Q \cup {Null}))
  BY <1>1, <1>2, SeqMore
<1>4. \A n \in DOMAIN eqs : Sound(Q, asked, eqs[n])
  BY <1>1, <1>2 DEF Sound, IsRow
<1>. QED BY <1>1, <1>3, <1>4 DEF IInv

\* What a step that reads has to keep.
LEMMA ReadGrows ==
    ASSUME ReadInv, UNCHANGED <<file, vars>>, Made \subseteq Made', rest' \in Seq(Letters),
           names' \in Seq(Words), NamesApart',
           lists' \in Seq(Seq(Made')), Unique(lists'),
           \A n \in DOMAIN lists' : lists'[n] \in Seq(Before(n)'),
           parts' \in Seq(Made'), items' \in Seq(Seq(Made')),
           triples' \in Seq(Threes'), Unique(triples')
    PROVE  ReadInv'
<1>1. file' \in Files /\ Letters' = Letters /\ Words' = Words
  BY DEF ReadInv, Letters, Words
<1>2. IInv(Made)'
  <2>1. eqs' = eqs /\ asked' = asked
    BY DEF vars
  <2>2. IInv(Made')
    BY IInvMore DEF ReadInv
  <2>. QED BY <2>1, <2>2 DEF IInv
<1>3. Unique(lists)' /\ Unique(triples)'
  BY DEF Unique
<1>. QED BY <1>1, <1>2, <1>3 DEF ReadInv

\* A step that makes no resource.
LEMMA SameMade ==
    ASSUME ReadInv, UNCHANGED <<file, names, lists, vars>>, rest' \in Seq(Letters),
           parts' \in Seq(Made), items' \in Seq(Seq(Made)),
           triples' \in Seq(Threes), Unique(triples')
    PROVE  ReadInv'
<1>1. Made' = Made
  BY DEF Made
<1>2. Threes' = Threes /\ \A n \in DOMAIN lists' : Before(n)' = Before(n)
  BY <1>1 DEF Threes, Before
<1>3. /\ names' \in Seq(Words) /\ lists' \in Seq(Seq(Made')) /\ Unique(lists')
      /\ \A n \in DOMAIN lists' : lists'[n] \in Seq(Before(n)')
  BY <1>1, <1>2 DEF ReadInv
<1>4. NamesApart'
  BY DEF ReadInv, NamesApart, Lost
<1>. QED BY <1>1, <1>2, <1>3, <1>4, ReadGrows

\* Resources given to the triple or to the list.
LEMMA GiveIs ==
    ASSUME NEW S, NEW x \in S, parts \in Seq(S), NEW calls \in Seq(Seq(S)), Give(x, calls)
    PROVE  parts' \in Seq(S) /\ items' \in Seq(Seq(S))
<1>1. CASE calls = <<>>
  <2>1. parts' = Append(parts, x) /\ items' = calls
    BY <1>1 DEF Give
  <2>. QED BY <2>1
<1>2. CASE calls # <<>>
  <2>1. items' = Append(Front(calls), Append(Last(calls), x)) /\ parts' = parts
    BY <1>2 DEF Give
  <2>2. Len(calls) \in Nat \ {0} /\ Last(calls) \in Seq(S)
    BY <1>2, EmptySeq DEF Last
  <2>3. Front(calls) \in Seq(Seq(S))
    <3>1. \A i \in 1..(Len(calls) - 1) : calls[i] \in Seq(S)
      BY <2>2
    <3>2. 1 \in Int /\ Len(calls) - 1 \in Int
      BY <2>2
    <3>. QED BY <3>1, <3>2, SubSeqProperties DEF Front
  <2>4. Append(Last(calls), x) \in Seq(S)
    BY <2>2
  <2>. QED BY <2>1, <2>3, <2>4
<1>. QED BY <1>1, <1>2

\* What was kept is kept with more resources.
LEMMA KeptMore ==
    ASSUME ReadInv, Made \subseteq Made'
    PROVE  /\ lists \in Seq(Seq(Made')) /\ triples \in Seq(Threes')
           /\ \A k \in DOMAIN lists : lists[k] \in Seq(Before(k)')
<1>1. Seq(Made) \subseteq Seq(Made')
  BY SeqMore
<1>2. Threes \subseteq Threes'
  BY <1>1 DEF Threes
<1>3. \A k \in DOMAIN lists : Before(k) \subseteq Before(k)'
  BY DEF Before
<1>4. \A k \in DOMAIN lists : lists[k] \in Seq(Before(k)')
  BY <1>3, SeqMore DEF ReadInv
<1>. QED BY <1>1, <1>2, <1>4, SeqMore DEF ReadInv

\* mkres finds the name at a place that has it, or puts it at the end.
LEMMA PlaceIs ==
    ASSUME names \in Seq(Words), NamesApart, NEW w \in Words, NEW n \in Places(w),
           names' = IF n \in DOMAIN names THEN names ELSE Append(names, w)
    PROVE  /\ names' \in Seq(Words) /\ NamesApart'
           /\ DOMAIN names \subseteq DOMAIN names' /\ \A k \in DOMAIN names : names'[k] = names[k]
           /\ n \in DOMAIN names' /\ names'[n] = w
<1>1. DOMAIN names = 1..Len(names) /\ Len(names) \in Nat
  OBVIOUS
<1>2. /\ n \in 1..(Len(names) + 1) /\ (n \in DOMAIN names => names[n] = w)
      /\ \A k \in 1..(n - 1) : names[k] = w => Lost(k)
  BY DEF Places
<1>3. CASE n \in DOMAIN names
  <2>1. names' = names
    BY <1>3
  <2>. QED BY <1>2, <1>3, <2>1 DEF NamesApart, Lost
<1>4. CASE n \notin DOMAIN names
  <2>1. n = Len(names) + 1
    BY <1>1, <1>2, <1>4
  <2>2. /\ names' \in Seq(Words) /\ Len(names') = Len(names) + 1
        /\ \A k \in 1..Len(names) : names'[k] = names[k]
        /\ names'[Len(names) + 1] = w
    BY <1>4, AppendProperties
  <2>3. DOMAIN names' = 1..(Len(names) + 1)
    BY <2>2
  <2>4. ASSUME NEW k \in DOMAIN names, Lost(k) PROVE Lost(k)'
    <3>1. Len(names[k]) <= Inline /\ names'[k] = names[k]
      BY <1>1, <2>2, <2>4 DEF Lost
    <3>2. PICK m \in k..(Len(names) - 1) : m % Chunk = 0
      BY <2>4 DEF Lost
    <3>3. m \in k..(Len(names') - 1)
      BY <1>1, <2>2, <3>2
    <3>. QED BY <3>1, <3>2, <3>3 DEF Lost
  <2>5. ASSUME NEW i \in DOMAIN names', NEW k \in DOMAIN names', i < k, names'[i] = names'[k]
        PROVE  Lost(i)'
    <3>1. i \in DOMAIN names /\ names'[i] = names[i]
      BY <1>1, <2>2, <2>3, <2>5
    <3>2. CASE k \in DOMAIN names
      <4>1. names[i] = names[k]
        BY <1>1, <2>2, <2>5, <3>1, <3>2
      <4>. QED BY <2>4, <2>5, <3>1, <3>2, <4>1 DEF NamesApart
    <3>3. CASE k \notin DOMAIN names
      <4>1. k = n /\ names'[k] = w
        BY <1>1, <2>1, <2>2, <2>3, <3>3
      <4>2. names[i] = w /\ i \in 1..(n - 1)
        BY <1>1, <2>1, <2>5, <3>1, <4>1
      <4>. QED BY <1>2, <2>4, <3>1, <4>2
    <3>. QED BY <3>2, <3>3
  <2>6. NamesApart'
    BY <2>5 DEF NamesApart
  <2>. QED BY <1>1, <2>1, <2>2, <2>3, <2>6
<1>. QED BY <1>3, <1>4

LEMMA WordStep ==
    ASSUME ReadInv, Word
    PROVE  ReadInv'
<1>. DEFINE letters == Skip(rest)
            w == Till(letters)
            n == Span(letters, Letters \ (Space \cup Delims))
<1>1. letters \in Seq(Letters) /\ letters # <<>> /\ Head(letters) \notin Space \cup Delims
  <2>1. letters # <<>> /\ Head(letters) \notin Delims
    BY DEF Word, Wants, Good, Peek
  <2>. QED BY <2>1, SkipIs DEF ReadInv
<1>2. w \in Words /\ n \in Nat
  <2>1. "." \in Delims
    BY DEF Delims
  <2>. HIDE DEF letters
  <2>. QED BY <1>1, <2>1, TillIs DEF Words
<1>3. PICK p \in Places(w) :
        /\ rest' = Drop(letters, n)
        /\ names' = IF p \in DOMAIN names THEN names ELSE Append(names, w)
        /\ Give(<<Head(w), p>>, items)
        /\ UNCHANGED <<file, lists, triples, vars>>
  <2>1. PICK made \in Name(w) : names' = made.table /\ Give(made.at, items)
    BY DEF Word
  <2>2. PICK p \in Places(w) :
          made = [table |-> IF p \in DOMAIN names THEN names ELSE Append(names, w),
                  at |-> <<Head(w), p>>]
    BY DEF Name
  <2>. QED BY <2>1, <2>2 DEF Word
<1>. HIDE DEF letters, w, n
<1>4. rest' \in Seq(Letters)
  BY <1>1, <1>2, <1>3, DropIs
<1>5. /\ names' \in Seq(Words) /\ NamesApart'
      /\ DOMAIN names \subseteq DOMAIN names' /\ \A k \in DOMAIN names : names'[k] = names[k]
      /\ p \in DOMAIN names' /\ names'[p] = w
  BY <1>2, <1>3, PlaceIs DEF ReadInv
<1>6. Made \subseteq Made'
  BY <1>3, <1>5 DEF Made
<1>7. <<Head(w), p>> \in Made'
  BY <1>5 DEF Made
<1>8. parts' \in Seq(Made') /\ items' \in Seq(Seq(Made'))
  <2>1. Seq(Made) \subseteq Seq(Made')
    BY <1>6, SeqMore
  <2>2. parts \in Seq(Made') /\ items \in Seq(Seq(Made'))
    BY <1>6, <2>1, SeqMore DEF ReadInv
  <2>. QED BY <1>3, <1>7, <2>2, GiveIs
<1>9. lists' \in Seq(Seq(Made')) /\ triples' \in Seq(Threes')
  BY <1>3, <1>6, KeptMore
<1>10. /\ Unique(lists') /\ Unique(triples')
       /\ \A k \in DOMAIN lists' : lists'[k] \in Seq(Before(k)')
  BY <1>3, <1>6, KeptMore DEF ReadInv
<1>. QED BY <1>3, <1>4, <1>5, <1>6, <1>8, <1>9, <1>10, ReadGrows

LEMMA CloseListStep ==
    ASSUME ReadInv, CloseList
    PROVE  ReadInv'
<1>. DEFINE xs == Last(items)
            n == Find(Set(lists, xs), xs)
<1>1. /\ rest' = Skip(Get(Skip(rest)))
      /\ lists' = Set(lists, xs)
      /\ Give(<<".", n>>, Front(items))
      /\ UNCHANGED <<file, names, triples, vars>> /\ items # <<>>
  BY DEF CloseList, List
<1>2. xs \in Seq(Made) /\ Front(items) \in Seq(Seq(Made))
  <2>1. items \in Seq(Seq(Made)) /\ Len(items) \in Nat \ {0}
    BY <1>1, EmptySeq DEF ReadInv
  <2>2. \A i \in 1..(Len(items) - 1) : items[i] \in Seq(Made)
    BY <2>1
  <2>3. 1 \in Int /\ Len(items) - 1 \in Int
    BY <2>1
  <2>4. Front(items) \in Seq(Seq(Made))
    BY <2>2, <2>3, SubSeqProperties DEF Front
  <2>. QED BY <2>1, <2>4 DEF Last
<1>3. rest' \in Seq(Letters)
  <2>1. Skip(rest) \in Seq(Letters)
    BY SkipIs DEF ReadInv
  <2>2. Get(Skip(rest)) \in Seq(Letters)
    BY <2>1, GetIs
  <2>. QED BY <1>1, <2>2, SkipIs
<1>. HIDE DEF xs, n
<1>4. /\ lists' \in Seq(Seq(Made)) /\ Unique(lists')
      /\ DOMAIN lists \subseteq DOMAIN lists' /\ \A k \in DOMAIN lists : lists'[k] = lists[k]
      /\ \A k \in DOMAIN lists' \ DOMAIN lists : k = Len(lists) + 1 /\ lists'[k] = xs
      /\ n \in DOMAIN lists'
  <2>1. lists \in Seq(Seq(Made)) /\ Unique(lists)
    BY DEF ReadInv
  <2>2. lists' = Set(lists, xs)
    BY <1>1
  <2>3. With(Seq(Made), lists, xs, Set(lists, xs), Find(Set(lists, xs), xs))
    BY <1>2, <2>1, SetIs
  <2>. QED BY <2>2, <2>3 DEF With, n
<1>5. Made \subseteq Made'
  BY <1>1, <1>4 DEF Made
<1>6. <<".", n>> \in Made'
  BY <1>4 DEF Made
<1>7. Seq(Made) \subseteq Seq(Made')
  BY <1>5, SeqMore
<1>8. parts' \in Seq(Made') /\ items' \in Seq(Seq(Made'))
  <2>1. parts \in Seq(Made') /\ Front(items) \in Seq(Seq(Made'))
    BY <1>2, <1>5, <1>7, SeqMore DEF ReadInv
  <2>. QED BY <1>1, <1>6, <2>1, GiveIs
<1>9. ASSUME NEW k \in DOMAIN lists'
      PROVE  lists'[k] \in Seq(Before(k)')
  <2>1. CASE k \in DOMAIN lists
    <3>1. lists'[k] \in Seq(Before(k))
      BY <1>4, <2>1 DEF ReadInv
    <3>2. Before(k) \subseteq Before(k)'
      BY <1>5 DEF Before
    <3>. QED BY <3>1, <3>2, SeqMore
  <2>2. CASE k \notin DOMAIN lists
    <3>1. k = Len(lists) + 1 /\ lists'[k] = xs
      BY <1>4, <2>2
    <3>2. ASSUME NEW x \in Made PROVE x \in Before(k)'
      <4>1. x[1] = "." => x[2] \in DOMAIN lists
        BY MadeIs DEF ReadInv
      <4>2. DOMAIN lists = 1..Len(lists) /\ Len(lists) \in Nat
        BY DEF ReadInv
      <4>3. x[1] = "." => x[2] < k
        BY <3>1, <4>1, <4>2
      <4>. QED BY <1>5, <4>3 DEF Before
    <3>3. Made \subseteq Before(k)'
      BY <3>2
    <3>. QED BY <1>2, <3>1, <3>3, SeqMore
  <2>. QED BY <2>1, <2>2
<1>10. names' \in Seq(Words) /\ NamesApart'
  BY <1>1 DEF ReadInv, NamesApart, Lost
<1>11. triples' \in Seq(Threes') /\ Unique(triples')
  BY <1>1, <1>5, KeptMore DEF ReadInv
<1>12. lists' \in Seq(Seq(Made'))
  BY <1>4, <1>7, SeqMore
<1>. QED BY <1>1, <1>3, <1>4, <1>5, <1>8, <1>9, <1>10, <1>11, <1>12, ReadGrows

\* What becomes of a triple leaves text.
LEMMA TookRest ==
    ASSUME ReadInv, NEW t, NEW more \in Seq(Letters), Took(t, more),
           at \in {"statement", "body", "heads"}
    PROVE  rest' \in Seq(Letters)
<1>1. AfterDot(more) \in Seq(Letters)
  BY AfterDotIs
<1>2. CASE at = "statement" BY <1>1, <1>2 DEF Took
<1>3. CASE at = "body" BY <1>3 DEF Took
<1>4. CASE at = "heads" BY <1>4 DEF Took
<1>. QED BY <1>2, <1>3, <1>4

\* Nothing is left of what is being read when the text is, and a name that is
\* none throws before a triple is whole.
AtInv ==
    /\ at \in {"statement", "body", "heads", "done", "threw"}
    /\ at = "done" => parts = <<>> /\ items = <<>>
    /\ at = "threw" => Len(parts) < 3

LEMMA AtStep ==
    ASSUME AtInv, Read
    PROVE  AtInv'
<1>. DEFINE Going == {"statement", "body", "heads"}
<1>1. Len(<<>>) = 0
  OBVIOUS
<1>2. ASSUME at' \in Going PROVE AtInv'
  BY <1>2 DEF AtInv
<1>3. ASSUME at' \in Going \cup {"done"}, parts' = <<>>, items' = <<>> PROVE AtInv'
  BY <1>3 DEF AtInv
<1>4. ASSUME NEW t, NEW more, Took(t, more), at \in Going PROVE at' \in Going \cup {"done"}
  <2>1. CASE at = "statement" BY <1>4, <2>1 DEF Took
  <2>2. CASE at = "body" BY <1>4, <2>2 DEF Took
  <2>3. CASE at = "heads" BY <1>4, <2>3 DEF Took
  <2>. QED BY <1>4, <2>1, <2>2, <2>3
<1>5. CASE Word BY <1>2, <1>5 DEF Word, Wants
<1>6. CASE OpenList BY <1>2, <1>6 DEF OpenList, Wants
<1>7. CASE CloseList BY <1>2, <1>7 DEF CloseList, AtInv
<1>8. CASE NoWord BY <1>8 DEF NoWord, Wants, AtInv
<1>9. CASE ReadTriple
  <2>1. at \in Going
    BY <1>1, <1>9 DEF ReadTriple, AtInv
  <2>. QED BY <1>3, <1>4, <1>9, <2>1 DEF ReadTriple
<1>10. CASE CutTriple BY <1>3, <1>4, <1>10 DEF CutTriple
<1>11. CASE OpenBody BY <1>2, <1>11 DEF OpenBody
<1>12. CASE CloseBody BY <1>2, <1>12 DEF CloseBody
<1>13. CASE CloseHeads BY <1>3, <1>13 DEF CloseHeads, Between
<1>. QED BY <1>5, <1>6, <1>7, <1>8, <1>9, <1>10, <1>11, <1>12, <1>13 DEF Read

LEMMA ReadStep ==
    ASSUME ReadInv, AtInv, Read
    PROVE  ReadInv'
<1>1. /\ rest \in Seq(Letters) /\ parts \in Seq(Made) /\ items \in Seq(Seq(Made))
      /\ triples \in Seq(Threes) /\ Unique(triples)
  BY DEF ReadInv
<1>2. /\ Skip(rest) \in Seq(Letters) /\ Get(Skip(rest)) \in Seq(Letters)
      /\ Get(rest) \in Seq(Letters) /\ AfterDot(Get(rest)) \in Seq(Letters)
  BY <1>1, SkipIs, GetIs, AfterDotIs
<1>3. CASE Word BY <1>3, WordStep
<1>4. CASE CloseList BY <1>4, CloseListStep
<1>5. CASE OpenList
  <2>1. items' \in Seq(Seq(Made))
    BY <1>1, <1>5, EmptySeq DEF OpenList
  <2>. QED BY <1>1, <1>2, <1>5, <2>1, SameMade DEF OpenList, tables
<1>6. CASE NoWord
  BY <1>1, <1>6, SameMade DEF NoWord, tables
<1>7. CASE ReadTriple
  <2>1. parts \in Threes
    BY <1>1, <1>7 DEF ReadTriple, Threes
  <2>2. triples' = Set(triples, parts)
    BY <1>7 DEF ReadTriple, Triple
  <2>3. triples' \in Seq(Threes) /\ Unique(triples')
    BY <1>1, <2>1, <2>2, SetIs DEF With
  <2>4. rest' \in Seq(Letters)
    <3>1. AfterDot(rest) \in Seq(Letters)
      BY <1>1, AfterDotIs
    <3>2. at \in {"statement", "body", "heads"}
      <4>1. Len(<<>>) = 0
        OBVIOUS
      <4>. QED BY <1>7, <4>1 DEF ReadTriple, AtInv
    <3>. QED BY <1>7, <3>1, <3>2, TookRest DEF ReadTriple
  <2>5. parts' \in Seq(Made)
    BY <1>7, EmptySeq DEF ReadTriple
  <2>. QED BY <1>1, <1>7, <2>3, <2>4, <2>5, SameMade DEF ReadTriple
<1>8. CASE CutTriple
  <2>1. rest' \in Seq(Letters)
    BY <1>2, <1>8, TookRest DEF CutTriple
  <2>2. parts' \in Seq(Made)
    BY <1>8, EmptySeq DEF CutTriple
  <2>. QED BY <1>1, <1>8, <2>1, <2>2, SameMade DEF CutTriple, tables
<1>9. CASE OpenBody
  BY <1>1, <1>2, <1>9, SameMade DEF OpenBody, tables
<1>10. CASE CloseBody
  <2>. DEFINE arrow == Get(Get(Skip(Get(rest))))
  <2>1. Skip(Get(rest)) \in Seq(Letters)
    BY <1>2, SkipIs
  <2>2. arrow \in Seq(Letters)
    BY <2>1, GetIs
  <2>3. rest' = Skip(Get(Skip(arrow)))
    BY <1>10 DEF CloseBody
  <2>. HIDE DEF arrow
  <2>4. rest' \in Seq(Letters)
    BY <2>2, <2>3, SkipIs, GetIs
  <2>. QED BY <1>1, <1>10, <2>4, SameMade DEF CloseBody, tables
<1>11. CASE CloseHeads
  BY <1>1, <1>2, <1>11, SameMade DEF CloseHeads, tables
<1>. QED BY <1>3, <1>4, <1>5, <1>6, <1>7, <1>8, <1>9, <1>10, <1>11 DEF Read

---------------------------------------------------------------------------
(* What is written.                                                        *)

LEMMA NumberInduction ==
    ASSUME NEW S, 0 \in S, \A n \in Nat : n \in S => n + 1 \in S
    PROVE  \A n \in Nat : n \in S
<1>. DEFINE others == {n \in Nat : n \notin S}
<1>. SUFFICES ASSUME others # {} PROVE FALSE
  OBVIOUS
<1>1. PICK m \in others : \A n \in others : m <= n
  <2>1. others \in SUBSET Nat
    OBVIOUS
  <2>. QED BY <2>1, LeastOne
<1>2. m - 1 \in Nat /\ m - 1 \notin others /\ (m - 1) + 1 = m
  BY <1>1
<1>3. m - 1 \in S => m \in S
  BY <1>2
<1>. QED BY <1>1, <1>2, <1>3

WrittenBy(g, x) ==
    IF x[1] # "." THEN <<names[x[2]], <<>>>>
    ELSE <<<<".">>, [k \in DOMAIN lists[x[2]] |-> g[lists[x[2]][k]]]>>

\* A list holds nothing that was made after it.
LEMMA InList ==
    ASSUME ReadInv, NEW n \in Nat, NEW x \in Before(n + 1), x[1] = "."
    PROVE  /\ x[2] \in DOMAIN lists /\ x = <<".", x[2]>>
           /\ lists[x[2]] \in Seq(Made)
           /\ \A k \in DOMAIN lists[x[2]] : lists[x[2]][k] \in Before(n)
<1>1. x[2] \in DOMAIN lists /\ x = <<".", x[2]>> /\ x[2] < n + 1
  BY MadeIs DEF ReadInv, Before
<1>2. lists[x[2]] \in Seq(Before(x[2])) /\ lists[x[2]] \in Seq(Made)
  BY <1>1 DEF ReadInv
<1>3. x[2] \in Nat
  BY <1>1 DEF ReadInv
<1>4. Before(x[2]) \subseteq Before(n)
  <2>1. ASSUME NEW y \in Before(x[2]) PROVE y \in Before(n)
    <3>1. y \in Made /\ (y[1] = "." => y[2] < x[2])
      BY DEF Before
    <3>2. y[1] = "." => y[2] \in Nat
      BY <3>1, MadeIs DEF ReadInv
    <3>. QED BY <1>1, <1>3, <3>1, <3>2 DEF Before
  <2>. QED BY <2>1
<1>. QED BY <1>1, <1>2, <1>4

LEMMA BeforeAll ==
    ASSUME ReadInv
    PROVE  Before(Len(lists) + 1) = Made /\ Len(lists) + 1 \in Nat
<1>1. DOMAIN lists = 1..Len(lists) /\ Len(lists) \in Nat
  BY DEF ReadInv
<1>2. ASSUME NEW x \in Made, x[1] = "." PROVE x[2] < Len(lists) + 1
  BY <1>1, <1>2, MadeIs DEF ReadInv
<1>. QED BY <1>1, <1>2 DEF Before

\* The recursion of Written ends.
LEMMA WrittenIs ==
    ASSUME ReadInv
    PROVE  \A x \in Made : Written[x] = WrittenBy(Written, x)
<1>. DEFINE S == {n \in Nat : \E g : g = [x \in Before(n) |-> WrittenBy(g, x)]}
<1>1. 0 \in S
  <2>. DEFINE g == [x \in Before(0) |-> <<names[x[2]], <<>>>>]
  <2>1. ASSUME NEW x \in Before(0) PROVE x[1] # "."
    <3>1. x \in Made /\ (x[1] = "." => x[2] < 0)
      BY DEF Before
    <3>2. x[1] = "." => x[2] \in Nat
      BY <3>1, MadeIs DEF ReadInv
    <3>. QED BY <3>1, <3>2
  <2>2. g = [x \in Before(0) |-> WrittenBy(g, x)]
    BY <2>1 DEF WrittenBy
  <2>. HIDE DEF g
  <2>. QED BY <2>2
<1>2. ASSUME NEW n \in Nat, n \in S
      PROVE  n + 1 \in S
  <2>1. PICK g : g = [x \in Before(n) |-> WrittenBy(g, x)]
    BY <1>2
  <2>. DEFINE h == [x \in Before(n + 1) |-> WrittenBy(g, x)]
  <2>2. Before(n) \subseteq Before(n + 1)
    <3>1. ASSUME NEW y \in Before(n) PROVE y \in Before(n + 1)
      <4>1. y \in Made /\ (y[1] = "." => y[2] < n)
        BY DEF Before
      <4>2. y[1] = "." => y[2] \in Nat
        BY <4>1, MadeIs DEF ReadInv
      <4>. QED BY <4>1, <4>2 DEF Before
    <3>. QED BY <3>1
  <2>3. \A y \in Before(n) : h[y] = g[y]
    BY <2>1, <2>2
  <2>4. ASSUME NEW x \in Before(n + 1)
        PROVE  WrittenBy(g, x) = WrittenBy(h, x)
    <3>1. CASE x[1] = "."
      <4>1. \A k \in DOMAIN lists[x[2]] : h[lists[x[2]][k]] = g[lists[x[2]][k]]
        BY <2>3, <3>1, InList
      <4>. HIDE DEF h
      <4>. QED BY <4>1 DEF WrittenBy
    <3>2. CASE x[1] # "."
      <4>. HIDE DEF h
      <4>. QED BY <3>2 DEF WrittenBy
    <3>. QED BY <3>1, <3>2
  <2>5. h = [x \in Before(n + 1) |-> WrittenBy(h, x)]
    BY <2>4
  <2>. HIDE DEF h
  <2>6. \E f : f = [x \in Before(n + 1) |-> WrittenBy(f, x)]
    BY <2>5
  <2>. QED BY <2>6
<1>3. Len(lists) + 1 \in S
  <2>. HIDE DEF S
  <2>. QED BY <1>1, <1>2, BeforeAll, NumberInduction
<1>4. \E g : g = [x \in Made |-> WrittenBy(g, x)]
  BY <1>3, BeforeAll
<1>5. Written = [x \in Made |-> WrittenBy(Written, x)]
  BY <1>4 DEF Written, WrittenBy
<1>. QED BY <1>5

\* While no name is lost, a resource has one address.
LEMMA WrittenApart ==
    ASSUME ReadInv, Steady
    PROVE  \A x, y \in Made : Written[x] = Written[y] => x = y
<1>. DEFINE S == {n \in Nat : \A x \in Before(n), y \in Made : Written[x] = Written[y] => x = y}
<1>1. names \in Seq(Words) /\ Unique(names) /\ lists \in Seq(Seq(Made)) /\ Unique(lists)
  <2>1. ASSUME NEW n \in DOMAIN names, NEW k \in DOMAIN names, names[n] = names[k], n # k
        PROVE  FALSE
    <3>1. n \in Nat /\ k \in Nat
      BY DEF ReadInv
    <3>2. n < k \/ k < n
      BY <2>1, <3>1
    <3>. QED BY <2>1, <3>2 DEF ReadInv, NamesApart, Steady
  <2>. QED BY <2>1 DEF ReadInv, Unique
<1>2. ASSUME NEW x \in Made, x[1] # "."
      PROVE  /\ Written[x] = <<names[x[2]], <<>>>> /\ x = <<Head(names[x[2]]), x[2]>>
             /\ x[2] \in DOMAIN names /\ names[x[2]] # <<".">>
  <2>1. x[2] \in DOMAIN names /\ x = <<Head(names[x[2]]), x[2]>>
    BY <1>1, <1>2, MadeIs
  <2>2. Head(names[x[2]]) # "." /\ Head(<<".">>) = "."
    BY <1>1, <2>1 DEF Words
  <2>3. Written[x] = <<names[x[2]], <<>>>>
    BY <1>2, WrittenIs DEF WrittenBy
  <2>. QED BY <2>1, <2>2, <2>3
<1>3. ASSUME NEW x \in Made, x[1] = "."
      PROVE  Written[x] = <<<<".">>, [k \in DOMAIN lists[x[2]] |-> Written[lists[x[2]][k]]]>>
  BY <1>3, WrittenIs DEF WrittenBy
<1>4. ASSUME NEW x \in Made, NEW y \in Made, x[1] # ".", Written[x] = Written[y]
      PROVE  x = y
  <2>1. y[1] # "."
    <3>1. SUFFICES ASSUME y[1] = "." PROVE FALSE
      OBVIOUS
    <3>2. Written[y][1] = <<".">>
      <4>1. PICK inside : Written[y] = <<<<".">>, inside>>
        BY <1>3, <3>1
      <4>. QED BY <4>1
    <3>3. Written[x][1] = names[x[2]] /\ names[x[2]] # <<".">>
      BY <1>2, <1>4
    <3>. QED BY <1>4, <3>2, <3>3
  <2>2. names[x[2]] = names[y[2]]
    <3>1. Written[x][1] = names[x[2]] /\ Written[y][1] = names[y[2]]
      BY <1>2, <1>4, <2>1
    <3>. QED BY <1>4, <3>1
  <2>3. x[2] = y[2]
    BY <1>1, <1>2, <1>4, <2>1, <2>2 DEF Unique
  <2>. QED BY <1>2, <1>4, <2>1, <2>2, <2>3
<1>5. 0 \in S
  <2>1. ASSUME NEW x \in Before(0) PROVE x \in Made /\ x[1] # "."
    <3>1. x \in Made /\ (x[1] = "." => x[2] < 0)
      BY DEF Before
    <3>2. x[1] = "." => x[2] \in Nat
      BY <3>1, MadeIs DEF ReadInv
    <3>. QED BY <3>1, <3>2
  <2>. QED BY <1>4, <2>1
<1>6. ASSUME NEW n \in Nat, n \in S
      PROVE  n + 1 \in S
  <2>1. ASSUME NEW x \in Before(n + 1), NEW y \in Made, Written[x] = Written[y]
        PROVE  x = y
    <3>1. x \in Made
      BY DEF Before
    <3>2. CASE x[1] # "."
      BY <1>4, <2>1, <3>1, <3>2
    <3>3. CASE x[1] = "."
      <4>. DEFINE xs == lists[x[2]]
                  ys == lists[y[2]]
      <4>1. y[1] = "."
        BY <1>4, <2>1, <3>1, <3>3
      <4>2. /\ x[2] \in DOMAIN lists /\ x = <<".", x[2]>> /\ xs \in Seq(Made)
            /\ \A k \in DOMAIN xs : xs[k] \in Before(n)
        BY <3>3, InList
      <4>3. y[2] \in DOMAIN lists /\ y = <<".", y[2]>> /\ ys \in Seq(Made)
        BY <1>1, <4>1, MadeIs
      <4>4. [k \in DOMAIN xs |-> Written[xs[k]]] = [k \in DOMAIN ys |-> Written[ys[k]]]
        <5>1. /\ Written[x][2] = [k \in DOMAIN xs |-> Written[xs[k]]]
              /\ Written[y][2] = [k \in DOMAIN ys |-> Written[ys[k]]]
          BY <1>3, <3>1, <3>3, <4>1
        <5>. QED BY <2>1, <5>1
      <4>. HIDE DEF xs, ys
      <4>5. DOMAIN xs = DOMAIN ys /\ \A k \in DOMAIN xs : Written[xs[k]] = Written[ys[k]]
        BY <4>4
      <4>6. \A k \in DOMAIN xs : xs[k] = ys[k]
        BY <1>6, <4>2, <4>3, <4>5
      <4>7. xs = ys
        BY <4>2, <4>3, <4>5, <4>6
      <4>8. x[2] = y[2]
        BY <1>1, <4>2, <4>3, <4>7 DEF Unique, xs, ys
      <4>. QED BY <4>2, <4>3, <4>8
    <3>. QED BY <3>2, <3>3
  <2>. QED BY <1>6, <2>1
<1>7. Len(lists) + 1 \in S
  <2>. HIDE DEF S
  <2>. QED BY <1>5, <1>6, BeforeAll, NumberInduction
<1>. QED BY <1>7, BeforeAll

---------------------------------------------------------------------------
(* Texts that are read and put in rows.                                    *)

LEMMA InitRead == ReadInit => ReadInv /\ AtInv
<1>. SUFFICES ASSUME ReadInit PROVE ReadInv /\ AtInv
  OBVIOUS
<1>1. /\ file \in Files /\ rest = file.text /\ at = "statement"
      /\ parts = <<>> /\ items = <<>> /\ names = <<>> /\ lists = <<>> /\ triples = <<>>
  BY DEF ReadInit
<1>2. rest \in Seq(Letters)
  BY <1>1, FilesAssumption DEF Letters, ToSet
<1>3. IInv(Made)
  BY InitIInv DEF ReadInit
<1>4. DOMAIN <<>> = {}
  OBVIOUS
<1>. QED BY <1>1, <1>2, <1>3, <1>4, EmptySeq DEF ReadInv, AtInv, Unique, NamesApart

\* The rows are changed by equations of resources that were made only.
LEMMA SolveRows ==
    ASSUME [ReadAndSolve]_tripleVars, NEW R, R = Made
    PROVE  RowStep(R)
<1>1. CASE Read
  BY <1>1 DEF Read, Word, OpenList, CloseList, NoWord, ReadTriple, CutTriple,
              OpenBody, CloseBody, CloseHeads, RowStep
<1>2. CASE Solve
  BY <1>2 DEF Solve, RowStep
<1>3. CASE UNCHANGED tripleVars
  BY <1>3 DEF tripleVars, RowStep
<1>. QED BY <1>1, <1>2, <1>3 DEF ReadAndSolve, Ended

LEMMA NextRead == ReadInv /\ AtInv /\ [ReadAndSolve]_tripleVars => ReadInv' /\ AtInv'
<1>. SUFFICES ASSUME ReadInv, AtInv, [ReadAndSolve]_tripleVars PROVE ReadInv' /\ AtInv'
  OBVIOUS
<1>1. CASE Read
  BY <1>1, ReadStep, AtStep
<1>2. CASE Solve \/ UNCHANGED tripleVars
  <2>1. UNCHANGED readVars
    BY <1>2 DEF Solve, tripleVars
  <2>2. UNCHANGED <<file, rest, at, parts, items, names, lists, triples>>
    BY <2>1 DEF readVars, tables
  <2>3. Made' = Made /\ Letters' = Letters
    BY <2>2 DEF Made, Letters
  <2>4. PICK R : R = Made
    OBVIOUS
  <2>5. IInv(R)
    BY <2>4 DEF ReadInv
  <2>6. IInv(R)'
    BY <2>4, <2>5, NullNotMade, SolveRows, StepIInv
  <2>7. IInv(Made)'
    BY <2>3, <2>4, <2>6 DEF IInv
  <2>8. /\ Words' = Words /\ Threes' = Threes
        /\ \A n \in DOMAIN lists : Before(n)' = Before(n)
    BY <2>2, <2>3 DEF Words, Threes, Before
  <2>9. NamesApart' /\ Unique(lists)' /\ Unique(triples)'
    BY <2>2 DEF ReadInv, Unique, NamesApart, Lost
  <2>10. AtInv'
    BY <2>2 DEF AtInv
  <2>. QED BY <2>2, <2>3, <2>7, <2>8, <2>9, <2>10 DEF ReadInv
<1>. QED BY <1>1, <1>2 DEF ReadAndSolve, Ended

\* The rows that are not Apart or Distinct have two addresses written alike.
LEMMA ReadOnce == ReadInv => WrittenOnce
<1>. SUFFICES ASSUME ReadInv PROVE WrittenOnce
  OBVIOUS
<1>1. ASSUME Steady, NEW n \in DOMAIN eqs, NEW k \in DOMAIN eqs,
             NEW i \in DOMAIN eqs[n], NEW j \in DOMAIN eqs[k],
             Null \notin {eqs[n][i], eqs[k][j]},
             Written[eqs[n][i]] = Written[eqs[k][j]]
      PROVE  n = k /\ i = j
  <2>1. /\ eqs \in Seq(Seq(Made \cup {Null})) /\ Apart(eqs)
        /\ Distinct(eqs[n])
    BY DEF ReadInv, IInv, Sound
  <2>2. eqs[n][i] \in Made /\ eqs[k][j] \in Made
    <3>1. eqs[n] \in Seq(Made \cup {Null}) /\ eqs[k] \in Seq(Made \cup {Null})
      BY <2>1
    <3>2. eqs[n][i] \in Made \cup {Null} /\ eqs[k][j] \in Made \cup {Null}
      BY <3>1
    <3>. QED BY <1>1, <3>2
  <2>3. eqs[n][i] = eqs[k][j]
    BY <1>1, <2>2, WrittenApart
  <2>4. eqs[n][i] \in Elements(eqs[n]) /\ eqs[k][j] \in Elements(eqs[k])
    BY <1>1 DEF Elements, Range
  <2>5. n = k
    BY <2>1, <2>3, <2>4 DEF Apart
  <2>. QED BY <1>1, <2>1, <2>3, <2>5 DEF Distinct
<1>2. Steady => \A x, y \in Made : Written[x] = Written[y] => x = y
  BY WrittenApart
<1>. QED BY <1>1, <1>2 DEF WrittenOnce, ReadInv, NamesApart

\* Of any text, and whatever is equated of it: mkres makes a name again only when
\* its place was lost in a table that has moved, and while none is lost rule 3 of
\* vm.h holds of resources as they are written.
THEOREM WrittenOnceAlways == TriplesSpec => []WrittenOnce
BY InitRead, NextRead, ReadOnce, PTL DEF TriplesSpec

\* While no name is lost, two triples that are written alike are one.
TriplesOnce ==
    Steady => \A t, u \in DOMAIN triples : WrittenTriple(t) = WrittenTriple(u) => t = u

LEMMA ReadTriplesOnce == ReadInv => TriplesOnce
<1>. SUFFICES ASSUME ReadInv, Steady, NEW t \in DOMAIN triples, NEW u \in DOMAIN triples,
                     WrittenTriple(t) = WrittenTriple(u)
              PROVE  t = u
  BY DEF TriplesOnce
<1>1. /\ triples[t] \in Seq(Made) /\ Len(triples[t]) = 3
      /\ triples[u] \in Seq(Made) /\ Len(triples[u]) = 3
  BY DEF ReadInv, Threes
<1>2. ASSUME NEW k \in 1..3 PROVE triples[t][k] = triples[u][k]
  <2>1. WrittenTriple(t)[k] = WrittenTriple(u)[k]
    OBVIOUS
  <2>2. Written[triples[t][k]] = Written[triples[u][k]]
    BY <2>1 DEF WrittenTriple
  <2>3. triples[t][k] \in Made /\ triples[u][k] \in Made
    <3>1. k \in 1..Len(triples[t]) /\ k \in 1..Len(triples[u])
      BY <1>1
    <3>. HIDE DEF Made
    <3>. QED BY <1>1, <3>1, ElementOfSeq
  <2>. QED BY <2>2, <2>3, WrittenApart
<1>3. triples[t] = triples[u]
  BY <1>1, <1>2
<1>. QED BY <1>3 DEF ReadInv, Unique

\* mktriple makes one triple of what is written alike, of any text, while the
\* table of names loses none.
THEOREM TriplesOnceAlways == TriplesSpec => []TriplesOnce
BY InitRead, NextRead, ReadTriplesOnce, PTL DEF TriplesSpec

\* The rows of resources that were read are sound and never moved, too.
THEOREM SolvedSoundly == TriplesSpec => []RowsSound /\ NeverMoved
<1>1. ReadInv => RowsSound
  <2>. SUFFICES ASSUME ReadInv PROVE RowsSound
    OBVIOUS
  <2>1. PICK R : R = Made
    OBVIOUS
  <2>. QED BY <2>1, IInvSound DEF ReadInv
<1>2. ReadInv /\ [ReadAndSolve]_tripleVars => [RowsGrow]_eqs
  <2>. SUFFICES ASSUME ReadInv, [ReadAndSolve]_tripleVars PROVE [RowsGrow]_eqs
    OBVIOUS
  <2>1. PICK R : R = Made
    OBVIOUS
  <2>2. IInv(R) /\ Null \notin R
    BY <2>1, NullNotMade DEF ReadInv
  <2>. QED BY <2>1, <2>2, SolveRows, StepGrows
<1>3. [RowsGrow]_eqs <=> [eqs' # <<>> =>
                             \A n \in DOMAIN eqs : \E k \in DOMAIN eqs' :
                                 Range(eqs[n]) \ {Null} \subseteq Range(eqs'[k])]_eqs
  BY DEF RowsGrow, Elements
<1>. QED BY <1>1, <1>2, <1>3, InitRead, NextRead, PTL DEF TriplesSpec, NeverMoved
=============================================================================
