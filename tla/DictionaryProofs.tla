-------------------------- MODULE DictionaryProofs --------------------------
(***************************************************************************)
(* The dictionary and the term store, for any nodes, any number of terms   *)
(* and any order in which they are made.                                   *)
(*                                                                         *)
(* What makes the deep comparison of termdb::equals right is that it finds *)
(* two addresses equal only if they are one (EqualsIsSame): the parts of a *)
(* term are interned when it is, so that comparing it is comparing its     *)
(* parts' addresses.                                                       *)
(***************************************************************************)
EXTENDS Dictionary, TLAPS, FiniteSetTheorems, SequenceTheorems, WellFoundedInduction

---------------------------------------------------------------------------
(* The dictionary.                                                         *)

\* The place a node was numbered at.
Place(n) == IF n \in Vars THEN -pi[n] ELSE pi[n]

Numbered ==
    /\ pi \in [DOMAIN pi -> Int]
    /\ IsFiniteSet(DOMAIN pi)
    /\ \A n \in DOMAIN pi : Place(n) \in 1..Cardinality(DOMAIN pi)
    /\ \A m, n \in DOMAIN pi : Place(m) = Place(n) => m = n
    /\ \A n \in DOMAIN pi : pi[n] \in DOMAIN ip /\ ip[pi[n]] = n
    /\ \A k \in DOMAIN ip : ip[k] \in DOMAIN pi /\ pi[ip[k]] = k

LEMMA NumberedMeans == Numbered => NodesNumbered
<1>. SUFFICES ASSUME Numbered PROVE NodesNumbered
  OBVIOUS
<1>1. Cardinality(DOMAIN pi) \in Nat
  BY FS_CardinalityType DEF Numbered
<1>2. ASSUME NEW n \in DOMAIN pi PROVE pi[n] \in Int /\ pi[n] # 0 /\ (pi[n] < 0 <=> n \in Vars)
  <2>1. pi[n] \in Int /\ Place(n) \in 1..Cardinality(DOMAIN pi)
    BY DEF Numbered
  <2>. QED BY <1>1, <2>1 DEF Place
<1>3. ASSUME NEW m \in DOMAIN pi, NEW n \in DOMAIN pi, pi[m] = pi[n] PROVE m = n
  <2>1. Place(m) = Place(n)
    BY <1>2, <1>3 DEF Place
  <2>. QED BY <2>1 DEF Numbered
<1>. QED BY <1>2, <1>3 DEF NodesNumbered, Numbered

\* set numbers a node that has no number and changes no other number.
LEMMA SetNumbered ==
    ASSUME Numbered, NEW n, SetNode(n)
    PROVE  /\ Numbered'
           /\ n \in DOMAIN pi' /\ DOMAIN pi \subseteq DOMAIN pi'
           /\ \A m \in DOMAIN pi : pi'[m] = pi[m]
           /\ pi'[n] \in Int
<1>1. CASE n \in DOMAIN pi
  BY <1>1 DEF SetNode, Numbered, Place
<1>2. CASE n \notin DOMAIN pi
  <2>. DEFINE c == Cardinality(DOMAIN pi)
              id == NewId(n)
  <2>1. pi' = With(pi, n, id) /\ ip' = With(ip, id, n)
    BY <1>2 DEF SetNode
  <2>2. IsFiniteSet(DOMAIN pi) /\ c \in Nat
    BY FS_CardinalityType DEF Numbered
  <2>3. id = IF n \in Vars THEN -(c + 1) ELSE c + 1
    BY DEF NewId
  <2>4. DOMAIN pi' = DOMAIN pi \cup {n}
    BY <2>1 DEF With
  <2>5. IsFiniteSet(DOMAIN pi') /\ Cardinality(DOMAIN pi') = c + 1
    BY <1>2, <2>2, <2>4, FS_AddElement
  <2>. HIDE DEF c, id
  <2>6. pi'[n] = id /\ \A m \in DOMAIN pi : pi'[m] = pi[m]
    BY <1>2, <2>1 DEF With
  <2>7. id \in Int /\ pi' \in [DOMAIN pi' -> Int]
    <3>1. id \in Int
      BY <2>2, <2>3
    <3>2. \A m \in DOMAIN pi : pi[m] \in Int
      BY DEF Numbered
    <3>3. pi' = [m \in DOMAIN pi' |-> pi'[m]]
      BY <2>1 DEF With
    <3>. QED BY <2>4, <2>6, <3>1, <3>2, <3>3
  <2>8. Place(n)' = c + 1 /\ \A m \in DOMAIN pi : Place(m)' = Place(m) /\ Place(m) \in 1..c
    <3>1. Place(n)' = c + 1
      BY <2>2, <2>3, <2>6 DEF Place
    <3>2. ASSUME NEW m \in DOMAIN pi PROVE Place(m)' = Place(m) /\ Place(m) \in 1..c
      <4>1. Place(m)' = Place(m)
        BY <2>6 DEF Place
      <4>. QED BY <4>1 DEF Numbered, c
    <3>. QED BY <3>1, <3>2
  <2>9. \A m \in DOMAIN pi' : Place(m)' \in 1..Cardinality(DOMAIN pi')
    BY <2>2, <2>4, <2>5, <2>8
  <2>10. \A m, k \in DOMAIN pi' : Place(m)' = Place(k)' => m = k
    <3>1. \A m, k \in DOMAIN pi : Place(m) = Place(k) => m = k
      BY DEF Numbered
    <3>2. \A m \in DOMAIN pi : Place(m)' # c + 1
      BY <2>2, <2>8
    <3>. QED BY <2>4, <2>8, <3>1, <3>2
  <2>11. ASSUME NEW m \in DOMAIN pi PROVE pi[m] # id
    <3>1. Place(m) \in 1..c /\ pi[m] \in Int
      BY <2>8 DEF Numbered
    <3>. QED BY <2>2, <2>3, <3>1 DEF Place
  <2>12. id \notin DOMAIN ip
    BY <2>11 DEF Numbered
  <2>13. DOMAIN ip' = DOMAIN ip \cup {id} /\ ip'[id] = n /\ \A k \in DOMAIN ip : ip'[k] = ip[k]
    BY <2>1, <2>12 DEF With
  <2>14. /\ \A m \in DOMAIN pi' : pi'[m] \in DOMAIN ip' /\ ip'[pi'[m]] = m
         /\ \A k \in DOMAIN ip' : ip'[k] \in DOMAIN pi' /\ pi'[ip'[k]] = k
    BY <2>4, <2>6, <2>13 DEF Numbered
  <2>15. Numbered'
    BY <2>5, <2>7, <2>9, <2>10, <2>14 DEF Numbered
  <2>. QED BY <2>4, <2>6, <2>7, <2>15
<1>. QED BY <1>1, <1>2

LEMMA InitNumbered == Init => Numbered
<1>. SUFFICES ASSUME Init PROVE Numbered
  OBVIOUS
<1>1. Len(Known) = 13 /\ DOMAIN Known = 1..13
  BY DEF Known
<1>2. \A j, k \in 1..13 : Known[j] = Known[k] => j = k
  <2>1. /\ Known[1] = "GND" /\ Known[2] = "log:equalTo" /\ Known[3] = "log:notEqualTo"
        /\ Known[4] = "rdf:first" /\ Known[5] = "rdf:rest" /\ Known[6] = "rdf:nil"
        /\ Known[7] = "a" /\ Known[8] = "rdfs:Resource" /\ Known[9] = "rdfs:domain"
        /\ Known[10] = "." /\ Known[11] = "rdf:type" /\ Known[12] = "rdfs:subClassOf"
        /\ Known[13] = "false"
    BY DEF Known
  <2>. QED BY <2>1
<1>3. ToSet(Known) = {Known[k] : k \in 1..13}
  BY <1>1 DEF ToSet
<1>. HIDE DEF Known
<1>4. DOMAIN pi = ToSet(Known) /\ DOMAIN ip = 1..13 /\ ip = Known
  BY <1>1 DEF Init
<1>5. ASSUME NEW k \in 1..13 PROVE Known[k] \in DOMAIN pi /\ pi[Known[k]] = k
  <2>1. Known[k] \in DOMAIN pi
    BY <1>3, <1>4
  <2>2. pi[Known[k]] = CHOOSE j \in DOMAIN Known : Known[j] = Known[k]
    BY <1>4, <2>1 DEF Init
  <2>. QED BY <1>1, <1>2, <2>1, <2>2
<1>6. \A n \in DOMAIN pi : \E k \in 1..13 : n = Known[k]
  BY <1>3, <1>4
<1>7. IsFiniteSet(DOMAIN pi) /\ Cardinality(DOMAIN pi) = 13
  <2>. DEFINE f == [k \in 1..13 |-> Known[k]]
  <2>1. f \in Bijection(1..13, DOMAIN pi)
    BY <1>2, <1>3, <1>4 DEF Bijection, Injection, Surjection, IsInjective
  <2>2. ExistsBijection(1..13, DOMAIN pi)
    BY <2>1 DEF ExistsBijection
  <2>3. IsFiniteSet(1..13) /\ Cardinality(1..13) = 13
    <3>1. PICK i \in Int, m \in Int : i = 1 /\ m = 13
      OBVIOUS
    <3>2. IsFiniteSet(i..m) /\ Cardinality(i..m) = IF i > m THEN 0 ELSE m - i + 1
      BY FS_Interval
    <3>. QED BY <3>1, <3>2
  <2>. QED BY <2>2, <2>3, FS_Bijection
<1>8. \A n \in DOMAIN pi : Place(n) = pi[n]
  BY <1>4, VarsAssumption DEF Place
<1>9. pi \in [DOMAIN pi -> Int]
  <2>1. \A n \in DOMAIN pi : pi[n] \in Int
    BY <1>5, <1>6
  <2>2. pi = [n \in DOMAIN pi |-> pi[n]]
    BY DEF Init
  <2>. QED BY <2>1, <2>2
<1>10. \A n \in DOMAIN pi : Place(n) \in 1..13
  BY <1>5, <1>6, <1>8
<1>11. \A m, n \in DOMAIN pi : Place(m) = Place(n) => m = n
  BY <1>5, <1>6, <1>8
<1>12. \A n \in DOMAIN pi : pi[n] \in DOMAIN ip /\ ip[pi[n]] = n
  BY <1>4, <1>5, <1>6
<1>13. \A k \in DOMAIN ip : ip[k] \in DOMAIN pi /\ pi[ip[k]] = k
  BY <1>4, <1>5
<1>. QED BY <1>7, <1>9, <1>10, <1>11, <1>12, <1>13 DEF Numbered

---------------------------------------------------------------------------
(* The term store.                                                         *)

Entry == [p : Int, s : Nat, o : Nat]

\* The parts of a term have smaller addresses, and no two terms have the same
\* parts.
HeapInv ==
    /\ heap \in Seq(Entry)
    /\ \A x \in 1..Len(heap) : heap[x].s < x /\ heap[x].o < x
    /\ \A x, y \in 1..Len(heap) : heap[x] = heap[y] => x = y

\* p2id holds the addresses of every predicate's terms and no others.
Listed ==
    /\ \A x \in 1..Len(heap) : /\ heap[x].p \in DOMAIN p2id
                               /\ \E k \in DOMAIN p2id[heap[x].p] : p2id[heap[x].p][k] = x
    /\ \A p \in DOMAIN p2id :
          /\ p2id[p] \in Seq(Nat)
          /\ \A k \in DOMAIN p2id[p] : p2id[p][k] \in 1..Len(heap) /\ heap[p2id[p][k]].p = p

\* An answer was given for every address, and is where its parts say.
Entered(t) ==
    \/ \E n \in DOMAIN pi : t = <<n>> /\ heap[answers[t]] = [p |-> pi[n], s |-> 0, o |-> 0]
    \/ \E n \in DOMAIN pi, s, o \in DOMAIN answers :
          t = <<n, s, o>> /\ heap[answers[t]] = [p |-> pi[n], s |-> answers[s], o |-> answers[o]]

Answered ==
    /\ answers \in [DOMAIN answers -> Nat]
    /\ \A t \in DOMAIN answers : answers[t] \in 1..Len(heap) /\ Entered(t)
    /\ \A x \in 1..Len(heap) : \E t \in DOMAIN answers : answers[t] = x

IInv == Numbered /\ HeapInv /\ Listed /\ Answered /\ TermsInterned

\* The deep comparison of addresses is the comparison of addresses.
LEMMA EqualsIsSame ==
    ASSUME HeapInv
    PROVE  \A x, y \in 0..Len(heap) : Equals(x, y) <=> x = y
<1>. DEFINE D == 0..Len(heap)
            Body(f) == [v \in D |-> [w \in D |->
                            IF v = 0 \/ w = 0 THEN v = w
                            ELSE /\ heap[v].p = heap[w].p
                                 /\ f[heap[v].s][heap[w].s]
                                 /\ f[heap[v].o][heap[w].o]]]
            same == [v \in D |-> [w \in D |-> v = w]]
            equal == CHOOSE f : f = Body(f)
<1>0. Len(heap) \in Nat /\ \A x \in 1..Len(heap) : heap[x] \in Entry
  BY DEF HeapInv
<1>1. /\ Len(heap) \in Nat
      /\ \A x \in 1..Len(heap) : /\ heap[x].s \in 0..Len(heap) /\ heap[x].s < x
                                 /\ heap[x].o \in 0..Len(heap) /\ heap[x].o < x
  <2>1. \A x \in 1..Len(heap) : /\ heap[x].s \in Nat /\ heap[x].s < x
                                /\ heap[x].o \in Nat /\ heap[x].o < x
    BY <1>0 DEF HeapInv, Entry
  <2>. QED BY <1>0, <2>1
<1>2. ASSUME NEW x \in 1..Len(heap), NEW y \in 1..Len(heap),
             heap[x].p = heap[y].p, heap[x].s = heap[y].s, heap[x].o = heap[y].o
      PROVE  x = y
  <2>1. heap[x] = [p |-> heap[x].p, s |-> heap[x].s, o |-> heap[x].o]
    BY <1>0 DEF Entry
  <2>2. heap[y] = [p |-> heap[y].p, s |-> heap[y].s, o |-> heap[y].o]
    BY <1>0 DEF Entry
  <2>3. heap[x] = heap[y]
    BY <1>2, <2>1, <2>2
  <2>. QED BY <2>3 DEF HeapInv
<1>3. same = Body(same)
  <2>1. ASSUME NEW v \in D, NEW w \in D
        PROVE  (v = w) = IF v = 0 \/ w = 0 THEN v = w
                         ELSE /\ heap[v].p = heap[w].p
                              /\ same[heap[v].s][heap[w].s]
                              /\ same[heap[v].o][heap[w].o]
    <3>1. CASE v = 0 \/ w = 0
      BY <3>1
    <3>2. CASE v # 0 /\ w # 0
      <4>1. v \in 1..Len(heap) /\ w \in 1..Len(heap)
        BY <1>1, <3>2
      <4>2. heap[v].s \in D /\ heap[v].o \in D /\ heap[w].s \in D /\ heap[w].o \in D
        BY <1>1, <4>1
      <4>3. /\ same[heap[v].s][heap[w].s] = (heap[v].s = heap[w].s)
            /\ same[heap[v].o][heap[w].o] = (heap[v].o = heap[w].o)
        BY <4>2
      <4>. QED BY <1>2, <3>2, <4>1, <4>3
    <3>. QED BY <3>1, <3>2
  <2>2. \A v \in D : same[v] = Body(same)[v]
    <3>1. ASSUME NEW v \in D PROVE same[v] = Body(same)[v]
      <4>1. same[v] = [w \in D |-> v = w]
        OBVIOUS
      <4>. QED BY <2>1, <4>1
    <3>. QED BY <3>1
  <2>3. same = [v \in D |-> same[v]] /\ Body(same) = [v \in D |-> Body(same)[v]]
    OBVIOUS
  <2>. QED BY <2>2, <2>3
<1>4. equal = Body(equal)
  <2>. HIDE DEF Body, same
  <2>. QED BY <1>3
<1>5. \A x, y : Equals(x, y) = equal[x][y]
  BY DEF Equals
<1>. HIDE DEF equal
<1>6. ASSUME NEW v \in D, NEW w \in D
      PROVE  equal[v][w] = IF v = 0 \/ w = 0 THEN v = w
                           ELSE /\ heap[v].p = heap[w].p
                                /\ equal[heap[v].s][heap[w].s]
                                /\ equal[heap[v].o][heap[w].o]
  <2>1. equal[v] = Body(equal)[v]
    BY <1>4
  <2>. QED BY <2>1
<1>. DEFINE wrong == {v \in D : \E w \in D : equal[v][w] # (v = w)}
<1>7. wrong = {}
  <2>. SUFFICES ASSUME wrong # {} PROVE FALSE
    OBVIOUS
  <2>1. wrong \subseteq Nat
    BY <1>1
  <2>2. PICK v \in wrong : \A u \in wrong : ~(<<u, v>> \in OpToRel(<, Nat))
    <3>. HIDE DEF wrong
    <3>. QED BY <2>1, NatLessThanWellFounded, WFMin
  <2>3. PICK w \in D : equal[v][w] # (v = w)
    OBVIOUS
  <2>4. \A u \in D : u < v => \A z \in D : equal[u][z] = (u = z)
    <3>1. ASSUME NEW u \in D, u < v PROVE u \notin wrong
      <4>1. u \in Nat /\ v \in Nat /\ <<u, v>> \in OpToRel(<, Nat)
        BY <1>1, <3>1 DEF OpToRel
      <4>. QED BY <2>2, <4>1
    <3>. QED BY <3>1
  <2>5. v \in 1..Len(heap) /\ w \in 1..Len(heap)
    <3>1. ~(v = 0 \/ w = 0)
      <4>. SUFFICES ASSUME v = 0 \/ w = 0 PROVE FALSE
        OBVIOUS
      <4>1. equal[v][w] = (v = w)
        BY <1>6, <2>3
      <4>. QED BY <2>3, <4>1
    <3>. QED BY <1>1, <2>3, <3>1
  <2>6. /\ equal[heap[v].s][heap[w].s] = (heap[v].s = heap[w].s)
        /\ equal[heap[v].o][heap[w].o] = (heap[v].o = heap[w].o)
    <3>1. heap[v].s \in D /\ heap[v].o \in D /\ heap[w].s \in D /\ heap[w].o \in D
      BY <1>1, <2>5
    <3>2. heap[v].s < v /\ heap[v].o < v
      BY <1>1, <2>5
    <3>. QED BY <2>4, <3>1, <3>2
  <2>7. equal[v][w] = (/\ heap[v].p = heap[w].p
                       /\ heap[v].s = heap[w].s
                       /\ heap[v].o = heap[w].o)
    <3>1. v \in D /\ w \in D /\ ~(v = 0 \/ w = 0)
      BY <1>1, <2>5
    <3>2. equal[v][w] = (/\ heap[v].p = heap[w].p
                         /\ equal[heap[v].s][heap[w].s]
                         /\ equal[heap[v].o][heap[w].o])
      BY <1>6, <3>1, Zenon
    <3>. QED BY <2>6, <3>2
  <2>. QED BY <1>2, <2>3, <2>5, <2>7
<1>. QED BY <1>5, <1>7

---------------------------------------------------------------------------
(* Making a term.                                                          *)

LEMMA LeastOne ==
    ASSUME NEW S \in SUBSET Nat, S # {}
    PROVE  (CHOOSE k \in S : \A j \in S : k <= j) \in S
<1>1. PICK m \in S : \A k \in S : ~(<<k, m>> \in OpToRel(<, Nat))
  BY NatLessThanWellFounded, WFMin
<1>2. ASSUME NEW k \in S PROVE m <= k
  <2>1. ~(<<k, m>> \in OpToRel(<, Nat)) /\ k \in Nat /\ m \in Nat
    BY <1>1
  <2>. QED BY <2>1 DEF OpToRel
<1>. QED BY <1>2

\* add finds the term with these parts, if there is one.
LEMMA SameFound ==
    ASSUME HeapInv, Listed, NEW p \in Int, NEW s \in 0..Len(heap), NEW o \in 0..Len(heap),
           NEW entry, entry = [p |-> p, s |-> s, o |-> o],
           NEW same, same = SameAs(p, s, o),
           NEW x, x = Of(p)[CHOOSE k \in same : \A j \in same : k <= j]
    PROVE  /\ same # {} => x \in 1..Len(heap) /\ heap[x] = entry
           /\ same = {} => \A y \in 1..Len(heap) : heap[y] # entry
<1>1. /\ Len(heap) \in Nat
      /\ \A y \in 1..Len(heap) : /\ heap[y] = [p |-> heap[y].p, s |-> heap[y].s, o |-> heap[y].o]
                                 /\ heap[y].s \in 0..Len(heap) /\ heap[y].o \in 0..Len(heap)
  <2>1. Len(heap) \in Nat /\ \A y \in 1..Len(heap) : heap[y] \in Entry
    BY DEF HeapInv
  <2>2. ASSUME NEW y \in 1..Len(heap)
        PROVE  /\ heap[y] = [p |-> heap[y].p, s |-> heap[y].s, o |-> heap[y].o]
               /\ heap[y].s \in 0..Len(heap) /\ heap[y].o \in 0..Len(heap)
    <3>1. heap[y].s \in Nat /\ heap[y].o \in Nat
      BY <2>1 DEF Entry
    <3>2. heap[y].s < y /\ heap[y].o < y
      BY DEF HeapInv
    <3>3. heap[y] = [p |-> heap[y].p, s |-> heap[y].s, o |-> heap[y].o]
      BY <2>1 DEF Entry
    <3>. QED BY <2>1, <3>1, <3>2, <3>3
  <2>. QED BY <2>1, <2>2
<1>2. /\ \A k \in DOMAIN Of(p) : Of(p)[k] \in 1..Len(heap) /\ heap[Of(p)[k]].p = p
      /\ \A y \in 1..Len(heap) : heap[y].p = p => \E k \in DOMAIN Of(p) : Of(p)[k] = y
      /\ DOMAIN Of(p) \subseteq Nat
  <2>1. CASE p \in DOMAIN p2id
    <3>1. Of(p) = p2id[p] /\ p2id[p] \in Seq(Nat)
      BY <2>1 DEF Of, Listed
    <3>2. DOMAIN Of(p) \subseteq Nat
      BY <3>1
    <3>. QED BY <2>1, <3>1, <3>2 DEF Listed
  <2>2. CASE p \notin DOMAIN p2id
    BY <2>2 DEF Of, Listed
  <2>. QED BY <2>1, <2>2
<1>3. ASSUME NEW k \in DOMAIN Of(p)
      PROVE  k \in same <=> heap[Of(p)[k]] = entry
  <2>. DEFINE y == Of(p)[k]
  <2>1. y \in 1..Len(heap) /\ heap[y].p = p
    BY <1>2
  <2>2. /\ Equals(heap[y].s, s) <=> heap[y].s = s
        /\ Equals(heap[y].o, o) <=> heap[y].o = o
    BY <1>1, <2>1, EqualsIsSame
  <2>3. k \in same <=> Equals(heap[y].s, s) /\ Equals(heap[y].o, o)
    BY DEF SameAs
  <2>4. heap[y] = [p |-> p, s |-> heap[y].s, o |-> heap[y].o]
    BY <1>1, <2>1
  <2>. HIDE DEF y
  <2>5. heap[y] = entry <=> heap[y].s = s /\ heap[y].o = o
    BY <2>4
  <2>. QED BY <2>2, <2>3, <2>5 DEF y
<1>4. same \subseteq DOMAIN Of(p)
  BY DEF SameAs
<1>5. ASSUME same # {} PROVE x \in 1..Len(heap) /\ heap[x] = entry
  <2>1. (CHOOSE k \in same : \A j \in same : k <= j) \in same
    BY <1>2, <1>4, <1>5, LeastOne
  <2>. QED BY <1>2, <1>3, <1>4, <2>1
<1>6. ASSUME same = {}, NEW y \in 1..Len(heap), heap[y] = entry PROVE FALSE
  <2>1. heap[y].p = p
    BY <1>6
  <2>. QED BY <1>2, <1>3, <1>6, <2>1
<1>. QED BY <1>5, <1>6

\* Numbering a node changes nothing about the terms.
LEMMA TermsKept ==
    ASSUME IInv, NEW n, SetNode(n), heap' = heap, p2id' = p2id, answers' = answers
    PROVE  IInv'
<1>1. Numbered' /\ DOMAIN pi \subseteq DOMAIN pi' /\ \A m \in DOMAIN pi : pi'[m] = pi[m]
  BY SetNumbered DEF IInv
<1>2. HeapInv' /\ Listed' /\ TermsInterned'
  BY DEF IInv, HeapInv, Listed, TermsInterned
<1>3. ASSUME NEW t \in DOMAIN answers PROVE Entered(t)'
  <2>1. CASE \E m \in DOMAIN pi : t = <<m>> /\ heap[answers[t]] = [p |-> pi[m], s |-> 0, o |-> 0]
    <3>1. PICK m \in DOMAIN pi : t = <<m>> /\ heap[answers[t]] = [p |-> pi[m], s |-> 0, o |-> 0]
      BY <2>1
    <3>2. m \in DOMAIN pi' /\ pi'[m] = pi[m]
      BY <1>1
    <3>. QED BY <3>1, <3>2 DEF Entered
  <2>2. CASE \E m \in DOMAIN pi, s, o \in DOMAIN answers :
                t = <<m, s, o>> /\ heap[answers[t]] = [p |-> pi[m], s |-> answers[s], o |-> answers[o]]
    <3>1. PICK m \in DOMAIN pi, s \in DOMAIN answers, o \in DOMAIN answers :
                t = <<m, s, o>> /\ heap[answers[t]] = [p |-> pi[m], s |-> answers[s], o |-> answers[o]]
      BY <2>2
    <3>2. m \in DOMAIN pi' /\ pi'[m] = pi[m]
      BY <1>1
    <3>. QED BY <3>1, <3>2 DEF Entered
  <2>. QED BY <2>1, <2>2 DEF IInv, Answered, Entered
<1>4. Answered'
  BY <1>3 DEF IInv, Answered
<1>. QED BY <1>1, <1>2, <1>4 DEF IInv

\* The term that is made, and the addresses of its parts.
IsCall(t, n, s, o) ==
    \/ t = <<n>> /\ s = 0 /\ o = 0
    \/ \E ts, to \in DOMAIN answers : t = <<n, ts, to>> /\ s = answers[ts] /\ o = answers[to]

LEMMA MakeStep ==
    ASSUME IInv, NEW n, NEW t, NEW s, NEW o, IsCall(t, n, s, o), SetNode(n), Add(t, pi'[n], s, o)
    PROVE  IInv' /\ \A u \in DOMAIN answers : answers'[u] = answers[u]
<1>. DEFINE p == pi'[n]
            entry == [p |-> p, s |-> s, o |-> o]
            same == SameAs(p, s, o)
            new == Len(heap) + 1
            x == Of(p)[CHOOSE k \in same : \A j \in same : k <= j]
<1>1. /\ Numbered' /\ n \in DOMAIN pi' /\ p \in Int
      /\ DOMAIN pi \subseteq DOMAIN pi' /\ \A m \in DOMAIN pi : pi'[m] = pi[m]
  BY SetNumbered DEF IInv
<1>2. \A m \in DOMAIN pi' : pi'[m] = p => m = n
  BY <1>1 DEF Numbered
<1>3. Len(heap) \in Nat /\ \A u \in DOMAIN answers : answers[u] \in 1..Len(heap) /\ Entered(u)
  BY DEF IInv, HeapInv, Answered
<1>4. s \in 0..Len(heap) /\ o \in 0..Len(heap)
  BY <1>3 DEF IsCall
<1>5. ASSUME NEW u \in DOMAIN answers, heap[answers[u]] = entry PROVE u = t
  <2>1. CASE \E m \in DOMAIN pi : u = <<m>> /\ heap[answers[u]] = [p |-> pi[m], s |-> 0, o |-> 0]
    <3>1. PICK m \in DOMAIN pi : u = <<m>> /\ heap[answers[u]] = [p |-> pi[m], s |-> 0, o |-> 0]
      BY <2>1
    <3>2. pi[m] = p /\ s = 0
      BY <1>5, <3>1
    <3>3. m = n
      BY <1>1, <1>2, <3>2
    <3>. QED BY <1>3, <3>1, <3>2, <3>3 DEF IsCall
  <2>2. CASE \E m \in DOMAIN pi, a, b \in DOMAIN answers :
                u = <<m, a, b>> /\ heap[answers[u]] = [p |-> pi[m], s |-> answers[a], o |-> answers[b]]
    <3>1. PICK m \in DOMAIN pi, a \in DOMAIN answers, b \in DOMAIN answers :
                u = <<m, a, b>> /\ heap[answers[u]] = [p |-> pi[m], s |-> answers[a], o |-> answers[b]]
      BY <2>2
    <3>2. pi[m] = p /\ s = answers[a] /\ o = answers[b]
      BY <1>5, <3>1
    <3>3. m = n
      BY <1>1, <1>2, <3>2
    <3>4. s # 0
      BY <1>3, <3>2
    <3>5. PICK ts \in DOMAIN answers, to \in DOMAIN answers :
                t = <<n, ts, to>> /\ s = answers[ts] /\ o = answers[to]
      BY <3>4 DEF IsCall
    <3>6. ts = a /\ to = b
      BY <3>2, <3>5 DEF IInv, TermsInterned
    <3>. QED BY <3>1, <3>3, <3>5, <3>6
  <2>. QED BY <1>3, <2>1, <2>2 DEF Entered
<1>6. ASSUME t \in DOMAIN answers PROVE heap[answers[t]] = entry
  <2>1. Entered(t)
    BY <1>3, <1>6
  <2>2. CASE t = <<n>> /\ s = 0 /\ o = 0
    <3>1. \A m, a, b : t # <<m, a, b>>
      BY <2>2
    <3>2. PICK m \in DOMAIN pi : t = <<m>> /\ heap[answers[t]] = [p |-> pi[m], s |-> 0, o |-> 0]
      BY <2>1, <3>1 DEF Entered
    <3>3. m = n
      BY <2>2, <3>2
    <3>. QED BY <1>1, <2>2, <3>2, <3>3
  <2>3. CASE \E ts, to \in DOMAIN answers : t = <<n, ts, to>> /\ s = answers[ts] /\ o = answers[to]
    <3>1. PICK ts \in DOMAIN answers, to \in DOMAIN answers :
                t = <<n, ts, to>> /\ s = answers[ts] /\ o = answers[to]
      BY <2>3
    <3>2. \A m : t # <<m>>
      BY <3>1
    <3>3. PICK m \in DOMAIN pi, a \in DOMAIN answers, b \in DOMAIN answers :
                t = <<m, a, b>> /\ heap[answers[t]] = [p |-> pi[m], s |-> answers[a], o |-> answers[b]]
      BY <2>1, <3>2 DEF Entered
    <3>4. m = n /\ a = ts /\ b = to
      BY <3>1, <3>3
    <3>. QED BY <1>1, <3>1, <3>3, <3>4
  <2>. QED BY <2>2, <2>3 DEF IsCall
<1>7. /\ same # {} => x \in 1..Len(heap) /\ heap[x] = entry
      /\ same = {} => \A y \in 1..Len(heap) : heap[y] # entry
  <2>1. HeapInv /\ Listed /\ p \in Int /\ s \in 0..Len(heap) /\ o \in 0..Len(heap)
    BY <1>1, <1>4 DEF IInv
  <2>2. entry = [p |-> p, s |-> s, o |-> o] /\ same = SameAs(p, s, o)
        /\ x = Of(p)[CHOOSE k \in same : \A j \in same : k <= j]
    OBVIOUS
  <2>. HIDE DEF p, entry, same, x
  <2>. QED BY <2>1, <2>2, SameFound
<1>8. CASE same # {}
  <2>1. PICK u \in DOMAIN answers : answers[u] = x
    BY <1>7, <1>8 DEF IInv, Answered
  <2>2. u = t
    BY <1>5, <1>7, <1>8, <2>1
  <2>3. answers' = With(answers, t, x) /\ heap' = heap /\ p2id' = p2id
    BY <1>8 DEF Add
  <2>. HIDE DEF x
  <2>4. answers' = [y \in DOMAIN answers |-> answers[y]]
    BY <2>1, <2>2, <2>3 DEF With
  <2>5. answers = [y \in DOMAIN answers |-> answers[y]]
    BY DEF IInv, Answered
  <2>. QED BY <2>3, <2>4, <2>5, TermsKept
<1>9. CASE same = {}
  <2>. HIDE DEF p, x, same
  <2>1. /\ heap' = Append(heap, entry)
        /\ p2id' = With(p2id, p, Append(Of(p), new))
        /\ answers' = With(answers, t, new)
    BY <1>9 DEF Add, p, same
  <2>2. t \notin DOMAIN answers /\ \A y \in 1..Len(heap) : heap[y] # entry
    BY <1>3, <1>6, <1>7, <1>9
  <2>3. entry \in Entry
    BY <1>1, <1>3, <1>4 DEF Entry, p
  <2>4. /\ heap' \in Seq(Entry) /\ Len(heap') = new /\ heap'[new] = entry
        /\ \A y \in 1..Len(heap) : heap'[y] = heap[y]
    <3>1. heap \in Seq(Entry)
      BY DEF IInv, HeapInv
    <3>. HIDE DEF entry
    <3>. QED BY <2>1, <2>3, <3>1
  <2>5. /\ DOMAIN answers' = DOMAIN answers \cup {t} /\ answers'[t] = new
        /\ \A u \in DOMAIN answers : answers'[u] = answers[u]
    BY <2>1, <2>2 DEF With
  <2>6. HeapInv'
    <3>1. \A y \in 1..Len(heap') : heap'[y].s < y /\ heap'[y].o < y
      BY <1>3, <1>4, <2>4 DEF IInv, HeapInv
    <3>2. \A y, z \in 1..Len(heap') : heap'[y] = heap'[z] => y = z
      <4>. HIDE DEF entry
      <4>1. \A y \in 1..Len(heap') : y \in 1..Len(heap) \/ y = new
        BY <1>3, <2>4
      <4>2. \A y, z \in 1..Len(heap) : heap[y] = heap[z] => y = z
        BY DEF IInv, HeapInv
      <4>. QED BY <2>2, <2>4, <4>1, <4>2
    <3>. QED BY <2>4, <3>1, <3>2 DEF HeapInv
  <2>7. Listed'
    <3>1. Of(p) \in Seq(Nat) /\ \A k \in DOMAIN Of(p) : Of(p)[k] \in 1..Len(heap) /\ heap[Of(p)[k]].p = p
      BY DEF IInv, Listed, Of
    <3>. DEFINE l == Len(Of(p))
                longer == Append(Of(p), new)
    <3>2. /\ l \in Nat /\ DOMAIN Of(p) = 1..l
          /\ longer \in Seq(Nat) /\ DOMAIN longer = 1..(l + 1) /\ longer[l + 1] = new
          /\ \A k \in 1..l : longer[k] = Of(p)[k]
      BY <1>3, <3>1
    <3>. HIDE DEF l, longer
    <3>3. /\ DOMAIN p2id' = DOMAIN p2id \cup {p} /\ p2id'[p] = longer
          /\ \A q \in DOMAIN p2id \ {p} : p2id'[q] = p2id[q]
      BY <2>1 DEF With, longer
    <3>4. heap'[new].p = p
      BY <2>4
    <3>. HIDE DEF entry
    <3>5. ASSUME NEW y \in 1..Len(heap')
          PROVE  /\ heap'[y].p \in DOMAIN p2id'
                 /\ \E k \in DOMAIN p2id'[heap'[y].p] : p2id'[heap'[y].p][k] = y
      <4>1. CASE y = new
        <5>1. l + 1 \in DOMAIN longer
          BY <3>2
        <5>. QED BY <3>2, <3>3, <3>4, <4>1, <5>1
      <4>2. CASE y \in 1..Len(heap)
        <5>1. heap'[y] = heap[y] /\ heap[y].p \in DOMAIN p2id
          BY <2>4, <4>2 DEF IInv, Listed
        <5>2. PICK k \in DOMAIN p2id[heap[y].p] : p2id[heap[y].p][k] = y
          BY <4>2 DEF IInv, Listed
        <5>3. CASE heap[y].p = p
          <6>1. Of(p) = p2id[p]
            BY <5>1, <5>3 DEF Of
          <6>2. k \in 1..l /\ k \in 1..(l + 1)
            BY <3>2, <5>2, <5>3, <6>1
          <6>. QED BY <3>2, <3>3, <5>1, <5>2, <5>3, <6>1, <6>2
        <5>4. CASE heap[y].p # p
          BY <3>3, <5>1, <5>2, <5>4
        <5>. QED BY <5>3, <5>4
      <4>. QED BY <1>3, <2>4, <4>1, <4>2
    <3>6. ASSUME NEW q \in DOMAIN p2id'
          PROVE  /\ p2id'[q] \in Seq(Nat)
                 /\ \A k \in DOMAIN p2id'[q] :
                       p2id'[q][k] \in 1..Len(heap') /\ heap'[p2id'[q][k]].p = q
      <4>1. CASE q = p
        <5>1. ASSUME NEW k \in 1..(l + 1)
              PROVE  longer[k] \in 1..Len(heap') /\ heap'[longer[k]].p = p
          <6>1. CASE k = l + 1
            BY <1>3, <2>4, <3>2, <3>4, <6>1
          <6>2. CASE k # l + 1
            <7>1. k \in 1..l
              BY <3>2, <6>2
            <7>2. longer[k] = Of(p)[k] /\ Of(p)[k] \in 1..Len(heap) /\ heap[Of(p)[k]].p = p
              BY <3>1, <3>2, <7>1
            <7>3. heap'[longer[k]] = heap[longer[k]] /\ longer[k] \in 1..Len(heap')
              BY <1>3, <2>4, <7>2
            <7>. QED BY <7>2, <7>3
          <6>. QED BY <6>1, <6>2
        <5>. QED BY <3>2, <3>3, <4>1, <5>1
      <4>2. CASE q # p
        <5>1. q \in DOMAIN p2id /\ p2id'[q] = p2id[q]
          BY <3>3, <4>2
        <5>2. /\ p2id[q] \in Seq(Nat)
              /\ \A k \in DOMAIN p2id[q] : p2id[q][k] \in 1..Len(heap) /\ heap[p2id[q][k]].p = q
          BY <5>1 DEF IInv, Listed
        <5>. QED BY <1>3, <2>4, <5>1, <5>2
      <4>. QED BY <4>1, <4>2
    <3>. QED BY <3>5, <3>6 DEF Listed
  <2>8. TermsInterned'
    <3>1. ASSUME NEW u \in DOMAIN answers', NEW v \in DOMAIN answers', answers'[u] = answers'[v]
          PROVE  u = v
      <4>1. \A w \in DOMAIN answers : answers'[w] # new
        BY <1>3, <2>5
      <4>. QED BY <2>5, <3>1, <4>1 DEF IInv, TermsInterned
    <3>. QED BY <3>1 DEF TermsInterned
  <2>9. ASSUME NEW u \in DOMAIN answers' PROVE answers'[u] \in 1..Len(heap') /\ Entered(u)'
    <3>1. CASE u = t
      <4>1. answers'[u] \in 1..Len(heap') /\ heap'[answers'[u]] = entry
        BY <1>3, <2>4, <2>5, <3>1
      <4>2. CASE t = <<n>> /\ s = 0 /\ o = 0
        BY <1>1, <3>1, <4>1, <4>2 DEF Entered, p
      <4>3. CASE \E ts, to \in DOMAIN answers : t = <<n, ts, to>> /\ s = answers[ts] /\ o = answers[to]
        <5>1. PICK ts \in DOMAIN answers, to \in DOMAIN answers :
                  t = <<n, ts, to>> /\ s = answers[ts] /\ o = answers[to]
          BY <4>3
        <5>2. ts \in DOMAIN answers' /\ to \in DOMAIN answers' /\ s = answers'[ts] /\ o = answers'[to]
          BY <2>5, <5>1
        <5>. QED BY <1>1, <3>1, <4>1, <5>1, <5>2 DEF Entered, p
      <4>. QED BY <4>1, <4>2, <4>3 DEF IsCall
    <3>2. CASE u # t
      <4>1. u \in DOMAIN answers /\ answers'[u] = answers[u] /\ answers[u] \in 1..Len(heap) /\ Entered(u)
        BY <1>3, <2>5, <3>2
      <4>2. answers'[u] \in 1..Len(heap') /\ heap'[answers'[u]] = heap[answers[u]]
        BY <1>3, <2>4, <4>1
      <4>3. CASE \E m \in DOMAIN pi : u = <<m>> /\ heap[answers[u]] = [p |-> pi[m], s |-> 0, o |-> 0]
        <5>1. PICK m \in DOMAIN pi : u = <<m>> /\ heap[answers[u]] = [p |-> pi[m], s |-> 0, o |-> 0]
          BY <4>3
        <5>2. m \in DOMAIN pi' /\ pi'[m] = pi[m]
          BY <1>1
        <5>. QED BY <4>2, <5>1, <5>2 DEF Entered
      <4>4. CASE \E m \in DOMAIN pi, a, b \in DOMAIN answers :
                    u = <<m, a, b>> /\ heap[answers[u]] = [p |-> pi[m], s |-> answers[a], o |-> answers[b]]
        <5>1. PICK m \in DOMAIN pi, a \in DOMAIN answers, b \in DOMAIN answers :
                    u = <<m, a, b>> /\ heap[answers[u]] = [p |-> pi[m], s |-> answers[a], o |-> answers[b]]
          BY <4>4
        <5>2. /\ m \in DOMAIN pi' /\ pi'[m] = pi[m]
              /\ a \in DOMAIN answers' /\ b \in DOMAIN answers'
              /\ answers'[a] = answers[a] /\ answers'[b] = answers[b]
          BY <1>1, <2>5
        <5>. QED BY <4>2, <5>1, <5>2 DEF Entered
      <4>. QED BY <4>1, <4>2, <4>3, <4>4 DEF Entered
    <3>. QED BY <3>1, <3>2
  <2>10. ASSUME NEW y \in 1..Len(heap') PROVE \E u \in DOMAIN answers' : answers'[u] = y
    <3>1. CASE y = new
      BY <2>5, <3>1
    <3>2. CASE y \in 1..Len(heap)
      BY <2>5, <3>2 DEF IInv, Answered
    <3>. QED BY <1>3, <2>4, <3>1, <3>2
  <2>11. answers' \in [DOMAIN answers' -> Nat]
    <3>1. answers' = [u \in DOMAIN answers' |-> answers'[u]]
      BY <2>1 DEF With
    <3>2. \A u \in DOMAIN answers' : answers'[u] \in Nat
      BY <2>9
    <3>. QED BY <3>1, <3>2
  <2>12. Answered'
    BY <2>9, <2>10, <2>11 DEF Answered
  <2>. QED BY <1>1, <2>5, <2>6, <2>7, <2>8, <2>12 DEF IInv
<1>. QED BY <1>8, <1>9

---------------------------------------------------------------------------

LEMMA InitIInv == Init => IInv
<1>. SUFFICES ASSUME Init PROVE IInv
  OBVIOUS
<1>1. heap = <<>> /\ DOMAIN p2id = {} /\ DOMAIN answers = {}
  BY DEF Init
<1>2. heap \in Seq(Entry) /\ Len(heap) = 0 /\ 1..Len(heap) = {}
  BY <1>1
<1>. QED BY <1>1, <1>2, InitNumbered DEF IInv, HeapInv, Listed, Answered, TermsInterned

LEMMA NextIInv ==
    IInv /\ [Next]_vars => IInv' /\ \A t \in DOMAIN answers : answers'[t] = answers[t]
<1>. SUFFICES ASSUME IInv, [Next]_vars
              PROVE  IInv' /\ \A t \in DOMAIN answers : answers'[t] = answers[t]
  OBVIOUS
<1>1. CASE \E n \in Nodes : NodeMade(n)
  BY <1>1, TermsKept DEF NodeMade
<1>2. CASE \E n \in Nodes : Make(n)
  BY <1>2, MakeStep DEF Make, IsCall
<1>3. CASE \E n \in Nodes : \E s, o \in DOMAIN answers : MakeOf(n, s, o)
  BY <1>3, MakeStep DEF MakeOf, IsCall
<1>4. CASE UNCHANGED vars
  <2>1. pi' = pi /\ ip' = ip /\ heap' = heap /\ p2id' = p2id /\ answers' = answers
    BY <1>4 DEF vars
  <2>2. Numbered' /\ HeapInv' /\ Listed' /\ TermsInterned'
    BY <2>1 DEF IInv, Numbered, Place, HeapInv, Listed, TermsInterned
  <2>3. \A t : Entered(t)' = Entered(t)
    BY <2>1 DEF Entered
  <2>4. Answered'
    BY <2>1, <2>3 DEF IInv, Answered
  <2>. QED BY <2>1, <2>2, <2>4 DEF IInv
<1>. QED BY <1>1, <1>2, <1>3, <1>4 DEF Next

LEMMA EnteredReadBack == IInv => ReadBack
<1>. SUFFICES ASSUME IInv, NEW t \in DOMAIN answers
              PROVE  LET x == heap[answers[t]]
                     IN  /\ ip[x.p] = t[1] /\ (x.p < 0 <=> t[1] \in Vars)
                         /\ IF Len(t) = 1 THEN x.s = 0 /\ x.o = 0
                            ELSE x.s = answers[t[2]] /\ x.o = answers[t[3]]
  BY DEF ReadBack
<1>1. Entered(t) /\ \A n \in DOMAIN pi : ip[pi[n]] = n /\ (pi[n] < 0 <=> n \in Vars)
  BY NumberedMeans DEF IInv, Answered, NodesNumbered
<1>2. CASE \E n \in DOMAIN pi : t = <<n>> /\ heap[answers[t]] = [p |-> pi[n], s |-> 0, o |-> 0]
  <2>1. PICK n \in DOMAIN pi : t = <<n>> /\ heap[answers[t]] = [p |-> pi[n], s |-> 0, o |-> 0]
    BY <1>2
  <2>2. Len(t) = 1 /\ t[1] = n
    BY <2>1
  <2>. QED BY <1>1, <2>1, <2>2
<1>3. CASE \E n \in DOMAIN pi, s, o \in DOMAIN answers :
              t = <<n, s, o>> /\ heap[answers[t]] = [p |-> pi[n], s |-> answers[s], o |-> answers[o]]
  <2>1. PICK n \in DOMAIN pi, s \in DOMAIN answers, o \in DOMAIN answers :
              t = <<n, s, o>> /\ heap[answers[t]] = [p |-> pi[n], s |-> answers[s], o |-> answers[o]]
    BY <1>3
  <2>2. Len(t) = 3 /\ t[1] = n /\ t[2] = s /\ t[3] = o
    BY <2>1
  <2>. QED BY <1>1, <2>1, <2>2
<1>. QED BY <1>1, <1>2, <1>3 DEF Entered

\* For any nodes, whatever order they are met in: no two have one number, and
\* the numbers of variables are the negative ones.
THEOREM NodesNumberedAlways == Spec => []NodesNumbered
<1>1. IInv => NodesNumbered
  BY NumberedMeans DEF IInv
<1>. QED BY <1>1, InitIInv, NextIInv, PTL DEF Spec

\* For any terms, made in any order and any number of times: the addresses of
\* different terms are different,
THEOREM TermsInternedAlways == Spec => []TermsInterned
<1>1. IInv => TermsInterned
  BY DEF IInv
<1>. QED BY <1>1, InitIInv, NextIInv, PTL DEF Spec

\* a term that is made again has its address again,
THEOREM AddressesStayAlways == Spec => AddressesStay
<1>. QED BY InitIInv, NextIInv, PTL DEF Spec, AddressesStay

\* and what is read there is the term.
THEOREM ReadBackAlways == Spec => []ReadBack
<1>. QED BY InitIInv, NextIInv, EnteredReadBack, PTL DEF Spec
=============================================================================
