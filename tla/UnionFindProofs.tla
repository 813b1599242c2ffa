--------------------------- MODULE UnionFindProofs ---------------------------
(***************************************************************************)
(* The union-find on persistent arrays, for every number of elements and   *)
(* of versions: a client that always uses the version it got last has a    *)
(* union-find, and the ranks bound the paths.                              *)
(***************************************************************************)
EXTENDS UnionFind, FiniteSetTheorems, WellFoundedInduction, TLAPS

---------------------------------------------------------------------------
(* Induction.                                                              *)

\* Along a measure, for the members of a set.
LEMMA MeasureInduction ==
    ASSUME NEW D, NEW m, \A c \in D : m[c] \in Nat, NEW S,
           \A c \in D : (\A b \in D : m[b] < m[c] => b \in S) => c \in S
    PROVE  \A c \in D : c \in S
<1>. DEFINE rest == {m[c] : c \in {c \in D : c \notin S}}
<1>. SUFFICES ASSUME NEW a \in D, a \notin S PROVE FALSE
  OBVIOUS
<1>1. m[a] \in rest
  OBVIOUS
<1>2. rest \in SUBSET Nat
  OBVIOUS
<1>3. PICK n \in rest : \A x \in rest : <<x, n>> \notin OpToRel(<, Nat)
  <2>. HIDE DEF rest
  <2>. QED BY <1>1, <1>2, NatLessThanWellFounded, WFMin
<1>4. \A x \in rest : ~(x < n)
  BY <1>2, <1>3 DEF OpToRel
<1>5. PICK c \in D : c \notin S /\ n = m[c]
  BY <1>3
<1>6. \A b \in D : m[b] < m[c] => b \in S
  BY <1>4, <1>5
<1>. QED BY <1>5, <1>6

LEMMA NumberInduction ==
    ASSUME NEW S, 0 \in S, \A n \in Nat : n \in S => n + 1 \in S
    PROVE  \A n \in Nat : n \in S
<1>. DEFINE id == [n \in Nat |-> n]
<1>1. ASSUME NEW n \in Nat, \A k \in Nat : id[k] < id[n] => k \in S
      PROVE  n \in S
  <2>1. CASE n = 0
    BY <2>1
  <2>2. CASE n # 0
    <3>1. n - 1 \in Nat /\ id[n - 1] < id[n] /\ (n - 1) + 1 = n
      BY <2>2
    <3>2. n - 1 \in S
      BY <1>1, <3>1
    <3>3. (n - 1) + 1 \in S
      BY <3>1, <3>2
    <3>. QED BY <3>1, <3>3
  <2>. QED BY <2>1, <2>2
<1>2. \A n \in Nat : id[n] \in Nat
  OBVIOUS
<1>. HIDE DEF id
<1>. QED BY <1>1, <1>2, MeasureInduction

---------------------------------------------------------------------------
(* Heaps.                                                                  *)

Held == Elements \cup Nat
CellsOver(P) ==
    [isdiff : {FALSE}, a : [Elements -> Held]]
        \cup [isdiff : {TRUE}, i : Elements, v : Held, t : P]
Cells(H) == H \in Seq(CellsOver(DOMAIN H))

\* The differences lead to an array.
Falls(H, k, m) ==
    /\ m \in [DOMAIN H -> 0..k]
    /\ \A c \in DOMAIN H : H[c].isdiff => m[H[c].t] < m[c]
Ranked(H) == \E k \in Nat : \E m : Falls(H, k, m)

\* What the cells stand for.
Stands(H, con) ==
    \A c \in DOMAIN H :
        con[c] = IF H[c].isdiff THEN [con[H[c].t] EXCEPT ![H[c].i] = H[c].v] ELSE H[c].a

\* No difference leads into A or out of it.
Split(H, A) == \A c \in DOMAIN H : H[c].isdiff => (c \in A <=> H[c].t \in A)

Well(H, A) == Cells(H) /\ Ranked(H) /\ Split(H, A)

\* A cell of a heap, read.
LEMMA CellOf ==
    ASSUME NEW H, Cells(H)
    PROVE  /\ DOMAIN H = 1..Len(H) /\ Len(H) \in Nat
           /\ \A c \in DOMAIN H :
                /\ H[c].isdiff \in BOOLEAN
                /\ H[c].isdiff => H[c].i \in Elements /\ H[c].v \in Held /\ H[c].t \in DOMAIN H
                /\ ~H[c].isdiff => H[c] = Array(H[c].a) /\ H[c].a \in [Elements -> Held]
<1>1. DOMAIN H = 1..Len(H) /\ Len(H) \in Nat
  BY DEF Cells
<1>. SUFFICES ASSUME NEW c \in DOMAIN H
              PROVE  /\ H[c].isdiff \in BOOLEAN
                     /\ H[c].isdiff => H[c].i \in Elements /\ H[c].v \in Held /\ H[c].t \in DOMAIN H
                     /\ ~H[c].isdiff => H[c] = Array(H[c].a) /\ H[c].a \in [Elements -> Held]
  BY <1>1
<1>2. H[c] \in CellsOver(DOMAIN H)
  BY DEF Cells
<1>3. CASE H[c] \in [isdiff : {FALSE}, a : [Elements -> Held]]
  BY <1>3 DEF Array
<1>4. CASE H[c] \in [isdiff : {TRUE}, i : Elements, v : Held, t : DOMAIN H]
  BY <1>4
<1>. QED BY <1>2, <1>3, <1>4 DEF CellsOver

\* The recursion of ContentsOf ends.
LEMMA ContentsExist ==
    ASSUME NEW H, Cells(H), Ranked(H)
    PROVE  Stands(H, ContentsOf(H))
<1>. DEFINE D == DOMAIN H
            e(g, c) == IF H[c].isdiff THEN [g[H[c].t] EXCEPT ![H[c].i] = H[c].v] ELSE H[c].a
<1>. PICK k \in Nat : \E m : Falls(H, k, m)
  BY DEF Ranked
<1>1. PICK m : Falls(H, k, m)
  OBVIOUS
<1>2. \A c \in D : m[c] \in 0..k /\ (H[c].isdiff => H[c].t \in D /\ m[H[c].t] < m[c])
  BY <1>1, CellOf DEF Falls
<1>. DEFINE Below(n) == {c \in D : m[c] < n}
            S == {n \in Nat : \E g : g = [c \in Below(n) |-> e(g, c)]}
<1>3. 0 \in S
  <2>1. Below(0) = {}
    BY <1>2
  <2>. DEFINE g == [c \in {} |-> 0]
  <2>2. g = [c \in Below(0) |-> e(g, c)]
    BY <2>1
  <2>. QED BY <2>2
<1>4. ASSUME NEW n \in Nat, n \in S
      PROVE  n + 1 \in S
  <2>1. PICK g : g = [c \in Below(n) |-> e(g, c)]
    BY <1>4
  <2>. DEFINE h == [c \in Below(n + 1) |-> e(g, c)]
  <2>2. ASSUME NEW c \in Below(n + 1)
        PROVE  e(g, c) = e(h, c)
    <3>1. CASE H[c].isdiff
      <4>1. H[c].t \in Below(n) /\ H[c].t \in Below(n + 1)
        BY <1>2, <3>1
      <4>2. h[H[c].t] = g[H[c].t]
        BY <2>1, <4>1
      <4>. QED BY <4>2
    <3>2. CASE ~H[c].isdiff
      BY <3>2
    <3>. QED BY <3>1, <3>2
  <2>3. h = [c \in Below(n + 1) |-> e(h, c)]
    BY <2>2
  <2>4. \E f : f = [c \in Below(n + 1) |-> e(f, c)]
    <3>. HIDE DEF h, Below
    <3>. QED BY <2>3
  <2>. HIDE DEF Below, e
  <2>. QED BY <2>4
<1>5. k + 1 \in S
  <2>. HIDE DEF S
  <2>. QED BY <1>3, <1>4, NumberInduction
<1>6. Below(k + 1) = D
  <2>1. \A c \in D : m[c] < k + 1
    BY <1>2
  <2>. HIDE DEF D
  <2>. QED BY <2>1
<1>7. \E g : g = [c \in D |-> e(g, c)]
  BY <1>5, <1>6
<1>8. ContentsOf(H) = [c \in D |-> e(ContentsOf(H), c)]
  BY <1>7 DEF ContentsOf
<1>. QED BY <1>8 DEF Stands

\* What cells stand for is determined by what they lead to.
LEMMA ContentsAgree ==
    ASSUME NEW H, Cells(H), Ranked(H), NEW con, Stands(H, con),
           NEW G, NEW new, Stands(G, new),
           NEW B, B \subseteq DOMAIN H, B \subseteq DOMAIN G,
           \A c \in B : G[c] = H[c] /\ (H[c].isdiff => H[c].t \in B)
    PROVE  \A c \in B : new[c] = con[c]
<1>. PICK k \in Nat : \E m : Falls(H, k, m)
  BY DEF Ranked
<1>1. PICK m : Falls(H, k, m)
  OBVIOUS
<1>2. \A c \in B : m[c] \in Nat
  BY <1>1 DEF Falls
<1>. DEFINE S == {c \in B : new[c] = con[c]}
<1>3. ASSUME NEW c \in B, \A b \in B : m[b] < m[c] => b \in S
      PROVE  c \in S
  <2>1. CASE H[c].isdiff
    <3>1. H[c].t \in S
      BY <1>1, <1>3, <2>1 DEF Falls
    <3>2. con[c] = [con[H[c].t] EXCEPT ![H[c].i] = H[c].v]
      BY <2>1 DEF Stands
    <3>3. new[c] = [new[H[c].t] EXCEPT ![H[c].i] = H[c].v]
      <4>1. c \in DOMAIN G /\ G[c] = H[c]
        OBVIOUS
      <4>. HIDE DEF S
      <4>. QED BY <2>1, <4>1 DEF Stands
    <3>. QED BY <3>1, <3>2, <3>3
  <2>2. CASE ~H[c].isdiff
    <3>1. c \in DOMAIN G /\ G[c] = H[c]
      OBVIOUS
    <3>2. new[c] = con[c]
      <4>. HIDE DEF S
      <4>. QED BY <2>2, <3>1 DEF Stands
    <3>. QED BY <3>2
  <2>. QED BY <2>1, <2>2
<1>4. \A c \in B : c \in S
  <2>. HIDE DEF S
  <2>. QED BY <1>2, <1>3, MeasureInduction
<1>. QED BY <1>4

\* Any reading of the cells is what they stand for.
LEMMA ContentsAre ==
    ASSUME NEW H, Cells(H), Ranked(H), NEW con, Stands(H, con)
    PROVE  \A c \in DOMAIN H : ContentsOf(H)[c] = con[c]
<1>1. Stands(H, ContentsOf(H))
  BY ContentsExist
<1>2. \A c \in DOMAIN H : H[c].isdiff => H[c].t \in DOMAIN H
  BY CellOf
<1>. HIDE DEF ContentsOf
<1>. QED BY <1>1, <1>2, ContentsAgree

---------------------------------------------------------------------------
(* reroot.                                                                 *)

LEMMA SwapCells ==
    ASSUME NEW H, Cells(H), NEW c \in DOMAIN H, NEW d,
           H[c] = d, d.isdiff, ~H[d.t].isdiff, NEW S, S = Swap(H, c, d)
    PROVE  /\ Cells(S) /\ DOMAIN S = DOMAIN H /\ c # d.t
           /\ S[c] = Array([H[d.t].a EXCEPT ![d.i] = d.v])
           /\ S[d.t] = Diff(d.i, H[d.t].a[d.i], c)
           /\ \A b \in DOMAIN H \ {c, d.t} : S[b] = H[b]
<1>1. d.i \in Elements /\ d.v \in Held /\ d.t \in DOMAIN H
  BY CellOf
<1>2. H[d.t].a \in [Elements -> Held] /\ DOMAIN H = 1..Len(H) /\ Len(H) \in Nat
  BY <1>1, CellOf
<1>. DEFINE new == [H[d.t].a EXCEPT ![d.i] = d.v]
            old == H[d.t].a[d.i]
<1>3. new \in [Elements -> Held] /\ old \in Held
  BY <1>1, <1>2
<1>4. Array(new) \in CellsOver(DOMAIN H) /\ Diff(d.i, old, c) \in CellsOver(DOMAIN H)
  BY <1>1, <1>3 DEF Array, Diff, CellsOver
<1>5. H \in Seq(CellsOver(DOMAIN H)) /\ c # d.t
  BY DEF Cells
<1>. HIDE DEF new, old
<1>6. S = [H EXCEPT ![c] = Array(new), ![d.t] = Diff(d.i, old, c)]
  BY DEF Swap, new, old
<1>7. S \in Seq(CellsOver(DOMAIN H)) /\ DOMAIN S = DOMAIN H
  BY <1>1, <1>2, <1>4, <1>5, <1>6
<1>8. S[c] = Array(new) /\ S[d.t] = Diff(d.i, old, c) /\ \A b \in DOMAIN H \ {c, d.t} : S[b] = H[b]
  BY <1>1, <1>5, <1>6
<1>. QED BY <1>5, <1>7, <1>8 DEF Cells, new, old

\* Both cells of a swap stand for what they stood for.
LEMMA SwapWell ==
    ASSUME NEW H, NEW A, Well(H, A), NEW c \in DOMAIN H, NEW d,
           H[c] = d, d.isdiff, ~H[d.t].isdiff, NEW S, S = Swap(H, c, d)
    PROVE  /\ Well(S, A) /\ DOMAIN S = DOMAIN H /\ ~S[c].isdiff
           /\ \A b \in DOMAIN H : ContentsOf(S)[b] = ContentsOf(H)[b]
           /\ \A b \in DOMAIN H \ {c, d.t} : S[b] = H[b]
<1>1. /\ Cells(S) /\ DOMAIN S = DOMAIN H /\ c # d.t
      /\ S[c] = Array([H[d.t].a EXCEPT ![d.i] = d.v])
      /\ S[d.t] = Diff(d.i, H[d.t].a[d.i], c)
      /\ \A b \in DOMAIN H \ {c, d.t} : S[b] = H[b]
  BY SwapCells DEF Well
<1>2. /\ ~S[c].isdiff /\ S[c].a = [H[d.t].a EXCEPT ![d.i] = d.v]
      /\ S[d.t].isdiff /\ S[d.t].t = c /\ S[d.t].i = d.i /\ S[d.t].v = H[d.t].a[d.i]
  BY <1>1 DEF Array, Diff
<1>3. /\ d.i \in Elements /\ d.t \in DOMAIN H /\ H[d.t].a \in [Elements -> Held]
      /\ \A b \in DOMAIN H : H[b].isdiff => H[b].t \in DOMAIN H
  BY CellOf DEF Well
<1>4. Split(S, A)
  <2>. SUFFICES ASSUME NEW b \in DOMAIN H, S[b].isdiff PROVE b \in A <=> S[b].t \in A
    BY <1>1 DEF Split
  <2>1. c \in A <=> d.t \in A
    BY DEF Well, Split
  <2>2. CASE b = d.t
    BY <1>2, <2>1, <2>2
  <2>3. CASE b # d.t
    <3>1. S[b] = H[b]
      BY <1>1, <1>2, <2>3
    <3>. QED BY <3>1 DEF Well, Split
  <2>. QED BY <2>2, <2>3
<1>5. Ranked(S)
  <2>. PICK k \in Nat : \E m : Falls(H, k, m)
    BY DEF Well, Ranked
  <2>1. PICK m : Falls(H, k, m)
    OBVIOUS
  <2>. DEFINE n == [b \in DOMAIN H |-> IF b = c THEN 0 ELSE m[b] + 1]
  <2>2. n \in [DOMAIN H -> 0..(k + 1)]
    BY <2>1 DEF Falls
  <2>3. ASSUME NEW b \in DOMAIN H, S[b].isdiff
        PROVE  n[S[b].t] < n[b]
    <3>1. b # c
      BY <1>2, <2>3
    <3>2. m[b] \in 0..k
      BY <2>1 DEF Falls
    <3>3. CASE b = d.t
      <4>1. n[S[b].t] = 0 /\ n[b] = m[b] + 1
        BY <1>2, <3>1, <3>3
      <4>. QED BY <3>2, <4>1
    <3>4. CASE b # d.t
      <4>1. S[b] = H[b] /\ S[b].t \in DOMAIN H /\ m[S[b].t] < m[b] /\ m[S[b].t] \in 0..k
        BY <1>1, <1>3, <2>1, <2>3, <3>1, <3>4 DEF Falls
      <4>. QED BY <3>1, <3>2, <4>1
    <3>. QED BY <3>3, <3>4
  <2>4. Falls(S, k + 1, n)
    <3>. HIDE DEF n
    <3>. QED BY <1>1, <2>2, <2>3 DEF Falls
  <2>. QED BY <2>4 DEF Ranked
<1>6. Stands(S, ContentsOf(H))
  <2>1. Stands(H, ContentsOf(H))
    BY ContentsExist DEF Well
  <2>2. PICK con : con = ContentsOf(H)
    OBVIOUS
  <2>3. con[d.t] = H[d.t].a /\ con[c] = [con[d.t] EXCEPT ![d.i] = d.v]
    BY <1>3, <2>1, <2>2 DEF Stands
  <2>4. con[d.t] = [con[c] EXCEPT ![d.i] = H[d.t].a[d.i]]
    BY <1>3, <2>3
  <2>. SUFFICES ASSUME NEW b \in DOMAIN H
                PROVE  con[b] = IF S[b].isdiff THEN [con[S[b].t] EXCEPT ![S[b].i] = S[b].v] ELSE S[b].a
    BY <1>1, <2>2 DEF Stands
  <2>5. CASE b = c
    BY <1>2, <2>3, <2>5
  <2>6. CASE b = d.t
    BY <1>2, <2>4, <2>6
  <2>7. CASE b # c /\ b # d.t
    BY <1>1, <2>1, <2>2, <2>7 DEF Stands
  <2>. QED BY <2>5, <2>6, <2>7
<1>7. \A b \in DOMAIN H : ContentsOf(S)[b] = ContentsOf(H)[b]
  BY <1>1, <1>5, <1>6, ContentsAre
<1>. QED BY <1>1, <1>2, <1>4, <1>5, <1>7 DEF Well

\* The recursion of reroot ends.
LEMMA RerootUnfolds ==
    ASSUME NEW H, Cells(H), Ranked(H)
    PROVE  \A t \in DOMAIN H :
              Reroot(H, t) = IF ~H[t].isdiff THEN H ELSE Swap(Reroot(H, H[t].t), t, H[t])
<1>. DEFINE D == DOMAIN H
            e(g, c) == IF ~H[c].isdiff THEN H ELSE Swap(g[H[c].t], c, H[c])
<1>. PICK k \in Nat : \E m : Falls(H, k, m)
  BY DEF Ranked
<1>1. PICK m : Falls(H, k, m)
  OBVIOUS
<1>2. \A c \in D : m[c] \in 0..k /\ (H[c].isdiff => H[c].t \in D /\ m[H[c].t] < m[c])
  BY <1>1, CellOf DEF Falls
<1>. DEFINE Below(n) == {c \in D : m[c] < n}
            S == {n \in Nat : \E g : g = [c \in Below(n) |-> e(g, c)]}
<1>3. 0 \in S
  <2>1. Below(0) = {}
    BY <1>2
  <2>. DEFINE g == [c \in {} |-> 0]
  <2>2. g = [c \in Below(0) |-> e(g, c)]
    BY <2>1
  <2>. QED BY <2>2
<1>4. ASSUME NEW n \in Nat, n \in S
      PROVE  n + 1 \in S
  <2>1. PICK g : g = [c \in Below(n) |-> e(g, c)]
    BY <1>4
  <2>. DEFINE h == [c \in Below(n + 1) |-> e(g, c)]
  <2>2. ASSUME NEW c \in Below(n + 1)
        PROVE  e(g, c) = e(h, c)
    <3>1. CASE H[c].isdiff
      <4>1. H[c].t \in Below(n) /\ H[c].t \in Below(n + 1)
        BY <1>2, <3>1
      <4>2. h[H[c].t] = g[H[c].t]
        BY <2>1, <4>1
      <4>. QED BY <4>2
    <3>2. CASE ~H[c].isdiff
      BY <3>2
    <3>. QED BY <3>1, <3>2
  <2>3. h = [c \in Below(n + 1) |-> e(h, c)]
    BY <2>2
  <2>4. \E f : f = [c \in Below(n + 1) |-> e(f, c)]
    <3>. HIDE DEF h, Below
    <3>. QED BY <2>3
  <2>. HIDE DEF Below, e
  <2>. QED BY <2>4
<1>5. k + 1 \in S
  <2>. HIDE DEF S
  <2>. QED BY <1>3, <1>4, NumberInduction
<1>6. Below(k + 1) = D
  <2>1. \A c \in D : m[c] < k + 1
    BY <1>2
  <2>. HIDE DEF D
  <2>. QED BY <2>1
<1>7. \E g : g = [c \in D |-> e(g, c)]
  BY <1>5, <1>6
<1>. DEFINE rerooted == CHOOSE g : g = [c \in D |-> e(g, c)]
<1>8. rerooted = [c \in D |-> e(rerooted, c)]
  BY <1>7
<1>9. \A t \in D : Reroot(H, t) = rerooted[t]
  BY DEF Reroot
<1>10. \A t \in D : H[t].isdiff => H[t].t \in D
  BY <1>2
<1>. HIDE DEF rerooted
<1>. QED BY <1>8, <1>9, <1>10

\* reroot makes t the array, and no cell stands for anything else.
LEMMA RerootWell ==
    ASSUME NEW H, NEW A, Well(H, A), NEW t \in DOMAIN H, NEW R, R = Reroot(H, t)
    PROVE  /\ Well(R, A) /\ DOMAIN R = DOMAIN H
           /\ ~R[t].isdiff /\ R[t] = Array(ContentsOf(H)[t])
           /\ \A b \in DOMAIN H : ContentsOf(R)[b] = ContentsOf(H)[b]
<1>. PICK k \in Nat : \E m : Falls(H, k, m)
  BY DEF Well, Ranked
<1>1. PICK m : Falls(H, k, m)
  OBVIOUS
<1>2. \A c \in DOMAIN H : m[c] \in Nat /\ (H[c].isdiff => H[c].t \in DOMAIN H /\ m[H[c].t] < m[c])
  BY <1>1, CellOf DEF Falls, Well
<1>. DEFINE Kept(G, c) ==
                /\ Well(G, A) /\ DOMAIN G = DOMAIN H /\ ~G[c].isdiff
                /\ \A b \in DOMAIN H : ContentsOf(G)[b] = ContentsOf(H)[b]
                /\ \A b \in DOMAIN H : m[c] < m[b] => G[b] = H[b]
            S == {c \in DOMAIN H : Kept(Reroot(H, c), c)}
<1>3. ASSUME NEW c \in DOMAIN H, \A b \in DOMAIN H : m[b] < m[c] => b \in S
      PROVE  c \in S
  <2>1. CASE ~H[c].isdiff
    <3>1. Reroot(H, c) = H
      BY <2>1, RerootUnfolds DEF Well
    <3>. QED BY <2>1, <3>1
  <2>2. CASE H[c].isdiff
    <3>0. PICK d : d = H[c]
      OBVIOUS
    <3>1. d.t \in DOMAIN H /\ m[d.t] < m[c] /\ d.t \in S
      BY <1>2, <1>3, <2>2, <3>0
    <3>2. PICK G : G = Reroot(H, d.t) /\ Kept(G, d.t)
      BY <3>1
    <3>3. G[c] = d
      BY <3>0, <3>1, <3>2
    <3>4. PICK T : T = Swap(G, c, d) /\ T = Reroot(H, c)
      BY <2>2, <3>0, <3>2, RerootUnfolds DEF Well
    <3>5. /\ Well(T, A) /\ DOMAIN T = DOMAIN G /\ ~T[c].isdiff
          /\ \A b \in DOMAIN G : ContentsOf(T)[b] = ContentsOf(G)[b]
          /\ \A b \in DOMAIN G \ {c, d.t} : T[b] = G[b]
      <4>1. d.isdiff /\ c \in DOMAIN G /\ ~G[d.t].isdiff /\ Well(G, A)
        BY <2>2, <3>0, <3>2
      <4>2. T = Swap(G, c, d)
        BY <3>4
      <4>. HIDE DEF S, Kept
      <4>. QED BY ONLY <3>3, <4>1, <4>2, SwapWell
    <3>6. ASSUME NEW b \in DOMAIN H, m[c] < m[b]
          PROVE  T[b] = H[b]
      <4>1. m[b] \in Nat /\ m[c] \in Nat /\ m[d.t] \in Nat
        BY <1>2, <3>1
      <4>2. m[d.t] < m[b] /\ b # c /\ b # d.t
        BY <3>1, <3>6, <4>1
      <4>. QED BY <3>2, <3>5, <4>2
    <3>7. Kept(T, c)
      BY <3>2, <3>5, <3>6
    <3>. QED BY <3>4, <3>7
  <2>. QED BY <2>1, <2>2
<1>4. \A c \in DOMAIN H : c \in S
  <2>. HIDE DEF S
  <2>. QED BY <1>2, <1>3, MeasureInduction
<1>5. Kept(R, t)
  BY <1>4
<1>6. R[t] = Array(R[t].a) /\ R[t].a = ContentsOf(R)[t]
  BY <1>5, CellOf, ContentsExist DEF Well, Stands
<1>. QED BY <1>5, <1>6

\* Rerooting an array changes nothing.
LEMMA RerootArray ==
    ASSUME NEW H, Cells(H), Ranked(H), NEW t \in DOMAIN H, ~H[t].isdiff
    PROVE  Reroot(H, t) = H
BY RerootUnfolds

---------------------------------------------------------------------------
(* get and set.                                                            *)

LEMMA GetWell ==
    ASSUME NEW H, NEW A, Well(H, A), NEW t \in DOMAIN H, NEW i
    PROVE  /\ Get(H, t, i).value = ContentsOf(H)[t][i]
           /\ Get(H, t, i).heap = Reroot(H, t)
<1>1. PICK R : R = Reroot(H, t)
  OBVIOUS
<1>2. R[t].a = ContentsOf(H)[t]
  <2>1. R[t] = Array(ContentsOf(H)[t])
    BY <1>1, RerootWell
  <2>. HIDE DEF ContentsOf
  <2>. QED BY <2>1 DEF Array
<1>. QED BY <1>1, <1>2 DEF Get

\* The cell written to becomes the difference from a new one.
LEMMA StoreCells ==
    ASSUME NEW H, Cells(H), NEW c \in DOMAIN H, ~H[c].isdiff,
           NEW i \in Elements, NEW v \in Held, H[c].a[i] # v,
           NEW S, S = Store(H, c, i, v), NEW new, new = Len(H) + 1
    PROVE  /\ Cells(S.heap) /\ S.cell = new
           /\ DOMAIN S.heap = DOMAIN H \cup {new} /\ new \notin DOMAIN H /\ Len(S.heap) = new
           /\ S.heap[c] = Diff(i, H[c].a[i], new)
           /\ S.heap[new] = Array([H[c].a EXCEPT ![i] = v])
           /\ \A b \in DOMAIN H \ {c} : S.heap[b] = H[b]
<1>. DEFINE D == DOMAIN H \cup {new}
<1>1. /\ H[c].a \in [Elements -> Held] /\ DOMAIN H = 1..Len(H) /\ Len(H) \in Nat
      /\ D = 1..new /\ new \notin DOMAIN H
  <2>1. H[c].a \in [Elements -> Held] /\ DOMAIN H = 1..Len(H) /\ Len(H) \in Nat
    BY CellOf
  <2>. QED BY <2>1
<1>2. PICK a, old : /\ a = [H[c].a EXCEPT ![i] = v] /\ a \in [Elements -> Held]
                    /\ old = H[c].a[i] /\ old \in Held
  <2>1. [H[c].a EXCEPT ![i] = v] \in [Elements -> Held] /\ H[c].a[i] \in Held
    BY <1>1
  <2>. QED BY <2>1
<1>. DEFINE diff == Diff(i, old, new)
<1>3. Array(a) \in CellsOver(D) /\ diff \in CellsOver(D)
  BY <1>2 DEF Array, Diff, CellsOver
<1>. HIDE DEF diff
<1>4. H \in Seq(CellsOver(D))
  <2>1. \A k \in 1..Len(H) : H[k] \in CellsOver(D)
    <3>1. \A k \in 1..Len(H) : H[k] \in CellsOver(DOMAIN H)
      BY DEF Cells
    <3>2. CellsOver(DOMAIN H) \subseteq CellsOver(D)
      BY DEF CellsOver
    <3>. HIDE DEF D
    <3>. QED BY <3>1, <3>2
  <2>2. H = [k \in 1..Len(H) |-> H[k]]
    BY DEF Cells
  <2>. HIDE DEF D
  <2>. QED BY <1>1, <2>1, <2>2
<1>. HIDE DEF D
<1>5. PICK T : T = [H EXCEPT ![c] = diff]
  OBVIOUS
<1>6. T \in Seq(CellsOver(D)) /\ Len(T) = Len(H) /\ DOMAIN T = DOMAIN H
  BY <1>1, <1>3, <1>4, <1>5
<1>7. S.heap = Append(T, Array(a)) /\ S.cell = new
  BY <1>2, <1>5 DEF Store, diff
<1>8. S.heap \in Seq(CellsOver(D)) /\ Len(S.heap) = new /\ DOMAIN S.heap = D
  BY <1>1, <1>3, <1>6, <1>7
<1>9. S.heap[new] = Array(a) /\ \A b \in DOMAIN H : S.heap[b] = T[b]
  BY <1>1, <1>6, <1>7
<1>10. T[c] = diff /\ \A b \in DOMAIN H \ {c} : T[b] = H[b]
  BY <1>1, <1>4, <1>5
<1>. QED BY <1>1, <1>2, <1>7, <1>8, <1>9, <1>10 DEF Cells, D, diff

LEMMA StoreWell ==
    ASSUME NEW H, NEW A, Well(H, A), NEW c \in DOMAIN H, ~H[c].isdiff,
           NEW i \in Elements, NEW v \in Held, NEW S, S = Store(H, c, i, v)
    PROVE  /\ DOMAIN H \subseteq DOMAIN S.heap /\ S.cell \in DOMAIN S.heap
           /\ \A b \in DOMAIN H : ContentsOf(S.heap)[b] = ContentsOf(H)[b]
           /\ ContentsOf(S.heap)[S.cell] = [ContentsOf(H)[c] EXCEPT ![i] = v]
           /\ \E B : /\ Well(S.heap, B) /\ (S.cell \in B <=> c \in A)
                     /\ \A b \in DOMAIN H : b \in B <=> b \in A
<1>0. PICK con : con = ContentsOf(H) /\ Stands(H, con)
  BY ContentsExist DEF Well
<1>1. con[c] = H[c].a /\ H[c].a \in [Elements -> Held]
  BY <1>0, CellOf DEF Stands, Well
<1>2. CASE H[c].a[i] = v
  <2>1. S.heap = H /\ S.cell = c
    BY <1>2 DEF Store
  <2>2. con[c] = [con[c] EXCEPT ![i] = v]
    BY <1>1, <1>2
  <2>. QED BY <1>0, <2>1, <2>2
<1>3. CASE H[c].a[i] # v
  <2>1. PICK new, G : new = Len(H) + 1 /\ G = S.heap
    OBVIOUS
  <2>2. /\ Cells(G) /\ S.cell = new /\ DOMAIN G = DOMAIN H \cup {new} /\ new \notin DOMAIN H
        /\ G[c] = Diff(i, H[c].a[i], new)
        /\ G[new] = Array([H[c].a EXCEPT ![i] = v])
        /\ \A b \in DOMAIN H \ {c} : G[b] = H[b]
    BY <1>3, <2>1, StoreCells DEF Well
  <2>3. /\ G[c].isdiff /\ G[c].i = i /\ G[c].v = H[c].a[i] /\ G[c].t = new
        /\ ~G[new].isdiff /\ G[new].a = [H[c].a EXCEPT ![i] = v]
    BY <2>2 DEF Array, Diff
  <2>4. \A b \in DOMAIN H : H[b].isdiff => H[b].t \in DOMAIN H
    BY CellOf DEF Well
  <2>. DEFINE B == IF c \in A THEN (A \cap DOMAIN H) \cup {new} ELSE A \cap DOMAIN H
  <2>5. (new \in B <=> c \in A) /\ \A b \in DOMAIN H : b \in B <=> b \in A
    BY <2>2
  <2>. HIDE DEF B
  <2>6. Split(G, B)
    <3>. SUFFICES ASSUME NEW b \in DOMAIN G, G[b].isdiff PROVE b \in B <=> G[b].t \in B
      BY DEF Split
    <3>1. CASE b = c
      BY <2>3, <2>5, <3>1
    <3>2. CASE b # c
      <4>1. b \in DOMAIN H /\ G[b] = H[b]
        BY <2>2, <2>3, <3>2
      <4>. QED BY <2>4, <2>5, <4>1 DEF Well, Split
    <3>. QED BY <3>1, <3>2
  <2>7. Ranked(G)
    <3>. PICK k \in Nat : \E m : Falls(H, k, m)
      BY DEF Well, Ranked
    <3>1. PICK m : Falls(H, k, m)
      OBVIOUS
    <3>. DEFINE n == [b \in DOMAIN G |-> IF b = new THEN 0 ELSE m[b] + 1]
    <3>2. \A b \in DOMAIN H : m[b] \in 0..k
      BY <3>1 DEF Falls
    <3>3. n \in [DOMAIN G -> 0..(k + 1)]
      BY <2>2, <3>2
    <3>4. ASSUME NEW b \in DOMAIN G, G[b].isdiff
          PROVE  n[G[b].t] < n[b]
      <4>1. b # new /\ b \in DOMAIN H
        BY <2>2, <2>3, <3>4
      <4>2. CASE b = c
        BY <2>2, <2>3, <3>2, <4>1, <4>2
      <4>3. CASE b # c
        <5>1. G[b] = H[b] /\ G[b].t \in DOMAIN H /\ G[b].t # new /\ m[G[b].t] < m[b]
          BY <2>2, <2>4, <3>1, <3>4, <4>1, <4>3 DEF Falls
        <5>. QED BY <2>2, <3>2, <4>1, <5>1
      <4>. QED BY <4>2, <4>3
    <3>5. Falls(G, k + 1, n)
      <4>. HIDE DEF n
      <4>. QED BY <3>3, <3>4 DEF Falls
    <3>. QED BY <3>5 DEF Ranked
  <2>8. PICK more : more = [b \in DOMAIN G |-> IF b = new THEN [con[c] EXCEPT ![i] = v] ELSE con[b]]
    OBVIOUS
  <2>9. more[new] = [con[c] EXCEPT ![i] = v] /\ \A b \in DOMAIN H : more[b] = con[b]
    BY <2>2, <2>8
  <2>10. Stands(G, more)
    <3>. SUFFICES ASSUME NEW b \in DOMAIN G
                  PROVE  more[b] = IF G[b].isdiff THEN [more[G[b].t] EXCEPT ![G[b].i] = G[b].v] ELSE G[b].a
      BY DEF Stands
    <3>1. CASE b = new
      BY <1>1, <2>3, <2>9, <3>1
    <3>2. CASE b = c
      <4>1. con[c] = [more[new] EXCEPT ![i] = H[c].a[i]]
        BY <1>1, <2>9
      <4>. QED BY <2>3, <2>9, <3>2, <4>1
    <3>3. CASE b # new /\ b # c
      <4>1. b \in DOMAIN H /\ G[b] = H[b] /\ (H[b].isdiff => more[H[b].t] = con[H[b].t])
        BY <2>2, <2>4, <2>9, <3>3
      <4>2. con[b] = IF H[b].isdiff THEN [con[H[b].t] EXCEPT ![H[b].i] = H[b].v] ELSE H[b].a
        BY <1>0, <4>1 DEF Stands
      <4>. QED BY <2>9, <4>1, <4>2
    <3>. QED BY <3>1, <3>2, <3>3
  <2>11. \A b \in DOMAIN G : ContentsOf(G)[b] = more[b]
    BY <2>2, <2>7, <2>10, ContentsAre
  <2>. QED BY <1>0, <2>1, <2>2, <2>5, <2>6, <2>7, <2>9, <2>11 DEF Well
<1>. QED BY <1>2, <1>3

\* set makes a version with one entry changed, and changes no other.
LEMMA SetWell ==
    ASSUME NEW H, NEW A, Well(H, A), NEW t \in DOMAIN H,
           NEW i \in Elements, NEW v \in Held, NEW S, S = Set(H, t, i, v)
    PROVE  /\ DOMAIN H \subseteq DOMAIN S.heap /\ S.cell \in DOMAIN S.heap
           /\ \A b \in DOMAIN H : ContentsOf(S.heap)[b] = ContentsOf(H)[b]
           /\ ContentsOf(S.heap)[S.cell] = [ContentsOf(H)[t] EXCEPT ![i] = v]
           /\ \E B : /\ Well(S.heap, B) /\ (S.cell \in B <=> t \in A)
                     /\ \A b \in DOMAIN H : b \in B <=> b \in A
<1>1. PICK R : R = Reroot(H, t)
  OBVIOUS
<1>2. /\ Well(R, A) /\ DOMAIN R = DOMAIN H /\ ~R[t].isdiff
      /\ \A b \in DOMAIN H : ContentsOf(R)[b] = ContentsOf(H)[b]
  BY <1>1, RerootWell
<1>3. S = Store(R, t, i, v)
  BY <1>1 DEF Set
<1>. HIDE DEF ContentsOf
<1>4. /\ DOMAIN R \subseteq DOMAIN S.heap /\ S.cell \in DOMAIN S.heap
      /\ \A b \in DOMAIN R : ContentsOf(S.heap)[b] = ContentsOf(R)[b]
      /\ ContentsOf(S.heap)[S.cell] = [ContentsOf(R)[t] EXCEPT ![i] = v]
      /\ \E B : /\ Well(S.heap, B) /\ (S.cell \in B <=> t \in A)
                /\ \A b \in DOMAIN R : b \in B <=> b \in A
  BY <1>2, <1>3, StoreWell
<1>. QED BY <1>2, <1>4

\* What find_aux writes, it writes into the cell itself.
LEMMA OverwriteWell ==
    ASSUME NEW H, NEW A, Well(H, A), NEW f \in DOMAIN H, f \in A, ~H[f].isdiff,
           NEW i \in Elements, NEW v \in Held, NEW G, G = Overwrite(H, f, i, v)
    PROVE  /\ Well(G, A) /\ DOMAIN G = DOMAIN H /\ ~G[f].isdiff
           /\ ContentsOf(G)[f] = [ContentsOf(H)[f] EXCEPT ![i] = v]
           /\ \A b \in DOMAIN H \ A : ContentsOf(G)[b] = ContentsOf(H)[b]
<1>0. Reroot(H, f) = H
  BY RerootArray DEF Well
<1>1. PICK S : S = Store(H, f, i, v) /\ S = Set(H, f, i, v)
  BY <1>0 DEF Set
<1>2. /\ DOMAIN H = 1..Len(H) /\ Len(H) \in Nat /\ H[f].a \in [Elements -> Held]
      /\ ContentsOf(H)[f] = H[f].a
      /\ \A b \in DOMAIN H : H[b].isdiff => H[b].t \in DOMAIN H
  BY CellOf, ContentsExist DEF Well, Stands
<1>3. CASE H[f].a[i] = v
  <2>1. S.heap = H /\ S.cell = f
    BY <1>1, <1>3 DEF Store
  <2>2. G = H
    BY <1>1, <2>1 DEF Overwrite
  <2>3. H[f].a = [H[f].a EXCEPT ![i] = v]
    BY <1>2, <1>3
  <2>. QED BY <1>2, <2>2, <2>3
<1>4. CASE H[f].a[i] # v
  <2>1. PICK new, K : new = Len(H) + 1 /\ K = S.heap
    OBVIOUS
  <2>2. /\ Cells(K) /\ S.cell = new /\ DOMAIN K = DOMAIN H \cup {new} /\ new \notin DOMAIN H
        /\ Len(K) = new /\ K[new] = Array([H[f].a EXCEPT ![i] = v])
        /\ \A b \in DOMAIN H \ {f} : K[b] = H[b]
    <3>1. S = Store(H, f, i, v) /\ Cells(H)
      BY <1>1 DEF Well
    <3>. QED BY <1>4, <2>1, <3>1, StoreCells
  <2>3. G = Front([K EXCEPT ![f] = K[new]])
    BY <1>1, <2>1, <2>2 DEF Overwrite
  <2>4. /\ Cells(G) /\ DOMAIN G = DOMAIN H
        /\ G[f] = Array([H[f].a EXCEPT ![i] = v])
        /\ \A b \in DOMAIN H \ {f} : G[b] = H[b]
    <3>1. PICK L : L = [K EXCEPT ![f] = K[new]]
      OBVIOUS
    <3>2. /\ L \in Seq(CellsOver(DOMAIN K)) /\ Len(L) = new /\ DOMAIN L = 1..new
          /\ L[f] = K[new] /\ \A b \in DOMAIN H \ {f} : L[b] = K[b]
      BY <1>2, <2>1, <2>2, <3>1 DEF Cells
    <3>3. /\ G = SubSeq(L, 1, new - 1) /\ new - 1 = Len(H)
      BY <1>2, <2>1, <2>3, <3>1, <3>2 DEF Front
    <3>4. /\ DOMAIN G = DOMAIN H /\ Len(G) = Len(H) /\ \A b \in DOMAIN H : G[b] = L[b]
          /\ G = [b \in DOMAIN H |-> L[b]]
      BY <1>2, <2>1, <3>2, <3>3, SMTT(30)
    <3>5. Array([H[f].a EXCEPT ![i] = v]) \in CellsOver(DOMAIN H)
      BY <1>2 DEF Array, CellsOver
    <3>6. \A b \in DOMAIN H : G[b] \in CellsOver(DOMAIN H)
      <4>1. \A b \in DOMAIN H : H[b] \in CellsOver(DOMAIN H)
        BY DEF Well, Cells
      <4>. QED BY <2>2, <3>2, <3>4, <3>5, <4>1
    <3>7. G \in Seq(CellsOver(DOMAIN H))
      BY <1>2, <3>4, <3>6
    <3>. QED BY <2>2, <3>2, <3>4, <3>7 DEF Cells
  <2>5. ~G[f].isdiff /\ G[f].a = [H[f].a EXCEPT ![i] = v]
    BY <2>4 DEF Array
  <2>6. Split(G, A)
    BY <2>4, <2>5 DEF Split, Well
  <2>7. Ranked(G)
    <3>. PICK k \in Nat : \E m : Falls(H, k, m)
      BY DEF Well, Ranked
    <3>1. PICK m : Falls(H, k, m)
      OBVIOUS
    <3>2. Falls(G, k, m)
      BY <2>4, <2>5, <3>1 DEF Falls
    <3>. QED BY <3>2 DEF Ranked
  <2>8. ContentsOf(G)[f] = G[f].a
    BY <2>4, <2>5, <2>7, ContentsExist DEF Stands
  <2>9. \A b \in DOMAIN H \ A : ContentsOf(G)[b] = ContentsOf(H)[b]
    <3>1. Stands(H, ContentsOf(H)) /\ Stands(G, ContentsOf(G))
      BY <2>4, <2>7, ContentsExist DEF Well
    <3>2. PICK B : B = DOMAIN H \ A
      OBVIOUS
    <3>3. \A b \in B : G[b] = H[b] /\ (H[b].isdiff => H[b].t \in B)
      BY <1>2, <2>4, <3>2 DEF Well, Split
    <3>4. B \subseteq DOMAIN H /\ B \subseteq DOMAIN G /\ Cells(H) /\ Ranked(H)
      BY <2>4, <3>2 DEF Well
    <3>. HIDE DEF ContentsOf
    <3>5. \A b \in B : ContentsOf(G)[b] = ContentsOf(H)[b]
      BY ONLY <3>1, <3>3, <3>4, ContentsAgree
    <3>. QED BY <3>2, <3>5
  <2>. QED BY <1>2, <2>4, <2>5, <2>6, <2>7, <2>8, <2>9 DEF Well
<1>. QED BY <1>3, <1>4

---------------------------------------------------------------------------
(* Powers of two.                                                          *)

LEMMA PowerOfZero == 2 ^ 0 = 1
<1>1. IsFiniteSet({}) /\ Cardinality({}) = 0
  BY FS_EmptySet
<1>2. SUBSET {} = {{}}
  OBVIOUS
<1>3. Cardinality(SUBSET {}) = 2 ^ Cardinality({})
  BY <1>1, FS_SUBSET
<1>4. Cardinality({{}}) = 1
  BY FS_Singleton
<1>. QED BY <1>1, <1>2, <1>3, <1>4

\* Doubling: the subsets of a set with one more element.
LEMMA PowerDoubles ==
    ASSUME NEW n \in Nat
    PROVE  2 ^ n \in Nat /\ 2 ^ (n + 1) \in Nat /\ 2 ^ (n + 1) <= 2 ^ n + 2 ^ n
<1>. DEFINE less == SUBSET (1..n)
            more == {T \cup {n + 1} : T \in less}
<1>1. /\ IsFiniteSet(1..n) /\ Cardinality(1..n) = n
      /\ IsFiniteSet(1..(n + 1)) /\ Cardinality(1..(n + 1)) = n + 1
  BY FS_Interval
<1>2. /\ IsFiniteSet(less) /\ Cardinality(less) \in Nat /\ Cardinality(less) = 2 ^ n
      /\ Cardinality(SUBSET (1..(n + 1))) \in Nat
      /\ Cardinality(SUBSET (1..(n + 1))) = 2 ^ (n + 1)
  BY <1>1, FS_SUBSET, FS_CardinalityType
<1>3. IsFiniteSet(more) /\ Cardinality(more) <= Cardinality(less)
  <2>. DEFINE add == [T \in less |-> T \cup {n + 1}]
  <2>1. add \in Surjection(less, more)
    BY DEF Surjection
  <2>. HIDE DEF less, more, add
  <2>. QED BY <1>2, <2>1, FS_Surjection
<1>4. SUBSET (1..(n + 1)) = less \cup more
  <2>1. ASSUME NEW T \in SUBSET (1..(n + 1)), T \notin less
        PROVE  T \in more
    <3>1. n + 1 \in T
      BY <2>1
    <3>2. T \ {n + 1} \in less /\ T = (T \ {n + 1}) \cup {n + 1}
      BY <3>1
    <3>. QED BY <3>2
  <2>2. less \subseteq SUBSET (1..(n + 1)) /\ more \subseteq SUBSET (1..(n + 1))
    <3>1. ASSUME NEW T \in less
          PROVE  T \in SUBSET (1..(n + 1)) /\ T \cup {n + 1} \in SUBSET (1..(n + 1))
      OBVIOUS
    <3>. QED BY <3>1
  <2>3. PICK all : all = SUBSET (1..(n + 1))
    OBVIOUS
  <2>. HIDE DEF less, more
  <2>. QED BY <2>1, <2>2, <2>3
<1>5. Cardinality(more) \in Nat /\ Cardinality(less \cap more) \in Nat
  BY <1>2, <1>3, FS_CardinalityType, FS_Intersection
<1>6. Cardinality(less \cup more) = Cardinality(less) + Cardinality(more) - Cardinality(less \cap more)
  BY <1>2, <1>3, FS_Union
<1>. HIDE DEF less, more
<1>7. PICK j, k, a, b, i : /\ j = 2 ^ n /\ k = 2 ^ (n + 1)
                           /\ a = Cardinality(less) /\ b = Cardinality(more)
                           /\ i = Cardinality(less \cap more)
  OBVIOUS
<1>8. j \in Nat /\ a = j /\ b \in Nat /\ b <= a /\ i \in Nat
  BY <1>2, <1>3, <1>5, <1>7
<1>9. k \in Nat /\ k = a + b - i
  BY <1>2, <1>4, <1>6, <1>7
<1>10. k <= j + j
  BY <1>8, <1>9
<1>. QED BY <1>7, <1>8, <1>9, <1>10

---------------------------------------------------------------------------
(* Parents and ranks.                                                      *)

\* The ranks rise on the way to a root.
Climbing(p, r, K) ==
    /\ p \in [Elements -> Elements]
    /\ r \in [Elements -> 0..K]
    /\ \A x \in Elements : p[x] # x => r[x] < r[p[x]]

\* g gives every element the root on its way.
Rooted(p, g) == \A x \in Elements : g[x] = IF p[x] = x THEN x ELSE g[p[x]]

\* How much there is to climb from an element.
Height(r, K) == [x \in Elements |-> K - r[x]]

LEMMA Heights ==
    ASSUME NEW p, NEW r, NEW K \in Nat, Climbing(p, r, K), NEW m, m = Height(r, K)
    PROVE  \A x \in Elements :
              m[x] \in 0..K /\ p[x] \in Elements /\ (p[x] # x => m[p[x]] < m[x])
<1>. SUFFICES ASSUME NEW x \in Elements
              PROVE  m[x] \in 0..K /\ p[x] \in Elements /\ (p[x] # x => m[p[x]] < m[x])
  OBVIOUS
<1>1. p[x] \in Elements /\ r[x] \in 0..K /\ r[p[x]] \in 0..K
  BY DEF Climbing
<1>2. m[x] = K - r[x] /\ m[p[x]] = K - r[p[x]]
  BY <1>1 DEF Height
<1>3. p[x] # x => r[x] < r[p[x]]
  BY DEF Climbing
<1>. QED BY <1>1, <1>2, <1>3

\* The recursion of RootsOf ends.
LEMMA RootsExist ==
    ASSUME NEW p, NEW r, NEW K \in Nat, Climbing(p, r, K)
    PROVE  /\ RootsOf(p) = [x \in Elements |-> RootsOf(p)[x]]
           /\ Rooted(p, RootsOf(p))
<1>. DEFINE e(g, x) == IF p[x] = x THEN x ELSE g[p[x]]
<1>1. PICK m : m = Height(r, K)
  OBVIOUS
<1>2. \A x \in Elements : m[x] \in 0..K /\ p[x] \in Elements /\ (p[x] # x => m[p[x]] < m[x])
  BY <1>1, Heights
<1>. DEFINE Below(n) == {x \in Elements : m[x] < n}
            S == {n \in Nat : \E g : g = [x \in Below(n) |-> e(g, x)]}
<1>3. 0 \in S
  <2>1. Below(0) = {}
    BY <1>2
  <2>. DEFINE g == [x \in {} |-> 0]
  <2>2. g = [x \in Below(0) |-> e(g, x)]
    BY <2>1
  <2>. QED BY <2>2
<1>4. ASSUME NEW n \in Nat, n \in S
      PROVE  n + 1 \in S
  <2>1. PICK g : g = [x \in Below(n) |-> e(g, x)]
    BY <1>4
  <2>. DEFINE h == [x \in Below(n + 1) |-> e(g, x)]
  <2>2. ASSUME NEW x \in Below(n + 1)
        PROVE  e(g, x) = e(h, x)
    <3>1. CASE p[x] # x
      <4>1. p[x] \in Below(n) /\ p[x] \in Below(n + 1)
        BY <1>2, <3>1
      <4>2. h[p[x]] = g[p[x]]
        BY <2>1, <4>1
      <4>. QED BY <4>2
    <3>. QED BY <3>1
  <2>3. h = [x \in Below(n + 1) |-> e(h, x)]
    BY <2>2
  <2>4. \E f : f = [x \in Below(n + 1) |-> e(f, x)]
    <3>. HIDE DEF h, Below
    <3>. QED BY <2>3
  <2>. HIDE DEF Below, e
  <2>. QED BY <2>4
<1>5. K + 1 \in S
  <2>. HIDE DEF S
  <2>. QED BY <1>3, <1>4, NumberInduction
<1>6. Below(K + 1) = Elements
  BY <1>2
<1>7. \E g : g = [x \in Elements |-> e(g, x)]
  BY <1>5, <1>6
<1>8. RootsOf(p) = [x \in Elements |-> e(RootsOf(p), x)]
  BY <1>7 DEF RootsOf
<1>. HIDE DEF RootsOf
<1>. QED BY <1>8 DEF Rooted

\* What gives every element a root on its way gives the root.
LEMMA RootsAgree ==
    ASSUME NEW p, NEW r, NEW K \in Nat, Climbing(p, r, K), NEW g, Rooted(p, g)
    PROVE  \A x \in Elements : g[x] = RootsOf(p)[x]
<1>. HIDE DEF RootsOf
<1>1. PICK m : m = Height(r, K)
  OBVIOUS
<1>2. PICK R : R = RootsOf(p) /\ Rooted(p, R)
  BY RootsExist
<1>. DEFINE S == {x \in Elements : g[x] = R[x]}
<1>3. ASSUME NEW x \in Elements, \A y \in Elements : m[y] < m[x] => y \in S
      PROVE  x \in S
  <2>1. p[x] # x => g[p[x]] = R[p[x]]
    BY <1>1, <1>3, Heights
  <2>. QED BY <1>2, <2>1 DEF Rooted
<1>4. \A x \in Elements : m[x] \in Nat
  BY <1>1, Heights
<1>5. \A x \in Elements : x \in S
  <2>. HIDE DEF S
  <2>. QED BY <1>3, <1>4, MeasureInduction
<1>. QED BY <1>2, <1>5

\* A root is its own parent, and its rank is above that of the elements below.
LEMMA RootsRise ==
    ASSUME NEW p, NEW r, NEW K \in Nat, Climbing(p, r, K), NEW R, R = RootsOf(p)
    PROVE  \A x \in Elements :
              /\ R[x] \in Elements /\ p[R[x]] = R[x] /\ R[R[x]] = R[x]
              /\ p[x] = x <=> R[x] = x
              /\ p[x] # x => r[x] < r[R[x]]
<1>. HIDE DEF RootsOf
<1>1. PICK m : m = Height(r, K)
  OBVIOUS
<1>2. Rooted(p, R)
  BY RootsExist
<1>. DEFINE Fine(x) == /\ R[x] \in Elements /\ p[R[x]] = R[x]
                       /\ p[x] # x => r[x] < r[R[x]]
            S == {x \in Elements : Fine(x)}
<1>3. ASSUME NEW x \in Elements, \A y \in Elements : m[y] < m[x] => y \in S
      PROVE  x \in S
  <2>1. CASE p[x] = x
    BY <1>2, <2>1 DEF Rooted
  <2>2. CASE p[x] # x
    <3>1. p[x] \in S /\ R[x] = R[p[x]] /\ r[x] < r[p[x]]
      BY <1>1, <1>2, <1>3, <2>2, Heights DEF Rooted, Climbing
    <3>2. R[x] \in Elements /\ p[R[x]] = R[x]
      BY <3>1
    <3>3. r[x] \in Nat /\ r[p[x]] \in Nat /\ r[R[x]] \in Nat
      BY <3>1, <3>2 DEF Climbing
    <3>4. p[x] = R[x] \/ r[p[x]] < r[R[x]]
      BY <1>2, <3>1 DEF Rooted
    <3>. QED BY <3>1, <3>2, <3>3, <3>4
  <2>. QED BY <2>1, <2>2
<1>4. \A x \in Elements : m[x] \in Nat
  BY <1>1, Heights
<1>5. \A x \in Elements : x \in S
  <2>. HIDE DEF S
  <2>. QED BY <1>3, <1>4, MeasureInduction
<1>6. \A x \in Elements : R[R[x]] = R[x] /\ (p[x] = x <=> R[x] = x)
  BY <1>2, <1>5 DEF Rooted
<1>. QED BY <1>5, <1>6

\* To make an element a child of its root changes no root.
LEMMA Compress ==
    ASSUME NEW p, NEW r, NEW K \in Nat, Climbing(p, r, K), NEW x \in Elements,
           NEW q, q = [p EXCEPT ![x] = RootsOf(p)[x]]
    PROVE  Climbing(q, r, K) /\ RootsOf(q) = RootsOf(p)
<1>. HIDE DEF RootsOf
<1>1. PICK R : R = RootsOf(p)
  OBVIOUS
<1>2. Rooted(p, R) /\ R = [y \in Elements |-> R[y]]
  BY <1>1, RootsExist
<1>3. \A y \in Elements :
          /\ R[y] \in Elements /\ p[R[y]] = R[y] /\ R[R[y]] = R[y]
          /\ p[y] = y <=> R[y] = y
          /\ p[y] # y => r[y] < r[R[y]]
  BY <1>1, RootsRise
<1>4. /\ q \in [Elements -> Elements] /\ q[x] = R[x]
      /\ \A y \in Elements : y # x => q[y] = p[y]
  BY <1>1, <1>3 DEF Climbing
<1>5. Climbing(q, r, K)
  BY <1>3, <1>4 DEF Climbing
<1>6. Rooted(q, R)
  BY <1>2, <1>3, <1>4 DEF Rooted
<1>7. \A y \in Elements : R[y] = RootsOf(q)[y]
  BY <1>5, <1>6, RootsAgree
<1>8. RootsOf(q) = [y \in Elements |-> RootsOf(q)[y]]
  BY <1>5, RootsExist
<1>. QED BY <1>1, <1>2, <1>5, <1>7, <1>8

\* q and s have root c below root d.
Joined(p, r, c, d, q, s) ==
    /\ c \in Elements /\ d \in Elements /\ c # d /\ p[c] = c /\ p[d] = d
    /\ q = [p EXCEPT ![c] = d]
    /\ s = IF r[c] = r[d] THEN [r EXCEPT ![d] = r[d] + 1] ELSE r
    /\ r[c] <= r[d]

\* To make a root the child of another one moves the elements below it.
LEMMA Join ==
    ASSUME NEW p, NEW r, NEW K \in Nat, Climbing(p, r, K),
           NEW c, NEW d, NEW q, NEW s, Joined(p, r, c, d, q, s)
    PROVE  /\ Climbing(q, s, K + 1)
           /\ \A y \in Elements :
                RootsOf(q)[y] = IF RootsOf(p)[y] = c THEN d ELSE RootsOf(p)[y]
<1>. HIDE DEF RootsOf
<1>. USE DEF Joined
<1>1. PICK R : R = RootsOf(p)
  OBVIOUS
<1>2. Rooted(p, R)
  BY <1>1, RootsExist
<1>3. /\ p \in [Elements -> Elements] /\ r \in [Elements -> 0..K]
      /\ \A x \in Elements : p[x] # x => r[x] < r[p[x]]
  BY DEF Climbing
<1>4. /\ q \in [Elements -> Elements] /\ q[c] = d /\ q[d] = d
      /\ \A y \in Elements : y # c => q[y] = p[y]
  BY <1>3
<1>5. /\ s \in [Elements -> 0..(K + 1)] /\ s[c] < s[d]
      /\ \A y \in Elements : y # d => s[y] = r[y]
      /\ s[d] >= r[d]
  BY <1>3
<1>6. Climbing(q, s, K + 1)
  <2>. SUFFICES ASSUME NEW y \in Elements, q[y] # y PROVE s[y] < s[q[y]]
    BY <1>4, <1>5 DEF Climbing
  <2>1. CASE y = c
    BY <1>4, <1>5, <2>1
  <2>2. CASE y # c
    <3>1. y # d /\ q[y] = p[y] /\ p[y] # y
      BY <1>4, <2>2
    <3>2. s[y] = r[y] /\ r[y] < r[p[y]] /\ s[p[y]] >= r[p[y]]
      BY <1>3, <1>5, <3>1
    <3>. QED BY <1>3, <1>5, <3>1, <3>2
  <2>. QED BY <2>1, <2>2
<1>. DEFINE g == [y \in Elements |-> IF R[y] = c THEN d ELSE R[y]]
<1>7. Rooted(q, g)
  BY <1>2, <1>3, <1>4 DEF Rooted
<1>8. \A y \in Elements : g[y] = RootsOf(q)[y]
  <2>1. K + 1 \in Nat
    OBVIOUS
  <2>. HIDE DEF g
  <2>. QED BY <2>1, <1>6, <1>7, RootsAgree
<1>. QED BY <1>1, <1>6, <1>8

---------------------------------------------------------------------------
(* The elements below a root.                                              *)

Under(p, x) == {y \in Elements : RootsOf(p)[y] = x}

\* A root of rank k has 2^k elements.
Weighty(p, r) == \A x \in Elements : p[x] = x => 2 ^ r[x] <= Cardinality(Under(p, x))

LEMMA UnderFinite ==
    ASSUME NEW p, NEW x
    PROVE  IsFiniteSet(Under(p, x)) /\ Cardinality(Under(p, x)) \in Nat
<1>1. Under(p, x) \in SUBSET Elements /\ IsFiniteSet(Elements)
  BY IndicesAssumption DEF Under, Elements
<1>2. IsFiniteSet(Under(p, x))
  BY <1>1, FS_Subset
<1>. QED BY <1>2, FS_CardinalityType

LEMMA JoinWeighty ==
    ASSUME NEW p, NEW r, NEW K \in Nat, Climbing(p, r, K), Weighty(p, r),
           NEW c, NEW d, NEW q, NEW s, Joined(p, r, c, d, q, s)
    PROVE  Weighty(q, s)
<1>. HIDE DEF RootsOf
<1>1. \A y \in Elements :
          RootsOf(q)[y] = IF RootsOf(p)[y] = c THEN d ELSE RootsOf(p)[y]
  BY Join
<1>. USE DEF Joined
<1>2. /\ p \in [Elements -> Elements] /\ r \in [Elements -> 0..K]
      /\ q \in [Elements -> Elements] /\ q[c] = d
      /\ \A y \in Elements : y # c => q[y] = p[y]
  BY DEF Climbing
<1>. SUFFICES ASSUME NEW x \in Elements, q[x] = x
              PROVE  2 ^ s[x] <= Cardinality(Under(q, x))
  BY DEF Weighty
<1>3. x # c /\ p[x] = x
  BY <1>2
<1>4. 2 ^ r[x] <= Cardinality(Under(p, x))
  BY <1>3 DEF Weighty
<1>5. CASE x # d
  <2>1. Under(q, x) = Under(p, x)
    BY <1>1, <1>3, <1>5 DEF Under
  <2>2. s[x] = r[x]
    BY <1>2, <1>5
  <2>. QED BY <1>4, <2>1, <2>2
<1>6. CASE x = d
  <2>1. PICK A, B : A = Under(p, c) /\ B = Under(p, d)
    OBVIOUS
  <2>2. Under(q, d) = A \cup B /\ A \cap B = {}
    BY <1>1, <2>1 DEF Under
  <2>3. /\ IsFiniteSet(A) /\ Cardinality(A) \in Nat
        /\ IsFiniteSet(B) /\ Cardinality(B) \in Nat
    BY <2>1, UnderFinite
  <2>4. Cardinality(A \cup B) = Cardinality(A) + Cardinality(B)
    <3>1. Cardinality(A \cap B) = 0
      BY <2>2, FS_EmptySet
    <3>2. Cardinality(A \cup B) = Cardinality(A) + Cardinality(B) - Cardinality(A \cap B)
      BY <2>3, FS_Union
    <3>. QED BY <2>3, <3>1, <3>2
  <2>5. 2 ^ r[c] <= Cardinality(A) /\ 2 ^ r[d] <= Cardinality(B)
    BY <2>1 DEF Weighty
  <2>6. PICK k : k = r[d] /\ k \in Nat
    BY <1>2
  <2>7. 2 ^ k \in Nat /\ 2 ^ (k + 1) \in Nat /\ 2 ^ (k + 1) <= 2 ^ k + 2 ^ k
    BY <2>6, PowerDoubles
  <2>8. CASE r[c] = r[d]
    <3>1. s[d] = k + 1
      BY <1>2, <2>6, <2>8
    <3>2. 2 ^ k <= Cardinality(A) /\ 2 ^ k <= Cardinality(B)
      BY <2>5, <2>6, <2>8
    <3>3. 2 ^ (k + 1) <= Cardinality(A \cup B)
      BY <2>3, <2>4, <2>7, <3>2
    <3>. QED BY <1>6, <2>2, <3>1, <3>3
  <2>9. CASE r[c] # r[d]
    <3>1. s[d] = k
      BY <1>2, <2>6, <2>9
    <3>2. 2 ^ k <= Cardinality(B)
      BY <2>5, <2>6
    <3>3. 2 ^ k <= Cardinality(A \cup B)
      BY <2>3, <2>4, <2>7, <3>2
    <3>. QED BY <1>6, <2>2, <3>1, <3>3
  <2>. QED BY <2>8, <2>9
<1>. QED BY <1>5, <1>6

---------------------------------------------------------------------------
(* find_aux.                                                               *)

\* G has the roots of H, in array f, and what H has outside A.
Keeps(H, G, A, f, r, K) ==
    /\ Well(G, A) /\ DOMAIN G = DOMAIN H
    /\ Climbing(ContentsOf(G)[f], r, K)
    /\ RootsOf(ContentsOf(G)[f]) = RootsOf(ContentsOf(H)[f])
    /\ \A b \in DOMAIN H \ A : ContentsOf(G)[b] = ContentsOf(H)[b]

\* The recursion of find_aux ends.
LEMMA FindAuxUnfolds ==
    ASSUME NEW H, NEW A, Well(H, A), NEW f \in DOMAIN H,
           NEW p, p = ContentsOf(H)[f], NEW r, NEW K \in Nat, Climbing(p, r, K)
    PROVE  \A x \in Elements :
              FindAux(H, f, x) =
                IF p[x] = x THEN [heap |-> Reroot(H, f), root |-> x]
                ELSE [heap |-> Overwrite(FindAux(H, f, p[x]).heap, f, x, FindAux(H, f, p[x]).root),
                      root |-> FindAux(H, f, p[x]).root]
<1>. HIDE DEF ContentsOf
<1>. DEFINE e(g, x) ==
                IF p[x] = x THEN [heap |-> Reroot(H, f), root |-> x]
                ELSE [heap |-> Overwrite(g[p[x]].heap, f, x, g[p[x]].root),
                      root |-> g[p[x]].root]
            d(g, x) ==
                IF Get(H, f, x).value = x THEN [heap |-> Get(H, f, x).heap, root |-> x]
                ELSE [heap |-> Overwrite(g[Get(H, f, x).value].heap, f, x, g[Get(H, f, x).value].root),
                      root |-> g[Get(H, f, x).value].root]
<1>0. \A g, x : d(g, x) = e(g, x)
  BY GetWell
<1>1. PICK m : m = Height(r, K)
  OBVIOUS
<1>2. \A x \in Elements : m[x] \in 0..K /\ p[x] \in Elements /\ (p[x] # x => m[p[x]] < m[x])
  BY <1>1, Heights
<1>. DEFINE Lower(n) == {x \in Elements : m[x] < n}
            S == {n \in Nat : \E g : g = [x \in Lower(n) |-> e(g, x)]}
<1>3. 0 \in S
  <2>1. Lower(0) = {}
    BY <1>2
  <2>. DEFINE g == [x \in {} |-> 0]
  <2>2. g = [x \in Lower(0) |-> e(g, x)]
    BY <2>1
  <2>. QED BY <2>2
<1>4. ASSUME NEW n \in Nat, n \in S
      PROVE  n + 1 \in S
  <2>1. PICK g : g = [x \in Lower(n) |-> e(g, x)]
    BY <1>4
  <2>. DEFINE h == [x \in Lower(n + 1) |-> e(g, x)]
  <2>2. ASSUME NEW x \in Lower(n + 1)
        PROVE  e(g, x) = e(h, x)
    <3>1. CASE p[x] # x
      <4>1. p[x] \in Lower(n) /\ p[x] \in Lower(n + 1)
        BY <1>2, <3>1
      <4>2. h[p[x]] = g[p[x]]
        BY <2>1, <4>1
      <4>. QED BY <4>2
    <3>. QED BY <3>1
  <2>3. h = [x \in Lower(n + 1) |-> e(h, x)]
    BY <2>2
  <2>4. \E a : a = [x \in Lower(n + 1) |-> e(a, x)]
    <3>. HIDE DEF h, Lower
    <3>. QED BY <2>3
  <2>. HIDE DEF Lower, e
  <2>. QED BY <2>4
<1>5. K + 1 \in S
  <2>. HIDE DEF S
  <2>. QED BY <1>3, <1>4, NumberInduction
<1>6. Lower(K + 1) = Elements
  BY <1>2
<1>7. \E g : g = [x \in Elements |-> e(g, x)]
  BY <1>5, <1>6
<1>8. \E g : g = [x \in Elements |-> d(g, x)]
  <2>1. PICK g : g = [x \in Elements |-> e(g, x)]
    BY <1>7
  <2>2. g = [x \in Elements |-> d(g, x)]
    <3>. HIDE DEF d, e
    <3>. QED BY <1>0, <2>1
  <2>. QED BY <2>2
<1>. DEFINE aux == CHOOSE g : g = [x \in Elements |-> d(g, x)]
<1>9. aux = [x \in Elements |-> d(aux, x)]
  BY <1>8
<1>10. \A x \in Elements : FindAux(H, f, x) = aux[x]
  BY DEF FindAux
<1>11. \A x \in Elements : aux[x] = e(aux, x)
  <2>. HIDE DEF d, e, aux
  <2>. QED BY <1>0, <1>9
<1>. HIDE DEF aux
<1>12. \A y \in Elements : FindAux(H, f, p[y]) = aux[p[y]]
  BY <1>2, <1>10
<1>. SUFFICES ASSUME NEW x \in Elements
              PROVE  FindAux(H, f, x) =
                        IF p[x] = x THEN [heap |-> Reroot(H, f), root |-> x]
                        ELSE [heap |-> Overwrite(FindAux(H, f, p[x]).heap, f, x, FindAux(H, f, p[x]).root),
                              root |-> FindAux(H, f, p[x]).root]
  OBVIOUS
<1>13. PICK N : N = FindAux(H, f, p[x]) /\ N = aux[p[x]]
  BY <1>12
<1>14. FindAux(H, f, x) = e(aux, x)
  <2>. HIDE DEF e
  <2>. QED BY <1>10, <1>11
<1>. HIDE DEF FindAux
<1>. QED BY <1>13, <1>14

\* find_aux returns the root, and shortens the paths of f alone.
THEOREM FindAuxWell ==
    ASSUME NEW H, NEW A, Well(H, A), NEW f \in DOMAIN H, f \in A,
           NEW p, p = ContentsOf(H)[f], NEW r, NEW K \in Nat, Climbing(p, r, K),
           NEW x \in Elements, NEW F, F = FindAux(H, f, x)
    PROVE  F.root = RootsOf(p)[x] /\ Keeps(H, F.heap, A, f, r, K)
<1>. HIDE DEF ContentsOf, RootsOf
<1>1. PICK m : m = Height(r, K)
  OBVIOUS
<1>2. \A y \in Elements : m[y] \in 0..K /\ p[y] \in Elements /\ (p[y] # y => m[p[y]] < m[y])
  BY <1>1, Heights
<1>3. Rooted(p, RootsOf(p)) /\ \A y \in Elements : RootsOf(p)[y] \in Elements
  BY RootsExist, RootsRise
<1>. DEFINE Found(y, N) == /\ N.root = RootsOf(p)[y] /\ Keeps(H, N.heap, A, f, r, K)
                           /\ ~N.heap[f].isdiff
            S == {y \in Elements : Found(y, FindAux(H, f, y))}
<1>4. ASSUME NEW y \in Elements, \A z \in Elements : m[z] < m[y] => z \in S
      PROVE  y \in S
  <2>1. CASE p[y] = y
    <3>1. PICK R : R = Reroot(H, f)
      OBVIOUS
    <3>2. FindAux(H, f, y) = [heap |-> R, root |-> y]
      BY <2>1, <3>1, FindAuxUnfolds
    <3>3. /\ Well(R, A) /\ DOMAIN R = DOMAIN H /\ ~R[f].isdiff
          /\ \A b \in DOMAIN H : ContentsOf(R)[b] = ContentsOf(H)[b]
      BY <3>1, RerootWell
    <3>4. RootsOf(p)[y] = y
      BY <1>3, <2>1 DEF Rooted
    <3>. QED BY <3>2, <3>3, <3>4 DEF Keeps
  <2>2. CASE p[y] # y
    <3>1. PICK N : N = FindAux(H, f, p[y]) /\ Found(p[y], N)
      BY <1>2, <1>4, <2>2
    <3>2. PICK G, v : G = Overwrite(N.heap, f, y, N.root) /\ v = N.root
      OBVIOUS
    <3>3. FindAux(H, f, y) = [heap |-> G, root |-> v]
      BY <2>2, <3>1, <3>2, FindAuxUnfolds
    <3>4. v = RootsOf(p)[y] /\ v \in Elements /\ v \in Held
      BY <1>2, <1>3, <2>2, <3>1, <3>2 DEF Rooted, Held
    <3>5. PICK q : /\ q = ContentsOf(N.heap)[f] /\ Climbing(q, r, K)
                   /\ RootsOf(q) = RootsOf(p)
      BY <3>1 DEF Keeps
    <3>6. /\ Well(G, A) /\ DOMAIN G = DOMAIN H /\ ~G[f].isdiff
          /\ ContentsOf(G)[f] = [q EXCEPT ![y] = v]
          /\ \A b \in DOMAIN H \ A : ContentsOf(G)[b] = ContentsOf(N.heap)[b]
      BY <3>1, <3>2, <3>4, <3>5, OverwriteWell DEF Keeps
    <3>7. /\ Climbing(ContentsOf(G)[f], r, K)
          /\ RootsOf(ContentsOf(G)[f]) = RootsOf(p)
      BY <3>4, <3>5, <3>6, Compress
    <3>. QED BY <3>1, <3>3, <3>4, <3>6, <3>7 DEF Keeps
  <2>. QED BY <2>1, <2>2
<1>5. \A y \in Elements : y \in S
  <2>1. \A y \in Elements : m[y] \in Nat
    BY <1>2
  <2>. HIDE DEF S
  <2>. QED BY <2>1, <1>4, MeasureInduction
<1>. QED BY <1>5

---------------------------------------------------------------------------
(* unio.                                                                   *)

LEMMA RootsWell ==
    ASSUME NEW H, NEW A, Well(H, A), NEW h, h.rep \in DOMAIN H, h.rep \in A,
           NEW p, p = ContentsOf(H)[h.rep], NEW r, NEW K \in Nat, Climbing(p, r, K),
           NEW x \in Elements, NEW y \in Elements, NEW R, R = Roots(H, h, x, y)
    PROVE  R.x = RootsOf(p)[x] /\ R.y = RootsOf(p)[y] /\ Keeps(H, R.heap, A, h.rep, r, K)
<1>. HIDE DEF ContentsOf, RootsOf
<1>1. PICK cx : cx = FindAux(H, h.rep, x)
  OBVIOUS
<1>2. cx.root = RootsOf(p)[x] /\ Keeps(H, cx.heap, A, h.rep, r, K)
  BY <1>1, FindAuxWell
<1>3. PICK cy : cy = FindAux(cx.heap, h.rep, y)
  OBVIOUS
<1>4. PICK q : /\ q = ContentsOf(cx.heap)[h.rep] /\ Climbing(q, r, K)
               /\ RootsOf(q) = RootsOf(p)
               /\ Well(cx.heap, A) /\ h.rep \in DOMAIN cx.heap
  BY <1>2 DEF Keeps
<1>5. cy.root = RootsOf(q)[y] /\ Keeps(cx.heap, cy.heap, A, h.rep, r, K)
  BY <1>3, <1>4, FindAuxWell
<1>6. R = [heap |-> cy.heap, x |-> cx.root, y |-> cy.root]
  BY <1>1, <1>3 DEF Roots
<1>. QED BY <1>2, <1>4, <1>5, <1>6 DEF Keeps

\* What unio makes of two roots: one goes below the other.
LEMMA LinkWell ==
    ASSUME NEW R, NEW A, Well(R.heap, A),
           NEW f \in DOMAIN R.heap, NEW k \in DOMAIN R.heap, f \in A, k \notin A,
           NEW p, p = ContentsOf(R.heap)[f], NEW r, r = ContentsOf(R.heap)[k],
           NEW K \in Nat, Climbing(p, r, K),
           R.x \in Elements, R.y \in Elements, R.x # R.y, p[R.x] = R.x, p[R.y] = R.y,
           NEW L, L = Link(R, k, f)
    PROVE  /\ L.version = [rep |-> L.version.rep, rank |-> L.version.rank]
           /\ L.version.rep \in DOMAIN L.heap /\ L.version.rank \in DOMAIN L.heap
           /\ \E c, d :
                /\ {c, d} = {R.x, R.y}
                /\ Joined(p, r, c, d, ContentsOf(L.heap)[L.version.rep],
                          ContentsOf(L.heap)[L.version.rank])
           /\ \E B : Well(L.heap, B) /\ L.version.rep \in B /\ L.version.rank \notin B
<1>. HIDE DEF ContentsOf
<1>1. PICK H, x, y : H = R.heap /\ x = R.x /\ y = R.y
  OBVIOUS
<1>2. PICK G : G = Reroot(H, k) /\ Well(H, A) /\ k \in DOMAIN H
  BY <1>1
<1>3. Get(H, k, x).heap = G /\ Get(H, k, x).value = r[x]
  BY <1>1, <1>2, GetWell
<1>4. /\ Well(G, A) /\ DOMAIN G = DOMAIN H
      /\ \A b \in DOMAIN H : ContentsOf(G)[b] = ContentsOf(H)[b]
  BY ONLY <1>2, RerootWell
<1>5. PICK N : N = Reroot(G, k) /\ Well(G, A) /\ k \in DOMAIN G
  BY <1>2, <1>4
<1>6. ContentsOf(G)[k] = r
  BY <1>1, <1>2, <1>4
<1>7. Get(G, k, y).heap = N /\ Get(G, k, y).value = r[y]
  BY <1>5, <1>6, GetWell
<1>8. /\ Well(N, A) /\ DOMAIN N = DOMAIN G
      /\ \A b \in DOMAIN G : ContentsOf(N)[b] = ContentsOf(G)[b]
  BY ONLY <1>5, RerootWell
<1>9. /\ DOMAIN N = DOMAIN H /\ k \in DOMAIN N /\ ContentsOf(N)[k] = r
      /\ \A b \in DOMAIN H : ContentsOf(N)[b] = ContentsOf(H)[b]
  BY <1>1, <1>4, <1>6, <1>8
<1>10. PICK c, d : c = (IF r[x] < r[y] THEN x ELSE y) /\ d = (IF r[x] < r[y] THEN y ELSE x)
  OBVIOUS
<1>11. /\ r \in [Elements -> 0..K] /\ r[x] \in Nat /\ r[y] \in Nat
       /\ r[x] + 1 \in Held /\ x \in Elements /\ y \in Elements
       /\ c \in Elements /\ d \in Elements /\ d \in Held /\ r[c] <= r[d]
       /\ c # d /\ {c, d} = {x, y} /\ p[c] = c /\ p[d] = d
  BY <1>1, <1>10 DEF Climbing, Held
<1>12. PICK s : s = IF r[c] = r[d] THEN [r EXCEPT ![d] = r[d] + 1] ELSE r
  OBVIOUS
<1>13. PICK M : M = IF r[x] = r[y] THEN Set(N, k, x, r[x] + 1) ELSE [heap |-> N, cell |-> k]
  OBVIOUS
<1>14. /\ DOMAIN H \subseteq DOMAIN M.heap /\ M.cell \in DOMAIN M.heap
       /\ \A b \in DOMAIN H : ContentsOf(M.heap)[b] = ContentsOf(H)[b]
       /\ ContentsOf(M.heap)[M.cell] = s
       /\ \E B : /\ Well(M.heap, B) /\ M.cell \notin B
                 /\ \A b \in DOMAIN H : b \in B <=> b \in A
  <2>1. CASE r[x] = r[y]
    <3>1. M = Set(N, k, x, r[x] + 1)
      BY <1>13, <2>1
    <3>2. d = x /\ c = y /\ s = [r EXCEPT ![x] = r[x] + 1]
      BY <1>10, <1>11, <1>12, <2>1
    <3>3. PICK v : v = r[x] + 1 /\ v \in Held
      BY <1>11
    <3>4. M = Set(N, k, x, v) /\ Well(N, A) /\ k \in DOMAIN N /\ x \in Elements /\ v \in Held
      BY <1>8, <1>9, <1>11, <3>1, <3>3
    <3>5. /\ DOMAIN N \subseteq DOMAIN M.heap /\ M.cell \in DOMAIN M.heap
          /\ \A b \in DOMAIN N : ContentsOf(M.heap)[b] = ContentsOf(N)[b]
          /\ ContentsOf(M.heap)[M.cell] = [ContentsOf(N)[k] EXCEPT ![x] = v]
          /\ \E B : /\ Well(M.heap, B) /\ (M.cell \in B <=> k \in A)
                    /\ \A b \in DOMAIN N : b \in B <=> b \in A
      BY ONLY <3>4, SetWell
    <3>. QED BY <1>9, <3>2, <3>3, <3>5
  <2>2. CASE r[x] # r[y]
    <3>1. M.heap = N /\ M.cell = k /\ r[c] # r[d]
      BY <1>10, <1>11, <1>13, <2>2
    <3>. QED BY <1>1, <1>8, <1>9, <1>12, <3>1
  <2>. QED BY <2>1, <2>2
<1>15. PICK B : /\ Well(M.heap, B) /\ M.cell \notin B
                /\ \A b \in DOMAIN H : b \in B <=> b \in A
  BY <1>14
<1>16. PICK T : T = Set(M.heap, f, c, d)
  OBVIOUS
<1>17. Well(M.heap, B) /\ f \in DOMAIN M.heap /\ f \in B /\ c \in Elements /\ d \in Held
  BY <1>1, <1>11, <1>14, <1>15
<1>18. /\ DOMAIN M.heap \subseteq DOMAIN T.heap /\ T.cell \in DOMAIN T.heap
       /\ \A b \in DOMAIN M.heap : ContentsOf(T.heap)[b] = ContentsOf(M.heap)[b]
       /\ ContentsOf(T.heap)[T.cell] = [ContentsOf(M.heap)[f] EXCEPT ![c] = d]
       /\ \E C : /\ Well(T.heap, C) /\ (T.cell \in C <=> f \in B)
                 /\ \A b \in DOMAIN M.heap : b \in C <=> b \in B
  BY ONLY <1>16, <1>17, SetWell
<1>19. L = [heap |-> T.heap, version |-> [rep |-> T.cell, rank |-> M.cell]]
  <2>1. T = IF r[x] < r[y] THEN Set(M.heap, f, x, y) ELSE Set(M.heap, f, y, x)
    BY <1>10, <1>16
  <2>. QED BY <1>1, <1>3, <1>7, <1>13, <2>1 DEF Link
<1>20. /\ ContentsOf(T.heap)[T.cell] = [p EXCEPT ![c] = d]
       /\ ContentsOf(T.heap)[M.cell] = s
  BY <1>1, <1>14, <1>18
<1>21. Joined(p, r, c, d, ContentsOf(T.heap)[T.cell], ContentsOf(T.heap)[M.cell])
  BY <1>11, <1>12, <1>20 DEF Joined
<1>22. \E C : Well(T.heap, C) /\ T.cell \in C /\ M.cell \notin C
  BY <1>14, <1>15, <1>17, <1>18
<1>. QED BY <1>1, <1>11, <1>14, <1>18, <1>19, <1>21, <1>22

---------------------------------------------------------------------------
(* The inductive invariant.                                                *)

\* The cells of the parents and those of the ranks are apart, and what they
\* stand for is a forest whose ranks rise and are no larger than its sizes.
Forest(H, h) ==
    /\ \E A : /\ Well(H, A)
              /\ h.rep \in DOMAIN H /\ h.rep \in A
              /\ h.rank \in DOMAIN H /\ h.rank \notin A
    /\ \E K \in Nat : Climbing(ContentsOf(H)[h.rep], ContentsOf(H)[h.rank], K)
    /\ Weighty(ContentsOf(H)[h.rep], ContentsOf(H)[h.rank])

IInv ==
    /\ versions \in Seq([rep : Nat, rank : Nat]) /\ Len(versions) > 0
    /\ answer \in Elements
    /\ Forest(heap, Latest)

\* The roots of a version, read from its cells.
Led(H, h) == RootsOf(ContentsOf(H)[h.rep])

\* T has the root of x below that of y, or the other way round, and otherwise
\* the roots of R.
Unites(R, x, y, T) ==
    \E c, d : /\ c # d /\ {c, d} = {R[x], R[y]}
              /\ \A z \in Elements : T[z] = IF R[z] = c THEN d ELSE R[z]

LEMMA KeptForest ==
    ASSUME NEW H, NEW A, Well(H, A), NEW h,
           h.rep \in DOMAIN H, h.rep \in A, h.rank \in DOMAIN H, h.rank \notin A,
           NEW p, p = ContentsOf(H)[h.rep], NEW r, r = ContentsOf(H)[h.rank],
           NEW K \in Nat, Climbing(p, r, K), Weighty(p, r),
           NEW G, Keeps(H, G, A, h.rep, r, K)
    PROVE  /\ Forest(G, h) /\ Led(G, h) = Led(H, h)
           /\ ContentsOf(G)[h.rank] = r /\ Weighty(ContentsOf(G)[h.rep], r)
<1>. HIDE DEF ContentsOf, RootsOf
<1>1. PICK q : q = ContentsOf(G)[h.rep]
  OBVIOUS
<1>2. /\ Well(G, A) /\ DOMAIN G = DOMAIN H /\ Climbing(q, r, K)
      /\ RootsOf(q) = RootsOf(p) /\ ContentsOf(G)[h.rank] = r
  BY <1>1 DEF Keeps
<1>3. Weighty(q, r)
  <2>. SUFFICES ASSUME NEW x \in Elements, q[x] = x
                PROVE  2 ^ r[x] <= Cardinality(Under(q, x))
    BY DEF Weighty
  <2>1. p[x] = x
    BY <1>2, RootsRise
  <2>2. Under(q, x) = Under(p, x)
    BY <1>2 DEF Under
  <2>. QED BY <2>1, <2>2 DEF Weighty
<1>. QED BY <1>1, <1>2, <1>3 DEF Forest, Led

\* A find leaves the roots.
LEMMA FindForest ==
    ASSUME NEW H, NEW h, Forest(H, h), NEW x \in Elements,
           NEW F, F = FindAux(H, h.rep, x)
    PROVE  F.root = Led(H, h)[x] /\ Forest(F.heap, h) /\ Led(F.heap, h) = Led(H, h)
<1>. HIDE DEF ContentsOf, RootsOf
<1>1. PICK A : /\ Well(H, A)
               /\ h.rep \in DOMAIN H /\ h.rep \in A
               /\ h.rank \in DOMAIN H /\ h.rank \notin A
  BY DEF Forest
<1>2. PICK p, r : p = ContentsOf(H)[h.rep] /\ r = ContentsOf(H)[h.rank]
  OBVIOUS
<1>3. PICK K \in Nat : Climbing(p, r, K) /\ Weighty(p, r)
  BY <1>2 DEF Forest
<1>4. F.root = RootsOf(p)[x] /\ Keeps(H, F.heap, A, h.rep, r, K)
  BY <1>1, <1>2, <1>3, FindAuxWell
<1>5. Forest(F.heap, h) /\ Led(F.heap, h) = Led(H, h)
  BY <1>1, <1>2, <1>3, <1>4, KeptForest
<1>. QED BY <1>2, <1>4, <1>5 DEF Led

\* unio leaves them too, or makes one root the child of the other.
LEMMA UnioForest ==
    ASSUME NEW H, NEW h, Forest(H, h), NEW x \in Elements, NEW y \in Elements,
           NEW R, R = Roots(H, h, x, y), NEW L, L = Link(R, h.rank, h.rep)
    PROVE  /\ R.x = Led(H, h)[x] /\ R.y = Led(H, h)[y]
           /\ Forest(R.heap, h) /\ Led(R.heap, h) = Led(H, h)
           /\ R.x # R.y =>
                /\ L.version \in [rep : Nat, rank : Nat]
                /\ Forest(L.heap, L.version)
                /\ Unites(Led(H, h), x, y, Led(L.heap, L.version))
<1>. HIDE DEF ContentsOf, RootsOf
<1>1. PICK A : /\ Well(H, A)
               /\ h.rep \in DOMAIN H /\ h.rep \in A
               /\ h.rank \in DOMAIN H /\ h.rank \notin A
  BY DEF Forest
<1>2. PICK p, r : p = ContentsOf(H)[h.rep] /\ r = ContentsOf(H)[h.rank]
  OBVIOUS
<1>3. PICK K \in Nat : Climbing(p, r, K) /\ Weighty(p, r)
  BY <1>2 DEF Forest
<1>4. /\ R.x = RootsOf(p)[x] /\ R.y = RootsOf(p)[y]
      /\ Keeps(H, R.heap, A, h.rep, r, K)
  BY <1>1, <1>2, <1>3, RootsWell
<1>5. PICK G, q : G = R.heap /\ q = ContentsOf(G)[h.rep]
  OBVIOUS
<1>6. /\ Forest(G, h) /\ Led(G, h) = Led(H, h)
      /\ ContentsOf(G)[h.rank] = r /\ Weighty(q, r)
  BY <1>1, <1>2, <1>3, <1>4, <1>5, KeptForest
<1>7. /\ Well(G, A) /\ DOMAIN G = DOMAIN H /\ Climbing(q, r, K)
      /\ RootsOf(q) = RootsOf(p)
  BY <1>2, <1>4, <1>5 DEF Keeps
<1>8. R.x = Led(H, h)[x] /\ R.y = Led(H, h)[y]
  BY <1>2, <1>4 DEF Led
<1>9. ASSUME R.x # R.y
      PROVE  /\ L.version \in [rep : Nat, rank : Nat]
             /\ Forest(L.heap, L.version)
             /\ Unites(Led(H, h), x, y, Led(L.heap, L.version))
  <2>1. /\ R.x \in Elements /\ R.y \in Elements
        /\ q[R.x] = R.x /\ q[R.y] = R.y
    BY <1>4, <1>7, <1>9, RootsRise
  <2>2. /\ Well(R.heap, A) /\ h.rep \in DOMAIN R.heap /\ h.rank \in DOMAIN R.heap
        /\ h.rep \in A /\ h.rank \notin A
        /\ q = ContentsOf(R.heap)[h.rep] /\ r = ContentsOf(R.heap)[h.rank]
        /\ K \in Nat /\ Climbing(q, r, K) /\ R.x # R.y /\ L = Link(R, h.rank, h.rep)
    BY <1>1, <1>5, <1>6, <1>7, <1>9
  <2>3. /\ L.version = [rep |-> L.version.rep, rank |-> L.version.rank]
        /\ L.version.rep \in DOMAIN L.heap /\ L.version.rank \in DOMAIN L.heap
        /\ \E c, d :
             /\ {c, d} = {R.x, R.y}
             /\ Joined(q, r, c, d, ContentsOf(L.heap)[L.version.rep],
                       ContentsOf(L.heap)[L.version.rank])
        /\ \E B : Well(L.heap, B) /\ L.version.rep \in B /\ L.version.rank \notin B
    BY ONLY <2>1, <2>2, LinkWell
  <2>4. PICK j, s : /\ j = ContentsOf(L.heap)[L.version.rep]
                    /\ s = ContentsOf(L.heap)[L.version.rank]
    OBVIOUS
  <2>5. PICK c, d : {c, d} = {R.x, R.y} /\ Joined(q, r, c, d, j, s)
    BY <2>3, <2>4
  <2>6. /\ Climbing(j, s, K + 1) /\ Weighty(j, s) /\ K + 1 \in Nat
        /\ \A z \in Elements : RootsOf(j)[z] = IF RootsOf(q)[z] = c THEN d ELSE RootsOf(q)[z]
    BY <1>6, <1>7, <2>5, Join, JoinWeighty
  <2>7. Forest(L.heap, L.version)
    BY <2>3, <2>4, <2>6 DEF Forest
  <2>8. L.version \in [rep : Nat, rank : Nat]
    <3>1. DOMAIN L.heap \subseteq Nat
      BY <2>3, CellOf DEF Well
    <3>2. L.version.rep \in Nat /\ L.version.rank \in Nat
      BY <2>3, <3>1
    <3>. QED BY <2>3, <3>2
  <2>9. c # d
    BY <2>5 DEF Joined
  <2>10. \A z \in Elements :
             Led(L.heap, L.version)[z] = IF Led(H, h)[z] = c THEN d ELSE Led(H, h)[z]
    BY <1>2, <1>7, <2>4, <2>6 DEF Led
  <2>11. Unites(Led(H, h), x, y, Led(L.heap, L.version))
    BY <1>8, <2>5, <2>9, <2>10 DEF Unites
  <2>. QED BY <2>7, <2>8, <2>11
<1>. QED BY <1>5, <1>6, <1>8, <1>9

LEMMA InitIInv == Init => IInv
<1>. SUFFICES ASSUME Init PROVE IInv
  OBVIOUS
<1>. HIDE DEF ContentsOf, RootsOf
<1>1. PICK p, r : p = [k \in Elements |-> k] /\ r = [k \in Elements |-> 0]
  OBVIOUS
<1>2. /\ heap = <<Array(p), Array(r)>> /\ versions = <<[rep |-> 1, rank |-> 2]>>
      /\ answer = 0
  BY <1>1 DEF Init
<1>3. p \in [Elements -> Held] /\ r \in [Elements -> Held]
  BY <1>1 DEF Held
<1>4. /\ DOMAIN heap = {1, 2} /\ heap[1] = Array(p) /\ heap[2] = Array(r)
      /\ Cells(heap)
  <2>1. DOMAIN heap = {1, 2} /\ heap[1] = Array(p) /\ heap[2] = Array(r)
    BY <1>2
  <2>2. Array(p) \in CellsOver({1, 2}) /\ Array(r) \in CellsOver({1, 2})
    BY <1>3 DEF Array, CellsOver
  <2>. QED BY <1>2, <2>1, <2>2 DEF Cells
<1>5. ~heap[1].isdiff /\ ~heap[2].isdiff /\ heap[1].a = p /\ heap[2].a = r
  BY <1>4 DEF Array
<1>6. Well(heap, {1})
  <2>. DEFINE m == [c \in DOMAIN heap |-> 0]
  <2>1. Falls(heap, 0, m)
    BY <1>4, <1>5 DEF Falls
  <2>. QED BY <1>4, <1>5, <2>1 DEF Well, Ranked, Split
<1>7. ContentsOf(heap)[1] = p /\ ContentsOf(heap)[2] = r
  <2>1. Stands(heap, ContentsOf(heap))
    BY <1>6, ContentsExist DEF Well
  <2>2. 1 \in DOMAIN heap /\ 2 \in DOMAIN heap
    BY <1>4
  <2>. QED BY <1>5, <2>1, <2>2 DEF Stands
<1>8. Climbing(p, r, 0)
  BY <1>1 DEF Climbing
<1>9. Weighty(p, r)
  <2>. SUFFICES ASSUME NEW x \in Elements, p[x] = x
                PROVE  2 ^ r[x] <= Cardinality(Under(p, x))
    BY DEF Weighty
  <2>1. \A y \in Elements : RootsOf(p)[y] = y
    BY <1>1, <1>8, RootsExist DEF Rooted
  <2>2. Under(p, x) = {x}
    BY <2>1 DEF Under
  <2>3. Cardinality(Under(p, x)) = 1
    BY <2>2, FS_Singleton
  <2>4. 2 ^ r[x] = 1
    BY <1>1, PowerOfZero
  <2>. QED BY <2>3, <2>4
<1>10. versions \in Seq([rep : Nat, rank : Nat]) /\ Len(versions) > 0
  BY <1>2
<1>11. Latest = [rep |-> 1, rank |-> 2]
  BY <1>2 DEF Latest, Last
<1>12. Forest(heap, Latest)
  BY <1>4, <1>6, <1>7, <1>8, <1>9, <1>11 DEF Forest
<1>. QED BY <1>2, <1>10, <1>12, IndicesAssumption DEF IInv, Elements

\* What one step does: a find reads a root and leaves the roots, and a unio
\* leaves them or makes one root the child of another.
LEMMA FindStep ==
    ASSUME IInv, NEW x \in Elements, Find(Latest, x)
    PROVE  /\ IInv' /\ Latest' = Latest
           /\ Led(heap, Latest)' = Led(heap, Latest)
           /\ answer' = Led(heap, Latest)[x]
<1>. HIDE DEF ContentsOf, RootsOf
<1>1. PICK h, F : h = Latest /\ F = FindAux(heap, h.rep, x)
  OBVIOUS
<1>2. heap' = F.heap /\ answer' = F.root /\ versions' = versions
  BY <1>1 DEF Find
<1>3. Latest' = h
  BY <1>1, <1>2 DEF Latest
<1>4. F.root = Led(heap, h)[x] /\ Forest(F.heap, h) /\ Led(F.heap, h) = Led(heap, h)
  BY <1>1, FindForest DEF IInv
<1>5. Led(heap, h)[x] \in Elements
  BY <1>1, RootsRise DEF IInv, Forest, Led
<1>. QED BY <1>1, <1>2, <1>3, <1>4, <1>5 DEF IInv, Led

LEMMA UnioStep ==
    ASSUME IInv, NEW x \in Elements, NEW y \in Elements, Unio(Latest, x, y)
    PROVE  /\ IInv' /\ answer' = answer
           /\ \/ Led(heap, Latest)' = Led(heap, Latest)
              \/ Unites(Led(heap, Latest), x, y, Led(heap, Latest)')
<1>. HIDE DEF ContentsOf, RootsOf
<1>1. PICK h, R, L : h = Latest /\ R = Roots(heap, h, x, y) /\ L = Link(R, h.rank, h.rep)
  OBVIOUS
<1>2. /\ R.x = Led(heap, h)[x] /\ R.y = Led(heap, h)[y]
      /\ Forest(R.heap, h) /\ Led(R.heap, h) = Led(heap, h)
      /\ R.x # R.y =>
           /\ L.version \in [rep : Nat, rank : Nat]
           /\ Forest(L.heap, L.version)
           /\ Unites(Led(heap, h), x, y, Led(L.heap, L.version))
  <2>1. PICK H : H = heap
    OBVIOUS
  <2>2. Forest(H, h) /\ R = Roots(H, h, x, y) /\ L = Link(R, h.rank, h.rep) /\ x \in Elements /\ y \in Elements
    BY <1>1, <2>1 DEF IInv
  <2>3. /\ R.x = Led(H, h)[x] /\ R.y = Led(H, h)[y]
        /\ Forest(R.heap, h) /\ Led(R.heap, h) = Led(H, h)
        /\ R.x # R.y =>
             /\ L.version \in [rep : Nat, rank : Nat]
             /\ Forest(L.heap, L.version)
             /\ Unites(Led(H, h), x, y, Led(L.heap, L.version))
    BY ONLY <2>2, UnioForest
  <2>. QED BY <2>1, <2>3
<1>3. CASE R.x = R.y
  <2>1. heap' = R.heap /\ versions' = versions /\ answer' = answer
    BY <1>1, <1>3 DEF Unio
  <2>2. Latest' = h
    BY <1>1, <2>1 DEF Latest
  <2>. QED BY <1>1, <1>2, <2>1, <2>2 DEF IInv, Led
<1>4. CASE R.x # R.y
  <2>1. /\ heap' = L.heap /\ versions' = Append(versions, L.version)
        /\ answer' = answer
    BY <1>1, <1>4 DEF Unio
  <2>2. /\ versions' \in Seq([rep : Nat, rank : Nat]) /\ Len(versions') > 0
        /\ Last(versions') = L.version
    BY <1>2, <1>4, <2>1 DEF IInv, Last
  <2>3. Latest' = L.version
    BY <2>2 DEF Latest
  <2>4. IInv'
    BY <1>2, <1>4, <2>1, <2>2, <2>3 DEF IInv
  <2>5. Led(heap, Latest)' = Led(L.heap, L.version)
    BY <2>1, <2>3 DEF Led
  <2>. QED BY <1>1, <1>2, <1>4, <2>1, <2>4, <2>5
<1>. QED BY <1>3, <1>4

LEMMA NextIInv == IInv /\ [Next]_vars => IInv'
<1>. SUFFICES ASSUME IInv, [Next]_vars PROVE IInv'
  OBVIOUS
<1>1. CASE \E x \in Elements : Find(Latest, x)
  BY <1>1, FindStep
<1>2. CASE \E x, y \in Elements : Unio(Latest, x, y)
  BY <1>2, UnioStep
<1>3. CASE UNCHANGED vars
  BY <1>3 DEF vars, IInv, Latest
<1>. QED BY <1>1, <1>2, <1>3 DEF Next

\* The ranks of the latest version bound its paths (cfpds.cpp, unio): the rank
\* of a child is below its parent's, through every find and every union, and a
\* root of rank k has at least 2^k elements.
THEOREM RanksBoundAlways == Spec => []RanksBound
<1>1. IInv => RanksBound
  <2>. SUFFICES ASSUME IInv PROVE RanksBound
    OBVIOUS
  <2>. HIDE DEF ContentsOf, RootsOf
  <2>1. PICK p, r : p = Parents(Latest) /\ r = Ranks(Latest)
    OBVIOUS
  <2>2. Weighty(p, r) /\ \A x \in Elements : p[x] # x => r[x] < r[p[x]]
    BY <2>1 DEF IInv, Forest, Parents, Ranks, Climbing
  <2>. QED BY <2>1, <2>2 DEF RanksBound, Weighty, Under
<1>. QED BY <1>1, InitIInv, NextIInv, PTL DEF Spec

---------------------------------------------------------------------------
(* The sets of the roots.                                                  *)

Class(R, x) == {y \in Elements : R[y] = R[x]}
LeadersOf(R) == [S \in SetsOf(R) |-> R[CHOOSE x \in S : TRUE]]
ClassOf(R, x) == CHOOSE S \in SetsOf(R) : x \in S

\* An element is in one set, led by its root.
LEMMA ClassLed ==
    ASSUME NEW R, NEW x \in Elements
    PROVE  /\ Class(R, x) \in SetsOf(R) /\ x \in Class(R, x)
           /\ ClassOf(R, x) = Class(R, x)
           /\ LeadersOf(R)[Class(R, x)] = R[x]
<1>1. Class(R, x) \in SetsOf(R) /\ x \in Class(R, x)
  BY DEF Class, SetsOf
<1>2. \A S \in SetsOf(R) : x \in S => S = Class(R, x)
  BY DEF Class, SetsOf
<1>3. ClassOf(R, x) = Class(R, x)
  BY <1>1, <1>2 DEF ClassOf
<1>4. PICK S : S = Class(R, x)
  OBVIOUS
<1>5. (CHOOSE y \in S : TRUE) \in S
  BY <1>1, <1>4
<1>6. \A y \in S : R[y] = R[x]
  BY <1>4 DEF Class
<1>7. R[CHOOSE y \in S : TRUE] = R[x]
  BY <1>5, <1>6
<1>8. LeadersOf(R)[S] = R[x]
  BY <1>1, <1>4, <1>7 DEF LeadersOf
<1>. QED BY <1>1, <1>3, <1>4, <1>8

\* When one root goes below another, their sets become one, led by the latter.
\* The sets of x and y are one, led by the leader of one of them.
SetsUnite(R, x, y, T) ==
    LET joint == Class(R, x) \cup Class(R, y)
    IN  /\ SetsOf(T) = (SetsOf(R) \ {Class(R, x), Class(R, y)}) \cup {joint}
        /\ \E z \in {x, y} :
              LeadersOf(T) =
                  [S \in SetsOf(T) |->
                      IF S = joint THEN LeadersOf(R)[Class(R, z)] ELSE LeadersOf(R)[S]]

LEMMA RootsUnite ==
    ASSUME NEW R, NEW x \in Elements, NEW y \in Elements, NEW T, Unites(R, x, y, T)
    PROVE  SetsUnite(R, x, y, T)
<1>J. PICK J : J = Class(R, x) \cup Class(R, y)
  OBVIOUS
<1>0. PICK c, d : /\ c # d /\ {c, d} = {R[x], R[y]}
                  /\ \A w \in Elements : T[w] = IF R[w] = c THEN d ELSE R[w]
  BY DEF Unites
<1>. USE <1>0, <1>J
<1>1. J = {w \in Elements : R[w] \in {c, d}}
  BY DEF Class
<1>2. ASSUME NEW w \in Elements, R[w] \in {c, d}
      PROVE  Class(T, w) = J /\ T[w] = d /\ Class(R, w) \in {Class(R, x), Class(R, y)}
  <2>1. T[w] = d
    BY <1>2
  <2>2. \A v \in Elements : T[v] = d <=> R[v] \in {c, d}
    BY <1>2
  <2>3. Class(T, w) = J
    BY <1>1, <2>1, <2>2 DEF Class
  <2>. QED BY <1>2, <2>1, <2>3 DEF Class
<1>3. ASSUME NEW w \in Elements, R[w] \notin {c, d}
      PROVE  /\ Class(T, w) = Class(R, w) /\ T[w] = R[w] /\ Class(R, w) # J
             /\ Class(R, w) \notin {Class(R, x), Class(R, y)}
  <2>1. T[w] = R[w]
    BY <1>3
  <2>2. \A v \in Elements : T[v] = R[w] <=> R[v] = R[w]
    BY <1>3
  <2>3. Class(T, w) = Class(R, w)
    BY <2>1, <2>2 DEF Class
  <2>4. w \in Class(R, w) /\ w \notin J /\ w \notin Class(R, x) /\ w \notin Class(R, y)
    BY <1>1, <1>3 DEF Class
  <2>. QED BY <2>1, <2>3, <2>4
<1>4. SetsOf(T) \subseteq (SetsOf(R) \ {Class(R, x), Class(R, y)}) \cup {J}
  <2>. SUFFICES ASSUME NEW w \in Elements
                PROVE  Class(T, w) \in (SetsOf(R) \ {Class(R, x), Class(R, y)}) \cup {J}
    BY DEF SetsOf, Class
  <2>. QED BY <1>2, <1>3, ClassLed
<1>5. J \in SetsOf(T)
  <2>1. Class(T, x) = J
    BY <1>2
  <2>. QED BY <2>1, ClassLed
<1>6. ASSUME NEW S \in SetsOf(R), S # Class(R, x), S # Class(R, y)
      PROVE  S \in SetsOf(T)
  <2>1. PICK w \in Elements : S = Class(R, w)
    BY DEF SetsOf, Class
  <2>2. R[w] \notin {c, d}
    BY <1>2, <1>6, <2>1
  <2>. QED BY <1>3, <2>1, <2>2, ClassLed
<1>7. PICK z \in {x, y} : R[z] = d
  OBVIOUS
<1>8. ASSUME NEW S \in SetsOf(T)
      PROVE  LeadersOf(T)[S] = IF S = J THEN LeadersOf(R)[Class(R, z)] ELSE LeadersOf(R)[S]
  <2>1. PICK w \in Elements : S = Class(T, w)
    BY DEF SetsOf, Class
  <2>2. LeadersOf(T)[S] = T[w]
    BY <2>1, ClassLed
  <2>3. CASE R[w] \in {c, d}
    <3>1. S = J /\ T[w] = d /\ LeadersOf(R)[Class(R, z)] = d
      BY <1>2, <1>7, <2>1, <2>3, ClassLed
    <3>. QED BY <2>2, <3>1
  <2>4. CASE R[w] \notin {c, d}
    <3>1. S # J /\ S = Class(R, w) /\ T[w] = R[w]
      BY <1>3, <2>1, <2>4
    <3>2. LeadersOf(R)[Class(R, w)] = R[w]
      BY ClassLed
    <3>. QED BY <2>2, <3>1, <3>2
  <2>. QED BY <2>3, <2>4
<1>9. LeadersOf(T) = [S \in SetsOf(T) |-> LeadersOf(T)[S]]
  BY DEF LeadersOf
<1>10. LeadersOf(T) =
          [S \in SetsOf(T) |-> IF S = J THEN LeadersOf(R)[Class(R, z)] ELSE LeadersOf(R)[S]]
  BY <1>8, <1>9
<1>11. SetsOf(T) = (SetsOf(R) \ {Class(R, x), Class(R, y)}) \cup {J}
  BY <1>4, <1>5, <1>6
<1>. QED BY <1>10, <1>11 DEF SetsUnite

\* A client that always uses the version it got last has a union-find
\* (cfpds.cpp, find and unio): a find answers with the leader of the element's
\* set and changes no set, however it rearranges the cells, and a unio joins
\* two sets under the leader of one of them or finds them joined.
THEOREM FindsSetsAlways == Spec => FindsSets
<1>. DEFINE roots == Led(heap, Latest)
<1>. HIDE DEF ContentsOf, RootsOf
<1>1. Sets(Latest) = SetsOf(roots)
  BY DEF Sets, Parents, Led
<1>1a. Sets(Latest)' = SetsOf(roots')
  BY DEF Sets, Parents, Led
<1>2. [S \in Sets(Latest) |-> RootsOf(Parents(Latest))[CHOOSE x \in S : TRUE]] = LeadersOf(roots)
  BY <1>1 DEF LeadersOf, Parents, Led
<1>2a. [S \in Sets(Latest) |-> RootsOf(Parents(Latest))[CHOOSE x \in S : TRUE]]' = LeadersOf(roots')
  BY <1>1a DEF LeadersOf, Parents, Led
<1>3. \A x : Promise!SetOf(x) = ClassOf(roots, x)
  BY <1>1 DEF Promise!SetOf, ClassOf
<1>4. Init => Promise!Init
  <2>. SUFFICES ASSUME Init PROVE Promise!Init
    OBVIOUS
  <2>1. IInv
    BY InitIInv
  <2>2. \A x \in Elements : roots[x] = x
    <3>1. PICK p : p = [k \in Elements |-> k]
      OBVIOUS
    <3>2. Latest.rep = 1 /\ heap = <<Array(p), Array([k \in Elements |-> 0])>>
      BY <3>1 DEF Init, Latest, Last
    <3>3. 1 \in DOMAIN heap /\ ~heap[1].isdiff /\ heap[1].a = p
      BY <3>2 DEF Array
    <3>4. ContentsOf(heap)[1] = p
      BY <2>1, <3>3, ContentsExist DEF IInv, Forest, Well, Stands
    <3>5. PICK r, K : K \in Nat /\ Climbing(p, r, K)
      BY <2>1, <3>2, <3>4 DEF IInv, Forest
    <3>. QED BY <3>1, <3>2, <3>4, <3>5, RootsExist DEF Rooted, Led
  <2>. HIDE DEF roots
  <2>3. \A x \in Elements : Class(roots, x) = {x}
    BY <2>2 DEF Class
  <2>4. SetsOf(roots) = {{x} : x \in Elements}
    BY <2>3 DEF SetsOf, Class
  <2>5. LeadersOf(roots) = [S \in SetsOf(roots) |-> CHOOSE x \in Elements : x \in S]
    <3>1. ASSUME NEW S \in SetsOf(roots)
          PROVE  roots[CHOOSE x \in S : TRUE] = CHOOSE x \in Elements : x \in S
      <4>1. PICK y \in Elements : S = {y}
        BY <2>4
      <4>. QED BY <2>2, <4>1
    <3>. QED BY <3>1 DEF LeadersOf
  <2>. QED BY <1>1, <1>2, <2>1, <2>4, <2>5 DEF Promise!Init, IInv
<1>5. IInv /\ [Next]_vars => [Promise!Next]_Promise!vars
  <2>. SUFFICES ASSUME IInv, [Next]_vars PROVE [Promise!Next]_Promise!vars
    OBVIOUS
  <2>. HIDE DEF roots
  <2>1. ASSUME NEW x \in Elements, Find(Latest, x) PROVE Promise!Find(x)
    <3>1. roots' = roots /\ answer' = roots[x]
      BY <2>1, FindStep DEF roots
    <3>2. LeadersOf(roots)[Promise!SetOf(x)] = roots[x]
      BY <1>3, ClassLed
    <3>. QED BY <1>1, <1>1a, <1>2, <1>2a, <3>1, <3>2 DEF Promise!Find
  <2>2. ASSUME NEW x \in Elements, NEW y \in Elements, Unio(Latest, x, y)
        PROVE  Promise!Unite(x, y) \/ UNCHANGED Promise!vars
    <3>1. answer' = answer
      BY <2>2, UnioStep
    <3>2. CASE roots' = roots
      BY <1>1, <1>1a, <1>2, <1>2a, <3>1, <3>2 DEF Promise!vars
    <3>3. CASE Unites(roots, x, y, roots')
      <4>1. SetsUnite(roots, x, y, roots')
        BY <3>3, RootsUnite
      <4>2. PICK J : J = Class(roots, x) \cup Class(roots, y)
        OBVIOUS
      <4>3. /\ Promise!SetOf(x) = Class(roots, x) /\ Promise!SetOf(y) = Class(roots, y)
            /\ \A z \in {x, y} : Promise!SetOf(z) = Class(roots, z)
        BY <1>3, ClassLed
      <4>. QED BY <1>1, <1>1a, <1>2, <1>2a, <3>1, <4>1, <4>2, <4>3 DEF Promise!Unite, SetsUnite
    <3>. QED BY <2>2, <3>2, <3>3, UnioStep DEF roots
  <2>3. CASE UNCHANGED vars
    <3>1. roots' = roots /\ answer' = answer
      BY <2>3 DEF vars, roots, Led, Latest
    <3>. QED BY <1>1, <1>1a, <1>2, <1>2a, <3>1 DEF Promise!vars
  <2>. QED BY <2>1, <2>2, <2>3 DEF Next, Promise!Next
<1>. QED BY <1>4, <1>5, InitIInv, NextIInv, PTL DEF Spec, FindsSets, Promise!Spec

=============================================================================
