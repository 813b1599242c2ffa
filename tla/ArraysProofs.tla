---------------------------- MODULE ArraysProofs ----------------------------
(***************************************************************************)
(* Proofs about the persistent arrays: the cells have one array among      *)
(* them, reroot's copies of a difference are not stale when it uses them,  *)
(* and the whole implements Versions, for every size of the arrays, set of *)
(* values and number of cells.                                             *)
(***************************************************************************)
EXTENDS PersistentArrays, TLAPS

---------------------------------------------------------------------------
(* What Swap and Store do to a heap.                                       *)

Cells(H) == H \in Seq(CellsTo(DOMAIN H))

\* A cell of a heap, read.
LEMMA CellOf ==
    ASSUME NEW H, Cells(H), NEW c \in DOMAIN H
    PROVE  /\ DOMAIN H = 1..Len(H) /\ Len(H) \in Nat
           /\ H[c].isdiff \in BOOLEAN
           /\ H[c].isdiff => /\ H[c] = Diff(H[c].i, H[c].v, H[c].t)
                             /\ H[c] \in [isdiff : {TRUE}, i : Indices, v : Values, t : DOMAIN H]
                             /\ H[c].i \in Indices /\ H[c].v \in Values
                             /\ H[c].t \in DOMAIN H
           /\ ~H[c].isdiff => H[c] = Array(H[c].a) /\ H[c].a \in Arrays
<1>1. DOMAIN H = 1..Len(H) /\ Len(H) \in Nat
  BY DEF Cells
<1>2. H[c] \in CellsTo(DOMAIN H)
  BY DEF Cells
<1>3. CASE H[c] \in [isdiff : {FALSE}, a : Arrays]
  <2>1. ~H[c].isdiff /\ H[c].isdiff \in BOOLEAN /\ H[c].a \in Arrays
    BY <1>3
  <2>2. H[c] = Array(H[c].a)
    BY <1>3 DEF Array
  <2>. QED BY <1>1, <2>1, <2>2
<1>4. CASE H[c] \in [isdiff : {TRUE}, i : Indices, v : Values, t : DOMAIN H]
  <2>1. H[c].isdiff /\ H[c].isdiff \in BOOLEAN
    BY <1>4
  <2>2. H[c].i \in Indices /\ H[c].v \in Values /\ H[c].t \in DOMAIN H
    BY <1>4
  <2>3. H[c] = Diff(H[c].i, H[c].v, H[c].t)
    BY <1>4 DEF Diff
  <2>. QED BY <1>1, <1>4, <2>1, <2>2, <2>3
<1>. QED BY <1>2, <1>3, <1>4 DEF CellsTo

\* Both ends of the difference d change, and nothing else.
LEMMA SwapCells ==
    ASSUME NEW H, Cells(H), NEW c \in DOMAIN H, NEW d,
           d.i \in Indices, d.v \in Values, d.t \in DOMAIN H,
           ~H[d.t].isdiff, c # d.t
    PROVE  /\ Cells(Swap(H, c, d))
           /\ Len(Swap(H, c, d)) = Len(H) /\ DOMAIN Swap(H, c, d) = DOMAIN H
           /\ Swap(H, c, d)[c] = Array([H[d.t].a EXCEPT ![d.i] = d.v])
           /\ Swap(H, c, d)[d.t] = Diff(d.i, H[d.t].a[d.i], c)
           /\ \A b \in DOMAIN H \ {c, d.t} : Swap(H, c, d)[b] = H[b]
<1>. DEFINE S == Swap(H, c, d)
<1>1. H[d.t].a \in Arrays /\ DOMAIN H = 1..Len(H) /\ Len(H) \in Nat
  BY CellOf
<1>2. [H[d.t].a EXCEPT ![d.i] = d.v] \in Arrays /\ H[d.t].a[d.i] \in Values
  BY <1>1 DEF Arrays
<1>3. Array([H[d.t].a EXCEPT ![d.i] = d.v]) \in CellsTo(DOMAIN H)
  BY <1>2 DEF Array, CellsTo
<1>4. Diff(d.i, H[d.t].a[d.i], c) \in CellsTo(DOMAIN H)
  BY <1>2 DEF Diff, CellsTo
<1>5. H \in Seq(CellsTo(DOMAIN H))
  BY DEF Cells
<1>6. S \in Seq(CellsTo(DOMAIN H)) /\ Len(S) = Len(H) /\ DOMAIN S = DOMAIN H
  BY <1>1, <1>3, <1>4, <1>5 DEF Swap
<1>. QED BY <1>1, <1>5, <1>6 DEF Swap, Cells

\* The cell written to becomes the difference from a new one.
LEMMA StoreCells ==
    ASSUME NEW H, Cells(H), NEW c \in DOMAIN H, ~H[c].isdiff,
           NEW i \in Indices, NEW v \in Values, H[c].a[i] # v,
           NEW S, S = Store(H, c, i, v)
    PROVE  /\ Cells(S.heap)
           /\ S.cell = Len(H) + 1
           /\ Len(S.heap) = Len(H) + 1 /\ DOMAIN S.heap = DOMAIN H \cup {Len(H) + 1}
           /\ S.heap[c] = Diff(i, H[c].a[i], Len(H) + 1)
           /\ S.heap[Len(H) + 1] = Array([H[c].a EXCEPT ![i] = v])
           /\ \A b \in DOMAIN H \ {c} : S.heap[b] = H[b]
<1>. DEFINE new == Len(H) + 1
            a == H[c].a
            D == DOMAIN H \cup {new}
            T == [H EXCEPT ![c] = Diff(i, a[i], new)]
<1>1. a \in Arrays /\ DOMAIN H = 1..Len(H) /\ Len(H) \in Nat
  BY CellOf
<1>2. [a EXCEPT ![i] = v] \in Arrays /\ a[i] \in Values
  BY <1>1 DEF Arrays
<1>3. Array([a EXCEPT ![i] = v]) \in CellsTo(D) /\ Diff(i, a[i], new) \in CellsTo(D)
  BY <1>2 DEF Array, Diff, CellsTo
<1>4. CellsTo(DOMAIN H) \subseteq CellsTo(D)
  BY DEF CellsTo
<1>5. H \in Seq(CellsTo(D))
  <2>1. \A k \in 1..Len(H) : H[k] \in CellsTo(D)
    <3>1. \A k \in 1..Len(H) : H[k] \in CellsTo(DOMAIN H)
      BY DEF Cells
    <3>. HIDE DEF D
    <3>. QED BY <3>1, <1>4
  <2>2. H = [k \in 1..Len(H) |-> H[k]]
    BY DEF Cells
  <2>. HIDE DEF D
  <2>. QED BY <1>1, <2>1, <2>2
<1>6. T \in Seq(CellsTo(D)) /\ Len(T) = Len(H) /\ DOMAIN T = DOMAIN H
  BY <1>1, <1>3, <1>5
<1>7. S.heap = Append(T, Array([a EXCEPT ![i] = v])) /\ S.cell = new
  BY DEF Store
<1>8. S.heap \in Seq(CellsTo(D)) /\ Len(S.heap) = new /\ DOMAIN S.heap = D
  BY <1>1, <1>3, <1>6, <1>7
<1>9. S.heap[new] = Array([a EXCEPT ![i] = v]) /\ \A b \in DOMAIN H : S.heap[b] = T[b]
  BY <1>1, <1>6, <1>7
<1>10. T[c] = Diff(i, a[i], new) /\ \A b \in DOMAIN H \ {c} : T[b] = H[b]
  BY <1>1, <1>5
<1>. QED BY <1>7, <1>8, <1>9, <1>10 DEF Cells

---------------------------------------------------------------------------
(* The inductive invariant.                                                *)

\* The invocations that wait do so for the operation under way.
Called ==
    /\ call = Idle => frames = <<>>
    /\ call # Idle => call.t = IF frames = <<>> THEN t ELSE frames[1].t
    /\ \A k \in DOMAIN frames : frames[k].t \in DOMAIN heap
    /\ call.op = "set" => Len(heap) < MaxCells

\* The differences lead to the array: rk falls along them, and from each
\* invocation of reroot to the next.
Ranking(rk) ==
    /\ \A c \in DOMAIN heap : heap[c].isdiff => rk[heap[c].t] < rk[c]
    /\ \A k \in DOMAIN frames :
          /\ rk[t] < rk[frames[k].t]
          /\ \A j \in DOMAIN frames : j < k => rk[frames[k].t] < rk[frames[j].t]
Ranked == \E rk \in [DOMAIN heap -> Nat] : Ranking(rk)

IInv == TypeOK /\ OneArray /\ FramesCurrent /\ Denotes /\ Called /\ Ranked

LEMMA InitInv == ASSUME Init PROVE IInv
<1>1. PICK a \in Arrays : heap = <<Array(a)>> /\ contents = <<a>>
  BY DEF Init
<1>2. Array(a) \in CellsTo(DOMAIN heap) /\ ~Array(a).isdiff /\ Array(a).a = a
  BY <1>1 DEF Array, CellsTo
<1>3. Len(heap) = 1 /\ DOMAIN heap = {1} /\ heap[1] = Array(a) /\ Len(contents) = 1 /\ contents[1] = a
  BY <1>1
<1>4. heap \in Seq(CellsTo(DOMAIN heap)) /\ contents \in Seq(Arrays)
  BY <1>1, <1>2
<1>5. TypeOK
  BY <1>3, <1>4, MaxCellsAssumption DEF Init, TypeOK, Pointers, Calls
<1>6. OneArray /\ FramesCurrent /\ Denotes /\ Called
  BY <1>2, <1>3 DEF Init, OneArray, FramesCurrent, Denotes, Called, Idle
<1>7. Ranked
  <2>1. [c \in DOMAIN heap |-> 0] \in [DOMAIN heap -> Nat]
    OBVIOUS
  <2>2. Ranking([c \in DOMAIN heap |-> 0])
    BY <1>2, <1>3 DEF Init, Ranking
  <2>. QED BY <2>1, <2>2 DEF Ranked
<1>. QED BY <1>5, <1>6, <1>7 DEF IInv

\* What the invariant says of the cells.
LEMMA InvCells ==
    ASSUME IInv
    PROVE  /\ Cells(heap) /\ DOMAIN heap = 1..Len(heap) /\ Len(heap) \in Nat
           /\ DOMAIN contents = DOMAIN heap
           /\ \A c \in DOMAIN heap : contents[c] \in Arrays
           /\ t \in DOMAIN heap
BY DEF IInv, TypeOK, Cells

LEMMA CallInv ==
    ASSUME IInv, call = Idle, t' \in DOMAIN heap, call' \in Calls, call' # Idle, call'.t = t',
           call'.op = "set" => Len(heap) < MaxCells,
           UNCHANGED <<heap, frames, answer, contents>>
    PROVE  IInv'
<1>1. frames = <<>>
  BY DEF IInv, Called
<1>2. TypeOK'
  BY DEF IInv, TypeOK
<1>3. OneArray' /\ Denotes'
  BY DEF IInv, OneArray, Denotes
<1>4. FramesCurrent' /\ Called'
  BY <1>1 DEF IInv, FramesCurrent, Called
<1>5. Ranked'
  BY <1>1 DEF IInv, Ranked, Ranking
<1>. QED BY <1>2, <1>3, <1>4, <1>5 DEF IInv

LEMMA GetInv ==
    ASSUME IInv, NEW version \in DOMAIN heap, NEW i \in Indices, Get(version, i)
    PROVE  IInv'
<1>1. version \in Pointers
  BY InvCells, MaxCellsAssumption DEF IInv, TypeOK, Pointers
<1>2. /\ call' \in Calls /\ call' # Idle /\ call'.t = t' /\ t' \in DOMAIN heap
      /\ call'.op # "set"
  BY <1>1 DEF Get, Calls, Idle
<1>. QED BY <1>2, CallInv DEF Get

LEMMA SetInv ==
    ASSUME IInv, NEW version \in DOMAIN heap, NEW i \in Indices, NEW v \in Values,
           Set(version, i, v)
    PROVE  IInv'
<1>1. version \in Pointers
  BY InvCells, MaxCellsAssumption DEF IInv, TypeOK, Pointers
<1>2. call' \in Calls /\ call' # Idle /\ call'.t = t' /\ t' \in DOMAIN heap
  BY <1>1 DEF Set, Calls, Idle
<1>. QED BY <1>2, CallInv DEF Set

LEMMA DescendInv == ASSUME IInv, Descend PROVE IInv'
<1>. DEFINE n == Len(frames)
            f == [t |-> t, d |-> heap[t]]
<1>1. /\ heap[t] \in [isdiff : {TRUE}, i : Indices, v : Values, t : DOMAIN heap]
      /\ heap[t].i \in Indices /\ heap[t].v \in Values /\ heap[t].t \in DOMAIN heap
  BY InvCells, CellOf DEF Descend
<1>2. t \in Pointers /\ heap[t].t \in Pointers
  BY <1>1, InvCells, MaxCellsAssumption DEF IInv, TypeOK, Pointers
<1>3. f \in Frames
  <2>1. DOMAIN heap \subseteq Pointers
    BY InvCells, MaxCellsAssumption DEF IInv, TypeOK, Pointers
  <2>2. heap[t] \in [isdiff : {TRUE}, i : Indices, v : Values, t : Pointers]
    BY <1>1, <2>1
  <2>. QED BY <1>2, <2>2 DEF Frames
<1>4. /\ frames \in Seq(Frames) /\ n \in Nat /\ frames' = Append(frames, f)
      /\ frames' \in Seq(Frames) /\ Len(frames') = n + 1
      /\ DOMAIN frames = 1..n /\ DOMAIN frames' = 1..(n + 1)
      /\ frames'[n + 1] = f /\ \A k \in 1..n : frames'[k] = frames[k]
  BY <1>3 DEF IInv, TypeOK, Descend
<1>5. TypeOK'
  BY <1>1, <1>4 DEF IInv, TypeOK, Descend
<1>6. OneArray' /\ Denotes'
  BY DEF IInv, OneArray, Denotes, Descend
<1>7. FramesCurrent'
  <2>. SUFFICES ASSUME NEW k \in 1..(n + 1)
                PROVE  /\ heap[frames'[k].t] = frames'[k].d
                       /\ frames'[k].d.t = IF k = n + 1 THEN t' ELSE frames'[k + 1].t
    BY <1>4 DEF FramesCurrent, Descend
  <2>1. CASE k = n + 1
    BY <1>4, <2>1 DEF Descend
  <2>2. CASE k = n
    <3>1. k \in 1..n /\ k + 1 = n + 1 /\ k # n + 1
      <4>1. n \in Nat
        BY <1>4
      <4>. HIDE DEF n
      <4>. QED BY <2>2, <4>1
    <3>2. heap[frames[k].t] = frames[k].d /\ frames[k].d.t = t
      BY <1>4, <2>2, <3>1 DEF IInv, FramesCurrent
    <3>3. frames'[k + 1].t = t
      BY <1>4, <3>1
    <3>. QED BY <1>4, <3>1, <3>2, <3>3
  <2>3. CASE k < n
    <3>1. k \in 1..n /\ k + 1 \in 1..n /\ k # n /\ k # n + 1
      <4>1. n \in Nat
        BY <1>4
      <4>. HIDE DEF n
      <4>. QED BY <2>3, <4>1
    <3>2. heap[frames[k].t] = frames[k].d /\ frames[k].d.t = frames[k + 1].t
      BY <1>4, <3>1 DEF IInv, FramesCurrent
    <3>3. frames'[k] = frames[k] /\ frames'[k + 1] = frames[k + 1]
      BY <1>4, <3>1
    <3>. QED BY <3>1, <3>2, <3>3
  <2>4. k = n + 1 \/ k = n \/ k < n
    <3>1. n \in Nat
      BY <1>4
    <3>. HIDE DEF n
    <3>. QED BY <3>1
  <2>. QED BY <2>1, <2>2, <2>3, <2>4
<1>8. Called'
  <2>1. call' # Idle /\ call' = call
    BY DEF Descend
  <2>2. frames' # <<>>
    BY <1>4
  <2>3. call.t = frames'[1].t
    <3>1. CASE n = 0
      BY <1>4, <3>1, <2>1 DEF IInv, Called
    <3>2. CASE n # 0
      BY <1>4, <3>2, <2>1 DEF IInv, Called
    <3>. QED BY <3>1, <3>2
  <2>4. \A k \in 1..(n + 1) : frames'[k].t \in DOMAIN heap
    BY <1>4, InvCells DEF IInv, Called
  <2>5. call'.op = "set" => Len(heap') < MaxCells
    BY <2>1 DEF IInv, Called, Descend
  <2>. QED BY <1>4, <2>1, <2>2, <2>3, <2>4, <2>5 DEF Called, Descend
<1>9. Ranked'
  <2>1. PICK rk \in [DOMAIN heap -> Nat] : Ranking(rk)
    BY DEF IInv, Ranked
  <2>2. rk[heap[t].t] < rk[t] /\ t' = heap[t].t /\ heap' = heap
    BY <2>1, InvCells DEF Ranking, Descend
  <2>3. /\ rk[t] \in Nat /\ rk[t'] \in Nat
        /\ \A k \in 1..n : rk[frames[k].t] \in Nat
    BY <1>1, <1>4, <2>1, <2>2, InvCells DEF IInv, Called
  <2>4. \A k \in 1..(n + 1) :
           /\ rk[t'] < rk[frames'[k].t]
           /\ \A j \in 1..(n + 1) : j < k => rk[frames'[k].t] < rk[frames'[j].t]
    <3>1. \A k \in 1..n : rk[t] < rk[frames[k].t]
      BY <1>4, <2>1 DEF Ranking
    <3>2. \A k, j \in 1..n : j < k => rk[frames[k].t] < rk[frames[j].t]
      BY <1>4, <2>1 DEF Ranking
    <3>3. \A k \in 1..(n + 1) : rk[t'] < rk[frames'[k].t]
      BY <1>4, <2>2, <2>3, <3>1
    <3>4. \A k, j \in 1..(n + 1) : j < k => rk[frames'[k].t] < rk[frames'[j].t]
      <4>. SUFFICES ASSUME NEW k \in 1..(n + 1), NEW j \in 1..(n + 1), j < k
                    PROVE  rk[frames'[k].t] < rk[frames'[j].t]
        OBVIOUS
      <4>1. j \in 1..n /\ frames'[j] = frames[j]
        BY <1>4
      <4>2. CASE k = n + 1
        BY <1>4, <3>1, <4>1, <4>2
      <4>3. CASE k # n + 1
        <5>1. k \in 1..n /\ frames'[k] = frames[k]
          BY <1>4, <4>3
        <5>. QED BY <3>2, <4>1, <5>1
      <4>. QED BY <4>2, <4>3
    <3>. QED BY <3>3, <3>4
  <2>5. Ranking(rk)'
    BY <1>4, <2>1, <2>2, <2>4 DEF Ranking
  <2>. QED BY <2>1, <2>2, <2>5 DEF Ranked
<1>. QED BY <1>5, <1>6, <1>7, <1>8, <1>9 DEF IInv

LEMMA AscendInv == ASSUME IInv, Ascend PROVE IInv'
<1>. DEFINE n == Len(frames)
            f == frames[n]
            d == f.d
            a == [heap[t].a EXCEPT ![d.i] = d.v]
<1>0. /\ frames \in Seq(Frames) /\ n \in Nat \ {0} /\ DOMAIN frames = 1..n
      /\ f \in Frames /\ f = Last(frames) /\ frames' = SubSeq(frames, 1, n - 1)
  BY DEF IInv, TypeOK, Ascend, Last, Front
<1>1. /\ frames' \in Seq(Frames) /\ Len(frames') = n - 1
      /\ DOMAIN frames' = 1..(n - 1) /\ \A k \in 1..(n - 1) : frames'[k] = frames[k]
  <2>1. \A k \in 1..(n - 1) : k \in 1..n
    BY <1>0
  <2>. QED BY <1>0, <2>1, SMTT(30)
<1>2. /\ f.t \in DOMAIN heap /\ heap[f.t] = d /\ d.t = t /\ t' = f.t
      /\ heap' = Swap(heap, f.t, d)
  BY <1>0, <1>1 DEF IInv, FramesCurrent, Called, Ascend
<1>3. d.isdiff /\ d.i \in Indices /\ d.v \in Values
  BY <1>0, <1>1 DEF Frames
<1>4. ~heap[t].isdiff /\ f.t # t
  BY <1>2, <1>3 DEF Ascend
<1>5. /\ Cells(heap') /\ Len(heap') = Len(heap) /\ DOMAIN heap' = DOMAIN heap
      /\ heap'[f.t] = Array(a)
      /\ heap'[t] = Diff(d.i, heap[t].a[d.i], f.t)
      /\ \A b \in DOMAIN heap \ {f.t, t} : heap'[b] = heap[b]
  <2>1. Cells(heap) /\ d.t \in DOMAIN heap /\ ~heap[d.t].isdiff /\ f.t # d.t
    BY <1>2, <1>4, InvCells
  <2>2. f.t \in DOMAIN heap /\ heap' = Swap(heap, f.t, d)
    BY <1>2
  <2>3. /\ Cells(heap') /\ Len(heap') = Len(heap) /\ DOMAIN heap' = DOMAIN heap
        /\ heap'[f.t] = Array([heap[d.t].a EXCEPT ![d.i] = d.v])
        /\ heap'[d.t] = Diff(d.i, heap[d.t].a[d.i], f.t)
        /\ \A b \in DOMAIN heap \ {f.t, d.t} : heap'[b] = heap[b]
    <3>. HIDE DEF f, d
    <3>. QED BY <1>3, <2>1, <2>2, SwapCells, SMTT(30)
  <2>. QED BY <1>2, <2>3
<1>6. /\ ~heap'[f.t].isdiff /\ heap'[f.t].a = a
      /\ heap'[t].isdiff /\ heap'[t].i = d.i /\ heap'[t].v = heap[t].a[d.i] /\ heap'[t].t = f.t
  BY <1>5 DEF Array, Diff
<1>7. \A k \in 1..(n - 1) : frames[k].t \notin {f.t, t} /\ frames[k].t \in DOMAIN heap
  <2>. SUFFICES ASSUME NEW k \in 1..(n - 1)
                PROVE  frames[k].t # f.t /\ frames[k].t # t /\ frames[k].t \in DOMAIN heap
    OBVIOUS
  <2>1. k \in 1..n /\ k < n /\ frames[k] \in Frames /\ frames[k].t \in DOMAIN heap
    BY <1>0, <1>1 DEF IInv, Called
  <2>2. frames[k].t # t
    BY <1>0, <1>1, <1>4, <2>1 DEF IInv, FramesCurrent, Frames
  <2>3. PICK rk \in [DOMAIN heap -> Nat] : Ranking(rk)
    BY DEF IInv, Ranked
  <2>4. rk[f.t] < rk[frames[k].t] /\ rk[f.t] \in Nat
    BY <1>0, <1>1, <1>2, <2>1, <2>3 DEF Ranking
  <2>. QED BY <2>1, <2>2, <2>4
<1>8. TypeOK'
  BY <1>0, <1>1, <1>2, <1>5 DEF IInv, TypeOK, Ascend, Cells
<1>9. OneArray'
  <2>1. \A b \in DOMAIN heap : heap[b].isdiff <=> b # t
    BY <1>4, InvCells DEF IInv, OneArray
  <2>2. \A b \in DOMAIN heap : heap'[b].isdiff <=> b # f.t
    BY <1>4, <1>5, <1>6, <2>1
  <2>. QED BY <1>2, <1>5, <2>2 DEF OneArray
<1>10. FramesCurrent'
  <2>. SUFFICES ASSUME NEW k \in 1..(n - 1)
                PROVE  /\ heap'[frames'[k].t] = frames'[k].d
                       /\ frames'[k].d.t = IF k = n - 1 THEN t' ELSE frames'[k + 1].t
    BY <1>0, <1>1 DEF FramesCurrent
  <2>1. k \in 1..n /\ k # n /\ k + 1 \in 1..n /\ (k # n - 1 => k + 1 \in 1..(n - 1))
         /\ (k = n - 1 => k + 1 = n)
    <3>1. n \in Nat \ {0}
      BY <1>0
    <3>. HIDE DEF n
    <3>. QED BY <3>1
  <2>2. heap[frames[k].t] = frames[k].d /\ frames[k].d.t = frames[k + 1].t
    BY <1>0, <1>1, <2>1 DEF IInv, FramesCurrent
  <2>3. heap'[frames[k].t] = heap[frames[k].t]
    BY <1>5, <1>7
  <2>4. CASE k = n - 1
    BY <1>0, <1>1, <1>2, <2>1, <2>2, <2>3, <2>4
  <2>5. CASE k # n - 1
    BY <1>0, <1>1, <2>1, <2>2, <2>3, <2>5
  <2>. QED BY <2>4, <2>5
<1>11. Denotes'
  <2>1. contents' = contents /\ contents[t] = heap[t].a /\ heap[t].a \in Arrays
    BY <1>4, InvCells, CellOf DEF IInv, Denotes, Ascend
  <2>2. contents[f.t] = a
    BY <1>2, <1>3, <2>1 DEF IInv, Denotes
  <2>3. contents[t] = [a EXCEPT ![d.i] = heap[t].a[d.i]]
    BY <1>3, <2>1 DEF Arrays
  <2>. SUFFICES ASSUME NEW c \in DOMAIN heap
                PROVE  contents[c] = IF heap'[c].isdiff
                                     THEN [contents[heap'[c].t] EXCEPT ![heap'[c].i] = heap'[c].v]
                                     ELSE heap'[c].a
    BY <1>5, <2>1 DEF Denotes
  <2>4. CASE c = f.t
    BY <1>6, <2>2, <2>4
  <2>5. CASE c = t
    BY <1>6, <2>2, <2>3, <2>5
  <2>6. CASE c \notin {f.t, t}
    BY <1>5, <2>6 DEF IInv, Denotes
  <2>. QED BY <2>4, <2>5, <2>6
<1>12. Called'
  <2>1. call' = call /\ call # Idle /\ call.t = frames[1].t
    BY <1>0, <1>1 DEF IInv, Called, Ascend
  <2>. call'.op = "set" => Len(heap') < MaxCells
    BY <1>5, <2>1 DEF IInv, Called
  <2>2. CASE n = 1
    BY <1>0, <1>1, <1>2, <1>5, <2>1, <2>2 DEF Called
  <2>3. CASE n # 1
    <3>1. 1 \in 1..(n - 1)
      <4>1. n \in Nat \ {0}
        BY <1>0
      <4>. HIDE DEF n
      <4>. QED BY <2>3, <4>1
    <3>2. frames' # <<>> /\ frames'[1] = frames[1]
      BY <1>1, <3>1
    <3>. QED BY <1>0, <1>1, <1>5, <1>7, <2>1, <3>1, <3>2 DEF Called
  <2>. QED BY <2>2, <2>3
<1>13. Ranked'
  <2>1. PICK rk \in [DOMAIN heap -> Nat] : Ranking(rk)
    BY DEF IInv, Ranked
  <2>2. PICK up \in [DOMAIN heap -> Nat] :
           up = [c \in DOMAIN heap |-> IF c = f.t THEN 0 ELSE rk[c] + 1]
    <3>1. [c \in DOMAIN heap |-> IF c = f.t THEN 0 ELSE rk[c] + 1] \in [DOMAIN heap -> Nat]
      BY <2>1
    <3>. QED BY <3>1
  <2>3. \A c \in DOMAIN heap : heap'[c].isdiff => up[heap'[c].t] < up[c]
    <3>. SUFFICES ASSUME NEW c \in DOMAIN heap, heap'[c].isdiff
                  PROVE  up[heap'[c].t] < up[c]
      OBVIOUS
    <3>1. c # f.t
      BY <1>6
    <3>2. CASE c = t
      BY <1>2, <1>4, <1>6, <2>1, <2>2, <3>2, SMTT(30)
    <3>3. CASE c # t
      <4>1. heap'[c] = heap[c] /\ heap[c].t \in DOMAIN heap
        BY <1>5, <3>1, <3>3, InvCells, CellOf
      <4>2. rk[heap[c].t] < rk[c] /\ rk[c] \in Nat /\ rk[heap[c].t] \in Nat
        BY <2>1, <4>1 DEF Ranking
      <4>. QED BY <2>2, <3>1, <4>1, <4>2
    <3>. QED BY <3>2, <3>3
  <2>4. \A k \in 1..(n - 1) :
           /\ up[f.t] < up[frames[k].t]
           /\ \A j \in 1..(n - 1) : j < k => up[frames[k].t] < up[frames[j].t]
    <3>1. \A k \in 1..(n - 1) : up[frames[k].t] = rk[frames[k].t] + 1 /\ rk[frames[k].t] \in Nat
      BY <1>7, <2>1, <2>2
    <3>2. \A k \in 1..(n - 1) : k \in 1..n
      BY <1>0
    <3>3. \A k, j \in 1..(n - 1) : j < k => rk[frames[k].t] < rk[frames[j].t]
      BY <1>0, <2>1, <3>2 DEF Ranking
    <3>4. up[f.t] = 0
      BY <1>2, <2>2
    <3>. HIDE DEF f, n
    <3>. QED BY <3>1, <3>3, <3>4
  <2>5. \A k \in 1..(n - 1) :
           /\ up[t'] < up[frames'[k].t]
           /\ \A j \in 1..(n - 1) : j < k => up[frames'[k].t] < up[frames'[j].t]
    <3>. HIDE DEF f, n
    <3>. QED BY <1>1, <1>2, <2>4
  <2>6. \E r \in [DOMAIN heap' -> Nat] : Ranking(r)'
    <3>. HIDE DEF f, n
    <3>1. Ranking(up)'
      BY <1>1, <1>5, <2>3, <2>5 DEF Ranking
    <3>. QED BY <1>5, <2>2, <3>1
  <2>. QED BY <2>6 DEF Ranked
<1>. QED BY <1>8, <1>9, <1>10, <1>11, <1>12, <1>13 DEF IInv

\* The version asked for is the array, and holds what it should.
LEMMA RerootedAt ==
    ASSUME IInv, Rerooted, call # Idle
    PROVE  call.t = t /\ ~heap[t].isdiff /\ heap[t].a = contents[t] /\ heap[t].a \in Arrays
<1>1. call.t = t /\ ~heap[t].isdiff
  BY DEF IInv, Called, Rerooted
<1>2. heap[t].a = contents[t] /\ heap[t].a \in Arrays
  BY <1>1, InvCells, CellOf DEF IInv, Denotes
<1>. QED BY <1>1, <1>2

LEMMA CallParts ==
    ASSUME IInv
    PROVE  /\ call.op = "get" => call # Idle /\ call.i \in Indices
           /\ call.op = "set" => call # Idle /\ call.i \in Indices /\ call.v \in Values
BY DEF IInv, TypeOK, Calls, Idle

LEMMA GotInv == ASSUME IInv, Got PROVE IInv'
<1>1. call # Idle /\ call.i \in Indices /\ Rerooted
  BY CallParts DEF Got
<1>2. answer' \in Values
  BY <1>1, RerootedAt DEF Got, Arrays
<1>3. TypeOK'
  BY <1>2 DEF IInv, TypeOK, Got, Calls
<1>4. OneArray' /\ FramesCurrent' /\ Denotes'
  BY DEF IInv, OneArray, FramesCurrent, Denotes, Got
<1>5. Called'
  BY <1>1 DEF IInv, Called, Got, Rerooted, Idle
<1>6. Ranked'
  BY DEF IInv, Ranked, Ranking, Got
<1>. QED BY <1>3, <1>4, <1>5, <1>6 DEF IInv

\* The value is there already.
LEMMA WrittenSameInv ==
    ASSUME IInv, Written, heap[t].a[call.i] = call.v
    PROVE  /\ IInv'
           /\ answer' = t /\ UNCHANGED <<heap, contents, frames, t>>
<1>1. call # Idle /\ Rerooted
  BY CallParts DEF Written
<1>2. answer' = t /\ UNCHANGED <<heap, contents, frames, t>> /\ call' = Idle
  BY InvCells DEF Written, Store
<1>3. TypeOK'
  BY <1>2, InvCells DEF IInv, TypeOK, Calls
<1>4. OneArray' /\ FramesCurrent' /\ Denotes'
  BY <1>2 DEF IInv, OneArray, FramesCurrent, Denotes
<1>5. Called'
  BY <1>1, <1>2 DEF IInv, Called, Rerooted, Idle
<1>6. Ranked'
  BY <1>2 DEF IInv, Ranked, Ranking
<1>. QED BY <1>2, <1>3, <1>4, <1>5, <1>6 DEF IInv

LEMMA WrittenNewInv ==
    ASSUME IInv, Written, heap[t].a[call.i] # call.v
    PROVE  /\ IInv'
           /\ answer' = Len(heap) + 1
           /\ contents' = Append(contents, [contents[call.t] EXCEPT ![call.i] = call.v])
<1>. DEFINE new == Len(heap) + 1
            a == [heap[t].a EXCEPT ![call.i] = call.v]
<1>1. /\ call # Idle /\ call.i \in Indices /\ call.v \in Values /\ call.op = "set"
      /\ call' = Idle /\ Rerooted
  BY CallParts DEF Written
<1>2. call.t = t /\ ~heap[t].isdiff /\ heap[t].a = contents[t] /\ heap[t].a \in Arrays
  BY <1>1, RerootedAt
<1>3. heap' = Store(heap, t, call.i, call.v).heap /\ answer' = Store(heap, t, call.i, call.v).cell
  BY DEF Written
<1>4. /\ Cells(heap') /\ answer' = new
      /\ Len(heap') = new /\ DOMAIN heap' = DOMAIN heap \cup {new}
      /\ heap'[t] = Diff(call.i, heap[t].a[call.i], new)
      /\ heap'[new] = Array(a)
      /\ \A b \in DOMAIN heap \ {t} : heap'[b] = heap[b]
  BY <1>1, <1>2, <1>3, InvCells, StoreCells, SMTT(30)
<1>5. new \notin DOMAIN heap
  BY InvCells
<1>6. contents' = Append(contents, [contents[call.t] EXCEPT ![call.i] = call.v])
  BY <1>3, <1>4, <1>5, InvCells DEF Written
<1>7. a \in Arrays
  BY <1>1, <1>2 DEF Arrays
<1>8. /\ contents' \in Seq(Arrays) /\ Len(contents') = new
      /\ contents'[new] = a /\ \A b \in DOMAIN heap : contents'[b] = contents[b]
  BY <1>2, <1>6, <1>7, InvCells DEF IInv, TypeOK
<1>9. TypeOK'
  <2>1. Len(heap) < MaxCells
    BY <1>1 DEF IInv, Called
  <2>2. new \in Pointers
    BY <2>1, InvCells, MaxCellsAssumption DEF Pointers
  <2>3. call' \in Calls /\ frames' \in Seq(Frames) /\ t' \in DOMAIN heap'
    BY <1>1, <1>4, InvCells DEF IInv, TypeOK, Written, Calls
  <2>. QED BY <1>1, <1>4, <1>8, <2>2, <2>3 DEF TypeOK, Cells
<1>10. /\ heap'[t].isdiff /\ heap'[t].i = call.i /\ heap'[t].v = heap[t].a[call.i]
       /\ heap'[t].t = new /\ ~heap'[new].isdiff /\ heap'[new].a = a
  BY <1>4 DEF Array, Diff
<1>11. OneArray'
  <2>1. \A b \in DOMAIN heap : heap[b].isdiff <=> b # t
    BY <1>2, InvCells DEF IInv, OneArray
  <2>2. \A b \in DOMAIN heap' : heap'[b].isdiff <=> b # new
    BY <1>4, <1>5, <1>10, <2>1
  <2>. QED BY <1>4, <2>2 DEF OneArray
<1>12. frames = <<>> /\ frames' = <<>>
  BY <1>1 DEF Rerooted, Written
<1>13. FramesCurrent' /\ Called'
  BY <1>1, <1>12 DEF FramesCurrent, Called, Idle
<1>14. Denotes'
  <2>. SUFFICES ASSUME NEW c \in DOMAIN heap \cup {new}
                PROVE  contents'[c] = IF heap'[c].isdiff
                                      THEN [contents'[heap'[c].t] EXCEPT ![heap'[c].i] = heap'[c].v]
                                      ELSE heap'[c].a
    BY <1>4 DEF Denotes
  <2>1. CASE c = new
    BY <1>8, <1>10, <2>1
  <2>2. CASE c = t
    <3>1. heap[t].a = [a EXCEPT ![call.i] = heap[t].a[call.i]]
      BY <1>1, <1>2 DEF Arrays
    <3>. QED BY <1>2, <1>8, <1>10, <2>2, <3>1, InvCells
  <2>3. CASE c \notin {new, t}
    <3>1. c \in DOMAIN heap /\ heap'[c] = heap[c] /\ contents'[c] = contents[c]
      BY <1>4, <1>8, <2>3
    <3>2. ASSUME heap[c].isdiff
          PROVE  contents'[heap[c].t] = contents[heap[c].t]
      <4>1. heap[c].t \in DOMAIN heap
        BY <3>1, <3>2, InvCells, CellOf
      <4>. QED BY <1>8, <4>1
    <3>3. CASE heap[c].isdiff
      <4>1. contents[c] = [contents[heap[c].t] EXCEPT ![heap[c].i] = heap[c].v]
        BY <3>1, <3>3 DEF IInv, Denotes
      <4>. QED BY <3>1, <3>2, <3>3, <4>1
    <3>4. CASE ~heap[c].isdiff
      <4>1. contents[c] = heap[c].a
        BY <3>1, <3>4 DEF IInv, Denotes
      <4>. QED BY <3>1, <3>4, <4>1
    <3>. QED BY <3>3, <3>4
  <2>. QED BY <2>1, <2>2, <2>3
<1>15. Ranked'
  <2>1. PICK rk \in [DOMAIN heap -> Nat] : Ranking(rk)
    BY DEF IInv, Ranked
  <2>2. PICK up \in [DOMAIN heap \cup {new} -> Nat] :
           up = [c \in DOMAIN heap \cup {new} |-> IF c = new THEN 0 ELSE rk[c] + 1]
    <3>1. [c \in DOMAIN heap \cup {new} |-> IF c = new THEN 0 ELSE rk[c] + 1]
             \in [DOMAIN heap \cup {new} -> Nat]
      BY <2>1
    <3>. QED BY <3>1
  <2>3. \A c \in DOMAIN heap \cup {new} : heap'[c].isdiff => up[heap'[c].t] < up[c]
    <3>. SUFFICES ASSUME NEW c \in DOMAIN heap \cup {new}, heap'[c].isdiff
                  PROVE  up[heap'[c].t] < up[c]
      OBVIOUS
    <3>1. c # new /\ c \in DOMAIN heap
      BY <1>10
    <3>2. CASE c = t
      BY <1>5, <1>10, <2>1, <2>2, <3>1, <3>2
    <3>3. CASE c # t
      <4>1. heap'[c] = heap[c] /\ heap[c].t \in DOMAIN heap
        <5>1. heap'[c] = heap[c] /\ heap[c].isdiff
          BY <1>4, <3>1, <3>3
        <5>. QED BY <3>1, <5>1, InvCells, CellOf
      <4>2. rk[heap[c].t] < rk[c] /\ rk[c] \in Nat /\ rk[heap[c].t] \in Nat
        BY <2>1, <3>1, <4>1 DEF Ranking
      <4>. QED BY <1>5, <2>2, <3>1, <4>1, <4>2
    <3>. QED BY <3>2, <3>3
  <2>4. Ranking(up)'
    BY <1>4, <1>12, <2>3 DEF Ranking
  <2>. QED BY <1>4, <2>2, <2>4 DEF Ranked
<1>. QED BY <1>4, <1>6, <1>9, <1>11, <1>13, <1>14, <1>15 DEF IInv

LEMMA NextInv == ASSUME IInv, [Next]_vars PROVE IInv'
<1>1. CASE \E version \in DOMAIN heap, i \in Indices : Get(version, i)
  BY <1>1, GetInv
<1>2. CASE \E version \in DOMAIN heap, i \in Indices, v \in Values : Set(version, i, v)
  BY <1>2, SetInv
<1>3. CASE Descend
  BY <1>3, DescendInv
<1>4. CASE Ascend
  BY <1>4, AscendInv
<1>5. CASE Got
  BY <1>5, GotInv
<1>6. CASE Written
  BY <1>6, WrittenSameInv, WrittenNewInv
<1>7. CASE UNCHANGED vars
  <2>1. TypeOK' /\ OneArray' /\ FramesCurrent' /\ Denotes' /\ Called'
    BY <1>7 DEF IInv, TypeOK, OneArray, FramesCurrent, Denotes, Called, vars
  <2>2. Ranked'
    BY <1>7 DEF IInv, Ranked, Ranking, vars
  <2>. QED BY <2>1, <2>2 DEF IInv
<1>. QED BY <1>1, <1>2, <1>3, <1>4, <1>5, <1>6, <1>7 DEF Next, Run

---------------------------------------------------------------------------
(* The theorems.                                                           *)

LEMMA Invariance == Spec => []IInv
<1>. QED BY InitInv, NextInv, PTL DEF Spec

\* The state keeps its shape: every pointer of a difference and of a waiting
\* reroot is to a cell that was allocated.
THEOREM ArraysType == Spec => []TypeOK
<1>1. IInv => TypeOK
  BY DEF IInv
<1>. QED BY <1>1, Invariance, PTL

\* The asserts of reroot and the use of get and set hold on to one fact: the
\* versions share one array, at any point of any operation.
THEOREM ArraysShareOne == Spec => []OneArray
<1>1. IInv => OneArray
  BY DEF IInv
<1>. QED BY <1>1, Invariance, PTL

\* The copies of a difference that reroot takes before it calls itself are
\* those in the cell when it goes on.
THEOREM CopiesCurrent == Spec => []FramesCurrent
<1>1. IInv => FramesCurrent
  BY DEF IInv
<1>. QED BY <1>1, Invariance, PTL

\* Every version holds what it should, between any two steps.
THEOREM VersionsHold == Spec => []Denotes
<1>1. IInv => Denotes
  BY DEF IInv
<1>. QED BY <1>1, Invariance, PTL

\* Every step is one of Versions or none, as far as contents, call and answer
\* go.
LEMMA StepRefines == ASSUME IInv, [Next]_vars PROVE [Promise!Next]_(Promise!vars)
<1>1. ASSUME NEW version \in DOMAIN heap, NEW i \in Indices, Get(version, i)
      PROVE  Promise!Next
  BY <1>1, InvCells DEF Get, Promise!Next, Promise!Get, Idle, Promise!Idle
<1>2. ASSUME NEW version \in DOMAIN heap, NEW i \in Indices, NEW v \in Values,
             Set(version, i, v)
      PROVE  Promise!Next
  BY <1>2, InvCells DEF Set, Promise!Next, Promise!Set, Idle, Promise!Idle
<1>3. CASE Descend
  BY <1>3 DEF Descend, Promise!vars
<1>4. CASE Ascend
  BY <1>4 DEF Ascend, Promise!vars
<1>5. CASE Got
  BY <1>5, CallParts, RerootedAt DEF Got, Promise!Next, Promise!Got, Idle, Promise!Idle
<1>6. CASE Written
  <2>1. call.t = t /\ heap[t].a = contents[t] /\ Len(contents) = Len(heap)
    BY <1>6, CallParts, RerootedAt DEF Written, IInv, TypeOK
  <2>2. call.op = "set" /\ call' = Idle
    BY <1>6 DEF Written
  <2>3. CASE heap[t].a[call.i] = call.v
    BY <1>6, <2>1, <2>2, <2>3, WrittenSameInv
       DEF Promise!Next, Promise!Written, Idle, Promise!Idle
  <2>4. CASE heap[t].a[call.i] # call.v
    BY <1>6, <2>1, <2>2, <2>4, WrittenNewInv
       DEF Promise!Next, Promise!Written, Idle, Promise!Idle
  <2>. QED BY <2>3, <2>4
<1>7. CASE UNCHANGED vars
  BY <1>7 DEF vars, Promise!vars
<1>. QED BY <1>1, <1>2, <1>3, <1>4, <1>5, <1>6, <1>7 DEF Next, Run

\* The arrays are persistent: get returns what its version was given when it
\* was made, whatever was read and written since, by any version.
THEOREM ArraysPersistent == Spec => Persistent
<1>1. Init => Promise!Init
  BY DEF Init, Promise!Init, Arrays, Idle, Promise!Idle
<1>2. IInv /\ [Next]_vars => [Promise!Next]_(Promise!vars)
  BY StepRefines
<1>. QED BY <1>1, <1>2, Invariance, PTL DEF Spec, Persistent, Promise!Spec
=============================================================================
