----------------------------- MODULE ArrayCells -----------------------------
(***************************************************************************)
(* The cells of the persistent arrays of vm/cfpds.cpp and vm/parrint.h.    *)
(*                                                                         *)
(* A version of an array is a cell: the array itself, or the difference    *)
(* from the version another cell stands for.  A heap is the sequence of    *)
(* the cells allocated so far and a pointer is a cell's place in it.  The  *)
(* storage a.a of an array moves from cell to cell and belongs to the one  *)
(* cell that is not a difference, so it is kept in that cell as a value.   *)
(***************************************************************************)
EXTENDS Naturals, Sequences

CONSTANTS Indices,   \* 0 .. s-1
          Values     \* the integers stored

Arrays == [Indices -> Values]

Array(a) == [isdiff |-> FALSE, a |-> a]
Diff(i, v, t) == [isdiff |-> TRUE, i |-> i, v |-> v, t |-> t]

CellsTo(Pointers) ==
    [isdiff : {FALSE}, a : Arrays]
        \cup [isdiff : {TRUE}, i : Indices, v : Values, t : Pointers]

\* Altered Swap: the difference keeps the new value in place of the old one.
SwapKeepingNew(heap, t, d) ==
    [heap EXCEPT ![t] = Array([heap[d.t].a EXCEPT ![d.i] = d.v]),
                 ![d.t] = Diff(d.i, d.v, t)]

\* Altered Swap: the value is written, but the cells keep their parts.
SwapNothing(heap, t, d) ==
    [heap EXCEPT ![d.t] = Array([heap[d.t].a EXCEPT ![d.i] = d.v])]

\* The end of reroot(t), d being what t held when it was entered and d.t
\* having become the array: t takes the array over, with its own value at
\* d.i, and d.t becomes the difference from it.
Swap(heap, t, d) ==
    [heap EXCEPT ![t] = Array([heap[d.t].a EXCEPT ![d.i] = d.v]),
                 ![d.t] = Diff(d.i, heap[d.t].a[d.i], t)]

\* Altered Store: the old version sees the new value.
StoreInPlace(heap, t, i, v) ==
    IF heap[t].a[i] = v THEN [heap |-> heap, cell |-> t]
    ELSE LET new == Len(heap) + 1
             a == heap[t].a
         IN  [heap |-> Append([heap EXCEPT ![t] = Diff(i, v, new)],
                              Array([a EXCEPT ![i] = v])),
              cell |-> new]

\* set, t having become the array: t itself if the value is there already,
\* else a new cell that takes the array over, t becoming the difference.
Store(heap, t, i, v) ==
    IF heap[t].a[i] = v THEN [heap |-> heap, cell |-> t]
    ELSE LET new == Len(heap) + 1
             a == heap[t].a
         IN  [heap |-> Append([heap EXCEPT ![t] = Diff(i, a[i], new)],
                              Array([a EXCEPT ![i] = v])),
              cell |-> new]
=============================================================================
