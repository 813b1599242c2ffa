----------------------------- MODULE UnionFind -----------------------------
(***************************************************************************)
(* The union-find of vm/cfpds.cpp: a version is a pair of persistent       *)
(* arrays, the parents and the ranks, and find shortens the paths of the   *)
(* parents as it goes.                                                     *)
(*                                                                         *)
(* One operation of a client is one step; PersistentArrays has the steps   *)
(* of reroot within one.                                                   *)
(***************************************************************************)
EXTENDS ArrayCells, SequencesExt

CONSTANT MaxVersions   \* bound: versions made

\* 0 .. n-1, for at least one element.
ASSUME IndicesAssumption == IsFiniteSet(Indices) /\ 0 \in Indices

VARIABLES
    heap,       \* the cells of all the arrays
    versions,   \* the versions, each with its cells rep and rank
    answer      \* what the last find returned

vars == <<heap, versions, answer>>

Elements == Indices

---------------------------------------------------------------------------
(* The arrays.                                                             *)

Reroot(cells, t) ==
    LET rerooted[c \in DOMAIN cells] ==
            IF ~cells[c].isdiff THEN cells
            ELSE Swap(rerooted[cells[c].t], c, cells[c])
    IN  rerooted[t]

Get(cells, t, i) ==
    LET rerooted == Reroot(cells, t)
    IN  [heap |-> rerooted, value |-> rerooted[t].a[i]]

Set(cells, t, i, v) == Store(Reroot(cells, t), t, i, v)

\* *f = *set(f, i, v): what set returns is copied into f itself.  The cell it
\* made for it is left without a pointer to it, and is not kept here.
Overwrite(cells, f, i, v) ==
    LET written == Set(cells, f, i, v)
    IN  IF written.cell = f THEN written.heap
        ELSE Front([written.heap EXCEPT ![f] = written.heap[written.cell]])

---------------------------------------------------------------------------
(* The operations.                                                         *)

\* The root of i in f, every element on the way there becoming its child.  On
\* the way up f is only read, and what reading it makes of the cells, reading it
\* again does not change: every call on the way gets what the first one gets.
FindAux(cells, f, i) ==
    LET aux[x \in Elements] ==
            LET parent == Get(cells, f, x)
                found == aux[parent.value]
            IN  IF parent.value = x THEN [heap |-> parent.heap, root |-> x]
                ELSE [heap |-> Overwrite(found.heap, f, x, found.root),
                      root |-> found.root]
    IN  aux[i]

\* Altered Roots: y is taken for a root.
RootsFirstOnly(cells, h, x, y) ==
    LET cx == FindAux(cells, h.rep, x)
    IN  [heap |-> cx.heap, x |-> cx.root, y |-> y]

\* The roots of x and of y, found in this order.
Roots(cells, h, x, y) ==
    LET cx == FindAux(cells, h.rep, x)
        cy == FindAux(cx.heap, h.rep, y)
    IN  [heap |-> cy.heap, x |-> cx.root, y |-> cy.root]

\* Altered Link: the root with the higher rank becomes the child.
LinkHigher(r, rank, rep) ==
    LET rx == Get(r.heap, rank, r.x)
        ry == Get(rx.heap, rank, r.y)
        raised == Set(ry.heap, rank, r.x, rx.value + 1)
        ranked == IF rx.value = ry.value THEN raised ELSE [heap |-> ry.heap, cell |-> rank]
        linked == IF rx.value > ry.value THEN Set(ranked.heap, rep, r.x, r.y)
                  ELSE Set(ranked.heap, rep, r.y, r.x)
    IN  [heap |-> linked.heap, version |-> [rep |-> linked.cell, rank |-> ranked.cell]]

\* The root that becomes the child of the other, r.y unless r.x has the
\* smaller rank; the ranks change when they are equal.
Link(r, rank, rep) ==
    LET rx == Get(r.heap, rank, r.x)
        ry == Get(rx.heap, rank, r.y)
        raised == Set(ry.heap, rank, r.x, rx.value + 1)
        ranked == IF rx.value = ry.value THEN raised ELSE [heap |-> ry.heap, cell |-> rank]
        linked == IF rx.value < ry.value THEN Set(ranked.heap, rep, r.x, r.y)
                  ELSE Set(ranked.heap, rep, r.y, r.x)
    IN  [heap |-> linked.heap, version |-> [rep |-> linked.cell, rank |-> ranked.cell]]

\* create
Init ==
    /\ heap = <<Array([k \in Elements |-> k]), Array([k \in Elements |-> 0])>>
    /\ versions = <<[rep |-> 1, rank |-> 2]>>
    /\ answer = 0

Find(h, x) ==
    /\ LET found == FindAux(heap, h.rep, x)
       IN  heap' = found.heap /\ answer' = found.root
    /\ UNCHANGED versions

\* unio returns h itself if x and y are in one set already.
Unio(h, x, y) ==
    LET r == Roots(heap, h, x, y)
        linked == Link(r, h.rank, h.rep)
    IN  /\ IF r.x = r.y THEN heap' = r.heap /\ UNCHANGED versions
           ELSE /\ Len(versions) < MaxVersions
                /\ heap' = linked.heap
                /\ versions' = Append(versions, linked.version)
        /\ UNCHANGED answer

Latest == Last(versions)

\* A client goes on with the version that unio returned, as uftest does: a find
\* overwrites a cell that older versions are differences from.
Next ==
    \/ \E x \in Elements : Find(Latest, x)
    \/ \E x, y \in Elements : Unio(Latest, x, y)

Spec == Init /\ [][Next]_vars

---------------------------------------------------------------------------
(* What a version holds, read through the differences.                     *)

ContentsOf(cells) ==
    LET contents[c \in DOMAIN cells] ==
            IF cells[c].isdiff
            THEN [contents[cells[c].t] EXCEPT ![cells[c].i] = cells[c].v]
            ELSE cells[c].a
    IN  contents

Parents(h) == ContentsOf(heap)[h.rep]
Ranks(h) == ContentsOf(heap)[h.rank]

\* The root of each element.
RootsOf(parents) ==
    LET root[x \in Elements] ==
            IF parents[x] = x THEN x ELSE root[parents[x]]
    IN  root
SetsOf(roots) == {{y \in Elements : roots[y] = roots[x]} : x \in Elements}
Sets(h) == SetsOf(RootsOf(Parents(h)))

\* In the latest version a child's rank is below its parent's, and a root of
\* rank k has at least 2^k elements, so that paths stay short.
RanksBound ==
    LET parents == Parents(Latest)
        ranks == Ranks(Latest)
        roots == RootsOf(parents)
    IN  \A x \in Elements :
            IF parents[x] = x
            THEN 2 ^ ranks[x] <= Cardinality({y \in Elements : roots[y] = x})
            ELSE ranks[x] < ranks[parents[x]]

\* A client that always uses the version it got last has a union-find.
Promise == INSTANCE DisjointSets WITH
    sets <- Sets(Latest),
    leader <- [S \in Sets(Latest) |-> RootsOf(Parents(Latest))[CHOOSE x \in S : TRUE]]
FindsSets == Promise!Spec

=============================================================================
