-------------------------- MODULE PersistentArrays --------------------------
(***************************************************************************)
(* The persistent arrays of vm/cfpds.cpp (and vm/parrint.h): get, set and  *)
(* reroot, one step per invocation and return of reroot.                   *)
(*                                                                         *)
(* get and set make the version they are given the array and leave the     *)
(* others as differences from it.  reroot works its way along the          *)
(* differences to the array and then back, and uses on the way back what   *)
(* it read on the way out.                                                 *)
(***************************************************************************)
EXTENDS ArrayCells, SequencesExt

CONSTANTS MaxCells   \* bound: cells allocated

ASSUME MaxCellsAssumption == MaxCells \in Nat \ {0}

VARIABLES
    heap,      \* the cells
    call,      \* the operation under way
    frames,    \* the invocations of reroot that wait for an inner one
    t,         \* the cell the innermost one was called with
    answer,    \* what the last operation returned
    contents   \* history variable: what each version should hold

vars == <<heap, call, frames, t, answer, contents>>

Idle == [op |-> "none"]
Pointers == 1..MaxCells

Calls == {Idle} \cup [op : {"get"}, t : Pointers, i : Indices]
                \cup [op : {"set"}, t : Pointers, i : Indices, v : Values]
Frames == [t : Pointers, d : [isdiff : {TRUE}, i : Indices, v : Values, t : Pointers]]

---------------------------------------------------------------------------

\* alloc_arr
Init ==
    /\ \E a \in Arrays : heap = <<Array(a)>> /\ contents = <<a>>
    /\ call = Idle
    /\ frames = <<>>
    /\ t = 1
    /\ answer = 0

\* get(version, i): reroot is called if the version is a difference, and
\* would return at once if it were not.
Get(version, i) ==
    /\ call = Idle
    /\ call' = [op |-> "get", t |-> version, i |-> i]
    /\ t' = version
    /\ UNCHANGED <<heap, frames, answer, contents>>

Set(version, i, v) ==
    /\ call = Idle
    /\ Len(heap) < MaxCells
    /\ call' = [op |-> "set", t |-> version, i |-> i, v |-> v]
    /\ t' = version
    /\ UNCHANGED <<heap, frames, answer, contents>>

\* Altered Descend: all the invocations share one copy of the difference.
DescendStatic ==
    /\ call # Idle
    /\ heap[t].isdiff
    /\ frames' = Append([k \in DOMAIN frames |-> [frames[k] EXCEPT !.d = heap[t]]],
                        [t |-> t, d |-> heap[t]])
    /\ t' = heap[t].t
    /\ UNCHANGED <<heap, call, answer, contents>>

\* reroot(t) reads the difference and calls itself with the cell it is from.
Descend ==
    /\ call # Idle
    /\ heap[t].isdiff
    /\ frames' = Append(frames, [t |-> t, d |-> heap[t]])
    /\ t' = heap[t].t
    /\ UNCHANGED <<heap, call, answer, contents>>

\* The inner reroot has returned.
Ascend ==
    /\ call # Idle
    /\ ~heap[t].isdiff
    /\ frames # <<>>
    /\ LET frame == Last(frames) IN
          /\ heap' = Swap(heap, frame.t, frame.d)
          /\ t' = frame.t
    /\ frames' = Front(frames)
    /\ UNCHANGED <<call, answer, contents>>

Rerooted == ~heap[t].isdiff /\ frames = <<>>

Got ==
    /\ call.op = "get"
    /\ Rerooted
    /\ answer' = heap[t].a[call.i]
    /\ call' = Idle
    /\ UNCHANGED <<heap, frames, t, contents>>

Written ==
    /\ call.op = "set"
    /\ Rerooted
    /\ LET stored == Store(heap, t, call.i, call.v) IN
          /\ heap' = stored.heap
          /\ answer' = stored.cell
          /\ contents' =
                IF stored.cell \in DOMAIN contents THEN contents
                ELSE Append(contents, [contents[call.t] EXCEPT ![call.i] = call.v])
    /\ call' = Idle
    /\ UNCHANGED <<frames, t>>

Run == Descend \/ Ascend \/ Got \/ Written

Next ==
    \/ \E version \in DOMAIN heap, i \in Indices : Get(version, i)
    \/ \E version \in DOMAIN heap, i \in Indices, v \in Values : Set(version, i, v)
    \/ Run

\* A call that has been made runs: nothing else does meanwhile.
Fairness == WF_vars(Run)

Spec == Init /\ [][Next]_vars /\ Fairness

---------------------------------------------------------------------------

\* The shape of the state.
TypeOK ==
    /\ heap \in Seq(CellsTo(DOMAIN heap)) /\ Len(heap) \in Pointers
    /\ contents \in Seq(Arrays) /\ Len(contents) = Len(heap)
    /\ call \in Calls /\ (call # Idle => call.t \in DOMAIN heap)
    /\ frames \in Seq(Frames)
    /\ t \in DOMAIN heap
    /\ answer \in Values \cup {0} \cup DOMAIN heap

\* The versions share one array: every cell but one is a difference.
OneArray ==
    \E c \in DOMAIN heap : \A b \in DOMAIN heap : heap[b].isdiff <=> b # c

\* What an invocation of reroot read from its cell before it called itself is
\* still there while it waits, so the copies i, v and tt it works with after
\* the call are not stale (vm/cfpds.cpp 96-104).
FramesCurrent ==
    \A k \in DOMAIN frames :
        /\ heap[frames[k].t] = frames[k].d
        /\ frames[k].d.t = IF k = Len(frames) THEN t ELSE frames[k + 1].t

\* Every version, read through its differences, holds what it should, between
\* any two steps of reroot.
Denotes ==
    \A c \in DOMAIN heap :
        contents[c] = IF heap[c].isdiff
                      THEN [contents[heap[c].t] EXCEPT ![heap[c].i] = heap[c].v]
                      ELSE heap[c].a

\* The arrays are persistent: whatever the order of reads and writes, a read
\* returns what its version was given when it was made.
Promise == INSTANCE Versions
Persistent == Promise!Spec

\* Every call returns: reroot never goes round in circles.
CallsReturn == call # Idle ~> call = Idle
=============================================================================
