---------------------------- MODULE MCKernelHeap ----------------------------
(* Instances of KernelHeap for TLC.                                        *)
EXTENDS KernelHeap, TLC

CONSTANTS p1, p2, t1, tr1

\* t1 belongs to a process of its own: two keys compete for the room in sizes.
MCTgid == [t \in Thread |-> IF t = t1 THEN p2 ELSE p1]

MCStackHash == [tr \in Trace |-> tr]

(* The value of an element that no key leads to and no thread points to is
   never read before it is overwritten: states that differ in it only are the
   same to TLC.                                                             *)
Reachable(index, e) ==
  (\E k \in DOMAIN index : index[k] = e) \/ (\E t \in Thread : elem[t] = e)

LiveView ==
  <<sizes, [e \in SizesElem |->
              IF Reachable(sizes, e) THEN sizesData[e] ELSE None],
    allocs, [e \in AllocsElem |->
              IF Reachable(allocs, e) THEN allocsData[e] ELSE None],
    combined, stack_traces, displaced, pc, call, addr, elem, info, drift, live>>

(* The statistics properties say nothing of a state with drift, nor of what
   follows it: such states are reached and checked, and not expanded.       *)
NoDriftYet == drift = {}

\* Threads and addresses are not permuted: they are told apart.
Symmetric ==
  Permutations(AllocsElem) \cup Permutations(SizesElem)

=============================================================================
