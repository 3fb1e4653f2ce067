----------------------------- MODULE MCUserHeap -----------------------------
(* Instances of UserHeap for TLC.                                          *)
EXTENDS UserHeap, TLC

CONSTANTS p1, tr1, tr2, b1

\* All threads belong to the one traced process.
MCTgid == [t \in Thread |-> p1]

\* Both call stacks fall into one bucket of stack_traces.
MCHashCollide == [tr \in Trace |-> b1]

\* Every call stack has a bucket of its own.
MCHashInjective == [tr \in Trace |-> tr]

MCNoProbe == {}

(* The value of an element that no key leads to and no thread points to is
   never read before it is overwritten: states that differ in it only are the
   same to TLC.                                                             *)
Reachable(index, e) ==
  (\E k \in DOMAIN index : index[k] = e) \/ (\E t \in Thread : elem[t] = e)

LiveView ==
  <<sizes, [e \in SizesElem |->
              IF Reachable(sizes, e) THEN sizesData[e] ELSE None],
    allocs, [e \in AllocsElem |->
              IF Reachable(allocs, e) THEN allocsData[e] ELSE None],
    combined, stack_traces, displaced, pc, call, addr, elem, info, drift, heap, attached>>

Symmetric ==
  Permutations(Thread) \cup Permutations(Addr) \cup Permutations(Trace) \cup
  Permutations(AllocsElem) \cup Permutations(SizesElem)

=============================================================================
