----------------------------- MODULE MCLibcHeap -----------------------------
(* Instances of LibcHeap for TLC.                                          *)
EXTENDS MCUserHeap, LibcHeap

LibcView ==
  <<LiveView, memptrs, [e \in SizesElem |->
      IF Reachable(memptrs, e) THEN memptrsData[e] ELSE None], variable, mapped>>

=============================================================================
