----------------------------- MODULE MCReporter -----------------------------
(* Instances of Reporter for TLC.                                          *)
EXTENDS Reporter, TLC

CONSTANTS
  Block,        \* blocks the traced program may hold at once
  BlockSize,    \* the sizes they may have
  MaxTotals     \* how many totals the stacks may go through in a walk

MCEntries == Block \X BlockSize

\* Walks in which the handlers change more than MaxTotals totals are cut off.
FewTotals == Cardinality(UNION {{s} \X held[s] : s \in StackId}) <= MaxTotals

\* What the closing of the map cannot show is cut off: updates after it, which
\* no walk reads, and a closing between a walk and its report, which the next
\* walk meets as well when the map is closed after the report.
CloseInWalk ==
  /\ ~open => UNCHANGED statisticsVars
  /\ open /\ ~open' => at \in {"sleep", "scan"}

Symmetric == Permutations(StackId) \cup Permutations(Block)

=============================================================================
