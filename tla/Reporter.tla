------------------------------ MODULE Reporter ------------------------------
(***************************************************************************)
(* One round of the reporting goroutine of probe.Run                       *)
(* (internal/probe/probe.go:468-539) against handlers that go on updating  *)
(* combined_allocs: the walk over the map, the decoding of its words       *)
(* (internal/info/info.go), the min-heap that keeps the N largest stacks,  *)
(* and the lines that are printed.  The handlers appear as Statistics,     *)
(* which MemleakBpf implements; here the statistics stay exact.            *)
(***************************************************************************)
EXTENDS Statistics, Sequences

CONSTANTS
  ByteBase,      \* number of values of a byte (2^8)
  nTopStacks     \* the flag -n-top-stacks

\* The weight of each byte of a word: its first byte counts ones.
Place[k \in 0 .. 8] == IF k = 0 THEN 1 ELSE ByteBase * Place[k - 1]

\* The decoded entries of the map (info.CombinedAllocInfo).
Info == [StackId : StackId, TotalSize : 0 .. SizeMod - 1,
         NumberOfAllocs : 0 .. CountMod - 1]

ASSUME ReporterAssumption ==
  /\ ByteBase \in Nat \ {0, 1}
  /\ SizeMod = Place[5]
  /\ CountMod = Place[3]
  /\ IsFiniteSet(StackId)
  /\ \A e \in Entries : e[2] \in Nat
  /\ nTopStacks \in Int
  /\ None \notin Word \cup Info

VARIABLES
  at,            \* where the reporting goroutine is
  open,          \* the handle of combined_allocs is open
  iterErr,       \* the walk ended with an iterator error
  due,           \* the keys that were present when the walk began
  sample,        \* what the walk has read so far, by stack id
  h,             \* the min-heap
  topStacks,     \* the sorted result, largest first
  held           \* history: the totals each stack has had since the walk began

roundVars == <<at, iterErr, due, sample, h, topStacks>>
reporterVars == <<statisticsVars, open, roundVars, held>>

-----------------------------------------------------------------------------
(* info.GetCombinedAllocInfo.                                              *)

\* The eight bytes of a word as the map hands them out (little endian).
RawBits(word) == [i \in 1 .. 8 |-> (word \div Place[i - 1]) % ByteBase]

\* The number in the bytes i .. j: each byte shifted to its place.
Number(bits, i, j) ==
  LET from[k \in i .. (j + 1)] ==
        IF k > j THEN 0 ELSE bits[k] + ByteBase * from[k + 1]
  IN  from[i]

\* Faulty variants, for testing the properties: one byte too many in the size,
\* the count one byte too early.
GetCombinedAllocInfoWide(s, bits) ==
  [StackId |-> s, TotalSize |-> Number(bits, 1, 6),
   NumberOfAllocs |-> Number(bits, 6, 8)]
GetCombinedAllocInfoShifted(s, bits) ==
  [StackId |-> s, TotalSize |-> Number(bits, 1, 5),
   NumberOfAllocs |-> Number(bits, 5, 7)]

\* Bits[0] .. Bits[4] are the size, Bits[5] .. Bits[7] the count.
GetCombinedAllocInfo(s, bits) ==
  [StackId |-> s, TotalSize |-> Number(bits, 1, 5),
   NumberOfAllocs |-> Number(bits, 6, 8)]

-----------------------------------------------------------------------------
(* The handlers, and what the words stand for.                             *)

\* The bytes and the number of some entries, counted without limit.
TrueTotals(entries) ==
  [size |-> Cardinality(UNION {{e} \X (1 .. e[2]) : e \in entries}),
   count |-> Cardinality(entries)]

Init ==
  /\ StatisticsInit
  /\ at = "sleep"
  /\ open = TRUE
  /\ iterErr = FALSE
  /\ due = {}
  /\ sample = [s \in StackId |-> None]
  /\ h = {}
  /\ topStacks = <<>>
  /\ held = [s \in StackId |-> {}]

\* A handler changes a word; the history is kept while the walk is going on.
HandlerStep ==
  /\ Update
  /\ held' = [s \in StackId |->
                IF at = "scan" THEN held[s] \cup {TrueTotals(accounted'[s])} ELSE held[s]]
  /\ UNCHANGED <<exact, open, roundVars>>

\* Run returns and its deferred call closes the map, wherever the goroutine is.
CloseMap ==
  /\ open
  /\ open' = FALSE
  /\ UNCHANGED <<statisticsVars, roundVars, held>>

-----------------------------------------------------------------------------
(* The reporting goroutine.                                                *)

\* combinedAllocsMap.Iterate(), and a fresh heap; a closed map is not noticed yet.
StartScan ==
  /\ at = "sleep"
  /\ at' = "scan"
  /\ iterErr' = FALSE
  /\ due' = Present(combined)
  /\ sample' = [s \in StackId |-> None]
  /\ h' = {}
  /\ topStacks' = <<>>
  /\ held' = [s \in StackId |-> {TrueTotals(accounted[s])}]
  /\ UNCHANGED <<statisticsVars, open>>

\* Faulty variant, for testing the properties: a max-heap.
RootsOfMaxHeap == {x \in h : \A y \in h : x.TotalSize >= y.TotalSize}

\* MinHeap.Less: the elements container/heap may have at its root.
Roots == {x \in h : \A y \in h : x.TotalSize <= y.TotalSize}

Decoded(s) == GetCombinedAllocInfo(s, RawBits(combined[s]))

\* Faulty variant, for testing the properties: the comparison is the wrong way
\* round.
ReplacedIfSmaller(x) ==
  {IF x.TotalSize < r.TotalSize THEN (h \ {r}) \cup {x} ELSE h : r \in Roots}

\* Replace the root by x if x is larger.
Replaced(x) ==
  {IF x.TotalSize > r.TotalSize THEN (h \ {r}) \cup {x} ELSE h : r \in Roots}

\* What one entry does to the heap.  (*h)[0] of an empty heap is out of range.
Keep(x) ==
  \/ /\ x.TotalSize = 0
     /\ UNCHANGED <<h, at>>
  \/ /\ x.TotalSize > 0
     /\ Cardinality(h) < nTopStacks
     /\ h' = h \cup {x}
     /\ UNCHANGED at
  \/ /\ x.TotalSize > 0
     /\ Cardinality(h) >= nTopStacks
     /\ h' \in IF h = {} THEN {h} ELSE Replaced(x)
     /\ at' = IF h = {} THEN "panic" ELSE at

\* The iterator's Next: a key it has not returned yet, with the value the
\* entry has now.  Keys come in the order of the map's buckets, and one that
\* was inserted since the walk began may or may not be met.
Visit(s) ==
  /\ at = "scan"
  /\ open
  /\ combined[s] # None
  /\ sample[s] = None
  /\ sample' = [sample EXCEPT ![s] = Decoded(s)]
  /\ Keep(Decoded(s))
  /\ UNCHANGED <<statisticsVars, open, iterErr, due, topStacks, held>>

\* Next returns false: there is no further key.
EndScan ==
  /\ at = "scan"
  /\ open
  /\ \A s \in due : sample[s] # None
  /\ at' = "pop"
  /\ UNCHANGED <<statisticsVars, open, iterErr, due, sample, h, topStacks, held>>

\* Next returns false because the map was closed: the error is logged, and the
\* round goes on with what the walk has read so far.
ScanFails ==
  /\ at = "scan"
  /\ ~open
  /\ at' = "pop"
  /\ iterErr' = TRUE
  /\ UNCHANGED <<statisticsVars, open, due, sample, h, topStacks, held>>

\* heap.Pop fills topStacks from its last place to its first.
PopNext ==
  /\ at = "pop"
  /\ \E r \in Roots :
       /\ h' = h \ {r}
       /\ topStacks' = <<r>> \o topStacks
  /\ UNCHANGED <<statisticsVars, open, at, iterErr, due, sample, held>>

\* The walk over allocs, whose result is not printed.
ScanAllocs ==
  /\ at = "pop"
  /\ h = {}
  /\ at' = "print"
  /\ UNCHANGED <<statisticsVars, open, iterErr, due, sample, h, topStacks, held>>

\* Print topStacks, then sleep for five seconds.
Report ==
  /\ at = "print"
  /\ at' = "sleep"
  /\ iterErr' = FALSE
  /\ due' = {}
  /\ sample' = [s \in StackId |-> None]
  /\ topStacks' = <<>>
  /\ held' = [s \in StackId |-> {}]
  /\ UNCHANGED <<statisticsVars, open, h>>

GoroutineStep ==
  \/ StartScan
  \/ \E s \in StackId : Visit(s)
  \/ EndScan \/ ScanFails \/ PopNext \/ ScanAllocs \/ Report

Next == HandlerStep \/ CloseMap \/ GoroutineStep

Spec == Init /\ [][Next]_reporterVars

-----------------------------------------------------------------------------
(* Properties.                                                             *)

\* The type invariant of the goroutine's state and of the map.
TypeOK ==
  /\ combined \in [StackId -> Word \cup {None}]
  /\ accounted \in [StackId -> SUBSET Entries]
  /\ exact \in BOOLEAN
  /\ at \in {"sleep", "scan", "pop", "print", "panic"}
  /\ open \in BOOLEAN
  /\ iterErr \in BOOLEAN
  /\ due \subseteq StackId
  /\ sample \in [StackId -> Info \cup {None}]
  /\ h \subseteq Info
  /\ topStacks \in Seq(Info)
  /\ held \in [StackId -> SUBSET [size : Nat, count : Nat]]

\* The entries of this walk that have bytes to show.
Candidates == {sample[s] : s \in {x \in StackId :
                 sample[x] # None /\ sample[x].TotalSize > 0}}

Listed == {topStacks[i] : i \in 1 .. Len(topStacks)}

\* What a limit of n leaves of m lines; a negative -n-top-stacks leaves none.
AtMost(n, m) == IF n < 0 THEN 0 ELSE IF n < m THEN n ELSE m

\* The reference for the top-N selection (probe.go:470-499): the report lists
\* N of the entries the walk read (all of them if there are fewer), no entry
\* twice, largest first, and none it leaves out is larger than one it lists;
\* also when the walk broke off with an iterator error.
ReportIsTop ==
  at = "print" =>
    /\ Listed \subseteq Candidates
    /\ Cardinality(Listed) = Len(topStacks)
    /\ Len(topStacks) = AtMost(nTopStacks, Cardinality(Candidates))
    /\ \A i, j \in 1 .. Len(topStacks) :
         i < j => topStacks[i].TotalSize >= topStacks[j].TotalSize
    /\ \A x \in Candidates \ Listed, y \in Listed : x.TotalSize <= y.TotalSize

\* During this walk no total of s was too large for its bit-field.
Fits(s) == \A t \in held[s] : t.size < SizeMod /\ t.count < CountMod

\* A printed line is never a mixture of two moments: its bytes and its number
\* of allocations are together the totals its stack really had at one instant
\* of the walk, although handlers update the word meanwhile and the two
\* numbers are cut out of its bytes (info.go:50-65).
ReportHonest ==
  at = "print" =>
    \A x \in Listed :
      Fits(x.StackId) =>
        [size |-> x.TotalSize, count |-> x.NumberOfAllocs] \in held[x.StackId]

\* s held, all through the walk, more bytes than r ever did.
Dominates(s, r) == \A x \in held[s], y \in held[r] : x.size > y.size

\* A stack that has bytes all through the walk, and more of them than all but
\* N - 1 others, cannot be crowded out of the report by concurrent updates
\* (probe.go:470-499), unless the walk broke off with an iterator error: the
\* code then prints what it has (probe.go:490-492).
LargestShown ==
  at = "print" /\ ~iterErr /\ (\A s \in StackId : Fits(s)) =>
    \A s \in due :
      /\ \A x \in held[s] : x.size > 0
      /\ Cardinality({r \in StackId \ {s} : ~Dominates(s, r)}) < nTopStacks
      => \E x \in Listed : x.StackId = s

=============================================================================
