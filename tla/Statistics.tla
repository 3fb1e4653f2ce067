----------------------------- MODULE Statistics -----------------------------
(***************************************************************************)
(* What update_statistics_add and update_statistics_del                    *)
(* (bpf/memleak.bpf.c:61-95) promise the reader of combined_allocs,        *)
(* without handlers, threads or elements: a map from stack ids to words,   *)
(* each of which gains and loses one entry <<address, size>> at a time.    *)
(* The promise holds while the statistics are exact; MemleakBpf says what  *)
(* ends that, and implements this specification.  Reporter reads the map.  *)
(***************************************************************************)
EXTENDS CombinedAllocInfo, BpfHashMap

CONSTANTS
  StackId,       \* keys of combined_allocs
  Entries        \* the pairs <<address, size>> that may be accounted for

VARIABLES
  combined,      \* map combined_allocs
  accounted,     \* the entries each word accounts for
  exact          \* nothing has made the statistics inexact so far

statisticsVars == <<combined, accounted, exact>>

StatisticsInit ==
  /\ combined = [s \in StackId |-> None]
  /\ accounted = [s \in StackId |-> {}]
  /\ exact = TRUE

\* The first allocation of a call stack creates its word.
Create(s) ==
  /\ combined[s] = None
  /\ combined' = [combined EXCEPT ![s] = 0]
  /\ UNCHANGED accounted

\* An allocation is added to its word once, and to one word only.
Add(s, e) ==
  /\ combined[s] # None
  /\ combined' = [combined EXCEPT ![s] = FetchAdd(@, e[2])]
  /\ accounted' = [accounted EXCEPT ![s] = @ \cup {e}]
  /\ \A r \in StackId : \A f \in accounted[r] : f[1] # e[1]

\* Only what was added to a word is taken from it.
Remove(s, e) ==
  /\ combined[s] # None
  /\ combined' = [combined EXCEPT ![s] = FetchSub(@, e[2])]
  /\ accounted' = [accounted EXCEPT ![s] = @ \ {e}]
  /\ e \in accounted[s]

Update ==
  \E s \in StackId :
    \/ Create(s)
    \/ \E e \in Entries : Add(s, e) \/ Remove(s, e)

\* Nothing is promised of a step that ends exactness, nor of what follows it.
StatisticsNext ==
  \/ exact /\ exact' /\ Update
  \/ exact' = FALSE

StatisticsSpec == StatisticsInit /\ [][StatisticsNext]_statisticsVars

=============================================================================
