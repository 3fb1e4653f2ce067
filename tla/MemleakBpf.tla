----------------------------- MODULE MemleakBpf -----------------------------
(***************************************************************************)
(* The eBPF side of the tracer (bpf/memleak.bpf.c): its maps and the       *)
(* handlers every probe is made of, gen_alloc_enter, gen_alloc_exit2 and   *)
(* gen_free_enter, run by several threads at once.                         *)
(*                                                                         *)
(* A handler is a sequence of steps, one per access to memory that other   *)
(* CPUs share (a map helper, the dereference of a map element, the atomic  *)
(* addition); what lies between two accesses is local to the thread and    *)
(* belongs to the step before it.  Which traced function starts a handler, *)
(* and what the allocator then does, is left to the modules that extend    *)
(* this one (UserHeap for the uprobes, KernelHeap for the tracepoints).    *)
(***************************************************************************)
EXTENDS CombinedAllocInfo, BpfHashMap

CONSTANTS
  Thread,        \* threads that run traced functions
  Pid,           \* process ids (tgids)
  Tgid,          \* [Thread -> Pid]: bpf_get_current_pid_tgid() >> 32
  TargetPid,     \* target_pid; None stands for 0, "every process"
  Addr,          \* addresses of heap blocks, without the null pointer
  NULL,          \* the null pointer
  MinSize,       \* min_size
  MaxSize,       \* max_size
  SampleRate,    \* sample_rate
  Clock,         \* the values bpf_ktime_get_ns() may return
  SizesElem,     \* elements of the map sizes (entries and per-CPU spares)
  SizesMax,      \* max_entries of sizes
  AllocsElem,    \* elements of the map allocs
  AllocsMax,     \* ALLOCS_MAX_ENTRIES
  CombinedMax,   \* COMBINED_ALLOCS_MAX_ENTRIES
  Trace,         \* call stacks of the traced program
  StackHash,     \* [Trace -> bucket of stack_traces]
  EEXIST         \* the stack id of a call stack whose bucket is taken

Bucket == {StackHash[tr] : tr \in Trace}
StackId == Bucket \cup {EEXIST}

ASSUME BpfAssumption ==
  /\ Tgid \in [Thread -> Pid]
  /\ NULL \notin Addr
  /\ None \notin SizesElem \cup AllocsElem \cup StackId \cup Addr \cup Trace
  /\ None \notin Word
  /\ {MinSize, MaxSize, SampleRate} \subseteq Nat
  /\ CombinedMax \in Nat
  /\ Clock \subseteq Nat
  /\ EEXIST \notin Bucket

VARIABLES
  sizes,          \* map sizes: pid -> element
  sizesData,      \* the values of its elements
  allocs,         \* map allocs: address -> element
  allocsData,     \* the values of its elements (struct alloc_info)
  combined,       \* map combined_allocs: stack id -> packed word, never deleted
  stack_traces,   \* map stack_traces: bucket -> call stack
  displaced,      \* history: the buckets in which one call stack replaced another
  pc,             \* where each thread is
  call,           \* the traced call each thread is in
  addr,           \* the address each thread's handler works on
  elem,           \* the element pointer each thread's handler holds
  info,           \* the struct alloc_info local to each thread's handler
  drift           \* history: what has made the statistics inexact so far

mapVars ==
  <<sizes, sizesData, allocs, allocsData, combined, stack_traces, displaced>>
bpfVars == <<mapVars, pc, call, addr, elem, info, drift>>

NoInfo == [size |-> 0, stack |-> None]
NoCall ==
  [fn |-> "none", req |-> 0, trace |-> None, enter |-> FALSE, ret |-> FALSE]

BpfInit ==
  /\ sizes = [p \in Pid |-> None]
  /\ sizesData = [e \in SizesElem |-> 0]
  /\ allocs = [a \in Addr |-> None]
  /\ allocsData = [e \in AllocsElem |-> NoInfo]
  /\ combined = [s \in StackId |-> None]
  /\ stack_traces = [b \in Bucket |-> None]
  /\ displaced = {}
  /\ pc = [t \in Thread |-> "run"]
  /\ call = [t \in Thread |-> NoCall]
  /\ addr = [t \in Thread |-> NULL]
  /\ elem = [t \in Thread |-> None]
  /\ info = [t \in Thread |-> NoInfo]
  /\ drift = {}

-----------------------------------------------------------------------------
(* Control flow of the handlers.                                           *)

At(t, label) == pc[t] = label

Goto(t, label) == pc' = [pc EXCEPT ![t] = label]

\* Where gen_alloc_enter returns to: the uprobes let the allocation function
\* run; the tracepoints ("kalloc") go on with gen_alloc_exit2 themselves.
AfterEnter(fn) == IF fn = "kalloc" THEN "exit_lookup" ELSE "heap"

\* Where gen_free_enter returns to: realloc_enter and, with wa_missing_free,
\* the slab tracepoints go on with gen_alloc_enter; a free function then frees.
AfterFree(fn) == IF fn \in {"realloc", "kalloc"} THEN "enter" ELSE "heap"

\* The thread is back in the traced program; nothing of the handler is left.
Return(t) ==
  /\ Goto(t, "run")
  /\ call' = [call EXCEPT ![t] = NoCall]
  /\ addr' = [addr EXCEPT ![t] = NULL]
  /\ elem' = [elem EXCEPT ![t] = None]
  /\ info' = [info EXCEPT ![t] = NoInfo]

\* gen_free_enter is over.
EndFree(t) ==
  /\ Goto(t, AfterFree(call[t].fn))
  /\ elem' = [elem EXCEPT ![t] = None]
  /\ info' = [info EXCEPT ![t] = NoInfo]
  /\ UNCHANGED <<call, addr>>

-----------------------------------------------------------------------------
(* gen_alloc_enter: remember the requested size until the function returns *)

\* The size the handler is given: a size_t, so a product may have wrapped.
SizeArg(t) == call[t].req % WordMod

\* Faulty variant, for testing the properties: the lower bound is exclusive.
FilteredAtMinSize(t, now) ==
  \/ SizeArg(t) <= MinSize
  \/ SizeArg(t) > MaxSize
  \/ SampleRate > 1 /\ now % SampleRate # 0
  \/ TargetPid # None /\ Tgid[t] # TargetPid

\* The filters: size range, sampling by the clock, target process.
Filtered(t, now) ==
  \/ SizeArg(t) < MinSize
  \/ SizeArg(t) > MaxSize
  \/ SampleRate > 1 /\ now % SampleRate # 0
  \/ TargetPid # None /\ Tgid[t] # TargetPid

gen_alloc_enter(t) ==
  /\ At(t, "enter")
  /\ Goto(t, AfterEnter(call[t].fn))
  /\ \/ /\ \E now \in Clock : Filtered(t, now)
        /\ UNCHANGED <<sizes, sizesData>>
     \/ /\ \E now \in Clock : ~Filtered(t, now)
        /\ ~HasRoom(sizes, Tgid[t], SizesMax)
        /\ UNCHANGED <<sizes, sizesData>>
     \/ /\ \E now \in Clock : ~Filtered(t, now)
        /\ HasRoom(sizes, Tgid[t], SizesMax)
        /\ \E e \in Unused(sizes, SizesElem) :
             /\ sizes' = [sizes EXCEPT ![Tgid[t]] = e]
             /\ sizesData' = [sizesData EXCEPT ![e] = SizeArg(t)]
  /\ UNCHANGED <<allocs, allocsData, combined, stack_traces, displaced,
                 call, addr, elem, info, drift>>

-----------------------------------------------------------------------------
(* gen_alloc_exit2: record the address the function returned.              *)

exit_lookup(t) ==
  /\ At(t, "exit_lookup")
  /\ \/ /\ sizes[Tgid[t]] = None
        /\ Return(t)
     \/ /\ sizes[Tgid[t]] # None
        /\ elem' = [elem EXCEPT ![t] = sizes[Tgid[t]]]
        /\ Goto(t, "exit_read")
        /\ UNCHANGED <<call, addr, info>>
  /\ UNCHANGED <<mapVars, drift>>

\* info.size = *size, through the pointer the lookup returned.
exit_read(t) ==
  /\ At(t, "exit_read")
  /\ info' = [info EXCEPT ![t] = [size |-> sizesData[elem[t]], stack |-> None]]
  /\ elem' = [elem EXCEPT ![t] = None]
  /\ Goto(t, "exit_del")
  /\ UNCHANGED <<mapVars, call, addr, drift>>

\* Faulty variant, for testing the properties: the size is not deleted.
exit_delKeepsSize(t) ==
  /\ At(t, "exit_del")
  /\ \/ addr[t] = NULL /\ Return(t)
     \/ addr[t] # NULL /\ Goto(t, "exit_stack") /\ UNCHANGED <<call, addr, elem, info>>
  /\ UNCHANGED <<mapVars, drift>>

\* Faulty variant, for testing the properties: a null result is recorded like
\* a block.
exit_delStoresNull(t) ==
  /\ At(t, "exit_del")
  /\ sizes' = [sizes EXCEPT ![Tgid[t]] = None]
  /\ Goto(t, "exit_stack")
  /\ UNCHANGED <<sizesData, allocs, allocsData, combined, stack_traces, displaced,
                 call, addr, elem, info, drift>>

exit_del(t) ==
  /\ At(t, "exit_del")
  /\ sizes' = [sizes EXCEPT ![Tgid[t]] = None]
  /\ \/ /\ addr[t] = NULL
        /\ Return(t)
     \/ /\ addr[t] # NULL
        /\ Goto(t, "exit_stack")
        /\ UNCHANGED <<call, addr, elem, info>>
  /\ UNCHANGED <<sizesData, allocs, allocsData, combined, stack_traces, displaced,
                 drift>>

\* The stack id is now known; the entry comes next.
WithStack(t, id) ==
  /\ info' = [info EXCEPT ![t] = [size |-> info[t].size, stack |-> id]]
  /\ Goto(t, "exit_put")

\* Faulty variant, for testing the properties: the bucket is reported although
\* it holds another call stack.
exit_stackAnyBucket(t) ==
  LET b == StackHash[call[t].trace]
  IN  /\ At(t, "exit_stack")
      /\ \/ stack_traces[b] = None /\ Goto(t, "exit_bucket") /\ UNCHANGED info
         \/ stack_traces[b] # None /\ WithStack(t, b)
      /\ UNCHANGED <<mapVars, call, addr, elem, drift>>

\* bpf_get_stackid without BPF_F_REUSE_STACKID looks at the bucket of the call
\* stack: it holds this one, or another one (-EEXIST), or none.
exit_stack(t) ==
  LET b == StackHash[call[t].trace]
  IN  /\ At(t, "exit_stack")
      /\ \/ stack_traces[b] = None /\ Goto(t, "exit_bucket") /\ UNCHANGED info
         \/ stack_traces[b] = call[t].trace /\ WithStack(t, b)
         \/ stack_traces[b] \notin {None, call[t].trace} /\ WithStack(t, EEXIST)
      /\ UNCHANGED <<mapVars, call, addr, elem, drift>>

\* The bucket was empty: the call stack is put there, without another look.
exit_bucket(t) ==
  LET b == StackHash[call[t].trace]
  IN  /\ At(t, "exit_bucket")
      /\ WithStack(t, b)
      /\ stack_traces' = [stack_traces EXCEPT ![b] = call[t].trace]
      /\ displaced' =
           displaced \cup {x \in {b} : stack_traces[x] \notin {None, call[t].trace}}
      /\ UNCHANGED <<sizes, sizesData, allocs, allocsData, combined,
                     call, addr, elem, drift>>

\* Some thread has deleted the entry that used e and still reads e.
BeingRead(e) ==
  \E u \in Thread : elem[u] = e /\ pc[u] \in {"free_size", "free_stack"}

\* bpf_map_update_elem(&allocs, ..., BPF_ANY); its result is ignored.
exit_put(t) ==
  /\ At(t, "exit_put")
  /\ Goto(t, "add_lookup")
  /\ \/ /\ HasRoom(allocs, addr[t], AllocsMax)
        /\ \E e \in Unused(allocs, AllocsElem) :
             /\ allocs' = [allocs EXCEPT ![addr[t]] = e]
             /\ allocsData' = [allocsData EXCEPT ![e] = info[t]]
             /\ drift' = drift
                  \cup {x \in {"reuse"} : BeingRead(e)}
                  \cup {x \in {"replaced"} : allocs[addr[t]] # None}
     \/ /\ ~HasRoom(allocs, addr[t], AllocsMax)
        /\ drift' = drift \cup {"full"}
        /\ UNCHANGED <<allocs, allocsData>>
  /\ UNCHANGED <<sizes, sizesData, combined, stack_traces, displaced,
                 call, addr, elem, info>>

(* update_statistics_add, with bpf_map_lookup_or_try_init.                 *)

add_lookup(t) ==
  /\ At(t, "add_lookup")
  /\ Goto(t, IF combined[info[t].stack] = None THEN "add_init" ELSE "add")
  /\ UNCHANGED <<mapVars, call, addr, elem, info, drift>>

\* Faulty variant, for testing the properties: BPF_ANY instead of BPF_NOEXIST,
\* which resets the word of the thread that won the race.
add_initResets(t) ==
  LET s == info[t].stack
  IN  /\ At(t, "add_init")
      /\ \/ /\ HasRoom(combined, s, CombinedMax)
            /\ combined' = [combined EXCEPT ![s] = 0]
            /\ Goto(t, "add")
            /\ UNCHANGED <<call, addr, elem, info>>
         \/ /\ ~HasRoom(combined, s, CombinedMax)
            /\ Return(t)
            /\ UNCHANGED combined
      /\ UNCHANGED <<sizes, sizesData, allocs, allocsData, stack_traces, displaced, drift>>

\* The BPF_NOEXIST update and the second lookup.  A lost race (-EEXIST) finds
\* the winner's element; entries are never deleted, so the second lookup
\* returns the same whenever it happens.
add_init(t) ==
  LET s == info[t].stack
  IN  /\ At(t, "add_init")
      /\ \/ /\ combined[s] # None
            /\ Goto(t, "add")
            /\ UNCHANGED <<combined, call, addr, elem, info>>
         \/ /\ combined[s] = None
            /\ Cardinality(Present(combined)) < CombinedMax
            /\ combined' = [combined EXCEPT ![s] = 0]
            /\ Goto(t, "add")
            /\ UNCHANGED <<call, addr, elem, info>>
         \/ /\ combined[s] = None
            /\ Cardinality(Present(combined)) >= CombinedMax
            /\ Return(t)
            /\ UNCHANGED combined
      /\ UNCHANGED <<sizes, sizesData, allocs, allocsData, stack_traces, displaced, drift>>

add(t) ==
  /\ At(t, "add")
  /\ combined' =
       [combined EXCEPT ![info[t].stack] = FetchAdd(@, info[t].size)]
  /\ Return(t)
  /\ UNCHANGED <<sizes, sizesData, allocs, allocsData, stack_traces, displaced, drift>>

-----------------------------------------------------------------------------
(* gen_free_enter: forget the address.                                     *)

free_lookup(t) ==
  /\ At(t, "free_lookup")
  /\ \/ /\ addr[t] \notin Present(allocs)
        /\ EndFree(t)
     \/ /\ addr[t] \in Present(allocs)
        /\ elem' = [elem EXCEPT ![t] = allocs[addr[t]]]
        /\ Goto(t, "free_del")
        /\ UNCHANGED <<call, addr, info>>
  /\ UNCHANGED <<mapVars, drift>>

\* Faulty variant, for testing the properties: the entry is not deleted.
free_delKeepsEntry(t) ==
  /\ At(t, "free_del")
  /\ Goto(t, "free_size")
  /\ UNCHANGED <<mapVars, call, addr, elem, info, drift>>

free_del(t) ==
  /\ At(t, "free_del")
  /\ allocs' = [allocs EXCEPT ![addr[t]] = None]
  /\ Goto(t, "free_size")
  /\ UNCHANGED <<sizes, sizesData, allocsData, combined, stack_traces, displaced,
                 call, addr, elem, info, drift>>

\* info->size, then info->stack_id, read through the pointer of the lookup
\* after the entry has been deleted (in the order of the compiled program).
free_size(t) ==
  /\ At(t, "free_size")
  /\ info' = [info EXCEPT ![t] =
                [size |-> allocsData[elem[t]].size, stack |-> None]]
  /\ Goto(t, "free_stack")
  /\ UNCHANGED <<mapVars, call, addr, elem, drift>>

free_stack(t) ==
  /\ At(t, "free_stack")
  /\ info' = [info EXCEPT ![t] =
                [size |-> info[t].size, stack |-> allocsData[elem[t]].stack]]
  /\ elem' = [elem EXCEPT ![t] = None]
  /\ Goto(t, "del_lookup")
  /\ UNCHANGED <<mapVars, call, addr, drift>>

(* update_statistics_del.                                                  *)

del_lookup(t) ==
  /\ At(t, "del_lookup")
  /\ \/ /\ combined[info[t].stack] = None
        /\ EndFree(t)
     \/ /\ combined[info[t].stack] # None
        /\ Goto(t, "del")
        /\ UNCHANGED <<call, addr, elem, info>>
  /\ UNCHANGED <<mapVars, drift>>

del(t) ==
  /\ At(t, "del")
  /\ combined' =
       [combined EXCEPT ![info[t].stack] = FetchSub(@, info[t].size)]
  /\ EndFree(t)
  /\ UNCHANGED <<sizes, sizesData, allocs, allocsData, stack_traces, displaced, drift>>

-----------------------------------------------------------------------------
gen_alloc_exit2(t) ==
  \/ exit_lookup(t) \/ exit_read(t) \/ exit_del(t) \/ exit_stack(t)
  \/ exit_bucket(t) \/ exit_put(t) \/ add_lookup(t) \/ add_init(t) \/ add(t)

gen_free_enter(t) ==
  \/ free_lookup(t) \/ free_del(t) \/ free_size(t) \/ free_stack(t)
  \/ del_lookup(t) \/ del(t)

\* One step of the handler that thread t is running.
HandlerStep(t) == gen_alloc_enter(t) \/ gen_alloc_exit2(t) \/ gen_free_enter(t)

-----------------------------------------------------------------------------
(* The types of the maps and of the handlers' registers.                   *)

Label ==
  {"run", "heap", "enter",
   "exit_lookup", "exit_read", "exit_del", "exit_stack", "exit_bucket",
   "exit_put", "add_lookup", "add_init", "add",
   "free_lookup", "free_del", "free_size", "free_stack", "del_lookup", "del"}

\* The functions whose handlers record a block, and those that give one up.
RecordingFn == {"malloc", "calloc", "realloc", "aligned_alloc", "valloc", "memalign",
                "pvalloc", "posix_memalign", "mmap", "kalloc"}
FreeingFn == {"free", "munmap", "kfree"}

Calls == [fn : RecordingFn \cup FreeingFn \cup {"none"}, req : Nat,
          trace : Trace \cup {None}, enter : BOOLEAN, ret : BOOLEAN]
Infos == [size : Word, stack : StackId \cup {None}]

MapsTyped ==
  /\ sizes \in [Pid -> SizesElem \cup {None}]
  /\ sizesData \in [SizesElem -> Word]
  /\ allocs \in [Addr -> AllocsElem \cup {None}]
  /\ allocsData \in [AllocsElem -> Infos]
  /\ combined \in [StackId -> Word \cup {None}]
  /\ stack_traces \in [Bucket -> Trace \cup {None}]
  /\ displaced \subseteq Bucket

ThreadsTyped ==
  /\ pc \in [Thread -> Label]
  /\ call \in [Thread -> Calls]
  /\ addr \in [Thread -> Addr \cup {NULL}]
  /\ elem \in [Thread -> SizesElem \cup AllocsElem \cup {None}]
  /\ info \in [Thread -> Infos]

BpfTypeOK ==
  MapsTyped /\ ThreadsTyped /\ drift \subseteq {"reuse", "full", "replaced"}

\* Where gen_alloc_exit2 may be.
ExitLabel == {"exit_lookup", "exit_read", "exit_del", "exit_stack", "exit_bucket",
              "exit_put", "add_lookup", "add_init", "add"}

\* The registers of thread t's handler fit the label it is at: it dereferences
\* only pointers that a lookup returned, never stores or frees the null
\* address, and adds and subtracts only in words that exist.
Registers(t) ==
  /\ call[t].fn \in RecordingFn => call[t].trace \in Trace
  /\ pc[t] \in ExitLabel \cup {"enter"} => call[t].fn \in RecordingFn
  /\ pc[t] = "exit_read" => elem[t] \in SizesElem
  /\ pc[t] \in {"free_del", "free_size", "free_stack"} =>
       elem[t] \in AllocsElem /\ allocsData[elem[t]].stack \in StackId
  /\ pc[t] \in {"exit_stack", "exit_bucket", "exit_put", "add_lookup", "add_init",
                "add", "free_del", "free_size", "free_stack", "del_lookup", "del"} =>
       addr[t] \in Addr
  /\ pc[t] \in {"exit_put", "add_lookup", "add_init", "add", "del_lookup", "del"} =>
       info[t].stack \in StackId
  /\ pc[t] \in {"add", "del"} => combined[info[t].stack] # None

-----------------------------------------------------------------------------
(***************************************************************************)
(* What the statistics account for.  An entry of allocs counts in the word *)
(* of its stack id from the atomic addition of the thread that stored it   *)
(* to the atomic subtraction of the thread that deleted it.                *)
(***************************************************************************)
Entry(a) == allocsData[allocs[a]]

\* t has stored the entry of a and has not added it yet.
Adding(t, a) == addr[t] = a /\ pc[t] \in {"add_lookup", "add_init", "add"}

\* t has deleted an entry and has not subtracted it yet.
Subtracting(t) ==
  pc[t] \in {"free_size", "free_stack", "del_lookup", "del"}

\* What t will subtract, and from which word.
PendingSize(t) ==
  IF pc[t] = "free_size" THEN allocsData[elem[t]].size ELSE info[t].size
PendingStack(t) ==
  IF pc[t] \in {"free_size", "free_stack"}
    THEN allocsData[elem[t]].stack ELSE info[t].stack

Settled == {a \in Addr : allocs[a] # None /\ \A t \in Thread : ~Adding(t, a)}

Accounted(s) ==
  {<<a, Entry(a).size>> : a \in {x \in Settled : Entry(x).stack = s}}
    \cup
  {<<addr[t], PendingSize(t)>> :
     t \in {u \in Thread : Subtracting(u) /\ PendingStack(u) = s}}

\* The entries of allocs that carry the stack id s.
Outstanding(s) ==
  {<<a, Entry(a).size>> : a \in {x \in Present(allocs) : Entry(x).stack = s}}

\* The abstract view of the maps and of the handlers on their way.
Promise ==
  INSTANCE Statistics WITH
    Entries   <- Addr \X Word,
    accounted <- [s \in StackId |-> IF combined[s] = None THEN {} ELSE Accounted(s)],
    exact     <- drift = {}

\* The handlers implement Statistics, whatever two CPUs do at once: every step
\* of theirs creates a word, adds one allocation that is accounted nowhere yet,
\* removes one that its word accounts for, or changes nothing a reader of
\* combined_allocs could see (memleak.bpf.c:61-95), as long as no element was
\* reused under a reader, allocs never was full and no entry was overwritten.
StatisticsRefined == Promise!StatisticsSpec

\* Every word of combined_allocs is, at every moment and in every
\* interleaving of the handlers, the packed total of exactly the entries it
\* accounts for: update_statistics_add and _del (memleak.bpf.c:61-95) never
\* lose or double an update, whatever two CPUs do at once, as long as no
\* element was reused under a reader, allocs never was full and no entry was
\* overwritten by another allocation's.
StatisticsExact ==
  drift = {} =>
    \A s \in StackId : combined[s] # None => combined[s] = Packed(Accounted(s))

\* The same without these provisos, for the moments when no thread is in a
\* traced function: combined_allocs is the aggregate of allocs by stack id.
AggregatesAllocs ==
  (\A t \in Thread : At(t, "run")) =>
    \A s \in StackId : combined[s] # None => combined[s] = Packed(Outstanding(s))

=============================================================================
