------------------------------ MODULE UserHeap ------------------------------
(***************************************************************************)
(* Tracing one process (ebpf-memleak -pid N): the uprobes and uretprobes   *)
(* on the allocation functions of the C library (bpf/memleak.bpf.c), the   *)
(* order in which attachPrograms attaches seven of them                    *)
(* (internal/probe/probe.go), and, outside the repository, the C library   *)
(* and a program that uses it correctly: no double free, no use of a block *)
(* that another call is freeing.  A uprobe runs before the first           *)
(* instruction of the function, a uretprobe after the last; the return of  *)
(* a call is probed only if the uretprobe was attached when the call was   *)
(* made.  A call of a function that has no probe is not seen at all.       *)
(* Module LibcHeap adds posix_memalign, mmap and munmap.                   *)
(***************************************************************************)
EXTENDS MemleakBpf

CONSTANTS
  Size,            \* the sizes the program asks for
  Nmemb,           \* the element counts it gives to calloc
  Used,            \* the functions it allocates with
  OomFn,           \* the allocation functions that may run out of memory
  InitAttached     \* the probes attached before the program's first call

\* The probes attachPrograms attaches when pid > 0, in its order.
AttachOrder ==
  << <<"malloc", "enter">>, <<"malloc", "exit">>, <<"free", "enter">>,
     <<"calloc", "enter">>, <<"calloc", "exit">>,
     <<"realloc", "enter">>, <<"realloc", "exit">> >>

Probe == {AttachOrder[i] : i \in 1 .. 7}

\* The allocation functions that return the block, or NULL.
AllocFn == {"malloc", "calloc", "realloc", "aligned_alloc", "valloc", "memalign",
            "pvalloc"}

\* All user programs of the BPF object, attached by attachPrograms or not.
UserProgram ==
  (AllocFn \cup {"posix_memalign", "mmap"}) \X {"enter", "exit"}
    \cup {"free", "munmap"} \X {"enter"}

ASSUME UserAssumption ==
  /\ Size \subseteq Word         \* a size_t
  /\ Nmemb \subseteq Nat
  /\ InitAttached \subseteq UserProgram
  /\ None \notin [size : Nat, trace : Trace]

VARIABLES
  heap,            \* the live blocks: address -> requested size, call stack
  attached         \* the probes attached so far

userVars == <<bpfVars, heap, attached>>

Init ==
  /\ BpfInit
  /\ heap = [a \in Addr |-> None]
  /\ attached = InitAttached

\* attachPrograms attaches its next probe; a failure ends the tracer.
AttachNext ==
  /\ \E i \in 1 .. 7 :
       /\ AttachOrder[i] \notin attached
       /\ \A j \in 1 .. (i - 1) : AttachOrder[j] \in attached
       /\ attached' = attached \cup {AttachOrder[i]}
  /\ UNCHANGED <<bpfVars, heap>>

-----------------------------------------------------------------------------
(* The calls of the traced program.                                        *)

Live(a) == heap[a] # None

\* The blocks a correct program may hand to free or realloc, and the null
\* pointer, which both accept.
Freeable ==
  {NULL} \cup
  {a \in Addr : Live(a) /\ \A t \in Thread : ~At(t, "run") => addr[t] # a}

\* Thread t calls fn; its uprobe handler, if attached, starts at label.
Call(t, fn, ptr, req, tr, label) ==
  /\ At(t, "run")
  /\ call' = [call EXCEPT ![t] =
                [fn |-> fn, req |-> req, trace |-> tr,
                 enter |-> <<fn, "enter">> \in attached,
                 ret |-> <<fn, "exit">> \in attached]]
  /\ addr' = [addr EXCEPT ![t] = ptr]
  /\ Goto(t, IF <<fn, "enter">> \in attached THEN label ELSE "heap")
  /\ UNCHANGED <<mapVars, elem, info, drift, heap, attached>>

\* A call of a function whose probe looks at nothing but the size.
SizedCall(t, fn) ==
  /\ fn \in Used
  /\ \E sz \in Size, tr \in Trace : Call(t, fn, NULL, sz, tr, "enter")

malloc_enter(t)        == SizedCall(t, "malloc")
aligned_alloc_enter(t) == SizedCall(t, "aligned_alloc")
valloc_enter(t)        == SizedCall(t, "valloc")
memalign_enter(t)      == SizedCall(t, "memalign")
pvalloc_enter(t)       == SizedCall(t, "pvalloc")

calloc_enter(t) ==
  \E n \in Nmemb, sz \in Size, tr \in Trace :
    Call(t, "calloc", NULL, n * sz, tr, "enter")

realloc_enter(t) ==
  \E ptr \in Freeable, sz \in Size, tr \in Trace :
    Call(t, "realloc", ptr, sz, tr, "free_lookup")

free_enter(t) ==
  \E ptr \in Freeable : Call(t, "free", ptr, 0, None, "free_lookup")

-----------------------------------------------------------------------------
(* The C library.  A probed return goes on in gen_alloc_exit2 with the     *)
(* address the function returns.                                           *)

Block(t) == [size |-> call[t].req, trace |-> call[t].trace]

\* The allocation function of thread t returns ret.
HeapReturn(t, ret) ==
  /\ \/ /\ call[t].ret
        /\ Goto(t, "exit_lookup")
        /\ addr' = [addr EXCEPT ![t] = ret]
        /\ call' = [call EXCEPT ![t].req = 0]
        /\ UNCHANGED <<elem, info>>
     \/ /\ ~call[t].ret
        /\ Return(t)
  /\ UNCHANGED <<mapVars, drift, attached>>

\* A new block; for realloc this is realloc(NULL, n).
HeapAllocate(t) ==
  /\ At(t, "heap")
  /\ call[t].fn \in AllocFn
  /\ addr[t] = NULL
  /\ call[t].req < WordMod
  /\ \E a \in Addr :
       /\ ~Live(a)
       /\ heap' = [heap EXCEPT ![a] = Block(t)]
       /\ HeapReturn(t, a)

\* A reallocated block: in place, or moved.
HeapResize(t) ==
  /\ At(t, "heap")
  /\ call[t].fn = "realloc"
  /\ addr[t] # NULL
  /\ call[t].req # 0
  /\ \E a \in Addr :
       /\ a = addr[t] \/ ~Live(a)
       /\ heap' = [heap EXCEPT ![addr[t]] = None, ![a] = Block(t)]
       /\ HeapReturn(t, a)

\* realloc(ptr, 0) frees.
HeapResizeToZero(t) ==
  /\ At(t, "heap")
  /\ call[t].fn = "realloc"
  /\ addr[t] # NULL
  /\ call[t].req = 0
  /\ heap' = [heap EXCEPT ![addr[t]] = None]
  /\ HeapReturn(t, NULL)

\* No memory, or a product that does not fit a size_t: NULL, and the block
\* given to realloc stays as it is.
HeapFail(t) ==
  /\ At(t, "heap")
  /\ call[t].fn \in AllocFn
  /\ \/ call[t].fn \in OomFn /\ (addr[t] = NULL \/ call[t].req # 0)
     \/ call[t].req >= WordMod
     \/ addr[t] = NULL /\ \A a \in Addr : Live(a)
  /\ HeapReturn(t, NULL)
  /\ UNCHANGED heap

HeapFree(t) ==
  /\ At(t, "heap")
  /\ call[t].fn = "free"
  /\ heap' = [a \in Addr |-> IF a = addr[t] THEN None ELSE heap[a]]
  /\ Return(t)
  /\ UNCHANGED <<mapVars, drift, attached>>

ProgramStep(t) ==
  \/ malloc_enter(t) \/ aligned_alloc_enter(t) \/ valloc_enter(t)
  \/ memalign_enter(t) \/ pvalloc_enter(t)
  \/ calloc_enter(t) \/ realloc_enter(t) \/ free_enter(t)

HeapStep(t) ==
  \/ HeapAllocate(t) \/ HeapResize(t) \/ HeapResizeToZero(t)
  \/ HeapFail(t) \/ HeapFree(t)

UserHandlerStep(t) == HandlerStep(t) /\ UNCHANGED <<heap, attached>>

Next ==
  \/ AttachNext
  \/ \E t \in Thread : ProgramStep(t) \/ HeapStep(t) \/ UserHandlerStep(t)

Spec == Init /\ [][Next]_userVars

-----------------------------------------------------------------------------
(* Properties.                                                             *)

\* The type invariant of the maps, of the heap, and of the handlers' registers
\* at each place of the handler, in every interleaving: a failed allocation's
\* null address is never stored (memleak.bpf.c:134), and what a handler reads
\* or updates through a pointer is there (126-131, 163-168, 66-94).
TypeOK ==
  /\ BpfTypeOK
  /\ \A t \in Thread : Registers(t)
  /\ heap \in [Addr -> [size : Nat, trace : Trace] \cup {None}]
  /\ attached \subseteq UserProgram

\* Some thread is inside a traced call on a.
Busy(a) == \E t \in Thread : ~At(t, "run") /\ addr[t] = a

InRange(sz) == MinSize <= sz /\ sz <= MaxSize

\* No false leak: an address of allocs is a block that is still live, however
\* the handlers of several threads interleave.  gen_free_enter has removed the
\* entry before free or realloc gives the block back, and gen_alloc_exit2
\* stores an address only while its block is live.
NoFalseLeak == \A a \in Addr : allocs[a] # None => Live(a)

\* The stack id of the entry of a leads the reader to the call stack that
\* allocated this very block.
OriginKnown(a) == Live(a) /\ stack_traces[Entry(a).stack] = heap[a].trace

\* Whatever threads do at once, an entry whose stack id is a bucket (and not
\* -EEXIST) has a known origin, also when the block had other owners before and
\* other call stacks fall into the bucket (memleak.bpf.c:138-140).  Only a
\* bucket that two CPUs with different call stacks found empty at the same time,
\* and both filled, is excepted.
OriginRecorded ==
  \A a \in Addr :
    allocs[a] # None /\ Entry(a).stack \in Bucket \ displaced => OriginKnown(a)

\* The same without the exception: every bucket shows where its blocks
\* originate.  The code does not keep this (run stack_race).
StackShowsOrigin ==
  \A a \in Addr : allocs[a] # None /\ Entry(a).stack \in Bucket => OriginKnown(a)

\* An entry carries the size its block was requested with, across filters,
\* failed allocations and calloc products that wrap: gen_alloc_exit2 finds in
\* sizes what gen_alloc_enter stored for this call (memleak.bpf.c:113, 126-132).
SizeTruthful ==
  \A a \in Addr : allocs[a] # None /\ Live(a) => Entry(a).size = heap[a].size

\* No missed leak: a live block of a size in the traced range is in allocs
\* whenever no call on it is in progress.
LeaksRecorded ==
  \A a \in Addr :
    Live(a) /\ InRange(heap[a].size) /\ ~Busy(a) => allocs[a] # None

\* When the program has freed everything and is in no traced call, nothing is
\* reported outstanding: every word of combined_allocs is back to zero.
NothingOutstanding ==
  (\A a \in Addr : ~Live(a)) /\ (\A t \in Thread : At(t, "run")) =>
    \A s \in StackId : combined[s] # None => combined[s] = 0

FalseLeaks == {a \in Addr : allocs[a] # None /\ ~Live(a)}

\* The two probes that remove entries.
FreeProbes == {<<"free", "enter">>, <<"realloc", "enter">>}

\* Both are attached, and every call that may give up a block was made since.
WindowClosed ==
  /\ FreeProbes \subseteq attached
  /\ \A t \in Thread : call[t].fn \in {"free", "realloc"} => call[t].enter

\* Frees made while attachPrograms was still attaching (probe.go:236-306) may
\* leave entries of dead blocks; once free_enter and realloc_enter are attached
\* and the calls begun before have returned, no step makes another one, although
\* other probes are still to come.
NoNewFalseLeak ==
  [][WindowClosed => FalseLeaks' \subseteq FalseLeaks]_userVars

=============================================================================
