----------------------------- MODULE KernelHeap -----------------------------
(***************************************************************************)
(* Tracing the kernel (ebpf-memleak without -pid): the tracepoint handlers *)
(* of bpf/memleak.bpf.c:322-545, run by several kernel contexts, some of   *)
(* them of one process.  attachPrograms attaches kmalloc's and kfree's;    *)
(* the others are modelled as the programs they are.  The allocators are   *)
(* outside the repository: an allocation's tracepoint fires after the      *)
(* block is taken, a free's before anyone can take it again, and a block   *)
(* is not freed before its allocation has returned.  The kernel does not   *)
(* run a tracepoint program on a CPU that is already running one, so an    *)
(* event may be lost: this is what wa_missing_free works around.           *)
(***************************************************************************)
EXTENDS MemleakBpf

CONSTANTS
  Slab, Page, Percpu,   \* the keys of blocks of the three allocators, and
  NoPage,               \* the page frame number -1 of a failed page allocation
  KSize,                \* the sizes kernel code asks for
  Order, page_size,     \* a page allocation has page_size << order bytes
  WaMissingFree,        \* wa_missing_free
  Btf                   \* the event types of the running kernel

ASSUME KernelAssumption ==
  /\ Addr = Slab \cup Page \cup Percpu \cup {NoPage}
  /\ Slab \cap (Page \cup Percpu) = {} /\ Page \cap Percpu = {}
  /\ NoPage \notin Slab \cup Page \cup Percpu
  /\ KSize \subseteq Nat /\ Order \subseteq Nat /\ page_size \in Nat
  /\ \A k \in Order : page_size * 2^k \in Nat
  /\ WaMissingFree \in BOOLEAN

VARIABLE live       \* the blocks that are allocated

kernelVars == <<bpfVars, live>>

Init == BpfInit /\ live = {}

\* bpf_core_type_exists, resolved when the object is loaded.
has_kmem_alloc      == "kmem_alloc" \in Btf
has_kmem_alloc_node == "kmem_alloc_node" \in Btf
has_kfree           == "kfree" \in Btf
has_kmem_cache_free == "kmem_cache_free" \in Btf

-----------------------------------------------------------------------------
(* Events whose handler runs.                                              *)

\* A tracepoint handler starts in thread t.
Event(t, fn, ptr, req, tr, label) ==
  /\ At(t, "run")
  /\ call' = [call EXCEPT ![t] = [fn |-> fn, req |-> req, trace |-> tr,
                                  enter |-> TRUE, ret |-> FALSE]]
  /\ addr' = [addr EXCEPT ![t] = ptr]
  /\ Goto(t, label)
  /\ UNCHANGED <<mapVars, elem, info, drift>>

\* A block was taken, or ptr says that the allocation failed; the handler, at
\* label, goes on with gen_alloc_enter and gen_alloc_exit2.
Taken(t, ptrs, szs, label) ==
  \E ptr \in ptrs, sz \in szs, tr \in Trace :
    /\ live' = live \cup ({ptr} \ {NULL, NoPage})
    /\ Event(t, "kalloc", ptr, sz, tr, label)

\* Faulty variant, for testing the properties: no workaround for lost frees.
SlabAllocNoWa(t, type) ==
  /\ type \in Btf
  /\ Taken(t, (Slab \ live) \cup {NULL}, KSize, "enter")

\* The slab handlers read the event through a type the kernel must have; told
\* to, they first drop the entry an earlier life of the block may have left.
SlabAlloc(t, type) ==
  /\ type \in Btf
  /\ Taken(t, (Slab \ live) \cup {NULL}, KSize,
           IF WaMissingFree THEN "free_lookup" ELSE "enter")

memleak__kmalloc(t) ==
  SlabAlloc(t, IF has_kmem_alloc THEN "kmem_alloc" ELSE "kmalloc")

memleak__kmem_cache_alloc(t) ==
  SlabAlloc(t, IF has_kmem_alloc THEN "kmem_alloc" ELSE "kmem_cache_alloc")

memleak__kmalloc_node(t) ==
  has_kmem_alloc_node /\ SlabAlloc(t, "kmem_alloc_node")

memleak__kmem_cache_alloc_node(t) ==
  has_kmem_alloc_node /\ SlabAlloc(t, "kmem_alloc_node")

\* No workaround here, and the failure of a page allocation is not the null
\* address: it is stored like a block.
memleak__mm_page_alloc(t) ==
  Taken(t, (Page \ live) \cup {NoPage}, {page_size * 2^k : k \in Order}, "enter")

memleak__percpu_alloc_percpu(t) == Taken(t, Percpu \ live, KSize, "enter")

\* The blocks that kernel code may free.
Freeable == {a \in live : \A t \in Thread : ~At(t, "run") => addr[t] # a}

\* A block is about to be freed.
Freed(t, ptrs) ==
  /\ \E ptr \in ptrs : Event(t, "kfree", ptr, 0, None, "free_lookup")
  /\ UNCHANGED live

\* kfree accepts the null pointer.
memleak__kfree(t) ==
  /\ (IF has_kfree THEN "kfree" ELSE "kmem_free") \in Btf
  /\ Freed(t, (Freeable \cap Slab) \cup {NULL})

memleak__kmem_cache_free(t) ==
  /\ (IF has_kmem_cache_free THEN "kmem_cache_free" ELSE "kmem_free") \in Btf
  /\ Freed(t, Freeable \cap Slab)

memleak__mm_page_free(t) == Freed(t, Freeable \cap Page)

memleak__percpu_free_percpu(t) == Freed(t, Freeable \cap Percpu)

\* After the handler the block is given back.
free_done(t) ==
  /\ At(t, "heap")
  /\ call[t].fn = "kfree"
  /\ live' = live \ {addr[t]}
  /\ Return(t)
  /\ UNCHANGED <<mapVars, drift>>

-----------------------------------------------------------------------------
(* Events whose handler does not run, or is not attached.                  *)

alloc_lost(t) ==
  /\ At(t, "run")
  /\ \E ptr \in Addr \ (live \cup {NoPage}) : live' = live \cup {ptr}
  /\ UNCHANGED bpfVars

free_lost(t) ==
  /\ At(t, "run")
  /\ \E ptr \in Freeable : live' = live \ {ptr}
  /\ UNCHANGED bpfVars

KernelHandlerStep(t) == HandlerStep(t) /\ UNCHANGED live

AllocEvent(t) ==
  \/ memleak__kmalloc(t) \/ memleak__kmalloc_node(t)
  \/ memleak__kmem_cache_alloc(t) \/ memleak__kmem_cache_alloc_node(t)
  \/ memleak__mm_page_alloc(t) \/ memleak__percpu_alloc_percpu(t)

FreeEvent(t) ==
  \/ memleak__kfree(t) \/ memleak__kmem_cache_free(t)
  \/ memleak__mm_page_free(t) \/ memleak__percpu_free_percpu(t)

Next ==
  \E t \in Thread :
    \/ AllocEvent(t) \/ FreeEvent(t) \/ free_done(t)
    \/ alloc_lost(t) \/ free_lost(t)
    \/ KernelHandlerStep(t)

Spec == Init /\ [][Next]_kernelVars

-----------------------------------------------------------------------------
(* Properties (with StatisticsExact and StatisticsRefined of MemleakBpf).  *)

FalseLeaks == (Present(allocs) \ live) \ {NoPage}

\* Only a lost free leaves the entry of a dead block in allocs; whatever else
\* several contexts do at once, no handler step adds one.  (A failed page
\* allocation adds the entry of NoPage, which is no block.)
OnlyLostFreesLeak ==
  [][FalseLeaks' \subseteq FalseLeaks \/ \E t \in Thread : free_lost(t)]_kernelVars

\* The workaround works (memleak.bpf.c:394-395, 414-415, 466-467, 486-487): when
\* a handler is about to store a slab block, no entry of an earlier life of the
\* block is left, however many frees were lost and whatever runs meanwhile; so
\* no overwritten entry stays in the statistics for ever.
WorkaroundEffective ==
  WaMissingFree =>
    \A t \in Thread :
      At(t, "exit_put") /\ addr[t] \in Slab => allocs[addr[t]] = None

=============================================================================
