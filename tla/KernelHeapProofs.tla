-------------------------- MODULE KernelHeapProofs --------------------------
(***************************************************************************)
(* Theorems about the tracer of the kernel (KernelHeap), for every value   *)
(* of its constants, with and without wa_missing_free, whichever event     *)
(* types the kernel has and whatever events are lost.                      *)
(***************************************************************************)
EXTENDS KernelHeap, MemleakBpfProofs

-----------------------------------------------------------------------------
(* The tracepoints, seen from the handlers.                                *)

LiveTyped == live \subseteq Addr \ {NoPage}

TypeInv == BpfTypeInv /\ LiveTyped

\* The tracepoint handler of thread t starts at l, for an allocation or a free.
EventMove(t, l, c, ptr) ==
  /\ pc[t] = "run" /\ Outside(t, l, c, ptr)
  /\ l \in {"enter", "free_lookup"} /\ c \in Calls
  /\ \/ /\ c.fn = "kalloc" /\ c.trace \in Trace
        /\ ptr \in (Addr \ live) \cup {NULL}
        /\ live' = live \cup ({ptr} \ {NULL, NoPage})
        /\ l = "free_lookup" => ptr # NoPage
        /\ l = "enter" /\ WaMissingFree => ptr \notin Slab
     \/ /\ c.fn = "kfree" /\ l = "free_lookup"
        /\ ptr \in Freeable \cup {NULL}
        /\ UNCHANGED live

\* A step that no handler sees: a block is taken, or given back.
LostMove ==
  /\ UNCHANGED bpfVars
  /\ \/ \E ptr \in Addr \ (live \cup {NoPage}) : live' = live \cup {ptr}
     \/ \E ptr \in Freeable : live' = live \ {ptr}

LEMMA M_Event ==
  ASSUME NEW t \in Thread, NEW fn \in {"kalloc", "kfree"}, NEW ptr, NEW req \in Nat,
         NEW tr \in Trace \cup {None}, NEW l, Event(t, fn, ptr, req, tr, l)
  PROVE  \E c \in Calls : c.fn = fn /\ c.trace = tr /\ pc[t] = "run" /\ Outside(t, l, c, ptr)
<1> DEFINE c == [fn |-> fn, req |-> req, trace |-> tr, enter |-> TRUE, ret |-> FALSE]
<1>1. c \in Calls /\ c.fn = fn /\ c.trace = tr
  BY DEF Calls, RecordingFn, FreeingFn
<1>2. pc[t] = "run" /\ Outside(t, l, c, ptr)
  BY DEF Event, Outside, At, Goto
<1> QED BY <1>1, <1>2

LEMMA M_Taken ==
  ASSUME NEW t \in Thread, NEW ptrs, NEW szs, szs \subseteq Nat, NEW l \in {"enter", "free_lookup"},
         ptrs \subseteq (Addr \ live) \cup {NULL},
         l = "free_lookup" => NoPage \notin ptrs,
         l = "enter" /\ WaMissingFree => ptrs \cap Slab = {},
         Taken(t, ptrs, szs, l)
  PROVE  \E c, ptr : EventMove(t, l, c, ptr)
<1>1. PICK ptr \in ptrs, sz \in szs, tr \in Trace :
        /\ live' = live \cup ({ptr} \ {NULL, NoPage})
        /\ Event(t, "kalloc", ptr, sz, tr, l)
  BY DEF Taken
<1>2. PICK c \in Calls : c.fn = "kalloc" /\ c.trace = tr /\ pc[t] = "run" /\ Outside(t, l, c, ptr)
  BY <1>1, M_Event
<1>3. EventMove(t, l, c, ptr)
  BY <1>1, <1>2 DEF EventMove
<1> QED BY <1>3

LEMMA M_AllocEvent ==
  ASSUME TypeInv, NEW t \in Thread, AllocEvent(t) PROVE \E l, c, ptr : EventMove(t, l, c, ptr)
<1> USE KernelAssumption DEF TypeInv, LiveTyped
<1>0. NULL \notin Addr
  BY BpfAssumption
<1>1. ASSUME NEW type, SlabAlloc(t, type) PROVE \E l, c, ptr : EventMove(t, l, c, ptr)
  <2> DEFINE l    == IF WaMissingFree THEN "free_lookup" ELSE "enter"
             ptrs == (Slab \ live) \cup {NULL}
  <2>1. Taken(t, ptrs, KSize, l)
    BY <1>1 DEF SlabAlloc
  <2>2. /\ ptrs \subseteq (Addr \ live) \cup {NULL} /\ NoPage \notin ptrs
        /\ KSize \subseteq Nat
    BY <1>0
  <2>3. /\ l \in {"enter", "free_lookup"}
        /\ l = "enter" /\ WaMissingFree => ptrs \cap Slab = {}
    OBVIOUS
  <2> HIDE KernelAssumption DEF l, ptrs
  <2>4. \E c, ptr : EventMove(t, l, c, ptr)
    BY <2>1, <2>2, <2>3, M_Taken
  <2> QED BY <2>4
<1>2. CASE memleak__mm_page_alloc(t)
  <2> DEFINE ptrs == (Page \ live) \cup {NoPage}
             szs  == {page_size * 2^k : k \in Order}
  <2>1. /\ szs \subseteq Nat /\ ptrs \subseteq (Addr \ live) \cup {NULL} /\ ptrs \cap Slab = {}
    OBVIOUS
  <2>2. Taken(t, ptrs, szs, "enter")
    BY <1>2 DEF memleak__mm_page_alloc
  <2> HIDE DEF ptrs, szs
  <2>3. \E c, ptr : EventMove(t, "enter", c, ptr)
    BY <2>1, <2>2, M_Taken
  <2> QED BY <2>3
<1>3. CASE memleak__percpu_alloc_percpu(t)
  <2> DEFINE ptrs == Percpu \ live
  <2>1. ptrs \subseteq (Addr \ live) \cup {NULL} /\ ptrs \cap Slab = {}
    OBVIOUS
  <2>2. Taken(t, ptrs, KSize, "enter")
    BY <1>3 DEF memleak__percpu_alloc_percpu
  <2> HIDE DEF ptrs
  <2>3. \E c, ptr : EventMove(t, "enter", c, ptr)
    BY <2>1, <2>2, M_Taken
  <2> QED BY <2>3
<1> QED BY <1>1, <1>2, <1>3
        DEF AllocEvent, memleak__kmalloc, memleak__kmalloc_node, memleak__kmem_cache_alloc,
            memleak__kmem_cache_alloc_node

LEMMA M_FreeEvent ==
  ASSUME NEW t \in Thread, FreeEvent(t) PROVE \E l, c, ptr : EventMove(t, l, c, ptr)
<1>1. \E ptr \in Freeable \cup {NULL} :
        /\ Event(t, "kfree", ptr, 0, None, "free_lookup")
        /\ UNCHANGED live
  BY DEF FreeEvent, memleak__kfree, memleak__kmem_cache_free, memleak__mm_page_free,
         memleak__percpu_free_percpu, Freed
<1>2. PICK ptr \in Freeable \cup {NULL} :
        Event(t, "kfree", ptr, 0, None, "free_lookup") /\ UNCHANGED live
  BY <1>1
<1>3. PICK c \in Calls : c.fn = "kfree" /\ pc[t] = "run" /\ Outside(t, "free_lookup", c, ptr)
  BY <1>2, M_Event
<1>4. EventMove(t, "free_lookup", c, ptr)
  BY <1>2, <1>3 DEF EventMove
<1> QED BY <1>4

LEMMA M_free_done ==
  ASSUME NEW t \in Thread, free_done(t) PROVE pc[t] = "heap" /\ Outside(t, "run", NoCall, NULL)
BY DEF free_done, Outside, Return, Goto, At

\* Every step is one of four kinds.
LEMMA M_Next ==
  ASSUME TypeInv, [Next]_kernelVars
  PROVE  \/ \E t \in Thread : \E l, c, ptr : EventMove(t, l, c, ptr)
         \/ \E t \in Thread : free_done(t) \/ KernelHandlerStep(t)
         \/ LostMove
         \/ UNCHANGED kernelVars
BY M_AllocEvent, M_FreeEvent DEF Next, alloc_lost, free_lost, LostMove

-----------------------------------------------------------------------------
(* Type correctness.                                                       *)

LEMMA TypeInvInit == Init => TypeInv
BY T_Init DEF Init, TypeInv, LiveTyped

LEMMA T_EventMove ==
  ASSUME TypeInv, NEW t \in Thread, NEW l, NEW c, NEW ptr, EventMove(t, l, c, ptr)
  PROVE  TypeInv'
<1>1. ptr \in Addr \cup {NULL} /\ LiveTyped'
  BY DEF EventMove, Freeable, TypeInv, LiveTyped
<1>2. "kalloc" \in RecordingFn /\ "kfree" \notin RecordingFn
  BY DEF RecordingFn
<1>3. BpfTypeInv'
  BY <1>1, <1>2, T_Outside DEF EventMove, EnvLabel, TypeInv
<1> QED BY <1>1, <1>3 DEF TypeInv

LEMMA TypeInvStep == TypeInv /\ [Next]_kernelVars => TypeInv'
<1> SUFFICES ASSUME TypeInv, [Next]_kernelVars PROVE TypeInv'
  OBVIOUS
<1>1. ASSUME NEW t \in Thread, free_done(t) PROVE TypeInv'
  <2>1. NoCall \in Calls /\ NoCall.fn \notin RecordingFn
    BY DEF NoCall, Calls, RecordingFn
  <2>2. BpfTypeInv'
    BY <1>1, <2>1, M_free_done, T_Outside DEF TypeInv, EnvLabel
  <2> QED BY <1>1, <2>2 DEF TypeInv, LiveTyped, free_done
<1>2. ASSUME NEW t \in Thread, KernelHandlerStep(t) PROVE TypeInv'
  BY <1>2, T_HandlerStep DEF KernelHandlerStep, TypeInv, LiveTyped
<1>3. CASE LostMove
  BY <1>3, T_Stutter DEF LostMove, TypeInv, LiveTyped
<1>4. CASE UNCHANGED kernelVars
  BY <1>4, T_Stutter DEF kernelVars, TypeInv, LiveTyped
<1> QED BY <1>1, <1>2, <1>3, <1>4, T_EventMove, M_Next

-----------------------------------------------------------------------------
(* Ownership.  A block whose handler runs is live and its alone; only the  *)
(* entry of NoPage, which is no block, may be stored by two threads.  What *)
(* is being freed, and with wa_missing_free a slab block that was taken,   *)
(* has no entry from the deletion on.                                      *)

\* Between gen_free_enter and the storing of the block.
StoreLabel ==
  {"enter", "exit_lookup", "exit_read", "exit_del", "exit_stack", "exit_bucket", "exit_put"}

Exclusive ==
  \A t, u \in Thread :
    t # u /\ pc[t] # "run" /\ pc[u] # "run" /\ addr[t] = addr[u] =>
      addr[t] \in {NULL, NoPage}

Owned == \A t \in Thread : pc[t] # "run" => addr[t] \in live \cup {NULL, NoPage}

\* Which handlers a thread may be in.
Course ==
  \A t \in Thread :
    /\ pc[t] # "run" => call[t].fn \in {"kalloc", "kfree"}
    /\ pc[t] \in FreeLabel \cup {"heap"} => addr[t] # NoPage
    /\ pc[t] = "heap" => call[t].fn = "kfree"

Forgotten ==
  \A t \in Thread :
    /\ pc[t] \in ForgetLabel /\ call[t].fn = "kfree" /\ addr[t] \in Addr =>
         allocs[addr[t]] = None
    /\ pc[t] \in ForgetLabel \cup StoreLabel /\ call[t].fn = "kalloc" /\ addr[t] \in Slab
         /\ WaMissingFree = TRUE => allocs[addr[t]] = None

OwnInv == Exclusive /\ Owned /\ Course /\ Forgotten

LEMMA OwnSeparate == OwnInv => Separate
BY DEF OwnInv, Exclusive, Course, Separate, FreeLabel

\* The way a handler takes through its labels.
Path(t) ==
  /\ pc'[t] \in FreeLabel => pc[t] \in FreeLabel
  /\ pc'[t] \in StoreLabel => pc[t] \in StoreLabel \/ pc'[t] = "enter"
  /\ pc'[t] = "heap" => pc[t] \in FreeLabel \cup {"enter"} /\ call[t].fn # "kalloc"
  /\ pc'[t] = "enter" => pc[t] \in FreeLabel /\ call[t].fn # "kfree"
  /\ pc[t] = "exit_put" => pc'[t] = "add_lookup"

LEMMA HandlerPath ==
  ASSUME BpfTypeInv, NEW t \in Thread, HandlerStep(t) PROVE Path(t)
<1> USE DEF BpfTypeInv, BpfTypeOK, ThreadsTyped, At, Goto, Path, FreeLabel, StoreLabel
<1>1. CASE gen_alloc_enter(t)
  BY <1>1 DEF gen_alloc_enter, AfterEnter
<1>2. CASE exit_lookup(t) \/ exit_read(t) \/ exit_del(t)
  BY <1>2 DEF exit_lookup, exit_read, exit_del, Return
<1>3. CASE exit_stack(t) \/ exit_bucket(t) \/ exit_put(t) \/ add_lookup(t)
  <2>1. pc[t] \in {"exit_stack", "exit_bucket", "exit_put", "add_lookup"} /\
        pc'[t] \in {"exit_bucket", "exit_put", "add_lookup", "add_init", "add"} /\
        (pc'[t] \in {"exit_bucket", "exit_put"} => pc[t] \in {"exit_stack", "exit_bucket"}) /\
        (pc[t] = "exit_put" => pc'[t] = "add_lookup")
    BY <1>3 DEF exit_stack, exit_bucket, WithStack, exit_put, add_lookup
  <2> QED BY <2>1
<1>4. CASE add_init(t) \/ add(t)
  BY <1>4 DEF add_init, add, Return
<1>5. CASE free_lookup(t) \/ del_lookup(t) \/ del(t)
  BY <1>5 DEF free_lookup, del_lookup, del, EndFree, AfterFree
<1>6. CASE free_del(t) \/ free_size(t) \/ free_stack(t)
  BY <1>6 DEF free_del, free_size, free_stack
<1> QED BY <1>1, <1>2, <1>3, <1>4, <1>5, <1>6
        DEF HandlerStep, gen_alloc_exit2, gen_free_enter

LEMMA O_HandlerStep ==
  ASSUME TypeInv, OwnInv, NEW t \in Thread, KernelHandlerStep(t)
  PROVE  OwnInv' /\ FalseLeaks' \subseteq FalseLeaks
<1>1. Effect(t) /\ Path(t) /\ UNCHANGED live
  BY HandlerEffect, HandlerPath DEF KernelHandlerStep, TypeInv
<1>2. /\ allocs \in [Addr -> AllocsElem \cup {None}]
      /\ allocs' \in [Addr -> AllocsElem \cup {None}]
      /\ pc[t] = "enter" => call[t].fn \in RecordingFn
      /\ "kfree" \notin RecordingFn /\ Slab \subseteq Addr /\ NoPage \notin Slab /\ NULL \notin Addr
  BY T_HandlerStep, KernelAssumption, BpfAssumption
     DEF KernelHandlerStep, TypeInv, BpfTypeInv, BpfTypeOK, MapsTyped, Registers, RecordingFn
<1> USE <1>1 DEF OwnInv
<1>3. Exclusive'
  BY DEF Effect, Exclusive
<1>4. Owned'
  BY DEF Effect, Owned
<1>5. Course'
  <2> SUFFICES ASSUME NEW u \in Thread
               PROVE  /\ pc'[u] # "run" => call'[u].fn \in {"kalloc", "kfree"}
                      /\ pc'[u] \in FreeLabel \cup {"heap"} => addr'[u] # NoPage
                      /\ pc'[u] = "heap" => call'[u].fn = "kfree"
    BY DEF Course
  <2>1. CASE u # t
    BY <2>1 DEF Effect, Course
  <2>2. CASE u = t
    <3>1. pc[t] = "enter" => call[t].fn = "kalloc"
      BY <1>2 DEF Effect, Course
    <3> QED BY <2>2, <3>1 DEF Effect, Path, Course, FreeLabel
  <2> QED BY <2>1, <2>2
<1>6. Forgotten'
  <2>1. ASSUME NEW u \in Thread, pc'[u] \in ForgetLabel, call'[u].fn = "kfree", addr'[u] \in Addr
        PROVE  allocs'[addr'[u]] = None
    <3>1. CASE u = t
      BY <2>1, <3>1 DEF Effect, Forgotten, ForgetLabel
    <3>2. CASE u # t
      <4>1. pc'[u] # "enter"
        BY <2>1, <3>2, TypeInvStep DEF Next, TypeInv, BpfTypeInv, Registers, RecordingFn
      <4>2. addr[u] # addr[t] /\ pc[u] = pc'[u] /\ addr'[u] = addr[u] /\ call'[u] = call[u]
        BY <1>2, <2>1, <3>2, <4>1 DEF Effect, Exclusive, Course, ForgetLabel, FreeLabel
      <4> QED BY <2>1, <3>2, <4>2 DEF Effect, Forgotten
    <3> QED BY <3>1, <3>2
  <2>2. ASSUME NEW u \in Thread, pc'[u] \in ForgetLabel \cup StoreLabel, call'[u].fn = "kalloc",
               addr'[u] \in Slab, WaMissingFree = TRUE
        PROVE  allocs'[addr'[u]] = None
    <3>1. CASE u = t
      <4>1. addr'[t] = addr[t] /\ call'[t] = call[t] /\ pc'[t] # "heap" /\ addr[t] \in Addr
        BY <1>2, <2>2, <3>1 DEF Effect, Path, ForgetLabel, StoreLabel
      <4>2. CASE pc'[t] \in ForgetLabel
        BY <2>2, <3>1, <4>1, <4>2 DEF Effect, Forgotten
      <4>3. CASE pc'[t] \notin ForgetLabel
        <5>1. pc[t] \in StoreLabel /\ pc[t] # "exit_put"
          BY <2>2, <3>1, <4>3 DEF Path, Effect, ForgetLabel, StoreLabel
        <5>2. allocs[addr[t]] = None
          BY <2>2, <3>1, <4>1, <5>1 DEF Forgotten
        <5> QED BY <3>1, <4>1, <5>1, <5>2 DEF Effect
      <4> QED BY <4>2, <4>3
    <3>2. CASE u # t
      <4>1. addr[u] # addr[t] /\ pc[u] = pc'[u] /\ addr'[u] = addr[u] /\ call'[u] = call[u]
        BY <1>2, <2>2, <3>2 DEF Effect, Exclusive, ForgetLabel, StoreLabel
      <4> QED BY <1>2, <2>2, <3>2, <4>1 DEF Effect, Forgotten
    <3> QED BY <3>1, <3>2
  <2> QED BY <2>1, <2>2 DEF Forgotten
<1>7. FalseLeaks' \subseteq FalseLeaks
  <2> SUFFICES ASSUME NEW a \in Addr \ {NoPage}, allocs'[a] # None, a \notin live
               PROVE  allocs[a] # None
    BY <1>2 DEF FalseLeaks, Present
  <2>1. CASE a = addr[t] /\ pc[t] = "exit_put"
    BY <1>2, <2>1 DEF Owned
  <2>2. CASE ~(a = addr[t] /\ pc[t] = "exit_put")
    BY <2>2 DEF Effect
  <2> QED BY <2>1, <2>2
<1> QED BY <1>3, <1>4, <1>5, <1>6, <1>7

LEMMA O_EventMove ==
  ASSUME TypeInv, OwnInv, NEW t \in Thread, NEW l, NEW c, NEW ptr, EventMove(t, l, c, ptr)
  PROVE  OwnInv' /\ FalseLeaks' \subseteq FalseLeaks
<1>1. /\ pc[t] = "run" /\ pc'[t] = l /\ addr'[t] = ptr /\ call'[t] = c
      /\ \A u \in Thread \ {t} : pc'[u] = pc[u] /\ addr'[u] = addr[u] /\ call'[u] = call[u]
      /\ UNCHANGED allocs /\ live \subseteq live' /\ live \subseteq Addr \ {NoPage}
      /\ l \in {"enter", "free_lookup"}
  BY DEF TypeInv, LiveTyped, BpfTypeInv, BpfTypeOK, ThreadsTyped, EventMove, Outside, mapVars
<1>2. /\ c.fn \in {"kalloc", "kfree"}
      /\ ptr \in live' \cup {NULL, NoPage}
      /\ l = "free_lookup" => ptr # NoPage
      /\ \A u \in Thread \ {t} : pc[u] # "run" /\ addr[u] = ptr => ptr \in {NULL, NoPage}
  <2>1. CASE c.fn = "kalloc"
    BY <2>1 DEF EventMove, OwnInv, Owned
  <2>2. CASE c.fn = "kfree"
    <3>1. ptr \in Freeable \cup {NULL} /\ UNCHANGED live
      BY <2>2 DEF EventMove
    <3> QED BY <1>1, <2>2, <3>1, BpfAssumption, KernelAssumption DEF Freeable, At
  <2> QED BY <2>1, <2>2 DEF EventMove
<1>3. l = "enter" => c.fn = "kalloc"
  BY DEF EventMove
<1>4. l = "enter" /\ WaMissingFree = TRUE => ptr \notin Slab
  BY <1>3 DEF EventMove
<1> HIDE DEF EventMove
<1>5. Exclusive' /\ Owned'
  BY <1>1, <1>2 DEF OwnInv, Exclusive, Owned
<1>6. Course'
  BY <1>1, <1>2, <1>3 DEF OwnInv, Course, FreeLabel
<1>7. Forgotten'
  BY <1>1, <1>3, <1>4 DEF OwnInv, Forgotten, ForgetLabel, StoreLabel
<1>8. FalseLeaks' \subseteq FalseLeaks
  BY <1>1 DEF FalseLeaks, Present
<1> QED BY <1>5, <1>6, <1>7, <1>8 DEF OwnInv

\* The block is given back after its entry is gone.
LEMMA O_free_done ==
  ASSUME TypeInv, OwnInv, NEW t \in Thread, free_done(t)
  PROVE  OwnInv' /\ FalseLeaks' \subseteq FalseLeaks
<1>1. /\ pc[t] = "heap" /\ pc'[t] = "run" /\ call[t].fn = "kfree"
      /\ \A u \in Thread \ {t} : pc'[u] = pc[u] /\ addr'[u] = addr[u] /\ call'[u] = call[u]
      /\ UNCHANGED allocs /\ live' = live \ {addr[t]} /\ live \subseteq Addr \ {NoPage}
      /\ allocs \in [Addr -> AllocsElem \cup {None}]
  BY DEF TypeInv, LiveTyped, BpfTypeInv, BpfTypeOK, ThreadsTyped, MapsTyped, free_done,
         Return, Goto, At, mapVars
<1>2. Exclusive' /\ Course' /\ Forgotten'
  BY <1>1 DEF OwnInv, Exclusive, Course, Forgotten, FreeLabel, ForgetLabel, StoreLabel
<1>3. Owned'
  BY <1>1 DEF OwnInv, Exclusive, Owned, Course
<1>4. FalseLeaks' \subseteq FalseLeaks
  <2>1. addr[t] \in Addr => allocs[addr[t]] = None
    BY <1>1 DEF OwnInv, Forgotten, ForgetLabel
  <2> QED BY <1>1, <2>1 DEF FalseLeaks, Present
<1> QED BY <1>2, <1>3, <1>4 DEF OwnInv

LEMMA O_LostMove == ASSUME TypeInv, OwnInv, LostMove PROVE OwnInv'
<1>1. UNCHANGED <<pc, addr, call, allocs>>
  BY DEF LostMove, bpfVars, mapVars
<1>2. Exclusive' /\ Course' /\ Forgotten'
  BY <1>1 DEF OwnInv, Exclusive, Course, Forgotten
<1>3. Owned'
  BY <1>1 DEF OwnInv, Owned, LostMove, Freeable, At
<1> QED BY <1>2, <1>3 DEF OwnInv

LEMMA OwnInvStep == TypeInv /\ OwnInv /\ [Next]_kernelVars => OwnInv'
<1> SUFFICES ASSUME TypeInv, OwnInv, [Next]_kernelVars PROVE OwnInv'
  OBVIOUS
<1>1. CASE UNCHANGED kernelVars
  BY <1>1 DEF kernelVars, bpfVars, mapVars, OwnInv, Exclusive, Owned, Course, Forgotten
<1> QED BY <1>1, M_Next, O_EventMove, O_free_done, O_HandlerStep, O_LostMove

LEMMA LeakStep ==
  TypeInv /\ OwnInv /\ [Next]_kernelVars =>
    [FalseLeaks' \subseteq FalseLeaks \/ \E t \in Thread : free_lost(t)]_kernelVars
<1> SUFFICES ASSUME TypeInv, OwnInv, NEW t \in Thread,
                    \/ AllocEvent(t) \/ FreeEvent(t) \/ free_done(t)
                    \/ alloc_lost(t) \/ KernelHandlerStep(t)
             PROVE  FalseLeaks' \subseteq FalseLeaks
  BY DEF Next
<1>1. CASE AllocEvent(t) \/ FreeEvent(t)
  BY <1>1, M_AllocEvent, M_FreeEvent, O_EventMove
<1>2. CASE free_done(t) \/ KernelHandlerStep(t)
  BY <1>2, O_free_done, O_HandlerStep
<1>3. CASE alloc_lost(t)
  BY <1>3 DEF alloc_lost, bpfVars, mapVars, FalseLeaks, Present
<1> QED BY <1>1, <1>2, <1>3

LEMMA OwnInvAlways == Spec => [](TypeInv /\ OwnInv)
<1>1. Init => OwnInv
  BY DEF Init, BpfInit, OwnInv, Exclusive, Owned, Course, Forgotten, FreeLabel, ForgetLabel,
         StoreLabel
<1> QED BY <1>1, OwnInvStep, TypeInvInit, TypeInvStep, PTL DEF Spec

\* The types of the maps and of the handlers hold for the kernel tracer too:
\* the element pointers and stack ids a handler carries from one map access to
\* the next are what it takes them for, and every word of combined_allocs stays
\* a word (memleak.bpf.c:61-223, 322-545).
THEOREM TypeCorrect == Spec => []BpfTypeOK
<1>1. TypeInv => BpfTypeOK
  BY DEF TypeInv, BpfTypeInv
<1> QED BY <1>1, OwnInvAlways, PTL

\* Only a lost free leaves the entry of a dead block in allocs, whatever else
\* any number of contexts do at once (memleak.bpf.c:159-177, 322-545).
THEOREM OnlyLostFreesLeakTheorem == Spec => OnlyLostFreesLeak
BY LeakStep, OwnInvAlways, PTL DEF Spec, OnlyLostFreesLeak

\* wa_missing_free works (memleak.bpf.c:394-395, 414-415, 466-467, 486-487):
\* however many frees were lost, no entry of an earlier life of a slab block is
\* left when a handler is about to store the block.
THEOREM WorkaroundEffectiveTheorem == Spec => []WorkaroundEffective
<1>1. TypeInv /\ OwnInv => WorkaroundEffective
  <2> SUFFICES ASSUME TypeInv, OwnInv, WaMissingFree = TRUE, NEW t \in Thread,
                      pc[t] = "exit_put", addr[t] \in Slab
               PROVE  allocs[addr[t]] = None
    BY KernelAssumption DEF WorkaroundEffective, At
  <2>1. call[t].fn = "kalloc"
    BY DEF TypeInv, BpfTypeInv, Registers, ExitLabel, RecordingFn, OwnInv, Course
  <2> QED BY <2>1 DEF OwnInv, Forgotten, StoreLabel
<1> QED BY <1>1, OwnInvAlways, PTL

-----------------------------------------------------------------------------
(* The statistics.                                                         *)

KernelStatInv == StatInv /\ WordsExact

\* Every step keeps the invariant, and is one that Statistics allows.
LEMMA StatStep ==
  ASSUME TypeInv, OwnInv, KernelStatInv, [Next]_kernelVars
  PROVE  KernelStatInv' /\ [Promise!StatisticsNext]_Promise!statisticsVars
<1>0. Separate /\ BpfTypeInv /\ BpfTypeOK
  BY OwnSeparate DEF TypeInv, BpfTypeInv
<1>q. SUFFICES StatInv' /\ (drift' = {} => drift = {} /\ Simulated)
  BY <1>0, W_Step, R_Step DEF KernelStatInv
<1> USE <1>0 DEF KernelStatInv
<1>1. ASSUME NEW t \in Thread, NEW l, NEW c, NEW ptr, EventMove(t, l, c, ptr)
      PROVE  StatInv' /\ (drift' = {} => drift = {} /\ Simulated)
  <2>1. Quietly(t)
    BY <1>1, Q_Outside DEF EventMove, EnvLabel
  <2> QED BY <2>1, QuietSimulated DEF Quietly
<1>2. ASSUME NEW t \in Thread, free_done(t)
      PROVE  StatInv' /\ (drift' = {} => drift = {} /\ Simulated)
  <2>1. Quietly(t)
    BY <1>2, M_free_done, Q_Outside DEF EnvLabel
  <2> QED BY <2>1, QuietSimulated DEF Quietly
<1>3. ASSUME NEW t \in Thread, KernelHandlerStep(t)
      PROVE  StatInv' /\ (drift' = {} => drift = {} /\ Simulated)
  BY <1>3, S_HandlerStep, DriftGrows DEF KernelHandlerStep
<1>4. CASE LostMove \/ UNCHANGED kernelVars
  BY <1>4, S_Stutter DEF LostMove, kernelVars, bpfVars
<1> QED BY <1>1, <1>2, <1>3, <1>4, M_Next

LEMMA StatAlways == Spec => [](TypeInv /\ OwnInv /\ KernelStatInv)
<1>1. Init => KernelStatInv
  BY S_Init, W_Init DEF Init, KernelStatInv
<1>2. TypeInv /\ OwnInv /\ KernelStatInv /\ [Next]_kernelVars => KernelStatInv'
  BY StatStep
<1> QED BY <1>1, <1>2, OwnInvAlways, PTL DEF Spec

\* The words of combined_allocs are exact in the kernel tracer too, whatever
\* several contexts do at once and whatever events are lost, as long as no
\* element was reused under a reader, allocs never was full and no entry was
\* overwritten (memleak.bpf.c:61-95).
THEOREM StatisticsExactTheorem == Spec => []StatisticsExact
<1>1. KernelStatInv => StatisticsExact
  BY W_Exact DEF KernelStatInv
<1> QED BY <1>1, StatAlways, PTL

\* The kernel tracer implements Statistics (memleak.bpf.c:61-95).
THEOREM StatisticsRefinedTheorem == Spec => StatisticsRefined
<1>1. Init => Promise!StatisticsInit
  BY R_Init DEF Init
<1>2. TypeInv /\ OwnInv /\ KernelStatInv /\ [Next]_kernelVars =>
        [Promise!StatisticsNext]_Promise!statisticsVars
  BY StatStep
<1> QED BY <1>1, <1>2, StatAlways, PTL DEF Spec, StatisticsRefined, Promise!StatisticsSpec

=============================================================================
