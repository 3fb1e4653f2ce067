--------------------------- MODULE UserHeapProofs ---------------------------
(***************************************************************************)
(* Theorems about the tracer of one process (UserHeap), for every value of *)
(* its constants: any number of threads, blocks and sizes, maps of any     *)
(* capacity, any widths of the packed word.                                *)
(***************************************************************************)
EXTENDS UserHeap, MemleakBpfProofs

-----------------------------------------------------------------------------
(* The traced program and the C library, seen from the handlers.           *)

TypeInv == BpfTypeInv /\ TypeOK

HeapType == [Addr -> [size : Nat, trace : Trace] \cup {None}]

\* Thread t of the program makes the call c on the block ptr.
ProgramMove(t, l, c, ptr) ==
  /\ pc[t] = "run" /\ Outside(t, l, c, ptr) /\ UNCHANGED <<heap, attached>>
  /\ l \in {"enter", "free_lookup", "heap"} /\ c \in Calls /\ ptr \in Freeable
  /\ c.fn \in RecordingFn => c.trace \in Trace
  /\ l = "enter" => c.fn \in RecordingFn /\ ptr = NULL
  /\ l = "heap" => ~c.enter
  /\ c.fn # "kalloc"
  /\ <<c.fn, "enter">> \in attached => c.enter
  /\ l # "heap" => <<c.fn, "enter">> \in attached
  /\ <<c.fn, "exit">> \in attached => c.ret
  /\ c.fn \in RecordingFn => c.fn \in Used \cup {"calloc", "realloc"}
  /\ c.fn = "realloc" => c.req \in Word
  /\ l = "free_lookup" \/ ptr # NULL => c.fn \in {"free", "realloc"}

\* realloc may leave t's block as it is.
CannotGrow(t) == call[t].fn \in AllocFn /\ (call[t].fn \in OomFn \/ call[t].req >= WordMod)

\* The C library has run the call of t, which returns ret; the call is traced
\* on at l, or over.
HeapMove(t, l, c, ret) ==
  /\ pc[t] = "heap" /\ UNCHANGED attached /\ heap' \in HeapType
  /\ ret \in Addr \cup {NULL}
  /\ \/ /\ l = "exit_lookup" /\ call[t].fn \in RecordingFn
        /\ c \in Calls /\ c.trace = call[t].trace /\ c.fn = call[t].fn
        /\ c.enter = call[t].enter /\ c.req = 0
        /\ Outside(t, l, c, ret)
     \/ /\ l = "run" /\ c = NoCall /\ Outside(t, l, c, NULL)
        /\ call[t].fn \in RecordingFn => ~call[t].ret
  /\ \A a \in Addr \ {addr[t], ret} : heap'[a] = heap[a]
  /\ ret \in Addr => /\ heap'[ret] # None
                     /\ call[t].fn \in RecordingFn
                     /\ heap'[ret].trace = call[t].trace
                     /\ heap'[ret].size = call[t].req
                     /\ call[t].req < WordMod \/ call[t].fn = "realloc"
                     /\ ret = addr[t] \/ heap[ret] = None
  /\ addr[t] \in Addr \ {ret} =>
       heap'[addr[t]] = None \/ CannotGrow(t)
  /\ \/ call[t].fn \in {"free", "realloc"}
     \/ \A a \in Addr : heap[a] # None => heap'[a] = heap[a]

LEMMA SizeNat == Size \subseteq Nat
BY UserAssumption, WordFacts

LEMMA M_Call ==
  ASSUME TypeInv, NEW t \in Thread, NEW fn \in AllocFn \cup {"free"},
         NEW ptr \in Freeable, NEW req \in Nat, NEW tr \in Trace \cup {None},
         NEW label \in {"enter", "free_lookup"},
         fn \in AllocFn => tr \in Trace /\ fn \in Used \cup {"calloc", "realloc"},
         fn = "realloc" => req \in Word, label = "enter" => fn \in AllocFn /\ ptr = NULL,
         label = "free_lookup" \/ ptr # NULL => fn \in {"free", "realloc"},
         Call(t, fn, ptr, req, tr, label)
  PROVE  \E l, c : ProgramMove(t, l, c, ptr)
<1> DEFINE c == [fn |-> fn, req |-> req, trace |-> tr,
                 enter |-> <<fn, "enter">> \in attached,
                 ret |-> <<fn, "exit">> \in attached]
           l == IF <<fn, "enter">> \in attached THEN label ELSE "heap"
<1>0. /\ AllocFn \subseteq RecordingFn /\ "free" \in FreeingFn /\ "free" \notin RecordingFn
      /\ "kalloc" \notin AllocFn
  BY DEF AllocFn, RecordingFn, FreeingFn
<1>1. c \in Calls
  BY <1>0 DEF Calls
<1>2. /\ c.fn = fn /\ c.trace = tr /\ c.req = req
      /\ c.enter = (<<fn, "enter">> \in attached) /\ c.ret = (<<fn, "exit">> \in attached)
  BY Zenon
<1>3. /\ l \in {"enter", "free_lookup", "heap"}
      /\ l = "enter" => fn \in AllocFn /\ ptr = NULL
      /\ l = "free_lookup" => label = "free_lookup"
      /\ l = "heap" <=> <<fn, "enter">> \notin attached
  OBVIOUS
<1>4. /\ pc[t] = "run" /\ pc' = [pc EXCEPT ![t] = l] /\ call' = [call EXCEPT ![t] = c]
      /\ addr' = [addr EXCEPT ![t] = ptr]
      /\ UNCHANGED <<mapVars, elem, info, drift, heap, attached>>
  BY DEF Call, At, Goto
<1> HIDE DEF c, l
<1>5. Outside(t, l, c, ptr)
  BY <1>4 DEF Outside
<1>6. ProgramMove(t, l, c, ptr)
  BY <1>0, <1>1, <1>2, <1>3, <1>4, <1>5 DEF ProgramMove
<1> QED BY <1>6

LEMMA M_ProgramStep ==
  ASSUME TypeInv, NEW t \in Thread, ProgramStep(t)
  PROVE  \E l, c, ptr : ProgramMove(t, l, c, ptr)
<1>0. NULL \in Freeable
  BY DEF Freeable
<1>1. ASSUME NEW fn \in AllocFn \ {"realloc"}, SizedCall(t, fn)
      PROVE  \E l, c, ptr : ProgramMove(t, l, c, ptr)
  <2>1. PICK sz \in Size, tr \in Trace : fn \in Used /\ Call(t, fn, NULL, sz, tr, "enter")
    BY <1>1 DEF SizedCall
  <2>2. \E l, c : ProgramMove(t, l, c, NULL)
    BY <1>0, <2>1, M_Call, SizeNat
  <2> QED BY <2>2
<1>2. CASE calloc_enter(t)
  <2>1. PICK n \in Nmemb, sz \in Size, tr \in Trace :
          Call(t, "calloc", NULL, n * sz, tr, "enter")
    BY <1>2 DEF calloc_enter
  <2>2. n * sz \in Nat
    BY UserAssumption, SizeNat, SMT
  <2>3. \E l, c : ProgramMove(t, l, c, NULL)
    BY <1>0, <2>1, <2>2, M_Call DEF AllocFn
  <2> QED BY <2>3
<1>3. CASE realloc_enter(t)
  <2>1. PICK ptr \in Freeable, sz \in Size, tr \in Trace :
          Call(t, "realloc", ptr, sz, tr, "free_lookup")
    BY <1>3 DEF realloc_enter
  <2>2. \E l, c : ProgramMove(t, l, c, ptr)
    BY <2>1, M_Call, UserAssumption, SizeNat DEF AllocFn
  <2> QED BY <2>2
<1>4. CASE free_enter(t)
  <2>1. PICK ptr \in Freeable : Call(t, "free", ptr, 0, None, "free_lookup")
    BY <1>4 DEF free_enter
  <2>2. \E l, c : ProgramMove(t, l, c, ptr)
    BY <2>1, M_Call DEF AllocFn
  <2> QED BY <2>2
<1> QED BY <1>1, <1>2, <1>3, <1>4
        DEF ProgramStep, AllocFn, malloc_enter, aligned_alloc_enter, valloc_enter,
            memalign_enter, pvalloc_enter

\* How a call returns to the handlers.
LEMMA M_HeapReturn ==
  ASSUME TypeInv, NEW t \in Thread, NEW ret \in Addr \cup {NULL},
         At(t, "heap"), call[t].fn \in AllocFn, HeapReturn(t, ret),
         heap' \in HeapType,
         \A a \in Addr \ {addr[t], ret} : heap'[a] = heap[a],
         ret \in Addr => /\ heap'[ret] = Block(t)
                         /\ call[t].req < WordMod \/ call[t].fn = "realloc"
                         /\ ret = addr[t] \/ heap[ret] = None,
         addr[t] \in Addr \ {ret} => heap'[addr[t]] = None \/ CannotGrow(t),
         \/ call[t].fn \in {"free", "realloc"}
         \/ \A a \in Addr : heap[a] # None => heap'[a] = heap[a]
  PROVE  \E l, c : HeapMove(t, l, c, ret)
<1> DEFINE c == [call[t] EXCEPT !.req = 0]
<1>1. call[t] \in Calls /\ call[t].fn \in RecordingFn /\ call[t].trace \in Trace
  BY DEF TypeInv, TypeOK, BpfTypeInv, BpfTypeOK, ThreadsTyped, Registers, AllocFn, RecordingFn
<1>2. /\ c \in Calls /\ c.trace = call[t].trace /\ c.fn = call[t].fn
      /\ c.enter = call[t].enter /\ c.req = 0
  <2> HIDE DEF HeapReturn
  <2> QED BY <1>1 DEF Calls
<1>3. ret \in Addr => /\ heap'[ret] # None /\ heap'[ret].trace = call[t].trace
                      /\ heap'[ret].size = call[t].req
  <2>1. /\ Block(t) \in [size : Nat, trace : Trace]
        /\ Block(t).trace = call[t].trace /\ Block(t).size = call[t].req
    BY <1>1 DEF Block, Calls
  <2> QED BY <2>1, UserAssumption
<1>4. CASE Return(t) /\ ~call[t].ret
  <2>1. Outside(t, "run", NoCall, NULL) /\ UNCHANGED attached
    BY <1>4 DEF Return, Goto, HeapReturn, Outside, At
  <2>2. HeapMove(t, "run", NoCall, ret)
    BY <1>1, <1>3, <1>4, <2>1 DEF HeapMove, At
  <2> QED BY <2>2
<1>5. CASE ~(Return(t) /\ ~call[t].ret)
  <2>1. /\ pc' = [pc EXCEPT ![t] = "exit_lookup"] /\ addr' = [addr EXCEPT ![t] = ret]
        /\ call' = [call EXCEPT ![t] = c]
        /\ UNCHANGED <<elem, info, mapVars, drift, attached>>
    BY <1>5 DEF HeapReturn, Goto
  <2> HIDE DEF c
  <2>2. Outside(t, "exit_lookup", c, ret)
    BY <2>1 DEF Outside, At
  <2>3. HeapMove(t, "exit_lookup", c, ret)
    BY <1>1, <1>2, <1>3, <2>1, <2>2 DEF HeapMove, At
  <2> QED BY <2>3
<1> QED BY <1>4, <1>5

LEMMA M_HeapStep ==
  ASSUME TypeInv, NEW t \in Thread, HeapStep(t) PROVE \E l, c, ret : HeapMove(t, l, c, ret)
<1>0. /\ heap \in HeapType /\ addr[t] \in Addr \cup {NULL}
      /\ call[t].fn \in AllocFn => Block(t) \in [size : Nat, trace : Trace]
  <2>1. call[t].fn \in AllocFn => call[t].trace \in Trace
    BY DEF TypeInv, BpfTypeInv, Registers, AllocFn, RecordingFn
  <2> QED BY <2>1 DEF TypeInv, TypeOK, BpfTypeOK, ThreadsTyped, Calls, Block, HeapType
<1>1. CASE HeapAllocate(t)
  <2>1. PICK a \in Addr : /\ ~Live(a) /\ heap' = [heap EXCEPT ![a] = Block(t)]
                          /\ HeapReturn(t, a)
    BY <1>1 DEF HeapAllocate
  <2>2. /\ At(t, "heap") /\ call[t].fn \in AllocFn /\ call[t].req < WordMod
        /\ addr[t] \notin Addr
    BY <1>1, BpfAssumption DEF HeapAllocate
  <2>3. /\ heap' \in HeapType /\ heap'[a] = Block(t)
        /\ \A x \in Addr \ {a} : heap'[x] = heap[x]
    BY <1>0, <2>1, <2>2 DEF HeapType
  <2>4. \E l, c : HeapMove(t, l, c, a)
    BY <2>1, <2>2, <2>3, M_HeapReturn DEF Live
  <2> QED BY <2>4
<1>2. CASE HeapResize(t)
  <2>1. PICK a \in Addr :
          /\ a = addr[t] \/ ~Live(a)
          /\ heap' = [heap EXCEPT ![addr[t]] = None, ![a] = Block(t)]
          /\ HeapReturn(t, a)
    BY <1>2 DEF HeapResize
  <2>2. At(t, "heap") /\ call[t].fn \in AllocFn /\ call[t].fn = "realloc"
    BY <1>2 DEF HeapResize, AllocFn
  <2>3. /\ heap' \in HeapType /\ heap'[a] = Block(t)
        /\ \A x \in Addr \ {addr[t], a} : heap'[x] = heap[x]
        /\ addr[t] \in Addr \ {a} => heap'[addr[t]] = None
    BY <1>0, <2>1, <2>2 DEF HeapType
  <2>4. \E l, c : HeapMove(t, l, c, a)
    BY <2>1, <2>2, <2>3, M_HeapReturn DEF Live
  <2> QED BY <2>4
<1>3. CASE HeapResizeToZero(t)
  <2>1. /\ heap' \in HeapType /\ At(t, "heap") /\ call[t].fn \in AllocFn
        /\ call[t].fn = "realloc" /\ HeapReturn(t, NULL) /\ NULL \notin Addr
        /\ \A x \in Addr \ {addr[t], NULL} : heap'[x] = heap[x]
        /\ addr[t] \in Addr => heap'[addr[t]] = None
    BY <1>0, <1>3, BpfAssumption DEF HeapResizeToZero, HeapType, AllocFn
  <2>2. \E l, c : HeapMove(t, l, c, NULL)
    BY <2>1, M_HeapReturn
  <2> QED BY <2>2
<1>4. CASE HeapFail(t)
  <2>1. /\ heap' = heap /\ At(t, "heap") /\ call[t].fn \in AllocFn
        /\ HeapReturn(t, NULL) /\ NULL \notin Addr
        /\ addr[t] \in Addr => CannotGrow(t)
    BY <1>4, BpfAssumption DEF HeapFail, CannotGrow
  <2>2. \E l, c : HeapMove(t, l, c, NULL)
    BY <1>0, <2>1, M_HeapReturn
  <2> QED BY <2>2
<1>5. CASE HeapFree(t)
  <2>1. /\ heap' \in HeapType /\ pc[t] = "heap" /\ NULL \notin Addr /\ UNCHANGED attached
        /\ call[t].fn = "free" /\ call[t].fn \notin RecordingFn
        /\ \A x \in Addr \ {addr[t], NULL} : heap'[x] = heap[x]
        /\ addr[t] \in Addr => heap'[addr[t]] = None
    BY <1>0, <1>5, BpfAssumption DEF HeapFree, HeapType, At, RecordingFn
  <2>2. Outside(t, "run", NoCall, NULL)
    BY <1>5 DEF HeapFree, Return, Goto, Outside, At
  <2>3. HeapMove(t, "run", NoCall, NULL)
    BY <2>1, <2>2 DEF HeapMove
  <2> QED BY <2>3
<1> QED BY <1>1, <1>2, <1>3, <1>4, <1>5 DEF HeapStep

-----------------------------------------------------------------------------
(* Type correctness.                                                       *)

\* attachPrograms attaches programs of the object.
LEMMA LoaderPrograms == \A i \in 1 .. 7 : AttachOrder[i] \in UserProgram
<1> SUFFICES ASSUME NEW i \in 1 .. 7 PROVE AttachOrder[i] \in UserProgram
  OBVIOUS
<1>1. \/ i = 1 \/ i = 2 \/ i = 3 \/ i = 4 \/ i = 5 \/ i = 6 \/ i = 7
  BY SMT
<1> QED BY <1>1 DEF AttachOrder, UserProgram, AllocFn

LEMMA FreeableAddr == Freeable \subseteq Addr \cup {NULL}
BY DEF Freeable

LEMMA TypeInvInit == Init => TypeInv
BY T_Init, UserAssumption DEF Init, TypeInv, TypeOK, BpfTypeInv

LEMMA TypeInvStep == TypeInv /\ [Next]_userVars => TypeInv'
<1> SUFFICES ASSUME TypeInv, [Next]_userVars PROVE TypeInv'
  OBVIOUS
<1> USE DEF TypeInv, TypeOK
<1>1. CASE AttachNext
  <2>1. attached' \subseteq UserProgram
    BY <1>1, LoaderPrograms DEF AttachNext
  <2> QED BY <1>1, <2>1, T_Stutter DEF AttachNext, BpfTypeInv
<1>2. ASSUME NEW t \in Thread, ProgramStep(t) PROVE TypeInv'
  <2>1. PICK l, c, ptr : ProgramMove(t, l, c, ptr)
    BY <1>2, M_ProgramStep
  <2>2. BpfTypeInv'
    BY <2>1, T_Outside, FreeableAddr DEF ProgramMove, EnvLabel
  <2> QED BY <2>1, <2>2 DEF ProgramMove, BpfTypeInv
<1>3. ASSUME NEW t \in Thread, HeapStep(t) PROVE TypeInv'
  <2>1. PICK l, c, ret : HeapMove(t, l, c, ret)
    BY <1>3, M_HeapStep
  <2>2. CASE l = "run"
    <3>1. NoCall \in Calls /\ NoCall.fn \notin RecordingFn
      BY WordFacts DEF NoCall, Calls, RecordingFn
    <3>2. BpfTypeInv'
      BY <2>1, <2>2, <3>1, T_Outside DEF HeapMove, EnvLabel
    <3> QED BY <2>1, <3>2 DEF HeapMove, BpfTypeInv, HeapType
  <2>3. CASE l = "exit_lookup"
    <3>1. call[t].fn \in RecordingFn => call[t].trace \in Trace
      BY DEF BpfTypeInv, Registers
    <3>2. BpfTypeInv'
      BY <2>1, <2>3, <3>1, T_Outside DEF HeapMove, EnvLabel
    <3> QED BY <2>1, <3>2 DEF HeapMove, BpfTypeInv, HeapType
  <2> QED BY <2>1, <2>2, <2>3 DEF HeapMove
<1>4. ASSUME NEW t \in Thread, UserHandlerStep(t) PROVE TypeInv'
  BY <1>4, T_HandlerStep DEF UserHandlerStep, BpfTypeInv
<1>5. CASE UNCHANGED userVars
  BY <1>5, T_Stutter DEF userVars, BpfTypeInv
<1> QED BY <1>1, <1>2, <1>3, <1>4, <1>5 DEF Next

LEMMA TypeInvAlways == Spec => []TypeInv
BY TypeInvInit, TypeInvStep, PTL DEF Spec

\* Type correctness of the tracer of one process: no handler ever uses a value
\* as what it is not, in particular the element pointers and stack ids that
\* gen_alloc_exit2 and gen_free_enter carry from one map access to the next,
\* and every word of combined_allocs stays a word (memleak.bpf.c:61-223).
THEOREM TypeCorrect == Spec => []TypeOK
BY TypeInvAlways, PTL DEF TypeInv

-----------------------------------------------------------------------------
(* Ownership.  Between its call and its return a traced function owns the  *)
(* block it works on: no two threads own one address, an owned block is    *)
(* live, and a thread that is about to let the C library free or move its  *)
(* block has removed the block's entry, unless its call was not probed.    *)

Exclusive ==
  \A t, u \in Thread :
    t # u /\ ~At(t, "run") /\ ~At(u, "run") /\ addr[t] = addr[u] => addr[t] = NULL

Owned == \A t \in Thread : ~At(t, "run") /\ addr[t] \in Addr => Live(addr[t])

Forgotten ==
  \A t \in Thread :
    pc[t] \in ForgetLabel /\ addr[t] \in Addr /\ call[t].enter => allocs[addr[t]] = None

OwnInv == Exclusive /\ Owned /\ Forgotten

LEMMA OwnSeparate == OwnInv => Separate
BY DEF OwnInv, Exclusive, Separate, FreeLabel, At

LEMMA O_HandlerStep ==
  ASSUME TypeInv, OwnInv, NEW t \in Thread, UserHandlerStep(t)
  PROVE  OwnInv' /\ FalseLeaks' \subseteq FalseLeaks
<1>1. Effect(t) /\ UNCHANGED <<heap, attached>>
  BY HandlerEffect DEF UserHandlerStep, TypeInv
<1>2. /\ pc' \in [Thread -> Label] /\ addr' \in [Thread -> Addr \cup {NULL}]
      /\ allocs \in [Addr -> AllocsElem \cup {None}]
  BY TypeInvStep DEF Next, TypeInv, TypeOK, BpfTypeOK, ThreadsTyped, MapsTyped
<1> USE <1>1 DEF OwnInv, At, Live
<1>3. Exclusive'
  BY DEF Effect, Exclusive
<1>4. Owned'
  BY DEF Effect, Owned
<1>5. Forgotten'
  <2> SUFFICES ASSUME NEW u \in Thread, pc'[u] \in ForgetLabel, addr'[u] \in Addr, call'[u].enter
               PROVE  allocs'[addr'[u]] = None
    BY DEF Forgotten
  <2>1. CASE u = t
    BY <2>1 DEF Effect, Forgotten, ForgetLabel
  <2>2. CASE u # t
    <3>1. addr[u] # addr[t]
      BY <2>2, BpfAssumption DEF Effect, Exclusive, ForgetLabel
    <3> QED BY <2>2, <3>1 DEF Effect, Forgotten
  <2> QED BY <2>1, <2>2
<1>6. FalseLeaks' \subseteq FalseLeaks
  <2> SUFFICES ASSUME NEW a \in Addr, allocs'[a] # None, heap[a] = None
               PROVE  allocs[a] # None
    BY DEF FalseLeaks
  <2>1. CASE a = addr[t] /\ pc[t] = "exit_put"
    BY <2>1 DEF Owned
  <2>2. CASE ~(a = addr[t] /\ pc[t] = "exit_put")
    BY <2>2 DEF Effect
  <2> QED BY <2>1, <2>2
<1> QED BY <1>3, <1>4, <1>5, <1>6

\* A call on a block nobody else works on keeps ownership.
LEMMA O_ProgramMove ==
  ASSUME TypeInv, OwnInv, NEW t \in Thread, NEW l, NEW c, NEW ptr, ProgramMove(t, l, c, ptr)
  PROVE  OwnInv'
<1> USE DEF OwnInv, At, Live
<1>1. /\ pc[t] = "run" /\ pc'[t] = l /\ addr'[t] = ptr /\ call'[t] = c
      /\ \A u \in Thread \ {t} : pc'[u] = pc[u] /\ addr'[u] = addr[u] /\ call'[u] = call[u]
      /\ ptr \in Freeable /\ (l = "enter" => ptr = NULL) /\ (l = "heap" => ~c.enter)
      /\ l \in {"enter", "free_lookup", "heap"}
      /\ UNCHANGED <<allocs, heap, attached>>
  BY DEF TypeInv, TypeOK, BpfTypeOK, ThreadsTyped, ProgramMove, Outside, mapVars
<1>2. Exclusive'
  BY <1>1 DEF Exclusive, Freeable
<1>3. Owned'
  BY <1>1, BpfAssumption DEF Owned, Freeable
<1>4. Forgotten'
  BY <1>1, BpfAssumption DEF Forgotten, ForgetLabel
<1> QED BY <1>2, <1>3, <1>4

\* The C library gives up the block of t, if it does, only after its entry is
\* gone; what it returns is a block nobody else owns.
LEMMA O_HeapMove ==
  ASSUME TypeInv, OwnInv, NEW t \in Thread, NEW l, NEW c, NEW ret, HeapMove(t, l, c, ret)
  PROVE  OwnInv' /\ (WindowClosed => FalseLeaks' \subseteq FalseLeaks)
<1> USE DEF OwnInv, At, Live
<1>1. /\ pc[t] = "heap" /\ ret \in Addr \cup {NULL}
      /\ \A u \in Thread \ {t} : pc'[u] = pc[u] /\ addr'[u] = addr[u] /\ call'[u] = call[u]
      /\ pc'[t] \in {"run", "exit_lookup"}
      /\ pc'[t] = "exit_lookup" => addr'[t] = ret
      /\ \A a \in Addr \ {addr[t], ret} : heap'[a] = heap[a]
      /\ ret \in Addr => heap'[ret] # None /\ (ret = addr[t] \/ heap[ret] = None)
      /\ UNCHANGED <<allocs, attached>>
  BY DEF TypeInv, TypeOK, BpfTypeOK, ThreadsTyped, HeapMove, Outside, mapVars
<1>2. Exclusive'
  BY <1>1 DEF Exclusive, Owned
<1>3. Owned'
  BY <1>1, BpfAssumption DEF Exclusive, Owned
<1>4. Forgotten'
  BY <1>1 DEF Forgotten, ForgetLabel
<1>5. ASSUME WindowClosed PROVE FalseLeaks' \subseteq FalseLeaks
  <2> SUFFICES ASSUME NEW a \in Addr, allocs[a] # None, heap'[a] = None
               PROVE  heap[a] = None
    BY <1>1 DEF FalseLeaks
  <2>1. CASE call[t].fn \in {"free", "realloc"}
    <3>1. call[t].enter
      BY <1>5, <2>1 DEF WindowClosed
    <3>2. a # addr[t]
      BY <1>1, <3>1 DEF Forgotten, ForgetLabel
    <3> QED BY <1>1, <3>2
  <2>2. CASE \A x \in Addr : heap[x] # None => heap'[x] = heap[x]
    BY <2>2
  <2> QED BY <2>1, <2>2 DEF HeapMove
<1> QED BY <1>2, <1>3, <1>4, <1>5

LEMMA O_Unchanged ==
  OwnInv /\ UNCHANGED <<bpfVars, heap>> => OwnInv' /\ FalseLeaks' \subseteq FalseLeaks
BY DEF OwnInv, Exclusive, Owned, Forgotten, FalseLeaks, At, Live, bpfVars, mapVars

LEMMA OwnInvStep ==
  TypeInv /\ OwnInv /\ [Next]_userVars =>
    OwnInv' /\ (WindowClosed => FalseLeaks' \subseteq FalseLeaks)
<1> SUFFICES ASSUME TypeInv, OwnInv, [Next]_userVars
             PROVE  OwnInv' /\ (WindowClosed => FalseLeaks' \subseteq FalseLeaks)
  OBVIOUS
<1>1. CASE AttachNext
  BY <1>1, O_Unchanged DEF AttachNext
<1>2. ASSUME NEW t \in Thread, ProgramStep(t)
      PROVE  OwnInv' /\ FalseLeaks' \subseteq FalseLeaks
  <2>1. PICK l, c, ptr : ProgramMove(t, l, c, ptr)
    BY <1>2, M_ProgramStep
  <2>2. FalseLeaks' \subseteq FalseLeaks
    BY <2>1 DEF ProgramMove, Outside, mapVars, FalseLeaks, Live
  <2> QED BY <2>1, <2>2, O_ProgramMove
<1>3. ASSUME NEW t \in Thread, HeapStep(t)
      PROVE  OwnInv' /\ (WindowClosed => FalseLeaks' \subseteq FalseLeaks)
  BY <1>3, M_HeapStep, O_HeapMove
<1>4. ASSUME NEW t \in Thread, UserHandlerStep(t)
      PROVE  OwnInv' /\ FalseLeaks' \subseteq FalseLeaks
  BY <1>4, O_HandlerStep
<1>5. CASE UNCHANGED userVars
  BY <1>5, O_Unchanged DEF userVars
<1> QED BY <1>1, <1>2, <1>3, <1>4, <1>5 DEF Next

LEMMA OwnInvInit == Init => OwnInv
BY BpfAssumption DEF Init, BpfInit, OwnInv, Exclusive, Owned, Forgotten, At, ForgetLabel

LEMMA OwnInvAlways == Spec => [](TypeInv /\ OwnInv)
BY OwnInvInit, OwnInvStep, TypeInvInit, TypeInvStep, PTL DEF Spec

\* Once free_enter and realloc_enter are attached and the calls made before
\* have returned, no step of any thread adds the entry of a dead block to
\* allocs: gen_free_enter (memleak.bpf.c:159-177) removes the entry before the
\* C library frees, and gen_alloc_exit2 (121-152) stores only blocks its own
\* thread has just been given, whichever other probes are attached.
THEOREM NoNewFalseLeakTheorem == Spec => NoNewFalseLeak
<1>1. TypeInv /\ OwnInv /\ [Next]_userVars =>
        [WindowClosed => FalseLeaks' \subseteq FalseLeaks]_userVars
  BY OwnInvStep
<1> QED BY <1>1, OwnInvAlways, PTL DEF Spec, NoNewFalseLeak

\* With both probes attached before the program's first call the window is
\* closed throughout.
LEMMA WindowStep == TypeInv /\ WindowClosed /\ [Next]_userVars => WindowClosed'
<1> SUFFICES ASSUME TypeInv, WindowClosed, [Next]_userVars PROVE WindowClosed'
  OBVIOUS
<1> USE DEF WindowClosed, FreeProbes
<1>0. call \in [Thread -> Calls]
  BY DEF TypeInv, TypeOK, BpfTypeOK, ThreadsTyped
<1>1. CASE AttachNext
  BY <1>1 DEF AttachNext, bpfVars
<1>2. ASSUME NEW t \in Thread, ProgramStep(t) PROVE WindowClosed'
  <2>1. PICK l, c, ptr : ProgramMove(t, l, c, ptr)
    BY <1>2, M_ProgramStep
  <2>2. c.fn \in {"free", "realloc"} => c.enter
    BY <2>1 DEF ProgramMove
  <2> QED BY <1>0, <2>1, <2>2 DEF ProgramMove, Outside
<1>3. ASSUME NEW t \in Thread, HeapStep(t) PROVE WindowClosed'
  <2>1. PICK l, c, ret : HeapMove(t, l, c, ret)
    BY <1>3, M_HeapStep
  <2>2. /\ c.fn \in {"free", "realloc"} => c.enter
        /\ call' = [call EXCEPT ![t] = c] /\ UNCHANGED attached
    BY <2>1 DEF HeapMove, Outside, NoCall
  <2> QED BY <1>0, <2>2
<1>4. ASSUME NEW t \in Thread, UserHandlerStep(t) PROVE WindowClosed'
  <2>1. Effect(t) /\ UNCHANGED attached
    BY <1>4, HandlerEffect DEF UserHandlerStep, TypeInv
  <2> QED BY <2>1 DEF Effect, NoCall
<1>5. CASE UNCHANGED userVars
  BY <1>5 DEF userVars, bpfVars
<1> QED BY <1>1, <1>2, <1>3, <1>4, <1>5 DEF Next

LEMMA LeakInvInit ==
  ASSUME FreeProbes \subseteq InitAttached PROVE Init => WindowClosed /\ NoFalseLeak
BY DEF Init, BpfInit, WindowClosed, NoFalseLeak, NoCall

LEMMA LeakInvStep ==
  TypeInv /\ OwnInv /\ WindowClosed /\ NoFalseLeak /\ [Next]_userVars => NoFalseLeak'
BY OwnInvStep DEF NoFalseLeak, FalseLeaks

\* No false leak: if free_enter and realloc_enter are attached before the
\* program's first call, and whichever other probes are, an address of allocs
\* is always a block that is still live (memleak.bpf.c:121-177).
THEOREM NoFalseLeakTheorem ==
  ASSUME FreeProbes \subseteq InitAttached PROVE Spec => []NoFalseLeak
<1>1. Init => WindowClosed /\ NoFalseLeak
  BY LeakInvInit
<1> QED BY <1>1, WindowStep, LeakInvStep, OwnInvAlways, PTL DEF Spec

-----------------------------------------------------------------------------
(* The statistics.                                                         *)

UserStatInv == StatInv /\ WordsExact

\* Every step keeps the invariant, and is one that Statistics allows.
LEMMA StatStep ==
  ASSUME TypeInv, OwnInv, UserStatInv, [Next]_userVars
  PROVE  UserStatInv' /\ [Promise!StatisticsNext]_Promise!statisticsVars
<1>0. Separate /\ BpfTypeInv /\ BpfTypeOK
  BY OwnSeparate DEF TypeInv, TypeOK
<1>q. SUFFICES StatInv' /\ (drift' = {} => drift = {} /\ Simulated)
  BY <1>0, W_Step, R_Step DEF UserStatInv
<1> USE <1>0 DEF UserStatInv
<1>1. CASE AttachNext
  BY <1>1, S_Stutter DEF AttachNext, bpfVars
<1>2. ASSUME NEW t \in Thread, ProgramStep(t)
      PROVE  StatInv' /\ (drift' = {} => drift = {} /\ Simulated)
  <2>1. PICK l, c, ptr : ProgramMove(t, l, c, ptr)
    BY <1>2, M_ProgramStep
  <2>2. Quietly(t)
    BY <2>1, Q_Outside DEF ProgramMove, EnvLabel
  <2> QED BY <2>2, QuietSimulated DEF Quietly
<1>3. ASSUME NEW t \in Thread, HeapStep(t)
      PROVE  StatInv' /\ (drift' = {} => drift = {} /\ Simulated)
  <2>1. PICK l, c, ret : HeapMove(t, l, c, ret)
    BY <1>3, M_HeapStep
  <2>2. Quietly(t)
    BY <2>1, Q_Outside DEF HeapMove, EnvLabel
  <2> QED BY <2>2, QuietSimulated DEF Quietly
<1>4. ASSUME NEW t \in Thread, UserHandlerStep(t)
      PROVE  StatInv' /\ (drift' = {} => drift = {} /\ Simulated)
  BY <1>4, S_HandlerStep, DriftGrows DEF UserHandlerStep
<1>5. CASE UNCHANGED userVars
  BY <1>5, S_Stutter DEF userVars, bpfVars
<1> QED BY <1>1, <1>2, <1>3, <1>4, <1>5 DEF Next

LEMMA StatAlways == Spec => [](TypeInv /\ OwnInv /\ UserStatInv)
<1>1. Init => UserStatInv
  BY S_Init, W_Init DEF Init, UserStatInv
<1>2. TypeInv /\ OwnInv /\ UserStatInv /\ [Next]_userVars => UserStatInv'
  BY StatStep
<1> QED BY <1>1, <1>2, OwnInvAlways, PTL DEF Spec

\* update_statistics_add and _del (memleak.bpf.c:61-95) never lose or double an
\* update: in every interleaving of any number of threads, whichever probes are
\* attached, every word of combined_allocs is the packed total of exactly the
\* entries it accounts for, as long as no element was reused under a reader,
\* allocs never was full and no entry was overwritten.
THEOREM StatisticsExactTheorem == Spec => []StatisticsExact
<1>1. UserStatInv => StatisticsExact
  BY W_Exact DEF UserStatInv
<1> QED BY <1>1, StatAlways, PTL

\* Under the same provisos, combined_allocs is the aggregate of allocs by stack
\* id whenever no thread is in a traced function.
THEOREM AggregatesTheorem == Spec => [](drift = {} => AggregatesAllocs)
<1>1. TypeInv /\ UserStatInv => (drift = {} => AggregatesAllocs)
  BY W_Aggregates DEF UserStatInv, TypeInv, TypeOK
<1> QED BY <1>1, StatAlways, PTL

\* The tracer of one process implements Statistics: every step of it creates a
\* word, adds one allocation that is accounted nowhere yet, removes one that
\* its word accounts for, or is invisible to the reader of combined_allocs.
THEOREM StatisticsRefinedTheorem == Spec => StatisticsRefined
<1>1. Init => Promise!StatisticsInit
  BY R_Init DEF Init
<1>2. TypeInv /\ OwnInv /\ UserStatInv /\ [Next]_userVars =>
        [Promise!StatisticsNext]_Promise!statisticsVars
  BY StatStep
<1> QED BY <1>1, <1>2, StatAlways, PTL DEF Spec, StatisticsRefined, Promise!StatisticsSpec

-----------------------------------------------------------------------------
(* The origin of an entry.  A handler on its way to store a block has the  *)
(* call stack of the call that allocated it, and the stack id it stores    *)
(* leads there: a bucket that holds a call stack keeps it, unless another  *)
(* CPU found it empty before and fills it now (displaced).                 *)

NotKernel == \A t \in Thread : call[t].fn # "kalloc"

Returned ==
  \A t \in Thread :
    pc[t] \in ExitLabel /\ addr[t] \in Addr => heap[addr[t]].trace = call[t].trace

StackKnown ==
  \A t \in Thread :
    At(t, "exit_put") /\ info[t].stack \in Bucket \ displaced =>
      stack_traces[info[t].stack] = call[t].trace

OriginInv == WindowClosed /\ NoFalseLeak /\ NotKernel /\ Returned /\ StackKnown /\ OriginRecorded

LEMMA G_HandlerStep ==
  ASSUME TypeInv, OwnInv, OriginInv, NEW t \in Thread, UserHandlerStep(t)
  PROVE  NotKernel' /\ Returned' /\ StackKnown' /\ OriginRecorded'
<1>1. Effect(t) /\ TraceEffect(t) /\ UNCHANGED heap
  BY HandlerEffect, HandlerTraceEffect DEF UserHandlerStep, TypeInv
<1>2. /\ \A u \in Thread : pc[u] = "exit_put" => call[u].trace \in Trace /\ addr[u] \in Addr
      /\ None \notin Trace
  BY BpfAssumption DEF TypeInv, BpfTypeInv, Registers, ExitLabel
<1> USE DEF OriginInv, At
<1>3. NotKernel'
  BY <1>1 DEF NotKernel, Effect, NoCall
<1>4. Returned'
  BY <1>1 DEF Returned, NotKernel, Effect, TraceEffect, ExitLabel
<1>5. StackKnown'
  <2> SUFFICES ASSUME NEW u \in Thread, pc'[u] = "exit_put",
                      info'[u].stack \in Bucket \ displaced'
               PROVE  stack_traces'[info'[u].stack] = call'[u].trace
    BY DEF StackKnown
  <2>1. CASE u = t
    BY <1>1, <2>1 DEF Effect, TraceEffect
  <2>2. CASE u # t
    <3>1. pc[u] = "exit_put" /\ info'[u] = info[u] /\ call'[u] = call[u]
      BY <1>1, <2>2 DEF Effect, TraceEffect
    <3>2. stack_traces[info[u].stack] = call[u].trace /\ stack_traces[info[u].stack] # None
      BY <1>1, <1>2, <3>1 DEF StackKnown, TraceEffect
    <3> QED BY <1>1, <3>1, <3>2 DEF TraceEffect
  <2> QED BY <2>1, <2>2
<1>6. OriginRecorded'
  <2>1. ASSUME NEW a \in Addr, allocs'[a] # None, NEW x, x = Entry(a)',
               x.stack \in Bucket \ displaced'
        PROVE  heap[a] # None /\ stack_traces'[x.stack] = heap[a].trace
    <3>1. CASE allocs[a] # None /\ Entry(a)' = Entry(a)
      <4>1. heap[a] # None /\ stack_traces[x.stack] = heap[a].trace
        BY <1>1, <2>1, <3>1 DEF OriginRecorded, OriginKnown, Live, TraceEffect
      <4>2. heap[a].trace \in Trace
        BY <4>1 DEF TypeInv, TypeOK
      <4> QED BY <1>1, <1>2, <2>1, <4>1, <4>2 DEF TraceEffect
    <3>2. CASE pc[t] = "exit_put" /\ a = addr[t] /\ Entry(a)' = info[t]
      <4>1. /\ heap[a] # None /\ heap[a].trace = call[t].trace
            /\ stack_traces[x.stack] = call[t].trace
        BY <1>1, <2>1, <3>2
           DEF OwnInv, Owned, Live, Returned, StackKnown, TraceEffect, ExitLabel
      <4> QED BY <1>1, <1>2, <2>1, <3>2, <4>1 DEF TraceEffect
    <3> QED BY <1>1, <2>1, <3>1, <3>2 DEF TraceEffect
  <2>2. \A a \in Addr : allocs'[a] # None /\ Entry(a)'.stack \in Bucket \ displaced' =>
          heap'[a] # None /\ stack_traces'[Entry(a)'.stack] = heap'[a].trace
    BY <1>1, <2>1
  <2> QED BY <2>2 DEF OriginRecorded, OriginKnown, Live, Entry
<1> QED BY <1>3, <1>4, <1>5, <1>6

LEMMA G_ProgramMove ==
  ASSUME TypeInv, OriginInv, NEW t \in Thread, NEW l, NEW c, NEW ptr, ProgramMove(t, l, c, ptr)
  PROVE  NotKernel' /\ Returned' /\ StackKnown' /\ OriginRecorded'
<1>1. /\ pc'[t] = l /\ call'[t] = c /\ c.fn # "kalloc"
      /\ l \in {"enter", "free_lookup", "heap"}
      /\ \A u \in Thread \ {t} : /\ pc'[u] = pc[u] /\ addr'[u] = addr[u]
                                 /\ call'[u] = call[u] /\ info'[u] = info[u]
      /\ UNCHANGED <<allocs, allocsData, stack_traces, displaced, heap>>
  <2>1. info' \in {info, [info EXCEPT ![t] = NoInfo]}
    BY DEF ProgramMove, Outside
  <2> QED BY <2>1 DEF TypeInv, TypeOK, BpfTypeOK, ThreadsTyped, ProgramMove, Outside, mapVars
<1> USE <1>1 DEF OriginInv, At
<1>2. NotKernel'
  BY DEF NotKernel
<1>3. Returned' /\ StackKnown'
  BY DEF Returned, StackKnown, ExitLabel
<1>4. OriginRecorded'
  BY DEF OriginRecorded, OriginKnown, Entry, Live
<1> QED BY <1>2, <1>3, <1>4

LEMMA G_HeapMove ==
  ASSUME TypeInv, OwnInv, OriginInv, NEW t \in Thread, NEW l, NEW c, NEW ret,
         HeapMove(t, l, c, ret)
  PROVE  NotKernel' /\ Returned' /\ StackKnown' /\ OriginRecorded'
<1>1. /\ pc[t] = "heap" /\ ret \in Addr \cup {NULL}
      /\ \A u \in Thread \ {t} : /\ pc'[u] = pc[u] /\ addr'[u] = addr[u]
                                 /\ call'[u] = call[u] /\ info'[u] = info[u]
      /\ pc'[t] \in {"run", "exit_lookup"}
      /\ pc'[t] = "exit_lookup" =>
           addr'[t] = ret /\ call'[t].trace = call[t].trace /\ call'[t].fn = call[t].fn
      /\ pc'[t] = "run" => call'[t] = NoCall
      /\ \A a \in Addr \ {addr[t], ret} : heap'[a] = heap[a]
      /\ ret \in Addr => /\ heap'[ret] # None /\ (ret = addr[t] \/ heap[ret] = None)
                         /\ heap'[ret].trace = call[t].trace
      /\ UNCHANGED <<allocs, allocsData, stack_traces, displaced>>
  <2>1. info' \in {info, [info EXCEPT ![t] = NoInfo]}
    BY DEF HeapMove, Outside
  <2> QED BY <2>1 DEF TypeInv, TypeOK, BpfTypeOK, ThreadsTyped, HeapMove, Outside, mapVars
<1> USE DEF OriginInv, At
<1>2. NotKernel'
  BY <1>1 DEF NotKernel, NoCall
<1>3. Returned'
  <2> SUFFICES ASSUME NEW u \in Thread, pc'[u] \in ExitLabel, addr'[u] \in Addr
               PROVE  heap'[addr'[u]].trace = call'[u].trace
    BY DEF Returned
  <2>1. CASE u = t
    BY <1>1, <2>1 DEF ExitLabel
  <2>2. CASE u # t
    <3>1. /\ addr'[u] = addr[u] /\ pc[u] \in ExitLabel /\ pc[u] # "run"
          /\ call'[u] = call[u]
      BY <1>1, <2>2 DEF ExitLabel
    <3>2. addr[u] # addr[t] /\ heap[addr[u]] # None
      BY <1>1, <2>2, <3>1, BpfAssumption DEF OwnInv, Exclusive, Owned, Live
    <3>3. heap'[addr[u]] = heap[addr[u]]
      BY <1>1, <3>1, <3>2
    <3> QED BY <3>1, <3>3 DEF Returned
  <2> QED BY <2>1, <2>2
<1>4. StackKnown'
  BY <1>1 DEF StackKnown
<1>5. OriginRecorded'
  <2> SUFFICES ASSUME NEW a \in Addr, allocs[a] # None PROVE heap'[a] = heap[a]
    BY <1>1 DEF OriginRecorded, OriginKnown, Entry, Live
  <2>1. heap[a] # None
    BY DEF NoFalseLeak, Live
  <2>2. CASE call[t].fn \in {"free", "realloc"}
    <3>1. a # addr[t]
      BY <1>1, <2>2 DEF WindowClosed, OwnInv, Forgotten, ForgetLabel
    <3> QED BY <1>1, <2>1, <3>1
  <2>3. CASE \A x \in Addr : heap[x] # None => heap'[x] = heap[x]
    BY <2>1, <2>3
  <2> QED BY <2>2, <2>3 DEF HeapMove
<1> QED BY <1>2, <1>3, <1>4, <1>5

LEMMA OriginInvStep ==
  TypeInv /\ OwnInv /\ OriginInv /\ [Next]_userVars => OriginInv'
<1> SUFFICES ASSUME TypeInv, OwnInv, OriginInv, [Next]_userVars PROVE OriginInv'
  OBVIOUS
<1>0. WindowClosed' /\ NoFalseLeak'
  BY WindowStep, LeakInvStep DEF OriginInv
<1>1. ASSUME UNCHANGED <<bpfVars, heap>>
      PROVE  NotKernel' /\ Returned' /\ StackKnown' /\ OriginRecorded'
  BY <1>1 DEF OriginInv, NotKernel, Returned, StackKnown, OriginRecorded, OriginKnown,
              Entry, Live, At, bpfVars, mapVars
<1>2. ASSUME NEW t \in Thread, ProgramStep(t)
      PROVE  NotKernel' /\ Returned' /\ StackKnown' /\ OriginRecorded'
  BY <1>2, M_ProgramStep, G_ProgramMove
<1>3. ASSUME NEW t \in Thread, HeapStep(t)
      PROVE  NotKernel' /\ Returned' /\ StackKnown' /\ OriginRecorded'
  BY <1>3, M_HeapStep, G_HeapMove
<1>4. ASSUME NEW t \in Thread, UserHandlerStep(t)
      PROVE  NotKernel' /\ Returned' /\ StackKnown' /\ OriginRecorded'
  BY <1>4, G_HandlerStep
<1> QED BY <1>0, <1>1, <1>2, <1>3, <1>4 DEF Next, AttachNext, userVars, OriginInv

\* An entry leads to the call stack that allocated its block: if free_enter and
\* realloc_enter are attached before the program's first call, the stack id of
\* an entry is -EEXIST, or the bucket that holds the call stack of the very
\* allocation that returned this block, whatever block had the address before,
\* or a bucket that two CPUs with different call stacks found empty at the same
\* time and both filled (memleak.bpf.c:138-140).
THEOREM OriginRecordedTheorem ==
  ASSUME FreeProbes \subseteq InitAttached PROVE Spec => []OriginRecorded
<1>1. Init => OriginInv
  BY LeakInvInit DEF Init, BpfInit, OriginInv, NotKernel, NoCall, Returned, StackKnown,
                     OriginRecorded, ExitLabel, At
<1>2. OriginInv => OriginRecorded
  BY DEF OriginInv
<1> QED BY <1>1, <1>2, OriginInvStep, OwnInvAlways, PTL DEF Spec

\* No two call stacks of the program have the same bucket.
NoCollision == \A tr1, tr2 \in Trace : StackHash[tr1] = StackHash[tr2] => tr1 = tr2

\* Every call stack is in its own bucket, and none was ever replaced.
Homed ==
  /\ displaced = {}
  /\ \A b \in Bucket : stack_traces[b] # None =>
       stack_traces[b] \in Trace /\ StackHash[stack_traces[b]] = b

LEMMA HomedStep ==
  ASSUME NoCollision, TypeInv, Homed, [Next]_userVars PROVE Homed'
<1>1. ASSUME NEW t \in Thread, exit_bucket(t) PROVE Homed'
  <2>1. PICK tr \in Trace : tr = call[t].trace
    BY <1>1 DEF exit_bucket, At, TypeInv, BpfTypeInv, Registers, ExitLabel
  <2>2. StackHash[tr] \in Bucket /\ stack_traces[StackHash[tr]] \in {None, tr}
    BY <2>1 DEF Bucket, Homed, NoCollision
  <2>3. /\ stack_traces' = [stack_traces EXCEPT ![StackHash[tr]] = tr]
        /\ displaced' = displaced
    BY <1>1, <2>1, <2>2 DEF exit_bucket
  <2>4. stack_traces \in [Bucket -> Trace \cup {None}]
    BY DEF TypeInv, TypeOK, BpfTypeOK, MapsTyped
  <2> QED BY <2>2, <2>3, <2>4 DEF Homed
<1>2. ASSUME NEW t \in Thread, UserHandlerStep(t), ~exit_bucket(t)
      PROVE  UNCHANGED <<stack_traces, displaced>>
  BY <1>2 DEF UserHandlerStep, HandlerStep, gen_alloc_enter, gen_alloc_exit2, gen_free_enter,
              exit_lookup, exit_read, exit_del, exit_stack, exit_put, add_lookup, add_init, add,
              free_lookup, free_del, free_size, free_stack, del_lookup, del, mapVars
<1>3. ASSUME NEW t \in Thread, ProgramStep(t) PROVE UNCHANGED <<stack_traces, displaced>>
  <2>1. PICK l, c, ptr : ProgramMove(t, l, c, ptr)
    BY <1>3, M_ProgramStep
  <2> QED BY <2>1 DEF ProgramMove, Outside, mapVars
<1>4. ASSUME NEW t \in Thread, HeapStep(t) PROVE UNCHANGED <<stack_traces, displaced>>
  <2>1. PICK l, c, ret : HeapMove(t, l, c, ret)
    BY <1>4, M_HeapStep
  <2> QED BY <2>1 DEF HeapMove, Outside, mapVars
<1>5. CASE AttachNext \/ UNCHANGED userVars
  BY <1>5 DEF AttachNext, userVars, bpfVars, mapVars, Homed
<1>6. ASSUME UNCHANGED <<stack_traces, displaced>> PROVE Homed'
  BY <1>6 DEF Homed
<1> QED BY <1>1, <1>2, <1>3, <1>4, <1>5, <1>6 DEF Next

\* As long as no two call stacks of the program share a bucket of stack_traces,
\* the exception is empty: every entry shows where its block originates,
\* however the handlers of several threads interleave (memleak.bpf.c:138-140).
\* The run stack_race shows what one collision can do.
THEOREM StackShowsOriginTheorem ==
  ASSUME FreeProbes \subseteq InitAttached, NoCollision PROVE Spec => []StackShowsOrigin
<1>1. Init => Homed
  BY DEF Init, BpfInit, Homed
<1>2. TypeInv /\ Homed /\ [Next]_userVars => Homed'
  BY HomedStep
<1>3. Homed /\ OriginRecorded => StackShowsOrigin
  BY DEF Homed, OriginRecorded, StackShowsOrigin
<1> QED BY <1>1, <1>2, <1>3, OriginRecordedTheorem, TypeInvAlways, PTL DEF Spec

-----------------------------------------------------------------------------
(* Only free and realloc work on a block the program has already.          *)

Releasing ==
  \A t \in Thread :
    \/ pc[t] \in FreeLabel
    \/ pc[t] \in {"enter", "heap"} /\ addr[t] \in Addr
    => call[t].fn \in {"free", "realloc"}

LEMMA ReleasingStep ==
  ASSUME TypeInv, NotKernel, Releasing, [Next]_userVars PROVE NotKernel' /\ Releasing'
<1>0. /\ pc \in [Thread -> Label] /\ call \in [Thread -> Calls]
      /\ addr \in [Thread -> Addr \cup {NULL}] /\ NULL \notin Addr
  BY BpfAssumption DEF TypeInv, TypeOK, BpfTypeOK, ThreadsTyped
<1>1. ASSUME UNCHANGED <<bpfVars, heap>> PROVE NotKernel' /\ Releasing'
  BY <1>1 DEF NotKernel, Releasing, bpfVars
<1>2. ASSUME NEW t \in Thread, ProgramStep(t) PROVE NotKernel' /\ Releasing'
  <2>1. PICK l, c, ptr : ProgramMove(t, l, c, ptr)
    BY <1>2, M_ProgramStep
  <2>2. /\ pc'[t] = l /\ call'[t] = c /\ addr'[t] = ptr /\ c.fn # "kalloc"
        /\ l \in {"enter", "free_lookup", "heap"}
        /\ l = "free_lookup" \/ ptr \in Addr => c.fn \in {"free", "realloc"}
        /\ \A u \in Thread \ {t} : pc'[u] = pc[u] /\ addr'[u] = addr[u] /\ call'[u] = call[u]
    BY <1>0, <2>1 DEF ProgramMove, Outside
  <2> QED BY <2>2 DEF NotKernel, Releasing, FreeLabel
<1>3. ASSUME NEW t \in Thread, HeapStep(t) PROVE NotKernel' /\ Releasing'
  <2>1. PICK l, c, ret : HeapMove(t, l, c, ret)
    BY <1>3, M_HeapStep
  <2>2. /\ pc'[t] \in {"run", "exit_lookup"} /\ call'[t].fn # "kalloc"
        /\ \A u \in Thread \ {t} : pc'[u] = pc[u] /\ addr'[u] = addr[u] /\ call'[u] = call[u]
    BY <1>0, <2>1 DEF HeapMove, Outside, NotKernel, NoCall
  <2> QED BY <2>2 DEF NotKernel, Releasing, FreeLabel
<1>4. ASSUME NEW t \in Thread, UserHandlerStep(t) PROVE NotKernel' /\ Releasing'
  <2>1. Effect(t) /\ SizeEffect(t) /\ call[t].fn # "kalloc"
    BY <1>4, HandlerEffect, HandlerSizeEffect DEF UserHandlerStep, TypeInv, NotKernel
  <2>2. NotKernel'
    BY <2>1 DEF NotKernel, Effect, NoCall
  <2>3. ASSUME \/ pc'[t] \in FreeLabel
               \/ pc'[t] \in {"enter", "heap"} /\ addr'[t] \in Addr
        PROVE  call'[t].fn \in {"free", "realloc"}
    <3>1. /\ pc[t] \in FreeLabel \cup {"enter"} /\ call'[t] = call[t] /\ addr'[t] = addr[t]
          /\ pc'[t] \in FreeLabel => pc[t] \in FreeLabel
      BY <2>1, <2>3 DEF Effect, SizeEffect, AfterEnter, AddLabel, FreeLabel, AfterFree
    <3> QED BY <2>3, <3>1 DEF Releasing, FreeLabel
  <2>4. Releasing'
    BY <2>1, <2>3 DEF Releasing, Effect
  <2> QED BY <2>2, <2>4
<1> QED BY <1>1, <1>2, <1>3, <1>4 DEF Next, AttachNext, userVars

-----------------------------------------------------------------------------
(* The size of an entry.  sizes is keyed by the process, so what follows is *)
(* about programs with one thread per process.  All probes of              *)
(* attachPrograms are attached before the first call, and no function is   *)
(* probed at its entry only.  Then an element of sizes is there only while *)
(* the one call it belongs to is in the C library or on its way to the     *)
(* entry, and it holds the size of that call.                              *)

OneThread == \A t, u \in Thread : Tgid[t] = Tgid[u] => t = u

ProbedInPairs ==
  /\ Probe \subseteq InitAttached
  /\ \A fn \in RecordingFn :
       <<fn, "enter">> \in InitAttached => <<fn, "exit">> \in InitAttached

\* A handler that remembers a size is followed by one that takes it back.
Paired ==
  \A t \in Thread :
    pc[t] \in FreeLabel \cup {"enter"} /\ call[t].fn \in RecordingFn => call[t].ret

FitsWord == \A t \in Thread : call[t].fn = "realloc" => call[t].req \in Word

Remembered ==
  \A t \in Thread :
    sizes[Tgid[t]] # None =>
      \/ /\ pc[t] = "heap" /\ call[t].fn \in RecordingFn /\ call[t].ret
         /\ sizesData[sizes[Tgid[t]]] = SizeArg(t)
      \/ /\ pc[t] \in {"exit_lookup", "exit_read"}
         /\ addr[t] \in Addr => sizesData[sizes[Tgid[t]]] = heap[addr[t]].size
      \/ pc[t] = "exit_del"

ReadSize ==
  \A t \in Thread :
    /\ pc[t] = "exit_read" => sizes[Tgid[t]] = elem[t]
    /\ pc[t] \in {"exit_del", "exit_stack", "exit_bucket", "exit_put"} /\ addr[t] \in Addr =>
         info[t].size = heap[addr[t]].size

SizePath == NotKernel /\ Paired /\ FitsWord /\ Remembered /\ ReadSize /\ SizeTruthful

SizeInv == WindowClosed /\ NoFalseLeak /\ attached = InitAttached /\ SizePath

LEMMA Z_HandlerStep ==
  ASSUME OneThread, TypeInv, OwnInv, SizeInv, NEW t \in Thread, UserHandlerStep(t)
  PROVE  SizePath'
<1>1. Effect(t) /\ TraceEffect(t) /\ SizeEffect(t) /\ UNCHANGED heap
  BY HandlerEffect, HandlerTraceEffect, HandlerSizeEffect DEF UserHandlerStep, TypeInv
<1>2. /\ \A u \in Thread : Tgid[u] \in Pid /\ (u # t => Tgid[u] # Tgid[t])
      /\ pc[t] = "enter" => call[t].fn \in RecordingFn
      /\ pc[t] = "exit_read" => elem[t] # None
      /\ call[t].fn # "kalloc"
  BY BpfAssumption
     DEF OneThread, TypeInv, BpfTypeInv, Registers, SizeInv, SizePath, NotKernel
<1> USE DEF SizeInv, SizePath
<1>3. NotKernel'
  BY <1>1 DEF NotKernel, Effect, NoCall
<1>4. Paired'
  <2> SUFFICES ASSUME NEW u \in Thread, pc'[u] \in FreeLabel \cup {"enter"},
                      call'[u].fn \in RecordingFn
               PROVE  call'[u].ret
    BY DEF Paired
  <2>1. CASE u = t
    <3>1. pc[t] \in FreeLabel \cup {"enter"} /\ call'[t] = call[t]
      BY <1>1, <1>2, <2>1 DEF Effect, SizeEffect, AfterEnter, AfterFree, AddLabel, FreeLabel
    <3> QED BY <2>1, <3>1 DEF Paired
  <2>2. CASE u # t
    BY <1>1, <2>2 DEF Effect, Paired
  <2> QED BY <2>1, <2>2
<1>5. FitsWord'
  BY <1>1 DEF Effect, FitsWord, NoCall
<1>6. Remembered'
  <2>1. ASSUME NEW u \in Thread \ {t}
        PROVE  /\ sizes'[Tgid[u]] = sizes[Tgid[u]]
               /\ sizes[Tgid[u]] # None =>
                    sizesData'[sizes[Tgid[u]]] = sizesData[sizes[Tgid[u]]]
               /\ pc'[u] = pc[u] /\ addr'[u] = addr[u] /\ call'[u] = call[u]
               /\ SizeArg(u)' = SizeArg(u)
    BY <1>1, <1>2 DEF Effect, SizeEffect, SizeArg
  <2>2. ASSUME sizes'[Tgid[t]] # None
        PROVE  \/ /\ pc'[t] = "heap" /\ call'[t].fn \in RecordingFn /\ call'[t].ret
                  /\ sizesData'[sizes'[Tgid[t]]] = SizeArg(t)'
               \/ /\ pc'[t] \in {"exit_lookup", "exit_read"}
                  /\ addr'[t] \in Addr =>
                       sizesData'[sizes'[Tgid[t]]] = heap'[addr'[t]].size
               \/ pc'[t] = "exit_del"
    <3>1. CASE pc[t] = "enter"
      <4>1. pc'[t] = "heap" /\ call'[t] = call[t] /\ sizes[Tgid[t]] = None
        BY <1>1, <1>2, <3>1 DEF Effect, SizeEffect, AfterEnter, Remembered, FreeLabel, AddLabel
      <4>2. sizesData'[sizes'[Tgid[t]]] = SizeArg(t)
        BY <1>1, <2>2, <3>1, <4>1 DEF SizeEffect, FreeLabel, AddLabel
      <4>3. SizeArg(t)' = SizeArg(t)
        BY <4>1 DEF SizeArg
      <4>4. call[t].fn \in RecordingFn /\ call[t].ret
        BY <1>2, <3>1 DEF Paired
      <4> QED BY <4>1, <4>2, <4>3, <4>4
    <3>2. CASE pc[t] = "exit_lookup"
      BY <1>1, <2>2, <3>2 DEF Effect, SizeEffect, Remembered, FreeLabel, AddLabel
    <3>3. CASE pc[t] = "exit_read"
      BY <1>1, <3>3 DEF SizeEffect, FreeLabel, AddLabel
    <3>4. CASE pc[t] \notin {"enter", "exit_lookup", "exit_read"}
      BY <1>1, <2>2, <3>4 DEF SizeEffect, Remembered, FreeLabel, AddLabel
    <3> QED BY <3>1, <3>2, <3>3, <3>4
  <2> QED BY <1>1, <2>1, <2>2 DEF Remembered
<1>7. ReadSize'
  <2>1. ASSUME NEW u \in Thread \ {t}
        PROVE  /\ sizes'[Tgid[u]] = sizes[Tgid[u]] /\ elem'[u] = elem[u] /\ info'[u] = info[u]
               /\ pc'[u] = pc[u] /\ addr'[u] = addr[u]
    BY <1>1, <1>2 DEF Effect, TraceEffect, SizeEffect
  <2>2. pc'[t] = "exit_read" => sizes'[Tgid[t]] = elem'[t]
    BY <1>1, <1>2 DEF SizeEffect, AfterEnter, AfterFree, FreeLabel, AddLabel
  <2>3. ASSUME pc'[t] \in {"exit_del", "exit_stack", "exit_bucket", "exit_put"}, addr'[t] \in Addr
        PROVE  info'[t].size = heap[addr'[t]].size
    <3>1. /\ pc[t] \in {"exit_read", "exit_del", "exit_stack", "exit_bucket"} /\ addr'[t] = addr[t]
          /\ pc[t] = "exit_read" => info'[t].size = sizesData[elem[t]]
          /\ pc[t] # "exit_read" => info'[t].size = info[t].size
      BY <1>1, <1>2, <2>3 DEF Effect, SizeEffect, AfterEnter, AfterFree, FreeLabel, AddLabel
    <3>2. CASE pc[t] = "exit_read"
      <4>1. sizes[Tgid[t]] = elem[t] /\ sizes[Tgid[t]] # None
        BY <1>2, <3>2 DEF ReadSize
      <4> QED BY <2>3, <3>1, <3>2, <4>1 DEF Remembered
    <3>3. CASE pc[t] # "exit_read"
      BY <2>3, <3>1, <3>3 DEF ReadSize
    <3> QED BY <3>2, <3>3
  <2> QED BY <1>1, <2>1, <2>2, <2>3 DEF ReadSize
<1>8. SizeTruthful'
  <2>1. ASSUME NEW a \in Addr, allocs'[a] # None, heap[a] # None
        PROVE  Entry(a)'.size = heap[a].size
    <3>1. CASE allocs[a] # None /\ Entry(a)' = Entry(a)
      BY <2>1, <3>1 DEF SizeTruthful, Live
    <3>2. CASE pc[t] = "exit_put" /\ a = addr[t] /\ Entry(a)' = info[t]
      BY <2>1, <3>2 DEF ReadSize
    <3> QED BY <1>1, <2>1, <3>1, <3>2 DEF TraceEffect
  <2>2. \A a \in Addr : allocs'[a] # None /\ heap'[a] # None => Entry(a)'.size = heap'[a].size
    BY <1>1, <2>1
  <2> QED BY <2>2 DEF SizeTruthful, Live, Entry
<1> QED BY <1>3, <1>4, <1>5, <1>6, <1>7, <1>8

LEMMA Z_ProgramMove ==
  ASSUME ProbedInPairs, TypeInv, SizeInv, NEW t \in Thread, NEW l, NEW c, NEW ptr,
         ProgramMove(t, l, c, ptr)
  PROVE  SizePath'
<1>1. /\ pc[t] = "run" /\ pc'[t] = l /\ call'[t] = c /\ c.fn # "kalloc"
      /\ l \in {"enter", "free_lookup", "heap"}
      /\ \A u \in Thread \ {t} : /\ pc'[u] = pc[u] /\ addr'[u] = addr[u]
                                 /\ call'[u] = call[u] /\ info'[u] = info[u]
                                 /\ elem'[u] = elem[u]
      /\ UNCHANGED <<sizes, sizesData, allocs, allocsData, heap>>
  <2>1. /\ info' \in {info, [info EXCEPT ![t] = NoInfo]}
        /\ elem' \in {elem, [elem EXCEPT ![t] = None]}
    BY DEF ProgramMove, Outside
  <2> QED BY <2>1 DEF TypeInv, TypeOK, BpfTypeOK, ThreadsTyped, ProgramMove, Outside, mapVars
<1>2. c.fn \in RecordingFn /\ l # "heap" => c.ret
  BY DEF ProgramMove, ProbedInPairs, SizeInv
<1>3. c.fn = "realloc" => c.req \in Word
  BY DEF ProgramMove
<1> USE <1>1 DEF SizeInv, SizePath
<1>4. NotKernel' /\ Paired' /\ FitsWord'
  BY <1>2, <1>3 DEF NotKernel, Paired, FitsWord, FreeLabel
<1>5. Remembered'
  BY DEF Remembered, SizeArg
<1>6. ReadSize'
  BY DEF ReadSize
<1>7. SizeTruthful'
  BY DEF SizeTruthful, Entry, Live
<1> QED BY <1>4, <1>5, <1>6, <1>7

\* The C library leaves the blocks alone that have entries.
LEMMA EntriesUntouched ==
  ASSUME OwnInv, WindowClosed, NoFalseLeak, NEW t \in Thread, NEW l, NEW c, NEW ret,
         HeapMove(t, l, c, ret), NEW a \in Addr, allocs[a] # None
  PROVE  heap'[a] = heap[a] /\ heap[a] # None
<1>1. heap[a] # None
  BY DEF NoFalseLeak, Live
<1>2. CASE call[t].fn \in {"free", "realloc"}
  <2>1. a # addr[t]
    BY <1>2 DEF HeapMove, WindowClosed, OwnInv, Forgotten, ForgetLabel
  <2> QED BY <1>1, <2>1 DEF HeapMove
<1>3. CASE \A x \in Addr : heap[x] # None => heap'[x] = heap[x]
  BY <1>1, <1>3
<1> QED BY <1>1, <1>2, <1>3 DEF HeapMove

\* A block has the size gen_alloc_enter was given.
LEMMA ReturnedSize ==
  ASSUME TypeInv, FitsWord, NEW t \in Thread, NEW l, NEW c, NEW ret, HeapMove(t, l, c, ret),
         ret \in Addr
  PROVE  heap'[ret].size = SizeArg(t)
<1>1. /\ heap'[ret].size = call[t].req
      /\ call[t].req < WordMod \/ call[t].fn = "realloc"
  BY DEF HeapMove
<1>2. call[t].req \in Word
  <2>1. call[t].req \in Nat
    BY DEF TypeInv, TypeOK, BpfTypeOK, ThreadsTyped, Calls
  <2>2. call[t].req < WordMod => call[t].req \in Word
    BY <2>1, WordModPositive, SMT DEF Word
  <2> QED BY <1>1, <2>2 DEF FitsWord
<1>3. call[t].req % WordMod = call[t].req
  BY <1>2, WordModPositive, SMT DEF Word
<1> QED BY <1>1, <1>3 DEF SizeArg

\* The call of t is in the C library; what becomes of its block and its size.
LEMMA Z_HeapMove ==
  ASSUME TypeInv, OwnInv, SizeInv, NEW t \in Thread, NEW l, NEW c, NEW ret,
         HeapMove(t, l, c, ret)
  PROVE  SizePath'
<1>1. /\ pc[t] = "heap" /\ ret \in Addr \cup {NULL}
      /\ \A u \in Thread \ {t} : /\ pc'[u] = pc[u] /\ addr'[u] = addr[u]
                                 /\ call'[u] = call[u] /\ info'[u] = info[u]
                                 /\ elem'[u] = elem[u]
      /\ pc'[t] \in {"run", "exit_lookup"}
      /\ pc'[t] = "exit_lookup" =>
           addr'[t] = ret /\ call'[t].fn = call[t].fn /\ call'[t].req = 0
      /\ pc'[t] = "run" => call'[t] = NoCall
      /\ \A a \in Addr \ {addr[t], ret} : heap'[a] = heap[a]
      /\ ret \in Addr => ret = addr[t] \/ heap[ret] = None
      /\ UNCHANGED <<sizes, sizesData, allocs, allocsData>>
  <2>1. /\ info' \in {info, [info EXCEPT ![t] = NoInfo]}
        /\ elem' \in {elem, [elem EXCEPT ![t] = None]}
    BY DEF HeapMove, Outside
  <2> QED BY <2>1 DEF TypeInv, TypeOK, BpfTypeOK, ThreadsTyped, HeapMove, Outside, mapVars
<1>2. ASSUME NEW u \in Thread \ {t}, pc[u] # "run", addr[u] \in Addr
      PROVE  heap'[addr[u]] = heap[addr[u]]
  <2>1. addr[u] # addr[t] /\ heap[addr[u]] # None
    BY <1>1, <1>2, BpfAssumption DEF OwnInv, Exclusive, Owned, At, Live
  <2> QED BY <1>1, <1>2, <2>1
<1> USE DEF SizeInv, SizePath
<1>3. NotKernel'
  BY <1>1 DEF NotKernel, NoCall
<1>4. Paired'
  BY <1>1 DEF Paired, FreeLabel
<1>5. FitsWord'
  BY <1>1, WordFacts DEF FitsWord, NoCall
<1>6. Remembered'
  <2>1. ASSUME sizes[Tgid[t]] # None
        PROVE  /\ pc'[t] = "exit_lookup"
               /\ addr'[t] \in Addr => sizesData[sizes[Tgid[t]]] = heap'[addr'[t]].size
    <3>1. /\ call[t].fn \in RecordingFn /\ call[t].ret
          /\ sizesData[sizes[Tgid[t]]] = SizeArg(t)
      BY <1>1, <2>1 DEF Remembered
    <3>2. pc'[t] = "exit_lookup"
      BY <3>1, <1>1 DEF HeapMove, Outside, TypeInv, TypeOK, BpfTypeOK, ThreadsTyped
    <3>3. ret \in Addr => heap'[ret].size = SizeArg(t)
      BY ReturnedSize
    <3> QED BY <1>1, <3>1, <3>2, <3>3
  <2>2. ASSUME NEW u \in Thread \ {t}, sizes[Tgid[u]] # None
        PROVE  \/ /\ pc[u] = "heap" /\ call[u].fn \in RecordingFn /\ call[u].ret
                  /\ sizesData[sizes[Tgid[u]]] = SizeArg(u)
               \/ /\ pc[u] \in {"exit_lookup", "exit_read"}
                  /\ addr[u] \in Addr => sizesData[sizes[Tgid[u]]] = heap'[addr[u]].size
               \/ pc[u] = "exit_del"
    BY <1>2, <2>2 DEF Remembered
  <2>3. \A u \in Thread \ {t} : SizeArg(u)' = SizeArg(u)
    BY <1>1 DEF SizeArg
  <2> QED BY <1>1, <2>1, <2>2, <2>3 DEF Remembered
<1>7. ReadSize'
  BY <1>1, <1>2 DEF ReadSize
<1>8. SizeTruthful'
  <2>1. ASSUME NEW a \in Addr, allocs[a] # None PROVE heap'[a] = heap[a] /\ heap[a] # None
    BY <2>1, EntriesUntouched
  <2> QED BY <1>1, <2>1 DEF SizeTruthful, Entry, Live
<1> QED BY <1>3, <1>4, <1>5, <1>6, <1>7, <1>8

LEMMA SizeInvStep ==
  ASSUME OneThread, ProbedInPairs, TypeInv, OwnInv, SizeInv, [Next]_userVars PROVE SizeInv'
<1>0. WindowClosed' /\ NoFalseLeak'
  BY WindowStep, LeakInvStep DEF SizeInv
<1>1. CASE AttachNext
  BY <1>1 DEF AttachNext, SizeInv, ProbedInPairs, Probe
<1>2. ASSUME UNCHANGED userVars PROVE SizeInv'
  BY <1>0, <1>2 DEF SizeInv, SizePath, NotKernel, Paired, FitsWord, Remembered, ReadSize,
                    SizeTruthful, SizeArg, Entry, Live, userVars, bpfVars, mapVars
<1>3. ASSUME NEW t \in Thread, ProgramStep(t) PROVE SizeInv'
  <2>1. PICK l, c, ptr : ProgramMove(t, l, c, ptr)
    BY <1>3, M_ProgramStep
  <2>2. SizePath'
    BY <2>1, Z_ProgramMove
  <2> QED BY <1>0, <2>1, <2>2 DEF SizeInv, ProgramMove
<1>4. ASSUME NEW t \in Thread, HeapStep(t) PROVE SizeInv'
  <2>1. PICK l, c, ret : HeapMove(t, l, c, ret)
    BY <1>4, M_HeapStep
  <2>2. SizePath'
    BY <2>1, Z_HeapMove
  <2> QED BY <1>0, <2>1, <2>2 DEF SizeInv, HeapMove
<1>5. ASSUME NEW t \in Thread, UserHandlerStep(t) PROVE SizeInv'
  <2>1. SizePath'
    BY <1>5, Z_HandlerStep
  <2> QED BY <1>0, <1>5, <2>1 DEF SizeInv, UserHandlerStep
<1> QED BY <1>1, <1>2, <1>3, <1>4, <1>5 DEF Next

LEMMA SizeInvInit ==
  ASSUME ProbedInPairs PROVE Init => SizeInv
<1>1. FreeProbes \subseteq Probe
  <2>1. AttachOrder[3] = <<"free", "enter">> /\ AttachOrder[6] = <<"realloc", "enter">>
    BY DEF AttachOrder
  <2> QED BY <2>1 DEF FreeProbes, Probe
<1>2. Init => WindowClosed /\ NoFalseLeak
  BY <1>1, LeakInvInit DEF ProbedInPairs
<1>3. \A t \in Thread : Tgid[t] \in Pid
  BY BpfAssumption
<1> QED BY <1>2, <1>3 DEF Init, BpfInit, SizeInv, SizePath, NotKernel, Paired, FitsWord,
                          Remembered, ReadSize, SizeTruthful, NoCall, FreeLabel

LEMMA SizeInvAlways ==
  ASSUME OneThread, ProbedInPairs PROVE Spec => [](TypeInv /\ OwnInv /\ SizeInv)
<1>1. TypeInv /\ OwnInv /\ SizeInv /\ [Next]_userVars => SizeInv'
  BY SizeInvStep
<1> QED BY <1>1, SizeInvInit, OwnInvAlways, PTL DEF Spec

\* Entries carry true sizes: with one thread per process, every probe of
\* attachPrograms in place and no function probed at its entry only, the size
\* in an entry is what its block was requested with, through filters, failed
\* and wrapped requests, realloc and a sizes map of any capacity
\* (memleak.bpf.c:97-134).  With two threads it is not: see the run sizes_race.
THEOREM SizeTruthfulTheorem ==
  ASSUME OneThread, ProbedInPairs PROVE Spec => []SizeTruthful
<1>1. SizeInv => SizeTruthful
  BY DEF SizeInv, SizePath
<1> QED BY <1>1, SizeInvAlways, PTL

-----------------------------------------------------------------------------
(* No missed leak.  The ways in which a block may be missed are ruled out  *)
(* one by one: an unprobed function, sampling, another process, a full     *)
(* map, a realloc that fails.  What is left is that the handlers of one    *)
(* call hand its size and its block on without losing either.              *)

NothingSkipped == SampleRate <= 1 /\ \A t \in Thread : TargetPid \in {None, Tgid[t]}

RoomInSizes == SizesMax \in Nat /\ IsFiniteSet(Pid) /\ Cardinality(Pid) <= SizesMax

RoomInAllocs == AllocsMax \in Nat /\ IsFiniteSet(Addr) /\ Cardinality(Addr) <= AllocsMax

AllProbed ==
  \A fn \in Used \cup {"calloc", "realloc"} :
    {<<fn, "enter">>, <<fn, "exit">>} \subseteq InitAttached

\* The size of a call in the traced range is on its way to the entry, and then
\* the entry is there.
Noted ==
  \A t \in Thread :
    /\ pc[t] = "heap" /\ call[t].fn \in RecordingFn =>
         call[t].ret /\ (InRange(SizeArg(t)) => sizes[Tgid[t]] # None)
    /\ pc[t] = "exit_lookup" /\ addr[t] \in Addr /\ InRange(heap[addr[t]].size) =>
         sizes[Tgid[t]] # None
    /\ pc[t] \in AddLabel => allocs[addr[t]] # None

CompleteInv == Noted /\ Releasing /\ LeaksRecorded

\* A map with an entry for every key never refuses a key.
LEMMA RoomLemma ==
  ASSUME NEW S, IsFiniteSet(S), NEW n \in Nat, Cardinality(S) <= n, NEW index,
         DOMAIN index = S, NEW k \in S
  PROVE  HasRoom(index, k, n)
<1> SUFFICES ASSUME index[k] = None PROVE Cardinality(Present(index)) < n
  BY DEF HasRoom
<1>1. Present(index) \in SUBSET S /\ Present(index) # S
  BY DEF Present
<1>2. /\ Cardinality(Present(index)) <= Cardinality(S)
      /\ Cardinality(Present(index)) # Cardinality(S)
      /\ IsFiniteSet(Present(index))
  BY <1>1, FS_Subset
<1>3. Cardinality(Present(index)) \in Nat /\ Cardinality(S) \in Nat
  BY <1>2, FS_CardinalityType
<1> QED BY <1>2, <1>3

LEMMA C_HandlerStep ==
  ASSUME OneThread, NothingSkipped, RoomInSizes, RoomInAllocs, TypeInv, OwnInv, SizeInv,
         CompleteInv,
         NEW t \in Thread, UserHandlerStep(t)
  PROVE  Noted' /\ LeaksRecorded'
<1>1. Effect(t) /\ SizeEffect(t) /\ UNCHANGED heap
  BY HandlerEffect, HandlerSizeEffect DEF UserHandlerStep, TypeInv
<1>2. /\ \A u \in Thread : Tgid[u] \in Pid /\ (u # t => Tgid[u] # Tgid[t])
      /\ pc[t] = "enter" => call[t].fn \in RecordingFn
      /\ \A u \in Thread : pc[u] \in AddLabel \cup {"exit_put"} => addr[u] \in Addr
      /\ call[t].fn # "kalloc" /\ NULL \notin Addr
  BY BpfAssumption
     DEF OneThread, TypeInv, BpfTypeInv, Registers, SizeInv, SizePath, NotKernel, AddLabel
<1>3. /\ HasRoom(sizes, Tgid[t], SizesMax)
      /\ pc[t] = "exit_put" => HasRoom(allocs, addr[t], AllocsMax)
  <2>1. DOMAIN sizes = Pid /\ DOMAIN allocs = Addr
    BY DEF TypeInv, TypeOK, BpfTypeOK, MapsTyped
  <2> QED BY <1>2, <2>1, RoomLemma DEF RoomInSizes, RoomInAllocs
<1>4. ASSUME NEW u \in Thread \ {t}, pc[u] # "run", addr[u] \in Addr
      PROVE  allocs'[addr[u]] = allocs[addr[u]]
  BY <1>1, <1>2, <1>4 DEF Effect, OwnInv, Exclusive, At
<1> USE DEF CompleteInv
<1>5. Noted'
  <2>1. ASSUME NEW u \in Thread \ {t}
        PROVE  /\ pc'[u] = "heap" /\ call'[u].fn \in RecordingFn =>
                    call'[u].ret /\ (InRange(SizeArg(u)') => sizes'[Tgid[u]] # None)
               /\ pc'[u] = "exit_lookup" /\ addr'[u] \in Addr /\ InRange(heap'[addr'[u]].size) =>
                    sizes'[Tgid[u]] # None
               /\ pc'[u] \in AddLabel => allocs'[addr'[u]] # None
    <3>1. /\ pc'[u] = pc[u] /\ addr'[u] = addr[u] /\ call'[u] = call[u]
          /\ sizes'[Tgid[u]] = sizes[Tgid[u]]
      BY <1>1, <1>2 DEF Effect, SizeEffect
    <3>2. SizeArg(u)' = SizeArg(u)
      BY <3>1 DEF SizeArg
    <3>3. pc[u] \in AddLabel => allocs'[addr[u]] # None
      BY <1>2, <1>4 DEF Noted, AddLabel
    <3> QED BY <1>1, <3>1, <3>2, <3>3 DEF Noted
  <2>2. ASSUME pc'[t] = "heap", call'[t].fn \in RecordingFn
        PROVE  call'[t].ret /\ (InRange(SizeArg(t)') => sizes'[Tgid[t]] # None)
    <3>1. /\ pc[t] \in FreeLabel \cup {"enter"} /\ call'[t] = call[t]
          /\ pc[t] \in FreeLabel => AfterFree(call[t].fn) = "heap"
      BY <1>1, <1>2, <2>2 DEF Effect, SizeEffect, AfterEnter, AddLabel, FreeLabel
    <3>2. pc[t] = "enter"
      BY <2>2, <3>1 DEF Releasing, AfterFree, RecordingFn
    <3>3. call[t].ret
      BY <1>2, <3>2 DEF SizeInv, SizePath, Paired
    <3>4. SizeArg(t)' = SizeArg(t)
      BY <3>1 DEF SizeArg
    <3>5. ASSUME InRange(SizeArg(t)), sizes'[Tgid[t]] = None PROVE FALSE
      <4>1. PICK now \in Clock : Filtered(t, now)
        BY <1>1, <1>3, <3>2, <3>5 DEF SizeEffect, AddLabel, FreeLabel
      <4>2. SizeArg(t) \in Int /\ MinSize \in Int /\ MaxSize \in Int /\ SampleRate \in Int
        <5>1. call[t].req \in Nat
          BY DEF TypeInv, TypeOK, BpfTypeOK, ThreadsTyped, Calls
        <5> QED BY <5>1, WordModPositive, BpfAssumption, SMT DEF SizeArg
      <4> QED BY <3>5, <4>1, <4>2 DEF Filtered, InRange, NothingSkipped
    <3> QED BY <3>1, <3>3, <3>4, <3>5
  <2>3. pc'[t] # "exit_lookup"
    BY <1>1, <1>2 DEF SizeEffect, AfterEnter, AfterFree, AddLabel, FreeLabel
  <2>4. pc'[t] \in AddLabel => allocs'[addr'[t]] # None
    <3> SUFFICES ASSUME pc'[t] \in AddLabel PROVE allocs'[addr'[t]] # None
      OBVIOUS
    <3>1. /\ pc[t] \in AddLabel \cup {"exit_put"} /\ addr'[t] = addr[t]
          /\ pc[t] \in AddLabel => allocs' = allocs
          /\ pc[t] = "exit_put" => allocs'[addr[t]] # None
      BY <1>1, <1>2, <1>3 DEF Effect, SizeEffect, AfterEnter, AfterFree, AddLabel, FreeLabel
    <3> QED BY <3>1 DEF Noted
  <2> QED BY <2>1, <2>2, <2>3, <2>4 DEF Noted
<1>6. LeaksRecorded'
  <2> SUFFICES ASSUME NEW a \in Addr, heap[a] # None, InRange(heap[a].size),
                      \A u \in Thread : pc'[u] = "run" \/ addr'[u] # a
               PROVE  allocs'[a] # None
    BY <1>1 DEF LeaksRecorded, Busy, Live, At, InRange
  <2>1. CASE pc[t] # "run" /\ addr[t] = a
    <3>1. pc'[t] = "run"
      BY <1>1, <2>1 DEF Effect
    <3>2. \/ pc[t] = "exit_lookup" /\ sizes[Tgid[t]] = None
          \/ pc[t] = "exit_del" /\ addr[t] = NULL
          \/ pc[t] \in AddLabel /\ allocs' = allocs
      BY <1>1, <1>2, <3>1 DEF SizeEffect, AfterEnter, AfterFree, AddLabel, FreeLabel
    <3> QED BY <1>2, <2>1, <3>2 DEF Noted
  <2>2. CASE ~(pc[t] # "run" /\ addr[t] = a)
    <3>1. ~Busy(a) /\ a # addr[t]
      BY <1>1, <2>2 DEF Effect, Busy, At
    <3> QED BY <1>1, <3>1 DEF Effect, LeaksRecorded, Live
  <2> QED BY <2>1, <2>2
<1> QED BY <1>5, <1>6

LEMMA C_ProgramMove ==
  ASSUME AllProbed, TypeInv, SizeInv, CompleteInv, NEW t \in Thread, NEW l, NEW c, NEW ptr,
         ProgramMove(t, l, c, ptr)
  PROVE  Noted' /\ LeaksRecorded'
<1>1. /\ pc[t] = "run" /\ pc'[t] = l /\ call'[t] = c /\ addr'[t] = ptr
      /\ l \in {"enter", "free_lookup", "heap"}
      /\ \A u \in Thread \ {t} : /\ pc'[u] = pc[u] /\ addr'[u] = addr[u]
                                 /\ call'[u] = call[u]
      /\ UNCHANGED <<sizes, allocs, heap>>
  BY DEF TypeInv, TypeOK, BpfTypeOK, ThreadsTyped, ProgramMove, Outside, mapVars
<1>2. c.fn \in RecordingFn => l # "heap"
  <2>1. c.fn \in RecordingFn => <<c.fn, "enter">> \in attached
    BY DEF ProgramMove, AllProbed, SizeInv
  <2> QED BY <2>1 DEF ProgramMove
<1>3. \A u \in Thread \ {t} : SizeArg(u)' = SizeArg(u)
  BY <1>1 DEF SizeArg
<1> USE DEF CompleteInv
<1>4. Noted'
  BY <1>1, <1>2, <1>3 DEF Noted, AddLabel, InRange
<1>5. LeaksRecorded'
  <2> SUFFICES ASSUME NEW a \in Addr, heap[a] # None, InRange(heap[a].size),
                      \A u \in Thread : pc'[u] = "run" \/ addr'[u] # a
               PROVE  allocs[a] # None
    BY <1>1 DEF LeaksRecorded, Busy, Live, At, InRange
  <2>1. ~Busy(a)
    BY <1>1 DEF Busy, At
  <2> QED BY <2>1 DEF LeaksRecorded, Live
<1> QED BY <1>4, <1>5

\* What the C library returns is on its way to an entry; what it does not
\* return any more is dead.
LEMMA C_HeapMove ==
  ASSUME "realloc" \notin OomFn, TypeInv, OwnInv, SizeInv, CompleteInv, NEW t \in Thread,
         NEW l, NEW c, NEW ret, HeapMove(t, l, c, ret)
  PROVE  Noted' /\ LeaksRecorded'
<1>1. /\ pc[t] = "heap" /\ ret \in Addr \cup {NULL} /\ NULL \notin Addr
      /\ \A u \in Thread \ {t} : /\ pc'[u] = pc[u] /\ addr'[u] = addr[u]
                                 /\ call'[u] = call[u]
      /\ pc'[t] \in {"run", "exit_lookup"}
      /\ pc'[t] = "exit_lookup" => addr'[t] = ret
      /\ \A a \in Addr \ {addr[t], ret} : heap'[a] = heap[a]
      /\ ret \in Addr => ret = addr[t] \/ heap[ret] = None
      /\ UNCHANGED <<sizes, allocs>>
  BY BpfAssumption DEF TypeInv, TypeOK, BpfTypeOK, ThreadsTyped, HeapMove, Outside, mapVars
<1>2. ASSUME NEW u \in Thread \ {t}, pc[u] # "run", addr[u] \in Addr
      PROVE  heap'[addr[u]] = heap[addr[u]]
  <2>1. addr[u] # addr[t] /\ heap[addr[u]] # None
    BY <1>1, <1>2 DEF OwnInv, Exclusive, Owned, At, Live
  <2> QED BY <1>1, <1>2, <2>1
<1>3. ASSUME ret \in Addr
      PROVE  /\ pc'[t] = "exit_lookup" /\ heap'[ret].size = SizeArg(t)
             /\ InRange(SizeArg(t)) => sizes[Tgid[t]] # None
  <2>1. call[t].fn \in RecordingFn
    BY <1>3 DEF HeapMove
  <2>2. call[t].ret /\ (InRange(SizeArg(t)) => sizes[Tgid[t]] # None)
    BY <1>1, <2>1 DEF CompleteInv, Noted
  <2>3. pc'[t] = "exit_lookup"
    BY <1>1, <2>1, <2>2 DEF HeapMove, Outside, TypeInv, TypeOK, BpfTypeOK, ThreadsTyped
  <2>4. heap'[ret].size = SizeArg(t)
    BY <1>3, ReturnedSize DEF SizeInv, SizePath
  <2> QED BY <2>2, <2>3, <2>4
<1> USE DEF CompleteInv
<1>4. Noted'
  <2>1. ASSUME NEW u \in Thread \ {t}
        PROVE  /\ pc'[u] = "heap" /\ call'[u].fn \in RecordingFn =>
                    call'[u].ret /\ (InRange(SizeArg(u)') => sizes'[Tgid[u]] # None)
               /\ pc'[u] = "exit_lookup" /\ addr'[u] \in Addr /\ InRange(heap'[addr'[u]].size) =>
                    sizes'[Tgid[u]] # None
               /\ pc'[u] \in AddLabel => allocs'[addr'[u]] # None
    <3>1. SizeArg(u)' = SizeArg(u)
      BY <1>1 DEF SizeArg
    <3>2. pc[u] = "exit_lookup" /\ addr[u] \in Addr => heap'[addr[u]] = heap[addr[u]]
      BY <1>2
    <3> QED BY <1>1, <3>1, <3>2 DEF Noted
  <2>2. /\ pc'[t] \notin AddLabel \cup {"heap"}
        /\ pc'[t] = "exit_lookup" /\ addr'[t] \in Addr /\ InRange(heap'[addr'[t]].size) =>
             sizes'[Tgid[t]] # None
    BY <1>1, <1>3 DEF AddLabel
  <2> QED BY <2>1, <2>2 DEF Noted
<1>5. LeaksRecorded'
  <2> SUFFICES ASSUME NEW a \in Addr, heap'[a] # None, InRange(heap'[a].size),
                      \A u \in Thread : pc'[u] = "run" \/ addr'[u] # a
               PROVE  allocs[a] # None
    BY <1>1 DEF LeaksRecorded, Busy, Live, At, InRange
  <2>1. a # ret
    BY <1>1, <1>3
  <2>2. a # addr[t]
    <3> SUFFICES ASSUME a = addr[t] PROVE FALSE
      OBVIOUS
    <3>1. CannotGrow(t)
      BY <2>1 DEF HeapMove
    <3>2. call[t].fn = "realloc"
      BY <1>1, <3>1 DEF Releasing, CannotGrow, AllocFn
    <3>3. call[t].req \in Word /\ call[t].req >= WordMod
      BY <3>1, <3>2 DEF CannotGrow, SizeInv, SizePath, FitsWord
    <3> QED BY <3>3, WordModPositive, SMT DEF Word
  <2>3. ~Busy(a) /\ heap'[a] = heap[a]
    BY <1>1, <2>1, <2>2 DEF Busy, At
  <2> QED BY <2>3 DEF LeaksRecorded, Live
<1> QED BY <1>4, <1>5

LEMMA CompleteInvStep ==
  ASSUME OneThread, NothingSkipped, RoomInSizes, RoomInAllocs, AllProbed,
         "realloc" \notin OomFn, TypeInv, OwnInv, SizeInv, CompleteInv, [Next]_userVars
  PROVE  CompleteInv'
<1>0. Releasing'
  BY ReleasingStep DEF CompleteInv, SizeInv, SizePath
<1>1. ASSUME UNCHANGED <<bpfVars, heap>> PROVE Noted' /\ LeaksRecorded'
  BY <1>1 DEF CompleteInv, Noted, Releasing, LeaksRecorded, Busy, InRange, SizeArg, At, Live,
              bpfVars, mapVars
<1>2. ASSUME NEW t \in Thread, ProgramStep(t) PROVE Noted' /\ LeaksRecorded'
  BY <1>2, M_ProgramStep, C_ProgramMove
<1>3. ASSUME NEW t \in Thread, HeapStep(t) PROVE Noted' /\ LeaksRecorded'
  BY <1>3, M_HeapStep, C_HeapMove
<1>4. ASSUME NEW t \in Thread, UserHandlerStep(t) PROVE Noted' /\ LeaksRecorded'
  BY <1>4, C_HandlerStep
<1> QED BY <1>0, <1>1, <1>2, <1>3, <1>4 DEF Next, AttachNext, userVars, CompleteInv

\* No missed leak: a program with one thread per process whose allocation
\* functions are all probed, not sampled and of the traced process, with room
\* in sizes for every process and in allocs for every block, and whose realloc
\* does not run out of memory, has an entry for every live block in the size
\* range that no call is working on (memleak.bpf.c:97-152, 159-177).  The run
\* realloc_failure shows that the last hypothesis is needed.
THEOREM LeaksRecordedTheorem ==
  ASSUME OneThread, ProbedInPairs, AllProbed, NothingSkipped, RoomInSizes,
         RoomInAllocs, "realloc" \notin OomFn
  PROVE  Spec => []LeaksRecorded
<1>1. Init => CompleteInv
  BY BpfAssumption DEF Init, BpfInit, CompleteInv, Noted, Releasing, LeaksRecorded, Live,
                       FreeLabel, AddLabel
<1>2. TypeInv /\ OwnInv /\ SizeInv /\ CompleteInv /\ [Next]_userVars => CompleteInv'
  BY CompleteInvStep
<1>3. CompleteInv => LeaksRecorded
  BY DEF CompleteInv
<1> QED BY <1>1, <1>2, <1>3, SizeInvAlways, PTL DEF Spec

-----------------------------------------------------------------------------
(* What can make the statistics inexact.  A block that is about to be      *)
(* stored has no entry, so no entry is ever overwritten; with room for     *)
(* every block nothing is left but the reuse of an element under a reader, *)
(* which takes two threads.                                                *)

StoreLabel ==
  {"exit_lookup", "exit_read", "exit_del", "exit_stack", "exit_bucket", "exit_put"}

Fresh ==
  \A t \in Thread : pc[t] \in StoreLabel /\ addr[t] \in Addr => allocs[addr[t]] = None

FreshInv == WindowClosed /\ NoFalseLeak /\ NotKernel /\ Releasing /\ Fresh

LEMMA FreshStep ==
  ASSUME TypeInv, OwnInv, FreshInv, [Next]_userVars PROVE FreshInv'
<1>0. WindowClosed' /\ NoFalseLeak' /\ NotKernel' /\ Releasing'
  BY WindowStep, LeakInvStep, ReleasingStep DEF FreshInv
<1>1. /\ pc \in [Thread -> Label] /\ addr \in [Thread -> Addr \cup {NULL}]
      /\ NULL \notin Addr
  BY BpfAssumption DEF TypeInv, TypeOK, BpfTypeOK, ThreadsTyped
<1> USE DEF FreshInv
<1>2. ASSUME UNCHANGED <<bpfVars, heap>> PROVE Fresh'
  BY <1>2 DEF Fresh, bpfVars, mapVars
<1>3. ASSUME NEW t \in Thread, ProgramStep(t) PROVE Fresh'
  <2>1. PICK l, c, ptr : ProgramMove(t, l, c, ptr)
    BY <1>3, M_ProgramStep
  <2> QED BY <1>1, <2>1 DEF ProgramMove, Outside, mapVars, Fresh, StoreLabel
<1>4. ASSUME NEW t \in Thread, HeapStep(t) PROVE Fresh'
  <2>1. PICK l, c, ret : HeapMove(t, l, c, ret)
    BY <1>4, M_HeapStep
  <2>2. ASSUME ret \in Addr PROVE allocs[ret] = None
    <3>1. CASE ret = addr[t]
      <4>1. call[t].enter
        BY <2>1, <2>2, <3>1 DEF HeapMove, Releasing, WindowClosed
      <4> QED BY <2>1, <2>2, <3>1, <4>1 DEF HeapMove, OwnInv, Forgotten, ForgetLabel
    <3>2. CASE heap[ret] = None
      BY <2>2, <3>2 DEF NoFalseLeak, Live
    <3> QED BY <2>1, <2>2, <3>1, <3>2 DEF HeapMove
  <2>3. /\ pc'[t] \in {"run", "exit_lookup"}
        /\ pc'[t] = "exit_lookup" => addr'[t] = ret
        /\ \A u \in Thread \ {t} : pc'[u] = pc[u] /\ addr'[u] = addr[u]
        /\ UNCHANGED allocs
    BY <1>1, <2>1 DEF HeapMove, Outside, mapVars
  <2> QED BY <2>2, <2>3 DEF Fresh, StoreLabel
<1>5. ASSUME NEW t \in Thread, UserHandlerStep(t) PROVE Fresh'
  <2>1. Effect(t) /\ SizeEffect(t) /\ call[t].fn # "kalloc"
    BY <1>5, HandlerEffect, HandlerSizeEffect DEF UserHandlerStep, TypeInv, NotKernel
  <2>2. ASSUME pc'[t] \in StoreLabel, addr'[t] \in Addr PROVE allocs'[addr'[t]] = None
    <3>1. pc[t] \in StoreLabel /\ addr'[t] = addr[t] /\ UNCHANGED allocs
      BY <2>1, <2>2 DEF Effect, SizeEffect, AfterEnter, AfterFree, AddLabel, FreeLabel, StoreLabel
    <3> QED BY <2>2, <3>1 DEF Fresh
  <2>3. ASSUME NEW u \in Thread \ {t}, pc'[u] \in StoreLabel, addr'[u] \in Addr
        PROVE  allocs'[addr'[u]] = None
    <3>1. pc[u] \in StoreLabel /\ addr'[u] = addr[u] /\ addr[u] # addr[t]
      BY <1>1, <2>1, <2>3 DEF Effect, OwnInv, Exclusive, At, StoreLabel
    <3> QED BY <2>1, <2>3, <3>1 DEF Effect, Fresh
  <2> QED BY <2>2, <2>3 DEF Fresh
<1>6. Fresh'
  BY <1>2, <1>3, <1>4, <1>5 DEF Next, AttachNext, userVars
<1> QED BY <1>0, <1>6

LEMMA FreshAlways ==
  ASSUME FreeProbes \subseteq InitAttached PROVE Spec => [](TypeInv /\ OwnInv /\ FreshInv)
<1>1. Init => FreshInv
  BY LeakInvInit, BpfAssumption
     DEF Init, BpfInit, FreshInv, NotKernel, Releasing, Fresh, NoCall, FreeLabel, StoreLabel
<1>2. TypeInv /\ OwnInv /\ FreshInv /\ [Next]_userVars => FreshInv'
  BY FreshStep
<1> QED BY <1>1, <1>2, OwnInvAlways, PTL DEF Spec

\* What a step adds to drift.
LEMMA DriftStep ==
  ASSUME RoomInAllocs, TypeInv, FreshInv, [Next]_userVars
  PROVE  \/ drift' = drift
         \/ /\ drift' \subseteq drift \cup {"reuse"}
            /\ \E t, u \in Thread : t # u
<1>1. CASE UNCHANGED <<bpfVars, heap>>
  BY <1>1 DEF bpfVars
<1>2. ASSUME NEW t \in Thread, ProgramStep(t) PROVE drift' = drift
  BY <1>2, M_ProgramStep DEF ProgramMove, Outside
<1>3. ASSUME NEW t \in Thread, HeapStep(t) PROVE drift' = drift
  BY <1>3, M_HeapStep DEF HeapMove, Outside
<1>4. ASSUME NEW t \in Thread, exit_put(t)
      PROVE  \/ drift' = drift
             \/ /\ drift' \subseteq drift \cup {"reuse"}
                /\ \E v, u \in Thread : v # u
  <2>1. pc[t] = "exit_put" /\ addr[t] \in Addr /\ allocs[addr[t]] = None
    BY <1>4 DEF exit_put, At, TypeInv, BpfTypeInv, Registers, FreshInv, Fresh, StoreLabel
  <2>2. HasRoom(allocs, addr[t], AllocsMax)
    <3>1. DOMAIN allocs = Addr
      BY DEF TypeInv, TypeOK, BpfTypeOK, MapsTyped
    <3> QED BY <2>1, <3>1, RoomLemma DEF RoomInAllocs
  <2>3. PICK e \in Unused(allocs, AllocsElem) :
          drift' = drift \cup {x \in {"reuse"} : BeingRead(e)}
                         \cup {x \in {"replaced"} : allocs[addr[t]] # None}
    BY <1>4, <2>2 DEF exit_put
  <2>4. drift' = drift \cup {x \in {"reuse"} : BeingRead(e)}
    BY <2>1, <2>3
  <2>5. CASE BeingRead(e)
    <3>1. PICK u \in Thread : pc[u] \in {"free_size", "free_stack"}
      BY <2>5 DEF BeingRead
    <3>2. u # t
      BY <2>1, <3>1
    <3> QED BY <2>4, <3>2
  <2>6. CASE ~BeingRead(e)
    BY <2>4, <2>6
  <2> QED BY <2>5, <2>6
<1>5. ASSUME NEW t \in Thread, UserHandlerStep(t), ~exit_put(t) PROVE drift' = drift
  BY <1>5 DEF UserHandlerStep, HandlerStep, gen_alloc_enter, gen_alloc_exit2, gen_free_enter,
              exit_lookup, exit_read, exit_del, exit_stack, exit_bucket, add_lookup, add_init,
              add, free_lookup, free_del, free_size, free_stack, del_lookup, del
<1>6. CASE AttachNext \/ UNCHANGED userVars
  BY <1>1, <1>6 DEF AttachNext, userVars
<1> QED BY <1>2, <1>3, <1>4, <1>5, <1>6 DEF Next

\* With room in allocs for every block and the removing probes in place, the
\* only thing that ever makes the statistics inexact is free_enter's read of
\* an element it has deleted and another CPU has reused (memleak.bpf.c:167-168);
\* an entry is never overwritten.
THEOREM OnlyReuseDriftsTheorem ==
  ASSUME FreeProbes \subseteq InitAttached, RoomInAllocs
  PROVE  Spec => [](drift \subseteq {"reuse"})
<1>1. Init => drift \subseteq {"reuse"}
  BY DEF Init, BpfInit
<1>2. /\ TypeInv /\ FreshInv /\ [Next]_userVars /\ drift \subseteq {"reuse"}
      => (drift \subseteq {"reuse"})'
  BY DriftStep
<1> QED BY <1>1, <1>2, FreshAlways, PTL DEF Spec

\* A program with a single thread has exact statistics without any proviso:
\* combined_allocs is the aggregate of allocs by stack id whenever the thread
\* is in no traced function (memleak.bpf.c:61-95), through every overflow and
\* with a combined_allocs of any capacity.
THEOREM SingleThreadAggregates ==
  ASSUME FreeProbes \subseteq InitAttached, RoomInAllocs, \A t, u \in Thread : t = u
  PROVE  Spec => []AggregatesAllocs
<1>1. Init => drift = {}
  BY DEF Init, BpfInit
<1>2. TypeInv /\ FreshInv /\ [Next]_userVars /\ drift = {} => (drift = {})'
  BY DriftStep
<1>3. Spec => [](drift = {})
  BY <1>1, <1>2, FreshAlways, PTL DEF Spec
<1> QED BY <1>3, AggregatesTheorem, PTL

\* When everything is freed nothing is reported: if the removing probes were in
\* place from the start and the statistics are exact, every word is zero once
\* no block is live and no thread is in a traced function.  The run allocs_full
\* shows what a full allocs does to it.
THEOREM NothingOutstandingTheorem ==
  ASSUME FreeProbes \subseteq InitAttached
  PROVE  Spec => [](drift = {} => NothingOutstanding)
<1>1. ASSUME TypeInv, NoFalseLeak, AggregatesAllocs PROVE NothingOutstanding
  <2> SUFFICES ASSUME \A a \in Addr : ~Live(a), \A t \in Thread : At(t, "run"),
                      NEW s \in StackId, combined[s] # None
               PROVE  combined[s] = 0
    BY DEF NothingOutstanding
  <2>1. \A a \in Addr : allocs[a] = None
    BY <1>1 DEF NoFalseLeak
  <2>2. Present(allocs) = {}
    BY <1>1, <2>1 DEF Present, TypeInv, TypeOK, BpfTypeOK, MapsTyped
  <2>3. Outstanding(s) = {}
    BY <2>2 DEF Outstanding
  <2> QED BY <1>1, <2>3, PackedEmpty DEF AggregatesAllocs
<1> QED BY <1>1, NoFalseLeakTheorem, AggregatesTheorem, TypeInvAlways, PTL

=============================================================================
