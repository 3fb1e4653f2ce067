-------------------------- MODULE MemleakBpfProofs --------------------------
(***************************************************************************)
(* Theorems about the handlers of MemleakBpf: types, what a step may do to *)
(* the index of allocs, and the statistics.  They hold for whatever starts *)
(* the handlers; UserHeapProofs and KernelHeapProofs complete them for the *)
(* two modes of the tracer.                                                *)
(***************************************************************************)
EXTENDS MemleakBpf, CombinedAllocInfoProofs

-----------------------------------------------------------------------------
(* Type correctness.  What a step reads is typed only because of where the *)
(* thread is and how it came there: the inductive invariant ties the       *)
(* handler's registers to its program counter.                             *)

\* The entries of allocs carry a stack id.
EntriesTyped == \A a \in Addr : allocs[a] # None => Entry(a).stack \in StackId

BpfTypeInv == BpfTypeOK /\ (\A t \in Thread : Registers(t)) /\ EntriesTyped

\* What Return and EndFree leave in the registers is well typed.
LEMMA ReturnTyped ==
  ASSUME ThreadsTyped, NEW t \in Thread, Return(t) PROVE ThreadsTyped'
<1>1. NoInfo \in Infos
  BY WordFacts DEF NoInfo, Infos
<1>2. NoCall \in Calls
  BY DEF NoCall, Calls
<1> QED BY <1>1, <1>2 DEF ThreadsTyped, Return, Goto, Label

LEMMA EndFreeTyped ==
  ASSUME ThreadsTyped, NEW t \in Thread, EndFree(t) PROVE ThreadsTyped'
<1>1. NoInfo \in Infos
  BY WordFacts DEF NoInfo, Infos
<1> QED BY <1>1 DEF ThreadsTyped, EndFree, AfterFree, Goto, Label

(* One lemma per step of a handler.                                        *)

LEMMA T_gen_alloc_enter ==
  ASSUME BpfTypeInv, NEW t \in Thread, gen_alloc_enter(t) PROVE BpfTypeInv'
<1> USE WordFacts, BpfAssumption DEF BpfTypeInv, gen_alloc_enter, At, Goto, AfterEnter, mapVars
<1>1. MapsTyped'
  <2>1. CASE UNCHANGED <<sizes, sizesData>>
    BY <2>1 DEF BpfTypeOK, MapsTyped
  <2>2. CASE \E e \in SizesElem :
               /\ sizes' = [sizes EXCEPT ![Tgid[t]] = e]
               /\ sizesData' = [sizesData EXCEPT ![e] = SizeArg(t)]
    <3>1. SizeArg(t) \in Word
      BY ModWord DEF BpfTypeOK, ThreadsTyped, SizeArg, Calls
    <3> QED BY <2>2, <3>1 DEF BpfTypeOK, MapsTyped
  <2> QED BY <2>1, <2>2 DEF Unused
<1>2. ThreadsTyped'
  BY DEF BpfTypeOK, MapsTyped, ThreadsTyped, Registers, Label, RecordingFn
<1>3. \A u \in Thread : Registers(u)'
  BY DEF BpfTypeOK, MapsTyped, ThreadsTyped, RecordingFn, Registers, ExitLabel
<1>4. EntriesTyped'
  BY DEF BpfTypeOK, MapsTyped, ThreadsTyped, EntriesTyped, Entry, Registers
<1> QED BY <1>1, <1>2, <1>3, <1>4 DEF BpfTypeOK

LEMMA T_exit_lookup ==
  ASSUME BpfTypeInv, NEW t \in Thread, exit_lookup(t) PROVE BpfTypeInv'
<1> USE WordFacts, BpfAssumption DEF BpfTypeInv, exit_lookup, At, Goto, mapVars
<1>1. MapsTyped'
  BY DEF BpfTypeOK, MapsTyped, ThreadsTyped, Registers, ExitLabel
<1>2. ThreadsTyped'
  <2>1. CASE Return(t)
    BY <2>1, ReturnTyped DEF BpfTypeOK
  <2>2. CASE ~Return(t)
    <3>1. sizes[Tgid[t]] \in SizesElem
      BY <2>2 DEF BpfTypeOK, MapsTyped
    <3> QED BY <2>2, <3>1 DEF BpfTypeOK, ThreadsTyped, Label
  <2> QED BY <2>1, <2>2
<1>3. \A u \in Thread : Registers(u)'
  BY DEF BpfTypeOK, MapsTyped, ThreadsTyped, RecordingFn, Registers, ExitLabel, Return, NoCall
<1>4. EntriesTyped'
  BY DEF BpfTypeOK, MapsTyped, ThreadsTyped, EntriesTyped, Entry, Registers
<1> QED BY <1>1, <1>2, <1>3, <1>4 DEF BpfTypeOK

LEMMA T_exit_read ==
  ASSUME BpfTypeInv, NEW t \in Thread, exit_read(t) PROVE BpfTypeInv'
<1> USE WordFacts DEF BpfTypeInv, exit_read, At, Goto, mapVars
<1>1. MapsTyped'
  BY DEF BpfTypeOK, MapsTyped, ThreadsTyped, Registers, ExitLabel
<1>2. ThreadsTyped'
  BY DEF BpfTypeOK, MapsTyped, ThreadsTyped, Registers, Label, RecordingFn, Infos
<1>3. \A u \in Thread : Registers(u)'
  BY DEF BpfTypeOK, MapsTyped, ThreadsTyped, RecordingFn, Registers, ExitLabel
<1>4. EntriesTyped'
  BY DEF BpfTypeOK, MapsTyped, ThreadsTyped, EntriesTyped, Entry, Registers
<1> QED BY <1>1, <1>2, <1>3, <1>4 DEF BpfTypeOK

LEMMA T_exit_del ==
  ASSUME BpfTypeInv, NEW t \in Thread, exit_del(t) PROVE BpfTypeInv'
<1> USE WordFacts, BpfAssumption DEF BpfTypeInv, exit_del, At, Goto, mapVars
<1>1. MapsTyped'
  BY DEF BpfTypeOK, MapsTyped, ThreadsTyped, Registers, ExitLabel
<1>2. ThreadsTyped'
  <2>1. CASE Return(t)
    BY <2>1, ReturnTyped DEF BpfTypeOK
  <2>2. CASE ~Return(t)
    BY <2>2 DEF BpfTypeOK, ThreadsTyped, Label
  <2> QED BY <2>1, <2>2
<1>3. \A u \in Thread : Registers(u)'
  BY DEF BpfTypeOK, MapsTyped, ThreadsTyped, RecordingFn, Registers, ExitLabel, Return, NoCall
<1>4. EntriesTyped'
  BY DEF BpfTypeOK, MapsTyped, ThreadsTyped, EntriesTyped, Entry, Registers
<1> QED BY <1>1, <1>2, <1>3, <1>4 DEF BpfTypeOK

LEMMA T_exit_stack ==
  ASSUME BpfTypeInv, NEW t \in Thread, exit_stack(t) PROVE BpfTypeInv'
<1> USE WordFacts, BpfAssumption DEF BpfTypeInv, exit_stack, WithStack, At, Goto, mapVars
<1>0. PICK id \in StackId : UNCHANGED info \/ WithStack(t, id)
  BY DEF BpfTypeOK, Registers, ExitLabel, StackId, Bucket
<1>1. MapsTyped'
  BY DEF BpfTypeOK, MapsTyped, ThreadsTyped, Registers, ExitLabel
<1>2. ThreadsTyped'
  BY <1>0 DEF BpfTypeOK, ThreadsTyped, Label, Infos
<1>3. \A u \in Thread : Registers(u)'
  BY <1>0 DEF BpfTypeOK, MapsTyped, ThreadsTyped, RecordingFn, Registers, ExitLabel, StackId, Bucket
<1>4. EntriesTyped'
  BY DEF BpfTypeOK, MapsTyped, ThreadsTyped, EntriesTyped, Entry, Registers
<1> QED BY <1>1, <1>2, <1>3, <1>4 DEF BpfTypeOK

LEMMA T_exit_bucket ==
  ASSUME BpfTypeInv, NEW t \in Thread, exit_bucket(t) PROVE BpfTypeInv'
<1>0. PICK b \in Bucket : b = StackHash[call[t].trace] /\ WithStack(t, b)
  <2>1. PICK tr \in Trace : tr = call[t].trace
    BY DEF BpfTypeInv, Registers, ExitLabel, exit_bucket, At
  <2>2. StackHash[tr] \in Bucket
    BY DEF Bucket
  <2> QED BY <2>1, <2>2 DEF exit_bucket
<1> USE WordFacts, BpfAssumption DEF BpfTypeInv, exit_bucket, WithStack, At, Goto, mapVars
<1>1. MapsTyped'
  BY <1>0 DEF BpfTypeOK, MapsTyped, ThreadsTyped, Registers, ExitLabel
<1>2. ThreadsTyped'
  BY <1>0 DEF BpfTypeOK, ThreadsTyped, Label, Infos, StackId
<1>3. \A u \in Thread : Registers(u)'
  BY <1>0 DEF BpfTypeOK, MapsTyped, ThreadsTyped, RecordingFn, Registers, ExitLabel, StackId
<1>4. EntriesTyped'
  BY DEF BpfTypeOK, MapsTyped, ThreadsTyped, EntriesTyped, Entry, Registers
<1> QED BY <1>1, <1>2, <1>3, <1>4 DEF BpfTypeOK

LEMMA T_exit_put ==
  ASSUME BpfTypeInv, NEW t \in Thread, exit_put(t) PROVE BpfTypeInv'
<1> USE WordFacts, BpfAssumption DEF BpfTypeInv, exit_put, At, Goto, mapVars
<1>0. \/ UNCHANGED <<allocs, allocsData>>
      \/ \E e \in AllocsElem :
           /\ allocs' = [allocs EXCEPT ![addr[t]] = e]
           /\ allocsData' = [allocsData EXCEPT ![e] = info[t]]
  BY DEF Unused
<1>1. MapsTyped'
  <2>1. info[t] \in Infos
    BY DEF BpfTypeOK, ThreadsTyped
  <2>2. addr[t] \in Addr
    BY DEF Registers
  <2> QED BY <1>0, <2>1, <2>2 DEF BpfTypeOK, MapsTyped
<1>2. ThreadsTyped'
  BY DEF BpfTypeOK, MapsTyped, ThreadsTyped, Registers, Label, RecordingFn
<1>3. \A u \in Thread : Registers(u)'
  <2>1. info[t].stack \in StackId
    BY DEF Registers
  <2>2. \A e \in AllocsElem : allocsData[e].stack \in StackId
                              => allocsData'[e].stack \in StackId
    BY <1>0, <2>1 DEF BpfTypeOK, MapsTyped
  <2>3. /\ pc' = [pc EXCEPT ![t] = "add_lookup"]
        /\ UNCHANGED <<combined, call, addr, elem, info>>
    OBVIOUS
  <2>4. pc[t] = "exit_put"
    OBVIOUS
  <2> HIDE DEF exit_put
  <2> QED BY <2>1, <2>2, <2>3, <2>4 DEF BpfTypeOK, ThreadsTyped, Registers, ExitLabel
<1>4. EntriesTyped'
  BY <1>0 DEF BpfTypeOK, MapsTyped, ThreadsTyped, EntriesTyped, Entry, Registers
<1>5. drift' \subseteq {"reuse", "full", "replaced"}
  <2>1. drift' \subseteq drift \cup {"reuse", "full", "replaced"}
    OBVIOUS
  <2> QED BY <2>1 DEF BpfTypeOK
<1> HIDE DEF exit_put
<1> QED BY <1>1, <1>2, <1>3, <1>4, <1>5 DEF BpfTypeOK

LEMMA T_add_lookup ==
  ASSUME BpfTypeInv, NEW t \in Thread, add_lookup(t) PROVE BpfTypeInv'
<1> USE WordFacts DEF BpfTypeInv, add_lookup, At, Goto, mapVars
<1>1. MapsTyped'
  BY DEF BpfTypeOK, MapsTyped, ThreadsTyped, Registers, ExitLabel
<1>2. ThreadsTyped'
  BY DEF BpfTypeOK, MapsTyped, ThreadsTyped, Registers, Label, RecordingFn
<1>3. \A u \in Thread : Registers(u)'
  BY DEF BpfTypeOK, MapsTyped, ThreadsTyped, RecordingFn, Registers, ExitLabel
<1>4. EntriesTyped'
  BY DEF BpfTypeOK, MapsTyped, ThreadsTyped, EntriesTyped, Entry, Registers
<1> QED BY <1>1, <1>2, <1>3, <1>4 DEF BpfTypeOK

LEMMA T_add_init ==
  ASSUME BpfTypeInv, NEW t \in Thread, add_init(t) PROVE BpfTypeInv'
<1> USE WordFacts, BpfAssumption DEF BpfTypeInv, add_init, At, Goto, mapVars
<1>1. MapsTyped'
  <2>1. UNCHANGED combined \/ combined' = [combined EXCEPT ![info[t].stack] = 0]
    OBVIOUS
  <2> QED BY <2>1 DEF BpfTypeOK, MapsTyped
<1>2. ThreadsTyped'
  <2>1. CASE Return(t)
    BY <2>1, ReturnTyped DEF BpfTypeOK
  <2>2. CASE ~Return(t)
    <3>1. Goto(t, "add") /\ UNCHANGED <<call, addr, elem, info>>
      BY <2>2
    <3> QED BY <3>1 DEF BpfTypeOK, ThreadsTyped, Label
  <2> QED BY <2>1, <2>2
<1>3. \A u \in Thread : Registers(u)'
  BY DEF BpfTypeOK, MapsTyped, ThreadsTyped, RecordingFn, Registers, ExitLabel, Return, NoCall
<1>4. EntriesTyped'
  BY DEF BpfTypeOK, MapsTyped, ThreadsTyped, EntriesTyped, Entry, Registers
<1> QED BY <1>1, <1>2, <1>3, <1>4 DEF BpfTypeOK

LEMMA T_add ==
  ASSUME BpfTypeInv, NEW t \in Thread, add(t) PROVE BpfTypeInv'
<1> USE WordFacts, BpfAssumption DEF BpfTypeInv, add, At, mapVars
<1>1. MapsTyped'
  BY DEF BpfTypeOK, MapsTyped, ThreadsTyped, Registers, ExitLabel, Infos
<1>2. ThreadsTyped'
  BY ReturnTyped DEF BpfTypeOK
<1>3. \A u \in Thread : Registers(u)'
  <2>1. \A s \in StackId : combined[s] # None => combined'[s] # None
    <3>1. info[t].stack \in StackId /\ combined[info[t].stack] # None
      BY DEF Registers
    <3>2. combined[info[t].stack] \in Word /\ info[t].size \in Word
      BY <3>1 DEF BpfTypeOK, MapsTyped, ThreadsTyped, Infos
    <3>3. FetchAdd(combined[info[t].stack], info[t].size) \in Word
      BY <3>2
    <3> QED BY <3>1, <3>3 DEF BpfTypeOK, MapsTyped
  <2>2. Registers(t)'
    <3>1. pc'[t] = "run" /\ call'[t] = NoCall
      BY DEF BpfTypeOK, ThreadsTyped, Return, Goto
    <3> QED BY <3>1 DEF Registers, ExitLabel, RecordingFn, NoCall
  <2>3. ASSUME NEW u \in Thread \ {t} PROVE Registers(u)'
    <3>1. /\ pc'[u] = pc[u] /\ elem'[u] = elem[u] /\ info'[u] = info[u]
          /\ call'[u] = call[u] /\ addr'[u] = addr[u] /\ UNCHANGED allocsData
      BY DEF BpfTypeOK, ThreadsTyped, Return, Goto
    <3> QED BY <2>1, <3>1 DEF Registers
  <2> QED BY <2>2, <2>3
<1>4. EntriesTyped'
  BY DEF BpfTypeOK, MapsTyped, ThreadsTyped, EntriesTyped, Entry, Registers
<1> QED BY <1>1, <1>2, <1>3, <1>4 DEF BpfTypeOK

LEMMA T_free_lookup ==
  ASSUME BpfTypeInv, NEW t \in Thread, free_lookup(t) PROVE BpfTypeInv'
<1> USE WordFacts, BpfAssumption DEF BpfTypeInv, free_lookup, At, mapVars
<1>1. MapsTyped'
  BY DEF BpfTypeOK, MapsTyped, ThreadsTyped, Registers, ExitLabel
<1>2. ThreadsTyped'
  <2>1. CASE EndFree(t)
    BY <2>1, EndFreeTyped DEF BpfTypeOK
  <2>2. CASE ~EndFree(t)
    <3>1. addr[t] \in Addr /\ allocs[addr[t]] \in AllocsElem
      BY <2>2 DEF BpfTypeOK, MapsTyped, Present
    <3> QED BY <2>2, <3>1 DEF BpfTypeOK, ThreadsTyped, Label, Goto
  <2> QED BY <2>1, <2>2
<1>3. \A u \in Thread : Registers(u)'
  <2>1. CASE EndFree(t)
    BY <2>1 DEF BpfTypeOK, MapsTyped, ThreadsTyped, RecordingFn, Registers, ExitLabel,
                EndFree, AfterFree, Goto
  <2>2. CASE ~EndFree(t)
    <3>1. addr[t] \in Addr /\ allocs[addr[t]] \in AllocsElem
      BY <2>2 DEF BpfTypeOK, MapsTyped, Present
    <3>2. allocsData[allocs[addr[t]]].stack \in StackId
      BY <3>1 DEF EntriesTyped, Entry
    <3> QED BY <2>2, <3>1, <3>2 DEF BpfTypeOK, MapsTyped, ThreadsTyped, RecordingFn,
                Registers, ExitLabel, Goto
  <2> QED BY <2>1, <2>2
<1>4. EntriesTyped'
  BY DEF BpfTypeOK, MapsTyped, ThreadsTyped, EntriesTyped, Entry, Registers
<1> QED BY <1>1, <1>2, <1>3, <1>4 DEF BpfTypeOK

LEMMA T_free_del ==
  ASSUME BpfTypeInv, NEW t \in Thread, free_del(t) PROVE BpfTypeInv'
<1> USE WordFacts DEF BpfTypeInv, free_del, At, Goto, mapVars
<1>1. MapsTyped'
  BY DEF BpfTypeOK, MapsTyped, ThreadsTyped, Registers, ExitLabel
<1>2. ThreadsTyped'
  BY DEF BpfTypeOK, MapsTyped, ThreadsTyped, Registers, Label, RecordingFn
<1>3. \A u \in Thread : Registers(u)'
  BY DEF BpfTypeOK, MapsTyped, ThreadsTyped, RecordingFn, Registers, ExitLabel
<1>4. EntriesTyped'
  BY DEF BpfTypeOK, MapsTyped, ThreadsTyped, EntriesTyped, Entry, Registers
<1> QED BY <1>1, <1>2, <1>3, <1>4 DEF BpfTypeOK

LEMMA T_free_size ==
  ASSUME BpfTypeInv, NEW t \in Thread, free_size(t) PROVE BpfTypeInv'
<1> USE WordFacts DEF BpfTypeInv, free_size, At, Goto, mapVars
<1>1. MapsTyped'
  BY DEF BpfTypeOK, MapsTyped, ThreadsTyped, Registers, ExitLabel
<1>2. ThreadsTyped'
  BY DEF BpfTypeOK, MapsTyped, ThreadsTyped, Registers, Label, RecordingFn, Infos
<1>3. \A u \in Thread : Registers(u)'
  BY DEF BpfTypeOK, MapsTyped, ThreadsTyped, RecordingFn, Registers, ExitLabel
<1>4. EntriesTyped'
  BY DEF BpfTypeOK, MapsTyped, ThreadsTyped, EntriesTyped, Entry, Registers
<1> QED BY <1>1, <1>2, <1>3, <1>4 DEF BpfTypeOK

LEMMA T_free_stack ==
  ASSUME BpfTypeInv, NEW t \in Thread, free_stack(t) PROVE BpfTypeInv'
<1> USE WordFacts DEF BpfTypeInv, free_stack, At, Goto, mapVars
<1>1. MapsTyped'
  BY DEF BpfTypeOK, MapsTyped, ThreadsTyped, Registers, ExitLabel
<1>2. ThreadsTyped'
  BY DEF BpfTypeOK, MapsTyped, ThreadsTyped, Registers, Label, RecordingFn, Infos
<1>3. \A u \in Thread : Registers(u)'
  BY DEF BpfTypeOK, MapsTyped, ThreadsTyped, RecordingFn, Registers, ExitLabel
<1>4. EntriesTyped'
  BY DEF BpfTypeOK, MapsTyped, ThreadsTyped, EntriesTyped, Entry, Registers
<1> QED BY <1>1, <1>2, <1>3, <1>4 DEF BpfTypeOK

LEMMA T_del_lookup ==
  ASSUME BpfTypeInv, NEW t \in Thread, del_lookup(t) PROVE BpfTypeInv'
<1> USE WordFacts DEF BpfTypeInv, del_lookup, At, mapVars
<1>1. MapsTyped'
  BY DEF BpfTypeOK, MapsTyped, ThreadsTyped, Registers, ExitLabel
<1>2. ThreadsTyped'
  <2>1. CASE EndFree(t)
    BY <2>1, EndFreeTyped DEF BpfTypeOK
  <2>2. CASE ~EndFree(t)
    BY <2>2 DEF BpfTypeOK, ThreadsTyped, Label, Goto
  <2> QED BY <2>1, <2>2
<1>3. \A u \in Thread : Registers(u)'
  BY DEF BpfTypeOK, MapsTyped, ThreadsTyped, RecordingFn, Registers, ExitLabel, EndFree, AfterFree, Goto
<1>4. EntriesTyped'
  BY DEF BpfTypeOK, MapsTyped, ThreadsTyped, EntriesTyped, Entry, Registers
<1> QED BY <1>1, <1>2, <1>3, <1>4 DEF BpfTypeOK

LEMMA T_del ==
  ASSUME BpfTypeInv, NEW t \in Thread, del(t) PROVE BpfTypeInv'
<1> USE WordFacts, BpfAssumption DEF BpfTypeInv, del, At, mapVars
<1>1. MapsTyped'
  BY DEF BpfTypeOK, MapsTyped, ThreadsTyped, Registers, ExitLabel, Infos
<1>2. ThreadsTyped'
  BY EndFreeTyped DEF BpfTypeOK
<1>3. \A u \in Thread : Registers(u)'
  <2>1. \A s \in StackId : combined[s] # None => combined'[s] # None
    <3>1. info[t].stack \in StackId /\ combined[info[t].stack] # None
      BY DEF Registers
    <3>2. combined[info[t].stack] \in Word /\ info[t].size \in Word
      BY <3>1 DEF BpfTypeOK, MapsTyped, ThreadsTyped, Infos
    <3>3. FetchSub(combined[info[t].stack], info[t].size) \in Word
      BY <3>2
    <3> QED BY <3>1, <3>3 DEF BpfTypeOK, MapsTyped
  <2>2. Registers(t)'
    <3>1. /\ pc'[t] \in {"enter", "heap"} /\ UNCHANGED <<call, addr>>
          /\ pc'[t] = "enter" => call[t].fn \in RecordingFn
      BY DEF BpfTypeOK, ThreadsTyped, RecordingFn, EndFree, AfterFree, Goto
    <3> QED BY <3>1 DEF Registers, ExitLabel
  <2>3. ASSUME NEW u \in Thread \ {t} PROVE Registers(u)'
    <3>1. /\ pc'[u] = pc[u] /\ elem'[u] = elem[u] /\ info'[u] = info[u]
          /\ UNCHANGED <<call, addr, allocsData>>
      BY DEF BpfTypeOK, ThreadsTyped, EndFree, Goto
    <3> QED BY <2>1, <3>1 DEF Registers
  <2> QED BY <2>2, <2>3
<1>4. EntriesTyped'
  BY DEF BpfTypeOK, MapsTyped, ThreadsTyped, EntriesTyped, Entry, Registers
<1> QED BY <1>1, <1>2, <1>3, <1>4 DEF BpfTypeOK

LEMMA T_HandlerStep ==
  ASSUME BpfTypeInv, NEW t \in Thread, HandlerStep(t) PROVE BpfTypeInv'
BY T_gen_alloc_enter, T_exit_lookup, T_exit_read, T_exit_del, T_exit_stack, T_exit_bucket,
   T_exit_put, T_add_lookup, T_add_init, T_add, T_free_lookup, T_free_del,
   T_free_size, T_free_stack, T_del_lookup, T_del
   DEF HandlerStep, gen_alloc_exit2, gen_free_enter

LEMMA T_Init == BpfInit => BpfTypeInv
<1> SUFFICES ASSUME BpfInit PROVE BpfTypeInv
  OBVIOUS
<1> USE WordFacts, BpfAssumption DEF BpfInit
<1>1. NoInfo \in Infos /\ NoCall \in Calls
  BY DEF NoInfo, NoCall, Infos, Calls
<1>2. MapsTyped
  BY <1>1 DEF MapsTyped
<1>3. ThreadsTyped
  BY <1>1 DEF ThreadsTyped, Label
<1>4. \A t \in Thread : Registers(t)
  BY DEF Registers, ExitLabel, NoCall, RecordingFn
<1>5. EntriesTyped
  BY DEF EntriesTyped
<1> QED BY <1>2, <1>3, <1>4, <1>5 DEF BpfTypeInv, BpfTypeOK

LEMMA T_Stutter == BpfTypeInv /\ UNCHANGED bpfVars => BpfTypeInv'
BY DEF BpfTypeInv, BpfTypeOK, MapsTyped, ThreadsTyped, Registers, EntriesTyped, Entry,
       bpfVars, mapVars

\* What the traced program and the allocator do to a thread: a handler of it
\* starts at l, or the thread waits for the allocator, or is back in the
\* program, with a new address and a new call.
EnvLabel == {"run", "heap", "enter", "free_lookup", "exit_lookup"}

Outside(t, l, c, a) ==
  /\ pc[t] \in {"run", "heap"}
  /\ pc' = [pc EXCEPT ![t] = l]
  /\ call' = [call EXCEPT ![t] = c]
  /\ addr' = [addr EXCEPT ![t] = a]
  /\ elem' \in {elem, [elem EXCEPT ![t] = None]}
  /\ info' \in {info, [info EXCEPT ![t] = NoInfo]}
  /\ UNCHANGED <<mapVars, drift>>

LEMMA T_Outside ==
  ASSUME BpfTypeInv, NEW t \in Thread, NEW l \in EnvLabel, NEW c \in Calls,
         NEW a \in Addr \cup {NULL}, Outside(t, l, c, a),
         c.fn \in RecordingFn => c.trace \in Trace,
         l \in {"enter", "exit_lookup"} => c.fn \in RecordingFn
  PROVE  BpfTypeInv'
<1> USE DEF BpfTypeInv, BpfTypeOK, Outside, mapVars
<1>1. MapsTyped'
  BY DEF MapsTyped
<1>2. ThreadsTyped'
  <2>1. NoInfo \in Infos
    BY WordFacts DEF NoInfo, Infos
  <2>2. pc' \in [Thread -> Label]
    BY DEF ThreadsTyped, EnvLabel, Label
  <2> QED BY <2>1, <2>2 DEF ThreadsTyped
<1>3. \A u \in Thread : Registers(u)'
  <2>1. Registers(t)'
    <3>1. pc'[t] = l /\ call'[t] = c
      BY DEF ThreadsTyped
    <3> QED BY <3>1 DEF Registers, EnvLabel, ExitLabel
  <2>2. ASSUME NEW u \in Thread \ {t} PROVE Registers(u)'
    <3>1. /\ pc'[u] = pc[u] /\ elem'[u] = elem[u] /\ info'[u] = info[u]
          /\ call'[u] = call[u] /\ addr'[u] = addr[u]
      BY DEF ThreadsTyped
    <3> QED BY <3>1 DEF Registers
  <2> QED BY <2>1, <2>2
<1>4. EntriesTyped'
  BY DEF EntriesTyped, Entry
<1> QED BY <1>1, <1>2, <1>3, <1>4

-----------------------------------------------------------------------------
(* Ownership.  What a step of a handler may do to the index of allocs: the *)
(* heap modules conclude from it that allocs holds live blocks.            *)

\* gen_free_enter is past its deletion, or over.
ForgetLabel == {"free_size", "free_stack", "del_lookup", "del", "enter", "heap"}

\* What a step of t's handler may do to the program counters, the calls, the
\* addresses and the index of allocs.
Effect(t) ==
  /\ pc[t] # "run"
  /\ \A u \in Thread \ {t} : pc'[u] = pc[u] /\ addr'[u] = addr[u] /\ call'[u] = call[u]
  /\ \/ pc'[t] = "run" /\ call'[t] = NoCall
     \/ pc'[t] # "run" /\ addr'[t] = addr[t] /\ call'[t] = call[t]
  /\ \A a \in Addr \ {addr[t]} : allocs'[a] = allocs[a]
  /\ addr[t] \in Addr =>
       /\ allocs'[addr[t]] \in {allocs[addr[t]], None} \/ pc[t] = "exit_put"
       /\ pc'[t] \in ForgetLabel =>
            \/ allocs'[addr[t]] = None
            \/ pc[t] \in ForgetLabel /\ allocs'[addr[t]] = allocs[addr[t]]

LEMMA E_gen_alloc_enter == ASSUME BpfTypeInv, NEW t \in Thread, gen_alloc_enter(t) PROVE Effect(t)
BY DEF BpfTypeInv, BpfTypeOK, MapsTyped, ThreadsTyped, Registers, ExitLabel, RecordingFn,
       Effect, ForgetLabel, gen_alloc_enter, At, Goto, mapVars, AfterEnter

LEMMA E_exit_lookup == ASSUME BpfTypeInv, NEW t \in Thread, exit_lookup(t) PROVE Effect(t)
BY DEF BpfTypeInv, BpfTypeOK, MapsTyped, ThreadsTyped, Registers, ExitLabel, RecordingFn,
       Effect, ForgetLabel, exit_lookup, At, Goto, mapVars, Return

LEMMA E_exit_read == ASSUME BpfTypeInv, NEW t \in Thread, exit_read(t) PROVE Effect(t)
BY DEF BpfTypeInv, BpfTypeOK, MapsTyped, ThreadsTyped, Registers, ExitLabel, RecordingFn,
       Effect, ForgetLabel, exit_read, At, Goto, mapVars

LEMMA E_exit_del == ASSUME BpfTypeInv, NEW t \in Thread, exit_del(t) PROVE Effect(t)
BY DEF BpfTypeInv, BpfTypeOK, MapsTyped, ThreadsTyped, Registers, ExitLabel, RecordingFn,
       Effect, ForgetLabel, exit_del, At, Goto, mapVars, Return

LEMMA E_exit_stack == ASSUME BpfTypeInv, NEW t \in Thread, exit_stack(t) PROVE Effect(t)
BY DEF BpfTypeInv, BpfTypeOK, MapsTyped, ThreadsTyped, Registers, ExitLabel, RecordingFn,
       Effect, ForgetLabel, exit_stack, WithStack, At, Goto, mapVars

LEMMA E_exit_bucket == ASSUME BpfTypeInv, NEW t \in Thread, exit_bucket(t) PROVE Effect(t)
BY DEF BpfTypeInv, BpfTypeOK, MapsTyped, ThreadsTyped, Registers, ExitLabel, RecordingFn,
       Effect, ForgetLabel, exit_bucket, WithStack, At, Goto

LEMMA E_exit_put == ASSUME BpfTypeInv, NEW t \in Thread, exit_put(t) PROVE Effect(t)
BY DEF BpfTypeInv, BpfTypeOK, MapsTyped, ThreadsTyped, Registers, ExitLabel, RecordingFn,
       Effect, ForgetLabel, exit_put, At, Goto, mapVars

LEMMA E_add_lookup == ASSUME BpfTypeInv, NEW t \in Thread, add_lookup(t) PROVE Effect(t)
BY DEF BpfTypeInv, BpfTypeOK, MapsTyped, ThreadsTyped, Registers, ExitLabel, RecordingFn,
       Effect, ForgetLabel, add_lookup, At, Goto, mapVars

LEMMA E_add_init == ASSUME BpfTypeInv, NEW t \in Thread, add_init(t) PROVE Effect(t)
BY DEF BpfTypeInv, BpfTypeOK, MapsTyped, ThreadsTyped, Registers, ExitLabel, RecordingFn,
       Effect, ForgetLabel, add_init, At, Goto, mapVars, Return

LEMMA E_add == ASSUME BpfTypeInv, NEW t \in Thread, add(t) PROVE Effect(t)
BY DEF BpfTypeInv, BpfTypeOK, MapsTyped, ThreadsTyped, Registers, ExitLabel, RecordingFn,
       Effect, ForgetLabel, add, At, Goto, mapVars, Return

LEMMA E_free_lookup == ASSUME BpfTypeInv, NEW t \in Thread, free_lookup(t) PROVE Effect(t)
BY DEF BpfTypeInv, BpfTypeOK, MapsTyped, ThreadsTyped, Registers, ExitLabel, RecordingFn,
       Effect, ForgetLabel, free_lookup, At, Goto, mapVars, EndFree, AfterFree, Present

LEMMA E_free_del == ASSUME BpfTypeInv, NEW t \in Thread, free_del(t) PROVE Effect(t)
<1> USE DEF BpfTypeInv, BpfTypeOK, free_del, At
<1>1. addr[t] \in Addr
  BY DEF Registers
<1>2. allocs'[addr[t]] = None
  BY <1>1 DEF MapsTyped
<1>3. \A a \in Addr \ {addr[t]} : allocs'[a] = allocs[a]
  BY <1>1 DEF MapsTyped
<1>4. /\ pc'[t] = "free_size" /\ UNCHANGED <<addr, call>>
      /\ \A u \in Thread \ {t} : pc'[u] = pc[u]
  BY DEF ThreadsTyped, Goto
<1> QED BY <1>2, <1>3, <1>4 DEF Effect

LEMMA E_free_size == ASSUME BpfTypeInv, NEW t \in Thread, free_size(t) PROVE Effect(t)
BY DEF BpfTypeInv, BpfTypeOK, MapsTyped, ThreadsTyped, Registers, ExitLabel, RecordingFn,
       Effect, ForgetLabel, free_size, At, Goto, mapVars

LEMMA E_free_stack == ASSUME BpfTypeInv, NEW t \in Thread, free_stack(t) PROVE Effect(t)
BY DEF BpfTypeInv, BpfTypeOK, MapsTyped, ThreadsTyped, Registers, ExitLabel, RecordingFn,
       Effect, ForgetLabel, free_stack, At, Goto, mapVars

LEMMA E_del_lookup == ASSUME BpfTypeInv, NEW t \in Thread, del_lookup(t) PROVE Effect(t)
BY DEF BpfTypeInv, BpfTypeOK, MapsTyped, ThreadsTyped, Registers, ExitLabel, RecordingFn,
       Effect, ForgetLabel, del_lookup, At, Goto, mapVars, EndFree, AfterFree

LEMMA E_del == ASSUME BpfTypeInv, NEW t \in Thread, del(t) PROVE Effect(t)
BY DEF BpfTypeInv, BpfTypeOK, MapsTyped, ThreadsTyped, Registers, ExitLabel, RecordingFn,
       Effect, ForgetLabel, del, At, Goto, mapVars, EndFree, AfterFree

LEMMA HandlerEffect ==
  ASSUME BpfTypeInv, NEW t \in Thread, HandlerStep(t) PROVE Effect(t)
BY E_gen_alloc_enter, E_exit_lookup, E_exit_read, E_exit_del, E_exit_stack, E_exit_bucket,
   E_exit_put, E_add_lookup, E_add_init, E_add, E_free_lookup, E_free_del,
   E_free_size, E_free_stack, E_del_lookup, E_del
   DEF HandlerStep, gen_alloc_exit2, gen_free_enter

-----------------------------------------------------------------------------
(* The statistics.  What a word accounts for has two parts: the entries    *)
(* that were added, and those that were deleted and not yet subtracted.    *)

FreeLabel == {"free_lookup", "free_del", "free_size", "free_stack", "del_lookup", "del"}

AddLabel == {"add_lookup", "add_init", "add"}

SettledAt(s) ==
  {<<a, Entry(a).size>> : a \in {x \in Settled : Entry(x).stack = s}}

PendingAt(s) ==
  {<<addr[t], PendingSize(t)>> :
     t \in {u \in Thread : Subtracting(u) /\ PendingStack(u) = s}}

LEMMA AccountedParts == \A s : Accounted(s) = SettledAt(s) \cup PendingAt(s)
BY DEF Accounted, SettledAt, PendingAt

LEMMA AccountedParts2 ==
  ASSUME NEW s PROVE Accounted(s)' = SettledAt(s)' \cup PendingAt(s)'
BY DEF Accounted, SettledAt, PendingAt

\* How the two parts change when an entry becomes settled or ceases to be, and
\* when a thread deletes an entry or has subtracted it.
LEMMA SettledSame ==
  ASSUME NEW s, Settled' = Settled, \A a \in Settled : Entry(a)' = Entry(a)
  PROVE  SettledAt(s)' = SettledAt(s)
BY DEF SettledAt

LEMMA SettledPlus ==
  ASSUME NEW s, NEW b \in Addr, Settled' = Settled \cup {b},
         \A a \in Settled' : Entry(a)' = Entry(a)
  PROVE  SettledAt(s)' = IF Entry(b).stack = s
                           THEN SettledAt(s) \cup {<<b, Entry(b).size>>}
                           ELSE SettledAt(s)
BY DEF SettledAt

LEMMA SettledMinus ==
  ASSUME NEW s, NEW b \in Addr, Settled = Settled' \cup {b},
         \A a \in Settled' : Entry(a)' = Entry(a)
  PROVE  SettledAt(s) = IF Entry(b).stack = s
                          THEN SettledAt(s)' \cup {<<b, Entry(b).size>>}
                          ELSE SettledAt(s)'
BY DEF SettledAt

\* The entry that u is about to subtract stays what it is.
SamePending(u) ==
  /\ Subtracting(u)' <=> Subtracting(u)
  /\ Subtracting(u) => /\ addr'[u] = addr[u]
                       /\ PendingSize(u)' = PendingSize(u)
                       /\ PendingStack(u)' = PendingStack(u)

LEMMA PendingSame ==
  ASSUME NEW s, \A u \in Thread : SamePending(u)
  PROVE  PendingAt(s)' = PendingAt(s)
BY DEF PendingAt, SamePending

LEMMA PendingPlus ==
  ASSUME NEW s, NEW t \in Thread, ~Subtracting(t), Subtracting(t)',
         \A u \in Thread \ {t} : SamePending(u)
  PROVE  PendingAt(s)' = IF PendingStack(t)' = s
                           THEN PendingAt(s) \cup {<<addr'[t], PendingSize(t)'>>}
                           ELSE PendingAt(s)
BY DEF PendingAt, SamePending

LEMMA PendingMinus ==
  ASSUME NEW s, NEW t \in Thread, Subtracting(t), ~Subtracting(t)',
         \A u \in Thread \ {t} : SamePending(u)
  PROVE  PendingAt(s) = IF PendingStack(t) = s
                          THEN PendingAt(s)' \cup {<<addr[t], PendingSize(t)>>}
                          ELSE PendingAt(s)'
BY DEF PendingAt, SamePending

(* The inductive invariant of the statistics.  Separate is what the traced *)
(* program guarantees: nobody else works on a block that is being freed.   *)

Separate ==
  \A t, u \in Thread :
    t # u /\ pc[t] \in FreeLabel /\ pc[u] # "run" /\ addr[t] = addr[u] =>
      addr[t] = NULL

\* No two keys of allocs share an element.
OneKey == \A a, b \in Addr : allocs[a] # None /\ allocs[a] = allocs[b] => a = b

\* The element a handler is about to delete is still the one it looked up, and
\* what it has deleted stays away until it has subtracted it.
Held == \A t \in Thread : pc[t] = "free_del" => allocs[addr[t]] = elem[t]
Gone == \A t \in Thread : Subtracting(t) => allocs[addr[t]] = None

\* What a handler is about to add is the entry it has stored, and its alone.
Stored ==
  \A t \in Thread :
    pc[t] \in AddLabel => allocs[addr[t]] # None /\ Entry(addr[t]) = info[t]
OneAdder ==
  \A t, u \in Thread :
    pc[t] \in AddLabel /\ pc[u] \in AddLabel /\ addr[t] = addr[u] => t = u

\* Entries are left without a word only by a full combined_allocs.
WordsFull ==
  \A s \in StackId :
    combined[s] = None /\ Accounted(s) # {} =>
      Cardinality(Present(combined)) >= CombinedMax

StatInv ==
  /\ OneKey /\ Held /\ Gone
  /\ IsFiniteSet(Present(combined))
  /\ drift = {} => Stored /\ OneAdder /\ WordsFull

\* The step leaves the handlers of the other threads alone.
OthersSame(t) ==
  \A u \in Thread \ {t} :
    pc'[u] = pc[u] /\ addr'[u] = addr[u] /\ elem'[u] = elem[u] /\ info'[u] = info[u]

\* A step of t that changes nothing the statistics are about: t neither adds
\* nor subtracts, or it goes on adding, or it goes on subtracting.
Quietly(t) ==
  /\ UNCHANGED <<allocs, allocsData, combined, drift>>
  /\ OthersSame(t)
  /\ \/ /\ pc[t] \notin AddLabel /\ ~Subtracting(t)
        /\ pc'[t] \notin AddLabel /\ ~Subtracting(t)'
        /\ pc'[t] = "free_del" => allocs[addr'[t]] = elem'[t]
     \/ /\ pc[t] \in AddLabel /\ pc'[t] \in AddLabel
        /\ addr'[t] = addr[t] /\ info'[t] = info[t]
     \/ /\ pc[t] = "del_lookup" /\ pc'[t] = "del"
        /\ addr'[t] = addr[t] /\ info'[t] = info[t]

LEMMA QuietStep ==
  ASSUME BpfTypeInv, StatInv, NEW t \in Thread, Quietly(t)
  PROVE  StatInv' /\ \A s \in StackId : Accounted(s)' = Accounted(s)
<1> USE DEF Quietly, OthersSame
<1>1. \A u \in Thread : SamePending(u)
  BY DEF SamePending, Subtracting, PendingSize, PendingStack, AddLabel
<1>2. ASSUME NEW a \in Addr PROVE Entry(a)' = Entry(a)
  BY DEF Entry
<1>3. ASSUME NEW a \in Addr PROVE (\E u \in Thread : Adding(u, a))' <=> \E u \in Thread : Adding(u, a)
  BY DEF Adding, AddLabel, Subtracting
<1>4. Settled' = Settled
  BY <1>3 DEF Settled
<1>5. \A a \in Settled : Entry(a)' = Entry(a)
  BY <1>2 DEF Settled
<1>6. \A s \in StackId : Accounted(s)' = Accounted(s)
  BY <1>1, <1>4, <1>5, SettledSame, PendingSame, AccountedParts, AccountedParts2
<1> USE DEF StatInv
<1>7. OneKey'
  BY DEF OneKey
<1>8. Held'
  BY DEF Held, Subtracting, AddLabel
<1>9. Gone'
  BY DEF Gone, Subtracting, AddLabel
<1>10. drift = {} => Stored'
  BY DEF Stored, Entry, Subtracting, AddLabel
<1>11. drift = {} => OneAdder'
  BY DEF OneAdder, Subtracting, AddLabel
<1>12. drift = {} => WordsFull'
  BY <1>6 DEF WordsFull
<1> QED BY <1>6, <1>7, <1>8, <1>9, <1>10, <1>11, <1>12

LEMMA Q_gen_alloc_enter ==
  ASSUME BpfTypeInv, NEW t \in Thread, gen_alloc_enter(t) PROVE Quietly(t)
BY DEF BpfTypeInv, BpfTypeOK, ThreadsTyped, Quietly, OthersSame, gen_alloc_enter, At, Goto,
       mapVars, AddLabel, Subtracting, AfterEnter, Registers, RecordingFn

LEMMA Q_exit_lookup ==
  ASSUME BpfTypeInv, NEW t \in Thread, exit_lookup(t) PROVE Quietly(t)
BY DEF BpfTypeInv, BpfTypeOK, ThreadsTyped, Quietly, OthersSame, exit_lookup, At, Goto,
       mapVars, AddLabel, Subtracting, Return

LEMMA Q_exit_read ==
  ASSUME BpfTypeInv, NEW t \in Thread, exit_read(t) PROVE Quietly(t)
BY DEF BpfTypeInv, BpfTypeOK, ThreadsTyped, Quietly, OthersSame, exit_read, At, Goto,
       mapVars, AddLabel, Subtracting

LEMMA Q_exit_del ==
  ASSUME BpfTypeInv, NEW t \in Thread, exit_del(t) PROVE Quietly(t)
BY DEF BpfTypeInv, BpfTypeOK, ThreadsTyped, Quietly, OthersSame, exit_del, At, Goto,
       mapVars, AddLabel, Subtracting, Return

LEMMA Q_exit_stack ==
  ASSUME BpfTypeInv, NEW t \in Thread, exit_stack(t) PROVE Quietly(t)
BY DEF BpfTypeInv, BpfTypeOK, ThreadsTyped, Quietly, OthersSame, exit_stack, WithStack, At, Goto,
       mapVars, AddLabel, Subtracting

LEMMA Q_exit_bucket ==
  ASSUME BpfTypeInv, NEW t \in Thread, exit_bucket(t) PROVE Quietly(t)
BY DEF BpfTypeInv, BpfTypeOK, ThreadsTyped, Quietly, OthersSame, exit_bucket, WithStack, At, Goto,
       mapVars, AddLabel, Subtracting

LEMMA Q_add_lookup ==
  ASSUME BpfTypeInv, NEW t \in Thread, add_lookup(t) PROVE Quietly(t)
BY DEF BpfTypeInv, BpfTypeOK, ThreadsTyped, Quietly, OthersSame, add_lookup, At, Goto,
       mapVars, AddLabel, Subtracting

LEMMA Q_free_lookup ==
  ASSUME BpfTypeInv, NEW t \in Thread, free_lookup(t) PROVE Quietly(t)
BY DEF BpfTypeInv, BpfTypeOK, ThreadsTyped, Quietly, OthersSame, free_lookup, At, Goto,
       mapVars, AddLabel, Subtracting, EndFree, AfterFree

LEMMA Q_Outside ==
  ASSUME BpfTypeInv, NEW t \in Thread, NEW l \in EnvLabel, NEW c, NEW a, Outside(t, l, c, a)
  PROVE  Quietly(t)
BY DEF BpfTypeInv, BpfTypeOK, ThreadsTyped, Quietly, OthersSame, Outside, EnvLabel,
       mapVars, AddLabel, Subtracting

(* What a word that exists accounts for, and how a step may change it.     *)

AccountedIn(s) == IF combined[s] = None THEN {} ELSE Accounted(s)

SameAccounts == \A s \in StackId : AccountedIn(s)' = AccountedIn(s)

CreateStep(s) ==
  /\ combined[s] = None
  /\ combined' = [combined EXCEPT ![s] = 0]
  /\ SameAccounts

AddStep(s, a, z) ==
  /\ combined[s] # None
  /\ combined' = [combined EXCEPT ![s] = FetchAdd(@, z)]
  /\ AccountedIn(s)' = AccountedIn(s) \cup {<<a, z>>}
  /\ \A r \in StackId \ {s} : AccountedIn(r)' = AccountedIn(r)
  /\ \A r \in StackId : \A f \in AccountedIn(r) : f[1] # a

RemoveStep(s, a, z) ==
  /\ combined[s] # None
  /\ combined' = [combined EXCEPT ![s] = FetchSub(@, z)]
  /\ AccountedIn(s)' = AccountedIn(s) \ {<<a, z>>}
  /\ \A r \in StackId \ {s} : AccountedIn(r)' = AccountedIn(r)
  /\ <<a, z>> \in AccountedIn(s)

Simulated ==
  \/ UNCHANGED combined /\ SameAccounts
  \/ \E s \in StackId :
       \/ CreateStep(s)
       \/ \E a \in Addr, z \in Word : AddStep(s, a, z) \/ RemoveStep(s, a, z)

LEMMA QuietSimulated ==
  ASSUME BpfTypeInv, StatInv, NEW t \in Thread, Quietly(t)
  PROVE  StatInv' /\ Simulated
<1>1. StatInv' /\ \A s \in StackId : Accounted(s)' = Accounted(s)
  BY QuietStep
<1>2. UNCHANGED combined
  BY DEF Quietly
<1>3. SameAccounts
  BY <1>1, <1>2 DEF SameAccounts, AccountedIn
<1> QED BY <1>1, <1>2, <1>3 DEF Simulated

(* The other steps, one by one.                                            *)

\* free_del moves the entry from the settled to the pending ones.
LEMMA S_free_del ==
  ASSUME BpfTypeInv, StatInv, Separate, NEW t \in Thread, free_del(t)
  PROVE  StatInv' /\ (drift' = {} => Simulated)
<1> DEFINE b == addr[t]
<1>1. /\ pc[t] = "free_del" /\ b \in Addr /\ elem[t] \in AllocsElem /\ b # NULL
      /\ allocs[b] = elem[t] /\ allocs[b] # None
      /\ allocs \in [Addr -> AllocsElem \cup {None}]
  BY BpfAssumption DEF BpfTypeInv, BpfTypeOK, MapsTyped, free_del, At, Registers, StatInv, Held
<1>2. /\ allocs' = [allocs EXCEPT ![b] = None]
      /\ pc'[t] = "free_size" /\ OthersSame(t)
      /\ UNCHANGED <<allocsData, combined, addr, elem, info, drift>>
  BY DEF BpfTypeInv, BpfTypeOK, ThreadsTyped, free_del, Goto, OthersSame
<1>3. \A u \in Thread \ {t} : pc[u] # "run" => addr[u] # b
  BY <1>1 DEF Separate, FreeLabel
<1> HIDE DEF b
<1>4. Settled = Settled' \cup {b} /\ \A a \in Settled' : Entry(a)' = Entry(a)
  <2>1. ASSUME NEW a \in Addr, NEW u \in Thread PROVE Adding(u, a)' <=> Adding(u, a)
    BY <1>1, <1>2 DEF Adding, OthersSame
  <2>2. \A u \in Thread : ~Adding(u, b)
    BY <1>1, <1>3 DEF Adding
  <2>3. \A a \in Addr \ {b} : allocs'[a] = allocs[a]
    BY <1>1, <1>2
  <2>4. \A a \in Addr \ {b} : Entry(a)' = Entry(a)
    BY <1>2, <2>3 DEF Entry
  <2>5. allocs'[b] = None
    BY <1>1, <1>2
  <2> QED BY <1>1, <2>1, <2>2, <2>3, <2>4, <2>5 DEF Settled
<1>5. \A u \in Thread \ {t} : SamePending(u)
  BY <1>2 DEF OthersSame, SamePending, Subtracting, PendingSize, PendingStack
<1>6. /\ ~Subtracting(t) /\ Subtracting(t)'
      /\ PendingStack(t)' = Entry(b).stack /\ PendingSize(t)' = Entry(b).size
  BY <1>1, <1>2 DEF Subtracting, PendingSize, PendingStack, Entry
<1>7. \A s \in StackId : Accounted(s)' = Accounted(s)
  <2> TAKE s \in StackId
  <2>1. SettledAt(s) = IF Entry(b).stack = s
                         THEN SettledAt(s)' \cup {<<b, Entry(b).size>>}
                         ELSE SettledAt(s)'
    BY <1>1, <1>4, SettledMinus
  <2>2. PendingAt(s)' = IF Entry(b).stack = s
                          THEN PendingAt(s) \cup {<<b, Entry(b).size>>}
                          ELSE PendingAt(s)
    BY <1>1, <1>2, <1>5, <1>6, PendingPlus DEF b
  <2> QED BY <2>1, <2>2, AccountedParts, AccountedParts2
<1>8. SameAccounts
  BY <1>2, <1>7 DEF SameAccounts, AccountedIn
<1> USE DEF StatInv
<1>9. OneKey'
  BY <1>1, <1>2 DEF OneKey
<1>10. Held' /\ Gone'
  BY <1>1, <1>2, <1>3 DEF Held, Gone, OthersSame, Subtracting, b
<1>11. drift' = {} => Stored'
  BY <1>1, <1>2, <1>3 DEF Stored, OthersSame, AddLabel, Entry, BpfTypeInv, Registers
<1>12. drift' = {} => OneAdder' /\ WordsFull'
  BY <1>1, <1>2, <1>7 DEF OneAdder, WordsFull, OthersSame, AddLabel
<1> QED BY <1>2, <1>8, <1>9, <1>10, <1>11, <1>12 DEF Simulated

\* free_size and free_stack copy what they will subtract to the handler.
LEMMA S_free_read ==
  ASSUME BpfTypeInv, StatInv, NEW t \in Thread, free_size(t) \/ free_stack(t)
  PROVE  StatInv' /\ Simulated
<1>1. /\ UNCHANGED <<allocs, allocsData, combined, addr, drift>> /\ OthersSame(t)
      /\ pc[t] \notin AddLabel /\ pc'[t] \notin AddLabel /\ pc'[t] # "free_del"
      /\ Subtracting(t) /\ Subtracting(t)'
  BY DEF BpfTypeInv, BpfTypeOK, ThreadsTyped, free_size, free_stack, At, Goto, mapVars,
         OthersSame, AddLabel, Subtracting
<1>2. SamePending(t)
  BY <1>1 DEF BpfTypeInv, BpfTypeOK, ThreadsTyped, Infos, free_size, free_stack, At, Goto,
         SamePending, PendingSize, PendingStack
<1>3. \A u \in Thread : SamePending(u)
  BY <1>1, <1>2 DEF OthersSame, SamePending, Subtracting, PendingSize, PendingStack
<1>4. Settled' = Settled /\ \A a \in Settled : Entry(a)' = Entry(a)
  <2>1. ASSUME NEW a \in Addr, NEW u \in Thread PROVE Adding(u, a)' <=> Adding(u, a)
    BY <1>1 DEF Adding, OthersSame, AddLabel
  <2> QED BY <1>1, <2>1 DEF Settled, Entry
<1>5. \A s \in StackId : Accounted(s)' = Accounted(s)
  BY <1>3, <1>4, SettledSame, PendingSame, AccountedParts, AccountedParts2
<1>6. SameAccounts
  BY <1>1, <1>5 DEF SameAccounts, AccountedIn
<1> USE <1>1 DEF StatInv, OthersSame
<1>7. OneKey' /\ Held' /\ Gone'
  BY DEF OneKey, Held, Gone, Subtracting
<1>8. drift = {} => Stored' /\ OneAdder'
  BY DEF Stored, OneAdder, Entry, AddLabel
<1>9. drift = {} => WordsFull'
  BY <1>5 DEF WordsFull
<1> QED BY <1>6, <1>7, <1>8, <1>9 DEF Simulated

\* gen_free_enter ends after update_statistics_del: the entry is not pending
\* any more, and nobody else accounts for its address.
LEMMA EndsSubtraction ==
  ASSUME BpfTypeInv, StatInv, Separate, NEW t \in Thread, pc[t] \in {"del_lookup", "del"},
         EndFree(t), UNCHANGED <<allocs, allocsData, drift>>
  PROVE  /\ <<addr[t], info[t].size>> \in Accounted(info[t].stack)
         /\ \A s \in StackId :
              Accounted(s)' = IF s = info[t].stack
                                THEN Accounted(s) \ {<<addr[t], info[t].size>>}
                                ELSE Accounted(s)
         /\ OneKey' /\ Held' /\ Gone'
         /\ drift = {} => Stored' /\ OneAdder'
<1> DEFINE b == addr[t]
           x == <<b, info[t].size>>
<1>1. b \in Addr /\ b # NULL /\ Subtracting(t)
  BY BpfAssumption DEF BpfTypeInv, Registers, Subtracting
<1>2. /\ OthersSame(t) /\ UNCHANGED <<call, addr>>
      /\ pc'[t] \in {"enter", "heap"}
      /\ pc[t] \notin AddLabel
  BY DEF BpfTypeInv, BpfTypeOK, ThreadsTyped, EndFree, AfterFree, Goto, OthersSame, AddLabel
<1>3. \A u \in Thread \ {t} : pc[u] # "run" => addr[u] # b
  BY <1>1 DEF Separate, FreeLabel
<1>4. allocs[b] = None
  BY <1>1 DEF StatInv, Gone
<1>5. PendingSize(t) = info[t].size /\ PendingStack(t) = info[t].stack
  BY DEF PendingSize, PendingStack
<1>6. ~Subtracting(t)'
  BY <1>2 DEF Subtracting
<1>7. \A u \in Thread \ {t} : SamePending(u)
  BY <1>2 DEF OthersSame, SamePending, Subtracting, PendingSize, PendingStack
<1>8. Settled' = Settled /\ \A a \in Settled : Entry(a)' = Entry(a)
  <2>1. ASSUME NEW a \in Addr, NEW u \in Thread PROVE Adding(u, a)' <=> Adding(u, a)
    BY <1>2 DEF Adding, OthersSame, AddLabel
  <2> QED BY <2>1 DEF Settled, Entry
<1>9. ASSUME NEW s \in StackId
      PROVE  /\ x \notin SettledAt(s) /\ x \notin PendingAt(s)'
             /\ SettledAt(s)' = SettledAt(s)
             /\ PendingAt(s) = IF info[t].stack = s THEN PendingAt(s)' \cup {x}
                                                    ELSE PendingAt(s)'
  <2>1. x \notin SettledAt(s)
    BY <1>4 DEF SettledAt, Settled
  <2>2. x \notin PendingAt(s)'
    <3>1. \A u \in Thread : Subtracting(u)' => addr'[u] # b
      BY <1>2, <1>3, <1>6 DEF OthersSame, Subtracting
    <3> QED BY <3>1 DEF PendingAt
  <2>3. SettledAt(s)' = SettledAt(s)
    BY <1>8, SettledSame
  <2>4. PendingAt(s) = IF info[t].stack = s THEN PendingAt(s)' \cup {x}
                                            ELSE PendingAt(s)'
    BY <1>1, <1>5, <1>6, <1>7, PendingMinus
  <2> QED BY <2>1, <2>2, <2>3, <2>4
<1>10. info[t].stack \in StackId
  BY DEF BpfTypeInv, Registers
<1>11. x \in Accounted(info[t].stack)
  BY <1>9, <1>10, AccountedParts
<1>12. ASSUME NEW s \in StackId
       PROVE  Accounted(s)' = IF s = info[t].stack THEN Accounted(s) \ {x} ELSE Accounted(s)
  <2> HIDE DEF x
  <2> QED BY <1>9, AccountedParts, AccountedParts2
<1> USE DEF StatInv
<1>13. OneKey' /\ Held' /\ Gone'
  BY <1>2 DEF OneKey, Held, Gone, OthersSame, Subtracting
<1>14. drift = {} => Stored' /\ OneAdder'
  BY <1>2 DEF Stored, OneAdder, OthersSame, Entry, AddLabel
<1> QED BY <1>11, <1>12, <1>13, <1>14

LEMMA S_del_lookup ==
  ASSUME BpfTypeInv, StatInv, Separate, NEW t \in Thread, del_lookup(t)
  PROVE  StatInv' /\ Simulated
<1>1. CASE ~EndFree(t)
  <2>1. Quietly(t)
    BY <1>1 DEF BpfTypeInv, BpfTypeOK, ThreadsTyped, Quietly, OthersSame, del_lookup, At,
                Goto, mapVars
  <2> QED BY <2>1, QuietSimulated
<1>2. CASE EndFree(t) /\ combined[info[t].stack] = None
  <2>1. /\ UNCHANGED <<allocs, allocsData, combined, drift>>
        /\ pc[t] \in {"del_lookup", "del"}
    BY DEF del_lookup, At, mapVars
  <2>2. \A s \in StackId : Accounted(s)' = Accounted(s) \/
                           (combined[s] = None /\ Accounted(s)' \subseteq Accounted(s))
    BY <1>2, <2>1, EndsSubtraction
  <2>3. SameAccounts
    BY <2>1, <2>2 DEF SameAccounts, AccountedIn
  <2>4. drift = {} => WordsFull'
    BY <2>1, <2>2 DEF StatInv, WordsFull
  <2> QED BY <1>2, <2>1, <2>3, <2>4, EndsSubtraction DEF StatInv, Simulated
<1>3. CASE EndFree(t) /\ combined[info[t].stack] # None
  <2>1. pc'[t] = "del" /\ pc'[t] \in {"enter", "heap"}
    BY <1>3 DEF del_lookup, EndFree, AfterFree, Goto, BpfTypeInv, BpfTypeOK, ThreadsTyped
  <2> QED BY <2>1
<1> QED BY <1>1, <1>2, <1>3

LEMMA S_del ==
  ASSUME BpfTypeInv, StatInv, Separate, NEW t \in Thread, del(t)
  PROVE  StatInv' /\ (drift' = {} => Simulated)
<1>0. PICK s \in StackId, z \in Word, b \in Addr :
        s = info[t].stack /\ z = info[t].size /\ b = addr[t]
  BY DEF BpfTypeInv, BpfTypeOK, ThreadsTyped, Infos, Registers, del, At
<1>1. combined[s] # None /\ combined \in [StackId -> Word \cup {None}]
  BY <1>0 DEF BpfTypeInv, BpfTypeOK, MapsTyped, Registers, del, At
<1>2. /\ combined' = [combined EXCEPT ![s] = FetchSub(@, z)]
      /\ UNCHANGED <<allocs, allocsData, drift>>
      /\ EndFree(t) /\ pc[t] \in {"del_lookup", "del"}
  BY <1>0 DEF del, At
<1>3. /\ <<b, z>> \in Accounted(s)
      /\ \A r \in StackId : Accounted(r)' = IF r = s THEN Accounted(r) \ {<<b, z>>}
                                                     ELSE Accounted(r)
      /\ OneKey' /\ Held' /\ Gone'
      /\ drift = {} => Stored' /\ OneAdder'
  BY <1>0, <1>2, EndsSubtraction
<1>4. combined[s] \in Word /\ FetchSub(combined[s], z) \in Word
  BY <1>1, WordFacts
<1>5. /\ combined'[s] # None
      /\ \A r \in StackId \ {s} : combined'[r] = combined[r]
      /\ DOMAIN combined' = DOMAIN combined
  BY <1>1, <1>2, <1>4, BpfAssumption
<1>6. Present(combined') = Present(combined)
  BY <1>1, <1>5 DEF Present
<1>7. drift = {} => WordsFull'
  BY <1>3, <1>5, <1>6 DEF StatInv, WordsFull
<1>8. RemoveStep(s, b, z)
  <2>1. /\ AccountedIn(s)' = AccountedIn(s) \ {<<b, z>>}
        /\ <<b, z>> \in AccountedIn(s)
    BY <1>1, <1>3, <1>5 DEF AccountedIn
  <2>2. \A r \in StackId \ {s} : AccountedIn(r)' = AccountedIn(r)
    BY <1>3, <1>5 DEF AccountedIn
  <2> QED BY <1>1, <1>2, <2>1, <2>2 DEF RemoveStep
<1> QED BY <1>1, <1>2, <1>3, <1>6, <1>7, <1>8 DEF StatInv, Simulated

\* The handler of an adding thread returns: what it has stored counts.
LEMMA EndsAddition ==
  ASSUME BpfTypeInv, StatInv, Separate, NEW t \in Thread, pc[t] \in AddLabel,
         Return(t), UNCHANGED <<allocs, allocsData, drift>>,
         NEW b, b = addr[t], NEW s, s = info[t].stack, NEW z, z = info[t].size
  PROVE  /\ OneKey' /\ Held' /\ Gone'
         /\ drift = {} =>
              /\ Stored' /\ OneAdder'
              /\ \A r \in StackId : Accounted(r)' = IF r = s THEN Accounted(r) \cup {<<b, z>>}
                                                             ELSE Accounted(r)
              /\ \A r \in StackId : \A f \in Accounted(r) : f[1] # b
<1>1. b \in Addr /\ b # NULL
  BY BpfAssumption DEF BpfTypeInv, Registers, AddLabel
<1>2. OthersSame(t) /\ pc'[t] = "run"
  BY DEF BpfTypeInv, BpfTypeOK, ThreadsTyped, Return, Goto, OthersSame
<1>3. OneKey' /\ Held' /\ Gone'
  BY <1>2 DEF StatInv, OneKey, Held, Gone, OthersSame, Subtracting
<1>4. ASSUME drift = {}
      PROVE  /\ Stored' /\ OneAdder'
             /\ \A r \in StackId : Accounted(r)' = IF r = s THEN Accounted(r) \cup {<<b, z>>}
                                                            ELSE Accounted(r)
             /\ \A r \in StackId : \A f \in Accounted(r) : f[1] # b
  <2> USE <1>4 DEF StatInv
  <2>1. Stored' /\ OneAdder'
    BY <1>2 DEF Stored, OneAdder, OthersSame, Entry, AddLabel
  <2>2. \A u \in Thread \ {t} : ~Adding(u, b)
    BY DEF OneAdder, Adding, AddLabel
  <2>3. allocs[b] # None /\ Entry(b) = info[t]
    BY DEF Stored
  <2>4. b \notin Settled
    BY DEF Settled, Adding, AddLabel
  <2>5. Settled' = Settled \cup {b}
    <3>1. ASSUME NEW a \in Addr \ {b}, NEW u \in Thread PROVE Adding(u, a)' <=> Adding(u, a)
      BY <1>2 DEF Adding, OthersSame
    <3>2. ASSUME NEW u \in Thread PROVE ~Adding(u, b)'
      BY <1>2, <2>2 DEF Adding, OthersSame
    <3> QED BY <1>1, <2>3, <3>1, <3>2 DEF Settled
  <2>6. \A a \in Settled' : Entry(a)' = Entry(a)
    BY DEF Entry
  <2>7. \A u \in Thread : SamePending(u)
    BY <1>2 DEF OthersSame, SamePending, Subtracting, PendingSize, PendingStack, AddLabel
  <2>8. ASSUME NEW r \in StackId
        PROVE  Accounted(r)' = IF r = s THEN Accounted(r) \cup {<<b, z>>} ELSE Accounted(r)
    <3>1. SettledAt(r)' = IF Entry(b).stack = r
                            THEN SettledAt(r) \cup {<<b, Entry(b).size>>}
                            ELSE SettledAt(r)
      BY <1>1, <2>5, <2>6, SettledPlus
    <3>2. PendingAt(r)' = PendingAt(r)
      BY <2>7, PendingSame
    <3>3. Entry(b).stack = s /\ Entry(b).size = z
      BY <2>3
    <3> QED BY <3>1, <3>2, <3>3, AccountedParts, AccountedParts2
  <2>9. ASSUME NEW r \in StackId, NEW f \in Accounted(r) PROVE f[1] # b
    <3>1. CASE f \in SettledAt(r)
      BY <2>4, <3>1 DEF SettledAt
    <3>2. CASE f \in PendingAt(r)
      <4>1. PICK u \in Thread : Subtracting(u) /\ f = <<addr[u], PendingSize(u)>>
        BY <3>2 DEF PendingAt
      <4>2. u # t /\ pc[u] \in FreeLabel /\ pc[t] # "run"
        BY <4>1 DEF Subtracting, FreeLabel, AddLabel
      <4>3. addr[u] # b
        BY <1>1, <4>2 DEF Separate
      <4> QED BY <4>1, <4>3
    <3> QED BY <3>1, <3>2, AccountedParts
  <2> QED BY <2>1, <2>8, <2>9
<1> QED BY <1>3, <1>4

LEMMA S_add ==
  ASSUME BpfTypeInv, StatInv, Separate, NEW t \in Thread, add(t)
  PROVE  StatInv' /\ (drift' = {} => Simulated)
<1>0. PICK s \in StackId, z \in Word, b \in Addr :
        s = info[t].stack /\ z = info[t].size /\ b = addr[t]
  BY DEF BpfTypeInv, BpfTypeOK, ThreadsTyped, Infos, Registers, add, At
<1>1. combined[s] # None /\ combined \in [StackId -> Word \cup {None}]
  BY <1>0 DEF BpfTypeInv, BpfTypeOK, MapsTyped, Registers, add, At
<1>2. /\ combined' = [combined EXCEPT ![s] = FetchAdd(@, z)]
      /\ UNCHANGED <<allocs, allocsData, drift>>
      /\ Return(t) /\ pc[t] \in AddLabel
  BY <1>0 DEF add, At, AddLabel
<1>3. /\ OneKey' /\ Held' /\ Gone'
      /\ drift = {} =>
           /\ Stored' /\ OneAdder'
           /\ \A r \in StackId : Accounted(r)' = IF r = s THEN Accounted(r) \cup {<<b, z>>}
                                                          ELSE Accounted(r)
           /\ \A r \in StackId : \A f \in Accounted(r) : f[1] # b
  BY <1>0, <1>2, EndsAddition
<1>4. combined[s] \in Word /\ FetchAdd(combined[s], z) \in Word
  BY <1>1, WordFacts
<1>5. /\ combined'[s] # None
      /\ \A r \in StackId \ {s} : combined'[r] = combined[r]
      /\ DOMAIN combined' = DOMAIN combined
  BY <1>1, <1>2, <1>4, BpfAssumption
<1>6. Present(combined') = Present(combined)
  BY <1>1, <1>5 DEF Present
<1>7. drift = {} => WordsFull'
  BY <1>3, <1>5, <1>6 DEF StatInv, WordsFull
<1>8. drift = {} => AddStep(s, b, z)
  <2> SUFFICES ASSUME drift = {} PROVE AddStep(s, b, z)
    OBVIOUS
  <2>1. AccountedIn(s)' = AccountedIn(s) \cup {<<b, z>>}
    BY <1>1, <1>3, <1>5 DEF AccountedIn
  <2>2. \A r \in StackId \ {s} : AccountedIn(r)' = AccountedIn(r)
    BY <1>3, <1>5 DEF AccountedIn
  <2>3. \A r \in StackId : \A f \in AccountedIn(r) : f[1] # b
    BY <1>3 DEF AccountedIn
  <2> QED BY <1>1, <1>2, <2>1, <2>2, <2>3 DEF AddStep
<1> QED BY <1>1, <1>2, <1>3, <1>6, <1>7, <1>8 DEF StatInv, Simulated

LEMMA S_add_init ==
  ASSUME BpfTypeInv, StatInv, Separate, NEW t \in Thread, add_init(t)
  PROVE  StatInv' /\ (drift' = {} => Simulated)
<1>0. PICK s \in StackId, z \in Word, b \in Addr :
        s = info[t].stack /\ z = info[t].size /\ b = addr[t]
  BY DEF BpfTypeInv, BpfTypeOK, ThreadsTyped, Infos, Registers, add_init, At
<1>1. /\ combined \in [StackId -> Word \cup {None}] /\ 0 # None /\ pc[t] = "add_init"
      /\ UNCHANGED <<allocs, allocsData, drift>>
      /\ Cardinality(Present(combined)) \in Nat
  BY WordFacts, BpfAssumption, FS_CardinalityType
     DEF BpfTypeInv, BpfTypeOK, MapsTyped, add_init, At, StatInv
<1>2. \/ Goto(t, "add") /\ UNCHANGED <<combined, call, addr, elem, info>>
      \/ /\ combined[s] = None /\ Cardinality(Present(combined)) < CombinedMax
         /\ combined' = [combined EXCEPT ![s] = 0]
         /\ Goto(t, "add") /\ UNCHANGED <<call, addr, elem, info>>
      \/ /\ combined[s] = None /\ Cardinality(Present(combined)) >= CombinedMax
         /\ UNCHANGED combined /\ Return(t)
  BY <1>0 DEF add_init
<1>3. CASE Goto(t, "add") /\ UNCHANGED <<combined, call, addr, elem, info>>
  <2>1. Quietly(t)
    BY <1>1, <1>3 DEF BpfTypeInv, BpfTypeOK, ThreadsTyped, Quietly, OthersSame, Goto, AddLabel
  <2> QED BY <2>1, QuietSimulated
<1>4. CASE /\ combined[s] = None /\ Cardinality(Present(combined)) < CombinedMax
           /\ combined' = [combined EXCEPT ![s] = 0]
           /\ Goto(t, "add") /\ UNCHANGED <<call, addr, elem, info>>
  <2>1. OthersSame(t) /\ pc'[t] = "add"
    BY <1>4 DEF BpfTypeInv, BpfTypeOK, ThreadsTyped, Goto, OthersSame
  <2>2. \A u \in Thread : SamePending(u)
    BY <1>1, <1>4, <2>1 DEF OthersSame, SamePending, Subtracting, PendingSize, PendingStack
  <2>3. Settled' = Settled /\ \A a \in Settled : Entry(a)' = Entry(a)
    <3>1. ASSUME NEW a \in Addr, NEW u \in Thread PROVE Adding(u, a)' <=> Adding(u, a)
      BY <1>1, <1>4, <2>1 DEF Adding, OthersSame
    <3> QED BY <1>1, <3>1 DEF Settled, Entry
  <2>4. \A r \in StackId : Accounted(r)' = Accounted(r)
    BY <2>2, <2>3, SettledSame, PendingSame, AccountedParts, AccountedParts2
  <2>5. combined'[s] = 0 /\ \A r \in StackId \ {s} : combined'[r] = combined[r]
    BY <1>1, <1>4
  <2>6. IsFiniteSet(Present(combined'))
    <3>1. Present(combined') = Present(combined) \cup {s}
      BY <1>1, <1>4, <2>5 DEF Present
    <3> QED BY <3>1, FS_AddElement DEF StatInv
  <2>7. OneKey' /\ Held' /\ Gone' /\ (drift = {} => Stored' /\ OneAdder')
    BY <1>1, <1>4, <2>1 DEF StatInv, OneKey, Held, Gone, Stored, OneAdder, OthersSame,
                            Subtracting, Entry, AddLabel
  <2>8. drift = {} => \A r \in StackId : combined[r] = None => Accounted(r) = {}
    BY <1>1, <1>4, BpfAssumption DEF StatInv, WordsFull
  <2>9. drift = {} => WordsFull'
    BY <1>1, <2>4, <2>5, <2>8 DEF WordsFull
  <2>10. drift = {} => CreateStep(s)
    BY <1>1, <1>4, <2>4, <2>5, <2>8 DEF CreateStep, SameAccounts, AccountedIn
  <2> QED BY <1>1, <2>6, <2>7, <2>9, <2>10 DEF StatInv, Simulated
<1>5. CASE /\ combined[s] = None /\ Cardinality(Present(combined)) >= CombinedMax
           /\ UNCHANGED combined /\ Return(t)
  <2>1. /\ OneKey' /\ Held' /\ Gone'
        /\ drift = {} =>
             /\ Stored' /\ OneAdder'
             /\ \A r \in StackId : Accounted(r)' = IF r = s THEN Accounted(r) \cup {<<b, z>>}
                                                            ELSE Accounted(r)
    BY <1>0, <1>1, <1>5, EndsAddition DEF AddLabel
  <2>2. drift = {} => WordsFull'
    BY <1>5, <2>1 DEF StatInv, WordsFull
  <2>3. drift = {} => SameAccounts
    BY <1>5, <2>1 DEF SameAccounts, AccountedIn
  <2> QED BY <1>1, <1>5, <2>1, <2>2, <2>3 DEF StatInv, Simulated
<1> QED BY <1>2, <1>3, <1>4, <1>5

LEMMA S_exit_put ==
  ASSUME BpfTypeInv, StatInv, Separate, NEW t \in Thread, exit_put(t)
  PROVE  StatInv' /\ (drift' = {} => Simulated)
<1>0. PICK b \in Addr : b = addr[t]
  BY DEF BpfTypeInv, Registers, exit_put, At
<1>1. /\ allocs \in [Addr -> AllocsElem \cup {None}] /\ info[t] \in Infos
      /\ allocsData \in [AllocsElem -> Infos] /\ b # NULL
      /\ pc[t] = "exit_put" /\ pc'[t] = "add_lookup" /\ OthersSame(t)
      /\ UNCHANGED <<combined, addr, elem, info>>
  BY BpfAssumption DEF BpfTypeInv, BpfTypeOK, MapsTyped, ThreadsTyped, exit_put, At, Goto,
                       OthersSame
<1>2. \A u \in Thread \ {t} : pc[u] \in FreeLabel => addr[u] # b
  BY <1>0, <1>1 DEF Separate
<1>3. CASE UNCHANGED <<allocs, allocsData>> /\ drift' = drift \cup {"full"}
  BY <1>1, <1>3 DEF StatInv, OneKey, Held, Gone, OthersSame, Subtracting
<1>4. ASSUME NEW e \in Unused(allocs, AllocsElem),
             /\ allocs' = [allocs EXCEPT ![addr[t]] = e]
             /\ allocsData' = [allocsData EXCEPT ![e] = info[t]]
             /\ drift' = drift
                  \cup {x \in {"reuse"} : BeingRead(e)}
                  \cup {x \in {"replaced"} : allocs[addr[t]] # None}
      PROVE  StatInv' /\ (drift' = {} => Simulated)
  <2>1. e \in AllocsElem /\ e # None /\ \A a \in Addr : allocs[a] # e
    BY <1>1, BpfAssumption DEF Unused
  <2>2. /\ allocs'[b] = e /\ \A a \in Addr \ {b} : allocs'[a] = allocs[a]
        /\ allocsData'[e] = info[t]
        /\ \A d \in AllocsElem \ {e} : allocsData'[d] = allocsData[d]
    BY <1>0, <1>1, <1>4, <2>1
  <2>3. OneKey'
    BY <2>1, <2>2 DEF StatInv, OneKey
  <2>4. Held' /\ Gone'
    <3>1. \A u \in Thread : pc'[u] \in FreeLabel =>
            u # t /\ addr'[u] # b /\ pc'[u] = pc[u] /\ addr'[u] = addr[u] /\ elem'[u] = elem[u]
      BY <1>1, <1>2 DEF OthersSame, FreeLabel
    <3>2. \A u \in Thread : pc[u] \in FreeLabel \ {"free_lookup"} => addr[u] \in Addr
      BY DEF BpfTypeInv, Registers, FreeLabel
    <3> QED BY <2>2, <3>1, <3>2 DEF StatInv, Held, Gone, Subtracting, FreeLabel
  <2>5. ASSUME drift' = {} PROVE Stored' /\ OneAdder' /\ WordsFull' /\ Simulated
    <3>1. drift = {} /\ ~BeingRead(e) /\ allocs[b] = None
      BY <1>0, <1>4, <2>5
    <3>2. \A u \in Thread \ {t} : pc[u] \in AddLabel => addr[u] \in Addr \ {b}
      BY <3>1 DEF StatInv, Stored, BpfTypeInv, Registers, AddLabel
    <3>3. ASSUME NEW a \in Addr \ {b}, allocs[a] # None PROVE Entry(a)' = Entry(a)
      BY <1>1, <2>1, <2>2, <3>3 DEF Entry
    <3>4. Stored'
      <4>1. Entry(b)' = info[t]
        BY <2>2 DEF Entry
      <4>2. ASSUME NEW u \in Thread \ {t}, pc'[u] \in AddLabel
            PROVE  allocs'[addr'[u]] # None /\ Entry(addr[u])' = info'[u]
        <5>1. pc[u] \in AddLabel /\ addr[u] \in Addr \ {b} /\ addr'[u] = addr[u]
          BY <1>1, <3>2, <4>2 DEF OthersSame
        <5>2. allocs[addr[u]] # None /\ Entry(addr[u]) = info[u]
          BY <3>1, <5>1 DEF StatInv, Stored
        <5>3. Entry(addr[u])' = Entry(addr[u])
          BY <1>1, <2>1, <2>2, <5>1, <5>2 DEF Entry
        <5> QED BY <1>1, <2>2, <5>1, <5>2, <5>3
      <4>3. \A u \in Thread : pc'[u] \in AddLabel =>
              allocs'[addr'[u]] # None /\ allocsData'[allocs'[addr'[u]]] = info'[u]
        BY <1>0, <1>1, <2>1, <2>2, <4>1, <4>2 DEF Entry
      <4> QED BY <4>3 DEF Stored, Entry
    <3>5. OneAdder'
      BY <1>0, <1>1, <3>1, <3>2 DEF StatInv, OneAdder, OthersSame
    <3>6. Settled' = Settled /\ \A a \in Settled : Entry(a)' = Entry(a)
      <4>1. ASSUME NEW a \in Addr \ {b}, NEW u \in Thread PROVE Adding(u, a)' <=> Adding(u, a)
        BY <1>0, <1>1 DEF Adding, OthersSame
      <4>2. b \notin Settled /\ b \notin Settled'
        <5>1. Adding(t, b)'
          BY <1>0, <1>1 DEF Adding
        <5> QED BY <3>1, <5>1 DEF Settled
      <4>3. Settled' = Settled
        BY <2>2, <4>1, <4>2 DEF Settled
      <4> QED BY <3>3, <4>2, <4>3 DEF Settled
    <3>7. \A u \in Thread : SamePending(u)
      <4>1. \A u \in Thread : pc[u] \in {"free_size", "free_stack"} =>
              elem[u] \in AllocsElem \ {e}
        BY <3>1 DEF BeingRead, BpfTypeInv, Registers
      <4>2. \A u \in Thread : pc[u] \in {"free_size", "free_stack"} =>
              allocsData'[elem[u]] = allocsData[elem[u]]
        BY <2>2, <4>1
      <4> QED BY <1>1, <4>2 DEF SamePending, OthersSame, Subtracting, PendingSize, PendingStack
    <3>8. \A s \in StackId : Accounted(s)' = Accounted(s)
      BY <3>6, <3>7, SettledSame, PendingSame, AccountedParts, AccountedParts2
    <3>9. WordsFull'
      BY <1>1, <3>1, <3>8 DEF StatInv, WordsFull
    <3>10. SameAccounts
      BY <1>1, <3>8 DEF SameAccounts, AccountedIn
    <3> QED BY <1>1, <3>4, <3>5, <3>9, <3>10 DEF Simulated
  <2> QED BY <1>1, <2>3, <2>4, <2>5 DEF StatInv
<1> QED BY <1>3, <1>4 DEF exit_put

\* Every step of a handler keeps the invariant and, while the statistics stay
\* exact, is one that Statistics allows.
LEMMA S_HandlerStep ==
  ASSUME BpfTypeInv, StatInv, Separate, NEW t \in Thread, HandlerStep(t)
  PROVE  StatInv' /\ (drift' = {} => Simulated)
<1>1. CASE gen_alloc_enter(t)
  BY <1>1, Q_gen_alloc_enter, QuietSimulated
<1>2. CASE \/ exit_lookup(t) \/ exit_read(t) \/ exit_del(t)
           \/ exit_stack(t) \/ exit_bucket(t) \/ add_lookup(t)
  BY <1>2, Q_exit_lookup, Q_exit_read, Q_exit_del, Q_exit_stack, Q_exit_bucket, Q_add_lookup,
     QuietSimulated
<1>3. CASE exit_put(t) \/ add_init(t) \/ add(t)
  BY <1>3, S_exit_put, S_add_init, S_add
<1>4. CASE free_lookup(t)
  BY <1>4, Q_free_lookup, QuietSimulated
<1>5. CASE free_del(t) \/ free_size(t) \/ free_stack(t) \/ del_lookup(t) \/ del(t)
  BY <1>5, S_free_del, S_free_read, S_del_lookup, S_del
<1> QED BY <1>1, <1>2, <1>3, <1>4, <1>5 DEF HandlerStep, gen_alloc_exit2, gen_free_enter

LEMMA S_Init == BpfInit => StatInv
<1> SUFFICES ASSUME BpfInit PROVE StatInv
  OBVIOUS
<1>1. Present(combined) = {}
  BY DEF BpfInit, Present
<1>2. \A s : Accounted(s) = {}
  BY DEF BpfInit, Accounted, Settled, Subtracting
<1> QED BY <1>1, <1>2, FS_EmptySet
        DEF StatInv, BpfInit, OneKey, Held, Gone, Stored, OneAdder, WordsFull,
            Subtracting, AddLabel

LEMMA S_Stutter == StatInv /\ UNCHANGED bpfVars => StatInv' /\ Simulated
<1> SUFFICES ASSUME StatInv, UNCHANGED bpfVars PROVE StatInv' /\ Simulated
  OBVIOUS
<1> USE DEF bpfVars, mapVars
<1>1. \A s \in StackId : Accounted(s)' = Accounted(s)
  BY DEF Accounted, Settled, Entry, Adding, Subtracting, PendingSize, PendingStack
<1>2. SameAccounts
  BY <1>1 DEF SameAccounts, AccountedIn
<1> QED BY <1>1, <1>2 DEF StatInv, OneKey, Held, Gone, Stored, OneAdder, WordsFull,
            Subtracting, Entry, Simulated

(* Every word is the packed total of what it accounts for.                 *)

WordsExact ==
  drift = {} =>
    \A s \in StackId :
      /\ IsFiniteSet(AccountedIn(s)) /\ \A x \in AccountedIn(s) : x[2] \in Word
      /\ combined[s] # None => combined[s] = Packed(AccountedIn(s))

LEMMA W_Init == BpfInit => WordsExact
BY FS_EmptySet DEF BpfInit, WordsExact, AccountedIn

LEMMA W_Step ==
  ASSUME BpfTypeOK, WordsExact, drift' = {} => drift = {}, drift' = {} => Simulated
  PROVE  WordsExact'
<1> SUFFICES ASSUME drift = {}, Simulated
             PROVE  \A s \in StackId :
                      /\ IsFiniteSet(AccountedIn(s)') /\ \A x \in AccountedIn(s)' : x[2] \in Word
                      /\ combined'[s] # None => combined'[s] = Packed(AccountedIn(s)')
  BY Zenon DEF WordsExact, Packed, Bytes, BytesOf
<1>0. combined \in [StackId -> Word \cup {None}] /\ None \notin Word /\ Word \subseteq Nat
  BY BpfAssumption, WordFacts DEF BpfTypeOK, MapsTyped
<1> USE DEF WordsExact
<1>1. CASE UNCHANGED combined /\ SameAccounts
  BY <1>1 DEF SameAccounts
<1>2. ASSUME NEW s \in StackId, CreateStep(s)
      PROVE  \A r \in StackId :
               /\ IsFiniteSet(AccountedIn(r)') /\ \A x \in AccountedIn(r)' : x[2] \in Word
               /\ combined'[r] # None => combined'[r] = Packed(AccountedIn(r)')
  <2>1. AccountedIn(s) = {}
    BY <1>2 DEF CreateStep, AccountedIn
  <2> QED BY <1>0, <1>2, <2>1, PackedEmpty DEF CreateStep, SameAccounts
<1>3. ASSUME NEW s \in StackId, NEW a \in Addr, NEW z \in Word, AddStep(s, a, z)
      PROVE  \A r \in StackId :
               /\ IsFiniteSet(AccountedIn(r)') /\ \A x \in AccountedIn(r)' : x[2] \in Word
               /\ combined'[r] # None => combined'[r] = Packed(AccountedIn(r)')
  <2>1. <<a, z>> \notin AccountedIn(s) /\ <<a, z>>[2] = z
    BY <1>3 DEF AddStep
  <2>2. Packed(AccountedIn(s) \cup {<<a, z>>}) = FetchAdd(Packed(AccountedIn(s)), z)
    BY <1>0, <2>1, PackedAdd
  <2>3. IsFiniteSet(AccountedIn(s) \cup {<<a, z>>})
    BY FS_AddElement
  <2> QED BY <1>0, <1>3, <2>1, <2>2, <2>3 DEF AddStep
<1>4. ASSUME NEW s \in StackId, NEW a \in Addr, NEW z \in Word, RemoveStep(s, a, z)
      PROVE  \A r \in StackId :
               /\ IsFiniteSet(AccountedIn(r)') /\ \A x \in AccountedIn(r)' : x[2] \in Word
               /\ combined'[r] # None => combined'[r] = Packed(AccountedIn(r)')
  <2>1. <<a, z>> \in AccountedIn(s) /\ <<a, z>>[2] = z
    BY <1>4 DEF RemoveStep
  <2>2. Packed(AccountedIn(s) \ {<<a, z>>}) = FetchSub(Packed(AccountedIn(s)), z)
    BY <1>0, <2>1, PackedRemove
  <2>3. IsFiniteSet(AccountedIn(s) \ {<<a, z>>})
    BY FS_RemoveElement
  <2> QED BY <1>0, <1>4, <2>2, <2>3 DEF RemoveStep
<1> QED BY <1>1, <1>2, <1>3, <1>4 DEF Simulated

LEMMA W_Exact == WordsExact => StatisticsExact
BY DEF WordsExact, StatisticsExact, AccountedIn

\* When no thread is in a traced function, what a word accounts for is what
\* allocs holds for its stack id.
LEMMA W_Aggregates ==
  ASSUME BpfTypeOK, WordsExact, drift = {} PROVE AggregatesAllocs
<1> SUFFICES ASSUME \A t \in Thread : At(t, "run"), NEW s \in StackId, combined[s] # None
             PROVE  combined[s] = Packed(Outstanding(s))
  BY DEF AggregatesAllocs
<1>1. Settled = Present(allocs)
  BY DEF Settled, Present, Adding, At, BpfTypeOK, MapsTyped
<1>2. PendingAt(s) = {}
  BY DEF PendingAt, Subtracting, At
<1>3. Accounted(s) = Outstanding(s)
  BY <1>1, <1>2, AccountedParts DEF SettledAt, Outstanding
<1> QED BY <1>3 DEF WordsExact, AccountedIn

(* Refinement of Statistics.                                               *)

\* The instance computes with the same words.
LEMMA R_Words ==
  \A bits, sz : /\ Promise!FetchAdd(bits, sz) = FetchAdd(bits, sz)
               /\ Promise!FetchSub(bits, sz) = FetchSub(bits, sz)
BY DEF Promise!FetchAdd, Promise!FetchSub, Promise!SingleAlloc, Promise!Truncated,
       Promise!WordMod, FetchAdd, FetchSub, SingleAlloc, Truncated, WordMod

LEMMA R_Init == BpfInit => Promise!StatisticsInit
BY DEF BpfInit, Promise!StatisticsInit

LEMMA R_Step ==
  ASSUME BpfTypeOK, drift' = {} => drift = {}, drift' = {} => Simulated
  PROVE  [Promise!StatisticsNext]_Promise!statisticsVars
<1> DEFINE acc == [s \in StackId |-> IF combined[s] = None THEN {} ELSE Accounted(s)]
<1>1. CASE drift' # {}
  BY <1>1 DEF Promise!StatisticsNext
<1>2. CASE drift' = {}
  <2> USE <1>2
  <2>0. acc = [s \in StackId |-> AccountedIn(s)] /\ acc' = [s \in StackId |-> AccountedIn(s)']
    BY DEF AccountedIn
  <2>1. CASE UNCHANGED combined /\ SameAccounts
    <3>1. acc' = acc
      BY <2>0, <2>1 DEF SameAccounts
    <3>2. (drift' = {}) = (drift = {})
      OBVIOUS
    <3> QED BY <2>1, <3>1, <3>2 DEF Promise!statisticsVars
  <2>2. ASSUME NEW s \in StackId, CreateStep(s) PROVE Promise!Create(s)
    BY <2>0, <2>2 DEF CreateStep, SameAccounts, Promise!Create
  <2>3. ASSUME NEW s \in StackId, NEW a \in Addr, NEW z \in Word, AddStep(s, a, z)
        PROVE  Promise!Add(s, <<a, z>>)
    <3>1. acc' = [acc EXCEPT ![s] = @ \cup {<<a, z>>}]
      <4> HIDE DEF acc
      <4> QED BY <2>0, <2>3 DEF AddStep
    <3>2. \A r \in StackId : \A f \in acc[r] : f[1] # a
      BY <2>0, <2>3 DEF AddStep
    <3>3. combined' = [combined EXCEPT ![s] = Promise!FetchAdd(@, z)] /\ combined[s] # None
      BY <2>3, R_Words DEF AddStep
    <3>4. <<a, z>>[1] = a /\ <<a, z>>[2] = z
      OBVIOUS
    <3> QED BY <3>1, <3>2, <3>3, <3>4, Zenon DEF Promise!Add
  <2>4. ASSUME NEW s \in StackId, NEW a \in Addr, NEW z \in Word, RemoveStep(s, a, z)
        PROVE  Promise!Remove(s, <<a, z>>)
    <3>1. acc' = [acc EXCEPT ![s] = @ \ {<<a, z>>}] /\ <<a, z>> \in acc[s]
      <4> HIDE DEF acc
      <4> QED BY <2>0, <2>4 DEF RemoveStep
    <3>2. combined' = [combined EXCEPT ![s] = Promise!FetchSub(@, z)] /\ combined[s] # None
      BY <2>4, R_Words DEF RemoveStep
    <3>3. <<a, z>>[2] = z
      OBVIOUS
    <3> QED BY <3>1, <3>2, <3>3, Zenon DEF Promise!Remove
  <2>5. CASE ~(UNCHANGED combined /\ SameAccounts)
    <3>1. Promise!Update
      BY <2>2, <2>3, <2>4, <2>5 DEF Simulated, Promise!Update
    <3> QED BY <3>1 DEF Promise!StatisticsNext
  <2> QED BY <2>1, <2>5
<1> QED BY <1>1, <1>2

LEMMA DriftGrows ==
  ASSUME NEW t \in Thread, HandlerStep(t), drift' = {} PROVE drift = {}
BY DEF HandlerStep, gen_alloc_enter, gen_alloc_exit2, gen_free_enter, exit_lookup, exit_read,
       exit_del, exit_stack, exit_bucket, exit_put, add_lookup, add_init, add, free_lookup, free_del,
       free_size, free_stack, del_lookup, del, mapVars

-----------------------------------------------------------------------------
(* Call stacks.  What a step of t's handler may do to stack_traces and to  *)
(* what the entries of allocs say.                                         *)

TraceEffect(t) ==
  /\ displaced \subseteq displaced'
  /\ \A b \in Bucket : \/ stack_traces'[b] = stack_traces[b]
                        \/ stack_traces[b] = None
                        \/ b \in displaced'
  /\ \A a \in Addr : allocs'[a] # None =>
       \/ allocs[a] # None /\ Entry(a)' = Entry(a)
       \/ pc[t] = "exit_put" /\ a = addr[t] /\ Entry(a)' = info[t]
  /\ \A u \in Thread \ {t} : info'[u] = info[u]
  /\ pc'[t] = "exit_put" /\ info'[t].stack \in Bucket =>
       stack_traces'[info'[t].stack] = call[t].trace
  /\ pc'[t] \in ExitLabel => pc[t] \in ExitLabel \/ call[t].fn = "kalloc"

LEMMA X_exit_stack ==
  ASSUME BpfTypeInv, NEW t \in Thread, exit_stack(t) PROVE TraceEffect(t)
<1> DEFINE b == StackHash[call[t].trace]
<1>1. /\ pc[t] = "exit_stack" /\ EEXIST \notin Bucket
      /\ UNCHANGED <<allocs, allocsData, stack_traces, displaced, call>>
      /\ pc \in [Thread -> Label] /\ info \in [Thread -> Infos]
  BY BpfAssumption DEF exit_stack, At, mapVars, BpfTypeInv, BpfTypeOK, ThreadsTyped
<1>2. \A u \in Thread \ {t} : info'[u] = info[u]
  BY <1>1 DEF exit_stack, WithStack
<1>3. pc'[t] = "exit_put" /\ info'[t].stack \in Bucket =>
        stack_traces[info'[t].stack] = call[t].trace
  <2>1. CASE UNCHANGED info /\ pc' = [pc EXCEPT ![t] = "exit_bucket"]
    BY <1>1, <2>1
  <2>2. CASE stack_traces[b] = call[t].trace /\ WithStack(t, b)
    BY <1>1, <2>2 DEF WithStack
  <2>3. CASE WithStack(t, EEXIST)
    BY <1>1, <2>3 DEF WithStack
  <2> QED BY <2>1, <2>2, <2>3 DEF exit_stack, Goto
<1> QED BY <1>1, <1>2, <1>3 DEF TraceEffect, Entry, ExitLabel

LEMMA X_exit_bucket ==
  ASSUME BpfTypeInv, NEW t \in Thread, exit_bucket(t) PROVE TraceEffect(t)
<1>0. PICK tr \in Trace : tr = call[t].trace
  BY DEF BpfTypeInv, Registers, ExitLabel, exit_bucket, At
<1>1. PICK b \in Bucket : b = StackHash[tr]
  BY DEF Bucket
<1>2. /\ pc[t] = "exit_bucket" /\ UNCHANGED <<allocs, allocsData>>
      /\ info \in [Thread -> Infos] /\ stack_traces \in [Bucket -> Trace \cup {None}]
      /\ info' = [info EXCEPT ![t] = [size |-> info[t].size, stack |-> b]]
      /\ stack_traces' = [stack_traces EXCEPT ![b] = tr]
      /\ displaced' = displaced \cup {x \in {b} : stack_traces[x] \notin {None, tr}}
  BY <1>0, <1>1 DEF exit_bucket, WithStack, At, BpfTypeInv, BpfTypeOK, ThreadsTyped, MapsTyped
<1>3. info'[t].stack = b /\ \A u \in Thread \ {t} : info'[u] = info[u]
  BY <1>2
<1>4. stack_traces'[b] = tr
  BY <1>2
<1>5. \A x \in Bucket : \/ stack_traces'[x] = stack_traces[x]
                        \/ stack_traces[x] = None
                        \/ x \in displaced'
  BY <1>2
<1>6. displaced \subseteq displaced'
  BY <1>2
<1> QED BY <1>0, <1>2, <1>3, <1>4, <1>5, <1>6 DEF TraceEffect, Entry, ExitLabel

LEMMA X_exit_put ==
  ASSUME BpfTypeInv, NEW t \in Thread, exit_put(t) PROVE TraceEffect(t)
<1>1. /\ allocs \in [Addr -> AllocsElem \cup {None}]
      /\ allocsData \in [AllocsElem -> Infos]
      /\ pc[t] = "exit_put" /\ pc'[t] = "add_lookup" /\ UNCHANGED <<info, stack_traces, displaced>>
      /\ addr[t] \in Addr
  BY DEF BpfTypeInv, BpfTypeOK, MapsTyped, ThreadsTyped, exit_put, At, Goto, Registers
<1>2. CASE UNCHANGED <<allocs, allocsData>>
  BY <1>1, <1>2 DEF TraceEffect, Entry, ExitLabel
<1>3. ASSUME NEW e \in Unused(allocs, AllocsElem),
             /\ allocs' = [allocs EXCEPT ![addr[t]] = e]
             /\ allocsData' = [allocsData EXCEPT ![e] = info[t]]
      PROVE  TraceEffect(t)
  <2>1. e \in AllocsElem /\ \A a \in Addr : allocs[a] # e
    BY <1>1 DEF Unused
  <2>2. allocsData'[allocs'[addr[t]]] = info[t]
    BY <1>1, <1>3, <2>1
  <2>3. ASSUME NEW a \in Addr \ {addr[t]}, allocs'[a] # None
        PROVE  allocs[a] # None /\ allocsData'[allocs'[a]] = allocsData[allocs[a]]
    BY <1>1, <1>3, <2>1, <2>3
  <2> QED BY <1>1, <2>2, <2>3 DEF TraceEffect, Entry, ExitLabel
<1> QED BY <1>2, <1>3 DEF exit_put

LEMMA X_free_del ==
  ASSUME BpfTypeInv, NEW t \in Thread, free_del(t) PROVE TraceEffect(t)
<1>1. /\ allocs \in [Addr -> AllocsElem \cup {None}]
      /\ allocs' = [allocs EXCEPT ![addr[t]] = None]
      /\ pc'[t] = "free_size" /\ UNCHANGED <<info, stack_traces, displaced, allocsData>>
  BY DEF BpfTypeInv, BpfTypeOK, MapsTyped, ThreadsTyped, free_del, At, Goto
<1>2. \A a \in Addr : allocs'[a] # None => allocs'[a] = allocs[a]
  BY <1>1
<1> QED BY <1>1, <1>2 DEF TraceEffect, Entry, ExitLabel

LEMMA HandlerTraceEffect ==
  ASSUME BpfTypeInv, NEW t \in Thread, HandlerStep(t) PROVE TraceEffect(t)
<1> USE DEF BpfTypeInv, BpfTypeOK, ThreadsTyped, At, Goto, mapVars
<1>0. ASSUME /\ UNCHANGED <<allocs, allocsData, stack_traces, displaced>>
             /\ \A u \in Thread \ {t} : info'[u] = info[u]
             /\ pc'[t] # "exit_put"
             /\ pc'[t] \in ExitLabel => pc[t] \in ExitLabel \/ call[t].fn = "kalloc"
      PROVE  TraceEffect(t)
  BY <1>0 DEF TraceEffect, Entry
<1>1. CASE gen_alloc_enter(t)
  BY <1>0, <1>1 DEF gen_alloc_enter, AfterEnter, ExitLabel
<1>2. CASE exit_lookup(t) \/ exit_del(t)
  BY <1>0, <1>2 DEF exit_lookup, exit_del, Return, ExitLabel
<1>3. CASE exit_read(t) \/ add_lookup(t)
  BY <1>0, <1>3 DEF exit_read, add_lookup, ExitLabel
<1>4. CASE add_init(t) \/ add(t)
  BY <1>0, <1>4 DEF add_init, add, Return, ExitLabel
<1>5. CASE free_lookup(t) \/ del_lookup(t) \/ del(t)
  BY <1>0, <1>5 DEF free_lookup, del_lookup, del, EndFree, AfterFree, ExitLabel
<1>6. CASE free_size(t) \/ free_stack(t)
  BY <1>0, <1>6 DEF free_size, free_stack, ExitLabel
<1> QED BY <1>1, <1>2, <1>3, <1>4, <1>5, <1>6, X_exit_stack, X_exit_bucket,
           X_exit_put, X_free_del
        DEF HandlerStep, gen_alloc_exit2, gen_free_enter

-----------------------------------------------------------------------------
(* Requested sizes.  How a step of t's handler moves the size of its call  *)
(* from the argument through the map sizes into the entry.                 *)

SizeEffect(t) ==
  /\ \A p \in Pid \ {Tgid[t]} :
       /\ sizes'[p] = sizes[p]
       /\ sizes[p] # None => sizesData'[sizes[p]] = sizesData[sizes[p]]
  /\ \A u \in Thread \ {t} : elem'[u] = elem[u]
  /\ \/ /\ pc[t] = "enter" /\ pc'[t] = AfterEnter(call[t].fn) /\ UNCHANGED allocs
        /\ \/ /\ sizes'[Tgid[t]] # None
              /\ sizesData'[sizes'[Tgid[t]]] = SizeArg(t)
           \/ /\ sizes'[Tgid[t]] = sizes[Tgid[t]]
              /\ \/ \E now \in Clock : Filtered(t, now)
                 \/ ~HasRoom(sizes, Tgid[t], SizesMax)
     \/ /\ pc[t] = "exit_lookup" /\ UNCHANGED <<sizes, sizesData, allocs>>
        /\ \/ pc'[t] = "run" /\ sizes[Tgid[t]] = None
           \/ pc'[t] = "exit_read" /\ elem'[t] = sizes[Tgid[t]] /\ elem'[t] # None
     \/ /\ pc[t] = "exit_read" /\ pc'[t] = "exit_del"
        /\ UNCHANGED <<sizes, sizesData, allocs>>
        /\ info'[t].size = sizesData[elem[t]]
     \/ /\ pc[t] = "exit_del" /\ sizes'[Tgid[t]] = None /\ UNCHANGED <<sizesData, allocs>>
        /\ \/ pc'[t] = "run" /\ addr[t] = NULL
           \/ pc'[t] = "exit_stack" /\ info'[t] = info[t]
     \/ /\ pc[t] \in {"exit_stack", "exit_bucket"} /\ pc'[t] \in {"exit_bucket", "exit_put"}
        /\ UNCHANGED <<sizes, sizesData, allocs>>
        /\ info'[t].size = info[t].size
     \/ /\ pc[t] = "exit_put" /\ pc'[t] = "add_lookup" /\ UNCHANGED <<sizes, sizesData>>
        /\ allocs'[addr[t]] # None \/ ~HasRoom(allocs, addr[t], AllocsMax)
     \/ /\ pc[t] \in AddLabel /\ pc'[t] \in AddLabel \cup {"run"}
        /\ UNCHANGED <<sizes, sizesData, allocs>>
     \/ /\ pc[t] \in FreeLabel /\ pc'[t] \in FreeLabel \cup {AfterFree(call[t].fn)}
        /\ UNCHANGED <<sizes, sizesData>>

LEMMA Z_gen_alloc_enter ==
  ASSUME BpfTypeInv, NEW t \in Thread, gen_alloc_enter(t) PROVE SizeEffect(t)
<1>1. /\ sizes \in [Pid -> SizesElem \cup {None}] /\ sizesData \in [SizesElem -> Word]
      /\ Tgid[t] \in Pid /\ pc[t] = "enter" /\ pc'[t] = AfterEnter(call[t].fn)
      /\ UNCHANGED <<elem, allocs>> /\ None \notin SizesElem
  BY BpfAssumption DEF BpfTypeInv, BpfTypeOK, MapsTyped, ThreadsTyped, gen_alloc_enter, At, Goto
<1>2. CASE UNCHANGED <<sizes, sizesData>>
  <2>1. (\E now \in Clock : Filtered(t, now)) \/ ~HasRoom(sizes, Tgid[t], SizesMax)
        \/ \E e \in Unused(sizes, SizesElem) : sizes' = [sizes EXCEPT ![Tgid[t]] = e]
    BY DEF gen_alloc_enter
  <2>2. ASSUME NEW e \in Unused(sizes, SizesElem), sizes' = [sizes EXCEPT ![Tgid[t]] = e]
        PROVE  FALSE
    BY <1>1, <1>2, <2>2 DEF Unused
  <2> QED BY <1>1, <1>2, <2>1, <2>2 DEF SizeEffect
<1>3. ASSUME NEW e \in Unused(sizes, SizesElem),
             sizes' = [sizes EXCEPT ![Tgid[t]] = e],
             sizesData' = [sizesData EXCEPT ![e] = SizeArg(t)]
      PROVE  SizeEffect(t)
  <2>1. e \in SizesElem /\ \A p \in Pid : sizes[p] # e
    BY <1>1 DEF Unused
  <2>2. sizes'[Tgid[t]] = e /\ e # None /\ sizesData'[e] = SizeArg(t)
    BY <1>1, <1>3, <2>1
  <2>3. ASSUME NEW p \in Pid \ {Tgid[t]}
        PROVE  /\ sizes'[p] = sizes[p]
               /\ sizes[p] # None => sizesData'[sizes[p]] = sizesData[sizes[p]]
    BY <1>1, <1>3, <2>1
  <2> QED BY <1>1, <2>2, <2>3 DEF SizeEffect
<1> QED BY <1>2, <1>3 DEF gen_alloc_enter

LEMMA Z_exit_put ==
  ASSUME BpfTypeInv, NEW t \in Thread, exit_put(t) PROVE SizeEffect(t)
<1>1. /\ allocs \in [Addr -> AllocsElem \cup {None}] /\ addr[t] \in Addr
      /\ pc[t] = "exit_put" /\ pc'[t] = "add_lookup"
      /\ UNCHANGED <<sizes, sizesData, elem>> /\ None \notin AllocsElem
  BY BpfAssumption DEF BpfTypeInv, BpfTypeOK, MapsTyped, ThreadsTyped, Registers, exit_put, At,
                       Goto
<1>2. ASSUME NEW e \in Unused(allocs, AllocsElem), allocs' = [allocs EXCEPT ![addr[t]] = e]
      PROVE  allocs'[addr[t]] # None
  BY <1>1, <1>2 DEF Unused
<1>3. allocs'[addr[t]] # None \/ ~HasRoom(allocs, addr[t], AllocsMax)
  BY <1>2 DEF exit_put
<1> QED BY <1>1, <1>3 DEF SizeEffect

LEMMA HandlerSizeEffect ==
  ASSUME BpfTypeInv, NEW t \in Thread, HandlerStep(t) PROVE SizeEffect(t)
<1>0. Tgid[t] \in Pid
  BY BpfAssumption
<1> USE <1>0 DEF BpfTypeInv, BpfTypeOK, ThreadsTyped, MapsTyped, At, Goto, mapVars
<1>1. CASE exit_lookup(t)
  BY <1>1 DEF exit_lookup, Return, SizeEffect
<1>2. CASE exit_read(t)
  BY <1>2 DEF exit_read, SizeEffect
<1>3. CASE exit_del(t)
  BY <1>3 DEF exit_del, Return, SizeEffect
<1>4. CASE exit_stack(t) \/ exit_bucket(t)
  BY <1>4 DEF exit_stack, exit_bucket, WithStack, SizeEffect
<1>5. CASE add_lookup(t) \/ add_init(t) \/ add(t)
  BY <1>5 DEF add_lookup, add_init, add, Return, AddLabel, SizeEffect
<1>6. CASE free_lookup(t) \/ del_lookup(t) \/ del(t)
  BY <1>6 DEF free_lookup, del_lookup, del, EndFree, FreeLabel, SizeEffect
<1>7. CASE free_del(t) \/ free_size(t) \/ free_stack(t)
  BY <1>7 DEF free_del, free_size, free_stack, FreeLabel, SizeEffect
<1> QED BY <1>1, <1>2, <1>3, <1>4, <1>5, <1>6, <1>7, Z_gen_alloc_enter, Z_exit_put
        DEF HandlerStep, gen_alloc_exit2, gen_free_enter

=============================================================================
