--------------------------- MODULE LifecycleProofs ---------------------------
(* Theorems about Lifecycle, for every set of command lines.               *)
EXTENDS Lifecycle, TLAPS

-----------------------------------------------------------------------------
(* The inductive invariant, in the order in which the process lives.       *)

\* What main.go and loadObjects have made of the command line.
StackFlags == IF flags.pid = 0 THEN "kernel" ELSE "user"

Configured ==
  /\ main = "start" => config = Defaults
  /\ main = "load" => config = [Defaults EXCEPT !.stack_flags = StackFlags]
  /\ main \in {"libc", "attach", "select", "close", "defer"} \/ monitor # "none" =>
       /\ config.stack_flags = StackFlags
       /\ config.target_pid = Positive(flags.pid, 0)

\* The goroutine runs only when every program is attached, and never gets into
\* its loop with a negative pid.
Attached ==
  /\ main \in {"select", "close", "defer"} => monitor # "none"
  /\ monitor # "none" => main \in {"select", "close", "defer", "exited"}
  /\ monitor # "none" => opened = Len(Programs)
  /\ monitor \in {"combined", "allocs", "print", "sleep"} => flags.pid >= 0

\* Close comes before the deferred calls, and its failure is remembered.
Closing ==
  /\ main \in {"start", "load", "libc", "attach", "select"} =>
       closed = 0 /\ ~closeErr
  /\ main = "close" => ~closeErr
  /\ main \in {"libc", "attach", "select", "close"} => open = Objects
  /\ main = "defer" => closed = opened \/ closeErr
  /\ main = "exited" /\ monitor # "none" => closed = opened \/ closeErr

Ended ==
  /\ status = "running" <=> main # "exited"
  /\ status = "ok" => ~closeErr /\ monitor # "none"

\* The monitor has ended for a reason that lasts.
Stopped ==
  /\ monitor = "done" => (flags.pid > 0 /\ target # "alive") \/ flags.pid < 0
  /\ main \in {"close", "defer"} \/ status = "ok" => Ready

IInv ==
  TypeOK /\ Configured /\ Attached /\ Closing /\ Ended /\ Stopped /\ CleanExit

LEMMA LenPrograms ==
  /\ Len(Programs) = IF flags.pid > 0 THEN 7 ELSE 2
  /\ Programs[1] = IF flags.pid > 0 THEN "malloc_enter" ELSE "memleak__kmalloc"
BY DEF Programs

\* The command line does not change.
LEMMA FlagsTyped ==
  ASSUME TypeOK
  PROVE  flags.pid \in Int /\ flags.minSize \in Nat /\ flags.maxSize \in Nat
         /\ flags.sampleRate \in Nat
BY FlagsAssumption DEF TypeOK

LEMMA InitIInv == Init => IInv
<1> SUFFICES ASSUME Init PROVE IInv
  OBVIOUS
<1> USE DEF Init
<1>0. Defaults \in [target_pid : Nat, min_size : Nat, max_size : Nat \cup {-1},
                     sample_rate : Nat, stack_flags : {"kernel", "user"}]
  BY DEF Defaults
<1>1. TypeOK
  <2>1. opened \in 0 .. Len(Programs) /\ closed \in 0 .. opened
    BY LenPrograms
  <2>2. closeErr \in BOOLEAN /\ unseen \in BOOLEAN
    BY Zenon
  <2> QED BY <1>0, <2>1, <2>2 DEF TypeOK
<1>2. Configured /\ Attached /\ Closing /\ Ended /\ Stopped /\ CleanExit
  BY DEF Configured, Attached, Closing, Ended, Stopped, CleanExit
<1> QED BY <1>1, <1>2 DEF IInv

LEMMA StartStep ==
  ASSUME IInv, Start, UNCHANGED <<flags, sig, target, unseen>> PROVE IInv'
<1> USE DEF IInv, Start
<1>1. TypeOK'
  BY DEF TypeOK, Programs
<1>2. Configured'
  BY DEF Configured, Attached, Defaults, StackFlags
<1>3. Attached' /\ Closing' /\ Ended' /\ Stopped' /\ CleanExit'
  BY DEF Attached, Closing, Ended, Stopped, CleanExit, Ready, Programs
<1> QED BY <1>1, <1>2, <1>3

LEMMA loadObjectsStep ==
  ASSUME IInv, loadObjects, UNCHANGED <<flags, sig, target, unseen>> PROVE IInv'
<1> USE DEF IInv, loadObjects, Exit
<1>1. TypeOK'
  BY FlagsTyped DEF TypeOK, Programs, Positive, Configured, Defaults
<1>2. Configured'
  BY DEF Configured, Attached, Defaults, StackFlags, Positive
<1>3. Attached' /\ Closing' /\ Ended' /\ Stopped' /\ CleanExit'
  BY DEF Attached, Closing, Ended, Stopped, CleanExit, Ready, Programs
<1> QED BY <1>1, <1>2, <1>3

LEMMA getLibcPathStep ==
  ASSUME IInv, getLibcPath, UNCHANGED <<flags, sig, target, unseen>> PROVE IInv'
<1> USE DEF IInv, getLibcPath, Exit
<1>1. TypeOK'
  BY DEF TypeOK, Programs
<1>2. Configured' /\ Attached' /\ Closing' /\ Ended' /\ Stopped' /\ CleanExit'
  BY DEF Configured, StackFlags, Attached, Closing, Ended, Stopped, CleanExit,
         Ready, Programs
<1> QED BY <1>1, <1>2

LEMMA attachProgramsStep ==
  ASSUME IInv, attachPrograms, UNCHANGED <<flags, sig, target, unseen>> PROVE IInv'
<1> USE DEF IInv, attachPrograms, Exit
<1>0. Programs' = Programs /\ Len(Programs) \in Nat
  BY LenPrograms DEF Programs
<1>1. TypeOK'
  BY <1>0 DEF TypeOK
<1>2. Configured' /\ Attached' /\ Closing' /\ Ended' /\ Stopped' /\ CleanExit'
  BY <1>0 DEF Configured, StackFlags, Attached, Closing, Ended, Stopped, CleanExit, Ready
<1> QED BY <1>1, <1>2

LEMMA StartMonitorStep ==
  ASSUME IInv, StartMonitor, UNCHANGED <<flags, sig, target, unseen>> PROVE IInv'
<1> USE DEF IInv, StartMonitor
<1>1. TypeOK'
  BY DEF TypeOK, Programs
<1>2. Configured' /\ Attached' /\ Closing' /\ Ended' /\ Stopped' /\ CleanExit'
  BY DEF Configured, StackFlags, Attached, Closing, Ended, Stopped, CleanExit,
         Ready, Programs
<1> QED BY <1>1, <1>2

LEMMA SelectStep ==
  ASSUME IInv, Select, UNCHANGED <<flags, sig, target, unseen>> PROVE IInv'
<1> USE DEF IInv, Select
<1>1. TypeOK'
  BY DEF TypeOK, Programs
<1>2. Configured' /\ Attached' /\ Closing' /\ Ended' /\ Stopped' /\ CleanExit'
  BY DEF Configured, StackFlags, Attached, Closing, Ended, Stopped, CleanExit,
         Ready, Programs
<1> QED BY <1>1, <1>2

LEMMA CloseStep ==
  ASSUME IInv, Close, UNCHANGED <<flags, sig, target, unseen>> PROVE IInv'
<1> USE DEF IInv, Close, LinksLeft, GiveUp
<1>0. Programs' = Programs /\ Len(Programs) \in Nat
  BY LenPrograms DEF Programs
<1>1. TypeOK'
  <2>1. closed' \in 0 .. opened' /\ opened' \in 0 .. Len(Programs)'
    BY <1>0 DEF TypeOK
  <2>2. closeErr' \in BOOLEAN
    BY Zenon DEF TypeOK
  <2> QED BY <2>1, <2>2 DEF TypeOK
<1>2. Configured' /\ Attached' /\ Closing' /\ Ended' /\ Stopped' /\ CleanExit'
  BY <1>0 DEF TypeOK, Configured, StackFlags, Attached, Closing, Ended, Stopped,
              CleanExit, Ready
<1> QED BY <1>1, <1>2

LEMMA DeferredStep ==
  ASSUME IInv, Deferred, UNCHANGED <<flags, sig, target, unseen>> PROVE IInv'
<1> USE DEF IInv, Deferred, Exit
<1>1. TypeOK'
  BY DEF TypeOK, Programs
<1>2. Configured' /\ Attached' /\ Closing' /\ Ended' /\ Stopped' /\ CleanExit'
  BY DEF TypeOK, Configured, StackFlags, Attached, Closing, Ended, Stopped,
         CleanExit, Ready, Programs
<1> QED BY <1>1, <1>2

LEMMA MonitorStepStep == ASSUME IInv, MonitorStep PROVE IInv'
<1> USE DEF IInv, MonitorStep, mainVars
<1>1. TypeOK'
  BY DEF TypeOK, Programs, KeepOn
<1>2. Configured' /\ Attached'
  BY FlagsTyped DEF Configured, StackFlags, Attached, Programs, KeepOn
<1>3. Closing' /\ Ended' /\ CleanExit'
  BY DEF Closing, Ended, CleanExit, Attached
<1>4. Stopped'
  BY FlagsTyped DEF Stopped, Ready, KeepOn, isProcessAlive, Ended
<1> QED BY <1>1, <1>2, <1>3, <1>4

LEMMA OutsideStep ==
  ASSUME IInv, Cancel \/ Signal \/ TargetStep \/ Allocates PROVE IInv'
<1> USE DEF IInv, Cancel, Signal, TargetStep, TargetDies, Reaped, PidReused,
            OtherEnds, Allocates, mainVars, Exit
<1>1. TypeOK'
  <2>1. unseen' \in BOOLEAN
    BY Zenon DEF TypeOK
  <2>2. Programs' = Programs
    BY Zenon DEF Programs
  <2> QED BY <2>1, <2>2 DEF TypeOK
<1>2. Configured' /\ Attached' /\ Closing' /\ Ended' /\ CleanExit'
  BY DEF Configured, StackFlags, Attached, Programs, Closing, Ended, CleanExit
<1>3. Stopped'
  BY DEF Stopped, Ready, Attached, Ended
<1> QED BY <1>1, <1>2, <1>3

LEMMA IInvStep == IInv /\ [Next]_vars => IInv'
<1> SUFFICES ASSUME IInv, [Next]_vars PROVE IInv'
  OBVIOUS
<1>1. CASE MainStep
  BY <1>1, StartStep, loadObjectsStep, getLibcPathStep, attachProgramsStep,
     StartMonitorStep, SelectStep, CloseStep, DeferredStep DEF MainStep
<1>2. CASE MonitorStep
  BY <1>2, MonitorStepStep
<1>3. CASE Cancel \/ Signal \/ TargetStep \/ Allocates
  BY <1>3, OutsideStep
<1>4. CASE UNCHANGED vars
  BY <1>4 DEF vars, mainVars, IInv, TypeOK, Configured, StackFlags, Attached, Closing,
              Ended, Stopped, CleanExit, Ready, Programs
<1> QED BY <1>1, <1>2, <1>3, <1>4 DEF Next

LEMMA IInvAlways == Spec => []IInv
BY InitIInv, IInvStep, PTL DEF Spec

\* Type correctness of the life of the process: in particular probe.Close
\* (probe.go:339-350) never goes past the links attachPrograms opened.
THEOREM TypeCorrect == Spec => []TypeOK
BY IInvAlways, PTL DEF IInv

\* For every command line, a report is only made of a tracer whose stack flag
\* (main.go), target (loadObjects) and programs (attachPrograms) agree, with
\* every program attached.
THEOREM CoherentReportTheorem == Spec => []CoherentReport
<1>1. IInv => CoherentReport
  <2> SUFFICES ASSUME IInv, Reporting PROVE CoherentReport
    BY DEF CoherentReport
  <2>1. flags.pid \in Int /\ flags.pid >= 0
    BY FlagsTyped DEF IInv, Attached, Reporting
  <2> QED BY <2>1, LenPrograms
          DEF IInv, Attached, Configured, StackFlags, Positive, Reporting, CoherentReport
<1> QED BY <1>1, IInvAlways, PTL

\* Success means that every program is detached and both maps are closed.
THEOREM CleanExitTheorem == Spec => []CleanExit
BY IInvAlways, PTL DEF IInv

\* Without a signal the reporting goroutine, which nobody waits for, finds its
\* maps open in every walk (probe.go:457-460, 547-554), also when probe.Close
\* fails: Run closes them only after select, and select is then left only when
\* the goroutine has ended.  After a signal a walk may find its map closed.
THEOREM WalksOpenMapsTheorem == Spec => []WalksOpenMaps
<1>1. IInv => WalksOpenMaps
  BY DEF IInv, TypeOK, Attached, Closing, Stopped, Ready, WalksOpenMaps, Objects
<1> QED BY <1>1, IInvAlways, PTL

\* Success means that the tracer was told to stop, or that its target is dead.
THEOREM OnlyStopsTheorem == Spec => []OnlyStopsWhenAsked
<1>1. IInv => OnlyStopsWhenAsked
  BY DEF IInv, Stopped, Ready, OnlyStopsWhenAsked
<1> QED BY <1>1, IInvAlways, PTL

=============================================================================
