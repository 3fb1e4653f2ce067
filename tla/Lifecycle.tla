----------------------------- MODULE Lifecycle ------------------------------
(***************************************************************************)
(* The life of one ebpf-memleak process: main (cmd/main.go), probe.Run     *)
(* with its set-up and shutdown (internal/probe/probe.go), the goroutine   *)
(* that waits for a signal, and the goroutine that reports until the       *)
(* target is gone.  What a report contains is module Reporter's subject;   *)
(* here its round is the reads of the two maps, the printing, the sleep.   *)
(* The kernel, the C library and the traced process are external: a load,  *)
(* an attachment or a link's Close may fail, and the target may die at any *)
(* moment, stay a zombie, be reaped, and have its pid used again.          *)
(***************************************************************************)
EXTENDS Integers, Sequences

CONSTANT Flags    \* command lines: records of pid, minSize, maxSize, sampleRate

ASSUME FlagsAssumption ==
  Flags \subseteq [pid : Int, minSize : Nat, maxSize : Nat, sampleRate : Nat]

VARIABLES
  flags,       \* the command line
  config,      \* the constants loadObjects writes into the BPF object
  main,        \* where the main goroutine is
  open,        \* the BPF objects that are open
  opened,      \* how many links are in p.links
  closed,      \* how many of them Close has closed
  closeErr,    \* Close has failed
  status,      \* how the tracer ended
  sig,         \* "none", "caught" (in sigChan), "cancelled" (ctx is done)
  monitor,     \* where the reporting goroutine is
  target,      \* the process with the traced pid
  unseen       \* an allocation has been recorded that no walk has met yet

mainVars == <<config, main, open, opened, closed, closeErr, status>>
vars == <<flags, mainVars, sig, monitor, target, unseen>>

\* The constants of memleak.bpf.c:11-18 before they are set.
Defaults == [target_pid |-> 0, min_size |-> 0, max_size |-> -1,
             sample_rate |-> 0, stack_flags |-> "kernel"]

\* The programs attachPrograms attaches, in its order.
Programs ==
  IF flags.pid > 0
    THEN << "malloc_enter", "malloc_exit", "free_enter", "calloc_enter",
            "calloc_exit", "realloc_enter", "realloc_exit" >>
    ELSE << "memleak__kmalloc", "memleak__kfree" >>

Objects == {"programs", "sizes", "allocs", "combined_allocs", "memptrs",
            "stack_traces"}

Init ==
  /\ flags \in Flags
  /\ config = Defaults
  /\ main = "start"
  /\ open = {}
  /\ opened = 0
  /\ closed = 0
  /\ closeErr = FALSE
  /\ status = "running"
  /\ sig = "none"
  /\ monitor = "none"
  /\ target = "alive"
  /\ unseen = FALSE

Exit(code) ==
  /\ main' = "exited"
  /\ status' = code

-----------------------------------------------------------------------------
(* The main goroutine.  MainStep adds what none of its steps changes.      *)

\* main up to probe.Run: the stack flag follows the pid, and signalHandler
\* has SIGINT and SIGTERM delivered to its channel from now on.
Start ==
  /\ main = "start"
  /\ main' = "load"
  /\ config' = [config EXCEPT !.stack_flags =
                  IF flags.pid = 0 THEN "kernel" ELSE "user"]
  /\ UNCHANGED <<open, opened, closed, closeErr, status, monitor>>

Positive(flag, default) == IF flag > 0 THEN flag ELSE default

\* Only flags above zero are written over the defaults.
loadObjects ==
  /\ main = "load"
  /\ \/ /\ main' = IF flags.pid > 0 THEN "libc" ELSE "attach"
        /\ config' =
             [target_pid  |-> Positive(flags.pid, config.target_pid),
              min_size    |-> Positive(flags.minSize, config.min_size),
              max_size    |-> Positive(flags.maxSize, config.max_size),
              sample_rate |-> Positive(flags.sampleRate, config.sample_rate),
              stack_flags |-> config.stack_flags]
        /\ open' = Objects
        /\ UNCHANGED status
     \/ Exit("error") /\ UNCHANGED <<config, open>>
  /\ UNCHANGED <<opened, closed, closeErr, monitor>>

\* /proc/<pid>/maps of a zombie is empty; a process need not map a libc.
getLibcPath ==
  /\ main = "libc"
  /\ \/ target \in {"alive", "reused"} /\ main' = "attach" /\ UNCHANGED status
     \/ Exit("error")
  /\ UNCHANGED <<config, open, opened, closed, closeErr, monitor>>

\* One program of attachPrograms.  A failure ends the process: by log.Fatalf
\* for a uprobe, by the error that newProbe and Run return for a tracepoint.
attachPrograms ==
  /\ main = "attach"
  /\ opened < Len(Programs)
  /\ \/ opened' = opened + 1 /\ UNCHANGED <<main, status>>
     \/ Exit("error") /\ UNCHANGED opened
  /\ UNCHANGED <<config, open, closed, closeErr, monitor>>

\* Run starts the reporting goroutine and waits.
StartMonitor ==
  /\ main = "attach"
  /\ opened = Len(Programs)
  /\ main' = "select"
  /\ monitor' = "check"
  /\ UNCHANGED <<config, open, opened, closed, closeErr, status>>

\* Faulty variants, for testing the properties: the context is not waited for;
\* the goroutine closes processDone when it starts, without the defer.
ReadyWhenDone == monitor = "done"
ReadyNotDeferred == sig = "cancelled" \/ monitor # "none"

\* select on ctx.Done() and processDone.
Ready == sig = "cancelled" \/ monitor = "done"

Select ==
  /\ main = "select" /\ Ready
  /\ main' = "close"
  /\ UNCHANGED <<config, open, opened, closed, closeErr, status, monitor>>

\* Faulty variants, for testing the properties: one link too many, a failure
\* that is not returned.
LinksLeftOneMore == closed <= opened
GiveUpSilently == main' = "defer" /\ UNCHANGED closeErr

\* probe.Close: link by link, giving up at the first one that fails.
LinksLeft == closed < opened
GiveUp == main' = "defer" /\ closeErr' = TRUE

Close ==
  /\ main = "close"
  /\ \/ LinksLeft /\ closed' = closed + 1 /\ UNCHANGED <<main, closeErr>>
     \/ LinksLeft /\ GiveUp /\ UNCHANGED closed
     \/ ~LinksLeft /\ main' = "defer" /\ UNCHANGED <<closed, closeErr>>
  /\ UNCHANGED <<config, open, opened, status, monitor>>

\* Run's deferred calls, last one first, then the end of main.
Deferred ==
  /\ main = "defer"
  /\ \/ /\ "combined_allocs" \in open
        /\ open' = open \ {"combined_allocs"}
        /\ UNCHANGED <<main, status>>
     \/ /\ "combined_allocs" \notin open
        /\ "allocs" \in open
        /\ open' = open \ {"allocs"}
        /\ UNCHANGED <<main, status>>
     \/ /\ open \cap {"allocs", "combined_allocs"} = {}
        /\ Exit(IF closeErr THEN "error" ELSE "ok")
        /\ UNCHANGED open
  /\ UNCHANGED <<config, opened, closed, closeErr, monitor>>

MainStep ==
  /\ \/ Start \/ loadObjects \/ getLibcPath \/ attachPrograms \/ StartMonitor
     \/ Select \/ Close \/ Deferred
  /\ UNCHANGED <<flags, sig, target, unseen>>

-----------------------------------------------------------------------------
(* The other goroutines, which end with the process.                       *)

\* signalHandler's goroutine cancels the context.
Cancel ==
  /\ main # "exited"
  /\ sig = "caught"
  /\ sig' = "cancelled"
  /\ UNCHANGED <<flags, mainVars, monitor, target, unseen>>

\* Faulty variant, for testing the properties: only FindProcess is asked, which
\* never fails.
FindProcessOnly == TRUE

\* isProcessAlive: signal 0 reaches whatever process has the pid, a zombie
\* and an unrelated one too.
isProcessAlive == target # "gone"

\* Faulty variants, for testing the properties: a loop that also runs for a
\* negative pid, one that does not run for pid 0.
KeepOnNotPositive == (flags.pid > 0 /\ isProcessAlive) \/ flags.pid <= 0
KeepOnUserOnly == flags.pid > 0 /\ isProcessAlive

\* The condition of the goroutine's loop; when it fails processDone closes.
KeepOn == (flags.pid > 0 /\ isProcessAlive) \/ flags.pid = 0

\* The loop: its condition, the walks over combined_allocs and allocs, the
\* printing, the sleep.  A walk that finds its map closed breaks off, and what
\* it has read so far is printed (Reporter's ScanFails).
MonitorStep ==
  /\ main # "exited"
  /\ \/ monitor = "check" /\ monitor' = IF KeepOn THEN "combined" ELSE "done"
     \/ monitor = "combined" /\ monitor' = "allocs"
     \/ monitor = "allocs" /\ monitor' = "print"
     \/ monitor = "print" /\ monitor' = "sleep"
     \/ monitor = "sleep" /\ monitor' = "check"
  /\ unseen' = (unseen /\ ~(monitor = "combined" /\ "combined_allocs" \in open))
  /\ UNCHANGED <<flags, mainVars, sig, target>>

-----------------------------------------------------------------------------
(* The outside world.                                                      *)

\* SIGINT or SIGTERM; before signalHandler has run it kills.  sigChan holds
\* one signal, and nobody waits for a second one.
Signal ==
  /\ main # "exited"
  /\ sig = "none"
  /\ \/ main = "start" /\ Exit("killed") /\ UNCHANGED sig
     \/ main # "start" /\ sig' = "caught" /\ UNCHANGED <<main, status>>
  /\ UNCHANGED <<flags, config, open, opened, closed, closeErr, monitor, target,
                 unseen>>

TargetDies == target = "alive" /\ target' = "zombie"
Reaped == target = "zombie" /\ target' = "gone"
PidReused == target = "gone" /\ target' = "reused"
OtherEnds == target = "reused" /\ target' = "gone"

TargetStep ==
  /\ TargetDies \/ Reaped \/ PidReused \/ OtherEnds
  /\ UNCHANGED <<flags, mainVars, sig, monitor, unseen>>

\* The traced process, or the kernel, allocates and every program is attached.
Allocates ==
  /\ opened = Len(Programs) /\ closed = 0 /\ main # "exited"
  /\ flags.pid <= 0 \/ target = "alive"
  /\ unseen' = TRUE
  /\ UNCHANGED <<flags, mainVars, sig, monitor, target>>

Next == MainStep \/ Cancel \/ MonitorStep \/ Signal \/ TargetStep \/ Allocates

\* The Go runtime schedules every goroutine that can run; a sleep, a map read
\* and a link operation end.  Nothing is assumed of signals or of the target.
Fairness == WF_vars(MainStep) /\ WF_vars(Cancel) /\ WF_vars(MonitorStep)

Spec == Init /\ [][Next]_vars /\ Fairness

-----------------------------------------------------------------------------
(* Properties.                                                             *)

\* The type invariant of the process's state.
TypeOK ==
  /\ flags \in Flags
  /\ config \in [target_pid : Nat, min_size : Nat, max_size : Nat \cup {-1},
                 sample_rate : Nat, stack_flags : {"kernel", "user"}]
  /\ main \in {"start", "load", "libc", "attach", "select", "close", "defer",
               "exited"}
  /\ open \subseteq Objects
  /\ opened \in 0 .. Len(Programs)
  /\ closed \in 0 .. opened
  /\ closeErr \in BOOLEAN
  /\ sig \in {"none", "caught", "cancelled"}
  /\ monitor \in {"none", "check", "combined", "allocs", "print", "sleep", "done"}
  /\ target \in {"alive", "zombie", "gone", "reused"}
  /\ status \in {"running", "ok", "error", "killed"}
  /\ unseen \in BOOLEAN

Reporting == main # "exited" /\ monitor \in {"combined", "allocs", "print"}

\* Whatever the flags, a report is only made of a tracer whose parts agree:
\* the uprobes with target_pid and user stacks, or the tracepoints with no
\* target and kernel stacks, all of them attached before the first report.
\* main.go sets the stack flag, loadObjects the target and attachPrograms the
\* programs, each by its own test of the pid.
CoherentReport ==
  Reporting =>
    /\ opened = Len(Programs)
    /\ \/ /\ flags.pid > 0
          /\ config.target_pid = flags.pid
          /\ config.stack_flags = "user"
          /\ Programs[1] = "malloc_enter"
       \/ /\ config.target_pid = 0
          /\ config.stack_flags = "kernel"
          /\ Programs[1] = "memleak__kmalloc"

\* A tracer that ends with success has detached every program it attached and
\* closed the two maps Run defers, on both ways out of select.
CleanExit ==
  status = "ok" =>
    closed = opened /\ open \cap {"allocs", "combined_allocs"} = {}

\* A report is never cut short by the tracer's own shutdown unless a signal
\* asked for it: nobody waits for the reporting goroutine, which may be in the
\* middle of a walk when Run's deferred calls close its maps, but without a
\* signal Run gets there only after the goroutine has left its loop, also when
\* Close gives up half-way.
WalksOpenMaps ==
  main # "exited" /\ sig # "cancelled" =>
    /\ monitor = "combined" => "combined_allocs" \in open
    /\ monitor = "allocs" => "allocs" \in open

\* The tracer never gives up on a target that lives: success means that it was
\* told to stop, or that the traced process is dead (or the pid negative).
OnlyStopsWhenAsked ==
  status = "ok" =>
    \/ sig = "cancelled"
    \/ flags.pid > 0 /\ target # "alive"
    \/ flags.pid < 0

\* Ctrl-C always ends the tracer, at whatever moment it comes, also while
\* programs are being attached, when nobody looks at the context yet.
SignalStops == sig = "caught" ~> main = "exited"

\* A target whose pid is gone for good ends the tracer.
ExitStops == <>[](flags.pid > 0 /\ target = "gone") => <>(main = "exited")

\* What was recorded is reported: after every allocation another walk over
\* combined_allocs comes, unless the tracer is told to stop, its target dies
\* first (the loop ends without a last report, probe.go:467) or the pid is
\* negative.
LeaksReported ==
  unseen ~>
    \/ ~unseen
    \/ sig # "none"
    \/ flags.pid > 0 /\ target # "alive"
    \/ flags.pid < 0

=============================================================================
