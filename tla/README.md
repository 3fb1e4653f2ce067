# A TLA+ model of ebpf-memleak

`ebpf-memleak` finds memory leaks with eBPF: probes on the allocation functions
of a process (or on the kernel's `kmalloc`/`kfree`) record every outstanding
block in BPF maps, and a Go program prints, every five seconds, the call stacks
that hold the most bytes. This directory models the parts of it that run
concurrently, fail, or count, checks them with TLC on small instances, and
proves their safety properties with TLAPS for every instance. All paths below are
relative to the repository.

## Inventory

| part | state | operations | works with |
|---|---|---|---|
| BPF handlers (`bpf/memleak.bpf.c`, `bpf/maps.bpf.h`) | maps `sizes` (pid → requested size), `allocs` (address → size, time, stack id), `combined_allocs` (stack id → packed totals), `stack_traces` | `gen_alloc_enter`, `gen_alloc_exit2`, `gen_free_enter`, `update_statistics_add/_del` | run on every CPU at once, inside the traced functions |
| user probes (`bpf/memleak.bpf.c:179-320`) | map `memptrs` (pid → address of a pointer variable) | entry and exit of `malloc`, `calloc`, `realloc`, entry of `free` (attached); `posix_memalign`, `aligned_alloc`, `valloc`, `memalign`, `pvalloc`, `mmap`, `munmap` (never attached) | call the handlers before and after the C library |
| kernel probes (`bpf/memleak.bpf.c:322-545`, `bpf/core_fixes.bpf.h`) | – | tracepoints `kmalloc`, `kfree` (attached); `kmalloc_node`, `kmem_cache_*`, `mm_page_*`, `percpu_*` (never attached), with `wa_missing_free` | call the handlers from any context |
| packed word (`bpf/memleak.h`) | 40-bit `total_size` and 24-bit `number_of_allocs` in one word | atomic add and subtract | one word per stack id |
| loader (`internal/probe/probe.go:73-333`) | `p.links`, the constants of the BPF object | `loadObjects`, `getLibcPath`, `attachPrograms` | attaches while the target runs |
| reporter (`probe.go:466-545`) | min-heap, sorted result | walk, select, print, sleep | reads the maps while the handlers write them |
| decoding (`internal/info/info.go`) | – | `GetCombinedAllocInfo` | reporter |
| shutdown (`probe.go:335-346, 546-555`, `cmd/main.go`) | context, `processDone`, links, map handles | `signalHandler`, `select`, `Close`, deferred calls | signal, reporter goroutine, target process |
| symbolizers (`internal/symbolizer`, `probe.go:374-438`) | mappings and symbol tables, read anew for every printed stack | `loadSymbols`, `NewUserspaceSymbolResolver`, `NewKernelSymbolResolver`, `Resolve` | read the target's mappings while it runs |
| `internal/timer`, generated bindings, test programs | – | – | – |

What is hard here: handlers of several threads interleave between map accesses,
pointers into maps outlive the entries they came from, maps fill up, the bit
fields overflow, `realloc` and `calloc` fail half-way, probes are attached one by
one, tracepoint events are lost, the reporter reads while handlers write and
while the shutdown closes its maps, recorded addresses are return addresses and
outlive the code they point into, and the process must end on a signal or with
its target at whatever moment that comes. `PROJECT.json` lists these hazards with the lines where they bite.

## Modules

| module | models |
|---|---|
| `CombinedAllocInfo` | the packed word: truncation, wrap-around, what a set of entries should add up to |
| `BpfHashMap` | BPF hash maps as the programs use them (kernel code): capacity, and elements that are reused at once |
| `MemleakBpf` | the maps and the three generic handlers, one action per access to shared memory |
| `Statistics` | the abstract specification of the statistics: words that gain and lose one entry at a time |
| `UserHeap` | extends `MemleakBpf` with the probes on functions that return their block, the attachment of the seven in use, the C library and the program |
| `LibcHeap` | extends `UserHeap` with `posix_memalign` (map `memptrs`), `mmap` and `munmap` |
| `KernelHeap` | extends `MemleakBpf` with all tracepoints, the three kernel allocators, the choice of event types and lost events |
| `Reporter` | extends `Statistics` with the reporting round that reads it |
| `Symbolizer` | naming the frames of a printed stack |
| `Lifecycle` | the tracer process from `main` to its end |
| `MC*` | values of the constants for TLC, symmetry sets, views, constraints |
| `CombinedAllocInfoProofs`, `MemleakBpfProofs` | lemmas: the arithmetic of the packed word; what one step of a handler may do |
| `UserHeapProofs`, `KernelHeapProofs`, `StatisticsProofs`, `ReporterProofs`, `SymbolizerProofs`, `LifecycleProofs` | theorems about the module each is named after |

`UserHeap`, `LibcHeap` and `KernelHeap` compose the handlers with an allocator.
`Statistics` stands between the handlers and their reader: `MemleakBpf` implements
it (`StatisticsRefined`, checked in `kernel_wa` and proved for both tracers), and `Reporter` is composed with it
instead of with the handlers. The refinement mapping takes `combined` as it is,
an entry as accounted from the atomic addition of the thread that stored it to
the atomic subtraction of the thread that deleted it, and `exact` as `drift = {}`.
`Lifecycle` is about control only. Definitions named `...KeepsEntry`, `...NoWa` and
the like, each marked as a faulty variant, are wrong versions of the definition
that follows them; they are used for nothing but to see that the properties
notice.

### How the state corresponds to the code

*Handlers.* `pc[t]` is the next access to shared memory of the handler that
thread `t` runs: `exit_lookup`, `exit_read`, `exit_del` and `exit_put`
are lines 126, 131, 132 and 140 of `memleak.bpf.c`; `exit_stack` and `exit_bucket`
are the two accesses of `bpf_get_stackid` (138), which looks at the bucket and, if it
was empty, exchanges it later without another look; `add_lookup` and
`add_init` are `bpf_map_lookup_or_try_init`, `add` is line 74; `free_lookup`,
`free_del`, `free_size`, `free_stack` are lines 163, 167 and 168, `del_lookup` and
`del` lines 81 and 94. Everything between two accesses is local and belongs to
the step before. `call`, `addr`, `elem` and `info` are the arguments and locals.
In the shipped object (`probe_bpfel.o`) `free_enter` loads `info->size` and then
`info->stack_id` after the helper call that deletes the element; the model has
the two reads in that order.

*Maps.* A hash map is an index from keys to elements (`sizes`, `allocs`) and the
contents of the elements (`sizesData`, `allocsData`): a lookup yields a pointer,
and a deleted or replaced element may be handed out again while another CPU
still reads it, as with preallocated BPF maps. Elements of `combined_allocs` are
never deleted, so key and element are the same there. `displaced` is a history
variable: the buckets of `stack_traces` in which one call stack replaced another,
because two CPUs found them empty at once. `drift` is a history
variable: it records that an element was reused under a reader (`"reuse"`), that
`allocs` was full (`"full"`) or that an entry was overwritten by the entry of
another allocation (`"replaced"`), the three ways in which the statistics go wrong.

*Allocator.* `heap` (`live` in the kernel) is the truth the maps are compared with.
A uprobe runs before the function's first instruction and a uretprobe after its
last one, and a return is probed only if the exit probe was attached at the
call. The traced program is free of double frees and of races on one block.
`Used` is what it allocates with, `attached` what is probed; a call without probes
goes straight to the C library. In `LibcHeap` each thread has one pointer variable
for `posix_memalign`, and `memptr_put`, `memptr_lookup`, `memptr_del` and `memptr_read`
are lines 248, 260, 264 and 266. In `KernelHeap` the keys of the three allocators
are disjoint, as kernel addresses, page frame numbers and per-CPU pointers are;
`NoPage` is the page frame number −1 of a failed page allocation; `Btf` is the set
of event types of the running kernel, from which the handlers choose.

*Reporter.* `at` is the goroutine's place, `sample` what the walk has read, `h` the
heap (a set with a least element as its root, which is all that `container/heap`
promises), `topStacks` the result, `held` a history of every stack's true totals
since the walk began. `open` is the handle of `combined_allocs`, which Run's deferred
`Close` closes at any moment (`CloseMap`); the next access of a walk then fails
(`ScanFails`, lines 490-492), and what was read so far is printed (`iterErr`).

*Symbolizer.* `maps` is what is mapped now, `mappings` the resolver's copy,
`stackTrace` the recorded program counters, `origin` the functions that were
really running. A program counter lies in its function, or right behind it, when
it is the address to which a call at the function's end would return; `left` are the symbols the search has not visited: any one may be next, as
in a Go map. The kernel is a program with one mapping whose file is the state of
`/proc/kallsyms`.

*Lifecycle.* `main`, `monitor` and `sig` are the three goroutines, `opened`/`closed`
the links, `open` the BPF objects, `target` the process that has the traced pid:
alive, a zombie, gone, or another process that got the pid. `unseen` says that
something was recorded since the last walk over `combined_allocs`.

## Runs

Passing runs:

| run | instance | what it shows |
|---|---|---|
| `user_single` | 1 thread, every user program attached, 2 addresses, sizes 0–2 and calloc products 5 and 10 in a 3-bit word | `SizeTruthful`, `LeaksRecorded`, `AggregatesAllocs`: filters, failed allocations, wrapped products, `realloc(p, 0)`, an overflowing count |
| `user_threads` | 2 threads, 2 addresses, `allocs` with two slots, two call stacks in one bucket, room for one word of two values per field | `NoFalseLeak`, `OriginRecorded`, `StatisticsExact`, `TypeOK` in every interleaving |
| `attach_window` | 2 threads, probes attached one by one | `NoNewFalseLeak`: the damage done while attaching ends with the attachment of `free_enter` and `realloc_enter` |
| `kernel_wa` | 2 contexts of two processes with one slot in `sizes`, a slab block, a page, a per-CPU block, sampling, lost events | `StatisticsRefined`: the handlers implement `Statistics`; `StatisticsExact`; `WorkaroundEffective` and `OnlyLostFreesLeak` with `wa_missing_free` |
| `report` | 3 stacks, 3 blocks, top 2, words of eight 1-bit "bytes", the map closed between walks or in one | `ReportIsTop` (against a reference definition of top-N), `ReportHonest`, also of a walk that broke off; `LargestShown` of one that did not |
| `lifecycle` | pid −1, 0 and 7, every failure | `CoherentReport`, `CleanExit`, `WalksOpenMaps`, `OnlyStopsWhenAsked`, `SignalStops`, `ExitStops`, `LeaksReported` |
| `symbols` | stacks of 2 frames; a program in two mappings with a library or another file after it; a kernel with and without a module, and one that hides its addresses; return addresses behind the last instruction; code loaded and unloaded | `ResolvesClosest` (against a reference definition of the closest symbol) and `RightFunction` |

Violations, each of a sentence in the documentation or the code (details under
`findings` in `PROJECT.json`):

| run | what happens |
|---|---|
| `sizes_race` | `sizes` is keyed by process, so two threads in `malloc` swap sizes |
| `realloc_failure` | a failing `realloc` leaves a live block that is tracked nowhere |
| `element_reuse` | `free_enter` subtracts what another CPU has just written into the deleted element |
| `allocs_full` | with `allocs` full, bytes are added that no free subtracts |
| `stack_race` | two threads whose call stacks share a bucket both find it empty and both get its id; one block is reported with the other's frames |

More observations that no run states:

- `attachPrograms` attaches `malloc`, `calloc`, `realloc` and `free` (`probe.go:236-304`) or
  the tracepoints `kmalloc` and `kfree` (307-329), although `README.md:238-250` lists the other
  functions and tracepoints too ("The eBPF program attaches to multiple points").
  With `"aligned_alloc"` in `Used` and the seven probes attached, `LeaksRecorded` is
  violated: its blocks are never recorded.
- A frame whose call ends its function is named after the next function, since
  `Resolve` searches from the return address (`userspace.go:135`); the comment at
  `userspace.go:155` ("Subtract 1 from PC to get the call site instead of return
  address") is followed for `addr2line` only. `RightFunction` says that this is the
  only wrong name a function with a symbol of its own gets while its code is in
  place.
- A frame in a library that was unloaded before the stack is printed, with
  another one mapped in its place, is named after a function of the new one
  (`probe.go:405-419`): `RightFunction` without `~moved` is violated.
- With the initial state of `attach_window`, `NoFalseLeak` is violated: a block
  allocated after `malloc_exit` is attached and freed before `free_enter` is
  (`probe.go:246-256`) stays in `allocs`. `NoNewFalseLeak` bounds the damage.
- With `nTopStacks = 0` the model of the reporter reaches `"panic"`, as
  `probe.go:484` indexes an empty heap. No document says what 0 should mean.
- Shutdown closes the links and two maps. The programs and the other maps
  (`sizes`, `memptrs`, `stack_traces`) go with the process, although
  `README.md:264` says "Properly detach and close BPF objects on shutdown".
- `isProcessAlive` (`probe.go:440-448`) takes a zombie for a live process, although
  the comments at `probe.go:462` and `546` speak of the process's exit. `ExitStops`
  therefore asks for the pid to be gone.
- A `posix_memalign` that fails records what the caller's variable held before
  (take `PointerBefore` with an address); one whose variable cannot be read leaves
  its size in `sizes` for the next call (`ProbeRead` with `FALSE`); a failed `mmap`
  records `MAP_FAILED` (`"mmap"` in `OomFn`); a failed page allocation records the
  page frame number −1. None of these programs is attached today.
- Page and per-CPU allocations have no `wa_missing_free`: `WorkaroundEffective`
  speaks of slab blocks only, and is false of the others.
- The resolver takes file offsets for virtual addresses (`userspace.go:135`), which
  differ in files linked with another segment base (`Bias`; non-PIE programs, lld);
  it does not look at the sizes of symbols, so a function without a symbol gets
  the name of its predecessor.
- `sample_rate` filters by the clock (`memleak.bpf.c:104`); it does not take every
  N-th allocation.

### Bounds

Two threads and two addresses give every pairwise race on one entry, one word,
one element and one key of `sizes`; the theorems cover the rest. Elements are one more than the entries where the kernel keeps spare ones.
Field widths are parameters, so that a few blocks overflow them; `kernel_wa`
reaches the limits of `sizes` and `allocs`, `user_threads` that of `combined_allocs`. `report`
cuts off walks in which the stacks go through more than `MaxTotals` different
totals; its `CloseInWalk` stops the handlers once the map is closed and closes it
only before or during a walk, since no later step of a round looks at it.
`NoDriftYet` (`kernel_wa`) checks a state with `drift` and does not go on
from it: `StatisticsExact` and `StatisticsRefined` say nothing of what follows, and
lost frees of slab blocks cause no drift. `LiveView` identifies states that differ
only in the contents of an element that no key and no thread leads to: it is
overwritten before it is read again. Symmetry is used for safety only, over
addresses, elements, stacks, blocks and (for `UserHeap`) threads, none of which
those models name; `kernel_wa` tells threads and addresses apart and permutes
neither. `symbols` is an instance chosen for its cases: aliases, symbols without
size or value, a function without a symbol, program counters at the first and
last byte of functions and mappings and right behind functions. Deadlock is checked everywhere except in
`Lifecycle`, whose process ends, and `Symbolizer`, whose stack is printed once.

### Fairness

Only `Lifecycle` states fairness: weak fairness of the main goroutine, of the reporting
goroutine and of the one that calls `cancel`. The Go runtime schedules every
runnable goroutine, and the calls they make (map reads, link operations, a
five-second sleep) return. Signals, the target and its parent are not fair: a
target may run, or stay a zombie, for ever. The specifications of the handlers
and of `Reporter` have no fairness; nothing is claimed of them but safety.

## Proofs

The theorems hold for all values of the constants that satisfy the assumptions
named in the modules: `None` and `NULL` are no real values, field widths are
positive, `Tgid` is a function on threads, sizes are `size_t` values, words have
the eight bytes the decoder reads, mappings do not overlap (`MappingsDisjoint`, for
`RightFunction` only). Any further hypothesis is in the statement of the theorem.

### Handlers and tracers

One step of a handler is abstracted once, in `MemleakBpfProofs`, by what it may do:
`Effect` (program counters, addresses, the index of `allocs`), `TraceEffect`
(`stack_traces` and the contents of entries), `SizeEffect` (the way of a size
from the argument to the entry), `Quietly` and `Simulated` (the statistics). Each has
a lemma per action; the invariants below are argued from the effects. In the same
way `ProgramMove` and `HeapMove` (`UserHeapProofs`) and `EventMove` and `LostMove`
(`KernelHeapProofs`) stand for the steps of the environment.

| theorem | hypotheses | inductive invariant |
|---|---|---|
| `TypeCorrect` (user, kernel) | – | `TypeInv`: `TypeOK` is not inductive, since that `allocsData[elem[t]]` or `combined[info[t].stack]` is a value of the right kind depends on where `t` is; `Registers(t)` says for each label what the registers hold |
| `NoNewFalseLeakTheorem` | – | `OwnInv`: no two threads inside traced calls work on one address (`Exclusive`), such an address is a live block (`Owned`), and a thread past `free_del`, or about to let the C library run, has no entry for it left (`Forgotten`) |
| `NoFalseLeakTheorem` | `free_enter` and `realloc_enter` attached first | `OwnInv`, `WindowClosed` and the property |
| `OriginRecordedTheorem` | the same | `OriginInv`: a thread on its way to the entry still has the call stack its block was allocated with (`Returned`), and its stack id leads there (`StackKnown`) unless the bucket is in `displaced`: what a bucket holds changes only when a second CPU fills it, and the bucket is then in `displaced`, or held the same call stack |
| `StackShowsOriginTheorem` | the same, and: no two call stacks share a bucket | `Homed`: a bucket holds only the call stack that hashes to it, so `displaced` stays empty and the exception of `OriginRecorded` goes away |
| `SizeTruthfulTheorem` | one thread per process; the seven probes attached first; no function probed at its entry only | `SizeInv`: an element of `sizes` is there only while the call it belongs to is in the C library or on its way to the entry, and holds that call's size (`Remembered`, `ReadSize`); each remembered size will be taken back (`Paired`) |
| `LeaksRecordedTheorem` | as before, and: all functions in use probed, no sampling, the target's process, room in `sizes` and `allocs`, `realloc` does not run out of memory | `CompleteInv`: a size in the range is remembered until the entry is there (`Noted`); only `free` and `realloc` work on blocks the program has (`Releasing`) |
| `StatisticsExactTheorem`, `StatisticsRefinedTheorem` (user, kernel), `AggregatesTheorem` | – (`drift = {}` is in the properties, and in `AggregatesTheorem`) | `StatInv`: what a thread is about to subtract is accounted once and belongs to nobody else; each step simulates one of `Statistics` or none (`Simulated`), and the words follow by the algebra of `Packed` |
| `OnlyReuseDriftsTheorem`, `SingleThreadAggregates` | removing probes first, room in `allocs`; a single thread for the second | `FreshInv`: a block about to be stored has no entry, so none is overwritten. The second is `AggregatesAllocs` with no proviso |
| `NothingOutstandingTheorem` | removing probes first | from `NoFalseLeak` and `AggregatesAllocs` |
| `OnlyLostFreesLeakTheorem`, `WorkaroundEffectiveTheorem` (kernel) | – | `OwnInv` of `KernelHeapProofs`: as above, with the course of a tracepoint's handlers (`Course`) and, with `wa_missing_free`, no entry for the slab block it is about to store |

The hypotheses are needed: without the first, `NoFalseLeak` fails in
`attach_window`'s initial state; `sizes_race`, `realloc_failure`, `stack_race`, `element_reuse` and `allocs_full` are what happens without the others.
The invariants `SizeInv` and `CompleteInv` were first checked with TLC on two
threads of two processes.

### Statistics and the report

- `WordsExactTheorem` (`StatisticsProofs`): in the abstract specification every word is
  the packed total of what it accounts for, through every overflow. Rests on
  `PackedAdd` and `PackedRemove`: adding an entry to a set adds its packed word
  modulo the word, and removing one takes it off again. With
  `StatisticsRefinedTheorem` this is what the handlers promise their reader.
- `DecoderTheorem` (`ReporterProofs`): what `info.go` shifts together from eight bytes
  is `total_size` and `number_of_allocs` of `memleak.h`, for every word and every size
  of a byte.
- `ReportIsTopTheorem`, `ReportHonestTheorem`, `LargestShownTheorem`, `TypeCorrect`: from
  `ReportInv`. Its part `Selected` says that the heap (with, later, the list being
  filled from it) holds a top-N of what was read so far, `Truthful` that what was
  read are totals the stack had during the walk; both hold of a walk that broke
  off, too. `LargestShown` needs a walk without an iterator error, since a stack
  not yet visited cannot be listed. A heap that is full and whose root
  is replaced by a larger element stays a top-N; so does one that drops its root.
  The proof of `ReportIsTop` showed that the property was wrong for a negative
  `-n-top-stacks` with nothing to report; `AtMost` now says that a negative limit
  leaves no line.

### Names of frames, and the process

- `ResolvesClosestTheorem` (`SymbolizerProofs`), from `ResolveInv`: the search has found the
  closest of the symbols it visited (`Searching`), in whatever order, and every
  mapping it has passed knows none (`Progress`). Least and greatest elements come from the
  well-foundedness of `<`.
- `RightFunctionTheorem`, from `OriginInv`: while nothing was remapped, the resolver's mappings
  are those the stack was recorded in (`SameLayout`), so the closest symbol below an
  address inside the function is the function's, and below the address right
  behind it the function's or one that begins there.
- `LifecycleProofs`: `TypeCorrect`, `CoherentReportTheorem`, `CleanExitTheorem`,
  `WalksOpenMapsTheorem`, `OnlyStopsTheorem`, from one invariant that ties what is attached,
  open and configured to where `main` and the reporting goroutine are. That a walk
  finds its map open (`WalksOpenMaps`) holds until a signal has cancelled the
  context: Run reaches its deferred calls either through the goroutine's own end or
  through the cancelled context, and in the second case nobody waits for the
  goroutine. `Reporter` has what a walk does then.

### Only model-checked

- Liveness (`SignalStops`, `ExitStops`, `LeaksReported`): fairness is out of the
  prover's reach.
- The properties of `user_single` for `posix_memalign`, `mmap` and `munmap`: the theorems
  are about `UserHeap`, not `LibcHeap`.
- The violations: a counterexample is an execution, and TLC shows it.

## Not modelled

- The parsing of `/proc/<pid>/maps`, `/proc/kallsyms` and ELF files, demangling,
  `addr2line`, `findVmlinux`, formatting: input and output without shared state.
  `Symbolizer` takes what they yield.
- Timestamps and `trace_all` output.
- The helpers of `core_fixes.bpf.h` that no program uses, `internal/timer`
  (never called), the generated bindings and `vmlinux.h`, the test programs.
- Detaching while the program runs: `Lifecycle` has `Close` link by link, but what
  a half-detached set of probes records nobody reads any more.
- glibc's `realloc(NULL, n)` entering `malloc` through its probed symbol; a signal
  handler that allocates inside `malloc`; `munmap` of part of a mapping.
- The walk over `allocs` (`probe.go:501-508`): its result is never printed.

## Plan

The model covers every program and goroutine of the repository. Every safety
property a passing run checks is a theorem, except that the properties of
`user_single` are proved for `UserHeap` and only model-checked for the programs that
`LibcHeap` adds. What is left:

1. `LibcHeap`: `NoFalseLeak`, `SizeTruthful` and `LeaksRecorded` for `LibcSpec`, with
   `memptrs` in the place of `sizes` for `posix_memalign`; `mmap` and `munmap` are calls
   that return, or give up, their block like `malloc` and `free`.
2. `Reporter` composed with the handlers themselves: `StatisticsRefined` and the
   theorems of `ReporterProofs` put together give what a reader sees of the real maps.
3. `KernelHeap`: `OnlyReuseDrifts` with `wa_missing_free`, and sizes: a tracepoint carries
   its size and its address in one event, so `sizes` is needed for nothing.
