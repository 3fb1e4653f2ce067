----------------------------- MODULE Symbolizer -----------------------------
(***************************************************************************)
(* Naming the frames of one printed stack: getUserspaceStackTrace and      *)
(* getKernelspaceStackTrace (internal/probe/probe.go:374-433) with the     *)
(* resolvers of internal/symbolizer.  The call stack was recorded when the *)
(* block was allocated; /proc/<pid>/maps and /proc/kallsyms are read when  *)
(* it is printed, and the program or the kernel may have unloaded and      *)
(* loaded code in between.  Symbols are visited in the order of a Go map,  *)
(* that is, in any order.  c++filt and addr2line, whose answers are        *)
(* printed beside the name, are left out.                                  *)
(***************************************************************************)
EXTENDS Integers, Sequences, FiniteSets

CONSTANTS
  File,           \* files with code, and the states /proc/kallsyms may be in
  Code,           \* File -> its functions: [value, size, name]
  Table,          \* File -> its symbols in the order they are read, likewise
  Bias,           \* File -> virtual address minus file offset of its code
  UserLayouts,    \* what may be mapped in the traced process
  KernelLayouts,  \* likewise for the kernel, whose code is one mapping
  Depth,          \* MAX_STACK_DEPTH
  Unknown         \* the frame "[unknown]"

NoName == ""

\* What debug/elf, or a line of /proc/kallsyms, says of a symbol.
Symbol == [value : Nat, size : Nat, name : STRING \ {NoName}]

\* A line of /proc/<pid>/maps.
Mapping == [start : Nat, end : Nat, offset : Nat, path : File]

Layouts == UserLayouts \cup KernelLayouts

ASSUME SymbolizerAssumption ==
  /\ Code \in [File -> SUBSET Symbol]
  /\ Table \in [File -> Seq(Symbol)]
  /\ Bias \in [File -> Int]
  /\ Layouts \subseteq Seq(Mapping)
  /\ Depth \in Nat

\* No address belongs to two mappings of an address space.
ASSUME MappingsDisjoint ==
  \A ms \in Layouts : \A k, n \in DOMAIN ms :
    k # n => ms[k].end <= ms[n].start \/ ms[n].end <= ms[k].start

VARIABLES
  maps,           \* the executable mappings, in the order of /proc/<pid>/maps
  stackTrace,     \* the recorded program counters (the zeros after the last
                  \* one, which the code skips, are left out)
  origin,         \* history: the file and the function of each of them, the
                  \* place in the file (a virtual address of it) and the end of
                  \* the mapping
  moved,          \* history: the mappings changed after the recording began
                  \* and before the resolver read them
  at,             \* where the goroutine is
  mappings,       \* the resolver's copy of the mappings, with their symbols
  m,              \* the mapping it looks at
  left,           \* the symbols of this mapping it has not visited
  closestAddr, closestSym,
  frames          \* the names found so far

recordVars == <<stackTrace, origin>>
searchVars == <<m, left, closestAddr, closestSym>>
vars == <<maps, recordVars, moved, at, mappings, searchVars, frames>>

Kernel == maps \in KernelLayouts

Init ==
  /\ maps \in Layouts
  /\ stackTrace = <<>>
  /\ origin = <<>>
  /\ moved = FALSE
  /\ at = "record"
  /\ mappings = <<>>
  /\ m = 0 /\ left = {} /\ closestAddr = 0 /\ closestSym = NoName
  /\ frames = <<>>

-----------------------------------------------------------------------------
(* The traced program or the kernel.                                       *)

\* A frame of the call stack, in a function fn of the file of some mapping: a
\* program counter inside fn, or the address a call returns to, which is behind
\* fn when the call is its last instruction (and never returns).
Record ==
  /\ at = "record"
  /\ Len(stackTrace) < Depth
  /\ \E k \in DOMAIN maps : \E fn \in Code[maps[k].path] :
       \E v \in fn.value .. (fn.value + fn.size) :
         LET pc == maps[k].start + (v - Bias[maps[k].path]) - maps[k].offset
             running == IF v < fn.value + fn.size THEN pc ELSE pc - 1
         IN  /\ fn.size > 0
             /\ maps[k].start <= running /\ running < maps[k].end
             /\ stackTrace' = Append(stackTrace, pc)
             /\ origin' = Append(origin, [file |-> maps[k].path, fn |-> fn,
                                          place |-> v, end |-> maps[k].end])
  /\ UNCHANGED <<maps, moved, at, mappings, searchVars, frames>>

\* dlclose and dlopen, or a kernel module, at any moment after the recording.
Remap ==
  /\ Len(stackTrace) > 0
  /\ maps' \in (IF Kernel THEN KernelLayouts ELSE UserLayouts) \ {maps}
  /\ moved' = (moved \/ at = "record")
  /\ UNCHANGED <<recordVars, at, mappings, searchVars, frames>>

-----------------------------------------------------------------------------
(* Loading the symbols.                                                    *)

\* The name a Go map holds for v when the symbols i are assigned in order.
LastName(f, is, v) ==
  Table[f][CHOOSE i \in is : /\ Table[f][i].value = v
                             /\ \A j \in is : Table[f][j].value = v => j <= i].name

SymbolMap(f, is) ==
  [v \in {Table[f][i].value : i \in is} |-> LastName(f, is, v)]

\* Symbols without a value or a size are not functions.
loadSymbols(f) ==
  SymbolMap(f, {i \in DOMAIN Table[f] : Table[f][i].value # 0 /\ Table[f][i].size # 0})

LoadKernelSymbolsFromKallsyms(f) == SymbolMap(f, DOMAIN Table[f])

Loaded(ms, symbolsOf) ==
  [k \in DOMAIN ms |-> [start |-> ms[k].start, end |-> ms[k].end,
                        offset |-> ms[k].offset, symbols |-> symbolsOf[ms[k].path]]]

\* The recording is over and its stack is printed; the resolver is made anew
\* for every stack.
NewUserspaceSymbolResolver ==
  /\ at = "record" /\ ~Kernel
  /\ at' = "frame"
  /\ mappings' = Loaded(maps, [f \in File |-> loadSymbols(f)])
  /\ UNCHANGED <<maps, recordVars, moved, searchVars, frames>>

NewKernelSymbolResolver ==
  /\ at = "record" /\ Kernel
  /\ at' = "frame"
  /\ mappings' = Loaded(maps, [f \in File |-> LoadKernelSymbolsFromKallsyms(f)])
  /\ UNCHANGED <<maps, recordVars, moved, searchVars, frames>>

\* The process has gone: its maps file cannot be opened, no frame is printed.
ResolverFails ==
  /\ at = "record"
  /\ at' = "failed"
  /\ UNCHANGED <<maps, recordVars, moved, mappings, searchVars, frames>>

-----------------------------------------------------------------------------
(* Resolve.                                                                *)

pc == stackTrace[Len(frames) + 1]

Covers(k) == mappings[k].start <= pc /\ pc < mappings[k].end

\* Faulty variant, for testing the properties: the offset of the mapping in
\* its file is forgotten.
VirtualAddrNoOffset(k) == pc - mappings[k].start

virtualAddr(k) == pc - mappings[k].start + mappings[k].offset

\* Start the search in the next mapping after k that covers the pc, if any;
\* none is left: the pc is unknown.
SearchFrom(k) ==
  LET later == {n \in (k + 1) .. Len(mappings) : Covers(n)}
  IN  IF later = {}
        THEN /\ frames' = Append(frames, Unknown)
             /\ at' = "frame"
             /\ m' = 0 /\ left' = {}
        ELSE /\ m' = CHOOSE n \in later : \A o \in later : n <= o
             /\ left' = DOMAIN mappings[m'].symbols
             /\ at' = "search"
             /\ UNCHANGED frames

\* The next program counter.
ResolveFrame ==
  /\ at = "frame"
  /\ Len(frames) < Len(stackTrace)
  /\ SearchFrom(0)
  /\ closestAddr' = 0 /\ closestSym' = NoName
  /\ UNCHANGED <<maps, recordVars, moved, mappings>>

\* Faulty variant, for testing the properties: the last symbol below wins.
CloserAny(v) == v <= virtualAddr(m)

Closer(v) == v <= virtualAddr(m) /\ v > closestAddr

VisitSymbol ==
  /\ at = "search"
  /\ \E v \in left :
       /\ left' = left \ {v}
       /\ closestAddr' = IF Closer(v) THEN v ELSE closestAddr
       /\ closestSym' = IF Closer(v) THEN mappings[m].symbols[v] ELSE closestSym
  /\ UNCHANGED <<maps, recordVars, moved, at, mappings, m, frames>>

\* A symbol was found, or the search goes on in the next mapping.
EndSearch ==
  /\ at = "search" /\ left = {}
  /\ IF closestSym # NoName
       THEN /\ frames' = Append(frames, closestSym)
            /\ at' = "frame"
            /\ m' = 0 /\ UNCHANGED left
       ELSE SearchFrom(m)
  /\ closestAddr' = 0 /\ closestSym' = NoName
  /\ UNCHANGED <<maps, recordVars, moved, mappings>>

Next ==
  \/ Record \/ Remap
  \/ NewUserspaceSymbolResolver \/ NewKernelSymbolResolver \/ ResolverFails
  \/ ResolveFrame \/ VisitSymbol \/ EndSearch

Spec == Init /\ [][Next]_vars

-----------------------------------------------------------------------------
(* Properties.                                                             *)

\* The symbols at or below the file offset of p in the mapping k; a symbol at
\* zero is none (userspace.go:142, kernelspace.go:106: addr > closestAddr).
Below(k, p) ==
  {v \in DOMAIN mappings[k].symbols \ {0} :
     v <= p - mappings[k].start + mappings[k].offset}

\* The mappings that know a symbol for p.
Knowing(p) ==
  {k \in DOMAIN mappings :
     mappings[k].start <= p /\ p < mappings[k].end /\ Below(k, p) # {}}

\* Resolve against its reference, whatever the order in which Go walks its
\* maps: the name of the largest symbol address that is not above the program
\* counter, in the first mapping that has one; "[unknown]" if there is none.
ResolvesClosest ==
  \A i \in DOMAIN frames :
    LET p == stackTrace[i]
    IN  \/ Knowing(p) = {} /\ frames[i] = Unknown
        \/ \E k \in Knowing(p), v \in UNION {Below(n, p) : n \in Knowing(p)} :
             /\ \A n \in Knowing(p) : k <= n
             /\ v \in Below(k, p) /\ \A w \in Below(k, p) : w <= v
             /\ frames[i] = mappings[k].symbols[v]

\* fn can be found: it has a symbol, and no other symbol lies inside it.
Findable(f, fn) ==
  /\ \E i \in DOMAIN Table[f] : Table[f][i].value = fn.value /\ Table[f][i].size # 0
  /\ \A i \in DOMAIN Table[f] :
       ~(fn.value < Table[f][i].value /\ Table[f][i].value < fn.value + fn.size)
  /\ fn.value # 0

\* The function of frame i can be found, and its file maps its code at offsets
\* equal to virtual addresses (userspace.go:134-146 takes one for the other).
Nameable(i) == Bias[origin[i].file] = 0 /\ Findable(origin[i].file, origin[i].fn)

\* The program counter of frame i is the address right behind its function;
\* the program counter of frame i is in the mapping of its function.
Behind(i) == origin[i].place = origin[i].fn.value + origin[i].fn.size
Mapped(i) == stackTrace[i] < origin[i].end

\* Frame i is printed under the name of a symbol at v.
Names(i, v) ==
  \E j \in DOMAIN Table[origin[i].file] :
    Table[origin[i].file][j].value = v /\ Table[origin[i].file][j].name = frames[i]

\* While its code is where it was, a frame that is Nameable and Mapped names the
\* function that was running when the block was allocated.  The one exception is a call that ends its
\* function: Resolve looks up the return address itself (userspace.go:135-142;
\* only addr2line is asked for the byte before, 155-156), and where another
\* symbol begins exactly there, the frame gets its name, never one further off.
RightFunction ==
  ~moved =>
    \A i \in DOMAIN frames : Nameable(i) /\ Mapped(i) =>
      Names(i, origin[i].fn.value) \/ (Behind(i) /\ Names(i, origin[i].place))

=============================================================================
