------------------------------ MODULE LibcHeap ------------------------------
(***************************************************************************)
(* UserHeap with the rest of the user programs of bpf/memleak.bpf.c:       *)
(* posix_memalign, which returns its block through a pointer variable of   *)
(* the caller, and mmap and munmap.  The address of the variable waits in  *)
(* the map memptrs from the uprobe to the uretprobe, which then reads the  *)
(* variable.  Each thread has one such variable.                           *)
(***************************************************************************)
EXTENDS UserHeap

CONSTANTS
  PointerBefore,   \* what the program leaves in its variable before the call
  ProbeRead        \* whether bpf_probe_read_user may succeed, may fail

ASSUME LibcAssumption ==
  PointerBefore \subseteq Addr \cup {NULL} /\ ProbeRead \subseteq BOOLEAN

VARIABLES
  memptrs,         \* map memptrs: pid -> element
  memptrsData,     \* the values of its elements: whose variable
  variable,        \* the pointer variable of each thread
  mapped           \* the live blocks that came from mmap

libcVars == <<userVars, memptrs, memptrsData, variable, mapped>>
memptrVars == <<memptrs, memptrsData, variable>>

LibcInit ==
  /\ Init
  /\ memptrs = [p \in Pid |-> None]
  /\ memptrsData \in [SizesElem -> Thread]
  /\ variable = [t \in Thread |-> NULL]
  /\ mapped = {}

-----------------------------------------------------------------------------
(* posix_memalign_enter and posix_memalign_exit.                           *)

posix_memalign_enter(t) ==
  \E sz \in Size, tr \in Trace, before \in PointerBefore :
    /\ Call(t, "posix_memalign", NULL, sz, tr, "memptr_put")
    /\ variable' = [variable EXCEPT ![t] = before]
    /\ UNCHANGED <<memptrs, memptrsData, mapped>>

\* bpf_map_update_elem(&memptrs, ...), a map as large as sizes; its result is
\* ignored, and gen_alloc_enter comes next.
memptr_put(t) ==
  /\ At(t, "memptr_put")
  /\ Goto(t, "enter")
  /\ IF HasRoom(memptrs, Tgid[t], SizesMax)
       THEN \E e \in Unused(memptrs, SizesElem) :
              /\ memptrs' = [memptrs EXCEPT ![Tgid[t]] = e]
              /\ memptrsData' = [memptrsData EXCEPT ![e] = t]
       ELSE UNCHANGED <<memptrs, memptrsData>>
  /\ UNCHANGED <<mapVars, call, addr, elem, info, drift, heap, attached,
                 variable, mapped>>

\* posix_memalign returns; a is the block it allocated, if any.
PosixReturn(t, a) ==
  /\ IF call[t].ret
       THEN /\ Goto(t, "memptr_lookup")
            /\ addr' = [addr EXCEPT ![t] = a]
            /\ call' = [call EXCEPT ![t].req = 0]
            /\ UNCHANGED <<elem, info>>
       ELSE Return(t)
  /\ UNCHANGED <<mapVars, drift, attached, memptrs, memptrsData, mapped>>

PosixAllocate(t) ==
  /\ At(t, "heap") /\ call[t].fn = "posix_memalign"
  /\ \E a \in Addr :
       /\ ~Live(a)
       /\ heap' = [heap EXCEPT ![a] = Block(t)]
       /\ variable' = [variable EXCEPT ![t] = a]
       /\ PosixReturn(t, a)

\* An error is the return code; the variable keeps what it had.
PosixFail(t) ==
  /\ At(t, "heap") /\ call[t].fn = "posix_memalign"
  /\ call[t].fn \in OomFn \/ \A a \in Addr : Live(a)
  /\ PosixReturn(t, NULL)
  /\ UNCHANGED <<heap, variable>>

memptr_lookup(t) ==
  /\ At(t, "memptr_lookup")
  /\ IF memptrs[Tgid[t]] = None
       THEN Return(t)
       ELSE /\ Goto(t, "memptr_del")
            /\ elem' = [elem EXCEPT ![t] = memptrs[Tgid[t]]]
            /\ UNCHANGED <<call, addr, info>>
  /\ UNCHANGED <<mapVars, drift, heap, attached, memptrVars, mapped>>

memptr_del(t) ==
  /\ At(t, "memptr_del")
  /\ Goto(t, "memptr_read")
  /\ memptrs' = [memptrs EXCEPT ![Tgid[t]] = None]
  /\ UNCHANGED <<mapVars, call, addr, elem, info, drift, heap, attached,
                 memptrsData, variable, mapped>>

\* *memptr64, through the pointer of the lookup, then the variable itself;
\* the return code of the call is not looked at.
memptr_read(t) ==
  /\ At(t, "memptr_read")
  /\ \E ok \in ProbeRead :
       IF ok
         THEN /\ Goto(t, "exit_lookup")
              /\ addr' = [addr EXCEPT ![t] = variable[memptrsData[elem[t]]]]
              /\ elem' = [elem EXCEPT ![t] = None]
              /\ UNCHANGED <<call, info>>
         ELSE Return(t)
  /\ UNCHANGED <<mapVars, drift, heap, attached, memptrVars, mapped>>

-----------------------------------------------------------------------------
(* mmap and munmap.                                                        *)

\* The program does not run out of address space by itself.
mmap_enter(t) ==
  /\ \E a \in Addr : ~Live(a)
  /\ \E sz \in Size, tr \in Trace : Call(t, "mmap", NULL, sz, tr, "enter")
  /\ UNCHANGED <<memptrVars, mapped>>

\* MAP_FAILED is not the null pointer: to the handler it is an address, one at
\* which no block lives.
mmap_return(t) ==
  /\ At(t, "heap") /\ call[t].fn = "mmap"
  /\ \E a \in Addr, block \in {Block(t)} \cup {None : f \in OomFn \cap {"mmap"}} :
       /\ ~Live(a)
       /\ heap' = [heap EXCEPT ![a] = block]
       /\ mapped' = mapped \cup {x \in {a} : block # None}
       /\ HeapReturn(t, a)
  /\ UNCHANGED memptrVars

munmap_enter(t) ==
  /\ \E ptr \in Freeable \cap mapped : Call(t, "munmap", ptr, 0, None, "free_lookup")
  /\ UNCHANGED <<memptrVars, mapped>>

munmap_return(t) ==
  /\ At(t, "heap") /\ call[t].fn = "munmap"
  /\ heap' = [heap EXCEPT ![addr[t]] = None]
  /\ mapped' = mapped \ {addr[t]}
  /\ Return(t)
  /\ UNCHANGED <<mapVars, drift, attached, memptrVars>>

-----------------------------------------------------------------------------
\* The steps of UserHeap; what mmap returned is not handed to free or realloc.
UserStep(t) ==
  /\ \/ ProgramStep(t) /\ addr'[t] \notin mapped
     \/ HeapStep(t) \/ UserHandlerStep(t)
  /\ UNCHANGED <<memptrVars, mapped>>

LibcNext ==
  \E t \in Thread :
    \/ UserStep(t)
    \/ posix_memalign_enter(t) \/ memptr_put(t) \/ PosixAllocate(t)
    \/ PosixFail(t) \/ memptr_lookup(t) \/ memptr_del(t) \/ memptr_read(t)
    \/ mmap_enter(t) \/ mmap_return(t) \/ munmap_enter(t) \/ munmap_return(t)

LibcSpec == LibcInit /\ [][LibcNext]_libcVars

=============================================================================
