----------------------------- MODULE BpfHashMap -----------------------------
(***************************************************************************)
(* BPF_MAP_TYPE_HASH as the programs of bpf/memleak.bpf.c use it (kernel   *)
(* code, outside the repository).  The maps are preallocated: a map is an  *)
(* index from keys to elements, and a lookup returns a pointer to the      *)
(* element, not a copy of its value.  A deleted or replaced element goes   *)
(* back to the free list at once and may be handed out again while a       *)
(* program still holds a pointer to it.                                    *)
(***************************************************************************)
EXTENDS Naturals, FiniteSets

CONSTANT None    \* "no element", the NULL a failed lookup returns

\* The keys that are present in an index.
Present(index) == {k \in DOMAIN index : index[k] # None}

\* bpf_map_update_elem fails with -E2BIG for a new key in a full map; it may
\* always replace the element of a key that is present (BPF_ANY).
HasRoom(index, k, maxEntries) ==
  index[k] # None \/ Cardinality(Present(index)) < maxEntries

\* The elements an update may take: any one the index does not use.  (A new
\* key takes one of the free list, a replacement takes a per-CPU spare one.)
Unused(index, elems) == elems \ {index[k] : k \in DOMAIN index}

=============================================================================
