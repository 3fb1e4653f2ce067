------------------------- MODULE CombinedAllocInfo -------------------------
(***************************************************************************)
(* The packed statistics word of bpf/memleak.h: union combined_alloc_info  *)
(* lays a 40-bit total_size and a 24-bit number_of_allocs over one 64-bit  *)
(* word, so that one atomic addition updates both.  The two field widths   *)
(* are parameters: SizeMod = 2^40 and CountMod = 2^24 in the code.         *)
(***************************************************************************)
EXTENDS Integers, FiniteSets

CONSTANTS
  SizeMod,    \* number of values of the total_size field
  CountMod    \* number of values of the number_of_allocs field

ASSUME FieldAssumption ==
  /\ SizeMod \in Nat \ {0}
  /\ CountMod \in Nat \ {0, 1}

\* Number of values of the union's "bits" (2^64), which is also size_t's.
WordMod == SizeMod * CountMod

Word == 0 .. (WordMod - 1)

\* The value a byte count has once it is stored in the total_size bit-field.
Truncated(sz) == sz % SizeMod

\* {.info = {.total_size = sz, .number_of_allocs = 1}}, read back as .bits:
\* the initialiser of the increment and of the decrement.
SingleAlloc(sz) == Truncated(sz) + SizeMod

\* Faulty variant, for testing the properties: a decrement whose initialiser
\* leaves number_of_allocs at zero.
FetchSubSizeOnly(bits, sz) == (bits + WordMod - Truncated(sz)) % WordMod

\* __sync_fetch_and_add / __sync_fetch_and_sub of one allocation on the word.
FetchAdd(bits, sz) == (bits + SingleAlloc(sz)) % WordMod
FetchSub(bits, sz) == (bits + WordMod - SingleAlloc(sz)) % WordMod

\* The two fields of a word.
TotalSize(bits) == bits % SizeMod
NumberOfAllocs(bits) == bits \div SizeMod

-----------------------------------------------------------------------------
(***************************************************************************)
(* What a word should hold.  A set of entries <<address, size>> stands for *)
(* the allocations a word accounts for; its bytes are counted as a set, so *)
(* that the sum of the sizes is a cardinality.                             *)
(***************************************************************************)
BytesOf(e) == {e} \X (1 .. Truncated(e[2]))

Bytes(entries) == UNION {BytesOf(e) : e \in entries}

Packed(entries) ==
  (Cardinality(Bytes(entries)) + SizeMod * Cardinality(entries)) % WordMod

=============================================================================
