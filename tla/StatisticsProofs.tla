-------------------------- MODULE StatisticsProofs --------------------------
(* Every word of Statistics is the packed total of what it accounts for.   *)
EXTENDS Statistics, CombinedAllocInfoProofs

-----------------------------------------------------------------------------
(* The words of combined_allocs.                                           *)

\* While the statistics are exact, every word that exists is the packed total
\* of the finite set of entries it accounts for, and one that does not exist
\* accounts for nothing.
WordsExact ==
  exact =>
    /\ combined \in [StackId -> Word \cup {None}]
    /\ accounted \in [StackId -> SUBSET Entries]
    /\ \A s \in StackId :
         /\ IsFiniteSet(accounted[s])
         /\ IF combined[s] = None THEN accounted[s] = {}
                                  ELSE combined[s] = Packed(accounted[s])

\* Init, Create, Add and Remove keep the words exact.
LEMMA WordsExactInit == StatisticsInit => WordsExact
BY FS_EmptySet DEF StatisticsInit, WordsExact

LEMMA WordsExactStep ==
  ASSUME None \notin Word, \A e \in Entries : e[2] \in Nat,
         WordsExact, [StatisticsNext]_statisticsVars
  PROVE  WordsExact'
<1> SUFFICES ASSUME exact' PROVE WordsExact'
  BY DEF WordsExact
<1>1. CASE UNCHANGED statisticsVars
  BY <1>1 DEF WordsExact, statisticsVars
<1>2. CASE exact /\ Update
  <2> USE <1>2 DEF WordsExact
  <2>1. PICK s \in StackId : Create(s) \/ \E e \in Entries : Add(s, e) \/ Remove(s, e)
    BY DEF Update
  <2>2. CASE Create(s)
    <3>1. 0 \in Word /\ Packed({}) = 0
      BY WordFacts, PackedEmpty
    <3> QED BY <2>2, <3>1 DEF Create
  <2>3. ASSUME NEW e \in Entries, Add(s, e) PROVE WordsExact'
    <3>1. e \notin accounted[s]
      BY <2>3 DEF Add
    <3>2. Packed(accounted[s] \cup {e}) = FetchAdd(combined[s], e[2])
      BY <2>3, <3>1, PackedAdd DEF Add
    <3>3. IsFiniteSet(accounted[s] \cup {e})
      BY FS_AddElement
    <3>4. Packed(accounted[s] \cup {e}) \in Word
      BY <3>3, PackedWord
    <3> QED BY <2>3, <3>2, <3>3, <3>4 DEF Add
  <2>4. ASSUME NEW e \in Entries, Remove(s, e) PROVE WordsExact'
    <3>1. Packed(accounted[s] \ {e}) = FetchSub(combined[s], e[2])
      BY <2>4, PackedRemove DEF Remove
    <3>2. IsFiniteSet(accounted[s] \ {e})
      BY FS_RemoveElement
    <3>3. Packed(accounted[s] \ {e}) \in Word
      BY <3>2, PackedWord
    <3> QED BY <2>4, <3>1, <3>2, <3>3 DEF Remove
  <2> QED BY <2>1, <2>2, <2>3, <2>4
<1> QED BY <1>1, <1>2 DEF StatisticsNext

\* The abstract statistics keep their promise to the reader of combined_allocs
\* (memleak.bpf.c:61-95): as long as nothing makes them inexact, every word is
\* the packed total of the entries that were added to it and not taken away,
\* through every overflow of the two fields.
THEOREM WordsExactTheorem ==
  ASSUME None \notin Word, \A e \in Entries : e[2] \in Nat
  PROVE  StatisticsSpec => []WordsExact
<1>1. WordsExact /\ [StatisticsNext]_statisticsVars => WordsExact'
  BY WordsExactStep
<1> QED BY <1>1, WordsExactInit, PTL DEF StatisticsSpec

=============================================================================
