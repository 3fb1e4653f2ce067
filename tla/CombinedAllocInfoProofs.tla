----------------------- MODULE CombinedAllocInfoProofs -----------------------
(***************************************************************************)
(* What the packed word computes, for every field width: an atomic         *)
(* addition or subtraction of one allocation turns the packed total of a   *)
(* set of entries into that of the set with one entry more or less,        *)
(* overflow of either field included.                                      *)
(***************************************************************************)
EXTENDS CombinedAllocInfo, FiniteSetTheorems, TLAPS

-----------------------------------------------------------------------------
(* Division with remainder.                                                *)

LEMMA DivisionFact ==
  ASSUME NEW a \in Int, NEW w \in Nat \ {0}
  PROVE  /\ a % w \in 0 .. (w - 1) /\ (a \div w) \in Int
         /\ a = w * (a \div w) + (a % w)
<1>1. a % w \in 0 .. (w - 1) /\ (a \div w) \in Int
  BY SMT
<1>2. ASSUME NEW q \in Int, q = a \div w, NEW r \in Int, r = a % w
      PROVE  a - r = w * q
  BY <1>2, SMT
<1>3. a - (a % w) = w * (a \div w)
  BY <1>1, <1>2
<1> DEFINE q == a \div w
           r == a % w
<1>4. a = w * q + r
  <2>1. q \in Int /\ r \in Int /\ a - r = w * q
    BY <1>1, <1>3
  <2> HIDE DEF q, r
  <2> QED BY <2>1, SMT
<1> QED BY <1>1, <1>4, Zenon

LEMMA RemainderUnique ==
  ASSUME NEW w \in Nat \ {0}, NEW p \in Int, NEW q \in Int,
         NEW r \in 0 .. (w - 1), NEW s \in 0 .. (w - 1), w * q + r = w * p + s
  PROVE  r = s
<1>1. CASE p = q
  BY <1>1, SMT
<1>2. CASE p < q
  <2>1. q - p >= 1 /\ w * (q - p) = s - r
    BY <1>2, SMT
  <2>2. w * (q - p) >= w
    BY <2>1, <1>2, SMT
  <2> QED BY <2>1, <2>2, SMT
<1>3. CASE p > q
  <2>1. p - q >= 1 /\ w * (p - q) = r - s
    BY <1>3, SMT
  <2>2. w * (p - q) >= w
    BY <2>1, <1>3, SMT
  <2> QED BY <2>1, <2>2, SMT
<1> QED BY <1>1, <1>2, <1>3, SMT

\* Adding multiples of the modulus does not change a remainder.
LEMMA ModShift ==
  ASSUME NEW w \in Nat \ {0}, NEW a \in Int, NEW b \in Int, NEW k \in Int,
         b = a + w * k
  PROVE  b % w = a % w
<1> DEFINE p == a \div w
           q == b \div w
           r == a % w
           s == b % w
<1>1. a = w * p + r /\ r \in 0 .. (w - 1) /\ p \in Int
  BY DivisionFact
<1>2. b = w * q + s /\ s \in 0 .. (w - 1) /\ q \in Int
  BY DivisionFact
<1> HIDE DEF p, q, r, s
<1>3. w * (p + k) + r = w * q + s /\ p + k \in Int
  BY <1>1, <1>2, SMT
<1>4. r = s
  BY <1>1, <1>2, <1>3, RemainderUnique
<1> QED BY <1>4 DEF r, s

\* A remainder may be taken before an addition.
LEMMA ModAdd ==
  ASSUME NEW w \in Nat \ {0}, NEW n \in Int, NEW d \in Int
  PROVE  ((n % w) + d) % w = (n + d) % w
<1>1. ASSUME NEW r \in Int, NEW k \in Int, n = w * k + r
      PROVE  (r + d) % w = (n + d) % w
  <2>1. n + d = (r + d) + w * k /\ n + d \in Int /\ r + d \in Int
    BY <1>1, SMT
  <2> QED BY <2>1, ModShift
<1>2. n % w \in Int /\ (n \div w) \in Int /\ n = w * (n \div w) + (n % w)
  BY DivisionFact
<1> QED BY <1>1, <1>2, Zenon

-----------------------------------------------------------------------------
(* The packed word.                                                        *)

LEMMA WordModPositive == WordMod \in Nat \ {0}
BY FieldAssumption, SMT DEF WordMod

LEMMA ModWord ==
  ASSUME NEW n \in Int PROVE n % WordMod \in Word
<1> DEFINE w == WordMod
<1>1. w \in Nat \ {0}
  BY WordModPositive
<1>2. n % w \in 0 .. (w - 1)
  <2> HIDE DEF w
  <2> QED BY <1>1, SMT
<1> QED BY <1>2 DEF Word

LEMMA WordFacts ==
  /\ 0 \in Word
  /\ Word \subseteq Nat
  /\ \A bits, sz \in Word : FetchAdd(bits, sz) \in Word /\ FetchSub(bits, sz) \in Word
<1>1. 0 \in Word /\ Word \subseteq Nat
  BY WordModPositive, SMT DEF Word
<1>2. ASSUME NEW bits \in Word, NEW sz \in Word
      PROVE  FetchAdd(bits, sz) \in Word /\ FetchSub(bits, sz) \in Word
  <2>1. sz \in Nat /\ bits \in Nat
    BY <1>1
  <2>2. SingleAlloc(sz) \in Int
    BY <2>1, FieldAssumption, SMT DEF SingleAlloc, Truncated
  <2>3. bits + SingleAlloc(sz) \in Int /\ bits + WordMod - SingleAlloc(sz) \in Int
    BY <2>1, <2>2, WordModPositive, SMT
  <2> QED BY <2>3, ModWord DEF FetchAdd, FetchSub
<1> QED BY <1>1, <1>2

\* The bytes of one entry.
LEMMA BytesOfFacts ==
  ASSUME NEW e, e[2] \in Nat
  PROVE  /\ Truncated(e[2]) \in Nat
         /\ IsFiniteSet(BytesOf(e))
         /\ Cardinality(BytesOf(e)) = Truncated(e[2])
<1> DEFINE n == Truncated(e[2])
<1>1. n \in Nat
  BY FieldAssumption, SMT DEF Truncated
<1>2. IsFiniteSet(1 .. n) /\ Cardinality(1 .. n) = n
  <2> HIDE DEF n
  <2>1. /\ IsFiniteSet(1 .. n)
        /\ Cardinality(1 .. n) = IF 1 > n THEN 0 ELSE n - 1 + 1
    BY <1>1, FS_Interval
  <2> QED BY <1>1, <2>1, SMT
<1>3. IsFiniteSet({e}) /\ Cardinality({e}) = 1
  BY FS_Singleton
<1>4. /\ IsFiniteSet({e} \X (1 .. n))
      /\ Cardinality({e} \X (1 .. n)) = 1 * n
  BY <1>2, <1>3, FS_Product
<1>5. 1 * n = n
  <2> HIDE DEF n
  <2> QED BY <1>1, SMT
<1> QED BY <1>1, <1>4, <1>5 DEF BytesOf

\* The bytes of a finite set of entries.
LEMMA BytesFinite ==
  ASSUME NEW S, IsFiniteSet(S), \A e \in S : e[2] \in Nat
  PROVE  IsFiniteSet(Bytes(S))
<1> DEFINE T == {BytesOf(e) : e \in S}
           f == [e \in S |-> BytesOf(e)]
<1>1. f \in Surjection(S, T)
  BY DEF Surjection
<1>2. IsFiniteSet(T)
  BY <1>1, FS_Surjection
<1>3. \A B \in T : IsFiniteSet(B)
  BY BytesOfFacts
<1> QED BY <1>2, <1>3, FS_UNION DEF Bytes

\* One more entry adds its bytes, which no other entry has.
LEMMA BytesAdd ==
  ASSUME NEW S, IsFiniteSet(S), \A x \in S : x[2] \in Nat,
         NEW e, e[2] \in Nat, e \notin S
  PROVE  Cardinality(Bytes(S \cup {e})) = Cardinality(Bytes(S)) + Truncated(e[2])
<1>1. Bytes(S \cup {e}) = Bytes(S) \cup BytesOf(e)
  BY DEF Bytes
<1>2. Bytes(S) \cap BytesOf(e) = {}
  BY DEF Bytes, BytesOf
<1>3. IsFiniteSet(Bytes(S)) /\ IsFiniteSet(BytesOf(e))
  BY BytesFinite, BytesOfFacts
<1>4. Cardinality(Bytes(S) \cup BytesOf(e)) =
        Cardinality(Bytes(S)) + Cardinality(BytesOf(e)) - Cardinality(Bytes(S) \cap BytesOf(e))
  BY <1>3, FS_Union
<1>5. Cardinality(Bytes(S)) \in Nat /\ Truncated(e[2]) \in Nat
      /\ Cardinality(BytesOf(e)) = Truncated(e[2])
  BY <1>3, FS_CardinalityType, BytesOfFacts
<1>6. Cardinality(Bytes(S) \cap BytesOf(e)) = 0
  BY <1>2, FS_EmptySet
<1>7. \A b, t \in Nat : b + t - 0 = b + t
  BY SMT
<1> QED BY <1>1, <1>4, <1>5, <1>6, <1>7, Zenon

LEMMA PackedEmpty == Packed({}) = 0
<1>1. Bytes({}) = {}
  BY DEF Bytes
<1>2. Cardinality({}) = 0
  BY FS_EmptySet
<1>3. 0 + SizeMod * 0 = 0
  BY FieldAssumption, SMT
<1>4. \A w \in Nat \ {0} : 0 % w = 0
  BY SMT
<1> QED BY <1>1, <1>2, <1>3, <1>4, WordModPositive, Zenon DEF Packed

\* The total of a finite set of entries before it is cut to the word.
Total(S) == Cardinality(Bytes(S)) + SizeMod * Cardinality(S)

LEMMA TotalFacts ==
  ASSUME NEW S, IsFiniteSet(S), \A x \in S : x[2] \in Nat
  PROVE  /\ Total(S) \in Nat
         /\ \A e : e[2] \in Nat /\ e \notin S =>
              Total(S \cup {e}) = Total(S) + SingleAlloc(e[2])
<1>1. Cardinality(Bytes(S)) \in Nat /\ Cardinality(S) \in Nat /\ SizeMod \in Nat
  BY BytesFinite, FS_CardinalityType, FieldAssumption
<1>2. Total(S) \in Nat
  BY <1>1, SMT DEF Total
<1>3. ASSUME NEW e, e[2] \in Nat, e \notin S
      PROVE  Total(S \cup {e}) = Total(S) + SingleAlloc(e[2])
  <2>1. Cardinality(S \cup {e}) = Cardinality(S) + 1
    BY <1>3, FS_AddElement
  <2>2. Cardinality(Bytes(S \cup {e})) = Cardinality(Bytes(S)) + Truncated(e[2])
    BY <1>3, BytesAdd
  <2>3. Truncated(e[2]) \in Nat
    BY <1>3, BytesOfFacts
  <2> QED BY <1>1, <2>1, <2>2, <2>3, SMT DEF Total, SingleAlloc
<1> QED BY <1>2, <1>3

LEMMA PackedTotal == \A S : Packed(S) = Total(S) % WordMod
BY Zenon DEF Packed, Total

LEMMA SingleAllocType == ASSUME NEW n \in Nat PROVE SingleAlloc(n) \in Nat
BY FieldAssumption, SMT DEF SingleAlloc, Truncated

\* __sync_fetch_and_add of an entry the word does not account for yet.
LEMMA PackedAdd ==
  ASSUME NEW S, IsFiniteSet(S), \A x \in S : x[2] \in Nat,
         NEW e, e[2] \in Nat, e \notin S
  PROVE  Packed(S \cup {e}) = FetchAdd(Packed(S), e[2])
<1> DEFINE n == Total(S)
           d == SingleAlloc(e[2])
<1>1. n \in Int /\ d \in Int /\ Total(S \cup {e}) = n + d
  BY TotalFacts, SingleAllocType
<1>2. ((n % WordMod) + d) % WordMod = (n + d) % WordMod
  <2> HIDE DEF n, d
  <2> QED BY <1>1, WordModPositive, ModAdd
<1> QED BY <1>1, <1>2, PackedTotal, Zenon DEF FetchAdd

\* __sync_fetch_and_sub of an entry the word accounts for.
LEMMA PackedRemove ==
  ASSUME NEW S, IsFiniteSet(S), \A x \in S : x[2] \in Nat, NEW e \in S
  PROVE  Packed(S \ {e}) = FetchSub(Packed(S), e[2])
<1> DEFINE R == S \ {e}
           w == WordMod
           n == Total(R)
           m == Total(S)
           d == SingleAlloc(e[2])
<1>1. IsFiniteSet(R) /\ R \cup {e} = S /\ e \notin R /\ \A x \in R : x[2] \in Nat
  BY FS_RemoveElement
<1>2. w \in Nat \ {0} /\ n \in Int /\ d \in Int /\ m \in Int
  BY <1>1, WordModPositive, TotalFacts, SingleAllocType
<1>3. m = n + d
  <2>1. e[2] \in Nat
    OBVIOUS
  <2> QED BY <1>1, <2>1, TotalFacts
<1> HIDE DEF w, n, m, d
<1>4. w - d \in Int /\ m + (w - d) \in Int /\ m + (w - d) = n + w * 1
  BY <1>2, <1>3, SMT
<1>5. ((m % w) + (w - d)) % w = (m + (w - d)) % w
  BY <1>2, <1>4, ModAdd
<1>6. (m + (w - d)) % w = n % w
  BY <1>2, <1>4, 1 \in Int, ModShift
<1>7. m % w \in Int
  BY <1>2, SMT
<1>8. (m % w) + w - d = (m % w) + (w - d)
  BY <1>2, <1>7, SMT
<1>9. FetchSub(m % w, e[2]) = n % w
  BY <1>5, <1>6, <1>8, Zenon DEF FetchSub, w, d
<1> QED BY <1>9, PackedTotal, Zenon DEF w, n, m, R

LEMMA PackedWord ==
  ASSUME NEW S, IsFiniteSet(S), \A x \in S : x[2] \in Nat
  PROVE  Packed(S) \in Word
<1>1. Total(S) \in Int
  BY TotalFacts
<1> QED BY <1>1, ModWord, PackedTotal

=============================================================================
