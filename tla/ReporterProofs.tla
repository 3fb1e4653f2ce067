--------------------------- MODULE ReporterProofs ---------------------------
(* Theorems about Reporter, for any number of stacks, entries and lines of *)
(* the report, and any size of a byte.                                     *)
EXTENDS Reporter, StatisticsProofs

-----------------------------------------------------------------------------
(* The bytes of a word.                                                    *)

\* Every byte weighs ByteBase times the one before it.
LEMMA PlaceFacts ==
  /\ Place[0] = 1
  /\ \A k \in 1 .. 8 : Place[k] = ByteBase * Place[k - 1]
<1> DEFINE B == ByteBase
           f == [k \in 0 .. 8 |->
                  IF k = 0 THEN 1 ELSE
                  IF k = 1 THEN B * 1 ELSE
                  IF k = 2 THEN B * (B * 1) ELSE
                  IF k = 3 THEN B * (B * (B * 1)) ELSE
                  IF k = 4 THEN B * (B * (B * (B * 1))) ELSE
                  IF k = 5 THEN B * (B * (B * (B * (B * 1)))) ELSE
                  IF k = 6 THEN B * (B * (B * (B * (B * (B * 1))))) ELSE
                  IF k = 7 THEN B * (B * (B * (B * (B * (B * (B * 1)))))) ELSE
                  B * (B * (B * (B * (B * (B * (B * (B * 1)))))))]
           Rec(g) == [k \in 0 .. 8 |-> IF k = 0 THEN 1 ELSE ByteBase * g[k - 1]]
<1>1. f = Rec(f)
  <2>1. ASSUME NEW k \in 0 .. 8 PROVE f[k] = Rec(f)[k]
    OBVIOUS
  <2> HIDE DEF f
  <2>2. DOMAIN f = 0 .. 8 /\ f = [k \in 0 .. 8 |-> f[k]]
    BY DEF f
  <2> QED BY <2>1, <2>2
<1> HIDE DEF f
<1>2. Place = CHOOSE g : g = Rec(g)
  BY DEF Place
<1>3. Place = Rec(Place)
  <2> HIDE DEF Rec
  <2> QED BY <1>1, <1>2, Zenon
<1>4. Place[0] = 1
  BY <1>3
<1>5. ASSUME NEW k \in 1 .. 8 PROVE Place[k] = ByteBase * Place[k - 1]
  BY <1>3
<1> QED BY <1>4, <1>5


\* A quotient is determined by its remainder.
LEMMA QuotientUnique ==
  ASSUME NEW w \in Nat \ {0}, NEW q \in Int, NEW r \in 0 .. (w - 1), NEW a \in Int,
         a = w * q + r
  PROVE  a % w = r /\ a \div w = q
<1>1. a % w \in 0 .. (w - 1) /\ (a \div w) \in Int /\ a = w * (a \div w) + (a % w)
  BY DivisionFact
<1>2. a % w = r
  <2> DEFINE p == a \div w
             s == a % w
  <2>1. p \in Int /\ s \in 0 .. (w - 1) /\ w * q + r = w * p + s
    BY <1>1
  <2> HIDE DEF p, s
  <2>2. r = s
    BY <2>1, RemainderUnique
  <2> QED BY <2>2 DEF s
<1>3. ASSUME NEW p \in Int, w * p = w * q PROVE p = q
  <2>1. w * (p - q) = 0
    BY <1>3, SMT
  <2> QED BY <2>1, SMT
<1>4. w * (a \div w) = w * q
  <2> DEFINE p == a \div w
  <2>1. p \in Int /\ a = w * p + r
    BY <1>1, <1>2
  <2> HIDE DEF p
  <2>2. w * p = w * q
    BY <2>1, SMT
  <2> QED BY <2>2 DEF p
<1> QED BY <1>1, <1>2, <1>3, <1>4

\* Dividing twice is dividing by the product.
LEMMA DivideTwice ==
  ASSUME NEW a \in Nat, NEW p \in Nat \ {0}, NEW b \in Nat \ {0}
  PROVE  a \div (b * p) = (a \div p) \div b
<1>1. PICK x \in Int, r \in 0 .. (p - 1) : x = a \div p /\ a = p * x + r
  BY DivisionFact
<1>2. PICK y \in Int, s \in 0 .. (b - 1) : y = x \div b /\ x = b * y + s
  BY DivisionFact
<1>3. b * p \in Nat \ {0}
  BY SMT
<1>4. p * s + r \in 0 .. (b * p - 1)
  <2>1. p * s >= 0 /\ p * s <= p * (b - 1)
    BY SMT
  <2>2. p * (b - 1) = b * p - p
    BY SMT
  <2> QED BY <2>1, <2>2, SMT
<1>5. a = (b * p) * y + (p * s + r)
  <2>1. p * x = (b * p) * y + p * s
    BY <1>2, SMT
  <2>2. p * x \in Int /\ (b * p) * y \in Int /\ p * s \in Int
    BY SMT
  <2> QED BY <1>1, <2>1, <2>2
<1>6. a \div (b * p) = y
  <2> DEFINE w == b * p
             t == p * s + r
  <2>1. w \in Nat \ {0} /\ t \in 0 .. (w - 1) /\ a = w * y + t
    BY <1>3, <1>4, <1>5
  <2> HIDE DEF w, t
  <2>2. a \div w = y
    BY <2>1, QuotientUnique
  <2> QED BY <2>2 DEF w
<1> QED BY <1>1, <1>2, <1>6

\* What is left of a word after k bytes is its next byte and what is left then.
LEMMA ByteSplit ==
  ASSUME NEW word \in Nat, NEW k \in 0 .. 7
  PROVE  /\ RawBits(word)[k + 1] \in 0 .. (ByteBase - 1)
         /\ word \div Place[k] \in Nat
         /\ word \div Place[k] = RawBits(word)[k + 1] + ByteBase * (word \div Place[k + 1])
<1>1. Place[k] \in Nat \ {0}
  <2>0. ByteBase \in Nat \ {0}
    BY ReporterAssumption
  <2>1. \A b \in Nat \ {0}, p \in Nat \ {0} : b * p \in Nat \ {0}
    BY SMT
  <2>2. Place[0] \in Nat \ {0}
    BY PlaceFacts
  <2>3. ASSUME NEW j \in 1 .. 8, Place[j - 1] \in Nat \ {0} PROVE Place[j] \in Nat \ {0}
    BY <2>0, <2>1, <2>3, PlaceFacts
  <2>4. Place[1] \in Nat \ {0}
    BY <2>2, <2>3
  <2>5. Place[2] \in Nat \ {0}
    BY <2>4, <2>3
  <2>6. Place[3] \in Nat \ {0}
    BY <2>5, <2>3
  <2>7. Place[4] \in Nat \ {0}
    BY <2>6, <2>3
  <2>8. Place[5] \in Nat \ {0}
    BY <2>7, <2>3
  <2>9. Place[6] \in Nat \ {0}
    BY <2>8, <2>3
  <2>10. Place[7] \in Nat \ {0}
    BY <2>9, <2>3
  <2> QED BY <2>2, <2>4, <2>5, <2>6, <2>7, <2>8, <2>9, <2>10
<1>2. PICK q \in Int : q = word \div Place[k]
  BY <1>1, DivisionFact
<1>3. q \in Nat
  BY <1>1, <1>2, SMT
<1>4. word \div Place[k + 1] = q \div ByteBase
  <2>1. Place[k + 1] = ByteBase * Place[k]
    <3>1. k + 1 \in 1 .. 8 /\ (k + 1) - 1 = k
      OBVIOUS
    <3> QED BY <3>1, PlaceFacts
  <2> QED BY <1>1, <1>2, <2>1, DivideTwice, ReporterAssumption
<1>5. RawBits(word)[k + 1] = q % ByteBase
  <2>1. k + 1 \in 1 .. 8 /\ (k + 1) - 1 = k
    OBVIOUS
  <2> QED BY <1>2, <2>1 DEF RawBits
<1>6. /\ q % ByteBase \in 0 .. (ByteBase - 1) /\ (q \div ByteBase) \in Int
      /\ q = ByteBase * (q \div ByteBase) + (q % ByteBase)
  BY ReporterAssumption, DivisionFact
<1>7. q = (q % ByteBase) + ByteBase * (q \div ByteBase)
  <2> DEFINE x == ByteBase * (q \div ByteBase)
             y == q % ByteBase
  <2>1. x \in Int /\ y \in Int /\ q = x + y
    BY <1>6, ReporterAssumption, SMT
  <2> HIDE DEF x, y
  <2>2. q = y + x
    BY <2>1
  <2> QED BY <2>2 DEF x, y
<1> QED BY <1>2, <1>3, <1>4, <1>5, <1>6, <1>7


-----------------------------------------------------------------------------
(* GetCombinedAllocInfo reads the bit-fields of the union.                 *)

\* The five bytes of the size, and the three of the count, put together.
LEMMA NumberOfFive ==
  ASSUME NEW bits
  PROVE  Number(bits, 1, 5) =
           bits[1] + ByteBase * (bits[2] + ByteBase * (bits[3] + ByteBase *
             (bits[4] + ByteBase * (bits[5] + ByteBase * 0))))
<1> DEFINE Rec(g) == [k \in 1 .. (5 + 1) |->
                       IF k > 5 THEN 0 ELSE bits[k] + ByteBase * g[k + 1]]
           n5 == bits[5] + ByteBase * 0
           n4 == bits[4] + ByteBase * n5
           n3 == bits[3] + ByteBase * n4
           n2 == bits[2] + ByteBase * n3
           n1 == bits[1] + ByteBase * n2
           f == [k \in 1 .. (5 + 1) |->
                  IF k = 1 THEN n1 ELSE IF k = 2 THEN n2 ELSE IF k = 3 THEN n3 ELSE
                  IF k = 4 THEN n4 ELSE IF k = 5 THEN n5 ELSE 0]
<1>1. f = Rec(f)
  <2>1. /\ f[1] = bits[1] + ByteBase * f[2] /\ f[2] = bits[2] + ByteBase * f[3]
        /\ f[3] = bits[3] + ByteBase * f[4] /\ f[4] = bits[4] + ByteBase * f[5]
        /\ f[5] = bits[5] + ByteBase * f[6] /\ f[6] = 0
    <3> HIDE DEF n1, n2, n3, n4, n5
    <3>1. f[1] = n1 /\ f[2] = n2 /\ f[3] = n3 /\ f[4] = n4 /\ f[5] = n5 /\ f[6] = 0
      OBVIOUS
    <3> HIDE DEF f
    <3> QED BY <3>1 DEF n1, n2, n3, n4, n5
  <2>2. f = [k \in 1 .. (5 + 1) |-> f[k]]
    OBVIOUS
  <2> HIDE DEF f
  <2>3. ASSUME NEW k \in 1 .. (5 + 1) PROVE f[k] = Rec(f)[k]
    BY <2>1
  <2> QED BY <2>2, <2>3
<1> HIDE DEF f
<1>2. PICK from : from = CHOOSE g : g = Rec(g)
  OBVIOUS
<1>3. Number(bits, 1, 5) = from[1]
  BY <1>2 DEF Number
<1>4. from = Rec(from)
  <2> HIDE DEF Rec
  <2> QED BY <1>1, <1>2, Zenon
<1>5. /\ from[1] = bits[1] + ByteBase * from[2] /\ from[2] = bits[2] + ByteBase * from[3]
      /\ from[3] = bits[3] + ByteBase * from[4] /\ from[4] = bits[4] + ByteBase * from[5]
      /\ from[5] = bits[5] + ByteBase * from[6] /\ from[6] = 0
  BY <1>4
<1> QED BY <1>3, <1>5

LEMMA NumberOfThree ==
  ASSUME NEW bits
  PROVE  Number(bits, 6, 8) =
           bits[6] + ByteBase * (bits[7] + ByteBase * (bits[8] + ByteBase * 0))
<1> DEFINE Rec(g) == [k \in 6 .. (8 + 1) |->
                       IF k > 8 THEN 0 ELSE bits[k] + ByteBase * g[k + 1]]
           n8 == bits[8] + ByteBase * 0
           n7 == bits[7] + ByteBase * n8
           n6 == bits[6] + ByteBase * n7
           f == [k \in 6 .. (8 + 1) |->
                  IF k = 6 THEN n6 ELSE IF k = 7 THEN n7 ELSE IF k = 8 THEN n8 ELSE 0]
<1>1. f = Rec(f)
  <2>1. /\ f[6] = bits[6] + ByteBase * f[7] /\ f[7] = bits[7] + ByteBase * f[8]
        /\ f[8] = bits[8] + ByteBase * f[9] /\ f[9] = 0
    <3> HIDE DEF n6, n7, n8
    <3>1. f[6] = n6 /\ f[7] = n7 /\ f[8] = n8 /\ f[9] = 0
      OBVIOUS
    <3> HIDE DEF f
    <3> QED BY <3>1 DEF n6, n7, n8
  <2>2. f = [k \in 6 .. (8 + 1) |-> f[k]]
    OBVIOUS
  <2> HIDE DEF f
  <2>3. ASSUME NEW k \in 6 .. (8 + 1) PROVE f[k] = Rec(f)[k]
    BY <2>1
  <2> QED BY <2>2, <2>3
<1> HIDE DEF f
<1>2. PICK from : from = CHOOSE g : g = Rec(g)
  OBVIOUS
<1>3. Number(bits, 6, 8) = from[6]
  BY <1>2 DEF Number
<1>4. from = Rec(from)
  <2> HIDE DEF Rec
  <2> QED BY <1>1, <1>2, Zenon
<1>5. /\ from[6] = bits[6] + ByteBase * from[7] /\ from[7] = bits[7] + ByteBase * from[8]
      /\ from[8] = bits[8] + ByteBase * from[9] /\ from[9] = 0
  BY <1>4
<1> QED BY <1>3, <1>5

\* One more byte in front of a number of the bytes below the weight p.
LEMMA OneMoreByte ==
  ASSUME NEW b \in 0 .. (ByteBase - 1), NEW p \in Nat \ {0}, NEW n \in 0 .. (p - 1),
         NEW q \in Nat, NEW x \in Nat, x = n + p * q
  PROVE  /\ b + ByteBase * n \in 0 .. (ByteBase * p - 1)
         /\ ByteBase * p \in Nat \ {0}
         /\ b + ByteBase * x = (b + ByteBase * n) + (ByteBase * p) * q
<1>0. PICK B \in Nat \ {0} : B = ByteBase
  BY ReporterAssumption
<1>1. B * n >= 0 /\ B * n <= B * (p - 1)
  BY SMT
<1>2. B * (p - 1) = B * p - B
  BY SMT
<1>3. B * p \in Nat \ {0}
  BY SMT
<1>4. b + B * n \in 0 .. (B * p - 1)
  BY <1>0, <1>1, <1>2, <1>3, SMT
<1>5. B * x = B * n + (B * p) * q
  BY SMT
<1>6. B * n \in Int /\ (B * p) * q \in Int /\ B * x \in Int
  BY SMT
<1>7. b + B * x = (b + B * n) + (B * p) * q
  BY <1>0, <1>5, <1>6
<1> QED BY <1>0, <1>3, <1>4, <1>7


\* The size and the count that the bytes of a word spell.
LEMMA NumbersOfWord ==
  ASSUME NEW word \in Word
  PROVE  /\ Number(RawBits(word), 1, 5) = TotalSize(word)
         /\ Number(RawBits(word), 6, 8) = NumberOfAllocs(word)
         /\ TotalSize(word) \in 0 .. (SizeMod - 1)
         /\ NumberOfAllocs(word) \in 0 .. (CountMod - 1)
<1> DEFINE b == RawBits(word)
           Q(k) == word \div Place[k]
           B == ByteBase
           n5 == b[5] + B * 0
           n4 == b[4] + B * n5
           n3 == b[3] + B * n4
           n2 == b[2] + B * n3
           n1 == b[1] + B * n2
           n8 == b[8] + B * 0
           n7 == b[7] + B * n8
           n6 == b[6] + B * n7
<1>0. word \in Nat /\ word < SizeMod * CountMod
  <2>1. PICK w \in Nat \ {0} : w = WordMod
    BY WordModPositive
  <2>2. word \in 0 .. (w - 1)
    BY <2>1 DEF Word
  <2>3. word \in Nat /\ word < w
    BY <2>2
  <2> QED BY <2>1, <2>3 DEF WordMod
<1>1. \A k \in 0 .. 7 : /\ b[k + 1] \in 0 .. (B - 1)
                        /\ Q(k) \in Nat
                        /\ Q(k) = b[k + 1] + B * Q(k + 1)
  BY <1>0, ByteSplit
<1> HIDE DEF b, Q
<1>2. /\ b[1] \in 0 .. (B - 1) /\ b[2] \in 0 .. (B - 1) /\ b[3] \in 0 .. (B - 1)
      /\ b[4] \in 0 .. (B - 1) /\ b[5] \in 0 .. (B - 1) /\ b[6] \in 0 .. (B - 1)
      /\ b[7] \in 0 .. (B - 1) /\ b[8] \in 0 .. (B - 1)
      /\ Q(0) \in Nat /\ Q(1) \in Nat /\ Q(2) \in Nat /\ Q(3) \in Nat
      /\ Q(4) \in Nat /\ Q(5) \in Nat /\ Q(6) \in Nat /\ Q(7) \in Nat
      /\ Q(0) = b[1] + B * Q(1) /\ Q(1) = b[2] + B * Q(2) /\ Q(2) = b[3] + B * Q(3)
      /\ Q(3) = b[4] + B * Q(4) /\ Q(4) = b[5] + B * Q(5) /\ Q(5) = b[6] + B * Q(6)
      /\ Q(6) = b[7] + B * Q(7) /\ Q(7) = b[8] + B * Q(8)
  BY <1>1
<1>3. Q(8) \in Nat
  <2>1. PICK p \in Nat \ {0}, q \in Nat \ {0} : p = Place[7] /\ q = Place[8]
    <3>1. Place[3] \in Nat \ {0} /\ Place[5] \in Nat \ {0} /\ B \in Nat \ {0}
      BY ReporterAssumption, FieldAssumption
    <3>2. Place[6] = B * Place[5] /\ Place[7] = B * Place[6] /\ Place[8] = B * Place[7]
      BY PlaceFacts
    <3>3. \A x \in Nat \ {0}, y \in Nat \ {0} : x * y \in Nat \ {0}
      BY SMT
    <3> HIDE DEF B
    <3>4. Place[6] \in Nat \ {0}
      BY <3>1, <3>2, <3>3
    <3>5. Place[7] \in Nat \ {0}
      BY <3>1, <3>2, <3>3, <3>4
    <3>6. Place[8] \in Nat \ {0}
      BY <3>1, <3>2, <3>3, <3>5
    <3> QED BY <3>5, <3>6
  <2>2. word \div q \in Nat
    BY <1>0, SMT
  <2> QED BY <2>1, <2>2 DEF Q
<1>4. Q(0) = word
  <2>1. word \div 1 = word
    BY <1>0, SMT
  <2> QED BY <2>1, PlaceFacts DEF Q
<1>5. Place[1] = B * 1 /\ Place[2] = B * Place[1] /\ Place[3] = B * Place[2]
      /\ Place[4] = B * Place[3] /\ Place[5] = B * Place[4]
  BY PlaceFacts
<1> HIDE DEF n1, n2, n3, n4, n5, n6, n7, n8, B
<1> DEFINE Spells(p, n, x, q) == /\ p \in Nat \ {0} /\ n \in 0 .. (p - 1)
                                 /\ x = n + p * q
<1>6. \A q \in Nat : Spells(1, 0, q, q)
  BY SMT
<1>7. ASSUME NEW c \in 0 .. (B - 1), NEW p, NEW n, NEW x \in Nat, NEW q \in Nat,
             Spells(p, n, x, q)
      PROVE  Spells(B * p, c + B * n, c + B * x, q)
  BY <1>7, OneMoreByte DEF B
<1> HIDE DEF Spells
<1>8. Spells(Place[1], n5, Q(4), Q(5))
  <2>1. Spells(B * 1, b[5] + B * 0, b[5] + B * Q(5), Q(5))
    BY <1>2, <1>3, <1>6, <1>7, Zenon
  <2> QED BY <1>2, <1>5, <2>1, Zenon DEF n5
<1>9. Spells(Place[2], n4, Q(3), Q(5))
  <2>1. Spells(B * Place[1], b[4] + B * n5, b[4] + B * Q(4), Q(5))
    BY <1>2, <1>3, <1>7, <1>8, Zenon
  <2> QED BY <1>2, <1>5, <2>1, Zenon DEF n4
<1>10. Spells(Place[3], n3, Q(2), Q(5))
  <2>1. Spells(B * Place[2], b[3] + B * n4, b[3] + B * Q(3), Q(5))
    BY <1>2, <1>3, <1>7, <1>9, Zenon
  <2> QED BY <1>2, <1>5, <2>1, Zenon DEF n3
<1>11. Spells(Place[4], n2, Q(1), Q(5))
  <2>1. Spells(B * Place[3], b[2] + B * n3, b[2] + B * Q(2), Q(5))
    BY <1>2, <1>3, <1>7, <1>10, Zenon
  <2> QED BY <1>2, <1>5, <2>1, Zenon DEF n2
<1>size. Spells(Place[5], n1, Q(0), Q(5))
  <2>1. Spells(B * Place[4], b[1] + B * n2, b[1] + B * Q(1), Q(5))
    BY <1>2, <1>3, <1>7, <1>11, Zenon
  <2> QED BY <1>2, <1>5, <2>1, Zenon DEF n1
<1>12. Place[5] \in Nat \ {0} /\ n1 \in 0 .. (Place[5] - 1) /\ Q(0) = n1 + Place[5] * Q(5)
  BY <1>size, Zenon DEF Spells
<1>13. Spells(Place[1], n8, Q(7), Q(8))
  <2>1. Spells(B * 1, b[8] + B * 0, b[8] + B * Q(8), Q(8))
    BY <1>2, <1>3, <1>6, <1>7, Zenon
  <2> QED BY <1>2, <1>5, <2>1, Zenon DEF n8
<1>14. Spells(Place[2], n7, Q(6), Q(8))
  <2>1. Spells(B * Place[1], b[7] + B * n8, b[7] + B * Q(7), Q(8))
    BY <1>2, <1>3, <1>7, <1>13, Zenon
  <2> QED BY <1>2, <1>5, <2>1, Zenon DEF n7
<1>count. Spells(Place[3], n6, Q(5), Q(8))
  <2>1. Spells(B * Place[2], b[6] + B * n7, b[6] + B * Q(6), Q(8))
    BY <1>2, <1>3, <1>7, <1>14, Zenon
  <2> QED BY <1>2, <1>5, <2>1, Zenon DEF n6
<1>15. Place[3] \in Nat \ {0} /\ n6 \in 0 .. (Place[3] - 1) /\ Q(5) = n6 + Place[3] * Q(8)
  BY <1>count, Zenon DEF Spells
<1>16. SizeMod = Place[5] /\ CountMod = Place[3]
  BY ReporterAssumption
<1>17. word = SizeMod * Q(5) + n1
  <2>1. ASSUME NEW s \in Nat, NEW q \in Nat, NEW n \in Int, word = n + s * q
        PROVE  word = s * q + n
    BY <2>1, SMT
  <2> QED BY <1>2, <1>4, <1>12, <1>16, <2>1
<1>18. TotalSize(word) = n1 /\ Q(5) = NumberOfAllocs(word)
  <2>1. word % SizeMod = n1 /\ word \div SizeMod = Q(5)
    <3>1. SizeMod \in Nat \ {0} /\ Q(5) \in Int /\ n1 \in 0 .. (SizeMod - 1) /\ word \in Int
      BY <1>0, <1>2, <1>12, <1>16
    <3>2. PICK w \in Nat \ {0}, q \in Int : w = SizeMod /\ q = Q(5)
      BY <3>1
    <3>3. n1 \in 0 .. (w - 1) /\ word = w * q + n1
      BY <1>17, <3>1, <3>2
    <3>4. word % w = n1 /\ word \div w = q
      BY <3>1, <3>3, QuotientUnique
    <3> QED BY <3>2, <3>4
  <2> QED BY <2>1 DEF TotalSize, NumberOfAllocs
<1>19. Q(8) = 0
  <2>1. ASSUME NEW s \in Nat \ {0}, NEW c \in Nat \ {0}, NEW q \in Nat, NEW t \in Nat,
               NEW n \in Nat, NEW m1 \in Nat,
               word < s * c, word = s * q + n, q = m1 + c * t, t # 0
        PROVE  FALSE
    <3>1. c * t >= c
      BY <2>1, SMT
    <3>2. q >= c
      BY <2>1, <3>1, SMT
    <3>3. s * q >= s * c
      BY <3>2, SMT
    <3> QED BY <1>0, <2>1, <3>3, SMT
  <2>2. n1 \in Nat /\ n6 \in Nat
    BY <1>12, <1>15
  <2> QED BY <1>0, <1>2, <1>3, <1>12, <1>15, <1>16, <1>17, <2>1, <2>2
<1>20. Q(5) = n6
  <2>1. ASSUME NEW c \in Nat, NEW n \in Int, NEW q \in Nat, q = n + c * 0 PROVE q = n
    BY <2>1, SMT
  <2> QED BY <1>2, <1>15, <1>19, <2>1
<1>21. Number(RawBits(word), 1, 5) = n1 /\ Number(RawBits(word), 6, 8) = n6
  BY NumberOfFive, NumberOfThree DEF n1, n2, n3, n4, n5, n6, n7, n8, b, B
<1> QED BY <1>12, <1>15, <1>16, <1>18, <1>20, <1>21

\* The reader of the report and the writer of the word agree about its layout:
\* the bytes that internal/info/info.go:50-65 puts together are, for every size
\* of a byte and every word, the fields total_size and number_of_allocs of the
\* union in bpf/memleak.h.
THEOREM DecoderTheorem ==
  \A s, word : word \in Word =>
    /\ GetCombinedAllocInfo(s, RawBits(word)) =
         [StackId |-> s, TotalSize |-> TotalSize(word),
          NumberOfAllocs |-> NumberOfAllocs(word)]
    /\ TotalSize(word) \in 0 .. (SizeMod - 1)
    /\ NumberOfAllocs(word) \in 0 .. (CountMod - 1)
BY NumbersOfWord DEF GetCombinedAllocInfo


-----------------------------------------------------------------------------
(* What a word tells of the entries it accounts for.                       *)

\* The bytes of an entry, none of them cut off.
AllBytesOf(e) == {e} \X (1 .. e[2])
AllBytes(entries) == UNION {AllBytesOf(e) : e \in entries}

LEMMA TrueTotalsAre ==
  ASSUME NEW S
  PROVE  TrueTotals(S) = [size |-> Cardinality(AllBytes(S)), count |-> Cardinality(S)]
BY Zenon DEF TrueTotals, AllBytes, AllBytesOf

LEMMA AllBytesOfFacts ==
  ASSUME NEW e, e[2] \in Nat
  PROVE  IsFiniteSet(AllBytesOf(e)) /\ Cardinality(AllBytesOf(e)) = e[2]
<1>1. IsFiniteSet(1 .. e[2]) /\ Cardinality(1 .. e[2]) = e[2]
  <2>1. PICK n \in Nat : n = e[2]
    OBVIOUS
  <2>2. IsFiniteSet(1 .. n) /\ Cardinality(1 .. n) = IF 1 > n THEN 0 ELSE n - 1 + 1
    BY FS_Interval
  <2>3. IsFiniteSet(1 .. n) /\ Cardinality(1 .. n) = n
    BY <2>2
  <2> QED BY <2>1, <2>3
<1>2. IsFiniteSet({e}) /\ Cardinality({e}) = 1
  BY FS_Singleton
<1>3. IsFiniteSet({e} \X (1 .. e[2])) /\ Cardinality({e} \X (1 .. e[2])) = 1 * e[2]
  BY <1>1, <1>2, FS_Product
<1> QED BY <1>3 DEF AllBytesOf

LEMMA AllBytesFinite ==
  ASSUME NEW S, IsFiniteSet(S), \A e \in S : e[2] \in Nat
  PROVE  IsFiniteSet(AllBytes(S)) /\ Cardinality(AllBytes(S)) \in Nat
<1> DEFINE T == {AllBytesOf(e) : e \in S}
           f == [e \in S |-> AllBytesOf(e)]
<1>1. f \in Surjection(S, T)
  BY DEF Surjection
<1>2. IsFiniteSet(T)
  BY <1>1, FS_Surjection
<1>3. \A x \in T : IsFiniteSet(x)
  BY AllBytesOfFacts
<1>4. IsFiniteSet(AllBytes(S))
  BY <1>2, <1>3, FS_UNION DEF AllBytes
<1> QED BY <1>4, FS_CardinalityType

\* Totals that fit in their fields can be read back from the packed word.
LEMMA PackedTells ==
  ASSUME NEW S, IsFiniteSet(S), \A e \in S : e[2] \in Nat
  PROVE  /\ TrueTotals(S) \in [size : Nat, count : Nat]
         /\ TrueTotals(S).size < SizeMod /\ TrueTotals(S).count < CountMod =>
              /\ TotalSize(Packed(S)) = TrueTotals(S).size
              /\ NumberOfAllocs(Packed(S)) = TrueTotals(S).count
<1>1. PICK n \in Nat, c \in Nat : n = Cardinality(AllBytes(S)) /\ c = Cardinality(S)
  BY AllBytesFinite, FS_CardinalityType
<1>2. TrueTotals(S) = [size |-> n, count |-> c]
  BY <1>1, TrueTotalsAre
<1>3. ASSUME n < SizeMod, c < CountMod
      PROVE  TotalSize(Packed(S)) = n /\ NumberOfAllocs(Packed(S)) = c
  <2>1. ASSUME NEW e \in S PROVE BytesOf(e) = AllBytesOf(e)
    <3>1. AllBytesOf(e) \subseteq AllBytes(S)
      BY DEF AllBytes
    <3>2. Cardinality(AllBytesOf(e)) <= Cardinality(AllBytes(S))
      BY <3>1, AllBytesFinite, FS_Subset
    <3>3. e[2] <= n
      BY <1>1, <3>2, AllBytesOfFacts
    <3>4. e[2] % SizeMod = e[2]
      BY <1>3, <3>3, FieldAssumption, SMT
    <3> QED BY <3>4 DEF BytesOf, AllBytesOf, Truncated
  <2>2. Bytes(S) = AllBytes(S)
    BY <2>1 DEF Bytes, AllBytes
  <2>3. PICK a \in Nat \ {0}, d \in Nat \ {0} : a = SizeMod /\ d = CountMod
    BY FieldAssumption
  <2>4. a * c <= a * (d - 1)
    BY <1>3, <2>3, SMT
  <2>5. a * (d - 1) = a * d - a
    BY SMT
  <2>6. a * c \in Nat /\ a * d \in Nat
    BY SMT
  <2>7. n + a * c \in Nat /\ n + a * c < a * d
    BY <1>3, <2>3, <2>4, <2>5, <2>6, SMT
  <2>8. Packed(S) = (n + a * c) % (a * d)
    BY <1>1, <2>2, <2>3 DEF Packed, WordMod
  <2>9. \A x \in Nat, w \in Nat : x < w => x % w = x
    BY SMT
  <2>10. Packed(S) = n + a * c
    BY <2>6, <2>7, <2>8, <2>9
  <2>11. PICK x \in Int : x = Packed(S) /\ x = a * c + n
    BY <2>6, <2>7, <2>10
  <2>12. n \in 0 .. (a - 1)
    BY <1>3, <2>3
  <2>13. x % a = n /\ x \div a = c
    BY <2>11, <2>12, QuotientUnique
  <2> QED BY <2>3, <2>11, <2>13 DEF TotalSize, NumberOfAllocs
<1> QED BY <1>2, <1>3


-----------------------------------------------------------------------------
(* Keeping the largest N of a growing set.                                 *)

\* H is a choice of the largest entries of C, as many as the limit allows.
TopOf(C, H) ==
  /\ IsFiniteSet(C) /\ C \subseteq Info
  /\ H \subseteq C
  /\ Cardinality(H) = AtMost(nTopStacks, Cardinality(C))
  /\ \A x \in C \ H, y \in H : x.TotalSize <= y.TotalSize

LEMMA InfoFields ==
  ASSUME NEW x \in Info
  PROVE  x.StackId \in StackId /\ x.TotalSize \in Nat /\ x.NumberOfAllocs \in Nat
BY FieldAssumption DEF Info

LEMMA TopFacts ==
  ASSUME NEW C, NEW H, TopOf(C, H)
  PROVE  /\ IsFiniteSet(H) /\ Cardinality(H) \in Nat /\ Cardinality(C) \in Nat
         /\ Cardinality(H) <= Cardinality(C)
         /\ Cardinality(H) = Cardinality(C) => H = C
         /\ H # {} => Cardinality(H) > 0
<1>1. IsFiniteSet(C) /\ H \in SUBSET C
  BY DEF TopOf
<1>2. IsFiniteSet(H) /\ Cardinality(H) <= Cardinality(C) /\ (Cardinality(C) = Cardinality(H) => C = H)
  BY <1>1, FS_Subset
<1>3. Cardinality(H) \in Nat /\ Cardinality(C) \in Nat
  BY <1>1, <1>2, FS_CardinalityType
<1>4. Cardinality(H) = 0 => H = {}
  BY <1>2, FS_EmptySet
<1> QED BY <1>2, <1>3, <1>4

\* There is room: the heap holds every candidate, and takes the new one.
LEMMA TopPush ==
  ASSUME NEW C, NEW H, TopOf(C, H), NEW x \in Info, x \notin C,
         Cardinality(H) < nTopStacks
  PROVE  TopOf(C \cup {x}, H \cup {x})
<1>1. /\ IsFiniteSet(C) /\ Cardinality(C) \in Nat /\ Cardinality(H) \in Nat
      /\ Cardinality(H) = Cardinality(C) => H = C
  BY TopFacts DEF TopOf
<1>2. H = C
  BY <1>1, ReporterAssumption DEF TopOf, AtMost
<1>3. IsFiniteSet(C \cup {x}) /\ Cardinality(C \cup {x}) = Cardinality(C) + 1
  BY <1>1, FS_AddElement
<1>4. Cardinality(C \cup {x}) = AtMost(nTopStacks, Cardinality(C \cup {x}))
  BY <1>1, <1>2, <1>3, ReporterAssumption DEF AtMost
<1> QED BY <1>2, <1>3, <1>4 DEF TopOf

\* The heap is full: the new entry takes the place of a least one if it is
\* larger, and is dropped if it is not.
LEMMA TopReplace ==
  ASSUME NEW C, NEW H, TopOf(C, H), NEW x \in Info, x \notin C,
         Cardinality(H) >= nTopStacks, NEW r \in H, \A y \in H : r.TotalSize <= y.TotalSize
  PROVE  TopOf(C \cup {x}, IF x.TotalSize > r.TotalSize THEN (H \ {r}) \cup {x} ELSE H)
<1>1. /\ IsFiniteSet(C) /\ IsFiniteSet(H) /\ C \subseteq Info /\ H \subseteq C
      /\ Cardinality(C) \in Nat /\ Cardinality(H) \in Nat
      /\ Cardinality(H) > 0 /\ Cardinality(H) <= Cardinality(C)
      /\ Cardinality(H) = AtMost(nTopStacks, Cardinality(C))
      /\ \A z \in C \ H, y \in H : z.TotalSize <= y.TotalSize
  BY TopFacts DEF TopOf
<1>2. IsFiniteSet(C \cup {x}) /\ Cardinality(C \cup {x}) = Cardinality(C) + 1
  BY <1>1, FS_AddElement
<1>3. Cardinality(H) = AtMost(nTopStacks, Cardinality(C \cup {x}))
  BY <1>1, <1>2, ReporterAssumption DEF AtMost
<1>4. \A z \in C \cup {x} : z.TotalSize \in Nat
  BY <1>1, InfoFields
<1>5. CASE x.TotalSize > r.TotalSize
  <2> DEFINE K == (H \ {r}) \cup {x}
  <2>1. Cardinality(K) = Cardinality(H)
    <3>1. IsFiniteSet(H \ {r}) /\ Cardinality(H \ {r}) = Cardinality(H) - 1
      BY <1>1, FS_RemoveElement
    <3>2. x \notin H \ {r}
      BY <1>1
    <3>3. Cardinality(K) = Cardinality(H \ {r}) + 1
      BY <3>1, <3>2, FS_AddElement
    <3> QED BY <1>1, <3>1, <3>3
  <2>2. ASSUME NEW z \in (C \cup {x}) \ K, NEW y \in K PROVE z.TotalSize <= y.TotalSize
    <3>1. z \in C \ H \/ z = r
      OBVIOUS
    <3>2. z.TotalSize <= r.TotalSize
      BY <1>1, <1>4, <3>1
    <3>3. y \in H \/ y = x
      OBVIOUS
    <3> QED BY <1>1, <1>4, <1>5, <3>1, <3>2, <3>3
  <2>3. K \subseteq C \cup {x} /\ C \cup {x} \subseteq Info
    BY <1>1
  <2> HIDE DEF K
  <2>4. TopOf(C \cup {x}, K)
    BY <1>2, <1>3, <2>1, <2>2, <2>3 DEF TopOf
  <2> QED BY <1>5, <2>4 DEF K
<1>6. CASE ~(x.TotalSize > r.TotalSize)
  <2>1. ASSUME NEW z \in (C \cup {x}) \ H, NEW y \in H PROVE z.TotalSize <= y.TotalSize
    <3>1. y.TotalSize \in Nat /\ r.TotalSize \in Nat /\ x.TotalSize \in Nat
      BY <1>1, <1>4
    <3>2. CASE z = x
      BY <1>6, <3>1, <3>2
    <3>3. CASE z \in C \ H
      BY <1>1, <3>3
    <3> QED BY <3>2, <3>3
  <2>2. TopOf(C \cup {x}, H)
    BY <1>1, <1>2, <1>3, <2>1 DEF TopOf
  <2> QED BY <1>6, <2>2
<1> QED BY <1>5, <1>6


-----------------------------------------------------------------------------
(* The inductive invariant.                                                *)

\* Here nothing makes the statistics inexact.
Exact == exact = TRUE /\ WordsExact

\* While the walk goes on the history has the present totals, and what was read
\* of a stack is a total of the history, unless one was too large for its field.
\* A walk that ended without an error has met every key it had to.
Truthful ==
  /\ at = "scan" => \A s \in StackId : TrueTotals(accounted[s]) \in held[s]
  /\ \A s \in StackId : sample[s] # None =>
       /\ sample[s].StackId = s
       /\ Fits(s) => [size |-> sample[s].TotalSize,
                      count |-> sample[s].NumberOfAllocs] \in held[s]
  /\ at \in {"pop", "print"} /\ ~iterErr => \A s \in due : sample[s] # None

Sorted ==
  \A i, j \in 1 .. Len(topStacks) :
    i < j => topStacks[i].TotalSize >= topStacks[j].TotalSize

\* The heap and the list together are the largest of the entries that were
\* read; what is still in the heap is no smaller than what was popped.
Selected ==
  at \in {"scan", "pop", "print"} =>
    /\ TopOf(Candidates, h \cup Listed)
    /\ at = "scan" => topStacks = <<>>
    /\ at = "print" => h = {}
    /\ h \cap Listed = {}
    /\ Cardinality(Listed) = Len(topStacks)
    /\ Sorted
    /\ \A x \in h, y \in Listed : x.TotalSize >= y.TotalSize

ReportInv == Exact /\ TypeOK /\ Truthful /\ Selected

\* What the walk has read is finite, and each entry belongs to its stack.
LEMMA CandidatesFacts ==
  ASSUME TypeOK, Truthful
  PROVE  /\ IsFiniteSet(Candidates) /\ Candidates \subseteq Info
         /\ \A x \in Candidates : /\ x.StackId \in StackId /\ x.TotalSize > 0
                                  /\ x = sample[x.StackId]
<1> DEFINE S == {s \in StackId : sample[s] # None /\ sample[s].TotalSize > 0}
           f == [s \in S |-> sample[s]]
<1>1. IsFiniteSet(S)
  BY ReporterAssumption, FS_Subset
<1>2. f \in Surjection(S, Candidates)
  BY DEF Surjection, Candidates
<1>3. IsFiniteSet(Candidates)
  BY <1>1, <1>2, FS_Surjection
<1>4. ASSUME NEW x \in Candidates
      PROVE  x \in Info /\ x.StackId \in StackId /\ x.TotalSize > 0 /\ x = sample[x.StackId]
  <2>1. PICK s \in S : x = sample[s]
    BY DEF Candidates
  <2> QED BY <2>1 DEF TypeOK, Truthful
<1> QED BY <1>3, <1>4

\* A word that is there decodes to an entry, and to the totals of its stack
\* when they fit.
LEMMA DecodedFacts ==
  ASSUME Exact, NEW s \in StackId, combined[s] # None
  PROVE  /\ Decoded(s) \in Info
         /\ Decoded(s).StackId = s
         /\ TrueTotals(accounted[s]).size < SizeMod /\ TrueTotals(accounted[s]).count < CountMod =>
              [size |-> Decoded(s).TotalSize, count |-> Decoded(s).NumberOfAllocs]
                = TrueTotals(accounted[s])
<1>1. /\ combined[s] \in Word /\ IsFiniteSet(accounted[s])
      /\ accounted[s] \subseteq Entries
      /\ combined[s] = Packed(accounted[s])
  BY DEF Exact, WordsExact
<1>2. PICK w \in Word : w = combined[s]
  BY <1>1
<1>3. /\ Decoded(s) = [StackId |-> s, TotalSize |-> TotalSize(w),
                       NumberOfAllocs |-> NumberOfAllocs(w)]
      /\ TotalSize(w) \in 0 .. (SizeMod - 1)
      /\ NumberOfAllocs(w) \in 0 .. (CountMod - 1)
  BY <1>2, DecoderTheorem DEF Decoded
<1>4. /\ TrueTotals(accounted[s]) \in [size : Nat, count : Nat]
      /\ TrueTotals(accounted[s]).size < SizeMod /\ TrueTotals(accounted[s]).count < CountMod =>
           /\ TotalSize(Packed(accounted[s])) = TrueTotals(accounted[s]).size
           /\ NumberOfAllocs(Packed(accounted[s])) = TrueTotals(accounted[s]).count
  <2>1. \A e \in accounted[s] : e[2] \in Nat
    BY <1>1, ReporterAssumption
  <2> QED BY <1>1, <2>1, PackedTells
<1>5. Decoded(s) \in Info /\ Decoded(s).StackId = s
  BY <1>3 DEF Info
<1>6. ASSUME TrueTotals(accounted[s]).size < SizeMod, TrueTotals(accounted[s]).count < CountMod
      PROVE  [size |-> Decoded(s).TotalSize, count |-> Decoded(s).NumberOfAllocs]
               = TrueTotals(accounted[s])
  <2>1. PICK t \in [size : Nat, count : Nat] : t = TrueTotals(accounted[s])
    BY <1>4
  <2>2. TotalSize(w) = t.size /\ NumberOfAllocs(w) = t.count
    BY <1>1, <1>2, <1>4, <1>6, <2>1
  <2>3. Decoded(s).TotalSize = t.size /\ Decoded(s).NumberOfAllocs = t.count
    BY <1>3, <2>2
  <2>4. t = [size |-> t.size, count |-> t.count]
    OBVIOUS
  <2> QED BY <2>1, <2>3, <2>4
<1> QED BY <1>5, <1>6


-----------------------------------------------------------------------------
(* Every step keeps it.                                                    *)

\* Steps of the goroutine leave the map alone.
LEMMA ExactKept ==
  ASSUME Exact, UNCHANGED statisticsVars
  PROVE  Exact'
BY DEF Exact, WordsExact, statisticsVars

LEMMA SelectedKept ==
  ASSUME Selected, UNCHANGED <<at, sample, h, topStacks>>
  PROVE  Selected'
<1>1. Candidates' = Candidates /\ Listed' = Listed /\ (Sorted' <=> Sorted)
  BY DEF Candidates, Listed, Sorted
<1> QED BY <1>1 DEF Selected

LEMMA EmptyTop == TopOf({}, {})
<1>1. IsFiniteSet({}) /\ Cardinality({}) = 0
  BY FS_EmptySet
<1>2. AtMost(nTopStacks, 0) = 0
  BY ReporterAssumption DEF AtMost
<1> QED BY <1>1, <1>2 DEF TopOf

LEMMA ReportInit == Init => ReportInv
<1> SUFFICES ASSUME Init PROVE ReportInv
  OBVIOUS
<1>1. Exact
  BY WordsExactInit DEF Init, StatisticsInit, Exact
<1>2. TypeOK
  <2>1. exact \in BOOLEAN /\ open \in BOOLEAN /\ iterErr \in BOOLEAN
    BY Zenon DEF Init, StatisticsInit
  <2> QED BY <2>1 DEF Init, StatisticsInit, TypeOK
<1>3. Truthful /\ Selected
  BY DEF Init, Truthful, Selected
<1> QED BY <1>1, <1>2, <1>3 DEF ReportInv

\* A handler changes a word in the middle of the round.
LEMMA HandlerKeeps ==
  ASSUME ReportInv, HandlerStep
  PROVE  ReportInv'
<1>1. /\ Update /\ exact' = exact /\ UNCHANGED roundVars
      /\ held' = [s \in StackId |->
                    IF at = "scan" THEN held[s] \cup {TrueTotals(accounted'[s])} ELSE held[s]]
  BY DEF HandlerStep
<1>2. UNCHANGED <<at, open, iterErr, due, sample, h, topStacks>>
  BY <1>1 DEF roundVars, HandlerStep
<1>3. Exact'
  <2>1. exact = TRUE /\ exact' = TRUE /\ WordsExact
    BY <1>1, Zenon DEF ReportInv, Exact
  <2>2. [StatisticsNext]_statisticsVars
    BY <1>1, <2>1, Zenon DEF StatisticsNext
  <2>3. None \notin Word /\ \A e \in Entries : e[2] \in Nat
    BY ReporterAssumption
  <2>4. WordsExact'
    BY <2>1, <2>2, <2>3, WordsExactStep
  <2> QED BY <2>1, <2>4, Zenon DEF Exact
<1>4. /\ combined' \in [StackId -> Word \cup {None}]
      /\ accounted' \in [StackId -> SUBSET Entries]
      /\ \A s \in StackId : IsFiniteSet(accounted'[s])
  BY <1>3 DEF Exact, WordsExact
<1>5. \A s \in StackId : TrueTotals(accounted'[s]) \in [size : Nat, count : Nat]
  <2> TAKE s \in StackId
  <2>1. \A e \in accounted'[s] : e[2] \in Nat
    BY <1>4, ReporterAssumption
  <2> QED BY <1>4, <2>1, PackedTells
<1>6. TypeOK'
  <2>1. held' \in [StackId -> SUBSET [size : Nat, count : Nat]]
    <3>1. held \in [StackId -> SUBSET [size : Nat, count : Nat]]
      BY DEF ReportInv, TypeOK
    <3> QED BY <1>1, <1>5, <3>1
  <2>2. exact' \in BOOLEAN
    BY <1>1 DEF ReportInv, TypeOK
  <2> QED BY <1>2, <1>4, <2>1, <2>2 DEF ReportInv, TypeOK
<1>7. \A s \in StackId : /\ held[s] \subseteq held'[s]
                         /\ at = "scan" => TrueTotals(accounted'[s]) \in held'[s]
  BY <1>1
<1>8. Truthful'
  <2>1. \A s \in StackId : Fits(s)' => Fits(s)
    BY <1>7 DEF Fits
  <2>2. at' = "scan" => \A s \in StackId : TrueTotals(accounted'[s]) \in held'[s]
    BY <1>2, <1>7
  <2>3. ASSUME NEW s \in StackId, sample'[s] # None
        PROVE  /\ sample'[s].StackId = s
               /\ Fits(s)' => [size |-> sample'[s].TotalSize,
                               count |-> sample'[s].NumberOfAllocs] \in held'[s]
    BY <1>2, <1>7, <2>1, <2>3 DEF ReportInv, Truthful
  <2>4. at' \in {"pop", "print"} /\ ~iterErr' => \A s \in due' : sample'[s] # None
    BY <1>2 DEF ReportInv, Truthful
  <2> QED BY <2>2, <2>3, <2>4 DEF Truthful
<1>9. Selected'
  BY <1>2, SelectedKept DEF ReportInv
<1> QED BY <1>3, <1>6, <1>8, <1>9 DEF ReportInv

LEMMA StartScanKeeps ==
  ASSUME ReportInv, StartScan
  PROVE  ReportInv'
<1>1. /\ at' = "scan" /\ due' = Present(combined) /\ h' = {} /\ topStacks' = <<>>
      /\ iterErr' = FALSE /\ open' = open
      /\ sample' = [s \in StackId |-> None]
      /\ held' = [s \in StackId |-> {TrueTotals(accounted[s])}]
      /\ UNCHANGED <<combined, accounted, exact>>
  BY DEF StartScan, statisticsVars
<1>2. Exact'
  BY ExactKept DEF StartScan, ReportInv
<1>3. TypeOK'
  <2>1. \A s \in StackId : TrueTotals(accounted[s]) \in [size : Nat, count : Nat]
    <3> TAKE s \in StackId
    <3>1. IsFiniteSet(accounted[s]) /\ \A e \in accounted[s] : e[2] \in Nat
      BY ReporterAssumption DEF ReportInv, Exact, WordsExact
    <3> QED BY <3>1, PackedTells
  <2>2. held' \in [StackId -> SUBSET [size : Nat, count : Nat]]
    BY <1>1, <2>1
  <2>3. due' \subseteq StackId
    BY <1>1 DEF ReportInv, TypeOK, Present
  <2>4. iterErr' \in BOOLEAN
    BY <1>1, Zenon
  <2> QED BY <1>1, <2>2, <2>3, <2>4 DEF ReportInv, TypeOK
<1>4. Truthful'
  BY <1>1 DEF Truthful
<1>5. Selected'
  <2>1. Candidates' = {} /\ Listed' = {}
    BY <1>1 DEF Candidates, Listed
  <2>2. h' \cup Listed' = {}
    BY <1>1, <2>1
  <2>3. TopOf(Candidates', h' \cup Listed')
    BY <2>1, <2>2, EmptyTop, Zenon
  <2>4. Cardinality(Listed') = Len(topStacks') /\ Sorted'
    BY <1>1, <2>1, FS_EmptySet DEF Sorted
  <2> QED BY <1>1, <2>1, <2>3, <2>4 DEF Selected, TopOf, Info
<1> QED BY <1>2, <1>3, <1>4, <1>5 DEF ReportInv


\* The walk meets an entry: it is sampled, and the heap keeps it or not.
LEMMA VisitKeeps ==
  ASSUME ReportInv, NEW s \in StackId, Visit(s)
  PROVE  ReportInv'
<1> DEFINE x == Decoded(s)
<1>1. /\ at = "scan" /\ combined[s] # None /\ sample[s] = None
      /\ sample' = [sample EXCEPT ![s] = x] /\ Keep(x)
      /\ UNCHANGED <<combined, accounted, exact, open, iterErr, due, topStacks, held>>
  BY DEF Visit, statisticsVars
<1>2. Exact /\ TypeOK /\ Truthful /\ Selected
  BY DEF ReportInv
<1>3. /\ x \in Info /\ x.StackId = s
      /\ TrueTotals(accounted[s]).size < SizeMod /\ TrueTotals(accounted[s]).count < CountMod =>
           [size |-> x.TotalSize, count |-> x.NumberOfAllocs] = TrueTotals(accounted[s])
  BY <1>1, <1>2, DecodedFacts
<1> HIDE DEF x
<1>4. x # None /\ x.TotalSize \in Nat
  BY <1>3, ReporterAssumption, InfoFields
<1>5. sample \in [StackId -> Info \cup {None}] /\ h \subseteq Info
  BY <1>2 DEF TypeOK
<1>6. sample' \in [StackId -> Info \cup {None}] /\ sample'[s] = x
      /\ \A r \in StackId \ {s} : sample'[r] = sample[r]
  BY <1>1, <1>3, <1>5
<1>7. /\ TopOf(Candidates, h) /\ Listed = {} /\ topStacks = <<>>
  <2>1. TopOf(Candidates, h \cup Listed) /\ topStacks = <<>>
    BY <1>1, <1>2 DEF Selected
  <2>2. Listed = {}
    BY <2>1 DEF Listed
  <2>3. h \cup Listed = h
    BY <2>2
  <2> QED BY <2>1, <2>2, <2>3, Zenon
<1>8. x \notin Candidates
  BY <1>1, <1>2, <1>3, <1>4, CandidatesFacts
<1>9. Candidates' = IF x.TotalSize > 0 THEN Candidates \cup {x} ELSE Candidates
  <2>1. Candidates' = {sample'[r] : r \in {y \in StackId :
                         sample'[y] # None /\ sample'[y].TotalSize > 0}}
    BY DEF Candidates
  <2>2. ASSUME NEW z PROVE z \in Candidates' <=>
          z \in Candidates \/ (x.TotalSize > 0 /\ z = x)
    <3>1. ASSUME z \in Candidates' PROVE z \in Candidates \/ (x.TotalSize > 0 /\ z = x)
      <4>1. PICK r \in StackId : sample'[r] # None /\ sample'[r].TotalSize > 0 /\ z = sample'[r]
        BY <2>1, <3>1
      <4>2. CASE r = s
        BY <1>6, <4>1, <4>2
      <4>3. CASE r # s
        BY <1>6, <4>1, <4>3 DEF Candidates
      <4> QED BY <4>2, <4>3
    <3>2. ASSUME z \in Candidates PROVE z \in Candidates'
      <4>1. PICK r \in StackId : sample[r] # None /\ sample[r].TotalSize > 0 /\ z = sample[r]
        BY <3>2 DEF Candidates
      <4>2. sample'[r] = sample[r]
        BY <1>1, <1>6, <4>1
      <4> QED BY <2>1, <4>1, <4>2
    <3>3. ASSUME x.TotalSize > 0 PROVE x \in Candidates'
      BY <1>4, <1>6, <2>1, <3>3
    <3> QED BY <3>1, <3>2, <3>3
  <2> QED BY <2>2
<1>10. /\ h' \subseteq Info /\ at' \in {"scan", "panic"}
       /\ at' = "scan" => TopOf(Candidates', h')
  <2>1. CASE x.TotalSize = 0
    <3>1. h' = h /\ at' = at
      BY <1>1, <1>4, <2>1 DEF Keep
    <3>2. Candidates' = Candidates
      BY <1>9, <2>1
    <3> QED BY <1>1, <1>5, <1>7, <3>1, <3>2
  <2>2. CASE x.TotalSize > 0 /\ Cardinality(h) < nTopStacks
    <3>1. h' = h \cup {x} /\ at' = at
      <4>1. IsFiniteSet(h) /\ Cardinality(h) \in Nat /\ nTopStacks \in Int
        BY <1>7, TopFacts, ReporterAssumption
      <4> QED BY <1>1, <1>4, <2>2, <4>1 DEF Keep
    <3>2. TopOf(Candidates \cup {x}, h \cup {x})
      BY <1>3, <1>7, <1>8, <2>2, TopPush
    <3> QED BY <1>1, <1>3, <1>5, <1>9, <2>2, <3>1, <3>2
  <2>3. CASE x.TotalSize > 0 /\ ~(Cardinality(h) < nTopStacks)
    <3>1. Cardinality(h) >= nTopStacks
      <4>1. IsFiniteSet(h) /\ Cardinality(h) \in Nat /\ nTopStacks \in Int
        BY <1>7, TopFacts, ReporterAssumption
      <4> QED BY <2>3, <4>1
    <3>2. /\ h' \in IF h = {} THEN {h} ELSE Replaced(x)
          /\ at' = IF h = {} THEN "panic" ELSE at
      BY <1>1, <1>4, <2>3 DEF Keep
    <3>3. CASE h = {}
      BY <1>5, <3>2, <3>3
    <3>4. CASE h # {}
      <4>1. PICK r \in Roots : h' = IF x.TotalSize > r.TotalSize THEN (h \ {r}) \cup {x} ELSE h
        BY <3>2, <3>4 DEF Replaced
      <4>2. r \in h /\ \A y \in h : r.TotalSize <= y.TotalSize
        BY DEF Roots
      <4>3. TopOf(Candidates \cup {x}, h')
        BY <1>3, <1>7, <1>8, <3>1, <4>1, <4>2, TopReplace
      <4>4. h' \subseteq Info
        BY <1>3, <1>5, <4>1
      <4> QED BY <1>1, <1>9, <2>3, <3>2, <3>4, <4>3, <4>4
    <3> QED BY <3>3, <3>4
  <2> QED BY <1>4, <2>1, <2>2, <2>3
<1>11. Exact'
  BY <1>2, ExactKept DEF Visit
<1>12. TypeOK'
  BY <1>1, <1>2, <1>6, <1>10 DEF TypeOK
<1>13. Truthful'
  <2>1. \A r \in StackId : Fits(r)' <=> Fits(r)
    BY <1>1 DEF Fits
  <2>2. \A r \in StackId : TrueTotals(accounted[r]) \in held[r]
    BY <1>1, <1>2 DEF Truthful
  <2>3. Fits(s) => [size |-> x.TotalSize, count |-> x.NumberOfAllocs] \in held[s]
    BY <1>3, <2>2 DEF Fits
  <2>4. ASSUME NEW r \in StackId, sample'[r] # None
        PROVE  /\ sample'[r].StackId = r
               /\ Fits(r)' => [size |-> sample'[r].TotalSize,
                               count |-> sample'[r].NumberOfAllocs] \in held'[r]
    <3>1. CASE r = s
      BY <1>1, <1>3, <1>6, <2>1, <2>3, <3>1
    <3>2. CASE r # s
      BY <1>1, <1>2, <1>6, <2>1, <2>4, <3>2 DEF Truthful
    <3> QED BY <3>1, <3>2
  <2>5. \A r \in StackId : TrueTotals(accounted'[r]) \in held'[r]
    BY <1>1, <2>2
  <2>6. at' \notin {"pop", "print"}
    BY <1>10
  <2> QED BY <2>4, <2>5, <2>6 DEF Truthful
<1>14. Selected'
  <2>1. Listed' = {} /\ topStacks' = <<>>
    BY <1>1, <1>7 DEF Listed
  <2>2. h' \cup Listed' = h'
    BY <2>1
  <2>3. at' = "scan" => TopOf(Candidates', h' \cup Listed')
    BY <1>10, <2>2, Zenon
  <2>4. (TopOf(Candidates, h \cup Listed))' <=> TopOf(Candidates', h' \cup Listed')
    BY DEF TopOf
  <2>5. Cardinality(Listed') = Len(topStacks') /\ Sorted'
    BY <2>1, FS_EmptySet DEF Sorted
  <2>6. at' \in {"scan", "pop", "print"} => at' = "scan"
    BY <1>10
  <2> QED BY <2>1, <2>3, <2>4, <2>5, <2>6 DEF Selected
<1> QED BY <1>11, <1>12, <1>13, <1>14 DEF ReportInv


\* A least entry of the heap becomes the head of the list.
LEMMA PopKeeps ==
  ASSUME ReportInv, PopNext
  PROVE  ReportInv'
<1>1. PICK r \in Roots : h' = h \ {r} /\ topStacks' = <<r>> \o topStacks
  BY DEF PopNext
<1>2. /\ at = "pop"
      /\ UNCHANGED <<combined, accounted, exact, open, at, iterErr, due, sample, held>>
  BY DEF PopNext, statisticsVars
<1>3. Exact /\ TypeOK /\ Truthful /\ Selected
  BY DEF ReportInv
<1>4. r \in h /\ r \in Info /\ \A y \in h : r.TotalSize <= y.TotalSize
  BY <1>3 DEF Roots, TypeOK
<1>5. /\ TopOf(Candidates, h \cup Listed)
      /\ h \cap Listed = {} /\ Cardinality(Listed) = Len(topStacks) /\ Sorted
      /\ \A x \in h, y \in Listed : x.TotalSize >= y.TotalSize
  BY <1>2, <1>3 DEF Selected
<1>6. topStacks \in Seq(Info) /\ Len(topStacks) \in Nat /\ h \subseteq Info
  BY <1>3 DEF TypeOK
<1>7. /\ topStacks' \in Seq(Info) /\ Len(topStacks') = Len(topStacks) + 1
      /\ topStacks'[1] = r
      /\ \A i \in 2 .. Len(topStacks') : topStacks'[i] = topStacks[i - 1]
  BY <1>1, <1>4, <1>6
<1>8. Listed' = Listed \cup {r}
  <2>1. Listed' = {topStacks'[i] : i \in 1 .. Len(topStacks')}
    BY DEF Listed
  <2>2. ASSUME NEW i \in 1 .. Len(topStacks') PROVE topStacks'[i] \in Listed \cup {r}
    <3>1. CASE i = 1
      BY <1>7, <3>1
    <3>2. CASE i # 1
      <4>1. i \in 2 .. Len(topStacks') /\ i - 1 \in 1 .. Len(topStacks)
        BY <1>6, <1>7, <3>2
      <4> QED BY <1>7, <4>1 DEF Listed
    <3> QED BY <3>1, <3>2
  <2>3. r \in Listed'
    BY <1>6, <1>7, <2>1
  <2>4. ASSUME NEW i \in 1 .. Len(topStacks) PROVE topStacks[i] \in Listed'
    <3>1. i + 1 \in 2 .. Len(topStacks') /\ (i + 1) - 1 = i /\ i + 1 \in 1 .. Len(topStacks')
      BY <1>6, <1>7
    <3>2. topStacks'[i + 1] = topStacks[i]
      BY <1>7, <3>1
    <3> QED BY <2>1, <3>1, <3>2
  <2> QED BY <2>1, <2>2, <2>3, <2>4 DEF Listed
<1>9. h' \cup Listed' = h \cup Listed /\ h' \cap Listed' = {}
  BY <1>1, <1>4, <1>5, <1>8
<1>10. Candidates' = Candidates
  BY <1>2 DEF Candidates
<1>11. Cardinality(Listed') = Len(topStacks')
  <2>1. IsFiniteSet(h \cup Listed)
    BY <1>5, TopFacts
  <2>2. Listed \in SUBSET (h \cup Listed)
    OBVIOUS
  <2>3. IsFiniteSet(Listed)
    BY <2>1, <2>2, FS_Subset
  <2>4. r \notin Listed
    BY <1>4, <1>5
  <2>5. Cardinality(Listed \cup {r}) = Cardinality(Listed) + 1
    BY <2>3, <2>4, FS_AddElement
  <2> QED BY <1>5, <1>7, <1>8, <2>5
<1>12. \A x \in h \cup Listed : x.TotalSize \in Nat
  <2>1. Listed \subseteq Info
    BY <1>6 DEF Listed
  <2> QED BY <1>6, <2>1, InfoFields
<1>13. \A y \in Listed : r.TotalSize >= y.TotalSize
  BY <1>4, <1>5
<1>14. Sorted'
  <2> SUFFICES ASSUME NEW i \in 1 .. Len(topStacks'), NEW j \in 1 .. Len(topStacks'), i < j
               PROVE  topStacks'[i].TotalSize >= topStacks'[j].TotalSize
    BY DEF Sorted
  <2>1. j \in 2 .. Len(topStacks') /\ j - 1 \in 1 .. Len(topStacks)
    BY <1>6, <1>7
  <2>2. topStacks'[j] = topStacks[j - 1] /\ topStacks[j - 1] \in Listed
    BY <1>7, <2>1 DEF Listed
  <2>3. CASE i = 1
    BY <1>7, <1>13, <2>2, <2>3
  <2>4. CASE i # 1
    <3>1. i \in 2 .. Len(topStacks') /\ i - 1 \in 1 .. Len(topStacks) /\ i - 1 < j - 1
      BY <1>6, <1>7, <2>1, <2>4
    <3>2. topStacks'[i] = topStacks[i - 1]
      BY <1>7, <3>1
    <3> QED BY <1>5, <2>1, <2>2, <3>1, <3>2 DEF Sorted
  <2> QED BY <2>3, <2>4
<1>15. \A x \in h', y \in Listed' : x.TotalSize >= y.TotalSize
  BY <1>1, <1>4, <1>5, <1>8, <1>12
<1>16. Selected'
  <2>1. TopOf(Candidates', h' \cup Listed')
    BY <1>5, <1>9, <1>10, Zenon
  <2>2. (TopOf(Candidates, h \cup Listed))' <=> TopOf(Candidates', h' \cup Listed')
    BY DEF TopOf
  <2>3. at' = "pop"
    BY <1>2
  <2> QED BY <1>9, <1>11, <1>14, <1>15, <2>1, <2>2, <2>3 DEF Selected
<1>17. Exact'
  BY <1>3, ExactKept DEF PopNext
<1>18. TypeOK'
  BY <1>1, <1>2, <1>3, <1>6, <1>7 DEF TypeOK
<1>19. Truthful'
  BY <1>2, <1>3 DEF Truthful, Fits
<1> QED BY <1>16, <1>17, <1>18, <1>19 DEF ReportInv

\* The steps that only move on.
LEMMA MoveKeeps ==
  ASSUME ReportInv, EndScan \/ ScanFails \/ ScanAllocs
  PROVE  ReportInv'
<1>1. /\ UNCHANGED <<combined, accounted, exact, open, due, sample, h, topStacks, held>>
      /\ \/ /\ at = "scan" /\ at' = "pop" /\ iterErr' = iterErr
            /\ \A s \in due : sample[s] # None
         \/ at = "scan" /\ at' = "pop" /\ iterErr' = TRUE
         \/ at = "pop" /\ at' = "print" /\ h = {} /\ iterErr' = iterErr
  BY DEF EndScan, ScanFails, ScanAllocs, statisticsVars
<1>2. Exact /\ TypeOK /\ Truthful /\ Selected
  BY DEF ReportInv
<1>3. Exact'
  BY <1>2, ExactKept DEF EndScan, ScanFails, ScanAllocs
<1>4. TypeOK'
  BY <1>1, <1>2 DEF TypeOK
<1>5. Truthful'
  BY <1>1, <1>2 DEF Truthful, Fits
<1>6. Selected'
  <2>1. Candidates' = Candidates /\ Listed' = Listed /\ (Sorted' <=> Sorted)
    BY <1>1 DEF Candidates, Listed, Sorted
  <2> QED BY <1>1, <1>2, <2>1 DEF Selected
<1> QED BY <1>3, <1>4, <1>5, <1>6 DEF ReportInv

LEMMA ReportKeeps ==
  ASSUME ReportInv, Report
  PROVE  ReportInv'
<1>1. /\ at' = "sleep" /\ due' = {} /\ sample' = [s \in StackId |-> None]
      /\ topStacks' = <<>> /\ held' = [s \in StackId |-> {}]
      /\ iterErr' = FALSE
      /\ UNCHANGED <<combined, accounted, exact, open, h>>
  BY DEF Report, statisticsVars
<1>2. Exact'
  BY ExactKept DEF ReportInv, Report
<1>3. TypeOK'
  <2>1. iterErr' \in BOOLEAN
    BY <1>1, Zenon
  <2> QED BY <1>1, <2>1 DEF ReportInv, TypeOK
<1>4. Truthful' /\ Selected'
  BY <1>1 DEF Truthful, Selected
<1> QED BY <1>2, <1>3, <1>4 DEF ReportInv

LEMMA ReportStep == ReportInv /\ [Next]_reporterVars => ReportInv'
<1> SUFFICES ASSUME ReportInv, [Next]_reporterVars PROVE ReportInv'
  OBVIOUS
<1>1. CASE HandlerStep
  BY <1>1, HandlerKeeps
<1>2. CASE StartScan
  BY <1>2, StartScanKeeps
<1>3. ASSUME NEW s \in StackId, Visit(s) PROVE ReportInv'
  BY <1>3, VisitKeeps
<1>4. CASE EndScan \/ ScanFails \/ ScanAllocs
  BY <1>4, MoveKeeps
<1>5. CASE PopNext
  BY <1>5, PopKeeps
<1>6. CASE Report
  BY <1>6, ReportKeeps
<1>7. CASE CloseMap \/ UNCHANGED reporterVars
  <2>1. /\ UNCHANGED statisticsVars /\ open' \in {open, FALSE}
        /\ UNCHANGED <<at, iterErr, due, sample, h, topStacks, held>>
    BY <1>7 DEF CloseMap, reporterVars, roundVars
  <2>2. UNCHANGED <<combined, accounted, exact>>
    BY <2>1 DEF statisticsVars
  <2>3. TypeOK'
    BY <2>1, <2>2 DEF ReportInv, TypeOK
  <2>4. Truthful'
    BY <2>1, <2>2 DEF ReportInv, Truthful, Fits
  <2> QED BY <2>1, <2>3, <2>4, ExactKept, SelectedKept DEF ReportInv
<1> QED BY <1>1, <1>2, <1>3, <1>4, <1>5, <1>6, <1>7 DEF Next, GoroutineStep

LEMMA ReportAlways == Spec => []ReportInv
BY ReportInit, ReportStep, PTL DEF Spec


-----------------------------------------------------------------------------
(* The theorems.                                                           *)

\* What is printed is the top of what was read.
LEMMA PrintedTop ==
  ASSUME ReportInv, at = "print"
  PROVE  TopOf(Candidates, Listed) /\ Cardinality(Listed) = Len(topStacks) /\ Sorted
<1>1. TopOf(Candidates, h \cup Listed) /\ h = {} /\ Cardinality(Listed) = Len(topStacks) /\ Sorted
  BY DEF ReportInv, Selected
<1>2. h \cup Listed = Listed
  BY <1>1
<1> QED BY <1>1, <1>2, Zenon

\* A printed line is what was read of its stack, which is a true total of it.
LEMMA PrintedTrue ==
  ASSUME ReportInv, at = "print", NEW x \in Candidates
  PROVE  /\ x.StackId \in StackId /\ x.TotalSize \in Nat
         /\ x = sample[x.StackId]
         /\ Fits(x.StackId) =>
              [size |-> x.TotalSize, count |-> x.NumberOfAllocs] \in held[x.StackId]
<1>1. TypeOK /\ Truthful
  BY DEF ReportInv
<1>2. x \in Info /\ x.StackId \in StackId /\ x = sample[x.StackId]
  BY <1>1, CandidatesFacts
<1>3. x # None /\ x.TotalSize \in Nat
  BY <1>2, InfoFields, ReporterAssumption
<1> QED BY <1>1, <1>2, <1>3 DEF Truthful

\* The reporting goroutine never holds a value it cannot have: the fields it
\* decodes (info.go:50-65) stay within their widths in every round.
THEOREM TypeCorrect == Spec => []TypeOK
<1>1. ReportInv => TypeOK
  BY DEF ReportInv
<1> QED BY <1>1, ReportAlways, PTL

\* The min-heap of probe.go:470-499 selects the N largest of the entries the
\* walk read, for every N (also a negative one), every number of stacks, every
\* order of the walk, every choice of container/heap between equal entries, and
\* handlers that update the map meanwhile.
THEOREM ReportIsTopTheorem == Spec => []ReportIsTop
<1>1. ReportInv => ReportIsTop
  <2> SUFFICES ASSUME ReportInv, at = "print"
               PROVE  /\ Listed \subseteq Candidates
                      /\ Cardinality(Listed) = Len(topStacks)
                      /\ Len(topStacks) = AtMost(nTopStacks, Cardinality(Candidates))
                      /\ \A i, j \in 1 .. Len(topStacks) :
                           i < j => topStacks[i].TotalSize >= topStacks[j].TotalSize
                      /\ \A x \in Candidates \ Listed, y \in Listed : x.TotalSize <= y.TotalSize
    BY Zenon DEF ReportIsTop
  <2> QED BY PrintedTop DEF TopOf, Sorted
<1> QED BY <1>1, ReportAlways, PTL

\* A printed line is a snapshot of its stack: the bytes and the number of
\* allocations are the totals of one instant of the walk, whatever the handlers
\* did meanwhile, as long as no total outgrew its field.
THEOREM ReportHonestTheorem == Spec => []ReportHonest
<1>1. ReportInv => ReportHonest
  <2> SUFFICES ASSUME ReportInv, at = "print", NEW x \in Listed, Fits(x.StackId)
               PROVE  [size |-> x.TotalSize, count |-> x.NumberOfAllocs] \in held[x.StackId]
    BY DEF ReportHonest
  <2>1. x \in Candidates
    BY PrintedTop DEF TopOf
  <2> QED BY <2>1, PrintedTrue
<1> QED BY <1>1, ReportAlways, PTL

\* If a stack is left out, every printed line belongs to one it does not
\* dominate, and there are too few of those.
LEMMA Crowded ==
  ASSUME ReportInv, at = "print", ~iterErr, \A r \in StackId : Fits(r), NEW s \in due,
         \A x \in held[s] : x.size > 0,
         Cardinality({r \in StackId \ {s} : ~Dominates(s, r)}) < nTopStacks
  PROVE  \E x \in Listed : x.StackId = s
<1> DEFINE x == sample[s]
           Rivals == {r \in StackId \ {s} : ~Dominates(s, r)}
           f == [y \in Listed |-> y.StackId]
<1>1. s \in StackId /\ x # None /\ x \in Info /\ x.StackId = s /\ x.TotalSize \in Nat
      /\ [size |-> x.TotalSize, count |-> x.NumberOfAllocs] \in held[s]
  <2>1. TypeOK /\ Truthful
    BY DEF ReportInv
  <2>2. s \in StackId
    BY <2>1 DEF TypeOK
  <2>3. x # None /\ x \in Info
    BY <2>1, <2>2 DEF TypeOK, Truthful
  <2> QED BY <2>1, <2>2, <2>3, InfoFields DEF Truthful
<1>2. x.TotalSize > 0
  <2>1. [size |-> x.TotalSize, count |-> x.NumberOfAllocs].size > 0
    BY <1>1
  <2> QED BY <2>1
<1>3. x \in Candidates
  BY <1>1, <1>2 DEF Candidates
<1> HIDE DEF x
<1>4. /\ TopOf(Candidates, Listed) /\ Listed \subseteq Candidates
      /\ Cardinality(Listed) = AtMost(nTopStacks, Cardinality(Candidates))
      /\ \A z \in Candidates \ Listed, y \in Listed : z.TotalSize <= y.TotalSize
  BY PrintedTop DEF TopOf
<1> SUFFICES ASSUME x \notin Listed PROVE FALSE
  BY <1>1
<1>5. ASSUME NEW y \in Listed PROVE y.StackId \in Rivals
  <2>1. /\ y.StackId \in StackId /\ y.TotalSize \in Nat /\ y = sample[y.StackId]
        /\ [size |-> y.TotalSize, count |-> y.NumberOfAllocs] \in held[y.StackId]
    BY <1>4, PrintedTrue
  <2>2. x.TotalSize <= y.TotalSize
    BY <1>3, <1>4
  <2>3. y.StackId # s
    BY <2>1 DEF x
  <2>4. ~Dominates(s, y.StackId)
    <3> SUFFICES ASSUME Dominates(s, y.StackId) PROVE FALSE
      OBVIOUS
    <3>1. [size |-> x.TotalSize, count |-> x.NumberOfAllocs].size >
            [size |-> y.TotalSize, count |-> y.NumberOfAllocs].size
      BY <1>1, <2>1 DEF Dominates
    <3> QED BY <1>1, <2>1, <2>2, <3>1
  <2> QED BY <2>1, <2>3, <2>4
<1>6. f \in Injection(Listed, Rivals)
  <2>1. ASSUME NEW y \in Listed, NEW z \in Listed, y.StackId = z.StackId PROVE y = z
    <3>1. y = sample[y.StackId] /\ z = sample[z.StackId]
      BY <1>4, PrintedTrue
    <3> QED BY <2>1, <3>1
  <2>2. f \in [Listed -> Rivals]
    BY <1>5
  <2>3. \A y, z \in Listed : f[y] = f[z] => y = z
    BY <2>1
  <2> HIDE DEF f, Rivals
  <2> QED BY <2>2, <2>3 DEF Injection, IsInjective
<1>7. IsFiniteSet(Rivals)
  BY ReporterAssumption, FS_Subset
<1>8. Cardinality(Listed) <= Cardinality(Rivals)
  BY <1>6, <1>7, FS_Injection
<1>9. /\ Cardinality(Listed) \in Nat /\ Cardinality(Candidates) \in Nat
      /\ Cardinality(Listed) # Cardinality(Candidates)
  BY <1>3, <1>4, TopFacts
<1>10. Cardinality(Rivals) \in Nat
  BY <1>7, FS_CardinalityType
<1>11. Cardinality(Listed) = nTopStacks
  BY <1>4, <1>9, <1>10, ReporterAssumption DEF AtMost
<1> QED BY <1>8, <1>9, <1>10, <1>11, ReporterAssumption

\* A stack that keeps more bytes all through the walk than all but N - 1 others
\* is printed (probe.go:475-489): concurrent updates and the order of the walk
\* cannot crowd it out.  Only a walk that broke off with an iterator error
\* (probe.go:490-492) may leave it out.
THEOREM LargestShownTheorem == Spec => []LargestShown
<1>1. ReportInv => LargestShown
  BY Crowded DEF LargestShown
<1> QED BY <1>1, ReportAlways, PTL

=============================================================================
