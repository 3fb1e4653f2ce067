-------------------------- MODULE SymbolizerProofs --------------------------
(* Theorems about Symbolizer, for every file, symbol table, mapping and    *)
(* depth of the stack.                                                     *)
EXTENDS Symbolizer, WellFoundedInduction, TLAPS

-----------------------------------------------------------------------------
(* Least and greatest elements, which the CHOOSEs of the model name.       *)

\* A set of naturals that is not empty has a least element.
LEMMA Least ==
  ASSUME NEW S \in SUBSET Nat, S # {}
  PROVE  \E n \in S : \A o \in S : n <= o
<1> DEFINE R == {ss \in Nat \X Nat : ss[1] < ss[2]}
<1>1. IsWellFoundedOn(OpToRel(<, Nat), Nat)
  BY NatLessThanWellFounded
<1>2. OpToRel(<, Nat) = R
  BY DEF OpToRel
<1>3. IsWellFoundedOn(R, Nat)
  BY <1>1, <1>2, Zenon
<1> HIDE DEF R
<1>4. PICK n \in S : \A o \in S : ~(<<o, n>> \in R)
  BY <1>3, WFMin
<1>5. ASSUME NEW o \in S PROVE n <= o
  <2>1. <<o, n>> \in Nat \X Nat /\ <<o, n>> \notin R
    BY <1>4
  <2>2. ~(o < n)
    BY <2>1 DEF R
  <2> QED BY <2>2
<1> QED BY <1>5

\* One that is bounded as well has a greatest one: its least bound.
LEMMA Greatest ==
  ASSUME NEW S \in SUBSET Nat, S # {}, NEW b \in Nat, \A o \in S : o <= b
  PROVE  \E n \in S : \A o \in S : o <= n
<1> DEFINE Bounds == {n \in Nat : \A o \in S : o <= n}
<1>1. Bounds \in SUBSET Nat /\ b \in Bounds
  OBVIOUS
<1> HIDE DEF Bounds
<1>2. PICK n \in Bounds : \A o \in Bounds : n <= o
  BY <1>1, Least
<1>3. n \in Nat /\ \A o \in S : o <= n
  BY DEF Bounds
<1>4. n \in S
  <2> SUFFICES ASSUME n \notin S PROVE FALSE
    OBVIOUS
  <2>1. \A o \in S : o <= n - 1
    BY <1>3
  <2>2. n - 1 \in Nat
    <3>1. PICK o \in S : TRUE
      OBVIOUS
    <3> QED BY <1>3, <2>1, <3>1
  <2>3. n - 1 \in Bounds
    BY <2>1, <2>2 DEF Bounds
  <2> QED BY <1>2, <1>3, <2>3
<1> QED BY <1>3, <1>4

-----------------------------------------------------------------------------
(* The symbols of a file, and the resolver's copy of the mappings.         *)

\* A symbol map names an address by a symbol that is there.
LEMMA SymbolMapFacts ==
  ASSUME NEW f \in File, NEW is \in SUBSET DOMAIN Table[f]
  PROVE  /\ DOMAIN SymbolMap(f, is) = {Table[f][i].value : i \in is}
         /\ DOMAIN SymbolMap(f, is) \subseteq Nat
         /\ \A v \in DOMAIN SymbolMap(f, is) : \E i \in is :
              /\ Table[f][i].value = v
              /\ SymbolMap(f, is)[v] = Table[f][i].name
              /\ SymbolMap(f, is)[v] \in STRING \ {NoName}
<1>1. /\ Table[f] \in Seq(Symbol)
      /\ Len(Table[f]) \in Nat
      /\ DOMAIN Table[f] = 1 .. Len(Table[f])
      /\ \A i \in DOMAIN Table[f] : Table[f][i] \in Symbol
  BY SymbolizerAssumption
<1>2. DOMAIN SymbolMap(f, is) = {Table[f][i].value : i \in is}
  BY DEF SymbolMap
<1>3. \A i \in is : Table[f][i].value \in Nat /\ Table[f][i].name \in STRING \ {NoName}
  BY <1>1 DEF Symbol
<1>4. ASSUME NEW v \in {Table[f][i].value : i \in is}
      PROVE  \E i \in is :
               /\ Table[f][i].value = v
               /\ SymbolMap(f, is)[v] = Table[f][i].name
               /\ SymbolMap(f, is)[v] \in STRING \ {NoName}
  <2> DEFINE S == {i \in is : Table[f][i].value = v}
             Last(i) == /\ Table[f][i].value = v
                        /\ \A j \in is : Table[f][j].value = v => j <= i
  <2>1. S \in SUBSET Nat /\ S # {} /\ \A i \in S : i <= Len(Table[f])
    BY <1>1
  <2>2. \E i \in S : \A j \in S : j <= i
    <3> HIDE DEF S
    <3> QED BY <1>1, <2>1, Greatest
  <2>3. \E i \in is : Last(i)
    BY <2>2
  <2>4. PICK i : i = CHOOSE x \in is : Last(x)
    OBVIOUS
  <2>5. i \in is /\ Last(i)
    BY <2>3, <2>4
  <2>6. SymbolMap(f, is)[v] = Table[f][i].name
    BY <2>4 DEF SymbolMap, LastName
  <2> QED BY <1>3, <2>5, <2>6
<1> QED BY <1>2, <1>3, <1>4

UserSymbols == [f \in File |-> loadSymbols(f)]
KernelSymbols == [f \in File |-> LoadKernelSymbolsFromKallsyms(f)]

\* What Resolve relies on of the mappings it has.
Resolvable(loaded) ==
  /\ Len(loaded) \in Nat
  /\ DOMAIN loaded = 1 .. Len(loaded)
  /\ \A k \in DOMAIN loaded :
       /\ loaded[k].start \in Nat
       /\ loaded[k].end \in Nat
       /\ loaded[k].offset \in Nat
       /\ DOMAIN loaded[k].symbols \subseteq Nat
       /\ \A v \in DOMAIN loaded[k].symbols :
            loaded[k].symbols[v] \in STRING \ {NoName}

\* A resolver that is made from a layout is one Resolve can work with.
LEMMA LoadedFacts ==
  ASSUME NEW ms \in Layouts, NEW S \in {UserSymbols, KernelSymbols}
  PROVE  Resolvable(Loaded(ms, S))
<1>1. /\ Len(ms) \in Nat
      /\ DOMAIN ms = 1 .. Len(ms)
      /\ \A k \in DOMAIN ms : ms[k] \in Mapping
  BY SymbolizerAssumption
<1> DEFINE loaded == Loaded(ms, S)
<1>2. DOMAIN loaded = 1 .. Len(ms)
  BY <1>1 DEF Loaded
<1>3. Len(loaded) = Len(ms)
  BY <1>1, <1>2 DEF Loaded
<1>4. ASSUME NEW k \in DOMAIN ms
      PROVE  /\ loaded[k].start = ms[k].start
             /\ loaded[k].end = ms[k].end
             /\ loaded[k].offset = ms[k].offset
             /\ loaded[k].symbols = S[ms[k].path]
  BY DEF Loaded
<1>5. ASSUME NEW f \in File
      PROVE  /\ DOMAIN S[f] \subseteq Nat
             /\ \A v \in DOMAIN S[f] : S[f][v] \in STRING \ {NoName}
  <2> DEFINE is == {i \in DOMAIN Table[f] : Table[f][i].value # 0 /\ Table[f][i].size # 0}
  <2>1. S[f] = SymbolMap(f, is) \/ S[f] = SymbolMap(f, DOMAIN Table[f])
    BY DEF UserSymbols, KernelSymbols, loadSymbols, LoadKernelSymbolsFromKallsyms
  <2>2. is \in SUBSET DOMAIN Table[f]
    OBVIOUS
  <2> HIDE DEF is
  <2> DEFINE Good(symbols) == /\ DOMAIN symbols \subseteq Nat
                              /\ \A v \in DOMAIN symbols : symbols[v] \in STRING \ {NoName}
  <2>3. \A js \in SUBSET DOMAIN Table[f] : Good(SymbolMap(f, js))
    <3> TAKE js \in SUBSET DOMAIN Table[f]
    <3>1. /\ DOMAIN SymbolMap(f, js) \subseteq Nat
          /\ \A v \in DOMAIN SymbolMap(f, js) : \E i \in js :
               SymbolMap(f, js)[v] \in STRING \ {NoName}
      BY SymbolMapFacts
    <3> QED BY <3>1, Zenon
  <2>4. Good(SymbolMap(f, is)) /\ Good(SymbolMap(f, DOMAIN Table[f]))
    <3> HIDE DEF Good
    <3> QED BY <2>2, <2>3
  <2>5. Good(S[f])
    <3> HIDE DEF Good
    <3> QED BY <2>1, <2>4, Zenon
  <2> QED BY <2>5
<1>6. \A k \in DOMAIN ms : /\ ms[k].start \in Nat /\ ms[k].end \in Nat
                          /\ ms[k].offset \in Nat /\ ms[k].path \in File
  BY <1>1 DEF Mapping
<1> HIDE DEF loaded
<1>7. Resolvable(loaded)
  BY <1>1, <1>2, <1>3, <1>4, <1>5, <1>6 DEF Resolvable
<1> QED BY <1>7 DEF loaded

-----------------------------------------------------------------------------
(* The inductive invariant.                                                *)

Name == STRING \cup {Unknown}

\* Where the goroutine is, and how far it has come.
Progress ==
  /\ maps \in Layouts
  /\ at \in {"record", "frame", "search", "failed"}
  /\ stackTrace \in Seq(Int)
  /\ frames \in Seq(Name)
  /\ Len(frames) <= Len(stackTrace)
  /\ at \in {"record", "failed"} => frames = <<>>
  /\ at = "search" => Len(frames) < Len(stackTrace)
  /\ Resolvable(mappings)

\* In the middle of a search the mappings before m have nothing to offer, and
\* closestAddr is the best of the symbols that were visited.
Searching ==
  at = "search" =>
    /\ m \in DOMAIN mappings
    /\ Covers(m)
    /\ left \subseteq DOMAIN mappings[m].symbols
    /\ \A n \in DOMAIN mappings : n < m /\ Covers(n) => Below(n, pc) = {}
    /\ closestAddr \in Nat
    /\ \A v \in Below(m, pc) \ left : v <= closestAddr
    /\ \/ closestAddr = 0 /\ closestSym = NoName
       \/ /\ closestAddr \in Below(m, pc)
          /\ closestSym = mappings[m].symbols[closestAddr]

ResolveInv == Progress /\ Searching /\ ResolvesClosest

\* The reference for one frame.
Resolved(p, name) ==
  \/ Knowing(p) = {} /\ name = Unknown
  \/ \E k \in Knowing(p), v \in UNION {Below(n, p) : n \in Knowing(p)} :
       /\ \A n \in Knowing(p) : k <= n
       /\ v \in Below(k, p) /\ \A w \in Below(k, p) : w <= v
       /\ name = mappings[k].symbols[v]

LEMMA ResolvesClosestIsPointwise ==
  ResolvesClosest <=> \A i \in DOMAIN frames : Resolved(stackTrace[i], frames[i])
BY Zenon DEF ResolvesClosest, Resolved

\* The reference depends on nothing but the resolver's mappings.
LEMMA ResolvedStable ==
  ASSUME UNCHANGED mappings, NEW p, NEW name, Resolved(p, name)
  PROVE  Resolved(p, name)'
<1>1. ASSUME NEW k PROVE Below(k, p)' = Below(k, p)
  BY DEF Below
<1>2. Knowing(p)' = Knowing(p)
  BY <1>1 DEF Knowing
<1>3. CASE Knowing(p) = {} /\ name = Unknown
  BY <1>2, <1>3, Zenon DEF Resolved
<1>4. CASE ~(Knowing(p) = {} /\ name = Unknown)
  <2>1. PICK k \in Knowing(p), v \in UNION {Below(n, p) : n \in Knowing(p)} :
          /\ \A n \in Knowing(p) : k <= n
          /\ v \in Below(k, p) /\ \A w \in Below(k, p) : w <= v
          /\ name = mappings[k].symbols[v]
    BY <1>4, Zenon DEF Resolved
  <2>2. /\ k \in Knowing(p)' /\ \A n \in Knowing(p)' : k <= n
        /\ v \in Below(k, p)' /\ \A w \in Below(k, p)' : w <= v
        /\ name = mappings'[k].symbols[v]
    BY <1>1, <1>2, <2>1
  <2>3. v \in UNION {Below(n, p)' : n \in Knowing(p)'}
    BY <2>2
  <2> QED BY <2>2, <2>3, Zenon DEF Resolved
<1> QED BY <1>3, <1>4

\* A frame with its reference name may be appended.
LEMMA AppendFrame ==
  ASSUME Progress, ResolvesClosest, NEW name \in Name, Len(frames) < Len(stackTrace),
         Resolved(pc, name), frames' = Append(frames, name),
         UNCHANGED <<stackTrace, mappings>>
  PROVE  /\ frames' \in Seq(Name)
         /\ Len(frames') <= Len(stackTrace')
         /\ ResolvesClosest'
<1>1. /\ Len(frames) \in Nat /\ Len(stackTrace) \in Nat
      /\ DOMAIN frames = 1 .. Len(frames)
  BY DEF Progress
<1>2. /\ frames' \in Seq(Name) /\ Len(frames') = Len(frames) + 1
      /\ DOMAIN frames' = 1 .. (Len(frames) + 1)
      /\ frames'[Len(frames) + 1] = name
      /\ \A i \in 1 .. Len(frames) : frames'[i] = frames[i]
  BY DEF Progress
<1>3. ASSUME NEW i \in DOMAIN frames'
      PROVE  Resolved(stackTrace[i], frames'[i])
  <2>1. CASE i \in DOMAIN frames
    <3>1. Resolved(stackTrace[i], frames[i])
      BY <2>1, ResolvesClosestIsPointwise
    <3> QED BY <1>1, <1>2, <2>1, <3>1
  <2>2. CASE i = Len(frames) + 1
    BY <1>2, <2>2 DEF pc
  <2> QED BY <1>1, <1>2, <2>1, <2>2
<1>4. ResolvesClosest'
  <2>3. ASSUME NEW i \in DOMAIN frames' PROVE Resolved(stackTrace[i], frames[i])'
    BY <1>3, ResolvedStable
  <2> QED BY <2>3, Zenon DEF ResolvesClosest, Resolved
<1> QED BY <1>1, <1>2, <1>4

-----------------------------------------------------------------------------
(* Every step keeps it.                                                    *)

\* The search for the next mapping: an unknown frame, or a fresh search.
LEMMA SearchFromStep ==
  ASSUME Progress, ResolvesClosest, Len(frames) < Len(stackTrace), NEW k \in Nat,
         \A n \in DOMAIN mappings : n <= k /\ Covers(n) => Below(n, pc) = {},
         SearchFrom(k), closestAddr' = 0, closestSym' = NoName,
         UNCHANGED <<maps, recordVars, moved, mappings>>
  PROVE  ResolveInv'
<1> DEFINE later == {n \in (k + 1) .. Len(mappings) : Covers(n)}
<1>1. /\ Len(mappings) \in Nat
      /\ DOMAIN mappings = 1 .. Len(mappings)
  BY DEF Progress, Resolvable
<1>2. UNCHANGED <<maps, stackTrace, mappings>>
  BY DEF recordVars
<1>3. CASE later = {}
  <2>1. frames' = Append(frames, Unknown) /\ at' = "frame"
    BY <1>3 DEF SearchFrom
  <2>2. \A n \in DOMAIN mappings : Covers(n) => Below(n, pc) = {}
    BY <1>1, <1>3
  <2>3. Knowing(pc) = {}
    BY <2>2 DEF Knowing, Covers
  <2>4. Resolved(pc, Unknown) /\ Unknown \in Name
    BY <2>3 DEF Resolved, Name
  <2>5. /\ frames' \in Seq(Name)
        /\ Len(frames') <= Len(stackTrace')
        /\ ResolvesClosest'
    BY <1>2, <2>1, <2>4, AppendFrame
  <2>6. Progress'
    BY <1>2, <2>1, <2>5 DEF Progress
  <2>7. Searching'
    BY <2>1 DEF Searching
  <2> QED BY <2>5, <2>6, <2>7 DEF ResolveInv
<1>4. CASE later # {}
  <2>1. /\ m' = CHOOSE n \in later : \A o \in later : n <= o
        /\ left' = DOMAIN mappings[m'].symbols
        /\ at' = "search" /\ frames' = frames
    BY <1>4 DEF SearchFrom
  <2>2. later \in SUBSET Nat
    BY <1>1
  <2>3. m' \in later /\ \A o \in later : m' <= o
    <3> HIDE DEF later
    <3> QED BY <1>4, <2>1, <2>2, Least
  <2>4. /\ m' \in DOMAIN mappings /\ Covers(m')
        /\ \A n \in DOMAIN mappings : n < m' /\ Covers(n) => Below(n, pc) = {}
    BY <1>1, <2>3
  <2>5. pc' = pc
    BY <1>2, <2>1 DEF pc
  <2>6. ASSUME NEW n
        PROVE  /\ (Covers(n))' <=> Covers(n)
               /\ Below(n, pc)' = Below(n, pc)
    BY <1>2, <2>5 DEF Covers, Below
  <2>7. Covers(m)'
    BY <1>2, <2>4, <2>5 DEF Covers
  <2>8. Below(m, pc)' \subseteq left'
    BY <1>2, <2>1 DEF Below
  <2>9. Searching'
    <3>1. \A n \in DOMAIN mappings' : n < m' /\ Covers(n)' => Below(n, pc)' = {}
      BY <1>2, <2>4, <2>6
    <3> QED BY <1>2, <2>1, <2>4, <2>7, <2>8, <3>1 DEF Searching
  <2>10. Progress'
    BY <1>2, <2>1 DEF Progress
  <2>11. ResolvesClosest'
    <3>1. ASSUME NEW i \in DOMAIN frames' PROVE Resolved(stackTrace[i], frames[i])'
      <4>1. Resolved(stackTrace[i], frames[i])
        BY <2>1, ResolvesClosestIsPointwise
      <4> QED BY <1>2, <2>1, <4>1, ResolvedStable
    <3> QED BY <3>1, Zenon DEF ResolvesClosest, Resolved
  <2> QED BY <2>9, <2>10, <2>11 DEF ResolveInv
<1> QED BY <1>3, <1>4

\* Frames that were resolved stay so, and steps outside a search leave it alone.
LEMMA Unresolving ==
  ASSUME ResolveInv, UNCHANGED <<stackTrace, mappings, frames>>
  PROVE  ResolvesClosest'
<1>1. ASSUME NEW i \in DOMAIN frames' PROVE Resolved(stackTrace[i], frames[i])'
  <2>1. Resolved(stackTrace[i], frames[i])
    BY ResolvesClosestIsPointwise DEF ResolveInv
  <2> QED BY <2>1, ResolvedStable
<1> QED BY <1>1, Zenon DEF ResolvesClosest, Resolved

\* No frame has been named: nothing to show.
LEMMA NoFrame ==
  ASSUME frames' = <<>>
  PROVE  ResolvesClosest'
BY DEF ResolvesClosest

LEMMA ResolveInit == Init => ResolveInv
<1> SUFFICES ASSUME Init PROVE ResolveInv
  OBVIOUS
<1>1. Progress
  BY DEF Init, Progress, Resolvable
<1>2. Searching
  BY DEF Init, Searching
<1>3. ResolvesClosest
  BY DEF Init, ResolvesClosest
<1> QED BY <1>1, <1>2, <1>3 DEF ResolveInv


\* A symbol is visited: the best of the visited symbols is kept.
LEMMA VisitSymbolStep ==
  ASSUME ResolveInv, VisitSymbol
  PROVE  ResolveInv'
<1>1. /\ at = "search" /\ at' = at /\ m' = m /\ frames' = frames
      /\ UNCHANGED <<maps, stackTrace, mappings>>
  BY DEF VisitSymbol, recordVars
<1>2. PICK v \in left :
        /\ left' = left \ {v}
        /\ closestAddr' = IF Closer(v) THEN v ELSE closestAddr
        /\ closestSym' = IF Closer(v) THEN mappings[m].symbols[v] ELSE closestSym
  BY DEF VisitSymbol
<1>3. pc' = pc
  BY <1>1 DEF pc
<1>4. /\ (Covers(m))' <=> Covers(m)
      /\ \A n : (Covers(n)' <=> Covers(n)) /\ Below(n, pc)' = Below(n, pc)
      /\ Below(m, pc)' = Below(m, pc)
  BY <1>1, <1>3 DEF Covers, Below
<1>5. /\ m \in DOMAIN mappings /\ Covers(m) /\ left \subseteq DOMAIN mappings[m].symbols
      /\ \A n \in DOMAIN mappings : n < m /\ Covers(n) => Below(n, pc) = {}
      /\ closestAddr \in Nat
      /\ \A w \in Below(m, pc) \ left : w <= closestAddr
      /\ \/ closestAddr = 0 /\ closestSym = NoName
         \/ /\ closestAddr \in Below(m, pc)
            /\ closestSym = mappings[m].symbols[closestAddr]
  BY <1>1 DEF ResolveInv, Searching
<1>6. v \in Nat /\ v \in DOMAIN mappings[m].symbols
  BY <1>5 DEF ResolveInv, Progress, Resolvable
<1>7. \A w \in Below(m, pc) : w \in Nat
  BY <1>5 DEF ResolveInv, Progress, Resolvable, Below
<1>8. /\ closestAddr' \in Nat
      /\ \A w \in Below(m, pc) \ (left \ {v}) : w <= closestAddr'
      /\ \/ closestAddr' = 0 /\ closestSym' = NoName
         \/ /\ closestAddr' \in Below(m, pc)
            /\ closestSym' = mappings[m].symbols[closestAddr']
  <2>1. CASE Closer(v)
    <3>1. v \in Below(m, pc) /\ v > closestAddr
      BY <1>5, <1>6, <2>1 DEF Closer, Below, virtualAddr
    <3>2. closestAddr' = v /\ closestSym' = mappings[m].symbols[v]
      BY <1>2, <2>1
    <3> QED BY <1>5, <1>6, <1>7, <3>1, <3>2
  <2>2. CASE ~Closer(v)
    <3>1. v \in Below(m, pc) => v <= closestAddr
      BY <1>5, <1>6, <2>2 DEF Closer, Below, virtualAddr
    <3>2. closestAddr' = closestAddr /\ closestSym' = closestSym
      BY <1>2, <2>2
    <3> QED BY <1>5, <3>1, <3>2
  <2> QED BY <2>1, <2>2
<1>9. Searching'
  <2>1. \A n \in DOMAIN mappings' : n < m' /\ Covers(n)' => Below(n, pc)' = {}
    BY <1>1, <1>4, <1>5
  <2>2. Covers(m)' /\ Below(m, pc)' = Below(m, pc)
    BY <1>4, <1>5
  <2> QED BY <1>1, <1>2, <1>5, <1>8, <2>1, <2>2 DEF Searching
<1>10. Progress'
  BY <1>1 DEF ResolveInv, Progress
<1> QED BY <1>1, <1>9, <1>10, Unresolving DEF ResolveInv

\* All the symbols of the mapping were visited.
LEMMA EndSearchStep ==
  ASSUME ResolveInv, EndSearch
  PROVE  ResolveInv'
<1>1. /\ at = "search" /\ left = {} /\ closestAddr' = 0 /\ closestSym' = NoName
      /\ UNCHANGED <<maps, recordVars, moved, mappings>>
  BY DEF EndSearch
<1>2. /\ m \in DOMAIN mappings /\ Covers(m)
      /\ \A n \in DOMAIN mappings : n < m /\ Covers(n) => Below(n, pc) = {}
      /\ closestAddr \in Nat
      /\ \A w \in Below(m, pc) : w <= closestAddr
      /\ \/ closestAddr = 0 /\ closestSym = NoName
         \/ /\ closestAddr \in Below(m, pc)
            /\ closestSym = mappings[m].symbols[closestAddr]
  BY <1>1 DEF ResolveInv, Searching
<1>3. /\ Progress /\ ResolvesClosest /\ Len(frames) < Len(stackTrace)
      /\ Len(mappings) \in Nat /\ DOMAIN mappings = 1 .. Len(mappings)
  BY <1>1 DEF ResolveInv, Progress, Resolvable
<1>4. \A w \in Below(m, pc) : w \in Nat /\ w # 0 /\ mappings[m].symbols[w] \in STRING \ {NoName}
  BY <1>2 DEF ResolveInv, Progress, Resolvable, Below
<1>5. CASE closestSym # NoName
  <2>1. frames' = Append(frames, closestSym) /\ at' = "frame"
    BY <1>5 DEF EndSearch
  <2>2. closestAddr \in Below(m, pc) /\ closestSym = mappings[m].symbols[closestAddr]
    BY <1>2, <1>5
  <2>3. m \in Knowing(pc)
    BY <1>2, <2>2 DEF Knowing, Covers
  <2>4. \A n \in Knowing(pc) : m <= n
    BY <1>2, <1>3 DEF Knowing, Covers
  <2>5. closestAddr \in UNION {Below(n, pc) : n \in Knowing(pc)}
    BY <2>2, <2>3
  <2>6. Resolved(pc, closestSym)
    BY <1>2, <2>2, <2>3, <2>4, <2>5, Zenon DEF Resolved
  <2>7. closestSym \in Name
    BY <1>4, <2>2 DEF Name
  <2>8. UNCHANGED <<maps, stackTrace, mappings>>
    BY <1>1 DEF recordVars
  <2>9. /\ frames' \in Seq(Name)
        /\ Len(frames') <= Len(stackTrace')
        /\ ResolvesClosest'
    BY <1>3, <2>1, <2>6, <2>7, <2>8, AppendFrame
  <2>10. Progress'
    BY <1>3, <2>1, <2>8, <2>9 DEF Progress
  <2>11. Searching'
    BY <2>1 DEF Searching
  <2> QED BY <2>9, <2>10, <2>11 DEF ResolveInv
<1>6. CASE closestSym = NoName
  <2>1. SearchFrom(m)
    BY <1>6 DEF EndSearch
  <2>2. closestAddr = 0
    BY <1>2, <1>4, <1>6
  <2>3. Below(m, pc) = {}
    BY <1>2, <1>4, <2>2
  <2>4. \A n \in DOMAIN mappings : n <= m /\ Covers(n) => Below(n, pc) = {}
    BY <1>2, <1>3, <2>3
  <2>5. m \in Nat
    BY <1>2, <1>3
  <2> QED BY <1>1, <1>3, <2>1, <2>4, <2>5, SearchFromStep
<1> QED BY <1>5, <1>6

\* The next frame.
LEMMA ResolveFrameStep ==
  ASSUME ResolveInv, ResolveFrame
  PROVE  ResolveInv'
<1>1. /\ Len(frames) < Len(stackTrace) /\ SearchFrom(0)
      /\ closestAddr' = 0 /\ closestSym' = NoName
      /\ UNCHANGED <<maps, recordVars, moved, mappings>>
  BY DEF ResolveFrame
<1>2. \A n \in DOMAIN mappings : n <= 0 /\ Covers(n) => Below(n, pc) = {}
  BY DEF ResolveInv, Progress, Resolvable
<1> QED BY <1>1, <1>2, SearchFromStep DEF ResolveInv

LEMMA ResolveStep == ResolveInv /\ [Next]_vars => ResolveInv'
<1> SUFFICES ASSUME ResolveInv, [Next]_vars PROVE ResolveInv'
  OBVIOUS
<1>1. CASE Record
  <2>1. at = "record" /\ at' = "record" /\ UNCHANGED <<maps, mappings, frames>>
    BY <1>1 DEF Record
  <2>2. frames = <<>> /\ stackTrace \in Seq(Int) /\ maps \in Layouts
    BY <2>1 DEF ResolveInv, Progress
  <2>3. stackTrace' \in Seq(Int)
    <3>1. PICK k \in DOMAIN maps : \E fn \in Code[maps[k].path] :
            \E v \in fn.value .. (fn.value + fn.size) :
              stackTrace' = Append(stackTrace,
                maps[k].start + (v - Bias[maps[k].path]) - maps[k].offset)
      BY <1>1 DEF Record
    <3>2. PICK v \in Int : stackTrace' = Append(stackTrace,
            maps[k].start + (v - Bias[maps[k].path]) - maps[k].offset)
      BY <3>1
    <3>3. maps[k] \in Mapping
      BY <2>2, SymbolizerAssumption
    <3>4. /\ maps[k].start \in Int /\ maps[k].offset \in Int
          /\ Bias[maps[k].path] \in Int
      BY <3>3, SymbolizerAssumption DEF Mapping
    <3> QED BY <2>2, <3>2, <3>4
  <2>4. Progress'
    BY <2>1, <2>2, <2>3 DEF ResolveInv, Progress
  <2>5. Searching' /\ ResolvesClosest'
    BY <2>1, <2>2, NoFrame DEF Searching
  <2> QED BY <2>4, <2>5 DEF ResolveInv
<1>2. CASE Remap
  <2>1. maps' \in Layouts /\ UNCHANGED <<stackTrace, at, mappings, searchVars, frames>>
    BY <1>2 DEF Remap, recordVars, Layouts
  <2>2. Progress'
    BY <2>1 DEF ResolveInv, Progress
  <2>3. Searching'
    BY <2>1 DEF ResolveInv, Searching, searchVars, Covers, Below, pc
  <2> QED BY <2>1, <2>2, <2>3, Unresolving DEF ResolveInv
<1>3. CASE NewUserspaceSymbolResolver \/ NewKernelSymbolResolver
  <2>1. /\ at = "record" /\ at' = "frame" /\ UNCHANGED <<maps, stackTrace, frames>>
        /\ mappings' = Loaded(maps, UserSymbols) \/ mappings' = Loaded(maps, KernelSymbols)
    BY <1>3 DEF NewUserspaceSymbolResolver, NewKernelSymbolResolver, recordVars,
                UserSymbols, KernelSymbols
  <2>2. frames' = <<>>
    BY <2>1 DEF ResolveInv, Progress
  <2>3. Resolvable(mappings)'
    <3>1. maps \in Layouts
      BY DEF ResolveInv, Progress
    <3>2. Resolvable(Loaded(maps, UserSymbols)) /\ Resolvable(Loaded(maps, KernelSymbols))
      BY <3>1, LoadedFacts
    <3> QED BY <2>1, <3>2, Zenon
  <2>4. Progress'
    BY <2>1, <2>2, <2>3 DEF ResolveInv, Progress
  <2>5. Searching' /\ ResolvesClosest'
    BY <2>1, <2>2, NoFrame DEF Searching
  <2> QED BY <2>4, <2>5 DEF ResolveInv
<1>4. CASE ResolverFails
  <2>1. at = "record" /\ at' = "failed" /\ UNCHANGED <<maps, stackTrace, mappings, frames>>
    BY <1>4 DEF ResolverFails, recordVars
  <2>2. Progress'
    BY <2>1 DEF ResolveInv, Progress
  <2>3. Searching'
    BY <2>1 DEF Searching
  <2> QED BY <2>1, <2>2, <2>3, Unresolving DEF ResolveInv
<1>5. CASE ResolveFrame
  BY <1>5, ResolveFrameStep
<1>6. CASE VisitSymbol
  BY <1>6, VisitSymbolStep
<1>7. CASE EndSearch
  BY <1>7, EndSearchStep
<1>8. CASE UNCHANGED vars
  <2>1. UNCHANGED <<maps, stackTrace, at, mappings, searchVars, frames>>
    BY <1>8 DEF vars, recordVars
  <2>2. Progress'
    BY <2>1 DEF ResolveInv, Progress
  <2>3. Searching'
    BY <2>1 DEF ResolveInv, Searching, searchVars, Covers, Below, pc
  <2> QED BY <2>1, <2>2, <2>3, Unresolving DEF ResolveInv
<1> QED BY <1>1, <1>2, <1>3, <1>4, <1>5, <1>6, <1>7, <1>8 DEF Next

LEMMA ResolveAlways == Spec => []ResolveInv
BY ResolveInit, ResolveStep, PTL DEF Spec

\* Resolve finds the name of the closest symbol below the program counter in
\* the first mapping that has one, in whatever order Go walks the symbols
\* (userspace.go:130-178, kernelspace.go:99-137), for every file, every symbol
\* table, every layout of the address space and every depth of the stack.
THEOREM ResolvesClosestTheorem == Spec => []ResolvesClosest
<1>1. ResolveInv => ResolvesClosest
  BY DEF ResolveInv
<1> QED BY <1>1, ResolveAlways, PTL


-----------------------------------------------------------------------------
(* The function that was running.                                          *)

Origin == [file : File, fn : Symbol, place : Int, end : Nat]

\* Frame i was recorded in the mapping mp.
RecordedAt(i, mp) ==
  /\ origin[i].file = mp.path
  /\ mp.start <= stackTrace[i] /\ stackTrace[i] < mp.end
  /\ origin[i].fn.value <= origin[i].place
  /\ origin[i].place <= origin[i].fn.value + origin[i].fn.size
  /\ stackTrace[i] = mp.start + (origin[i].place - Bias[mp.path]) - mp.offset

\* Every frame that is Mapped was recorded in a mapping of ms.
RecordedIn(ms) ==
  \A i \in DOMAIN stackTrace : Mapped(i) => \E k \in DOMAIN ms : RecordedAt(i, ms[k])

\* Unless code moved in between, the resolver has the layout of the recording.
SameLayout ==
  /\ Len(origin) = Len(stackTrace)
  /\ origin \in Seq(Origin)
  /\ at = "record" => (moved \/ RecordedIn(maps))
  /\ at \in {"frame", "search"} =>
       (moved \/ \E ms \in Layouts, S \in {UserSymbols, KernelSymbols} :
                   mappings = Loaded(ms, S) /\ RecordedIn(ms))

OriginInv == ResolveInv /\ SameLayout

\* Steps of the goroutine after the resolver was made.
LEMMA SameLayoutKept ==
  ASSUME SameLayout, at \in {"frame", "search"}, at' \in {"frame", "search"},
         moved => moved', UNCHANGED <<stackTrace, origin, mappings>>
  PROVE  SameLayout'
<1>1. ASSUME NEW ms PROVE RecordedIn(ms)' <=> RecordedIn(ms)
  BY DEF RecordedIn, RecordedAt, Mapped
<1>2. Len(origin') = Len(stackTrace') /\ origin' \in Seq(Origin)
  BY DEF SameLayout
<1>3. moved' \/ \E ms \in Layouts, S \in {UserSymbols, KernelSymbols} :
        mappings' = Loaded(ms, S) /\ RecordedIn(ms)'
  <2>1. CASE moved
    BY <2>1, Zenon
  <2>2. CASE ~moved
    <3>1. PICK ms \in Layouts, S \in {UserSymbols, KernelSymbols} :
            mappings = Loaded(ms, S) /\ RecordedIn(ms)
      BY <2>2, Zenon DEF SameLayout
    <3> QED BY <1>1, <3>1, Zenon
  <2> QED BY <2>1, <2>2
<1>4. at' # "record"
  OBVIOUS
<1> QED BY <1>2, <1>3, <1>4, Zenon DEF SameLayout

\* The frame that is recorded lies in the mapping it came from.
LEMMA RecordStep ==
  ASSUME ResolveInv, SameLayout, Record
  PROVE  SameLayout'
<1>1. at = "record" /\ at' = "record" /\ UNCHANGED <<maps, moved>>
  BY DEF Record
<1> DEFINE P(k, v) == maps[k].start + (v - Bias[maps[k].path]) - maps[k].offset
           Taken(k, fn, v) ==
             LET running == IF v < fn.value + fn.size THEN P(k, v) ELSE P(k, v) - 1
             IN  /\ maps[k].start <= running /\ running < maps[k].end
                 /\ stackTrace' = Append(stackTrace, P(k, v))
                 /\ origin' = Append(origin, [file |-> maps[k].path, fn |-> fn, place |-> v, end |-> maps[k].end])
<1>2. PICK k \in DOMAIN maps : \E fn \in Code[maps[k].path] :
        \E v \in fn.value .. (fn.value + fn.size) : Taken(k, fn, v)
  BY DEF Record
<1>3. PICK fn \in Code[maps[k].path] :
        \E v \in fn.value .. (fn.value + fn.size) : Taken(k, fn, v)
  BY <1>2
<1>4. PICK v \in fn.value .. (fn.value + fn.size) : Taken(k, fn, v)
  BY <1>3
<1> DEFINE p == maps[k].start + (v - Bias[maps[k].path]) - maps[k].offset
           o == [file |-> maps[k].path, fn |-> fn, place |-> v, end |-> maps[k].end]
<1>5. /\ maps[k].start \in Nat /\ maps[k].offset \in Nat /\ maps[k].path \in File
      /\ maps[k].end \in Nat
      /\ Bias[maps[k].path] \in Int /\ fn \in Symbol
  <2>1. maps[k] \in Mapping
    BY SymbolizerAssumption DEF ResolveInv, Progress
  <2> QED BY <2>1, SymbolizerAssumption DEF Mapping
<1>6. p \in Int /\ v \in Int /\ fn.value <= v /\ o \in Origin
  BY <1>5 DEF Origin, Symbol
<1>7. /\ stackTrace \in Seq(Int) /\ origin \in Seq(Origin)
      /\ Len(stackTrace) \in Nat /\ Len(origin) = Len(stackTrace)
      /\ stackTrace' = Append(stackTrace, p) /\ origin' = Append(origin, o)
  BY <1>4 DEF ResolveInv, Progress, SameLayout
<1>8. o.file = maps[k].path /\ o.fn = fn /\ o.place = v /\ o.end = maps[k].end
  OBVIOUS
<1>9. maps[k].start <= p /\ v <= fn.value + fn.size
  BY <1>4, <1>5, <1>6 DEF Symbol
<1>10. p = maps[k].start + (v - Bias[maps[k].path]) - maps[k].offset
  OBVIOUS
<1> HIDE DEF p, o
<1>11. /\ Len(origin') = Len(stackTrace')
       /\ origin' \in Seq(Origin)
       /\ DOMAIN stackTrace' = DOMAIN stackTrace \cup {Len(stackTrace) + 1}
       /\ \A i \in DOMAIN stackTrace : stackTrace'[i] = stackTrace[i] /\ origin'[i] = origin[i]
       /\ stackTrace'[Len(stackTrace) + 1] = p /\ origin'[Len(stackTrace) + 1] = o
  BY <1>6, <1>7
<1>12. ASSUME RecordedIn(maps) PROVE RecordedIn(maps)'
  <2> SUFFICES ASSUME NEW i \in DOMAIN stackTrace', Mapped(i)'
               PROVE  \E n \in DOMAIN maps : RecordedAt(i, maps[n])'
    BY <1>1, Zenon DEF RecordedIn
  <2>1. CASE i \in DOMAIN stackTrace
    <3>1. stackTrace'[i] = stackTrace[i] /\ origin'[i] = origin[i]
      BY <1>11, <2>1
    <3>2. Mapped(i)
      BY <3>1 DEF Mapped
    <3>3. PICK n \in DOMAIN maps : RecordedAt(i, maps[n])
      BY <1>12, <2>1, <3>2, Zenon DEF RecordedIn
    <3>4. RecordedAt(i, maps[n])'
      BY <1>1, <3>1, <3>3 DEF RecordedAt
    <3> QED BY <3>4
  <2>2. CASE i = Len(stackTrace) + 1
    <3>1. /\ origin'[i].file = maps[k].path /\ origin'[i].fn = fn /\ origin'[i].place = v
          /\ origin'[i].end = maps[k].end /\ stackTrace'[i] = p
      BY <1>8, <1>11, <2>2
    <3>2. RecordedAt(i, maps[k])'
      BY <1>1, <1>6, <1>9, <1>10, <3>1 DEF RecordedAt, Mapped
    <3> QED BY <3>2
  <2> QED BY <1>11, <2>1, <2>2
<1>13. moved' \/ RecordedIn(maps)'
  BY <1>1, <1>12, Zenon DEF SameLayout
<1> QED BY <1>1, <1>11, <1>13, Zenon DEF SameLayout

LEMMA OriginStep == OriginInv /\ [Next]_vars => OriginInv'
<1> SUFFICES ASSUME ResolveInv, SameLayout, [Next]_vars PROVE SameLayout'
  BY ResolveStep DEF OriginInv
<1>1. CASE Record
  BY <1>1, RecordStep
<1>2. CASE Remap
  <2>1. /\ moved' = (moved \/ at = "record")
        /\ UNCHANGED <<stackTrace, origin, at, mappings>>
    BY <1>2 DEF Remap, recordVars
  <2>2. CASE at \in {"frame", "search"}
    <3>1. moved => moved'
      BY <2>1, Zenon
    <3> QED BY <2>1, <2>2, <3>1, SameLayoutKept
  <2>3. CASE at \notin {"frame", "search"}
    <3>1. at = "record" => moved'
      BY <2>1, Zenon
    <3>2. Len(origin') = Len(stackTrace') /\ origin' \in Seq(Origin)
      BY <2>1 DEF SameLayout
    <3> QED BY <2>1, <2>3, <3>1, <3>2, Zenon DEF SameLayout
  <2> QED BY <2>2, <2>3
<1>3. CASE NewUserspaceSymbolResolver \/ NewKernelSymbolResolver
  <2>1. /\ at = "record" /\ at' = "frame" /\ UNCHANGED <<maps, stackTrace, origin, moved>>
        /\ mappings' = Loaded(maps, UserSymbols) \/ mappings' = Loaded(maps, KernelSymbols)
    BY <1>3 DEF NewUserspaceSymbolResolver, NewKernelSymbolResolver, recordVars,
                UserSymbols, KernelSymbols
  <2>2. RecordedIn(maps) <=> RecordedIn(maps)'
    BY <2>1 DEF RecordedIn, RecordedAt, Mapped
  <2>3. maps \in Layouts
    BY DEF ResolveInv, Progress
  <2>4. moved' \/ \E ms \in Layouts, S \in {UserSymbols, KernelSymbols} :
          mappings' = Loaded(ms, S) /\ RecordedIn(ms)'
    <3>1. CASE moved
      BY <2>1, <3>1, Zenon
    <3>2. CASE ~moved
      <4>1. RecordedIn(maps)
        BY <2>1, <3>2, Zenon DEF SameLayout
      <4>2. PICK ms \in Layouts : ms = maps
        BY <2>3
      <4>3. RecordedIn(ms)'
        BY <2>1, <4>1, <4>2 DEF RecordedIn, RecordedAt, Mapped
      <4> QED BY <2>1, <4>2, <4>3, Zenon
    <3> QED BY <3>1, <3>2
  <2>5. Len(origin') = Len(stackTrace') /\ origin' \in Seq(Origin)
    BY <2>1 DEF SameLayout
  <2>6. at' # "record"
    BY <2>1
  <2> QED BY <2>4, <2>5, <2>6, Zenon DEF SameLayout
<1>4. CASE ResolverFails
  <2>1. at' = "failed" /\ UNCHANGED <<stackTrace, origin>>
    BY <1>4 DEF ResolverFails, recordVars
  <2> QED BY <2>1 DEF SameLayout
<1>5. CASE ResolveFrame \/ VisitSymbol \/ EndSearch
  <2>1. /\ at \in {"frame", "search"} /\ at' \in {"frame", "search"}
        /\ (moved => moved') /\ UNCHANGED <<stackTrace, origin, mappings>>
    BY <1>5 DEF ResolveFrame, VisitSymbol, EndSearch, SearchFrom, recordVars
  <2> QED BY <2>1, SameLayoutKept
<1>6. CASE UNCHANGED vars
  <2>1. UNCHANGED <<maps, stackTrace, origin, moved, at, mappings>>
    BY <1>6 DEF vars, recordVars
  <2>2. CASE at \in {"frame", "search"}
    BY <2>1, <2>2, SameLayoutKept
  <2>3. CASE at \notin {"frame", "search"}
    <3>1. RecordedIn(maps) => RecordedIn(maps)'
      BY <2>1 DEF RecordedIn, RecordedAt, Mapped
    <3>2. Len(origin') = Len(stackTrace') /\ origin' \in Seq(Origin)
      BY <2>1 DEF SameLayout
    <3> QED BY <2>1, <2>3, <3>1, <3>2, Zenon DEF SameLayout
  <2> QED BY <2>2, <2>3
<1> QED BY <1>1, <1>2, <1>3, <1>4, <1>5, <1>6 DEF Next


\* The symbols a resolver has for a function that can be found: one at its
\* beginning and none inside it, each under a name the table has for it.
LEMMA FindableSymbols ==
  ASSUME NEW f \in File, NEW fn \in Symbol, Findable(f, fn),
         NEW S \in {UserSymbols, KernelSymbols}
  PROVE  /\ fn.value \in DOMAIN S[f]
         /\ \A v \in DOMAIN S[f] : ~(fn.value < v /\ v < fn.value + fn.size)
         /\ \A v \in DOMAIN S[f] : \E j \in DOMAIN Table[f] :
              Table[f][j].value = v /\ S[f][v] = Table[f][j].name
<1> DEFINE Functions == {i \in DOMAIN Table[f] : Table[f][i].value # 0 /\ Table[f][i].size # 0}
<1>1. \E is \in SUBSET DOMAIN Table[f] : Functions \subseteq is /\ S[f] = SymbolMap(f, is)
  BY DEF UserSymbols, KernelSymbols, loadSymbols, LoadKernelSymbolsFromKallsyms
<1>2. PICK is \in SUBSET DOMAIN Table[f] : Functions \subseteq is /\ S[f] = SymbolMap(f, is)
  BY <1>1
<1>3. PICK i \in Functions : Table[f][i].value = fn.value
  BY DEF Findable
<1>4. \A j \in DOMAIN Table[f] :
        ~(fn.value < Table[f][j].value /\ Table[f][j].value < fn.value + fn.size)
  BY DEF Findable
<1> HIDE DEF Functions
<1>5. /\ DOMAIN SymbolMap(f, is) = {Table[f][j].value : j \in is}
      /\ \A v \in DOMAIN SymbolMap(f, is) : \E j \in is :
           Table[f][j].value = v /\ SymbolMap(f, is)[v] = Table[f][j].name
  <2>1. \A v \in DOMAIN SymbolMap(f, is) : \E j \in is :
          /\ Table[f][j].value = v
          /\ SymbolMap(f, is)[v] = Table[f][j].name
          /\ SymbolMap(f, is)[v] \in STRING \ {NoName}
    BY SymbolMapFacts
  <2>2. DOMAIN SymbolMap(f, is) = {Table[f][j].value : j \in is}
    BY SymbolMapFacts
  <2> QED BY <2>1, <2>2, Zenon
<1>6. /\ DOMAIN S[f] = {Table[f][j].value : j \in is}
      /\ \A v \in DOMAIN S[f] : \E j \in is :
           Table[f][j].value = v /\ S[f][v] = Table[f][j].name
  BY <1>2, <1>5
<1>7. fn.value \in DOMAIN S[f]
  BY <1>2, <1>3, <1>6
<1>8. \A v \in DOMAIN S[f] : ~(fn.value < v /\ v < fn.value + fn.size)
  BY <1>4, <1>6
<1> QED BY <1>6, <1>7, <1>8

\* The closest symbol in the layout of the recording is the function's, or
\* begins at the recorded address.
LEMMA RightFunctionHolds == OriginInv => RightFunction
<1> SUFFICES ASSUME OriginInv, ~moved, NEW i \in DOMAIN frames,
                    Bias[origin[i].file] = 0, Findable(origin[i].file, origin[i].fn),
                    Mapped(i)
             PROVE  Names(i, origin[i].fn.value) \/ (Behind(i) /\ Names(i, origin[i].place))
  BY Zenon DEF RightFunction, Nameable
<1>1. /\ at \in {"frame", "search"}
      /\ i \in DOMAIN stackTrace /\ i \in DOMAIN origin
      /\ stackTrace[i] \in Int
      /\ origin[i].file \in File /\ origin[i].fn \in Symbol /\ origin[i].place \in Int
  <2>1. /\ frames \in Seq(Name) /\ stackTrace \in Seq(Int)
        /\ Len(frames) <= Len(stackTrace) /\ Len(origin) = Len(stackTrace)
        /\ origin \in Seq(Origin)
        /\ at \in {"record", "frame", "search", "failed"}
        /\ at \in {"record", "failed"} => frames = <<>>
    BY DEF OriginInv, ResolveInv, Progress, SameLayout
  <2>2. i \in 1 .. Len(frames) /\ frames # <<>>
    BY <2>1
  <2>3. i \in DOMAIN stackTrace /\ i \in DOMAIN origin
    BY <2>1, <2>2
  <2>4. stackTrace[i] \in Int /\ origin[i] \in Origin
    BY <2>1, <2>3
  <2> QED BY <2>1, <2>2, <2>3, <2>4 DEF Origin
<1> DEFINE p == stackTrace[i]
           f == origin[i].file
           fn == origin[i].fn
           v == origin[i].place
<1>2. PICK ms \in Layouts, S \in {UserSymbols, KernelSymbols} :
        mappings = Loaded(ms, S) /\ RecordedIn(ms)
  BY <1>1, Zenon DEF OriginInv, SameLayout
<1>3. PICK k \in DOMAIN ms : RecordedAt(i, ms[k])
  BY <1>1, <1>2, Zenon DEF RecordedIn
<1>4. /\ f = ms[k].path /\ ms[k].start <= p /\ p < ms[k].end
      /\ fn.value <= v /\ v <= fn.value + fn.size
      /\ p = ms[k].start + (v - Bias[f]) - ms[k].offset
  BY <1>3 DEF RecordedAt, Mapped
<1>5. /\ DOMAIN mappings = DOMAIN ms
      /\ \A n \in DOMAIN ms :
           /\ mappings[n].start = ms[n].start /\ mappings[n].end = ms[n].end
           /\ mappings[n].offset = ms[n].offset
           /\ mappings[n].symbols = S[ms[n].path]
           /\ ms[n].start \in Nat /\ ms[n].end \in Nat /\ ms[n].offset \in Nat
  <2>1. \A n \in DOMAIN ms : ms[n] \in Mapping
    BY SymbolizerAssumption
  <2>2. \A n \in DOMAIN ms : /\ ms[n].start \in Nat /\ ms[n].end \in Nat
                             /\ ms[n].offset \in Nat
    BY <2>1 DEF Mapping
  <2>3. /\ DOMAIN mappings = DOMAIN ms
        /\ \A n \in DOMAIN ms :
             /\ mappings[n].start = ms[n].start /\ mappings[n].end = ms[n].end
             /\ mappings[n].offset = ms[n].offset
             /\ mappings[n].symbols = S[ms[n].path]
    BY <1>2 DEF Loaded
  <2> QED BY <2>2, <2>3
<1>6. fn.value \in Nat /\ fn.size \in Nat /\ v \in Int
  BY <1>1 DEF Symbol
<1>7. p - mappings[k].start + mappings[k].offset = v
  BY <1>1, <1>4, <1>5, <1>6
<1>8. /\ fn.value \in DOMAIN S[f]
      /\ \A w \in DOMAIN S[f] : ~(fn.value < w /\ w < fn.value + fn.size)
      /\ \A w \in DOMAIN S[f] : \E j \in DOMAIN Table[f] :
           Table[f][j].value = w /\ S[f][w] = Table[f][j].name
  BY <1>1, FindableSymbols
<1>9. fn.value \in Below(k, p)
  BY <1>4, <1>5, <1>6, <1>7, <1>8 DEF Below, Findable
<1>10. k \in Knowing(p)
  BY <1>4, <1>5, <1>9 DEF Knowing
<1>11. Resolved(p, frames[i])
  BY ResolvesClosestIsPointwise DEF OriginInv, ResolveInv
<1>12. PICK n \in Knowing(p) :
         \E w \in Below(n, p) : /\ \A x \in Below(n, p) : x <= w
                               /\ frames[i] = mappings[n].symbols[w]
  BY <1>10, <1>11, Zenon DEF Resolved
<1>13. PICK w \in Below(n, p) : /\ \A x \in Below(n, p) : x <= w
                                /\ frames[i] = mappings[n].symbols[w]
  BY <1>12
<1>14. n = k
  BY <1>1, <1>4, <1>5, <1>12, MappingsDisjoint DEF Knowing
<1>15. w \in DOMAIN S[f] /\ w <= v /\ fn.value <= w
  BY <1>4, <1>5, <1>7, <1>9, <1>13, <1>14 DEF Below
<1>16. w \in Nat
  BY <1>4, <1>5, <1>15 DEF OriginInv, ResolveInv, Progress, Resolvable
<1>17. w = fn.value \/ (w = v /\ v = fn.value + fn.size)
  BY <1>4, <1>6, <1>8, <1>15, <1>16
<1>18. frames[i] = S[f][w]
  BY <1>4, <1>5, <1>13, <1>14
<1>19. Names(i, w)
  BY <1>8, <1>15, <1>18 DEF Names
<1> QED BY <1>17, <1>19 DEF Behind

\* A printed frame names the function that was running when the block was
\* allocated, or, for a call that ends its function, at worst the symbol that
\* begins at the return address, if its code has not moved since, the address is
\* in the mapping of its call, its file lists the function, and the file maps
\* its code at offsets equal to virtual addresses: the rest of the search
\* (Resolve, userspace.go:130-178) and of the loading (loadSymbols) adds no
\* other condition, whatever the files and the layouts are.
THEOREM RightFunctionTheorem == Spec => []RightFunction
<1>1. Init => OriginInv
  <2>1. Init => SameLayout
    BY DEF Init, SameLayout, RecordedIn
  <2> QED BY <2>1, ResolveInit DEF OriginInv
<1> QED BY <1>1, OriginStep, RightFunctionHolds, PTL DEF Spec

=============================================================================
