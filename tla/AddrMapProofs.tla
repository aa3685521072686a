---------------------------- MODULE AddrMapProofs ---------------------------
(***************************************************************************)
(* Theorems about AddrMap, for every set of files and every bound.  The    *)
(* ranges read from maps are proper and start at different addresses, so   *)
(* they can be sorted; a search by halving that meets sorted ends finds    *)
(* the one place where they pass the address; and the symbols of a file    *)
(* are looked up relative to the right start.                              *)
(***************************************************************************)
EXTENDS AddrMap, FiniteSetTheorems, FunctionTheorems, SequenceTheorems,
        WellFoundedInduction, TLAPS

\* A set of natural numbers has a least one: what stands for induction here.
LEMMA LeastNat ==
  ASSUME NEW S \in SUBSET Nat, S # {}
  PROVE  \E x \in S : \A y \in S : x <= y
<1> DEFINE R == OpToRel(<, Nat)
<1>1. IsWellFoundedOn(R, Nat)
  BY NatLessThanWellFounded
<1>2. \A x, y \in Nat : <<y, x>> \in R <=> y < x
  BY DEF OpToRel
<1> HIDE DEF R
<1>3. PICK x \in S : \A y \in S : <<y, x>> \notin R
  BY <1>1, WFMin
<1>4. ASSUME NEW y \in S PROVE x <= y
  <2>1. x \in Nat /\ y \in Nat
    OBVIOUS
  <2>2. ~(y < x)
    BY <1>2, <1>3, <2>1
  <2> QED
    BY <2>1, <2>2
<1> QED
  BY <1>4

-----------------------------------------------------------------------------
(* Reading maps.                                                           *)

\* The ranges are proper, end before the next line, and no two start together.
RangesProper ==
  /\ \A f \in DOMAIN ranges :
       /\ ranges[f].start \in Base..MaxAddr
       /\ ranges[f].end \in Base..next
       /\ ranges[f].start < ranges[f].end
  /\ \A f, g \in DOMAIN ranges : f # g => ranges[f].start # ranges[g].start

\* An address is owned only by a file whose range it is in.
OwnedInRange ==
  \A a \in Addr : owner[a] # Unknown =>
    owner[a] \in DOMAIN ranges /\ InRange(owner[a], a)

MapInv == TypeOK /\ RangesProper /\ OwnedInRange

\* Before the first line there are no ranges and no owners.
LEMMA MapInit == Init => MapInv
<1> SUFFICES ASSUME Init PROVE MapInv
  OBVIOUS
<1>1. DOMAIN ranges = {} /\ symbols \in [{} -> Tables]
  BY DEF Init
<1>2. Base \in Base..(MaxAddr + 1)
  BY AddrAssumption DEF Init
<1> QED
  BY <1>1, <1>2 DEF Init, MapInv, TypeOK, RangesProper, OwnedInRange, Addr

\* A line of maps makes a proper range, or grows one at its end: the kernel
\* lists the mappings in order.
LEMMA MapFileKeeps == MapInv /\ MapFile => MapInv'
<1> SUFFICES ASSUME MapInv, MapFile PROVE MapInv'
  OBVIOUS
<1>1. PICK f \in File, start \in next..MaxAddr :
        \E end \in (start + 1)..(MaxAddr + 1) :
          /\ ranges' = [g \in DOMAIN ranges \cup {f} |->
                          IF g # f THEN ranges[g]
                          ELSE IF f \in DOMAIN ranges THEN Extended(ranges[f], start, end)
                          ELSE Range0(start, end)]
          /\ owner' = [a \in Addr |-> IF a \in start..(end - 1) THEN f ELSE owner[a]]
          /\ next' = end
  BY DEF MapFile
<1>2. PICK end \in (start + 1)..(MaxAddr + 1) :
        /\ ranges' = [g \in DOMAIN ranges \cup {f} |->
                        IF g # f THEN ranges[g]
                        ELSE IF f \in DOMAIN ranges THEN Extended(ranges[f], start, end)
                        ELSE Range0(start, end)]
        /\ owner' = [a \in Addr |-> IF a \in start..(end - 1) THEN f ELSE owner[a]]
        /\ next' = end
  BY <1>1
<1>n. /\ Base \in Nat /\ MaxAddr \in Nat /\ next \in Base..(MaxAddr + 1)
      /\ start \in Int /\ end \in Int
      /\ Base <= next /\ next <= start /\ start < end /\ end <= MaxAddr + 1
  BY AddrAssumption DEF MapInv, TypeOK
<1>p. /\ \A g \in DOMAIN ranges : ranges[g].start \in Int /\ ranges[g].end \in Int
      /\ \A g \in DOMAIN ranges : Base <= ranges[g].start /\ ranges[g].start < ranges[g].end
                                  /\ ranges[g].end <= next
  BY <1>n DEF MapInv, RangesProper
<1>d. DOMAIN ranges' = DOMAIN ranges \cup {f}
  BY <1>2
<1>g. \A g \in DOMAIN ranges : g # f => ranges'[g] = ranges[g]
  BY <1>2
<1>f. /\ f \in DOMAIN ranges => ranges'[f].start = ranges[f].start
      /\ f \notin DOMAIN ranges => ranges'[f].start = start
      /\ ranges'[f].end = end
  <2>1. CASE f \in DOMAIN ranges
    <3>1. ranges'[f] = Extended(ranges[f], start, end)
      BY <1>2, <2>1
    <3>2. ~(start < ranges[f].start) /\ end > ranges[f].end
      BY <1>n, <1>p, <2>1
    <3> QED
      BY <2>1, <3>1, <3>2 DEF Extended, Range0
  <2>2. CASE f \notin DOMAIN ranges
    BY <1>2, <2>2 DEF Range0
  <2> QED
    BY <2>1, <2>2
<1>3. RangesProper'
  <2>1. \A g \in DOMAIN ranges' :
          /\ ranges'[g].start \in Int /\ ranges'[g].end \in Int
          /\ Base <= ranges'[g].start /\ ranges'[g].start < ranges'[g].end
          /\ ranges'[g].end <= end
    BY <1>n, <1>p, <1>d, <1>g, <1>f
  <2>2. \A g \in DOMAIN ranges' :
          /\ ranges'[g].start \in Base..MaxAddr
          /\ ranges'[g].end \in Base..next'
          /\ ranges'[g].start < ranges'[g].end
    <3> TAKE g \in DOMAIN ranges'
    <3>1. /\ ranges'[g].start \in Int /\ ranges'[g].end \in Int
          /\ Base <= ranges'[g].start /\ ranges'[g].start < ranges'[g].end
          /\ ranges'[g].end <= end
      BY <2>1
    <3>2. ranges'[g].start \in Base..MaxAddr
      BY <1>n, <3>1
    <3>3. ranges'[g].end \in Base..end
      BY <1>n, <3>1
    <3> QED
      BY <1>2, <3>1, <3>2, <3>3
  <2>3. \A g, h \in DOMAIN ranges' : g # h => ranges'[g].start # ranges'[h].start
    <3>1. \A g \in DOMAIN ranges : ranges[g].start < start
      BY <1>n, <1>p
    <3>2. \A g, h \in DOMAIN ranges : g # h => ranges[g].start # ranges[h].start
      BY DEF MapInv, RangesProper
    <3> QED
      BY <1>n, <1>p, <1>d, <1>g, <1>f, <3>1, <3>2
  <2> QED
    BY <2>2, <2>3 DEF RangesProper
<1>4. OwnedInRange'
  <2> SUFFICES ASSUME NEW a \in Addr, owner'[a] # Unknown
               PROVE  /\ owner'[a] \in DOMAIN ranges'
                      /\ ranges'[owner'[a]].start <= a /\ a < ranges'[owner'[a]].end
    BY DEF OwnedInRange, InRange, Addr
  <2>a. a \in Int
    BY <1>n DEF Addr
  <2>1. CASE a \in start..(end - 1)
    <3>1. owner'[a] = f
      BY <1>2, <2>1
    <3>2. ranges'[f].start <= a /\ a < ranges'[f].end
      BY <1>n, <1>p, <1>f, <2>1, <2>a
    <3> QED
      BY <1>d, <3>1, <3>2
  <2>2. CASE a \notin start..(end - 1)
    <3>1. owner'[a] = owner[a]
      BY <1>2, <2>2
    <3>2. /\ owner[a] \in DOMAIN ranges
          /\ ranges[owner[a]].start <= a /\ a < ranges[owner[a]].end
      BY <3>1 DEF MapInv, OwnedInRange, InRange
    <3>3. ranges'[owner[a]].start <= a /\ a < ranges'[owner[a]].end
      BY <1>n, <1>p, <1>g, <1>f, <2>a, <3>2
    <3> QED
      BY <1>d, <3>1, <3>2, <3>3
  <2> QED
    BY <2>1, <2>2
<1>5. TypeOK'
  <2>1. owner' \in [Addr -> File \cup {Unknown}]
    BY <1>2 DEF MapInv, TypeOK
  <2>2. next' \in Base..(MaxAddr + 1)
    BY <1>2, <1>n
  <2>3. \A g \in DOMAIN ranges' : ranges'[g].start \in Addr /\ ranges'[g].end - 1 \in Addr
    <3> TAKE g \in DOMAIN ranges'
    <3>1. /\ ranges'[g].start \in Base..MaxAddr /\ ranges'[g].end \in Base..end
          /\ ranges'[g].start < ranges'[g].end
      BY <1>2, <1>3 DEF RangesProper
    <3> QED
      BY <1>n, <3>1 DEF Addr
  <2>4. pc = "maps" /\ UNCHANGED <<pc, symbols, absolute>>
    BY DEF MapFile
  <2> QED
    BY <1>d, <2>1, <2>2, <2>3, <2>4 DEF MapInv, TypeOK
<1> QED
  BY <1>3, <1>4, <1>5 DEF MapInv

\* No other step changes a range or an owner.
LEMMA MapStep == MapInv /\ [Next]_vars => MapInv'
<1> SUFFICES ASSUME MapInv, [Next]_vars PROVE MapInv'
  OBVIOUS
<1>1. CASE MapFile
  BY <1>1, MapFileKeeps
<1>2. CASE MapsDone \/ CreateInfos \/ UNCHANGED vars
  <2>1. UNCHANGED <<next, owner, ranges>>
    BY <1>2 DEF MapsDone, CreateInfos, vars
  <2>2. RangesProper' /\ OwnedInRange'
    BY <2>1 DEF MapInv, RangesProper, OwnedInRange, InRange
  <2>3. TypeOK'
    BY <1>2 DEF MapsDone, CreateInfos, vars, MapInv, TypeOK
  <2> QED
    BY <2>2, <2>3 DEF MapInv
<1> QED
  BY <1>1, <1>2 DEF Next

\* The invariant holds whatever is mapped.
LEMMA MapInvariant == Spec => []MapInv
BY MapInit, MapStep, PTL DEF Spec

\* Every variable of AddrMap keeps its type.
THEOREM MapTypeCorrect == Spec => []TypeOK
<1>1. MapInv => TypeOK
  BY DEF MapInv
<1> QED
  BY <1>1, MapInvariant, PTL

\* The range of a file spans all its mappings, however many lines it has.
THEOREM Covered == Spec => []RangesCover
<1>1. MapInv => RangesCover
  BY DEF MapInv, OwnedInRange, RangesCover
<1> QED
  BY <1>1, MapInvariant, PTL

-----------------------------------------------------------------------------
(* Sorting the ranges.                                                     *)

Sorted(s) == \A i, j \in DOMAIN s : i < j => ranges[s[i]].start < ranges[s[j]].start

\* How many ranges start no later than the one of f.
Rank(f) == Cardinality({g \in DOMAIN ranges : ranges[g].start <= ranges[f].start})

\* The rank of a file is its place in the sorted sequence.
LEMMA RankIsPlace ==
  ASSUME MapInv
  PROVE  /\ IsFiniteSet(DOMAIN ranges)
         /\ Cardinality(DOMAIN ranges) \in Nat
         /\ \A f \in DOMAIN ranges : Rank(f) \in 1..Cardinality(DOMAIN ranges)
         /\ \A f, g \in DOMAIN ranges :
              ranges[f].start < ranges[g].start => Rank(f) < Rank(g)
<1> DEFINE D    == DOMAIN ranges
           L(f) == {g \in D : ranges[g].start <= ranges[f].start}
<1>1. IsFiniteSet(D)
  BY AddrAssumption, FS_Subset DEF MapInv, TypeOK
<1>2. Cardinality(D) \in Nat
  BY <1>1, FS_CardinalityType
<1>s. \A f \in D : ranges[f].start \in Int
  BY AddrAssumption DEF MapInv, RangesProper
<1>3. \A f \in D : L(f) \in SUBSET D /\ f \in L(f)
  BY <1>s
<1>4. \A f \in D : /\ IsFiniteSet(L(f)) /\ Cardinality(L(f)) \in Nat
                   /\ Cardinality(L(f)) <= Cardinality(D)
                   /\ Cardinality(L(f)) # 0
  BY <1>1, <1>3, FS_Subset, FS_CardinalityType, FS_EmptySet
<1>5. ASSUME NEW f \in D, NEW g \in D, ranges[f].start < ranges[g].start
      PROVE  Cardinality(L(f)) < Cardinality(L(g))
  <2>1. L(f) \in SUBSET L(g)
    BY <1>5, <1>s
  <2>2. g \in L(g) /\ g \notin L(f)
    BY <1>5, <1>s
  <2>3. Cardinality(L(f)) <= Cardinality(L(g)) /\ Cardinality(L(f)) # Cardinality(L(g))
    BY <1>4, <2>1, <2>2, FS_Subset
  <2> QED
    BY <1>4, <2>3
<1>6. \A f \in D : Rank(f) = Cardinality(L(f))
  BY DEF Rank
<1> HIDE DEF L
<1>7. \A f \in D : Rank(f) \in 1..Cardinality(D)
  BY <1>2, <1>4, <1>6
<1> QED
  BY <1>1, <1>2, <1>5, <1>6, <1>7

\* Loads has every file once, in the order of the starts.
LEMMA LoadsSorted ==
  ASSUME MapInv
  PROVE  /\ Cardinality(DOMAIN ranges) \in Nat
         /\ Loads \in [1..Cardinality(DOMAIN ranges) -> DOMAIN ranges]
         /\ Len(Loads) = Cardinality(DOMAIN ranges)
         /\ Sorted(Loads)
         /\ \A f \in DOMAIN ranges : \E i \in 1..Len(Loads) : Loads[i] = f
<1> DEFINE D == DOMAIN ranges
           n == Cardinality(D)
<1>1. IsFiniteSet(D) /\ n \in Nat
  BY RankIsPlace
<1>s. \A f \in D : ranges[f].start \in Int
  BY AddrAssumption DEF MapInv, RangesProper
<1>r. \A f \in D : Rank(f) \in 1..n
  BY RankIsPlace
<1>m. \A f, g \in D : ranges[f].start < ranges[g].start => Rank(f) < Rank(g)
  BY RankIsPlace
<1>c. IsFiniteSet(1..n) /\ Cardinality(1..n) = n
  BY <1>1, FS_Interval
<1>2. \A f, g \in D : Rank(f) = Rank(g) => f = g
  <2> SUFFICES ASSUME NEW f \in D, NEW g \in D, f # g PROVE Rank(f) # Rank(g)
    OBVIOUS
  <2>1. ranges[f].start < ranges[g].start \/ ranges[g].start < ranges[f].start
    BY <1>s DEF MapInv, RangesProper
  <2>2. Rank(f) \in Int /\ Rank(g) \in Int
    BY <1>r
  <2> QED
    BY <1>m, <2>1, <2>2
<1>3. \A i \in 1..n : \E f \in D : Rank(f) = i
  <2> DEFINE rank == [f \in D |-> Rank(f)]
  <2>1. rank \in [D -> 1..n]
    BY <1>r
  <2>2. rank \in Injection(D, 1..n)
    BY <1>2, <2>1, Fun_IsInj
  <2>3. rank \in Surjection(D, 1..n)
    BY <1>c, <2>2, FS_Injection
  <2> QED
    BY <2>3 DEF Surjection
<1>4. \E s \in [1..n -> D] : Sorted(s)
  <2> DEFINE s == [i \in 1..n |-> CHOOSE f \in D : Rank(f) = i]
  <2>1. \A i \in 1..n : s[i] \in D /\ Rank(s[i]) = i
    BY <1>3
  <2>2. s \in [1..n -> D]
    BY <2>1
  <2>3. DOMAIN s = 1..n
    OBVIOUS
  <2> HIDE DEF s
  <2>4. ASSUME NEW i \in 1..n, NEW j \in 1..n, i < j
        PROVE  ranges[s[i]].start < ranges[s[j]].start
    <3>1. s[i] # s[j] /\ ~(ranges[s[j]].start < ranges[s[i]].start)
      BY <1>m, <2>1, <2>4
    <3> QED
      BY <1>s, <2>1, <3>1 DEF MapInv, RangesProper
  <2> QED
    BY <2>2, <2>3, <2>4 DEF Sorted
<1>5. Loads \in [1..n -> D] /\ Sorted(Loads)
  BY <1>4 DEF Loads, Sorted
<1>6. Loads \in Seq(D) /\ Len(Loads) = n
  <2>1. Loads \in Seq(D)
    BY <1>1, <1>5, SeqDef
  <2> QED
    BY <1>1, <1>5, <2>1, LenProperties
<1>7. Loads \in Injection(1..n, D)
  <2>1. \A i, j \in 1..n : Loads[i] = Loads[j] => i = j
    <3> SUFFICES ASSUME NEW i \in 1..n, NEW j \in 1..n, i < j PROVE Loads[i] # Loads[j]
      OBVIOUS
    <3>1. ranges[Loads[i]].start < ranges[Loads[j]].start
      BY <1>5 DEF Sorted
    <3> QED
      BY <1>5, <1>s, <3>1
  <2> QED
    BY <1>5, <2>1, Fun_IsInj
<1>8. Loads \in Surjection(1..n, D)
  BY <1>1, <1>c, <1>7, FS_Injection
<1> QED
  BY <1>1, <1>5, <1>6, <1>8 DEF Surjection

-----------------------------------------------------------------------------
(* Searching by halving.                                                   *)

\* The half of a stretch and what is left beyond it are shorter.
LEMMA Halves ==
  ASSUME NEW len \in Nat, len # 0
  PROVE  /\ len \div 2 \in 0..(len - 1)
         /\ len - (len \div 2) - 1 \in 0..(len - 1)
OBVIOUS

\* A halving looks at the results for shorter stretches only.
LEMMA HalveIsLocal ==
  ASSUME MapInv, NEW addr, NEW s, NEW u, NEW len \in 0..Len(Loads),
         \A k \in 0..(len - 1) : s[k] = u[k]
  PROVE  Halve(s, addr, len) = Halve(u, addr, len)
<1>1. len \in Nat /\ Len(Loads) \in Nat
  BY LoadsSorted
<1>2. len # 0 => /\ s[len \div 2] = u[len \div 2]
                 /\ s[len - (len \div 2) - 1] = u[len - (len \div 2) - 1]
  BY <1>1, Halves
<1> QED
  BY <1>2 DEF Halve

IsSearch(s, addr, n) == s = [len \in 0..n |-> Halve(s, addr, len)]

\* The search is defined for every stretch.
LEMMA SearchExists ==
  ASSUME MapInv, NEW addr
  PROVE  \E s : IsSearch(s, addr, Len(Loads))
<1> DEFINE N   == Len(Loads)
           Bad == {n \in 0..N : ~ \E s : IsSearch(s, addr, n)}
<1>1. N \in Nat
  BY LoadsSorted
<1> SUFFICES Bad = {}
  BY <1>1
<1> SUFFICES ASSUME Bad # {} PROVE FALSE
  OBVIOUS
<1>2. Bad \in SUBSET Nat
  BY <1>1
<1>3. PICK n \in Bad : \A m \in Bad : n <= m
  BY <1>2, LeastNat
<1>n. n \in 0..N /\ n \in Nat
  BY <1>1
<1>4. n # 0
  <2> DEFINE s == [len \in 0..0 |-> Halve(<<>>, addr, 0)]
  <2>1. Halve(s, addr, 0) = Halve(<<>>, addr, 0)
    BY <1>1, HalveIsLocal
  <2>2. \A len \in 0..0 : len = 0
    OBVIOUS
  <2>3. IsSearch(s, addr, 0)
    BY <2>1, <2>2 DEF IsSearch
  <2> QED
    BY <2>3
<1>5. n - 1 \in 0..N /\ n - 1 \notin Bad
  BY <1>1, <1>3, <1>4, <1>n
<1>6. PICK s : IsSearch(s, addr, n - 1)
  BY <1>5
<1> DEFINE u == [len \in 0..n |-> IF len = n THEN Halve(s, addr, n) ELSE s[len]]
<1>7. \A k \in 0..(n - 1) : u[k] = s[k]
  BY <1>n
<1>8. \A len \in 0..n : u[len] = Halve(u, addr, len)
  <2> TAKE len \in 0..n
  <2>1. len \in 0..N /\ \A k \in 0..(len - 1) : s[k] = u[k]
    BY <1>1, <1>7, <1>n
  <2>2. Halve(s, addr, len) = Halve(u, addr, len)
    BY <2>1, HalveIsLocal
  <2>3. u[len] = Halve(s, addr, len)
    <3>1. CASE len = n
      BY <3>1
    <3>2. CASE len # n
      <4>1. len \in 0..(n - 1)
        BY <1>n, <3>2
      <4> QED
        BY <1>6, <1>7, <4>1 DEF IsSearch
    <3> QED
      BY <3>1, <3>2
  <2> QED
    BY <2>2, <2>3
<1>9. u = [len \in 0..n |-> Halve(u, addr, len)]
  <2>1. u = [len \in 0..n |-> u[len]]
    OBVIOUS
  <2> HIDE DEF u
  <2> QED
    BY <1>8, <2>1
<1> QED
  BY <1>9 DEF IsSearch

\* LowerBound is the result for the whole sequence.
LEMMA LowerBoundSearches ==
  ASSUME MapInv, NEW addr
  PROVE  \E s : IsSearch(s, addr, Len(Loads)) /\ LowerBound(addr) = s[Len(Loads)][1]
<1> DEFINE s == CHOOSE s : IsSearch(s, addr, Len(Loads))
<1>1. IsSearch(s, addr, Len(Loads))
  BY SearchExists
<1>2. LowerBound(addr) = s[Len(Loads)][1]
  BY DEF LowerBound, IsSearch
<1> QED
  BY <1>1, <1>2

Stretch(len) == 1..(Len(Loads) + 1 - len)    \* where len entries can begin

\* One step of a search, with its two halves.
LEMMA SearchStep ==
  ASSUME MapInv, NEW addr, NEW s, IsSearch(s, addr, Len(Loads)),
         NEW len \in 0..Len(Loads), NEW first \in Stretch(len)
  PROVE  LET half == len \div 2 IN
         /\ len = 0 => s[len][first] = first
         /\ len # 0 =>
              /\ half \in 0..(len - 1) /\ len - half - 1 \in 0..(len - 1)
              /\ first \in Stretch(half)
              /\ first + half + 1 \in Stretch(len - half - 1)
              /\ first + half \in 1..Len(Loads)
              /\ s[len][first] = IF ranges[Loads[first + half]].end <= addr
                                 THEN s[len - half - 1][first + half + 1]
                                 ELSE s[half][first]
<1> DEFINE half == len \div 2
<1>1. len \in Nat /\ Len(Loads) \in Nat
  BY LoadsSorted
<1>2. s[len] = Halve(s, addr, len)
  BY DEF IsSearch
<1>3. s[len][first] = IF len = 0 THEN first
                      ELSE IF ranges[Loads[first + half]].end <= addr
                           THEN s[len - half - 1][first + half + 1]
                           ELSE s[half][first]
  BY <1>2 DEF Halve, Stretch
<1>4. len # 0 => half \in 0..(len - 1) /\ len - half - 1 \in 0..(len - 1)
  BY <1>1, Halves
<1> HIDE DEF half
<1>5. len # 0 => /\ first \in Stretch(half)
                 /\ first + half + 1 \in Stretch(len - half - 1)
                 /\ first + half \in 1..Len(Loads)
  BY <1>1, <1>4 DEF Stretch
<1> QED
  BY <1>3, <1>4, <1>5 DEF half

\* A search ends in its stretch or right after it.
LEMMA SearchInStretch ==
  ASSUME MapInv, NEW addr, NEW s, IsSearch(s, addr, Len(Loads))
  PROVE  \A len \in 0..Len(Loads) : \A first \in Stretch(len) :
           s[len][first] \in first..(first + len)
<1> DEFINE N   == Len(Loads)
           Bad == {len \in 0..N : \E first \in Stretch(len) :
                                    s[len][first] \notin first..(first + len)}
<1>1. N \in Nat
  BY LoadsSorted
<1> SUFFICES ASSUME Bad # {} PROVE FALSE
  OBVIOUS
<1>2. Bad \in SUBSET Nat
  BY <1>1
<1>3. PICK len \in Bad : \A m \in Bad : len <= m
  BY <1>2, LeastNat
<1>4. PICK first \in Stretch(len) : s[len][first] \notin first..(first + len)
  OBVIOUS
<1>n. len \in 0..N /\ len \in Nat /\ first \in Nat
  BY <1>1 DEF Stretch
<1> DEFINE half == len \div 2
<1>5. len # 0
  BY <1>4, <1>n, SearchStep
<1>6. /\ half \in 0..(len - 1) /\ len - half - 1 \in 0..(len - 1)
      /\ first \in Stretch(half)
      /\ first + half + 1 \in Stretch(len - half - 1)
      /\ first + half \in 1..Len(Loads)
      /\ s[len][first] = IF ranges[Loads[first + half]].end <= addr
                         THEN s[len - half - 1][first + half + 1]
                         ELSE s[half][first]
  BY <1>5, <1>n, SearchStep
<1> HIDE DEF half
<1>7. \A m \in 0..(len - 1) : m \in 0..N /\ m \notin Bad
  BY <1>1, <1>3, <1>n
<1>h. half \in Nat /\ half < len
  BY <1>6, <1>n
<1>8. s[half][first] \in first..(first + half)
  BY <1>6, <1>7
<1>9. s[len - half - 1][first + half + 1]
        \in (first + half + 1)..(first + half + 1 + (len - half - 1))
  BY <1>6, <1>7
<1>10. s[half][first] \in first..(first + len)
  BY <1>8, <1>n, <1>h
<1>11. s[len - half - 1][first + half + 1] \in first..(first + len)
  BY <1>9, <1>n, <1>h
<1> HIDE DEF N, Bad
<1>12. s[len][first] \in first..(first + len)
  BY <1>6, <1>10, <1>11
<1> QED
  BY <1>4, <1>12

\* If the ends pass the address at one place only, a search of a stretch that
\* has this place finds it.
LEMMA SearchFinds ==
  ASSUME MapInv, NEW addr, NEW s, IsSearch(s, addr, Len(Loads)),
         NEW k \in 1..(Len(Loads) + 1),
         \A j \in 1..Len(Loads) : ranges[Loads[j]].end <= addr <=> j < k
  PROVE  \A len \in 0..Len(Loads) : \A first \in Stretch(len) :
           first <= k /\ k <= first + len => s[len][first] = k
<1> DEFINE N   == Len(Loads)
           Bad == {len \in 0..N : \E first \in Stretch(len) :
                                    first <= k /\ k <= first + len /\ s[len][first] # k}
<1>1. N \in Nat
  BY LoadsSorted
<1> SUFFICES ASSUME Bad # {} PROVE FALSE
  OBVIOUS
<1>2. Bad \in SUBSET Nat
  BY <1>1
<1>3. PICK len \in Bad : \A m \in Bad : len <= m
  BY <1>2, LeastNat
<1>4. PICK first \in Stretch(len) : first <= k /\ k <= first + len /\ s[len][first] # k
  OBVIOUS
<1>n. len \in 0..N /\ len \in Nat /\ first \in Nat /\ k \in Nat
  BY <1>1 DEF Stretch
<1> DEFINE half == len \div 2
<1>5. len # 0
  BY <1>4, <1>n, SearchStep
<1>6. /\ half \in 0..(len - 1) /\ len - half - 1 \in 0..(len - 1)
      /\ first \in Stretch(half)
      /\ first + half + 1 \in Stretch(len - half - 1)
      /\ first + half \in 1..Len(Loads)
      /\ s[len][first] = IF ranges[Loads[first + half]].end <= addr
                         THEN s[len - half - 1][first + half + 1]
                         ELSE s[half][first]
  BY <1>5, <1>n, SearchStep
<1> HIDE DEF half
<1>7. ASSUME NEW m \in 0..(len - 1) PROVE m \in 0..N /\ m \notin Bad
  <2>1. m \in 0..N /\ m < len
    BY <1>1, <1>n
  <2>2. ~(len <= m)
    BY <2>1, <1>n
  <2> HIDE DEF N, Bad
  <2> QED
    BY <1>3, <2>1, <2>2
<1>h. half \in Nat
  BY <1>6
<1>8. CASE first + half < k
  <2>1. first + half + 1 <= k /\ k <= first + half + 1 + (len - half - 1)
    BY <1>4, <1>8, <1>n, <1>h
  <2>2. s[len - half - 1][first + half + 1] = k
    BY <1>6, <1>7, <2>1
  <2> QED
    BY <1>4, <1>6, <1>8, <2>2
<1>9. CASE ~(first + half < k)
  <2>1. first <= k /\ k <= first + half
    BY <1>4, <1>9, <1>n, <1>h
  <2>2. s[half][first] = k
    BY <1>6, <1>7, <2>1
  <2> QED
    BY <1>4, <1>6, <1>9, <2>2
<1> QED
  BY <1>8, <1>9

-----------------------------------------------------------------------------
(* From an address to its file.                                            *)

\* A file that is named is one of maps, and the address is in its range.
LEMMA FileOfKnown ==
  ASSUME MapInv, NEW a \in Addr, FileOf(a) # Unknown
  PROVE  FileOf(a) \in DOMAIN ranges /\ InRange(FileOf(a), a)
<1>1. Len(Loads) \in Nat /\ Loads \in [1..Len(Loads) -> DOMAIN ranges]
  BY LoadsSorted
<1>2. PICK s : IsSearch(s, a, Len(Loads)) /\ LowerBound(a) = s[Len(Loads)][1]
  BY LowerBoundSearches
<1>3. Len(Loads) \in 0..Len(Loads) /\ 1 \in Stretch(Len(Loads))
  BY <1>1 DEF Stretch
<1>4. LowerBound(a) \in 1..(1 + Len(Loads))
  BY <1>2, <1>3, SearchInStretch
<1>5. LowerBound(a) <= Len(Loads) /\ InRange(Loads[LowerBound(a)], a)
  BY DEF FileOf
<1>6. LowerBound(a) \in 1..Len(Loads)
  BY <1>1, <1>4, <1>5
<1> QED
  BY <1>1, <1>5, <1>6 DEF FileOf

\* Where no two files are mapped in turns, the sorted ranges pass an address
\* at the place of the file it belongs to.
LEMMA OwnerPasses ==
  ASSUME MapInv, Disjoint, NEW a \in Addr, NEW k \in 1..Len(Loads),
         InRange(Loads[k], a)
  PROVE  \A j \in 1..Len(Loads) : ranges[Loads[j]].end <= a <=> j < k
<1>1. Len(Loads) \in Nat /\ Loads \in [1..Len(Loads) -> DOMAIN ranges] /\ Sorted(Loads)
  BY LoadsSorted
<1> SUFFICES ASSUME NEW j \in 1..Len(Loads)
             PROVE  ranges[Loads[j]].end <= a <=> j < k
  OBVIOUS
<1> DEFINE rj == ranges[Loads[j]]
           rk == ranges[Loads[k]]
<1>2. Loads[j] \in DOMAIN ranges /\ Loads[k] \in DOMAIN ranges
  BY <1>1
<1>3. /\ rj.start \in Int /\ rj.end \in Int /\ rj.start < rj.end
      /\ rk.start \in Int /\ rk.end \in Int /\ rk.start < rk.end
  <2>1. next \in Int
    BY AddrAssumption DEF MapInv, TypeOK
  <2> QED
    BY <1>2, <2>1, AddrAssumption DEF MapInv, RangesProper
<1>4. a \in Int /\ rk.start <= a /\ a < rk.end
  BY AddrAssumption DEF InRange, Addr
<1>5. /\ j < k => rj.start < rk.start
      /\ k < j => rk.start < rj.start
  BY <1>1 DEF Sorted
<1>6. rj.start # rk.start => rj.end <= rk.start \/ rk.end <= rj.start
  BY <1>2 DEF Disjoint
<1> HIDE DEF rj, rk
<1>7. CASE j < k
  BY <1>3, <1>4, <1>5, <1>6, <1>7 DEF rj
<1>8. CASE j = k
  BY <1>3, <1>4, <1>8 DEF rj, rk
<1>9. CASE k < j
  BY <1>3, <1>4, <1>5, <1>6, <1>9 DEF rj
<1> QED
  BY <1>1, <1>7, <1>8, <1>9

\* As long as no two files are mapped in turns, every address of a file is
\* attributed to this file, however many files there are.
THEOREM Resolved == Spec => []ResolvesOwner
<1>1. ASSUME MapInv, Disjoint, NEW a \in Addr, owner[a] # Unknown
      PROVE  FileOf(a) = owner[a]
  <2>1. owner[a] \in DOMAIN ranges /\ InRange(owner[a], a)
    BY <1>1 DEF MapInv, OwnedInRange
  <2>2. Len(Loads) \in Nat
    BY LoadsSorted, <1>1
  <2>3. PICK k \in 1..Len(Loads) : Loads[k] = owner[a]
    BY <1>1, <2>1, LoadsSorted
  <2>4. InRange(Loads[k], a)
    BY <2>1, <2>3
  <2>5. \A j \in 1..Len(Loads) : ranges[Loads[j]].end <= a <=> j < k
    BY <1>1, <2>4, OwnerPasses
  <2>6. PICK s : IsSearch(s, a, Len(Loads)) /\ LowerBound(a) = s[Len(Loads)][1]
    BY <1>1, LowerBoundSearches
  <2>7. /\ Len(Loads) \in 0..Len(Loads) /\ 1 \in Stretch(Len(Loads))
        /\ k \in 1..(Len(Loads) + 1) /\ 1 <= k /\ k <= 1 + Len(Loads)
        /\ k <= Len(Loads)
    BY <2>2 DEF Stretch
  <2>8. s[Len(Loads)][1] = k
    BY <1>1, <2>5, <2>6, <2>7, SearchFinds
  <2> QED
    BY <2>3, <2>4, <2>6, <2>7, <2>8 DEF FileOf
<1>2. MapInv => ResolvesOwner
  BY <1>1 DEF ResolvesOwner
<1> QED
  BY <1>2, MapInvariant, PTL

-----------------------------------------------------------------------------
(* From an address to its function.                                        *)

\* The table of a file that is loaded.
LEMMA LoadedFile ==
  ASSUME MapInv, pc = "ready", NEW f \in DOMAIN ranges
  PROVE  ranges[f].start \in Nat /\ symbols[f] \in SUBSET (0..MaxSym)
<1>1. ranges[f].start \in Nat
  BY AddrAssumption DEF MapInv, RangesProper
<1>2. symbols[f] \in Tables
  BY DEF MapInv, TypeOK
<1> QED
  BY <1>1, <1>2, AddrAssumption

\* The start that is taken away is put back for the files without a symbol
\* before their range, and for no others.
LEMMA LoadAddrGuess ==
  ASSUME MapInv, pc = "ready", NEW f \in DOMAIN ranges, symbols[f] # {}
  PROVE  LoadAddr(f) = IF \A s \in symbols[f] : s >= ranges[f].start
                       THEN ranges[f].start ELSE 0
<1>1. ranges[f].start \in Nat /\ symbols[f] \in SUBSET (0..MaxSym) /\ MaxSym \in Nat
  BY LoadedFile, AddrAssumption
<1>2. symbols[f] \in SUBSET Nat
  BY <1>1
<1>3. PICK x \in symbols[f] : \A y \in symbols[f] : x <= y
  BY <1>2, LeastNat
<1>4. Min(symbols[f]) \in symbols[f] /\ \A y \in symbols[f] : Min(symbols[f]) <= y
  BY <1>3 DEF Min
<1>5. Min(symbols[f]) >= ranges[f].start <=> \A s \in symbols[f] : s >= ranges[f].start
  BY <1>1, <1>2, <1>4
<1> QED
  BY <1>5 DEF LoadAddr

\* Where the first symbol tells how a file is linked, an address is looked up
\* where it was linked.
LEMMA RelativeIsLinked ==
  ASSUME MapInv, pc = "ready", NEW f \in DOMAIN ranges, NEW a \in Addr,
         symbols[f] # {}, FirstSymbolTells(f)
  PROVE  Relative(f, a) = Linked(f, a)
<1>1. ranges[f].start \in Nat /\ a \in Int
  BY LoadedFile, AddrAssumption DEF Addr
<1>2. LoadAddr(f) = IF f \in absolute THEN ranges[f].start ELSE 0
  BY LoadAddrGuess DEF FirstSymbolTells
<1>3. CASE f \in absolute
  BY <1>1, <1>2, <1>3 DEF Relative, Linked
<1>4. CASE f \notin absolute
  BY <1>1, <1>2, <1>4 DEF Relative, Linked
<1> QED
  BY <1>3, <1>4

\* The function that is named is the last one at or before the address for
\* every file whose first symbol tells how it is linked, whatever its table.
THEOREM ResolvedFunction == Spec => []ResolvesFunction
<1>1. ASSUME MapInv, pc = "ready", NEW a \in Addr,
             FileOf(a) # Unknown, FirstSymbolTells(FileOf(a))
      PROVE  LET f      == FileOf(a)
                 before == {s \in symbols[f] : s <= Linked(f, a)}
                 after  == {s \in symbols[f] : s > Linked(f, a)}
             IN FunctionOf(a) = IF before # {} /\ after # {} THEN Max(before) ELSE None
  <2> DEFINE f      == FileOf(a)
             before == {s \in symbols[f] : s <= Linked(f, a)}
             after  == {s \in symbols[f] : s > Linked(f, a)}
             below  == {s \in symbols[f] : s <= Relative(f, a)}
  <2>1. f \in DOMAIN ranges
    BY <1>1, FileOfKnown
  <2>2. ranges[f].start \in Nat /\ symbols[f] \in SUBSET Nat /\ a \in Int
    <3>1. ranges[f].start \in Nat /\ symbols[f] \in SUBSET (0..MaxSym)
      BY <1>1, <2>1, LoadedFile
    <3> QED
      BY <3>1, AddrAssumption DEF Addr
  <2>3. FunctionOf(a) = IF below = {} \/ below = symbols[f] THEN None ELSE Max(below)
    BY <1>1 DEF FunctionOf
  <2>4. symbols[f] # {} => below = before
    BY <1>1, <2>1, RelativeIsLinked
  <2>5. symbols[f] = {} => below = {} /\ before = {}
    OBVIOUS
  <2>6. Linked(f, a) \in Int
    BY <2>2 DEF Linked
  <2>7. before = symbols[f] <=> after = {}
    <3> HIDE DEF f
    <3>1. \A s \in symbols[f] : s <= Linked(f, a) <=> ~(s > Linked(f, a))
      BY <2>2, <2>6
    <3> QED
      BY <3>1
  <2> HIDE DEF f, before, after, below
  <2>8. FunctionOf(a) = IF before # {} /\ after # {} THEN Max(before) ELSE None
    BY <2>3, <2>4, <2>5, <2>7
  <2> QED
    BY <2>8 DEF f, before, after
<1>2. MapInv => ResolvesFunction
  BY <1>1 DEF ResolvesFunction
<1> QED
  BY <1>2, MapInvariant, PTL
=============================================================================
