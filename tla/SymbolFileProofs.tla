-------------------------- MODULE SymbolFileProofs -------------------------
(***************************************************************************)
(* Theorems about SymbolFile, for every tree of directories, every depth   *)
(* that opendir allows and every number of places.  The search of the      *)
(* directories is exact because an open directory keeps apart the entries  *)
(* that are searched already, below which no file is, from those that are  *)
(* left; and a file with symbols is missed only where a place before it    *)
(* had an object without.                                                  *)
(***************************************************************************)
EXTENDS SymbolFile, SequenceTheorems, WellFoundedInduction, TLAPS

\* A set of natural numbers has a least one: what stands for induction here.
LEMMA LeastNat ==
  ASSUME NEW S \in SUBSET Nat, S # {}
  PROVE  \E x \in S : \A y \in S : x <= y
<1> DEFINE R == OpToRel(<, Nat)
<1>1. IsWellFoundedOn(R, Nat)
  BY NatLessThanWellFounded
<1>2. \A x, y \in Nat : <<y, x>> \in R <=> y < x
  BY DEF OpToRel
<1> HIDE DEF R
<1>3. PICK x \in S : \A y \in S : <<y, x>> \notin R
  BY <1>1, WFMin
<1>4. ASSUME NEW y \in S PROVE x <= y
  <2>1. x \in Nat /\ y \in Nat
    OBVIOUS
  <2>2. ~(y < x)
    BY <1>2, <1>3, <2>1
  <2> QED
    BY <2>1, <2>2
<1> QED
  BY <1>4

-----------------------------------------------------------------------------
(* Directories below a directory.                                          *)

\* One more level of directories.
Deeper(t, found) == found \cup UNION {t[e] : e \in found}

IsReach(t, r, d, n) ==
  r = [k \in 1..n |-> IF k = 1 THEN {d} ELSE Deeper(t, r[k - 1])]

\* The directories on paths of at most n directories from d, for n up to MaxPath.
ReachIn(t, n, d) == (CHOOSE r : IsReach(t, r, d, MaxPath))[n]

Reach(n, d) == ReachIn(tree, n, d)

\* The levels are defined to every depth.
LEMMA ReachExists ==
  ASSUME NEW d, NEW N \in Nat
  PROVE  \E r : IsReach(tree, r, d, N)
<1> DEFINE Bad == {n \in Nat : ~ \E r : IsReach(tree, r, d, n)}
<1> SUFFICES Bad = {}
  OBVIOUS
<1> SUFFICES ASSUME Bad # {} PROVE FALSE
  OBVIOUS
<1>1. PICK n \in Bad : \A m \in Bad : n <= m
  <2>1. Bad \in SUBSET Nat
    OBVIOUS
  <2> HIDE DEF Bad
  <2> QED
    BY <2>1, LeastNat
<1>2. n \in Nat /\ ~ \E r : IsReach(tree, r, d, n)
  OBVIOUS
<1>3. n # 0
  <2>1. IsReach(tree, [k \in {} |-> {}], d, 0)
    <3>1. 1..0 = {}
      OBVIOUS
    <3> QED
      BY <3>1 DEF IsReach
  <2> QED
    BY <1>2, <2>1
<1>4. n - 1 \in Nat /\ ~(n <= n - 1)
  BY <1>2, <1>3
<1>5. PICK r : IsReach(tree, r, d, n - 1)
  BY <1>1, <1>4
<1> DEFINE level(f, k) == IF k = 1 THEN {d} ELSE Deeper(tree, f[k - 1])
           u == [k \in 1..n |-> level(r, k)]
<1>6. \A k \in 1..(n - 1) : u[k] = r[k]
  <2>1. \A k \in 1..(n - 1) : r[k] = level(r, k)
    BY <1>5 DEF IsReach
  <2>2. \A k \in 1..(n - 1) : k \in 1..n
    BY <1>2
  <2> HIDE DEF level
  <2> QED
    BY <2>1, <2>2
<1>7. \A k \in 1..n : level(r, k) = level(u, k)
  <2> TAKE k \in 1..n
  <2>1. CASE k = 1
    BY <2>1
  <2>2. CASE k # 1
    <3>1. k - 1 \in 1..(n - 1)
      BY <1>2, <2>2
    <3>2. u[k - 1] = r[k - 1]
      BY <1>6, <3>1
    <3> HIDE DEF u
    <3> QED
      BY <2>2, <3>2
  <2> QED
    BY <2>1, <2>2
<1>8. u = [k \in 1..n |-> level(u, k)]
  <2>1. u = [k \in 1..n |-> level(r, k)]
    OBVIOUS
  <2> HIDE DEF u, level
  <2> QED
    BY <1>7, <2>1
<1>9. IsReach(tree, u, d, n)
  <2> HIDE DEF u
  <2> QED
    BY <1>8 DEF IsReach
<1> QED
  BY <1>2, <1>9

\* The levels one by one; Within is the deepest.
LEMMA Levels ==
  ASSUME NEW d
  PROVE  /\ Reach(1, d) = {d}
         /\ \A n \in 1..MaxPath : n # MaxPath => Reach(n + 1, d) = Deeper(tree, Reach(n, d))
         /\ Within(d) = Reach(MaxPath, d)
<1>1. MaxPath \in Nat /\ 1 \in 1..MaxPath
  BY SymbolFileAssumption
<1> DEFINE r == CHOOSE r : IsReach(tree, r, d, MaxPath)
<1>2. IsReach(tree, r, d, MaxPath)
  BY <1>1, ReachExists
<1>3. \A n : Reach(n, d) = r[n]
  BY DEF Reach, ReachIn
<1>4. Within(d) = r[MaxPath]
  BY DEF Within, IsReach, Deeper
<1> HIDE DEF r
<1>5. \A k \in 1..MaxPath : r[k] = IF k = 1 THEN {d} ELSE Deeper(tree, r[k - 1])
  BY <1>2 DEF IsReach
<1>6. ASSUME NEW n \in 1..MaxPath, n # MaxPath PROVE r[n + 1] = Deeper(tree, r[n])
  <2>1. n + 1 \in 1..MaxPath /\ n + 1 # 1 /\ (n + 1) - 1 = n
    BY <1>1, <1>6
  <2> QED
    BY <1>5, <2>1
<1> QED
  BY <1>1, <1>3, <1>4, <1>5, <1>6

\* A directory is below itself.
LEMMA ReachSelf == \A n \in 1..MaxPath : \A d : d \in Reach(n, d)
<1> SUFFICES ASSUME NEW d PROVE \A n \in 1..MaxPath : d \in Reach(n, d)
  OBVIOUS
<1> DEFINE Bad == {n \in 1..MaxPath : d \notin Reach(n, d)}
<1> SUFFICES ASSUME Bad # {} PROVE FALSE
  OBVIOUS
<1>1. PICK n \in Bad : \A m \in Bad : n <= m
  <2>1. Bad \in SUBSET Nat
    BY SymbolFileAssumption
  <2> HIDE DEF Bad
  <2> QED
    BY <2>1, LeastNat
<1>2. n \in 1..MaxPath /\ d \notin Reach(n, d) /\ MaxPath \in Nat
  BY SymbolFileAssumption
<1>3. n # 1
  BY <1>2, Levels
<1>4. n - 1 \in 1..MaxPath /\ n - 1 # MaxPath /\ (n - 1) + 1 = n /\ ~(n <= n - 1)
  BY <1>2, <1>3
<1>5. d \in Reach(n - 1, d)
  BY <1>1, <1>4
<1>6. Reach((n - 1) + 1, d) = Deeper(tree, Reach(n - 1, d))
  BY <1>4, Levels
<1> QED
  BY <1>2, <1>4, <1>5, <1>6 DEF Deeper

\* What is reached on some level is within.
LEMMA ReachGrows ==
  ASSUME NEW d
  PROVE  \A n \in 1..MaxPath : Reach(n, d) \subseteq Within(d)
<1> DEFINE Bad == {k \in 0..(MaxPath - 1) : ~(Reach(MaxPath - k, d) \subseteq Within(d))}
<1>0. MaxPath \in Nat /\ MaxPath # 0
  BY SymbolFileAssumption
<1>1. Bad = {}
  <2> SUFFICES ASSUME Bad # {} PROVE FALSE
    OBVIOUS
  <2>1. PICK k \in Bad : \A m \in Bad : k <= m
    <3>1. Bad \in SUBSET Nat
      BY <1>0
    <3> HIDE DEF Bad
    <3> QED
      BY <3>1, LeastNat
  <2>2. k \in 0..(MaxPath - 1) /\ ~(Reach(MaxPath - k, d) \subseteq Within(d))
    OBVIOUS
  <2>3. k # 0
    <3>1. k = 0 => MaxPath - k = MaxPath
      BY <1>0
    <3> QED
      BY <2>2, <3>1, Levels
  <2>4. /\ k - 1 \in 0..(MaxPath - 1) /\ ~(k <= k - 1)
        /\ MaxPath - k \in 1..MaxPath /\ MaxPath - k # MaxPath
        /\ (MaxPath - k) + 1 = MaxPath - (k - 1)
    BY <1>0, <2>2, <2>3
  <2>5. Reach(MaxPath - (k - 1), d) \subseteq Within(d)
    BY <2>1, <2>4
  <2>6. Reach((MaxPath - k) + 1, d) = Deeper(tree, Reach(MaxPath - k, d))
    BY <2>4, Levels
  <2> QED
    BY <2>2, <2>4, <2>5, <2>6 DEF Deeper
<1>2. TAKE n \in 1..MaxPath
<1>3. MaxPath - n \in 0..(MaxPath - 1) /\ MaxPath - (MaxPath - n) = n
  BY <1>0
<1>4. MaxPath - n \notin Bad
  BY <1>1
<1> HIDE DEF Bad
<1> QED
  BY <1>3, <1>4 DEF Bad

\* What is below a directory is the directory and what is below its entries.
LEMMA Unrolled ==
  ASSUME NEW d
  PROVE  \A n \in 1..MaxPath : n # MaxPath =>
           Reach(n + 1, d) = {d} \cup UNION {Reach(n, e) : e \in tree[d]}
<1> DEFINE Below(n) == UNION {Reach(n, e) : e \in tree[d]}
           Bad == {n \in 1..MaxPath : n # MaxPath /\ Reach(n + 1, d) # {d} \cup Below(n)}
<1> SUFFICES ASSUME Bad # {} PROVE FALSE
  OBVIOUS
<1>1. PICK n \in Bad : \A m \in Bad : n <= m
  <2>1. Bad \in SUBSET Nat
    BY SymbolFileAssumption
  <2> HIDE DEF Bad
  <2> QED
    BY <2>1, LeastNat
<1>2. /\ n \in 1..MaxPath /\ n # MaxPath /\ Reach(n + 1, d) # {d} \cup Below(n)
      /\ MaxPath \in Nat
  BY SymbolFileAssumption
<1>3. Reach(n + 1, d) = Deeper(tree, Reach(n, d))
  BY <1>2, Levels
<1>4. CASE n = 1
  <2>1. Reach(1, d) = {d} /\ \A e : Reach(1, e) = {e}
    BY Levels
  <2>2. Deeper(tree, {d}) = {d} \cup tree[d]
    BY DEF Deeper
  <2>3. Below(1) = tree[d]
    BY <2>1
  <2> QED
    BY <1>2, <1>3, <1>4, <2>1, <2>2, <2>3
<1>5. CASE n # 1
  <2>1. /\ n - 1 \in 1..MaxPath /\ n - 1 # MaxPath /\ (n - 1) + 1 = n /\ ~(n <= n - 1)
    BY <1>2, <1>5
  <2>2. n - 1 \notin Bad
    BY <1>1, <2>1
  <2>3. Reach(n, d) = {d} \cup Below(n - 1)
    BY <2>1, <2>2
  <2>4. \A e : Reach(n, e) = Deeper(tree, Reach(n - 1, e))
    BY <2>1, Levels
  <2>5. \A e : e \in Reach(n, e)
    BY <1>2, ReachSelf
  <2>6. Below(n) = UNION {Deeper(tree, Reach(n - 1, e)) : e \in tree[d]}
    BY <2>4
  <2>7. Deeper(tree, {d} \cup Below(n - 1)) \subseteq {d} \cup Below(n)
    <3> SUFFICES ASSUME NEW x \in Deeper(tree, {d} \cup Below(n - 1)), x # d
                 PROVE  x \in Below(n)
      OBVIOUS
    <3>1. CASE x \in tree[d]
      BY <2>5, <3>1
    <3>2. CASE \E e \in tree[d] : x \in Reach(n - 1, e)
      BY <2>4, <3>2 DEF Deeper
    <3>3. CASE \E e \in tree[d] : \E y \in Reach(n - 1, e) : x \in tree[y]
      BY <2>4, <3>3 DEF Deeper
    <3> QED
      BY <3>1, <3>2, <3>3 DEF Deeper
  <2>8. {d} \cup Below(n) \subseteq Deeper(tree, {d} \cup Below(n - 1))
    <3> SUFFICES ASSUME NEW e \in tree[d], NEW x \in Deeper(tree, Reach(n - 1, e))
                 PROVE  x \in Deeper(tree, {d} \cup Below(n - 1))
      BY <2>6 DEF Deeper
    <3>1. Reach(n - 1, e) \subseteq Below(n - 1)
      OBVIOUS
    <3> HIDE DEF Below
    <3> QED
      BY <3>1 DEF Deeper
  <2> HIDE DEF Below
  <2> QED
    BY <1>2, <1>3, <2>3, <2>7, <2>8
<1> QED
  BY <1>4, <1>5

\* No file is there that the debug link names, at most n directories deep.
Clear(n, d) == n # 0 => \A e \in Reach(n, d) : ~Exists(links[e])

\* A directory is clear when its own file is missing and its entries are clear.
LEMMA ClearUnrolled ==
  ASSUME NEW d, NEW n \in 1..MaxPath, ~Exists(links[d]),
         \A e \in tree[d] : Clear(n - 1, e)
  PROVE  Clear(n, d)
<1>1. MaxPath \in Nat
  BY SymbolFileAssumption
<1>2. CASE n = 1
  BY <1>2, Levels DEF Clear
<1>3. CASE n # 1
  <2>1. n - 1 \in 1..MaxPath /\ n - 1 # MaxPath /\ (n - 1) + 1 = n /\ n - 1 # 0
    BY <1>1, <1>3
  <2>2. Reach(n, d) = {d} \cup UNION {Reach(n - 1, e) : e \in tree[d]}
    BY <2>1, Unrolled
  <2> QED
    BY <2>1, <2>2 DEF Clear
<1> QED
  BY <1>2, <1>3

-----------------------------------------------------------------------------
(* The invariant.                                                          *)

\* The places are told apart, and each has its content.
LEMMA Places ==
  /\ NoPlace # Own /\ NoPlace # Binary /\ NoPlace # Beside
  /\ Own # Binary /\ Own # Beside /\ Binary # Beside
  /\ \A k : Id(k) \notin {NoPlace, Own, Binary, Beside}
  /\ \A d : In(d) \notin {NoPlace, Own, Binary, Beside}
  /\ \A k, d : Id(k) # In(d)
  /\ \A k, l : Id(k) = Id(l) => k = l
  /\ \A d, e : In(d) = In(e) => d = e
BY DEF NoPlace, Own, Binary, Beside, Id, In

LEMMA Contents ==
  /\ ContentOf(Own) = own
  /\ ContentOf(Binary) = binary
  /\ ContentOf(Beside) = beside
  /\ \A k : ContentOf(Id(k)) = ids[k]
  /\ \A d : ContentOf(In(d)) = links[d]
<1>1. ContentOf(Own) = own
  <2>1. Own # Binary /\ Own # Beside /\ Head(Own) = "own"
    BY Places DEF Own
  <2> QED
    BY <2>1 DEF ContentOf
<1>2. ContentOf(Binary) = binary
  <2>1. Own # Binary /\ Binary # Beside /\ Head(Binary) = "binary"
    BY Places DEF Binary
  <2> QED
    BY <2>1 DEF ContentOf
<1>5. ContentOf(Beside) = beside
  <2>1. Own # Beside /\ Binary # Beside /\ Head(Beside) = "beside"
    BY Places DEF Beside
  <2> QED
    BY <2>1 DEF ContentOf
<1>3. \A k : ContentOf(Id(k)) = ids[k]
  <2> TAKE k
  <2>1. Id(k) \notin {Own, Binary, Beside} /\ Head(Id(k)) = "id" /\ Id(k)[2] = k
    BY Places DEF Id
  <2> QED
    BY <2>1 DEF ContentOf
<1>4. \A d : ContentOf(In(d)) = links[d]
  <2> TAKE d
  <2>1. In(d) \notin {Own, Binary, Beside} /\ Head(In(d)) = "dir" /\ In(d)[2] = d
    BY Places DEF In
  <2> QED
    BY <2>1 DEF ContentOf
<1> QED
  BY <1>1, <1>2, <1>3, <1>4, <1>5

\* What the places of the file hold never changes.
FilesOK ==
  /\ own \in Content /\ binary \in Content /\ beside \in Content
  /\ binary_path \in BinaryPath
  /\ ids \in [1..IdPlaces -> Content] /\ links \in [Dir -> Content]
  /\ tree \in [Dir -> SUBSET Dir]

Frame == [dir : Dir, left : SUBSET Dir]

SearchTypeOK ==
  /\ TypeOK /\ FilesOK
  /\ stack \in Seq(Frame)
  /\ pc # "search" => roots = <<>> /\ stack = <<>>
  /\ table # "none" => pc = "done"

\* What is known when a place is tried: none before it had symbols to offer.
OwnStripped    == own = "stripped"
JoinedHasNone  == binary_path = "not given" \/ Stripped(ContentOf(Joined))
IdsMissing     == \A k \in 1..IdPlaces : ids[k] = "missing"

Tried ==
  /\ pc \notin {"open", "failed"} => Opens(own)
  /\ pc \in {"binary", "buildid", "link", "search"} => OwnStripped
  /\ pc \in {"buildid", "link", "search"} => JoinedHasNone
  /\ pc \in {"link", "search"} => IdsMissing
  /\ pc = "search" => has_link

\* The directories of search_dirs that a search was started in.
Started == Len(SearchDirs) - Len(roots)

\* What is known of the place that was chosen.
FoundBelow(d) ==
  \E i \in DOMAIN SearchDirs :
    /\ d \in Reach(MaxPath, SearchDirs[i]) /\ Exists(links[d])
    /\ \A j \in 1..(i - 1) : Clear(MaxPath, SearchDirs[j])

JoinedTaken(place) == place = Joined /\ ~Stripped(ContentOf(place))

Chosen ==
  /\ pc \in {"open", "own", "binary", "buildid", "link", "search"} => load_file = NoPlace
  /\ pc \in {"reopen", "load", "done"} => load_file # NoPlace
  /\ pc = "reopen" => load_file # Own
  /\ load_file = Own => own = "symbols"
  /\ load_file \in {Binary, Beside} => JoinedTaken(load_file)
  /\ pc \in {"load", "done"} => Opens(ContentOf(load_file))
  /\ \A d \in Dir : load_file = In(d) => FoundBelow(d)
  /\ pc = "done" => table = IF ContentOf(load_file) = "symbols" THEN "static" ELSE "dynamic"

\* Why no symbols are read at all.
GivenUp ==
  pc = "failed" =>
    \/ ~Opens(own) /\ load_file = NoPlace
    \/ load_file # NoPlace /\ ~Opens(ContentOf(load_file))
    \/ /\ load_file = NoPlace /\ OwnStripped /\ JoinedHasNone /\ IdsMissing
       /\ has_link => \A i \in DOMAIN SearchDirs : Clear(MaxPath, SearchDirs[i])

\* The directories of search_dirs are searched in turn.
RootsInTurn ==
  /\ Len(roots) <= Len(SearchDirs)
  /\ \A i \in 1..Len(roots) : roots[i] = SearchDirs[Started + i]
  /\ pc = "search" =>
       /\ \A j \in 1..Started :
            Clear(MaxPath, SearchDirs[j]) \/ (j = Started /\ stack # <<>>)
       /\ stack # <<>> => Started # 0 /\ stack[1].dir = SearchDirs[Started]

\* An open directory has no such file, and below the entries read so far there
\* is none either, but for the one that is open.
Searched(i) ==
  /\ ~Exists(links[stack[i].dir])
  /\ stack[i].dir \in Reach(i, stack[1].dir)
  /\ \A e \in tree[stack[i].dir] \ stack[i].left :
       Clear(MaxPath - i, e) \/ (i # Len(stack) /\ e = stack[i + 1].dir)

SearchInv ==
  /\ SearchTypeOK /\ Tried /\ Chosen /\ GivenUp /\ RootsInTurn
  /\ \A i \in 1..Len(stack) : Searched(i)

\* The content of the files does not change, nor does what follows from it.
LEMMA Frozen ==
  ASSUME UNCHANGED files
  PROVE  /\ SearchDirs' = SearchDirs
         /\ \A n, d : Reach(n, d)' = Reach(n, d)
         /\ \A n, d : Clear(n, d)' <=> Clear(n, d)
         /\ \A d : FoundBelow(d)' <=> FoundBelow(d)
         /\ \A p : ContentOf(p)' = ContentOf(p)
         /\ Joined' = Joined
         /\ \A p : JoinedTaken(p)' <=> JoinedTaken(p)
         /\ FilesOK' <=> FilesOK
         /\ OwnStripped' <=> OwnStripped
         /\ JoinedHasNone' <=> JoinedHasNone
         /\ IdsMissing' <=> IdsMissing
<1>1. /\ own' = own /\ binary' = binary /\ beside' = beside /\ ids' = ids
      /\ links' = links /\ tree' = tree /\ has_link' = has_link
      /\ binary_path' = binary_path
      /\ symbol_path' = symbol_path /\ search_symbols' = search_symbols
  BY DEF files
<1>2. SearchDirs' = SearchDirs
  BY <1>1 DEF SearchDirs
<1>3. \A n, d : Reach(n, d)' = Reach(n, d)
  BY <1>1 DEF Reach
<1>4. \A n, d : Clear(n, d)' <=> Clear(n, d)
  BY <1>1, <1>3 DEF Clear
<1>5. \A d : FoundBelow(d)' <=> FoundBelow(d)
  BY <1>1, <1>2, <1>3, <1>4 DEF FoundBelow
<1>6. \A p : ContentOf(p)' = ContentOf(p)
  BY <1>1 DEF ContentOf
<1>7. FilesOK' <=> FilesOK
  BY <1>1 DEF FilesOK
<1>8. Joined' = Joined
  BY <1>1 DEF Joined
<1>9. /\ OwnStripped' <=> OwnStripped
      /\ JoinedHasNone' <=> JoinedHasNone
      /\ IdsMissing' <=> IdsMissing
      /\ \A p : JoinedTaken(p)' <=> JoinedTaken(p)
  <2>1. ContentOf(Joined)' = ContentOf(Joined)
    BY <1>1, <1>8 DEF ContentOf
  <2> QED
    BY <1>1, <1>6, <1>8, <2>1
    DEF OwnStripped, JoinedHasNone, JoinedTaken, IdsMissing
<1> QED
  BY <1>2, <1>3, <1>4, <1>5, <1>6, <1>7, <1>8, <1>9

LEMMA SearchDirsType ==
  /\ SearchDirs \in Seq(Dir)
  /\ Len(SearchDirs) \in Nat
  /\ DOMAIN SearchDirs = 1..Len(SearchDirs)
<1>1. /\ <<SymbolDir>> \in Seq(Dir) /\ <<CurrentDir>> \in Seq(Dir)
      /\ <<SystemDir>> \in Seq(Dir) /\ <<>> \in Seq(Dir)
  BY SymbolFileAssumption
<1>2. /\ (IF symbol_path THEN <<SymbolDir>> ELSE <<>>) \in Seq(Dir)
      /\ (IF search_symbols THEN <<SystemDir>> ELSE <<>>) \in Seq(Dir)
  BY <1>1
<1>3. SearchDirs \in Seq(Dir)
  BY <1>1, <1>2, ConcatProperties DEF SearchDirs
<1> QED
  BY <1>3, LenProperties

\* Outside of the search of directories nothing is open.
LEMMA Settled ==
  ASSUME roots = <<>>, stack = <<>>, pc # "search"
  PROVE  RootsInTurn /\ \A i \in 1..Len(stack) : Searched(i)
BY SearchDirsType DEF RootsInTurn

\* In the beginning nothing is known and nothing is open.
LEMMA SearchInit == Init => SearchInv
<1> SUFFICES ASSUME Init PROVE SearchInv
  OBVIOUS
<1>1. roots = <<>> /\ stack = <<>> /\ pc = "open" /\ load_file = NoPlace /\ table = "none"
  BY DEF Init
<1>2. RootsInTurn /\ \A i \in 1..Len(stack) : Searched(i)
  BY <1>1, Settled
<1>3. FilesOK
  <2>1. PICK disk \in Disks :
          /\ own = disk.own /\ binary = disk.binary /\ beside = disk.beside
          /\ ids = disk.ids /\ links = disk.links /\ tree = disk.tree
    BY DEF Init
  <2>2. disk \in Disk
    BY SymbolFileAssumption
  <2>3. binary_path \in BinaryPath
    BY DEF Init
  <2> QED
    BY <2>1, <2>2, <2>3 DEF FilesOK, Disk
<1>4. TypeOK
  BY <1>1, SymbolFileAssumption DEF TypeOK
<1>5. SearchTypeOK
  BY <1>1, <1>3, <1>4 DEF SearchTypeOK
<1>6. Tried /\ Chosen /\ GivenUp
  BY <1>1, Places DEF Tried, Chosen, GivenUp
<1> QED
  BY <1>2, <1>5, <1>6 DEF SearchInv

\* Nor is anything open after a step that leaves the search.
LEMMA Settles ==
  ASSUME UNCHANGED files, roots' = <<>>, stack' = <<>>, pc' # "search"
  PROVE  RootsInTurn' /\ (\A i \in 1..Len(stack) : Searched(i))'
<1>1. SearchDirs' = SearchDirs
  BY Frozen
<1> QED
  BY <1>1, SearchDirsType DEF RootsInTurn

\* A place is chosen: everything that was open is closed.
LEMMA TakeKeeps ==
  ASSUME SearchInv, NEW place \in Place, Take(place), Opens(own), table = "none",
         place = Own => own = "symbols",
         place \in {Binary, Beside} => JoinedTaken(place),
         \A d \in Dir : place = In(d) => FoundBelow(d)
  PROVE  SearchInv'
<1>1. /\ UNCHANGED files /\ table' = table /\ load_file' = place
      /\ roots' = <<>> /\ stack' = <<>>
      /\ pc' = IF place = Own THEN "load" ELSE "reopen"
  BY DEF Take
<1>2. pc' \in {"load", "reopen"} /\ pc' # "search" /\ pc' # "failed" /\ pc' # "done"
  BY <1>1
<1>3. RootsInTurn' /\ (\A i \in 1..Len(stack) : Searched(i))'
  BY <1>1, <1>2, Settles
<1>4. SearchTypeOK'
  <2>1. FilesOK'
    BY <1>1, Frozen DEF SearchInv, SearchTypeOK
  <2>2. TypeOK'
    BY <1>1, <1>2, SymbolFileAssumption DEF TypeOK
  <2> QED
    BY <1>1, <1>2, <2>1, <2>2 DEF SearchTypeOK
<1>5. own' = own
  BY <1>1 DEF files
<1>6. Tried' /\ GivenUp'
  BY <1>2, <1>5 DEF Tried, GivenUp
<1>7. place # NoPlace
  BY Places DEF Place
<1>8. Chosen'
  <2>1. pc' = "load" => Opens(ContentOf(load_file))'
    <3>1. pc' = "load" => load_file' = Own
      BY <1>1
    <3>2. ContentOf(Own)' = own
      BY <1>1, Contents, Frozen
    <3>3. load_file' = Own => ContentOf(load_file)' = own
      BY <3>2 DEF ContentOf
    <3> QED
      BY <3>1, <3>3 DEF Opens
  <2>2. /\ \A d : FoundBelow(d)' <=> FoundBelow(d)
        /\ JoinedTaken(load_file)' <=> JoinedTaken(place)
    <3>1. JoinedTaken(load_file)' <=> JoinedTaken(place)'
      BY <1>1 DEF JoinedTaken, ContentOf
    <3> QED
      BY <1>1, <3>1, Frozen
  <2> QED
    BY <1>1, <1>2, <1>5, <1>7, <2>1, <2>2 DEF Chosen
<1> QED
  BY <1>3, <1>4, <1>6, <1>8 DEF SearchInv

\* A step of findFileWithSymbols before any directory is searched.
LEMMA GoKeeps ==
  ASSUME SearchInv, NEW to \in {"own", "binary", "buildid", "link", "failed"}, Go(to),
         pc \in {"open", "own", "binary", "buildid", "link", "search"},
         stack = <<>>, roots = <<>>,
         to # "failed" => Opens(own),
         to \in {"binary", "buildid", "link"} => OwnStripped,
         to \in {"buildid", "link"} => JoinedHasNone,
         to = "link" => IdsMissing,
         to = "failed" =>
           \/ ~Opens(own)
           \/ /\ OwnStripped /\ JoinedHasNone /\ IdsMissing
              /\ has_link => \A i \in DOMAIN SearchDirs : Clear(MaxPath, SearchDirs[i])
  PROVE  SearchInv'
<1>1. /\ UNCHANGED files /\ table' = table /\ load_file' = load_file
      /\ roots' = <<>> /\ stack' = <<>> /\ pc' = to
  BY DEF Go
<1>2. load_file = NoPlace /\ table = "none"
  BY DEF SearchInv, Chosen, SearchTypeOK, TypeOK
<1>3. RootsInTurn' /\ (\A i \in 1..Len(stack) : Searched(i))'
  BY <1>1, Settles
<1>4. SearchTypeOK'
  <2>1. FilesOK'
    BY <1>1, Frozen DEF SearchInv, SearchTypeOK
  <2>2. TypeOK'
    BY <1>1, <1>2, SymbolFileAssumption DEF TypeOK
  <2> QED
    BY <1>1, <1>2, <2>1, <2>2 DEF SearchTypeOK
<1>5. own' = own /\ has_link' = has_link
  BY <1>1 DEF files
<1>6. /\ SearchDirs' = SearchDirs
      /\ \A n, d : Clear(n, d)' <=> Clear(n, d)
      /\ OwnStripped' <=> OwnStripped
      /\ JoinedHasNone' <=> JoinedHasNone
      /\ IdsMissing' <=> IdsMissing
  BY <1>1, Frozen
<1>7. Tried'
  BY <1>1, <1>5, <1>6 DEF Tried
<1>8. GivenUp'
  BY <1>1, <1>2, <1>5, <1>6 DEF GivenUp
<1>9. Chosen'
  BY <1>1, <1>2, Places DEF Chosen
<1> QED
  BY <1>3, <1>4, <1>7, <1>8, <1>9 DEF SearchInv

\* The places of one file, up to the build id.
LEMMA PlacesStep ==
  ASSUME SearchInv, OpenOwn \/ TryOwn \/ TryBinary \/ TryBuildId
  PROVE  SearchInv'
<1>1. FilesOK /\ SearchTypeOK /\ Tried
  BY DEF SearchInv, SearchTypeOK
<1>2. pc \in {"open", "own", "binary", "buildid"}
  BY DEF OpenOwn, TryOwn, TryBinary, TryBuildId
<1>3. roots = <<>> /\ stack = <<>> /\ table = "none"
  BY <1>1, <1>2 DEF SearchTypeOK
<1>4. CASE OpenOwn
  <2>1. /\ pc = "open"
        /\ (Go("own") /\ Opens(own)) \/ (Go("failed") /\ ~Opens(own))
    BY <1>4 DEF OpenOwn
  <2> QED
    BY <1>3, <2>1, GoKeeps
<1>5. CASE TryOwn
  <2>1. pc = "own" /\ Opens(own)
    BY <1>1, <1>5 DEF TryOwn, Tried
  <2>2. CASE own # "stripped"
    <3>1. own = "symbols"
      BY <2>1, <2>2 DEF Opens
    <3>2. Take(Own)
      BY <1>5, <3>1 DEF TryOwn, Stripped
    <3> QED
      BY <1>3, <2>1, <3>1, <3>2, Places, TakeKeeps DEF Place
  <2>3. CASE own = "stripped"
    <3>1. Go("binary") /\ OwnStripped
      BY <1>5, <2>3 DEF TryOwn, Stripped, OwnStripped
    <3> QED
      BY <1>3, <2>1, <3>1, GoKeeps
  <2> QED
    BY <2>2, <2>3
<1>6. CASE TryBinary
  <2>1. pc = "binary" /\ Opens(own) /\ OwnStripped
    BY <1>1, <1>6 DEF TryBinary, Tried
  <2>2. CASE binary_path # "not given" /\ ~Stripped(ContentOf(Joined))
    <3>1. Take(Joined) /\ JoinedTaken(Joined)
      BY <1>6, <2>2 DEF TryBinary, JoinedTaken
    <3>2. Joined \in {Binary, Beside}
      BY DEF Joined
    <3>3. Joined \in Place /\ Joined # Own /\ \A d : Joined # In(d)
      BY <3>2, Places DEF Place
    <3> QED
      BY <1>3, <2>1, <3>1, <3>3, TakeKeeps
  <2>3. CASE ~(binary_path # "not given" /\ ~Stripped(ContentOf(Joined)))
    <3>1. Go("buildid") /\ JoinedHasNone
      BY <1>6, <2>3 DEF TryBinary, JoinedHasNone
    <3> QED
      BY <1>3, <2>1, <3>1, GoKeeps
  <2> QED
    BY <2>2, <2>3
<1>7. CASE TryBuildId
  <2> DEFINE there == {k \in 1..IdPlaces : Exists(ids[k])}
  <2>1. pc = "buildid" /\ Opens(own) /\ OwnStripped /\ JoinedHasNone
    BY <1>1, <1>7 DEF TryBuildId, Tried
  <2>2. CASE there # {}
    <3>1. Take(Id(Min(there)))
      BY <1>7, <2>2 DEF TryBuildId
    <3>2. Min(there) \in there
      <4>1. there \in SUBSET Nat
        BY SymbolFileAssumption
      <4> HIDE DEF there
      <4> QED
        BY <2>2, <4>1, LeastNat DEF Min
    <3>3. Min(there) \in 1..IdPlaces
      BY <3>2
    <3> HIDE DEF there
    <3>4. Id(Min(there)) \in Place
      BY <3>3 DEF Place
    <3> QED
      BY <1>3, <2>1, <3>1, <3>3, <3>4, Places, TakeKeeps
  <2>3. CASE there = {}
    <3>1. Go("link") /\ IdsMissing
      BY <1>7, <2>3 DEF TryBuildId, IdsMissing, Exists
    <3> QED
      BY <1>3, <2>1, <3>1, GoKeeps
  <2> QED
    BY <2>2, <2>3
<1> QED
  BY <1>4, <1>5, <1>6, <1>7

-----------------------------------------------------------------------------
(* The search of directories.                                              *)

\* A step inside of the search touches what is open only.
LEMMA SearchGoesOn ==
  ASSUME SearchInv, pc = "search", UNCHANGED <<files, pc, load_file, table>>,
         roots' \in Seq(Dir), stack' \in Seq(Frame), Len(stack') <= MaxPath,
         \A i \in 1..Len(stack') : stack'[i].left \subseteq tree[stack'[i].dir],
         RootsInTurn', \A i \in 1..Len(stack') : Searched(i)'
  PROVE  SearchInv'
<1>1. UNCHANGED files /\ pc' = "search" /\ load_file' = load_file /\ table' = table
  OBVIOUS
<1>2. /\ own' = own /\ has_link' = has_link /\ tree' = tree
  BY <1>1 DEF files
<1>3. SearchTypeOK'
  <2>1. FilesOK'
    BY <1>1, Frozen DEF SearchInv, SearchTypeOK
  <2>2. TypeOK /\ table = "none"
    BY DEF SearchInv, SearchTypeOK
  <2>3. DOMAIN stack' = 1..Len(stack') /\ \A i \in 1..Len(stack') : stack'[i].dir \in Dir
    <3>1. DOMAIN stack' = 1..Len(stack') /\ \A i \in 1..Len(stack') : stack'[i] \in Frame
      BY LenProperties, ElementOfSeq
    <3> QED
      BY <3>1 DEF Frame
  <2>4. TypeOK'
    BY <1>1, <1>2, <2>2, <2>3 DEF TypeOK
  <2> QED
    BY <1>1, <2>1, <2>2, <2>4 DEF SearchTypeOK
<1>4. Tried'
  BY <1>1, <1>2, Frozen DEF SearchInv, Tried
<1>5. Chosen'
  BY <1>1, Places DEF SearchInv, Chosen
<1>6. GivenUp'
  BY <1>1 DEF GivenUp
<1> QED
  BY <1>3, <1>4, <1>5, <1>6 DEF SearchInv

\* What the invariant says of a search that goes on.
LEMMA Searching ==
  ASSUME SearchInv, pc = "search"
  PROVE  /\ Opens(own) /\ OwnStripped /\ JoinedHasNone /\ IdsMissing /\ has_link
         /\ table = "none"
         /\ roots \in Seq(Dir) /\ stack \in Seq(Frame)
         /\ Len(roots) \in Nat /\ Len(stack) \in Nat /\ Len(stack) <= MaxPath
         /\ \A i \in 1..Len(stack) :
              /\ stack[i].dir \in Dir /\ stack[i].left \in SUBSET Dir
              /\ stack[i].left \subseteq tree[stack[i].dir]
         /\ \A d \in Dir : tree[d] \subseteq Dir
         /\ RootsInTurn /\ \A i \in 1..Len(stack) : Searched(i)
<1>1. /\ Opens(own) /\ OwnStripped /\ JoinedHasNone /\ IdsMissing /\ has_link
      /\ table = "none"
  BY DEF SearchInv, Tried, SearchTypeOK
<1>2. roots \in Seq(Dir) /\ stack \in Seq(Frame) /\ TypeOK /\ FilesOK
  BY DEF SearchInv, SearchTypeOK, TypeOK
<1>3. Len(roots) \in Nat /\ Len(stack) \in Nat /\ Len(stack) <= MaxPath
  BY <1>2, LenProperties DEF TypeOK
<1>4. DOMAIN stack = 1..Len(stack) /\ \A i \in 1..Len(stack) : stack[i] \in Frame
  BY <1>2, LenProperties, ElementOfSeq
<1>5. \A i \in 1..Len(stack) :
        /\ stack[i].dir \in Dir /\ stack[i].left \in SUBSET Dir
        /\ stack[i].left \subseteq tree[stack[i].dir]
  BY <1>2, <1>4 DEF Frame, TypeOK
<1> QED
  BY <1>1, <1>2, <1>3, <1>5 DEF SearchInv, FilesOK

\* The debug link is followed to the directories, or there is none.
LEMMA LinkStep ==
  ASSUME SearchInv, TryDebugLink
  PROVE  SearchInv'
<1>1. pc = "link" /\ roots = <<>> /\ stack = <<>> /\ load_file = NoPlace /\ table = "none"
  BY DEF TryDebugLink, SearchInv, SearchTypeOK, Chosen
<1>2. Opens(own) /\ OwnStripped /\ JoinedHasNone /\ IdsMissing
  BY <1>1 DEF SearchInv, Tried
<1>3. CASE ~has_link
  <2>1. Go("failed")
    BY <1>3 DEF TryDebugLink
  <2> QED
    BY <1>1, <1>2, <1>3, <2>1, GoKeeps
<1>4. CASE has_link
  <2>1. /\ pc' = "search" /\ roots' = SearchDirs /\ UNCHANGED files
        /\ stack' = <<>> /\ load_file' = NoPlace /\ table' = "none"
    BY <1>1, <1>4 DEF TryDebugLink
  <2>2. SearchDirs' = SearchDirs /\ SearchDirs \in Seq(Dir) /\ Len(SearchDirs) \in Nat
    BY <2>1, Frozen, SearchDirsType
  <2>3. own' = own /\ has_link' = has_link
    BY <2>1 DEF files
  <2>4. FilesOK'
    BY <2>1, Frozen DEF SearchInv, SearchTypeOK
  <2>5. TypeOK'
    BY <2>1, <2>2, SymbolFileAssumption DEF TypeOK
  <2>6. SearchTypeOK'
    BY <2>1, <2>4, <2>5 DEF SearchTypeOK
  <2>7. Tried'
    BY <1>2, <1>4, <2>1, <2>3, Frozen DEF Tried
  <2>8. Chosen' /\ GivenUp'
    BY <2>1, Places DEF Chosen, GivenUp
  <2>9. RootsInTurn'
    <3>1. Started' = 0
      BY <2>1, <2>2 DEF Started
    <3>2. \A i \in 1..Len(SearchDirs) : 0 + i = i
      BY <2>2
    <3> QED
      BY <2>1, <2>2, <3>1, <3>2 DEF RootsInTurn
  <2>10. (\A i \in 1..Len(stack) : Searched(i))'
    BY <2>1
  <2> QED
    BY <2>6, <2>7, <2>8, <2>9, <2>10 DEF SearchInv
<1> QED
  BY <1>3, <1>4

\* A call on the next of search_dirs.
LEMMA RootStep ==
  ASSUME SearchInv, SearchRoot
  PROVE  SearchInv'
<1>1. pc = "search" /\ stack = <<>> /\ roots # <<>>
  BY DEF SearchRoot
<1>2. /\ Opens(own) /\ table = "none"
      /\ roots \in Seq(Dir) /\ Len(roots) \in Nat
      /\ \A d \in Dir : tree[d] \subseteq Dir
      /\ RootsInTurn
  BY <1>1, Searching
<1>3. MaxPath \in Nat /\ MaxPath # 0 /\ 1 \in 1..MaxPath /\ MaxPath \in 1..MaxPath
  BY SymbolFileAssumption
<1> DEFINE d == Head(roots)
           n == Len(SearchDirs)
<1>4. /\ Len(roots) # 0 /\ d \in Dir /\ d = roots[1]
      /\ Tail(roots) \in Seq(Dir) /\ Len(Tail(roots)) = Len(roots) - 1
      /\ \A i \in 1..Len(Tail(roots)) : Tail(roots)[i] = roots[i + 1]
  BY <1>1, <1>2, HeadTailProperties, EmptySeq, LenProperties
<1>5. n \in Nat /\ DOMAIN SearchDirs = 1..n /\ Len(roots) <= n
  BY <1>2, SearchDirsType DEF RootsInTurn
<1>6. Started + 1 \in 1..n /\ d = SearchDirs[Started + 1] /\ Started \in Nat
  <2>1. 1 \in 1..Len(roots)
    BY <1>2, <1>4
  <2>2. d = SearchDirs[Started + 1]
    BY <1>2, <1>4, <2>1 DEF RootsInTurn
  <2>3. Started + 1 \in 1..n /\ Started \in Nat
    BY <1>2, <1>4, <1>5 DEF Started
  <2> QED
    BY <2>2, <2>3
<1>7. \A j \in 1..Started : Clear(MaxPath, SearchDirs[j])
  BY <1>1, <1>2 DEF RootsInTurn
<1> HIDE DEF d
<1>8. CASE Exists(links[d]) /\ Take(In(d))
  <2>1. FoundBelow(d)
    <3>1. d \in Reach(MaxPath, SearchDirs[Started + 1])
      BY <1>3, <1>6, ReachSelf
    <3>2. (Started + 1) - 1 = Started
      BY <1>6
    <3> QED
      BY <1>5, <1>6, <1>7, <1>8, <3>1, <3>2 DEF FoundBelow
  <2>2. In(d) \in Place /\ \A e \in Dir : In(d) = In(e) => FoundBelow(e)
    BY <1>4, <2>1, Places DEF Place
  <2> QED
    BY <1>2, <1>8, <2>2, Places, TakeKeeps
<1>9. CASE /\ ~Exists(links[d])
           /\ stack' = Append(<<>>, [dir |-> d, left |-> tree[d]])
           /\ roots' = Tail(roots)
           /\ UNCHANGED <<files, pc, load_file, table>>
  <2> DEFINE top == [dir |-> d, left |-> tree[d]]
  <2>1. top \in Frame /\ top.dir = d /\ top.left = tree[d]
    BY <1>2, <1>4 DEF Frame
  <2> HIDE DEF top
  <2>2. /\ stack' \in Seq(Frame) /\ Len(stack') = 1 /\ stack'[1] = top /\ stack' # <<>>
    <3>1. <<>> \in Seq(Frame) /\ Len(<<>>) = 0
      OBVIOUS
    <3>2. stack' = Append(<<>>, top)
      BY <1>9 DEF top
    <3> QED
      BY <2>1, <3>1, <3>2, AppendProperties
  <2>3. /\ UNCHANGED files /\ tree' = tree /\ links' = links
    BY <1>9 DEF files
  <2>4. SearchDirs' = SearchDirs /\ \A k, e : Clear(k, e)' <=> Clear(k, e)
    BY <2>3, Frozen
  <2>5. Started' = Started + 1
    BY <1>2, <1>4, <1>5, <1>9, <2>4 DEF Started
  <2>6. RootsInTurn'
    <3>1. Len(roots)' <= Len(SearchDirs)'
      BY <1>2, <1>4, <1>5, <1>9, <2>4
    <3>2. ASSUME NEW i \in 1..Len(roots)'
          PROVE  roots'[i] = SearchDirs'[Started' + i]
      <4>1. i + 1 \in 1..Len(roots) /\ i \in 1..Len(Tail(roots)) /\ i \in Nat
        BY <1>2, <1>4, <1>9
      <4>2. roots'[i] = SearchDirs[Started + (i + 1)]
        BY <1>2, <1>4, <1>9, <4>1 DEF RootsInTurn
      <4>3. Started + (i + 1) = (Started + 1) + i
        BY <1>6, <4>1
      <4> QED
        BY <2>4, <2>5, <4>2, <4>3
    <3>3. ASSUME NEW j \in 1..Started', j # Started'
          PROVE  Clear(MaxPath, SearchDirs[j])
      <4>1. j \in 1..Started
        BY <1>6, <2>5, <3>3
      <4> QED
        BY <1>7, <4>1
    <3>4. Started' # 0 /\ stack'[1].dir = SearchDirs'[Started']
      BY <1>6, <2>1, <2>2, <2>4, <2>5
    <3>5. \A j \in 1..Started' :
            Clear(MaxPath, SearchDirs[j])' \/ (j = Started' /\ stack' # <<>>)
      BY <2>2, <2>4, <3>3
    <3> QED
      BY <2>4, <3>1, <3>2, <3>4, <3>5 DEF RootsInTurn
  <2>7. \A i \in 1..Len(stack') : Searched(i)'
    <3> SUFFICES Searched(1)'
      BY <2>2
    <3>1. d \in Reach(1, d)
      BY <1>3, ReachSelf
    <3> QED
      BY <1>9, <2>1, <2>2, <2>3, <3>1, Frozen DEF Searched
  <2>8. \A i \in 1..Len(stack') : stack'[i].left \subseteq tree[stack'[i].dir]
    BY <2>1, <2>2
  <2> QED
    BY <1>1, <1>3, <1>4, <1>9, <2>2, <2>6, <2>7, <2>8, SearchGoesOn
<1>10. OpensDir
  BY <1>1, <1>3 DEF OpensDir
<1> QED
  BY <1>8, <1>9, <1>10 DEF SearchRoot, Search, d

\* An open directory of which an entry is read.
LEMMA LeftFrames ==
  ASSUME stack \in Seq(Frame), stack # <<>>, NEW es \in SUBSET Dir
  PROVE  /\ Left(es) \in Seq(Frame) /\ Left(es) # <<>> /\ Len(Left(es)) = Len(stack)
         /\ \A i \in 1..Len(stack) :
              /\ Left(es)[i].dir = stack[i].dir
              /\ Left(es)[i].left = IF i = Len(stack) THEN es ELSE stack[i].left
<1>1. Len(stack) \in Nat /\ Len(stack) \in 1..Len(stack) /\ DOMAIN stack = 1..Len(stack)
  BY LenProperties, EmptySeq
<1>2. \A i \in 1..Len(stack) : stack[i] \in Frame
  BY ElementOfSeq
<1>3. Left(es) = [i \in 1..Len(stack) |->
                    IF i = Len(stack) THEN [stack[i] EXCEPT !.left = es] ELSE stack[i]]
  BY <1>1 DEF Left
<1>4. ASSUME NEW i \in 1..Len(stack)
      PROVE  /\ Left(es)[i] \in Frame
             /\ Left(es)[i].dir = stack[i].dir
             /\ Left(es)[i].left = IF i = Len(stack) THEN es ELSE stack[i].left
  BY <1>2, <1>3 DEF Frame
<1>5. Left(es) \in [1..Len(stack) -> Frame]
  BY <1>3, <1>4
<1>6. Left(es) \in Seq(Frame)
  BY <1>1, <1>5, SeqDef
<1>7. DOMAIN Left(es) = 1..Len(stack)
  BY <1>5
<1>8. Len(Left(es)) = Len(stack)
  BY <1>1, <1>6, <1>7, LenProperties
<1> QED
  BY <1>1, <1>4, <1>6, <1>8, EmptySeq

\* What is known when the directory on top of the open ones is read.
LEMMA TopOpen ==
  ASSUME SearchInv, Reading
  PROVE  /\ pc = "search" /\ Len(stack) \in Nat /\ Len(stack) \in 1..Len(stack)
         /\ Len(stack) \in 1..MaxPath /\ MaxPath \in Nat
         /\ Top = stack[Len(stack)]
         /\ Started # 0 /\ Started \in 1..Len(SearchDirs)
         /\ DOMAIN SearchDirs = 1..Len(SearchDirs)
         /\ stack[1].dir = SearchDirs[Started]
         /\ \A j \in 1..(Started - 1) : Clear(MaxPath, SearchDirs[j])
<1>1. pc = "search" /\ stack # <<>>
  BY DEF Reading
<1>2. /\ Len(stack) \in Nat /\ Len(stack) <= MaxPath /\ stack \in Seq(Frame)
      /\ Len(roots) \in Nat /\ RootsInTurn
  BY <1>1, Searching
<1>3. Len(stack) # 0
  BY <1>1, <1>2, EmptySeq, LenProperties
<1>4. Len(SearchDirs) \in Nat /\ DOMAIN SearchDirs = 1..Len(SearchDirs)
  BY SearchDirsType
<1>5. Started # 0 /\ stack[1].dir = SearchDirs[Started]
  BY <1>1, <1>2 DEF RootsInTurn
<1>6. Started \in 1..Len(SearchDirs)
  <2>1. Len(roots) <= Len(SearchDirs) /\ Started = Len(SearchDirs) - Len(roots)
    BY <1>2 DEF RootsInTurn, Started
  <2> QED
    BY <1>2, <1>4, <1>5, <2>1
<1>7. ASSUME NEW j \in 1..(Started - 1) PROVE Clear(MaxPath, SearchDirs[j])
  <2>1. j \in 1..Started /\ j # Started
    BY <1>6
  <2> QED
    BY <1>1, <1>2, <2>1 DEF RootsInTurn
<1> QED
  BY <1>1, <1>2, <1>3, <1>4, <1>5, <1>6, <1>7, SymbolFileAssumption DEF Top, Last

\* While a directory is open the roots are as they were.
LEMMA RootsStay ==
  ASSUME SearchInv, Reading, UNCHANGED <<files, pc>>, roots' = roots, stack' # <<>>,
         stack'[1].dir = stack[1].dir
  PROVE  RootsInTurn'
<1>1. pc = "search" /\ RootsInTurn
  BY Searching DEF Reading
<1>2. UNCHANGED files
  OBVIOUS
<1>3. SearchDirs' = SearchDirs /\ \A k, e : Clear(k, e)' <=> Clear(k, e)
  BY <1>2, Frozen
<1>4. Started' = Started
  BY <1>3 DEF Started
<1> QED
  BY <1>1, <1>3, <1>4 DEF RootsInTurn, Reading

\* A call on an entry of the directory on top.
LEMMA EntryStep ==
  ASSUME SearchInv, ReadEntry
  PROVE  SearchInv'
<1>1. Reading
  BY DEF ReadEntry
<1>2. PICK e \in Top.left : Search(e, Left(Top.left \ {e}), roots)
  BY DEF ReadEntry
<1> DEFINE L    == Len(stack)
           open == Left(Top.left \ {e})
<1>3. /\ pc = "search" /\ L \in Nat /\ L \in 1..L /\ L \in 1..MaxPath /\ MaxPath \in Nat
      /\ Top = stack[L]
      /\ Started \in 1..Len(SearchDirs) /\ DOMAIN SearchDirs = 1..Len(SearchDirs)
      /\ stack[1].dir = SearchDirs[Started]
      /\ \A j \in 1..(Started - 1) : Clear(MaxPath, SearchDirs[j])
  BY <1>1, TopOpen
<1>4. /\ Opens(own) /\ table = "none"
      /\ roots \in Seq(Dir) /\ stack \in Seq(Frame) /\ stack # <<>>
      /\ \A i \in 1..L :
           /\ stack[i].dir \in Dir /\ stack[i].left \in SUBSET Dir
           /\ stack[i].left \subseteq tree[stack[i].dir]
      /\ \A d \in Dir : tree[d] \subseteq Dir
      /\ \A i \in 1..L : Searched(i)
  BY <1>1, <1>3, Searching DEF Reading
<1>5. e \in Dir /\ e \in tree[stack[L].dir] /\ e \in stack[L].left
  BY <1>2, <1>3, <1>4
<1>6. /\ open \in Seq(Frame) /\ open # <<>> /\ Len(open) = L
      /\ \A i \in 1..L :
           /\ open[i].dir = stack[i].dir
           /\ open[i].left = IF i = L THEN stack[L].left \ {e} ELSE stack[i].left
  <2>1. Top.left \ {e} \in SUBSET Dir
    BY <1>3, <1>4
  <2> QED
    BY <1>3, <1>4, <2>1, LeftFrames
<1>7. 1 \in 1..L
  BY <1>3
<1> HIDE DEF open
<1>8. L # MaxPath => e \in Reach(L + 1, stack[1].dir)
  <2> SUFFICES ASSUME L # MaxPath PROVE e \in Reach(L + 1, stack[1].dir)
    OBVIOUS
  <2>1. stack[L].dir \in Reach(L, stack[1].dir)
    BY <1>3, <1>4 DEF Searched
  <2>2. Reach(L + 1, stack[1].dir) = Deeper(tree, Reach(L, stack[1].dir))
    BY <1>3, Levels
  <2> QED
    BY <1>5, <2>1, <2>2 DEF Deeper
<1>9. CASE OpensDir /\ Exists(links[e]) /\ Take(In(e))
  <2>1. FoundBelow(e)
    <3>1. L + 1 \in 1..MaxPath /\ L # MaxPath
      BY <1>3, <1>9 DEF OpensDir
    <3>2. e \in Reach(MaxPath, SearchDirs[Started])
      BY <1>3, <1>8, <3>1, ReachGrows, Levels
    <3> QED
      BY <1>3, <1>9, <3>2 DEF FoundBelow
  <2>2. In(e) \in Place /\ \A d \in Dir : In(e) = In(d) => FoundBelow(d)
    BY <1>5, <2>1, Places DEF Place
  <2> QED
    BY <1>4, <1>9, <2>2, Places, TakeKeeps
<1>10. CASE /\ OpensDir /\ ~Exists(links[e])
            /\ stack' = Append(open, [dir |-> e, left |-> tree[e]])
            /\ roots' = roots
            /\ UNCHANGED <<files, pc, load_file, table>>
  <2> DEFINE new == [dir |-> e, left |-> tree[e]]
  <2>1. new \in Frame /\ new.dir = e /\ new.left = tree[e]
    BY <1>4, <1>5 DEF Frame
  <2>2. stack' = Append(open, new)
    BY <1>10
  <2> HIDE DEF new
  <2>3. /\ stack' \in Seq(Frame) /\ stack' # <<>> /\ Len(stack') = L + 1
        /\ \A i \in 1..L : stack'[i] = open[i]
        /\ stack'[L + 1] = new
    BY <1>6, <2>1, <2>2, AppendProperties
  <2>4. L + 1 <= MaxPath /\ L # MaxPath /\ L + 1 \in 1..MaxPath
    BY <1>3, <1>10 DEF OpensDir
  <2>5. UNCHANGED files /\ tree' = tree /\ links' = links
    BY <1>10 DEF files
  <2>6. /\ \A k, d : Clear(k, d)' <=> Clear(k, d)
        /\ \A k, d : Reach(k, d)' = Reach(k, d)
    BY <2>5, Frozen
  <2>7. \A i \in 1..L : stack'[i].dir = stack[i].dir
    BY <1>6, <2>3
  <2>8. RootsInTurn'
    BY <1>1, <1>7, <1>10, <2>3, <2>7, RootsStay
  <2>9. ASSUME NEW i \in 1..L PROVE Searched(i)'
    <3>1. /\ ~Exists(links[stack[i].dir])
          /\ stack[i].dir \in Reach(i, stack[1].dir)
          /\ \A f \in tree[stack[i].dir] \ stack[i].left :
               Clear(MaxPath - i, f) \/ (i # L /\ f = stack[i + 1].dir)
      BY <1>4 DEF Searched
    <3>2. i # Len(stack')
      BY <1>3, <2>3
    <3>3. ASSUME NEW f \in tree[stack'[i].dir] \ stack'[i].left
          PROVE  Clear(MaxPath - i, f) \/ f = stack'[i + 1].dir
      <4>1. CASE i = L
        <5>1. f = e \/ f \in tree[stack[i].dir] \ stack[i].left
          BY <1>6, <2>3, <3>3, <4>1
        <5>2. stack'[i + 1].dir = e
          BY <2>1, <2>3, <4>1
        <5> QED
          BY <3>1, <4>1, <5>1, <5>2
      <4>2. CASE i # L
        <5>1. f \in tree[stack[i].dir] \ stack[i].left
          BY <1>6, <2>3, <3>3, <4>2
        <5>2. i + 1 \in 1..L
          BY <1>3, <4>2
        <5> QED
          BY <2>7, <3>1, <5>1, <5>2
      <4> QED
        BY <4>1, <4>2
    <3>4. stack'[i].dir = stack[i].dir /\ stack'[1].dir = stack[1].dir
      BY <1>7, <2>7
    <3> QED
      BY <2>5, <2>6, <3>1, <3>2, <3>3, <3>4 DEF Searched
  <2>10. ASSUME NEW i, i = L + 1 PROVE Searched(i)'
    <3>1. stack'[i].dir \in Reach(i, stack'[1].dir)
      BY <1>7, <1>8, <2>1, <2>3, <2>4, <2>7, <2>10
    <3>2. ~Exists(links'[stack'[i].dir])
      BY <1>10, <2>1, <2>3, <2>5, <2>10
    <3>3. tree'[stack'[i].dir] \ stack'[i].left = {}
      BY <2>1, <2>3, <2>5, <2>10
    <3>4. (stack[i].dir \in Reach(i, stack[1].dir))'
      BY <2>6, <3>1
    <3> QED
      BY <3>2, <3>3, <3>4 DEF Searched, Exists
  <2>11. ASSUME NEW i \in 1..Len(stack') PROVE i \in 1..L \/ i = L + 1
    BY <1>3, <2>3
  <2>12. ASSUME NEW i \in 1..Len(stack') PROVE Searched(i)'
    <3>1. CASE i \in 1..L
      BY <2>9, <3>1
    <3>2. CASE i = L + 1
      BY <2>10, <3>2
    <3> QED
      BY <2>11, <3>1, <3>2
  <2>13. ASSUME NEW i \in 1..Len(stack')
         PROVE  stack'[i].left \subseteq tree[stack'[i].dir]
    <3>1. CASE i \in 1..L
      BY <1>4, <1>6, <2>3, <3>1
    <3>2. CASE i = L + 1
      BY <2>1, <2>3, <3>2
    <3> QED
      BY <2>11, <3>1, <3>2
  <2> QED
    BY <1>3, <1>4, <1>10, <2>3, <2>4, <2>8, <2>12, <2>13, SearchGoesOn
<1>11. CASE ~OpensDir /\ stack' = open /\ roots' = roots
            /\ UNCHANGED <<files, pc, load_file, table>>
  <2>1. L = MaxPath
    BY <1>3, <1>11 DEF OpensDir
  <2>2. UNCHANGED files /\ tree' = tree /\ links' = links
    BY <1>11 DEF files
  <2>3. /\ \A k, d : Clear(k, d)' <=> Clear(k, d)
        /\ \A k, d : Reach(k, d)' = Reach(k, d)
    BY <2>2, Frozen
  <2>4. RootsInTurn'
    BY <1>1, <1>6, <1>7, <1>11, RootsStay
  <2>5. ASSUME NEW i \in 1..L PROVE Searched(i)'
    <3>1. /\ ~Exists(links[stack[i].dir])
          /\ stack[i].dir \in Reach(i, stack[1].dir)
          /\ \A f \in tree[stack[i].dir] \ stack[i].left :
               Clear(MaxPath - i, f) \/ (i # L /\ f = stack[i + 1].dir)
      BY <1>4 DEF Searched
    <3>2. ASSUME NEW f \in tree[stack[i].dir] \ open[i].left
          PROVE  Clear(MaxPath - i, f) \/ (i # L /\ f = open[i + 1].dir)
      <4>1. CASE i = L
        <5>1. MaxPath - i = 0
          BY <1>3, <2>1, <4>1
        <5> QED
          BY <5>1 DEF Clear
      <4>2. CASE i # L
        <5>1. f \in tree[stack[i].dir] \ stack[i].left
          BY <1>6, <3>2, <4>2
        <5>2. i + 1 \in 1..L
          BY <1>3, <4>2
        <5> QED
          BY <1>6, <3>1, <4>2, <5>1, <5>2
      <4> QED
        BY <4>1, <4>2
    <3>3. open[i].dir = stack[i].dir /\ open[1].dir = stack[1].dir
      BY <1>6, <1>7
    <3> QED
      BY <1>6, <1>11, <2>2, <2>3, <3>1, <3>2, <3>3 DEF Searched
  <2>6. \A i \in 1..Len(stack') : stack'[i].left \subseteq tree[stack'[i].dir]
    BY <1>4, <1>6, <1>11
  <2>7. Len(stack') <= MaxPath /\ \A i \in 1..Len(stack') : Searched(i)'
    BY <1>3, <1>6, <1>11, <2>1, <2>5
  <2> QED
    BY <1>3, <1>4, <1>6, <1>11, <2>4, <2>6, <2>7, SearchGoesOn
<1> QED
  BY <1>2, <1>9, <1>10, <1>11 DEF Search, open

\* A directory that is read to its end is closed: nothing is below it.
LEMMA CloseStep ==
  ASSUME SearchInv, CloseDir
  PROVE  SearchInv'
<1>1. Reading /\ Top.left = {}
  BY DEF CloseDir
<1>2. /\ UNCHANGED <<files, pc, load_file, table>> /\ roots' = roots
      /\ stack' = SubSeq(stack, 1, Len(stack) - 1)
  BY DEF CloseDir, Front
<1> DEFINE L == Len(stack)
<1>3. /\ pc = "search" /\ L \in Nat /\ L \in 1..L /\ L \in 1..MaxPath /\ MaxPath \in Nat
      /\ Top = stack[L]
      /\ Started \in 1..Len(SearchDirs)
      /\ stack[1].dir = SearchDirs[Started]
      /\ \A j \in 1..(Started - 1) : Clear(MaxPath, SearchDirs[j])
  BY <1>1, TopOpen
<1>4. /\ roots \in Seq(Dir) /\ stack \in Seq(Frame) /\ RootsInTurn
      /\ \A i \in 1..L :
           /\ stack[i].dir \in Dir /\ stack[i].left \in SUBSET Dir
           /\ stack[i].left \subseteq tree[stack[i].dir]
      /\ \A i \in 1..L : Searched(i)
  BY <1>3, Searching
<1>5. \A i \in 1..L : stack[i] \in Frame
  BY <1>4, ElementOfSeq
<1>6. /\ stack' \in Seq(Frame) /\ Len(stack') = L - 1
      /\ \A i \in 1..(L - 1) : stack'[i] = stack[i]
  <2>1. 1 \in Int /\ L - 1 \in Int /\ \A i \in 1..(L - 1) : stack[i] \in Frame
    BY <1>3, <1>5
  <2>2. /\ SubSeq(stack, 1, L - 1) \in Seq(Frame)
        /\ Len(SubSeq(stack, 1, L - 1)) = IF 1 <= L - 1 THEN (L - 1) - 1 + 1 ELSE 0
        /\ \A i \in 1..((L - 1) - 1 + 1) : SubSeq(stack, 1, L - 1)[i] = stack[1 + i - 1]
    BY <2>1, SubSeqProperties
  <2>3. Len(SubSeq(stack, 1, L - 1)) = L - 1
    <3>1. CASE L = 1
      BY <2>2, <3>1
    <3>2. CASE L # 1
      <4>1. 1 <= L - 1 /\ (L - 1) - 1 + 1 = L - 1
        BY <1>3, <3>2
      <4> QED
        BY <2>2, <4>1
    <3> QED
      BY <3>1, <3>2
  <2>4. ASSUME NEW i \in 1..(L - 1) PROVE SubSeq(stack, 1, L - 1)[i] = stack[i]
    <3>1. i \in 1..((L - 1) - 1 + 1) /\ 1 + i - 1 = i
      BY <1>3
    <3> QED
      BY <2>2, <3>1
  <2> QED
    BY <1>2, <2>2, <2>3, <2>4
<1>7. UNCHANGED files /\ tree' = tree /\ links' = links
  BY <1>2 DEF files
<1>8. /\ SearchDirs' = SearchDirs
      /\ \A k, d : Clear(k, d)' <=> Clear(k, d)
      /\ \A k, d : Reach(k, d)' = Reach(k, d)
  BY <1>7, Frozen
<1>9. Clear(MaxPath - (L - 1), stack[L].dir)
  <2>1. /\ ~Exists(links[stack[L].dir])
        /\ \A e \in tree[stack[L].dir] : Clear(MaxPath - L, e)
    BY <1>1, <1>3, <1>4 DEF Searched
  <2>2. /\ MaxPath - (L - 1) \in 1..MaxPath
        /\ (MaxPath - (L - 1)) - 1 = MaxPath - L
    BY <1>3
  <2> QED
    BY <2>1, <2>2, ClearUnrolled
<1>10. RootsInTurn'
  <2>1. CASE L = 1
    <3>1. Clear(MaxPath, SearchDirs[Started])
      BY <1>3, <1>9, <2>1
    <3>2. ASSUME NEW j \in 1..Started PROVE Clear(MaxPath, SearchDirs[j])
      <4>1. j = Started \/ j \in 1..(Started - 1)
        BY <1>3
      <4> QED
        BY <1>3, <3>1, <4>1
    <3>3. stack' = <<>>
      BY <1>6, <2>1, EmptySeq
    <3>4. Started' = Started
      BY <1>2, <1>8 DEF Started
    <3> QED
      BY <1>2, <1>4, <1>8, <3>2, <3>3, <3>4 DEF RootsInTurn
  <2>2. CASE L # 1
    <3>1. stack' # <<>> /\ stack'[1] = stack[1]
      BY <1>3, <1>6, <2>2, EmptySeq
    <3> QED
      BY <1>1, <1>2, <3>1, RootsStay
  <2> QED
    BY <2>1, <2>2
<1>11. ASSUME NEW i \in 1..(L - 1) PROVE Searched(i)'
  <2>1. i \in 1..L /\ i # L /\ i + 1 \in 1..L /\ 1 \in 1..(L - 1)
    BY <1>3
  <2>2. /\ ~Exists(links[stack[i].dir])
        /\ stack[i].dir \in Reach(i, stack[1].dir)
        /\ \A f \in tree[stack[i].dir] \ stack[i].left :
             Clear(MaxPath - i, f) \/ f = stack[i + 1].dir
    BY <1>4, <2>1 DEF Searched
  <2>3. stack'[i] = stack[i] /\ stack'[1] = stack[1]
    BY <1>6, <2>1
  <2>4. ASSUME NEW f \in tree[stack[i].dir] \ stack[i].left
        PROVE  Clear(MaxPath - i, f) \/ (i # L - 1 /\ f = stack'[i + 1].dir)
    <3>1. CASE i = L - 1
      <4>1. i + 1 = L
        BY <1>3, <3>1
      <4> QED
        BY <1>9, <2>2, <2>4, <3>1, <4>1
    <3>2. CASE i # L - 1
      <4>1. i + 1 \in 1..(L - 1)
        BY <1>3, <3>2
      <4> QED
        BY <1>6, <2>2, <2>4, <3>2, <4>1
    <3> QED
      BY <3>1, <3>2
  <2> QED
    BY <1>6, <1>7, <1>8, <2>2, <2>3, <2>4 DEF Searched
<1>12. \A i \in 1..Len(stack') : stack'[i].left \subseteq tree[stack'[i].dir]
  <2>1. \A i \in 1..(L - 1) : i \in 1..L
    BY <1>3
  <2> QED
    BY <1>4, <1>6, <2>1
<1>13. Len(stack') <= MaxPath
  BY <1>3, <1>6
<1> QED
  BY <1>2, <1>3, <1>4, <1>6, <1>10, <1>11, <1>12, <1>13, SearchGoesOn

\* Everywhere was searched in vain.
LEMMA NotFoundStep ==
  ASSUME SearchInv, NotFound
  PROVE  SearchInv'
<1>1. pc = "search" /\ stack = <<>> /\ roots = <<>> /\ Go("failed")
  BY DEF NotFound
<1>2. Opens(own) /\ OwnStripped /\ JoinedHasNone /\ IdsMissing /\ RootsInTurn
  BY <1>1, Searching
<1>3. Len(SearchDirs) \in Nat /\ DOMAIN SearchDirs = 1..Len(SearchDirs)
  BY SearchDirsType
<1>4. Started = Len(SearchDirs)
  BY <1>1, <1>3 DEF Started
<1>5. \A i \in DOMAIN SearchDirs : Clear(MaxPath, SearchDirs[i])
  BY <1>1, <1>2, <1>3, <1>4 DEF RootsInTurn
<1> QED
  BY <1>1, <1>2, <1>5, GoKeeps

\* The chosen file is opened and its symbols are loaded.
LEMMA LoadStep ==
  ASSUME SearchInv, Reopen \/ LoadSymbols
  PROVE  SearchInv'
<1>1. pc \in {"reopen", "load"} /\ UNCHANGED files
  BY DEF Reopen, LoadSymbols, Go
<1>2. roots = <<>> /\ stack = <<>> /\ Opens(own) /\ load_file # NoPlace /\ table = "none"
  BY <1>1 DEF SearchInv, SearchTypeOK, TypeOK, Tried, Chosen
<1>3. load_file \in Place /\ FilesOK
  BY <1>2 DEF SearchInv, SearchTypeOK, TypeOK
<1>4. /\ roots' = <<>> /\ stack' = <<>> /\ load_file' = load_file
      /\ pc' \in {"load", "failed", "done"}
      /\ table' \in {"none", "dynamic", "static"}
      /\ table' # "none" => pc' = "done"
  BY <1>2 DEF Reopen, LoadSymbols, Go
<1>5. own' = own
  BY <1>1 DEF files
<1>6. /\ ContentOf(load_file)' = ContentOf(load_file)
      /\ \A d : FoundBelow(d)' <=> FoundBelow(d)
      /\ JoinedTaken(load_file)' <=> JoinedTaken(load_file)
  <2>1. ContentOf(load_file)' = ContentOf(load_file)
    BY <1>4, <1>1 DEF ContentOf, files
  <2>2. Joined' = Joined
    BY <1>1, Frozen
  <2> QED
    BY <1>1, <1>4, <2>1, <2>2, Frozen DEF JoinedTaken
<1>7. RootsInTurn' /\ (\A i \in 1..Len(stack) : Searched(i))'
  BY <1>1, <1>4, Settles
<1>8. SearchTypeOK'
  <2>1. FilesOK'
    BY <1>1, <1>3, Frozen
  <2>2. TypeOK'
    BY <1>3, <1>4, SymbolFileAssumption DEF TypeOK, Place
  <2> QED
    BY <1>4, <2>1, <2>2 DEF SearchTypeOK
<1>9. Tried'
  BY <1>2, <1>4, <1>5 DEF Tried
<1>10. /\ load_file = Own => own = "symbols"
       /\ load_file \in {Binary, Beside} => JoinedTaken(load_file)
       /\ \A d \in Dir : load_file = In(d) => FoundBelow(d)
  BY DEF SearchInv, Chosen
<1>11. CASE Reopen
  <2>1. pc = "reopen" /\ load_file # Own
    BY <1>11 DEF Reopen, SearchInv, Chosen
  <2>2. CASE Opens(ContentOf(load_file))
    <3>1. pc' = "load"
      BY <1>11, <2>2 DEF Reopen, Go
    <3>2. Opens(ContentOf(load_file))'
      BY <1>6, <2>2 DEF Opens
    <3>3. Chosen'
      BY <1>2, <1>4, <1>5, <1>6, <1>10, <3>1, <3>2 DEF Chosen
    <3>4. GivenUp'
      BY <3>1 DEF GivenUp
    <3> QED
      BY <1>7, <1>8, <1>9, <3>3, <3>4 DEF SearchInv
  <2>3. CASE ~Opens(ContentOf(load_file))
    <3>1. pc' = "failed"
      BY <1>11, <2>3 DEF Reopen, Go
    <3>2. ~Opens(ContentOf(load_file))'
      BY <1>6, <2>3 DEF Opens
    <3>3. Chosen'
      BY <1>2, <1>4, <1>5, <1>6, <1>10, <3>1 DEF Chosen
    <3>4. load_file' # NoPlace
      BY <1>2, <1>4
    <3>5. GivenUp'
      BY <3>2, <3>4, Places DEF GivenUp, NoPlace
    <3> QED
      BY <1>7, <1>8, <1>9, <3>3, <3>5 DEF SearchInv
  <2> QED
    BY <2>2, <2>3
<1>12. CASE LoadSymbols
  <2>1. /\ pc = "load" /\ pc' = "done"
        /\ table' = IF ContentOf(load_file) = "symbols" THEN "static" ELSE "dynamic"
    BY <1>12 DEF LoadSymbols
  <2>2. Opens(ContentOf(load_file))'
    BY <1>6, <2>1 DEF SearchInv, Chosen, Opens
  <2>3. Chosen'
    BY <1>2, <1>4, <1>5, <1>6, <1>10, <2>1, <2>2 DEF Chosen
  <2>4. GivenUp'
    BY <2>1 DEF GivenUp
  <2> QED
    BY <1>7, <1>8, <1>9, <2>3, <2>4 DEF SearchInv
<1> QED
  BY <1>11, <1>12

\* Nothing happens.
LEMMA SearchStutters ==
  ASSUME SearchInv, UNCHANGED vars
  PROVE  SearchInv'
<1>1. /\ UNCHANGED files /\ pc' = pc /\ roots' = roots /\ stack' = stack
      /\ load_file' = load_file /\ table' = table
  BY DEF vars
<1>2. /\ own' = own /\ binary' = binary /\ beside' = beside /\ ids' = ids
      /\ links' = links /\ tree' = tree /\ has_link' = has_link
      /\ binary_path' = binary_path
      /\ symbol_path' = symbol_path /\ search_symbols' = search_symbols
  BY <1>1 DEF files
<1>3. SearchTypeOK'
  BY <1>1, <1>2 DEF SearchInv, SearchTypeOK, TypeOK, FilesOK
<1>4. Tried'
  BY <1>1, <1>2, Frozen DEF SearchInv, Tried
<1>5. Chosen'
  <2>1. /\ Opens(ContentOf(load_file))' <=> Opens(ContentOf(load_file))
        /\ ContentOf(load_file)' = ContentOf(load_file)
    BY <1>1, <1>2 DEF ContentOf, Opens
  <2>2. JoinedTaken(load_file)' <=> JoinedTaken(load_file)
    BY <1>1, <1>2, <2>1, Frozen DEF JoinedTaken
  <2> QED
    BY <1>1, <1>2, <2>1, <2>2, Frozen DEF SearchInv, Chosen
<1>6. GivenUp'
  <2>1. Opens(ContentOf(load_file))' <=> Opens(ContentOf(load_file))
    BY <1>1, <1>2 DEF ContentOf, Opens
  <2>2. Opens(own)' <=> Opens(own)
    BY <1>2 DEF Opens
  <2> QED
    BY <1>1, <1>2, <2>1, <2>2, Frozen DEF SearchInv, GivenUp
<1>7. Started' = Started
  BY <1>1, Frozen DEF Started
<1>8. RootsInTurn'
  BY <1>1, <1>7, Frozen DEF SearchInv, RootsInTurn
<1>9. ASSUME NEW i \in 1..Len(stack') PROVE Searched(i)'
  <2>1. Searched(i)
    BY <1>1 DEF SearchInv
  <2> QED
    BY <1>1, <1>2, <2>1, Frozen DEF Searched
<1> QED
  BY <1>3, <1>4, <1>5, <1>6, <1>8, <1>9 DEF SearchInv

LEMMA SearchInvariant == Spec => []SearchInv
<1>1. SearchInv /\ [Next]_vars => SearchInv'
  <2> SUFFICES ASSUME SearchInv, [Next]_vars PROVE SearchInv'
    OBVIOUS
  <2> QED
    BY PlacesStep, LinkStep, RootStep, EntryStep, CloseStep, NotFoundStep, LoadStep,
       SearchStutters DEF Next
<1> QED
  BY SearchInit, <1>1, PTL DEF Spec

-----------------------------------------------------------------------------
(* Theorems.                                                               *)

\* Every variable of SymbolFile keeps its type: no more than MaxPath
\* directories are ever open, whatever loops the links make.
THEOREM SearchTypeCorrect == Spec => []TypeOK
<1>1. SearchInv => TypeOK
  BY DEF SearchInv, SearchTypeOK
<1> QED
  BY <1>1, SearchInvariant, PTL

\* A directory is clear to the full depth when it has no file that is linked.
LEMMA ClearIsNoLink == \A d : Clear(MaxPath, d) <=> ~HasLink(d)
<1>1. MaxPath # 0
  BY SymbolFileAssumption
<1> QED
  BY <1>1, Levels DEF Clear, HasLink

\* The search of the directories takes a file that is there, below the first
\* directory of search_dirs that has one, and gives up only if none has:
\* for every tree, and every depth at which opendir stops.
THEOREM ExactSearch == Spec => []SearchIsExact
<1>1. ASSUME SearchInv PROVE SearchIsExact
  <2>1. ASSUME NEW d \in Dir, load_file = In(d)
        PROVE  \E i \in DOMAIN SearchDirs :
                 /\ d \in Within(SearchDirs[i]) /\ Exists(links[d])
                 /\ \A j \in 1..(i - 1) : ~HasLink(SearchDirs[j])
    <3>1. FoundBelow(d)
      BY <1>1, <2>1 DEF SearchInv, Chosen
    <3> QED
      BY <3>1, Levels, ClearIsNoLink DEF FoundBelow
  <2>2. ASSUME pc = "failed", own = "stripped", load_file = NoPlace, has_link
        PROVE  \A i \in DOMAIN SearchDirs : ~HasLink(SearchDirs[i])
    <3>1. \A i \in DOMAIN SearchDirs : Clear(MaxPath, SearchDirs[i])
      BY <1>1, <2>2 DEF SearchInv, GivenUp, Opens
    <3> QED
      BY <3>1, ClearIsNoLink
  <2> QED
    BY <2>1, <2>2 DEF SearchIsExact
<1> QED
  BY <1>1, SearchInvariant, PTL

\* Symbols that one of the places has are missed only where the mapped file
\* cannot be opened, where what --binary-path is joined to was taken and cannot
\* be opened, where a file that was taken because it exists has none, or where
\* only the directory of --binary-path has them and a slash is missing.
THEOREM SymbolsOnlyHidden == Spec => []LosesSymbolsOnlyHidden
<1>1. ASSUME SearchInv, SymbolsLost, Opens(own),
             ~(load_file = Joined /\ ~Opens(ContentOf(Joined))),
             ~(/\ load_file \notin {NoPlace, Own, Binary, Beside}
               /\ ContentOf(load_file) # "symbols")
      PROVE  /\ load_file = NoPlace /\ binary_path = "without slash"
             /\ \A p \in Offered : ContentOf(p) = "symbols" => p = Binary
  <2>1. table # "static" /\ pc \in {"done", "failed"} /\ FilesOK
    BY <1>1 DEF SymbolsLost, Ended, SearchInv, SearchTypeOK
  <2>2. /\ load_file = Own => own = "symbols"
        /\ load_file \in {Binary, Beside} => JoinedTaken(load_file)
    BY <1>1 DEF SearchInv, Chosen
  <2>3. load_file \in {Binary, Beside} => ContentOf(load_file) = "symbols"
    BY <1>1, <2>2 DEF JoinedTaken, Opens, Stripped
  <2>4. load_file # NoPlace => ContentOf(load_file) = "symbols"
    BY <1>1, <2>2, <2>3, Contents
  <2>5. load_file = NoPlace /\ pc = "failed"
    <3>1. pc = "done" => load_file # NoPlace /\ ContentOf(load_file) # "symbols"
      BY <1>1, <2>1 DEF SearchInv, Chosen
    <3>2. pc = "failed"
      BY <2>1, <2>4, <3>1
    <3>3. load_file # NoPlace => ~Opens(ContentOf(load_file))
      BY <1>1, <3>2 DEF SearchInv, GivenUp
    <3> QED
      BY <2>4, <3>2, <3>3 DEF Opens
  <2>6. /\ OwnStripped /\ JoinedHasNone /\ IdsMissing
        /\ has_link => \A i \in DOMAIN SearchDirs : Clear(MaxPath, SearchDirs[i])
    BY <1>1, <2>5 DEF SearchInv, GivenUp
  <2>7. ASSUME NEW p \in Offered, ContentOf(p) = "symbols"
        PROVE  p = Binary /\ binary_path # "not given"
    <3> SUFFICES ASSUME ~(p = Binary /\ binary_path # "not given") PROVE FALSE
      OBVIOUS
    <3>1. p # Own
      BY <2>6, <2>7, Contents DEF OwnStripped
    <3>2. \A k \in 1..IdPlaces : p # Id(k)
      BY <2>6, <2>7, Contents DEF IdsMissing
    <3>3. PICK i \in DOMAIN SearchDirs :
            \E d \in Within(SearchDirs[i]) : has_link /\ p = In(d)
      BY <3>1, <3>2 DEF Offered
    <3>4. PICK d \in Within(SearchDirs[i]) : has_link /\ p = In(d)
      BY <3>3
    <3>5. Exists(links[d])
      BY <2>7, <3>4, Contents DEF Exists
    <3>6. ~HasLink(SearchDirs[i])
      BY <2>6, <3>4, ClearIsNoLink
    <3> QED
      BY <3>5, <3>6 DEF HasLink
  <2>8. PICK p \in Offered : ContentOf(p) = "symbols"
    BY <1>1 DEF SymbolsLost
  <2>9. p = Binary /\ binary_path # "not given"
    BY <2>7, <2>8
  <2>10. Joined # Binary
    BY <2>6, <2>8, <2>9 DEF JoinedHasNone, Stripped
  <2>11. binary_path = "without slash"
    BY <1>1, <2>9, <2>10 DEF Joined, SearchInv, SearchTypeOK, FilesOK, BinaryPath
  <2> QED
    BY <2>5, <2>7, <2>11
<1>2. SearchInv => LosesSymbolsOnlyHidden
  BY <1>1 DEF LosesSymbolsOnlyHidden
<1> QED
  BY <1>2, SearchInvariant, PTL
=============================================================================
