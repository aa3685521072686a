---------------------------- MODULE OutputProofs -----------------------------
(***************************************************************************)
(* The ways of a capture to the report, for captures of any number of      *)
(* threads and stacks of any depth: through the cells of the segment, and  *)
(* through a file of stacks.  Both sides of the segment compute, without   *)
(* looking at its size, where the next stack begins; that they come to the *)
(* same places is what HandedOver rests on.                                *)
(***************************************************************************)
EXTENDS ReportProofs, SequenceTheorems

-----------------------------------------------------------------------------
(* Running sums: where one thing ends and the next begins.                 *)

IsSum(r, base, step, N) ==
  r = [n \in 0..N |-> IF n = 0 THEN base ELSE r[n - 1] + step[n]]

\* There is a running sum of anything.
LEMMA SumExists ==
  ASSUME NEW base, NEW step, NEW N \in Nat
  PROVE  \E r : IsSum(r, base, step, N)
<1> DEFINE Bad == {n \in Nat : ~ \E r : IsSum(r, base, step, n)}
<1> SUFFICES Bad = {}
  OBVIOUS
<1> SUFFICES ASSUME Bad # {} PROVE FALSE
  OBVIOUS
<1>1. PICK n \in Bad : \A m \in Bad : n <= m
  <2>1. Bad \in SUBSET Nat
    OBVIOUS
  <2> HIDE DEF Bad
  <2> QED
    BY <2>1, LeastNat
<1>2. n \in Nat /\ ~ \E r : IsSum(r, base, step, n)
  OBVIOUS
<1>3. n # 0
  <2> DEFINE z == [m \in 0..0 |-> base]
  <2>1. \A m \in 0..0 : m = 0
    OBVIOUS
  <2>2. IsSum(z, base, step, 0)
    BY <2>1 DEF IsSum
  <2> QED
    BY <1>2, <2>2
<1>4. n - 1 \in Nat /\ ~(n <= n - 1)
  BY <1>2, <1>3
<1>5. PICK r : IsSum(r, base, step, n - 1)
  BY <1>1, <1>4
<1> DEFINE sum(f, m) == IF m = 0 THEN base ELSE f[m - 1] + step[m]
           u == [m \in 0..n |-> sum(r, m)]
<1>6. \A m \in 0..(n - 1) : u[m] = r[m]
  <2>1. \A m \in 0..(n - 1) : r[m] = sum(r, m)
    BY <1>5 DEF IsSum
  <2>2. \A m \in 0..(n - 1) : m \in 0..n
    BY <1>2
  <2> HIDE DEF sum
  <2> QED
    BY <2>1, <2>2
<1>7. \A m \in 0..n : sum(r, m) = sum(u, m)
  <2> TAKE m \in 0..n
  <2>1. CASE m = 0
    BY <2>1
  <2>2. CASE m # 0
    <3>1. m - 1 \in 0..(n - 1)
      BY <1>2, <2>2
    <3>2. u[m - 1] = r[m - 1]
      BY <1>6, <3>1
    <3> HIDE DEF u
    <3> QED
      BY <2>2, <3>2
  <2> QED
    BY <2>1, <2>2
<1>8. u = [m \in 0..n |-> sum(u, m)]
  <2>1. u = [m \in 0..n |-> sum(r, m)]
    OBVIOUS
  <2> HIDE DEF u, sum
  <2> QED
    BY <1>7, <2>1
<1>9. IsSum(u, base, step, n)
  <2> HIDE DEF u
  <2> QED
    BY <1>8 DEF IsSum
<1> QED
  BY <1>2, <1>9

\* A running sum of natural numbers grows.
LEMMA SumGrows ==
  ASSUME NEW N \in Nat, NEW base \in Nat, NEW step \in [1..N -> Nat], NEW r,
         IsSum(r, base, step, N)
  PROVE  /\ r[0] = base
         /\ \A n \in 1..N : r[n] = r[n - 1] + step[n]
         /\ \A n \in 0..N : r[n] \in Nat
         /\ \A m \in 0..N : \A n \in 0..m : r[n] <= r[m]
<1>1. r[0] = base /\ \A n \in 1..N : r[n] = r[n - 1] + step[n]
  <2>1. \A n \in 0..N : r[n] = IF n = 0 THEN base ELSE r[n - 1] + step[n]
    BY DEF IsSum
  <2>2. 0 \in 0..N /\ \A n \in 1..N : n \in 0..N /\ n # 0
    OBVIOUS
  <2> QED
    BY <2>1, <2>2
<1>2. \A n \in 0..N : r[n] \in Nat
  <2> DEFINE Bad == {n \in 0..N : r[n] \notin Nat}
  <2> SUFFICES ASSUME Bad # {} PROVE FALSE
    OBVIOUS
  <2>1. PICK n \in Bad : \A m \in Bad : n <= m
    <3>1. Bad \in SUBSET Nat
      OBVIOUS
    <3> HIDE DEF Bad
    <3> QED
      BY <3>1, LeastNat
  <2>2. n # 0 /\ n \in 1..N
    BY <1>1
  <2>3. n - 1 \in 0..N /\ ~(n <= n - 1)
    BY <2>2
  <2>4. r[n - 1] \in Nat
    BY <2>1, <2>3
  <2>5. step[n] \in Nat
    BY <2>2
  <2> QED
    BY <1>1, <2>2, <2>4, <2>5
<1>3. ASSUME NEW m \in 0..N, NEW n \in 0..m PROVE r[n] <= r[m]
  <2> DEFINE Bad == {k \in 0..m : ~(r[m - k] <= r[m])}
  <2>1. Bad = {}
    <3> SUFFICES ASSUME Bad # {} PROVE FALSE
      OBVIOUS
    <3>1. PICK k \in Bad : \A l \in Bad : k <= l
      <4>1. Bad \in SUBSET Nat
        OBVIOUS
      <4> HIDE DEF Bad
      <4> QED
        BY <4>1, LeastNat
    <3>2. k \in 0..m /\ ~(r[m - k] <= r[m])
      OBVIOUS
    <3>3. r[m] \in Nat /\ m - 0 = m
      BY <1>2
    <3>4. k # 0
      BY <3>2, <3>3
    <3>5. /\ k - 1 \in 0..m /\ ~(k <= k - 1)
          /\ m - (k - 1) \in 1..N /\ (m - (k - 1)) - 1 = m - k
          /\ m - k \in 0..N /\ m - (k - 1) \in 0..N
      BY <3>2, <3>4
    <3>6. r[m - (k - 1)] <= r[m]
      BY <3>1, <3>5
    <3>7. r[m - (k - 1)] = r[m - k] + step[m - (k - 1)]
      BY <1>1, <3>5
    <3>8. /\ r[m - (k - 1)] \in Nat /\ r[m - k] \in Nat
          /\ step[m - (k - 1)] \in Nat
      BY <1>2, <3>5
    <3> QED
      BY <3>2, <3>3, <3>6, <3>7, <3>8
  <2>2. m - n \in 0..m /\ m - (m - n) = n
    OBVIOUS
  <2>3. m - n \notin Bad
    BY <2>1
  <2> HIDE DEF Bad
  <2> QED
    BY <2>2, <2>3 DEF Bad
<1> QED
  BY <1>1, <1>2, <1>3

\* Sequences that are given element by element grow at their end.
LEMMA AppendNext ==
  ASSUME NEW n \in Nat, NEW f
  PROVE  Append([j \in 1..n |-> f[j]], f[n + 1]) = [j \in 1..(n + 1) |-> f[j]]
<1> DEFINE S == {f[j] : j \in 1..n}
           s == [j \in 1..n |-> f[j]]
           t == Append(s, f[n + 1])
<1>1. \A j \in 1..n : f[j] \in S
  OBVIOUS
<1>2. s \in Seq(S) /\ Len(s) = n /\ \A j \in 1..n : s[j] = f[j]
  <2> HIDE DEF S
  <2>1. s \in [1..n -> S]
    BY <1>1
  <2> QED
    BY <2>1, SeqDef
<1> HIDE DEF S, s
<1>3. /\ t \in Seq(S \cup {f[n + 1]})
      /\ DOMAIN t = 1..(n + 1)
      /\ \A j \in 1..n : t[j] = f[j]
      /\ t[n + 1] = f[n + 1]
  BY <1>2, AppendAny
<1>4. t = [j \in 1..(n + 1) |-> t[j]]
  <2> HIDE DEF t
  <2> QED
    BY <1>3, LenProperties
<1>5. \A j \in 1..(n + 1) : j \in 1..n \/ j = n + 1
  OBVIOUS
<1>6. \A j \in 1..(n + 1) : t[j] = f[j]
  BY <1>3, <1>5
<1> QED
  BY <1>4, <1>6 DEF s

-----------------------------------------------------------------------------
(* The segment.                                                            *)

\* A thread of a capture; no stack is without frames.
Stack == [tid : Nat, frames : Seq(Addr) \ {<<>>}, name : Name]

\* The offsets behind the count and behind each stack.
Ends(stacks) ==
  CHOOSE r : r = [n \in 0..Len(stacks) |->
                    IF n = 0 THEN 1 ELSE r[n - 1] + StackCells(stacks[n].frames)]

\* serializedSize() is where the last stack ends, and the ends ascend.
LEMMA EndsOfStacks ==
  ASSUME NEW stacks \in Seq(Stack)
  PROVE  /\ AllCells(stacks) = Ends(stacks)[Len(stacks)]
         /\ Ends(stacks)[0] = 1
         /\ \A n \in 1..Len(stacks) :
              Ends(stacks)[n] = Ends(stacks)[n - 1] + StackCells(stacks[n].frames)
         /\ \A n \in 0..Len(stacks) : Ends(stacks)[n] \in Nat
         /\ \A m \in 0..Len(stacks) : \A n \in 0..m : Ends(stacks)[n] <= Ends(stacks)[m]
<1> DEFINE N == Len(stacks)
           step == [n \in 1..N |-> StackCells(stacks[n].frames)]
           cells(r, n) == IF n = 0 THEN 1 ELSE r[n - 1] + StackCells(stacks[n].frames)
           sum(r, n) == IF n = 0 THEN 1 ELSE r[n - 1] + step[n]
<1>1. N \in Nat /\ step \in [1..N -> Nat]
  BY DEF StackCells, Stack
<1>2. ASSUME NEW r, NEW n \in 0..N PROVE cells(r, n) = sum(r, n)
  <2>1. n # 0 => n \in 1..N
    OBVIOUS
  <2> QED
    BY <2>1
<1>3. \A r : [n \in 0..N |-> cells(r, n)] = [n \in 0..N |-> sum(r, n)]
  <2> HIDE DEF cells, sum, N
  <2> QED
    BY <1>2
<1>4. \A r : IsSum(r, 1, step, N) <=> r = [n \in 0..N |-> sum(r, n)]
  <2> HIDE DEF step, N
  <2> QED
    BY DEF IsSum
<1>5. \A r : IsSum(r, 1, step, N) <=> r = [n \in 0..N |-> cells(r, n)]
  <2> HIDE DEF cells, sum, N, step
  <2> QED
    BY <1>3, <1>4
<1>6. \E r : r = [n \in 0..N |-> cells(r, n)]
  <2>1. \E r : IsSum(r, 1, step, N)
    <3> HIDE DEF step, N
    <3> QED
      BY <1>1, SumExists
  <2> HIDE DEF cells, N, step
  <2> QED
    BY <1>5, <2>1
<1>7. Ends(stacks) = [n \in 0..N |-> cells(Ends(stacks), n)]
  BY <1>6 DEF Ends
<1>8. IsSum(Ends(stacks), 1, step, N)
  <2> HIDE DEF cells, N, step
  <2> QED
    BY <1>5, <1>7
<1>9. AllCells(stacks) = Ends(stacks)[N]
  BY DEF AllCells, Ends
<1>10. /\ Ends(stacks)[0] = 1
       /\ \A n \in 1..N : Ends(stacks)[n] = Ends(stacks)[n - 1] + step[n]
       /\ \A n \in 0..N : Ends(stacks)[n] \in Nat
       /\ \A m \in 0..N : \A n \in 0..m : Ends(stacks)[n] <= Ends(stacks)[m]
  <2> HIDE DEF N, step
  <2>1. 1 \in Nat
    OBVIOUS
  <2> QED
    BY <1>1, <1>8, <2>1, SumGrows
<1> QED
  BY <1>9, <1>10

\* The cells of a stack: as many as counted, and where they are read.
LEMMA CellsOfStack ==
  ASSUME NEW s \in Stack
  PROVE  /\ StackCells(s.frames) \in Nat /\ StackCells(s.frames) >= 2
         /\ Len(Cells(s)) = StackCells(s.frames)
         /\ Cells(s)[1] = s.tid
         /\ Cells(s)[2] = Len(s.frames)
         /\ \A k \in 1..Len(s.frames) : Cells(s)[2 * k + 1][1] = s.frames[k]
<1> DEFINE n == Len(s.frames)
           halves == [k \in 1..(2 * n) |-> <<s.frames[(k + 1) \div 2], k % 2>>]
           front == <<s.tid, n>>
           S == {s.tid, n} \cup {halves[k] : k \in 1..(2 * n)}
<1>1. n \in Nat
  BY DEF Stack
<1>2. front \in Seq(S) /\ Len(front) = 2 /\ front[1] = s.tid /\ front[2] = n
  <2>1. s.tid \in S /\ n \in S
    OBVIOUS
  <2> HIDE DEF S, n
  <2> QED
    BY <2>1
<1>3. halves \in Seq(S) /\ Len(halves) = 2 * n
  <2>1. \A k \in 1..(2 * n) : halves[k] \in S
    OBVIOUS
  <2>2. DOMAIN halves = 1..(2 * n) /\ halves = [k \in 1..(2 * n) |-> halves[k]]
    OBVIOUS
  <2>3. 2 * n \in Nat
    BY <1>1
  <2> HIDE DEF S, halves, n
  <2>4. halves \in [1..(2 * n) -> S]
    BY <2>1, <2>2
  <2>5. halves \in Seq(S)
    BY <2>3, <2>4, SeqDef
  <2> QED
    BY <2>3, <2>4, <2>5
<1>4. Cells(s) = front \o halves
  BY DEF Cells
<1>5. ASSUME NEW k \in 1..n PROVE halves[2 * k - 1][1] = s.frames[k]
  <2>1. 2 * k - 1 \in 1..(2 * n) /\ ((2 * k - 1) + 1) \div 2 = k
    BY <1>1
  <2> QED
    BY <2>1
<1> HIDE DEF halves, front, S
<1>6. /\ Len(Cells(s)) = 2 + 2 * n
      /\ \A i \in 1..(2 + 2 * n) :
           Cells(s)[i] = IF i <= 2 THEN front[i] ELSE halves[i - 2]
  <2> HIDE DEF n
  <2>1. /\ Len(front \o halves) = Len(front) + Len(halves)
        /\ \A i \in 1..(Len(front) + Len(halves)) : (front \o halves)[i] =
             IF i <= Len(front) THEN front[i] ELSE halves[i - Len(front)]
    BY <1>2, <1>3, ConcatProperties
  <2> QED
    BY <1>2, <1>3, <1>4, <2>1
<1>7. ASSUME NEW k \in 1..n PROVE Cells(s)[2 * k + 1] = halves[2 * k - 1]
  <2>1. /\ 2 * k + 1 \in 1..(2 + 2 * n) /\ ~(2 * k + 1 <= 2)
        /\ (2 * k + 1) - 2 = 2 * k - 1
    BY <1>1
  <2> HIDE DEF n
  <2> QED
    BY <1>6, <2>1
<1>8. Cells(s)[1] = s.tid /\ Cells(s)[2] = n
  BY <1>1, <1>2, <1>6
<1>9. StackCells(s.frames) = 2 + 2 * n
  BY DEF StackCells
<1>10. 2 + 2 * n \in Nat /\ 2 + 2 * n >= 2
  BY <1>1
<1>11. \A k \in 1..n : Cells(s)[2 * k + 1][1] = s.frames[k]
  BY <1>5, <1>7
<1> QED
  BY <1>6, <1>8, <1>9, <1>10, <1>11

\* Both ways of a capture to the report start from stacks, in order.
LEMMA CapturedStacks == Init => captured \in Seq(Stack)
<1> SUFFICES ASSUME Init PROVE captured \in Seq(Stack)
  OBVIOUS
<1>1. ASSUME NEW f \in Frames PROVE f \in Seq(Addr) \ {<<>>}
  <2>1. PICK d \in 1..MaxDepth : f \in [1..d -> Addr]
    BY DEF Frames
  <2>2. d \in Nat \ {0}
    BY StacksAssumption, <2>1
  <2> QED
    BY <2>1, <2>2
<1>2. CASE captured \in LiveCaptures
  <2>1. PICK n \in 0..MaxThreads : \E f \in [1..n -> Frames] :
          captured = [i \in 1..n |-> [tid |-> i, frames |-> f[i], name |-> "plain"]]
    BY <1>2 DEF LiveCaptures
  <2>2. PICK f \in [1..n -> Frames] :
          captured = [i \in 1..n |-> [tid |-> i, frames |-> f[i], name |-> "plain"]]
    BY <2>1
  <2>3. n \in Nat
    BY <2>1
  <2>4. ASSUME NEW i \in 1..n
        PROVE  [tid |-> i, frames |-> f[i], name |-> "plain"] \in Stack
    <3>1. i \in Nat /\ f[i] \in Seq(Addr) \ {<<>>}
      BY <1>1, <2>3
    <3> QED
      BY <3>1 DEF Stack, Name
  <2>5. captured \in [1..n -> Stack]
    BY <2>2, <2>4
  <2> QED
    BY <2>3, <2>5, SeqDef
<1>3. CASE captured \in Captures(MaxRead, NamedTrace)
  <2>1. PICK n \in 0..MaxRead : captured \in [1..n -> NamedTrace]
    BY <1>3 DEF Captures
  <2>2. n \in Nat
    BY <2>1
  <2>3. \A s \in NamedTrace : s \in Stack
    BY <1>1, StacksAssumption DEF NamedTrace, Stack
  <2>4. captured \in [1..n -> Stack]
    BY <2>1, <2>3
  <2> QED
    BY <2>2, <2>4, SeqDef
<1> QED
  BY <1>2, <1>3 DEF Init

\* The n-th of the stacks is in the segment, where it is to be.
StoredIn(segment, stacks, n) ==
  \A k \in 1..StackCells(stacks[n].frames) :
    segment[Ends(stacks)[n - 1] + k - 1] = Cells(stacks[n])[k]

Allocated ==
  /\ wpc \in {"idle", "allocate"} => mem = <<>> /\ size = 0 /\ offset = 0
  /\ wpc \notin {"idle", "allocate"} =>
       size = AllCells(captured) /\ DOMAIN mem = 0..(size - 1)

\* The child has moved some of the stacks, and is behind the last of them.
Writing ==
  /\ wpc \in {"idle", "allocate", "count", "stacks", "read"} => restored = <<>>
  /\ wpc \in {"idle", "allocate", "count", "read"} => offset = 0 /\ moved = 0
  /\ wpc = "stacks" =>
       /\ moved \in 0..Len(captured)
       /\ offset = Ends(captured)[moved]
       /\ mem[0] = Len(captured)
       /\ \A n \in 1..moved : StoredIn(mem, captured, n)

\* The parent has restored all but some, and is behind the last of them.
Restoring ==
  /\ wpc \in {"read", "restore", "done"} =>
       /\ mem[0] = Len(captured)
       /\ \A n \in 1..Len(captured) : StoredIn(mem, captured, n)
  /\ wpc \in {"restore", "done"} =>
       /\ moved \in 0..Len(captured)
       /\ offset = Ends(captured)[Len(captured) - moved]
       /\ restored = [n \in 1..(Len(captured) - moved) |-> Trace(captured[n])]
  /\ wpc = "done" => moved = 0

WireInv ==
  /\ captured \in Seq(Stack)
  /\ wpc \in {"idle", "allocate", "count", "stacks", "read", "restore", "done"}
  /\ Allocated /\ Writing /\ Restoring

\* Writing cells that fit leaves the segment as large as it was, and every
\* other cell as it was.
LEMMA WritingFits ==
  ASSUME DOMAIN mem = 0..(size - 1), size \in Nat, offset \in Nat,
         NEW cells, Len(cells) \in Nat, offset + Len(cells) <= size
  PROVE  /\ DOMAIN Written(cells) = 0..(size - 1)
         /\ \A k \in 1..Len(cells) : Written(cells)[offset + k - 1] = cells[k]
         /\ \A o \in 0..(offset - 1) : Written(cells)[o] = mem[o]
<1> DEFINE new == offset..(offset + Len(cells) - 1)
<1>1. DOMAIN mem \cup new = 0..(size - 1)
  OBVIOUS
<1>2. Written(cells) = [o \in 0..(size - 1) |->
                          IF o \in new THEN cells[o - offset + 1] ELSE mem[o]]
  BY <1>1 DEF Written
<1>3. ASSUME NEW k \in 1..Len(cells) PROVE Written(cells)[offset + k - 1] = cells[k]
  <2>1. /\ offset + k - 1 \in 0..(size - 1) /\ offset + k - 1 \in new
        /\ (offset + k - 1) - offset + 1 = k
    OBVIOUS
  <2> HIDE DEF new
  <2> QED
    BY <1>2, <2>1
<1>4. ASSUME NEW o \in 0..(offset - 1) PROVE Written(cells)[o] = mem[o]
  <2>1. o \in 0..(size - 1) /\ o \notin new
    OBVIOUS
  <2> HIDE DEF new
  <2> QED
    BY <1>2, <2>1
<1>5. DOMAIN Written(cells) = 0..(size - 1)
  <2> HIDE DEF new
  <2> QED
    BY <1>2
<1> QED
  BY <1>3, <1>4, <1>5

LEMMA WireInit == Init => WireInv
<1> SUFFICES ASSUME Init PROVE WireInv
  OBVIOUS
<1>1. captured \in Seq(Stack)
  BY CapturedStacks
<1>2. /\ wpc \in {"idle", "allocate"} /\ restored = <<>>
      /\ mem = <<>> /\ size = 0 /\ offset = 0 /\ moved = 0
  BY DEF Init, WireStart
<1> QED
  BY <1>1, <1>2 DEF WireInv, Allocated, Writing, Restoring

\* The cells of a stack are written behind those of the stacks before it.
LEMMA WriteStackKeeps ==
  ASSUME WireInv, WriteStack, captured' = captured
  PROVE  WireInv'
<1> DEFINE N == Len(captured)
<1>1. /\ wpc = "stacks" /\ wpc' = "stacks" /\ size' = size /\ restored' = restored
      /\ moved \in 0..N /\ moved < N /\ moved' = moved + 1
      /\ offset = Ends(captured)[moved] /\ mem[0] = N /\ restored = <<>>
      /\ \A n \in 1..moved : StoredIn(mem, captured, n)
  BY DEF WireInv, WriteStack, Writing
<1>2. captured \in Seq(Stack) /\ N \in Nat
  BY DEF WireInv
<1>3. PICK m \in 1..N : m = moved + 1 /\ m - 1 = moved
  BY <1>1, <1>2
<1> DEFINE cells == Cells(captured[m])
<1>4. mem' = Written(cells) /\ offset' = offset + Len(cells)
  BY <1>3 DEF WriteStack
<1>5. captured[m] \in Stack
  BY <1>2
<1>6. Len(cells) = StackCells(captured[m].frames) /\ Len(cells) \in Nat
  BY <1>5, CellsOfStack
<1>7. /\ offset + Len(cells) = Ends(captured)[m]
      /\ Ends(captured)[m] <= size /\ size \in Nat
      /\ offset \in Nat /\ offset >= 1
  <2>1. Ends(captured)[m] = Ends(captured)[m - 1] + StackCells(captured[m].frames)
    BY <1>2, EndsOfStacks
  <2>2. size = Ends(captured)[N]
    BY <1>1, <1>2, EndsOfStacks DEF WireInv, Allocated
  <2>3. m \in 0..N /\ N \in 0..N /\ m \in 0..N /\ m - 1 \in 0..N /\ 0 \in 0..(m - 1)
    BY <1>2
  <2>4. /\ Ends(captured)[m] <= Ends(captured)[N] /\ Ends(captured)[N] \in Nat
        /\ Ends(captured)[m - 1] \in Nat /\ Ends(captured)[0] <= Ends(captured)[m - 1]
        /\ Ends(captured)[0] = 1
    BY <1>2, <2>3, EndsOfStacks
  <2> QED
    BY <1>1, <1>3, <1>6, <2>1, <2>2, <2>4
<1>8. DOMAIN mem = 0..(size - 1)
  BY <1>1 DEF WireInv, Allocated
<1> HIDE DEF cells
<1>9. /\ DOMAIN mem' = 0..(size - 1)
      /\ \A k \in 1..Len(cells) : mem'[offset + k - 1] = cells[k]
      /\ \A o \in 0..(offset - 1) : mem'[o] = mem[o]
  <2>1. offset + Len(cells) <= size
    BY <1>7
  <2> QED
    BY <1>4, <1>6, <1>7, <1>8, <2>1, WritingFits
<1>10. StoredIn(mem', captured, m)
  <2>1. \A k \in 1..StackCells(captured[m].frames) :
          mem'[Ends(captured)[m - 1] + k - 1] = Cells(captured[m])[k]
    BY <1>1, <1>3, <1>6, <1>9 DEF cells
  <2> QED
    BY <2>1 DEF StoredIn
<1>11. ASSUME NEW n \in 1..moved PROVE StoredIn(mem', captured, n)
  <2> SUFFICES ASSUME NEW k \in 1..StackCells(captured[n].frames)
               PROVE  mem'[Ends(captured)[n - 1] + k - 1] = Cells(captured[n])[k]
    BY DEF StoredIn
  <2>1. n \in 1..N /\ n \in 0..moved /\ n - 1 \in 0..N /\ moved \in 0..N
    BY <1>1, <1>2
  <2>2. captured[n] \in Stack
    BY <1>2, <2>1
  <2>3. StackCells(captured[n].frames) \in Nat
    BY <2>2, CellsOfStack
  <2>4. /\ Ends(captured)[n] = Ends(captured)[n - 1] + StackCells(captured[n].frames)
        /\ Ends(captured)[n] <= Ends(captured)[moved]
        /\ Ends(captured)[n - 1] \in Nat /\ Ends(captured)[n] \in Nat
    BY <1>2, <2>1, EndsOfStacks
  <2>5. Ends(captured)[n - 1] + k - 1 \in 0..(offset - 1)
    <3>1. k \in Nat /\ 1 <= k /\ k <= StackCells(captured[n].frames)
      BY <2>3
    <3>2. Ends(captured)[n] <= offset
      BY <1>1, <2>4
    <3>3. ASSUME NEW a \in Nat, NEW b \in Nat, NEW c \in Nat, NEW o \in Nat, NEW i \in Nat,
                 b = a + c, b <= o, 1 <= i, i <= c
          PROVE  a + i - 1 \in 0..(o - 1)
      BY <3>3
    <3> QED
      BY <1>7, <2>3, <2>4, <3>1, <3>2, <3>3
  <2>6. mem[Ends(captured)[n - 1] + k - 1] = Cells(captured[n])[k]
    BY <1>1 DEF StoredIn
  <2> QED
    BY <1>9, <2>5, <2>6
<1>12. mem'[0] = N
  BY <1>1, <1>7, <1>9
<1>13. \A n \in 1..m : StoredIn(mem', captured, n)
  BY <1>1, <1>3, <1>10, <1>11
<1>14. Writing'
  <2>1. m \in 0..N /\ offset' = Ends(captured)[m] /\ moved' = m
    BY <1>2, <1>3, <1>4, <1>7, <1>1
  <2> QED
    BY <1>1, <1>12, <1>13, <2>1 DEF Writing
<1>15. Allocated'
  <2>1. size = AllCells(captured)
    BY <1>1 DEF WireInv, Allocated
  <2> QED
    BY <1>1, <1>9, <2>1 DEF Allocated
<1>16. Restoring'
  BY <1>1 DEF Restoring
<1> QED
  BY <1>1, <1>2, <1>14, <1>15, <1>16 DEF WireInv

\* A stack is read where it was written, for the parent is behind the cells of
\* the same stacks.
LEMMA ReadStackKeeps ==
  ASSUME WireInv, ReadStack, captured' = captured
  PROVE  WireInv'
<1> DEFINE N == Len(captured)
<1>1. /\ wpc = "restore" /\ wpc' = "restore" /\ size' = size /\ mem' = mem
      /\ moved \in 0..N /\ moved > 0 /\ moved' = moved - 1
      /\ offset = Ends(captured)[N - moved] /\ mem[0] = N
      /\ restored = [n \in 1..(N - moved) |-> Trace(captured[n])]
      /\ \A n \in 1..N : StoredIn(mem, captured, n)
  BY DEF WireInv, ReadStack, Restoring
<1>2. captured \in Seq(Stack) /\ N \in Nat
  BY DEF WireInv
<1>3. PICK m \in 1..N : m = N - moved + 1 /\ m - 1 = N - moved /\ N - moved' = m
  <2>1. /\ N - moved + 1 \in 1..N /\ (N - moved + 1) - 1 = N - moved
        /\ N - moved' = N - moved + 1
    BY <1>1, <1>2
  <2> QED
    BY <2>1
<1> DEFINE s == captured[m]
           frames == [k \in 1..mem[offset + 1] |-> mem[offset + 2 * k][1]]
<1>4. /\ restored' = Append(restored, [tid |-> mem[offset], frames |-> frames])
      /\ offset' = offset + StackCells(frames)
  BY DEF ReadStack
<1>5. s \in Stack /\ s.frames \in Seq(Addr) /\ Len(s.frames) \in Nat
  <2>1. s \in Stack
    BY <1>2
  <2> HIDE DEF s
  <2> QED
    BY <2>1 DEF Stack
<1>6. /\ offset \in Nat
      /\ Ends(captured)[m] = offset + StackCells(s.frames)
  <2>1. m - 1 \in 0..N
    BY <1>2
  <2> QED
    BY <1>1, <1>2, <1>3, <2>1, EndsOfStacks
<1>7. /\ StackCells(s.frames) = 2 + 2 * Len(s.frames)
      /\ \A k \in 1..StackCells(s.frames) : mem[offset + k - 1] = Cells(s)[k]
  BY <1>1, <1>3 DEF StoredIn, StackCells
<1> HIDE DEF s
<1>8. mem[offset] = s.tid /\ mem[offset + 1] = Len(s.frames)
  <2>1. /\ 1 \in 1..StackCells(s.frames) /\ 2 \in 1..StackCells(s.frames)
        /\ offset + 1 - 1 = offset /\ offset + 2 - 1 = offset + 1
    BY <1>5, <1>6, <1>7
  <2>2. mem[offset + 1 - 1] = Cells(s)[1] /\ mem[offset + 2 - 1] = Cells(s)[2]
    BY <1>7, <2>1
  <2>3. Cells(s)[1] = s.tid /\ Cells(s)[2] = Len(s.frames)
    BY <1>5, CellsOfStack
  <2> QED
    BY <2>1, <2>2, <2>3
<1>9. ASSUME NEW k \in 1..Len(s.frames) PROVE mem[offset + 2 * k][1] = s.frames[k]
  <2>1. 2 * k + 1 \in 1..StackCells(s.frames) /\ offset + (2 * k + 1) - 1 = offset + 2 * k
    BY <1>5, <1>6, <1>7
  <2>2. mem[offset + (2 * k + 1) - 1] = Cells(s)[2 * k + 1]
    BY <1>7, <2>1
  <2>3. Cells(s)[2 * k + 1][1] = s.frames[k]
    BY <1>5, CellsOfStack
  <2> QED
    BY <2>1, <2>2, <2>3
<1>10. frames = s.frames
  <2>1. s.frames = [k \in 1..Len(s.frames) |-> s.frames[k]]
    BY <1>5
  <2>2. frames = [k \in 1..Len(s.frames) |-> s.frames[k]]
    BY <1>8, <1>9
  <2> QED
    BY <2>1, <2>2
<1> HIDE DEF frames
<1>11. offset' = Ends(captured)[m]
  BY <1>4, <1>6, <1>10
<1>12. restored' = Append(restored, Trace(s))
  BY <1>4, <1>8, <1>10 DEF Trace
<1>13. restored' = [n \in 1..m |-> Trace(captured[n])]
  <2> DEFINE f == [n \in 1..N |-> Trace(captured[n])]
  <2>1. \A n \in 1..m : f[n] = Trace(captured[n])
    BY <1>2
  <2>2. m - 1 \in Nat /\ m = (m - 1) + 1 /\ \A n \in 1..(m - 1) : n \in 1..m
    BY <1>2
  <2>3. Trace(s) = f[m]
    BY <2>1 DEF s
  <2> HIDE DEF f
  <2>4. restored = [n \in 1..(m - 1) |-> f[n]]
    BY <1>1, <1>3, <2>1, <2>2
  <2>5. Append([n \in 1..(m - 1) |-> f[n]], f[(m - 1) + 1]) = [n \in 1..((m - 1) + 1) |-> f[n]]
    BY <2>2, AppendNext
  <2> QED
    BY <1>12, <2>1, <2>2, <2>3, <2>4, <2>5
<1>14. moved' \in 0..N
  BY <1>1, <1>2
<1>15. Restoring'
  BY <1>1, <1>3, <1>11, <1>13, <1>14 DEF Restoring
<1>16. Allocated' /\ Writing'
  BY <1>1 DEF WireInv, Allocated, Writing
<1> QED
  BY <1>1, <1>2, <1>15, <1>16 DEF WireInv

\* Every step of the two sides keeps the segment.
LEMMA WireStep == WireInv /\ [Next]_vars => WireInv'
<1> SUFFICES ASSUME WireInv, [Next]_vars PROVE WireInv'
  OBVIOUS
<1>1. CASE UNCHANGED <<captured, wireVars>>
  BY <1>1 DEF wireVars, WireInv, Allocated, Writing, Restoring
<1>2. ASSUME WireNext, captured' = captured PROVE WireInv'
  <2>1. captured \in Seq(Stack) /\ Len(captured) \in Nat
    BY DEF WireInv
  <2>2. Ends(captured)[0] = 1
    BY <2>1, EndsOfStacks
  <2>3. CASE Allocate
    BY <1>2, <2>3 DEF Allocate, WireInv, Allocated, Writing, Restoring
  <2>4. CASE WriteCount
    <3> DEFINE cells == <<Len(captured)>>
    <3>1. /\ wpc = "count" /\ wpc' = "stacks" /\ offset = 0 /\ moved = 0
          /\ UNCHANGED <<size, moved, restored>> /\ restored = <<>>
          /\ mem' = Written(cells) /\ offset' = 1
          /\ size = AllCells(captured) /\ DOMAIN mem = 0..(size - 1)
      BY <2>4 DEF WriteCount, WireInv, Allocated, Writing
    <3>2. size \in Nat /\ 1 <= size
      <4>1. 0 \in 0..Len(captured) /\ Len(captured) \in 0..Len(captured)
        BY <2>1
      <4>2. /\ AllCells(captured) = Ends(captured)[Len(captured)]
            /\ Ends(captured)[0] <= Ends(captured)[Len(captured)]
            /\ Ends(captured)[Len(captured)] \in Nat
        BY <2>1, <4>1, EndsOfStacks
      <4> QED
        BY <2>2, <3>1, <4>2
    <3>3. Len(cells) = 1 /\ cells[1] = Len(captured)
      OBVIOUS
    <3> HIDE DEF cells
    <3>4. /\ DOMAIN Written(cells) = 0..(size - 1)
          /\ \A k \in 1..Len(cells) : Written(cells)[offset + k - 1] = cells[k]
      <4>1. offset \in Nat /\ Len(cells) \in Nat /\ offset + Len(cells) <= size
        BY <3>1, <3>2, <3>3
      <4> QED
        BY <3>1, <3>2, <4>1, WritingFits
    <3>5. mem'[0] = Len(captured)
      <4>1. 1 \in 1..Len(cells) /\ offset + 1 - 1 = 0
        BY <3>1, <3>3
      <4> QED
        BY <3>1, <3>3, <3>4, <4>1
    <3>6. Writing'
      BY <1>2, <2>1, <2>2, <3>1, <3>5 DEF Writing
    <3>7. Allocated' /\ Restoring'
      BY <1>2, <3>1, <3>4 DEF Allocated, Restoring
    <3> QED
      BY <1>2, <2>1, <3>1, <3>6, <3>7 DEF WireInv
  <2>5. CASE WriteStack
    BY <1>2, <2>5, WriteStackKeeps
  <2>6. CASE ChildDone
    BY <1>2, <2>6 DEF ChildDone, WireInv, Allocated, Writing, Restoring
  <2>7. CASE ReadCount
    <3>1. /\ wpc = "read" /\ wpc' = "restore" /\ offset' = 1
          /\ moved' = Len(captured) /\ UNCHANGED <<mem, size, restored>> /\ restored = <<>>
      BY <2>7 DEF ReadCount, WireInv, Writing, Restoring
    <3>2. Len(captured) - moved' = 0 /\ 1..0 = {}
      BY <2>1, <3>1
    <3>3. restored = [n \in 1..(Len(captured) - moved') |-> Trace(captured[n])]
      BY <3>1, <3>2
    <3>4. offset' = Ends(captured)[Len(captured) - moved']
      BY <2>2, <3>1, <3>2
    <3>5. moved' \in 0..Len(captured)
      BY <2>1, <3>1
    <3>6. Restoring'
      BY <1>2, <3>1, <3>3, <3>4, <3>5 DEF WireInv, Restoring
    <3> QED
      BY <1>2, <3>1, <3>6 DEF WireInv, Allocated, Writing
  <2>8. CASE ReadStack
    BY <1>2, <2>8, ReadStackKeeps
  <2>9. CASE ParentDone
    BY <1>2, <2>9 DEF ParentDone, WireInv, Allocated, Writing, Restoring
  <2> QED
    BY <1>2, <2>3, <2>4, <2>5, <2>6, <2>7, <2>8, <2>9 DEF WireNext
<1>3. UNCHANGED vars => UNCHANGED <<captured, wireVars>>
  BY DEF vars
<1> QED
  BY <1>1, <1>2, <1>3
     DEF Next, Reports, ReportRestored, ReportCaptured, ReportRead

\* What is in the segment makes the two sides agree.
LEMMA WireCorrect == WireInv => HandedOver /\ WireTypeOK
<1> SUFFICES ASSUME WireInv PROVE HandedOver /\ WireTypeOK
  OBVIOUS
<1> DEFINE N == Len(captured)
<1>1. captured \in Seq(Stack) /\ N \in Nat /\ DOMAIN captured = 1..N
  BY DEF WireInv
<1>2. /\ \A n \in 0..N : Ends(captured)[n] \in Nat /\ Ends(captured)[n] <= AllCells(captured)
      /\ AllCells(captured) = Ends(captured)[N] /\ AllCells(captured) \in Nat
  <2>1. N \in 0..N /\ \A n \in 0..N : n \in 0..N
    BY <1>1
  <2> QED
    BY <1>1, <2>1, EndsOfStacks
<1>3. size \in Nat /\ DOMAIN mem = 0..(size - 1)
  <2>1. CASE wpc \in {"idle", "allocate"}
    <3>1. mem = <<>> /\ size = 0
      BY <2>1 DEF WireInv, Allocated
    <3>2. DOMAIN <<>> = 1..0 /\ 1..0 = {} /\ 0..(0 - 1) = {}
      OBVIOUS
    <3> QED
      BY <3>1, <3>2
  <2>2. CASE wpc \notin {"idle", "allocate"}
    BY <1>2, <2>2 DEF WireInv, Allocated
  <2> QED
    BY <2>1, <2>2
<1>4. offset \in Nat /\ offset <= size /\ moved \in Nat
  <2>1. CASE wpc \in {"idle", "allocate", "count", "read"}
    BY <1>3, <2>1 DEF WireInv, Writing
  <2>2. CASE wpc = "stacks"
    BY <1>1, <1>2, <2>2 DEF WireInv, Allocated, Writing
  <2>3. CASE wpc \in {"restore", "done"}
    <3>1. /\ moved \in 0..N /\ offset = Ends(captured)[N - moved]
          /\ size = AllCells(captured)
      BY <2>3 DEF WireInv, Allocated, Restoring
    <3>2. N - moved \in 0..N
      BY <1>1, <3>1
    <3> QED
      BY <1>1, <1>2, <3>1, <3>2
  <2> QED
    BY <2>1, <2>2, <2>3 DEF WireInv
<1>5. wpc = "stacks" /\ moved = N => offset = size
  BY <1>2 DEF WireInv, Allocated, Writing
<1>6. wpc = "done" => offset = size /\ restored = Traces(captured)
  <2>1. N - 0 = N
    BY <1>1
  <2> QED
    BY <1>1, <1>2, <2>1 DEF WireInv, Allocated, Restoring, Traces
<1>7. restored \in Seq([tid : Nat, frames : Seq(Addr)])
  <2>1. CASE wpc \in {"restore", "done"}
    <3>1. moved \in 0..N /\ restored = [n \in 1..(N - moved) |-> Trace(captured[n])]
      BY <2>1 DEF WireInv, Restoring
    <3>2. N - moved \in Nat /\ \A n \in 1..(N - moved) : n \in 1..N
      BY <1>1, <3>1
    <3>3. \A n \in 1..N : Trace(captured[n]) \in [tid : Nat, frames : Seq(Addr)]
      <4> TAKE n \in 1..N
      <4>1. captured[n] \in Stack
        BY <1>1
      <4> QED
        BY <4>1 DEF Trace, Stack
    <3>4. restored \in [1..(N - moved) -> [tid : Nat, frames : Seq(Addr)]]
      BY <3>1, <3>2, <3>3
    <3>5. \A S : [1..(N - moved) -> S] \subseteq Seq(S)
      BY <3>2, SeqDef
    <3> QED
      BY <3>4, <3>5
  <2>2. CASE wpc \notin {"restore", "done"}
    <3>1. restored = <<>>
      BY <2>2 DEF WireInv, Writing
    <3> QED
      BY <3>1
  <2> QED
    BY <2>1, <2>2
<1> QED
  BY <1>3, <1>4, <1>5, <1>6, <1>7 DEF HandedOver, WireTypeOK, WireInv

\* For captures of any number of threads and stacks of any depth: no cell is
\* written behind the segment, the parent reads to its end and no further, and
\* has then the stacks that the child had.
THEOREM SegmentHandsOver == Spec => []HandedOver
<1>1. WireInv => HandedOver
  BY WireCorrect
<1> QED
  BY <1>1, WireInit, WireStep, PTL DEF Spec

-----------------------------------------------------------------------------
(* The file: its lines.                                                    *)

IsFlat(f, seqs, N) ==
  f = [i \in 1..N |-> IF i = 1 THEN seqs[i] ELSE f[i - 1] \o seqs[i]]

\* FlattenSeq computes something.
LEMMA FlatExists ==
  ASSUME NEW seqs, NEW N \in Nat
  PROVE  \E f : IsFlat(f, seqs, N)
<1> DEFINE Bad == {n \in Nat : ~ \E f : IsFlat(f, seqs, n)}
<1> SUFFICES Bad = {}
  OBVIOUS
<1> SUFFICES ASSUME Bad # {} PROVE FALSE
  OBVIOUS
<1>1. PICK n \in Bad : \A m \in Bad : n <= m
  <2>1. Bad \in SUBSET Nat
    OBVIOUS
  <2> HIDE DEF Bad
  <2> QED
    BY <2>1, LeastNat
<1>2. n \in Nat /\ ~ \E f : IsFlat(f, seqs, n)
  OBVIOUS
<1>3. n # 0
  <2> DEFINE z == [i \in 1..0 |-> {}]
  <2>1. \A i \in 1..0 : FALSE
    OBVIOUS
  <2>2. IsFlat(z, seqs, 0)
    BY <2>1 DEF IsFlat
  <2> QED
    BY <1>2, <2>2
<1>4. n - 1 \in Nat /\ ~(n <= n - 1)
  BY <1>2, <1>3
<1>5. PICK f : IsFlat(f, seqs, n - 1)
  BY <1>1, <1>4
<1> DEFINE flat(g, i) == IF i = 1 THEN seqs[i] ELSE g[i - 1] \o seqs[i]
           u == [i \in 1..n |-> flat(f, i)]
<1>6. \A i \in 1..(n - 1) : u[i] = f[i]
  <2>1. \A i \in 1..(n - 1) : f[i] = flat(f, i)
    BY <1>5 DEF IsFlat
  <2>2. \A i \in 1..(n - 1) : i \in 1..n
    BY <1>2
  <2> HIDE DEF flat
  <2> QED
    BY <2>1, <2>2
<1>7. \A i \in 1..n : flat(f, i) = flat(u, i)
  <2> TAKE i \in 1..n
  <2>1. CASE i = 1
    BY <2>1
  <2>2. CASE i # 1
    <3>1. i - 1 \in 1..(n - 1)
      BY <1>2, <2>2
    <3>2. u[i - 1] = f[i - 1]
      BY <1>6, <3>1
    <3> HIDE DEF u
    <3> QED
      BY <2>2, <3>2
  <2> QED
    BY <2>1, <2>2
<1>8. u = [i \in 1..n |-> flat(u, i)]
  <2>1. u = [i \in 1..n |-> flat(f, i)]
    OBVIOUS
  <2> HIDE DEF u, flat
  <2> QED
    BY <1>7, <2>1
<1>9. IsFlat(u, seqs, n)
  <2> HIDE DEF u
  <2> QED
    BY <1>8 DEF IsFlat
<1> QED
  BY <1>2, <1>9

\* Where the elements of each sequence are in the sequence of all.
LEMMA Flattened ==
  ASSUME NEW S, NEW seqs \in Seq(Seq(S)), NEW r,
         IsSum(r, 0, [i \in 1..Len(seqs) |-> Len(seqs[i])], Len(seqs))
  PROVE  /\ FlattenSeq(seqs) \in Seq(S)
         /\ Len(FlattenSeq(seqs)) = r[Len(seqs)]
         /\ \A i \in 1..Len(seqs) : \A k \in 1..Len(seqs[i]) :
              FlattenSeq(seqs)[r[i - 1] + k] = seqs[i][k]
<1> DEFINE N == Len(seqs)
           step == [i \in 1..N |-> Len(seqs[i])]
<1>1. N \in Nat /\ step \in [1..N -> Nat] /\ \A i \in 1..N : seqs[i] \in Seq(S)
  OBVIOUS
<1>2. /\ r[0] = 0
      /\ \A n \in 1..N : r[n] = r[n - 1] + Len(seqs[n])
      /\ \A n \in 0..N : r[n] \in Nat
      /\ \A m \in 0..N : \A n \in 0..m : r[n] <= r[m]
  <2>1. /\ r[0] = 0
        /\ \A n \in 1..N : r[n] = r[n - 1] + step[n]
        /\ \A n \in 0..N : r[n] \in Nat
        /\ \A m \in 0..N : \A n \in 0..m : r[n] <= r[m]
    <3>1. IsSum(r, 0, step, N) /\ 0 \in Nat
      OBVIOUS
    <3> HIDE DEF step, N
    <3> QED
      BY <1>1, <3>1, SumGrows
  <2> QED
    BY <2>1
<1>3. CASE N = 0
  <2>1. seqs = <<>>
    BY <1>3
  <2>2. FlattenSeq(seqs) = <<>>
    BY <2>1 DEF FlattenSeq
  <2> QED
    BY <1>2, <1>3, <2>2
<1>4. CASE N # 0
  <2> DEFINE flat == CHOOSE f : f = [i \in 1..N |-> IF i = 1 THEN seqs[i] ELSE f[i - 1] \o seqs[i]]
             Good(i) == /\ flat[i] \in Seq(S)
                        /\ Len(flat[i]) = r[i]
                        /\ \A j \in 1..i : \A k \in 1..Len(seqs[j]) :
                             flat[i][r[j - 1] + k] = seqs[j][k]
             Bad == {i \in 1..N : ~Good(i)}
  <2>1. FlattenSeq(seqs) = flat[N]
    BY <1>4 DEF FlattenSeq
  <2>2. IsFlat(flat, seqs, N)
    <3>1. \E f : IsFlat(f, seqs, N)
      BY <1>1, FlatExists
    <3> HIDE DEF N
    <3> QED
      BY <3>1 DEF IsFlat
  <2> HIDE DEF flat
  <2>3. \A i \in 1..N : flat[i] = IF i = 1 THEN seqs[i] ELSE flat[i - 1] \o seqs[i]
    <3> HIDE DEF N
    <3> QED
      BY <2>2 DEF IsFlat
  <2>4. Bad = {}
    <3> SUFFICES ASSUME Bad # {} PROVE FALSE
      OBVIOUS
    <3>1. PICK i \in Bad : \A m \in Bad : i <= m
      <4>1. Bad \in SUBSET Nat
        OBVIOUS
      <4> HIDE DEF Bad
      <4> QED
        BY <4>1, LeastNat
    <3>2. i \in 1..N /\ ~Good(i)
      OBVIOUS
    <3>3. seqs[i] \in Seq(S) /\ Len(seqs[i]) \in Nat
      BY <1>1, <3>2
    <3>4. CASE i = 1
      <4>1. flat[i] = seqs[i] /\ r[0] = 0
        BY <1>2, <2>3, <3>2, <3>4
      <4>2. r[i] = Len(seqs[i])
        BY <1>2, <3>2, <3>3, <3>4
      <4>3. \A j \in 1..i : \A k \in 1..Len(seqs[j]) : flat[i][r[j - 1] + k] = seqs[j][k]
        <5>1. \A j \in 1..i : j = i /\ r[j - 1] = 0
          BY <3>4, <4>1
        <5>2. \A k \in 1..Len(seqs[i]) : 0 + k = k
          BY <3>3
        <5> QED
          BY <4>1, <5>1, <5>2
      <4>4. Good(i)
        BY <3>3, <4>1, <4>2, <4>3
      <4> QED
        BY <3>2, <4>4
    <3>5. CASE i # 1
      <4>1. i - 1 \in 1..N /\ ~(i <= i - 1) /\ i - 1 \in 0..N /\ i \in 0..N
        BY <1>1, <3>2, <3>5
      <4>2. Good(i - 1)
        BY <3>1, <4>1
      <4> DEFINE front == flat[i - 1]
      <4>3. /\ front \in Seq(S) /\ Len(front) = r[i - 1]
            /\ \A j \in 1..(i - 1) : \A k \in 1..Len(seqs[j]) : front[r[j - 1] + k] = seqs[j][k]
        BY <4>2
      <4>4. flat[i] = front \o seqs[i]
        BY <2>3, <3>2, <3>5
      <4> HIDE DEF Good, Bad, front
      <4>5. r[i] = r[i - 1] + Len(seqs[i]) /\ r[i - 1] \in Nat /\ r[i] \in Nat
        BY <1>2, <3>2, <4>1
      <4>6. /\ flat[i] \in Seq(S) /\ Len(flat[i]) = r[i]
            /\ \A p \in 1..r[i] :
                 flat[i][p] = IF p <= r[i - 1] THEN front[p] ELSE seqs[i][p - r[i - 1]]
        <5>1. /\ front \o seqs[i] \in Seq(S)
              /\ Len(front \o seqs[i]) = Len(front) + Len(seqs[i])
              /\ \A p \in 1..(Len(front) + Len(seqs[i])) : (front \o seqs[i])[p] =
                   IF p <= Len(front) THEN front[p] ELSE seqs[i][p - Len(front)]
          BY <3>3, <4>3, ConcatProperties
        <5> QED
          BY <4>3, <4>4, <4>5, <5>1
      <4>7. ASSUME NEW j \in 1..i, NEW k \in 1..Len(seqs[j])
            PROVE  flat[i][r[j - 1] + k] = seqs[j][k]
        <5>1. CASE j = i
          <6>1. r[i - 1] + k \in 1..r[i] /\ ~(r[i - 1] + k <= r[i - 1])
                /\ (r[i - 1] + k) - r[i - 1] = k
            BY <3>3, <4>5, <5>1
          <6> QED
            BY <4>6, <5>1, <6>1
        <5>2. CASE j # i
          <6>1. j \in 1..(i - 1) /\ j \in 1..N /\ j - 1 \in 0..N /\ j \in 0..(i - 1) /\ j \in 0..N
            BY <1>1, <3>2, <5>2
          <6>2. seqs[j] \in Seq(S) /\ Len(seqs[j]) \in Nat
            BY <1>1, <6>1
          <6>3. /\ r[j] = r[j - 1] + Len(seqs[j]) /\ r[j - 1] \in Nat
                /\ r[j] <= r[i - 1]
            BY <1>2, <4>1, <6>1
          <6>4. r[j - 1] + k \in 1..r[i] /\ r[j - 1] + k <= r[i - 1]
            <7>1. ASSUME NEW a \in Nat, NEW b \in Nat, NEW l \in Nat, NEW c \in Nat,
                         NEW d \in Nat, NEW h \in 1..l, b = a + l, b <= c, c <= d
                  PROVE  a + h \in 1..d /\ a + h <= c
              BY <7>1
            <7>2. r[i - 1] <= r[i]
              BY <3>3, <4>5
            <7>3. r[j] \in Nat
              BY <1>2, <6>1
            <7> QED
              BY <4>5, <6>2, <6>3, <7>1, <7>2, <7>3
          <6>5. front[r[j - 1] + k] = seqs[j][k]
            BY <4>3, <6>1
          <6>6. flat[i][r[j - 1] + k] = front[r[j - 1] + k]
            BY <4>6, <6>4
          <6> QED
            BY <6>5, <6>6
        <5> QED
          BY <5>1, <5>2
      <4>8. Good(i)
        BY <4>6, <4>7 DEF Good
      <4> QED
        BY <3>2, <4>8
    <3> QED
      BY <3>4, <3>5
  <2>5. N \in 1..N
    BY <1>1, <1>4
  <2>6. Good(N)
    BY <2>4, <2>5
  <2> QED
    BY <2>1, <2>6
<1> QED
  BY <1>3, <1>4

\* What a file consists of.
Line == [kind : {"header"}, name : Name, tid : Nat] \cup [kind : {"frame"}, addr : Addr]

\* The lines of one thread.
LEMMA LinesOfStack ==
  ASSUME NEW s \in Stack
  PROVE  /\ Lines(s) \in Seq(Line)
         /\ Len(Lines(s)) = 1 + Len(s.frames) /\ Len(s.frames) \in Nat
         /\ Lines(s)[1] = Header(s.name, s.tid)
         /\ \A k \in 1..Len(s.frames) : Lines(s)[1 + k] = Frame(s.frames[k])
<1> DEFINE n == Len(s.frames)
           head == <<Header(s.name, s.tid)>>
           rest == [i \in DOMAIN s.frames |-> Frame(s.frames[i])]
<1>1. n \in Nat /\ DOMAIN s.frames = 1..n /\ s.frames \in Seq(Addr)
  BY DEF Stack
<1>2. head \in Seq(Line) /\ Len(head) = 1 /\ head[1] = Header(s.name, s.tid)
  <2>1. Header(s.name, s.tid) \in Line
    BY DEF Header, Line, Stack
  <2> QED
    BY <2>1
<1>3. rest \in Seq(Line) /\ Len(rest) = n /\ \A k \in 1..n : rest[k] = Frame(s.frames[k])
  <2>1. rest = [i \in 1..n |-> Frame(s.frames[i])]
    BY <1>1
  <2>2. \A i \in 1..n : Frame(s.frames[i]) \in Line
    <3> TAKE i \in 1..n
    <3>1. s.frames[i] \in Addr
      BY <1>1
    <3> QED
      BY <3>1 DEF Frame, Line
  <2>3. rest \in [1..n -> Line]
    BY <2>1, <2>2
  <2>4. rest \in Seq(Line)
    BY <1>1, <2>3, SeqDef
  <2>5. DOMAIN rest = 1..n
    BY <2>1
  <2>6. Len(rest) = n
    BY <1>1, <2>4, <2>5, LenProperties
  <2> QED
    BY <2>1, <2>4, <2>6
<1>4. Lines(s) = head \o rest
  BY DEF Lines
<1> HIDE DEF head, rest, n
<1>5. /\ Lines(s) \in Seq(Line)
      /\ Len(Lines(s)) = 1 + n
      /\ \A i \in 1..(1 + n) : Lines(s)[i] = IF i <= 1 THEN head[i] ELSE rest[i - 1]
  <2>1. /\ head \o rest \in Seq(Line)
        /\ Len(head \o rest) = Len(head) + Len(rest)
        /\ \A i \in 1..(Len(head) + Len(rest)) : (head \o rest)[i] =
             IF i <= Len(head) THEN head[i] ELSE rest[i - Len(head)]
    BY <1>2, <1>3, ConcatProperties
  <2> QED
    BY <1>2, <1>3, <1>4, <2>1
<1>6. Lines(s)[1] = Header(s.name, s.tid)
  BY <1>1, <1>2, <1>5
<1>7. ASSUME NEW k \in 1..n PROVE Lines(s)[1 + k] = Frame(s.frames[k])
  <2>1. 1 + k \in 1..(1 + n) /\ ~(1 + k <= 1) /\ (1 + k) - 1 = k
    BY <1>1
  <2> QED
    BY <1>3, <1>5, <2>1
<1> QED
  BY <1>1, <1>5, <1>6, <1>7 DEF n

\* Which line is where in a file.
LEMMA LinesOfAll ==
  ASSUME NEW stacks \in Seq(Stack), NEW r,
         IsSum(r, 0, [i \in 1..Len(stacks) |-> 1 + Len(stacks[i].frames)], Len(stacks))
  PROVE  /\ PrintAll(stacks) \in Seq(Line)
         /\ Len(PrintAll(stacks)) = r[Len(stacks)]
         /\ r[0] = 0
         /\ \A n \in 0..Len(stacks) : r[n] \in Nat
         /\ \A n \in 1..Len(stacks) : r[n] = r[n - 1] + 1 + Len(stacks[n].frames)
         /\ \A n \in 0..Len(stacks) : r[n] <= r[Len(stacks)]
         /\ \A n \in 1..Len(stacks) :
              /\ PrintAll(stacks)[r[n - 1] + 1] = Header(stacks[n].name, stacks[n].tid)
              /\ \A k \in 1..Len(stacks[n].frames) :
                   PrintAll(stacks)[r[n - 1] + 1 + k] = Frame(stacks[n].frames[k])
<1> DEFINE N == Len(stacks)
           step == [i \in 1..N |-> 1 + Len(stacks[i].frames)]
           seqs == [i \in DOMAIN stacks |-> Lines(stacks[i])]
<1>1. N \in Nat /\ DOMAIN stacks = 1..N /\ \A i \in 1..N : stacks[i] \in Stack
  OBVIOUS
<1>2. /\ \A i \in 1..N : Lines(stacks[i]) \in Seq(Line)
      /\ \A i \in 1..N : Len(Lines(stacks[i])) = 1 + Len(stacks[i].frames)
      /\ \A i \in 1..N : Len(stacks[i].frames) \in Nat
  BY <1>1, LinesOfStack
<1>3. step \in [1..N -> Nat]
  BY <1>2
<1>4. IsSum(r, 0, step, N)
  OBVIOUS
<1>5. seqs \in Seq(Seq(Line)) /\ Len(seqs) = N /\ \A i \in 1..N : seqs[i] = Lines(stacks[i])
  <2>1. seqs = [i \in 1..N |-> Lines(stacks[i])]
    BY <1>1
  <2> HIDE DEF seqs, N
  <2>2. seqs \in [1..N -> Seq(Line)]
    BY <1>2, <2>1
  <2>3. seqs \in Seq(Seq(Line))
    BY <1>1, <2>2, SeqDef
  <2>4. DOMAIN seqs = 1..N
    BY <2>1
  <2>5. Len(seqs) = N
    BY <1>1, <2>3, <2>4, LenProperties
  <2> QED
    BY <2>1, <2>3, <2>5
<1>6. PrintAll(stacks) = FlattenSeq(seqs)
  BY DEF PrintAll
<1> HIDE DEF seqs
<1>7. step = [i \in 1..Len(seqs) |-> Len(seqs[i])]
  BY <1>2, <1>5
<1> HIDE DEF step
<1>8. /\ PrintAll(stacks) \in Seq(Line)
      /\ Len(PrintAll(stacks)) = r[N]
      /\ \A i \in 1..N : \A k \in 1..Len(seqs[i]) :
           PrintAll(stacks)[r[i - 1] + k] = seqs[i][k]
  <2> HIDE DEF N
  <2>1. IsSum(r, 0, [i \in 1..Len(seqs) |-> Len(seqs[i])], Len(seqs))
    BY <1>4, <1>5, <1>7
  <2>2. /\ FlattenSeq(seqs) \in Seq(Line)
        /\ Len(FlattenSeq(seqs)) = r[Len(seqs)]
        /\ \A i \in 1..Len(seqs) : \A k \in 1..Len(seqs[i]) :
             FlattenSeq(seqs)[r[i - 1] + k] = seqs[i][k]
    <3>1. seqs \in Seq(Seq(Line))
      BY <1>5
    <3> QED
      BY <2>1, <3>1, Flattened
  <2> QED
    BY <1>5, <1>6, <2>2
<1>9. /\ r[0] = 0
      /\ \A n \in 1..N : r[n] = r[n - 1] + step[n]
      /\ \A n \in 0..N : r[n] \in Nat
      /\ \A n \in 0..N : r[n] <= r[N]
  <2> HIDE DEF N
  <2>1. 0 \in Nat /\ N \in 0..N
    BY <1>1
  <2>2. /\ r[0] = 0
        /\ \A n \in 1..N : r[n] = r[n - 1] + step[n]
        /\ \A n \in 0..N : r[n] \in Nat
        /\ \A m \in 0..N : \A n \in 0..m : r[n] <= r[m]
    BY <1>1, <1>3, <1>4, <2>1, SumGrows
  <2> QED
    BY <2>1, <2>2
<1>10. \A n \in 1..N : r[n] = r[n - 1] + 1 + Len(stacks[n].frames)
  <2> TAKE n \in 1..N
  <2>1. step[n] = 1 + Len(stacks[n].frames)
    BY DEF step
  <2>2. n - 1 \in 0..N
    BY <1>1
  <2>3. r[n - 1] \in Nat /\ Len(stacks[n].frames) \in Nat
    BY <1>2, <1>9, <2>2
  <2>4. r[n] = r[n - 1] + step[n]
    BY <1>9
  <2>5. \A a, b \in Nat : a + (1 + b) = a + 1 + b
    OBVIOUS
  <2> QED
    BY <2>1, <2>3, <2>4, <2>5
<1>11. ASSUME NEW n \in 1..N
       PROVE  /\ PrintAll(stacks)[r[n - 1] + 1] = Header(stacks[n].name, stacks[n].tid)
              /\ \A k \in 1..Len(stacks[n].frames) :
                   PrintAll(stacks)[r[n - 1] + 1 + k] = Frame(stacks[n].frames[k])
  <2>1. /\ seqs[n] = Lines(stacks[n]) /\ stacks[n] \in Stack /\ n - 1 \in 0..N
        /\ Len(seqs[n]) = 1 + Len(stacks[n].frames) /\ Len(stacks[n].frames) \in Nat
    BY <1>1, <1>2, <1>5
  <2>2. /\ Lines(stacks[n])[1] = Header(stacks[n].name, stacks[n].tid)
        /\ \A k \in 1..Len(stacks[n].frames) :
             Lines(stacks[n])[1 + k] = Frame(stacks[n].frames[k])
    BY <2>1, LinesOfStack
  <2>3. r[n - 1] \in Nat
    BY <1>9, <2>1
  <2>4. 1 \in 1..Len(seqs[n])
    BY <2>1
  <2>5. ASSUME NEW k \in 1..Len(stacks[n].frames)
        PROVE  PrintAll(stacks)[r[n - 1] + 1 + k] = Frame(stacks[n].frames[k])
    <3>1. 1 + k \in 1..Len(seqs[n]) /\ r[n - 1] + (1 + k) = r[n - 1] + 1 + k
      <4>1. \A a, b \in Nat : a + (1 + b) = a + 1 + b
        OBVIOUS
      <4>2. 1 + k \in 1..Len(seqs[n]) /\ k \in Nat
        BY <2>1
      <4> QED
        BY <2>3, <4>1, <4>2
    <3> QED
      BY <1>8, <2>1, <2>2, <3>1
  <2> QED
    BY <1>8, <2>1, <2>2, <2>4, <2>5
<1> QED
  BY <1>8, <1>9, <1>10, <1>11

LineEnds(stacks) ==
  CHOOSE r : IsSum(r, 0, [i \in 1..Len(stacks) |-> 1 + Len(stacks[i].frames)], Len(stacks))

\* How many lines the first threads have, and which line is where.
LEMMA LinesOfCapture ==
  ASSUME captured \in Seq(Stack)
  PROVE  /\ PrintAll(captured) \in Seq(Line)
         /\ Len(PrintAll(captured)) = LineEnds(captured)[Len(captured)]
         /\ LineEnds(captured)[0] = 0
         /\ \A n \in 0..Len(captured) : LineEnds(captured)[n] \in Nat
         /\ \A n \in 1..Len(captured) :
              LineEnds(captured)[n] = LineEnds(captured)[n - 1] + 1 + Len(captured[n].frames)
         /\ \A n \in 0..Len(captured) :
              LineEnds(captured)[n] <= LineEnds(captured)[Len(captured)]
         /\ \A n \in 1..Len(captured) :
              /\ PrintAll(captured)[LineEnds(captured)[n - 1] + 1] =
                   Header(captured[n].name, captured[n].tid)
              /\ \A k \in 1..Len(captured[n].frames) :
                   PrintAll(captured)[LineEnds(captured)[n - 1] + 1 + k] =
                     Frame(captured[n].frames[k])
<1> DEFINE N == Len(captured)
           step == [i \in 1..N |-> 1 + Len(captured[i].frames)]
<1>1. N \in Nat
  OBVIOUS
<1>2. \E r : IsSum(r, 0, step, N)
  <2> HIDE DEF step, N
  <2> QED
    BY <1>1, SumExists
<1>3. IsSum(LineEnds(captured), 0, step, N)
  BY <1>2 DEF LineEnds
<1> QED
  BY <1>3, LinesOfAll

\* What becomes of a thread that is read from its lines.
ReadBack(s) == [tid |-> HeaderTid(Header(s.name, s.tid)), frames |-> s.frames]

BT == [tid : Nat, frames : Seq(Addr)]

AtStart ==
  /\ current = NoStack /\ backtraces = <<>>
  /\ lines = SubSeq(PrintAll(captured), cut + 1, Len(PrintAll(captured)))

\* The threads before the i-th have been read, and k frames of the i-th.
Within(i, k) ==
  /\ backtraces = [j \in 1..(i - 1) |-> ReadBack(captured[j])]
  /\ current = [tid |-> ReadBack(captured[i]).tid,
                frames |-> [f \in 1..k |-> captured[i].frames[f]]]
  /\ lines = SubSeq(PrintAll(captured), LineEnds(captured)[i - 1] + 1 + k + 1,
                    Len(PrintAll(captured)))

\* A whole file is read thread after thread; one without its first line is
\* not read beyond its first frame.
FileInv ==
  /\ captured \in Seq(Stack)
  /\ cut \in 0..1 /\ DOMAIN names \subseteq Nat
  /\ outcome \in {"none", "reading", "invalid", "crash", "done"}
  /\ backtraces \in Seq(BT) /\ current \in {NoStack} \cup BT
  /\ outcome = "reading" =>
       \/ AtStart
       \/ /\ cut = 0
          /\ \E i \in 1..Len(captured) : \E k \in 0..Len(captured[i].frames) : Within(i, k)
  /\ outcome = "done" => backtraces = [j \in 1..Len(captured) |-> ReadBack(captured[j])]
  /\ outcome = "crash" => cut = 1
  /\ outcome = "invalid" /\ cut = 0 => ~Plain(captured)

\* The rest of a file, from one of its lines on.
LEMMA Rest ==
  ASSUME NEW all \in Seq(Line), NEW p \in Nat, p >= 1
  PROVE  /\ p > Len(all) => SubSeq(all, p, Len(all)) = <<>>
         /\ p <= Len(all) => /\ SubSeq(all, p, Len(all)) # <<>>
                             /\ Head(SubSeq(all, p, Len(all))) = all[p]
                             /\ Tail(SubSeq(all, p, Len(all))) = SubSeq(all, p + 1, Len(all))
<1>1. Len(all) \in Nat
  OBVIOUS
<1>2. CASE p > Len(all)
  BY <1>1, <1>2, SubSeqEmpty
<1>3. CASE p <= Len(all)
  <2>1. p \in 1..Len(all) /\ Len(all) \in p..Len(all) /\ p \in Int /\ Len(all) \in Int
    BY <1>1, <1>3
  <2>2. /\ Head(SubSeq(all, p, Len(all))) = all[p]
        /\ Tail(SubSeq(all, p, Len(all))) = SubSeq(all, p + 1, Len(all))
    BY <2>1, HeadTailOfSubSeq
  <2>3. \A i \in p..Len(all) : all[i] \in Line
    <3> TAKE i \in p..Len(all)
    <3>1. i \in 1..Len(all)
      BY <2>1
    <3> QED
      BY <3>1, ElementOfSeq
  <2>4. Len(SubSeq(all, p, Len(all))) = Len(all) - p + 1
    BY <1>3, <2>1, <2>3, SubSeqProperties
  <2>5. SubSeq(all, p, Len(all)) # <<>>
    <3>1. Len(all) - p + 1 # 0
      BY <1>1, <1>3
    <3>2. Len(<<>>) = 0
      OBVIOUS
    <3> QED
      BY <2>4, <3>1, <3>2
  <2> QED
    BY <1>1, <1>3, <2>2, <2>5
<1> QED
  BY <1>1, <1>2, <1>3

\* The line after k frames of the i-th thread.
LEMMA NextLine ==
  ASSUME captured \in Seq(Stack), NEW i \in 1..Len(captured),
         NEW k \in 0..Len(captured[i].frames), Within(i, k)
  PROVE  /\ k < Len(captured[i].frames) =>
              /\ lines # <<>>
              /\ Head(lines) = Frame(captured[i].frames[k + 1])
              /\ Tail(lines) = SubSeq(PrintAll(captured),
                                      LineEnds(captured)[i - 1] + 1 + (k + 1) + 1,
                                      Len(PrintAll(captured)))
         /\ k = Len(captured[i].frames) /\ i < Len(captured) =>
              /\ lines # <<>>
              /\ Head(lines) = Header(captured[i + 1].name, captured[i + 1].tid)
              /\ Tail(lines) = SubSeq(PrintAll(captured),
                                      LineEnds(captured)[i] + 1 + 0 + 1,
                                      Len(PrintAll(captured)))
         /\ k = Len(captured[i].frames) /\ i = Len(captured) => lines = <<>>
<1> DEFINE N == Len(captured)
           all == PrintAll(captured)
           E == LineEnds(captured)
           n == Len(captured[i].frames)
<1>1. N \in Nat /\ n \in Nat /\ captured[i] \in Stack
  <2>1. captured[i] \in Stack
    OBVIOUS
  <2> QED
    BY <2>1 DEF Stack
<1>2. /\ all \in Seq(Line) /\ Len(all) = E[N]
      /\ \A m \in 0..N : E[m] \in Nat /\ E[m] <= E[N]
      /\ \A m \in 1..N : E[m] = E[m - 1] + 1 + Len(captured[m].frames)
      /\ \A m \in 1..N : all[E[m - 1] + 1] = Header(captured[m].name, captured[m].tid)
      /\ \A m \in 1..N : \A f \in 1..Len(captured[m].frames) :
           all[E[m - 1] + 1 + f] = Frame(captured[m].frames[f])
  BY LinesOfCapture
<1>3. lines = SubSeq(all, E[i - 1] + 1 + k + 1, Len(all))
  BY DEF Within
<1> HIDE DEF all, E, N
<1>4. i \in 1..N /\ i \in 0..N /\ i - 1 \in 0..N /\ k \in 0..n
  BY <1>1 DEF N
<1>5. PICK e \in Nat : e = E[i - 1]
  BY <1>2, <1>4
<1>6. E[i] = e + 1 + n /\ E[i] <= Len(all) /\ Len(all) \in Nat
  BY <1>2, <1>4, <1>5
<1> HIDE DEF n
<1> DEFINE p == e + 1 + k + 1
<1>7. p \in Nat /\ p >= 1 /\ lines = SubSeq(all, p, Len(all))
  <2>1. k \in Nat
    BY <1>1, <1>4
  <2>2. p \in Nat /\ p >= 1
    BY <2>1
  <2> QED
    BY <1>3, <1>5, <2>2
<1>8. /\ p > Len(all) => lines = <<>>
      /\ p <= Len(all) => /\ lines # <<>>
                          /\ Head(lines) = all[p]
                          /\ Tail(lines) = SubSeq(all, p + 1, Len(all))
  <2> HIDE DEF p
  <2> QED
    BY <1>2, <1>7, Rest
<1>9. ASSUME k < n
      PROVE  /\ lines # <<>> /\ Head(lines) = Frame(captured[i].frames[k + 1])
             /\ Tail(lines) = SubSeq(all, E[i - 1] + 1 + (k + 1) + 1, Len(all))
  <2>1. p <= Len(all) /\ p = e + 1 + (k + 1) /\ p + 1 = e + 1 + (k + 1) + 1 /\ k + 1 \in 1..n
    <3>1. k \in Nat
      BY <1>1, <1>4
    <3> QED
      BY <1>1, <1>6, <1>9, <3>1
  <2>2. all[e + 1 + (k + 1)] = Frame(captured[i].frames[k + 1])
    BY <1>2, <1>4, <1>5, <2>1 DEF n
  <2> HIDE DEF p
  <2> QED
    BY <1>5, <1>8, <2>1, <2>2
<1>10. ASSUME k = n, i < N
       PROVE  /\ lines # <<>> /\ Head(lines) = Header(captured[i + 1].name, captured[i + 1].tid)
              /\ Tail(lines) = SubSeq(all, E[i] + 1 + 0 + 1, Len(all))
  <2>1. i + 1 \in 1..N /\ i + 1 \in 0..N /\ (i + 1) - 1 = i
    BY <1>1, <1>4, <1>10
  <2>2. all[E[i] + 1] = Header(captured[i + 1].name, captured[i + 1].tid)
    BY <1>2, <2>1
  <2>3. captured[i + 1] \in Stack /\ Len(captured[i + 1].frames) \in Nat
    <3>1. captured[i + 1] \in Stack
      BY <2>1 DEF N
    <3> QED
      BY <3>1 DEF Stack
  <2>4. E[i + 1] = E[i] + 1 + Len(captured[i + 1].frames) /\ E[i + 1] <= Len(all)
    BY <1>2, <2>1
  <2>5. p = E[i] + 1 /\ p + 1 = E[i] + 1 + 0 + 1
    BY <1>1, <1>5, <1>6, <1>10
  <2>6. p <= Len(all)
    <3>1. E[i] \in Nat
      BY <1>2, <1>4
    <3>2. \A a, b, c, d \in Nat : b = a + 1 + c /\ b <= d => a + 1 <= d
      OBVIOUS
    <3>3. E[i + 1] \in Nat
      BY <1>2, <2>1
    <3> HIDE DEF p
    <3> QED
      BY <1>6, <2>3, <2>4, <2>5, <3>1, <3>2, <3>3
  <2> HIDE DEF p
  <2> QED
    BY <1>8, <2>2, <2>5, <2>6
<1>11. ASSUME k = n, i = N PROVE lines = <<>>
  <2>1. p > Len(all)
    BY <1>1, <1>2, <1>5, <1>6, <1>11
  <2> QED
    BY <1>8, <2>1
<1> QED
  BY <1>9, <1>10, <1>11 DEF N, all, E, n

\* The first line of a file, or the second when the first is missing.
LEMMA FirstLine ==
  ASSUME captured \in Seq(Stack), cut \in 0..1, AtStart
  PROVE  /\ captured = <<>> => lines = <<>>
         /\ captured # <<>> => lines # <<>>
         /\ captured # <<>> /\ cut = 0 =>
              /\ Head(lines) = Header(captured[1].name, captured[1].tid)
              /\ Tail(lines) = SubSeq(PrintAll(captured),
                                      LineEnds(captured)[0] + 1 + 0 + 1,
                                      Len(PrintAll(captured)))
         /\ captured # <<>> /\ cut = 1 => Head(lines) = Frame(captured[1].frames[1])
<1> DEFINE N == Len(captured)
           all == PrintAll(captured)
           E == LineEnds(captured)
<1>1. /\ all \in Seq(Line) /\ Len(all) = E[N] /\ E[0] = 0
      /\ \A m \in 0..N : E[m] \in Nat /\ E[m] <= E[N]
      /\ \A m \in 1..N : E[m] = E[m - 1] + 1 + Len(captured[m].frames)
      /\ \A m \in 1..N : all[E[m - 1] + 1] = Header(captured[m].name, captured[m].tid)
      /\ \A m \in 1..N : \A f \in 1..Len(captured[m].frames) :
           all[E[m - 1] + 1 + f] = Frame(captured[m].frames[f])
  BY LinesOfCapture
<1>2. lines = SubSeq(all, cut + 1, Len(all))
  BY DEF AtStart
<1> HIDE DEF all, E
<1>3. /\ cut + 1 > Len(all) => lines = <<>>
      /\ cut + 1 <= Len(all) => /\ lines # <<>>
                                /\ Head(lines) = all[cut + 1]
                                /\ Tail(lines) = SubSeq(all, (cut + 1) + 1, Len(all))
  <2>1. cut + 1 \in Nat /\ cut + 1 >= 1
    OBVIOUS
  <2> QED
    BY <1>1, <1>2, <2>1, Rest
<1>4. CASE captured = <<>>
  <2>1. N = 0
    BY <1>4
  <2>2. Len(all) = 0
    BY <1>1, <2>1
  <2> QED
    BY <1>3, <1>4, <2>2
<1>5. CASE captured # <<>>
  <2>1. 1 \in 1..N /\ 1 \in 0..N /\ 1 - 1 = 0
    BY <1>5
  <2>2. captured[1] \in Stack
    BY <2>1
  <2>3. Len(captured[1].frames) \in Nat /\ Len(captured[1].frames) >= 1
    BY <2>2 DEF Stack
  <2> HIDE DEF N
  <2>4. E[1] = E[0] + 1 + Len(captured[1].frames) /\ E[1] <= E[N] /\ E[N] \in Nat
    <3>1. N \in 0..N
      BY DEF N
    <3> QED
      BY <1>1, <2>1, <3>1
  <2>5. Len(all) >= 2 /\ Len(all) \in Nat
    BY <1>1, <2>3, <2>4
  <2>6. cut + 1 <= Len(all)
    BY <2>5
  <2>7. all[E[0] + 1] = Header(captured[1].name, captured[1].tid)
    BY <1>1, <2>1
  <2>8. all[E[0] + 1 + 1] = Frame(captured[1].frames[1])
    BY <1>1, <2>1, <2>3
  <2>9. cut = 0 => cut + 1 = E[0] + 1 /\ (cut + 1) + 1 = E[0] + 1 + 0 + 1
    BY <1>1
  <2>10. cut = 1 => cut + 1 = E[0] + 1 + 1
    BY <1>1
  <2> QED
    BY <1>3, <1>5, <2>6, <2>7, <2>8, <2>9, <2>10 DEF all, E
<1> QED
  BY <1>4, <1>5

\* What a header and a frame are not taken for.
LEMMA Kinds ==
  /\ \A name, tid : ~IsFrame(Header(name, tid))
  /\ \A addr : ~IsHeader(Frame(addr))
BY DEF IsFrame, IsHeader, Header, Frame

LEMMA ReadBackTyped ==
  ASSUME NEW s \in Stack
  PROVE  ReadBack(s) \in BT
<1>1. s.tid \in Nat /\ s.frames \in Seq(Addr)
  BY DEF Stack
<1>2. HeaderTid(Header(s.name, s.tid)) \in Nat
  BY <1>1 DEF HeaderTid, Header, NumberIn
<1> QED
  BY <1>1, <1>2 DEF ReadBack, BT

\* A stack is open while its frames are read, and complete behind the last.
LEMMA WithinOpened ==
  ASSUME captured \in Seq(Stack), NEW i \in 1..Len(captured), NEW k, Within(i, k)
  PROVE  /\ Opened
         /\ k = Len(captured[i].frames) => current = ReadBack(captured[i])
<1>1. captured[i] \in Stack
  OBVIOUS
<1>2. ReadBack(captured[i]) \in BT
  BY <1>1, ReadBackTyped
<1>3. current.tid \in Nat
  BY <1>2 DEF Within, BT
<1>4. NoStack.tid = -1
  BY DEF NoStack
<1>5. Opened
  BY <1>3, <1>4 DEF Opened
<1>6. ASSUME k = Len(captured[i].frames) PROVE current = ReadBack(captured[i])
  <2>1. captured[i].frames \in Seq(Addr)
    BY <1>1 DEF Stack
  <2>2. [f \in 1..k |-> captured[i].frames[f]] = captured[i].frames
    BY <1>6, <2>1
  <2> QED
    BY <2>2 DEF Within, ReadBack
<1> QED
  BY <1>5, <1>6

\* Closing the i-th stack.
LEMMA ClosesStack ==
  ASSUME captured \in Seq(Stack), NEW i \in 1..Len(captured),
         Within(i, Len(captured[i].frames))
  PROVE  Append(backtraces, current) = [j \in 1..i |-> ReadBack(captured[j])]
<1> DEFINE f == [j \in 1..Len(captured) |-> ReadBack(captured[j])]
<1>1. /\ i - 1 \in Nat /\ (i - 1) + 1 = i
      /\ \A j \in 1..i : j \in 1..Len(captured)
      /\ \A j \in 1..(i - 1) : j \in 1..Len(captured)
  OBVIOUS
<1>2. \A j \in 1..Len(captured) : f[j] = ReadBack(captured[j])
  OBVIOUS
<1> HIDE DEF f
<1>3. current = f[(i - 1) + 1]
  BY <1>1, <1>2, WithinOpened
<1>4. backtraces = [j \in 1..(i - 1) |-> f[j]]
  BY <1>1, <1>2 DEF Within
<1>5. Append(backtraces, current) = [j \in 1..((i - 1) + 1) |-> f[j]]
  BY <1>1, <1>3, <1>4, AppendNext
<1> QED
  BY <1>1, <1>2, <1>5

LEMMA FileInit == Init => FileInv
<1> SUFFICES ASSUME Init PROVE FileInv
  OBVIOUS
<1>1. captured \in Seq(Stack)
  BY CapturedStacks
<1>2. backtraces = <<>> /\ current = NoStack /\ names = <<>> /\ cut \in 0..1
  BY DEF Init, FileStart, NoFile
<1>3. (outcome = "reading" /\ AtStart) \/ outcome = "none"
  BY DEF Init, FileStart, NoFile, AtStart
<1>4. DOMAIN names \subseteq Nat /\ backtraces \in Seq(BT)
  BY <1>2
<1> QED
  BY <1>1, <1>2, <1>3, <1>4 DEF FileInv

\* A frame of a whole file is the next of the stack that is open.
LEMMA ReadFrameKeeps ==
  ASSUME FileInv, ReadFrame, captured' = captured
  PROVE  FileInv'
<1>1. /\ captured \in Seq(Stack) /\ cut \in 0..1 /\ cut' = cut
      /\ outcome = "reading" /\ lines # <<>> /\ lines' = Tail(lines)
      /\ IsFrame(Head(lines))
      /\ UNCHANGED <<backtraces, names>>
      /\ backtraces \in Seq(BT) /\ DOMAIN names \subseteq Nat
  BY DEF ReadFrame, Reading, FileInv
<1>2. CASE AtStart
  <2>1. current = NoStack /\ ~Opened
    BY <1>2 DEF AtStart, Opened
  <2>2. outcome' = "crash" /\ current' = NoStack
    BY <2>1 DEF ReadFrame
  <2>3. cut = 1
    <3>1. captured # <<>>
      BY <1>1, <1>2, FirstLine
    <3>2. cut # 0
      BY <1>1, <1>2, <3>1, FirstLine, Kinds
    <3> QED
      BY <1>1, <3>2
  <2> QED
    BY <1>1, <2>2, <2>3 DEF FileInv
<1>3. CASE \E i \in 1..Len(captured) : \E k \in 0..Len(captured[i].frames) :
             cut = 0 /\ Within(i, k)
  <2>1. PICK i \in 1..Len(captured) : \E k \in 0..Len(captured[i].frames) :
               cut = 0 /\ Within(i, k)
    BY <1>3
  <2>2. PICK k \in 0..Len(captured[i].frames) : cut = 0 /\ Within(i, k)
    BY <2>1
  <2> DEFINE s == captured[i].frames
  <2>3. captured[i] \in Stack /\ s \in Seq(Addr) /\ Len(s) \in Nat
    <3>1. captured[i] \in Stack
      BY <1>1
    <3> HIDE DEF s
    <3>2. captured[i].frames \in Seq(Addr)
      BY <3>1 DEF Stack
    <3> QED
      BY <3>1, <3>2 DEF s
  <2>4. k < Len(s)
    <3>1. k # Len(s)
      <4> SUFFICES ASSUME k = Len(s) PROVE FALSE
        OBVIOUS
      <4>1. i < Len(captured) => Head(lines) = Header(captured[i + 1].name, captured[i + 1].tid)
        BY <1>1, <2>2, NextLine
      <4>2. i = Len(captured) => lines = <<>>
        BY <1>1, <2>2, NextLine
      <4>3. i < Len(captured) \/ i = Len(captured)
        BY <1>1
      <4> QED
        BY <1>1, <4>1, <4>2, <4>3, Kinds
    <3> QED
      BY <2>3, <3>1
  <2>5. /\ Head(lines) = Frame(s[k + 1])
        /\ lines' = SubSeq(PrintAll(captured), LineEnds(captured)[i - 1] + 1 + (k + 1) + 1,
                           Len(PrintAll(captured)))
    BY <1>1, <2>2, <2>4, NextLine
  <2>6. Opened
    BY <1>1, <2>2, WithinOpened
  <2>7. /\ outcome' = "reading"
        /\ current' = [current EXCEPT !.frames = Append(@, s[k + 1])]
    BY <1>1, <2>5, <2>6 DEF ReadFrame, Frame
  <2>8. /\ current = [tid |-> ReadBack(captured[i]).tid, frames |-> [f \in 1..k |-> s[f]]]
        /\ backtraces = [j \in 1..(i - 1) |-> ReadBack(captured[j])]
    BY <2>2 DEF Within
  <2> HIDE DEF s
  <2>9. Append([f \in 1..k |-> s[f]], s[k + 1]) = [f \in 1..(k + 1) |-> s[f]]
    <3>1. k \in Nat
      BY <2>3
    <3> QED
      BY <3>1, AppendNext
  <2>10. current' = [tid |-> ReadBack(captured[i]).tid, frames |-> [f \in 1..(k + 1) |-> s[f]]]
    BY <2>7, <2>8, <2>9
  <2>11. Within(i, k + 1)'
    BY <1>1, <2>5, <2>8, <2>10 DEF Within, s
  <2>12. k + 1 \in 0..Len(s)
    BY <2>3, <2>4
  <2>13. current' \in BT
    <3>1. ReadBack(captured[i]).tid \in Nat
      BY <2>3, ReadBackTyped DEF BT
    <3>2. \A f \in 1..(k + 1) : s[f] \in Addr
      BY <2>3, <2>12
    <3>3. k + 1 \in Nat
      BY <2>3, <2>12
    <3>4. [f \in 1..(k + 1) |-> s[f]] \in Seq(Addr)
      <4>1. [f \in 1..(k + 1) |-> s[f]] \in [1..(k + 1) -> Addr]
        BY <3>2
      <4> QED
        BY <3>3, <4>1, SeqDef
    <3> QED
      BY <2>10, <3>1, <3>4 DEF BT
  <2>14. \E x \in 1..Len(captured) : \E y \in 0..Len(captured[x].frames) : Within(x, y)'
    BY <2>11, <2>12 DEF s
  <2> QED
    BY <1>1, <2>2, <2>7, <2>13, <2>14 DEF FileInv
<1> QED
  BY <1>1, <1>2, <1>3 DEF FileInv

\* A header of a whole file is that of the next thread, after all the frames
\* of the one before.
LEMMA ReadHeaderKeeps ==
  ASSUME FileInv, ReadHeader, captured' = captured
  PROVE  FileInv'
<1> DEFINE tid == HeaderTid(Head(lines))
<1>1. /\ captured \in Seq(Stack) /\ cut \in 0..1 /\ cut' = cut
      /\ outcome = "reading" /\ outcome' = "reading" /\ lines # <<>> /\ lines' = Tail(lines)
      /\ IsHeader(Head(lines))
      /\ current' = [tid |-> tid, frames |-> <<>>]
      /\ DOMAIN names' = DOMAIN names \cup {tid} /\ DOMAIN names \subseteq Nat
      /\ backtraces' = IF Opened THEN Append(backtraces, current) ELSE backtraces
  BY DEF ReadHeader, Reading, FileInv
<1> HIDE DEF tid
\* It is enough to know whose header it is.
<1>2. ASSUME NEW i \in 1..Len(captured), cut = 0,
             Head(lines) = Header(captured[i].name, captured[i].tid),
             backtraces' = [j \in 1..(i - 1) |-> ReadBack(captured[j])],
             lines' = SubSeq(PrintAll(captured), LineEnds(captured)[i - 1] + 1 + 0 + 1,
                             Len(PrintAll(captured)))
      PROVE  FileInv'
  <2>1. captured[i] \in Stack
    BY <1>1
  <2>2. tid = ReadBack(captured[i]).tid /\ tid \in Nat
    BY <1>2, <2>1, ReadBackTyped DEF tid, ReadBack, BT
  <2>3. [f \in 1..0 |-> captured[i].frames[f]] = <<>>
    OBVIOUS
  <2>4. Within(i, 0)'
    BY <1>1, <1>2, <2>2, <2>3 DEF Within
  <2>5. 0 \in 0..Len(captured[i].frames)
    <3>1. Len(captured[i].frames) \in Nat
      BY <2>1 DEF Stack
    <3> QED
      BY <3>1
  <2>6. \E x \in 1..Len(captured) : \E y \in 0..Len(captured[x].frames) : Within(x, y)'
    BY <2>4, <2>5
  <2>7. current' \in BT
    <3>1. <<>> \in Seq(Addr)
      OBVIOUS
    <3> QED
      BY <1>1, <2>2, <3>1 DEF BT
  <2>8. backtraces' \in Seq(BT)
    <3>1. i - 1 \in Nat /\ \A j \in 1..(i - 1) : captured[j] \in Stack
      BY <1>1
    <3>2. \A j \in 1..(i - 1) : ReadBack(captured[j]) \in BT
      BY <3>1, ReadBackTyped
    <3>3. backtraces' \in [1..(i - 1) -> BT]
      BY <1>2, <3>2
    <3> QED
      BY <3>1, <3>3, SeqDef
  <2> QED
    BY <1>1, <1>2, <2>2, <2>6, <2>7, <2>8 DEF FileInv
<1>3. CASE AtStart
  <2>1. captured # <<>>
    BY <1>1, <1>3, FirstLine
  <2>2. cut # 1
    BY <1>1, <1>3, <2>1, FirstLine, Kinds
  <2>3. cut = 0 /\ 1 \in 1..Len(captured) /\ 1 - 1 = 0
    BY <1>1, <2>1, <2>2
  <2>4. backtraces' = <<>> /\ \A f : [j \in 1..0 |-> f[j]] = <<>>
    BY <1>1, <1>3 DEF AtStart, Opened
  <2>5. /\ Head(lines) = Header(captured[1].name, captured[1].tid)
        /\ lines' = SubSeq(PrintAll(captured), LineEnds(captured)[0] + 1 + 0 + 1,
                           Len(PrintAll(captured)))
    BY <1>1, <1>3, <2>1, <2>3, FirstLine
  <2>6. backtraces' = [j \in 1..(1 - 1) |-> ReadBack(captured[j])]
    BY <2>3, <2>4
  <2> QED
    BY <1>2, <2>3, <2>5, <2>6
<1>4. CASE \E i \in 1..Len(captured) : \E k \in 0..Len(captured[i].frames) :
             cut = 0 /\ Within(i, k)
  <2>1. PICK i \in 1..Len(captured) : \E k \in 0..Len(captured[i].frames) :
               cut = 0 /\ Within(i, k)
    BY <1>4
  <2>2. PICK k \in 0..Len(captured[i].frames) : cut = 0 /\ Within(i, k)
    BY <2>1
  <2>3. captured[i] \in Stack
    BY <1>1
  <2>4. Len(captured[i].frames) \in Nat
    BY <2>3 DEF Stack
  <2>5. k = Len(captured[i].frames)
    <3>1. ~(k < Len(captured[i].frames))
      BY <1>1, <2>2, NextLine, Kinds
    <3> QED
      BY <2>4, <3>1
  <2>6. i < Len(captured)
    <3>1. i # Len(captured)
      BY <1>1, <2>2, <2>5, NextLine
    <3> QED
      BY <1>1, <3>1
  <2>7. /\ Head(lines) = Header(captured[i + 1].name, captured[i + 1].tid)
        /\ lines' = SubSeq(PrintAll(captured), LineEnds(captured)[i] + 1 + 0 + 1,
                           Len(PrintAll(captured)))
    BY <1>1, <2>2, <2>5, <2>6, NextLine
  <2>8. i + 1 \in 1..Len(captured) /\ (i + 1) - 1 = i
    BY <1>1, <2>6
  <2>9. backtraces' = [j \in 1..i |-> ReadBack(captured[j])]
    <3>1. Opened
      BY <1>1, <2>2, WithinOpened
    <3>2. Append(backtraces, current) = [j \in 1..i |-> ReadBack(captured[j])]
      BY <1>1, <2>2, <2>5, ClosesStack
    <3> QED
      BY <1>1, <3>1, <3>2
  <2> QED
    BY <1>2, <2>2, <2>7, <2>8, <2>9
<1> QED
  BY <1>1, <1>3, <1>4 DEF FileInv

\* A whole file is refused for a name or a function only.
LEMMA ReadInvalidKeeps ==
  ASSUME FileInv, ReadInvalid, captured' = captured
  PROVE  FileInv'
<1>1. /\ captured \in Seq(Stack) /\ cut \in 0..1 /\ outcome = "reading" /\ lines # <<>>
      /\ ~IsFrame(Head(lines)) /\ ~IsHeader(Head(lines))
      /\ outcome' = "invalid" /\ UNCHANGED <<cut, lines, current, backtraces, names>>
  BY DEF ReadInvalid, Reading, FileInv
<1>2. ASSUME NEW i \in 1..Len(captured),
             Head(lines) = Header(captured[i].name, captured[i].tid)
      PROVE  ~Plain(captured)
  <2>1. captured[i].name = "dashWord"
    BY <1>1, <1>2 DEF IsHeader, Header
  <2>2. i \in DOMAIN captured
    BY <1>1
  <2> QED
    BY <2>1, <2>2 DEF Plain
<1>3. ASSUME NEW i \in 1..Len(captured), NEW f \in 1..Len(captured[i].frames),
             Head(lines) = Frame(captured[i].frames[f])
      PROVE  ~Plain(captured)
  <2>1. captured[i].frames[f] \in Blank
    BY <1>1, <1>3 DEF IsFrame, Frame
  <2>2. i \in DOMAIN captured /\ captured[i] \in Stack
    BY <1>1
  <2>3. captured[i].frames \in Seq(Addr)
    BY <2>2 DEF Stack
  <2>4. f \in DOMAIN captured[i].frames
    BY <2>3
  <2> QED
    BY <2>1, <2>2, <2>4 DEF Plain
<1>4. ASSUME cut = 0 PROVE ~Plain(captured)
  <2>1. CASE AtStart
    <3>1. captured # <<>>
      BY <1>1, <2>1, FirstLine
    <3>2. 1 \in 1..Len(captured)
      BY <1>1, <3>1
    <3>3. Head(lines) = Header(captured[1].name, captured[1].tid)
      BY <1>1, <1>4, <2>1, <3>1, FirstLine
    <3> QED
      BY <1>2, <3>2, <3>3
  <2>2. CASE \E i \in 1..Len(captured) : \E k \in 0..Len(captured[i].frames) : Within(i, k)
    <3>1. PICK i \in 1..Len(captured) : \E k \in 0..Len(captured[i].frames) : Within(i, k)
      BY <2>2
    <3>2. PICK k \in 0..Len(captured[i].frames) : Within(i, k)
      BY <3>1
    <3>3. captured[i] \in Stack
      BY <1>1
    <3>4. Len(captured[i].frames) \in Nat
      BY <3>3 DEF Stack
    <3>5. CASE k < Len(captured[i].frames)
      <4>1. Head(lines) = Frame(captured[i].frames[k + 1])
        BY <1>1, <3>2, <3>5, NextLine
      <4>2. k + 1 \in 1..Len(captured[i].frames)
        BY <3>4, <3>5
      <4> QED
        BY <1>3, <4>1, <4>2
    <3>6. CASE k = Len(captured[i].frames)
      <4>1. i # Len(captured)
        BY <1>1, <3>2, <3>6, NextLine
      <4>2. i < Len(captured) /\ i + 1 \in 1..Len(captured)
        BY <1>1, <4>1
      <4>3. Head(lines) = Header(captured[i + 1].name, captured[i + 1].tid)
        BY <1>1, <3>2, <3>6, <4>2, NextLine
      <4> QED
        BY <1>2, <4>2, <4>3
    <3> QED
      BY <3>4, <3>5, <3>6
  <2> QED
    BY <1>1, <2>1, <2>2 DEF FileInv
<1> QED
  BY <1>1, <1>4 DEF FileInv

\* At the end of a file the last thread has been read.
LEMMA EndOfFileKeeps ==
  ASSUME FileInv, EndOfFile, captured' = captured
  PROVE  FileInv'
<1> DEFINE N == Len(captured)
<1>1. /\ captured \in Seq(Stack) /\ cut \in 0..1 /\ outcome = "reading" /\ lines = <<>>
      /\ outcome' = "done" /\ current' = NoStack /\ UNCHANGED <<cut, lines, names>>
      /\ backtraces' = IF Opened THEN Append(backtraces, current) ELSE backtraces
  BY DEF EndOfFile, FileInv
<1>2. backtraces' = [j \in 1..N |-> ReadBack(captured[j])]
  <2>1. CASE AtStart
    <3>1. captured = <<>>
      BY <1>1, <2>1, FirstLine
    <3>2. backtraces' = <<>> /\ N = 0
      BY <1>1, <2>1, <3>1 DEF AtStart, Opened
    <3> QED
      BY <3>2
  <2>2. CASE \E i \in 1..N : \E k \in 0..Len(captured[i].frames) : Within(i, k)
    <3>1. PICK i \in 1..N : \E k \in 0..Len(captured[i].frames) : Within(i, k)
      BY <2>2
    <3>2. PICK k \in 0..Len(captured[i].frames) : Within(i, k)
      BY <3>1
    <3>3. captured[i] \in Stack
      BY <1>1
    <3>4. Len(captured[i].frames) \in Nat
      BY <3>3 DEF Stack
    <3>5. k = Len(captured[i].frames)
      <4>1. ~(k < Len(captured[i].frames))
        BY <1>1, <3>2, NextLine
      <4> QED
        BY <3>4, <4>1
    <3>6. i = N
      <4>1. ~(i < N)
        BY <1>1, <3>2, <3>5, NextLine
      <4> QED
        BY <1>1, <4>1
    <3>7. Opened
      BY <1>1, <3>2, WithinOpened
    <3>8. Append(backtraces, current) = [j \in 1..i |-> ReadBack(captured[j])]
      BY <1>1, <3>2, <3>5, ClosesStack
    <3> QED
      BY <1>1, <3>6, <3>7, <3>8
  <2> QED
    BY <1>1, <2>1, <2>2 DEF FileInv
<1>3. backtraces' \in Seq(BT)
  <2>1. N \in Nat /\ \A j \in 1..N : captured[j] \in Stack
    BY <1>1
  <2>2. \A j \in 1..N : ReadBack(captured[j]) \in BT
    BY <2>1, ReadBackTyped
  <2>3. backtraces' \in [1..N -> BT]
    BY <1>2, <2>2
  <2> QED
    BY <2>1, <2>3, SeqDef
<1> QED
  BY <1>1, <1>2, <1>3 DEF FileInv

\* Every step of reading the file.
LEMMA FileStep == FileInv /\ [Next]_vars => FileInv'
<1> SUFFICES ASSUME FileInv, [Next]_vars PROVE FileInv'
  OBVIOUS
<1>1. CASE UNCHANGED <<captured, fileVars>>
  <2>1. UNCHANGED <<captured, cut, lines, current, backtraces, names, outcome>>
    BY <1>1 DEF fileVars
  <2> QED
    BY <2>1 DEF FileInv, AtStart, Within
<1>2. ASSUME FileNext, captured' = captured PROVE FileInv'
  BY <1>2, ReadFrameKeeps, ReadHeaderKeeps, ReadInvalidKeeps, EndOfFileKeeps DEF FileNext
<1>3. UNCHANGED vars => UNCHANGED <<captured, fileVars>>
  BY DEF vars
<1> QED
  BY <1>1, <1>2, <1>3
     DEF Next, Reports, ReportRestored, ReportCaptured, ReportRead

\* What was read has the frames of what was captured.
LEMMA FileCorrect == FileInv => AcceptedKeepsFrames /\ FileTypeOK
<1> SUFFICES ASSUME FileInv PROVE AcceptedKeepsFrames /\ FileTypeOK
  OBVIOUS
<1>1. FileTypeOK
  BY DEF FileInv, FileTypeOK, BT
<1>2. ASSUME outcome = "done" PROVE AllFrames(backtraces) = AllFrames(captured)
  <2>1. backtraces = [j \in 1..Len(captured) |-> ReadBack(captured[j])]
    BY <1>2 DEF FileInv
  <2>2. DOMAIN backtraces = DOMAIN captured /\ DOMAIN captured = 1..Len(captured)
    BY <2>1 DEF FileInv
  <2>3. \A j \in DOMAIN captured : backtraces[j].frames = captured[j].frames
    BY <2>1, <2>2 DEF ReadBack
  <2>4. [i \in DOMAIN backtraces |-> backtraces[i].frames]
          = [i \in DOMAIN captured |-> captured[i].frames]
    BY <2>2, <2>3
  <2> QED
    BY <2>4 DEF AllFrames
<1> QED
  BY <1>1, <1>2 DEF AcceptedKeepsFrames, FileInv

\* For files of any number of threads, stacks of any depth and any names and
\* functions: what is accepted has every frame of what was printed, in its
\* place, and a frame meets no open stack only when the first line is missing.
THEOREM FileKeepsFrames == Spec => []AcceptedKeepsFrames
<1>1. FileInv => AcceptedKeepsFrames
  BY FileCorrect
<1> QED
  BY <1>1, FileInit, FileStep, PTL DEF Spec

-----------------------------------------------------------------------------
(* The report, of what came through.                                       *)

\* What is reported is what was captured, or what was read back.
CameThrough ==
  /\ mode \in Mode
  /\ mode # "input" => outcome = "none"
  /\ phase = "reading" => bts = <<>>
  /\ phase # "reading" =>
       bts = IF mode = "input" THEN [j \in 1..Len(captured) |-> ReadBack(captured[j])]
             ELSE Traces(captured)

OutputInv == WireInv /\ FileInv /\ CameThrough /\ ReportTypeOK /\ OnceInv

\* Both are sequences of stacks.
LEMMA ThroughTyped ==
  ASSUME captured \in Seq(Stack), CameThrough
  PROVE  StacksTyped
<1> DEFINE N == Len(captured)
<1>1. N \in Nat /\ DOMAIN captured = 1..N /\ \A j \in 1..N : captured[j] \in Stack
  OBVIOUS
<1>2. BT = [tid : Nat, frames : Seq(Addr)]
  BY DEF BT
<1>3. CASE phase = "reading"
  BY <1>3 DEF CameThrough, StacksTyped
<1>4. CASE phase # "reading" /\ mode = "input"
  <2>1. \A j \in 1..N : ReadBack(captured[j]) \in BT
    BY <1>1, ReadBackTyped
  <2>2. bts = [j \in 1..N |-> ReadBack(captured[j])]
    BY <1>4 DEF CameThrough
  <2>3. bts \in [1..N -> BT]
    BY <2>1, <2>2
  <2>4. bts \in Seq(BT)
    BY <1>1, <2>3, SeqDef
  <2> QED
    BY <1>2, <2>4 DEF StacksTyped
<1>5. CASE phase # "reading" /\ mode # "input"
  <2>1. \A j \in 1..N : Trace(captured[j]) \in BT
    <3> TAKE j \in 1..N
    <3>1. captured[j] \in Stack
      BY <1>1
    <3> QED
      BY <3>1 DEF Trace, Stack, BT
  <2>2. bts = [j \in 1..N |-> Trace(captured[j])]
    BY <1>1, <1>5 DEF CameThrough, Traces
  <2>3. bts \in [1..N -> BT]
    BY <2>1, <2>2
  <2>4. bts \in Seq(BT)
    BY <1>1, <2>3, SeqDef
  <2> QED
    BY <1>2, <2>4 DEF StacksTyped
<1> QED
  BY <1>3, <1>4, <1>5

LEMMA ThroughInit == Init => CameThrough /\ ReportTypeOK
<1> SUFFICES ASSUME Init PROVE CameThrough /\ ReportTypeOK
  OBVIOUS
<1>1. /\ phase = "reading" /\ bts = <<>> /\ left = {} /\ out = <<>>
      /\ aggregate \in BOOLEAN /\ reverse \in BOOLEAN /\ min_depth \in MinDepths
  BY DEF Init, ReportStart
<1>2. mode \in Mode /\ (mode # "input" => outcome = "none")
  BY DEF Init, NoFile, Mode
<1> QED
  BY <1>1, <1>2 DEF CameThrough, ReportTypeOK, included

\* A report begins when the stacks have come through, and then they stay.
LEMMA ThroughStep == WireInv /\ FileInv /\ CameThrough /\ [Next]_vars => CameThrough'
<1> SUFFICES ASSUME WireInv, FileInv, CameThrough, [Next]_vars PROVE CameThrough'
  OBVIOUS
<1>1. CASE UNCHANGED <<captured, reportVars>> /\ outcome' = outcome
  BY <1>1 DEF reportVars, config, CameThrough
<1>2. CASE FileNext /\ UNCHANGED <<captured, reportVars>>
  <2>1. outcome = "reading"
    BY <1>2 DEF FileNext, ReadFrame, ReadHeader, ReadInvalid, EndOfFile, Reading
  <2> QED
    BY <1>2, <2>1 DEF reportVars, config, CameThrough
<1>3. CASE ReportNext /\ UNCHANGED <<captured, fileVars>>
  <2>1. /\ phase # "reading" /\ phase' # "reading"
        /\ UNCHANGED <<captured, bts, mode, outcome>>
    BY <1>3 DEF ReportNext, BfdFails, Start, PrintEntry, EndPart, config, fileVars
  <2> QED
    BY <2>1 DEF CameThrough
<1>4. ASSUME NEW stacks, Reports(stacks),
             stacks = IF mode = "input" THEN [j \in 1..Len(captured) |-> ReadBack(captured[j])]
                      ELSE Traces(captured)
      PROVE  CameThrough'
  BY <1>4 DEF Reports, config, fileVars, CameThrough
<1>5. CASE ReportRestored
  <2>1. mode = "live" /\ restored = Traces(captured) /\ Reports(restored)
    BY <1>5, WireCorrect DEF ReportRestored, HandedOver
  <2> QED
    BY <1>4, <2>1
<1>6. CASE ReportCaptured
  BY <1>4, <1>6 DEF ReportCaptured
<1>7. CASE ReportRead
  BY <1>4, <1>7 DEF ReportRead, FileInv
<1>8. UNCHANGED vars => UNCHANGED <<captured, reportVars>> /\ outcome' = outcome
  BY DEF vars, fileVars
<1> QED
  BY <1>1, <1>2, <1>3, <1>5, <1>6, <1>7, <1>8 DEF Next, fileVars

\* What is printed is of threads that there are.
LEMMA ReportTypeStep ==
  ReportTypeOK /\ OnceInv /\ StacksTyped /\ [Next]_vars => ReportTypeOK'
<1> SUFFICES ASSUME ReportTypeOK, OnceInv, StacksTyped, [Next]_vars PROVE ReportTypeOK'
  OBVIOUS
<1>1. OnceInv'
  BY OnceStep
<1>2. left' \subseteq SUBSET DOMAIN bts' /\ included' \subseteq DOMAIN bts'
  BY <1>1 DEF OnceInv, Entry, included
<1>3. CASE UNCHANGED reportVars
  BY <1>2, <1>3 DEF reportVars, config, ReportTypeOK
<1>4. ASSUME NEW stacks, Reports(stacks) PROVE ReportTypeOK'
  <2>1. out' = <<>> /\ phase' = "start" /\ UNCHANGED config
    BY <1>4 DEF Reports, OnceInv
  <2> QED
    BY <1>2, <2>1 DEF ReportTypeOK, config
<1>5. CASE BfdFails \/ Start \/ EndPart
  <2>1. UNCHANGED <<bts, config, out>>
    BY <1>5 DEF BfdFails, Start, EndPart
  <2>2. phase' \in {"reading", "start", "included", "excluded", "all", "done", "failed"}
    BY <1>5 DEF BfdFails, Start, EndPart
  <2> QED
    BY <1>2, <2>1, <2>2 DEF ReportTypeOK, config
<1>6. CASE PrintEntry
  <2>1. UNCHANGED <<bts, config, phase>>
    BY <1>6 DEF PrintEntry
  <2>2. PICK e \in left :
          out' = IF TooShallow(StackOf(e)) THEN out
                 ELSE Append(out, [threads |-> e, frames |-> StackOf(e), part |-> phase])
    BY <1>6 DEF PrintEntry
  <2>3. e \in (SUBSET DOMAIN bts) \ {{}}
    BY DEF OnceInv, Entry
  <2>4. \A i \in DOMAIN out' : out'[i].threads \in (SUBSET DOMAIN bts) \ {{}}
    <3>1. CASE out' = out
      BY <3>1 DEF ReportTypeOK
    <3>2. CASE out' # out
      <4> DEFINE x == [threads |-> e, frames |-> StackOf(e), part |-> phase]
      <4>1. out' = Append(out, x) /\ x.threads = e
        BY <2>2, <3>2
      <4> HIDE DEF x
      <4>2. PICK S : out \in Seq(S)
        BY DEF OnceInv
      <4>3. /\ DOMAIN out = 1..Len(out) /\ Len(out) \in Nat
            /\ DOMAIN out' = 1..(Len(out) + 1)
            /\ \A i \in 1..Len(out) : out'[i] = out[i]
            /\ out'[Len(out) + 1] = x
        BY <4>1, <4>2, AppendAny
      <4>4. \A i \in DOMAIN out' : i \in 1..Len(out) \/ i = Len(out) + 1
        BY <4>3
      <4> QED
        BY <2>3, <4>1, <4>3, <4>4 DEF ReportTypeOK
    <3> QED
      BY <3>1, <3>2
  <2> QED
    BY <1>2, <2>1, <2>4 DEF ReportTypeOK, config
<1>7. UNCHANGED vars => UNCHANGED reportVars
  BY DEF vars
<1> QED
  BY <1>3, <1>4, <1>5, <1>6, <1>7
     DEF Next, ReportNext, ReportRestored, ReportCaptured, ReportRead

LEMMA OutputInit == Init => OutputInv
BY WireInit, FileInit, ThroughInit, OnceInit DEF OutputInv

LEMMA OutputStep == OutputInv /\ [Next]_vars => OutputInv'
<1> SUFFICES ASSUME OutputInv, [Next]_vars PROVE OutputInv'
  OBVIOUS
<1>1. StacksTyped
  BY ThroughTyped DEF OutputInv, WireInv
<1> QED
  BY <1>1, WireStep, FileStep, ThroughStep, ReportTypeStep, OnceStep DEF OutputInv

\* What each variable holds, for captures of any size.
THEOREM OutputTyped == Spec => []OutputTypeOK
<1>1. OutputInv => OutputTypeOK
  BY WireCorrect, FileCorrect, ThroughTyped DEF OutputInv, OutputTypeOK, WireInv
<1> QED
  BY <1>1, OutputInit, OutputStep, PTL DEF Spec

\* When the report ends no thread has been printed twice or with another's
\* stack, those deeper than min_depth have been printed, those of fewer frames
\* have not, and equally deep ones alike.
THEOREM DeepThreadsOnce == Spec => []EachDeepThreadOnce
<1>1. OutputInv => EachDeepThreadOnce
  BY OnceAtEnd, ThroughTyped DEF OutputInv, WireInv
<1> QED
  BY <1>1, OutputInit, OutputStep, PTL DEF Spec

\* A plain file is not refused, and has been read back as it was.
LEMMA PlainComesThrough ==
  ASSUME OutputInv, mode # "input" \/ (Plain(captured) /\ cut = 0)
  PROVE  /\ outcome \notin {"invalid", "crash"}
         /\ phase # "reading" => bts = Traces(captured)
<1>1. outcome \notin {"invalid", "crash"}
  BY DEF OutputInv, FileInv, CameThrough
<1>2. ASSUME phase # "reading", mode = "input" PROVE bts = Traces(captured)
  <2>1. DOMAIN captured = 1..Len(captured)
    BY DEF OutputInv, FileInv
  <2>2. \A j \in DOMAIN captured : ReadBack(captured[j]) = Trace(captured[j])
    BY <1>2 DEF Plain, ReadBack, Trace, HeaderTid, Header
  <2> QED
    BY <1>2, <2>1, <2>2 DEF OutputInv, CameThrough, Traces
<1> QED
  BY <1>1, <1>2 DEF OutputInv, CameThrough

\* From the capture to the report, on each of the three ways and for captures
\* of any size: no thread is lost, made up, printed twice or with another's
\* stack, and a plain file is not refused.
THEOREM CapturePrinted == Spec => []PrintsCapture
<1>1. OutputInv => PrintsCapture
  <2> SUFFICES ASSUME OutputInv, mode # "input" \/ (Plain(captured) /\ cut = 0)
               PROVE  /\ outcome \notin {"invalid", "crash"}
                      /\ phase = "done" =>
                           /\ Len(bts) = Len(captured)
                           /\ \A t \in DOMAIN captured :
                                bts[t].tid = captured[t].tid /\ ShownOnce(t, captured[t].frames)
    BY DEF PrintsCapture
  <2>1. ASSUME phase = "done"
        PROVE  /\ Len(bts) = Len(captured)
               /\ \A t \in DOMAIN captured :
                    bts[t].tid = captured[t].tid /\ ShownOnce(t, captured[t].frames)
    <3>1. bts = [t \in DOMAIN captured |-> Trace(captured[t])]
      BY <2>1, PlainComesThrough DEF Traces
    <3>2. DOMAIN bts = DOMAIN captured /\ bts \in Seq(BT) /\ captured \in Seq(Stack)
      BY <3>1, ThroughTyped DEF OutputInv, WireInv, StacksTyped, BT
    <3>3. Len(bts) = Len(captured)
      BY <3>2
    <3>4. \A t \in DOMAIN captured :
            bts[t].tid = captured[t].tid /\ bts[t].frames = captured[t].frames
      BY <3>1 DEF Trace
    <3>5. EachDeepThreadOnce
      BY OnceAtEnd, ThroughTyped DEF OutputInv, WireInv
    <3>6. \A t \in DOMAIN captured : ShownOnce(t, captured[t].frames)
      BY <2>1, <3>2, <3>4, <3>5 DEF EachDeepThreadOnce
    <3> QED
      BY <3>3, <3>4, <3>6
  <2> QED
    BY <2>1, PlainComesThrough
<1> QED
  BY <1>1, OutputInit, OutputStep, PTL DEF Spec
=============================================================================
