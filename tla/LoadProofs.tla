----------------------------- MODULE LoadProofs -----------------------------
(***************************************************************************)
(* Theorems about ParallelLoad, for every number of files, processors and  *)
(* threads: the chunks of the workers partition the files, therefore no    *)
(* entry is shared and each is loaded exactly once, and nobody works on    *)
(* when the constructor has returned.                                      *)
(***************************************************************************)
EXTENDS ParallelLoad, TLAPS

-----------------------------------------------------------------------------
(* Arithmetic of the chunks.                                               *)

\* Integer division, by its two bounds.
LEMMA Division ==
  ASSUME NEW a \in Nat, NEW b \in Nat \ {0}
  PROVE  /\ a \div b \in Nat
         /\ b * (a \div b) <= a
         /\ a < b * (a \div b) + b
         /\ a % b = a - b * (a \div b)
         /\ a % b \in 0..(b - 1)
  OBVIOUS

\* A larger factor gives a larger product.
LEMMA Monotone ==
  ASSUME NEW a \in Nat, NEW b \in Nat, NEW c \in Nat, a <= b
  PROVE  a * c <= b * c
<1>1. (b - a) * c >= 0
  OBVIOUS
<1>2. (b - a) * c = b * c - a * c
  OBVIOUS
<1> QED
  BY <1>1, <1>2

\* The chunk of worker t ends where the chunk of worker t + 1 starts.
LEMMA ChunkBounds ==
  ASSUME NEW k \in Nat, NEW n \in Nat \ {0}, NEW t \in Nat
  PROVE  /\ ChunkStart(t, k, n) \in Nat
         /\ ChunkEnd(t, k, n) \in Nat
         /\ ChunkStart(t, k, n) <= ChunkEnd(t, k, n)
         /\ ChunkEnd(t, k, n) = ChunkStart(t + 1, k, n)
<1> DEFINE q == k \div n
           r == k % n
<1>1. q \in Nat /\ r \in Nat
  BY Division
<1> HIDE DEF q, r
<1>2. t * q \in Nat /\ (t + 1) * q = t * q + q
  BY <1>1
<1>3. ChunkStart(t, k, n) = t * q + Min2(t, r)
  BY DEF ChunkStart, q, r
<1>4. ChunkStart(t + 1, k, n) = (t + 1) * q + Min2(t + 1, r)
  BY DEF ChunkStart, q, r
<1>5. ChunkEnd(t, k, n) = t * q + Min2(t, r) + (q + (IF t < r THEN 1 ELSE 0))
  BY DEF ChunkEnd, ChunkStart, ChunkCount, q, r
<1> QED
  BY <1>1, <1>2, <1>3, <1>4, <1>5 DEF Min2

\* Chunks are in the order of their workers and do not overlap.
LEMMA ChunksApart ==
  ASSUME NEW k \in Nat, NEW n \in Nat \ {0}, NEW v \in Nat, NEW w \in Nat, v < w
  PROVE  ChunkEnd(v, k, n) <= ChunkStart(w, k, n)
<1> DEFINE q == k \div n
           r == k % n
<1>1. q \in Nat /\ r \in Nat
  BY Division
<1> HIDE DEF q, r
<1>2. (v + 1) * q <= w * q
  BY <1>1, Monotone
<1>3. (v + 1) * q \in Nat /\ w * q \in Nat
  BY <1>1
<1>4. ChunkStart(v + 1, k, n) = (v + 1) * q + Min2(v + 1, r)
  BY DEF ChunkStart, q, r
<1>5. ChunkStart(w, k, n) = w * q + Min2(w, r)
  BY DEF ChunkStart, q, r
<1>6. ChunkEnd(v, k, n) = ChunkStart(v + 1, k, n)
  BY ChunkBounds
<1>7. Min2(v + 1, r) <= Min2(w, r) /\ Min2(v + 1, r) \in Nat /\ Min2(w, r) \in Nat
  BY <1>1 DEF Min2
<1> QED
  BY <1>2, <1>3, <1>4, <1>5, <1>6, <1>7

\* The chunk of the last worker ends with the last entry.
LEMMA ChunksWithin ==
  ASSUME NEW k \in Nat, NEW n \in Nat \ {0}, NEW w \in Nat, w < n
  PROVE  ChunkEnd(w, k, n) <= k
<1>1. ChunkStart(n, k, n) = k
  BY Division DEF ChunkStart, Min2
<1>2. ChunkEnd(w, k, n) <= ChunkStart(n, k, n)
  BY ChunksApart
<1> QED
  BY <1>1, <1>2

\* Every entry is in a chunk: one of the first ones, which are one longer, or
\* one of the others.
LEMMA ChunksCover ==
  ASSUME NEW k \in Nat, NEW n \in Nat \ {0}, n <= k, NEW l \in 0..(k - 1)
  PROVE  \E w \in 0..(n - 1) : ChunkStart(w, k, n) <= l /\ l < ChunkEnd(w, k, n)
<1> DEFINE q == k \div n
           r == k % n
<1>0. /\ q \in Nat /\ n * q <= k /\ k < n * q + n
      /\ r = k - n * q /\ r \in 0..(n - 1)
  BY Division
<1>1. q \in Nat /\ r \in 0..(n - 1) /\ k = n * q + r
  <2> HIDE DEF q, r
  <2>1. n * q \in Nat
    BY <1>0
  <2> QED
    BY <1>0, <2>1
<1>2. q > 0
  <2> HIDE DEF q, r
  <2> QED
    BY <1>0
<1>3. ASSUME NEW t \in Nat PROVE ChunkStart(t, k, n) = t * q + Min2(t, r)
  BY DEF ChunkStart
<1> HIDE DEF q, r
<1>4. CASE l < r * (q + 1)
  <2> DEFINE w == l \div (q + 1)
  <2>1. w \in Nat /\ (q + 1) * w <= l /\ l < (q + 1) * w + (q + 1)
    <3>1. l \in Nat /\ q + 1 \in Nat \ {0}
      BY <1>1
    <3> QED
      BY <3>1, Division
  <2> HIDE DEF w
  <2>2. w < r
    <3> SUFFICES ASSUME r <= w PROVE FALSE
      BY <1>1, <2>1
    <3>1. r * (q + 1) <= w * (q + 1)
      BY <1>1, <2>1, Monotone
    <3> QED
      BY <1>1, <1>4, <2>1, <3>1
  <2>c. Min2(w, r) = w /\ Min2(w + 1, r) = w + 1 /\ w + 1 \in Nat
    BY <1>1, <2>1, <2>2 DEF Min2
  <2>3. ChunkStart(w, k, n) = w * q + w
    <3>1. ChunkStart(w, k, n) = w * q + Min2(w, r)
      BY <1>3, <2>1
    <3> QED
      BY <2>c, <3>1
  <2>4. ChunkStart(w + 1, k, n) = (w + 1) * q + (w + 1)
    <3>1. ChunkStart(w + 1, k, n) = (w + 1) * q + Min2(w + 1, r)
      BY <1>3, <2>c
    <3> QED
      BY <2>c, <3>1
  <2>5. ChunkStart(w, k, n) <= l /\ l < ChunkStart(w + 1, k, n)
    BY <1>1, <2>1, <2>3, <2>4
  <2> QED
    <3>1. ChunkEnd(w, k, n) = ChunkStart(w + 1, k, n) /\ w \in 0..(n - 1)
      BY <1>1, <2>1, <2>2, ChunkBounds
    <3> QED
      BY <2>5, <3>1
<1>5. CASE l >= r * (q + 1)
  <2> DEFINE m == l - r * (q + 1)
             d == m \div q
             w == r + d
  <2>1. m \in Nat
    BY <1>1, <1>5
  <2> HIDE DEF m
  <2>2. d \in Nat /\ q * d <= m /\ m < q * d + q
    BY <1>1, <1>2, <2>1, Division
  <2> HIDE DEF d
  <2>a. w \in Nat /\ w >= r
    BY <1>1, <2>2
  <2>3. m < (n - r) * q
    BY <1>1 DEF m
  <2>4. d < n - r
    <3> SUFFICES ASSUME n - r <= d PROVE FALSE
      BY <1>1, <2>2
    <3>1. (n - r) * q <= d * q
      BY <1>1, <2>2, Monotone
    <3> QED
      BY <1>1, <2>1, <2>2, <2>3, <3>1
  <2>7. w * q = r * q + q * d /\ (w + 1) * q = r * q + q * d + q
    BY <1>1, <2>2
  <2>b. w < n
    BY <1>1, <2>2, <2>4
  <2> HIDE DEF w
  <2>c. Min2(w, r) = r /\ Min2(w + 1, r) = r /\ w + 1 \in Nat
    BY <1>1, <2>a DEF Min2
  <2>5. ChunkStart(w, k, n) = w * q + r
    <3>1. ChunkStart(w, k, n) = w * q + Min2(w, r)
      BY <1>3, <2>a
    <3> QED
      BY <2>c, <3>1
  <2>6. ChunkStart(w + 1, k, n) = (w + 1) * q + r
    <3>1. ChunkStart(w + 1, k, n) = (w + 1) * q + Min2(w + 1, r)
      BY <1>3, <2>c
    <3> QED
      BY <2>c, <3>1
  <2>8. l = m + r * q + r
    BY <1>1 DEF m
  <2>9. ChunkStart(w, k, n) <= l /\ l < ChunkStart(w + 1, k, n)
    <3>1. q * d \in Nat /\ r * q \in Nat
      BY <1>1, <2>2
    <3> QED
      BY <1>1, <2>1, <2>2, <2>5, <2>6, <2>7, <2>8, <3>1
  <2> QED
    <3>1. ChunkEnd(w, k, n) = ChunkStart(w + 1, k, n) /\ w \in 0..(n - 1)
      BY <2>a, <2>b, ChunkBounds
    <3> QED
      BY <2>9, <3>1
<1> QED
  BY <1>1, <1>4, <1>5

-----------------------------------------------------------------------------
(* The inductive invariant.                                                *)

\* Those who load: the calling thread as worker 0, or the workers to launch.
Slot == IF thread_num = 0 THEN {0} ELSE 0..(thread_num - 1)

\* The entries a slot is responsible for.
First(w) == IF thread_num = 0 THEN 0 ELSE ChunkStart(w, total, thread_num)
End(w)   == IF thread_num = 0 THEN total ELSE ChunkEnd(w, total, thread_num)

\* Where the constructing thread is, and what that says of the workers.
Control ==
  /\ thread_num <= total
  /\ pc = "start" => thread_num = 0 /\ \A w \in Worker : wpc[w] = "none" /\ idx[w] = 0
  /\ pc = "sequential" => thread_num = 0
  /\ pc \in {"launch", "join"} => thread_num > 0
  /\ pc = "join" => launched = thread_num
  /\ \A w \in Worker : wpc[w] # "none" => w \in Slot
  /\ thread_num > 0 => \A w \in Worker : wpc[w] # "none" <=> w < launched
  /\ \A w \in Worker : w < joined => wpc[w] = "done"
  /\ pc = "done" => total = 0 \/ \A w \in Slot : wpc[w] = "done"
  /\ pc = "failed" => \A w \in Worker : ~Busy(w)

\* How far a slot is: its entries up to idx are loaded, those after it are not.
Progress(w) ==
  /\ wpc[w] = "none" => \A l \in First(w)..(End(w) - 1) : created[l] = 0
  /\ Busy(w) => idx[w] \in First(w)..(End(w) - 1)
  /\ wpc[w] # "none" =>
       \A l \in First(w)..(End(w) - 1) :
         /\ created[l] = IF l < idx[w] \/ (l = idx[w] /\ wpc[w] = "update") THEN 1 ELSE 0
         /\ l < idx[w] => l \in updated
  /\ wpc[w] = "done" /\ Running => idx[w] = End(w)

LoadInv ==
  /\ TypeOK
  /\ Control
  /\ \A w \in Slot : Progress(w)
  /\ \A l \in Load : l >= total => created[l] = 0

-----------------------------------------------------------------------------
(* The slots share the entries among them.                                 *)

Shared ==
  /\ Slot \subseteq Worker
  /\ \A w \in Slot : /\ First(w) \in Nat /\ End(w) \in Nat
                     /\ First(w) <= End(w) /\ End(w) <= total
  /\ \A v, w \in Slot : v # w => End(v) <= First(w) \/ End(w) <= First(v)
  /\ \A l \in 0..(total - 1) : \E w \in Slot : l \in First(w)..(End(w) - 1)

\* The regions of the slots lie within the vector, are disjoint, and together
\* are the whole vector.
LEMMA Regions == TypeOK /\ thread_num <= total => Shared
<1> SUFFICES ASSUME TypeOK, thread_num <= total PROVE Shared
  OBVIOUS
<1>1. total \in Nat /\ thread_num \in 0..MaxThreads
  BY LoadAssumption DEF TypeOK
<1>2. CASE thread_num = 0
  BY <1>1, <1>2, LoadAssumption DEF Slot, First, End, Worker, Shared
<1>3. CASE thread_num > 0
  <2>1. thread_num \in Nat \ {0} /\ Slot = 0..(thread_num - 1)
    BY <1>1, <1>3 DEF Slot
  <2>2. \A w : /\ First(w) = ChunkStart(w, total, thread_num)
               /\ End(w) = ChunkEnd(w, total, thread_num)
    BY <1>3 DEF First, End
  <2>3. Slot \subseteq Worker
    BY <1>1, <2>1, LoadAssumption DEF Worker
  <2>4. ASSUME NEW w \in Slot
        PROVE  /\ First(w) \in Nat /\ End(w) \in Nat
               /\ First(w) <= End(w) /\ End(w) <= total
    <3>1. w \in Nat /\ w < thread_num
      BY <2>1
    <3> QED
      BY <1>1, <2>1, <2>2, <3>1, ChunkBounds, ChunksWithin
  <2>5. ASSUME NEW v \in Slot, NEW w \in Slot, v # w
        PROVE  End(v) <= First(w) \/ End(w) <= First(v)
    <3>1. v \in Nat /\ w \in Nat /\ (v < w \/ w < v)
      BY <2>1, <2>5
    <3> QED
      BY <1>1, <2>1, <2>2, <3>1, ChunksApart
  <2>6. ASSUME NEW l \in 0..(total - 1)
        PROVE  \E w \in Slot : l \in First(w)..(End(w) - 1)
    <3>1. PICK w \in 0..(thread_num - 1) :
            /\ ChunkStart(w, total, thread_num) <= l
            /\ l < ChunkEnd(w, total, thread_num)
      BY <1>1, <2>1, ChunksCover
    <3>2. w \in Slot /\ First(w) <= l /\ l < End(w)
      BY <2>1, <2>2, <3>1
    <3>3. l \in First(w)..(End(w) - 1)
      BY <2>4, <3>2
    <3> QED
      BY <3>2, <3>3
  <2> QED
    BY <2>3, <2>4, <2>5, <2>6 DEF Shared
<1> QED
  BY <1>1, <1>2, <1>3

-----------------------------------------------------------------------------
(* The invariant is inductive.                                             *)

\* Before anything is loaded no worker runs and no entry is loaded.
LEMMA LoadInit == Init => LoadInv
<1> SUFFICES ASSUME Init PROVE LoadInv
  OBVIOUS
<1> USE LoadAssumption
<1>1. TypeOK
  BY DEF Init, TypeOK
<1>2. Control
  BY DEF Init, Control, TypeOK, Slot, Worker, Busy
<1>3. \A w \in Slot : Progress(w)
  <2>1. Slot \subseteq Worker
    BY <1>1, Regions DEF Init, TypeOK, Shared
  <2>2. ASSUME NEW w \in Slot
        PROVE  First(w)..(End(w) - 1) \subseteq Load
    BY <2>2, <1>1 DEF Init, TypeOK, First, End, Load
  <2> QED
    BY <2>1, <2>2 DEF Init, Progress, Busy
<1> QED
  BY <1>1, <1>2, <1>3 DEF LoadInv, Init

\* A step that leaves the workers and the partition alone leaves their progress
\* alone.
LEMMA CallerKeeps ==
  ASSUME LoadInv, UNCHANGED <<inputs, thread_num, workers>>, pc # "failed", pc # "terminated"
  PROVE  /\ \A w \in Slot' : Progress(w)'
         /\ \A l \in Load : l >= total' => created'[l] = 0
<1>1. Running
  BY DEF Running
<1>2. Slot' = Slot /\ \A w : First(w)' = First(w) /\ End(w)' = End(w)
  BY DEF Slot, First, End, inputs
<1>3. ASSUME NEW w \in Slot PROVE Progress(w)'
  <2>1. Progress(w)
    BY DEF LoadInv
  <2> QED
    BY <1>1, <1>2, <2>1 DEF Progress, Busy, workers
<1> QED
  BY <1>2, <1>3 DEF LoadInv, inputs, workers

\* Every step of the constructing thread keeps the invariant.
LEMMA CallerStepKeeps == LoadInv /\ CallerStep => LoadInv'
<1> SUFFICES ASSUME LoadInv, CallerStep PROVE LoadInv'
  OBVIOUS
<1> USE LoadAssumption
<1>t. TypeOK /\ Control
  BY DEF LoadInv
<1>r. /\ Slot \subseteq Worker
      /\ \A w \in Slot : /\ First(w) \in Nat /\ End(w) \in Nat
                         /\ First(w) <= End(w) /\ End(w) <= total
      /\ \A v, w \in Slot : v # w => End(v) <= First(w) \/ End(w) <= First(v)
  BY <1>t, Regions DEF Control, Shared
<1>1. CASE NothingToLoad
  <2>1. TypeOK' /\ Control'
    BY <1>1, <1>t DEF NothingToLoad, TypeOK, Control, Slot, Busy, inputs, workers
  <2> QED
    BY <1>1, <2>1, CallerKeeps DEF NothingToLoad, LoadInv
<1>2. CASE SequentialDone
  <2>1. TypeOK'
    BY <1>2, <1>t DEF SequentialDone, TypeOK, inputs, workers
  <2>2. Control'
    BY <1>2, <1>t DEF SequentialDone, TypeOK, Control, Slot, Busy, inputs, workers
  <2> QED
    BY <1>2, <2>1, <2>2, CallerKeeps DEF SequentialDone, LoadInv
<1>3. CASE LaunchFails
  <2>1. TypeOK'
    BY <1>3, <1>t DEF LaunchFails, TypeOK, inputs, workers
  <2>2. Control'
    <3>1. pc' = "failed" => \A w \in Worker : ~Busy(w)'
      BY <1>3, <1>t DEF LaunchFails, TypeOK, Control, Busy, workers, Worker
    <3> QED
      BY <1>3, <1>t, <3>1 DEF LaunchFails, Control, Slot, inputs, workers
  <2> QED
    BY <1>3, <2>1, <2>2, CallerKeeps DEF LaunchFails, LoadInv
<1>4. CASE LaunchDone
  <2>1. TypeOK'
    BY <1>4, <1>t DEF LaunchDone, TypeOK, inputs, workers
  <2>2. Control'
    BY <1>4, <1>t DEF LaunchDone, Control, Slot, Busy, inputs, workers
  <2> QED
    BY <1>4, <2>1, <2>2, CallerKeeps DEF LaunchDone, LoadInv
<1>5. CASE Join
  <2>1. TypeOK'
    BY <1>5, <1>t DEF Join, TypeOK, Control, inputs, workers
  <2>2. \A w \in Worker : w < joined' => wpc'[w] = "done"
    BY <1>5, <1>t DEF Join, TypeOK, Control, Worker, workers
  <2>3. Control'
    BY <1>5, <1>t, <2>2 DEF Join, Control, Slot, Busy, inputs, workers
  <2> QED
    BY <1>5, <2>1, <2>3, CallerKeeps DEF Join, LoadInv
<1>6. CASE JoinDone
  <2>1. TypeOK'
    BY <1>6, <1>t DEF JoinDone, TypeOK, inputs, workers
  <2>2. \A w \in Slot : wpc[w] = "done"
    BY <1>6, <1>t, <1>r DEF JoinDone, Control, Slot, TypeOK
  <2>3. Control'
    BY <1>6, <1>t, <2>2 DEF JoinDone, Control, Slot, Busy, inputs, workers
  <2> QED
    BY <1>6, <2>1, <2>3, CallerKeeps DEF JoinDone, LoadInv
<1>7. CASE Sequential
  <2>u. Slot' = Slot /\ Slot = {0} /\ \A w : First(w)' = First(w) /\ End(w)' = End(w)
    BY <1>7, <1>t DEF Sequential, Control, Slot, First, End, inputs
  <2>1. TypeOK'
    BY <1>7, <1>t DEF Sequential, TypeOK, Worker, inputs
  <2>2. Control'
    BY <1>7, <1>t, <2>u DEF Sequential, Control, TypeOK, Busy, inputs, Worker
  <2>3. Progress(0)'
    <3>1. First(0) = 0 /\ End(0) = total /\ idx[0] = 0
      BY <1>7, <1>t DEF Sequential, Control, First, End, Worker
    <3> QED
      BY <1>7, <1>t, <2>u, <3>1 DEF Sequential, LoadInv, Progress, Control, TypeOK, Busy, Worker
  <2> QED
    BY <1>7, <2>u, <2>1, <2>2, <2>3 DEF Sequential, LoadInv, inputs
<1>8. CASE Parallel
  <2>1. thread_num' \in 1..MaxThreads /\ thread_num' <= total
    BY <1>8, <1>t DEF Parallel, ThreadNum, Min2, TypeOK
  <2>2. TypeOK'
    BY <1>8, <1>t, <2>1 DEF Parallel, TypeOK, Control, inputs, workers
  <2>3. Control'
    BY <1>8, <1>t, <2>1 DEF Parallel, Control, TypeOK, Busy, Worker, Slot, inputs, workers
  <2>4. \A l \in Load : created[l] = 0
    BY <1>8, <1>t DEF Parallel, LoadInv, Control, TypeOK, Progress, Slot, First, End, Load, Worker
  <2>5. ASSUME NEW w \in Slot' PROVE Progress(w)'
    <3>1. w \in Worker /\ First(w)' \in Nat /\ End(w)' \in Nat /\ End(w)' <= total'
      <4>1. TypeOK' /\ (thread_num <= total)'
        BY <1>8, <2>1, <2>2 DEF Parallel, inputs
      <4>2. Shared'
        BY <4>1, Regions, PTL
      <4> QED
        BY <4>2 DEF Shared
    <3>2. \A l \in First(w)'..(End(w)' - 1) : l \in Load
      BY <3>1, <2>2 DEF TypeOK, Load
    <3>3. wpc'[w] = "none" /\ created' = created
      BY <1>8, <1>t, <3>1 DEF Parallel, Control, workers
    <3> QED
      BY <2>4, <3>2, <3>3 DEF Progress, Busy
  <2> QED
    BY <1>8, <2>2, <2>3, <2>4, <2>5 DEF Parallel, LoadInv, inputs, workers
<1>9. CASE Launch
  <2>u. Slot' = Slot /\ \A w : First(w)' = First(w) /\ End(w)' = End(w)
    BY <1>9 DEF Launch, Slot, First, End, inputs
  <2>1. /\ launched \in Slot /\ launched \in Worker
        /\ First(launched) = ChunkStart(launched, total, thread_num)
        /\ End(launched) = First(launched) + ChunkCount(launched, total, thread_num)
    BY <1>9, <1>t, <1>r DEF Launch, Control, TypeOK, Slot, First, End, ChunkEnd
  <2>2. wpc[launched] = "none"
    BY <1>9, <1>t, <2>1 DEF Launch, Control, TypeOK, Worker
  <2>3. TypeOK'
    BY <1>9, <1>t, <1>r, <2>1 DEF Launch, TypeOK, inputs
  <2>4. Control'
    BY <1>9, <1>t, <2>u, <2>1, <2>2 DEF Launch, Control, TypeOK, Busy, Worker, inputs
  <2>5. ASSUME NEW w \in Slot PROVE Progress(w)'
    <3>1. Progress(w) /\ First(w) \in Nat /\ End(w) \in Nat /\ First(w) <= End(w)
      BY <1>r DEF LoadInv
    <3>2. CASE w = launched
      <4>1. /\ wpc'[w] = IF First(w) < End(w) THEN "create" ELSE "done"
            /\ idx'[w] = First(w) /\ created' = created
        BY <1>9, <1>t, <2>1, <3>1, <3>2 DEF Launch, TypeOK, ChunkCount
      <4> QED
        BY <4>1, <3>1, <3>2, <2>u, <2>2 DEF Progress, Busy
    <3>3. CASE w # launched
      BY <1>9, <1>t, <2>u, <3>1, <3>3 DEF Launch, Progress, Busy, Running, TypeOK
    <3> QED
      BY <3>2, <3>3
  <2> QED
    BY <1>9, <2>u, <2>3, <2>4, <2>5 DEF Launch, LoadInv, inputs
<1> QED
  BY <1>1, <1>2, <1>3, <1>4, <1>5, <1>6, <1>7, <1>8, <1>9 DEF CallerStep

\* A busy worker is a slot, at an entry of its own, and nobody has returned.
LEMMA BusyWorker ==
  ASSUME LoadInv, NEW w \in Worker, Busy(w), Running
  PROVE  /\ w \in Slot
         /\ idx[w] \in First(w)..(End(w) - 1)
         /\ idx[w] \in Load /\ idx[w] < total
         /\ \A v \in Slot : v # w => idx[w] \notin First(v)..(End(v) - 1)
         /\ Last(w) = End(w)
         /\ pc \in {"sequential", "launch", "join"}
         /\ ~(w < joined)
<1> USE LoadAssumption
<1>1. TypeOK /\ Control /\ Shared
  BY Regions DEF LoadInv, Control
<1>2. w \in Slot
  BY <1>1 DEF Control, Busy
<1>3. idx[w] \in First(w)..(End(w) - 1)
  BY <1>2 DEF LoadInv, Progress
<1>4. First(w) \in Nat /\ End(w) \in Nat /\ End(w) <= total
  BY <1>1, <1>2 DEF Shared
<1>5. idx[w] \in Load /\ idx[w] < total
  BY <1>1, <1>3, <1>4 DEF TypeOK, Load
<1>6. ASSUME NEW v \in Slot, v # w PROVE idx[w] \notin First(v)..(End(v) - 1)
  <2>1. /\ First(v) \in Nat /\ End(v) \in Nat
        /\ End(v) <= First(w) \/ End(w) <= First(v)
    BY <1>1, <1>2, <1>6 DEF Shared
  <2> QED
    BY <1>3, <1>4, <2>1
<1>7. pc \in {"sequential", "launch", "join"}
  <2>1. pc # "start"
    BY <1>1 DEF Control, Busy
  <2>2. pc # "done"
    BY <1>1, <1>2, <1>3, <1>4 DEF Control, Busy
  <2> QED
    BY <1>1, <2>1, <2>2 DEF TypeOK, Running
<1>8. Last(w) = End(w)
  BY <1>1, <1>7 DEF Control, Last, End, TypeOK
<1>9. ~(w < joined)
  BY <1>1 DEF Control, Busy
<1> QED
  BY <1>2, <1>3, <1>5, <1>6, <1>7, <1>8, <1>9

\* Every step of a worker keeps the invariant.
LEMMA WorkerStepKeeps ==
  ASSUME LoadInv, NEW w \in Worker, WorkerStep(w)
  PROVE  LoadInv'
<1> USE LoadAssumption
<1>t. TypeOK /\ Control
  BY DEF LoadInv
<1>b. Busy(w) /\ Running
  BY DEF WorkerStep, CreateInfo, CreateThrows, UpdateLoadAddr, Busy
<1>w. /\ w \in Slot
      /\ idx[w] \in First(w)..(End(w) - 1)
      /\ idx[w] \in Load /\ idx[w] < total
      /\ \A v \in Slot : v # w => idx[w] \notin First(v)..(End(v) - 1)
      /\ Last(w) = End(w)
      /\ pc \in {"sequential", "launch", "join"}
      /\ ~(w < joined)
  BY <1>b, BusyWorker
<1>p. Progress(w) /\ \A v \in Slot : Progress(v)
  BY <1>w DEF LoadInv
<1>s. Slot \subseteq Worker /\ \A v \in Slot : First(v) \in Nat /\ End(v) \in Nat
  BY <1>t, Regions DEF Control, Shared
<1>u. /\ Slot' = Slot /\ total' = total
      /\ \A v : First(v)' = First(v) /\ End(v)' = End(v)
  BY DEF WorkerStep, CreateInfo, CreateThrows, UpdateLoadAddr, Slot, First, End, inputs
<1>1. CASE CreateInfo(w)
  <2>1. TypeOK'
    BY <1>1, <1>t, <1>w DEF CreateInfo, TypeOK, inputs
  <2>2. Control'
    BY <1>1, <1>t, <1>w, <1>u DEF CreateInfo, Control, TypeOK, Busy, inputs
  <2>3. created[idx[w]] = 0
    BY <1>1, <1>p, <1>w, <1>t DEF CreateInfo, Progress, TypeOK
  <2>4. Progress(w)'
    BY <1>1, <1>p, <1>t, <1>w, <1>u, <1>s, <2>3
       DEF CreateInfo, Progress, Busy, TypeOK, Load
  <2>5. ASSUME NEW v \in Slot, v # w PROVE Progress(v)'
    <3>1. \A l \in First(v)..(End(v) - 1) : created'[l] = created[l]
      BY <1>1, <1>t, <1>w, <2>5 DEF CreateInfo, TypeOK
    <3>2. wpc'[v] = wpc[v] /\ idx'[v] = idx[v] /\ updated' = updated
      BY <1>1, <1>t, <1>s, <2>5 DEF CreateInfo, TypeOK
    <3>3. Running'
      BY <1>1, <1>b DEF CreateInfo, Running
    <3> QED
      BY <1>b, <1>p, <1>u, <3>1, <3>2, <3>3 DEF Progress, Busy
  <2>6. \A l \in Load : l >= total => created'[l] = 0
    BY <1>1, <1>t, <1>w DEF CreateInfo, TypeOK, LoadInv, Load
  <2> QED
    BY <1>u, <2>1, <2>2, <2>4, <2>5, <2>6 DEF LoadInv
<1>2. CASE CreateThrows(w)
  <2>1. TypeOK'
    BY <1>2, <1>t DEF CreateThrows, TypeOK, inputs
  <2>2. Control'
    <3>1. pc' = "failed" => \A v \in Worker : ~Busy(v)'
      BY <1>2, <1>t, <1>w DEF CreateThrows, Control, TypeOK, Busy, Slot
    <3> QED
      BY <1>2, <1>t, <1>w, <1>u, <3>1 DEF CreateThrows, Control, TypeOK, inputs
  <2>3. ~Running'
    BY <1>2 DEF CreateThrows, Running
  <2>4. Progress(w)'
    BY <1>2, <1>p, <1>t, <1>w, <1>u, <1>s, <2>3
       DEF CreateThrows, Progress, Busy, TypeOK
  <2>5. ASSUME NEW v \in Slot, v # w PROVE Progress(v)'
    BY <1>2, <1>p, <1>t, <1>s, <1>u, <2>3, <2>5 DEF CreateThrows, Progress, Busy, TypeOK
  <2> QED
    BY <1>2, <1>u, <2>1, <2>2, <2>4, <2>5 DEF CreateThrows, LoadInv
<1>3. CASE UpdateLoadAddr(w)
  <2>0. idx[w] + 1 <= End(w) /\ End(w) <= total
    <3>1. Shared
      BY <1>t, Regions DEF Control
    <3> QED
      BY <1>w, <1>s, <3>1 DEF Shared
  <2>1. TypeOK'
    <3>1. idx[w] + 1 \in 0..MaxLoads
      BY <1>t, <1>w, <1>s, <2>0 DEF TypeOK, Load
    <3> QED
      BY <1>3, <1>t, <1>w, <3>1 DEF UpdateLoadAddr, TypeOK, inputs
  <2>2. Control'
    BY <1>3, <1>t, <1>w, <1>u DEF UpdateLoadAddr, Control, TypeOK, Busy, inputs
  <2>3. /\ idx'[w] = idx[w] + 1
        /\ wpc'[w] = IF idx[w] + 1 < End(w) THEN "create" ELSE "done"
        /\ updated' = updated \cup {idx[w]} /\ created' = created /\ wpc[w] = "update"
    BY <1>3, <1>t, <1>w DEF UpdateLoadAddr, TypeOK
  <2>4. Progress(w)'
    <3>1. Busy(w)' => idx'[w] \in First(w)..(End(w) - 1)
      BY <1>w, <1>s, <2>3 DEF Busy
    <3>2. ASSUME NEW l \in First(w)..(End(w) - 1)
          PROVE  /\ created'[l] = IF l < idx'[w] THEN 1 ELSE 0
                 /\ l < idx'[w] => l \in updated'
      <4>1. /\ created[l] = IF l < idx[w] \/ l = idx[w] THEN 1 ELSE 0
            /\ l < idx[w] => l \in updated
        BY <1>p, <2>3, <3>2 DEF Progress
      <4>2. l < idx'[w] <=> l < idx[w] \/ l = idx[w]
        BY <1>w, <1>s, <2>3, <3>2
      <4> QED
        BY <2>3, <4>1, <4>2
    <3>3. wpc'[w] = "done" => idx'[w] = End(w)
      BY <1>w, <1>s, <2>0, <2>3
    <3> QED
      BY <1>u, <2>3, <3>1, <3>2, <3>3 DEF Progress
  <2>5. ASSUME NEW v \in Slot, v # w PROVE Progress(v)'
    <3>1. wpc'[v] = wpc[v] /\ idx'[v] = idx[v] /\ created' = created
      BY <1>3, <1>t, <1>s, <2>5 DEF UpdateLoadAddr, TypeOK
    <3>2. Running'
      BY <1>3, <1>b DEF UpdateLoadAddr, Running
    <3> QED
      BY <1>b, <1>p, <1>u, <2>3, <3>1, <3>2 DEF Progress, Busy
  <2> QED
    BY <1>u, <2>1, <2>2, <2>3, <2>4, <2>5 DEF LoadInv
<1> QED
  BY <1>1, <1>2, <1>3 DEF WorkerStep

\* The invariant holds in every behaviour.
LEMMA LoadInvariant == Spec => []LoadInv
<1>1. LoadInv /\ UNCHANGED vars => LoadInv'
  BY DEF vars, inputs, workers, LoadInv, TypeOK, Control, Progress, Slot, First, End,
         Busy, Running
<1>2. LoadInv /\ [Next]_vars => LoadInv'
  BY <1>1, CallerStepKeeps, WorkerStepKeeps DEF Next
<1> QED
  BY <1>2, LoadInit, PTL DEF Spec

-----------------------------------------------------------------------------
(* Theorems.                                                               *)

\* The number of threads, every index into the vector and every chunk stay
\* within their bounds.
THEOREM LoadTypeCorrect == Spec => []TypeOK
<1>1. LoadInv => TypeOK
  BY DEF LoadInv
<1> QED
  BY <1>1, LoadInvariant, PTL

\* loadSymbolsParallel needs no lock: no two threads are at the same entry.
THEOREM NoSharing == Spec => []NoSharedEntry
<1>1. LoadInv => NoSharedEntry
  <2> SUFFICES ASSUME LoadInv, NEW v \in Worker, NEW w \in Worker, v # w, Busy(v), Busy(w)
               PROVE  idx[v] # idx[w]
    BY DEF NoSharedEntry
  <2>1. Control /\ Shared
    BY Regions DEF LoadInv, Control
  <2>2. v \in Slot /\ w \in Slot
    BY <2>1 DEF Control, Busy
  <2>3. idx[v] \in First(v)..(End(v) - 1) /\ idx[w] \in First(w)..(End(w) - 1)
    BY <2>2 DEF LoadInv, Progress
  <2> QED
    BY <2>1, <2>2, <2>3 DEF Shared
<1> QED
  BY <1>1, LoadInvariant, PTL

\* Every file is loaded at most once, and once when loading ends normally,
\* however the files are divided among the threads.
THEOREM LoadedOnce == Spec => []LoadedExactlyOnce
<1>1. LoadInv => LoadedExactlyOnce
  <2> SUFFICES ASSUME LoadInv PROVE LoadedExactlyOnce
    OBVIOUS
  <2>1. TypeOK /\ Control /\ Shared
    BY Regions DEF LoadInv, Control
  <2>2. ASSUME NEW l \in Load, l < total
        PROVE  /\ created[l] <= 1
               /\ pc = "done" => created[l] = 1 /\ l \in updated
    <3>1. l \in 0..(total - 1)
      BY <2>1, <2>2, LoadAssumption DEF TypeOK, Load
    <3>2. PICK w \in Slot : l \in First(w)..(End(w) - 1)
      BY <2>1, <3>1 DEF Shared
    <3>3. Progress(w) /\ w \in Worker /\ First(w) \in Nat /\ End(w) \in Nat
      BY <2>1, <3>2 DEF LoadInv, Shared
    <3>4. created[l] <= 1
      BY <3>2, <3>3 DEF Progress
    <3>5. ASSUME pc = "done" PROVE created[l] = 1 /\ l \in updated
      <4>1. wpc[w] = "done" /\ idx[w] = End(w)
        BY <2>1, <3>1, <3>2, <3>3, <3>5 DEF Control, Progress, Running
      <4>2. l < idx[w]
        BY <3>2, <3>3, <4>1
      <4> QED
        BY <3>2, <3>3, <4>1, <4>2 DEF Progress
    <3> QED
      BY <3>4, <3>5
  <2>3. ASSUME NEW l \in Load, ~(l < total) PROVE created[l] <= 1
    BY <2>1, <2>3, LoadAssumption DEF LoadInv, TypeOK, Load
  <2>4. \A l \in 0..(total - 1) : l \in Load /\ l < total
    BY <2>1, LoadAssumption DEF TypeOK, Load
  <2> QED
    BY <2>2, <2>3, <2>4 DEF LoadedExactlyOnce
<1> QED
  BY <1>1, LoadInvariant, PTL

\* Nobody writes to the entries when the constructor has returned, normally or
\* through its catch.
THEOREM NobodyLeft == Spec => []NoWorkerLeftBehind
<1>1. LoadInv => NoWorkerLeftBehind
  <2> SUFFICES ASSUME LoadInv, pc \in {"done", "failed"}, NEW w \in Worker, Busy(w)
               PROVE  FALSE
    BY DEF NoWorkerLeftBehind
  <2>1. pc = "done" /\ Running
    BY DEF LoadInv, Control, Running
  <2> QED
    BY <2>1, BusyWorker
<1> QED
  BY <1>1, LoadInvariant, PTL
=============================================================================
