---------------------------- MODULE ParallelLoad ----------------------------
(***************************************************************************)
(* BFDCache::loadSymbols and loadSymbolsParallel of                        *)
(* src/dmstack/bfd/bfd_cache.cpp: the symbol tables of all mapped files    *)
(* are loaded by the calling thread, or by worker threads that each own a  *)
(* contiguous chunk of the vector pt_loads_.                               *)
(***************************************************************************)
EXTENDS Integers

CONSTANTS MaxLoads,      \* bound: mapped files (entries of pt_loads_)
          MaxHardware,   \* bound: what hardware_concurrency may answer
          MaxThreads     \* bound: the option bfd_threads

ASSUME LoadAssumption == MaxLoads \in Nat /\ MaxHardware \in Nat /\ MaxThreads \in Nat \ {0}

Load   == 0..(MaxLoads - 1)
Worker == 0..(MaxThreads - 1)

VARIABLES total,         \* pt_loads_.size()
          hardware,      \* std::thread::hardware_concurrency(), 0 if unknown
          bfd_threads,   \* config: bfd_threads
          pc,            \* the thread that constructs the BFDCache
          thread_num,    \* workers to launch
          launched,      \* workers launched so far
          joined,        \* workers joined so far
          wpc,           \* what each worker does with its entry
          idx,           \* the entry of pt_loads_ a worker is at (i)
          created,       \* how often createBFDInfo ran on each entry
          updated        \* entries updateLoadAddr has finished with

inputs  == <<total, hardware, bfd_threads>>
workers == <<wpc, idx, created, updated>>
vars    == <<inputs, pc, thread_num, launched, joined, workers>>

Min2(a, b) == IF a < b THEN a ELSE b

\* Fault: the option bfd_threads is not a limit.
ThreadNumUncapped == Min2(total, IF hardware > 0 THEN hardware ELSE 2)

\* std::min({total_size, hardware, bfd_threads}), 2 for an unknown hardware.
ThreadNum == Min2(total, Min2(IF hardware > 0 THEN hardware ELSE 2, bfd_threads))

\* Fault: chunks start as if nothing were left over.
ChunkStartEven(t, k, n) == t * (k \div n)

\* Fault: what is left over is given to nobody.
ChunkCountEven(t, k, n) == k \div n

\* The chunk of worker t when n workers share k entries.
ChunkStart(t, k, n) == t * (k \div n) + Min2(t, k % n)
ChunkCount(t, k, n) == (k \div n) + (IF t < k % n THEN 1 ELSE 0)
ChunkEnd(t, k, n)   == ChunkStart(t, k, n) + ChunkCount(t, k, n)

\* Where the loop of a worker, or of the calling thread, ends.
Last(w) == IF pc = "sequential" THEN total ELSE ChunkEnd(w, total, thread_num)

Busy(w) == wpc[w] \in {"create", "update"}

TypeOK ==
  /\ total \in 0..MaxLoads
  /\ hardware \in 0..MaxHardware
  /\ bfd_threads \in 0..MaxThreads
  /\ pc \in {"start", "sequential", "launch", "join", "done", "failed", "terminated"}
  /\ thread_num \in 0..MaxThreads
  /\ launched \in 0..thread_num
  /\ joined \in 0..launched
  /\ wpc \in [Worker -> {"none", "create", "update", "done"}]
  /\ idx \in [Worker -> 0..MaxLoads]
  /\ created \in [Load -> Nat]
  /\ updated \subseteq Load

Init ==
  /\ total \in 0..MaxLoads
  /\ hardware \in 0..MaxHardware
  /\ bfd_threads \in 0..MaxThreads
  /\ pc = "start"
  /\ thread_num = 0 /\ launched = 0 /\ joined = 0
  /\ wpc = [w \in Worker |-> "none"]
  /\ idx = [w \in Worker |-> 0]
  /\ created = [l \in Load |-> 0]
  /\ updated = {}

-----------------------------------------------------------------------------
(* The constructing thread.                                                *)

NothingToLoad ==
  /\ pc = "start" /\ total = 0
  /\ pc' = "done"
  /\ UNCHANGED <<inputs, thread_num, launched, joined, workers>>

\* At most one thread wanted: the caller runs the loop itself, as worker 0.
Sequential ==
  /\ pc = "start" /\ total > 0 /\ bfd_threads <= 1
  /\ pc' = "sequential"
  /\ wpc' = [wpc EXCEPT ![0] = "create"]
  /\ UNCHANGED <<inputs, thread_num, launched, joined, idx, created, updated>>

SequentialDone ==
  /\ pc = "sequential" /\ wpc[0] = "done"
  /\ pc' = "done"
  /\ UNCHANGED <<inputs, thread_num, launched, joined, workers>>

Parallel ==
  /\ pc = "start" /\ total > 0 /\ bfd_threads > 1
  /\ pc' = "launch"
  /\ thread_num' = ThreadNum
  /\ UNCHANGED <<inputs, launched, joined, workers>>

Launch ==
  /\ pc = "launch" /\ launched < thread_num
  /\ idx' = [idx EXCEPT ![launched] = ChunkStart(launched, total, thread_num)]
  /\ wpc' = [wpc EXCEPT ![launched] =
               IF ChunkCount(launched, total, thread_num) > 0 THEN "create" ELSE "done"]
  /\ launched' = launched + 1
  /\ UNCHANGED <<inputs, pc, thread_num, joined, created, updated>>

\* Fault: the exception is taken to leave the launched workers behind.
LaunchFailsSoftly ==
  /\ pc = "launch" /\ launched < thread_num
  /\ pc' = "failed"
  /\ UNCHANGED <<inputs, thread_num, launched, joined, workers>>

\* The system has no thread to give: emplace_back throws, and destroying the
\* vector of workers terminates the program if it holds one to be joined.
LaunchFails ==
  /\ pc = "launch" /\ launched < thread_num
  /\ pc' = IF launched > 0 THEN "terminated" ELSE "failed"
  /\ UNCHANGED <<inputs, thread_num, launched, joined, workers>>

LaunchDone ==
  /\ pc = "launch" /\ launched = thread_num
  /\ pc' = "join"
  /\ UNCHANGED <<inputs, thread_num, launched, joined, workers>>

Join ==
  /\ pc = "join" /\ joined < thread_num
  /\ wpc[joined] = "done"
  /\ joined' = joined + 1
  /\ UNCHANGED <<inputs, pc, thread_num, launched, workers>>

\* Fault: one join for each entry instead of one for each worker.
JoinDoneEntries ==
  /\ pc = "join" /\ joined = total
  /\ pc' = "done"
  /\ UNCHANGED <<inputs, thread_num, launched, joined, workers>>

JoinDone ==
  /\ pc = "join" /\ joined = thread_num
  /\ pc' = "done"
  /\ UNCHANGED <<inputs, thread_num, launched, joined, workers>>

CallerStep == \/ NothingToLoad \/ Sequential \/ SequentialDone \/ Parallel
              \/ Launch \/ LaunchFails \/ LaunchDone \/ Join \/ JoinDone

-----------------------------------------------------------------------------
(* A worker, or the caller in its place.                                   *)

Running == pc \notin {"failed", "terminated"}

\* createBFDInfo makes a BFDInfo, with or without symbols.
CreateInfo(w) ==
  /\ Running /\ wpc[w] = "create"
  /\ created' = [created EXCEPT ![idx[w]] = @ + 1]
  /\ wpc' = [wpc EXCEPT ![w] = "update"]
  /\ UNCHANGED <<inputs, pc, thread_num, launched, joined, idx, updated>>

\* An exception reaches the try block of the constructor from its own thread
\* only; in a worker it ends the program.
CreateThrows(w) ==
  /\ Running /\ wpc[w] = "create"
  /\ pc' = IF pc = "sequential" THEN "failed" ELSE "terminated"
  /\ wpc' = [wpc EXCEPT ![w] = "done"]
  /\ UNCHANGED <<inputs, thread_num, launched, joined, idx, created, updated>>

\* updateLoadAddr, and on to the next entry of the chunk.
UpdateLoadAddr(w) ==
  /\ Running /\ wpc[w] = "update"
  /\ updated' = updated \cup {idx[w]}
  /\ idx' = [idx EXCEPT ![w] = @ + 1]
  /\ wpc' = [wpc EXCEPT ![w] = IF idx[w] + 1 < Last(w) THEN "create" ELSE "done"]
  /\ UNCHANGED <<inputs, pc, thread_num, launched, joined, created>>

WorkerStep(w) == CreateInfo(w) \/ CreateThrows(w) \/ UpdateLoadAddr(w)

Next == CallerStep \/ \E w \in Worker : WorkerStep(w)

Spec == Init /\ [][Next]_vars

\* The operating system runs every thread.
FairSpec == /\ Spec
            /\ WF_vars(CallerStep)
            /\ \A w \in Worker : WF_vars(WorkerStep(w))

-----------------------------------------------------------------------------
(* Properties.                                                             *)

\* No two workers are ever at the same entry of pt_loads_, which they write
\* without a lock.
NoSharedEntry ==
  \A v, w \in Worker : v # w /\ Busy(v) /\ Busy(w) => idx[v] # idx[w]

\* Every entry is loaded once, by one thread: none is loaded twice, and when
\* loading ends without an exception none has been left out.
LoadedExactlyOnce ==
  /\ \A l \in Load : created[l] <= 1
  /\ pc = "done" => \A l \in 0..(total - 1) : created[l] = 1 /\ l \in updated

\* The constructor never returns, normally or through its catch, while a
\* worker still writes to the entries.
NoWorkerLeftBehind ==
  pc \in {"done", "failed"} => \A w \in Worker : ~Busy(w)

\* Loading ends.
LoadEnds == <>(pc \in {"done", "failed", "terminated"})
=============================================================================
