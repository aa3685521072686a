------------------------------- MODULE Stacks -------------------------------
(***************************************************************************)
(* A capture: the stacks that the child of dmstack has taken, in order     *)
(* (BackTraces of src/dmstack/unwind/backtraces.h), with the names of the  *)
(* threads.  Wire and StackFile are the two ways from a capture to the     *)
(* process that reports it.                                                *)
(***************************************************************************)
EXTENDS Integers, Sequences

CONSTANTS Tid,         \* thread ids
          Addr,        \* return addresses
          MaxThreads,  \* bound: threads in a capture
          MaxDepth     \* bound: frames of a stack

ASSUME StacksAssumption ==
  Tid \subseteq Nat /\ Addr \subseteq Nat /\ MaxThreads \in Nat /\ MaxDepth \in Nat \ {0}

VARIABLE captured        \* bts_ of the child, or the stacks that were printed to a file

\* Thread names: "worker", "gc-main", and "pool-1", where a number follows the
\* first dash.
Name == {"plain", "dashWord", "dashNumber"}

\* BackTrace; a capture keeps no stack without frames.
Frames     == UNION {[1..d -> Addr] : d \in 1..MaxDepth}
BackTrace  == [tid : Tid, frames : Frames]
NamedTrace == [tid : Tid, frames : Frames, name : Name]

\* Captures of up to n threads of the given set of traces.
Captures(n, traces) ==
  {c \in UNION {[1..m -> traces] : m \in 0..n} :
     \A i, j \in DOMAIN c : i # j => c[i].tid # c[j].tid}

Trace(t)  == [tid |-> t.tid, frames |-> t.frames]
Traces(c) == [i \in DOMAIN c |-> Trace(c[i])]
=============================================================================
