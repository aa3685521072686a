------------------------------- MODULE Report -------------------------------
(***************************************************************************)
(* Output of src/dmstack/utils/output.h: which threads are printed, in     *)
(* which entries and in which order.  A live capture is split into the     *)
(* threads that match --priority-threads and the rest, and each part is    *)
(* printed on its own; stacks read from a file, and raw addresses, are one *)
(* part.  The layout of an entry is left out.                              *)
(***************************************************************************)
EXTENDS Integers, Sequences, FiniteSets, FiniteSetsExt

CONSTANTS MinDepths,  \* the values of the option min-depth, an int
          WordSize    \* size_t counts modulo WordSize (2^64 in the code)

ASSUME ReportAssumption ==
  /\ WordSize \in Nat \ {0}
  /\ MinDepths \subseteq Int /\ \A d \in MinDepths : d < WordSize

Mode == {"live", "input", "noParse"}

VARIABLES bts,        \* the stacks, each with its thread id
          mode,       \* where the stacks come from and how they are printed
          aggregate, reverse, min_depth,   \* config
          priority,   \* the thread ids whose name matches a priority pattern
          phase,      \* "reading" the stacks, or the part that is printed
          left,       \* entries of this part not printed yet
          out         \* what was printed: an entry's threads, stack and part

config     == <<mode, aggregate, reverse, min_depth, priority>>
reportVars == <<bts, config, phase, left, out>>

included == {t \in DOMAIN bts : bts[t].tid \in priority}

\* The stack of an entry is that of its first thread.
StackOf(e) == bts[Min(e)].frames

\* bt.addrs().size() <= config_.min_depth: the int is converted to a size_t.
TooShallow(frames) == Len(frames) <= min_depth % WordSize

\* Fault: only the sizes are compared.
SameStackSize(s, t) == Len(bts[s].frames) = Len(bts[t].frames)

\* Equal in BackTrace::operator<, which compares sizes, then addresses.
SameStack(s, t) == bts[s].frames = bts[t].frames

\* The map from backtraces to their threads, or each thread by itself.
Entries(part) ==
  IF aggregate /\ mode # "noParse"
  THEN {{t \in part : SameStack(s, t)} : s \in part}
  ELSE {{t} : t \in part}

\* Fault: reverse is not looked at.
FirstDescending(e) == \A f \in left : Cardinality(e) >= Cardinality(f)

\* May e be printed next?  std::sort by the number of threads, ascending with
\* reverse; entries with as many threads, and unaggregated ones, in any order.
First(e) ==
  \A f \in left : IF reverse THEN Cardinality(e) <= Cardinality(f)
                             ELSE Cardinality(e) >= Cardinality(f)

ReportTypeOK ==
  /\ mode \in Mode
  /\ aggregate \in BOOLEAN /\ reverse \in BOOLEAN
  /\ min_depth \in MinDepths
  /\ included \subseteq DOMAIN bts
  /\ phase \in {"reading", "start", "included", "excluded", "all", "done", "failed"}
  /\ left \subseteq SUBSET DOMAIN bts
  /\ \A i \in DOMAIN out : out[i].threads \in (SUBSET DOMAIN bts) \ {{}}

ReportStart(tids) ==
  /\ aggregate \in BOOLEAN /\ reverse \in BOOLEAN
  /\ min_depth \in MinDepths
  /\ priority \in SUBSET tids
  /\ phase = "reading"
  /\ bts = <<>> /\ left = {} /\ out = <<>>

-----------------------------------------------------------------------------
\* BFDCache could not be built: nothing is printed.
BfdFails ==
  /\ phase = "start" /\ mode = "live"
  /\ phase' = "failed"
  /\ UNCHANGED <<bts, config, left, out>>

\* A live capture starts with the threads that match; others have one part.
Start ==
  /\ phase = "start"
  /\ IF mode = "live"
     THEN phase' = "included" /\ left' = Entries(included)
     ELSE phase' = "all" /\ left' = Entries(DOMAIN bts)
  /\ UNCHANGED <<bts, config, out>>

\* Fault: entries that are too shallow are printed without threads.
PrintEntryEmpty ==
  /\ phase \in {"included", "excluded", "all"}
  /\ \E e \in left :
       /\ First(e)
       /\ left' = left \ {e}
       /\ out' = Append(out,
              [threads |-> {t \in e : ~TooShallow(bts[t].frames)},
               frames |-> StackOf(e), part |-> phase])
  /\ UNCHANGED <<bts, config, phase>>

\* The next entry of the part, unless its stack is too shallow.
PrintEntry ==
  /\ phase \in {"included", "excluded", "all"}
  /\ \E e \in left :
       /\ First(e)
       /\ left' = left \ {e}
       /\ out' = IF TooShallow(StackOf(e)) THEN out
                 ELSE Append(out, [threads |-> e, frames |-> StackOf(e), part |-> phase])
  /\ UNCHANGED <<bts, config, phase>>

\* Fault: after the matching threads all are printed.
EndPartAll ==
  /\ left = {}
  /\ \/ /\ phase = "included"
        /\ phase' = "excluded"
        /\ left' = Entries(DOMAIN bts)
     \/ /\ phase \in {"excluded", "all"}
        /\ phase' = "done"
        /\ UNCHANGED left
  /\ UNCHANGED <<bts, config, out>>

EndPart ==
  /\ left = {}
  /\ \/ /\ phase = "included"
        /\ phase' = "excluded"
        /\ left' = Entries(DOMAIN bts \ included)
     \/ /\ phase \in {"excluded", "all"}
        /\ phase' = "done"
        /\ UNCHANGED left
  /\ UNCHANGED <<bts, config, out>>

ReportNext == BfdFails \/ Start \/ PrintEntry \/ EndPart

-----------------------------------------------------------------------------
(* Properties.                                                             *)

Mentions(t) == {i \in DOMAIN out : t \in out[i].threads}

\* Thread t, with these frames, is in one entry at most and with its own stack;
\* with more than min_depth frames it is in one, with fewer in none.
ShownOnce(t, frames) ==
  /\ Cardinality(Mentions(t)) <= 1
  /\ \A i \in Mentions(t) : out[i].frames = frames
  /\ min_depth >= 0 /\ Len(frames) > min_depth => Mentions(t) # {}
  /\ Len(frames) < min_depth => Mentions(t) = {}

\* Whatever the grouping, the split and min-depth, negative ones included: no
\* thread is printed twice or with the stack of another, and --min-depth treats
\* threads with equally many frames alike.  Of exactly N frames this says no
\* more, for README.md:135 (deeper than N) and the usage at config.cpp:74 (N or
\* more) disagree: see PrintsFromMinDepth.
EachDeepThreadOnce ==
  phase = "done" =>
    /\ \A t \in DOMAIN bts : ShownOnce(t, bts[t].frames)
    /\ \A s, t \in DOMAIN bts :
         Len(bts[s].frames) = Len(bts[t].frames) /\ Mentions(s) # {} => Mentions(t) # {}


\* Within a part the aggregated entries come by their number of threads, the
\* skipped ones not disturbing the order.
SortedWithinPart ==
  aggregate =>
    \A i, j \in DOMAIN out :
      i < j /\ out[i].part = out[j].part =>
        LET a == Cardinality(out[i].threads)
            b == Cardinality(out[j].threads)
        IN  IF reverse THEN a <= b ELSE a >= b

\* Usage at config.cpp:75, --priority-threads: matching threads are printed
\* first, no entry without one of them coming before an entry with one.
PriorityFirst ==
  mode = "live" =>
    \A i, j \in DOMAIN out :
      out[i].threads \cap included = {} /\ out[j].threads \cap included # {} => j < i
=============================================================================
