------------------------------ MODULE AddrMap -------------------------------
(***************************************************************************)
(* From an address to a file and a function: BFDCache::loadProcMaps,       *)
(* PTLoad::updateLoadAddr and BFDCache::addr2symbol of                     *)
(* src/dmstack/bfd/bfd_cache.cpp.  /proc/<pid>/maps is read line by line;  *)
(* all mappings of a file become one range; the ranges are sorted by their *)
(* start and searched by their end.                                        *)
(***************************************************************************)
EXTENDS Integers, Sequences, FiniteSets, FiniteSetsExt

CONSTANTS File,      \* files that are mapped and exist
          Base,      \* the lowest address that is mapped
          MaxAddr,   \* bound: addresses are Base..MaxAddr
          MaxSym,    \* bound: values of symbols
          Tables     \* the symbol tables that a file may have

ASSUME AddrAssumption ==
  /\ IsFiniteSet(File)
  /\ Base \in Nat \ {0} /\ MaxAddr \in Nat /\ Base <= MaxAddr
  /\ MaxSym \in Nat /\ Tables \subseteq SUBSET (0..MaxSym)

Addr    == Base..MaxAddr
Unknown == "???"    \* a file that is not known
None    == -1       \* a function that is not found

VARIABLES pc,         \* "maps", "symbols" or "ready"
          next,       \* history: where the next line of maps may start
          owner,      \* history: the file each address really belongs to
          ranges,     \* pt_map_: the merged range of each file met so far
          symbols,    \* sym_ents_: the values of the symbols of each file
          absolute    \* the files that are linked for the address they are at

vars == <<pc, next, owner, ranges, symbols, absolute>>

Range0(start, end) == [start |-> start, end |-> end]

TypeOK ==
  /\ pc \in {"maps", "symbols", "ready"}
  /\ next \in Base..(MaxAddr + 1)
  /\ owner \in [Addr -> File \cup {Unknown}]
  /\ DOMAIN ranges \subseteq File
  /\ \A f \in DOMAIN ranges : ranges[f].start \in Addr /\ ranges[f].end - 1 \in Addr
  /\ symbols \in [IF pc = "ready" THEN DOMAIN ranges ELSE {} -> Tables]
  /\ absolute \subseteq File

Init ==
  /\ pc = "maps"
  /\ next = Base
  /\ owner = [a \in Addr |-> Unknown]
  /\ ranges = <<>>
  /\ symbols = <<>>
  /\ absolute = {}

-----------------------------------------------------------------------------
(* loadProcMaps.  The kernel lists mappings in order and without overlap.  *)

\* Fault: a further line of a file is not looked at.
ExtendedNever(r, start, end) == r

\* Fault: the end of a line is taken for the last address of the mapping.
ExtendedInclusive(r, start, end) == Range0(r.start, end + 1)

\* std::min of the starts, std::max of the ends.
Extended(r, start, end) ==
  Range0(IF start < r.start THEN start ELSE r.start, IF end > r.end THEN end ELSE r.end)

\* A line with a path that exists: a new range, or the one of the file grows.
MapFile ==
  /\ pc = "maps"
  /\ \E f \in File, start \in next..MaxAddr : \E end \in (start + 1)..(MaxAddr + 1) :
       /\ ranges' = [g \in DOMAIN ranges \cup {f} |->
                       IF g # f THEN ranges[g]
                       ELSE IF f \in DOMAIN ranges THEN Extended(ranges[f], start, end)
                       ELSE Range0(start, end)]
       /\ owner' = [a \in Addr |-> IF a \in start..(end - 1) THEN f ELSE owner[a]]
       /\ next' = end
  /\ UNCHANGED <<pc, symbols, absolute>>

\* The end of maps.  Lines without a path, or with one that does not exist,
\* were skipped and left addresses unknown.
MapsDone ==
  /\ pc = "maps"
  /\ pc' = "symbols"
  /\ UNCHANGED <<next, owner, ranges, symbols, absolute>>

\* createBFDInfo for every file.  Any file may have any table: loadSymbols
\* keeps every function of type T, t, W and w, and with them the weak ones that
\* are undefined, whose value is 0 wherever the file is linked.
CreateInfos ==
  /\ pc = "symbols"
  /\ symbols' \in [DOMAIN ranges -> Tables]
  /\ absolute' \in SUBSET DOMAIN ranges
  /\ pc' = "ready"
  /\ UNCHANGED <<next, owner, ranges>>

Next == MapFile \/ MapsDone \/ CreateInfos

Spec == Init /\ [][Next]_vars

-----------------------------------------------------------------------------
(* updateLoadAddr and addr2symbol, once pc = "ready".                      *)

\* Fault: every file is taken to be linked at 0.
LoadAddrZero(f) == 0

\* load_vaddr_: the start of the range unless the first symbol lies before it.
LoadAddr(f) ==
  IF symbols[f] # {} /\ Min(symbols[f]) >= ranges[f].start THEN ranges[f].start ELSE 0

\* addr2offset.
Relative(f, addr) == addr - (ranges[f].start - LoadAddr(f))

InRange(f, addr) == ranges[f].start <= addr /\ addr < ranges[f].end

\* pt_loads_, sorted by start.
Loads ==
  CHOOSE s \in [1..Cardinality(DOMAIN ranges) -> DOMAIN ranges] :
    \A i, j \in DOMAIN s : i < j => ranges[s[i]].start < ranges[s[j]].start

\* Fault: the last address of a mapping is searched for in the one before.
LowerBoundStrict(addr) ==
  CHOOSE i \in 1..(Len(Loads) + 1) :
    /\ \A j \in 1..(i - 1) : ranges[Loads[j]].end < addr
    /\ i <= Len(Loads) => addr <= ranges[Loads[i]].end

\* One halving of the len entries from first on: the middle one decides in
\* which half the search goes on.  found has the results for shorter stretches.
Halve(found, addr, len) ==
  [first \in 1..(Len(Loads) + 1 - len) |->
     LET half == len \div 2 IN
     IF len = 0 THEN first
     ELSE IF ranges[Loads[first + half]].end <= addr
          THEN found[len - half - 1][first + half + 1]
          ELSE found[half][first]]

\* std::lower_bound over pt_loads_ with end <= addr, whether or not the ends
\* are sorted.
LowerBound(addr) ==
  LET search[len \in 0..Len(Loads)] == Halve(search, addr, len)
  IN search[Len(Loads)][1]

FileOf(addr) ==
  LET i == LowerBound(addr) IN
  IF i <= Len(Loads) /\ InRange(Loads[i], addr) THEN Loads[i] ELSE Unknown

\* std::upper_bound over sym_ents_, and the entry before it, unless that is
\* the beginning or the end of the table.
FunctionOf(addr) ==
  LET f     == FileOf(addr)
      below == {s \in symbols[f] : s <= Relative(f, addr)}
  IN IF f = Unknown \/ below = {} \/ below = symbols[f] THEN None ELSE Max(below)

-----------------------------------------------------------------------------
(* Properties.                                                             *)

\* No two files are mapped in turns.
Disjoint ==
  \A f, g \in DOMAIN ranges :
    f # g => ranges[f].end <= ranges[g].start \/ ranges[g].end <= ranges[f].start

\* The range of a file spans all its mappings.
RangesCover ==
  \A a \in Addr : owner[a] # Unknown => InRange(owner[a], a)

\* As long as no two files are mapped in turns, an address is attributed to
\* the file it belongs to.  An interleaved file breaks the order of the ends
\* that the search relies on.
ResolvesOwner ==
  pc = "ready" /\ Disjoint =>
    \A a \in Addr : owner[a] # Unknown => FileOf(a) = owner[a]

\* The address that the linker gave to what is at addr.
Linked(f, addr) == IF f \in absolute THEN addr ELSE addr - ranges[f].start

\* The first symbol tells how the file is linked: for the address it is at, if
\* no symbol lies before its range, and else for 0.  An undefined weak function
\* in a file linked for a fixed address tells wrong.
FirstSymbolTells(f) ==
  f \in absolute <=> \A s \in symbols[f] : s >= ranges[f].start

\* Where the first symbol of a file tells how it is linked, the function that
\* is named is the last one of the file that starts at or before the address,
\* and between two functions of the file an address always has one.
ResolvesFunction ==
  pc = "ready" =>
    \A a \in Addr :
      LET f      == FileOf(a)
          before == {s \in symbols[f] : s <= Linked(f, a)}
          after  == {s \in symbols[f] : s > Linked(f, a)}
      IN f # Unknown /\ FirstSymbolTells(f) =>
           FunctionOf(a) = IF before # {} /\ after # {} THEN Max(before) ELSE None

\* The comment at bfd_cache.cpp:45-58: a first symbol at or beyond the start
\* means that run-time addresses match the symbols, "Otherwise [...] the correct
\* load_vaddr_ is 0": either way an address is looked up where it was linked.
LoadAddrIsCorrect ==
  pc = "ready" =>
    \A f \in DOMAIN ranges : symbols[f] # {} =>
      \A a \in Addr : InRange(f, a) => Relative(f, a) = Linked(f, a)
=============================================================================
