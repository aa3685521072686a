----------------------------- MODULE MCAddrMap ------------------------------
(* AddrMap with the files as model values, which are interchangeable.  The   *)
(* tables: none, those of files linked for 0 and for an address in the range, *)
(* the latter also with an undefined weak function, and one that fits both.   *)
EXTENDS AddrMap, TLC

Symmetry == Permutations(File)

MCTables == {{}, {0, 1, 2}, {1, 3}, {2, 4}, {3, 4, 5}, {0, 4, 5}}

\* Files with an undefined weak function or with one at their start.
WeakTables == {{}, {0, 4, 5}}
=============================================================================
