---------------------------- MODULE MCSymbolFile ----------------------------
(* SymbolFile with three directories, each the start of a search.  The disks  *)
(* vary the mapped file; then the other places, with no subdirectories; then  *)
(* the trees and the directories that have the file: all trees with at most   *)
(* one entry a directory, chains and loops, and those with forks that matter. *)
EXTENDS SymbolFile

CONSTANTS a, b, c

Flat    == [d \in Dir |-> {}]
Only(x) == [d \in Dir |-> IF d = CurrentDir THEN x ELSE "missing"]
Ids     == [1..IdPlaces -> Content]

OwnDisks == [own : Content, binary : {"symbols"}, beside : {"symbols"},
             ids : [1..IdPlaces -> {"symbols"}], links : {Only("symbols")}, tree : {Flat}]

PlaceDisks == [own : {"stripped"}, binary : Content, beside : Content,
               ids : Ids, links : {Only(x) : x \in Content}, tree : {Flat}]

Tree(x, y, z) == [d \in {a, b, c} |-> CASE d = a -> x [] d = b -> y [] d = c -> z]

Trees == {t \in [Dir -> SUBSET Dir] : \A d \in Dir : Cardinality(t[d]) <= 1}
           \cup {Tree({b, c}, {}, {}), Tree({b, c}, {c}, {}), Tree({a}, {b, c}, {}),
                 Tree({b, c}, {a}, {a}), Tree({b, c}, {a, c}, {a, b})}

TreeDisks == [own : {"stripped"}, binary : {"stripped"}, beside : {"stripped"},
              ids : [1..IdPlaces -> {"missing"}], links : [Dir -> {"missing", "symbols"}],
              tree : Trees]

MCDisks == OwnDisks \cup PlaceDisks \cup TreeDisks
=============================================================================
