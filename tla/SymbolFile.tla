----------------------------- MODULE SymbolFile -----------------------------
(***************************************************************************)
(* BFDInfo of src/dmstack/bfd/bfd_cache.cpp for one mapped file: which     *)
(* file its symbols are read from.  findFileWithSymbols tries the file     *)
(* itself, the one of the same name under --binary-path, the places named  *)
(* by its build id, and then searches directories for the file its debug   *)
(* link names.  That search, findFileInDir, is recursive; its calls are    *)
(* the entries of a stack here.                                            *)
(***************************************************************************)
EXTENDS Integers, Sequences, FiniteSets, SequencesExt, FiniteSetsExt

CONSTANTS Dir,         \* directories
          IdPlaces,    \* places of a build id: two directories, with and without .debug
          Disks,       \* bound: what the file system may hold
          MaxPath,     \* bound: directories on a path that opendir still opens
          SymbolDir, CurrentDir, SystemDir   \* --symbol-path, the file's, /usr/lib/debug

\* What there is at a place: nothing; something that open(2) refuses; a file that
\* is no object; or an object without or with a symbol table, both of which have
\* dynamic symbols.
Content == {"missing", "unreadable", "no object", "stripped", "symbols"}

\* The mapped file; the file of its name in the directory of --binary-path; the
\* one beside that directory whose name begins with the directory's; the places
\* of the build id; the file in each directory that the debug link names; and the
\* subdirectories of each, links included.
Disk == [own : Content, binary : Content, beside : Content,
         ids : [1..IdPlaces -> Content], links : [Dir -> Content],
         tree : [Dir -> SUBSET Dir]]

ASSUME SymbolFileAssumption ==
  /\ IsFiniteSet(Dir) /\ {SymbolDir, CurrentDir, SystemDir} \subseteq Dir
  /\ IdPlaces \in Nat /\ MaxPath \in Nat \ {0}
  /\ Disks \subseteq Disk

\* Is --binary-path given, and does it end with a slash.
BinaryPath == {"not given", "with slash", "without slash"}

\* A place: the mapped file, in the directory of --binary-path or beside it, of
\* the build id, in a directory.
Own       == <<"own">>
Binary    == <<"binary">>
Beside    == <<"beside">>
Id(k)     == <<"id", k>>
In(d)     == <<"dir", d>>
NoPlace   == <<"none">>

VARIABLES own, binary, beside, ids, links, tree,     \* the disk
          has_link,                                  \* is there a .gnu_debuglink
          binary_path, symbol_path, search_symbols,  \* config
          pc,
          roots,      \* directories of search_dirs not searched yet
          stack,      \* the directories open, each with its entries not read yet
          load_file,  \* what findFileWithSymbols returned
          table       \* sym_ents_: "none", "dynamic" or "static"

files == <<own, binary, beside, ids, links, tree, has_link,
           binary_path, symbol_path, search_symbols>>
vars  == <<files, pc, roots, stack, load_file, table>>

ContentOf(place) ==
  CASE place = Own            -> own
    [] place = Binary         -> binary
    [] place = Beside         -> beside
    [] Head(place) = "id"     -> ids[place[2]]
    [] Head(place) = "dir"    -> links[place[2]]

Place == {Own, Binary, Beside} \cup {Id(k) : k \in 1..IdPlaces} \cup {In(d) : d \in Dir}

TypeOK ==
  /\ pc \in {"open", "own", "binary", "buildid", "link", "search", "reopen", "load",
             "done", "failed"}
  /\ roots \in Seq(Dir)
  /\ \A i \in DOMAIN stack : stack[i].dir \in Dir /\ stack[i].left \subseteq tree[stack[i].dir]
  /\ Len(stack) <= MaxPath
  /\ load_file \in Place \cup {NoPlace}
  /\ table \in {"none", "dynamic", "static"}

\* A file without a build id has nothing at its places.
Init ==
  /\ \E disk \in Disks :
       /\ own = disk.own /\ binary = disk.binary /\ beside = disk.beside
       /\ ids = disk.ids /\ links = disk.links /\ tree = disk.tree
  /\ has_link \in BOOLEAN /\ binary_path \in BinaryPath
  /\ symbol_path \in BOOLEAN /\ search_symbols \in BOOLEAN
  /\ pc = "open"
  /\ roots = <<>> /\ stack = <<>>
  /\ load_file = NoPlace
  /\ table = "none"

-----------------------------------------------------------------------------
\* check_stripped: a file that cannot be opened counts as not stripped, one that
\* is no object as stripped.
Stripped(content) == content \in {"no object", "stripped"}

\* check_exists_and_is_regular.
Exists(content) == content # "missing"

\* openBfd.
Opens(content) == content \in {"stripped", "symbols"}

\* What binary_path + file_name_ names: no slash is put between them.
Joined == IF binary_path = "with slash" THEN Binary ELSE Beside

Go(to)      == pc' = to /\ UNCHANGED <<files, roots, stack, load_file, table>>
Take(place) == /\ load_file' = place
               /\ pc' = IF place = Own THEN "load" ELSE "reopen"
               /\ roots' = <<>> /\ stack' = <<>>
               /\ UNCHANGED <<files, table>>

OpenOwn ==
  /\ pc = "open"
  /\ IF Opens(own) THEN Go("own") ELSE Go("failed")

TryOwn ==
  /\ pc = "own"
  /\ IF ~Stripped(own) THEN Take(Own) ELSE Go("binary")

TryBinary ==
  /\ pc = "binary"
  /\ IF binary_path # "not given" /\ ~Stripped(ContentOf(Joined))
     THEN Take(Joined) ELSE Go("buildid")

\* The first of the places of the build id that exists.
TryBuildId ==
  /\ pc = "buildid"
  /\ LET there == {k \in 1..IdPlaces : Exists(ids[k])} IN
       IF there # {} THEN Take(Id(Min(there))) ELSE Go("link")

\* search_dirs, without what is empty.
SearchDirs ==
  (IF symbol_path THEN <<SymbolDir>> ELSE <<>>) \o <<CurrentDir>>
    \o (IF search_symbols THEN <<SystemDir>> ELSE <<>>)

\* Fault: the debug link is followed only with --symbol-path.
TryDebugLinkThere ==
  /\ pc = "link"
  /\ IF has_link /\ symbol_path
     THEN /\ pc' = "search"
          /\ roots' = SearchDirs
          /\ UNCHANGED <<files, stack, load_file, table>>
     ELSE Go("failed")

TryDebugLink ==
  /\ pc = "link"
  /\ IF has_link
     THEN /\ pc' = "search"
          /\ roots' = SearchDirs
          /\ UNCHANGED <<files, stack, load_file, table>>
     ELSE Go("failed")

-----------------------------------------------------------------------------
(* findFileInDir.                                                          *)

\* Does opendir open a further directory?  A path and the number of open
\* directories have a limit, the only one there is for links that lead back.
OpensDir == Len(stack) < MaxPath

\* A call on directory d while the directories of open stay open: take the
\* file if it is there, else read the entries; nothing if opendir fails.
Search(d, open, rest) ==
  \/ /\ OpensDir /\ Exists(links[d])
     /\ Take(In(d))
  \/ /\ OpensDir /\ ~Exists(links[d])
     /\ stack' = Append(open, [dir |-> d, left |-> tree[d]])
     /\ roots' = rest
     /\ UNCHANGED <<files, pc, load_file, table>>
  \/ /\ ~OpensDir
     /\ stack' = open
     /\ roots' = rest
     /\ UNCHANGED <<files, pc, load_file, table>>

SearchRoot ==
  /\ pc = "search" /\ stack = <<>> /\ roots # <<>>
  /\ Search(Head(roots), <<>>, Tail(roots))

Top      == Last(stack)
Reading  == pc = "search" /\ stack # <<>>
Left(es) == [stack EXCEPT ![Len(stack)].left = es]

\* Fault: the result of the first subdirectory is returned, found or not.
ReadEntryOnce ==
  /\ Reading
  /\ \E e \in Top.left : Search(e, Left({}), roots)

\* Fault: an entry is read again when the call on it returns.
ReadEntryAgain ==
  /\ Reading
  /\ \E e \in Top.left : Search(e, stack, roots)

\* The next entry, in no particular order.  What is no directory is refused
\* by opendir and has no effect.
ReadEntry ==
  /\ Reading
  /\ \E e \in Top.left : Search(e, Left(Top.left \ {e}), roots)

CloseDir ==
  /\ Reading /\ Top.left = {}
  /\ stack' = Front(stack)
  /\ UNCHANGED <<files, pc, roots, load_file, table>>

NotFound == pc = "search" /\ stack = <<>> /\ roots = <<>> /\ Go("failed")

-----------------------------------------------------------------------------
Reopen ==
  /\ pc = "reopen"
  /\ IF Opens(ContentOf(load_file)) THEN Go("load") ELSE Go("failed")

\* loadSymbols: the symbol table, or the dynamic symbols if there is none.
LoadSymbols ==
  /\ pc = "load"
  /\ table' = IF ContentOf(load_file) = "symbols" THEN "static" ELSE "dynamic"
  /\ pc' = "done"
  /\ UNCHANGED <<files, roots, stack, load_file>>

Next == \/ OpenOwn \/ TryOwn \/ TryBinary \/ TryBuildId \/ TryDebugLink
        \/ SearchRoot \/ ReadEntry \/ CloseDir \/ NotFound \/ Reopen \/ LoadSymbols

Spec     == Init /\ [][Next]_vars
FairSpec == Spec /\ WF_vars(Next)

-----------------------------------------------------------------------------
(* Properties.                                                             *)

\* The directories on paths of at most MaxPath directories from d.
Within(d) ==
  LET r[n \in 1..MaxPath] ==
        IF n = 1 THEN {d} ELSE r[n - 1] \cup UNION {tree[e] : e \in r[n - 1]}
  IN r[MaxPath]

HasLink(d) == \E e \in Within(d) : Exists(links[e])

\* The search of the directories is exact, whatever loops the links make: it
\* takes a file that is there, below the first directory of search_dirs that
\* has one, and it gives up only if none has.
SearchIsExact ==
  /\ \A d \in Dir : load_file = In(d) =>
       \E i \in DOMAIN SearchDirs :
         /\ d \in Within(SearchDirs[i]) /\ Exists(links[d])
         /\ \A j \in 1..(i - 1) : ~HasLink(SearchDirs[j])
  /\ pc = "failed" /\ own = "stripped" /\ load_file = NoPlace /\ has_link =>
       \A i \in DOMAIN SearchDirs : ~HasLink(SearchDirs[i])

\* The places that are searched for this file, in the words of the usage text.
Offered ==
  {Own} \cup {Id(k) : k \in 1..IdPlaces}
    \cup (IF binary_path = "not given" THEN {} ELSE {Binary})
    \cup (IF has_link THEN {In(d) : d \in UNION {Within(SearchDirs[i]) : i \in DOMAIN SearchDirs}}
                      ELSE {})

Ended       == pc \in {"done", "failed"}
SymbolsLost == Ended /\ table # "static" /\ \E p \in Offered : ContentOf(p) = "symbols"

\* Symbols that one of the places has are missed in four cases only: the mapped
\* file cannot be opened; what --binary-path is joined to cannot be opened, and so
\* was taken; a file at a place of the build id or of the debug link was taken
\* because it exists and has none; or only the directory of --binary-path has
\* them, and the option does not end with a slash.
LosesSymbolsOnlyHidden ==
  SymbolsLost =>
    \/ ~Opens(own)
    \/ load_file = Joined /\ ~Opens(ContentOf(Joined))
    \/ /\ load_file \notin {NoPlace, Own, Binary, Beside}
       /\ ContentOf(load_file) # "symbols"
    \/ /\ load_file = NoPlace /\ binary_path = "without slash"
       /\ \A p \in Offered : ContentOf(p) = "symbols" => p = Binary

\* The comment at bfd_cache.cpp:116-126, "Find file with symbol table": what
\* is not found at one place is looked for at the next.
FindsFileWithSymbols == SymbolsLost => ~Opens(own)

\* The search ends, links that lead back included.
SearchEnds == <>Ended
=============================================================================
