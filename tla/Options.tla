------------------------------ MODULE Options -------------------------------
(***************************************************************************)
(* get_options of src/dmstack/config.cpp and the getopt_long it loops      *)
(* over.  The Windows build brings its own getopt_long, which keeps two    *)
(* positions between calls: optind, the word, and s_nextchar, the rest of  *)
(* a cluster of short options.  The other builds use the one of the C      *)
(* library, which differs here only in that it moves words that are no     *)
(* options behind the rest and goes on (it also completes abbreviated long *)
(* names, which is left out).  Each action is one call of getopt_long with *)
(* the case of the switch that handles its result.                         *)
(***************************************************************************)
EXTENDS Integers, Sequences, SequencesExt

CONSTANTS Word,      \* the words that occur on a command line
          MaxWords   \* bound: words after the name of the program

\* A word is "plain" (also "-"), the end marker "--", a cluster such as -fi,
\* or a long option with or without a value.
Plain(text)       == [kind |-> "plain", text |-> text]
EndMark           == [kind |-> "end"]
Cluster(letters)  == [kind |-> "cluster", letters |-> letters]
Long(name, value) == [kind |-> "long", name |-> name, value |-> value]
NoText            == [kind |-> "none"]

\* The argument of a short option can be the rest of its cluster.
Attached(letters) == [kind |-> "attached", letters |-> letters]
Given             == [kind |-> "given"]

\* A word is one of the four; a cluster has a letter: the word "-" is plain.
ASSUME OptionsAssumption ==
  /\ MaxWords \in Nat
  /\ \A w \in Word : w.kind \in {"plain", "end", "cluster", "long"}
  /\ \A w \in Word : w.kind = "cluster" => w.letters \in Seq(STRING) \ {<<>>}

\* The third argument of getopt_long: letters, and those followed by a colon.
ShortValued == {"h", "l", "b", "s", "c", "i"}
Short       == {"?", "o", "n", "a", "v", "t", "f", "r"} \cup ShortValued

\* long_options: a name and what getopt_long returns for it; numbers above
\* 1000 in the code are the names themselves here.
LongFlags  == {<<"?", "?">>, <<"version", "v">>, <<"aggregate", "a">>, <<"no-parse", "n">>,
               <<"no-lineno", "o">>, <<"format-compact", "f">>, <<"reverse", "r">>,
               <<"search-system-symbols", "search-system-symbols">>}
LongValued == {<<"hide-thread", "h">>, <<"log-level", "l">>, <<"binary-path", "b">>,
               <<"symbol-path", "s">>, <<"priority-threads", "c">>, <<"min-depth", "i">>,
               <<"input", "input">>, <<"output", "output">>, <<"bfd-threads", "bfd-threads">>}

IsFlag(name)   == \E e \in LongFlags : e[1] = name
IsValued(name) == \E e \in LongValued : e[1] = name
ValOf(name)    == (CHOOSE e \in LongFlags \cup LongValued : e[1] = name)[2]

Setting == ({e[2] : e \in LongFlags \cup LongValued} \cup Short) \ {"?", "v"}
Unset   == [kind |-> "unset"]

VARIABLES build,     \* "windows", or "gnu" for the getopt_long of the C library
          argv,      \* the words after the name of the program
          optind,    \* the next word
          nextchar,  \* what s_nextchar points to: the rest of a cluster, or nothing
          skipped,   \* words the C library has moved to the end
          config,    \* g_config: what each option was set to
          pid,       \* the word that is taken for the pid
          outcome    \* "parsing", "parsed", or how the program ended

vars == <<build, argv, optind, nextchar, skipped, config, pid, outcome>>

TypeOK ==
  /\ build \in {"windows", "gnu"}
  /\ argv \in BoundedSeq(Word, MaxWords)
  /\ optind \in 1..(Len(argv) + 1)
  /\ nextchar \in Seq(STRING)
  /\ skipped \in Seq(Word)
  /\ DOMAIN config = Setting
  /\ outcome \in {"parsing", "parsed", "usage", "version"}

Init ==
  /\ build \in {"windows", "gnu"}
  /\ argv \in BoundedSeq(Word, MaxWords)
  /\ optind = 1
  /\ nextchar = <<>>
  /\ skipped = <<>>
  /\ config = [o \in Setting |-> Unset]
  /\ pid = Unset
  /\ outcome = "parsing"

-----------------------------------------------------------------------------
Parsing   == outcome = "parsing"
More      == optind < Len(argv)
AtWord(k) == Parsing /\ nextchar = <<>> /\ optind <= Len(argv) /\ argv[optind].kind = k

\* The switch: set an option, print the version, or show the usage.
Apply(option, value) ==
  /\ outcome' = CASE option = "?" -> "usage" [] option = "v" -> "version" [] OTHER -> outcome
  /\ config' = IF option \in Setting THEN [config EXCEPT ![option] = value] ELSE config
  /\ UNCHANGED <<build, argv, skipped, pid>>

Usage ==
  /\ outcome' = "usage"
  /\ UNCHANGED <<build, argv, skipped, config, pid>>

\* After the loop: the first word that is left over is the pid.
Finish(rest) ==
  /\ outcome' = "parsed"
  /\ pid' = IF rest = <<>> THEN Unset ELSE Head(rest)
  /\ UNCHANGED <<build, argv, nextchar, skipped, config>>

From(words, i) == SubSeq(words, i, Len(words))
Rest(i)        == From(argv, i)

\* dmstack without any word.
NoWords == Parsing /\ argv = <<>> /\ Usage /\ UNCHANGED <<optind, nextchar>>

EndOfWords ==
  /\ Parsing /\ nextchar = <<>>
  /\ argv # <<>> /\ optind > Len(argv)
  /\ Finish(skipped)
  /\ UNCHANGED optind

EndMarker ==
  /\ AtWord("end")
  /\ Finish(skipped \o Rest(optind + 1))
  /\ optind' = optind + 1

\* A word that is no option ends the parsing of the Windows build ...
NonOption ==
  /\ AtWord("plain") /\ build = "windows"
  /\ Finish(Rest(optind))
  /\ UNCHANGED optind

\* ... and is moved to the end by the C library.
Permute ==
  /\ AtWord("plain") /\ build = "gnu"
  /\ skipped' = Append(skipped, argv[optind])
  /\ optind' = optind + 1
  /\ UNCHANGED <<build, argv, nextchar, config, pid, outcome>>

\* An unknown name, a value nobody asked for, or none where one is required.
LongRefused ==
  /\ AtWord("long")
  /\ LET w == argv[optind] IN
       \/ ~IsFlag(w.name) /\ ~IsValued(w.name)
       \/ IsFlag(w.name) /\ w.value # NoText
       \/ IsValued(w.name) /\ w.value = NoText /\ ~More
  /\ Usage
  /\ optind' = optind + 1
  /\ UNCHANGED nextchar

LongFlag ==
  /\ AtWord("long")
  /\ LET w == argv[optind] IN
       IsFlag(w.name) /\ w.value = NoText /\ Apply(ValOf(w.name), Given)
  /\ optind' = optind + 1
  /\ UNCHANGED nextchar

LongWithValue ==
  /\ AtWord("long")
  /\ LET w == argv[optind] IN
       IsValued(w.name) /\ w.value # NoText /\ Apply(ValOf(w.name), w.value)
  /\ optind' = optind + 1
  /\ UNCHANGED nextchar

\* Fault: the word that was taken as the value is read again.
LongTakesNextOnce ==
  /\ AtWord("long") /\ More
  /\ LET w == argv[optind] IN
       IsValued(w.name) /\ w.value = NoText /\ Apply(ValOf(w.name), argv[optind + 1])
  /\ optind' = optind + 1
  /\ UNCHANGED nextchar

\* The next word is the value, whatever it looks like.
LongTakesNext ==
  /\ AtWord("long") /\ More
  /\ LET w == argv[optind] IN
       IsValued(w.name) /\ w.value = NoText /\ Apply(ValOf(w.name), argv[optind + 1])
  /\ optind' = optind + 2
  /\ UNCHANGED nextchar

-----------------------------------------------------------------------------
(* Short options: the next letter of the cluster that is being read, or    *)
(* the first of the next word.                                             *)
InCluster == Parsing /\ (nextchar # <<>> \/ AtWord("cluster"))
Letters   == IF nextchar # <<>> THEN nextchar ELSE argv[optind].letters
Letter    == Head(Letters)
Behind    == Tail(Letters)

\* The word is left with its last letter.
NextLetter ==
  /\ nextchar' = Behind
  /\ optind' = IF Behind = <<>> THEN optind + 1 ELSE optind

ShortUnknown == InCluster /\ Letter \notin Short /\ Usage /\ NextLetter

\* Fault: optind stays on the cluster after its last letter.
ShortFlagStays ==
  /\ InCluster /\ Letter \in Short \ ShortValued
  /\ Apply(Letter, Given)
  /\ nextchar' = Behind
  /\ UNCHANGED optind

ShortFlag ==
  /\ InCluster /\ Letter \in Short \ ShortValued
  /\ Apply(Letter, Given)
  /\ NextLetter

\* Fault: s_nextchar keeps pointing into the word that is done.
ShortWithRestKept ==
  /\ InCluster /\ Letter \in ShortValued /\ Behind # <<>>
  /\ Apply(Letter, Attached(Behind))
  /\ nextchar' = Behind
  /\ optind' = optind + 1

\* Fault: the next word is consumed as well.
ShortWithRestTwo ==
  /\ InCluster /\ Letter \in ShortValued /\ Behind # <<>>
  /\ Apply(Letter, Attached(Behind))
  /\ nextchar' = <<>>
  /\ optind' = optind + 2

\* -i5: the rest of the cluster is the value.
ShortWithRest ==
  /\ InCluster /\ Letter \in ShortValued /\ Behind # <<>>
  /\ Apply(Letter, Attached(Behind))
  /\ nextchar' = <<>>
  /\ optind' = optind + 1

\* -i 5: the next word is.
ShortTakesNext ==
  /\ InCluster /\ Letter \in ShortValued /\ Behind = <<>> /\ More
  /\ Apply(Letter, argv[optind + 1])
  /\ nextchar' = <<>>
  /\ optind' = optind + 2

ShortMissing ==
  /\ InCluster /\ Letter \in ShortValued /\ Behind = <<>> /\ ~More
  /\ Usage
  /\ nextchar' = <<>>
  /\ optind' = optind + 1

Next == \/ NoWords \/ EndOfWords \/ EndMarker \/ NonOption \/ Permute
        \/ LongRefused \/ LongFlag \/ LongWithValue \/ LongTakesNext
        \/ ShortUnknown \/ ShortFlag \/ ShortWithRest \/ ShortTakesNext \/ ShortMissing

Spec == Init /\ [][Next]_vars

\* One thread, which is never blocked.
FairSpec == Spec /\ WF_vars(Next)

-----------------------------------------------------------------------------
(* What a command line means, word by word: the options it names, with     *)
(* their values and in their order; "?" stands for an error.               *)

Item(option, value) == [option |-> option, value |-> value]
Wrong               == Item("?", Given)

\* The rest of the word is the value of a letter that takes one, or the next
\* word is.
LetterItem(letters, k, next) ==
  IF letters[k] \notin Short THEN Wrong
  ELSE IF letters[k] \notin ShortValued THEN Item(letters[k], Given)
  ELSE IF k < Len(letters) THEN Item(letters[k], Attached(From(letters, k + 1)))
  ELSE IF next # <<>> THEN Item(letters[k], Head(next))
  ELSE Wrong

\* A cluster is flags up to its first letter that takes a value, if any.
ClusterItems(letters, next) ==
  LET valued == {k \in DOMAIN letters : letters[k] \in ShortValued}
      last   == IF valued = {} THEN Len(letters)
                ELSE CHOOSE k \in valued : \A j \in valued : k <= j
  IN [k \in 1..last |-> LetterItem(letters, k, next)]

LongItem(w, next) ==
  CASE IsFlag(w.name) /\ w.value = NoText                  -> Item(ValOf(w.name), Given)
    [] IsValued(w.name) /\ w.value # NoText                -> Item(ValOf(w.name), w.value)
    [] IsValued(w.name) /\ w.value = NoText /\ next # <<>> -> Item(ValOf(w.name), Head(next))
    [] OTHER                                               -> Wrong

\* Does the word need another one for its value?
TakesNext(w) ==
  \/ w.kind = "long" /\ IsValued(w.name) /\ w.value = NoText
  \/ w.kind = "cluster" /\ w.letters[Len(w.letters)] \in ShortValued
     /\ \A k \in 1..(Len(w.letters) - 1) : w.letters[k] \notin ShortValued

Nothing         == [items |-> <<>>, free |-> <<>>]
Ahead(items, m) == [items |-> items \o m.items, free |-> m.free]
Free(words, m)  == [items |-> m.items, free |-> words \o m.free]

\* The items and the free words from word i on, when those behind it and its
\* value mean after; the C library reads on after a free word.
FromWord(words, i, after, library) ==
  LET w    == words[i]
      next == From(words, i + 1)
  IN CASE w.kind = "end"     -> Free(next, Nothing)
       [] w.kind = "plain"   -> IF library = "gnu" THEN Free(<<w>>, after)
                                ELSE Free(From(words, i), Nothing)
       [] w.kind = "cluster" -> Ahead(ClusterItems(w.letters, next), after)
       [] w.kind = "long"    -> Ahead(<<LongItem(w, next)>>, after)

Following(w, i) == IF TakesNext(w) THEN i + 2 ELSE i + 1

Reading(words, library) ==
  LET read[i \in 1..(Len(words) + 2)] ==
        IF i > Len(words) THEN Nothing
        ELSE FromWord(words, i, read[Following(words[i], i)], library)
  IN read

Meaning(words, library) == Reading(words, library)[1]

\* The first item that ends the program, or one past the last.
Stop(items) ==
  CHOOSE n \in 1..(Len(items) + 1) :
    /\ \A k \in 1..(n - 1) : items[k].option \notin {"?", "v"}
    /\ n <= Len(items) => items[n].option \in {"?", "v"}

\* The last of the first n items that sets an option counts.
Settings(items, n) ==
  [o \in Setting |->
     LET set == {k \in 1..n : items[k].option = o}
     IN IF set = {} THEN Unset ELSE items[CHOOSE k \in set : \A j \in set : j <= k].value]

-----------------------------------------------------------------------------
(* Properties.                                                             *)

\* Reading letter by letter and call by call, with two positions between the
\* calls, comes to what the words mean: the same end, the same options with
\* the values of their last occurrence, the same pid.
ParsesAsMeant ==
  ~Parsing =>
    LET m == Meaning(argv, build)
        n == Stop(m.items)
    IN /\ outcome = IF argv = <<>> THEN "usage"
                    ELSE IF n > Len(m.items) THEN "parsed"
                    ELSE IF m.items[n].option = "v" THEN "version"
                    ELSE "usage"
       /\ config = Settings(m.items, n - 1)
       /\ outcome = "parsed" => pid = IF m.free = <<>> THEN Unset ELSE Head(m.free)

\* A part of the letters at their end, not all of them.
IsRest(part, letters) ==
  /\ Len(part) < Len(letters)
  /\ part = SubSeq(letters, Len(letters) - Len(part) + 1, Len(letters))

\* The rest of a cluster that s_nextchar points to is always the end of the
\* word at optind, never of a word that was left behind.
ClusterIsCurrent ==
  nextchar # <<>> =>
    /\ optind <= Len(argv) /\ argv[optind].kind = "cluster"
    /\ IsRest(nextchar, argv[optind].letters)

\* Every command line is read to its end.
ParsingEnds == <>(~Parsing)
=============================================================================
