---------------------------- MODULE OptionsProofs ----------------------------
(***************************************************************************)
(* Theorems about get_options, for all words and any number of them.       *)
(* First the two positions in the command line: that optind stays within   *)
(* the words rests on the cluster being at optind, so TypeOK and           *)
(* ClusterIsCurrent are proved together.  Then that the calls of           *)
(* getopt_long come to what the words mean: the items that were handled    *)
(* and what the words mean from the two positions on are always the whole. *)
(***************************************************************************)
EXTENDS Options, FunctionTheorems, SequenceTheorems, WellFoundedInduction, TLAPS

OptionsInv == TypeOK /\ ClusterIsCurrent

\* The words are a sequence.
LEMMA WordsTyped ==
  ASSUME argv \in BoundedSeq(Word, MaxWords)
  PROVE  argv \in Seq(Word)
BY OptionsAssumption DEF BoundedSeq, SeqOf

\* A tail of the end of a sequence is its end again, one shorter.
LEMMA TailOfEnd ==
  ASSUME NEW s \in Seq(STRING), NEW t \in Seq(STRING), t # <<>>, Len(t) <= Len(s),
         t = SubSeq(s, Len(s) - Len(t) + 1, Len(s))
  PROVE  /\ Tail(t) \in Seq(STRING)
         /\ Len(Tail(t)) = Len(t) - 1
         /\ Tail(t) = SubSeq(s, Len(s) - Len(Tail(t)) + 1, Len(s))
<1>1. Len(t) \in Nat \ {0} /\ Len(s) \in Nat
  OBVIOUS
<1>2. Tail(t) \in Seq(STRING) /\ Len(Tail(t)) = Len(t) - 1
  OBVIOUS
<1> DEFINE k == Len(s) - Len(t) + 1
           u == SubSeq(s, k + 1, Len(s))
<1>3. k \in 1..Len(s) /\ Len(s) - Len(Tail(t)) + 1 = k + 1
  BY <1>1, <1>2
<1>4. u \in Seq(STRING) /\ Len(u) = Len(t) - 1
  BY <1>1, <1>3
<1>5. \A i \in 1..(Len(t) - 1) : Tail(t)[i] = u[i]
  <2> TAKE i \in 1..(Len(t) - 1)
  <2>1. Tail(t)[i] = t[i + 1]
    BY <1>1
  <2>2. t[i + 1] = s[k + i]
    BY <1>1, <1>3
  <2>3. u[i] = s[k + i]
    BY <1>1, <1>3
  <2> QED BY <2>1, <2>2, <2>3
<1>6. Tail(t) = u
  BY <1>2, <1>4, <1>5
<1> QED BY <1>2, <1>3, <1>6

\* What is read letter by letter is a cluster at optind, or its end.
LEMMA CurrentLetters ==
  ASSUME OptionsInv, InCluster
  PROVE  /\ optind \in 1..Len(argv) /\ argv[optind].kind = "cluster"
         /\ Letters \in Seq(STRING) \ {<<>>}
         /\ argv[optind].letters \in Seq(STRING)
         /\ Len(Letters) <= Len(argv[optind].letters)
         /\ Letters = SubSeq(argv[optind].letters,
                        Len(argv[optind].letters) - Len(Letters) + 1,
                        Len(argv[optind].letters))
<1>1. argv \in Seq(Word) /\ optind \in 1..(Len(argv) + 1) /\ nextchar \in Seq(STRING)
  BY WordsTyped DEF OptionsInv, TypeOK
<1>2. optind \in 1..Len(argv) /\ argv[optind].kind = "cluster"
  <2>1. CASE nextchar # <<>>
    BY <1>1, <2>1 DEF OptionsInv, ClusterIsCurrent
  <2>2. CASE AtWord("cluster")
    BY <1>1, <2>2 DEF AtWord
  <2> QED BY <2>1, <2>2 DEF InCluster
<1>3. argv[optind].letters \in Seq(STRING) \ {<<>>}
  BY <1>1, <1>2, OptionsAssumption
<1>4. CASE nextchar # <<>>
  <2>1. Letters = nextchar
    BY <1>4 DEF Letters
  <2>2. IsRest(nextchar, argv[optind].letters)
    BY <1>4 DEF OptionsInv, ClusterIsCurrent
  <2>3. /\ Len(nextchar) < Len(argv[optind].letters)
        /\ nextchar = SubSeq(argv[optind].letters,
                        Len(argv[optind].letters) - Len(nextchar) + 1,
                        Len(argv[optind].letters))
    BY <2>2 DEF IsRest
  <2>4. Len(nextchar) <= Len(argv[optind].letters)
    BY <1>1, <1>3, <2>3
  <2> QED BY <1>1, <1>2, <1>3, <1>4, <2>1, <2>3, <2>4
<1>5. CASE nextchar = <<>>
  <2> DEFINE l == argv[optind].letters
  <2>1. l = SubSeq(l, 1, Len(l))
    BY <1>3
  <2> QED BY <1>2, <1>3, <1>5, <2>1 DEF Letters
<1> QED BY <1>4, <1>5

\* Advancing by a letter keeps the word, or leaves it with its last letter.
LEMMA LetterRead ==
  ASSUME OptionsInv, InCluster, NextLetter, UNCHANGED argv
  PROVE  /\ optind' \in 1..(Len(argv) + 1)
         /\ nextchar' \in Seq(STRING)
         /\ ClusterIsCurrent'
<1>0. Len(argv) \in Nat
  BY WordsTyped DEF OptionsInv, TypeOK
<1>1. argv \in Seq(Word)
  BY WordsTyped DEF OptionsInv, TypeOK
<1> DEFINE l == argv[optind].letters
<1>2. /\ optind \in 1..Len(argv) /\ argv[optind].kind = "cluster"
      /\ Letters \in Seq(STRING) \ {<<>>} /\ l \in Seq(STRING)
      /\ Len(Letters) <= Len(l)
      /\ Letters = SubSeq(l, Len(l) - Len(Letters) + 1, Len(l))
  BY CurrentLetters
<1>3. /\ Behind \in Seq(STRING) /\ Len(Behind) = Len(Letters) - 1
      /\ Behind = SubSeq(l, Len(l) - Len(Behind) + 1, Len(l))
  BY <1>2, TailOfEnd DEF Behind
<1>4. nextchar' = Behind /\ optind' = IF Behind = <<>> THEN optind + 1 ELSE optind
  BY DEF NextLetter
<1>5. CASE Behind = <<>>
  BY <1>1, <1>2, <1>3, <1>4, <1>5 DEF ClusterIsCurrent
<1>6. CASE Behind # <<>>
  <2>1. optind' = optind /\ argv' = argv /\ nextchar' = Behind
    BY <1>4, <1>6
  <2>2. Len(Behind) < Len(l)
    BY <1>2, <1>3
  <2>3. IsRest(Behind, l)
    BY <1>3, <2>2 DEF IsRest
  <2>4. ClusterIsCurrent'
    BY <1>2, <2>1, <2>3 DEF ClusterIsCurrent
  <2> QED BY <1>0, <1>2, <1>3, <2>1, <2>4
<1> QED BY <1>5, <1>6

\* A command line that has not been looked at.
LEMMA OptionsInit == Init => OptionsInv
<1> SUFFICES ASSUME Init PROVE OptionsInv
  OBVIOUS
<1>1. argv \in Seq(Word)
  BY WordsTyped DEF Init
<1>2. optind \in 1..(Len(argv) + 1)
  BY <1>1 DEF Init
<1> QED BY <1>2 DEF Init, OptionsInv, TypeOK, ClusterIsCurrent

\* The parts of TypeOK that the switch is concerned with.
Switched == /\ argv' \in BoundedSeq(Word, MaxWords)
            /\ build' \in {"windows", "gnu"}
            /\ skipped' \in Seq(Word)
            /\ DOMAIN config' = Setting
            /\ outcome' \in {"parsing", "parsed", "usage", "version"}

\* The switch, the usage text and the end of the loop keep them.
LEMMA SwitchTyped ==
  ASSUME OptionsInv,
         \/ Usage
         \/ \E option, value : Apply(option, value)
         \/ \E rest : Finish(rest)
  PROVE  Switched /\ UNCHANGED argv
BY DEF OptionsInv, TypeOK, Switched, Usage, Apply, Finish

\* Each call of getopt_long keeps the invariant.
LEMMA OptionsStep == OptionsInv /\ [Next]_vars => OptionsInv'
<1> SUFFICES ASSUME OptionsInv, [Next]_vars PROVE OptionsInv'
  OBVIOUS
<1>0. /\ argv \in Seq(Word) /\ Len(argv) \in Nat
      /\ optind \in 1..(Len(argv) + 1) /\ nextchar \in Seq(STRING)
  BY WordsTyped DEF OptionsInv, TypeOK
<1>a. ASSUME Switched, UNCHANGED argv, optind' \in 1..(Len(argv) + 1), nextchar' = <<>>
      PROVE  OptionsInv'
  BY <1>a DEF Switched, OptionsInv, TypeOK, ClusterIsCurrent
<1>b. ASSUME Switched, UNCHANGED argv, InCluster, NextLetter
      PROVE  OptionsInv'
  BY <1>b, LetterRead DEF Switched, OptionsInv, TypeOK
<1>1. CASE NoWords
  <2>1. Switched /\ UNCHANGED argv
    BY <1>1, SwitchTyped DEF NoWords
  <2> QED BY <1>1, <2>1 DEF NoWords, Switched, OptionsInv, TypeOK, ClusterIsCurrent
<1>2. CASE EndOfWords
  <2>1. Switched /\ UNCHANGED argv
    BY <1>2, SwitchTyped DEF EndOfWords
  <2>2. nextchar' = <<>> /\ optind' = optind
    BY <1>2 DEF EndOfWords, Finish
  <2> QED BY <1>0, <1>a, <2>1, <2>2
<1>3. CASE EndMarker
  <2>1. Switched /\ UNCHANGED argv
    BY <1>3, SwitchTyped DEF EndMarker
  <2>2. nextchar' = <<>> /\ optind' = optind + 1 /\ optind <= Len(argv)
    BY <1>3 DEF EndMarker, Finish, AtWord
  <2> QED BY <1>0, <1>a, <2>1, <2>2
<1>4. CASE NonOption
  <2>1. Switched /\ UNCHANGED argv
    BY <1>4, SwitchTyped DEF NonOption
  <2>2. nextchar' = <<>> /\ optind' = optind
    BY <1>4 DEF NonOption, Finish, AtWord
  <2> QED BY <1>0, <1>a, <2>1, <2>2
<1>5. CASE Permute
  <2>1. nextchar' = <<>> /\ optind' = optind + 1 /\ optind <= Len(argv) /\ UNCHANGED argv
    BY <1>5 DEF Permute, AtWord
  <2>2. argv[optind] \in Word
    BY <1>0, <2>1
  <2>3. Switched
    BY <1>5, <2>2 DEF Permute, Switched, OptionsInv, TypeOK
  <2> QED BY <1>0, <1>a, <2>1, <2>3
<1>6. CASE LongRefused \/ LongFlag \/ LongWithValue
  <2>1. Switched /\ UNCHANGED argv
    BY <1>6, SwitchTyped DEF LongRefused, LongFlag, LongWithValue
  <2>2. nextchar' = <<>> /\ optind' = optind + 1 /\ optind <= Len(argv)
    BY <1>6 DEF LongRefused, LongFlag, LongWithValue, AtWord
  <2> QED BY <1>0, <1>a, <2>1, <2>2
<1>7. CASE LongTakesNext
  <2>1. Switched /\ UNCHANGED argv
    BY <1>7, SwitchTyped DEF LongTakesNext
  <2>2. nextchar' = <<>> /\ optind' = optind + 2 /\ optind < Len(argv)
    BY <1>7 DEF LongTakesNext, AtWord, More
  <2> QED BY <1>0, <1>a, <2>1, <2>2
<1>8. CASE ShortUnknown \/ ShortFlag
  <2>1. Switched /\ UNCHANGED argv
    BY <1>8, SwitchTyped DEF ShortUnknown, ShortFlag
  <2>2. InCluster /\ NextLetter
    BY <1>8 DEF ShortUnknown, ShortFlag
  <2> QED BY <1>b, <2>1, <2>2
<1>9. CASE ShortWithRest \/ ShortMissing
  <2>1. Switched /\ UNCHANGED argv
    BY <1>9, SwitchTyped DEF ShortWithRest, ShortMissing
  <2>2. InCluster
    BY <1>9 DEF ShortWithRest, ShortMissing
  <2>3. optind \in 1..Len(argv)
    BY <2>2, CurrentLetters
  <2>4. nextchar' = <<>> /\ optind' = optind + 1
    BY <1>9 DEF ShortWithRest, ShortMissing
  <2> QED BY <1>0, <1>a, <2>1, <2>3, <2>4
<1>10. CASE ShortTakesNext
  <2>1. Switched /\ UNCHANGED argv
    BY <1>10, SwitchTyped DEF ShortTakesNext
  <2>2. nextchar' = <<>> /\ optind' = optind + 2 /\ optind < Len(argv)
    BY <1>10 DEF ShortTakesNext, More
  <2> QED BY <1>0, <1>a, <2>1, <2>2
<1>11. CASE UNCHANGED vars
  BY <1>11 DEF vars, OptionsInv, TypeOK, ClusterIsCurrent
<1> QED BY <1>1, <1>2, <1>3, <1>4, <1>5, <1>6, <1>7, <1>8, <1>9, <1>10, <1>11 DEF Next

\* The invariant of the parser.
THEOREM OptionsSafe == Spec => []OptionsInv
<1>1. Init => OptionsInv
  BY OptionsInit
<1>2. OptionsInv /\ [Next]_vars => OptionsInv'
  BY OptionsStep
<1> QED BY <1>1, <1>2, PTL DEF Spec

\* The index of the word never leaves the command line by more than one, and
\* what is kept between the calls of getopt_long has its type.
THEOREM OptionsTypeCorrect == Spec => []TypeOK
<1>1. OptionsInv => TypeOK
  BY DEF OptionsInv
<1> QED BY <1>1, OptionsSafe, PTL

\* The pointer into a cluster never points into a word that was left behind.
THEOREM ClusterCurrent == Spec => []ClusterIsCurrent
<1>1. OptionsInv => ClusterIsCurrent
  BY DEF OptionsInv
<1> QED BY <1>1, OptionsSafe, PTL
-----------------------------------------------------------------------------
(* What the words of a command line mean.  Reading is a recursive function *)
(* from the last word to the first; that there is one is shown by the last *)
(* word from which on there would be none.                                 *)

\* A set of natural numbers has a least one: what stands for induction here.
LEMMA LeastNat ==
  ASSUME NEW S \in SUBSET Nat, S # {}
  PROVE  \E x \in S : \A y \in S : x <= y
<1> DEFINE R == OpToRel(<, Nat)
<1>1. IsWellFoundedOn(R, Nat)
  BY NatLessThanWellFounded
<1>2. \A x, y \in Nat : <<y, x>> \in R <=> y < x
  BY DEF OpToRel
<1> HIDE DEF R
<1>3. PICK x \in S : \A y \in S : <<y, x>> \notin R
  BY <1>1, WFMin
<1>4. ASSUME NEW y \in S PROVE x <= y
  <2>1. x \in Nat /\ y \in Nat
    OBVIOUS
  <2>2. ~(y < x)
    BY <1>2, <1>3, <2>1
  <2> QED
    BY <2>1, <2>2
<1> QED
  BY <1>4

\* What is read at word i, when the function r says what is read behind it.
Entry(r, words, i, library) ==
  IF i > Len(words) THEN Nothing
  ELSE FromWord(words, i, r[Following(words[i], i)], library)

IsReading(r, words, first, library) ==
  r = [i \in first..(Len(words) + 2) |-> Entry(r, words, i, library)]

\* A word is followed by the next one or the one after that.
LEMMA Follows ==
  ASSUME NEW w, NEW i \in Nat
  PROVE  Following(w, i) \in {i + 1, i + 2}
BY DEF Following

\* There is a reading of any words.
LEMMA ReadingExists ==
  ASSUME NEW words \in Seq(Word), NEW library
  PROVE  \E r : IsReading(r, words, 1, library)
<1> DEFINE L == Len(words)
           Bad == {n \in 0..(L + 1) : ~ \E r : IsReading(r, words, L + 2 - n, library)}
<1>0. L \in Nat
  OBVIOUS
<1> SUFFICES Bad = {}
  <2>1. L + 1 \in 0..(L + 1) /\ L + 2 - (L + 1) = 1
    BY <1>0
  <2> QED
    BY <2>1
<1> SUFFICES ASSUME Bad # {} PROVE FALSE
  OBVIOUS
<1>1. PICK n \in Bad : \A m \in Bad : n <= m
  <2>1. Bad \in SUBSET Nat
    BY <1>0
  <2> HIDE DEF Bad
  <2> QED
    BY <2>1, LeastNat
<1>2. n \in 0..(L + 1) /\ ~ \E r : IsReading(r, words, L + 2 - n, library)
  OBVIOUS
<1>3. n # 0
  <2> DEFINE z == [i \in (L + 2)..(L + 2) |-> Nothing]
  <2>1. \A i \in (L + 2)..(L + 2) : i > L
    BY <1>0
  <2>2. \A i \in (L + 2)..(L + 2) : Entry(z, words, i, library) = Nothing
    BY <2>1 DEF Entry
  <2>3. IsReading(z, words, L + 2, library)
    BY <2>2 DEF IsReading
  <2>4. n = 0 => L + 2 - n = L + 2
    BY <1>0
  <2> QED
    BY <1>2, <2>3, <2>4
<1> DEFINE k == L + 2 - n
<1>4. n - 1 \in 0..(L + 1) /\ ~(n <= n - 1) /\ L + 2 - (n - 1) = k + 1 /\ k \in 1..(L + 1)
  BY <1>0, <1>2, <1>3
<1>5. PICK r : IsReading(r, words, k + 1, library)
  <2>1. n - 1 \notin Bad
    BY <1>1, <1>4
  <2> QED
    BY <1>4, <2>1
<1> DEFINE u == [i \in k..(L + 2) |-> Entry(r, words, i, library)]
<1>6. \A i \in (k + 1)..(L + 2) : u[i] = r[i]
  <2>1. \A i \in (k + 1)..(L + 2) : r[i] = Entry(r, words, i, library)
    BY <1>5 DEF IsReading
  <2>2. \A i \in (k + 1)..(L + 2) : i \in k..(L + 2)
    BY <1>0, <1>4
  <2> QED
    BY <2>1, <2>2
<1>7. \A i \in k..(L + 2) : Entry(r, words, i, library) = Entry(u, words, i, library)
  <2> TAKE i \in k..(L + 2)
  <2>1. CASE i > L
    BY <2>1 DEF Entry
  <2>2. CASE ~(i > L)
    <3>1. i \in Nat /\ i + 1 \in (k + 1)..(L + 2) /\ i + 2 \in (k + 1)..(L + 2)
      BY <1>0, <1>4, <2>2
    <3>2. Following(words[i], i) \in (k + 1)..(L + 2)
      BY <3>1, Follows
    <3>3. u[Following(words[i], i)] = r[Following(words[i], i)]
      BY <3>2, <1>6
    <3> HIDE DEF u
    <3> QED
      BY <2>2, <3>3 DEF Entry
  <2> QED
    BY <2>1, <2>2
<1>8. u = [i \in k..(L + 2) |-> Entry(u, words, i, library)]
  BY <1>7
<1>9. IsReading(u, words, k, library)
  <2> HIDE DEF u
  <2> QED
    BY <1>8 DEF IsReading
<1> QED
  BY <1>2, <1>9

\* What is read at each of the words.
LEMMA ReadingAt ==
  ASSUME NEW words \in Seq(Word), NEW library
  PROVE  \A i \in 1..(Len(words) + 2) :
           Reading(words, library)[i] = Entry(Reading(words, library), words, i, library)
<1>1. PICK r : IsReading(r, words, 1, library)
  BY ReadingExists
<1>2. IsReading(Reading(words, library), words, 1, library)
  <2>1. \E r0 : r0 = [i \in 1..(Len(words) + 2) |->
                   IF i > Len(words) THEN Nothing
                   ELSE FromWord(words, i, r0[Following(words[i], i)], library)]
    BY <1>1 DEF IsReading, Entry
  <2> QED
    BY <2>1 DEF Reading, IsReading, Entry
<1> HIDE DEF Entry
<1> DEFINE R == Reading(words, library)
<1>3. R = [i \in 1..(Len(words) + 2) |-> Entry(R, words, i, library)]
  BY <1>2 DEF IsReading
<1> HIDE DEF R
<1>4. \A i \in 1..(Len(words) + 2) : R[i] = Entry(R, words, i, library)
  BY <1>3
<1> QED
  BY <1>4 DEF R

-----------------------------------------------------------------------------
(* The items of a cluster, by its first letter.                            *)

\* The letter a cluster ends with: its first that takes a value, or its last.
IsLast(letters, n) ==
  /\ n \in 0..Len(letters)
  /\ \A k \in 1..(n - 1) : letters[k] \notin ShortValued
  /\ n = Len(letters) \/ (n # 0 /\ letters[n] \in ShortValued)

\* Every cluster ends somewhere.
LEMMA LastExists ==
  ASSUME NEW letters \in Seq(STRING)
  PROVE  \E n : IsLast(letters, n)
<1> DEFINE L == Len(letters)
           V == {k \in 1..L : letters[k] \in ShortValued}
<1>0. L \in Nat
  OBVIOUS
<1>1. CASE V = {}
  <2>1. \A k \in 1..(L - 1) : letters[k] \notin ShortValued
    BY <1>0, <1>1
  <2>2. IsLast(letters, L)
    BY <1>0, <2>1 DEF IsLast
  <2> QED
    BY <2>2
<1>2. CASE V # {}
  <2>1. V \in SUBSET Nat
    OBVIOUS
  <2>2. PICK n \in V : \A k \in V : n <= k
    <3> HIDE DEF V
    <3> QED
      BY <1>2, <2>1, LeastNat
  <2>3. n \in 1..L /\ letters[n] \in ShortValued
    OBVIOUS
  <2>4. \A k \in 1..(n - 1) : letters[k] \notin ShortValued
    <3> TAKE k \in 1..(n - 1)
    <3>1. k \in 1..L /\ ~(n <= k)
      BY <1>0, <2>3
    <3> QED
      BY <2>2, <3>1
  <2>5. IsLast(letters, n)
    BY <1>0, <2>3, <2>4 DEF IsLast
  <2> QED
    BY <2>5
<1> QED
  BY <1>1, <1>2

\* The items of a cluster are those of its letters up to there.
LEMMA ItemsToLast ==
  ASSUME NEW letters \in Seq(STRING), NEW n, IsLast(letters, n), NEW next
  PROVE  ClusterItems(letters, next) = [k \in 1..n |-> LetterItem(letters, k, next)]
<1> DEFINE V == {k \in DOMAIN letters : letters[k] \in ShortValued}
           least == CHOOSE k \in V : \A j \in V : k <= j
           last == IF V = {} THEN Len(letters) ELSE least
<1>0. Len(letters) \in Nat /\ DOMAIN letters = 1..Len(letters) /\ n \in 0..Len(letters)
  BY DEF IsLast
<1>1. last = n
  <2>1. CASE V = {}
    <3>1. n # 0 => n \in DOMAIN letters
      BY <1>0
    <3> QED
      BY <2>1, <3>1 DEF IsLast
  <2>2. CASE V # {}
    <3>1. \A k \in V : n <= k
      <4> TAKE k \in V
      <4>1. k \in 1..Len(letters) /\ k \notin 1..(n - 1)
        BY <1>0 DEF IsLast
      <4> QED
        BY <1>0, <4>1
    <3>2. n \in V
      <4>1. PICK k \in V : TRUE
        BY <2>2
      <4>2. k \in 1..Len(letters) /\ letters[k] \in ShortValued /\ n <= k
        BY <1>0, <3>1, <4>1
      <4>3. n = Len(letters) => k = n
        BY <1>0, <4>2
      <4>4. n # 0 => n \in DOMAIN letters
        BY <1>0
      <4> QED
        BY <4>2, <4>3, <4>4, <1>0 DEF IsLast
    <3>3. \A k \in V : (\A j \in V : k <= j) => k = n
      <4> TAKE k \in V
      <4>1. k \in Nat /\ n \in Nat /\ n <= k
        BY <1>0, <3>1
      <4> QED
        BY <3>2, <4>1
    <3>4. least = n
      <4> HIDE DEF V
      <4> QED
        BY <3>1, <3>2, <3>3
    <3> QED
      BY <2>2, <3>4
  <2> QED
    BY <2>1, <2>2
<1>2. ClusterItems(letters, next) = [k \in 1..last |-> LetterItem(letters, k, next)]
  BY DEF ClusterItems
<1> HIDE DEF last
<1> QED
  BY <1>1, <1>2

\* What a tail and the rest of a sequence are, one by one.
LEMMA TailAt ==
  ASSUME NEW S, NEW s \in Seq(S), s # <<>>
  PROVE  /\ Tail(s) \in Seq(S) /\ Len(s) \in Nat \ {0} /\ Len(Tail(s)) = Len(s) - 1
         /\ \A k \in 1..(Len(s) - 1) : Tail(s)[k] = s[k + 1]
         /\ From(s, 2) = Tail(s)
         /\ \A k \in 1..Len(s) : From(Tail(s), k) = From(s, k + 1)
         /\ s[1] \in S /\ Head(s) = s[1]
<1>1. /\ Tail(s) \in Seq(S) /\ Len(s) \in Nat \ {0} /\ Len(Tail(s)) = Len(s) - 1
      /\ \A k \in 1..(Len(s) - 1) : Tail(s)[k] = s[k + 1]
      /\ s[1] \in S /\ Head(s) = s[1]
  OBVIOUS
<1>2. ASSUME NEW k \in 1..Len(s) PROVE From(Tail(s), k) = From(s, k + 1)
  <2> DEFINE a == SubSeq(Tail(s), k, Len(s) - 1)
             b == SubSeq(s, k + 1, Len(s))
  <2>0. ASSUME NEW u \in Seq(S), NEW p \in Nat \ {0}, NEW q \in Nat, p <= q + 1, q <= Len(u)
        PROVE  SubSeq(u, p, q) \in Seq(S) /\ Len(SubSeq(u, p, q)) = q - p + 1
    <3>1. \A i \in p..q : u[i] \in S
      BY <2>0
    <3>2. q - p + 1 \in Nat
      BY <2>0
    <3>3. Len(SubSeq(u, p, q)) = q - p + 1
      BY <2>0, <3>2
    <3>4. SubSeq(u, p, q) \in Seq(S)
      BY <2>0, <3>1, SubSeqProperties
    <3> QED
      BY <3>3, <3>4
  <2>1. a \in Seq(S) /\ Len(a) = Len(s) - k
    <3>1. k \in Nat \ {0} /\ Len(s) - 1 \in Nat /\ k <= Len(s) - 1 + 1 /\ Len(s) - 1 <= Len(Tail(s))
      BY <1>1
    <3>2. a \in Seq(S) /\ Len(a) = Len(s) - 1 - k + 1
      BY <1>1, <2>0, <3>1
    <3>3. Len(s) - 1 - k + 1 = Len(s) - k
      BY <1>1
    <3> HIDE DEF a
    <3> QED
      BY <3>2, <3>3
  <2>2. b \in Seq(S) /\ Len(b) = Len(s) - k
    <3>1. k + 1 \in Nat \ {0} /\ Len(s) \in Nat /\ k + 1 <= Len(s) + 1 /\ Len(s) <= Len(s)
      BY <1>1
    <3>2. b \in Seq(S) /\ Len(b) = Len(s) - (k + 1) + 1
      BY <1>1, <2>0, <3>1
    <3>3. Len(s) - (k + 1) + 1 = Len(s) - k
      BY <1>1
    <3> HIDE DEF b
    <3> QED
      BY <3>2, <3>3
  <2>3. \A j \in 1..(Len(s) - k) : a[j] = b[j]
    <3> TAKE j \in 1..(Len(s) - k)
    <3>1. k + j - 1 \in 1..(Len(s) - 1) /\ k + j - 1 + 1 = k + 1 + j - 1
      BY <1>1
    <3>2. a[j] = Tail(s)[k + j - 1]
      BY <1>1
    <3>3. b[j] = s[k + 1 + j - 1]
      BY <1>1
    <3> QED
      BY <1>1, <3>1, <3>2, <3>3
  <2>4. a = b
    <3> HIDE DEF a, b
    <3> QED
      BY <2>1, <2>2, <2>3
  <2> QED
    BY <1>1, <2>4 DEF From
<1>3. From(s, 2) = Tail(s)
  BY <1>1 DEF From
<1> QED
  BY <1>1, <1>2, <1>3

\* A letter that takes a value ends the cluster; otherwise the rest of the
\* cluster follows.
LEMMA FirstItem ==
  ASSUME NEW l \in Seq(STRING), l # <<>>, NEW next
  PROVE  /\ Head(l) \in ShortValued => ClusterItems(l, next) = <<LetterItem(l, 1, next)>>
         /\ Head(l) \notin ShortValued =>
              ClusterItems(l, next) = <<LetterItem(l, 1, next)>> \o ClusterItems(Tail(l), next)
<1> DEFINE t == Tail(l)
<1>1. /\ t \in Seq(STRING) /\ Len(l) \in Nat \ {0} /\ Len(t) = Len(l) - 1
      /\ \A k \in 1..(Len(l) - 1) : t[k] = l[k + 1]
      /\ \A k \in 1..Len(l) : From(t, k) = From(l, k + 1)
      /\ Head(l) = l[1]
  BY TailAt
<1> HIDE DEF t
<1>2. CASE Head(l) \in ShortValued
  <2>1. IsLast(l, 1)
    <3>1. 1 \in 0..Len(l) /\ 1..(1 - 1) = {} /\ 1 # 0
      BY <1>1
    <3> QED
      BY <1>1, <1>2, <3>1 DEF IsLast
  <2>2. ClusterItems(l, next) = [k \in 1..1 |-> LetterItem(l, k, next)]
    <3>1. \A n : IsLast(l, n) =>
            ClusterItems(l, next) = [k \in 1..n |-> LetterItem(l, k, next)]
      BY ItemsToLast
    <3> QED
      BY <2>1, <3>1, Zenon
  <2>3. [k \in 1..1 |-> LetterItem(l, k, next)] = <<LetterItem(l, 1, next)>>
    OBVIOUS
  <2> QED
    BY <1>2, <2>2, <2>3
<1>3. CASE Head(l) \notin ShortValued
  <2>1. PICK n : IsLast(t, n)
    BY <1>1, LastExists
  <2>2. n \in 0..Len(t) /\ n + 1 \in 0..Len(l) /\ n + 1 # 0
    BY <1>1, <2>1 DEF IsLast
  <2>3. IsLast(l, n + 1)
    <3>1. \A k \in 1..n : l[k] \notin ShortValued
      <4> TAKE k \in 1..n
      <4>1. CASE k = 1
        BY <1>1, <1>3, <4>1
      <4>2. CASE k # 1
        <5>1. k - 1 \in 1..(n - 1) /\ k - 1 \in 1..(Len(l) - 1) /\ k - 1 + 1 = k
          BY <1>1, <2>2, <4>2
        <5>2. t[k - 1] \notin ShortValued
          BY <2>1, <5>1 DEF IsLast
        <5>3. t[k - 1] = l[k - 1 + 1]
          BY <1>1, <5>1
        <5> QED
          BY <5>1, <5>2, <5>3
      <4> QED
        BY <4>1, <4>2
    <3>2. n + 1 = Len(l) \/ l[n + 1] \in ShortValued
      <4>1. CASE n = Len(t)
        BY <1>1, <4>1
      <4>2. CASE n # 0 /\ t[n] \in ShortValued
        <5>1. n \in 1..(Len(l) - 1)
          BY <1>1, <2>2, <4>2
        <5> QED
          BY <1>1, <4>2, <5>1
      <4> QED
        BY <2>1, <4>1, <4>2 DEF IsLast
    <3>3. n + 1 - 1 = n
      BY <2>2
    <3> QED
      BY <2>2, <3>1, <3>2, <3>3 DEF IsLast
  <2>4. \A k \in 1..n : LetterItem(l, k + 1, next) = LetterItem(t, k, next)
    <3> TAKE k \in 1..n
    <3>1. /\ k \in 1..(Len(l) - 1) /\ k + 1 \in 1..Len(l)
          /\ k + 1 < Len(l) <=> k < Len(t)
      BY <1>1, <2>2
    <3>2. l[k + 1] = t[k] /\ From(t, k + 1) = From(l, k + 1 + 1)
      BY <1>1, <3>1
    <3> QED
      BY <3>1, <3>2 DEF LetterItem
  <2> DEFINE a == [k \in 1..(n + 1) |-> LetterItem(l, k, next)]
             b == [k \in 1..n |-> LetterItem(t, k, next)]
             x == LetterItem(l, 1, next)
             S == {a[k] : k \in 1..(n + 1)} \cup {b[k] : k \in 1..n}
             ofL == ClusterItems(l, next)
             ofT == ClusterItems(t, next)
  <2>5. ofL = a /\ ofT = b
    <3>1. ofL = a
      BY <2>3, ItemsToLast
    <3>2. ofT = b
      BY <1>1, <2>1, ItemsToLast
    <3> QED
      BY <3>1, <3>2
  <2>6. n \in Nat /\ a \in [1..(n + 1) -> S] /\ b \in [1..n -> S] /\ a[1] = x /\ x \in S
    <3>1. n \in Nat /\ 1 \in 1..(n + 1)
      BY <2>2
    <3>2. a \in [1..(n + 1) -> S]
      OBVIOUS
    <3>3. b \in [1..n -> S]
      OBVIOUS
    <3>4. a[1] = x
      BY <3>1
    <3>5. x \in S
      BY <3>1, <3>4
    <3> QED
      BY <3>1, <3>2, <3>3, <3>4, <3>5
  <2>7. \A k \in 1..n : a[k + 1] = b[k]
    <3> TAKE k \in 1..n
    <3>1. k + 1 \in 1..(n + 1)
      BY <2>2
    <3> QED
      BY <2>4, <3>1
  <2>8. a = <<x>> \o b
    <3> HIDE DEF a, b, x, S
    <3>1. a \in Seq(S) /\ Len(a) = n + 1 /\ b \in Seq(S) /\ Len(b) = n
      BY <2>6
    <3>2. PICK c : c = <<x>> \o b
      OBVIOUS
    <3>3. /\ c \in Seq(S) /\ Len(c) = n + 1 /\ c[1] = x
          /\ \A k \in 1..n : c[k + 1] = b[k]
      BY <2>6, <3>1, <3>2
    <3>4. \A k \in 1..(n + 1) : a[k] = c[k]
      <4> TAKE k \in 1..(n + 1)
      <4>1. CASE k = 1
        BY <2>6, <3>3, <4>1
      <4>2. CASE k # 1
        <5>1. k - 1 \in 1..n /\ k - 1 + 1 = k
          BY <2>6, <4>2
        <5>2. a[k - 1 + 1] = c[k - 1 + 1]
          BY <2>7, <3>3, <5>1
        <5> QED
          BY <5>1, <5>2
      <4> QED
        BY <4>1, <4>2
    <3>5. Len(a) = Len(c) /\ \A k \in 1..Len(a) : a[k] = c[k]
      BY <3>1, <3>3, <3>4
    <3>6. a = c
      BY <3>1, <3>3, <3>5, SeqEqual
    <3> QED
      BY <3>2, <3>6
  <2> HIDE DEF a, b
  <2> QED
    BY <1>3, <2>5, <2>8 DEF t
<1> QED
  BY <1>2, <1>3 DEF t

\* Whether the next word is a value shows in the rest of the cluster.
LEMMA FirstTakes ==
  ASSUME NEW l \in Seq(STRING), l # <<>>
  PROVE  /\ Head(l) \in ShortValued => (TakesNext(Cluster(l)) <=> Tail(l) = <<>>)
         /\ Head(l) \notin ShortValued =>
              (TakesNext(Cluster(l)) <=> Tail(l) # <<>> /\ TakesNext(Cluster(Tail(l))))
<1> DEFINE t == Tail(l)
           takes(s) == /\ s[Len(s)] \in ShortValued
                       /\ \A k \in 1..(Len(s) - 1) : s[k] \notin ShortValued
<1>0. \A s : TakesNext(Cluster(s)) <=> takes(s)
  BY DEF TakesNext, Cluster
<1>1. /\ t \in Seq(STRING) /\ Len(l) \in Nat \ {0} /\ Len(t) = Len(l) - 1
      /\ \A k \in 1..(Len(l) - 1) : t[k] = l[k + 1]
      /\ Head(l) = l[1]
  BY TailAt
<1> HIDE DEF t
<1>2. t = <<>> <=> Len(l) = 1
  BY <1>1
<1>3. CASE t = <<>>
  <2>1. takes(l) <=> l[1] \in ShortValued
    <3>1. Len(l) = 1 /\ 1..(1 - 1) = {}
      BY <1>2, <1>3
    <3> QED
      BY <3>1
  <2> HIDE DEF takes
  <2> QED
    BY <1>0, <1>1, <1>3, <2>1 DEF t
<1>4. CASE t # <<>>
  <2>0. Len(t) \in Nat \ {0}
    BY <1>1, <1>4
  <2>1. Head(l) \in ShortValued => ~takes(l)
    <3>1. 1 \in 1..(Len(l) - 1)
      BY <1>1, <2>0
    <3> QED
      BY <1>1, <3>1
  <2>2. Head(l) \notin ShortValued => (takes(l) <=> takes(t))
    <3>1. l[Len(l)] = t[Len(t)]
      BY <1>1, <2>0
    <3>2. ASSUME takes(l) PROVE takes(t)
      <4>1. ASSUME NEW k \in 1..(Len(t) - 1) PROVE t[k] \notin ShortValued
        <5>1. k + 1 \in 1..(Len(l) - 1) /\ k \in 1..(Len(l) - 1)
          BY <1>1, <2>0
        <5> QED
          BY <1>1, <3>2, <5>1
      <4> QED
        BY <3>1, <3>2, <4>1
    <3>3. ASSUME takes(t), Head(l) \notin ShortValued PROVE takes(l)
      <4>1. ASSUME NEW k \in 1..(Len(l) - 1) PROVE l[k] \notin ShortValued
        <5>1. CASE k = 1
          BY <1>1, <3>3, <5>1
        <5>2. CASE k # 1
          <6>1. k - 1 \in 1..(Len(t) - 1) /\ k - 1 \in 1..(Len(l) - 1) /\ k - 1 + 1 = k
            BY <1>1, <5>2
          <6>2. t[k - 1] \notin ShortValued /\ t[k - 1] = l[k - 1 + 1]
            BY <1>1, <3>3, <6>1
          <6> QED
            BY <6>1, <6>2
        <5> QED
          BY <5>1, <5>2
      <4> QED
        BY <3>1, <3>3, <4>1
    <3> QED
      BY <3>2, <3>3
  <2> HIDE DEF takes
  <2> QED
    BY <1>0, <1>4, <2>1, <2>2 DEF t
<1> QED
  BY <1>3, <1>4 DEF t

-----------------------------------------------------------------------------
(* What is read has items and words only.                                  *)

OptionName == {ValOf(w.name) : w \in Word} \cup Short \cup {"?"}
Value      == Word \cup {w.value : w \in Word} \cup {Given} \cup {Attached(l) : l \in Seq(STRING)}
ItemType   == [option : OptionName, value : Value]
ReadType   == [items : Seq(ItemType), free : Seq(Word)]

\* The rest of a sequence from one of its places, or from behind it.
LEMMA FromTyped ==
  ASSUME NEW S, NEW s \in Seq(S), NEW i \in 1..(Len(s) + 1)
  PROVE  /\ From(s, i) \in Seq(S) /\ Len(From(s, i)) = Len(s) - i + 1
         /\ \A k \in 1..(Len(s) - i + 1) : From(s, i)[k] = s[i + k - 1]
<1>1. Len(s) \in Nat /\ i \in Int /\ i >= 1 /\ i <= Len(s) + 1
  OBVIOUS
<1>2. \A k \in i..Len(s) : s[k] \in S
  BY <1>1
<1>3. /\ SubSeq(s, i, Len(s)) \in Seq(S)
      /\ Len(SubSeq(s, i, Len(s))) = IF i <= Len(s) THEN Len(s) - i + 1 ELSE 0
      /\ \A k \in 1..(Len(s) - i + 1) : SubSeq(s, i, Len(s))[k] = s[i + k - 1]
  BY <1>1, <1>2, SubSeqProperties
<1>4. ~(i <= Len(s)) => Len(s) - i + 1 = 0
  BY <1>1
<1> QED
  BY <1>3, <1>4 DEF From

\* A letter names an option, with one of the values there are.
LEMMA LetterItemTyped ==
  ASSUME NEW l \in Seq(STRING), NEW k \in 1..Len(l), NEW next \in Seq(Word)
  PROVE  LetterItem(l, k, next) \in ItemType
<1>1. Given \in Value /\ "?" \in OptionName /\ Wrong \in ItemType
  BY DEF Value, OptionName, Wrong, Item, ItemType
<1>2. CASE l[k] \notin Short
  BY <1>1, <1>2 DEF LetterItem
<1>3. CASE l[k] \in Short
  <2>1. l[k] \in OptionName
    BY <1>3 DEF OptionName
  <2>2. \A v \in Value : Item(l[k], v) \in ItemType
    BY <2>1 DEF Item, ItemType
  <2>3. k < Len(l) => Attached(From(l, k + 1)) \in Value
    <3>1. From(l, k + 1) \in Seq(STRING)
      BY FromTyped
    <3> QED
      BY <3>1 DEF Value
  <2>4. next # <<>> => Head(next) \in Value
    <3>1. next # <<>> => Head(next) \in Word
      OBVIOUS
    <3> QED
      BY <3>1 DEF Value
  <2> QED
    BY <1>1, <1>3, <2>2, <2>3, <2>4 DEF LetterItem
<1> QED
  BY <1>2, <1>3

\* A cluster has such items, and an empty one has none.
LEMMA ClusterTyped ==
  ASSUME NEW l \in Seq(STRING), NEW next \in Seq(Word)
  PROVE  /\ ClusterItems(l, next) \in Seq(ItemType)
         /\ l = <<>> => ClusterItems(l, next) = <<>>
<1>1. PICK n : IsLast(l, n)
  BY LastExists
<1>2. n \in Nat /\ \A k \in 1..n : k \in 1..Len(l)
  BY <1>1 DEF IsLast
<1> DEFINE a == [k \in 1..n |-> LetterItem(l, k, next)]
<1>3. a \in [1..n -> ItemType]
  BY <1>2, LetterItemTyped
<1>4. ClusterItems(l, next) = a
  BY <1>1, ItemsToLast
<1>5. l = <<>> => n = 0
  BY <1>1 DEF IsLast
<1> HIDE DEF a
<1>6. a \in Seq(ItemType) /\ (n = 0 => a = <<>>)
  BY <1>2, <1>3
<1> QED
  BY <1>4, <1>5, <1>6

\* A long option is such an item.
LEMMA LongTyped ==
  ASSUME NEW w \in Word, NEW next \in Seq(Word)
  PROVE  LongItem(w, next) \in ItemType
<1>1. Given \in Value /\ Wrong \in ItemType /\ w.value \in Value
  BY DEF Value, OptionName, Wrong, Item, ItemType
<1>2. ValOf(w.name) \in OptionName
  BY DEF OptionName
<1>3. \A v \in Value : Item(ValOf(w.name), v) \in ItemType
  BY <1>2 DEF Item, ItemType
<1>4. next # <<>> => Head(next) \in Value
  <2>1. next # <<>> => Head(next) \in Word
    OBVIOUS
  <2> QED
    BY <2>1 DEF Value
<1> QED
  BY <1>1, <1>3, <1>4 DEF LongItem

\* Putting items or words in front keeps what was read a reading.
LEMMA AheadTyped ==
  ASSUME NEW r \in ReadType
  PROVE  /\ \A s \in Seq(ItemType) : Ahead(s, r) \in ReadType
         /\ \A s \in Seq(Word) : Free(s, r) \in ReadType
         /\ Ahead(<<>>, r) = r
         /\ \A s, t \in Seq(ItemType) : Ahead(s \o t, r) = Ahead(s, Ahead(t, r))
<1>1. r.items \in Seq(ItemType) /\ r.free \in Seq(Word) /\ r = [items |-> r.items, free |-> r.free]
  BY DEF ReadType
<1>2. ASSUME NEW s \in Seq(ItemType), NEW t \in Seq(ItemType)
      PROVE  Ahead(s \o t, r) = Ahead(s, Ahead(t, r))
  <2>1. (s \o t) \o r.items = s \o (t \o r.items)
    BY <1>1, ConcatAssociative
  <2> QED
    BY <2>1 DEF Ahead
<1>3. <<>> \o r.items = r.items
  BY <1>1, ConcatEmptySeq
<1>4. ASSUME NEW s \in Seq(ItemType) PROVE Ahead(s, r) \in ReadType
  <2>1. s \o r.items \in Seq(ItemType)
    BY <1>1, ConcatProperties
  <2> QED
    BY <1>1, <2>1 DEF Ahead, ReadType
<1>5. ASSUME NEW s \in Seq(Word) PROVE Free(s, r) \in ReadType
  <2>1. s \o r.free \in Seq(Word)
    BY <1>1, ConcatProperties
  <2> QED
    BY <1>1, <2>1 DEF Free, ReadType
<1>6. Ahead(<<>>, r) = r
  BY <1>1, <1>3 DEF Ahead
<1> QED
  BY <1>2, <1>4, <1>5, <1>6

\* Nothing is a reading too.
LEMMA NothingTyped == Nothing \in ReadType
BY DEF Nothing, ReadType

\* One more word in front of a reading makes a reading.
LEMMA FromWordTyped ==
  ASSUME NEW words \in Seq(Word), NEW i \in 1..Len(words), NEW after \in ReadType, NEW library
  PROVE  FromWord(words, i, after, library) \in ReadType
<1> DEFINE w == words[i]
           next == From(words, i + 1)
<1>1. w \in Word /\ w.kind \in {"plain", "end", "cluster", "long"}
  BY OptionsAssumption
<1>2. next \in Seq(Word) /\ From(words, i) \in Seq(Word)
  BY FromTyped
<1>3. <<w>> \in Seq(Word)
  BY <1>1
<1>4. w.kind = "cluster" => ClusterItems(w.letters, next) \in Seq(ItemType)
  BY <1>1, <1>2, ClusterTyped, OptionsAssumption
<1>5. <<LongItem(w, next)>> \in Seq(ItemType)
  <2>1. LongItem(w, next) \in ItemType
    BY <1>1, <1>2, LongTyped
  <2> QED
    BY <2>1
<1>6. /\ Free(next, Nothing) \in ReadType /\ Free(<<w>>, after) \in ReadType
      /\ Free(From(words, i), Nothing) \in ReadType
      /\ w.kind = "cluster" => Ahead(ClusterItems(w.letters, next), after) \in ReadType
      /\ Ahead(<<LongItem(w, next)>>, after) \in ReadType
  BY <1>2, <1>3, <1>4, <1>5, AheadTyped, NothingTyped
<1>7. FromWord(words, i, after, library) =
        CASE w.kind = "end"     -> Free(next, Nothing)
          [] w.kind = "plain"   -> IF library = "gnu" THEN Free(<<w>>, after)
                                   ELSE Free(From(words, i), Nothing)
          [] w.kind = "cluster" -> Ahead(ClusterItems(w.letters, next), after)
          [] w.kind = "long"    -> Ahead(<<LongItem(w, next)>>, after)
  BY DEF FromWord
<1> HIDE DEF w, next
<1> QED
  BY <1>1, <1>6, <1>7

\* All that is read has its type: there is no last word from which on it has
\* not.
LEMMA ReadingTyped ==
  ASSUME NEW words \in Seq(Word), NEW library
  PROVE  \A i \in 1..(Len(words) + 2) : Reading(words, library)[i] \in ReadType
<1> DEFINE L == Len(words)
           R == Reading(words, library)
           Bad == {n \in 0..(L + 1) : R[L + 2 - n] \notin ReadType}
<1>0. L \in Nat
  OBVIOUS
<1>a. \A i \in 1..(L + 2) : R[i] = Entry(R, words, i, library)
  BY ReadingAt
<1> HIDE DEF R
<1> SUFFICES Bad = {}
  <2>1. ASSUME Bad = {}, NEW i \in 1..(L + 2) PROVE R[i] \in ReadType
    <3>1. L + 2 - i \in 0..(L + 1) /\ L + 2 - (L + 2 - i) = i
      BY <1>0
    <3> QED
      BY <2>1, <3>1
  <2> QED
    BY <2>1 DEF R
<1> SUFFICES ASSUME Bad # {} PROVE FALSE
  OBVIOUS
<1>1. PICK n \in Bad : \A m \in Bad : n <= m
  <2>1. Bad \in SUBSET Nat
    BY <1>0
  <2> HIDE DEF Bad
  <2> QED
    BY <2>1, LeastNat
<1> DEFINE i == L + 2 - n
<1>2. n \in 0..(L + 1) /\ R[i] \notin ReadType
  OBVIOUS
<1>3. i \in 1..(L + 2)
  BY <1>0, <1>2
<1>4. ASSUME NEW j \in (i + 1)..(L + 2) PROVE R[j] \in ReadType
  <2>1. L + 2 - j \in 0..(L + 1) /\ ~(n <= L + 2 - j) /\ L + 2 - (L + 2 - j) = j
    BY <1>0, <1>2, <1>3
  <2>2. L + 2 - j \notin Bad
    BY <1>1, <2>1
  <2> QED
    BY <2>1, <2>2
<1> HIDE DEF i
<1>5. R[i] = Entry(R, words, i, library)
  BY <1>3, <1>a
<1>6. CASE i > L
  BY <1>2, <1>5, <1>6, NothingTyped DEF Entry
<1>7. CASE ~(i > L)
  <2>1. i \in 1..L /\ i + 1 \in (i + 1)..(L + 2) /\ i + 2 \in (i + 1)..(L + 2)
    BY <1>0, <1>3, <1>7
  <2>2. Following(words[i], i) \in (i + 1)..(L + 2)
    BY <2>1, Follows
  <2>3. FromWord(words, i, R[Following(words[i], i)], library) \in ReadType
    BY <1>4, <2>1, <2>2, FromWordTyped
  <2> QED
    BY <1>2, <1>5, <1>7, <2>3 DEF Entry
<1> QED
  BY <1>6, <1>7

-----------------------------------------------------------------------------
(* What is left to read, between two calls of getopt_long.                 *)

\* What letters mean, the end of the word i, and what follows that word.
LettersAt(words, letters, i, library) ==
  Ahead(ClusterItems(letters, From(words, i + 1)),
        Reading(words, library)[Following(Cluster(letters), i)])

\* What is left at the two positions: the letters, or the word i.
LeftAt(words, letters, i, library) ==
  IF letters # <<>> THEN LettersAt(words, letters, i, library)
  ELSE Reading(words, library)[i]

\* What is left is a reading.
LEMMA LeftTyped ==
  ASSUME NEW words \in Seq(Word), NEW library, NEW l \in Seq(STRING),
         NEW i \in 1..(Len(words) + 1), l # <<>> => i <= Len(words)
  PROVE  LeftAt(words, l, i, library) \in ReadType
<1>1. CASE l = <<>>
  <2>1. i \in 1..(Len(words) + 2)
    OBVIOUS
  <2> QED
    BY <1>1, <2>1, ReadingTyped DEF LeftAt
<1>2. CASE l # <<>>
  <2>1. From(words, i + 1) \in Seq(Word)
    <3>1. i + 1 \in 1..(Len(words) + 1)
      BY <1>2
    <3> QED
      BY <3>1, FromTyped
  <2>2. ClusterItems(l, From(words, i + 1)) \in Seq(ItemType)
    BY <2>1, ClusterTyped
  <2>3. Following(Cluster(l), i) \in 1..(Len(words) + 2)
    <3>1. Following(Cluster(l), i) \in {i + 1, i + 2}
      BY Follows
    <3> QED
      BY <1>2, <3>1
  <2>4. Reading(words, library)[Following(Cluster(l), i)] \in ReadType
    BY <2>3, ReadingTyped
  <2> QED
    BY <1>2, <2>2, <2>4, AheadTyped DEF LeftAt, LettersAt
<1> QED
  BY <1>1, <1>2

\* The first letter, and what is left behind it.
LEMMA LetterLeft ==
  ASSUME NEW words \in Seq(Word), NEW library, NEW l \in Seq(STRING), l # <<>>,
         NEW i \in 1..Len(words)
  PROVE  LET x == LetterItem(l, 1, From(words, i + 1))
             R == Reading(words, library)
         IN /\ x \in ItemType
            /\ Head(l) \notin ShortValued =>
                 LettersAt(words, l, i, library) =
                   Ahead(<<x>>, LeftAt(words, Tail(l), IF Tail(l) = <<>> THEN i + 1 ELSE i, library))
            /\ Head(l) \in ShortValued =>
                 LettersAt(words, l, i, library) =
                   Ahead(<<x>>, IF Tail(l) = <<>> THEN R[i + 2] ELSE R[i + 1])
<1> DEFINE next == From(words, i + 1)
           x == LetterItem(l, 1, next)
           R == Reading(words, library)
           t == Tail(l)
<1>1. next \in Seq(Word) /\ i \in Nat /\ i + 1 \in 1..(Len(words) + 2) /\ i + 2 \in 1..(Len(words) + 2)
  <2>1. i + 1 \in 1..(Len(words) + 1)
    OBVIOUS
  <2> QED
    BY <2>1, FromTyped
<1>2. t \in Seq(STRING)
  BY TailAt
<1>3. x \in ItemType /\ <<x>> \in Seq(ItemType)
  <2>1. 1 \in 1..Len(l)
    OBVIOUS
  <2>2. x \in ItemType
    BY <1>1, <2>1, LetterItemTyped
  <2> HIDE DEF x
  <2> QED
    BY <2>2
<1>4. /\ ClusterItems(t, next) \in Seq(ItemType)
      /\ t = <<>> => ClusterItems(t, next) = <<>>
  BY <1>1, <1>2, ClusterTyped
<1>5. /\ Following(Cluster(l), i) = IF TakesNext(Cluster(l)) THEN i + 2 ELSE i + 1
      /\ Following(Cluster(t), i) = IF TakesNext(Cluster(t)) THEN i + 2 ELSE i + 1
  BY DEF Following
<1>6. R[i + 1] \in ReadType /\ R[i + 2] \in ReadType
  BY <1>1, ReadingTyped
<1>7. CASE Head(l) \in ShortValued
  <2>1. ClusterItems(l, next) = <<x>>
    BY <1>7, FirstItem
  <2>2. TakesNext(Cluster(l)) <=> t = <<>>
    BY <1>7, FirstTakes
  <2>3. R[Following(Cluster(l), i)] = IF t = <<>> THEN R[i + 2] ELSE R[i + 1]
    BY <1>5, <2>2
  <2>4. LettersAt(words, l, i, library) = Ahead(ClusterItems(l, next), R[Following(Cluster(l), i)])
    BY DEF LettersAt
  <2> QED
    BY <1>3, <1>7, <2>1, <2>3, <2>4
<1>8. CASE Head(l) \notin ShortValued
  <2>1. ClusterItems(l, next) = <<x>> \o ClusterItems(t, next)
    BY <1>8, FirstItem
  <2>2. TakesNext(Cluster(l)) <=> t # <<>> /\ TakesNext(Cluster(t))
    BY <1>8, FirstTakes
  <2>3. LettersAt(words, l, i, library) =
          Ahead(<<x>> \o ClusterItems(t, next), R[Following(Cluster(l), i)])
    BY <2>1 DEF LettersAt
  <2>4. R[Following(Cluster(l), i)] \in ReadType
    BY <1>5, <1>6
  <2>5. LettersAt(words, l, i, library) =
          Ahead(<<x>>, Ahead(ClusterItems(t, next), R[Following(Cluster(l), i)]))
    BY <1>3, <1>4, <2>3, <2>4, AheadTyped
  <2>6. CASE t = <<>>
    <3>1. Following(Cluster(l), i) = i + 1
      BY <1>5, <2>2, <2>6
    <3>2. Ahead(ClusterItems(t, next), R[i + 1]) = R[i + 1]
      BY <1>4, <1>6, <2>6, AheadTyped
    <3>3. LeftAt(words, t, i + 1, library) = R[i + 1]
      BY <2>6 DEF LeftAt
    <3> QED
      BY <1>3, <1>8, <2>5, <2>6, <3>1, <3>2, <3>3
  <2>7. CASE t # <<>>
    <3>1. Following(Cluster(l), i) = Following(Cluster(t), i)
      BY <1>5, <2>2, <2>7
    <3>2. LeftAt(words, t, i, library) = Ahead(ClusterItems(t, next), R[Following(Cluster(t), i)])
      BY <2>7 DEF LeftAt, LettersAt
    <3> QED
      BY <1>3, <1>8, <2>5, <2>7, <3>1, <3>2
  <2> QED
    BY <2>6, <2>7
<1> QED
  BY <1>7, <1>8

\* What a word means, by its kind.
LEMMA WordLeft ==
  ASSUME NEW words \in Seq(Word), NEW library, NEW i \in 1..Len(words)
  PROVE  LET w    == words[i]
             next == From(words, i + 1)
             R    == Reading(words, library)
         IN /\ w.kind = "cluster" => R[i] = LettersAt(words, w.letters, i, library)
            /\ w.kind = "long" => /\ LongItem(w, next) \in ItemType
                                  /\ R[i] = Ahead(<<LongItem(w, next)>>, R[Following(w, i)])
                                  /\ R[Following(w, i)] \in ReadType
            /\ w.kind = "end" => R[i] = [items |-> <<>>, free |-> next]
            /\ w.kind = "plain" =>
                 /\ library = "gnu" => R[i] = [items |-> R[i + 1].items, free |-> <<w>> \o R[i + 1].free]
                 /\ library # "gnu" => R[i] = [items |-> <<>>, free |-> From(words, i)]
<1> DEFINE w == words[i]
           next == From(words, i + 1)
           R == Reading(words, library)
<1>1. w \in Word /\ next \in Seq(Word) /\ From(words, i) \in Seq(Word)
  <2>1. i \in 1..(Len(words) + 1) /\ i + 1 \in 1..(Len(words) + 1)
    OBVIOUS
  <2>2. next \in Seq(Word)
    BY <2>1, FromTyped
  <2>3. From(words, i) \in Seq(Word)
    BY <2>1, FromTyped
  <2> QED
    BY <2>2, <2>3
<1>2. i \in 1..(Len(words) + 2) /\ ~(i > Len(words)) /\ i \in Nat
  OBVIOUS
<1>3. R[i] = FromWord(words, i, R[Following(w, i)], library)
  BY <1>2, ReadingAt DEF Entry
<1>4. R[i] = CASE w.kind = "end"     -> Free(next, Nothing)
               [] w.kind = "plain"   -> IF library = "gnu" THEN Free(<<w>>, R[Following(w, i)])
                                        ELSE Free(From(words, i), Nothing)
               [] w.kind = "cluster" -> Ahead(ClusterItems(w.letters, next), R[Following(w, i)])
               [] w.kind = "long"    -> Ahead(<<LongItem(w, next)>>, R[Following(w, i)])
  BY <1>3 DEF FromWord
<1>5. LongItem(w, next) \in ItemType
  BY <1>1, LongTyped
<1>6. Following(w, i) \in 1..(Len(words) + 2)
  <2>1. Following(w, i) \in {i + 1, i + 2}
    BY <1>2, Follows
  <2> QED
    BY <2>1
<1>7. R[Following(w, i)] \in ReadType
  BY <1>6, ReadingTyped
<1>8. w.kind = "plain" => Following(w, i) = i + 1
  BY DEF Following, TakesNext
<1>9. w.kind = "cluster" => Following(w, i) = Following(Cluster(w.letters), i)
  BY DEF Following, TakesNext, Cluster
<1>10. \A s \in Seq(Word) : Free(s, Nothing) = [items |-> <<>>, free |-> s]
  BY ConcatEmptySeq DEF Free, Nothing
<1> HIDE DEF w, next, R
<1>11. w.kind = "end" => R[i] = [items |-> <<>>, free |-> next]
  BY <1>1, <1>4, <1>10
<1>12. w.kind = "plain" /\ library # "gnu" => R[i] = [items |-> <<>>, free |-> From(words, i)]
  BY <1>1, <1>4, <1>10
<1>13. w.kind = "plain" /\ library = "gnu" =>
         R[i] = [items |-> R[i + 1].items, free |-> <<w>> \o R[i + 1].free]
  BY <1>4, <1>8 DEF Free
<1>14. w.kind = "long" => R[i] = Ahead(<<LongItem(w, next)>>, R[Following(w, i)])
  BY <1>4
<1>15. w.kind = "cluster" => R[i] = LettersAt(words, w.letters, i, library)
  BY <1>4, <1>9 DEF LettersAt, R, next
<1> QED
  BY <1>5, <1>7, <1>11, <1>12, <1>13, <1>14, <1>15 DEF w, next, R

\* Behind the last word nothing is left.
LEMMA NothingLeft ==
  ASSUME NEW words \in Seq(Word), NEW library
  PROVE  Reading(words, library)[Len(words) + 1] = Nothing
<1>1. Len(words) + 1 \in 1..(Len(words) + 2) /\ Len(words) + 1 > Len(words)
  OBVIOUS
<1> QED
  BY <1>1, ReadingAt DEF Entry

-----------------------------------------------------------------------------
(* What the items come to: where the program stops, and what is set.       *)

Ending == {"?", "v"}

\* The program stops behind the last item that did not end it.
LEMMA StopIs ==
  ASSUME NEW items, Len(items) \in Nat, NEW n \in 0..Len(items),
         \A k \in 1..n : items[k].option \notin Ending,
         n < Len(items) => items[n + 1].option \in Ending
  PROVE  Stop(items) = n + 1
<1> DEFINE stop(m) == /\ \A k \in 1..(m - 1) : items[k].option \notin {"?", "v"}
                      /\ m <= Len(items) => items[m].option \in {"?", "v"}
<1>1. n + 1 \in 1..(Len(items) + 1) /\ stop(n + 1)
  <2>1. n + 1 - 1 = n /\ (n + 1 <= Len(items) <=> n < Len(items)) /\ n + 1 \in 1..(Len(items) + 1)
    OBVIOUS
  <2> QED
    BY <2>1 DEF Ending
<1>2. ASSUME NEW m \in 1..(Len(items) + 1), stop(m) PROVE m = n + 1
  <2>1. ~(m < n + 1)
    <3> SUFFICES ASSUME m < n + 1 PROVE FALSE
      OBVIOUS
    <3>1. m \in 1..n /\ m <= Len(items)
      OBVIOUS
    <3> QED
      BY <1>2, <3>1 DEF Ending
  <2>2. ~(n + 1 < m)
    <3> SUFFICES ASSUME n + 1 < m PROVE FALSE
      OBVIOUS
    <3>1. n + 1 \in 1..(m - 1) /\ n < Len(items)
      OBVIOUS
    <3> QED
      BY <1>2, <3>1 DEF Ending
  <2> QED
    BY <2>1, <2>2
<1>3. Stop(items) = CHOOSE m \in 1..(Len(items) + 1) : stop(m)
  BY DEF Stop
<1> HIDE DEF stop
<1> QED
  BY <1>1, <1>2, <1>3

\* No option is set before the first item.
LEMMA SettingsNone ==
  ASSUME NEW items
  PROVE  Settings(items, 0) = [o \in Setting |-> Unset]
<1>1. 1..0 = {}
  OBVIOUS
<1>2. \A o : {k \in 1..0 : items[k].option = o} = {}
  BY <1>1
<1> QED
  BY <1>2 DEF Settings

\* One more item sets its option and leaves the others.
LEMMA SettingsNext ==
  ASSUME NEW items, NEW n \in Nat
  PROVE  Settings(items, n + 1) =
           [o \in Setting |-> IF items[n + 1].option = o THEN items[n + 1].value
                              ELSE Settings(items, n)[o]]
<1> DEFINE set(m, o) == {k \in 1..m : items[k].option = o}
           of(T) == IF T = {} THEN Unset
                    ELSE items[CHOOSE k \in T : \A j \in T : j <= k].value
           val(m, o) == of(set(m, o))
<1>1. \A m : Settings(items, m) = [o \in Setting |-> val(m, o)]
  BY DEF Settings
<1>2. ASSUME NEW o, items[n + 1].option = o PROVE val(n + 1, o) = items[n + 1].value
  <2>1. n + 1 \in set(n + 1, o)
    BY <1>2
  <2>2. \A j \in set(n + 1, o) : j \in Nat /\ j <= n + 1
    OBVIOUS
  <2>3. \A k \in set(n + 1, o) : (\A j \in set(n + 1, o) : j <= k) => k = n + 1
    <3> TAKE k \in set(n + 1, o)
    <3>1. k \in Nat /\ k <= n + 1
      BY <2>2
    <3> HIDE DEF set
    <3> QED
      BY <2>1, <3>1
  <2> HIDE DEF set
  <2>4. (CHOOSE k \in set(n + 1, o) : \A j \in set(n + 1, o) : j <= k) = n + 1
    BY <2>1, <2>2, <2>3
  <2>5. set(n + 1, o) # {}
    BY <2>1
  <2> QED
    BY <2>4, <2>5
<1>3. ASSUME NEW o, items[n + 1].option # o PROVE val(n + 1, o) = val(n, o)
  <2>1. set(n + 1, o) = set(n, o)
    <3>1. \A k \in 1..(n + 1) : k # n + 1 => k \in 1..n
      OBVIOUS
    <3>2. \A k \in 1..n : k \in 1..(n + 1)
      OBVIOUS
    <3> QED
      BY <1>3, <3>1, <3>2
  <2> HIDE DEF set, of
  <2> QED
    BY <2>1
<1> HIDE DEF val
<1>4. \A o \in Setting : Settings(items, n)[o] = val(n, o)
  BY <1>1
<1>5. \A o \in Setting :
        val(n + 1, o) = IF items[n + 1].option = o THEN items[n + 1].value
                        ELSE Settings(items, n)[o]
  BY <1>2, <1>3, <1>4
<1> QED
  BY <1>1, <1>5

\* Taking the first of a rest leaves the rest behind it.
LEMMA FromNext ==
  ASSUME NEW S, NEW s \in Seq(S), NEW n \in 0..Len(s), NEW x \in S, NEW t \in Seq(S),
         From(s, n + 1) = <<x>> \o t
  PROVE  n + 1 \in 1..Len(s) /\ s[n + 1] = x /\ From(s, n + 1 + 1) = t
<1>0. Len(s) \in Nat /\ n \in Nat /\ n + 1 \in 1..(Len(s) + 1)
  OBVIOUS
<1>1. /\ Len(From(s, n + 1)) = Len(s) - (n + 1) + 1
      /\ \A k \in 1..(Len(s) - (n + 1) + 1) : From(s, n + 1)[k] = s[n + 1 + k - 1]
  BY <1>0, FromTyped
<1>2. <<x>> \in Seq(S) /\ Len(<<x>>) = 1 /\ Len(t) \in Nat
  OBVIOUS
<1>3. /\ Len(<<x>> \o t) = 1 + Len(t)
      /\ (<<x>> \o t)[1] = x
      /\ \A k \in 1..Len(t) : (<<x>> \o t)[k + 1] = t[k]
  OBVIOUS
<1>4. Len(t) = Len(s) - (n + 1)
  <2>1. \A a, b, c \in Nat : a - (b + 1) + 1 = 1 + c => c = a - (b + 1)
    OBVIOUS
  <2> QED
    BY <1>0, <1>1, <1>2, <1>3, <2>1
<1>5. n + 1 \in 1..Len(s) /\ n + 1 + 1 \in 1..(Len(s) + 1)
  <2>1. \A a, b, c \in Nat : c = a - (b + 1) => b + 1 \in 1..a /\ b + 1 + 1 \in 1..(a + 1)
    OBVIOUS
  <2> QED
    BY <1>0, <1>2, <1>4, <2>1
<1>6. s[n + 1] = x
  <2>1. 1 \in 1..(Len(s) - (n + 1) + 1) /\ n + 1 + 1 - 1 = n + 1
    BY <1>0, <1>5
  <2>2. From(s, n + 1)[1] = s[n + 1 + 1 - 1]
    BY <1>1, <2>1
  <2> QED
    BY <1>3, <2>1, <2>2
<1> DEFINE u == From(s, n + 1 + 1)
<1>7. /\ u \in Seq(S) /\ Len(u) = Len(s) - (n + 1 + 1) + 1
      /\ \A k \in 1..(Len(s) - (n + 1 + 1) + 1) : u[k] = s[n + 1 + 1 + k - 1]
  BY <1>5, FromTyped
<1>8. Len(s) - (n + 1 + 1) + 1 = Len(s) - (n + 1)
  BY <1>0
<1> HIDE DEF u
<1>9. \A k \in 1..Len(t) : u[k] = t[k]
  <2> TAKE k \in 1..Len(t)
  <2>1. /\ k + 1 \in 1..(Len(s) - (n + 1) + 1)
        /\ n + 1 + (k + 1) - 1 = n + 1 + 1 + k - 1
        /\ k \in 1..(Len(s) - (n + 1 + 1) + 1)
    BY <1>0, <1>4
  <2>2. From(s, n + 1)[k + 1] = s[n + 1 + (k + 1) - 1]
    BY <1>1, <2>1
  <2>3. u[k] = s[n + 1 + 1 + k - 1]
    BY <1>7, <2>1
  <2>4. From(s, n + 1)[k + 1] = t[k]
    BY <1>3
  <2> QED
    BY <2>1, <2>2, <2>3, <2>4
<1>10. Len(u) = Len(t)
  BY <1>4, <1>7, <1>8
<1>11. u = t
  BY <1>7, <1>9, <1>10
<1> QED
  BY <1>5, <1>6, <1>11 DEF u

-----------------------------------------------------------------------------
(* What has been handled and what is left are together what the command    *)
(* line means.                                                             *)

\* The first n items of m have been handled, and left is the rest of it.
Handled(m, left, n) ==
  /\ n \in 0..Len(m.items)
  /\ left.items = From(m.items, n + 1)
  /\ \A k \in 1..n : m.items[k].option \notin Ending
  /\ config = Settings(m.items, n)

Underway ==
  /\ build # "gnu" => skipped = <<>>
  /\ Meaning(argv, build).free = skipped \o LeftAt(argv, nextchar, optind, build).free
  /\ \E n : Handled(Meaning(argv, build), LeftAt(argv, nextchar, optind, build), n)

ParseInv == OptionsInv /\ (Parsing => Underway) /\ ParsesAsMeant

\* An item has been applied: it ends the program, or it sets an option.
Applied(x) ==
  /\ outcome' = IF x.option = "?" THEN "usage" ELSE IF x.option = "v" THEN "version" ELSE outcome
  /\ config' = IF x.option \in Setting THEN [config EXCEPT ![x.option] = x.value] ELSE config
  /\ UNCHANGED <<build, argv, skipped, pid>>

\* What the switch does and what the usage text does.
LEMMA Applying ==
  /\ \A option, value : Apply(option, value) => Applied(Item(option, value))
  /\ Usage => Applied(Wrong)
<1>1. ASSUME NEW option, NEW value, Apply(option, value) PROVE Applied(Item(option, value))
  BY <1>1 DEF Apply, Applied, Item
<1>2. "?" \notin Setting
  BY DEF Setting
<1>3. ASSUME Usage PROVE Applied(Wrong)
  BY <1>2, <1>3 DEF Usage, Applied, Wrong, Item
<1> QED
  BY <1>1, <1>3

\* The words are typed, and so is what is left of them.
LEMMA ParseTyped ==
  ASSUME OptionsInv
  PROVE  /\ argv \in Seq(Word) /\ Len(argv) \in Nat /\ optind \in 1..(Len(argv) + 1)
         /\ nextchar \in Seq(STRING)
         /\ Meaning(argv, build) \in ReadType
         /\ LeftAt(argv, nextchar, optind, build) \in ReadType
         /\ build \in {"windows", "gnu"} /\ skipped \in Seq(Word)
<1>1. /\ argv \in Seq(Word) /\ Len(argv) \in Nat /\ optind \in 1..(Len(argv) + 1)
      /\ nextchar \in Seq(STRING)
  BY WordsTyped DEF OptionsInv, TypeOK
<1>2. nextchar # <<>> => optind <= Len(argv)
  BY DEF OptionsInv, ClusterIsCurrent
<1>3. LeftAt(argv, nextchar, optind, build) \in ReadType
  BY <1>1, <1>2, LeftTyped
<1>4. 1 \in 1..(Len(argv) + 2)
  BY <1>1
<1>5. Meaning(argv, build) \in ReadType
  BY <1>1, <1>4, ReadingTyped DEF Meaning
<1> QED
  BY <1>1, <1>3, <1>5 DEF OptionsInv, TypeOK

\* The first of what is left has been applied: the next item is handled, or
\* the program ends as it should.
LEMMA OneMore ==
  ASSUME OptionsInv, Parsing, Underway,
         NEW x \in ItemType, NEW rest \in ReadType,
         LeftAt(argv, nextchar, optind, build) = Ahead(<<x>>, rest),
         argv # <<>>, Applied(x),
         x.option \notin Ending => rest = LeftAt(argv, nextchar', optind', build)
  PROVE  (Parsing => Underway)' /\ ParsesAsMeant'
<1>a. PICK m : m = Meaning(argv, build)
  OBVIOUS
<1>b. PICK left : left = LeftAt(argv, nextchar, optind, build)
  OBVIOUS
<1>1. m \in ReadType /\ m.items \in Seq(ItemType) /\ Len(m.items) \in Nat
  <2>1. m \in ReadType
    BY <1>a, ParseTyped
  <2> QED
    BY <2>1 DEF ReadType
<1>2. rest.items \in Seq(ItemType)
  BY DEF ReadType
<1>3. left.items = <<x>> \o rest.items /\ left.free = rest.free
  BY <1>b DEF Ahead
<1>4. PICK n : Handled(m, left, n)
  BY <1>a, <1>b DEF Underway
<1>5. m.free = skipped \o left.free /\ (build # "gnu" => skipped = <<>>)
  BY <1>a, <1>b DEF Underway
<1>6. build' = build /\ argv' = argv /\ skipped' = skipped
  BY DEF Applied
<1>7. n + 1 \in 1..Len(m.items) /\ m.items[n + 1] = x /\ From(m.items, n + 1 + 1) = rest.items
  <2>1. n \in 0..Len(m.items) /\ From(m.items, n + 1) = <<x>> \o rest.items
    BY <1>3, <1>4 DEF Handled
  <2>2. ASSUME NEW s \in Seq(ItemType), NEW t \in Seq(ItemType), n \in 0..Len(s),
               From(s, n + 1) = <<x>> \o t
        PROVE  n + 1 \in 1..Len(s) /\ s[n + 1] = x /\ From(s, n + 1 + 1) = t
    BY <2>2, FromNext
  <2> QED
    BY <1>1, <1>2, <2>1, <2>2
<1>8. n \in Nat /\ \A k \in 1..n : m.items[k].option \notin Ending
  BY <1>4, <1>1 DEF Handled
<1>9. config = Settings(m.items, n)
  BY <1>4 DEF Handled
<1>10. outcome = "parsing"
  BY DEF Parsing
<1>11. CASE x.option \in Ending
  <2>1. config' = config
    BY <1>11 DEF Applied, Ending, Setting
  <2>2. outcome' = IF x.option = "v" THEN "version" ELSE "usage"
    BY <1>11 DEF Applied, Ending
  <2>3. Stop(m.items) = n + 1
    <3>1. n \in 0..Len(m.items)
      BY <1>4 DEF Handled
    <3> QED
      BY <1>1, <1>7, <1>8, <1>11, <3>1, StopIs
  <2>4. ~(n + 1 > Len(m.items)) /\ n + 1 - 1 = n
    BY <1>1, <1>7, <1>8
  <2>7. outcome' # "parsing" /\ outcome' # "parsed"
    BY <2>2
  <2>8. ParsesAsMeant'
    <3>1. Meaning(argv', build') = m
      BY <1>6, <1>a
    <3>2. outcome' = IF argv' = <<>> THEN "usage"
                     ELSE IF Stop(m.items) > Len(m.items) THEN "parsed"
                     ELSE IF m.items[Stop(m.items)].option = "v" THEN "version"
                     ELSE "usage"
      BY <1>6, <1>7, <2>2, <2>3, <2>4
    <3>3. config' = Settings(m.items, Stop(m.items) - 1)
      <4>1. Stop(m.items) - 1 = n
        BY <1>8, <2>3
      <4> QED
        BY <1>9, <2>1, <4>1
    <3> DEFINE M == Meaning(argv', build')
    <3>4. /\ outcome' = IF argv' = <<>> THEN "usage"
                        ELSE IF Stop(M.items) > Len(M.items) THEN "parsed"
                        ELSE IF M.items[Stop(M.items)].option = "v" THEN "version"
                        ELSE "usage"
          /\ config' = Settings(M.items, Stop(M.items) - 1)
          /\ outcome' # "parsed"
      BY <2>7, <3>1, <3>2, <3>3
    <3> QED
      BY <3>4 DEF ParsesAsMeant
  <2> QED
    BY <2>7, <2>8 DEF Parsing
<1>12. CASE x.option \notin Ending
  <2>1. outcome' = "parsing"
    BY <1>10, <1>12 DEF Applied, Ending
  <2>2. config' = Settings(m.items, n + 1)
    <3>1. Settings(m.items, n + 1) =
            [o \in Setting |-> IF m.items[n + 1].option = o THEN m.items[n + 1].value
                               ELSE Settings(m.items, n)[o]]
      BY <1>8, SettingsNext
    <3>2. Settings(m.items, n + 1) =
            [o \in Setting |-> IF x.option = o THEN x.value ELSE config[o]]
      BY <1>7, <1>9, <3>1
    <3>3. DOMAIN config = Setting /\ config = [o \in Setting |-> config[o]]
      BY <1>9 DEF Settings
    <3>4. config' = IF x.option \in Setting THEN [config EXCEPT ![x.option] = x.value] ELSE config
      BY DEF Applied
    <3>5. config' = [o \in Setting |-> IF x.option = o THEN x.value ELSE config[o]]
      <4>1. CASE x.option \in Setting
        BY <3>3, <3>4, <4>1
      <4>2. CASE x.option \notin Setting
        <5>1. \A o \in Setting : (IF x.option = o THEN x.value ELSE config[o]) = config[o]
          BY <4>2
        <5> QED
          BY <3>3, <3>4, <4>2, <5>1
      <4> QED
        BY <4>1, <4>2
    <3> QED
      BY <3>2, <3>5
  <2>3. \A k \in 1..(n + 1) : m.items[k].option \notin Ending
    <3>1. \A k \in 1..(n + 1) : k = n + 1 \/ k \in 1..n
      BY <1>8
    <3> QED
      BY <1>7, <1>8, <1>12, <3>1
  <2>4. LeftAt(argv', nextchar', optind', build') = rest
    BY <1>6, <1>12
  <2>5. Meaning(argv', build') = m
    BY <1>6, <1>a
  <2>6. n + 1 \in 0..Len(m.items)
    BY <1>1, <1>7
  <2>7. Handled(m, rest, n + 1)'
    BY <1>7, <2>2, <2>3, <2>6 DEF Handled
  <2>8. Underway'
    BY <1>3, <1>5, <1>6, <2>4, <2>5, <2>7 DEF Underway
  <2> QED
    BY <2>1, <2>8 DEF Parsing, ParsesAsMeant
<1> QED
  BY <1>11, <1>12

\* When nothing is left but free words, these are what is taken for the pid.
LEMMA NoMore ==
  ASSUME OptionsInv, Parsing, Underway, NEW rest, argv # <<>>,
         LeftAt(argv, nextchar, optind, build).items = <<>>,
         rest = skipped \o LeftAt(argv, nextchar, optind, build).free,
         Finish(rest)
  PROVE  (Parsing => Underway)' /\ ParsesAsMeant'
<1>a. PICK m : m = Meaning(argv, build)
  OBVIOUS
<1>b. PICK left : left = LeftAt(argv, nextchar, optind, build)
  OBVIOUS
<1>1. m \in ReadType /\ m.items \in Seq(ItemType) /\ Len(m.items) \in Nat
  <2>1. m \in ReadType
    BY <1>a, ParseTyped
  <2> QED
    BY <2>1 DEF ReadType
<1>2. PICK n : Handled(m, left, n)
  BY <1>a, <1>b DEF Underway
<1>3. m.free = rest
  BY <1>a DEF Underway
<1>4. left.items = <<>>
  BY <1>b
<1>5. n \in 0..Len(m.items) /\ From(m.items, n + 1) = <<>>
  BY <1>2, <1>4 DEF Handled
<1>6. n = Len(m.items)
  <2>1. n + 1 \in 1..(Len(m.items) + 1)
    BY <1>1, <1>5
  <2>2. Len(From(m.items, n + 1)) = Len(m.items) - (n + 1) + 1
    BY <1>1, <2>1, FromTyped
  <2>3. 0 = Len(m.items) - (n + 1) + 1
    BY <1>5, <2>2
  <2> QED
    BY <1>1, <1>5, <2>3
<1>7. \A k \in 1..n : m.items[k].option \notin Ending
  BY <1>2 DEF Handled
<1>8. Stop(m.items) = n + 1
  <2>1. ~(n < Len(m.items))
    BY <1>1, <1>6
  <2> QED
    BY <1>1, <1>5, <1>7, <2>1, StopIs
<1>9. n + 1 > Len(m.items) /\ n + 1 - 1 = n
  BY <1>1, <1>6
<1>10. /\ outcome' = "parsed" /\ pid' = IF rest = <<>> THEN Unset ELSE Head(rest)
       /\ config' = config /\ argv' = argv /\ build' = build
  BY DEF Finish
<1>11. Meaning(argv', build') = m
  BY <1>10, <1>a
<1>12. config' = Settings(m.items, Stop(m.items) - 1)
  BY <1>2, <1>8, <1>9, <1>10 DEF Handled
<1>13. ParsesAsMeant'
  BY <1>3, <1>8, <1>9, <1>10, <1>11, <1>12 DEF ParsesAsMeant
<1> QED
  BY <1>10, <1>13 DEF Parsing

-----------------------------------------------------------------------------
(* The calls of getopt_long, one by one.                                   *)

\* No long option is both a flag and one with a value.
LEMMA FlagOrValued == \A name : ~(IsFlag(name) /\ IsValued(name))
<1> DEFINE Flags  == {"?", "version", "aggregate", "no-parse", "no-lineno", "format-compact",
                      "reverse", "search-system-symbols"}
           Valued == {"hide-thread", "log-level", "binary-path", "symbol-path",
                      "priority-threads", "min-depth", "input", "output", "bfd-threads"}
<1>1. \A name : IsFlag(name) => name \in Flags
  BY DEF IsFlag, LongFlags
<1>2. \A name : IsValued(name) => name \in Valued
  BY DEF IsValued, LongValued
<1>3. \A name : ~(name \in Flags /\ name \in Valued)
  OBVIOUS
<1> QED
  BY <1>1, <1>2, <1>3

\* The word behind the word i.
LEMMA NextWord ==
  ASSUME NEW words \in Seq(Word), NEW i \in 1..Len(words)
  PROVE  /\ i < Len(words) => /\ From(words, i + 1) # <<>>
                              /\ Head(From(words, i + 1)) = words[i + 1]
         /\ ~(i < Len(words)) => From(words, i + 1) = <<>>
<1> DEFINE u == From(words, i + 1)
<1>1. Len(words) \in Nat /\ i + 1 \in 1..(Len(words) + 1)
  OBVIOUS
<1>2. /\ u \in Seq(Word) /\ Len(u) = Len(words) - (i + 1) + 1
      /\ \A k \in 1..(Len(words) - (i + 1) + 1) : u[k] = words[i + 1 + k - 1]
  BY <1>1, FromTyped
<1> HIDE DEF u
<1>3. ASSUME i < Len(words) PROVE u # <<>> /\ Head(u) = words[i + 1]
  <2>1. 1 \in 1..(Len(words) - (i + 1) + 1) /\ i + 1 + 1 - 1 = i + 1
    BY <1>1, <1>3
  <2>2. u[1] = words[i + 1]
    BY <1>2, <2>1
  <2>3. Len(u) # 0
    BY <1>2, <2>1
  <2> QED
    BY <1>2, <2>2, <2>3
<1>4. ASSUME ~(i < Len(words)) PROVE u = <<>>
  <2>1. Len(words) - (i + 1) + 1 = 0
    BY <1>1, <1>4
  <2> QED
    BY <1>2, <2>1
<1> QED
  BY <1>3, <1>4 DEF u

\* What is left when a word is to be read.
LEMMA AtWordLeft ==
  ASSUME OptionsInv, NEW k, AtWord(k)
  PROVE  /\ Parsing /\ argv # <<>> /\ nextchar = <<>> /\ argv[optind].kind = k
         /\ optind \in 1..Len(argv) /\ optind \in Nat
         /\ LeftAt(argv, nextchar, optind, build) = Reading(argv, build)[optind]
<1>1. optind \in 1..(Len(argv) + 1) /\ argv \in Seq(Word) /\ Len(argv) \in Nat
  BY ParseTyped
<1>2. Parsing /\ nextchar = <<>> /\ optind <= Len(argv) /\ argv[optind].kind = k
  BY DEF AtWord
<1>3. optind \in 1..Len(argv) /\ argv # <<>>
  BY <1>1, <1>2
<1> QED
  BY <1>2, <1>3 DEF LeftAt

\* Where the parsing ends, nothing but free words is left.
LEMMA FreeWords ==
  ASSUME OptionsInv, Parsing, Underway,
         EndOfWords \/ EndMarker \/ NonOption
  PROVE  (Parsing => Underway)' /\ ParsesAsMeant'
<1>0. argv \in Seq(Word) /\ Len(argv) \in Nat /\ optind \in 1..(Len(argv) + 1) /\ skipped \in Seq(Word)
  BY ParseTyped
<1> DEFINE left == LeftAt(argv, nextchar, optind, build)
<1>1. CASE EndOfWords
  <2>1. nextchar = <<>> /\ argv # <<>> /\ optind = Len(argv) + 1 /\ Finish(skipped)
    BY <1>0, <1>1 DEF EndOfWords
  <2>2. left = Nothing
    BY <1>0, <2>1, NothingLeft DEF LeftAt
  <2>3. left.items = <<>> /\ left.free = <<>>
    BY <2>2 DEF Nothing
  <2>4. skipped = skipped \o left.free
    BY <1>0, <2>3, ConcatEmptySeq
  <2> QED
    BY <2>1, <2>3, <2>4, NoMore
<1>2. CASE EndMarker
  <2>1. AtWord("end") /\ Finish(skipped \o From(argv, optind + 1))
    BY <1>2 DEF EndMarker, Rest
  <2>2. argv # <<>> /\ argv[optind].kind = "end" /\ optind \in 1..Len(argv)
        /\ left = Reading(argv, build)[optind]
    BY <2>1, AtWordLeft
  <2>3. left = [items |-> <<>>, free |-> From(argv, optind + 1)]
    BY <1>0, <2>2, WordLeft
  <2>4. left.items = <<>> /\ left.free = From(argv, optind + 1)
    BY <2>3
  <2> QED
    BY <2>1, <2>2, <2>4, NoMore
<1>3. CASE NonOption
  <2>1. AtWord("plain") /\ build = "windows" /\ Finish(From(argv, optind))
    BY <1>3 DEF NonOption, Rest
  <2>2. argv # <<>> /\ argv[optind].kind = "plain" /\ optind \in 1..Len(argv)
        /\ left = Reading(argv, build)[optind]
    BY <2>1, AtWordLeft
  <2>3. left = [items |-> <<>>, free |-> From(argv, optind)]
    BY <1>0, <2>1, <2>2, WordLeft
  <2>4. left.items = <<>> /\ left.free = From(argv, optind)
    BY <2>3
  <2>5. From(argv, optind) = skipped \o left.free
    <3>1. skipped = <<>>
      BY <2>1 DEF Underway
    <3>2. From(argv, optind) \in Seq(Word)
      BY <1>0, FromTyped
    <3> QED
      BY <2>4, <3>1, <3>2, ConcatEmptySeq
  <2> QED
    BY <2>1, <2>2, <2>4, <2>5, NoMore
<1> QED
  BY <1>1, <1>2, <1>3

\* A free word is moved to those that were free before it.
LEMMA FreeWordMoved ==
  ASSUME OptionsInv, Parsing, Underway, Permute
  PROVE  (Parsing => Underway)' /\ ParsesAsMeant'
<1>0. argv \in Seq(Word) /\ Len(argv) \in Nat /\ skipped \in Seq(Word)
  BY ParseTyped
<1>1. /\ AtWord("plain") /\ build = "gnu" /\ skipped' = Append(skipped, argv[optind])
      /\ optind' = optind + 1 /\ UNCHANGED <<build, argv, nextchar, config, outcome>>
  BY DEF Permute
<1>2. /\ nextchar = <<>> /\ argv[optind].kind = "plain"
      /\ optind \in 1..Len(argv) /\ optind \in Nat
      /\ LeftAt(argv, nextchar, optind, build) = Reading(argv, build)[optind]
  BY <1>1, AtWordLeft
<1>a. PICK m : m = Meaning(argv, build)
  OBVIOUS
<1>b. PICK left : left = LeftAt(argv, nextchar, optind, build)
  OBVIOUS
<1>c. PICK rest : rest = Reading(argv, build)[optind + 1]
  OBVIOUS
<1>3. left = [items |-> rest.items, free |-> <<argv[optind]>> \o rest.free]
  BY <1>0, <1>1, <1>2, <1>b, <1>c, WordLeft
<1>4. rest \in ReadType /\ rest.free \in Seq(Word)
  <2>1. optind + 1 \in 1..(Len(argv) + 2)
    BY <1>0, <1>2
  <2>2. rest \in ReadType
    BY <1>0, <1>c, <2>1, ReadingTyped
  <2> QED
    BY <2>2 DEF ReadType
<1>5. PICK n : Handled(m, left, n)
  BY <1>a, <1>b DEF Underway
<1>6. Handled(m, rest, n)'
  BY <1>1, <1>3, <1>5 DEF Handled
<1>7. m.free = skipped' \o rest.free
  <2>1. m.free = skipped \o left.free
    BY <1>a, <1>b DEF Underway
  <2>2. PICK one : one = <<argv[optind]>>
    OBVIOUS
  <2>3. left.free = one \o rest.free
    BY <1>3, <2>2
  <2>4. argv[optind] \in Word
    BY <1>0, <1>2
  <2>5. one \in Seq(Word) /\ skipped \o one = Append(skipped, argv[optind])
    BY <1>0, <2>2, <2>4
  <2>6. \A s, t, u \in Seq(Word) : (s \o t) \o u = s \o (t \o u)
    BY ConcatAssociative
  <2>7. skipped \o (one \o rest.free) = (skipped \o one) \o rest.free
    BY <1>0, <1>4, <2>5, <2>6
  <2> QED
    BY <1>1, <2>1, <2>3, <2>5, <2>7
<1>8. LeftAt(argv', nextchar', optind', build') = rest /\ Meaning(argv', build') = m
  BY <1>1, <1>2, <1>a, <1>c DEF LeftAt
<1>9. Underway'
  BY <1>1, <1>6, <1>7, <1>8 DEF Underway
<1> QED
  BY <1>1, <1>9 DEF Parsing, ParsesAsMeant

\* A long option, with its value in the word or in the next one.
LEMMA LongOptions ==
  ASSUME OptionsInv, Parsing, Underway,
         LongRefused \/ LongFlag \/ LongWithValue \/ LongTakesNext
  PROVE  (Parsing => Underway)' /\ ParsesAsMeant'
<1> DEFINE w == argv[optind]
           next == From(argv, optind + 1)
           x == LongItem(w, next)
           R == Reading(argv, build)
           left == LeftAt(argv, nextchar, optind, build)
           rest == R[Following(w, optind)]
<1>0. argv \in Seq(Word) /\ Len(argv) \in Nat
  BY ParseTyped
<1>1. AtWord("long")
  BY DEF LongRefused, LongFlag, LongWithValue, LongTakesNext
<1>2. /\ argv # <<>> /\ nextchar = <<>> /\ w.kind = "long" /\ optind \in 1..Len(argv)
      /\ left = R[optind]
  BY <1>1, AtWordLeft
<1>3. x \in ItemType /\ left = Ahead(<<x>>, rest) /\ rest \in ReadType
  BY <1>0, <1>2, WordLeft
<1>4. More => next # <<>> /\ Head(next) = argv[optind + 1]
  BY <1>0, <1>2, NextWord DEF More
<1>5. ~More => next = <<>>
  BY <1>0, <1>2, NextWord DEF More
<1>6. ~(IsFlag(w.name) /\ IsValued(w.name))
  BY FlagOrValued
<1>7. Following(w, optind) = IF IsValued(w.name) /\ w.value = NoText THEN optind + 2 ELSE optind + 1
  BY <1>2 DEF Following, TakesNext
<1>8. x = CASE IsFlag(w.name) /\ w.value = NoText                  -> Item(ValOf(w.name), Given)
            [] IsValued(w.name) /\ w.value # NoText                -> Item(ValOf(w.name), w.value)
            [] IsValued(w.name) /\ w.value = NoText /\ next # <<>> -> Item(ValOf(w.name), Head(next))
            [] OTHER                                               -> Wrong
  BY DEF LongItem
<1> HIDE DEF x, w, next
<1>9. CASE LongRefused
  <2>1. \/ ~IsFlag(w.name) /\ ~IsValued(w.name)
        \/ IsFlag(w.name) /\ w.value # NoText
        \/ IsValued(w.name) /\ w.value = NoText /\ ~More
    BY <1>9 DEF LongRefused, w
  <2>2. x = Wrong
    BY <1>5, <1>6, <1>8, <2>1
  <2>3. Applied(x)
    BY <1>9, <2>2, Applying DEF LongRefused
  <2>4. x.option \in Ending
    BY <2>2 DEF Wrong, Item, Ending
  <2> HIDE DEF rest, left
  <2> QED
    BY <1>2, <1>3, <2>3, <2>4, OneMore DEF left
<1>10. CASE LongFlag \/ LongWithValue \/ LongTakesNext
  <2>1. Applied(x) /\ optind' = Following(w, optind) /\ nextchar' = nextchar
    <3>1. CASE LongFlag
      <4>1. IsFlag(w.name) /\ w.value = NoText /\ Apply(ValOf(w.name), Given)
        BY <3>1 DEF LongFlag, w
      <4>2. x = Item(ValOf(w.name), Given)
        BY <1>6, <1>8, <4>1
      <4> QED
        BY <1>6, <1>7, <3>1, <4>1, <4>2, Applying DEF LongFlag
    <3>2. CASE LongWithValue
      <4>1. IsValued(w.name) /\ w.value # NoText /\ Apply(ValOf(w.name), w.value)
        BY <3>2 DEF LongWithValue, w
      <4>2. x = Item(ValOf(w.name), w.value)
        BY <1>6, <1>8, <4>1
      <4> QED
        BY <1>7, <3>2, <4>1, <4>2, Applying DEF LongWithValue
    <3>3. CASE LongTakesNext
      <4>1. /\ More /\ IsValued(w.name) /\ w.value = NoText
            /\ Apply(ValOf(w.name), argv[optind + 1])
        BY <3>3 DEF LongTakesNext, w
      <4>2. x = Item(ValOf(w.name), argv[optind + 1])
        BY <1>4, <1>6, <1>8, <4>1
      <4> QED
        BY <1>7, <3>3, <4>1, <4>2, Applying DEF LongTakesNext
    <3> QED
      BY <1>10, <3>1, <3>2, <3>3
  <2>2. rest = LeftAt(argv, nextchar', optind', build)
    BY <1>2, <2>1 DEF LeftAt
  <2> HIDE DEF rest, left
  <2> QED
    BY <1>2, <1>3, <2>1, <2>2, OneMore DEF left
<1> QED
  BY <1>9, <1>10

\* What is left in a cluster begins with its next letter.
LEMMA ClusterLeft ==
  ASSUME OptionsInv, InCluster
  PROVE  /\ argv # <<>> /\ optind \in 1..Len(argv)
         /\ Letters \in Seq(STRING) \ {<<>>} /\ Behind \in Seq(STRING)
         /\ LeftAt(argv, nextchar, optind, build) = LettersAt(argv, Letters, optind, build)
<1>0. argv \in Seq(Word) /\ Len(argv) \in Nat
  BY ParseTyped
<1>1. optind \in 1..Len(argv) /\ Letters \in Seq(STRING) \ {<<>>}
  BY CurrentLetters
<1>2. Behind \in Seq(STRING)
  BY <1>1 DEF Behind
<1>3. LeftAt(argv, nextchar, optind, build) = LettersAt(argv, Letters, optind, build)
  <2>1. CASE nextchar # <<>>
    BY <2>1 DEF LeftAt, Letters
  <2>2. CASE nextchar = <<>>
    <3>1. AtWord("cluster")
      BY <2>2 DEF InCluster
    <3>2. /\ argv[optind].kind = "cluster"
          /\ LeftAt(argv, nextchar, optind, build) = Reading(argv, build)[optind]
      BY <3>1, AtWordLeft
    <3>3. Reading(argv, build)[optind] = LettersAt(argv, argv[optind].letters, optind, build)
      BY <1>0, <1>1, <3>2, WordLeft
    <3> QED
      BY <2>2, <3>2, <3>3 DEF Letters
  <2> QED
    BY <2>1, <2>2
<1> QED
  BY <1>0, <1>1, <1>2, <1>3

\* A letter of a cluster, with its value behind it or in the next word.
LEMMA ShortOptions ==
  ASSUME OptionsInv, Parsing, Underway,
         ShortUnknown \/ ShortFlag \/ ShortWithRest \/ ShortTakesNext \/ ShortMissing
  PROVE  (Parsing => Underway)' /\ ParsesAsMeant'
<1> DEFINE next == From(argv, optind + 1)
           x == LetterItem(Letters, 1, next)
           R == Reading(argv, build)
           left == LeftAt(argv, nextchar, optind, build)
<1>0. argv \in Seq(Word) /\ Len(argv) \in Nat
  BY ParseTyped
<1>1. InCluster
  BY DEF ShortUnknown, ShortFlag, ShortWithRest, ShortTakesNext, ShortMissing
<1>2. /\ argv # <<>> /\ optind \in 1..Len(argv)
      /\ Letters \in Seq(STRING) \ {<<>>} /\ Behind \in Seq(STRING)
      /\ left = LettersAt(argv, Letters, optind, build)
  BY <1>1, ClusterLeft
<1>3. /\ x \in ItemType
      /\ Letter \notin ShortValued =>
           left = Ahead(<<x>>, LeftAt(argv, Behind, IF Behind = <<>> THEN optind + 1 ELSE optind, build))
      /\ Letter \in ShortValued =>
           left = Ahead(<<x>>, IF Behind = <<>> THEN R[optind + 2] ELSE R[optind + 1])
  BY <1>0, <1>2, LetterLeft DEF Letter, Behind
<1>4. R[optind + 1] \in ReadType /\ R[optind + 2] \in ReadType
  <2>1. optind + 1 \in 1..(Len(argv) + 2) /\ optind + 2 \in 1..(Len(argv) + 2)
    BY <1>0, <1>2
  <2> QED
    BY <1>0, <2>1, ReadingTyped
<1>5. LeftAt(argv, Behind, IF Behind = <<>> THEN optind + 1 ELSE optind, build) \in ReadType
  <2>1. /\ (IF Behind = <<>> THEN optind + 1 ELSE optind) \in 1..(Len(argv) + 1)
        /\ Behind # <<>> => (IF Behind = <<>> THEN optind + 1 ELSE optind) <= Len(argv)
    BY <1>0, <1>2
  <2> QED
    BY <1>0, <1>2, <2>1, LeftTyped
<1>6. /\ Letters[1] = Letter
      /\ (1 < Len(Letters) <=> Behind # <<>>)
      /\ From(Letters, 1 + 1) = Behind
  <2>1. /\ Tail(Letters) \in Seq(STRING) /\ Len(Letters) \in Nat \ {0}
        /\ Len(Tail(Letters)) = Len(Letters) - 1
        /\ From(Letters, 2) = Tail(Letters) /\ Head(Letters) = Letters[1]
    BY <1>2, TailAt
  <2>2. \A s \in Seq(STRING) : s = <<>> <=> Len(s) = 0
    OBVIOUS
  <2>3. Tail(Letters) = <<>> <=> Len(Letters) - 1 = 0
    BY <2>1, <2>2
  <2>4. 1 < Len(Letters) <=> Tail(Letters) # <<>>
    BY <2>1, <2>3
  <2>5. 1 + 1 = 2
    OBVIOUS
  <2> QED
    BY <2>1, <2>4, <2>5 DEF Letter, Behind
<1>7. x = IF Letter \notin Short THEN Wrong
          ELSE IF Letter \notin ShortValued THEN Item(Letter, Given)
          ELSE IF Behind # <<>> THEN Item(Letter, Attached(Behind))
          ELSE IF next # <<>> THEN Item(Letter, Head(next))
          ELSE Wrong
  BY <1>6 DEF LetterItem
<1>8. More => next # <<>> /\ Head(next) = argv[optind + 1]
  BY <1>0, <1>2, NextWord DEF More
<1>9. ~More => next = <<>>
  BY <1>0, <1>2, NextWord DEF More
<1>a. Wrong.option \in Ending
  BY DEF Wrong, Item, Ending
<1>b. ShortValued \subseteq Short
  BY DEF Short
<1> HIDE DEF x, next
<1>10. CASE ShortUnknown \/ ShortFlag
  <2> DEFINE i == IF Behind = <<>> THEN optind + 1 ELSE optind
  <2>1. Letter \notin ShortValued /\ nextchar' = Behind /\ optind' = i
    BY <1>10, <1>b DEF ShortUnknown, ShortFlag, NextLetter
  <2>2. Applied(x)
    <3>1. CASE ShortUnknown
      BY <1>7, <3>1, Applying DEF ShortUnknown
    <3>2. CASE ShortFlag
      BY <1>7, <3>2, Applying DEF ShortFlag
    <3> QED
      BY <1>10, <3>1, <3>2
  <2>3. PICK rest : rest = LeftAt(argv, Behind, i, build)
    OBVIOUS
  <2>4. rest \in ReadType /\ left = Ahead(<<x>>, rest) /\ rest = LeftAt(argv, nextchar', optind', build)
    BY <1>3, <1>5, <2>1, <2>3
  <2> QED
    BY <1>2, <1>3, <2>2, <2>4, OneMore
<1>11. CASE ShortWithRest
  <2>1. /\ Letter \in ShortValued /\ Behind # <<>> /\ nextchar' = <<>> /\ optind' = optind + 1
        /\ Apply(Letter, Attached(Behind))
    BY <1>11 DEF ShortWithRest
  <2>2. Applied(x)
    BY <1>7, <1>b, <2>1, Applying
  <2>3. PICK rest : rest = R[optind + 1]
    OBVIOUS
  <2>4. rest \in ReadType /\ left = Ahead(<<x>>, rest) /\ rest = LeftAt(argv, nextchar', optind', build)
    BY <1>3, <1>4, <2>1, <2>3 DEF LeftAt
  <2> QED
    BY <1>2, <1>3, <2>2, <2>4, OneMore
<1>12. CASE ShortTakesNext \/ ShortMissing
  <2>1. Letter \in ShortValued /\ Behind = <<>> /\ nextchar' = <<>>
    BY <1>12 DEF ShortTakesNext, ShortMissing
  <2>2. Applied(x)
    <3>1. CASE ShortTakesNext
      <4>1. More /\ Apply(Letter, argv[optind + 1])
        BY <3>1 DEF ShortTakesNext
      <4>2. x = Item(Letter, argv[optind + 1])
        BY <1>7, <1>8, <1>b, <2>1, <4>1
      <4> QED
        BY <4>1, <4>2, Applying
    <3>2. CASE ShortMissing
      <4>1. ~More /\ Usage
        BY <3>2 DEF ShortMissing
      <4>2. x = Wrong
        BY <1>7, <1>9, <1>b, <2>1, <4>1
      <4> QED
        BY <4>1, <4>2, Applying
    <3> QED
      BY <1>12, <3>1, <3>2
  <2>3. x.option \notin Ending => optind' = optind + 2
    <3>1. CASE ShortTakesNext
      BY <3>1 DEF ShortTakesNext
    <3>2. CASE ShortMissing
      <4>1. ~More
        BY <3>2 DEF ShortMissing
      <4>2. x = Wrong
        BY <1>7, <1>9, <1>b, <2>1, <4>1
      <4> QED
        BY <1>a, <4>2
    <3> QED
      BY <1>12, <3>1, <3>2
  <2>4. PICK rest : rest = R[optind + 2]
    OBVIOUS
  <2>5. /\ rest \in ReadType /\ left = Ahead(<<x>>, rest)
        /\ x.option \notin Ending => rest = LeftAt(argv, nextchar', optind', build)
    BY <1>3, <1>4, <2>1, <2>3, <2>4 DEF LeftAt
  <2> QED
    BY <1>2, <1>3, <2>2, <2>5, OneMore
<1> QED
  BY <1>10, <1>11, <1>12

-----------------------------------------------------------------------------
\* At the start nothing has been handled, and all the words are left.
LEMMA ParseInit == Init => ParseInv
<1> SUFFICES ASSUME Init PROVE ParseInv
  OBVIOUS
<1>1. OptionsInv
  BY OptionsInit
<1>a. PICK m : m = Meaning(argv, build)
  OBVIOUS
<1>2. m \in ReadType /\ m.items \in Seq(ItemType) /\ m.free \in Seq(Word)
  <2>1. m \in ReadType
    BY <1>1, <1>a, ParseTyped
  <2> QED
    BY <2>1 DEF ReadType
<1>3. nextchar = <<>> /\ optind = 1 /\ skipped = <<>> /\ Parsing
      /\ config = [o \in Setting |-> Unset]
  BY DEF Init, Parsing
<1>4. LeftAt(argv, nextchar, optind, build) = m
  BY <1>3, <1>a DEF LeftAt, Meaning
<1>5. m.items = From(m.items, 0 + 1)
  <2>1. \A s \in Seq(ItemType) : s = SubSeq(s, 1, Len(s))
    OBVIOUS
  <2>2. 0 + 1 = 1
    OBVIOUS
  <2> QED
    BY <1>2, <2>1, <2>2 DEF From
<1>6. config = Settings(m.items, 0)
  BY <1>3, SettingsNone
<1>7. 0 \in 0..Len(m.items) /\ 1..0 = {}
  BY <1>2
<1>8. Handled(m, m, 0)
  BY <1>5, <1>6, <1>7 DEF Handled
<1>9. m.free = skipped \o m.free
  BY <1>2, <1>3, ConcatEmptySeq
<1>10. Underway
  BY <1>3, <1>4, <1>8, <1>9, <1>a DEF Underway
<1> QED
  BY <1>1, <1>3, <1>10 DEF ParseInv, ParsesAsMeant

\* Without any word there is nothing to handle but the usage text.
LEMMA WithoutWords ==
  ASSUME OptionsInv, Parsing, Underway, NoWords
  PROVE  (Parsing => Underway)' /\ ParsesAsMeant'
<1>1. /\ argv = <<>> /\ outcome' = "usage"
      /\ config' = config /\ argv' = argv /\ build' = build
  BY DEF NoWords, Usage
<1>a. PICK m : m = Meaning(argv, build)
  OBVIOUS
<1>2. m = Nothing
  <2>1. argv \in Seq(Word) /\ Len(argv) + 1 = 1
    BY <1>1, ParseTyped
  <2> QED
    BY <2>1, <1>a, NothingLeft DEF Meaning
<1>3. m.items = <<>> /\ Len(m.items) = 0
  BY <1>2 DEF Nothing
<1>4. PICK n : Handled(m, LeftAt(argv, nextchar, optind, build), n)
  BY <1>a DEF Underway
<1>5. n = 0 /\ config = Settings(m.items, 0)
  BY <1>3, <1>4 DEF Handled
<1>6. Stop(m.items) = 0 + 1
  <2>1. Len(m.items) \in Nat /\ 0 \in 0..Len(m.items) /\ ~(0 < Len(m.items)) /\ 1..0 = {}
    BY <1>3
  <2> QED
    BY <2>1, StopIs
<1>7. config' = Settings(m.items, Stop(m.items) - 1)
  <2>1. Stop(m.items) - 1 = 0
    BY <1>6
  <2> QED
    BY <1>1, <1>5, <2>1
<1>8. Meaning(argv', build') = m
  BY <1>1, <1>a
<1>9. ParsesAsMeant'
  BY <1>1, <1>7, <1>8 DEF ParsesAsMeant
<1> QED
  BY <1>1, <1>9 DEF Parsing

\* Each call of getopt_long handles the next item, or ends the parsing.
LEMMA ParseStep == ParseInv /\ [Next]_vars => ParseInv'
<1> SUFFICES ASSUME ParseInv, [Next]_vars PROVE ParseInv'
  OBVIOUS
<1>1. OptionsInv'
  BY OptionsStep DEF ParseInv
<1>2. CASE UNCHANGED vars
  <2>1. ParsesAsMeant' /\ (Parsing => Underway)'
    BY <1>2 DEF vars, ParseInv, Parsing, Underway, Handled, ParsesAsMeant
  <2> QED
    BY <1>1, <2>1 DEF ParseInv
<1>3. CASE Next
  <2>1. OptionsInv /\ (Parsing => Underway)
    BY DEF ParseInv
  <2>2. Parsing
    BY <1>3 DEF Next, NoWords, EndOfWords, EndMarker, NonOption, Permute, LongRefused,
                LongFlag, LongWithValue, LongTakesNext, ShortUnknown, ShortFlag,
                ShortWithRest, ShortTakesNext, ShortMissing, AtWord, InCluster
  <2>3. (Parsing => Underway)' /\ ParsesAsMeant'
    BY <1>3, <2>1, <2>2, WithoutWords, FreeWords, FreeWordMoved, LongOptions, ShortOptions DEF Next
  <2> QED
    BY <1>1, <2>3 DEF ParseInv
<1> QED
  BY <1>2, <1>3

\* get_options comes to what the words of the command line mean, in both
\* builds: the same end of the program, the same options, the same pid.
THEOREM ParsedAsMeant == Spec => []ParsesAsMeant
<1>1. ParseInv => ParsesAsMeant
  BY DEF ParseInv
<1> QED
  BY <1>1, ParseInit, ParseStep, PTL DEF Spec

=============================================================================
