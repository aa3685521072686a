---------------------------- MODULE ReportProofs -----------------------------
(***************************************************************************)
(* The report, for captures of any number of threads, all options and any  *)
(* set of matching threads: PriorityFirst, SortedWithinPart and the lemmas *)
(* for EachDeepThreadOnce, of which OutputProofs makes a theorem.          *)
(*                                                                         *)
(* PriorityFirst is not inductive: what was printed must be tied to the    *)
(* part it was printed in, the entries still to come to the part that is   *)
(* being printed, and the parts to each other.  Nor is EachDeepThreadOnce, *)
(* which speaks of the end: at any time a thread is waiting, and not       *)
(* printed, or it has been dealt with.                                     *)
(***************************************************************************)
EXTENDS Output, FiniteSetTheorems, TLAPS

\* An entry of matching threads only, or of others only.
Belongs(e, part) ==
  /\ e # {}
  /\ part = "included" => e \subseteq included
  /\ part = "excluded" => e \cap included = {}

\* out is a sequence, whatever of; nothing is in it before the first part.
Printed ==
  /\ \E S : out \in Seq(S)
  /\ phase \in {"reading", "start", "failed"} => out = <<>>

\* A live capture has two parts; what is to come and what was printed belongs
\* to one of them.
InParts ==
  /\ phase \in {"reading", "start", "failed", "included", "excluded", "done"}
  /\ phase \in {"included", "excluded"} => \A e \in left : Belongs(e, phase)
  /\ \A i \in DOMAIN out : /\ out[i].part \in {"included", "excluded"}
                           /\ Belongs(out[i].threads, out[i].part)

\* Nothing of the first part comes after something of the second.
PartsInOrder ==
  /\ phase = "included" => \A i \in DOMAIN out : out[i].part = "included"
  /\ \A i, j \in DOMAIN out :
       i < j /\ out[i].part = "excluded" => out[j].part = "excluded"

PartsInv == mode = "live" => Printed /\ InParts /\ PartsInOrder

-----------------------------------------------------------------------------
\* Appending to a sequence of anything.
LEMMA AppendAny ==
  ASSUME NEW S, NEW s \in Seq(S), NEW x
  PROVE  /\ Append(s, x) \in Seq(S \cup {x})
         /\ DOMAIN s = 1..Len(s) /\ Len(s) \in Nat
         /\ DOMAIN Append(s, x) = 1..(Len(s) + 1)
         /\ \A i \in 1..Len(s) : Append(s, x)[i] = s[i]
         /\ Append(s, x)[Len(s) + 1] = x
<1>1. s \in Seq(S \cup {x})
  OBVIOUS
<1> QED BY <1>1

\* Entries of a part have threads, and threads of the part only.
LEMMA EntriesOfPart ==
  ASSUME NEW part, NEW e \in Entries(part)
  PROVE  e # {} /\ e \subseteq part
BY DEF Entries, SameStack

\* Nothing has been printed.
LEMMA PartsInit == Init => PartsInv
<1> SUFFICES ASSUME Init, mode = "live" PROVE Printed /\ InParts /\ PartsInOrder
  BY DEF PartsInv
<1>1. phase = "reading" /\ out = <<>> /\ left = {}
  BY DEF Init, ReportStart
<1>2. out \in Seq({})
  BY <1>1
<1> QED BY <1>1, <1>2 DEF Printed, InParts, PartsInOrder

\* PrintEntry puts an entry of the current part behind those of this part and
\* of the one before.
LEMMA PrintEntryParts ==
  ASSUME PartsInv, mode = "live", PrintEntry
  PROVE  (Printed /\ InParts /\ PartsInOrder)'
<1>1. /\ phase \in {"included", "excluded"}
      /\ UNCHANGED <<bts, mode, priority, phase>>
  BY DEF PrintEntry, PartsInv, InParts, config
<1>2. PICK e \in left :
        /\ left' = left \ {e}
        /\ out' = IF TooShallow(StackOf(e)) THEN out
                  ELSE Append(out, [threads |-> e, frames |-> StackOf(e), part |-> phase])
  BY DEF PrintEntry
<1>3. \A f, p : Belongs(f, p)' <=> Belongs(f, p)
  BY <1>1 DEF Belongs, included
<1>4. Belongs(e, phase)
  BY <1>1 DEF PartsInv, InParts
<1>5. CASE TooShallow(StackOf(e))
  <2>1. out' = out
    BY <1>2, <1>5
  <2> QED BY <1>1, <1>2, <1>3, <2>1 DEF PartsInv, Printed, InParts, PartsInOrder
<1>6. CASE ~TooShallow(StackOf(e))
  <2> DEFINE x == [threads |-> e, frames |-> StackOf(e), part |-> phase]
             n == Len(out)
  <2>1. PICK S : out \in Seq(S)
    BY DEF PartsInv, Printed
  <2>2. out' = Append(out, x)
    BY <1>2, <1>6
  <2>3. /\ out' \in Seq(S \cup {x})
        /\ DOMAIN out = 1..n /\ n \in Nat
        /\ DOMAIN out' = 1..(n + 1)
        /\ \A i \in 1..n : out'[i] = out[i]
        /\ out'[n + 1] = x
    BY <2>1, <2>2, AppendAny
  <2>4. x.threads = e /\ x.part = phase
    OBVIOUS
  <2> HIDE DEF x, n
  <2>5. \A i \in 1..(n + 1) : i \in 1..n \/ i = n + 1
    BY <2>3
  <2>6. Printed'
    BY <1>1, <2>3 DEF Printed
  <2>7. \A i \in DOMAIN out' : /\ out'[i].part \in {"included", "excluded"}
                               /\ Belongs(out'[i].threads, out'[i].part)
    BY <1>1, <1>4, <2>3, <2>4, <2>5 DEF PartsInv, InParts
  <2>8. InParts'
    BY <1>1, <1>2, <1>3, <2>7 DEF PartsInv, InParts
  <2>9. \A i \in DOMAIN out' : phase = "included" => out'[i].part = "included"
    BY <2>3, <2>4, <2>5 DEF PartsInv, PartsInOrder
  <2>10. ASSUME NEW i \in DOMAIN out', NEW j \in DOMAIN out',
                i < j, out'[i].part = "excluded"
         PROVE  out'[j].part = "excluded"
    <3>1. i \in 1..n
      BY <2>3, <2>10
    <3>2. CASE j \in 1..n
      BY <2>3, <2>10, <3>1, <3>2 DEF PartsInv, PartsInOrder
    <3>3. CASE j = n + 1
      <4>1. phase # "included"
        BY <2>9, <2>10
      <4> QED BY <1>1, <2>3, <2>4, <3>3, <4>1
    <3> QED BY <2>3, <2>5, <3>2, <3>3
  <2>11. PartsInOrder'
    BY <1>1, <2>9, <2>10 DEF PartsInOrder
  <2> QED BY <2>6, <2>8, <2>11
<1> QED BY <1>5, <1>6

\* Every step keeps the parts apart.
LEMMA PartsStep == PartsInv /\ [Next]_vars => PartsInv'
<1> SUFFICES ASSUME PartsInv, [Next]_vars, mode' = "live"
             PROVE  (Printed /\ InParts /\ PartsInOrder)'
  BY DEF PartsInv
<1>1. CASE UNCHANGED reportVars
  BY <1>1 DEF reportVars, config, PartsInv, Printed, InParts, PartsInOrder, Belongs, included
<1>2. ASSUME NEW stacks, Reports(stacks) PROVE (Printed /\ InParts /\ PartsInOrder)'
  <2>1. mode = "live" /\ out' = out /\ phase = "reading" /\ phase' = "start"
    BY <1>2 DEF Reports, config
  <2>2. out' = <<>>
    BY <2>1 DEF PartsInv, Printed
  <2>3. out' \in Seq({})
    BY <2>2
  <2> QED BY <2>1, <2>2, <2>3 DEF Printed, InParts, PartsInOrder
<1>3. CASE BfdFails
  BY <1>3 DEF BfdFails, config, PartsInv, Printed, InParts, PartsInOrder
<1>4. CASE Start
  <2>1. /\ mode = "live" /\ UNCHANGED <<bts, priority, out>>
        /\ phase = "start" /\ phase' = "included" /\ left' = Entries(included)
    BY <1>4 DEF Start, config
  <2>2. \A e \in left' : e # {} /\ e \subseteq included
    BY <2>1, EntriesOfPart
  <2>3. \A e \in left' : Belongs(e, "included")'
    BY <2>1, <2>2 DEF Belongs, included
  <2> QED BY <2>1, <2>3 DEF PartsInv, Printed, InParts, PartsInOrder
<1>5. CASE PrintEntry
  <2>1. mode = "live"
    BY <1>5 DEF PrintEntry, config
  <2> QED BY <1>5, <2>1, PrintEntryParts
<1>6. CASE EndPart
  <2>1. mode = "live" /\ UNCHANGED <<bts, priority, out>>
    BY <1>6 DEF EndPart, config
  <2>2. \A f, p : Belongs(f, p)' <=> Belongs(f, p)
    BY <2>1 DEF Belongs, included
  <2>3. CASE phase = "included" /\ phase' = "excluded" /\ left' = Entries(DOMAIN bts \ included)
    <3>1. \A e \in left' : e # {} /\ e \cap included = {}
      BY <2>3, EntriesOfPart
    <3>2. \A e \in left' : Belongs(e, "excluded")'
      BY <2>2, <3>1 DEF Belongs
    <3> QED BY <2>1, <2>2, <2>3, <3>2 DEF PartsInv, Printed, InParts, PartsInOrder
  <2>4. CASE phase \in {"excluded", "all"} /\ phase' = "done"
    BY <2>1, <2>2, <2>4 DEF PartsInv, Printed, InParts, PartsInOrder
  <2> QED BY <1>6, <2>3, <2>4 DEF EndPart
<1>7. UNCHANGED vars => UNCHANGED reportVars
  BY DEF vars
<1> QED BY <1>1, <1>2, <1>3, <1>4, <1>5, <1>6, <1>7
        DEF Next, ReportNext, ReportRestored, ReportCaptured, ReportRead

\* What is printed for the matching threads comes before all others.
LEMMA PartsPrinted == PartsInv => PriorityFirst
<1> SUFFICES ASSUME PartsInv, mode = "live",
                    NEW i \in DOMAIN out, NEW j \in DOMAIN out,
                    out[i].threads \cap included = {}, out[j].threads \cap included # {}
             PROVE  j < i
  BY DEF PriorityFirst
<1>1. PICK S : out \in Seq(S)
  BY DEF PartsInv, Printed
<1>2. i \in Nat /\ j \in Nat
  BY <1>1
<1>3. out[i].part = "excluded" /\ out[j].part = "included"
  BY DEF PartsInv, InParts, Belongs
<1>4. ~(i < j) /\ i # j
  BY <1>3 DEF PartsInv, PartsInOrder
<1> QED BY <1>2, <1>4

\* With --priority-threads the matching threads are printed first, for any
\* number of threads and any set of matching ones.
THEOREM PriorityThreadsFirst == Spec => []PriorityFirst
<1>1. Init => PartsInv
  BY PartsInit
<1>2. PartsInv /\ [Next]_vars => PartsInv'
  BY PartsStep
<1>3. PartsInv => PriorityFirst
  BY PartsPrinted
<1> QED BY <1>1, <1>2, <1>3, PTL DEF Spec

-----------------------------------------------------------------------------
\* Will the thread still come, in an entry of this part or in the next part?
Waiting(t) ==
  \/ phase \in {"reading", "start"}
  \/ phase = "included" /\ t \notin included
  \/ \E e \in left : t \in e

\* Printed once with its stack, or too shallow and not printed.
DealtWith(t) ==
  IF TooShallow(bts[t].frames) THEN Mentions(t) = {}
  ELSE \E i \in DOMAIN out : Mentions(t) = {i} /\ out[i].frames = bts[t].frames

\* An entry to come has threads with one stack, all of the current part.
Entry(e) ==
  /\ e # {} /\ e \subseteq DOMAIN bts
  /\ phase = "included" => e \subseteq included
  /\ \A s, t \in e : bts[s].frames = bts[t].frames

Apart(entries) == \A e, f \in entries : e = f \/ e \cap f = {}

OnceInv ==
  /\ \E S : out \in Seq(S)
  /\ min_depth \in MinDepths
  /\ phase \in {"reading", "start"} => out = <<>> /\ left = {}
  /\ phase = "done" => left = {}
  /\ \A e \in left : Entry(e)
  /\ Apart(left)
  /\ phase # "failed" =>
       \A t \in DOMAIN bts : IF Waiting(t) THEN Mentions(t) = {} ELSE DealtWith(t)

\* A set of natural numbers has a least one: what stands for induction here.
LEMMA LeastNat ==
  ASSUME NEW S \in SUBSET Nat, S # {}
  PROVE  \E x \in S : \A y \in S : x <= y
<1> DEFINE R == OpToRel(<, Nat)
<1>1. IsWellFoundedOn(R, Nat)
  BY NatLessThanWellFounded
<1>2. \A x, y \in Nat : <<y, x>> \in R <=> y < x
  BY DEF OpToRel
<1> HIDE DEF R
<1>3. PICK x \in S : \A y \in S : <<y, x>> \notin R
  BY <1>1, WFMin
<1>4. ASSUME NEW y \in S PROVE x <= y
  <2>1. x \in Nat /\ y \in Nat
    OBVIOUS
  <2>2. ~(y < x)
    BY <1>2, <1>3, <2>1
  <2> QED BY <2>1, <2>2
<1> QED BY <1>4

LEMMA MinOfNats ==
  ASSUME NEW S \in SUBSET Nat, S # {}
  PROVE  Min(S) \in S
BY LeastNat DEF Min

\* The entries of a part: they cover it, and a thread is in one of them.
LEMMA EntriesPartition ==
  ASSUME NEW part
  PROVE  /\ \A t \in part : \E e \in Entries(part) : t \in e
         /\ Apart(Entries(part))
         /\ \A e \in Entries(part) : \A s, t \in e : bts[s].frames = bts[t].frames
<1>1. CASE aggregate /\ mode # "noParse"
  <2>1. Entries(part) = {{t \in part : SameStack(s, t)} : s \in part}
    BY <1>1 DEF Entries
  <2>2. \A t \in part : t \in {u \in part : SameStack(t, u)}
    BY DEF SameStack
  <2>3. \A t \in part : \E e \in Entries(part) : t \in e
    BY <2>1, <2>2
  <2>4. ASSUME NEW e \in Entries(part), NEW f \in Entries(part) PROVE e = f \/ e \cap f = {}
    <3>1. PICK r \in part : e = {t \in part : SameStack(r, t)}
      BY <2>1
    <3>2. PICK s \in part : f = {t \in part : SameStack(s, t)}
      BY <2>1
    <3>3. CASE bts[r].frames = bts[s].frames
      BY <3>1, <3>2, <3>3 DEF SameStack
    <3>4. CASE bts[r].frames # bts[s].frames
      BY <3>1, <3>2, <3>4 DEF SameStack
    <3> QED BY <3>3, <3>4
  <2>5. \A e \in Entries(part) : \A s, t \in e : bts[s].frames = bts[t].frames
    BY <2>1 DEF SameStack
  <2> QED BY <2>3, <2>4, <2>5 DEF Apart
<1>2. CASE ~(aggregate /\ mode # "noParse")
  <2>1. Entries(part) = {{t} : t \in part}
    BY <1>2 DEF Entries
  <2> QED BY <2>1 DEF Apart
<1> QED BY <1>1, <1>2

\* Nothing is printed at first, and everybody waits.
LEMMA OnceInit == Init => OnceInv
<1> SUFFICES ASSUME Init PROVE OnceInv
  OBVIOUS
<1>1. phase = "reading" /\ out = <<>> /\ left = {} /\ bts = <<>> /\ min_depth \in MinDepths
  BY DEF Init, ReportStart
<1>2. out \in Seq({})
  BY <1>1
<1> QED BY <1>1, <1>2 DEF OnceInv, Apart

\* The stack of an entry is that of each of its threads.
LEMMA StackOfEntry ==
  ASSUME StacksTyped, NEW e, Entry(e), NEW t \in e
  PROVE  StackOf(e) = bts[t].frames
<1>1. DOMAIN bts \subseteq Nat
  BY DEF StacksTyped
<1>2. e \in SUBSET Nat /\ e # {}
  BY <1>1 DEF Entry
<1>3. Min(e) \in e
  BY <1>2, MinOfNats
<1> QED BY <1>3 DEF Entry, StackOf

\* PrintEntry deals with the threads of one entry, and with no others.
LEMMA PrintEntryOnce ==
  ASSUME OnceInv, StacksTyped, PrintEntry
  PROVE  OnceInv'
<1>1. /\ phase \in {"included", "excluded", "all"}
      /\ UNCHANGED <<bts, config, phase>>
      /\ UNCHANGED <<mode, aggregate, reverse, min_depth, priority>>
  BY DEF PrintEntry, config
<1>2. PICK e \in left :
        /\ left' = left \ {e}
        /\ out' = IF TooShallow(StackOf(e)) THEN out
                  ELSE Append(out, [threads |-> e, frames |-> StackOf(e), part |-> phase])
  BY DEF PrintEntry
<1> DEFINE x == [threads |-> e, frames |-> StackOf(e), part |-> phase]
           n == Len(out)
<1>3. PICK S : out \in Seq(S)
  BY DEF OnceInv
<1>4. DOMAIN out = 1..n /\ n \in Nat
  BY <1>3
<1>5. Entry(e) /\ Apart(left)
  BY DEF OnceInv
<1>6. included' = included
  BY <1>1 DEF included
<1>7. /\ \A f \in left' : Entry(f)'
      /\ Apart(left')
  BY <1>1, <1>2, <1>6 DEF OnceInv, Entry, Apart
<1>8. \A f : TooShallow(f)' <=> TooShallow(f)
  BY <1>1 DEF TooShallow
<1>9. \A t \in e : Waiting(t) /\ t \in DOMAIN bts /\ Mentions(t) = {} /\ StackOf(e) = bts[t].frames
  <2> SUFFICES ASSUME NEW t \in e
               PROVE  Waiting(t) /\ t \in DOMAIN bts /\ Mentions(t) = {} /\ StackOf(e) = bts[t].frames
    OBVIOUS
  <2>1. Waiting(t)
    BY DEF Waiting
  <2>2. t \in DOMAIN bts
    BY <1>5 DEF Entry
  <2>3. Mentions(t) = {}
    BY <1>1, <2>1, <2>2 DEF OnceInv
  <2> QED BY <1>5, <2>1, <2>2, <2>3, StackOfEntry
<1>10. \A t \in e : ~Waiting(t)'
  BY <1>1, <1>2, <1>5, <1>6 DEF Waiting, Apart, Entry
<1>11. \A t : t \notin e => (Waiting(t)' <=> Waiting(t))
  BY <1>1, <1>2, <1>6 DEF Waiting
<1>12. CASE TooShallow(StackOf(e))
  <2>1. out' = out
    BY <1>2, <1>12
  <2>2. \A t : Mentions(t)' = Mentions(t)
    BY <2>1 DEF Mentions
  <2>3. ASSUME NEW t \in DOMAIN bts, t \in e PROVE ~Waiting(t)' /\ DealtWith(t)'
    <3>1. TooShallow(bts[t].frames) /\ Mentions(t) = {}
      BY <1>9, <1>12, <2>3
    <3>2. DealtWith(t)'
      BY <1>1, <1>8, <2>2, <3>1 DEF DealtWith
    <3> QED BY <1>10, <2>3, <3>2
  <2>4. ASSUME NEW t \in DOMAIN bts, t \notin e
        PROVE  IF Waiting(t)' THEN Mentions(t)' = {} ELSE DealtWith(t)'
    <3>1. DealtWith(t)' <=> DealtWith(t)
      BY <1>1, <1>8, <2>1, <2>2 DEF DealtWith
    <3> QED BY <1>1, <1>11, <2>2, <2>4, <3>1 DEF OnceInv
  <2>5. \A t \in (DOMAIN bts)' : IF Waiting(t)' THEN Mentions(t)' = {} ELSE DealtWith(t)'
    BY <1>1, <2>3, <2>4
  <2> QED BY <1>1, <1>3, <1>7, <2>1, <2>5 DEF OnceInv
<1>13. CASE ~TooShallow(StackOf(e))
  <2>1. out' = Append(out, x)
    BY <1>2, <1>13
  <2>2. /\ out' \in Seq(S \cup {x})
        /\ DOMAIN out' = 1..(n + 1)
        /\ \A i \in 1..n : out'[i] = out[i]
        /\ out'[n + 1] = x
    BY <1>3, <2>1, AppendAny
  <2>3. x.threads = e /\ x.frames = StackOf(e)
    OBVIOUS
  <2> HIDE DEF x, n
  <2>4. ASSUME NEW t, t \notin e PROVE Mentions(t)' = Mentions(t)
    BY <1>4, <2>2, <2>3, <2>4 DEF Mentions
  <2>5. ASSUME NEW t \in DOMAIN bts, t \in e PROVE ~Waiting(t)' /\ DealtWith(t)'
    <3>1. \A i \in 1..n : t \notin out[i].threads
      BY <1>4, <1>9, <2>5 DEF Mentions
    <3>2. Mentions(t)' = {n + 1}
      BY <1>4, <2>2, <2>3, <2>5, <3>1 DEF Mentions
    <3>3. ~TooShallow(bts[t].frames) /\ out'[n + 1].frames = bts[t].frames
      BY <1>9, <1>13, <2>2, <2>3, <2>5
    <3>4. n + 1 \in DOMAIN out'
      BY <1>4, <2>2
    <3>5. DealtWith(t)'
      BY <1>1, <1>8, <3>2, <3>3, <3>4 DEF DealtWith
    <3> QED BY <1>10, <2>5, <3>5
  <2>6. ASSUME NEW t \in DOMAIN bts, t \notin e
        PROVE  IF Waiting(t)' THEN Mentions(t)' = {} ELSE DealtWith(t)'
    <3>1. Mentions(t)' = Mentions(t)
      BY <2>4, <2>6
    <3>2. CASE Waiting(t)
      BY <1>1, <1>11, <2>6, <3>1, <3>2 DEF OnceInv
    <3>3. CASE ~Waiting(t)
      <4>1. DealtWith(t) /\ ~Waiting(t)'
        BY <1>1, <1>11, <2>6, <3>3 DEF OnceInv
      <4>2. CASE TooShallow(bts[t].frames)
        BY <1>1, <1>8, <3>1, <4>1, <4>2 DEF DealtWith
      <4>3. CASE ~TooShallow(bts[t].frames)
        <5>1. PICK i \in DOMAIN out : Mentions(t) = {i} /\ out[i].frames = bts[t].frames
          BY <4>1, <4>3 DEF DealtWith
        <5>2. i \in DOMAIN out' /\ out'[i].frames = bts[t].frames
          BY <1>4, <2>2, <5>1
        <5>3. DealtWith(t)'
          BY <1>1, <1>8, <3>1, <4>3, <5>1, <5>2 DEF DealtWith
        <5> QED BY <4>1, <5>3
      <4> QED BY <4>2, <4>3
    <3> QED BY <3>2, <3>3
  <2>7. \A t \in (DOMAIN bts)' : IF Waiting(t)' THEN Mentions(t)' = {} ELSE DealtWith(t)'
    BY <1>1, <2>5, <2>6
  <2> QED BY <1>1, <1>7, <2>2, <2>7 DEF OnceInv
<1> QED BY <1>12, <1>13

\* Every step keeps the account of the threads.
LEMMA OnceStep == OnceInv /\ StacksTyped /\ [Next]_vars => OnceInv'
<1> SUFFICES ASSUME OnceInv, StacksTyped, [Next]_vars PROVE OnceInv'
  OBVIOUS
<1>1. CASE UNCHANGED reportVars
  BY <1>1 DEF reportVars, config, OnceInv, Entry, Apart, Waiting, DealtWith, Mentions,
              TooShallow, included
<1>2. ASSUME NEW stacks, Reports(stacks) PROVE OnceInv'
  <2>1. /\ out' = out /\ left' = left /\ min_depth' = min_depth
        /\ phase = "reading" /\ phase' = "start"
    BY <1>2 DEF Reports, config
  <2>2. out' = <<>> /\ left' = {} /\ min_depth' \in MinDepths
    BY <2>1 DEF OnceInv
  <2>3. out' \in Seq({})
    BY <2>2
  <2>4. \A t : Mentions(t)' = {}
    BY <2>2 DEF Mentions
  <2>5. \A t : Waiting(t)'
    BY <2>1 DEF Waiting
  <2> QED BY <2>1, <2>2, <2>3, <2>4, <2>5 DEF OnceInv, Apart
<1>3. CASE BfdFails
  <2>1. /\ UNCHANGED <<bts, out, left, min_depth, priority>>
        /\ phase = "start" /\ phase' = "failed"
    BY <1>3 DEF BfdFails, config
  <2> QED BY <2>1 DEF OnceInv, Apart, Entry, included
<1>4. CASE Start
  <2>1. /\ UNCHANGED <<bts, out, min_depth, priority>>
        /\ phase = "start" /\ out = <<>>
        /\ \/ phase' = "included" /\ left' = Entries(included)
           \/ phase' = "all" /\ left' = Entries(DOMAIN bts)
    BY <1>4 DEF Start, config, OnceInv
  <2>2. included' = included /\ included \subseteq DOMAIN bts
    BY <2>1 DEF included
  <2>3. \A e \in left' : Entry(e)'
    BY <2>1, <2>2, EntriesOfPart, EntriesPartition DEF Entry
  <2>4. Apart(left')
    BY <2>1, EntriesPartition
  <2>5. \A t \in DOMAIN bts : Waiting(t)'
    BY <2>1, <2>2, EntriesPartition DEF Waiting
  <2>6. \A t : Mentions(t)' = {}
    BY <2>1 DEF Mentions
  <2> QED BY <2>1, <2>3, <2>4, <2>5, <2>6 DEF OnceInv, Apart
<1>5. CASE PrintEntry
  BY <1>5, PrintEntryOnce
<1>6. CASE EndPart
  <2>1. UNCHANGED <<bts, out, min_depth, priority>> /\ left = {}
    BY <1>6 DEF EndPart, config
  <2>2. /\ included' = included /\ included \subseteq DOMAIN bts
        /\ \A t : Mentions(t)' = Mentions(t) /\ (DealtWith(t)' <=> DealtWith(t))
    BY <2>1 DEF included, Mentions, DealtWith, TooShallow
  <2>3. CASE phase = "included" /\ phase' = "excluded" /\ left' = Entries(DOMAIN bts \ included)
    <3>1. (\A e \in left' : Entry(e)') /\ Apart(left')
      BY <2>1, <2>3, EntriesOfPart, EntriesPartition DEF Entry
    <3>2. \A t \in DOMAIN bts : Waiting(t)' <=> t \notin included
      BY <2>3, EntriesOfPart, EntriesPartition DEF Waiting
    <3>3. \A t \in DOMAIN bts : Waiting(t) <=> t \notin included
      BY <2>1, <2>3 DEF Waiting
    <3> QED BY <2>1, <2>2, <2>3, <3>1, <3>2, <3>3 DEF OnceInv, Apart
  <2>4. CASE phase \in {"excluded", "all"} /\ phase' = "done" /\ left' = left
    <3>1. \A t : ~Waiting(t) /\ ~Waiting(t)'
      BY <2>1, <2>4 DEF Waiting
    <3> QED BY <2>1, <2>2, <2>4, <3>1 DEF OnceInv, Apart, Entry
  <2> QED BY <1>6, <2>3, <2>4 DEF EndPart
<1>7. UNCHANGED vars => UNCHANGED reportVars
  BY DEF vars
<1> QED BY <1>1, <1>2, <1>3, <1>4, <1>5, <1>6, <1>7
        DEF Next, ReportNext, ReportRestored, ReportCaptured, ReportRead

\* A stack of fewer than min_depth frames is too shallow, and one of more is
\* not unless the size_t is that of a negative number.
LEMMA Shallow ==
  ASSUME min_depth \in MinDepths, NEW frames, Len(frames) \in Nat
  PROVE  /\ Len(frames) < min_depth => TooShallow(frames)
         /\ min_depth >= 0 /\ Len(frames) > min_depth => ~TooShallow(frames)
<1>1. WordSize \in Nat \ {0} /\ min_depth \in Int /\ min_depth < WordSize
  BY ReportAssumption
<1>2. min_depth >= 0 => min_depth % WordSize = min_depth
  BY <1>1
<1>3. PICK n \in Nat : n = Len(frames)
  OBVIOUS
<1>4. TooShallow(frames) <=> n <= min_depth % WordSize
  BY <1>3 DEF TooShallow
<1>5. n < min_depth => min_depth >= 0
  BY <1>1
<1> QED BY <1>1, <1>2, <1>3, <1>4, <1>5

\* At the end nobody waits, and who has been dealt with was printed if his
\* stack was not too shallow, which its length alone decides.
LEMMA OnceAtEnd == OnceInv /\ StacksTyped => EachDeepThreadOnce
<1> SUFFICES ASSUME OnceInv, StacksTyped, phase = "done"
             PROVE  /\ \A t \in DOMAIN bts : ShownOnce(t, bts[t].frames)
                    /\ \A s, t \in DOMAIN bts :
                         Len(bts[s].frames) = Len(bts[t].frames) /\ Mentions(s) # {}
                           => Mentions(t) # {}
  BY DEF EachDeepThreadOnce
<1>1. \A t \in DOMAIN bts : DealtWith(t)
  BY DEF OnceInv, Waiting
<1>2. \A t \in DOMAIN bts : Mentions(t) # {} <=> ~TooShallow(bts[t].frames)
  BY <1>1 DEF DealtWith
<1>3. ASSUME NEW t \in DOMAIN bts PROVE ShownOnce(t, bts[t].frames)
  <2>1. Len(bts[t].frames) \in Nat /\ min_depth \in MinDepths
    BY DEF StacksTyped, OnceInv
  <2>2. /\ Len(bts[t].frames) < min_depth => TooShallow(bts[t].frames)
        /\ min_depth >= 0 /\ Len(bts[t].frames) > min_depth => ~TooShallow(bts[t].frames)
    BY <2>1, Shallow
  <2>3. /\ Cardinality(Mentions(t)) <= 1
        /\ \A i \in Mentions(t) : out[i].frames = bts[t].frames
    <3>1. CASE TooShallow(bts[t].frames)
      BY <1>1, <3>1, FS_EmptySet DEF DealtWith
    <3>2. CASE ~TooShallow(bts[t].frames)
      <4>1. PICK i : Mentions(t) = {i} /\ out[i].frames = bts[t].frames
        BY <1>1, <3>2 DEF DealtWith
      <4>2. Cardinality({i}) = 1
        BY FS_Singleton
      <4> QED BY <4>1, <4>2
    <3> QED BY <3>1, <3>2
  <2> QED BY <1>2, <2>2, <2>3 DEF ShownOnce
<1>4. ASSUME NEW s \in DOMAIN bts, NEW t \in DOMAIN bts,
             Len(bts[s].frames) = Len(bts[t].frames), Mentions(s) # {}
      PROVE  Mentions(t) # {}
  <2>1. TooShallow(bts[s].frames) <=> TooShallow(bts[t].frames)
    BY <1>4 DEF TooShallow
  <2> QED BY <1>2, <1>4, <2>1
<1> QED BY <1>3, <1>4

-----------------------------------------------------------------------------
\* What may be printed before what, in a part.
Before(a, b) ==
  IF reverse THEN Cardinality(a) <= Cardinality(b) ELSE Cardinality(a) >= Cardinality(b)

\* What was printed of a part is in order, and what is still to come of the
\* part that is being printed fits behind all of it.
SortedInv ==
  /\ \E S : out \in Seq(S)
  /\ phase \in {"reading", "start"} => out = <<>>
  /\ phase = "included" => \A i \in DOMAIN out : out[i].part = "included"
  /\ \A i, j \in DOMAIN out :
       i < j /\ out[i].part = out[j].part => Before(out[i].threads, out[j].threads)
  /\ \A i \in DOMAIN out : \A e \in left :
       out[i].part = phase => Before(out[i].threads, e)

\* PrintEntry takes an entry that none of the others to come goes before.
LEMMA PrintEntrySorted ==
  ASSUME SortedInv, PrintEntry
  PROVE  SortedInv'
<1>1. /\ phase \in {"included", "excluded", "all"}
      /\ phase' = phase /\ reverse' = reverse
  BY DEF PrintEntry, config
<1>2. PICK e \in left :
        /\ First(e)
        /\ left' = left \ {e}
        /\ out' = IF TooShallow(StackOf(e)) THEN out
                  ELSE Append(out, [threads |-> e, frames |-> StackOf(e), part |-> phase])
  BY DEF PrintEntry
<1>3. \A a, b : Before(a, b)' <=> Before(a, b)
  BY <1>1 DEF Before
<1>4. \A f \in left : Before(e, f)
  BY <1>2 DEF First, Before
<1>5. CASE TooShallow(StackOf(e))
  <2>1. out' = out
    BY <1>2, <1>5
  <2> QED BY <1>1, <1>2, <1>3, <2>1 DEF SortedInv
<1>6. CASE ~TooShallow(StackOf(e))
  <2> DEFINE x == [threads |-> e, frames |-> StackOf(e), part |-> phase]
             n == Len(out)
  <2>1. PICK S : out \in Seq(S)
    BY DEF SortedInv
  <2>2. out' = Append(out, x)
    BY <1>2, <1>6
  <2>3. /\ out' \in Seq(S \cup {x})
        /\ DOMAIN out = 1..n /\ n \in Nat
        /\ DOMAIN out' = 1..(n + 1)
        /\ \A i \in 1..n : out'[i] = out[i]
        /\ out'[n + 1] = x
    BY <2>1, <2>2, AppendAny
  <2>4. x.threads = e /\ x.part = phase
    OBVIOUS
  <2> HIDE DEF x, n
  <2>5. \A i \in 1..(n + 1) : i \in 1..n \/ i = n + 1
    BY <2>3
  <2>6. phase = "included" => \A i \in DOMAIN out' : out'[i].part = "included"
    BY <2>3, <2>4, <2>5 DEF SortedInv
  <2>7. ASSUME NEW i \in DOMAIN out', NEW j \in DOMAIN out',
               i < j, out'[i].part = out'[j].part
        PROVE  Before(out'[i].threads, out'[j].threads)
    <3>1. i \in 1..n
      BY <2>3, <2>7
    <3>2. CASE j \in 1..n
      BY <2>3, <2>7, <3>1, <3>2 DEF SortedInv
    <3>3. CASE j = n + 1
      BY <2>3, <2>4, <2>7, <3>1, <3>3 DEF SortedInv
    <3> QED BY <2>3, <2>5, <3>2, <3>3
  <2>8. ASSUME NEW i \in DOMAIN out', NEW f \in left', out'[i].part = phase
        PROVE  Before(out'[i].threads, f)
    <3>1. f \in left
      BY <1>2
    <3>2. CASE i \in 1..n
      BY <2>3, <2>8, <3>1, <3>2 DEF SortedInv
    <3>3. CASE i = n + 1
      BY <1>4, <2>3, <2>4, <3>1, <3>3
    <3> QED BY <2>3, <2>5, <3>2, <3>3
  <2> QED BY <1>1, <1>3, <2>3, <2>6, <2>7, <2>8 DEF SortedInv
<1> QED BY <1>5, <1>6

\* Every step keeps the order.
LEMMA SortedStep == SortedInv /\ [Next]_vars => SortedInv'
<1> SUFFICES ASSUME SortedInv, [Next]_vars PROVE SortedInv'
  OBVIOUS
<1>1. CASE UNCHANGED reportVars
  BY <1>1 DEF reportVars, config, SortedInv, Before
<1>2. ASSUME NEW stacks, Reports(stacks) PROVE SortedInv'
  <2>1. out = <<>> /\ out' = <<>> /\ phase' = "start"
    BY <1>2 DEF Reports, SortedInv
  <2>2. out' \in Seq({})
    BY <2>1
  <2> QED BY <2>1, <2>2 DEF SortedInv
<1>3. CASE BfdFails
  <2>1. out = <<>> /\ out' = out /\ phase' = "failed"
    BY <1>3 DEF BfdFails, SortedInv
  <2>2. out' \in Seq({})
    BY <2>1
  <2> QED BY <2>1, <2>2 DEF SortedInv
<1>4. CASE Start
  <2>1. out = <<>> /\ out' = out /\ phase' \in {"included", "all"}
    BY <1>4 DEF Start, SortedInv
  <2>2. out' \in Seq({})
    BY <2>1
  <2> QED BY <2>1, <2>2 DEF SortedInv
<1>5. CASE PrintEntry
  BY <1>5, PrintEntrySorted
<1>6. CASE EndPart
  <2>1. out' = out /\ reverse' = reverse
    BY <1>6 DEF EndPart, config
  <2>2. \A a, b : Before(a, b)' <=> Before(a, b)
    BY <2>1 DEF Before
  <2>3. CASE phase = "included" /\ phase' = "excluded"
    BY <2>1, <2>2, <2>3 DEF SortedInv
  <2>4. CASE phase \in {"excluded", "all"} /\ phase' = "done" /\ left' = left /\ left = {}
    BY <2>1, <2>2, <2>4 DEF SortedInv
  <2> QED BY <1>6, <2>3, <2>4 DEF EndPart
<1>7. UNCHANGED vars => UNCHANGED reportVars
  BY DEF vars
<1> QED BY <1>1, <1>2, <1>3, <1>4, <1>5, <1>6, <1>7
        DEF Next, ReportNext, ReportRestored, ReportCaptured, ReportRead

\* Within a part the entries come by their number of threads, for any number
\* of them; those that are skipped do not disturb the order.
THEOREM Sorting == Spec => []SortedWithinPart
<1>1. Init => SortedInv
  <2> SUFFICES ASSUME Init PROVE SortedInv
    OBVIOUS
  <2>1. phase = "reading" /\ out = <<>>
    BY DEF Init, ReportStart
  <2>2. out \in Seq({})
    BY <2>1
  <2> QED BY <2>1, <2>2 DEF SortedInv
<1>2. SortedInv => SortedWithinPart
  BY DEF SortedInv, SortedWithinPart, Before
<1> QED BY <1>1, <1>2, SortedStep, PTL DEF Spec
=============================================================================
