----------------------------- MODULE StackFile ------------------------------
(***************************************************************************)
(* Output::genResult(input_file), src/dmstack/utils/output.h: reading back *)
(* a file of stacks.  Such a file is what dmstack printed of a capture,    *)
(* whole or with its first lines cut off.  A name or a function is one of  *)
(* a few kinds: what matters is what sscanf makes of it.                   *)
(***************************************************************************)
EXTENDS Stacks, SequencesExt

CONSTANT Blank  \* addresses in a function like "operator new(unsigned long)"

ASSUME BlankAssumption == Blank \subseteq Addr

\* In the name "pool-1" sscanf takes the number for the thread id.
NumberIn == 1

NoStack == [tid |-> -1, frames |-> <<>>]

VARIABLES cut,          \* lines missing at the start of the file
          lines,        \* the lines not read yet
          current,      \* the BackTrace being read, NoStack for none
          backtraces,   \* those read completely
          names,        \* thread_map: the name of each thread id read
          outcome

fileVars == <<cut, lines, current, backtraces, names, outcome>>

Header(name, tid) == [kind |-> "header", name |-> name, tid |-> tid]
Frame(addr)       == [kind |-> "frame", addr |-> addr]

\* What print_stack_frames and genResult print of one thread and of all.
Lines(s)    == <<Header(s.name, s.tid)>> \o [i \in DOMAIN s.frames |-> Frame(s.frames[i])]
PrintAll(c) == FlattenSeq([i \in DOMAIN c |-> Lines(c[i])])

\* "#%d 0x%lx in %s from %s": a blank in the function ends the match early.
IsFrame(l) == l.kind = "frame" /\ l.addr \notin Blank

\* Fault: the thread id is read with a sign.
HeaderTidSigned(l) == -l.tid

\* "Thread(%255[^-]-%d)": the name ends at its first dash, a number follows.
IsHeader(l)   == l.kind = "header" /\ l.name # "dashWord"
HeaderTid(l)  == IF l.name = "dashNumber" THEN NumberIn ELSE l.tid
HeaderName(l) == IF l.name = "dashNumber" THEN "plain" ELSE l.name

Opened == current # NoStack

FileTypeOK ==
  /\ cut \in 0..1
  /\ backtraces \in Seq([tid : Nat, frames : Seq(Addr)])
  /\ current \in {NoStack} \cup [tid : Nat, frames : Seq(Addr)]
  /\ DOMAIN names \subseteq Nat
  /\ outcome \in {"none", "reading", "invalid", "crash", "done"}

\* A file with the captured stacks that lacks its first line, or none.
FileStart ==
  /\ cut \in 0..1
  /\ lines = SubSeq(PrintAll(captured), cut + 1, Len(PrintAll(captured)))
  /\ current = NoStack
  /\ backtraces = <<>>
  /\ names = <<>>
  /\ outcome = "reading"

\* No file is read.
NoFile ==
  /\ cut = 0
  /\ lines = <<>>
  /\ current = NoStack
  /\ backtraces = <<>>
  /\ names = <<>>
  /\ outcome = "none"

-----------------------------------------------------------------------------
Reading == outcome = "reading" /\ lines # <<>>

\* Fault: a frame closes its stack at once.
ReadFrameCloses ==
  /\ Reading
  /\ IsFrame(Head(lines))
  /\ IF Opened
     THEN /\ backtraces' = Append(backtraces,
                           [current EXCEPT !.frames = Append(@, Head(lines).addr)])
          /\ current' = NoStack
          /\ UNCHANGED outcome
     ELSE outcome' = "crash" /\ UNCHANGED <<current, backtraces>>
  /\ lines' = Tail(lines)
  /\ UNCHANGED <<cut, names>>

\* A frame goes to the current stack; without one, current is a null pointer.
ReadFrame ==
  /\ Reading
  /\ IsFrame(Head(lines))
  /\ IF Opened
     THEN /\ current' = [current EXCEPT !.frames = Append(@, Head(lines).addr)]
          /\ UNCHANGED outcome
     ELSE outcome' = "crash" /\ UNCHANGED current
  /\ lines' = Tail(lines)
  /\ UNCHANGED <<cut, backtraces, names>>

\* A header closes the current stack and opens the next.
ReadHeader ==
  /\ Reading
  /\ ~IsFrame(Head(lines)) /\ IsHeader(Head(lines))
  /\ LET tid == HeaderTid(Head(lines)) IN
       /\ current' = [tid |-> tid, frames |-> <<>>]
       /\ names' = [t \in DOMAIN names \cup {tid} |->
                      IF t = tid THEN HeaderName(Head(lines)) ELSE names[t]]
  /\ backtraces' = IF Opened THEN Append(backtraces, current) ELSE backtraces
  /\ lines' = Tail(lines)
  /\ UNCHANGED <<cut, outcome>>

\* Fault: a file that is refused counts as read.
ReadInvalidEnds ==
  /\ Reading
  /\ ~IsFrame(Head(lines)) /\ ~IsHeader(Head(lines))
  /\ outcome' = "done"
  /\ UNCHANGED <<cut, lines, current, backtraces, names>>

\* Any other line: "Invalid format.", and all that was read is dropped.
ReadInvalid ==
  /\ Reading
  /\ ~IsFrame(Head(lines)) /\ ~IsHeader(Head(lines))
  /\ outcome' = "invalid"
  /\ UNCHANGED <<cut, lines, current, backtraces, names>>

\* Fault: the last stack is forgotten.
EndOfFileDrops ==
  /\ outcome = "reading" /\ lines = <<>>
  /\ current' = NoStack
  /\ outcome' = "done"
  /\ UNCHANGED <<cut, lines, backtraces, names>>

\* The last stack has no header after it.
EndOfFile ==
  /\ outcome = "reading" /\ lines = <<>>
  /\ backtraces' = IF Opened THEN Append(backtraces, current) ELSE backtraces
  /\ current' = NoStack
  /\ outcome' = "done"
  /\ UNCHANGED <<cut, lines, names>>

FileNext == ReadFrame \/ ReadHeader \/ ReadInvalid \/ EndOfFile

-----------------------------------------------------------------------------
(* Properties.                                                             *)

AllFrames(stacks) == FlattenSeq([i \in DOMAIN stacks |-> stacks[i].frames])

\* A file that is accepted loses no frame and mixes none up, whatever the
\* names and ids in its headers are taken for; and reading fails on a null
\* pointer only for a file that lost its first header.
AcceptedKeepsFrames ==
  /\ outcome = "done" => AllFrames(backtraces) = AllFrames(captured)
  /\ outcome = "crash" => cut = 1

\* Usage at config.cpp:53, the input file holds the raw stack traces that
\* "dmstack <pid>" captured: every such file is read back as it was.
RawCaptureReadsBack ==
  cut = 0 /\ outcome \in {"done", "invalid", "crash"} => backtraces = Traces(captured)
=============================================================================
