------------------------------- MODULE Output -------------------------------
(***************************************************************************)
(* What becomes of a capture, from the child that took it to what is       *)
(* printed: src/dmstack/dmstack.cpp and src/dmstack/utils/output.h.  Live  *)
(* it goes through the segment (Wire) to the parent; with --no-parse the   *)
(* child prints it itself; with --input it was printed by an earlier       *)
(* dmstack, and is read back from that file (StackFile).  Then the report  *)
(* is made (Report).                                                       *)
(***************************************************************************)
EXTENDS Wire, StackFile, Report

CONSTANT MaxRead  \* bound: threads in a file of stacks

ASSUME OutputAssumption == MaxRead \in Nat /\ 1..MaxThreads \subseteq Tid

vars == <<captured, wireVars, fileVars, reportVars>>

\* The threads of a live capture are in some order, so their ids may be its.
LiveCaptures ==
  UNION {{[i \in 1..n |-> [tid |-> i, frames |-> f[i], name |-> "plain"]] :
            f \in [1..n -> Frames]} : n \in 0..MaxThreads}

StacksTyped  == bts \in Seq([tid : Nat, frames : Seq(Addr)])
OutputTypeOK == WireTypeOK /\ FileTypeOK /\ ReportTypeOK /\ StacksTyped

Init ==
  \/ /\ mode = "live" /\ captured \in LiveCaptures
     /\ WireStart("allocate") /\ NoFile /\ ReportStart(1..MaxThreads)
  \/ /\ mode = "noParse" /\ captured \in LiveCaptures
     /\ WireStart("idle") /\ NoFile /\ ReportStart({})
  \/ /\ mode = "input" /\ captured \in Captures(MaxRead, NamedTrace)
     /\ WireStart("idle") /\ FileStart /\ ReportStart({})

-----------------------------------------------------------------------------
\* genResult is called with the stacks that have come through.
Reports(stacks) ==
  /\ phase = "reading"
  /\ bts' = stacks
  /\ phase' = "start"
  /\ UNCHANGED <<captured, wireVars, fileVars, config, left, out>>

ReportRestored == mode = "live" /\ wpc = "done" /\ Reports(restored)
ReportCaptured == mode = "noParse" /\ Reports(Traces(captured))
ReportRead     == mode = "input" /\ outcome = "done" /\ Reports(backtraces)

Next ==
  \/ WireNext   /\ UNCHANGED <<captured, fileVars, reportVars>>
  \/ FileNext   /\ UNCHANGED <<captured, wireVars, reportVars>>
  \/ ReportNext /\ UNCHANGED <<captured, wireVars, fileVars>>
  \/ ReportRestored \/ ReportCaptured \/ ReportRead

Spec == Init /\ [][Next]_vars

-----------------------------------------------------------------------------
(* Properties.                                                             *)

\* Names and functions that sscanf reads as they were printed.
Plain(c) == \A i \in DOMAIN c :
              c[i].name = "plain" /\ \A f \in DOMAIN c[i].frames : c[i].frames[f] \notin Blank

\* From end to end, on each of the three ways: the threads of the capture, no
\* more and no fewer, reach the report with their ids, each is printed once and
\* with its own stack, those of fewer than min_depth frames are not, and a
\* plain file is never refused.
PrintsCapture ==
  mode # "input" \/ (Plain(captured) /\ cut = 0) =>
    /\ outcome \notin {"invalid", "crash"}
    /\ phase = "done" =>
         /\ Len(bts) = Len(captured)
         /\ \A t \in DOMAIN captured :
              bts[t].tid = captured[t].tid /\ ShownOnce(t, captured[t].frames)
=============================================================================
