--------------------------- MODULE DmStackProofs ----------------------------
(***************************************************************************)
(* Theorems about main() and its child, for every target and every bound.  *)
(* The child runs Capture, so the layers of CaptureProofs are used again;  *)
(* the inductive invariant has one layer more in front:                    *)
(*   Ordered        how far one process can be while the other is where it *)
(*                  is, what that leaves in the segment and in rc;         *)
(*   Founded        types, and the locals the child starts with;           *)
(*   Custodial, Queued, Untouched                                          *)
(*                  what has been done to the target;                      *)
(*   Accounted, Honest                                                     *)
(*                  what has become of each task.                          *)
(***************************************************************************)
EXTENDS DmStack, CaptureProofs

NotStarted == {"none", "unmask", "handlers"}      \* before the constructor
Before     == NotStarted \cup Working \cup {"returned"}

-----------------------------------------------------------------------------
(* Layer 1: the order of the two processes.                                *)

ControlTypeOK ==
  /\ cpc \in {"none"} \cup ChildRunning \cup ChildEnded
  /\ ppc \in ParentRunning \cup ParentEnded
  /\ masked \subseteq Process /\ pending \subseteq masked
  /\ handled \in BOOLEAN /\ noParse \in BOOLEAN
  /\ segment \in {"none", "stale", "empty", "sized", "full"}
  /\ exitCode \in {"none", "interrupted", "killed", "ok", "error"}
  /\ rc \in {-1, 0, 1, ECHILD, Failure}
  /\ printed \in {"nothing", "addresses", "stacks"}

\* The child runs only while the parent waits with interrupts blocked; before
\* it takes its mask away nothing can end it but a kill, and its handlers are
\* in place before it starts to capture.
Turns ==
  /\ ppc \in {"scan", "block", "fork"} => cpc = "none"
  /\ cpc \in ChildRunning => ppc = "wait"
  /\ ppc \in {"fork", "wait", "unblock"} => "parent" \in masked
  /\ "child" \in masked <=> cpc = "unmask"
  /\ handled => cpc \notin NotStarted
  /\ ~handled => cpc \in NotStarted \cup {"crashed"}

\* What the parent knows of the child when it decides what to do, and what is
\* done with the stacks.
Results ==
  /\ exitCode = "none" <=> cpc \notin ChildEnded
  /\ ppc \in {"scan", "block", "fork", "wait", "unblock", "status"} => rc = -1
  /\ ppc \in {"open", "parse", "destroy"} => exitCode = "ok" /\ ~noParse
  /\ printed # "nothing" => exitCode = "ok"
  /\ cpc \in Allocating => ~noParse

\* What the segment of this pid holds.
Segments ==
  /\ \/ cpc \in Before \cup {"shm_open"}
     \/ exitCode = "interrupted"
     \/ exitCode = "ok" /\ noParse
     => segment \in {"none", "stale"}
  /\ cpc = "ftruncate" => segment = "empty"
  /\ cpc \in {"mmap", "serialize"} => segment = "sized"
  /\ exitCode = "ok" /\ ~noParse =>
       /\ ppc \in {"wait", "unblock", "status", "open", "parse"} => segment = "full"
       /\ ppc \in {"warn", "returned"} => segment = "none"

Ordered == ControlTypeOK /\ Turns /\ Results /\ Segments

-----------------------------------------------------------------------------
(* Layer 2: types, and the locals of a child that has not started.         *)

Founded ==
  /\ TargetTypeOK /\ CaptureDataOK
  /\ cpc \in Turn \cup {"attach"} => cur \in tasks
  /\ cpc \in {"create", "attach", "wait", "upt"} => frames = 0
  /\ cpc = "unwind" => frames < MaxFrames
  /\ cpc \in NotStarted => Fresh(tasks)

(* Layer 3: the target.                                                    *)

Untouched ==
  /\ cpc \in NotStarted \cup {"create"} \cup ChildEnded => traced = {}
  /\ cpc \in NotStarted \cup {"create"} \/ exitCode = "interrupted" =>
       swallowed = {} /\ \A t \in Thread : STOP \notin pend[t]

(* Layer 4: what has become of each task.                                  *)

AllSettled == error_code = 0 /\ (addrSpace => \A t \in tasks : Settled(t))

Honest == cpc \in Allocating \/ exitCode = "ok" => AllSettled

-----------------------------------------------------------------------------
(* Layer 1 is inductive.                                                   *)

After == (Working \ {"create"}) \cup {"returned"}

\* A step of the capture stays in the capture or ends it.
LEMMA CaptureMoves == CaptureStep => cpc \in Working /\ cpc' \in After
<1> USE DEF After, Working, Turn, Goto
<1>1. Create \/ NextTask \/ LoopDone => cpc \in Working /\ cpc' \in After
  BY DEF Create, NextTask, LoopDone
<1>2. AttachOk \/ AttachFails \/ WaitStopped \/ WaitGone =>
        cpc \in Working /\ cpc' \in After
  BY DEF AttachOk, AttachFails, WaitStopped, WaitGone
<1>3. UptCreate \/ UnwindFrame \/ UnwindLast \/ UnwindFails =>
        cpc \in Working /\ cpc' \in After
  BY DEF UptCreate, UnwindFrame, UnwindLast, UnwindFails
<1>4. DetachTask \/ CheckInterrupt => cpc \in Working /\ cpc' \in After
  BY DEF DetachTask, CheckInterrupt
<1> QED
  BY <1>1, <1>2, <1>3, <1>4 DEF CaptureStep

\* The parent starts alone, with no answer and at most a segment of old.
LEMMA OrderedInit == MainInit => Ordered
BY DEF MainInit, Ordered, ControlTypeOK, Turns, Results, Segments, ChildRunning,
       ChildEnded, ParentRunning, ParentEnded, NotStarted, Allocating, Working, Turn

\* Only a process that blocks interrupts has one waiting.
LEMMA SignalsStep ==
  ASSUME masked \subseteq Process, pending \subseteq masked, [MainNext]_allVars
  PROVE  masked' \subseteq Process /\ pending' \subseteq masked'
<1> USE DEF Process
<1>1. CASE ParentStep
  BY <1>1 DEF ParentStep, Scan, BlockInterrupts, Fork, WaitChild, Unblock, ReadStatus,
              OpenSegment, Parse, Destroy, Warn
<1>2. CASE ChildStep
  BY <1>2 DEF ChildStep, Unmask, InstallHandlers, ChildCaptures, AfterCapture,
     AllocateFails, ShmOpen, Ftruncate, Mmap, Allocate, Serialize, ChildEnds, mainVars
<1>3. CASE Interrupt
  BY <1>3 DEF Interrupt
<1>4. CASE ChildKilled \/ TargetLives
  BY <1>4 DEF ChildKilled, TargetLives, ChildEnds, mainVars
<1>5. CASE UNCHANGED allVars
  BY <1>5 DEF allVars, mainVars
<1> QED
  BY <1>1, <1>2, <1>3, <1>4, <1>5 DEF MainNext

\* Every step keeps layer 1.  The parent cannot be interrupted while it waits,
\* and it acts on an answer only once the child has ended.
LEMMA OrderedStep == Ordered /\ [MainNext]_allVars => Ordered'
<1> SUFFICES ASSUME Ordered, [MainNext]_allVars PROVE Ordered'
  OBVIOUS
<1>s. masked' \subseteq Process /\ pending' \subseteq masked'
  BY SignalsStep DEF Ordered, ControlTypeOK
<1> USE DEF Ordered, ControlTypeOK, Turns, Results, Segments, Process, Before, NotStarted,
            ChildRunning, ChildEnded, ParentRunning, ParentEnded, Allocating, Working,
            Turn, ECHILD, Failure
<1>1. CASE Scan
  BY <1>1 DEF Scan
<1>2. CASE BlockInterrupts
  BY <1>2 DEF BlockInterrupts, vars, captureVars
<1>3. CASE Fork
  <2>1. ControlTypeOK'
    BY <1>3, <1>s DEF Fork
  <2>2. Turns'
    BY <1>3 DEF Fork
  <2>3. Results'
    BY <1>3 DEF Fork
  <2>4. Segments'
    BY <1>3 DEF Fork
  <2> QED
    BY <2>1, <2>2, <2>3, <2>4
<1>4. CASE WaitChild
  BY <1>4 DEF WaitChild, vars, captureVars
<1>5. CASE Unblock
  BY <1>5 DEF Unblock, vars, captureVars
<1>6. CASE ReadStatus
  BY <1>6 DEF ReadStatus, vars, captureVars
<1>7. CASE OpenSegment
  BY <1>7 DEF OpenSegment, vars, captureVars
<1>8. CASE Parse
  BY <1>8 DEF Parse, vars, captureVars
<1>9. CASE Destroy
  BY <1>9 DEF Destroy, vars, captureVars
<1>10. CASE Warn
  BY <1>10 DEF Warn, vars, captureVars
<1>11. CASE Unmask
  <2>1. ControlTypeOK'
    BY <1>11, <1>s DEF Unmask, ChildEnds
  <2>2. Turns'
    BY <1>11 DEF Unmask, ChildEnds
  <2>3. Results'
    BY <1>11 DEF Unmask, ChildEnds
  <2>4. Segments'
    BY <1>11 DEF Unmask, ChildEnds
  <2> QED
    BY <2>1, <2>2, <2>3, <2>4
<1>12. CASE InstallHandlers
  BY <1>12 DEF InstallHandlers
<1>13. CASE ChildCaptures
  BY <1>13, CaptureMoves DEF ChildCaptures, After, mainVars
<1>14. CASE AfterCapture
  <2>1. ControlTypeOK'
    BY <1>14, <1>s DEF AfterCapture, ChildEnds
  <2>2. Turns'
    BY <1>14 DEF AfterCapture, ChildEnds
  <2>3. Results'
    BY <1>14 DEF AfterCapture, ChildEnds
  <2>4. Segments'
    BY <1>14 DEF AfterCapture, ChildEnds
  <2> QED
    BY <2>1, <2>2, <2>3, <2>4
<1>15. CASE AllocateFails
  BY <1>15 DEF AllocateFails, ChildEnds
<1>16. CASE ShmOpen \/ Ftruncate \/ Mmap
  <2>1. ControlTypeOK'
    BY <1>16, <1>s DEF ShmOpen, Ftruncate, Mmap, Allocate
  <2>2. Turns'
    BY <1>16 DEF ShmOpen, Ftruncate, Mmap, Allocate
  <2>3. Results'
    BY <1>16 DEF ShmOpen, Ftruncate, Mmap, Allocate
  <2>4. Segments'
    BY <1>16 DEF ShmOpen, Ftruncate, Mmap, Allocate
  <2> QED
    BY <2>1, <2>2, <2>3, <2>4
<1>17. CASE Serialize
  <2>1. ControlTypeOK'
    BY <1>17, <1>s DEF Serialize, ChildEnds
  <2>2. Turns'
    BY <1>17 DEF Serialize, ChildEnds
  <2>3. Results'
    BY <1>17 DEF Serialize, ChildEnds
  <2>4. Segments'
    BY <1>17 DEF Serialize, ChildEnds
  <2> QED
    BY <2>1, <2>2, <2>3, <2>4
<1>18. CASE Interrupt
  BY <1>18 DEF Interrupt, ParentInterrupted, ChildInterrupted
<1>19. CASE ChildKilled
  BY <1>19 DEF ChildKilled, ChildEnds
<1>20. CASE TargetLives
  BY <1>20 DEF TargetLives, captureVars, mainVars
<1>21. CASE UNCHANGED allVars
  BY <1>21 DEF allVars, vars, captureVars, mainVars
<1> QED
  BY <1>1, <1>2, <1>3, <1>4, <1>5, <1>6, <1>7, <1>8, <1>9, <1>10, <1>11, <1>12, <1>13,
     <1>14, <1>15, <1>16, <1>17, <1>18, <1>19, <1>20, <1>21
  DEF MainNext, ParentStep, ChildStep

\* Layer 1 holds whatever becomes of the target.
LEMMA OrderInvariant == MainSpec => []Ordered
BY OrderedInit, OrderedStep, PTL DEF MainSpec

\* An interrupt never ends the parent while its child still works.
THEOREM ChildNeverAlone == MainSpec => []ParentOutlivesChild
<1>1. Ordered => ParentOutlivesChild
  BY DEF Ordered, ControlTypeOK, Turns, ParentOutlivesChild, ParentEnded
<1> QED
  BY <1>1, OrderInvariant, PTL

\* The parent parses a segment only when the child of this run has filled it.
THEOREM OwnSegment == MainSpec => []ParsesOwnSegment
<1>1. Ordered => ParsesOwnSegment
  BY DEF Ordered, Results, Segments, ParsesOwnSegment
<1> QED
  BY <1>1, OrderInvariant, PTL

\* After a normal return a segment of this run is left only by a child that
\* failed or was killed.
THEOREM LeaksOnlyOnFailure == MainSpec => []SegmentLeaks
<1>1. Ordered => SegmentLeaks
  <2> SUFFICES ASSUME Ordered, ppc = "returned", segment \notin {"none", "stale"}
               PROVE  exitCode \in {"killed", "error"}
    BY DEF SegmentLeaks
  <2>1. cpc \in ChildEnded
    BY DEF Ordered, ControlTypeOK, Turns, Segments, Before, NotStarted, ChildRunning
  <2> QED
    BY <2>1 DEF Ordered, ControlTypeOK, Results, Segments
<1> QED
  BY <1>1, OrderInvariant, PTL

-----------------------------------------------------------------------------
(* Layer 2 is inductive.                                                   *)

\* While the child is in the constructor, layer 2 is the first layer of Capture.
LEMMA FoundedIsTyped == Founded /\ cpc \in Working \cup {"returned"} => Typed
BY DEF Founded, Typed, TypeOK, Ended

\* What layer 2 says of the child's own locals.
LEMMA FoundedInit == MainInit => Founded
<1> SUFFICES ASSUME MainInit PROVE Founded
  OBVIOUS
<1>1. TargetTypeOK
  BY DEF MainInit, TargetInit, TargetTypeOK
<1>2. Fresh({}) /\ cpc = "none"
  BY DEF MainInit
<1>3. CaptureDataOK
  <2>1. frames \in 0..MaxFrames
    BY <1>2, CaptureAssumption DEF Fresh
  <2> QED
    BY <1>2, <2>1 DEF Fresh, CaptureDataOK
<1>4. Fresh(tasks)
  BY <1>2 DEF Fresh
<1> QED
  BY <1>1, <1>2, <1>3, <1>4 DEF Founded, Turn, NotStarted

\* The end of the child keeps layer 2.
LEMMA FoundedEnd ==
  ASSUME Founded, TracerEnds, UNCHANGED captureData, cpc' \in ChildEnded
  PROVE  Founded'
<1>1. TargetTypeOK'
  BY CallsTyped, TraceeAssumption DEF Founded
<1> QED
  BY <1>1 DEF Founded, CaptureDataOK, captureData, ChildEnded, Turn, NotStarted

\* An interrupt ends a child without handlers, sets the flag of one that has
\* them, or has no effect on it yet.
LEMMA InterruptOnChild ==
  ASSUME Interrupt, interrupt \in BOOLEAN
  PROVE  \/ /\ cpc \in ChildRunning /\ ~handled /\ "child" \notin masked
            /\ cpc' = "crashed" /\ exitCode' = "interrupted"
            /\ TracerEnds /\ UNCHANGED captureData
         \/ UNCHANGED <<vars, exitCode>>
         \/ /\ cpc \in ChildRunning /\ handled
            /\ interrupt' = TRUE
            /\ UNCHANGED <<targetVars, cpc, tasks, todo, cur, frames, bts, logged,
                           addrSpace, error_code, exitCode>>
<1>1. PICK P \in (SUBSET Process) \ {{}} :
        IF "child" \in P THEN ChildInterrupted
                         ELSE UNCHANGED <<targetVars, cpc, exitCode, interrupt>>
  BY DEF Interrupt
<1>2. UNCHANGED <<tasks, todo, cur, frames, bts, logged, addrSpace, error_code>>
  BY DEF Interrupt
<1>3. CASE "child" \notin P
  BY <1>1, <1>2, <1>3 DEF vars, captureVars
<1>4. CASE "child" \in P /\ (handled \/ "child" \in masked)
  <2>1. /\ cpc \in ChildRunning
        /\ interrupt' = (interrupt \/ "child" \notin masked)
        /\ UNCHANGED <<targetVars, cpc, exitCode>>
    BY <1>1, <1>4 DEF ChildInterrupted
  <2>2. CASE "child" \in masked
    <3>1. interrupt' = interrupt
      BY <2>1, <2>2
    <3> QED
      BY <1>2, <2>1, <3>1 DEF vars, captureVars
  <2>3. CASE "child" \notin masked
    <3>1. interrupt' = TRUE
      BY <2>1, <2>3
    <3> QED
      BY <1>2, <1>4, <2>1, <2>3, <3>1
  <2> QED
    BY <2>2, <2>3
<1>5. CASE "child" \in P /\ ~(handled \/ "child" \in masked)
  BY <1>1, <1>2, <1>5 DEF ChildInterrupted, captureData
<1> QED
  BY <1>3, <1>4, <1>5

\* Every step keeps layer 2: until the constructor runs the child has the
\* locals it inherited, with the threads the parent listed.
LEMMA FoundedStep == Ordered /\ Founded /\ [MainNext]_allVars => Founded'
<1> SUFFICES ASSUME Ordered, Founded, [MainNext]_allVars PROVE Founded'
  OBVIOUS
<1>u. ASSUME UNCHANGED vars PROVE Founded'
  BY <1>u DEF Founded, vars, targetVars, captureVars, TargetTypeOK, CaptureDataOK, Fresh
<1>t. UNCHANGED targetVars => TargetTypeOK'
  BY DEF Founded, targetVars, TargetTypeOK
<1>1. CASE Scan
  <2>1. Fresh(tasks) /\ cpc = "none"
    BY <1>1 DEF Scan, Ordered, Turns, Founded, NotStarted
  <2>2. tasks' \in SUBSET Thread
    BY <1>1, TraceeAssumption DEF Scan
  <2>3. Fresh(tasks)'
    BY <1>1, <2>1 DEF Scan, Fresh
  <2> QED
    BY <1>1, <1>t, <2>1, <2>2, <2>3 DEF Scan, Founded, Fresh, CaptureDataOK, Turn, NotStarted
<1>2. CASE BlockInterrupts \/ WaitChild \/ Unblock \/ ReadStatus \/ OpenSegment
           \/ Parse \/ Destroy \/ Warn
  BY <1>2, <1>u DEF BlockInterrupts, WaitChild, Unblock, ReadStatus, OpenSegment, Parse,
                    Destroy, Warn
<1>3. CASE Fork
  BY <1>3, <1>t DEF Fork, Ordered, Turns, Founded, CaptureDataOK, Fresh, Turn, NotStarted
<1>4. CASE Unmask
  <2>1. CASE "child" \in pending
    BY <1>4, <2>1, FoundedEnd DEF Unmask, ChildEnds, ChildEnded
  <2>2. CASE "child" \notin pending
    BY <1>4, <1>t, <2>2 DEF Unmask, captureData, Founded, CaptureDataOK, Fresh, Turn, NotStarted
  <2> QED
    BY <2>1, <2>2
<1>5. CASE InstallHandlers
  BY <1>5, <1>t DEF InstallHandlers, captureData, Founded, CaptureDataOK, Fresh, Turn, NotStarted
<1>6. CASE ChildCaptures
  <2>1. CaptureStep /\ cpc \in Working /\ cpc' \in Working \cup {"returned"}
    BY <1>6, CaptureMoves DEF ChildCaptures, After
  <2>2. Typed'
    BY <2>1, FoundedIsTyped, TypedStep DEF Next
  <2> QED
    BY <2>1, <2>2 DEF Typed, TypeOK, Founded, NotStarted, Working, Turn
<1>7. CASE AfterCapture
  <2>1. CASE cpc' = "shm_open"
    BY <1>7, <1>t, <2>1 DEF AfterCapture, ChildEnds, captureData, Founded, CaptureDataOK,
                            Turn, NotStarted
  <2>2. CASE cpc' # "shm_open"
    BY <1>7, <2>2, FoundedEnd DEF AfterCapture, ChildEnds, ChildEnded
  <2> QED
    BY <2>1, <2>2
<1>8. CASE AllocateFails \/ Serialize \/ ChildKilled
  BY <1>8, FoundedEnd DEF AllocateFails, Serialize, ChildKilled, ChildEnds, ChildEnded
<1>9. CASE ShmOpen \/ Ftruncate \/ Mmap
  BY <1>9, <1>t DEF ShmOpen, Ftruncate, Mmap, Allocate, captureData, Founded,
                    CaptureDataOK, Turn, NotStarted
<1>10. CASE Interrupt
  <2>1. interrupt \in BOOLEAN
    BY DEF Founded, CaptureDataOK
  <2>2. CASE TracerEnds /\ cpc' = "crashed" /\ UNCHANGED captureData
    BY <2>2, FoundedEnd DEF ChildEnded
  <2>3. CASE /\ handled /\ interrupt' = TRUE
             /\ UNCHANGED <<targetVars, cpc, tasks, todo, cur, frames, bts, logged,
                            addrSpace, error_code>>
    BY <2>3, <1>t DEF Ordered, Turns, Founded, CaptureDataOK
  <2> QED
    BY <1>10, <1>u, <2>1, <2>2, <2>3, InterruptOnChild
<1>11. CASE TargetLives
  <2>1. TargetTypeOK'
    BY <1>11, TargetTyped DEF TargetLives, Founded
  <2> QED
    BY <1>11, <2>1 DEF TargetLives, captureVars, Founded, CaptureDataOK, Fresh
<1>12. CASE UNCHANGED allVars
  BY <1>12, <1>u DEF allVars
<1> QED
  BY <1>1, <1>2, <1>3, <1>4, <1>5, <1>6, <1>7, <1>8, <1>9, <1>10, <1>11, <1>12
  DEF MainNext, ParentStep, ChildStep

\* Every variable of the two processes keeps its type.
THEOREM MainTypeCorrect == MainSpec => []MainTypeOK
<1>1. MainSpec => [](Ordered /\ Founded)
  BY OrderedInit, OrderedStep, FoundedInit, FoundedStep, PTL DEF MainSpec
<1>2. Ordered /\ Founded => MainTypeOK
  BY DEF Ordered, ControlTypeOK, Founded, MainTypeOK
<1> QED
  BY <1>1, <1>2, PTL

-----------------------------------------------------------------------------
(* Layer 3 is inductive.                                                   *)

Target == Custodial /\ Queued

\* A step that only moves a child which is not at a thread's turn keeps what
\* Capture says of the target.
LEMMA TargetQuiet ==
  ASSUME Target, UNCHANGED <<targetVars, cur>>,
         cpc' = cpc \/ (cpc \notin Turn \cup {"crashed"} /\ cpc' \notin Turn)
  PROVE  Target'
BY DEF Target, Custodial, OnlyTheTurnIsHeld, Queued, LeftoverStop, targetVars, Alive, Turn

\* The end of the child frees the target.  A SIGSTOP is left behind only if the
\* child was cut down in the middle of a turn.
LEMMA TargetFreed ==
  ASSUME TargetTypeOK, Target, TracerEnds, cpc' \in ChildEnded,
         cpc' = "crashed" \/ cpc \notin Turn \cup {"crashed"}
  PROVE  Target' /\ traced' = {}
<1>t. /\ state \in [Thread -> {"running", "dsleep", "trap", "dead"}]
      /\ pend \in [Thread -> SUBSET Signal]
      /\ trapSig \in [Thread -> Signal \cup {NoSig}]
  BY DEF TargetTypeOK
<1>1. \A t \in Thread : state'[t] # "trap" /\ trapSig'[t] = NoSig
  BY <1>t DEF TracerEnds
<1>2. \A t \in Thread : state'[t] = "dead" => pend'[t] = {}
  BY <1>t DEF TracerEnds, Target, Queued
<1>3. cpc' # "crashed" => \A t \in Thread : state[t] # "trap" /\ pend'[t] = pend[t]
  <2>1. cpc' # "crashed" => \A t \in Thread : state[t] # "trap"
    BY <1>t DEF Target, Custodial, OnlyTheTurnIsHeld, Alive
  <2> QED
    BY <2>1, <1>t DEF Target, Queued, TracerEnds
<1>4. ASSUME cpc' # "crashed", NEW t \in Thread, STOP \in pend'[t]
      PROVE  groupStop' \/ t \in swallowed'
  <2>1. STOP \in pend[t] /\ state[t] # "dead"
    BY <1>3, <1>4, <1>t DEF Target, Queued
  <2>2. t \notin traced
    BY <1>4, <2>1 DEF Target, Custodial, OnlyTheTurnIsHeld, Alive
  <2> QED
    BY <1>4, <2>1, <2>2 DEF Target, Queued, LeftoverStop, TracerEnds
<1>5. traced' = {}
  BY DEF TracerEnds
<1> QED
  BY <1>1, <1>2, <1>4, <1>5
  DEF Target, Custodial, OnlyTheTurnIsHeld, Queued, LeftoverStop, ChildEnded, Turn

\* At the start nothing has been done to the target.
LEMMA TargetStart == MainInit => Target /\ Untouched
<1> SUFFICES ASSUME MainInit PROVE Target /\ Untouched
  OBVIOUS
<1>1. /\ traced = {} /\ swallowed = {} /\ cpc = "none"
      /\ \A t \in Thread : state[t] # "trap" /\ pend[t] = {} /\ trapSig[t] = NoSig
  BY DEF MainInit, TargetInit
<1> QED
  BY <1>1 DEF Target, Custodial, OnlyTheTurnIsHeld, Queued, LeftoverStop, Untouched

\* Every step keeps what Capture says of the target.
LEMMA TargetKept ==
  Ordered /\ Founded /\ Target /\ [MainNext]_allVars => Target'
<1> SUFFICES ASSUME Ordered, Founded, Target, [MainNext]_allVars PROVE Target'
  OBVIOUS
<1>t. TargetTypeOK /\ (cpc \in Turn => cur \in Thread)
  BY DEF Founded, CaptureDataOK
<1>u. ASSUME UNCHANGED vars PROVE Target'
  <2>1. UNCHANGED <<targetVars, cur>> /\ cpc' = cpc
    BY <1>u DEF vars, captureVars
  <2> QED
    BY <2>1, TargetQuiet
<1>1. CASE Scan
  <2>1. UNCHANGED <<targetVars, cur>> /\ cpc' = cpc
    BY <1>1 DEF Scan
  <2> QED
    BY <2>1, TargetQuiet
<1>12. CASE BlockInterrupts \/ WaitChild \/ Unblock \/ ReadStatus \/ OpenSegment
           \/ Parse \/ Destroy \/ Warn
  BY <1>12, <1>u DEF BlockInterrupts, WaitChild, Unblock, ReadStatus, OpenSegment, Parse,
                     Destroy, Warn
<1>2. CASE Fork \/ InstallHandlers
  BY <1>2, TargetQuiet DEF Fork, InstallHandlers, captureData, Ordered, Turns, Turn
<1>3. CASE Unmask
  <2>1. cpc = "unmask" /\ cpc \notin Turn \cup {"crashed"}
    BY <1>3 DEF Unmask, Turn
  <2>2. CASE "child" \in pending
    BY <1>3, <1>t, <2>1, <2>2, TargetFreed DEF Unmask, ChildEnds, ChildEnded
  <2>3. CASE "child" \notin pending
    BY <1>3, <2>1, <2>3, TargetQuiet DEF Unmask, captureData, Turn
  <2> QED
    BY <2>2, <2>3
<1>4. CASE ChildCaptures
  <2>1. CaptureStep /\ cpc \in Working
    BY <1>4, CaptureMoves DEF ChildCaptures
  <2> QED
    BY <2>1, FoundedIsTyped, CustodialStep, QueuedStep DEF Next, Target
<1>5. CASE AfterCapture
  <2>1. cpc = "returned" /\ cpc \notin Turn \cup {"crashed"}
    BY <1>5 DEF AfterCapture, Turn
  <2>2. CASE cpc' = "shm_open"
    BY <1>5, <2>1, <2>2, TargetQuiet DEF AfterCapture, ChildEnds, captureData, Turn
  <2>3. CASE cpc' # "shm_open"
    BY <1>5, <1>t, <2>1, <2>3, TargetFreed DEF AfterCapture, ChildEnds, ChildEnded
  <2> QED
    BY <2>2, <2>3
<1>6. CASE AllocateFails \/ Serialize
  <2>1. cpc \notin Turn \cup {"crashed"}
    BY <1>6 DEF AllocateFails, Serialize, Turn
  <2> QED
    BY <1>6, <1>t, <2>1, TargetFreed DEF AllocateFails, Serialize, ChildEnds, ChildEnded
<1>7. CASE ShmOpen \/ Ftruncate \/ Mmap
  BY <1>7, TargetQuiet DEF ShmOpen, Ftruncate, Mmap, Allocate, captureData, Turn
<1>8. CASE Interrupt
  <2>1. interrupt \in BOOLEAN
    BY DEF Founded, CaptureDataOK
  <2>2. CASE TracerEnds /\ cpc' = "crashed"
    BY <1>t, <2>2, TargetFreed DEF ChildEnded
  <2>3. CASE UNCHANGED <<targetVars, cpc, cur>>
    BY <2>3, TargetQuiet
  <2> QED
    BY <1>8, <1>u, <2>1, <2>2, <2>3, InterruptOnChild
<1>9. CASE ChildKilled
  BY <1>9, <1>t, TargetFreed DEF ChildKilled, ChildEnds, ChildEnded
<1>10. CASE TargetLives
  BY <1>10, <1>t, CustodialTarget, QueuedTarget DEF TargetLives, Target
<1>11. CASE UNCHANGED allVars
  BY <1>11, <1>u DEF allVars
<1> QED
  BY <1>1, <1>2, <1>3, <1>4, <1>5, <1>6, <1>7, <1>8, <1>9, <1>10, <1>11, <1>12
  DEF MainNext, ParentStep, ChildStep

\* Every step keeps Untouched: an interrupt can kill the child only before it
\* has its handlers, and then it has traced nobody.
LEMMA UntouchedStep ==
  Ordered /\ Founded /\ Target /\ Untouched /\ [MainNext]_allVars => Untouched'
<1> SUFFICES ASSUME Ordered, Founded, Target, Untouched, [MainNext]_allVars
             PROVE  Untouched'
  OBVIOUS
<1> USE TraceeAssumption DEF Untouched, NotStarted, ChildEnded
<1>t. /\ trapSig \in [Thread -> Signal \cup {NoSig}]
      /\ pend \in [Thread -> SUBSET Signal]
  BY DEF Founded, TargetTypeOK
<1>u. ASSUME UNCHANGED <<targetVars, cpc, exitCode>> PROVE Untouched'
  BY <1>u DEF targetVars
<1>e. ASSUME TracerEnds, cpc' \in ChildEnded, exitCode' # "interrupted" PROVE Untouched'
  BY <1>e DEF TracerEnds, ChildEnded
<1>k. ASSUME TracerEnds, cpc' = "crashed", cpc \in NotStarted PROVE Untouched'
  <2>1. traced = {} /\ swallowed = {} /\ \A t \in Thread : STOP \notin pend[t]
    BY <1>k DEF NotStarted
  <2>2. \A t \in Thread : trapSig[t] = NoSig
    BY <2>1 DEF Target, Custodial, Queued
  <2>3. \A t \in Thread : pend'[t] = pend[t]
    BY <1>k, <1>t, <2>2 DEF TracerEnds
  <2> QED
    BY <1>k, <2>1, <2>3 DEF TracerEnds
<1>1. CASE Scan \/ BlockInterrupts \/ WaitChild \/ Unblock \/ ReadStatus
  BY <1>1, <1>u DEF Scan, BlockInterrupts, WaitChild, Unblock, ReadStatus, vars, captureVars
<1>2. CASE OpenSegment \/ Parse \/ Destroy \/ Warn
  BY <1>2, <1>u DEF OpenSegment, Parse, Destroy, Warn, vars, captureVars
<1>3. CASE Fork \/ InstallHandlers
  BY <1>3 DEF Fork, InstallHandlers, Ordered, Turns, targetVars
<1>4. CASE Unmask
  <2>1. CASE "child" \in pending
    BY <1>4, <1>k, <2>1 DEF Unmask, ChildEnds
  <2>2. CASE "child" \notin pending
    BY <1>4, <2>2 DEF Unmask, targetVars
  <2> QED
    BY <2>1, <2>2
<1>5. CASE ChildCaptures
  <2>1. cpc \in Working /\ cpc' \in After /\ UNCHANGED exitCode
    BY <1>5, CaptureMoves DEF ChildCaptures, mainVars
  <2>2. exitCode' = "none"
    BY <2>1 DEF Ordered, Results, Working, Turn
  <2> QED
    BY <2>1, <2>2 DEF After, Working, Turn
<1>6. CASE AfterCapture
  <2>1. CASE cpc' = "shm_open"
    BY <1>6, <1>u, <2>1 DEF AfterCapture, ChildEnds, Ordered, Results, targetVars
  <2>2. CASE cpc' # "shm_open"
    BY <1>6, <1>e, <2>2 DEF AfterCapture, ChildEnds
  <2> QED
    BY <2>1, <2>2
<1>7. CASE AllocateFails \/ Serialize \/ ChildKilled
  BY <1>7, <1>e DEF AllocateFails, Serialize, ChildKilled, ChildEnds
<1>8. CASE ShmOpen \/ Ftruncate \/ Mmap
  BY <1>8 DEF ShmOpen, Ftruncate, Mmap, Allocate, Ordered, Results, targetVars
<1>9. CASE Interrupt
  <2>1. interrupt \in BOOLEAN
    BY DEF Founded, CaptureDataOK
  <2>2. CASE TracerEnds /\ cpc' = "crashed" /\ cpc \in ChildRunning /\ ~handled
    <3>1. cpc \in NotStarted
      BY <2>2 DEF Ordered, Turns, ChildRunning, Allocating, Working, Turn
    <3> QED
      BY <1>k, <2>2, <3>1
  <2>3. UNCHANGED vars => UNCHANGED <<targetVars, cpc>>
    BY DEF vars, captureVars
  <2> QED
    BY <1>9, <1>u, <2>1, <2>2, <2>3, InterruptOnChild
<1>10. CASE TargetLives
  <2>1. UNCHANGED <<traced, swallowed, cpc, exitCode>>
    BY <1>10 DEF TargetLives, TargetStep, Trap, GroupTrap, Deliver, Exit, Sleep, Wake,
                 SendForeign, Continue, captureVars, mainVars
  <2>2. \A t \in Thread : STOP \notin pend[t] => STOP \notin pend'[t]
    BY <1>10, <1>t DEF TargetLives, TargetStep, Trap, GroupTrap, Deliver, Exit, Sleep, Wake,
                 SendForeign, Continue
  <2> QED
    BY <2>1, <2>2
<1>11. CASE UNCHANGED allVars
  BY <1>11, <1>u DEF allVars, vars, captureVars, mainVars
<1> QED
  BY <1>1, <1>2, <1>3, <1>4, <1>5, <1>6, <1>7, <1>8, <1>9, <1>10, <1>11
  DEF MainNext, ParentStep, ChildStep

MainSafe == Ordered /\ Founded /\ Target /\ Untouched

\* The first three layers hold in every behaviour of the two processes.
LEMMA MainSafeInvariant == MainSpec => []MainSafe
<1>1. MainInit => MainSafe
  BY OrderedInit, FoundedInit, TargetStart DEF MainSafe
<1>2. MainSafe /\ [MainNext]_allVars => MainSafe'
  BY OrderedStep, FoundedStep, TargetKept, UntouchedStep DEF MainSafe
<1> QED
  BY <1>1, <1>2, PTL DEF MainSpec

\* A child that an interrupt kills has not touched the target.
THEOREM SparedByInterrupt == MainSpec => []InterruptSparesTarget
<1>1. MainSafe => InterruptSparesTarget
  BY DEF MainSafe, Ordered, Results, Untouched, InterruptSparesTarget
<1> QED
  BY <1>1, MainSafeInvariant, PTL

\* When dmstack has ended the target is free.
THEOREM FreeAtEnd == MainSpec => []TargetIsFreeAtEnd
<1>1. ASSUME MainSafe, ppc \in ParentEnded
      PROVE  traced = {} /\ \A t \in Thread : state[t] # "trap"
  <2>1. cpc \in NotStarted \cup ChildEnded
    BY <1>1 DEF MainSafe, Ordered, ControlTypeOK, Turns, ParentEnded, NotStarted
  <2> QED
    BY <1>1, <2>1 DEF MainSafe, Untouched, Target, Custodial
<1>2. MainSafe => TargetIsFreeAtEnd
  BY <1>1 DEF TargetIsFreeAtEnd
<1> QED
  BY <1>2, MainSafeInvariant, PTL

\* In the whole program, too, a SIGSTOP of an attach is left behind only where a
\* foreign signal was dropped, a group stop is on, or the child was cut down.
THEOREM NoLeftoverStopInMain == MainSpec => []LeftoverStop
<1>1. MainSafe => LeftoverStop
  BY DEF MainSafe, Target, Queued
<1> QED
  BY <1>1, MainSafeInvariant, PTL

\* Nor does the whole program stop a target that nobody else signals.
THEOREM TargetKeepsRunningInMain == MainSpec => NeverStopsTarget
<1> DEFINE Kept == ~groupStop /\ groupStop' => swallowed # {} \/ cpc = "crashed"
<1>1. ASSUME MainSafe, [MainNext]_allVars PROVE [Kept]_vars
  <2> SUFFICES ASSUME ~groupStop, groupStop' PROVE swallowed # {} \/ cpc = "crashed"
    OBVIOUS
  <2>1. ASSUME NEW t \in Thread, Deliver(t) PROVE swallowed # {} \/ cpc = "crashed"
    <3>1. t \notin traced /\ STOP \in pend[t]
      BY <2>1 DEF Deliver
    <3> QED
      BY <1>1, <3>1 DEF MainSafe, Target, Queued, LeftoverStop
  <2>2. CASE TargetLives
    BY <2>1, <2>2 DEF TargetLives, TargetStep, Trap, GroupTrap, Exit, Sleep, Wake,
                      SendForeign, Continue
  <2>3. ~ParentStep
    BY DEF ParentStep, Scan, BlockInterrupts, Fork, WaitChild, Unblock, ReadStatus,
           OpenSegment, Parse, Destroy, Warn, vars, targetVars
  <2>4. ~CaptureStep
    BY DEF CaptureStep, Create, NextTask, LoopDone, AttachOk, AttachFails,
       WaitStopped, WaitGone, UptCreate, UnwindFrame, UnwindLast, UnwindFails,
       DetachTask, CheckInterrupt, PtraceAttach, Reap, PtraceDetach, targetVars
  <2>5. ~ChildStep
    BY <2>4 DEF ChildStep, ChildCaptures, Unmask, InstallHandlers, AfterCapture,
       AllocateFails, ShmOpen, Ftruncate, Mmap, Allocate, Serialize, ChildEnds,
       TracerEnds, targetVars
  <2>6. ~Interrupt /\ ~ChildKilled /\ allVars' # allVars
    BY DEF Interrupt, ChildInterrupted, ChildKilled, ChildEnds, TracerEnds, allVars,
           vars, targetVars
  <2> QED
    BY <1>1, <2>2, <2>3, <2>5, <2>6 DEF MainNext
<1> QED
  BY <1>1, MainSafeInvariant, PTL DEF MainSpec, NeverStopsTarget

-----------------------------------------------------------------------------
(* Layer 4 is inductive.                                                   *)

\* Neither process brings a thread back to life.
LEMMA DeadStayDeadInMain ==
  ASSUME Founded, [MainNext]_allVars, NEW t \in Thread, t \notin Alive
  PROVE  t \notin Alive'
<1>t. TargetTypeOK /\ state \in [Thread -> {"running", "dsleep", "trap", "dead"}]
  BY DEF Founded, TargetTypeOK
<1>d. state[t] = "dead"
  BY <1>t DEF Alive
<1>u. UNCHANGED state => t \notin Alive'
  BY <1>d DEF Alive
<1>e. TracerEnds => t \notin Alive'
  BY <1>d, <1>t DEF TracerEnds, Alive
<1>v. UNCHANGED targetVars => UNCHANGED state
  BY DEF targetVars
<1>n. [Next]_vars => t \notin Alive'
  BY <1>t, DeadStayDead
<1>1. CASE ParentStep
  BY <1>1, <1>u DEF ParentStep, Scan, BlockInterrupts, Fork, WaitChild, Unblock, ReadStatus,
     OpenSegment, Parse, Destroy, Warn, vars, targetVars
<1>2. CASE ChildCaptures
  BY <1>2, <1>n DEF ChildCaptures, Next
<1>3. CASE Unmask \/ InstallHandlers \/ AfterCapture \/ AllocateFails \/ Serialize
  BY <1>3, <1>e, <1>u, <1>v DEF Unmask, InstallHandlers, AfterCapture, AllocateFails,
                                 Serialize, ChildEnds
<1>4. CASE ShmOpen \/ Ftruncate \/ Mmap
  BY <1>4, <1>u, <1>v DEF ShmOpen, Ftruncate, Mmap, Allocate
<1>5. CASE Interrupt \/ ChildKilled
  BY <1>5, <1>e, <1>u, <1>v DEF Interrupt, ChildInterrupted, ChildKilled, ChildEnds
<1>6. CASE TargetLives \/ UNCHANGED allVars
  BY <1>6, <1>n DEF TargetLives, Next, Environment, allVars
<1> QED
  BY <1>1, <1>2, <1>3, <1>4, <1>5, <1>6 DEF MainNext, ChildStep

\* What is settled stays settled while the child keeps its results.
LEMMA SettledStays ==
  ASSUME Founded, [MainNext]_allVars,
         UNCHANGED <<tasks, bts, logged, error_code, addrSpace>>
  PROVE  /\ AllSettled => AllSettled'
         /\ \A t \in tasks : Settled(t) => Settled(t)'
<1>1. \A t \in tasks : t \notin Alive => t \notin Alive'
  BY DeadStayDeadInMain DEF Founded, CaptureDataOK
<1> QED
  BY <1>1 DEF AllSettled, Settled

\* Every step keeps what Capture says of the tasks.
LEMMA AccountedInMain ==
  Ordered /\ Founded /\ Accounted /\ [MainNext]_allVars => Accounted'
<1> SUFFICES ASSUME Ordered, Founded, Accounted, [MainNext]_allVars PROVE Accounted'
  OBVIOUS
<1> USE DEF Accounted, SuccessAccountsForAll, Turn, Open
<1>v. ASSUME cpc' \notin Working \cup {"returned"} PROVE Accounted'
  BY <1>v DEF Working
<1>n. ASSUME cpc \in Working \cup {"returned"}, [Next]_vars PROVE Accounted'
  <2>1. Typed
    BY <1>n, FoundedIsTyped
  <2> QED
    BY <1>n, <2>1, AccountedStep
<1>u. ASSUME UNCHANGED vars PROVE Accounted'
  <2>1. cpc' = cpc
    BY <1>u DEF vars, captureVars
  <2> QED
    BY <1>n, <1>u, <1>v, <2>1
<1>1. CASE Scan \/ Fork
  BY <1>1, <1>v DEF Scan, Fork, Ordered, Turns, Working
<1>2. CASE BlockInterrupts \/ WaitChild \/ Unblock \/ ReadStatus \/ OpenSegment
           \/ Parse \/ Destroy \/ Warn
  BY <1>2, <1>u DEF BlockInterrupts, WaitChild, Unblock, ReadStatus, OpenSegment, Parse,
                    Destroy, Warn
<1>3. CASE Unmask \/ AfterCapture \/ AllocateFails \/ Serialize \/ ChildKilled
  BY <1>3, <1>v DEF Unmask, AfterCapture, AllocateFails, Serialize, ChildKilled, ChildEnds,
                    Working
<1>4. CASE InstallHandlers
  BY <1>4 DEF InstallHandlers, captureData, Founded, Fresh, NotStarted
<1>5. CASE ChildCaptures
  BY <1>5, <1>n, CaptureMoves DEF ChildCaptures, Next
<1>6. CASE ShmOpen \/ Ftruncate \/ Mmap
  BY <1>6, <1>v DEF ShmOpen, Ftruncate, Mmap, Allocate, Working
<1>7. CASE Interrupt
  <2>1. interrupt \in BOOLEAN
    BY DEF Founded, CaptureDataOK
  <2>2. CASE cpc' = "crashed"
    BY <1>v, <2>2 DEF Working
  <2>3. CASE /\ interrupt' = TRUE
             /\ UNCHANGED <<targetVars, cpc, tasks, todo, cur, frames, bts, logged,
                            addrSpace, error_code>>
    <3>1. \A t \in tasks : Settled(t) => Settled(t)'
      BY <2>3, SettledStays
    <3> QED
      BY <2>3, <3>1 DEF Settled
  <2> QED
    BY <1>7, <1>u, <2>1, <2>2, <2>3, InterruptOnChild
<1>8. CASE TargetLives
  BY <1>8, <1>n, <1>v DEF TargetLives, Next, Environment, captureVars
<1>9. CASE UNCHANGED allVars
  BY <1>9, <1>u DEF allVars
<1> QED
  BY <1>1, <1>2, <1>3, <1>4, <1>5, <1>6, <1>7, <1>8, <1>9 DEF MainNext, ParentStep, ChildStep

\* Every step keeps Honest: stacks are handed over, or printed, only after a
\* capture that reported success.
LEMMA HonestStep ==
  Ordered /\ Founded /\ Accounted /\ Honest /\ [MainNext]_allVars => Honest'
<1> SUFFICES ASSUME Ordered, Founded, Accounted, Honest, [MainNext]_allVars PROVE Honest'
  OBVIOUS
<1> USE DEF Honest, Allocating
<1>s. ASSUME UNCHANGED <<tasks, bts, logged, error_code, addrSpace>>, AllSettled
      PROVE  Honest'
  BY <1>s, SettledStays
<1>v. ASSUME cpc' \notin Allocating, exitCode' # "ok" PROVE Honest'
  BY <1>v
<1>u. ASSUME UNCHANGED <<vars, exitCode>> PROVE Honest'
  BY <1>u, <1>s DEF vars, captureVars
<1>1. CASE Scan \/ Fork
  BY <1>1 DEF Scan, Fork, Ordered, Turns, Results, ChildEnded
<1>2. CASE BlockInterrupts \/ WaitChild \/ Unblock \/ ReadStatus \/ OpenSegment
           \/ Parse \/ Destroy \/ Warn
  BY <1>2, <1>u DEF BlockInterrupts, WaitChild, Unblock, ReadStatus, OpenSegment, Parse,
                    Destroy, Warn
<1>3. CASE Unmask \/ InstallHandlers
  BY <1>3 DEF Unmask, InstallHandlers, ChildEnds, Ordered, Results, ChildEnded
<1>4. CASE ChildCaptures
  <2>1. cpc \in Working /\ cpc' \in After /\ UNCHANGED exitCode
    BY <1>4, CaptureMoves DEF ChildCaptures, mainVars
  <2>2. exitCode' = "none"
    BY <2>1 DEF Ordered, Results, ChildEnded, Working, Turn
  <2> QED
    BY <2>1, <2>2 DEF After, Working, Turn
<1>5. CASE AfterCapture
  <2>1. UNCHANGED <<tasks, bts, logged, error_code, addrSpace>> /\ cpc = "returned"
    BY <1>5 DEF AfterCapture, captureData
  <2>2. CASE error_code = 0
    <3>1. AllSettled
      BY <2>1, <2>2 DEF Accounted, SuccessAccountsForAll, AllSettled, Settled
    <3> QED
      BY <1>s, <2>1, <3>1
  <2>3. CASE error_code # 0
    BY <1>5, <2>3 DEF AfterCapture, ChildEnds
  <2> QED
    BY <2>2, <2>3
<1>6. CASE AllocateFails \/ ShmOpen \/ Ftruncate \/ Mmap \/ Serialize
  <2>1. /\ UNCHANGED <<tasks, bts, logged, error_code, addrSpace>>
        /\ cpc \in Allocating
    BY <1>6 DEF AllocateFails, ShmOpen, Ftruncate, Mmap, Allocate, Serialize, captureData
  <2> QED
    BY <1>s, <2>1
<1>7. CASE Interrupt
  <2>1. interrupt \in BOOLEAN
    BY DEF Founded, CaptureDataOK
  <2>2. CASE /\ interrupt' = TRUE
             /\ UNCHANGED <<cpc, tasks, bts, logged, addrSpace, error_code, exitCode>>
    BY <1>s, <2>2
  <2>3. CASE cpc' = "crashed" /\ exitCode' = "interrupted"
    BY <2>3
  <2> QED
    BY <1>7, <1>u, <2>1, <2>2, <2>3, InterruptOnChild
<1>8. CASE ChildKilled
  BY <1>8 DEF ChildKilled, ChildEnds
<1>9. CASE TargetLives
  BY <1>9, <1>s DEF TargetLives, captureVars, mainVars
<1>10. CASE UNCHANGED allVars
  BY <1>10, <1>u DEF allVars, mainVars
<1> QED
  BY <1>1, <1>2, <1>3, <1>4, <1>5, <1>6, <1>7, <1>8, <1>9, <1>10
  DEF MainNext, ParentStep, ChildStep

\* What is printed is a whole capture: each listed thread has a stack or a log
\* line, or is dead.
THEOREM PrintedIsWhole == MainSpec => []PrintsWholeCapture
<1>1. MainInit => Accounted /\ Honest
  BY DEF MainInit, Accounted, SuccessAccountsForAll, Honest, Allocating, Turn
<1>2. MainSafe /\ Accounted /\ Honest /\ [MainNext]_allVars => (Accounted /\ Honest)'
  BY AccountedInMain, HonestStep DEF MainSafe
<1>3. MainSpec => [](MainSafe /\ Accounted /\ Honest)
  BY <1>1, <1>2, MainSafeInvariant, PTL DEF MainSpec
<1>4. MainSafe /\ Honest => PrintsWholeCapture
  BY DEF MainSafe, Ordered, Results, Honest, AllSettled, Settled, PrintsWholeCapture
<1> QED
  BY <1>3, <1>4, PTL
=============================================================================
