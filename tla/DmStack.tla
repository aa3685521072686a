------------------------------ MODULE DmStack -------------------------------
(***************************************************************************)
(* main() of src/dmstack/dmstack.cpp on a live process: the parent lists   *)
(* the threads, blocks interrupts and forks; the child samples the target  *)
(* (Capture) and hands its stacks over in a shared memory segment named    *)
(* after the parent's pid; the parent waits, opens the segment, prints and *)
(* unlinks it.  Either process can be interrupted, and the child killed,   *)
(* between any two steps.                                                  *)
(***************************************************************************)
EXTENDS Capture

VARIABLES ppc,       \* where the parent is
          masked,    \* processes that block SIGHUP, SIGINT and SIGTERM
          pending,   \* processes with a blocked interrupt waiting
          handled,   \* has the child installed set_interrupt
          segment,   \* the shared memory object /dmstack_shm<pid>
          exitCode,  \* how the child ended
          rc,        \* rc, and in the end the exit status of dmstack
          noParse,   \* config: no_parse
          printed    \* what was printed of the capture

mainVars == <<ppc, masked, pending, handled, segment, exitCode, rc, noParse, printed>>
allVars  == <<vars, mainVars>>

Process == {"parent", "child"}

Allocating   == {"shm_open", "ftruncate", "mmap", "serialize"}
ChildRunning == {"unmask", "handlers", "returned"} \cup Working \cup Allocating
ChildEnded   == {"exited", "crashed"}

ParentRunning == {"scan", "block", "fork", "wait", "unblock", "status", "open",
                  "parse", "destroy", "warn"}
ParentEnded   == {"returned", "exited", "killed"}

Failure == 255     \* what wait reports of a child that returns -1
ECHILD  == 10

MainTypeOK ==
  /\ TargetTypeOK /\ CaptureDataOK
  /\ cpc \in {"none"} \cup ChildRunning \cup ChildEnded
  /\ ppc \in ParentRunning \cup ParentEnded
  /\ masked \subseteq Process /\ pending \subseteq masked
  /\ handled \in BOOLEAN /\ noParse \in BOOLEAN
  /\ segment \in {"none", "stale", "empty", "sized", "full"}
  /\ exitCode \in {"none", "interrupted", "killed", "ok", "error"}
  /\ rc \in {-1, 0, 1, ECHILD, Failure}
  /\ printed \in {"nothing", "addresses", "stacks"}

\* The name is reused with the pid, and earlier runs may have left a segment.
MainInit ==
  /\ TargetInit
  /\ Fresh({}) /\ cpc = "none"
  /\ ppc = "scan"
  /\ masked = {} /\ pending = {}
  /\ handled = FALSE
  /\ segment \in {"none", "stale"}
  /\ exitCode = "none"
  /\ rc = -1
  /\ noParse \in BOOLEAN
  /\ printed = "nothing"

-----------------------------------------------------------------------------
(* The parent.                                                             *)

\* getThreads: the pid itself with -T, else the entries of /proc/<pid>/task,
\* among them threads that die while they are read; nothing when the
\* directory cannot be opened, and then main returns 0.
Scan ==
  /\ ppc = "scan"
  /\ \E ts \in {{}, {Leader}} \cup {S \in SUBSET Thread : Alive \subseteq S} :
       /\ tasks' = ts /\ todo' = ts
       /\ IF ts = {} THEN ppc' = "returned" /\ rc' = 0
                     ELSE ppc' = "block" /\ UNCHANGED rc
  /\ UNCHANGED <<targetVars, cpc, cur, frames, bts, logged, addrSpace, interrupt,
                 error_code, masked, pending, handled, segment, exitCode,
                 noParse, printed>>

\* Fault: the parent can be interrupted while it waits.
BlockForgotten ==
  /\ ppc = "block"
  /\ ppc' = "fork"
  /\ UNCHANGED <<vars, masked, pending, handled, segment, exitCode, rc, noParse,
                 printed>>

BlockInterrupts ==
  /\ ppc = "block"
  /\ masked' = masked \cup {"parent"}
  /\ ppc' = "fork"
  /\ UNCHANGED <<vars, pending, handled, segment, exitCode, rc, noParse, printed>>

\* The child inherits the mask, not the pending signals.  A failed fork
\* returns -1, and the parent goes on to wait for a child it does not have.
Fork ==
  /\ ppc = "fork"
  /\ ppc' = "wait"
  /\ \/ /\ cpc' = "unmask"
        /\ masked' = IF "parent" \in masked THEN Process ELSE masked
     \/ UNCHANGED <<cpc, masked>>
  /\ UNCHANGED <<targetVars, tasks, todo, cur, frames, bts, logged, addrSpace,
                 interrupt, error_code, pending, handled, segment, exitCode,
                 rc, noParse, printed>>

\* Fault: the parent only looks whether the child has ended (WNOHANG).
WaitPolled ==
  /\ ppc = "wait"
  /\ ppc' = "unblock"
  /\ UNCHANGED <<vars, masked, pending, handled, segment, exitCode, rc, noParse,
                 printed>>

\* Fault: the parent waits for an exit, and a killed child has none.
WaitExitOnly ==
  /\ ppc = "wait"
  /\ cpc \in {"none", "exited"}
  /\ ppc' = "unblock"
  /\ UNCHANGED <<vars, masked, pending, handled, segment, exitCode, rc, noParse,
                 printed>>

WaitChild ==
  /\ ppc = "wait"
  /\ cpc \in {"none"} \cup ChildEnded
  /\ ppc' = "unblock"
  /\ UNCHANGED <<vars, masked, pending, handled, segment, exitCode, rc, noParse,
                 printed>>

\* The parent never installs a handler for interrupts: a pending one kills it.
Unblock ==
  /\ ppc = "unblock"
  /\ masked' = masked \ {"parent"}
  /\ pending' = pending \ {"parent"}
  /\ ppc' = IF "parent" \in pending THEN "killed" ELSE "status"
  /\ UNCHANGED <<vars, handled, segment, exitCode, rc, noParse, printed>>

\* Fault: the wait status is taken for the exit status.
ReadStatusRaw ==
  /\ ppc = "status"
  /\ rc' = CASE exitCode = "none"  -> ECHILD
             [] exitCode = "ok"    -> 0
             [] exitCode = "error" -> Failure * 256
             [] OTHER              -> rc
  /\ ppc' = IF rc' = 0 /\ ~noParse THEN "open" ELSE "warn"
  /\ UNCHANGED <<vars, masked, pending, handled, segment, exitCode, noParse, printed>>

\* The exit status of the child, -1 for a child killed by a signal.
ReadStatus ==
  /\ ppc = "status"
  /\ rc' = CASE exitCode = "none"  -> ECHILD
             [] exitCode = "ok"    -> 0
             [] exitCode = "error" -> Failure
             [] OTHER              -> rc
  /\ ppc' = IF rc' = 0 /\ ~noParse THEN "open" ELSE "warn"
  /\ UNCHANGED <<vars, masked, pending, handled, segment, exitCode, noParse, printed>>

\* SharedMemory::open; on failure exit(1), which skips the destructor of share.
OpenSegment ==
  /\ ppc = "open"
  /\ \/ segment \in {"stale", "sized", "full"} /\ ppc' = "parse" /\ UNCHANGED rc
     \/ ppc' = "exited" /\ rc' = 1
  /\ UNCHANGED <<vars, masked, pending, handled, segment, exitCode, noParse, printed>>

\* deserializeFromBuffer and genResult.  An exception is caught and reported;
\* one in a symbol loading thread, or a fault, takes the process down.
Parse ==
  /\ ppc = "parse"
  /\ \/ ppc' = "destroy" /\ printed' = "stacks"
     \/ ppc' \in {"destroy", "killed"} /\ UNCHANGED printed
  /\ UNCHANGED <<vars, masked, pending, handled, segment, exitCode, rc, noParse>>

\* Fault: share is opened without destroy_on_exit.
DestroyForgotten ==
  /\ ppc = "destroy"
  /\ ppc' = "warn"
  /\ UNCHANGED <<vars, masked, pending, handled, segment, exitCode, rc, noParse,
                 printed>>

\* share leaves its scope: munmap, close, shm_unlink.
Destroy ==
  /\ ppc = "destroy"
  /\ segment' = "none"
  /\ ppc' = "warn"
  /\ UNCHANGED <<vars, masked, pending, handled, exitCode, rc, noParse, printed>>

\* isPidStopped for each task, which only logs.
Warn ==
  /\ ppc = "warn"
  /\ ppc' = "returned"
  /\ UNCHANGED <<vars, masked, pending, handled, segment, exitCode, rc, noParse,
                 printed>>

ParentStep == \/ Scan \/ BlockInterrupts \/ Fork \/ WaitChild \/ Unblock
              \/ ReadStatus \/ OpenSegment \/ Parse \/ Destroy \/ Warn

-----------------------------------------------------------------------------
(* The child.                                                              *)

captureData == <<tasks, todo, cur, frames, bts, logged, addrSpace, interrupt,
                 error_code>>

\* The process is over, and so is its tracing.
ChildEnds(pc, code) ==
  /\ cpc' = pc
  /\ exitCode' = code
  /\ TracerEnds
  /\ masked' = masked \ {"child"}
  /\ pending' = pending \ {"child"}

Unmask ==
  /\ cpc = "unmask"
  /\ IF "child" \in pending
     THEN ChildEnds("crashed", "interrupted")
     ELSE /\ cpc' = "handlers"
          /\ masked' = masked \ {"child"}
          /\ UNCHANGED <<targetVars, pending, exitCode>>
  /\ UNCHANGED <<captureData, ppc, handled, segment, rc, noParse, printed>>

\* Fault: the child keeps the default action of the interrupts.
InstallForgotten ==
  /\ cpc = "handlers"
  /\ cpc' = "create"
  /\ UNCHANGED <<targetVars, captureData, ppc, masked, pending, handled, segment,
                 exitCode, rc, noParse, printed>>

InstallHandlers ==
  /\ cpc = "handlers"
  /\ handled' = TRUE
  /\ cpc' = "create"
  /\ UNCHANGED <<targetVars, captureData, ppc, masked, pending, segment,
                 exitCode, rc, noParse, printed>>

ChildCaptures == CaptureStep /\ UNCHANGED mainVars

\* Fault: the error code of the capture is not looked at.
AfterCaptureAlways ==
  /\ cpc = "returned"
  /\ IF noParse
     THEN ChildEnds("exited", "ok") /\ printed' = "addresses"
     ELSE cpc' = "shm_open" /\ UNCHANGED <<targetVars, exitCode, masked, pending, printed>>
  /\ UNCHANGED <<captureData, ppc, handled, segment, rc, noParse>>

\* After the constructor: give up on an error, print with --no-parse, or go on
\* to allocate the segment.
AfterCapture ==
  /\ cpc = "returned"
  /\ \/ /\ error_code # 0
        /\ ChildEnds("exited", "error")
        /\ UNCHANGED printed
     \/ /\ error_code = 0 /\ noParse
        /\ ChildEnds("exited", "ok")
        /\ printed' = "addresses"
     \/ /\ error_code = 0 /\ ~noParse
        /\ cpc' = "shm_open"
        /\ UNCHANGED <<targetVars, exitCode, masked, pending, printed>>
  /\ UNCHANGED <<captureData, ppc, handled, segment, rc, noParse>>

\* Fault: rc stays 0 when there is no segment to write to.
AllocateFailsUnseen ==
  /\ cpc \in {"shm_open", "ftruncate", "mmap"}
  /\ ChildEnds("exited", "ok")
  /\ UNCHANGED <<captureData, ppc, handled, segment, rc, noParse, printed>>

\* SharedMemory::allocate fails: rc = -1, and what was created stays.
AllocateFails ==
  /\ cpc \in {"shm_open", "ftruncate", "mmap"}
  /\ ChildEnds("exited", "error")
  /\ UNCHANGED <<captureData, ppc, handled, segment, rc, noParse, printed>>

Allocate(pc, next, from, to) ==
  /\ cpc = pc
  /\ segment = from
  /\ segment' = to
  /\ cpc' = next
  /\ UNCHANGED <<targetVars, captureData, ppc, masked, pending, handled,
                 exitCode, rc, noParse, printed>>

\* O_CREAT | O_EXCL: an existing segment is an error, never reused.
ShmOpen   == Allocate("shm_open", "ftruncate", "none", "empty")
Ftruncate == Allocate("ftruncate", "mmap", "empty", "sized")
Mmap      == Allocate("mmap", "serialize", "sized", "sized")

Serialize ==
  /\ cpc = "serialize"
  /\ segment' = "full"
  /\ ChildEnds("exited", "ok")
  /\ UNCHANGED <<captureData, ppc, handled, rc, noParse, printed>>

ChildStep == \/ Unmask \/ InstallHandlers \/ ChildCaptures \/ AfterCapture
             \/ AllocateFails \/ ShmOpen \/ Ftruncate \/ Mmap \/ Serialize

-----------------------------------------------------------------------------
(* Signals.                                                                *)

\* Ctrl-C reaches both processes, kill one of them.  What is blocked waits;
\* what meets the default action kills; the child's handler sets its flag.
ParentInterrupted ==
  /\ ppc \in ParentRunning
  /\ IF "parent" \in masked THEN UNCHANGED ppc ELSE ppc' = "killed"

ChildInterrupted ==
  /\ cpc \in ChildRunning
  /\ IF handled \/ "child" \in masked
     THEN /\ interrupt' = (interrupt \/ "child" \notin masked)
          /\ UNCHANGED <<targetVars, cpc, exitCode>>
     ELSE /\ cpc' = "crashed" /\ exitCode' = "interrupted"
          /\ TracerEnds
          /\ UNCHANGED interrupt

Interrupt ==
  /\ \E P \in (SUBSET Process) \ {{}} :
       /\ IF "parent" \in P THEN ParentInterrupted ELSE UNCHANGED ppc
       /\ IF "child" \in P THEN ChildInterrupted
                           ELSE UNCHANGED <<targetVars, cpc, exitCode, interrupt>>
       /\ pending' = pending \cup (P \cap masked)
  /\ UNCHANGED <<tasks, todo, cur, frames, bts, logged, addrSpace, error_code,
                 masked, handled, segment, rc, noParse, printed>>

\* SIGKILL, a fault in the unwinder, or SIGBUS when the segment cannot grow.
ChildKilled ==
  /\ MayCrash
  /\ cpc \in ChildRunning
  /\ ChildEnds("crashed", "killed")
  /\ UNCHANGED <<captureData, ppc, handled, segment, rc, noParse, printed>>

TargetLives == TargetStep /\ UNCHANGED <<captureVars, mainVars>>

MainNext == ParentStep \/ ChildStep \/ Interrupt \/ ChildKilled \/ TargetLives

MainSpec == MainInit /\ [][MainNext]_allVars

\* Both processes are scheduled, and stops of the target are not put off.
MainTraps(t) == (Trap(t) \/ GroupTrap(t)) /\ UNCHANGED <<captureVars, mainVars>>

MainFairSpec ==
  /\ MainSpec
  /\ WF_allVars(ParentStep)
  /\ WF_allVars(ChildStep)
  /\ \A t \in Thread : WF_allVars(MainTraps(t))

-----------------------------------------------------------------------------
(* Properties.                                                             *)

\* What the parent parses is the complete segment of this run's child, never
\* one an earlier run left under the same name or one still being written.
ParsesOwnSegment == ppc = "parse" => segment = "full"

\* Nothing is printed of a capture that was interrupted or cut short: whoever
\* prints, each listed thread has a stack, or a log line, or is dead, unless
\* the address space could not be created.
PrintsWholeCapture ==
  printed # "nothing" /\ addrSpace =>
    \A t \in tasks : t \in bts \cup logged \/ t \notin Alive

\* An interrupt kills the child only before it has touched the target: no
\* thread is traced, and none has a stop of ours waiting for it.
InterruptSparesTarget ==
  exitCode = "interrupted" =>
    traced = {} /\ swallowed = {} /\ \A t \in Thread : STOP \notin pend[t]

\* An interrupt never ends the parent while its child still works.
ParentOutlivesChild ==
  ppc \in ParentEnded => cpc \in {"none"} \cup ChildEnded

\* Once dmstack has ended no thread is traced or sits in a trap.
TargetIsFreeAtEnd ==
  ppc \in ParentEnded => traced = {} /\ \A t \in Thread : state[t] # "trap"

\* A segment stays behind a normal return only if it was there before, or the
\* child failed while it allocated or filled it.
SegmentLeaks ==
  ppc = "returned" /\ segment \notin {"none", "stale"} =>
    exitCode \in {"killed", "error"}

\* Both processes end, unless the child waits for a thread that cannot stop.
MainEnds == <>(ppc \in ParentEnded) \/ <>[]StuckInWait
=============================================================================
