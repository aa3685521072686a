------------------------------ MODULE Capture -------------------------------
(***************************************************************************)
(* BackTraces::BackTraces(tasks), src/dmstack/unwind/backtraces.cpp: the   *)
(* child of dmstack samples the threads of the target one after another.   *)
(* For each it attaches, polls wait4 until the thread reports, unwinds it  *)
(* frame by frame and detaches.  The target lives on all the while         *)
(* (Tracee), and an interrupt may arrive between any two steps.            *)
(***************************************************************************)
EXTENDS Tracee

CONSTANTS NoThread,    \* no thread is being sampled
          MaxFrames,   \* bound: frames unwound of one thread
          MayCrash     \* may the tracer itself be killed

ASSUME CaptureAssumption ==
  /\ NoThread \notin Thread
  /\ MaxFrames \in Nat \ {0}
  /\ MayCrash \in BOOLEAN

VARIABLES cpc,         \* where the child is
          tasks,       \* the threads it was given (thread_map)
          todo,        \* those the loop has not reached
          cur,         \* the thread of this iteration (t)
          frames,      \* addresses in the local BackTrace (bt)
          bts,         \* threads whose BackTrace was kept (bts_)
          logged,      \* history: threads a log line reports a failure for
          addrSpace,   \* did unw_create_addr_space succeed
          interrupt,   \* utils::interrupt, as seen by the child
          error_code   \* error_code_

captureVars == <<cpc, tasks, todo, cur, frames, bts, logged, addrSpace,
                 interrupt, error_code>>
vars == <<targetVars, captureVars>>

Turn    == {"wait", "upt", "unwind", "detach"}     \* cur may be attached
Working == {"create", "loop", "attach", "check"} \cup Turn
Ended   == {"returned", "crashed"}

CaptureDataOK ==
  /\ tasks \subseteq Thread
  /\ todo \subseteq tasks
  /\ cur \in tasks \cup {NoThread}
  /\ frames \in 0..MaxFrames
  /\ bts \subseteq tasks
  /\ logged \subseteq tasks
  /\ addrSpace \in BOOLEAN
  /\ interrupt \in BOOLEAN
  /\ error_code \in {0, -1}

\* The child's locals before the constructor runs on the threads ts.
Fresh(ts) ==
  /\ tasks = ts
  /\ todo = ts
  /\ cur = NoThread
  /\ frames = 0
  /\ bts = {}
  /\ logged = {}
  /\ addrSpace = TRUE
  /\ interrupt = FALSE
  /\ error_code = 0

CaptureInit ==
  /\ cpc = "create"
  /\ \E ts \in (SUBSET Thread) \ {{}} : Fresh(ts)

-----------------------------------------------------------------------------
Goto(pc) == cpc' = pc

\* unw_create_addr_space.  When it fails the constructor leaves at once, and
\* the local rc = -1 never reaches error_code_.
Create ==
  /\ cpc = "create"
  /\ addrSpace' \in BOOLEAN
  /\ Goto(IF addrSpace' THEN "loop" ELSE "returned")
  /\ UNCHANGED <<targetVars, tasks, todo, cur, frames, bts, logged, interrupt,
                 error_code>>

\* Fault: the thread that is taken stays in the list.
NextTaskRepeats ==
  /\ cpc = "loop"
  /\ cur' \in todo
  /\ Goto(IF interrupt THEN "check" ELSE "attach")
  /\ frames' = 0
  /\ UNCHANGED <<targetVars, tasks, todo, bts, logged, addrSpace, interrupt, error_code>>

\* The head of the loop: an unordered_map, so any task may be next.  The
\* interrupt flag is read here and nowhere else before the loop is over.
NextTask ==
  /\ cpc = "loop"
  /\ \E t \in todo :
       /\ cur' = t
       /\ IF interrupt
          THEN Goto("check") /\ UNCHANGED todo
          ELSE Goto("attach") /\ todo' = todo \ {t}
  /\ frames' = 0
  /\ UNCHANGED <<targetVars, tasks, bts, logged, addrSpace, interrupt, error_code>>

LoopDone ==
  /\ cpc = "loop"
  /\ todo = {}
  /\ Goto("check")
  /\ UNCHANGED <<targetVars, tasks, todo, cur, frames, bts, logged, addrSpace,
                 interrupt, error_code>>

AttachOk ==
  /\ cpc = "attach"
  /\ cur \in Alive
  /\ PtraceAttach(cur)
  /\ Goto("wait")
  /\ UNCHANGED <<tasks, todo, cur, frames, bts, logged, addrSpace, interrupt,
                 error_code>>

\* ESRCH (the thread is gone) is silent; a dead leader, a thread with another
\* tracer or one we may not trace gives EPERM, which is logged.
AttachFails ==
  /\ cpc = "attach"
  /\ \/ /\ cur \notin Alive \cup {Leader}
        /\ UNCHANGED logged
     \/ /\ cur \in Alive \cup {Leader}
        /\ logged' = logged \cup {cur}
  /\ Goto("loop")
  /\ UNCHANGED <<targetVars, tasks, todo, cur, frames, bts, addrSpace, interrupt,
                 error_code>>

\* Fault: the child does not wait for the stop it asked for.
WaitSkipped ==
  /\ cpc = "wait"
  /\ Goto("upt")
  /\ UNCHANGED <<targetVars, tasks, todo, cur, frames, bts, logged, addrSpace,
                 interrupt, error_code>>

\* wait4 reports a stop, whatever signal caused it.  Before that it returns 0
\* or EINTR and the loop polls again: a stuttering step.
WaitStopped ==
  /\ cpc = "wait"
  /\ state[cur] = "trap"
  /\ Goto("upt")
  /\ UNCHANGED <<targetVars, tasks, todo, cur, frames, bts, logged, addrSpace,
                 interrupt, error_code>>

\* Fault: only stops end the poll, an exit is read and forgotten.
WaitGoneMissed ==
  /\ cpc = "wait"
  /\ Reported(cur)
  /\ UNCHANGED vars

\* wait4 reports that the thread exited or was killed: rc = ESRCH, logged.
WaitGone ==
  /\ cpc = "wait"
  /\ Reported(cur)
  /\ Reap(cur)
  /\ logged' = logged \cup {cur}
  /\ Goto("detach")
  /\ UNCHANGED <<tasks, todo, cur, frames, bts, addrSpace, interrupt, error_code>>

UptCreate ==
  /\ cpc = "upt"
  /\ \/ Goto("unwind") /\ UNCHANGED logged
     \/ Goto("detach") /\ logged' = logged \cup {cur}
  /\ UNCHANGED <<targetVars, tasks, todo, cur, frames, bts, addrSpace, interrupt,
                 error_code>>

\* The backtrace is kept when it has an address, complete or not.
KeepTrace(n) == bts' = IF n > 0 THEN bts \cup {cur} ELSE bts

\* unw_get_reg and addAddr, then unw_step > 0.
UnwindFrame ==
  /\ cpc = "unwind"
  /\ cur \in Alive
  /\ frames < MaxFrames - 1
  /\ frames' = frames + 1
  /\ UNCHANGED <<targetVars, cpc, tasks, todo, cur, bts, logged, addrSpace,
                 interrupt, error_code>>

\* The last frame: unw_get_reg and addAddr, then unw_step <= 0, the outermost
\* frame or an error.  A thread that was killed answers from the unwinder's
\* cache once it gave a frame.
UnwindLast ==
  /\ cpc = "unwind"
  /\ cur \in Alive \/ frames > 0
  /\ frames' = frames + 1
  /\ KeepTrace(frames')
  /\ Goto("detach")
  /\ UNCHANGED <<targetVars, tasks, todo, cur, logged, addrSpace, interrupt,
                 error_code>>

\* unw_get_reg fails: logged, and what was unwound before is kept.
UnwindFails ==
  /\ cpc = "unwind"
  /\ logged' = logged \cup {cur}
  /\ KeepTrace(frames)
  /\ Goto("detach")
  /\ UNCHANGED <<targetVars, tasks, todo, cur, frames, addrSpace, interrupt,
                 error_code>>

\* Fault: an iteration leaves without its detach.
DetachSkipped ==
  /\ cpc = "detach"
  /\ Goto("loop")
  /\ UNCHANGED <<targetVars, tasks, todo, cur, frames, bts, logged, addrSpace,
                 interrupt, error_code>>

\* Fault: the detach passes the SIGSTOP on.
DetachPassesStop ==
  /\ cpc = "detach"
  /\ state' = [state EXCEPT ![cur] = IF @ = "trap" THEN "running" ELSE @]
  /\ traced' = traced \ {cur}
  /\ pend' = [pend EXCEPT ![cur] = IF cur \in Alive THEN @ \cup {STOP} ELSE @]
  /\ trapSig' = [trapSig EXCEPT ![cur] = NoSig]
  /\ Goto("loop")
  /\ UNCHANGED <<groupStop, swallowed, tasks, todo, cur, frames, bts, logged,
                 addrSpace, interrupt, error_code>>

\* The deferred PTRACE_DETACH, on every way out of an iteration that attached.
DetachTask ==
  /\ cpc = "detach"
  /\ PtraceDetach(cur)
  /\ Goto("loop")
  /\ UNCHANGED <<tasks, todo, cur, frames, bts, logged, addrSpace, interrupt,
                 error_code>>

\* Fault: the interrupt ends the loop and is not reported.
CheckForgotten ==
  /\ cpc = "check"
  /\ Goto("returned")
  /\ UNCHANGED <<targetVars, tasks, todo, cur, frames, bts, logged, addrSpace,
                 interrupt, error_code>>

\* Fault: the error code is an errno value.
CheckWithErrno ==
  /\ cpc = "check"
  /\ error_code' = IF interrupt THEN 4 ELSE error_code
  /\ Goto("returned")
  /\ UNCHANGED <<targetVars, tasks, todo, cur, frames, bts, logged, addrSpace,
                 interrupt>>

\* An interrupt seen after the loop turns the whole capture into a failure.
CheckInterrupt ==
  /\ cpc = "check"
  /\ error_code' = IF interrupt THEN -1 ELSE error_code
  /\ Goto("returned")
  /\ UNCHANGED <<targetVars, tasks, todo, cur, frames, bts, logged, addrSpace,
                 interrupt>>

CaptureStep ==
  \/ Create \/ NextTask \/ LoopDone \/ AttachOk \/ AttachFails
  \/ WaitStopped \/ WaitGone \/ UptCreate
  \/ UnwindFrame \/ UnwindLast \/ UnwindFails \/ DetachTask \/ CheckInterrupt

-----------------------------------------------------------------------------
\* set_interrupt runs in the child: SIGHUP, SIGINT or SIGTERM arrived.
SetInterrupt ==
  /\ cpc \in Working
  /\ ~interrupt
  /\ interrupt' = TRUE
  /\ UNCHANGED <<targetVars, cpc, tasks, todo, cur, frames, bts, logged,
                 addrSpace, error_code>>

\* The child is killed, by SIGKILL or by a fault in the unwinder.
Crash ==
  /\ MayCrash
  /\ cpc \in Working
  /\ TracerEnds
  /\ Goto("crashed")
  /\ UNCHANGED <<tasks, todo, cur, frames, bts, logged, addrSpace, interrupt,
                 error_code>>

Environment == TargetStep /\ UNCHANGED captureVars

Init == TargetInit /\ CaptureInit
Next == CaptureStep \/ SetInterrupt \/ Crash \/ Environment
Spec == Init /\ [][Next]_vars

\* The scheduler runs the child whenever it can do more than poll again, and
\* a thread that may take a signal or join a group stop does so.  Nothing
\* ends an uninterruptible sleep.
Traps(t) == (Trap(t) \/ GroupTrap(t)) /\ UNCHANGED captureVars

FairSpec ==
  /\ Spec
  /\ WF_vars(CaptureStep)
  /\ \A t \in Thread : WF_vars(Traps(t))

-----------------------------------------------------------------------------
(* Properties.                                                             *)

\* Every variable keeps its type.
TypeOK == TargetTypeOK /\ cpc \in Working \cup Ended /\ CaptureDataOK

\* The only live thread the child traces is the one whose turn it is: the
\* detach of an iteration has let its thread go before the next attach.
OnlyTheTurnIsHeld == \A t \in traced \cap Alive : cpc \in Turn /\ t = cur

\* A thread is unwound while it stands still: as long as it is alive, a thread
\* the unwinder works on is in a trap of ours and cannot run.
UnwindsStoppedThread ==
  cpc \in {"upt", "unwind"} /\ cur \in Alive =>
    cur \in traced /\ state[cur] = "trap"

\* Success is honest: when the constructor got to its loop and reports no
\* error, each thread has a stack, or a log line, or is dead.
SuccessAccountsForAll ==
  cpc = "returned" /\ error_code = 0 /\ addrSpace =>
    \A t \in tasks : t \in bts \cup logged \/ t \notin Alive

\* The SIGSTOP of an attach outlives its detach only if the thread stopped for
\* something else first: a foreign signal, which the detach then dropped, or a
\* group stop that is still on.  So a target that nobody signals, and whose
\* tracer is not killed, is never left stopped by being sampled.
LeftoverStop ==
  \A t \in Thread \ traced :
    STOP \in pend[t] => groupStop \/ t \in swallowed \/ cpc = "crashed"

\* Sampling never stops a running target, except after a dropped signal or
\* the death of the tracer.
NeverStopsTarget ==
  [][~groupStop /\ groupStop' => swallowed # {} \/ cpc = "crashed"]_vars

\* wait4 alone can keep the child from ending: on a thread in uninterruptible
\* sleep, on a leader that exited before its threads, or on a thread whose
\* SIGSTOP a SIGCONT flushed.
StuckInWait ==
  /\ cpc = "wait"
  /\ \/ state[cur] = "dsleep"
     \/ state[cur] = "dead" /\ ~Reported(cur)
     \/ state[cur] = "running" /\ pend[cur] = {} /\ ~groupStop

CaptureEnds == <>(cpc \in Ended) \/ <>[]StuckInWait

\* A stopped thread is let go, however long the rest of the capture takes.
EveryTrapEnds == \A t \in Thread : state[t] = "trap" ~> state[t] # "trap"

\* The capture keeps the sampler's promise.
Promise == INSTANCE Custody WITH
  waiting <- todo \cup (IF cpc = "attach" THEN {cur} ELSE {}),
  turn    <- IF cpc \in Turn THEN cur ELSE NoThread,
  held    <- traced \cap Alive,
  sampled <- bts,
  open    <- cpc \notin Ended

ImplementsCustody == Promise!Spec

\* Comment at backtraces.cpp:81, "break the loop while interrupt": an
\* interrupt ends the capture.  The poll for a stop does not read the flag.
InterruptEndsCapture == interrupt ~> cpc \in Ended
=============================================================================
