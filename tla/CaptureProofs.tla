---------------------------- MODULE CaptureProofs ---------------------------
(***************************************************************************)
(* Theorems about Capture, for every target, every set of foreign signals  *)
(* and every bound.  The inductive invariant is built in four layers, each *)
(* proved with the help of those before it:                                *)
(*   Typed      every variable has its type, and the loop has a thread     *)
(*              whenever it works on one;                                  *)
(*   Custodial  who is traced, who stands in a trap, where the loop is;    *)
(*   Queued     where a SIGSTOP of an attach can still be;                 *)
(*   Accounted  what has become of each task.                              *)
(***************************************************************************)
EXTENDS Capture, TLAPS

-----------------------------------------------------------------------------
(* Layer 1: types.                                                         *)

Typed ==
  /\ TypeOK
  /\ cpc \in Turn \cup {"attach"} => cur \in tasks
  /\ cpc \in {"create", "attach", "wait", "upt"} => frames = 0
  /\ cpc = "unwind" => frames < MaxFrames

\* The steps of the target, and of the tracer's system calls, keep the types
\* of the target's variables.
LEMMA TargetTyped ==
  ASSUME TargetTypeOK, TargetStep
  PROVE  TargetTypeOK'
<1> USE TraceeAssumption DEF TargetTypeOK, Signal
<1>1. ASSUME NEW t \in Thread, Trap(t) PROVE TargetTypeOK'
  BY <1>1 DEF Trap
<1>2. ASSUME NEW t \in Thread, GroupTrap(t) PROVE TargetTypeOK'
  BY <1>2 DEF GroupTrap
<1>3. ASSUME NEW t \in Thread, Deliver(t) PROVE TargetTypeOK'
  BY <1>3 DEF Deliver
<1>4. ASSUME NEW t \in Thread, Exit(t) PROVE TargetTypeOK'
  BY <1>4 DEF Exit
<1>5. ASSUME NEW t \in Thread, Sleep(t) PROVE TargetTypeOK'
  BY <1>5 DEF Sleep
<1>6. ASSUME NEW t \in Thread, Wake(t) PROVE TargetTypeOK'
  BY <1>6 DEF Wake
<1>7. ASSUME NEW t \in Thread, SendForeign(t) PROVE TargetTypeOK'
  BY <1>7 DEF SendForeign
<1>8. CASE Continue
  BY <1>8 DEF Continue
<1> QED
  BY <1>1, <1>2, <1>3, <1>4, <1>5, <1>6, <1>7, <1>8 DEF TargetStep

\* The tracer's ptrace and wait4 calls, and its end, keep the target's types.
LEMMA CallsTyped ==
  ASSUME TargetTypeOK, NEW t \in Thread
  PROVE  /\ PtraceAttach(t) => TargetTypeOK'
         /\ Reap(t) => TargetTypeOK'
         /\ PtraceDetach(t) => TargetTypeOK'
         /\ TracerEnds => TargetTypeOK'
<1> USE TraceeAssumption DEF TargetTypeOK, Signal
<1>1. PtraceAttach(t) => TargetTypeOK'
  BY DEF PtraceAttach
<1>2. Reap(t) => TargetTypeOK'
  BY DEF Reap
<1>3. PtraceDetach(t) => TargetTypeOK'
  BY DEF PtraceDetach, targetVars
<1>4. TracerEnds => TargetTypeOK'
  BY DEF TracerEnds
<1> QED
  BY <1>1, <1>2, <1>3, <1>4

\* The constructor starts well typed, with no thread in hand.
LEMMA TypedInit == Init => Typed
<1>1. TargetInit => TargetTypeOK
  BY DEF TargetInit, TargetTypeOK
<1>2. ASSUME CaptureInit PROVE CaptureDataOK
  <2>1. PICK ts \in SUBSET Thread : Fresh(ts)
    BY <1>2 DEF CaptureInit
  <2>2. frames \in 0..MaxFrames
    BY <2>1, CaptureAssumption DEF Fresh
  <2> QED
    BY <2>1, <2>2 DEF Fresh, CaptureDataOK
<1>3. CaptureInit => cpc = "create" /\ frames = 0
  BY DEF CaptureInit, Fresh
<1> QED
  BY <1>1, <1>2, <1>3 DEF Init, Typed, TypeOK, Turn, Working

\* Every step of the program keeps layer 1: the loop works on a task only, and
\* the frame bound is never passed.
LEMMA TypedStep == Typed /\ [Next]_vars => Typed'
<1> SUFFICES ASSUME Typed, [Next]_vars PROVE Typed'
  OBVIOUS
<1> USE CaptureAssumption
<1>t. TargetTypeOK
  BY DEF Typed, TypeOK
<1>c. TargetTypeOK' => TypeOK' <=> cpc' \in Working \cup Ended /\ CaptureDataOK'
  BY DEF TypeOK
<1>u. UNCHANGED targetVars => TargetTypeOK'
  BY <1>t DEF targetVars, TargetTypeOK, Signal
<1>w. cur \in Thread \/ cpc \notin Turn \cup {"attach"}
  BY DEF Typed, TypeOK, CaptureDataOK
<1>1. CASE Create
  BY <1>1, <1>u DEF Create, Goto, Typed, TypeOK, CaptureDataOK, Turn, Working, Ended
<1>2. CASE NextTask
  BY <1>2, <1>u DEF NextTask, Goto, Typed, TypeOK, CaptureDataOK, Turn, Working, Ended
<1>3. CASE LoopDone
  BY <1>3, <1>u DEF LoopDone, Goto, Typed, TypeOK, CaptureDataOK, Turn, Working, Ended
<1>4. CASE AttachOk
  <2>1. TargetTypeOK'
    BY <1>4, <1>t, <1>w, CallsTyped DEF AttachOk, Turn
  <2> QED
    BY <1>4, <2>1 DEF AttachOk, Goto, Typed, TypeOK, CaptureDataOK, Turn, Working, Ended
<1>5. CASE AttachFails
  BY <1>5, <1>u DEF AttachFails, Goto, Typed, TypeOK, CaptureDataOK, Turn, Working, Ended
<1>6. CASE WaitStopped
  BY <1>6, <1>u DEF WaitStopped, Goto, Typed, TypeOK, CaptureDataOK, Turn, Working, Ended
<1>7. CASE WaitGone
  <2>1. TargetTypeOK'
    BY <1>7, <1>t, <1>w, CallsTyped DEF WaitGone, Turn
  <2> QED
    BY <1>7, <2>1 DEF WaitGone, Goto, Typed, TypeOK, CaptureDataOK, Turn, Working, Ended
<1>8. CASE UptCreate
  BY <1>8, <1>u DEF UptCreate, Goto, Typed, TypeOK, CaptureDataOK, Turn, Working, Ended
<1>9. CASE UnwindFrame
  BY <1>9, <1>u DEF UnwindFrame, Goto, Typed, TypeOK, CaptureDataOK, Turn, Working, Ended
<1>10. CASE UnwindLast
  BY <1>10, <1>u DEF UnwindLast, KeepTrace, Goto, Typed, TypeOK, CaptureDataOK, Turn, Working, Ended
<1>11. CASE UnwindFails
  BY <1>11, <1>u DEF UnwindFails, KeepTrace, Goto, Typed, TypeOK, CaptureDataOK, Turn, Working, Ended
<1>12. CASE DetachTask
  <2>1. TargetTypeOK'
    BY <1>12, <1>t, <1>w, CallsTyped DEF DetachTask, Turn
  <2> QED
    BY <1>12, <2>1 DEF DetachTask, Goto, Typed, TypeOK, CaptureDataOK, Turn, Working, Ended
<1>13. CASE CheckInterrupt
  BY <1>13, <1>u DEF CheckInterrupt, Goto, Typed, TypeOK, CaptureDataOK, Turn, Working, Ended
<1>14. CASE SetInterrupt
  BY <1>14, <1>u DEF SetInterrupt, Goto, Typed, TypeOK, CaptureDataOK, Turn, Working, Ended
<1>15. CASE Crash
  <2>1. TargetTypeOK'
    BY <1>15, <1>t, TraceeAssumption, CallsTyped DEF Crash
  <2> QED
    BY <1>15, <2>1 DEF Crash, Goto, Typed, TypeOK, CaptureDataOK, Turn, Working, Ended
<1>16. CASE Environment
  <2>1. TargetTypeOK'
    BY <1>16, <1>t, TargetTyped DEF Environment
  <2> QED
    BY <1>16, <2>1 DEF Environment, captureVars, Typed, TypeOK, CaptureDataOK
<1>17. CASE UNCHANGED vars
  BY <1>17, <1>u DEF vars, captureVars, Typed, TypeOK, CaptureDataOK
<1> QED
  BY <1>1, <1>2, <1>3, <1>4, <1>5, <1>6, <1>7, <1>8, <1>9, <1>10, <1>11, <1>12,
     <1>13, <1>14, <1>15, <1>16, <1>17 DEF Next, CaptureStep

\* Every variable of Capture keeps its type in every behaviour of the program.
THEOREM TypeCorrect == Spec => []TypeOK
<1>1. Spec => []Typed
  BY TypedInit, TypedStep, PTL DEF Spec
<1>2. Typed => TypeOK
  BY DEF Typed
<1> QED
  BY <1>1, <1>2, PTL

-----------------------------------------------------------------------------
(* Layer 2: custody.                                                       *)

Custodial ==
  /\ \A t \in Thread : state[t] = "trap" => t \in traced
  /\ OnlyTheTurnIsHeld
  /\ cpc \in {"upt", "unwind", "detach"} => state[cur] \in {"trap", "dead"}

\* At the start nobody is traced and nobody is in a trap.
LEMMA CustodialInit == Init => Custodial
<1> SUFFICES ASSUME Init PROVE Custodial
  OBVIOUS
<1>1. traced = {} /\ cpc = "create" /\ \A t \in Thread : state[t] # "trap"
  BY DEF Init, TargetInit, CaptureInit
<1> QED
  BY <1>1 DEF Custodial, OnlyTheTurnIsHeld

\* A step of the target takes no thread into custody, and a thread that stands
\* in a trap leaves it only by dying.
LEMMA CustodialTarget ==
  ASSUME TargetTypeOK, cpc \in Turn => cur \in Thread, Custodial, TargetStep,
         UNCHANGED captureVars
  PROVE  Custodial'
<1> USE DEF Custodial, OnlyTheTurnIsHeld, Alive, captureVars
<1>t. /\ state \in [Thread -> {"running", "dsleep", "trap", "dead"}]
      /\ cpc \in Turn => cur \in Thread
  BY DEF TargetTypeOK
<1>1. ASSUME NEW t \in Thread, Trap(t) PROVE Custodial'
  BY <1>1, <1>t DEF Trap, Turn
<1>2. ASSUME NEW t \in Thread, GroupTrap(t) PROVE Custodial'
  BY <1>2, <1>t DEF GroupTrap, Turn
<1>3. ASSUME NEW t \in Thread, Deliver(t) PROVE Custodial'
  BY <1>3 DEF Deliver
<1>4. ASSUME NEW t \in Thread, Exit(t) PROVE Custodial'
  BY <1>4, <1>t DEF Exit, Turn
<1>5. ASSUME NEW t \in Thread, Sleep(t) PROVE Custodial'
  BY <1>5, <1>t DEF Sleep, Turn
<1>6. ASSUME NEW t \in Thread, Wake(t) PROVE Custodial'
  BY <1>6, <1>t DEF Wake, Turn
<1>7. ASSUME NEW t \in Thread, SendForeign(t) PROVE Custodial'
  BY <1>7 DEF SendForeign
<1>8. CASE Continue
  BY <1>8 DEF Continue
<1> QED
  BY <1>1, <1>2, <1>3, <1>4, <1>5, <1>6, <1>7, <1>8 DEF TargetStep

\* Every step keeps layer 2.  The attach needs that the detach before it has let
\* go, and the detach needs that its thread is in a trap or dead.
LEMMA CustodialStep == Typed /\ Custodial /\ [Next]_vars => Custodial'
<1> SUFFICES ASSUME Typed, Custodial, [Next]_vars PROVE Custodial'
  OBVIOUS
<1> USE DEF Custodial, OnlyTheTurnIsHeld, Alive, Turn, Goto, targetVars
<1>t. /\ state \in [Thread -> {"running", "dsleep", "trap", "dead"}]
      /\ traced \subseteq Thread
      /\ cpc \in Turn \cup {"attach"} => cur \in Thread
  BY DEF Typed, TypeOK, TargetTypeOK, CaptureDataOK
<1>1. CASE Create
  BY <1>1 DEF Create
<1>2. CASE NextTask
  BY <1>2 DEF NextTask
<1>3. CASE LoopDone
  BY <1>3 DEF LoopDone
<1>4. CASE AttachOk
  BY <1>4, <1>t DEF AttachOk, PtraceAttach
<1>5. CASE AttachFails
  BY <1>5 DEF AttachFails
<1>6. CASE WaitStopped
  BY <1>6 DEF WaitStopped
<1>7. CASE WaitGone
  BY <1>7, <1>t DEF WaitGone, Reported, Reap
<1>8. CASE UptCreate
  BY <1>8 DEF UptCreate
<1>9. CASE UnwindFrame
  BY <1>9 DEF UnwindFrame
<1>10. CASE UnwindLast
  BY <1>10 DEF UnwindLast
<1>11. CASE UnwindFails
  BY <1>11 DEF UnwindFails
<1>12. CASE DetachTask
  <2>1. CASE state[cur] = "trap"
    BY <1>12, <2>1, <1>t DEF DetachTask, PtraceDetach
  <2>2. CASE state[cur] # "trap"
    BY <1>12, <2>2, <1>t DEF DetachTask, PtraceDetach
  <2> QED
    BY <2>1, <2>2
<1>13. CASE CheckInterrupt
  BY <1>13 DEF CheckInterrupt
<1>14. CASE SetInterrupt
  BY <1>14 DEF SetInterrupt
<1>15. CASE Crash
  BY <1>15, <1>t DEF Crash, TracerEnds
<1>16. CASE Environment
  <2>1. TargetTypeOK /\ (cpc \in Turn => cur \in Thread)
    BY DEF Typed, TypeOK, CaptureDataOK
  <2>2. TargetStep /\ UNCHANGED captureVars
    BY <1>16 DEF Environment
  <2> QED
    BY <2>1, <2>2, CustodialTarget
<1>17. CASE UNCHANGED vars
  BY <1>17 DEF vars, captureVars
<1> QED
  BY <1>1, <1>2, <1>3, <1>4, <1>5, <1>6, <1>7, <1>8, <1>9, <1>10, <1>11, <1>12,
     <1>13, <1>14, <1>15, <1>16, <1>17 DEF Next, CaptureStep

\* The child never holds a live thread other than the one whose turn it is.
THEOREM OneHeld == Spec => []OnlyTheTurnIsHeld
<1>1. Spec => [](Typed /\ Custodial)
  BY TypedInit, TypedStep, CustodialInit, CustodialStep, PTL DEF Spec
<1>2. Custodial => OnlyTheTurnIsHeld
  BY DEF Custodial
<1> QED
  BY <1>1, <1>2, PTL

\* A live thread is unwound only while it stands in a trap of ours.
THEOREM Unwinding == Spec => []UnwindsStoppedThread
<1>1. Spec => [](Typed /\ Custodial)
  BY TypedInit, TypedStep, CustodialInit, CustodialStep, PTL DEF Spec
<1>2. Typed /\ Custodial => UnwindsStoppedThread
  BY DEF Custodial, Typed, TypeOK, CaptureDataOK, UnwindsStoppedThread, Alive, Turn
<1> QED
  BY <1>1, <1>2, PTL

-----------------------------------------------------------------------------
(* Layer 3: where the SIGSTOP of an attach can be.                         *)

Queued ==
  /\ \A t \in Thread : state[t] = "dead" => pend[t] = {}
  /\ \A t \in Thread : state[t] # "trap" => trapSig[t] = NoSig
  /\ \A t \in Thread : state[t] = "trap" /\ STOP \in pend[t] =>
                         trapSig[t] \in Foreign \/ groupStop
  /\ LeftoverStop

\* At the start no signal is queued, so none of ours.
LEMMA QueuedInit == Init => Queued
<1> SUFFICES ASSUME Init PROVE Queued
  OBVIOUS
<1>1. \A t \in Thread : pend[t] = {} /\ trapSig[t] = NoSig
  BY DEF Init, TargetInit
<1> QED
  BY <1>1 DEF Queued, LeftoverStop

\* A step of the target moves our SIGSTOP out of the queue only by a trap, and
\* sets the group stop only for a SIGSTOP that was allowed to be there.
LEMMA QueuedTarget ==
  ASSUME TargetTypeOK, Queued, TargetStep, UNCHANGED captureVars
  PROVE  Queued'
<1> USE TraceeAssumption DEF Queued, LeftoverStop, captureVars
<1>t. /\ state \in [Thread -> {"running", "dsleep", "trap", "dead"}]
      /\ pend \in [Thread -> SUBSET Signal]
      /\ trapSig \in [Thread -> Signal \cup {NoSig}]
  BY DEF TargetTypeOK
<1>1. ASSUME NEW t \in Thread, Trap(t) PROVE Queued'
  BY <1>1, <1>t DEF Trap, Signal
<1>2. ASSUME NEW t \in Thread, GroupTrap(t) PROVE Queued'
  BY <1>2, <1>t DEF GroupTrap
<1>3. ASSUME NEW t \in Thread, Deliver(t) PROVE Queued'
  BY <1>3, <1>t DEF Deliver
<1>4. ASSUME NEW t \in Thread, Exit(t) PROVE Queued'
  BY <1>4, <1>t DEF Exit
<1>5. ASSUME NEW t \in Thread, Sleep(t) PROVE Queued'
  BY <1>5, <1>t DEF Sleep
<1>6. ASSUME NEW t \in Thread, Wake(t) PROVE Queued'
  BY <1>6, <1>t DEF Wake
<1>7. ASSUME NEW t \in Thread, SendForeign(t) PROVE Queued'
  BY <1>7, <1>t DEF SendForeign
<1>8. CASE Continue
  BY <1>8, <1>t DEF Continue
<1> QED
  BY <1>1, <1>2, <1>3, <1>4, <1>5, <1>6, <1>7, <1>8 DEF TargetStep

\* Every step keeps layer 3: a detach leaves a SIGSTOP queued only if it drops
\* a foreign signal, or under a group stop.
LEMMA QueuedStep == Typed /\ Custodial /\ Queued /\ [Next]_vars => Queued'
<1> SUFFICES ASSUME Typed, Custodial, Queued, [Next]_vars PROVE Queued'
  OBVIOUS
<1>t. /\ state \in [Thread -> {"running", "dsleep", "trap", "dead"}]
      /\ pend \in [Thread -> SUBSET Signal]
      /\ trapSig \in [Thread -> Signal \cup {NoSig}]
      /\ cpc \in Turn \cup {"attach"} => cur \in Thread
  BY DEF Typed, TypeOK, TargetTypeOK, CaptureDataOK
<1>q. ASSUME UNCHANGED targetVars, cpc # "crashed" PROVE Queued'
  BY <1>q DEF Queued, LeftoverStop, targetVars
<1> USE DEF Goto
<1>1. CASE Create
  BY <1>1, <1>q DEF Create
<1>2. CASE NextTask
  BY <1>2, <1>q DEF NextTask
<1>3. CASE LoopDone
  BY <1>3, <1>q DEF LoopDone
<1>4. CASE AttachOk
  <2>1. cur \in Thread /\ state[cur] \notin {"dead", "trap"}
    BY <1>4, <1>t DEF AttachOk, Custodial, OnlyTheTurnIsHeld, Alive, Turn
  <2> QED
    BY <1>4, <2>1, <1>t DEF AttachOk, PtraceAttach, Queued, LeftoverStop
<1>5. CASE AttachFails
  BY <1>5, <1>q DEF AttachFails
<1>6. CASE WaitStopped
  BY <1>6, <1>q DEF WaitStopped
<1>7. CASE WaitGone
  BY <1>7, <1>t DEF WaitGone, Reported, Reap, Turn, Queued, LeftoverStop
<1>8. CASE UptCreate
  BY <1>8, <1>q DEF UptCreate
<1>9. CASE UnwindFrame
  BY <1>9, <1>q DEF UnwindFrame
<1>10. CASE UnwindLast
  BY <1>10, <1>q DEF UnwindLast
<1>11. CASE UnwindFails
  BY <1>11, <1>q DEF UnwindFails
<1>12. CASE DetachTask
  <2>1. CASE state[cur] = "trap"
    BY <1>12, <2>1, <1>t DEF DetachTask, PtraceDetach, Turn, Queued, LeftoverStop
  <2>2. CASE state[cur] # "trap"
    BY <1>12, <2>2, <1>q DEF DetachTask, PtraceDetach
  <2> QED
    BY <2>1, <2>2
<1>13. CASE CheckInterrupt
  BY <1>13, <1>q DEF CheckInterrupt
<1>14. CASE SetInterrupt
  BY <1>14, <1>q DEF SetInterrupt, Working, Turn
<1>15. CASE Crash
  <2>1. \A t \in Thread : state'[t] # "trap" /\ trapSig'[t] = NoSig
    BY <1>15, <1>t DEF Crash, TracerEnds
  <2>2. \A t \in Thread : state'[t] = "dead" => state[t] = "dead"
    BY <1>15, <1>t DEF Crash, TracerEnds
  <2>3. \A t \in Thread : state'[t] = "dead" => pend'[t] = {}
    BY <1>15, <1>t, <2>2 DEF Crash, TracerEnds, Queued
  <2>4. cpc' = "crashed"
    BY <1>15 DEF Crash
  <2> QED
    BY <2>1, <2>3, <2>4 DEF Queued, LeftoverStop
<1>16. CASE Environment
  <2>1. TargetTypeOK
    BY DEF Typed, TypeOK
  <2>2. TargetStep /\ UNCHANGED captureVars
    BY <1>16 DEF Environment
  <2> QED
    BY <2>1, <2>2, QueuedTarget
<1>17. CASE UNCHANGED vars
  BY <1>17 DEF vars, targetVars, captureVars, Queued, LeftoverStop
<1> QED
  BY <1>1, <1>2, <1>3, <1>4, <1>5, <1>6, <1>7, <1>8, <1>9, <1>10, <1>11, <1>12,
     <1>13, <1>14, <1>15, <1>16, <1>17 DEF Next, CaptureStep

SafeInv == Typed /\ Custodial /\ Queued

\* The first three layers hold in every behaviour.
LEMMA SafeInvariant == Spec => []SafeInv
<1>1. Init => SafeInv
  BY TypedInit, CustodialInit, QueuedInit DEF SafeInv
<1>2. SafeInv /\ [Next]_vars => SafeInv'
  BY TypedStep, CustodialStep, QueuedStep DEF SafeInv
<1> QED
  BY <1>1, <1>2, PTL DEF Spec

\* A SIGSTOP of ours is left behind only where a foreign signal was dropped,
\* a group stop is on, or the tracer died.
THEOREM NoLeftoverStop == Spec => []LeftoverStop
<1>1. SafeInv => LeftoverStop
  BY DEF SafeInv, Queued
<1> QED
  BY <1>1, SafeInvariant, PTL

\* Being sampled does not stop a target that nobody else signals.
THEOREM TargetKeepsRunning == Spec => NeverStopsTarget
<1> DEFINE Kept == ~groupStop /\ groupStop' => swallowed # {} \/ cpc = "crashed"
<1>1. ASSUME SafeInv, [Next]_vars PROVE [Kept]_vars
  <2> SUFFICES ASSUME ~groupStop, groupStop' PROVE swallowed # {} \/ cpc = "crashed"
    OBVIOUS
  <2>1. ASSUME NEW t \in Thread, Deliver(t) PROVE swallowed # {} \/ cpc = "crashed"
    <3>1. t \notin traced /\ STOP \in pend[t]
      BY <2>1 DEF Deliver
    <3> QED
      BY <1>1, <3>1 DEF SafeInv, Queued, LeftoverStop
  <2>2. CASE TargetStep
    <3> QED
      BY <2>1, <2>2 DEF TargetStep, Trap, GroupTrap, Exit, Sleep, Wake, SendForeign,
                        Continue
  <2>3. ~CaptureStep
    BY <1>1 DEF CaptureStep, Create, NextTask, LoopDone, AttachOk, AttachFails,
       WaitStopped, WaitGone, UptCreate, UnwindFrame, UnwindLast, UnwindFails,
       DetachTask, CheckInterrupt, PtraceAttach, Reap, PtraceDetach, targetVars
  <2>4. ~SetInterrupt /\ ~Crash /\ vars' # vars
    BY DEF SetInterrupt, Crash, TracerEnds, vars, targetVars
  <2> QED
    BY <1>1, <2>2, <2>3, <2>4 DEF Next, Environment
<1> QED
  BY <1>1, SafeInvariant, PTL DEF Spec, NeverStopsTarget

-----------------------------------------------------------------------------
(* Layer 4: what has become of each task.                                  *)

Settled(t) == t \in bts \cup logged \/ t \notin Alive

\* Tasks the loop has not finished with.
Open == todo \cup (IF cpc \in {"attach", "wait", "upt", "unwind"} THEN {cur} ELSE {})

Accounted ==
  /\ cpc = "create" => todo = tasks
  /\ cpc \in {"loop", "attach"} \cup Turn => \A t \in tasks : Settled(t) \/ t \in Open
  /\ cpc = "check" => interrupt \/ \A t \in tasks : Settled(t)
  /\ SuccessAccountsForAll

\* At the start every thread is still to come.
LEMMA AccountedInit == Init => Accounted
  BY DEF Init, CaptureInit, Fresh, Accounted, Turn, SuccessAccountsForAll

\* The dead stay dead.
LEMMA DeadStayDead ==
  ASSUME TargetTypeOK, [Next]_vars, NEW t \in Thread, t \notin Alive
  PROVE  t \notin Alive'
<1>t. state \in [Thread -> {"running", "dsleep", "trap", "dead"}]
  BY DEF TargetTypeOK
<1>d. state[t] = "dead"
  BY <1>t DEF Alive
<1>u. UNCHANGED state => state'[t] = "dead"
  BY <1>d
<1>1. CASE CaptureStep
  <2>1. UNCHANGED state \/ DetachTask
    BY <1>1 DEF CaptureStep, Create, NextTask, LoopDone, AttachOk, AttachFails,
       WaitStopped, WaitGone, UptCreate, UnwindFrame, UnwindLast, UnwindFails,
       CheckInterrupt, PtraceAttach, Reap, targetVars
  <2>2. DetachTask => state'[t] = "dead"
    BY <1>t, <1>d DEF DetachTask, PtraceDetach, targetVars
  <2> QED
    BY <2>1, <2>2, <1>u DEF Alive
<1>2. CASE SetInterrupt \/ UNCHANGED vars
  BY <1>2, <1>u DEF SetInterrupt, vars, targetVars, Alive
<1>3. CASE Crash
  BY <1>3, <1>t, <1>d DEF Crash, TracerEnds, Alive
<1>4. CASE Environment
  BY <1>4, <1>t, <1>d, <1>u DEF Environment, TargetStep, Trap, GroupTrap, Deliver, Exit,
     Sleep, Wake, SendForeign, Continue, Alive
<1> QED
  BY <1>1, <1>2, <1>3, <1>4 DEF Next

\* Every step keeps layer 4: a way out of an iteration leaves a stack, a log
\* line or a dead thread, and an interrupt is never reported as success.
LEMMA AccountedStep == Typed /\ Accounted /\ [Next]_vars => Accounted'
<1> SUFFICES ASSUME Typed, Accounted, [Next]_vars PROVE Accounted'
  OBVIOUS
<1>t. TargetTypeOK /\ tasks \subseteq Thread
  BY DEF Typed, TypeOK, CaptureDataOK
<1>d. tasks \subseteq Thread /\ \A t \in Thread : t \notin Alive => t \notin Alive'
  BY <1>t, DeadStayDead
<1>s. ASSUME bts \subseteq bts', logged \subseteq logged'
      PROVE  \A t \in tasks : Settled(t) => Settled(t)'
  BY <1>d, <1>s DEF Settled
<1>r. /\ cpc \in {"attach", "wait", "upt", "unwind"} => cur \in tasks
      /\ frames \in Nat
  BY CaptureAssumption DEF Typed, TypeOK, CaptureDataOK, Turn
<1> USE DEF Accounted, SuccessAccountsForAll, Goto, Turn, Open
<1>1. CASE Create
  BY <1>1 DEF Create
<1>2. CASE NextTask
  BY <1>2, <1>s DEF NextTask
<1>3. CASE LoopDone
  BY <1>3, <1>s DEF LoopDone
<1>4. CASE AttachOk
  BY <1>4, <1>s DEF AttachOk
<1>5. CASE AttachFails
  <2>1. Settled(cur)'
    BY <1>5, <1>d, <1>r DEF AttachFails, Settled
  <2> QED
    BY <1>5, <2>1, <1>s DEF AttachFails
<1>6. CASE WaitStopped
  BY <1>6, <1>s DEF WaitStopped
<1>7. CASE WaitGone
  <2>1. Settled(cur)'
    BY <1>7 DEF WaitGone, Settled
  <2> QED
    BY <1>7, <2>1, <1>s DEF WaitGone
<1>8. CASE UptCreate
  <2>1. cpc' = "unwind" \/ Settled(cur)'
    BY <1>8 DEF UptCreate, Settled
  <2> QED
    BY <1>8, <2>1, <1>s DEF UptCreate
<1>9. CASE UnwindFrame
  BY <1>9, <1>s DEF UnwindFrame
<1>10. CASE UnwindLast
  <2>1. bts' = bts \cup {cur}
    BY <1>10, <1>r DEF UnwindLast, KeepTrace
  <2> QED
    BY <1>10, <2>1, <1>s DEF UnwindLast, Settled
<1>11. CASE UnwindFails
  <2>1. bts \subseteq bts' /\ logged \subseteq logged' /\ cur \in logged'
    BY <1>11 DEF UnwindFails, KeepTrace
  <2> QED
    BY <1>11, <2>1, <1>s DEF UnwindFails, Settled
<1>12. CASE DetachTask
  BY <1>12, <1>s DEF DetachTask
<1>13. CASE CheckInterrupt
  BY <1>13, <1>s DEF CheckInterrupt, Settled
<1>14. CASE SetInterrupt
  BY <1>14, <1>s DEF SetInterrupt, Working
<1>15. CASE Crash
  BY <1>15 DEF Crash
<1>16. CASE Environment
  BY <1>16, <1>s DEF Environment, captureVars, Settled
<1>17. CASE UNCHANGED vars
  BY <1>17, <1>s DEF vars, captureVars, Settled
<1> QED
  BY <1>1, <1>2, <1>3, <1>4, <1>5, <1>6, <1>7, <1>8, <1>9, <1>10, <1>11, <1>12,
     <1>13, <1>14, <1>15, <1>16, <1>17 DEF Next, CaptureStep

\* A capture that reports success has a stack or a log line of every thread
\* that is still alive.
THEOREM HonestSuccess == Spec => []SuccessAccountsForAll
<1>1. Spec => [](Typed /\ Accounted)
  BY TypedInit, TypedStep, AccountedInit, AccountedStep, PTL DEF Spec
<1>2. Accounted => SuccessAccountsForAll
  BY DEF Accounted
<1> QED
  BY <1>1, <1>2, PTL

-----------------------------------------------------------------------------
(* Capture implements Custody.                                             *)

\* A thread has one turn, and no stack before it.
Once ==
  /\ bts \cap todo = {}
  /\ cpc \in {"attach", "wait", "upt", "unwind"} => cur \notin bts \cup todo
  /\ cpc = "create" => bts = {}

\* A thread that has a stack is never taken again.
LEMMA OnceInvariant == Spec => []Once
<1>1. Init => Once
  BY DEF Init, CaptureInit, Fresh, Once
<1>2. ASSUME Once, [Next]_vars PROVE Once'
  <2> USE <1>2 DEF Once, Goto
  <2>1. CASE Create \/ NextTask \/ LoopDone \/ AttachOk \/ AttachFails
    BY <2>1 DEF Create, NextTask, LoopDone, AttachOk, AttachFails
  <2>2. CASE WaitStopped \/ WaitGone \/ UptCreate \/ UnwindFrame
    BY <2>2 DEF WaitStopped, WaitGone, UptCreate, UnwindFrame
  <2>3. CASE UnwindLast \/ UnwindFails
    BY <2>3 DEF UnwindLast, UnwindFails, KeepTrace
  <2>4. CASE DetachTask \/ CheckInterrupt \/ SetInterrupt \/ Crash
    BY <2>4 DEF DetachTask, CheckInterrupt, SetInterrupt, Crash
  <2>5. CASE Environment \/ UNCHANGED vars
    BY <2>5 DEF Environment, vars, captureVars
  <2> QED
    BY <2>1, <2>2, <2>3, <2>4, <2>5 DEF Next, CaptureStep
<1> QED
  BY <1>1, <1>2, PTL DEF Spec

\* The variables of Custody, as functions of the state of Capture.
waitingBar == todo \cup (IF cpc = "attach" THEN {cur} ELSE {})
turnBar    == IF cpc \in Turn THEN cur ELSE NoThread
heldBar    == traced \cap Alive
openBar    == cpc \notin Ended

custodyBar == <<waitingBar, turnBar, heldBar, bts, openBar>>

\* The constructor starts as a sampler does.
LEMMA CustodyInit == Init => Promise!Init
<1> SUFFICES ASSUME Init PROVE Promise!Init
  OBVIOUS
<1>1. traced = {} /\ cpc = "create" /\ bts = {}
  BY DEF Init, TargetInit, CaptureInit, Fresh
<1>2. todo \subseteq Thread
  BY DEF Init, CaptureInit, Fresh
<1> QED
  BY <1>1, <1>2 DEF Promise!Init, Turn, Ended

\* A step of the target is the death of the thread whose turn it is, or
\* nothing the promise speaks of.
LEMMA CustodyEnvironment ==
  ASSUME SafeInv, Environment
  PROVE  heldBar' \in {heldBar, {}}
<1>t. /\ state \in [Thread -> {"running", "dsleep", "trap", "dead"}]
      /\ traced \subseteq Thread
  BY DEF SafeInv, Typed, TypeOK, TargetTypeOK
<1>1. \A s, t \in heldBar : s = t
  BY <1>t DEF SafeInv, Custodial, OnlyTheTurnIsHeld, heldBar
<1>2. traced' = traced
  BY DEF Environment, TargetStep, Trap, GroupTrap, Deliver, Exit, Sleep, Wake,
         SendForeign, Continue
<1>3. \A t \in Thread : t \in Alive' => t \in Alive
  BY <1>t DEF Environment, TargetStep, Trap, GroupTrap, Deliver, Exit, Sleep, Wake,
         SendForeign, Continue, Alive
<1>4. heldBar' \subseteq heldBar
  BY <1>2, <1>3, <1>t DEF heldBar
<1> QED
  BY <1>1, <1>4

\* Every step of the program is a step of a sampler or none of its business.
LEMMA CustodyStep ==
  SafeInv /\ SafeInv' /\ Once /\ [Next]_vars => [Promise!Next]_custodyBar
<1> SUFFICES ASSUME SafeInv, SafeInv', Once, [Next]_vars
             PROVE  Promise!Next \/ UNCHANGED custodyBar
  OBVIOUS
<1> USE CaptureAssumption DEF Goto
<1>t. /\ tasks \subseteq Thread /\ todo \subseteq tasks
      /\ traced \subseteq Thread
      /\ cpc \in {"attach", "wait", "upt", "unwind", "detach"} => cur \in tasks
  BY DEF SafeInv, Typed, TypeOK, CaptureDataOK, TargetTypeOK, Turn
<1>h. /\ cpc \notin Turn => heldBar = {}
      /\ cpc' \notin Turn => heldBar' = {}
  BY DEF SafeInv, Custodial, OnlyTheTurnIsHeld, heldBar
<1>1. CASE Create
  <2>1. CASE addrSpace'
    BY <1>1, <2>1 DEF Create, custodyBar, waitingBar, turnBar, heldBar, openBar,
                      Turn, Ended, targetVars, Alive
  <2>2. CASE ~addrSpace'
    BY <1>1, <2>2, <1>h DEF Create, Promise!Next, Promise!Close, waitingBar, turnBar,
       heldBar, Turn, Ended, targetVars, Alive
  <2> QED
    BY <2>1, <2>2
<1>2. CASE NextTask
  BY <1>2, <1>t DEF NextTask, custodyBar, waitingBar, turnBar, heldBar, openBar,
                    Turn, Ended, targetVars, Alive
<1>3. CASE LoopDone
  BY <1>3 DEF LoopDone, custodyBar, waitingBar, turnBar, heldBar, openBar,
              Turn, Ended, targetVars, Alive
<1>4. CASE AttachOk
  <2>1. heldBar = {} /\ heldBar' = {cur}
    BY <1>4, <1>h DEF AttachOk, PtraceAttach, heldBar, Alive, Turn
  <2>2. Promise!Take(cur)
    BY <1>4, <2>1, <1>t DEF AttachOk, Promise!Take, heldBar, Once, Turn, Ended
  <2> QED
    BY <1>4, <2>2, <1>t DEF AttachOk, Promise!Next
<1>5. CASE AttachFails
  <2>1. Promise!Skip(cur)
    BY <1>5, <1>t DEF AttachFails, Promise!Skip, Once, Turn, Ended, targetVars, Alive
  <2> QED
    BY <1>5, <2>1, <1>t DEF AttachFails, Promise!Next
<1>6. CASE WaitStopped \/ UptCreate \/ UnwindFrame
  BY <1>6 DEF WaitStopped, UptCreate, UnwindFrame, custodyBar, waitingBar, turnBar,
              heldBar, openBar, Turn, Ended, targetVars, Alive
<1>7. CASE WaitGone
  BY <1>7 DEF WaitGone, Reap, Reported, custodyBar, waitingBar, turnBar, heldBar,
              openBar, Turn, Ended, Alive
<1>8. CASE UnwindLast \/ UnwindFails
  <2>1. /\ cpc = "unwind" /\ cpc' = "detach"
        /\ UNCHANGED <<targetVars, todo, cur>>
        /\ bts' \in {bts, bts \cup {cur}}
    BY <1>8 DEF UnwindLast, UnwindFails, KeepTrace
  <2>2. CASE bts' = bts
    BY <2>1, <2>2 DEF custodyBar, waitingBar, turnBar, heldBar, openBar, Turn, Ended,
                      targetVars, Alive
  <2>3. CASE bts' = bts \cup {cur}
    BY <2>1, <2>3, <1>t DEF Promise!Next, Promise!Sample, Once, Turn, Ended,
                            targetVars, Alive
  <2> QED
    BY <2>1, <2>2, <2>3
<1>9. CASE DetachTask
  <2>1. heldBar' = {}
    BY <1>9, <1>h DEF DetachTask, Turn
  <2> QED
    BY <1>9, <2>1, <1>t DEF DetachTask, Promise!Next, Promise!Release, heldBar, Turn, Ended
<1>10. CASE CheckInterrupt
  BY <1>10, <1>h DEF CheckInterrupt, Promise!Next, Promise!Close, heldBar, Turn, Ended,
                     targetVars, Alive
<1>11. CASE SetInterrupt
  BY <1>11 DEF SetInterrupt, custodyBar, waitingBar, turnBar, heldBar, openBar,
               targetVars, Alive
<1>12. CASE Crash
  <2>1. heldBar' = {}
    BY <1>12 DEF Crash, TracerEnds, heldBar
  <2> QED
    BY <1>12, <2>1 DEF Crash, Promise!Next, Promise!Abort, heldBar, Working, Turn, Ended
<1>13. CASE Environment
  <2>1. UNCHANGED <<waitingBar, turnBar, bts, openBar>>
    BY <1>13 DEF Environment, captureVars, waitingBar, turnBar, openBar
  <2>2. CASE heldBar' = heldBar
    BY <2>1, <2>2 DEF custodyBar
  <2>3. CASE heldBar' = {} /\ heldBar # {}
    BY <2>1, <2>3 DEF Promise!Next, Promise!Vanish, heldBar, waitingBar, turnBar, openBar
  <2> QED
    BY <1>13, <2>2, <2>3, CustodyEnvironment
<1>14. CASE UNCHANGED vars
  BY <1>14 DEF vars, captureVars, targetVars, custodyBar, waitingBar, turnBar, heldBar,
               openBar, Alive
<1> QED
  BY <1>1, <1>2, <1>3, <1>4, <1>5, <1>6, <1>7, <1>8, <1>9, <1>10, <1>11, <1>12,
     <1>13, <1>14 DEF Next, CaptureStep

\* Capture is a sampler as Custody promises one: one turn for each thread, at
\* most one live thread in custody, stacks only in a turn, nobody held at the
\* end.
THEOREM Implementation == Spec => ImplementsCustody
<1>1. SafeInv /\ SafeInv' /\ Once /\ [Next]_vars => [Promise!Next]_(Promise!custodyVars)
  BY CustodyStep DEF custodyBar, waitingBar, turnBar, heldBar, openBar, Promise!custodyVars
<1> QED
  BY <1>1, CustodyInit, SafeInvariant, OnceInvariant, PTL
  DEF Spec, ImplementsCustody, Promise!Spec
=============================================================================
