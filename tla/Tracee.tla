------------------------------- MODULE Tracee -------------------------------
(***************************************************************************)
(* The threads of the sampled process, as Linux lets a tracer see them.    *)
(* This is the contract of ptrace(2), wait4(2) and job control that        *)
(* src/dmstack/unwind/backtraces.cpp relies on; none of it is code of the  *)
(* repository, so every definition here is external.                       *)
(*                                                                         *)
(* PTRACE_ATTACH does not stop a thread: it queues a SIGSTOP for it, and   *)
(* the thread stops when it next takes a signal, any signal.  Everything   *)
(* that is hard about the sampler follows from that delay.                 *)
(***************************************************************************)
EXTENDS Integers, FiniteSets

CONSTANTS Thread,     \* the threads of the target
          Leader,     \* the thread-group leader: its tid is the pid
          Foreign     \* signals that others may send to a thread of the target

STOP  == "STOP"       \* the SIGSTOP of PTRACE_ATTACH
NoSig == "none"       \* no signal: the thread trapped for a group stop

ASSUME TraceeAssumption ==
  /\ Leader \in Thread
  /\ STOP \notin Foreign
  /\ NoSig \notin Foreign

VARIABLES state,      \* what each thread does
          traced,     \* the threads whose tracer is the child of dmstack
          pend,       \* signals queued for each thread
          trapSig,    \* the signal a trapped thread stopped for
          groupStop,  \* is the target stopped by job control
          swallowed   \* history: threads whose foreign signal a detach dropped

targetVars == <<state, traced, pend, trapSig, groupStop, swallowed>>

Signal  == Foreign \cup {STOP}
Alive   == {t \in Thread : state[t] # "dead"}
Stopped == {t \in Alive : groupStop /\ state[t] = "running"}   \* state T in /proc

TargetTypeOK ==
  /\ state \in [Thread -> {"running", "dsleep", "trap", "dead"}]
  /\ traced \subseteq Thread
  /\ pend \in [Thread -> SUBSET Signal]
  /\ trapSig \in [Thread -> Signal \cup {NoSig}]
  /\ groupStop \in BOOLEAN
  /\ swallowed \subseteq Thread

(***************************************************************************)
(* A target is running, or was stopped by its user before dmstack started. *)
(***************************************************************************)
TargetInit ==
  /\ state \in [Thread -> {"running", "dsleep"}]
  /\ traced = {}
  /\ pend = [t \in Thread |-> {}]
  /\ trapSig = [t \in Thread |-> NoSig]
  /\ groupStop \in BOOLEAN
  /\ swallowed = {}

-----------------------------------------------------------------------------
(* What the target and the rest of the machine do on their own.            *)

\* A traced thread takes one of its signals and stops for its tracer.
Trap(t) ==
  /\ t \in traced
  /\ state[t] = "running"
  /\ \E s \in pend[t] :
       /\ trapSig' = [trapSig EXCEPT ![t] = s]
       /\ pend' = [pend EXCEPT ![t] = @ \ {s}]
  /\ state' = [state EXCEPT ![t] = "trap"]
  /\ UNCHANGED <<traced, groupStop, swallowed>>

\* A traced thread joins the group stop: a trap that consumes no signal.
GroupTrap(t) ==
  /\ t \in traced
  /\ state[t] = "running"
  /\ groupStop
  /\ state' = [state EXCEPT ![t] = "trap"]
  /\ UNCHANGED <<traced, pend, trapSig, groupStop, swallowed>>

\* A thread nobody traces takes a signal; SIGSTOP stops the whole group.
Deliver(t) ==
  /\ t \notin traced
  /\ state[t] = "running"
  /\ ~groupStop
  /\ \E s \in pend[t] :
       /\ pend' = [pend EXCEPT ![t] = @ \ {s}]
       /\ groupStop' = (s = STOP)
  /\ UNCHANGED <<state, traced, trapSig, swallowed>>

\* A thread exits or is killed; SIGKILL also ends a trap.
Exit(t) ==
  /\ state[t] \in {"running", "trap"}
  /\ state' = [state EXCEPT ![t] = "dead"]
  /\ pend' = [pend EXCEPT ![t] = {}]
  /\ trapSig' = [trapSig EXCEPT ![t] = NoSig]
  /\ UNCHANGED <<traced, groupStop, swallowed>>

\* Uninterruptible sleep: signals wait until the thread wakes up.
Sleep(t) ==
  /\ state[t] = "running"
  /\ pend[t] = {}
  /\ ~groupStop
  /\ state' = [state EXCEPT ![t] = "dsleep"]
  /\ UNCHANGED <<traced, pend, trapSig, groupStop, swallowed>>

Wake(t) ==
  /\ state[t] = "dsleep"
  /\ state' = [state EXCEPT ![t] = "running"]
  /\ UNCHANGED <<traced, pend, trapSig, groupStop, swallowed>>

\* Somebody signals a thread of the target: a timer, a profiler, a runtime.
SendForeign(t) ==
  /\ state[t] # "dead"
  /\ \E s \in Foreign \ pend[t] : pend' = [pend EXCEPT ![t] = @ \cup {s}]
  /\ UNCHANGED <<state, traced, trapSig, groupStop, swallowed>>

\* SIGCONT resumes the group and flushes every SIGSTOP still queued.
Continue ==
  /\ groupStop \/ \E t \in Thread : STOP \in pend[t]
  /\ groupStop' = FALSE
  /\ pend' = [t \in Thread |-> pend[t] \ {STOP}]
  /\ UNCHANGED <<state, traced, trapSig, swallowed>>

TargetStep ==
  \/ \E t \in Thread : \/ Trap(t) \/ GroupTrap(t) \/ Deliver(t) \/ Exit(t)
                       \/ Sleep(t) \/ Wake(t) \/ SendForeign(t)
  \/ Continue

-----------------------------------------------------------------------------
(* What the tracer's system calls do.                                      *)

PtraceAttach(t) ==
  /\ traced' = traced \cup {t}
  /\ pend' = [pend EXCEPT ![t] = @ \cup {STOP}]
  /\ UNCHANGED <<state, trapSig, groupStop, swallowed>>

\* wait4 reports the death of a leader only once every other thread is gone.
Reported(t) == state[t] = "dead" /\ (t = Leader => Alive = {})

\* wait4 collects a dead tracee.
Reap(t) ==
  /\ traced' = traced \ {t}
  /\ UNCHANGED <<state, pend, trapSig, groupStop, swallowed>>

\* PTRACE_DETACH with signal 0 drops the signal the thread stopped for; on a
\* thread that is not in a trap it fails with ESRCH and changes nothing.
PtraceDetach(t) ==
  IF state[t] = "trap"
  THEN /\ traced' = traced \ {t}
       /\ state' = [state EXCEPT ![t] = "running"]
       /\ trapSig' = [trapSig EXCEPT ![t] = NoSig]
       /\ swallowed' = IF trapSig[t] \in Foreign THEN swallowed \cup {t}
                                                 ELSE swallowed
       /\ UNCHANGED <<pend, groupStop>>
  ELSE UNCHANGED targetVars

\* The tracer ends: its tracees run on and take the signal they stopped for.
TracerEnds ==
  /\ traced' = {}
  /\ state' = [t \in Thread |-> IF state[t] = "trap" THEN "running" ELSE state[t]]
  /\ pend' = [t \in Thread |-> pend[t] \cup ({trapSig[t]} \ {NoSig})]
  /\ trapSig' = [t \in Thread |-> NoSig]
  /\ UNCHANGED <<groupStop, swallowed>>
=============================================================================
