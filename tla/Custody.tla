------------------------------ MODULE Custody -------------------------------
(***************************************************************************)
(* What a sampler of somebody else's threads promises, whatever ptrace     *)
(* does: every thread gets at most one turn, a thread is in the sampler's  *)
(* custody only during its turn, hence at most one at a time; a stack is   *)
(* recorded only in its thread's turn; and when the sampler closes it      *)
(* holds nobody.  Capture implements this specification.                   *)
(***************************************************************************)
CONSTANTS Thread, NoThread

VARIABLES waiting,   \* threads that had no turn yet
          turn,      \* the thread whose turn it is, or NoThread
          held,      \* live threads in the sampler's custody
          sampled,   \* threads with a recorded stack
          open       \* is the sampler at work

custodyVars == <<waiting, turn, held, sampled, open>>

Init ==
  /\ waiting \in SUBSET Thread
  /\ turn = NoThread
  /\ held = {}
  /\ sampled = {}
  /\ open = TRUE

Skip(t) ==                       \* the thread cannot be taken
  /\ open /\ turn = NoThread
  /\ t \in waiting
  /\ waiting' = waiting \ {t}
  /\ UNCHANGED <<turn, held, sampled, open>>

Take(t) ==
  /\ open /\ turn = NoThread
  /\ t \in waiting
  /\ waiting' = waiting \ {t}
  /\ turn' = t
  /\ held' = {t}
  /\ UNCHANGED <<sampled, open>>

Sample ==
  /\ open /\ turn # NoThread
  /\ turn \notin sampled
  /\ sampled' = sampled \cup {turn}
  /\ UNCHANGED <<waiting, turn, held, open>>

Vanish ==                        \* the thread dies during its turn
  /\ held # {}
  /\ held' = {}
  /\ UNCHANGED <<waiting, turn, sampled, open>>

Release ==
  /\ open /\ turn # NoThread
  /\ turn' = NoThread
  /\ held' = {}
  /\ UNCHANGED <<waiting, sampled, open>>

Close ==                         \* an orderly end: nobody is held
  /\ open /\ turn = NoThread
  /\ held = {}
  /\ open' = FALSE
  /\ UNCHANGED <<waiting, turn, held, sampled>>

Abort ==                         \* the sampler dies: the kernel frees everyone
  /\ open
  /\ open' = FALSE
  /\ turn' = NoThread
  /\ held' = {}
  /\ waiting' \in SUBSET waiting    \* it may be just about to take a thread
  /\ UNCHANGED sampled

Next ==
  \/ \E t \in Thread : Skip(t) \/ Take(t)
  \/ Sample \/ Vanish \/ Release \/ Close \/ Abort

Spec == Init /\ [][Next]_custodyVars
=============================================================================
