----------------------------- MODULE JobLifecycle -----------------------------
(***************************************************************************)
(* What the durable queue promises of every job, without leases, clocks or *)
(* a table: one worker at a time works on it, at most Budget times, and    *)
(* once it is settled nobody touches it again.  A job that an API request  *)
(* takes into its own hands is released from the promise.                  *)
(***************************************************************************)
EXTENDS Integers

CONSTANTS Job, Worker, Budget, None

VARIABLES
  phase,  \* "absent", "open", "settled" or "taken_over"
  tries,  \* how often the job was started, 0 once it is taken over
  work    \* the job each worker is working on

lifecycleVars == <<phase, tries, work>>

Init ==
  /\ phase = [j \in Job |-> "absent"]
  /\ tries = [j \in Job |-> 0]
  /\ work = [w \in Worker |-> None]

Unattended(j) == \A w \in Worker : work[w] # j

Submit(j) ==
  /\ phase[j] = "absent"
  /\ phase' = [phase EXCEPT ![j] = "open"]
  /\ UNCHANGED <<tries, work>>

Start(w, j) ==
  /\ phase[j] = "open"
  /\ tries[j] < Budget
  /\ Unattended(j)
  /\ work[w] = None
  /\ work' = [work EXCEPT ![w] = j]
  /\ tries' = [tries EXCEPT ![j] = @ + 1]
  /\ UNCHANGED phase

\* The worker fails with attempts to spare, finds nothing to do, or dies.
Leave(w) ==
  /\ work[w] # None
  /\ work' = [work EXCEPT ![w] = None]
  /\ UNCHANGED <<phase, tries>>

Settle(w, j) ==
  /\ work[w] = j
  /\ phase[j] = "open"
  /\ phase' = [phase EXCEPT ![j] = "settled"]
  /\ work' = [work EXCEPT ![w] = None]
  /\ UNCHANGED tries

\* Nobody works on it and nobody may any more.
Exhaust(j) ==
  /\ phase[j] = "open"
  /\ tries[j] = Budget
  /\ Unattended(j)
  /\ phase' = [phase EXCEPT ![j] = "settled"]
  /\ UNCHANGED <<tries, work>>

TakeOver(j) ==
  /\ phase[j] \in {"open", "settled"}
  /\ phase' = [phase EXCEPT ![j] = "taken_over"]
  /\ tries' = [tries EXCEPT ![j] = 0]
  /\ work' = [w \in Worker |-> IF work[w] = j THEN None ELSE work[w]]

Next ==
  \/ \E j \in Job :
       \/ Submit(j) \/ Exhaust(j) \/ TakeOver(j)
       \/ \E w \in Worker : Start(w, j) \/ Settle(w, j)
  \/ \E w \in Worker : Leave(w)

Spec == Init /\ [][Next]_lifecycleVars
=============================================================================
