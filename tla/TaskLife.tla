------------------------------- MODULE TaskLife -------------------------------
(***************************************************************************)
(* What the scheduler does for a task, as its callers see it, with neither *)
(* the task table nor the clock nor any stored register: idle builds one   *)
(* task at a time; a task that is ready is claimed once, gets the CPU once *)
(* and keeps it until it ends or the clock takes it away for good; only    *)
(* idle ever gets the CPU back.                                            *)
(***************************************************************************)
CONSTANTS Task, NULL

VARIABLES
  idle,   \* the task that creates the others, NULL before there is one
  phase,  \* what has become of each task
  on      \* the task whose code the CPU executes, or NULL

vars == <<idle, phase, on>>

Phases == {"none", "new", "ready", "claimed", "started"}

Init ==
  /\ idle = NULL
  /\ phase = [t \in Task |-> "none"]
  /\ on = NULL

Enter(t, from, to) == phase[t] = from /\ phase' = [phase EXCEPT ![t] = to]

\* The creator is idle, or the boot code before there is an idle.
Create(t) ==
  /\ on = idle
  /\ \A u \in Task : phase[u] # "new"
  /\ Enter(t, "none", "new")
  /\ UNCHANGED <<idle, on>>

BecomeIdle(t) ==
  /\ idle = NULL /\ phase[t] = "new"
  /\ idle' = t
  /\ UNCHANGED <<phase, on>>

Complete(t) ==
  /\ on = idle \/ t = idle
  /\ Enter(t, "new", "ready")
  /\ UNCHANGED <<idle, on>>

Claim(t) ==
  /\ on = NULL /\ t # idle
  /\ Enter(t, "ready", "claimed")
  /\ UNCHANGED <<idle, on>>

Start(t) ==
  /\ on = NULL
  /\ Enter(t, "claimed", "started")
  /\ on' = t
  /\ UNCHANGED idle

ResumeIdle ==
  /\ on = NULL /\ idle # NULL /\ phase[idle] = "ready"
  /\ on' = idle
  /\ UNCHANGED <<idle, phase>>

Preempt ==
  /\ on # NULL
  /\ on' = NULL
  /\ UNCHANGED <<idle, phase>>

End(t) ==
  /\ on = t
  /\ Enter(t, "started", "none")
  /\ on' = NULL
  /\ UNCHANGED idle

Next ==
  \/ \E t \in Task : Create(t) \/ BecomeIdle(t) \/ Complete(t) \/ Claim(t)
                       \/ Start(t) \/ End(t)
  \/ ResumeIdle
  \/ Preempt

Spec == Init /\ [][Next]_vars
=============================================================================
