------------------------------- MODULE SchedInv -------------------------------
(***************************************************************************)
(* The inductive invariants behind the safety properties of Sched: IInv    *)
(* for the systems in which ticks are kept out of the windows "boot",      *)
(* "switch" and "handler", OpenInv for ticks anywhere.  TLC checks them on *)
(* small instances, SchedProofs proves them.                               *)
(*                                                                         *)
(* Its core: idle (task 0) is the only task that is ever resumed, so what  *)
(* matters is that the context saved in its TSS, and the half-built task   *)
(* that context may refer to, survive until then; every other task is      *)
(* either still to be started from an untouched TSS or never runs again.   *)
(*                                                                         *)
(* Both are kept as long as no creation loses a register (Intact): one     *)
(* that does may put its task in the place of idle.                        *)
(***************************************************************************)
EXTENDS Sched

\* No creation of a task that there is has lost a register.
Intact == garbled = {}

Booting == cpu.own = Boot /\ cpu.pc \in {"boot"} \cup CreateLabels

\* idle waits for the CPU: the context in its TSS is the one to resume.
IdleSuspended == ~Booting /\ (cpu.own # tasks[0] \/ cpu.pc \in SchedLabels)

\* What is known of the task that the context c is in the middle of creating.
CreateOK(c) ==
  /\ c.local \in heap /\ c.local # c.own
  /\ state[c.local] = "INIT"
  /\ c.pc \in {"ct_pid", "ct_publish"} =>
       \A i \in Slots : tasks[i] # c.local
  /\ c.pc = "ct_publish" => (pid[c.local] = 0 <=> c.own = Boot)
  /\ c.pc = "ct_ready" => ctx[c.local] = At(c.local, "entry")

\* No task exists before idle does, and no tick has been taken.
BootInv ==
  /\ cpu.pc \notin {"entry", "zero"}
  /\ cpu.pc \in {"boot", "spin"} => cpu.own = Boot
  /\ cpu.own = Boot =>
       cpu.pc \in {"boot", "spin"} \cup CreateLabels \cup SchedLabels
  /\ cpu.own = Boot /\ cpu.pc \notin SchedLabels => current = NULL
  /\ Booting /\ cpu.pc \in {"boot", "ct_pid", "ct_publish"} =>
       \A i \in Slots : tasks[i] = NULL
  /\ Booting /\ cpu.pc \in {"ct_context", "ct_ready"} => tasks[0] = cpu.local

\* idle is the task in slot 0.
IdleKnown == idle = tasks[0]

\* Once created, idle stays, and what its TSS holds can be resumed.
IdleInv ==
  /\ IdleKnown
  /\ ~Booting => /\ tasks[0] \in heap
                 /\ state[tasks[0]] = "READY"
                 /\ ctx[tasks[0]].pc \in {"entry"} \cup TaskLabels
  /\ IdleSuspended => ctx[tasks[0]].pc \notin ExitLabels

\* The CPU and a suspended idle may each be creating a task, never the same.
CreateInv ==
  /\ cpu.pc \in CreateLabels => CreateOK(cpu)
  /\ IdleSuspended /\ ctx[tasks[0]].pc \in CreateLabels =>
       /\ CreateOK(ctx[tasks[0]])
       /\ cpu.pc \in CreateLabels => cpu.local # ctx[tasks[0]].local

\* Any current task but idle has been claimed, once.
StateInv ==
  /\ current # NULL => current = tasks[0] \/ state[current] = "RUNNING"
  /\ \A p \in heap :
       /\ times[p] <= 1
       /\ state[p] # "RUNNING" => times[p] = 0
       /\ state[p] = "READY" /\ p # tasks[0] => ctx[p] = At(p, "entry")

\* What sched() has chosen is a task that never ran.
PickInv ==
  /\ cpu.pc = "found" /\ cpu.local # NULL =>
       cpu.local \in heap \ {tasks[0]} /\ state[cpu.local] = "READY"
  /\ cpu.pc \in {"claimed", "switch"} /\ cpu.local # NULL =>
       /\ cpu.local \in heap \ {tasks[0]}
       /\ state[cpu.local] = "RUNNING"
       /\ times[cpu.local] = 0
       /\ ctx[cpu.local] = At(cpu.local, "entry")
  /\ cpu.pc = "claimed" => cpu.local # NULL
  /\ cpu.pc = "switch" =>
       current = IF cpu.local = NULL THEN tasks[0] ELSE cpu.local

\* A task on its way out is not idle, and is in no slot once unlinked.
ExitInv ==
  cpu.pc \in ExitLabels =>
    /\ cpu.own # tasks[0]
    /\ state[cpu.own] = "RUNNING"
    /\ cpu.pc # "exit" => /\ cpu.local = cpu.own
                          /\ \A i \in Slots : tasks[i] # cpu.own
    /\ cpu.pc = "exit_free" => current = NULL

\* A task has an exit handler to return to, or was created by another task
\* than idle.  If only idle creates tasks there are none of the second kind.
ReturnInv ==
  /\ cpu.pc \in TaskLabels /\ cpu.own \notin {Boot, tasks[0]} =>
       cpu.ret \/ ppid[cpu.own] # 0
  /\ cpu.pc = "wild" => ppid[cpu.own] # 0
  /\ ~TaskMayCreate =>
       /\ \A p \in Page : ppid[p] = 0
       /\ cpu.pc \in CreateLabels => cpu.own \in {Boot, tasks[0]}
       /\ cpu.pc # "wild"

\* If only idle creates tasks, one at a time is unfinished: the one the CPU is
\* creating or, while idle is suspended, the one idle was creating.  A task
\* that executes its own code has been dispatched.
LifeInv ==
  ~TaskMayCreate =>
    /\ \A p \in heap : state[p] = "INIT" =>
         \/ cpu.pc \in CreateLabels /\ cpu.local = p
         \/ /\ IdleSuspended
            /\ ctx[tasks[0]].pc \in CreateLabels /\ ctx[tasks[0]].local = p
    /\ cpu.pc \in TaskLabels /\ cpu.own \notin {Boot, tasks[0]} =>
         times[cpu.own] # 0

IInv ==
  /\ TypeOK /\ OwnContext /\ CurrentOwnsCpu /\ TableSound /\ LiveStack
  /\ CurrentLive /\ BootInv /\ IdleInv /\ CreateInv /\ StateInv /\ PickInv
  /\ ExitInv /\ ReturnInv

-----------------------------------------------------------------------------
(***************************************************************************)
(* Ticks anywhere, if only idle creates tasks.  A tick in a delicate place *)
(* saves a piece of the scheduler in a TSS, and what is resumed from there *)
(* may dispatch a task again that has long ended.  What saves the task     *)
(* table is that this needs the TSS of idle to be spoiled first, and then  *)
(* idle never creates a task again.                                        *)
(***************************************************************************)
Starting == cpu.own = Boot /\ cpu.pc \in {"boot"} \cup CreateLabels

\* c is a place where idle, once resumed there, goes on as idle.
Resumable(c) == c.pc \in {"entry"} \cup TaskLabels

\* There may still be tasks created.
Healthy == Starting \/ (tasks[0] # NULL /\ Resumable(ctx[tasks[0]]))

IdleExecutes == cpu.own = tasks[0] /\ cpu.pc \in TaskLabels

\* c holds a task that was claimed and not yet started.
Claimer(c) == c.pc \in {"claimed", "switch"} /\ c.local # NULL

\* What a TSS may hold: places of its own task, or of the scheduler.
SavedInv ==
  \A p \in Page :
    /\ ctx[p].pc \in {"zero", "entry"} \cup TaskLabels \cup SchedLabels
    /\ ctx[p].pc \in TaskLabels => ctx[p].own = p
    /\ ctx[p].pc \in CreateLabels => p = tasks[0]
    /\ ctx[p].pc \in ExitLabels => p # tasks[0] /\ ctx[p].pc # "exit_free"
    /\ ctx[p].pc = "exit_current" =>
         ctx[p].local = p /\ \A i \in Slots : tasks[i] # p
    /\ ctx[p].pc = "claimed" => ctx[p].local # NULL
    /\ ctx[p].pc = "switch" =>
         p = IF ctx[p].local = NULL THEN tasks[0] ELSE ctx[p].local

\* What the CPU may be executing, and for whom.
PlaceInv ==
  /\ cpu.pc \notin {"entry", "zero"}
  /\ cpu.pc \in {"boot", "spin"} => cpu.own = Boot
  /\ cpu.own = Boot /\ cpu.pc \notin SchedLabels \cup {"wild"} =>
       cpu.pc \in {"boot", "spin"} \cup CreateLabels /\ current = NULL
  /\ cpu.pc \in CreateLabels => cpu.own \in {Boot, tasks[0]}
  /\ Starting => \A p \in Page : ctx[p].pc \in {"zero", "entry"}
  /\ Starting /\ cpu.pc \in {"boot", "ct_pid", "ct_publish"} => tasks[0] = NULL
  /\ Starting /\ cpu.pc = "ct_publish" => pid[cpu.local] = 0
  /\ IdleExecutes => Resumable(ctx[tasks[0]])
  /\ cpu.pc = "claimed" => cpu.local # NULL
  /\ cpu.pc = "switch" =>
       current = IF cpu.local = NULL THEN tasks[0] ELSE cpu.local
  /\ cpu.pc \in ExitLabels =>
       /\ cpu.own # tasks[0] /\ state[cpu.own] = "RUNNING"
       /\ cpu.pc # "exit" => /\ cpu.local = cpu.own
                             /\ \A i \in Slots : tasks[i] # cpu.own
       /\ cpu.pc = "exit_free" => current = NULL

\* READY tasks are untouched, those that somebody has claimed are RUNNING.
ClaimInv ==
  /\ current # NULL => current = tasks[0] \/ state[current] = "RUNNING"
  /\ Claimer(cpu) => state[cpu.local] = "RUNNING"
  /\ \A p \in Page : Claimer(ctx[p]) => state[ctx[p].local] = "RUNNING"
  /\ \A p \in heap : state[p] = "READY" /\ p # tasks[0] =>
                       ctx[p] = At(p, "entry")
  /\ \A p \in Page : ppid[p] = 0

\* What is known of the task that the context c is in the middle of creating.
BuildOK(c) ==
  /\ c.local \in heap /\ state[c.local] = "INIT"
  /\ ctx[c.local].pc \in {"zero", "entry"}
  /\ c.own = tasks[0] => c.local # tasks[0]
  /\ c.pc \in {"ct_pid", "ct_publish"} => \A i \in Slots : tasks[i] # c.local
  /\ c.pc = "ct_publish" => \A i \in Slots : pid[c.local] = i => tasks[i] = NULL
  /\ c.pc = "ct_ready" => ctx[c.local] = At(c.local, "entry")

BuildInv ==
  /\ cpu.pc \in CreateLabels => BuildOK(cpu)
  /\ tasks[0] # NULL /\ ~IdleExecutes /\ ctx[tasks[0]].pc \in CreateLabels =>
       BuildOK(ctx[tasks[0]])

\* As long as idle's TSS is sound, each task is dispatched at most once, and
\* what somebody has claimed is neither started nor freed.
HealthyInv ==
  Healthy =>
    /\ current # NULL => current \in heap
    /\ \A p \in heap : state[p] # "RUNNING" => times[p] = 0
    /\ cpu.pc = "found" /\ cpu.local # NULL =>
         cpu.local \in heap \ {tasks[0]} /\ state[cpu.local] = "READY"
    /\ Claimer(cpu) =>
         /\ cpu.local \in heap \ {tasks[0]} /\ times[cpu.local] = 0
         /\ ctx[cpu.local] = At(cpu.local, "entry")
         /\ \A p \in Page : Claimer(ctx[p]) => ctx[p].local # cpu.local
    /\ \A p \in Page : Claimer(ctx[p]) =>
         ctx[p].local \in heap \ {tasks[0]} /\ times[ctx[p].local] = 0
    /\ cpu.own \notin {Boot, tasks[0]} /\ cpu.pc \in TaskLabels =>
         /\ cpu.own \in heap /\ times[cpu.own] # 0
         /\ ctx[cpu.own] = At(cpu.own, "entry")

OpenInv ==
  /\ TypeOK /\ CurrentOwnsCpu /\ TableSound /\ SavedInv /\ PlaceInv
  /\ ClaimInv /\ BuildInv /\ HealthyInv
=============================================================================
