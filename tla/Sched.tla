-------------------------------- MODULE Sched --------------------------------
(***************************************************************************)
(* Tasks and preemptive scheduling: the task table and the life of a task  *)
(* (kernel/task.c), the scheduler (kernel/sched.c), the register switch    *)
(* (kernel/asm/sched.asm) and the clock interrupt that drives it           *)
(* (kernel/asm/clock_handler.asm, kernel/chr_drv/clock.c).                 *)
(*                                                                         *)
(* There is one CPU.  What it executes is a context: the stack in use and  *)
(* the code position.  A clock tick may arrive between any two steps: it   *)
(* stores the interrupted context in the TSS of `current' and runs sched() *)
(* on the same stack.  sched() leaves by a jump and never returns, so the  *)
(* frames of the handler below it are dead.  Because printk() ends with    *)
(* STI, the handler itself and every CLI section that prints can be        *)
(* interrupted; TickWindows says at which of those places ticks are let in.*)
(*                                                                         *)
(* A task is one 4096-byte page holding task_t and the task's stack, so a  *)
(* task and its stack are the same value, a member of Page.  What task     *)
(* bodies do is left open: they run, they may return, and idle() may call  *)
(* create_task() again (the shipped idle() does it once).                  *)
(***************************************************************************)
EXTENDS Integers

CONSTANTS
  Page,          \* the pages kmalloc(4096) can hand out
  NULL,          \* the null pointer
  Boot,          \* the stack kernel_main() runs on, part of no task
  NR_TASKS,      \* the length of tasks[]
  TickWindows,   \* the delicate places where a tick is let in, see Window
  TaskMayCreate  \* whether a task other than idle may call create_task()

ASSUME PageAssumption == NULL \notin Page /\ Boot \notin Page /\ NULL # Boot
ASSUME NrTasksAssumption == NR_TASKS \in Nat /\ NR_TASKS > 1
ASSUME WindowsAssumption ==
  TickWindows \subseteq {"boot", "switch", "exit", "handler", "registers"}
ASSUME MayCreateAssumption == TaskMayCreate \in BOOLEAN

VARIABLES
  tasks,    \* the task table: a page or NULL per slot
  current,  \* the task whose TSS a tick saves into, or NULL
  heap,     \* the pages kmalloc() has handed out and not got back
  pid, ppid, state,  \* per task, fields of task_t
  times,    \* per task, scheduling_times, capped by TimesMax
  ctx,      \* per task, the context its TSS holds
  cpu       \* the context being executed

\* Auxiliary variables.
VARIABLES
  idle,     \* the task whose function is idle()
  garbled   \* the tasks whose creation has lost a register, see Tick

vars == <<tasks, current, heap, pid, ppid, state, times, ctx, cpu, idle,
          garbled>>

Slots == 0 .. NR_TASKS - 1
IsFirst(i, S) == i \in S /\ \A j \in S : i <= j

TimesMax == 2   \* bound: scheduling_times is only ever compared with 0

\* Code positions.  "entry" is the first instruction of a task function,
\* "zero" the eip of a TSS that is still zero, "wild" any address that the
\* program never meant to execute.
CreateLabels == {"ct_pid", "ct_publish", "ct_context", "ct_ready"}
ExitLabels == {"exit", "exit_current", "exit_free"}
SchedLabels == {"sched", "found", "claimed", "switch"}
TaskLabels == {"run"} \cup CreateLabels \cup ExitLabels
Labels == {"boot", "spin", "entry", "zero", "wild"} \cup TaskLabels
            \cup SchedLabels

(***************************************************************************)
(* own: the page whose stack is in use; local: the task a kernel function  *)
(* holds in a local variable (task in create_task, next in sched, tmp in   *)
(* task_exit); ret: the return address at the top of the stack is          *)
(* task_exit_handler.  The compiled code keeps locals on the stack; eax    *)
(* and the flags hold something only inside a statement, and what they     *)
(* hold at a switch is lost: eax is the jump register of both switch       *)
(* routines, the flags are not saved at all.  See Tick and CreateTorn.     *)
(***************************************************************************)
Context == [own   : Page \cup {Boot},
            pc    : Labels,
            local : Page \cup {NULL},
            ret   : BOOLEAN]

At(p, label) ==
  [own |-> p, pc |-> label, local |-> NULL, ret |-> FALSE]

Goto(label) == [cpu EXCEPT !.pc = label]
GotoWith(label, p) == [cpu EXCEPT !.pc = label, !.local = p]

Init ==
  /\ tasks = [i \in Slots |-> NULL]
  /\ current = NULL
  /\ heap = {}
  /\ pid = [p \in Page |-> 0]
  /\ ppid = [p \in Page |-> 0]
  /\ state = [p \in Page |-> "INIT"]
  /\ times = [p \in Page |-> 0]
  /\ ctx = [p \in Page |-> At(p, "zero")]
  /\ cpu = At(Boot, "boot")
  /\ idle = NULL
  /\ garbled = {}

-----------------------------------------------------------------------------
(***************************************************************************)
(* create_task().  kernel_main() calls it once for idle; afterwards idle   *)
(* calls it (and any task, if TaskMayCreate).  The page is allocated and   *)
(* zeroed first and the state is set last.  When kmalloc() fails the code  *)
(* works on address 0 and leaves no trace in the state modelled here.      *)
(***************************************************************************)
\* A mutant: a full table is reported as the index one past its end.
find_empty_process_past_end(n) ==
  IsFirst(n, {i \in 0 .. NR_TASKS : i = NR_TASKS \/ tasks[i] = NULL})

\* A mutant: the index the search stopped at is returned, free or not.
find_empty_process_last(n) ==
  LET empty == {i \in Slots : tasks[i] = NULL}
  IN  IF empty = {} THEN n = NR_TASKS - 1 ELSE IsFirst(n, empty)

\* n is what the function returns.
find_empty_process(n) ==
  LET empty == {i \in Slots : tasks[i] = NULL}
  IN  IF empty = {} THEN n = -1 ELSE IsFirst(n, empty)

MayCreate ==
  \/ cpu.pc = "boot"
  \/ cpu.pc = "run" /\ (TaskMayCreate \/ cpu.own = idle)

CreateAlloc ==
  /\ MayCreate
  /\ \E p \in Page \ heap :
       /\ heap' = heap \cup {p}
       /\ state' = [state EXCEPT ![p] = "INIT"]
       /\ times' = [times EXCEPT ![p] = 0]
       /\ ctx' = [ctx EXCEPT ![p] = At(p, "zero")]
       /\ garbled' = garbled \ {p}
       /\ cpu' = GotoWith("ct_pid", p)
  /\ UNCHANGED <<tasks, current, pid, ppid, idle>>

CreatePid ==
  /\ cpu.pc = "ct_pid"
  /\ \E n \in -1 .. NR_TASKS : /\ find_empty_process(n)
                               /\ pid' = [pid EXCEPT ![cpu.local] = n]
  /\ ppid' = [ppid EXCEPT ![cpu.local] = IF current = NULL THEN 0
                                         ELSE pid[current]]
  /\ cpu' = Goto("ct_publish")
  /\ UNCHANGED <<tasks, current, heap, state, times, ctx, idle, garbled>>

\* A mutant: the task is marked READY as soon as it is in the table.
CreatePublish_ready ==
  /\ cpu.pc = "ct_publish"
  /\ tasks' = [i \in Slots |-> IF i = pid[cpu.local] THEN cpu.local
                               ELSE tasks[i]]
  /\ state' = [state EXCEPT ![cpu.local] = "READY"]
  /\ cpu' = Goto("ct_context")
  /\ idle' = IF cpu.own = Boot THEN cpu.local ELSE idle
  /\ UNCHANGED <<current, heap, pid, ppid, times, ctx, garbled>>

\* A mutant: creating a task also makes it the current one.
CreatePublish_current ==
  /\ cpu.pc = "ct_publish"
  /\ tasks' = [i \in Slots |-> IF i = pid[cpu.local] THEN cpu.local
                               ELSE tasks[i]]
  /\ current' = cpu.local
  /\ cpu' = Goto("ct_context")
  /\ idle' = IF cpu.own = Boot THEN cpu.local ELSE idle
  /\ UNCHANGED <<heap, pid, ppid, state, times, ctx, garbled>>

\* With pid = -1 the store goes to tasks[-1], which in this build is padding
\* in front of the table.
CreatePublish ==
  /\ cpu.pc = "ct_publish"
  /\ tasks' = [i \in Slots |-> IF i = pid[cpu.local] THEN cpu.local
                               ELSE tasks[i]]
  /\ cpu' = Goto("ct_context")
  /\ idle' = IF cpu.own = Boot THEN cpu.local ELSE idle
  /\ UNCHANGED <<current, heap, pid, ppid, state, times, ctx, garbled>>

CreateContext ==
  /\ cpu.pc = "ct_context"
  /\ ctx' = [ctx EXCEPT ![cpu.local] = At(cpu.local, "entry")]
  /\ cpu' = Goto("ct_ready")
  /\ UNCHANGED <<tasks, current, heap, pid, ppid, state, times, idle, garbled>>

\* kernel_main() goes on to its final endless loop, a task to its body.
CreateReady ==
  /\ cpu.pc = "ct_ready"
  /\ state' = [state EXCEPT ![cpu.local] = "READY"]
  /\ cpu' = GotoWith(IF cpu.own = Boot THEN "spin" ELSE "run", NULL)
  /\ UNCHANGED <<tasks, current, heap, pid, ppid, times, ctx, idle, garbled>>

\* A step of a creation that has lost a register: eax is now the address of the
\* instruction it was resumed at, and the flags are those of the scheduler.  So
\* find_empty_process() may find any slot empty or none, anything may end up in
\* pid and ppid (-1 stands for all that is no slot), memset() may miss a byte of
\* state, and a store through eax goes astray: the task lacks what it was to
\* get, and the code that is overwritten instead may be executed.  (Several
\* ticks may spoil several steps.  What else a stray store hits is not
\* followed, nor what the loss does to a task's own code.)
CreateTorn ==
  /\ cpu.pc \in CreateLabels /\ cpu.local \in garbled
  /\ \/ /\ cpu.pc = "ct_pid" /\ cpu' = Goto("ct_publish")
        /\ \E n \in Slots \cup {-1}, parent \in {0, -1} :
             \E s \in {"INIT", "READY"} :
               /\ pid' = [pid EXCEPT ![cpu.local] = n]
               /\ ppid' = [ppid EXCEPT ![cpu.local] = parent]
               /\ state' = [state EXCEPT ![cpu.local] = s]
     \/ /\ \/ cpu.pc = "ct_publish" /\ cpu' = Goto("ct_context")
           \/ cpu.pc = "ct_context" /\ cpu' = Goto("ct_ready")
           \/ cpu.pc = "ct_ready" /\ cpu' = GotoWith("run", NULL)
           \/ cpu' = Goto("wild")
        /\ UNCHANGED <<pid, ppid, state>>
  /\ UNCHANGED <<tasks, current, heap, times, ctx, idle, garbled>>

-----------------------------------------------------------------------------
(***************************************************************************)
(* The clock interrupt.  clock_handler_entry saves the interrupted context *)
(* in the TSS of current, if there is one; clock_handler() sends the EOI,  *)
(* prints (and thereby enables interrupts), counts, and calls sched().     *)
(***************************************************************************)
Window ==
  CASE cpu.own = Boot /\ cpu.pc \in {"boot"} \cup CreateLabels -> "boot"
    [] cpu.pc = "switch" -> "switch"
    [] cpu.pc \in {"sched", "found", "claimed"} ->
         IF current = NULL THEN "exit" ELSE "handler"
    [] OTHER -> "open"

clock_handler_entry ==
  ctx' = IF current = NULL THEN ctx
         ELSE [ctx EXCEPT ![current] = cpu]

\* The tick falls inside a statement of create_task(), or of a function it
\* calls, and not between two of them.
InStatement ==
  "registers" \in TickWindows /\ cpu.pc \in CreateLabels /\ cpu.own # Boot

Tick ==
  /\ cpu.pc # "wild"
  /\ Window \in TickWindows \cup {"open"}
  /\ clock_handler_entry
  /\ cpu' = GotoWith("sched", NULL)
  /\ \/ garbled' = garbled
     \/ InStatement /\ garbled' = garbled \cup {cpu.local}
  /\ UNCHANGED <<tasks, current, heap, pid, ppid, state, times, idle>>

-----------------------------------------------------------------------------
(***************************************************************************)
(* sched() and the register switch.                                        *)
(***************************************************************************)
\* A mutant: the search misses the last slot.
ReadySlots_short ==
  {i \in 1 .. NR_TASKS - 2 : tasks[i] # NULL /\ state[tasks[i]] = "READY"}

ReadySlots == {i \in Slots \ {0} : tasks[i] # NULL /\ state[tasks[i]] = "READY"}

\* p is what the function returns.
find_ready_task(p) ==
  IF ReadySlots = {} THEN p = NULL
  ELSE \E i \in Slots : IsFirst(i, ReadySlots) /\ p = tasks[i]

SchedFind ==
  /\ cpu.pc = "sched"
  /\ \E p \in Page \cup {NULL} : /\ find_ready_task(p)
                                /\ cpu' = GotoWith("found", p)
  /\ UNCHANGED <<tasks, current, heap, pid, ppid, state, times, ctx,
                 idle, garbled>>

SchedIdle ==
  /\ cpu.pc = "found"
  /\ cpu.local = NULL
  /\ current' = tasks[0]
  /\ cpu' = Goto("switch")
  /\ UNCHANGED <<tasks, heap, pid, ppid, state, times, ctx, idle, garbled>>

\* A mutant: the chosen task stays READY.
SchedClaim_ready ==
  /\ cpu.pc = "found"
  /\ cpu.local # NULL
  /\ cpu' = Goto("claimed")
  /\ UNCHANGED <<tasks, current, heap, pid, ppid, state, times, ctx,
                 idle, garbled>>

SchedClaim ==
  /\ cpu.pc = "found"
  /\ cpu.local # NULL
  /\ state' = [state EXCEPT ![cpu.local] = "RUNNING"]
  /\ cpu' = Goto("claimed")
  /\ UNCHANGED <<tasks, current, heap, pid, ppid, times, ctx, idle, garbled>>

SchedCurrent ==
  /\ cpu.pc = "claimed"
  /\ current' = cpu.local
  /\ cpu' = Goto("switch")
  /\ UNCHANGED <<tasks, heap, pid, ppid, state, times, ctx, idle, garbled>>

\* What the CPU executes after loading the TSS of p: `push' tells whether
\* task_exit_handler was pushed on the stack first.
Resumed(p, push) ==
  CASE ctx[p].pc = "entry" -> [At(p, "run") EXCEPT !.ret = push]
    [] ctx[p].pc = "zero"  -> At(p, "wild")
    [] OTHER -> [ctx[p] EXCEPT !.ret = @ \/ push]

\* switch_idle_task; without a task 0 it loads its registers from address 0.
SwitchIdle ==
  /\ cpu.pc = "switch"
  /\ cpu.local = NULL
  /\ cpu' = IF current = NULL THEN Goto("wild") ELSE Resumed(current, FALSE)
  /\ UNCHANGED <<tasks, current, heap, pid, ppid, state, times, ctx,
                 idle, garbled>>

\* switch_task: only a task without a parent counts its dispatches, and the
\* first one gives it task_exit_handler to return to.
SwitchTask ==
  /\ cpu.pc = "switch"
  /\ cpu.local # NULL
  /\ IF ppid[current] = 0
       THEN /\ times' = [times EXCEPT ![current] =
                           IF @ < TimesMax THEN @ + 1 ELSE @]
            /\ cpu' = Resumed(current, times[current] = 0)
       ELSE /\ cpu' = Resumed(current, FALSE)
            /\ times' = times
  /\ UNCHANGED <<tasks, current, heap, pid, ppid, state, ctx, idle, garbled>>

-----------------------------------------------------------------------------
(***************************************************************************)
(* The end of a task: its function returns into task_exit_handler, which   *)
(* calls task_exit(0, current) and then sched().  idle never returns.  A   *)
(* task whose stack holds no return address pops whatever lies above it.   *)
(***************************************************************************)
TaskReturn ==
  /\ cpu.pc = "run"
  /\ cpu.own # idle
  /\ cpu' = Goto(IF cpu.ret THEN "exit" ELSE "wild")
  /\ UNCHANGED <<tasks, current, heap, pid, ppid, state, times, ctx,
                 idle, garbled>>

\* A mutant: the slot of the finished task is not cleared.
ExitUnlink_kept ==
  /\ cpu.pc = "exit"
  /\ cpu' = GotoWith("exit_current", current)
  /\ UNCHANGED <<tasks, current, heap, pid, ppid, state, times, ctx,
                 idle, garbled>>

\* A mutant: the page is freed before current is cleared.
ExitUnlink_free ==
  LET slots == {i \in Slots \ {0} : tasks[i] = current}
  IN  /\ cpu.pc = "exit"
      /\ tasks' = [i \in Slots |-> IF i \in slots THEN NULL ELSE tasks[i]]
      /\ heap' = heap \ {current}
      /\ cpu' = GotoWith("exit_current", current)
      /\ UNCHANGED <<current, pid, ppid, state, times, ctx, idle, garbled>>

\* A mutant: current is cleared before the slot is.
ExitUnlink_current ==
  LET slots == {i \in Slots \ {0} : tasks[i] = current}
  IN  /\ cpu.pc = "exit"
      /\ tasks' = [i \in Slots |-> IF i \in slots THEN NULL ELSE tasks[i]]
      /\ current' = NULL
      /\ cpu' = GotoWith("exit_current", current)
      /\ UNCHANGED <<heap, pid, ppid, state, times, ctx, idle, garbled>>

\* A task that is in no slot falls through the loop and is not freed.
ExitUnlink ==
  LET slots == {i \in Slots \ {0} : tasks[i] = current}
  IN  /\ cpu.pc = "exit"
      /\ IF slots = {}
           THEN /\ cpu' = Goto("sched")
                /\ tasks' = tasks
           ELSE /\ \E i \in slots : /\ IsFirst(i, slots)
                                   /\ tasks' = [tasks EXCEPT ![i] = NULL]
                /\ cpu' = GotoWith("exit_current", current)
      /\ UNCHANGED <<current, heap, pid, ppid, state, times, ctx,
                     idle, garbled>>

\* A mutant: current keeps naming the finished task.
ExitCurrent_kept ==
  /\ cpu.pc = "exit_current"
  /\ cpu' = Goto("exit_free")
  /\ UNCHANGED <<tasks, current, heap, pid, ppid, state, times, ctx,
                 idle, garbled>>

ExitCurrent ==
  /\ cpu.pc = "exit_current"
  /\ current' = NULL
  /\ cpu' = Goto("exit_free")
  /\ UNCHANGED <<tasks, heap, pid, ppid, state, times, ctx, idle, garbled>>

\* kfree_s(tmp, 4096) gives back the page the CPU is still using as stack.
ExitFree ==
  /\ cpu.pc = "exit_free"
  /\ heap' = heap \ {cpu.local}
  /\ cpu' = GotoWith("sched", NULL)
  /\ UNCHANGED <<tasks, current, pid, ppid, state, times, ctx, idle, garbled>>

-----------------------------------------------------------------------------
CreateStep == CreatePid \/ CreatePublish \/ CreateContext \/ CreateReady
                \/ CreateTorn
SchedStep == SchedFind \/ SchedIdle \/ SchedClaim \/ SchedCurrent
               \/ SwitchIdle \/ SwitchTask
ExitStep == ExitUnlink \/ ExitCurrent \/ ExitFree

\* What the CPU does next without anybody's choice.
KernelStep == CreateStep \/ SchedStep \/ ExitStep

Next == CreateAlloc \/ TaskReturn \/ Tick \/ KernelStep

Spec == Init /\ [][Next]_vars

(***************************************************************************)
(* The CPU keeps executing, the boot code does reach create_task(), and    *)
(* the PIT, in rate generator mode, unmasked and acknowledged before       *)
(* anything else, keeps ticking.  A task that is resumed again and again   *)
(* inside create_task() gets through it (strong fairness): the 10 ms       *)
(* between two ticks are enough for a step of it.  Nothing is assumed of   *)
(* task bodies.                                                            *)
(***************************************************************************)
Fairness ==
  /\ WF_vars(KernelStep)
  /\ SF_vars(CreateStep)
  /\ WF_vars(cpu.pc = "boot" /\ CreateAlloc)
  /\ WF_vars(Tick)

FairSpec == Spec /\ Fairness

-----------------------------------------------------------------------------
(***************************************************************************)
(* Properties.                                                             *)
(***************************************************************************)

\* Every variable has its type; a task's pid is an index of the table or -1.
TypeOK ==
  /\ tasks \in [Slots -> Page \cup {NULL}]
  /\ current \in Page \cup {NULL}
  /\ heap \subseteq Page
  /\ pid \in [Page -> Slots \cup {-1}]
  /\ ppid \in [Page -> Slots \cup {-1}]
  /\ state \in [Page -> {"INIT", "READY", "RUNNING"}]
  /\ times \in [Page -> 0 .. TimesMax]
  /\ ctx \in [Page -> Context]
  /\ cpu \in Context
  /\ idle \in Page \cup {NULL}
  /\ garbled \subseteq Page

\* The CPU jumps to an address the program did not mean to execute only when a
\* task ends that was created by another task than idle, and so has no exit
\* handler to return to (sched.asm:54), or because the creation of a task has
\* lost a register: when it goes on, or in the task it made.  In particular no
\* half-built TSS is loaded otherwise.
NoUnintendedCode ==
  cpu.pc = "wild" =>
    \/ ppid[cpu.own] # 0
    \/ {cpu.own, cpu.local} \cap garbled # {}

\* What the TSS of a live task holds is a place in that task's own code, on
\* its own stack: no other task, exit path or interrupt handler has been
\* saved over it.
OwnContext ==
  \A p \in heap : /\ ctx[p].own = p
                  /\ ctx[p].pc \in {"zero", "entry"} \cup TaskLabels

\* While a task executes its own code, current names it, so that a tick
\* arriving there is saved in the right TSS.
CurrentOwnsCpu ==
  cpu.own # Boot /\ cpu.pc \in TaskLabels \ {"exit_free"} => current = cpu.own

\* The table holds only allocated pages, each in the slot its pid names.
TableSound ==
  \A i \in Slots : tasks[i] # NULL => tasks[i] \in heap /\ pid[tasks[i]] = i

\* A task is never put in a slot that another task still occupies, although
\* the slot is chosen, and may be left for a while, before it is filled; only a
\* task whose creation has lost a register is.
NoOverwrite ==
  [][\A i \in Slots : tasks[i] # NULL =>
       tasks'[i] \in {tasks[i], NULL} \cup garbled]_vars

\* As long as create_task() or task_exit() or a task body executes, its stack
\* is allocated: only the last call of sched() runs on a freed page.
LiveStack == cpu.pc \in TaskLabels => cpu.own \in heap \cup {Boot}

\* A tick never saves into a freed page: current is an allocated task.
CurrentLive == current # NULL => current \in heap

\* A task that the scheduler may pick, any READY one in slot 1 or above, has a
\* complete TSS that starts its function on its own stack, unless its creation
\* has lost a register: a loss in one creation spoils no other task.
ReadyIsBuilt ==
  \A i \in ReadySlots :
    tasks[i] \in garbled \/ ctx[tasks[i]] = At(tasks[i], "entry")

\* A task other than idle is dispatched at most once: the first tick in it is
\* the last time it runs.  (idle is never counted.)
DispatchedAtMostOnce == \A p \in heap : times[p] <= 1

\* What has become of page p as a task.
Phase(p) ==
  IF p \notin heap THEN "none"
  ELSE CASE state[p] = "INIT"  -> "new"
         [] state[p] = "READY" -> "ready"
         [] OTHER              -> IF times[p] = 0 THEN "claimed" ELSE "started"

\* What all pages are as tasks, and whose code the CPU executes.
Lives == [p \in Page |-> Phase(p)]
OnCpu == IF cpu.pc \in TaskLabels /\ cpu.own # Boot THEN cpu.own ELSE NULL

\* The tasks live the life TaskLife describes, although every change of theirs
\* takes several interruptible steps: one is built at a time, is published
\* unready, claimed once and started once; only idle is ever resumed; a page is
\* given back only by the task that runs on it.  (For systems in which only
\* idle creates tasks: the others would count no dispatches.)
TL == INSTANCE TaskLife WITH
        Task <- Page, idle <- tasks[0], phase <- Lives, on <- OnCpu

TaskLifeSpec == TL!Spec

\* Every READY task in the table gets the CPU.
ReadyDispatched ==
  \A i \in Slots \ {0} : \A p \in Page :
    (tasks[i] = p /\ state[p] = "READY") ~> (cpu.own = p /\ cpu.pc = "run")

\* Tasks never keep idle, the only one that creates tasks, from running again.
IdleRunsAgain == []<>(cpu.own = tasks[0] /\ cpu.pc = "run")

\* What task.h:25 says of the TSS (it saves and restores tasks): a task that was
\* interrupted by a switch is restored (or has ceased to exist).
PreemptedResumes ==
  \A p \in Page :
    (p \in heap /\ state[p] = "RUNNING" /\ cpu.own # p)
      ~> (cpu.own = p \/ p \notin heap)
=============================================================================
