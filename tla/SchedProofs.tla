----------------------------- MODULE SchedProofs -----------------------------
(***************************************************************************)
(* Proofs of the safety properties of Sched, for any number of pages and   *)
(* slots, when ticks are let in between any two steps but for the windows  *)
(* "boot", "switch" and "handler", and that it then implements TaskLife.   *)
(* (With ticks in those windows most of them fail.)  One lemma per action  *)
(* shows that it preserves the inductive invariant of SchedInv, another    *)
(* which step of TaskLife it is.                                           *)
(*                                                                         *)
(* The last part is about ticks between any two steps, whatever            *)
(* TickWindows is: if only idle creates tasks, the task table is sound, no *)
(* slot is filled twice, no half-built task can be picked, and while a     *)
(* task executes its own code, current names it.                           *)
(*                                                                         *)
(* All of it is about executions in which no creation loses a register     *)
(* ([]Intact): a tick inside a statement of create_task() may make it take *)
(* the slot of idle, and then nothing that is said of idle is true.  TLC   *)
(* checks what still holds after such a loss.                              *)
(***************************************************************************)
EXTENDS SchedInv, TLAPS

\* The contexts the actions build are contexts.
LEMMA ContextType ==
  /\ \A p \in Page \cup {Boot}, label \in Labels : At(p, label) \in Context
  /\ \A label \in Labels, p \in Page \cup {NULL} :
       cpu \in Context => /\ Goto(label) \in Context
                          /\ GotoWith(label, p) \in Context
BY DEF At, Goto, GotoWith, Context

\* Counting a dispatch for the first time makes the count 1.
LEMMA FirstDispatch ==
  ASSUME NEW f \in [Page -> 0 .. TimesMax], NEW p \in Page, f[p] = 0, NEW g,
         g = [f EXCEPT ![p] = IF @ < TimesMax THEN @ + 1 ELSE @]
  PROVE  /\ g \in [Page -> 0 .. TimesMax]
         /\ g[p] = 1
         /\ \A q \in Page \ {p} : g[q] = f[q]
BY DEF TimesMax

\* The invariant holds when kernel_main() starts.
LEMMA Initially ==
  ASSUME Init
  PROVE  IInv
<1>1. At(Boot, "boot") \in Context /\ \A p \in Page : At(p, "zero") \in Context
  BY ContextType DEF Labels
<1>2. cpu.pc = "boot" /\ cpu.own = Boot
  BY DEF Init, At
<1>3. TypeOK
  BY <1>1, NrTasksAssumption DEF Init, TypeOK, Slots, TimesMax
<1>4. OwnContext /\ CurrentOwnsCpu /\ TableSound /\ LiveStack /\ CurrentLive
  BY <1>2 DEF Init, OwnContext, CurrentOwnsCpu, TableSound, LiveStack,
              CurrentLive, TaskLabels, CreateLabels, ExitLabels
<1>5. BootInv /\ IdleInv /\ CreateInv
  BY <1>2, NrTasksAssumption
     DEF Init, BootInv, IdleInv, IdleKnown, CreateInv, IdleSuspended, Booting,
         CreateLabels, SchedLabels, Slots
<1>6. StateInv /\ PickInv /\ ExitInv /\ ReturnInv
  BY <1>2 DEF Init, StateInv, PickInv, ExitInv, ReturnInv, TaskLabels,
              CreateLabels, ExitLabels
<1>. QED  BY <1>3, <1>4, <1>5, <1>6 DEF IInv


\* The new page belongs to nobody: no slot, TSS, stack or creation refers to it.
LEMMA CreateAllocKeeps ==
  ASSUME IInv, CreateAlloc, TickWindows \subseteq {"exit", "registers"}
  PROVE  IInv'
<1>0. PICK p \in Page \ heap :
         /\ heap' = heap \cup {p}
         /\ state' = [state EXCEPT ![p] = "INIT"]
         /\ times' = [times EXCEPT ![p] = 0]
         /\ ctx' = [ctx EXCEPT ![p] = At(p, "zero")]
         /\ cpu' = GotoWith("ct_pid", p)
  BY DEF CreateAlloc
<1>1. TableSound' /\ CurrentLive'
  BY DEF IInv, CreateAlloc, TableSound, CurrentLive
<1>2. TypeOK'
  <2>1. At(p, "zero") \in Context /\ GotoWith("ct_pid", p) \in Context
    BY ContextType DEF IInv, TypeOK, Labels, TaskLabels, CreateLabels
  <2>. QED  BY <1>0, <2>1 DEF IInv, TypeOK, CreateAlloc, TimesMax
<1>3. OwnContext'
  BY DEF IInv, TypeOK, OwnContext, CreateAlloc, At
<1>4. CurrentOwnsCpu'
  BY DEF IInv, CurrentOwnsCpu, CreateAlloc, MayCreate, TaskLabels, GotoWith,
         BootInv
<1>5. LiveStack'
  BY DEF IInv, LiveStack, CreateAlloc, MayCreate, TaskLabels, GotoWith, BootInv
<1>6. BootInv'
  BY DEF IInv, BootInv, CreateAlloc, MayCreate, CreateLabels, SchedLabels,
         GotoWith, Booting
<1>7. IdleInv'
  BY DEF IInv, IdleInv, IdleKnown, CreateAlloc, CreateLabels, SchedLabels, GotoWith,
         Booting, IdleSuspended
<1>8. CreateInv'
  <2>1. cpu'.pc = "ct_pid" /\ cpu'.local = p /\ cpu'.own = cpu.own
    BY <1>0 DEF IInv, TypeOK, GotoWith, Context
  <2>2. cpu.own # p /\ \A i \in Slots : tasks[i] # p
    BY PageAssumption
       DEF IInv, LiveStack, TableSound, CreateAlloc, MayCreate, BootInv,
           TaskLabels
  <2>3. CreateOK(cpu)'
    BY <1>0, <2>1, <2>2 DEF IInv, TypeOK, CreateOK, CreateAlloc
  <2>4. IdleSuspended' =>
          /\ IdleSuspended
          /\ ctx'[tasks'[0]] = ctx[tasks[0]] /\ ctx[tasks[0]].own = tasks[0]
    BY <1>0, <2>1, NrTasksAssumption
       DEF IInv, TypeOK, IdleSuspended, CreateAlloc, IdleInv, Booting,
           MayCreate, CreateLabels, SchedLabels, OwnContext, BootInv, Slots
  <2>5. ASSUME IdleSuspended', ctx[tasks[0]].pc \in CreateLabels,
               CreateOK(ctx[tasks[0]])
        PROVE  CreateOK(ctx[tasks[0]])' /\ p # ctx[tasks[0]].local
    BY <1>0, <2>4, <2>5 DEF IInv, TypeOK, CreateOK, CreateAlloc
  <2>. QED  BY <2>1, <2>3, <2>4, <2>5 DEF IInv, CreateInv
<1>9. StateInv'
  BY DEF IInv, TypeOK, StateInv, CreateAlloc, CurrentLive
<1>10. PickInv'
  BY DEF IInv, TypeOK, PickInv, CreateAlloc, Goto, GotoWith, Context
<1>11. ExitInv'
  BY DEF IInv, ExitInv, CreateAlloc, ExitLabels, GotoWith
<1>12. ReturnInv'
  <2>1. /\ cpu'.pc = "ct_pid" /\ cpu'.own = cpu.own /\ cpu'.ret = cpu.ret
        /\ tasks' = tasks /\ ppid' = ppid
        /\ cpu.own = Boot \/ cpu.pc = "run"
    BY DEF IInv, TypeOK, CreateAlloc, MayCreate, GotoWith, BootInv, Context
  <2>2. ~TaskMayCreate => cpu.own \in {Boot, tasks[0]}
    BY DEF IInv, CreateAlloc, MayCreate, BootInv, IdleInv, IdleKnown
  <2>. QED  BY <2>1, <2>2 DEF IInv, ReturnInv, TaskLabels, CreateLabels
<1>. QED  BY <1>1, <1>2, <1>3, <1>4, <1>5, <1>6, <1>7, <1>8, <1>9, <1>10,
             <1>11, <1>12 DEF IInv

\* The free slot that was found is slot 0 only while there is no idle task.
LEMMA CreatePidKeeps ==
  ASSUME IInv, CreatePid, TickWindows \subseteq {"exit", "registers"}
  PROVE  IInv'
<1>0. PICK n \in -1 .. NR_TASKS : /\ find_empty_process(n)
                                  /\ pid' = [pid EXCEPT ![cpu.local] = n]
  BY DEF CreatePid
<1>n. n \in Slots \cup {-1} /\ (n = 0 <=> tasks[0] = NULL)
  BY <1>0, NrTasksAssumption DEF find_empty_process, IsFirst, Slots
<1>1. OwnContext' /\ CurrentLive' /\ StateInv'
  BY DEF IInv, CreatePid, OwnContext, CurrentLive, StateInv
<1>2. TypeOK'
  <2>1. ppid' \in [Page -> Slots \cup {-1}]
    <3>1. (IF current = NULL THEN 0 ELSE pid[current]) \in Slots \cup {-1}
      BY NrTasksAssumption DEF IInv, TypeOK, Slots
    <3>. QED  BY <3>1 DEF IInv, TypeOK, CreatePid
  <2>2. cpu' \in Context
    BY ContextType DEF IInv, TypeOK, CreatePid, Goto, Context, Labels,
                       CreateLabels, TaskLabels
  <2>3. pid' \in [Page -> Slots \cup {-1}]
    BY <1>0, <1>n DEF IInv, TypeOK
  <2>. QED  BY <2>1, <2>2, <2>3 DEF IInv, TypeOK, CreatePid
<1>3. CurrentOwnsCpu'
  BY DEF IInv, CurrentOwnsCpu, CreatePid, TaskLabels, CreateLabels, Goto
<1>4. TableSound'
  BY DEF IInv, TableSound, CreatePid, CreateLabels, CreateInv, CreateOK
<1>5. LiveStack'
  BY DEF IInv, LiveStack, CreatePid, TaskLabels, CreateLabels, Goto
<1>6. BootInv'
  BY DEF IInv, BootInv, CreatePid, CreateLabels, SchedLabels, Goto, Booting
<1>7. IdleInv'
  BY DEF IInv, IdleInv, IdleKnown, CreatePid, CreateLabels, SchedLabels, Goto, Booting,
         IdleSuspended
<1>8. CreateInv'
  <2>1. cpu'.pc = "ct_publish" /\ cpu'.local = cpu.local /\ cpu'.own = cpu.own
    BY DEF IInv, TypeOK, Goto, Context, CreatePid
  <2>2. CreateOK(cpu)
    BY DEF IInv, CreateInv, CreatePid, CreateLabels
  <2>3. n = 0 <=> cpu.own = Boot
    BY <1>n, PageAssumption, NrTasksAssumption
       DEF IInv, TypeOK, BootInv, IdleInv, Booting, CreatePid, CreateLabels,
           Slots
  <2>4. CreateOK(cpu)'
    BY <1>0, <2>1, <2>2, <2>3 DEF IInv, TypeOK, CreateOK, CreatePid
  <2>5. IdleSuspended' => IdleSuspended /\ ctx[tasks[0]].own = tasks[0]
    BY <2>1, NrTasksAssumption
       DEF IInv, TypeOK, IdleSuspended, CreatePid, IdleInv, Booting,
           CreateLabels, SchedLabels, OwnContext
  <2>6. ASSUME IdleSuspended, ctx[tasks[0]].pc \in CreateLabels
        PROVE  CreateOK(ctx[tasks[0]])' /\ cpu.local # ctx[tasks[0]].local
    BY <1>0, <2>6 DEF IInv, TypeOK, CreateOK, CreatePid, CreateInv,
                      CreateLabels
  <2>. QED  BY <2>1, <2>4, <2>5, <2>6 DEF IInv, CreateInv, CreatePid
<1>9. PickInv'
  BY DEF IInv, TypeOK, PickInv, CreatePid, Goto, GotoWith, Context
<1>10. ExitInv'
  BY DEF IInv, ExitInv, CreatePid, ExitLabels, Goto
<1>11. ReturnInv'
  <2>1. /\ cpu'.pc = "ct_publish" /\ cpu'.own = cpu.own /\ cpu'.ret = cpu.ret
        /\ cpu.pc = "ct_pid" /\ tasks' = tasks /\ cpu.local # cpu.own
    BY DEF IInv, TypeOK, Goto, Context, CreatePid, CreateInv, CreateOK,
           CreateLabels
  <2>2. \A p \in Page : p # cpu.local => ppid'[p] = ppid[p]
    BY DEF IInv, TypeOK, CreatePid
  <2>3. cpu.own \in Page \cup {Boot}
    BY DEF IInv, TypeOK, Context
  <2>4. ~TaskMayCreate => /\ \A p \in Page : ppid'[p] = 0
                          /\ cpu.own \in {Boot, tasks[0]}
    BY DEF IInv, TypeOK, ReturnInv, CreatePid, Context, Labels, CreateLabels,
           SchedLabels, Goto, CurrentOwnsCpu, TableSound, BootInv
  <2>. QED  BY <2>1, <2>2, <2>3, <2>4
            DEF IInv, ReturnInv, TaskLabels, CreateLabels
<1>. QED  BY <1>1, <1>2, <1>3, <1>4, <1>5, <1>6, <1>7, <1>8, <1>9, <1>10, <1>11
             DEF IInv

\* The task was in no slot, so the slot it is stored in stays the only one.
LEMMA CreatePublishKeeps ==
  ASSUME IInv, CreatePublish, TickWindows \subseteq {"exit", "registers"}
  PROVE  IInv'
<1>1. OwnContext' /\ CurrentLive'
  BY DEF IInv, CreatePublish, OwnContext, CurrentLive
<1>2. TypeOK'
  <2>1. cpu' \in Context
    BY ContextType DEF IInv, TypeOK, CreatePublish, Goto, Context, Labels,
                       CreateLabels, TaskLabels
  <2>. QED  BY <2>1 DEF IInv, TypeOK, CreatePublish, Context
<1>3. CurrentOwnsCpu'
  BY DEF IInv, CurrentOwnsCpu, CreatePublish, TaskLabels, CreateLabels, Goto
<1>4. TableSound'
  BY DEF IInv, TableSound, CreatePublish, CreateLabels, CreateInv, CreateOK
<1>5. LiveStack'
  BY DEF IInv, LiveStack, CreatePublish, TaskLabels, CreateLabels, Goto
<1>6. BootInv'
  BY DEF IInv, TypeOK, BootInv, CreatePublish, CreateLabels, SchedLabels, Goto,
         Booting, CreateInv, CreateOK
<1>7. IdleInv'
  BY NrTasksAssumption DEF IInv, IdleInv, IdleKnown, CreatePublish, CreateLabels,
         SchedLabels, Goto, Slots, Booting, IdleSuspended, CreateInv, CreateOK
<1>8. CreateInv'
  <2>1. cpu'.pc = "ct_context" /\ cpu'.local = cpu.local /\ cpu'.own = cpu.own
    BY DEF IInv, TypeOK, Goto, Context, CreatePublish
  <2>2. CreateOK(cpu)
    BY DEF IInv, CreateInv, CreatePublish, CreateLabels
  <2>3. CreateOK(cpu)'
    BY <2>1, <2>2 DEF IInv, TypeOK, CreateOK, CreatePublish
  <2>4. cpu.own # Boot => tasks'[0] = tasks[0]
    BY <2>2, NrTasksAssumption
       DEF IInv, TypeOK, CreatePublish, CreateOK, Slots
  <2>5. IdleSuspended' =>
          /\ IdleSuspended /\ ctx[tasks[0]].own = tasks[0]
          /\ tasks'[0] = tasks[0]
    BY <2>1, <2>4
       DEF IInv, TypeOK, IdleSuspended, CreatePublish, IdleInv, Booting,
           CreateLabels, SchedLabels, OwnContext
  <2>6. ASSUME IdleSuspended, ctx[tasks[0]].pc \in CreateLabels
        PROVE  CreateOK(ctx[tasks[0]])' /\ cpu.local # ctx[tasks[0]].local
    <3>1. /\ CreateOK(ctx[tasks[0]]) /\ cpu.local # ctx[tasks[0]].local
          /\ tasks'[0] = tasks[0]
      BY <2>4, <2>6
         DEF IInv, CreateInv, CreatePublish, CreateLabels, IdleSuspended,
             Booting
    <3>2. /\ ctx' = ctx /\ heap' = heap /\ pid' = pid /\ ppid' = ppid
          /\ state' = state
      BY DEF CreatePublish
    <3>3. \A i \in Slots : tasks'[i] \in {cpu.local, tasks[i]}
      BY DEF CreatePublish
    <3>. QED  BY <3>1, <3>2, <3>3 DEF CreateOK
  <2>. QED  BY <2>1, <2>3, <2>5, <2>6 DEF IInv, CreateInv, CreatePublish
<1>9. StateInv'
  BY PageAssumption, NrTasksAssumption DEF IInv, TypeOK, StateInv,
         CreatePublish, CreateLabels, Slots, CreateInv, CreateOK, BootInv,
         Booting
<1>10. PickInv'
  BY DEF IInv, TypeOK, PickInv, CreatePublish, Goto, GotoWith, Context
<1>11. ExitInv'
  BY DEF IInv, ExitInv, CreatePublish, ExitLabels, Goto
<1>12. ReturnInv'
  <2>1. /\ cpu'.pc = "ct_context" /\ cpu'.own = cpu.own /\ cpu'.ret = cpu.ret
        /\ cpu.pc = "ct_publish" /\ ppid' = ppid
    BY DEF IInv, TypeOK, Goto, Context, CreatePublish
  <2>2. cpu.own # Boot => tasks'[0] = tasks[0]
    BY <2>1, NrTasksAssumption
       DEF IInv, TypeOK, CreatePublish, CreateInv, CreateOK, CreateLabels, Slots
  <2>. QED  BY <2>1, <2>2 DEF IInv, ReturnInv, TaskLabels, CreateLabels
<1>. QED  BY <1>1, <1>2, <1>3, <1>4, <1>5, <1>6, <1>7, <1>8, <1>9, <1>10,
             <1>11, <1>12 DEF IInv

\* The TSS written is that of the task being created, never idle's.
LEMMA CreateContextKeeps ==
  ASSUME IInv, CreateContext, TickWindows \subseteq {"exit", "registers"}
  PROVE  IInv'
<1>1. TableSound' /\ CurrentLive' /\ StateInv'
  BY DEF IInv, CreateContext, TableSound, CurrentLive, StateInv
<1>2. TypeOK'
  <2>1. At(cpu.local, "entry") \in Context \/ cpu.local = NULL
    BY ContextType DEF IInv, TypeOK, Context, Labels
  <2>2. cpu' \in Context
    BY ContextType DEF IInv, TypeOK, CreateContext, Goto, Context, Labels,
                       CreateLabels, TaskLabels
  <2>. QED  BY <2>1, <2>2, PageAssumption DEF IInv, TypeOK, CreateContext
<1>3. OwnContext'
  BY DEF IInv, OwnContext, CreateContext, At
<1>4. CurrentOwnsCpu'
  BY DEF IInv, CurrentOwnsCpu, CreateContext, TaskLabels, CreateLabels, Goto
<1>5. LiveStack'
  BY DEF IInv, LiveStack, CreateContext, TaskLabels, CreateLabels, Goto
<1>6. BootInv'
  BY DEF IInv, BootInv, CreateContext, CreateLabels, SchedLabels, Goto, Booting
<1>7. IdleInv'
  BY DEF IInv, IdleInv, IdleKnown, CreateContext, CreateLabels, ExitLabels, SchedLabels,
         Goto, At, Booting, IdleSuspended
<1>8. CreateInv'
  <2>1. cpu'.pc = "ct_ready" /\ cpu'.local = cpu.local /\ cpu'.own = cpu.own
    BY DEF IInv, TypeOK, Goto, Context, CreateContext
  <2>2. CreateOK(cpu)
    BY DEF IInv, CreateInv, CreateContext, CreateLabels
  <2>3. CreateOK(cpu)'
    BY <2>1, <2>2 DEF IInv, TypeOK, CreateOK, CreateContext
  <2>4. IdleSuspended' =>
          /\ IdleSuspended /\ tasks[0] \in heap
          /\ ctx'[tasks[0]] = ctx[tasks[0]]
    BY <2>1, <2>2
       DEF IInv, TypeOK, IdleSuspended, CreateContext, IdleInv, Booting,
           CreateLabels, SchedLabels, CreateOK
  <2>5. ASSUME IdleSuspended, ctx[tasks[0]].pc \in CreateLabels
        PROVE  CreateOK(ctx[tasks[0]])' /\ cpu.local # ctx[tasks[0]].local
    <3>1. CreateOK(ctx[tasks[0]]) /\ cpu.local # ctx[tasks[0]].local
      BY <2>5 DEF IInv, CreateInv, CreateContext, CreateLabels
    <3>2. ctx'[tasks[0]] = ctx[tasks[0]]
      BY <2>2, <2>5
         DEF IInv, TypeOK, IdleSuspended, IdleInv, CreateContext, CreateOK
    <3>. QED  BY <3>1, <3>2 DEF IInv, TypeOK, CreateOK, CreateContext
  <2>. QED  BY <2>1, <2>3, <2>4, <2>5 DEF IInv, CreateInv, CreateContext
<1>9. PickInv'
  BY DEF IInv, TypeOK, PickInv, CreateContext, Goto, GotoWith, Context
<1>10. ExitInv'
  BY DEF IInv, ExitInv, CreateContext, ExitLabels, Goto
<1>11. ReturnInv'
  BY DEF IInv, TypeOK, Context, ReturnInv, CreateContext, TaskLabels,
         CreateLabels, Goto
<1>. QED  BY <1>1, <1>2, <1>3, <1>4, <1>5, <1>6, <1>7, <1>8, <1>9, <1>10, <1>11
             DEF IInv

\* The task becomes READY with its TSS built and before it was ever dispatched.
LEMMA CreateReadyKeeps ==
  ASSUME IInv, CreateReady, TickWindows \subseteq {"exit", "registers"}
  PROVE  IInv'
<1>0. cpu' \in Context
  <2>1. cpu' = GotoWith("spin", NULL) \/ cpu' = GotoWith("run", NULL)
    BY DEF CreateReady
  <2>2. "spin" \in Labels /\ "run" \in Labels
    BY DEF Labels, TaskLabels
  <2>. QED  BY <2>1, <2>2, ContextType DEF IInv, TypeOK
<1>1. OwnContext' /\ TableSound' /\ CurrentLive'
  BY DEF IInv, CreateReady, OwnContext, TableSound, CurrentLive
<1>2. TypeOK'
  BY <1>0 DEF IInv, TypeOK, CreateReady
<1>3. CurrentOwnsCpu'
  BY DEF IInv, CurrentOwnsCpu, CreateReady, TaskLabels, CreateLabels, GotoWith
<1>4. LiveStack'
  BY DEF IInv, LiveStack, CreateReady, TaskLabels, CreateLabels, GotoWith
<1>5. BootInv'
  BY DEF IInv, BootInv, CreateReady, SchedLabels, GotoWith
<1>6. IdleInv'
  BY DEF IInv, TypeOK, IdleInv, IdleKnown, CreateReady, Context, Labels, TaskLabels,
         ExitLabels, SchedLabels, GotoWith, At, IdleSuspended, CreateInv,
         CreateOK, BootInv
<1>7. CreateInv'
  BY DEF IInv, CreateInv, CreateReady, CreateLabels, SchedLabels, GotoWith, At,
         CreateOK, IdleSuspended, BootInv
<1>8. StateInv'
  <2>1. CreateOK(cpu)
    BY DEF IInv, CreateInv, CreateReady, CreateLabels
  <2>2. cpu.local # current /\ times[cpu.local] = 0
        /\ ctx[cpu.local] = At(cpu.local, "entry")
    BY <2>1, PageAssumption
       DEF IInv, TypeOK, CreateReady, CreateOK, StateInv, CurrentOwnsCpu,
           BootInv, TaskLabels, CreateLabels, SchedLabels
  <2>. QED  BY <2>1, <2>2 DEF IInv, TypeOK, CreateReady, CreateOK, StateInv
<1>9. PickInv'
  BY DEF IInv, TypeOK, PickInv, CreateReady, Goto, GotoWith, Context
<1>10. ExitInv'
  BY DEF IInv, ExitInv, CreateReady, ExitLabels, GotoWith
<1>11. ReturnInv'
  BY DEF IInv, TypeOK, Context, ReturnInv, CreateReady, TaskLabels,
         CreateLabels, GotoWith
<1>. QED  BY <1>1, <1>2, <1>3, <1>4, <1>5, <1>6, <1>7, <1>8, <1>9, <1>10, <1>11
             DEF IInv

\* Where the CPU can be when a tick is let in, and whose TSS it then saves into:
\* that of the interrupted task.  This is where the windows matter: in none of
\* those left can current name anything else.
LEMMA TickFrom ==
  ASSUME IInv, Tick, TickWindows \subseteq {"exit", "registers"}
  PROVE  /\ ~Booting /\ cpu.pc # "switch"
         /\ cpu.pc \in {"spin"} \cup TaskLabels \cup {"sched", "found", "claimed"}
         /\ cpu.pc \in {"sched", "found", "claimed"} => current = NULL
         /\ current # NULL => current = cpu.own /\ cpu.pc \in TaskLabels
<1>1. /\ ~Booting /\ cpu.pc # "switch"
      /\ cpu.pc \in {"sched", "found", "claimed"} => current = NULL
  BY DEF Tick, Window, Booting, CreateLabels
<1>2. cpu.pc \in {"spin"} \cup TaskLabels \cup {"sched", "found", "claimed"}
  BY <1>1
     DEF IInv, TypeOK, Context, Labels, BootInv, SchedLabels, Tick, Booting
<1>3. current # NULL => current = cpu.own /\ cpu.pc \in TaskLabels
  BY <1>1, <1>2
     DEF IInv, CurrentOwnsCpu, BootInv, Booting, ExitInv, ExitLabels,
         TaskLabels, CreateLabels, SchedLabels
<1>. QED  BY <1>1, <1>2, <1>3

LEMMA TickKeeps ==
  ASSUME IInv, Tick, TickWindows \subseteq {"exit", "registers"}
  PROVE  IInv'
<1>0. cpu'.pc = "sched" /\ cpu'.own = cpu.own /\ cpu'.local = NULL
  BY DEF IInv, TypeOK, Tick, GotoWith, Context
<1>w. /\ ~Booting /\ cpu.pc # "switch"
      /\ cpu.pc \in {"sched", "found", "claimed"} => current = NULL
  BY TickFrom
<1>p. cpu.pc \in {"spin"} \cup TaskLabels \cup {"sched", "found", "claimed"}
  BY TickFrom
<1>c. current # NULL => current = cpu.own /\ cpu.pc \in TaskLabels
  BY TickFrom
<1>1. TableSound' /\ CurrentLive'
  BY DEF IInv, Tick, TableSound, CurrentLive
<1>2. TypeOK'
  <2>1. cpu' \in Context
    BY ContextType DEF IInv, TypeOK, Tick, Labels, SchedLabels
  <2>2. InStatement => cpu.local \in Page
    BY DEF IInv, TypeOK, InStatement, CreateInv, CreateOK
  <2>. QED  BY <2>1, <2>2 DEF IInv, TypeOK, Tick, clock_handler_entry
<1>3. OwnContext'
  BY <1>c DEF IInv, TypeOK, OwnContext, Tick, clock_handler_entry
<1>4. CurrentOwnsCpu'
  BY DEF IInv, CurrentOwnsCpu, Tick, TaskLabels, CreateLabels, ExitLabels,
         GotoWith
<1>5. LiveStack'
  BY DEF IInv, LiveStack, Tick, TaskLabels, CreateLabels, ExitLabels, GotoWith
<1>6. BootInv'
  BY DEF IInv, BootInv, Tick, SchedLabels, GotoWith
<1>7. IdleInv'
  <2>1. /\ tasks[0] \in heap /\ state[tasks[0]] = "READY"
        /\ ctx[tasks[0]].pc \in {"entry"} \cup TaskLabels
    BY <1>w DEF IInv, IdleInv
  <2>2. ctx'[tasks[0]] = IF current = tasks[0] THEN cpu ELSE ctx[tasks[0]]
    BY <2>1, PageAssumption DEF IInv, TypeOK, Tick, clock_handler_entry
  <2>3. current # tasks[0] => IdleSuspended
    BY <1>w, <1>p, <1>c, <2>1, PageAssumption
       DEF IInv, TypeOK, IdleSuspended, CurrentOwnsCpu, BootInv, ExitInv,
           ExitLabels, SchedLabels, TaskLabels, CreateLabels
  <2>4. current = tasks[0] => cpu.pc \in TaskLabels \ ExitLabels
    BY <1>c, <2>1, PageAssumption DEF IInv, TypeOK, ExitInv
  <2>. QED  BY <1>0, <2>1, <2>2, <2>3, <2>4 DEF IInv, IdleInv, IdleKnown, Tick
<1>8. CreateInv'
  <2>1. CASE current # tasks[0]
    <3>1. /\ IdleSuspended /\ tasks[0] \in heap
          /\ ctx'[tasks[0]] = ctx[tasks[0]]
      <4>1. tasks[0] \in heap
        BY <1>w DEF IInv, IdleInv
      <4>2. IdleSuspended
        BY <1>w, <1>p, <1>c, <2>1, <4>1, PageAssumption
           DEF IInv, TypeOK, IdleSuspended, CurrentOwnsCpu, BootInv, ExitInv,
               ExitLabels, SchedLabels, TaskLabels, CreateLabels
      <4>. QED  BY <2>1, <4>1, <4>2 DEF IInv, TypeOK, Tick, clock_handler_entry
    <3>2. ASSUME ctx[tasks[0]].pc \in CreateLabels
          PROVE  CreateOK(ctx[tasks[0]])'
      <4>1. CreateOK(ctx[tasks[0]])
        BY <3>1, <3>2, <2>1 DEF IInv, CreateInv
      <4>2. ctx[tasks[0]].local # current
        BY <3>1, <3>2, <2>1, <4>1, PageAssumption
           DEF IInv, TypeOK, CreateOK, StateInv
      <4>3. ctx'[ctx[tasks[0]].local] = ctx[ctx[tasks[0]].local]
        BY <3>1, <4>1, <4>2
           DEF IInv, TypeOK, CreateOK, Tick, clock_handler_entry
      <4>. QED  BY <3>1, <4>1, <4>3 DEF CreateOK, Tick
    <3>. QED  BY <1>0, <3>1, <3>2 DEF CreateInv, CreateLabels, Tick
  <2>2. CASE current = tasks[0]
    <3>1. ctx'[tasks[0]] = cpu /\ tasks[0] \in heap /\ current = cpu.own
      BY <1>w, <1>c, <2>2, PageAssumption
         DEF IInv, TypeOK, IdleInv, Tick, clock_handler_entry
    <3>2. ASSUME cpu.pc \in CreateLabels
          PROVE  CreateOK(ctx[tasks[0]])'
      <4>1. CreateOK(cpu) /\ cpu.local # current
        BY <3>1, <3>2 DEF IInv, CreateInv, CreateOK
      <4>. QED  BY <3>1, <4>1, <2>2
                DEF IInv, TypeOK, CreateOK, Tick, clock_handler_entry
    <3>. QED  BY <1>0, <3>1, <3>2 DEF CreateInv, CreateLabels, Tick
  <2>. QED  BY <2>1, <2>2
<1>9. StateInv'
  BY DEF IInv, StateInv, Tick, clock_handler_entry
<1>10. PickInv'
  BY DEF IInv, TypeOK, PickInv, Tick, Goto, GotoWith, Context
<1>11. ExitInv'
  BY DEF IInv, ExitInv, Tick, ExitLabels, GotoWith
<1>12. ReturnInv'
  BY DEF IInv, ReturnInv, Tick, TaskLabels, CreateLabels, ExitLabels, GotoWith
<1>. QED  BY <1>1, <1>2, <1>3, <1>4, <1>5, <1>6, <1>7, <1>8, <1>9, <1>10,
             <1>11, <1>12 DEF IInv

\* What find_ready_task() returns is in the table, READY, and not in slot 0.
LEMMA SchedFindKeeps ==
  ASSUME IInv, SchedFind, TickWindows \subseteq {"exit", "registers"}
  PROVE  IInv'
<1>1. OwnContext' /\ TableSound' /\ CurrentLive' /\ StateInv'
  BY DEF IInv, SchedFind, OwnContext, TableSound, CurrentLive, StateInv
<1>2. TypeOK'
  <2>1. cpu' \in Context
    BY ContextType DEF IInv, TypeOK, SchedFind, Labels, SchedLabels
  <2>. QED  BY <2>1 DEF IInv, TypeOK, SchedFind
<1>3. CurrentOwnsCpu'
  BY DEF IInv, CurrentOwnsCpu, SchedFind, TaskLabels, CreateLabels, ExitLabels,
         GotoWith
<1>4. LiveStack'
  BY DEF IInv, LiveStack, SchedFind, TaskLabels, CreateLabels, ExitLabels,
         GotoWith
<1>5. BootInv'
  BY DEF IInv, BootInv, SchedFind, SchedLabels, GotoWith
<1>6. IdleInv'
  BY DEF IInv, TypeOK, IdleInv, IdleKnown, SchedFind, Context, Labels, TaskLabels,
         CreateLabels, ExitLabels, Booting, IdleSuspended
<1>7. CreateInv'
  BY DEF IInv, TypeOK, CreateInv, SchedFind, Context, Labels, TaskLabels,
         CreateLabels, ExitLabels, GotoWith, CreateOK, Booting, IdleSuspended
<1>8. PickInv'
  BY NrTasksAssumption DEF IInv, PickInv, SchedFind, find_ready_task,
         ReadySlots, IsFirst, GotoWith, Slots, TableSound
<1>9. ExitInv'
  BY DEF IInv, ExitInv, SchedFind, ExitLabels, GotoWith
<1>10. ReturnInv'
  BY DEF IInv, ReturnInv, SchedFind, TaskLabels, CreateLabels, ExitLabels,
         GotoWith
<1>. QED  BY <1>1, <1>2, <1>3, <1>4, <1>5, <1>6, <1>7, <1>8, <1>9, <1>10 DEF
             IInv

\* idle exists once anybody schedules.
LEMMA SchedIdleKeeps ==
  ASSUME IInv, SchedIdle, TickWindows \subseteq {"exit", "registers"}
  PROVE  IInv'
<1>1. OwnContext' /\ TableSound' /\ StateInv'
  BY DEF IInv, SchedIdle, OwnContext, TableSound, StateInv
<1>2. TypeOK'
  <2>1. cpu' \in Context
    BY ContextType DEF IInv, TypeOK, SchedIdle, Goto, Context, Labels,
                       SchedLabels
  <2>2. tasks[0] \in Page \cup {NULL}
    BY NrTasksAssumption DEF IInv, TypeOK, Slots
  <2>. QED  BY <2>1, <2>2 DEF IInv, TypeOK, SchedIdle
<1>3. CurrentOwnsCpu'
  BY DEF IInv, CurrentOwnsCpu, SchedIdle, TaskLabels, CreateLabels, ExitLabels,
         Goto
<1>4. LiveStack'
  BY DEF IInv, LiveStack, SchedIdle, TaskLabels, CreateLabels, ExitLabels, Goto
<1>5. CurrentLive'
  BY DEF IInv, CurrentLive, SchedIdle, CreateLabels, IdleInv, Booting
<1>6. BootInv'
  BY DEF IInv, BootInv, SchedIdle, SchedLabels, Goto
<1>7. IdleInv'
  BY DEF IInv, TypeOK, IdleInv, IdleKnown, SchedIdle, Context, Labels, TaskLabels,
         CreateLabels, ExitLabels, Booting, IdleSuspended
<1>8. CreateInv'
  BY DEF IInv, TypeOK, CreateInv, SchedIdle, Context, Labels, TaskLabels,
         CreateLabels, ExitLabels, Goto, CreateOK, Booting, IdleSuspended
<1>9. PickInv'
  BY DEF IInv, TypeOK, PickInv, SchedIdle, Goto, GotoWith, Context
<1>10. ExitInv'
  BY DEF IInv, ExitInv, SchedIdle, ExitLabels, Goto
<1>11. ReturnInv'
  BY DEF IInv, ReturnInv, SchedIdle, TaskLabels, CreateLabels, ExitLabels, Goto
<1>. QED  BY <1>1, <1>2, <1>3, <1>4, <1>5, <1>6, <1>7, <1>8, <1>9, <1>10, <1>11
             DEF IInv

\* The task claimed becomes RUNNING, so it is not picked again.
LEMMA SchedClaimKeeps ==
  ASSUME IInv, SchedClaim, TickWindows \subseteq {"exit", "registers"}
  PROVE  IInv'
<1>1. OwnContext' /\ TableSound' /\ CurrentLive' /\ StateInv'
  BY DEF IInv, SchedClaim, OwnContext, TableSound, CurrentLive, StateInv
<1>2. TypeOK'
  <2>1. cpu' \in Context
    BY ContextType DEF IInv, TypeOK, SchedClaim, Goto, Context, Labels,
                       SchedLabels
  <2>. QED  BY <2>1 DEF IInv, TypeOK, SchedClaim
<1>3. CurrentOwnsCpu'
  BY DEF IInv, CurrentOwnsCpu, SchedClaim, TaskLabels, CreateLabels,
         ExitLabels, Goto
<1>4. LiveStack'
  BY DEF IInv, LiveStack, SchedClaim, TaskLabels, CreateLabels, ExitLabels,
         Goto
<1>5. BootInv'
  BY DEF IInv, BootInv, SchedClaim, SchedLabels, Goto
<1>6. IdleInv'
  BY DEF IInv, TypeOK, IdleInv, IdleKnown, SchedClaim, Context, Labels, TaskLabels,
         CreateLabels, ExitLabels, Booting, IdleSuspended, PickInv
<1>7. CreateInv'
  BY DEF IInv, TypeOK, CreateInv, SchedClaim, Context, Labels, TaskLabels,
         CreateLabels, ExitLabels, Goto, CreateOK, Booting, IdleSuspended,
         PickInv
<1>8. PickInv'
  BY DEF IInv, TypeOK, PickInv, SchedClaim, Goto, StateInv
<1>9. ExitInv'
  BY DEF IInv, ExitInv, SchedClaim, ExitLabels, Goto
<1>10. ReturnInv'
  BY DEF IInv, ReturnInv, SchedClaim, TaskLabels, CreateLabels, ExitLabels,
         Goto
<1>. QED  BY <1>1, <1>2, <1>3, <1>4, <1>5, <1>6, <1>7, <1>8, <1>9, <1>10 DEF
             IInv

\* current names the claimed task.
LEMMA SchedCurrentKeeps ==
  ASSUME IInv, SchedCurrent, TickWindows \subseteq {"exit", "registers"}
  PROVE  IInv'
<1>1. OwnContext' /\ TableSound'
  BY DEF IInv, SchedCurrent, OwnContext, TableSound
<1>2. TypeOK'
  <2>1. cpu' \in Context /\ cpu.local \in Page \cup {NULL}
    BY ContextType DEF IInv, TypeOK, SchedCurrent, Goto, Context, Labels,
                       SchedLabels
  <2>. QED  BY <2>1 DEF IInv, TypeOK, SchedCurrent
<1>3. CurrentOwnsCpu'
  BY DEF IInv, CurrentOwnsCpu, SchedCurrent, TaskLabels, CreateLabels,
         ExitLabels, Goto
<1>4. LiveStack'
  BY DEF IInv, LiveStack, SchedCurrent, TaskLabels, CreateLabels, ExitLabels,
         Goto
<1>5. CurrentLive'
  BY DEF IInv, CurrentLive, SchedCurrent, PickInv
<1>6. BootInv'
  BY DEF IInv, BootInv, SchedCurrent, SchedLabels, Goto
<1>7. IdleInv'
  BY DEF IInv, TypeOK, IdleInv, IdleKnown, SchedCurrent, Context, Labels, TaskLabels,
         CreateLabels, ExitLabels, Booting, IdleSuspended
<1>8. CreateInv'
  BY DEF IInv, TypeOK, CreateInv, SchedCurrent, Context, Labels, TaskLabels,
         CreateLabels, ExitLabels, Goto, CreateOK, Booting, IdleSuspended
<1>9. StateInv'
  BY DEF IInv, StateInv, SchedCurrent, PickInv
<1>10. PickInv'
  BY DEF IInv, TypeOK, PickInv, SchedCurrent, Goto, GotoWith, Context
<1>11. ExitInv'
  BY DEF IInv, ExitInv, SchedCurrent, ExitLabels, Goto
<1>12. ReturnInv'
  BY DEF IInv, ReturnInv, SchedCurrent, TaskLabels, CreateLabels, ExitLabels,
         Goto
<1>. QED  BY <1>1, <1>2, <1>3, <1>4, <1>5, <1>6, <1>7, <1>8, <1>9, <1>10,
             <1>11, <1>12 DEF IInv

\* idle goes on where its TSS says, with the creation it was in the middle of.
LEMMA SwitchIdleKeeps ==
  ASSUME IInv, SwitchIdle, TickWindows \subseteq {"exit", "registers"}
  PROVE  IInv'
<1>0. /\ current = tasks[0] /\ current \in heap
      /\ current # NULL /\ current # Boot
      /\ ~Booting /\ IdleSuspended
      /\ cpu' = Resumed(current, FALSE)
      /\ ctx[current].own = current
      /\ ctx[current].pc \in {"entry"} \cup (TaskLabels \ ExitLabels)
  BY PageAssumption
     DEF IInv, TypeOK, SwitchIdle, PickInv, IdleInv, Booting, IdleSuspended,
         OwnContext, SchedLabels, CreateLabels
<1>1. OwnContext' /\ TableSound' /\ CurrentLive' /\ StateInv'
  BY DEF IInv, SwitchIdle, OwnContext, TableSound, CurrentLive, StateInv
<1>2. TypeOK'
  <2>1. ctx[current] \in Context /\ At(current, "run") \in Context
        /\ At(current, "wild") \in Context
    BY <1>0, ContextType DEF IInv, TypeOK, Labels, TaskLabels
  <2>2. cpu' \in Context
    BY <1>0, <2>1 DEF Resumed, Context, At
  <2>. QED  BY <2>2 DEF IInv, TypeOK, SwitchIdle
<1>3. CurrentOwnsCpu'
  BY DEF IInv, CurrentOwnsCpu, SwitchIdle, Resumed, TaskLabels, CreateLabels,
         ExitLabels, Goto, At, IdleInv, PickInv, Booting, OwnContext
<1>4. LiveStack'
  BY DEF IInv, LiveStack, SwitchIdle, Resumed, TaskLabels, CreateLabels,
         ExitLabels, Goto, At, IdleInv, PickInv, Booting, OwnContext
<1>5. BootInv'
  BY PageAssumption DEF IInv, TypeOK, BootInv, SwitchIdle, Resumed, TaskLabels,
         CreateLabels, ExitLabels, At, Booting, IdleInv, PickInv, OwnContext
<1>6. IdleInv'
  BY DEF IInv, TypeOK, IdleInv, IdleKnown, SwitchIdle, Resumed, Context, Labels,
         TaskLabels, CreateLabels, ExitLabels, Booting, IdleSuspended
<1>7. CreateInv'
  <2>1. /\ cpu'.own = current
        /\ cpu'.pc = IF ctx[current].pc = "entry" THEN "run"
                     ELSE ctx[current].pc
        /\ cpu'.pc \in CreateLabels => cpu'.local = ctx[current].local
    BY <1>0 DEF IInv, TypeOK, Resumed, Context, At, TaskLabels, CreateLabels,
                ExitLabels
  <2>2. cpu'.pc \in CreateLabels => CreateOK(cpu)'
    BY <1>0, <2>1 DEF IInv, CreateInv, CreateOK, SwitchIdle, CreateLabels
  <2>3. ~IdleSuspended'
    BY <1>0, <2>1 DEF IdleSuspended, SwitchIdle, SchedLabels, TaskLabels,
                      CreateLabels, ExitLabels
  <2>. QED  BY <2>2, <2>3 DEF CreateInv
<1>8. PickInv'
  BY DEF IInv, PickInv, SwitchIdle, Resumed, TaskLabels, CreateLabels,
         ExitLabels, Goto, At, IdleInv, Booting
<1>9. ExitInv'
  BY DEF IInv, TypeOK, ExitInv, SwitchIdle, Resumed, Context, Labels,
         TaskLabels, CreateLabels, ExitLabels, Goto, At, IdleInv, PickInv,
         Booting, IdleSuspended
<1>10. ReturnInv'
  BY PageAssumption DEF IInv, TypeOK, ReturnInv, SwitchIdle, Resumed,
         TaskLabels, CreateLabels, ExitLabels, At, IdleInv, PickInv, Booting,
         OwnContext
<1>. QED  BY <1>1, <1>2, <1>3, <1>4, <1>5, <1>6, <1>7, <1>8, <1>9, <1>10 DEF
             IInv

\* A claimed task starts its function, on its own stack.
LEMMA SwitchTaskKeeps ==
  ASSUME IInv, SwitchTask, TickWindows \subseteq {"exit", "registers"}
  PROVE  IInv'
<1>0. /\ current = cpu.local /\ current \in heap \ {tasks[0]}
      /\ ctx[current] = At(current, "entry")
      /\ times[current] = 0 /\ state[current] = "RUNNING" /\ current \in Page
  BY DEF IInv, TypeOK, SwitchTask, PickInv
<1>p. ASSUME NEW push \in BOOLEAN, cpu' = Resumed(current, push)
      PROVE  /\ cpu'.own = current /\ cpu'.pc = "run" /\ cpu'.ret = push
             /\ cpu'.local = NULL /\ cpu' \in Context
  <2>1. cpu' = [At(current, "run") EXCEPT !.ret = push]
    BY <1>0, <1>p DEF Resumed, At
  <2>. QED  BY <1>0, <2>1 DEF At, Context, Labels, TaskLabels
<1>d. /\ cpu'.own = current /\ cpu'.pc = "run" /\ cpu' \in Context
      /\ cpu'.local = NULL /\ (ppid[current] = 0 => cpu'.ret)
  <2>1. CASE ppid[current] = 0
    <3>1. cpu' = Resumed(current, TRUE)
      BY <1>0, <2>1 DEF SwitchTask
    <3>. QED  BY <1>p, <3>1
  <2>2. CASE ppid[current] # 0
    BY <1>0, <1>p, <2>2 DEF SwitchTask
  <2>. QED  BY <2>1, <2>2
<1>t. /\ times' \in [Page -> 0 .. TimesMax]
      /\ \A p \in Page : times'[p] = times[p] \/ (p = current /\ times'[p] = 1)
  <2>1. times \in [Page -> 0 .. TimesMax]
    BY DEF IInv, TypeOK
  <2>2. CASE times' = [times EXCEPT ![current] =
                         IF @ < TimesMax THEN @ + 1 ELSE @]
    BY <1>0, <2>1, <2>2, FirstDispatch
  <2>3. CASE times' = times
    BY <2>1, <2>3
  <2>. QED  BY <2>2, <2>3 DEF SwitchTask
<1>1. OwnContext' /\ TableSound' /\ CurrentLive'
  BY DEF IInv, SwitchTask, OwnContext, TableSound, CurrentLive
<1>2. TypeOK'
  BY <1>0, <1>d, <1>t DEF IInv, TypeOK, SwitchTask
<1>3. CurrentOwnsCpu'
  BY DEF IInv, CurrentOwnsCpu, SwitchTask, Resumed, At, PickInv
<1>4. LiveStack'
  BY DEF IInv, LiveStack, SwitchTask, Resumed, At, PickInv
<1>5. BootInv'
  BY <1>0, <1>d, PageAssumption
     DEF IInv, TypeOK, BootInv, Booting, CreateLabels, SwitchTask
<1>6. IdleInv'
  BY DEF IInv, TypeOK, IdleInv, IdleKnown, SwitchTask, Context, Labels, TaskLabels,
         CreateLabels, ExitLabels, Booting, IdleSuspended
<1>7. CreateInv'
  BY PageAssumption DEF IInv, TypeOK, CreateInv, SwitchTask, Resumed, Context,
         Labels, TaskLabels, CreateLabels, ExitLabels, At, CreateOK, Booting,
         IdleSuspended, PickInv, IdleInv
<1>8. StateInv'
  BY <1>0, <1>d, <1>t DEF IInv, TypeOK, StateInv, SwitchTask
<1>9. PickInv'
  BY PageAssumption DEF IInv, PickInv, SwitchTask, Resumed, At
<1>10. ExitInv'
  BY PageAssumption DEF IInv, ExitInv, SwitchTask, Resumed, ExitLabels, At,
         PickInv
<1>11. ReturnInv'
  BY <1>0, <1>d, <1>t DEF IInv, TypeOK, ReturnInv, SwitchTask, CreateLabels
<1>. QED  BY <1>1, <1>2, <1>3, <1>4, <1>5, <1>6, <1>7, <1>8, <1>9, <1>10, <1>11
             DEF IInv

\* A task that returns into task_exit_handler is not idle and was claimed.
LEMMA TaskReturnKeeps ==
  ASSUME IInv, TaskReturn, TickWindows \subseteq {"exit", "registers"}
  PROVE  IInv'
<1>1. OwnContext' /\ TableSound' /\ CurrentLive' /\ StateInv'
  BY DEF IInv, TaskReturn, OwnContext, TableSound, CurrentLive, StateInv
<1>2. TypeOK'
  <2>1. cpu' \in Context
    BY ContextType DEF IInv, TypeOK, TaskReturn, Goto, Context, Labels,
                       TaskLabels, ExitLabels
  <2>. QED  BY <2>1 DEF IInv, TypeOK, TaskReturn
<1>3. CurrentOwnsCpu'
  BY DEF IInv, CurrentOwnsCpu, TaskReturn, TaskLabels, Goto
<1>4. LiveStack'
  BY DEF IInv, LiveStack, TaskReturn, TaskLabels, Goto
<1>5. BootInv'
  BY DEF IInv, BootInv, TaskReturn, CreateLabels, SchedLabels, Goto
<1>6. IdleInv'
  BY DEF IInv, IdleInv, IdleKnown, TaskReturn, CreateLabels, Booting,
         IdleSuspended
<1>7. CreateInv'
  BY DEF IInv, CreateInv, TaskReturn, CreateLabels, Goto, CreateOK, Booting,
         IdleSuspended, IdleInv, IdleKnown
<1>8. PickInv'
  BY DEF IInv, TypeOK, PickInv, TaskReturn, Goto, GotoWith, Context
<1>i. /\ cpu.pc = "run" /\ cpu.own # tasks[0] /\ cpu.own # Boot
      /\ cpu.own \in Page
      /\ cpu'.own = cpu.own /\ cpu'.ret = cpu.ret
      /\ cpu'.pc = IF cpu.ret THEN "exit" ELSE "wild"
  BY DEF IInv, TypeOK, IdleInv, IdleKnown, BootInv, TaskReturn, Goto, Context,
         CreateLabels, SchedLabels
<1>9. ExitInv'
  BY <1>i, PageAssumption
     DEF IInv, TypeOK, ExitInv, TaskReturn, Context, Labels, TaskLabels,
         CreateLabels, ExitLabels, SchedLabels, CurrentOwnsCpu, StateInv,
         BootInv
<1>10. ReturnInv'
  BY <1>i DEF IInv, ReturnInv, TaskReturn, TaskLabels, CreateLabels, ExitLabels
<1>. QED  BY <1>1, <1>2, <1>3, <1>4, <1>5, <1>6, <1>7, <1>8, <1>9, <1>10 DEF
             IInv

\* The finished task leaves the table, if it is in it.
LEMMA ExitUnlinkKeeps ==
  ASSUME IInv, ExitUnlink, TickWindows \subseteq {"exit", "registers"}
  PROVE  IInv'
<1>0. /\ cpu.pc = "exit" /\ current = cpu.own /\ current # tasks[0]
      /\ current \in heap /\ state[current] = "RUNNING" /\ cpu.own # Boot
  BY DEF IInv, ExitUnlink, ExitInv, ExitLabels, CurrentOwnsCpu, BootInv,
         TaskLabels, CreateLabels, SchedLabels, LiveStack
<1>t. \/ /\ cpu' = Goto("sched") /\ tasks' = tasks
         /\ cpu'.pc = "sched" /\ cpu'.local = cpu.local
      \/ /\ \E i \in Slots \ {0} :
              tasks[i] = current /\ tasks' = [tasks EXCEPT ![i] = NULL]
         /\ cpu' = GotoWith("exit_current", current)
         /\ cpu'.pc = "exit_current" /\ cpu'.local = current
         /\ \A j \in Slots : tasks'[j] # current
  <2>1. CASE {i \in Slots \ {0} : tasks[i] = current} = {}
    BY <2>1 DEF ExitUnlink, IInv, TypeOK, Goto, Context
  <2>2. CASE {i \in Slots \ {0} : tasks[i] = current} # {}
    <3>1. PICK i \in Slots \ {0} :
            tasks[i] = current /\ tasks' = [tasks EXCEPT ![i] = NULL]
      BY <2>2 DEF ExitUnlink, IsFirst
    <3>2. cpu' = GotoWith("exit_current", current)
      BY <2>2 DEF ExitUnlink
    <3>3. \A j \in Slots : tasks'[j] # current
      BY <1>0, <3>1, NrTasksAssumption, PageAssumption
         DEF IInv, TypeOK, TableSound, Slots
    <3>4. cpu'.pc = "exit_current" /\ cpu'.local = current
      BY <3>2 DEF IInv, TypeOK, GotoWith, Context
    <3>. QED  BY <3>1, <3>2, <3>3, <3>4
  <2>. QED  BY <2>1, <2>2
<1>c. /\ cpu'.own = cpu.own /\ cpu' \in Context
      /\ cpu'.pc \in {"sched", "exit_current"}
  <2>1. cpu' = Goto("sched") \/ cpu' = GotoWith("exit_current", current)
    BY <1>t
  <2>2. cpu \in Context /\ current \in Page \cup {NULL}
    BY DEF IInv, TypeOK
  <2>3. {"sched", "exit_current"} \subseteq Labels
    BY DEF Labels, TaskLabels, ExitLabels, SchedLabels
  <2>4. cpu' \in Context
    BY <2>1, <2>2, <2>3, ContextType
  <2>5. cpu'.own = cpu.own
    BY <2>1, <2>2 DEF Goto, GotoWith, Context
  <2>. QED  BY <1>t, <2>4, <2>5
<1>s. /\ tasks' \in [Slots -> Page \cup {NULL}] /\ tasks'[0] = tasks[0]
      /\ \A j \in Slots : tasks'[j] \in {tasks[j], NULL}
  <2>1. tasks \in [Slots -> Page \cup {NULL}] /\ 0 \in Slots
    BY NrTasksAssumption DEF IInv, TypeOK, Slots
  <2>2. \/ tasks' = tasks
        \/ \E i \in Slots \ {0} : tasks' = [tasks EXCEPT ![i] = NULL]
    BY <1>t
  <2>. QED  BY <2>1, <2>2
<1>1. OwnContext' /\ CurrentLive'
  BY DEF IInv, ExitUnlink, OwnContext, CurrentLive
<1>2. TypeOK'
  BY <1>c, <1>s DEF IInv, TypeOK, ExitUnlink
<1>3. CurrentOwnsCpu'
  BY <1>0, <1>c DEF CurrentOwnsCpu, ExitUnlink
<1>4. TableSound'
  BY <1>s DEF IInv, TypeOK, TableSound, ExitUnlink
<1>5. LiveStack'
  BY <1>0, <1>c DEF LiveStack, ExitUnlink
<1>6. BootInv'
  BY <1>0, <1>c DEF BootInv, Booting, ExitUnlink, SchedLabels
<1>7. IdleInv'
  BY <1>0, <1>c, <1>s
     DEF IInv, TypeOK, ExitUnlink, IdleInv, IdleKnown, IdleSuspended,
         Booting, SchedLabels, CreateLabels
<1>8. CreateInv'
  BY <1>0, <1>c, <1>s, PageAssumption
     DEF IInv, TypeOK, ExitUnlink, CreateInv, CreateOK, IdleSuspended,
         Booting, SchedLabels, CreateLabels
<1>9. StateInv'
  BY <1>s DEF IInv, StateInv, ExitUnlink
<1>10. PickInv'
  BY <1>c DEF PickInv
<1>11. ExitInv'
  BY <1>0, <1>t, <1>c, <1>s DEF ExitInv, ExitLabels, ExitUnlink
<1>12. ReturnInv'
  <2>1. cpu'.ret = cpu.ret
    BY <1>t DEF IInv, TypeOK, Goto, GotoWith, Context
  <2>. QED  BY <1>0, <1>c, <1>s, <2>1
            DEF IInv, ReturnInv, ExitUnlink, TaskLabels, ExitLabels,
                CreateLabels
<1>. QED  BY <1>1, <1>2, <1>3, <1>4, <1>5, <1>6, <1>7, <1>8, <1>9, <1>10,
             <1>11, <1>12 DEF IInv

\* From here to sched() a tick saves nothing.
LEMMA ExitCurrentKeeps ==
  ASSUME IInv, ExitCurrent, TickWindows \subseteq {"exit", "registers"}
  PROVE  IInv'
<1>1. OwnContext' /\ TableSound' /\ CurrentLive' /\ StateInv'
  BY DEF IInv, ExitCurrent, OwnContext, TableSound, CurrentLive, StateInv
<1>2. TypeOK'
  <2>1. cpu' \in Context
    BY ContextType DEF IInv, TypeOK, ExitCurrent, Goto, Context, Labels,
                       TaskLabels, ExitLabels
  <2>. QED  BY <2>1 DEF IInv, TypeOK, ExitCurrent
<1>3. CurrentOwnsCpu'
  BY DEF IInv, TypeOK, CurrentOwnsCpu, ExitCurrent, Goto, GotoWith, Context
<1>4. LiveStack'
  BY DEF IInv, LiveStack, ExitCurrent, TaskLabels, ExitLabels, Goto
<1>5. BootInv'
  BY DEF IInv, BootInv, ExitCurrent, CreateLabels, SchedLabels, Goto
<1>6. IdleInv'
  BY DEF IInv, IdleInv, IdleKnown, ExitCurrent, CreateLabels, SchedLabels, Goto, Booting,
         IdleSuspended
<1>7. CreateInv'
  BY DEF IInv, CreateInv, ExitCurrent, CreateLabels, SchedLabels, Goto,
         CreateOK, Booting, IdleSuspended
<1>8. PickInv'
  BY DEF IInv, TypeOK, PickInv, ExitCurrent, Goto, GotoWith, Context
<1>9. ExitInv'
  BY DEF IInv, ExitInv, ExitCurrent, ExitLabels, Goto
<1>10. ReturnInv'
  BY DEF IInv, ReturnInv, ExitCurrent, TaskLabels, CreateLabels, ExitLabels,
         Goto
<1>. QED  BY <1>1, <1>2, <1>3, <1>4, <1>5, <1>6, <1>7, <1>8, <1>9, <1>10 DEF
             IInv

\* The page freed is in no slot and not current.
LEMMA ExitFreeKeeps ==
  ASSUME IInv, ExitFree, TickWindows \subseteq {"exit", "registers"}
  PROVE  IInv'
<1>1. OwnContext' /\ StateInv'
  BY DEF IInv, ExitFree, OwnContext, StateInv
<1>2. TypeOK'
  <2>1. cpu' \in Context
    BY ContextType DEF IInv, TypeOK, ExitFree, GotoWith, Context, Labels,
                       SchedLabels
  <2>. QED  BY <2>1 DEF IInv, TypeOK, ExitFree
<1>3. CurrentOwnsCpu'
  BY DEF IInv, CurrentOwnsCpu, ExitFree, TaskLabels, CreateLabels, ExitLabels,
         GotoWith
<1>4. TableSound'
  BY DEF IInv, TableSound, ExitFree, ExitLabels, ExitInv
<1>5. LiveStack'
  BY DEF IInv, LiveStack, ExitFree, TaskLabels, CreateLabels, ExitLabels,
         GotoWith
<1>6. CurrentLive'
  BY DEF IInv, CurrentLive, ExitFree, ExitLabels, ExitInv
<1>7. BootInv'
  BY DEF IInv, BootInv, ExitFree, SchedLabels, GotoWith
<1>8. IdleInv'
  BY DEF IInv, IdleInv, IdleKnown, ExitFree, CreateLabels, ExitLabels, Booting,
         IdleSuspended, ExitInv
<1>9. CreateInv'
  BY DEF IInv, CreateInv, ExitFree, CreateLabels, ExitLabels, GotoWith,
         CreateOK, Booting, IdleSuspended, ExitInv
<1>10. PickInv'
  BY DEF IInv, TypeOK, PickInv, ExitFree, Goto, GotoWith, Context
<1>11. ExitInv'
  BY DEF IInv, ExitInv, ExitFree, ExitLabels, GotoWith
<1>12. ReturnInv'
  BY DEF IInv, ReturnInv, ExitFree, TaskLabels, CreateLabels, ExitLabels,
         GotoWith
<1>. QED  BY <1>1, <1>2, <1>3, <1>4, <1>5, <1>6, <1>7, <1>8, <1>9, <1>10,
             <1>11, <1>12 DEF IInv

\* The invariant is inductive.
LEMMA StepKeeps ==
  ASSUME IInv, [Next]_vars, Intact, TickWindows \subseteq {"exit", "registers"}
  PROVE  IInv'
<1>1. CASE CreateAlloc  BY <1>1, CreateAllocKeeps
<1>2. CASE CreatePid  BY <1>2, CreatePidKeeps
<1>3. CASE CreatePublish  BY <1>3, CreatePublishKeeps
<1>4. CASE CreateContext  BY <1>4, CreateContextKeeps
<1>5. CASE CreateReady  BY <1>5, CreateReadyKeeps
<1>6. CASE Tick  BY <1>6, TickKeeps
<1>7. CASE SchedFind  BY <1>7, SchedFindKeeps
<1>8. CASE SchedIdle  BY <1>8, SchedIdleKeeps
<1>9. CASE SchedClaim  BY <1>9, SchedClaimKeeps
<1>10. CASE SchedCurrent  BY <1>10, SchedCurrentKeeps
<1>11. CASE SwitchIdle  BY <1>11, SwitchIdleKeeps
<1>12. CASE SwitchTask  BY <1>12, SwitchTaskKeeps
<1>13. CASE TaskReturn  BY <1>13, TaskReturnKeeps
<1>14. CASE ExitUnlink  BY <1>14, ExitUnlinkKeeps
<1>15. CASE ExitCurrent  BY <1>15, ExitCurrentKeeps
<1>16. CASE ExitFree  BY <1>16, ExitFreeKeeps
<1>17. CASE UNCHANGED vars
  BY <1>17 DEF vars, IInv, TypeOK, OwnContext, CurrentOwnsCpu, TableSound,
     LiveStack, CurrentLive, BootInv, IdleInv, IdleKnown, CreateInv, CreateOK,
     StateInv, PickInv, ExitInv, ReturnInv, IdleSuspended, Booting
<1>18. ~CreateTorn
  BY DEF Intact, CreateTorn
<1>. QED
  BY <1>1, <1>2, <1>3, <1>4, <1>5, <1>6, <1>7, <1>8, <1>9, <1>10, <1>11,
     <1>12, <1>13, <1>14, <1>15, <1>16, <1>17, <1>18
     DEF Next, KernelStep, CreateStep, SchedStep, ExitStep

\* Every variable keeps its type, as long as no creation loses a register.
THEOREM TypeCorrect ==
  ASSUME TickWindows \subseteq {"exit", "registers"}
  PROVE  Spec /\ []Intact => []TypeOK
<1>1. IInv => TypeOK
  BY DEF IInv
<1>. QED  BY <1>1, Initially, StepKeeps, PTL DEF Spec

\* For any number of pages and slots, as long as no creation loses a register, no
\* other task, exit path or piece of the scheduler is saved over the TSS of a live
\* task.
THEOREM ContextsKept ==
  ASSUME TickWindows \subseteq {"exit", "registers"}
  PROVE  Spec /\ []Intact => []OwnContext
<1>1. IInv => OwnContext
  BY DEF IInv
<1>. QED  BY <1>1, Initially, StepKeeps, PTL DEF Spec

\* As long as no creation loses a register, nothing but the last call of sched()
\* executes on a freed page.
THEOREM StacksLive ==
  ASSUME TickWindows \subseteq {"exit", "registers"}
  PROVE  Spec /\ []Intact => []LiveStack
<1>1. IInv => LiveStack
  BY DEF IInv
<1>. QED  BY <1>1, Initially, StepKeeps, PTL DEF Spec

\* As long as no creation loses a register, no tick saves into a freed page.
THEOREM CurrentIsLive ==
  ASSUME TickWindows \subseteq {"exit", "registers"}
  PROVE  Spec /\ []Intact => []CurrentLive
<1>1. IInv => CurrentLive
  BY DEF IInv
<1>. QED  BY <1>1, Initially, StepKeeps, PTL DEF Spec

\* As long as no creation loses a register, current names the executing task and
\* the table holds allocated pages in their own slots, also if every task may
\* create tasks.  (The last part has the two for every window, if only idle does.)
THEOREM TableAndCurrent ==
  ASSUME TickWindows \subseteq {"exit", "registers"}
  PROVE  Spec /\ []Intact => [](CurrentOwnsCpu /\ TableSound)
<1>1. IInv => CurrentOwnsCpu /\ TableSound
  BY DEF IInv
<1>. QED  BY <1>1, Initially, StepKeeps, PTL DEF Spec

\* As long as no creation loses a register, the scheduler finds complete tasks only.
THEOREM FoundComplete ==
  ASSUME TickWindows \subseteq {"exit", "registers"}
  PROVE  Spec /\ []Intact => []ReadyIsBuilt
<1>1. IInv => ReadyIsBuilt
  <2>1. ASSUME IInv, NEW i \in ReadySlots
        PROVE  ctx[tasks[i]] = At(tasks[i], "entry")
    <3>1. tasks[i] \in heap /\ state[tasks[i]] = "READY" /\ i # 0
      BY <2>1 DEF ReadySlots, IInv, TableSound
    <3>2. tasks[i] # tasks[0]
      BY <2>1, <3>1, NrTasksAssumption DEF ReadySlots, IInv, TableSound, Slots
    <3>. QED  BY <2>1, <3>1, <3>2 DEF IInv, StateInv
  <2>. QED  BY <2>1 DEF ReadyIsBuilt
<1>. QED  BY <1>1, Initially, StepKeeps, PTL DEF Spec

\* As long as no creation loses a register, no task other than idle is dispatched
\* twice.
THEOREM DispatchedOnce ==
  ASSUME TickWindows \subseteq {"exit", "registers"}
  PROVE  Spec /\ []Intact => []DispatchedAtMostOnce
<1>1. IInv => DispatchedAtMostOnce
  BY DEF IInv, StateInv, DispatchedAtMostOnce
<1>. QED  BY <1>1, Initially, StepKeeps, PTL DEF Spec

\* As long as no creation loses a register, the CPU leaves the code of the program
\* only when a task ends that was created by another task than idle: whichever
\* tasks create tasks, no half-built TSS is loaded, and no other task ends without
\* an exit handler to return to.
THEOREM NoWildJump ==
  ASSUME TickWindows \subseteq {"exit", "registers"}
  PROVE  Spec /\ []Intact => []NoUnintendedCode
<1>1. IInv => NoUnintendedCode
  BY DEF IInv, ReturnInv, NoUnintendedCode
<1>. QED  BY <1>1, Initially, StepKeeps, PTL DEF Spec

-----------------------------------------------------------------------------
(***************************************************************************)
(* Sched implements TaskLife, if only idle creates tasks.  To the          *)
(* inductive invariant comes LifeInv: what TaskLife calls new is one task, *)
(* the one being created.                                                  *)
(***************************************************************************)
\* The phases depend on three variables.
LEMMA LivesSame ==
  ASSUME UNCHANGED <<heap, state, times>>
  PROVE  Lives' = Lives
BY DEF Lives, Phase

\* What becomes of the phases when only one task changes.
LEMMA LivesChange ==
  ASSUME NEW t \in Page, NEW to,
         Phase(t)' = to,
         \A p \in Page \ {t} :
           /\ p \in heap' <=> p \in heap
           /\ state'[p] = state[p] /\ times'[p] = times[p]
  PROVE  Lives' = [Lives EXCEPT ![t] = to]
<1>1. \A p \in Page \ {t} : Phase(p)' = Phase(p)
  BY DEF Phase
<1>. QED  BY <1>1 DEF Lives

\* No task's code is executed inside the scheduler, in the boot code or after it.
LEMMA OnCpuNobody ==
  ASSUME cpu.pc \in SchedLabels \cup {"boot", "spin"} \/ cpu.own = Boot
  PROVE  OnCpu = NULL
BY DEF OnCpu, SchedLabels, TaskLabels, CreateLabels, ExitLabels

LEMMA OnCpuTask ==
  ASSUME cpu.pc \in TaskLabels, cpu.own # Boot
  PROVE  OnCpu = cpu.own
BY DEF OnCpu

\* A step within the code of one task is none of TaskLife's.
LEMMA SameCode ==
  ASSUME cpu.pc \in TaskLabels, cpu'.pc \in TaskLabels, cpu'.own = cpu.own
  PROVE  OnCpu' = OnCpu
BY DEF OnCpu

Whole == IInv /\ LifeInv

-----------------------------------------------------------------------------
\* create_task() starts when nothing else is being created.
LEMMA CreateAllocLives ==
  ASSUME Whole, CreateAlloc, ~TaskMayCreate
  PROVE  LifeInv' /\ TL!Next
<1>1. PICK p \in Page \ heap :
         /\ heap' = heap \cup {p}
         /\ state' = [state EXCEPT ![p] = "INIT"]
         /\ times' = [times EXCEPT ![p] = 0]
         /\ cpu' = GotoWith("ct_pid", p)
  BY DEF CreateAlloc
<1>2. cpu'.pc = "ct_pid" /\ cpu'.local = p /\ cpu'.own = cpu.own
  BY <1>1 DEF Whole, IInv, TypeOK, GotoWith, Context
<1>3. \/ cpu.pc = "boot" /\ cpu.own = Boot /\ tasks[0] = NULL
      \/ cpu.pc = "run" /\ cpu.own = tasks[0] /\ cpu.own # Boot
  BY NrTasksAssumption
     DEF CreateAlloc, MayCreate, Whole, IInv, IdleInv, IdleKnown, BootInv,
         Booting, Slots,
         CreateLabels, SchedLabels
<1>4. ~IdleSuspended /\ cpu.pc \notin CreateLabels
  BY <1>3 DEF IdleSuspended, Booting, SchedLabels, CreateLabels
<1>5. \A q \in heap : state[q] # "INIT"
  BY <1>4 DEF Whole, LifeInv
<1>6. LifeInv'
  <2>1. \A q \in heap' : state'[q] = "INIT" => q = p
    BY <1>1, <1>5 DEF Whole, IInv, TypeOK
  <2>2. cpu'.own \in {Boot, tasks'[0]}
    BY <1>2, <1>3 DEF CreateAlloc
  <2>. QED  BY <1>2, <2>1, <2>2 DEF LifeInv, CreateLabels
<1>7. OnCpu = tasks[0] /\ OnCpu' = OnCpu
  <2>1. CASE cpu.own = Boot
    BY <1>2, <1>3, <2>1 DEF OnCpu
  <2>2. CASE cpu.own # Boot
    BY <1>2, <1>3, <2>2 DEF OnCpu, TaskLabels, CreateLabels
  <2>. QED  BY <2>1, <2>2
<1>8. Lives[p] = "none" /\ \A u \in Page : Lives[u] # "new"
  <2>1. Phase(p) = "none"
    BY DEF Phase
  <2>2. \A u \in Page : Phase(u) # "new"
    BY <1>5 DEF Phase
  <2>. QED  BY <2>1, <2>2 DEF Lives
<1>9. Lives' = [Lives EXCEPT ![p] = "new"]
  <2>1. Phase(p)' = "new"
    BY <1>1 DEF Phase, Whole, IInv, TypeOK
  <2>2. \A q \in Page \ {p} : /\ q \in heap' <=> q \in heap
                              /\ state'[q] = state[q] /\ times'[q] = times[q]
    BY <1>1 DEF Whole, IInv, TypeOK
  <2>. QED  BY <2>1, <2>2, LivesChange
<1>10. TL!Create(p)
  BY <1>7, <1>8, <1>9 DEF TL!Create, TL!Enter, CreateAlloc
<1>. QED  BY <1>6, <1>10 DEF TL!Next

\* Finding a slot changes nothing yet.
LEMMA CreatePidLives ==
  ASSUME Whole, CreatePid, ~TaskMayCreate
  PROVE  LifeInv' /\ UNCHANGED TL!vars
<1>1. cpu'.pc = "ct_publish" /\ cpu'.local = cpu.local /\ cpu'.own = cpu.own
  BY DEF CreatePid, Whole, IInv, TypeOK, Goto, Context
<1>2. LifeInv'
  BY <1>1 DEF CreatePid, Whole, LifeInv, IdleSuspended, Booting, CreateLabels,
              SchedLabels, TaskLabels
<1>3. OnCpu' = OnCpu
  BY <1>1, SameCode DEF CreatePid, TaskLabels, CreateLabels
<1>. QED  BY <1>2, <1>3, LivesSame DEF TL!vars, CreatePid

\* The first task to be published becomes idle; the others are not noticed.
LEMMA CreatePublishLives ==
  ASSUME Whole, CreatePublish, ~TaskMayCreate
  PROVE  LifeInv' /\ [TL!Next]_(TL!vars)
<1>1. cpu'.pc = "ct_context" /\ cpu'.local = cpu.local /\ cpu'.own = cpu.own
  BY DEF CreatePublish, Whole, IInv, TypeOK, Goto, Context
<1>2. CreateOK(cpu) /\ cpu.local \in Page
  BY DEF CreatePublish, Whole, IInv, TypeOK, CreateInv, CreateOK, CreateLabels
<1>3. tasks'[0] = IF pid[cpu.local] = 0 THEN cpu.local ELSE tasks[0]
  BY NrTasksAssumption DEF CreatePublish, Slots
<1>4. OnCpu' = OnCpu
  BY <1>1, SameCode DEF CreatePublish, TaskLabels, CreateLabels
<1>5. Lives' = Lives
  BY LivesSame DEF CreatePublish
<1>6. CASE pid[cpu.local] = 0
  <2>1. cpu.own = Boot /\ tasks[0] = NULL /\ Booting
    BY <1>2, <1>6, NrTasksAssumption
       DEF CreateOK, CreatePublish, Whole, IInv, BootInv, Booting,
           CreateLabels, Slots
  <2>2. LifeInv'
    BY <1>1, <2>1 DEF CreatePublish, Whole, LifeInv, IdleSuspended, Booting,
                      CreateLabels, TaskLabels
  <2>3. Lives[cpu.local] = "new"
    BY <1>2 DEF Lives, Phase, CreateOK
  <2>4. TL!BecomeIdle(cpu.local)
    BY <1>3, <1>4, <1>5, <1>6, <2>1, <2>3 DEF TL!BecomeIdle
  <2>. QED  BY <1>2, <2>2, <2>4 DEF TL!Next
<1>7. CASE pid[cpu.local] # 0
  <2>1. LifeInv'
    BY <1>1, <1>3, <1>7
       DEF CreatePublish, Whole, LifeInv, IdleSuspended, Booting,
           CreateLabels, SchedLabels, TaskLabels
  <2>. QED  BY <1>3, <1>4, <1>5, <1>7, <2>1 DEF TL!vars
<1>. QED  BY <1>6, <1>7

\* The TSS written is not that of a suspended idle.
LEMMA CreateContextLives ==
  ASSUME Whole, CreateContext, ~TaskMayCreate
  PROVE  LifeInv' /\ UNCHANGED TL!vars
<1>1. cpu'.pc = "ct_ready" /\ cpu'.local = cpu.local /\ cpu'.own = cpu.own
  BY DEF CreateContext, Whole, IInv, TypeOK, Goto, Context
<1>2. cpu.own \in {Boot, tasks[0]} /\ ~IdleSuspended
  BY DEF CreateContext, Whole, IInv, ReturnInv, IdleSuspended, Booting,
         CreateLabels, SchedLabels
<1>3. LifeInv'
  BY <1>1, <1>2 DEF CreateContext, Whole, LifeInv, CreateLabels
<1>4. OnCpu' = OnCpu
  BY <1>1, SameCode DEF CreateContext, TaskLabels, CreateLabels
<1>. QED  BY <1>3, <1>4, LivesSame DEF TL!vars, CreateContext

\* The task is complete.
LEMMA CreateReadyLives ==
  ASSUME Whole, CreateReady, ~TaskMayCreate
  PROVE  LifeInv' /\ TL!Next
<1>1. /\ cpu'.pc = (IF cpu.own = Boot THEN "spin" ELSE "run")
      /\ cpu'.own = cpu.own
  BY DEF CreateReady, Whole, IInv, TypeOK, GotoWith, Context
<1>2. CreateOK(cpu) /\ cpu.local \in Page
  BY DEF CreateReady, Whole, IInv, TypeOK, CreateInv, CreateOK, CreateLabels
<1>3. cpu.own \in {Boot, tasks[0]} /\ ~IdleSuspended
  BY DEF CreateReady, Whole, IInv, ReturnInv, IdleSuspended, Booting,
         CreateLabels, SchedLabels
<1>4. LifeInv'
  <2>1. \A q \in heap' : state'[q] # "INIT"
    BY <1>2, <1>3 DEF CreateReady, Whole, LifeInv, IInv, TypeOK
  <2>. QED  BY <1>1, <1>3, <2>1 DEF CreateReady, LifeInv
<1>5. Lives[cpu.local] = "new"
  BY <1>2 DEF Lives, Phase, CreateOK
<1>6. Lives' = [Lives EXCEPT ![cpu.local] = "ready"]
  <2>1. PICK t \in Page : t = cpu.local
    BY <1>2
  <2>2. Phase(t)' = "ready"
    BY <1>2, <2>1 DEF Phase, CreateReady, CreateOK, Whole, IInv, TypeOK
  <2>. QED  BY <2>1, <2>2, LivesChange DEF CreateReady, Whole, IInv, TypeOK
<1>7. OnCpu' = OnCpu /\ (OnCpu = tasks[0] \/ cpu.local = tasks[0])
  <2>1. CASE cpu.own = Boot
    BY <1>1, <2>1 DEF OnCpu, CreateReady, Whole, IInv, BootInv, Booting,
                      CreateLabels
  <2>2. CASE cpu.own # Boot
    BY <1>1, <1>3, <2>2 DEF OnCpu, CreateReady, TaskLabels, CreateLabels
  <2>. QED  BY <2>1, <2>2
<1>8. TL!Complete(cpu.local)
  BY <1>5, <1>6, <1>7 DEF TL!Complete, TL!Enter, CreateReady
<1>. QED  BY <1>2, <1>4, <1>8 DEF TL!Next

\* A task that loses the CPU loses it for good; idle keeps its unfinished task.
LEMMA TickLives ==
  ASSUME Whole, Tick, ~TaskMayCreate,
         TickWindows \subseteq {"exit", "registers"}
  PROVE  LifeInv' /\ [TL!Next]_(TL!vars)
<1>1. cpu'.pc = "sched" /\ cpu'.own = cpu.own /\ ~Booting
  BY TickFrom DEF Tick, Whole, IInv, TypeOK, GotoWith, Context
<1>2. current # NULL => current = cpu.own /\ cpu.pc \in TaskLabels
  BY TickFrom DEF Whole
<1>3. IdleSuspended'
  BY <1>1 DEF IdleSuspended, Booting, SchedLabels, CreateLabels
<1>4. ASSUME NEW p \in heap, state[p] = "INIT"
      PROVE  ctx'[tasks[0]].pc \in CreateLabels /\ ctx'[tasks[0]].local = p
  <2>1. tasks[0] \in Page /\ tasks[0] # NULL
    BY <1>1, PageAssumption DEF Whole, IInv, TypeOK, IdleInv
  <2>2. CASE cpu.pc \in CreateLabels /\ cpu.local = p
    <3>1. cpu.own = tasks[0] /\ current = cpu.own
      BY <1>1, <2>2
         DEF Whole, IInv, ReturnInv, Booting, CurrentOwnsCpu, TaskLabels,
             CreateLabels, ExitLabels
    <3>2. ctx'[tasks[0]] = cpu
      BY <2>1, <3>1 DEF Tick, clock_handler_entry, Whole, IInv, TypeOK
    <3>. QED  BY <2>2, <3>2
  <2>3. CASE /\ IdleSuspended
             /\ ctx[tasks[0]].pc \in CreateLabels /\ ctx[tasks[0]].local = p
    <3>1. current # tasks[0]
      BY <1>2, <2>1, <2>3
         DEF IdleSuspended, SchedLabels, TaskLabels, CreateLabels, ExitLabels
    <3>2. ctx'[tasks[0]] = ctx[tasks[0]]
      BY <2>1, <3>1 DEF Tick, clock_handler_entry, Whole, IInv, TypeOK
    <3>. QED  BY <2>3, <3>2
  <2>. QED  BY <1>4, <2>2, <2>3 DEF Whole, LifeInv
<1>5. LifeInv'
  BY <1>1, <1>3, <1>4
     DEF LifeInv, Tick, TaskLabels, CreateLabels, ExitLabels
<1>6. OnCpu' = NULL
  BY <1>1 DEF OnCpu, TaskLabels, CreateLabels, ExitLabels
<1>7. Lives' = Lives /\ tasks' = tasks
  BY LivesSame DEF Tick
<1>8. CASE OnCpu = NULL
  BY <1>5, <1>6, <1>7, <1>8 DEF TL!vars
<1>9. CASE OnCpu # NULL
  BY <1>5, <1>6, <1>7, <1>9 DEF TL!Preempt, TL!Next
<1>. QED  BY <1>8, <1>9

\* Steps of the scheduler before the choice takes effect, and after it.
LEMMA SchedulingLives ==
  ASSUME Whole, SchedFind \/ SchedIdle \/ SchedCurrent, ~TaskMayCreate
  PROVE  LifeInv' /\ UNCHANGED TL!vars
<1>1. /\ cpu.pc \in SchedLabels /\ cpu'.pc \in SchedLabels
      /\ cpu'.own = cpu.own
      /\ UNCHANGED <<tasks, heap, state, times, ctx>>
  BY DEF SchedFind, SchedIdle, SchedCurrent, Whole, IInv, TypeOK, Goto,
         GotoWith, Context, SchedLabels
<1>2. IdleSuspended' <=> IdleSuspended
  BY <1>1 DEF IdleSuspended, Booting, SchedLabels, CreateLabels
<1>3. LifeInv'
  BY <1>1, <1>2 DEF Whole, LifeInv, SchedLabels, CreateLabels, ExitLabels,
                    TaskLabels
<1>4. OnCpu = NULL /\ OnCpu' = NULL
  BY <1>1 DEF OnCpu, SchedLabels, CreateLabels, ExitLabels, TaskLabels
<1>. QED  BY <1>1, <1>3, <1>4, LivesSame DEF TL!vars

\* The task that sched() found is ready, and claimed now.
LEMMA SchedClaimLives ==
  ASSUME Whole, SchedClaim, ~TaskMayCreate
  PROVE  LifeInv' /\ TL!Next
<1>1. cpu'.pc = "claimed" /\ cpu'.own = cpu.own
  BY DEF SchedClaim, Whole, IInv, TypeOK, Goto, Context
<1>2. /\ cpu.local \in heap \ {tasks[0]} /\ cpu.local \in Page
      /\ state[cpu.local] = "READY" /\ times[cpu.local] = 0
  BY DEF SchedClaim, Whole, IInv, TypeOK, PickInv, StateInv
<1>3. LifeInv'
  <2>1. IdleSuspended' <=> IdleSuspended
    BY <1>1 DEF SchedClaim, IdleSuspended, Booting, SchedLabels, CreateLabels
  <2>. QED  BY <1>1, <1>2, <2>1
            DEF SchedClaim, Whole, IInv, TypeOK, LifeInv, CreateLabels,
                ExitLabels, TaskLabels
<1>4. OnCpu = NULL /\ OnCpu' = NULL
  BY <1>1 DEF SchedClaim, OnCpu, CreateLabels, ExitLabels, TaskLabels
<1>5. Lives[cpu.local] = "ready"
  BY <1>2 DEF Lives, Phase
<1>6. Lives' = [Lives EXCEPT ![cpu.local] = "claimed"]
  <2>1. PICK t \in Page : t = cpu.local
    BY <1>2
  <2>2. Phase(t)' = "claimed"
    BY <1>2, <2>1 DEF Phase, SchedClaim, Whole, IInv, TypeOK
  <2>. QED  BY <2>1, <2>2, LivesChange DEF SchedClaim, Whole, IInv, TypeOK
<1>7. TL!Claim(cpu.local)
  BY <1>2, <1>4, <1>5, <1>6 DEF TL!Claim, TL!Enter, SchedClaim
<1>. QED  BY <1>2, <1>3, <1>7 DEF TL!Next

\* idle gets the CPU back, with the task it was creating.
LEMMA SwitchIdleLives ==
  ASSUME Whole, SwitchIdle, ~TaskMayCreate
  PROVE  LifeInv' /\ TL!Next
<1>1. /\ ~Booting /\ current = tasks[0] /\ tasks[0] \in heap
      /\ current # NULL /\ current # Boot /\ current \in Page
      /\ state[tasks[0]] = "READY" /\ IdleSuspended
      /\ ctx[current].own = current
      /\ ctx[current].pc \in {"entry"} \cup TaskLabels
  BY PageAssumption
     DEF SwitchIdle, Whole, IInv, TypeOK, PickInv, IdleInv, OwnContext,
         IdleSuspended, Booting, SchedLabels, CreateLabels
<1>2. /\ cpu'.own = tasks[0] /\ cpu'.pc \in TaskLabels
      /\ ctx[current].pc \in CreateLabels =>
           cpu'.pc = ctx[current].pc /\ cpu'.local = ctx[current].local
  <2>1. cpu' = Resumed(current, FALSE)
    BY <1>1 DEF SwitchIdle
  <2>2. CASE ctx[current].pc = "entry"
    BY <1>1, <2>1, <2>2 DEF Resumed, At, TaskLabels, CreateLabels
  <2>3. CASE ctx[current].pc \in TaskLabels
    <3>1. cpu' = [ctx[current] EXCEPT !.ret = @ \/ FALSE]
      BY <2>1, <2>3 DEF Resumed, TaskLabels, CreateLabels, ExitLabels
    <3>2. ctx[current] \in Context
      BY <1>1 DEF Whole, IInv, TypeOK
    <3>. QED  BY <1>1, <2>3, <3>1, <3>2 DEF Context
  <2>. QED  BY <1>1, <2>2, <2>3
<1>3. LifeInv'
  BY <1>1, <1>2 DEF SwitchIdle, Whole, LifeInv, CreateLabels
<1>4. OnCpu = NULL /\ OnCpu' = tasks[0]
  BY <1>1, <1>2
     DEF SwitchIdle, OnCpu, CreateLabels, ExitLabels, TaskLabels
<1>5. Lives' = Lives /\ tasks' = tasks
  BY LivesSame DEF SwitchIdle
<1>6. Lives[tasks[0]] = "ready"
  BY <1>1 DEF Lives, Phase
<1>7. TL!ResumeIdle
  BY <1>1, <1>4, <1>5, <1>6 DEF TL!ResumeIdle
<1>. QED  BY <1>3, <1>7 DEF TL!Next

\* A claimed task starts: its dispatch is counted, as idle is its parent.
LEMMA SwitchTaskLives ==
  ASSUME Whole, SwitchTask, ~TaskMayCreate
  PROVE  LifeInv' /\ TL!Next
<1>1. /\ current = cpu.local /\ current \in heap \ {tasks[0]}
      /\ current \in Page /\ current # Boot
      /\ ctx[current] = At(current, "entry") /\ times[current] = 0
      /\ state[current] = "RUNNING" /\ ppid[current] = 0
  BY PageAssumption
     DEF SwitchTask, Whole, IInv, TypeOK, PickInv, ReturnInv
<1>2. cpu'.own = current /\ cpu'.pc = "run"
  <2>1. cpu' = Resumed(current, TRUE)
    BY <1>1 DEF SwitchTask
  <2>2. Resumed(current, TRUE) = [At(current, "run") EXCEPT !.ret = TRUE]
    BY <1>1 DEF Resumed, At
  <2>. QED  BY <2>1, <2>2 DEF At
<1>3. /\ times'[current] = 1
      /\ \A q \in Page \ {current} : times'[q] = times[q]
  <2>1. times' = [times EXCEPT ![current] = IF times[current] < TimesMax
                                              THEN times[current] + 1
                                              ELSE times[current]]
    BY <1>1 DEF SwitchTask
  <2>2. times \in [Page -> 0 .. TimesMax]
    BY DEF Whole, IInv, TypeOK
  <2>. QED  BY <1>1, <2>1, <2>2 DEF TimesMax
<1>4. LifeInv'
  <2>1. ~Booting /\ (IdleSuspended => IdleSuspended') /\ cpu.pc = "switch"
    BY <1>1, <1>2 DEF SwitchTask, IdleSuspended, Booting, SchedLabels,
                      CreateLabels
  <2>2. \A p \in heap' : state'[p] = "INIT" =>
          /\ IdleSuspended'
          /\ ctx'[tasks'[0]].pc \in CreateLabels
          /\ ctx'[tasks'[0]].local = p
    BY <2>1 DEF SwitchTask, Whole, LifeInv, CreateLabels
  <2>3. times'[cpu'.own] # 0
    BY <1>2, <1>3
  <2>. QED  BY <2>2, <2>3 DEF LifeInv
<1>5. OnCpu = NULL /\ OnCpu' = current
  BY <1>1, <1>2 DEF SwitchTask, OnCpu, CreateLabels, ExitLabels, TaskLabels
<1>6. Lives[current] = "claimed"
  BY <1>1 DEF Lives, Phase
<1>7. Lives' = [Lives EXCEPT ![current] = "started"]
  <2>1. PICK t \in Page : t = current
    BY <1>1
  <2>2. Phase(t)' = "started"
    BY <1>1, <1>3, <2>1 DEF Phase, SwitchTask
  <2>. QED  BY <1>3, <2>1, <2>2, LivesChange DEF SwitchTask
<1>8. TL!Start(current)
  BY <1>5, <1>6, <1>7 DEF TL!Start, TL!Enter, SwitchTask
<1>. QED  BY <1>1, <1>4, <1>8 DEF TL!Next

\* A task returns into its exit handler.
LEMMA TaskReturnLives ==
  ASSUME Whole, TaskReturn, ~TaskMayCreate
  PROVE  LifeInv' /\ UNCHANGED TL!vars
<1>1. cpu'.pc = "exit" /\ cpu'.own = cpu.own /\ cpu.own # Boot
  BY DEF TaskReturn, Whole, IInv, TypeOK, IdleInv, IdleKnown, BootInv,
         ReturnInv, Goto, Context, TaskLabels, CreateLabels, SchedLabels
<1>2. ~Booting /\ (IdleSuspended => IdleSuspended')
  BY <1>1 DEF TaskReturn, IdleSuspended, Booting, SchedLabels
<1>3. LifeInv'
  BY <1>1, <1>2 DEF TaskReturn, Whole, LifeInv, CreateLabels, TaskLabels
<1>4. OnCpu' = OnCpu
  BY <1>1, SameCode DEF TaskReturn, TaskLabels, ExitLabels
<1>. QED  BY <1>3, <1>4, LivesSame DEF TL!vars, TaskReturn

\* A finished task that is in no slot just gives up the CPU.
LEMMA ExitUnlinkLives ==
  ASSUME Whole, ExitUnlink, ~TaskMayCreate
  PROVE  LifeInv' /\ [TL!Next]_(TL!vars)
<1>1. cpu.own # tasks[0] /\ cpu.own # Boot /\ cpu.pc = "exit"
  BY DEF ExitUnlink, Whole, IInv, ExitInv, BootInv, ExitLabels, CreateLabels,
         SchedLabels
<1>2. /\ cpu'.own = cpu.own /\ cpu'.pc \in {"sched", "exit_current"}
      /\ tasks'[0] = tasks[0]
  <2>1. CASE {i \in Slots \ {0} : tasks[i] = current} = {}
    BY <2>1 DEF ExitUnlink, Whole, IInv, TypeOK, Goto, Context
  <2>2. CASE {i \in Slots \ {0} : tasks[i] = current} # {}
    <3>1. cpu' = GotoWith("exit_current", current)
      BY <2>2 DEF ExitUnlink
    <3>2. PICK i \in Slots \ {0} : tasks' = [tasks EXCEPT ![i] = NULL]
      BY <2>2 DEF ExitUnlink
    <3>. QED  BY <3>1, <3>2, NrTasksAssumption
              DEF Whole, IInv, TypeOK, GotoWith, Context, Slots
  <2>. QED  BY <2>1, <2>2
<1>3. IdleSuspended' /\ IdleSuspended
  BY <1>1, <1>2 DEF IdleSuspended, Booting, SchedLabels, CreateLabels
<1>4. LifeInv'
  BY <1>1, <1>2, <1>3
     DEF ExitUnlink, Whole, LifeInv, CreateLabels, ExitLabels, TaskLabels
<1>5. Lives' = Lives
  BY LivesSame DEF ExitUnlink
<1>6. CASE cpu'.pc = "sched"
  <2>1. OnCpu = cpu.own /\ OnCpu' = NULL /\ OnCpu # NULL
    BY <1>1, <1>6, PageAssumption
       DEF OnCpu, TaskLabels, CreateLabels, ExitLabels, Whole, IInv, TypeOK,
           Context
  <2>. QED  BY <1>2, <1>4, <1>5, <2>1 DEF TL!Preempt, TL!Next
<1>7. CASE cpu'.pc = "exit_current"
  <2>1. OnCpu' = OnCpu
    BY <1>1, <1>2, <1>7 DEF OnCpu, TaskLabels, CreateLabels, ExitLabels
  <2>. QED  BY <1>2, <1>4, <1>5, <2>1 DEF TL!vars
<1>. QED  BY <1>2, <1>6, <1>7

LEMMA ExitCurrentLives ==
  ASSUME Whole, ExitCurrent, ~TaskMayCreate
  PROVE  LifeInv' /\ UNCHANGED TL!vars
<1>1. cpu'.pc = "exit_free" /\ cpu'.own = cpu.own
  BY DEF ExitCurrent, Whole, IInv, TypeOK, Goto, Context
<1>2. IdleSuspended' <=> IdleSuspended
  BY <1>1 DEF ExitCurrent, IdleSuspended, Booting, SchedLabels, CreateLabels
<1>3. LifeInv'
  BY <1>1, <1>2 DEF ExitCurrent, Whole, LifeInv, CreateLabels, ExitLabels,
                    TaskLabels
<1>4. OnCpu' = OnCpu
  BY <1>1, SameCode DEF ExitCurrent, TaskLabels, ExitLabels
<1>. QED  BY <1>3, <1>4, LivesSame DEF TL!vars, ExitCurrent

\* The page that is given back is that of the task that ends.
LEMMA ExitFreeLives ==
  ASSUME Whole, ExitFree, ~TaskMayCreate
  PROVE  LifeInv' /\ TL!Next
<1>1. /\ cpu.local = cpu.own /\ cpu.own # tasks[0] /\ cpu.own # Boot
      /\ cpu.own \in heap /\ cpu.own \in Page
      /\ state[cpu.own] = "RUNNING" /\ times[cpu.own] # 0
  BY DEF ExitFree, Whole, IInv, TypeOK, ExitInv, BootInv, LiveStack, LifeInv,
         ExitLabels, CreateLabels, SchedLabels, TaskLabels
<1>2. cpu'.pc = "sched" /\ cpu'.own = cpu.own
  BY DEF ExitFree, Whole, IInv, TypeOK, GotoWith, Context
<1>3. IdleSuspended' <=> IdleSuspended
  BY <1>1, <1>2
     DEF ExitFree, IdleSuspended, Booting, SchedLabels, CreateLabels
<1>4. LifeInv'
  BY <1>2, <1>3 DEF ExitFree, Whole, LifeInv, CreateLabels, ExitLabels,
                    TaskLabels
<1>5. OnCpu = cpu.own /\ OnCpu' = NULL
  BY <1>1, <1>2 DEF ExitFree, OnCpu, CreateLabels, ExitLabels, TaskLabels
<1>6. Lives[cpu.own] = "started"
  BY <1>1 DEF Lives, Phase
<1>7. Lives' = [Lives EXCEPT ![cpu.own] = "none"]
  <2>1. PICK t \in Page : t = cpu.own
    BY <1>1
  <2>2. Phase(t)' = "none"
    BY <1>1, <2>1 DEF Phase, ExitFree
  <2>. QED  BY <1>1, <2>1, <2>2, LivesChange DEF ExitFree
<1>8. TL!End(cpu.own)
  BY <1>5, <1>6, <1>7 DEF TL!End, TL!Enter, ExitFree
<1>. QED  BY <1>1, <1>4, <1>8 DEF TL!Next

-----------------------------------------------------------------------------
LEMMA LifeInitially ==
  ASSUME Init
  PROVE  LifeInv /\ TL!Init
<1>1. cpu.pc = "boot" /\ cpu.own = Boot
  BY DEF Init, At
<1>2. LifeInv
  BY <1>1 DEF Init, LifeInv, TaskLabels, CreateLabels, ExitLabels
<1>3. tasks[0] = NULL
  BY NrTasksAssumption DEF Init, Slots
<1>4. Lives = [p \in Page |-> "none"]
  BY DEF Init, Lives, Phase
<1>5. OnCpu = NULL
  BY <1>1 DEF OnCpu
<1>. QED  BY <1>2, <1>3, <1>4, <1>5 DEF TL!Init

\* Each step of the kernel is one of the abstract task life, or none.
LEMMA StepLives ==
  ASSUME Whole, [Next]_vars, ~TaskMayCreate, Intact,
         TickWindows \subseteq {"exit", "registers"}
  PROVE  Whole' /\ [TL!Next]_(TL!vars)
<1>0. IInv'
  BY StepKeeps DEF Whole
<1>1. CASE CreateAlloc  BY <1>0, <1>1, CreateAllocLives DEF Whole
<1>2. CASE CreatePid  BY <1>0, <1>2, CreatePidLives DEF Whole
<1>3. CASE CreatePublish  BY <1>0, <1>3, CreatePublishLives DEF Whole
<1>4. CASE CreateContext  BY <1>0, <1>4, CreateContextLives DEF Whole
<1>5. CASE CreateReady  BY <1>0, <1>5, CreateReadyLives DEF Whole
<1>6. CASE Tick  BY <1>0, <1>6, TickLives DEF Whole
<1>7. CASE SchedFind \/ SchedIdle \/ SchedCurrent
  BY <1>0, <1>7, SchedulingLives DEF Whole
<1>8. CASE SchedClaim  BY <1>0, <1>8, SchedClaimLives DEF Whole
<1>9. CASE SwitchIdle  BY <1>0, <1>9, SwitchIdleLives DEF Whole
<1>10. CASE SwitchTask  BY <1>0, <1>10, SwitchTaskLives DEF Whole
<1>11. CASE TaskReturn  BY <1>0, <1>11, TaskReturnLives DEF Whole
<1>12. CASE ExitUnlink  BY <1>0, <1>12, ExitUnlinkLives DEF Whole
<1>13. CASE ExitCurrent  BY <1>0, <1>13, ExitCurrentLives DEF Whole
<1>14. CASE ExitFree  BY <1>0, <1>14, ExitFreeLives DEF Whole
<1>15. CASE UNCHANGED vars
  <2>1. LifeInv'
    BY <1>15 DEF vars, Whole, LifeInv, IdleSuspended, Booting
  <2>2. UNCHANGED TL!vars
    BY <1>15, LivesSame DEF vars, TL!vars, OnCpu
  <2>. QED  BY <1>0, <2>1, <2>2 DEF Whole
<1>16. ~CreateTorn
  BY DEF Intact, CreateTorn
<1>. QED
  BY <1>1, <1>2, <1>3, <1>4, <1>5, <1>6, <1>7, <1>8, <1>9, <1>10, <1>11,
     <1>12, <1>13, <1>14, <1>15, <1>16
     DEF Next, KernelStep, CreateStep, SchedStep, ExitStep

\* If only idle creates tasks, and loses no register in doing so, the scheduler
\* gives every task the life that TaskLife describes: built alone, claimed once,
\* started once, never given the CPU again unless it is idle, and ended only by
\* itself.
THEOREM LifeOfTasks ==
  ASSUME ~TaskMayCreate, TickWindows \subseteq {"exit", "registers"}
  PROVE  Spec /\ []Intact => TaskLifeSpec
<1>1. Init => Whole /\ TL!Init
  BY Initially, LifeInitially DEF Whole
<1>2. Whole /\ [Next]_vars /\ Intact => Whole' /\ [TL!Next]_(TL!vars)
  BY StepLives
<1>. QED  BY <1>1, <1>2, PTL DEF Spec, TaskLifeSpec, TL!Spec
-----------------------------------------------------------------------------
(***************************************************************************)
(* Wherever ticks arrive: one lemma per action shows that it preserves     *)
(* OpenInv of SchedInv.                                                    *)
(***************************************************************************)
\* The invariant holds when kernel_main() starts.
LEMMA OpenInitially ==
  ASSUME Init, ~TaskMayCreate
  PROVE  OpenInv /\ IdleKnown
<1>1. At(Boot, "boot") \in Context /\ \A p \in Page : At(p, "zero") \in Context
  BY ContextType DEF Labels
<1>2. cpu.pc = "boot" /\ cpu.own = Boot /\ cpu.local = NULL
  BY DEF Init, At
<1>3. \A p \in Page : ctx[p].pc = "zero"
  BY DEF Init, At
<1>4. tasks[0] = NULL
  BY NrTasksAssumption DEF Init, Slots
<1>5. TypeOK
  BY <1>1, NrTasksAssumption DEF Init, TypeOK, Slots, TimesMax
<1>6. CurrentOwnsCpu /\ TableSound
  BY <1>2 DEF Init, CurrentOwnsCpu, TableSound, TaskLabels, CreateLabels,
              ExitLabels
<1>7. SavedInv
  BY <1>3 DEF SavedInv, TaskLabels, CreateLabels, ExitLabels
<1>8. PlaceInv
  BY <1>2, <1>3, <1>4, PageAssumption
     DEF Init, PlaceInv, Starting, IdleExecutes, CreateLabels, ExitLabels,
         TaskLabels
<1>9. ClaimInv /\ BuildInv /\ HealthyInv
  BY <1>2, <1>3, <1>4
     DEF Init, ClaimInv, BuildInv, HealthyInv, Claimer, CreateLabels
<1>10. IdleKnown
  BY <1>4 DEF Init, IdleKnown
<1>. QED  BY <1>5, <1>6, <1>7, <1>8, <1>9, <1>10 DEF OpenInv

\* A new page is referred to by nothing, as idle's TSS must be sound.
LEMMA CreateAllocOpen ==
  ASSUME OpenInv, IdleKnown, CreateAlloc, ~TaskMayCreate
  PROVE  OpenInv'
<1>0. PICK p \in Page \ heap :
         /\ heap' = heap \cup {p}
         /\ state' = [state EXCEPT ![p] = "INIT"]
         /\ times' = [times EXCEPT ![p] = 0]
         /\ ctx' = [ctx EXCEPT ![p] = At(p, "zero")]
         /\ cpu' = GotoWith("ct_pid", p)
  BY DEF CreateAlloc
<1>c. cpu'.pc = "ct_pid" /\ cpu'.local = p /\ cpu'.own = cpu.own
  BY <1>0 DEF OpenInv, TypeOK, GotoWith, Context
<1>x. /\ ctx'[p] = At(p, "zero") /\ ctx'[p].pc = "zero" /\ state'[p] = "INIT"
      /\ times'[p] = 0
      /\ \A q \in Page \ {p} : /\ ctx'[q] = ctx[q] /\ state'[q] = state[q]
                               /\ times'[q] = times[q]
  BY <1>0 DEF OpenInv, TypeOK, At
<1>t. p # NULL /\ \A i \in Slots : tasks[i] # p
  BY PageAssumption DEF OpenInv, TableSound
<1>o. (Starting /\ cpu.own = Boot /\ tasks[0] = NULL) \/ (IdleExecutes /\ tasks[0] \in Page)
  BY NrTasksAssumption, PageAssumption
     DEF OpenInv, TypeOK, CreateAlloc, MayCreate, IdleKnown, PlaceInv, Starting,
         IdleExecutes, TaskLabels, Context, Slots
<1>h. Healthy
  BY <1>o, PageAssumption DEF OpenInv, PlaceInv, Healthy
<1>u. UNCHANGED <<tasks, current, pid, ppid, idle>>
  BY DEF CreateAlloc
<1>n. current # p
  BY <1>h, PageAssumption DEF OpenInv, HealthyInv
<1>l. \A q \in Page : Claimer(ctx[q]) => ctx[q].local \in Page \ {p}
  BY <1>h DEF OpenInv, TypeOK, HealthyInv
<1>1. TypeOK'
  <2>1. At(p, "zero") \in Context /\ GotoWith("ct_pid", p) \in Context
    BY ContextType DEF OpenInv, TypeOK, Labels, TaskLabels, CreateLabels
  <2>. QED  BY <1>0, <1>u, <2>1 DEF OpenInv, TypeOK, TimesMax, CreateAlloc
<1>2. CurrentOwnsCpu'
  BY <1>c, <1>o, <1>u
     DEF OpenInv, CurrentOwnsCpu, IdleExecutes, CreateAlloc, MayCreate,
         TaskLabels, Starting
<1>3. TableSound'
  BY <1>0, <1>u DEF OpenInv, TableSound
<1>4. SavedInv'
  BY <1>x, <1>u DEF OpenInv, SavedInv, TaskLabels, CreateLabels, ExitLabels
<1>5. PlaceInv'
  <2>1. Starting' => Starting /\ tasks[0] = NULL
    BY <1>c, <1>o, PageAssumption DEF Starting, IdleExecutes
  <2>2. IdleExecutes' => Resumable(ctx[tasks[0]])'
    BY <1>c, <1>o, <1>t, <1>u, <1>x, PageAssumption, NrTasksAssumption
       DEF OpenInv, PlaceInv, IdleExecutes, Resumable, Slots
  <2>3. cpu'.own = Boot => current = NULL
    BY <1>c, <1>o, PageAssumption
       DEF OpenInv, PlaceInv, Starting, IdleExecutes, CreateLabels, SchedLabels
  <2>. QED  BY <1>c, <1>o, <1>u, <1>x, <2>1, <2>2, <2>3
            DEF OpenInv, PlaceInv, IdleExecutes, CreateLabels, ExitLabels
<1>6. ClaimInv'
  <2>1. ~Claimer(cpu)' /\ \A q \in Page : Claimer(ctx[q])' => q # p /\ Claimer(ctx[q])
    BY <1>c, <1>x DEF Claimer
  <2>. QED  BY <1>0, <1>x, <1>u, <1>n, <1>l, <2>1
            DEF OpenInv, TypeOK, ClaimInv
<1>7. BuildInv'
  <2>1. BuildOK(cpu)'
    BY <1>0, <1>c, <1>x, <1>t, <1>u, NrTasksAssumption
       DEF BuildOK, Slots
  <2>2. tasks'[0] # NULL => IdleExecutes'
    BY <1>c, <1>o, <1>u DEF IdleExecutes, TaskLabels, CreateLabels
  <2>. QED  BY <2>1, <2>2 DEF BuildInv
<1>8. HealthyInv'
  <2>1. ~Claimer(cpu)' /\ \A q \in Page : Claimer(ctx[q])' => q # p /\ Claimer(ctx[q])
    BY <1>c, <1>x DEF Claimer
  <2>2. cpu'.own \in {Boot, tasks'[0]}
    BY <1>c, <1>o, <1>u DEF IdleExecutes
  <2>. QED  BY <1>0, <1>c, <1>x, <1>u, <1>h, <1>l, <2>1, <2>2
            DEF OpenInv, TypeOK, HealthyInv
<1>. QED  BY <1>1, <1>2, <1>3, <1>4, <1>5, <1>6, <1>7, <1>8 DEF OpenInv

\* The free slot found is still free, as nobody else is creating a task.
LEMMA CreatePidOpen ==
  ASSUME OpenInv, CreatePid, ~TaskMayCreate
  PROVE  OpenInv'
<1>0. PICK n \in -1 .. NR_TASKS : /\ find_empty_process(n)
                                  /\ pid' = [pid EXCEPT ![cpu.local] = n]
  BY DEF CreatePid
<1>n. n \in Slots \cup {-1} /\ (n \in Slots => tasks[n] = NULL)
  BY <1>0, NrTasksAssumption DEF find_empty_process, IsFirst, Slots
<1>c. /\ cpu.pc = "ct_pid" /\ cpu'.pc = "ct_publish"
      /\ cpu'.local = cpu.local /\ cpu'.own = cpu.own
  BY DEF CreatePid, OpenInv, TypeOK, Goto, Context
<1>b. BuildOK(cpu) /\ cpu.local \in Page /\ \A i \in Slots : tasks[i] # cpu.local
  BY <1>c DEF OpenInv, TypeOK, BuildInv, BuildOK, CreateLabels
<1>u. UNCHANGED <<tasks, current, heap, state, times, ctx, idle, garbled>>
  BY DEF CreatePid
<1>s. /\ Starting' <=> Starting
      /\ IdleExecutes' <=> IdleExecutes
      /\ Healthy' <=> Healthy
  BY <1>c, <1>u DEF Starting, IdleExecutes, Healthy, Resumable, CreateLabels,
                    TaskLabels
<1>f. ppid' = ppid
  <2>1. cpu.own = Boot => current = NULL
    BY <1>c DEF OpenInv, PlaceInv, SchedLabels
  <2>2. cpu.own # Boot => current = tasks[0]
    BY <1>c DEF OpenInv, PlaceInv, CurrentOwnsCpu, TaskLabels, CreateLabels,
                ExitLabels
  <2>3. current # NULL => pid[current] = 0
    BY <2>1, <2>2, NrTasksAssumption DEF OpenInv, TableSound, Slots
  <2>4. (IF current = NULL THEN 0 ELSE pid[current]) = 0
    BY <2>3
  <2>5. ppid' = [ppid EXCEPT ![cpu.local] = 0]
    BY <2>4 DEF CreatePid
  <2>. QED  BY <1>b, <2>5 DEF OpenInv, TypeOK, ClaimInv
<1>1. TypeOK'
  <2>1. cpu' \in Context
    BY ContextType DEF OpenInv, TypeOK, CreatePid, Goto, Context, Labels,
                       CreateLabels, TaskLabels
  <2>. QED  BY <1>0, <1>n, <1>u, <1>f, <2>1 DEF OpenInv, TypeOK
<1>2. CurrentOwnsCpu'
  BY <1>c, <1>u DEF OpenInv, CurrentOwnsCpu, TaskLabels, CreateLabels
<1>3. TableSound'
  BY <1>0, <1>b, <1>u DEF OpenInv, TypeOK, TableSound
<1>4. SavedInv'
  BY <1>u DEF OpenInv, SavedInv
<1>5. PlaceInv'
  <2>1. Starting => pid'[cpu.local] = 0
    <3>1. ASSUME Starting
          PROVE  0 \in Slots /\ tasks[0] = NULL
      BY <1>c, <3>1, NrTasksAssumption DEF OpenInv, PlaceInv, Slots
    <3>2. ASSUME Starting
          PROVE  n = 0
      BY <1>0, <3>1, <3>2, NrTasksAssumption
         DEF find_empty_process, IsFirst, Slots
    <3>. QED  BY <1>0, <1>b, <3>2 DEF OpenInv, TypeOK
  <2>. QED  BY <1>c, <1>u, <1>s, <2>1
            DEF OpenInv, PlaceInv, Resumable, CreateLabels, ExitLabels,
                SchedLabels
<1>6. ClaimInv'
  BY <1>c, <1>u, <1>f DEF OpenInv, ClaimInv, Claimer
<1>7. BuildInv'
  <2>1. \A i \in Slots : pid'[cpu.local] = i => tasks[i] = NULL
    BY <1>0, <1>n, <1>b DEF OpenInv, TypeOK
  <2>2. BuildOK(cpu)'
    BY <1>c, <1>b, <1>u, <2>1 DEF BuildOK
  <2>3. cpu.own = Boot => tasks[0] = NULL
    BY <1>c DEF OpenInv, PlaceInv, Starting, CreateLabels
  <2>4. tasks'[0] # NULL => IdleExecutes'
    BY <1>c, <1>u, <2>3
       DEF OpenInv, PlaceInv, IdleExecutes, TaskLabels, CreateLabels
  <2>. QED  BY <2>2, <2>4 DEF BuildInv
<1>8. HealthyInv'
  BY <1>c, <1>u, <1>s DEF OpenInv, HealthyInv, Claimer, TaskLabels,
                          CreateLabels
<1>. QED  BY <1>1, <1>2, <1>3, <1>4, <1>5, <1>6, <1>7, <1>8 DEF OpenInv

\* The slot filled was free; it is idle's only if there is no idle yet.
LEMMA CreatePublishOpen ==
  ASSUME OpenInv, CreatePublish, ~TaskMayCreate
  PROVE  OpenInv'
<1>c. /\ cpu.pc = "ct_publish" /\ cpu'.pc = "ct_context"
      /\ cpu'.local = cpu.local /\ cpu'.own = cpu.own
  BY DEF CreatePublish, OpenInv, TypeOK, Goto, Context
<1>b. BuildOK(cpu) /\ cpu.local \in Page
  BY <1>c DEF OpenInv, TypeOK, BuildInv, BuildOK, CreateLabels
<1>u. UNCHANGED <<current, heap, pid, ppid, state, times, ctx, garbled>>
  BY DEF CreatePublish
<1>t. /\ tasks' \in [Slots -> Page \cup {NULL}]
      /\ \A i \in Slots : \/ tasks'[i] = tasks[i]
                          \/ /\ tasks'[i] = cpu.local /\ tasks[i] = NULL
                             /\ pid[cpu.local] = i
  BY <1>c, <1>b DEF OpenInv, TypeOK, CreatePublish, BuildOK
<1>z. 0 \in Slots /\ tasks[0] \in Page \cup {NULL} /\ tasks'[0] \in Page \cup {NULL}
  BY <1>t, NrTasksAssumption DEF OpenInv, TypeOK, Slots
<1>o. \/ /\ cpu.own = Boot /\ Starting /\ Starting' /\ tasks[0] = NULL
         /\ current = NULL
         /\ \A q \in Page : ctx[q].pc \in {"zero", "entry"}
         /\ ~IdleExecutes /\ ~IdleExecutes'
      \/ /\ cpu.own = tasks[0] /\ tasks[0] \in Page /\ tasks'[0] = tasks[0]
         /\ IdleExecutes /\ IdleExecutes' /\ ~Starting /\ ~Starting'
  <2>1. CASE cpu.own = Boot
    <3>1. Starting /\ Starting'
      BY <1>c, <2>1 DEF Starting, CreateLabels
    <3>. QED  BY <1>c, <1>z, <2>1, <3>1, PageAssumption
              DEF OpenInv, PlaceInv, IdleExecutes, SchedLabels
  <2>2. CASE cpu.own = tasks[0] /\ cpu.own # Boot
    <3>1. tasks[0] \in Page
      BY <1>z, <2>2, PageAssumption DEF OpenInv, TypeOK, Context
    <3>2. tasks'[0] = tasks[0]
      BY <1>t, <1>z, <3>1, PageAssumption
    <3>. QED  BY <1>c, <2>2, <3>1, <3>2
              DEF IdleExecutes, Starting, TaskLabels, CreateLabels
  <2>. QED  BY <1>c, <2>1, <2>2 DEF OpenInv, PlaceInv, CreateLabels
<1>h. Healthy
  BY <1>o, PageAssumption DEF OpenInv, PlaceInv, Healthy
<1>1. TypeOK'
  <2>1. cpu' \in Context
    BY ContextType DEF OpenInv, TypeOK, CreatePublish, Goto, Context, Labels,
                       CreateLabels, TaskLabels
  <2>2. idle' \in Page \cup {NULL}
    BY <1>b DEF OpenInv, TypeOK, CreatePublish
  <2>. QED  BY <1>t, <1>u, <2>1, <2>2 DEF OpenInv, TypeOK
<1>2. CurrentOwnsCpu'
  BY <1>c, <1>u DEF OpenInv, CurrentOwnsCpu, TaskLabels, CreateLabels
<1>3. TableSound'
  BY <1>t, <1>b, <1>u DEF OpenInv, TableSound, BuildOK
<1>4. SavedInv'
  <2>1. CASE cpu.own = Boot
    BY <1>o, <1>u, <2>1, PageAssumption
       DEF OpenInv, SavedInv, CreateLabels, ExitLabels, TaskLabels
  <2>2. CASE cpu.own # Boot
    <3>1. \A q \in Page : ctx[q].pc = "exit_current" => q # cpu.local
      BY <1>b DEF BuildOK
    <3>. QED  BY <1>o, <1>u, <1>t, <2>2, <3>1
              DEF OpenInv, SavedInv
  <2>. QED  BY <2>1, <2>2
<1>5. PlaceInv'
  <2>1. IdleExecutes' => Resumable(ctx[tasks[0]])'
    BY <1>o, <1>u DEF OpenInv, PlaceInv, Resumable
  <2>2. Starting' => Starting /\ cpu.own = Boot
    BY <1>o
  <2>3. cpu'.own = Boot => current' = NULL
    BY <1>o, <1>c, <1>u, PageAssumption
  <2>4. cpu'.own \in {Boot, tasks'[0]}
    BY <1>o, <1>c
  <2>. QED  BY <1>c, <1>u, <2>1, <2>2, <2>3, <2>4
            DEF OpenInv, PlaceInv, CreateLabels, ExitLabels
<1>6. ClaimInv'
  <2>1. \A q \in Page : Claimer(ctx[q])' <=> Claimer(ctx[q])
    BY <1>u DEF Claimer
  <2>2. ~Claimer(cpu)'
    BY <1>c DEF Claimer
  <2>3. heap \subseteq Page /\ NULL \notin heap
    BY PageAssumption DEF OpenInv, TypeOK
  <2>. QED  BY <1>o, <1>u, <2>1, <2>2, <2>3 DEF OpenInv, ClaimInv
<1>7. BuildInv'
  <2>1. BuildOK(cpu)'
    BY <1>c, <1>b, <1>u, <1>o, PageAssumption DEF BuildOK
  <2>2. tasks'[0] # NULL /\ ~IdleExecutes' => ctx'[tasks'[0]].pc \notin CreateLabels
    BY <1>o, <1>u, <1>z DEF CreateLabels
  <2>. QED  BY <2>1, <2>2 DEF BuildInv
<1>8. HealthyInv'
  <2>1. ~Claimer(cpu)' /\ cpu'.own \in {Boot, tasks'[0]} /\ cpu'.pc # "found"
    BY <1>c, <1>o DEF Claimer
  <2>2. \A q \in Page : Claimer(ctx[q])' => Claimer(ctx[q]) /\ tasks'[0] = tasks[0]
    BY <1>u, <1>o DEF Claimer
  <2>. QED  BY <1>h, <1>u, <2>1, <2>2 DEF OpenInv, HealthyInv
<1>. QED  BY <1>1, <1>2, <1>3, <1>4, <1>5, <1>6, <1>7, <1>8 DEF OpenInv

\* The TSS written is that of the task being created, never idle's.
LEMMA CreateContextOpen ==
  ASSUME OpenInv, CreateContext, ~TaskMayCreate
  PROVE  OpenInv'
<1>c. /\ cpu.pc = "ct_context" /\ cpu'.pc = "ct_ready"
      /\ cpu'.local = cpu.local /\ cpu'.own = cpu.own
  BY DEF CreateContext, OpenInv, TypeOK, Goto, Context
<1>b. BuildOK(cpu) /\ cpu.local \in Page
  BY <1>c DEF OpenInv, TypeOK, BuildInv, BuildOK, CreateLabels
<1>u. UNCHANGED <<tasks, current, heap, pid, ppid, state, times,
                idle, garbled>>
  BY DEF CreateContext
<1>x. /\ ctx'[cpu.local] = At(cpu.local, "entry")
      /\ ctx'[cpu.local].pc = "entry"
      /\ \A q \in Page \ {cpu.local} : ctx'[q] = ctx[q]
  BY <1>b DEF OpenInv, TypeOK, CreateContext, At
<1>z. 0 \in Slots /\ tasks[0] \in Page \cup {NULL}
  BY NrTasksAssumption DEF OpenInv, TypeOK, Slots
<1>o. \/ /\ cpu.own = Boot /\ Starting /\ Starting' /\ current = NULL
         /\ \A q \in Page : ctx[q].pc \in {"zero", "entry"}
         /\ ~IdleExecutes /\ ~IdleExecutes'
      \/ /\ cpu.own = tasks[0] /\ tasks[0] \in Page
         /\ IdleExecutes /\ IdleExecutes' /\ ~Starting /\ ~Starting'
  BY <1>c, <1>z, <1>u, PageAssumption
     DEF OpenInv, TypeOK, PlaceInv, Starting, IdleExecutes, TaskLabels,
         CreateLabels, SchedLabels, Context
<1>h. Healthy
  BY <1>o, PageAssumption DEF OpenInv, PlaceInv, Healthy
<1>1. TypeOK'
  <2>1. At(cpu.local, "entry") \in Context
    BY <1>b, ContextType DEF Labels
  <2>2. cpu' \in Context
    BY ContextType DEF OpenInv, TypeOK, CreateContext, Goto, Context, Labels,
                       CreateLabels, TaskLabels
  <2>. QED  BY <1>u, <2>1, <2>2 DEF OpenInv, TypeOK, CreateContext
<1>2. CurrentOwnsCpu'
  BY <1>c, <1>u DEF OpenInv, CurrentOwnsCpu, TaskLabels, CreateLabels
<1>3. TableSound'
  BY <1>u DEF OpenInv, TableSound
<1>4. SavedInv'
  BY <1>x, <1>u DEF OpenInv, SavedInv, CreateLabels, ExitLabels, TaskLabels
<1>5. PlaceInv'
  <2>1. IdleExecutes' => Resumable(ctx[tasks[0]])'
    BY <1>o, <1>u, <1>x DEF OpenInv, PlaceInv, Resumable
  <2>2. Starting' => \A q \in Page : ctx'[q].pc \in {"zero", "entry"}
    BY <1>o, <1>x
  <2>3. cpu'.own = Boot => current' = NULL
    BY <1>o, <1>c, <1>u, PageAssumption
  <2>4. cpu'.own \in {Boot, tasks'[0]}
    BY <1>o, <1>c, <1>u
  <2>. QED  BY <1>c, <1>u, <2>1, <2>2, <2>3, <2>4
            DEF OpenInv, PlaceInv, CreateLabels, ExitLabels
<1>l. \A q \in Page : Claimer(ctx[q])' => q # cpu.local /\ Claimer(ctx[q])
  BY <1>x DEF Claimer
<1>6. ClaimInv'
  <2>1. ~Claimer(cpu)'
    BY <1>c DEF Claimer
  <2>. QED  BY <1>b, <1>u, <1>x, <1>l, <2>1
            DEF OpenInv, TypeOK, ClaimInv, BuildOK
<1>7. BuildInv'
  <2>1. BuildOK(cpu)'
    BY <1>c, <1>b, <1>u, <1>x DEF BuildOK
  <2>2. tasks'[0] # NULL /\ ~IdleExecutes' => ctx'[tasks'[0]].pc \notin CreateLabels
    BY <1>o, <1>u, <1>x, <1>z DEF CreateLabels
  <2>. QED  BY <2>1, <2>2 DEF BuildInv
<1>8. HealthyInv'
  <2>1. ~Claimer(cpu)' /\ cpu'.own \in {Boot, tasks'[0]} /\ cpu'.pc # "found"
    BY <1>c, <1>o, <1>u DEF Claimer
  <2>2. \A q \in Page : Claimer(ctx[q])' => ctx'[q] = ctx[q] /\ Claimer(ctx[q])
    BY <1>l, <1>x
  <2>. QED  BY <1>h, <1>u, <2>1, <2>2 DEF OpenInv, HealthyInv
<1>. QED  BY <1>1, <1>2, <1>3, <1>4, <1>5, <1>6, <1>7, <1>8 DEF OpenInv

\* The task becomes READY with its TSS built and before it was ever dispatched.
LEMMA CreateReadyOpen ==
  ASSUME OpenInv, CreateReady, ~TaskMayCreate
  PROVE  OpenInv'
<1>c. /\ cpu.pc = "ct_ready" /\ cpu'.local = NULL /\ cpu'.own = cpu.own
      /\ cpu'.pc = IF cpu.own = Boot THEN "spin" ELSE "run"
  BY DEF CreateReady, OpenInv, TypeOK, GotoWith, Context
<1>b. BuildOK(cpu) /\ cpu.local \in Page
  BY <1>c DEF OpenInv, TypeOK, BuildInv, BuildOK, CreateLabels
<1>u. UNCHANGED <<tasks, current, heap, pid, ppid, times, ctx, idle, garbled>>
  BY DEF CreateReady
<1>x. /\ state'[cpu.local] = "READY" /\ state[cpu.local] = "INIT"
      /\ ctx[cpu.local] = At(cpu.local, "entry")
      /\ \A q \in Page \ {cpu.local} : state'[q] = state[q]
  BY <1>b, <1>c DEF OpenInv, TypeOK, CreateReady, BuildOK
<1>z. 0 \in Slots /\ tasks[0] \in Page \cup {NULL}
  BY NrTasksAssumption DEF OpenInv, TypeOK, Slots
<1>o. \/ /\ cpu.own = Boot /\ Starting /\ cpu'.pc = "spin" /\ current = NULL
         /\ \A q \in Page : ctx[q].pc \in {"zero", "entry"}
         /\ ~IdleExecutes /\ ~IdleExecutes' /\ ~Starting'
      \/ /\ cpu.own = tasks[0] /\ tasks[0] \in Page /\ cpu'.pc = "run"
         /\ current = tasks[0]
         /\ IdleExecutes /\ IdleExecutes' /\ ~Starting /\ ~Starting'
  <2>1. CASE cpu.own = Boot
    <3>1. Starting /\ current = NULL
      BY <1>c, <2>1 DEF OpenInv, PlaceInv, Starting, CreateLabels, SchedLabels
    <3>2. ~IdleExecutes /\ ~IdleExecutes' /\ ~Starting'
      BY <1>c, <1>u, <1>z, <2>1, PageAssumption
         DEF IdleExecutes, Starting, CreateLabels
    <3>. QED  BY <1>c, <2>1, <3>1, <3>2 DEF OpenInv, PlaceInv
  <2>2. CASE cpu.own # Boot
    <3>1. cpu.own = tasks[0] /\ tasks[0] \in Page
      BY <1>c, <2>2 DEF OpenInv, TypeOK, PlaceInv, Context, CreateLabels
    <3>2. current = tasks[0]
      BY <1>c, <2>2, <3>1
         DEF OpenInv, CurrentOwnsCpu, TaskLabels, CreateLabels, ExitLabels
    <3>. QED  BY <1>c, <1>u, <2>2, <3>1, <3>2
              DEF IdleExecutes, Starting, TaskLabels, CreateLabels
  <2>. QED  BY <2>1, <2>2
<1>h. Healthy
  BY <1>o, PageAssumption DEF OpenInv, PlaceInv, Healthy
<1>1. TypeOK'
  <2>1. cpu' \in Context
    BY ContextType DEF OpenInv, TypeOK, CreateReady, Labels, TaskLabels
  <2>. QED  BY <1>u, <2>1 DEF OpenInv, TypeOK, CreateReady
<1>2. CurrentOwnsCpu'
  BY <1>o, <1>u, <1>c DEF CurrentOwnsCpu
<1>3. TableSound'
  BY <1>u DEF OpenInv, TableSound
<1>4. SavedInv'
  BY <1>u DEF OpenInv, SavedInv
<1>5. PlaceInv'
  <2>1. IdleExecutes' => Resumable(ctx[tasks[0]])'
    BY <1>o, <1>u DEF OpenInv, PlaceInv, Resumable
  <2>2. /\ cpu'.pc \in {"spin", "run"} /\ ~Starting'
        /\ cpu'.pc = "spin" => cpu'.own = Boot
        /\ cpu'.own = Boot => cpu'.pc = "spin" /\ current' = NULL
    BY <1>o, <1>c, <1>u, PageAssumption
  <2>. QED  BY <2>1, <2>2 DEF PlaceInv, CreateLabels, ExitLabels
<1>6. ClaimInv'
  <2>1. ~Claimer(cpu)' /\ \A q \in Page : Claimer(ctx[q])' <=> Claimer(ctx[q])
    BY <1>c, <1>u DEF Claimer
  <2>2. \A q \in Page : state[q] = "RUNNING" => state'[q] = "RUNNING"
    BY <1>x
  <2>3. current' # NULL => current' = tasks'[0]
    BY <1>o, <1>u
  <2>4. \A q \in Page : ctx[q].local \in Page \cup {NULL}
    BY DEF OpenInv, TypeOK, Context
  <2>5. \A q \in Page : Claimer(ctx[q]) => ctx[q].local \in Page
    BY <2>4 DEF Claimer
  <2>6. heap \subseteq Page
    BY DEF OpenInv, TypeOK
  <2>. QED  BY <1>u, <1>x, <2>1, <2>2, <2>3, <2>5, <2>6 DEF OpenInv, ClaimInv
<1>7. BuildInv'
  <2>1. cpu'.pc \notin CreateLabels
    BY <1>o DEF CreateLabels
  <2>2. tasks'[0] # NULL /\ ~IdleExecutes' => ctx'[tasks'[0]].pc \notin CreateLabels
    BY <1>o, <1>u, <1>z DEF CreateLabels
  <2>. QED  BY <2>1, <2>2 DEF BuildInv
<1>8. HealthyInv'
  <2>1. ~Claimer(cpu)' /\ cpu'.own \in {Boot, tasks'[0]} /\ cpu'.pc # "found"
    BY <1>c, <1>o, <1>u DEF Claimer
  <2>2. \A q \in Page : Claimer(ctx[q])' <=> Claimer(ctx[q])
    BY <1>u DEF Claimer
  <2>3. \A q \in heap : state'[q] # "RUNNING" => state[q] # "RUNNING"
    BY <1>x DEF OpenInv, TypeOK
  <2>. QED  BY <1>h, <1>u, <2>1, <2>2, <2>3 DEF OpenInv, HealthyInv
<1>. QED  BY <1>1, <1>2, <1>3, <1>4, <1>5, <1>6, <1>7, <1>8 DEF OpenInv

\* Whatever the tick interrupts, the TSS it saves into is that of idle or of a
\* RUNNING task: no READY task and no task being built is touched.
LEMMA TickOpen ==
  ASSUME OpenInv, Tick, ~TaskMayCreate
  PROVE  OpenInv'
<1>c. cpu'.pc = "sched" /\ cpu'.local = NULL /\ cpu'.own = cpu.own
  BY DEF Tick, OpenInv, TypeOK, GotoWith, Context
<1>u. UNCHANGED <<tasks, current, heap, pid, ppid, state, times, idle>>
  BY DEF Tick
<1>z. 0 \in Slots /\ tasks[0] \in Page \cup {NULL}
  BY NrTasksAssumption DEF OpenInv, TypeOK, Slots
<1>x. /\ current # NULL => ctx'[current] = cpu /\ current \in Page
      /\ \A q \in Page : q # current => ctx'[q] = ctx[q]
  BY PageAssumption DEF OpenInv, TypeOK, Tick, clock_handler_entry
<1>p. cpu.pc \in {"boot", "spin"} \cup TaskLabels \cup SchedLabels
  BY DEF Tick, OpenInv, TypeOK, PlaceInv, Context, Labels
<1>w. current # NULL =>
        /\ cpu.pc \in TaskLabels \cup SchedLabels
        /\ cpu.pc # "exit_free"
        /\ cpu.pc \in TaskLabels => cpu.own = current
  BY <1>p
     DEF OpenInv, PlaceInv, CurrentOwnsCpu, TaskLabels, SchedLabels,
         CreateLabels, ExitLabels
<1>i. IdleExecutes /\ tasks[0] # NULL => current = tasks[0]
  <2>1. ASSUME IdleExecutes, tasks[0] # NULL
        PROVE  cpu.own \in Page /\ cpu.pc # "exit_free"
    BY <1>z, <2>1, PageAssumption
       DEF OpenInv, PlaceInv, IdleExecutes, ExitLabels
  <2>. QED  BY <2>1, PageAssumption DEF OpenInv, CurrentOwnsCpu, IdleExecutes
<1>j. current # NULL /\ current = tasks[0] /\ cpu.pc \in TaskLabels => IdleExecutes
  BY <1>w DEF IdleExecutes
<1>s. ~Starting' /\ ~IdleExecutes'
  BY <1>c DEF Starting, IdleExecutes, TaskLabels, CreateLabels, ExitLabels
<1>h. Healthy' => Healthy
  <2>1. ASSUME tasks[0] # NULL, Resumable(ctx'[tasks[0]])
        PROVE  Resumable(ctx[tasks[0]])
    <3>1. CASE current = tasks[0]
      <4>1. cpu.pc \in TaskLabels
        BY <1>x, <1>w, <1>p, <2>1, <3>1
           DEF Resumable, TaskLabels, SchedLabels, CreateLabels, ExitLabels
      <4>. QED  BY <1>j, <2>1, <3>1, <4>1 DEF OpenInv, PlaceInv
    <3>2. CASE current # tasks[0]
      BY <1>x, <1>z, <2>1, <3>2
    <3>. QED  BY <3>1, <3>2
  <2>. QED  BY <1>s, <1>u, <2>1 DEF Healthy, Resumable
<1>1. TypeOK'
  <2>1. cpu' \in Context
    BY ContextType DEF OpenInv, TypeOK, Tick, Labels, SchedLabels
  <2>2. InStatement => cpu.local \in Page
    BY DEF OpenInv, TypeOK, InStatement, BuildInv, BuildOK
  <2>. QED  BY <1>u, <2>1, <2>2 DEF OpenInv, TypeOK, Tick, clock_handler_entry
<1>2. CurrentOwnsCpu'
  BY <1>c DEF CurrentOwnsCpu, TaskLabels, CreateLabels, ExitLabels
<1>3. TableSound'
  BY <1>u DEF OpenInv, TableSound
<1>4. SavedInv'
  <2>1. ASSUME NEW q \in Page, q # current
        PROVE  ctx'[q] = ctx[q]
    BY <1>x, <2>1
  <2>2. ASSUME current # NULL
        PROVE  /\ cpu.pc \in {"zero", "entry"} \cup TaskLabels \cup SchedLabels
               /\ cpu.pc \in TaskLabels => cpu.own = current
               /\ cpu.pc \in CreateLabels => current = tasks[0]
               /\ cpu.pc \in ExitLabels =>
                    current # tasks[0] /\ cpu.pc # "exit_free"
               /\ cpu.pc = "exit_current" =>
                    cpu.local = current /\ \A i \in Slots : tasks[i] # current
               /\ cpu.pc = "claimed" => cpu.local # NULL
               /\ cpu.pc = "switch" =>
                    current = IF cpu.local = NULL THEN tasks[0] ELSE cpu.local
    <3>1. cpu.pc \in CreateLabels => cpu.own # Boot
      BY <2>2 DEF OpenInv, PlaceInv, CreateLabels, SchedLabels
    <3>. QED  BY <1>w, <2>2, <3>1
              DEF OpenInv, PlaceInv, TaskLabels, ExitLabels
  <2>3. ASSUME NEW q \in Page, q = current
        PROVE  ctx'[q] = cpu /\ current # NULL
    BY <1>x, <2>3, PageAssumption
  <2>. QED  BY <1>u, <2>1, <2>2, <2>3 DEF OpenInv, SavedInv
<1>5. PlaceInv'
  BY <1>c, <1>s
     DEF PlaceInv, IdleExecutes, CreateLabels, ExitLabels, SchedLabels
<1>l. \A q \in Page : Claimer(ctx[q])' =>
        \/ Claimer(ctx[q]) /\ ctx'[q].local = ctx[q].local
        \/ Claimer(cpu) /\ ctx'[q].local = cpu.local
  BY <1>x, PageAssumption DEF Claimer
<1>k. ~Claimer(cpu)'
  BY <1>c DEF Claimer
<1>6. ClaimInv'
  <2>1. \A q \in heap : state[q] = "READY" /\ q # tasks[0] => ctx'[q] = ctx[q]
    BY <1>x, PageAssumption DEF OpenInv, TypeOK, ClaimInv
  <2>. QED  BY <1>u, <1>l, <1>k, <2>1 DEF OpenInv, ClaimInv
<1>7. BuildInv'
  <2>1. cpu'.pc \notin CreateLabels
    BY <1>c DEF CreateLabels
  <2>2. ASSUME tasks[0] # NULL, ctx'[tasks[0]].pc \in CreateLabels
        PROVE  BuildOK(ctx[tasks[0]])'
    <3>1. CASE current = tasks[0]
      <4>1. ctx'[tasks[0]] = cpu /\ cpu.pc \in CreateLabels /\ cpu.own = tasks[0]
        BY <1>x, <1>w, <2>2, <3>1 DEF TaskLabels
      <4>2. BuildOK(cpu) /\ cpu.local # tasks[0]
        BY <4>1 DEF OpenInv, BuildInv, BuildOK
      <4>3. ctx'[cpu.local] = ctx[cpu.local]
        BY <1>x, <3>1, <4>2 DEF OpenInv, TypeOK, BuildOK
      <4>. QED  BY <1>u, <4>1, <4>2, <4>3 DEF BuildOK
    <3>2. CASE current # tasks[0]
      <4>1. ctx'[tasks[0]] = ctx[tasks[0]] /\ ~IdleExecutes
        BY <1>x, <1>z, <1>i, <2>2, <3>2
      <4>2. BuildOK(ctx[tasks[0]])
        BY <2>2, <4>1 DEF OpenInv, BuildInv
      <4>3. current # ctx[tasks[0]].local
        BY <3>2, <4>2, PageAssumption
           DEF OpenInv, TypeOK, ClaimInv, BuildOK
      <4>4. ctx'[ctx[tasks[0]].local] = ctx[ctx[tasks[0]].local]
        BY <1>x, <4>2, <4>3 DEF OpenInv, TypeOK, BuildOK
      <4>. QED  BY <1>u, <4>1, <4>2, <4>4 DEF BuildOK
    <3>. QED  BY <3>1, <3>2
  <2>. QED  BY <1>u, <2>1, <2>2 DEF BuildInv
<1>8. HealthyInv'
  <2>1. cpu'.pc \notin TaskLabels /\ cpu'.pc # "found"
    BY <1>c DEF TaskLabels, CreateLabels, ExitLabels
  <2>. QED  BY <1>h, <1>u, <1>l, <1>k, <2>1 DEF OpenInv, HealthyInv
<1>. QED  BY <1>1, <1>2, <1>3, <1>4, <1>5, <1>6, <1>7, <1>8 DEF OpenInv

\* A step within sched() leaves the tasks' TSSs and the table alone.
LEMMA SchedStepFrame ==
  ASSUME OpenInv, UNCHANGED <<tasks, ctx>>, cpu.pc \in SchedLabels,
         cpu'.pc \in SchedLabels
  PROVE  /\ ~Starting /\ ~Starting' /\ ~IdleExecutes /\ ~IdleExecutes'
         /\ Healthy' <=> Healthy
         /\ CurrentOwnsCpu' /\ SavedInv'
         /\ \A q \in Page : Claimer(ctx[q])' <=> Claimer(ctx[q])
<1>1. ~Starting /\ ~Starting' /\ ~IdleExecutes /\ ~IdleExecutes'
  BY DEF Starting, IdleExecutes, TaskLabels, CreateLabels, ExitLabels,
         SchedLabels
<1>2. Healthy' <=> Healthy
  BY <1>1 DEF Healthy, Resumable
<1>3. CurrentOwnsCpu'
  BY DEF CurrentOwnsCpu, TaskLabels, CreateLabels, ExitLabels, SchedLabels
<1>4. SavedInv'
  BY DEF OpenInv, SavedInv
<1>5. \A q \in Page : Claimer(ctx[q])' <=> Claimer(ctx[q])
  BY DEF Claimer
<1>. QED  BY <1>1, <1>2, <1>3, <1>4, <1>5

\* What find_ready_task() returns is in the table, READY, and not in slot 0.
LEMMA SchedFindOpen ==
  ASSUME OpenInv, SchedFind, ~TaskMayCreate
  PROVE  OpenInv'
<1>0. PICK p \in Page \cup {NULL} :
         find_ready_task(p) /\ cpu' = GotoWith("found", p)
  BY DEF SchedFind
<1>c. /\ cpu.pc = "sched" /\ cpu'.pc = "found" /\ cpu'.local = p
      /\ cpu'.own = cpu.own
  BY <1>0 DEF SchedFind, OpenInv, TypeOK, GotoWith, Context
<1>u. UNCHANGED <<tasks, current, heap, pid, ppid, state, times, ctx,
                idle, garbled>>
  BY DEF SchedFind
<1>s. /\ ~Starting /\ ~Starting' /\ ~IdleExecutes /\ ~IdleExecutes'
      /\ Healthy' <=> Healthy
      /\ CurrentOwnsCpu' /\ SavedInv'
      /\ \A q \in Page : Claimer(ctx[q])' <=> Claimer(ctx[q])
  BY <1>c, <1>u, SchedStepFrame DEF SchedLabels
<1>r. p # NULL => p \in heap \ {tasks[0]} /\ state[p] = "READY"
  <2>1. ASSUME p # NULL
        PROVE  p \in heap \ {tasks[0]} /\ state[p] = "READY"
    <3>1. PICK i \in Slots : IsFirst(i, ReadySlots) /\ p = tasks[i]
      BY <1>0, <2>1 DEF find_ready_task
    <3>2. i \in ReadySlots
      BY <3>1 DEF IsFirst
    <3>3. i # 0 /\ tasks[i] # NULL /\ state[tasks[i]] = "READY"
      BY <3>2 DEF ReadySlots
    <3>. QED  BY <3>1, <3>3, NrTasksAssumption DEF OpenInv, TableSound, Slots
  <2>. QED  BY <2>1
<1>1. TypeOK'
  <2>1. cpu' \in Context
    BY <1>0, ContextType DEF OpenInv, TypeOK, Labels, SchedLabels
  <2>. QED  BY <1>u, <2>1 DEF OpenInv, TypeOK
<1>2. TableSound'
  BY <1>u DEF OpenInv, TableSound
<1>3. PlaceInv'
  BY <1>c, <1>s DEF PlaceInv, CreateLabels, ExitLabels, SchedLabels
<1>4. ClaimInv'
  BY <1>c, <1>s, <1>u DEF OpenInv, ClaimInv, Claimer
<1>5. BuildInv'
  BY <1>c, <1>s, <1>u DEF OpenInv, BuildInv, BuildOK, CreateLabels
<1>6. HealthyInv'
  <2>1. ~Claimer(cpu)' /\ cpu'.pc \notin TaskLabels
    BY <1>c DEF Claimer, TaskLabels, CreateLabels, ExitLabels
  <2>. QED  BY <1>c, <1>r, <1>s, <1>u, <2>1 DEF OpenInv, HealthyInv
<1>. QED  BY <1>s, <1>1, <1>2, <1>3, <1>4, <1>5, <1>6 DEF OpenInv

\* With no task to start, idle is current, if it exists.
LEMMA SchedIdleOpen ==
  ASSUME OpenInv, SchedIdle, ~TaskMayCreate
  PROVE  OpenInv'
<1>c. /\ cpu.pc = "found" /\ cpu'.pc = "switch" /\ cpu'.local = NULL
      /\ cpu'.own = cpu.own /\ current' = tasks[0]
  BY DEF SchedIdle, OpenInv, TypeOK, Goto, Context
<1>u. UNCHANGED <<tasks, heap, pid, ppid, state, times, ctx, idle, garbled>>
  BY DEF SchedIdle
<1>s. /\ ~Starting /\ ~Starting' /\ ~IdleExecutes /\ ~IdleExecutes'
      /\ Healthy' <=> Healthy
      /\ CurrentOwnsCpu' /\ SavedInv'
      /\ \A q \in Page : Claimer(ctx[q])' <=> Claimer(ctx[q])
  BY <1>c, <1>u, SchedStepFrame DEF SchedLabels
<1>z. tasks[0] \in Page \cup {NULL} /\ (tasks[0] # NULL => tasks[0] \in heap)
  BY NrTasksAssumption DEF OpenInv, TypeOK, TableSound, Slots
<1>1. TypeOK'
  <2>1. cpu' \in Context
    BY ContextType DEF OpenInv, TypeOK, SchedIdle, Labels, SchedLabels
  <2>. QED  BY <1>c, <1>z, <1>u, <2>1 DEF OpenInv, TypeOK
<1>2. TableSound'
  BY <1>u DEF OpenInv, TableSound
<1>3. PlaceInv'
  BY <1>c, <1>s, <1>u DEF PlaceInv, CreateLabels, ExitLabels, SchedLabels
<1>4. ClaimInv'
  BY <1>c, <1>s, <1>u DEF OpenInv, ClaimInv, Claimer
<1>5. BuildInv'
  BY <1>c, <1>s, <1>u DEF OpenInv, BuildInv, BuildOK, CreateLabels
<1>6. HealthyInv'
  <2>1. ~Claimer(cpu)' /\ cpu'.pc \notin TaskLabels
    BY <1>c DEF Claimer, TaskLabels, CreateLabels, ExitLabels
  <2>. QED  BY <1>c, <1>z, <1>s, <1>u, <2>1 DEF OpenInv, HealthyInv
<1>. QED  BY <1>s, <1>1, <1>2, <1>3, <1>4, <1>5, <1>6 DEF OpenInv

\* What is claimed was READY, so nobody else has claimed it; if it was not,
\* idle's TSS is spoiled and no half-built task depends on it.
LEMMA SchedClaimOpen ==
  ASSUME OpenInv, SchedClaim, ~TaskMayCreate
  PROVE  OpenInv'
<1>c. /\ cpu.pc = "found" /\ cpu'.pc = "claimed" /\ cpu.local \in Page
      /\ cpu'.local = cpu.local /\ cpu.local # NULL /\ cpu'.own = cpu.own
  BY DEF SchedClaim, OpenInv, TypeOK, Goto, Context
<1>u. UNCHANGED <<tasks, current, heap, pid, ppid, times, ctx, idle, garbled>>
  BY DEF SchedClaim
<1>x. /\ state'[cpu.local] = "RUNNING"
      /\ \A q \in Page \ {cpu.local} : state'[q] = state[q]
  BY <1>c DEF OpenInv, TypeOK, SchedClaim
<1>s. /\ ~Starting /\ ~Starting' /\ ~IdleExecutes /\ ~IdleExecutes'
      /\ Healthy' <=> Healthy
      /\ CurrentOwnsCpu' /\ SavedInv'
      /\ \A q \in Page : Claimer(ctx[q])' <=> Claimer(ctx[q])
  BY <1>c, <1>u, SchedStepFrame DEF SchedLabels
<1>r. Healthy => /\ cpu.local \in heap \ {tasks[0]}
                 /\ state[cpu.local] = "READY" /\ times[cpu.local] = 0
                 /\ ctx[cpu.local] = At(cpu.local, "entry")
  BY <1>c DEF OpenInv, HealthyInv, ClaimInv
<1>l. \A q \in Page : Claimer(ctx[q]) => ctx[q].local \in Page
  BY DEF OpenInv, TypeOK, Context, Claimer
<1>1. TypeOK'
  <2>1. cpu' \in Context
    BY ContextType DEF OpenInv, TypeOK, SchedClaim, Labels, SchedLabels
  <2>. QED  BY <1>u, <2>1 DEF OpenInv, TypeOK, SchedClaim
<1>2. TableSound'
  BY <1>u DEF OpenInv, TableSound
<1>3. PlaceInv'
  BY <1>c, <1>s, <1>u DEF PlaceInv, CreateLabels, ExitLabels, SchedLabels
<1>4. ClaimInv'
  <2>1. \A q \in Page : state[q] = "RUNNING" => state'[q] = "RUNNING"
    BY <1>x
  <2>2. \A q \in Page : state'[q] = "READY" => state[q] = "READY"
    BY <1>x
  <2>3. heap \subseteq Page /\ current \in Page \cup {NULL}
    BY DEF OpenInv, TypeOK
  <2>. QED  BY <1>c, <1>s, <1>u, <1>x, <1>l, <2>1, <2>2, <2>3
            DEF OpenInv, ClaimInv, Claimer
<1>5. BuildInv'
  <2>1. ASSUME tasks[0] # NULL, ctx[tasks[0]].pc \in CreateLabels
        PROVE  BuildOK(ctx[tasks[0]])'
    <3>1. Healthy /\ BuildOK(ctx[tasks[0]])
      BY <1>s, <2>1 DEF OpenInv, BuildInv, Healthy, Resumable, TaskLabels
    <3>2. state'[ctx[tasks[0]].local] = state[ctx[tasks[0]].local]
      BY <1>r, <1>x, <3>1 DEF OpenInv, TypeOK, BuildOK
    <3>. QED  BY <1>u, <3>1, <3>2 DEF BuildOK
  <2>. QED  BY <1>c, <1>u, <2>1 DEF BuildInv, CreateLabels
<1>6. HealthyInv'
  <2>1. /\ cpu'.pc \notin TaskLabels /\ cpu'.pc # "found"
    BY <1>c DEF TaskLabels, CreateLabels, ExitLabels
  <2>2. ASSUME Healthy, NEW q \in Page, Claimer(ctx[q])
        PROVE  ctx[q].local # cpu.local
    BY <1>r, <2>2 DEF OpenInv, ClaimInv
  <2>3. ASSUME NEW q \in heap, state'[q] # "RUNNING"
        PROVE  state[q] # "RUNNING"
    BY <1>x, <2>3 DEF OpenInv, TypeOK
  <2>. QED  BY <1>c, <1>r, <1>s, <1>u, <2>1, <2>2, <2>3 DEF OpenInv, HealthyInv
<1>. QED  BY <1>s, <1>1, <1>2, <1>3, <1>4, <1>5, <1>6 DEF OpenInv

\* current names the claimed task, which is RUNNING.
LEMMA SchedCurrentOpen ==
  ASSUME OpenInv, SchedCurrent, ~TaskMayCreate
  PROVE  OpenInv'
<1>c. /\ cpu.pc = "claimed" /\ cpu'.pc = "switch" /\ cpu.local \in Page
      /\ cpu'.local = cpu.local /\ cpu.local # NULL /\ cpu'.own = cpu.own
      /\ current' = cpu.local /\ Claimer(cpu) /\ Claimer(cpu)'
  BY DEF SchedCurrent, OpenInv, TypeOK, Goto, Context, PlaceInv, Claimer
<1>u. UNCHANGED <<tasks, heap, pid, ppid, state, times, ctx, idle, garbled>>
  BY DEF SchedCurrent
<1>s. /\ ~Starting /\ ~Starting' /\ ~IdleExecutes /\ ~IdleExecutes'
      /\ Healthy' <=> Healthy
      /\ CurrentOwnsCpu' /\ SavedInv'
      /\ \A q \in Page : Claimer(ctx[q])' <=> Claimer(ctx[q])
  BY <1>c, <1>u, SchedStepFrame DEF SchedLabels
<1>1. TypeOK'
  <2>1. cpu' \in Context
    BY ContextType DEF OpenInv, TypeOK, SchedCurrent, Labels, SchedLabels
  <2>. QED  BY <1>c, <1>u, <2>1 DEF OpenInv, TypeOK
<1>2. TableSound'
  BY <1>u DEF OpenInv, TableSound
<1>3. PlaceInv'
  BY <1>c, <1>s, <1>u DEF PlaceInv, CreateLabels, ExitLabels, SchedLabels
<1>4. ClaimInv'
  BY <1>c, <1>s, <1>u DEF OpenInv, ClaimInv
<1>5. BuildInv'
  BY <1>c, <1>s, <1>u DEF OpenInv, BuildInv, BuildOK, CreateLabels
<1>6. HealthyInv'
  <2>1. cpu'.pc \notin TaskLabels /\ cpu'.pc # "found"
    BY <1>c DEF TaskLabels, CreateLabels, ExitLabels
  <2>. QED  BY <1>c, <1>s, <1>u, <2>1 DEF OpenInv, HealthyInv
<1>. QED  BY <1>s, <1>1, <1>2, <1>3, <1>4, <1>5, <1>6 DEF OpenInv

\* What a switch loads: idle's context and no other can be in create_task(),
\* and a piece of the scheduler goes on in the state current says.
LEMMA ResumedPlace ==
  ASSUME OpenInv, NEW push \in BOOLEAN, current \in Page,
         cpu.pc = "switch", cpu' = Resumed(current, push),
         UNCHANGED <<tasks, current, heap, pid, ppid, state, ctx>>,
         current # tasks[0] => state[current] = "RUNNING"
  PROVE  /\ cpu' \in Context /\ CurrentOwnsCpu' /\ PlaceInv' /\ ~Starting'
         /\ cpu'.pc # "found" \/ ctx[current].pc = "found"
         /\ cpu'.pc = "run" \/ cpu'.pc = ctx[current].pc \/ cpu'.pc = "wild"
         /\ cpu'.pc \in TaskLabels => cpu'.own = current
         /\ Claimer(cpu)' =>
              Claimer(ctx[current]) /\ cpu'.local = ctx[current].local
         /\ cpu'.pc \in CreateLabels =>
              /\ cpu'.pc = ctx[current].pc /\ cpu'.local = ctx[current].local
              /\ ctx[current].own = cpu'.own
<1>1. ctx[current] \in Context
  BY DEF OpenInv, TypeOK
<1>2. CASE ctx[current].pc = "entry"
  <2>1. cpu' = [At(current, "run") EXCEPT !.ret = push]
    BY <1>2 DEF Resumed
  <2>2. /\ cpu' \in Context /\ cpu'.pc = "run" /\ cpu'.own = current
        /\ cpu'.local = NULL
    BY <2>1 DEF At, Context, Labels, TaskLabels
  <2>3. IdleExecutes' => Resumable(ctx[tasks[0]])'
    BY <1>2, <2>2 DEF IdleExecutes, Resumable
  <2>4. ~Starting' /\ ~Claimer(cpu)'
    BY <2>2 DEF Starting, CreateLabels, Claimer
  <2>5. PlaceInv' /\ CurrentOwnsCpu'
    BY <2>2, <2>3, <2>4, PageAssumption
       DEF PlaceInv, CurrentOwnsCpu, CreateLabels, ExitLabels
  <2>. QED  BY <2>2, <2>4, <2>5 DEF CreateLabels
<1>3. CASE ctx[current].pc = "zero"
  <2>1. cpu' = At(current, "wild")
    BY <1>3 DEF Resumed
  <2>2. cpu' \in Context /\ cpu'.pc = "wild" /\ cpu'.own = current
    BY <2>1 DEF At, Context, Labels
  <2>. QED  BY <2>2, PageAssumption
            DEF PlaceInv, CurrentOwnsCpu, Starting, IdleExecutes, Claimer,
                TaskLabels, CreateLabels, ExitLabels
<1>4. CASE ctx[current].pc \notin {"entry", "zero"}
  <2>1. cpu' = [ctx[current] EXCEPT !.ret = @ \/ push]
    BY <1>4 DEF Resumed
  <2>2. /\ cpu' \in Context /\ cpu'.pc = ctx[current].pc
        /\ cpu'.own = ctx[current].own /\ cpu'.local = ctx[current].local
    BY <1>1, <2>1 DEF Context
  <2>3. /\ cpu'.pc \in TaskLabels \cup SchedLabels
        /\ cpu'.pc \in TaskLabels => cpu'.own = current
        /\ cpu'.pc \in CreateLabels => current = tasks[0]
        /\ cpu'.pc \in ExitLabels => current # tasks[0] /\ cpu'.pc # "exit_free"
        /\ cpu'.pc = "exit_current" =>
             cpu'.local = current /\ \A i \in Slots : tasks[i] # current
        /\ cpu'.pc = "claimed" => cpu'.local # NULL
        /\ cpu'.pc = "switch" =>
             current = IF cpu'.local = NULL THEN tasks[0] ELSE cpu'.local
    BY <1>4, <2>2 DEF OpenInv, SavedInv
  <2>4. CurrentOwnsCpu'
    BY <2>3 DEF CurrentOwnsCpu
  <2>5. cpu'.own = Boot => cpu'.pc \in SchedLabels
    BY <2>3, PageAssumption
  <2>6. ~Starting' /\ (IdleExecutes' => Resumable(ctx[tasks[0]])')
    BY <2>2, <2>3, <2>5
       DEF Starting, IdleExecutes, Resumable, SchedLabels, CreateLabels
  <2>7. PlaceInv'
    <3>1. cpu'.pc \notin {"entry", "zero", "boot", "spin"}
      BY <2>3 DEF TaskLabels, SchedLabels, CreateLabels, ExitLabels
    <3>2. cpu'.pc \in CreateLabels => cpu'.own \in {Boot, tasks'[0]}
      BY <2>3 DEF TaskLabels
    <3>3. cpu'.pc \in ExitLabels =>
            /\ cpu'.own # tasks'[0] /\ state'[cpu'.own] = "RUNNING"
            /\ cpu'.pc # "exit" => /\ cpu'.local = cpu'.own
                                   /\ \A i \in Slots : tasks'[i] # cpu'.own
            /\ cpu'.pc # "exit_free"
      BY <2>3 DEF TaskLabels, ExitLabels
    <3>. QED  BY <2>3, <2>5, <2>6, <3>1, <3>2, <3>3 DEF PlaceInv
  <2>8. cpu'.pc \in CreateLabels => /\ cpu'.pc = ctx[current].pc
          /\ cpu'.local = ctx[current].local /\ ctx[current].own = cpu'.own
    BY <2>2
  <2>9. Claimer(cpu)' => Claimer(ctx[current]) /\ cpu'.local = ctx[current].local
    BY <2>2 DEF Claimer
  <2>. QED  BY <2>2, <2>3, <2>4, <2>6, <2>7, <2>8, <2>9
<1>. QED  BY <1>2, <1>3, <1>4

\* idle goes on where its TSS says; without an idle the CPU runs wild.
LEMMA SwitchIdleOpen ==
  ASSUME OpenInv, SwitchIdle, ~TaskMayCreate
  PROVE  OpenInv'
<1>c. cpu.pc = "switch" /\ cpu.local = NULL /\ current = tasks[0]
  BY DEF SwitchIdle, OpenInv, PlaceInv
<1>u. UNCHANGED <<tasks, current, heap, pid, ppid, state, times, ctx,
                idle, garbled>>
  BY DEF SwitchIdle
<1>e. ~IdleExecutes /\ ~Starting
  BY <1>c DEF IdleExecutes, Starting, TaskLabels, CreateLabels, ExitLabels
<1>1. TableSound' /\ SavedInv'
  BY <1>u DEF OpenInv, TableSound, SavedInv
<1>l. \A q \in Page : Claimer(ctx[q])' <=> Claimer(ctx[q])
  BY <1>u DEF Claimer
<1>2. CASE current = NULL
  <2>1. /\ cpu'.pc = "wild" /\ cpu'.local = NULL /\ cpu' \in Context
    BY <1>c, <1>2 DEF SwitchIdle, OpenInv, TypeOK, Goto, Context, Labels
  <2>2. TypeOK'
    BY <1>u, <2>1 DEF OpenInv, TypeOK
  <2>3. ~Starting' /\ ~Claimer(cpu)'
    BY <2>1 DEF Starting, Claimer, CreateLabels
  <2>4. PlaceInv' /\ CurrentOwnsCpu'
    BY <2>1, <2>3
       DEF PlaceInv, CurrentOwnsCpu, IdleExecutes, TaskLabels, CreateLabels,
           ExitLabels
  <2>5. ClaimInv'
    BY <1>u, <1>l, <2>3 DEF OpenInv, ClaimInv
  <2>6. BuildInv' /\ HealthyInv'
    BY <1>c, <1>u, <1>2, <2>1, <2>3 DEF BuildInv, HealthyInv, Healthy, CreateLabels
  <2>. QED  BY <1>1, <2>2, <2>4, <2>5, <2>6 DEF OpenInv
<1>3. CASE current # NULL
  <2>1. current \in Page /\ cpu' = Resumed(current, FALSE)
    BY <1>c, <1>3 DEF SwitchIdle, OpenInv, TypeOK
  <2>2. /\ cpu' \in Context /\ CurrentOwnsCpu' /\ PlaceInv' /\ ~Starting'
        /\ cpu'.pc # "found" \/ ctx[current].pc = "found"
        /\ cpu'.pc = "run" \/ cpu'.pc = ctx[current].pc \/ cpu'.pc = "wild"
        /\ cpu'.pc \in TaskLabels => cpu'.own = current
        /\ Claimer(cpu)' =>
             Claimer(ctx[current]) /\ cpu'.local = ctx[current].local
        /\ cpu'.pc \in CreateLabels =>
             /\ cpu'.pc = ctx[current].pc /\ cpu'.local = ctx[current].local
             /\ ctx[current].own = cpu'.own
    BY <1>c, <1>u, <2>1, ResumedPlace
  <2>3. TypeOK'
    BY <1>u, <2>2 DEF OpenInv, TypeOK
  <2>4. ClaimInv'
    BY <1>u, <1>l, <2>1, <2>2 DEF OpenInv, ClaimInv
  <2>5. BuildInv'
    <3>1. ctx[tasks[0]].pc \in CreateLabels => BuildOK(ctx[tasks[0]])
      BY <1>c, <1>e, <1>3 DEF OpenInv, BuildInv
    <3>2. ASSUME cpu'.pc \in CreateLabels
          PROVE  BuildOK(cpu)'
      BY <1>c, <1>u, <2>2, <3>1, <3>2 DEF BuildOK
    <3>3. ctx[tasks[0]].pc \in CreateLabels => BuildOK(ctx[tasks[0]])'
      BY <1>u, <3>1 DEF BuildOK
    <3>. QED  BY <1>u, <3>2, <3>3 DEF BuildInv
  <2>6. HealthyInv'
    <3>1. ASSUME Healthy'
          PROVE  Healthy /\ Resumable(ctx[tasks[0]])
      BY <1>u, <2>2, <3>1 DEF Healthy, Resumable
    <3>2. ASSUME Healthy'
          PROVE  cpu'.pc # "found" /\ ~Claimer(ctx[tasks[0]])
      BY <1>c, <2>2, <3>1, <3>2
         DEF Resumable, Claimer, TaskLabels, CreateLabels, ExitLabels
    <3>. QED  BY <1>c, <1>u, <1>l, <2>2, <3>1, <3>2 DEF OpenInv, HealthyInv
  <2>. QED  BY <1>1, <2>2, <2>3, <2>4, <2>5, <2>6 DEF OpenInv
<1>. QED  BY <1>2, <1>3

\* As long as idle's TSS is sound, a claimed task starts its function.
LEMMA SwitchTaskOpen ==
  ASSUME OpenInv, SwitchTask, ~TaskMayCreate
  PROVE  OpenInv'
<1>c. /\ cpu.pc = "switch" /\ cpu.local # NULL /\ current = cpu.local
      /\ current \in Page /\ Claimer(cpu) /\ ppid[current] = 0
  BY DEF SwitchTask, OpenInv, TypeOK, Context, PlaceInv, ClaimInv, Claimer
<1>u. UNCHANGED <<tasks, current, heap, pid, ppid, state, ctx, idle, garbled>>
  BY DEF SwitchTask
<1>e. ~IdleExecutes /\ ~Starting
  BY <1>c DEF IdleExecutes, Starting, TaskLabels, CreateLabels, ExitLabels
<1>p. PICK push \in BOOLEAN : cpu' = Resumed(current, push)
  BY <1>c DEF SwitchTask
<1>r. state[current] = "RUNNING"
  BY <1>c DEF OpenInv, ClaimInv
<1>t. /\ times' \in [Page -> 0 .. TimesMax]
      /\ \A q \in Page \ {current} : times'[q] = times[q]
      /\ times[current] = 0 => times'[current] = 1
  BY <1>c DEF SwitchTask, OpenInv, TypeOK, TimesMax
<1>1. TableSound' /\ SavedInv'
  BY <1>u DEF OpenInv, TableSound, SavedInv
<1>l. \A q \in Page : Claimer(ctx[q])' <=> Claimer(ctx[q])
  BY <1>u DEF Claimer
<1>2. /\ cpu' \in Context /\ CurrentOwnsCpu' /\ PlaceInv' /\ ~Starting'
      /\ cpu'.pc # "found" \/ ctx[current].pc = "found"
      /\ cpu'.pc = "run" \/ cpu'.pc = ctx[current].pc \/ cpu'.pc = "wild"
      /\ cpu'.pc \in TaskLabels => cpu'.own = current
      /\ Claimer(cpu)' =>
           Claimer(ctx[current]) /\ cpu'.local = ctx[current].local
      /\ cpu'.pc \in CreateLabels =>
           /\ cpu'.pc = ctx[current].pc /\ cpu'.local = ctx[current].local
           /\ ctx[current].own = cpu'.own
  BY <1>c, <1>u, <1>p, <1>r, ResumedPlace
<1>3. TypeOK'
  BY <1>u, <1>t, <1>2 DEF OpenInv, TypeOK
<1>4. ClaimInv'
  BY <1>c, <1>u, <1>l, <1>2 DEF OpenInv, ClaimInv
<1>5. BuildInv'
  <2>1. tasks[0] # NULL /\ ctx[tasks[0]].pc \in CreateLabels =>
          BuildOK(ctx[tasks[0]])
    BY <1>e DEF OpenInv, BuildInv
  <2>2. ASSUME cpu'.pc \in CreateLabels
        PROVE  BuildOK(cpu)'
    <3>1. current = tasks[0]
      BY <1>c, <1>2, <2>2 DEF OpenInv, SavedInv
    <3>2. BuildOK(ctx[current])
      BY <1>c, <1>2, <2>1, <2>2, <3>1
    <3>. QED  BY <1>u, <1>2, <2>2, <3>2 DEF BuildOK
  <2>3. tasks[0] # NULL /\ ctx[tasks[0]].pc \in CreateLabels =>
          BuildOK(ctx[tasks[0]])'
    BY <1>u, <2>1 DEF BuildOK
  <2>. QED  BY <1>u, <2>2, <2>3 DEF BuildInv
<1>6. HealthyInv'
  <2>1. ASSUME Healthy'
        PROVE  Healthy
    BY <1>u, <1>2, <2>1 DEF Healthy, Resumable
  <2>2. ASSUME Healthy
        PROVE  /\ current \in heap \ {tasks[0]} /\ times[current] = 0
               /\ ctx[current] = At(current, "entry")
               /\ \A q \in Page : Claimer(ctx[q]) => ctx[q].local # current
    BY <1>c, <2>2 DEF OpenInv, HealthyInv
  <2>3. ASSUME Healthy
        PROVE  ctx[current].pc = "entry" /\ ~Claimer(cpu)' /\ cpu'.pc # "found"
    BY <1>2, <2>2, <2>3 DEF At, Claimer
  <2>4. ASSUME Healthy, NEW q \in Page, Claimer(ctx[q])
        PROVE  ctx[q].local \in heap \ {tasks[0]} /\ times'[ctx[q].local] = 0
    <3>1. ctx[q].local \in heap \ {tasks[0]} /\ times[ctx[q].local] = 0
      BY <2>4 DEF OpenInv, HealthyInv
    <3>. QED  BY <1>t, <2>2, <2>4, <3>1 DEF OpenInv, TypeOK
  <2>5. ASSUME Healthy, NEW q \in heap, state[q] # "RUNNING"
        PROVE  times'[q] = 0
    BY <1>t, <1>r, <2>5 DEF OpenInv, TypeOK, HealthyInv
  <2>. QED  BY <1>u, <1>t, <1>2, <1>l, <2>1, <2>2, <2>3, <2>4, <2>5 DEF HealthyInv
<1>. QED  BY <1>1, <1>2, <1>3, <1>4, <1>5, <1>6 DEF OpenInv

\* A task that returns is the current one, RUNNING, and not idle.
LEMMA TaskReturnOpen ==
  ASSUME OpenInv, IdleKnown, TaskReturn, ~TaskMayCreate
  PROVE  OpenInv'
<1>c. /\ cpu.pc = "run" /\ cpu'.pc \in {"exit", "wild"} /\ cpu.own # tasks[0]
      /\ cpu'.own = cpu.own /\ cpu'.local = cpu.local
  BY DEF TaskReturn, IdleKnown, OpenInv, TypeOK, Goto, Context
<1>u. UNCHANGED <<tasks, current, heap, pid, ppid, state, times, ctx,
                idle, garbled>>
  BY DEF TaskReturn
<1>o. cpu.own \in Page /\ cpu.own # Boot /\ current = cpu.own
  BY <1>c, PageAssumption
     DEF OpenInv, TypeOK, Context, PlaceInv, CurrentOwnsCpu, CreateLabels,
         SchedLabels, ExitLabels, TaskLabels
<1>r. state[cpu.own] = "RUNNING"
  BY <1>c, <1>o, PageAssumption DEF OpenInv, ClaimInv
<1>s. /\ ~Starting /\ ~Starting' /\ ~IdleExecutes /\ ~IdleExecutes'
      /\ Healthy' <=> Healthy
  BY <1>c, <1>o, <1>u DEF Starting, IdleExecutes, Healthy, Resumable
<1>1. TypeOK'
  <2>1. cpu' \in Context
    BY ContextType DEF OpenInv, TypeOK, TaskReturn, Labels, TaskLabels, ExitLabels
  <2>. QED  BY <1>u, <2>1 DEF OpenInv, TypeOK
<1>2. CurrentOwnsCpu' /\ TableSound' /\ SavedInv'
  BY <1>c, <1>o, <1>u DEF OpenInv, CurrentOwnsCpu, TableSound, SavedInv
<1>3. PlaceInv'
  BY <1>c, <1>o, <1>r, <1>s, <1>u DEF PlaceInv, CreateLabels, ExitLabels
<1>4. ClaimInv'
  BY <1>c, <1>u DEF OpenInv, ClaimInv, Claimer
<1>5. BuildInv'
  BY <1>c, <1>s, <1>u DEF OpenInv, BuildInv, BuildOK, CreateLabels
<1>6. HealthyInv'
  <2>1. ~Claimer(cpu)' /\ cpu'.pc # "found" /\ cpu.pc \in TaskLabels
    BY <1>c DEF Claimer, TaskLabels
  <2>2. \A q \in Page : Claimer(ctx[q])' <=> Claimer(ctx[q])
    BY <1>u DEF Claimer
  <2>. QED  BY <1>c, <1>s, <1>u, <2>1, <2>2 DEF OpenInv, HealthyInv
<1>. QED  BY <1>1, <1>2, <1>3, <1>4, <1>5, <1>6 DEF OpenInv

\* The finished task leaves its slot, the only one it can be in.
LEMMA ExitUnlinkOpen ==
  ASSUME OpenInv, ExitUnlink, ~TaskMayCreate
  PROVE  OpenInv'
<1>c. /\ cpu.pc = "exit" /\ cpu.own # tasks[0] /\ state[cpu.own] = "RUNNING"
      /\ cpu.own # Boot /\ current = cpu.own /\ cpu.own \in Page
  BY PageAssumption
     DEF ExitUnlink, OpenInv, TypeOK, Context, PlaceInv, CurrentOwnsCpu,
         TaskLabels, CreateLabels, ExitLabels, SchedLabels
<1>u. UNCHANGED <<current, heap, pid, ppid, state, times, ctx, idle, garbled>>
  BY DEF ExitUnlink
<1>t. \/ cpu'.pc = "sched" /\ tasks' = tasks /\ cpu' = Goto("sched")
      \/ /\ cpu'.pc = "exit_current" /\ cpu'.local = current
         /\ cpu' = GotoWith("exit_current", current)
         /\ \A j \in Slots : tasks'[j] # current
         /\ \E i \in Slots \ {0} : tasks' = [tasks EXCEPT ![i] = NULL]
  <2>1. CASE {i \in Slots \ {0} : tasks[i] = current} = {}
    BY <2>1 DEF ExitUnlink, OpenInv, TypeOK, Goto, Context
  <2>2. CASE {i \in Slots \ {0} : tasks[i] = current} # {}
    <3>1. PICK i \in Slots \ {0} :
            tasks[i] = current /\ tasks' = [tasks EXCEPT ![i] = NULL]
      BY <2>2 DEF ExitUnlink, IsFirst
    <3>2. cpu' = GotoWith("exit_current", current)
      BY <2>2 DEF ExitUnlink
    <3>3. \A j \in Slots : tasks'[j] # current
      BY <1>c, <3>1, PageAssumption DEF OpenInv, TypeOK, TableSound
    <3>4. cpu'.pc = "exit_current" /\ cpu'.local = current
      BY <3>2 DEF OpenInv, TypeOK, GotoWith, Context
    <3>. QED  BY <3>1, <3>2, <3>3, <3>4
  <2>. QED  BY <2>1, <2>2
<1>d. cpu'.own = cpu.own /\ cpu'.pc \in {"sched", "exit_current"}
  BY <1>t DEF OpenInv, TypeOK, Goto, GotoWith, Context
<1>z. /\ tasks' \in [Slots -> Page \cup {NULL}] /\ tasks'[0] = tasks[0]
      /\ \A j \in Slots : tasks'[j] \in {tasks[j], NULL}
      /\ 0 \in Slots
  <2>1. tasks \in [Slots -> Page \cup {NULL}] /\ 0 \in Slots
    BY NrTasksAssumption DEF OpenInv, TypeOK, Slots
  <2>2. \/ tasks' = tasks
        \/ \E i \in Slots \ {0} : tasks' = [tasks EXCEPT ![i] = NULL]
    BY <1>t
  <2>. QED  BY <2>1, <2>2
<1>s. /\ ~Starting /\ ~Starting' /\ ~IdleExecutes /\ ~IdleExecutes'
      /\ Healthy' <=> Healthy
  BY <1>c, <1>d, <1>u, <1>z DEF Starting, IdleExecutes, Healthy, Resumable
<1>1. TypeOK'
  <2>1. cpu' \in Context
    BY <1>t, <1>c, ContextType
       DEF OpenInv, TypeOK, Labels, TaskLabels, ExitLabels, SchedLabels
  <2>. QED  BY <1>u, <1>z, <2>1 DEF OpenInv, TypeOK
<1>2. CurrentOwnsCpu'
  BY <1>c, <1>d, <1>u DEF CurrentOwnsCpu
<1>3. TableSound' /\ SavedInv'
  <2>1. TableSound'
    BY <1>u, <1>z DEF OpenInv, TableSound
  <2>2. \A q \in Page : (\A i \in Slots : tasks[i] # q) =>
                           \A i \in Slots : tasks'[i] # q
    BY <1>z, PageAssumption
  <2>. QED  BY <1>u, <1>z, <2>1, <2>2 DEF OpenInv, SavedInv
<1>4. PlaceInv'
  BY <1>c, <1>d, <1>s, <1>t, <1>u, <1>z
     DEF PlaceInv, CreateLabels, ExitLabels, SchedLabels
<1>l. /\ \A q \in Page : Claimer(ctx[q])' <=> Claimer(ctx[q])
      /\ ~Claimer(cpu)'
  BY <1>d, <1>u DEF Claimer
<1>5. ClaimInv'
  BY <1>u, <1>z, <1>l DEF OpenInv, ClaimInv
<1>6. BuildInv'
  <2>1. ASSUME tasks[0] # NULL, ctx[tasks[0]].pc \in CreateLabels
        PROVE  BuildOK(ctx[tasks[0]])'
    <3>1. BuildOK(ctx[tasks[0]])
      BY <1>s, <2>1 DEF OpenInv, BuildInv
    <3>2. ctx[tasks[0]].local # NULL
      BY <3>1, PageAssumption DEF OpenInv, TypeOK, BuildOK
    <3>. QED  BY <1>u, <1>z, <3>1, <3>2 DEF BuildOK
  <2>. QED  BY <1>d, <1>u, <1>z, <2>1 DEF BuildInv, CreateLabels
<1>7. HealthyInv'
  <2>1. cpu'.pc # "found" /\ cpu.pc \in TaskLabels
    BY <1>c, <1>d DEF TaskLabels, ExitLabels
  <2>. QED  BY <1>d, <1>s, <1>u, <1>z, <1>l, <2>1 DEF OpenInv, HealthyInv
<1>. QED  BY <1>1, <1>2, <1>3, <1>4, <1>5, <1>6, <1>7 DEF OpenInv

\* From here to sched() a tick saves nothing.
LEMMA ExitCurrentOpen ==
  ASSUME OpenInv, ExitCurrent, ~TaskMayCreate
  PROVE  OpenInv'
<1>c. /\ cpu.pc = "exit_current" /\ cpu'.pc = "exit_free"
      /\ cpu'.own = cpu.own /\ cpu'.local = cpu.local /\ current' = NULL
  BY DEF ExitCurrent, OpenInv, TypeOK, Goto, Context
<1>u. UNCHANGED <<tasks, heap, pid, ppid, state, times, ctx, idle, garbled>>
  BY DEF ExitCurrent
<1>o. cpu.own # tasks[0] /\ cpu.own # Boot
  BY <1>c DEF OpenInv, PlaceInv, CreateLabels, ExitLabels, SchedLabels
<1>s. /\ ~Starting /\ ~Starting' /\ ~IdleExecutes /\ ~IdleExecutes'
      /\ Healthy' <=> Healthy
  BY <1>c, <1>o, <1>u DEF Starting, IdleExecutes, Healthy, Resumable
<1>1. TypeOK'
  <2>1. cpu' \in Context
    BY ContextType
       DEF OpenInv, TypeOK, ExitCurrent, Labels, TaskLabels, ExitLabels
  <2>. QED  BY <1>c, <1>u, <2>1 DEF OpenInv, TypeOK
<1>2. CurrentOwnsCpu' /\ TableSound' /\ SavedInv'
  BY <1>c, <1>u DEF OpenInv, CurrentOwnsCpu, TableSound, SavedInv
<1>3. PlaceInv'
  BY <1>c, <1>o, <1>s, <1>u DEF OpenInv, PlaceInv, CreateLabels, ExitLabels
<1>4. ClaimInv'
  BY <1>c, <1>u DEF OpenInv, ClaimInv, Claimer
<1>5. BuildInv'
  BY <1>c, <1>s, <1>u DEF OpenInv, BuildInv, BuildOK, CreateLabels
<1>6. HealthyInv'
  <2>1. ~Claimer(cpu)' /\ cpu'.pc # "found" /\ cpu.pc \in TaskLabels
    BY <1>c DEF Claimer, TaskLabels, ExitLabels
  <2>2. \A q \in Page : Claimer(ctx[q])' <=> Claimer(ctx[q])
    BY <1>u DEF Claimer
  <2>. QED  BY <1>c, <1>s, <1>u, <2>1, <2>2 DEF OpenInv, HealthyInv
<1>. QED  BY <1>1, <1>2, <1>3, <1>4, <1>5, <1>6 DEF OpenInv

\* The page freed is in no slot; as long as idle's TSS is sound, it is neither
\* being built nor claimed.
LEMMA ExitFreeOpen ==
  ASSUME OpenInv, ExitFree, ~TaskMayCreate
  PROVE  OpenInv'
<1>c. /\ cpu.pc = "exit_free" /\ cpu'.pc = "sched" /\ cpu'.local = NULL
      /\ cpu'.own = cpu.own /\ heap' = heap \ {cpu.own} /\ current = NULL
      /\ cpu.own # tasks[0] /\ state[cpu.own] = "RUNNING" /\ cpu.own # Boot
      /\ \A i \in Slots : tasks[i] # cpu.own
  BY DEF ExitFree, OpenInv, TypeOK, GotoWith, Context, PlaceInv, CreateLabels,
         ExitLabels, SchedLabels
<1>u. UNCHANGED <<tasks, current, pid, ppid, state, times, ctx, idle, garbled>>
  BY DEF ExitFree
<1>s. /\ ~Starting /\ ~Starting' /\ ~IdleExecutes /\ ~IdleExecutes'
      /\ Healthy' <=> Healthy
  BY <1>c, <1>u
     DEF Starting, IdleExecutes, Healthy, Resumable, CreateLabels
<1>1. TypeOK'
  <2>1. cpu' \in Context
    BY ContextType DEF OpenInv, TypeOK, ExitFree, Labels, SchedLabels
  <2>. QED  BY <1>c, <1>u, <2>1 DEF OpenInv, TypeOK
<1>2. CurrentOwnsCpu' /\ TableSound' /\ SavedInv'
  BY <1>c, <1>u
     DEF OpenInv, CurrentOwnsCpu, TableSound, SavedInv, TaskLabels,
         CreateLabels, ExitLabels
<1>3. PlaceInv'
  BY <1>c, <1>s DEF PlaceInv, CreateLabels, ExitLabels, SchedLabels
<1>4. ClaimInv'
  BY <1>c, <1>u DEF OpenInv, ClaimInv, Claimer
<1>5. BuildInv'
  <2>1. BuildOK(ctx[tasks[0]]) => BuildOK(ctx[tasks[0]])'
    BY <1>c, <1>u DEF BuildOK
  <2>. QED  BY <1>c, <1>s, <1>u, <2>1 DEF OpenInv, BuildInv, CreateLabels
<1>6. HealthyInv'
  <2>1. ~Claimer(cpu)' /\ cpu'.pc # "found" /\ cpu.pc \in TaskLabels
          /\ cpu'.pc \notin TaskLabels
    BY <1>c DEF Claimer, TaskLabels, CreateLabels, ExitLabels
  <2>2. \A q \in Page : Claimer(ctx[q])' <=> Claimer(ctx[q])
    BY <1>u DEF Claimer
  <2>3. ASSUME Healthy, NEW q \in Page, Claimer(ctx[q])
        PROVE  ctx[q].local # cpu.own
    BY <1>c, <2>1, <2>3 DEF OpenInv, HealthyInv
  <2>. QED  BY <1>c, <1>s, <1>u, <2>1, <2>2, <2>3 DEF OpenInv, HealthyInv
<1>. QED  BY <1>1, <1>2, <1>3, <1>4, <1>5, <1>6 DEF OpenInv

\* Only create_task() called by kernel_main() fills slot 0.
LEMMA IdleStep ==
  ASSUME OpenInv, IdleKnown, [Next]_vars, Intact, ~TaskMayCreate
  PROVE  IdleKnown'
<1>1. CASE CreatePublish
  <2>1. cpu.pc = "ct_publish" /\ BuildOK(cpu) /\ 0 \in Slots
    BY <1>1, NrTasksAssumption
       DEF CreatePublish, OpenInv, BuildInv, CreateLabels, Slots
  <2>2. tasks'[0] = IF pid[cpu.local] = 0 THEN cpu.local ELSE tasks[0]
    BY <1>1, <2>1 DEF CreatePublish
  <2>3. CASE cpu.own = Boot
    BY <1>1, <2>1, <2>2, <2>3
       DEF OpenInv, PlaceInv, Starting, CreateLabels, CreatePublish, IdleKnown
  <2>4. CASE cpu.own # Boot
    <3>1. cpu.own = tasks[0] /\ tasks[0] \in Page
      BY <2>1, <2>4 DEF OpenInv, TypeOK, Context, PlaceInv, CreateLabels
    <3>2. pid[cpu.local] # 0
      BY <2>1, <3>1, PageAssumption DEF BuildOK
    <3>. QED  BY <1>1, <2>2, <2>4, <3>2 DEF CreatePublish, IdleKnown
  <2>. QED  BY <2>3, <2>4
<1>2. CASE ExitUnlink
  <2>1. \/ tasks' = tasks
        \/ \E j \in Slots \ {0} : tasks' = [tasks EXCEPT ![j] = NULL]
    BY <1>2 DEF ExitUnlink
  <2>2. tasks'[0] = tasks[0] /\ idle' = idle
    BY <1>2, <2>1, NrTasksAssumption DEF ExitUnlink, OpenInv, TypeOK, Slots
  <2>. QED  BY <2>2 DEF IdleKnown
<1>3. CASE tasks' = tasks /\ idle' = idle
  BY <1>3 DEF IdleKnown
<1>4. ~CreateTorn
  BY DEF Intact, CreateTorn
<1>. QED
  BY <1>1, <1>2, <1>3, <1>4
     DEF vars, Next, KernelStep, CreateStep, SchedStep, ExitStep, CreateAlloc,
         CreatePid, CreateContext, CreateReady, Tick, SchedFind, SchedIdle,
         SchedClaim, SchedCurrent, SwitchIdle, SwitchTask, TaskReturn,
         ExitCurrent, ExitFree

\* The invariant is inductive, wherever ticks are let in, as long as no creation
\* loses a register.
LEMMA OpenStep ==
  ASSUME OpenInv, IdleKnown, [Next]_vars, Intact, ~TaskMayCreate
  PROVE  OpenInv'
<1>1. CASE CreateAlloc  BY <1>1, CreateAllocOpen
<1>2. CASE CreatePid  BY <1>2, CreatePidOpen
<1>3. CASE CreatePublish  BY <1>3, CreatePublishOpen
<1>4. CASE CreateContext  BY <1>4, CreateContextOpen
<1>5. CASE CreateReady  BY <1>5, CreateReadyOpen
<1>6. CASE Tick  BY <1>6, TickOpen
<1>7. CASE SchedFind  BY <1>7, SchedFindOpen
<1>8. CASE SchedIdle  BY <1>8, SchedIdleOpen
<1>9. CASE SchedClaim  BY <1>9, SchedClaimOpen
<1>10. CASE SchedCurrent  BY <1>10, SchedCurrentOpen
<1>11. CASE SwitchIdle  BY <1>11, SwitchIdleOpen
<1>12. CASE SwitchTask  BY <1>12, SwitchTaskOpen
<1>13. CASE TaskReturn  BY <1>13, TaskReturnOpen
<1>14. CASE ExitUnlink  BY <1>14, ExitUnlinkOpen
<1>15. CASE ExitCurrent  BY <1>15, ExitCurrentOpen
<1>16. CASE ExitFree  BY <1>16, ExitFreeOpen
<1>17. CASE UNCHANGED vars
  BY <1>17 DEF vars, OpenInv, TypeOK, CurrentOwnsCpu, TableSound, SavedInv,
     PlaceInv, ClaimInv, BuildInv, BuildOK, HealthyInv, Healthy, Starting,
     Resumable, IdleExecutes, Claimer
<1>18. ~CreateTorn
  BY DEF Intact, CreateTorn
<1>. QED
  BY <1>1, <1>2, <1>3, <1>4, <1>5, <1>6, <1>7, <1>8, <1>9, <1>10, <1>11,
     <1>12, <1>13, <1>14, <1>15, <1>16, <1>17, <1>18
     DEF Next, KernelStep, CreateStep, SchedStep, ExitStep

-----------------------------------------------------------------------------
\* With ticks between any two steps, no creation losing a register, the table
\* holds only allocated pages, each in the slot its pid names: the page of a
\* finished task is never left in a slot, not even when a tick between two steps
\* of task_exit() starts the task again.
THEOREM TableSoundAnyTick ==
  ASSUME ~TaskMayCreate
  PROVE  Spec /\ []Intact => []TableSound
<1>1. OpenInv => TableSound
  BY DEF OpenInv
<1>. QED  BY <1>1, OpenInitially, OpenStep, IdleStep, PTL DEF Spec

\* With ticks between any two steps, no creation losing a register, current names
\* the task whose code executes, even one that a tick in the middle of the
\* register switch has sent astray.
THEOREM CurrentOwnsCpuAnyTick ==
  ASSUME ~TaskMayCreate
  PROVE  Spec /\ []Intact => []CurrentOwnsCpu
<1>1. OpenInv => CurrentOwnsCpu
  BY DEF OpenInv
<1>. QED  BY <1>1, OpenInitially, OpenStep, IdleStep, PTL DEF Spec

\* With ticks between any two steps, no creation losing a register, a READY task
\* that the scheduler can find has a complete TSS: create_task() sets the state
\* last, and no tick saves into it.
THEOREM ReadyIsBuiltAnyTick ==
  ASSUME ~TaskMayCreate
  PROVE  Spec /\ []Intact => []ReadyIsBuilt
<1>1. OpenInv => ReadyIsBuilt
  <2>1. ASSUME OpenInv, NEW i \in ReadySlots
        PROVE  ctx[tasks[i]] = At(tasks[i], "entry")
    <3>1. i \in Slots \ {0} /\ tasks[i] # NULL /\ state[tasks[i]] = "READY"
      BY DEF ReadySlots
    <3>2. tasks[i] \in heap /\ tasks[i] # tasks[0]
      BY <2>1, <3>1, NrTasksAssumption DEF OpenInv, TableSound, Slots
    <3>. QED  BY <2>1, <3>1, <3>2 DEF OpenInv, ClaimInv
  <2>. QED  BY <2>1 DEF ReadyIsBuilt
<1>. QED  BY <1>1, OpenInitially, OpenStep, IdleStep, PTL DEF Spec

\* A step only empties a slot or fills an empty one.
LEMMA SlotStep ==
  ASSUME OpenInv, [Next]_vars, Intact, ~TaskMayCreate,
         NEW i \in Slots, tasks[i] # NULL
  PROVE  tasks'[i] \in {tasks[i], NULL}
<1>1. CASE CreatePublish
  <2>1. BuildOK(cpu) /\ cpu.pc = "ct_publish"
    BY <1>1 DEF OpenInv, BuildInv, CreatePublish, CreateLabels
  <2>2. tasks'[i] = IF i = pid[cpu.local] THEN cpu.local ELSE tasks[i]
    BY <1>1 DEF CreatePublish
  <2>. QED  BY <2>1, <2>2 DEF BuildOK
<1>2. CASE ExitUnlink
  <2>1. \/ tasks' = tasks
        \/ \E j \in Slots : tasks' = [tasks EXCEPT ![j] = NULL]
    BY <1>2 DEF ExitUnlink
  <2>. QED  BY <2>1 DEF OpenInv, TypeOK
<1>3. CASE tasks' = tasks
  BY <1>3
<1>4. ~CreateTorn
  BY DEF Intact, CreateTorn
<1>. QED
  BY <1>1, <1>2, <1>3, <1>4
     DEF vars, Next, KernelStep, CreateStep, SchedStep, ExitStep, CreateAlloc,
         CreatePid, CreateContext, CreateReady, Tick, SchedFind, SchedIdle,
         SchedClaim, SchedCurrent, SwitchIdle, SwitchTask, TaskReturn,
         ExitCurrent, ExitFree

\* With ticks between any two steps, those between the search for a free slot and
\* the store into it included, no creation losing a register, no task is put in
\* the slot of another.
THEOREM NoOverwriteAnyTick ==
  ASSUME ~TaskMayCreate
  PROVE  Spec /\ []Intact => NoOverwrite
<1>1. ASSUME OpenInv, [Next]_vars, Intact
      PROVE  [\A i \in Slots : tasks[i] # NULL =>
                tasks'[i] \in {tasks[i], NULL} \cup garbled]_vars
  BY <1>1, SlotStep
<1>. QED  BY <1>1, OpenInitially, OpenStep, IdleStep, PTL DEF Spec, NoOverwrite
=============================================================================
