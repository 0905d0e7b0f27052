----------------------------- MODULE Interrupts -----------------------------
(***************************************************************************)
(* From the interrupt line to the handler and back: the 8259 pair as       *)
(* boot/head.asm programs it, the IDT of kernel/idt.c, the entry stubs of  *)
(* kernel/asm/interrupt_handler.asm and clock_handler.asm, exception.c,    *)
(* and printk(), which leaves with interrupts enabled whoever calls it.    *)
(*                                                                         *)
(* The ICW4 of both controllers is 003h: automatic end of interrupt.  No   *)
(* line is ever "in service", so send_eoi() has nothing left to do and     *)
(* only the flag IF keeps a handler from being interrupted.                *)
(*                                                                         *)
(* The scheduler is reduced to what it does to stacks: a dispatch starts a *)
(* task on an empty stack or resumes idle from its TSS; see Sched for the  *)
(* rest.  What a key means is left out as well.                            *)
(***************************************************************************)
EXTENDS Integers, Sequences

CONSTANTS
  master_mask,  \* OCW1 of the master: bit l disables line l
  Lines,        \* the lines of the master with a device on them
  Faults,       \* the exceptions that task code may raise
  MaxDepth      \* bound: the handlers active at the same time

ASSUME InterruptsAssumption ==
  /\ master_mask \in 0 .. 255
  /\ Lines \subseteq 0 .. 7
  /\ Faults \subseteq 0 .. 21
  /\ MaxDepth \in Nat \ {0}

VARIABLES
  boot,    \* the step of kernel_main() to execute next
  idt,     \* lidt has been executed
  IF_flag, \* the flag IF
  irr,     \* the lines that request an interrupt
  owner,   \* whose stack the CPU is on: "boot" (current is NULL), idle, a task
  stack,   \* the active handlers on that stack, the innermost last
  tss,     \* what the TSS of idle holds
  shown    \* what exception_handler() printed last

vars == <<boot, idt, IF_flag, irr, owner, stack, tss, shown>>

-----------------------------------------------------------------------------
(***************************************************************************)
(* The controllers, the gates and the words on the stack.                  *)
(***************************************************************************)
Masked(line) == (master_mask \div 2 ^ line) % 2 = 1

Vector(line) == 32 + line

\* What the 8259 delivers when a request has gone before it is acknowledged.
SpuriousVector == Vector(7)

\* The entry point idt_init() puts in the gate of a vector.
Handler(v) ==
  CASE v <= 21 -> "exception"
    [] v = 32  -> "clock"
    [] v = 33  -> "keymap"
    [] OTHER   -> "default"

\* The exceptions for which the CPU pushes an error code last.
HasErrorCode(v) == v \in {8, 10, 11, 12, 13, 14, 17, 21}

\* What the CPU pushes, the top of the stack first, as in every list below.
Return == <<"eip", "cs", "eflags">>
Pushed(v) == IF HasErrorCode(v) THEN <<"error">> \o Return ELSE Return

pushad == <<"edi", "esi", "ebp", "esp", "ebx", "edx", "ecx", "eax">>

\* "stack" holds the active handlers, with the line of each (-1 is a spurious
\* interrupt, -2 an exception), its vector v, how far it is (pc) and the words
\* it has on the stack.
Idle == stack = <<>>
Top == stack[Len(stack)]
Below == SubSeq(stack, 1, Len(stack) - 1)
InHandler(h, pc) == ~Idle /\ Handler(Top.v) = h /\ Top.pc = pc

\* The innermost handler goes on at pc with `words' on the stack.
Go(pc, words) == Append(Below, [Top EXCEPT !.pc = pc, !.words = words])

\* What a report is about and what it shows as eip, cs and eflags.
nothing == [v |-> -1, words |-> <<>>]

-----------------------------------------------------------------------------
(***************************************************************************)
(* kernel_main().  setup.asm has executed CLI; the first printk() enables  *)
(* interrupts, and after task_init() there is a task 0 to switch to.       *)
(***************************************************************************)
BootSteps == <<"console_init", "gdt_init", "idt_init", "printk", "task_init">>

Init ==
  /\ boot = 1
  /\ idt = FALSE
  /\ IF_flag = FALSE
  /\ irr = {}
  /\ owner = "boot"
  /\ stack = <<>>
  /\ tss = [stack |-> <<>>, eip |-> "eip", left |-> <<>>]
  /\ shown = nothing

Booted == boot > Len(BootSteps)

\* A mutant: the messages come before idt_init().
BootStep_early ==
  /\ ~Booted /\ Idle
  /\ boot' = boot + 1
  /\ idt' = (idt \/ BootSteps[boot] = "printk")
  /\ IF_flag' = (IF_flag \/ BootSteps[boot] = "idt_init")
  /\ UNCHANGED <<irr, owner, stack, tss, shown>>

BootStep ==
  /\ ~Booted /\ Idle
  /\ boot' = boot + 1
  /\ idt' = (idt \/ BootSteps[boot] = "idt_init")
  /\ IF_flag' = (IF_flag \/ BootSteps[boot] = "printk")
  /\ UNCHANGED <<irr, owner, stack, tss, shown>>

-----------------------------------------------------------------------------
(***************************************************************************)
(* Requests, and the CPU's answer: the words of Pushed(v), IF off (every   *)
(* gate is an interrupt gate), the entry point of the gate.                *)
(***************************************************************************)
\* Bound: no tick before there is a task 0 (Sched shows what that does).
Raise(line) ==
  /\ line = 0 => Booted
  /\ irr' = irr \cup {line}
  /\ UNCHANGED <<boot, idt, IF_flag, owner, stack, tss, shown>>

Interrupt(line, v) ==
  /\ Len(stack) < MaxDepth
  /\ IF_flag' = FALSE
  /\ stack' = Append(stack, [line |-> line, v |-> v, pc |-> "entry",
                             words |-> Pushed(v)])
  /\ UNCHANGED <<boot, idt, owner, tss, shown>>

Pending == {l \in irr : ~Masked(l)}

\* The lowest line has priority.
Accept(line) ==
  /\ IF_flag
  /\ line \in Pending
  /\ \A l \in Pending : line <= l
  /\ Interrupt(line, Vector(line))
  /\ irr' = irr \ {line}

Spurious ==
  /\ IF_flag
  /\ Interrupt(-1, SpuriousVector)
  /\ UNCHANGED irr

\* Bound: the code of handlers does not raise exceptions.
Fault(v) ==
  /\ Booted /\ Idle
  /\ Interrupt(-2, v)
  /\ UNCHANGED irr

-----------------------------------------------------------------------------
(***************************************************************************)
(* The handlers.  printk() clears IF, so that it is one step, and sets it  *)
(* before it returns.                                                      *)
(***************************************************************************)
\* A mutant: printk() puts IF back as it found it.
printk_restores == IF_flag' = IF_flag

printk == IF_flag' = TRUE

\* push msg; call printk; add esp, 4
DefaultHandler ==
  /\ InHandler("default", "entry")
  /\ printk
  /\ stack' = Go("tail", <<"arg">> \o Top.words)
  /\ UNCHANGED <<boot, idt, irr, owner, tss, shown>>

\* push 0x21; call keymap_handler, which may have no character to print.
KeymapHandler ==
  /\ InHandler("keymap", "entry")
  /\ printk \/ IF_flag' = IF_flag
  /\ stack' = Go("tail", <<"arg">> \o Top.words)
  /\ UNCHANGED <<boot, idt, irr, owner, tss, shown>>

\* A mutant: the argument stays on the stack.
DropArgument_kept ==
  /\ ~Idle /\ Top.pc = "tail" /\ Handler(Top.v) \in {"default", "keymap"}
  /\ stack' = Go("iret", Top.words)
  /\ UNCHANGED <<boot, idt, IF_flag, irr, owner, tss, shown>>

DropArgument ==
  /\ ~Idle /\ Top.pc = "tail" /\ Handler(Top.v) \in {"default", "keymap"}
  /\ stack' = Go("iret", Tail(Top.words))
  /\ UNCHANGED <<boot, idt, IF_flag, irr, owner, tss, shown>>

\* IF was on when these two stubs were entered, and comes back with eflags.
\* (They save no register around the C function they call, so that eax, ecx
\* and edx of the interrupted code are destroyed; registers are left out.)
Iret ==
  /\ ~Idle /\ Top.pc = "iret"
  /\ stack' = Below
  /\ IF_flag' = TRUE
  /\ UNCHANGED <<boot, idt, irr, owner, tss, shown>>

\* A mutant: the macro puts an error code on the stack for every vector.
MacroPushes_error == <<"ret", "index">> \o pushad \o <<"error">>

\* What the macro INTERRUPT_HANDLER and its call add to the stack.
MacroPushes == <<"ret", "index">> \o pushad

\* exception_handler(idt_index, edi, ..., eax, eip, cs, eflags) prints, with
\* printk(), the words at the places of its parameters, and never returns (its
\* six calls are one step).
ExceptionHandler ==
  LET words == MacroPushes \o Top.words
      Parameter(n) == words[n + 1]
  IN  /\ InHandler("exception", "entry")
      /\ printk
      /\ shown' = [v |-> Top.v, words |-> <<Parameter(10), Parameter(11),
                                            Parameter(12)>>]
      /\ stack' = Go("loop", words)
      /\ UNCHANGED <<boot, idt, irr, owner, tss>>

-----------------------------------------------------------------------------
(***************************************************************************)
(* The clock: save in the TSS of `current' if there is one, acknowledge,   *)
(* printk(), and sched(), from which the CPU comes back only through       *)
(* switch_idle_task or switch_task, both of which enable interrupts.       *)
(***************************************************************************)
\* A mutant: esp0 does not count the word pushed by the stub itself.
esp0_short(words) == SubSeq(words, 4, Len(words))

\* esp + 0x10: what stays on the stack when four words are skipped.
esp0(words) == SubSeq(words, 5, Len(words))

ClockHandler ==
  LET words == <<"ecx">> \o Top.words
  IN  /\ InHandler("clock", "entry")
      /\ tss' = IF owner = "idle"
                  THEN [stack |-> Below, eip |-> words[2],
                        left |-> esp0(words)]
                  ELSE tss
      /\ stack' = Go("tail", <<"arg">> \o IF owner = "boot" THEN words
                                          ELSE Top.words)
      /\ printk
      /\ UNCHANGED <<boot, idt, irr, owner, shown>>

\* sched(), called by clock_handler() or by task_exit_handler.
Dispatch ==
  /\ InHandler("clock", "tail") \/ (owner = "task" /\ Idle)
  /\ \/ owner' = "idle" /\ stack' = tss.stack
     \/ owner' = "task" /\ stack' = <<>>
  /\ IF_flag' = TRUE
  /\ UNCHANGED <<boot, idt, irr, tss, shown>>

-----------------------------------------------------------------------------
HandlerStep ==
  \/ DefaultHandler \/ KeymapHandler \/ DropArgument \/ Iret
  \/ ExceptionHandler \/ ClockHandler
  \/ (InHandler("clock", "tail") /\ Dispatch)

Next ==
  \/ BootStep \/ HandlerStep \/ Spurious \/ Dispatch
  \/ \E line \in Lines : Raise(line) \/ Accept(line)
  \/ \E v \in Faults : Fault(v)

Spec == Init /\ [][Next]_vars

(***************************************************************************)
(* The CPU executes handlers to their end, and looks at the controller     *)
(* after every instruction: a request that finds IF on again and again,    *)
(* and the line of highest priority, is taken (strong fairness).           *)
(***************************************************************************)
FairSpec ==
  /\ Spec
  /\ WF_vars(BootStep) /\ WF_vars(HandlerStep)
  /\ \A line \in Lines : SF_vars(Accept(line))

-----------------------------------------------------------------------------
(***************************************************************************)
(* Properties.                                                             *)
(***************************************************************************)

\* A handler never runs before there are gates to enter it through
\* (main.c:20-22), and however handlers nest through the STI of printk(), each
\* IRET finds on top of the stack exactly the words the CPU pushed when that
\* handler began.
IretSound ==
  \A d \in 1 .. Len(stack) :
    /\ idt
    /\ stack[d].pc = "iret" => stack[d].words = Return

\* What a tick saves for idle is the interrupted place, on the stack as it was
\* before the interrupt: a tick leaves nothing behind there.
SavedExact == tss.eip = "eip" /\ tss.left = <<>>

\* For an exception without an error code the report shows what it names.
ReportExact ==
  shown # nothing /\ ~HasErrorCode(shown.v) => shown.words = Return

\* A tick is always answered, also while a fault report loops forever.
ClockServed == 0 \in irr ~> InHandler("clock", "entry")
=============================================================================
