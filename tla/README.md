# A TLA+ verification of FunSizeOS

FunSizeOS is a small 32-bit x86 kernel: one CPU, no user mode, kernel tasks
scheduled by the clock, a page allocator and a bucket heap, a text console and
a keyboard. This directory models its core in TLA+, checks the models with
TLC and proves the main safety properties with TLAPS. Paths below are relative
to `src/kernel/`. `PROJECT.json` maps every definition to the lines it models.

## The system

| Component | Source | State | Operations |
|---|---|---|---|
| Tasks and scheduler | `kernel/task.c`, `kernel/sched.c`, `kernel/asm/sched.asm`, `kernel/asm/clock_handler.asm`, `kernel/chr_drv/clock.c` | `tasks[]`, `current`, per task a page with `task_t` (pid, ppid, state, TSS) and its stack | `create_task`, the tick, `sched`, `switch_idle_task`, `switch_task`, `task_exit` |
| Interrupt system | `boot/head.asm`, `kernel/idt.c`, `kernel/asm/interrupt_handler.asm`, `kernel/exception.c`, `kernel/traps.c`, `kernel/printk.c` | 8259 mask and mode, IDT, the flag IF, stacks | set-up, interrupt entry and exit, exception report |
| Page allocator | `mm/memory.c` | one map byte per page, a counter | `get_free_page`, `free_page` |
| Kernel heap | `mm/malloc.c` | bucket chains, descriptors, free lists | `kmalloc`, `kfree_s` |
| Memory detection | `boot/setup.asm`, `mm/memory.c` | the BIOS report, the region chosen | `memory_check`, `memory_init`, `memory_map_int` |
| Console | `kernel/chr_drv/console.c` | screen start, cursor, video memory | `console_write`, scrolling, control characters |
| Keyboard | `kernel/chr_drv/keyboard.c` | per key and prefix whether it is held, locks, the prefix seen | `keymap_handler` |
| Formatting | `kernel/vsprintf.c`, `include/stdarg.h`, `kernel/printk.c` | a static buffer; place in format and argument list | `vsprintf`, `number`, `skip_atoi`, `printk` |
| Segments, paging | `kernel/gdt.c`, `mm/mm_101012.c`, `kernel/kernel.c` | GDT, page tables (unused) | `gdt_init`, `virtual_memory_init` |
| Boot sector, helpers, example | `boot/boot.asm`, `kernel/asm/io.asm`, `lib/string.c`, `hello/` | none | disk reads, port and string access |

How they interact: `kernel_main()` initialises the console, the GDT and the
IDT, prints (which enables interrupts), starts the clock, hands the BIOS report
to the page allocator and creates task 0, `idle`, which creates the other
task. From then on everything happens under the clock interrupt: it saves the
CPU in the TSS of `current`, prints, and calls `sched()`, which *jumps* to
another task and never returns. A task lives in one page from
`kmalloc(4096)`, which comes from the page allocator; a finished task gives its
page back while it still runs on it.

What makes the code hard:

* `printk()` ends with STI whatever the flag was on entry. So the clock
  handler, the exit path of a task and the CLI sections of the heap can all be
  interrupted, and handlers nest.
* `sched()` leaves the stack of whoever called it as it is, and depends on the
  context saved last. Of that context eax and the flags are lost.
* Data is published before it is complete (`tasks[pid] = task` before the TSS
  is filled), and chosen before it is used (`find_empty_process`).
* Errors are printed and then mostly ignored.
* The console keeps its position in five places, the heap its pages in four.
* A preempted call is not continued, as no task but idle is ever resumed: it
  leaves whatever it was changing as it is.
* The keyboard tells about keys in pieces that can be lost one by one; a format
  and its arguments are matched by nothing but counting.

What makes each part correct:

* Scheduler: a tick saves into the TSS of the task it interrupts; only complete
  tasks are dispatched; a slot is never given twice; the stack in use is
  allocated; every ready task and idle get the CPU.
* Interrupts: no interrupt before the gates; what a handler leaves on the stack
  is what IRET needs, however handlers nest; ticks never stop.
* Page allocator: map, counter and callers agree; a failure means that memory
  is short.
* Heap: objects never overlap; lists, counts and pages stay sound through any
  sequence of calls, cut-off ones included; what those lose is bounded; the
  page allocator is used within its contract.
* Memory detection: every page handed out is memory, and can be given back.
* Console: position, row, column and controller agree; text goes to the cursor;
  how far stores leave the video memory is bounded.
* Keyboard: after a loss, only the keys whose codes were lost are taken wrongly,
  and only until their next code; text follows the keys as they were pressed; a
  lock goes wrong only by codes that are lost, repeated or sent by another key.
* Formatting: a format takes exactly its arguments; a number reads back as what
  was passed; the text fits its field.

## The modules

| Module | Models | Checked by | Proved in |
|---|---|---|---|
| `Sched` | tasks, scheduler, tick, switches, exit | `MCSched_*.cfg` with `MCSched` | `SchedProofs` (invariants: `SchedInv`) |
| `TaskLife` | the life of a task without table, clock and registers | property of `Sched` | `SchedProofs` |
| `Interrupts` | 8259, IDT, entry stubs, IF, nested handlers, boot order | `Interrupts_*.cfg` | `InterruptsProofs` |
| `PageAlloc` | `get_free_page`, `free_page` | `PageAlloc_*.cfg` | `PageAllocProofs` |
| `Malloc` | `kmalloc`, `kfree_s` | `MCMalloc_*.cfg` with `MCMalloc` | `MallocProofs` |
| `Heap` | the promise of a heap: disjoint objects inside the memory | property of `Malloc` | `MallocProofs` |
| `BootMemory` | BIOS report to page allocator | `MCBootMemory_*.cfg` with `MCBootMemory` | `BootMemoryProofs` |
| `Console` | `console_write` and its cursor | `Console_*.cfg` | `ConsoleProofs` |
| `Keyboard` | `keymap_handler` and the keyboard before it | `MCKeyboard_*.cfg` with `MCKeyboard` | `KeyboardProofs` |
| `Vsprintf` | `vsprintf`, `number`, `skip_atoi`, `va_arg` | `MCVsprintf_*.cfg` with `MCVsprintf` | `VsprintfProofs` |

`Malloc` is composed with the others by refinement: with objects mapped to
the bytes they occupy it implements `Heap` (`HeapSpec`), and seen through the
page map it is, as long as no call is cut off, a legal client of `PageAlloc`
(`PageSpec`), so what is proved of `PageAlloc` for well-behaved callers holds
for the heap. `Sched` implements `TaskLife` (`TaskLifeSpec`): a page is a task
in one of five phases, read off `heap`, `state` and `times`, and `on` is the
task whose own code the CPU executes. What takes several interruptible steps in
`Sched` is one step there, or none. What `Malloc` says of preempted callers,
that they never come back, is what `TaskLife` says of tasks that lost the CPU.

### Sched

The CPU executes a *context*: the stack in use (`own`), the code position
(`pc`), the task a kernel function holds in a local variable, and whether
`task_exit_handler` is the return address. A task and its stack are one page, so
a task *is* a page. There is one action for each group of statements:
`CreateAlloc`, `CreatePid`, `CreatePublish`, `CreateContext`, `CreateReady` are
`create_task()`; `SchedFind` to `SwitchTask` are `sched()` and the switch;
`TaskReturn`, `ExitUnlink`, `ExitCurrent`, `ExitFree` the end of a task. `Tick`
may come between any two of them: it stores `cpu` in `ctx[current]` and goes to
`sched` on the same stack.

`TickWindows` names the delicate places where ticks are let in as well:
`boot` (before idle exists), `switch` (inside the register switch, where in
fact IF is off unless the caller was a nested handler), `handler` (after the
`printk()` of the clock handler, before the switch), `exit` (in the `sched()`
called at the end of a task), `registers` (inside a statement of
`create_task()`, which has something in a register then). In a real machine,
ticks are 10 ms apart and the first four are microseconds: the runs with few
windows say what holds if ticks miss them, the run `sched_open` what holds
with all of them, and the list of departures below what goes wrong in them.

The compiled code keeps its locals on the stack, so between two statements no
register matters. Inside one it does: `sched.asm` uses eax for its own jump and
the flags are never restored, so a creation preempted there goes on with the
wrong index (`task.c:27`) or pointer (`task.c:63`). `Tick` may choose that it
has fallen inside a statement (`InStatement`) and notes the task being created
in the auxiliary variable `garbled`; from then on that creation may also take
the steps of `CreateTorn`, in which any slot may be found, `pid`, `ppid` and the
state may be anything, the stores to the table, the TSS and the state may go
elsewhere, and so may the CPU. The other auxiliary variable, `idle`, is the task
that `kernel_main()` made: a garbled creation may put another one in slot 0.
Which other data a stray store hits is not followed, nor are losses in the
bodies of tasks, which are left open anyway, and ticks inside the statements of
`sched()` and `task_exit()`.

### Interrupts

The stack is a sequence of active handlers, each with the words on its part of
the stack, top first, as far as the stubs and `iret` care for them. `Accept`,
`Spurious` and `Fault` push what the CPU pushes and clear IF; the handlers add
and remove words; `printk` sets IF. Because ICW4 is 003h the controllers end
interrupts by themselves, so `send_eoi()` changes nothing. `Dispatch` is all of
the scheduler that matters for stacks. The mask is a constant: 254 is what
`head.asm:63` loads, 252, the line commented out at 61, what its comment
describes. The runs use 252; a machine with 254 does nothing that one with 252
does not, it only never accepts a key.

### PageAlloc, Malloc, Heap

`PageAlloc` has the search that starts at `bitmap_item_used`, and callers that
free what they hold, plus, with `StrayFrees`, one that passes an address
behind the last page. `Malloc` has the linked lists of the code: a descriptor
is named by its page and place, `next` is its link. A call is one action up to
its first `printk()`, which is at the end of `get_free_page()` or
`free_page()` and turns interrupts on; from there on each access to shared
data is an action (`KmallocCarve` to `KmallocReturn`, `KfreeList`), and
`CutOff` may end the call of a task between any two of them, because a
preempted task never runs again. `MaxCut` bounds how often.

idle is the only caller that would go on after others have run. `IdleSwitched`
says whether it calls while other tasks may be ready. The shipped idle calls
`create_task()` once, when there is no other task, so the runs use FALSE. With
TRUE, TLC refutes `HeldInUse` in about twenty steps: idle, in the middle of
`kmalloc()`, links its descriptor in front of one that an exiting task has
meanwhile taken off the chain. It is the race that the CLI at `malloc.c:87` is
meant to avoid.

### BootMemory

Addresses are numbers below a small word size, so that overflow and the high
halves matter. The report is any sequence of entries from a set; loading the
kernel puts words of its image (`Image`, not bound by what a BIOS would say) in
the place of those beyond the capacity of the buffer (`Overwritten`: of the
thirteenth, base and lower length are below the image and stay).
`memory_init()` is modelled item by item, because it keeps the last match and
stops at the right one. When the map grows into the frame of `memset()`, whose
return address is then cleared, the model stops (`smashed`). `MapRoom` is the
room up to that frame; the theorems hold for any.

### Console

Video memory is a function from cells to blank, zero or text. The two
cursors of `console_write()` are both there: `pos`, and its local copy `ptr`.

### Keyboard

The driver is four actions, one per way through `keymap_handler()`, each for
one byte; it is atomic, as its gate turns interrupts off and `printk()`, its
last call, turns them on. The keyboard is the environment: `Press`, `Repeat`,
`Release`, the `FakeShift` around grey keys, `Other` bytes (acknowledgements) and
`Pause` put the bytes of scan code set 1 into a buffer of `WireMax` bytes, which
drops what does not fit. Pause has no code of its own but sends those of Ctrl
and Num Lock, with Ctrl held that of Scroll Lock; its bytes (`sending`) go out one
by one. A key is named by the entry of the table that says whether it is held,
code and column. `lost` collects what dropped bytes, a repeating lock key and
Pause make uncertain and is the yardstick of the properties, as is the
character a byte carries along (`char`): the one that was due when the key went
down.

### Vsprintf

One action per branch of the parser: flags, width, precision, qualifier and a
conversion each. The list of arguments is a sequence of machine words, each
with the character or string it stands for, and `taken` counts the calls of
`va_arg()`. The function does not check what it is passed, so its caller has to
keep to something, and `CallFits` says to what: the arguments are those that the
format, as a reader takes it, asks for (`AskedFrom`), and the numbers in the
format are at most a quarter of the word's range. Beyond that `skip_atoi()`
overflows its int, as it does here, and a width becomes negative or, in sums
with others, its difference to them does. `number()` is an operator that builds
the text from its parts (sign, prefix, zeros, digits, blanks); the properties
do not: `ReadsBack` parses the text and compares the value, `LayoutRight` looks
at its length and at where the blanks are. Words have eight bits in the runs,
so that the most negative number and all carries occur, and numbers in a format
that overflow.

## What the runs show

Runs that pass:

| Run | Bounds | Shows |
|---|---|---|
| `sched_safe` | 4 pages, 3 slots, windows `exit` and `registers`, all tasks create tasks, one garbled creation at a time (1.15 million states) | contexts and stacks are sound in every interleaving, also when a creation loses a register (`OwnContext`, `LiveStack`, `CurrentLive`); unintended code is executed only by what such a creation made, or after a task that another than idle created (`NoUnintendedCode`) |
| `sched_open` | 3 pages, 2 slots, all windows, only idle creates tasks (1.11 million states) | with ticks between any two steps, and inside the statements of `create_task()`: the table is sound (`TableSound`), task code runs with `current` naming its task (`CurrentOwnsCpu`), and but for garbled tasks none takes another's slot (`NoOverwrite`) and none can be picked half-built (`ReadyIsBuilt`) |
| `sched_live` | 3 pages, 3 slots, no window | READY tasks are dispatched, idle always runs again, and tasks live the life of `TaskLife` |
| `interrupts_safe` | 3 handlers deep, exceptions 0 and 14 | gates before STI, IRET finds its words, the place a tick saves is exact, reports of exceptions without error code are right, ticks are always answered |
| `pages_safe` | 7 pages | the counter agrees with the callers; no failure before half of the pages are in use |
| `malloc_safe` | 4 pages, 2 bucket sizes, 2 lengths, 2 calls cut off | lists, counts and pages are sound, losses bounded; `HeapSpec`, `PageSpec` |
| `memory_safe` | reports of up to 4 regions, buffer for 2, any image over the rest | the available region at 1 MB is found and counted right, also when it is longer than 4 GB allow or a look-alike above 4 GB follows (`ScanExact`); its pages are memory (`UsableOnly`) and can be freed (`FreeAccepts`) |
| `console_safe` | 2 x 2 screen, 9 cells, calls of up to 4 characters | cursor and controller agree, also across the return to the start of the memory; text goes to the cursor, in each call until a control character moves it or the screen is copied back; stores overrun by a bounded amount; a new row is blank |
| `keyboard_safe` | 3 keys, two of which repeat, Pause struck once, a buffer of 2 bytes (8 million states) | held keys and text are right but for codes that were lost or sent by Pause; a lock but for codes that were lost, repeated or sent by Pause or Ctrl+Break |
| `vsprintf_safe` | 8-bit words, about 18000 calls | arguments in step, numbers read back, fields laid out right but for unsigned numbers with `+` or a space |

Why the bounds are enough. Scheduler, `sched_safe`: idle, one task that runs,
one that is being created or waits and one page to spare need four pages; a
third slot lets the table be full with tasks besides idle and a slot be reused.
One garbled creation may be under way or have made its task while others go
right, which shows what it does to them; a second (`GarbledMax`) adds only
another that may go wrong in any way. `sched_open` has every window at once:
with three pages and two slots, idle, a task and one that finds no slot are
there, the slot is reused and its page taken again. Where no register is lost,
the theorems cover any size. Pages:
with seven, holes below the counter, half-full and full maps occur, and half
is rounded. Heap: four pages hold one page of descriptors and three of objects, so buckets
compete, pages are given back and reused, and memory runs out in all places
where the code can fail. Console: nine cells are a screen, two rows to scroll
into and one odd cell, so the screen returns to the start, and calls are long
enough to wrap and scroll twice. Interrupts: three levels let a handler be
interrupted in a handler that interrupted an exception report; one more adds
only another copy. Boot memory: the entries have each kind of region at 1 MB (of
another type, of odd length, up to the end of the addresses, too large for the
map, 4 GB and longer), its look-alike above 4 GB and regions elsewhere; reports of four
have entries before, at and behind the thirteenth. Keyboard: two bytes are one
code with its prefix, so that both or only the second can be lost; the keys are
a shift, Caps Lock and a grey key, whose codes have the prefix and come with fake
shifts. Pause is struck once (`PauseOnce`): again, it would only add to `lost`
what is there already. Entries of the table that belong to no key are written
and, but for the shifts, never read, so `View` leaves them out. Formatting: the
conversions are independent of each other but for the place in the list of
arguments, so single directives are combined exhaustively and several
directives by example. The proofs below remove the bounds for all safety
properties (those of `Sched` as long as no creation loses a register), and leave
liveness to the runs.

Runs that end in a counterexample. Each states what a comment or message of the
repository says, and the run shows how the code departs from it:

| Run | Says | Does |
|---|---|---|
| `sched_resume` | `task.h:25` the TSS saves and restores the context of a task | a preempted task, idle excepted, never runs again |
| `vsprintf_star` | `vsprintf.c:46` the width may be an asterisk | the asterisk is not skipped, later directives get the wrong arguments |

Other departures met while modelling. They are certain from the source, the
models contain or name them, and no run is spent on them:

* `clock.c:38`: `printk()` enables interrupts inside the clock handler; a second
  tick there overwrites the TSS that the first one has filled (in `Sched`,
  window `handler`: `OwnContext` fails).
* `sched.c:54`: at the end of a task (`current` is NULL), a tick between the
  claim of the next task and line 54 loses that task: it is RUNNING and never
  was (window `exit`: `ReadyDispatched` fails).
* `sched.asm:14`: a tick before `task_init()` jumps through a null task (in
  `Sched`, window `boot`; `main.c:23` enables interrupts long before).
* `sched.asm:25`, `79`: eax and eflags are not restored at a switch. Where that
  hurts `create_task()` is modelled (`CreateTorn`): the search at `task.c:27` may
  take a slot in use for a free one, and the stores at `task.c:57-68` may miss the
  task. The properties allow such harm to the task being created only, and the
  slot it takes.
* `sched.asm:54`: only tasks whose parent is 0 get `task_exit_handler` to return
  to, so a task made by another task returns to nowhere (the first alternative of
  `NoUnintendedCode`; the shipped tasks do not create tasks).
* `task.c:53`: with all slots taken, after "no valid pid", the task is created
  all the same, with pid -1.
* `memory.c:157`: `free_page()` accepts the address just behind the last page
  (`NoEndFree` excludes it in the proofs).
* `memory.c:121`: the search starts at the number of pages in use, so "need to
  expand memory !" (line 131) is printed while pages below it are free
  (`FailsOnlyHalfFull` says how early that may be).
* `malloc.c:104`: without a page for descriptors, a descriptor is taken from
  address 0 (`KmallocInitFails`); `malloc.c:111`: when the page for objects
  fails, the descriptor taken off the list is lost (`KmallocTakePageFails`).
* `malloc.c:87`: a call that is preempted behind the `printk()` of the page
  allocator loses what it had in hand, at most a page, a descriptor, an object
  and a count (`LossesBounded`).
* `interrupt_handler.asm:44`, `exception.c:49`: for an exception with an error
  code, the report shows that code as eip, eip as cs and cs as eflags
  (`ReportExact` is about the others).
* `memory.c:54`: the high halves of base and length are ignored, so an available
  region above 4 GB with the low half of 1 MB, if it comes first, is taken for
  the one at 1 MB (`FirstAtStart` excludes it), and of a region of 4 GB or more
  pages are lost (`ScanExact` says how many there may be). `memory.c:57` adds base
  and length modulo 2^32: if the region ends at 4 GB or above, `free_page()` refuses
  pages that were handed out (the hypothesis of `FreeAccepts`).
* `setup.asm:156`: from the thirteenth on, entries of the report are words of the
  kernel image, whatever those say; if the region at 1 MB is one of them, what
  the allocator gets is up to the image.
* `memory.c:90`: the map of a machine with more than about 2.25 GB runs into the
  stack, and `memset()` clears the address it is to return to (`smashed`). That
  is certain above that size, and no property is stated about it.
* `console.c:120`: `ptr` is a copy of `pos` made on entry, which control characters,
  a line that wraps after one, and the copy back do not move: behind a line feed
  in the same call text is stored where the line broke off, and the cursor is set
  elsewhere (`TextAtCursor` is about text before that; `OverrunBounded` says
  how far it can get out of the memory).
* `head.asm:63`: the keyboard is masked, against the comment at line 59.
* `interrupt_handler.asm:16`, `30`: eax, ecx and edx of the interrupted code are
  destroyed.
* `keyboard.c:346`: bit 7 is masked before the comparison with 0xB7, so Print
  Screen (e0 37) prints the asterisk of the keypad; `|= 0xe000` (340) is lost in
  eight bits.
* `keyboard.c:364-369`: Pause (e1 1d 45) toggles Num Lock and Ctrl+Break (e0 46)
  Scroll Lock; a lock key that repeats while it is held toggles each time.
  (`Pause` and `Repeat` do all this; `LocksExact` names them as the only reasons
  besides lost codes.)
  Caps Lock acts on digits and signs as well, and the slash of the keypad
  gives a question mark with shift. Nothing reads the states of Num Lock and
  Scroll Lock.
* `vsprintf.c:134`: plus and space flags also apply to unsigned conversions,
  although lines 36 to 39 speak of signed numeric types (`LayoutRight` leaves those
  conversions out); `%f` and the lengths `hh` and `ll` of the comment are not there.
* `vsprintf.c:27`: a number in the format that is too large for an int overflows.
  In practice it wraps and a negative precision becomes 0 (line 276) and a
  negative width none, which is what `skip_atoi`, `Padding` and the rest
  do; the subtractions in `number()` could overflow in turn only next to the
  ends of int, which is left out.

Fairness. `sched_live` and `sched_resume` assume that the CPU goes on, that
`kernel_main()` reaches `task_init()`, that the clock, programmed as a rate
generator and never masked, keeps ticking, and (strong fairness) that a task
which is resumed again and again inside `create_task()` gets through it:
between two ticks there are 10 ms. Of task bodies nothing is assumed; they may
loop. `interrupts_safe` assumes that handlers are executed and that a request
which finds IF on, and no line of higher priority, again and again is taken:
the CPU looks at its interrupt pin after every instruction.

Deadlock is not checked where the modelled system stops: after a jump to an
unintended address, after boot, when a call dereferences a null descriptor.

Mutants. For every property `PROJECT.json` names a plausible bug (an operator
`X_...` beside `X` in the module) under which TLC finds the property violated.

## What is proved

All for arbitrary constants, from the named assumptions of the modules, by the
scheme Init => I, I /\ [Next]_vars => I', I => P. TLC has checked each I on the
instances of the runs before it was proved.

* `SchedProofs`: `TypeCorrect`, `ContextsKept`, `StacksLive`, `CurrentIsLive`,
  `TableAndCurrent`, `FoundComplete`, `DispatchedOnce` and `NoWildJump`, for any
  number of pages and slots, with ticks between any two steps but those of `boot`,
  `switch`, `handler`, whichever tasks create tasks, as long as no creation loses
  a register (`[]Intact`; the model checks of `sched_safe` go beyond that). None of
  the safety properties is inductive: that a tick saves into the right TSS
  depends on what `current` is at each step of exit and switch, and that idle
  comes back unharmed depends on what its TSS holds while others run. The
  invariant `IInv` in `SchedInv` says: idle is the only task ever resumed; the
  context in its TSS, and the half-built task this context may be creating,
  survive until then (`IdleInv`, `CreateInv`); any other task is either to be
  started from an untouched TSS or never runs again (`StateInv`, `PickInv`);
  a task on its way out is in no slot (`ExitInv`). The proof has one lemma per
  action; updates of single variables are lemmas of their own.
* `SchedProofs`, part two: `TableSoundAnyTick`, `CurrentOwnsCpuAnyTick`,
  `ReadyIsBuiltAnyTick`, `NoOverwriteAnyTick`, with ticks between any two steps in
  every window, if only idle creates tasks (as the shipped tasks do) and no
  creation loses a register (`[]Intact`: a tick inside a statement of
  `create_task()` is allowed as long as it does no harm). Here contexts do get
  spoiled: a tick in a window saves a piece of the scheduler in a TSS, and
  resuming it may start a task again that has ended. `OpenInv` says what is left.
  Tasks are created only by idle executing its own code (`PlaceInv`), and every
  such harm needs that the TSS of idle was spoiled before, after which idle
  executes none (`Healthy`, `HealthyInv`). So while tasks can still be created,
  what somebody has claimed is live and not yet started, and the table changes
  only as it should. A jump to an unintended address (`wild`) ends the model.
* `SchedProofs`, part three: `LifeOfTasks`, that `Sched` implements `TaskLife`
  (`TaskLifeSpec`), under the assumptions of part one and if only idle creates
  tasks, since others count no dispatches. For each action
  there is a lemma that names the step of `TaskLife` it is, or none. `IInv` alone
  does not do: `TaskLife` has one task under construction, so `LifeInv` adds that
  every half-built task is the one that the CPU, or idle while suspended, holds.
* `InterruptsProofs`: `IretFinds`, `SavesExactly`, `ReportsExactly`, for any depth
  of nesting, any lines, mask and faults. The invariant gives, for each handler
  on a stack (the one in use or the one saved for idle), the words it has there
  from its vector and how far it is, and says that interrupts, handlers and
  tasks exist only once there are gates.
* `BootMemoryProofs`: `RegionFound`, `PagesUsable` and `PagesGivenBack` for every
  report, kernel image, buffer, word and page size, without assumptions on either.
  What `memory_init()` takes for granted is in the properties, and only of
  what the BIOS has reported: that nothing before the region at 1 MB has the low
  half of its address (`FirstAtStart`), and, to give pages back, that this region
  ends below 4 GB. PC firmware reports regions in ascending order and leaves a
  hole for devices under 4 GB. The invariant follows the loop: no entry passed
  looked like the region, and what was found, counted and cleared is what the
  report says.
* `KeyboardProofs`: `TypeCorrect`, `HeldKeys`, `LocksRight`, `TextInOrder`, for any
  set of keys, repeating locks included, Pause at any time, any other bytes and
  any buffer. What the driver knows is out of
  date as long as bytes are stored, so the invariant speaks of the future: there
  is a run of driver states through the stored bytes that shows what is due
  for each and ends in a state that agrees with the keyboard but for `lost`. Adding
  a byte extends that run, dropping one keeps it, since `lost` then covers the
  difference, and handling one takes its first step.
* `MallocProofs`: `ListsStaySound`, `ObjectsStaySound`, `LossesStayBounded`,
  `HeldStayInUse`, and the two refinements, `HeapKept` (`HeapSpec`) and `PagesUsed`
  (`PageSpec`), for any pages, any bucket sizes that divide a page, any
  lengths and any number of calls cut off, as long as idle does not call
  while other tasks may (`~IdleSwitched`). None of them is inductive: whether a
  list stays one when a descriptor is put in front of it depends on that
  descriptor being in no list, and the reference count of a page on what a call
  has taken and not yet handed out. So `IInv` has, besides the types, the lists
  (`ListInv`), whose pages are whose (`PageInv`), what a call has in hand at each
  step, which belongs to nobody else (`HandInv`), the free objects (`FreeInv`), the
  counts (`CountInv`), what callers hold (`HeldInv`), and the losses themselves.
  `ListFrom` walks along the links; that it computes the list they make (`ListIs`)
  takes an induction over its length. The library's induction theorems have an
  operator as parameter and cannot be used, but induction with a *set* of
  numbers can be derived (`Induction`), from the library's theorem that the
  subset ordering on finite sets is well-founded. From there on, lemmas say what
  each change of links does to the set of descriptors in a list, and there is one
  lemma per step of `kmalloc()` and `kfree_s()`. For `HeapSpec`, `IInv` gives that any
  two objects are in different pages or are different ones of one size
  (`Apart`), so that their extents do not overlap.
* `PageAllocProofs`: `Bookkeeping` and `HalfFull` for any number of pages, if
  nobody frees the address behind the last page (`NoEndFree`; otherwise the
  counter goes wrong, see the departures). The second is the surprising one: the
  search looks only at indices from the counter on, so if it fails, all
  those pages are held, and their number is at most the counter.
* `ConsoleProofs`: `Cursor`, `Overrun`, `AtCursor`, `RowCleared` for every screen,
  memory and call length. The invariant adds that the screen starts at a whole
  row and that `ptr` is at most one call ahead of the screen; multiplication by
  the width is kept behind `RowStart`. That a row scrolls in without old text
  (`RowCleared`) is about single steps: a screen that moves down has just had the
  row below it filled (`LineFeedBlank`), also in the middle of a character that
  wraps.
* `VsprintfProofs`: `ArgumentsInStep`, `Types`, `Layout`, `Reading`, for words of any
  size from 32 values on and any calls that keep to `CallFits` (numbers in the
  format up to a quarter of the word's range) and have no asterisk; in
  `ArgumentsInStep` other calls with asterisks may be among them. With an
  asterisk the code takes other arguments than the caller passed it for (see
  `vsprintf_star`), and possibly more than there are, so the other theorems
  leave such calls out. TLC confirms on each run that the calls of `MCVsprintf`
  satisfy these hypotheses, but for those with asterisks and those with numbers
  that overflow (`TooLarge`), of which the run shows the same.
  That the arguments stay in step is not inductive: the invariant `InStep` says
  that the arguments taken and those still asked for from the parser's place
  are together those that were passed, where in the middle of a directive the
  place is that of the conversion it will come to, which flags, width, precision
  and qualifier do not change. The other two are about single conversions and
  need `IInv` only for the ranges of width, precision and argument. `AskedFrom`,
  the digits of a number, powers and the value of a text are recursive functions, of
  which the prover is not told that they exist: this is derived, as is
  the induction, from the well-foundedness of the subset ordering. Then
  `PlacesAre` counts the digits that the division loop produces, `NumberIs`
  and `ShapeIs` say where sign, prefix, zeros and blanks are, and `BareIs`,
  `DigitsBehind` and `ValueOfDigits` that a reader finds the digits and gets the
  number back.

Only model-checked: liveness (`ReadyDispatched`, `IdleRunsAgain`, `ClockServed`) and
everything that needs ENABLED, which this prover does not handle; and the two
runs that end in a counterexample. No module declares a recursive operator; where
a proof needs induction over data, it derives it for a *set* of numbers, as
said above, and uses it there.

## Not modelled

* Segments: `gdt_init()` copies the table of `setup.asm`, adds two descriptors
  that nothing uses and loads the table; it runs once, without input or
  choice. The copy takes `limit` bytes, which is all of the table only because
  `setup.asm:109` stores the size where the size less one is due.
* Paging: `virtual_memory_init()` is not called (`main.c:48`).
* Boot sector and disk loader, port and string helpers, the floppy example:
  they have no state of their own.
* `current_task_exit()` is never called; `print_check_memory_info()` only prints.
* General registers, but for what their loss does to `create_task()`; names,
  priorities, messages, and which character an entry of the keyboard table holds.
* A tick inside `kfree_s()` before its CLI, or in `get_free_page()` called with
  interrupts on by anybody but `kmalloc()`: the former only ends the call early,
  the latter does not happen.

## Plan

What was planned is done: every component with state of its own is modelled,
and every safety property of a passing run is a theorem, those of `Sched` as long
as no creation loses a register. What could come next:

1. Formats with asterisks: what they do ask of the arguments, as the code takes
   them, and `ArgsInStep` in those terms.
2. What a lost register does inside `sched()`, `task_exit()` and the heap, and an
   invariant of `Sched` that holds with garbled creations.
