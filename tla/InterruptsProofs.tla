--------------------------- MODULE InterruptsProofs ---------------------------
(***************************************************************************)
(* Proofs about Interrupts, for every set of lines, mask, set of faults    *)
(* and depth of nesting.  The inductive invariant says of every handler on *)
(* a stack, the one in use or the one saved for idle, which words it has   *)
(* there, from its vector and how far it is.                               *)
(***************************************************************************)
EXTENDS Interrupts, SequenceTheorems, TLAPS

\* The words that the CPU, the stubs and the macro push.
Pushable ==
  {"eip", "cs", "eflags", "error", "arg", "ecx", "ret", "index",
   "edi", "esi", "ebp", "esp", "ebx", "edx", "eax"}

Frame == [line : Int, v : 0 .. 255, pc : {"entry", "tail", "iret", "loop"},
          words : Seq(Pushable)]

\* What a handler has on the stack at its entry, when it goes on after the
\* function it calls, and when it executes IRET.
FrameSound(f) ==
  /\ f.pc = "entry" => f.words = Pushed(f.v)
  /\ f.pc = "tail" /\ Handler(f.v) \in {"default", "keymap"} =>
       f.words = <<"arg">> \o Return
  /\ f.pc = "iret" => f.words = Return

SoundFrames == {f \in Frame : FrameSound(f)}

\* Interrupts are on only when there is an IDT, which idt_init() loads before
\* the first printk(); so handlers and tasks exist only then.
GatesInv ==
  /\ boot \in 1 .. Len(BootSteps) + 1
  /\ idt \in BOOLEAN /\ IF_flag \in BOOLEAN
  /\ boot > 3 => idt
  /\ IF_flag \/ stack # <<>> \/ tss.stack # <<>> \/ owner = "task" => idt

StacksInv ==
  /\ stack \in Seq(SoundFrames)
  /\ tss \in [stack : Seq(SoundFrames), eip : {"eip"}, left : {<<>>}]

IInv == GatesInv /\ StacksInv /\ ReportExact

\* The gates of one vector each, and those whose stubs end with IRET.
LEMMA Handlers ==
  ASSUME NEW v \in 0 .. 255
  PROVE  /\ Handler(v) = "clock" <=> v = 32
         /\ Handler(v) = "exception" <=> v <= 21
         /\ Handler(v) # "exception" => Pushed(v) = Return
BY DEF Handler, Pushed, HasErrorCode

\* The lists of words are sequences; a word put on top is on top.
LEMMA Words ==
  /\ Return \in Seq(Pushable) /\ pushad \in Seq(Pushable)
  /\ MacroPushes \in Seq(Pushable) /\ Len(MacroPushes) = 10
  /\ \A w \in Pushable, s \in Seq(Pushable) :
       /\ <<w>> \o s \in Seq(Pushable)
       /\ Len(<<w>> \o s) = Len(s) + 1
       /\ (<<w>> \o s)[1] = w
       /\ \A n \in 1 .. Len(s) : (<<w>> \o s)[n + 1] = s[n]
       /\ Tail(<<w>> \o s) = s
  /\ \A v \in 0 .. 255 : Pushed(v) \in Seq(Pushable)
<1>1. Return \in Seq(Pushable) /\ pushad \in Seq(Pushable)
  BY DEF Return, pushad, Pushable
<1>2. MacroPushes \in Seq(Pushable) /\ Len(MacroPushes) = 10
  <2>1. <<"ret", "index">> \in Seq(Pushable) /\ Len(<<"ret", "index">>) = 2
        /\ Len(pushad) = 8
    BY DEF pushad, Pushable
  <2>2. /\ MacroPushes \in Seq(Pushable)
        /\ Len(MacroPushes) = Len(<<"ret", "index">>) + Len(pushad)
    BY <1>1, <2>1, ConcatProperties DEF MacroPushes
  <2>. QED  BY <2>1, <2>2
<1>3. ASSUME NEW w \in Pushable, NEW s \in Seq(Pushable)
      PROVE  /\ <<w>> \o s \in Seq(Pushable)
             /\ Len(<<w>> \o s) = Len(s) + 1
             /\ (<<w>> \o s)[1] = w
             /\ \A n \in 1 .. Len(s) : (<<w>> \o s)[n + 1] = s[n]
             /\ Tail(<<w>> \o s) = s
  <2>1. <<w>> \in Seq(Pushable) /\ Len(<<w>>) = 1 /\ <<w>>[1] = w
    OBVIOUS
  <2>2. Len(s) \in Nat
    BY LenProperties
  <2>3. /\ <<w>> \o s \in Seq(Pushable)
        /\ Len(<<w>> \o s) = 1 + Len(s)
        /\ \A i \in 1 .. 1 + Len(s) :
             (<<w>> \o s)[i] = IF i <= 1 THEN <<w>>[i] ELSE s[i - 1]
    BY <2>1, ConcatProperties
  <2>4. /\ (<<w>> \o s)[1] = w
        /\ \A n \in 1 .. Len(s) : (<<w>> \o s)[n + 1] = s[n]
    BY <2>1, <2>2, <2>3
  <2>5. <<w>> \o s # <<>>
    BY <2>2, <2>3
  <2>6. /\ Tail(<<w>> \o s) \in Seq(Pushable)
        /\ Len(Tail(<<w>> \o s)) = Len(s)
        /\ \A i \in 1 .. Len(s) : Tail(<<w>> \o s)[i] = s[i]
    BY <2>2, <2>3, <2>4, <2>5, HeadTailProperties
  <2>7. Tail(<<w>> \o s) = s
    BY <2>6, SeqEqual
  <2>. QED  BY <2>2, <2>3, <2>4, <2>7
<1>4. ASSUME NEW v \in 0 .. 255
      PROVE  Pushed(v) \in Seq(Pushable)
  BY <1>1, <1>3 DEF Pushed, Pushable
<1>. QED  BY <1>1, <1>2, <1>3, <1>4

\* The second part of a concatenation lies behind the first.
LEMMA Behind ==
  \A a, b \in Seq(Pushable) :
    \A n \in 1 .. Len(b) : (a \o b)[Len(a) + n] = b[n]
<1>  SUFFICES ASSUME NEW a \in Seq(Pushable), NEW b \in Seq(Pushable)
              PROVE  \A n \in 1 .. Len(b) : (a \o b)[Len(a) + n] = b[n]
  OBVIOUS
<1>1. \A n \in 1 .. Len(a) + Len(b) :
        (a \o b)[n] = IF n <= Len(a) THEN a[n] ELSE b[n - Len(a)]
  BY ConcatProperties
<1>2. Len(a) \in Nat /\ Len(b) \in Nat
  OBVIOUS
<1>3. ASSUME NEW n \in 1 .. Len(b)
      PROVE  (a \o b)[Len(a) + n] = b[n]
  <2>1. /\ Len(a) + n \in 1 .. Len(a) + Len(b)
        /\ ~(Len(a) + n <= Len(a)) /\ (Len(a) + n) - Len(a) = n
    BY <1>2
  <2>. QED  BY <1>1, <2>1
<1>. QED  BY <1>3

\* The innermost handler is one of those on the stack, and what is below it is
\* a stack.
LEMMA TopSound ==
  ASSUME StacksInv, ~Idle
  PROVE  /\ Top \in Frame /\ FrameSound(Top) /\ Below \in Seq(SoundFrames)
         /\ Len(stack) \in Nat \ {0}
<1>1. stack \in Seq(SoundFrames) /\ stack # <<>>
  BY DEF StacksInv, Idle
<1>2. Len(stack) \in Nat \ {0}
  BY <1>1, EmptySeq
<1>3. \A n \in 1 .. Len(stack) : stack[n] \in SoundFrames
  BY <1>1, ElementOfSeq
<1>4. Below \in Seq(SoundFrames)
  BY <1>2, <1>3, SubSeqProperties DEF Below
<1>. QED  BY <1>2, <1>3, <1>4 DEF Top, SoundFrames

\* A handler that goes on leaves a sound stack, if its own frame is sound.
LEMMA GoSound ==
  ASSUME StacksInv, ~Idle, NEW pc \in {"entry", "tail", "iret", "loop"},
         NEW words \in Seq(Pushable),
         FrameSound([Top EXCEPT !.pc = pc, !.words = words])
  PROVE  /\ Go(pc, words) \in Seq(SoundFrames)
         /\ Go(pc, words) # <<>>
<1>1. [Top EXCEPT !.pc = pc, !.words = words] \in SoundFrames
  BY TopSound DEF Frame, SoundFrames
<1>. QED  BY <1>1, TopSound, AppendProperties, EmptySeq DEF Go

\* kernel_main() loads the IDT in its third step and prints in the fourth.
LEMMA BootOrder ==
  /\ Len(BootSteps) = 5
  /\ \A n \in 1 .. 5 : /\ BootSteps[n] = "idt_init" <=> n = 3
                       /\ BootSteps[n] = "printk" <=> n = 4
BY DEF BootSteps

\* The invariant holds when kernel_main() starts.
LEMMA Initially ==
  ASSUME Init
  PROVE  IInv
<1>1. <<>> \in Seq(SoundFrames)
  BY EmptySeq
<1>2. GatesInv
  <2>1. boot \in 1 .. Len(BootSteps) + 1 /\ ~(boot > 3) /\ ~(boot > 4)
    BY BootOrder DEF Init
  <2>2. /\ idt \in BOOLEAN /\ IF_flag = FALSE
        /\ stack = <<>> /\ tss.stack = <<>> /\ owner # "task"
    BY DEF Init
  <2>3. IF_flag \in BOOLEAN
    BY <2>2
  <2>. QED  BY <2>1, <2>2, <2>3, Zenon DEF GatesInv
<1>. QED  BY <1>1, <1>2 DEF Init, IInv, StacksInv, ReportExact

\* Neither requests nor the steps of kernel_main() touch a stack.
LEMMA BootStepKeeps ==
  ASSUME IInv, BootStep
  PROVE  IInv'
<1>1. boot \in 1 .. 5 /\ boot' = boot + 1 /\ stack' = <<>>
  BY BootOrder DEF IInv, GatesInv, BootStep, Booted, Idle
<1>2. idt' = (idt \/ boot = 3) /\ IF_flag' = (IF_flag \/ boot = 4)
  BY <1>1, BootOrder DEF BootStep
<1>3. GatesInv'
  <2>1. /\ boot' \in 1 .. Len(BootSteps)' + 1
        /\ boot' > 3 => boot > 3 \/ boot = 3
        /\ boot = 4 => boot > 3
    BY <1>1, BootOrder DEF BootSteps
  <2>2. idt' \in BOOLEAN /\ IF_flag' \in BOOLEAN
    BY <1>2, Zenon DEF IInv, GatesInv
  <2>3. idt => idt'
    BY <1>2, Zenon
  <2>4. boot' > 3 => idt'
    BY <1>2, <2>1, Zenon DEF IInv, GatesInv
  <2>5. IF_flag' => idt'
    BY <1>2, <2>1, <2>3, Zenon DEF IInv, GatesInv
  <2>6. tss' = tss /\ owner' = owner /\ stack' = <<>>
    BY <1>1 DEF BootStep
  <2>7. tss'.stack # <<>> \/ owner' = "task" => idt'
    BY <2>3, <2>6, Zenon DEF IInv, GatesInv
  <2>. QED  BY <2>1, <2>2, <2>4, <2>5, <2>6, <2>7, Zenon DEF GatesInv
<1>. QED  BY <1>3 DEF IInv, StacksInv, ReportExact, BootStep

LEMMA RaiseKeeps ==
  ASSUME IInv, NEW line \in Lines, Raise(line)
  PROVE  IInv'
BY DEF IInv, GatesInv, StacksInv, ReportExact, Raise

\* A handler starts with the words the CPU pushes, and through a gate.
LEMMA InterruptKeeps ==
  ASSUME IInv, NEW line \in Int, NEW v \in 0 .. 255, Interrupt(line, v), idt
  PROVE  IInv'
<1>1. [line |-> line, v |-> v, pc |-> "entry", words |-> Pushed(v)] \in SoundFrames
  BY Words DEF Frame, FrameSound, SoundFrames
<1>2. stack' \in Seq(SoundFrames)
  BY <1>1, AppendProperties DEF IInv, StacksInv, Interrupt
<1>. QED  BY <1>2 DEF IInv, GatesInv, StacksInv, ReportExact, Interrupt

\* What the steps of a handler that goes on have in common.
LEMMA GoKeeps ==
  ASSUME IInv, ~Idle, NEW pc \in {"entry", "tail", "iret", "loop"},
         NEW words \in Seq(Pushable),
         FrameSound([Top EXCEPT !.pc = pc, !.words = words]),
         stack' = Go(pc, words), IF_flag' \in BOOLEAN,
         UNCHANGED <<boot, idt, owner>>
  PROVE  GatesInv' /\ stack' \in Seq(SoundFrames)
<1>1. stack' \in Seq(SoundFrames)
  BY GoSound DEF IInv
<1>2. idt
  BY DEF IInv, GatesInv, Idle
<1>. QED  BY <1>1, <1>2 DEF IInv, GatesInv

\* The argument lies on top of the words of the CPU.
LEMMA CallKeeps ==
  ASSUME IInv, DefaultHandler \/ KeymapHandler
  PROVE  IInv'
<1>1. ~Idle /\ Top.pc = "entry" /\ Handler(Top.v) \in {"default", "keymap"}
  BY DEF DefaultHandler, KeymapHandler, InHandler
<1>2. Top \in Frame /\ FrameSound(Top)
  BY <1>1, TopSound DEF IInv
<1>3. Top.words = Return
  BY <1>1, <1>2, Handlers DEF Frame, FrameSound
<1>4. <<"arg">> \o Return \in Seq(Pushable)
  BY Words DEF Pushable
<1>5. FrameSound([Top EXCEPT !.pc = "tail", !.words = <<"arg">> \o Return])
  BY <1>2 DEF Frame, FrameSound
<1>6. /\ stack' = Go("tail", <<"arg">> \o Return) /\ IF_flag' \in BOOLEAN
      /\ UNCHANGED <<boot, idt, owner, tss, shown>>
  BY <1>3 DEF DefaultHandler, KeymapHandler, printk, IInv, GatesInv
<1>7. GatesInv' /\ stack' \in Seq(SoundFrames)
  BY <1>1, <1>4, <1>5, <1>6, GoKeeps
<1>. QED  BY <1>6, <1>7 DEF IInv, StacksInv, ReportExact

\* Taking the argument off leaves them.
LEMMA DropArgumentKeeps ==
  ASSUME IInv, DropArgument
  PROVE  IInv'
<1>1. ~Idle /\ Top.pc = "tail" /\ Handler(Top.v) \in {"default", "keymap"}
  BY DEF DropArgument
<1>2. Top \in Frame /\ FrameSound(Top)
  BY <1>1, TopSound DEF IInv
<1>3. Top.words = <<"arg">> \o Return
  BY <1>1, <1>2 DEF FrameSound
<1>4. Tail(Top.words) = Return
  <2>1. "arg" \in Pushable
    BY DEF Pushable
  <2>. QED  BY <1>3, <2>1, Words
<1>5. FrameSound([Top EXCEPT !.pc = "iret", !.words = Return])
  BY <1>2 DEF Frame, FrameSound
<1>6. /\ stack' = Go("iret", Return) /\ IF_flag' = IF_flag
      /\ UNCHANGED <<boot, idt, owner, tss, shown>>
  BY <1>4 DEF DropArgument
<1>7. GatesInv' /\ stack' \in Seq(SoundFrames)
  BY <1>1, <1>5, <1>6, GoKeeps, Words DEF IInv, GatesInv
<1>. QED  BY <1>6, <1>7 DEF IInv, StacksInv, ReportExact

LEMMA IretKeeps ==
  ASSUME IInv, Iret
  PROVE  IInv'
<1>1. stack' \in Seq(SoundFrames)
  BY TopSound DEF IInv, Iret
<1>. QED  BY <1>1 DEF IInv, GatesInv, StacksInv, ReportExact, Iret, Idle

\* Without an error code the words of the CPU lie right behind the ten that the
\* macro and its call push.
LEMMA ExceptionHandlerKeeps ==
  ASSUME IInv, ExceptionHandler
  PROVE  IInv'
<1>1. ~Idle /\ Top.pc = "entry" /\ Handler(Top.v) = "exception"
  BY DEF ExceptionHandler, InHandler
<1>2. Top \in Frame /\ FrameSound(Top)
  BY <1>1, TopSound DEF IInv
<1>w. MacroPushes \o Top.words \in Seq(Pushable)
  BY <1>2, Words, ConcatProperties DEF Frame
<1>3. FrameSound([Top EXCEPT !.pc = "loop", !.words = MacroPushes \o Top.words])
  BY <1>2 DEF Frame, FrameSound
<1>4. /\ stack' = Go("loop", MacroPushes \o Top.words) /\ IF_flag' = TRUE
      /\ UNCHANGED <<boot, idt, owner, tss>>
  BY DEF ExceptionHandler, printk
<1>5. GatesInv' /\ stack' \in Seq(SoundFrames)
  BY <1>1, <1>w, <1>3, <1>4, GoKeeps
<1>6. ReportExact'
  <2>1. ASSUME ~HasErrorCode(Top.v)
        PROVE  shown'.words = Return
    <3>1. Top.words = Return
      BY <1>1, <1>2, <2>1 DEF FrameSound, Pushed
    <3>2. Return \in Seq(Pushable) /\ Len(Return) = 3
          /\ Return[1] = "eip" /\ Return[2] = "cs" /\ Return[3] = "eflags"
      BY DEF Return, Pushable
    <3>3. /\ (MacroPushes \o Return)[11] = "eip"
          /\ (MacroPushes \o Return)[12] = "cs"
          /\ (MacroPushes \o Return)[13] = "eflags"
      <4>1. \A n \in 1 .. Len(Return) :
                (MacroPushes \o Return)[10 + n] = Return[n]
        <5>1. MacroPushes \in Seq(Pushable) /\ Len(MacroPushes) = 10
          BY Words
        <5>2. \A n \in 1 .. Len(Return) :
                (MacroPushes \o Return)[Len(MacroPushes) + n] = Return[n]
          BY <3>2, <5>1, Behind, Zenon
        <5>. QED  BY <5>1, <5>2, Zenon
      <4>2. /\ (MacroPushes \o Return)[10 + 1] = "eip"
            /\ (MacroPushes \o Return)[10 + 2] = "cs"
            /\ (MacroPushes \o Return)[10 + 3] = "eflags"
        <5>1. 1 \in 1 .. 3 /\ 2 \in 1 .. 3 /\ 3 \in 1 .. 3
          OBVIOUS
        <5>. QED  BY <3>2, <4>1, <5>1, Zenon
      <4>  DEFINE w == MacroPushes \o Return
      <4>3. w[10 + 1] = "eip" /\ w[10 + 2] = "cs" /\ w[10 + 3] = "eflags"
        BY <4>2
      <4>4. w[11] = "eip" /\ w[12] = "cs" /\ w[13] = "eflags"
        <5>  HIDE DEF w
        <5>. QED  BY <4>3
      <4>. QED  BY <4>4
    <3>4. shown'.words = <<(MacroPushes \o Return)[11],
                           (MacroPushes \o Return)[12],
                           (MacroPushes \o Return)[13]>>
      <4>1. shown'.words = <<(MacroPushes \o Top.words)[10 + 1],
                             (MacroPushes \o Top.words)[11 + 1],
                             (MacroPushes \o Top.words)[12 + 1]>>
        BY DEF ExceptionHandler
      <4>. QED  BY <3>1, <4>1
    <3>. QED  BY <3>3, <3>4 DEF Return
  <2>2. shown'.v = Top.v
    BY DEF ExceptionHandler
  <2>. QED  BY <2>1, <2>2 DEF ReportExact
<1>. QED  BY <1>4, <1>5, <1>6 DEF IInv, StacksInv

\* The clock stub pushes one word and skips four, so that nothing of the
\* interrupt is left on the stack it saves.
LEMMA ClockHandlerKeeps ==
  ASSUME IInv, ClockHandler
  PROVE  IInv'
<1>1. ~Idle /\ Top.pc = "entry" /\ Handler(Top.v) = "clock"
  BY DEF ClockHandler, InHandler
<1>2. Top \in Frame /\ FrameSound(Top) /\ Below \in Seq(SoundFrames)
  BY <1>1, TopSound DEF IInv
<1>3. Top.words = Return
  BY <1>1, <1>2, Handlers DEF Frame, FrameSound
<1>4. /\ <<"ecx">> \o Return \in Seq(Pushable) /\ Len(<<"ecx">> \o Return) = 4
      /\ (<<"ecx">> \o Return)[2] = "eip"
  <2>1. Len(Return) = 3 /\ Return[1] = "eip" /\ Return \in Seq(Pushable)
    BY DEF Return, Pushable
  <2>2. "ecx" \in Pushable
    BY DEF Pushable
  <2>3. (<<"ecx">> \o Return)[1 + 1] = Return[1]
    <3>1. \A n \in 1 .. Len(Return) : (<<"ecx">> \o Return)[n + 1] = Return[n]
      BY <2>1, <2>2, Words
    <3>. QED  BY <2>1, <3>1
  <2>4. /\ <<"ecx">> \o Return \in Seq(Pushable)
        /\ Len(<<"ecx">> \o Return) = Len(Return) + 1
    BY <2>1, <2>2, Words
  <2>. QED  BY <2>1, <2>3, <2>4
<1>5. esp0(<<"ecx">> \o Return) = <<>>
  BY <1>4, SubSeqEmpty DEF esp0
<1>6. \/ tss' = tss
      \/ tss' = [stack |-> Below, eip |-> "eip", left |-> <<>>]
  BY <1>3, <1>4, <1>5 DEF ClockHandler
<1>7. tss' \in [stack : Seq(SoundFrames), eip : {"eip"}, left : {<<>>}]
  BY <1>2, <1>6 DEF IInv, StacksInv
<1>8. PICK words \in Seq(Pushable) : stack' = Go("tail", words)
  <2>1. \A s \in Seq(Pushable) : <<"arg">> \o s \in Seq(Pushable)
    BY Words DEF Pushable
  <2>2. stack' = Go("tail", <<"arg">> \o (<<"ecx">> \o Return))
        \/ stack' = Go("tail", <<"arg">> \o Return)
    BY <1>3 DEF ClockHandler
  <2>. QED  BY <1>4, <2>1, <2>2, Words
<1>9. FrameSound([Top EXCEPT !.pc = "tail", !.words = words])
  BY <1>1, <1>2 DEF Frame, FrameSound
<1>10. IF_flag' = TRUE /\ UNCHANGED <<boot, idt, owner, shown>>
  BY DEF ClockHandler, printk
<1>11. stack' \in Seq(SoundFrames)
  BY <1>1, <1>8, <1>9, GoSound DEF IInv
<1>12. GatesInv'
  BY <1>1, <1>10 DEF IInv, GatesInv, Idle
<1>. QED  BY <1>7, <1>10, <1>11, <1>12 DEF IInv, StacksInv, ReportExact

\* A dispatch goes to a stack that is sound because it was when it was saved.
LEMMA DispatchKeeps ==
  ASSUME IInv, Dispatch
  PROVE  IInv'
<1>1. <<>> \in Seq(SoundFrames)
  BY EmptySeq
<1>2. stack' \in Seq(SoundFrames)
  BY <1>1 DEF IInv, StacksInv, Dispatch
<1>3. idt
  BY DEF IInv, GatesInv, Dispatch, InHandler, Idle
<1>. QED  BY <1>2, <1>3 DEF IInv, GatesInv, StacksInv, ReportExact, Dispatch

\* The invariant is inductive.
LEMMA StepKeeps ==
  ASSUME IInv, [Next]_vars
  PROVE  IInv'
<1>1. CASE BootStep  BY <1>1, BootStepKeeps
<1>2. CASE DefaultHandler \/ KeymapHandler  BY <1>2, CallKeeps
<1>3. CASE DropArgument  BY <1>3, DropArgumentKeeps
<1>4. CASE Iret  BY <1>4, IretKeeps
<1>5. CASE ExceptionHandler  BY <1>5, ExceptionHandlerKeeps
<1>6. CASE ClockHandler  BY <1>6, ClockHandlerKeeps
<1>7. CASE Dispatch  BY <1>7, DispatchKeeps
<1>8. CASE Spurious
  <2>1. Interrupt(-1, SpuriousVector) /\ idt /\ SpuriousVector \in 0 .. 255
    BY <1>8 DEF Spurious, IInv, GatesInv, SpuriousVector, Vector
  <2>. QED  BY <2>1, InterruptKeeps
<1>9. ASSUME NEW line \in Lines, Raise(line)
      PROVE  IInv'
  BY <1>9, RaiseKeeps
<1>10. ASSUME NEW line \in Lines, Accept(line)
       PROVE  IInv'
  <2>1. line \in Int /\ Vector(line) \in 0 .. 255
    BY InterruptsAssumption DEF Vector
  <2>2. Interrupt(line, Vector(line)) /\ idt
    BY <1>10 DEF Accept, IInv, GatesInv
  <2>. QED  BY <2>1, <2>2, InterruptKeeps
<1>11. ASSUME NEW v \in Faults, Fault(v)
       PROVE  IInv'
  <2>1. v \in 0 .. 255
    BY InterruptsAssumption
  <2>2. Interrupt(-2, v) /\ idt
    BY <1>11 DEF Fault, IInv, GatesInv, Booted, BootSteps
  <2>. QED  BY <2>1, <2>2, InterruptKeeps
<1>12. CASE UNCHANGED vars
  BY <1>12 DEF vars, IInv, GatesInv, StacksInv, ReportExact
<1>. QED
  BY <1>1, <1>2, <1>3, <1>4, <1>5, <1>6, <1>7, <1>8, <1>9, <1>10, <1>11, <1>12
     DEF Next, HandlerStep

-----------------------------------------------------------------------------
\* However deep handlers nest through the STI of printk(), and on whichever
\* stack, each IRET finds what the CPU pushed, and no handler runs without an IDT.
THEOREM IretFinds ==
  Spec => []IretSound
<1>1. IInv => IretSound
  <2>1. ASSUME IInv, NEW d \in 1 .. Len(stack)
        PROVE  idt /\ (stack[d].pc = "iret" => stack[d].words = Return)
    <3>1. stack[d] \in SoundFrames
      BY <2>1, ElementOfSeq DEF IInv, StacksInv
    <3>2. stack # <<>>
      BY <2>1, EmptySeq
    <3>. QED  BY <2>1, <3>1, <3>2 DEF IInv, GatesInv, SoundFrames, FrameSound
  <2>. QED  BY <2>1 DEF IretSound
<1>. QED  BY <1>1, Initially, StepKeeps, PTL DEF Spec

\* What a tick saves for idle is the interrupted place and the stack as it was.
THEOREM SavesExactly ==
  Spec => []SavedExact
<1>1. IInv => SavedExact
  BY DEF IInv, StacksInv, SavedExact
<1>. QED  BY <1>1, Initially, StepKeeps, PTL DEF Spec

\* The report of an exception without an error code shows the interrupted place.
THEOREM ReportsExactly ==
  Spec => []ReportExact
<1>1. IInv => ReportExact
  BY DEF IInv
<1>. QED  BY <1>1, Initially, StepKeeps, PTL DEF Spec
=============================================================================
