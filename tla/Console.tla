------------------------------- MODULE Console -------------------------------
(***************************************************************************)
(* The text console (kernel/chr_drv/console.c): a screen of HEIGHT rows    *)
(* that moves through the video memory, and console_write(), character by  *)
(* character.  Both run with interrupts off, so no other step comes        *)
(* between two characters.  An address is the index of a 16-bit cell of    *)
(* the video memory, counted from MEM_BASE.                                *)
(*                                                                         *)
(* console_write() keeps two cursors: `pos', which the control characters  *)
(* move, and its local `ptr', where text is stored, which is set to pos    *)
(* once, on entry, and from then on only counts the text.                  *)
(***************************************************************************)
EXTENDS Integers

CONSTANTS
  WIDTH, HEIGHT,  \* the screen
  MEM_SIZE,       \* the cells of video memory the console claims
  MaxCount        \* bound: the length of a call (buf of printk has 1024)

ASSUME ConsoleAssumption ==
  /\ WIDTH \in Nat \ {0} /\ HEIGHT \in Nat \ {0}
  /\ MEM_SIZE \in Nat /\ MaxCount \in Nat
  /\ HEIGHT * WIDTH <= MEM_SIZE

VARIABLES
  con,      \* the driver's and the controller's state, see Console
  writing,  \* console_write() is executing
  count,    \* its argument: the characters still to come
  ptr,      \* its local: where the next text character is stored
  inStep,   \* history: nothing since entry made pos move without ptr
  far       \* history: no cell at or above this address was ever written

vars == <<con, writing, count, ptr, inStep, far>>

RowStart(r) == r * WIDTH   \* the offset of row r on the screen
SCR_SIZE == RowStart(HEIGHT)
Cells == 0 .. MEM_SIZE - 1

\* What the cells show ("zero" is the cell 0x0000, which looks like a blank).
Video == [Cells -> {"blank", "zero", "text"}]

\* screen, pos, x, y are the statics of that name; start and cursor are the
\* CRT controller's registers.
Console == [screen : Nat, pos : Nat, x : 0 .. WIDTH, y : 0 .. HEIGHT - 1,
            start : Nat, cursor : Nat,
            video : Video]

Larger(a, b) == IF a < b THEN b ELSE a

\* The state after storing `what' in the cell at address a.
Store(c, a, what) ==
  [c EXCEPT !.video = [i \in Cells |-> IF i = a THEN what ELSE @[i]]]

console_clear ==
  [screen |-> 0, pos |-> 0, x |-> 0, y |-> 0, start |-> 0, cursor |-> 0,
   video |-> [i \in Cells |-> "blank"]]

Init ==
  /\ con = console_clear
  /\ writing = FALSE
  /\ count = 0
  /\ ptr = 0
  /\ inStep = TRUE
  /\ far = MEM_SIZE

-----------------------------------------------------------------------------
(***************************************************************************)
(* The cursor commands, as functions of the driver's state.                *)
(***************************************************************************)
RoomBelow(c) == c.screen + SCR_SIZE + WIDTH < MEM_SIZE

\* The fill stores WIDTH double words, that is two rows of cells.
FillEnd(c) == c.screen + SCR_SIZE + 2 * WIDTH

Filled(c) ==
  [i \in Cells |-> LET n == i - (c.screen + SCR_SIZE)
                   IN  IF i < c.screen + SCR_SIZE \/ i >= FillEnd(c)
                         THEN c.video[i]
                         ELSE IF n % 2 = 0 THEN "blank" ELSE "zero"]

\* memcpy of the whole screen to the start of the video memory.
CopiedBack(c) ==
  [i \in Cells |-> IF i < SCR_SIZE THEN c.video[c.screen + i] ELSE c.video[i]]

\* A mutant: the row that scrolls in is not cleared.
scroll_up_uncleared(c) ==
  IF RoomBelow(c)
    THEN [c EXCEPT !.screen = @ + WIDTH, !.pos = @ + WIDTH,
                   !.start = c.screen + WIDTH]
    ELSE [c EXCEPT !.screen = 0, !.pos = @ - c.screen, !.start = 0,
                   !.video = CopiedBack(c)]

\* A mutant: the copy back forgets to tell the CRT controller.
scroll_up_unset(c) ==
  IF RoomBelow(c)
    THEN [c EXCEPT !.screen = @ + WIDTH, !.pos = @ + WIDTH,
                   !.start = c.screen + WIDTH, !.video = Filled(c)]
    ELSE [c EXCEPT !.screen = 0, !.pos = @ - c.screen, !.video = CopiedBack(c)]

\* At the end of the memory the screen goes back to its start, row for row:
\* the cursor stays on the last row and nothing is cleared.
scroll_up(c) ==
  IF RoomBelow(c)
    THEN [c EXCEPT !.screen = @ + WIDTH, !.pos = @ + WIDTH,
                   !.start = c.screen + WIDTH, !.video = Filled(c)]
    ELSE [c EXCEPT !.screen = 0, !.pos = @ - c.screen, !.start = 0,
                   !.video = CopiedBack(c)]

command_lf(c) ==
  IF c.y + 1 < HEIGHT THEN [c EXCEPT !.y = @ + 1, !.pos = @ + WIDTH]
  ELSE scroll_up(c)

command_cr(c) == [c EXCEPT !.x = 0, !.pos = @ - c.x]

command_bs(c) ==
  IF c.x = 0 THEN c
  ELSE Store([c EXCEPT !.x = @ - 1, !.pos = @ - 1], c.pos - 1, "blank")

command_del(c) == Store(c, c.pos, "blank")

\* A mutant: a full row is left without going back to its first column.
Wrapped_down(c) ==
  IF c.x >= WIDTH THEN command_lf([c EXCEPT !.x = @ - WIDTH]) ELSE c

\* What precedes a text character when the row is full.
Wrapped(c) ==
  IF c.x >= WIDTH
    THEN command_lf([c EXCEPT !.x = @ - WIDTH, !.pos = @ - WIDTH])
    ELSE c

\* Whether a line feed in state c scrolls within the video memory.
Scrolls(c) == c.y + 1 = HEIGHT /\ RoomBelow(c)
CopiesBack(c) == c.y + 1 = HEIGHT /\ ~RoomBelow(c)

-----------------------------------------------------------------------------
(***************************************************************************)
(* console_write().                                                        *)
(***************************************************************************)
\* A mutant: ptr is kept from one call to the next.
Enter_kept ==
  /\ ~writing
  /\ writing' = TRUE
  /\ count' \in 0 .. MaxCount
  /\ inStep' = TRUE
  /\ UNCHANGED <<con, ptr, far>>

Enter ==
  /\ ~writing
  /\ writing' = TRUE
  /\ count' \in 0 .. MaxCount
  /\ ptr' = con.pos
  /\ inStep' = TRUE
  /\ UNCHANGED <<con, far>>

NextChar == writing /\ count > 0 /\ count' = count - 1 /\ writing' = writing

\* A control character: the new state is c; the fill is the only store that
\* can go beyond the memory.
Control(c, scrolls) ==
  /\ NextChar
  /\ con' = c
  /\ inStep' = (inStep /\ c.pos = con.pos)
  /\ far' = IF scrolls THEN Larger(far, FillEnd(con)) ELSE far
  /\ ptr' = ptr

\* NUL, BEL, HT, VT.
Ignored == Control(con, FALSE)
Backspace == Control(command_bs(con), FALSE)
LineFeed == Control(command_cr(command_lf(con)), Scrolls(con))
FormFeed == Control(command_lf(con), Scrolls(con))
CarriageReturn == Control(command_cr(con), FALSE)
Delete == Control(command_del(con), FALSE)

\* A mutant: text is stored without advancing ptr over the row's end.
Text_stuck ==
  LET c == Wrapped(con)
  IN  /\ NextChar
      /\ con' = Store([c EXCEPT !.x = @ + 1, !.pos = @ + 1], ptr, "text")
      /\ ptr' = IF con.x >= WIDTH THEN ptr ELSE ptr + 1
      /\ UNCHANGED <<inStep, far>>

Text ==
  LET wraps == con.x >= WIDTH
      c == Wrapped(con)
  IN  /\ NextChar
      /\ con' = Store([c EXCEPT !.x = @ + 1, !.pos = @ + 1], ptr, "text")
      /\ ptr' = ptr + 1
      /\ inStep' = (inStep /\ ~(wraps /\ CopiesBack(con)))
      /\ far' = Larger(ptr + 1, IF wraps /\ Scrolls(con)
                                  THEN Larger(far, FillEnd(con)) ELSE far)

Leave ==
  /\ writing /\ count = 0
  /\ con' = [con EXCEPT !.cursor = con.pos]
  /\ writing' = FALSE
  /\ UNCHANGED <<count, ptr, inStep, far>>

Next == \/ Enter \/ Leave
        \/ Ignored \/ Backspace \/ LineFeed \/ FormFeed \/ CarriageReturn
        \/ Delete \/ Text

Spec == Init /\ [][Next]_vars

-----------------------------------------------------------------------------
(***************************************************************************)
(* Properties.                                                             *)
(***************************************************************************)

\* Every variable has its type; in particular x and y stay on the screen.
TypeOK ==
  /\ con \in Console
  /\ writing \in BOOLEAN
  /\ count \in 0 .. MaxCount
  /\ ptr \in Nat
  /\ inStep \in BOOLEAN
  /\ far \in Nat

\* The three descriptions of the cursor agree, however wraps, scrolls and
\* control characters follow each other, and the screen stays in the memory.
\* What the CRT controller displays is the screen the driver means, and
\* between calls its cursor is where the next text will go.
CursorConsistent ==
  /\ con.pos = con.screen + RowStart(con.y) + con.x
  /\ con.screen + SCR_SIZE <= MEM_SIZE
  /\ con.start = con.screen
  /\ ~writing => con.cursor = con.pos

\* Text goes where the cursor is, as long as no control character moved the
\* cursor and the screen was not copied back since console_write() was entered.
TextAtCursor == writing /\ inStep => ptr = con.pos

\* Stores never go further beyond the memory than one row (the fill), or the
\* length of one call (text stored through an outdated ptr).
OverrunBounded == far <= MEM_SIZE + Larger(WIDTH, MaxCount)

\* When the screen moves down by a row, that row shows no old text, whatever
\* the memory held there from an earlier pass; a character stored by the same
\* step excepted.
NewRowBlank ==
  [][con'.screen > con.screen =>
       \A i \in con'.screen + SCR_SIZE - WIDTH .. con'.screen + SCR_SIZE - 1 :
         con'.video[i] = "text" => i = ptr /\ ptr' # ptr]_vars
=============================================================================
