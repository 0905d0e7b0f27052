---------------------------- MODULE ConsoleProofs ----------------------------
(***************************************************************************)
(* Proofs about Console, for every size of screen and video memory.  The   *)
(* commands are functions on records, so each first gets a lemma naming    *)
(* the fields it changes; the multiplication in RowStart is dealt with in  *)
(* Rows and nowhere else.                                                  *)
(***************************************************************************)
EXTENDS Console, TLAPS

\* The state c is one in which everything said about the cursor agrees.
Good(c) ==
  /\ c \in Console
  /\ c.pos = c.screen + RowStart(c.y) + c.x
  /\ c.screen + SCR_SIZE <= MEM_SIZE
  /\ c.start = c.screen

\* Rows are laid out one after the other, and every one fits on the screen.
LEMMA Rows ==
  /\ SCR_SIZE \in Nat /\ SCR_SIZE <= MEM_SIZE
  /\ RowStart(0) = 0
  /\ \A r \in 0 .. HEIGHT - 1 : /\ RowStart(r) \in Nat
                                /\ RowStart(r + 1) = RowStart(r) + WIDTH
                                /\ RowStart(r) + WIDTH <= SCR_SIZE
<1>1. SCR_SIZE \in Nat /\ SCR_SIZE <= MEM_SIZE /\ RowStart(0) = 0
  BY ConsoleAssumption DEF SCR_SIZE, RowStart
<1>2. ASSUME NEW r \in 0 .. HEIGHT - 1
      PROVE  /\ RowStart(r) \in Nat
             /\ RowStart(r + 1) = RowStart(r) + WIDTH
             /\ RowStart(r) + WIDTH <= SCR_SIZE
  <2>1. WIDTH \in Nat /\ HEIGHT \in Nat /\ r \in Nat /\ HEIGHT - 1 - r \in Nat
    BY ConsoleAssumption
  <2>2. r * WIDTH \in Nat /\ (r + 1) * WIDTH = r * WIDTH + WIDTH
    BY <2>1
  <2>3. (HEIGHT - 1 - r) * WIDTH \in Nat
    BY <2>1
  <2>4. (HEIGHT - 1 - r) * WIDTH = HEIGHT * WIDTH - (r * WIDTH + WIDTH)
    BY <2>1
  <2>5. HEIGHT * WIDTH \in Nat
    BY <2>1
  <2>. QED  BY <2>1, <2>2, <2>3, <2>4, <2>5 DEF SCR_SIZE, RowStart
<1>. QED  BY <1>1, <1>2

\* The three ways in which the cursor commands change the state.
Down(c, y, p) == [c EXCEPT !.y = y, !.pos = p]
Aside(c, x, p) == [c EXCEPT !.x = x, !.pos = p]
Scrolled(c, s, p, v) ==
  [c EXCEPT !.screen = s, !.pos = p, !.start = s, !.video = v]

\* What moving to another row changes, and what it leaves alone.
LEMMA DownFields ==
  ASSUME NEW c \in Console, NEW y \in 0 .. HEIGHT - 1, NEW p \in Nat
  PROVE  /\ Down(c, y, p) \in Console
         /\ Down(c, y, p).x = c.x /\ Down(c, y, p).y = y
         /\ Down(c, y, p).pos = p
         /\ Down(c, y, p).screen = c.screen /\ Down(c, y, p).start = c.start
         /\ Down(c, y, p).cursor = c.cursor
<1>1. ASSUME NEW d, d = Down(c, y, p)
      PROVE  /\ d \in Console
         /\ d.x = c.x /\ d.y = y /\ d.pos = p
         /\ d.screen = c.screen /\ d.start = c.start
         /\ d.cursor = c.cursor
  BY <1>1 DEF Console, Down
<1>. QED  BY <1>1

\* What moving within the row changes, and what it leaves alone.
LEMMA AsideFields ==
  ASSUME NEW c \in Console, NEW x \in 0 .. WIDTH, NEW p \in Nat
  PROVE  /\ Aside(c, x, p) \in Console
         /\ Aside(c, x, p).x = x /\ Aside(c, x, p).y = c.y
         /\ Aside(c, x, p).pos = p
         /\ Aside(c, x, p).screen = c.screen /\ Aside(c, x, p).start = c.start
         /\ Aside(c, x, p).cursor = c.cursor
<1>1. ASSUME NEW d, d = Aside(c, x, p)
      PROVE  /\ d \in Console
         /\ d.x = x /\ d.y = c.y /\ d.pos = p
         /\ d.screen = c.screen /\ d.start = c.start
         /\ d.cursor = c.cursor
  BY <1>1 DEF Console, Aside
<1>. QED  BY <1>1

\* What moving the screen changes, and what it leaves alone.
LEMMA ScrolledFields ==
  ASSUME NEW c \in Console, NEW s \in Nat, NEW p \in Nat, NEW v \in Video
  PROVE  /\ Scrolled(c, s, p, v) \in Console
         /\ Scrolled(c, s, p, v).x = c.x /\ Scrolled(c, s, p, v).y = c.y
         /\ Scrolled(c, s, p, v).pos = p
         /\ Scrolled(c, s, p, v).screen = s /\ Scrolled(c, s, p, v).start = s
         /\ Scrolled(c, s, p, v).cursor = c.cursor
<1>1. ASSUME NEW d, d = Scrolled(c, s, p, v)
      PROVE  /\ d \in Console
         /\ d.x = c.x /\ d.y = c.y /\ d.pos = p
         /\ d.screen = s /\ d.start = s
         /\ d.cursor = c.cursor
  BY <1>1 DEF Console, Scrolled
<1>. QED  BY <1>1

\* Showing something in a cell disturbs no cursor.
LEMMA StoreGood ==
  ASSUME NEW c, Good(c), NEW a, NEW what \in {"blank", "zero", "text"}
  PROVE  /\ Good(Store(c, a, what)) /\ Store(c, a, what).cursor = c.cursor
         /\ Store(c, a, what).pos = c.pos
<1>. DEFINE v == [i \in Cells |-> IF i = a THEN what ELSE c.video[i]]
<1>1. v \in Video
  BY DEF Good, Console, Video
<1>2. Store(c, a, what) = [c EXCEPT !.video = v]
  BY DEF Store
<1>. HIDE DEF v
<1>. QED  BY <1>1, <1>2 DEF Good, Console

\* A line feed keeps the cursor consistent, whether it goes down a row, scrolls
\* or copies the screen back; only the last makes pos jump.
LEMMA LineFeedGood ==
  ASSUME NEW c, Good(c)
  PROVE  /\ Good(command_lf(c)) /\ command_lf(c).cursor = c.cursor
         /\ command_lf(c).x = c.x
         /\ ~CopiesBack(c) => command_lf(c).pos = c.pos + WIDTH
<1>c. c \in Console
  BY DEF Good
<1>0. /\ c.x \in 0 .. WIDTH /\ c.y \in 0 .. HEIGHT - 1
      /\ c.screen \in Nat /\ c.pos \in Nat /\ c.video \in Video
      /\ WIDTH \in Nat /\ HEIGHT \in Nat /\ MEM_SIZE \in Nat
      /\ c.pos = c.screen + RowStart(c.y) + c.x
      /\ c.start = c.screen /\ c.screen + SCR_SIZE <= MEM_SIZE
  BY ConsoleAssumption DEF Good, Console
<1>1. CASE c.y + 1 < HEIGHT
  <2>1. command_lf(c) = Down(c, c.y + 1, c.pos + WIDTH)
    BY <1>1 DEF command_lf, Down
  <2>2. c.y + 1 \in 0 .. HEIGHT - 1 /\ c.pos + WIDTH \in Nat
    BY <1>0, <1>1
  <2>3. LET d == command_lf(c)
        IN  /\ d \in Console /\ d.x = c.x /\ d.y = c.y + 1
            /\ d.pos = c.pos + WIDTH
            /\ d.screen = c.screen /\ d.start = c.start
            /\ d.cursor = c.cursor
    BY <1>c, <2>1, <2>2, DownFields
  <2>4. RowStart(c.y + 1) = RowStart(c.y) + WIDTH /\ RowStart(c.y) \in Nat
    BY <1>0, Rows
  <2>. QED  BY <1>0, <2>3, <2>4 DEF Good
<1>2. CASE ~(c.y + 1 < HEIGHT) /\ RoomBelow(c)
  <2>1. Filled(c) \in Video
    BY <1>0 DEF Filled, Video
  <2>2. command_lf(c)
          = Scrolled(c, c.screen + WIDTH, c.pos + WIDTH, Filled(c))
    BY <1>2 DEF command_lf, scroll_up, Scrolled
  <2>3. c.screen + WIDTH \in Nat /\ c.pos + WIDTH \in Nat
    BY <1>0
  <2>4. LET d == command_lf(c)
        IN  /\ d \in Console /\ d.x = c.x /\ d.y = c.y
            /\ d.pos = c.pos + WIDTH
            /\ d.screen = c.screen + WIDTH /\ d.start = c.screen + WIDTH
            /\ d.cursor = c.cursor
    BY <1>c, <2>1, <2>2, <2>3, ScrolledFields
  <2>5. c.screen + WIDTH + SCR_SIZE <= MEM_SIZE /\ RowStart(c.y) \in Nat
    BY <1>0, <1>2, Rows DEF RoomBelow
  <2>. QED  BY <1>0, <2>4, <2>5 DEF Good
<1>3. CASE ~(c.y + 1 < HEIGHT) /\ ~RoomBelow(c)
  <2>1. CopiedBack(c) \in Video
    <3>1. \A i \in Cells : i < SCR_SIZE => c.screen + i \in Cells
      BY <1>0, Rows DEF Cells
    <3>. QED  BY <1>0, <3>1 DEF CopiedBack, Video
  <2>2. command_lf(c) = Scrolled(c, 0, c.pos - c.screen, CopiedBack(c))
    BY <1>3 DEF command_lf, scroll_up, Scrolled
  <2>3. c.pos - c.screen = RowStart(c.y) + c.x
    BY <1>0, Rows
  <2>5. c.pos - c.screen \in Nat /\ 0 \in Nat
    BY <1>0, <2>3, Rows
  <2>4. LET d == command_lf(c)
        IN  /\ d \in Console /\ d.x = c.x /\ d.y = c.y
            /\ d.pos = c.pos - c.screen /\ d.screen = 0 /\ d.start = 0
            /\ d.cursor = c.cursor
    BY <1>c, <2>1, <2>2, <2>5, ScrolledFields
  <2>6. CopiesBack(c)
    BY <1>0, <1>3 DEF CopiesBack
  <2>. QED  BY <1>0, <2>3, <2>4, <2>6, Rows DEF Good
<1>. QED BY <1>1, <1>2, <1>3

\* Moving x and pos by the same amount keeps the cursor consistent.
LEMMA AsideGood ==
  ASSUME NEW c, Good(c), NEW x \in 0 .. WIDTH, NEW p, p = c.pos + x - c.x
  PROVE  /\ Good(Aside(c, x, p)) /\ Aside(c, x, p).x = x
         /\ Aside(c, x, p).cursor = c.cursor /\ p \in Nat
         /\ Aside(c, x, p).pos = p
         /\ CopiesBack(Aside(c, x, p)) <=> CopiesBack(c)
<1>c. c \in Console
  BY DEF Good
<1>1. /\ c.x \in 0 .. WIDTH /\ c.y \in 0 .. HEIGHT - 1
      /\ c.screen \in Nat /\ c.pos \in Nat /\ WIDTH \in Nat /\ HEIGHT \in Nat
      /\ c.pos = c.screen + RowStart(c.y) + c.x
  BY ConsoleAssumption DEF Good, Console
<1>2. p = c.screen + RowStart(c.y) + x
  BY <1>1, Rows
<1>4. p \in Nat
  BY <1>1, <1>2, Rows
<1>3. LET d == Aside(c, x, p)
      IN  /\ d \in Console /\ d.x = x /\ d.y = c.y /\ d.pos = p
          /\ d.screen = c.screen /\ d.start = c.start
          /\ d.cursor = c.cursor
  BY <1>c, <1>4, AsideFields
<1>. QED  BY <1>2, <1>3, <1>4 DEF Good, CopiesBack, RoomBelow

\* So does a carriage return,
LEMMA ReturnGood ==
  ASSUME NEW c, Good(c)
  PROVE  Good(command_cr(c)) /\ command_cr(c).cursor = c.cursor
<1>1. c.x \in 0 .. WIDTH /\ c.pos \in Nat /\ WIDTH \in Nat
  BY ConsoleAssumption DEF Good, Console
<1>2. command_cr(c) = Aside(c, 0, c.pos - c.x)
  BY DEF command_cr, Aside
<1>3. c.pos - c.x = c.pos + 0 - c.x /\ 0 \in 0 .. WIDTH
  BY <1>1
<1>. QED  BY <1>2, <1>3, AsideGood

\* a backspace, which stops at the first column,
LEMMA BackspaceGood ==
  ASSUME NEW c, Good(c)
  PROVE  Good(command_bs(c)) /\ command_bs(c).cursor = c.cursor
<1>1. c.x \in 0 .. WIDTH /\ c.pos \in Nat /\ WIDTH \in Nat
  BY ConsoleAssumption DEF Good, Console
<1>2. CASE c.x # 0
  <2>1. command_bs(c) = Store(Aside(c, c.x - 1, c.pos - 1), c.pos - 1, "blank")
    BY <1>2 DEF command_bs, Aside
  <2>2. c.pos - 1 = c.pos + (c.x - 1) - c.x /\ c.x - 1 \in 0 .. WIDTH
    BY <1>1, <1>2
  <2>. QED  BY <2>1, <2>2, AsideGood, StoreGood
<1>. QED  BY <1>2 DEF command_bs

\* and a step to the right while there is a column left.
LEMMA AdvanceGood ==
  ASSUME NEW c, Good(c), c.x \in 0 .. WIDTH - 1
  PROVE  LET d == Aside(c, c.x + 1, c.pos + 1)
         IN  Good(d) /\ d.pos = c.pos + 1
<1>1. c.pos \in Nat /\ WIDTH \in Nat
  BY ConsoleAssumption DEF Good, Console
<1>2. c.x + 1 \in 0 .. WIDTH /\ c.pos + 1 = c.pos + (c.x + 1) - c.x
  BY <1>1
<1>. QED  BY <1>2, AsideGood

\* Before a text character is stored the cursor is on a real column, and pos has
\* not moved unless the screen was copied back.
LEMMA WrappedGood ==
  ASSUME NEW c, Good(c)
  PROVE  /\ Good(Wrapped(c)) /\ Wrapped(c).cursor = c.cursor
         /\ Wrapped(c).x \in 0 .. WIDTH - 1
         /\ ~(c.x >= WIDTH /\ CopiesBack(c)) => Wrapped(c).pos = c.pos
<1>1. c.x \in 0 .. WIDTH /\ c.pos \in Nat /\ WIDTH \in Nat \ {0}
  BY ConsoleAssumption DEF Good, Console
<1>2. CASE c.x >= WIDTH
  <2>1. Wrapped(c) = command_lf(Aside(c, c.x - WIDTH, c.pos - WIDTH))
    BY <1>2 DEF Wrapped, Aside
  <2>2. /\ c.pos - WIDTH = c.pos + (c.x - WIDTH) - c.x
        /\ c.x - WIDTH \in 0 .. WIDTH
    BY <1>1, <1>2
  <2>3. c.x - WIDTH \in 0 .. WIDTH - 1 /\ c.pos - WIDTH + WIDTH = c.pos
    BY <1>1, <1>2
  <2>  DEFINE d == Aside(c, c.x - WIDTH, c.pos - WIDTH)
  <2>4. /\ Good(d) /\ d.x = c.x - WIDTH /\ d.cursor = c.cursor
        /\ d.pos = c.pos - WIDTH /\ (CopiesBack(d) <=> CopiesBack(c))
    BY <2>2, AsideGood
  <2>  HIDE DEF d
  <2>5. /\ Good(command_lf(d)) /\ command_lf(d).cursor = d.cursor
        /\ command_lf(d).x = d.x
        /\ ~CopiesBack(d) => command_lf(d).pos = d.pos + WIDTH
    BY <2>4, LineFeedGood
  <2>6. Wrapped(c) = command_lf(d)
    BY <2>1 DEF d
  <2>. QED  BY <1>2, <2>3, <2>4, <2>5, <2>6
<1>. QED  BY <1>1, <1>2 DEF Wrapped

\* The inductive invariant.
CInv ==
  /\ TypeOK
  /\ Good(con)
  /\ ~writing => con.cursor = con.pos
  /\ writing => ptr + count <= MEM_SIZE + MaxCount
  /\ OverrunBounded
  /\ TextAtCursor

\* It holds after console_clear(),
LEMMA Initially ==
  ASSUME Init
  PROVE  CInv
<1>0. con \in Console
  <2>. DEFINE v == [i \in Cells |-> "blank"]
  <2>1. v \in Video /\ 0 \in 0 .. WIDTH /\ 0 \in 0 .. HEIGHT - 1
    BY ConsoleAssumption DEF Video
  <2>2. con = [screen |-> 0, pos |-> 0, x |-> 0, y |-> 0, start |-> 0,
               cursor |-> 0, video |-> v]
    BY DEF Init, console_clear
  <2>. HIDE DEF v
  <2>. QED  BY <2>1, <2>2 DEF Console
<1>1. /\ con.screen = 0 /\ con.pos = 0 /\ con.x = 0 /\ con.y = 0
      /\ con.start = 0 /\ con.cursor = 0
  BY DEF Init, console_clear
<1>2. Good(con)
  <2>1. RowStart(con.y) = 0 /\ con.screen + SCR_SIZE <= MEM_SIZE
    BY <1>1, Rows
  <2>. QED  BY <1>0, <1>1, <2>1 DEF Good
<1>3. TypeOK
  <2>1. count \in 0 .. MaxCount /\ ptr \in Nat /\ far \in Nat
    BY ConsoleAssumption DEF Init
  <2>2. writing \in BOOLEAN /\ inStep \in BOOLEAN
    BY Zenon DEF Init
  <2>. QED  BY <1>0, <2>1, <2>2 DEF TypeOK
<1>4. OverrunBounded
  BY ConsoleAssumption DEF OverrunBounded, Larger, Init
<1>. QED  BY <1>1, <1>2, <1>3, <1>4 DEF CInv, Init, TextAtCursor

\* is kept by a control character,
LEMMA ControlKeeps ==
  ASSUME CInv, NEW c, NEW b \in BOOLEAN, Control(c, b), Good(c),
         b => RoomBelow(con)
  PROVE  CInv'
<1>1. /\ ptr' = ptr /\ count' = count - 1 /\ count' \in 0 .. MaxCount
      /\ con' = c /\ writing /\ writing'
  BY ConsoleAssumption DEF Control, NextChar, CInv, TypeOK
<1>2. far' \in Nat /\ far' <= MEM_SIZE + Larger(WIDTH, MaxCount)
  BY Rows, ConsoleAssumption
     DEF Control, CInv, TypeOK, OverrunBounded, Larger, FillEnd, RoomBelow,
         Good, Console
<1>3. inStep' \in BOOLEAN
  BY DEF Control, CInv, TypeOK
<1>4. ptr' + count' <= MEM_SIZE + MaxCount /\ ptr' \in Nat
  BY <1>1, ConsoleAssumption DEF CInv, TypeOK
<1>5. TextAtCursor'
  BY <1>1 DEF Control, CInv, TextAtCursor
<1>. QED
  BY <1>1, <1>2, <1>3, <1>4, <1>5 DEF CInv, TypeOK, OverrunBounded, Good

\* by a text character,
LEMMA TextKeeps ==
  ASSUME CInv, Text
  PROVE  CInv'
<1>1. /\ Good(Wrapped(con)) /\ Wrapped(con).x \in 0 .. WIDTH - 1
      /\ Wrapped(con).pos \in Nat /\ WIDTH \in Nat /\ ptr \in Nat
  BY WrappedGood, ConsoleAssumption DEF CInv, TypeOK, Good, Console
<1>2. LET d == Aside(Wrapped(con), Wrapped(con).x + 1, Wrapped(con).pos + 1)
      IN  Good(d) /\ d.pos = Wrapped(con).pos + 1
  BY <1>1, AdvanceGood
<1>3. Good(con)'
  BY <1>1, <1>2, StoreGood DEF Text, Aside
<1>4. /\ ptr' = ptr + 1 /\ count' = count - 1 /\ count' \in 0 .. MaxCount
      /\ writing' /\ writing
  BY ConsoleAssumption DEF Text, NextChar, CInv, TypeOK
<1>5. /\ ptr' + count' <= MEM_SIZE + MaxCount
      /\ ptr' \in Nat /\ ptr' <= MEM_SIZE + MaxCount
  BY <1>4, ConsoleAssumption DEF CInv, TypeOK
<1>6. far' \in Nat /\ far' <= MEM_SIZE + Larger(WIDTH, MaxCount)
  <2>1. Scrolls(con) => FillEnd(con) \in Nat /\ FillEnd(con) <= MEM_SIZE + WIDTH
    BY Rows, ConsoleAssumption
       DEF Scrolls, FillEnd, RoomBelow, CInv, Good, Console
  <2>. QED  BY <2>1, <1>4, <1>5, ConsoleAssumption
            DEF Text, CInv, TypeOK, OverrunBounded, Larger
<1>7. inStep' \in BOOLEAN
  BY DEF Text, CInv, TypeOK
<1>8. TextAtCursor'
  <2>1. inStep' => Wrapped(con).pos = con.pos /\ ptr = con.pos
    BY <1>4, WrappedGood DEF Text, CInv, TextAtCursor
  <2>2. con'.pos = Wrapped(con).pos + 1
    <3>1. con' = Store(Aside(Wrapped(con), Wrapped(con).x + 1,
                             Wrapped(con).pos + 1), ptr, "text")
      BY DEF Text, Aside
    <3>2. Store(Aside(Wrapped(con), Wrapped(con).x + 1, Wrapped(con).pos + 1),
                ptr, "text").pos
            = Aside(Wrapped(con), Wrapped(con).x + 1, Wrapped(con).pos + 1).pos
      BY <1>1, <1>2, StoreGood
    <3>. QED  BY <1>2, <3>1, <3>2
  <2>. QED  BY <1>4, <2>1, <2>2 DEF TextAtCursor
<1>. QED  BY <1>3, <1>4, <1>5, <1>6, <1>7, <1>8
          DEF CInv, TypeOK, OverrunBounded, Good

\* and so by every step.
LEMMA StepKeeps ==
  ASSUME CInv, [Next]_vars
  PROVE  CInv'
<1>. USE DEF CInv
<1>g. Good(con)
  OBVIOUS
<1>1. CASE Enter
  <2>1. con.pos \in Nat /\ con.pos <= MEM_SIZE
    BY Rows, ConsoleAssumption DEF Good, Console
  <2>. QED BY <1>1, <2>1, ConsoleAssumption
           DEF Enter, TypeOK, OverrunBounded, TextAtCursor, Good
<1>2. CASE Leave
  BY <1>2 DEF Leave, TypeOK, OverrunBounded, TextAtCursor, Good, Console
<1>3. CASE Ignored
  BY <1>3, <1>g, ControlKeeps DEF Ignored
<1>4. CASE Backspace
  BY <1>4, <1>g, ControlKeeps, BackspaceGood DEF Backspace
<1>5. CASE LineFeed
  BY <1>5, <1>g, ControlKeeps, LineFeedGood, ReturnGood DEF LineFeed, Scrolls
<1>6. CASE FormFeed
  BY <1>6, <1>g, ControlKeeps, LineFeedGood DEF FormFeed, Scrolls
<1>7. CASE CarriageReturn
  BY <1>7, <1>g, ControlKeeps, ReturnGood DEF CarriageReturn
<1>8. CASE Delete
  <2>1. Good(command_del(con))
    BY <1>g, StoreGood DEF command_del, Good, Console
  <2>. QED BY <1>8, <2>1, ControlKeeps DEF Delete
<1>9. CASE Text
  BY <1>9, TextKeeps
<1>10. CASE UNCHANGED vars
  BY <1>10 DEF vars, TypeOK, OverrunBounded, TextAtCursor, Good
<1>. QED  BY <1>1, <1>2, <1>3, <1>4, <1>5, <1>6, <1>7, <1>8, <1>9, <1>10
          DEF Next

\* For every screen and every video memory that can hold it: x, y, pos and screen
\* always describe the same place, the screen stays in the memory and the CRT
\* controller shows it, with its cursor, between calls, where text goes next.
THEOREM Cursor == Spec => []CursorConsistent
<1>1. CInv => CursorConsistent
  BY DEF CInv, Good, CursorConsistent
<1>. QED  BY <1>1, Initially, StepKeeps, PTL DEF Spec

\* For every screen, memory and length of a call, stores stay within one row or
\* one call's length of the end of the memory.
THEOREM Overrun == Spec => []OverrunBounded
<1>1. CInv => OverrunBounded
  BY DEF CInv
<1>. QED  BY <1>1, Initially, StepKeeps, PTL DEF Spec

\* For every screen and memory, text goes where the cursor is until a control
\* character or a copy back comes between.
THEOREM AtCursor == Spec => []TextAtCursor
<1>1. CInv => TextAtCursor
  BY DEF CInv
<1>. QED  BY <1>1, Initially, StepKeeps, PTL DEF Spec

-----------------------------------------------------------------------------
\* The last row on the screen, and that it is without text if the screen has
\* moved down since c.
LastRow(d) == d.screen + SCR_SIZE - WIDTH .. d.screen + SCR_SIZE - 1
RowBlank(c, d) ==
  d.screen > c.screen =>
    \A i \in LastRow(d) : i \in Cells /\ d.video[i] # "text"

\* A line feed that scrolls fills the row below the screen first.
LEMMA LineFeedBlank ==
  ASSUME NEW c, Good(c)
  PROVE  RowBlank(c, command_lf(c))
<1>0. /\ c \in Console /\ c.screen \in Nat /\ WIDTH \in Nat \ {0} /\ SCR_SIZE \in Nat
      /\ MEM_SIZE \in Nat
  BY Rows, ConsoleAssumption DEF Good, Console
<1>1. CASE c.y + 1 < HEIGHT
  <2>1. command_lf(c).screen = c.screen
    BY <1>0, <1>1 DEF command_lf, Console
  <2>. QED  BY <1>0, <2>1 DEF RowBlank
<1>2. CASE ~(c.y + 1 < HEIGHT) /\ RoomBelow(c)
  <2>1. /\ command_lf(c).screen = c.screen + WIDTH
        /\ command_lf(c).video = Filled(c)
    BY <1>0, <1>2 DEF command_lf, scroll_up, Console
  <2>2. ASSUME NEW i \in c.screen + SCR_SIZE .. c.screen + SCR_SIZE + WIDTH - 1
        PROVE  i \in Cells /\ Filled(c)[i] # "text"
    <3>1. /\ i \in Cells /\ ~(i < c.screen + SCR_SIZE)
          /\ ~(i >= c.screen + SCR_SIZE + 2 * WIDTH)
      BY <1>0, <1>2 DEF RoomBelow, Cells
    <3>. QED  BY <3>1 DEF Filled, FillEnd
  <2>3. LastRow(command_lf(c))
          = c.screen + SCR_SIZE .. c.screen + SCR_SIZE + WIDTH - 1
    BY <1>0, <2>1 DEF LastRow
  <2>. QED  BY <2>1, <2>2, <2>3 DEF RowBlank
<1>3. CASE ~(c.y + 1 < HEIGHT) /\ ~RoomBelow(c)
  <2>1. command_lf(c).screen = 0
    BY <1>0, <1>3 DEF command_lf, scroll_up, Console
  <2>. QED  BY <1>0, <2>1 DEF RowBlank
<1>. QED  BY <1>1, <1>2, <1>3

\* Moving the cursor or storing a blank brings no text.
LEMMA OtherBlank ==
  ASSUME NEW c, Good(c)
  PROVE  /\ RowBlank(c, c)
         /\ \A d : RowBlank(c, d) /\ Good(d) => RowBlank(c, command_cr(d))
         /\ RowBlank(c, command_cr(c)) /\ RowBlank(c, command_bs(c))
         /\ RowBlank(c, command_del(c))
<1>0. c.screen \in Nat /\ c \in Console
  BY DEF Good, Console
<1>1. /\ RowBlank(c, c)
      /\ \A d : d.screen = c.screen => RowBlank(c, d)
  BY <1>0 DEF RowBlank
<1>2. ASSUME NEW d, RowBlank(c, d), Good(d)
      PROVE  RowBlank(c, command_cr(d))
  <2>1. /\ command_cr(d).screen = d.screen
        /\ command_cr(d).video = d.video
    BY <1>2 DEF command_cr, Good, Console
  <2>. QED  BY <1>2, <2>1 DEF RowBlank, LastRow
<1>3. /\ command_cr(c).screen = c.screen /\ command_bs(c).screen = c.screen
      /\ command_del(c).screen = c.screen
  BY <1>0 DEF command_cr, command_bs, command_del, Store, Console
<1>. QED  BY <1>1, <1>2, <1>3

\* A text character that wraps scrolls first, then shows itself in one cell.
LEMMA WrapBlank ==
  ASSUME NEW c, Good(c)
  PROVE  RowBlank(c, Wrapped(c))
<1>1. c.x \in 0 .. WIDTH /\ c.pos \in Nat /\ WIDTH \in Nat \ {0} /\ c \in Console
  BY ConsoleAssumption DEF Good, Console
<1>2. CASE c.x >= WIDTH
  <2>  DEFINE d == Aside(c, c.x - WIDTH, c.pos - WIDTH)
  <2>1. Wrapped(c) = command_lf(d)
    BY <1>2 DEF Wrapped, Aside
  <2>2. /\ c.pos - WIDTH = c.pos + (c.x - WIDTH) - c.x
        /\ c.x - WIDTH \in 0 .. WIDTH
    BY <1>1, <1>2
  <2>3. Good(d)
    BY <2>2, AsideGood
  <2>4. d.screen = c.screen
    BY <1>1 DEF Aside, Console
  <2>  HIDE DEF d
  <2>5. RowBlank(d, command_lf(d))
    BY <2>3, LineFeedBlank
  <2>. QED  BY <2>1, <2>4, <2>5 DEF RowBlank
<1>. QED  BY <1>2, OtherBlank DEF Wrapped

\* What a step may show in a row that it scrolls in.
RowStep ==
  con'.screen > con.screen =>
    \A i \in LastRow(con') : con'.video[i] = "text" => i = ptr /\ ptr' # ptr

LEMMA TextBlank ==
  ASSUME CInv, Text
  PROVE  RowStep
<1>  DEFINE d == Wrapped(con)
            e == [d EXCEPT !.x = @ + 1, !.pos = @ + 1]
<1>1. Good(con) /\ Good(d) /\ RowBlank(con, d) /\ ptr \in Nat
  BY WrappedGood, WrapBlank DEF CInv, TypeOK
<1>2. con' = Store(e, ptr, "text") /\ ptr' = ptr + 1
  BY DEF Text
<1>3. e.screen = d.screen /\ e.video = d.video
  BY <1>1 DEF Good, Console
<1>  HIDE DEF d, e
<1>4. con'.screen = d.screen /\ \A i \in Cells \ {ptr} : con'.video[i] = d.video[i]
  BY <1>1, <1>2, <1>3 DEF Store, Good, Console
<1>5. LastRow(con') = LastRow(d)
  BY <1>4 DEF LastRow
<1>. QED  BY <1>1, <1>2, <1>4, <1>5 DEF RowStep, RowBlank

\* For every screen and memory, a row that scrolls in shows no text of an earlier
\* pass through the memory.
THEOREM RowCleared == Spec => NewRowBlank
<1>1. ASSUME CInv, [Next]_vars
      PROVE  [RowStep]_vars
  <2>1. Good(con)
    BY <1>1 DEF CInv
  <2>2. ASSUME NEW c, NEW b, Control(c, b), RowBlank(con, c)
        PROVE  RowStep
    BY <2>2 DEF Control, RowStep, RowBlank
  <2>3. CASE Ignored \/ Backspace \/ CarriageReturn \/ Delete
    BY <2>1, <2>2, <2>3, OtherBlank DEF Ignored, Backspace, CarriageReturn, Delete
  <2>4. CASE LineFeed \/ FormFeed
    BY <2>1, <2>2, <2>4, OtherBlank, LineFeedBlank, LineFeedGood
       DEF LineFeed, FormFeed
  <2>5. CASE Text
    BY <1>1, <2>5, TextBlank
  <2>6. CASE Enter \/ Leave
    <3>1. con'.screen = con.screen /\ con.screen \in Nat
      BY <2>1, <2>6 DEF Enter, Leave, Good, Console
    <3>. QED  BY <3>1 DEF RowStep
  <2>. QED  BY <1>1, <2>3, <2>4, <2>5, <2>6 DEF Next
<1>2. RowStep => (con'.screen > con.screen =>
         \A i \in con'.screen + SCR_SIZE - WIDTH .. con'.screen + SCR_SIZE - 1 :
           con'.video[i] = "text" => i = ptr /\ ptr' # ptr)
  BY DEF RowStep, LastRow
<1>. QED  BY <1>1, <1>2, Initially, StepKeeps, PTL DEF Spec, NewRowBlank
=============================================================================
