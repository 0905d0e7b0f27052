------------------------------ MODULE Keyboard ------------------------------
(***************************************************************************)
(* The keyboard driver (kernel/chr_drv/keyboard.c) and the keyboard that   *)
(* feeds it.  keymap_handler() takes one byte per interrupt: 0xe0 is a     *)
(* prefix, which it remembers until the next byte; bit 7 tells a break     *)
(* code (key up) from a make code (key down).  For each code it keeps      *)
(* whether the key is held, once without and once with the prefix, which   *)
(* locks are on, and it prints the character of a make code.               *)
(*                                                                         *)
(* The interrupt gate keeps IF off until the printk() at the end, so the   *)
(* handler is atomic.  The keyboard is the environment, in the terms of    *)
(* scan code set 1: it stores bytes in a buffer and drops what does not    *)
(* fit, which can separate a prefix from its code.  How much the driver    *)
(* can still know after such a loss is what the properties are about; the  *)
(* field "char" of a stored byte is there for them only.                   *)
(***************************************************************************)
EXTENDS Integers, Sequences

CONSTANTS
  Keys,        \* the keys of the keyboard, see Flags
  Repeating,   \* those that send their make code again while they are held
  OtherBytes,  \* bytes that are no part of the codes of a key
  WireMax      \* the bytes the keyboard can store

\* Indices of the table, those the code has names for.
KEY_CTRL_L == 29         \* 0x1d
KEY_SLASH == 53          \* 0x35
KEY_SHIFT_L == 42        \* 0x2a
KEY_SHIFT_R == 54        \* 0x36
KEY_CAPSLOCK == 58       \* 0x3a
KEY_NUMLOCK == 69        \* 0x45
KEY_SCRLOCK == 70        \* 0x46
KEY_PRINT_SCREEN == 95   \* 0x5f, the last one
Prefix == 224            \* 0xe0

Codes == 0 .. KEY_PRINT_SCREEN
LockCodes == {KEY_NUMLOCK, KEY_CAPSLOCK, KEY_SCRLOCK}

\* A key is named by the entry of the table that says whether it is held: its
\* code and the column, 3 if it sends the prefix and 2 if not.
Flags == Codes \X {2, 3}

ASSUME KeysAssumption ==
  /\ Keys \subseteq Flags
  /\ Repeating \subseteq Keys
  /\ \A k \in Keys : k[2] = 3 => k[1] \notin LockCodes \cup {42, 54}
ASSUME WireAssumption == WireMax \in Nat \ {0}
\* What else a keyboard says: 0xfa, 0xfe, 0xff (0xaa, after it has been
\* plugged in, would be taken for a break code).
ASSUME OtherAssumption == OtherBytes \subseteq {250, 254, 255}

VARIABLES
  keymap,         \* the entries of columns 2 and 3 that are true
  locks,          \* capslock_state, numlock_state, scrlock_state: those on
  extcode_state,  \* whether the last byte was the prefix
  screen,         \* what the last step has printed, or NoChar
  wire,           \* the bytes the keyboard has stored, the oldest first
  down,           \* the keys that are pressed
  toggled,        \* the lock keys that were pressed an odd number of times
  sending,        \* the bytes of the Pause key that are not yet stored
  half,           \* the last byte stored is a prefix without its code
  lost            \* what the bytes stored so far leave uncertain, see Send

vars == <<keymap, locks, extcode_state, screen, wire, down, toggled, sending,
          half, lost>>

-----------------------------------------------------------------------------
(***************************************************************************)
(* The first two columns of the table.  A character is named by its place, *)
(* row and column; NoChar stands for INV.                                  *)
(***************************************************************************)
NoChar == <<0, 0>>
Unknown == <<0, 1>>   \* the character that is due is not known

\* The rows with INV in both columns (control keys, locks, F1 to F12, unused
\* ones) and those of the keypad, with INV in column 1 only.
Invisible ==
  {0, 29, 42, 54, 56} \cup 58 .. 70 \cup 84 .. KEY_PRINT_SCREEN
PadDigits == {71, 72, 73, 75, 76, 77} \cup 79 .. 82

CharAt(row, column) ==
  IF row \in Invisible \/ (column = 1 /\ row \in PadDigits) THEN NoChar
  ELSE <<row, column>>

Init ==
  /\ keymap = {}
  /\ locks = {}
  /\ extcode_state = FALSE
  /\ screen = NoChar
  /\ wire = <<>>
  /\ down = {}
  /\ toggled = {}
  /\ sending = <<>>
  /\ half = FALSE
  /\ lost = {}

-----------------------------------------------------------------------------
(***************************************************************************)
(* keymap_handler().                                                       *)
(***************************************************************************)
scancode == Head(wire).byte
makecode == scancode % 128
breakcode == scancode >= 128

\* A mutant: the columns of the characters are taken for those of the keys.
ext_characters == IF extcode_state THEN 1 ELSE 0

\* `scancode |= 0xe000' after it is lost in eight bits.
ext == IF extcode_state THEN 3 ELSE 2

\* A mutant: the fake shifts that come with a prefix count.
shift_state_fake(held) ==
  \E f \in held : f[1] \in {KEY_SHIFT_L, KEY_SHIFT_R}

shift_state(held) == <<KEY_SHIFT_L, 2>> \in held \/ <<KEY_SHIFT_R, 2>> \in held

\* The character of a make code when the entries `held' are true and the
\* locks `on' are on.
CharOf(code, column, held, on) ==
  IF column = 3 /\ code # KEY_SLASH THEN CharAt(code, 1)
  ELSE CharAt(code, IF shift_state(held) # (KEY_CAPSLOCK \in on) THEN 1 ELSE 0)

\* in_byte(0x60) takes the oldest byte.
Handled ==
  /\ wire # <<>>
  /\ wire' = Tail(wire)
  /\ UNCHANGED <<down, toggled, sending, half, lost>>

HandlePrefix ==
  /\ Handled /\ scancode = Prefix
  /\ extcode_state' = TRUE
  /\ screen' = NoChar
  /\ UNCHANGED <<keymap, locks>>

\* The test for 0xb7 before it never succeeds: bit 7 has been masked.
HandleOther ==
  /\ Handled /\ scancode # Prefix /\ makecode > KEY_PRINT_SCREEN
  /\ extcode_state' = FALSE
  /\ screen' = NoChar
  /\ UNCHANGED <<keymap, locks>>

\* A mutant: a break code always clears column 2.
HandleBreak_plain ==
  /\ Handled /\ makecode \in Codes /\ breakcode
  /\ keymap' = keymap \ {<<makecode, 2>>}
  /\ extcode_state' = FALSE
  /\ screen' = NoChar
  /\ UNCHANGED locks

HandleBreak ==
  /\ Handled /\ makecode \in Codes /\ breakcode
  /\ keymap' = keymap \ {<<makecode, ext>>}
  /\ extcode_state' = FALSE
  /\ screen' = NoChar
  /\ UNCHANGED locks

\* A mutant: a key that is already held does not count.
Toggled_once(code) ==
  IF code \notin LockCodes \/ <<code, 3>> \in keymap THEN locks
  ELSE IF code \in locks THEN locks ELSE locks \cup {code}

\* The locks after a make code.
Toggled(code) ==
  IF code \notin LockCodes THEN locks
  ELSE IF code \in locks THEN locks \ {code} ELSE locks \cup {code}

HandleMake ==
  /\ Handled /\ makecode \in Codes /\ ~breakcode
  /\ keymap' = keymap \cup {<<makecode, ext>>}
  /\ locks' = Toggled(makecode)
  /\ extcode_state' = FALSE
  /\ screen' = CharOf(makecode, ext, keymap', locks')

keymap_handler == HandlePrefix \/ HandleOther \/ HandleBreak \/ HandleMake

-----------------------------------------------------------------------------
(***************************************************************************)
(* The keyboard.                                                           *)
(***************************************************************************)
Room == WireMax - Len(wire)

\* What a lost code of the key k leaves uncertain: the key and, if the lock it
\* may be has been pressed, the lock (column 0).
Uncertain(k, code) == {k} \cup ({code} \cap LockCodes) \X {0}

Stored(byte, char) == [byte |-> byte, char |-> char]

\* What the interpretation of a make code depends on.
Modifiers ==
  {<<KEY_SHIFT_L, 2>>, <<KEY_SHIFT_R, 2>>, <<KEY_CAPSLOCK, 0>>}

\* A key sends a code with the character that is due for it.  What does not
\* fit is dropped, and leaves its key uncertain until a whole code of the key
\* is stored.  A code without the prefix behind a prefix that lost its own
\* code is read as that of another key.  `doubt' is uncertain in any case.
Send(k, code, char, doubt) ==
  LET misread == half /\ k[2] = 2
      known   == IF misread \/ lost \cap Modifiers # {} THEN Unknown ELSE char
      bytes   == IF k[2] = 3 THEN <<Stored(Prefix, NoChar), Stored(code, known)>>
                 ELSE <<Stored(code, known)>>
      fits    == Len(bytes) <= Room
  IN  /\ wire' = wire \o SubSeq(bytes, 1, IF fits THEN Len(bytes) ELSE Room)
      /\ half' = IF Room = 0 THEN half ELSE ~fits
      /\ lost' = doubt \cup
                  IF ~fits THEN lost \cup Uncertain(k, code)
                  ELSE IF misread
                  THEN lost \cup (Keys \cap {<<k[1], 2>>, <<k[1], 3>>})
                  ELSE lost \ {k}

Driver ==
  /\ screen' = NoChar
  /\ UNCHANGED <<keymap, locks, extcode_state>>

\* The character that is due when k goes down.
Due(k) == CharOf(k[1], k[2], down \cup {k}, toggled')

Press(k) ==
  /\ k \notin down
  /\ down' = down \cup {k}
  /\ toggled' = IF k[1] \notin LockCodes THEN toggled
                ELSE IF k[1] \in toggled THEN toggled \ {k[1]}
                ELSE toggled \cup {k[1]}
  /\ Send(k, k[1], Due(k), {})
  /\ Driver

\* The driver takes each make code of a lock key for a press.
Repeat(k) ==
  /\ k \in down \cap Repeating
  /\ toggled' = toggled
  /\ Send(k, k[1], Due(k), ({k[1]} \cap LockCodes) \X {0})
  /\ Driver /\ UNCHANGED down

Release(k) ==
  /\ k \in down
  /\ down' = down \ {k}
  /\ Send(k, k[1] + 128, NoChar, {})
  /\ Driver /\ UNCHANGED toggled

\* Around the codes of keys with a prefix the keyboard presses and releases
\* a left shift with a prefix, which no key has.
FakeShift ==
  /\ Room > 0
  /\ \E byte \in {KEY_SHIFT_L, KEY_SHIFT_L + 128} :
       wire' = wire \o SubSeq(<<Stored(Prefix, NoChar), Stored(byte, NoChar)>>,
                             1, IF Room > 1 THEN 2 ELSE 1)
  /\ half' = (Room = 1)
  /\ Driver /\ UNCHANGED <<down, toggled, lost>>

\* Any other byte ends a prefix without a code.
Other ==
  /\ Room > 0
  /\ \E b \in OtherBytes : wire' = Append(wire, Stored(b, NoChar))
  /\ half' = FALSE
  /\ Driver /\ UNCHANGED <<down, toggled, lost>>

\* The Pause key has no code of its own: it sends those of Ctrl and Num Lock
\* behind 0xe1, which the driver ignores, or, when Ctrl is held (here also any
\* Ctrl that is not in Keys), that of Scroll Lock with the prefix.
CtrlKeys == {<<KEY_CTRL_L, 2>>, <<KEY_CTRL_L, 3>>}
PauseBytes == <<225, KEY_CTRL_L, KEY_NUMLOCK,
                225, KEY_CTRL_L + 128, KEY_NUMLOCK + 128>>
BreakBytes == <<Prefix, KEY_SCRLOCK, Prefix, KEY_SCRLOCK + 128>>

Pause ==
  /\ \/ CtrlKeys \cap down = {} /\ sending' = PauseBytes
     \/ (CtrlKeys \cap down # {} \/ CtrlKeys \cap Keys = {})
        /\ sending' = BreakBytes
  /\ Driver /\ UNCHANGED <<wire, down, toggled, half, lost>>

\* The keys that share the code in byte b, and the lock that it switches.
Touched(b) ==
  (Keys \cap {<<b % 128, 2>>, <<b % 128, 3>>}) \cup ({b} \cap LockCodes) \X {0}

\* The next of those bytes is stored, or dropped.
PauseByte ==
  /\ sending # <<>>
  /\ LET b == Head(sending)
     IN  /\ \/ /\ Room > 0
               /\ wire' = Append(wire, Stored(b, NoChar))
               /\ half' = (b = Prefix)
            \/ Room = 0 /\ UNCHANGED <<wire, half>>
         /\ lost' = lost \cup Touched(b)
  /\ sending' = Tail(sending)
  /\ Driver /\ UNCHANGED <<down, toggled>>

Key ==
  /\ \/ \E k \in Keys : Press(k) \/ Repeat(k) \/ Release(k)
     \/ FakeShift
     \/ Other
  /\ UNCHANGED sending

Keyboard == (sending = <<>> /\ (Key \/ Pause)) \/ PauseByte

Next == keymap_handler \/ Keyboard

Spec == Init /\ [][Next]_vars

-----------------------------------------------------------------------------
(***************************************************************************)
(* Properties.                                                             *)
(***************************************************************************)
Chars == Codes \X {0, 1}

\* Every variable has its type; in particular the driver stores in columns 2
\* and 3 of existing rows of its table and nowhere else.
TypeOK ==
  /\ keymap \subseteq Flags
  /\ locks \subseteq LockCodes
  /\ extcode_state \in BOOLEAN
  /\ screen \in Chars
  /\ wire \in Seq([byte : 0 .. 255, char : Chars])
  /\ Len(wire) <= WireMax
  /\ down \subseteq Keys
  /\ toggled \subseteq LockCodes
  /\ sending \in Seq(0 .. 255)
  /\ half \in BOOLEAN
  /\ lost \subseteq Keys \cup (LockCodes \X {0})

\* When all bytes have been handled, the driver takes for held exactly the
\* keys that are pressed, but for those of which a byte was dropped, or whose
\* code came behind a prefix that lost its own, or was sent by the Pause key,
\* since they last sent a whole code: a loss never reaches other keys and never
\* outlasts the next code.
HeldExact ==
  wire = <<>> =>
    /\ extcode_state = half
    /\ \A k \in Keys \ lost : k \in keymap <=> k \in down

\* Each lock is on if its key was pressed an odd number of times, unless one
\* of its codes was dropped, its key was held until it repeated, or the Pause
\* key (for Num Lock) or Ctrl+Break (for Scroll Lock) has sent its code: those
\* the driver takes for presses.
LocksExact ==
  wire = <<>> =>
    \A lock \in LockCodes :
      <<lock, 0>> \in lost \/ (lock \in locks <=> lock \in toggled)

\* However late a code is handled, it prints the character of its key under
\* the shift keys and Caps Lock as they were when the key went down, whatever
\* fake shifts come in between; only lost codes of those keys, a Caps Lock
\* that repeated, or a prefix left over can change that.
TextRight ==
  [][wire # <<>> /\ wire' = Tail(wire) =>
       Head(wire).char \in {Unknown, screen'}]_vars
=============================================================================
