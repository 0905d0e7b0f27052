----------------------------- MODULE MCKeyboard -----------------------------
(***************************************************************************)
(* Keyboard for TLC: a left shift, Caps Lock and the grey slash of the     *)
(* keypad, whose code has the prefix and comes with fake shifts; held,     *)
(* Caps Lock and the slash repeat.                                         *)
(***************************************************************************)
EXTENDS Keyboard

MCKeys == {<<KEY_SHIFT_L, 2>>, <<KEY_CAPSLOCK, 2>>, <<KEY_SLASH, 3>>}
MCRepeating == {<<KEY_CAPSLOCK, 2>>, <<KEY_SLASH, 3>>}

\* Bound: the Pause key is struck once (only it sends the codes of Num Lock and
\* Scroll Lock here).
PauseOnce ==
  sending = <<>> /\ sending' # <<>> =>
    lost \cap {<<KEY_NUMLOCK, 0>>, <<KEY_SCRLOCK, 0>>} = {}

\* Entries of no key and no shift are written and never read: states that
\* differ in them only are one.
Entries == keymap \ (Flags \ (Keys \cup {KEY_SHIFT_L, KEY_SHIFT_R} \X {2, 3}))
View == <<Entries, locks, extcode_state, screen, wire, down, toggled, sending,
          half, lost>>
=============================================================================
