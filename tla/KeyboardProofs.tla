---------------------------- MODULE KeyboardProofs ----------------------------
(***************************************************************************)
(* Proofs about Keyboard, for every set of keys, other bytes and size of   *)
(* the buffer of the keyboard.  The inductive invariant follows the driver *)
(* through the bytes that are still stored: handling them one after the    *)
(* other shows the character that is due for each, and leaves the driver   *)
(* in a state that agrees with the keyboard.                               *)
(***************************************************************************)
EXTENDS Keyboard, SequenceTheorems, TLAPS

Bytes == [byte : 0 .. 255, char : Chars]

\* A state of the driver: the column a code goes to, the entries that are true
\* and the locks that are on.
States == [col : {2, 3}, held : SUBSET Flags, on : SUBSET LockCodes]

Now == [col |-> ext, held |-> keymap, on |-> locks]

\* The state after one byte, and the character it shows.
HeldAfter(s, b) ==
  IF b % 128 \notin Codes THEN s.held
  ELSE IF b >= 128 THEN s.held \ {<<b % 128, s.col>>}
  ELSE s.held \cup {<<b, s.col>>}

OnAfter(s, b) ==
  IF b \notin LockCodes THEN s.on
  ELSE IF b \in s.on THEN s.on \ {b} ELSE s.on \cup {b}

After(s, b) ==
  [col |-> IF b = Prefix THEN 3 ELSE 2, held |-> HeldAfter(s, b),
   on |-> OnAfter(s, b)]

Shows(s, b) ==
  IF b \in Codes THEN CharOf(b, s.col, HeldAfter(s, b), OnAfter(s, b))
  ELSE NoChar

\* Handling the bytes w takes the driver from s to t, through the states f, and
\* shows for each byte what is due, where that is known.
Reading(f, s, w, t) ==
  /\ f \in [0 .. Len(w) -> States]
  /\ f[0] = s /\ f[Len(w)] = t
  /\ \A n \in 1 .. Len(w) :
       /\ f[n] = After(f[n - 1], w[n].byte)
       /\ w[n].char \in {Unknown, Shows(f[n - 1], w[n].byte)}

Reads(s, w, t) == \E f \in [0 .. Len(w) -> States] : Reading(f, s, w, t)

\* What the driver knows in the state s is true.  A shift key that the
\* keyboard does not have is never held.
Shifts == {<<KEY_SHIFT_L, 2>>, <<KEY_SHIFT_R, 2>>}

Agrees(s) ==
  /\ s.col = IF half THEN 3 ELSE 2
  /\ Shifts \cap s.held \subseteq Keys
  /\ \A k \in Keys \ lost : k \in s.held <=> k \in down
  /\ \A lock \in LockCodes :
       <<lock, 0>> \in lost \/ (lock \in s.on <=> lock \in toggled)

\* The bytes the Pause key sends.
PauseCodes == {225, 29, 69, 157, 197, 224, 70, 198}

IInv ==
  /\ TypeOK /\ sending \in Seq(PauseCodes)
  /\ \E t \in States : Reads(Now, wire, t) /\ Agrees(t)

-----------------------------------------------------------------------------
(***************************************************************************)
(* Codes and characters.                                                   *)
(***************************************************************************)
LEMMA ScancodeBits ==
  ASSUME NEW b \in 0 .. 255
  PROVE  /\ b % 128 \in 0 .. 127
         /\ ~(b >= 128) => b % 128 = b
         /\ b >= 128 => b % 128 = b - 128
         /\ b \in Codes <=> b % 128 \in Codes /\ ~(b >= 128)
         /\ b \in LockCodes => b \in Codes
BY DEF Codes, LockCodes, KEY_PRINT_SCREEN, KEY_NUMLOCK, KEY_CAPSLOCK,
       KEY_SCRLOCK

LEMMA CharType ==
  ASSUME NEW code \in Codes, NEW column \in {2, 3}, NEW held, NEW on
  PROVE  CharOf(code, column, held, on) \in Chars
<1>1. \A column1 \in {0, 1} : CharAt(code, column1) \in Chars
  BY DEF CharAt, Chars, Codes, NoChar, KEY_PRINT_SCREEN
<1>. QED  BY <1>1 DEF CharOf

\* Locks print nothing.
LEMMA LockChar ==
  ASSUME NEW code \in LockCodes, NEW column, NEW held, NEW on
  PROVE  CharOf(code, column, held, on) = NoChar
BY DEF LockCodes, CharOf, CharAt, Invisible, KEY_SLASH, KEY_NUMLOCK,
       KEY_CAPSLOCK, KEY_SCRLOCK

LEMMA NoCharType == NoChar \in Chars /\ Unknown \in Chars
BY DEF NoChar, Unknown, Chars, Codes, KEY_PRINT_SCREEN

\* States stay states, and what is shown is a character.
LEMMA AfterType ==
  ASSUME NEW s \in States, NEW b \in 0 .. 255
  PROVE  After(s, b) \in States /\ Shows(s, b) \in Chars
<1>1. s.col \in {2, 3} /\ s.held \subseteq Flags /\ s.on \subseteq LockCodes
  BY DEF States
<1>2. HeldAfter(s, b) \subseteq Flags
  <2>1. b % 128 \in Codes => <<b % 128, s.col>> \in Flags
    BY <1>1 DEF Flags
  <2>2. b % 128 \in Codes /\ ~(b >= 128) => b % 128 = b
    BY ScancodeBits
  <2>. QED  BY <1>1, <2>1, <2>2 DEF HeldAfter
<1>3. OnAfter(s, b) \subseteq LockCodes
  BY <1>1 DEF OnAfter
<1>4. After(s, b) \in States
  BY <1>2, <1>3 DEF After, States
<1>5. Shows(s, b) \in Chars
  BY <1>1, CharType, NoCharType DEF Shows
<1>. QED  BY <1>4, <1>5

-----------------------------------------------------------------------------
(***************************************************************************)
(* Reading bytes.                                                          *)
(***************************************************************************)
LEMMA ReadNothing ==
  ASSUME NEW s \in States, NEW t \in States
  PROVE  Reads(s, <<>>, t) <=> s = t
<1>1. Len(<<>>) = 0
  OBVIOUS
<1>2. ASSUME Reads(s, <<>>, t)
      PROVE  s = t
  BY <1>1, <1>2 DEF Reads, Reading
<1>3. ASSUME s = t
      PROVE  Reads(s, <<>>, t)
  <2>  DEFINE f == [n \in 0 .. 0 |-> s]
  <2>1. f \in [0 .. 0 -> States] /\ f[0] = s
    OBVIOUS
  <2>2. Reading(f, s, <<>>, t)
    BY <1>1, <1>3, <2>1 DEF Reading
  <2>. QED  BY <1>1, <2>1, <2>2 DEF Reads
<1>. QED  BY <1>2, <1>3

\* A byte that is stored last is handled last.
LEMMA ReadLast ==
  ASSUME NEW s \in States, NEW t \in States, NEW w \in Seq(Bytes),
         NEW c \in Bytes, Reads(s, w, t),
         c.char \in {Unknown, Shows(t, c.byte)}
  PROVE  Reads(s, Append(w, c), After(t, c.byte))
<1>  DEFINE u == Append(w, c)
            m == Len(w)
<1>1. m \in Nat /\ Len(u) = m + 1 /\ u[m + 1] = c
      /\ \A n \in 1 .. m : u[n] = w[n]
  BY AppendProperties
<1>2. PICK f \in [0 .. m -> States] : Reading(f, s, w, t)
  BY DEF Reads
<1>3. c.byte \in 0 .. 255 /\ After(t, c.byte) \in States
  BY AfterType DEF Bytes
<1>  HIDE DEF u, m
<1>  DEFINE g == [n \in 0 .. m + 1 |-> IF n <= m THEN f[n]
                                       ELSE After(t, c.byte)]
<1>4. g \in [0 .. m + 1 -> States]
  BY <1>1, <1>3
<1>5. /\ f[0] = s /\ f[m] = t
      /\ \A n \in 1 .. m : /\ f[n] = After(f[n - 1], w[n].byte)
                           /\ w[n].char \in {Unknown, Shows(f[n - 1], w[n].byte)}
  BY <1>2 DEF Reading, m
<1>6. g[0] = s /\ g[m] = t /\ g[m + 1] = After(t, c.byte)
  BY <1>1, <1>5
<1>7. ASSUME NEW n \in 1 .. m + 1
      PROVE  /\ g[n] = After(g[n - 1], u[n].byte)
             /\ u[n].char \in {Unknown, Shows(g[n - 1], u[n].byte)}
  <2>1. CASE n = m + 1
    <3>1. n - 1 = m
      BY <1>1, <2>1
    <3>. QED  BY <1>1, <1>6, <2>1, <3>1
  <2>2. CASE n # m + 1
    <3>1. n \in 1 .. m /\ n - 1 \in 0 .. m /\ n <= m /\ n - 1 <= m
          /\ n \in 0 .. m + 1 /\ n - 1 \in 0 .. m + 1
      BY <1>1, <2>2
    <3>2. g[n] = f[n] /\ g[n - 1] = f[n - 1] /\ u[n] = w[n]
      BY <1>1, <3>1
    <3>. QED  BY <1>5, <3>1, <3>2
  <2>. QED  BY <2>1, <2>2
<1>  HIDE DEF g
<1>8. Reading(g, s, u, After(t, c.byte))
  BY <1>1, <1>4, <1>6, <1>7 DEF Reading
<1>9. Reads(s, u, After(t, c.byte))
  BY <1>1, <1>4, <1>8 DEF Reads
<1>. QED  BY <1>9 DEF u

\* The first byte is handled first.
LEMMA ReadFirst ==
  ASSUME NEW s \in States, NEW t \in States, NEW w \in Seq(Bytes),
         w # <<>>, Reads(s, w, t)
  PROVE  /\ Head(w).char \in {Unknown, Shows(s, Head(w).byte)}
         /\ Reads(After(s, Head(w).byte), Tail(w), t)
<1>  DEFINE u == Tail(w)
            m == Len(w)
<1>1. /\ m \in Nat \ {0} /\ Len(u) = m - 1 /\ Head(w) = w[1]
      /\ \A n \in 1 .. m - 1 : u[n] = w[n + 1]
  BY HeadTailProperties, EmptySeq
<1>2. PICK f \in [0 .. m -> States] : Reading(f, s, w, t)
  BY DEF Reads
<1>3. /\ f[0] = s /\ f[m] = t
      /\ \A n \in 1 .. m : /\ f[n] = After(f[n - 1], w[n].byte)
                           /\ w[n].char \in {Unknown, Shows(f[n - 1], w[n].byte)}
  BY <1>2 DEF Reading
<1>  HIDE DEF u, m
<1>4. /\ f[1] = After(s, w[1].byte)
      /\ w[1].char \in {Unknown, Shows(s, w[1].byte)}
  <2>1. 1 \in 1 .. m /\ 1 - 1 = 0
    BY <1>1
  <2>. QED  BY <1>3, <2>1
<1>  DEFINE g == [n \in 0 .. m - 1 |-> f[n + 1]]
<1>5. g \in [0 .. m - 1 -> States]
  BY <1>1
<1>6. g[0] = f[1] /\ g[m - 1] = t
  <2>1. 0 \in 0 .. m - 1 /\ 0 + 1 = 1
    BY <1>1
  <2>2. m - 1 \in 0 .. m - 1 /\ (m - 1) + 1 = m
    BY <1>1
  <2>. QED  BY <1>3, <2>1, <2>2
<1>7. ASSUME NEW n \in 1 .. m - 1
      PROVE  /\ g[n] = After(g[n - 1], u[n].byte)
             /\ u[n].char \in {Unknown, Shows(g[n - 1], u[n].byte)}
  <2>1. n \in 0 .. m - 1 /\ n - 1 \in 0 .. m - 1 /\ n + 1 \in 1 .. m
        /\ (n - 1) + 1 = n /\ (n + 1) - 1 = n
    BY <1>1
  <2>2. g[n] = f[n + 1] /\ g[n - 1] = f[n] /\ u[n] = w[n + 1]
    BY <1>1, <2>1
  <2>3. /\ f[n + 1] = After(f[n], w[n + 1].byte)
        /\ w[n + 1].char \in {Unknown, Shows(f[n], w[n + 1].byte)}
    BY <1>3, <2>1
  <2>. QED  BY <2>2, <2>3
<1>  HIDE DEF g
<1>8. Reading(g, f[1], u, t)
  BY <1>1, <1>5, <1>6, <1>7 DEF Reading
<1>9. Reads(f[1], u, t)
  BY <1>1, <1>5, <1>8 DEF Reads
<1>. QED  BY <1>1, <1>4, <1>9 DEF u

-----------------------------------------------------------------------------
(***************************************************************************)
(* The driver.                                                             *)
(***************************************************************************)
LEMMA NowType ==
  ASSUME TypeOK
  PROVE  Now \in States
BY DEF TypeOK, Now, States, ext

\* keymap_handler() handles the oldest byte as Head(wire) is read.
LEMMA HandlerReads ==
  ASSUME TypeOK, keymap_handler
  PROVE  /\ wire # <<>> /\ scancode \in 0 .. 255
         /\ wire' = Tail(wire) /\ wire' \in Seq(Bytes)
         /\ Len(wire') = Len(wire) - 1
         /\ UNCHANGED <<down, toggled, sending, half, lost>>
         /\ Now' = After(Now, scancode)
         /\ screen' = Shows(Now, scancode)
         /\ extcode_state' \in BOOLEAN
<1>1. /\ wire # <<>> /\ wire' = Tail(wire)
      /\ UNCHANGED <<down, toggled, sending, half, lost>>
  BY DEF keymap_handler, HandlePrefix, HandleOther, HandleBreak, HandleMake,
         Handled
<1>2. Head(wire) \in Bytes /\ wire' \in Seq(Bytes)
      /\ Len(wire') = Len(wire) - 1
  <2>1. wire \in Seq(Bytes)
    BY DEF TypeOK, Bytes
  <2>. QED  BY <1>1, <2>1, HeadTailProperties
<1>  DEFINE b == scancode
<1>3. b \in 0 .. 255
  BY <1>2 DEF scancode, Bytes
<1>4. makecode = b % 128 /\ (breakcode <=> b >= 128)
  BY DEF makecode, breakcode
<1>5. /\ Now.col = ext /\ Now.held = keymap /\ Now.on = locks
      /\ Now' = [col |-> ext', held |-> keymap', on |-> locks']
  BY DEF Now
<1>6. extcode_state' \in BOOLEAN
      /\ ext' = IF extcode_state' THEN 3 ELSE 2
  BY DEF keymap_handler, HandlePrefix, HandleOther, HandleBreak, HandleMake,
         ext
<1>7. /\ extcode_state' <=> b = Prefix
      /\ keymap' = HeldAfter(Now, b) /\ locks' = OnAfter(Now, b)
      /\ screen' = Shows(Now, b)
  <2>a. Prefix % 128 \notin Codes /\ Prefix >= 128
    BY DEF Prefix, Codes, KEY_PRINT_SCREEN
  <2>b. /\ b % 128 \in 0 .. 127
        /\ ~(b >= 128) => b % 128 = b
        /\ b \in Codes <=> b % 128 \in Codes /\ ~(b >= 128)
        /\ b \in LockCodes => b \in Codes
    <3>  HIDE DEF b
    <3>. QED  BY <1>3, ScancodeBits, Zenon
  <2>1. CASE HandlePrefix
    <3>1. b = Prefix /\ extcode_state' = TRUE /\ screen' = NoChar
          /\ keymap' = keymap /\ locks' = locks
      BY <2>1 DEF HandlePrefix
    <3>. QED  BY <1>5, <2>a, <2>b, <3>1 DEF HeldAfter, OnAfter, Shows
  <2>2. CASE HandleOther
    <3>1. b # Prefix /\ b % 128 \notin Codes
          /\ extcode_state' = FALSE /\ screen' = NoChar
          /\ keymap' = keymap /\ locks' = locks
      BY <1>4, <2>b, <2>2 DEF HandleOther, Codes, KEY_PRINT_SCREEN
    <3>. QED  BY <1>5, <2>b, <3>1 DEF HeldAfter, OnAfter, Shows
  <2>3. CASE HandleBreak
    <3>1. b % 128 \in Codes /\ b >= 128
          /\ extcode_state' = FALSE /\ screen' = NoChar
          /\ keymap' = keymap \ {<<b % 128, ext>>} /\ locks' = locks
      BY <1>4, <2>3 DEF HandleBreak
    <3>2. b # Prefix
      BY <2>a, <3>1
    <3>. QED  BY <1>5, <2>b, <3>1, <3>2 DEF HeldAfter, OnAfter, Shows
  <2>4. CASE HandleMake
    <3>1. b % 128 \in Codes /\ ~(b >= 128) /\ b % 128 = b /\ b \in Codes
          /\ extcode_state' = FALSE
          /\ keymap' = keymap \cup {<<b, ext>>} /\ locks' = Toggled(b)
          /\ screen' = CharOf(b, ext, keymap', locks')
      BY <1>3, <1>4, <2>b, <2>4 DEF HandleMake
    <3>2. b # Prefix
      BY <2>a, <3>1
    <3>3. keymap' = HeldAfter(Now, b) /\ locks' = OnAfter(Now, b)
      BY <1>5, <3>1 DEF HeldAfter, OnAfter, Toggled
    <3>. QED  BY <1>5, <3>1, <3>2, <3>3 DEF Shows
  <2>. QED  BY <2>1, <2>2, <2>3, <2>4 DEF keymap_handler
<1>8. Now' = After(Now, b)
  BY <1>5, <1>6, <1>7 DEF After
<1>. QED  BY <1>1, <1>2, <1>3, <1>6, <1>7, <1>8

\* The driver goes one byte forward on the way it has.
LEMMA HandlerKeeps ==
  ASSUME IInv, keymap_handler
  PROVE  /\ IInv'
         /\ Head(wire).char \in {Unknown, screen'}
<1>1. PICK t \in States : Reads(Now, wire, t) /\ Agrees(t)
  BY DEF IInv
<1>2. TypeOK /\ wire \in Seq(Bytes) /\ Now \in States
  BY NowType DEF IInv, TypeOK, Bytes
<1>3. /\ wire # <<>> /\ scancode \in 0 .. 255 /\ scancode = Head(wire).byte
      /\ wire' = Tail(wire) /\ wire' \in Seq(Bytes)
      /\ Len(wire') = Len(wire) - 1
      /\ UNCHANGED <<down, toggled, sending, half, lost>>
      /\ Now' = After(Now, scancode)
      /\ screen' = Shows(Now, scancode)
      /\ extcode_state' \in BOOLEAN
  BY <1>2, HandlerReads DEF scancode
<1>4. /\ Head(wire).char \in {Unknown, screen'}
      /\ Reads(Now', wire', t)
  BY <1>1, <1>2, <1>3, ReadFirst
<1>5. Agrees(t)'
  BY <1>1, <1>3 DEF Agrees
<1>6. TypeOK'
  <2>1. Now' \in States /\ screen' \in Chars
    BY <1>2, <1>3, AfterType
  <2>2. keymap' \subseteq Flags /\ locks' \subseteq LockCodes
    BY <2>1 DEF States, Now
  <2>3. Len(wire) \in Nat /\ WireMax \in Nat
    BY <1>2, WireAssumption
  <2>. QED  BY <1>2, <1>3, <2>1, <2>2, <2>3 DEF TypeOK, Bytes
<1>7. sending' \in Seq(PauseCodes)
  BY <1>3 DEF IInv
<1>. QED  BY <1>4, <1>5, <1>6, <1>7 DEF IInv

-----------------------------------------------------------------------------
(***************************************************************************)
(* The keyboard.                                                           *)
(***************************************************************************)
\* What is stored of one or two bytes, by the room there is.
LEMMA StoredBytes ==
  ASSUME NEW w \in Seq(Bytes), NEW a \in Bytes, NEW b \in Bytes
  PROVE  /\ w \o SubSeq(<<a>>, 1, 1) = Append(w, a)
         /\ w \o SubSeq(<<a, b>>, 1, 1) = Append(w, a)
         /\ w \o SubSeq(<<a, b>>, 1, 2) = Append(Append(w, a), b)
         /\ w \o SubSeq(<<a>>, 1, 0) = w
         /\ w \o SubSeq(<<a, b>>, 1, 0) = w
<1>0. /\ <<a>> \in Seq(Bytes) /\ Len(<<a>>) = 1 /\ <<a>>[1] = a
      /\ <<a, b>> \in Seq(Bytes) /\ Len(<<a, b>>) = 2 /\ <<a, b>>[1] = a
  OBVIOUS
<1>1. /\ SubSeq(<<a>>, 1, 1) = <<a>> /\ SubSeq(<<a, b>>, 1, 1) = <<a>>
      /\ SubSeq(<<a, b>>, 1, 2) = <<a, b>>
  <2>1. SubSeq(<<a>>, 1, 1) = <<a>> /\ SubSeq(<<a, b>>, 1, 2) = <<a, b>>
    BY <1>0, SubSeqFull
  <2>2. 1 \in 1 .. Len(<<a, b>>) /\ 1 \in 1 .. Len(<<a, b>>)
    BY <1>0
  <2>3. SubSeq(<<a, b>>, 1, 1) = << <<a, b>>[1] >> \o SubSeq(<<a, b>>, 2, 1)
    BY <1>0, <2>2, SubSeqRecursiveFirst
  <2>4. SubSeq(<<a, b>>, 2, 1) = <<>>
    BY SubSeqEmpty
  <2>5. <<a>> \o <<>> = <<a>>
    BY <1>0, ConcatEmptySeq
  <2>. QED  BY <1>0, <2>1, <2>3, <2>4, <2>5
<1>2. SubSeq(<<a>>, 1, 0) = <<>> /\ SubSeq(<<a, b>>, 1, 0) = <<>>
  BY SubSeqEmpty
<1>3. w \o <<>> = w
  BY ConcatEmptySeq
<1>4. w \o <<a>> = Append(w, a)
  BY AppendIsConcat
<1>5. w \o <<a, b>> = Append(Append(w, a), b)
  <2>0. <<b>> \in Seq(Bytes) /\ <<a, b>> = Append(<<a>>, b)
    OBVIOUS
  <2>1. <<a, b>> = <<a>> \o <<b>>
    BY <1>0, <2>0, AppendIsConcat
  <2>2. (w \o <<a>>) \o <<b>> = w \o <<a, b>>
    BY <1>0, <2>0, <2>1, ConcatAssociative
  <2>3. Append(w, a) \in Seq(Bytes)
    BY AppendProperties
  <2>. QED  BY <1>4, <2>2, <2>3, AppendIsConcat
<1>. QED  BY <1>1, <1>2, <1>3, <1>4, <1>5

\* The make code and the break code of a key.
CodesOf(k) == {k[1], k[1] + 128}

\* The flags and codes of keys.
LEMMA KeyCodes ==
  ASSUME NEW k \in Flags, NEW code \in CodesOf(k)
  PROVE  /\ k = <<k[1], k[2]>> /\ k[1] \in Codes /\ k[2] \in {2, 3}
         /\ code \in 0 .. 255 /\ code # Prefix
         /\ code % 128 = k[1]
         /\ code = k[1] => code \in Codes /\ ~(code >= 128)
         /\ code # k[1] => code \notin Codes /\ code \notin LockCodes
                           /\ code >= 128
<1>1. k = <<k[1], k[2]>> /\ k[1] \in Codes /\ k[2] \in {2, 3}
  BY DEF Flags
<1>2. k[1] \in 0 .. 95
  BY <1>1 DEF Codes, KEY_PRINT_SCREEN
<1>3. code \in 0 .. 255 /\ code # Prefix
  BY <1>2 DEF Prefix, CodesOf
<1>4. code % 128 = k[1]
  BY <1>2 DEF CodesOf
<1>5. code # k[1] => code >= 128
  BY <1>2 DEF CodesOf
<1>6. code = k[1] => ~(code >= 128)
  BY <1>2 DEF CodesOf
<1>7. code >= 128 => code \notin Codes /\ code \notin LockCodes
  BY DEF Codes, KEY_PRINT_SCREEN, LockCodes, KEY_NUMLOCK, KEY_CAPSLOCK,
         KEY_SCRLOCK
<1>. QED  BY <1>1, <1>3, <1>4, <1>5, <1>6, <1>7

\* A prefix and the bytes that are no codes change the column only.
LEMMA NoCodeAfter ==
  ASSUME NEW t \in States, NEW b \in {Prefix} \cup OtherBytes
  PROVE  /\ After(t, b) = [col |-> IF b = Prefix THEN 3 ELSE 2,
                           held |-> t.held, on |-> t.on]
         /\ Shows(t, b) = NoChar
         /\ Stored(b, NoChar) \in Bytes /\ b \in 0 .. 255
<1>1. b \in {224, 225, 250, 254, 255}
  BY OtherAssumption DEF Prefix
<1>2. b % 128 \in {96, 97, 122, 126, 127}
  BY <1>1
<1>3. b \notin Codes /\ b \notin LockCodes /\ b % 128 \notin Codes
      /\ b \in 0 .. 255
  BY <1>1, <1>2 DEF Codes, LockCodes, KEY_PRINT_SCREEN, KEY_NUMLOCK,
                    KEY_CAPSLOCK, KEY_SCRLOCK
<1>. QED  BY <1>3, NoCharType
          DEF After, HeldAfter, OnAfter, Shows, Stored, Bytes

\* A code reaches the entry of its own column.
Reaches(t, k, code) ==
  /\ After(t, code).col = 2
  /\ After(t, code).held =
       IF code = k[1] THEN t.held \cup {<<k[1], t.col>>}
       ELSE t.held \ {<<k[1], t.col>>}
  /\ After(t, code).on = OnAfter(t, code)
  /\ Shows(t, code) =
       IF code = k[1]
         THEN CharOf(k[1], t.col, t.held \cup {<<k[1], t.col>>},
                     OnAfter(t, code))
         ELSE NoChar

LEMMA CodeAfter ==
  ASSUME NEW t \in States, NEW k \in Flags, NEW code \in CodesOf(k)
  PROVE  Reaches(t, k, code)
<1>1. /\ k[1] \in Codes /\ code # Prefix /\ code % 128 = k[1]
      /\ code = k[1] => code \in Codes /\ ~(code >= 128)
      /\ code # k[1] => code \notin Codes /\ code >= 128
  <2>1. k[1] \in Codes /\ code # Prefix /\ code % 128 = k[1]
    BY KeyCodes, Zenon
  <2>2. code = k[1] => code \in Codes /\ ~(code >= 128)
    BY KeyCodes, Zenon
  <2>3. code # k[1] => code \notin Codes /\ code >= 128
    BY KeyCodes, Zenon
  <2>. QED  BY <2>1, <2>2, <2>3
<1>. QED  BY <1>1 DEF After, HeldAfter, Shows, Reaches

\* The states and the bytes behind those that are stored.
LEMMA StorePrefix ==
  ASSUME NEW s \in States, NEW t \in States, NEW w \in Seq(Bytes),
         Reads(s, w, t)
  PROVE  LET u == [col |-> 3, held |-> t.held, on |-> t.on]
             p == Stored(Prefix, NoChar)
         IN  /\ u \in States /\ p \in Bytes
             /\ Append(w, p) \in Seq(Bytes)
             /\ Len(Append(w, p)) = Len(w) + 1
             /\ Reads(s, Append(w, p), u)
<1>  DEFINE u == [col |-> 3, held |-> t.held, on |-> t.on]
            p == Stored(Prefix, NoChar)
<1>1. After(t, Prefix) = u /\ Shows(t, Prefix) = NoChar /\ p \in Bytes
      /\ Prefix \in 0 .. 255
  BY NoCodeAfter
<1>2. p.byte = Prefix /\ p.char = NoChar
  BY DEF Stored
<1>3. u \in States
  BY <1>1, AfterType
<1>4. Reads(s, Append(w, p), After(t, p.byte))
  BY <1>1, <1>2, ReadLast
<1>5. Append(w, p) \in Seq(Bytes) /\ Len(Append(w, p)) = Len(w) + 1
  BY <1>1, AppendProperties
<1>. QED  BY <1>1, <1>2, <1>3, <1>4, <1>5

\* A character that is what a byte shows, or not known.
Right(char, s, b) == char \in {Unknown, Shows(s, b)}

\* The bytes w, n in all, lead from the state s to the state t.
Leads(s, w, t, n) ==
  w \in Seq(Bytes) /\ Len(w) = n /\ t \in States /\ Reads(s, w, t)

LEMMA StoreCode ==
  ASSUME NEW s \in States, NEW t \in States, NEW w \in Seq(Bytes),
         Reads(s, w, t),
         NEW code \in 0 .. 255, NEW char, Right(char, t, code)
  PROVE  Leads(s, Append(w, Stored(code, char)), After(t, code), Len(w) + 1)
<1>1. After(t, code) \in States /\ char \in Chars
  BY AfterType, NoCharType DEF Right
<1>2. /\ Stored(code, char) \in Bytes
      /\ Stored(code, char).byte = code /\ Stored(code, char).char = char
  BY <1>1 DEF Stored, Bytes
<1>3. Reads(s, Append(w, Stored(code, char)),
            After(t, Stored(code, char).byte))
  BY <1>2, ReadLast DEF Right
<1>. QED  BY <1>1, <1>2, <1>3, AppendProperties DEF Leads

\* The lock keys that were pressed an odd number of times, after a code.
Flipped(set, code) ==
  IF code \notin LockCodes THEN set
  ELSE IF code \in set THEN set \ {code} ELSE set \cup {code}

\* When the keyboard knows about the modifiers, so does the driver when it
\* gets to the code, and shows what is due.
LEMMA CharDue ==
  ASSUME NEW t \in States, Agrees(t), TypeOK, lost \cap Modifiers = {},
         NEW k \in Keys
  PROVE  CharOf(k[1], k[2], t.held \cup {k}, OnAfter(t, k[1])) =
         CharOf(k[1], k[2], down \cup {k}, Flipped(toggled, k[1]))
<1>1. \A m \in Shifts : m \in t.held \cup {k} <=> m \in down \cup {k}
  <2>  SUFFICES ASSUME NEW m \in Shifts
                PROVE  m \in t.held <=> m \in down
    OBVIOUS
  <2>1. m \notin lost
    BY DEF Modifiers, Shifts
  <2>2. CASE m \in Keys
    BY <2>1, <2>2 DEF Agrees
  <2>3. CASE m \notin Keys
    BY <2>1, <2>3 DEF Agrees, TypeOK
  <2>. QED  BY <2>2, <2>3
<1>2. shift_state(t.held \cup {k}) <=> shift_state(down \cup {k})
  BY <1>1 DEF shift_state, Shifts
<1>3. KEY_CAPSLOCK \in OnAfter(t, k[1])
        <=> KEY_CAPSLOCK \in Flipped(toggled, k[1])
  <2>1. <<KEY_CAPSLOCK, 0>> \notin lost /\ KEY_CAPSLOCK \in LockCodes
    BY DEF Modifiers, LockCodes
  <2>2. KEY_CAPSLOCK \in t.on <=> KEY_CAPSLOCK \in toggled
    BY <2>1 DEF Agrees
  <2>. QED  BY <2>2 DEF OnAfter, Flipped
<1>4. (shift_state(t.held \cup {k}) # (KEY_CAPSLOCK \in OnAfter(t, k[1])))
        <=> (shift_state(down \cup {k})
               # (KEY_CAPSLOCK \in Flipped(toggled, k[1])))
  BY <1>2, <1>3 DEF shift_state
<1>. QED  BY <1>4, Zenon DEF CharOf

Misread(k) == half /\ k[2] = 2
Known(k, char) ==
  IF Misread(k) \/ lost \cap Modifiers # {} THEN Unknown ELSE char

\* What Send stores and notes, by the kind of key and the room there is.
Sent(k, code, char, doubt) ==
  LET p == Stored(Prefix, NoChar)
      c == Stored(code, Known(k, char))
  IN  \/ /\ Room = 0 /\ wire' = wire /\ half' = half
         /\ lost' = doubt \cup (lost \cup Uncertain(k, code))
      \/ /\ k[2] = 3 /\ Room = 1
         /\ wire' = Append(wire, p) /\ half' = TRUE
         /\ lost' = doubt \cup (lost \cup Uncertain(k, code))
      \/ /\ k[2] = 3 /\ Room > 1
         /\ wire' = Append(Append(wire, p), c) /\ half' = FALSE
         /\ lost' = doubt \cup (lost \ {k})
      \/ /\ k[2] = 2 /\ Room > 0
         /\ wire' = Append(wire, c) /\ half' = FALSE
         /\ lost' = doubt \cup
                     IF Misread(k)
                       THEN lost \cup (Keys \cap {<<k[1], 2>>, <<k[1], 3>>})
                       ELSE lost \ {k}

LEMMA SendCases ==
  ASSUME TypeOK, NEW k \in Flags, NEW code \in 0 .. 255, NEW char \in Chars,
         NEW doubt, Send(k, code, char, doubt)
  PROVE  Sent(k, code, char, doubt)
<1>  DEFINE p == Stored(Prefix, NoChar)
            c == Stored(code, Known(k, char))
<1>1. /\ wire \in Seq(Bytes) /\ half \in BOOLEAN /\ k[2] \in {2, 3}
      /\ Room \in Nat
  <2>1. wire \in Seq(Bytes) /\ half \in BOOLEAN /\ k[2] \in {2, 3}
    BY DEF TypeOK, Bytes, Flags
  <2>2. Len(wire) \in Nat /\ WireMax \in Nat /\ Len(wire) <= WireMax
    BY <2>1, WireAssumption DEF TypeOK
  <2>. QED  BY <2>1, <2>2 DEF Room
<1>2. p \in Bytes /\ c \in Bytes
  BY NoCharType DEF Stored, Bytes, Known, Prefix
<1>3. /\ wire \o SubSeq(<<c>>, 1, 1) = Append(wire, c)
      /\ wire \o SubSeq(<<p, c>>, 1, 1) = Append(wire, p)
      /\ wire \o SubSeq(<<p, c>>, 1, 2) = Append(Append(wire, p), c)
      /\ wire \o SubSeq(<<c>>, 1, 0) = wire
      /\ wire \o SubSeq(<<p, c>>, 1, 0) = wire
  BY <1>1, <1>2, StoredBytes
<1>4. Len(<<c>>) = 1 /\ Len(<<p, c>>) = 2
  OBVIOUS
<1>  DEFINE bytes == IF k[2] = 3 THEN <<p, c>> ELSE <<c>>
            fits == Len(bytes) <= Room
<1>5. /\ wire' = wire \o SubSeq(bytes, 1, IF fits THEN Len(bytes) ELSE Room)
      /\ half' = IF Room = 0 THEN half ELSE ~fits
      /\ lost' = doubt \cup
                 IF ~fits THEN lost \cup Uncertain(k, code)
                 ELSE IF Misread(k)
                 THEN lost \cup (Keys \cap {<<k[1], 2>>, <<k[1], 3>>})
                 ELSE lost \ {k}
  BY Zenon DEF Send, Known, Misread
<1>  HIDE DEF p, c
<1>6. CASE Room = 0
  <2>1. ~fits
    BY <1>4, <1>6
  <2>2. wire' = wire \o SubSeq(bytes, 1, 0) /\ half' = half
        /\ lost' = doubt \cup (lost \cup Uncertain(k, code))
    BY <1>5, <1>6, <2>1, Zenon
  <2>3. wire' = wire
    BY <1>3, <2>2
  <2>. QED  BY <1>6, <2>2, <2>3 DEF Sent
<1>7. CASE k[2] = 3 /\ Room = 1
  <2>1. ~fits /\ bytes = <<p, c>> /\ Room # 0
    BY <1>4, <1>7
  <2>2. wire' = Append(wire, p)
    BY <1>3, <1>5, <1>7, <2>1
  <2>3. half' = TRUE /\ lost' = doubt \cup (lost \cup Uncertain(k, code))
    BY <1>5, <2>1, Zenon
  <2>. QED  BY <1>7, <2>2, <2>3 DEF p, Sent
<1>8. CASE k[2] = 3 /\ Room > 1
  <2>1. fits /\ bytes = <<p, c>> /\ Room # 0 /\ Len(bytes) = 2 /\ k[2] # 2
    BY <1>1, <1>4, <1>8
  <2>2. wire' = Append(Append(wire, p), c)
    BY <1>3, <1>5, <2>1
  <2>3. half' = FALSE /\ lost' = doubt \cup (lost \ {k})
    BY <1>5, <2>1, Zenon DEF Misread
  <2>. QED  BY <1>8, <2>2, <2>3 DEF p, c, Sent
<1>9. CASE k[2] = 2 /\ Room > 0
  <2>1. fits /\ bytes = <<c>> /\ Room # 0 /\ Len(bytes) = 1
    BY <1>1, <1>4, <1>9
  <2>2. wire' = Append(wire, c)
    BY <1>3, <1>5, <2>1
  <2>3. /\ half' = FALSE
        /\ lost' = doubt \cup
                     IF Misread(k)
                       THEN lost \cup (Keys \cap {<<k[1], 2>>, <<k[1], 3>>})
                       ELSE lost \ {k}
    BY <1>5, <2>1, Zenon
  <2>. QED  BY <1>9, <2>2, <2>3 DEF c, Sent
<1>10. \/ Room = 0
       \/ k[2] = 3 /\ Room = 1
       \/ k[2] = 3 /\ Room > 1
       \/ k[2] = 2 /\ Room > 0
  BY <1>1
<1>. QED  BY <1>6, <1>7, <1>8, <1>9, <1>10, Zenon

\* The locks follow a code, or the one it switches is in doubt.
Follow(code) ==
  \/ toggled' = Flipped(toggled, code)
  \/ /\ toggled' = toggled
     /\ code \in LockCodes => <<code, 0>> \in lost'

\* What is lost is noted: a driver that learns nothing of the key still agrees
\* with the keyboard.
LEMMA LossAgrees ==
  ASSUME NEW t \in States, NEW u \in States, Agrees(t), TypeOK,
         NEW k \in Keys, NEW code \in CodesOf(k),
         u.held = t.held, u.on = t.on, u.col = IF half' THEN 3 ELSE 2,
         NEW doubt, lost' = doubt \cup (lost \cup Uncertain(k, code)),
         down' = IF code = k[1] THEN down \cup {k} ELSE down \ {k},
         Follow(code)
  PROVE  Agrees(u)'
<1>1. Shifts \cap u.held \subseteq Keys
  BY DEF Agrees
<1>2. ASSUME NEW x \in Keys \ lost'
      PROVE  x \in u.held <=> x \in down'
  <2>1. x # k /\ x \in Keys \ lost
    BY DEF Uncertain
  <2>2. x \in down' <=> x \in down
    BY <2>1
  <2>. QED  BY <2>1, <2>2 DEF Agrees
<1>3. ASSUME NEW lock \in LockCodes
      PROVE  <<lock, 0>> \in lost' \/ (lock \in u.on <=> lock \in toggled')
  <2>1. CASE lock = code
    BY <2>1 DEF Uncertain
  <2>2. CASE lock # code
    <3>1. lock \in toggled' <=> lock \in toggled
      BY <2>2 DEF Flipped, Follow
    <3>2. <<lock, 0>> \in lost => <<lock, 0>> \in lost'
      OBVIOUS
    <3>. QED  BY <3>1, <3>2 DEF Agrees
  <2>. QED  BY <2>1, <2>2
<1>. QED  BY <1>1, <1>2, <1>3 DEF Agrees

\* So does one that gets the code, in the column the key has or in another if
\* a prefix is left over.
LEMMA CodeAgrees ==
  ASSUME NEW t \in States, NEW u \in States, Agrees(t), TypeOK,
         NEW k \in Keys, NEW code \in CodesOf(k),
         NEW column \in {2, 3},
         u.col = 2, half' = FALSE,
         u.held = IF code = k[1] THEN t.held \cup {<<k[1], column>>}
                  ELSE t.held \ {<<k[1], column>>},
         u.on = OnAfter(t, code),
         NEW doubt,
         \/ column = k[2] /\ lost' = doubt \cup (lost \ {k})
         \/ /\ column = 3
            /\ lost' = doubt \cup
                         (lost \cup (Keys \cap {<<k[1], 2>>, <<k[1], 3>>})),
         doubt \cap Keys = {},
         down' = IF code = k[1] THEN down \cup {k} ELSE down \ {k},
         Follow(code)
  PROVE  Agrees(u)'
<1>0. k = <<k[1], k[2]>> /\ k[2] \in {2, 3}
  BY KeysAssumption, KeyCodes
<1>1. ASSUME NEW x \in Shifts \cap u.held
      PROVE  x \in Keys
  <2>1. CASE x \in t.held
    BY <1>1, <2>1 DEF Agrees
  <2>2. CASE x = <<k[1], column>>
    <3>1. column = 2
      BY <1>1, <2>2 DEF Shifts
    <3>. QED  BY <1>0, <2>2, <3>1
  <2>. QED  BY <1>1, <2>1, <2>2
<1>2. ASSUME NEW x \in Keys \ lost'
      PROVE  x \in u.held <=> x \in down'
  <2>1. CASE column = k[2] /\ lost' = doubt \cup (lost \ {k})
    <3>1. CASE x = k
      BY <1>0, <2>1, <3>1
    <3>2. CASE x # k
      <4>1. x \in Keys \ lost /\ x # <<k[1], column>>
        BY <1>0, <2>1, <3>2
      <4>2. x \in t.held <=> x \in down
        BY <4>1 DEF Agrees
      <4>. QED  BY <3>2, <4>1, <4>2
    <3>. QED  BY <3>1, <3>2
  <2>2. CASE /\ column = 3
             /\ lost' = doubt \cup
                          (lost \cup (Keys \cap {<<k[1], 2>>, <<k[1], 3>>}))
    <3>1. /\ x \in Keys \ lost
          /\ x # <<k[1], 2>> /\ x # <<k[1], 3>>
      BY <2>2
    <3>2. x # k /\ x # <<k[1], column>>
      BY <1>0, <2>2, <3>1
    <3>3. x \in t.held <=> x \in down
      BY <3>1 DEF Agrees
    <3>. QED  BY <3>2, <3>3
  <2>. QED  BY <2>1, <2>2
<1>3. ASSUME NEW lock \in LockCodes
      PROVE  <<lock, 0>> \in lost' \/ (lock \in u.on <=> lock \in toggled')
  <2>1. <<lock, 0>> \in lost => <<lock, 0>> \in lost'
    BY <1>0
  <2>2. <<lock, 0>> \in lost \/ (lock \in t.on <=> lock \in toggled)
    BY DEF Agrees
  <2>3. (lock \in t.on <=> lock \in toggled) =>
          (lock \in OnAfter(t, code) <=> lock \in Flipped(toggled, code))
    BY DEF OnAfter, Flipped
  <2>4. CASE toggled' = Flipped(toggled, code)
    BY <2>1, <2>2, <2>3, <2>4
  <2>5. CASE /\ toggled' = toggled
             /\ code \in LockCodes => <<code, 0>> \in lost'
    <3>1. lock # code => (lock \in OnAfter(t, code) <=> lock \in t.on)
      BY DEF OnAfter
    <3>. QED  BY <2>1, <2>2, <2>5, <3>1
  <2>. QED  BY <2>4, <2>5 DEF Follow
<1>. QED  BY <1>1, <1>2, <1>3 DEF Agrees

\* Whatever room there is for a code, the invariant holds afterwards.
LEMMA SendKeeps ==
  ASSUME IInv, NEW k \in Keys, NEW code \in CodesOf(k),
         NEW char \in Chars, NEW doubt \in SUBSET (LockCodes \X {0}),
         Send(k, code, char, doubt), Driver, UNCHANGED sending,
         down' = IF code = k[1] THEN down \cup {k} ELSE down \ {k},
         Follow(code), toggled' \subseteq LockCodes,
         char = IF code = k[1] THEN CharOf(k[1], k[2], down \cup {k}, toggled')
                ELSE NoChar
  PROVE  IInv'
<1>  DEFINE p == Stored(Prefix, NoChar)
            c == Stored(code, Known(k, char))
<1>1. PICK t \in States : Reads(Now, wire, t) /\ Agrees(t)
  BY DEF IInv
<1>2. /\ TypeOK /\ wire \in Seq(Bytes) /\ Now \in States /\ k \in Flags
      /\ Now' = Now
  BY NowType, KeysAssumption DEF IInv, TypeOK, Bytes, Driver, Now, ext
<1>3. /\ k = <<k[1], k[2]>> /\ k[1] \in Codes /\ k[2] \in {2, 3}
      /\ code \in 0 .. 255
  BY <1>2, KeyCodes
<1>4. /\ t.col \in {2, 3} /\ t.col = IF half THEN 3 ELSE 2
      /\ half \in BOOLEAN
  BY <1>1, <1>2 DEF Agrees, States, TypeOK
<1>c. \A u \in States : Reaches(u, k, code)
  BY <1>2, CodeAfter
\* The state that gets to the code, and the character it shows.
<1>5. ASSUME NEW u \in States, u.held = t.held, u.on = t.on,
             ~Misread(k) => u.col = k[2]
      PROVE  Right(Known(k, char), u, code)
  <2>1. CASE Misread(k) \/ lost \cap Modifiers # {}
    BY <2>1 DEF Known, Right
  <2>2. CASE ~Misread(k) /\ lost \cap Modifiers = {} /\ code = k[1]
    <3>1. Known(k, char) = CharOf(k[1], k[2], down \cup {k},
                                  Flipped(toggled, k[1]))
      <4>1. Known(k, char) = CharOf(k[1], k[2], down \cup {k}, toggled')
        BY <2>2 DEF Known
      <4>2. CASE toggled' = Flipped(toggled, k[1])
        BY <4>1, <4>2
      <4>3. CASE k[1] \in LockCodes
        BY <4>1, <4>3, LockChar
      <4>4. CASE k[1] \notin LockCodes
        BY <2>2, <4>1, <4>4 DEF Follow, Flipped
      <4>. QED  BY <4>2, <4>3, <4>4
    <3>2. Known(k, char) = CharOf(k[1], k[2], t.held \cup {k},
                                  OnAfter(t, k[1]))
      BY <1>1, <1>2, <2>2, <3>1, CharDue
    <3>3. OnAfter(t, k[1]) = OnAfter(u, k[1])
      BY <1>5 DEF OnAfter
    <3>4. u.col = k[2] /\ <<k[1], u.col>> = k
      BY <1>3, <1>5, <2>2
    <3>5. Shows(u, code) = CharOf(k[1], k[2], t.held \cup {k},
                                  OnAfter(t, k[1]))
      BY <1>5, <1>c, <2>2, <3>3, <3>4 DEF Reaches
    <3>. QED  BY <3>2, <3>5 DEF Right
  <2>3. CASE ~Misread(k) /\ lost \cap Modifiers = {} /\ code # k[1]
    <3>1. Known(k, char) = NoChar
      BY <2>3 DEF Known
    <3>2. Shows(u, code) = NoChar
      BY <1>c, <2>3 DEF Reaches
    <3>. QED  BY <3>1, <3>2 DEF Right
  <2>. QED  BY <2>1, <2>2, <2>3
<1>6. /\ wire' \in Seq(Bytes) /\ Len(wire') <= WireMax /\ half' \in BOOLEAN
      /\ lost' \subseteq Keys \cup (LockCodes \X {0})
      /\ \E u \in States : Reads(Now, wire', u) /\ Agrees(u)'
  <2>0. /\ Room \in Nat /\ Room = WireMax - Len(wire)
        /\ Len(wire) \in Nat /\ WireMax \in Nat
    BY <1>2, WireAssumption DEF Room, TypeOK
  <2>a. /\ lost \subseteq Keys \cup (LockCodes \X {0})
        /\ Uncertain(k, code) \subseteq Keys \cup (LockCodes \X {0})
        /\ doubt \subseteq Keys \cup (LockCodes \X {0})
    BY <1>2 DEF TypeOK, Uncertain
  <2>b. doubt \cap Keys = {}
    BY KeysAssumption DEF Flags
  <2>1. CASE /\ Room = 0 /\ wire' = wire /\ half' = half
             /\ lost' = doubt \cup (lost \cup Uncertain(k, code))
    <3>1. t.col = IF half' THEN 3 ELSE 2
      BY <1>4, <2>1
    <3>2. Agrees(t)'
      BY <1>1, <1>2, <2>1, <3>1, LossAgrees
    <3>3. Len(wire') <= WireMax
      BY <2>0, <2>1
    <3>. QED  BY <1>1, <1>2, <1>4, <2>1, <2>a, <3>2, <3>3
  <2>2. CASE /\ k[2] = 3 /\ Room = 1
             /\ wire' = Append(wire, p) /\ half' = TRUE
             /\ lost' = doubt \cup (lost \cup Uncertain(k, code))
    <3>  DEFINE u == [col |-> 3, held |-> t.held, on |-> t.on]
    <3>1. /\ u \in States /\ wire' \in Seq(Bytes)
          /\ Len(wire') = Len(wire) + 1 /\ Reads(Now, wire', u)
      BY <1>1, <1>2, <2>2, StorePrefix
    <3>2. u.held = t.held /\ u.on = t.on /\ u.col = 3
      OBVIOUS
    <3>  HIDE DEF u
    <3>3. u.col = IF half' THEN 3 ELSE 2
      BY <2>2, <3>2
    <3>4. Agrees(u)'
      BY <1>1, <1>2, <2>2, <3>1, <3>2, <3>3, LossAgrees
    <3>5. Len(wire') <= WireMax
      BY <2>0, <2>2, <3>1
    <3>. QED  BY <2>2, <2>a, <3>1, <3>4, <3>5
  <2>3. CASE /\ k[2] = 3 /\ Room > 1
             /\ wire' = Append(Append(wire, p), c) /\ half' = FALSE
             /\ lost' = doubt \cup (lost \ {k})
    <3>  DEFINE u == [col |-> 3, held |-> t.held, on |-> t.on]
                w == Append(wire, p)
    <3>1. /\ u \in States /\ w \in Seq(Bytes)
          /\ Len(w) = Len(wire) + 1 /\ Reads(Now, w, u)
      BY <1>1, <1>2, StorePrefix
    <3>2. u.held = t.held /\ u.on = t.on /\ u.col = 3
      OBVIOUS
    <3>3. wire' = Append(w, c)
      BY <2>3
    <3>  HIDE DEF u, w, c
    <3>4. Right(Known(k, char), u, code)
      BY <1>5, <2>3, <3>1, <3>2
    <3>5. /\ wire' \in Seq(Bytes) /\ Len(wire') = Len(w) + 1
          /\ After(u, code) \in States /\ Reads(Now, wire', After(u, code))
      <4>1. Leads(Now, Append(w, Stored(code, Known(k, char))),
                  After(u, code), Len(w) + 1)
        BY <1>2, <1>3, <3>1, <3>4, StoreCode
      <4>. QED  BY <3>3, <4>1 DEF c, Leads
    <3>6. /\ After(u, code).col = 2
          /\ After(u, code).held =
               IF code = k[1] THEN t.held \cup {<<k[1], 3>>}
               ELSE t.held \ {<<k[1], 3>>}
          /\ After(u, code).on = OnAfter(t, code)
      <4>1. OnAfter(u, code) = OnAfter(t, code)
        BY <3>2 DEF OnAfter
      <4>. QED  BY <1>c, <3>1, <3>2, <4>1 DEF Reaches
    <3>7. Agrees(After(u, code))'
      BY <1>1, <1>2, <2>3, <2>b, <3>5, <3>6, CodeAgrees
    <3>8. Len(wire') <= WireMax
      BY <2>0, <2>3, <3>1, <3>5
    <3>. QED  BY <2>3, <2>a, <3>5, <3>7, <3>8
  <2>4. CASE /\ k[2] = 2 /\ Room > 0
             /\ wire' = Append(wire, c) /\ half' = FALSE
             /\ lost' = doubt \cup
                         IF Misread(k)
                           THEN lost \cup
                                (Keys \cap {<<k[1], 2>>, <<k[1], 3>>})
                           ELSE lost \ {k}
    <3>1. /\ ~Misread(k) => t.col = k[2]
          /\ Misread(k) => t.col = 3
      BY <1>4, <2>4 DEF Misread
    <3>2. Right(Known(k, char), t, code)
      BY <1>1, <1>5, <3>1
    <3>  HIDE DEF c
    <3>3. /\ wire' \in Seq(Bytes) /\ Len(wire') = Len(wire) + 1
          /\ After(t, code) \in States /\ Reads(Now, wire', After(t, code))
      <4>1. Leads(Now, Append(wire, Stored(code, Known(k, char))),
                  After(t, code), Len(wire) + 1)
        BY <1>1, <1>2, <1>3, <3>2, StoreCode
      <4>. QED  BY <2>4, <4>1 DEF c, Leads
    <3>4. /\ After(t, code).col = 2
          /\ After(t, code).held =
               IF code = k[1] THEN t.held \cup {<<k[1], t.col>>}
               ELSE t.held \ {<<k[1], t.col>>}
          /\ After(t, code).on = OnAfter(t, code)
      BY <1>c DEF Reaches
    <3>5. \/ t.col = k[2] /\ lost' = doubt \cup (lost \ {k})
          \/ /\ t.col = 3
             /\ lost' = doubt \cup
                          (lost \cup (Keys \cap {<<k[1], 2>>, <<k[1], 3>>}))
      BY <2>4, <3>1
    <3>6. Agrees(After(t, code))'
      BY <1>1, <1>2, <1>4, <2>4, <2>b, <3>3, <3>4, <3>5, CodeAgrees
    <3>7. Len(wire') <= WireMax
      BY <2>0, <2>4, <3>3
    <3>. QED  BY <2>4, <2>a, <3>3, <3>6, <3>7
  <2>5. Sent(k, code, char, doubt)
    BY <1>2, <1>3, SendCases
  <2>. QED  BY <2>1, <2>2, <2>3, <2>4, <2>5, Zenon DEF Sent
<1>7. TypeOK'
  <2>1. down' \subseteq Keys /\ toggled' \subseteq LockCodes
        /\ sending' \in Seq(0 .. 255)
    BY <1>2 DEF TypeOK
  <2>2. /\ screen' \in Chars /\ keymap' \subseteq Flags
        /\ locks' \subseteq LockCodes /\ extcode_state' \in BOOLEAN
    BY <1>2, NoCharType DEF TypeOK, Driver
  <2>. QED  BY <1>6, <2>1, <2>2 DEF TypeOK, Bytes
<1>8. sending' \in Seq(PauseCodes)
  BY DEF IInv
<1>. QED  BY <1>2, <1>6, <1>7, <1>8 DEF IInv

\* A key that goes down, repeats or goes up sends one of its codes.
KeySends(k, code, char, doubt) ==
  /\ Send(k, code, char, doubt) /\ Driver
  /\ down' = IF code = k[1] THEN down \cup {k} ELSE down \ {k}
  /\ Follow(code) /\ toggled' \subseteq LockCodes
  /\ char = IF code = k[1] THEN CharOf(k[1], k[2], down \cup {k}, toggled')
            ELSE NoChar

LEMMA KeyStep ==
  ASSUME TypeOK, NEW k \in Keys, Press(k) \/ Repeat(k) \/ Release(k)
  PROVE  \E code \in CodesOf(k), char \in Chars,
            doubt \in SUBSET (LockCodes \X {0}) :
           KeySends(k, code, char, doubt)
<1>1. /\ k \in Flags /\ k = <<k[1], k[2]>>
      /\ k[1] \in Codes /\ k[2] \in {2, 3}
      /\ k[1] \in CodesOf(k) /\ k[1] + 128 \in CodesOf(k)
  BY KeysAssumption DEF Flags, CodesOf
<1>2. Due(k) \in Chars
  BY <1>1, CharType DEF Due
<1>t. \A c \in {k[1], k[1] + 128} : Flipped(toggled, c) \subseteq LockCodes
  BY DEF TypeOK, Flipped
<1>e. {} \in SUBSET (LockCodes \X {0})
  OBVIOUS
<1>3. CASE Press(k)
  <2>1. toggled' = Flipped(toggled, k[1]) /\ down' = down \cup {k}
        /\ Send(k, k[1], Due(k), {}) /\ Driver
    BY <1>3 DEF Press, Flipped
  <2>2. KeySends(k, k[1], Due(k), {})
    BY <1>t, <2>1 DEF KeySends, Due, Follow
  <2>. QED  BY <1>1, <1>2, <1>e, <2>2
<1>4. CASE Repeat(k)
  <2>  DEFINE doubt == ({k[1]} \cap LockCodes) \X {0}
  <2>1. /\ toggled' = toggled /\ down' = down \cup {k}
        /\ Send(k, k[1], Due(k), doubt) /\ Driver
    BY <1>4 DEF Repeat
  <2>2. Follow(k[1])
    <3>1. k[1] \in LockCodes => <<k[1], 0>> \in doubt
      OBVIOUS
    <3>2. doubt \subseteq lost'
      BY <2>1, Zenon DEF Send
    <3>. QED  BY <2>1, <3>1, <3>2 DEF Follow
  <2>3. doubt \in SUBSET (LockCodes \X {0}) /\ toggled' \subseteq LockCodes
    BY <2>1 DEF TypeOK
  <2>  HIDE DEF doubt
  <2>4. KeySends(k, k[1], Due(k), doubt)
    BY <2>1, <2>2, <2>3 DEF KeySends, Due
  <2>. QED  BY <1>1, <1>2, <2>3, <2>4
<1>5. CASE Release(k)
  <2>1. k[1] + 128 # k[1] /\ k[1] + 128 \notin LockCodes
    BY <1>1 DEF Codes, KEY_PRINT_SCREEN, LockCodes, KEY_NUMLOCK,
                KEY_CAPSLOCK, KEY_SCRLOCK
  <2>2. toggled' = Flipped(toggled, k[1] + 128) /\ down' = down \ {k}
        /\ Send(k, k[1] + 128, NoChar, {}) /\ Driver
    BY <1>5, <2>1 DEF Release, Flipped
  <2>3. KeySends(k, k[1] + 128, NoChar, {})
    BY <1>t, <2>1, <2>2 DEF KeySends, Follow
  <2>. QED  BY <1>1, <1>e, <2>3, NoCharType
<1>. QED  BY <1>3, <1>4, <1>5

\* What fake shifts, other bytes and the Pause key leave as it is.
LEMMA QuietKeeps ==
  ASSUME IInv, Driver, UNCHANGED <<down, toggled>>,
         sending' \in Seq(PauseCodes),
         lost' \subseteq Keys \cup (LockCodes \X {0}),
         wire' \in Seq(Bytes), Len(wire') <= WireMax, half' \in BOOLEAN,
         \E u \in States : Reads(Now, wire', u) /\ Agrees(u)'
  PROVE  IInv'
<1>1. Now' = Now /\ screen' \in Chars
  BY NoCharType DEF Driver, Now, ext
<1>2. sending' \in Seq(0 .. 255)
  BY DEF PauseCodes
<1>3. TypeOK'
  BY <1>1, <1>2 DEF IInv, TypeOK, Driver, Bytes
<1>. QED  BY <1>1, <1>3 DEF IInv

\* A fake shift turns an entry on or off that no key has.
LEMMA FakeShiftKeeps ==
  ASSUME IInv, FakeShift, UNCHANGED sending
  PROVE  IInv' /\ Len(wire') >= Len(wire)
<1>1. PICK t \in States : Reads(Now, wire, t) /\ Agrees(t)
  BY DEF IInv
<1>2. /\ TypeOK /\ wire \in Seq(Bytes) /\ Now \in States
      /\ Room = WireMax - Len(wire) /\ Room > 0
      /\ Len(wire) \in Nat /\ WireMax \in Nat
      /\ Driver /\ UNCHANGED <<down, toggled, lost>>
      /\ sending' \in Seq(PauseCodes)
      /\ lost' \subseteq Keys \cup (LockCodes \X {0})
  BY NowType, WireAssumption DEF IInv, TypeOK, Bytes, Room, FakeShift
<1>  DEFINE shift == <<KEY_SHIFT_L, 3>>
            p == Stored(Prefix, NoChar)
            u == [col |-> 3, held |-> t.held, on |-> t.on]
            w == Append(wire, p)
<1>3. PICK byte \in {KEY_SHIFT_L, KEY_SHIFT_L + 128} :
        wire' = wire \o SubSeq(<<p, Stored(byte, NoChar)>>,
                               1, IF Room > 1 THEN 2 ELSE 1)
  BY DEF FakeShift
<1>4. half' = (Room = 1)
  BY DEF FakeShift
<1>5. /\ shift \in Flags /\ shift \notin Keys /\ byte \in CodesOf(shift)
      /\ byte \notin LockCodes /\ shift[1] = KEY_SHIFT_L /\ shift[2] = 3
      /\ byte \in 0 .. 255
  BY KeysAssumption
  DEF Flags, Codes, CodesOf, LockCodes, KEY_SHIFT_L, KEY_PRINT_SCREEN,
      KEY_NUMLOCK, KEY_CAPSLOCK, KEY_SCRLOCK
<1>6. p \in Bytes /\ Stored(byte, NoChar) \in Bytes
  BY <1>5, NoCharType DEF Stored, Bytes, Prefix
<1>7. /\ u \in States /\ w \in Seq(Bytes) /\ Len(w) = Len(wire) + 1
      /\ Reads(Now, w, u)
  BY <1>1, <1>2, StorePrefix
<1>8. u.col = 3 /\ u.held = t.held /\ u.on = t.on
  OBVIOUS
<1>  HIDE DEF u
<1>9. CASE Room = 1
  <2>1. wire' = w
    BY <1>2, <1>3, <1>6, <1>9, StoredBytes
  <2>2. half' = TRUE
    BY <1>4, <1>9
  <2>3. Agrees(u)'
    BY <1>1, <1>2, <1>8, <2>2 DEF Agrees
  <2>4. Len(wire') <= WireMax /\ Len(wire') >= Len(wire)
    BY <1>2, <1>7, <2>1
  <2>. QED  BY <1>2, <1>7, <2>1, <2>2, <2>3, <2>4, QuietKeeps
<1>10. CASE Room > 1
  <2>1. wire' = Append(w, Stored(byte, NoChar))
    BY <1>2, <1>3, <1>6, <1>10, StoredBytes
  <2>2. half' = FALSE
    <3>1. ~(Room = 1)
      BY <1>10
    <3>. QED  BY <1>4, <3>1
  <2>3. Reaches(u, shift, byte)
    BY <1>5, <1>7, CodeAfter
  <2>4. CharOf(KEY_SHIFT_L, 3, u.held \cup {<<KEY_SHIFT_L, u.col>>},
               OnAfter(u, byte)) = NoChar
    BY DEF CharOf, CharAt, Invisible, KEY_SHIFT_L, KEY_SLASH, KEY_PRINT_SCREEN
  <2>5. Right(NoChar, u, byte)
    BY <1>5, <1>8, <2>3, <2>4 DEF Reaches, Right
  <2>6. Leads(Now, Append(w, Stored(byte, NoChar)), After(u, byte), Len(w) + 1)
    BY <1>2, <1>5, <1>7, <2>5, StoreCode
  <2>  DEFINE v == After(u, byte)
  <2>7. /\ wire' \in Seq(Bytes) /\ Len(wire') = Len(w) + 1
        /\ v \in States /\ Reads(Now, wire', v)
    BY <2>1, <2>6 DEF Leads
  <2>8. /\ v.col = 2 /\ v.on = t.on
        /\ \A x : x # shift => (x \in v.held <=> x \in t.held)
    BY <1>5, <1>8, <2>3 DEF Reaches, OnAfter
  <2>  HIDE DEF v
  <2>9. Agrees(v)'
    <3>1. Shifts \cap v.held \subseteq Keys
      BY <1>1, <1>5, <2>8 DEF Agrees, Shifts
    <3>2. \A x \in Keys \ lost : x \in v.held <=> x \in down
      BY <1>1, <1>5, <2>8 DEF Agrees
    <3>3. \A lock \in LockCodes :
            <<lock, 0>> \in lost \/ (lock \in v.on <=> lock \in toggled)
      BY <1>1, <2>8 DEF Agrees
    <3>. QED  BY <1>2, <2>2, <2>8, <3>1, <3>2, <3>3 DEF Agrees
  <2>10. Len(wire') <= WireMax /\ Len(wire') >= Len(wire)
    BY <1>2, <1>7, <1>10, <2>7
  <2>. QED  BY <1>2, <2>2, <2>7, <2>9, <2>10, QuietKeeps
<1>11. Room = 1 \/ Room > 1
  BY <1>2
<1>. QED  BY <1>9, <1>10, <1>11

\* Any other byte ends a prefix, for both sides.
LEMMA OtherKeeps ==
  ASSUME IInv, Other, UNCHANGED sending
  PROVE  IInv' /\ Len(wire') >= Len(wire)
<1>1. PICK t \in States : Reads(Now, wire, t) /\ Agrees(t)
  BY DEF IInv
<1>2. /\ TypeOK /\ wire \in Seq(Bytes) /\ Now \in States
      /\ Room = WireMax - Len(wire) /\ Room > 0
      /\ Len(wire) \in Nat /\ WireMax \in Nat
      /\ Driver /\ UNCHANGED <<down, toggled, lost>> /\ half' = FALSE
      /\ sending' \in Seq(PauseCodes)
      /\ lost' \subseteq Keys \cup (LockCodes \X {0})
  BY NowType, WireAssumption DEF IInv, TypeOK, Bytes, Room, Other
<1>3. PICK b \in OtherBytes : wire' = Append(wire, Stored(b, NoChar))
  BY DEF Other
<1>  DEFINE u == [col |-> 2, held |-> t.held, on |-> t.on]
<1>4. /\ After(t, b) = u /\ Shows(t, b) = NoChar /\ b \in 0 .. 255
  <2>1. b # Prefix
    BY OtherAssumption DEF Prefix
  <2>. QED  BY <2>1, NoCodeAfter
<1>5. Leads(Now, Append(wire, Stored(b, NoChar)), After(t, b), Len(wire) + 1)
  BY <1>1, <1>2, <1>4, StoreCode DEF Right
<1>6. /\ wire' \in Seq(Bytes) /\ Len(wire') = Len(wire) + 1
      /\ u \in States /\ Reads(Now, wire', u)
  BY <1>3, <1>4, <1>5 DEF Leads
<1>7. u.col = 2 /\ u.held = t.held /\ u.on = t.on
  OBVIOUS
<1>  HIDE DEF u
<1>8. Agrees(u)'
  BY <1>1, <1>2, <1>7 DEF Agrees
<1>9. Len(wire') <= WireMax /\ Len(wire') >= Len(wire)
  BY <1>2, <1>6
<1>. QED  BY <1>2, <1>6, <1>8, <1>9, QuietKeeps

LEMMA KeyKeeps ==
  ASSUME IInv, NEW k \in Keys, Press(k) \/ Repeat(k) \/ Release(k),
         UNCHANGED sending
  PROVE  IInv' /\ Len(wire') >= Len(wire)
<1>1. PICK code \in CodesOf(k), char \in Chars,
           doubt \in SUBSET (LockCodes \X {0}) :
        KeySends(k, code, char, doubt)
  BY KeyStep DEF IInv
<1>2. IInv'
  BY <1>1, SendKeeps DEF KeySends
<1>3. /\ TypeOK /\ k \in Flags /\ code \in 0 .. 255
      /\ wire \in Seq(Bytes) /\ Len(wire) \in Nat
  BY KeysAssumption, KeyCodes DEF IInv, TypeOK, Bytes
<1>4. Sent(k, code, char, doubt)
  BY <1>1, <1>3, SendCases DEF KeySends
<1>  DEFINE p == Stored(Prefix, NoChar)
            c == Stored(code, Known(k, char))
<1>5. /\ Append(wire, p) \in Seq(Bytes)
      /\ Len(Append(wire, p)) = Len(wire) + 1
      /\ Len(Append(wire, c)) = Len(wire) + 1
      /\ Len(Append(Append(wire, p), c)) = Len(wire) + 1 + 1
  <2>1. p \in Bytes /\ c \in Bytes
    BY <1>3, NoCharType DEF Stored, Bytes, Known, Prefix
  <2>. QED  BY <1>3, <2>1, AppendProperties
<1>6. \/ wire' = wire \/ wire' = Append(wire, p) \/ wire' = Append(wire, c)
      \/ wire' = Append(Append(wire, p), c)
  BY <1>4, Zenon DEF Sent
<1>  HIDE DEF p, c
<1>7. Len(wire') >= Len(wire)
  BY <1>3, <1>5, <1>6
<1>. QED  BY <1>2, <1>7

\* A byte of the Pause key shows nothing and reaches the entries of its code
\* and the lock it switches, if any.
LEMMA PauseAfter ==
  ASSUME NEW t \in States, NEW b \in PauseCodes
  PROVE  /\ b \in 0 .. 255 /\ Shows(t, b) = NoChar
         /\ After(t, b) \in States
         /\ After(t, b).col = IF b = Prefix THEN 3 ELSE 2
         /\ \A x \in Shifts : x \in After(t, b).held => x \in t.held
         /\ \A x \in Keys \ Touched(b) :
              x \in After(t, b).held <=> x \in t.held
         /\ \A lock \in LockCodes :
              <<lock, 0>> \notin Touched(b) =>
                (lock \in After(t, b).on <=> lock \in t.on)
<1>1. b \in 0 .. 255 /\ b % 128 \in {97, 29, 69, 96, 70}
  BY DEF PauseCodes
<1>2. /\ After(t, b) \in States /\ t.col \in {2, 3}
      /\ After(t, b).col = IF b = Prefix THEN 3 ELSE 2
      /\ After(t, b).held = HeldAfter(t, b) /\ After(t, b).on = OnAfter(t, b)
  BY <1>1, AfterType DEF After, States
<1>3. Shows(t, b) = NoChar
  <2>1. b \in Codes => b \in {29, 69, 70}
    BY DEF PauseCodes, Codes, KEY_PRINT_SCREEN
  <2>2. \A c \in {29, 69, 70} : \A column, held, on :
          CharOf(c, column, held, on) = NoChar
    BY DEF CharOf, CharAt, Invisible, KEY_SLASH
  <2>. QED  BY <2>1, <2>2 DEF Shows
<1>4. \A x : x # <<b % 128, 2>> /\ x # <<b % 128, 3>> =>
              (x \in HeldAfter(t, b) <=> x \in t.held)
  <2>1. b % 128 \in Codes /\ ~(b >= 128) => b = b % 128
    BY <1>1, ScancodeBits
  <2>. QED  BY <1>2, <2>1 DEF HeldAfter
<1>5. ASSUME NEW x \in Shifts
      PROVE  x # <<b % 128, 2>> /\ x # <<b % 128, 3>>
  BY <1>1 DEF Shifts, KEY_SHIFT_L, KEY_SHIFT_R
<1>6. ASSUME NEW x \in Keys \ Touched(b)
      PROVE  x # <<b % 128, 2>> /\ x # <<b % 128, 3>>
  BY <1>6 DEF Touched
<1>7. ASSUME NEW lock \in LockCodes, <<lock, 0>> \notin Touched(b)
      PROVE  lock \in OnAfter(t, b) <=> lock \in t.on
  <2>1. lock # b
    BY <1>7 DEF Touched
  <2>. QED  BY <2>1 DEF OnAfter
<1>. QED  BY <1>1, <1>2, <1>3, <1>4, <1>5, <1>6, <1>7

\* What the Pause key sends puts in doubt the keys whose codes it uses.
LEMMA PauseByteKeeps ==
  ASSUME IInv, PauseByte
  PROVE  IInv' /\ Len(wire') >= Len(wire)
<1>1. PICK t \in States : Reads(Now, wire, t) /\ Agrees(t)
  BY DEF IInv
<1>2. /\ TypeOK /\ wire \in Seq(Bytes) /\ Now \in States
      /\ Room = WireMax - Len(wire) /\ Room \in Nat
      /\ Len(wire) \in Nat /\ WireMax \in Nat
      /\ half \in BOOLEAN
  <2>1. Len(wire) <= WireMax /\ wire \in Seq(Bytes)
    BY DEF IInv, TypeOK, Bytes
  <2>. QED  BY <2>1, NowType, WireAssumption DEF IInv, TypeOK, Bytes, Room
<1>3. PICK b \in PauseCodes :
        /\ sending' \in Seq(PauseCodes)
        /\ Driver /\ UNCHANGED <<down, toggled>>
        /\ lost' = lost \cup Touched(b)
        /\ \/ /\ Room > 0
              /\ wire' = Append(wire, Stored(b, NoChar))
              /\ half' = (b = Prefix)
           \/ Room = 0 /\ UNCHANGED <<wire, half>>
  <2>1. sending \in Seq(PauseCodes) /\ sending # <<>>
        /\ sending' = Tail(sending)
    BY DEF IInv, PauseByte
  <2>2. Head(sending) \in PauseCodes /\ Tail(sending) \in Seq(PauseCodes)
    BY <2>1, HeadTailProperties
  <2>. QED  BY <2>1, <2>2 DEF PauseByte
<1>5. lost' \subseteq Keys \cup (LockCodes \X {0})
  BY <1>2, <1>3 DEF Touched, TypeOK
<1>6. CASE Room = 0 /\ UNCHANGED <<wire, half>>
  <2>1. Agrees(t)'
    BY <1>1, <1>3, <1>6 DEF Agrees
  <2>2. Len(wire') <= WireMax /\ Len(wire') >= Len(wire)
    BY <1>2, <1>6 DEF TypeOK
  <2>. QED  BY <1>1, <1>2, <1>3, <1>5, <1>6, <2>1, <2>2, QuietKeeps
<1>7. CASE /\ Room > 0
           /\ wire' = Append(wire, Stored(b, NoChar))
           /\ half' = (b = Prefix)
  <2>  DEFINE u == After(t, b)
  <2>1. /\ b \in 0 .. 255 /\ Shows(t, b) = NoChar /\ u \in States
        /\ u.col = IF b = Prefix THEN 3 ELSE 2
        /\ \A x \in Shifts : x \in u.held => x \in t.held
        /\ \A x \in Keys \ Touched(b) : x \in u.held <=> x \in t.held
        /\ \A lock \in LockCodes :
             <<lock, 0>> \notin Touched(b) => (lock \in u.on <=> lock \in t.on)
    BY <1>3, PauseAfter
  <2>2. Leads(Now, Append(wire, Stored(b, NoChar)), u, Len(wire) + 1)
    BY <1>1, <1>2, <2>1, StoreCode DEF Right
  <2>  HIDE DEF u
  <2>3. /\ wire' \in Seq(Bytes) /\ Len(wire') = Len(wire) + 1
        /\ Reads(Now, wire', u)
    BY <1>7, <2>2 DEF Leads
  <2>4. Agrees(u)'
    <3>1. u.col = IF half' THEN 3 ELSE 2
      BY <1>7, <2>1
    <3>2. Shifts \cap u.held \subseteq Keys
      BY <1>1, <2>1 DEF Agrees
    <3>3. \A x \in Keys \ lost' : x \in u.held <=> x \in down'
      BY <1>1, <1>3, <2>1 DEF Agrees
    <3>4. \A lock \in LockCodes :
            <<lock, 0>> \in lost' \/ (lock \in u.on <=> lock \in toggled')
      BY <1>1, <1>3, <2>1 DEF Agrees
    <3>. QED  BY <3>1, <3>2, <3>3, <3>4 DEF Agrees
  <2>5. Len(wire') <= WireMax /\ Len(wire') >= Len(wire)
    BY <1>2, <1>7, <2>3
  <2>6. half' \in BOOLEAN
    BY <1>7
  <2>. QED  BY <1>3, <1>5, <2>1, <2>3, <2>4, <2>5, <2>6, QuietKeeps
<1>. QED  BY <1>3, <1>6, <1>7

LEMMA PauseKeeps ==
  ASSUME IInv, Pause
  PROVE  IInv' /\ Len(wire') >= Len(wire)
<1>1. PICK t \in States : Reads(Now, wire, t) /\ Agrees(t)
  BY DEF IInv
<1>2. /\ TypeOK /\ wire \in Seq(Bytes) /\ Len(wire) \in Nat
      /\ Driver /\ UNCHANGED <<wire, down, toggled, half, lost>>
  BY DEF IInv, TypeOK, Bytes, Pause
<1>3. sending' \in Seq(PauseCodes)
  <2>1. PauseBytes \in Seq(PauseCodes)
    BY DEF PauseBytes, PauseCodes, KEY_CTRL_L, KEY_NUMLOCK
  <2>2. BreakBytes \in Seq(PauseCodes)
    BY DEF BreakBytes, PauseCodes, Prefix, KEY_SCRLOCK
  <2>. QED  BY <2>1, <2>2 DEF Pause
<1>4. Agrees(t)'
  BY <1>1, <1>2 DEF Agrees
<1>. QED  BY <1>1, <1>2, <1>3, <1>4, QuietKeeps DEF TypeOK

\* Whatever the keyboard does, it takes no byte back.
LEMMA KeyboardKeeps ==
  ASSUME IInv, Keyboard
  PROVE  IInv' /\ Len(wire') >= Len(wire)
<1>1. CASE Key
  BY <1>1, KeyKeeps, FakeShiftKeeps, OtherKeeps DEF Key
<1>2. CASE Pause
  BY <1>2, PauseKeeps
<1>3. CASE PauseByte
  BY <1>3, PauseByteKeeps
<1>. QED  BY <1>1, <1>2, <1>3 DEF Keyboard

\* A keyboard with nothing stored and a driver that knows nothing agree.
LEMMA Initially ==
  ASSUME Init
  PROVE  IInv
<1>1. TypeOK
  <2>1. wire \in Seq([byte : 0 .. 255, char : Chars])
    BY EmptySeq DEF Init
  <2>2. Len(wire) <= WireMax
    BY WireAssumption DEF Init
  <2>3. /\ keymap \subseteq Flags /\ locks \subseteq LockCodes
        /\ down \subseteq Keys /\ toggled \subseteq LockCodes
        /\ lost \subseteq Keys \cup (LockCodes \X {0})
    BY DEF Init
  <2>4. extcode_state \in BOOLEAN /\ half \in BOOLEAN /\ screen \in Chars
    BY NoCharType DEF Init
  <2>5. sending = <<>> /\ <<>> \in Seq(0 .. 255)
    BY DEF Init
  <2>. QED  BY <2>1, <2>2, <2>3, <2>4, <2>5 DEF TypeOK
<1>2. Now \in States
  BY <1>1, NowType
<1>3. Reads(Now, wire, Now)
  BY <1>2, ReadNothing DEF Init
<1>4. Agrees(Now)
  BY DEF Init, Agrees, Now, ext
<1>5. sending \in Seq(PauseCodes)
  BY EmptySeq DEF Init
<1>. QED  BY <1>1, <1>2, <1>3, <1>4, <1>5 DEF IInv

LEMMA StepKeeps ==
  ASSUME IInv, [Next]_vars
  PROVE  IInv'
<1>1. CASE keymap_handler
  BY <1>1, HandlerKeeps
<1>2. CASE Keyboard
  BY <1>2, KeyboardKeeps
<1>3. CASE UNCHANGED vars
  <2>1. Now' = Now /\ TypeOK'
    BY <1>3 DEF vars, Now, ext, IInv, TypeOK
  <2>2. \A t : Agrees(t) => Agrees(t)'
    BY <1>3 DEF vars, Agrees
  <2>3. wire' = wire /\ sending' = sending
    BY <1>3 DEF vars
  <2>. QED  BY <2>1, <2>2, <2>3 DEF IInv
<1>. QED  BY <1>1, <1>2, <1>3 DEF Next

LEMMA Inductive == Spec => []IInv
BY Initially, StepKeeps, PTL DEF Spec

-----------------------------------------------------------------------------
\* The driver stores in existing rows of its table only, and every variable
\* has its type.
THEOREM TypeCorrect == Spec => []TypeOK
<1>1. IInv => TypeOK
  BY DEF IInv
<1>. QED  BY <1>1, Inductive, PTL

\* With no byte left, what the driver knows is what the keyboard left it.
LEMMA NothingStored ==
  ASSUME IInv, wire = <<>>
  PROVE  Agrees(Now)
<1>1. PICK t \in States : Reads(Now, wire, t) /\ Agrees(t)
  BY DEF IInv
<1>2. Now \in States
  BY NowType DEF IInv
<1>. QED  BY <1>1, <1>2, ReadNothing

\* The driver takes for held exactly the keys that are pressed, but for those
\* a loss or the Pause key has touched, for every set of keys and size of the
\* buffer.
THEOREM HeldKeys == Spec => []HeldExact
<1>1. ASSUME IInv
      PROVE  HeldExact
  <2>  SUFFICES ASSUME wire = <<>>
                PROVE  /\ extcode_state = half
                       /\ \A k \in Keys \ lost : k \in keymap <=> k \in down
    BY DEF HeldExact
  <2>1. Agrees(Now)
    BY <1>1, NothingStored
  <2>2. extcode_state \in BOOLEAN /\ half \in BOOLEAN
    BY <1>1 DEF IInv, TypeOK
  <2>3. (IF extcode_state THEN 3 ELSE 2) = (IF half THEN 3 ELSE 2)
    BY <2>1 DEF Agrees, Now, ext
  <2>4. extcode_state = half
    BY <2>2, <2>3
  <2>5. \A k \in Keys \ lost : k \in keymap <=> k \in down
    BY <2>1 DEF Agrees, Now
  <2>. QED  BY <2>4, <2>5
<1>. QED  BY <1>1, Inductive, PTL

\* Each lock is on if its key was pressed an odd number of times, unless one
\* of its codes was dropped, its key repeated, or the Pause key sent its code.
THEOREM LocksRight == Spec => []LocksExact
<1>1. ASSUME IInv
      PROVE  LocksExact
  BY <1>1, NothingStored DEF LocksExact, Agrees, Now
<1>. QED  BY <1>1, Inductive, PTL

\* However late it is handled, a code prints the character that was due when
\* its key went down, unless a loss, a Caps Lock that repeated or a prefix left
\* over has made that uncertain.
THEOREM TextInOrder == Spec => TextRight
<1>1. ASSUME IInv, [Next]_vars, wire # <<>>, wire' = Tail(wire)
      PROVE  Head(wire).char \in {Unknown, screen'}
  <2>1. Len(wire) \in Nat /\ Len(wire') = Len(wire) - 1
    <3>1. wire \in Seq(Bytes)
      BY <1>1 DEF IInv, TypeOK, Bytes
    <3>. QED  BY <1>1, <3>1, HeadTailProperties
  <2>2. CASE keymap_handler
    BY <1>1, <2>2, HandlerKeeps
  <2>3. CASE Keyboard
    <3>1. Len(wire') >= Len(wire)
      BY <1>1, <2>3, KeyboardKeeps
    <3>. QED  BY <2>1, <3>1
  <2>4. CASE UNCHANGED vars
    <3>1. wire' = wire
      BY <2>4 DEF vars
    <3>. QED  BY <2>1, <3>1
  <2>. QED  BY <1>1, <2>2, <2>3, <2>4 DEF Next
<1>2. IInv /\ [Next]_vars =>
        [wire # <<>> /\ wire' = Tail(wire) =>
           Head(wire).char \in {Unknown, screen'}]_vars
  BY <1>1
<1>. QED  BY <1>2, Inductive, PTL DEF Spec, TextRight
=============================================================================
