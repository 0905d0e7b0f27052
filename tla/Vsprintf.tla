------------------------------ MODULE Vsprintf ------------------------------
(***************************************************************************)
(* Formatted output (kernel/vsprintf.c, include/stdarg.h): vsprintf() goes *)
(* through a format once, character by character, and takes an argument    *)
(* from the list where a conversion asks for one.  Nothing says how many   *)
(* arguments there are or of what kind, so the number taken must follow    *)
(* the format exactly.                                                     *)
(*                                                                         *)
(* Characters are strings of length one.  An argument is a machine word;   *)
(* "char" is the character and "text" the string it stands for if it is a  *)
(* character or the address of a string.  One action stands for one branch *)
(* of the parser, which keeps its place in "pc".                           *)
(***************************************************************************)
EXTENDS Integers, Sequences, SequencesExt

CONSTANTS
  Word,   \* the number of values of a machine word, 2^32 in the code
  Chars,  \* the characters there are
  Calls   \* the calls: a format (sequence of characters) and its arguments

ASSUME WordAssumption == Word \in Nat /\ Word >= 32 /\ Word % 2 = 0

VARIABLES
  fmt,          \* the format
  args,         \* the arguments of the call
  fmt_pos,      \* where fmt points to
  taken,        \* how many arguments va_arg() has taken
  str,          \* the characters written so far
  pc,           \* the part of the loop that comes next
  flags,        \* of the directive at hand, and so on
  field_width,
  precision,
  count         \* what the last %n has stored, -1 before it

vars == <<fmt, args, fmt_pos, taken, str, pc, flags, field_width, precision,
          count>>

-----------------------------------------------------------------------------
(***************************************************************************)
(* The flags are named by their characters; SIGN and SMALL are internal.   *)
(***************************************************************************)
LEFT == "-"
PLUS == "+"
SPACE == " "
SPECIAL == "#"
ZEROPAD == "0"
SIGN == "signed"
SMALL == "small"

FlagChars == {LEFT, PLUS, SPACE, SPECIAL, ZEROPAD}
Decimals == <<"0", "1", "2", "3", "4", "5", "6", "7", "8", "9">>

\* The digits as number() has them; digits[33], the letter of the hexadecimal
\* prefix, is LetterX.
DigitChars(small) ==
  IF small THEN <<"0", "1", "2", "3", "4", "5", "6", "7", "8", "9",
                  "a", "b", "c", "d", "e", "f">>
           ELSE <<"0", "1", "2", "3", "4", "5", "6", "7", "8", "9",
                  "A", "B", "C", "D", "E", "F">>
LetterX(small) == IF small THEN "x" ELSE "X"

\* The character at a place of a format, NUL at its end.
NUL == "NUL"
At(f, p) == IF p \in 1 .. Len(f) THEN f[p] ELSE NUL
here == At(fmt, fmt_pos)
DigitSet == {Decimals[d] : d \in 1 .. 10}
Letters == {"a", "b", "c", "d", "e", "f", "A", "B", "C", "D", "E", "F", "x", "X"}

\* What vsprintf.c writes itself are characters, and NUL, which ends a format, is
\* none of them.
ASSUME CharsAssumption ==
  FlagChars \cup DigitSet \cup Letters \cup {"%"} \subseteq Chars /\ NUL \notin Chars

is_digit(c) == c \in DigitSet

\* The first place from p on at which there is no character of a set.
Past(f, p, chars) == CHOOSE q \in p .. Len(f) + 1 :
                       At(f, q) \notin chars /\ \A r \in p .. q - 1 : At(f, r) \in chars

\* Where a number that starts at p ends, and its value.
EndOf(f, p) == Past(f, p, DigitSet)
DigitValue(c) ==
  CHOOSE d \in 0 .. 15 : c \in {DigitChars(TRUE)[d + 1], DigitChars(FALSE)[d + 1]}
NumberAt(f, p) ==
  FoldLeft(LAMBDA i, c : i * 10 + DigitValue(c), 0, SubSeq(f, p, EndOf(f, p) - 1))

\* A word read as an int.
Signed(w) == IF 2 * w >= Word THEN w - Word ELSE w

\* The int that is left of the number, which may be too large for one.
skip_atoi(f, p) == Signed(NumberAt(f, p) % Word)

\* The argument that va_arg() takes.
arg == args[taken + 1]
word == arg.word
int == Signed(word)

-----------------------------------------------------------------------------
(***************************************************************************)
(* number().                                                               *)
(***************************************************************************)
Repeated(c, n) == [i \in 1 .. n |-> c]

\* A mutant: the sign is printed but the value is not negated.
Magnitude_signed(num, type) == num

\* num after `num = -num', which is done modulo Word.
Magnitude(num, type) ==
  IF SIGN \in type /\ Signed(num) < 0 THEN (Word - num) % Word ELSE num

SignOf(num, type) ==
  IF SIGN \in type /\ Signed(num) < 0 THEN <<"-">>
  ELSE IF PLUS \in type THEN <<"+">>
  ELSE IF SPACE \in type THEN <<SPACE>>
  ELSE <<>>

PrefixOf(base, type) ==
  CASE SPECIAL \in type /\ base = 8  -> <<"0">>
    [] SPECIAL \in type /\ base = 16 -> <<"0", LetterX(SMALL \in type)>>
    [] OTHER                         -> <<>>

\* tmp, in the order in which it is printed; do_div() divides unsigned words.
Digits(num, base, type) ==
  LET tmp[n \in 0 .. Word - 1] ==
        LET last == <<DigitChars(SMALL \in type)[(n % base) + 1]>>
        IN  IF n < base THEN last ELSE tmp[n \div base] \o last
  IN  tmp[num]

\* A mutant: the prefix is not counted.
Padding_unprefixed(size, sign, prefix, places) == size - Len(sign) - places

\* What is left of the field width.  The int overflows only with a width next to
\* the least one or a precision next to the largest.
Padding(size, sign, prefix, places) ==
  size - Len(sign) - Len(prefix) - places

\* Of the three loops on `size' only the first that applies prints anything,
\* as it leaves a negative size behind.
number(num, base, size, prec, type) ==
  LET sign   == SignOf(num, type)
      prefix == PrefixOf(base, type)
      digits == Digits(Magnitude(num, type), base, type)
      places == IF Len(digits) > prec THEN Len(digits) ELSE prec
      pad    == Padding(size, sign, prefix, places)
      left   == LEFT \in type
      zeros  == ~left /\ ZEROPAD \in type
  IN  (IF left \/ zeros THEN <<>> ELSE Repeated(SPACE, pad))
      \o (sign \o (prefix
           \o ((IF zeros THEN Repeated("0", pad) ELSE <<>>)
                \o (Repeated("0", places - Len(digits)) \o digits))))
      \o (IF left THEN Repeated(SPACE, pad) ELSE <<>>)

\* A string or a character in its field.
Field(text, size, type) ==
  LET pad == Repeated(SPACE, size - Len(text))
  IN  IF LEFT \in type THEN text \o pad ELSE pad \o text

-----------------------------------------------------------------------------
Init ==
  /\ \E call \in Calls : fmt = call.fmt /\ args = call.args
  /\ fmt_pos = 1
  /\ taken = 0
  /\ str = <<>>
  /\ pc = "text"
  /\ flags = {}
  /\ field_width = -1
  /\ precision = -1
  /\ count = -1

Call == <<fmt, args>>
Directive == <<flags, field_width, precision>>
Effect == <<taken, str, count>>

Text ==
  /\ pc = "text" /\ here \notin {"%", NUL}
  /\ str' = Append(str, here)
  /\ fmt_pos' = fmt_pos + 1
  /\ UNCHANGED <<Call, Directive, taken, count, pc>>

Percent ==
  /\ pc = "text" /\ here = "%"
  /\ flags' = {}
  /\ fmt_pos' = fmt_pos + 1
  /\ pc' = "flags"
  /\ UNCHANGED <<Call, Effect, field_width, precision>>

Flag ==
  /\ pc = "flags" /\ here \in FlagChars
  /\ flags' = flags \cup {here}
  /\ fmt_pos' = fmt_pos + 1
  /\ UNCHANGED <<Call, Effect, field_width, precision, pc>>

Width ==
  /\ pc = "flags" /\ here \notin FlagChars \cup {"*"}
  /\ IF is_digit(here)
       THEN field_width' = skip_atoi(fmt, fmt_pos) /\ fmt_pos' = EndOf(fmt, fmt_pos)
       ELSE field_width' = -1 /\ fmt_pos' = fmt_pos
  /\ pc' = "precision"
  /\ UNCHANGED <<Call, Effect, flags, precision>>

\* The asterisk stays where fmt points to.
WidthStar ==
  /\ pc = "flags" /\ here = "*"
  /\ taken' = taken + 1
  /\ field_width' = IF int < 0 THEN Signed((-int) % Word) ELSE int
  /\ flags' = IF int < 0 THEN flags \cup {LEFT} ELSE flags
  /\ pc' = "precision"
  /\ UNCHANGED <<Call, fmt_pos, str, count, precision>>

Precision ==
  /\ pc = "precision" /\ ~(here = "." /\ At(fmt, fmt_pos + 1) = "*")
  /\ IF here = "."
       THEN /\ precision' = Max({skip_atoi(fmt, fmt_pos + 1), 0})
            /\ fmt_pos' = EndOf(fmt, fmt_pos + 1)
       ELSE precision' = -1 /\ fmt_pos' = fmt_pos
  /\ pc' = "qualifier"
  /\ UNCHANGED <<Call, Effect, flags, field_width>>

\* The same: the asterisk stays.
PrecisionStar ==
  /\ pc = "precision" /\ here = "." /\ At(fmt, fmt_pos + 1) = "*"
  /\ taken' = taken + 1
  /\ precision' = IF int < 0 THEN 0 ELSE int
  /\ fmt_pos' = fmt_pos + 1
  /\ pc' = "qualifier"
  /\ UNCHANGED <<Call, str, count, flags, field_width>>

\* A mutant: the qualifier is not skipped.
Qualifier_kept ==
  /\ pc = "qualifier"
  /\ pc' = "convert"
  /\ UNCHANGED <<Call, Effect, Directive, fmt_pos>>

\* The qualifier makes no difference later.
Qualifier ==
  /\ pc = "qualifier"
  /\ fmt_pos' = IF here \in {"h", "l", "L"} THEN fmt_pos + 1 ELSE fmt_pos
  /\ pc' = "convert"
  /\ UNCHANGED <<Call, Effect, Directive>>

\* A conversion that takes an argument and prints text.
Converts(conversions, text) ==
  /\ pc = "convert" /\ here \in conversions
  /\ str' = str \o text
  /\ taken' = taken + 1
  /\ fmt_pos' = fmt_pos + 1
  /\ pc' = "text"
  /\ UNCHANGED <<Call, Directive, count>>

Char == Converts({"c"}, Field(<<arg.char>>, field_width, flags))

\* strlen() and the precision.
Shown(s) == IF precision \in 0 .. Len(s) THEN SubSeq(s, 1, precision) ELSE s

String == Converts({"s"}, Field(Shown(arg.text), field_width, flags))

Octal == Converts({"o"}, number(word, 8, field_width, precision, flags))

Pointer ==
  Converts({"p"}, IF field_width = -1
                    THEN number(word, 16, 8, precision, flags \cup {ZEROPAD})
                    ELSE number(word, 16, field_width, precision, flags))

Hex ==
  \/ Converts({"x"}, number(word, 16, field_width, precision, flags \cup {SMALL}))
  \/ Converts({"X"}, number(word, 16, field_width, precision, flags))

Decimal ==
  \/ Converts({"d", "i"}, number(word, 10, field_width, precision, flags \cup {SIGN}))
  \/ Converts({"u"}, number(word, 10, field_width, precision, flags))

Count ==
  /\ pc = "convert" /\ here = "n"
  /\ count' = Len(str)
  /\ taken' = taken + 1
  /\ fmt_pos' = fmt_pos + 1
  /\ pc' = "text"
  /\ UNCHANGED <<Call, Directive, str>>

Conversions == {"c", "s", "o", "p", "x", "X", "d", "i", "u", "n"}

\* A mutant: fmt is not taken back from the end.
Default_past ==
  /\ pc = "convert" /\ here \notin Conversions
  /\ str' = str \o (IF here = "%" THEN <<>> ELSE <<"%">>)
                \o (IF here = NUL THEN <<>> ELSE <<here>>)
  /\ fmt_pos' = fmt_pos + 1
  /\ pc' = "text"
  /\ UNCHANGED <<Call, Directive, taken, count>>

\* "%%", the asterisk, and every conversion that there is not.
Default ==
  /\ pc = "convert" /\ here \notin Conversions
  /\ str' = str \o (IF here = "%" THEN <<>> ELSE <<"%">>)
                \o (IF here = NUL THEN <<>> ELSE <<here>>)
  /\ fmt_pos' = IF here = NUL THEN fmt_pos ELSE fmt_pos + 1
  /\ pc' = "text"
  /\ UNCHANGED <<Call, Directive, taken, count>>

Return ==
  /\ pc = "text" /\ here = NUL
  /\ pc' = "returned"
  /\ UNCHANGED <<Call, Directive, Effect, fmt_pos>>

Next ==
  \/ Text \/ Percent \/ Flag
  \/ Width \/ WidthStar \/ Precision \/ PrecisionStar \/ Qualifier
  \/ Char \/ String \/ Octal \/ Pointer \/ Hex \/ Decimal \/ Count \/ Default
  \/ Return

Spec == Init /\ [][Next]_vars

-----------------------------------------------------------------------------
(***************************************************************************)
(* Properties.                                                             *)
(***************************************************************************)
\* Every variable has its type; the parser stays within the format and its
\* end, and takes no argument that was not passed.
TypeOK ==
  /\ fmt_pos \in 1 .. Len(fmt) + 1
  /\ taken \in 0 .. Len(args)
  /\ str \in Seq(Chars)
  /\ pc \in {"text", "flags", "precision", "qualifier", "convert", "returned"}
  /\ flags \subseteq FlagChars
  /\ field_width \in -(Word \div 2) .. Word \div 2 - 1
  /\ precision \in -1 .. Word \div 2 - 1
  /\ count \in -1 .. Len(str)

\* What the step of a conversion has printed.
printed == SubSeq(str', Len(str) + 1, Len(str'))

Base == CASE here = "o" -> 8 [] here \in {"p", "x", "X"} -> 16 [] OTHER -> 10

\* A text without what is blank at its ends.
Trimmed(text) ==
  LET ink == {i \in 1 .. Len(text) : text[i] # SPACE}
  IN  SubSeq(text, Min(ink), Max(ink))

\* The value of a sequence of digits.
ValueOf(text, base) ==
  LET value[n \in 0 .. Len(text)] ==
        IF n = 0 THEN 0 ELSE base * value[n - 1] + DigitValue(text[n])
  IN  value[Len(text)]

\* A number as a reader of the output takes it: between the blanks there are a
\* sign, the prefix if there is one, and the digits.
ReadNumber(text) ==
  LET bare  == Trimmed(text)
      start == (IF bare[1] \in {"+", "-"} THEN 2 ELSE 1)
               + (IF Base = 16 /\ SPECIAL \in flags THEN 2 ELSE 0)
      value == ValueOf(SubSeq(bare, start, Len(bare)), Base)
  IN  IF bare[1] = "-" THEN -value ELSE value

Numeric == {"o", "p", "x", "X", "d", "i", "u"}

\* Whatever flags, width and precision say, the number that is printed reads
\* back as the argument, the most negative one included.
ReadsBack ==
  [][pc = "convert" /\ here \in Numeric =>
       ReadNumber(printed) = IF here \in {"d", "i"} THEN int ELSE word]_vars

Power(base, n) ==
  LET power[k \in 0 .. Word] == IF k = 0 THEN 1 ELSE base * power[k - 1]
  IN  power[n]

\* How many digits a number has.
Places(num, base) ==
  CHOOSE n \in 1 .. Word :
    num < Power(base, n) /\ (n > 1 => num >= Power(base, n - 1))

\* The conversions of signed numbers, which alone may have a sign or the room
\* for one (vsprintf.c:36-39).
SignedNumeric == {"d", "i"}
WantsSign == flags \cap {PLUS, SPACE} # {}

\* The characters that a number needs: sign, prefix, and the digits it has or
\* the precision asks for.
Needed ==
  LET negative == here \in SignedNumeric /\ int < 0
      digits   == Places(IF negative THEN -int ELSE word, Base)
  IN  (IF negative \/ (here \in SignedNumeric /\ WantsSign) THEN 1 ELSE 0)
      + (IF SPECIAL \notin flags \/ Base = 10 THEN 0
         ELSE IF Base = 8 THEN 1
         ELSE 2)
      + Max({digits, precision})

\* A number is as long as the field is wide, or as it has to be if that is
\* more.  The blanks are on the side that the flags say, before or after the
\* text, and beside a number padded with zeros there are none; a blank first
\* character may be there instead of a plus sign.
NumberRight(text) ==
  LET usual  == IF here = "p" /\ field_width = -1 THEN 8 ELSE field_width
      zeros  == ZEROPAD \in flags \/ usual # field_width
      last   == Len(text)
      ink(i) == text[i] # SPACE
  IN  /\ last = Max({usual, Needed})
      /\ LEFT \in flags =>
           \A i \in (IF SPACE \in flags THEN 3 ELSE 2) .. last : ink(i) => ink(i - 1)
      /\ LEFT \notin flags =>
           \A i \in 1 .. last - 1 : ink(i) => ink(i + 1)
      /\ LEFT \notin flags /\ zeros =>
           \A i \in 2 .. last : ink(i)

\* A character, or as much of a string as the precision lets through, stands at
\* its side of the field, and the rest of the field is blank.
TextRight(text) ==
  LET whole == IF here = "c" THEN <<arg.char>> ELSE arg.text
      shown == IF here = "s" /\ precision # -1 THEN Min({Len(whole), precision})
               ELSE Len(whole)
      last  == Max({field_width, shown})
      start == IF LEFT \in flags THEN 0 ELSE last - shown
  IN  /\ Len(text) = last
      /\ \A i \in 1 .. last :
           text[i] = IF i - start \in 1 .. shown THEN whole[i - start] ELSE SPACE

\* What a conversion prints fits its field, as wide as skip_atoi() has read it.
\* An unsigned number that is to be printed with a sign or room for one is left
\* out: number() gives it a column that it should not have (vsprintf.c:134).
LayoutRight ==
  [][pc = "convert" =>
       /\ here \in Numeric /\ (WantsSign => here \in SignedNumeric) => NumberRight(printed)
       /\ here \in {"c", "s"} => TextRight(printed)]_vars

HasStar(f) == \E p \in 1 .. Len(f) : f[p] = "*"
Starred == HasStar(fmt)

\* The conversions of a format without an asterisk take exactly the arguments
\* that were passed for them.
ArgsInStep == pc = "returned" /\ ~Starred => taken = Len(args)

\* So do those of a format with asterisks, each of which stands for a number
\* among the arguments (vsprintf.c:46-48).
StarTaken == pc = "returned" => taken = Len(args)

-----------------------------------------------------------------------------
(***************************************************************************)
(* What a caller has to keep to: it passes the arguments that its format,  *)
(* as a reader takes it, asks for.                                         *)
(***************************************************************************)
\* The place of the conversion of a directive, p being the place behind "%":
\* flags, a width, a point and a precision, and a qualifier come before it.
ConversionAt(f, p) ==
  LET width == EndOf(f, Past(f, p, FlagChars))
      prec  == IF At(f, width) = "." THEN EndOf(f, width + 1) ELSE width
  IN  IF At(f, prec) \in {"h", "l", "L"} THEN prec + 1 ELSE prec

\* How many arguments a format asks for from each of its places on.
AskedFrom(f) ==
  LET asked[p \in 1 .. Len(f) + 1] ==
        IF p = Len(f) + 1 THEN 0
        ELSE IF f[p] # "%" THEN asked[p + 1]
        ELSE LET q == ConversionAt(f, p + 1)
             IN  IF q = Len(f) + 1 THEN 0
                 ELSE asked[q + 1] + (IF f[q] \in Conversions THEN 1 ELSE 0)
  IN  asked

Arg == [word : 0 .. Word - 1, char : Chars, text : Seq(Chars)]

\* The numbers in the format stay clear of the largest int.
CallFits(call) ==
  /\ call.fmt \in Seq(Chars) /\ call.args \in Seq(Arg)
  /\ \A p \in 1 .. Len(call.fmt) + 1 : NumberAt(call.fmt, p) \in 0 .. Word \div 4
  /\ Len(call.args) = AskedFrom(call.fmt)[1]
=============================================================================
