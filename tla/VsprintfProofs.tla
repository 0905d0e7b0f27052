---------------------------- MODULE VsprintfProofs ----------------------------
(***************************************************************************)
(* Proofs about Vsprintf, for every size of a word and all calls that pass *)
(* the arguments their format asks for.                                    *)
(***************************************************************************)
EXTENDS Vsprintf, FiniteSetTheorems, WellFoundedInduction, TLAPS

-----------------------------------------------------------------------------
(***************************************************************************)
(* Induction over the natural numbers, from the well-foundedness of the    *)
(* subset ordering on finite sets.                                         *)
(***************************************************************************)
\* A set of numbers that is not empty has a least element.
LEMMA Least ==
  ASSUME NEW T \in SUBSET Nat, T # {}
  PROVE  \E n \in T : \A m \in T : n <= m
<1>  DEFINE upTo(n) == 0 .. n
            U == {upTo(n) : n \in T}
<1>1. U \subseteq FiniteSubsetsOf(Nat) /\ U # {}
  <2>1. ASSUME NEW n \in T
        PROVE  upTo(n) \in FiniteSubsetsOf(Nat)
    BY FS_Interval DEF FiniteSubsetsOf
  <2>. QED  BY <2>1
<1>2. IsWellFoundedOn(StrictSubsetOrdering(Nat), FiniteSubsetsOf(Nat))
  BY FS_StrictSubsetOrderingWellFounded
<1>3. PICK x \in U : \A y \in U : <<y, x>> \notin StrictSubsetOrdering(Nat)
  <2>  HIDE DEF U
  <2>. QED  BY <1>1, <1>2, WFMin
<1>4. PICK n \in T : x = upTo(n)
  BY <1>3
<1>5. ASSUME NEW m \in T, m < n
      PROVE  FALSE
  <2>1. /\ upTo(m) \in SUBSET Nat /\ upTo(n) \in SUBSET Nat
        /\ upTo(m) \subseteq upTo(n) /\ upTo(m) # upTo(n)
    <3>1. n \in upTo(n) /\ n \notin upTo(m)
      BY <1>5
    <3>. QED  BY <1>5, <3>1
  <2>  HIDE DEF upTo
  <2>2. <<upTo(m), upTo(n)>> \in StrictSubsetOrdering(Nat)
    BY <2>1 DEF StrictSubsetOrdering
  <2>. QED  BY <1>3, <1>4, <2>2
<1>. QED  BY <1>5

\* A set that has a number as soon as it has all smaller ones has them all.
LEMMA Induction ==
  ASSUME NEW S, \A n \in Nat : (\A m \in Nat : m < n => m \in S) => n \in S
  PROVE  Nat \subseteq S
<1>  SUFFICES ASSUME Nat \ S # {} PROVE FALSE
  OBVIOUS
<1>1. PICK n \in Nat \ S : \A m \in Nat \ S : n <= m
  BY Least
<1>2. \A m \in Nat : m < n => m \in S
  BY <1>1
<1>. QED  BY <1>1, <1>2

-----------------------------------------------------------------------------
(***************************************************************************)
(* Places of a format.                                                     *)
(***************************************************************************)
Format == Seq(Chars)

IsPast(f, p, chars, q) ==
  /\ q \in p .. Len(f) + 1
  /\ At(f, q) \notin chars
  /\ \A r \in p .. q - 1 : At(f, r) \in chars

\* There is a first place without the characters, the end at the latest.
LEMMA PastIs ==
  ASSUME NEW f \in Format, NEW p \in 1 .. Len(f) + 1, NEW chars, NUL \notin chars
  PROVE  IsPast(f, p, chars, Past(f, p, chars))
<1>0. Len(f) \in Nat
  BY DEF Format
<1>  DEFINE T == {q \in p .. Len(f) + 1 : At(f, q) \notin chars}
<1>1. Len(f) + 1 \in T
  BY <1>0 DEF At
<1>2. PICK q \in T : \A r \in T : q <= r
  <2>1. T \in SUBSET Nat
    BY <1>0
  <2>  HIDE DEF T
  <2>. QED  BY <1>1, <2>1, Least
<1>3. IsPast(f, p, chars, q)
  <2>1. \A r \in p .. q - 1 : r \in p .. Len(f) + 1 /\ ~(q <= r)
    BY <1>0, <1>2
  <2>. QED  BY <1>2, <2>1 DEF IsPast
<1>. QED  BY <1>3 DEF IsPast, Past

\* and only one.
LEMMA OnlyPast ==
  ASSUME NEW f \in Format, NEW p \in 1 .. Len(f) + 1, NEW chars, NUL \notin chars,
         NEW q, IsPast(f, p, chars, q)
  PROVE  Past(f, p, chars) = q
<1>  DEFINE s == Past(f, p, chars)
<1>1. IsPast(f, p, chars, s)
  BY PastIs
<1>  HIDE DEF s
<1>2. Len(f) \in Nat /\ s \in Nat /\ q \in Nat
  BY <1>1 DEF Format, IsPast
<1>3. ~(s < q)
  <2>1. s < q => s \in p .. q - 1
    BY <1>1, <1>2 DEF IsPast
  <2>. QED  BY <1>1, <2>1 DEF IsPast
<1>4. ~(q < s)
  <2>1. q < s => q \in p .. s - 1
    BY <1>1, <1>2 DEF IsPast
  <2>. QED  BY <1>1, <2>1 DEF IsPast
<1>. QED  BY <1>2, <1>3, <1>4 DEF s

\* It is the place itself, or the one that is found from the next place.
LEMMA PastHere ==
  ASSUME NEW f \in Format, NEW p \in 1 .. Len(f) + 1, NEW chars, NUL \notin chars,
         At(f, p) \notin chars
  PROVE  Past(f, p, chars) = p
<1>1. IsPast(f, p, chars, p)
  BY DEF IsPast, Format
<1>. QED  BY <1>1, OnlyPast

LEMMA PastNext ==
  ASSUME NEW f \in Format, NEW p \in 1 .. Len(f) + 1, NEW chars, NUL \notin chars,
         At(f, p) \in chars
  PROVE  p + 1 \in 1 .. Len(f) + 1 /\ Past(f, p, chars) = Past(f, p + 1, chars)
<1>1. Len(f) \in Nat
  BY DEF Format
<1>2. p \in 1 .. Len(f) /\ p + 1 \in 1 .. Len(f) + 1
  BY <1>1 DEF At
<1>  DEFINE q == Past(f, p + 1, chars)
<1>3. IsPast(f, p + 1, chars, q)
  BY <1>2, PastIs
<1>  HIDE DEF q
<1>4. IsPast(f, p, chars, q)
  <2>1. \A r \in p .. q - 1 : r = p \/ r \in p + 1 .. q - 1
    BY <1>2
  <2>2. q \in p .. Len(f) + 1
    BY <1>1, <1>2, <1>3 DEF IsPast
  <2>. QED  BY <1>3, <2>1, <2>2 DEF IsPast
<1>. QED  BY <1>2, <1>4, OnlyPast DEF q

\* A number ends within the format.
LEMMA EndIs ==
  ASSUME NEW f \in Format, NEW p \in 1 .. Len(f) + 1
  PROVE  /\ EndOf(f, p) \in p .. Len(f) + 1
         /\ ~is_digit(At(f, p)) => EndOf(f, p) = p
<1>1. NUL \notin DigitSet
  BY DEF DigitSet, Decimals, NUL
<1>. QED  BY <1>1, PastIs, PastHere DEF EndOf, IsPast, is_digit

\* The rest of a directive, from behind its flags, its width and its precision.
QualifierAt(f, p) == IF At(f, p) \in {"h", "l", "L"} THEN p + 1 ELSE p
PrecisionAt(f, p) ==
  QualifierAt(f, IF At(f, p) = "." THEN EndOf(f, p + 1) ELSE p)
WidthAt(f, p) == PrecisionAt(f, EndOf(f, p))
FlagsAt(f, p) == WidthAt(f, Past(f, p, FlagChars))

\* The conversion is at a place of the format or at its end.
LEMMA DirectiveEnds ==
  ASSUME NEW f \in Format, NEW p \in 1 .. Len(f) + 1
  PROVE  /\ QualifierAt(f, p) \in p .. Len(f) + 1
         /\ PrecisionAt(f, p) \in p .. Len(f) + 1
         /\ WidthAt(f, p) \in p .. Len(f) + 1
         /\ FlagsAt(f, p) \in p .. Len(f) + 1
<1>0. Len(f) \in Nat
  BY DEF Format
<1>1. ASSUME NEW q \in 1 .. Len(f) + 1
      PROVE  At(f, q) \in {"h", "l", "L", "."} => q + 1 \in 1 .. Len(f) + 1
  BY <1>0 DEF At, NUL
<1>2. ASSUME NEW q \in 1 .. Len(f) + 1
      PROVE  QualifierAt(f, q) \in q .. Len(f) + 1
  BY <1>0, <1>1 DEF QualifierAt
<1>3. ASSUME NEW q \in 1 .. Len(f) + 1
      PROVE  PrecisionAt(f, q) \in q .. Len(f) + 1
  <2>  DEFINE r == IF At(f, q) = "." THEN EndOf(f, q + 1) ELSE q
  <2>1. r \in q .. Len(f) + 1
    <3>1. CASE At(f, q) = "."
      <4>1. q + 1 \in 1 .. Len(f) + 1
        BY <1>1, <3>1
      <4>2. EndOf(f, q + 1) \in q + 1 .. Len(f) + 1
        BY <4>1, EndIs
      <4>. QED  BY <1>0, <3>1, <4>1, <4>2
    <3>. QED  BY <1>0, <3>1
  <2>  HIDE DEF r
  <2>2. QualifierAt(f, r) \in r .. Len(f) + 1
    BY <1>0, <1>2, <2>1
  <2>3. PrecisionAt(f, q) = QualifierAt(f, r)
    BY DEF PrecisionAt, r
  <2>. QED  BY <1>0, <2>1, <2>2, <2>3
<1>4. ASSUME NEW q \in 1 .. Len(f) + 1
      PROVE  WidthAt(f, q) \in q .. Len(f) + 1
  <2>  DEFINE r == EndOf(f, q)
  <2>1. r \in q .. Len(f) + 1
    BY EndIs
  <2>  HIDE DEF r
  <2>2. PrecisionAt(f, r) \in r .. Len(f) + 1
    BY <1>0, <1>3, <2>1
  <2>3. WidthAt(f, q) = PrecisionAt(f, r)
    BY DEF WidthAt, r
  <2>. QED  BY <1>0, <2>1, <2>2, <2>3
<1>5. FlagsAt(f, p) \in p .. Len(f) + 1
  <2>  DEFINE r == Past(f, p, FlagChars)
  <2>1. r \in p .. Len(f) + 1
    <3>1. NUL \notin FlagChars
      BY Zenon DEF NUL, FlagChars, LEFT, PLUS, SPACE, SPECIAL, ZEROPAD
    <3>. QED  BY <3>1, PastIs DEF IsPast
  <2>  HIDE DEF r
  <2>2. WidthAt(f, r) \in r .. Len(f) + 1
    BY <1>0, <1>4, <2>1
  <2>3. FlagsAt(f, p) = WidthAt(f, r)
    BY DEF FlagsAt, r
  <2>. QED  BY <1>0, <2>1, <2>2, <2>3
<1>. QED  BY <1>2, <1>3, <1>4, <1>5

-----------------------------------------------------------------------------
(***************************************************************************)
(* How many arguments a format asks for.                                   *)
(***************************************************************************)
\* From the conversion at q on, g giving it for what is behind.
Rest(f, g, q) ==
  IF q = Len(f) + 1 THEN 0 ELSE g[q + 1] + (IF f[q] \in Conversions THEN 1 ELSE 0)

\* From p on.
Ask(f, g, p) ==
  IF p = Len(f) + 1 THEN 0
  ELSE IF f[p] # "%" THEN g[p + 1]
  ELSE Rest(f, g, FlagsAt(f, p + 1))

IsAsked(f, g, k) == g = [p \in k .. Len(f) + 1 |-> Ask(f, g, p)]

\* Only what is behind a place matters.
LEMMA AskSame ==
  ASSUME NEW f \in Format, NEW p \in 1 .. Len(f) + 1, NEW g, NEW h,
         \A r \in p + 1 .. Len(f) + 1 : g[r] = h[r]
  PROVE  Ask(f, g, p) = Ask(f, h, p)
<1>0. Len(f) \in Nat
  BY DEF Format
<1>1. CASE p = Len(f) + 1
  BY <1>1 DEF Ask
<1>2. CASE p # Len(f) + 1
  <2>1. p + 1 \in p + 1 .. Len(f) + 1 /\ p + 1 \in 1 .. Len(f) + 1
    BY <1>0, <1>2
  <2>  DEFINE q == FlagsAt(f, p + 1)
  <2>2. q \in p + 1 .. Len(f) + 1
    BY <2>1, DirectiveEnds
  <2>  HIDE DEF q
  <2>3. q # Len(f) + 1 => q + 1 \in p + 1 .. Len(f) + 1
    BY <1>0, <2>1, <2>2
  <2>4. Rest(f, g, q) = Rest(f, h, q)
    BY <2>3 DEF Rest
  <2>. QED  BY <1>2, <2>1, <2>4 DEF Ask, q
<1>. QED  BY <1>1, <1>2

\* The function in AskedFrom exists.
LEMMA AskedExists ==
  ASSUME NEW f \in Format
  PROVE  \E g : IsAsked(f, g, 1)
<1>0. Len(f) \in Nat
  BY DEF Format
<1>  DEFINE N == Len(f) + 1
            S == {n \in Nat : n < N => \E g : IsAsked(f, g, N - n)}
<1>1. ASSUME NEW n \in Nat, \A m \in Nat : m < n => m \in S
      PROVE  n \in S
  <2>1. CASE n = 0
    <3>  DEFINE g == [p \in N .. N |-> 0]
    <3>1. \A p \in N .. N : Ask(f, g, p) = 0
      BY <1>0 DEF Ask
    <3>2. IsAsked(f, g, N)
      BY <3>1 DEF IsAsked
    <3>  HIDE DEF g
    <3>3. N - n = N
      BY <1>0, <2>1
    <3>. QED  BY <3>2, <3>3
  <2>2. CASE n # 0 /\ n < N
    <3>  DEFINE k == N - n
    <3>0. k \in 1 .. Len(f) /\ k + 1 \in 1 .. N /\ N \in Nat /\ k \in Nat
      BY <1>0, <2>2
    <3>1. \E g : IsAsked(f, g, k + 1)
      <4>1. n - 1 \in S /\ n - 1 < N /\ N - (n - 1) = k + 1
        BY <1>0, <1>1, <2>2
      <4>. QED  BY <4>1
    <3>  HIDE DEF k
    <3>2. PICK g : IsAsked(f, g, k + 1)
      BY <3>1
    <3>  DEFINE h == [p \in k .. N |-> IF p = k THEN Ask(f, g, k) ELSE g[p]]
    <3>3. \A p \in k .. N : p = k \/ p \in k + 1 .. N
      BY <3>0
    <3>4. \A p \in k + 1 .. N : p # k /\ p \in k .. N /\ h[p] = g[p]
      BY <3>0
    <3>5. ASSUME NEW p \in k .. N
          PROVE  Ask(f, g, p) = Ask(f, h, p)
      <4>1. p \in 1 .. Len(f) + 1 /\ \A r \in p + 1 .. Len(f) + 1 : r \in k + 1 .. N
        BY <3>0
      <4>  HIDE DEF h
      <4>2. \A r \in p + 1 .. Len(f) + 1 : g[r] = h[r]
        BY <3>4, <4>1
      <4>. QED  BY <4>1, <4>2, AskSame
    <3>6. \A p \in k + 1 .. N : g[p] = Ask(f, g, p)
      BY <3>2 DEF IsAsked
    <3>7. h = [p \in k .. N |-> Ask(f, g, p)]
      BY <3>3, <3>6
    <3>8. IsAsked(f, h, k)
      <4>  HIDE DEF h
      <4>. QED  BY <3>5, <3>7 DEF IsAsked
    <3>  HIDE DEF h
    <3>. QED  BY <3>8 DEF k
  <2>. QED  BY <1>0, <2>1, <2>2
<1>2. Len(f) \in S
  <2>  HIDE DEF S
  <2>. QED  BY <1>0, <1>1, Induction
<1>3. N - Len(f) = 1 /\ Len(f) < N
  BY <1>0
<1>. QED  BY <1>2, <1>3

LEMMA AskedIs ==
  ASSUME NEW f \in Format
  PROVE  \A p \in 1 .. Len(f) + 1 : AskedFrom(f)[p] = Ask(f, AskedFrom(f), p)
<1>1. PICK g : IsAsked(f, g, 1)
  BY AskedExists
<1>2. \A h, p : Ask(f, h, p) =
        IF p = Len(f) + 1 THEN 0
        ELSE IF f[p] # "%" THEN h[p + 1]
        ELSE LET q == ConversionAt(f, p + 1)
             IN  IF q = Len(f) + 1 THEN 0
                 ELSE h[q + 1] + (IF f[q] \in Conversions THEN 1 ELSE 0)
  BY DEF Ask, Rest, FlagsAt, WidthAt, PrecisionAt, QualifierAt, ConversionAt
<1>3. AskedFrom(f) = CHOOSE h : IsAsked(f, h, 1)
  BY <1>2 DEF AskedFrom, IsAsked
<1>4. IsAsked(f, AskedFrom(f), 1)
  BY <1>1, <1>3
<1>. QED  BY <1>4 DEF IsAsked

\* The numbers asked for are natural.
LEMMA AskedType ==
  ASSUME NEW f \in Format
  PROVE  \A p \in 1 .. Len(f) + 1 : AskedFrom(f)[p] \in Nat
<1>0. Len(f) \in Nat
  BY DEF Format
<1>  DEFINE N == Len(f) + 1
            a == AskedFrom(f)
            S == {n \in Nat : n < N => a[N - n] \in Nat}
<1>1. ASSUME NEW n \in Nat, \A m \in Nat : m < n => m \in S
      PROVE  n \in S
  <2>  SUFFICES ASSUME n < N  PROVE  a[N - n] \in Nat
    OBVIOUS
  <2>  DEFINE p == N - n
  <2>1. p \in 1 .. N /\ p = N - n
    BY <1>0
  <2>2. ASSUME NEW r \in p + 1 .. N
        PROVE  a[r] \in Nat
    <3>1. N - r \in Nat /\ N - r < n /\ N - r < N /\ N - (N - r) = r
      BY <1>0, <2>1
    <3>2. N - r \in S
      BY <1>1, <3>1
    <3>. QED  BY <3>1, <3>2
  <2>  HIDE DEF p
  <2>3. a[p] = Ask(f, a, p)
    BY <2>1, AskedIs
  <2>  HIDE DEF a
  <2>4. CASE p # N
    <3>1. p + 1 \in p + 1 .. N /\ p + 1 \in 1 .. N
      BY <1>0, <2>1, <2>4
    <3>  DEFINE q == FlagsAt(f, p + 1)
    <3>2. q \in p + 1 .. N
      BY <3>1, DirectiveEnds
    <3>  HIDE DEF q
    <3>3. q # N => q + 1 \in p + 1 .. N
      BY <1>0, <3>1, <3>2
    <3>4. Rest(f, a, q) \in Nat
      BY <2>2, <3>3 DEF Rest
    <3>. QED  BY <2>1, <2>2, <2>3, <2>4, <3>1, <3>4 DEF Ask, q
  <2>5. CASE p = N
    BY <2>1, <2>3, <2>5 DEF Ask
  <2>. QED  BY <2>1, <2>4, <2>5
<1>2. ASSUME NEW p \in 1 .. N
      PROVE  a[p] \in Nat
  <2>1. N - p \in Nat /\ N - p < N /\ N - (N - p) = p
    BY <1>0
  <2>2. N - p \in S
    <3>  HIDE DEF S
    <3>. QED  BY <1>1, <2>1, Induction
  <2>. QED  BY <2>1, <2>2
<1>. QED  BY <1>2

-----------------------------------------------------------------------------
(***************************************************************************)
(* The digits of a number.                                                 *)
(***************************************************************************)
Bases == {8, 10, 16}
Words == 0 .. Word - 1

\* What is neither blank nor a sign.
Ink == Chars \ {SPACE, "+", "-"}

\* SPACE differs from the other characters that the code names.
LEMMA SpaceIs ==
  /\ \A c \in DigitSet : c # SPACE
  /\ \A c \in Letters : c # SPACE
  /\ SPACE # "+" /\ SPACE # "-" /\ SPACE # "#" /\ SPACE # "0" /\ SPACE # "%"
  /\ SPACE # NUL /\ SPACE # SIGN /\ SPACE # SMALL
<1>1. /\ SPACE # "0" /\ SPACE # "1" /\ SPACE # "2" /\ SPACE # "3" /\ SPACE # "4"
      /\ SPACE # "5" /\ SPACE # "6" /\ SPACE # "7" /\ SPACE # "8" /\ SPACE # "9"
  BY Zenon DEF SPACE
<1>2. /\ SPACE # "a" /\ SPACE # "b" /\ SPACE # "c" /\ SPACE # "d" /\ SPACE # "e"
      /\ SPACE # "f" /\ SPACE # "A" /\ SPACE # "B" /\ SPACE # "C" /\ SPACE # "D"
      /\ SPACE # "E" /\ SPACE # "F" /\ SPACE # "x" /\ SPACE # "X"
  BY Zenon DEF SPACE
<1>3. /\ SPACE # "+" /\ SPACE # "-" /\ SPACE # "#" /\ SPACE # "%"
      /\ SPACE # NUL /\ SPACE # SIGN /\ SPACE # SMALL
  BY Zenon DEF SPACE, NUL, SIGN, SMALL
<1>4. \A d \in 1 .. 10 : Decimals[d] # SPACE
  BY <1>1 DEF Decimals
<1>. QED  BY <1>1, <1>2, <1>3, <1>4 DEF DigitSet, Letters

\* There are sixteen digits, and none is blank or a sign.
LEMMA DigitCharsAre ==
  ASSUME NEW small, NEW d \in 0 .. 15
  PROVE  DigitChars(small)[d + 1] \in Ink
<1>0. DigitSet \subseteq Ink /\ Letters \subseteq Ink
  <2>1. DigitSet \subseteq Chars /\ Letters \subseteq Chars
    BY CharsAssumption
  <2>2. \A c \in DigitSet : c # SPACE /\ c # "+" /\ c # "-"
    BY SpaceIs DEF DigitSet, Decimals
  <2>3. \A c \in Letters : c # SPACE /\ c # "+" /\ c # "-"
    BY SpaceIs DEF Letters
  <2>. QED  BY <2>1, <2>2, <2>3 DEF Ink
<1>1. /\ small => DigitChars(small) =
                    <<"0", "1", "2", "3", "4", "5", "6", "7", "8", "9",
                      "a", "b", "c", "d", "e", "f">>
      /\ ~small => DigitChars(small) =
                    <<"0", "1", "2", "3", "4", "5", "6", "7", "8", "9",
                      "A", "B", "C", "D", "E", "F">>
  BY DEF DigitChars
<1>2. \A i \in 1 .. 10 : Decimals[i] \in Ink
  BY <1>0 DEF DigitSet
<1>3. CASE d + 1 \in 1 .. 10
  <2>1. DigitChars(small)[d + 1] = Decimals[d + 1]
    BY <1>1, <1>3 DEF Decimals
  <2>. QED  BY <1>2, <1>3, <2>1
<1>4. CASE d + 1 \in 11 .. 16
  <2>1. DigitChars(small)[d + 1] \in Letters
    BY <1>1, <1>4 DEF Letters
  <2>. QED  BY <1>0, <2>1
<1>. QED  BY <1>3, <1>4

\* Division by a base.
LEMMA Division ==
  ASSUME NEW n \in Nat, NEW base \in Bases
  PROVE  /\ n \div base \in Nat /\ n % base \in 0 .. base - 1
         /\ n % base \in 0 .. 15
         /\ n >= base => n \div base < n /\ n \div base >= 1
         /\ n < base => n % base = n /\ n \div base = 0
BY DEF Bases

LastDigit(n, base, type) == <<DigitChars(SMALL \in type)[(n % base) + 1]>>

TmpStep(f, n, base, type) ==
  IF n < base THEN LastDigit(n, base, type)
  ELSE f[n \div base] \o LastDigit(n, base, type)

IsTmp(f, k, base, type) == f = [n \in 0 .. k |-> TmpStep(f, n, base, type)]

\* The function in Digits exists.
LEMMA TmpExists ==
  ASSUME NEW base \in Bases, NEW type, NEW k \in Nat
  PROVE  \E f : IsTmp(f, k, base, type)
<1>  DEFINE S == {n \in Nat : \E f : IsTmp(f, n, base, type)}
<1>1. ASSUME NEW n \in Nat, \A m \in Nat : m < n => m \in S
      PROVE  n \in S
  <2>1. CASE n = 0
    <3>  DEFINE f == [i \in 0 .. 0 |-> LastDigit(0, base, type)]
    <3>1. \A i \in 0 .. 0 : TmpStep(f, i, base, type) = LastDigit(0, base, type)
      BY DEF TmpStep, Bases
    <3>2. IsTmp(f, 0, base, type)
      BY <3>1 DEF IsTmp
    <3>  HIDE DEF f
    <3>. QED  BY <2>1, <3>2
  <2>2. CASE n # 0
    <3>0. n - 1 \in Nat /\ n - 1 < n
      BY <2>2
    <3>1. PICK f : IsTmp(f, n - 1, base, type)
      BY <1>1, <3>0
    <3>  DEFINE h == [i \in 0 .. n |-> IF i = n THEN TmpStep(f, n, base, type)
                                       ELSE f[i]]
    <3>2. \A i \in 0 .. n : i = n \/ i \in 0 .. n - 1
      BY <3>0
    <3>3. \A i \in 0 .. n - 1 : i # n /\ i \in 0 .. n /\ h[i] = f[i]
      BY <3>0
    <3>4. ASSUME NEW i \in 0 .. n
          PROVE  TmpStep(f, i, base, type) = TmpStep(h, i, base, type)
      <4>1. i >= base => i \div base \in 0 .. n - 1
        BY <3>0, Division
      <4>2. ~(i < base) => i >= base
        BY DEF Bases
      <4>  HIDE DEF h
      <4>. QED  BY <3>3, <4>1, <4>2 DEF TmpStep
    <3>5. \A i \in 0 .. n - 1 : f[i] = TmpStep(f, i, base, type)
      BY <3>1 DEF IsTmp
    <3>6. h = [i \in 0 .. n |-> TmpStep(f, i, base, type)]
      BY <3>2, <3>5
    <3>7. IsTmp(h, n, base, type)
      <4>  HIDE DEF h
      <4>. QED  BY <3>4, <3>6 DEF IsTmp
    <3>  HIDE DEF h
    <3>. QED  BY <3>7
  <2>. QED  BY <2>1, <2>2
<1>. QED
  <2>  HIDE DEF S
  <2>1. k \in S
    BY <1>1, Induction
  <2>. QED  BY <2>1 DEF S

\* What Digits computes: the digits of the quotient and the last digit.
LEMMA DigitsAre ==
  ASSUME NEW n \in Words, NEW base \in Bases, NEW type
  PROVE  Digits(n, base, type) =
           IF n < base THEN LastDigit(n, base, type)
           ELSE Digits(n \div base, base, type) \o LastDigit(n, base, type)
<1>0. Word - 1 \in Nat /\ n \in Nat
  BY WordAssumption DEF Words
<1>  DEFINE t == CHOOSE f : IsTmp(f, Word - 1, base, type)
<1>1. IsTmp(t, Word - 1, base, type)
  BY <1>0, TmpExists
<1>2. \A i : Digits(i, base, type) = t[i]
  BY DEF Digits, IsTmp, TmpStep, LastDigit
<1>  HIDE DEF t
<1>3. t[n] = TmpStep(t, n, base, type)
  BY <1>1 DEF IsTmp, Words
<1>. QED  BY <1>2, <1>3 DEF TmpStep

\* A digit at least, and nothing but digits.
LEMMA DigitsType ==
  ASSUME NEW base \in Bases, NEW type
  PROVE  \A n \in Words : /\ Digits(n, base, type) \in Seq(Ink)
                          /\ Len(Digits(n, base, type)) \in 1 .. n + 1
<1>0. Word \in Nat
  BY WordAssumption
<1>  DEFINE d(n) == Digits(n, base, type)
            S == {n \in Nat : n \in Words => d(n) \in Seq(Ink) /\ Len(d(n)) \in 1 .. n + 1}
<1>1. ASSUME NEW n \in Nat, \A m \in Nat : m < n => m \in S
      PROVE  n \in S
  <2>  SUFFICES ASSUME n \in Words
                PROVE  d(n) \in Seq(Ink) /\ Len(d(n)) \in 1 .. n + 1
    OBVIOUS
  <2>  DEFINE c == DigitChars(SMALL \in type)[(n % base) + 1]
              q == n \div base
  <2>1. c \in Ink
    BY Division, DigitCharsAre
  <2>2. /\ n < base => d(n) = <<c>>
        /\ ~(n < base) => d(n) = d(q) \o <<c>>
    BY DigitsAre DEF LastDigit
  <2>3. ~(n < base) => q \in Nat /\ q < n
    BY Division DEF Bases
  <2>  HIDE DEF c, q
  <2>4. CASE n < base
    <3>  HIDE DEF d
    <3>1. <<c>> \in Seq(Ink) /\ Len(<<c>>) \in 1 .. n + 1
      BY <2>1
    <3>. QED  BY <2>2, <2>4, <3>1
  <2>5. CASE ~(n < base)
    <3>1. q \in S /\ q \in Words
      <4>  HIDE DEF S
      <4>. QED  BY <1>0, <1>1, <2>3, <2>5 DEF Words
    <3>2. d(q) \in Seq(Ink) /\ Len(d(q)) \in 1 .. q + 1
      BY <3>1
    <3>  HIDE DEF d
    <3>. QED  BY <2>1, <2>2, <2>3, <2>5, <3>2
  <2>. QED  BY <2>4, <2>5
<1>2. \A n \in Words : n \in S
  <2>  HIDE DEF S
  <2>1. Words \subseteq Nat
    BY <1>0 DEF Words
  <2>. QED  BY <1>1, <2>1, Induction
<1>. QED  BY <1>2

-----------------------------------------------------------------------------
(***************************************************************************)
(* The parts of a printed number.                                          *)
(***************************************************************************)
LEMMA RepeatedIs ==
  ASSUME NEW S, NEW c \in S, NEW n \in Int
  PROVE  /\ Repeated(c, n) \in Seq(S)
         /\ Len(Repeated(c, n)) = IF n > 0 THEN n ELSE 0
         /\ \A i \in 1 .. Len(Repeated(c, n)) : Repeated(c, n)[i] = c
<1>1. CASE n > 0
  BY <1>1 DEF Repeated
<1>2. CASE ~(n > 0)
  <2>1. 1 .. n = 1 .. 0
    BY <1>2
  <2>2. Repeated(c, n) = [i \in 1 .. 0 |-> c]
    BY <2>1 DEF Repeated
  <2>3. Repeated(c, n) = <<>>
    BY <2>2
  <2>. QED  BY <1>2, <2>3
<1>. QED  BY <1>1, <1>2

LEMMA MagnitudeType ==
  ASSUME NEW w \in Words, NEW type
  PROVE  /\ Magnitude(w, type) \in Words
         /\ SIGN \in type /\ Signed(w) < 0 => Magnitude(w, type) = -Signed(w)
         /\ ~(SIGN \in type /\ Signed(w) < 0) => Magnitude(w, type) = w
<1>1. CASE SIGN \in type /\ Signed(w) < 0
  <2>1. w \in 1 .. Word - 1 /\ Signed(w) = w - Word
    BY <1>1, WordAssumption DEF Words, Signed
  <2>2. Word - w \in 1 .. Word - 1
    BY <2>1, WordAssumption
  <2>3. \A m \in 1 .. Word - 1 : m % Word = m
    BY WordAssumption
  <2>4. Magnitude(w, type) = Word - w
    BY <1>1, <2>2, <2>3 DEF Magnitude
  <2>. QED  BY <1>1, <2>1, <2>2, <2>4, WordAssumption DEF Words
<1>2. CASE ~(SIGN \in type /\ Signed(w) < 0)
  BY <1>2 DEF Magnitude
<1>. QED  BY <1>1, <1>2

\* A sign, if there is one.
SignLength(w, type) ==
  IF (SIGN \in type /\ Signed(w) < 0) \/ PLUS \in type \/ SPACE \in type THEN 1 ELSE 0

LEMMA SignType ==
  ASSUME NEW w, NEW type
  PROVE  /\ SignOf(w, type) \in Seq(Chars)
         /\ Len(SignOf(w, type)) = SignLength(w, type)
         /\ SignLength(w, type) \in Nat
<1>1. Len(<<"-">>) = 1 /\ Len(<<"+">>) = 1 /\ Len(<<SPACE>>) = 1 /\ Len(<<>>) = 0
  OBVIOUS
<1>2. "-" \in Chars /\ "+" \in Chars /\ SPACE \in Chars
  BY CharsAssumption DEF FlagChars, LEFT, PLUS
<1>3. /\ <<"-">> \in Seq(Chars) /\ <<"+">> \in Seq(Chars) /\ <<SPACE>> \in Seq(Chars)
      /\ <<>> \in Seq(Chars)
  BY <1>2
<1>4. CASE SignLength(w, type) = 1
  <2>1. SignOf(w, type) = <<"-">> \/ SignOf(w, type) = <<"+">> \/ SignOf(w, type) = <<SPACE>>
    BY <1>4 DEF SignOf, SignLength
  <2>. QED  BY <1>1, <1>3, <1>4, <2>1
<1>5. CASE SignLength(w, type) = 0
  <2>1. SignOf(w, type) = <<>>
    BY <1>5 DEF SignOf, SignLength
  <2>. QED  BY <1>1, <1>3, <1>5, <2>1
<1>. QED  BY <1>4, <1>5 DEF SignLength

\* The prefix.
PrefixLength(base, type) ==
  IF SPECIAL \notin type \/ base = 10 THEN 0 ELSE IF base = 8 THEN 1 ELSE 2

LEMMA PrefixType ==
  ASSUME NEW base \in Bases, NEW type
  PROVE  /\ PrefixOf(base, type) \in Seq(Ink)
         /\ Len(PrefixOf(base, type)) = PrefixLength(base, type)
         /\ PrefixLength(base, type) \in Nat
<1>  DEFINE x == LetterX(SMALL \in type)
<1>1. "0" \in Ink /\ x \in Ink
  <2>1. "0" \in Chars /\ x \in Letters /\ x \in Chars
    BY CharsAssumption DEF FlagChars, ZEROPAD, Letters, LetterX
  <2>. QED  BY <2>1, SpaceIs DEF Ink, Letters
<1>  HIDE DEF x
<1>2. <<"0">> \in Seq(Ink) /\ <<"0", x>> \in Seq(Ink) /\ <<>> \in Seq(Ink)
  BY <1>1
<1>3. Len(<<"0">>) = 1 /\ Len(<<"0", x>>) = 2 /\ Len(<<>>) = 0
  OBVIOUS
<1>4. CASE SPECIAL \in type /\ base = 8
  <2>1. PrefixOf(base, type) = <<"0">> /\ PrefixLength(base, type) = 1
    BY <1>4 DEF PrefixOf, PrefixLength
  <2>. QED  BY <1>2, <1>3, <2>1
<1>5. CASE SPECIAL \in type /\ base = 16
  <2>1. PrefixOf(base, type) = <<"0", x>> /\ PrefixLength(base, type) = 2
    BY <1>5 DEF PrefixOf, PrefixLength, x
  <2>. QED  BY <1>2, <1>3, <2>1
<1>6. CASE SPECIAL \notin type \/ base = 10
  <2>1. PrefixOf(base, type) = <<>> /\ PrefixLength(base, type) = 0
    BY <1>6 DEF PrefixOf, PrefixLength
  <2>. QED  BY <1>2, <1>3, <2>1
<1>. QED  BY <1>4, <1>5, <1>6 DEF Bases

\* One sequence behind another.
LEMMA Concat ==
  ASSUME NEW S, NEW s \in Seq(S), NEW t \in Seq(S)
  PROVE  /\ s \o t \in Seq(S) /\ Len(s) \in Nat /\ Len(t) \in Nat
         /\ Len(s \o t) = Len(s) + Len(t)
         /\ \A i \in 1 .. Len(s) : (s \o t)[i] = s[i]
         /\ \A i \in 1 .. Len(t) : (s \o t)[Len(s) + i] = t[i]
OBVIOUS

\* A part of a sequence.
LEMMA Section ==
  ASSUME NEW S, NEW t \in Seq(S), NEW k \in Nat, NEW l \in Nat, k + l <= Len(t)
  PROVE  /\ SubSeq(t, k + 1, k + l) \in Seq(S)
         /\ Len(SubSeq(t, k + 1, k + l)) = l
         /\ \A i \in 1 .. l : SubSeq(t, k + 1, k + l)[i] = t[k + i]
<1>1. \A i \in k + 1 .. k + l : i \in 1 .. Len(t)
  OBVIOUS
<1>2. SubSeq(t, k + 1, k + l) \in Seq(S)
  BY <1>1
<1>3. Len(SubSeq(t, k + 1, k + l)) = l
  OBVIOUS
<1>4. ASSUME NEW i \in 1 .. l
      PROVE  SubSeq(t, k + 1, k + l)[i] = t[k + i]
  OBVIOUS
<1>. QED  BY <1>2, <1>3, <1>4

\* Concatenation is associative.
LEMMA ConcatTwice ==
  ASSUME NEW S, NEW s \in Seq(S), NEW t \in Seq(S), NEW u \in Seq(S)
  PROVE  s \o (t \o u) = (s \o t) \o u
OBVIOUS

\* A number that is printed consists of blanks, the sign, the prefix, zeros, the
\* digits of its magnitude, and blanks.
NumberText(num, base, type, front, zeros, back) ==
  Repeated(SPACE, front)
    \o (SignOf(num, type)
        \o (PrefixOf(base, type) \o (zeros \o Digits(Magnitude(num, type), base, type))))
    \o Repeated(SPACE, back)

\* What it needs, the digits being that many.
NeededFor(num, base, prec, type, digits) ==
  SignLength(num, type) + PrefixLength(base, type) + (IF digits > prec THEN digits ELSE prec)

IsLaidOut(num, base, size, prec, type, front, zeros, back) ==
  LET digits == Len(Digits(Magnitude(num, type), base, type))
      need   == NeededFor(num, base, prec, type, digits)
  IN  /\ front \in Nat /\ back \in Nat /\ zeros \in Seq({"0"})
      /\ front + SignLength(num, type) + PrefixLength(base, type) + Len(zeros) + digits + back
           = IF size > need THEN size ELSE need
      /\ LEFT \in type => front = 0
      /\ LEFT \notin type => back = 0
      /\ LEFT \notin type /\ ZEROPAD \in type => front = 0

LEMMA NumberIs ==
  ASSUME NEW num \in Words, NEW base \in Bases, NEW size \in Int, NEW prec \in Int, NEW type
  PROVE  \E front, back \in Nat, zeros \in Seq({"0"}) :
           /\ number(num, base, size, prec, type) =
                NumberText(num, base, type, front, zeros, back)
           /\ IsLaidOut(num, base, size, prec, type, front, zeros, back)
<1>  DEFINE digits == Digits(Magnitude(num, type), base, type)
            d      == Len(digits)
            places == IF d > prec THEN d ELSE prec
            sl     == SignLength(num, type)
            pl     == PrefixLength(base, type)
            pad    == Padding(size, SignOf(num, type), PrefixOf(base, type), places)
            blank  == IF pad > 0 THEN pad ELSE 0
            left   == LEFT \in type
            full   == ~left /\ ZEROPAD \in type
            one    == IF full THEN Repeated("0", pad) ELSE <<>>
            two    == Repeated("0", places - d)
            front  == IF left \/ full THEN 0 ELSE blank
            back   == IF left THEN blank ELSE 0
<1>1. digits \in Seq(Ink) /\ d \in Nat /\ d >= 1
  BY MagnitudeType, DigitsType
<1>2. places \in Nat /\ places >= d /\ places - d \in Nat
  BY <1>1
<1>3. /\ SignOf(num, type) \in Seq(Chars) /\ Len(SignOf(num, type)) = sl /\ sl \in Nat
      /\ PrefixOf(base, type) \in Seq(Ink) /\ Len(PrefixOf(base, type)) = pl /\ pl \in Nat
  BY SignType, PrefixType
<1>4. pad = size - sl - pl - places
  BY <1>3 DEF Padding
<1>5. pad \in Int /\ blank \in Nat
  <2>  HIDE DEF places, sl, pl
  <2>1. pad \in Int
    BY <1>2, <1>3, <1>4
  <2>  HIDE DEF pad
  <2>. QED  BY <2>1
<1>6. ASSUME NEW n \in Int
      PROVE  Repeated("0", n) \in Seq({"0"}) /\ Len(Repeated("0", n)) = IF n > 0 THEN n ELSE 0
  <2>1. "0" \in {"0"}
    OBVIOUS
  <2>. QED  BY <2>1, RepeatedIs
<1>7. two \in Seq({"0"}) /\ Len(two) = places - d
  <2>  HIDE DEF places, d
  <2>. QED  BY <1>2, <1>6
<1>8. one \in Seq({"0"}) /\ Len(one) = IF full THEN blank ELSE 0
  <2>  HIDE DEF pad
  <2>. QED  BY <1>5, <1>6
<1>  HIDE DEF one, two
<1>  DEFINE zeros == one \o two
<1>9. zeros \in Seq({"0"}) /\ Len(zeros) = (IF full THEN blank ELSE 0) + (places - d)
  <2>  HIDE DEF places, d, blank
  <2>. QED  BY <1>7, <1>8, Concat
<1>10. one \o (two \o digits) = zeros \o digits
  <2>1. "0" \in Chars
    BY CharsAssumption DEF FlagChars, ZEROPAD
  <2>2. one \in Seq(Chars) /\ two \in Seq(Chars) /\ digits \in Seq(Chars)
    BY <1>1, <1>7, <1>8, <2>1 DEF Ink
  <2>  HIDE DEF digits
  <2>. QED  BY <2>2, ConcatTwice
<1>  HIDE DEF zeros
<1>11. /\ (IF left \/ full THEN <<>> ELSE Repeated(SPACE, pad)) = Repeated(SPACE, front)
       /\ (IF left THEN Repeated(SPACE, pad) ELSE <<>>) = Repeated(SPACE, back)
  <2>  HIDE DEF pad
  <2>1. Repeated(SPACE, 0) = <<>>
    BY DEF Repeated
  <2>2. Repeated(SPACE, pad) = Repeated(SPACE, blank)
    <3>1. 1 .. pad = 1 .. blank
      BY <1>5
    <3>. QED  BY <3>1 DEF Repeated
  <2>  HIDE DEF blank
  <2>. QED  BY <2>1, <2>2
<1>12. number(num, base, size, prec, type) = NumberText(num, base, type, front, zeros, back)
  <2>1. number(num, base, size, prec, type) =
          (IF left \/ full THEN <<>> ELSE Repeated(SPACE, pad))
          \o (SignOf(num, type) \o (PrefixOf(base, type) \o (one \o (two \o digits))))
          \o (IF left THEN Repeated(SPACE, pad) ELSE <<>>)
    BY DEF number, one, two
  <2>  HIDE DEF pad, front, back, digits, full, left
  <2>. QED  BY <1>10, <1>11, <2>1 DEF NumberText, digits
<1>13. IsLaidOut(num, base, size, prec, type, front, zeros, back)
  <2>  DEFINE need == NeededFor(num, base, prec, type, d)
  <2>1. need = sl + pl + places
    BY DEF NeededFor
  <2>2. front \in Nat /\ back \in Nat
    <3>  HIDE DEF blank
    <3>. QED  BY <1>5
  <2>3. front + Len(zeros) + back = blank + (places - d)
    <3>  HIDE DEF places, d, blank
    <3>. QED  BY <1>2, <1>5, <1>9
  <2>4. sl + pl + places + blank = IF size > need THEN size ELSE need
    <3>  HIDE DEF places, sl, pl, need, pad
    <3>1. need \in Int /\ size = need + pad
      BY <1>2, <1>3, <1>4, <1>5, <2>1
    <3>2. /\ size > need <=> pad > 0
          /\ pad > 0 => blank = pad
          /\ ~(pad > 0) => blank = 0
      BY <1>5, <3>1
    <3>  HIDE DEF blank
    <3>3. sl + pl + places + blank = need + blank
      BY <2>1
    <3>4. need + 0 = need
      BY <3>1
    <3>. QED  BY <3>1, <3>2, <3>3, <3>4
  <2>  DEFINE total == IF size > need THEN size ELSE need
  <2>5. front + sl + pl + Len(zeros) + d + back = total
    <3>  DEFINE z == Len(zeros)
    <3>1. z \in Nat
      BY <1>9
    <3>2. front + z + back = blank + (places - d)
      BY <2>3
    <3>3. sl + pl + places + blank = total
      BY <2>4
    <3>  HIDE DEF z, places, sl, pl, need, d, blank, front, back, total
    <3>4. front + sl + pl + z + d + back = (front + z + back) + (sl + pl + d)
      BY <1>1, <1>3, <2>2, <3>1
    <3>5. (blank + (places - d)) + (sl + pl + d) = sl + pl + places + blank
      BY <1>1, <1>2, <1>3, <1>5
    <3>6. front + sl + pl + z + d + back = total
      BY <3>2, <3>3, <3>4, <3>5
    <3>. QED  BY <3>6 DEF z
  <2>6. /\ left => front = 0
        /\ ~left => back = 0
        /\ full => front = 0
    OBVIOUS
  <2>  HIDE DEF front, back
  <2>. QED  BY <1>9, <2>2, <2>5, <2>6 DEF IsLaidOut
<1>14. front \in Nat /\ back \in Nat /\ zeros \in Seq({"0"})
  <2>  HIDE DEF blank
  <2>. QED  BY <1>5, <1>9
<1>  HIDE DEF front, back
<1>. QED  BY <1>12, <1>13, <1>14

\* It is made of characters.
LEMMA NumberType ==
  ASSUME NEW num \in Words, NEW base \in Bases, NEW size \in Int, NEW prec \in Int, NEW type
  PROVE  number(num, base, size, prec, type) \in Seq(Chars)
<1>1. PICK front, back \in Nat, zeros \in Seq({"0"}) :
        number(num, base, size, prec, type) = NumberText(num, base, type, front, zeros, back)
  BY NumberIs
<1>2. SPACE \in Chars /\ "0" \in Chars
  BY CharsAssumption DEF FlagChars, ZEROPAD
<1>3. Repeated(SPACE, front) \in Seq(Chars) /\ Repeated(SPACE, back) \in Seq(Chars)
  <2>1. front \in Int /\ back \in Int
    OBVIOUS
  <2>. QED  BY <1>2, <2>1, RepeatedIs
<1>  DEFINE sign   == SignOf(num, type)
            prefix == PrefixOf(base, type)
            digits == Digits(Magnitude(num, type), base, type)
<1>4. sign \in Seq(Chars) /\ prefix \in Seq(Chars) /\ digits \in Seq(Chars)
  <2>1. prefix \in Seq(Ink) /\ digits \in Seq(Ink)
    BY PrefixType, MagnitudeType, DigitsType
  <2>  HIDE DEF prefix, digits
  <2>. QED  BY <2>1, SignType DEF Ink
<1>5. zeros \in Seq(Chars)
  BY <1>2
<1>  HIDE DEF sign, prefix, digits
<1>6. sign \o (prefix \o (zeros \o digits)) \in Seq(Chars)
  BY <1>4, <1>5
<1>. QED  BY <1>1, <1>3, <1>6 DEF NumberText, sign, prefix, digits

\* So is a text in its field.
LEMMA FieldType ==
  ASSUME NEW text \in Seq(Chars), NEW size \in Int, NEW type
  PROVE  Field(text, size, type) \in Seq(Chars)
<1>1. SPACE \in Chars /\ size - Len(text) \in Int
  BY CharsAssumption DEF FlagChars
<1>2. Repeated(SPACE, size - Len(text)) \in Seq(Chars)
  BY <1>1, RepeatedIs
<1>. QED  BY <1>2 DEF Field

-----------------------------------------------------------------------------
(***************************************************************************)
(* The parser keeps in step with what its format asks for.                 *)
(***************************************************************************)
\* How many arguments are asked for from a place of a format on, if that is
\* where the parser is and a part of its loop comes next.
AheadAt(f, p, part) ==
  CASE part = "text"      -> AskedFrom(f)[p]
    [] part = "flags"     -> Rest(f, AskedFrom(f), FlagsAt(f, p))
    [] part = "precision" -> Rest(f, AskedFrom(f), PrecisionAt(f, p))
    [] part = "qualifier" -> Rest(f, AskedFrom(f), QualifierAt(f, p))
    [] part = "convert"   -> Rest(f, AskedFrom(f), p)
    [] OTHER              -> 0

CallInv == CallFits([fmt |-> fmt, args |-> args]) /\ ~Starred

\* The arguments taken and those that are still asked for are those passed.
InStep == taken + AheadAt(fmt, fmt_pos, pc) = Len(args)

IInv == CallInv /\ TypeOK /\ InStep

\* The characters of a format, and its end.
LEMMA AtIs ==
  ASSUME NEW f \in Format, NEW p \in 1 .. Len(f) + 1
  PROVE  /\ Len(f) \in Nat
         /\ At(f, p) = NUL <=> p = Len(f) + 1
         /\ p # Len(f) + 1 => /\ p \in 1 .. Len(f) /\ p + 1 \in 1 .. Len(f) + 1
                              /\ At(f, p) = f[p] /\ At(f, p) \in Chars
<1>1. Len(f) \in Nat /\ \A q \in 1 .. Len(f) : f[q] \in Chars
  BY DEF Format
<1>2. CASE p = Len(f) + 1
  BY <1>1, <1>2 DEF At
<1>3. CASE p # Len(f) + 1
  <2>1. p \in 1 .. Len(f) /\ p + 1 \in 1 .. Len(f) + 1
    BY <1>1, <1>3
  <2>2. At(f, p) = f[p] /\ f[p] \in Chars
    BY <1>1, <2>1 DEF At
  <2>. QED  BY <1>1, <1>3, <2>1, <2>2, CharsAssumption
<1>. QED  BY <1>2, <1>3

\* No step of the parser but a conversion changes what is asked for.
LEMMA AheadText ==
  ASSUME NEW f \in Format, NEW p \in 1 .. Len(f) + 1
  PROVE  /\ At(f, p) \notin {"%", NUL} => AheadAt(f, p, "text") = AheadAt(f, p + 1, "text")
         /\ At(f, p) = "%" => AheadAt(f, p, "text") = AheadAt(f, p + 1, "flags")
         /\ At(f, p) = NUL => AheadAt(f, p, "text") = 0
<1>  DEFINE a == AskedFrom(f)
<1>1. a[p] = Ask(f, a, p)
  BY AskedIs
<1>2. \A q : AheadAt(f, q, "text") = a[q] /\ AheadAt(f, q, "flags") = Rest(f, a, FlagsAt(f, q))
  BY DEF AheadAt
<1>  HIDE DEF a
<1>3. "%" # NUL
  BY DEF NUL
<1>. QED  BY <1>1, <1>2, <1>3, AtIs DEF Ask

LEMMA AheadFlags ==
  ASSUME NEW f \in Format, NEW p \in 1 .. Len(f) + 1
  PROVE  /\ At(f, p) \in FlagChars => AheadAt(f, p, "flags") = AheadAt(f, p + 1, "flags")
         /\ At(f, p) \notin FlagChars =>
              AheadAt(f, p, "flags") = AheadAt(f, EndOf(f, p), "precision")
<1>  DEFINE a == AskedFrom(f)
<1>0. NUL \notin FlagChars
  BY Zenon DEF NUL, FlagChars, LEFT, PLUS, SPACE, SPECIAL, ZEROPAD
<1>1. \A q : /\ AheadAt(f, q, "flags") = Rest(f, a, FlagsAt(f, q))
             /\ AheadAt(f, q, "precision") = Rest(f, a, PrecisionAt(f, q))
  BY DEF AheadAt
<1>  HIDE DEF a
<1>2. At(f, p) \in FlagChars => FlagsAt(f, p) = FlagsAt(f, p + 1)
  BY <1>0, PastNext DEF FlagsAt
<1>3. At(f, p) \notin FlagChars => FlagsAt(f, p) = PrecisionAt(f, EndOf(f, p))
  BY <1>0, PastHere DEF FlagsAt, WidthAt
<1>. QED  BY <1>1, <1>2, <1>3

LEMMA AheadPrecision ==
  ASSUME NEW f \in Format, NEW p \in 1 .. Len(f) + 1
  PROVE  /\ At(f, p) = "." =>
              AheadAt(f, p, "precision") = AheadAt(f, EndOf(f, p + 1), "qualifier")
         /\ At(f, p) # "." => AheadAt(f, p, "precision") = AheadAt(f, p, "qualifier")
         /\ AheadAt(f, p, "qualifier") = AheadAt(f, QualifierAt(f, p), "convert")
<1>  DEFINE a == AskedFrom(f)
<1>1. \A q : /\ AheadAt(f, q, "precision") = Rest(f, a, PrecisionAt(f, q))
             /\ AheadAt(f, q, "qualifier") = Rest(f, a, QualifierAt(f, q))
             /\ AheadAt(f, q, "convert") = Rest(f, a, q)
  BY DEF AheadAt
<1>  HIDE DEF a
<1>. QED  BY <1>1 DEF PrecisionAt

LEMMA AheadConvert ==
  ASSUME NEW f \in Format, NEW p \in 1 .. Len(f) + 1
  PROVE  /\ At(f, p) \in Conversions =>
              /\ p # Len(f) + 1
              /\ AheadAt(f, p, "convert") = AheadAt(f, p + 1, "text") + 1
              /\ AheadAt(f, p + 1, "text") \in Nat
         /\ At(f, p) \notin Conversions /\ At(f, p) # NUL =>
              AheadAt(f, p, "convert") = AheadAt(f, p + 1, "text")
         /\ At(f, p) = NUL => AheadAt(f, p, "convert") = AheadAt(f, p, "text")
<1>  DEFINE a == AskedFrom(f)
<1>0. NUL \notin Conversions
  BY DEF NUL, Conversions
<1>1. \A q : /\ AheadAt(f, q, "text") = a[q]
             /\ AheadAt(f, q, "convert") = Rest(f, a, q)
  BY DEF AheadAt
<1>2. /\ p # Len(f) + 1 => p + 1 \in 1 .. Len(f) + 1 /\ a[p + 1] \in Nat
      /\ p = Len(f) + 1 => a[p] = 0
  BY AtIs, AskedType, AskedIs DEF Ask
<1>  HIDE DEF a
<1>3. At(f, p) = NUL <=> p = Len(f) + 1
  BY AtIs
<1>4. CASE p = Len(f) + 1
  BY <1>0, <1>1, <1>2, <1>3, <1>4 DEF Rest
<1>5. CASE p # Len(f) + 1
  <2>1. At(f, p) = f[p] /\ At(f, p) # NUL
    BY <1>3, <1>5, AtIs
  <2>2. AheadAt(f, p, "convert") = AheadAt(f, p + 1, "text") + (IF f[p] \in Conversions THEN 1 ELSE 0)
    BY <1>1, <1>5 DEF Rest
  <2>3. AheadAt(f, p + 1, "text") \in Nat
    BY <1>1, <1>2, <1>5
  <2>. QED  BY <1>5, <2>1, <2>2, <2>3
<1>. QED  BY <1>4, <1>5

\* The larger and the smaller of two numbers.
LEMMA MaxMinIs ==
  ASSUME NEW a \in Int, NEW b \in Int
  PROVE  /\ Max({a, b}) = IF a > b THEN a ELSE b
         /\ Min({a, b}) = IF a < b THEN a ELSE b
<1>1. /\ \A x \in {a, b} : (\A y \in {a, b} : x >= y) => x = IF a > b THEN a ELSE b
      /\ \A x \in {a, b} : (\A y \in {a, b} : x =< y) => x = IF a < b THEN a ELSE b
  OBVIOUS
<1>2. /\ \E x \in {a, b} : \A y \in {a, b} : x >= y
      /\ \E x \in {a, b} : \A y \in {a, b} : x =< y
  <2>1. CASE a > b
    BY <2>1
  <2>2. CASE ~(a > b)
    BY <2>2
  <2>. QED  BY <2>1, <2>2
<1>. QED  BY <1>1, <1>2 DEF Max, Min

\* A number that stays clear of the largest int is read as it is written.
LEMMA AtoiIs ==
  ASSUME NEW f, NEW p, NumberAt(f, p) \in 0 .. Word \div 4
  PROVE  skip_atoi(f, p) \in 0 .. Word \div 2 - 1
<1>  DEFINE n == NumberAt(f, p)
<1>1. n \in Nat /\ n < Word \div 2 /\ 2 * n < Word /\ n < Word
  BY WordAssumption
<1>  HIDE DEF n
<1>2. n % Word = n
  BY <1>1, WordAssumption
<1>3. skip_atoi(f, p) = Signed(n % Word)
  BY DEF skip_atoi, n
<1>4. Signed(n) = n
  BY <1>1, WordAssumption DEF Signed
<1>. QED  BY <1>1, <1>2, <1>3, <1>4, WordAssumption

\* What the call is known to be.
LEMMA CallIs ==
  ASSUME CallInv
  PROVE  /\ fmt \in Format /\ Len(fmt) \in Nat
         /\ args \in Seq(Arg) /\ Len(args) \in Nat
         /\ \A p \in 1 .. Len(fmt) + 1 : /\ At(fmt, p) # "*"
                                            /\ skip_atoi(fmt, p) \in 0 .. Word \div 2 - 1
         /\ Len(args) = AskedFrom(fmt)[1]
<1>1. /\ fmt \in Seq(Chars) /\ args \in Seq(Arg)
      /\ \A p \in 1 .. Len(fmt) + 1 : NumberAt(fmt, p) \in 0 .. Word \div 4
      /\ Len(args) = AskedFrom(fmt)[1]
  BY DEF CallInv, CallFits
<1>2. ASSUME NEW p \in 1 .. Len(fmt) + 1
      PROVE  At(fmt, p) # "*"
  BY DEF CallInv, Starred, HasStar, At, NUL
<1>. QED  BY <1>1, <1>2, AtoiIs DEF Format

\* The call stays what it is.
LEMMA CallSame ==
  ASSUME CallInv, UNCHANGED Call
  PROVE  CallInv'
BY DEF CallInv, Call, CallFits, Starred, HasStar

\* Steps of a directive that print nothing and take nothing: the next place and
\* part have the same number of arguments ahead.
LEMMA QuietStep ==
  ASSUME IInv, UNCHANGED <<Call, Effect>>,
         fmt_pos' \in 1 .. Len(fmt) + 1,
         pc' \in {"text", "flags", "precision", "qualifier", "convert", "returned"},
         AheadAt(fmt, fmt_pos', pc') = AheadAt(fmt, fmt_pos, pc),
         flags' \subseteq FlagChars,
         field_width' \in -(Word \div 2) .. Word \div 2 - 1,
         precision' \in -1 .. Word \div 2 - 1
  PROVE  IInv'
<1>1. CallInv'
  BY CallSame DEF IInv
<1>2. TypeOK'
  BY DEF IInv, TypeOK, Call, Effect
<1>3. InStep'
  BY DEF IInv, InStep, Call, Effect
<1>. QED  BY <1>1, <1>2, <1>3 DEF IInv

LEMMA PercentStep ==
  ASSUME IInv, Percent
  PROVE  IInv'
<1>1. fmt \in Format /\ fmt_pos \in 1 .. Len(fmt) + 1 /\ Len(fmt) \in Nat
  BY CallIs DEF IInv, TypeOK
<1>2. At(fmt, fmt_pos) = "%" /\ fmt_pos' = fmt_pos + 1 /\ pc = "text" /\ pc' = "flags"
  BY DEF Percent, here
<1>3. fmt_pos + 1 \in 1 .. Len(fmt) + 1
  BY <1>1, <1>2, AtIs DEF NUL
<1>4. AheadAt(fmt, fmt_pos', pc') = AheadAt(fmt, fmt_pos, pc)
  BY <1>1, <1>2, AheadText
<1>. QED  BY <1>2, <1>3, <1>4, QuietStep DEF Percent, IInv, TypeOK

LEMMA FlagStep ==
  ASSUME IInv, Flag
  PROVE  IInv'
<1>1. fmt \in Format /\ fmt_pos \in 1 .. Len(fmt) + 1 /\ Len(fmt) \in Nat
  BY CallIs DEF IInv, TypeOK
<1>2. At(fmt, fmt_pos) \in FlagChars /\ fmt_pos' = fmt_pos + 1 /\ pc = "flags" /\ pc' = pc
  BY DEF Flag, here
<1>3. fmt_pos + 1 \in 1 .. Len(fmt) + 1
  <2>1. NUL \notin FlagChars
    BY Zenon DEF NUL, FlagChars, LEFT, PLUS, SPACE, SPECIAL, ZEROPAD
  <2>. QED  BY <1>1, <1>2, <2>1, AtIs
<1>4. AheadAt(fmt, fmt_pos', pc') = AheadAt(fmt, fmt_pos, pc)
  BY <1>1, <1>2, AheadFlags
<1>5. flags' \subseteq FlagChars
  <2>1. flags' = flags \cup {At(fmt, fmt_pos)}
    BY DEF Flag, here
  <2>. QED  BY <1>2, <2>1 DEF IInv, TypeOK
<1>. QED  BY <1>2, <1>3, <1>4, <1>5, QuietStep DEF Flag, IInv, TypeOK

LEMMA WidthStep ==
  ASSUME IInv, Width
  PROVE  IInv'
<1>1. /\ fmt \in Format /\ fmt_pos \in 1 .. Len(fmt) + 1 /\ Len(fmt) \in Nat
      /\ skip_atoi(fmt, fmt_pos) \in 0 .. Word \div 2 - 1
  BY CallIs, WordAssumption DEF IInv, TypeOK
<1>2. At(fmt, fmt_pos) \notin FlagChars /\ pc = "flags" /\ pc' = "precision"
  BY DEF Width, here
<1>3. fmt_pos' = EndOf(fmt, fmt_pos) /\ fmt_pos' \in 1 .. Len(fmt) + 1
  BY <1>1, EndIs DEF Width, here
<1>4. AheadAt(fmt, fmt_pos', pc') = AheadAt(fmt, fmt_pos, pc)
  BY <1>1, <1>2, <1>3, AheadFlags
<1>5. field_width' \in -(Word \div 2) .. Word \div 2 - 1
  <2>1. field_width' = skip_atoi(fmt, fmt_pos) \/ field_width' = -1
    BY DEF Width
  <2>. QED  BY <1>1, <2>1, WordAssumption
<1>. QED  BY <1>2, <1>3, <1>4, <1>5, QuietStep DEF Width, IInv, TypeOK

LEMMA PrecisionStep ==
  ASSUME IInv, Precision
  PROVE  IInv'
<1>1. /\ fmt \in Format /\ fmt_pos \in 1 .. Len(fmt) + 1 /\ Len(fmt) \in Nat
      /\ Word \in Nat
  BY CallIs, WordAssumption DEF IInv, TypeOK
<1>2. pc = "precision" /\ pc' = "qualifier"
  BY DEF Precision
<1>3. /\ fmt_pos' \in 1 .. Len(fmt) + 1 /\ precision' \in -1 .. Word \div 2 - 1
      /\ AheadAt(fmt, fmt_pos', pc') = AheadAt(fmt, fmt_pos, pc)
  <2>1. CASE here = "."
    <3>1. At(fmt, fmt_pos) = "." /\ At(fmt, fmt_pos) # NUL
      BY <2>1 DEF here, NUL
    <3>2. fmt_pos + 1 \in 1 .. Len(fmt) + 1
      BY <1>1, <3>1, AtIs
    <3>3. fmt_pos' = EndOf(fmt, fmt_pos + 1) /\ precision' = Max({skip_atoi(fmt, fmt_pos + 1), 0})
      BY <2>1 DEF Precision
    <3>4. skip_atoi(fmt, fmt_pos + 1) \in 0 .. Word \div 2 - 1
      BY <3>2, CallIs DEF IInv
    <3>7. precision' \in 0 .. Word \div 2 - 1
      BY <3>3, <3>4, MaxMinIs
    <3>5. EndOf(fmt, fmt_pos + 1) \in 1 .. Len(fmt) + 1
      BY <1>1, <3>2, EndIs
    <3>6. AheadAt(fmt, fmt_pos, "precision") = AheadAt(fmt, EndOf(fmt, fmt_pos + 1), "qualifier")
      BY <1>1, <3>1, AheadPrecision
    <3>. QED  BY <1>1, <1>2, <3>3, <3>5, <3>6, <3>7
  <2>2. CASE here # "."
    <3>1. fmt_pos' = fmt_pos /\ precision' = -1
      BY <2>2 DEF Precision
    <3>2. AheadAt(fmt, fmt_pos, "precision") = AheadAt(fmt, fmt_pos, "qualifier")
      BY <1>1, <2>2, AheadPrecision DEF here
    <3>. QED  BY <1>1, <1>2, <3>1, <3>2
  <2>. QED  BY <2>1, <2>2
<1>. QED  BY <1>2, <1>3, QuietStep DEF Precision, IInv, TypeOK

LEMMA QualifierStep ==
  ASSUME IInv, Qualifier
  PROVE  IInv'
<1>1. fmt \in Format /\ fmt_pos \in 1 .. Len(fmt) + 1 /\ Len(fmt) \in Nat
  BY CallIs DEF IInv, TypeOK
<1>2. pc = "qualifier" /\ pc' = "convert"
  BY DEF Qualifier
<1>3. fmt_pos' = QualifierAt(fmt, fmt_pos)
  BY DEF Qualifier, here, QualifierAt
<1>4. fmt_pos' \in 1 .. Len(fmt) + 1
  <2>1. QualifierAt(fmt, fmt_pos) \in fmt_pos .. Len(fmt) + 1
    BY <1>1, DirectiveEnds
  <2>. QED  BY <1>1, <1>3, <2>1
<1>5. AheadAt(fmt, fmt_pos', pc') = AheadAt(fmt, fmt_pos, pc)
  BY <1>1, <1>2, <1>3, AheadPrecision
<1>. QED  BY <1>2, <1>4, <1>5, QuietStep DEF Qualifier, IInv, TypeOK, Directive

LEMMA ReturnStep ==
  ASSUME IInv, Return
  PROVE  IInv'
<1>1. fmt \in Format /\ fmt_pos \in 1 .. Len(fmt) + 1
  BY CallIs DEF IInv, TypeOK
<1>2. pc = "text" /\ pc' = "returned" /\ fmt_pos' = fmt_pos /\ At(fmt, fmt_pos) = NUL
  BY DEF Return, here
<1>3. AheadAt(fmt, fmt_pos, "returned") = 0
  BY DEF AheadAt
<1>4. AheadAt(fmt, fmt_pos', pc') = AheadAt(fmt, fmt_pos, pc)
  BY <1>1, <1>2, <1>3, AheadText
<1>. QED  BY <1>1, <1>2, <1>4, QuietStep DEF Return, IInv, TypeOK, Directive

\* Steps that print: what is written stays characters, and no %n has stored
\* more than their number.
LEMMA PrintStep ==
  ASSUME IInv, UNCHANGED <<Call, Directive, count, taken>>,
         NEW text \in Seq(Chars), str' = str \o text,
         fmt_pos' \in 1 .. Len(fmt) + 1, pc' = "text",
         AheadAt(fmt, fmt_pos', pc') = AheadAt(fmt, fmt_pos, pc)
  PROVE  IInv'
<1>1. CallInv'
  BY CallSame DEF IInv
<1>2. str' \in Seq(Chars) /\ Len(str') \in Nat /\ Len(str) \in Nat /\ Len(str') >= Len(str)
  BY DEF IInv, TypeOK
<1>3. count \in -1 .. Len(str')
  BY <1>2 DEF IInv, TypeOK
<1>4. TypeOK'
  BY <1>2, <1>3 DEF IInv, TypeOK, Call, Directive
<1>5. InStep'
  BY DEF IInv, InStep, Call
<1>. QED  BY <1>1, <1>4, <1>5 DEF IInv

LEMMA TextStep ==
  ASSUME IInv, Text
  PROVE  IInv'
<1>1. fmt \in Format /\ fmt_pos \in 1 .. Len(fmt) + 1 /\ str \in Seq(Chars)
  BY CallIs DEF IInv, TypeOK
<1>2. /\ pc = "text" /\ pc' = "text" /\ fmt_pos' = fmt_pos + 1
      /\ At(fmt, fmt_pos) \notin {"%", NUL}
      /\ str' = Append(str, At(fmt, fmt_pos))
  BY DEF Text, here
<1>3. fmt_pos + 1 \in 1 .. Len(fmt) + 1 /\ At(fmt, fmt_pos) \in Chars
  BY <1>1, <1>2, AtIs
<1>4. AheadAt(fmt, fmt_pos', pc') = AheadAt(fmt, fmt_pos, pc)
  BY <1>1, <1>2, AheadText
<1>  DEFINE text == <<At(fmt, fmt_pos)>>
<1>5. text \in Seq(Chars) /\ str' = str \o text
  <2>1. \A c \in Chars : Append(str, c) = str \o <<c>> /\ <<c>> \in Seq(Chars)
    BY <1>1
  <2>. QED  BY <1>2, <1>3, <2>1
<1>6. UNCHANGED <<Call, Directive, count, taken>>
  BY DEF Text
<1>  HIDE DEF text
<1>. QED  BY <1>2, <1>3, <1>4, <1>5, <1>6, PrintStep

LEMMA DefaultStep ==
  ASSUME IInv, Default
  PROVE  IInv'
<1>  DEFINE c == At(fmt, fmt_pos)
            text == (IF c = "%" THEN <<>> ELSE <<"%">>) \o (IF c = NUL THEN <<>> ELSE <<c>>)
<1>1. fmt \in Format /\ fmt_pos \in 1 .. Len(fmt) + 1 /\ str \in Seq(Chars)
  BY CallIs DEF IInv, TypeOK
<1>2. /\ pc = "convert" /\ pc' = "text" /\ c \notin Conversions
      /\ fmt_pos' = IF c = NUL THEN fmt_pos ELSE fmt_pos + 1
      /\ str' = str \o (IF c = "%" THEN <<>> ELSE <<"%">>) \o (IF c = NUL THEN <<>> ELSE <<c>>)
  BY DEF Default, here
<1>3. /\ fmt_pos' \in 1 .. Len(fmt) + 1
      /\ AheadAt(fmt, fmt_pos', pc') = AheadAt(fmt, fmt_pos, pc)
  BY <1>1, <1>2, AtIs, AheadConvert
<1>4. text \in Seq(Chars) /\ str' = str \o text
  <2>1. "%" \in Chars /\ (c # NUL => c \in Chars)
    BY <1>1, CharsAssumption, AtIs
  <2>  DEFINE one == IF c = "%" THEN <<>> ELSE <<"%">>
              two == IF c = NUL THEN <<>> ELSE <<c>>
  <2>2. one \in Seq(Chars) /\ two \in Seq(Chars)
    <3>  HIDE DEF c
    <3>. QED  BY <2>1
  <2>  HIDE DEF one, two
  <2>3. one \o two \in Seq(Chars) /\ str \o (one \o two) = (str \o one) \o two
    BY <1>1, <2>2, ConcatTwice
  <2>. QED  BY <1>2, <2>3 DEF one, two
<1>5. UNCHANGED <<Call, Directive, count, taken>>
  BY DEF Default
<1>  HIDE DEF text
<1>. QED  BY <1>2, <1>3, <1>4, <1>5, PrintStep

\* At a conversion there is an argument left to take.
LEMMA ArgIs ==
  ASSUME IInv, pc = "convert", here \in Conversions
  PROVE  /\ fmt_pos + 1 \in 1 .. Len(fmt) + 1
         /\ taken + 1 \in 1 .. Len(args)
         /\ AheadAt(fmt, fmt_pos, pc) = AheadAt(fmt, fmt_pos + 1, "text") + 1
         /\ AheadAt(fmt, fmt_pos + 1, "text") \in Nat
         /\ word \in Words /\ int \in Int /\ arg.char \in Chars /\ arg.text \in Seq(Chars)
<1>1. /\ fmt \in Format /\ fmt_pos \in 1 .. Len(fmt) + 1 /\ Len(fmt) \in Nat
      /\ taken \in Nat /\ args \in Seq(Arg) /\ Len(args) \in Nat
  BY CallIs DEF IInv, TypeOK
<1>2. /\ fmt_pos # Len(fmt) + 1
      /\ AheadAt(fmt, fmt_pos, pc) = AheadAt(fmt, fmt_pos + 1, "text") + 1
      /\ AheadAt(fmt, fmt_pos + 1, "text") \in Nat
  BY <1>1, AheadConvert DEF here
<1>3. fmt_pos + 1 \in 1 .. Len(fmt) + 1
  BY <1>1, <1>2
<1>4. taken + 1 \in 1 .. Len(args)
  BY <1>1, <1>2 DEF IInv, InStep
<1>5. arg \in Arg
  BY <1>1, <1>4 DEF arg
<1>6. word \in Words /\ arg.char \in Chars /\ arg.text \in Seq(Chars)
  BY <1>5 DEF Arg, Words, word
<1>7. int \in Int
  BY <1>6, WordAssumption DEF int, Signed, Words
<1>. QED  BY <1>2, <1>3, <1>4, <1>6, <1>7

\* A conversion takes one argument, and prints.
LEMMA ConvertsStep ==
  ASSUME IInv, NEW conversions \in SUBSET Conversions, NEW text \in Seq(Chars),
         Converts(conversions, text)
  PROVE  IInv'
<1>1. /\ pc = "convert" /\ here \in Conversions /\ pc' = "text"
      /\ fmt_pos' = fmt_pos + 1 /\ taken' = taken + 1 /\ str' = str \o text
      /\ UNCHANGED <<Call, Directive, count>>
  BY DEF Converts
<1>2. /\ fmt_pos + 1 \in 1 .. Len(fmt) + 1
      /\ taken + 1 \in 1 .. Len(args)
      /\ AheadAt(fmt, fmt_pos, pc) = AheadAt(fmt, fmt_pos + 1, "text") + 1
      /\ AheadAt(fmt, fmt_pos + 1, "text") \in Nat
  BY <1>1, ArgIs
<1>3. CallInv'
  BY <1>1, CallSame DEF IInv
<1>4. str' \in Seq(Chars) /\ Len(str') \in Nat /\ Len(str) \in Nat /\ Len(str') >= Len(str)
  BY <1>1 DEF IInv, TypeOK
<1>5. count \in -1 .. Len(str')
  BY <1>4 DEF IInv, TypeOK
<1>6. TypeOK'
  BY <1>1, <1>2, <1>4, <1>5 DEF IInv, TypeOK, Call, Directive
<1>7. InStep'
  <2>1. taken \in Nat /\ taken + AheadAt(fmt, fmt_pos, pc) = Len(args)
    BY DEF IInv, TypeOK, InStep
  <2>2. taken + 1 + AheadAt(fmt, fmt_pos + 1, "text") = Len(args)
    BY <1>2, <2>1
  <2>. QED  BY <1>1, <2>2 DEF InStep, Call
<1>. QED  BY <1>3, <1>6, <1>7 DEF IInv

LEMMA CountStep ==
  ASSUME IInv, Count
  PROVE  IInv'
<1>1. /\ pc = "convert" /\ here \in Conversions /\ pc' = "text"
      /\ fmt_pos' = fmt_pos + 1 /\ taken' = taken + 1 /\ count' = Len(str)
      /\ UNCHANGED <<Call, Directive, str>>
  BY DEF Count, Conversions
<1>2. /\ fmt_pos + 1 \in 1 .. Len(fmt) + 1
      /\ taken + 1 \in 1 .. Len(args)
      /\ AheadAt(fmt, fmt_pos, pc) = AheadAt(fmt, fmt_pos + 1, "text") + 1
      /\ AheadAt(fmt, fmt_pos + 1, "text") \in Nat
  BY <1>1, ArgIs
<1>3. CallInv'
  BY <1>1, CallSame DEF IInv
<1>4. count' \in -1 .. Len(str')
  <2>1. Len(str) \in Nat
    BY DEF IInv, TypeOK
  <2>. QED  BY <1>1, <2>1
<1>5. TypeOK'
  BY <1>1, <1>2, <1>4 DEF IInv, TypeOK, Call, Directive
<1>6. InStep'
  <2>1. taken \in Nat /\ taken + AheadAt(fmt, fmt_pos, pc) = Len(args)
    BY DEF IInv, TypeOK, InStep
  <2>2. taken + 1 + AheadAt(fmt, fmt_pos + 1, "text") = Len(args)
    BY <1>2, <2>1
  <2>. QED  BY <1>1, <2>2 DEF InStep, Call
<1>. QED  BY <1>3, <1>5, <1>6 DEF IInv

\* What each conversion prints.
LEMMA ConversionStep ==
  ASSUME IInv, Char \/ String \/ Octal \/ Pointer \/ Hex \/ Decimal
  PROVE  IInv'
<1>1. field_width \in Int /\ precision \in Int
  BY WordAssumption DEF IInv, TypeOK
<1>2. ASSUME NEW conversions \in SUBSET Conversions, NEW base \in Bases, NEW size \in Int,
             NEW type, Converts(conversions, number(word, base, size, precision, type))
      PROVE  IInv'
  <2>1. word \in Words
    BY <1>2, ArgIs DEF Converts
  <2>2. number(word, base, size, precision, type) \in Seq(Chars)
    BY <1>1, <2>1, NumberType
  <2>. QED  BY <1>2, <2>2, ConvertsStep
<1>3. /\ {"c"} \subseteq Conversions /\ {"s"} \subseteq Conversions
      /\ {"o"} \subseteq Conversions /\ {"p"} \subseteq Conversions
      /\ {"x"} \subseteq Conversions /\ {"X"} \subseteq Conversions
      /\ {"d", "i"} \subseteq Conversions /\ {"u"} \subseteq Conversions
      /\ 8 \in Bases /\ 10 \in Bases /\ 16 \in Bases
  BY DEF Conversions, Bases
<1>4. CASE Char
  <2>  DEFINE text == Field(<<arg.char>>, field_width, flags)
  <2>1. Converts({"c"}, text)
    BY <1>4 DEF Char
  <2>2. arg.char \in Chars
    BY <1>3, <2>1, ArgIs DEF Converts
  <2>3. <<arg.char>> \in Seq(Chars)
    BY <2>2
  <2>4. text \in Seq(Chars)
    BY <1>1, <2>3, FieldType
  <2>  HIDE DEF text
  <2>. QED  BY <1>3, <2>1, <2>4, ConvertsStep
<1>5. CASE String
  <2>  DEFINE text == Field(Shown(arg.text), field_width, flags)
  <2>1. Converts({"s"}, text)
    BY <1>5 DEF String
  <2>2. arg.text \in Seq(Chars)
    BY <1>3, <2>1, ArgIs DEF Converts
  <2>3. Shown(arg.text) \in Seq(Chars)
    BY <1>1, <2>2 DEF Shown
  <2>4. text \in Seq(Chars)
    BY <1>1, <2>3, FieldType
  <2>  HIDE DEF text
  <2>. QED  BY <1>3, <2>1, <2>4, ConvertsStep
<1>6. CASE Octal
  BY <1>1, <1>2, <1>3, <1>6 DEF Octal
<1>7. CASE Pointer
  <2>1. CASE field_width = -1
    <3>1. Converts({"p"}, number(word, 16, 8, precision, flags \cup {ZEROPAD}))
      BY <1>7, <2>1 DEF Pointer
    <3>. QED  BY <1>2, <1>3, <3>1
  <2>2. CASE field_width # -1
    <3>1. Converts({"p"}, number(word, 16, field_width, precision, flags))
      BY <1>7, <2>2 DEF Pointer
    <3>. QED  BY <1>1, <1>2, <1>3, <3>1
  <2>. QED  BY <2>1, <2>2
<1>8. CASE Hex
  BY <1>1, <1>2, <1>3, <1>8 DEF Hex
<1>9. CASE Decimal
  BY <1>1, <1>2, <1>3, <1>9 DEF Decimal
<1>. QED  BY <1>4, <1>5, <1>6, <1>7, <1>8, <1>9

\* Without an asterisk in the format the steps for one do not occur.
LEMMA NoStar ==
  ASSUME IInv
  PROVE  ~WidthStar /\ ~PrecisionStar
<1>1. fmt \in Format /\ fmt_pos \in 1 .. Len(fmt) + 1
      /\ \A p \in 1 .. Len(fmt) + 1 : At(fmt, p) # "*"
  BY CallIs DEF IInv, TypeOK
<1>2. here = "." => fmt_pos + 1 \in 1 .. Len(fmt) + 1
  BY <1>1, AtIs DEF here, NUL
<1>. QED  BY <1>1, <1>2 DEF WidthStar, PrecisionStar, here

LEMMA Step ==
  ASSUME IInv, [Next]_vars
  PROVE  IInv'
<1>1. CASE UNCHANGED vars
  BY <1>1 DEF vars, IInv, CallInv, CallFits, Starred, HasStar, TypeOK, InStep
<1>2. CASE Next
  BY <1>2, NoStar, TextStep, PercentStep, FlagStep, WidthStep, PrecisionStep,
     QualifierStep, ConversionStep, CountStep, DefaultStep, ReturnStep DEF Next
<1>. QED  BY <1>1, <1>2

LEMMA InitStep ==
  ASSUME Init, NEW call \in Calls, fmt = call.fmt, args = call.args,
         CallFits(call), ~HasStar(call.fmt)
  PROVE  IInv
<1>1. CallInv
  BY DEF CallInv, CallFits, Starred
<1>2. fmt \in Format /\ Len(fmt) \in Nat /\ Len(args) \in Nat /\ Len(args) = AskedFrom(fmt)[1]
  BY <1>1, CallIs
<1>3. TypeOK
  <2>1. -1 \in -(Word \div 2) .. Word \div 2 - 1 /\ -1 \in -1 .. Word \div 2 - 1
    BY WordAssumption
  <2>2. <<>> \in Seq(Chars) /\ Len(<<>>) = 0
    OBVIOUS
  <2>. QED  BY <1>2, <2>1, <2>2 DEF Init, TypeOK
<1>4. InStep
  BY <1>2 DEF Init, InStep, AheadAt
<1>. QED  BY <1>1, <1>3, <1>4 DEF IInv

\* Whatever formats and arguments: when a format without an asterisk is through
\* in a call that passes what the format asks for, vsprintf() has taken exactly
\* the arguments passed (vsprintf.c:213-372); formats with asterisks are free.
THEOREM ArgumentsInStep ==
  ASSUME \A call \in Calls : HasStar(call.fmt) \/ CallFits(call)
  PROVE  Spec => []ArgsInStep
<1>1. Init => Starred \/ IInv
  BY InitStep DEF Init, Starred
<1>2. (Starred \/ IInv) /\ [Next]_vars => (Starred \/ IInv)'
  <2>1. ASSUME Starred, [Next]_vars
        PROVE  Starred'
    <3>1. fmt' = fmt
      BY <2>1 DEF Next, vars, Call, Text, Percent, Flag, Width, WidthStar, Precision,
         PrecisionStar, Qualifier, Char, String, Octal, Pointer, Hex, Decimal, Count,
         Default, Return, Converts
    <3>. QED  BY <2>1, <3>1 DEF Starred, HasStar
  <2>. QED  BY <2>1, Step
<1>3. Starred \/ IInv => ArgsInStep
  <2>1. ASSUME IInv, pc = "returned"
        PROVE  taken = Len(args)
    <3>1. AheadAt(fmt, fmt_pos, pc) = 0
      BY <2>1 DEF AheadAt
    <3>2. taken \in Nat /\ taken + 0 = Len(args)
      BY <2>1, <3>1 DEF IInv, TypeOK, InStep
    <3>. QED  BY <3>2
  <2>. QED  BY <2>1 DEF ArgsInStep
<1>. QED  BY <1>1, <1>2, <1>3, PTL DEF Spec

\* In calls that pass what their formats ask for, without asterisks and with
\* widths and precisions well within an int, the parser
\* stays within the format and the arguments, writes characters only, and %n
\* never stores more than has been written (vsprintf.c:213-372).
THEOREM Types ==
  ASSUME \A call \in Calls : CallFits(call) /\ ~HasStar(call.fmt)
  PROVE  Spec => []TypeOK
<1>1. Init => IInv
  BY InitStep DEF Init
<1>2. IInv /\ [Next]_vars => IInv'
  BY Step
<1>3. IInv => TypeOK
  BY DEF IInv
<1>. QED  BY <1>1, <1>2, <1>3, PTL DEF Spec

-----------------------------------------------------------------------------
(***************************************************************************)
(* What is printed fits its field.                                         *)
(***************************************************************************)
\* What a conversion has appended is what it has printed.
LEMMA PrintedIs ==
  ASSUME str \in Seq(Chars), NEW text \in Seq(Chars), str' = str \o text
  PROVE  printed = text
<1>1. SubSeq(str \o text, Len(str) + 1, Len(str \o text)) = text
  OBVIOUS
<1>. QED  BY <1>1 DEF printed

\* A text in its field: the text at its side, blanks in the rest.
IsField(out, text, n, size, type) ==
  LET last  == IF size > n THEN size ELSE n
      start == IF LEFT \in type THEN 0 ELSE last - n
  IN  /\ Len(out) = last
      /\ \A i \in 1 .. last :
           out[i] = IF i - start \in 1 .. n THEN text[i - start] ELSE SPACE

LEMMA FieldIs ==
  ASSUME NEW text \in Seq(Chars), NEW size \in Int, NEW type
  PROVE  IsField(Field(text, size, type), text, Len(text), size, type)
<1>  DEFINE n     == Len(text)
            pad   == Repeated(SPACE, size - n)
            last  == IF size > n THEN size ELSE n
            start == IF LEFT \in type THEN 0 ELSE last - n
<1>1. n \in Nat /\ last \in Nat /\ last >= n
  OBVIOUS
<1>2. SPACE \in Chars
  BY CharsAssumption DEF FlagChars
<1>3. pad \in Seq(Chars) /\ Len(pad) = last - n /\ \A i \in 1 .. last - n : pad[i] = SPACE
  <2>1. size - n \in Int /\ (IF size - n > 0 THEN size - n ELSE 0) = last - n
    BY <1>1
  <2>2. /\ pad \in Seq(Chars) /\ Len(pad) = IF size - n > 0 THEN size - n ELSE 0
        /\ \A i \in 1 .. Len(pad) : pad[i] = SPACE
    BY <1>2, <2>1, RepeatedIs
  <2>  HIDE DEF pad
  <2>. QED  BY <2>1, <2>2
<1>  HIDE DEF pad, last, n
<1>4. CASE LEFT \in type
  <2>1. Field(text, size, type) = text \o pad /\ start = 0
    BY <1>4 DEF Field, pad, n
  <2>2. Len(text \o pad) = last
    BY <1>1, <1>3 DEF n
  <2>3. ASSUME NEW i \in 1 .. last
        PROVE  (text \o pad)[i] = IF i - 0 \in 1 .. n THEN text[i - 0] ELSE SPACE
    BY <1>1, <1>3 DEF n
  <2>. QED  BY <2>1, <2>2, <2>3 DEF IsField, last, n
<1>5. CASE LEFT \notin type
  <2>1. Field(text, size, type) = pad \o text /\ start = last - n
    BY <1>5 DEF Field, pad, n
  <2>2. Len(pad \o text) = last
    BY <1>1, <1>3 DEF n
  <2>3. ASSUME NEW i \in 1 .. last
        PROVE  (pad \o text)[i] = IF i - (last - n) \in 1 .. n THEN text[i - (last - n)] ELSE SPACE
    <3>1. CASE i \in 1 .. last - n
      <4>1. (pad \o text)[i] = SPACE /\ ~(i - (last - n) \in 1 .. n)
        BY <1>1, <1>3, <3>1, Concat
      <4>. QED  BY <4>1
    <3>2. CASE i \notin 1 .. last - n
      <4>1. PICK j \in 1 .. n : i = (last - n) + j /\ i - (last - n) = j
        <5>0. \A l, m \in Nat : \A k \in 1 .. l : l >= m /\ k \notin 1 .. l - m =>
                 k - (l - m) \in 1 .. m /\ k = (l - m) + (k - (l - m))
          OBVIOUS
        <5>1. i - (last - n) \in 1 .. n /\ i = (last - n) + (i - (last - n))
          BY <1>1, <3>2, <5>0, Zenon
        <5>. QED  BY <5>1
      <4>2. (pad \o text)[(last - n) + j] = text[j]
        BY <1>3, Concat DEF n
      <4>. QED  BY <4>1, <4>2
    <3>. QED  BY <3>1, <3>2
  <2>. QED  BY <2>1, <2>2, <2>3 DEF IsField, last, n
<1>. QED  BY <1>4, <1>5

\* Characters and strings.
LEMMA TextPrinted ==
  ASSUME IInv, Char \/ String
  PROVE  TextRight(printed)
<1>1. field_width \in Int /\ precision \in Int /\ precision >= -1 /\ str \in Seq(Chars)
  BY WordAssumption DEF IInv, TypeOK
<1>2. /\ pc = "convert" /\ here \in Conversions
      /\ arg.char \in Chars /\ arg.text \in Seq(Chars)
  BY ArgIs DEF Char, String, Converts, Conversions
<1>  DEFINE whole == IF here = "c" THEN <<arg.char>> ELSE arg.text
            shown == IF here = "s" /\ precision # -1 THEN Min({Len(whole), precision})
                     ELSE Len(whole)
            text  == SubSeq(whole, 1, shown)
<1>3. whole \in Seq(Chars) /\ Len(whole) \in Nat
  <2>1. <<arg.char>> \in Seq(Chars)
    BY <1>2
  <2>. QED  BY <1>2, <2>1
<1>4. shown \in 0 .. Len(whole)
  <2>1. precision # -1 =>
          Min({Len(whole), precision}) = IF Len(whole) < precision THEN Len(whole) ELSE precision
    <3>  HIDE DEF whole
    <3>1. Len(whole) \in Int
      BY <1>3
    <3>. QED  BY <1>1, <3>1, MaxMinIs, Zenon
  <2>  HIDE DEF whole
  <2>. QED  BY <1>1, <1>3, <2>1
<1>5. /\ text \in Seq(Chars) /\ Len(text) = shown
      /\ \A i \in 1 .. shown : text[i] = whole[i]
  <2>  HIDE DEF whole, shown
  <2>. QED  BY <1>3, <1>4
<1>6. \E conversions : Converts(conversions, Field(text, field_width, flags))
  <2>1. CASE Char
    <3>1. here = "c"
      BY <2>1 DEF Char, Converts
    <3>2. whole = <<arg.char>> /\ shown = 1
      BY <3>1
    <3>3. SubSeq(<<arg.char>>, 1, 1) = <<arg.char>>
      <4>1. <<arg.char>> \in Seq(Chars) /\ Len(<<arg.char>>) = 1
        BY <1>2
      <4>2. \A s \in Seq(Chars) : SubSeq(s, 1, Len(s)) = s
        OBVIOUS
      <4>. QED  BY <4>1, <4>2
    <3>4. text = <<arg.char>>
      BY <3>2, <3>3
    <3>. QED  BY <2>1, <3>4 DEF Char
  <2>2. CASE String
    <3>1. here = "s" /\ whole = arg.text
      BY <2>2 DEF String, Converts
    <3>  HIDE DEF whole
    <3>2. precision # -1 => shown = IF Len(whole) < precision THEN Len(whole) ELSE precision
      <4>1. Len(whole) \in Int
        BY <1>3
      <4>2. Min({Len(whole), precision}) = IF Len(whole) < precision THEN Len(whole) ELSE precision
        BY <1>1, <4>1, MaxMinIs, Zenon
      <4>. QED  BY <3>1, <4>2
    <3>3. precision = -1 => shown = Len(whole)
      OBVIOUS
    <3>  HIDE DEF shown
    <3>4. Shown(whole) = text
      <4>1. CASE precision \in 0 .. Len(whole)
        <5>1. shown = precision
          BY <1>1, <1>3, <3>2, <4>1
        <5>. QED  BY <4>1, <5>1 DEF Shown
      <4>2. CASE precision \notin 0 .. Len(whole)
        <5>1. shown = Len(whole)
          BY <1>1, <1>3, <3>2, <3>3, <4>2
        <5>2. SubSeq(whole, 1, Len(whole)) = whole
          BY <1>3
        <5>. QED  BY <4>2, <5>1, <5>2 DEF Shown
      <4>. QED  BY <4>1, <4>2
    <3>. QED  BY <2>2, <3>1, <3>4 DEF String
  <2>. QED  BY <2>1, <2>2
<1>  DEFINE out == Field(text, field_width, flags)
<1>7. out \in Seq(Chars)
  <2>  HIDE DEF text
  <2>. QED  BY <1>1, <1>5, FieldType
<1>8. printed = out
  <2>1. str' = str \o out
    BY <1>6 DEF Converts
  <2>  HIDE DEF out
  <2>. QED  BY <1>1, <1>7, <2>1, PrintedIs
<1>  DEFINE last  == Max({field_width, shown})
            start == IF LEFT \in flags THEN 0 ELSE last - shown
<1>9. last = IF field_width > shown THEN field_width ELSE shown
  <2>  HIDE DEF shown
  <2>. QED  BY <1>1, <1>3, <1>4, MaxMinIs
<1>10. /\ Len(out) = last
       /\ \A i \in 1 .. last :
            out[i] = IF i - start \in 1 .. shown THEN text[i - start] ELSE SPACE
  <2>  HIDE DEF text, shown
  <2>1. IsField(out, text, shown, field_width, flags)
    BY <1>1, <1>5, FieldIs
  <2>  HIDE DEF out
  <2>. QED  BY <1>9, <2>1 DEF IsField
<1>  HIDE DEF whole, text, out, shown
<1>11. \A i \in 1 .. last :
         out[i] = IF i - start \in 1 .. shown THEN whole[i - start] ELSE SPACE
  <2>  HIDE DEF start, last
  <2>. QED  BY <1>5, <1>10
<1>. QED  BY <1>8, <1>10, <1>11 DEF TextRight, whole, shown

-----------------------------------------------------------------------------
(***************************************************************************)
(* How many digits there are.                                              *)
(***************************************************************************)
\* Products with a base.
LEMMA Times ==
  ASSUME NEW base \in Bases, NEW a \in Nat, NEW b \in Nat
  PROVE  /\ base * a \in Nat
         /\ a <= b => base * a <= base * b
         /\ a <= base * a
         /\ base * 1 = base
<1>1. CASE base = 8
  BY <1>1
<1>2. CASE base = 10
  BY <1>2
<1>3. CASE base = 16
  BY <1>3
<1>. QED  BY <1>1, <1>2, <1>3 DEF Bases

\* A quotient is below a bound if the number is below the bound's multiple.
LEMMA Quotient ==
  ASSUME NEW base \in Bases, NEW n \in Nat, NEW a \in Nat
  PROVE  /\ n \div base < a => n < base * a
         /\ n \div base >= a => n >= base * a
         /\ n = base * (n \div base) + (n % base)
<1>1. CASE base = 8
  BY <1>1
<1>2. CASE base = 10
  BY <1>2
<1>3. CASE base = 16
  BY <1>3
<1>. QED  BY <1>1, <1>2, <1>3 DEF Bases

PowerStep(f, k, base) == IF k = 0 THEN 1 ELSE base * f[k - 1]

IsPower(f, n, base) == f = [k \in 0 .. n |-> PowerStep(f, k, base)]

\* The function in Power exists.
LEMMA PowerExists ==
  ASSUME NEW base \in Bases, NEW k \in Nat
  PROVE  \E f : IsPower(f, k, base)
<1>  DEFINE S == {n \in Nat : \E f : IsPower(f, n, base)}
<1>1. ASSUME NEW n \in Nat, \A m \in Nat : m < n => m \in S
      PROVE  n \in S
  <2>1. CASE n = 0
    <3>  DEFINE f == [i \in 0 .. 0 |-> 1]
    <3>1. \A i \in 0 .. 0 : PowerStep(f, i, base) = 1
      BY DEF PowerStep
    <3>2. IsPower(f, 0, base)
      BY <3>1 DEF IsPower
    <3>  HIDE DEF f
    <3>. QED  BY <2>1, <3>2
  <2>2. CASE n # 0
    <3>0. n - 1 \in Nat /\ n - 1 < n
      BY <2>2
    <3>1. PICK f : IsPower(f, n - 1, base)
      BY <1>1, <3>0
    <3>  DEFINE h == [i \in 0 .. n |-> IF i = n THEN PowerStep(f, n, base) ELSE f[i]]
    <3>2. \A i \in 0 .. n : i = n \/ i \in 0 .. n - 1
      BY <3>0
    <3>3. \A i \in 0 .. n - 1 : i # n /\ i \in 0 .. n /\ h[i] = f[i]
      BY <3>0
    <3>4. ASSUME NEW i \in 0 .. n
          PROVE  PowerStep(f, i, base) = PowerStep(h, i, base)
      <4>1. i # 0 => i - 1 \in 0 .. n - 1
        BY <3>0
      <4>  HIDE DEF h
      <4>. QED  BY <3>3, <4>1 DEF PowerStep
    <3>5. \A i \in 0 .. n - 1 : f[i] = PowerStep(f, i, base)
      BY <3>1 DEF IsPower
    <3>6. h = [i \in 0 .. n |-> PowerStep(f, i, base)]
      BY <3>2, <3>5
    <3>7. IsPower(h, n, base)
      <4>  HIDE DEF h
      <4>. QED  BY <3>4, <3>6 DEF IsPower
    <3>  HIDE DEF h
    <3>. QED  BY <3>7
  <2>. QED  BY <2>1, <2>2
<1>. QED
  <2>  HIDE DEF S
  <2>1. k \in S
    BY <1>1, Induction
  <2>. QED  BY <2>1 DEF S

\* What Power computes.
LEMMA PowerIs ==
  ASSUME NEW base \in Bases
  PROVE  /\ Power(base, 0) = 1
         /\ \A n \in 1 .. Word : Power(base, n) = base * Power(base, n - 1)
<1>0. Word \in Nat
  BY WordAssumption
<1>  DEFINE t == CHOOSE f : IsPower(f, Word, base)
<1>1. IsPower(t, Word, base)
  BY <1>0, PowerExists
<1>2. \A i : Power(base, i) = t[i]
  BY DEF Power, IsPower, PowerStep
<1>  HIDE DEF t
<1>3. \A n \in 0 .. Word : t[n] = PowerStep(t, n, base)
  BY <1>1 DEF IsPower
<1>4. 0 \in 0 .. Word /\ \A n \in 1 .. Word : n \in 0 .. Word /\ n # 0
  BY <1>0
<1>. QED  BY <1>2, <1>3, <1>4 DEF PowerStep

\* Powers grow with the exponent.
LEMMA PowerGrows ==
  ASSUME NEW base \in Bases, NEW n \in 0 .. Word, NEW m \in 0 .. n
  PROVE  Power(base, n) \in Nat /\ Power(base, m) \in Nat /\ Power(base, m) <= Power(base, n)
<1>0. Word \in Nat
  BY WordAssumption
<1>  DEFINE P(k) == Power(base, k)
            S == {k \in Nat : k <= Word => P(k) \in Nat /\ \A l \in 0 .. k : P(l) \in Nat /\ P(l) <= P(k)}
<1>1. ASSUME NEW k \in Nat, \A l \in Nat : l < k => l \in S
      PROVE  k \in S
  <2>  SUFFICES ASSUME k <= Word
                PROVE  P(k) \in Nat /\ \A l \in 0 .. k : P(l) \in Nat /\ P(l) <= P(k)
    OBVIOUS
  <2>1. CASE k = 0
    <3>1. P(0) = 1 /\ \A l \in 0 .. 0 : l = 0
      BY PowerIs
    <3>  HIDE DEF P
    <3>. QED  BY <2>1, <3>1
  <2>2. CASE k # 0
    <3>1. k - 1 \in Nat /\ k - 1 < k /\ k - 1 <= Word /\ k \in 1 .. Word
      BY <1>0, <2>2
    <3>2. k - 1 \in S
      <4>  HIDE DEF S
      <4>. QED  BY <1>1, <3>1
    <3>3. P(k) = base * P(k - 1)
      BY <3>1, PowerIs
    <3>4. P(k - 1) \in Nat /\ \A l \in 0 .. k - 1 : P(l) \in Nat /\ P(l) <= P(k - 1)
      BY <3>1, <3>2
    <3>  HIDE DEF P
    <3>5. P(k) \in Nat /\ P(k - 1) <= P(k)
      BY <3>3, <3>4, Times
    <3>6. \A l \in 0 .. k : l = k \/ l \in 0 .. k - 1
      BY <3>1
    <3>. QED  BY <3>4, <3>5, <3>6
  <2>. QED  BY <2>1, <2>2
<1>2. n \in S
  <2>  HIDE DEF S
  <2>1. n \in Nat
    BY <1>0
  <2>. QED  BY <1>1, <2>1, Induction
<1>3. n <= Word
  BY <1>0
<1>. QED  BY <1>2, <1>3

IsPlaces(num, base, n) ==
  num < Power(base, n) /\ (n > 1 => num >= Power(base, n - 1))

\* Only one number of places is right.
LEMMA OnlyPlaces ==
  ASSUME NEW base \in Bases, NEW num \in Nat, NEW n \in 1 .. Word, NEW m \in 1 .. Word,
         IsPlaces(num, base, n), IsPlaces(num, base, m)
  PROVE  n = m
<1>0. Word \in Nat
  BY WordAssumption
<1>1. ASSUME NEW i \in 1 .. Word, NEW j \in 1 .. Word,
             IsPlaces(num, base, i), IsPlaces(num, base, j), i < j
      PROVE  FALSE
  <2>1. j - 1 \in 0 .. Word /\ i \in 0 .. j - 1 /\ j > 1
    BY <1>0, <1>1
  <2>2. /\ Power(base, i) \in Nat /\ Power(base, j - 1) \in Nat
        /\ Power(base, i) <= Power(base, j - 1)
    BY <2>1, PowerGrows
  <2>. QED  BY <1>1, <2>1, <2>2 DEF IsPlaces
<1>. QED  BY <1>0, <1>1

\* The digits are as many as the number has.
LEMMA PlacesAre ==
  ASSUME NEW num \in Words, NEW base \in Bases, NEW type
  PROVE  Places(num, base) = Len(Digits(num, base, type))
<1>0. Word \in Nat
  BY WordAssumption
<1>  DEFINE len(n) == Len(Digits(n, base, type))
            S == {n \in Nat : n \in Words => IsPlaces(n, base, len(n))}
<1>1. \A n \in Words : len(n) \in 1 .. Word
  <2>1. \A n \in Words : n \in Nat /\ n + 1 <= Word
    BY <1>0 DEF Words
  <2>2. \A n \in Words : len(n) \in 1 .. n + 1
    BY DigitsType
  <2>  HIDE DEF len
  <2>. QED  BY <1>0, <2>1, <2>2
<1>2. ASSUME NEW n \in Nat, \A m \in Nat : m < n => m \in S
      PROVE  n \in S
  <2>  SUFFICES ASSUME n \in Words
                PROVE  IsPlaces(n, base, len(n))
    OBVIOUS
  <2>0. Power(base, 1) = base /\ 1 \in 1 .. Word
    <3>1. 1 \in 1 .. Word /\ 1 - 1 = 0
      BY WordAssumption
    <3>2. Power(base, 1) = base * Power(base, 0) /\ Power(base, 0) = 1
      BY <3>1, PowerIs
    <3>. QED  BY <3>1, <3>2, Times
  <2>  DEFINE last == LastDigit(n, base, type)
  <2>00. last \in Seq(Ink) /\ Len(last) = 1
    <3>1. DigitChars(SMALL \in type)[(n % base) + 1] \in Ink
      BY Division, DigitCharsAre
    <3>. QED  BY <3>1 DEF LastDigit
  <2>  HIDE DEF last
  <2>1. CASE n < base
    <3>1. len(n) = 1
      BY <2>00, <2>1, DigitsAre DEF last
    <3>  HIDE DEF len
    <3>. QED  BY <2>0, <2>1, <3>1 DEF IsPlaces
  <2>2. CASE ~(n < base)
    <3>  DEFINE q == n \div base
    <3>1. q \in Nat /\ q < n /\ q >= 1
      BY <2>2, Division DEF Bases
    <3>  HIDE DEF q
    <3>2. q \in Words /\ q \in S
      <4>  HIDE DEF S
      <4>. QED  BY <1>0, <1>2, <3>1 DEF Words
    <3>3. IsPlaces(q, base, len(q))
      BY <3>2
    <3>4. len(n) = len(q) + 1
      <4>1. Digits(n, base, type) = Digits(q, base, type) \o last
        BY <2>2, DigitsAre DEF last, q
      <4>2. Digits(q, base, type) \in Seq(Ink)
        BY <3>2, DigitsType
      <4>3. Len(Digits(q, base, type) \o last) = Len(Digits(q, base, type)) + Len(last)
        BY <2>00, <4>2, Concat
      <4>. QED  BY <2>00, <4>1, <4>3
    <3>5. len(q) \in 1 .. Word /\ len(n) \in 1 .. Word
      BY <1>1, <3>2
    <3>  HIDE DEF len
    <3>  DEFINE d == len(q)
    <3>6. d \in 0 .. Word /\ d - 1 \in 0 .. Word /\ d \in 1 .. Word /\ d + 1 \in 1 .. Word
          /\ d + 1 - 1 = d /\ len(n) = d + 1
      BY <1>0, <3>4, <3>5
    <3>  HIDE DEF d
    <3>7. /\ Power(base, d) \in Nat /\ Power(base, d - 1) \in Nat
          /\ Power(base, d + 1) = base * Power(base, d)
          /\ Power(base, d) = base * Power(base, d - 1)
      <4>1. \A k \in 0 .. Word : k \in 0 .. k
        BY <1>0
      <4>2. \A k \in 0 .. Word : Power(base, k) \in Nat
        BY <4>1, PowerGrows
      <4>3. Power(base, d + 1) = base * Power(base, d)
        BY <3>6, PowerIs
      <4>4. Power(base, d) = base * Power(base, d - 1)
        BY <3>6, PowerIs
      <4>. QED  BY <3>6, <4>2, <4>3, <4>4
    <3>8. n < Power(base, d + 1)
      <4>1. q < Power(base, d)
        BY <3>3 DEF IsPlaces, d
      <4>. QED  BY <3>7, <4>1, Quotient DEF q
    <3>9. n >= Power(base, d)
      <4>1. CASE d > 1
        <5>1. q >= Power(base, d - 1)
          BY <3>3, <4>1 DEF IsPlaces, d
        <5>. QED  BY <3>7, <5>1, Quotient DEF q
      <4>2. CASE ~(d > 1)
        <5>1. d = 1
          BY <3>6, <4>2
        <5>. QED  BY <2>0, <2>2, <5>1 DEF Bases
      <4>. QED  BY <4>1, <4>2
    <3>. QED  BY <3>6, <3>8, <3>9 DEF IsPlaces
  <2>. QED  BY <2>1, <2>2
<1>3. num \in S
  <2>  HIDE DEF S
  <2>1. num \in Nat
    BY <1>0 DEF Words
  <2>. QED  BY <1>2, <2>1, Induction
<1>4. IsPlaces(num, base, len(num)) /\ len(num) \in 1 .. Word /\ num \in Nat
  BY <1>0, <1>1, <1>3 DEF Words
<1>  HIDE DEF len
<1>5. Places(num, base) = CHOOSE n \in 1 .. Word : IsPlaces(num, base, n)
  BY DEF Places, IsPlaces
<1>. QED  BY <1>4, <1>5, OnlyPlaces DEF len

-----------------------------------------------------------------------------
(***************************************************************************)
(* Where the blanks are in a printed number.                               *)
(***************************************************************************)
\* Two sequences, and four, one behind the other.
AreTwo(text, a, b) ==
  /\ Len(text) = Len(a) + Len(b)
  /\ \A i \in 1 .. Len(a) : text[i] = a[i]
  /\ \A i \in 1 .. Len(b) : text[Len(a) + i] = b[i]

LEMMA ConcatTwo ==
  ASSUME NEW S, NEW a \in Seq(S), NEW b \in Seq(S)
  PROVE  a \o b \in Seq(S) /\ AreTwo(a \o b, a, b)
BY Concat DEF AreTwo

AreFour(text, a, s, b, c) ==
  /\ Len(text) = Len(a) + Len(s) + Len(b) + Len(c)
  /\ \A i \in 1 .. Len(a) : text[i] = a[i]
  /\ \A i \in 1 .. Len(s) : text[Len(a) + i] = s[i]
  /\ \A i \in 1 .. Len(b) : text[Len(a) + Len(s) + i] = b[i]
  /\ \A i \in 1 .. Len(c) : text[Len(a) + Len(s) + Len(b) + i] = c[i]

LEMMA ConcatFour ==
  ASSUME NEW S, NEW a \in Seq(S), NEW s \in Seq(S), NEW b \in Seq(S), NEW c \in Seq(S)
  PROVE  /\ (a \o (s \o b)) \o c \in Seq(S)
         /\ AreFour((a \o (s \o b)) \o c, a, s, b, c)
<1>  DEFINE m == s \o b
            n == a \o m
<1>0. Len(a) \in Nat /\ Len(s) \in Nat /\ Len(b) \in Nat /\ Len(c) \in Nat
  OBVIOUS
<1>1. m \in Seq(S) /\ AreTwo(m, s, b)
  BY ConcatTwo
<1>  HIDE DEF m
<1>2. n \in Seq(S) /\ AreTwo(n, a, m)
  BY <1>1, ConcatTwo
<1>  HIDE DEF n
<1>  DEFINE t == n \o c
<1>3. t \in Seq(S) /\ AreTwo(t, n, c)
  BY <1>2, ConcatTwo
<1>4. (a \o (s \o b)) \o c = t
  BY DEF m, n, t
<1>  HIDE DEF t
<1>5. /\ Len(m) = Len(s) + Len(b) /\ Len(n) = Len(a) + Len(m) /\ Len(t) = Len(n) + Len(c)
      /\ \A i \in 1 .. Len(s) : m[i] = s[i]
      /\ \A i \in 1 .. Len(b) : m[Len(s) + i] = b[i]
      /\ \A i \in 1 .. Len(a) : n[i] = a[i]
      /\ \A i \in 1 .. Len(m) : n[Len(a) + i] = m[i]
      /\ \A i \in 1 .. Len(n) : t[i] = n[i]
      /\ \A i \in 1 .. Len(c) : t[Len(n) + i] = c[i]
  BY <1>1, <1>2, <1>3 DEF AreTwo
<1>6. Len(n) = Len(a) + Len(s) + Len(b)
  BY <1>0, <1>5
<1>7. ASSUME NEW i \in 1 .. Len(a)
      PROVE  t[i] = a[i]
  <2>1. i \in 1 .. Len(n)
    BY <1>0, <1>6
  <2>. QED  BY <1>5, <2>1
<1>8. ASSUME NEW i \in 1 .. Len(s)
      PROVE  t[Len(a) + i] = s[i]
  <2>1. Len(a) + i \in 1 .. Len(n) /\ i \in 1 .. Len(m)
    BY <1>0, <1>5, <1>6
  <2>. QED  BY <1>5, <2>1
<1>9. ASSUME NEW i \in 1 .. Len(b)
      PROVE  t[Len(a) + Len(s) + i] = b[i]
  <2>1. /\ Len(a) + Len(s) + i \in 1 .. Len(n) /\ Len(s) + i \in 1 .. Len(m)
        /\ Len(a) + (Len(s) + i) = Len(a) + Len(s) + i
    BY <1>0, <1>5, <1>6
  <2>2. n[Len(a) + (Len(s) + i)] = m[Len(s) + i]
    BY <1>5, <2>1
  <2>3. m[Len(s) + i] = b[i]
    BY <1>5
  <2>4. t[Len(a) + Len(s) + i] = n[Len(a) + Len(s) + i]
    BY <1>5, <2>1
  <2>. QED  BY <2>1, <2>2, <2>3, <2>4
<1>10. AreFour(t, a, s, b, c)
  BY <1>0, <1>5, <1>6, <1>7, <1>8, <1>9 DEF AreFour
<1>. QED  BY <1>3, <1>4, <1>10

\* Blanks, the sign, a body without blanks, and blanks.
IsShaped(text, front, sign, body, back, type) ==
  /\ text \in Seq(Chars)
  /\ Len(text) = front + sign + body + back
  /\ \A i \in 1 .. front : text[i] = SPACE
  /\ \A i \in front + sign + 1 .. front + sign + body : text[i] # SPACE
  /\ \A i \in front + sign + body + 1 .. front + sign + body + back : text[i] = SPACE
  /\ sign = 1 /\ SPACE \notin type => text[front + 1] # SPACE

LEMMA ShapeIs ==
  ASSUME NEW num \in Words, NEW base \in Bases, NEW type,
         NEW front \in Nat, NEW back \in Nat, NEW zeros \in Seq({"0"})
  PROVE  /\ PrefixLength(base, type) + Len(zeros) + Len(Digits(Magnitude(num, type), base, type))
              \in Nat \ {0}
         /\ IsShaped(NumberText(num, base, type, front, zeros, back),
                  front, SignLength(num, type),
                  PrefixLength(base, type) + Len(zeros) + Len(Digits(Magnitude(num, type), base, type)),
                  back, type)
<1>  DEFINE a      == Repeated(SPACE, front)
            c      == Repeated(SPACE, back)
            s      == SignOf(num, type)
            prefix == PrefixOf(base, type)
            digits == Digits(Magnitude(num, type), base, type)
            rest   == zeros \o digits
            b      == prefix \o rest
            sl     == SignLength(num, type)
            pl     == PrefixLength(base, type)
            body   == pl + Len(zeros) + Len(digits)
            text   == NumberText(num, base, type, front, zeros, back)
<1>1. SPACE \in Chars /\ "0" \in Chars
  BY CharsAssumption DEF FlagChars, ZEROPAD
<1>2. /\ a \in Seq(Chars) /\ Len(a) = front /\ \A i \in 1 .. front : a[i] = SPACE
      /\ c \in Seq(Chars) /\ Len(c) = back /\ \A i \in 1 .. back : c[i] = SPACE
  <2>1. front \in Int /\ back \in Int
    OBVIOUS
  <2>2. /\ a \in Seq(Chars) /\ Len(a) = (IF front > 0 THEN front ELSE 0)
        /\ \A i \in 1 .. Len(a) : a[i] = SPACE
        /\ c \in Seq(Chars) /\ Len(c) = (IF back > 0 THEN back ELSE 0)
        /\ \A i \in 1 .. Len(c) : c[i] = SPACE
    BY <1>1, <2>1, RepeatedIs
  <2>  HIDE DEF a, c
  <2>. QED  BY <2>2
<1>3. s \in Seq(Chars) /\ Len(s) = sl /\ sl \in Nat
  BY SignType
<1>4. /\ prefix \in Seq(Ink) /\ Len(prefix) = pl /\ pl \in Nat
      /\ digits \in Seq(Ink) /\ Len(digits) \in Nat /\ Len(digits) >= 1
  <2>1. digits \in Seq(Ink) /\ Len(digits) \in 1 .. Magnitude(num, type) + 1
    BY MagnitudeType, DigitsType
  <2>  HIDE DEF digits
  <2>. QED  BY <2>1, PrefixType
<1>5. zeros \in Seq(Ink) /\ Len(zeros) \in Nat
  <2>1. "0" \in Ink
    BY <1>1, SpaceIs DEF Ink
  <2>. QED  BY <2>1
<1>  HIDE DEF prefix, digits
<1>6. rest \in Seq(Ink) /\ Len(rest) = Len(zeros) + Len(digits)
  BY <1>4, <1>5, Concat
<1>  HIDE DEF rest
<1>7. b \in Seq(Ink) /\ Len(b) = pl + Len(rest)
  <2>  HIDE DEF pl
  <2>. QED  BY <1>4, <1>6, Concat
<1>  HIDE DEF b
<1>8. b \in Seq(Chars) /\ Len(b) = body /\ body \in Nat \ {0}
      /\ \A i \in 1 .. body : b[i] # SPACE
  <2>  HIDE DEF pl
  <2>1. Len(b) = body /\ body \in Nat \ {0}
    BY <1>4, <1>5, <1>6, <1>7
  <2>  HIDE DEF body
  <2>. QED  BY <1>7, <2>1 DEF Ink
<1>9. text = (a \o (s \o b)) \o c
  BY DEF NumberText, digits, prefix, rest, b
<1>10. sl = 1 /\ SPACE \notin type => s[1] # SPACE
  <2>1. SPACE \notin type =>
          SignOf(num, type) = <<"-">> \/ SignOf(num, type) = <<"+">> \/ SignOf(num, type) = <<>>
    BY DEF SignOf
  <2>2. <<"-">>[1] # SPACE /\ <<"+">>[1] # SPACE /\ Len(<<>>) = 0
    BY SpaceIs
  <2>. QED  BY <1>3, <2>1, <2>2
<1>  HIDE DEF a, c, s, sl, body, text
<1>11. /\ text \in Seq(Chars)
       /\ Len(text) = front + sl + body + back
       /\ \A i \in 1 .. front : text[i] = a[i]
       /\ \A i \in 1 .. sl : text[front + i] = s[i]
       /\ \A i \in 1 .. body : text[front + sl + i] = b[i]
       /\ \A i \in 1 .. back : text[front + sl + body + i] = c[i]
  <2>1. text \in Seq(Chars) /\ AreFour(text, a, s, b, c)
    BY <1>2, <1>3, <1>8, <1>9, ConcatFour
  <2>. QED  BY <1>2, <1>3, <1>8, <2>1 DEF AreFour
<1>12. ASSUME NEW i \in front + sl + 1 .. front + sl + body
       PROVE  text[i] # SPACE
  <2>1. PICK j \in 1 .. body : i = front + sl + j
    <3>1. i - (front + sl) \in 1 .. body /\ i = front + sl + (i - (front + sl))
      BY <1>3, <1>8
    <3>. QED  BY <3>1
  <2>. QED  BY <1>8, <1>11, <2>1
<1>13. ASSUME NEW i \in front + sl + body + 1 .. front + sl + body + back
       PROVE  text[i] = SPACE
  <2>1. PICK j \in 1 .. back : i = front + sl + body + j
    <3>1. /\ i - (front + sl + body) \in 1 .. back
          /\ i = front + sl + body + (i - (front + sl + body))
      BY <1>3, <1>8
    <3>. QED  BY <3>1
  <2>. QED  BY <1>2, <1>11, <2>1
<1>14. sl = 1 /\ SPACE \notin type => text[front + 1] # SPACE
  <2>1. sl = 1 => 1 \in 1 .. sl
    OBVIOUS
  <2>. QED  BY <1>10, <1>11, <2>1
<1>15. IsShaped(text, front, sl, body, back, type)
  BY <1>2, <1>11, <1>12, <1>13, <1>14 DEF IsShaped
<1>. QED  BY <1>8, <1>15 DEF text, sl, body, digits

\* The flags have different names, the internal ones included.
LEMMA FlagNames ==
  /\ LEFT # SPACE /\ LEFT # PLUS /\ LEFT # SPECIAL /\ LEFT # ZEROPAD
  /\ SPACE # PLUS /\ SPACE # SPECIAL /\ SPACE # ZEROPAD
  /\ PLUS # SPECIAL /\ PLUS # ZEROPAD /\ SPECIAL # ZEROPAD
  /\ SIGN \notin FlagChars /\ SMALL \notin FlagChars /\ SIGN # SMALL
  /\ {LEFT, PLUS, SPACE, SPECIAL, ZEROPAD} \subseteq FlagChars
<1>1. /\ LEFT # SPACE /\ LEFT # PLUS /\ LEFT # SPECIAL /\ LEFT # ZEROPAD
      /\ SPACE # PLUS /\ SPACE # SPECIAL /\ SPACE # ZEROPAD
      /\ PLUS # SPECIAL /\ PLUS # ZEROPAD /\ SPECIAL # ZEROPAD
  BY Zenon DEF LEFT, PLUS, SPACE, SPECIAL, ZEROPAD
<1>2. SIGN \notin FlagChars
  BY Zenon DEF FlagChars, SIGN, LEFT, PLUS, SPACE, SPECIAL, ZEROPAD
<1>3. SMALL \notin FlagChars
  BY Zenon DEF FlagChars, SMALL, LEFT, PLUS, SPACE, SPECIAL, ZEROPAD
<1>4. SIGN # SMALL
  BY Zenon DEF SIGN, SMALL
<1>. QED  BY <1>1, <1>2, <1>3, <1>4 DEF FlagChars

\* What number() is asked for by the conversion at hand.
Usual == IF here = "p" /\ field_width = -1 THEN 8 ELSE field_width
Zeros == ZEROPAD \in flags \/ Usual # field_width

IsTypeHere(type) ==
  /\ LEFT \in type <=> LEFT \in flags
  /\ PLUS \in type <=> PLUS \in flags
  /\ SPACE \in type <=> SPACE \in flags
  /\ SPECIAL \in type <=> SPECIAL \in flags
  /\ ZEROPAD \in type <=> Zeros
  /\ SIGN \in type <=> here \in {"d", "i"}

\* Every numeric conversion prints its word with the base, the size and the type
\* that it stands for.
LEMMA NumericIs ==
  ASSUME IInv, Octal \/ Pointer \/ Hex \/ Decimal
  PROVE  /\ pc = "convert" /\ here \in Numeric /\ here \in Conversions
         /\ \E type : /\ IsTypeHere(type)
                      /\ str' = str \o number(word, Base, Usual, precision, type)
<1>0. flags \subseteq FlagChars
  BY DEF IInv, TypeOK
<1>1. /\ SIGN \notin flags
      /\ \A c \in FlagChars : /\ c \in flags \cup {SIGN} <=> c \in flags
                              /\ c \in flags \cup {SMALL} <=> c \in flags
      /\ SIGN \notin flags \cup {SMALL} /\ SIGN \notin flags \cup {ZEROPAD}
  BY <1>0, FlagNames
<1>2. CASE Octal
  <2>1. /\ pc = "convert" /\ here = "o"
        /\ str' = str \o number(word, 8, field_width, precision, flags)
    BY <1>2 DEF Octal, Converts
  <2>2. Base = 8 /\ Usual = field_width
    BY <2>1 DEF Base, Usual
  <2>3. IsTypeHere(flags)
    BY <1>1, <2>1, <2>2 DEF IsTypeHere, Zeros
  <2>. QED  BY <2>1, <2>2, <2>3 DEF Numeric, Conversions
<1>3. CASE Pointer
  <2>1. pc = "convert" /\ here = "p"
    BY <1>3 DEF Pointer, Converts
  <2>2. Base = 16
    BY <2>1 DEF Base
  <2>3. CASE field_width = -1
    <3>1. str' = str \o number(word, 16, 8, precision, flags \cup {ZEROPAD})
      BY <1>3, <2>3 DEF Pointer, Converts
    <3>2. Usual = 8 /\ Zeros
      BY <2>1, <2>3 DEF Usual, Zeros
    <3>3. IsTypeHere(flags \cup {ZEROPAD})
      BY <1>1, <2>1, <3>2, FlagNames DEF IsTypeHere
    <3>. QED  BY <2>1, <2>2, <3>1, <3>2, <3>3 DEF Numeric, Conversions
  <2>4. CASE field_width # -1
    <3>1. str' = str \o number(word, 16, field_width, precision, flags)
      BY <1>3, <2>4 DEF Pointer, Converts
    <3>2. Usual = field_width
      BY <2>4 DEF Usual
    <3>3. IsTypeHere(flags)
      BY <1>1, <2>1, <3>2 DEF IsTypeHere, Zeros
    <3>. QED  BY <2>1, <2>2, <3>1, <3>2, <3>3 DEF Numeric, Conversions
  <2>. QED  BY <2>3, <2>4
<1>4. CASE Hex
  <2>1. /\ pc = "convert" /\ here \in {"x", "X"}
        /\ \E type \in {flags, flags \cup {SMALL}} :
             str' = str \o number(word, 16, field_width, precision, type)
    BY <1>4 DEF Hex, Converts
  <2>2. Base = 16 /\ Usual = field_width
    BY <2>1 DEF Base, Usual
  <2>3. \A type \in {flags, flags \cup {SMALL}} : IsTypeHere(type)
    BY <1>1, <2>1, <2>2, FlagNames DEF IsTypeHere, Zeros
  <2>. QED  BY <2>1, <2>2, <2>3 DEF Numeric, Conversions
<1>5. CASE Decimal
  <2>1. CASE here \in {"d", "i"}
    <3>1. /\ pc = "convert"
          /\ str' = str \o number(word, 10, field_width, precision, flags \cup {SIGN})
      BY <1>5, <2>1 DEF Decimal, Converts
    <3>2. Base = 10 /\ Usual = field_width
      BY <2>1 DEF Base, Usual
    <3>3. IsTypeHere(flags \cup {SIGN})
      BY <1>1, <2>1, <3>2, FlagNames DEF IsTypeHere, Zeros
    <3>. QED  BY <2>1, <3>1, <3>2, <3>3 DEF Numeric, Conversions
  <2>2. CASE here \notin {"d", "i"}
    <3>1. /\ pc = "convert" /\ here = "u"
          /\ str' = str \o number(word, 10, field_width, precision, flags)
      BY <1>5, <2>2 DEF Decimal, Converts
    <3>2. Base = 10 /\ Usual = field_width
      BY <3>1 DEF Base, Usual
    <3>3. IsTypeHere(flags)
      BY <1>1, <2>2, <3>2 DEF IsTypeHere, Zeros
    <3>. QED  BY <3>1, <3>2, <3>3 DEF Numeric, Conversions
  <2>. QED  BY <2>1, <2>2
<1>. QED  BY <1>2, <1>3, <1>4, <1>5

LEMMA BaseType == Base \in Bases
BY DEF Base, Bases

\* What a numeric conversion has printed.
LEMMA NumberPrinted ==
  ASSUME IInv, Octal \/ Pointer \/ Hex \/ Decimal
  PROVE  \E type : \E front, back \in Nat, zeros \in Seq({"0"}) :
           /\ IsTypeHere(type)
           /\ printed = NumberText(word, Base, type, front, zeros, back)
           /\ IsLaidOut(word, Base, Usual, precision, type, front, zeros, back)
<1>1. /\ pc = "convert" /\ here \in Conversions
      /\ \E type : /\ IsTypeHere(type)
                   /\ str' = str \o number(word, Base, Usual, precision, type)
  BY NumericIs
<1>2. PICK type : /\ IsTypeHere(type)
                  /\ str' = str \o number(word, Base, Usual, precision, type)
  BY <1>1
<1>3. word \in Words
  BY <1>1, ArgIs
<1>4. precision \in Int /\ field_width \in Int /\ str \in Seq(Chars)
  BY WordAssumption DEF IInv, TypeOK
<1>5. Usual \in Int
  BY <1>4 DEF Usual
<1>  DEFINE text == number(word, Base, Usual, precision, type)
<1>6. text \in Seq(Chars)
  BY <1>3, <1>4, <1>5, BaseType, NumberType
<1>7. PICK front, back \in Nat, zeros \in Seq({"0"}) :
        /\ text = NumberText(word, Base, type, front, zeros, back)
        /\ IsLaidOut(word, Base, Usual, precision, type, front, zeros, back)
  BY <1>3, <1>4, <1>5, BaseType, NumberIs
<1>8. printed = text
  <2>1. str' = str \o text
    BY <1>2
  <2>  HIDE DEF text
  <2>. QED  BY <1>4, <1>6, <2>1, PrintedIs
<1>  HIDE DEF text
<1>. QED  BY <1>2, <1>7, <1>8

\* The length that the property names is the one that the parts add up to.
LEMMA NeededIs ==
  ASSUME word \in Words, precision \in Int, NEW type, IsTypeHere(type),
         WantsSign => here \in SignedNumeric
  PROVE  Needed = NeededFor(word, Base, precision, type,
                       Len(Digits(Magnitude(word, type), Base, type)))
<1>  DEFINE negative == here \in SignedNumeric /\ int < 0
            signed   == negative \/ (here \in SignedNumeric /\ WantsSign)
            m        == IF negative THEN -int ELSE word
            d        == Len(Digits(Magnitude(word, type), Base, type))
            p        == Places(m, Base)
<1>1. negative <=> SIGN \in type /\ Signed(word) < 0
  BY DEF IsTypeHere, int, SignedNumeric
<1>2. Magnitude(word, type) = m /\ Magnitude(word, type) \in Words
  BY <1>1, MagnitudeType DEF int
<1>  DEFINE w == Magnitude(word, type)
<1>3. p = d
  <2>1. Places(w, Base) = Len(Digits(w, Base, type)) /\ w = m
    BY <1>2, BaseType, PlacesAre
  <2>  HIDE DEF m, w
  <2>2. p = Places(w, Base)
    BY <2>1
  <2>. QED  BY <2>1, <2>2 DEF w
<1>4. d \in Int
  <2>1. d \in 1 .. w + 1 /\ w \in Int
    BY <1>2, BaseType, DigitsType DEF Words
  <2>  HIDE DEF d, w
  <2>. QED  BY <2>1
<1>  HIDE DEF d
<1>5. Max({d, precision}) = IF d > precision THEN d ELSE precision
  BY <1>4, MaxMinIs
<1>6. (IF signed THEN 1 ELSE 0) = SignLength(word, type)
  <2>1. here \in SignedNumeric /\ WantsSign <=> PLUS \in type \/ SPACE \in type
    BY DEF IsTypeHere, WantsSign
  <2>  HIDE DEF negative
  <2>. QED  BY <1>1, <2>1 DEF SignLength
<1>7. (IF SPECIAL \notin flags \/ Base = 10 THEN 0 ELSE IF Base = 8 THEN 1 ELSE 2)
        = PrefixLength(Base, type)
  BY DEF IsTypeHere, PrefixLength
<1>8. Needed = (IF signed THEN 1 ELSE 0)
               + (IF SPECIAL \notin flags \/ Base = 10 THEN 0
                  ELSE IF Base = 8 THEN 1 ELSE 2)
               + Max({p, precision})
  BY DEF Needed
<1>  HIDE DEF signed, negative, p
<1>9. Needed = SignLength(word, type) + PrefixLength(Base, type) + Max({d, precision})
  BY <1>3, <1>6, <1>7, <1>8
<1>10. Needed = NeededFor(word, Base, precision, type, d)
  BY <1>5, <1>9 DEF NeededFor
<1>. QED  BY <1>10 DEF d

\* A text that consists of blanks, a sign, a body and blanks has its blanks
\* where the flags say.
SidesRight(front, back, type) ==
  /\ LEFT \in type => front = 0
  /\ LEFT \notin type => back = 0
  /\ LEFT \notin type /\ ZEROPAD \in type => front = 0

BlanksRight(text, type) ==
  /\ LEFT \in type =>
       \A i \in (IF SPACE \in type THEN 3 ELSE 2) .. Len(text) :
         text[i] # SPACE => text[i - 1] # SPACE
  /\ LEFT \notin type =>
       \A i \in 1 .. Len(text) - 1 : text[i] # SPACE => text[i + 1] # SPACE
  /\ LEFT \notin type /\ ZEROPAD \in type => \A i \in 2 .. Len(text) : text[i] # SPACE

LEMMA ShapeRight ==
  ASSUME NEW text, NEW front \in Nat, NEW sign \in {0, 1}, NEW body \in Nat \ {0},
         NEW back \in Nat, NEW type,
         IsShaped(text, front, sign, body, back, type),
         SidesRight(front, back, type)
  PROVE  BlanksRight(text, type)
<1>  DEFINE left  == LEFT \in type
            plain == SPACE \notin type
            zeros == ZEROPAD \in type
<1>1. /\ Len(text) = front + sign + body + back
      /\ \A i \in 1 .. front : text[i] = SPACE
      /\ \A i \in front + sign + 1 .. front + sign + body : text[i] # SPACE
      /\ \A i \in front + sign + body + 1 .. front + sign + body + back : text[i] = SPACE
      /\ sign = 1 /\ plain => text[front + 1] # SPACE
  BY DEF IsShaped
<1>a. (left => front = 0) /\ (~left => back = 0) /\ (~left /\ zeros => front = 0)
  BY DEF SidesRight
<1>2. ASSUME left, NEW i \in (IF plain THEN 2 ELSE 3) .. Len(text), text[i] # SPACE
      PROVE  text[i - 1] # SPACE
  <2>1. front = 0 /\ i \in 1 .. sign + body + back /\ i >= 2 /\ (~plain => i >= 3)
    BY <1>1, <1>2, <1>a
  <2>2. ~(i \in sign + body + 1 .. sign + body + back)
    BY <1>1, <1>2, <2>1
  <2>3. i \in 2 .. sign + body
    BY <2>1, <2>2
  <2>4. CASE i - 1 > sign
    <3>1. i - 1 \in front + sign + 1 .. front + sign + body
      BY <2>1, <2>3, <2>4
    <3>. QED  BY <1>1, <3>1
  <2>5. CASE ~(i - 1 > sign)
    <3>1. i = 2 /\ sign = 1 /\ plain /\ i - 1 = front + 1
      BY <2>1, <2>3, <2>5
    <3>. QED  BY <1>1, <3>1
  <2>. QED  BY <2>4, <2>5
<1>3. ASSUME ~left, NEW i \in 1 .. Len(text) - 1, text[i] # SPACE
      PROVE  text[i + 1] # SPACE
  <2>1. back = 0 /\ i \notin 1 .. front /\ i \in 1 .. front + sign + body - 1
    BY <1>1, <1>3, <1>a
  <2>2. i + 1 \in front + sign + 1 .. front + sign + body
    BY <2>1
  <2>. QED  BY <1>1, <2>2
<1>4. ASSUME ~left, zeros, NEW i \in 2 .. Len(text)
      PROVE  text[i] # SPACE
  <2>1. front = 0 /\ back = 0
    BY <1>4, <1>a
  <2>2. i \in front + sign + 1 .. front + sign + body
    BY <1>1, <2>1
  <2>. QED  BY <1>1, <2>2
<1>. QED  BY <1>2, <1>3, <1>4 DEF BlanksRight

\* Numbers.
LEMMA NumberLayout ==
  ASSUME IInv, Octal \/ Pointer \/ Hex \/ Decimal, WantsSign => here \in SignedNumeric
  PROVE  NumberRight(printed)
<1>1. PICK type : \E front, back \in Nat, zeros \in Seq({"0"}) :
        /\ IsTypeHere(type)
        /\ printed = NumberText(word, Base, type, front, zeros, back)
        /\ IsLaidOut(word, Base, Usual, precision, type, front, zeros, back)
  BY NumberPrinted
<1>2. PICK front \in Nat, back \in Nat, zeros \in Seq({"0"}) :
        /\ IsTypeHere(type)
        /\ printed = NumberText(word, Base, type, front, zeros, back)
        /\ IsLaidOut(word, Base, Usual, precision, type, front, zeros, back)
  BY <1>1
<1>3. word \in Words /\ precision \in Int /\ field_width \in Int /\ Usual \in Int
  <2>1. pc = "convert" /\ here \in Conversions
    BY NumericIs
  <2>. QED  BY <2>1, ArgIs, WordAssumption DEF IInv, TypeOK, Usual
<1>  DEFINE sign   == SignLength(word, type)
            digits == Len(Digits(Magnitude(word, type), Base, type))
            prefix == PrefixLength(Base, type)
            body   == prefix + Len(zeros) + digits
            need   == NeededFor(word, Base, precision, type, digits)
<1>4. body \in Nat \ {0} /\ IsShaped(printed, front, sign, body, back, type)
  BY <1>2, <1>3, BaseType, ShapeIs
<1>5. sign \in {0, 1}
  BY DEF SignLength
<1>6. /\ front + sign + prefix + Len(zeros) + digits + back = IF Usual > need THEN Usual ELSE need
      /\ LEFT \in type => front = 0
      /\ LEFT \notin type => back = 0
      /\ LEFT \notin type /\ ZEROPAD \in type => front = 0
  BY <1>2 DEF IsLaidOut
<1>7. need = Needed
  BY <1>2, <1>3, NeededIs
<1>8. digits \in Nat /\ prefix \in Nat /\ Len(zeros) \in Nat
  <2>1. digits \in 1 .. Magnitude(word, type) + 1
    BY <1>3, MagnitudeType, BaseType, DigitsType
  <2>  HIDE DEF digits
  <2>. QED  BY <2>1, PrefixType, BaseType
<1>9. need \in Int
  <2>  HIDE DEF digits, prefix, sign
  <2>. QED  BY <1>3, <1>5, <1>8 DEF NeededFor, prefix, sign
<1>10. Len(printed) = Max({Usual, Needed})
  <2>1. Len(printed) = front + sign + body + back
    BY <1>4 DEF IsShaped
  <2>  DEFINE z == Len(zeros)
  <2>2. z \in Nat
    BY <1>8
  <2>  HIDE DEF digits, prefix, sign, need, z
  <2>3. front + sign + (prefix + z + digits) + back = front + sign + prefix + z + digits + back
    BY <1>5, <1>8, <2>2
  <2>4. Len(printed) = IF Usual > need THEN Usual ELSE need
    BY <1>6, <2>1, <2>3 DEF z
  <2>5. Max({Usual, need}) = IF Usual > need THEN Usual ELSE need
    BY <1>3, <1>9, MaxMinIs
  <2>. QED  BY <1>7, <2>4, <2>5
<1>11. SidesRight(front, back, type)
  BY <1>6 DEF SidesRight
<1>  HIDE DEF body, sign
<1>12. BlanksRight(printed, type)
  BY <1>4, <1>5, <1>11, ShapeRight
<1>. QED  BY <1>2, <1>10, <1>12 DEF BlanksRight, NumberRight, Usual, Zeros, IsTypeHere

\* Which step it is, when a character, a string or a number is converted.
LEMMA WhichStep ==
  ASSUME Next, pc = "convert"
  PROVE  /\ here \in {"c", "s"} => Char \/ String
         /\ here \in Numeric => Octal \/ Pointer \/ Hex \/ Decimal
<1>1. ~Text /\ ~Percent /\ ~Flag /\ ~Width /\ ~WidthStar /\ ~Precision /\ ~PrecisionStar
      /\ ~Qualifier /\ ~Return
  BY DEF Text, Percent, Flag, Width, WidthStar, Precision, PrecisionStar, Qualifier, Return
<1>2. /\ Count => here = "n"
      /\ Default => here \notin Conversions
      /\ Char => here = "c"
      /\ String => here = "s"
      /\ Octal \/ Pointer \/ Hex \/ Decimal => here \in Numeric
  BY DEF Count, Default, Char, String, Octal, Pointer, Hex, Decimal, Converts, Numeric
<1>3. /\ here \in {"c", "s"} => here # "n" /\ here \in Conversions /\ here \notin Numeric
      /\ here \in Numeric => /\ here # "n" /\ here \in Conversions
                             /\ here # "c" /\ here # "s"
  BY DEF Conversions, Numeric
<1>. QED  BY <1>1, <1>2, <1>3 DEF Next

\* In calls that pass what their formats ask for, without asterisks and with
\* widths and precisions well within an int, whatever a conversion prints is as
\* long as its field or as it has to be, with its blanks and zeros on the side
\* that the flags say (vsprintf.c:108-195, 288-320); not so unsigned numbers with
\* a sign flag, which get a column that they should not have.
THEOREM Layout ==
  ASSUME \A call \in Calls : CallFits(call) /\ ~HasStar(call.fmt)
  PROVE  Spec => LayoutRight
<1>1. Init => IInv
  BY InitStep DEF Init
<1>2. IInv /\ [Next]_vars => IInv'
  BY Step
<1>3. IInv /\ [Next]_vars =>
        [pc = "convert" => /\ here \in Numeric /\ (WantsSign => here \in SignedNumeric)
                                => NumberRight(printed)
                           /\ here \in {"c", "s"} => TextRight(printed)]_vars
  <2>1. ASSUME IInv, Next, pc = "convert"
        PROVE  /\ here \in Numeric /\ (WantsSign => here \in SignedNumeric)
                    => NumberRight(printed)
               /\ here \in {"c", "s"} => TextRight(printed)
    BY <2>1, WhichStep, NumberLayout, TextPrinted
  <2>. QED  BY <2>1
<1>. QED  BY <1>1, <1>2, <1>3, PTL DEF Spec, LayoutRight

-----------------------------------------------------------------------------
(***************************************************************************)
(* The value of what is printed.                                           *)
(***************************************************************************)
\* The characters of a digit.
CharsOf(d) == {DigitChars(TRUE)[d + 1], DigitChars(FALSE)[d + 1]}

\* A digit is known by its character.
LEMMA DigitKnown ==
  ASSUME NEW d \in 0 .. 15, NEW e \in 0 .. 15, NEW c, c \in CharsOf(d), c \in CharsOf(e)
  PROVE  d = e
<1>1. /\ CharsOf(0) = {"0"} /\ CharsOf(1) = {"1"} /\ CharsOf(2) = {"2"} /\ CharsOf(3) = {"3"}
      /\ CharsOf(4) = {"4"} /\ CharsOf(5) = {"5"} /\ CharsOf(6) = {"6"} /\ CharsOf(7) = {"7"}
      /\ CharsOf(8) = {"8"} /\ CharsOf(9) = {"9"}
  BY DEF CharsOf, DigitChars
<1>2. /\ CharsOf(10) = {"a", "A"} /\ CharsOf(11) = {"b", "B"} /\ CharsOf(12) = {"c", "C"}
      /\ CharsOf(13) = {"d", "D"} /\ CharsOf(14) = {"e", "E"} /\ CharsOf(15) = {"f", "F"}
  BY DEF CharsOf, DigitChars
<1>3. \A k \in 0 .. 15 : \/ k = 0 \/ k = 1 \/ k = 2 \/ k = 3 \/ k = 4 \/ k = 5 \/ k = 6 \/ k = 7
                         \/ k = 8 \/ k = 9 \/ k = 10 \/ k = 11 \/ k = 12 \/ k = 13 \/ k = 14
                         \/ k = 15
  OBVIOUS
<1>. QED  BY <1>1, <1>2, <1>3

LEMMA DigitValueIs ==
  ASSUME NEW small, NEW d \in 0 .. 15
  PROVE  DigitValue(DigitChars(small)[d + 1]) = d
<1>  DEFINE c == DigitChars(small)[d + 1]
<1>1. c \in CharsOf(d)
  <2>1. CASE small
    BY <2>1 DEF CharsOf, DigitChars
  <2>2. CASE ~small
    BY <2>2 DEF CharsOf, DigitChars
  <2>. QED  BY <2>1, <2>2
<1>  HIDE DEF c
<1>2. DigitValue(c) = CHOOSE e \in 0 .. 15 : c \in CharsOf(e)
  BY DEF DigitValue, CharsOf
<1>3. \A e \in 0 .. 15 : c \in CharsOf(e) => e = d
  BY <1>1, DigitKnown
<1>4. DigitValue(c) = d
  BY <1>1, <1>2, <1>3
<1>. QED  BY <1>4 DEF c

ValueStep(f, text, base, n) ==
  IF n = 0 THEN 0 ELSE base * f[n - 1] + DigitValue(text[n])

IsValue(f, text, base, k) == f = [n \in 0 .. k |-> ValueStep(f, text, base, n)]

\* The function in ValueOf exists.
LEMMA ValueExists ==
  ASSUME NEW text, NEW base \in Bases, NEW k \in Nat
  PROVE  \E f : IsValue(f, text, base, k)
<1>  DEFINE S == {n \in Nat : \E f : IsValue(f, text, base, n)}
<1>1. ASSUME NEW n \in Nat, \A m \in Nat : m < n => m \in S
      PROVE  n \in S
  <2>1. CASE n = 0
    <3>  DEFINE f == [i \in 0 .. 0 |-> 0]
    <3>1. \A i \in 0 .. 0 : ValueStep(f, text, base, i) = 0
      BY DEF ValueStep
    <3>2. IsValue(f, text, base, 0)
      BY <3>1 DEF IsValue
    <3>  HIDE DEF f
    <3>. QED  BY <2>1, <3>2
  <2>2. CASE n # 0
    <3>0. n - 1 \in Nat /\ n - 1 < n
      BY <2>2
    <3>1. PICK f : IsValue(f, text, base, n - 1)
      BY <1>1, <3>0
    <3>  DEFINE h == [i \in 0 .. n |-> IF i = n THEN ValueStep(f, text, base, n) ELSE f[i]]
    <3>2. \A i \in 0 .. n : i = n \/ i \in 0 .. n - 1
      BY <3>0
    <3>3. \A i \in 0 .. n - 1 : i # n /\ i \in 0 .. n /\ h[i] = f[i]
      BY <3>0
    <3>4. ASSUME NEW i \in 0 .. n
          PROVE  ValueStep(f, text, base, i) = ValueStep(h, text, base, i)
      <4>1. i # 0 => i - 1 \in 0 .. n - 1
        BY <3>0
      <4>  HIDE DEF h
      <4>2. i # 0 => f[i - 1] = h[i - 1]
        BY <3>3, <4>1
      <4>. QED  BY <4>2 DEF ValueStep
    <3>5. \A i \in 0 .. n - 1 : f[i] = ValueStep(f, text, base, i)
      BY <3>1 DEF IsValue
    <3>6. h = [i \in 0 .. n |-> ValueStep(f, text, base, i)]
      BY <3>2, <3>5
    <3>7. IsValue(h, text, base, n)
      <4>  HIDE DEF h
      <4>. QED  BY <3>4, <3>6 DEF IsValue
    <3>  HIDE DEF h
    <3>. QED  BY <3>7
  <2>. QED  BY <2>1, <2>2
<1>. QED
  <2>  HIDE DEF S
  <2>1. k \in S
    BY <1>1, Induction
  <2>. QED  BY <2>1 DEF S

\* The value of the first n digits of a text.
ValueTo(text, base, n) == (CHOOSE f : IsValue(f, text, base, Len(text)))[n]

LEMMA ValueIs ==
  ASSUME NEW text \in Seq(Chars), NEW base \in Bases
  PROVE  /\ ValueOf(text, base) = ValueTo(text, base, Len(text))
         /\ ValueTo(text, base, 0) = 0
         /\ \A n \in 1 .. Len(text) :
              ValueTo(text, base, n) = base * ValueTo(text, base, n - 1) + DigitValue(text[n])
<1>0. Len(text) \in Nat
  OBVIOUS
<1>  DEFINE v == CHOOSE f : IsValue(f, text, base, Len(text))
<1>1. IsValue(v, text, base, Len(text))
  BY <1>0, ValueExists
<1>2. /\ ValueOf(text, base) = v[Len(text)]
      /\ \A n : ValueTo(text, base, n) = v[n]
  BY DEF ValueOf, ValueTo, IsValue, ValueStep
<1>  HIDE DEF v
<1>3. \A n \in 0 .. Len(text) : v[n] = ValueStep(v, text, base, n)
  BY <1>1 DEF IsValue
<1>4. 0 \in 0 .. Len(text) /\ \A n \in 1 .. Len(text) : n \in 0 .. Len(text) /\ n # 0
  BY <1>0
<1>. QED  BY <1>2, <1>3, <1>4 DEF ValueStep

\* Two texts that begin the same have the same values there.
LEMMA ValueSame ==
  ASSUME NEW text \in Seq(Chars), NEW more \in Seq(Chars), NEW base \in Bases,
         Len(text) <= Len(more), \A i \in 1 .. Len(text) : text[i] = more[i]
  PROVE  ValueOf(text, base) = ValueTo(more, base, Len(text))
<1>0. Len(text) \in Nat /\ Len(more) \in Nat
  OBVIOUS
<1>  DEFINE v(n) == ValueTo(text, base, n)
            w(n) == ValueTo(more, base, n)
            S == {n \in Nat : n <= Len(text) => v(n) = w(n)}
<1>1. ASSUME NEW n \in Nat, \A m \in Nat : m < n => m \in S
      PROVE  n \in S
  <2>  SUFFICES ASSUME n <= Len(text) PROVE v(n) = w(n)
    OBVIOUS
  <2>1. CASE n = 0
    <3>1. v(0) = 0 /\ w(0) = 0
      BY ValueIs
    <3>. QED  BY <2>1, <3>1
  <2>2. CASE n # 0
    <3>1. /\ n - 1 \in Nat /\ n - 1 < n /\ n - 1 <= Len(text)
          /\ n \in 1 .. Len(text) /\ n \in 1 .. Len(more)
      BY <1>0, <2>2
    <3>2. n - 1 \in S
      <4>  HIDE DEF S
      <4>. QED  BY <1>1, <3>1
    <3>3. v(n - 1) = w(n - 1)
      BY <3>1, <3>2
    <3>4. /\ v(n) = base * v(n - 1) + DigitValue(text[n])
          /\ w(n) = base * w(n - 1) + DigitValue(more[n])
      BY <3>1, ValueIs
    <3>  HIDE DEF v, w
    <3>5. text[n] = more[n]
      BY <3>1
    <3>. QED  BY <3>3, <3>4, <3>5
  <2>. QED  BY <2>1, <2>2
<1>2. Len(text) \in S
  <2>  HIDE DEF S
  <2>. QED  BY <1>0, <1>1, Induction
<1>3. v(Len(text)) = w(Len(text))
  BY <1>0, <1>2
<1>. QED  BY <1>3, ValueIs

\* One digit more.
LEMMA ValueAppend ==
  ASSUME NEW text \in Seq(Chars), NEW c \in Chars, NEW base \in Bases
  PROVE  ValueOf(text \o <<c>>, base) = base * ValueOf(text, base) + DigitValue(c)
<1>  DEFINE more == text \o <<c>>
            n == Len(text)
<1>1. /\ more \in Seq(Chars) /\ n \in Nat /\ Len(more) = n + 1
      /\ \A i \in 1 .. n : text[i] = more[i]
      /\ more[n + 1] = c
  OBVIOUS
<1>  HIDE DEF more
<1>2. ValueOf(text, base) = ValueTo(more, base, n)
  <2>1. n <= Len(more)
    BY <1>1
  <2>. QED  BY <1>1, <2>1, ValueSame
<1>3. ValueOf(more, base) = ValueTo(more, base, n + 1)
  BY <1>1, ValueIs
<1>  HIDE DEF n
<1>4. ValueTo(more, base, n + 1) = base * ValueTo(more, base, n) + DigitValue(more[n + 1])
  <2>1. n + 1 \in 1 .. Len(more) /\ (n + 1) - 1 = n
    BY <1>1
  <2>. QED  BY <1>1, <2>1, ValueIs
<1>. QED  BY <1>1, <1>2, <1>3, <1>4 DEF more

\* Zeros have no value.
LEMMA ValueOfZeros ==
  ASSUME NEW zeros \in Seq({"0"}), NEW base \in Bases
  PROVE  ValueOf(zeros, base) = 0
<1>0. Len(zeros) \in Nat /\ zeros \in Seq(Chars) /\ \A i \in 1 .. Len(zeros) : zeros[i] = "0"
  <2>1. "0" \in Chars
    BY CharsAssumption DEF FlagChars, ZEROPAD
  <2>. QED  BY <2>1
<1>1. DigitValue("0") = 0
  <2>1. DigitChars(TRUE)[0 + 1] = "0" /\ 0 \in 0 .. 15
    BY DEF DigitChars
  <2>. QED  BY <2>1, DigitValueIs
<1>  DEFINE v(n) == ValueTo(zeros, base, n)
            S == {n \in Nat : n <= Len(zeros) => v(n) = 0}
<1>2. ASSUME NEW n \in Nat, \A m \in Nat : m < n => m \in S
      PROVE  n \in S
  <2>  SUFFICES ASSUME n <= Len(zeros) PROVE v(n) = 0
    OBVIOUS
  <2>1. CASE n = 0
    BY <1>0, <2>1, ValueIs
  <2>2. CASE n # 0
    <3>1. /\ n - 1 \in Nat /\ n - 1 < n /\ n - 1 <= Len(zeros) /\ n \in 1 .. Len(zeros)
      BY <1>0, <2>2
    <3>2. n - 1 \in S
      <4>  HIDE DEF S
      <4>. QED  BY <1>2, <3>1
    <3>3. v(n - 1) = 0
      BY <3>1, <3>2
    <3>4. v(n) = base * v(n - 1) + DigitValue(zeros[n])
      BY <1>0, <3>1, ValueIs
    <3>  HIDE DEF v
    <3>5. v(n) = base * 0 + 0
      BY <1>0, <1>1, <3>1, <3>3, <3>4
    <3>. QED  BY <3>5 DEF Bases
  <2>. QED  BY <2>1, <2>2
<1>3. Len(zeros) \in S
  <2>  HIDE DEF S
  <2>. QED  BY <1>0, <1>2, Induction
<1>4. v(Len(zeros)) = 0
  BY <1>0, <1>3
<1>. QED  BY <1>0, <1>4, ValueIs

\* The digits of a number, zeros before them or not, have its value.
LEMMA ValueOfDigits ==
  ASSUME NEW num \in Words, NEW base \in Bases, NEW type, NEW zeros \in Seq({"0"})
  PROVE  ValueOf(zeros \o Digits(num, base, type), base) = num
<1>0. Word \in Nat /\ zeros \in Seq(Chars)
  <2>1. "0" \in Chars
    BY CharsAssumption DEF FlagChars, ZEROPAD
  <2>. QED  BY <2>1, WordAssumption
<1>  DEFINE d(n) == Digits(n, base, type)
            S == {n \in Nat : n \in Words => ValueOf(zeros \o d(n), base) = n}
<1>1. ASSUME NEW n \in Nat, \A m \in Nat : m < n => m \in S
      PROVE  n \in S
  <2>  SUFFICES ASSUME n \in Words PROVE ValueOf(zeros \o d(n), base) = n
    OBVIOUS
  <2>  DEFINE c == DigitChars(SMALL \in type)[(n % base) + 1]
  <2>1. c \in Chars /\ DigitValue(c) = n % base
    <3>1. n % base \in 0 .. 15
      BY Division
    <3>. QED  BY <3>1, DigitCharsAre, DigitValueIs DEF Ink
  <2>2. /\ n < base => d(n) = <<c>>
        /\ ~(n < base) => d(n) = d(n \div base) \o <<c>>
    BY DigitsAre DEF LastDigit
  <2>  HIDE DEF c
  <2>3. CASE n < base
    <3>1. ValueOf(zeros \o <<c>>, base) = base * ValueOf(zeros, base) + DigitValue(c)
      BY <1>0, <2>1, ValueAppend
    <3>2. ValueOf(zeros, base) = 0 /\ n % base = n
      BY <2>3, ValueOfZeros, Division
    <3>3. base * 0 + n = n
      BY DEF Bases
    <3>. QED  BY <2>1, <2>2, <2>3, <3>1, <3>2, <3>3
  <2>4. CASE ~(n < base)
    <3>  DEFINE q == n \div base
    <3>1. q \in Nat /\ q < n /\ n = base * q + (n % base)
      BY <2>4, Division, Quotient DEF Bases
    <3>2. d(n) = d(q) \o <<c>>
      BY <2>2, <2>4
    <3>  HIDE DEF q
    <3>3. q \in S /\ q \in Words
      <4>  HIDE DEF S
      <4>. QED  BY <1>0, <1>1, <3>1 DEF Words
    <3>4. ValueOf(zeros \o d(q), base) = q
      BY <3>3
    <3>5. d(q) \in Seq(Chars)
      <4>1. d(q) \in Seq(Ink)
        BY <3>3, DigitsType
      <4>  HIDE DEF d
      <4>. QED  BY <4>1 DEF Ink
    <3>  HIDE DEF d
    <3>6. zeros \o d(n) = (zeros \o d(q)) \o <<c>> /\ zeros \o d(q) \in Seq(Chars)
      <4>1. <<c>> \in Seq(Chars)
        BY <2>1
      <4>. QED  BY <1>0, <3>2, <3>5, <4>1, ConcatTwice
    <3>7. ValueOf((zeros \o d(q)) \o <<c>>, base) = base * ValueOf(zeros \o d(q), base) + DigitValue(c)
      BY <2>1, <3>6, ValueAppend
    <3>. QED  BY <2>1, <3>1, <3>4, <3>6, <3>7
  <2>. QED  BY <2>3, <2>4
<1>2. num \in S
  <2>  HIDE DEF S
  <2>1. num \in Nat
    BY <1>0 DEF Words
  <2>. QED  BY <1>1, <2>1, Induction
<1>. QED  BY <1>2

-----------------------------------------------------------------------------
(***************************************************************************)
(* A number that is printed reads back as the argument.                    *)
(***************************************************************************)
\* The least and the greatest number of a range.
LEMMA RangeEnds ==
  ASSUME NEW a \in Int, NEW b \in Int, a <= b
  PROVE  Min(a .. b) = a /\ Max(a .. b) = b
<1>1. /\ a \in a .. b /\ \A y \in a .. b : a =< y
      /\ b \in a .. b /\ \A y \in a .. b : b >= y
  OBVIOUS
<1>2. /\ \A x \in a .. b : (\A y \in a .. b : x =< y) => x = a
      /\ \A x \in a .. b : (\A y \in a .. b : x >= y) => x = b
  BY <1>1
<1>. QED  BY <1>1, <1>2 DEF Min, Max

\* What is left when the blanks are taken from around a text.
LEMMA TrimmedIs ==
  ASSUME NEW a \in Seq(Chars), NEW b \in Seq(Chars), NEW c \in Seq(Chars), Len(b) >= 1,
         \A i \in 1 .. Len(a) : a[i] = SPACE,
         \A i \in 1 .. Len(b) : b[i] # SPACE,
         \A i \in 1 .. Len(c) : c[i] = SPACE
  PROVE  Trimmed((a \o b) \o c) = b
<1>  DEFINE m == a \o b
            t == m \o c
            k == Len(a)
            l == Len(b)
            ink == {i \in 1 .. Len(t) : t[i] # SPACE}
<1>0. k \in Nat /\ l \in Nat /\ l >= 1 /\ Len(c) \in Nat
  OBVIOUS
<1>1. m \in Seq(Chars) /\ AreTwo(m, a, b)
  BY ConcatTwo
<1>  HIDE DEF m
<1>2. t \in Seq(Chars) /\ AreTwo(t, m, c)
  BY <1>1, ConcatTwo
<1>  HIDE DEF t
<1>3. /\ Len(m) = k + l /\ Len(t) = k + l + Len(c)
      /\ \A i \in 1 .. k : m[i] = a[i]
      /\ \A i \in 1 .. l : m[k + i] = b[i]
      /\ \A i \in 1 .. k + l : t[i] = m[i]
      /\ \A i \in 1 .. Len(c) : t[k + l + i] = c[i]
  BY <1>0, <1>1, <1>2 DEF AreTwo
<1>4. ASSUME NEW i \in 1 .. k
      PROVE  t[i] = SPACE
  <2>1. i \in 1 .. k + l
    BY <1>0
  <2>. QED  BY <1>3, <2>1
<1>5. ASSUME NEW i \in 1 .. l
      PROVE  t[k + i] = b[i] /\ t[k + i] # SPACE
  <2>1. k + i \in 1 .. k + l
    BY <1>0
  <2>. QED  BY <1>3, <2>1
<1>6. ASSUME NEW i \in k + l + 1 .. k + l + Len(c)
      PROVE  t[i] = SPACE
  <2>1. PICK j \in 1 .. Len(c) : i = k + l + j
    <3>1. i - (k + l) \in 1 .. Len(c) /\ i = k + l + (i - (k + l))
      BY <1>0
    <3>. QED  BY <3>1
  <2>. QED  BY <1>3, <2>1
<1>7. ink = k + 1 .. k + l
  <2>1. ASSUME NEW i \in k + 1 .. k + l
        PROVE  i \in 1 .. Len(t) /\ t[i] # SPACE
    <3>1. PICK j \in 1 .. l : i = k + j
      <4>1. i - k \in 1 .. l /\ i = k + (i - k)
        BY <1>0
      <4>. QED  BY <4>1
    <3>2. i \in 1 .. Len(t)
      BY <1>0, <1>3
    <3>. QED  BY <1>5, <3>1, <3>2
  <2>2. ASSUME NEW i \in 1 .. Len(t), t[i] # SPACE
        PROVE  i \in k + 1 .. k + l
    <3>1. i \notin 1 .. k /\ i \notin k + l + 1 .. k + l + Len(c)
      BY <1>4, <1>6, <2>2
    <3>. QED  BY <1>0, <1>3, <3>1
  <2>. QED  BY <2>1, <2>2
<1>8. Min(ink) = k + 1 /\ Max(ink) = k + l
  <2>1. k + 1 \in Int /\ k + l \in Int /\ k + 1 <= k + l
    BY <1>0
  <2>2. Min(k + 1 .. k + l) = k + 1 /\ Max(k + 1 .. k + l) = k + l
    BY <2>1, RangeEnds
  <2>. QED  BY <1>7, <2>2
<1>9. Trimmed(t) = SubSeq(t, k + 1, k + l)
  BY <1>8 DEF Trimmed
<1>10. SubSeq(t, k + 1, k + l) = b
  <2>1. /\ SubSeq(t, k + 1, k + l) \in Seq(Chars)
        /\ Len(SubSeq(t, k + 1, k + l)) = l
        /\ \A i \in 1 .. l : SubSeq(t, k + 1, k + l)[i] = t[k + i]
    <3>  HIDE DEF k, l
    <3>1. k + l \in Nat /\ k + l <= Len(t)
      BY <1>0, <1>3
    <3>. QED  BY <1>0, <1>2, <3>1, Section
  <2>  DEFINE u == SubSeq(t, k + 1, k + l)
  <2>2. u \in Seq(Chars) /\ Len(u) = Len(b) /\ \A i \in 1 .. Len(b) : u[i] = b[i]
    BY <1>5, <2>1
  <2>  HIDE DEF u
  <2>3. u = b
    BY <2>2
  <2>. QED  BY <2>3 DEF u
<1>. QED  BY <1>9, <1>10 DEF t, m

\* The end of two sequences behind each other.
LEMMA Second ==
  ASSUME NEW S, NEW a \in Seq(S), NEW b \in Seq(S)
  PROVE  SubSeq(a \o b, Len(a) + 1, Len(a \o b)) = b
<1>  DEFINE t == a \o b
            k == Len(a)
            l == Len(b)
            u == SubSeq(t, k + 1, Len(t))
<1>0. k \in Nat /\ l \in Nat
  OBVIOUS
<1>1. t \in Seq(S) /\ AreTwo(t, a, b)
  BY ConcatTwo
<1>  HIDE DEF t
<1>2. Len(t) = k + l /\ \A i \in 1 .. l : t[k + i] = b[i]
  BY <1>1 DEF AreTwo
<1>3. u \in Seq(S) /\ Len(u) = l /\ \A i \in 1 .. l : u[i] = t[k + i]
  BY <1>0, <1>1, <1>2
<1>  HIDE DEF u
<1>4. u = b
  BY <1>2, <1>3
<1>. QED  BY <1>4 DEF u, t

\* The sign if it is not a blank.
Visible(num, type) ==
  IF SIGN \in type /\ Signed(num) < 0 THEN <<"-">>
  ELSE IF PLUS \in type THEN <<"+">>
  ELSE <<>>

\* What comes behind the sign, up to the blanks.
Body(num, base, type, zeros) ==
  PrefixOf(base, type) \o (zeros \o Digits(Magnitude(num, type), base, type))

LEMMA BodyIs ==
  ASSUME NEW num \in Words, NEW base \in Bases, NEW type, NEW zeros \in Seq({"0"})
  PROVE  /\ Body(num, base, type, zeros) \in Seq(Ink)
         /\ Len(Body(num, base, type, zeros)) >= 1
<1>  DEFINE p == PrefixOf(base, type)
            d == Digits(Magnitude(num, type), base, type)
            r == zeros \o d
<1>1. p \in Seq(Ink) /\ d \in Seq(Ink) /\ Len(d) >= 1
  <2>1. d \in Seq(Ink) /\ Len(d) \in 1 .. Magnitude(num, type) + 1
    BY MagnitudeType, DigitsType
  <2>  HIDE DEF d
  <2>. QED  BY <2>1, PrefixType
<1>2. zeros \in Seq(Ink)
  <2>1. "0" \in Ink
    BY CharsAssumption, SpaceIs DEF Ink, FlagChars, ZEROPAD
  <2>. QED  BY <2>1
<1>  HIDE DEF p, d
<1>3. r \in Seq(Ink) /\ Len(r) = Len(zeros) + Len(d) /\ Len(zeros) \in Nat /\ Len(d) \in Nat
  BY <1>1, <1>2, Concat
<1>  HIDE DEF r
<1>4. p \o r \in Seq(Ink) /\ Len(p \o r) = Len(p) + Len(r) /\ Len(p) \in Nat /\ Len(r) \in Nat
  BY <1>1, <1>3, Concat
<1>5. Len(p \o r) >= 1
  BY <1>1, <1>3, <1>4
<1>. QED  BY <1>4, <1>5 DEF Body, p, d, r

\* Between the blanks there are the sign, unless it is one, and what follows it.
LEMMA BareIs ==
  ASSUME NEW num \in Words, NEW base \in Bases, NEW type,
         NEW front \in Nat, NEW back \in Nat, NEW zeros \in Seq({"0"})
  PROVE  Trimmed(NumberText(num, base, type, front, zeros, back)) =
           Visible(num, type) \o Body(num, base, type, zeros)
<1>  DEFINE a == Repeated(SPACE, front)
            c == Repeated(SPACE, back)
            s == SignOf(num, type)
            v == Visible(num, type)
            b == Body(num, base, type, zeros)
            text == NumberText(num, base, type, front, zeros, back)
<1>1. SPACE \in Chars /\ "+" \in Chars /\ "-" \in Chars
  BY CharsAssumption DEF FlagChars, PLUS, LEFT
<1>2. /\ a \in Seq(Chars) /\ \A i \in 1 .. Len(a) : a[i] = SPACE
      /\ c \in Seq(Chars) /\ \A i \in 1 .. Len(c) : c[i] = SPACE
  <2>1. front \in Int /\ back \in Int
    OBVIOUS
  <2>. QED  BY <1>1, <2>1, RepeatedIs
<1>3. b \in Seq(Chars) /\ b \in Seq(Ink) /\ Len(b) >= 1 /\ \A i \in 1 .. Len(b) : b[i] # SPACE
  <2>1. b \in Seq(Ink) /\ Len(b) >= 1
    BY BodyIs
  <2>  HIDE DEF b
  <2>. QED  BY <2>1 DEF Ink
<1>4. text = (a \o (s \o b)) \o c
  BY DEF NumberText, Body
<1>5. s \in Seq(Chars)
  BY SignType
<1>  HIDE DEF a, b, c, text
<1>6. CASE s = <<SPACE>>
  <2>1. v = <<>>
    <3>1. <<SPACE>> # <<"-">> /\ <<SPACE>> # <<"+">>
      <4>1. <<SPACE>>[1] # <<"-">>[1] /\ <<SPACE>>[1] # <<"+">>[1]
        BY SpaceIs
      <4>. QED  BY <4>1
    <3>. QED  BY <1>6, <3>1 DEF SignOf, Visible
  <2>2. v \o b = b
    BY <1>3, <2>1
  <2>  DEFINE lead == a \o s
  <2>3. a \o (s \o b) = lead \o b
    <3>  HIDE DEF s
    <3>. QED  BY <1>2, <1>3, <1>5, ConcatTwice
  <2>4. lead \in Seq(Chars) /\ \A i \in 1 .. Len(lead) : lead[i] = SPACE
    <3>1. <<SPACE>> \in Seq(Chars) /\ Len(<<SPACE>>) = 1 /\ <<SPACE>>[1] = SPACE
      BY <1>1
    <3>  HIDE DEF s
    <3>2. lead \in Seq(Chars) /\ AreTwo(lead, a, s)
      BY <1>2, <1>5, ConcatTwo
    <3>  HIDE DEF lead
    <3>3. Len(s) = 1 /\ s[1] = SPACE /\ Len(a) \in Nat
      BY <1>2, <1>6, <3>1
    <3>4. Len(lead) = Len(a) + 1 /\ lead[Len(a) + 1] = SPACE
          /\ \A i \in 1 .. Len(a) : lead[i] = a[i]
      <4>1. 1 \in 1 .. Len(s)
        BY <3>3
      <4>. QED  BY <3>2, <3>3, <4>1 DEF AreTwo
    <3>5. \A i \in 1 .. Len(a) + 1 : i \in 1 .. Len(a) \/ i = Len(a) + 1
      BY <3>3
    <3>. QED  BY <1>2, <3>2, <3>4, <3>5
  <2>  HIDE DEF lead, s, v
  <2>5. Trimmed((lead \o b) \o c) = b
    BY <1>2, <1>3, <2>4, TrimmedIs
  <2>6. text = (lead \o b) \o c
    BY <1>4, <2>3
  <2>7. Trimmed(text) = v \o b
    BY <2>2, <2>5, <2>6
  <2>. QED  BY <2>7 DEF text, v, b
<1>7. CASE s # <<SPACE>>
  <2>1. v = s
    BY <1>7 DEF SignOf, Visible
  <2>2. \A i \in 1 .. Len(s) : s[i] # SPACE
    <3>1. s = <<"-">> \/ s = <<"+">> \/ s = <<>>
      BY <1>7 DEF SignOf
    <3>2. /\ \A i \in 1 .. Len(<<"-">>) : <<"-">>[i] # SPACE
          /\ \A i \in 1 .. Len(<<"+">>) : <<"+">>[i] # SPACE
          /\ \A i \in 1 .. Len(<<>>) : <<>>[i] # SPACE
      <4>1. /\ Len(<<"-">>) = 1 /\ <<"-">>[1] = "-"
            /\ Len(<<"+">>) = 1 /\ <<"+">>[1] = "+"
            /\ Len(<<>>) = 0
        OBVIOUS
      <4>. QED  BY <4>1, SpaceIs
    <3>  HIDE DEF s
    <3>. QED  BY <3>1, <3>2
  <2>  HIDE DEF s, v
  <2>  DEFINE bare == s \o b
  <2>3. bare \in Seq(Chars) /\ AreTwo(bare, s, b)
    BY <1>3, <1>5, ConcatTwo
  <2>  HIDE DEF bare
  <2>4. Len(bare) >= 1 /\ \A i \in 1 .. Len(bare) : bare[i] # SPACE
    <3>1. /\ Len(bare) = Len(s) + Len(b) /\ Len(s) \in Nat /\ Len(b) \in Nat
          /\ \A i \in 1 .. Len(s) : bare[i] = s[i]
          /\ \A i \in 1 .. Len(b) : bare[Len(s) + i] = b[i]
      BY <1>3, <1>5, <2>3 DEF AreTwo
    <3>2. ASSUME NEW i \in 1 .. Len(bare)
          PROVE  bare[i] # SPACE
      <4>1. CASE i \in 1 .. Len(s)
        BY <2>2, <3>1, <4>1
      <4>2. CASE i \notin 1 .. Len(s)
        <5>1. i - Len(s) \in 1 .. Len(b) /\ i = Len(s) + (i - Len(s))
          BY <3>1, <4>2
        <5>2. PICK j \in 1 .. Len(b) : i = Len(s) + j
          BY <5>1
        <5>. QED  BY <1>3, <3>1, <5>2
      <4>. QED  BY <4>1, <4>2
    <3>. QED  BY <1>3, <3>1, <3>2
  <2>5. Trimmed((a \o bare) \o c) = bare
    BY <1>2, <2>3, <2>4, TrimmedIs
  <2>6. text = (a \o bare) \o c
    BY <1>4 DEF bare
  <2>7. Trimmed(text) = v \o b
    BY <2>1, <2>5, <2>6 DEF bare
  <2>. QED  BY <2>7 DEF text, v, b
<1>. QED  BY <1>6, <1>7

\* Behind the sign and the hexadecimal prefix there are zeros and the digits.
IsBare(bare, num, base, type, zeros) ==
  bare = Visible(num, type) \o Body(num, base, type, zeros)

StartOf(bare, base, type) ==
  (IF bare[1] \in {"+", "-"} THEN 2 ELSE 1)
  + (IF base = 16 /\ SPECIAL \in type THEN 2 ELSE 0)

LEMMA DigitsBehind ==
  ASSUME NEW num \in Words, NEW base \in Bases, NEW type, NEW zeros \in Seq({"0"}),
         NEW bare, IsBare(bare, num, base, type, zeros)
  PROVE  /\ bare[1] = "-" <=> SIGN \in type /\ Signed(num) < 0
         /\ ValueOf(SubSeq(bare, StartOf(bare, base, type), Len(bare)), base)
              = Magnitude(num, type)
<1>  DEFINE v == Visible(num, type)
            b == Body(num, base, type, zeros)
            p == PrefixOf(base, type)
            m == Magnitude(num, type)
            d == Digits(m, base, type)
            hex == base = 16 /\ SPECIAL \in type
            start == StartOf(bare, base, type)
            h == IF hex THEN v \o p ELSE v
            z == IF hex THEN zeros ELSE p \o zeros
<1>1. "+" \in Chars /\ "-" \in Chars /\ "0" \in Chars
  BY CharsAssumption DEF FlagChars, PLUS, LEFT, ZEROPAD
<1>2. v \in Seq(Chars) /\ (v = <<>> \/ v = <<"+">> \/ v = <<"-">>)
  BY <1>1 DEF Visible
<1>3. b \in Seq(Ink) /\ b \in Seq(Chars) /\ Len(b) >= 1 /\ b[1] \in Ink
  <2>1. b \in Seq(Ink) /\ Len(b) >= 1
    BY BodyIs
  <2>  HIDE DEF b
  <2>. QED  BY <2>1 DEF Ink
<1>4. m \in Words /\ d \in Seq(Chars)
  <2>1. m \in Words
    BY MagnitudeType
  <2>  HIDE DEF m
  <2>2. d \in Seq(Ink)
    BY <2>1, DigitsType
  <2>  HIDE DEF d
  <2>. QED  BY <2>1, <2>2 DEF Ink
<1>5. p \in Seq(Chars) /\ (hex => Len(p) = 2) /\ (~hex => p \in Seq({"0"}))
  <2>1. p \in Seq(Ink) /\ Len(p) = PrefixLength(base, type)
    BY PrefixType
  <2>2. ~hex => p = <<"0">> \/ p = <<>>
    BY DEF PrefixOf
  <2>3. <<"0">> \in Seq({"0"}) /\ <<>> \in Seq({"0"})
    OBVIOUS
  <2>4. hex => PrefixLength(base, type) = 2
    BY DEF PrefixLength
  <2>  HIDE DEF p
  <2>5. p \in Seq(Chars)
    BY <2>1 DEF Ink
  <2>. QED  BY <2>1, <2>2, <2>3, <2>4, <2>5
<1>6. zeros \in Seq(Chars)
  BY <1>1
<1>7. b = p \o (zeros \o d)
  BY DEF Body
<1>  HIDE DEF p, d, b
<1>8. z \in Seq({"0"}) /\ h \in Seq(Chars)
  <2>  HIDE DEF v, hex
  <2>. QED  BY <1>2, <1>5
<1>9. bare = h \o (z \o d)
  <2>  HIDE DEF v
  <2>0. v \in Seq(Chars) /\ p \in Seq(Chars)
    BY <1>2, <1>5, Zenon
  <2>1. zeros \o d \in Seq(Chars)
    BY <1>4, <1>6
  <2>2. CASE hex
    <3>  DEFINE r == zeros \o d
    <3>1. v \o (p \o r) = (v \o p) \o r
      <4>  HIDE DEF r
      <4>1. r \in Seq(Chars)
        BY <2>1 DEF r
      <4>. QED  BY <2>0, <4>1, ConcatTwice, SMTT(30)
    <3>. QED  BY <1>7, <2>2, <3>1 DEF IsBare, v, b
  <2>3. CASE ~hex
    <3>1. p \o (zeros \o d) = (p \o zeros) \o d
      BY <1>4, <1>6, <2>0, ConcatTwice
    <3>. QED  BY <1>7, <2>3, <3>1 DEF IsBare, v, b
  <2>. QED  BY <2>2, <2>3
<1>10. /\ bare[1] = IF v = <<>> THEN b[1] ELSE v[1]
       /\ v # <<>> => Len(v) = 1
  <2>1. AreTwo(bare, v, b)
    <3>1. bare = v \o b
      BY DEF IsBare, b
    <3>  HIDE DEF v
    <3>. QED  BY <1>2, <1>3, <3>1, ConcatTwo
  <2>3. Len(<<>>) = 0 /\ Len(<<"+">>) = 1 /\ Len(<<"-">>) = 1
    OBVIOUS
  <2>  HIDE DEF v
  <2>2. v = <<>> => 1 \in 1 .. Len(b) /\ Len(v) + 1 = 1
    BY <1>3, <2>3
  <2>5. v # <<>> => Len(v) = 1 /\ 1 \in 1 .. Len(v)
    BY <1>2, <2>3
  <2>. QED  BY <2>1, <2>2, <2>5 DEF AreTwo
<1>11. /\ v = <<>> => bare[1] \notin {"+", "-"} /\ Len(v) = 0
       /\ v = <<"+">> => bare[1] = "+" /\ Len(v) = 1
       /\ v = <<"-">> => bare[1] = "-" /\ Len(v) = 1
  <2>1. <<"+">> # <<>> /\ <<"-">> # <<>> /\ <<"+">>[1] = "+" /\ <<"-">>[1] = "-" /\ Len(<<>>) = 0
    <3>1. Len(<<"+">>) = 1 /\ Len(<<"-">>) = 1 /\ Len(<<>>) = 0
      OBVIOUS
    <3>2. <<"+">> # <<>> /\ <<"-">> # <<>>
      BY <3>1
    <3>. QED  BY <3>1, <3>2
  <2>2. b[1] \notin {"+", "-"}
    BY <1>3 DEF Ink
  <2>  HIDE DEF v
  <2>. QED  BY <1>10, <2>1, <2>2
<1>12. bare[1] = "-" <=> SIGN \in type /\ Signed(num) < 0
  <2>1. /\ SIGN \in type /\ Signed(num) < 0 => v = <<"-">>
        /\ ~(SIGN \in type /\ Signed(num) < 0) => v = <<>> \/ v = <<"+">>
    BY DEF Visible
  <2>2. "+" # "-"
    OBVIOUS
  <2>  HIDE DEF v
  <2>. QED  BY <1>11, <2>1, <2>2
<1>13. start = Len(h) + 1
  <2>1. (IF bare[1] \in {"+", "-"} THEN 2 ELSE 1) = Len(v) + 1 /\ Len(v) \in Nat
    <3>1. \/ bare[1] \notin {"+", "-"} /\ Len(v) = 0
          \/ bare[1] \in {"+", "-"} /\ Len(v) = 1
      <4>  HIDE DEF v
      <4>. QED  BY <1>2, <1>11
    <3>  DEFINE l == Len(v)
    <3>2. \/ bare[1] \notin {"+", "-"} /\ l = 0
          \/ bare[1] \in {"+", "-"} /\ l = 1
      BY <3>1, Zenon
    <3>  HIDE DEF l, v
    <3>3. (IF bare[1] \in {"+", "-"} THEN 2 ELSE 1) = l + 1 /\ l \in Nat
      BY <3>2
    <3>. QED  BY <3>3 DEF l
  <2>2. hex => Len(v \o p) = Len(v) + 2
    <3>  HIDE DEF v, hex
    <3>1. Len(v \o p) = Len(v) + Len(p)
      BY <1>2, <1>5, Concat
    <3>. QED  BY <1>5, <3>1
  <2>3. Len(h) = Len(v) + (IF hex THEN 2 ELSE 0)
    <3>  HIDE DEF v, hex
    <3>. QED  BY <2>1, <2>2
  <2>4. start = (Len(v) + 1) + (IF hex THEN 2 ELSE 0)
    BY <2>1 DEF StartOf
  <2>  HIDE DEF v, h, start, hex
  <2>. QED  BY <2>1, <2>3, <2>4
<1>  HIDE DEF h, z, start
<1>14. SubSeq(bare, start, Len(bare)) = z \o d
  <2>1. z \in Seq(Chars)
    BY <1>1, <1>8
  <2>2. z \o d \in Seq(Chars)
    BY <1>4, <2>1
  <2>. QED  BY <1>8, <1>9, <1>13, <2>2, Second
<1>15. ValueOf(z \o d, base) = m
  BY <1>4, <1>8, ValueOfDigits DEF d
<1>. QED  BY <1>12, <1>14, <1>15 DEF start

LEMMA NumberReads ==
  ASSUME IInv, Octal \/ Pointer \/ Hex \/ Decimal
  PROVE  ReadNumber(printed) = IF here \in {"d", "i"} THEN int ELSE word
<1>1. PICK type : \E front, back \in Nat, zeros \in Seq({"0"}) :
        /\ IsTypeHere(type)
        /\ printed = NumberText(word, Base, type, front, zeros, back)
        /\ IsLaidOut(word, Base, Usual, precision, type, front, zeros, back)
  BY NumberPrinted
<1>2. PICK front \in Nat, back \in Nat, zeros \in Seq({"0"}) :
        /\ IsTypeHere(type)
        /\ printed = NumberText(word, Base, type, front, zeros, back)
  BY <1>1
<1>3. word \in Words
  <2>1. pc = "convert" /\ here \in Conversions
    BY NumericIs
  <2>. QED  BY <2>1, ArgIs
<1>  DEFINE bare  == Trimmed(printed)
            value == ValueOf(SubSeq(bare, StartOf(bare, Base, type), Len(bare)), Base)
<1>4. IsBare(bare, word, Base, type, zeros)
  BY <1>2, <1>3, BaseType, BareIs DEF IsBare
<1>5. ReadNumber(printed) = IF bare[1] = "-" THEN -value ELSE value
  BY <1>2 DEF ReadNumber, IsTypeHere, StartOf
<1>  HIDE DEF bare
<1>6. /\ bare[1] = "-" <=> SIGN \in type /\ Signed(word) < 0
      /\ value = Magnitude(word, type)
  BY <1>3, <1>4, BaseType, DigitsBehind
<1>  HIDE DEF value
<1>7. word \in Nat /\ word < Word /\ Word \in Nat /\ int \in Int
      /\ (int >= 0 => int = word)
  BY <1>3, WordAssumption DEF Words, int, Signed
<1>8. CASE SIGN \in type /\ int < 0
  <2>1. Magnitude(word, type) = -int
    BY <1>3, <1>8, MagnitudeType DEF int
  <2>2. here \in {"d", "i"}
    BY <1>2, <1>8 DEF IsTypeHere
  <2>. QED  BY <1>5, <1>6, <1>7, <1>8, <2>1, <2>2 DEF int
<1>9. CASE ~(SIGN \in type /\ int < 0)
  <2>1. Magnitude(word, type) = word
    BY <1>3, <1>9, MagnitudeType DEF int
  <2>2. here \in {"d", "i"} => int >= 0
    BY <1>2, <1>7, <1>9 DEF IsTypeHere
  <2>. QED  BY <1>5, <1>6, <1>7, <1>9, <2>1, <2>2 DEF int
<1>. QED  BY <1>8, <1>9

\* In calls that pass what their formats ask for, without asterisks, every
\* number that a conversion prints, whatever the flags, the width and the
\* precision, reads back as its argument, the most negative one included
\* (vsprintf.c:108-195).
THEOREM Reading ==
  ASSUME \A call \in Calls : CallFits(call) /\ ~HasStar(call.fmt)
  PROVE  Spec => ReadsBack
<1>1. Init => IInv
  BY InitStep DEF Init
<1>2. IInv /\ [Next]_vars => IInv'
  BY Step
<1>3. IInv /\ [Next]_vars =>
        [pc = "convert" /\ here \in Numeric =>
           ReadNumber(printed) = IF here \in {"d", "i"} THEN int ELSE word]_vars
  <2>1. ASSUME IInv, Next, pc = "convert", here \in Numeric
        PROVE  ReadNumber(printed) = IF here \in {"d", "i"} THEN int ELSE word
    BY <2>1, WhichStep, NumberReads
  <2>. QED  BY <2>1
<1>. QED  BY <1>1, <1>2, <1>3, PTL DEF Spec, ReadsBack

==============================================================================
