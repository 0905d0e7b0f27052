----------------------------- MODULE MCVsprintf -----------------------------
(***************************************************************************)
(* Vsprintf for TLC, with words of eight bits: every directive with flags, *)
(* one of some widths and precisions and every conversion, and formats     *)
(* with text and several directives.                                       *)
(***************************************************************************)
EXTENDS Vsprintf

MCWord == 256
MCChars == FlagChars \cup DigitSet \cup Letters
           \cup {"%", "*", ".", "h", "l", "L", "s", "o", "p", "i", "u", "n", "?", "[", "]", ":", "="}
Words == {0, 7, 100, 128, 255}
Strings == {<<>>, <<"a", " ", "c", "d", "e">>}

FlagStrings ==
  {<<>>, <<"-">>, <<"+">>, <<" ">>, <<"#">>, <<"0">>, <<"0", "-">>, <<"#", "0">>,
   <<"+", "0">>, <<" ", "0">>, <<" ", "-">>, <<"+", " ">>, <<"#", "-">>,
   <<"-", "0", "#", "+">>}
Widths == {<<>>, <<"1">>, <<"6">>, <<"1", "0">>}
Precisions == {<<>>, <<".">>, <<".", "2">>, <<".", "5">>}
Qualifiers == {<<>>, <<"l">>}

Num(w) == [word |-> w, char |-> "?", text |-> <<>>]
Chr(c) == [word |-> 65, char |-> c, text |-> <<>>]
Ptr(t) == [word |-> 50, char |-> "?", text |-> t]

ArgsOf(c) == CASE c = "s" -> {<<Ptr(s)>> : s \in Strings}
               [] c = "c" -> {<<Chr("A")>>}
               [] c = "n" -> {<<Num(60)>>}
               [] c = "%" -> {<<>>}
               [] OTHER   -> {<<Num(w)>> : w \in Words}

OneDirective ==
  UNION {{[fmt |-> <<"%">> \o f \o w \o p \o q \o <<c>>, args |-> a] :
            f \in FlagStrings, w \in Widths, p \in Precisions, q \in Qualifiers,
            a \in ArgsOf(c)} : c \in Conversions \cup {"%"}}

\* Several directives, text around them, and a percent sign at the end.
Several ==
  {[fmt |-> <<"[">> \o d \o <<"%", "c", "%", "n", ":", "%", "s", "]", "%">>,
    args |-> <<Num(w), Chr("A"), Num(60), Ptr(<<"a", "b">>)>>] :
      d \in {<<"%", "d">>, <<"%", "l", "x">>, <<"%", "0", "4", "u">>}, w \in Words}

\* Width or precision from an argument, negative ones included.
Stars ==
  {[fmt |-> <<"%">> \o d \o <<"d", "=", "%", "d">>, args |-> <<Num(n), Num(w), Num(1)>>] :
      d \in {<<"*">>, <<"-", "*">>, <<".", "*">>}, n \in {3, 253}, w \in {7, 255}}

\* Numbers that do not fit an int.
TooLarge ==
  {[fmt |-> <<"%">> \o f \o n \o <<"d", "%", "l", "u">>, args |-> <<Num(v), Num(w)>>] :
      f \in {<<>>, <<"0">>, <<"-">>, <<".">>}, n \in {<<"2", "0", "0">>, <<"3", "0", "0">>},
      v \in Words, w \in {7, 255}}

MCCalls == OneDirective \cup Several
StarCalls == Stars
MCAllCalls == MCCalls \cup TooLarge \cup StarCalls

\* The calls without asterisks are what the theorems of VsprintfProofs ask for.
ASSUME MCCallsFit == \A call \in MCCalls : CallFits(call) /\ ~HasStar(call.fmt)
ASSUME StarCallsHaveStars == \A call \in StarCalls : HasStar(call.fmt)
=============================================================================
