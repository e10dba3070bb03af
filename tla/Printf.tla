------------------------------- MODULE Printf -------------------------------
(***************************************************************************)
(* printf of src/common/printf.cc with the conversions of                  *)
(* src/common/string.cc it uses.  A behaviour is one call; its format and  *)
(* its arguments are chosen item by item, each item's argument put behind  *)
(* those the caller has passed already and taken, by va_arg, from the      *)
(* front.  str is NULL, as in the only call of vsprintf.                   *)
(*                                                                         *)
(* An int is at least -Half and less than Half.  A character is a string   *)
(* of one character.                                                       *)
(***************************************************************************)
EXTENDS Integers, Sequences, SequencesExt

CONSTANTS
    Half,           \* 2^31: half as many as there are ints
    BufLen,         \* length of buf, 512 in the code
    Ints,           \* the ints passed to %d, %x and %p
    Widths,         \* what stands between "%0" and its letter
    Texts,          \* the strings passed to %s
    MaxItems        \* bound on the items of a format

is_format_letter(c) == c \in {"c", "d", "i", "e", "E", "f", "g", "G", "o", "s", "u", "x", "X", "p", "n"}

VARIABLES
    buf, size, size_override, \* the locals that outlive an item
    args,           \* the arguments not taken yet
    out,            \* history: what the last item sent to terminal_putchar
    item,           \* history: that item, with the argument passed for it
    longest,        \* history: the most digits an item has printed
    items           \* how many items there have been

printfVars == <<buf, size, size_override, args, out, item, longest, items>>

(***************************************************************************)
(* string.cc.                                                              *)
(***************************************************************************)
NUL == ""
Figures == <<"0", "1", "2", "3", "4", "5", "6", "7", "8", "9", "a", "b", "c", "d", "e", "f">>

\* s and its 0 written to the front of b.
Stored(b, s) == [i \in DOMAIN b |-> IF i < Len(s) THEN s[i + 1] ELSE IF i = Len(s) THEN NUL ELSE b[i]]

\* The digits in the order the loop of itoa finds them, the last one first.
Produced(n, base) ==
    LET from[m \in Nat] == <<Figures[(m % base) + 1]>> \o IF m < base THEN <<>> ELSE from[m \div base]
    IN from[n]
\* Mutant: the loop that turns the digits round is missing.
itoa_Backwards(b, n, base) == Stored(b, Produced(n, base))
itoa(b, n, base) == Stored(b, Reverse(Produced(n, base)))

strlen(b) == CHOOSE n \in DOMAIN b : b[n] = NUL /\ \A i \in 0 .. n - 1 : b[i] # NUL

\* (Also '\v', which TLA+ has no escape for.)
isspace(c) == c \in {" ", "\t", "\n", "\f", "\r"}
IsFigure(c) == c \in {Figures[i] : i \in 1 .. 10}
\* atoi: spaces, a sign, and the digits up to the first other character.
atoi(s) ==
    LET t == SelectInSeq(s, LAMBDA c : ~isspace(c))
        word == IF t = 0 THEN <<>> ELSE SubSeq(s, t, Len(s))
        signed == word # <<>> /\ word[1] \in {"-", "+"}
        rest == IF signed THEN Tail(word) ELSE word
        end == SelectInSeq(rest, LAMBDA c : ~IsFigure(c))
        figures == IF end = 0 THEN rest ELSE SubSeq(rest, 1, end - 1)
        n == FoldLeft(LAMBDA sum, c : 10 * sum + IndexFirstSubSeq(<<c>>, Figures) - 1, 0, figures)
    IN IF signed /\ word[1] = "-" THEN -n ELSE n

\* The digits of the largest unsigned int.
MostDigits == Len(Produced(2 * Half - 1, 10))

\* buf has room for every int and for every width that is asked for.
ASSUME PrintfAssumption ==
    /\ {Half, BufLen, MaxItems} \subseteq Nat \ {0}
    /\ Ints \subseteq -Half .. Half - 1
    /\ MostDigits < BufLen
    /\ \A width \in Widths :
          atoi(width) \in 0 .. BufLen - 1 /\ \A i \in DOMAIN width : ~is_format_letter(width[i])

(***************************************************************************)
(* vsprintf_helper.                                                        *)
(***************************************************************************)
\* Mutant: the digits are moved, and nothing is written before them.
ZeroFill_NoZeros(b, len, field) ==
    [i \in DOMAIN b |-> IF i \in field - len .. field - 1 THEN b[i - (field - len)] ELSE b[i]]
\* The digits of buf moved to the right end of the field, with zeros before.
\* What stands behind the field stays.
ZeroFill(b, len, field) ==
    [i \in DOMAIN b |-> IF i >= field THEN b[i] ELSE IF i < field - len THEN "0" ELSE b[i - (field - len)]]

Unsigned(n) == n % (2 * Half)

Magnitude(c, ival) == Unsigned(IF c = "d" /\ ival < 0 THEN -ival ELSE ival)
Field(len) == IF size_override THEN size ELSE len

\* An item with an argument: the caller passes one more, and the item takes
\* the next one, or none.
Item(letter, value, takes) ==
    /\ items < MaxItems
    /\ items' = items + 1
    /\ item' = [letter |-> letter, arg |-> value]
    /\ args' = IF takes THEN Tail(Append(args, value)) ELSE Append(args, value)
NextArg(value) == Head(Append(args, value))

IntArgs == {[int |-> TRUE, value |-> n] : n \in Ints}
TextArgs == {[int |-> FALSE, value |-> s] : s \in Texts}

\* %d, %x and %p.  An argument that is not of the letter's type is undefined.
Number ==
    \E c \in {"d", "x", "p"}, arg \in IntArgs :
        LET ival == NextArg(arg).value
            written == itoa(buf, Magnitude(c, ival), IF c = "d" THEN 10 ELSE 16)
            len == strlen(written)
            field == Field(len)
            filled == IF len < field THEN ZeroFill(written, len, field) ELSE written
            text == [i \in 1 .. strlen(filled) |-> filled[i - 1]]
        IN  /\ NextArg(arg).int
            /\ Item(c, arg, TRUE)
            /\ buf' = filled
            /\ size' = field
            /\ out' = (IF c = "d" /\ ival < 0 THEN <<"-">> ELSE <<>>) \o text
            /\ longest' = IF Len(text) > longest THEN Len(text) ELSE longest
            /\ UNCHANGED size_override

\* %0: the width up to the letter, and the letter, are skipped; break.
Width ==
    \E width \in Widths, arg \in IntArgs :
        /\ Item("0", arg, FALSE)
        /\ size_override' = TRUE
        /\ size' = atoi(width)
        /\ out' = <<>>
        /\ UNCHANGED <<buf, longest>>

\* %s and %c, a string of one character.
Text ==
    \E arg \in TextArgs :
        /\ ~NextArg(arg).int
        /\ Item("s", arg, TRUE)
        /\ out' = NextArg(arg).value
        /\ UNCHANGED <<buf, size, size_override, longest>>

\* A character of the format, or an unknown letter, which prints nothing.
Plain ==
    \E text \in {<<>>, <<"X">>} :
        /\ items < MaxItems
        /\ items' = items + 1
        /\ item' = [letter |-> "", arg |-> [int |-> FALSE, value |-> text]]
        /\ out' = text
        /\ UNCHANGED <<buf, size, size_override, args, longest>>

\* A call: nothing of the arguments is taken yet, nothing is printed.
printf == args = <<>> /\ out = <<>>

PrintfInit ==
    /\ printf
    /\ buf = [i \in 0 .. BufLen - 1 |-> NUL]
    /\ size = 8
    /\ size_override = FALSE
    /\ item = [letter |-> "", arg |-> [int |-> FALSE, value |-> <<>>]]
    /\ longest = 0
    /\ items = 0

PrintfNext == Number \/ Width \/ Text \/ Plain
PrintfSpec == PrintfInit /\ [][PrintfNext]_printfVars

(***************************************************************************)
(* Properties.  What a number means is said here by its digits' places,    *)
(* not by itoa.                                                            *)
(***************************************************************************)
FigureValue(c) == (CHOOSE i \in DOMAIN Figures : Figures[i] = c) - 1
ReadAs(digits, base) ==
    LET upto[i \in 0 .. Len(digits)] == IF i = 0 THEN 0 ELSE base * upto[i - 1] + FigureValue(digits[i])
    IN upto[Len(digits)]
Base(letter) == IF letter = "d" THEN 10 ELSE 16

\* text denotes n as the letter asks for, in a field of at least width digits.
Denotes(text, letter, n, width) ==
    LET negative == letter = "d" /\ n < 0
        digits == IF negative THEN Tail(text) ELSE text
    IN  /\ negative => text[1] = "-"
        /\ Len(digits) >= width
        /\ Len(digits) > (IF width > 1 THEN width ELSE 1) => digits[1] # "0"
        /\ ReadAs(digits, Base(letter)) = IF negative THEN -n ELSE Unsigned(n)

IsNumber(letter) == letter \in {"d", "x", "p"}

\* buf is long enough: no number gets longer than the widest width or the
\* longest int, however the items of a call follow each other, and what is in
\* buf behind the longest of the call is 0 (printf.cc:21,28,69-77).
WithinLongest(n) == n <= MostDigits \/ \E width \in Widths : n <= atoi(width)
BufEnds ==
    /\ buf \in [0 .. BufLen - 1 -> {NUL} \union {Figures[i] : i \in DOMAIN Figures}]
    /\ size_override \in BOOLEAN /\ size \in Int /\ items \in 0 .. MaxItems
    /\ longest \in Nat /\ WithinLongest(longest)
    /\ \A i \in longest .. BufLen - 1 : buf[i] = NUL

\* In a call without a width every item prints the argument that was passed
\* for it and nothing of an earlier one, the least int included
\* (printf.cc:52-97, string.cc:48-67).
PlainCall ==
    /\ BufEnds
    /\ ~size_override =>
          /\ IsNumber(item.letter) => Denotes(out, item.letter, item.arg.value, 0)
          /\ ~IsNumber(item.letter) => out = item.arg.value

\* What a number prints begins with the argument taken for it, in a field of the
\* width in force: its own length, or the width that was read last.  Something
\* follows only when an earlier number was longer than that width: the rest of
\* its digits, which are still in buf behind the field (printf.cc:21,25-28,66-77).
NumberFirst ==
    [][\A n \in Ints :
        IsNumber(item'.letter) /\ NextArg(item'.arg).value = n =>
            \E field \in 1 .. Len(out') :
                /\ Denotes(SubSeq(out', 1, field), item'.letter, n, IF size_override THEN size ELSE 0)
                /\ field < Len(out') => size_override /\ size < longest]_printfVars

\* printf.cc:68 and 111, "If use did not specify width, then just use len =
\* width": a letter alone prints the argument taken in its own length, whatever
\* the items before it asked for.
LenIsWidth ==
    [][\A n \in Ints :
        IsNumber(item'.letter) /\ NextArg(item'.arg).value = n
            => Denotes(out', item'.letter, n, 0)]_printfVars

\* printf.cc:36, "Handle calls like printf("%08x", 0xaa);": a number with a
\* width is printed, at that width.
WidthAsCommented == item.letter = "0" => Len(out) >= size
=============================================================================
