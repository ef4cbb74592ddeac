------------------------------ MODULE Numbers ------------------------------
(***************************************************************************)
(* Numbers and text in the kernel's C library: strtol and strtoul of       *)
(* kernel/libc/strtol.c, and the directives of neon_snprintf in format.c   *)
(* for integers, characters and strings.                                   *)
(*                                                                         *)
(* A text is a sequence of characters, and what follows its end is Nul.    *)
(* The widths of the integer types are scaled down: LongMax stands for     *)
(* LONG_MAX; long long, size_t, ptrdiff_t and intmax_t are as wide, as they *)
(* are on both boards.  Floating-point directives and `%p' are left out.   *)
(***************************************************************************)
EXTENDS Integers, Sequences, SequencesExt

CONSTANTS LongMax, IntMax, ShortMax, CharMax, \* LONG_MAX, INT_MAX, SHRT_MAX, SCHAR_MAX
          NumberTexts, Bases,       \* what strtol is called with
          Directives, FormatValues, BufferSizes

ASSUME NumbersConstants ==
    /\ {LongMax, IntMax, ShortMax, CharMax} \subseteq Nat
    /\ BufferSizes \subseteq Nat

VARIABLE conversion \* the call of a program, and its answer
numberVars == <<conversion>>

Nul == "nul"
ULongMax == 2 * LongMax + 1
Letter(text, at) == IF at <= Len(text) THEN text[at] ELSE Nul
Maximum(a, b) == IF a > b THEN a ELSE b
Minimum(a, b) == IF a < b THEN a ELSE b

\* strto_digit_value; -1 is no digit.
DecimalFigures == <<"0", "1", "2", "3", "4", "5", "6", "7", "8", "9">>
SmallLetters == <<"a", "b", "c", "d", "e", "f", "g", "h", "i", "j", "k", "l", "m",
                  "n", "o", "p", "q", "r", "s", "t", "u", "v", "w", "x", "y", "z">>
BigLetters == <<"A", "B", "C", "D", "E", "F", "G", "H", "I", "J", "K", "L", "M",
                "N", "O", "P", "Q", "R", "S", "T", "U", "V", "W", "X", "Y", "Z">>
PlacesIn(row) == [c \in Range(row) |-> (CHOOSE i \in DOMAIN row : row[i] = c) - 1]
FigurePlace == PlacesIn(DecimalFigures)
SmallPlace == PlacesIn(SmallLetters)
BigPlace == PlacesIn(BigLetters)
DigitValue(c) ==
    CASE c \in DOMAIN FigurePlace -> FigurePlace[c]
      [] c \in DOMAIN SmallPlace -> SmallPlace[c] + 10
      [] c \in DOMAIN BigPlace -> BigPlace[c] + 10
      [] OTHER -> -1

-----------------------------------------------------------------------------
(* strtol and strtoul. *)
RECURSIVE SkipSpace(_, _)
SkipSpace(text, at) == IF Letter(text, at) = " " THEN SkipSpace(text, at + 1) ELSE at
HasHexPrefix(text, at) ==
    /\ Letter(text, at) = "0"
    /\ Letter(text, at + 1) \in {"x", "X"}
    /\ DigitValue(Letter(text, at + 2)) \in 0..15

\* strto_prepare, for a base that it accepts.
ValidBase(base) == base = 0 \/ base \in 2..36
Prepare(text, base) ==
    LET sign == SkipSpace(text, 1)
        start == IF Letter(text, sign) \in {"-", "+"} THEN sign + 1 ELSE sign
        hex == base \in {0, 16} /\ HasHexPrefix(text, start)
    IN [negative |-> Letter(text, sign) = "-",
        start |-> IF hex THEN start + 2 ELSE start,
        base |-> CASE base # 0 -> base
                   [] base = 0 /\ hex -> 16
                   [] base = 0 /\ ~hex /\ Letter(text, start) = "0" -> 8
                   [] OTHER -> 10]

\* Mutant: the cutoff forgets the last digit.
RECURSIVE AccumulateWraps(_, _, _, _, _, _)
AccumulateWraps(text, at, base, limit, value, overflow) ==
    LET digit == DigitValue(Letter(text, at))
        full == value > limit \div base
    IN IF digit < 0 \/ digit >= base
       THEN [value |-> value, at |-> at, overflow |-> overflow]
       ELSE AccumulateWraps(text, at + 1, base, limit,
                            IF full THEN value ELSE value * base + digit, overflow \/ full)

\* The loop over the digits: once the value cannot take a digit, it is left.
RECURSIVE Accumulate(_, _, _, _, _, _)
Accumulate(text, at, base, limit, value, overflow) ==
    LET digit == DigitValue(Letter(text, at))
        full == \/ value > limit \div base
                \/ value = limit \div base /\ digit > limit % base
    IN IF digit < 0 \/ digit >= base
       THEN [value |-> value, at |-> at, overflow |-> overflow]
       ELSE Accumulate(text, at + 1, base, limit,
                       IF full THEN value ELSE value * base + digit, overflow \/ full)

Parsed(value, used, errno) == [value |-> value, used |-> used, errno |-> errno]
Converted(p, n) ==
    LET none == [negative |-> p.negative, overflow |-> FALSE,
                 value |-> 0, used |-> 0, errno |-> "none"]
    IN IF n.at = p.start THEN none
       ELSE [none EXCEPT !.value = n.value, !.used = n.at - 1, !.overflow = n.overflow,
                         !.errno = IF n.overflow THEN "ERANGE" ELSE "none"]
ConvertPrepared(text, p, limit) ==
    Converted(p, Accumulate(text, p.start, p.base, limit[p.negative], 0, FALSE))
Invalid == [negative |-> FALSE, overflow |-> FALSE, value |-> 0, used |-> 0, errno |-> "EINVAL"]
ConvertText(text, base, limit) ==
    IF ~ValidBase(base) THEN Invalid ELSE ConvertPrepared(text, Prepare(text, base), limit)

Long(n) ==
    Parsed(IF n.overflow THEN (IF n.negative THEN -LongMax - 1 ELSE LongMax)
           ELSE IF n.negative THEN -n.value ELSE n.value, n.used, n.errno)
UnsignedLong(n) ==
    Parsed(IF n.overflow THEN ULongMax
           ELSE IF n.negative THEN (ULongMax + 1 - n.value) % (ULongMax + 1) ELSE n.value,
           n.used, n.errno)
Strtol(text, base) ==
    Long(ConvertText(text, base,
                     [negative \in BOOLEAN |-> IF negative THEN LongMax + 1 ELSE LongMax]))
Strtoul(text, base) == UnsignedLong(ConvertText(text, base, [negative \in BOOLEAN |-> ULongMax]))

-----------------------------------------------------------------------------
(* The directives of a format. *)
FlagOf == [c \in {"-", "+", " ", "#", "0"} |->
             CASE c = "-" -> "left" [] c = "+" -> "plus" [] c = " " -> "space"
               [] c = "#" -> "alternate" [] c = "0" -> "zero"]
NoDirective == [left |-> FALSE, plus |-> FALSE, space |-> FALSE, alternate |-> FALSE,
                zero |-> FALSE, width |-> 0, precision |-> -1, length |-> "none", at |-> 1]

RECURSIVE ReadFlags(_, _), ReadDigits(_, _, _)
ReadFlags(text, d) ==
    IF Letter(text, d.at) \in DOMAIN FlagOf
    THEN ReadFlags(text, [d EXCEPT ![FlagOf[text[d.at]]] = TRUE, !.at = @ + 1])
    ELSE d
ReadDigits(text, d, field) ==
    LET digit == DigitValue(Letter(text, d.at)) IN
    IF digit \in 0..9
    THEN ReadDigits(text, [d EXCEPT ![field] = @ * 10 + digit, !.at = @ + 1], field)
    ELSE d

\* A `*' takes an argument; a negative width aligns to the left, a negative
\* precision is none.
ReadWidth(text, d, args) ==
    IF Letter(text, d.at) # "*" THEN [d |-> ReadDigits(text, d, "width"), args |-> args]
    ELSE [d |-> [d EXCEPT !.at = @ + 1, !.left = @ \/ args[1] < 0,
                          !.width = IF args[1] < 0 THEN -args[1] ELSE args[1]],
          args |-> Tail(args)]
ReadPrecision(text, d, args) ==
    LET star == [d EXCEPT !.at = @ + 2, !.precision = Maximum(args[1], -1)]
        digits == ReadDigits(text, [d EXCEPT !.at = @ + 1, !.precision = 0], "precision")
    IN IF Letter(text, d.at) # "." THEN [d |-> d, args |-> args]
       ELSE IF Letter(text, d.at + 1) = "*" THEN [d |-> star, args |-> Tail(args)]
       ELSE [d |-> digits, args |-> args]
ReadLength(text, d) ==
    LET c == Letter(text, d.at)
        twice == c = Letter(text, d.at + 1)
    IN CASE c = "h" /\ twice -> [d EXCEPT !.length = "hh", !.at = @ + 2]
         [] c = "l" /\ twice -> [d EXCEPT !.length = "ll", !.at = @ + 2]
         [] (c \in {"h", "l"} /\ ~twice) \/ c \in {"z", "t", "j"} ->
                [d EXCEPT !.length = c, !.at = @ + 1]
         [] c = "L" -> [d EXCEPT !.length = "l", !.at = @ + 1]
         [] OTHER -> d

\* The argument as a signed or an unsigned integer of its type.
MaxOf(length) ==
    CASE length = "hh" -> CharMax
      [] length = "h" -> ShortMax
      [] length = "none" -> IntMax
      [] OTHER -> LongMax
AsUnsigned(v, length) == v % (2 * MaxOf(length) + 2)
AsSigned(v, length) ==
    LET u == AsUnsigned(v, length) IN IF u > MaxOf(length) THEN u - 2 * MaxOf(length) - 2 ELSE u

\* The digit set of the specifier, and format_unsigned_digits.
DigitSet(specifier) ==
    DecimalFigures \o SubSeq(IF specifier = "X" THEN BigLetters ELSE SmallLetters, 1, 6)
RECURSIVE UnsignedDigits(_, _, _)
UnsignedDigits(value, base, digits) ==
    IF value < base THEN <<digits[value + 1]>>
    ELSE Append(UnsignedDigits(value \div base, base, digits), digits[(value % base) + 1])

Repeat(c, n) == [i \in 1..Maximum(n, 0) |-> c]
IsSigned(specifier) == specifier \in {"d", "i"}
IsHex(specifier) == specifier \in {"x", "X"}
BaseOf(specifier) == CASE specifier = "o" -> 8 [] IsHex(specifier) -> 16 [] OTHER -> 10

\* The field of an integer, and the length of its sign and prefix.
IntegerField(d, specifier, v) ==
    LET signed == AsSigned(v, d.length)
        negative == IsSigned(specifier) /\ signed < 0
        value == IF ~IsSigned(specifier) THEN AsUnsigned(v, d.length)
                 ELSE IF negative THEN -signed ELSE signed
        digits == IF d.precision = 0 /\ value = 0 THEN <<>>
                  ELSE UnsignedDigits(value, BaseOf(specifier), DigitSet(specifier))
        sign == CASE negative -> <<"-">>
                  [] IsSigned(specifier) /\ ~negative /\ d.plus -> <<"+">>
                  [] IsSigned(specifier) /\ ~negative /\ ~d.plus /\ d.space -> <<" ">>
                  [] OTHER -> <<>>
        alternate == CASE d.alternate /\ value # 0 /\ IsHex(specifier) -> <<"0", specifier>>
                       [] /\ d.alternate /\ value # 0 /\ specifier = "o"
                          /\ d.precision <= Len(digits) -> <<"0">>
                       [] OTHER -> <<>>
    IN [text |-> sign \o alternate \o Repeat("0", d.precision - Len(digits)) \o digits,
        prefix |-> Len(sign) + Len(alternate)]

\* format_emit_field.
EmitField(d, text, zeros, prefix) ==
    LET padding == d.width - Len(text) IN
    CASE d.left -> text \o Repeat(" ", padding)
      [] ~d.left /\ zeros -> SubSeq(text, 1, prefix) \o Repeat("0", padding)
                             \o SubSeq(text, prefix + 1, Len(text))
      [] OTHER -> Repeat(" ", padding) \o text

FormatField(d, specifier, arg) ==
    LET field == IntegerField(d, specifier, arg) IN
    CASE specifier = "c" -> EmitField(d, <<arg>>, FALSE, 0)
      [] specifier = "s" ->
            EmitField(d, IF d.precision >= 0 THEN SubSeq(arg, 1, Minimum(Len(arg), d.precision))
                         ELSE arg, FALSE, 0)
      [] OTHER -> EmitField(d, field.text, d.zero /\ ~d.left /\ d.precision < 0, field.prefix)

\* One directive, without its `%'.
FormatDirective(text, args) ==
    LET w == ReadWidth(text, ReadFlags(text, NoDirective), args)
        p == ReadPrecision(text, w.d, w.args)
        d == ReadLength(text, p.d)
        specifier == Letter(text, d.at)
    IN CASE specifier = Nul -> <<"%">>
         [] specifier \in {"d", "i", "u", "o", "x", "X", "c", "s"} -> FormatField(d, specifier, p.args[1])
         [] OTHER -> <<"%", specifier>>

\* format_put: what does not fit is counted and not stored; the text ends.
Stored(text, size) ==
    IF size = 0 THEN <<>> ELSE Append(SubSeq(text, 1, Minimum(Len(text), size - 1)), Nul)
Printed(out, size) == [written |-> Len(out), buffer |-> Stored(out, size)]
Snprintf(text, args, size) == Printed(FormatDirective(text, args), size)

-----------------------------------------------------------------------------
(* The calls.  A directive is asked for by what it means: its flags, its   *)
(* width (0 for none), its precision (-1 for none), whether both are       *)
(* arguments, the length and the specifier.                                *)
RECURSIVE FlagText(_)
FlagText(flags) ==
    IF flags = {} THEN <<>> ELSE LET c == CHOOSE c \in flags : TRUE IN <<c>> \o FlagText(flags \ {c})
DirectiveText(d) ==
    LET width == CASE d.star -> <<"*">> [] ~d.star /\ d.width > 0 -> UnsignedDigits(d.width, 10, DecimalFigures)
                   [] OTHER -> <<>>
        precision == CASE d.star -> <<".", "*">>
                       [] ~d.star /\ d.precision >= 0 -> <<".">> \o UnsignedDigits(d.precision, 10, DecimalFigures)
                       [] OTHER -> <<>>
    IN FlagText(d.flags) \o width \o precision \o d.length \o <<d.specifier>>
DirectiveArguments(d, v) == (IF d.star THEN <<d.width, d.precision>> ELSE <<>>) \o <<v>>

Asked(call, text, base) ==
    [call |-> call, text |-> text, base |-> base, args |-> <<>>, size |-> 0,
     directive |-> <<>>, answer |-> <<>>]
NumbersInit ==
    \/ \E call \in {"strtol", "strtoul"}, text \in NumberTexts, base \in Bases :
         conversion = Asked(call, text, base)
    \/ \E d \in Directives, size \in BufferSizes : \E v \in FormatValues[d.specifier] :
         conversion = [Asked("snprintf", DirectiveText(d), 0) EXCEPT
                         !.args = DirectiveArguments(d, v), !.size = size, !.directive = <<d, v>>]
NumbersRest == conversion = Asked("none", <<>>, 0)

CallAnswer(call, value) ==
    /\ conversion.call = call
    /\ conversion.answer = <<>>
    /\ conversion' = [conversion EXCEPT !.answer = <<value>>]
CallStrtol == CallAnswer("strtol", Strtol(conversion.text, conversion.base))
CallStrtoul == CallAnswer("strtoul", Strtoul(conversion.text, conversion.base))
CallSnprintf == CallAnswer("snprintf", Snprintf(conversion.text, conversion.args, conversion.size))
NumbersNext == CallStrtol \/ CallStrtoul \/ CallSnprintf

-----------------------------------------------------------------------------
(* What the C standard says of strtol, on the whole text at once: the      *)
(* longest number after the spaces and the sign, its exact value, and what *)
(* becomes of a value that the type cannot hold.  A digit is what the      *)
(* standard counts from 0 to 35, a letter in either case.                  *)
Answered1 == conversion.answer[1]
DigitNames ==
    <<{"0"}, {"1"}, {"2"}, {"3"}, {"4"}, {"5"}, {"6"}, {"7"}, {"8"}, {"9"}, {"a", "A"}, {"b", "B"},
      {"c", "C"}, {"d", "D"}, {"e", "E"}, {"f", "F"}, {"g", "G"}, {"h", "H"}, {"i", "I"}, {"j", "J"},
      {"k", "K"}, {"l", "L"}, {"m", "M"}, {"n", "N"}, {"o", "O"}, {"p", "P"}, {"q", "Q"}, {"r", "R"},
      {"s", "S"}, {"t", "T"}, {"u", "U"}, {"v", "V"}, {"w", "W"}, {"x", "X"}, {"y", "Y"}, {"z", "Z"}>>
Counted == [c \in UNION Range(DigitNames) |-> (CHOOSE i \in DOMAIN DigitNames : c \in DigitNames[i]) - 1]
IsDigitOf(c, base) == c \in DOMAIN Counted /\ Counted[c] < base
NumberIn(text, from, base) ==
    LET last == CHOOSE n \in from - 1 .. Len(text) :
                  /\ \A i \in from .. n : IsDigitOf(text[i], base)
                  /\ ~IsDigitOf(Letter(text, n + 1), base)
    IN [at |-> last,
        value |-> FoldLeft(LAMBDA v, c : v * base + Counted[c], 0, SubSeq(text, from, last))]
Prefixed(text, at) ==
    /\ at + 2 <= Len(text)
    /\ text[at] = "0" /\ text[at + 1] \in {"x", "X"} /\ IsDigitOf(text[at + 2], 16)
NumberOfText(text, base) ==
    LET first == CHOOSE i \in 1 .. Len(text) + 1 :
                   Letter(text, i) # " " /\ \A j \in 1 .. i - 1 : text[j] = " "
        signs == Letter(text, first) \in {"+", "-"}
        start == IF signs THEN first + 1 ELSE first
        hex == base \in {0, 16} /\ Prefixed(text, start)
        radix == IF base # 0 THEN base
                 ELSE IF hex THEN 16 ELSE IF Letter(text, start) = "0" THEN 8 ELSE 10
        from == IF hex THEN start + 2 ELSE start
        n == NumberIn(text, from, radix)
    IN [found |-> n.at >= from, at |-> n.at,
        value |-> IF Letter(text, first) = "-" THEN -n.value ELSE n.value]
StandardOf(call, n) ==
    LET low == -LongMax - 1
        big == IF call = "strtol" THEN n.value \notin low .. LongMax
               ELSE n.value \notin -ULongMax .. ULongMax
        clamped == IF call = "strtoul" THEN ULongMax ELSE IF n.value < 0 THEN low ELSE LongMax
        exact == IF call = "strtoul" THEN n.value % (ULongMax + 1) ELSE n.value
    IN IF ~n.found THEN Parsed(0, 0, "none")
       ELSE Parsed(IF big THEN clamped ELSE exact, n.at, IF big THEN "ERANGE" ELSE "none")
Standard(call, text, base) ==
    IF ~ValidBase(base) THEN Parsed(0, 0, "EINVAL")
    ELSE StandardOf(call, NumberOfText(text, base))

(* strtol and strtoul stop at the right character with the right value,    *)
(* and a value out of range is the nearest bound with ERANGE: the cutoff   *)
(* loses nothing and lets nothing wrap (strtol.c).                         *)
NumbersRead ==
    conversion.call \in {"strtol", "strtoul"} /\ conversion.answer # <<>> =>
        Answered1 = Standard(conversion.call, conversion.text, conversion.base)

(* What the C standard says of a directive: the value in its type, at      *)
(* least as many digits as the precision, the sign or the prefix before    *)
(* them, and padding up to the width.                                      *)
MaxOfType(length) ==
    CASE length = <<"h", "h">> -> CharMax
      [] length = <<"h">> -> ShortMax
      [] length = <<>> -> IntMax
      [] OTHER -> LongMax
ValueOf(d, v) ==
    LET size == 2 * MaxOfType(d.length) + 2 IN
    CHOOSE n \in (IF d.specifier \in {"d", "i"} THEN -(size \div 2) .. (size \div 2) - 1 ELSE 0 .. size - 1) :
        (n - v) % size = 0
FiguresOf(specifier) ==
    <<"0", "1", "2", "3", "4", "5", "6", "7", "8", "9">>
    \o (IF specifier = "X" THEN <<"A", "B", "C", "D", "E", "F">> ELSE <<"a", "b", "c", "d", "e", "f">>)
Numeral(n, base, digits) ==
    LET length == CHOOSE k \in 1 .. 31 : n < base ^ k /\ (k = 1 \/ n >= base ^ (k - 1)) IN
    [i \in 1 .. length |-> digits[((n \div base ^ (length - i)) % base) + 1]]
ExpectedBody(d, v) ==
    LET n == ValueOf(d, v)
        plain == Numeral(IF n < 0 THEN -n ELSE n,
                         CASE d.specifier = "o" -> 8 [] d.specifier \in {"x", "X"} -> 16 [] OTHER -> 10,
                         FiguresOf(d.specifier))
        digits == IF n = 0 /\ d.precision = 0 THEN <<>> ELSE plain
        longer == Repeat("0", d.precision - Len(digits)) \o digits
        octal == IF "#" \in d.flags /\ d.specifier = "o" /\ (longer = <<>> \/ longer[1] # "0")
                 THEN <<"0">> \o longer ELSE longer
        sign == IF d.specifier \notin {"d", "i"} THEN <<>>
                ELSE IF n < 0 THEN <<"-">>
                ELSE IF "+" \in d.flags THEN <<"+">> ELSE IF " " \in d.flags THEN <<" ">> ELSE <<>>
        hex == IF "#" \in d.flags /\ d.specifier \in {"x", "X"} /\ n # 0 THEN <<"0", d.specifier>>
               ELSE <<>>
    IN CASE d.specifier = "c" -> [before |-> <<>>, digits |-> <<v>>]
         [] OTHER -> [before |-> sign \o hex, digits |-> octal]
Padded(d, body) ==
    LET width == IF d.width < 0 THEN -d.width ELSE d.width
        missing == width - Len(body.before) - Len(body.digits)
        left == "-" \in d.flags \/ d.width < 0
        zeros == "0" \in d.flags /\ ~left /\ d.precision < 0 /\ d.specifier \notin {"c", "s"}
    IN IF left THEN body.before \o body.digits \o Repeat(" ", missing)
       ELSE IF zeros THEN body.before \o Repeat("0", missing) \o body.digits
       ELSE Repeat(" ", missing) \o body.before \o body.digits
Shortened(d, v) ==
    IF d.precision >= 0 THEN [i \in 1 .. Minimum(d.precision, Len(v)) |-> v[i]] ELSE v
\* The one directive for which the code departs from the standard: `%#.0o'
\* of 0 prints no digit, where the standard asks for the digit 0.
NoOctalZero(d, v) ==
    /\ d.specifier = "o" /\ "#" \in d.flags
    /\ d.precision = 0 /\ ValueOf(d, v) = 0
Expected(d, v) ==
    Padded(d, CASE d.specifier = "s" -> [before |-> <<>>, digits |-> Shortened(d, v)]
                [] NoOctalZero(d, v) -> [before |-> <<>>, digits |-> <<>>]
                [] OTHER -> ExpectedBody(d, v))

(* snprintf writes what the directive means, returns its whole length, and *)
(* leaves in the buffer as much as fits, ended (format.c).                 *)
Holds(answer, text) ==
    /\ answer.written = Len(text)
    /\ Len(answer.buffer) = Minimum(conversion.size, Len(text) + 1)
    /\ \A i \in DOMAIN answer.buffer :
         answer.buffer[i] = IF i = Len(answer.buffer) THEN Nul ELSE text[i]
TextFormatted ==
    conversion.call = "snprintf" /\ conversion.answer # <<>> =>
        Holds(Answered1, Expected(conversion.directive[1], conversion.directive[2]))

(* What is read from a text and what is written to one are what the C      *)
(* standard asks for, but for NoOctalZero (strtol.c, format.c).            *)
NumbersTrue == NumbersRead /\ TextFormatted
=============================================================================
