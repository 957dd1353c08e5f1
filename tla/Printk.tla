------------------------------- MODULE Printk -------------------------------
(***************************************************************************)
(* vsprintf of kernel/printk.c, with itoa and skip_atoi: how color_printk  *)
(* turns a format and its arguments into the text it draws.                *)
(*                                                                         *)
(* A text is a sequence of characters, a character a string of length one. *)
(* An argument is the 64-bit register or stack slot va_arg reads; LongMod  *)
(* and IntMod are the moduli of unsigned long and unsigned int.            *)
(***************************************************************************)
EXTENDS Integers, Sequences, FiniteSets, SequencesExt

CONSTANTS
  IntMod, LongMod,  \* 2^32 and 2^64 in the code
  PtrDigits,        \* 2 * sizeof(void *)
  StringAt,         \* the texts in memory: a function from their addresses
  Calls             \* the calls: [fmt, args, meant]; meant is defined below

VARIABLES
  call,         \* the call that runs: an element of Calls
  pc,           \* the part of the loop that runs, "done", or "fault"
  fmt,          \* the place in call.fmt
  arg,          \* number of arguments fetched from args
  str,          \* buf up to str
  flags, field_width, precision, qualifier,
  stored        \* what %n stored, in order

formatVars == <<call, pc, fmt, arg, str, flags, field_width, precision, qualifier, stored>>

NUL == "NUL"
BLANK == " "
NONE == -1

Digits == <<"0", "1", "2", "3", "4", "5", "6", "7", "8", "9",
            "A", "B", "C", "D", "E", "F">>
Lower == <<"0", "1", "2", "3", "4", "5", "6", "7", "8", "9",
           "a", "b", "c", "d", "e", "f">>
is_digit(c) == \E v \in 0 .. 9 : c = Digits[v + 1]
DigitValue(c) == CHOOSE v \in 0 .. 9 : c = Digits[v + 1]

FlagOf(c) ==
  CASE c = "-" -> {"LEFT"} [] c = "+" -> {"PLUS"} [] c = BLANK -> {"SPACE"}
    [] c = "#" -> {"SPECIAL"} [] c = "0" -> {"ZEROPAD"} [] OTHER -> {}

Repeat(c, n) == [k \in 1 .. n |-> c]
Signed(n, mod) == IF n >= mod \div 2 THEN n - mod ELSE n

-----------------------------------------------------------------------------
(* itoa: num is a long, so an unsigned long from LongMod / 2 on is negative *)

\* What "while (size-- > 0)" leaves in size.
Spent(size) == (IF size > 0 THEN 0 ELSE size) - 1

\* tmp, last digit first in the code: do_div is unsigned.
DigitsOf(num, base, digits) ==
  LET tmp[n \in Nat] ==
        IF n < base THEN <<digits[n + 1]>>
        ELSE Append(tmp[n \div base], digits[(n % base) + 1])
  IN tmp[num]

SignOf(num, attr) ==
  CASE "SIGN" \in attr /\ num < 0 -> <<"-">>
    [] "SIGN" \in attr /\ num >= 0 -> <<"+">>
    [] "SIGN" \notin attr /\ "SPACE" \in attr -> <<BLANK>>
    [] OTHER -> <<>>

PrefixOf(base, attr) ==
  CASE "SPECIAL" \in attr /\ base = 16 -> <<"0", IF "LOWCASE" \in attr THEN "x" ELSE "X">>
    [] "SPECIAL" \in attr /\ base = 8 -> <<"0">>
    [] OTHER -> <<>>

PadsInFront_Mutant(attr) == "ZEROPAD" \notin attr  \* LEFT forgotten
PadsInFront(attr) == attr \cap {"ZEROPAD", "LEFT"} = {}

itoa(num, base, size, prec, flgs) ==
  LET attr   == IF "LEFT" \in flgs THEN flgs \ {"ZEROPAD"} ELSE flgs
      c      == IF "ZEROPAD" \in attr THEN "0" ELSE BLANK
      sign   == SignOf(num, attr)
      prefix == PrefixOf(base, attr)
      mag    == IF sign = <<"-">> THEN - num ELSE num % LongMod
      tmp    == DigitsOf(mag, base, IF "LOWCASE" \in attr THEN Lower ELSE Digits)
      i      == Len(tmp)
      total  == IF i > prec THEN i ELSE prec
      size1  == size - Len(sign) - Len(prefix) - total
      size2  == IF PadsInFront(attr) THEN Spent(size1) ELSE size1
      size3  == IF "LEFT" \in attr THEN size2 ELSE Spent(size2)
  IN (IF PadsInFront(attr) THEN Repeat(BLANK, size1) ELSE <<>>)
       \o sign \o prefix
       \o (IF "LEFT" \in attr THEN <<>> ELSE Repeat(c, size2))
       \o Repeat("0", total - i) \o tmp
       \o Repeat(BLANK, size3)

-----------------------------------------------------------------------------
(* The loop of vsprintf *)

CharAt(p) == IF p <= Len(call.fmt) THEN call.fmt[p] ELSE NUL
Char == CharAt(fmt)

\* va_arg of an int, an unsigned int, and an unsigned long kept in a long.
Slot == call.args[arg + 1] % LongMod
IntArg == Signed(Slot % IntMod, IntMod)
UnsignedArg == Slot % IntMod
LongArg == Signed(Slot, LongMod)

CopyText ==
  /\ pc = "text" /\ Char \notin {NUL, "%"}
  /\ str' = Append(str, Char)
  /\ fmt' = fmt + 1
  /\ UNCHANGED <<call, pc, arg, flags, field_width, precision, qualifier, stored>>

Percent ==
  /\ pc = "text" /\ Char = "%"
  /\ flags' = {}
  /\ fmt' = fmt + 1
  /\ pc' = "flags"
  /\ UNCHANGED <<call, arg, str, field_width, precision, qualifier, stored>>

Flag_Mutant == pc = "flags" /\ FlagOf(Char) # {} /\ UNCHANGED formatVars  \* repeat: behind ++fmt

Flag ==
  /\ pc = "flags" /\ FlagOf(Char) # {}
  /\ flags' = flags \cup FlagOf(Char)
  /\ fmt' = fmt + 1
  /\ UNCHANGED <<call, pc, arg, str, field_width, precision, qualifier, stored>>

\* The number in the format at position p, and the position behind it.
EndOfDigits(p) == CHOOSE q \in p .. Len(call.fmt) + 1 :
  ~ is_digit(CharAt(q)) /\ \A r \in p .. q - 1 : is_digit(CharAt(r))
skip_atoi(p) ==
  LET res[q \in p - 1 .. EndOfDigits(p) - 1] ==
        IF q < p THEN 0 ELSE res[q - 1] * 10 + DigitValue(CharAt(q))
  IN res[EndOfDigits(p) - 1]

\* An argument's width is negative to align left.
FieldWidth ==
  /\ pc = "flags" /\ FlagOf(Char) = {}
  /\ \/ /\ is_digit(Char)
        /\ field_width' = skip_atoi(fmt) /\ fmt' = EndOfDigits(fmt)
        /\ UNCHANGED <<arg, flags>>
     \/ /\ Char = "*"
        /\ field_width' = IF IntArg < 0 THEN - IntArg ELSE IntArg
        /\ flags' = IF IntArg < 0 THEN flags \cup {"LEFT"} ELSE flags
        /\ arg' = arg + 1 /\ fmt' = fmt + 1
     \/ /\ ~ is_digit(Char) /\ Char # "*"
        /\ field_width' = NONE /\ UNCHANGED <<fmt, arg, flags>>
  /\ pc' = "precision"
  /\ UNCHANGED <<call, str, precision, qualifier, stored>>

NonNegative_Mutant(n) == n
NonNegative(n) == IF n < 0 THEN 0 ELSE n

Precision ==
  /\ pc = "precision"
  /\ LET next == CharAt(fmt + 1)
     IN \/ /\ Char = "." /\ is_digit(next)
           /\ precision' = skip_atoi(fmt + 1) /\ fmt' = EndOfDigits(fmt + 1)
           /\ UNCHANGED arg
        \/ /\ Char = "." /\ next = "*"
           /\ precision' = NonNegative(IntArg)
           /\ arg' = arg + 1 /\ fmt' = fmt + 2
        \/ /\ Char = "." /\ ~ is_digit(next) /\ next # "*"
           /\ precision' = 0 /\ fmt' = fmt + 1
           /\ UNCHANGED arg
        \/ /\ Char # "."
           /\ precision' = NONE /\ UNCHANGED <<fmt, arg>>
  /\ pc' = "qualifier"
  /\ UNCHANGED <<call, str, flags, field_width, qualifier, stored>>

Qualifier ==
  /\ pc = "qualifier"
  /\ IF Char \in {"h", "l", "L", "Z"}
     THEN qualifier' = Char /\ fmt' = fmt + 1
     ELSE qualifier' = NUL /\ fmt' = fmt
  /\ pc' = "convert"
  /\ UNCHANGED <<call, arg, str, flags, field_width, precision, stored>>

-----------------------------------------------------------------------------
(* The conversions *)

Converts(chars) == pc = "convert" /\ Char \in chars

Emit(text) ==
  /\ str' = str \o text
  /\ fmt' = fmt + 1
  /\ pc' = "text"
  /\ UNCHANGED <<call, flags, field_width, precision, qualifier>>

Aligned(text) ==
  LET pad == Repeat(BLANK, field_width - Len(text))
  IN IF "LEFT" \in flags THEN text \o pad ELSE pad \o text

\* An unsigned char: the digits, whose codes start at 48, and all others as one.
CharOf(n) == IF n % 256 \in 48 .. 57 THEN Digits[(n % 256) - 47] ELSE "?"

PrintChar ==
  /\ Converts({"c"})
  /\ Emit(Aligned(<<CharOf(Slot)>>))
  /\ arg' = arg + 1
  /\ UNCHANGED stored

Truncated(text) ==
  IF precision = NONE \/ Len(text) <= precision THEN text ELSE SubSeq(text, 1, precision)

PrintString ==
  /\ Converts({"s"}) /\ Slot # 0
  /\ Emit(Aligned(Truncated(StringAt[Slot])))
  /\ arg' = arg + 1
  /\ UNCHANGED stored

\* if(!s) s = '\0' leaves s NULL: strlen reads address 0, which is not mapped
\* once init_memory has cleared the low half.
PrintNull ==
  /\ Converts({"s"}) /\ Slot = 0
  /\ pc' = "fault"
  /\ arg' = arg + 1
  /\ UNCHANGED <<call, fmt, str, flags, field_width, precision, qualifier, stored>>

BaseOf(c) == CASE c = "o" -> 8 [] c \in {"x", "X"} -> 16 [] OTHER -> 10
AttrOf(c) == CASE c = "x" -> {"LOWCASE"} [] c \in {"d", "i"} -> {"SIGN"} [] OTHER -> {}

\* Without "l" the argument is fetched as an unsigned int, for %d too.
PrintNumber ==
  /\ Converts({"o", "x", "X", "d", "i", "u"})
  /\ Emit(itoa(IF qualifier = "l" THEN LongArg ELSE UnsignedArg, BaseOf(Char),
                field_width, precision, flags \cup AttrOf(Char)))
  /\ arg' = arg + 1
  /\ UNCHANGED stored

PrintPointer ==
  /\ Converts({"p"})
  /\ Emit(IF field_width = NONE
           THEN itoa(LongArg, 16, PtrDigits, precision, flags \cup {"ZEROPAD"})
           ELSE itoa(LongArg, 16, field_width, precision, flags))
  /\ arg' = arg + 1
  /\ UNCHANGED stored

StoreCount ==
  /\ Converts({"n"})
  /\ Emit(<<>>)
  /\ stored' = Append(stored, Len(str))
  /\ arg' = arg + 1

PrintPercent == Converts({"%"}) /\ Emit(<<"%">>) /\ UNCHANGED <<arg, stored>>

Conversions == {"c", "s", "o", "p", "x", "X", "d", "i", "u", "n", "%"}

PrintUnknown ==
  /\ pc = "convert" /\ Char \notin Conversions \cup {NUL}
  /\ Emit(<<"%", Char>>) /\ UNCHANGED <<arg, stored>>

\* fmt-- at the end of the format, so that the loop's ++fmt finds it again.
StepBack_Mutant(p) == p + 1
StepBack(p) == p

PrintTruncated ==
  /\ Converts({NUL})
  /\ str' = Append(str, "%")
  /\ fmt' = StepBack(fmt)
  /\ pc' = "text"
  /\ UNCHANGED <<call, arg, flags, field_width, precision, qualifier, stored>>

Finish ==
  /\ pc = "text" /\ Char = NUL
  /\ pc' = "done"
  /\ UNCHANGED <<call, fmt, arg, str, flags, field_width, precision, qualifier, stored>>

FormatInit ==
  /\ call \in Calls
  /\ pc = "text" /\ fmt = 1 /\ arg = 0
  /\ str = <<>> /\ stored = <<>>
  /\ flags = {} /\ field_width = NONE /\ precision = NONE /\ qualifier = NUL

Convert ==
  \/ PrintChar \/ PrintString \/ PrintNull \/ PrintNumber \/ PrintPointer
  \/ StoreCount \/ PrintPercent \/ PrintUnknown \/ PrintTruncated

FormatNext ==
  \/ CopyText \/ Percent \/ Flag \/ FieldWidth \/ Precision \/ Qualifier
  \/ Convert \/ Finish

FormatSpec == FormatInit /\ [][FormatNext]_formatVars /\ WF_formatVars(FormatNext)

-----------------------------------------------------------------------------
(* What the caller meant: call.meant is the sequence of literal characters *)
(* and directives that call.fmt spells, with their arguments; <<>> for a   *)
(* format that spells none.  In a directive, flags is a sequence of        *)
(* characters, width and precision are numbers or NONE, and star says      *)
(* which of them an argument gives.                                        *)

Power(b, n) == LET pow[i \in 0 .. n] == IF i = 0 THEN 1 ELSE b * pow[i - 1] IN pow[n]

\* The shortest digits of n.
Numeral(n, base, digits) ==
  LET len == CHOOSE k \in 1 .. n + 1 : n < Power(base, k) /\ (k = 1 \/ Power(base, k - 1) <= n)
  IN [k \in 1 .. len |-> digits[((n \div Power(base, len - k)) % base) + 1]]

FlagChars == {"-", "+", BLANK, "#", "0"}
NumberConversions == {"d", "i", "u", "o", "x", "X", "p"}

\* An int other than the least one, which has no negative.
Ints == {n \in Int : - (IntMod \div 2) < n /\ n < IntMod \div 2}

IsDirective(d) ==
  /\ d.conv \in Conversions
  /\ d.flags \in Seq(FlagChars) /\ d.star \subseteq {"width", "precision"}
  /\ d.width \in Ints /\ ("width" \notin d.star => d.width = NONE \/ d.width > 0)
  /\ d.precision \in Ints /\ ("precision" \notin d.star => d.precision = NONE \/ d.precision >= 0)
  /\ d.qualifier \in {NUL, "h", "l", "L", "Z"}
  /\ d.slot \in 0 .. LongMod - 1
  /\ d.conv = "s" => d.slot \in DOMAIN StringAt
IsLiteral(d) == d.conv = "text" /\ d.char \in STRING \ {NUL, "%"}

\* The characters of a directive, and its arguments.
WidthText(d) ==
  CASE "width" \in d.star -> <<"*">>
    [] "width" \notin d.star /\ d.width = NONE -> <<>>
    [] OTHER -> Numeral(d.width, 10, Digits)
PrecisionText(d) ==
  CASE "precision" \in d.star -> <<".", "*">>
    [] "precision" \notin d.star /\ d.precision = NONE -> <<>>
    [] "precision" \notin d.star /\ d.precision = 0 -> <<".">>
    [] OTHER -> <<".">> \o Numeral(d.precision, 10, Digits)
QualifierText(d) == IF d.qualifier = NUL THEN <<>> ELSE <<d.qualifier>>
Spelling(d) ==
  IF d.conv = "text" THEN <<d.char>>
  ELSE <<"%">> \o d.flags \o WidthText(d) \o PrecisionText(d) \o QualifierText(d) \o <<d.conv>>

Starred(d, part, n) == IF part \in d.star THEN <<n % LongMod>> ELSE <<>>
Arguments(d) ==
  IF d.conv = "text" THEN <<>>
  ELSE Starred(d, "width", d.width) \o Starred(d, "precision", d.precision)
       \o (IF d.conv = "%" THEN <<>> ELSE <<d.slot>>)

\* Enough arguments for a format that is none: one for a "%", one for a "*".
Wanted(format) == Cardinality({p \in DOMAIN format : format[p] \in {"%", "*"}})

ASSUME PrintkAssumption ==
  /\ IntMod \in Nat \ {0, 1} /\ LongMod \in Nat \ {0, 1}
  /\ IntMod % 2 = 0 /\ LongMod % IntMod = 0
  /\ PtrDigits \in Nat \ {0}
  /\ 0 \notin DOMAIN StringAt /\ \A a \in DOMAIN StringAt : StringAt[a] \in Seq(STRING)
  /\ \A c \in Calls :
       IF c.meant = <<>>
       THEN /\ c.fmt \in Seq(STRING \ {NUL}) /\ c.args \in Seq(Nat)
            /\ Len(c.args) >= Wanted(c.fmt)
       ELSE /\ \A k \in DOMAIN c.meant : IsLiteral(c.meant[k]) \/ IsDirective(c.meant[k])
            /\ c.meant \in Seq({c.meant[k] : k \in DOMAIN c.meant})
            /\ c.fmt = FlattenSeq([k \in DOMAIN c.meant |-> Spelling(c.meant[k])])
            /\ c.args = FlattenSeq([k \in DOMAIN c.meant |-> Arguments(c.meant[k])])

Flags(d) == UNION {FlagOf(d.flags[k]) : k \in DOMAIN d.flags}
Long(d) == d.qualifier = "l"
PrecisionOf(d) == IF "precision" \in d.star /\ d.precision < 0 THEN 0 ELSE d.precision

\* The value a number directive is about: %d without l is unsigned in value
\* but signed in form.
ValueOf(d) ==
  CASE d.conv = "p" -> d.slot
    [] Long(d) /\ d.conv \in {"d", "i"} -> Signed(d.slot, LongMod)
    [] Long(d) /\ d.conv \notin {"d", "i", "p"} -> d.slot
    [] OTHER -> d.slot % IntMod

\* Sign, prefix and numeral of a number, zeros up to the precision.
HeadOf(d) ==
  LET signed == d.conv \in {"d", "i"}
  IN (CASE signed /\ ValueOf(d) < 0 -> <<"-">>
        [] signed /\ ValueOf(d) >= 0 -> <<"+">>
        [] ~ signed /\ "SPACE" \in Flags(d) -> <<BLANK>>
        [] OTHER -> <<>>)
     \o (IF "SPECIAL" \in Flags(d)
         THEN CASE d.conv \in {"X", "p"} -> <<"0", "X">> [] d.conv = "x" -> <<"0", "x">>
                [] d.conv = "o" -> <<"0">> [] OTHER -> <<>>
         ELSE <<>>)

TailOf(d) ==
  LET v == ValueOf(d)
      n == Numeral(IF v < 0 THEN - v ELSE v,
                   CASE d.conv \in {"d", "i", "u"} -> 10 [] d.conv = "o" -> 8 [] OTHER -> 16,
                   IF d.conv = "x" THEN Lower ELSE Digits)
  IN Repeat("0", PrecisionOf(d) - Len(n)) \o n

\* A string, up to the precision.
StringOf(d) ==
  LET s == StringAt[d.slot]
  IN IF PrecisionOf(d) = NONE \/ Len(s) <= PrecisionOf(d) THEN s ELSE SubSeq(s, 1, PrecisionOf(d))

\* A directive's text: as long as its width at least, filled on one side, or
\* with zeros between the prefix and the numeral.
Filled(d) ==
  LET number == d.conv \in NumberConversions
      head == IF number THEN HeadOf(d) ELSE <<>>
      tail == CASE number -> TailOf(d) [] d.conv = "c" -> <<CharOf(d.slot)>>
                [] OTHER -> StringOf(d)
      bare == "width" \notin d.star /\ d.width = NONE
      width == CASE bare /\ d.conv = "p" -> PtrDigits [] ~ bare /\ d.width < 0 -> - d.width
                 [] OTHER -> d.width
      fill == width - Len(head) - Len(tail)
      left == "LEFT" \in Flags(d) \/ (~ bare /\ d.width < 0)
      zero == number /\ ("ZEROPAD" \in Flags(d) \/ (bare /\ d.conv = "p"))
  IN CASE left -> head \o tail \o Repeat(BLANK, fill)
       [] zero /\ ~ left -> head \o Repeat("0", fill) \o tail
       [] ~ zero /\ ~ left -> Repeat(BLANK, fill) \o head \o tail

Rendering(d) ==
  CASE d.conv = "text" -> <<d.char>> [] d.conv = "%" -> <<"%">> [] d.conv = "n" -> <<>>
    [] OTHER -> Filled(d)

\* The text of the first n directives, and the counts %n is to store.
MeantTo(n) == FlattenSeq([k \in 1 .. n |-> Rendering(call.meant[k])])
Meant == MeantTo(Len(call.meant))
CountsMeant ==
  FlattenSeq([k \in 1 .. Len(call.meant) |->
    IF call.meant[k].conv = "n" THEN <<Len(MeantTo(k - 1))>> ELSE <<>>])

-----------------------------------------------------------------------------
(* Properties *)

FormatTypeOK ==
  /\ pc \in {"text", "flags", "precision", "qualifier", "convert", "done", "fault"}
  /\ fmt \in Nat \ {0}
  /\ arg \in 0 .. Len(call.args)
  /\ flags \subseteq {"LEFT", "PLUS", "SPACE", "SPECIAL", "ZEROPAD"}
  /\ {field_width, precision} \subseteq Nat \cup {NONE}

\* What vsprintf leaves in buf is what the format says, directive by
\* directive: the text is as wide as asked and no wider, no flag of one
\* directive acts on the next, each conversion takes its own argument, and
\* the digits are those of the value that was fetched.
Rendered == pc = "done" /\ call.meant # <<>> => str = Meant /\ stored = CountsMeant

\* No format, cut off in a directive or not, makes vsprintf read behind its
\* final NUL.
NeverPastEnd == fmt <= Len(call.fmt) + 1

\* Every format comes to its end (or to a string that is NULL).
Terminates == <>(pc \in {"done", "fault"})
=============================================================================
