------------------------------- MODULE MCPrintk -------------------------------
(***************************************************************************)
(* Calls of vsprintf: single directives with every combination of a flag   *)
(* set, a width, a precision and a conversion; pairs of directives; the    *)
(* directives of the kernel's own messages; and formats of four characters *)
(* that spell anything.                                                    *)
(***************************************************************************)
EXTENDS Printk

Texts == [n \in {7, 9} |-> IF n = 7 THEN <<"a", "b", "c", "d", "e">> ELSE <<>>]

Call(ds) == [fmt |-> FlattenSeq([k \in DOMAIN ds |-> Spelling(ds[k])]),
             args |-> FlattenSeq([k \in DOMAIN ds |-> Arguments(ds[k])]), meant |-> ds]
Raw(f) == [fmt |-> f, args |-> <<3, 50, 2, 300, 1>>, meant |-> <<>>]

FlagSeqs(chars) == {SetToSeq(f) : f \in SUBSET chars}

\* Width and precision, the ones an argument gives in the last three.
Sizes(widths, precisions) ==
  {[width |-> w, precision |-> p, star |-> {}] : w \in widths, p \in precisions} \cup
  {[width |-> -6, precision |-> NONE, star |-> {"width"}],
   [width |-> -6, precision |-> 4, star |-> {"width", "precision"}],
   [width |-> 3, precision |-> -3, star |-> {"width", "precision"}]}

Directives(flagSeqs, sizes, qualifiers, convs, slots) ==
  {[flags |-> f, width |-> s.width, precision |-> s.precision, star |-> s.star,
    qualifier |-> q, conv |-> c, slot |-> n] :
     f \in flagSeqs, s \in sizes, q \in qualifiers, c \in convs, n \in slots}

Numbers ==
  Directives(FlagSeqs({"-", " ", "#", "0"}), Sizes({NONE, 3, 8}, {NONE, 0, 4}), {NUL, "l"},
             {"d", "u", "o", "x", "X", "p"}, {0, 10, 200, LongMod - 2})
Strings ==
  Directives(FlagSeqs({"-", "0"}), Sizes({NONE, 3, 7}, {NONE, 0, 2, 6}), {NUL}, {"s"}, {7, 9})
Chars ==
  Directives(FlagSeqs({"-", "0"}), Sizes({NONE, 1, 3}, {NONE}), {NUL}, {"c"}, {48, 256 + 50})
Others ==
  Directives({<<>>, <<"0", "0", "+">>}, Sizes({NONE, 12}, {NONE, 10}), {NUL, "h"}, {"%", "n", "i"}, {64})
Literal == [conv |-> "text", char |-> "a"]

\* "%#018lx", "%#010x", "%#08x", "%010d", "%d" and "%s" of trap.c, task.c and
\* memory.c, and "%ln".
Kernel(f, w, q, c) == [flags |-> f, width |-> w, precision |-> NONE, star |-> {},
                       qualifier |-> q, conv |-> c, slot |-> IF c = "s" THEN 7 ELSE 4660]
Few == {Kernel(<<"#", "0">>, 18, "l", "x"), Kernel(<<"#", "0">>, 10, NUL, "x"),
        Kernel(<<"#", "0">>, 8, NUL, "x"), Kernel(<<"0">>, 10, NUL, "d"),
        Kernel(<<>>, NONE, NUL, "d"), Kernel(<<"-">>, 8, NUL, "x"), Kernel(<<>>, NONE, "l", "n"),
        Kernel(<<>>, NONE, NUL, "s"), Kernel(<<>>, 7, NUL, "s"), Kernel(<<"-">>, 7, NUL, "s")}

Alphabet == {"%", "-", "5", ".", "*", "l", "d", "c", "a"}
Inputs ==
  {Call(<<d>>) : d \in Numbers \cup Strings \cup Chars \cup Others} \cup
  {Call(<<Literal, d, Literal, e>>) : d \in Few, e \in Few} \cup
  {Raw(<<"%">> \o f) : f \in UNION {[1 .. n -> Alphabet] : n \in 0 .. 3}} \cup
  {[fmt |-> <<"a", "%", "s">>, args |-> <<0>>, meant |-> <<>>]}
=============================================================================
