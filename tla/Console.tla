------------------------------- MODULE Console -------------------------------
(***************************************************************************)
(* color_printk and putchar of kernel/printk.c: the buffer buf and the     *)
(* cursor Pos, which the code in Start_Kernel and do_IRQ share without a   *)
(* lock.  The kernel is compiled without optimisation, so that ++Pos.xPos  *)
(* is a load and a store, and do_IRQ may run between any two of them; and  *)
(* the next key may come between do_IRQ's EOI and its iretq.               *)
(*                                                                         *)
(* A text is what vsprintf leaves (module Printk): a sequence of           *)
(* characters, of which "NL", "TAB" and "BS" move the cursor.              *)
(***************************************************************************)
EXTENDS Integers, Sequences

CONSTANTS
  xRes, yRes, xCharSize, yCharSize,  \* the screen, in pixels
  Tab,          \* 8 in the code
  MappedPixels, \* pixels from FB_addr on that the page tables map
  Sessions,     \* the texts Start_Kernel may print, in order: sequences of texts
  IrqTexts,     \* the two texts do_IRQ prints for a key
  MaxKeys       \* bound: keys that interrupt

Cols == xRes \div xCharSize
Rows == yRes \div yCharSize

HasBackspace(text) == \E k \in DOMAIN text : text[k] = "BS"
HasTab(text) == \E k \in DOMAIN text : text[k] = "TAB"

\* The text printed while interrupts are on, the last one of a session, has
\* neither a "BS" nor a "TAB", and do_IRQ leaves none in buf: no key comes
\* between the accesses to Pos of these two branches, or between two looks at
\* a character that one of them depends on.
ASSUME ConsoleAssumption ==
  /\ {xRes, yRes, xCharSize, yCharSize, Tab} \subseteq Nat \ {0}
  /\ Cols > 1 /\ Rows > 1 /\ MappedPixels \in Nat /\ MaxKeys \in Nat
  /\ xRes * (Rows + 2) * yCharSize <= MappedPixels
  /\ IrqTexts \in Seq(Seq(STRING)) /\ Len(IrqTexts) = 2
  /\ \A k \in DOMAIN IrqTexts : ~ HasBackspace(IrqTexts[k])
  /\ Sessions \subseteq Seq(Seq(STRING))
  /\ \A k \in DOMAIN IrqTexts[1] : IrqTexts[1][k] = "TAB" => k <= Len(IrqTexts[2])
  /\ ~ HasTab(IrqTexts[2])
  /\ \A s \in Sessions : s # <<>> => ~ HasBackspace(s[Len(s)]) /\ ~ HasTab(s[Len(s)])

VARIABLES
  todo,      \* texts Start_Kernel has still to print, the current one first
  irqs,      \* texts do_IRQ has still to print
  frame,     \* whom the frame at the top of IST2 leads back to, "none" outside do_IRQ
  keys,      \* keys that have interrupted
  ctx,       \* the call of color_printk in Start_Kernel and the one in do_IRQ
  buf,       \* the buffer: its characters so far
  xPos, yPos,
  start,     \* history: the cursor when each call began to print
  drawn,     \* history: what each call has drawn
  mixed      \* history: a key interrupted the current call in Start_Kernel

pos == <<xPos, yPos>>
vars == <<todo, irqs, frame, keys, ctx, buf, pos, start, drawn, mixed>>

Contexts == {"main", "irq"}

\* do_IRQ prints its texts before anything else runs: its EOI comes behind
\* them, and Start_Kernel goes on when iretq has taken its frame.
Running == IF irqs # <<>> THEN "irq" ELSE "main"
Text(c) == IF c = "irq" THEN Head(irqs) ELSE Head(todo)
c0 == ctx[Running]
At(l) == c0.pc = l /\ (Running = "main" => todo # <<>> /\ frame = "none")

Idle == [pc |-> "format", i |-> 0, count |-> 0, spaces |-> 0, char |-> "", row |-> 0, reg |-> 0]

Set(c) == ctx' = [ctx EXCEPT ![Running] = c]
Goto(l) == Set([c0 EXCEPT !.pc = l])

\* A step of the running call that leaves the texts and the histories alone.
Step == UNCHANGED <<todo, irqs, frame, keys, start, drawn, mixed>>

-----------------------------------------------------------------------------
(* vsprintf writes to buf, character by character *)

Formatted == c0.i = Len(Text(Running))

Format ==
  /\ At("format") /\ ~ Formatted
  /\ LET k == c0.i + 1
     IN /\ buf' = [j \in 1 .. (IF Len(buf) > k THEN Len(buf) ELSE k) |->
                     IF j = k THEN Text(Running)[k] ELSE buf[j]]
        /\ Set([c0 EXCEPT !.i = k])
  /\ UNCHANGED pos /\ Step

\* i = vsprintf(...): from here on the loop reads buf, not the format.
FormatEnd ==
  /\ At("format") /\ Formatted
  /\ Goto("loop")
  /\ start' = [start EXCEPT ![Running] = pos]
  /\ drawn' = [drawn EXCEPT ![Running] = <<>>]
  /\ UNCHANGED <<todo, irqs, frame, keys, buf, pos, mixed>>

-----------------------------------------------------------------------------
(* The loop *)

More == c0.count < c0.i \/ c0.spaces > 0
Next1 == buf[c0.count + 1]

TabStop_Mutant(x) == Tab  \* & ~(7) forgotten
TabStop(x) == Tab - (x % Tab)

\* The next character is read here to choose the branch, and once more to
\* be drawn.  The first look finds "NL"; what the second and the third find,
\* and Pos.xPos between its two loads for a tab, no key changes
\* (ConsoleAssumption).
Branch ==
  /\ At("loop") /\ More /\ c0.spaces = 0
  /\ CASE Next1 = "NL" -> Goto("newline")
       [] Next1 = "BS" -> Goto("backspace")
       [] Next1 = "TAB" -> Set([c0 EXCEPT !.pc = "blank", !.spaces = TabStop(xPos)])
       [] OTHER -> Goto("char")
  /\ UNCHANGED <<buf, pos>> /\ Step

MoreSpaces_Mutant == At("loop") /\ c0.spaces > 0 /\ UNCHANGED vars  \* continue for goto

MoreSpaces ==
  /\ At("loop") /\ c0.spaces > 0
  /\ Set([c0 EXCEPT !.pc = "blank", !.count = @ - 1])
  /\ UNCHANGED <<buf, pos>> /\ Step

ReadBlank ==
  /\ At("blank")
  /\ Set([c0 EXCEPT !.pc = "row", !.char = " ", !.spaces = @ - 1])
  /\ UNCHANGED <<buf, pos>> /\ Step

ReadChar ==
  /\ At("char")
  /\ Set([c0 EXCEPT !.pc = "row", !.char = Next1])
  /\ UNCHANGED <<buf, pos>> /\ Step

ReadRow ==
  /\ At("row")
  /\ Set([c0 EXCEPT !.pc = "draw", !.row = yPos])
  /\ UNCHANGED <<buf, pos>> /\ Step

\* putchar at pixel (x, y) writes pixels in yCharSize lines of xRes.
Reaches(x, y) == xRes * (y + yCharSize - 1) + x + xCharSize - 1

Drawn(x, y, char, then) ==
  IF Reaches(x, y) < MappedPixels
  THEN /\ drawn' = [drawn EXCEPT ![Running] = Append(@, [x |-> x, y |-> y, char |-> char])]
       /\ Goto(then)
  ELSE Goto("fault") /\ UNCHANGED drawn

Draw ==
  /\ At("draw")
  /\ Drawn(xPos * xCharSize, c0.row * yCharSize, c0.char, "load_x")
  /\ UNCHANGED <<buf, pos, todo, irqs, frame, keys, start, mixed>>

LoadX ==
  /\ At("load_x")
  /\ Set([c0 EXCEPT !.pc = "store_x", !.reg = xPos])
  /\ UNCHANGED <<buf, pos>> /\ Step

StoreX ==
  /\ At("store_x")
  /\ xPos' = c0.reg + 1
  /\ Goto("test_x")
  /\ UNCHANGED <<buf, yPos>> /\ Step

\* ++Pos.yPos for a newline and for a full line.
LoadY ==
  /\ At("newline") \/ At("full")
  /\ Set([c0 EXCEPT !.pc = IF c0.pc = "newline" THEN "store_nl" ELSE "store_full", !.reg = yPos])
  /\ UNCHANGED <<buf, pos>> /\ Step

StoreY ==
  /\ At("store_nl") \/ At("store_full")
  /\ yPos' = c0.reg + 1
  /\ Goto(IF c0.pc = "store_nl" THEN "zero_nl" ELSE "zero_full")
  /\ UNCHANGED <<buf, xPos>> /\ Step

ZeroX ==
  /\ At("zero_nl") \/ At("zero_full")
  /\ xPos' = 0
  /\ Goto(IF c0.pc = "zero_nl" THEN "test_x" ELSE "test_y")
  /\ UNCHANGED <<buf, yPos>> /\ Step

\* The columns and rows it wraps to are multiplied by the size of a
\* character, and so is the place where it draws.  No text printed while
\* interrupts are on has a "BS": one step moves the cursor.
Backspace ==
  /\ At("backspace")
  /\ xPos' = IF xPos > 0 THEN xPos - 1 ELSE (Cols - 1) * xCharSize
  /\ yPos' = CASE xPos > 0 -> yPos [] xPos = 0 /\ yPos > 0 -> yPos - 1
               [] OTHER -> (Rows - 1) * yCharSize
  /\ Drawn(xRes * xCharSize, yPos' * yCharSize, " ", "test_x")
  /\ UNCHANGED <<buf, todo, irqs, frame, keys, start, mixed>>

IsFull_Mutant == xPos > Cols
IsFull == xPos >= Cols

TestX ==
  /\ At("test_x")
  /\ Goto(IF IsFull THEN "full" ELSE "test_y")
  /\ UNCHANGED <<buf, pos>> /\ Step

BelowScreen_Mutant == yPos > Rows
BelowScreen == yPos >= Rows

\* The end of the loop's body: count++.
Again == Set([c0 EXCEPT !.pc = "loop", !.count = @ + 1])

TestY ==
  /\ At("test_y")
  /\ IF BelowScreen THEN Goto("zero_y") ELSE Again
  /\ UNCHANGED <<buf, pos>> /\ Step

ZeroY ==
  /\ At("zero_y")
  /\ yPos' = 0
  /\ Again
  /\ UNCHANGED <<buf, xPos>> /\ Step

-----------------------------------------------------------------------------
(* The two callers *)

Reset(who) == [ctx EXCEPT ![who] = Idle]

MainReturns ==
  /\ Running = "main" /\ At("loop") /\ ~ More
  /\ todo' = Tail(todo)
  /\ ctx' = Reset("main")
  /\ mixed' = FALSE
  /\ UNCHANGED <<irqs, frame, keys, buf, pos, start, drawn>>

\* Behind the second text comes the EOI: the next key may interrupt.
IrqReturns ==
  /\ Running = "irq" /\ At("loop") /\ ~ More
  /\ irqs' = Tail(irqs)
  /\ ctx' = Reset("irq")
  /\ UNCHANGED <<todo, frame, keys, buf, pos, start, drawn, mixed>>

\* init_intr sets IF before the last text, "task init \n".  The gate leaves IF
\* on, so that a key may also come when do_IRQ has sent its EOI and not yet
\* executed iretq: its frame takes the place of the one that leads back to
\* Start_Kernel.
Key ==
  /\ irqs = <<>> /\ Len(todo) = 1 /\ c0.pc # "fault"
  /\ keys < MaxKeys
  /\ keys' = keys + 1
  /\ irqs' = IrqTexts
  /\ frame' = IF frame = "none" THEN "main" ELSE "irq"
  /\ mixed' = TRUE
  /\ UNCHANGED <<todo, ctx, buf, pos, start, drawn>>

\* A frame that leads to the end of do_IRQ brings the CPU to this iretq, with
\* the same frame, over and over.
Iretq ==
  /\ irqs = <<>> /\ frame = "main"
  /\ frame' = "none"
  /\ UNCHANGED <<todo, irqs, keys, ctx, buf, pos, start, drawn, mixed>>

Init ==
  /\ todo \in Sessions
  /\ irqs = <<>> /\ frame = "none" /\ keys = 0
  /\ ctx = [c \in Contexts |-> Idle]
  /\ buf = <<>>
  /\ xPos = 0 /\ yPos = 0
  /\ start = [c \in Contexts |-> pos]
  /\ drawn = [c \in Contexts |-> <<>>]
  /\ mixed = FALSE

Printing ==
  \/ Format \/ FormatEnd \/ Branch \/ MoreSpaces \/ ReadBlank \/ ReadChar
  \/ ReadRow \/ Draw \/ LoadX \/ StoreX \/ LoadY \/ StoreY \/ ZeroX
  \/ Backspace \/ TestX \/ TestY \/ ZeroY \/ MainReturns \/ IrqReturns \/ Iretq

Next == Printing \/ Key

\* The CPU goes on executing; keys need not come.
Spec == Init /\ [][Next]_vars /\ WF_vars(Printing)

-----------------------------------------------------------------------------
(* Where a text belongs on the screen *)

\* The cursor after a character was drawn at it.
Wrapped(row) == IF row < Rows THEN row ELSE 0
After(p) == CASE p[1] + 1 < Cols -> <<p[1] + 1, Wrapped(p[2])>>
              [] p[1] + 1 >= Cols -> <<0, Wrapped(p[2] + 1)>>

Cell(p, char) == [x |-> p[1] * xCharSize, y |-> p[2] * yCharSize, char |-> char]

\* Cursor and cells after a character, after n blanks, and after the first n
\* characters of a text without "BS".
Put(s, char) == [pos |-> After(s.pos), cells |-> Append(s.cells, Cell(s.pos, char))]
Blank(s) == Put(s, " ")
Blanks(s, n) ==
  LET b[k \in 0 .. n] == IF k = 0 THEN s ELSE Blank(b[k - 1])
  IN b[n]
Shown(s, char) ==
  CASE char = "NL" -> [s EXCEPT !.pos = <<0, Wrapped(s.pos[2] + 1)>>]
    [] char = "TAB" -> Blanks(s, Tab - (s.pos[1] % Tab))
    [] OTHER -> Put(s, char)
LayoutTo(p, text, n) ==
  LET l[k \in 0 .. n] == IF k = 0 THEN [pos |-> p, cells |-> <<>>] ELSE Shown(l[k - 1], text[k])
  IN l[n]
Layout(p, text) == LayoutTo(p, text, Len(text))

-----------------------------------------------------------------------------
(* Properties *)

\* An interrupt finds the cursor one cell off the screen at most, and takes it
\* one cell further before it comes back: what it draws is mapped, and so is
\* what Start_Kernel draws.  Only "BS" strays further.
TypeOK ==
  /\ keys \in 0 .. MaxKeys
  /\ frame \in {"none", "main", "irq"} /\ (irqs # <<>> => frame # "none")
  /\ \A c \in Contexts :
       /\ ctx[c].count \in 0 .. Len(buf) /\ ctx[c].i \in 0 .. Len(buf)
       /\ ctx[c].spaces \in 0 .. Tab
       /\ ctx[c].pc = "fault" => c = "main" /\ HasBackspace(Text(c))
  /\ irqs # <<>> => xPos \in 0 .. Cols + 1 /\ yPos \in 0 .. Rows + 1
  /\ irqs = <<>> /\ todo # <<>> /\ ~ HasBackspace(Head(todo)) =>
       xPos \in 0 .. Cols /\ yPos \in 0 .. Rows

\* Whenever a call of Start_Kernel returns the cursor is on the screen, whichever of
\* its loads and stores keys came between, and whatever the text did.
CursorOnScreen ==
  (irqs = <<>> /\ ctx["main"] = Idle) => xPos \in 0 .. Cols - 1 /\ yPos \in 0 .. Rows - 1

\* What a call draws is its text, each character in the next cell of the
\* screen: always for do_IRQ, and for Start_Kernel unless a key came.
\* do_IRQ may start one cell off the screen.
LaidOut ==
  LET Whole(c) ==
        (At("loop") /\ ~ More /\ Running = c) =>
           LET l == Layout(start[c], Text(c))
           IN drawn[c] = l.cells /\ pos = l.pos
  IN /\ Running = "main" /\ todo # <<>> /\ ~ mixed /\ ~ HasBackspace(Text("main")) => Whole("main")
     /\ Running = "irq" => Whole("irq")

\* do_IRQ's calls always come to their end, and with it to the EOI.  Each call
\* of Start_Kernel returns, unless a "BS" in the first cell faults, or the
\* program is never resumed: a key came behind the EOI of do_IRQ and before its
\* iretq, which then no longer finds Start_Kernel's frame.
Returns ==
  /\ []<>(irqs = <<>>)
  /\ <>(todo = <<>> \/ ctx["main"].pc = "fault" \/ frame = "irq")
=============================================================================
