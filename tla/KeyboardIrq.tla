----------------------------- MODULE KeyboardIrq -----------------------------
(***************************************************************************)
(* The keyboard interrupt: init_intr and do_IRQ of kernel/interrupt.c, the *)
(* entry and exit code around do_IRQ, and, as far as they use them, the    *)
(* keyboard controller, the master 8259A and the CPU's interrupt delivery. *)
(*                                                                         *)
(* set_intr_gate builds a gate of type 0x8F, which leaves IF as it is, on  *)
(* stack IST2, which starts at the same address on every delivery.  So a   *)
(* handler that has sent its EOI can be interrupted by the next key, and   *)
(* its own frame and locals lie where the next ones are pushed.            *)
(***************************************************************************)
EXTENDS Integers, Sequences, FiniteSets

CONSTANTS
  MaxKeys,   \* bound: keys typed
  MsgLen     \* characters of a message color_printk prints

ASSUME KeyboardAssumption == MaxKeys \in Nat /\ MsgLen \in Nat \ {0}

\* Lines of the master 8259A.  The other 14 are masked like the timer's.
Timer == 0
Keyboard == 1
Lines == {Timer, Keyboard}

Keys == 1 .. MaxKeys    \* scan codes, numbered in the order they are typed
IrqMsg == 0             \* the text "do_IRQ:...", the same for every key

VARIABLES
  typed,       \* keys typed so far
  queue,       \* codes waiting in the keyboard
  port,        \* the byte port 0x60 returns
  full,        \* port holds a byte nobody has read; its line is high
  irr,         \* lines of which an edge is latched
  isr,         \* lines in service
  imr,         \* masked lines
  IFlag,       \* interrupts enabled
  run,         \* what the CPU executes: "main", "irq", or "lost": garbage
  main,        \* where Start_Kernel is
  step,        \* where do_IRQ is, an index of do_IRQ
  frame,       \* what the frame at the top of IST2 returns to
  x, count,    \* locals of do_IRQ and color_printk, on IST2
  buf,         \* the message in printk's buffer
  screen,      \* history: characters do_IRQ has printed
  early,       \* history: a byte was waiting when init_intr reset the 8259A
  nested       \* history: an interrupt was taken inside do_IRQ

device == <<typed, queue, port, full>>
pic == <<irr, isr, imr>>
locals == <<x, count, buf>>
history == <<early, nested>>
vars == <<device, pic, IFlag, run, main, step, frame, locals, screen, history>>

-----------------------------------------------------------------------------
(* Keyboard and timer *)

Type ==
  /\ typed < MaxKeys
  /\ typed' = typed + 1
  /\ queue' = Append(queue, typed + 1)
  /\ UNCHANGED <<port, full, pic, IFlag, run, main, step, frame, locals, screen, history>>

\* The controller fills its output buffer, which raises the line.
Raise ==
  /\ ~ full /\ queue # <<>>
  /\ port' = Head(queue) /\ full' = TRUE
  /\ queue' = Tail(queue)
  /\ irr' = irr \cup {Keyboard}
  /\ UNCHANGED <<typed, isr, imr, IFlag, run, main, step, frame, locals, screen, history>>

Tick ==
  /\ irr' = irr \cup {Timer}
  /\ UNCHANGED <<device, isr, imr, IFlag, run, main, step, frame, locals, screen, history>>

-----------------------------------------------------------------------------
(* Start_Kernel from the call of init_intr on *)

InitPic_Mutant ==  \* a latched edge survives
  /\ run = "main" /\ main = "icw"
  /\ isr' = {} /\ imr' = {}
  /\ early' = full
  /\ main' = "ocw"
  /\ UNCHANGED <<device, irr, IFlag, run, step, frame, locals, screen, nested>>

\* ICW1 clears the registers and the edge sense: a line that is already high
\* requests nothing until it has been low.
InitPic ==
  /\ run = "main" /\ main = "icw"
  /\ irr' = {} /\ isr' = {} /\ imr' = {}
  /\ early' = full
  /\ main' = "ocw"
  /\ UNCHANGED <<device, IFlag, run, step, frame, locals, screen, nested>>

OCW1 == Lines \ {Keyboard}

MaskLines ==
  /\ run = "main" /\ main = "ocw"
  /\ imr' = OCW1
  /\ main' = "sti"
  /\ UNCHANGED <<device, irr, isr, IFlag, run, step, frame, locals, screen, history>>

Sti ==
  /\ run = "main" /\ main = "sti"
  /\ IFlag' = TRUE
  /\ main' = "print"
  /\ UNCHANGED <<device, pic, run, step, frame, locals, screen, history>>

\* "task init" is printed on the 512 bytes between the main stack's base
\* 0x7E00 and 0x7c00, where IST2 starts ...
PrintTaskInit ==
  /\ run = "main" /\ main = "print"
  /\ main' = "task_init"
  /\ UNCHANGED <<device, pic, IFlag, run, step, frame, locals, screen, history>>

\* ... but do_fork, four calls deep, works on the memory of IST2, and so do
\* the trap handlers (IST1 is IST2).  It ends in a fault (module Tasks): this
\* step is the end of task_init and of the handler's report, "loop" the endless
\* loop of the handler.
TaskInit ==
  /\ run = "main" /\ main = "task_init"
  /\ main' = "loop"
  /\ UNCHANGED <<device, pic, IFlag, run, step, frame, locals, screen, history>>

-----------------------------------------------------------------------------
(* Interrupt delivery, do_IRQ and the return *)

do_IRQ_Mutant == <<"format1", "put1", "read", "eoi", "format2", "put2", "exit">>  \* EOI too early

\* What do_IRQ does, in its order; color_printk formats into buf, then prints.
do_IRQ == <<"format1", "put1", "read", "format2", "put2", "eoi", "exit">>
At(s) == run = "irq" /\ do_IRQ[step] = s

Pushed_Mutant(f) == IF run = "irq" THEN frame ELSE f  \* below the frame in use

\* A frame pushed at the top of IST2 replaces the one that was there.
Pushed(f) == f

\* The highest line that is requested, not masked, and above all in service.
Pending(n) ==
  /\ n \in irr \ imr
  /\ \A m \in isr \cup (irr \ imr) : m = n \/ n < m
  /\ n \notin isr

Deliver ==
  /\ IFlag /\ run # "lost"
  /\ \E n \in Lines :
       /\ Pending(n)
       /\ irr' = irr \ {n} /\ isr' = isr \cup {n}
  /\ frame' = Pushed([who |-> run, step |-> step])
  /\ run' = "irq" /\ step' = 1
  /\ nested' = (nested \/ run = "irq")
  /\ UNCHANGED <<device, imr, IFlag, main, locals, screen, early>>

Format(s, msg) ==
  /\ At(s)
  /\ buf' = msg /\ count' = 0
  /\ step' = step + 1
  /\ UNCHANGED <<device, pic, IFlag, run, main, frame, x, screen, history>>

Put_Mutant ==  \* count <= i
  /\ At("put1") \/ At("put2")
  /\ screen' = Append(screen, <<buf, count>>)
  /\ count' = count + 1
  /\ step' = IF count' <= MsgLen THEN step ELSE step + 1
  /\ UNCHANGED <<device, pic, IFlag, run, main, frame, x, buf, history>>

Put ==
  /\ At("put1") \/ At("put2")
  /\ screen' = Append(screen, <<buf, count>>)
  /\ count' = count + 1
  /\ step' = IF count' < MsgLen THEN step ELSE step + 1
  /\ UNCHANGED <<device, pic, IFlag, run, main, frame, x, buf, history>>

\* io_in8(0x60) lowers the line.
Read ==
  /\ At("read")
  /\ x' = port
  /\ full' = FALSE /\ irr' = irr \ {Keyboard}
  /\ step' = step + 1
  /\ UNCHANGED <<typed, queue, port, isr, imr, IFlag, run, main, frame, count, buf, screen, history>>

Eoi_Mutant ==  \* nothing is sent
  /\ At("eoi")
  /\ step' = step + 1
  /\ UNCHANGED <<device, pic, IFlag, run, main, frame, locals, screen, history>>

\* A non-specific EOI ends the service of the highest line.
Eoi ==
  /\ At("eoi")
  /\ isr' = {n \in isr : \E m \in isr : m < n}
  /\ step' = step + 1
  /\ UNCHANGED <<device, irr, imr, IFlag, run, main, frame, locals, screen, history>>

Return_Mutant ==  \* while(1), as the handlers of traps end
  At("exit") /\ UNCHANGED vars

\* ret_from_intr and iretq.  What main had on the memory of IST2 is gone:
\* whether it used it again the model leaves open.
Return ==
  /\ At("exit")
  /\ \/ run' = frame.who /\ step' = frame.step
     \/ frame.who = "main" /\ main = "task_init" /\ run' = "lost" /\ step' = 1
  /\ UNCHANGED <<device, pic, IFlag, main, frame, locals, screen, history>>

-----------------------------------------------------------------------------
Init ==
  /\ typed = 0 /\ queue = <<>> /\ port = 0 /\ full = FALSE
  /\ irr = {} /\ isr = {} /\ imr = {}
  /\ IFlag = FALSE
  /\ run = "main" /\ main = "icw" /\ step = 1
  /\ frame = [who |-> "main", step |-> 1]
  /\ x = 0 /\ count = 0 /\ buf = IrqMsg
  /\ screen = <<>>
  /\ early = FALSE /\ nested = FALSE

Cpu ==
  \/ InitPic \/ MaskLines \/ Sti \/ PrintTaskInit \/ TaskInit
  \/ Format("format1", IrqMsg) \/ Put \/ Read \/ Format("format2", x) \/ Eoi \/ Return

Next == Type \/ Raise \/ Tick \/ Deliver \/ Cpu

\* The CPU goes on, takes an interrupt that stays requested, and the
\* controller hands over the next code.  Nobody has to type.
Spec == Init /\ [][Next]_vars /\ WF_vars(Cpu) /\ WF_vars(Deliver) /\ WF_vars(Raise)

-----------------------------------------------------------------------------
(* Properties *)

TypeOK ==
  /\ typed \in 0 .. MaxKeys
  /\ queue \in Seq(Keys)
  /\ port \in {0} \cup Keys /\ full \in BOOLEAN
  /\ irr \subseteq Lines /\ isr \subseteq Lines /\ imr \subseteq Lines
  /\ IFlag \in BOOLEAN
  /\ run \in {"main", "irq", "lost"}
  /\ main \in {"icw", "ocw", "sti", "print", "task_init", "loop"}
  /\ step \in DOMAIN do_IRQ
  /\ frame \in [who : {"main", "irq"}, step : DOMAIN do_IRQ]
  /\ x \in {0} \cup Keys /\ buf \in {IrqMsg} \cup Keys /\ count \in 0 .. MsgLen
  /\ early \in BOOLEAN /\ nested \in BOOLEAN

\* The screen after every key has been reported once, in order and whole.
Report(k) == [c \in 1 .. 2 * MsgLen |->
                IF c <= MsgLen THEN <<IrqMsg, c - 1>> ELSE <<k, c - 1 - MsgLen>>]
FullReport == [c \in 1 .. 2 * MsgLen * MaxKeys |->
                 Report((c - 1) \div (2 * MsgLen) + 1)[((c - 1) % (2 * MsgLen)) + 1]]

\* do_IRQ can be entered again before it has returned, on the same stack,
\* with the same local x and the same printk buffer.  All the same no scan
\* code is skipped, reported twice or mixed into another one's report,
\* because do_IRQ sends its EOI after it has used them for the last time.
ReportsWhole == screen = SubSeq(FullReport, 1, Len(screen))

\* A key that is typed between the loader's cli and init_intr's reset of the
\* 8259A leaves the line high with no edge to come: no key is ever reported.
EarlyKeyJams == early => screen = <<>>

\* Otherwise every key typed is reported in the end, how many interrupts
\* soever nest, unless main has lost its stack.
EveryKeyReported ==
  \A k \in Keys :
    typed >= k ~> Len(screen) >= 2 * MsgLen * k \/ early \/ run = "lost"

\* An interrupt that is taken inside do_IRQ, between EOI and iretq, replaces
\* the frame that led back: Start_Kernel never runs again.
NestingIsFinal == [][nested => run' # "main"]_vars

\* Without that, Start_Kernel always gets the CPU back.
MainResumes == []<>(run = "main") \/ <>(nested \/ run = "lost")
=============================================================================
