-------------------------- MODULE KeyboardIrqProofs --------------------------
(***************************************************************************)
(* Theorems about KeyboardIrq, for any number of keys and any length of    *)
(* the two messages: what holds although do_IRQ is entered again on the    *)
(* stack and with the locals of the call it interrupts.                    *)
(***************************************************************************)
EXTENDS KeyboardIrq, TLAPS

-----------------------------------------------------------------------------
(* The report of a key on the screen *)

\* Where the report of key r ends.
Block(r) == 2 * MsgLen * r

\* Reports are of one length, and end in the order of the keys.
LEMMA Blocks ==
  /\ 2 * MsgLen \in Nat \ {0} /\ MsgLen \in Nat \ {0} /\ MaxKeys \in Nat
  /\ Block(0) = 0
  /\ \A r \in Nat : Block(r) \in Nat /\ Block(r + 1) = Block(r) + 2 * MsgLen
  /\ \A r, s \in Nat : r <= s => Block(r) <= Block(s)
<1>1. MsgLen \in Nat \ {0} /\ MaxKeys \in Nat
  BY KeyboardAssumption
<1>2. \A m \in Nat : \A r, s \in Nat : r <= s => m * r <= m * s
  OBVIOUS
<1>3. \A m \in Nat : \A r \in Nat : m * r \in Nat /\ m * (r + 1) = m * r + m
  OBVIOUS
<1>4. 2 * MsgLen \in Nat \ {0}
  BY <1>1
<1> DEFINE m == 2 * MsgLen
<1> HIDE DEF m
<1>5. m \in Nat \ {0}
  BY <1>4 DEF m
<1>6. /\ m * 0 = 0
      /\ \A r \in Nat : m * r \in Nat /\ m * (r + 1) = m * r + m
      /\ \A r, s \in Nat : r <= s => m * r <= m * s
  BY <1>2, <1>3, <1>5
<1> QED
  BY <1>1, <1>5, <1>6 DEF Block, m

\* Quotient and rest of a number that is given by them.
LEMMA Digits ==
  \A q, r \in Nat, d \in Nat \ {0} :
    r < d => (q * d + r) \div d = q /\ (q * d + r) % d = r
  OBVIOUS

\* Character c of the report of key r + 1, counted from 0.
LEMMA ReportAt ==
  ASSUME NEW r \in Nat, r + 1 \in Keys, NEW c \in 0 .. 2 * MsgLen - 1
  PROVE  /\ Block(r) + c + 1 \in 1 .. Block(MaxKeys)
         /\ FullReport[Block(r) + c + 1]
              = IF c < MsgLen THEN <<IrqMsg, c>> ELSE <<r + 1, c - MsgLen>>
<1> DEFINE m == 2 * MsgLen
           i == Block(r) + c + 1
<1>1. /\ Block(r) \in Nat /\ Block(r + 1) = Block(r) + m
      /\ Block(r + 1) <= Block(MaxKeys) /\ Block(MaxKeys) \in Nat
      /\ m \in Nat \ {0} /\ MsgLen \in Nat
  <2>1. r + 1 \in Nat /\ MaxKeys \in Nat /\ r + 1 <= MaxKeys
    BY Blocks DEF Keys
  <2>2. Block(r + 1) <= Block(MaxKeys)
    BY <2>1, Blocks
  <2> QED
    BY <2>1, <2>2, Blocks
<1>2. c \in Nat /\ c < m
  BY <1>1
<1>3. i \in 1 .. Block(MaxKeys)
  <2> HIDE DEF m
  <2> QED
    BY <1>1, <1>2
<1>4. i - 1 = r * m + c
  BY <1>1 DEF Block
<1>5. (i - 1) \div m = r /\ (i - 1) % m = c
  <2> HIDE DEF m
  <2> QED
    BY <1>1, <1>2, <1>4, Digits
<1>6. FullReport[i] = Report((i - 1) \div m + 1)[((i - 1) % m) + 1]
  <2> HIDE DEF i
  <2> QED
    BY <1>3 DEF FullReport, Block
<1>7. FullReport[i] = Report(r + 1)[c + 1]
  BY <1>5, <1>6
<1>8. c + 1 \in 1 .. 2 * MsgLen
  BY <1>1, <1>2
<1> HIDE DEF i
<1>9. Report(r + 1)[c + 1] = IF c < MsgLen THEN <<IrqMsg, c>> ELSE <<r + 1, c - MsgLen>>
  BY <1>1, <1>2, <1>8 DEF Report
<1> QED
  BY <1>3, <1>7, <1>9 DEF i

-----------------------------------------------------------------------------
(* The inductive invariant *)

\* Codes whose report is due: all that were raised, but for the byte that
\* waits in port.
Reported == IF full THEN port - 1 ELSE port

\* The controller hands over the codes in the order they were typed, and a
\* latched edge means a waiting byte.
Codes ==
  /\ typed = port + Len(queue)
  /\ \A i \in 1 .. Len(queue) : queue[i] = port + i
  /\ full => port >= 1
  /\ Keyboard \in irr => full

\* Until sti nothing interrupts; after it only the keyboard's line does.
Masks ==
  /\ main \in {"icw", "ocw", "sti"} => ~ IFlag
  /\ main \notin {"icw", "ocw"} => imr = {Timer}
  /\ ~ IFlag => run = "main" /\ Reported = 0

\* The line is in service exactly until the EOI: a handler can be
\* interrupted at its exit and nowhere else.
Service == isr = IF run = "irq" /\ step <= 6 THEN {Keyboard} ELSE {}

\* So the frame on IST2 leads to main or to an exit, and once it leads to an
\* exit it leads there for ever.
Frames ==
  /\ frame.who = "irq" <=> nested
  /\ nested => run = "irq" /\ frame.step = 7

EarlyKept == early => full /\ Keyboard \notin irr /\ run = "main" /\ Reported = 0

\* What the locals on IST2 hold at the steps that still use them.
Locals ==
  run = "irq" =>
    /\ step \in 1 .. 3 => full
    /\ step \in 4 .. 5 => x = Reported
    /\ step = 2 => buf = IrqMsg /\ count < MsgLen
    /\ step = 5 => buf = x /\ count < MsgLen

\* Characters on the screen.
Printed ==
  CASE run = "irq" /\ step = 2 -> Block(Reported) + count
    [] run = "irq" /\ step = 3 -> Block(Reported) + MsgLen
    [] run = "irq" /\ step = 4 -> Block(Reported) - MsgLen
    [] run = "irq" /\ step = 5 -> Block(Reported) - MsgLen + count
    [] OTHER -> Block(Reported)

Shown ==
  /\ screen \in Seq(({IrqMsg} \cup Keys) \X Nat)
  /\ Len(screen) = Printed
  /\ \A c \in 1 .. Len(screen) : c <= Block(MaxKeys) /\ screen[c] = FullReport[c]

Control == TypeOK /\ Codes /\ Masks /\ Service /\ Frames /\ EarlyKept /\ Locals
IInv == Control /\ Shown

\* do_IRQ step by step.
LEMMA Steps ==
  /\ DOMAIN do_IRQ = 1 .. 7
  /\ do_IRQ[1] = "format1" /\ do_IRQ[2] = "put1" /\ do_IRQ[3] = "read"
  /\ do_IRQ[4] = "format2" /\ do_IRQ[5] = "put2" /\ do_IRQ[6] = "eoi" /\ do_IRQ[7] = "exit"
  BY DEF do_IRQ

LEMMA StepOf ==
  ASSUME step \in DOMAIN do_IRQ
  PROVE  /\ step \in 1 .. 7
         /\ At("format1") <=> run = "irq" /\ step = 1
         /\ At("put1") <=> run = "irq" /\ step = 2
         /\ At("read") <=> run = "irq" /\ step = 3
         /\ At("format2") <=> run = "irq" /\ step = 4
         /\ At("put2") <=> run = "irq" /\ step = 5
         /\ At("eoi") <=> run = "irq" /\ step = 6
         /\ At("exit") <=> run = "irq" /\ step = 7
  BY Steps DEF At

\* The invariant holds before init_intr.
LEMMA InitIInv == Init => IInv
<1> SUFFICES ASSUME Init PROVE IInv
  OBVIOUS
<1> USE DEF Init
<1>1. TypeOK
  <2>1. queue \in Seq(Keys)
    OBVIOUS
  <2>2. step \in DOMAIN do_IRQ /\ frame \in [who : {"main", "irq"}, step : DOMAIN do_IRQ]
    BY Steps
  <2>3. typed \in 0 .. MaxKeys /\ count \in 0 .. MsgLen
    BY KeyboardAssumption
  <2>4. full \in BOOLEAN /\ IFlag \in BOOLEAN /\ early \in BOOLEAN /\ nested \in BOOLEAN
    OBVIOUS
  <2> QED
    BY <2>1, <2>2, <2>3, <2>4 DEF TypeOK
<1>2. Codes /\ Masks /\ Service /\ Frames /\ EarlyKept /\ Locals
  BY DEF Codes, Masks, Service, Frames, EarlyKept, Locals, Reported, Keyboard
<1>3. Shown
  BY Blocks DEF Shown, Printed, Reported
<1> QED
  BY <1>1, <1>2, <1>3 DEF IInv, Control

-----------------------------------------------------------------------------
(* Every step keeps it *)

\* What the CPU does that is not do_IRQ's.
MainStep == InitPic \/ MaskLines \/ Sti \/ PrintTaskInit \/ TaskInit

\* The actions of the devices keep the order of the codes.
LEMMA TypeKeeps == Control /\ Type => Control'
<1> SUFFICES ASSUME Control, Type PROVE Control'
  OBVIOUS
<1> USE DEF Control, Type, device, pic, locals, history
<1>1. TypeOK'
  <2>1. typed + 1 \in Keys /\ queue' \in Seq(Keys)
    BY KeyboardAssumption DEF TypeOK, Keys
  <2> QED
    BY <2>1 DEF TypeOK, Keys
<1>2. Codes'
  <2>1. /\ Len(queue) \in Nat /\ Len(queue') = Len(queue) + 1
        /\ \A i \in 1 .. Len(queue) : queue'[i] = queue[i]
        /\ queue'[Len(queue) + 1] = typed + 1
    BY DEF TypeOK
  <2>2. port \in Nat /\ typed \in Nat
    BY DEF TypeOK, Keys
  <2>3. \A i \in 1 .. Len(queue') : i \in 1 .. Len(queue) \/ i = Len(queue) + 1
    BY <2>1
  <2>4. \A i \in 1 .. Len(queue') : queue'[i] = port' + i
    BY <2>1, <2>2, <2>3 DEF Codes
  <2> QED
    BY <2>1, <2>2, <2>4 DEF Codes
<1>3. Masks' /\ Service' /\ Frames' /\ EarlyKept' /\ Locals'
  BY DEF Masks, Service, Frames, EarlyKept, Locals, Reported
<1> QED
  BY <1>1, <1>2, <1>3

\* A key or the timer raises a line; nobody is served by that.
LEMMA RaiseKeeps == Control /\ Raise => Control' /\ Reported' = Reported
<1> SUFFICES ASSUME Control, Raise PROVE Control' /\ Reported' = Reported
  OBVIOUS
<1> USE DEF Control, Raise, device, pic, locals, history
<1>1. /\ Len(queue) \in Nat \ {0} /\ port' = queue[1] /\ queue[1] \in Keys
      /\ queue' \in Seq(Keys) /\ Len(queue') = Len(queue) - 1
      /\ \A i \in 1 .. Len(queue') : queue'[i] = queue[i + 1]
  BY DEF TypeOK
<1>2. TypeOK'
  BY <1>1 DEF TypeOK, Lines
<1>3. Codes'
  BY <1>1 DEF TypeOK, Codes, Keys
<1>4. Reported' = Reported
  BY <1>1 DEF TypeOK, Codes, Keys, Reported
<1>5. Masks' /\ Service' /\ Frames' /\ EarlyKept' /\ Locals'
  BY <1>4 DEF Masks, Service, Frames, EarlyKept, Locals
<1> QED
  BY <1>2, <1>3, <1>4, <1>5

\* A tick changes nothing but the request of the timer.
LEMMA TickKeeps == Control /\ Tick => Control'
<1> SUFFICES ASSUME Control, Tick PROVE Control'
  OBVIOUS
<1> USE DEF Control, Tick, device, pic, locals, history
<1>1. TypeOK'
  BY DEF TypeOK, Lines
<1>2. Codes' /\ Masks' /\ Service' /\ Frames' /\ EarlyKept' /\ Locals'
  BY DEF Codes, Masks, Service, Frames, EarlyKept, Locals, Reported, Timer, Keyboard
<1> QED
  BY <1>1, <1>2

\* The steps of init_intr and Start_Kernel up to task_init.
LEMMA MainKeeps == Control /\ MainStep => Control'
<1> SUFFICES ASSUME Control, MainStep PROVE Control'
  OBVIOUS
<1> USE DEF Control, MainStep, InitPic, MaskLines, Sti, PrintTaskInit, TaskInit,
            device, pic, locals, history
<1>1. TypeOK'
  BY DEF TypeOK, OCW1, Lines
<1>2. Codes' /\ Service' /\ Frames' /\ Locals'
  BY DEF Codes, Service, Frames, Locals, Reported
<1>3. Masks'
  BY DEF Masks, Reported, OCW1, Lines, Timer, Keyboard
<1>4. EarlyKept'
  BY DEF Masks, EarlyKept, Reported
<1> QED
  BY <1>1, <1>2, <1>3, <1>4

\* Only the keyboard's line is delivered, to main or to an exit, and with a
\* byte waiting.
LEMMA DeliverKeeps ==
  Control /\ Deliver => /\ Control' /\ Reported' = Reported
                       /\ run \in {"main", "irq"} /\ (run = "irq" => step = 7)
                       /\ full
<1> SUFFICES ASSUME Control, Deliver
             PROVE  /\ Control' /\ Reported' = Reported
                    /\ run \in {"main", "irq"} /\ (run = "irq" => step = 7)
                    /\ full
  OBVIOUS
<1> USE DEF Control, device, pic, locals, history
<1>1. imr = {Timer} /\ IFlag
  BY DEF Masks, Deliver
<1>2. PICK n \in Lines : Pending(n) /\ irr' = irr \ {n} /\ isr' = isr \cup {n}
  BY DEF Deliver
<1>3. n = Keyboard /\ Keyboard \in irr /\ Keyboard \notin isr
  BY <1>1, <1>2 DEF Pending, Lines
<1>4. full /\ run \in {"main", "irq"} /\ (run = "irq" => step = 7) /\ isr = {}
  BY <1>3, Steps DEF Codes, Service, TypeOK, Deliver
<1>5. Reported' = Reported
  BY DEF Deliver, Reported
<1>6. TypeOK'
  BY <1>2, <1>4, Steps DEF TypeOK, Deliver, Pushed, Lines
<1>7. Codes' /\ Masks' /\ EarlyKept' /\ Service'
  BY <1>1, <1>2, <1>3, <1>4, <1>5
  DEF Deliver, Codes, Masks, EarlyKept, Service
<1>8. Locals'
  BY <1>4 DEF Deliver, Locals
<1>9. Frames'
  <2>1. /\ frame' = [who |-> run, step |-> step] /\ run' = "irq"
        /\ nested' = (nested \/ run = "irq")
    BY DEF Deliver, Pushed
  <2>2. run = "irq" <=> nested'
    BY <2>1 DEF Frames
  <2> QED
    BY <1>4, <2>1, <2>2 DEF Frames
<1> QED
  BY <1>4, <1>5, <1>6, <1>7, <1>8, <1>9

\* The variables in the form the steps of the handler need.
LEMMA ControlTypes ==
  ASSUME Control
  PROVE  /\ step \in 1 .. 7 /\ port \in Nat /\ Reported \in Nat
         /\ Reported \in {0} \cup Keys /\ (full => port \in Keys /\ port = Reported + 1)
         /\ MsgLen \in Nat \ {0} /\ count \in Nat
  BY Steps, KeyboardAssumption DEF Control, TypeOK, Codes, Reported, Keys

\* What do_IRQ and the CPU's return do.
LEMMA FormatKeeps ==
  Control /\ (Format("format1", IrqMsg) \/ Format("format2", x))
    => /\ Control' /\ Reported' = Reported /\ run = "irq" /\ run' = "irq" /\ count' = 0
       /\ <<step, step'>> \in {<<1, 2>>, <<4, 5>>}
<1> SUFFICES ASSUME Control, Format("format1", IrqMsg) \/ Format("format2", x)
             PROVE  /\ Control' /\ Reported' = Reported /\ run = "irq" /\ run' = "irq"
                    /\ count' = 0 /\ <<step, step'>> \in {<<1, 2>>, <<4, 5>>}
  OBVIOUS
<1> USE DEF Format, device, pic, locals, history
<1>1. /\ run = "irq" /\ run' = "irq" /\ count' = 0
      /\ \/ step = 1 /\ step' = 2 /\ buf' = IrqMsg
         \/ step = 4 /\ step' = 5 /\ buf' = x
  BY StepOf DEF Control, TypeOK
<1>2. TypeOK'
  BY <1>1, Steps, KeyboardAssumption DEF Control, TypeOK, IrqMsg
<1>3. Codes' /\ Masks' /\ Service' /\ Frames' /\ EarlyKept' /\ Reported' = Reported
  BY <1>1 DEF Control, Codes, Masks, Service, Frames, EarlyKept, Reported
<1>4. Locals'
  BY <1>1, <1>3, KeyboardAssumption DEF Control, Locals
<1> QED
  BY <1>1, <1>2, <1>3, <1>4 DEF Control

\* put_char moves only its own counter and the screen.
LEMMA PutKeeps ==
  Control /\ Put
    => /\ Control' /\ Reported' = Reported /\ run = "irq" /\ run' = "irq"
       /\ step \in {2, 5} /\ count < MsgLen /\ count' = count + 1
       /\ step' = IF count' < MsgLen THEN step ELSE step + 1
<1> SUFFICES ASSUME Control, Put
             PROVE  /\ Control' /\ Reported' = Reported /\ run = "irq" /\ run' = "irq"
                    /\ step \in {2, 5} /\ count < MsgLen /\ count' = count + 1
                    /\ step' = IF count' < MsgLen THEN step ELSE step + 1
  OBVIOUS
<1> USE DEF Put, device, pic, locals, history
<1>1. run = "irq" /\ run' = "irq" /\ step \in {2, 5} /\ count' = count + 1
  BY StepOf DEF Control, TypeOK
<1>2. count < MsgLen
  BY <1>1 DEF Control, Locals
<1>3. TypeOK'
  BY <1>1, <1>2, Steps, KeyboardAssumption DEF Control, TypeOK
<1>4. Codes' /\ Masks' /\ Service' /\ Frames' /\ EarlyKept' /\ Reported' = Reported
  BY <1>1 DEF Control, Codes, Masks, Service, Frames, EarlyKept, Reported
<1>5. Locals'
  BY <1>1, <1>4 DEF Control, Locals
<1> QED
  BY <1>1, <1>2, <1>3, <1>4, <1>5 DEF Control

\* inb(0x60) takes the code that is reported next.
LEMMA ReadKeeps ==
  Control /\ Read
    => Control' /\ Reported' = Reported + 1 /\ run = "irq" /\ run' = "irq" /\ step = 3 /\ step' = 4
<1> SUFFICES ASSUME Control, Read
             PROVE  /\ Control' /\ Reported' = Reported + 1
                    /\ run = "irq" /\ run' = "irq" /\ step = 3 /\ step' = 4
  OBVIOUS
<1> USE DEF Read, device, pic, locals, history
<1>1. run = "irq" /\ run' = "irq" /\ step = 3 /\ step' = 4 /\ full
  BY StepOf DEF Control, TypeOK, Locals
<1>2. Reported' = Reported + 1 /\ x' = Reported'
  BY <1>1, ControlTypes DEF Reported
<1>3. TypeOK'
  <2>1. full' \in BOOLEAN
    OBVIOUS
  <2>2. irr' \subseteq Lines /\ step' \in DOMAIN do_IRQ /\ x' \in {0} \cup Keys
    BY <1>1, Steps DEF Control, TypeOK
  <2> QED
    BY <2>1, <2>2 DEF Control, TypeOK
<1>4. Codes' /\ Masks' /\ Service' /\ Frames' /\ EarlyKept'
  BY <1>1 DEF Control, Codes, Masks, Service, Frames, EarlyKept, Keyboard
<1>5. Locals'
  BY <1>1, <1>2 DEF Locals
<1> QED
  BY <1>1, <1>2, <1>3, <1>4, <1>5 DEF Control

\* The EOI ends the service of the keyboard's line: nothing is below it.
LEMMA EoiKeeps ==
  Control /\ Eoi
    => Control' /\ Reported' = Reported /\ run = "irq" /\ run' = "irq" /\ step = 6 /\ step' = 7
<1> SUFFICES ASSUME Control, Eoi
             PROVE  /\ Control' /\ Reported' = Reported
                    /\ run = "irq" /\ run' = "irq" /\ step = 6 /\ step' = 7
  OBVIOUS
<1> USE DEF Eoi, device, pic, locals, history
<1>1. run = "irq" /\ run' = "irq" /\ step = 6 /\ step' = 7
  BY StepOf DEF Control, TypeOK
<1>2. isr' = {}
  BY <1>1 DEF Control, Service, Keyboard
<1>3. TypeOK'
  BY <1>1, <1>2, Steps DEF Control, TypeOK
<1>4. Codes' /\ Masks' /\ Service' /\ Frames' /\ EarlyKept' /\ Reported' = Reported
  BY <1>1, <1>2 DEF Control, Codes, Masks, Service, Frames, EarlyKept, Reported
<1>5. Locals'
  BY <1>1 DEF Locals
<1> QED
  BY <1>1, <1>3, <1>4, <1>5 DEF Control

\* iretq goes back to what the frame slot holds.
LEMMA ReturnKeeps ==
  Control /\ Return
    => /\ Control' /\ Reported' = Reported /\ run = "irq" /\ step = 7
       /\ (run' = "irq" => step' = 7) /\ (nested => run' = "irq")
<1> SUFFICES ASSUME Control, Return
             PROVE  /\ Control' /\ Reported' = Reported /\ run = "irq" /\ step = 7
                    /\ (run' = "irq" => step' = 7) /\ (nested => run' = "irq")
  OBVIOUS
<1> USE DEF Return, device, pic, locals, history
<1>1. run = "irq" /\ step = 7
  BY StepOf DEF Control, TypeOK
<1>2. (run' = "irq" => step' = 7) /\ (nested => run' = "irq")
  BY DEF Control, Frames
<1>3. TypeOK'
  BY Steps DEF Control, TypeOK
<1>4. Codes' /\ Reported' = Reported /\ Masks' /\ Frames' /\ EarlyKept'
  BY <1>1, <1>2 DEF Control, Codes, Reported, Masks, Frames, EarlyKept
<1>5. Service' /\ Locals'
  BY <1>1, <1>2 DEF Control, Service, Locals
<1> QED
  BY <1>1, <1>2, <1>3, <1>4, <1>5 DEF Control

\* As long as nothing is printed the screen shows what the step of do_IRQ
\* says, also when a handler is entered, interrupted or left.
LEMMA QuietKeepsShown ==
  ASSUME Control, Shown, UNCHANGED screen, Printed' = Printed
  PROVE  Shown'
  BY DEF Shown

\* Each character is the next one of the report that is due.
LEMMA PutShows ==
  ASSUME Control, Shown, Put
  PROVE  Shown'
<1> DEFINE n == Len(screen)
<1>1. /\ Reported' = Reported /\ run = "irq" /\ run' = "irq"
      /\ step \in {2, 5} /\ count < MsgLen /\ count' = count + 1
      /\ step' = IF count' < MsgLen THEN step ELSE step + 1
      /\ Control'
  BY PutKeeps
<1>2. /\ Reported \in Nat /\ MsgLen \in Nat \ {0} /\ count \in Nat
      /\ Block(Reported) \in Nat
  BY ControlTypes, Blocks
<1>3. n \in Nat /\ n = Printed /\ screen \in Seq(({IrqMsg} \cup Keys) \X Nat)
  BY DEF Shown
<1>4. /\ screen' = Append(screen, <<buf, count>>)
      /\ <<buf, count>> \in ({IrqMsg} \cup Keys) \X Nat
  BY <1>2 DEF Put, Control, TypeOK
<1>5. /\ screen' \in Seq(({IrqMsg} \cup Keys) \X Nat)
      /\ Len(screen') = n + 1
      /\ \A c \in 1 .. n : screen'[c] = screen[c]
      /\ screen'[n + 1] = <<buf, count>>
  BY <1>3, <1>4
<1>6. Printed' = n + 1
  <2>1. CASE step = 2
    BY <1>1, <1>2, <1>3, <2>1 DEF Printed
  <2>2. CASE step = 5
    BY <1>1, <1>2, <1>3, <2>2 DEF Printed
  <2> QED
    BY <1>1, <2>1, <2>2
<1>7. n + 1 <= Block(MaxKeys) /\ FullReport[n + 1] = <<buf, count>>
  <2>1. CASE step = 2
    <3>1. full /\ buf = IrqMsg /\ Reported + 1 \in Keys
      BY <1>1, <2>1, ControlTypes DEF Control, Locals
    <3>2. n = Block(Reported) + count
      BY <1>1, <1>3, <2>1 DEF Printed
    <3>3. count \in 0 .. 2 * MsgLen - 1
      BY <1>1, <1>2
    <3>4. /\ Block(Reported) + count + 1 \in 1 .. Block(MaxKeys)
          /\ FullReport[Block(Reported) + count + 1] = <<IrqMsg, count>>
      BY <1>1, <1>2, <3>1, <3>3, ReportAt
    <3> QED
      BY <3>1, <3>2, <3>4
  <2>2. CASE step = 5
    <3>1. buf = Reported /\ x = Reported
      BY <1>1, <2>2 DEF Control, Locals
    <3>2. n = Block(Reported) - MsgLen + count
      BY <1>1, <1>3, <2>2 DEF Printed
    <3>3. Reported # 0
      BY <1>2, <1>3, <3>2, <1>1, Blocks
    <3>4. PICK r \in Nat : Reported = r + 1
      <4>1. Reported - 1 \in Nat /\ Reported = (Reported - 1) + 1
        BY <1>2, <3>3
      <4> QED
        BY <4>1
    <3>5. r + 1 \in Keys
      BY <3>3, <3>4, ControlTypes
    <3> DEFINE c == MsgLen + count
    <3>6. n + 1 = Block(r) + c + 1
      <4>1. Block(r) \in Nat /\ Block(Reported) = Block(r) + 2 * MsgLen
        BY <3>4, Blocks
      <4> QED
        BY <1>2, <3>2, <4>1
    <3>7. c \in 0 .. 2 * MsgLen - 1 /\ ~ (c < MsgLen) /\ c - MsgLen = count
      BY <1>1, <1>2
    <3> HIDE DEF c
    <3>8. /\ Block(r) + c + 1 \in 1 .. Block(MaxKeys)
          /\ FullReport[Block(r) + c + 1] = <<r + 1, c - MsgLen>>
      BY <3>5, <3>7, ReportAt
    <3> HIDE DEF n
    <3> QED
      BY <3>1, <3>4, <3>6, <3>7, <3>8
  <2> QED
    BY <1>1, <2>1, <2>2
<1>8. \A c \in 1 .. n + 1 : c \in 1 .. n \/ c = n + 1
  BY <1>3
<1> QED
  BY <1>3, <1>5, <1>6, <1>7, <1>8 DEF Shown

\* What nobody changes keeps its type.
LEMMA StutterKeepsType ==
  ASSUME TypeOK, UNCHANGED vars
  PROVE  TypeOK'
<1> USE DEF TypeOK, vars, device, pic, locals, history
<1>1. /\ full' \in BOOLEAN /\ IFlag' \in BOOLEAN /\ early' \in BOOLEAN /\ nested' \in BOOLEAN
  OBVIOUS
<1> QED
  BY <1>1

\* Every step keeps the invariant.
LEMMA NextIInv == IInv /\ [Next]_vars => IInv'
<1> SUFFICES ASSUME Control, Shown, [Next]_vars PROVE Control' /\ Shown'
  BY DEF IInv
<1> USE ControlTypes, Blocks
<1>1. CASE UNCHANGED vars
  <2> USE <1>1 DEF vars, device, pic, locals, history
  <2>1. TypeOK'
    BY StutterKeepsType DEF Control
  <2>2. Codes'
    BY DEF Control, Codes
  <2>3. Masks' /\ Service' /\ Frames' /\ EarlyKept' /\ Locals'
    BY DEF Control, Masks, Service, Frames, EarlyKept, Locals, Reported
  <2>4. Printed' = Printed /\ UNCHANGED screen
    BY DEF Printed, Reported
  <2> QED
    BY <2>1, <2>2, <2>3, <2>4, QuietKeepsShown DEF Control
<1>2. CASE Type
  <2>1. Printed' = Printed /\ UNCHANGED screen
    BY <1>2 DEF Type, locals, Printed, Reported
  <2> QED
    BY <1>2, <2>1, TypeKeeps, QuietKeepsShown
<1>3. CASE Raise
  <2>1. Printed' = Printed /\ UNCHANGED screen
    BY <1>3, RaiseKeeps DEF Raise, locals, Printed
  <2> QED
    BY <1>3, <2>1, RaiseKeeps, QuietKeepsShown
<1>4. CASE Tick
  <2>1. Printed' = Printed /\ UNCHANGED screen
    BY <1>4 DEF Tick, device, locals, Printed, Reported
  <2> QED
    BY <1>4, <2>1, TickKeeps, QuietKeepsShown
<1>5. CASE MainStep
  <2>1. Printed' = Printed /\ UNCHANGED screen
    BY <1>5 DEF MainStep, InitPic, MaskLines, Sti, PrintTaskInit, TaskInit,
       device, locals, Printed, Reported
  <2> QED
    BY <1>5, <2>1, MainKeeps, QuietKeepsShown
<1>6. CASE Deliver
  <2>1. Printed' = Printed /\ UNCHANGED screen
    BY <1>6, DeliverKeeps DEF Deliver, Printed
  <2> QED
    BY <1>6, <2>1, DeliverKeeps, QuietKeepsShown
<1>7. CASE Format("format1", IrqMsg) \/ Format("format2", x)
  <2>1. Printed' = Printed /\ UNCHANGED screen
    BY <1>7, FormatKeeps DEF Format, Printed
  <2> QED
    BY <1>7, <2>1, FormatKeeps, QuietKeepsShown
<1>8. CASE Put
  BY <1>8, PutKeeps, PutShows
<1>9. CASE Read
  <2>1. Printed' = Printed /\ UNCHANGED screen
    BY <1>9, ReadKeeps DEF Read, Printed
  <2> QED
    BY <1>9, <2>1, ReadKeeps, QuietKeepsShown
<1>10. CASE Eoi
  <2>1. Printed' = Printed /\ UNCHANGED screen
    BY <1>10, EoiKeeps DEF Eoi, Printed
  <2> QED
    BY <1>10, <2>1, EoiKeeps, QuietKeepsShown
<1>11. CASE Return
  <2>1. Printed' = Printed /\ UNCHANGED screen
    BY <1>11, ReturnKeeps DEF Return, Printed
  <2> QED
    BY <1>11, <2>1, ReturnKeeps, QuietKeepsShown
<1> QED
  BY <1>1, <1>2, <1>3, <1>4, <1>5, <1>6, <1>7, <1>8, <1>9, <1>10, <1>11
  DEF Next, Cpu, MainStep

\* The invariant holds always.
LEMMA Invariance == Spec => []IInv
  BY InitIInv, NextIInv, PTL DEF Spec

-----------------------------------------------------------------------------
(* The theorems *)

\* No local of do_IRQ, no mask and no frame ever leaves its type.
THEOREM TypeCorrect == Spec => []TypeOK
<1>1. IInv => TypeOK
  BY DEF IInv, Control
<1> QED
  BY <1>1, Invariance, PTL

\* Every scan code is reported once, whole and in the order of the keys,
\* although do_IRQ is entered again before it has left its stack: see
\* ReportsWhole.
THEOREM KeysReportedWhole == Spec => []ReportsWhole
<1>1. IInv => ReportsWhole
  <2> SUFFICES ASSUME IInv PROVE screen = SubSeq(FullReport, 1, Len(screen))
    BY DEF ReportsWhole
  <2> DEFINE n == Len(screen)
  <2>1. /\ n \in Nat /\ screen = [c \in 1 .. n |-> screen[c]]
        /\ \A c \in 1 .. n : screen[c] = FullReport[c]
    BY DEF IInv, Shown
  <2>2. SubSeq(FullReport, 1, n) = [c \in 1 .. n |-> FullReport[c]]
    BY <2>1
  <2> QED
    BY <2>1, <2>2
<1> QED
  BY <1>1, Invariance, PTL

\* A key that waits while init_intr resets the 8259A is the last one the
\* machine takes notice of: see EarlyKeyJams.
THEOREM EarlyKeyIsLost == Spec => []EarlyKeyJams
<1>1. IInv => EarlyKeyJams
  <2> SUFFICES ASSUME IInv, early PROVE screen = <<>>
    BY DEF EarlyKeyJams
  <2>1. run = "main" /\ Reported = 0
    BY DEF IInv, Control, EarlyKept
  <2>2. Len(screen) = 0
    BY <2>1, Blocks DEF IInv, Shown, Printed
  <2> QED
    BY <2>2 DEF IInv, Shown
<1> QED
  BY <1>1, Invariance, PTL

\* Once a handler was interrupted at its exit no step leads back to
\* Start_Kernel: see NestingIsFinal.
THEOREM NestingKeepsMainOut == Spec => NestingIsFinal
<1>1. IInv /\ [Next]_vars => [nested => run' # "main"]_vars
  <2> SUFFICES ASSUME Control, Next, nested PROVE run' # "main"
    BY DEF IInv
  <2>1. run = "irq"
    BY DEF Control, Frames
  <2>2. CASE Return
    BY <2>2, ReturnKeeps
  <2>3. CASE Deliver
    BY <2>3 DEF Deliver
  <2>4. CASE UNCHANGED run
    BY <2>1, <2>4
  <2> QED
    BY <2>2, <2>3, <2>4 DEF Next, Cpu, Type, Raise, Tick, InitPic, MaskLines, Sti,
       PrintTaskInit, TaskInit, Format, Put, Read, Eoi
<1> QED
  BY <1>1, Invariance, PTL DEF Spec, NestingIsFinal
=============================================================================
