-------------------------------- MODULE Traps --------------------------------
(***************************************************************************)
(* Exceptions: the gates of sys_vector_init, the entry code of entry.S and *)
(* of Build_IRQ, and the handlers of trap.c, instruction by instruction on *)
(* the words of the stack they all share.  Every gate names IST1, every    *)
(* interrupt gate IST2, and both start at the same address; no gate clears *)
(* IF, so a key may interrupt the entry code of a trap and push its frame  *)
(* over the trap's.                                                        *)
(***************************************************************************)
EXTENDS Integers, Sequences

CONSTANTS
  Causes,   \* exceptions main may raise: [vector, error], as the CPU encodes them
  MaxKeys   \* bound: keys typed

\* Error codes have 16 bits.
ASSUME TrapsAssumption ==
  /\ MaxKeys \in Nat
  /\ \A c \in Causes : c.vector \in Nat /\ c.error \in Nat /\ c.error < 65536

VARIABLES
  code, ip,    \* the code that runs ("main", a stub, "handler", "halt", "lost")
               \* and the index of its next instruction
  reg,         \* the registers the entry code saves
  stack,       \* words below the top of IST1 and IST2: stack[1] is the highest
  sp,          \* words pushed, or MainStack: Start_Kernel's own
  IFlag,
  in_service,  \* the 8259A waits for an EOI
  keys,        \* keys that have come
  trap,        \* the exception that was raised, or NoTrap
  report,      \* what its handler printed, or NoReport
  hit,         \* history: a key came between the exception and its report
  nested       \* history: a key came inside the interrupt's own code

vars == <<code, ip, reg, stack, sp, IFlag, in_service, keys, trap, report, hit, nested>>

-----------------------------------------------------------------------------
(* Error codes *)

Bit(n, b) == (n \div 2 ^ b) % 2 = 1
SelectorFaults == {10, 11, 12, 13}
PageFault == 14

\* What the CPU means by an error code.
PushesError(v) == v \in {8, 17, PageFault} \cup SelectorFaults
NoTrap == [vector |-> -1, error |-> 0, rip |-> <<"none", 0>>]
NoReport == [vector |-> -1, error |-> 0, rip |-> <<"none", NoTrap.rip>>, index |-> 0, says |-> {}]

SelectorMeans(e) ==
  (IF Bit(e, 0) THEN {"external"} ELSE {}) \cup
  {CASE Bit(e, 1) -> "IDT" [] ~ Bit(e, 1) /\ Bit(e, 2) -> "LDT"
     [] ~ Bit(e, 1) /\ ~ Bit(e, 2) -> "GDT"}
PageFaultMeans(e) ==
  {IF Bit(e, 0) THEN "protection" ELSE "not present", IF Bit(e, 1) THEN "write" ELSE "read",
   IF Bit(e, 2) THEN "user" ELSE "supervisor"} \cup
  (IF Bit(e, 3) THEN {"reserved"} ELSE {}) \cup (IF Bit(e, 4) THEN {"fetch"} ELSE {})

\* The messages of do_invalid_TSS and the three handlers like it.
SelectorMessages(e) ==
  (IF Bit(e, 0) THEN {"external"} ELSE {}) \cup
  (IF Bit(e, 1) THEN {"IDT"} ELSE {"GDT or LDT"}) \cup
  (CASE ~ Bit(e, 1) /\ Bit(e, 2) -> {"LDT"} [] ~ Bit(e, 1) /\ ~ Bit(e, 2) -> {"GDT"}
     [] Bit(e, 1) -> {})

\* and of do_page_fault: nothing is printed for a page that is present.
PageFaultMessages(e) ==
  (IF ~ Bit(e, 0) THEN {"not present"} ELSE {}) \cup
  {IF Bit(e, 1) THEN "write" ELSE "read"} \cup {IF Bit(e, 2) THEN "user" ELSE "supervisor"} \cup
  (IF Bit(e, 3) THEN {"reserved"} ELSE {}) \cup (IF Bit(e, 4) THEN {"fetch"} ELSE {})

Messages(v, e) ==
  CASE v \in SelectorFaults -> SelectorMessages(e) [] v = PageFault -> PageFaultMessages(e)
    [] OTHER -> {}
Index(v, e) == IF v \in SelectorFaults THEN (e % 65536) - (e % 8) ELSE 0

-----------------------------------------------------------------------------
(* Entry code.  An instruction is <<operation, operands>>. *)

Regs == {"rax", "rbx", "rcx", "rdx", "rsi", "rdi", "rbp", "r8", "r9", "r10", "r11",
         "r12", "r13", "r14", "r15", "ds", "es"}
CalleeSaved == {"rbx", "rbp", "r12", "r13", "r14", "r15"}

\* struct pt_regs and the offsets of entry.S, in words.
FUNC == 17
ERRCODE == 18
RIP_Mutant == 20  \* 0xa0, the word CS
RIP == 19

Push(r) == <<"push", r>>

\* From the label error_code on, and in SAVE_ALL and nmi after the word FUNC.
Save ==
  <<Push("rax"), <<"move", "rax", "es">>, Push("rax"), <<"move", "rax", "ds">>, Push("rax"),
    <<"const", "rax", 0>>, Push("rbp"), Push("rdi"), Push("rsi"), Push("rdx"), Push("rcx"),
    Push("rbx"), Push("r8"), Push("r9"), Push("r10"), Push("r11"), Push("r12"), Push("r13"),
    Push("r14"), Push("r15")>>

KernelData(r) == <<<<"const", r, 16>>, <<"move", "ds", r>>, <<"move", "es", r>>>>

RESTORE_ALL_Mutant ==  \* %es popped before %ds
  <<<<"pop", "r15">>, <<"pop", "r14">>, <<"pop", "r13">>, <<"pop", "r12">>, <<"pop", "r11">>,
    <<"pop", "r10">>, <<"pop", "r9">>, <<"pop", "r8">>, <<"pop", "rbx">>, <<"pop", "rcx">>,
    <<"pop", "rdx">>, <<"pop", "rsi">>, <<"pop", "rdi">>, <<"pop", "rbp">>,
    <<"pop", "rax">>, <<"move", "es", "rax">>, <<"pop", "rax">>, <<"move", "ds", "rax">>,
    <<"pop", "rax">>, <<"drop", 2>>, <<"iretq">>>>

RESTORE_ALL ==
  <<<<"pop", "r15">>, <<"pop", "r14">>, <<"pop", "r13">>, <<"pop", "r12">>, <<"pop", "r11">>,
    <<"pop", "r10">>, <<"pop", "r9">>, <<"pop", "r8">>, <<"pop", "rbx">>, <<"pop", "rcx">>,
    <<"pop", "rdx">>, <<"pop", "rsi">>, <<"pop", "rdi">>, <<"pop", "rbp">>,
    <<"pop", "rax">>, <<"move", "ds", "rax">>, <<"pop", "rax">>, <<"move", "es", "rax">>,
    <<"pop", "rax">>, <<"drop", 2>>, <<"iretq">>>>

\* The word FUNC is the handler's address, %rax what it was.
PushFunc == <<Push("rax"), <<"handler", "rax">>, <<"xchg">>>>

CallHandler_Mutant ==  \* callq forgotten
  <<<<"load", "rsi", ERRCODE>>, <<"load", "rdx", FUNC>>>> \o KernelData("rdi")
    \o <<<<"rsp", "rdi">>>>

CallHandler ==
  <<<<"load", "rsi", ERRCODE>>, <<"load", "rdx", FUNC>>>> \o KernelData("rdi")
    \o <<<<"rsp", "rdi">>, <<"call">>>>

do_IRQ_Mutant == <<<<"eoi">>, <<"work">>>>
do_IRQ == <<<<"work">>, <<"eoi">>>>

Stub(c) ==
  CASE c = "zero" -> <<<<"pushzero">>>> \o PushFunc \o Save \o CallHandler
    [] c = "error" -> PushFunc \o Save \o CallHandler
    [] c = "nmi" -> <<Push("rax"), Push("rax")>> \o Save \o KernelData("rdx")
                      \o <<<<"const", "rsi", 0>>, <<"rsp", "rdi">>, <<"do_nmi">>>>
    [] c = "irq" -> <<<<"pushzero">>, Push("rax")>> \o Save \o KernelData("rdx")
                      \o <<<<"rsp", "rdi">>, <<"handler", "rax">>, Push("rax")>>
                      \o do_IRQ \o <<<<"drop", 1>>>> \o RESTORE_ALL
    [] OTHER -> <<>>

GateOf_Mutant(v) == CASE v = 2 -> "nmi" [] v \in {8, 17} \cup 10 .. 13 -> "error" [] OTHER -> "zero"

\* sys_vector_init with the stubs of entry.S.
GateOf(v) == CASE v = 2 -> "nmi" [] v \in {8, 17} \cup 10 .. 14 -> "error" [] OTHER -> "zero"

-----------------------------------------------------------------------------
(* Execution *)

\* A word of memory or of a register is <<kind, value>>.
Zero == <<"number", 0>>
Junk == <<"junk", 0>>
MainRegs == [r \in Regs |-> <<"main", r>>]
Word(n) == IF n \in 1 .. Len(stack) THEN stack[n] ELSE Junk
Pushed(s, n, words) ==
  [k \in 1 .. (IF Len(s) > n + Len(words) THEN Len(s) ELSE n + Len(words)) |->
     IF k \in n + 1 .. n + Len(words) THEN words[k - n] ELSE s[k]]

Op == IF ip \in 1 .. Len(Stub(code)) THEN Stub(code)[ip] ELSE <<"none">>
Next1 == ip' = ip + 1
Outside == UNCHANGED <<IFlag, in_service, keys, trap, report, hit, nested>>

\* The address of the handler, or of ret_from_intr.
Handler == <<"label", "handler">>
MainStack == -1

PushWord ==
  /\ Op[1] \in {"push", "pushzero"}
  /\ stack' = Pushed(stack, sp, <<IF Op[1] = "push" THEN reg[Op[2]] ELSE Zero>>)
  /\ sp' = sp + 1
  /\ Next1 /\ UNCHANGED <<code, reg>> /\ Outside

SetRegister ==
  /\ Op[1] \in {"move", "const", "handler", "rsp", "load", "pop"}
  /\ reg' = [reg EXCEPT ![Op[2]] =
       CASE Op[1] = "move" -> reg[Op[3]] [] Op[1] = "const" -> <<"number", Op[3]>>
         [] Op[1] = "handler" -> Handler [] Op[1] = "rsp" -> <<"rsp", sp>>
         [] Op[1] = "load" -> Word(sp - Op[3]) [] Op[1] = "pop" -> Word(sp)]
  /\ sp' = IF Op[1] = "pop" THEN sp - 1 ELSE sp
  /\ Next1 /\ UNCHANGED <<code, stack>> /\ Outside

Exchange ==
  /\ Op[1] = "xchg"
  /\ reg' = [reg EXCEPT !["rax"] = Word(sp)]
  /\ stack' = Pushed(stack, sp - 1, <<reg["rax"]>>)
  /\ Next1 /\ UNCHANGED <<code, sp>> /\ Outside

Drop ==
  /\ Op[1] = "drop"
  /\ sp' = sp - Op[2]
  /\ Next1 /\ UNCHANGED <<code, reg, stack>> /\ Outside

\* callq *%rdx: anywhere, if the word was no handler's address.
Call ==
  /\ Op[1] \in {"call", "do_nmi"}
  /\ IF Op[1] = "do_nmi" \/ reg["rdx"] = Handler
     THEN code' = "handler" /\ stack' = Pushed(stack, sp, <<Junk>>) /\ sp' = sp + 1
     ELSE code' = "lost" /\ UNCHANGED <<stack, sp>>
  /\ ip' = 1
  /\ UNCHANGED reg /\ Outside

Iretq ==
  /\ Op[1] = "iretq"
  /\ code' = Word(sp)[2][1] /\ ip' = Word(sp)[2][2]
  /\ IFlag' = Word(sp - 2)[2] /\ sp' = Word(sp - 3)[2]
  /\ UNCHANGED <<reg, stack, in_service, keys, trap, report, hit, nested>>

\* Every handler: p is the word RIP above the frame it is given in %rdi.
\* Then while(1).
do_trap ==
  /\ code = "handler"
  /\ LET e == reg["rsi"][2]
     IN report' = [vector |-> trap.vector, error |-> e, rip |-> Word(reg["rdi"][2] - RIP),
                   index |-> Index(trap.vector, e), says |-> Messages(trap.vector, e)]
  /\ code' = "halt" /\ ip' = 1
  /\ UNCHANGED <<reg, stack, sp, IFlag, in_service, keys, trap, hit, nested>>

\* do_IRQ reads the key and prints.  It keeps the registers a callee saves.
Work ==
  /\ Op[1] = "work"
  /\ reg' = [r \in Regs |-> IF r \in CalleeSaved \cup {"ds", "es"} THEN reg[r] ELSE Junk]
  /\ Next1 /\ UNCHANGED <<code, stack, sp>> /\ Outside

Eoi ==
  /\ Op[1] = "eoi"
  /\ in_service' = FALSE
  /\ Next1 /\ UNCHANGED <<code, reg, stack, sp, IFlag, keys, trap, report, hit, nested>>

-----------------------------------------------------------------------------
(* Delivery *)

\* The five words of the CPU; IF stays as it is.
CpuFrame ==
  <<<<"const", "ss">>, <<"rsp", sp>>, <<"rflags", IFlag>>, <<"const", "cs">>, <<"rip", <<code, ip>>>>>>

Key ==
  /\ IFlag /\ ~ in_service /\ code # "lost" /\ keys < MaxKeys
  /\ keys' = keys + 1 /\ in_service' = TRUE
  /\ stack' = Pushed(stack, 0, CpuFrame) /\ sp' = 5
  /\ hit' = (hit \/ code \in {"zero", "error", "nmi", "handler"})
  /\ nested' = (nested \/ code = "irq")
  /\ code' = "irq" /\ ip' = 1
  /\ UNCHANGED <<reg, IFlag, trap, report>>

\* A handler's locals lie where the frame of a key was pushed: when it goes on, it
\* is anywhere.  The stubs have registers only.
LoseHandler ==
  /\ code = "handler" /\ hit /\ Word(5)[2][1] = "handler"
  /\ code' = "lost" /\ ip' = 1
  /\ UNCHANGED <<reg, stack, sp>> /\ Outside

Sti ==
  /\ code = "main" /\ ~ IFlag
  /\ IFlag' = TRUE
  /\ UNCHANGED <<code, ip, reg, stack, sp, in_service, keys, trap, report, hit, nested>>

\* An exception in Start_Kernel, or in do_IRQ before its EOI.
Raise ==
  /\ trap = NoTrap
  /\ code = "main" \/ Op[1] = "work"
  /\ \E c \in Causes :
       /\ trap' = [vector |-> c.vector, error |-> c.error, rip |-> <<code, ip>>]
       /\ stack' = Pushed(stack, 0,
            CpuFrame \o (IF PushesError(c.vector) THEN <<<<"number", c.error>>>> ELSE <<>>))
       /\ sp' = IF PushesError(c.vector) THEN 6 ELSE 5
       /\ code' = GateOf(c.vector) /\ ip' = 1
  /\ UNCHANGED <<reg, IFlag, in_service, keys, report, hit, nested>>

Init ==
  /\ code = "main" /\ ip = 1
  /\ reg = MainRegs
  /\ stack = <<>> /\ sp = MainStack
  /\ IFlag = FALSE /\ in_service = FALSE /\ keys = 0
  /\ trap = NoTrap /\ report = NoReport
  /\ hit = FALSE /\ nested = FALSE

Execute ==
  \/ PushWord \/ SetRegister \/ Exchange \/ Drop \/ Call \/ Iretq
  \/ do_trap \/ Work \/ Eoi \/ LoseHandler

Next == Execute \/ Key \/ Sti \/ Raise

\* The CPU executes; exceptions and keys need not come.
Spec == Init /\ [][Next]_vars /\ WF_vars(Execute)

-----------------------------------------------------------------------------
(* Properties *)

Codes == {"main", "zero", "error", "nmi", "irq", "handler", "halt", "lost"}

\* No stub runs out of its code, and none leaves the two stacks it knows:
\* when iretq runs, exactly the CPU's five words are left.
TypeOK ==
  /\ code \in Codes
  /\ code \in {"zero", "error", "nmi", "irq"} => ip \in 1 .. Len(Stub(code))
  /\ sp \in {MainStack} \cup 0 .. 25
  /\ sp = MainStack <=> code = "main"
  /\ Op[1] = "iretq" => sp = 5
  /\ keys \in 0 .. MaxKeys
  /\ trap = NoTrap => report = NoReport

\* A handler that prints is the one of the exception.  The address, the error
\* code and the messages are those the CPU gave it, whether its gate's stub
\* pushed a word or the CPU did, unless a key came first: then the address
\* is never the right one, and the error code may read 0.
ReportTrue ==
  report # NoReport =>
    /\ report.vector = trap.vector
    /\ report.rip = <<"rip", trap.rip>> <=> ~ hit
    /\ LET e == IF PushesError(trap.vector) THEN trap.error ELSE 0
       IN /\ report.error = e \/ (hit /\ report.error = 0)
          /\ ~ hit /\ trap.vector \in SelectorFaults =>
               /\ report.says \ {"GDT or LDT"} = SelectorMeans(e)
               /\ report.index = 8 * (e \div 8)
          /\ ~ hit /\ trap.vector = PageFault =>
               report.says = PageFaultMeans(e) \ {"protection"}

\* Whatever do_IRQ and its entry code did to the registers, Start_Kernel goes
\* on with the ones it had, on its own stack.
IrqTransparent == code = "main" => reg = MainRegs /\ sp = MainStack

\* An exception is the end of Start_Kernel, and one inside do_IRQ, whose EOI
\* is never sent, the end of the keyboard too.
TrapIsFinal ==
  [][trap # NoTrap => code' # "main" /\ (trap.rip[1] = "irq" => keys' = keys)]_vars

\* Every exception is reported, unless keys destroy the way to the handler.
Reported == trap # NoTrap ~> report # NoReport \/ code = "lost" \/ nested
==============================================================================
