----------------------------- MODULE TrapsProofs -----------------------------
(***************************************************************************)
(* Theorems about Traps, for any number of keys and any exceptions: the    *)
(* state keeps its shape, an interrupt gives back what it took, nothing    *)
(* goes on after an exception, and a handler reports what the CPU said.    *)
(***************************************************************************)
EXTENDS Traps, TLAPS

-----------------------------------------------------------------------------
(* The invariant *)

TrapStubs == {"zero", "error", "nmi"}
Stubs == TrapStubs \cup {"irq"}
Lengths == [zero |-> 31, error |-> 30, nmi |-> 28, irq |-> 52]

\* How many words are pushed before instruction k of the interrupt's code,
IrqDepth(k) ==
  IF k <= 3 THEN k + 4 ELSE IF k <= 5 THEN 8 ELSE IF k <= 7 THEN 9 ELSE IF k = 8 THEN 10
  ELSE IF k <= 22 THEN k + 1 ELSE IF k <= 28 THEN 24 ELSE IF k <= 31 THEN 25
  ELSE IF k <= 46 THEN 56 - k ELSE IF k <= 48 THEN 9 ELSE IF k <= 50 THEN 8
  ELSE IF k = 51 THEN 7 ELSE 5

\* of "zero",
ZeroDepth(k) ==
  IF k <= 3 THEN k + 4 ELSE IF k = 4 THEN 7 ELSE IF k = 31 THEN 24 ELSE IrqDepth(k - 2)

\* and of each code: "error" is "zero" without its first instruction.
Depth(c, k) ==
  IF c = "zero" THEN ZeroDepth(k) ELSE IF c = "error" THEN ZeroDepth(k + 1)
  ELSE IF c \in {"nmi", "irq"} THEN IrqDepth(k) ELSE 25

\* Code c stands at instruction k with s words pushed.
At(c, k, s) ==
  /\ c \in Codes \ {"lost"}
  /\ IF c \in Stubs THEN k \in 1 .. Lengths[c] ELSE k = 1
  /\ s = IF c = "main" THEN MainStack ELSE Depth(c, k)

\* Where iretq goes: the code and the instruction, the stack and the flag.
ToCode == stack[5][2][1]
ToIp == stack[5][2][2]
ToSp == stack[2][2]
ToFlag == stack[3][2]

\* The code that an interrupt has interrupted, or else the one that runs.
RunCode == IF code = "irq" THEN ToCode ELSE code
RunIp == IF code = "irq" THEN ToIp ELSE ip

\* Where the interrupt's code keeps a register: instruction SaveAt pushes it,
\* and it lies in word Slot until RestoreAt has brought it back.
Slot == [rax |-> 8, es |-> 9, ds |-> 10, rbp |-> 11, rdi |-> 12, rsi |-> 13, rdx |-> 14,
  rcx |-> 15, rbx |-> 16, r8 |-> 17, r9 |-> 18, r10 |-> 19, r11 |-> 20, r12 |-> 21,
  r13 |-> 22, r14 |-> 23, r15 |-> 24]
SaveAt(r) ==
  IF r = "rax" THEN 3 ELSE IF r = "es" THEN 5 ELSE IF r = "ds" THEN 7 ELSE Slot[r] - 2
RestoreAt(r) ==
  IF r = "rax" THEN 50 ELSE IF r = "es" THEN 49 ELSE IF r = "ds" THEN 47 ELSE 56 - Slot[r]

\* What the code that was interrupted will have in r again.
RunReg(r) ==
  IF code = "irq" /\ SaveAt(r) < ip /\ ip <= RestoreAt(r) THEN stack[Slot[r]] ELSE reg[r]

RegShape == reg = [r \in Regs |-> reg[r]]
StackShape == Len(stack) \in Nat /\ DOMAIN stack = 1 .. Len(stack) /\ sp <= Len(stack)
Shape ==
  /\ code \in Codes
  /\ IF code = "lost" THEN sp \in 0 .. 25 ELSE At(code, ip, sp)
  /\ RegShape /\ StackShape
  /\ IFlag \in BOOLEAN /\ in_service \in BOOLEAN /\ hit \in BOOLEAN
  /\ keys \in 0 .. MaxKeys

\* An interrupt's frame is where it came from.  Its own code is interrupted
\* only after the EOI.
Framed ==
  code = "irq" =>
    /\ Len(stack) >= 5
    /\ stack[5] = <<"rip", <<ToCode, ToIp>>>>
    /\ At(ToCode, ToIp, ToSp) /\ ToSp <= Len(stack) /\ ToFlag \in BOOLEAN
    /\ ToCode = "irq" => ToIp > 30
    /\ ip <= 30 => in_service

\* Segment registers go through %rax.
ThroughRax ==
  /\ ip = 5 => reg["rax"] = reg["es"]
  /\ ip = 7 => reg["rax"] = reg["ds"]
  /\ ip = 47 => reg["rax"] = stack[10]
  /\ ip = 49 => reg["rax"] = stack[9]
Kept ==
  code = "irq" =>
    /\ \A r \in Regs : SaveAt(r) < ip => Slot[r] <= Len(stack)
    /\ ToCode # "irq" => ThroughRax
MainKept == RunCode = "main" => \A r \in Regs : RunReg(r) = MainRegs[r]

\* Before an exception, and from it to the end: the code of Start_Kernel never
\* runs again, and the code of an interrupt only for a key that came later.
Untrapped ==
  trap = NoTrap => report = NoReport /\ ~ hit /\ {code, RunCode} \subseteq {"main", "irq"}
Trapped == trap # NoTrap => RunCode # "main" /\ trap.rip[1] \in {"main", "irq"}
Is16Bits(e) == e \in Nat /\ e < 65536
Known == trap # NoTrap => trap.vector \in Int /\ Is16Bits(trap.error)
InIrqTrap == trap # NoTrap /\ trap.rip[1] = "irq" => in_service /\ code # "irq" /\ ~ hit
OwnStub == RunCode \in TrapStubs => RunCode = GateOf(trap.vector)
Hits == code = "irq" /\ RunCode \in TrapStubs \cup {"handler"} => hit
Done == report # NoReport => {code, RunCode} \subseteq {"halt", "irq"}
Phase == Untrapped /\ Trapped /\ Known /\ InIrqTrap /\ OwnStub /\ Hits /\ Done

\* The error code the CPU gave, or what stands for it; a key may clear it.
Error == IF PushesError(trap.vector) THEN trap.error ELSE 0
ErrorIs(w) == w = <<"number", Error>> \/ (hit /\ w = Zero)

\* The stub that runs, or will again, is past instruction at of its code.
RsiAt == [zero |-> 25, error |-> 24, nmi |-> 26]
RdiAt == [zero |-> 30, error |-> 29, nmi |-> 27]
Past(at) == RunCode = "handler" \/ (RunCode \in TrapStubs /\ RunIp > at[RunCode])
HasError == RunCode = "error" \/ (RunCode = "zero" /\ RunIp > 1)

\* What a stub carries to its handler: the frame, the error code and where they are.
Carried ==
  /\ RunCode \in TrapStubs \cup {"handler"} =>
       /\ Len(stack) >= 5
       /\ IF hit THEN ToCode # "main" ELSE stack[5] = <<"rip", trap.rip>>
  /\ HasError => Len(stack) >= 6 /\ ErrorIs(stack[6])
  /\ Past(RsiAt) => ErrorIs(RunReg("rsi"))
  /\ Past(RdiAt) => RunReg("rdi") = <<"rsp", 24>>

IInv == Shape /\ Framed /\ Kept /\ MainKept /\ Phase /\ Carried /\ ReportTrue

-----------------------------------------------------------------------------
(* The entry code, instruction by instruction *)

ZeroCode ==
  <<<<"pushzero">>, <<"push", "rax">>, <<"handler", "rax">>, <<"xchg">>,
    <<"push", "rax">>, <<"move", "rax", "es">>, <<"push", "rax">>,
    <<"move", "rax", "ds">>, <<"push", "rax">>, <<"const", "rax", 0>>,
    <<"push", "rbp">>, <<"push", "rdi">>, <<"push", "rsi">>, <<"push", "rdx">>,
    <<"push", "rcx">>, <<"push", "rbx">>, <<"push", "r8">>, <<"push", "r9">>,
    <<"push", "r10">>, <<"push", "r11">>, <<"push", "r12">>, <<"push", "r13">>,
    <<"push", "r14">>, <<"push", "r15">>, <<"load", "rsi", 18>>,
    <<"load", "rdx", 17>>, <<"const", "rdi", 16>>, <<"move", "ds", "rdi">>,
    <<"move", "es", "rdi">>, <<"rsp", "rdi">>, <<"call">>>>
ErrorCode ==
  <<<<"push", "rax">>, <<"handler", "rax">>, <<"xchg">>, <<"push", "rax">>,
    <<"move", "rax", "es">>, <<"push", "rax">>, <<"move", "rax", "ds">>,
    <<"push", "rax">>, <<"const", "rax", 0>>, <<"push", "rbp">>, <<"push", "rdi">>,
    <<"push", "rsi">>, <<"push", "rdx">>, <<"push", "rcx">>, <<"push", "rbx">>,
    <<"push", "r8">>, <<"push", "r9">>, <<"push", "r10">>, <<"push", "r11">>,
    <<"push", "r12">>, <<"push", "r13">>, <<"push", "r14">>, <<"push", "r15">>,
    <<"load", "rsi", 18>>, <<"load", "rdx", 17>>, <<"const", "rdi", 16>>,
    <<"move", "ds", "rdi">>, <<"move", "es", "rdi">>, <<"rsp", "rdi">>, <<"call">>>>
NmiCode ==
  <<<<"push", "rax">>, <<"push", "rax">>, <<"push", "rax">>, <<"move", "rax", "es">>,
    <<"push", "rax">>, <<"move", "rax", "ds">>, <<"push", "rax">>,
    <<"const", "rax", 0>>, <<"push", "rbp">>, <<"push", "rdi">>, <<"push", "rsi">>,
    <<"push", "rdx">>, <<"push", "rcx">>, <<"push", "rbx">>, <<"push", "r8">>,
    <<"push", "r9">>, <<"push", "r10">>, <<"push", "r11">>, <<"push", "r12">>,
    <<"push", "r13">>, <<"push", "r14">>, <<"push", "r15">>, <<"const", "rdx", 16>>,
    <<"move", "ds", "rdx">>, <<"move", "es", "rdx">>, <<"const", "rsi", 0>>,
    <<"rsp", "rdi">>, <<"do_nmi">>>>
IrqCode ==
  <<<<"pushzero">>, <<"push", "rax">>, <<"push", "rax">>, <<"move", "rax", "es">>,
    <<"push", "rax">>, <<"move", "rax", "ds">>, <<"push", "rax">>,
    <<"const", "rax", 0>>, <<"push", "rbp">>, <<"push", "rdi">>, <<"push", "rsi">>,
    <<"push", "rdx">>, <<"push", "rcx">>, <<"push", "rbx">>, <<"push", "r8">>,
    <<"push", "r9">>, <<"push", "r10">>, <<"push", "r11">>, <<"push", "r12">>,
    <<"push", "r13">>, <<"push", "r14">>, <<"push", "r15">>, <<"const", "rdx", 16>>,
    <<"move", "ds", "rdx">>, <<"move", "es", "rdx">>, <<"rsp", "rdi">>,
    <<"handler", "rax">>, <<"push", "rax">>, <<"work">>, <<"eoi">>, <<"drop", 1>>,
    <<"pop", "r15">>, <<"pop", "r14">>, <<"pop", "r13">>, <<"pop", "r12">>,
    <<"pop", "r11">>, <<"pop", "r10">>, <<"pop", "r9">>, <<"pop", "r8">>,
    <<"pop", "rbx">>, <<"pop", "rcx">>, <<"pop", "rdx">>, <<"pop", "rsi">>,
    <<"pop", "rdi">>, <<"pop", "rbp">>, <<"pop", "rax">>, <<"move", "ds", "rax">>,
    <<"pop", "rax">>, <<"move", "es", "rax">>, <<"pop", "rax">>, <<"drop", 2>>,
    <<"iretq">>>>

LEMMA Numbered ==
  \A k \in 1 .. 52 : k \in
    {1, 2, 3, 4, 5, 6, 7, 8, 9, 10, 11, 12, 13, 14, 15, 16, 17, 18, 19, 20, 21, 22, 23,
    24, 25, 26, 27, 28, 29, 30, 31, 32, 33, 34, 35, 36, 37, 38, 39, 40, 41, 42, 43, 44,
    45, 46, 47, 48, 49, 50, 51, 52}
OBVIOUS

LEMMA ZeroStub ==
  Len(Stub("zero")) = 31 /\ \A k \in 1 .. 31 : Stub("zero")[k] = ZeroCode[k]
BY Numbered
DEF ZeroCode, Stub, Save, Push, KernelData, PushFunc, CallHandler, ERRCODE, FUNC

LEMMA ErrorStub ==
  Len(Stub("error")) = 30 /\ \A k \in 1 .. 30 : Stub("error")[k] = ErrorCode[k]
BY Numbered
DEF ErrorCode, Stub, Save, Push, KernelData, PushFunc, CallHandler, ERRCODE, FUNC

LEMMA NmiStub ==
  Len(Stub("nmi")) = 28 /\ \A k \in 1 .. 28 : Stub("nmi")[k] = NmiCode[k]
BY Numbered
DEF NmiCode, Stub, Save, Push, KernelData, PushFunc, CallHandler, ERRCODE, FUNC

LEMMA IrqStub ==
  Len(Stub("irq")) = 52 /\ \A k \in 1 .. 52 : Stub("irq")[k] = IrqCode[k]
BY Numbered
DEF IrqCode, Stub, Save, Push, KernelData, PushFunc, CallHandler, ERRCODE, FUNC, do_IRQ, RESTORE_ALL

\* The places of the registers.
LEMMA IrqDepthInt ==
  \A k \in Int : IrqDepth(k) \in Int
BY DEF IrqDepth

LEMMA Slots ==
  \A r \in Regs : Slot[r] \in 8 .. 24 /\ SaveAt(r) \in 3 .. 22 /\ RestoreAt(r) \in 32 .. 50
BY DEF Regs, Slot, SaveAt, RestoreAt

\* What pushes in the interrupt's code: each register goes to its word, above
\* those that have theirs already.
LEMMA IrqPush ==
  ASSUME NEW k \in 1 .. 52, Stub("irq")[k][1] \in {"push", "pushzero"}
  PROVE  /\ k \in 1 .. 28 /\ k + 1 \notin {5, 7}
         /\ IrqDepth(k + 1) = IrqDepth(k) + 1 /\ IrqDepth(k) >= 5
         /\ IrqDepth(k) = 5 => Stub("irq")[k] = <<"pushzero">>
BY IrqStub, Numbered DEF IrqCode, IrqDepth

LEMMA IrqPushOf ==
  ASSUME NEW k \in 1 .. 52, Stub("irq")[k][1] \in {"push", "pushzero"}, NEW r \in Regs
  PROVE  /\ SaveAt(r) < k => Slot[r] <= IrqDepth(k)
         /\ SaveAt(r) = k =>
              /\ Slot[r] = IrqDepth(k) + 1 /\ Stub("irq")[k][1] = "push"
              /\ \/ Stub("irq")[k][2] = r
                 \/ k = 5 /\ r = "es" /\ Stub("irq")[k][2] = "rax"
                 \/ k = 7 /\ r = "ds" /\ Stub("irq")[k][2] = "rax"
BY IrqStub, Numbered DEF IrqCode, IrqDepth, Regs, Slot, SaveAt

\* What sets a register there: one that is kept, or is got back.
LEMMA IrqSet ==
  ASSUME NEW k \in 1 .. 52, Stub("irq")[k][1] \in {"move", "const", "handler", "rsp", "load", "pop"}
  PROVE  /\ k \in 4 .. 50
         /\ IrqDepth(k + 1) = IF Stub("irq")[k][1] = "pop" THEN IrqDepth(k) - 1 ELSE IrqDepth(k)
         /\ Stub("irq")[k][2] \in Regs
         /\ k = 4 => Stub("irq")[k] = <<"move", "rax", "es">>
         /\ k = 6 => Stub("irq")[k] = <<"move", "rax", "ds">>
         /\ k = 46 => Stub("irq")[k] = <<"pop", "rax">> /\ IrqDepth(k) = 10
         /\ k = 48 => Stub("irq")[k] = <<"pop", "rax">> /\ IrqDepth(k) = 9
BY IrqStub, Numbered DEF IrqCode, IrqDepth, Regs

LEMMA IrqSetOf ==
  ASSUME NEW k \in 1 .. 52, Stub("irq")[k][1] \in {"move", "const", "handler", "rsp", "load", "pop"},
         NEW r \in Regs
  PROVE  /\ SaveAt(r) # k
         /\ Stub("irq")[k][2] = r => SaveAt(r) < k /\ k <= RestoreAt(r)
         /\ RestoreAt(r) = k =>
              \/ Stub("irq")[k] = <<"pop", r>> /\ Slot[r] = IrqDepth(k)
              \/ Stub("irq")[k] = <<"move", "ds", "rax">> /\ r = "ds" /\ k = 47
              \/ Stub("irq")[k] = <<"move", "es", "rax">> /\ r = "es" /\ k = 49
BY IrqStub, Numbered DEF IrqCode, IrqDepth, Regs, Slot, SaveAt, RestoreAt

\* The rest of it.
LEMMA IrqOthers ==
  ASSUME NEW k \in 1 .. 52
  PROVE  /\ Stub("irq")[k][1] \in {"push", "pushzero", "move", "const", "handler", "rsp", "pop",
              "work", "eoi", "drop", "iretq"}
         /\ Stub("irq")[k][1] = "drop" =>
              k \in {31, 51} /\ IrqDepth(k + 1) = IrqDepth(k) - Stub("irq")[k][2]
         /\ Stub("irq")[k][1] = "work" => k = 29
         /\ Stub("irq")[k][1] = "eoi" => k = 30
         /\ k = 52 <=> Stub("irq")[k][1] = "iretq"
         /\ IrqDepth(k) \in 5 .. 25
BY IrqStub, Numbered DEF IrqCode, IrqDepth

\* The stubs of the exceptions: which instructions they hold,
SetOps == {"move", "const", "handler", "rsp", "load"}
StubOps(c, k, o) ==
  /\ o[1] \in {"push", "pushzero", "xchg", "call", "do_nmi"} \cup SetOps
  /\ o[1] \in {"call", "do_nmi"} <=> k = Lengths[c]
  /\ k = Lengths[c] => k > RsiAt[c] /\ k > RdiAt[c] /\ Depth(c, k) = 24

\* how many words they have pushed,
StubDepth(c, k, o) ==
  /\ Depth(c, k) \in 5 .. 24
  /\ o[1] \in {"push", "pushzero"} => Depth(c, k + 1) = Depth(c, k) + 1
  /\ o[1] \in SetOps \cup {"xchg"} => Depth(c, k + 1) = Depth(c, k)

\* what they do to the error code,
StubError(c, k, o) ==
  /\ o[1] = "xchg" => Depth(c, k) > 6
  /\ c = "zero" => (k = 1 <=> o[1] = "pushzero") /\ (k = 1 => Depth(c, k) = 5)
  /\ c # "zero" => o[1] # "pushzero"
  /\ c = "error" \/ (c = "zero" /\ k > 1) => Depth(c, k) >= 6

\* when they load the handler's arguments,
StubLoads(c, k, o) ==
  /\ k \in {RsiAt[c], RdiAt[c]} => o[1] \in SetOps /\ Depth(c, k) = 24
  /\ k = RsiAt[c] => o = IF c = "nmi" THEN <<"const", "rsi", 0>> ELSE <<"load", "rsi", 18>>
  /\ k = RdiAt[c] => o = <<"rsp", "rdi">>

\* and that they leave them alone from then on.
StubKeeps(c, k, o) ==
  o[1] \in SetOps =>
    /\ o[2] \in Regs
    /\ k > RsiAt[c] => o[2] # "rsi"
    /\ ~ k > RdiAt[c]

StubFacts(c, k, o) == StubOps(c, k, o) /\ StubDepth(c, k, o)
StubEffects(c, k, o) == StubError(c, k, o) /\ StubLoads(c, k, o) /\ StubKeeps(c, k, o)

LEMMA ZeroDoes ==
  ASSUME NEW c, c = "zero", NEW k \in 1 .. 31, NEW o, o = Stub(c)[k]
  PROVE  StubFacts(c, k, o) /\ StubEffects(c, k, o)
<1>1. StubOps(c, k, o)
  BY ZeroStub, Numbered
  DEF StubOps, Depth, IrqDepth, Lengths, RdiAt, RsiAt, SetOps, ZeroCode, ZeroDepth
<1>2. StubDepth(c, k, o)
  BY ZeroStub, Numbered DEF StubDepth, Depth, IrqDepth, SetOps, ZeroCode, ZeroDepth
<1>3. StubError(c, k, o)
  BY ZeroStub, Numbered DEF StubError, Depth, IrqDepth, ZeroCode, ZeroDepth
<1>4. StubLoads(c, k, o)
  BY ZeroStub, Numbered
  DEF StubLoads, Depth, IrqDepth, RdiAt, RsiAt, SetOps, ZeroCode, ZeroDepth
<1>5. StubKeeps(c, k, o)
  BY ZeroStub, Numbered DEF StubKeeps, RdiAt, Regs, RsiAt, SetOps, ZeroCode
<1> QED
  BY <1>1, <1>2, <1>3, <1>4, <1>5 DEF StubFacts, StubEffects

LEMMA ErrorDoes ==
  ASSUME NEW c, c = "error", NEW k \in 1 .. 30, NEW o, o = Stub(c)[k]
  PROVE  StubFacts(c, k, o) /\ StubEffects(c, k, o)
<1>1. StubOps(c, k, o)
  BY ErrorStub, Numbered
  DEF StubOps, Depth, ErrorCode, IrqDepth, Lengths, RdiAt, RsiAt, SetOps, ZeroDepth
<1>2. StubDepth(c, k, o)
  BY ErrorStub, Numbered DEF StubDepth, Depth, ErrorCode, IrqDepth, SetOps, ZeroDepth
<1>3. StubError(c, k, o)
  BY ErrorStub, Numbered DEF StubError, Depth, ErrorCode, IrqDepth, ZeroDepth
<1>4. StubLoads(c, k, o)
  BY ErrorStub, Numbered
  DEF StubLoads, Depth, ErrorCode, IrqDepth, RdiAt, RsiAt, SetOps, ZeroDepth
<1>5. StubKeeps(c, k, o)
  BY ErrorStub, Numbered DEF StubKeeps, ErrorCode, RdiAt, Regs, RsiAt, SetOps
<1> QED
  BY <1>1, <1>2, <1>3, <1>4, <1>5 DEF StubFacts, StubEffects

LEMMA NmiDoes ==
  ASSUME NEW c, c = "nmi", NEW k \in 1 .. 28, NEW o, o = Stub(c)[k]
  PROVE  StubFacts(c, k, o) /\ StubEffects(c, k, o)
<1>1. StubOps(c, k, o)
  BY NmiStub, Numbered DEF StubOps, Depth, IrqDepth, Lengths, NmiCode, RdiAt, RsiAt, SetOps
<1>2. StubDepth(c, k, o)
  BY NmiStub, Numbered DEF StubDepth, Depth, IrqDepth, NmiCode, SetOps
<1>3. StubError(c, k, o)
  BY NmiStub, Numbered DEF StubError, Depth, IrqDepth, NmiCode
<1>4. StubLoads(c, k, o)
  BY NmiStub, Numbered DEF StubLoads, Depth, IrqDepth, NmiCode, RdiAt, RsiAt, SetOps
<1>5. StubKeeps(c, k, o)
  BY NmiStub, Numbered DEF StubKeeps, NmiCode, RdiAt, Regs, RsiAt, SetOps
<1> QED
  BY <1>1, <1>2, <1>3, <1>4, <1>5 DEF StubFacts, StubEffects

LEMMA StubsDo ==
  ASSUME NEW c \in TrapStubs, NEW k \in 1 .. Lengths[c]
  PROVE  StubFacts(c, k, Stub(c)[k]) /\ StubEffects(c, k, Stub(c)[k])
BY ZeroDoes, ErrorDoes, NmiDoes DEF TrapStubs, Lengths

\* What Op is.
LEMMA OpIs ==
  ASSUME Shape
  PROVE  /\ code \in Stubs => ip \in 1 .. Lengths[code] /\ Op = Stub(code)[ip]
         /\ code \notin Stubs => Op = <<"none">>
<1>1. CASE code = "irq"
  BY <1>1, IrqStub DEF Shape, At, Op, Stubs, TrapStubs, Lengths
<1>2. CASE code = "zero"
  BY <1>2, ZeroStub DEF Shape, At, Op, Stubs, TrapStubs, Lengths
<1>3. CASE code = "error"
  BY <1>3, ErrorStub DEF Shape, At, Op, Stubs, TrapStubs, Lengths
<1>4. CASE code = "nmi"
  BY <1>4, NmiStub DEF Shape, At, Op, Stubs, TrapStubs, Lengths
<1>5. CASE code \notin Stubs
  BY <1>5 DEF Op, Stub, Stubs, TrapStubs
<1> QED
  BY <1>1, <1>2, <1>3, <1>4, <1>5 DEF Stubs, TrapStubs

\* Code of an interrupt.
LEMMA IrqDoes ==
  ASSUME Shape, code = "irq"
  PROVE  ip \in 1 .. 52 /\ Op = Stub("irq")[ip] /\ sp = IrqDepth(ip) /\ sp \in 5 .. 25
<1>1. ip \in 1 .. 52 /\ Op = Stub("irq")[ip]
  BY OpIs DEF Stubs, Lengths
<1>2. sp = IrqDepth(ip)
  BY DEF Shape, At, Depth
<1>3. IrqDepth(ip) \in 5 .. 25
  BY <1>1, IrqOthers
<1> QED
  BY <1>1, <1>2, <1>3

\* Words pushed onto a stack, with k words below n and the others as they were.
LEMMA PushedIs ==
  ASSUME NEW s, NEW n \in Nat, NEW w, Len(w) \in Nat, Len(s) \in Nat, DOMAIN s = 1 .. Len(s)
  PROVE  /\ Len(Pushed(s, n, w)) \in Nat
         /\ DOMAIN Pushed(s, n, w) = 1 .. Len(Pushed(s, n, w))
         /\ Len(Pushed(s, n, w)) >= Len(s) /\ Len(Pushed(s, n, w)) >= n + Len(w)
         /\ \A k \in 1 .. Len(w) : Pushed(s, n, w)[n + k] = w[k]
         /\ \A k \in 1 .. Len(s) : k \notin n + 1 .. n + Len(w) => Pushed(s, n, w)[k] = s[k]
BY DEF Pushed

\* One word.
LEMMA PushedOne ==
  ASSUME NEW s, NEW n \in Nat, NEW w, Len(s) \in Nat, DOMAIN s = 1 .. Len(s)
  PROVE  /\ Len(Pushed(s, n, <<w>>)) \in Nat
         /\ DOMAIN Pushed(s, n, <<w>>) = 1 .. Len(Pushed(s, n, <<w>>))
         /\ Len(Pushed(s, n, <<w>>)) >= Len(s) /\ Len(Pushed(s, n, <<w>>)) >= n + 1
         /\ Pushed(s, n, <<w>>)[n + 1] = w
         /\ \A k \in 1 .. Len(s) : k # n + 1 => Pushed(s, n, <<w>>)[k] = s[k]
BY PushedIs DEF Pushed

-----------------------------------------------------------------------------
(* Steps of the entry code *)

LEMMA AtIs ==
  ASSUME NEW c, NEW k, NEW s, At(c, k, s)
  PROVE  s \in {-1} \cup 0 .. 25 /\ (s = -1 <=> c = "main")
BY DEF At, Depth, ZeroDepth, IrqDepth, MainStack, Stubs, TrapStubs, Lengths

LEMMA SamePhase ==
  ASSUME Phase, RunCode' = RunCode, code' = code, trap' = trap, report' = report, hit' = hit,
         in_service' = in_service \/ code = "irq"
  PROVE  Phase'
BY DEF Phase, Untrapped, Trapped, Known, InIrqTrap, OwnStub, Hits, Done

\* The interrupt's next instruction, other than iretq.
IrqStep ==
  /\ code = "irq" /\ code' = "irq" /\ ip' = ip + 1 /\ ip < 52 /\ sp' = IrqDepth(ip + 1)
  /\ RegShape' /\ StackShape'
  /\ Len(stack') >= Len(stack)
  /\ \A k \in 1 .. 5 : stack'[k] = stack[k]
  /\ Len(stack) >= 6 => stack'[6] \in {stack[6], Zero}
  /\ in_service' \in BOOLEAN /\ (ip < 30 => in_service')
  /\ \A r \in Regs : SaveAt(r) < ip + 1 => Slot[r] <= Len(stack')
  /\ ToCode # "irq" => ThroughRax' /\ \A r \in Regs : RunReg(r)' = RunReg(r)
  /\ UNCHANGED <<IFlag, keys, trap, report, hit, nested>>

\* leaves what the interrupted code relies on.
LEMMA InIrq ==
  ASSUME IInv, IrqStep
  PROVE  IInv'
<1>1. ip \in 1 .. 52 /\ Len(stack) \in Nat /\ Len(stack) >= 5 /\ code = "irq"
  BY DEF IInv, Shape, At, Stubs, TrapStubs, Lengths, Framed, StackShape, IrqStep
<1>2. /\ \A k \in 1 .. 5 : stack'[k] = stack[k]
      /\ Len(stack') \in Nat /\ Len(stack') >= Len(stack) /\ Len(stack') >= 5
  BY <1>1 DEF IrqStep, StackShape
<1>3. ToCode' = ToCode /\ ToIp' = ToIp /\ ToSp' = ToSp /\ ToFlag' = ToFlag
  BY <1>2 DEF ToCode, ToIp, ToSp, ToFlag
<1>4. RunCode' = RunCode /\ RunIp' = RunIp /\ RunCode = ToCode
  BY <1>3 DEF RunCode, RunIp, IrqStep
<1>5. Shape'
  BY <1>1 DEF IInv, Shape, IrqStep, At, Depth, Stubs, TrapStubs, Lengths, Codes
<1>6. Framed'
  <2>1. At(ToCode, ToIp, ToSp) /\ ToSp <= Len(stack) /\ ToFlag \in BOOLEAN
        /\ stack[5] = <<"rip", <<ToCode, ToIp>>>> /\ (ToCode = "irq" => ToIp > 30)
    BY <1>1 DEF IInv, Framed
  <2>2. ToSp <= Len(stack')
    <3>1. ToSp \in {-1} \cup 0 .. 25
      BY <2>1, AtIs
    <3>2. Len(stack) \in Nat /\ Len(stack') \in Nat /\ Len(stack') >= Len(stack)
      BY <1>1, <1>2
    <3>3. ToSp <= Len(stack)
      BY <2>1
    <3> HIDE DEF ToSp
    <3> QED
      BY <3>1, <3>2, <3>3
  <2>3. At(ToCode', ToIp', ToSp')
    BY <2>1, <1>3
  <2>4. ip' <= 30 => in_service'
    BY <1>1 DEF IrqStep
  <2> QED
    BY <1>1, <1>2, <1>3, <2>1, <2>2, <2>3, <2>4 DEF Framed
<1>7. Kept'
  BY <1>3 DEF Kept, IrqStep
<1>8. MainKept'
  BY <1>4 DEF IInv, MainKept, IrqStep
<1>9. Phase'
  <2>1. code' = code /\ trap' = trap /\ report' = report /\ hit' = hit
    BY DEF IrqStep
  <2> QED
    BY <1>1, <1>4, <2>1, SamePhase DEF IInv
<1>10. Carried'
  <2>1. trap' = trap /\ hit' = hit /\ (Len(stack) >= 6 => stack'[6] \in {stack[6], Zero})
    BY DEF IrqStep
  <2>2. \A w : ErrorIs(w)' <=> ErrorIs(w)
    BY <2>1 DEF ErrorIs, Error
  <2>3. ASSUME RunCode \in TrapStubs \cup {"handler"}
        PROVE  hit /\ RunReg("rsi")' = RunReg("rsi") /\ RunReg("rdi")' = RunReg("rdi")
    BY <2>3, <1>1, <1>4 DEF IInv, Phase, Hits, TrapStubs, IrqStep, Regs
  <2>4. HasError' => Len(stack') >= 6 /\ ErrorIs(stack'[6])
    BY <1>1, <1>2, <1>4, <2>1, <2>3 DEF IInv, Carried, HasError, ErrorIs, TrapStubs
  <2>5. Past(RsiAt)' => ErrorIs(RunReg("rsi"))'
    BY <1>4, <2>2, <2>3 DEF IInv, Carried, Past
  <2>6. Past(RdiAt)' => RunReg("rdi")' = <<"rsp", 24>>
    BY <1>4, <2>3 DEF IInv, Carried, Past
  <2>7. (RunCode \in TrapStubs \cup {"handler"} =>
          Len(stack) >= 5 /\ IF hit THEN ToCode # "main" ELSE stack[5] = <<"rip", trap.rip>>)'
    BY <1>2, <1>3, <1>4, <2>1 DEF IInv, Carried
  <2> QED
    BY <2>1, <2>2, <2>4, <2>5, <2>6, <2>7 DEF Carried, ErrorIs, Error
<1>11. ReportTrue'
  BY DEF IInv, ReportTrue, IrqStep
<1> QED
  BY <1>5, <1>6, <1>7, <1>8, <1>9, <1>10, <1>11 DEF IInv

\* A stub's next instruction, other than its call,
StubStep ==
  /\ code \in TrapStubs /\ code' = code /\ ip' = ip + 1 /\ ip < Lengths[code]
  /\ sp' = Depth(code, ip + 1)
  /\ RegShape' /\ StackShape'
  /\ Len(stack') >= Len(stack)
  /\ \A k \in 1 .. 5 : stack'[k] = stack[k]
  /\ HasError' => Len(stack') >= 6 /\ ErrorIs(stack'[6])
  /\ Past(RsiAt)' => ErrorIs(reg'["rsi"])
  /\ Past(RdiAt)' => reg'["rdi"] = <<"rsp", 24>>
  /\ UNCHANGED <<IFlag, in_service, keys, trap, report, hit, nested>>

\* leaves what its handler relies on.
LEMMA InStub ==
  ASSUME IInv, StubStep
  PROVE  IInv'
<1>1. /\ code \in TrapStubs /\ code' = code /\ code # "irq" /\ ip \in 1 .. Lengths[code]
      /\ RunCode = code /\ RunCode' = code /\ ip' = ip + 1 /\ ip' \in 1 .. Lengths[code]
  <2>1. code \in TrapStubs /\ code' = code /\ ip' = ip + 1 /\ ip < Lengths[code]
    BY DEF StubStep
  <2>2. code # "irq" /\ Lengths[code] \in Nat
    BY <2>1 DEF TrapStubs, Lengths
  <2>3. ip \in 1 .. Lengths[code]
    BY <2>1 DEF IInv, Shape, At, Stubs, TrapStubs
  <2>4. RunCode = code /\ RunCode' = code
    BY <2>1, <2>2 DEF RunCode
  <2>5. ip' \in 1 .. Lengths[code]
    BY <2>1, <2>2, <2>3
  <2> QED
    BY <2>1, <2>2, <2>3, <2>4, <2>5
<1>2. Len(stack) >= 5 /\ Len(stack) \in Nat /\ Len(stack') \in Nat /\ Len(stack') >= Len(stack)
  BY <1>1 DEF IInv, Shape, Carried, StackShape, StubStep
<1>3. /\ \A k \in 1 .. 5 : stack'[k] = stack[k]
      /\ trap' = trap /\ report' = report /\ hit' = hit /\ in_service' = in_service
  BY DEF StubStep
<1>4. ToCode' = ToCode
  BY <1>3 DEF ToCode
<1>5. Shape'
  BY <1>1 DEF IInv, Shape, StubStep, At, Stubs, TrapStubs
<1>6. Framed' /\ Kept' /\ MainKept'
  BY <1>1 DEF Framed, Kept, MainKept, TrapStubs
<1>7. Phase'
  BY <1>1, <1>3, SamePhase DEF IInv
<1>8. Carried'
  <2>1. \A w : ErrorIs(w)' <=> ErrorIs(w)
    BY <1>3 DEF ErrorIs, Error
  <2>2. RunReg("rsi")' = reg'["rsi"] /\ RunReg("rdi")' = reg'["rdi"]
    BY <1>1 DEF RunReg
  <2>3. (RunCode \in TrapStubs \cup {"handler"} =>
          Len(stack) >= 5 /\ IF hit THEN ToCode # "main" ELSE stack[5] = <<"rip", trap.rip>>)'
    BY <1>1, <1>2, <1>3, <1>4 DEF IInv, Carried
  <2>4. HasError' => Len(stack') >= 6 /\ ErrorIs(stack'[6])
    BY DEF StubStep
  <2>5. Past(RsiAt)' => ErrorIs(reg'["rsi"])
    BY DEF StubStep
  <2>6. Past(RdiAt)' => reg'["rdi"] = <<"rsp", 24>>
    BY DEF StubStep
  <2> QED
    BY <1>3, <2>2, <2>3, <2>4, <2>5, <2>6 DEF Carried, ErrorIs, Error
<1>9. ReportTrue'
  BY DEF IInv, ReportTrue, StubStep
<1> QED
  BY <1>5, <1>6, <1>7, <1>8, <1>9 DEF IInv

-----------------------------------------------------------------------------
(* Every action keeps the invariant *)

LEMMA PushOnto ==
  ASSUME StackShape, NEW n \in Nat, NEW w, stack' = Pushed(stack, n, <<w>>), sp' <= n + 1,
         sp' \in Int
  PROVE  /\ StackShape' /\ Len(stack') \in Nat /\ Len(stack') >= Len(stack) /\ Len(stack') >= n + 1
         /\ stack'[n + 1] = w
         /\ \A k \in 1 .. Len(stack) : k # n + 1 => stack'[k] = stack[k]
<1>1. /\ Len(stack') \in Nat /\ DOMAIN stack' = 1 .. Len(stack')
      /\ Len(stack') >= Len(stack) /\ Len(stack') >= n + 1
  BY DEF Pushed, StackShape
<1>2. stack'[n + 1] = w
  BY DEF Pushed, StackShape
<1>3. \A k \in 1 .. Len(stack) : k # n + 1 => stack'[k] = stack[k]
  BY DEF Pushed, StackShape
<1>4. sp' <= Len(stack')
  BY <1>1
<1> QED
  BY <1>1, <1>2, <1>3, <1>4 DEF StackShape

LEMMA PushKeeps ==
  ASSUME IInv, PushWord
  PROVE  IInv'
<1> DEFINE word == IF Op[1] = "push" THEN reg[Op[2]] ELSE Zero
<1>1. Shape /\ StackShape /\ RegShape
  BY DEF IInv, Shape
<1>2. /\ Op[1] \in {"push", "pushzero"} /\ code \in Stubs /\ ip \in 1 .. Lengths[code]
      /\ Op = Stub(code)[ip]
  BY <1>1, OpIs DEF PushWord
<1>3. /\ stack' = Pushed(stack, sp, <<word>>) /\ sp' = sp + 1 /\ ip' = ip + 1
      /\ code' = code /\ reg' = reg
      /\ UNCHANGED <<IFlag, in_service, keys, trap, report, hit, nested>>
  BY DEF PushWord, Next1, Outside
<1>4. sp = Depth(code, ip)
  BY <1>1, <1>2 DEF Shape, At, Stubs, TrapStubs
<1> HIDE DEF word
<1>5. CASE code = "irq"
  <2>1. /\ ip \in 1 .. 28 /\ ip + 1 \notin {5, 7} /\ sp = IrqDepth(ip)
        /\ IrqDepth(ip + 1) = sp + 1 /\ sp >= 5 /\ sp \in Nat
        /\ sp = 5 => Op = <<"pushzero">>
    <3>1. ip \in 1 .. 52 /\ Op = Stub("irq")[ip] /\ sp = IrqDepth(ip) /\ sp \in 5 .. 25
      BY <1>1, <1>5, IrqDoes
    <3>2. /\ ip \in 1 .. 28 /\ ip + 1 \notin {5, 7} /\ IrqDepth(ip + 1) = IrqDepth(ip) + 1
          /\ IrqDepth(ip) = 5 => Op = <<"pushzero">>
      BY <1>2, <3>1, IrqPush
    <3>3. sp >= 5 /\ sp \in Nat
      BY <3>1
    <3> QED
      BY <3>1, <3>2, <3>3
  <2>2. /\ StackShape' /\ Len(stack') >= Len(stack) /\ Len(stack') >= sp + 1
        /\ stack'[sp + 1] = word
        /\ \A k \in 1 .. Len(stack) : k # sp + 1 => stack'[k] = stack[k]
    BY <1>1, <1>3, <2>1, PushOnto
  <2>3. /\ Len(stack) \in Nat /\ Len(stack) >= 5 /\ Len(stack') \in Nat /\ Len(stack') >= sp + 1
        /\ ip \in 1 .. 28 /\ sp \in Nat
    BY <1>1, <1>5, <2>1, <2>2 DEF IInv, Framed, StackShape
  <2>4. \A k \in 1 .. 5 : stack'[k] = stack[k]
    <3> TAKE k \in 1 .. 5
    <3>1. k \in 1 .. Len(stack) /\ k # sp + 1
      BY <2>1, <2>3
    <3> QED
      BY <2>2, <3>1
  <2>5. Len(stack) >= 6 => stack'[6] \in {stack[6], Zero}
    <3>1. CASE sp = 5
      BY <2>1, <2>2, <3>1 DEF word
    <3>2. CASE sp # 5
      <4> HAVE Len(stack) >= 6
      <4>1. 6 \in 1 .. Len(stack) /\ 6 # sp + 1
        BY <2>3, <3>2
      <4> QED
        BY <2>2, <4>1
    <3> QED
      BY <3>1, <3>2
  <2>6. ASSUME NEW r \in Regs, NEW s \in 3 .. 22, NEW t \in 8 .. 24, NEW u \in 32 .. 50,
               s = SaveAt(r), t = Slot[r], u = RestoreAt(r)
        PROVE  /\ s < ip + 1 => t <= Len(stack')
               /\ ToCode # "irq" => RunReg(r)' = RunReg(r)
    <3>1. /\ RunReg(r) = IF s < ip THEN stack[t] ELSE reg[r]
          /\ RunReg(r)' = IF s <= ip THEN stack'[t] ELSE reg[r]
      <4>1. /\ RunReg(r) = IF s < ip /\ ip <= u THEN stack[t] ELSE reg[r]
            /\ RunReg(r)' = IF s < ip' /\ ip' <= u THEN stack'[t] ELSE reg'[r]
        BY <1>3, <1>5, <2>6, Zenon DEF RunReg
      <4>2. ip <= u /\ ip' <= u /\ (s < ip' <=> s <= ip)
        BY <1>3, <2>3
      <4> QED
        BY <1>3, <4>1, <4>2
    <3>0. /\ ip \in 1 .. 52 /\ Op = Stub("irq")[ip]
          /\ Stub("irq")[ip][1] \in {"push", "pushzero"}
      BY <1>2, <1>5, <2>3
    <3>a. /\ SaveAt(r) < ip => Slot[r] <= IrqDepth(ip)
          /\ SaveAt(r) = ip =>
               /\ Slot[r] = IrqDepth(ip) + 1 /\ Stub("irq")[ip][1] = "push"
               /\ \/ Stub("irq")[ip][2] = r
                  \/ ip = 5 /\ r = "es" /\ Stub("irq")[ip][2] = "rax"
                  \/ ip = 7 /\ r = "ds" /\ Stub("irq")[ip][2] = "rax"
      BY <3>0, IrqPushOf, Zenon
    <3>2. (s < ip => t <= sp) /\ (s = ip => t = sp + 1)
      BY <2>1, <2>6, <3>a
    <3>3. s < ip + 1 => t <= Len(stack')
      BY <2>3, <3>2
    <3>4. CASE s < ip
      <4>1. t <= Len(stack)
        BY <1>5, <2>6, <3>4 DEF IInv, Kept
      <4>2. t \in 1 .. Len(stack) /\ t # sp + 1
        BY <2>3, <3>2, <3>4, <4>1
      <4>3. stack'[t] = stack[t]
        BY <2>2, <4>2
      <4>4. s <= ip
        BY <3>4, <2>3
      <4> QED
        BY <3>1, <3>3, <3>4, <4>3, <4>4
    <3>5. CASE s = ip
      <4>1. SaveAt(r) = ip /\ ip \in 1 .. 52
        BY <2>3, <2>6, <3>5
      <4>2. /\ Op[1] = "push"
            /\ Op[2] = r \/ (ip = 5 /\ r = "es" /\ Op[2] = "rax") \/ (ip = 7 /\ r = "ds" /\ Op[2] = "rax")
        <5>1. /\ Stub("irq")[ip][1] = "push"
              /\ \/ Stub("irq")[ip][2] = r
                 \/ ip = 5 /\ r = "es" /\ Stub("irq")[ip][2] = "rax"
                 \/ ip = 7 /\ r = "ds" /\ Stub("irq")[ip][2] = "rax"
          BY <4>1, <3>a, Zenon
        <5> QED
          BY <3>0, <5>1, Zenon
      <4>3. ToCode # "irq" => word = reg[r]
        BY <1>5, <4>2 DEF word, IInv, Kept, ThroughRax
      <4>4. s <= ip /\ ~ s < ip
        BY <3>5, <2>3
      <4>5. stack'[t] = word
        BY <2>2, <3>2, <3>5
      <4> QED
        BY <3>1, <3>3, <4>3, <4>4, <4>5
    <3>6. CASE ip < s
      <4>1. ~ s <= ip /\ ~ s < ip
        BY <3>6, <2>3
      <4> QED
        BY <3>1, <3>3, <4>1
    <3> QED
      BY <2>3, <3>4, <3>5, <3>6
  <2>7. ThroughRax'
    BY <1>3, <2>1 DEF ThroughRax
  <2>8. in_service' \in BOOLEAN /\ (ip < 30 => in_service')
    BY <1>1, <1>3, <1>5, <2>1 DEF IInv, Shape, Framed
  <2>9. RegShape'
    BY <1>1, <1>3 DEF RegShape
  <2>10. \A r \in Regs : /\ SaveAt(r) < ip + 1 => Slot[r] <= Len(stack')
                         /\ ToCode # "irq" => RunReg(r)' = RunReg(r)
    <3> TAKE r \in Regs
    <3>1. SaveAt(r) \in 3 .. 22 /\ Slot[r] \in 8 .. 24 /\ RestoreAt(r) \in 32 .. 50
      BY Slots, Zenon
    <3> QED
      BY <2>6, <3>1, Zenon
  <2>11. ip < 52 /\ sp' = IrqDepth(ip + 1)
    BY <1>3, <2>1
  <2>12. IrqStep
    BY <1>3, <1>5, <2>2, <2>4, <2>5, <2>7, <2>8, <2>9, <2>10, <2>11 DEF IrqStep
  <2> QED
    BY <2>12, InIrq
<1>6. CASE code # "irq"
  <2>1. code \in TrapStubs /\ RunCode = code /\ RunCode' = code /\ RunIp' = ip + 1
    BY <1>2, <1>3, <1>6 DEF Stubs, RunCode, RunIp
  <2>2. StubFacts(code, ip, Op) /\ StubEffects(code, ip, Op)
    BY <1>2, <2>1, StubsDo
  <2>3. sp \in Nat /\ sp >= 5 /\ Depth(code, ip + 1) = sp + 1 /\ ip # Lengths[code]
    BY <1>2, <1>4, <2>2 DEF StubFacts, StubOps, StubDepth
  <2>4. ip \in Nat /\ Lengths[code] \in Nat /\ ip < Lengths[code]
    BY <1>2, <2>1, <2>3 DEF Lengths, TrapStubs
  <2>5. /\ StackShape' /\ Len(stack') >= Len(stack) /\ Len(stack') >= sp + 1
        /\ stack'[sp + 1] = word /\ Len(stack') \in Nat
        /\ \A k \in 1 .. Len(stack) : k # sp + 1 => stack'[k] = stack[k]
    <3>1. sp \in Nat /\ sp' <= sp + 1 /\ sp' \in Int
      BY <1>3, <2>3
    <3> QED
      BY <1>1, <1>3, <3>1, PushOnto
  <2>6. Len(stack) \in Nat /\ Len(stack) >= 5
    BY <1>1, <2>1 DEF IInv, Carried, StackShape
  <2>7. \A k \in 1 .. 5 : stack'[k] = stack[k]
    BY <2>3, <2>5, <2>6
  <2>8. (Past(RsiAt)' => Past(RsiAt)) /\ (Past(RdiAt)' => Past(RdiAt))
    <3>1. ip # RsiAt[code] /\ ip # RdiAt[code] /\ RsiAt[code] \in Nat /\ RdiAt[code] \in Nat
      BY <1>2, <2>1, <2>2
      DEF StubEffects, StubError, StubLoads, StubKeeps, RsiAt, RdiAt, SetOps, TrapStubs
    <3>2. (ip + 1 > RsiAt[code] => ip > RsiAt[code]) /\ (ip + 1 > RdiAt[code] => ip > RdiAt[code])
      BY <2>4, <3>1
    <3> QED
      BY <1>6, <2>1, <3>2 DEF Past, RunIp, RunCode
  <2>9. RunReg("rsi") = reg["rsi"] /\ RunReg("rdi") = reg["rdi"]
    BY <1>6 DEF RunReg
  <2>10. (Past(RsiAt)' => ErrorIs(reg["rsi"])) /\ (Past(RdiAt)' => reg["rdi"] = <<"rsp", 24>>)
    BY <2>8, <2>9 DEF IInv, Carried
  <2>11. HasError' => Len(stack') >= 6 /\ ErrorIs(stack'[6])
    <3>1. CASE code = "zero" /\ ip = 1
      <4>1. Op[1] = "pushzero" /\ sp = 5
        BY <1>4, <2>2, <3>1 DEF StubEffects, StubError, StubLoads, StubKeeps
      <4>2. word = Zero /\ Error = 0
        BY <2>1, <3>1, <4>1
        DEF word, IInv, Phase, OwnStub, GateOf, Error, PushesError, SelectorFaults,
            PageFault
      <4> QED
        BY <2>5, <4>1, <4>2 DEF ErrorIs, Zero
    <3>2. CASE HasError
      <4>1. sp >= 6
        BY <1>2, <1>4, <2>1, <2>2, <2>4, <3>2
        DEF HasError, StubEffects, StubError, StubLoads, StubKeeps, RunIp
      <4>2. Len(stack) >= 6 /\ ErrorIs(stack[6])
        BY <3>2 DEF IInv, Carried
      <4> QED
        BY <2>3, <2>5, <2>6, <4>1, <4>2
    <3> QED
      BY <2>1, <2>4, <3>1, <3>2 DEF HasError, RunIp, RunCode
  <2>12. RegShape'
    BY <1>1, <1>3 DEF RegShape
  <2>13. StubStep
    BY <1>3, <2>1, <2>3, <2>4, <2>5, <2>7, <2>10, <2>11, <2>12 DEF StubStep
  <2> QED
    BY <2>13, InStub
<1> QED
  BY <1>5, <1>6

LEMMA SetKeeps ==
  ASSUME IInv, SetRegister
  PROVE  IInv'
<1> DEFINE value ==
       CASE Op[1] = "move" -> reg[Op[3]] [] Op[1] = "const" -> <<"number", Op[3]>>
         [] Op[1] = "handler" -> Handler [] Op[1] = "rsp" -> <<"rsp", sp>>
         [] Op[1] = "load" -> Word(sp - Op[3]) [] Op[1] = "pop" -> Word(sp)
<1>1. Shape /\ StackShape /\ RegShape
  BY DEF IInv, Shape
<1>2. /\ Op[1] \in {"move", "const", "handler", "rsp", "load", "pop"} /\ code \in Stubs
      /\ ip \in 1 .. Lengths[code] /\ Op = Stub(code)[ip]
  BY <1>1, OpIs DEF SetRegister
<1>3. /\ sp' = (IF Op[1] = "pop" THEN sp - 1 ELSE sp) /\ ip' = ip + 1
      /\ code' = code /\ stack' = stack
      /\ UNCHANGED <<IFlag, in_service, keys, trap, report, hit, nested>>
  BY DEF SetRegister, Next1, Outside
<1>4. reg' = [reg EXCEPT ![Op[2]] = value]
  BY DEF SetRegister
<1>5. sp = Depth(code, ip) /\ Len(stack) \in Nat
  BY <1>1, <1>2 DEF Shape, At, Stubs, TrapStubs, StackShape
<1> HIDE DEF value
<1>6. RegShape' /\ \A r \in Regs : reg'[r] = IF r = Op[2] THEN value ELSE reg[r]
  BY <1>1, <1>4 DEF RegShape
<1>7. CASE code = "irq"
  <2>1. /\ ip \in 4 .. 50 /\ sp = IrqDepth(ip) /\ sp \in Int /\ ip \in 1 .. 52
        /\ IrqDepth(ip + 1) = IF Op[1] = "pop" THEN sp - 1 ELSE sp
    <3>1. ip \in 1 .. 52 /\ Op = Stub("irq")[ip] /\ sp = IrqDepth(ip)
      BY <1>2, <1>5, <1>7 DEF Depth, Lengths
    <3>2. sp \in Int
      BY <3>1, IrqDepthInt
    <3>3. ip \in 4 .. 50 /\ IrqDepth(ip + 1) = IF Op[1] = "pop" THEN IrqDepth(ip) - 1 ELSE IrqDepth(ip)
      BY <1>2, <3>1, IrqSet
    <3> QED
      BY <3>1, <3>2, <3>3
  <2>2. sp' = IrqDepth(ip + 1) /\ StackShape'
    BY <1>1, <1>3, <2>1 DEF StackShape
  <2>3. /\ Op[2] \in Regs
        /\ ip = 4 => Op = <<"move", "rax", "es">>
        /\ ip = 6 => Op = <<"move", "rax", "ds">>
        /\ ip = 46 => Op = <<"pop", "rax">> /\ sp = 10
        /\ ip = 48 => Op = <<"pop", "rax">> /\ sp = 9
    BY <1>2, <1>7, <2>1, IrqSet
  <2>4. sp <= Len(stack)
    BY <1>1 DEF StackShape
  <2>5. ASSUME NEW r \in Regs, NEW s \in 3 .. 22, NEW t \in 8 .. 24, NEW u \in 32 .. 50,
               s = SaveAt(r), t = Slot[r], u = RestoreAt(r)
        PROVE  /\ s < ip + 1 => t <= Len(stack')
               /\ ToCode # "irq" => RunReg(r)' = RunReg(r)
    <3>1. /\ RunReg(r) = IF s < ip /\ ip <= u THEN stack[t] ELSE reg[r]
          /\ RunReg(r)' = IF s < ip' /\ ip' <= u THEN stack'[t] ELSE reg'[r]
      BY <1>3, <1>7, <2>5, Zenon DEF RunReg
    <3>2. s # ip
      BY <1>2, <1>7, <2>1, <2>5, IrqSetOf
    <3>3. s < ip' <=> s < ip
      BY <1>3, <2>1, <3>2
    <3>4. s < ip => t <= Len(stack)
      BY <1>7, <2>5 DEF IInv, Kept
    <3>5. s < ip + 1 => t <= Len(stack')
      BY <1>3, <2>1, <3>3, <3>4
    <3>6. CASE ip = u
      <4>1. s < ip /\ ip <= u /\ ~ ip' <= u
        BY <1>3, <2>1, <3>6
      <4>2. RunReg(r) = stack[t] /\ RunReg(r)' = reg'[r] /\ t <= Len(stack)
        BY <3>1, <3>4, <4>1
      <4>3. RestoreAt(r) = ip
        BY <2>5, <3>6
      <4>4. \/ Op = <<"pop", r>> /\ t = sp
            \/ Op = <<"move", "ds", "rax">> /\ r = "ds" /\ ip = 47 /\ t = 10
            \/ Op = <<"move", "es", "rax">> /\ r = "es" /\ ip = 49 /\ t = 9
        BY <1>2, <1>7, <2>1, <2>5, <4>3, IrqSetOf DEF Slot
      <4>5. ToCode # "irq" => value = stack[t]
        <5>1. CASE Op = <<"pop", r>> /\ t = sp
          BY <1>5, <2>4, <4>2, <5>1 DEF value, Word
        <5>2. CASE Op = <<"move", "ds", "rax">> /\ ip = 47 /\ t = 10
          BY <1>7, <5>2 DEF value, IInv, Kept, ThroughRax
        <5>3. CASE Op = <<"move", "es", "rax">> /\ ip = 49 /\ t = 9
          BY <1>7, <5>3 DEF value, IInv, Kept, ThroughRax
        <5> QED
          BY <4>4, <5>1, <5>2, <5>3
      <4>6. Op[2] = r
        BY <4>4
      <4> QED
        BY <1>6, <3>5, <4>2, <4>5, <4>6
    <3>7. CASE ip # u /\ Op[2] = r
      <4>1. s < ip /\ ip <= u
        BY <1>2, <1>7, <2>1, <2>5, <3>7, IrqSetOf
      <4>2. ip' <= u
        BY <1>3, <2>1, <3>7, <4>1
      <4> QED
        BY <1>3, <3>1, <3>3, <3>5, <4>1, <4>2
    <3>8. CASE ip # u /\ Op[2] # r
      <4>1. ip' <= u <=> ip <= u
        BY <1>3, <2>1, <3>8
      <4> QED
        BY <1>3, <1>6, <3>1, <3>3, <3>5, <3>8, <4>1
    <3> QED
      BY <3>6, <3>7, <3>8
  <2>6. ThroughRax'
    <3>1. CASE ip = 4
      BY <1>3, <1>6, <2>3, <3>1 DEF ThroughRax, value, Regs
    <3>2. CASE ip = 6
      BY <1>3, <1>6, <2>3, <3>2 DEF ThroughRax, value, Regs
    <3>3. CASE ip = 46
      BY <1>3, <1>5, <1>6, <2>3, <2>4, <3>3 DEF ThroughRax, value, Regs, Word
    <3>4. CASE ip = 48
      BY <1>3, <1>5, <1>6, <2>3, <2>4, <3>4 DEF ThroughRax, value, Regs, Word
    <3>5. CASE ip' \notin {5, 7, 47, 49}
      BY <3>5 DEF ThroughRax
    <3> QED
      BY <1>3, <2>1, <3>1, <3>2, <3>3, <3>4, <3>5
  <2>7. \A r \in Regs : /\ SaveAt(r) < ip + 1 => Slot[r] <= Len(stack')
                        /\ ToCode # "irq" => RunReg(r)' = RunReg(r)
    <3> TAKE r \in Regs
    <3>1. SaveAt(r) \in 3 .. 22 /\ Slot[r] \in 8 .. 24 /\ RestoreAt(r) \in 32 .. 50
      BY Slots, Zenon
    <3> QED
      BY <2>5, <3>1, Zenon
  <2>8. in_service' \in BOOLEAN /\ (ip < 30 => in_service')
    BY <1>1, <1>3, <1>7, <2>1 DEF IInv, Shape, Framed
  <2>9. IrqStep
    BY <1>3, <1>5, <1>6, <1>7, <2>1, <2>2, <2>6, <2>7, <2>8 DEF IrqStep
  <2> QED
    BY <2>9, InIrq
<1>8. CASE code # "irq"
  <2>1. code \in TrapStubs /\ RunCode = code /\ RunCode' = code /\ RunIp' = ip + 1
    BY <1>2, <1>3, <1>8 DEF Stubs, RunCode, RunIp
  <2>2. StubFacts(code, ip, Op) /\ StubEffects(code, ip, Op)
    BY <1>2, <2>1, StubsDo
  <2>3. /\ Op[1] \in SetOps /\ sp \in Nat /\ sp >= 5 /\ sp' = sp
        /\ Depth(code, ip + 1) = sp /\ ip # Lengths[code]
    <3>1. Op[1] \in SetOps /\ Op[1] \notin {"call", "do_nmi", "pop"}
      BY <1>2, <2>2 DEF StubFacts, StubOps, SetOps
    <3>2. ip # Lengths[code]
      BY <2>2, <3>1 DEF StubFacts, StubOps
    <3>3. Depth(code, ip) \in 5 .. 24 /\ Depth(code, ip + 1) = Depth(code, ip)
      BY <2>2, <3>1 DEF StubFacts, StubDepth
    <3>4. sp = Depth(code, ip) /\ sp' = sp
      BY <1>3, <1>5, <3>1
    <3> QED
      BY <3>1, <3>2, <3>3, <3>4
  <2>4. /\ ip \in Nat /\ Lengths[code] \in Nat /\ ip < Lengths[code]
        /\ RsiAt[code] \in Nat /\ RdiAt[code] \in Nat
    BY <1>2, <2>1, <2>3 DEF Lengths, TrapStubs, RsiAt, RdiAt
  <2>5. RunReg("rsi") = reg["rsi"] /\ {"rsi", "rdi"} \subseteq Regs
    BY <1>8 DEF RunReg, Regs
  <2>6. Past(RsiAt)' => ErrorIs(reg'["rsi"])
    <3>1. Past(RsiAt)' => ip > RsiAt[code] \/ ip = RsiAt[code]
      BY <2>1, <2>4 DEF Past, TrapStubs
    <3>2. CASE ip > RsiAt[code]
      <4>1. Past(RsiAt)
        BY <1>8, <2>1, <3>2 DEF Past, RunIp
      <4>2. Op[2] # "rsi"
        BY <2>2, <2>3, <3>2 DEF StubEffects, StubError, StubLoads, StubKeeps
      <4> QED
        BY <1>6, <2>5, <4>1, <4>2 DEF IInv, Carried
    <3>3. CASE ip = RsiAt[code] /\ code = "nmi"
      <4>1. Op = <<"const", "rsi", 0>>
        BY <2>2, <3>3 DEF StubEffects, StubError, StubLoads, StubKeeps
      <4>2. Error = 0
        BY <2>1, <3>3
        DEF IInv, Phase, OwnStub, GateOf, Error, PushesError, SelectorFaults, PageFault
      <4> QED
        BY <1>6, <2>5, <4>1, <4>2 DEF value, ErrorIs
    <3>4. CASE ip = RsiAt[code] /\ code # "nmi"
      <4>1. Op = <<"load", "rsi", 18>> /\ sp = 24
        BY <1>5, <2>2, <3>4 DEF StubEffects, StubError, StubLoads, StubKeeps
      <4>2. HasError
        BY <1>8, <2>1, <3>4 DEF HasError, TrapStubs, RsiAt, RunIp
      <4>3. Len(stack) >= 6 /\ ErrorIs(stack[6])
        BY <4>2 DEF IInv, Carried
      <4>4. value = stack[6]
        BY <1>5, <4>1, <4>3 DEF value, Word
      <4> QED
        BY <1>6, <2>5, <4>1, <4>3, <4>4
    <3> QED
      BY <3>1, <3>2, <3>3, <3>4
  <2>7. Past(RdiAt)' => reg'["rdi"] = <<"rsp", 24>>
    <3>1. ~ ip > RdiAt[code]
      BY <2>2, <2>3 DEF StubEffects, StubError, StubLoads, StubKeeps
    <3>2. CASE ip = RdiAt[code]
      <4>1. Op = <<"rsp", "rdi">> /\ sp = 24
        BY <1>5, <2>2, <3>2 DEF StubEffects, StubError, StubLoads, StubKeeps
      <4> QED
        BY <1>6, <2>5, <4>1 DEF value
    <3>3. CASE ip < RdiAt[code]
      BY <2>1, <2>4, <3>3 DEF Past, TrapStubs
    <3> QED
      BY <2>4, <3>1, <3>2, <3>3
  <2>8. HasError' => Len(stack') >= 6 /\ ErrorIs(stack'[6])
    <3>1. code = "zero" => ip # 1
      BY <2>2, <2>3 DEF StubEffects, StubError, StubLoads, StubKeeps, SetOps
    <3>2. HasError' => HasError
      BY <1>2, <1>8, <2>1, <2>4, <3>1 DEF HasError, RunIp, RunCode
    <3> QED
      BY <1>3, <3>2 DEF IInv, Carried
  <2>9. Len(stack) >= 5 /\ StackShape'
    BY <1>1, <1>3, <2>1, <2>3 DEF IInv, Carried, StackShape
  <2>10. StubStep
    BY <1>3, <1>5, <1>6, <2>1, <2>3, <2>4, <2>6, <2>7, <2>8, <2>9 DEF StubStep
  <2> QED
    BY <2>10, InStub
<1> QED
  BY <1>7, <1>8

\* The work of do_IRQ, its EOI, and the words dropped after both: where every
\* register is kept, or has been brought back.
LEMMA IrqPlain ==
  ASSUME IInv, code = "irq", code' = "irq", stack' = stack, ip' = ip + 1, ip \in {29, 30, 31, 51},
         ip = 51 => reg' = reg, RegShape', sp' = IrqDepth(ip + 1), sp' <= sp, sp' \in Int,
         in_service' \in BOOLEAN, ip < 30 => in_service',
         UNCHANGED <<IFlag, keys, trap, report, hit, nested>>
  PROVE  IInv'
<1>1. Shape /\ StackShape /\ Len(stack) \in Nat /\ sp \in Int
  <2>1. Shape /\ StackShape /\ At(code, ip, sp)
    BY DEF IInv, Shape
  <2>2. sp \in {-1} \cup 0 .. 25
    BY <2>1, AtIs
  <2> QED
    BY <2>1, <2>2 DEF StackShape
<1>2. StackShape'
  BY <1>1 DEF StackShape
<1>3. ASSUME NEW r \in Regs
      PROVE  (SaveAt(r) < ip + 1 => Slot[r] <= Len(stack')) /\ RunReg(r)' = RunReg(r)
  <2>1. PICK s \in 3 .. 22, t \in 8 .. 24, u \in 32 .. 50 :
          s = SaveAt(r) /\ t = Slot[r] /\ u = RestoreAt(r)
    <3>1. SaveAt(r) \in 3 .. 22 /\ Slot[r] \in 8 .. 24 /\ RestoreAt(r) \in 32 .. 50
      BY Slots, Zenon
    <3> QED
      BY <3>1, Zenon
  <2>2. /\ RunReg(r) = IF s < ip /\ ip <= u THEN stack[t] ELSE reg[r]
        /\ RunReg(r)' = IF s < ip' /\ ip' <= u THEN stack[t] ELSE reg'[r]
    BY <2>1, Zenon DEF RunReg
  <2>3. s < ip /\ s < ip'
    OBVIOUS
  <2>4. Slot[r] <= Len(stack')
    BY <2>1, <2>3 DEF IInv, Kept
  <2>5. RunReg(r)' = RunReg(r)
    <3>1. CASE ip = 51
      BY <2>2, <3>1
    <3>2. CASE ip # 51
      BY <2>2, <2>3, <3>2
    <3> QED
      BY <3>1, <3>2
  <2> QED
    BY <2>4, <2>5, Zenon
<1>4. \A r \in Regs : /\ SaveAt(r) < ip + 1 => Slot[r] <= Len(stack')
                      /\ ToCode # "irq" => RunReg(r)' = RunReg(r)
  BY <1>3, Zenon
<1>5. ThroughRax'
  BY DEF ThroughRax
<1>6. IrqStep
  BY <1>1, <1>2, <1>4, <1>5 DEF IrqStep
<1> QED
  BY <1>6, InIrq

LEMMA IrqOnly ==
  ASSUME IInv, Op[1] \in {"drop", "work", "eoi", "iretq"}
  PROVE  /\ code = "irq" /\ ip \in 1 .. 52 /\ Op = Stub("irq")[ip]
         /\ sp = IrqDepth(ip) /\ sp \in Nat
<1>1. Shape
  BY DEF IInv
<1>2. code \in Stubs /\ ip \in 1 .. Lengths[code] /\ Op = Stub(code)[ip]
  BY <1>1, OpIs
<1>3. code \notin TrapStubs
  BY <1>2, StubsDo DEF StubFacts, StubOps, StubDepth, SetOps
<1>4. code = "irq" /\ ip \in 1 .. 52 /\ Op = Stub("irq")[ip]
  BY <1>2, <1>3 DEF Stubs, Lengths
<1>5. sp = IrqDepth(ip) /\ sp \in 5 .. 25
  BY <1>1, <1>4, IrqDoes
<1> QED
  BY <1>4, <1>5

LEMMA DropKeeps ==
  ASSUME IInv, Drop
  PROVE  IInv'
<1>1. /\ Op[1] = "drop" /\ code = "irq" /\ ip \in 1 .. 52 /\ Op = Stub("irq")[ip]
      /\ sp = IrqDepth(ip) /\ sp \in Nat
  BY IrqOnly DEF Drop
<1>2. ip \in {31, 51} /\ IrqDepth(ip + 1) = IrqDepth(ip) - Op[2]
  BY <1>1, IrqOthers
<1>3. IrqDepth(ip + 1) \in Int /\ IrqDepth(ip + 1) <= IrqDepth(ip)
  BY <1>2 DEF IrqDepth
<1>4. /\ code' = code /\ stack' = stack /\ reg' = reg /\ ip' = ip + 1 /\ sp' = IrqDepth(ip + 1)
      /\ in_service' = in_service /\ UNCHANGED <<IFlag, keys, trap, report, hit, nested>>
  BY <1>1, <1>2 DEF Drop, Next1, Outside
<1>5. RegShape' /\ in_service' \in BOOLEAN
  BY <1>4 DEF IInv, Shape, RegShape
<1> QED
  BY <1>1, <1>2, <1>3, <1>4, <1>5, IrqPlain

LEMMA WorkKeeps ==
  ASSUME IInv, Work
  PROVE  IInv'
<1>1. /\ Op[1] = "work" /\ code = "irq" /\ ip \in 1 .. 52 /\ Op = Stub("irq")[ip]
      /\ sp = IrqDepth(ip) /\ sp \in Nat
  BY IrqOnly DEF Work
<1>2. ip = 29
  BY <1>1, IrqOthers
<1>3. IrqDepth(ip + 1) = sp
  BY <1>1, <1>2 DEF IrqDepth
<1>4. /\ code' = code /\ stack' = stack /\ ip' = ip + 1 /\ sp' = sp
      /\ in_service' = in_service /\ UNCHANGED <<IFlag, keys, trap, report, hit, nested>>
  BY DEF Work, Next1, Outside
<1>5. RegShape'
  BY DEF Work, RegShape
<1>6. in_service' \in BOOLEAN /\ (ip < 30 => in_service')
  BY <1>1, <1>2, <1>4 DEF IInv, Shape, Framed
<1> QED
  BY <1>1, <1>2, <1>3, <1>4, <1>5, <1>6, IrqPlain

LEMMA EoiKeeps ==
  ASSUME IInv, Eoi
  PROVE  IInv'
<1>1. /\ Op[1] = "eoi" /\ code = "irq" /\ ip \in 1 .. 52 /\ Op = Stub("irq")[ip]
      /\ sp = IrqDepth(ip) /\ sp \in Nat
  BY IrqOnly DEF Eoi
<1>2. ip = 30
  BY <1>1, IrqOthers
<1>3. IrqDepth(ip + 1) = sp
  BY <1>1, <1>2 DEF IrqDepth
<1>4. /\ code' = code /\ stack' = stack /\ reg' = reg /\ ip' = ip + 1 /\ sp' = sp
      /\ in_service' = FALSE /\ UNCHANGED <<IFlag, keys, trap, report, hit, nested>>
  BY DEF Eoi, Next1
<1>5. RegShape'
  BY <1>4 DEF IInv, Shape, RegShape
<1>6. in_service' \in BOOLEAN /\ ~ ip < 30
  <2>1. in_service' \in BOOLEAN
    BY <1>4, Zenon
  <2>2. ~ ip < 30
    BY <1>2
  <2> QED
    BY <2>1, <2>2
<1>7. code' = "irq" /\ sp' = IrqDepth(ip + 1) /\ sp' <= sp /\ sp' \in Int /\ ip \in {29, 30, 31, 51}
  BY <1>1, <1>2, <1>3, <1>4
<1> QED
  BY <1>1, <1>4, <1>5, <1>6, <1>7, IrqPlain

LEMMA ExchangeKeeps ==
  ASSUME IInv, Exchange
  PROVE  IInv'
<1>1. Shape /\ StackShape /\ RegShape
  BY DEF IInv, Shape
<1>2. /\ Op[1] = "xchg" /\ code \in Stubs /\ ip \in 1 .. Lengths[code] /\ Op = Stub(code)[ip]
  BY <1>1, OpIs DEF Exchange
<1>3. code # "irq"
  BY <1>1, <1>2, IrqDoes, IrqOthers
<1>4. /\ reg' = [reg EXCEPT !["rax"] = Word(sp)]
      /\ stack' = Pushed(stack, sp - 1, <<reg["rax"]>>)
      /\ ip' = ip + 1 /\ code' = code /\ sp' = sp
      /\ UNCHANGED <<IFlag, in_service, keys, trap, report, hit, nested>>
  BY DEF Exchange, Next1, Outside
<1>5. /\ code \in TrapStubs /\ RunCode = code /\ RunCode' = code /\ RunIp = ip /\ RunIp' = ip + 1
  BY <1>2, <1>3, <1>4 DEF Stubs, RunCode, RunIp
<1>6. StubFacts(code, ip, Op) /\ StubEffects(code, ip, Op) /\ sp = Depth(code, ip)
  BY <1>1, <1>2, <1>5, StubsDo DEF Shape, At, Stubs, TrapStubs
<1>7. sp \in Nat /\ sp > 6 /\ Depth(code, ip + 1) = sp /\ ip # Lengths[code]
  BY <1>2, <1>6 DEF StubFacts, StubOps, StubDepth, StubEffects, StubError, StubLoads, StubKeeps
<1>8. /\ ip \in Nat /\ Lengths[code] \in Nat /\ ip < Lengths[code]
      /\ RsiAt[code] \in Nat /\ RdiAt[code] \in Nat
      /\ ip # RsiAt[code] /\ ip # RdiAt[code] /\ (code = "zero" => ip # 1)
  BY <1>2, <1>5, <1>6, <1>7
  DEF Lengths, TrapStubs, RsiAt, RdiAt, StubEffects, StubError, StubLoads, StubKeeps,
      SetOps
<1>9. /\ StackShape' /\ Len(stack') >= Len(stack)  /\ Len(stack') \in Nat
      /\ \A k \in 1 .. Len(stack) : k # sp => stack'[k] = stack[k]
  <2>1. sp - 1 \in Nat /\ sp - 1 + 1 = sp /\ sp' <= sp - 1 + 1 /\ sp' \in Int
    BY <1>4, <1>7
  <2> QED
    BY <1>1, <1>4, <2>1, PushOnto
<1>10. RegShape' /\ reg'["rsi"] = reg["rsi"] /\ reg'["rdi"] = reg["rdi"]
  BY <1>1, <1>4 DEF RegShape, Regs
<1>11. RunReg("rsi") = reg["rsi"] /\ RunReg("rdi") = reg["rdi"]
  BY <1>3 DEF RunReg
<1>12. Len(stack) \in Nat /\ Len(stack) >= 5
  BY <1>1, <1>5 DEF IInv, Carried, StackShape
<1>13. \A k \in 1 .. 5 : stack'[k] = stack[k]
  BY <1>7, <1>9, <1>12
<1>14. (Past(RsiAt)' => Past(RsiAt)) /\ (Past(RdiAt)' => Past(RdiAt))
  <2>1. (ip + 1 > RsiAt[code] => ip > RsiAt[code]) /\ (ip + 1 > RdiAt[code] => ip > RdiAt[code])
    BY <1>8
  <2> QED
    BY <1>5, <2>1 DEF Past
<1>15. HasError' => Len(stack') >= 6 /\ ErrorIs(stack'[6])
  <2>1. HasError' => HasError
    BY <1>5, <1>8 DEF HasError
  <2>2. HasError => Len(stack) >= 6 /\ ErrorIs(stack[6])
    BY DEF IInv, Carried
  <2>3. Len(stack) >= 6 => stack'[6] = stack[6]
    BY <1>7, <1>9, <1>12
  <2> QED
    BY <1>9, <1>12, <2>1, <2>2, <2>3
<1>16. (Past(RsiAt)' => ErrorIs(reg'["rsi"])) /\ (Past(RdiAt)' => reg'["rdi"] = <<"rsp", 24>>)
  BY <1>10, <1>11, <1>14 DEF IInv, Carried
<1>17. StubStep
  BY <1>4, <1>5, <1>7, <1>8, <1>9, <1>10, <1>13, <1>15, <1>16 DEF StubStep
<1> QED
  BY <1>17, InStub

\* A stub calls its handler, or goes anywhere.
LEMMA CallKeeps ==
  ASSUME IInv, Call
  PROVE  IInv'
<1>1. Shape /\ StackShape /\ RegShape /\ Phase
  BY DEF IInv, Shape
<1>2. /\ Op[1] \in {"call", "do_nmi"} /\ code \in Stubs /\ ip \in 1 .. Lengths[code]
      /\ Op = Stub(code)[ip]
  BY <1>1, OpIs DEF Call
<1>3. code # "irq"
  BY <1>1, <1>2, IrqDoes, IrqOthers
<1>4. code \in TrapStubs /\ RunCode = code /\ RunIp = ip
  BY <1>2, <1>3 DEF Stubs, RunCode, RunIp
<1>5. StubFacts(code, ip, Op) /\ sp = Depth(code, ip)
  BY <1>1, <1>2, <1>4, StubsDo DEF Shape, At, Stubs, TrapStubs
<1>6. sp = 24 /\ ip > RsiAt[code] /\ ip > RdiAt[code]
  BY <1>2, <1>5 DEF StubFacts, StubOps, StubDepth
<1>7. trap # NoTrap /\ report = NoReport
  BY <1>1, <1>4 DEF Phase, Untrapped, Done, TrapStubs
<1>8. /\ reg' = reg /\ ip' = 1 /\ UNCHANGED <<IFlag, in_service, keys, trap, report, hit, nested>>
      /\ code' \in {"handler", "lost"}
  BY DEF Call, Outside
<1>9. RunCode' = code'
  BY <1>8 DEF RunCode
<1>10. Phase'
  <2>1. Untrapped' /\ Trapped' /\ Known'
    BY <1>1, <1>7, <1>8, <1>9 DEF Phase, Untrapped, Trapped, Known
  <2>2. InIrqTrap' /\ OwnStub' /\ Hits' /\ Done'
    BY <1>1, <1>7, <1>8, <1>9 DEF Phase, InIrqTrap, OwnStub, Hits, Done, TrapStubs
  <2> QED
    BY <2>1, <2>2 DEF Phase
<1>11. Framed' /\ Kept' /\ MainKept'
  BY <1>8, <1>9 DEF Framed, Kept, MainKept
<1>12. ReportTrue'
  BY <1>8 DEF IInv, ReportTrue
<1>13. CASE code' = "lost"
  <2>1. stack' = stack /\ sp' = sp
    BY <1>13 DEF Call
  <2>2. Shape'
    BY <1>1, <1>6, <1>8, <1>13, <2>1 DEF Shape, RegShape, StackShape, Codes
  <2>3. Carried'
    BY <1>9, <1>13 DEF Carried, HasError, Past, TrapStubs
  <2> QED
    BY <1>10, <1>11, <1>12, <2>2, <2>3 DEF IInv
<1>14. CASE code' = "handler"
  <2>1. stack' = Pushed(stack, sp, <<Junk>>) /\ sp' = sp + 1
    BY <1>14 DEF Call
  <2>2. /\ StackShape' /\ Len(stack') >= Len(stack) /\ Len(stack') \in Nat
        /\ \A k \in 1 .. Len(stack) : k # sp + 1 => stack'[k] = stack[k]
    BY <1>1, <1>6, <2>1, PushOnto
  <2>3. Len(stack) \in Nat /\ Len(stack) >= 5
    BY <1>1, <1>4 DEF IInv, Carried, StackShape
  <2>4. \A k \in 1 .. 5 : stack'[k] = stack[k]
    BY <1>6, <2>2, <2>3
  <2>5. Shape'
    BY <1>1, <1>6, <1>8, <1>14, <2>1, <2>2
    DEF Shape, RegShape, At, Codes, Stubs, TrapStubs, Depth
  <2>6. Carried'
    <3>1. /\ Len(stack) >= 5 /\ IF hit THEN ToCode # "main" ELSE stack[5] = <<"rip", trap.rip>>
          /\ ErrorIs(RunReg("rsi")) /\ RunReg("rdi") = <<"rsp", 24>>
      BY <1>4, <1>6 DEF IInv, Carried, Past
    <3>2. RunReg("rsi")' = RunReg("rsi") /\ RunReg("rdi")' = RunReg("rdi")
      BY <1>3, <1>8 DEF RunReg
    <3>3. ToCode' = ToCode /\ stack'[5] = stack[5] /\ Len(stack') >= 5
      BY <2>2, <2>3, <2>4 DEF ToCode
    <3>4. ErrorIs(RunReg("rsi"))'
      BY <1>8, <3>1, <3>2 DEF ErrorIs, Error
    <3>5. ~ HasError'
      BY <1>9, <1>14 DEF HasError
    <3> QED
      BY <1>8, <3>1, <3>2, <3>3, <3>4, <3>5 DEF Carried
  <2> QED
    BY <1>10, <1>11, <1>12, <2>5, <2>6 DEF IInv
<1> QED
  BY <1>8, <1>13, <1>14

\* iretq: what an interrupt has interrupted goes on.
LEMMA IretqKeeps ==
  ASSUME IInv, Iretq
  PROVE  IInv'
<1>1. /\ Op[1] = "iretq" /\ code = "irq" /\ ip \in 1 .. 52 /\ Op = Stub("irq")[ip]
      /\ sp = IrqDepth(ip) /\ sp \in Nat
  BY IrqOnly DEF Iretq
<1>2. ip = 52 /\ sp = 5
  BY <1>1, IrqOthers DEF IrqDepth
<1>3. Shape /\ RegShape /\ StackShape /\ Phase /\ Len(stack) \in Nat
  BY DEF IInv, Shape, StackShape
<1>4. /\ Len(stack) >= 5 /\ At(ToCode, ToIp, ToSp) /\ ToSp <= Len(stack) /\ ToFlag \in BOOLEAN
      /\ stack[5] = <<"rip", <<ToCode, ToIp>>>> /\ (ToCode = "irq" => ToIp > 30)
  BY <1>1 DEF IInv, Framed
<1>5. /\ code' = ToCode /\ ip' = ToIp /\ IFlag' = ToFlag /\ sp' = ToSp
  BY <1>2, <1>4 DEF Iretq, Word, ToCode, ToIp, ToSp, ToFlag
<1>6. UNCHANGED <<reg, stack, in_service, keys, trap, report, hit, nested>>
  BY DEF Iretq
<1>7. RunCode = ToCode /\ RunIp = ToIp
  BY <1>1 DEF RunCode, RunIp
<1>8. ToCode' = ToCode /\ ToIp' = ToIp /\ ToSp' = ToSp /\ ToFlag' = ToFlag
  BY <1>6 DEF ToCode, ToIp, ToSp, ToFlag
<1>9. RunCode' = RunCode /\ RunIp' = RunIp
  BY <1>5, <1>7, <1>8 DEF RunCode, RunIp
<1>10. ASSUME NEW r \in Regs PROVE RunReg(r) = reg[r] /\ SaveAt(r) < 52
  <2>1. /\ SaveAt(r) < 52 /\ ~ 52 <= RestoreAt(r)
    BY Slots
  <2> QED
    BY <1>2, <2>1 DEF RunReg
<1>11. ASSUME NEW r \in Regs, ToCode # "irq" PROVE RunReg(r)' = reg[r]
  BY <1>5, <1>6, <1>11 DEF RunReg
<1>12. Shape'
  BY <1>3, <1>4, <1>5, <1>6 DEF Shape, RegShape, StackShape, At
<1>13. Framed'
  <2>1. ToCode = "irq" => ~ ToIp <= 30
    <3>1. ASSUME NEW k, NEW s, At("irq", k, s)
          PROVE  k > 30 => ~ k <= 30
      <4>1. k \in 1 .. 52
        BY <3>1 DEF At, Stubs, Lengths
      <4> QED
        BY <4>1
    <3> QED
      BY <1>4, <3>1
  <2> QED
    BY <1>4, <1>5, <1>6, <1>8, <2>1 DEF Framed, At
<1>14. Kept'
  <2>1. \A r \in Regs : Slot[r] <= Len(stack)
    BY <1>1, <1>2, <1>10 DEF IInv, Kept
  <2> QED
    BY <1>5, <1>6, <1>8, <2>1 DEF Kept
<1>15. MainKept'
  BY <1>7, <1>9, <1>10, <1>11 DEF IInv, MainKept
<1>16. Phase'
  <2>1. Untrapped' /\ Trapped' /\ Known'
    BY <1>3, <1>5, <1>6, <1>7, <1>9 DEF Phase, Untrapped, Trapped, Known
  <2>2. InIrqTrap' /\ OwnStub' /\ Hits' /\ Done'
    BY <1>1, <1>3, <1>5, <1>6, <1>7, <1>9 DEF Phase, InIrqTrap, OwnStub, Hits, Done, TrapStubs
  <2> QED
    BY <2>1, <2>2 DEF Phase
<1>17. Carried'
  <2>1. \A w : ErrorIs(w)' <=> ErrorIs(w)
    BY <1>6 DEF ErrorIs, Error
  <2>2. RunCode \in TrapStubs \cup {"handler"} =>
          RunReg("rsi")' = RunReg("rsi") /\ RunReg("rdi")' = RunReg("rdi")
    BY <1>7, <1>10, <1>11 DEF TrapStubs, Regs
  <2>3. HasError' = HasError /\ Past(RsiAt)' = Past(RsiAt) /\ Past(RdiAt)' = Past(RdiAt)
    BY <1>9 DEF HasError, Past
  <2>4. (HasError => Len(stack) >= 6 /\ ErrorIs(stack[6]))'
    BY <1>6, <2>1, <2>3 DEF IInv, Carried
  <2>5. (Past(RsiAt) => ErrorIs(RunReg("rsi")))'
    <3>1. Past(RsiAt)' => ErrorIs(RunReg("rsi"))
      BY <2>3 DEF IInv, Carried
    <3>2. Past(RsiAt)' => RunReg("rsi")' = RunReg("rsi")
      BY <2>2, <2>3 DEF Past
    <3> QED
      BY <1>6, <3>1, <3>2 DEF ErrorIs, Error
  <2>6. (Past(RdiAt) => RunReg("rdi") = <<"rsp", 24>>)'
    BY <2>2, <2>3 DEF IInv, Carried, Past
  <2> QED
    BY <1>6, <1>8, <1>9, <2>4, <2>5, <2>6 DEF IInv, Carried
<1>18. ReportTrue'
  BY <1>6 DEF IInv, ReportTrue
<1> QED
  BY <1>12, <1>13, <1>14, <1>15, <1>16, <1>17, <1>18 DEF IInv

-----------------------------------------------------------------------------
(* What a report says *)

\* The messages of a handler for an error code of 16 bits are those of its bits.
LEMMA SelectorSays ==
  ASSUME NEW e
  PROVE  SelectorMessages(e) \ {"GDT or LDT"} = SelectorMeans(e)
<1>1. CASE Bit(e, 1)
  BY <1>1 DEF SelectorMessages, SelectorMeans
<1>2. CASE ~ Bit(e, 1) /\ Bit(e, 2)
  BY <1>2 DEF SelectorMessages, SelectorMeans
<1>3. CASE ~ Bit(e, 1) /\ ~ Bit(e, 2)
  BY <1>3 DEF SelectorMessages, SelectorMeans
<1> QED
  BY <1>1, <1>2, <1>3

LEMMA PageFaultSays ==
  ASSUME NEW e
  PROVE  PageFaultMessages(e) = PageFaultMeans(e) \ {"protection"}
BY DEF PageFaultMessages, PageFaultMeans

LEMMA IndexSays ==
  ASSUME NEW e, Is16Bits(e), NEW v \in SelectorFaults
  PROVE  Index(v, e) = 8 * (e \div 8)
BY DEF Index, Is16Bits

LEMMA MessagesIs ==
  ASSUME NEW v, NEW e
  PROVE  /\ v \in SelectorFaults => Messages(v, e) = SelectorMessages(e)
         /\ v = PageFault => Messages(v, e) = PageFaultMessages(e)
<1>1. CASE v \in SelectorFaults
  <2>1. v # PageFault
    BY <1>1 DEF SelectorFaults, PageFault
  <2> QED
    BY <1>1, <2>1 DEF Messages
<1>2. CASE v \notin SelectorFaults
  BY <1>2 DEF Messages
<1> QED
  BY <1>1, <1>2

\* What a handler that is given the right error code makes of it.
Says(v, says, index, e) ==
  /\ v \in SelectorFaults => says \ {"GDT or LDT"} = SelectorMeans(e) /\ index = 8 * (e \div 8)
  /\ v = PageFault => says = PageFaultMeans(e) \ {"protection"}

LEMMA HandlerSays ==
  ASSUME NEW v, NEW e, Is16Bits(e)
  PROVE  Says(v, Messages(v, e), Index(v, e), e)
<1>1. ASSUME v \in SelectorFaults
      PROVE  Messages(v, e) \ {"GDT or LDT"} = SelectorMeans(e)
  BY <1>1, MessagesIs, SelectorSays, Zenon
<1>2. ASSUME v \in SelectorFaults
      PROVE  Index(v, e) = 8 * (e \div 8)
  BY <1>2, IndexSays
<1>3. ASSUME v = PageFault
      PROVE  Messages(v, e) = PageFaultMeans(e) \ {"protection"}
  BY <1>3, MessagesIs, PageFaultSays, Zenon
<1> QED
  BY <1>1, <1>2, <1>3, Zenon DEF Says

LEMMA HandlerKeeps ==
  ASSUME IInv, do_trap
  PROVE  IInv'
<1> DEFINE e == reg["rsi"][2]
<1>1. Shape /\ StackShape /\ RegShape /\ Phase
  BY DEF IInv, Shape
<1>2. /\ code = "handler" /\ code' = "halt" /\ ip' = 1
      /\ UNCHANGED <<reg, stack, sp, IFlag, in_service, keys, trap, hit, nested>>
      /\ report' = [vector |-> trap.vector, error |-> e, rip |-> Word(reg["rdi"][2] - RIP),
                    index |-> Index(trap.vector, e), says |-> Messages(trap.vector, e)]
  BY DEF do_trap
<1>3. RunCode = "handler" /\ RunCode' = "halt"
  BY <1>2 DEF RunCode
<1>4. trap # NoTrap /\ hit \in BOOLEAN /\ Is16Bits(trap.error)
      /\ trap.rip[1] \in {"main", "irq"} /\ (trap.rip[1] = "irq" => ~ hit)
  BY <1>1, <1>2 DEF Shape, Phase, Untrapped, Known, Trapped, InIrqTrap
<1>5. /\ Len(stack) >= 5 /\ IF hit THEN ToCode # "main" ELSE stack[5] = <<"rip", trap.rip>>
      /\ ErrorIs(RunReg("rsi")) /\ RunReg("rdi") = <<"rsp", 24>>
  BY <1>3 DEF IInv, Carried, Past
<1>6. ErrorIs(reg["rsi"]) /\ reg["rdi"] = <<"rsp", 24>> /\ Len(stack) \in Nat
  BY <1>1, <1>2, <1>5 DEF RunReg, StackShape
<1>7. Word(reg["rdi"][2] - RIP) = stack[5]
  BY <1>5, <1>6 DEF Word, RIP
<1>8. stack[5] = <<"rip", trap.rip>> <=> ~ hit
  BY <1>4, <1>5 DEF ToCode
<1>9. (e = Error \/ (hit /\ e = 0)) /\ Error = IF PushesError(trap.vector) THEN trap.error ELSE 0
  BY <1>6 DEF ErrorIs, Error, Zero
<1>10. ~ hit => e = Error /\ Is16Bits(e)
  BY <1>4, <1>9 DEF Is16Bits
<1> HIDE DEF e
<1>11. ~ hit => Says(trap.vector, Messages(trap.vector, e), Index(trap.vector, e), Error)
  BY <1>10, HandlerSays
<1>13. ReportTrue'
  <2>1. /\ report'.vector = trap.vector /\ report'.error = e /\ report'.rip = stack[5]
        /\ report'.index = Index(trap.vector, e) /\ report'.says = Messages(trap.vector, e)
    BY <1>2, <1>7
  <2>2. trap' = trap /\ hit' = hit
    BY <1>2
  <2>3. /\ report'.vector = trap.vector
        /\ report'.rip = <<"rip", trap.rip>> <=> ~ hit
        /\ report'.error = Error \/ (hit /\ report'.error = 0)
    BY <1>8, <1>9, <2>1
  <2>4. ~ hit => Says(trap.vector, report'.says, report'.index, Error)
    BY <1>11, <2>1
  <2> QED
    BY <2>2, <2>3, <2>4, Zenon DEF ReportTrue, Error, Says
<1>14. Shape'
  BY <1>1, <1>2 DEF Shape, RegShape, StackShape, At, Codes, Stubs, TrapStubs, Depth
<1>15. Framed' /\ Kept' /\ MainKept'
  BY <1>2, <1>3 DEF Framed, Kept, MainKept
<1>16. Phase'
  <2>1. Untrapped' /\ Trapped' /\ Known'
    BY <1>1, <1>2, <1>3, <1>4 DEF Phase, Untrapped, Trapped, Known
  <2>2. InIrqTrap' /\ OwnStub' /\ Hits' /\ Done'
    BY <1>1, <1>2, <1>3, <1>4 DEF Phase, InIrqTrap, OwnStub, Hits, Done, TrapStubs
  <2> QED
    BY <2>1, <2>2 DEF Phase
<1>17. Carried'
  BY <1>3 DEF Carried, HasError, Past, TrapStubs
<1> QED
  BY <1>13, <1>14, <1>15, <1>16, <1>17 DEF IInv

LEMMA LoseKeeps ==
  ASSUME IInv, LoseHandler
  PROVE  IInv'
<1>1. Shape /\ StackShape /\ RegShape /\ Phase
  BY DEF IInv, Shape
<1>2. /\ code = "handler" /\ code' = "lost"
      /\ UNCHANGED <<reg, stack, sp, IFlag, in_service, keys, trap, report, hit, nested>>
  BY DEF LoseHandler, Outside
<1>3. RunCode = "handler" /\ RunCode' = "lost"
  BY <1>2 DEF RunCode
<1>4. trap # NoTrap /\ report = NoReport
  BY <1>1, <1>2 DEF Phase, Untrapped, Done
<1>5. Shape'
  BY <1>1, <1>2 DEF Shape, RegShape, StackShape, At, Codes, Stubs, TrapStubs, Depth
<1>6. Framed' /\ Kept' /\ MainKept'
  BY <1>2, <1>3 DEF Framed, Kept, MainKept
<1>7. Untrapped' /\ Trapped' /\ Known' /\ InIrqTrap'
  BY <1>1, <1>2, <1>3, <1>4 DEF Phase, Untrapped, Trapped, Known, InIrqTrap
<1>8. OwnStub' /\ Hits' /\ Done'
  BY <1>1, <1>2, <1>3, <1>4 DEF Phase, OwnStub, Hits, Done, TrapStubs
<1>9. Carried'
  BY <1>3 DEF Carried, HasError, Past, TrapStubs
<1>10. ReportTrue'
  BY <1>2 DEF IInv, ReportTrue
<1> QED
  BY <1>5, <1>6, <1>7, <1>8, <1>9, <1>10 DEF IInv, Phase

LEMMA StiKeeps ==
  ASSUME IInv, Sti
  PROVE  IInv'
<1>1. Shape /\ Phase
  BY DEF IInv
<1>2. /\ code = "main" /\ IFlag' = TRUE
      /\ UNCHANGED <<code, ip, reg, stack, sp, in_service, keys, trap, report, hit, nested>>
  BY DEF Sti
<1>3. RunCode = "main" /\ RunCode' = "main"
  BY <1>2 DEF RunCode
<1>4. Shape'
  BY <1>1, <1>2 DEF Shape, RegShape, StackShape, At
<1>5. Framed' /\ Kept'
  BY <1>2 DEF Framed, Kept
<1>6. MainKept'
  BY <1>2, <1>3 DEF IInv, MainKept, RunReg
<1>7. Phase'
  BY <1>1, <1>2, <1>3, SamePhase
<1>8. Carried'
  BY <1>3 DEF Carried, HasError, Past, TrapStubs
<1>9. ReportTrue'
  BY <1>2 DEF IInv, ReportTrue
<1> QED
  BY <1>4, <1>5, <1>6, <1>7, <1>8, <1>9 DEF IInv

\* A key: the interrupt's frame points at what ran.
LEMMA KeyKeeps ==
  ASSUME IInv, Key
  PROVE  IInv'
<1>1. Shape /\ StackShape /\ RegShape /\ Phase /\ Len(stack) \in Nat
  BY DEF IInv, Shape, StackShape
<1>2. /\ IFlag /\ ~ in_service /\ code # "lost" /\ keys < MaxKeys
      /\ keys' = keys + 1 /\ in_service' = TRUE /\ code' = "irq" /\ ip' = 1 /\ sp' = 5
      /\ UNCHANGED <<reg, IFlag, trap, report>>
  BY DEF Key
<1>3. (hit' <=> hit \/ code \in {"zero", "error", "nmi", "handler"}) /\ hit' \in BOOLEAN
  BY DEF Key
<1>4. At(code, ip, sp) /\ sp \in Int
  <2>1. At(code, ip, sp)
    BY <1>1, <1>2 DEF Shape
  <2>2. sp \in {-1} \cup 0 .. 25
    BY <2>1, AtIs
  <2> QED
    BY <2>1, <2>2
<1>5. /\ StackShape' /\ Len(stack') \in Nat /\ Len(stack') >= Len(stack) /\ Len(stack') >= 5
      /\ stack'[2] = <<"rsp", sp>> /\ stack'[3] = <<"rflags", IFlag>>
      /\ stack'[5] = <<"rip", <<code, ip>>>>
      /\ \A k \in 1 .. Len(stack) : k > 5 => stack'[k] = stack[k]
  <2> DEFINE s == Pushed(stack, 0, CpuFrame)
  <2>1. /\ Len(CpuFrame) = 5 /\ CpuFrame[2] = <<"rsp", sp>> /\ CpuFrame[3] = <<"rflags", IFlag>>
        /\ CpuFrame[5] = <<"rip", <<code, ip>>>>
    BY DEF CpuFrame
  <2>2. /\ Len(s) \in Nat /\ DOMAIN s = 1 .. Len(s) /\ Len(s) >= Len(stack) /\ Len(s) >= 5
        /\ \A k \in 1 .. 5 : s[k] = CpuFrame[k]
        /\ \A k \in 1 .. Len(stack) : k > 5 => s[k] = stack[k]
    BY <1>1, <2>1 DEF Pushed, StackShape
  <2>3. stack' = s
    BY DEF Key
  <2> HIDE DEF s
  <2>4. /\ Len(stack') \in Nat /\ DOMAIN stack' = 1 .. Len(stack')
        /\ Len(stack') >= Len(stack) /\ Len(stack') >= 5
        /\ \A k \in 1 .. Len(stack) : k > 5 => stack'[k] = stack[k]
    BY <2>2, <2>3
  <2>5. /\ stack'[2] = <<"rsp", sp>> /\ stack'[3] = <<"rflags", IFlag>>
        /\ stack'[5] = <<"rip", <<code, ip>>>>
    BY <2>1, <2>2, <2>3
  <2>6. StackShape'
    BY <1>2, <2>4 DEF StackShape
  <2> QED
    BY <2>4, <2>5, <2>6
<1>6. ToCode' = code /\ ToIp' = ip /\ ToSp' = sp /\ ToFlag' = IFlag
  BY <1>5 DEF ToCode, ToIp, ToSp, ToFlag
<1>7. RunCode' = code /\ RunIp' = ip /\ (code # "irq" => RunCode = code /\ RunIp = ip)
  BY <1>2, <1>6 DEF RunCode, RunIp
<1>8. ASSUME NEW r \in Regs
      PROVE  /\ ~ SaveAt(r) < ip' /\ RunReg(r)' = reg[r]
             /\ code # "irq" => RunReg(r) = reg[r]
  <2>1. ~ SaveAt(r) < ip'
    BY <1>2, Slots
  <2> QED
    BY <1>2, <2>1 DEF RunReg
<1>9. Shape'
  <2>1. At("irq", 1, 5)
    BY DEF At, Codes, Stubs, Lengths, Depth, IrqDepth
  <2>2. keys' \in 0 .. MaxKeys
    BY <1>1, <1>2, TrapsAssumption DEF Shape
  <2> QED
    BY <1>1, <1>2, <1>3, <1>5, <2>1, <2>2 DEF Shape, RegShape, Codes
<1>10. Framed'
  <2>1. code = "irq" => ip > 30
    <3>1. code = "irq" => ip \in 1 .. 52
      BY <1>4 DEF At, Stubs, Lengths
    <3>2. code = "irq" => ~ ip <= 30
      BY <1>2 DEF IInv, Framed
    <3> QED
      BY <3>1, <3>2
  <2>2. sp <= Len(stack')
    BY <1>1, <1>4, <1>5 DEF StackShape
  <2>3. IFlag \in BOOLEAN
    BY <1>1 DEF Shape
  <2>4. At(ToCode', ToIp', ToSp')
    BY <1>4, <1>6
  <2> QED
    BY <1>2, <1>5, <1>6, <2>1, <2>2, <2>3, <2>4 DEF Framed
<1>11. Kept'
  <2>1. ThroughRax'
    BY <1>2 DEF ThroughRax
  <2> QED
    BY <1>8, <2>1 DEF Kept
<1>12. MainKept'
  BY <1>7, <1>8 DEF IInv, MainKept
<1>13. Phase'
  <2>1. Untrapped' /\ Trapped' /\ Known'
    BY <1>1, <1>2, <1>3, <1>7 DEF Phase, Untrapped, Trapped, Known
  <2>2. InIrqTrap' /\ OwnStub' /\ Hits' /\ Done'
    BY <1>1, <1>2, <1>3, <1>7 DEF Phase, InIrqTrap, OwnStub, Hits, Done, TrapStubs
  <2> QED
    BY <2>1, <2>2 DEF Phase
<1>14. Carried'
  <2>1. (RunCode \in TrapStubs \cup {"handler"} =>
          Len(stack) >= 5 /\ IF hit THEN ToCode # "main" ELSE stack[5] = <<"rip", trap.rip>>)'
    BY <1>3, <1>5, <1>6, <1>7 DEF TrapStubs
  <2>2. HasError' => HasError /\ code # "irq"
    BY <1>7 DEF HasError
  <2>3. HasError' => Len(stack') >= 6 /\ (stack'[6] = <<"number", Error>> \/ (hit' /\ stack'[6] = Zero))
    <3>1. HasError' => Len(stack) >= 6 /\ ErrorIs(stack[6])
      BY <2>2 DEF IInv, Carried
    <3>2. Len(stack) >= 6 => Len(stack') >= 6 /\ stack'[6] = stack[6]
      BY <1>1, <1>5
    <3> QED
      BY <1>3, <3>1, <3>2 DEF ErrorIs
  <2>4. (Past(RsiAt)' => Past(RsiAt) /\ code # "irq") /\ (Past(RdiAt)' => Past(RdiAt) /\ code # "irq")
    BY <1>7 DEF Past, TrapStubs
  <2>5. (Past(RsiAt) => ErrorIs(RunReg("rsi")))'
    <3>1. Past(RsiAt)' => ErrorIs(RunReg("rsi")) /\ RunReg("rsi")' = RunReg("rsi")
      BY <1>8, <2>4 DEF IInv, Carried, Regs
    <3> QED
      BY <1>2, <1>3, <3>1 DEF ErrorIs, Error
  <2>6. (Past(RdiAt) => RunReg("rdi") = <<"rsp", 24>>)'
    BY <1>8, <2>4 DEF IInv, Carried, Regs
  <2> QED
    BY <1>2, <2>1, <2>3, <2>5, <2>6 DEF Carried, ErrorIs, Error
<1>15. ReportTrue'
  <2>1. report # NoReport => (hit' <=> hit)
    BY <1>1, <1>3 DEF Phase, Done
  <2> QED
    BY <1>2, <2>1 DEF IInv, ReportTrue
<1> QED
  BY <1>9, <1>10, <1>11, <1>12, <1>13, <1>14, <1>15 DEF IInv

\* An exception: the CPU's words and the gate.
LEMMA RaiseKeeps ==
  ASSUME IInv, Raise
  PROVE  IInv'
<1>1. Shape /\ StackShape /\ RegShape /\ Phase /\ Len(stack) \in Nat
  BY DEF IInv, Shape, StackShape
<1>2. PICK c \in Causes :
        /\ trap' = [vector |-> c.vector, error |-> c.error, rip |-> <<code, ip>>]
        /\ stack' = Pushed(stack, 0,
             CpuFrame \o (IF PushesError(c.vector) THEN <<<<"number", c.error>>>> ELSE <<>>))
        /\ sp' = IF PushesError(c.vector) THEN 6 ELSE 5
        /\ code' = GateOf(c.vector) /\ ip' = 1
  BY DEF Raise
<1>3. /\ trap = NoTrap /\ (code = "main" \/ Op[1] = "work")
      /\ UNCHANGED <<reg, IFlag, in_service, keys, report, hit, nested>>
  BY DEF Raise
<1> DEFINE v == c.vector
           w == CpuFrame \o (IF PushesError(v) THEN <<<<"number", c.error>>>> ELSE <<>>)
<1>4. v \in Nat /\ Is16Bits(c.error)
  BY TrapsAssumption DEF Is16Bits
<1>5. /\ trap' = [vector |-> v, error |-> c.error, rip |-> <<code, ip>>]
      /\ stack' = Pushed(stack, 0, w) /\ sp' = IF PushesError(v) THEN 6 ELSE 5
      /\ code' = GateOf(v) /\ ip' = 1
  BY <1>2
<1>6. /\ Len(w) = IF PushesError(v) THEN 6 ELSE 5
      /\ w[5] = <<"rip", <<code, ip>>>>
      /\ PushesError(v) => w[6] = <<"number", c.error>>
  BY DEF CpuFrame
<1> HIDE DEF v, w
<1>7. /\ GateOf(v) \in TrapStubs
      /\ GateOf(v) = "error" <=> PushesError(v)
  BY <1>4 DEF GateOf, PushesError, SelectorFaults, PageFault, TrapStubs
<1>8. /\ code \in {"main", "irq"}
      /\ code = "irq" => in_service
  <2>1. CASE code = "main"
    BY <2>1
  <2>2. CASE Op[1] = "work"
    <3>1. code = "irq" /\ ip \in 1 .. 52 /\ Op = Stub("irq")[ip]
      BY <2>2, IrqOnly
    <3>2. ip = 29
      BY <2>2, <3>1, IrqOthers
    <3> QED
      BY <3>1, <3>2 DEF IInv, Framed
  <2> QED
    BY <1>3, <2>1, <2>2
<1>9. /\ trap' # NoTrap /\ trap'.vector = v /\ trap'.error = c.error
      /\ trap'.rip = <<code, ip>> /\ trap'.rip[1] = code
  <2>1. trap'.vector = v /\ trap'.error = c.error /\ trap'.rip = <<code, ip>> /\ trap'.rip[1] = code
    BY <1>5
  <2>2. NoTrap.rip[1] = "none"
    BY DEF NoTrap
  <2> QED
    BY <1>8, <2>1, <2>2
<1>10. code' \in TrapStubs /\ RunCode' = code' /\ RunIp' = 1 /\ code' # "irq"
  BY <1>5, <1>7 DEF RunCode, RunIp, TrapStubs
<1>11. report' = NoReport /\ ~ hit' /\ hit' = hit
  BY <1>1, <1>3 DEF Phase, Untrapped
<1>12. /\ Len(stack') \in Nat /\ DOMAIN stack' = 1 .. Len(stack')
       /\ Len(stack') >= 5 /\ stack'[5] = <<"rip", <<code, ip>>>>
       /\ PushesError(v) => Len(stack') >= 6 /\ stack'[6] = <<"number", c.error>>
  <2> DEFINE s == Pushed(stack, 0, w)
  <2>1. Len(w) \in {5, 6}
    BY <1>6
  <2>2. /\ Len(s) \in Nat /\ DOMAIN s = 1 .. Len(s) /\ Len(s) >= Len(w)
        /\ \A k \in 1 .. Len(w) : s[k] = w[k]
    BY <1>1, <2>1 DEF Pushed, StackShape
  <2>3. stack' = s
    BY <1>5
  <2> HIDE DEF s
  <2> QED
    BY <1>6, <2>2, <2>3
<1>13. Shape'
  <2>1. At(GateOf(v), 1, IF PushesError(v) THEN 6 ELSE 5)
    BY <1>7 DEF At, Codes, Stubs, TrapStubs, Lengths, Depth, ZeroDepth, IrqDepth
  <2>2. StackShape'
    BY <1>5, <1>12 DEF StackShape
  <2> QED
    BY <1>1, <1>3, <1>5, <1>10, <2>1, <2>2 DEF Shape, RegShape, Codes, TrapStubs
<1>14. Framed' /\ Kept' /\ MainKept'
  BY <1>10 DEF Framed, Kept, MainKept, TrapStubs
<1>15. Phase'
  <2>1. Untrapped' /\ Trapped' /\ Known'
    BY <1>4, <1>8, <1>9, <1>10 DEF Untrapped, Trapped, Known, TrapStubs
  <2>2. InIrqTrap' /\ OwnStub' /\ Hits' /\ Done'
    BY <1>3, <1>5, <1>8, <1>9, <1>10, <1>11 DEF InIrqTrap, OwnStub, Hits, Done
  <2> QED
    BY <2>1, <2>2 DEF Phase
<1>16. Carried'
  <2>1. stack'[5] = <<"rip", trap'.rip>>
    BY <1>9, <1>12
  <2>2. HasError' => PushesError(v)
    BY <1>5, <1>7, <1>10 DEF HasError
  <2>3. HasError' => Len(stack') >= 6 /\ stack'[6] = <<"number", trap'.error>> /\ PushesError(trap'.vector)
    BY <1>9, <1>12, <2>2
  <2>4. ~ Past(RsiAt)' /\ ~ Past(RdiAt)'
    BY <1>10 DEF Past, RsiAt, RdiAt, TrapStubs
  <2> QED
    BY <1>11, <1>12, <2>1, <2>3, <2>4 DEF Carried, ErrorIs, Error
<1>17. ReportTrue'
  BY <1>11 DEF ReportTrue
<1> QED
  BY <1>13, <1>14, <1>15, <1>16, <1>17 DEF IInv

LEMMA InitKeeps == Init => IInv
<1> SUFFICES ASSUME Init PROVE IInv
  OBVIOUS
<1>1. /\ code = "main" /\ ip = 1 /\ reg = MainRegs /\ stack = <<>> /\ sp = -1
      /\ IFlag = FALSE /\ in_service = FALSE /\ keys = 0
      /\ trap = NoTrap /\ report = NoReport /\ hit = FALSE
  BY DEF Init, MainStack
<1>2. RunCode = "main"
  BY <1>1 DEF RunCode
<1>3. Shape
  <2>1. At(code, ip, sp) /\ code \in Codes /\ code # "lost"
    BY <1>1 DEF At, Codes, Stubs, TrapStubs, MainStack
  <2>2. RegShape
    BY <1>1 DEF RegShape, MainRegs
  <2>3. StackShape
    BY <1>1 DEF StackShape
  <2>4. keys \in 0 .. MaxKeys
    BY <1>1, TrapsAssumption
  <2>5. IFlag \in BOOLEAN /\ in_service \in BOOLEAN /\ hit \in BOOLEAN
    BY <1>1, Zenon
  <2> QED
    BY <2>1, <2>2, <2>3, <2>4, <2>5 DEF Shape
<1>4. Framed /\ Kept
  BY <1>1 DEF Framed, Kept
<1>5. MainKept
  BY <1>1 DEF MainKept, RunReg
<1>6. Phase
  BY <1>1, <1>2 DEF Phase, Untrapped, Trapped, Known, InIrqTrap, OwnStub, Hits, Done, TrapStubs
<1>7. Carried
  BY <1>2 DEF Carried, HasError, Past, TrapStubs
<1>8. ReportTrue
  BY <1>1 DEF ReportTrue
<1> QED
  BY <1>3, <1>4, <1>5, <1>6, <1>7, <1>8 DEF IInv

LEMMA StutterKeeps ==
  ASSUME IInv, UNCHANGED vars
  PROVE  IInv'
<1>1. UNCHANGED <<code, ip, reg, stack, sp, IFlag, in_service, keys, trap, report, hit, nested>>
  BY DEF vars
<1>2. /\ ToCode' = ToCode /\ ToIp' = ToIp /\ ToSp' = ToSp /\ ToFlag' = ToFlag
      /\ RunCode' = RunCode /\ RunIp' = RunIp
  BY <1>1 DEF ToCode, ToIp, ToSp, ToFlag, RunCode, RunIp
<1>3. \A r : RunReg(r)' = RunReg(r)
  BY <1>1 DEF RunReg
<1>4. Shape' /\ Framed' /\ Kept'
  BY <1>1, <1>2 DEF IInv, Shape, RegShape, StackShape, Framed, Kept, ThroughRax
<1>5. MainKept'
  BY <1>2, <1>3 DEF IInv, MainKept
<1>6. Phase'
  BY <1>1, <1>2, SamePhase DEF IInv
<1>7. Carried'
  BY <1>1, <1>2, <1>3 DEF IInv, Carried, HasError, Past, ErrorIs, Error
<1>8. ReportTrue'
  BY <1>1 DEF IInv, ReportTrue
<1> QED
  BY <1>4, <1>5, <1>6, <1>7, <1>8 DEF IInv

-----------------------------------------------------------------------------
(* The theorems *)

\* What the others rest on: the stack, the registers in it and what a stub
\* carries are right at every instruction, whatever comes between.
THEOREM Invariance == Spec => []IInv
<1>1. ASSUME IInv, [Next]_vars
      PROVE  IInv'
  <2>1. CASE PushWord
    BY <1>1, <2>1, PushKeeps
  <2>2. CASE SetRegister
    BY <1>1, <2>2, SetKeeps
  <2>3. CASE Exchange
    BY <1>1, <2>3, ExchangeKeeps
  <2>4. CASE Drop
    BY <1>1, <2>4, DropKeeps
  <2>5. CASE Call
    BY <1>1, <2>5, CallKeeps
  <2>6. CASE Iretq
    BY <1>1, <2>6, IretqKeeps
  <2>7. CASE do_trap
    BY <1>1, <2>7, HandlerKeeps
  <2>8. CASE Work
    BY <1>1, <2>8, WorkKeeps
  <2>9. CASE Eoi
    BY <1>1, <2>9, EoiKeeps
  <2>10. CASE LoseHandler
    BY <1>1, <2>10, LoseKeeps
  <2>11. CASE Key
    BY <1>1, <2>11, KeyKeeps
  <2>12. CASE Sti
    BY <1>1, <2>12, StiKeeps
  <2>13. CASE Raise
    BY <1>1, <2>13, RaiseKeeps
  <2>14. CASE UNCHANGED vars
    BY <1>1, <2>14, StutterKeeps
  <2> QED
    BY <1>1, <2>1, <2>2, <2>3, <2>4, <2>5, <2>6, <2>7, <2>8, <2>9, <2>10, <2>11, <2>12,
       <2>13, <2>14 DEF Next, Execute
<1> QED
  BY <1>1, InitKeeps, PTL DEF Spec

\* The code of entry.S and of Build_IRQ never runs past its end, and iretq
\* runs only with the CPU's five words left on the stack.
THEOREM TypeCorrect == Spec => []TypeOK
<1>1. ASSUME IInv
      PROVE  TypeOK
  <2>1. Shape /\ Phase
    BY <1>1 DEF IInv
  <2>2. code \in Codes /\ keys \in 0 .. MaxKeys
    BY <2>1 DEF Shape
  <2>3. sp \in {MainStack} \cup 0 .. 25 /\ (sp = MainStack <=> code = "main")
    <3>1. CASE code = "lost"
      BY <2>1, <3>1 DEF Shape, MainStack
    <3>2. CASE code # "lost"
      <4>1. At(code, ip, sp)
        BY <2>1, <3>2 DEF Shape
      <4> QED
        BY <4>1, AtIs DEF MainStack
    <3> QED
      BY <3>1, <3>2
  <2>4. code \in Stubs => ip \in 1 .. Len(Stub(code))
    <3>1. code \in Stubs => ip \in 1 .. Lengths[code]
      BY <2>1, OpIs
    <3>2. ASSUME NEW c \in Stubs
          PROVE  Len(Stub(c)) = Lengths[c]
      <4>1. CASE c = "zero"
        BY <4>1, ZeroStub DEF Lengths
      <4>2. CASE c = "error"
        BY <4>2, ErrorStub DEF Lengths
      <4>3. CASE c = "nmi"
        BY <4>3, NmiStub DEF Lengths
      <4>4. CASE c = "irq"
        BY <4>4, IrqStub DEF Lengths
      <4> QED
        BY <4>1, <4>2, <4>3, <4>4 DEF Stubs, TrapStubs
    <3> QED
      BY <3>1, <3>2
  <2>5. Op[1] = "iretq" => sp = 5
    <3>1. ASSUME Op[1] = "iretq"
          PROVE  sp = 5
      <4>1. ip \in 1 .. 52 /\ Op = Stub("irq")[ip] /\ sp = IrqDepth(ip)
        BY <1>1, <3>1, IrqOnly
      <4>2. ip = 52
        BY <3>1, <4>1, IrqOthers
      <4> QED
        BY <4>1, <4>2 DEF IrqDepth
    <3> QED
      BY <3>1
  <2>6. trap = NoTrap => report = NoReport
    BY <2>1 DEF Phase, Untrapped
  <2> QED
    BY <2>2, <2>3, <2>4, <2>5, <2>6 DEF TypeOK, Stubs, TrapStubs
<1> QED
  BY <1>1, Invariance, PTL

\* Build_IRQ and do_IRQ give back every register, the stack and the flags:
\* Start_Kernel does not notice a key, nor one that came while the code of
\* another was running.
THEOREM IrqIsTransparent == Spec => []IrqTransparent
<1>1. ASSUME IInv
      PROVE  IrqTransparent
  <2>1. SUFFICES ASSUME code = "main"
                 PROVE  reg = MainRegs /\ sp = MainStack
    BY DEF IrqTransparent
  <2>2. sp = MainStack /\ reg = [r \in Regs |-> reg[r]]
    BY <1>1, <2>1 DEF IInv, Shape, At, RegShape
  <2>3. \A r \in Regs : reg[r] = MainRegs[r]
    BY <1>1, <2>1 DEF IInv, MainKept, RunCode, RunReg
  <2> QED
    BY <2>2, <2>3 DEF MainRegs
<1> QED
  BY <1>1, Invariance, PTL

\* What a handler of trap.c prints is the exception's, and right when no key
\* came between the two; when one came, the address is wrong.
THEOREM ReportIsTrue == Spec => []ReportTrue
<1>1. IInv => ReportTrue
  BY DEF IInv
<1> QED
  BY <1>1, Invariance, PTL

\* Start_Kernel never runs again after an exception, and no key comes after
\* one inside do_IRQ.
THEOREM TrapEndsIt == Spec => TrapIsFinal
<1>1. ASSUME IInv, IInv', [Next]_vars
      PROVE  [trap # NoTrap => code' # "main" /\ (trap.rip[1] = "irq" => keys' = keys)]_vars
  <2>1. SUFFICES ASSUME trap # NoTrap
                 PROVE  code' # "main" /\ (trap.rip[1] = "irq" => keys' = keys)
    OBVIOUS
  <2>2. CASE Execute \/ Sti \/ UNCHANGED vars
    <3>1. trap' = trap /\ keys' = keys
      BY <2>2
      DEF Execute, PushWord, SetRegister, Exchange, Drop, Call, Iretq, do_trap, Work, Eoi,
          LoseHandler, Sti, Outside, vars
    <3>2. RunCode' # "main"
      BY <1>1, <2>1, <3>1 DEF IInv, Phase, Trapped
    <3> QED
      BY <3>1, <3>2 DEF RunCode
  <2>3. CASE Key
    <3>1. code' = "irq" /\ ~ in_service
      BY <2>3 DEF Key
    <3>2. trap.rip[1] # "irq"
      BY <1>1, <2>1, <3>1 DEF IInv, Phase, InIrqTrap
    <3> QED
      BY <3>1, <3>2
  <2>4. CASE Raise
    BY <2>1, <2>4 DEF Raise
  <2> QED
    BY <1>1, <2>2, <2>3, <2>4 DEF Next
<1> QED
  BY <1>1, Invariance, PTL DEF Spec, TrapIsFinal
=============================================================================
