# TLA+ models of Make_My_Own_Kernel

TLA+ specifications of the 64-bit hobby kernel in `src/`: its boot sector, what
its loader leaves in memory, its memory initialisation, its 2MB page allocator,
the page tables the allocated pages are used through, its keyboard interrupt,
its exceptions, its tasks, and its console. TLC checks them on small instances;
TLAPS proves the invariants of most of them for every instance.

## The system

| Component | Source | State | Operations | Module |
|---|---|---|---|---|
| Boot sector | `src/boot.asm` | sector and entry counters of the search, cluster, destination | search root directory, read FAT entry, load sector, jump | `FatLoad`, `FileLoad` |
| Loader | `src/loader.asm`, `src/fat12.inc` | the same, the copy above 1MB, e820 list at 0x7E00, VBE list at 0x8000, temporary page tables | load `KERNEL.BIN`, query memory, set mode, enter long mode | e820 and VBE lists: `Loader`; search and chain: `FatLoad` |
| Kernel entry | `src/kernel/head.S`, `main.c` | GDT, IDT, TSS, page tables, stack | set up, call `Start_Kernel` | as far as the other modules depend on it |
| Memory initialisation | `memory.c: init_memory` | `e820`, `bits_map`, `pages_struct`, `zones_struct`, zone indexes | one call | `MemoryInit` |
| Page allocator | `memory.c: page_init, alloc_pages` | bitmap, `attr` and `ref_cnt` of a page, counters of a zone | `alloc_pages(select, number, flags)` | `PageAlloc` |
| Kernel page tables | `head.S`, `memory.c` | `__PML4E`, `__PDPTE`, `__PDE` | translate `Phy_To_Virt(p)` | `PageTables`, `KernelMap` |
| Keyboard interrupt | `interrupt.c`, `gate.h`, `entry.S` | 8259A, gate, stack IST2, `printk`'s buffer | `init_intr`, `do_IRQ`, return | `KeyboardIrq` |
| Exceptions | `entry.S`, `trap.c` | gates, stacks IST1 and IST2, registers | 20 entry stubs and handlers, all end in `while(1)`; `RESTORE_ALL` | `Traps` |
| Tasks | `task.c`, `task.h` | `task_union`s, the task list, `current` | `task_init`, `do_fork`, `switch_to`; `do_exit` | `Tasks` |
| Console | `printk.c`, `printk.h` | buffer, cursor, frame buffer | `vsprintf`; `color_printk`, `putchar` | `Printk`; `Console` |
| Library | `lib.h`, `linkage.h` | none | port access, strings, list | the list with `Tasks`, `strlen` with `Printk` |
| Build, emulator | `Makefile`, `bochsrc`, scripts | | | not modelled |

How they interact. Everything is one processor and one thread of control until
`init_intr` executes `sti`; from then on the keyboard interrupt may run between
any two instructions. The boot sector leaves the loader at 0x10000, the loader
leaves the kernel at 1MB and the BIOS's memory map at 0x7E00. `head.S` loads
its page tables and calls `Start_Kernel`, which calls `init_memory`,
`init_intr`, prints, and calls `task_init`, whose `do_fork` is the one caller
of `alloc_pages`. `init_memory` and `alloc_pages` share `page_init` and the
tables. `do_IRQ` shares `printk`'s buffer and cursor, and by its fixed stack
also memory, with whatever it interrupts: IST1, the stack of every exception,
begins at the same address as IST2. The screen is mapped right behind the pages
of RAM that are mapped, so `do_fork` writes tasks to pages `printk` draws on.

What is hard about each, and what makes it correct:

- *Boot sector*: a FAT12 entry is one and a half bytes and may straddle two
  sectors; sectors are addressed by cylinder, head and number; counters are
  tested before and within a sector. Correct: it enters the loader only with
  the whole file in memory, in order, and says "NO LOADER" only if that is true.
- *Loader*: the BIOS's memory map and, 512 bytes further, its VBE information go
  to fixed addresses without a limit, and the number of entries is not passed
  on. Correct: the kernel finds the BIOS's list, or an end of it.
- *Memory initialisation*: the map's length is not passed on, it is found by
  looking for an entry that is none; regions are rounded inwards; bits are
  toggled. Correct: it ends; exactly the pages of RAM above the kernel are
  free; the tables are what the allocator relies on.
- *Page allocator*: a scan over words of 64 bits that adds a zone's offset to
  every word, shifts by 0 and 64, and returns `j + k - 1`; four records of the
  same fact (bit, `attr`, `ref_cnt`, zone counters) through three branches of
  `page_init`. Correct: a page is handed out once; the records agree; no
  table is left; no counter passes zero.
- *Kernel page tables*: correct if pages are mapped where the comments on the
  zones say they are. They are not (see below).
- *Keyboard interrupt*: the gate leaves interrupts on, so `do_IRQ` can be
  interrupted after its EOI, by itself, on a stack that starts at the same
  address each time. Correct: no code is lost, repeated or mixed up, and the
  interrupted program goes on. The second fails whenever a delivery nests.
- *Exceptions*: vectors with and without an error code of the CPU, three kinds
  of stub that bring them to one frame, handlers that read it at fixed offsets;
  no gate clears IF, so a key may come at any instruction of a stub and push its
  frame to the same addresses. Correct: the report is true of the exception; the
  interrupted program gets its registers back from a key, and does not go on
  after an exception.
- *Tasks*: `current` is the stack pointer rounded down to 32KB, and the kernel's
  stack lies in no `task_union`; `do_fork` links a copy of `current` before it is
  set up, and does not test for `NULL`. Correct: the list is whole at each
  store; what is in it and `RUNNING` can be switched to; a task runs. The last
  never holds.
- *Console*: signs, widths and precision, formats that end in a directive; the
  cursor at the edges; `buf` and a cursor that is loaded, incremented and stored,
  shared with `do_IRQ`. Correct: the text is the one the format asks for; it
  lies in consecutive cells of the screen; no pixel outside it is touched.

`PROJECT.json` lists each hazard at its line with the properties that cover it.

## Modules

**`PageAlloc`** is the allocator. Pages are numbers, `bits_map` the set of set
bits (so word *w* of the array is bits `64w .. 64w+63`; the length of a word is
the constant `WordBits`). `attr` keeps what `page_init` distinguishes: no flag,
private flags only, or one of `PG_Referenced` / `PG_K_Share_To_U`. One call is
one step, because nothing else calls `alloc_pages` and an interrupt does not:
`AllocFound`, `AllocFault` (a page of the run has no zone or lies outside
`pages_struct`; the pages before it stay marked) and `AllocNone`. `Scan`,
`Offset`, `Probe`, `MaskLen`, `FirstPage` are the index arithmetic of the three
loops, the shifts modulo 64 included, and `FirstFit` what the loops stop at.
`page_init(P, f)` is the call on every page of a run; the pages are distinct, so
the calls commute. `grant` and `grants` are history variables. The memory after
the bitmap, which a scan of the last word may read, is arbitrary (`Slack`).

**`PageAllocProofs`**, `MemoryInitProofs`, `KeyboardIrqProofs`, `TrapsProofs`, `TasksProofs`,
`ConsoleProofs` and `FatLoadProofs` hold the theorems about the module each is named after, and
`FoldLemmas` what they share (see *Proofs*).

**`PageTables`** has the static tables of `head.S` as `init_memory` leaves them
(the first ten entries of `__PML4E` are cleared) and the translation `FrameAt` of
`Phy_To_Virt`. **`KernelMap`** composes it with `PageAlloc`: the pages handed out,
seen through the tables.

**`Loader`** is what `loader.asm` leaves for the kernel: an entry of the BIOS's
e820 list per step, then the VBE information, which begins within the 26th
entry (slot 25), and the messages the loader stops at. What memory held before
is arbitrary (`Leftovers`): the sectors of the kernel file pass through it.

**`MemoryInit`** composes `Loader` with `init_memory`: one step per iteration of its loops (`ScanEntry`,
`SkipEntry`/`AddZone`, `SetIndexes`, `ReservePage`) and of the straight code
between. Reaching behind a table, or through a `NULL` zone, is the outcome
`fault`; what is destroyed by it is not modelled. Its property
`AllocatorReady` is `PageAlloc`'s `Init` and assumptions, read from its state.

**`KeyboardIrq`** is `Start_Kernel` from `init_intr` on, and `do_IRQ` as the
sequence of steps `format1 put1 read format2 put2 eoi exit`; each step is an
instant at which the next delivery can happen. External parts, modelled from
how the code uses them: the 8259A (`irr`, `isr`, `imr`, edge-triggered, EOI
not automatic), the keyboard controller (`port`, `full`), the timer. The one
frame slot `frame` is the top of IST2: a delivery inside the handler replaces
the frame that was there.

**`Traps`** executes the entry code of `entry.S` and `Build_IRQ` instruction by
instruction on the one stack IST1 and IST2 amount to (`stack[1]` is its highest
word). `Stub` is that code, `GateOf` the gates of `sys_vector_init`, `do_trap`
every handler of `trap.c`: it reads the word `RIP` of the frame it was given and
the error code it was passed, and says what `Messages` says. `Key` delivers an
interrupt at any instruction while IF is set, `Raise` an exception in
`Start_Kernel` or within `do_IRQ`. A word is its origin (a register of
`Start_Kernel`, a number, an address), so a frame read at the wrong offset shows.
External: what the CPU pushes, and what its error codes mean.

**`Tasks`** composes `PageTables` with `task_init`, `kernel_thread`, `do_fork`
and `switch_to`, one step per store to the list. A task is the number of its
page. From the allocator it takes what the properties of `PageAlloc` say of
single pages on a machine with one zone: they come in order, and page 0 is
charged to the zone. `color_printk` there is only the rows of the screen it
draws over; `Cleared` is a struct that was drawn over.

**`Printk`** is `vsprintf`, one step per part of a directive (flags, width,
precision, qualifier, conversion), `itoa` and `skip_atoi` as operators. Its
reference definition says, without reference to the algorithm, how a directive is
written (`Spelling`), which arguments it takes (`Arguments`) and what it means
(`Rendering`). A call is a sequence of literals and directives (`call.meant`), with the format
and the arguments they make, or a format that spells none.

**`Console`** is `color_printk` and `putchar`, one step per load and store of the
cursor and per character of `buf`, with `do_IRQ`'s two texts in between. (The two loads for
a tab, and the second and third look at a character to find a tab or a `\b`, are one step with
the first: no key comes where they matter, by `ConsoleAssumption`.) `frame` is the one slot
at the top of IST2: behind the second text comes the EOI, and a key between it and `Iretq`
leaves no frame that leads back to `Start_Kernel`, whose call then stays as it is for good.
`Layout` is the reference: where a text belongs on the screen, written without the loop.

**`FatLoad`** is the boot sector, one step per sector, entry or cluster. The
packed table is modelled by digits to a base (16 in the code, 2 in the runs), so
`GetFATEntry` unpacks real straddling entries. **`FileLoad`** is what it promises:
the file's sectors arrive in order in one step, or it is missing.

`MCPageAlloc`, `MCKernelMap`, `MCMemoryInit`, `MCTraps`, `MCTasks`, `MCPrintk`,
`MCConsole` and `MCFatLoad` give constants for TLC.

Definitions called `X_Mutant`, each just before the `X` it varies, are never used
by a specification. They record a plausible mistake in the code of `X`
with which at least one property fails, and so what the properties are sensitive to.

## Runs

| Run | Specification | Question and outcome |
|---|---|---|
| `alloc_low` | `MCPageAlloc` | One zone from page 1 on, as on a PC. Bitmap and `attr` agree (`InUseMarked`), references add up (`LinkMatchesRefs`), pages below the last of the first word are handed out once (`UniqueLow`), no call faults (`NoFault`), a single page is the lowest unused one while one of those is free (`FreshWhileLowFree`). |
| `alloc_zones` | `MCPageAlloc` | Three zones at bits 1, 2 and 0 of their words, arbitrary memory behind the map. What still holds when pages are handed out twice and calls fault: types, `CountsMatch`, `FreeNeverWraps`, `FreshFromStartWord`. |
| `mem_init` | `MCMemoryInit` | Every map of one or two entries and ordered maps of three and four, loaded and read back: the boot ends (`Terminates`); on a PC's map nothing faults (`NoFault`), exactly the RAM above the kernel is free (`FreeIsRam`), and the tables are those `PageAlloc` starts from (`AllocatorReady`). |
| `map_normal` | `MCKernelMap` | Fails: the fifth page of `ZONE_NORMAL` is not mapped to itself. |
| `map_unmaped` | `MCKernelMap` | Fails: `ZONE_UNMAPED` gives out pages at 2MB when no zone starts at 4GB. |
| `keyboard` | `KeyboardIrq` | Keys typed at any time: reports are whole and in order (`ReportsWhole`), a key before `init_intr` jams the line (`EarlyKeyJams`), otherwise each key is reported (`EveryKeyReported`); a nested delivery loses `Start_Kernel` for good (`NestingIsFinal`), without one it gets the CPU back (`MainResumes`). |
| `traps` | `MCTraps` | Each exception, with two keys at any instruction: the report gives the address, error code and meaning of the exception unless a key came, and then never the address (`ReportTrue`); a key is invisible to the registers (`IrqTransparent`); `Start_Kernel` does not go on, and after an exception in `do_IRQ` neither does the keyboard (`TrapIsFinal`); each exception is reported unless keys destroy the way (`Reported`). |
| `tasks` | `MCTasks` | Forks until there is no page, no mapped page, or `switch_to`: the list is whole between any two stores, and broken only by what is printed over it (`ListedTasks`); no task ever runs (`NoTaskRuns`). |
| `vsprintf` | `MCPrintk` | Every directive with every combination of flags, widths, precisions (in the format or as arguments) and qualifiers, pairs of directives, and some 800 formats that spell anything: the text is the one meant (`Rendered`), no format is read past its end (`NeverPastEnd`), each is finished (`Terminates`). |
| `console` | `MCConsole` | Texts that reach every edge of the screen, with keys between any two accesses of the last: calls end with the cursor on the screen (`CursorOnScreen`), what is not interrupted lies where it belongs (`LaidOut`), `do_IRQ` always gets to its EOI, and each call of `Start_Kernel` returns, unless a `\b` in the first cell faults or a key between an EOI and its `iretq` leaves it behind (`Returns`). |
| `fat_any` | `MCFatLoad` | Any table, loops and absent clusters included: never goes on with half a file (`LoadedWhole`), never misses an entry (`MissingIsAbsent`). |
| `fat_good` | `MCFatLoad` | Well-formed volumes: implements `FileLoad`, liveness included (`Loads`). |

Bounds, and why they suffice:

- *Allocator*: words of 4 and 8 bits instead of 64. Every branch of the index
  arithmetic is decided by a position within a word and by whether a word is
  the zone's first; the instances have two and a half to four words, zones that
  begin at bit 0, 1 and 2 of a word, a zone that ends with the map, and requests
  of 0, 1, several and a full word of pages. `MaxGrants` (2) lets each page be
  handed out twice, which is once more than the properties allow; once every
  call would hand out some page for the third time, the run goes no further. `CountMod`
  is above the number of pages, as 2^64 is, so that counters can wrap only
  below zero. `KernelMap` runs with words of 64 bits and the 2048MB of `bochsrc`.
- *Loader, memory initialisation*: an array of 4 entries (32 in the code), the
  VBE information from slot 3 on (25), 2 address
  units to a page: lists that end before it and lists that reach it, regions that begin or end on and off a page, overlap, touch,
  shrink to nothing, fill the array, and are followed by bytes that look like
  an entry. `end_struct` in the first or second page.
- *Keyboard*: three keys. Nesting one level is possible with two; the third
  makes a delivery nest in a nested one. A message of two characters has an
  interruption before, within and after the loop that prints it.
- *Exceptions*: every vector; error codes in which each bit a handler tests is
  set and clear; two keys, so that one can come before the exception and one
  after, or one in the other. An exception within a handler is left out.
- *Tasks*: the zone ends at page 4, 7, 14 or 15: `do_fork` runs out of pages with
  all tasks in RAM, with some on the screen, with the last mapped page, and
  reaches a page that is not mapped. The cursor starts on any of the 56 rows.
  `kernel_thread` may be called again (`ForkAgain`); `task_init` calls it once.
- *Formatting*: `unsigned int` and `unsigned long` small enough for all digits
  to be written, large enough for six of them; widths and precisions
  below, at and above the length, negative ones from arguments; garbage of up to four characters.
- *Screen*: 5 columns, 3 rows, tab stops every 2. As in the code (180 columns, 56 rows,
  8) the last tab stop is short, some lines of pixels are left over, and more than
  the screen is mapped. Two keys: one call may be interrupted
  twice, or the second key comes between the first one's EOI and its `iretq`.
- *Boot sector*: 8 clusters, 3 sectors of root directory of 2 entries, files of
  up to 3 sectors, 2 tracks on 2 heads. Entries of 3 bits in bytes of 2 bits
  begin in the middle of a byte and end in the next sector.

Deadlock. `CHECK_DEADLOCK FALSE` is set where the system may stop: a fault stops
the kernel and the cap on grants the model (`alloc_*`, `map_*`); `init_memory`
returns; all keys are typed and reported; a text is formatted or printed; an
exception handler and a fault in `do_fork` or `switch_to` are the end of the
kernel; the boot sector and the loader jump away or stay at a message.

Fairness. The loader and `init_memory` run with interrupts off and alone: weak
fairness of the next step. `Printk` and `Tasks` are sequential code that runs:
the same. In `Traps` and `Console` the CPU executes the code it is in (weak fairness of
`Execute` and `Printing`, `iretq` included); a key or an exception need not come. `KeyboardIrq`: the CPU executes, an interrupt that stays requested is
taken, and the controller hands over the next code; nobody has to type and the
timer need not tick. `FatLoad`: a failing read is retried, which is a stuttering
step; a sector the disk has is read in the end, one it does not have never is.

## What the models show

- `page = j + k - 1` is the page of the tested bit only where the zone begins at
  bit 1 of its word, and only in that word. On a PC's map that is the first word.
  Later words give the page below, and `k` starts at 0 there, so pages from 63
  on can be handed out while in use and bits from 64 on are tested one off. That
  is why the properties of uniqueness speak of pages below `WordBits - 1`.
- Page 0 is charged to zone 0, which does not contain it. The zone runs out one
  page early, and `page_free_cnt` does not pass zero as long as zones are
  separated by a hole (`Separate`) and the kernel does not fill zone 0 (`KernelLeavesRoom`).
- The kernel maps five pages to themselves and then the frame buffer, while
  `ZONE_NORMAL` is all of RAM (finding `map_normal`, comment at `memory.h:119`);
  and `ZONE_UNMAPED_INDEX` stays 0 on small machines (finding `map_unmaped`,
  comment at `memory.h:120`).
- `do_IRQ` sends its EOI last, so its reports survive nesting, but the frame
  back to the interrupted program does not.
- From the 26th e820 entry on the list is overwritten by the VBE information, which
  `init_memory` reads as one entry without a valid type: what lies above is not
  used as RAM, and nothing else breaks (`mem_init`).
- An exception is reported truly as long as no key comes between it and the
  report; after one the address is that of the key's frame, and the error code may
  read 0. An exception in `do_IRQ` leaves its interrupt without an EOI.
- `task_init` always ends in a fault. `current` is the memory at physical address 0,
  where the BIOS's interrupt vectors are, and `switch_to` follows a pointer in
  it. Had it been called more often, `kernel_thread` would put the tasks from the
  fifth on (pages 5 to 12) on the screen, where messages overwrite them, and the
  thirteenth page is not mapped.
- `%d` fetches an unsigned value and prints it with a sign, so -1 is +4294967295
  without `l`. `%s` of `NULL` faults, as the low half is not mapped any more.
- `\b` never blanks the cell it steps back to, but a place further down the screen;
  in the first column it leaves the cursor where it was, and in the first cell it
  faults. Nothing in the kernel prints one.
- A key that interrupts `++Pos.xPos` moves the cursor, and the interrupted call stores
  what it had loaded: its text goes on elsewhere, perhaps over the key's, which was
  whole when it was drawn. The cursor is on the screen again when a call returns.
- A key typed before the 8259A is reset leaves its line high: no edge, no
  interrupt, no key ever.

## Proofs

Theorems hold for all values of the constants that satisfy the assumptions of the
module they are about; the runs show the same properties on one instance.

| Module | Theorem | States |
|---|---|---|
| `PageAllocProofs` | `TypeCorrect` | `Spec => []TypeOK` |
| | `MarksAgree` | `Spec => []InUseMarked` |
| | `CountsAgree` | `Spec => []CountsMatch` |
| | `LinksAgree` | `Spec => []LinkMatchesRefs` |
| | `FreeCountHolds` | `Spec => []FreeNeverWraps` |
| | `FreshRuns` | `Spec => FreshFromStartWord` |
| | `LowPagesOnce` | `Spec => []UniqueLow` |
| | `LowestPageFirst` | `Spec => FreshWhileLowFree` |
| | `NeverFaults` | `Spec => []NoFault` |
| `MemoryInitProofs` | `TypeCorrect` | `Spec => []TypeOK` |
| | `BootNeverFaults` | `Spec => []NoFault` |
| | `FreeMemoryIsRam` | `Spec => []FreeIsRam` |
| | `AllocatorIsReady` | `Spec => []AllocatorReady` |
| `KeyboardIrqProofs` | `TypeCorrect` | `Spec => []TypeOK` |
| | `KeysReportedWhole` | `Spec => []ReportsWhole` |
| | `EarlyKeyIsLost` | `Spec => []EarlyKeyJams` |
| | `NestingKeepsMainOut` | `Spec => NestingIsFinal` |
| `TrapsProofs` | `TypeCorrect` | `Spec => []TypeOK` |
| | `IrqIsTransparent` | `Spec => []IrqTransparent` |
| | `ReportIsTrue` | `Spec => []ReportTrue` |
| | `TrapEndsIt` | `Spec => TrapIsFinal` |
| `FatLoadProofs` | `TypeCorrect` | `Spec => []TypeOK` |
| | `WholeFile` | `Spec => []LoadedWhole` |
| | `MissingIsTrue` | `Spec => []MissingIsAbsent` |
| | `Implements` | on well-formed volumes, initial states and steps are `FileLoad`'s |
| `ConsoleProofs` | `TypeCorrect` | `Spec => []TypeOK` |
| | `CursorStaysOnScreen` | `Spec => []CursorOnScreen` |
| | `TextsLaidOut` | `Spec => []LaidOut` |
| | `FormatRendered` | `FormatSpec => []Rendered` |
| | `FormatEnds` | `FormatSpec => []NeverPastEnd` |
| | `FormatTyped` | `FormatSpec => []FormatTypeOK` |
| `TasksProofs` | `TypeCorrect` | `Spec => []TypeOK` |
| | `ListStaysWhole` | `Spec => []ListedTasks` |

Each module has an inductive invariant `IInv` with `Init => IInv` and
`IInv /\ [Next]_vars => IInv'`; the theorem `Invariance` (a lemma in
`PageAllocProofs` and `KeyboardIrqProofs`) is what the others rest on. `ConsoleProofs` holds
the theorems about `Printk` too, whose invariant is `FormatInv`, and `TextsLaidOut` needs
`LaidInv` besides `IInv`.
`FoldLemmas` holds what several of them need: induction over the natural numbers,
stated with the *set* of numbers that have a property, since the provers cannot
instantiate a theorem over an operator; that a recursive function on numbers or on
finite subsets (iteration, and the folds of the community modules) satisfies
its equation; and how a sum changes with one summand.

**Page allocator.** Assumed: `SizesAssumption` (sizes are positive, a counter's
modulus exceeds the number of pages), `ZonesAssumption` (disjoint, non-empty
zones inside `pages_struct`, none with page 0) and `KernelAssumption` (no page
reserved for the kernel lacks a zone). `AllocatorIsReady` proves that `init_memory`
establishes the last two on the maps of a PC.
`IInv` is `TypeOK`, `InUseMarked` and "page 0 has a flag". The last is
needed because a page without a zone has `PHY_address` 0, so `page_init` on it
sets bit 0: that keeps bitmap and `attr` together only because page 0 is
in use. `FreshRuns` follows from `InUseMarked` where the probed bits are the pages
of the run (`FreshRun`). `LowInv` adds that an unused low page was never granted
and the kernel's pages keep a flag; with `FreshRuns` for the first word, and
because a later word gives pages from `WordBits - 1` on (`LowSlot`), no low page
is granted again. `CountsAgree` needs only `IInv` and how `page_init` moves
the set of used pages of a zone (`PageInitMoves`); `LinksAgree` how it moves the
sum of `ref_cnt` (`SumStep`). `FreeCountHolds` needs `RoomInv`: no zone has more pages
in use than it has pages, page 0 among those of zone 0. A call takes no more unused
pages of zone 0 than `page_free_cnt` says (`RunFreshInFirstZone`), as a run of
its pages is stopped by the hole behind it.
`FaultInv` adds `PaddingMarked`: the bits between the last page and the end of
the map stay set, so that no run reaches past the zone (`RunInZone`).

**Memory initialisation.** Assumed, in `LoaderAssumption` and `InitAssumption`: the
BIOS reports at least one entry, entries are numbers, and no address is so high that
a counter could not count the pages below it (64-bit addresses are far from it).
Nothing is assumed of the order, types or sizes of the entries; a PC's map is the
hypothesis `PCMap` of the last three theorems, not of the first. `Stored`
says what the loader has left, `Copied` that only the last entry copied may be followed
by none, so that on a PC's map the copied entries are the kept ones (`EntriesAre`) and
ascend (`EntriesAscend`). `Zoned` gives the zones built so far, one for each entry with
a whole page, in order; the next one lies above them (`BelowNext`), which is why toggling
its bits clears them and why its pages had no zone. `Paged`, `Marked` and `Counted`
hold through the loop that reserves the kernel: `Taken` pages are reserved, each zone has
used those of them it has (`Used`), and its free count is what is left, modulo
`CountMod`, as page 0 is charged to a zone it does not lie in. `RamHasZone` then
says that a page has a zone if and only if it is RAM.

**Keyboard interrupt.** Assumed: `MsgLen` is positive. `Control` relates the step of
`do_IRQ` to the 8259A and the frame slot: while it runs its interrupt is in
service, until its EOI no other is delivered, and after it all that is left is
`exit`; so a delivery nests only where the interrupted call has nothing more to
print, which is why its locals may be overwritten. `Shown` says that the screen is
a prefix of the full report: `Reported` blocks of `2 * MsgLen` characters and the part
of the next one that the step and `count` give.

**Exceptions.** Assumed, in `TrapsAssumption`: an error code is a number of 16 bits (the
handlers print `error_code & 0xfff8` as the selector's index, which drops the others). Which
exceptions there are and how many keys come is arbitrary. `At` gives the words pushed before each
instruction of each code (`Depth`), read off the code once (`IrqPush`, `IrqSet`,
`IrqOthers`, `StubsDo`); the sequences of `Stub` are written out as `IrqCode`,
`ZeroCode`, ... and proved equal to it. `Framed`: while the interrupt's code runs, the
CPU's five words are as the CPU pushed them, since the code pushes only above them, and
they lead to an instruction that may be interrupted: of the interrupt's own code, one
after its EOI. `RunReg(r)` is what the interrupted code will have in `r` again: the
register itself, or the word it was pushed to between `SaveAt(r)` and `RestoreAt(r)`.
Every instruction keeps it (`InIrq`), the detour of the segment registers through
`%rax` (`ThroughRax`) included; hence `IrqIsTransparent`. A key after an exception is
where the frame is lost: then `hit` holds, and the frame leads to the stub or the handler
and not to `Start_Kernel`, which is all `Carried` says of it. Without a key, `Carried`
follows the error code from word 6 to `%rsi` and the frame to `%rdi`. `Phase` relates what
runs to the exception there was.

**Boot sector.** Assumed, in `VolumeAssumption`: sizes are positive, `Base` is even
(16 in the code; it makes the middle digit of an entry split in halves), the
directory has its size, and the clusters in it are cluster numbers. `Search`
says that no entry looked at so far has the name, `Walk` that what was loaded is the
beginning of the chain, and `cluster` its next link. The heart is that `GetFATEntry`
returns the entry (`GetFATEntryIs`) though entries of one and a half bytes straddle
bytes and sectors; `EndIsNear` and `LengthIs` tie the walk to the definition of the
file: a chain that ends does so before it has seen every cluster.

**Console.** Assumed, in `ConsoleAssumption`: a screen of two columns and two rows
at least, fonts of at least a pixel, and no `\b` or tab where keys may come, nor one that
`do_IRQ` leaves in `buf` (the kernel prints no `\b`, and a tab only in `do_IRQ`'s first text, which
the second one overwrites). `Framed` says that
there is a frame to return by while `do_IRQ` prints. `Place` says, for each step of a call, how far off the
screen the cursor may be: not at all where the next character is looked at, one cell
until the two tests at the end of `putchar`, and one more (`o = 1`) in an interrupt
that came in between. `Loads` bounds what a call has loaded and will store,
whatever the interrupt has made of the cursor since; `Cursor` puts the two calls together: an
interrupt that has moved the cursor has left it on the screen, which is where any step of
the interrupted call may find it.

`TextsLaidOut` compares what a call draws with `Layout`, which knows nothing of the loop,
of `count` and `spaces`, or of the registers: it lays a text out character by character, a tab as
blanks up to its stop. `LaidInv` says so in the middle of a call: `buf` holds the text
as far as it is formatted, and what the loads and stores *still ahead* in the loop's
body will make of cursor and cells (`Ahead`) is the picture `ReachedTo` of the text
without the blanks the tab at hand still lacks (`TabLeft`, `Rest`). Each step does its
share of what was ahead (`AheadLaid`); at the head of the loop the next character (`NextChar`)
or blank (`NextBlank`, `FirstBlank`) is put ahead. It speaks of the call that runs only
(`Watched`): a key marks the call of `Start_Kernel` it interrupts as `mixed`, for which nothing
is promised any more, and `do_IRQ`'s calls run to their end. The induction is over the
steps of the call; that `Layout` grows by one character, and a tab by one blank, is
`LayoutSteps` and `BlanksSteps`, from `Recurrence` below.

**Formatting.** Assumed, in `PrintkAssumption`: an `unsigned int` fits in an `unsigned long`,
what a call means is literals and directives (`IsDirective`: any flags in any order,
repeated ones too, any width, precision and qualifier, in the format or, negative ones
too, as an argument), and a caller passes an argument for each `%` and `*` of any other
format. Two things are proved apart. *What a directive renders*: `itoa` counts `size` down in
four places, each of which may pass zero, and is shown (`ItoaIs`) to put a head (sign and
prefix) and a tail (zeros and digits) into a field (`Padded`), in which one of the three
paddings is used; the digits it divides off are the shortest numeral (`DigitsOfIs`). *Where the
loop is*: a directive spelled in the format is read as itself, since no part of one can be
taken for another: a decimal numeral has no leading zero, so the `0` flag ends where the width
begins (`DecimalNumeral`, `WidthChars`), and `skip_atoi` reads the numeral back
(`ReadsNumeral`). `FormatInv` says so step by step: between directives the text, the
counts and the place in format and arguments are those of the first *k* directives (`AtText`);
within the *k*-th one the flags, width and precision read so far are its own, whatever the last
one left there (`AtFlags` to `AtConvert`). For formats that spell no directive it has `Reserve`:
each argument fetched was paid for by a `%` or `*` that was passed. Recursive definitions
(`Power`, `skip_atoi`, `FlattenSeq`) are unfolded by `Recurrence`: a function on an
interval given by its first value and a step exists.

**Tasks.** Assumed: `LinkerAssumption` (the linker puts `init_task_union` above the
stack of `head.S`, at a multiple of 32KB) and machines of 2 to 63 pages. `Pages` says
that the *n*-th fork gets page *n*, `Links` gives every pointer of the list at each of the
four stores of `list_add_before`, but for structs that were printed over, all of which lie on the
screen; `Threads` what `do_fork` has still to fill in.

What the proofs found. `FreeNeverWraps` does not hold where the kernel takes the
last page of zone 0: page 0, charged to the same zone, takes `page_free_cnt` below
zero in `init_memory` already; `KernelLeavesRoom` excludes that. `FreshWhileLowFree`
does not need requests to fit in a word. A key may leave the cursor two off the
screen at the end of the last row, which no session of the run had shown; one
was added. A directory entry may name `EndOfChain` itself as its first cluster, and its chain
then be one link longer than the definition of the file had looked. In `TypeOK` of
`MemoryInit` a conjunct stood under an implication it did not belong to.

Model-checked only:

- liveness (`Terminates`, `EveryKeyReported`, `MainResumes`, `Reported`, `NoTaskRuns`,
  `Returns`, the liveness of `Loads`), which is beyond the prover;
- the two violations.

## Not modelled

- *Loader*: the copy of each sector of the kernel above 1MB, the list of modes
  above 0x8200, A20, the temporary page tables and the switch to long mode:
  straight-line code, in which nothing can happen in between.
- *Tasks*: `__switch_to`, `kernel_thread_func`, `init` and `do_exit` do not run, as
  `switch_to` faults before them. `init_mm` and the TSS are written and not read.
  No key comes during `do_fork`; what one does to the interrupted program is
  `KeyboardIrq`'s and `Traps`'s subject.
- *Exceptions*: one within a handler; the wording of the messages.
- *Console*: the font and the colours; what `vsprintf` writes behind its 4096
  bytes (no text in the kernel comes near).
- *Library*: port access, and the string and list functions nothing calls.
- *Kernel entry*: the encodings of descriptors.
- *Boot sector*: the two sectors of a FAT entry are read one by one; the BIOS reads them
  in one call, which on the floppy's geometry comes to the same.
- *Allocator*: requests with no flag set, which nothing in the kernel makes.
- What happens after a fault has overwritten foreign memory; the slave 8259A,
  whose lines are masked; build files.

The BIOS, the floppy, the keyboard, the timer, the 8259A and what the CPU does on
an exception are modelled from how the code uses them.

## Plan

In this order; all but the last exist.

1. `PageAlloc`, `PageAllocProofs`: the allocator and its invariants.
2. `PageTables`, `KernelMap`: the pages it hands out under the kernel's page tables.
3. `MemoryInit`, `MemoryInitProofs`: how its tables come about; `AllocatorReady` is the interface.
4. `KeyboardIrq`: a key and the program it interrupts.
5. `FatLoad`, refined to `FileLoad`.
6. `Loader`: the lists `MemoryInit` reads.
7. `Traps`: the entry code of exceptions and interrupts on the stack they share.
8. `Tasks`: `do_fork`, the list, and `current` computed from the stack pointer.
9. `Printk` and `Console`: formatting against a reference definition; the cursor.
10. The copy above 1MB in `FatLoad`'s chain walk. An abstract page pool (a set of free
    pages; a grant removes a run) that `PageAlloc` implements on layouts where it does.

