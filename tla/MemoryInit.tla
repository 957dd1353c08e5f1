------------------------------ MODULE MemoryInit ------------------------------
(***************************************************************************)
(* init_memory of kernel/memory.c: from the e820 entries the loader left   *)
(* at 0x7E00 to the bitmap, the page table and the zones that alloc_pages  *)
(* searches (module PageAlloc).  One step per iteration of its loops.      *)
(*                                                                         *)
(* Addresses are counted in units of which PageSize make a 2MB page.       *)
(***************************************************************************)
EXTENDS Loader, FiniteSets

CONSTANTS
  PageSize,     \* units of address in a page
  WordBits,     \* bits in a word of bits_map
  Addr4G,       \* the address 0x100000000
  CountMod,     \* counters are unsigned: 2^64 in the code
  EndStructs    \* where end_struct may lie: depends on the size of the kernel

NULL == -1

ASSUME InitAssumption ==
  /\ PageSize \in Nat \ {0} /\ WordBits \in Nat \ {0}
  /\ Addr4G \in Nat
  /\ CountMod \in Nat \ {0, 1} /\ EndStructs \subseteq Nat
  /\ \A t \in BiosTables : \A k \in DOMAIN t : t[k].address + t[k].len < CountMod * PageSize
  /\ \A l \in Leftovers : \A k \in Slots : l[k].address + l[k].len < CountMod * PageSize

VARIABLES
                       \* pc is, from "scan" on, the loop that runs: "size", "zones",
                       \* "page0", "index", "reserve"; "done", or "fault"
  i,                   \* its index
  e820,                \* memory_management_struct.e820[0 .. e820_len - 1]
  pages_size,
  bits_map,            \* numbers of the bits that are 1
  page,                \* pages_struct
  zones, zones_size,   \* zones_struct
  ZONE_UNMAPED_INDEX,
  end_struct

inputs == <<bios, stored, mem, end_struct>>
vars == <<inputs, pc, i, e820, pages_size, bits_map, page, zones, zones_size,
          ZONE_UNMAPED_INDEX>>

ZeroPage == [zone |-> NULL, PHY_address |-> 0, attr |-> "none", ref_cnt |-> 0]
ZeroZone == [start |-> 0, end |-> 0, using |-> 0, free |-> 0, link |-> 0]

-----------------------------------------------------------------------------
PAGE_2M_ALIGN(a) == ((a + PageSize - 1) \div PageSize) * PageSize
Floor(a) == (a \div PageSize) * PageSize

\* Never so far: the test below stops at the VBE information.
ArrayFull(n) == n = MaxEntries

\* The test at the end of the first loop, made on the entry after the copied one.
Stops(e) == e.type > 4 \/ e.len = 0 \/ e.type < 1

MapLen_Mutant(n) == ((n \div WordBits) + 1) * WordBits
MapLen(n) == ((n + WordBits - 1) \div WordBits) * WordBits

ScanEntry ==
  /\ pc = "scan"
  /\ e820' = Append(e820, mem[i])
  /\ i' = i + 1
  /\ pc' = IF ArrayFull(i + 1) \/ Stops(mem[i + 1]) THEN "size" ELSE "scan"
  /\ UNCHANGED <<inputs, pages_size, bits_map, page, zones, zones_size, ZONE_UNMAPED_INDEX>>

\* The tables are sized by the end of the last entry.
SizeTables ==
  /\ pc = "size"
  /\ LET last == e820[Len(e820)]
     IN pages_size' = (last.address + last.len) \div PageSize
  /\ bits_map' = 0 .. MapLen(pages_size') - 1
  /\ page' = [p \in 0 .. pages_size' - 1 |-> ZeroPage]
  /\ zones' = [z \in 0 .. MaxEntries - 1 |-> ZeroZone]
  /\ zones_size' = 0
  /\ i' = 0
  /\ pc' = "zones"
  /\ UNCHANGED <<inputs, e820, ZONE_UNMAPED_INDEX>>

Start_Mutant(e) == Floor(e.address)  \* the first page only partly covered
Start(e) == PAGE_2M_ALIGN(e.address)
End_Mutant(e) == PAGE_2M_ALIGN(e.address + e.len)  \* and the last one
End(e) == Floor(e.address + e.len)
FormsZone_Mutant(e) == e.type = 1 /\ Start(e) <= End(e)  \* a zone of no page
FormsZone(e) == e.type = 1 /\ Start(e) < End(e)
PagesOf(e) == Start(e) \div PageSize .. End(e) \div PageSize - 1

SkipEntry_Mutant ==  \* continue without ++i
  pc = "zones" /\ i < Len(e820) /\ ~ FormsZone(e820[i + 1]) /\ UNCHANGED vars

SkipEntry ==
  /\ pc = "zones" /\ i < Len(e820)
  /\ ~ FormsZone(e820[i + 1])
  /\ i' = i + 1
  /\ UNCHANGED <<inputs, pc, e820, pages_size, bits_map, page, zones, zones_size,
                 ZONE_UNMAPED_INDEX>>

\* The pages' bits are toggled, so a page that two entries cover is set again.
AddZone ==
  /\ pc = "zones" /\ i < Len(e820)
  /\ LET e == e820[i + 1]
         P == PagesOf(e)
     IN /\ FormsZone(e)
        /\ P \subseteq DOMAIN page
        /\ zones' = [zones EXCEPT ![zones_size] =
             [start |-> Start(e), end |-> End(e),
              using |-> 0, free |-> Cardinality(P), link |-> 0]]
        /\ page' = [p \in DOMAIN page |->
             IF p \in P THEN [ZeroPage EXCEPT !.zone = zones_size, !.PHY_address = p * PageSize]
             ELSE page[p]]
        /\ bits_map' = (bits_map \ P) \cup (P \ bits_map)
  /\ zones_size' = zones_size + 1
  /\ i' = i + 1
  /\ UNCHANGED <<inputs, pc, e820, pages_size, ZONE_UNMAPED_INDEX>>

\* An entry above the end of the last one: its pages are written behind
\* pages_struct.  What that destroys is not modelled.
AddZoneBeyond ==
  /\ pc = "zones" /\ i < Len(e820)
  /\ FormsZone(e820[i + 1])
  /\ ~ PagesOf(e820[i + 1]) \subseteq DOMAIN page
  /\ pc' = "fault"
  /\ UNCHANGED <<inputs, i, e820, pages_size, bits_map, page, zones, zones_size,
                 ZONE_UNMAPED_INDEX>>

ZonesBuilt ==
  /\ pc = "zones" /\ i = Len(e820)
  /\ pc' = "page0"
  /\ UNCHANGED <<inputs, i, e820, pages_size, bits_map, page, zones, zones_size,
                 ZONE_UNMAPED_INDEX>>

\* Page 0 is hung on the first zone, though it lies in none.
ResetPage0 ==
  /\ pc = "page0"
  /\ IF pages_size = 0
     THEN pc' = "fault" /\ UNCHANGED page
     ELSE pc' = "index" /\ page' = [page EXCEPT ![0] = [ZeroPage EXCEPT !.zone = 0]]
  /\ i' = 0
  /\ UNCHANGED <<inputs, e820, pages_size, bits_map, zones, zones_size, ZONE_UNMAPED_INDEX>>

SetIndexes ==
  /\ pc = "index" /\ i < zones_size
  /\ ZONE_UNMAPED_INDEX' = IF zones[i].start = Addr4G THEN i ELSE ZONE_UNMAPED_INDEX
  /\ i' = i + 1
  /\ UNCHANGED <<inputs, pc, e820, pages_size, bits_map, page, zones, zones_size>>

IndexesSet ==
  /\ pc = "index" /\ i = zones_size
  /\ pc' = "reserve"
  /\ i' = 0
  /\ UNCHANGED <<inputs, e820, pages_size, bits_map, page, zones, zones_size,
                 ZONE_UNMAPED_INDEX>>

idx == end_struct \div PageSize

\* page_init on page i with private flags.  The page has no flag yet, so
\* page_init takes its first branch.
ReservePage ==
  /\ pc = "reserve" /\ i <= idx
  /\ i \in DOMAIN page /\ page[i].zone # NULL
  /\ LET z == page[i].zone
     IN zones' = [zones EXCEPT ![z].using = (@ + 1) % CountMod,
                               ![z].free = (@ - 1) % CountMod,
                               ![z].link = @ + 1]
  /\ page' = [page EXCEPT ![i].attr = "private", ![i].ref_cnt = @ + 1]
  /\ bits_map' = bits_map \cup {page[i].PHY_address \div PageSize}
  /\ i' = i + 1
  /\ UNCHANGED <<inputs, pc, e820, pages_size, zones_size, ZONE_UNMAPED_INDEX>>

\* A page of the kernel that is no RAM has no zone to charge.
ReserveFault ==
  /\ pc = "reserve" /\ i <= idx
  /\ i \in DOMAIN page => page[i].zone = NULL
  /\ pc' = "fault"
  /\ UNCHANGED <<inputs, i, e820, pages_size, bits_map, page, zones, zones_size,
                 ZONE_UNMAPED_INDEX>>

Reserved ==
  /\ pc = "reserve" /\ i = idx + 1
  /\ pc' = "done"
  /\ UNCHANGED <<inputs, i, e820, pages_size, bits_map, page, zones, zones_size,
                 ZONE_UNMAPED_INDEX>>

Init ==
  /\ LoaderInit
  /\ end_struct \in EndStructs
  /\ i = 0
  /\ e820 = <<>>
  /\ pages_size = 0 /\ bits_map = {} /\ page = <<>>
  /\ zones = <<>> /\ zones_size = 0
  /\ ZONE_UNMAPED_INDEX = 0

Load ==
  /\ LoaderNext
  /\ UNCHANGED <<end_struct, i, e820, pages_size, bits_map, page, zones, zones_size,
                 ZONE_UNMAPED_INDEX>>

init_memory ==
  \/ ScanEntry \/ SizeTables
  \/ SkipEntry \/ AddZone \/ AddZoneBeyond \/ ZonesBuilt
  \/ ResetPage0 \/ SetIndexes \/ IndexesSet
  \/ ReservePage \/ ReserveFault \/ Reserved

Next == Load \/ init_memory

\* Loader and init_memory run alone: interrupts are off until init_intr.
Spec == Init /\ [][Next]_vars /\ WF_vars(Next)

-----------------------------------------------------------------------------
(* Memory maps the properties distinguish *)

\* What is left of the BIOS's list: the VBE information has overwritten the rest.
Kept == SubSeq(bios, 1, IF Len(bios) < VbeEntry THEN Len(bios) ELSE VbeEntry)

\* Entries in the order of their addresses that do not overlap, all of a
\* type the scan accepts, and behind them nothing that looks like an entry.
Regular ==
  /\ \A k \in 1 .. Len(Kept) : ~ Stops(Kept[k])
  /\ \A k \in 1 .. Len(Kept) - 1 : Kept[k].address + Kept[k].len <= Kept[k + 1].address
  /\ Stops(mem[Len(Kept)])

\* Page p consists of RAM of one entry.
IsRam(p) ==
  \E k \in 1 .. Len(Kept) :
    /\ Kept[k].type = 1
    /\ Kept[k].address <= p * PageSize
    /\ (p + 1) * PageSize <= Kept[k].address + Kept[k].len

\* A PC: the first 2MB have a hole at 640KB, there is RAM above them, and
\* the kernel's pages are RAM.
PCMap ==
  /\ Regular
  /\ ~ IsRam(0) /\ \E k \in 1 .. Len(Kept) : FormsZone(Kept[k])
  /\ \A p \in 1 .. idx : IsRam(p)

ZonePages(z) == zones[z].start \div PageSize .. zones[z].end \div PageSize - 1

-----------------------------------------------------------------------------
(* Properties *)

TypeOK ==
  /\ pc \in {"e820", "vbe", "stopped", "scan", "size", "zones", "page0", "index",
             "reserve", "done", "fault"}
  /\ stored <= Len(bios)
  /\ pc \in {"e820", "stopped"} => e820 = <<>>
  /\ Len(e820) <= VbeEntry
  /\ bits_map \subseteq 0 .. pages_size + WordBits - 2
  /\ DOMAIN page = 0 .. pages_size - 1
  /\ \A p \in DOMAIN page : page[p].zone \in 0 .. zones_size - 1 \cup {NULL, 0}
  /\ zones_size \in 0 .. MaxEntries
  /\ \A z \in DOMAIN zones : {zones[z].using, zones[z].free} \subseteq 0 .. CountMod - 1
  /\ ZONE_UNMAPED_INDEX \in 0 .. MaxEntries - 1

\* Whatever the BIOS reports and whatever lies behind it, the boot comes to an
\* end: at the allocator's initial state, a fault or one of the loader's messages.
Terminates == <>(pc \in {"done", "fault", "stopped"})

\* On a PC's memory map no table is left and no NULL zone is followed.
NoFault == PCMap => pc # "fault"

\* What the allocator will take for free is RAM, all of it, and none of the
\* kernel's: holes, reserved regions and partly covered pages are never free.
\* Of a list that reached the VBE information the first 25 entries count.
FreeIsRam ==
  pc = "done" /\ PCMap =>
    \A p \in 0 .. MapLen(pages_size) - 1 : p \notin bits_map <=> IsRam(p) /\ p > idx

\* The tables are what PageAlloc starts from: disjoint zones inside
\* pages_struct that leave out page 0 (ZonesAssumption), no kernel page
\* without a zone (KernelAssumption), and marks and counters that agree with
\* them (Init), page 0 being charged to zone 0.
AllocatorReady ==
  pc = "done" /\ PCMap =>
    /\ \A z \in 0 .. zones_size - 1 :
         /\ 0 < zones[z].start /\ zones[z].start < zones[z].end
         /\ ZonePages(z) \subseteq DOMAIN page \ {0}
         /\ \A y \in 0 .. zones_size - 1 : z < y => zones[z].end <= zones[y].start
    /\ \A p \in DOMAIN page :
         /\ page[p].zone = IF p = 0 THEN 0
                           ELSE IF \E z \in 0 .. zones_size - 1 : p \in ZonePages(z)
                                THEN CHOOSE z \in 0 .. zones_size - 1 : p \in ZonePages(z)
                                ELSE NULL
         /\ page[p].attr = IF p <= idx THEN "private" ELSE "none"
         /\ page[p].ref_cnt = IF p <= idx THEN 1 ELSE 0
         /\ page[p].zone # NULL => page[p].PHY_address = p * PageSize
         /\ p \in bits_map <=> p <= idx \/ page[p].zone = NULL
    /\ idx \in DOMAIN page /\ \A p \in 0 .. idx : page[p].zone # NULL
    /\ \A z \in 0 .. zones_size - 1 :
         LET used == Cardinality({p \in 0 .. idx : page[p].zone = z})
         IN /\ zones[z].using = used /\ zones[z].link = used
            /\ zones[z].free = (Cardinality(ZonePages(z)) - used) % CountMod
    /\ \/ zones[ZONE_UNMAPED_INDEX].start = Addr4G
       \/ /\ ZONE_UNMAPED_INDEX = 0
          /\ \A z \in 0 .. zones_size - 1 : zones[z].start # Addr4G
=============================================================================
