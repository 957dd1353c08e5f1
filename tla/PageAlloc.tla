------------------------------ MODULE PageAlloc ------------------------------
(***************************************************************************)
(* The 2MB page allocator of kernel/memory.c once init_memory has built    *)
(* its tables: alloc_pages scans the bitmap of a range of zones for a free *)
(* run and page_init marks every page of the run as used.                  *)
(*                                                                         *)
(* Pages are numbered by physical address >> PAGE_2M_SHIFT.  The bitmap is *)
(* the set of the numbers whose bit is 1.  Of a page's attr the model      *)
(* keeps what page_init's branches tell apart: no flag at all, only        *)
(* private flags, or PG_Referenced / PG_K_Share_To_U among the flags.      *)
(***************************************************************************)
EXTENDS Integers, FiniteSets, FiniteSetsExt

CONSTANTS
  WordBits,     \* bits in a word of bits_map (64 in the code)
  NPages,       \* pages_size: the length of pages_struct
  ZonesSize,    \* zones_size: the number of zones
  Zones,        \* zones_struct: [0..ZonesSize-1 -> first and end page]
  LastKernel,   \* idx: the last page init_memory reserves for the kernel
  Page4G,       \* the page at zone_start_addr 0x100000000
  Slack,        \* possible contents (set bits) of the memory after the bitmap
  Requests,     \* the values of "number" callers pass
  CountMod,     \* 2^64 in the code: the counters of a zone are unsigned
  MaxGrants     \* bound: how often one page may be handed out

Pages == 0 .. NPages - 1
ZoneIds == 0 .. ZonesSize - 1
ZonePages(i) == Zones[i].start .. Zones[i].end - 1

NULL == -1
Attrs == {"none", "private", "shared"}
Flags == {"private", "shared"}
Selectors == {"ZONE_DMA", "ZONE_NORMAL", "ZONE_UNMAPED", "other"}

MapLen == ((NPages + WordBits - 1) \div WordBits) * WordBits

\* Bits the scan may read: the bitmap and up to two words after it.
ReadBits == 0 .. (NPages \div WordBits + 2) * WordBits - 1

ASSUME SizesAssumption ==
  /\ WordBits \in Nat \ {0, 1}
  /\ NPages \in Nat \ {0}
  /\ ZonesSize \in Nat \ {0}
  /\ Page4G \in Nat
  /\ Slack \subseteq SUBSET {b \in ReadBits : b >= MapLen}
  /\ Requests \subseteq Nat
  /\ MaxGrants \in Nat
  /\ CountMod \in Nat /\ CountMod > NPages

\* What init_memory establishes from a sorted memory map without overlaps
\* (module MemoryInit): zones are disjoint intervals of pages_struct that
\* leave out page 0.
ASSUME ZonesAssumption ==
  /\ Zones \in [ZoneIds -> [start : Pages \ {0}, end : 1 .. NPages]]
  /\ \A i \in ZoneIds : Zones[i].start < Zones[i].end
  /\ \A i, j \in ZoneIds :
       i # j => Zones[i].end <= Zones[j].start \/ Zones[j].end <= Zones[i].start

\* page->zone_struct: page 0 is hung on zone 0, a page of no zone keeps NULL.
zone_struct ==
  [p \in Pages |->
     IF p = 0 THEN 0
     ELSE IF \E i \in ZoneIds : p \in ZonePages(i)
          THEN CHOOSE i \in ZoneIds : p \in ZonePages(i)
          ELSE NULL]

\* init_memory's own page_init calls met no page without a zone.
ASSUME KernelAssumption ==
  /\ LastKernel \in Pages
  /\ \A p \in 0 .. LastKernel : zone_struct[p] # NULL

BitOf_Mutant(p) == 2 * p  \* shifted by 20 instead of PAGE_2M_SHIFT

\* The bit page_init sets for p: PHY_address was only written for page 0 and
\* the pages of zones, elsewhere it is still 0.
BitOf(p) == IF zone_struct[p] = NULL THEN 0 ELSE p

-----------------------------------------------------------------------------
VARIABLES
  bits_map,        \* numbers of the bits that are 1
  attr,            \* page -> Attrs
  ref_cnt,         \* page -> reference count
  page_using_cnt,  \* zone -> pages in use, modulo CountMod
  page_free_cnt,   \* zone -> pages free, modulo CountMod
  tot_pages_link,  \* zone -> references to its pages
  crashed,         \* page_init left the tables or went through a NULL zone
  grant,           \* the last successful call: request, slot and pages
  grants           \* history: how often each page has been handed out

tables == <<bits_map, attr, ref_cnt, page_using_cnt, page_free_cnt, tot_pages_link>>
vars == <<tables, crashed, grant, grants>>

NoGrant == [zone |-> NULL, slot |-> 0, first |-> 0, number |-> 0, select |-> "other"]
GrantedPages(g) == g.first .. g.first + g.number - 1

-----------------------------------------------------------------------------
(* page_init *)

Or(a, f) == IF "shared" \in {a, f} THEN "shared" ELSE f

\* page_init counts p in its zone: p was unused, or it is being shared.
Counts(p, f) == attr[p] = "none" \/ attr[p] = "shared" \/ f = "shared"

FreshIn_Mutant(P, z) == Cardinality({p \in P : zone_struct[p] = z})  \* in use or not

\* Pages of zone z in P that were unused, and pages that get a reference.
FreshIn(P, z) == Cardinality({p \in P : zone_struct[p] = z /\ attr[p] = "none"})
LinkedIn_Mutant(P, f, z) == FreshIn(P, z)  \* sharing does not count
LinkedIn(P, f, z) == Cardinality({p \in P : zone_struct[p] = z /\ Counts(p, f)})

\* page_init on each page of P; the pages are distinct, so the calls commute.
page_init(P, f) ==
  /\ bits_map' = bits_map \cup
       {BitOf(p) : p \in {p \in P : attr[p] = "none" \/ ~ Counts(p, f)}}
  /\ attr' = [p \in Pages |-> IF p \in P THEN Or(attr[p], f) ELSE attr[p]]
  /\ ref_cnt' = [p \in Pages |->
       IF p \in P /\ Counts(p, f) THEN ref_cnt[p] + 1 ELSE ref_cnt[p]]
  /\ page_using_cnt' = [z \in ZoneIds |-> (page_using_cnt[z] + FreshIn(P, z)) % CountMod]
  /\ page_free_cnt' = [z \in ZoneIds |-> (page_free_cnt[z] - FreshIn(P, z)) % CountMod]
  /\ tot_pages_link' = [z \in ZoneIds |-> tot_pages_link[z] + LinkedIn(P, f, z)]

-----------------------------------------------------------------------------
(* The scan of alloc_pages *)

ZONE_DMA_INDEX == 0
ZONE_NORMAL_INDEX == 0
ZONE_UNMAPED_INDEX ==
  IF \E i \in ZoneIds : Zones[i].start = Page4G
  THEN CHOOSE i \in ZoneIds : Zones[i].start = Page4G
  ELSE 0

ZoneRange(select) ==
  CASE select = "ZONE_DMA"     -> 0 .. ZONE_DMA_INDEX
    [] select = "ZONE_NORMAL"  -> ZONE_DMA_INDEX .. ZONE_NORMAL_INDEX
    [] select = "ZONE_UNMAPED" -> ZONE_UNMAPED_INDEX .. ZonesSize - 1
    [] OTHER                   -> {}

\* The scan starts at j = zone start and goes on at the words after it, so a
\* slot (j, k) is identified by the bit j - j % 64 + k it tests first.
Word(q) == q \div WordBits
Offset(i, q) ==
  IF Word(q) = Word(Zones[i].start) THEN Zones[i].start % WordBits ELSE 0

\* Slots alloc_pages visits in zone i: k runs from offset to 63 - offset.
Scan(i) ==
  {q \in Word(Zones[i].start) * WordBits .. (Word(Zones[i].end) + 1) * WordBits - 1 :
     q % WordBits \in Offset(i, q) .. WordBits - 1 - Offset(i, q)}

MaskLen_Mutant(n) == n - 1  \* a mask that is one bit short

\* Number of ones in the mask: 1UL << number takes the shift modulo 64.
MaskLen(n) == IF n = WordBits THEN WordBits ELSE n % WordBits

\* Bits of which all must be 0.  At k = 0 the next word is shifted by 64,
\* that is by 0 on x86-64, so it is or-ed in unshifted.
Probe(q, n) ==
  LET ones == q .. q + MaskLen(n) - 1
  IN IF q % WordBits = 0 THEN ones \cup {b + WordBits : b \in ones} ELSE ones

Fits(i, n) == {q \in Scan(i) : Probe(q, n) \cap bits_map = {}}

FirstPage_Mutant(i, q) == q + Offset(i, q) + 1  \* + 1 for - 1

\* page = j + k - 1
FirstPage(i, q) == q + Offset(i, q) - 1

Candidates_Mutant(select, n) ==  \* page_free_cnt is not asked
  {i \in ZoneRange(select) : Fits(i, n) # {}}

\* Zones of the range in which the scan finds a slot.
Candidates(select, n) ==
  {i \in ZoneRange(select) : page_free_cnt[i] >= n /\ Fits(i, n) # {}}

Least(S) == {x \in S : \A y \in S : x <= y}

\* The zone and the slot the loops stop at, if any.
FirstFit(select, n) ==
  UNION {{i} \X Least(Fits(i, n)) : i \in Least(Candidates(select, n))}

\* page_init on p dereferences a NULL zone or an element after pages_struct.
Bad(p, f) == p \notin Pages \/ (zone_struct[p] = NULL /\ Counts(p, f))

-----------------------------------------------------------------------------
(* alloc_pages(select, n, f), one action per outcome *)

AllocFound(select, n, f) ==
  /\ ~ crashed
  /\ \E s \in FirstFit(select, n) :
       LET g == [zone |-> s[1], slot |-> s[2], first |-> FirstPage(s[1], s[2]),
                 number |-> n, select |-> select]
       IN /\ \A p \in GrantedPages(g) : ~ Bad(p, f) /\ grants[p] < MaxGrants
          /\ page_init(GrantedPages(g), f)
          /\ grant' = g
          /\ grants' = [p \in Pages |->
               IF p \in GrantedPages(g) THEN grants[p] + 1 ELSE grants[p]]
  /\ UNCHANGED crashed

\* The pages before the first bad one are initialised; a page of no zone is
\* marked before the write through its NULL zone faults.
AllocFault(select, n, f) ==
  /\ ~ crashed
  /\ \E s \in FirstFit(select, n) :
       LET run == FirstPage(s[1], s[2]) .. FirstPage(s[1], s[2]) + n - 1
       IN \E b \in Least({p \in run : Bad(p, f)}) :
            page_init({p \in run \cap Pages : p <= b}, f)
  /\ crashed' = TRUE
  /\ UNCHANGED <<grant, grants>>

\* No zone of the range has a slot (or the selector is unknown): NULL.
AllocNone(select, n, f) ==
  /\ ~ crashed
  /\ Candidates(select, n) = {}
  /\ grant' = NoGrant
  /\ UNCHANGED <<tables, crashed, grants>>

alloc_pages(select, n, f) ==
  AllocFound(select, n, f) \/ AllocFault(select, n, f) \/ AllocNone(select, n, f)

-----------------------------------------------------------------------------
\* The tables as init_memory leaves them: the pages up to LastKernel marked
\* by page_init, all other pages of zones free, every other bit of the map 1.
Reserved(z) == Cardinality({p \in 0 .. LastKernel : zone_struct[p] = z})

Init ==
  /\ \E s \in Slack :
       bits_map = s \cup NPages .. MapLen - 1 \cup
                  {p \in Pages : p <= LastKernel \/ zone_struct[p] = NULL}
  /\ attr = [p \in Pages |-> IF p <= LastKernel THEN "private" ELSE "none"]
  /\ ref_cnt = [p \in Pages |-> IF p <= LastKernel THEN 1 ELSE 0]
  /\ page_using_cnt = [z \in ZoneIds |-> Reserved(z)]
  /\ page_free_cnt = [z \in ZoneIds |->
       (Zones[z].end - Zones[z].start - Reserved(z)) % CountMod]
  /\ tot_pages_link = [z \in ZoneIds |-> Reserved(z)]
  /\ crashed = FALSE
  /\ grant = NoGrant
  /\ grants = [p \in Pages |-> 0]

Next ==
  \E select \in Selectors, n \in Requests, f \in Flags : alloc_pages(select, n, f)

Spec == Init /\ [][Next]_vars

-----------------------------------------------------------------------------
(* Layouts the properties distinguish *)

\* A zone that begins in the first word begins at page 1, as on a machine
\* whose RAM has no hole between 1MB and 128MB.
LowZone == \A i \in ZoneIds : Zones[i].start < WordBits => Zones[i].start = 1

\* Requests the mask can express.
RequestsFit == \A n \in Requests : n <= WordBits

\* All RAM in one zone that starts at bit 1 of a word and ends inside the map.
OneZone ==
  /\ ZonesSize = 1
  /\ Zones[0].start % WordBits = 1
  /\ Zones[0].end < MapLen

\* Zones in the order of their addresses, no two of them adjacent.
Separate == \A i, j \in ZoneIds : i < j => Zones[i].end < Zones[j].start

\* The kernel leaves a page of the first zone free.
KernelLeavesRoom == LastKernel < Zones[0].end - 1

InUse(z) == {p \in Pages : zone_struct[p] = z /\ attr[p] # "none"}
Length(z) == Zones[z].end - Zones[z].start

-----------------------------------------------------------------------------
(* Properties *)

TypeOK ==
  /\ bits_map \subseteq ReadBits
  /\ attr \in [Pages -> Attrs]
  /\ ref_cnt \in [Pages -> Nat]
  /\ page_using_cnt \in [ZoneIds -> 0 .. CountMod - 1]
  /\ page_free_cnt \in [ZoneIds -> 0 .. CountMod - 1]
  /\ tot_pages_link \in [ZoneIds -> Nat]
  /\ crashed \in BOOLEAN
  /\ grant \in [zone : ZoneIds \cup {NULL}, slot : ReadBits, first : Int,
                number : Nat, select : Selectors]
  /\ GrantedPages(grant) \subseteq Pages
  /\ grants \in [Pages -> Nat]

\* The bitmap that alloc_pages searches and the attr that page_init tests are
\* two records of the same fact: the bit of a page is clear exactly when the
\* page belongs to a zone and carries no flag.
InUseMarked ==
  \A p \in Pages : p \in bits_map <=> zone_struct[p] = NULL \/ attr[p] # "none"

\* The counters of a zone agree with its pages, whichever zone's scan reached
\* them, and also after a page was handed out twice or a fault cut a call
\* short; page_free_cnt does so modulo 2^64.
CountsMatch ==
  \A z \in ZoneIds :
    /\ page_using_cnt[z] = Cardinality(InUse(z))
    /\ page_free_cnt[z] = (Length(z) - Cardinality(InUse(z))) % CountMod

\* page_free_cnt never passes below zero, after which every request would
\* seem to fit: page 0 is charged to zone 0 though no zone contains it, so
\* the count of zone 0 reaches zero one page early.  (A kernel that fills
\* zone 0 would make init_memory itself wrap it.)
FreeNeverWraps ==
  Separate /\ KernelLeavesRoom => \A z \in ZoneIds : page_free_cnt[z] <= Length(z)

\* tot_pages_link of a zone is the number of references to its pages.
LinkMatchesRefs ==
  \A z \in ZoneIds :
    tot_pages_link[z] =
      MapThenSumSet(LAMBDA p : ref_cnt[p], {p \in Pages : zone_struct[p] = z})

\* A run found at a word where the zone starts at bit 1 (there, and only
\* there, page = j + k - 1 is the page of the tested bit) consists of pages
\* nobody uses.
FreshFromStartWord ==
  [][ /\ grants' # grants
      /\ Offset(grant'.zone, grant'.slot) = 1
      /\ grant'.number <= WordBits
      => \A p \in GrantedPages(grant') : attr[p] = "none" ]_vars

\* Below the last page of the first word of the bitmap the allocator keeps
\* its promise: no page is handed out twice, none of the kernel's own pages
\* is handed out at all, however large runs and sharing flags are mixed.
UniqueLow ==
  LowZone /\ RequestsFit =>
    \A p \in Pages : p < WordBits - 1 =>
      grants[p] <= (IF p <= LastKernel THEN 0 ELSE 1)

\* With all RAM in one such zone no call leaves the zone: page_init never
\* follows the NULL zone_struct of a page outside of RAM.
NoFault == OneZone /\ RequestsFit => ~ crashed

\* A single page from ZONE_NORMAL, the request do_fork makes, is the lowest
\* page nobody uses for as long as one of the pages 1 .. 62 is free.
FreshWhileLowFree ==
  [][ /\ LowZone
      /\ grants' # grants
      /\ grant'.number = 1 /\ grant'.select = "ZONE_NORMAL" /\ grant'.zone = 0
      /\ \E p \in ZonePages(0) : p < WordBits - 1 /\ attr[p] = "none"
      => grant'.first \in Least({p \in ZonePages(0) : attr[p] = "none"}) ]_vars
=============================================================================
