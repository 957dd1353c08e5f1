--------------------------- MODULE MemoryInitProofs ---------------------------
(***************************************************************************)
(* Theorems about MemoryInit, for every list of the BIOS: what the tables  *)
(* hold when init_memory returns is what PageAlloc assumes.                *)
(***************************************************************************)
EXTENDS MemoryInit, FoldLemmas

-----------------------------------------------------------------------------
(* The invariant *)

Loading == {"e820", "vbe", "stopped"}
TablePcs == {"zones", "page0", "index", "reserve", "done", "fault"}

Pages == 0 .. pages_size - 1
PageType == [zone : Nat \cup {NULL}, PHY_address : Nat, attr : {"none", "private"}, ref_cnt : Nat]
ZoneType == [start : Nat, end : Nat, using : Nat, free : Nat, link : Nat]

\* What the loader has stored, and what init_memory finds.
Stored ==
  /\ bios \in BiosTables /\ mem \in [Slots -> Entry] /\ end_struct \in EndStructs
  /\ stored \in 0 .. Len(bios)
  /\ \A k \in Slots : mem[k].address + mem[k].len < CountMod * PageSize
  /\ pc = "e820" => stored < Len(bios)
  /\ pc = "vbe" => stored = Len(bios)
  /\ pc \in {"e820", "vbe"} => \A k \in Slots : k < stored => mem[k] = bios[k + 1]
  /\ pc \notin Loading =>
       \A k \in Slots :
         /\ k < VbeEntry /\ k < Len(bios) => mem[k] = bios[k + 1]
         /\ k >= VbeEntry => mem[k] = VbeInfo

\* The entries init_memory has copied: only the last may be followed by one
\* that is none.
Copied ==
  /\ e820 \in Seq(Entry) /\ Len(e820) <= VbeEntry
  /\ \A k \in 1 .. Len(e820) : e820[k] = mem[k - 1]
  /\ \A k \in 1 .. Len(e820) - 1 : ~ Stops(mem[k])
  /\ pc \in Loading => e820 = <<>>
  /\ pc = "scan" => Len(e820) < VbeEntry /\ (e820 # <<>> => ~ Stops(mem[Len(e820)]))
  /\ pc \in TablePcs \cup {"size"} => e820 # <<>> /\ Stops(mem[Len(e820)])

Index ==
  /\ i \in Nat
  /\ pc \in Loading => i = 0
  /\ pc = "scan" => i = Len(e820)
  /\ pc = "zones" => i <= Len(e820) /\ zones_size <= i
  /\ pc = "index" => i <= zones_size
  /\ pc = "reserve" => i <= idx + 1
  /\ pc \in {"index", "reserve", "done"} => pages_size > 0

Typed ==
  /\ pc \in Loading \cup {"scan", "size"} \cup TablePcs
  /\ pages_size \in Nat /\ pages_size < CountMod
  /\ bits_map \subseteq 0 .. MapLen(pages_size) - 1
  /\ page \in [Pages -> PageType]
  /\ \A p \in Pages : /\ page[p].zone \in (0 .. zones_size - 1) \cup {NULL, 0}
                      /\ page[p].PHY_address \in {0, p * PageSize}
  /\ zones_size \in 0 .. VbeEntry
  /\ IF pc \in TablePcs THEN zones \in [0 .. MaxEntries - 1 -> ZoneType] ELSE zones = <<>>
  /\ pc \notin TablePcs => zones_size = 0
  /\ pc \in TablePcs => zones_size <= Len(e820)
  /\ \A z \in DOMAIN zones : zones[z].using < CountMod /\ zones[z].free < CountMod
  /\ ZONE_UNMAPED_INDEX \in 0 .. MaxEntries - 1
  /\ pc \notin {"index", "reserve", "done", "fault"} => ZONE_UNMAPED_INDEX = 0

\* What holds on a PC's memory map.

\* Zone z comes from entry k.
ZoneIs(z, k) ==
  FormsZone(e820[k]) /\ zones[z].start = Start(e820[k]) /\ zones[z].end = End(e820[k])

Built == IF pc = "zones" THEN i ELSE Len(e820)

Zoned ==
  /\ pages_size = (e820[Len(e820)].address + e820[Len(e820)].len) \div PageSize
  /\ \A z \in 0 .. zones_size - 1 : \E k \in 1 .. Built : ZoneIs(z, k)
  /\ \A k \in 1 .. Built : FormsZone(e820[k]) => \E z \in 0 .. zones_size - 1 : ZoneIs(z, k)
  /\ \A y, z \in 0 .. zones_size - 1 : y < z => zones[y].end <= zones[z].start

\* How many pages are reserved.
Taken == CASE pc = "reserve" -> i [] pc = "done" -> idx + 1 [] OTHER -> 0

Paged ==
  \A p \in Pages :
    /\ IF p = 0 THEN page[p].zone = IF pc \in {"zones", "page0"} THEN NULL ELSE 0
       ELSE \A z \in 0 .. zones_size - 1 : page[p].zone = z <=> p \in ZonePages(z)
    /\ page[p].zone # NULL => page[p].zone < zones_size /\ page[p].PHY_address = p * PageSize
    /\ page[p].attr = IF p < Taken THEN "private" ELSE "none"
    /\ page[p].ref_cnt = IF p < Taken THEN 1 ELSE 0

Marked ==
  \A b \in 0 .. MapLen(pages_size) - 1 :
    b \in bits_map <=> b \notin Pages \/ b < Taken \/ b = 0 \/ page[b].zone = NULL

Used(z, n) == Cardinality({p \in 0 .. n - 1 : page[p].zone = z})

Counted ==
  /\ Taken <= pages_size
  /\ \A z \in 0 .. zones_size - 1 :
       LET used == Used(z, Taken)
       IN /\ zones[z].using = used /\ zones[z].link = used
          /\ zones[z].free = (Cardinality(ZonePages(z)) - used) % CountMod

Indexed ==
  LET m == IF pc \in {"zones", "page0"} THEN 0 ELSE IF pc = "index" THEN i ELSE zones_size
  IN \/ ZONE_UNMAPED_INDEX < m /\ zones[ZONE_UNMAPED_INDEX].start = Addr4G
     \/ ZONE_UNMAPED_INDEX = 0 /\ \A z \in 0 .. m - 1 : zones[z].start # Addr4G

OnPC == PCMap /\ pc \in TablePcs => pc # "fault" /\ Zoned /\ Paged /\ Marked /\ Counted /\ Indexed

IInv == Stored /\ Copied /\ Index /\ Typed /\ OnPC

-----------------------------------------------------------------------------
(* Arithmetic *)

\* The assumptions, one by one.
LEMMA Sizes ==
  /\ PageSize \in Nat \ {0} /\ WordBits \in Nat \ {0} /\ Addr4G \in Nat
  /\ CountMod \in Nat \ {0, 1} /\ EndStructs \subseteq Nat
  /\ MaxEntries \in Nat \ {0} /\ VbeEntry \in 1 .. MaxEntries
  /\ BiosTables \subseteq Seq(Entry) \ {<<>>} /\ Leftovers \subseteq [Slots -> Entry]
BY InitAssumption, LoaderAssumption

LEMMA DivIs ==
  \A n \in Nat, m \in Nat \ {0} :
    n \div m \in Nat /\ (n \div m) * m <= n /\ n < (n \div m) * m + m
OBVIOUS

LEMMA MulMono ==
  \A a, b \in Int, m \in Nat \ {0} : (a * m <= b * m <=> a <= b) /\ (a * m < b * m <=> a < b)
<1> SUFFICES ASSUME NEW a \in Int, NEW b \in Int, NEW m \in Nat \ {0}
             PROVE  (a * m <= b * m <=> a <= b) /\ (a * m < b * m <=> a < b)
  OBVIOUS
<1>1. \A d \in Nat : d * m \in Nat /\ (d > 0 => d * m > 0)
  OBVIOUS
<1>2. b >= a => (b - a) * m = b * m - a * m /\ b - a \in Nat
  OBVIOUS
<1>3. a >= b => (a - b) * m = a * m - b * m /\ a - b \in Nat
  OBVIOUS
<1>4. a * m \in Int /\ b * m \in Int
  OBVIOUS
<1> QED
  BY <1>1, <1>2, <1>3, <1>4

\* How far a quotient reaches.
LEMMA DivBounds ==
  ASSUME NEW n \in Nat, NEW m \in Nat \ {0}, NEW q \in Nat
  PROVE  /\ q <= n \div m <=> q * m <= n
         /\ q < n \div m <=> (q + 1) * m <= n
<1> DEFINE d == n \div m
<1>1. d \in Nat /\ d * m <= n /\ n < d * m + m
  BY DivIs
<1> HIDE DEF d
<1>2. /\ (d + 1) * m = d * m + m /\ d * m \in Nat /\ q * m \in Nat /\ (q + 1) * m \in Nat
      /\ (d + 1) * m \in Nat
  BY <1>1
<1>3. q <= d => q * m <= d * m
  BY <1>1, MulMono
<1>4. q * m < (d + 1) * m => q < d + 1
  BY <1>1, MulMono
<1>5. q + 1 <= d => (q + 1) * m <= d * m
  BY <1>1, MulMono
<1>6. (q + 1) * m < (d + 1) * m => q + 1 < d + 1
  BY <1>1, MulMono
<1>7. (q <= d <=> q * m <= n) /\ (q < d <=> (q + 1) * m <= n)
  BY <1>1, <1>2, <1>3, <1>4, <1>5, <1>6
<1> QED
  BY <1>7 DEF d

\* The pages from a rounded-up address to a rounded-down one are those that lie between.
LEMMA PagesOfIs ==
  ASSUME NEW e \in Entry
  PROVE  /\ Start(e) \in Nat /\ End(e) \in Nat
         /\ Start(e) \div PageSize \in Nat /\ End(e) \div PageSize \in Nat
         /\ Start(e) = (Start(e) \div PageSize) * PageSize
         /\ End(e) = (End(e) \div PageSize) * PageSize
         /\ End(e) \div PageSize = (e.address + e.len) \div PageSize
         /\ e.address <= Start(e) /\ End(e) <= e.address + e.len
         /\ \A p \in Nat : p \in PagesOf(e) <=>
              e.address <= p * PageSize /\ (p + 1) * PageSize <= e.address + e.len
         /\ Start(e) < End(e) <=> Start(e) \div PageSize < End(e) \div PageSize
<1> DEFINE a == e.address
           b == e.address + e.len
           m == PageSize
           s == (a + m - 1) \div m
           t == b \div m
<1>1. a \in Nat /\ b \in Nat /\ a <= b /\ m \in Nat \ {0} /\ a + m - 1 \in Nat
  BY Sizes DEF Entry
<1>2. Start(e) = s * m /\ End(e) = t * m
  BY DEF Start, End, PAGE_2M_ALIGN, Floor
<1>3. s \in Nat /\ s * m <= a + m - 1 /\ a + m - 1 < s * m + m
  <2> DEFINE n == a + m - 1
  <2> HIDE DEF n, m
  <2>1. \A k \in Nat : k \div m \in Nat /\ (k \div m) * m <= k /\ k < (k \div m) * m + m
    BY <1>1, DivIs
  <2>2. n \in Nat
    BY <1>1 DEF n
  <2>3. n \div m \in Nat /\ (n \div m) * m <= n /\ n < (n \div m) * m + m
    BY <2>1, <2>2
  <2> QED
    BY <2>3 DEF n
<1>4. t \in Nat /\ t * m <= b /\ b < t * m + m
  <2> HIDE DEF b, m
  <2> QED
    BY <1>1, DivIs
<1> HIDE DEF a, b, m, s, t
<1>5. \A q \in Nat : q * m \in Nat /\ (q * m) \div m = q
  BY <1>1, DivUnique
<1>6. Start(e) \div m = s /\ End(e) \div m = t
  BY <1>2, <1>3, <1>4, <1>5
<1>7. a <= s * m /\ s * m \in Nat /\ t * m \in Nat
  BY <1>1, <1>3, <1>4, <1>5
<1>8. ASSUME NEW p \in Nat
      PROVE  p \in PagesOf(e) <=> a <= p * m /\ (p + 1) * m <= b
  <2>1. p \in PagesOf(e) <=> s <= p /\ p + 1 <= t
    BY <1>3, <1>4, <1>6 DEF PagesOf, m
  <2>2. p + 1 <= t <=> (p + 1) * m <= b
    BY <1>1, DivBounds DEF t
  <2>3. s <= p <=> a <= p * m
    <3>1. s <= p => s * m <= p * m
      BY <1>1, <1>3, MulMono
    <3>2. s * m < (p + 1) * m => s < p + 1
      BY <1>1, <1>3, MulMono
    <3>3. (p + 1) * m = p * m + m /\ p * m \in Nat
      BY <1>1
    <3> QED
      BY <1>1, <1>3, <1>7, <3>1, <3>2, <3>3
  <2> QED
    BY <2>1, <2>2, <2>3
<1>9. s * m < t * m <=> s < t
  BY <1>1, <1>3, <1>4, MulMono
<1>10. \A p \in Nat : p \in PagesOf(e) <=>
         e.address <= p * PageSize /\ (p + 1) * PageSize <= e.address + e.len
  BY <1>8 DEF a, b, m
<1>11. End(e) \div PageSize = (e.address + e.len) \div PageSize
  BY <1>6 DEF t, b, m
<1>12. e.address <= Start(e) /\ End(e) <= e.address + e.len
  BY <1>2, <1>4, <1>7 DEF a, b
<1> QED
  BY <1>2, <1>3, <1>4, <1>6, <1>7, <1>9, <1>10, <1>11, <1>12 DEF m

\* The bitmap reaches to the end of the word of the last page.
LEMMA MapLenIs ==
  ASSUME NEW n \in Nat
  PROVE  MapLen(n) \in Nat /\ n <= MapLen(n) /\ MapLen(n) <= n + WordBits - 1
<1> DEFINE w == WordBits
           m == n + w - 1
<1>1. w \in Nat \ {0} /\ m \in Nat
  BY Sizes
<1> HIDE DEF m
<1>2. m \div w \in Nat /\ (m \div w) * w <= m /\ m < (m \div w) * w + w
  <2> HIDE DEF w
  <2> QED
    BY <1>1, DivIs
<1>3. MapLen(n) = (m \div w) * w
  BY DEF MapLen, m
<1> DEFINE x == (m \div w) * w
<1>4. x \in Nat
  <2> DEFINE q == m \div w
  <2>1. q \in Nat
    BY <1>2
  <2> HIDE DEF q, w
  <2>2. q * w \in Nat
    BY <1>1, <2>1
  <2> QED
    BY <2>2 DEF q
<1>5. x <= n + w - 1 /\ n + w - 1 < x + w
  BY <1>2 DEF m
<1> HIDE DEF x
<1> QED
  BY <1>1, <1>3, <1>4, <1>5 DEF x

-----------------------------------------------------------------------------
(* The loader *)

LEMMA InitHolds == Init => IInv
<1> SUFFICES ASSUME Init
             PROVE  IInv
  OBVIOUS
<1> USE Sizes
<1>1. /\ pc = "e820" /\ stored = 0 /\ bios \in BiosTables /\ mem \in Leftovers
      /\ end_struct \in EndStructs /\ i = 0 /\ e820 = <<>> /\ pages_size = 0
      /\ bits_map = {} /\ page = <<>> /\ zones = <<>> /\ zones_size = 0
      /\ ZONE_UNMAPED_INDEX = 0
  BY DEF Init, LoaderInit
<1>2. Len(bios) \in Nat \ {0} /\ bios \in Seq(Entry) /\ mem \in [Slots -> Entry]
  BY <1>1
<1>3. \A k \in Slots : mem[k].address + mem[k].len < CountMod * PageSize
  BY <1>1, InitAssumption
<1>4. Stored
  BY <1>1, <1>2, <1>3 DEF Stored, Slots, Loading
<1>5. Copied
  BY <1>1 DEF Copied, Loading, TablePcs
<1>6. Index
  BY <1>1 DEF Index, Loading
<1>7. Pages = {} /\ 0 .. MapLen(pages_size) - 1 = 0 .. MapLen(0) - 1
  BY <1>1 DEF Pages
<1>8. Typed
  BY <1>1, <1>7 DEF Typed, Loading, TablePcs
<1> QED
  BY <1>1, <1>4, <1>5, <1>6, <1>8 DEF IInv, OnPC, TablePcs

\* The VBE information, read as an entry.
LEMMA VbeIs ==
  /\ VbeInfo \in Entry /\ Stops(VbeInfo)
  /\ VbeInfo.address + VbeInfo.len < CountMod * PageSize
<1>1. CountMod * PageSize > 1
  <2>1. CountMod \in Nat /\ CountMod > 1 /\ PageSize \in Nat /\ PageSize >= 1
    BY Sizes
  <2>2. \A a, b \in Nat : a > 1 /\ b >= 1 => a * b > 1
    <3> SUFFICES ASSUME NEW a \in Nat, NEW b \in Nat, a > 1, b >= 1
                 PROVE  a * b > 1
      OBVIOUS
    <3>1. 1 * a <= b * a
      BY MulMono
    <3>2. 1 * a = a /\ b * a = a * b
      OBVIOUS
    <3> QED
      BY <3>1, <3>2
  <2> QED
    BY <2>1, <2>2
<1> QED
  BY <1>1, Sizes DEF VbeInfo, Entry, Stops

LEMMA LoadHolds ==
  ASSUME IInv, Load
  PROVE  IInv'
<1> USE Sizes
<1>1. Stored /\ Copied /\ Index /\ Typed
  BY DEF IInv
<1>2. /\ UNCHANGED <<end_struct, i, e820, pages_size, bits_map, page, zones, zones_size,
                     ZONE_UNMAPED_INDEX, bios>>
      /\ pc \in {"e820", "vbe"} /\ pc' \in Loading \cup {"scan"}
  BY DEF Load, LoaderNext, GetMemStruct, GetVbeInfo, BiosFails, Loading
<1>3. i = 0 /\ e820 = <<>> /\ zones = <<>> /\ zones_size = 0
  BY <1>1, <1>2 DEF Copied, Index, Typed, Loading, TablePcs
<1>4. Len(bios) \in Nat /\ bios \in Seq(Entry) /\ bios \in BiosTables /\ Slots \subseteq Nat
  BY <1>1 DEF Stored, Slots
<1>5. Stored'
  <2>1. CASE GetMemStruct
    <3>1. /\ mem' = [k \in Slots |-> IF k = stored THEN bios[stored + 1] ELSE mem[k]]
          /\ stored' = stored + 1 /\ pc = "e820"
          /\ pc' = IF stored' = Len(bios) THEN "vbe" ELSE "e820"
      BY <2>1 DEF GetMemStruct
    <3>2. stored \in Nat /\ stored < Len(bios) /\ bios[stored + 1] \in Entry
      BY <1>1, <1>4, <3>1 DEF Stored
    <3>3. bios[stored + 1].address + bios[stored + 1].len < CountMod * PageSize
      <4>1. stored + 1 \in DOMAIN bios
        BY <1>4, <3>2
      <4> QED
        BY <1>4, <4>1, InitAssumption
    <3>4. mem' \in [Slots -> Entry]
      BY <1>1, <3>1, <3>2 DEF Stored
    <3>5. \A k \in Slots : mem'[k].address + mem'[k].len < CountMod * PageSize
      BY <1>1, <3>1, <3>3 DEF Stored
    <3>6. \A k \in Slots : k < stored + 1 => mem'[k] = bios[k + 1]
      BY <1>1, <1>4, <3>1, <3>2 DEF Stored
    <3>7. stored + 1 \in 0 .. Len(bios) /\ (stored + 1 # Len(bios) => stored + 1 < Len(bios))
      BY <1>4, <3>2
    <3> QED
      BY <1>1, <1>2, <3>1, <3>4, <3>5, <3>6, <3>7 DEF Stored, Loading
  <2>2. CASE GetVbeInfo
    <3>1. /\ mem' = [k \in Slots |-> IF k >= VbeEntry THEN VbeInfo ELSE mem[k]]
          /\ stored' = stored /\ pc = "vbe" /\ pc' = "scan"
      BY <2>2 DEF GetVbeInfo
    <3>2. mem' \in [Slots -> Entry]
      BY <1>1, <3>1, VbeIs DEF Stored
    <3>3. \A k \in Slots : k >= VbeEntry => mem'[k] = VbeInfo
      BY <3>1
    <3>4. \A k \in Slots : k < VbeEntry /\ k < Len(bios) => mem'[k] = bios[k + 1]
      BY <1>1, <1>4, <3>1 DEF Stored
    <3>5. \A k \in Slots : mem'[k].address + mem'[k].len < CountMod * PageSize
      <4>1. VbeInfo.address + VbeInfo.len < CountMod * PageSize
        BY VbeIs
      <4> QED
        BY <1>1, <3>1, <4>1 DEF Stored
    <3> QED
      BY <1>1, <1>2, <3>1, <3>2, <3>3, <3>4, <3>5 DEF Stored, Loading
  <2>3. CASE BiosFails
    <3>1. mem' = mem /\ pc' = "stopped" /\ stored' \in 0 .. Len(bios)
      BY <1>1, <1>4, <2>3 DEF BiosFails, Stored
    <3> QED
      BY <1>1, <1>2, <3>1 DEF Stored, Loading
  <2> QED
    BY <2>1, <2>2, <2>3 DEF Load, LoaderNext
<1>6. Copied'
  BY <1>1, <1>2, <1>3 DEF Copied, Loading, TablePcs
<1>7. Index'
  BY <1>1, <1>2, <1>3 DEF Index, Loading
<1>8. Typed'
  BY <1>1, <1>2, <1>3 DEF Typed, Loading, TablePcs, Pages
<1>9. OnPC'
  BY <1>2 DEF OnPC, Loading, TablePcs
<1> QED
  BY <1>5, <1>6, <1>7, <1>8, <1>9 DEF IInv

-----------------------------------------------------------------------------
(* The memory map *)

LEMMA KeptIs ==
  ASSUME Stored
  PROVE  /\ Len(Kept) \in 1 .. VbeEntry /\ Len(Kept) <= Len(bios)
         /\ Len(Kept) < Len(bios) => Len(Kept) = VbeEntry
         /\ \A k \in 1 .. Len(Kept) : Kept[k] = bios[k] /\ Kept[k] \in Entry
<1> DEFINE m == IF Len(bios) < VbeEntry THEN Len(bios) ELSE VbeEntry
<1>1. bios \in Seq(Entry) /\ Len(bios) \in Nat \ {0} /\ VbeEntry \in Nat \ {0}
  BY Sizes DEF Stored
<1>2. m \in 1 .. Len(bios) /\ m \in 1 .. VbeEntry /\ (m < Len(bios) => m = VbeEntry)
  BY <1>1
<1>3. Kept = SubSeq(bios, 1, m)
  BY DEF Kept
<1> HIDE DEF m
<1>4. Len(Kept) = m /\ \A k \in 1 .. m : Kept[k] = bios[k]
  BY <1>1, <1>2, <1>3
<1>5. \A k \in 1 .. m : bios[k] \in Entry
  BY <1>1, <1>2
<1> QED
  BY <1>2, <1>4, <1>5

\* What is copied is the BIOS's list, as far as it was kept.
LEMMA EntriesAre ==
  ASSUME Stored, Copied, Regular, pc \in TablePcs \cup {"size"}
  PROVE  /\ Len(e820) = Len(Kept) /\ Len(e820) \in 1 .. VbeEntry
         /\ \A k \in 1 .. Len(e820) : e820[k] = Kept[k] /\ e820[k] \in Entry
<1> DEFINE n == Len(e820)
           m == Len(Kept)
<1>1. m \in 1 .. VbeEntry /\ m <= Len(bios) /\ \A k \in 1 .. m : Kept[k] = bios[k]
  BY KeptIs
<1>2. n \in Nat /\ n <= VbeEntry /\ n # 0 /\ Stops(mem[n])
      /\ (\A k \in 1 .. n : e820[k] = mem[k - 1] /\ e820[k] \in Entry)
      /\ (\A k \in 1 .. n - 1 : ~ Stops(mem[k]))
  BY DEF Copied, TablePcs
<1>3. VbeEntry \in Nat /\ VbeEntry <= MaxEntries /\ MaxEntries \in Nat /\ Len(bios) \in Nat
  BY Sizes DEF Stored
<1>4. \A k \in Slots : k < VbeEntry /\ k < Len(bios) => mem[k] = bios[k + 1]
  BY DEF Stored, Loading, TablePcs
<1>5. \A k \in 1 .. m : mem[k - 1] = Kept[k]
  BY <1>1, <1>3, <1>4 DEF Slots
<1>6. (\A k \in 1 .. m : ~ Stops(Kept[k])) /\ Stops(mem[m])
  BY DEF Regular
<1> HIDE DEF n, m
<1>7. ~ n < m
  <2> SUFFICES ASSUME n < m
               PROVE  FALSE
    OBVIOUS
  <2>1. n + 1 \in 1 .. m
    BY <1>1, <1>2, <1>3
  <2>2. mem[n] = Kept[n + 1]
    <3>1. mem[n + 1 - 1] = Kept[n + 1] /\ n + 1 - 1 = n
      BY <1>2, <1>5, <2>1
    <3> QED
      BY <3>1
  <2> QED
    BY <1>2, <1>6, <2>1, <2>2
<1>8. ~ m < n
  BY <1>1, <1>2, <1>6
<1>9. n = m
  BY <1>1, <1>2, <1>7, <1>8
<1>10. \A k \in 1 .. n : e820[k] = Kept[k]
  BY <1>2, <1>5, <1>9
<1> QED
  BY <1>1, <1>2, <1>9, <1>10 DEF n, m

\* The entries come in order, not only neighbours.
LEMMA EntriesAscend ==
  ASSUME Stored, Copied, Regular, pc \in TablePcs \cup {"size"},
         NEW j \in 1 .. Len(e820), NEW k \in 1 .. Len(e820), j < k
  PROVE  e820[j].address + e820[j].len <= e820[k].address
<1> DEFINE n == Len(e820)
           a(q) == e820[q].address
           l(q) == e820[q].len
           S == {d \in Nat : j + d + 1 <= n => a(j) + l(j) <= a(j + d + 1)}
<1>1. n \in Nat /\ \A q \in 1 .. n : a(q) \in Nat /\ l(q) \in Nat
  <2>1. n \in Nat /\ \A q \in 1 .. n : e820[q] \in Entry
    BY EntriesAre, Sizes
  <2> QED
    BY <2>1 DEF Entry
<1>2. \A q \in 1 .. n - 1 : a(q) + l(q) <= a(q + 1)
  <2>1. Len(Kept) = n /\ \A q \in 1 .. n : e820[q] = Kept[q]
    BY EntriesAre
  <2>2. \A q \in 1 .. n - 1 : Kept[q].address + Kept[q].len <= Kept[q + 1].address
    BY <2>1 DEF Regular
  <2>3. \A q \in 1 .. n - 1 : q \in 1 .. n /\ q + 1 \in 1 .. n
    BY <1>1
  <2> QED
    BY <2>1, <2>2, <2>3
<1> HIDE DEF n, a, l
<1>3. j \in 1 .. n /\ k \in 1 .. n /\ j \in Nat /\ k \in Nat
  BY DEF n
<1>4. 0 \in S
  BY <1>1, <1>2, <1>3
<1>5. ASSUME NEW d \in Nat, d \in S
      PROVE  d + 1 \in S
  <2> SUFFICES ASSUME j + (d + 1) + 1 <= n
               PROVE  a(j) + l(j) <= a(j + (d + 1) + 1)
    BY <1>5
  <2> DEFINE q == j + d + 1
  <2>1. q \in 1 .. n - 1 /\ q \in 1 .. n /\ q + 1 \in 1 .. n /\ j + (d + 1) + 1 = q + 1
    BY <1>1, <1>3
  <2>2. a(j) + l(j) <= a(q)
    BY <1>5, <2>1
  <2> HIDE DEF q
  <2>3. a(q) + l(q) <= a(q + 1)
    BY <1>2, <2>1
  <2>4. a(q) \in Nat /\ l(q) \in Nat /\ a(q + 1) \in Nat /\ a(j) \in Nat /\ l(j) \in Nat
    BY <1>1, <1>3, <2>1
  <2> QED
    BY <2>1, <2>2, <2>3, <2>4
<1>6. \A d \in Nat : d \in S
  <2> HIDE DEF S
  <2>1. \A d \in Nat : d \in S => d + 1 \in S
    BY <1>5
  <2> QED
    BY <1>4, <2>1, SetInduction
<1>7. k - j - 1 \in Nat /\ j + (k - j - 1) + 1 = k /\ k <= n
  BY <1>1, <1>3
<1>8. a(j) + l(j) <= a(k)
  <2>1. k - j - 1 \in S
    BY <1>6, <1>7
  <2>2. j + (k - j - 1) + 1 <= n => a(j) + l(j) <= a(j + (k - j - 1) + 1)
    BY <2>1
  <2> QED
    BY <1>7, <2>2
<1> QED
  BY <1>8 DEF a, l

\* RAM is what entries that form a zone have in whole pages; it ends with the
\* last entry.
LEMMA RamIs ==
  ASSUME Stored, Copied, Regular, pc \in TablePcs \cup {"size"}
  PROVE  /\ \A p \in Nat :
              IsRam(p) <=> \E k \in 1 .. Len(e820) : FormsZone(e820[k]) /\ p \in PagesOf(e820[k])
         /\ \A k \in 1 .. Len(e820) :
              /\ End(e820[k]) \div PageSize
                   <= (e820[Len(e820)].address + e820[Len(e820)].len) \div PageSize
              /\ PagesOf(e820[k]) \subseteq
                   0 .. ((e820[Len(e820)].address + e820[Len(e820)].len) \div PageSize) - 1
<1> DEFINE n == Len(e820)
<1>1. n \in Nat \ {0} /\ n = Len(Kept) /\ \A k \in 1 .. n : e820[k] = Kept[k] /\ e820[k] \in Entry
  BY EntriesAre, Sizes
<1> HIDE DEF n
<1>2. ASSUME NEW p \in Nat, NEW k \in 1 .. n
      PROVE  FormsZone(e820[k]) /\ p \in PagesOf(e820[k])
               <=> /\ Kept[k].type = 1 /\ Kept[k].address <= p * PageSize
                   /\ (p + 1) * PageSize <= Kept[k].address + Kept[k].len
  <2> DEFINE e == e820[k]
  <2>1. e \in Entry /\ e = Kept[k]
    BY <1>1
  <2> HIDE DEF e
  <2>2. p \in PagesOf(e) <=> e.address <= p * PageSize /\ (p + 1) * PageSize <= e.address + e.len
    BY <2>1, PagesOfIs
  <2>3. p \in PagesOf(e) => Start(e) < End(e)
    <3>1. /\ Start(e) \div PageSize \in Nat /\ End(e) \div PageSize \in Nat
          /\ Start(e) < End(e) <=> Start(e) \div PageSize < End(e) \div PageSize
      BY <2>1, PagesOfIs
    <3> QED
      BY <3>1 DEF PagesOf
  <2>4. FormsZone(e) /\ p \in PagesOf(e)
               <=> /\ e.type = 1 /\ e.address <= p * PageSize
                   /\ (p + 1) * PageSize <= e.address + e.len
    BY <2>2, <2>3 DEF FormsZone
  <2> QED
    BY <2>1, <2>4 DEF e
<1>3. \A p \in Nat : IsRam(p) <=> \E k \in 1 .. n : FormsZone(e820[k]) /\ p \in PagesOf(e820[k])
  BY <1>1, <1>2 DEF IsRam
<1> DEFINE last == (e820[n].address + e820[n].len) \div PageSize
<1>4. ASSUME NEW k \in 1 .. n
      PROVE  /\ End(e820[k]) \div PageSize <= last
             /\ PagesOf(e820[k]) \subseteq 0 .. last - 1
  <2> DEFINE x == e820[k].address + e820[k].len
             y == e820[n].address + e820[n].len
  <2>1. x \in Nat /\ y \in Nat /\ x <= y
    <3>1. n \in 1 .. n /\ e820[k] \in Entry /\ e820[n] \in Entry
      BY <1>1
    <3>2. e820[k].address \in Nat /\ e820[k].len \in Nat /\ e820[n].address \in Nat
          /\ e820[n].len \in Nat
      BY <3>1 DEF Entry
    <3>3. k < n => e820[k].address + e820[k].len <= e820[n].address
      BY <3>1, EntriesAscend DEF n
    <3>4. k = n \/ k < n
      BY <1>1
    <3> QED
      BY <3>2, <3>3, <3>4
  <2> HIDE DEF x, y
  <2>2. x \div PageSize <= y \div PageSize
    <3> DEFINE q == x \div PageSize
    <3>1. q \in Nat /\ q * PageSize <= x /\ q * PageSize \in Nat
      BY <2>1, DivIs, Sizes
    <3> HIDE DEF q
    <3>2. q * PageSize <= y
      BY <2>1, <3>1
    <3>3. q <= y \div PageSize
      BY <2>1, <3>1, <3>2, DivBounds, Sizes
    <3> QED
      BY <3>3 DEF q
  <2>3. last \in Nat /\ last = y \div PageSize
    BY <2>1, DivIs, Sizes DEF y
  <2> HIDE DEF last
  <2>4. End(e820[k]) \div PageSize = x \div PageSize /\ Start(e820[k]) \div PageSize \in Nat
        /\ End(e820[k]) \div PageSize \in Nat
    <3>1. e820[k] \in Entry
      BY <1>1
    <3>2. \A f \in Entry :
            /\ End(f) \div PageSize = (f.address + f.len) \div PageSize
            /\ Start(f) \div PageSize \in Nat /\ End(f) \div PageSize \in Nat
      <4> TAKE f \in Entry
      <4> QED
        BY PagesOfIs, Zenon
    <3> QED
      BY <3>1, <3>2 DEF x
  <2> QED
    BY <2>2, <2>3, <2>4 DEF PagesOf
<1> QED
  BY <1>3, <1>4 DEF n

-----------------------------------------------------------------------------
(* The first loop *)

\* What init_memory leaves alone, and what depends on nothing else.
LEMMA Unmoved ==
  ASSUME IInv, init_memory
  PROVE  /\ UNCHANGED inputs /\ pc \notin Loading /\ pc' \notin Loading
         /\ Stored' /\ (PCMap' <=> PCMap) /\ (Regular' <=> Regular) /\ idx' = idx
         /\ \A p : IsRam(p)' <=> IsRam(p)
<1>1. UNCHANGED inputs /\ pc \notin Loading /\ pc' \notin Loading
  <2>1. CASE ScanEntry \/ SizeTables
    BY <2>1 DEF ScanEntry, SizeTables, Loading
  <2>2. CASE SkipEntry \/ AddZoneBeyond \/ ZonesBuilt
    BY <2>2 DEF SkipEntry, AddZoneBeyond, ZonesBuilt, Loading
  <2>3. CASE AddZone
    BY <2>3 DEF AddZone, Loading
  <2>4. CASE ResetPage0 \/ SetIndexes \/ IndexesSet
    BY <2>4 DEF ResetPage0, SetIndexes, IndexesSet, Loading
  <2>5. CASE ReservePage
    BY <2>5 DEF ReservePage, Loading
  <2>6. CASE ReserveFault \/ Reserved
    BY <2>6 DEF ReserveFault, Reserved, Loading
  <2> QED
    BY <2>1, <2>2, <2>3, <2>4, <2>5, <2>6 DEF init_memory
<1>2. bios' = bios /\ mem' = mem /\ end_struct' = end_struct /\ stored' = stored
  BY <1>1 DEF inputs
<1>3. Stored'
  BY <1>1, <1>2 DEF IInv, Stored, Loading
<1>4. Kept' = Kept /\ idx' = idx
  BY <1>2 DEF Kept, idx
<1>5. (Regular' <=> Regular) /\ \A p : IsRam(p)' <=> IsRam(p)
  BY <1>2, <1>4 DEF Regular, IsRam
<1>6. PCMap' <=> PCMap
  BY <1>4, <1>5 DEF PCMap
<1> QED
  BY <1>1, <1>3, <1>4, <1>5, <1>6, Zenon

LEMMA ScanHolds ==
  ASSUME IInv, ScanEntry
  PROVE  IInv'
<1> USE Sizes
<1>1. Stored /\ Copied /\ Index /\ Typed
  BY DEF IInv
<1>2. /\ pc = "scan" /\ e820' = Append(e820, mem[i]) /\ i' = i + 1
      /\ pc' = IF ArrayFull(i + 1) \/ Stops(mem[i + 1]) THEN "size" ELSE "scan"
      /\ UNCHANGED <<mem, pages_size, bits_map, page, zones, zones_size, ZONE_UNMAPED_INDEX>>
  BY DEF ScanEntry, inputs
<1>3. Stored'
  BY Unmoved DEF init_memory
<1> DEFINE n == Len(e820)
<1>4. e820 \in Seq(Entry) /\ n \in Nat /\ i = n /\ n < VbeEntry /\ VbeEntry <= MaxEntries
      /\ VbeEntry \in Nat /\ MaxEntries \in Nat
  BY <1>1, <1>2 DEF Copied, Index
<1>5. n \in Slots /\ n + 1 \in Slots /\ mem[n] \in Entry
  BY <1>1, <1>4 DEF Stored, Slots
<1>6. e820' \in Seq(Entry) /\ Len(e820') = n + 1 /\ e820'[n + 1] = mem[n]
      /\ \A k \in 1 .. n : e820'[k] = e820[k]
  BY <1>2, <1>4, <1>5
<1>7. VbeEntry = n + 1 => Stops(mem[n + 1])
  BY <1>1, <1>2, <1>5, VbeIs DEF Stored, Loading
<1>8. pc' = IF Stops(mem[n + 1]) THEN "size" ELSE "scan"
  BY <1>2, <1>4, <1>7 DEF ArrayFull
<1>9. \A k \in 1 .. n : e820[k] = mem[k - 1] /\ ~ Stops(mem[k])
  <2>1. \A k \in 1 .. n : e820[k] = mem[k - 1]
    BY <1>1 DEF Copied
  <2>2. \A k \in 1 .. n - 1 : ~ Stops(mem[k])
    BY <1>1 DEF Copied
  <2>3. n # 0 => ~ Stops(mem[n])
    BY <1>1, <1>2, <1>4 DEF Copied
  <2> QED
    BY <1>4, <2>1, <2>2, <2>3
<1> HIDE DEF n
<1>10. Copied'
  <2>1. \A k \in 1 .. n + 1 : e820'[k] = mem[k - 1]
    <3> SUFFICES ASSUME NEW k \in 1 .. n + 1
                 PROVE  e820'[k] = mem[k - 1]
      OBVIOUS
    <3>1. CASE k = n + 1
      BY <1>4, <1>6, <3>1
    <3>2. CASE k \in 1 .. n
      BY <1>6, <1>9, <3>2
    <3> QED
      BY <1>4, <3>1, <3>2
  <2>2. \A k \in 1 .. n + 1 - 1 : ~ Stops(mem[k])
    BY <1>4, <1>9
  <2>3. n + 1 <= VbeEntry /\ (pc' = "scan" => n + 1 < VbeEntry /\ ~ Stops(mem[n + 1]))
    BY <1>4, <1>7, <1>8
  <2>4. pc' = "size" => Stops(mem[n + 1])
    BY <1>8
  <2>5. e820' # <<>>
    BY <1>4, <1>6
  <2>6. mem' = mem /\ pc' \in {"scan", "size"} /\ Len(e820') = n + 1 /\ e820' \in Seq(Entry)
    BY <1>2, <1>6, <1>8
  <2>7. /\ \A k \in 1 .. Len(e820') : e820'[k] = mem'[k - 1]
        /\ \A k \in 1 .. Len(e820') - 1 : ~ Stops(mem'[k])
    <3>1. 1 .. Len(e820') = 1 .. n + 1 /\ 1 .. Len(e820') - 1 = 1 .. n + 1 - 1
      BY <1>4, <2>6
    <3>2. \A k \in 1 .. n + 1 : e820'[k] = mem'[k - 1]
      BY <2>1, <2>6
    <3>3. \A k \in 1 .. n + 1 - 1 : ~ Stops(mem'[k])
      BY <2>2, <2>6
    <3> QED
      BY <3>1, <3>2, <3>3
  <2>8. /\ Len(e820') <= VbeEntry
        /\ pc' = "scan" => Len(e820') < VbeEntry /\ ~ Stops(mem'[Len(e820')])
        /\ pc' = "size" => Stops(mem'[Len(e820')])
    BY <2>3, <2>4, <2>6
  <2>9. pc' \notin Loading /\ pc' \notin TablePcs
    BY <2>6 DEF Loading, TablePcs
  <2> QED
    BY <2>5, <2>6, <2>7, <2>8, <2>9 DEF Copied
<1>11. Index'
  BY <1>2, <1>4, <1>6, <1>8 DEF Index, Loading
<1>12. Typed'
  BY <1>1, <1>2, <1>8 DEF Typed, Loading, TablePcs, Pages
<1>13. OnPC'
  BY <1>8 DEF OnPC, TablePcs
<1> QED
  BY <1>3, <1>10, <1>11, <1>12, <1>13 DEF IInv

\* A step of the later loops copies no entry.
LEMMA CopiedStays ==
  ASSUME Stored, Copied, e820' = e820, mem' = mem,
         pc \in TablePcs \cup {"size"}, pc' \in TablePcs
  PROVE  Copied'
BY DEF Copied, TablePcs, Loading

LEMMA SizeHolds ==
  ASSUME IInv, SizeTables
  PROVE  IInv'
<1> USE Sizes
<1>1. Stored /\ Copied /\ Index /\ Typed
  BY DEF IInv
<1> DEFINE n == Len(e820)
           last == (e820[n].address + e820[n].len) \div PageSize
<1>2. /\ pc = "size" /\ pc' = "zones" /\ i' = 0 /\ zones_size' = 0
      /\ pages_size' = last
      /\ bits_map' = 0 .. MapLen(last) - 1
      /\ page' = [p \in 0 .. last - 1 |-> ZeroPage]
      /\ zones' = [z \in 0 .. MaxEntries - 1 |-> ZeroZone]
      /\ UNCHANGED <<bios, mem, stored, end_struct, e820, ZONE_UNMAPED_INDEX>>
  BY DEF SizeTables, inputs
<1>3. Stored' /\ (PCMap' <=> PCMap)
  BY Unmoved DEF init_memory
<1>4. n \in Nat \ {0} /\ e820 \in Seq(Entry) /\ e820[n] \in Entry /\ n <= VbeEntry
      /\ e820[n] = mem[n - 1]
  BY <1>1, <1>2 DEF Copied, TablePcs
<1>5. n - 1 \in Slots
  BY <1>4 DEF Slots
<1>6. last \in Nat /\ last < CountMod
  <2> DEFINE b == e820[n].address + e820[n].len
  <2>1. b \in Nat /\ b < CountMod * PageSize
    <3>1. \A k \in Slots : mem[k].address + mem[k].len < CountMod * PageSize
      BY <1>1 DEF Stored
    <3>2. e820[n].address \in Nat /\ e820[n].len \in Nat
      BY <1>4 DEF Entry
    <3> QED
      BY <1>4, <1>5, <3>1, <3>2
  <2> HIDE DEF b
  <2>2. b \div PageSize \in Nat /\ (b \div PageSize) * PageSize <= b
    BY <2>1, DivIs
  <2>3. CountMod \in Nat /\ (b \div PageSize) * PageSize < CountMod * PageSize
    <3>1. CountMod * PageSize \in Nat /\ (b \div PageSize) * PageSize \in Nat
      BY <2>2
    <3> QED
      BY <2>1, <2>2, <3>1
  <2>4. b \div PageSize < CountMod
    BY <2>2, <2>3, MulMono
  <2> QED
    BY <2>2, <2>4 DEF b
<1> HIDE DEF n, last
<1>7. Copied'
  BY <1>1, <1>2, CopiedStays DEF TablePcs
<1>8. Index'
  BY <1>2, <1>4 DEF Index, Loading, n
<1>9. MapLen(last) \in Nat /\ last <= MapLen(last)
  BY <1>6, MapLenIs
<1>10. Typed'
  <2>1. page' \in [0 .. last - 1 -> PageType] /\ \A p \in 0 .. last - 1 : page'[p] = ZeroPage
    BY <1>2 DEF ZeroPage, PageType, NULL
  <2>2. zones' \in [0 .. MaxEntries - 1 -> ZoneType] /\ \A z \in DOMAIN zones' : zones'[z] = ZeroZone
    BY <1>2 DEF ZeroZone, ZoneType
  <2>3. MapLen(pages_size)' = MapLen(last) /\ Pages' = 0 .. last - 1
    BY <1>2 DEF MapLen, Pages
  <2>4. ZONE_UNMAPED_INDEX \in 0 .. MaxEntries - 1
    BY <1>1 DEF Typed
  <2>5. \A p \in Pages' : page'[p].zone = NULL /\ page'[p].PHY_address = 0
    BY <2>1, <2>3 DEF ZeroPage
  <2>6. \A z \in DOMAIN zones' : zones'[z].using < CountMod /\ zones'[z].free < CountMod
    BY <2>2 DEF ZeroZone
  <2>7. ZONE_UNMAPED_INDEX = 0 /\ Len(e820') = n /\ zones_size' <= n /\ zones_size' \in 0 .. VbeEntry
    BY <1>1, <1>2, <1>4 DEF Typed, TablePcs, n
  <2>8. bits_map' \subseteq 0 .. MapLen(pages_size)' - 1 /\ pages_size' \in Nat
        /\ pages_size' < CountMod
    BY <1>2, <1>6, <2>3
  <2>9. page' \in [Pages' -> PageType]
    BY <2>1, <2>3
  <2>10. pc' \in TablePcs /\ pc' = "zones"
    BY <1>2 DEF TablePcs
  <2>11. zones' \in [0 .. MaxEntries - 1 -> ZoneType]
    BY <2>2
  <2> HIDE DEF n
  <2> QED
    BY <1>2, <2>4, <2>5, <2>6, <2>7, <2>8, <2>9, <2>10, <2>11 DEF Typed, n
<1>11. OnPC'
  <2> SUFFICES ASSUME PCMap
               PROVE  Zoned' /\ Paged' /\ Marked' /\ Counted' /\ Indexed'
    BY <1>2, <1>3 DEF OnPC
  <2>1. Pages' = 0 .. last - 1 /\ \A p \in Pages' : page'[p] = ZeroPage
    BY <1>2 DEF Pages
  <2>2. Zoned'
    BY <1>2 DEF Zoned, Built, last, n
  <2>3. Paged'
    BY <1>2, <1>6, <2>1 DEF Paged, ZeroPage, NULL, Taken, ZonePages
  <2>4. Marked'
    BY <1>2, <2>1 DEF Marked, ZeroPage, NULL, MapLen
  <2>5. Counted'
    BY <1>2, <1>6 DEF Counted, Taken
  <2>6. Indexed'
    BY <1>1, <1>2 DEF Indexed, Typed
  <2> QED
    BY <2>2, <2>3, <2>4, <2>5, <2>6
<1> QED
  BY <1>3, <1>7, <1>8, <1>10, <1>11 DEF IInv

-----------------------------------------------------------------------------
(* The loop over the zones *)

\* Sets of pages, counted.
LEMMA CountIs ==
  /\ \A n \in Int : IsFiniteSet(0 .. n - 1)
  /\ \A S : \A n \in Nat : S \subseteq 0 .. n - 1 =>
       IsFiniteSet(S) /\ Cardinality(S) \in Nat /\ Cardinality(S) <= n
  /\ Cardinality({}) = 0
<1>1. \A n \in Int : IsFiniteSet(0 .. n - 1)
  BY FS_Interval
<1>2. \A n \in Nat : Cardinality(0 .. n - 1) = n
  <2> SUFFICES ASSUME NEW n \in Nat
               PROVE  Cardinality(0 .. n - 1) = n
    OBVIOUS
  <2>1. Cardinality(0 .. n - 1) = IF 0 > n - 1 THEN 0 ELSE n - 1 - 0 + 1
    BY FS_Interval
  <2> QED
    BY <2>1
<1>3. ASSUME NEW S, NEW n \in Nat, S \subseteq 0 .. n - 1
      PROVE  IsFiniteSet(S) /\ Cardinality(S) \in Nat /\ Cardinality(S) <= n
  <2>1. IsFiniteSet(S) /\ Cardinality(S) <= Cardinality(0 .. n - 1)
    <3>1. S \in SUBSET (0 .. n - 1) /\ IsFiniteSet(0 .. n - 1)
      BY <1>1, <1>3
    <3> QED
      BY <3>1, FS_Subset
  <2>2. Cardinality(S) \in Nat
    BY <2>1, FS_CardinalityType
  <2> QED
    BY <1>2, <2>1, <2>2
<1>4. Cardinality({}) = 0
  BY FS_EmptySet
<1> QED
  BY <1>1, <1>3, <1>4

LEMMA ModSmall ==
  \A n \in Nat, w \in Nat \ {0} : n < w => n % w = n
OBVIOUS

LEMMA ModRange ==
  \A n \in Int, w \in Nat \ {0} : n % w \in 0 .. w - 1
OBVIOUS

\* The indexes of the tables.
LEMMA TableSizes ==
  ASSUME IInv, pc \in TablePcs
  PROVE  /\ pages_size \in Nat /\ zones_size \in Nat /\ Len(e820) \in Nat /\ MaxEntries \in Nat
         /\ zones_size <= Len(e820) /\ Len(e820) <= VbeEntry /\ VbeEntry <= MaxEntries
         /\ Len(e820) > 0 /\ i \in Nat /\ CountMod \in Nat \ {0, 1} /\ pages_size < CountMod
         /\ zones \in [0 .. MaxEntries - 1 -> ZoneType] /\ page \in [Pages -> PageType]
         /\ 0 .. zones_size - 1 \subseteq 0 .. MaxEntries - 1
         /\ \A k \in 1 .. Len(e820) : e820[k] \in Entry
         /\ MapLen(pages_size) \in Nat /\ pages_size <= MapLen(pages_size)
<1> USE Sizes
<1>1. Typed /\ Copied /\ Index
  BY DEF IInv
<1>2. /\ pages_size \in Nat /\ zones_size \in Nat /\ zones_size <= Len(e820) /\ i \in Nat
      /\ pages_size < CountMod
      /\ zones \in [0 .. MaxEntries - 1 -> ZoneType] /\ page \in [Pages -> PageType]
  BY <1>1 DEF Typed, Index
<1>3. e820 \in Seq(Entry) /\ e820 # <<>> /\ Len(e820) <= VbeEntry
  BY <1>1 DEF Copied
<1>4. Len(e820) \in Nat /\ Len(e820) > 0 /\ \A k \in 1 .. Len(e820) : e820[k] \in Entry
  BY <1>3
<1>5. VbeEntry \in Nat /\ VbeEntry <= MaxEntries /\ MaxEntries \in Nat
  OBVIOUS
<1>6. MapLen(pages_size) \in Nat /\ pages_size <= MapLen(pages_size)
  BY <1>2, MapLenIs
<1> QED
  BY <1>2, <1>3, <1>4, <1>5, <1>6

\* Steps that leave the tables as they are.
LEMMA TypedStays ==
  ASSUME IInv, UNCHANGED <<pages_size, bits_map, page, zones, zones_size, e820>>,
         pc \in TablePcs, pc' \in TablePcs, ZONE_UNMAPED_INDEX' \in 0 .. MaxEntries - 1,
         pc' \in {"zones", "page0"} => ZONE_UNMAPED_INDEX' = 0
  PROVE  Typed'
<1>1. Typed /\ Pages' = Pages /\ MapLen(pages_size)' = MapLen(pages_size)
  BY DEF IInv, Pages, MapLen
<1> QED
  BY <1>1 DEF Typed, TablePcs, Loading

LEMMA SkipHolds ==
  ASSUME IInv, SkipEntry
  PROVE  IInv'
<1>1. /\ pc = "zones" /\ pc' = "zones" /\ i < Len(e820) /\ i' = i + 1 /\ ~ FormsZone(e820[i + 1])
      /\ UNCHANGED <<bios, mem, stored, end_struct, e820, pages_size, bits_map, page, zones,
                     zones_size, ZONE_UNMAPED_INDEX>>
  BY DEF SkipEntry, inputs
<1>2. Stored' /\ (PCMap' <=> PCMap)
  BY Unmoved DEF init_memory
<1>3. Stored /\ Copied /\ Index /\ Typed /\ (pc \in TablePcs) /\ (pc' \in TablePcs)
  BY <1>1 DEF IInv, TablePcs
<1>4. Copied'
  BY <1>1, <1>3, CopiedStays
<1>5. i \in Nat /\ zones_size \in Nat /\ Len(e820) \in Nat
  BY <1>3, TableSizes
<1>6. Index'
  BY <1>1, <1>3, <1>5 DEF Index, Loading
<1>7. Typed'
  BY <1>1, <1>3, TypedStays DEF Typed
<1>8. OnPC'
  <2> SUFFICES ASSUME PCMap
               PROVE  Zoned' /\ Paged' /\ Marked' /\ Counted' /\ Indexed'
    BY <1>1, <1>2 DEF OnPC
  <2>1. Zoned /\ Paged /\ Marked /\ Counted /\ Indexed
    BY <1>3 DEF IInv, OnPC
  <2>2. Zoned'
    <3>1. \A z, k : ZoneIs(z, k)' <=> ZoneIs(z, k)
      BY <1>1 DEF ZoneIs
    <3>2. Built = i /\ Built' = i + 1 /\ \A k \in 1 .. i + 1 : k = i + 1 \/ k \in 1 .. i
      BY <1>1, <1>5 DEF Built
    <3>3. 1 .. i \subseteq 1 .. i + 1
      BY <1>5
    <3> QED
      BY <1>1, <2>1, <3>1, <3>2, <3>3 DEF Zoned
  <2>3. Taken = 0 /\ Taken' = 0 /\ Pages' = Pages /\ \A z : ZonePages(z)' = ZonePages(z)
    BY <1>1 DEF Taken, Pages, ZonePages
  <2>4. Paged'
    BY <1>1, <2>1, <2>3 DEF Paged
  <2>5. Marked'
    BY <1>1, <2>1, <2>3 DEF Marked, MapLen
  <2>6. Counted'
    BY <1>1, <2>1, <2>3 DEF Counted, Used
  <2>7. Indexed'
    BY <1>1, <2>1 DEF Indexed
  <2> QED
    BY <2>2, <2>4, <2>5, <2>6, <2>7
<1> QED
  BY <1>2, <1>4, <1>6, <1>7, <1>8 DEF IInv

\* What AddZone adds: a zone above the others, of pages that are in none.
LEMMA AddZoneIs ==
  ASSUME IInv, AddZone
  PROVE  /\ pc = "zones" /\ pc' = "zones" /\ i < Len(e820) /\ i' = i + 1
         /\ zones_size' = zones_size + 1 /\ zones_size \in 0 .. MaxEntries - 1
         /\ FormsZone(e820[i + 1]) /\ e820[i + 1] \in Entry
         /\ PagesOf(e820[i + 1]) \subseteq Pages
         /\ zones' \in [0 .. MaxEntries - 1 -> ZoneType]
         /\ zones'[zones_size].start = Start(e820[i + 1])
         /\ zones'[zones_size].end = End(e820[i + 1])
         /\ zones'[zones_size].using = 0 /\ zones'[zones_size].link = 0
         /\ zones'[zones_size].free = Cardinality(PagesOf(e820[i + 1]))
         /\ \A z \in 0 .. MaxEntries - 1 : z # zones_size => zones'[z] = zones[z]
         /\ page' \in [Pages -> PageType]
         /\ \A p \in Pages :
              /\ p \in PagesOf(e820[i + 1]) =>
                   /\ page'[p].zone = zones_size /\ page'[p].PHY_address = p * PageSize
                   /\ page'[p].attr = "none" /\ page'[p].ref_cnt = 0
              /\ p \notin PagesOf(e820[i + 1]) => page'[p] = page[p]
         /\ bits_map' = (bits_map \ PagesOf(e820[i + 1])) \cup (PagesOf(e820[i + 1]) \ bits_map)
         /\ Cardinality(PagesOf(e820[i + 1])) \in Nat
         /\ Cardinality(PagesOf(e820[i + 1])) < CountMod
         /\ UNCHANGED <<bios, mem, stored, end_struct, e820, pages_size, ZONE_UNMAPED_INDEX>>
<1> DEFINE e == e820[i + 1]
           P == PagesOf(e)
           new == [start |-> Start(e), end |-> End(e), using |-> 0,
                   free |-> Cardinality(P), link |-> 0]
<1>1. /\ pc = "zones" /\ i < Len(e820) /\ i' = i + 1 /\ zones_size' = zones_size + 1
      /\ FormsZone(e) /\ P \subseteq DOMAIN page
      /\ zones' = [zones EXCEPT ![zones_size] = new]
      /\ page' = [p \in DOMAIN page |->
             IF p \in P THEN [ZeroPage EXCEPT !.zone = zones_size, !.PHY_address = p * PageSize]
             ELSE page[p]]
      /\ bits_map' = (bits_map \ P) \cup (P \ bits_map)
      /\ UNCHANGED <<bios, mem, stored, end_struct, e820, pages_size, ZONE_UNMAPED_INDEX>>
      /\ pc' = "zones"
  BY DEF AddZone, inputs
<1>2. /\ zones \in [0 .. MaxEntries - 1 -> ZoneType] /\ page \in [Pages -> PageType]
      /\ i \in Nat /\ Len(e820) \in Nat /\ zones_size \in Nat /\ MaxEntries \in Nat
      /\ pages_size \in Nat /\ pages_size < CountMod /\ CountMod \in Nat
      /\ \A k \in 1 .. Len(e820) : e820[k] \in Entry
      /\ Len(e820) <= MaxEntries
  <2>1. pc \in TablePcs
    BY <1>1 DEF TablePcs
  <2>2. VbeEntry \in Nat
    BY Sizes
  <2> QED
    BY <2>1, <2>2, TableSizes
<1>3. zones_size <= i
  BY <1>1 DEF IInv, Index
<1>4. zones_size \in 0 .. MaxEntries - 1 /\ i + 1 \in 1 .. Len(e820)
  <2> DEFINE n == Len(e820)
  <2>1. i < n /\ n \in Nat /\ n <= MaxEntries /\ i \in Nat /\ zones_size \in Nat
        /\ MaxEntries \in Nat
    BY <1>1, <1>2
  <2> HIDE DEF n, e, P, new
  <2>2. zones_size \in 0 .. MaxEntries - 1 /\ i + 1 \in 1 .. n
    BY <1>3, <2>1
  <2> QED
    BY <2>2 DEF n
<1>5. e \in Entry
  BY <1>2, <1>4
<1>6. Cardinality(P) \in Nat /\ Cardinality(P) < CountMod
  <2>1. P \subseteq 0 .. pages_size - 1
    BY <1>1, <1>2 DEF Pages
  <2> HIDE DEF P
  <2>2. Cardinality(P) \in Nat /\ Cardinality(P) <= pages_size
    BY <1>2, <2>1, CountIs
  <2> QED
    BY <1>2, <2>2
<1>7. new \in ZoneType
  <2>1. Start(e) \in Nat /\ End(e) \in Nat
    BY <1>5, PagesOfIs
  <2> HIDE DEF e, P
  <2> QED
    BY <1>6, <2>1 DEF ZoneType
<1>8. \A p \in Nat : [ZeroPage EXCEPT !.zone = zones_size, !.PHY_address = p * PageSize] \in PageType
  <2>1. \A p \in Nat : p * PageSize \in Nat
    BY Sizes
  <2> QED
    BY <1>2, <2>1 DEF ZeroPage, PageType
<1> HIDE DEF e, P, new
<1>9. Pages \subseteq Nat
  BY DEF Pages
<1>10. page' \in [Pages -> PageType]
  <2> DEFINE f(p) == [ZeroPage EXCEPT !.zone = zones_size, !.PHY_address = p * PageSize]
  <2>1. \A p \in Pages : f(p) \in PageType
    BY <1>8, <1>9
  <2>2. page' = [p \in Pages |-> IF p \in P THEN f(p) ELSE page[p]]
    BY <1>1, <1>2
  <2> HIDE DEF f
  <2> QED
    BY <1>2, <2>1, <2>2
<1>11. zones' \in [0 .. MaxEntries - 1 -> ZoneType] /\ zones'[zones_size] = new
       /\ \A z \in 0 .. MaxEntries - 1 : z # zones_size => zones'[z] = zones[z]
  BY <1>1, <1>2, <1>4, <1>7
<1>13. /\ new.start = Start(e) /\ new.end = End(e) /\ new.using = 0 /\ new.link = 0
       /\ new.free = Cardinality(P)
  BY DEF new
<1>12. /\ P \subseteq Pages
       /\ \A p \in Pages :
            /\ p \in P => /\ page'[p].zone = zones_size /\ page'[p].PHY_address = p * PageSize
                          /\ page'[p].attr = "none" /\ page'[p].ref_cnt = 0
            /\ p \notin P => page'[p] = page[p]
  BY <1>1, <1>2 DEF ZeroPage
<1> QED
  BY <1>1, <1>4, <1>5, <1>6, <1>10, <1>11, <1>12, <1>13 DEF e, P

\* On a PC's map the zones that are built lie below the next entry, and page 0
\* in none.
LEMMA BelowNext ==
  ASSUME IInv, PCMap, pc = "zones", i < Len(e820), FormsZone(e820[i + 1])
  PROVE  /\ \A z \in 0 .. zones_size - 1 :
              /\ zones[z].end <= Start(e820[i + 1])
              /\ ZonePages(z) \cap PagesOf(e820[i + 1]) = {}
         /\ 0 \notin PagesOf(e820[i + 1])
         /\ PagesOf(e820[i + 1]) \subseteq Pages
<1> DEFINE e == e820[i + 1]
<1>1. Stored /\ Copied /\ Index /\ Zoned /\ Regular /\ pc \in TablePcs /\ Built = i /\ ~ IsRam(0)
  BY DEF IInv, OnPC, PCMap, TablePcs, Built
<1>2. /\ i \in Nat /\ Len(e820) \in Nat /\ zones_size \in Nat
      /\ \A k \in 1 .. Len(e820) : e820[k] \in Entry
  BY <1>1, TableSizes
<1>3. i + 1 \in 1 .. Len(e820) /\ e \in Entry
  BY <1>2
<1>4. ASSUME NEW z \in 0 .. zones_size - 1
      PROVE  /\ zones[z].end <= Start(e)
             /\ ZonePages(z) \cap PagesOf(e) = {}
  <2>1. PICK k \in 1 .. i : ZoneIs(z, k)
    BY <1>1 DEF Zoned
  <2>2. k \in 1 .. Len(e820) /\ k < i + 1 /\ e820[k] \in Entry
    BY <1>2
  <2> DEFINE d == e820[k]
  <2>3. d.address + d.len <= e.address
    BY <1>1, <1>3, <2>2, EntriesAscend
  <2>4. /\ End(d) <= d.address + d.len /\ End(d) \in Nat /\ zones[z].end = End(d)
        /\ e.address <= Start(e) /\ Start(e) \in Nat
    BY <1>3, <2>1, <2>2, PagesOfIs DEF ZoneIs
  <2>5. d.address \in Nat /\ d.len \in Nat /\ e.address \in Nat
    BY <1>3, <2>2 DEF Entry
  <2> DEFINE s == Start(e) \div PageSize
             t == End(d) \div PageSize
  <2>6. s \in Nat /\ t \in Nat /\ Start(e) = s * PageSize /\ End(d) = t * PageSize
    BY <1>3, <2>2, PagesOfIs
  <2>7. PagesOf(e) = s .. End(e) \div PageSize - 1 /\ End(e) \div PageSize \in Nat
    BY <1>3, PagesOfIs DEF PagesOf
  <2>8. ZonePages(z) = Start(d) \div PageSize .. t - 1 /\ Start(d) \div PageSize \in Nat
    BY <2>1, <2>2, PagesOfIs DEF ZonePages, ZoneIs
  <2> HIDE DEF d, e, s, t
  <2>9. End(d) <= Start(e)
    BY <2>3, <2>4, <2>5
  <2>10. t <= s
    BY <2>6, <2>9, MulMono, Sizes
  <2> QED
    BY <2>4, <2>6, <2>7, <2>8, <2>9, <2>10
<1>5. 0 \notin PagesOf(e)
  BY <1>1, <1>3, RamIs
<1>6. PagesOf(e) \subseteq Pages
  BY <1>1, <1>3, RamIs DEF Zoned, Pages
<1> QED
  BY <1>4, <1>5, <1>6

LEMMA AddTyped ==
  ASSUME IInv, AddZone
  PROVE  Index' /\ Typed'
<1> USE Sizes
<1> DEFINE e == e820[i + 1]
           P == PagesOf(e)
<1>1. /\ pc = "zones" /\ pc' = "zones" /\ i < Len(e820) /\ i' = i + 1
      /\ zones_size' = zones_size + 1 /\ P \subseteq Pages
      /\ page' \in [Pages -> PageType]
      /\ bits_map' = (bits_map \ P) \cup (P \ bits_map)
      /\ Cardinality(P) \in Nat /\ Cardinality(P) < CountMod
      /\ UNCHANGED <<e820, pages_size, ZONE_UNMAPED_INDEX>>
      /\ zones' \in [0 .. MaxEntries - 1 -> ZoneType] /\ zones_size \in 0 .. MaxEntries - 1
  BY AddZoneIs
<1>2. Index /\ Typed /\ pc \in TablePcs
  BY <1>1 DEF IInv, TablePcs
<1>3. /\ i \in Nat /\ zones_size \in Nat /\ Len(e820) \in Nat /\ Len(e820) <= VbeEntry
      /\ VbeEntry \in Nat /\ pages_size \in Nat /\ pages_size <= MapLen(pages_size)
      /\ MapLen(pages_size) \in Nat /\ zones_size <= i
      /\ zones \in [0 .. MaxEntries - 1 -> ZoneType]
  BY <1>1, <1>2, TableSizes DEF Index
<1>4. Index'
  BY <1>1, <1>3 DEF Index, Loading
<1>5. Pages' = Pages /\ MapLen(pages_size)' = MapLen(pages_size)
  BY <1>1 DEF Pages, MapLen
<1>6. bits_map' \subseteq 0 .. MapLen(pages_size) - 1
  <2>1. Pages \subseteq 0 .. MapLen(pages_size) - 1
    BY <1>3 DEF Pages
  <2>2. bits_map \subseteq 0 .. MapLen(pages_size) - 1
    BY <1>2 DEF Typed
  <2> HIDE DEF P
  <2> QED
    BY <1>1, <2>1, <2>2
<1>7. ASSUME NEW p \in Pages
      PROVE  /\ page'[p].zone \in (0 .. zones_size' - 1) \cup {NULL, 0}
             /\ page'[p].PHY_address \in {0, p * PageSize}
  <2>2. CASE p \in P
    <3>1. page'[p].zone = zones_size /\ page'[p].PHY_address = p * PageSize
      BY <2>2, AddZoneIs
    <3> QED
      BY <1>1, <1>3, <3>1
  <2>3. CASE p \notin P
    <3>1. page'[p] = page[p]
      BY <2>3, AddZoneIs
    <3>2. /\ page[p].zone \in (0 .. zones_size - 1) \cup {NULL, 0}
          /\ page[p].PHY_address \in {0, p * PageSize}
      BY <1>2 DEF Typed
    <3>3. 0 .. zones_size - 1 \subseteq 0 .. zones_size' - 1
      BY <1>1, <1>3
    <3> QED
      BY <3>1, <3>2, <3>3
  <2> QED
    BY <2>2, <2>3
<1>8. zones_size' \in 0 .. VbeEntry /\ zones_size' <= Len(e820)
  <2> HIDE DEF e, P
  <2> QED
    BY <1>1, <1>3
<1>9. ASSUME NEW z \in DOMAIN zones'
      PROVE  zones'[z].using < CountMod /\ zones'[z].free < CountMod
  <2>1. z \in 0 .. MaxEntries - 1
    BY <1>1
  <2>2. CASE z = zones_size
    <3>1. zones'[z].using = 0 /\ zones'[z].free = Cardinality(P)
      BY <2>2, AddZoneIs
    <3> QED
      BY <1>1, <3>1
  <2>3. CASE z # zones_size
    <3>1. zones'[z] = zones[z]
      BY <2>1, <2>3, AddZoneIs
    <3>2. \A y \in DOMAIN zones : zones[y].using < CountMod /\ zones[y].free < CountMod
      BY <1>2 DEF Typed
    <3> QED
      BY <1>3, <2>1, <3>1, <3>2
  <2> QED
    BY <2>2, <2>3
<1>10. ZONE_UNMAPED_INDEX' = 0 /\ 0 \in 0 .. MaxEntries - 1
  BY <1>1, <1>2 DEF Typed
<1> HIDE DEF e, P
<1>11. Typed'
  <2>1. pc' \in TablePcs /\ zones_size' <= Len(e820')
    BY <1>1, <1>8 DEF TablePcs
  <2>2. pages_size' \in Nat /\ pages_size' < CountMod
    BY <1>1, <1>2 DEF Typed
  <2>3. bits_map' \subseteq 0 .. MapLen(pages_size)' - 1 /\ page' \in [Pages' -> PageType]
    BY <1>1, <1>5, <1>6
  <2>4. zones_size' \in 0 .. VbeEntry
    BY <1>8
  <2>5. \A p \in Pages' : /\ page'[p].zone \in (0 .. zones_size' - 1) \cup {NULL, 0}
                          /\ page'[p].PHY_address \in {0, p * PageSize}
    BY <1>5, <1>7
  <2>6. zones' \in [0 .. MaxEntries - 1 -> ZoneType]
        /\ \A z \in DOMAIN zones' : zones'[z].using < CountMod /\ zones'[z].free < CountMod
    BY <1>1, <1>9
  <2> QED
    BY <1>1, <1>10, <2>1, <2>2, <2>3, <2>4, <2>5, <2>6 DEF Typed
<1> QED
  BY <1>4, <1>11

LEMMA AddHolds ==
  ASSUME IInv, AddZone
  PROVE  IInv'
<1> SUFFICES ASSUME NEW e, e = e820[i + 1], NEW P, P = PagesOf(e), NEW zs, zs = zones_size
             PROVE  IInv'
  OBVIOUS
<1>1. /\ pc = "zones" /\ pc' = "zones" /\ i < Len(e820) /\ i' = i + 1
      /\ zones_size' = zs + 1 /\ zs \in 0 .. MaxEntries - 1
      /\ FormsZone(e) /\ P \subseteq Pages
      /\ \A z \in 0 .. MaxEntries - 1 : z # zs => zones'[z] = zones[z]
      /\ bits_map' = (bits_map \ P) \cup (P \ bits_map)
      /\ UNCHANGED <<bios, mem, stored, end_struct, e820, pages_size, ZONE_UNMAPED_INDEX>>
  BY AddZoneIs
<1>2. Stored' /\ (PCMap' <=> PCMap)
  BY Unmoved DEF init_memory
<1>3. Stored /\ Copied /\ Index /\ Typed /\ (pc \in TablePcs) /\ (pc' \in TablePcs)
  BY <1>1 DEF IInv, TablePcs
<1>4. Copied'
  BY <1>1, <1>3, CopiedStays
<1>5. OnPC'
  <2> SUFFICES ASSUME PCMap
               PROVE  Zoned' /\ Paged' /\ Marked' /\ Counted' /\ Indexed'
    BY <1>1, <1>2 DEF OnPC
  <2>1. Zoned /\ Paged /\ Marked /\ Counted /\ Indexed
    BY <1>3 DEF IInv, OnPC
  <2>2. /\ i \in Nat /\ zs \in Nat /\ Len(e820) \in Nat /\ pages_size \in Nat
        /\ Pages' = Pages /\ MapLen(pages_size)' = MapLen(pages_size)
        /\ zones \in [0 .. MaxEntries - 1 -> ZoneType]
        /\ 0 .. zs - 1 \subseteq 0 .. MaxEntries - 1
        /\ pages_size <= MapLen(pages_size) /\ MapLen(pages_size) \in Nat
    BY <1>1, <1>3, TableSizes DEF Pages, MapLen
  <2>3. /\ \A z \in 0 .. zs - 1 : zones[z].end <= Start(e) /\ ZonePages(z) \cap P = {}
        /\ 0 \notin P
    BY <1>1, BelowNext
  <2>4. /\ zones'[zs].start = Start(e) /\ zones'[zs].end = End(e) /\ zones'[zs].using = 0
        /\ zones'[zs].free = Cardinality(P) /\ zones'[zs].link = 0
        /\ Cardinality(P) \in Nat /\ Cardinality(P) < CountMod
    BY AddZoneIs
  <2>5. \A p \in Pages : /\ p \in P => /\ page'[p].zone = zs /\ page'[p].PHY_address = p * PageSize
                                       /\ page'[p].attr = "none" /\ page'[p].ref_cnt = 0
                         /\ p \notin P => page'[p] = page[p]
    BY AddZoneIs
  <2>6. ZonePages(zs)' = P /\ \A z \in 0 .. zs - 1 : zones'[z] = zones[z] /\ ZonePages(z)' = ZonePages(z)
    <3>1. ZonePages(zs)' = P
      BY <1>1, <2>4 DEF ZonePages, PagesOf
    <3>2. \A z \in 0 .. zs - 1 : z # zs /\ z \in 0 .. MaxEntries - 1
      BY <2>2
    <3> QED
      BY <1>1, <3>1, <3>2 DEF ZonePages
  <2>7. Taken = 0 /\ Taken' = 0 /\ Built = i /\ Built' = i + 1
    BY <1>1 DEF Taken, Built
  <2>8. \A z \in 0 .. zs : z \in 0 .. zs - 1 \/ z = zs
    BY <2>2
  <2>9. 0 .. zones_size' - 1 = 0 .. zs
    BY <1>1, <2>2
  <2>10. \A z \in 0 .. zs - 1 : z \in 0 .. zs /\ z # zs /\ z < zs
    BY <2>2
  <2>11. Zoned'
    <3> DEFINE New(z, k) == FormsZone(e820[k]) /\ zones'[z].start = Start(e820[k])
                            /\ zones'[z].end = End(e820[k])
    <3>1. New(zs, i + 1)
      BY <1>1, <2>4
    <3>2. \A z \in 0 .. zs - 1 : \A k : New(z, k) <=> ZoneIs(z, k)
      BY <2>6 DEF ZoneIs
    <3>3. \A k \in 1 .. i + 1 : k \in 1 .. i \/ k = i + 1
      BY <2>2
    <3>4. (\A k \in 1 .. i : k \in 1 .. i + 1) /\ i + 1 \in 1 .. i + 1 /\ zs \in 0 .. zs
      BY <2>2
    <3>8. \A z, k : ZoneIs(z, k)' <=> New(z, k)
      BY <1>1 DEF ZoneIs
    <3>9. 0 .. zones_size - 1 = 0 .. zs - 1
      OBVIOUS
    <3> HIDE DEF New
    <3>10. /\ \A z \in 0 .. zs - 1 : \E k \in 1 .. i : ZoneIs(z, k)
           /\ \A k \in 1 .. i : FormsZone(e820[k]) => \E z \in 0 .. zs - 1 : ZoneIs(z, k)
      BY <2>1, <2>7, <3>9 DEF Zoned
    <3>5. \A z \in 0 .. zs : \E k \in 1 .. i + 1 : New(z, k)
      <4> SUFFICES ASSUME NEW z \in 0 .. zs
                   PROVE  \E k \in 1 .. i + 1 : New(z, k)
        OBVIOUS
      <4>1. CASE z = zs
        BY <3>1, <3>4, <4>1
      <4>2. CASE z \in 0 .. zs - 1
        BY <3>2, <3>4, <3>10, <4>2
      <4> QED
        BY <2>8, <4>1, <4>2
    <3>6. \A k \in 1 .. i + 1 : FormsZone(e820[k]) => \E z \in 0 .. zs : New(z, k)
      <4> SUFFICES ASSUME NEW k \in 1 .. i + 1, FormsZone(e820[k])
                   PROVE  \E z \in 0 .. zs : New(z, k)
        OBVIOUS
      <4>1. CASE k = i + 1
        BY <3>1, <3>4, <4>1
      <4>2. CASE k \in 1 .. i
        <5>1. PICK z \in 0 .. zs - 1 : ZoneIs(z, k)
          BY <3>10, <4>2
        <5> QED
          BY <2>10, <3>2, <5>1
      <4> QED
        BY <3>3, <4>1, <4>2
    <3>7. \A y, z \in 0 .. zs : y < z => zones'[y].end <= zones'[z].start
      <4> SUFFICES ASSUME NEW y \in 0 .. zs, NEW z \in 0 .. zs, y < z
                   PROVE  zones'[y].end <= zones'[z].start
        OBVIOUS
      <4>1. y \in 0 .. zs - 1 /\ zones'[y] = zones[y]
        BY <2>2, <2>6
      <4>2. CASE z = zs
        BY <2>3, <2>4, <4>1, <4>2
      <4>3. CASE z \in 0 .. zs - 1
        BY <2>1, <2>6, <4>1, <4>3 DEF Zoned
      <4> QED
        BY <2>8, <4>2, <4>3
    <3> QED
      BY <1>1, <2>1, <2>7, <2>9, <3>5, <3>6, <3>7, <3>8 DEF Zoned
  <2>12. \A p \in Pages : p \in P => page[p].zone = NULL
    <3> SUFFICES ASSUME NEW p \in Pages, p \in P, page[p].zone # NULL
                 PROVE  FALSE
      OBVIOUS
    <3>1. p # 0 /\ page[p].zone < zs /\ page[p].zone \in Nat
      <4>1. page[p].zone \in Nat \cup {NULL}
        BY <1>3, TableSizes DEF PageType
      <4> QED
        BY <2>1, <2>3, <4>1 DEF Paged
    <3>2. page[p].zone \in 0 .. zs - 1
      BY <2>2, <3>1
    <3>3. p \in ZonePages(page[p].zone)
      BY <2>1, <3>1, <3>2 DEF Paged
    <3> QED
      BY <2>3, <3>2, <3>3
  <2>13. Paged'
    <3> SUFFICES ASSUME NEW p \in Pages
                 PROVE  /\ IF p = 0 THEN page'[p].zone = NULL
                           ELSE \A z \in 0 .. zs : page'[p].zone = z <=> p \in ZonePages(z)'
                        /\ page'[p].zone # NULL =>
                             page'[p].zone < zs + 1 /\ page'[p].PHY_address = p * PageSize
                        /\ page'[p].attr = (IF p < 0 THEN "private" ELSE "none")
                        /\ page'[p].ref_cnt = (IF p < 0 THEN 1 ELSE 0)
      BY <1>1, <2>2, <2>7, <2>9 DEF Paged
    <3>1. p \in Nat /\ zs # NULL
      BY <2>2 DEF Pages, NULL
    <3>2. CASE p \in P
      <4>1. p # 0 /\ page'[p].zone = zs
        BY <2>3, <2>5, <3>2
      <4>2. \A z \in 0 .. zs - 1 : z # zs /\ p \notin ZonePages(z)'
        BY <2>3, <2>6, <2>10, <3>2
      <4>3. \A z \in 0 .. zs : page'[p].zone = z <=> p \in ZonePages(z)'
        BY <2>6, <2>8, <3>2, <4>1, <4>2
      <4> QED
        BY <2>2, <2>5, <3>1, <3>2, <4>1, <4>3
    <3>3. CASE p \notin P
      <4>1. page'[p] = page[p]
        BY <2>5, <3>3
      <4>2. /\ IF p = 0 THEN page[p].zone = NULL
               ELSE \A z \in 0 .. zs - 1 : page[p].zone = z <=> p \in ZonePages(z)
            /\ page[p].zone # NULL => page[p].zone < zs /\ page[p].PHY_address = p * PageSize
            /\ page[p].attr = (IF p < 0 THEN "private" ELSE "none")
            /\ page[p].ref_cnt = (IF p < 0 THEN 1 ELSE 0)
        BY <1>1, <2>1, <2>7 DEF Paged
      <4>3. page[p].zone # zs /\ page[p].zone \in Nat \cup {NULL}
        <5>1. page[p].zone \in Nat \cup {NULL}
          BY <1>3, TableSizes DEF PageType
        <5> QED
          BY <2>2, <3>1, <4>2, <5>1
      <4>4. p # 0 => \A z \in 0 .. zs : page'[p].zone = z <=> p \in ZonePages(z)'
        BY <2>6, <2>8, <3>3, <4>1, <4>2, <4>3
      <4>5. page'[p].zone # NULL => page'[p].zone < zs + 1 /\ page'[p].PHY_address = p * PageSize
        BY <2>2, <4>1, <4>2, <4>3
      <4> QED
        BY <4>1, <4>2, <4>4, <4>5
    <3> QED
      BY <3>2, <3>3
  <2>14. Marked'
    <3> SUFFICES ASSUME NEW b \in 0 .. MapLen(pages_size) - 1
                 PROVE  b \in bits_map' <=> b \notin Pages \/ b < 0 \/ b = 0 \/ page'[b].zone = NULL
      BY <2>2, <2>7 DEF Marked
    <3>1. b \in bits_map <=> b \notin Pages \/ b < 0 \/ b = 0 \/ page[b].zone = NULL
      BY <2>1, <2>7 DEF Marked
    <3>2. CASE b \in P
      <4>1. b \in Pages /\ b # 0 /\ ~ b < 0 /\ page'[b].zone # NULL /\ b \in bits_map
        BY <1>1, <2>2, <2>3, <2>5, <2>12, <3>1, <3>2 DEF NULL
      <4> QED
        BY <1>1, <3>2, <4>1
    <3>3. CASE b \notin P
      <4>1. b \in bits_map' <=> b \in bits_map
        BY <1>1, <3>3
      <4>2. b \in Pages => page'[b] = page[b]
        BY <2>5, <3>3
      <4> QED
        BY <3>1, <4>1, <4>2
    <3> QED
      BY <3>2, <3>3
  <2>15. Counted'
    <3>1. \A z : Used(z, 0)' = 0 /\ Used(z, 0) = 0
      <4>2. \A z : {p \in 0 .. 0 - 1 : page[p].zone = z} = {} /\ {p \in 0 .. 0 - 1 : page'[p].zone = z} = {}
        OBVIOUS
      <4> QED
        BY <4>2, CountIs DEF Used
    <3>2. Cardinality(P) = (Cardinality(P) - 0) % CountMod
      <4> DEFINE m == Cardinality(P)
      <4>1. m \in Nat /\ m < CountMod
        BY <2>4
      <4> HIDE DEF m
      <4>2. m % CountMod = m /\ m - 0 = m
        BY <4>1, ModSmall, Sizes
      <4> QED
        BY <4>2 DEF m
    <3>3. ASSUME NEW z \in 0 .. zs
          PROVE  /\ zones'[z].using = 0 /\ zones'[z].link = 0
                 /\ zones'[z].free = (Cardinality(ZonePages(z)') - 0) % CountMod
      <4>1. CASE z = zs
        BY <2>4, <2>6, <3>2, <4>1
      <4>2. CASE z \in 0 .. zs - 1
        <5>1. /\ zones[z].using = 0 /\ zones[z].link = 0
              /\ zones[z].free = (Cardinality(ZonePages(z)) - 0) % CountMod
          BY <2>1, <2>7, <3>1, <4>2 DEF Counted
        <5> QED
          BY <2>6, <4>2, <5>1
      <4> QED
        BY <2>8, <4>1, <4>2
    <3>4. Taken' <= pages_size'
      BY <1>1, <2>2, <2>7
    <3> QED
      BY <1>1, <2>7, <2>9, <3>1, <3>3, <3>4 DEF Counted
  <2>16. Indexed'
    BY <1>1, <2>1, <1>3 DEF Indexed, Typed
  <2> QED
    BY <2>11, <2>13, <2>14, <2>15, <2>16
<1> QED
  BY <1>2, <1>4, <1>5, AddTyped DEF IInv

LEMMA BeyondHolds ==
  ASSUME IInv, AddZoneBeyond
  PROVE  IInv'
<1>1. /\ pc = "zones" /\ pc' = "fault" /\ i < Len(e820) /\ FormsZone(e820[i + 1])
      /\ ~ PagesOf(e820[i + 1]) \subseteq DOMAIN page
      /\ UNCHANGED <<bios, mem, stored, end_struct, i, e820, pages_size, bits_map, page, zones,
                     zones_size, ZONE_UNMAPED_INDEX>>
  BY DEF AddZoneBeyond, inputs
<1>2. Stored' /\ (PCMap' <=> PCMap)
  BY Unmoved DEF init_memory
<1>3. Stored /\ Copied /\ Index /\ Typed /\ (pc \in TablePcs) /\ (pc' \in TablePcs)
  BY <1>1 DEF IInv, TablePcs
<1>4. Copied'
  BY <1>1, <1>3, CopiedStays
<1>5. Index'
  BY <1>1, <1>3 DEF Index, Loading
<1>6. Typed'
  BY <1>1, <1>3, TypedStays DEF Typed
<1>7. ~ PCMap
  <2>1. DOMAIN page = Pages
    BY <1>3, TableSizes
  <2> QED
    BY <1>1, <2>1, BelowNext
<1> QED
  BY <1>2, <1>4, <1>5, <1>6, <1>7 DEF IInv, OnPC

LEMMA BuiltHolds ==
  ASSUME IInv, ZonesBuilt
  PROVE  IInv'
<1>1. /\ pc = "zones" /\ pc' = "page0" /\ i = Len(e820)
      /\ UNCHANGED <<bios, mem, stored, end_struct, i, e820, pages_size, bits_map, page, zones,
                     zones_size, ZONE_UNMAPED_INDEX>>
  BY DEF ZonesBuilt, inputs
<1>2. Stored' /\ (PCMap' <=> PCMap)
  BY Unmoved DEF init_memory
<1>3. Stored /\ Copied /\ Index /\ Typed /\ (pc \in TablePcs) /\ (pc' \in TablePcs)
  BY <1>1 DEF IInv, TablePcs
<1>4. Copied'
  BY <1>1, <1>3, CopiedStays
<1>5. Index'
  BY <1>1, <1>3 DEF Index, Loading
<1>6. Typed'
  BY <1>1, <1>3, TypedStays DEF Typed
<1>7. OnPC'
  <2> SUFFICES ASSUME PCMap
               PROVE  Zoned' /\ Paged' /\ Marked' /\ Counted' /\ Indexed'
    BY <1>1, <1>2 DEF OnPC
  <2>1. Zoned /\ Paged /\ Marked /\ Counted /\ Indexed
    BY <1>1, <1>3 DEF IInv, OnPC
  <2>2. /\ Taken = 0 /\ Taken' = 0 /\ Pages' = Pages /\ Built' = Built
        /\ \A z : ZonePages(z)' = ZonePages(z)
        /\ \A z, k : ZoneIs(z, k)' <=> ZoneIs(z, k)
        /\ MapLen(pages_size)' = MapLen(pages_size)
    BY <1>1 DEF Taken, Pages, Built, ZonePages, ZoneIs, MapLen
  <2>3. Zoned'
    BY <1>1, <2>1, <2>2 DEF Zoned
  <2>4. Paged'
    BY <1>1, <2>1, <2>2 DEF Paged
  <2>5. Marked'
    BY <1>1, <2>1, <2>2 DEF Marked
  <2>6. Counted'
    BY <1>1, <2>1, <2>2 DEF Counted, Used
  <2>7. Indexed'
    BY <1>1, <2>1 DEF Indexed
  <2> QED
    BY <2>3, <2>4, <2>5, <2>6, <2>7
<1> QED
  BY <1>2, <1>4, <1>5, <1>6, <1>7 DEF IInv

-----------------------------------------------------------------------------
(* Page 0 and the indexes *)

\* A PC's map has a zone and with it a page.
LEMMA ZoneExists ==
  ASSUME IInv, PCMap, pc \in TablePcs \ {"zones"}
  PROVE  pages_size > 0 /\ zones_size > 0
<1>1. Stored /\ Copied /\ Zoned /\ Regular /\ Built = Len(e820) /\ pc \in TablePcs
  BY DEF IInv, OnPC, PCMap, Built
<1>2. PICK k \in 1 .. Len(Kept) : FormsZone(Kept[k])
  BY DEF PCMap
<1>3. k \in 1 .. Len(e820) /\ FormsZone(e820[k]) /\ e820[k] \in Entry
  BY <1>1, <1>2, EntriesAre
<1>4. \E z \in 0 .. zones_size - 1 : ZoneIs(z, k)
  BY <1>1, <1>3 DEF Zoned
<1>5. pages_size \in Nat /\ zones_size \in Nat
  BY <1>1, TableSizes
<1>6. End(e820[k]) \div PageSize <= pages_size
  BY <1>1, <1>3, RamIs DEF Zoned
<1>7. /\ Start(e820[k]) \div PageSize \in Nat /\ End(e820[k]) \div PageSize \in Nat
      /\ Start(e820[k]) \div PageSize < End(e820[k]) \div PageSize
  BY <1>3, PagesOfIs DEF FormsZone
<1> QED
  BY <1>4, <1>5, <1>6, <1>7

LEMMA ResetHolds ==
  ASSUME IInv, ResetPage0
  PROVE  IInv'
<1> USE Sizes
<1> DEFINE new == [ZeroPage EXCEPT !.zone = 0]
<1>1. /\ pc = "page0" /\ i' = 0 /\ pc' \in {"fault", "index"}
      /\ pages_size = 0 => pc' = "fault" /\ page' = page
      /\ pages_size # 0 => pc' = "index" /\ page' = [page EXCEPT ![0] = new]
      /\ UNCHANGED <<bios, mem, stored, end_struct, e820, pages_size, bits_map, zones,
                     zones_size, ZONE_UNMAPED_INDEX>>
  BY DEF ResetPage0, inputs
<1>2. Stored' /\ (PCMap' <=> PCMap)
  BY Unmoved DEF init_memory
<1>3. Stored /\ Copied /\ Index /\ Typed /\ (pc \in TablePcs) /\ (pc' \in TablePcs)
  BY <1>1 DEF IInv, TablePcs
<1>4. Copied'
  BY <1>1, <1>3, CopiedStays
<1>5. pages_size \in Nat /\ zones_size \in Nat /\ page \in [Pages -> PageType]
      /\ pages_size <= MapLen(pages_size) /\ MapLen(pages_size) \in Nat
      /\ zones \in [0 .. MaxEntries - 1 -> ZoneType]
      /\ 0 .. zones_size - 1 \subseteq 0 .. MaxEntries - 1
  BY <1>3, TableSizes
<1>6. Index'
  BY <1>1, <1>5 DEF Index, Loading
<1>7. new \in PageType /\ new.zone = 0 /\ new.PHY_address = 0 /\ new.attr = "none"
      /\ new.ref_cnt = 0
  BY DEF ZeroPage, PageType
<1> HIDE DEF new
<1>8. pages_size # 0 => 0 \in Pages
  BY <1>5 DEF Pages
<1>9. /\ page' \in [Pages -> PageType]
      /\ \A p \in Pages : page'[p] = IF p = 0 THEN new ELSE page[p]
  BY <1>1, <1>5, <1>7, <1>8 DEF Pages
<1>10. Pages' = Pages /\ MapLen(pages_size)' = MapLen(pages_size)
  BY <1>1 DEF Pages, MapLen
<1>11. Typed'
  <2>1. \A p \in Pages : /\ page[p].zone \in (0 .. zones_size - 1) \cup {NULL, 0}
                         /\ page[p].PHY_address \in {0, p * PageSize}
    BY <1>3 DEF Typed
  <2>2. \A p \in Pages : /\ page'[p].zone \in (0 .. zones_size - 1) \cup {NULL, 0}
                         /\ page'[p].PHY_address \in {0, p * PageSize}
    BY <1>7, <1>9, <2>1
  <2>3. page' \in [Pages' -> PageType]
    BY <1>9, <1>10
  <2>4. bits_map' \subseteq 0 .. MapLen(pages_size)' - 1
    BY <1>1, <1>3, <1>10 DEF Typed
  <2> QED
    BY <1>1, <1>3, <1>10, <2>2, <2>3, <2>4 DEF Typed, TablePcs, Loading
<1>12. OnPC'
  <2> SUFFICES ASSUME PCMap
               PROVE  pc' # "fault" /\ Zoned' /\ Paged' /\ Marked' /\ Counted' /\ Indexed'
    BY <1>2 DEF OnPC
  <2>1. Zoned /\ Paged /\ Marked /\ Counted /\ Indexed
    BY <1>3 DEF IInv, OnPC
  <2>2. pages_size > 0 /\ zones_size > 0 /\ pc' = "index"
    BY <1>1, <1>3, ZoneExists
  <2>3. /\ Taken = 0 /\ Taken' = 0 /\ Built' = Built
        /\ \A z : ZonePages(z)' = ZonePages(z)
        /\ \A z, k : ZoneIs(z, k)' <=> ZoneIs(z, k)
    BY <1>1, <2>2 DEF Taken, Built, ZonePages, ZoneIs
  <2>4. Zoned'
    BY <1>1, <2>1, <2>3 DEF Zoned
  <2>5. Paged'
    <3> SUFFICES ASSUME NEW p \in Pages
                 PROVE  /\ IF p = 0 THEN page'[p].zone = 0
                           ELSE \A z \in 0 .. zones_size - 1 : page'[p].zone = z <=> p \in ZonePages(z)
                        /\ page'[p].zone # NULL =>
                             page'[p].zone < zones_size /\ page'[p].PHY_address = p * PageSize
                        /\ page'[p].attr = (IF p < 0 THEN "private" ELSE "none")
                        /\ page'[p].ref_cnt = (IF p < 0 THEN 1 ELSE 0)
      BY <1>1, <1>10, <2>2, <2>3 DEF Paged
    <3>1. p \in Nat /\ ~ p < 0
      BY DEF Pages
    <3>2. CASE p = 0
      BY <1>7, <1>9, <2>2, <3>1, <3>2
    <3>3. CASE p # 0
      <4>1. page'[p] = page[p]
        BY <1>9, <3>3
      <4> QED
        BY <1>1, <2>1, <2>3, <3>3, <4>1 DEF Paged
    <3> QED
      BY <3>2, <3>3
  <2>6. Marked'
    <3> SUFFICES ASSUME NEW b \in 0 .. MapLen(pages_size) - 1
                 PROVE  b \in bits_map <=> b \notin Pages \/ b < 0 \/ b = 0 \/ page'[b].zone = NULL
      BY <1>1, <1>10, <2>3 DEF Marked
    <3>1. b \in bits_map <=> b \notin Pages \/ b < 0 \/ b = 0 \/ page[b].zone = NULL
      BY <2>1, <2>3 DEF Marked
    <3>2. b \in Pages /\ b # 0 => page'[b] = page[b]
      BY <1>9
    <3> QED
      BY <3>1, <3>2
  <2>7. Counted'
    <3>1. \A z : Used(z, 0)' = 0 /\ Used(z, 0) = 0
      <4>1. \A z : {p \in 0 .. 0 - 1 : page[p].zone = z} = {} /\ {p \in 0 .. 0 - 1 : page'[p].zone = z} = {}
        OBVIOUS
      <4> QED
        BY <4>1, CountIs DEF Used
    <3> QED
      BY <1>1, <2>1, <2>3, <3>1 DEF Counted
  <2>8. Indexed'
    BY <1>1, <1>3, <2>2 DEF Indexed, Typed
  <2> QED
    BY <2>2, <2>4, <2>5, <2>6, <2>7, <2>8
<1> QED
  BY <1>2, <1>4, <1>6, <1>11, <1>12 DEF IInv

LEMMA SetIndexHolds ==
  ASSUME IInv, SetIndexes
  PROVE  IInv'
<1> USE Sizes
<1>1. /\ pc = "index" /\ pc' = "index" /\ i < zones_size /\ i' = i + 1
      /\ ZONE_UNMAPED_INDEX' = IF zones[i].start = Addr4G THEN i ELSE ZONE_UNMAPED_INDEX
      /\ UNCHANGED <<bios, mem, stored, end_struct, e820, pages_size, bits_map, page, zones,
                     zones_size>>
  BY DEF SetIndexes, inputs
<1>2. Stored' /\ (PCMap' <=> PCMap)
  BY Unmoved DEF init_memory
<1>3. Stored /\ Copied /\ Index /\ Typed /\ (pc \in TablePcs) /\ (pc' \in TablePcs)
  BY <1>1 DEF IInv, TablePcs
<1>4. Copied'
  BY <1>1, <1>3, CopiedStays
<1>5. i \in Nat /\ zones_size \in Nat /\ 0 .. zones_size - 1 \subseteq 0 .. MaxEntries - 1
      /\ pages_size > 0
  BY <1>1, <1>3, TableSizes DEF Index
<1>6. Index'
  BY <1>1, <1>5 DEF Index, Loading
<1>7. ZONE_UNMAPED_INDEX' \in 0 .. MaxEntries - 1
  <2>1. ZONE_UNMAPED_INDEX \in 0 .. MaxEntries - 1
    BY <1>3 DEF Typed
  <2>2. i \in 0 .. MaxEntries - 1
    BY <1>1, <1>5
  <2> QED
    BY <1>1, <2>1, <2>2
<1>8. Typed'
  BY <1>1, <1>3, <1>7, TypedStays
<1>9. OnPC'
  <2> SUFFICES ASSUME PCMap
               PROVE  Zoned' /\ Paged' /\ Marked' /\ Counted' /\ Indexed'
    BY <1>1, <1>2 DEF OnPC
  <2>1. Zoned /\ Paged /\ Marked /\ Counted /\ Indexed
    BY <1>1, <1>3 DEF IInv, OnPC
  <2>2. /\ Taken = 0 /\ Taken' = 0 /\ Pages' = Pages /\ Built' = Built
        /\ \A z : ZonePages(z)' = ZonePages(z)
        /\ \A z, k : ZoneIs(z, k)' <=> ZoneIs(z, k)
        /\ MapLen(pages_size)' = MapLen(pages_size)
    BY <1>1 DEF Taken, Pages, Built, ZonePages, ZoneIs, MapLen
  <2>3. Zoned'
    BY <1>1, <2>1, <2>2 DEF Zoned
  <2>4. Paged'
    BY <1>1, <2>1, <2>2 DEF Paged
  <2>5. Marked'
    BY <1>1, <2>1, <2>2 DEF Marked
  <2>6. Counted'
    BY <1>1, <2>1, <2>2 DEF Counted, Used
  <2>7. Indexed'
    <3> DEFINE u == ZONE_UNMAPED_INDEX
    <3>1. \/ u < i /\ zones[u].start = Addr4G
          \/ u = 0 /\ \A z \in 0 .. i - 1 : zones[z].start # Addr4G
      BY <1>1, <2>1 DEF Indexed
    <3>2. u \in Nat
      BY <1>3 DEF Typed
    <3>3. u < i => u < i + 1
      BY <1>5, <3>2
    <3>4. i < i + 1 /\ \A z \in 0 .. i + 1 - 1 : z \in 0 .. i - 1 \/ z = i
      BY <1>5
    <3> HIDE DEF u
    <3>5. CASE zones[i].start = Addr4G
      BY <1>1, <3>4, <3>5 DEF Indexed
    <3>6. CASE zones[i].start # Addr4G
      <4>1. \/ u < i + 1 /\ zones[u].start = Addr4G
            \/ u = 0 /\ \A z \in 0 .. i + 1 - 1 : zones[z].start # Addr4G
        BY <3>1, <3>3, <3>4, <3>6
      <4>2. ZONE_UNMAPED_INDEX' = u /\ pc' = "index" /\ i' = i + 1 /\ zones' = zones
        BY <1>1, <3>6 DEF u
      <4>3. \/ ZONE_UNMAPED_INDEX' < i' /\ zones'[ZONE_UNMAPED_INDEX'].start = Addr4G
            \/ ZONE_UNMAPED_INDEX' = 0 /\ \A z \in 0 .. i' - 1 : zones'[z].start # Addr4G
        BY <1>5, <3>2, <4>1, <4>2
      <4> QED
        BY <4>2, <4>3 DEF Indexed
    <3> QED
      BY <3>5, <3>6
  <2> QED
    BY <2>3, <2>4, <2>5, <2>6, <2>7
<1> QED
  BY <1>2, <1>4, <1>6, <1>8, <1>9 DEF IInv

LEMMA IndexesHold ==
  ASSUME IInv, IndexesSet
  PROVE  IInv'
<1>1. /\ pc = "index" /\ pc' = "reserve" /\ i = zones_size /\ i' = 0
      /\ UNCHANGED <<bios, mem, stored, end_struct, e820, pages_size, bits_map, page, zones,
                     zones_size, ZONE_UNMAPED_INDEX>>
  BY DEF IndexesSet, inputs
<1>2. Stored' /\ (PCMap' <=> PCMap)
  BY Unmoved DEF init_memory
<1>3. Stored /\ Copied /\ Index /\ Typed /\ (pc \in TablePcs) /\ (pc' \in TablePcs)
  BY <1>1 DEF IInv, TablePcs
<1>4. Copied'
  BY <1>1, <1>3, CopiedStays
<1>5. pages_size \in Nat /\ pages_size > 0
  BY <1>1, <1>3, TableSizes DEF Index
<1>6. Index'
  <2>1. idx \in Nat
    <3>1. end_struct \in Nat
      BY <1>3, Sizes DEF Stored
    <3> QED
      BY <3>1, DivIs, Sizes DEF idx
  <2>2. idx' = idx /\ 0 <= idx + 1
    BY <1>1, <2>1 DEF idx
  <2> QED
    BY <1>1, <1>5, <2>2 DEF Index, Loading
<1>7. Typed'
  BY <1>1, <1>3, TypedStays DEF Typed
<1>8. OnPC'
  <2> SUFFICES ASSUME PCMap
               PROVE  Zoned' /\ Paged' /\ Marked' /\ Counted' /\ Indexed'
    BY <1>1, <1>2 DEF OnPC
  <2>1. Zoned /\ Paged /\ Marked /\ Counted /\ Indexed
    BY <1>1, <1>3 DEF IInv, OnPC
  <2>2. /\ Taken = 0 /\ Taken' = 0 /\ Pages' = Pages /\ Built' = Built
        /\ \A z : ZonePages(z)' = ZonePages(z)
        /\ \A z, k : ZoneIs(z, k)' <=> ZoneIs(z, k)
        /\ MapLen(pages_size)' = MapLen(pages_size)
    BY <1>1 DEF Taken, Pages, Built, ZonePages, ZoneIs, MapLen
  <2>3. Zoned'
    BY <1>1, <2>1, <2>2 DEF Zoned
  <2>4. Paged'
    BY <1>1, <2>1, <2>2 DEF Paged
  <2>5. Marked'
    BY <1>1, <2>1, <2>2 DEF Marked
  <2>6. Counted'
    BY <1>1, <2>1, <2>2 DEF Counted, Used
  <2>7. Indexed'
    BY <1>1, <2>1 DEF Indexed
  <2> QED
    BY <2>3, <2>4, <2>5, <2>6, <2>7
<1> QED
  BY <1>2, <1>4, <1>6, <1>7, <1>8 DEF IInv

-----------------------------------------------------------------------------
(* The kernel's pages *)

LEMMA ModUnique ==
  \A q \in Int, r \in Nat, w \in Nat \ {0} : r < w => (q * w + r) % w = r
OBVIOUS

LEMMA ModParts ==
  \A a \in Int, w \in Nat \ {0} :
    a \div w \in Int /\ a % w \in 0 .. w - 1 /\ a = (a \div w) * w + (a % w)
OBVIOUS

\* Counting down modulo w.
LEMMA ModDown ==
  ASSUME NEW a \in Int, NEW w \in Nat \ {0}
  PROVE  ((a % w) - 1) % w = (a - 1) % w
<1> DEFINE q == a \div w
           r == a % w
<1>1. q \in Int /\ r \in 0 .. w - 1 /\ a = q * w + r
  BY ModParts
<1> HIDE DEF q, r
<1>2. CASE r > 0
  <2>1. r - 1 \in Nat /\ r - 1 < w /\ a - 1 = q * w + (r - 1)
    BY <1>1, <1>2
  <2>2. (q * w + (r - 1)) % w = r - 1
    BY <1>1, <2>1, ModUnique
  <2>3. (r - 1) % w = r - 1
    BY <2>1, ModSmall
  <2> QED
    BY <2>1, <2>2, <2>3 DEF r
<1>3. CASE r = 0
  <2>1. w - 1 \in Nat /\ w - 1 < w /\ a - 1 = (q - 1) * w + (w - 1) /\ q - 1 \in Int
    <3>1. (q - 1) * w = q * w - w /\ q * w \in Int
      BY <1>1
    <3> QED
      BY <1>1, <1>3, <3>1
  <2>2. ((q - 1) * w + (w - 1)) % w = w - 1
    <3> DEFINE p == q - 1
               m == w - 1
    <3>1. p \in Int /\ m \in Nat /\ m < w
      BY <2>1
    <3> HIDE DEF p, m
    <3>2. (p * w + m) % w = m
      BY <3>1, ModUnique
    <3> QED
      BY <3>2 DEF p, m
  <2>3. (r - 1) % w = w - 1
    <3>1. ((-1) * w + (w - 1)) % w = w - 1
      <4> DEFINE p == -1
                 m == w - 1
      <4>1. p \in Int /\ m \in Nat /\ m < w
        BY <2>1
      <4> HIDE DEF p, m
      <4>2. (p * w + m) % w = m
        BY <4>1, ModUnique
      <4> QED
        BY <4>2 DEF p, m
    <3>2. (-1) * w + (w - 1) = r - 1
      BY <1>3
    <3> QED
      BY <3>1, <3>2
  <2> QED
    BY <2>1, <2>2, <2>3 DEF r
<1> QED
  BY <1>1, <1>2, <1>3

\* What page_init does to page i and to its zone z.
LEMMA ReserveIs ==
  ASSUME IInv, ReservePage, NEW z, z = page[i].zone
  PROVE  /\ pc = "reserve" /\ pc' = "reserve" /\ i <= idx /\ i' = i + 1
         /\ i \in Pages /\ z # NULL /\ z \in 0 .. MaxEntries - 1
         /\ zones' \in [0 .. MaxEntries - 1 -> ZoneType]
         /\ zones'[z].using = (zones[z].using + 1) % CountMod
         /\ zones'[z].free = (zones[z].free - 1) % CountMod
         /\ zones'[z].link = zones[z].link + 1
         /\ \A y \in 0 .. MaxEntries - 1 : y # z => zones'[y] = zones[y]
         /\ \A y \in 0 .. MaxEntries - 1 :
              zones'[y].start = zones[y].start /\ zones'[y].end = zones[y].end
         /\ page' \in [Pages -> PageType]
         /\ page'[i].zone = z /\ page'[i].PHY_address = page[i].PHY_address
         /\ page'[i].attr = "private" /\ page'[i].ref_cnt = page[i].ref_cnt + 1
         /\ \A p \in Pages : p # i => page'[p] = page[p]
         /\ bits_map' = bits_map \cup {page[i].PHY_address \div PageSize}
         /\ page[i].PHY_address \div PageSize \in {0, i}
         /\ page[i].PHY_address = i * PageSize => page[i].PHY_address \div PageSize = i
         /\ UNCHANGED <<bios, mem, stored, end_struct, e820, pages_size, zones_size,
                        ZONE_UNMAPED_INDEX>>
<1> USE Sizes
<1>1. /\ pc = "reserve" /\ pc' = "reserve" /\ i <= idx /\ i' = i + 1
      /\ i \in DOMAIN page /\ z # NULL
      /\ zones' = [zones EXCEPT ![z].using = (@ + 1) % CountMod,
                                ![z].free = (@ - 1) % CountMod,
                                ![z].link = @ + 1]
      /\ page' = [page EXCEPT ![i].attr = "private", ![i].ref_cnt = @ + 1]
      /\ bits_map' = bits_map \cup {page[i].PHY_address \div PageSize}
      /\ UNCHANGED <<bios, mem, stored, end_struct, e820, pages_size, zones_size,
                     ZONE_UNMAPED_INDEX>>
  BY DEF ReservePage, inputs
<1>2. pc \in TablePcs /\ Typed
  BY <1>1 DEF TablePcs, IInv
<1>3. /\ zones \in [0 .. MaxEntries - 1 -> ZoneType] /\ page \in [Pages -> PageType]
      /\ 0 .. zones_size - 1 \subseteq 0 .. MaxEntries - 1
  BY <1>2, TableSizes
<1>4. i \in Pages /\ i \in Nat /\ page[i] \in PageType
  BY <1>1, <1>3 DEF Pages
<1>5. z \in 0 .. MaxEntries - 1
  <2>1. z \in (0 .. zones_size - 1) \cup {NULL, 0}
    BY <1>2, <1>4 DEF Typed
  <2>2. 0 \in 0 .. MaxEntries - 1
    OBVIOUS
  <2> QED
    BY <1>1, <1>3, <2>1, <2>2
<1>6. zones[z] \in ZoneType
  BY <1>3, <1>5
<1>7. /\ zones[z].using \in Nat /\ zones[z].free \in Nat /\ zones[z].link \in Nat
      /\ (zones[z].using + 1) % CountMod \in Nat /\ (zones[z].free - 1) % CountMod \in Nat
  <2>1. zones[z].using \in Nat /\ zones[z].free \in Nat /\ zones[z].link \in Nat
    BY <1>6 DEF ZoneType
  <2>2. /\ (zones[z].using + 1) % CountMod \in 0 .. CountMod - 1
        /\ (zones[z].free - 1) % CountMod \in 0 .. CountMod - 1
    <3> DEFINE u == zones[z].using + 1
               f == zones[z].free - 1
    <3>1. u \in Int /\ f \in Int
      BY <2>1
    <3> HIDE DEF u, f
    <3>2. u % CountMod \in 0 .. CountMod - 1 /\ f % CountMod \in 0 .. CountMod - 1
      BY <3>1, ModRange
    <3> QED
      BY <3>2 DEF u, f
  <2> QED
    BY <2>1, <2>2
<1> DEFINE new == [zones[z] EXCEPT !.using = (zones[z].using + 1) % CountMod,
                                   !.free = (zones[z].free - 1) % CountMod,
                                   !.link = zones[z].link + 1]
<1>8. zones' = [zones EXCEPT ![z] = new]
  BY <1>1, <1>3, <1>5, <1>6 DEF ZoneType
<1>9. /\ new \in ZoneType
      /\ new.using = (zones[z].using + 1) % CountMod
      /\ new.free = (zones[z].free - 1) % CountMod /\ new.link = zones[z].link + 1
      /\ new.start = zones[z].start /\ new.end = zones[z].end
  <2> DEFINE a == (zones[z].using + 1) % CountMod
             b == (zones[z].free - 1) % CountMod
  <2>1. a \in Nat /\ b \in Nat
    BY <1>7
  <2> HIDE DEF a, b
  <2>2. new = [zones[z] EXCEPT !.using = a, !.free = b, !.link = zones[z].link + 1]
    BY DEF a, b
  <2> HIDE DEF new
  <2>4. /\ zones[z].start \in Nat /\ zones[z].end \in Nat
        /\ new = [start |-> zones[z].start, end |-> zones[z].end, using |-> a, free |-> b,
                  link |-> zones[z].link + 1]
    BY <1>6, <2>2 DEF ZoneType
  <2>3. /\ new \in ZoneType /\ new.using = a /\ new.free = b /\ new.link = zones[z].link + 1
        /\ new.start = zones[z].start /\ new.end = zones[z].end
    <3>1. zones[z].link + 1 \in Nat
      <4>1. zones[z].link \in Nat
        BY <1>6 DEF ZoneType
      <4> QED
        BY <4>1
    <3> DEFINE s == zones[z].start
               e == zones[z].end
               l == zones[z].link + 1
    <3>2. s \in Nat /\ e \in Nat /\ l \in Nat
      BY <2>4, <3>1
    <3>3. new = [start |-> s, end |-> e, using |-> a, free |-> b, link |-> l]
      BY <2>4
    <3> HIDE DEF s, e, l
    <3>4. /\ new \in ZoneType /\ new.using = a /\ new.free = b /\ new.link = l
          /\ new.start = s /\ new.end = e
      BY <2>1, <3>2, <3>3 DEF ZoneType
    <3> QED
      BY <3>4 DEF s, e, l
  <2> QED
    BY <2>3 DEF a, b
<1> HIDE DEF new
<1>10. /\ zones' \in [0 .. MaxEntries - 1 -> ZoneType] /\ zones'[z] = new
       /\ \A y \in 0 .. MaxEntries - 1 : y # z => zones'[y] = zones[y]
  BY <1>3, <1>5, <1>8, <1>9
<1>11. \A y \in 0 .. MaxEntries - 1 : zones'[y].start = zones[y].start /\ zones'[y].end = zones[y].end
  BY <1>9, <1>10
<1>12. /\ page' \in [Pages -> PageType]
       /\ page'[i].zone = z /\ page'[i].PHY_address = page[i].PHY_address
       /\ page'[i].attr = "private" /\ page'[i].ref_cnt = page[i].ref_cnt + 1
       /\ \A p \in Pages : p # i => page'[p] = page[p]
  <2> DEFINE q == page[i]
             r == [q EXCEPT !.attr = "private", !.ref_cnt = q.ref_cnt + 1]
  <2>1. page' = [page EXCEPT ![i] = r]
    BY <1>1, <1>3, <1>4
  <2>2. q \in PageType /\ q.zone = z
    BY <1>4
  <2> HIDE DEF q
  <2> DEFINE n == q.ref_cnt + 1
  <2>3. q.ref_cnt \in Nat /\ n \in Nat
    BY <2>2 DEF PageType
  <2> HIDE DEF n
  <2>4. /\ r \in PageType /\ r.zone = z /\ r.PHY_address = q.PHY_address
        /\ r.attr = "private" /\ r.ref_cnt = n
    <3> DEFINE private == "private"
    <3>1. private \in {"none", "private"}
      OBVIOUS
    <3> HIDE DEF private
    <3>2. r = [q EXCEPT !.attr = private, !.ref_cnt = n]
      BY DEF private, n
    <3> HIDE DEF r
    <3>3. /\ r \in PageType /\ r.zone = z /\ r.PHY_address = q.PHY_address
          /\ r.attr = private /\ r.ref_cnt = n
      BY <2>2, <2>3, <3>1, <3>2 DEF PageType
    <3> QED
      BY <3>3 DEF private
  <2> HIDE DEF r
  <2>5. /\ page' \in [Pages -> PageType] /\ page'[i] = r
        /\ \A p \in Pages : p # i => page'[p] = page[p]
    BY <1>3, <1>4, <2>1, <2>4
  <2> QED
    BY <2>4, <2>5 DEF q, n
<1>13. (i * PageSize) \div PageSize = i /\ 0 \div PageSize = 0
  BY <1>4, DivUnique
<1>14. page[i].PHY_address \in {0, i * PageSize}
  BY <1>2, <1>4 DEF Typed
<1>15. /\ page[i].PHY_address \div PageSize \in {0, i}
       /\ page[i].PHY_address = i * PageSize => page[i].PHY_address \div PageSize = i
  BY <1>13, <1>14
<1>16. /\ zones'[z].using = (zones[z].using + 1) % CountMod
       /\ zones'[z].free = (zones[z].free - 1) % CountMod
       /\ zones'[z].link = zones[z].link + 1
  BY <1>9, <1>10, Zenon
<1> QED
  BY <1>1, <1>4, <1>5, <1>10, <1>11, <1>12, <1>15, <1>16, Zenon

LEMMA ReserveTyped ==
  ASSUME IInv, ReservePage
  PROVE  Index' /\ Typed'
<1> USE Sizes
<1> SUFFICES ASSUME NEW z, z = page[i].zone
             PROVE  Index' /\ Typed'
  OBVIOUS
<1> DEFINE b == page[i].PHY_address \div PageSize
<1>1. /\ pc = "reserve" /\ pc' = "reserve" /\ i <= idx /\ i' = i + 1 /\ i \in Pages
      /\ page' \in [Pages -> PageType] /\ page'[i].zone = z
      /\ page'[i].PHY_address = page[i].PHY_address
      /\ \A p \in Pages : p # i => page'[p] = page[p]
      /\ bits_map' = bits_map \cup {b} /\ b \in {0, i}
      /\ UNCHANGED <<end_struct, e820, pages_size, zones_size, ZONE_UNMAPED_INDEX>>
      /\ z \in 0 .. MaxEntries - 1
      /\ zones' \in [0 .. MaxEntries - 1 -> ZoneType]
      /\ \A y \in 0 .. MaxEntries - 1 : y # z => zones'[y] = zones[y]
  BY ReserveIs
<1> HIDE DEF b
<1>2. Index /\ Typed /\ pc \in TablePcs
  BY <1>1 DEF IInv, TablePcs
<1>3. /\ i \in Nat /\ pages_size \in Nat /\ pages_size <= MapLen(pages_size)
      /\ MapLen(pages_size) \in Nat /\ page \in [Pages -> PageType] /\ i < pages_size
      /\ zones \in [0 .. MaxEntries - 1 -> ZoneType]
  BY <1>1, <1>2, TableSizes DEF Pages
<1>4. idx \in Nat /\ idx' = idx
  <2>1. end_struct \in Nat
    BY DEF IInv, Stored
  <2> QED
    BY <1>1, <2>1, DivIs DEF idx
<1>5. Index'
  BY <1>1, <1>2, <1>3, <1>4 DEF Index, Loading
<1>6. Pages' = Pages /\ MapLen(pages_size)' = MapLen(pages_size)
  BY <1>1 DEF Pages, MapLen
<1>7. bits_map' \subseteq 0 .. MapLen(pages_size) - 1
  <2>1. b \in 0 .. MapLen(pages_size) - 1
    BY <1>1, <1>3
  <2> QED
    BY <1>1, <1>2, <2>1 DEF Typed
<1>8. \A p \in Pages : /\ page'[p].zone \in (0 .. zones_size - 1) \cup {NULL, 0}
                       /\ page'[p].PHY_address \in {0, p * PageSize}
  <2>1. \A p \in Pages : /\ page[p].zone \in (0 .. zones_size - 1) \cup {NULL, 0}
                         /\ page[p].PHY_address \in {0, p * PageSize}
    BY <1>2 DEF Typed
  <2>2. page'[i].zone = page[i].zone
    BY <1>1
  <2> QED
    BY <1>1, <2>1, <2>2
<1>9. \A y \in 0 .. MaxEntries - 1 : zones'[y].using < CountMod /\ zones'[y].free < CountMod
  <2>1. \A y \in 0 .. MaxEntries - 1 : zones[y].using < CountMod /\ zones[y].free < CountMod
    BY <1>2, <1>3 DEF Typed
  <2> DEFINE u == zones[z].using + 1
             f == zones[z].free - 1
  <2>2. zones'[z].using = u % CountMod /\ zones'[z].free = f % CountMod
    BY ReserveIs
  <2>3. u \in Int /\ f \in Int
    <3>1. zones[z] \in ZoneType
      BY <1>1, <1>3
    <3>2. zones[z].using \in Nat /\ zones[z].free \in Nat
      BY <3>1 DEF ZoneType
    <3> QED
      BY <3>2
  <2> HIDE DEF u, f
  <2>4. u % CountMod < CountMod /\ f % CountMod < CountMod
    <3>1. u % CountMod \in 0 .. CountMod - 1 /\ f % CountMod \in 0 .. CountMod - 1
      BY <2>3, ModRange
    <3> QED
      BY <3>1
  <2> QED
    BY <1>1, <2>1, <2>2, <2>4
<1>10. Typed'
  <2>1. pc' \in TablePcs /\ zones_size' \in 0 .. VbeEntry /\ zones_size' <= Len(e820')
    BY <1>1, <1>2 DEF Typed, TablePcs
  <2>2. pages_size' \in Nat /\ pages_size' < CountMod
    BY <1>1, <1>2 DEF Typed
  <2>3. bits_map' \subseteq 0 .. MapLen(pages_size)' - 1 /\ page' \in [Pages' -> PageType]
    BY <1>1, <1>6, <1>7
  <2>4. \A p \in Pages' : /\ page'[p].zone \in (0 .. zones_size' - 1) \cup {NULL, 0}
                          /\ page'[p].PHY_address \in {0, p * PageSize}
    BY <1>1, <1>6, <1>8
  <2>5. zones' \in [0 .. MaxEntries - 1 -> ZoneType]
        /\ \A y \in DOMAIN zones' : zones'[y].using < CountMod /\ zones'[y].free < CountMod
    BY <1>1, <1>9
  <2>6. ZONE_UNMAPED_INDEX' \in 0 .. MaxEntries - 1
    BY <1>1, <1>2 DEF Typed
  <2> QED
    BY <1>1, <2>1, <2>2, <2>3, <2>4, <2>5, <2>6 DEF Typed
<1> QED
  BY <1>5, <1>10

LEMMA ReserveHolds ==
  ASSUME IInv, ReservePage
  PROVE  IInv'
<1> USE Sizes
<1> SUFFICES ASSUME NEW z, z = page[i].zone
             PROVE  IInv'
  OBVIOUS
<1>1. /\ pc = "reserve" /\ pc' = "reserve" /\ i' = i + 1 /\ i \in Pages
      /\ z # NULL /\ z \in 0 .. MaxEntries - 1
      /\ \A y \in 0 .. MaxEntries - 1 : y # z => zones'[y] = zones[y]
      /\ \A y \in 0 .. MaxEntries - 1 : zones'[y].start = zones[y].start /\ zones'[y].end = zones[y].end
      /\ page'[i].zone = z /\ page'[i].PHY_address = page[i].PHY_address
      /\ page'[i].attr = "private" /\ page'[i].ref_cnt = page[i].ref_cnt + 1
      /\ \A p \in Pages : p # i => page'[p] = page[p]
      /\ bits_map' = bits_map \cup {page[i].PHY_address \div PageSize}
      /\ page[i].PHY_address = i * PageSize => page[i].PHY_address \div PageSize = i
      /\ UNCHANGED <<bios, mem, stored, end_struct, e820, pages_size, zones_size,
                     ZONE_UNMAPED_INDEX>>
  BY ReserveIs
<1>2. Stored' /\ (PCMap' <=> PCMap)
  BY Unmoved DEF init_memory
<1>3. Stored /\ Copied /\ Index /\ Typed /\ (pc \in TablePcs) /\ (pc' \in TablePcs)
  BY <1>1 DEF IInv, TablePcs
<1>4. Copied'
  BY <1>1, <1>3, CopiedStays
<1>5. OnPC'
  <2> SUFFICES ASSUME PCMap
               PROVE  Zoned' /\ Paged' /\ Marked' /\ Counted' /\ Indexed'
    BY <1>1, <1>2 DEF OnPC
  <2>1. Zoned /\ Paged /\ Marked /\ Counted /\ Indexed
    BY <1>3 DEF IInv, OnPC
  <2>2. /\ i \in Nat /\ zones_size \in Nat /\ Len(e820) \in Nat /\ pages_size \in Nat
        /\ pages_size < CountMod /\ i < pages_size
        /\ Pages' = Pages /\ MapLen(pages_size)' = MapLen(pages_size)
        /\ zones \in [0 .. MaxEntries - 1 -> ZoneType] /\ page \in [Pages -> PageType]
        /\ 0 .. zones_size - 1 \subseteq 0 .. MaxEntries - 1
    <3>1. /\ i \in Nat /\ zones_size \in Nat /\ Len(e820) \in Nat /\ pages_size \in Nat
          /\ pages_size < CountMod
          /\ zones \in [0 .. MaxEntries - 1 -> ZoneType] /\ page \in [Pages -> PageType]
          /\ 0 .. zones_size - 1 \subseteq 0 .. MaxEntries - 1
      BY <1>3, TableSizes
    <3>2. Pages' = Pages /\ MapLen(pages_size)' = MapLen(pages_size)
      BY <1>1 DEF Pages, MapLen
    <3>3. i < pages_size
      BY <1>1, <3>1 DEF Pages
    <3> QED
      BY <3>1, <3>2, <3>3
  <2>3. Taken = i /\ Taken' = i + 1 /\ Built' = Built
    BY <1>1 DEF Taken, Built
  <2>4. \A y \in 0 .. zones_size - 1 : ZonePages(y)' = ZonePages(y)
    BY <1>1, <2>2 DEF ZonePages
  <2>5. \A y \in 0 .. zones_size - 1 : \A k : ZoneIs(y, k)' <=> ZoneIs(y, k)
    BY <1>1, <2>2 DEF ZoneIs
  <2>6. \A p \in Pages : page'[p].zone = page[p].zone /\ page'[p].PHY_address = page[p].PHY_address
    BY <1>1
  <2>7. page[i].PHY_address = i * PageSize /\ page[i].attr = "none" /\ page[i].ref_cnt = 0
    BY <1>1, <2>1, <2>2, <2>3 DEF Paged
  <2>8. bits_map' = bits_map \cup {i}
    BY <1>1, <2>7
  <2>9. Zoned'
    <3>1. \A y, x \in 0 .. zones_size - 1 : y < x => zones'[y].end <= zones'[x].start
      BY <1>1, <2>1, <2>2 DEF Zoned
    <3> QED
      BY <1>1, <2>1, <2>3, <2>5, <3>1 DEF Zoned
  <2>10. Paged'
    <3> SUFFICES ASSUME NEW p \in Pages
                 PROVE  /\ IF p = 0 THEN page'[p].zone = 0
                           ELSE \A y \in 0 .. zones_size - 1 : page'[p].zone = y <=> p \in ZonePages(y)'
                        /\ page'[p].zone # NULL =>
                             page'[p].zone < zones_size /\ page'[p].PHY_address = p * PageSize
                        /\ page'[p].attr = (IF p < i + 1 THEN "private" ELSE "none")
                        /\ page'[p].ref_cnt = (IF p < i + 1 THEN 1 ELSE 0)
      BY <1>1, <2>2, <2>3 DEF Paged
    <3>1. p \in Nat
      BY DEF Pages
    <3>2. /\ IF p = 0 THEN page[p].zone = 0
             ELSE \A y \in 0 .. zones_size - 1 : page[p].zone = y <=> p \in ZonePages(y)
          /\ page[p].zone # NULL => page[p].zone < zones_size /\ page[p].PHY_address = p * PageSize
          /\ page[p].attr = (IF p < i THEN "private" ELSE "none")
          /\ page[p].ref_cnt = (IF p < i THEN 1 ELSE 0)
      BY <1>1, <2>1, <2>3 DEF Paged
    <3>3. /\ IF p = 0 THEN page'[p].zone = 0
             ELSE \A y \in 0 .. zones_size - 1 : page'[p].zone = y <=> p \in ZonePages(y)'
          /\ page'[p].zone # NULL =>
               page'[p].zone < zones_size /\ page'[p].PHY_address = p * PageSize
      BY <2>4, <2>6, <3>2
    <3>4. CASE p = i
      <4>1. p < i + 1 /\ page'[p].attr = "private" /\ page'[p].ref_cnt = 1
        BY <1>1, <2>2, <2>7, <3>4
      <4> QED
        BY <3>3, <4>1
    <3>5. CASE p # i
      <4>1. page'[p] = page[p] /\ (p < i + 1 <=> p < i)
        BY <1>1, <2>2, <3>1, <3>5
      <4> QED
        BY <3>2, <3>3, <4>1
    <3> QED
      BY <3>4, <3>5
  <2>11. Marked'
    <3> SUFFICES ASSUME NEW b \in 0 .. MapLen(pages_size) - 1
                 PROVE  b \in bits_map' <=>
                          b \notin Pages \/ b < i + 1 \/ b = 0 \/ page'[b].zone = NULL
      BY <2>2, <2>3 DEF Marked
    <3>1. b \in bits_map <=> b \notin Pages \/ b < i \/ b = 0 \/ page[b].zone = NULL
      BY <2>1, <2>3 DEF Marked
    <3>2. b < i + 1 <=> b < i \/ b = i
      <4>1. b \in Int
        OBVIOUS
      <4> QED
        BY <2>2, <4>1
    <3>3. b \in Pages => page'[b].zone = page[b].zone
      BY <2>6
    <3> QED
      BY <2>8, <3>1, <3>2, <3>3
  <2>12. Counted'
    <3> DEFINE In(y) == {p \in 0 .. i - 1 : page[p].zone = y}
               New(y) == {p \in 0 .. i + 1 - 1 : page'[p].zone = y}
    <3>1. ASSUME NEW y \in 0 .. zones_size - 1
          PROVE  /\ zones[y].using = Cardinality(In(y)) /\ zones[y].link = Cardinality(In(y))
                 /\ zones[y].free = (Cardinality(ZonePages(y)) - Cardinality(In(y))) % CountMod
      BY <2>1, <2>3 DEF Counted, Used
    <3>2. \A y : New(y) = IF y = z THEN In(y) \cup {i} ELSE In(y)
      <4>1. \A p : p \in 0 .. i + 1 - 1 <=> p \in 0 .. i - 1 \/ p = i
        BY <2>2
      <4>2. \A p \in 0 .. i + 1 - 1 : page'[p].zone = page[p].zone
        BY <2>2, <2>6 DEF Pages
      <4> QED
        BY <4>1, <4>2
    <3>3. \A y : i \notin In(y) /\ In(y) \subseteq 0 .. i - 1
      BY <2>2
    <3> HIDE DEF In, New
    <3>4. \A y : IsFiniteSet(In(y)) /\ Cardinality(In(y)) \in Nat /\ Cardinality(In(y)) <= i
      BY <2>2, <3>3, CountIs
    <3>5. Cardinality(New(z)) = Cardinality(In(z)) + 1
      BY <3>2, <3>3, <3>4, FS_AddElement
    <3>6. ASSUME NEW y \in 0 .. zones_size - 1
          PROVE  /\ zones'[y].using = Cardinality(New(y)) /\ zones'[y].link = Cardinality(New(y))
                 /\ zones'[y].free = (Cardinality(ZonePages(y)) - Cardinality(New(y))) % CountMod
      <4>1. CASE y # z
        BY <1>1, <2>2, <3>1, <3>2, <4>1
      <4>2. CASE y = z
        <5> DEFINE n == Cardinality(In(z))
                   m == Cardinality(ZonePages(z))
        <5>1. n \in Nat /\ n <= i
          BY <3>4
        <5>2. m \in Nat
          <6>1. zones[z].start \in Nat /\ zones[z].end \in Nat
            <7>1. zones[z] \in ZoneType
              BY <1>1, <2>2
            <7> QED
              BY <7>1 DEF ZoneType
          <6>2. zones[z].start \div PageSize \in Nat /\ zones[z].end \div PageSize \in Nat
            BY <6>1, DivIs
          <6> DEFINE a == zones[z].start \div PageSize
                     b == zones[z].end \div PageSize
          <6>3. a \in Int /\ b - 1 \in Int
            BY <6>2
          <6> HIDE DEF a, b
          <6>4. IsFiniteSet(a .. b - 1)
            BY <6>3, FS_Interval
          <6>5. Cardinality(a .. b - 1) \in Nat
            BY <6>4, FS_CardinalityType
          <6> QED
            BY <6>5 DEF ZonePages, a, b
        <5>3. /\ zones[z].using = n /\ zones[z].link = n
              /\ zones[z].free = (m - n) % CountMod
          BY <3>1, <4>2
        <5> HIDE DEF n, m
        <5>4. zones'[z].using = n + 1
          <6>1. zones'[z].using = (n + 1) % CountMod
            BY <5>3, ReserveIs
          <6>2. n + 1 \in Nat /\ n + 1 < CountMod
            BY <2>2, <5>1
          <6>3. (n + 1) % CountMod = n + 1
            BY <6>2, ModSmall
          <6> QED
            BY <6>1, <6>3
        <5>5. zones'[z].link = n + 1
          BY <5>3, ReserveIs
        <5>6. zones'[z].free = (m - (n + 1)) % CountMod
          <6> DEFINE d == m - n
          <6>1. zones'[z].free = ((d % CountMod) - 1) % CountMod
            BY <5>3, ReserveIs
          <6>2. d \in Int /\ d - 1 = m - (n + 1)
            BY <5>1, <5>2
          <6> HIDE DEF d
          <6>3. ((d % CountMod) - 1) % CountMod = (d - 1) % CountMod
            BY <6>2, ModDown
          <6> QED
            BY <6>1, <6>2, <6>3
        <5> QED
          BY <3>5, <4>2, <5>4, <5>5, <5>6 DEF n, m
      <4> QED
        BY <4>1, <4>2
    <3>7. Taken' <= pages_size'
      BY <1>1, <2>2, <2>3
    <3> QED
      <4>1. \A y \in 0 .. zones_size - 1 : Used(y, Taken)' = Cardinality(New(y))
        <5>1. 0 .. Taken' - 1 = 0 .. i + 1 - 1
          BY <2>2, <2>3
        <5> QED
          BY <5>1 DEF Used, New
      <4>2. zones_size' = zones_size
        BY <1>1
      <4>3. \A y \in 0 .. zones_size - 1 :
              /\ zones'[y].using = Used(y, Taken)' /\ zones'[y].link = Used(y, Taken)'
              /\ zones'[y].free = (Cardinality(ZonePages(y)') - Used(y, Taken)') % CountMod
        BY <2>4, <3>6, <4>1
      <4> QED
        BY <3>7, <4>2, <4>3 DEF Counted
  <2>13. Indexed'
    <3>1. \A y \in 0 .. zones_size - 1 : zones'[y].start = zones[y].start
      BY <1>1, <2>2
    <3>2. ZONE_UNMAPED_INDEX \in 0 .. MaxEntries - 1
      BY <1>3 DEF Typed
    <3> QED
      BY <1>1, <2>1, <3>1, <3>2 DEF Indexed
  <2> QED
    BY <2>9, <2>10, <2>11, <2>12, <2>13
<1> QED
  BY <1>2, <1>4, <1>5, ReserveTyped DEF IInv

\* Once the zones are built, a page has one if and only if it is RAM; page 0
\* has the first.
LEMMA RamHasZone ==
  ASSUME IInv, PCMap, pc \in TablePcs \ {"zones", "page0"}
  PROVE  /\ idx \in Nat /\ 0 \in Pages /\ page[0].zone = 0
         /\ \A p \in Nat \ {0} : IsRam(p) <=> p \in Pages /\ page[p].zone # NULL
         /\ \A p \in 1 .. idx : p \in Pages /\ page[p].zone # NULL
<1> USE Sizes
<1>1. /\ Stored /\ Copied /\ Zoned /\ Paged /\ Regular /\ Built = Len(e820)
      /\ pc \in TablePcs /\ pc \notin {"zones", "page0"}
  BY DEF IInv, OnPC, PCMap, Built
<1>2. /\ pages_size \in Nat /\ pages_size > 0 /\ zones_size \in Nat
      /\ page \in [Pages -> PageType]
  BY <1>1, TableSizes, ZoneExists
<1>3. idx \in Nat
  <2>1. end_struct \in Nat
    BY <1>1 DEF Stored
  <2> QED
    BY <2>1, DivIs DEF idx
<1>4. 0 \in Pages
  BY <1>2 DEF Pages
<1>5. page[0].zone = 0
  BY <1>1, <1>4 DEF Paged
<1>6. ASSUME NEW p \in Nat \ {0}, IsRam(p)
      PROVE  p \in Pages /\ page[p].zone # NULL
  <2>1. PICK k \in 1 .. Len(e820) : FormsZone(e820[k]) /\ p \in PagesOf(e820[k])
    BY <1>1, <1>6, RamIs
  <2>2. p \in Pages
    BY <1>1, <2>1, RamIs DEF Zoned, Pages
  <2>3. PICK z \in 0 .. zones_size - 1 : ZoneIs(z, k)
    BY <1>1, <2>1 DEF Zoned
  <2>4. p \in ZonePages(z)
    BY <2>1, <2>3 DEF ZoneIs, ZonePages, PagesOf
  <2>5. page[p].zone = z
    BY <1>1, <2>2, <2>3, <2>4 DEF Paged
  <2> QED
    BY <1>2, <2>2, <2>5 DEF NULL
<1>7. ASSUME NEW p \in Nat \ {0}, p \in Pages, page[p].zone # NULL
      PROVE  IsRam(p)
  <2> DEFINE z == page[p].zone
  <2>1. z \in 0 .. zones_size - 1
    <3>1. z \in Nat
      BY <1>2, <1>7 DEF PageType
    <3>2. z < zones_size
      BY <1>1, <1>7 DEF Paged
    <3> QED
      BY <1>2, <3>1, <3>2
  <2>2. p \in ZonePages(z)
    BY <1>1, <1>7, <2>1 DEF Paged
  <2> HIDE DEF z
  <2>3. PICK k \in 1 .. Len(e820) : ZoneIs(z, k)
    BY <1>1, <2>1 DEF Zoned
  <2>4. FormsZone(e820[k]) /\ p \in PagesOf(e820[k])
    BY <2>2, <2>3 DEF ZoneIs, ZonePages, PagesOf
  <2> QED
    BY <1>1, <2>4, RamIs
<1>8. \A p \in 1 .. idx : p \in Pages /\ page[p].zone # NULL
  BY <1>3, <1>6 DEF PCMap
<1> QED
  BY <1>3, <1>4, <1>5, <1>6, <1>7, <1>8

LEMMA FaultHolds ==
  ASSUME IInv, ReserveFault
  PROVE  IInv'
<1>1. /\ pc = "reserve" /\ pc' = "fault" /\ i <= idx
      /\ i \in DOMAIN page => page[i].zone = NULL
      /\ UNCHANGED <<bios, mem, stored, end_struct, i, e820, pages_size, bits_map, page, zones,
                     zones_size, ZONE_UNMAPED_INDEX>>
  BY DEF ReserveFault, inputs
<1>2. Stored' /\ (PCMap' <=> PCMap)
  BY Unmoved DEF init_memory
<1>3. Stored /\ Copied /\ Index /\ Typed /\ (pc \in TablePcs) /\ (pc' \in TablePcs)
  BY <1>1 DEF IInv, TablePcs
<1>4. Copied'
  BY <1>1, <1>3, CopiedStays
<1>5. Index'
  BY <1>1, <1>3 DEF Index, Loading
<1>6. Typed'
  <2>1. ZONE_UNMAPED_INDEX' \in 0 .. MaxEntries - 1
    BY <1>1, <1>3 DEF Typed
  <2> QED
    BY <1>1, <1>3, <2>1, TypedStays
<1>7. ~ PCMap
  <2> SUFFICES ASSUME PCMap
               PROVE  FALSE
    OBVIOUS
  <2>1. /\ idx \in Nat /\ 0 \in Pages /\ page[0].zone = 0
        /\ \A p \in 1 .. idx : p \in Pages /\ page[p].zone # NULL
    BY <1>1, <1>3, RamHasZone
  <2>2. i \in Nat /\ DOMAIN page = Pages
    BY <1>3, TableSizes
  <2>3. i = 0 \/ i \in 1 .. idx
    BY <1>1, <2>1, <2>2
  <2> QED
    BY <1>1, <2>1, <2>2, <2>3 DEF NULL
<1> QED
  BY <1>2, <1>4, <1>5, <1>6, <1>7 DEF IInv, OnPC

LEMMA ReservedHolds ==
  ASSUME IInv, Reserved
  PROVE  IInv'
<1>1. /\ pc = "reserve" /\ pc' = "done" /\ i = idx + 1
      /\ UNCHANGED <<bios, mem, stored, end_struct, i, e820, pages_size, bits_map, page, zones,
                     zones_size, ZONE_UNMAPED_INDEX>>
  BY DEF Reserved, inputs
<1>2. Stored' /\ (PCMap' <=> PCMap) /\ idx' = idx
  BY Unmoved DEF init_memory
<1>3. Stored /\ Copied /\ Index /\ Typed /\ (pc \in TablePcs) /\ (pc' \in TablePcs)
  BY <1>1 DEF IInv, TablePcs
<1>4. Copied'
  BY <1>1, <1>3, CopiedStays
<1>5. Index'
  BY <1>1, <1>3 DEF Index, Loading
<1>6. Typed'
  <2>1. ZONE_UNMAPED_INDEX' \in 0 .. MaxEntries - 1
    BY <1>1, <1>3 DEF Typed
  <2> QED
    BY <1>1, <1>3, <2>1, TypedStays
<1>7. OnPC'
  <2> SUFFICES ASSUME PCMap
               PROVE  Zoned' /\ Paged' /\ Marked' /\ Counted' /\ Indexed'
    BY <1>1, <1>2 DEF OnPC
  <2>1. Zoned /\ Paged /\ Marked /\ Counted /\ Indexed
    BY <1>1, <1>3 DEF IInv, OnPC
  <2>2. /\ Taken' = Taken /\ Pages' = Pages /\ Built' = Built
        /\ \A z : ZonePages(z)' = ZonePages(z)
        /\ \A z, k : ZoneIs(z, k)' <=> ZoneIs(z, k)
        /\ MapLen(pages_size)' = MapLen(pages_size)
    BY <1>1, <1>2 DEF Taken, Pages, Built, ZonePages, ZoneIs, MapLen
  <2>3. Zoned'
    BY <1>1, <2>1, <2>2 DEF Zoned
  <2>4. Paged'
    BY <1>1, <2>1, <2>2 DEF Paged
  <2>5. Marked'
    BY <1>1, <2>1, <2>2 DEF Marked
  <2>6. Counted'
    <3>1. \A z : Used(z, Taken)' = Used(z, Taken)
      BY <1>1, <2>2 DEF Used
    <3> QED
      BY <1>1, <2>1, <2>2, <3>1 DEF Counted
  <2>7. Indexed'
    BY <1>1, <2>1 DEF Indexed
  <2> QED
    BY <2>3, <2>4, <2>5, <2>6, <2>7
<1> QED
  BY <1>2, <1>4, <1>5, <1>6, <1>7 DEF IInv

LEMMA NextHolds ==
  ASSUME IInv, [Next]_vars
  PROVE  IInv'
<1>1. CASE Load
  BY <1>1, LoadHolds
<1>2. CASE ScanEntry
  BY <1>2, ScanHolds
<1>3. CASE SizeTables
  BY <1>3, SizeHolds
<1>4. CASE SkipEntry
  BY <1>4, SkipHolds
<1>5. CASE AddZone
  BY <1>5, AddHolds
<1>6. CASE AddZoneBeyond
  BY <1>6, BeyondHolds
<1>7. CASE ZonesBuilt
  BY <1>7, BuiltHolds
<1>8. CASE ResetPage0
  BY <1>8, ResetHolds
<1>9. CASE SetIndexes
  BY <1>9, SetIndexHolds
<1>10. CASE IndexesSet
  BY <1>10, IndexesHold
<1>11. CASE ReservePage
  BY <1>11, ReserveHolds
<1>12. CASE ReserveFault
  BY <1>12, FaultHolds
<1>13. CASE Reserved
  BY <1>13, ReservedHolds
<1>14. CASE UNCHANGED vars
  <2>1. UNCHANGED <<bios, mem, stored, end_struct, pc, i, e820, pages_size, bits_map, page,
                    zones, zones_size, ZONE_UNMAPED_INDEX>>
    BY <1>14 DEF vars, inputs
  <2>2. Stored' /\ Copied' /\ Index'
    <3>1. idx' = idx
      BY <2>1 DEF idx
    <3> QED
      BY <2>1, <3>1 DEF IInv, Stored, Copied, Index
  <2>3. Typed' /\ Pages' = Pages
    BY <2>1 DEF IInv, Typed, Pages, MapLen
  <2>4. OnPC'
    <3>1. PCMap' <=> PCMap
      <4>1. Kept' = Kept /\ idx' = idx
        BY <2>1 DEF Kept, idx
      <4> QED
        BY <2>1, <4>1 DEF PCMap, Regular, IsRam
    <3>2. /\ Taken' = Taken /\ Built' = Built
          /\ \A z : ZonePages(z)' = ZonePages(z)
          /\ \A z, k : ZoneIs(z, k)' <=> ZoneIs(z, k)
          /\ MapLen(pages_size)' = MapLen(pages_size)
      BY <2>1 DEF Taken, Built, ZonePages, ZoneIs, MapLen, idx
    <3>3. Zoned' <=> Zoned
      BY <2>1, <3>2 DEF Zoned
    <3>4. Paged' <=> Paged
      BY <2>1, <2>3, <3>2 DEF Paged
    <3>5. Marked' <=> Marked
      BY <2>1, <2>3, <3>2 DEF Marked
    <3>6. Counted' <=> Counted
      <4>1. \A z : Used(z, Taken)' = Used(z, Taken)
        BY <2>1, <3>2 DEF Used
      <4> QED
        BY <2>1, <3>2, <4>1 DEF Counted
    <3>7. Indexed' <=> Indexed
      BY <2>1 DEF Indexed
    <3> QED
      BY <2>1, <3>1, <3>3, <3>4, <3>5, <3>6, <3>7 DEF IInv, OnPC
  <2> QED
    BY <2>2, <2>3, <2>4 DEF IInv
<1> QED
  BY <1>1, <1>2, <1>3, <1>4, <1>5, <1>6, <1>7, <1>8, <1>9, <1>10, <1>11, <1>12, <1>13, <1>14
     DEF Next, init_memory

-----------------------------------------------------------------------------
(* Theorems *)

\* The invariant holds in every reachable state.
THEOREM Invariance == Spec => []IInv
<1>1. Init => IInv
  BY InitHolds
<1>2. IInv /\ [Next]_vars => IInv'
  BY NextHolds
<1> QED
  BY <1>1, <1>2, PTL DEF Spec

\* Whatever the BIOS reports: the tables have the sizes init_memory gives them,
\* a page's zone is one of the zones, and no counter leaves its word.
THEOREM TypeCorrect == Spec => []TypeOK
<1> USE Sizes
<1>1. IInv => TypeOK
  <2> SUFFICES ASSUME IInv
               PROVE  TypeOK
    OBVIOUS
  <2>1. Stored /\ Copied /\ Typed
    BY DEF IInv
  <2>2. pc \in Loading \cup {"scan", "size"} \cup TablePcs
    BY <2>1 DEF Typed
  <2>3. stored <= Len(bios)
    BY <2>1 DEF Stored
  <2>4. (pc \in {"e820", "stopped"} => e820 = <<>>) /\ Len(e820) <= VbeEntry
    BY <2>1 DEF Copied, Loading
  <2>5. bits_map \subseteq 0 .. pages_size + WordBits - 2
    <3>1. bits_map \subseteq 0 .. MapLen(pages_size) - 1 /\ pages_size \in Nat
      BY <2>1 DEF Typed
    <3>2. MapLen(pages_size) \in Nat /\ MapLen(pages_size) <= pages_size + WordBits - 1
      BY <3>1, MapLenIs
    <3> QED
      BY <3>1, <3>2
  <2>6. /\ DOMAIN page = 0 .. pages_size - 1
        /\ \A p \in DOMAIN page : page[p].zone \in 0 .. zones_size - 1 \cup {NULL, 0}
    BY <2>1 DEF Typed, Pages
  <2>7. zones_size \in 0 .. MaxEntries /\ ZONE_UNMAPED_INDEX \in 0 .. MaxEntries - 1
    BY <2>1 DEF Typed
  <2>8. \A z \in DOMAIN zones : {zones[z].using, zones[z].free} \subseteq 0 .. CountMod - 1
    <3> SUFFICES ASSUME NEW z \in DOMAIN zones
                 PROVE  {zones[z].using, zones[z].free} \subseteq 0 .. CountMod - 1
      OBVIOUS
    <3>1. CASE pc \in TablePcs
      <4>1. zones \in [0 .. MaxEntries - 1 -> ZoneType]
        BY <2>1, <3>1 DEF Typed
      <4>2. zones[z].using \in Nat /\ zones[z].free \in Nat
        BY <4>1 DEF ZoneType
      <4>3. zones[z].using < CountMod /\ zones[z].free < CountMod
        BY <2>1 DEF Typed
      <4> QED
        BY <4>2, <4>3
    <3>2. CASE pc \notin TablePcs
      BY <2>1, <3>2 DEF Typed
    <3> QED
      BY <3>1, <3>2
  <2> QED
    BY <2>2, <2>3, <2>4, <2>5, <2>6, <2>7, <2>8 DEF TypeOK, Loading, TablePcs
<1> QED
  BY <1>1, Invariance, PTL

\* On a PC's memory map, of any length and with any kernel, init_memory writes
\* behind no table and follows no NULL zone.
THEOREM BootNeverFaults == Spec => []NoFault
<1>1. IInv => NoFault
  BY DEF IInv, OnPC, NoFault, TablePcs
<1> QED
  BY <1>1, Invariance, PTL

\* On a PC's memory map, what the bitmap leaves free for alloc_pages is the
\* RAM above the kernel, all of it and nothing else.
THEOREM FreeMemoryIsRam == Spec => []FreeIsRam
<1>1. IInv => FreeIsRam
  <2> SUFFICES ASSUME IInv, pc = "done", PCMap, NEW p \in 0 .. MapLen(pages_size) - 1
               PROVE  p \notin bits_map <=> IsRam(p) /\ p > idx
    BY DEF FreeIsRam
  <2>1. /\ idx \in Nat
        /\ \A q \in Nat \ {0} : IsRam(q) <=> q \in Pages /\ page[q].zone # NULL
    BY RamHasZone DEF TablePcs
  <2>2. p \in bits_map <=> p \notin Pages \/ p < idx + 1 \/ p = 0 \/ page[p].zone = NULL
    BY DEF IInv, OnPC, TablePcs, Marked, Taken
  <2>3. p \in Nat /\ (p < idx + 1 <=> ~ p > idx) /\ (p > idx => p # 0)
    BY <2>1
  <2> QED
    BY <2>1, <2>2, <2>3
<1> QED
  BY <1>1, Invariance, PTL

\* On a PC's memory map init_memory hands alloc_pages the tables PageAlloc
\* assumes and starts from: zones that are disjoint, not empty, inside
\* pages_struct and above page 0, a zone for every page of the kernel, and
\* marks, counters and the index of the unmapped zone that agree with them.
THEOREM AllocatorIsReady == Spec => []AllocatorReady
<1> USE Sizes
<1>1. IInv => AllocatorReady
  <2> SUFFICES ASSUME IInv, pc = "done", PCMap
               PROVE  AllocatorReady
    BY DEF AllocatorReady
  <2>1. /\ Stored /\ Copied /\ Regular /\ Zoned /\ Paged /\ Marked /\ Counted /\ Indexed
        /\ pc \in TablePcs /\ Built = Len(e820) /\ Taken = idx + 1 /\ ~ IsRam(0)
    BY DEF IInv, OnPC, PCMap, TablePcs, Built, Taken
  <2>2. /\ idx \in Nat /\ 0 \in Pages /\ page[0].zone = 0
        /\ \A p \in 1 .. idx : p \in Pages /\ page[p].zone # NULL
    BY <2>1, RamHasZone
  <2>3. /\ pages_size \in Nat /\ zones_size \in Nat /\ page \in [Pages -> PageType]
        /\ DOMAIN page = Pages /\ pages_size <= MapLen(pages_size) /\ MapLen(pages_size) \in Nat
        /\ \A k \in 1 .. Len(e820) : e820[k] \in Entry
    BY <2>1, TableSizes
  <2>4. ASSUME NEW z \in 0 .. zones_size - 1
        PROVE  /\ 0 < zones[z].start /\ zones[z].start < zones[z].end
               /\ ZonePages(z) \subseteq DOMAIN page \ {0}
               /\ \A y \in 0 .. zones_size - 1 : z < y => zones[z].end <= zones[y].start
    <3>1. PICK k \in 1 .. Len(e820) : ZoneIs(z, k)
      BY <2>1 DEF Zoned
    <3> DEFINE e == e820[k]
               s == Start(e) \div PageSize
               t == End(e) \div PageSize
    <3>2. e \in Entry /\ FormsZone(e) /\ zones[z].start = Start(e) /\ zones[z].end = End(e)
      BY <2>3, <3>1 DEF ZoneIs
    <3>3. ZonePages(z) = PagesOf(e)
      BY <3>2 DEF ZonePages, PagesOf
    <3>4. PagesOf(e) \subseteq Pages /\ 0 \notin PagesOf(e)
      BY <2>1, <3>2, RamIs DEF Zoned, Pages
    <3>5. /\ s \in Nat /\ t \in Nat /\ Start(e) = s * PageSize /\ s < t /\ Start(e) \in Nat
          /\ Start(e) < End(e) /\ PagesOf(e) = s .. t - 1
      BY <3>2, PagesOfIs DEF FormsZone, PagesOf
    <3> HIDE DEF e, s, t
    <3>6. s # 0
      BY <3>4, <3>5
    <3>7. 0 < Start(e)
      <4>1. 0 * PageSize < s * PageSize
        BY <3>5, <3>6, MulMono
      <4> QED
        BY <3>5, <4>1
    <3>8. \A y \in 0 .. zones_size - 1 : z < y => zones[z].end <= zones[y].start
      BY <2>1 DEF Zoned
    <3> QED
      BY <2>3, <3>2, <3>3, <3>4, <3>5, <3>7, <3>8
  <2>5. ASSUME NEW p \in DOMAIN page
        PROVE  /\ page[p].zone = IF p = 0 THEN 0
                                 ELSE IF \E z \in 0 .. zones_size - 1 : p \in ZonePages(z)
                                      THEN CHOOSE z \in 0 .. zones_size - 1 : p \in ZonePages(z)
                                      ELSE NULL
               /\ page[p].attr = IF p <= idx THEN "private" ELSE "none"
               /\ page[p].ref_cnt = IF p <= idx THEN 1 ELSE 0
               /\ page[p].zone # NULL => page[p].PHY_address = p * PageSize
               /\ p \in bits_map <=> p <= idx \/ page[p].zone = NULL
    <3>1. p \in Pages /\ p \in Nat
      BY <2>3 DEF Pages
    <3>2. /\ p # 0 => \A z \in 0 .. zones_size - 1 : page[p].zone = z <=> p \in ZonePages(z)
          /\ page[p].zone # NULL => page[p].zone < zones_size /\ page[p].PHY_address = p * PageSize
          /\ page[p].attr = (IF p < idx + 1 THEN "private" ELSE "none")
          /\ page[p].ref_cnt = (IF p < idx + 1 THEN 1 ELSE 0)
      BY <2>1, <3>1 DEF Paged
    <3>3. page[p].zone \in Nat \cup {NULL}
      BY <2>3, <3>1 DEF PageType
    <3>4. p < idx + 1 <=> p <= idx
      BY <2>2, <3>1
    <3>5. page[p].zone = IF p = 0 THEN 0
                        ELSE IF \E z \in 0 .. zones_size - 1 : p \in ZonePages(z)
                             THEN CHOOSE z \in 0 .. zones_size - 1 : p \in ZonePages(z)
                             ELSE NULL
      <4>1. CASE p = 0
        BY <2>2, <4>1
      <4>2. CASE p # 0 /\ \E z \in 0 .. zones_size - 1 : p \in ZonePages(z)
        <5> DEFINE c == CHOOSE z \in 0 .. zones_size - 1 : p \in ZonePages(z)
        <5>1. c \in 0 .. zones_size - 1 /\ p \in ZonePages(c)
          BY <4>2
        <5> HIDE DEF c
        <5>2. page[p].zone = c
          BY <3>2, <4>2, <5>1
        <5> QED
          BY <4>2, <5>2 DEF c
      <4>3. CASE p # 0 /\ ~ \E z \in 0 .. zones_size - 1 : p \in ZonePages(z)
        <5>1. page[p].zone \notin 0 .. zones_size - 1
          BY <3>2, <4>3
        <5>2. page[p].zone = NULL
          BY <2>3, <3>2, <3>3, <5>1
        <5> QED
          BY <4>3, <5>2
      <4> QED
        BY <4>1, <4>2, <4>3
    <3>6. p \in bits_map <=> p <= idx \/ page[p].zone = NULL
      <4>1. p \in 0 .. MapLen(pages_size) - 1
        BY <2>3, <3>1 DEF Pages
      <4>2. p \in bits_map <=> p \notin Pages \/ p < idx + 1 \/ p = 0 \/ page[p].zone = NULL
        BY <2>1, <4>1 DEF Marked
      <4> QED
        BY <2>2, <3>1, <3>4, <4>2
    <3> QED
      BY <3>2, <3>4, <3>5, <3>6
  <2>6. idx \in DOMAIN page /\ \A p \in 0 .. idx : page[p].zone # NULL
    <3>1. \A p \in 0 .. idx : p = 0 \/ p \in 1 .. idx
      BY <2>2
    <3>2. idx = 0 \/ idx \in 1 .. idx
      BY <2>2
    <3> QED
      BY <2>2, <2>3, <3>1, <3>2 DEF NULL
  <2>7. ASSUME NEW z \in 0 .. zones_size - 1, NEW used,
               used = Cardinality({p \in 0 .. idx : page[p].zone = z})
        PROVE  /\ zones[z].using = used /\ zones[z].link = used
               /\ zones[z].free = (Cardinality(ZonePages(z)) - used) % CountMod
    <3>1. 0 .. Taken - 1 = 0 .. idx
      BY <2>1, <2>2
    <3>2. Used(z, Taken) = used
      BY <2>7, <3>1 DEF Used
    <3> QED
      BY <2>1, <3>2 DEF Counted
  <2>8. \/ zones[ZONE_UNMAPED_INDEX].start = Addr4G
        \/ /\ ZONE_UNMAPED_INDEX = 0
           /\ \A z \in 0 .. zones_size - 1 : zones[z].start # Addr4G
    BY <2>1 DEF Indexed
  <2> QED
    BY <2>4, <2>5, <2>6, <2>7, <2>8 DEF AllocatorReady
<1> QED
  BY <1>1, Invariance, PTL
=============================================================================
