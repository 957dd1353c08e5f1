--------------------------- MODULE PageAllocProofs ---------------------------
(***************************************************************************)
(* Theorems about PageAlloc, for every layout of zones, every width of the *)
(* bitmap's words and every sequence of calls.                             *)
(***************************************************************************)
EXTENDS PageAlloc, TLAPS, FiniteSetTheorems, FoldLemmas

-----------------------------------------------------------------------------
(* Arithmetic of words and bits *)

LEMMA ModSmall == \A n \in Nat, w \in Nat \ {0} : n < w => n % w = n
  OBVIOUS

LEMMA ModRange == \A n \in Int, w \in Nat \ {0} : n % w \in 0 .. w - 1
  OBVIOUS

LEMMA DivMod ==
  \A n \in Nat, w \in Nat \ {0} :
    /\ n \div w \in Nat /\ n = (n \div w) * w + (n % w)
    /\ n % w \in Nat /\ n % w < w
  OBVIOUS

LEMMA DivBig == \A n \in Nat, w \in Nat \ {0} : n >= w => (n \div w) * w >= w
<1> SUFFICES ASSUME NEW n \in Nat, NEW w \in Nat \ {0}, n >= w
             PROVE  (n \div w) * w >= w
  OBVIOUS
<1>1. n \div w \in Nat /\ n \div w >= 1
  OBVIOUS
<1>2. \A d \in Nat : d >= 1 => d * w >= w
  OBVIOUS
<1> QED
  BY <1>1, <1>2

LEMMA DivMonotone ==
  \A m, n \in Nat, w \in Nat \ {0} : m <= n => m \div w <= n \div w
  OBVIOUS

LEMMA MulMonotone ==
  \A m, n \in Nat, w \in Nat : m <= n => m * w <= n * w
  OBVIOUS

\* A mask for 1 to 64 pages has as many ones as pages are requested.
LEMMA MaskFits ==
  ASSUME NEW n \in Nat, n <= WordBits
  PROVE  MaskLen(n) = n
  BY SizesAssumption, ModSmall DEF MaskLen

-----------------------------------------------------------------------------
(* Layout *)

\* page->zone_struct is one of the zones or NULL; page 0 has zone 0.
LEMMA ZoneStructType ==
  /\ zone_struct \in [Pages -> ZoneIds \cup {NULL}]
  /\ 0 \in Pages /\ zone_struct[0] = 0 /\ zone_struct[0] # NULL
  /\ 0 <= LastKernel
<1>1. 0 \in Pages /\ 0 \in ZoneIds /\ 0 <= LastKernel
  BY SizesAssumption, KernelAssumption DEF Pages, ZoneIds
<1>2. ASSUME NEW p \in Pages, \E i \in ZoneIds : p \in ZonePages(i)
      PROVE  (CHOOSE i \in ZoneIds : p \in ZonePages(i)) \in ZoneIds
  BY <1>2
<1> QED
  BY <1>1, <1>2 DEF zone_struct, NULL

LEMMA ZoneStructOf ==
  ASSUME NEW p \in Pages, NEW i \in ZoneIds, p \in ZonePages(i)
  PROVE  zone_struct[p] \in ZoneIds
<1>1. (CHOOSE j \in ZoneIds : p \in ZonePages(j)) \in ZoneIds
  OBVIOUS
<1> QED
  BY <1>1, ZoneStructType DEF zone_struct

LEMMA ZoneOfPage ==
  ASSUME NEW p \in Pages, p # 0, zone_struct[p] # NULL
  PROVE  p \in ZonePages(zone_struct[p])
<1>1. \E i \in ZoneIds : p \in ZonePages(i)
  BY DEF zone_struct
<1>2. zone_struct[p] = CHOOSE i \in ZoneIds : p \in ZonePages(i)
  BY <1>1 DEF zone_struct
<1> QED
  BY <1>1, <1>2

\* Only indexes of zones_struct are scanned.
LEMMA ZoneRangeIsZones ==
  ASSUME NEW select \in Selectors
  PROVE  ZoneRange(select) \subseteq ZoneIds
<1>1. ZONE_UNMAPED_INDEX \in ZoneIds
  <2>1. CASE \E i \in ZoneIds : Zones[i].start = Page4G
    BY <2>1 DEF ZONE_UNMAPED_INDEX
  <2>2. CASE ~ \E i \in ZoneIds : Zones[i].start = Page4G
    BY <2>2, SizesAssumption DEF ZONE_UNMAPED_INDEX, ZoneIds
  <2> QED
    BY <2>1, <2>2
<1> QED
  BY <1>1, SizesAssumption
  DEF ZoneRange, Selectors, ZoneIds, ZONE_DMA_INDEX, ZONE_NORMAL_INDEX

LEMMA ZoneBounds ==
  ASSUME NEW i \in ZoneIds
  PROVE  /\ Zones[i].start \in Nat \ {0}
         /\ Zones[i].end \in Nat
         /\ Zones[i].start < Zones[i].end
         /\ Zones[i].end <= NPages
  BY ZonesAssumption, SizesAssumption DEF Pages

\* Where a scan finds a run: the slot lies in a zone of the range and all
\* the bits it probes are clear.
LEMMA FirstFitFound ==
  ASSUME NEW select \in Selectors, NEW n \in Nat, NEW s \in FirstFit(select, n)
  PROVE  /\ s[1] \in ZoneIds
         /\ s[2] \in Scan(s[1])
         /\ s[2] \in Fits(s[1], n)
         /\ s[2] \in Nat
         /\ page_free_cnt[s[1]] >= n
<1>1. PICK i \in Least(Candidates(select, n)) : s \in {i} \X Least(Fits(i, n))
  BY DEF FirstFit
<1>2. s[1] = i /\ s[2] \in Fits(i, n)
  BY <1>1 DEF Least
<1>3. i \in ZoneIds /\ page_free_cnt[i] >= n
  BY <1>1, ZoneRangeIsZones DEF Least, Candidates
<1>4. s[2] \in Scan(i)
  BY <1>2 DEF Fits
<1>5. s[2] \in Nat
  <2>1. Zones[i].start \in Nat
    BY <1>3, ZoneBounds
  <2>2. Word(Zones[i].start) * WordBits \in Nat
    BY <2>1, SizesAssumption DEF Word
  <2>3. s[2] \in Int /\ s[2] >= Word(Zones[i].start) * WordBits
    BY <1>4, <2>2 DEF Scan
  <2> QED
    BY <2>2, <2>3
<1> QED
  BY <1>2, <1>3, <1>4, <1>5

LEMMA OffsetRange ==
  ASSUME NEW i \in ZoneIds, NEW q \in Nat
  PROVE  Offset(i, q) \in 0 .. WordBits - 1
<1>1. Zones[i].start % WordBits \in 0 .. WordBits - 1
  <2>1. Zones[i].start \in Int /\ WordBits \in Nat \ {0}
    BY ZoneBounds, SizesAssumption
  <2> QED
    BY <2>1, ModRange
<1>2. 0 \in 0 .. WordBits - 1
  BY SizesAssumption
<1> QED
  BY <1>1, <1>2 DEF Offset

LEMMA GrantRange ==
  ASSUME NEW select \in Selectors, NEW n \in Nat, NEW s \in FirstFit(select, n)
  PROVE  FirstPage(s[1], s[2]) \in Int
  BY FirstFitFound, OffsetRange, SizesAssumption DEF FirstPage

\* A slot is a bit of the map or of the word after it.
LEMMA ScanInReadBits ==
  ASSUME NEW i \in ZoneIds, NEW q \in Scan(i)
  PROVE  q \in ReadBits
<1>1. Word(Zones[i].start) \in Nat /\ Word(Zones[i].end) \in Nat
  BY ZoneBounds, SizesAssumption DEF Word
<1>2. q \in Word(Zones[i].start) * WordBits .. (Word(Zones[i].end) + 1) * WordBits - 1
  BY DEF Scan
<1>3. Word(Zones[i].end) <= NPages \div WordBits
  BY ZoneBounds, SizesAssumption, DivMonotone DEF Word
<1>4. NPages \div WordBits \in Nat
  BY SizesAssumption
<1>5. (Word(Zones[i].end) + 1) * WordBits <= (NPages \div WordBits + 2) * WordBits
  BY <1>1, <1>3, <1>4, MulMonotone, SizesAssumption
<1>6. Word(Zones[i].start) * WordBits \in Nat
  BY <1>1, SizesAssumption
<1> QED
  BY <1>1, <1>2, <1>4, <1>5, <1>6, SizesAssumption DEF ReadBits

\* The bitmap has a bit for every page, and the scan may read beyond it.
LEMMA BitsOfPages ==
  /\ Pages \subseteq ReadBits
  /\ \A b \in Int : 0 <= b /\ b < MapLen => b \in ReadBits
<1>1. /\ (NPages \div WordBits) * WordBits \in Nat
      /\ NPages < (NPages \div WordBits) * WordBits + WordBits
  BY SizesAssumption
<1>2. /\ ((NPages + WordBits - 1) \div WordBits) * WordBits \in Nat
      /\ ((NPages + WordBits - 1) \div WordBits) * WordBits <= NPages + WordBits - 1
  BY SizesAssumption
<1>3. (NPages \div WordBits + 2) * WordBits
        = (NPages \div WordBits) * WordBits + 2 * WordBits
  BY SizesAssumption
<1> QED
  BY <1>1, <1>2, <1>3, SizesAssumption DEF Pages, ReadBits, MapLen

LEMMA CountInterval ==
  ASSUME NEW a \in Int, NEW b \in Int, a <= b + 1
  PROVE  IsFiniteSet(a .. b) /\ Cardinality(a .. b) = b - a + 1
<1>1. /\ IsFiniteSet(a .. b)
      /\ Cardinality(a .. b) = IF a > b THEN 0 ELSE b - a + 1
  BY FS_Interval
<1> QED
  BY <1>1

LEMMA CountPages ==
  ASSUME NEW S \in SUBSET Pages
  PROVE  IsFiniteSet(S) /\ Cardinality(S) \in Nat /\ Cardinality(S) <= NPages
<1>1. IsFiniteSet(Pages) /\ Cardinality(Pages) = NPages
  BY SizesAssumption, FS_Interval DEF Pages
<1> QED
  BY <1>1, FS_Subset, FS_CardinalityType

-----------------------------------------------------------------------------
(* page_init *)

\* What the counters and the marks need from each other: page 0 is in use
\* from the start, so the stray bit 0 that page_init sets for a page without
\* a zone changes nothing.
IInv == TypeOK /\ InUseMarked /\ attr[0] # "none"

\* page_init marks the pages it is called on and no others, in the bitmap and
\* in attr alike.
LEMMA PageInitMarks ==
  ASSUME IInv, NEW P \in SUBSET Pages, NEW f \in Flags, page_init(P, f)
  PROVE  /\ attr' \in [Pages -> Attrs]
         /\ \A p \in P : attr'[p] # "none"
         /\ \A p \in Pages \ P : attr'[p] = attr[p]
         /\ attr'[0] # "none"
         /\ bits_map' \subseteq ReadBits
         /\ InUseMarked'
<1> USE DEF IInv
<1>1. \A a \in Attrs : Or(a, f) \in Attrs \ {"none"}
  BY DEF Or, Attrs, Flags
<1>2. attr \in [Pages -> Attrs] /\ bits_map \subseteq ReadBits
  BY DEF TypeOK
<1>3. /\ attr' \in [Pages -> Attrs]
      /\ \A p \in P : attr'[p] # "none"
      /\ \A p \in Pages \ P : attr'[p] = attr[p]
  BY <1>1, <1>2 DEF page_init
<1>4. attr'[0] # "none"
  BY <1>3, ZoneStructType
<1>5. \A p \in Pages : BitOf(p) \in Pages
  BY ZoneStructType DEF BitOf
<1> DEFINE Set == {p \in P : attr[p] = "none" \/ ~ Counts(p, f)}
<1>6. bits_map' = bits_map \cup {BitOf(p) : p \in Set}
  BY DEF page_init
<1>7. bits_map' \subseteq ReadBits
  BY <1>2, <1>5, <1>6, BitsOfPages
<1>8. ASSUME NEW p \in Pages
      PROVE  p \in bits_map' <=> zone_struct[p] = NULL \/ attr'[p] # "none"
  <2>1. p \in bits_map <=> zone_struct[p] = NULL \/ attr[p] # "none"
    BY DEF InUseMarked
  <2>2. CASE zone_struct[p] = NULL
    BY <2>1, <2>2, <1>6
  <2>3. CASE zone_struct[p] # NULL /\ p \in P
    <3>1. BitOf(p) = p
      BY <2>3 DEF BitOf
    <3>2. p \in bits_map'
      BY <2>1, <2>3, <3>1, <1>6
    <3> QED
      BY <3>2, <2>3, <1>3
  <2>4. CASE zone_struct[p] # NULL /\ p \notin P
    <3>1. \A r \in Set : BitOf(r) = p => p = 0
      BY <2>4 DEF BitOf
    <3>2. 0 \in bits_map
      BY ZoneStructType DEF InUseMarked
    <3>3. p \in bits_map' <=> p \in bits_map
      BY <3>1, <3>2, <1>6
    <3> QED
      BY <3>3, <2>1, <2>4, <1>3
  <2> QED
    BY <2>2, <2>3, <2>4
<1>9. InUseMarked'
  BY <1>8 DEF InUseMarked
<1> QED
  BY <1>3, <1>4, <1>7, <1>9

LEMMA PageInitCounts ==
  ASSUME IInv, NEW P \in SUBSET Pages, NEW f \in Flags, page_init(P, f)
  PROVE  /\ ref_cnt' \in [Pages -> Nat]
         /\ page_using_cnt' \in [ZoneIds -> 0 .. CountMod - 1]
         /\ page_free_cnt' \in [ZoneIds -> 0 .. CountMod - 1]
         /\ tot_pages_link' \in [ZoneIds -> Nat]
<1> DEFINE fresh(z)   == Cardinality({p \in P : zone_struct[p] = z /\ attr[p] = "none"})
           counted(z) == Cardinality({p \in P : zone_struct[p] = z /\ Counts(p, f)})
<1>1. \A z \in ZoneIds : fresh(z) \in Nat /\ counted(z) \in Nat
  BY CountPages
<1>2. /\ ref_cnt \in [Pages -> Nat]
      /\ page_using_cnt \in [ZoneIds -> 0 .. CountMod - 1]
      /\ page_free_cnt \in [ZoneIds -> 0 .. CountMod - 1]
      /\ tot_pages_link \in [ZoneIds -> Nat]
  BY DEF IInv, TypeOK
<1>3. /\ page_using_cnt' = [z \in ZoneIds |-> (page_using_cnt[z] + fresh(z)) % CountMod]
      /\ page_free_cnt' = [z \in ZoneIds |-> (page_free_cnt[z] - fresh(z)) % CountMod]
      /\ tot_pages_link' = [z \in ZoneIds |-> tot_pages_link[z] + counted(z)]
  BY DEF page_init, FreshIn, LinkedIn
<1> HIDE DEF fresh, counted
<1>4. ASSUME NEW z \in ZoneIds
      PROVE  /\ (page_using_cnt[z] + fresh(z)) % CountMod \in 0 .. CountMod - 1
             /\ (page_free_cnt[z] - fresh(z)) % CountMod \in 0 .. CountMod - 1
             /\ tot_pages_link[z] + counted(z) \in Nat
  <2>1. /\ page_using_cnt[z] + fresh(z) \in Int
        /\ page_free_cnt[z] - fresh(z) \in Int
        /\ tot_pages_link[z] + counted(z) \in Nat
    BY <1>1, <1>2
  <2>2. CountMod \in Nat \ {0}
    BY SizesAssumption
  <2> QED
    BY <2>1, <2>2, ModRange
<1>5. ref_cnt' \in [Pages -> Nat]
  BY <1>2 DEF page_init
<1> QED
  BY <1>3, <1>4, <1>5

-----------------------------------------------------------------------------
(* A successful call *)

\* The grant a successful call records, and what it does to the tables.
LEMMA FoundFacts ==
  ASSUME NEW select \in Selectors, NEW n \in Requests, NEW f \in Flags,
         AllocFound(select, n, f)
  PROVE  /\ grant' \in [zone : ZoneIds \cup {NULL}, slot : ReadBits, first : Int,
                        number : Nat, select : Selectors]
         /\ grant'.zone \in ZoneIds
         /\ grant'.slot \in Nat
         /\ grant'.slot \in Scan(grant'.zone)
         /\ Probe(grant'.slot, n) \cap bits_map = {}
         /\ grant'.first = FirstPage(grant'.zone, grant'.slot)
         /\ grant'.number = n
         /\ GrantedPages(grant') \subseteq Pages
         /\ page_init(GrantedPages(grant'), f)
         /\ grants' = [p \in Pages |->
              IF p \in GrantedPages(grant') THEN grants[p] + 1 ELSE grants[p]]
<1>0. n \in Nat
  BY SizesAssumption
<1>1. PICK s \in FirstFit(select, n) :
        LET g == [zone |-> s[1], slot |-> s[2], first |-> FirstPage(s[1], s[2]),
                  number |-> n, select |-> select]
        IN /\ \A p \in GrantedPages(g) : ~ Bad(p, f) /\ grants[p] < MaxGrants
           /\ page_init(GrantedPages(g), f)
           /\ grant' = g
           /\ grants' = [p \in Pages |->
                IF p \in GrantedPages(g) THEN grants[p] + 1 ELSE grants[p]]
  BY DEF AllocFound
<1>2. /\ s[1] \in ZoneIds /\ s[2] \in ReadBits /\ s[2] \in Nat
      /\ s[2] \in Scan(s[1]) /\ Probe(s[2], n) \cap bits_map = {}
      /\ FirstPage(s[1], s[2]) \in Int
  BY <1>0, FirstFitFound, GrantRange, ScanInReadBits DEF Fits
<1>3. grant' = [zone |-> s[1], slot |-> s[2], first |-> FirstPage(s[1], s[2]),
                number |-> n, select |-> select]
  BY <1>1
<1>4. \A p \in GrantedPages(grant') : ~ Bad(p, f)
  BY <1>1
<1>5. GrantedPages(grant') \subseteq Pages
  BY <1>4 DEF Bad
<1> QED
  BY <1>0, <1>1, <1>2, <1>3, <1>5

\* A call that faults has gone through page_init for some pages.
LEMMA FaultFacts ==
  ASSUME NEW select \in Selectors, NEW n \in Requests, NEW f \in Flags,
         AllocFault(select, n, f)
  PROVE  \E P \in SUBSET Pages : page_init(P, f)
<1>1. PICK s \in FirstFit(select, n) :
        LET run == FirstPage(s[1], s[2]) .. FirstPage(s[1], s[2]) + n - 1
        IN \E b \in Least({p \in run : Bad(p, f)}) :
             page_init({p \in run \cap Pages : p <= b}, f)
  BY DEF AllocFault
<1> QED
  BY <1>1

\* Either way the pages are of the run at the slot the scan has found.
LEMMA GrantInRun ==
  ASSUME NEW select \in Selectors, NEW n \in Requests, NEW f \in Flags,
         AllocFound(select, n, f)
  PROVE  \E s \in FirstFit(select, n) : \E P \in SUBSET Pages :
           /\ P \subseteq FirstPage(s[1], s[2]) .. FirstPage(s[1], s[2]) + n - 1
           /\ page_init(P, f)
<1>1. PICK s \in FirstFit(select, n) :
        LET g == [zone |-> s[1], slot |-> s[2], first |-> FirstPage(s[1], s[2]),
                  number |-> n, select |-> select]
        IN page_init(GrantedPages(g), f) /\ grant' = g
  BY DEF AllocFound
<1>2. /\ GrantedPages(grant') = FirstPage(s[1], s[2]) .. FirstPage(s[1], s[2]) + n - 1
      /\ page_init(GrantedPages(grant'), f)
  BY <1>1 DEF GrantedPages
<1>3. GrantedPages(grant') \subseteq Pages
  BY FoundFacts
<1> QED
  BY <1>2, <1>3

LEMMA FaultInRun ==
  ASSUME NEW select \in Selectors, NEW n \in Requests, NEW f \in Flags,
         AllocFault(select, n, f)
  PROVE  \E s \in FirstFit(select, n) : \E P \in SUBSET Pages :
           /\ P \subseteq FirstPage(s[1], s[2]) .. FirstPage(s[1], s[2]) + n - 1
           /\ page_init(P, f)
<1>1. PICK s \in FirstFit(select, n) :
        LET run == FirstPage(s[1], s[2]) .. FirstPage(s[1], s[2]) + n - 1
        IN \E b \in Least({p \in run : Bad(p, f)}) :
             page_init({p \in run \cap Pages : p <= b}, f)
  BY DEF AllocFault
<1> DEFINE run == FirstPage(s[1], s[2]) .. FirstPage(s[1], s[2]) + n - 1
<1>2. PICK b \in Least({p \in run : Bad(p, f)}) : page_init({p \in run \cap Pages : p <= b}, f)
  BY <1>1
<1> DEFINE P == {p \in run \cap Pages : p <= b}
<1>3. P \in SUBSET Pages /\ P \subseteq run /\ page_init(P, f)
  BY <1>2
<1> HIDE DEF P
<1> QED
  BY <1>3

\* Where the zone starts at bit 1 of the word the run is the tested run.
LEMMA FreshRun ==
  ASSUME IInv, NEW select \in Selectors, NEW n \in Requests, NEW f \in Flags,
         AllocFound(select, n, f),
         Offset(grant'.zone, grant'.slot) = 1, n <= WordBits
  PROVE  \A p \in GrantedPages(grant') : attr[p] = "none"
<1>1. n \in Nat /\ MaskLen(n) = n
  BY SizesAssumption, MaskFits
<1>2. GrantedPages(grant') = grant'.slot .. grant'.slot + n - 1
  BY <1>1, FoundFacts DEF GrantedPages, FirstPage
<1>3. GrantedPages(grant') \subseteq Probe(grant'.slot, n)
  BY <1>1, <1>2 DEF Probe
<1>4. GrantedPages(grant') \subseteq Pages /\ GrantedPages(grant') \cap bits_map = {}
  BY <1>3, FoundFacts
<1> QED
  BY <1>4 DEF IInv, InUseMarked

-----------------------------------------------------------------------------
(* Type correctness and the agreement of bitmap and attr *)

LEMMA NoGrantType ==
  /\ NoGrant \in [zone : ZoneIds \cup {NULL}, slot : ReadBits, first : Int,
                 number : Nat, select : Selectors]
  /\ GrantedPages(NoGrant) \subseteq Pages
  BY ZoneStructType, BitsOfPages DEF NoGrant, GrantedPages, Selectors

LEMMA InitIInv == Init => IInv
<1> SUFFICES ASSUME Init PROVE IInv
  OBVIOUS
<1>1. bits_map \subseteq ReadBits
  <2>1. PICK s \in Slack :
          bits_map = s \cup NPages .. MapLen - 1 \cup
                     {p \in Pages : p <= LastKernel \/ zone_struct[p] = NULL}
    BY DEF Init
  <2>2. s \subseteq ReadBits
    BY SizesAssumption
  <2>3. NPages .. MapLen - 1 \subseteq ReadBits
    <3>1. MapLen \in Int
      BY SizesAssumption DEF MapLen
    <3> QED
      BY <3>1, BitsOfPages, SizesAssumption
  <2> QED
    BY <2>1, <2>2, <2>3, BitsOfPages
<1>2. attr \in [Pages -> Attrs] /\ attr[0] # "none"
  BY ZoneStructType DEF Init, Attrs
<1>3. ref_cnt \in [Pages -> Nat] /\ grants \in [Pages -> Nat]
  BY DEF Init
<1>4. \A z \in ZoneIds : Reserved(z) \in Nat /\ Reserved(z) <= NPages
  <2>1. 0 .. LastKernel \subseteq Pages
    BY KernelAssumption, SizesAssumption DEF Pages
  <2>2. \A z \in ZoneIds : {p \in 0 .. LastKernel : zone_struct[p] = z} \in SUBSET Pages
    BY <2>1
  <2> QED
    BY <2>2, CountPages DEF Reserved
<1>5. /\ page_using_cnt \in [ZoneIds -> 0 .. CountMod - 1]
      /\ tot_pages_link \in [ZoneIds -> Nat]
  BY <1>4, SizesAssumption DEF Init
<1>6. page_free_cnt \in [ZoneIds -> 0 .. CountMod - 1]
  <2>1. \A z \in ZoneIds : Zones[z].end - Zones[z].start - Reserved(z) \in Int
    BY <1>4, ZoneBounds
  <2>2. CountMod \in Nat \ {0}
    BY SizesAssumption
  <2>3. \A z \in ZoneIds :
          (Zones[z].end - Zones[z].start - Reserved(z)) % CountMod \in 0 .. CountMod - 1
    BY <2>1, <2>2, ModRange
  <2> QED
    BY <2>3 DEF Init
<1>7. /\ grant \in [zone : ZoneIds \cup {NULL}, slot : ReadBits, first : Int,
                    number : Nat, select : Selectors]
      /\ GrantedPages(grant) \subseteq Pages
      /\ crashed \in BOOLEAN
  BY NoGrantType DEF Init
<1>8. InUseMarked
  <2>1. \A p \in Pages : p \in bits_map <=> p <= LastKernel \/ zone_struct[p] = NULL
    <3>1. PICK s \in Slack :
            bits_map = s \cup NPages .. MapLen - 1 \cup
                       {p \in Pages : p <= LastKernel \/ zone_struct[p] = NULL}
      BY DEF Init
    <3>2. \A p \in Pages : p \notin s /\ p \notin NPages .. MapLen - 1
      <4>1. MapLen \in Int /\ MapLen >= NPages
        BY SizesAssumption DEF MapLen
      <4> QED
        BY <4>1, SizesAssumption DEF Pages
    <3> QED
      BY <3>1, <3>2
  <2> QED
    BY <2>1 DEF InUseMarked, Init
<1> QED
  BY <1>1, <1>2, <1>3, <1>5, <1>6, <1>7, <1>8 DEF IInv, TypeOK

LEMMA NextIInv == IInv /\ [Next]_vars => IInv'
<1> SUFFICES ASSUME IInv, [Next]_vars PROVE IInv'
  OBVIOUS
<1>1. CASE UNCHANGED vars
  BY <1>1 DEF vars, tables, IInv, TypeOK, InUseMarked, GrantedPages
<1>2. CASE Next
  <2> SUFFICES ASSUME NEW select \in Selectors, NEW n \in Requests, NEW f \in Flags,
                      alloc_pages(select, n, f)
               PROVE  IInv'
    BY <1>2 DEF Next
  <2>0. n \in Nat
    BY SizesAssumption
  <2>1. CASE AllocFound(select, n, f)
    <3> DEFINE P == GrantedPages(grant')
    <3>1. P \in SUBSET Pages /\ page_init(P, f)
      BY <2>1, FoundFacts
    <3>2. /\ grant' \in [zone : ZoneIds \cup {NULL}, slot : ReadBits, first : Int,
                         number : Nat, select : Selectors]
          /\ grants' \in [Pages -> Nat]
      BY <2>1, FoundFacts DEF IInv, TypeOK
    <3>3. crashed' \in BOOLEAN
      BY <2>1 DEF AllocFound, IInv, TypeOK
    <3> HIDE DEF P
    <3> QED
      BY <3>1, <3>2, <3>3, PageInitMarks, PageInitCounts DEF P, IInv, TypeOK
  <2>2. CASE AllocFault(select, n, f)
    <3>1. PICK P \in SUBSET Pages : page_init(P, f)
      BY <2>2, FaultFacts
    <3>2. UNCHANGED <<grant, grants>> /\ crashed' \in BOOLEAN
      BY <2>2 DEF AllocFault
    <3> QED
      BY <3>1, <3>2, PageInitMarks, PageInitCounts DEF IInv, TypeOK, GrantedPages
  <2>3. CASE AllocNone(select, n, f)
    <3>1. UNCHANGED <<tables, crashed, grants>> /\ grant' = NoGrant
      BY <2>3 DEF AllocNone
    <3> QED
      BY <3>1, NoGrantType DEF tables, IInv, TypeOK, InUseMarked, GrantedPages
  <2> QED
    BY <2>1, <2>2, <2>3 DEF alloc_pages
<1> QED
  BY <1>1, <1>2

LEMMA Invariance == Spec => []IInv
  BY InitIInv, NextIInv, PTL DEF Spec

\* Every table keeps its shape and every run that is handed out lies in
\* pages_struct, in every layout.
THEOREM TypeCorrect == Spec => []TypeOK
<1>1. IInv => TypeOK
  BY DEF IInv
<1> QED
  BY <1>1, Invariance, PTL

\* The bitmap and attr never disagree about which pages are in use: see
\* InUseMarked.
THEOREM MarksAgree == Spec => []InUseMarked
<1>1. IInv => InUseMarked
  BY DEF IInv
<1> QED
  BY <1>1, Invariance, PTL

-----------------------------------------------------------------------------
(* Pages that are handed out once *)

\* Runs found where the zone starts at bit 1 of the word are unused pages:
\* see FreshFromStartWord.
THEOREM FreshRuns == Spec => FreshFromStartWord
<1> DEFINE Fresh ==
      /\ grants' # grants
      /\ Offset(grant'.zone, grant'.slot) = 1
      /\ grant'.number <= WordBits
      => \A p \in GrantedPages(grant') : attr[p] = "none"
<1>1. ASSUME IInv, [Next]_vars PROVE [Fresh]_vars
  <2> SUFFICES ASSUME Next, grants' # grants, Offset(grant'.zone, grant'.slot) = 1,
                      grant'.number <= WordBits
               PROVE  \A p \in GrantedPages(grant') : attr[p] = "none"
    BY <1>1
  <2>1. PICK select \in Selectors, n \in Requests, f \in Flags : alloc_pages(select, n, f)
    BY DEF Next
  <2>2. AllocFound(select, n, f)
    BY <2>1 DEF alloc_pages, AllocFault, AllocNone
  <2> QED
    BY <1>1, <2>2, FoundFacts, FreshRun
<1> QED
  BY <1>1, Invariance, PTL DEF Spec, FreshFromStartWord

\* A run that reaches below the last page of the first word was found in
\* the first word of the zone that starts at page 1.
LEMMA LowSlot ==
  ASSUME LowZone, NEW i \in ZoneIds, NEW q \in Nat, q \in Scan(i),
         FirstPage(i, q) < WordBits - 1
  PROVE  Offset(i, q) = 1
<1>1. /\ Zones[i].start \in Nat /\ WordBits \in Nat \ {0, 1}
      /\ Word(Zones[i].start) \in Nat /\ Word(q) \in Nat
      /\ Offset(i, q) \in Nat
  BY ZoneBounds, SizesAssumption, OffsetRange DEF Word
<1>2. q >= Word(Zones[i].start) * WordBits
  BY <1>1 DEF Scan
<1>3. q < WordBits
  <2>1. CASE Offset(i, q) = 0
    BY <1>1, <2>1 DEF FirstPage
  <2>2. CASE Offset(i, q) # 0
    BY <1>1, <2>2 DEF FirstPage
  <2> QED
    BY <2>1, <2>2
<1>4. Zones[i].start < WordBits
  <2> SUFFICES ASSUME Zones[i].start >= WordBits PROVE FALSE
    BY <1>1
  <2>1. Word(Zones[i].start) * WordBits >= WordBits
    BY <1>1, DivBig DEF Word
  <2>2. Word(Zones[i].start) * WordBits \in Nat
    BY <1>1
  <2> QED
    BY <2>1, <2>2, <1>1, <1>2, <1>3
<1>5. Zones[i].start = 1
  BY <1>4 DEF LowZone
<1>6. Word(q) = 0 /\ Word(Zones[i].start) = 0
  BY <1>1, <1>3, <1>4 DEF Word
<1>7. Zones[i].start % WordBits = 1
  BY <1>1, <1>5, ModSmall
<1> QED
  BY <1>6, <1>7 DEF Offset

\* UniqueLow with what makes it inductive: a low page that has been handed
\* out, and a page of the kernel, carries a flag.
LowInv ==
  LowZone /\ RequestsFit =>
    /\ \A p \in Pages : p <= LastKernel => attr[p] # "none"
    /\ \A p \in Pages : p < WordBits - 1 =>
         /\ grants[p] <= (IF p <= LastKernel THEN 0 ELSE 1)
         /\ attr[p] = "none" => grants[p] = 0

LEMMA NextLowInv == IInv /\ LowInv /\ [Next]_vars => LowInv'
<1> SUFFICES ASSUME IInv, LowInv, [Next]_vars, LowZone, RequestsFit
             PROVE  /\ \A p \in Pages : p <= LastKernel => attr'[p] # "none"
                    /\ \A p \in Pages : p < WordBits - 1 =>
                         /\ grants'[p] <= (IF p <= LastKernel THEN 0 ELSE 1)
                         /\ attr'[p] = "none" => grants'[p] = 0
  BY DEF LowInv
<1>1. CASE UNCHANGED vars
  BY <1>1 DEF vars, tables, LowInv
<1>2. CASE Next
  <2>0. PICK select \in Selectors, n \in Requests, f \in Flags : alloc_pages(select, n, f)
    BY <1>2 DEF Next
  <2>1. CASE AllocFound(select, n, f)
    <3> DEFINE P == GrantedPages(grant')
    <3>1. /\ P \in SUBSET Pages
          /\ page_init(P, f)
          /\ grants' = [p \in Pages |-> IF p \in P THEN grants[p] + 1 ELSE grants[p]]
      BY <2>1, FoundFacts
    <3>2. /\ \A p \in P : attr'[p] # "none"
          /\ \A p \in Pages \ P : attr'[p] = attr[p]
      BY <3>1, PageInitMarks
    <3>3. ASSUME NEW p \in P, p < WordBits - 1
          PROVE  attr[p] = "none"
      <4>1. n \in Nat /\ n <= WordBits
        BY SizesAssumption DEF RequestsFit
      <4>2. /\ grant'.zone \in ZoneIds /\ grant'.slot \in Nat
            /\ grant'.slot \in Scan(grant'.zone)
            /\ grant'.first = FirstPage(grant'.zone, grant'.slot)
            /\ grant'.first \in Int
        BY <2>1, FoundFacts
      <4>3. grant'.first <= p
        BY <3>3, <4>2, <4>1, <2>1, FoundFacts DEF GrantedPages
      <4>4. Offset(grant'.zone, grant'.slot) = 1
        BY <3>1, <3>3, <4>2, <4>3, LowSlot, SizesAssumption DEF Pages
      <4> QED
        BY <4>1, <4>4, <2>1, FreshRun
    <3> HIDE DEF P
    <3>4. \A p \in P : p < WordBits - 1 => grants[p] = 0 /\ ~ (p <= LastKernel)
      BY <3>1, <3>3 DEF LowInv
    <3>5. \A p \in Pages : p <= LastKernel => attr'[p] # "none"
      BY <3>2 DEF LowInv
    <3>6. ASSUME NEW p \in Pages, p < WordBits - 1
          PROVE  /\ grants'[p] <= (IF p <= LastKernel THEN 0 ELSE 1)
                 /\ attr'[p] = "none" => grants'[p] = 0
      <4>1. CASE p \in P
        BY <4>1, <3>1, <3>2, <3>4, <3>6
      <4>2. CASE p \notin P
        BY <4>2, <3>1, <3>2, <3>6 DEF LowInv
      <4> QED
        BY <4>1, <4>2
    <3> QED
      BY <3>5, <3>6
  <2>2. CASE AllocFault(select, n, f)
    <3>1. PICK P \in SUBSET Pages : page_init(P, f)
      BY <2>2, FaultFacts
    <3>2. /\ \A p \in P : attr'[p] # "none"
          /\ \A p \in Pages \ P : attr'[p] = attr[p]
      BY <3>1, PageInitMarks
    <3>3. grants' = grants
      BY <2>2 DEF AllocFault
    <3> QED
      BY <3>2, <3>3 DEF LowInv
  <2>3. CASE AllocNone(select, n, f)
    BY <2>3 DEF AllocNone, tables, LowInv
  <2> QED
    BY <2>0, <2>1, <2>2, <2>3 DEF alloc_pages
<1> QED
  BY <1>1, <1>2

\* On a machine whose RAM has no hole below 128MB, the pages below the last
\* page of the first word are handed out at most once and the kernel's own
\* pages never: see UniqueLow.
THEOREM LowPagesOnce == Spec => []UniqueLow
<1>1. Init => LowInv
  <2> SUFFICES ASSUME Init PROVE LowInv
    OBVIOUS
  <2>1. /\ \A p \in Pages : p <= LastKernel => attr[p] = "private"
        /\ \A p \in Pages : grants[p] = 0
    BY DEF Init
  <2> QED
    BY <2>1 DEF LowInv
<1>2. LowInv => UniqueLow
  BY DEF LowInv, UniqueLow
<1> QED
  BY <1>1, <1>2, NextLowInv, Invariance, PTL DEF Spec

-----------------------------------------------------------------------------
(* Counters *)

Congruent(x, y, m) == \E k \in Int : x = y + k * m

LEMMA ModUnique ==
  \A x, y \in Int, m \in Nat \ {0} : Congruent(x, y, m) => x % m = y % m
<1> SUFFICES ASSUME NEW x \in Int, NEW y \in Int, NEW m \in Nat \ {0},
                    Congruent(x, y, m)
             PROVE  x % m = y % m
  OBVIOUS
<1>0. PICK k \in Int : x = y + k * m
  BY DEF Congruent
<1>1. PICK a \in Int, r \in 0 .. m - 1 : x = a * m + r /\ x % m = r
  <2>1. x = (x \div m) * m + (x % m) /\ x \div m \in Int /\ x % m \in 0 .. m - 1
    OBVIOUS
  <2> QED
    BY <2>1
<1>2. PICK b \in Int, s \in 0 .. m - 1 : y = b * m + s /\ y % m = s
  <2>1. y = (y \div m) * m + (y % m) /\ y \div m \in Int /\ y % m \in 0 .. m - 1
    OBVIOUS
  <2> QED
    BY <2>1
<1> DEFINE d == a - b - k
<1>3. d \in Int /\ d * m = s - r
  <2>1. d * m = a * m - b * m - k * m
    OBVIOUS
  <2> QED
    BY <2>1, <1>0, <1>1, <1>2
<1>4. \A e \in Int : e >= 1 => e * m >= m
  OBVIOUS
<1>5. \A e \in Int : e <= -1 => e * m <= -m
  OBVIOUS
<1> HIDE DEF d
<1>6. d = 0
  BY <1>1, <1>2, <1>3, <1>4, <1>5
<1> QED
  BY <1>1, <1>2, <1>3, <1>6

LEMMA ModSub ==
  ASSUME NEW x \in Int, NEW y \in Int, NEW m \in Nat \ {0}
  PROVE  ((x % m) - y) % m = (x - y) % m
<1>1. PICK u \in Int : u = (x % m) - y
  <2>1. (x % m) - y \in Int
    OBVIOUS
  <2> QED
    BY <2>1
<1>2. PICK k \in Int : x = k * m + (x % m)
  <2>1. x = (x \div m) * m + (x % m) /\ x \div m \in Int
    OBVIOUS
  <2> QED
    BY <2>1
<1>3. PICK v \in Int : v = x - y
  OBVIOUS
<1>4. Congruent(v, u, m)
  <2>1. v = u + k * m
    BY <1>1, <1>2, <1>3
  <2> QED
    BY <2>1 DEF Congruent
<1>5. v % m = u % m
  BY <1>4, ModUnique
<1> QED
  BY <1>1, <1>3, <1>5

\* page_init moves the pages it finds without a flag from one counter of
\* their zone to the other.
LEMMA PageInitMoves ==
  ASSUME IInv, CountsMatch, NEW P \in SUBSET Pages, NEW f \in Flags, page_init(P, f)
  PROVE  CountsMatch'
<1> DEFINE Fresh(z) == {p \in P : zone_struct[p] = z /\ attr[p] = "none"}
<1> SUFFICES ASSUME NEW z \in ZoneIds
             PROVE  /\ page_using_cnt'[z] = Cardinality(InUse(z)')
                    /\ page_free_cnt'[z] = (Length(z) - Cardinality(InUse(z)')) % CountMod
  BY DEF CountsMatch, Length
<1>1. /\ InUse(z)' = InUse(z) \cup Fresh(z)
      /\ InUse(z) \cap Fresh(z) = {}
      /\ InUse(z)' \in SUBSET Pages /\ InUse(z) \in SUBSET Pages /\ Fresh(z) \in SUBSET Pages
  BY PageInitMarks DEF InUse
<1>2. /\ Cardinality(InUse(z)') = Cardinality(InUse(z)) + Cardinality(Fresh(z))
      /\ Cardinality(InUse(z)') \in 0 .. NPages
      /\ Cardinality(InUse(z)) \in Nat /\ Cardinality(Fresh(z)) \in Nat
  <2>1. /\ IsFiniteSet(InUse(z)) /\ IsFiniteSet(Fresh(z))
        /\ Cardinality(InUse(z)) \in Nat /\ Cardinality(Fresh(z)) \in Nat
    BY <1>1, CountPages
  <2>2. /\ Cardinality(InUse(z)') \in Nat
        /\ Cardinality(InUse(z)') <= NPages
    BY <1>1, CountPages
  <2>3. Cardinality(InUse(z) \cap Fresh(z)) = 0
    BY <1>1, FS_EmptySet
  <2>4. Cardinality(InUse(z) \cup Fresh(z))
          = Cardinality(InUse(z)) + Cardinality(Fresh(z)) - Cardinality(InUse(z) \cap Fresh(z))
    BY <2>1, FS_Union
  <2> QED
    BY <1>1, <2>1, <2>2, <2>3, <2>4, SizesAssumption
<1>3. /\ page_using_cnt'[z] = (page_using_cnt[z] + Cardinality(Fresh(z))) % CountMod
      /\ page_free_cnt'[z] = (page_free_cnt[z] - Cardinality(Fresh(z))) % CountMod
  BY DEF page_init, FreshIn
<1>4. /\ page_using_cnt[z] = Cardinality(InUse(z))
      /\ page_free_cnt[z] = (Length(z) - Cardinality(InUse(z))) % CountMod
  BY DEF CountsMatch
<1> HIDE DEF Fresh
<1>5. page_using_cnt'[z] = Cardinality(InUse(z)')
  <2>1. /\ page_using_cnt'[z] = Cardinality(InUse(z)') % CountMod
        /\ Cardinality(InUse(z)') \in Nat /\ Cardinality(InUse(z)') < CountMod
        /\ CountMod \in Nat \ {0}
    BY <1>2, <1>3, <1>4, SizesAssumption
  <2> QED
    BY <2>1, ModSmall
<1>6. page_free_cnt'[z] = (Length(z) - Cardinality(InUse(z)')) % CountMod
  <2>1. Length(z) \in Int /\ CountMod \in Nat \ {0}
    BY ZoneBounds, SizesAssumption DEF Length
  <2> DEFINE x == Length(z) - Cardinality(InUse(z))
             y == Cardinality(Fresh(z))
  <2>2. x \in Int /\ y \in Int /\ Length(z) - Cardinality(InUse(z)') = x - y
    BY <2>1, <1>2
  <2>3. page_free_cnt'[z] = ((x % CountMod) - y) % CountMod
    BY <1>3, <1>4
  <2>4. ((x % CountMod) - y) % CountMod = (x - y) % CountMod
    <3> HIDE DEF x, y
    <3> QED
      BY <2>1, <2>2, ModSub
  <2> HIDE DEF x, y
  <2> QED
    BY <2>2, <2>3, <2>4
<1> QED
  BY <1>5, <1>6

\* The counters of a zone agree with its pages in every reachable state: see
\* CountsMatch.
THEOREM CountsAgree == Spec => []CountsMatch
<1>1. Init => CountsMatch
  <2> SUFFICES ASSUME Init, NEW z \in ZoneIds
               PROVE  /\ page_using_cnt[z] = Cardinality(InUse(z))
                      /\ page_free_cnt[z] = (Length(z) - Cardinality(InUse(z))) % CountMod
    BY DEF CountsMatch
  <2>1. InUse(z) = {p \in 0 .. LastKernel : zone_struct[p] = z}
    BY KernelAssumption, SizesAssumption DEF Init, InUse, Pages
  <2> QED
    BY <2>1 DEF Init, Reserved, Length
<1>2. IInv /\ CountsMatch /\ [Next]_vars => CountsMatch'
  <2> SUFFICES ASSUME IInv, CountsMatch, [Next]_vars PROVE CountsMatch'
    OBVIOUS
  <2>1. CASE UNCHANGED tables
    BY <2>1 DEF tables, CountsMatch, InUse, Length
  <2>2. CASE Next /\ ~ UNCHANGED tables
    <3>1. PICK select \in Selectors, n \in Requests, f \in Flags : alloc_pages(select, n, f)
      BY <2>2 DEF Next
    <3>2. \E P \in SUBSET Pages : page_init(P, f)
      BY <3>1, <2>2, FoundFacts, FaultFacts DEF alloc_pages, AllocNone
    <3> QED
      BY <3>2, PageInitMoves
  <2> QED
    BY <2>1, <2>2 DEF vars
<1> QED
  BY <1>1, <1>2, Invariance, PTL DEF Spec

-----------------------------------------------------------------------------
(* The counter of free pages *)

\* A scan hands out pages from the one before its zone on.
LEMMA RunStartsAtZone ==
  ASSUME NEW i \in ZoneIds, NEW q \in Nat, q \in Scan(i)
  PROVE  FirstPage(i, q) \in Int /\ FirstPage(i, q) >= Zones[i].start - 1
<1> DEFINE st == Zones[i].start
<1>1. st \in Nat /\ WordBits \in Nat \ {0}
  BY ZoneBounds, SizesAssumption
<1>2. /\ Word(st) \in Nat /\ st = Word(st) * WordBits + (st % WordBits)
      /\ st % WordBits \in Nat /\ st % WordBits < WordBits
      /\ Word(q) \in Nat /\ q = Word(q) * WordBits + (q % WordBits)
      /\ q % WordBits \in Nat /\ q % WordBits < WordBits
  BY <1>1, DivMod DEF Word
<1>3. /\ q >= Word(st) * WordBits /\ q % WordBits >= Offset(i, q)
      /\ Offset(i, q) \in Nat
  BY <1>1, <1>2, OffsetRange DEF Scan
<1>4. CASE Word(q) = Word(st)
  <2>1. Offset(i, q) = st % WordBits
    BY <1>4 DEF Offset
  <2>2. q >= st
    <3> HIDE DEF st
    <3> QED
      BY <1>1, <1>2, <1>3, <1>4, <2>1
  <2> QED
    BY <1>1, <1>3, <2>2 DEF FirstPage
<1>5. CASE Word(q) # Word(st)
  <2> HIDE DEF st
  <2>1. Word(st) * WordBits \in Nat /\ Word(q) * WordBits \in Nat
    BY <1>1, <1>2
  <2>2. Word(st) + 1 <= Word(q)
    <3>1. Word(q) + 1 <= Word(st) => (Word(q) + 1) * WordBits <= Word(st) * WordBits
      BY <1>1, <1>2, MulMonotone
    <3>2. (Word(q) + 1) * WordBits = Word(q) * WordBits + WordBits
      BY <1>1, <1>2
    <3> QED
      BY <1>1, <1>2, <1>3, <1>5, <2>1, <3>1, <3>2
  <2>3. (Word(st) + 1) * WordBits <= Word(q) * WordBits
    <3>1. Word(st) + 1 \in Nat /\ Word(q) \in Nat /\ WordBits \in Nat
      BY <1>1, <1>2
    <3> QED
      BY <3>1, <2>2, MulMonotone
  <2>4. (Word(st) + 1) * WordBits = Word(st) * WordBits + WordBits
    BY <1>1, <1>2
  <2>5. q >= st
    BY <1>1, <1>2, <2>1, <2>3, <2>4
  <2> QED
    BY <1>1, <1>3, <2>5 DEF FirstPage, st
<1> QED
  BY <1>4, <1>5

\* So the pages of the first zone are reached by its own scan alone, which
\* asks page_free_cnt whether there are n of them.
LEMMA RunFreshInFirstZone ==
  ASSUME Separate, NEW select \in Selectors, NEW n \in Nat,
         NEW s \in FirstFit(select, n), 0 \in ZoneIds,
         NEW P \in SUBSET Pages,
         P \subseteq FirstPage(s[1], s[2]) .. FirstPage(s[1], s[2]) + n - 1,
         TypeOK, NEW S \in SUBSET P, \A p \in S : zone_struct[p] = 0
  PROVE  Cardinality(S) <= page_free_cnt[0] \/ Cardinality(S) = 0
<1> DEFINE i == s[1]
           a == FirstPage(s[1], s[2])
<1>1. /\ i \in ZoneIds /\ s[2] \in Nat /\ s[2] \in Scan(i) /\ page_free_cnt[i] >= n
      /\ a \in Int /\ a >= Zones[i].start - 1
  BY FirstFitFound, RunStartsAtZone
<1> HIDE DEF a
<1>2. CASE i = 0
  <2>1. IsFiniteSet(a .. a + n - 1) /\ Cardinality(a .. a + n - 1) = n
    <3>1. a + n - 1 \in Int /\ a <= (a + n - 1) + 1 /\ (a + n - 1) - a + 1 = n
      BY <1>1
    <3> QED
      BY <1>1, <3>1, CountInterval
  <2>2. S \subseteq a .. a + n - 1
    BY DEF a
  <2>3. Cardinality(S) <= n
    BY <2>1, <2>2, FS_Subset
  <2>4. Cardinality(S) \in Nat
    BY CountPages
  <2>5. page_free_cnt[0] \in Int /\ page_free_cnt[0] >= n
    BY <1>1, <1>2 DEF TypeOK
  <2> QED
    BY <2>3, <2>4, <2>5
<1>3. CASE i # 0
  <2>1. Zones[0].end <= a /\ Zones[0].end \in Nat /\ Zones[0].end >= 1
    <3>1. 0 < i /\ i \in Int
      BY <1>1, <1>3, SizesAssumption DEF ZoneIds
    <3>2. Zones[0].end < Zones[i].start /\ Zones[i].start \in Nat
      BY <1>1, <3>1, ZoneBounds DEF Separate
    <3> QED
      BY <1>1, <3>2, ZoneBounds
  <2>2. ASSUME NEW p \in S PROVE FALSE
    <3>1. p \in Pages /\ p >= Zones[0].end /\ p # 0
      BY <1>1, <2>1 DEF a, Pages
    <3>2. p \in ZonePages(0)
      BY <3>1, ZoneOfPage DEF NULL
    <3> QED
      BY <2>1, <3>1, <3>2, ZoneBounds DEF ZonePages
  <2> QED
    BY <2>2, FS_EmptySet
<1> QED
  BY <1>2, <1>3

\* No zone has more pages in use than page_free_cnt started with.
RoomInv ==
  Separate /\ KernelLeavesRoom =>
    \A z \in ZoneIds : Cardinality(InUse(z)) <= Length(z)

LEMMA OtherZonesHaveRoom ==
  ASSUME NEW z \in ZoneIds, z # 0, NEW S \in SUBSET {p \in Pages : zone_struct[p] = z}
  PROVE  Cardinality(S) <= Length(z)
<1>1. S \subseteq ZonePages(z)
  BY ZoneOfPage, ZoneStructType DEF NULL, ZoneIds
<1>2. /\ IsFiniteSet(ZonePages(z))
      /\ Cardinality(ZonePages(z)) = Length(z)
  <2>1. /\ Zones[z].start \in Int /\ Zones[z].end - 1 \in Int
        /\ Zones[z].start <= (Zones[z].end - 1) + 1
        /\ (Zones[z].end - 1) - Zones[z].start + 1 = Length(z)
    BY ZoneBounds DEF Length
  <2> QED
    BY <2>1, CountInterval DEF ZonePages
<1> QED
  BY <1>1, <1>2, FS_Subset

LEMMA InitRoom == Init => RoomInv
<1> SUFFICES ASSUME Init, KernelLeavesRoom
             PROVE  Cardinality(InUse(0)) <= Length(0)
  BY OtherZonesHaveRoom DEF RoomInv, InUse
<1>0. 0 \in ZoneIds
  BY SizesAssumption DEF ZoneIds
<1> DEFINE st == Zones[0].start
           en == Zones[0].end
<1>1. /\ st \in Nat \ {0} /\ en \in Nat /\ st < en /\ en <= NPages
      /\ LastKernel \in Nat /\ LastKernel < en - 1 /\ NPages \in Nat
  BY <1>0, ZoneBounds, KernelAssumption, SizesAssumption DEF KernelLeavesRoom, Pages
<1>2. InUse(0) \subseteq {0} \cup (st .. en - 2)
  <2> SUFFICES ASSUME NEW p \in Pages, zone_struct[p] = 0, p <= LastKernel, p # 0
               PROVE  p \in st .. en - 2
    BY DEF InUse, Init
  <2>1. p \in ZonePages(0)
    BY ZoneOfPage DEF NULL
  <2> QED
    BY <1>1, <2>1 DEF ZonePages, Pages
<1>3. /\ IsFiniteSet({0} \cup (st .. en - 2))
      /\ Cardinality({0} \cup (st .. en - 2)) = en - st
  <2>1. IsFiniteSet(st .. en - 2) /\ Cardinality(st .. en - 2) = en - 1 - st
    <3> HIDE DEF st, en
    <3> QED
      BY <1>1, CountInterval
  <2>2. 0 \notin st .. en - 2
    BY <1>1
  <2> DEFINE S == st .. en - 2
  <2>3. IsFiniteSet(S \cup {0}) /\ Cardinality(S \cup {0}) = Cardinality(S) + 1
    <3> HIDE DEF S
    <3> QED
      BY <2>1, <2>2, FS_AddElement DEF S
  <2>4. S \cup {0} = {0} \cup S /\ Cardinality(S) = en - 1 - st
    BY <2>1
  <2>5. IsFiniteSet({0} \cup S) /\ Cardinality({0} \cup S) = en - st
    <3> HIDE DEF S, st, en
    <3> QED
      BY <1>1, <2>3, <2>4
  <2> QED
    BY <2>5
<1> QED
  BY <1>1, <1>2, <1>3, FS_Subset DEF Length

\* The counter of a zone with room is exact.
LEMMA FreeIsExact ==
  ASSUME CountsMatch, NEW z \in ZoneIds, Cardinality(InUse(z)) <= Length(z)
  PROVE  page_free_cnt[z] = Length(z) - Cardinality(InUse(z))
<1>1. /\ Cardinality(InUse(z)) \in Nat /\ Length(z) \in Nat /\ Length(z) < CountMod
      /\ CountMod \in Nat \ {0}
  BY CountPages, ZoneBounds, SizesAssumption DEF InUse, Length
<1>2. page_free_cnt[z] = (Length(z) - Cardinality(InUse(z))) % CountMod
  BY DEF CountsMatch
<1>3. \A k \in Nat : k < CountMod => k % CountMod = k
  BY <1>1, ModSmall
<1> QED
  BY <1>1, <1>2, <1>3

LEMMA NextRoom == IInv /\ CountsMatch /\ RoomInv /\ [Next]_vars => RoomInv'
<1> SUFFICES ASSUME IInv, CountsMatch, RoomInv, [Next]_vars,
                    Separate, KernelLeavesRoom
             PROVE  Cardinality(InUse(0)') <= Length(0)
  BY OtherZonesHaveRoom DEF RoomInv, InUse, Length, Separate, KernelLeavesRoom
<1>0. 0 \in ZoneIds
  BY SizesAssumption DEF ZoneIds
<1>1. Cardinality(InUse(0)) <= Length(0) /\ Length(0) \in Nat
  BY <1>0, ZoneBounds DEF RoomInv, Length
<1>2. CASE UNCHANGED tables
  BY <1>1, <1>2 DEF tables, InUse
<1>3. CASE Next /\ ~ UNCHANGED tables
  <2>1. PICK select \in Selectors, n \in Requests, f \in Flags : alloc_pages(select, n, f)
    BY <1>3 DEF Next
  <2>2. n \in Nat
    BY SizesAssumption
  <2>3. \E s \in FirstFit(select, n) : \E P \in SUBSET Pages :
          /\ P \subseteq FirstPage(s[1], s[2]) .. FirstPage(s[1], s[2]) + n - 1
          /\ page_init(P, f)
    BY <2>1, <1>3, GrantInRun, FaultInRun DEF alloc_pages, AllocNone
  <2>4. PICK s \in FirstFit(select, n), P \in SUBSET Pages :
          /\ P \subseteq FirstPage(s[1], s[2]) .. FirstPage(s[1], s[2]) + n - 1
          /\ page_init(P, f)
    BY <2>3
  <2> DEFINE Fresh == {p \in P : zone_struct[p] = 0 /\ attr[p] = "none"}
  <2>5. Cardinality(Fresh) <= page_free_cnt[0] \/ Cardinality(Fresh) = 0
    BY <1>0, <2>2, <2>4, RunFreshInFirstZone DEF IInv
  <2>6. page_free_cnt[0] = Length(0) - Cardinality(InUse(0))
    BY <1>0, <1>1, FreeIsExact
  <2>7. /\ InUse(0)' = InUse(0) \cup Fresh
        /\ InUse(0) \in SUBSET Pages /\ Fresh \in SUBSET Pages
    BY <2>4, PageInitMarks DEF InUse
  <2>8. /\ Cardinality(InUse(0)) \in Nat /\ Cardinality(Fresh) \in Nat
        /\ IsFiniteSet(InUse(0)) /\ IsFiniteSet(Fresh)
    BY <2>7, CountPages
  <2> HIDE DEF Fresh
  <2>9. /\ Cardinality(InUse(0)') <= Cardinality(InUse(0)) + Cardinality(Fresh)
        /\ Cardinality(InUse(0)') \in Nat
    <3>1. Cardinality(InUse(0) \cup Fresh)
            = Cardinality(InUse(0)) + Cardinality(Fresh) - Cardinality(InUse(0) \cap Fresh)
      BY <2>8, FS_Union
    <3>2. Cardinality(InUse(0) \cap Fresh) \in Nat
      BY <2>8, FS_Intersection, FS_CardinalityType
    <3>3. Cardinality(InUse(0) \cup Fresh) \in Nat
      BY <2>8, FS_Union, FS_CardinalityType
    <3>4. Cardinality(InUse(0)') = Cardinality(InUse(0) \cup Fresh)
      BY <2>7
    <3> QED
      BY <2>8, <3>1, <3>2, <3>3, <3>4
  <2> QED
    BY <1>1, <2>5, <2>6, <2>8, <2>9
<1> QED
  BY <1>2, <1>3 DEF vars

\* No request sees more free pages than a zone has: see FreeNeverWraps.
THEOREM FreeCountHolds == Spec => []FreeNeverWraps
<1>1. CountsMatch /\ RoomInv => FreeNeverWraps
  <2> SUFFICES ASSUME CountsMatch, RoomInv, Separate, KernelLeavesRoom, NEW z \in ZoneIds
               PROVE  page_free_cnt[z] <= Length(z)
    BY DEF FreeNeverWraps
  <2>1. Cardinality(InUse(z)) <= Length(z)
    BY DEF RoomInv
  <2>2. Cardinality(InUse(z)) \in Nat /\ Length(z) \in Nat
    BY CountPages, ZoneBounds DEF InUse, Length
  <2> QED
    BY <2>1, <2>2, FreeIsExact
<1> QED
  BY <1>1, InitRoom, NextRoom, Invariance, CountsAgree, PTL DEF Spec

-----------------------------------------------------------------------------
(* References *)

OfZone(z) == {p \in Pages : zone_struct[p] = z}
Linked == \A z \in ZoneIds : tot_pages_link[z] = SumOver(ref_cnt, OfZone(z))

LEMMA LinkedIsLinkMatchesRefs == LinkMatchesRefs <=> Linked
  BY Zenon DEF LinkMatchesRefs, Linked, OfZone, SumOver

LEMMA PageInitLinks ==
  ASSUME IInv, Linked, NEW P \in SUBSET Pages, NEW f \in Flags, page_init(P, f)
  PROVE  Linked'
<1> SUFFICES ASSUME NEW z \in ZoneIds
             PROVE  tot_pages_link'[z] = SumOver(ref_cnt', OfZone(z))
  BY DEF Linked, OfZone
<1> DEFINE T == {p \in P : zone_struct[p] = z /\ Counts(p, f)}
<1>1. IsFiniteSet(OfZone(z)) /\ T \in SUBSET OfZone(z)
  BY CountPages DEF OfZone
<1>2. ref_cnt \in [Pages -> Nat] /\ ref_cnt' \in [Pages -> Nat]
  BY PageInitCounts DEF IInv, TypeOK
<1>3. /\ \A p \in OfZone(z) : ref_cnt[p] \in Nat /\ ref_cnt'[p] \in Nat
      /\ \A p \in T : ref_cnt'[p] = ref_cnt[p] + 1
      /\ \A p \in OfZone(z) \ T : ref_cnt'[p] = ref_cnt[p]
  BY <1>2 DEF page_init, OfZone
<1>4. tot_pages_link'[z] = tot_pages_link[z] + Cardinality(T)
  BY DEF page_init, LinkedIn
<1> HIDE DEF T
<1>5. SumOver(ref_cnt', OfZone(z)) = SumOver(ref_cnt, OfZone(z)) + Cardinality(T)
  BY <1>1, <1>3, SumStep
<1> QED
  BY <1>4, <1>5 DEF Linked

LEMMA InitLinked == Init => Linked
<1> SUFFICES ASSUME Init, NEW z \in ZoneIds
             PROVE  tot_pages_link[z] = SumOver(ref_cnt, OfZone(z))
  BY DEF Linked
<1> DEFINE zero == [p \in Pages |-> 0]
           T == {p \in 0 .. LastKernel : zone_struct[p] = z}
<1>1. IsFiniteSet(OfZone(z)) /\ T \in SUBSET OfZone(z)
  BY CountPages, KernelAssumption, SizesAssumption DEF OfZone, Pages
<1>2. SumOver(zero, OfZone(z)) = 0
  <2>1. \A p \in OfZone(z) : zero[p] = 0
    BY DEF OfZone
  <2> HIDE DEF zero
  <2> QED
    BY <1>1, <2>1, SumZero
<1>3. /\ \A p \in OfZone(z) : zero[p] \in Nat /\ ref_cnt[p] \in Nat
      /\ \A p \in T : ref_cnt[p] = zero[p] + 1
      /\ \A p \in OfZone(z) \ T : ref_cnt[p] = zero[p]
  BY <1>1, KernelAssumption, SizesAssumption DEF Init, OfZone, Pages
<1>4. tot_pages_link[z] = Cardinality(T) /\ Cardinality(T) \in Nat
  <2>1. T \in SUBSET Pages
    BY <1>1 DEF OfZone
  <2> QED
    BY <2>1, CountPages DEF Init, Reserved
<1> HIDE DEF T, zero
<1>5. SumOver(ref_cnt, OfZone(z)) = SumOver(zero, OfZone(z)) + Cardinality(T)
  BY <1>1, <1>3, SumStep
<1> QED
  BY <1>2, <1>4, <1>5

\* tot_pages_link of a zone is the sum of the reference counts of its pages,
\* whatever pages of other zones a call reached: see LinkMatchesRefs.
THEOREM LinksAgree == Spec => []LinkMatchesRefs
<1>1. IInv /\ Linked /\ [Next]_vars => Linked'
  <2> SUFFICES ASSUME IInv, Linked, [Next]_vars PROVE Linked'
    OBVIOUS
  <2>1. CASE UNCHANGED tables
    BY <2>1 DEF tables, Linked
  <2>2. CASE Next /\ ~ UNCHANGED tables
    <3>1. PICK select \in Selectors, n \in Requests, f \in Flags : alloc_pages(select, n, f)
      BY <2>2 DEF Next
    <3>2. \E P \in SUBSET Pages : page_init(P, f)
      BY <3>1, <2>2, FoundFacts, FaultFacts DEF alloc_pages, AllocNone
    <3> QED
      BY <3>2, PageInitLinks
  <2> QED
    BY <2>1, <2>2 DEF vars
<1>2. Spec => []Linked
  BY <1>1, InitLinked, Invariance, PTL DEF Spec
<1> QED
  BY <1>2, LinkedIsLinkMatchesRefs, PTL

-----------------------------------------------------------------------------
(* Single pages *)

\* In the first word a scan from page 1 stops at every page but the last.
LEMMA FirstWordSlots ==
  ASSUME 0 \in ZoneIds, Zones[0].start = 1, NEW p \in Nat, p < WordBits
  PROVE  /\ p \in Scan(0) <=> 1 <= p /\ p < WordBits - 1
         /\ FirstPage(0, p) = p
         /\ 1 <= p => Probe(p, 1) = {p}
<1>1. WordBits \in Nat /\ WordBits >= 2
  BY SizesAssumption
<1>2. p % WordBits = p /\ 1 % WordBits = 1
  BY <1>1, ModSmall
<1>3. Word(p) = 0 /\ Word(1) = 0
  <2>1. \A k \in Nat : k < WordBits => k \div WordBits = 0
    BY <1>1
  <2> QED
    BY <1>1, <2>1 DEF Word
<1>4. Offset(0, p) = 1
  BY <1>2, <1>3 DEF Offset
<1>5. (Word(Zones[0].end) + 1) * WordBits >= WordBits
  <2>1. Word(Zones[0].end) \in Nat
    BY <1>1, ZoneBounds DEF Word
  <2>2. \A d \in Nat : (d + 1) * WordBits >= WordBits
    BY <1>1
  <2> QED
    BY <2>1, <2>2
<1>6. (Word(Zones[0].end) + 1) * WordBits \in Int
  BY <1>1, ZoneBounds DEF Word
<1>7. p \in Scan(0) <=> 1 <= p /\ p < WordBits - 1
  <2>1. p \in Scan(0) <=>
          /\ p \in 0 .. (Word(Zones[0].end) + 1) * WordBits - 1
          /\ p \in 1 .. WordBits - 1 - 1
    BY <1>1, <1>2, <1>3, <1>4 DEF Scan
  <2> QED
    BY <1>1, <1>5, <1>6, <2>1
<1>8. 1 <= p => Probe(p, 1) = {p}
  <2>1. MaskLen(1) = 1
    BY <1>1, MaskFits
  <2> QED
    BY <1>2, <2>1 DEF Probe
<1> QED
  BY <1>4, <1>7, <1>8 DEF FirstPage

\* The slot of a grant is the first one in its zone that fits.
LEMMA FoundLeast ==
  ASSUME NEW select \in Selectors, NEW n \in Requests, NEW f \in Flags,
         AllocFound(select, n, f)
  PROVE  /\ grant'.slot \in Least(Fits(grant'.zone, n))
         /\ grant'.number = n /\ grant'.first = FirstPage(grant'.zone, grant'.slot)
<1>1. PICK s \in FirstFit(select, n) :
        grant' = [zone |-> s[1], slot |-> s[2], first |-> FirstPage(s[1], s[2]),
                  number |-> n, select |-> select]
  BY DEF AllocFound
<1>2. PICK i \in Least(Candidates(select, n)) : s \in {i} \X Least(Fits(i, n))
  BY DEF FirstFit
<1> QED
  BY <1>1, <1>2

\* A request for one page gets the lowest page nobody uses while one of the
\* first 62 is free: see FreshWhileLowFree.
THEOREM LowestPageFirst == Spec => FreshWhileLowFree
<1>1. IInv /\ [Next]_vars =>
        [ /\ LowZone
          /\ grants' # grants
          /\ grant'.number = 1 /\ grant'.select = "ZONE_NORMAL" /\ grant'.zone = 0
          /\ \E p \in ZonePages(0) : p < WordBits - 1 /\ attr[p] = "none"
          => grant'.first \in Least({p \in ZonePages(0) : attr[p] = "none"}) ]_vars
  <2> SUFFICES ASSUME IInv, LowZone, Next, grants' # grants,
                      grant'.number = 1, grant'.zone = 0,
                      NEW p \in ZonePages(0), p < WordBits - 1, attr[p] = "none"
               PROVE  grant'.first \in Least({r \in ZonePages(0) : attr[r] = "none"})
    OBVIOUS
  <2>1. PICK select \in Selectors, n \in Requests, f \in Flags : AllocFound(select, n, f)
    BY DEF Next, alloc_pages, AllocFault, AllocNone
  <2>2. 0 \in ZoneIds /\ WordBits \in Nat /\ WordBits >= 2
    BY SizesAssumption DEF ZoneIds
  <2>3. Zones[0].start = 1 /\ Zones[0].end \in Nat /\ Zones[0].end <= NPages /\ p \in Nat /\ p >= 1
    BY <2>2, ZoneBounds DEF LowZone, ZonePages
  <2> DEFINE q == grant'.slot
  <2>4. n = 1 /\ q \in Least(Fits(0, 1)) /\ grant'.first = FirstPage(0, q)
        /\ q \in Nat /\ q \in Scan(0) /\ Probe(q, 1) \cap bits_map = {}
    BY <2>1, FoundLeast, FoundFacts
  <2> HIDE DEF q
  <2>5. ASSUME NEW r \in ZonePages(0), r < WordBits - 1, attr[r] = "none"
        PROVE  q <= r
    <3>1. r \in Nat /\ r >= 1 /\ r < WordBits /\ r \in Pages
      BY <2>2, <2>3, <2>5, SizesAssumption DEF ZonePages, Pages
    <3>2. r \in Scan(0) /\ Probe(r, 1) = {r}
      BY <2>2, <2>3, <2>5, <3>1, FirstWordSlots
    <3>3. zone_struct[r] # NULL
      BY <2>2, <2>5, <3>1, ZoneStructOf DEF NULL, ZoneIds
    <3>4. r \notin bits_map
      BY <2>5, <3>1, <3>3 DEF IInv, InUseMarked
    <3> QED
      BY <2>4, <3>2, <3>4 DEF Fits, Least
  <2>6. q <= p /\ q < WordBits - 1
    BY <2>2, <2>3, <2>4, <2>5
  <2>7. q >= 1 /\ FirstPage(0, q) = q /\ Probe(q, 1) = {q}
    BY <2>2, <2>3, <2>4, <2>6, FirstWordSlots
  <2>8. q \in ZonePages(0) /\ q \in Pages
    BY <2>3, <2>4, <2>6, <2>7, SizesAssumption DEF ZonePages, Pages
  <2>9. attr[q] = "none"
    BY <2>4, <2>7, <2>8 DEF IInv, InUseMarked
  <2>10. \A r \in ZonePages(0) : attr[r] = "none" => q <= r
    BY <2>2, <2>3, <2>4, <2>5, <2>6 DEF ZonePages
  <2> QED
    BY <2>4, <2>7, <2>8, <2>9, <2>10 DEF Least
<1> QED
  BY <1>1, Invariance, PTL DEF Spec, FreshWhileLowFree

-----------------------------------------------------------------------------
(* Calls that stay in RAM *)

\* The bits that fill up the last word of the map are 1 and stay 1.
PaddingMarked == \A b \in NPages .. MapLen - 1 : b \in bits_map

\* A zone that ends inside the map ends in one of its words.
LEMMA LastWordInMap ==
  ASSUME OneZone
  PROVE  (Word(Zones[0].end) + 1) * WordBits <= MapLen
<1> DEFINE c == (NPages + WordBits - 1) \div WordBits
           e == Word(Zones[0].end)
<1>1. /\ c \in Nat /\ e \in Nat /\ WordBits \in Nat /\ e + 1 \in Nat
      /\ MapLen = c * WordBits /\ e * WordBits <= Zones[0].end
      /\ Zones[0].end \in Nat
  <2>1. 0 \in ZoneIds
    BY DEF OneZone, ZoneIds
  <2> QED
    BY <2>1, ZoneBounds, SizesAssumption DEF MapLen, Word
<1>2. Zones[0].end < MapLen
  BY DEF OneZone
<1> HIDE DEF c, e
<1>3. ~ (c <= e)
  <2>1. c <= e => c * WordBits <= e * WordBits
    BY <1>1, MulMonotone
  <2> QED
    BY <1>1, <1>2, <2>1
<1>4. (e + 1) * WordBits <= c * WordBits
  <2>1. e + 1 <= c
    BY <1>1, <1>3
  <2> QED
    BY <2>1, <1>1, MulMonotone
<1> QED
  BY <1>1, <1>4 DEF e

\* Slots begin at or after the zone's first page, and after it where the
\* scan has moved on to another word.
LEMMA SlotAboveStart ==
  ASSUME OneZone, NEW q \in Nat, q \in Scan(0)
  PROVE  /\ Offset(0, q) \in {0, 1}
         /\ q >= Zones[0].start + 1 - Offset(0, q)
<1> DEFINE st == Zones[0].start
<1>1. /\ 0 \in ZoneIds /\ st \in Nat /\ WordBits \in Nat \ {0}
      /\ st % WordBits = 1
  BY ZoneBounds, SizesAssumption DEF OneZone, ZoneIds
<1>2. /\ Word(st) \in Nat /\ st = Word(st) * WordBits + (st % WordBits)
      /\ st % WordBits < WordBits
      /\ Word(q) \in Nat /\ q = Word(q) * WordBits + (q % WordBits)
      /\ q % WordBits \in Nat /\ q % WordBits < WordBits
  BY <1>1, DivMod DEF Word
<1>3. q >= Word(st) * WordBits /\ q % WordBits >= Offset(0, q)
  BY <1>1, <1>2 DEF Scan, Offset
<1> HIDE DEF st
<1>4. CASE Word(q) = Word(st)
  <2>1. Offset(0, q) = 1
    BY <1>1, <1>4 DEF Offset, st
  <2>2. q >= st
    BY <1>1, <1>2, <1>3, <1>4, <2>1
  <2> QED
    BY <2>1, <2>2, <1>1 DEF st
<1>5. CASE Word(q) # Word(st)
  <2>1. Offset(0, q) = 0
    BY <1>5 DEF Offset, st
  <2>2. ~ (Word(q) + 1 <= Word(st))
    <3>1. Word(q) + 1 <= Word(st) => (Word(q) + 1) * WordBits <= Word(st) * WordBits
      BY <1>1, <1>2, MulMonotone
    <3>2. (Word(q) + 1) * WordBits = Word(q) * WordBits + WordBits
      BY <1>1, <1>2
    <3>3. Word(q) * WordBits \in Nat /\ Word(st) * WordBits \in Nat
      BY <1>1, <1>2
    <3> QED
      BY <3>1, <3>2, <3>3, <1>1, <1>2, <1>3
  <2>3. (Word(st) + 1) * WordBits <= Word(q) * WordBits
    <3>1. Word(st) + 1 \in Nat /\ Word(q) \in Nat /\ WordBits \in Nat
      BY <1>1, <1>2
    <3>2. Word(st) + 1 <= Word(q)
      BY <1>2, <1>5, <2>2
    <3> QED
      BY <3>1, <3>2, MulMonotone
  <2>4. (Word(st) + 1) * WordBits = Word(st) * WordBits + WordBits
    BY <1>1, <1>2
  <2>5. q >= st + 1
    <3>1. Word(q) * WordBits \in Nat /\ Word(st) * WordBits \in Nat
      BY <1>1, <1>2
    <3> QED
      BY <3>1, <2>3, <2>4, <1>1, <1>2
  <2> QED
    BY <2>1, <2>5, <1>1 DEF st
<1> QED
  BY <1>4, <1>5

\* The run of a found slot lies in the zone: its last tested bit is before
\* the bit at the zone's end, which is 1.
LEMMA RunInZone ==
  ASSUME IInv, PaddingMarked, OneZone,
         NEW n \in Nat, 1 <= n, n <= WordBits,
         NEW q \in Nat, q \in Scan(0), Probe(q, n) \cap bits_map = {},
         NEW p \in FirstPage(0, q) .. FirstPage(0, q) + n - 1
  PROVE  p \in Pages /\ zone_struct[p] # NULL
<1> DEFINE st == Zones[0].start
           en == Zones[0].end
<1>1. /\ ZoneIds = {0} /\ st \in Nat \ {0} /\ en \in Nat /\ st < en /\ en <= NPages
      /\ en < MapLen /\ MapLen \in Nat /\ NPages \in Nat
  <2>1. ZoneIds = {0}
    BY DEF OneZone, ZoneIds
  <2> QED
    BY <2>1, ZoneBounds, SizesAssumption DEF OneZone, MapLen
<1>2. \A x \in q .. q + n - 1 : x \notin bits_map
  BY MaskFits DEF Probe
<1>3. \A b \in Nat : en <= b /\ b < MapLen => b \in bits_map
  <2> SUFFICES ASSUME NEW b \in Nat, en <= b, b < MapLen PROVE b \in bits_map
    OBVIOUS
  <2>1. CASE b < NPages
    <3>1. b \in Pages /\ b # 0 /\ b \notin ZonePages(0)
      BY <1>1, <2>1 DEF Pages, ZonePages
    <3>2. zone_struct[b] = NULL
      BY <1>1, <3>1 DEF zone_struct
    <3> QED
      BY <3>1, <3>2 DEF IInv, InUseMarked
  <2>2. CASE b >= NPages
    BY <1>1, <2>2 DEF PaddingMarked
  <2> QED
    BY <1>1, <2>1, <2>2
<1>4. q < MapLen
  <2>1. q <= (Word(en) + 1) * WordBits - 1
    BY DEF Scan
  <2>2. (Word(en) + 1) * WordBits \in Int
    BY <1>1, SizesAssumption DEF Word
  <2> QED
    BY <2>1, <2>2, <1>1, LastWordInMap
<1>5. q < en
  BY <1>1, <1>2, <1>3, <1>4
<1>6. q + n - 1 < en
  <2> SUFFICES ASSUME en <= q + n - 1 PROVE FALSE
    BY <1>1
  <2>1. en \in q .. q + n - 1
    BY <1>1, <1>5
  <2> QED
    BY <2>1, <1>1, <1>2, <1>3
<1>7. st <= p /\ p < en /\ p \in Nat
  <2>1. Offset(0, q) \in {0, 1} /\ q >= st + 1 - Offset(0, q)
    BY SlotAboveStart
  <2> QED
    BY <2>1, <1>1, <1>6 DEF FirstPage
<1>8. p \in Pages /\ p \in ZonePages(0)
  BY <1>1, <1>7 DEF Pages, ZonePages
<1>9. zone_struct[p] \in ZoneIds
  <2>1. p # 0 /\ \E i \in ZoneIds : p \in ZonePages(i)
    BY <1>1, <1>7, <1>8
  <2>2. zone_struct[p] = CHOOSE i \in ZoneIds : p \in ZonePages(i)
    BY <1>8, <2>1 DEF zone_struct
  <2> QED
    BY <2>1, <2>2
<1> QED
  BY <1>1, <1>8, <1>9 DEF NULL

FaultInv == OneZone /\ RequestsFit => ~ crashed /\ PaddingMarked

LEMMA NextFaultInv == IInv /\ FaultInv /\ [Next]_vars => FaultInv'
<1> SUFFICES ASSUME IInv, FaultInv, [Next]_vars, OneZone, RequestsFit
             PROVE  ~ crashed' /\ PaddingMarked'
  BY DEF FaultInv
<1>0. ~ crashed /\ PaddingMarked
  BY DEF FaultInv
<1>1. CASE UNCHANGED vars
  BY <1>0, <1>1 DEF vars, tables, PaddingMarked
<1>2. CASE Next
  <2>0. PICK select \in Selectors, n \in Requests, f \in Flags : alloc_pages(select, n, f)
    BY <1>2 DEF Next
  <2>1. CASE AllocFound(select, n, f)
    <3>1. page_init(GrantedPages(grant'), f) /\ ~ crashed'
      BY <1>0, <2>1, FoundFacts DEF AllocFound
    <3>2. bits_map \subseteq bits_map'
      BY <3>1 DEF page_init
    <3> QED
      BY <1>0, <3>1, <3>2 DEF PaddingMarked
  <2>2. CASE AllocFault(select, n, f)
    <3>1. PICK s \in FirstFit(select, n) :
            \E b \in FirstPage(s[1], s[2]) .. FirstPage(s[1], s[2]) + n - 1 : Bad(b, f)
      BY <2>2 DEF AllocFault, Least
    <3>2. PICK b \in FirstPage(s[1], s[2]) .. FirstPage(s[1], s[2]) + n - 1 : Bad(b, f)
      BY <3>1
    <3>3. n \in Nat /\ n <= WordBits
      BY SizesAssumption DEF RequestsFit
    <3>4. /\ s[1] = 0 /\ s[2] \in Nat /\ s[2] \in Scan(0)
          /\ Probe(s[2], n) \cap bits_map = {}
      <4>1. /\ s[1] \in ZoneIds /\ s[2] \in Nat /\ s[2] \in Scan(s[1])
            /\ s[2] \in Fits(s[1], n)
        BY <3>3, FirstFitFound
      <4>2. ZoneIds = {0}
        BY DEF OneZone, ZoneIds
      <4> QED
        BY <4>1, <4>2 DEF Fits
    <3>5. 1 <= n
      BY <3>2, <3>3, GrantRange
    <3>6. b \in Pages /\ zone_struct[b] # NULL
      BY <1>0, <3>2, <3>3, <3>4, <3>5, RunInZone
    <3> QED
      BY <3>2, <3>6 DEF Bad
  <2>3. CASE AllocNone(select, n, f)
    BY <1>0, <2>3 DEF AllocNone, tables, PaddingMarked
  <2> QED
    BY <2>0, <2>1, <2>2, <2>3 DEF alloc_pages
<1> QED
  BY <1>1, <1>2

\* With all RAM in one zone from bit 1 of a word no call faults, whatever
\* the sequence of requests of up to 64 pages: see NoFault.
THEOREM NeverFaults == Spec => []NoFault
<1>1. Init => FaultInv
  <2> SUFFICES ASSUME Init PROVE ~ crashed /\ PaddingMarked
    BY DEF FaultInv
  <2> QED
    BY DEF Init, PaddingMarked
<1>2. FaultInv => NoFault
  BY DEF FaultInv, NoFault
<1> QED
  BY <1>1, <1>2, NextFaultInv, Invariance, PTL DEF Spec
=============================================================================
