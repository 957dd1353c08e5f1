---------------------------- MODULE FatLoadProofs ----------------------------
(***************************************************************************)
(* Theorems about FatLoad, for every geometry of the disk, every directory *)
(* and every table: the search misses no entry, the walk along the chain   *)
(* loads the file, and on a well-formed volume each step is one FileLoad   *)
(* allows.                                                                 *)
(***************************************************************************)
EXTENDS FatLoad, FoldLemmas

-----------------------------------------------------------------------------
(* Addresses on the disk *)

\* The constants are what the boot sector takes them for.
LEMMA Sizes ==
  /\ Base \in Nat \ {0, 1} /\ BytesPerSec \in Nat \ {0} /\ EntriesPerSec \in Nat \ {0}
  /\ SecPerTrk \in Nat \ {0} /\ rootDirSecs \in Nat \ {0}
  /\ SecNumOfRootDirStart \in Nat \ {0} /\ SecNumOfFAT1Start \in Nat \ {0}
  /\ Window \in Nat \ {0} /\ SecBal = SecNumOfRootDirStart - 2
  /\ Base % 2 = 0
  /\ EndOfChain \in Nat /\ EndOfChain + 1 = Base * Base * Base
<1>1. Base % 2 = 0 => Base # 1
  OBVIOUS
<1>2. Base \in Nat \ {0, 1}
  BY <1>1, VolumeAssumption
<1>3. \A b \in Nat \ {0, 1} : b * b * b - 1 \in Nat /\ (b * b * b - 1) + 1 = b * b * b
  <2> SUFFICES ASSUME NEW b \in Nat \ {0, 1}
               PROVE  b * b * b - 1 \in Nat /\ (b * b * b - 1) + 1 = b * b * b
    OBVIOUS
  <2>1. b * b * b \in Nat \ {0}
    OBVIOUS
  <2> QED
    BY <2>1
<1>4. EndOfChain \in Nat /\ EndOfChain + 1 = Base * Base * Base
  BY <1>2, <1>3 DEF EndOfChain
<1> QED
  BY <1>2, <1>4, VolumeAssumption

\* Cylinder, head and number lead back to the sector they were computed from.
LEMMA SectorIs ==
  ASSUME NEW lba \in Nat
  PROVE  Sector(lba) = lba
<1> DEFINE t == lba \div SecPerTrk
<1>1. t \in Nat /\ lba = t * SecPerTrk + (lba % SecPerTrk) /\ lba % SecPerTrk \in Nat
  BY Sizes
<1> HIDE DEF t
<1>2. (t \div 2) * 2 + (t % 2) = t
  BY <1>1
<1>3. Sector(lba) = ((t \div 2) * 2 + (t % 2)) * SecPerTrk + ((lba % SecPerTrk) + 1) - 1
  BY DEF Sector, SectorAt, Chs, t
<1>4. t * SecPerTrk \in Nat
  BY <1>1, Sizes
<1> QED
  BY <1>1, <1>2, <1>3, <1>4

\* Byte o of the two sectors read from lba on is a byte of the table, also
\* when the second byte of an entry lies in the second sector.
LEMMA LoadedIs ==
  ASSUME NEW f \in Nat, NEW d \in {0, 1}
  PROVE  Loaded(SecNumOfFAT1Start + f \div BytesPerSec, (f % BytesPerSec) + d)
           = Digit(2 * (f + d)) + Base * Digit(2 * (f + d) + 1)
<1> DEFINE q == f \div BytesPerSec
           r == f % BytesPerSec
<1>1. q \in Nat /\ r \in Nat /\ r < BytesPerSec /\ f = q * BytesPerSec + r
      /\ BytesPerSec \in Nat \ {0} /\ SecNumOfFAT1Start \in Nat
  BY Sizes
<1> HIDE DEF q, r
<1> DEFINE s == (r + d) \div BytesPerSec
           o == (r + d) % BytesPerSec
<1>2. s \in {0, 1} /\ o \in Nat /\ r + d = s * BytesPerSec + o
  <2>1. \A B \in Nat \ {0} : \A a \in Nat : a <= B =>
          a \div B \in {0, 1} /\ a % B \in Nat /\ a = (a \div B) * B + (a % B)
    OBVIOUS
  <2>2. r + d \in Nat /\ r + d <= BytesPerSec
    BY <1>1
  <2> QED
    BY <1>1, <2>1, <2>2
<1>3. Sector(SecNumOfFAT1Start + q + s) = SecNumOfFAT1Start + q + s
  BY <1>1, <1>2, SectorIs
<1> HIDE DEF s, o
<1>4. ((SecNumOfFAT1Start + q + s) - SecNumOfFAT1Start) * BytesPerSec + o = f + d
  <2>1. (SecNumOfFAT1Start + q + s) - SecNumOfFAT1Start = q + s
    BY <1>1, <1>2
  <2>2. (q + s) * BytesPerSec = q * BytesPerSec + s * BytesPerSec
    BY <1>1, <1>2
  <2>3. q * BytesPerSec \in Nat /\ s * BytesPerSec \in Nat
    BY <1>1, <1>2
  <2> QED
    BY <1>1, <1>2, <2>1, <2>2, <2>3
<1>5. Loaded(SecNumOfFAT1Start + q, r + d) = FatByte(SecNumOfFAT1Start + q + s, o)
  BY <1>3 DEF Loaded, s, o
<1>6. FatByte(SecNumOfFAT1Start + q + s, o) = Digit(2 * (f + d)) + Base * Digit(2 * (f + d) + 1)
  <2> DEFINE a == SecNumOfFAT1Start + q + s
             b == (a - SecNumOfFAT1Start) * BytesPerSec + o
  <2>1. FatByte(a, o) = Digit(2 * b) + Base * Digit(2 * b + 1)
    <3> HIDE DEF a
    <3> QED
      BY Zenon DEF FatByte
  <2>2. b = f + d
    BY <1>4
  <2> HIDE DEF b
  <2> QED
    BY <2>1, <2>2
<1> QED
  BY <1>5, <1>6 DEF q, r

-----------------------------------------------------------------------------
(* Digits of a table entry *)

\* The three digits of a number make it up.
LEMMA ThreeDigits ==
  ASSUME NEW B \in Nat \ {0, 1}, NEW x \in 0 .. B * B * B - 1
  PROVE  x = ((x \div 1) % B) + B * ((x \div B) % B) + B * B * ((x \div (B * B)) % B)
<1> DEFINE y == x \div B
           z == y \div B
<1>1. x \in Nat /\ x < B * B * B
  <2>1. B * B * B \in Nat
    OBVIOUS
  <2> QED
    BY <2>1
<1>2. y \in Nat /\ x = y * B + (x % B) /\ x % B \in Nat /\ x % B < B
  BY <1>1
<1> HIDE DEF y
<1>3. z \in Nat /\ y = z * B + (y % B) /\ y % B \in Nat /\ y % B < B
  BY <1>2
<1> HIDE DEF z
<1> DEFINE r == (y % B) * B + (x % B)
<1>4. r \in Nat /\ r < B * B
  <2>1. \A a \in Nat : a < B => a * B + B <= B * B
    <3> SUFFICES ASSUME NEW a \in Nat, a < B PROVE a * B + B <= B * B
      OBVIOUS
    <3>1. (a + 1) * B <= B * B
      <4>1. \A m, n, w \in Nat : m <= n => m * w <= n * w
        OBVIOUS
      <4>2. a + 1 \in Nat /\ a + 1 <= B
        OBVIOUS
      <4> QED
        BY <4>1, <4>2
    <3>2. (a + 1) * B = a * B + B
      OBVIOUS
    <3> QED
      BY <3>1, <3>2
  <2>2. (y % B) * B + B <= B * B
    BY <1>3, <2>1
  <2>3. (y % B) * B \in Nat /\ B * B \in Nat
    BY <1>3
  <2> QED
    BY <1>2, <2>2, <2>3
<1>5. x = z * (B * B) + r
  <2>1. (z * B + (y % B)) * B = z * (B * B) + (y % B) * B
    BY <1>3
  <2>2. z * (B * B) \in Nat /\ (y % B) * B \in Nat
    BY <1>3
  <2> QED
    BY <1>2, <1>3, <2>1, <2>2
<1>6. x \div (B * B) = z
  <2>1. B * B \in Nat \ {0}
    OBVIOUS
  <2>2. (z * (B * B) + r) \div (B * B) = z
    <3> HIDE DEF r
    <3>1. \A d \in Nat \ {0} : r < d => (z * d + r) \div d = z
      BY <1>3, <1>4, DivUnique
    <3> QED
      BY <1>4, <2>1, <3>1
  <2> QED
    BY <1>5, <2>2
<1>7. z < B
  <2>1. z >= B => z * (B * B) >= B * (B * B)
    <3>1. \A m, n, w \in Nat : m <= n => m * w <= n * w
      OBVIOUS
    <3>2. B * B \in Nat
      OBVIOUS
    <3> QED
      BY <1>3, <3>1, <3>2
  <2>2. B * (B * B) = B * B * B /\ B * B * B \in Nat /\ z * (B * B) \in Nat
    BY <1>3
  <2> HIDE DEF r
  <2> QED
    BY <1>1, <1>3, <1>4, <1>5, <2>1, <2>2
<1>8. z % B = z /\ x \div 1 = x
  BY <1>1, <1>3, <1>7
<1>9. x = (x % B) + B * (y % B) + B * B * z
  <2>1. B * B * z = z * (B * B) /\ B * (y % B) = (y % B) * B
    BY <1>3
  <2>2. B * B * z \in Nat /\ B * (y % B) \in Nat
    BY <1>3
  <2> QED
    BY <1>2, <1>5, <2>1, <2>2
<1> QED
  BY <1>6, <1>8, <1>9 DEF y

\* Digit 3c + j of the table is digit j of entry c.
LEMMA DigitOf ==
  ASSUME vol \in Volumes, NEW c \in Clusters
  PROVE  /\ Digit(3 * c) = (vol.fat[c] \div 1) % Base
         /\ Digit(3 * c + 1) = (vol.fat[c] \div Base) % Base
         /\ Digit(3 * c + 2) = (vol.fat[c] \div (Base * Base)) % Base
         /\ \A j \in 0 .. 2 : Digit(3 * c + j) \in Nat /\ Digit(3 * c + j) < Base
<1>1. c \in Nat /\ vol.fat[c] \in Nat /\ Base \in Nat \ {0} /\ Base * Base \in Nat \ {0}
  <2>1. c \in Nat /\ vol.fat[c] \in Nat
    BY Sizes, VolumeAssumption DEF Clusters
  <2> QED
    BY <2>1, Sizes
<1>2. /\ (3 * c) \div 3 = c /\ (3 * c) % 3 = 0
      /\ (3 * c + 1) \div 3 = c /\ (3 * c + 1) % 3 = 1
      /\ (3 * c + 2) \div 3 = c /\ (3 * c + 2) % 3 = 2
  BY <1>1
<1>3. /\ Digit(3 * c) = (vol.fat[c] \div 1) % Base
      /\ Digit(3 * c + 1) = (vol.fat[c] \div Base) % Base
      /\ Digit(3 * c + 2) = (vol.fat[c] \div (Base * Base)) % Base
  BY <1>2 DEF Digit
<1>4. \A x, m \in Nat : m # 0 => (x \div m) % Base \in Nat /\ (x \div m) % Base < Base
  <2> SUFFICES ASSUME NEW x \in Nat, NEW m \in Nat, m # 0
               PROVE  (x \div m) % Base \in Nat /\ (x \div m) % Base < Base
    OBVIOUS
  <2>1. x \div m \in Nat
    OBVIOUS
  <2> QED
    BY <1>1, <2>1
<1>5. 3 * c + 0 = 3 * c
  BY <1>1
<1> QED
  BY <1>1, <1>3, <1>4, <1>5

\* Func_GetFATEntry finds the entry of every cluster in the table, though it
\* straddles bytes and may straddle sectors.
LEMMA GetFATEntryIs ==
  ASSUME vol \in Volumes, NEW c \in Clusters
  PROVE  GetFATEntry(c) = vol.fat[c]
<1> DEFINE x == vol.fat[c]
           f == (c * 3) \div 2
           d(j) == Digit(2 * f + j)
           low == x % Base
           mid == (x \div Base) % Base
           high == (x \div (Base * Base)) % Base
           B2 == Base * Base
           B3 == Base * Base * Base
<1>1. /\ c \in Nat /\ f \in Nat /\ x \in Nat /\ x < B3
      /\ Base \in Nat \ {0, 1} /\ B2 \in Nat \ {0} /\ B3 \in Nat \ {0} /\ B3 = Base * B2
      /\ EndOfChain + 1 = B3 /\ c < B3
  <2>1. /\ Base \in Nat \ {0, 1} /\ B2 \in Nat \ {0} /\ B3 \in Nat \ {0} /\ B3 = Base * B2
    BY Sizes
  <2>2. x \in 0 .. B3 - 1 /\ c \in 0 .. B3 - 1
    BY VolumeAssumption DEF Clusters, EndOfChain
  <2> QED
    BY <2>1, <2>2 DEF EndOfChain
<1>2. GetFATEntry(c) =
        LET word == (d(0) + Base * d(1)) + B2 * (d(2) + Base * d(3))
        IN (IF (c * 3) % 2 = 1 THEN word \div Base ELSE word) % B3
  <2> DEFINE q == SecNumOfFAT1Start + f \div BytesPerSec
  <2>1. Loaded(q, f % BytesPerSec) = d(0) + Base * d(1)
    <3>1. (f % BytesPerSec) + 0 = f % BytesPerSec /\ f + 0 = f /\ 2 * f + 0 = 2 * f
      BY <1>1, Sizes
    <3>2. Loaded(q, (f % BytesPerSec) + 0) = Digit(2 * (f + 0)) + Base * Digit(2 * (f + 0) + 1)
      BY <1>1, LoadedIs
    <3> QED
      BY <3>1, <3>2
  <2>2. Loaded(q, (f % BytesPerSec) + 1) = d(2) + Base * d(3)
    <3>1. 2 * (f + 1) = 2 * f + 2 /\ 2 * (f + 1) + 1 = 2 * f + 3
      BY <1>1
    <3>2. Loaded(q, (f % BytesPerSec) + 1) = Digit(2 * (f + 1)) + Base * Digit(2 * (f + 1) + 1)
      BY <1>1, LoadedIs
    <3> QED
      BY <3>1, <3>2
  <2> QED
    BY <1>1, <2>1, <2>2 DEF GetFATEntry
<1>3. x = low + Base * mid + B2 * high /\ low \in Nat /\ mid \in Nat /\ high \in Nat
  <2>1. x \div 1 = x
    BY <1>1
  <2>2. x \in 0 .. B3 - 1
    BY <1>1
  <2>3. x = ((x \div 1) % Base) + Base * mid + B2 * high
    <3> HIDE DEF x
    <3> QED
      BY <1>1, <2>2, ThreeDigits
  <2>4. x % Base \in Nat
    BY <1>1
  <2>5. x \div Base \in Nat /\ x \div B2 \in Nat
    BY <1>1
  <2>6. mid \in Nat /\ high \in Nat
    BY <1>1, <2>5
  <2> QED
    BY <2>1, <2>3, <2>4, <2>6
<1>4. /\ Digit(3 * c) = low /\ Digit(3 * c + 1) = mid /\ Digit(3 * c + 2) = high
  <2>1. x \div 1 = x
    BY <1>1
  <2> QED
    BY <2>1, DigitOf
<1> HIDE DEF x, low, mid, high
<1>5. x \div B3 = 0 /\ x % B3 = x
  BY <1>1
<1>6. CASE c % 2 = 0
  <2>1. 2 * f = 3 * c /\ (c * 3) % 2 = 0
    BY <1>1, <1>6
  <2>2. c + 1 \in Clusters
    <3>1. EndOfChain % 2 = 1
      <4>1. \A b \in Nat : b % 2 = 0 => (b * b * b) % 2 = 0
        <5> SUFFICES ASSUME NEW b \in Nat, b % 2 = 0 PROVE (b * b * b) % 2 = 0
          OBVIOUS
        <5>1. PICK k \in Nat : b = 2 * k
          <6>1. b \div 2 \in Nat /\ b = 2 * (b \div 2)
            OBVIOUS
          <6> QED
            BY <6>1
        <5>2. b * b * b = 2 * (k * b * b) /\ k * b * b \in Nat
          BY <5>1
        <5>3. \A n \in Nat : (2 * n) % 2 = 0
          OBVIOUS
        <5> QED
          BY <5>2, <5>3
      <4>2. B3 % 2 = 0 /\ EndOfChain = B3 - 1
        BY <1>1, <4>1, Sizes DEF EndOfChain
      <4> HIDE DEF B3
      <4> QED
        BY <1>1, <4>2
    <3>2. c # EndOfChain
      BY <1>6, <3>1
    <3> HIDE DEF B3
    <3> QED
      BY <1>1, <3>2, Sizes DEF Clusters
  <2>3. Digit(3 * c + 3) \in Nat
    <3>1. 3 * (c + 1) + 0 = 3 * c + 3 /\ 0 \in 0 .. 2
      BY <1>1
    <3>2. Digit(3 * (c + 1) + 0) \in Nat
      BY <2>2, <3>1, DigitOf
    <3> QED
      BY <3>1, <3>2
  <2>4. d(0) = low /\ d(1) = mid /\ d(2) = high /\ d(3) \in Nat
    <3>1. 3 * c + 0 = 3 * c
      BY <1>1
    <3> QED
      BY <1>4, <2>1, <2>3, <3>1
  <2> HIDE DEF d, f
  <2>5. (d(0) + Base * d(1)) + B2 * (d(2) + Base * d(3)) = d(3) * B3 + x
    <3>1. B2 * (d(2) + Base * d(3)) = B2 * d(2) + d(3) * B3
      BY <1>1, <1>3, <2>4
    <3>2. B2 * d(2) \in Nat /\ d(3) * B3 \in Nat /\ Base * d(1) \in Nat
      BY <1>1, <1>3, <2>4
    <3> QED
      BY <1>3, <2>4, <3>1, <3>2
  <2>6. (d(3) * B3 + x) % B3 = x
    <3> HIDE DEF B3
    <3> QED
      BY <1>1, <2>4, DivUnique
  <2> QED
    BY <1>2, <2>1, <2>5, <2>6 DEF x
<1>7. CASE c % 2 = 1
  <2>1. 2 * f + 1 = 3 * c /\ (c * 3) % 2 = 1 /\ c >= 1
    BY <1>1, <1>7
  <2>2. d(1) = low /\ d(2) = mid /\ d(3) = high
    <3>1. 2 * f + 2 = 3 * c + 1 /\ 2 * f + 3 = 3 * c + 2
      BY <1>1, <2>1
    <3> QED
      BY <1>4, <2>1, <3>1
  <2>3. d(0) \in Nat /\ d(0) < Base
    <3>1. c - 1 \in Clusters /\ 2 \in 0 .. 2
      BY <1>1, <2>1, Sizes DEF Clusters
    <3>2. 3 * (c - 1) + 2 = 2 * f + 0
      BY <1>1, <2>1
    <3>3. Digit(3 * (c - 1) + 2) \in Nat /\ Digit(3 * (c - 1) + 2) < Base
      BY <3>1, DigitOf
    <3> QED
      BY <3>2, <3>3
  <2> HIDE DEF d, f
  <2>4. (d(0) + Base * d(1)) + B2 * (d(2) + Base * d(3)) = x * Base + d(0)
    <3>1. B2 * (d(2) + Base * d(3)) = (Base * d(2)) * Base + (B2 * d(3)) * Base
      BY <1>1, <1>3, <2>2
    <3>2. x * Base = low * Base + (Base * mid) * Base + (B2 * high) * Base
      BY <1>1, <1>3
    <3>3. /\ (Base * mid) * Base \in Nat /\ (B2 * high) * Base \in Nat
          /\ low * Base \in Nat /\ Base * low = low * Base
      BY <1>1, <1>3
    <3> QED
      BY <2>2, <2>3, <3>1, <3>2, <3>3
  <2>5. (x * Base + d(0)) \div Base = x
    BY <1>1, <2>3, DivUnique
  <2> QED
    BY <1>2, <1>5, <2>1, <2>4, <2>5 DEF x
<1> QED
  BY <1>1, <1>6, <1>7

-----------------------------------------------------------------------------
(* The chain of clusters *)

\* The first cluster is the one of the first entry with the name.
LEMMA FirstIs ==
  ASSUME vol \in Volumes, NEW j \in Named, \A i \in Named : j <= i
  PROVE  First = vol.root[j].cluster /\ First \in Clusters
<1>1. Named \subseteq Nat /\ Named \subseteq DOMAIN vol.root
  <2>1. DOMAIN vol.root \subseteq Nat
    BY VolumeAssumption
  <2> QED
    BY <2>1 DEF Named, Index
<1>2. \A i \in Named : (\A h \in Named : i <= h) => i = j
  <2> SUFFICES ASSUME NEW i \in Named, \A h \in Named : i <= h PROVE i = j
    OBVIOUS
  <2>1. i <= j /\ j <= i /\ i \in Nat /\ j \in Nat
    BY <1>1
  <2> QED
    BY <2>1
<1>3. (CHOOSE i \in Named : \A h \in Named : i <= h) = j
  BY <1>2
<1>4. First = vol.root[j].cluster
  BY <1>3 DEF First
<1>5. j \in DOMAIN vol.root
  BY <1>1
<1> QED
  BY <1>4, <1>5, VolumeAssumption

\* Of the entries with the loader's name one is the first.
LEMMA FirstNamed ==
  ASSUME vol \in Volumes, Named # {}
  PROVE  \E j \in Named : \A i \in Named : j <= i
<1>1. Named \in SUBSET Nat
  <2>1. DOMAIN vol.root \subseteq Nat
    BY VolumeAssumption
  <2> QED
    BY <2>1 DEF Named, Index
<1> HIDE DEF Named
<1> QED
  BY <1>1, LeastNatural

\* The recursion that defines the chain does what it says.
LEMMA ChainSteps ==
  ASSUME vol \in Volumes, Named # {}
  PROVE  /\ Chain(0) = First
         /\ \A n \in Nat : Chain(n) \in Clusters /\ Chain(n + 1) = vol.fat[Chain(n)]
<1>1. First \in Clusters
  BY FirstNamed, FirstIs
<1>2. vol.fat \in [Clusters -> Clusters]
  BY VolumeAssumption
<1>3. ASSUME NEW n \in Nat
      PROVE  Chain(n) = Iterate(n, First, vol.fat)
  BY DEF Chain, Iterate, Iterates
<1>4. /\ Iterate(0, First, vol.fat) = First
      /\ \A n \in Nat : /\ Iterate(n, First, vol.fat) \in Clusters
                        /\ Iterate(n + 1, First, vol.fat) = vol.fat[Iterate(n, First, vol.fat)]
  BY <1>1, <1>2, Iteration
<1>5. \A n \in Nat : n + 1 \in Nat
  OBVIOUS
<1> QED
  BY <1>3, <1>4, <1>5

\* A chain that comes back to a cluster goes on as it did from there.
LEMMA ChainRepeats ==
  ASSUME vol \in Volumes, Named # {}, NEW i \in Nat, NEW j \in Nat, Chain(i) = Chain(j)
  PROVE  \A m \in Nat : Chain(i + m) = Chain(j + m)
<1> DEFINE H == {m \in Nat : Chain(i + m) = Chain(j + m)}
<1>1. 0 \in H
  <2>1. i + 0 = i /\ j + 0 = j
    OBVIOUS
  <2> QED
    BY <2>1
<1>2. ASSUME NEW m \in Nat, m \in H
      PROVE  m + 1 \in H
  <2>1. i + m \in Nat /\ j + m \in Nat /\ i + (m + 1) = (i + m) + 1 /\ j + (m + 1) = (j + m) + 1
    OBVIOUS
  <2>2. Chain((i + m) + 1) = vol.fat[Chain(i + m)] /\ Chain((j + m) + 1) = vol.fat[Chain(j + m)]
    BY <2>1, ChainSteps
  <2> QED
    BY <1>2, <2>1, <2>2
<1>3. Nat \subseteq H
  <2> HIDE DEF H
  <2> QED
    BY <1>1, <1>2, SetInduction
<1> QED
  BY <1>3

\* A chain that has an end has it after at most as many steps as there are
\* clusters: a longer walk would have been at some cluster twice.
LEMMA EndIsNear ==
  ASSUME vol \in Volumes, Named # {}, NEW k \in Nat, Chain(k + 1) = EndOfChain,
         \A i \in 1 .. k : Chain(i) # EndOfChain
  PROVE  k + 1 \in 1 .. EndOfChain + 1
<1> SUFFICES ASSUME k > EndOfChain PROVE FALSE
  BY Sizes
<1> DEFINE P == 1 .. k
           C == 0 .. EndOfChain - 1
           f == [i \in P |-> Chain(i)]
<1>1. IsFiniteSet(P) /\ Cardinality(P) = k /\ IsFiniteSet(C) /\ Cardinality(C) = EndOfChain
  <2>1. 1 \in Int /\ k \in Int /\ 0 \in Int /\ EndOfChain - 1 \in Int
    BY Sizes
  <2>2. IsFiniteSet(P) /\ Cardinality(P) = IF 1 > k THEN 0 ELSE k - 1 + 1
    BY <2>1, FS_Interval
  <2>3. IsFiniteSet(C)
        /\ Cardinality(C) = IF 0 > EndOfChain - 1 THEN 0 ELSE EndOfChain - 1 - 0 + 1
    BY <2>1, FS_Interval
  <2> QED
    BY <2>2, <2>3, Sizes
<1>2. f \in [P -> C]
  <2> SUFFICES ASSUME NEW i \in P PROVE Chain(i) \in C
    OBVIOUS
  <2>1. Chain(i) \in Clusters /\ Chain(i) # EndOfChain
    BY ChainSteps
  <2> QED
    BY <2>1, Sizes DEF Clusters
<1>3. PICK i \in P, j \in P : i # j /\ f[i] = f[j]
  <2> HIDE DEF f, P, C
  <2>1. Cardinality(P) > Cardinality(C)
    BY <1>1, Sizes
  <2> QED
    BY <1>1, <1>2, <2>1, FS_PigeonHole
<1>4. ASSUME NEW a \in P, NEW b \in P, a < b, Chain(a) = Chain(b)
      PROVE  FALSE
  <2> DEFINE m == (k + 1) - b
  <2>1. m \in Nat /\ b + m = k + 1 /\ a + m \in 1 .. k /\ a \in Nat /\ b \in Nat
    BY <1>4
  <2> HIDE DEF m
  <2>2. Chain(a + m) = Chain(b + m)
    BY <1>4, <2>1, ChainRepeats
  <2> QED
    BY <2>1, <2>2
<1>5. i < j \/ j < i
  BY <1>3
<1> QED
  BY <1>3, <1>4, <1>5

\* So the first end of the chain gives the length of the file.
LEMMA LengthIs ==
  ASSUME vol \in Volumes, Named # {}, NEW k \in Nat, Chain(k + 1) = EndOfChain,
         \A i \in 1 .. k : Chain(i) # EndOfChain
  PROVE  Length = k + 1
<1>1. k + 1 \in Ends
  BY EndIsNear DEF Ends
<1>2. \A n \in Ends : k + 1 <= n
  BY Sizes DEF Ends
<1>3. \A n \in Ends : (\A m \in Ends : n <= m) => n = k + 1
  <2> SUFFICES ASSUME NEW n \in Ends, \A m \in Ends : n <= m PROVE n = k + 1
    OBVIOUS
  <2>1. n \in Nat /\ n <= k + 1 /\ k + 1 <= n
    BY <1>1, <1>2, Sizes DEF Ends
  <2> QED
    BY <2>1
<1>4. (CHOOSE n \in Ends : \A m \in Ends : n <= m) = k + 1
  BY <1>1, <1>2, <1>3
<1> QED
  BY <1>1, <1>4 DEF Length

-----------------------------------------------------------------------------
(* The invariant *)

\* The entries before the n-th from the start of the directory have another
\* name.
NotBefore(n) == \A i \in 1 .. n : i \notin Named

Searched == (SecNo - SecNumOfRootDirStart) * EntriesPerSec

Search ==
  /\ pc = "search" =>
       /\ (SecNo - SecNumOfRootDirStart) + RootDirSizeForLoop = rootDirSecs
       /\ NotBefore(Searched)
  /\ pc = "compare" =>
       /\ (SecNo - SecNumOfRootDirStart) + RootDirSizeForLoop = rootDirSecs - 1
       /\ root = SecNo
       /\ NotBefore(Searched + entry)

\* The walk is at the k-th cluster of the chain, has met no end before, and
\* has left the sector of each cluster at its place.
Walked(k) ==
  /\ cluster = Chain(k)
  /\ bx = k % Window
  /\ \A i \in 1 .. k : Chain(i) # EndOfChain
  /\ k < Window =>
       \A i \in 0 .. k : i < k \/ pc # "load" => mem[i] = DataSector(Chain(i))
  /\ pc = "done" => Chain(k + 1) = EndOfChain

Walk == pc \in {"load", "next", "done"} => Named # {} /\ \E k \in Nat : Walked(k)

IInv ==
  /\ vol \in Volumes
  /\ TypeOK
  /\ Search
  /\ Walk
  /\ MissingIsAbsent

\* The volume stays in the drive, so what is defined by it stays as it was.
LEMMA SameVolume ==
  ASSUME vol' = vol
  PROVE  /\ Named' = Named
         /\ \A n : Chain(n)' = Chain(n)
         /\ \A n : NotBefore(n)' = NotBefore(n)
<1>1. Named' = Named
  BY DEF Named, Index
<1>2. First' = First
  BY <1>1 DEF First
<1>3. \A n : Chain(n)' = Chain(n)
  BY <1>2 DEF Chain
<1> QED
  BY <1>1, <1>3 DEF NotBefore

\* Nothing is written to the disk.
LEMMA VolumeStays ==
  ASSUME Next
  PROVE  vol' = vol
BY DEF Next, NoLoader, ReadRoot, Differs, NextSector, FileFound, LoadSector, NextCluster

\* The invariant holds when the boot sector starts.
LEMMA InitHolds == Init => IInv
<1> SUFFICES ASSUME Init PROVE IInv
  OBVIOUS
<1> USE Sizes
<1>1. vol \in Volumes /\ pc = "search" /\ SecNo - SecNumOfRootDirStart = 0
  BY DEF Init
<1>2. TypeOK
  BY DEF Init, TypeOK, Clusters
<1>3. Search
  <2>1. Searched = 0
    BY <1>1 DEF Searched
  <2> QED
    BY <1>1, <2>1 DEF Init, Search, NotBefore
<1> QED
  BY <1>1, <1>2, <1>3 DEF IInv, Walk, MissingIsAbsent

\* The entry under comparison, counted from the start of the directory.
LEMMA Compared ==
  ASSUME IInv, pc = "compare", entry < EntriesPerSec
  PROVE  /\ Searched \in Nat /\ entry \in Nat
         /\ Searched + entry + 1 \in DOMAIN vol.root
         /\ DirEntry(root, entry) = vol.root[Searched + entry + 1]
         /\ Matches <=> Searched + entry + 1 \in Named
<1> USE Sizes
<1> DEFINE d == SecNo - SecNumOfRootDirStart
<1>1. /\ d \in Nat /\ d + 1 <= rootDirSecs /\ root = SecNo
      /\ entry \in Nat /\ entry + 1 <= EntriesPerSec
  BY DEF IInv, TypeOK, Search
<1>2. Searched = d * EntriesPerSec
  BY DEF Searched
<1> HIDE DEF d
<1>3. Searched \in Nat /\ Searched + EntriesPerSec <= rootDirSecs * EntriesPerSec
  <2>1. (d + 1) * EntriesPerSec <= rootDirSecs * EntriesPerSec
    <3>1. \A m, n, w \in Nat : m <= n => m * w <= n * w
      OBVIOUS
    <3> QED
      BY <1>1, <3>1
  <2>2. (d + 1) * EntriesPerSec = d * EntriesPerSec + EntriesPerSec /\ d * EntriesPerSec \in Nat
    BY <1>1
  <2>3. rootDirSecs * EntriesPerSec \in Nat
    OBVIOUS
  <2> QED
    BY <1>2, <2>1, <2>2, <2>3
<1>4. DOMAIN vol.root = 1 .. rootDirSecs * EntriesPerSec
  BY VolumeAssumption DEF IInv
<1>5. Searched + entry + 1 \in DOMAIN vol.root
  <2>1. rootDirSecs * EntriesPerSec \in Nat
    OBVIOUS
  <2> QED
    BY <1>1, <1>3, <1>4, <2>1
<1>6. DirEntry(root, entry) = vol.root[Searched + entry + 1]
  BY <1>1 DEF DirEntry, Searched
<1> QED
  BY <1>1, <1>3, <1>5, <1>6 DEF Matches, Named, Index

\* A sector of the directory without the name.
LEMMA SectorSearched ==
  ASSUME IInv, pc = "compare", entry = EntriesPerSec
  PROVE  Searched + entry = ((SecNo + 1) - SecNumOfRootDirStart) * EntriesPerSec
<1> USE Sizes
<1> DEFINE d == SecNo - SecNumOfRootDirStart
<1>1. d \in Nat /\ (SecNo + 1) - SecNumOfRootDirStart = d + 1
  BY DEF IInv, TypeOK
<1>2. Searched = d * EntriesPerSec
  BY DEF Searched
<1> HIDE DEF d
<1>3. d * EntriesPerSec + EntriesPerSec = (d + 1) * EntriesPerSec
  BY <1>1
<1> QED
  BY <1>1, <1>2, <1>3

\* The destination may be reduced to the segment before or after it moves on.
LEMMA NextPlace ==
  \A m \in Nat, w \in Nat \ {0} : ((m % w) + 1) % w = (m + 1) % w
<1> SUFFICES ASSUME NEW m \in Nat, NEW w \in Nat \ {0}
             PROVE  ((m % w) + 1) % w = (m + 1) % w
  OBVIOUS
<1> DEFINE q == m \div w
           r == m % w
<1>1. q \in Nat /\ r \in Nat /\ r < w /\ m = q * w + r
  OBVIOUS
<1> HIDE DEF q
<1>2. CASE r + 1 < w
  <2>1. (q * w + (r + 1)) % w = r + 1 /\ (r + 1) % w = r + 1
    <3> HIDE DEF r
    <3> QED
      BY <1>1, <1>2, DivUnique
  <2>2. m + 1 = q * w + (r + 1)
    BY <1>1
  <2> QED
    BY <2>1, <2>2
<1>3. CASE r + 1 = w
  <2>1. ((q + 1) * w + 0) % w = 0 /\ (1 * w + 0) % w = 0
    <3>1. q + 1 \in Nat /\ 1 \in Nat /\ 0 \in Nat /\ 0 < w
      BY <1>1
    <3>2. \A a \in Nat : (a * w + 0) % w = 0
      BY <3>1, DivUnique
    <3> QED
      BY <3>1, <3>2
  <2>2. (q + 1) * w + 0 = m + 1 /\ 1 * w + 0 = r + 1
    <3>1. (q + 1) * w = q * w + w /\ q * w \in Nat
      BY <1>1
    <3> QED
      BY <1>1, <1>3, <3>1
  <2> QED
    BY <2>1, <2>2
<1> QED
  BY <1>1, <1>2, <1>3

\* Where the code looks for a cluster.
LEMMA DataSectorIs ==
  ASSUME NEW c \in Clusters
  PROVE  c + rootDirSecs + SecBal \in Nat /\ Sector(c + rootDirSecs + SecBal) = DataSector(c)
<1>1. c \in Nat
  BY Sizes DEF Clusters
<1>2. c + rootDirSecs + SecBal \in Nat /\ c + rootDirSecs + SecBal = DataSector(c)
  BY <1>1, Sizes DEF DataSector
<1> QED
  BY <1>2, SectorIs

\* Each step keeps the types,
LEMMA TypeStep ==
  ASSUME IInv, Next
  PROVE  TypeOK'
<1> USE Sizes DEF TypeOK
<1>1. TypeOK /\ vol \in Volumes
  BY DEF IInv
<1>2. CASE NoLoader
  BY <1>1, <1>2 DEF NoLoader
<1>3. CASE ReadRoot
  BY <1>1, <1>3 DEF ReadRoot
<1>4. CASE Differs
  BY <1>1, <1>4 DEF Differs
<1>5. CASE NextSector
  <2>1. SecNo + 1 \in SecNumOfRootDirStart .. SecNumOfRootDirStart + rootDirSecs
    BY <1>1, <1>5 DEF NextSector, IInv, Search
  <2> QED
    BY <1>1, <1>5, <2>1 DEF NextSector
<1>6. CASE FileFound
  <2>1. DirEntry(root, entry).cluster \in Clusters
    BY <1>1, <1>6, Compared, VolumeAssumption DEF FileFound
  <2> QED
    BY <1>1, <1>6, <2>1 DEF FileFound
<1>7. CASE LoadSector
  <2>1. Sector(cluster + rootDirSecs + SecBal) \in Nat
    <3>1. cluster + rootDirSecs + SecBal \in Nat
      BY <1>1, DataSectorIs
    <3> QED
      BY <3>1, SectorIs
  <2>2. mem' \in [0 .. Window - 1 -> Nat]
    BY <1>1, <1>7, <2>1 DEF LoadSector
  <2> QED
    BY <1>1, <1>7, <2>2 DEF LoadSector
<1>8. CASE NextCluster
  <2>1. GetFATEntry(cluster) \in Clusters
    BY <1>1, GetFATEntryIs, VolumeAssumption
  <2>2. (bx + 1) % Window \in 0 .. Window - 1
    BY <1>1
  <2>3. cluster' \in Clusters /\ bx' \in 0 .. Window - 1
    BY <1>1, <1>8, <2>1, <2>2 DEF NextCluster
  <2>4. pc' \in {"load", "done"} /\ UNCHANGED <<SecNo, RootDirSizeForLoop, root, entry, mem>>
    BY <1>8 DEF NextCluster
  <2> QED
    BY <1>1, <2>3, <2>4
<1> QED
  BY <1>2, <1>3, <1>4, <1>5, <1>6, <1>7, <1>8 DEF Next

\* the entries looked at have another name,
LEMMA SearchStep ==
  ASSUME IInv, Next
  PROVE  Search'
<1> USE Sizes
<1>1. TypeOK /\ Search
  BY DEF IInv
<1>2. Named' = Named
  BY SameVolume, VolumeStays
<1>3. SecNo' = SecNo => Searched' = Searched
  BY DEF Searched
<1>4. CASE ReadRoot
  <2>1. root' = SecNo /\ SecNo' = SecNo
    BY <1>1, <1>4, SectorIs DEF ReadRoot, TypeOK
  <2>2. Searched + 0 = Searched
    <3>1. Searched \in Int
      BY <1>1 DEF TypeOK, Searched
    <3> QED
      BY <3>1
  <2>3. NotBefore(Searched + entry)'
    BY <1>1, <1>2, <1>3, <1>4, <2>1, <2>2 DEF ReadRoot, Search, NotBefore
  <2>4. (SecNo' - SecNumOfRootDirStart) + RootDirSizeForLoop' = rootDirSecs - 1
    BY <1>1, <1>4 DEF ReadRoot, Search, TypeOK
  <2> QED
    BY <1>4, <2>1, <2>3, <2>4 DEF ReadRoot, Search
<1>5. CASE Differs
  <2>1. /\ Searched \in Nat /\ entry \in Nat /\ Searched + entry + 1 \notin Named
        /\ NotBefore(Searched + entry)
    BY <1>1, <1>5, Compared DEF Differs, Search
  <2>2. NotBefore(Searched + (entry + 1))
    BY <2>1 DEF NotBefore
  <2> QED
    BY <1>1, <1>2, <1>3, <1>5, <2>2 DEF Differs, Search, NotBefore
<1>6. CASE NextSector
  <2>1. Searched' = Searched + entry
    BY <1>6, SectorSearched DEF NextSector, Searched
  <2>2. NotBefore(Searched)'
    BY <1>1, <1>2, <1>6, <2>1 DEF NextSector, Search, NotBefore
  <2>3. (SecNo' - SecNumOfRootDirStart) + RootDirSizeForLoop' = rootDirSecs
    BY <1>1, <1>6 DEF NextSector, Search, TypeOK
  <2> QED
    BY <1>6, <2>2, <2>3 DEF NextSector, Search
<1>7. CASE NoLoader \/ FileFound \/ LoadSector \/ NextCluster
  <2>1. pc' \notin {"search", "compare"}
    BY <1>7 DEF NoLoader, FileFound, LoadSector, NextCluster
  <2> QED
    BY <2>1 DEF Search
<1> QED
  BY <1>4, <1>5, <1>6, <1>7 DEF Next

\* When the whole directory is searched, no entry has the name.
LEMMA MissingStep ==
  ASSUME IInv, Next
  PROVE  MissingIsAbsent'
<1> USE Sizes
<1>1. CASE NoLoader
  <2>1. SecNo - SecNumOfRootDirStart = rootDirSecs /\ NotBefore(Searched)
    BY <1>1 DEF NoLoader, IInv, Search, TypeOK
  <2>2. Searched = rootDirSecs * EntriesPerSec
    BY <2>1 DEF Searched
  <2>3. DOMAIN vol.root = 1 .. rootDirSecs * EntriesPerSec
    BY VolumeAssumption DEF IInv
  <2>4. Named = {}
    BY <2>1, <2>2, <2>3 DEF NotBefore, Named, Index
  <2> QED
    BY <2>4, SameVolume, VolumeStays DEF MissingIsAbsent
<1>2. CASE ~ NoLoader
  <2>1. pc' # "missing"
    BY <1>2 DEF Next, ReadRoot, Differs, NextSector, FileFound, LoadSector, NextCluster,
                IInv, TypeOK
  <2> QED
    BY <2>1 DEF MissingIsAbsent
<1> QED
  BY <1>1, <1>2

\* and what is loaded is the beginning of the chain.
LEMMA WalkStep ==
  ASSUME IInv, Next
  PROVE  Walk'
<1> USE Sizes
<1>1. TypeOK /\ Walk /\ vol \in Volumes
  BY DEF IInv
<1>2. Named' = Named /\ \A n : Chain(n)' = Chain(n)
  BY SameVolume, VolumeStays
<1>3. CASE FileFound
  <2>1. /\ Searched + entry + 1 \in Named
        /\ cluster' = vol.root[Searched + entry + 1].cluster
        /\ Searched \in Nat /\ entry \in Nat
        /\ NotBefore(Searched + entry)
    BY <1>3, Compared DEF FileFound, IInv, Search
  <2>2. \A i \in Named : i \in Nat \ {0}
    BY VolumeAssumption, <1>1 DEF Named, Index
  <2>3. \A i \in Named : Searched + entry + 1 <= i
    BY <2>1, <2>2 DEF NotBefore
  <2>4. cluster' = First /\ Named # {}
    BY <1>1, <2>1, <2>3, FirstIs
  <2>5. Walked(0)'
    <3>1. cluster' = Chain(0)
      BY <1>1, <2>4, ChainSteps
    <3>2. bx' = 0 % Window /\ pc' = "load"
      BY <1>3 DEF FileFound
    <3> QED
      BY <1>2, <3>1, <3>2 DEF Walked
  <2> QED
    BY <1>2, <2>4, <2>5 DEF Walk
<1>4. CASE LoadSector
  <2>1. PICK k \in Nat : Walked(k)
    BY <1>1, <1>4 DEF LoadSector, Walk
  <2>2. /\ cluster' = cluster /\ bx' = bx /\ pc' = "next"
        /\ mem' = [mem EXCEPT ![bx] = DataSector(cluster)]
    BY <1>1, <1>4, DataSectorIs DEF LoadSector, TypeOK
  <2>3. ASSUME k < Window, NEW i \in 0 .. k
        PROVE  mem'[i] = DataSector(Chain(i))
    <3>1. bx = k /\ mem \in [0 .. Window - 1 -> Nat] /\ i \in 0 .. Window - 1
      <4>1. bx = k % Window /\ mem \in [0 .. Window - 1 -> Nat]
        BY <1>1, <2>1 DEF Walked, TypeOK
      <4>2. \A m, w \in Nat : m < w => m % w = m
        OBVIOUS
      <4> QED
        BY <2>3, <4>1, <4>2
    <3>2. i < k => mem[i] = DataSector(Chain(i))
      BY <2>1, <2>3 DEF Walked
    <3>3. i = k => cluster = Chain(i)
      BY <2>1 DEF Walked
    <3> QED
      BY <2>2, <3>1, <3>2, <3>3
  <2>4. Walked(k)'
    BY <1>2, <2>1, <2>2, <2>3 DEF Walked, DataSector
  <2> QED
    BY <1>1, <1>2, <1>4, <2>4 DEF LoadSector, Walk
<1>5. CASE NextCluster
  <2>1. PICK k \in Nat : Walked(k)
    BY <1>1, <1>5 DEF NextCluster, Walk
  <2>2. Named # {} /\ pc = "next" /\ mem' = mem
    BY <1>1, <1>5 DEF NextCluster, Walk
  <2>3. GetFATEntry(cluster) = Chain(k + 1)
    <3>1. cluster \in Clusters /\ cluster = Chain(k)
      BY <1>1, <2>1 DEF TypeOK, Walked
    <3> QED
      BY <1>1, <2>2, <3>1, ChainSteps, GetFATEntryIs
  <2>4. CASE Chain(k + 1) = EndOfChain
    <3>1. pc' = "done" /\ cluster' = cluster /\ bx' = bx
      BY <1>5, <2>3, <2>4 DEF NextCluster
    <3>2. Walked(k)'
      BY <1>2, <2>1, <2>2, <2>4, <3>1 DEF Walked, DataSector
    <3> QED
      BY <1>2, <2>2, <3>2 DEF Walk
  <2>5. CASE Chain(k + 1) # EndOfChain
    <3>1. pc' = "load" /\ cluster' = Chain(k + 1) /\ bx' = (bx + 1) % Window
      BY <1>5, <2>3, <2>5 DEF NextCluster
    <3>2. bx' = (k + 1) % Window
      <4>1. bx = k % Window
        BY <2>1 DEF Walked
      <4>2. \A m \in Nat, w \in Nat \ {0} : ((m % w) + 1) % w = (m + 1) % w
        BY NextPlace
      <4> QED
        BY <3>1, <4>1, <4>2
    <3>3. \A i \in 1 .. k + 1 : Chain(i) # EndOfChain
      BY <2>1, <2>5 DEF Walked
    <3>4. k + 1 < Window =>
            \A i \in 0 .. k + 1 : i < k + 1 => mem[i] = DataSector(Chain(i))
      BY <2>1, <2>2 DEF Walked
    <3>5. Walked(k + 1)'
      BY <1>2, <2>2, <3>1, <3>2, <3>3, <3>4 DEF Walked, DataSector
    <3> QED
      BY <1>2, <2>2, <3>5 DEF Walk
  <2> QED
    BY <2>4, <2>5
<1>6. CASE NoLoader \/ ReadRoot \/ Differs \/ NextSector
  <2>1. pc' \notin {"load", "next", "done"}
    BY <1>6 DEF NoLoader, ReadRoot, Differs, NextSector
  <2> QED
    BY <2>1 DEF Walk
<1> QED
  BY <1>3, <1>4, <1>5, <1>6 DEF Next

\* Every step keeps the invariant.
LEMMA StepHolds == IInv /\ [Next]_vars => IInv'
<1> SUFFICES ASSUME IInv, [Next]_vars PROVE IInv'
  OBVIOUS
<1>1. CASE Next
  <2>1. vol' \in Volumes
    BY <1>1, VolumeStays DEF IInv
  <2> QED
    BY <1>1, <2>1, TypeStep, SearchStep, WalkStep, MissingStep DEF IInv
<1>2. CASE UNCHANGED vars
  <2>1. Named' = Named /\ (\A n : Chain(n)' = Chain(n)) /\ \A n : NotBefore(n)' = NotBefore(n)
    BY <1>2, SameVolume DEF vars
  <2>2. \A n : Walked(n)' = Walked(n)
    BY <1>2, <2>1 DEF vars, Walked, DataSector
  <2>3. TypeOK' /\ vol' \in Volumes
    BY <1>2 DEF IInv, vars, TypeOK
  <2>4. Search'
    BY <1>2, <2>1 DEF IInv, vars, Search, Searched
  <2>5. Walk' /\ MissingIsAbsent'
    BY <1>2, <2>1, <2>2 DEF IInv, vars, Walk, MissingIsAbsent
  <2> QED
    BY <2>3, <2>4, <2>5 DEF IInv
<1> QED
  BY <1>1, <1>2

\* The invariant holds always.
THEOREM Invariance == Spec => []IInv
<1>1. Init => IInv
  BY InitHolds
<1>2. IInv /\ [Next]_vars => IInv'
  BY StepHolds
<1> QED
  BY <1>1, <1>2, PTL DEF Spec

-----------------------------------------------------------------------------
(* Theorems *)

\* Every variable of the loader keeps its range: it never looks outside the
\* directory, and every number it takes from the table is a cluster's.
THEOREM TypeCorrect == Spec => []TypeOK
<1>1. IInv => TypeOK
  BY DEF IInv
<1> QED
  BY <1>1, Invariance, PTL

\* NO LOADER Found is true, for a directory of any size: the last entry of
\* the last sector is looked at, too.
THEOREM MissingIsTrue == Spec => []MissingIsAbsent
<1>1. IInv => MissingIsAbsent
  BY DEF IInv
<1> QED
  BY <1>1, Invariance, PTL

\* Where the walk ends: the file has a length, and if it fits, its sectors
\* are in memory.
LEMMA DoneIs ==
  ASSUME IInv, pc = "done"
  PROVE  /\ Named # {} /\ Length > 0
         /\ Length <= Window => \A n \in 1 .. Length : mem[n - 1] = DataSector(Chain(n - 1))
<1>1. PICK k \in Nat : Walked(k)
  BY DEF IInv, Walk
<1>2. Named # {} /\ vol \in Volumes
  BY DEF IInv, Walk
<1>3. Length = k + 1
  BY <1>1, <1>2, LengthIs DEF Walked
<1>4. ASSUME k + 1 <= Window, NEW n \in 1 .. k + 1
      PROVE  mem[n - 1] = DataSector(Chain(n - 1))
  <2>1. n - 1 \in 0 .. k /\ k < Window
    BY <1>4, Sizes
  <2> QED
    BY <1>1, <2>1 DEF Walked
<1> QED
  BY <1>2, <1>3, <1>4

\* Where the loader is entered the chain has ended.
LEMMA DoneLoaded == IInv => LoadedWhole
<1> SUFFICES ASSUME IInv, pc = "done"
             PROVE  /\ Length > 0
                    /\ Length <= Window => \A n \in 1 .. Length : mem[n - 1] = File[n]
  BY DEF LoadedWhole
<1>1. Named # {}
  BY DoneIs
<1>2. \A n \in 1 .. Length : File[n] = DataSector(Chain(n - 1))
  BY <1>1 DEF File
<1> QED
  BY <1>2, DoneIs

\* Whatever is on the disk, and whatever its geometry, the loader is entered
\* only with the whole file in memory, its sectors in their order.
THEOREM WholeFile == Spec => []LoadedWhole
BY DoneLoaded, Invariance, PTL

-----------------------------------------------------------------------------
(* FatLoad implements FileLoad *)

\* The file is a matter of the disk alone.
LEMMA SameFile ==
  ASSUME vol' = vol
  PROVE  Length' = Length /\ File' = File /\ WellFormed' = WellFormed
<1>1. Named' = Named /\ \A n : Chain(n)' = Chain(n)
  BY SameVolume
<1>2. Ends' = Ends
  BY <1>1 DEF Ends
<1>3. Length' = Length
  BY <1>2 DEF Length
<1>4. File' = File
  BY <1>1, <1>3 DEF File, DataSector
<1> QED
  BY <1>1, <1>3, <1>4 DEF WellFormed, DataSector

\* A file has at least one sector.
LEMMA FileNotEmpty ==
  ASSUME Named # {}, Length > 0, Length \in Nat
  PROVE  File # <<>>
<1>1. File = [n \in 1 .. Length |-> DataSector(Chain(n - 1))]
  BY DEF File
<1>2. 1 \in DOMAIN File
  BY <1>1
<1> QED
  BY <1>2

\* A step of a well-formed volume's search or walk is one of FileLoad's, or
\* none: the last one loads all at once, or reports that there is nothing.
LEMMA StepImplements ==
  WellFormed /\ MissingIsAbsent' /\ LoadedWhole' /\ Walk' /\ [Next]_vars
    => [Abstract!Next]_(Abstract!vars)
<1> SUFFICES ASSUME WellFormed, MissingIsAbsent', LoadedWhole', Walk', [Next]_vars
             PROVE  [Abstract!Next]_(Abstract!vars)
  OBVIOUS
<1>1. vol' = vol
  BY VolumeStays DEF vars
<1>2. Named' = Named /\ Length' = Length /\ File' = File
  BY <1>1, SameVolume, SameFile
<1>3. CASE NoLoader
  <2>1. pc = "search" /\ pc' = "missing"
    BY <1>3 DEF NoLoader
  <2>2. File = <<>>
    BY <1>2, <2>1 DEF MissingIsAbsent, File
  <2>3. Status = "loading" /\ Status' = "missing" /\ Contents' = Contents
    BY <2>1 DEF Status, Contents
  <2> QED
    BY <1>2, <2>2, <2>3 DEF Abstract!Next, Abstract!Miss
<1>4. CASE NextCluster /\ pc' = "done"
  <2>1. pc = "next" /\ pc' = "done"
    BY <1>4 DEF NextCluster
  <2>2. Named # {}
    BY <1>2, <2>1 DEF Walk
  <2>3. Length \in Nat /\ Length > 0 /\ Length <= Window
    BY <2>2, Sizes DEF WellFormed
  <2>4. \A n \in 1 .. Length : mem'[n - 1] = File[n]
    BY <1>2, <2>1, <2>3 DEF LoadedWhole
  <2>5. File = [n \in 1 .. Length |-> File[n]]
    BY <2>2 DEF File
  <2>6. Contents' = File
    <3>1. Contents' = [n \in 1 .. Length |-> mem'[n - 1]]
      BY <1>2, <2>1 DEF Contents
    <3> QED
      BY <2>4, <2>5, <3>1
  <2>7. Status = "loading" /\ Status' = "done"
    BY <2>1 DEF Status
  <2>8. File # <<>>
    BY <2>2, <2>3, FileNotEmpty
  <2> QED
    BY <1>2, <2>6, <2>7, <2>8 DEF Abstract!Next, Abstract!Load
<1>5. CASE ReadRoot \/ Differs \/ NextSector \/ FileFound \/ LoadSector
           \/ (NextCluster /\ pc' # "done")
  <2>1. pc \notin {"done", "missing"} /\ pc' \notin {"done", "missing"}
    BY <1>5 DEF ReadRoot, Differs, NextSector, FileFound, LoadSector, NextCluster
  <2>2. Status' = Status /\ Contents' = Contents
    BY <2>1 DEF Status, Contents
  <2> QED
    BY <1>2, <2>2 DEF Abstract!vars
<1>6. CASE UNCHANGED vars
  <2>1. Status' = Status /\ Contents' = Contents
    BY <1>2, <1>6 DEF vars, Status, Contents
  <2> QED
    BY <1>2, <2>1 DEF Abstract!vars
<1> QED
  BY <1>3, <1>4, <1>5, <1>6 DEF Next

\* On a well-formed volume the code does what FileLoad allows: the file is
\* there whole and in its order when the loader goes on, and it is said to be
\* missing only if it is.  (That one of the two happens is left to TLC.)
THEOREM Implements ==
  WellFormedInit /\ [][Next]_vars => Abstract!Init /\ [][Abstract!Next]_(Abstract!vars)
<1>1. WellFormedInit => IInv /\ WellFormed
  BY InitHolds DEF WellFormedInit
<1>2. WellFormedInit => Abstract!Init
  BY DEF WellFormedInit, Init, Abstract!Init, Status, Contents
<1>3. IInv /\ [Next]_vars => IInv'
  BY StepHolds
<1>4. WellFormed /\ [Next]_vars => WellFormed'
  <2>1. [Next]_vars => vol' = vol
    BY VolumeStays DEF vars
  <2> QED
    BY <2>1, SameFile
<1>5. IInv => MissingIsAbsent /\ LoadedWhole /\ Walk
  BY DoneLoaded DEF IInv
<1> QED
  BY <1>1, <1>2, <1>3, <1>4, <1>5, StepImplements, PTL
=============================================================================
