------------------------------- MODULE FatLoad -------------------------------
(***************************************************************************)
(* boot.asm from the reset of the floppy to the jump into the loader: the  *)
(* search through the root directory of a FAT12 volume and the walk along  *)
(* the file's chain of clusters.  loader.asm has the same code for the     *)
(* kernel, with another destination.                                       *)
(*                                                                         *)
(* A FAT12 entry is three digits to the base 16, a byte two; the base is a *)
(* constant here.  The contents of a sector are its number on the disk.    *)
(***************************************************************************)
EXTENDS Integers, Sequences

CONSTANTS
  Base,                   \* 16 in the code
  BytesPerSec,            \* BPB_BytesPerSec
  EntriesPerSec,          \* directory entries in a sector (10h)
  SecPerTrk,              \* BPB_SecPerTrk
  Cylinders,              \* of the disk, which has two heads
  rootDirSecs, SecNumOfRootDirStart, SecNumOfFAT1Start, SecBal,
  Window,                 \* sectors until bx wraps (64KB: 128)
  Name,                   \* LoaderFileName
  Volumes                 \* volumes: [root |-> directory, fat |-> table]

EndOfChain == Base * Base * Base - 1      \* 0fffh
Clusters == 0 .. EndOfChain

ASSUME VolumeAssumption ==
  /\ {Base, BytesPerSec, EntriesPerSec, SecPerTrk, Cylinders, rootDirSecs,
      SecNumOfRootDirStart, SecNumOfFAT1Start, Window} \subseteq Nat \ {0}
  /\ Base % 2 = 0
  /\ SecBal = SecNumOfRootDirStart - 2
  /\ \A v \in Volumes :
       /\ v.fat \in [Clusters -> Clusters]
       /\ DOMAIN v.root = 1 .. rootDirSecs * EntriesPerSec
       /\ \A k \in DOMAIN v.root : v.root[k].cluster \in Clusters

VARIABLES
  vol,       \* the volume in the drive
  pc,        \* "search", "compare", "load", "next"; "done" or "missing"
  SecNo, RootDirSizeForLoop,
  root,      \* the directory sector at 8000h
  entry,     \* the entry di points to (10h - dx)
  cluster,   \* on the stack: the cluster to load
  bx,        \* destination, in sectors
  mem        \* the sectors at loaderBase:0 on

vars == <<vol, pc, SecNo, RootDirSizeForLoop, root, entry, cluster, bx, mem>>

-----------------------------------------------------------------------------
(* Disk *)

Chs_Mutant(lba) ==  \* without dh: head 0 only
  [cylinder |-> (lba \div SecPerTrk) \div 2, head |-> 0, sector |-> (lba % SecPerTrk) + 1]

\* Where Func_ReadSectors looks for a sector, and the sector that is there.
Chs(lba) ==
  [cylinder |-> (lba \div SecPerTrk) \div 2,
   head |-> (lba \div SecPerTrk) % 2,
   sector |-> (lba % SecPerTrk) + 1]
SectorAt(chs) == (chs.cylinder * 2 + chs.head) * SecPerTrk + chs.sector - 1

\* int 13h reports an error for a place the disk does not have; the code
\* repeats the call without end.
Readable(lba) == Chs(lba).cylinder < Cylinders /\ Chs(lba).sector \in 1 .. SecPerTrk
Sector(lba) == SectorAt(Chs(lba))

\* A directory entry of a sector.
DirEntry(sector, k) ==
  vol.root[(sector - SecNumOfRootDirStart) * EntriesPerSec + k + 1]

\* FAT12: entry n occupies the digits 3n .. 3n+2, the lowest first.
Digit(d) == (vol.fat[d \div 3] \div (CASE d % 3 = 0 -> 1 [] d % 3 = 1 -> Base
                                       [] OTHER -> Base * Base)) % Base
FatByte(sector, o) ==
  LET b == (sector - SecNumOfFAT1Start) * BytesPerSec + o
  IN Digit(2 * b) + Base * Digit(2 * b + 1)

Loaded_Mutant(lba, o) == FatByte(Sector(lba), o % BytesPerSec)  \* one sector is read

\* Func_GetFATEntry: the word at 3c/2 of the two sectors it reads to 8000h.
Loaded(lba, o) == FatByte(Sector(lba + o \div BytesPerSec), o % BytesPerSec)
GetFATEntry_Mutant(c) ==  \* the word is not masked
  LET offset == (c * 3) \div 2
      lba == SecNumOfFAT1Start + offset \div BytesPerSec
      o == offset % BytesPerSec
      word == Loaded(lba, o) + Base * Base * Loaded(lba, o + 1)
  IN IF (c * 3) % 2 = 1 THEN word \div Base ELSE word

GetFATEntry(c) ==
  LET offset == (c * 3) \div 2
      lba == SecNumOfFAT1Start + offset \div BytesPerSec
      o == offset % BytesPerSec
      word == Loaded(lba, o) + Base * Base * Loaded(lba, o + 1)
  IN (IF (c * 3) % 2 = 1 THEN word \div Base ELSE word) % (EndOfChain + 1)

-----------------------------------------------------------------------------
NoLoader_Mutant ==  \* the last sector is not searched
  /\ pc = "search" /\ RootDirSizeForLoop <= 1
  /\ pc' = "missing"
  /\ UNCHANGED <<vol, SecNo, RootDirSizeForLoop, root, entry, cluster, bx, mem>>

NoLoader ==
  /\ pc = "search" /\ RootDirSizeForLoop = 0
  /\ pc' = "missing"
  /\ UNCHANGED <<vol, SecNo, RootDirSizeForLoop, root, entry, cluster, bx, mem>>

ReadRoot ==
  /\ pc = "search" /\ RootDirSizeForLoop > 0
  /\ Readable(SecNo)
  /\ RootDirSizeForLoop' = RootDirSizeForLoop - 1
  /\ root' = Sector(SecNo)
  /\ entry' = 0
  /\ pc' = "compare"
  /\ UNCHANGED <<vol, SecNo, cluster, bx, mem>>

\* Only the name is looked at.
Matches == DirEntry(root, entry).name = Name

Differs ==
  /\ pc = "compare" /\ entry < EntriesPerSec
  /\ ~ Matches
  /\ entry' = entry + 1
  /\ UNCHANGED <<vol, pc, SecNo, RootDirSizeForLoop, root, cluster, bx, mem>>

NextSector ==
  /\ pc = "compare" /\ entry = EntriesPerSec
  /\ SecNo' = SecNo + 1
  /\ pc' = "search"
  /\ UNCHANGED <<vol, RootDirSizeForLoop, root, entry, cluster, bx, mem>>

FileFound ==
  /\ pc = "compare" /\ entry < EntriesPerSec
  /\ Matches
  /\ cluster' = DirEntry(root, entry).cluster
  /\ bx' = 0
  /\ pc' = "load"
  /\ UNCHANGED <<vol, SecNo, RootDirSizeForLoop, root, entry, mem>>

\* bx moves on by a sector and wraps at 64KB.
LoadSector ==
  LET lba == cluster + rootDirSecs + SecBal
  IN /\ pc = "load"
     /\ Readable(lba)
     /\ mem' = [mem EXCEPT ![bx] = Sector(lba)]
     /\ pc' = "next"
     /\ UNCHANGED <<vol, SecNo, RootDirSizeForLoop, root, entry, cluster, bx>>

NextCluster ==
  /\ pc = "next"
  /\ LET c == GetFATEntry(cluster)
     IN IF c = EndOfChain
        THEN pc' = "done" /\ UNCHANGED <<cluster, bx>>
        ELSE pc' = "load" /\ cluster' = c /\ bx' = (bx + 1) % Window
  /\ UNCHANGED <<vol, SecNo, RootDirSizeForLoop, root, entry, mem>>

Init ==
  /\ vol \in Volumes
  /\ pc = "search"
  /\ SecNo = SecNumOfRootDirStart /\ RootDirSizeForLoop = rootDirSecs
  /\ root = 0 /\ entry = 0 /\ cluster = 0 /\ bx = 0
  /\ mem = [s \in 0 .. Window - 1 |-> 0]

Next ==
  \/ NoLoader \/ ReadRoot \/ Differs \/ NextSector \/ FileFound
  \/ LoadSector \/ NextCluster

\* A read that fails is repeated, so it is no step; a sector the disk has is
\* read in the end.
Spec == Init /\ [][Next]_vars /\ WF_vars(Next)

-----------------------------------------------------------------------------
(* The file, by its definition in the volume *)

Index == DOMAIN vol.root
Named == {k \in Index : vol.root[k].name = Name}
First == vol.root[CHOOSE k \in Named : \A j \in Named : k <= j].cluster

\* The n-th cluster of its chain.
Chain(n) ==
  LET c[k \in 0 .. n] == IF k = 0 THEN First ELSE vol.fat[c[k - 1]]
  IN c[n]

\* The number of clusters if the chain comes to its end, else 0: after as many
\* steps as there are clusters it has gone round in a circle.
Ends == {n \in 1 .. EndOfChain + 1 : Chain(n) = EndOfChain}
Length == IF Ends = {} THEN 0 ELSE CHOOSE n \in Ends : \A m \in Ends : n <= m

DataSector(c) == SecNumOfRootDirStart + rootDirSecs + c - 2
File == IF Named = {} THEN <<>> ELSE [n \in 1 .. Length |-> DataSector(Chain(n - 1))]

\* A volume as the tools write it: the file has a chain that ends, of clusters
\* the disk has, and fits into the destination.
WellFormed ==
  Named # {} =>
    /\ Length \in 1 .. Window
    /\ \A n \in 0 .. Length - 1 :
         /\ Chain(n) >= 2
         /\ DataSector(Chain(n)) < 2 * SecPerTrk * Cylinders

WellFormedInit == Init /\ WellFormed
WellFormedSpec == WellFormedInit /\ [][Next]_vars /\ WF_vars(Next)

-----------------------------------------------------------------------------
(* Properties *)

TypeOK ==
  /\ pc \in {"search", "compare", "load", "next", "done", "missing"}
  /\ SecNo \in SecNumOfRootDirStart .. SecNumOfRootDirStart + rootDirSecs
  /\ RootDirSizeForLoop \in 0 .. rootDirSecs
  /\ entry \in 0 .. EntriesPerSec
  /\ cluster \in Clusters /\ bx \in 0 .. Window - 1
  /\ mem \in [0 .. Window - 1 -> Nat]

\* Whatever is on the disk, the loader is only entered with the whole file in
\* memory: its chain has come to its end, and the sectors are those of its
\* clusters in their order, though the entries of the table straddle bytes
\* and sectors and a sector is addressed by cylinder, head and number.
LoadedWhole ==
  pc = "done" =>
    /\ Length > 0
    /\ Length <= Window => \A n \in 1 .. Length : mem[n - 1] = File[n]

\* The message NO LOADER Found is true: no entry of the root directory, its
\* last one included, has the name.
MissingIsAbsent == pc = "missing" => Named = {}

\* On a well-formed volume FatLoad implements FileLoad.
Status == IF pc \in {"done", "missing"} THEN pc ELSE "loading"
Contents == IF pc = "done" THEN [n \in 1 .. Length |-> mem[n - 1]] ELSE <<>>
Abstract == INSTANCE FileLoad WITH file <- File, status <- Status, contents <- Contents
Loads == Abstract!Spec
=============================================================================
