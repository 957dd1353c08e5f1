-------------------------------- MODULE Loader --------------------------------
(***************************************************************************)
(* What loader.asm leaves for init_memory: the BIOS's e820 entries, 20     *)
(* bytes each from 0x7E00 on, where the sectors of the kernel file passed  *)
(* through before, and from 0x8000 on the VBE information it asks for      *)
(* afterwards.  The number of entries is not passed on.  Memory is seen as *)
(* the slots of the kernel's e820 array.                                   *)
(***************************************************************************)
EXTENDS Integers, Sequences

CONSTANTS
  MaxEntries,   \* length of the kernel's e820 array (32 in the code)
  VbeEntry,     \* the first slot that reaches 0x8000 (25 in the code)
  BiosTables,   \* sequences of entries the BIOS may report
  Leftovers     \* what the slots may hold before: functions from Slots

Slots == 0 .. MaxEntries

Entry == [address : Nat, len : Nat, type : Nat]

ASSUME LoaderAssumption ==
  /\ MaxEntries \in Nat \ {0} /\ VbeEntry \in 1 .. MaxEntries
  /\ BiosTables \subseteq Seq(Entry) \ {<<>>}
  /\ Leftovers \subseteq [Slots -> Entry]

VARIABLES
  pc,      \* "e820" and "vbe" in the loader, "stopped" at one of its messages
  bios,    \* the entries the BIOS reports
  stored,  \* memStructNumber
  mem      \* the memory from 0x7E00 on

\* The word type at 0x8004: the VBE version, 0x200 or above, and half of a pointer.
VbeInfo == [address |-> 0, len |-> 1, type |-> 5]

LoaderInit ==
  /\ pc = "e820"
  /\ bios \in BiosTables /\ mem \in Leftovers
  /\ stored = 0

\* int 15h: ebx is 0 with the last entry.
GetMemStruct ==
  /\ pc = "e820"
  /\ mem' = [k \in Slots |-> IF k = stored THEN bios[stored + 1] ELSE mem[k]]
  /\ stored' = stored + 1
  /\ pc' = IF stored' = Len(bios) THEN "vbe" ELSE "e820"
  /\ UNCHANGED bios

\* int 10h, function 4F00h, and the list of modes above 0x8200.
GetVbeInfo ==
  /\ pc = "vbe"
  /\ mem' = [k \in Slots |-> IF k >= VbeEntry THEN VbeInfo ELSE mem[k]]
  /\ pc' = "scan"
  /\ UNCHANGED <<bios, stored>>

\* The carry flag, or ax other than 0x004F.
BiosFails ==
  /\ pc \in {"e820", "vbe"}
  /\ pc' = "stopped"
  /\ stored' = IF pc = "e820" THEN 0 ELSE stored
  /\ UNCHANGED <<bios, mem>>

LoaderNext == GetMemStruct \/ GetVbeInfo \/ BiosFails
===============================================================================
