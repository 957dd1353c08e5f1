------------------------------ MODULE PageTables ------------------------------
(***************************************************************************)
(* The page tables head.S loads, as init_memory leaves them, and           *)
(* Phy_To_Virt seen through them.  Pages and frames are of 2MB.            *)
(***************************************************************************)
EXTENDS Integers

NotMapped == -1
EntriesPerTable == 512
FrameBuffer == 1792     \* 0xe0000000 >> PAGE_2M_SHIFT

\* The frame an entry of __PDE maps, NotMapped for an entry that is 0.
PDE == [e \in 0 .. EntriesPerTable - 1 |->
          CASE e <= 4  -> e
            [] e \in 5 .. 12 -> FrameBuffer + (e - 5)
            [] OTHER -> NotMapped]

\* Entries of __PDPTE and __PML4E that are present; all lead to __PDE.
PDPTE == {0}
PML4E == {0, 256}

\* init_memory clears the first ten entries of __PML4E and flushes the TLB.
PML4AfterInit == PML4E \ (0 .. 9)

\* Virtual 2MB page v of the half of the address space that starts at entry
\* "half" of the PML4.
Translate(half, v) ==
  LET top == half + v \div (EntriesPerTable * EntriesPerTable)
      mid == (v \div EntriesPerTable) % EntriesPerTable
  IN IF top \in PML4AfterInit /\ mid \in PDPTE THEN PDE[v % EntriesPerTable] ELSE NotMapped

\* The frame reached through Phy_To_Virt(p << PAGE_2M_SHIFT).
FrameAt(p) == Translate(256, p)
=============================================================================
