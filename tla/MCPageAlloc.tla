----------------------------- MODULE MCPageAlloc -----------------------------
(***************************************************************************)
(* Instances of PageAlloc for TLC: layouts of zones in words of 4, 8 and   *)
(* 64 bits, and the memory of the configuration in bochsrc.                *)
(***************************************************************************)
EXTENDS PageAlloc

Zone(s, e) == [start |-> s, end |-> e]

\* One zone from page 1 over two and a half words of 4 bits.
LowZones == [i \in 0 .. 0 |-> Zone(1, 10)]

\* Words of 8 bits: a zone at bit 1, one at bit 2, one at a word boundary
\* that ends with the bitmap.
MixedZones ==
  [i \in 0 .. 2 |-> CASE i = 0 -> Zone(1, 5) [] i = 1 -> Zone(10, 14) [] OTHER -> Zone(24, 32)]
MixedSlack == {{}, 32 .. 47}
NoSlack == {{}}
=============================================================================
