----------------------------- MODULE MCKernelMap -----------------------------
(***************************************************************************)
(* The machine of bochsrc: 2048MB, RAM from 1MB to 0x7fff0000, and a last  *)
(* e820 entry that ends at 4GB.                                            *)
(***************************************************************************)
EXTENDS KernelMap

BochsZones == [i \in 0 .. 0 |-> [start |-> 1, end |-> 1023]]
NoSlack == {{}}
=============================================================================
