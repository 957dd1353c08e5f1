------------------------------- MODULE MCTasks -------------------------------
(***************************************************************************)
(* Machines whose only zone ends at 8, 14, 28 and 30MB: do_fork runs out   *)
(* of pages in RAM, on the screen, with the last page mapped, and out of   *)
(* mapped pages.                                                           *)
(***************************************************************************)
EXTENDS Tasks

UnionAt == 1114112
MCMachines == {4, 7, 14, 15}
==============================================================================
