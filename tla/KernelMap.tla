------------------------------ MODULE KernelMap ------------------------------
(***************************************************************************)
(* The pages alloc_pages hands out seen through the kernel's page tables:  *)
(* do_fork writes to a page at Phy_To_Virt of its physical address.        *)
(***************************************************************************)
EXTENDS PageAlloc, PageTables

Page1G == 512

-----------------------------------------------------------------------------
(* What memory.h says of the zones *)

\* The comment on ZONE_NORMAL_INDEX: "low 1GB RAM ,was mapped in pagetable".
NormalMapped ==
  grant.select = "ZONE_NORMAL" => \A p \in GrantedPages(grant) : FrameAt(p) = p

\* The comment on ZONE_UNMAPED_INDEX: "above 1GB RAM,unmapped in pagetable".
UnmapedAbove1G ==
  grant.select = "ZONE_UNMAPED" => \A p \in GrantedPages(grant) : p >= Page1G
=============================================================================
